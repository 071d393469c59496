----------------------------- MODULE SpopCounts -----------------------------
(***************************************************************************)
(* The SPOP count store of redis_sets.cc: an LRU cache from a key to the   *)
(* number of SPOPs on it, which the command layer bumps after each SPOP    *)
(* (AddAndGetSpopCount) and clears (ResetSpopCount).                        *)
(*                                                                         *)
(* Each cache call is atomic (the cache locks inside Lookup, Insert and    *)
(* Remove), but AddAndGetSpopCount is two calls, a Lookup and an Insert of *)
(* the looked-up count plus one, so a thread has a step between them.     *)
(* The cache holds at most Cap keys and evicts the least recently used.    *)
(***************************************************************************)
EXTENDS Naturals, Sequences, FiniteSets

CONSTANTS
    Keys,      \* user keys
    Procs,     \* threads calling the store
    Cap,       \* capacity of the LRU cache
    MaxCalls   \* calls per thread

ASSUME KeysAssumption == Keys # {}
ASSUME CapAssumption == Cap \in Nat \ {0}
ASSUME MaxCallsAssumption == MaxCalls \in Nat

VARIABLES
    count,   \* key -> cached count, 0 when the key is not cached
    order,   \* the cached keys, most recently used first
    pc,      \* thread -> "idle" or "insert"
    key,     \* thread -> the key of its AddAndGetSpopCount
    old,     \* thread -> old_count, as its Lookup left it
    calls,   \* thread -> calls made
    pops     \* key -> AddAndGetSpopCount calls completed since its last reset

vars == <<count, order, pc, key, old, calls, pops>>

\* No count exceeds the calls made by all threads.
MaxCount == MaxCalls * Cardinality(Procs)

TypeOK ==
    /\ count \in [Keys -> 0 .. MaxCount]
    /\ order \in Seq(Keys)
    /\ pc \in [Procs -> {"idle", "insert"}]
    /\ key \in [Procs -> Keys]
    /\ old \in [Procs -> 0 .. MaxCount]
    /\ calls \in [Procs -> 0 .. MaxCalls]
    /\ pops \in [Keys -> 0 .. MaxCount]

Cached(k) == count[k] # 0

\* The LRU list without k.
Unlink(k) == SelectSeq(order, LAMBDA j : j # k)

\* LRUCache: a hit moves the key to the front.
Touch(k) == <<k>> \o Unlink(k)

-----------------------------------------------------------------------------
\* Mutant: old_count left uninitialised, so a miss leaves any value in it.
LookupNoInit(p, k) ==
    \/ Cached(k) /\ old' = [old EXCEPT ![p] = count[k]]
    \/ ~Cached(k) /\ \E v \in 0 .. MaxCount : old' = [old EXCEPT ![p] = v]

\* size_t old_count = 0; Lookup(key, &old_count): a miss leaves it 0.
Lookup(p, k) == old' = [old EXCEPT ![p] = count[k]]

\* AddAndGetSpopCount, first call: the Lookup, which promotes a hit.
AddLookup(p) ==
    /\ pc[p] = "idle"
    /\ calls[p] < MaxCalls
    /\ \E k \in Keys :
          /\ key' = [key EXCEPT ![p] = k]
          /\ Lookup(p, k)
          /\ order' = IF Cached(k) THEN Touch(k) ELSE order
    /\ pc' = [pc EXCEPT ![p] = "insert"]
    /\ calls' = [calls EXCEPT ![p] = @ + 1]
    /\ UNCHANGED <<count, pops>>

\* Insert(key, old_count + 1): the key goes to the front; a new key in a
\* full cache evicts the least recently used one.
AddInsert(p) ==
    LET k == key[p]
        evict == ~Cached(k) /\ Len(order) = Cap
        victim == order[Len(order)]
    IN  /\ pc[p] = "insert"
        /\ count' = [j \in Keys |-> IF j = k THEN old[p] + 1
                                    ELSE IF evict /\ j = victim THEN 0
                                    ELSE count[j]]
        /\ order' = IF evict THEN <<k>> \o SubSeq(order, 1, Len(order) - 1)
                    ELSE Touch(k)
        /\ pc' = [pc EXCEPT ![p] = "idle"]
        /\ pops' = [pops EXCEPT ![k] = @ + 1]
        /\ UNCHANGED <<key, old, calls>>

\* ResetSpopCount: Remove(key).
ResetSpopCount(p) ==
    /\ pc[p] = "idle"
    /\ calls[p] < MaxCalls
    /\ \E k \in Keys :
          /\ count' = [count EXCEPT ![k] = 0]
          /\ order' = Unlink(k)
          /\ pops' = [pops EXCEPT ![k] = 0]
    /\ calls' = [calls EXCEPT ![p] = @ + 1]
    /\ UNCHANGED <<pc, key, old>>

Init ==
    /\ count = [k \in Keys |-> 0]
    /\ order = <<>>
    /\ pc = [p \in Procs |-> "idle"]
    /\ key = [p \in Procs |-> CHOOSE k \in Keys : TRUE]
    /\ old = [p \in Procs |-> 0]
    /\ calls = [p \in Procs |-> 0]
    /\ pops = [k \in Keys |-> 0]

\* Every thread has made its calls.
Done == \A p \in Procs : pc[p] = "idle" /\ calls[p] = MaxCalls

Next ==
    \/ \E p \in Procs : AddLookup(p) \/ AddInsert(p) \/ ResetSpopCount(p)
    \/ Done /\ UNCHANGED vars

Spec == Init /\ [][Next]_vars

-----------------------------------------------------------------------------
(* Properties. *)

\* The count the store holds for a key, and so the count AddAndGetSpopCount
\* returns, never exceeds the SPOPs made on the key since its last
\* ResetSpopCount: an eviction may only lose counts, so a caller that acts
\* once the count reaches a threshold never acts early.
CountNeverAhead == \A k \in Keys : count[k] <= pops[k]
=============================================================================
