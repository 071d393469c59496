----------------------------- MODULE SetsLocked -----------------------------
(***************************************************************************)
(* The Set mutators of redis_sets.cc as concurrent client threads.         *)
(*                                                                         *)
(* A thread runs one command at a time, in the order the handler does:     *)
(* it takes the record locks of the command's keys one by one (the lock   *)
(* manager acquires them in sorted key order), reads the meta and member   *)
(* records it needs from the DB, and writes.  SADD, SREM and SMOVE write  *)
(* one batch and release their locks when the handler returns.  RENAME     *)
(* writes with two separate Puts, the new key's meta first, and only then *)
(* releases.                                                               *)
(*                                                                         *)
(* The store is the one of SetsStore (meta, data, now), and SetsStore is   *)
(* the abstract specification: every write here must be one of its atomic *)
(* steps.                                                                  *)
(***************************************************************************)
EXTENDS Integers, FiniteSets, Sequences

CONSTANTS
    Keys, Members, NoMeta, MaxCount, MaxTime, ClockSteps,
    SRemArgs, StoreArgs, PopCounts,   \* the constants of SetsStore
    Procs,    \* client threads
    NoProc,   \* owner of a free record lock
    Cmds,     \* the commands a thread may issue
    MaxOps    \* commands per thread

ASSUME ProcsAssumption == NoProc \notin Procs
ASSUME MaxOpsAssumption == MaxOps \in Nat
ASSUME CmdsAssumption ==
    /\ Cmds # {}
    /\ \A c \in Cmds :
          /\ c.op \in {"sadd", "srem", "smove", "rename"}
          /\ c.k \in Keys /\ c.n \in Keys
          /\ c.op = "sadd" => c.arg \in (SUBSET Members) \ {{}}
          /\ c.op = "srem" => c.arg \in SRemArgs
          /\ c.op = "smove" => c.arg \in Members

VARIABLES
    meta, data, now,   \* the store, as in SetsStore
    pc,      \* thread -> "idle", "lock", "read", "write" or "put2"
    cmd,     \* thread -> the command it runs
    owner,   \* key -> the thread holding its record lock, or NoProc
    rmeta,   \* thread -> key -> the meta value it read
    rdata,   \* thread -> the member records it read
    ops      \* thread -> commands started

store == <<meta, data, now>>
vars == <<meta, data, now, pc, cmd, owner, rmeta, rdata, ops>>

\* The atomic store that the threads must implement.
A == INSTANCE SetsStore

NoRead == [k \in Keys |-> NoMeta]

TypeOK ==
    /\ A!TypeOK
    /\ pc \in [Procs -> {"idle", "lock", "read", "write", "put2"}]
    /\ cmd \in [Procs -> Cmds]
    /\ owner \in [Keys -> Procs \cup {NoProc}]
    /\ rmeta \in [Procs -> [Keys -> A!MetaValue \cup {NoMeta}]]
    /\ rdata \in [Procs -> SUBSET (Keys \X Nat \X Members)]
    /\ ops \in [Procs -> 0 .. MaxOps]

-----------------------------------------------------------------------------
(* Locks. *)

\* Mutant: SMOVE and RENAME lock only their source key.
LockKeysSourceOnly(c) == {c.k}

\* The keys a command locks: ScopeRecordLock on the key for SADD and SREM,
\* MultiScopeRecordLock on {source, destination} for SMOVE and RENAME.
LockKeys(c) == IF c.op \in {"smove", "rename"} THEN {c.k, c.n} ELSE {c.k}

\* The keys a command reads and writes.
AccessKeys(c) == IF c.op \in {"smove", "rename"} THEN {c.k, c.n} ELSE {c.k}

Held(p) == {k \in Keys : owner[k] = p}

\* Mutant: the locks are taken in the order the command names its keys.
NextLockArgOrder(p) ==
    LET need == LockKeys(cmd[p]) \ Held(p)
    IN  IF cmd[p].k \in need THEN cmd[p].k ELSE cmd[p].n

\* LockMgr::lock_many: the deduplicated keys are locked in sorted order.
NextLock(p) ==
    LET need == LockKeys(cmd[p]) \ Held(p)
    IN  CHOOSE k \in need : \A j \in need : k <= j

\* The handler returns: its lock guard releases every lock it holds.
Release(p) ==
    /\ owner' = [k \in Keys |-> IF owner[k] = p THEN NoProc ELSE owner[k]]
    /\ pc' = [pc EXCEPT ![p] = "idle"]
    /\ rmeta' = [rmeta EXCEPT ![p] = NoRead]
    /\ rdata' = [rdata EXCEPT ![p] = {}]

-----------------------------------------------------------------------------
(* What a thread read. *)

Read_IsSets(m) == m # NoMeta /\ m.type = "sets"
Read_Live(m) == Read_IsSets(m) /\ ~A!IsStale(m)

\* The version a (re)created key gets from its meta as read and reading t.
Read_NewVersion(m, t) == IF Read_IsSets(m) THEN A!InitialMetaValue(m, t).version ELSE t

Has(p, k, v, x) == <<k, v, x>> \in rdata[p]

-----------------------------------------------------------------------------
(* Steps of a thread. *)

\* A thread picks its next command.
Start(p) ==
    /\ pc[p] = "idle"
    /\ ops[p] < MaxOps
    /\ \E c \in Cmds : cmd' = [cmd EXCEPT ![p] = c]
    /\ pc' = [pc EXCEPT ![p] = "lock"]
    /\ ops' = [ops EXCEPT ![p] = @ + 1]
    /\ UNCHANGED <<meta, data, now, owner, rmeta, rdata>>

\* The thread takes its next record lock, waiting while another holds it.
Acquire(p) ==
    LET k == NextLock(p)
    IN  /\ pc[p] = "lock"
        /\ owner[k] = NoProc
        /\ owner' = [owner EXCEPT ![k] = p]
        /\ pc' = [pc EXCEPT ![p] = IF LockKeys(cmd[p]) \subseteq Held(p) \cup {k}
                                   THEN "read" ELSE "lock"]
        /\ UNCHANGED <<meta, data, now, cmd, rmeta, rdata, ops>>

\* The handler's db_->Get calls of the meta and member records.
Read(p) ==
    /\ pc[p] = "read"
    /\ rmeta' = [rmeta EXCEPT ![p] =
                    [k \in Keys |-> IF k \in AccessKeys(cmd[p]) THEN meta[k] ELSE NoMeta]]
    /\ rdata' = [rdata EXCEPT ![p] = {r \in data : r[1] \in AccessKeys(cmd[p])}]
    /\ pc' = [pc EXCEPT ![p] = "write"]
    /\ UNCHANGED <<meta, data, now, cmd, owner, ops>>

\* The members of ms that SADD k's point reads did not find.
SAddNew(p, k, ms) == {x \in ms : ~Has(p, k, rmeta[p][k].version, x)}

\* The arguments of SREM k that its point reads found.
SRemHits(p, k, args) == {i \in 1 .. Len(args) : Has(p, k, rmeta[p][k].version, args[i])}

\* The handlers' error returns, from what they read: NotFound on a source
\* that is not a live set (or lacks the member), and "set size overflow"
\* when a count check fails.  An error return writes nothing.
SAddOk(p, k, ms) ==
    LET m == rmeta[p][k]
    IN  IF Read_Live(m)
        THEN SAddNew(p, k, ms) # {} => A!CheckModifyCount(m, Cardinality(SAddNew(p, k, ms)))
        ELSE Read_IsSets(m) => Cardinality(ms) <= MaxCount

SRemOk(p, k, args) ==
    /\ Read_Live(rmeta[p][k])
    /\ A!CheckModifyCount(rmeta[p][k], -Cardinality(SRemHits(p, k, args)))

SMoveOk(p, src, dst, x) ==
    LET ms == rmeta[p][src]
        md == rmeta[p][dst]
    IN  /\ Read_Live(ms)
        /\ Has(p, src, ms.version, x)
        /\ A!CheckModifyCount(ms, -1)
        /\ Read_Live(md) /\ ~Has(p, dst, md.version, x) => A!CheckModifyCount(md, 1)

RenameOk(p, k) ==
    LET m == rmeta[p][k]
    IN  m # NoMeta /\ ~A!Expired(m) /\ m.count # 0

CmdOk(p) ==
    LET c == cmd[p]
    IN  \/ c.op = "sadd" /\ SAddOk(p, c.k, c.arg)
        \/ c.op = "srem" /\ SRemOk(p, c.k, c.arg)
        \/ c.op = "smove" /\ SMoveOk(p, c.k, c.n, c.arg)
        \/ c.op = "rename" /\ RenameOk(p, c.k)

\* SADD k ms, from the meta and members read: re-create a key that is not a
\* live set, else add the members not found; the cnt == 0 return writes
\* nothing.
SAddWrite(p, k, ms) ==
    LET m == rmeta[p][k]
        new == SAddNew(p, k, ms)
    IN  \/ /\ ~Read_Live(m)
           /\ \E t \in A!Readings :
                 /\ meta' = [meta EXCEPT ![k] = [type |-> "sets", count |-> Cardinality(ms),
                                                 version |-> Read_NewVersion(m, t), etime |-> 0]]
                 /\ data' = data \cup {<<k, Read_NewVersion(m, t), x>> : x \in ms}
                 /\ now' = t
        \/ /\ Read_Live(m)
           /\ new = {}
           /\ UNCHANGED store
        \/ /\ Read_Live(m)
           /\ new # {}
           /\ meta' = [meta EXCEPT ![k] = [m EXCEPT !.count = @ + Cardinality(new)]]
           /\ data' = data \cup {<<k, m.version, x>> : x \in new}
           /\ UNCHANGED now

\* SREM k args: delete the arguments found, lower the count by the hits.
SRemWrite(p, k, args) ==
    LET m == rmeta[p][k]
        hits == SRemHits(p, k, args)
    IN  /\ meta' = [meta EXCEPT ![k] = [m EXCEPT !.count = @ - Cardinality(hits)]]
        /\ data' = data \ {<<k, m.version, args[i]>> : i \in hits}
        /\ UNCHANGED now

\* SMOVE src dst x, from the source and destination as read before the
\* batch: x leaves the source; the destination is created, gets x, or
\* already has it.
SMoveWrite(p, src, dst, x) ==
    LET ms == rmeta[p][src]
        md == rmeta[p][dst]
        srcMeta == [meta EXCEPT ![src] = [ms EXCEPT !.count = @ - 1]]
        srcData == data \ {<<src, ms.version, x>>}
    IN  \/ /\ ~Read_Live(md)
           /\ \E t \in A!Readings :
                 /\ meta' = [srcMeta EXCEPT ![dst] =
                               [type |-> "sets", count |-> 1,
                                version |-> Read_NewVersion(md, t), etime |-> 0]]
                 /\ data' = srcData \cup {<<dst, Read_NewVersion(md, t), x>>}
                 /\ now' = t
        \/ /\ Read_Live(md)
           /\ ~Has(p, dst, md.version, x)
           /\ meta' = [srcMeta EXCEPT ![dst] = [md EXCEPT !.count = @ + 1]]
           /\ data' = srcData \cup {<<dst, md.version, x>>}
           /\ UNCHANGED now
        \/ /\ Read_Live(md)
           /\ Has(p, dst, md.version, x)
           /\ meta' = srcMeta
           /\ data' = srcData
           /\ UNCHANGED now

\* An error return writes nothing.  SADD, SREM and SMOVE commit their batch
\* and return; RENAME puts the new key's meta, the first of its two Puts,
\* and goes on to the second.
Write(p) ==
    LET c == cmd[p]
    IN  /\ pc[p] = "write"
        /\ \/ /\ ~CmdOk(p)
              /\ UNCHANGED store
              /\ Release(p)
           \/ /\ CmdOk(p)
              /\ c.op \in {"sadd", "srem", "smove"}
              /\ \/ c.op = "sadd" /\ SAddWrite(p, c.k, c.arg)
                 \/ c.op = "srem" /\ SRemWrite(p, c.k, c.arg)
                 \/ c.op = "smove" /\ SMoveWrite(p, c.k, c.n, c.arg)
              /\ Release(p)
           \/ /\ CmdOk(p)
              /\ c.op = "rename"
              /\ meta' = [meta EXCEPT ![c.n] = rmeta[p][c.k]]
              /\ pc' = [pc EXCEPT ![p] = "put2"]
              /\ UNCHANGED <<data, now, owner, rmeta, rdata>>
        /\ UNCHANGED <<cmd, ops>>

\* RENAME's second Put: the old key's meta, reset by InitialMetaValue.
Put2(p) ==
    LET m == rmeta[p][cmd[p].k]
    IN  /\ pc[p] = "put2"
        /\ \E t \in A!Readings :
              /\ meta' = [meta EXCEPT ![cmd[p].k] = A!InitialMetaValue(m, t)]
              /\ now' = t
        /\ Release(p)
        /\ UNCHANGED <<data, cmd, ops>>

-----------------------------------------------------------------------------
Init ==
    /\ A!Init
    /\ pc = [p \in Procs |-> "idle"]
    /\ cmd = [p \in Procs |-> CHOOSE c \in Cmds : TRUE]
    /\ owner = [k \in Keys |-> NoProc]
    /\ rmeta = [p \in Procs |-> NoRead]
    /\ rdata = [p \in Procs |-> {}]
    /\ ops = [p \in Procs |-> 0]

\* Every thread has run its commands.
Finished == \A p \in Procs : pc[p] = "idle" /\ ops[p] = MaxOps

Step(p) == Start(p) \/ Acquire(p) \/ Read(p) \/ Write(p) \/ Put2(p)

Next ==
    \/ \E p \in Procs : Step(p)
    \/ Finished /\ UNCHANGED vars

\* A thread that can run runs: a waiter on a record lock is woken when the
\* lock is released, and the store calls it makes always return.
Fairness == \A p \in Procs : WF_vars(Acquire(p) \/ Read(p) \/ Write(p) \/ Put2(p))

Spec == Init /\ [][Next]_vars /\ Fairness

-----------------------------------------------------------------------------
(* Properties. *)

\* Every write of the threads, seen on the store, is one atomic step of
\* SetsStore, or changes nothing: the record locks and the batch make
\* concurrent SADD, SREM and SMOVE linearizable (spec section 5, I7).
ImplementsAtomicSets == A!Spec

\* As above, with RENAME among the atomic steps (spec 4.3 RENAME).
ImplementsAtomicSetsWithRename == A!SpecWithRename

\* The threads between RENAME's two Puts that have put the meta of key j.
Renaming(j) == {p \in Procs : pc[p] = "put2" /\ cmd[p].n = j}

\* The store as a thread that takes the record locks sees it: while a
\* RENAME is between its Puts, the new key still holds what it held before
\* the first Put (what the renaming thread read of it).
LockedMeta ==
    [j \in Keys |-> IF Renaming(j) = {} THEN meta[j]
                    ELSE rmeta[CHOOSE p \in Renaming(j) : TRUE][j]]

\* The atomic store seen through LockedMeta.
L == INSTANCE SetsStore WITH meta <- LockedMeta

\* To every thread that takes the record locks, RENAME, like every other
\* command, is one atomic step of SetsStore: its two Puts are invisible
\* under the locks, and only a reader that takes none (a snapshot read or
\* a crash) sees the state between them (spec 4.2 and section 5).
ImplementsAtomicSetsUnderLocks == L!SpecWithRename

\* No two threads are between their reads and their last write on a common
\* key: what a thread read stays what the store holds until it writes
\* (spec 4.2, record locks; section 5, point reads under lock).
Busy(p) == pc[p] \in {"read", "write", "put2"}

ExclusiveAccess ==
    \A p, q \in Procs :
        p # q /\ Busy(p) /\ Busy(q) => AccessKeys(cmd[p]) \cap AccessKeys(cmd[q]) = {}

\* Every command a thread starts returns: no two threads wait on each
\* other's record locks (spec 4.2, sorted acquisition of MultiScopeRecordLock).
CommandsComplete == \A p \in Procs : pc[p] = "lock" ~> pc[p] = "idle"
=============================================================================
