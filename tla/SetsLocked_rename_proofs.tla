----------------------- MODULE SetsLocked_rename_proofs -----------------------
(***************************************************************************)
(* Proof that the threads of SetsLocked, RENAME included, implement the    *)
(* atomic store of SetsStore as a thread holding the record locks sees it *)
(* (the refinement mapping LockedMeta), for every number of threads, keys *)
(* and commands.                                                           *)
(***************************************************************************)
EXTENDS SetsLocked_proofs

\* No meta carries an expire time: the threads create metas with etime 0
\* and copy them; only EXPIRE, which no thread runs, sets one.
EtimeZero == \A k \in Keys : meta[k] # NoMeta => meta[k].etime = 0

\* A thread between RENAME's two Puts has put the source meta, which it
\* read and which is still live, under the new key.
Pending ==
    \A p \in Procs : pc[p] = "put2" =>
        /\ cmd[p].op = "rename"
        /\ rmeta[p][cmd[p].k] = meta[cmd[p].k]
        /\ meta[cmd[p].n] = meta[cmd[p].k]
        /\ meta[cmd[p].k] # NoMeta
        /\ meta[cmd[p].k].count # 0

\* The inductive invariant of the refinement under locks.
LockInv ==
    /\ LocksHeld
    /\ MetaOK
    /\ EtimeZero
    /\ DOMAIN rmeta = Procs /\ DOMAIN rdata = Procs
    /\ ReadsCurrent
    /\ Pending

\* The store as LockedMeta sees it.
lstore == <<LockedMeta, data, now>>

\* The store's Cardinality, through the mapped instance, is Cardinality.
LEMMA LCardinalityInstance == \A S : L!Cardinality(S) = Cardinality(S)
BY DEF L!Cardinality, Cardinality

-----------------------------------------------------------------------------
(* The mapping. *)

\* A thread between RENAME's Puts is busy on its new key.
LEMMA RenamerBusy ==
    ASSUME LockInv, NEW j \in Keys, NEW r \in Renaming(j)
    PROVE  /\ r \in Procs /\ pc[r] = "put2" /\ Busy(r)
           /\ cmd[r].op = "rename" /\ cmd[r].n = j
           /\ j \in AccessKeys(cmd[r])
BY DEF Renaming, LockInv, Pending, Busy, AccessKeys

\* Only the thread between RENAME's Puts may be a renamer of a key it
\* accesses: the record locks exclude every other busy thread.
LEMMA RenamerUnique ==
    ASSUME LockInv, NEW q \in Procs, Busy(q), NEW j \in AccessKeys(cmd[q]),
           NEW r \in Renaming(j)
    PROVE  r = q
<1>1. r \in Procs /\ Busy(r) /\ j \in AccessKeys(cmd[r])
  <2>1. j \in Keys
    BY LockKeysAreAccessKeys DEF LockInv, LocksHeld
  <2> QED
    BY <2>1, RenamerBusy
<1>2. ExclusiveAccess
  BY LocksHeldExclusive DEF LockInv
<1> QED
  BY <1>1, <1>2 DEF ExclusiveAccess

\* With no renamer, the mapped meta of j is the store's.
LEMMA NoRenamer ==
    ASSUME NEW j \in Keys, Renaming(j) = {}
    PROVE  LockedMeta[j] = meta[j]
BY DEF LockedMeta

\* The same, after a step.
LEMMA NoRenamerAfter ==
    ASSUME NEW j \in Keys, Renaming(j)' = {}
    PROVE  LockedMeta'[j] = meta'[j]
BY DEF LockedMeta

\* A renamer whose read of j is the store leaves the mapped meta of j as
\* the store's.
LEMMA RenamerReadIsMeta ==
    ASSUME NEW j \in Keys, \A r \in Renaming(j) : rmeta[r][j] = meta[j]
    PROVE  LockedMeta[j] = meta[j]
BY DEF LockedMeta

\* A step that keeps the renamers of j, what they read of j, and (when
\* there is none) the meta of j, keeps the mapped meta of j.
LEMMA SameRenamers ==
    ASSUME NEW j \in Keys, Renaming(j)' = Renaming(j),
           \A r \in Renaming(j) : rmeta'[r][j] = rmeta[r][j],
           Renaming(j) = {} => meta'[j] = meta[j]
    PROVE  LockedMeta'[j] = LockedMeta[j]
BY DEF LockedMeta

-----------------------------------------------------------------------------
(* An atomic step on the store is the same step on the mapped store when  *)
(* the mapping agrees with the store on the step's keys and keeps the     *)
(* others.                                                                 *)

\* The decoding operators do not look at other keys.
LEMMA SameDecoding ==
    ASSUME NEW k \in Keys, LockedMeta[k] = meta[k]
    PROVE  /\ L!IsSets(k) = A!IsSets(k)
           /\ L!LiveSet(k) = A!LiveSet(k)
           /\ L!WrongType(k) = A!WrongType(k)
           /\ \A t : L!NewVersion(k, t) = A!NewVersion(k, t)
           /\ \A v : L!MembersAt(k, v) = A!MembersAt(k, v)
           /\ L!Readings = A!Readings
BY DEF L!IsSets, A!IsSets, L!LiveSet, A!LiveSet, L!WrongType, A!WrongType,
       L!IsStale, A!IsStale, L!Expired, A!Expired, L!NewVersion, A!NewVersion,
       L!InitialMetaValue, A!InitialMetaValue, L!MembersAt, A!MembersAt,
       L!Readings, A!Readings

LEMMA SAddTransfer ==
    ASSUME NEW k \in Keys, NEW ms, DOMAIN meta = Keys,
           LockedMeta[k] = meta[k],
           LockedMeta' = [LockedMeta EXCEPT ![k] = meta'[k]],
           A!SAdd(k, ms)
    PROVE  L!SAdd(k, ms)
<1>1. /\ L!IsSets(k) = A!IsSets(k)
      /\ L!LiveSet(k) = A!LiveSet(k)
      /\ L!WrongType(k) = A!WrongType(k)
      /\ \A t : L!NewVersion(k, t) = A!NewVersion(k, t)
      /\ \A v : L!MembersAt(k, v) = A!MembersAt(k, v)
      /\ L!Readings = A!Readings
  BY SameDecoding
<1>2. CASE /\ ~A!LiveSet(k)
           /\ ~A!WrongType(k)
           /\ A!IsSets(k) => A!Cardinality(ms) <= MaxCount
           /\ \E t \in A!Readings : A!Create(k, ms, t)
  <2>1. PICK t \in A!Readings : A!Create(k, ms, t)
    BY <1>2
  <2> DEFINE R == [type |-> "sets", count |-> Cardinality(ms),
                    version |-> A!NewVersion(k, t), etime |-> 0]
  <2>2. meta'[k] = R
    BY <2>1, CardinalityInstance DEF A!Create
  <2>3. LockedMeta' = [LockedMeta EXCEPT ![k] = R]
    BY <2>2
  <2>4. /\ data' = data \cup {<<k, A!NewVersion(k, t), x>> : x \in ms}
        /\ now' = t
    BY <2>1 DEF A!Create
  <2>5. L!NewVersion(k, t) = A!NewVersion(k, t) /\ L!Cardinality(ms) = Cardinality(ms)
    BY <1>1, LCardinalityInstance
  <2>6. L!Create(k, ms, t)
    BY <2>3, <2>4, <2>5 DEF L!Create
  <2> QED
    BY <1>1, <1>2, <2>6, CardinalityInstance, LCardinalityInstance DEF L!SAdd
<1>3. CASE /\ A!LiveSet(k)
           /\ LET v == meta[k].version
                  new == ms \ A!MembersAt(k, v)
              IN  /\ new # {}
                  /\ A!CheckModifyCount(meta[k], A!Cardinality(new))
                  /\ meta' = [meta EXCEPT ![k].count = @ + A!Cardinality(new)]
                  /\ data' = data \cup {<<k, v, x>> : x \in new}
                  /\ UNCHANGED now
  BY <1>1, <1>3, CardinalityInstance, LCardinalityInstance
     DEF L!SAdd, L!CheckModifyCount, A!CheckModifyCount
<1> QED
  BY <1>2, <1>3 DEF A!SAdd

LEMMA SRemTransfer ==
    ASSUME NEW k \in Keys, NEW args, DOMAIN meta = Keys,
           LockedMeta[k] = meta[k],
           LockedMeta' = [LockedMeta EXCEPT ![k] = meta'[k]],
           A!SRem(k, args)
    PROVE  L!SRem(k, args)
<1>1. L!LiveSet(k) = A!LiveSet(k)
  BY SameDecoding
<1> QED
  BY <1>1, CardinalityInstance, LCardinalityInstance, LenInstance
     DEF A!SRem, L!SRem, L!CheckModifyCount, A!CheckModifyCount

\* SMOVE moves the metas of its two keys, which the mapping shows as the
\* store does; every other key keeps its mapped meta.
LEMMA SMoveTransfer ==
    ASSUME NEW src \in Keys, NEW dst \in Keys, NEW x, DOMAIN meta = Keys,
           LockedMeta[src] = meta[src], LockedMeta[dst] = meta[dst],
           \A j \in Keys : LockedMeta'[j] = IF j \in {src, dst} THEN meta'[j] ELSE LockedMeta[j],
           A!SMove(src, dst, x)
    PROVE  L!SMove(src, dst, x)
<1> DEFINE ms == meta[src]
           md == meta[dst]
           LS == [LockedMeta EXCEPT ![src].count = @ - 1]
<1>1. /\ L!LiveSet(src) = A!LiveSet(src)
      /\ L!LiveSet(dst) = A!LiveSet(dst)
      /\ L!WrongType(dst) = A!WrongType(dst)
      /\ \A t : L!NewVersion(dst, t) = A!NewVersion(dst, t)
      /\ L!Readings = A!Readings
  BY SameDecoding
<1>2. /\ LockedMeta = [j \in Keys |-> LockedMeta[j]]
      /\ LockedMeta' = [j \in Keys |-> LockedMeta'[j]]
  BY DEF LockedMeta
<1>3. /\ A!LiveSet(src)
      /\ <<src, ms.version, x>> \in data
      /\ A!CheckModifyCount(ms, -1)
      /\ ~A!WrongType(dst)
  BY DEF A!SMove
<1>4. CASE /\ ~A!LiveSet(dst)
           /\ \E t \in A!Readings :
                 /\ meta' = [[meta EXCEPT ![src].count = @ - 1] EXCEPT ![dst] =
                               [type |-> "sets", count |-> 1,
                                version |-> A!NewVersion(dst, t), etime |-> 0]]
                 /\ data' = (data \ {<<src, ms.version, x>>}) \cup {<<dst, A!NewVersion(dst, t), x>>}
                 /\ now' = t
  <2>1. PICK t \in A!Readings :
          /\ meta' = [[meta EXCEPT ![src].count = @ - 1] EXCEPT ![dst] =
                        [type |-> "sets", count |-> 1,
                         version |-> A!NewVersion(dst, t), etime |-> 0]]
          /\ data' = (data \ {<<src, ms.version, x>>}) \cup {<<dst, A!NewVersion(dst, t), x>>}
          /\ now' = t
    BY <1>4
  <2> DEFINE R == [type |-> "sets", count |-> 1, version |-> L!NewVersion(dst, t), etime |-> 0]
  <2>2. ASSUME NEW j \in Keys PROVE LockedMeta'[j] = [LS EXCEPT ![dst] = R][j]
    <3>1. CASE j = dst
      BY <1>1, <1>2, <2>1, <3>1
    <3>2. CASE j = src /\ j # dst
      BY <1>2, <2>1, <3>2
    <3>3. CASE j \notin {src, dst}
      BY <1>2, <2>1, <3>3
    <3> QED
      BY <3>1, <3>2, <3>3
  <2>3. LockedMeta' = [LS EXCEPT ![dst] = R]
    BY <1>2, <2>2
  <2> QED
    BY <1>1, <1>3, <1>4, <2>1, <2>3 DEF L!SMove, L!CheckModifyCount, A!CheckModifyCount
<1>5. CASE /\ A!LiveSet(dst)
           /\ <<dst, md.version, x>> \notin data
           /\ A!CheckModifyCount(md, 1)
           /\ meta' = [[meta EXCEPT ![src].count = @ - 1] EXCEPT ![dst] = [md EXCEPT !.count = @ + 1]]
           /\ data' = (data \ {<<src, ms.version, x>>}) \cup {<<dst, md.version, x>>}
           /\ UNCHANGED now
  <2>1. ASSUME NEW j \in Keys
        PROVE  LockedMeta'[j] = [LS EXCEPT ![dst] = [LockedMeta[dst] EXCEPT !.count = @ + 1]][j]
    <3>1. CASE j = dst
      BY <1>2, <1>5, <3>1
    <3>2. CASE j = src /\ j # dst
      BY <1>2, <1>5, <3>2
    <3>3. CASE j \notin {src, dst}
      BY <1>2, <1>5, <3>3
    <3> QED
      BY <3>1, <3>2, <3>3
  <2>2. LockedMeta' = [LS EXCEPT ![dst] = [LockedMeta[dst] EXCEPT !.count = @ + 1]]
    BY <1>2, <2>1
  <2> QED
    BY <1>1, <1>3, <1>5, <2>2 DEF L!SMove, L!CheckModifyCount, A!CheckModifyCount
<1>6. CASE /\ A!LiveSet(dst)
           /\ <<dst, md.version, x>> \in data
           /\ meta' = [meta EXCEPT ![src].count = @ - 1]
           /\ data' = data \ {<<src, ms.version, x>>}
           /\ UNCHANGED now
  <2>1. ASSUME NEW j \in Keys PROVE LockedMeta'[j] = LS[j]
    <3>1. CASE j = src
      BY <1>2, <1>6, <3>1
    <3>2. CASE j # src
      BY <1>2, <1>6, <3>2
    <3> QED
      BY <3>1, <3>2
  <2>2. LockedMeta' = LS
    BY <1>2, <2>1
  <2> QED
    BY <1>1, <1>3, <1>6, <2>2 DEF L!SMove, L!CheckModifyCount, A!CheckModifyCount
<1> QED
  BY <1>4, <1>5, <1>6 DEF A!SMove

\* The atomic SADD, SREM and SMOVE write metas with no expire time, or
\* keep the one the meta had.
LEMMA AtomicEtime ==
    ASSUME MetaOK, EtimeZero, NEW k \in Keys, NEW n \in Keys, NEW arg,
           \/ A!SAdd(k, arg)
           \/ A!SRem(k, arg)
           \/ A!SMove(k, n, arg)
    PROVE  EtimeZero'
<1>1. ASSUME NEW j \in Keys, A!LiveSet(j) PROVE IsSetsMeta(meta[j]) /\ meta[j].etime = 0
  BY <1>1 DEF A!LiveSet, A!IsSets, MetaOK, EtimeZero
<1>2. CASE A!SAdd(k, arg)
  <2>1. CASE \E t \in A!Readings : A!Create(k, arg, t)
    BY <2>1 DEF A!Create, MetaOK, EtimeZero
  <2>2. CASE A!LiveSet(k) /\ \E d : meta' = [meta EXCEPT ![k].count = @ + d]
    BY <1>1, <2>2 DEF MetaOK, EtimeZero, IsSetsMeta
  <2> QED
    BY <1>2, <2>1, <2>2 DEF A!SAdd
<1>3. CASE A!SRem(k, arg)
  <2>1. A!LiveSet(k) /\ \E d : meta' = [meta EXCEPT ![k].count = @ - d]
    BY <1>3 DEF A!SRem
  <2> QED
    BY <1>1, <2>1 DEF MetaOK, EtimeZero, IsSetsMeta
<1>4. CASE A!SMove(k, n, arg)
  <2> DEFINE S == [meta EXCEPT ![k].count = @ - 1]
  <2>1. A!LiveSet(k)
    BY <1>4 DEF A!SMove
  <2>2. \A j \in Keys : S[j] # NoMeta => S[j].etime = 0
    BY <1>1, <2>1 DEF MetaOK, EtimeZero, IsSetsMeta
  <2>3. DOMAIN S = Keys
    BY DEF MetaOK
  <2>4. \/ \E r : r.etime = 0 /\ meta' = [S EXCEPT ![n] = r]
        \/ A!LiveSet(n) /\ meta' = [S EXCEPT ![n] = [meta[n] EXCEPT !.count = @ + 1]]
        \/ meta' = S
    BY <1>4 DEF A!SMove
  <2>5. ASSUME A!LiveSet(n) PROVE [meta[n] EXCEPT !.count = @ + 1].etime = 0
    <3>1. IsSetsMeta(meta[n]) /\ meta[n].etime = 0
      BY <1>1, <2>5
    <3> QED
      BY <3>1 DEF IsSetsMeta
  <2> QED
    BY <2>2, <2>3, <2>4, <2>5 DEF EtimeZero
<1> QED
  BY <1>2, <1>3, <1>4

-----------------------------------------------------------------------------
(* The steps of the threads.                                               *)

\* The mapped meta is a function of the keys.
LEMMA LockedMetaFcn ==
    /\ LockedMeta = [j \in Keys |-> LockedMeta[j]]
    /\ LockedMeta' = [j \in Keys |-> LockedMeta'[j]]
BY DEF LockedMeta

\* Two busy threads access disjoint keys.
LEMMA BusyDisjoint ==
    ASSUME LockInv, NEW p \in Procs, NEW q \in Procs, p # q, Busy(p), Busy(q)
    PROVE  AccessKeys(cmd[p]) \cap AccessKeys(cmd[q]) = {}
<1>1. ExclusiveAccess
  BY LocksHeldExclusive DEF LockInv
<1> QED
  BY <1>1 DEF ExclusiveAccess

\* A step that leaves the store and what the threads read alone, and moves
\* no thread into or out of a write, keeps the invariant and the mapped
\* store.
LEMMA QuietLocked ==
    ASSUME LockInv, LocksHeld', UNCHANGED <<meta, data, now, rmeta, rdata>>,
           \A q \in Procs : pc[q] \in {"write", "put2"} \/ pc'[q] \in {"write", "put2"}
                              => pc'[q] = pc[q] /\ cmd'[q] = cmd[q]
    PROVE  LockInv' /\ UNCHANGED lstore
<1>1. ReadsCurrent' /\ Pending'
  BY DEF LockInv, ReadsCurrent, Pending
<1>2. \A j \in Keys : Renaming(j)' = Renaming(j)
  BY DEF Renaming
<1>3. LockedMeta' = LockedMeta
  <2>1. \A j \in Keys : LockedMeta'[j] = LockedMeta[j]
    BY <1>2, SameRenamers
  <2> QED
    BY <2>1, LockedMetaFcn
<1> QED
  BY <1>1, <1>3 DEF LockInv, MetaOK, EtimeZero, lstore

\* The reads of a thread under its locks leave the mapped store alone.
LEMMA ReadLocked ==
    ASSUME LockInv, LocksHeld', NEW p \in Procs, Read(p)
    PROVE  LockInv' /\ UNCHANGED lstore
<1>1. /\ pc[p] = "read" /\ pc' = [pc EXCEPT ![p] = "write"]
      /\ UNCHANGED <<meta, data, now, cmd>>
      /\ rmeta' = [rmeta EXCEPT ![p] = [k \in Keys |-> IF k \in AccessKeys(cmd[p]) THEN meta[k] ELSE NoMeta]]
      /\ rdata' = [rdata EXCEPT ![p] = {r \in data : r[1] \in AccessKeys(cmd[p])}]
  BY DEF Read
<1>2. AccessKeys(cmd[p]) \subseteq Keys
  BY LockKeysAreAccessKeys DEF LockInv, LocksHeld
<1>3. \A q \in Procs \ {p} : pc'[q] = pc[q] /\ rmeta'[q] = rmeta[q] /\ rdata'[q] = rdata[q]
  BY <1>1 DEF LockInv, LocksHeld
<1>4. ReadsCurrent'
  <2> SUFFICES ASSUME NEW q \in Procs, pc'[q] = "write", NEW k \in AccessKeys(cmd'[q])
               PROVE  rmeta'[q][k] = meta'[k] /\ Slice(rdata'[q], k) = Slice(data', k)
    BY DEF ReadsCurrent
  <2>1. CASE q = p
    BY <1>1, <1>2, <2>1 DEF LockInv, Slice
  <2>2. CASE q # p
    BY <1>1, <1>3, <2>2 DEF LockInv, ReadsCurrent
  <2> QED
    BY <2>1, <2>2
<1>5. Pending'
  BY <1>1, <1>3 DEF LockInv, Pending, LocksHeld
<1>6. ASSUME NEW j \in Keys PROVE LockedMeta'[j] = LockedMeta[j]
  <2>1. Renaming(j)' = Renaming(j) /\ p \notin Renaming(j)
    BY <1>1, <1>3 DEF Renaming, LockInv, LocksHeld
  <2> QED
    BY <1>1, <1>3, <2>1, SameRenamers
<1>7. LockedMeta' = LockedMeta
  BY <1>6, LockedMetaFcn
<1> QED
  BY <1>1, <1>4, <1>5, <1>7 DEF LockInv, MetaOK, EtimeZero, lstore

\* Only the thread between RENAME's Puts is a renamer of a key a busy thread
\* accesses; so a key of a thread about to write has none.
LEMMA WriterKeysUnrenamed ==
    ASSUME LockInv, NEW p \in Procs, pc[p] = "write", NEW j \in AccessKeys(cmd[p])
    PROVE  Renaming(j) = {}
<1>1. ASSUME NEW r \in Renaming(j) PROVE FALSE
  <2>1. r = p
    BY <1>1, RenamerUnique DEF Busy
  <2> QED
    BY <1>1, <2>1 DEF Renaming
<1> QED
  BY <1>1

\* A SADD, SREM or SMOVE write is the same atomic command on the mapped
\* store, or leaves it alone.
LEMMA WriteLocked ==
    ASSUME LockInv, LocksHeld', NEW p \in Procs, Write(p), cmd[p].op # "rename"
    PROVE  LockInv' /\ [L!Next]_lstore
<1> DEFINE c == cmd[p]
           K == AccessKeys(c)
<1>1. /\ \/ UNCHANGED store
         \/ c.op = "sadd" /\ A!SAdd(c.k, c.arg)
         \/ c.op = "srem" /\ A!SRem(c.k, c.arg)
         \/ c.op = "smove" /\ A!SMove(c.k, c.n, c.arg)
      /\ MetaOK'
      /\ Frame(K)
      /\ Release(p)
      /\ cmd' = cmd
  BY WriteStore DEF LockInv
<1>2. /\ pc[p] = "write" /\ c \in Cmds /\ K \subseteq Keys /\ c.k \in Keys /\ c.n \in Keys
      /\ c.op = "sadd" => c.arg \in (SUBSET Members) \ {{}} /\ K = {c.k}
      /\ c.op = "srem" => c.arg \in SRemArgs /\ K = {c.k}
      /\ c.op = "smove" => c.arg \in Members /\ K = {c.k, c.n}
  BY CmdsAssumption, LockKeysAreAccessKeys DEF Write, LockInv, LocksHeld, AccessKeys
<1>3. /\ pc'[p] = "idle"
      /\ \A q \in Procs \ {p} : pc'[q] = pc[q] /\ rmeta'[q] = rmeta[q] /\ rdata'[q] = rdata[q]
  BY <1>1 DEF Release, LockInv, LocksHeld
<1>4. \A q \in Procs \ {p} : Busy(q) => K \cap AccessKeys(cmd[q]) = {}
  BY <1>2, BusyDisjoint DEF Busy
<1>5. ReadsCurrent'
  <2> SUFFICES ASSUME NEW q \in Procs, pc'[q] = "write", NEW k \in AccessKeys(cmd'[q])
               PROVE  rmeta'[q][k] = meta'[k] /\ Slice(rdata'[q], k) = Slice(data', k)
    BY DEF ReadsCurrent
  <2>1. q # p /\ pc[q] = "write" /\ k \notin K /\ k \in Keys
    BY <1>1, <1>3, <1>4, LockKeysAreAccessKeys DEF Busy, LockInv, LocksHeld
  <2> QED
    BY <1>1, <1>3, <2>1 DEF Frame, LockInv, ReadsCurrent
<1>6. Pending'
  <2> SUFFICES ASSUME NEW q \in Procs, pc'[q] = "put2"
               PROVE  /\ cmd'[q].op = "rename"
                      /\ rmeta'[q][cmd'[q].k] = meta'[cmd'[q].k]
                      /\ meta'[cmd'[q].n] = meta'[cmd'[q].k]
                      /\ meta'[cmd'[q].k] # NoMeta
                      /\ meta'[cmd'[q].k].count # 0
    BY DEF Pending
  <2>1. q # p /\ pc[q] = "put2" /\ cmd[q] \in Cmds
    BY <1>3 DEF LockInv, LocksHeld
  <2>2. cmd[q].op = "rename"
    BY <2>1 DEF LockInv, Pending
  <2>3. {cmd[q].k, cmd[q].n} \subseteq Keys \ K
    BY <1>4, <2>1, <2>2, CmdsAssumption DEF Busy, AccessKeys
  <2> QED
    BY <1>1, <1>3, <2>1, <2>3 DEF Frame, LockInv, Pending
<1>7. EtimeZero'
  <2>1. CASE UNCHANGED store
    BY <2>1 DEF store, LockInv, EtimeZero
  <2> QED
    BY <1>1, <1>2, <2>1, AtomicEtime DEF LockInv
<1>8. LockInv'
  BY <1>1, <1>3, <1>5, <1>6, <1>7 DEF LockInv, Release
<1>9. \A j \in K : Renaming(j) = {} /\ Renaming(j)' = {}
  BY <1>1, <1>2, <1>3, WriterKeysUnrenamed DEF Renaming
<1>10. \A j \in Keys : LockedMeta'[j] = IF j \in K THEN meta'[j] ELSE LockedMeta[j]
  <2> SUFFICES ASSUME NEW j \in Keys PROVE LockedMeta'[j] = IF j \in K THEN meta'[j] ELSE LockedMeta[j]
    OBVIOUS
  <2>1. CASE j \in K
    BY <1>9, <2>1, NoRenamerAfter
  <2>2. CASE j \notin K
    <3>1. p \notin Renaming(j) /\ p \notin Renaming(j)'
      BY <1>2, <1>3 DEF Renaming
    <3>2. Renaming(j)' = Renaming(j)
      BY <1>1, <1>3, <3>1 DEF Renaming
    <3>3. meta'[j] = meta[j]
      BY <1>1, <2>2 DEF Frame
    <3>4. \A r \in Renaming(j) : rmeta'[r][j] = rmeta[r][j]
      BY <1>3, <3>1 DEF Renaming
    <3>5. LockedMeta'[j] = LockedMeta[j]
      BY <3>2, <3>3, <3>4, SameRenamers
    <3> QED
      BY <2>2, <3>5
  <2> QED
    BY <2>1, <2>2
<1>11. \A j \in K : LockedMeta[j] = meta[j]
  BY <1>2, <1>9, NoRenamer
<1>12. DOMAIN meta = Keys
  BY DEF LockInv, MetaOK
<1>13. CASE UNCHANGED store
  <2>1. \A j \in Keys : LockedMeta'[j] = LockedMeta[j]
    BY <1>10, <1>11, <1>13 DEF store
  <2> QED
    BY <1>8, <1>13, <2>1, LockedMetaFcn DEF lstore, store
<1>14. CASE c.op = "sadd" /\ A!SAdd(c.k, c.arg)
  <2>1. LockedMeta' = [LockedMeta EXCEPT ![c.k] = meta'[c.k]]
    BY <1>2, <1>10, <1>14, LockedMetaFcn
  <2>2. L!SAdd(c.k, c.arg)
    BY <1>2, <1>11, <1>12, <1>14, <2>1, SAddTransfer
  <2> QED
    BY <1>2, <1>8, <1>14, <2>2 DEF L!Next, L!SetsNext
<1>15. CASE c.op = "srem" /\ A!SRem(c.k, c.arg)
  <2>1. LockedMeta' = [LockedMeta EXCEPT ![c.k] = meta'[c.k]]
    BY <1>2, <1>10, <1>15, LockedMetaFcn
  <2>2. L!SRem(c.k, c.arg)
    BY <1>2, <1>11, <1>12, <1>15, <2>1, SRemTransfer
  <2> QED
    BY <1>2, <1>8, <1>15, <2>2 DEF L!Next, L!SetsNext
<1>16. CASE c.op = "smove" /\ A!SMove(c.k, c.n, c.arg)
  <2>1. L!SMove(c.k, c.n, c.arg)
    BY <1>2, <1>10, <1>11, <1>12, <1>16, SMoveTransfer
  <2> QED
    BY <1>2, <1>8, <1>16, <2>1 DEF L!Next, L!SetsNext
<1> QED
  BY <1>1, <1>13, <1>14, <1>15, <1>16

\* RENAME's first Put, or its error return, leaves the mapped store alone:
\* the new key shows what the renaming thread read of it until the second
\* Put.
LEMMA RenameWriteLocked ==
    ASSUME LockInv, LocksHeld', NEW p \in Procs, Write(p), cmd[p].op = "rename"
    PROVE  LockInv' /\ UNCHANGED lstore
<1> DEFINE c == cmd[p]
           k == c.k
           n == c.n
<1>1. /\ pc[p] = "write" /\ c \in Cmds /\ k \in Keys /\ n \in Keys
      /\ AccessKeys(c) = {k, n}
      /\ cmd' = cmd
  BY CmdsAssumption DEF Write, LockInv, LocksHeld, AccessKeys
<1>2. rmeta[p][k] = meta[k] /\ rmeta[p][n] = meta[n]
  BY <1>1 DEF LockInv, ReadsCurrent
<1>3. \A q \in Procs \ {p} : Busy(q) => {k, n} \cap AccessKeys(cmd[q]) = {}
  BY <1>1, BusyDisjoint DEF Busy
<1>4. Renaming(k) = {} /\ Renaming(n) = {}
  BY <1>1, WriterKeysUnrenamed
<1>5. \A q \in Procs : Busy(q) => AccessKeys(cmd[q]) \subseteq Keys
  BY LockKeysAreAccessKeys DEF LockInv, LocksHeld
<1>6. CASE ~CmdOk(p) /\ UNCHANGED store /\ Release(p)
  <2>1. /\ pc'[p] = "idle"
        /\ \A q \in Procs \ {p} : pc'[q] = pc[q] /\ rmeta'[q] = rmeta[q] /\ rdata'[q] = rdata[q]
    BY <1>6 DEF Release, LockInv, LocksHeld
  <2>2. ReadsCurrent' /\ Pending'
    BY <1>1, <1>6, <2>1 DEF store, LockInv, ReadsCurrent, Pending
  <2>3. ASSUME NEW j \in Keys PROVE LockedMeta'[j] = LockedMeta[j]
    <3>1. p \notin Renaming(j) /\ p \notin Renaming(j)'
      BY <1>1, <2>1 DEF Renaming
    <3>2. Renaming(j)' = Renaming(j)
      BY <1>1, <2>1, <3>1 DEF Renaming
    <3>3. \A r \in Renaming(j) : rmeta'[r][j] = rmeta[r][j]
      BY <2>1, <3>1 DEF Renaming
    <3> QED
      BY <1>6, <3>2, <3>3, SameRenamers DEF store
  <2> QED
    BY <1>6, <2>1, <2>2, <2>3, LockedMetaFcn DEF LockInv, MetaOK, EtimeZero, lstore, store, Release
<1>7. CASE /\ CmdOk(p)
           /\ meta' = [meta EXCEPT ![n] = rmeta[p][k]]
           /\ pc' = [pc EXCEPT ![p] = "put2"]
           /\ UNCHANGED <<data, now, owner, rmeta, rdata>>
  <2>1. RenameOk(p, k)
    BY <1>7 DEF CmdOk
  <2>2. meta' = [meta EXCEPT ![n] = meta[k]] /\ meta[k] # NoMeta /\ meta[k].count # 0
    BY <1>2, <1>7, <2>1 DEF RenameOk
  <2>3. \A j \in Keys : meta'[j] = IF j = n THEN meta[k] ELSE meta[j]
    BY <2>2 DEF LockInv, MetaOK
  <2>4. MetaOK' /\ EtimeZero'
    BY <1>1, <2>2, <2>3 DEF LockInv, MetaOK, EtimeZero
  <2>5. ReadsCurrent'
    <3> SUFFICES ASSUME NEW q \in Procs, pc'[q] = "write", NEW j \in AccessKeys(cmd'[q])
                 PROVE  rmeta'[q][j] = meta'[j] /\ Slice(rdata'[q], j) = Slice(data', j)
      BY DEF ReadsCurrent
    <3>1. q # p /\ pc[q] = "write" /\ j \notin {k, n} /\ j \in Keys
      BY <1>1, <1>3, <1>5, <1>7 DEF Busy, LockInv, LocksHeld
    <3> QED
      BY <1>1, <1>7, <2>3, <3>1 DEF LockInv, ReadsCurrent
  <2>6. Pending'
    <3> SUFFICES ASSUME NEW q \in Procs, pc'[q] = "put2"
                 PROVE  /\ cmd'[q].op = "rename"
                        /\ rmeta'[q][cmd'[q].k] = meta'[cmd'[q].k]
                        /\ meta'[cmd'[q].n] = meta'[cmd'[q].k]
                        /\ meta'[cmd'[q].k] # NoMeta
                        /\ meta'[cmd'[q].k].count # 0
      BY DEF Pending
    <3>1. CASE q = p
      <4>1. meta'[k] = meta[k] /\ meta'[n] = meta[k]
        BY <1>1, <2>3
      <4> QED
        BY <1>1, <1>2, <1>7, <2>2, <3>1, <4>1
    <3>2. CASE q # p
      <4>1. pc[q] = "put2" /\ cmd[q].op = "rename"
        BY <1>7, <3>2 DEF LockInv, LocksHeld, Pending
      <4>2. {cmd[q].k, cmd[q].n} \subseteq Keys \ {k, n}
        BY <1>3, <1>5, <3>2, <4>1 DEF Busy, AccessKeys
      <4> QED
        BY <1>1, <1>7, <2>3, <3>2, <4>1, <4>2 DEF LockInv, Pending
    <3> QED
      BY <3>1, <3>2
  <2>7. LockInv'
    BY <1>1, <1>7, <2>4, <2>5, <2>6 DEF LockInv
  <2>8. Renaming(n)' = {p}
    <3>1. p \in Renaming(n)'
      BY <1>1, <1>7 DEF Renaming, LockInv, LocksHeld
    <3>2. ASSUME NEW r \in Renaming(n)' PROVE r = p
      <4>1. r \in Procs /\ pc'[r] = "put2" /\ cmd'[r].n = n
        BY <1>1, <3>2 DEF Renaming
      <4>2. r # p => r \in Renaming(n)
        BY <1>1, <1>7, <4>1 DEF Renaming
      <4> QED
        BY <1>4, <4>2
    <3> QED
      BY <3>1, <3>2
  <2>9. LockedMeta'[n] = LockedMeta[n]
    <3>1. LockedMeta'[n] = rmeta'[p][n]
      BY <1>1, <2>8 DEF LockedMeta
    <3> QED
      BY <1>1, <1>2, <1>4, <1>7, <3>1, NoRenamer
  <2>10. ASSUME NEW j \in Keys, j # n PROVE LockedMeta'[j] = LockedMeta[j]
    <3>1. p \notin Renaming(j) /\ p \notin Renaming(j)'
      BY <1>1, <2>10 DEF Renaming
    <3>2. Renaming(j)' = Renaming(j)
      BY <1>1, <1>7, <3>1 DEF Renaming
    <3>3. \A r \in Renaming(j) : rmeta'[r][j] = rmeta[r][j]
      BY <1>7
    <3>4. meta'[j] = meta[j]
      BY <2>3, <2>10
    <3> QED
      BY <3>2, <3>3, <3>4, SameRenamers
  <2>11. LockedMeta' = LockedMeta
    BY <1>1, <2>9, <2>10, LockedMetaFcn
  <2> QED
    BY <1>7, <2>7, <2>11 DEF lstore
<1> QED
  BY <1>1, <1>6, <1>7 DEF Write

\* RENAME's second Put is the atomic RENAME on the mapped store: the new
\* key, which showed what it held before, now shows the source's meta, and
\* the source is reset.
LEMMA Put2Locked ==
    ASSUME LockInv, LocksHeld', NEW p \in Procs, Put2(p)
    PROVE  LockInv' /\ L!RenameNext
<1> DEFINE c == cmd[p]
           k == c.k
           n == c.n
<1>1. /\ pc[p] = "put2" /\ c \in Cmds /\ c.op = "rename" /\ k \in Keys /\ n \in Keys
      /\ AccessKeys(c) = {k, n}
      /\ Release(p) /\ UNCHANGED <<data, cmd>>
  BY CmdsAssumption DEF Put2, LockInv, LocksHeld, Pending, AccessKeys
<1>2. /\ rmeta[p][k] = meta[k] /\ meta[n] = meta[k]
      /\ meta[k] # NoMeta /\ meta[k].count # 0
      /\ IsSetsMeta(meta[k]) /\ meta[k].etime = 0
  BY <1>1 DEF LockInv, Pending, MetaOK, EtimeZero
<1>3. PICK t \in A!Readings :
        /\ meta' = [meta EXCEPT ![k] = A!InitialMetaValue(meta[k], t)]
        /\ now' = t
  BY <1>2 DEF Put2
<1> DEFINE new == A!InitialMetaValue(meta[k], t)
<1>4. \A j \in Keys : meta'[j] = IF j = k THEN new ELSE meta[j]
  BY <1>3 DEF LockInv, MetaOK
<1>5. /\ pc'[p] = "idle"
      /\ \A q \in Procs \ {p} : pc'[q] = pc[q] /\ rmeta'[q] = rmeta[q] /\ rdata'[q] = rdata[q]
  BY <1>1 DEF Release, LockInv, LocksHeld
<1>6. \A q \in Procs \ {p} : Busy(q) => {k, n} \cap AccessKeys(cmd[q]) = {}
  BY <1>1, BusyDisjoint DEF Busy
<1>7. \A q \in Procs : Busy(q) => AccessKeys(cmd[q]) \subseteq Keys
  BY LockKeysAreAccessKeys DEF LockInv, LocksHeld
<1>8. IsSetsMeta(new) /\ new.etime = 0
  BY DEF A!InitialMetaValue, IsSetsMeta
<1>9. MetaOK' /\ EtimeZero'
  <2>1. DOMAIN meta' = Keys
    BY <1>3 DEF LockInv, MetaOK
  <2> QED
    BY <1>1, <1>4, <1>8, <2>1 DEF LockInv, MetaOK, EtimeZero
<1>10. ReadsCurrent'
  <2> SUFFICES ASSUME NEW q \in Procs, pc'[q] = "write", NEW j \in AccessKeys(cmd'[q])
               PROVE  rmeta'[q][j] = meta'[j] /\ Slice(rdata'[q], j) = Slice(data', j)
    BY DEF ReadsCurrent
  <2>1. q # p /\ pc[q] = "write" /\ j \notin {k, n} /\ j \in Keys
    BY <1>1, <1>5, <1>6, <1>7 DEF Busy
  <2> QED
    BY <1>1, <1>4, <1>5, <2>1 DEF LockInv, ReadsCurrent
<1>11. Pending'
  <2> SUFFICES ASSUME NEW q \in Procs, pc'[q] = "put2"
               PROVE  /\ cmd'[q].op = "rename"
                      /\ rmeta'[q][cmd'[q].k] = meta'[cmd'[q].k]
                      /\ meta'[cmd'[q].n] = meta'[cmd'[q].k]
                      /\ meta'[cmd'[q].k] # NoMeta
                      /\ meta'[cmd'[q].k].count # 0
    BY DEF Pending
  <2>1. q # p /\ pc[q] = "put2" /\ cmd[q].op = "rename"
    BY <1>5 DEF LockInv, Pending
  <2>2. {cmd[q].k, cmd[q].n} \subseteq Keys \ {k, n}
    BY <1>6, <1>7, <2>1 DEF Busy, AccessKeys
  <2> QED
    BY <1>1, <1>4, <1>5, <2>1, <2>2 DEF LockInv, Pending
<1>12. LockInv'
  BY <1>1, <1>5, <1>9, <1>10, <1>11 DEF LockInv, Release
<1>13. \A j \in {k, n} : \A r \in Renaming(j) : r = p
  BY <1>1, RenamerUnique DEF Busy
<1>14. LockedMeta[k] = meta[k]
  BY <1>1, <1>2, <1>13, RenamerReadIsMeta
<1>15. \A j \in {k, n} : LockedMeta'[j] = meta'[j]
  <2> SUFFICES ASSUME NEW j \in {k, n} PROVE Renaming(j)' = {}
    BY <1>1, NoRenamerAfter
  <2>1. ASSUME NEW r \in Renaming(j)' PROVE FALSE
    <3>1. r \in Procs /\ r # p /\ pc'[r] = "put2" /\ cmd'[r].n = j
      BY <1>5, <2>1 DEF Renaming
    <3>2. r \in Renaming(j)
      BY <1>1, <1>5, <3>1 DEF Renaming
    <3> QED
      BY <1>13, <3>1, <3>2
  <2> QED
    BY <2>1
<1>16. ASSUME NEW j \in Keys \ {k, n} PROVE LockedMeta'[j] = LockedMeta[j]
  <2>1. p \notin Renaming(j) /\ p \notin Renaming(j)'
    BY <1>5 DEF Renaming
  <2>2. Renaming(j)' = Renaming(j)
    BY <1>1, <1>5, <2>1 DEF Renaming
  <2>3. \A r \in Renaming(j) : rmeta'[r][j] = rmeta[r][j]
    BY <1>5, <2>1 DEF Renaming
  <2> QED
    BY <1>4, <2>2, <2>3, SameRenamers
<1>17. LockedMeta' = [LockedMeta EXCEPT ![n] = LockedMeta[k],
                                        ![k] = L!InitialMetaValue(LockedMeta[k], t)]
  <2>1. L!InitialMetaValue(LockedMeta[k], t) = new
    BY <1>14 DEF L!InitialMetaValue, A!InitialMetaValue
  <2>2. ASSUME NEW j \in Keys
        PROVE  LockedMeta'[j] = [LockedMeta EXCEPT ![n] = LockedMeta[k],
                                                   ![k] = L!InitialMetaValue(LockedMeta[k], t)][j]
    <3>1. CASE j = k
      BY <1>4, <1>15, <2>1, <3>1, LockedMetaFcn
    <3>2. CASE j = n /\ j # k
      BY <1>2, <1>4, <1>14, <1>15, <3>2, LockedMetaFcn
    <3>3. CASE j \notin {k, n}
      BY <1>16, <3>3, LockedMetaFcn
    <3> QED
      BY <3>1, <3>2, <3>3
  <2> QED
    BY <2>2, LockedMetaFcn
<1>18. L!SetsRename(k, n)
  <2>1. L!IsSets(k) /\ ~L!Expired(LockedMeta[k]) /\ LockedMeta[k].count # 0
    BY <1>2, <1>14 DEF L!IsSets, L!Expired, IsSetsMeta
  <2>2. t \in L!Readings
    BY <1>1, <1>14, SameDecoding
  <2> QED
    BY <1>1, <1>3, <1>17, <2>1, <2>2 DEF L!SetsRename
<1> QED
  BY <1>1, <1>12, <1>18 DEF L!RenameNext

\* Every step of the threads keeps the invariant and is a step of the
\* atomic store, RENAME included, seen through the mapping, or leaves the
\* mapped store alone.
LEMMA LockedStep ==
    ASSUME LockInv, [Next]_vars
    PROVE  LockInv' /\ [L!Next \/ L!RenameNext]_lstore
<1>1. LocksHeld'
  BY NextLocksHeld DEF LockInv
<1>2. ASSUME NEW p \in Procs, Start(p) PROVE LockInv' /\ UNCHANGED lstore
  <2>1. pc[p] = "idle" /\ pc' = [pc EXCEPT ![p] = "lock"]
    BY <1>2 DEF Start
  <2>2. \A q \in Procs : pc[q] \in {"write", "put2"} \/ pc'[q] \in {"write", "put2"}
                           => pc'[q] = pc[q] /\ cmd'[q] = cmd[q]
    BY <1>2, <2>1 DEF Start, LockInv, LocksHeld
  <2> QED
    BY <1>1, <1>2, <2>2, QuietLocked DEF Start
<1>3. ASSUME NEW p \in Procs, Acquire(p) PROVE LockInv' /\ UNCHANGED lstore
  <2>1. /\ pc[p] = "lock"
        /\ pc' = [pc EXCEPT ![p] = IF LockKeys(cmd[p]) \subseteq Held(p) \cup {NextLock(p)}
                                   THEN "read" ELSE "lock"]
        /\ cmd' = cmd
    BY <1>3 DEF Acquire
  <2>2. \A q \in Procs : pc[q] \in {"write", "put2"} \/ pc'[q] \in {"write", "put2"}
                           => pc'[q] = pc[q] /\ cmd'[q] = cmd[q]
    BY <2>1 DEF LockInv, LocksHeld
  <2> QED
    BY <1>1, <1>3, <2>2, QuietLocked DEF Acquire
<1>4. ASSUME NEW p \in Procs, Read(p) PROVE LockInv' /\ UNCHANGED lstore
  BY <1>1, <1>4, ReadLocked
<1>5. ASSUME NEW p \in Procs, Write(p) PROVE LockInv' /\ [L!Next \/ L!RenameNext]_lstore
  <2>1. CASE cmd[p].op = "rename"
    BY <1>1, <1>5, <2>1, RenameWriteLocked
  <2>2. CASE cmd[p].op # "rename"
    BY <1>1, <1>5, <2>2, WriteLocked
  <2> QED
    BY <2>1, <2>2
<1>6. ASSUME NEW p \in Procs, Put2(p) PROVE LockInv' /\ L!RenameNext
  BY <1>1, <1>6, Put2Locked
<1>7. CASE UNCHANGED vars
  BY <1>1, <1>7, QuietLocked DEF vars
<1> QED
  BY <1>2, <1>3, <1>4, <1>5, <1>6, <1>7 DEF Next, Step

\* The threads of SetsLocked, RENAME's two Puts included, implement the
\* atomic Set commands and RENAME of SetsStore as every thread that takes
\* the record locks sees the store: the property ImplementsAtomicSetsUnderLocks
\* of the locked_rename run, for any number of threads, keys, members and
\* commands.  The locks make RENAME's half-done state invisible to them.
THEOREM ThreadsImplementAtomicSetsUnderLocks == Spec => ImplementsAtomicSetsUnderLocks
<1>1. Init => LockInv
  <2> SUFFICES ASSUME Init PROVE LockInv
    OBVIOUS
  <2>1. LocksHeld
    BY InitLocksHeld
  <2> QED
    BY <2>1 DEF Init, A!Init, LockInv, MetaOK, EtimeZero, ReadsCurrent, Pending
<1>2. Init => L!Init
  <2> SUFFICES ASSUME Init PROVE L!Init
    OBVIOUS
  <2>1. \A j \in Keys : Renaming(j) = {}
    BY DEF Init, Renaming
  <2>2. LockedMeta = [j \in Keys |-> NoMeta]
    BY <2>1 DEF Init, A!Init, LockedMeta
  <2> QED
    BY <2>2 DEF Init, A!Init, L!Init
<1>3. LockInv /\ [Next]_vars => LockInv' /\ [L!Next \/ L!RenameNext]_lstore
  BY LockedStep
<1> QED
  BY <1>1, <1>2, <1>3, PTL DEF Spec, ImplementsAtomicSetsUnderLocks, L!SpecWithRename, L!vars, lstore
=============================================================================
