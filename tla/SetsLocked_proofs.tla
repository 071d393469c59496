-------------------------- MODULE SetsLocked_proofs --------------------------
(***************************************************************************)
(* Proofs about the threads of SetsLocked, for every number of threads,   *)
(* keys and commands.                                                      *)
(***************************************************************************)
EXTENDS SetsLocked, TLAPS

PcValues == {"idle", "lock", "read", "write", "put2"}

\* A thread between its reads and its last write holds the record locks of
\* every key it locks.
LocksHeld ==
    /\ pc \in [Procs -> PcValues]
    /\ cmd \in [Procs -> Cmds]
    /\ owner \in [Keys -> Procs \cup {NoProc}]
    /\ \A p \in Procs : Busy(p) => LockKeys(cmd[p]) \subseteq Held(p)

\* The keys a command locks are keys, and they are the keys it accesses.
LEMMA LockKeysAreAccessKeys ==
    ASSUME NEW c \in Cmds
    PROVE  /\ LockKeys(c) \subseteq Keys
           /\ AccessKeys(c) = LockKeys(c)
BY CmdsAssumption DEF LockKeys, AccessKeys

LEMMA InitLocksHeld == Init => LocksHeld
<1> SUFFICES ASSUME Init PROVE LocksHeld
  OBVIOUS
<1>1. cmd \in [Procs -> Cmds]
  BY CmdsAssumption DEF Init
<1> QED
  BY <1>1 DEF Init, LocksHeld, PcValues, Busy

\* A step that leaves pc, cmd and owner alone keeps the locks held.
LEMMA UnchangedLocks ==
    ASSUME LocksHeld, pc' = pc, cmd' = cmd, owner' = owner
    PROVE  LocksHeld'
BY DEF LocksHeld, Busy, Held

\* A thread that returns gives up its locks and is no longer busy.
LEMMA ReleaseLocksHeld ==
    ASSUME LocksHeld, NEW p \in Procs, Release(p), cmd' = cmd
    PROVE  LocksHeld'
<1>1. pc' \in [Procs -> PcValues] /\ owner' \in [Keys -> Procs \cup {NoProc}]
  BY DEF LocksHeld, Release, PcValues
<1>2. ASSUME NEW q \in Procs, Busy(q)'
      PROVE  LockKeys(cmd'[q]) \subseteq Held(q)'
  <2>1. q # p /\ pc'[q] = pc[q]
    BY <1>2 DEF LocksHeld, Release, Busy
  <2>2. Held(q)' = Held(q)
    BY <2>1, ProcsAssumption DEF Release, Held
  <2> QED
    BY <1>2, <2>1, <2>2 DEF LocksHeld, Busy
<1> QED
  BY <1>1, <1>2 DEF LocksHeld

LEMMA NextLocksHeld == LocksHeld /\ [Next]_vars => LocksHeld'
<1> SUFFICES ASSUME LocksHeld, [Next]_vars PROVE LocksHeld'
  OBVIOUS
<1>1. ASSUME NEW p \in Procs, Start(p) PROVE LocksHeld'
  <2>1. pc' \in [Procs -> PcValues] /\ cmd' \in [Procs -> Cmds]
    BY <1>1 DEF Start, LocksHeld, PcValues
  <2>2. ASSUME NEW q \in Procs, Busy(q)'
        PROVE  LockKeys(cmd'[q]) \subseteq Held(q)'
    <3>1. q # p /\ pc'[q] = pc[q] /\ cmd'[q] = cmd[q]
      BY <1>1, <2>2 DEF Start, LocksHeld, Busy
    <3> QED
      BY <1>1, <2>2, <3>1 DEF Start, LocksHeld, Busy, Held
  <2> QED
    BY <1>1, <2>1, <2>2 DEF Start, LocksHeld
<1>2. ASSUME NEW p \in Procs, Acquire(p) PROVE LocksHeld'
  <2> DEFINE k == NextLock(p)
  <2>1. /\ pc[p] = "lock" /\ owner[k] = NoProc
        /\ owner' = [owner EXCEPT ![k] = p]
        /\ pc' = [pc EXCEPT ![p] = IF LockKeys(cmd[p]) \subseteq Held(p) \cup {k}
                                   THEN "read" ELSE "lock"]
        /\ cmd' = cmd
    BY <1>2 DEF Acquire
  <2>2. pc' \in [Procs -> PcValues] /\ owner' \in [Keys -> Procs \cup {NoProc}]
    BY <2>1 DEF LocksHeld, PcValues
  <2>3. Held(p)' = Held(p) \cup ({k} \cap Keys)
    BY <2>1 DEF LocksHeld, Held
  <2>4. ASSUME NEW q \in Procs, q # p PROVE Held(q)' = Held(q)
    BY <2>1, <2>4, ProcsAssumption DEF LocksHeld, Held
  <2>5. ASSUME Busy(p)' PROVE LockKeys(cmd'[p]) \subseteq Held(p)'
    <3>1. LockKeys(cmd[p]) \subseteq Held(p) \cup {k}
      BY <2>1, <2>5 DEF LocksHeld, Busy
    <3>2. LockKeys(cmd[p]) \subseteq Keys
      BY LockKeysAreAccessKeys DEF LocksHeld
    <3> QED
      BY <2>1, <2>3, <3>1, <3>2
  <2>6. ASSUME NEW q \in Procs, q # p, Busy(q)' PROVE LockKeys(cmd'[q]) \subseteq Held(q)'
    BY <2>1, <2>4, <2>6 DEF LocksHeld, Busy
  <2> QED
    BY <2>1, <2>2, <2>5, <2>6 DEF LocksHeld
<1>3. ASSUME NEW p \in Procs, Read(p) PROVE LocksHeld'
  <2>1. pc' \in [Procs -> PcValues]
    BY <1>3 DEF Read, LocksHeld, PcValues
  <2>2. ASSUME NEW q \in Procs, Busy(q)' PROVE LockKeys(cmd'[q]) \subseteq Held(q)'
    BY <1>3, <2>2 DEF Read, LocksHeld, Busy, Held
  <2> QED
    BY <1>3, <2>1, <2>2 DEF Read, LocksHeld
<1>4. ASSUME NEW p \in Procs, Write(p) PROVE LocksHeld'
  <2>1. CASE Release(p) /\ cmd' = cmd
    BY <2>1, ReleaseLocksHeld
  <2>3. \/ Release(p) /\ cmd' = cmd
        \/ /\ pc' = [pc EXCEPT ![p] = "put2"]
           /\ UNCHANGED <<owner, cmd>>
           /\ pc[p] = "write"
    BY <1>4 DEF Write
  <2>4. CASE /\ pc' = [pc EXCEPT ![p] = "put2"]
             /\ UNCHANGED <<owner, cmd>>
             /\ pc[p] = "write"
    <3>1. pc' \in [Procs -> PcValues]
      BY <2>4 DEF LocksHeld, PcValues
    <3>2. ASSUME NEW q \in Procs, Busy(q)' PROVE LockKeys(cmd'[q]) \subseteq Held(q)'
      BY <2>4, <3>2 DEF LocksHeld, Busy, Held
    <3> QED
      BY <2>4, <3>1, <3>2 DEF LocksHeld
  <2> QED
    BY <2>1, <2>3, <2>4
<1>5. ASSUME NEW p \in Procs, Put2(p) PROVE LocksHeld'
  BY <1>5, ReleaseLocksHeld DEF Put2
<1>6. CASE UNCHANGED vars
  BY <1>6, UnchangedLocks DEF vars
<1> QED
  BY <1>1, <1>2, <1>3, <1>4, <1>5, <1>6, UnchangedLocks DEF Next, Step, vars

\* Two busy threads access disjoint keys.
LEMMA LocksHeldExclusive == LocksHeld => ExclusiveAccess
<1> SUFFICES ASSUME LocksHeld, NEW p \in Procs, NEW q \in Procs, p # q,
                    Busy(p), Busy(q), NEW k \in AccessKeys(cmd[p]) \cap AccessKeys(cmd[q])
             PROVE  FALSE
  BY DEF ExclusiveAccess
<1>1. k \in LockKeys(cmd[p]) /\ k \in LockKeys(cmd[q])
  BY LockKeysAreAccessKeys DEF LocksHeld
<1>2. owner[k] = p /\ owner[k] = q
  BY <1>1 DEF LocksHeld, Held
<1> QED
  BY <1>2

\* Threads that run commands on a common key never overlap between their
\* reads and their last write (the invariant of the locked_rename run).
THEOREM LocksExclude == Spec => []ExclusiveAccess
<1>1. LocksHeld => ExclusiveAccess
  BY LocksHeldExclusive
<1> QED
  BY <1>1, InitLocksHeld, NextLocksHeld, PTL DEF Spec

-----------------------------------------------------------------------------
(* The threads implement the atomic store.                                 *)

\* No thread runs RENAME, whose two Puts are two steps.
NoRename == \A c \in Cmds : c.op # "rename"

\* A Sets meta value: a record of the four fields with the Sets type tag.
IsSetsMeta(r) == r = [type |-> "sets", count |-> r.count, version |-> r.version, etime |-> r.etime]

\* Every key holds a Sets meta or none: the threads write no other type.
MetaOK ==
    /\ DOMAIN meta = Keys
    /\ \A k \in Keys : meta[k] = NoMeta \/ IsSetsMeta(meta[k])

\* The member records of key k in a set of records.
Slice(S, k) == {r \in S : r[1] = k}

\* A step leaves the meta and the member records of every key outside K
\* alone.
Frame(K) == \A j \in Keys \ K : meta'[j] = meta[j] /\ Slice(data', j) = Slice(data, j)

\* What a thread about to write read of its keys is what the store holds.
ReadsCurrent ==
    \A p \in Procs : pc[p] = "write" =>
        \A k \in AccessKeys(cmd[p]) : rmeta[p][k] = meta[k] /\ Slice(rdata[p], k) = Slice(data, k)

\* The inductive invariant of the refinement.
RefInv ==
    /\ LocksHeld
    /\ MetaOK
    /\ DOMAIN rmeta = Procs /\ DOMAIN rdata = Procs
    /\ \A p \in Procs : pc[p] # "put2"
    /\ ReadsCurrent

\* The store's Cardinality, through the instance, is Cardinality.
LEMMA CardinalityInstance == \A S : A!Cardinality(S) = Cardinality(S)
BY DEF A!Cardinality, Cardinality

\* The store's Len, through the instance, is Len.
LEMMA LenInstance == \A s : A!Len(s) = Len(s)
OBVIOUS

\* What a thread read of key k, seen through Has, is the store.
LEMMA HasIsData ==
    ASSUME NEW p, NEW k, Slice(rdata[p], k) = Slice(data, k), NEW v, NEW x
    PROVE  Has(p, k, v, x) <=> <<k, v, x>> \in data
<1>1. <<k, v, x>> \in rdata[p] <=> <<k, v, x>> \in Slice(rdata[p], k)
  BY DEF Slice
<1>2. <<k, v, x>> \in data <=> <<k, v, x>> \in Slice(data, k)
  BY DEF Slice
<1> QED
  BY <1>1, <1>2 DEF Has

\* SADD from what it read under the lock is the atomic SADD, or writes
\* nothing.
LEMMA SAddRefines ==
    ASSUME NEW p, NEW k \in Keys, NEW ms \in SUBSET Members,
           rmeta[p][k] = meta[k], meta[k] = NoMeta \/ IsSetsMeta(meta[k]),
           \A v, x : Has(p, k, v, x) <=> <<k, v, x>> \in data,
           SAddOk(p, k, ms), SAddWrite(p, k, ms)
    PROVE  A!SAdd(k, ms) \/ UNCHANGED store
<1> DEFINE m == meta[k]
<1>1. ~A!WrongType(k)
  BY DEF A!WrongType, IsSetsMeta
<1>2. Read_Live(m) <=> A!LiveSet(k)
  BY DEF Read_Live, Read_IsSets, A!LiveSet, A!IsSets
<1>3. CASE ~Read_Live(m)
  <2>1. A!IsSets(k) => Cardinality(ms) <= MaxCount
    BY <1>3 DEF SAddOk, Read_IsSets, A!IsSets
  <2>2. \A t : Read_NewVersion(m, t) = A!NewVersion(k, t)
    BY DEF Read_NewVersion, Read_IsSets, A!NewVersion, A!IsSets
  <2>3. \E t \in A!Readings : A!Create(k, ms, t)
    BY <1>3, <2>2, CardinalityInstance DEF SAddWrite, A!Create
  <2> QED
    BY <1>1, <1>2, <1>3, <2>1, <2>3, CardinalityInstance DEF A!SAdd
<1>4. CASE Read_Live(m) /\ SAddNew(p, k, ms) = {}
  BY <1>4 DEF SAddWrite, store
<1>5. CASE Read_Live(m) /\ SAddNew(p, k, ms) # {}
  <2>1. SAddNew(p, k, ms) = ms \ A!MembersAt(k, m.version)
    BY DEF SAddNew, A!MembersAt
  <2>2. A!CheckModifyCount(m, Cardinality(SAddNew(p, k, ms)))
    BY <1>5 DEF SAddOk
  <2>3. /\ meta' = [meta EXCEPT ![k] = [m EXCEPT !.count = @ + Cardinality(SAddNew(p, k, ms))]]
        /\ data' = data \cup {<<k, m.version, x>> : x \in SAddNew(p, k, ms)}
        /\ now' = now
    BY <1>5 DEF SAddWrite
  <2> QED
    BY <1>2, <1>5, <2>1, <2>2, <2>3, CardinalityInstance DEF A!SAdd
<1> QED
  BY <1>3, <1>4, <1>5

\* SREM from what it read under the lock is the atomic SREM.
LEMMA SRemRefines ==
    ASSUME NEW p, NEW k \in Keys, NEW args,
           rmeta[p][k] = meta[k],
           \A v, x : Has(p, k, v, x) <=> <<k, v, x>> \in data,
           SRemOk(p, k, args), SRemWrite(p, k, args)
    PROVE  A!SRem(k, args)
<1> DEFINE m == meta[k]
<1>1. SRemHits(p, k, args) = {i \in 1 .. A!Len(args) : <<k, m.version, args[i]>> \in data}
  BY LenInstance DEF SRemHits
<1>2. A!LiveSet(k)
  BY DEF SRemOk, Read_Live, Read_IsSets, A!LiveSet, A!IsSets
<1>3. A!CheckModifyCount(m, -A!Cardinality(SRemHits(p, k, args)))
  BY CardinalityInstance DEF SRemOk
<1>4. /\ meta' = [meta EXCEPT ![k] = [m EXCEPT !.count = @ - A!Cardinality(SRemHits(p, k, args))]]
      /\ data' = data \ {<<k, m.version, args[i]>> : i \in SRemHits(p, k, args)}
      /\ now' = now
  BY CardinalityInstance DEF SRemWrite
<1> QED
  BY <1>1, <1>2, <1>3, <1>4 DEF A!SRem

\* SMOVE from what it read of both keys under their locks is the atomic
\* SMOVE.
LEMMA SMoveRefines ==
    ASSUME NEW p, NEW src \in Keys, NEW dst \in Keys, NEW x,
           rmeta[p][src] = meta[src], rmeta[p][dst] = meta[dst],
           meta[dst] = NoMeta \/ IsSetsMeta(meta[dst]),
           \A v, y : Has(p, src, v, y) <=> <<src, v, y>> \in data,
           \A v, y : Has(p, dst, v, y) <=> <<dst, v, y>> \in data,
           SMoveOk(p, src, dst, x), SMoveWrite(p, src, dst, x)
    PROVE  A!SMove(src, dst, x)
<1> DEFINE ms == meta[src]
           md == meta[dst]
<1>1. /\ A!LiveSet(src)
      /\ <<src, ms.version, x>> \in data
      /\ A!CheckModifyCount(ms, -1)
      /\ ~A!WrongType(dst)
  BY DEF SMoveOk, Read_Live, Read_IsSets, A!LiveSet, A!IsSets, A!WrongType, IsSetsMeta
<1>2. Read_Live(md) <=> A!LiveSet(dst)
  BY DEF Read_Live, Read_IsSets, A!LiveSet, A!IsSets
<1>3. \A t : Read_NewVersion(md, t) = A!NewVersion(dst, t)
  BY DEF Read_NewVersion, Read_IsSets, A!NewVersion, A!IsSets
<1>4. [meta EXCEPT ![src] = [ms EXCEPT !.count = @ - 1]] = [meta EXCEPT ![src].count = @ - 1]
  OBVIOUS
<1>5. A!LiveSet(dst) /\ <<dst, md.version, x>> \notin data => A!CheckModifyCount(md, 1)
  BY <1>2 DEF SMoveOk
<1>6. \/ /\ ~A!LiveSet(dst)
         /\ \E t \in A!Readings :
               /\ meta' = [[meta EXCEPT ![src].count = @ - 1] EXCEPT ![dst] =
                             [type |-> "sets", count |-> 1,
                              version |-> A!NewVersion(dst, t), etime |-> 0]]
               /\ data' = (data \ {<<src, ms.version, x>>}) \cup {<<dst, A!NewVersion(dst, t), x>>}
               /\ now' = t
      \/ /\ A!LiveSet(dst)
         /\ <<dst, md.version, x>> \notin data
         /\ meta' = [[meta EXCEPT ![src].count = @ - 1] EXCEPT ![dst] = [md EXCEPT !.count = @ + 1]]
         /\ data' = (data \ {<<src, ms.version, x>>}) \cup {<<dst, md.version, x>>}
         /\ now' = now
      \/ /\ A!LiveSet(dst)
         /\ <<dst, md.version, x>> \in data
         /\ meta' = [meta EXCEPT ![src].count = @ - 1]
         /\ data' = data \ {<<src, ms.version, x>>}
         /\ now' = now
  BY <1>2, <1>3, <1>4 DEF SMoveWrite
<1> QED
  BY <1>1, <1>5, <1>6 DEF A!SMove

\* A meta value with a new count is still a Sets meta.
LEMMA CountKeepsSetsMeta ==
    ASSUME NEW m, IsSetsMeta(m), NEW n
    PROVE  IsSetsMeta([m EXCEPT !.count = n])
BY DEF IsSetsMeta

\* SADD writes only the meta and the records of its key, and a Sets meta.
LEMMA SAddKeeps ==
    ASSUME MetaOK, NEW p, NEW k \in Keys, NEW ms, rmeta[p][k] = meta[k],
           SAddWrite(p, k, ms)
    PROVE  MetaOK' /\ Frame({k})
<1> DEFINE m == meta[k]
<1>1. CASE ~Read_Live(m)
  <2>1. PICK t \in A!Readings :
          /\ meta' = [meta EXCEPT ![k] = [type |-> "sets", count |-> Cardinality(ms),
                                          version |-> Read_NewVersion(m, t), etime |-> 0]]
          /\ data' = data \cup {<<k, Read_NewVersion(m, t), x>> : x \in ms}
    BY <1>1 DEF SAddWrite
  <2>2. MetaOK'
    BY <2>1 DEF MetaOK, IsSetsMeta
  <2>3. Frame({k})
    <3> SUFFICES ASSUME NEW j \in Keys \ {k}
                 PROVE  meta'[j] = meta[j] /\ Slice(data', j) = Slice(data, j)
      BY DEF Frame
    <3> QED
      BY <2>1 DEF MetaOK, Slice
  <2> QED
    BY <2>2, <2>3
<1>2. CASE Read_Live(m) /\ SAddNew(p, k, ms) = {}
  <2>1. UNCHANGED store
    BY <1>2 DEF SAddWrite
  <2> QED
    BY <2>1 DEF store, Frame, MetaOK
<1>3. CASE Read_Live(m) /\ SAddNew(p, k, ms) # {}
  <2>1. /\ meta' = [meta EXCEPT ![k] = [m EXCEPT !.count = @ + Cardinality(SAddNew(p, k, ms))]]
        /\ data' = data \cup {<<k, m.version, x>> : x \in SAddNew(p, k, ms)}
    BY <1>3 DEF SAddWrite
  <2>2. IsSetsMeta(m)
    BY <1>3 DEF MetaOK, Read_Live, Read_IsSets
  <2>3. MetaOK'
    BY <2>1, <2>2, CountKeepsSetsMeta DEF MetaOK
  <2>4. Frame({k})
    <3> SUFFICES ASSUME NEW j \in Keys \ {k}
                 PROVE  meta'[j] = meta[j] /\ Slice(data', j) = Slice(data, j)
      BY DEF Frame
    <3> QED
      BY <2>1 DEF MetaOK, Slice
  <2> QED
    BY <2>3, <2>4
<1> QED
  BY <1>1, <1>2, <1>3

\* SREM writes only the meta and the records of its key, and a Sets meta.
LEMMA SRemKeeps ==
    ASSUME MetaOK, NEW p, NEW k \in Keys, NEW args, rmeta[p][k] = meta[k],
           SRemOk(p, k, args), SRemWrite(p, k, args)
    PROVE  MetaOK' /\ Frame({k})
<1> DEFINE m == meta[k]
<1>1. /\ meta' = [meta EXCEPT ![k] = [m EXCEPT !.count = @ - Cardinality(SRemHits(p, k, args))]]
      /\ data' = data \ {<<k, m.version, args[i]>> : i \in SRemHits(p, k, args)}
  BY DEF SRemWrite
<1>2. IsSetsMeta(m)
  BY DEF SRemOk, MetaOK, Read_Live, Read_IsSets
<1>3. MetaOK'
  BY <1>1, <1>2, CountKeepsSetsMeta DEF MetaOK
<1>4. Frame({k})
  <2> SUFFICES ASSUME NEW j \in Keys \ {k}
               PROVE  meta'[j] = meta[j] /\ Slice(data', j) = Slice(data, j)
    BY DEF Frame
  <2> QED
    BY <1>1 DEF MetaOK, Slice
<1> QED
  BY <1>3, <1>4

\* SMOVE writes only the metas and the records of its two keys, and Sets
\* metas.
LEMMA SMoveKeeps ==
    ASSUME MetaOK, NEW p, NEW src \in Keys, NEW dst \in Keys, NEW x,
           rmeta[p][src] = meta[src], rmeta[p][dst] = meta[dst],
           SMoveOk(p, src, dst, x), SMoveWrite(p, src, dst, x)
    PROVE  MetaOK' /\ Frame({src, dst})
<1> DEFINE ms == meta[src]
           md == meta[dst]
           srcMeta == [meta EXCEPT ![src] = [ms EXCEPT !.count = @ - 1]]
           srcData == data \ {<<src, ms.version, x>>}
<1>1. IsSetsMeta(ms)
  BY DEF SMoveOk, MetaOK, Read_Live, Read_IsSets
<1>2. /\ DOMAIN srcMeta = Keys
      /\ \A j \in Keys : srcMeta[j] = NoMeta \/ IsSetsMeta(srcMeta[j])
      /\ \A j \in Keys \ {src} : srcMeta[j] = meta[j]
  BY <1>1, CountKeepsSetsMeta DEF MetaOK
<1>3. CASE ~Read_Live(md)
  <2>1. PICK t \in A!Readings :
          /\ meta' = [srcMeta EXCEPT ![dst] = [type |-> "sets", count |-> 1,
                                               version |-> Read_NewVersion(md, t), etime |-> 0]]
          /\ data' = srcData \cup {<<dst, Read_NewVersion(md, t), x>>}
    BY <1>3 DEF SMoveWrite
  <2>2. MetaOK'
    BY <1>2, <2>1 DEF MetaOK, IsSetsMeta
  <2>3. Frame({src, dst})
    <3> SUFFICES ASSUME NEW j \in Keys \ {src, dst}
                 PROVE  meta'[j] = meta[j] /\ Slice(data', j) = Slice(data, j)
      BY DEF Frame
    <3> QED
      BY <1>2, <2>1 DEF Slice
  <2> QED
    BY <2>2, <2>3
<1>4. CASE Read_Live(md) /\ ~Has(p, dst, md.version, x)
  <2>1. /\ meta' = [srcMeta EXCEPT ![dst] = [md EXCEPT !.count = @ + 1]]
        /\ data' = srcData \cup {<<dst, md.version, x>>}
    BY <1>4 DEF SMoveWrite
  <2>2. IsSetsMeta(md)
    BY <1>4 DEF MetaOK, Read_Live, Read_IsSets
  <2>3. MetaOK'
    BY <1>2, <2>1, <2>2, CountKeepsSetsMeta DEF MetaOK
  <2>4. Frame({src, dst})
    <3> SUFFICES ASSUME NEW j \in Keys \ {src, dst}
                 PROVE  meta'[j] = meta[j] /\ Slice(data', j) = Slice(data, j)
      BY DEF Frame
    <3> QED
      BY <1>2, <2>1 DEF Slice
  <2> QED
    BY <2>3, <2>4
<1>5. CASE Read_Live(md) /\ Has(p, dst, md.version, x)
  <2>1. meta' = srcMeta /\ data' = srcData
    BY <1>5 DEF SMoveWrite
  <2>2. MetaOK'
    BY <1>2, <2>1 DEF MetaOK
  <2>3. Frame({src, dst})
    <3> SUFFICES ASSUME NEW j \in Keys \ {src, dst}
                 PROVE  meta'[j] = meta[j] /\ Slice(data', j) = Slice(data, j)
      BY DEF Frame
    <3> QED
      BY <1>2, <2>1 DEF Slice
  <2> QED
    BY <2>2, <2>3
<1> QED
  BY <1>3, <1>4, <1>5

\* What a thread about to write read of one of its keys is the store.
LEMMA ReadIsStore ==
    ASSUME ReadsCurrent, NEW p \in Procs, pc[p] = "write", NEW k \in AccessKeys(cmd[p])
    PROVE  /\ rmeta[p][k] = meta[k]
           /\ \A v, x : Has(p, k, v, x) <=> <<k, v, x>> \in data
<1>1. rmeta[p][k] = meta[k] /\ Slice(rdata[p], k) = Slice(data, k)
  BY DEF ReadsCurrent
<1>2. \A v, x : Has(p, k, v, x) <=> <<k, v, x>> \in data
  BY <1>1, HasIsData
<1> QED
  BY <1>1, <1>2

\* The write of a SADD, SREM or SMOVE thread is its atomic command on the
\* store, or (an error return or nothing new) leaves the store alone; it
\* keeps Sets metas and touches only the keys the thread holds.
LEMMA WriteStore ==
    ASSUME LocksHeld, MetaOK, ReadsCurrent, NEW p \in Procs, Write(p),
           cmd[p].op # "rename"
    PROVE  /\ \/ UNCHANGED store
              \/ cmd[p].op = "sadd" /\ A!SAdd(cmd[p].k, cmd[p].arg)
              \/ cmd[p].op = "srem" /\ A!SRem(cmd[p].k, cmd[p].arg)
              \/ cmd[p].op = "smove" /\ A!SMove(cmd[p].k, cmd[p].n, cmd[p].arg)
           /\ [A!Next]_store
           /\ MetaOK'
           /\ Frame(AccessKeys(cmd[p]))
           /\ Release(p)
           /\ cmd' = cmd
<1> DEFINE c == cmd[p]
<1>1. /\ pc[p] = "write"
      /\ c \in Cmds
      /\ c.op \in {"sadd", "srem", "smove"}
      /\ c.k \in Keys /\ c.n \in Keys
  BY CmdsAssumption DEF Write, LocksHeld
<1>2. \/ ~CmdOk(p) /\ UNCHANGED store /\ Release(p) /\ cmd' = cmd
      \/ /\ CmdOk(p) /\ Release(p) /\ cmd' = cmd
         /\ \/ c.op = "sadd" /\ SAddWrite(p, c.k, c.arg)
            \/ c.op = "srem" /\ SRemWrite(p, c.k, c.arg)
            \/ c.op = "smove" /\ SMoveWrite(p, c.k, c.n, c.arg)
  BY <1>1 DEF Write
<1>3. CASE ~CmdOk(p) /\ UNCHANGED store /\ Release(p) /\ cmd' = cmd
  BY <1>3 DEF store, MetaOK, Frame
<1>4. CASE CmdOk(p) /\ Release(p) /\ cmd' = cmd /\ c.op = "sadd" /\ SAddWrite(p, c.k, c.arg)
  <2>1. c.arg \in (SUBSET Members) \ {{}} /\ AccessKeys(c) = {c.k}
    BY <1>1, <1>4, CmdsAssumption DEF AccessKeys
  <2>2. /\ rmeta[p][c.k] = meta[c.k]
        /\ \A v, x : Has(p, c.k, v, x) <=> <<c.k, v, x>> \in data
    BY <1>1, <2>1, ReadIsStore
  <2>3. SAddOk(p, c.k, c.arg)
    BY <1>4 DEF CmdOk
  <2>4. meta[c.k] = NoMeta \/ IsSetsMeta(meta[c.k])
    BY <1>1 DEF MetaOK
  <2>5. A!SAdd(c.k, c.arg) \/ UNCHANGED store
    BY <1>1, <1>4, <2>1, <2>2, <2>3, <2>4, SAddRefines
  <2>6. A!SAdd(c.k, c.arg) => A!Next
    BY <1>1, <2>1 DEF A!Next, A!SetsNext
  <2>7. MetaOK' /\ Frame({c.k})
    BY <1>1, <1>4, <2>2, SAddKeeps
  <2> QED
    BY <1>4, <2>1, <2>5, <2>6, <2>7
<1>5. CASE CmdOk(p) /\ Release(p) /\ cmd' = cmd /\ c.op = "srem" /\ SRemWrite(p, c.k, c.arg)
  <2>1. c.arg \in SRemArgs /\ AccessKeys(c) = {c.k}
    BY <1>1, <1>5, CmdsAssumption DEF AccessKeys
  <2>2. /\ rmeta[p][c.k] = meta[c.k]
        /\ \A v, x : Has(p, c.k, v, x) <=> <<c.k, v, x>> \in data
    BY <1>1, <2>1, ReadIsStore
  <2>3. SRemOk(p, c.k, c.arg)
    BY <1>5 DEF CmdOk
  <2>4. A!SRem(c.k, c.arg)
    BY <1>1, <1>5, <2>2, <2>3, SRemRefines
  <2>5. A!SRem(c.k, c.arg) => A!Next
    BY <1>1, <2>1 DEF A!Next, A!SetsNext
  <2>6. MetaOK' /\ Frame({c.k})
    BY <1>1, <1>5, <2>2, <2>3, SRemKeeps
  <2> QED
    BY <1>5, <2>1, <2>4, <2>5, <2>6
<1>6. CASE CmdOk(p) /\ Release(p) /\ cmd' = cmd /\ c.op = "smove" /\ SMoveWrite(p, c.k, c.n, c.arg)
  <2>1. c.arg \in Members /\ AccessKeys(c) = {c.k, c.n}
    BY <1>1, <1>6, CmdsAssumption DEF AccessKeys
  <2>2. /\ rmeta[p][c.k] = meta[c.k]
        /\ \A v, x : Has(p, c.k, v, x) <=> <<c.k, v, x>> \in data
    BY <1>1, <2>1, ReadIsStore
  <2>3. /\ rmeta[p][c.n] = meta[c.n]
        /\ \A v, x : Has(p, c.n, v, x) <=> <<c.n, v, x>> \in data
    BY <1>1, <2>1, ReadIsStore
  <2>4. SMoveOk(p, c.k, c.n, c.arg)
    BY <1>6 DEF CmdOk
  <2>5. meta[c.n] = NoMeta \/ IsSetsMeta(meta[c.n])
    BY <1>1 DEF MetaOK
  <2>6. A!SMove(c.k, c.n, c.arg)
    BY <1>1, <1>6, <2>2, <2>3, <2>4, <2>5, SMoveRefines
  <2>7. A!SMove(c.k, c.n, c.arg) => A!Next
    BY <1>1, <2>1 DEF A!Next, A!SetsNext
  <2>8. MetaOK' /\ Frame({c.k, c.n})
    BY <1>1, <1>6, <2>2, <2>3, <2>4, SMoveKeeps
  <2> QED
    BY <1>6, <2>1, <2>6, <2>7, <2>8
<1> QED
  BY <1>2, <1>3, <1>4, <1>5, <1>6

\* A step that leaves the store and what the threads read alone, and makes
\* no thread start writing, keeps the invariant.
LEMMA QuietStep ==
    ASSUME RefInv, LocksHeld', UNCHANGED <<meta, data, now, rmeta, rdata>>,
           \A q \in Procs : pc'[q] \in {"write", "put2"} => pc'[q] = pc[q] /\ cmd'[q] = cmd[q]
    PROVE  RefInv' /\ [A!Next]_store
<1>1. ReadsCurrent'
  BY DEF RefInv, ReadsCurrent
<1>2. \A q \in Procs : pc'[q] # "put2"
  BY DEF RefInv
<1> QED
  BY <1>1, <1>2 DEF RefInv, MetaOK, store

\* The invariant of the refinement is inductive, and every step of the
\* threads is a step of the atomic store or leaves it alone.
LEMMA RefStep ==
    ASSUME RefInv, NoRename, [Next]_vars
    PROVE  RefInv' /\ [A!Next]_store
<1>1. LocksHeld'
  BY NextLocksHeld DEF RefInv
<1>2. ASSUME NEW p \in Procs, Start(p) PROVE RefInv' /\ [A!Next]_store
  <2>1. pc' = [pc EXCEPT ![p] = "lock"] /\ pc[p] = "idle"
    BY <1>2 DEF Start
  <2>2. \A q \in Procs : pc'[q] \in {"write", "put2"} => pc'[q] = pc[q] /\ cmd'[q] = cmd[q]
    BY <1>2, <2>1 DEF Start, RefInv, LocksHeld
  <2> QED
    BY <1>1, <1>2, <2>2, QuietStep DEF Start
<1>3. ASSUME NEW p \in Procs, Acquire(p) PROVE RefInv' /\ [A!Next]_store
  <2>1. /\ pc' = [pc EXCEPT ![p] = IF LockKeys(cmd[p]) \subseteq Held(p) \cup {NextLock(p)}
                                   THEN "read" ELSE "lock"]
        /\ cmd' = cmd
    BY <1>3 DEF Acquire
  <2>2. \A q \in Procs : pc'[q] \in {"write", "put2"} => pc'[q] = pc[q] /\ cmd'[q] = cmd[q]
    BY <2>1 DEF RefInv, LocksHeld
  <2> QED
    BY <1>1, <1>3, <2>2, QuietStep DEF Acquire
<1>4. ASSUME NEW p \in Procs, Read(p) PROVE RefInv' /\ [A!Next]_store
  <2>1. AccessKeys(cmd[p]) \subseteq Keys
    BY LockKeysAreAccessKeys DEF RefInv, LocksHeld
  <2>2. ASSUME NEW q \in Procs, pc'[q] = "write", NEW k \in AccessKeys(cmd[q])
        PROVE  rmeta'[q][k] = meta'[k] /\ Slice(rdata'[q], k) = Slice(data', k)
    <3>1. CASE q = p
      BY <1>4, <2>1, <3>1 DEF Read, RefInv, Slice
    <3>2. CASE q # p
      BY <1>4, <2>2, <3>2 DEF Read, RefInv, ReadsCurrent, LocksHeld
    <3> QED
      BY <3>1, <3>2
  <2>3. \A q \in Procs : pc'[q] # "put2"
    BY <1>4 DEF Read, RefInv, LocksHeld
  <2>4. MetaOK' /\ DOMAIN rmeta' = Procs /\ DOMAIN rdata' = Procs
    BY <1>4 DEF Read, RefInv, MetaOK
  <2> QED
    BY <1>1, <1>4, <2>2, <2>3, <2>4 DEF RefInv, ReadsCurrent, Read, store
<1>5. ASSUME NEW p \in Procs, Write(p) PROVE RefInv' /\ [A!Next]_store
  <2>1. /\ [A!Next]_store
        /\ MetaOK'
        /\ Frame(AccessKeys(cmd[p]))
        /\ Release(p)
        /\ cmd' = cmd
    <3>1. LocksHeld /\ MetaOK /\ ReadsCurrent /\ cmd[p].op # "rename"
      BY DEF RefInv, NoRename, LocksHeld
    <3> QED
      BY <1>5, <3>1, WriteStore
  <2>2. pc[p] = "write"
    BY <1>5 DEF Write
  <2>3. ASSUME NEW q \in Procs, pc'[q] = "write", NEW k \in AccessKeys(cmd'[q])
        PROVE  rmeta'[q][k] = meta'[k] /\ Slice(rdata'[q], k) = Slice(data', k)
    <3>1. q # p /\ pc[q] = "write"
      BY <2>1, <2>3 DEF Release, RefInv, LocksHeld
    <3>2. k \notin AccessKeys(cmd[p]) /\ k \in Keys
      <4>1. ExclusiveAccess
        BY LocksHeldExclusive DEF RefInv
      <4>2. cmd[q] \in Cmds
        BY DEF RefInv, LocksHeld
      <4> QED
        BY <2>1, <2>2, <3>1, <4>1, <4>2, LockKeysAreAccessKeys DEF ExclusiveAccess, Busy
    <3>3. meta'[k] = meta[k] /\ Slice(data', k) = Slice(data, k)
      BY <2>1, <3>2 DEF Frame
    <3>4. rmeta'[q] = rmeta[q] /\ rdata'[q] = rdata[q]
      BY <2>1, <3>1 DEF Release, RefInv
    <3> QED
      BY <2>1, <3>1, <3>3, <3>4 DEF RefInv, ReadsCurrent
  <2>4. \A q \in Procs : pc'[q] # "put2"
    BY <2>1 DEF Release, RefInv, LocksHeld
  <2>5. DOMAIN rmeta' = Procs /\ DOMAIN rdata' = Procs
    BY <2>1 DEF Release, RefInv
  <2> QED
    BY <1>1, <2>1, <2>3, <2>4, <2>5 DEF RefInv, ReadsCurrent
<1>6. ASSUME NEW p \in Procs, Put2(p) PROVE FALSE
  BY <1>6 DEF Put2, RefInv
<1>7. CASE UNCHANGED vars
  BY <1>1, <1>7, QuietStep DEF vars
<1> QED
  BY <1>2, <1>3, <1>4, <1>5, <1>6, <1>7 DEF Next, Step

\* When no thread runs RENAME, the threads, taking record locks in sorted
\* order, reading under them and committing one batch, implement the atomic
\* Set commands of SetsStore: the property of the locked_sets run, for any
\* number of threads, keys, members and commands.
THEOREM ThreadsImplementAtomicSets ==
    ASSUME NoRename
    PROVE  Spec => ImplementsAtomicSets
<1>1. Init => RefInv
  <2> SUFFICES ASSUME Init PROVE RefInv
    OBVIOUS
  <2>1. LocksHeld
    BY InitLocksHeld
  <2> QED
    BY <2>1 DEF Init, A!Init, RefInv, MetaOK, ReadsCurrent
<1>2. Init => A!Init
  BY DEF Init
<1>3. RefInv /\ [Next]_vars => RefInv' /\ [A!Next]_store
  BY RefStep
<1> QED
  BY <1>1, <1>2, <1>3, PTL DEF Spec, ImplementsAtomicSets, A!Spec, A!vars, store
=============================================================================
