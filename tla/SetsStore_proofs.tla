--------------------------- MODULE SetsStore_proofs ---------------------------
(***************************************************************************)
(* Proofs about SetsStore for every value of its constants.               *)
(***************************************************************************)
EXTENDS SetsStore, FiniteSetTheorems, TLAPS

-----------------------------------------------------------------------------
(* Facts about the operators the model is built from. *)

\* A set of members, hence every set a command writes, has a count that
\* fits the meta's count field.
LEMMA MembersCount ==
    ASSUME NEW S \in SUBSET Members
    PROVE  Cardinality(S) \in 0 .. MaxCount
<1>1. IsFiniteSet(S) /\ Cardinality(S) <= Cardinality(Members)
    BY MembersAssumption, FS_Subset
<1>2. Cardinality(S) \in Nat /\ Cardinality(Members) \in Nat
    BY <1>1, MembersAssumption, FS_CardinalityType
<1>. QED  BY <1>1, <1>2, MembersAssumption, MaxCountAssumption

\* Every clock reading lies in the explored range.
LEMMA ReadingsType == Readings \subseteq 0 .. MaxTime
BY DEF Readings

\* A version given to a (re)created set is a natural number.
LEMMA NewVersionType ==
    ASSUME TypeOK, NEW k \in Keys, NEW t \in Readings
    PROVE  NewVersion(k, t) \in Nat
BY ReadingsType DEF TypeOK, MetaValue, NewVersion, InitialMetaValue, IsSets

\* The visible members of a key are members.
LEMMA ViewType ==
    ASSUME NEW k \in Keys
    PROVE  View(k) \subseteq Members
BY DEF View, MembersAt

\* The results that the STORE commands write are sets of members.
LEMMA ResultsType ==
    ASSUME NEW ks \in StoreArgs
    PROVE  /\ SDiffResult(ks) \subseteq Members
           /\ SInterResult(ks) \subseteq Members
           /\ SUnionResult(ks) \subseteq Members
<1>1. ks \in Seq(Keys) /\ Len(ks) >= 1
    BY ArgsAssumption
<1>2. \A i \in 1 .. Len(ks) : View(ks[i]) \subseteq Members
    BY <1>1, ViewType
<1>. QED  BY <1>1, <1>2 DEF SDiffResult, SInterResult, SUnionResult

\* The batch that (re)creates a key preserves the type invariant.
LEMMA CreateType ==
    ASSUME TypeOK, NEW k \in Keys, NEW ms \in SUBSET Members,
           NEW t \in Readings, Create(k, ms, t)
    PROVE  TypeOK'
<1>1. NewVersion(k, t) \in Nat /\ Cardinality(ms) \in 0 .. MaxCount
    BY NewVersionType, MembersCount
<1>. QED  BY <1>1, ReadingsType DEF Create, TypeOK, MetaValue

-----------------------------------------------------------------------------
(* The type invariant. *)

LEMMA InitType == Init => TypeOK
BY MaxTimeAssumption DEF Init, TypeOK

LEMMA SAddType ==
    ASSUME TypeOK, NEW k \in Keys, NEW ms \in SUBSET Members, SAdd(k, ms)
    PROVE  TypeOK'
<1>1. CASE \E t \in Readings : Create(k, ms, t)
    BY <1>1, CreateType
<1>2. CASE LiveSet(k) /\ LET v == meta[k].version
                             new == ms \ MembersAt(k, v)
                         IN  /\ new # {}
                             /\ CheckModifyCount(meta[k], Cardinality(new))
                             /\ meta' = [meta EXCEPT ![k].count = @ + Cardinality(new)]
                             /\ data' = data \cup {<<k, v, x>> : x \in new}
                             /\ UNCHANGED now
    <2>. DEFINE new == ms \ MembersAt(k, meta[k].version)
    <2>1. Cardinality(new) \in 0 .. MaxCount
        BY MembersCount
    <2>2. meta[k] \in MetaValue
        BY <1>2 DEF LiveSet, IsSets, TypeOK
    <2>. QED  BY <1>2, <2>1, <2>2 DEF TypeOK, MetaValue, CheckModifyCount
<1>. QED  BY <1>1, <1>2 DEF SAdd

LEMMA SRemType ==
    ASSUME TypeOK, NEW k \in Keys, NEW args \in SRemArgs, SRem(k, args)
    PROVE  TypeOK'
<1>. DEFINE v == meta[k].version
            hits == {i \in 1 .. Len(args) : <<k, v, args[i]>> \in data}
<1>1. args \in Seq(Members)
    BY ArgsAssumption
<1>2. IsFiniteSet(1 .. Len(args))
    BY <1>1, FS_Interval
<1>3. Cardinality(hits) \in Nat
    BY <1>2, FS_Subset, FS_CardinalityType
<1>4. meta[k] \in MetaValue /\ CheckModifyCount(meta[k], -Cardinality(hits))
    BY DEF SRem, LiveSet, IsSets, TypeOK
<1>5. [meta[k] EXCEPT !.count = @ - Cardinality(hits)] \in MetaValue
    BY <1>3, <1>4 DEF MetaValue, CheckModifyCount
<1>6. meta' \in [Keys -> MetaValue \cup {NoMeta}]
    <2>1. meta' = [meta EXCEPT ![k] = [meta[k] EXCEPT !.count = @ - Cardinality(hits)]]
        BY DEF SRem
    <2>. QED  BY <1>5, <2>1 DEF TypeOK
<1>7. data' \subseteq Keys \X Nat \X Members /\ now' = now
    BY DEF SRem, TypeOK
<1>. QED  BY <1>6, <1>7 DEF TypeOK

LEMMA SPopType ==
    ASSUME TypeOK, NEW k \in Keys, NEW c \in PopCounts, SPop(k, c)
    PROVE  TypeOK'
<1>1. c \in Nat /\ meta[k] \in MetaValue
    BY ArgsAssumption DEF SPop, LiveSet, IsSets, TypeOK
<1>. QED  BY <1>1 DEF SPop, TypeOK, MetaValue, CheckModifyCount

LEMMA SMoveType ==
    ASSUME TypeOK, NEW src \in Keys, NEW dst \in Keys, NEW x \in Members,
           SMove(src, dst, x)
    PROVE  TypeOK'
<1>. DEFINE srcMeta == [meta EXCEPT ![src].count = @ - 1]
            srcData == data \ {<<src, meta[src].version, x>>}
<1>1. meta[src] \in MetaValue /\ CheckModifyCount(meta[src], -1)
    BY DEF SMove, LiveSet, IsSets, TypeOK
<1>2. srcMeta \in [Keys -> MetaValue \cup {NoMeta}] /\ srcData \subseteq Keys \X Nat \X Members
    BY <1>1 DEF TypeOK, MetaValue, CheckModifyCount
<1>3. CASE \E t \in Readings :
              /\ meta' = [srcMeta EXCEPT ![dst] =
                            [type |-> "sets", count |-> 1,
                             version |-> NewVersion(dst, t), etime |-> 0]]
              /\ data' = srcData \cup {<<dst, NewVersion(dst, t), x>>}
              /\ now' = t
    BY <1>2, <1>3, NewVersionType, ReadingsType, MaxCountAssumption DEF TypeOK, MetaValue
<1>4. CASE /\ LiveSet(dst)
           /\ CheckModifyCount(meta[dst], 1)
           /\ meta' = [srcMeta EXCEPT ![dst] = [meta[dst] EXCEPT !.count = @ + 1]]
           /\ data' = srcData \cup {<<dst, meta[dst].version, x>>}
           /\ UNCHANGED now
    <2>1. meta[dst] \in MetaValue
        BY <1>4 DEF LiveSet, IsSets, TypeOK
    <2>. QED  BY <1>2, <1>4, <2>1 DEF TypeOK, MetaValue, CheckModifyCount
<1>5. CASE meta' = srcMeta /\ data' = srcData /\ UNCHANGED now
    BY <1>2, <1>5 DEF TypeOK
<1>. QED  BY <1>3, <1>4, <1>5 DEF SMove

LEMMA StoresType ==
    ASSUME TypeOK, NEW d \in Keys, NEW ks \in StoreArgs,
           SDiffstore(d, ks) \/ SInterstore(d, ks) \/ SUnionstore(d, ks)
    PROVE  TypeOK'
<1>1. /\ SDiffResult(ks) \in SUBSET Members
      /\ SInterResult(ks) \in SUBSET Members
      /\ SUnionResult(ks) \in SUBSET Members
    BY ResultsType
<1>2. CASE SDiffstore(d, ks)
    BY <1>1, <1>2, CreateType DEF SDiffstore
<1>3. CASE SInterstore(d, ks)
    BY <1>1, <1>2, <1>3, CreateType DEF SInterstore
<1>4. CASE SUnionstore(d, ks)
    <2>1. CASE \E t \in Readings : Create(d, SUnionResult(ks), t)
        BY <1>1, <2>1, CreateType
    <2>2. CASE /\ \E t \in Readings :
                     /\ data' = data \cup {<<d, NewVersion(d, t), x>> : x \in SUnionResult(ks)}
                     /\ now' = t
               /\ UNCHANGED meta
        BY <1>1, <2>2, NewVersionType, ReadingsType DEF TypeOK
    <2>. QED  BY <1>4, <2>1, <2>2 DEF SUnionstore
<1>. QED  BY <1>2, <1>3, <1>4

LEMMA EnvType ==
    ASSUME TypeOK, EnvNext
    PROVE  TypeOK'
<1>1. CASE Tick
    BY <1>1, MaxTimeAssumption DEF Tick, TypeOK
<1>2. ASSUME NEW k \in Keys, Expire(k) PROVE TypeOK'
    <2>1. meta[k] \in MetaValue /\ now \in Nat
        BY <1>2 DEF Expire, TypeOK
    <2>. QED  BY <1>2, <2>1 DEF Expire, TypeOK, MetaValue
<1>3. ASSUME NEW k \in Keys, StringsSet(k) PROVE TypeOK'
    BY <1>3, MaxCountAssumption DEF StringsSet, TypeOK, MetaValue
<1>4. ASSUME NEW k \in Keys, CompactMeta(k) PROVE TypeOK'
    BY <1>4 DEF CompactMeta, TypeOK
<1>5. ASSUME NEW r \in data, CompactData(r) PROVE TypeOK'
    BY <1>5 DEF CompactData, TypeOK
<1>. QED  BY <1>1, <1>2, <1>3, <1>4, <1>5 DEF EnvNext

\* The type invariant holds in every reachable state.
THEOREM TypeCorrect == Spec => []TypeOK
<1>1. TypeOK /\ [Next]_vars => TypeOK'
    <2>. SUFFICES ASSUME TypeOK, [Next]_vars PROVE TypeOK'
        OBVIOUS
    <2>1. CASE SetsNext
        BY <2>1, SAddType, SRemType, SPopType, SMoveType, StoresType DEF SetsNext
    <2>2. CASE EnvNext
        BY <2>2, EnvType
    <2>3. CASE UNCHANGED vars
        BY <2>3 DEF vars, TypeOK
    <2>. QED  BY <2>1, <2>2, <2>3 DEF Next
<1>. QED  BY <1>1, InitType, PTL DEF Spec

-----------------------------------------------------------------------------
(* No set is re-created with ghosts while the clock moves forward. *)

\* The clock readings that versions are allocated from only move forward:
\* what SetsMetaValue::UpdateVersion and InitialMetaValue rely on.
ClockForward == ClockSteps \subseteq Nat \ {0}

\* No member record and no meta carries a version later than the clock.
\* This is what makes every version that SADD, SMOVE and the STORE commands
\* allocate with InitialMetaValue or UpdateVersion unused by any record.
VersionsNotAhead ==
    /\ \A r \in data : r[2] <= now
    /\ \A k \in Keys : meta[k] # NoMeta => meta[k].version <= now

\* A reading lies after the clock, and a version allocated from it is the
\* reading itself.
LEMMA NewVersionIsReading ==
    ASSUME TypeOK, VersionsNotAhead, ClockForward,
           NEW k \in Keys, NEW t \in Readings
    PROVE  /\ t \in Nat /\ now < t
           /\ NewVersion(k, t) = t
<1>1. t \in Nat /\ now < t
    BY DEF Readings, ClockForward, TypeOK
<1>2. IsSets(k) => meta[k].version \in Nat /\ meta[k].version < t
    BY <1>1 DEF IsSets, VersionsNotAhead, TypeOK, MetaValue
<1>. QED  BY <1>1, <1>2 DEF NewVersion, InitialMetaValue

LEMMA CreateNotAhead ==
    ASSUME TypeOK, VersionsNotAhead, ClockForward,
           NEW k \in Keys, NEW ms \in SUBSET Members,
           NEW t \in Readings, Create(k, ms, t)
    PROVE  VersionsNotAhead'
<1>1. t \in Nat /\ now < t /\ NewVersion(k, t) = t
    BY NewVersionIsReading
<1>2. \A r \in data' : r[2] <= now'
    BY <1>1 DEF Create, VersionsNotAhead, TypeOK
<1>3. \A j \in Keys : meta'[j] # NoMeta => meta'[j].version <= now'
    BY <1>1 DEF Create, VersionsNotAhead, TypeOK, MetaValue
<1>. QED  BY <1>2, <1>3 DEF VersionsNotAhead

\* Changing the count of a set's meta leaves every version where it was.
LEMMA CountUpdateKeepsVersions ==
    ASSUME TypeOK, NEW k \in Keys, meta[k] \in MetaValue, NEW n, NEW j \in Keys,
           [meta EXCEPT ![k].count = n][j] # NoMeta
    PROVE  /\ meta[j] # NoMeta
           /\ [meta EXCEPT ![k].count = n][j].version = meta[j].version
<1>1. CASE j = k
    <2>1. [meta EXCEPT ![k].count = n][j] = [meta[k] EXCEPT !.count = n]
        BY <1>1 DEF TypeOK
    <2>2. meta[k] # NoMeta
        BY NoMetaAssumption DEF MetaValue
    <2>. QED  BY <1>1, <2>1, <2>2 DEF MetaValue
<1>2. CASE j # k
    BY <1>2 DEF TypeOK
<1>. QED  BY <1>1, <1>2

LEMMA NextNotAhead ==
    ASSUME TypeOK, VersionsNotAhead, ClockForward, [Next]_vars
    PROVE  VersionsNotAhead'
<1>1. ASSUME NEW k \in Keys, NEW ms \in SUBSET Members, SAdd(k, ms)
      PROVE  VersionsNotAhead'
    <2>1. CASE \E t \in Readings : Create(k, ms, t)
        BY <2>1, CreateNotAhead
    <2>2. CASE LiveSet(k) /\ LET v == meta[k].version
                                 new == ms \ MembersAt(k, v)
                             IN  /\ meta' = [meta EXCEPT ![k].count = @ + Cardinality(new)]
                                 /\ data' = data \cup {<<k, v, x>> : x \in new}
                                 /\ UNCHANGED now
        BY <2>2 DEF VersionsNotAhead, LiveSet, IsSets, TypeOK
    <2>. QED  BY <1>1, <2>1, <2>2 DEF SAdd
<1>2. ASSUME NEW k \in Keys, NEW args \in SRemArgs, SRem(k, args)
      PROVE  VersionsNotAhead'
    BY <1>2 DEF SRem, VersionsNotAhead, LiveSet, IsSets, TypeOK
<1>3. ASSUME NEW k \in Keys, NEW c \in PopCounts, SPop(k, c)
      PROVE  VersionsNotAhead'
    <2>1. data' \subseteq data /\ now' = now
        BY <1>3 DEF SPop
    <2>2. meta[k] \in MetaValue
        BY <1>3 DEF SPop, LiveSet, IsSets, TypeOK
    <2>3. \/ meta' = [meta EXCEPT ![k] = NoMeta]
          \/ meta' = [meta EXCEPT ![k].count = meta[k].count - c]
        BY <1>3 DEF SPop
    <2>4. \A j \in Keys : meta'[j] # NoMeta => meta[j] # NoMeta /\ meta'[j].version = meta[j].version
        <3>1. CASE meta' = [meta EXCEPT ![k] = NoMeta]
            BY <3>1 DEF TypeOK
        <3>2. CASE meta' = [meta EXCEPT ![k].count = meta[k].count - c]
            BY <2>2, <3>2, CountUpdateKeepsVersions
        <3>. QED  BY <2>3, <3>1, <3>2
    <2>. QED  BY <2>1, <2>4 DEF VersionsNotAhead
<1>4. ASSUME NEW src \in Keys, NEW dst \in Keys, NEW x \in Members,
             SMove(src, dst, x)
      PROVE  VersionsNotAhead'
    <2>. DEFINE srcMeta == [meta EXCEPT ![src].count = @ - 1]
                srcData == data \ {<<src, meta[src].version, x>>}
    <2>0. meta[src] \in MetaValue
        BY <1>4 DEF SMove, LiveSet, IsSets, TypeOK
    <2>1. /\ \A r \in srcData : r[2] <= now
          /\ \A j \in Keys : srcMeta[j] # NoMeta => srcMeta[j].version <= now
          /\ \A j \in Keys : srcMeta[j] # NoMeta => srcMeta[j].version \in Nat
          /\ DOMAIN srcMeta = Keys
        <3>1. \A j \in Keys : srcMeta[j] # NoMeta => meta[j] # NoMeta /\ srcMeta[j].version = meta[j].version
            BY <2>0, CountUpdateKeepsVersions
        <3>2. \A r \in srcData : r[2] <= now
            BY DEF VersionsNotAhead
        <3>3. DOMAIN srcMeta = Keys
            BY DEF TypeOK
        <3>. QED  BY <3>1, <3>2, <3>3 DEF VersionsNotAhead, TypeOK, MetaValue
    <2>2. CASE \E t \in Readings :
                  /\ meta' = [srcMeta EXCEPT ![dst] =
                                [type |-> "sets", count |-> 1,
                                 version |-> NewVersion(dst, t), etime |-> 0]]
                  /\ data' = srcData \cup {<<dst, NewVersion(dst, t), x>>}
                  /\ now' = t
        <3>1. PICK t \in Readings :
                  /\ meta' = [srcMeta EXCEPT ![dst] =
                                [type |-> "sets", count |-> 1,
                                 version |-> NewVersion(dst, t), etime |-> 0]]
                  /\ data' = srcData \cup {<<dst, NewVersion(dst, t), x>>}
                  /\ now' = t
            BY <2>2
        <3>2. t \in Nat /\ now < t /\ NewVersion(dst, t) = t
            BY NewVersionIsReading
        <3>3. \A r \in data' : r[2] <= now'
            BY <2>1, <3>1, <3>2 DEF TypeOK
        <3>4. ASSUME NEW j \in Keys, meta'[j] # NoMeta PROVE meta'[j].version <= now'
            <4>1. CASE j = dst
                BY <3>1, <3>2, <4>1, <2>1
            <4>2. CASE j # dst
                <5>1. meta'[j] = srcMeta[j]
                    BY <3>1, <4>2, <2>1
                <5>2. srcMeta[j] # NoMeta
                    BY <3>4, <5>1
                <5>3. srcMeta[j].version <= now /\ srcMeta[j].version \in Nat
                    BY <2>1, <5>2
                <5>4. now \in Nat /\ now' \in Nat /\ now < now'
                    BY <3>1, <3>2 DEF TypeOK
                <5>5. meta'[j].version <= now /\ meta'[j].version \in Nat
                    BY <5>1, <5>3, Zenon
                <5>. QED  BY <5>4, <5>5
            <4>. QED  BY <4>1, <4>2
        <3>. QED  BY <3>3, <3>4 DEF VersionsNotAhead
    <2>3. CASE /\ LiveSet(dst)
               /\ meta' = [srcMeta EXCEPT ![dst] = [meta[dst] EXCEPT !.count = @ + 1]]
               /\ data' = srcData \cup {<<dst, meta[dst].version, x>>}
               /\ UNCHANGED now
        <3>1. meta[dst] \in MetaValue /\ meta[dst].version <= now
            BY <2>3 DEF LiveSet, IsSets, TypeOK, VersionsNotAhead
        <3>2. \A r \in data' : r[2] <= now'
            BY <2>1, <2>3, <3>1 DEF TypeOK
        <3>3. ASSUME NEW j \in Keys, meta'[j] # NoMeta PROVE meta'[j].version <= now'
            <4>1. CASE j = dst
                BY <2>1, <2>3, <3>1, <4>1 DEF MetaValue
            <4>2. CASE j # dst
                <5>1. meta'[j] = srcMeta[j]
                    BY <2>3, <4>2, <2>1
                <5>. QED  BY <2>1, <2>3, <3>3, <5>1 DEF TypeOK
            <4>. QED  BY <4>1, <4>2
        <3>. QED  BY <3>2, <3>3 DEF VersionsNotAhead
    <2>4. CASE meta' = srcMeta /\ data' = srcData /\ UNCHANGED now
        BY <2>1, <2>4 DEF VersionsNotAhead
    <2>. QED  BY <1>4, <2>2, <2>3, <2>4 DEF SMove
<1>5. ASSUME NEW d \in Keys, NEW ks \in StoreArgs,
             SDiffstore(d, ks) \/ SInterstore(d, ks) \/ SUnionstore(d, ks)
      PROVE  VersionsNotAhead'
    <2>1. /\ SDiffResult(ks) \in SUBSET Members
          /\ SInterResult(ks) \in SUBSET Members
          /\ SUnionResult(ks) \in SUBSET Members
        BY ResultsType
    <2>2. CASE \E t \in Readings :
                  /\ data' = data \cup {<<d, NewVersion(d, t), x>> : x \in SUnionResult(ks)}
                  /\ now' = t
                  /\ UNCHANGED meta
        <3>1. PICK t \in Readings :
                  /\ data' = data \cup {<<d, NewVersion(d, t), x>> : x \in SUnionResult(ks)}
                  /\ now' = t
                  /\ UNCHANGED meta
            BY <2>2
        <3>2. t \in Nat /\ now < t /\ NewVersion(d, t) = t
            BY NewVersionIsReading
        <3>. QED  BY <3>1, <3>2 DEF VersionsNotAhead, TypeOK, MetaValue
    <2>3. CASE \E t \in Readings : \E ms \in SUBSET Members : Create(d, ms, t)
        BY <2>3, CreateNotAhead
    <2>. QED  BY <1>5, <2>1, <2>2, <2>3 DEF SDiffstore, SInterstore, SUnionstore
<1>6. CASE Tick
    BY <1>6 DEF Tick, VersionsNotAhead, TypeOK, MetaValue
<1>8. ASSUME NEW k \in Keys, Expire(k) \/ StringsSet(k) \/ CompactMeta(k)
      PROVE  VersionsNotAhead'
    BY <1>8 DEF Expire, StringsSet, CompactMeta, VersionsNotAhead, TypeOK, MetaValue
<1>9. ASSUME NEW r \in data, CompactData(r) PROVE VersionsNotAhead'
    BY <1>9 DEF CompactData, VersionsNotAhead
<1>7. CASE UNCHANGED vars
    BY <1>7 DEF VersionsNotAhead, vars
<1>. QED  BY <1>1, <1>2, <1>3, <1>4, <1>5, <1>6, <1>7, <1>8, <1>9 DEF Next, SetsNext, EnvNext

\* The batch that (re)creates a key under a version taken from a clock
\* reading leaves it holding exactly the written members, because that
\* version is new to every record.
LEMMA CreateView ==
    ASSUME TypeOK, VersionsNotAhead, ClockForward,
           NEW k \in Keys, NEW ms \in SUBSET Members,
           NEW t \in Readings, Create(k, ms, t)
    PROVE  View(k)' = ms
<1>2. t \in Nat /\ now < t /\ NewVersion(k, t) = t
    BY NewVersionIsReading
<1>3. /\ meta'[k] = [type |-> "sets", count |-> Cardinality(ms), version |-> t, etime |-> 0]
      /\ data' = data \cup {<<k, t, x>> : x \in ms}
    BY <1>2 DEF Create, TypeOK
<1>4. MembersAt(k, t)' = ms
    <2>1. \A x \in Members : <<k, t, x>> \notin data
        BY <1>2 DEF VersionsNotAhead, TypeOK
    <2>. QED  BY <1>3, <2>1 DEF MembersAt
<1>5. IsFiniteSet(ms) /\ Cardinality(ms) \in Nat
    BY MembersAssumption, FS_Subset, FS_CardinalityType
<1>6. meta'[k] # NoMeta /\ meta'[k].etime = 0
    <2>1. meta'[k] \in [type : {"sets", "strings"}, count : Int, version : Int, etime : Int]
        BY <1>2, <1>3, <1>5
    <2>. QED  BY <1>3, <2>1, NoMetaAssumption
<1>7. CASE ms = {}
    <2>1. Cardinality(ms) = 0
        BY <1>7, FS_EmptySet
    <2>2. ~LiveSet(k)'
        BY <1>3, <2>1 DEF LiveSet, IsStale
    <2>. QED  BY <1>7, <2>2 DEF View
<1>8. CASE ms # {}
    <2>1. Cardinality(ms) # 0
        BY <1>5, <1>8, FS_EmptySet
    <2>2. LiveSet(k)'
        BY <1>3, <1>6, <2>1 DEF LiveSet, IsSets, IsStale, Expired
    <2>. QED  BY <1>3, <1>4, <2>2 DEF View
<1>. QED  BY <1>7, <1>8

\* SADD on a key that is not a live set: the set it creates holds exactly
\* the added members.
LEMMA SAddNoGhosts ==
    ASSUME TypeOK, VersionsNotAhead, ClockForward,
           NEW k \in Keys, NEW ms \in SUBSET Members,
           SAdd(k, ms), ~LiveSet(k)
    PROVE  View(k)' = ms
<1>1. PICK t \in Readings : Create(k, ms, t)
    BY DEF SAdd
<1>. QED  BY <1>1, CreateView

\* SDIFFSTORE and SINTERSTORE write their result under a new version of
\* the destination, which then holds exactly the result.
LEMMA StoresNoGhosts ==
    ASSUME TypeOK, VersionsNotAhead, ClockForward,
           NEW d \in Keys, NEW ks \in StoreArgs
    PROVE  /\ SDiffstore(d, ks) => View(d)' = SDiffResult(ks)
           /\ SInterstore(d, ks) => View(d)' = SInterResult(ks)
<1>1. SDiffResult(ks) \subseteq Members /\ SInterResult(ks) \subseteq Members
    BY ResultsType
<1>2. ASSUME SDiffstore(d, ks) PROVE View(d)' = SDiffResult(ks)
    <2>1. PICK t \in Readings : Create(d, SDiffResult(ks), t)
        BY <1>2 DEF SDiffstore
    <2>. QED  BY <1>1, <2>1, CreateView
<1>3. ASSUME SInterstore(d, ks) PROVE View(d)' = SInterResult(ks)
    <2>1. PICK t \in Readings : Create(d, SInterResult(ks), t)
        BY <1>3 DEF SInterstore
    <2>. QED  BY <1>1, <2>1, CreateView
<1>. QED  BY <1>2, <1>3

\* While the clock only moves forward, no record and no meta carries a
\* version later than the clock.
THEOREM VersionsStayBehindClock ==
    ASSUME ClockForward
    PROVE  Spec => [](TypeOK /\ VersionsNotAhead)
<1>1. Init => TypeOK /\ VersionsNotAhead
    BY InitType DEF Init, VersionsNotAhead
<1>2. TypeOK /\ VersionsNotAhead /\ [Next]_vars => (TypeOK /\ VersionsNotAhead)'
    <2>1. TypeOK /\ [Next]_vars => TypeOK'
        BY SAddType, SRemType, SPopType, SMoveType, StoresType, EnvType
           DEF Next, SetsNext, vars, TypeOK
    <2>. QED  BY <2>1, NextNotAhead
<1>. QED  BY <1>1, <1>2, PTL DEF Spec

\* SADD that (re)creates a set, after SREM or SPOP emptied it, an EXPIRE
\* staled it, or a Strings SET replaced it, shows exactly the added members
\* (RecreatedSetHasNoGhosts), for every number of keys and members, as long
\* as the clock that versions are taken from only moves forward.
THEOREM NoGhostsOnRecreate ==
    ASSUME ClockForward
    PROVE  Spec => RecreatedSetHasNoGhosts
<1>1. TypeOK /\ VersionsNotAhead =>
         \A k \in Keys, ms \in SUBSET Members : SAdd(k, ms) /\ ~LiveSet(k) => View(k)' = ms
    BY SAddNoGhosts
<1>. QED  BY <1>1, VersionsStayBehindClock, PTL DEF RecreatedSetHasNoGhosts

\* SDIFFSTORE and SINTERSTORE leave the destination holding exactly their
\* result, whatever it held before (StoreReplacesDestination), for every
\* number of keys and members, as long as the clock that versions are
\* taken from only moves forward: the records of the destination's earlier
\* incarnations are under older versions.
THEOREM StoresReplaceDestination ==
    ASSUME ClockForward
    PROVE  Spec => StoreReplacesDestination
<1>1. TypeOK /\ VersionsNotAhead =>
         \A d \in Keys, ks \in StoreArgs :
            /\ SDiffstore(d, ks) => View(d)' = SDiffResult(ks)
            /\ SInterstore(d, ks) => View(d)' = SInterResult(ks)
    BY StoresNoGhosts
<1>. QED  BY <1>1, VersionsStayBehindClock, PTL DEF StoreReplacesDestination
=============================================================================
