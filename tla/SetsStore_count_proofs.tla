------------------------ MODULE SetsStore_count_proofs ------------------------
(***************************************************************************)
(* The count of every unexpired Sets meta equals the number of member     *)
(* records under its version (CountMatchesMembers), for every value of    *)
(* the constants, while the clock moves forward and SREM is given         *)
(* distinct members.                                                       *)
(***************************************************************************)
EXTENDS SetsStore_proofs

-----------------------------------------------------------------------------
(* The order of the sets-data column family, and positions in it. *)

\* The records the data column family can hold.
Rec == Keys \X Nat \X Members

\* (key, version, member) ordering is a strict total order on records:
\* keys and members compare as their encoded bytes, versions as numbers.
LEMMA BeforeOrder ==
    ASSUME NEW r \in Rec, NEW q \in Rec, NEW s \in Rec
    PROVE  /\ ~Before(r, r)
           /\ Before(r, q) => ~Before(q, r)
           /\ Before(r, q) /\ Before(q, s) => Before(r, s)
           /\ r # q => Before(r, q) \/ Before(q, r)
<1>1. r = <<r[1], r[2], r[3]>> /\ q = <<q[1], q[2], q[3]>>
    BY DEF Rec
<1>2. /\ r[1] \in Nat /\ r[2] \in Nat /\ r[3] \in Nat
      /\ q[1] \in Nat /\ q[2] \in Nat /\ q[3] \in Nat
      /\ s[1] \in Nat /\ s[2] \in Nat /\ s[3] \in Nat
    BY KeysAssumption, MembersAssumption DEF Rec
<1>. QED  BY <1>1, <1>2 DEF Before

\* The position of a record among a finite set of records lies below the
\* size of the set.
LEMMA PosRange ==
    ASSUME NEW R \in SUBSET Rec, IsFiniteSet(R), NEW r \in R
    PROVE  Pos(R, r) \in 0 .. Cardinality(R) - 1
<1>1. {q \in R : Before(q, r)} \subseteq R \ {r}
    BY BeforeOrder
<1>2. IsFiniteSet(R \ {r}) /\ Cardinality(R \ {r}) = Cardinality(R) - 1
    BY FS_RemoveElement
<1>3. Cardinality({q \in R : Before(q, r)}) <= Cardinality(R \ {r})
    BY <1>1, <1>2, FS_Subset
<1>4. Cardinality({q \in R : Before(q, r)}) \in Nat /\ Cardinality(R) \in Nat
    BY <1>1, <1>2, FS_Subset, FS_CardinalityType
<1>. QED  BY <1>2, <1>3, <1>4 DEF Pos

\* Two distinct records have distinct positions: the one before the other
\* has strictly fewer records before it.
LEMMA PosInjective ==
    ASSUME NEW R \in SUBSET Rec, IsFiniteSet(R), NEW r \in R, NEW q \in R, r # q
    PROVE  Pos(R, r) # Pos(R, q)
<1>1. ASSUME NEW a \in R, NEW b \in R, Before(a, b)
      PROVE  Pos(R, a) # Pos(R, b)
    <2>. DEFINE Sa == {s \in R : Before(s, a)}
                Sb == {s \in R : Before(s, b)}
    <2>1. Sa \subseteq Sb
        BY <1>1, BeforeOrder
    <2>2. a \in Sb /\ a \notin Sa
        BY <1>1, BeforeOrder
    <2>3. IsFiniteSet(Sb)
        BY FS_Subset
    <2>4. Cardinality(Sa) # Cardinality(Sb)
        BY <2>1, <2>2, <2>3, FS_Subset
    <2>. QED  BY <2>4 DEF Pos
<1>. QED  BY <1>1, BeforeOrder

\* Deleting the records at a set idx of positions deletes |idx| records:
\* Pos maps the records one to one onto 0 .. |R| - 1.
LEMMA PosPreimage ==
    ASSUME NEW R \in SUBSET Rec, IsFiniteSet(R),
           NEW idx \in SUBSET (0 .. Cardinality(R) - 1)
    PROVE  /\ IsFiniteSet({r \in R : Pos(R, r) \in idx})
           /\ Cardinality({r \in R : Pos(R, r) \in idx}) = Cardinality(idx)
<1>. DEFINE n == Cardinality(R)
            f == [r \in R |-> Pos(R, r)]
            P == {r \in R : Pos(R, r) \in idx}
            g == [r \in P |-> Pos(R, r)]
<1>1. n \in Nat
    BY FS_CardinalityType
<1>2. IsFiniteSet(0 .. n - 1) /\ Cardinality(0 .. n - 1) = n
    <2>1. /\ IsFiniteSet(0 .. n - 1)
          /\ Cardinality(0 .. n - 1) = IF 0 > n - 1 THEN 0 ELSE n - 1 - 0 + 1
        BY <1>1, FS_Interval
    <2>. QED  BY <1>1, <2>1
<1>3. f \in Injection(R, 0 .. n - 1)
    BY PosRange, PosInjective DEF Injection, IsInjective
<1>4. f \in Surjection(R, 0 .. n - 1)
    BY <1>2, <1>3, FS_Injection
<1>5. IsFiniteSet(idx)
    BY <1>2, FS_Subset
<1>6. g \in Injection(P, idx)
    BY PosInjective DEF Injection, IsInjective
<1>7. g \in Surjection(P, idx)
    <2>1. ASSUME NEW i \in idx PROVE \E r \in P : g[r] = i
        <3>1. PICK r \in R : f[r] = i
            BY <1>4 DEF Surjection
        <3>. QED  BY <3>1
    <2>. QED  BY <2>1 DEF Surjection
<1>. QED  BY <1>5, <1>6, <1>7, FS_Injection

-----------------------------------------------------------------------------
(* Member records and counts. *)

\* The member records a batch writes for the members S of key k at
\* version v.
Recs(k, v, S) == {<<k, v, x>> : x \in S}

\* The member records of key k under version v.
Records(k, v) == {r \in data : r[1] = k /\ r[2] = v}

\* The count condition of CountMatchesMembers for one key.
CountOK(k) ==
    IsSets(k) /\ ~Expired(meta[k]) => meta[k].count = Cardinality(MembersAt(k, meta[k].version))

\* The invariant that CountMatchesMembers needs to be inductive: the store
\* is typed and finite, and no version is ahead of the clock.
CountInv == TypeOK /\ VersionsNotAhead /\ IsFiniteSet(data) /\ CountMatchesMembers

\* SREM names every member at most once (what the tests call SREM with
\* distinct members; SREM k a a is the srem_duplicates run).
SRemDistinct == \A a \in SRemArgs : \A i, j \in 1 .. Len(a) : a[i] = a[j] => i = j

\* A batch writes one record per member.
LEMMA RecsCard ==
    ASSUME NEW k, NEW v, NEW S \in SUBSET Members
    PROVE  /\ IsFiniteSet(Recs(k, v, S))
           /\ Cardinality(Recs(k, v, S)) = Cardinality(S)
<1>. DEFINE h == [x \in S |-> <<k, v, x>>]
<1>1. IsFiniteSet(S)
    BY MembersAssumption, FS_Subset
<1>2. h \in Bijection(S, Recs(k, v, S))
    BY DEF Bijection, Injection, Surjection, IsInjective, Recs
<1>. QED  BY <1>1, <1>2, FS_Bijection DEF ExistsBijection

\* The member records of key k under version v in a store S of records,
\* and the members they hold.
RecordsIn(S, k, v) == {r \in S : r[1] = k /\ r[2] = v}
MembersIn(S, k, v) == {x \in Members : <<k, v, x>> \in S}

\* The member records of a set, in any store of records, are the records
\* of its members.
LEMMA RecordsMembers ==
    \A S \in SUBSET Rec : \A k, v :
       /\ RecordsIn(S, k, v) = Recs(k, v, MembersIn(S, k, v))
       /\ IsFiniteSet(RecordsIn(S, k, v))
       /\ Cardinality(RecordsIn(S, k, v)) = Cardinality(MembersIn(S, k, v))
<1>. SUFFICES ASSUME NEW S \in SUBSET Rec, NEW k, NEW v
              PROVE  /\ RecordsIn(S, k, v) = Recs(k, v, MembersIn(S, k, v))
                     /\ IsFiniteSet(RecordsIn(S, k, v))
                     /\ Cardinality(RecordsIn(S, k, v)) = Cardinality(MembersIn(S, k, v))
    OBVIOUS
<1>. DEFINE RS == RecordsIn(S, k, v)
            MS == MembersIn(S, k, v)
<1>1. RS = Recs(k, v, MS)
    <2>1. \A r \in S : r = <<r[1], r[2], r[3]>> /\ r[3] \in Members
        BY DEF Rec
    <2>2. RS \subseteq Recs(k, v, MS)
        <3>1. ASSUME NEW r \in RS
              PROVE  r[3] \in MS /\ r = <<k, v, r[3]>>
            BY <2>1 DEF RecordsIn, MembersIn
        <3>. QED  BY <3>1 DEF Recs
    <2>3. Recs(k, v, MS) \subseteq RS
        <3>1. ASSUME NEW x \in MS PROVE <<k, v, x>> \in RS
            BY DEF RecordsIn, MembersIn
        <3>. QED  BY <3>1 DEF Recs
    <2>. QED  BY <2>2, <2>3
<1>2. IsFiniteSet(RS) /\ Cardinality(RS) = Cardinality(MS)
    <2>1. MS \in SUBSET Members
        BY DEF MembersIn
    <2>2. IsFiniteSet(Recs(k, v, MS)) /\ Cardinality(Recs(k, v, MS)) = Cardinality(MS)
        BY <2>1, RecsCard
    <2>. QED  BY <1>1, <2>2
<1>. QED  BY <1>1, <1>2

\* A key whose meta and member records under its meta's version are left
\* as they were keeps its count right while the clock does not go back.
LEMMA CountFrame ==
    ASSUME TypeOK, NEW j \in Keys, CountOK(j), meta'[j] = meta[j],
           now' \in Nat, now <= now',
           IsSets(j) /\ ~Expired(meta[j]) =>
              \A x \in Members : <<j, meta[j].version, x>> \in data' <=>
                                 <<j, meta[j].version, x>> \in data
    PROVE  CountOK(j)'
<1>. SUFFICES ASSUME IsSets(j)', ~Expired(meta[j])'
              PROVE  (meta[j].count = Cardinality(MembersAt(j, meta[j].version)))'
    BY DEF CountOK
<1>1. IsSets(j) /\ meta[j] \in MetaValue
    BY DEF IsSets, TypeOK
<1>2. ~Expired(meta[j])
    BY <1>1 DEF Expired, TypeOK, MetaValue
<1>3. MembersAt(j, meta[j].version)' = MembersAt(j, meta[j].version)
    BY <1>1, <1>2 DEF MembersAt
<1>. QED  BY <1>1, <1>2, <1>3 DEF CountOK

\* SPOP's iterator, sought to a set's version, meets the set's member
\* records first and in their own order; every other record it meets comes
\* after all of them.
LEMMA SeekPositions ==
    ASSUME TypeOK, IsFiniteSet(data), NEW k \in Keys, NEW v \in Nat
    PROVE  /\ Records(k, v) \subseteq SeekFrom(k, v)
           /\ \A r \in Records(k, v) : Pos(SeekFrom(k, v), r) = Pos(Records(k, v), r)
           /\ \A r \in SeekFrom(k, v) \ Records(k, v) :
                 Pos(SeekFrom(k, v), r) >= Cardinality(Records(k, v))
<1>. DEFINE it == SeekFrom(k, v)
            R == Records(k, v)
<1>1. data \subseteq Rec /\ it \subseteq data /\ R \subseteq it
    BY KeysAssumption DEF TypeOK, Rec, SeekFrom, Records
<1>2. ASSUME NEW r \in R PROVE Pos(it, r) = Pos(R, r)
    <2>1. ASSUME NEW q \in it, Before(q, r) PROVE q \in R
        <3>1. q \in Rec /\ r \in Rec /\ r[1] = k /\ r[2] = v
            BY <1>1 DEF Records
        <3>2. q[1] \in Nat /\ q[2] \in Nat /\ k \in Nat
            BY <3>1, KeysAssumption DEF Rec
        <3>. QED  BY <2>1, <3>1, <3>2 DEF Before, SeekFrom, Records
    <2>2. {q \in it : Before(q, r)} = {q \in R : Before(q, r)}
        BY <1>1, <2>1
    <2>. QED  BY <2>2 DEF Pos
<1>3. ASSUME NEW r \in it \ R PROVE Pos(it, r) >= Cardinality(R)
    <2>1. R \subseteq {q \in it : Before(q, r)}
        <3>1. ASSUME NEW q \in R PROVE Before(q, r)
            <4>1. q \in Rec /\ r \in Rec /\ q[1] = k /\ q[2] = v
                BY <1>1 DEF Records
            <4>2. r[1] \in Nat /\ r[2] \in Nat /\ k \in Nat
                BY <4>1, KeysAssumption DEF Rec
            <4>3. r[1] > k \/ (r[1] = k /\ r[2] > v)
                BY <1>3, <4>1, <4>2 DEF SeekFrom, Records
            <4>. QED  BY <4>1, <4>3 DEF Before
        <3>. QED  BY <1>1, <3>1
    <2>2. IsFiniteSet({q \in it : Before(q, r)})
        BY <1>1, FS_Subset
    <2>. QED  BY <2>1, <2>2, FS_Subset DEF Pos
<1>. QED  BY <1>1, <1>2, <1>3

-----------------------------------------------------------------------------
(* Each command keeps the counts right. *)

\* The batch that (re)creates a key under a version taken from a clock
\* reading gives it the count of the members it writes, and leaves every
\* other key's meta and records alone.
LEMMA CreateCount ==
    ASSUME TypeOK, VersionsNotAhead, ClockForward, CountMatchesMembers,
           NEW k \in Keys, NEW ms \in SUBSET Members,
           NEW t \in Readings, Create(k, ms, t)
    PROVE  CountMatchesMembers'
<1>1. t \in Nat /\ now < t /\ NewVersion(k, t) = t
    BY NewVersionIsReading
<1>2. /\ meta'[k] = [type |-> "sets", count |-> Cardinality(ms), version |-> t, etime |-> 0]
      /\ data' = data \cup Recs(k, t, ms)
      /\ now' = t
    BY <1>1 DEF Create, TypeOK, Recs
<1>3. CountOK(k)'
    <2>1. \A x \in Members : <<k, t, x>> \notin data
        BY <1>1 DEF VersionsNotAhead, TypeOK
    <2>2. MembersAt(k, t)' = ms
        BY <1>2, <2>1 DEF MembersAt, Recs
    <2>. QED  BY <1>2, <2>2 DEF CountOK
<1>4. ASSUME NEW j \in Keys, j # k PROVE CountOK(j)'
    <2>1. meta'[j] = meta[j]
        BY <1>4 DEF Create, TypeOK
    <2>2. \A x \in Members : <<j, meta[j].version, x>> \in data' <=>
                             <<j, meta[j].version, x>> \in data
        BY <1>2, <1>4 DEF Recs
    <2>3. CountOK(j)
        BY DEF CountMatchesMembers, CountOK
    <2>. QED  BY <1>1, <1>2, <2>1, <2>2, <2>3, CountFrame DEF TypeOK
<1>. QED  BY <1>3, <1>4 DEF CountMatchesMembers, CountOK

\* A step that changes only the records of the keys K, and the metas of
\* the keys K, keeps the count right for every other key.
LEMMA OthersCount ==
    ASSUME TypeOK, CountMatchesMembers, NEW K \in SUBSET Keys,
           \A j \in Keys \ K : meta'[j] = meta[j],
           \A r \in (data' \ data) \cup (data \ data') : r[1] \in K,
           now' \in Nat, now <= now'
    PROVE  \A j \in Keys \ K : CountOK(j)'
<1>1. ASSUME NEW j \in Keys \ K PROVE CountOK(j)'
    <2>1. \A x \in Members : <<j, meta[j].version, x>> \in data' <=>
                             <<j, meta[j].version, x>> \in data
        BY <1>1
    <2>2. CountOK(j)
        BY <1>1 DEF CountMatchesMembers, CountOK
    <2>. QED  BY <1>1, <2>1, <2>2, CountFrame
<1>. QED  BY <1>1

\* A step that sets the count of a Sets meta to the number of member
\* records left under its version keeps the count right for that key.
LEMMA CountUpdate ==
    ASSUME TypeOK, NEW k \in Keys, IsSets(k), NEW v, v = meta[k].version, NEW n,
           meta'[k] = [meta[k] EXCEPT !.count = n],
           n = Cardinality(MembersAt(k, v)')
    PROVE  CountOK(k)'
<1>1. meta[k] \in MetaValue
    BY DEF IsSets, TypeOK
<1>2. /\ meta'[k].count = n /\ meta'[k].version = v
      /\ meta'[k].type = meta[k].type /\ meta'[k].etime = meta[k].etime
    BY <1>1 DEF MetaValue
<1>. QED  BY <1>2 DEF CountOK

\* SADD keeps the count right: a re-created set counts the added members,
\* an existing one the members that were not yet present.
LEMMA SAddCount ==
    ASSUME TypeOK, VersionsNotAhead, ClockForward, CountMatchesMembers,
           NEW k \in Keys, NEW ms \in SUBSET Members, SAdd(k, ms)
    PROVE  CountMatchesMembers'
<1>1. CASE \E t \in Readings : Create(k, ms, t)
    BY <1>1, CreateCount
<1>2. CASE /\ LiveSet(k)
           /\ LET v == meta[k].version
                  new == ms \ MembersAt(k, v)
              IN  /\ meta' = [meta EXCEPT ![k].count = @ + Cardinality(new)]
                  /\ data' = data \cup {<<k, v, x>> : x \in new}
                  /\ UNCHANGED now
    <2>0. PICK v \in Nat : v = meta[k].version
        BY <1>2 DEF LiveSet, IsSets, TypeOK, MetaValue
    <2>. DEFINE old == MembersAt(k, v)
                new == ms \ old
    <2>1. /\ meta' = [meta EXCEPT ![k].count = @ + Cardinality(new)]
          /\ data' = data \cup Recs(k, v, new)
          /\ now' = now
        BY <1>2, <2>0 DEF Recs
    <2>2. IsSets(k) /\ ~Expired(meta[k]) /\ meta[k].count = Cardinality(old)
        BY <1>2, <2>0 DEF LiveSet, IsStale, CountMatchesMembers
    <2>3. MembersAt(k, v)' = old \cup new
        BY <2>1 DEF MembersAt, Recs
    <2>4. Cardinality(old \cup new) = Cardinality(old) + Cardinality(new)
        <3>1. IsFiniteSet(old) /\ IsFiniteSet(new)
            BY MembersAssumption, FS_Subset DEF MembersAt
        <3>2. Cardinality(old \cap new) = 0
            <4>1. old \cap new = {}
                OBVIOUS
            <4>. QED  BY <4>1, FS_EmptySet
        <3>3. Cardinality(old \cup new) =
                 Cardinality(old) + Cardinality(new) - Cardinality(old \cap new)
            BY <3>1, FS_Union
        <3>4. Cardinality(old) \in Nat /\ Cardinality(new) \in Nat
            BY <3>1, FS_CardinalityType
        <3>. QED  BY <3>2, <3>3, <3>4
    <2>5. CountOK(k)'
        <3>1. meta'[k] = [meta[k] EXCEPT !.count = meta[k].count + Cardinality(new)]
            BY <2>1 DEF TypeOK
        <3>. QED  BY <2>0, <2>1, <2>2, <2>3, <2>4, <3>1, CountUpdate
    <2>6. \A j \in Keys \ {k} : CountOK(j)'
        <3>1. \A j \in Keys \ {k} : meta'[j] = meta[j]
            BY <2>1 DEF TypeOK
        <3>2. \A r \in (data' \ data) \cup (data \ data') : r[1] \in {k}
            BY <2>1 DEF Recs
        <3>3. now' \in Nat /\ now <= now'
            BY <2>1 DEF TypeOK
        <3>4. {k} \in SUBSET Keys
            OBVIOUS
        <3>. QED  BY <3>1, <3>2, <3>3, <3>4, OthersCount
    <2>. QED  BY <2>5, <2>6 DEF CountMatchesMembers, CountOK
<1>. QED  BY <1>1, <1>2 DEF SAdd

\* SREM with distinct members deletes as many member records as it counts
\* hits.
LEMMA SRemCount ==
    ASSUME TypeOK, CountMatchesMembers, SRemDistinct,
           NEW k \in Keys, NEW args \in SRemArgs, SRem(k, args)
    PROVE  CountMatchesMembers'
<1>1. PICK v \in Nat : v = meta[k].version
    BY DEF SRem, LiveSet, IsSets, TypeOK, MetaValue
<1>. DEFINE hits == {i \in 1 .. Len(args) : <<k, v, args[i]>> \in data}
            A == {args[i] : i \in hits}
            old == MembersAt(k, v)
<1>2. /\ meta' = [meta EXCEPT ![k].count = @ - Cardinality(hits)]
      /\ data' = data \ {<<k, v, args[i]>> : i \in hits}
      /\ now' = now
      /\ IsSets(k) /\ ~Expired(meta[k])
    BY <1>1 DEF SRem, LiveSet, IsStale
<1>3. args \in Seq(Members)
    BY ArgsAssumption
<1>4. MembersAt(k, v)' = old \ A /\ A \subseteq old
    <2>1. A \subseteq old
        <3>1. ASSUME NEW i \in hits PROVE args[i] \in old
            <4>1. i \in 1 .. Len(args) /\ <<k, v, args[i]>> \in data
                OBVIOUS
            <4>2. args[i] \in Members
                BY <1>3, <4>1
            <4>. QED  BY <4>1, <4>2 DEF MembersAt
        <3>. QED  BY <3>1
    <2>2. ASSUME NEW x \in Members
          PROVE  <<k, v, x>> \in data' <=> x \in old \ A
        <3>1. <<k, v, x>> \in {<<k, v, args[i]>> : i \in hits} <=> x \in A
            OBVIOUS
        <3>. QED  BY <1>2, <3>1 DEF MembersAt
    <2>. QED  BY <2>1, <2>2 DEF MembersAt
<1>5. Cardinality(A) = Cardinality(hits)
    <2>. DEFINE f == [i \in hits |-> args[i]]
    <2>1. IsFiniteSet(A)
        BY <1>4, MembersAssumption, FS_Subset DEF MembersAt
    <2>2. f \in Injection(hits, A)
        BY <1>3 DEF SRemDistinct, Injection, IsInjective
    <2>3. f \in Surjection(hits, A)
        BY DEF Surjection
    <2>. QED  BY <2>1, <2>2, <2>3, FS_Injection
<1>6. Cardinality(old \ A) = Cardinality(old) - Cardinality(A)
    <2>1. IsFiniteSet(old)
        BY MembersAssumption, FS_Subset DEF MembersAt
    <2>2. old \cap A = A
        BY <1>4
    <2>. QED  BY <2>1, <2>2, FS_Difference
<1>7. CountOK(k)'
    <2>1. meta[k].count = Cardinality(old)
        BY <1>1, <1>2 DEF CountMatchesMembers
    <2>2. meta'[k] = [meta[k] EXCEPT !.count = meta[k].count - Cardinality(hits)]
        BY <1>2 DEF TypeOK
    <2>. QED  BY <1>1, <1>2, <1>4, <1>5, <1>6, <2>1, <2>2, CountUpdate
<1>8. \A j \in Keys \ {k} : CountOK(j)'
    <2>1. \A j \in Keys \ {k} : meta'[j] = meta[j]
        BY <1>2 DEF TypeOK
    <2>2. \A r \in (data' \ data) \cup (data \ data') : r[1] \in {k}
        <3>1. data' \ data = {}
            BY <1>2
        <3>2. ASSUME NEW r \in data \ data' PROVE r[1] = k
            <4>1. PICK i \in hits : r = <<k, v, args[i]>>
                BY <1>2, <3>2
            <4>. QED  BY <4>1
        <3>. QED  BY <3>1, <3>2
    <2>3. now' \in Nat /\ now <= now'
        BY <1>2 DEF TypeOK
    <2>4. {k} \in SUBSET Keys
        OBVIOUS
    <2>. QED  BY <2>1, <2>2, <2>3, <2>4, OthersCount
<1>. QED  BY <1>7, <1>8 DEF CountMatchesMembers, CountOK

\* SPOP deletes only member records of the popped set's version, and as
\* many as it takes off the count: the iterator meets the set's count
\* records first, so every position below the count is one of them.
LEMMA SPopCount ==
    ASSUME TypeOK, IsFiniteSet(data), CountMatchesMembers,
           NEW k \in Keys, NEW c \in PopCounts, SPop(k, c)
    PROVE  /\ \A r \in data \ data' : r[1] = k /\ r[2] = meta[k].version
           /\ CountMatchesMembers'
<1>1. PICK v \in Nat : v = meta[k].version
    BY DEF SPop, LiveSet, IsSets, TypeOK, MetaValue
<1>. DEFINE it == SeekFrom(k, v)
            R == Records(k, v)
            n == meta[k].count
<1>2. /\ IsSets(k) /\ ~Expired(meta[k])
      /\ n = Cardinality(MembersAt(k, v))
      /\ now' = now
    BY <1>1 DEF SPop, LiveSet, IsStale, CountMatchesMembers
<1>3. data \subseteq Rec /\ R \subseteq Rec /\ IsFiniteSet(R) /\ n = Cardinality(R) /\ n \in Nat
    <2>1. data \subseteq Rec
        BY DEF TypeOK, Rec
    <2>2. IsFiniteSet(R) /\ Cardinality(R) = Cardinality(MembersAt(k, v))
        <3>1. /\ IsFiniteSet(RecordsIn(data, k, v))
              /\ Cardinality(RecordsIn(data, k, v)) = Cardinality(MembersIn(data, k, v))
            BY <2>1, RecordsMembers
        <3>. QED  BY <3>1 DEF Records, MembersAt, RecordsIn, MembersIn
    <2>. QED  BY <1>2, <2>1, <2>2, FS_CardinalityType DEF Records
<1>4. /\ R \subseteq it
      /\ \A r \in R : Pos(it, r) = Pos(R, r)
      /\ \A r \in it \ R : Pos(it, r) >= n
    BY <1>3, SeekPositions
<1>5. \A r \in it : Pos(it, r) \in Nat
    <2>1. ASSUME NEW r \in it PROVE IsFiniteSet({q \in it : Before(q, r)})
        BY FS_Subset DEF SeekFrom
    <2>. QED  BY <2>1, FS_CardinalityType DEF Pos
<1>6. \A r \in it : Pos(it, r) < n => r \in R
    BY <1>3, <1>4, <1>5
<1>7. \A r \in R : r[1] = k /\ r[2] = v
    BY DEF Records
<1>8. ASSUME NEW K \in SUBSET Keys, k \in K,
             \A j \in Keys \ K : meta'[j] = meta[j],
             data \ data' \subseteq R, data' \subseteq data
      PROVE  \A j \in Keys \ K : CountOK(j)'
    <2>1. \A r \in (data' \ data) \cup (data \ data') : r[1] \in K
        BY <1>7, <1>8
    <2>2. now' \in Nat /\ now <= now'
        BY <1>2 DEF TypeOK
    <2>. QED  BY <1>8, <2>1, <2>2, OthersCount
<1>9. CASE n < c
    <2>1. /\ data' = data \ {r \in it : Pos(it, r) < n}
          /\ meta' = [meta EXCEPT ![k] = NoMeta]
        <3>1. c \in Nat
            BY ArgsAssumption
        <3>. QED  BY <1>1, <1>9, <1>3, <3>1 DEF SPop
    <2>2. data \ data' \subseteq R /\ data' \subseteq data
        BY <1>6, <2>1
    <2>3. CountOK(k)'
        BY <2>1 DEF CountOK, IsSets, TypeOK
    <2>4. \A j \in Keys \ {k} : CountOK(j)'
        BY <2>1, <2>2, <1>8 DEF TypeOK
    <2>. QED  BY <1>1, <1>7, <2>2, <2>3, <2>4 DEF CountMatchesMembers, CountOK
<1>10. CASE n >= c
    <2>1. PICK idx \in SUBSET (0 .. n - 1) :
              /\ Cardinality(idx) = c
              /\ data' = data \ {r \in it : Pos(it, r) \in idx}
              /\ meta' = [meta EXCEPT ![k].count = @ - c]
        <3>1. ~(n < c)
            BY <1>10, <1>3, ArgsAssumption
        <3>. QED  BY <1>1, <3>1 DEF SPop
    <2>. DEFINE D == {r \in R : Pos(R, r) \in idx}
    <2>2. {r \in it : Pos(it, r) \in idx} = D
        <3>1. ASSUME NEW r \in it, Pos(it, r) \in idx PROVE r \in D
            <4>1. Pos(it, r) < n
                BY <3>1, <1>3, <1>5
            <4>2. r \in R
                BY <4>1, <1>6
            <4>. QED  BY <3>1, <4>2, <1>4
        <3>2. ASSUME NEW r \in D PROVE r \in it /\ Pos(it, r) \in idx
            BY <1>4
        <3>. QED  BY <3>1, <3>2
    <2>3. IsFiniteSet(D) /\ Cardinality(D) = c
        BY <1>3, <2>1, PosPreimage
    <2>4. data' = data \ D /\ D \subseteq R
        BY <2>1, <2>2
    <2>5. Cardinality(MembersAt(k, v)') = n - c
        <3>1. {r \in data' : r[1] = k /\ r[2] = v} = R \ D
            BY <2>4 DEF Records
        <3>2. Cardinality(R \ D) = n - c
            <4>1. R \cap D = D
                BY <2>4
            <4>2. Cardinality(R \ D) = Cardinality(R) - Cardinality(R \cap D)
                BY <1>3, FS_Difference
            <4>. QED  BY <1>3, <2>3, <4>1, <4>2
        <3>3. data' \subseteq Rec
            BY <1>3, <2>4
        <3>4. Cardinality(RecordsIn(data', k, v)) = Cardinality(MembersIn(data', k, v))
            BY <3>3, RecordsMembers
        <3>. QED  BY <3>1, <3>2, <3>4 DEF MembersAt, RecordsIn, MembersIn
    <2>6. CountOK(k)'
        <3>1. meta'[k] = [meta[k] EXCEPT !.count = n - c]
            BY <2>1 DEF TypeOK
        <3>. QED  BY <1>1, <1>2, <2>5, <3>1, CountUpdate
    <2>7. \A j \in Keys \ {k} : CountOK(j)'
        <3>1. \A j \in Keys \ {k} : meta'[j] = meta[j]
            BY <2>1 DEF TypeOK
        <3>. QED  BY <2>4, <3>1, <1>8
    <2>8. \A r \in data \ data' : r[1] = k /\ r[2] = meta[k].version
        BY <1>1, <1>7, <2>4
    <2>9. CountMatchesMembers'
        BY <2>6, <2>7 DEF CountMatchesMembers, CountOK
    <2>. QED  BY <2>8, <2>9
<1>. QED  BY <1>3, <1>9, <1>10, ArgsAssumption

\* SMOVE's staged delete from the source: one member record less under
\* the source's version, and a count one lower.
LEMMA SMoveSourceCount ==
    ASSUME TypeOK, CountMatchesMembers, NEW src \in Keys, LiveSet(src),
           NEW vs \in Nat, vs = meta[src].version,
           NEW x \in Members, <<src, vs, x>> \in data,
           meta'[src] = [meta[src] EXCEPT !.count = @ - 1],
           \A y \in Members : <<src, vs, y>> \in data' <=> <<src, vs, y>> \in data /\ y # x
    PROVE  CountOK(src)'
<1>1. MembersAt(src, vs)' = MembersAt(src, vs) \ {x} /\ x \in MembersAt(src, vs)
    BY DEF MembersAt
<1>2. IsFiniteSet(MembersAt(src, vs))
    BY MembersAssumption, FS_Subset DEF MembersAt
<1>3. Cardinality(MembersAt(src, vs) \ {x}) = Cardinality(MembersAt(src, vs)) - 1
    BY <1>1, <1>2, FS_RemoveElement
<1>4. meta[src].count = Cardinality(MembersAt(src, vs)) /\ IsSets(src)
    BY DEF LiveSet, IsStale, CountMatchesMembers
<1>. QED  BY <1>1, <1>3, <1>4, CountUpdate

\* SMOVE keeps the counts right: the source loses the member, and the
\* destination gains it unless it already held it.
LEMMA SMoveCount ==
    ASSUME TypeOK, VersionsNotAhead, ClockForward, CountMatchesMembers,
           NEW src \in Keys, NEW dst \in Keys, NEW x \in Members, SMove(src, dst, x)
    PROVE  CountMatchesMembers'
<1>1. PICK vs \in Nat : vs = meta[src].version
    BY DEF SMove, LiveSet, IsSets, TypeOK, MetaValue
<1>. DEFINE srcMeta == [meta EXCEPT ![src].count = @ - 1]
            srcData == data \ {<<src, vs, x>>}
<1>2. LiveSet(src) /\ <<src, vs, x>> \in data
    BY <1>1 DEF SMove
<1>3. \A j \in Keys \ {src} : srcMeta[j] = meta[j]
    BY DEF TypeOK
<1>4. srcMeta[src] = [meta[src] EXCEPT !.count = @ - 1]
    BY DEF TypeOK
<1>5. CASE \E t \in Readings :
              /\ ~LiveSet(dst)
              /\ meta' = [srcMeta EXCEPT ![dst] =
                            [type |-> "sets", count |-> 1,
                             version |-> NewVersion(dst, t), etime |-> 0]]
              /\ data' = srcData \cup {<<dst, NewVersion(dst, t), x>>}
              /\ now' = t
    <2>1. PICK t \in Readings :
              /\ ~LiveSet(dst)
              /\ meta' = [srcMeta EXCEPT ![dst] =
                            [type |-> "sets", count |-> 1,
                             version |-> NewVersion(dst, t), etime |-> 0]]
              /\ data' = srcData \cup {<<dst, NewVersion(dst, t), x>>}
              /\ now' = t
        BY <1>5
    <2>2. t \in Nat /\ now < t /\ NewVersion(dst, t) = t
        BY NewVersionIsReading
    <2>3. src # dst
        BY <1>2, <2>1
    <2>4. CountOK(src)'
        <3>1. meta'[src] = [meta[src] EXCEPT !.count = @ - 1]
            BY <1>4, <2>1, <2>3 DEF TypeOK
        <3>2. \A y \in Members : <<src, vs, y>> \in data' <=> <<src, vs, y>> \in data /\ y # x
            BY <2>1, <2>3
        <3>. QED  BY <1>1, <1>2, <3>1, <3>2, SMoveSourceCount
    <2>5. CountOK(dst)'
        <3>1. meta'[dst] = [type |-> "sets", count |-> 1, version |-> t, etime |-> 0]
            BY <2>1, <2>2 DEF TypeOK
        <3>2. \A y \in Members : <<dst, t, y>> \notin data
            BY <2>2 DEF VersionsNotAhead, TypeOK
        <3>3. MembersAt(dst, t)' = {x}
            BY <2>1, <2>2, <3>2 DEF MembersAt
        <3>4. Cardinality({x}) = 1
            BY FS_Singleton
        <3>. QED  BY <3>1, <3>3, <3>4 DEF CountOK
    <2>6. \A j \in Keys \ {src, dst} : CountOK(j)'
        <3>1. \A j \in Keys \ {src, dst} : meta'[j] = meta[j]
            BY <2>1, <1>3 DEF TypeOK
        <3>2. \A r \in (data' \ data) \cup (data \ data') : r[1] \in {src, dst}
            BY <2>1
        <3>3. now' \in Nat /\ now <= now' /\ {src, dst} \in SUBSET Keys
            BY <2>1, <2>2 DEF TypeOK
        <3>. QED  BY <3>1, <3>2, <3>3, OthersCount
    <2>. QED  BY <2>4, <2>5, <2>6 DEF CountMatchesMembers, CountOK
<1>6. CASE /\ LiveSet(dst)
           /\ <<dst, meta[dst].version, x>> \notin data
           /\ meta' = [srcMeta EXCEPT ![dst] = [meta[dst] EXCEPT !.count = @ + 1]]
           /\ data' = srcData \cup {<<dst, meta[dst].version, x>>}
           /\ UNCHANGED now
    <2>1. PICK vd \in Nat : vd = meta[dst].version
        BY <1>6 DEF LiveSet, IsSets, TypeOK, MetaValue
    <2>2. src # dst
        BY <1>1, <1>2, <1>6, <2>1
    <2>3. CountOK(src)'
        <3>1. meta'[src] = [meta[src] EXCEPT !.count = @ - 1]
            BY <1>4, <1>6, <2>2 DEF TypeOK
        <3>2. \A y \in Members : <<src, vs, y>> \in data' <=> <<src, vs, y>> \in data /\ y # x
            BY <1>6, <2>2
        <3>. QED  BY <1>1, <1>2, <3>1, <3>2, SMoveSourceCount
    <2>4. CountOK(dst)'
        <3>1. meta'[dst] = [meta[dst] EXCEPT !.count = @ + 1]
            BY <1>6 DEF TypeOK
        <3>2. MembersAt(dst, vd)' = MembersAt(dst, vd) \cup {x} /\ x \notin MembersAt(dst, vd)
            BY <1>6, <2>1, <2>2 DEF MembersAt
        <3>3. IsFiniteSet(MembersAt(dst, vd))
            BY MembersAssumption, FS_Subset DEF MembersAt
        <3>4. Cardinality(MembersAt(dst, vd) \cup {x}) = Cardinality(MembersAt(dst, vd)) + 1
            BY <3>2, <3>3, FS_AddElement
        <3>5. meta[dst].count = Cardinality(MembersAt(dst, vd)) /\ IsSets(dst)
            BY <1>6, <2>1 DEF LiveSet, IsStale, CountMatchesMembers
        <3>. QED  BY <2>1, <3>1, <3>2, <3>4, <3>5, CountUpdate
    <2>5. \A j \in Keys \ {src, dst} : CountOK(j)'
        <3>1. \A j \in Keys \ {src, dst} : meta'[j] = meta[j]
            BY <1>6, <1>3 DEF TypeOK
        <3>2. \A r \in (data' \ data) \cup (data \ data') : r[1] \in {src, dst}
            BY <1>6
        <3>3. now' \in Nat /\ now <= now' /\ {src, dst} \in SUBSET Keys
            BY <1>6 DEF TypeOK
        <3>. QED  BY <3>1, <3>2, <3>3, OthersCount
    <2>. QED  BY <2>3, <2>4, <2>5 DEF CountMatchesMembers, CountOK
<1>7. CASE meta' = srcMeta /\ data' = srcData /\ UNCHANGED now
    <2>1. CountOK(src)'
        <3>1. meta'[src] = [meta[src] EXCEPT !.count = @ - 1]
            BY <1>4, <1>7
        <3>2. \A y \in Members : <<src, vs, y>> \in data' <=> <<src, vs, y>> \in data /\ y # x
            BY <1>7
        <3>. QED  BY <1>1, <1>2, <3>1, <3>2, SMoveSourceCount
    <2>2. \A j \in Keys \ {src} : CountOK(j)'
        <3>1. \A j \in Keys \ {src} : meta'[j] = meta[j]
            BY <1>7, <1>3
        <3>2. \A r \in (data' \ data) \cup (data \ data') : r[1] \in {src}
            BY <1>7
        <3>3. now' \in Nat /\ now <= now' /\ {src} \in SUBSET Keys
            BY <1>7 DEF TypeOK
        <3>. QED  BY <3>1, <3>2, <3>3, OthersCount
    <2>. QED  BY <2>1, <2>2 DEF CountMatchesMembers, CountOK
<1>. QED  BY <1>1, <1>5, <1>6, <1>7 DEF SMove

\* SDIFFSTORE, SINTERSTORE and SUNIONSTORE keep the counts right.  Where
\* SUNIONSTORE leaves a Sets meta as it was, the records it writes are
\* under a version newer than that meta's, which the meta never counts.
LEMMA StoresCount ==
    ASSUME TypeOK, VersionsNotAhead, ClockForward, CountMatchesMembers,
           NEW d \in Keys, NEW ks \in StoreArgs,
           SDiffstore(d, ks) \/ SInterstore(d, ks) \/ SUnionstore(d, ks)
    PROVE  CountMatchesMembers'
<1>1. /\ SDiffResult(ks) \in SUBSET Members
      /\ SInterResult(ks) \in SUBSET Members
      /\ SUnionResult(ks) \in SUBSET Members
    BY ResultsType
<1>2. CASE \E t \in Readings :
              /\ data' = data \cup {<<d, NewVersion(d, t), x>> : x \in SUnionResult(ks)}
              /\ now' = t
              /\ UNCHANGED meta
    <2>1. PICK t \in Readings :
              /\ data' = data \cup {<<d, NewVersion(d, t), x>> : x \in SUnionResult(ks)}
              /\ now' = t
              /\ UNCHANGED meta
        BY <1>2
    <2>2. t \in Nat /\ now < t /\ NewVersion(d, t) = t
        BY NewVersionIsReading
    <2>3. ASSUME NEW j \in Keys PROVE CountOK(j)'
        <3>1. ASSUME IsSets(j) /\ ~Expired(meta[j])
              PROVE  \A y \in Members : <<j, meta[j].version, y>> \in data' <=>
                                        <<j, meta[j].version, y>> \in data
            <4>1. meta[j] \in MetaValue /\ meta[j].version <= now
                BY <3>1 DEF IsSets, TypeOK, VersionsNotAhead
            <4>2. meta[j].version # t
                BY <2>2, <4>1 DEF MetaValue, TypeOK
            <4>. QED  BY <2>1, <2>2, <4>2
        <3>2. CountOK(j)
            BY DEF CountMatchesMembers, CountOK
        <3>. QED  BY <2>1, <2>2, <3>1, <3>2, CountFrame DEF TypeOK
    <2>. QED  BY <2>3 DEF CountMatchesMembers, CountOK
<1>3. CASE \E t \in Readings : \E ms \in SUBSET Members : Create(d, ms, t)
    BY <1>3, CreateCount
<1>. QED  BY <1>1, <1>2, <1>3 DEF SDiffstore, SInterstore, SUnionstore

\* The commands of other types and the store's own steps keep the counts
\* right: EXPIRE and the clock only stale a set, SET and the meta filter
\* remove a Sets meta, and the data filter drops no record a live count
\* counts.
LEMMA EnvCount ==
    ASSUME TypeOK, CountMatchesMembers, EnvNext
    PROVE  CountMatchesMembers'
<1>1. CASE Tick
    <2>1. ASSUME NEW j \in Keys PROVE CountOK(j)'
        <3>1. CountOK(j)
            BY DEF CountMatchesMembers, CountOK
        <3>. QED  BY <1>1, <3>1, CountFrame DEF Tick, TypeOK
    <2>. QED  BY <2>1 DEF CountMatchesMembers, CountOK
<1>2. ASSUME NEW k \in Keys, Expire(k) \/ StringsSet(k) \/ CompactMeta(k)
      PROVE  CountMatchesMembers'
    <2>1. /\ \A j \in Keys \ {k} : meta'[j] = meta[j]
          /\ data' = data /\ now' = now
        BY <1>2 DEF Expire, StringsSet, CompactMeta, TypeOK
    <2>2. \A j \in Keys \ {k} : CountOK(j)'
        <3>1. \A r \in (data' \ data) \cup (data \ data') : r[1] \in {k}
            BY <2>1
        <3>2. now' \in Nat /\ now <= now' /\ {k} \in SUBSET Keys
            BY <2>1 DEF TypeOK
        <3>. QED  BY <2>1, <3>1, <3>2, OthersCount
    <2>3. CountOK(k)'
        <3>1. CASE Expire(k)
            <4>1. PICK e \in Nat : meta' = [meta EXCEPT ![k].etime = e]
                <5>1. PICK e \in {now, now + 1} \ {0} : meta' = [meta EXCEPT ![k].etime = e]
                    BY <3>1 DEF Expire
                <5>2. e \in Nat
                    BY DEF TypeOK
                <5>. QED  BY <5>1, <5>2
            <4>2. meta[k] \in MetaValue /\ ~IsStale(meta[k])
                BY <3>1, NoMetaAssumption DEF Expire, TypeOK
            <4>3. meta'[k] = [meta[k] EXCEPT !.etime = e]
                BY <4>1 DEF TypeOK
            <4>4. /\ meta'[k].type = meta[k].type /\ meta'[k].count = meta[k].count
                  /\ meta'[k].version = meta[k].version
                BY <4>2, <4>3 DEF MetaValue
            <4>5. meta[k].type = "sets" => meta[k].count = Cardinality(MembersAt(k, meta[k].version))
                <5>1. meta[k] # NoMeta /\ ~Expired(meta[k])
                    BY <3>1, <4>2 DEF Expire, IsStale
                <5>2. CountOK(k)
                    BY DEF CountMatchesMembers, CountOK
                <5>. QED  BY <5>1, <5>2 DEF CountOK, IsSets
            <4>. QED  BY <2>1, <4>4, <4>5 DEF CountOK, IsSets, MembersAt
        <3>2. CASE StringsSet(k) \/ CompactMeta(k)
            <4>1. ~IsSets(k)'
                BY <3>2 DEF StringsSet, CompactMeta, IsSets, TypeOK
            <4>. QED  BY <4>1 DEF CountOK
        <3>. QED  BY <1>2, <3>1, <3>2
    <2>. QED  BY <2>2, <2>3 DEF CountMatchesMembers, CountOK
<1>3. ASSUME NEW r \in data, CompactData(r) PROVE CountMatchesMembers'
    <2>1. ASSUME NEW j \in Keys PROVE CountOK(j)'
        <3>1. CountOK(j)
            BY DEF CountMatchesMembers, CountOK
        <3>2. ASSUME IsSets(j), ~Expired(meta[j]), NEW y \in Members
              PROVE  r # <<j, meta[j].version, y>>
            <4>. SUFFICES ASSUME r = <<j, meta[j].version, y>> PROVE FALSE
                OBVIOUS
            <4>1. meta[j].version > r[2] \/ IsStale(meta[j])
                BY <1>3, <3>2 DEF CompactData
            <4>2. meta[j] \in MetaValue
                BY <3>2 DEF IsSets, TypeOK
            <4>3. meta[j].count = 0
                BY <4>1, <4>2, <3>2 DEF IsStale, MetaValue
            <4>4. MembersAt(j, meta[j].version) = {}
                BY <3>1, <3>2, <4>3, MembersAssumption, FS_Subset, FS_EmptySet DEF CountOK, MembersAt
            <4>. QED  BY <4>4 DEF MembersAt
        <3>. QED  BY <1>3, <3>1, <3>2, CountFrame DEF CompactData, TypeOK
    <2>. QED  BY <2>1 DEF CountMatchesMembers, CountOK
<1>. QED  BY <1>1, <1>2, <1>3 DEF EnvNext

-----------------------------------------------------------------------------
(* The store stays finite. *)

\* A step that writes the records of one key and version keeps the store
\* finite.
LEMMA DataGrowth ==
    ASSUME IsFiniteSet(data), NEW k, NEW v, data' \subseteq data \cup Recs(k, v, Members)
    PROVE  IsFiniteSet(data')
<1>1. IsFiniteSet(Recs(k, v, Members))
    BY RecsCard
<1>2. IsFiniteSet(data \cup Recs(k, v, Members))
    BY <1>1, FS_Union
<1>. QED  BY <1>2, FS_Subset

\* Every step writes the records of at most one key and version.
LEMMA NextDataFinite ==
    ASSUME TypeOK, IsFiniteSet(data), [Next]_vars
    PROVE  IsFiniteSet(data')
<1>1. CASE data' \subseteq data
    BY <1>1, FS_Subset
<1>3. ASSUME NEW k \in Keys, NEW ms \in SUBSET Members, NEW t \in Readings, Create(k, ms, t)
      PROVE  data' \subseteq data \cup Recs(k, NewVersion(k, t), Members)
    BY <1>3 DEF Create, Recs
<1>4. ASSUME NEW k \in Keys, NEW ms \in SUBSET Members, SAdd(k, ms)
      PROVE  IsFiniteSet(data')
    <2>1. CASE \E t \in Readings : Create(k, ms, t)
        BY <2>1, <1>3, DataGrowth
    <2>2. CASE LiveSet(k) /\ data' = data \cup {<<k, meta[k].version, x>> : x \in ms \ MembersAt(k, meta[k].version)}
        <3>1. data' \subseteq data \cup Recs(k, meta[k].version, Members)
            BY <2>2 DEF Recs
        <3>. QED  BY <3>1, DataGrowth
    <2>. QED  BY <1>4, <2>1, <2>2 DEF SAdd
<1>5. ASSUME NEW src \in Keys, NEW dst \in Keys, NEW x \in Members, SMove(src, dst, x)
      PROVE  IsFiniteSet(data')
    <2>1. \E w : data' \subseteq data \cup Recs(dst, w, Members)
        <3>1. CASE \E t \in Readings : data' = (data \ {<<src, meta[src].version, x>>})
                                                \cup {<<dst, NewVersion(dst, t), x>>}
            <4>1. PICK t \in Readings : data' = (data \ {<<src, meta[src].version, x>>})
                                                \cup {<<dst, NewVersion(dst, t), x>>}
                BY <3>1
            <4>. QED  BY <4>1 DEF Recs
        <3>2. CASE data' = (data \ {<<src, meta[src].version, x>>})
                              \cup {<<dst, meta[dst].version, x>>}
            BY <3>2 DEF Recs
        <3>3. CASE data' = data \ {<<src, meta[src].version, x>>}
            BY <3>3 DEF Recs
        <3>. QED  BY <1>5, <3>1, <3>2, <3>3 DEF SMove
    <2>. QED  BY <2>1, DataGrowth
<1>6. ASSUME NEW d \in Keys, NEW ks \in StoreArgs,
             SDiffstore(d, ks) \/ SInterstore(d, ks) \/ SUnionstore(d, ks)
      PROVE  IsFiniteSet(data')
    <2>1. SDiffResult(ks) \in SUBSET Members /\ SInterResult(ks) \in SUBSET Members
          /\ SUnionResult(ks) \in SUBSET Members
        BY ResultsType
    <2>2. CASE \E t \in Readings : \E ms \in SUBSET Members : Create(d, ms, t)
        BY <2>2, <1>3, DataGrowth
    <2>3. CASE \E t \in Readings :
                  data' = data \cup {<<d, NewVersion(d, t), x>> : x \in SUnionResult(ks)}
        <3>1. PICK t \in Readings :
                  data' = data \cup {<<d, NewVersion(d, t), x>> : x \in SUnionResult(ks)}
            BY <2>3
        <3>2. data' \subseteq data \cup Recs(d, NewVersion(d, t), Members)
            BY <2>1, <3>1 DEF Recs
        <3>. QED  BY <3>2, DataGrowth
    <2>. QED  BY <1>6, <2>1, <2>2, <2>3 DEF SDiffstore, SInterstore, SUnionstore
<1>7. ASSUME NEW k \in Keys, NEW args \in SRemArgs, SRem(k, args)
      PROVE  data' \subseteq data
    BY <1>7 DEF SRem
<1>8. ASSUME NEW k \in Keys, NEW c \in PopCounts, SPop(k, c)
      PROVE  data' \subseteq data
    BY <1>8 DEF SPop
<1>9. ASSUME EnvNext \/ UNCHANGED vars PROVE data' \subseteq data
    BY <1>9 DEF EnvNext, Tick, Expire, StringsSet, CompactMeta, CompactData, vars
<1>. QED  BY <1>1, <1>4, <1>5, <1>6, <1>7, <1>8, <1>9 DEF Next, SetsNext

-----------------------------------------------------------------------------
(* SRANDMEMBER's walk. *)

\* While the count is right, the records at positions below the count from
\* a live set's seek key are exactly the set's member records.
LEMMA SetWalk ==
    ASSUME TypeOK, IsFiniteSet(data), CountMatchesMembers, NEW k \in Keys, LiveSet(k)
    PROVE  SRandMemberWalk(k) = {<<k, meta[k].version, x>> : x \in View(k)}
<1>1. PICK v \in Nat : v = meta[k].version
    BY DEF LiveSet, IsSets, TypeOK, MetaValue
<1>. DEFINE it == SeekFrom(k, v)
            R == Records(k, v)
            n == meta[k].count
<1>2. data \subseteq Rec
    BY DEF TypeOK, Rec
<1>3. /\ R = Recs(k, v, MembersAt(k, v))
      /\ IsFiniteSet(R)
      /\ Cardinality(R) = Cardinality(MembersAt(k, v))
    <2>1. /\ RecordsIn(data, k, v) = Recs(k, v, MembersIn(data, k, v))
          /\ IsFiniteSet(RecordsIn(data, k, v))
          /\ Cardinality(RecordsIn(data, k, v)) = Cardinality(MembersIn(data, k, v))
        BY <1>2, RecordsMembers
    <2>. QED  BY <2>1 DEF Records, MembersAt, RecordsIn, MembersIn
<1>4. n = Cardinality(R) /\ n \in Nat /\ R \subseteq Rec
    BY <1>1, <1>2, <1>3, FS_CardinalityType DEF LiveSet, IsStale, CountMatchesMembers, Records
<1>5. /\ R \subseteq it
      /\ \A r \in R : Pos(it, r) = Pos(R, r)
      /\ \A r \in it \ R : Pos(it, r) >= n
    BY <1>4, SeekPositions
<1>6. \A r \in it : Pos(it, r) \in Nat
    <2>1. ASSUME NEW r \in it PROVE IsFiniteSet({q \in it : Before(q, r)})
        BY FS_Subset DEF SeekFrom
    <2>. QED  BY <2>1, FS_CardinalityType DEF Pos
<1>7. \A r \in R : Pos(R, r) < n
    BY <1>3, <1>4, PosRange
<1>8. {r \in it : Pos(it, r) < n} = R
    BY <1>4, <1>5, <1>6, <1>7
<1>9. View(k) = MembersAt(k, v)
    BY <1>1 DEF View
<1>. QED  BY <1>1, <1>3, <1>8, <1>9 DEF SRandMemberWalk, Recs

-----------------------------------------------------------------------------
(* The theorems. *)

\* CountInv is inductive while the clock moves forward and SREM names
\* distinct members.
LEMMA CountInvariant ==
    ASSUME ClockForward, SRemDistinct
    PROVE  Spec => []CountInv
<1>1. Init => CountInv
    <2>. SUFFICES ASSUME Init PROVE CountInv
        OBVIOUS
    <2>1. TypeOK /\ VersionsNotAhead
        BY InitType DEF Init, VersionsNotAhead
    <2>2. IsFiniteSet(data)
        BY FS_EmptySet DEF Init
    <2>3. CountMatchesMembers
        BY NoMetaAssumption DEF Init, CountMatchesMembers, IsSets
    <2>. QED  BY <2>1, <2>2, <2>3 DEF CountInv
<1>2. CountInv /\ [Next]_vars => CountInv'
    <2>. SUFFICES ASSUME CountInv, [Next]_vars PROVE CountInv'
        OBVIOUS
    <2>. USE DEF CountInv
    <2>1. TypeOK'
        BY SAddType, SRemType, SPopType, SMoveType, StoresType, EnvType
           DEF Next, SetsNext, vars, TypeOK
    <2>2. VersionsNotAhead'
        BY NextNotAhead
    <2>3. IsFiniteSet(data')
        BY NextDataFinite
    <2>4. CountMatchesMembers'
        <3>1. CASE SetsNext
            BY <3>1, SAddCount, SRemCount, SPopCount, SMoveCount, StoresCount DEF SetsNext
        <3>2. CASE EnvNext
            BY <3>2, EnvCount
        <3>3. CASE UNCHANGED vars
            BY <3>3 DEF vars, CountMatchesMembers, IsSets, Expired, MembersAt
        <3>. QED  BY <3>1, <3>2, <3>3 DEF Next
    <2>. QED  BY <2>1, <2>2, <2>3, <2>4
<1>. QED  BY <1>1, <1>2, PTL DEF Spec

\* Every unexpired Sets meta counts exactly the member records under its
\* version (CountMatchesMembers: SCARD = |SMEMBERS|), for every number of
\* keys, members and clock readings, as long as the clock that versions
\* are taken from moves forward and SREM names each member once.  SADD and
\* SMOVE count only members their point reads did not find, SREM only
\* those it found, SPOP only the records its positional walk deletes, and
\* the STORE commands re-create their destination under a fresh version.
THEOREM CountsMatchMembers ==
    ASSUME ClockForward, SRemDistinct
    PROVE  Spec => []CountMatchesMembers
BY CountInvariant, PTL DEF CountInv

\* SPOP's walk by position, bounded by the count and not by the key prefix,
\* deletes only member records of the popped set's version
\* (SPopStaysInSet), under the same conditions: the count is right, so
\* the first count records after the seek key are the set's own.
THEOREM SPopStaysInVersion ==
    ASSUME ClockForward, SRemDistinct
    PROVE  Spec => SPopStaysInSet
<1>1. CountInv =>
         \A k \in Keys, c \in PopCounts :
            SPop(k, c) => \A r \in data \ data' : r[1] = k /\ r[2] = meta[k].version
    BY SPopCount DEF CountInv
<1>. QED  BY <1>1, CountInvariant, PTL DEF SPopStaysInSet

\* SRANDMEMBER's walk by position from a live set's seek key reaches
\* exactly the set's members (SRandMemberReadsOwnSet), under the same
\* conditions: with the count right, the positions below it, which are all
\* SRANDMEMBER draws from, are the set's member records.
THEOREM SRandMemberInSet ==
    ASSUME ClockForward, SRemDistinct
    PROVE  Spec => []SRandMemberReadsOwnSet
<1>1. CountInv => SRandMemberReadsOwnSet
    BY SetWalk DEF CountInv, SRandMemberReadsOwnSet
<1>. QED  BY <1>1, CountInvariant, PTL
=============================================================================
