------------------------------ MODULE SetsStore ------------------------------
(***************************************************************************)
(* The Set data type of the PikiwiDB storage engine (redis_sets.cc).       *)
(*                                                                         *)
(* A set is one record in the meta column family (type tag, count,        *)
(* version, expire time) and one record per member in the sets-data        *)
(* column family, keyed by (user key, version, member).  A set is deleted *)
(* or re-created by giving its meta a new version: the member records of  *)
(* older versions stay behind until compaction drops them.                 *)
(*                                                                         *)
(* Every operation runs under the record lock of its key(s) and commits   *)
(* one write batch, or reads one snapshot, so each is one atomic step      *)
(* here.  The data column family is ordered by (key, version, member);     *)
(* SPOP walks it by position.  The clock is the wall clock that versions   *)
(* and expire times are read from.                                         *)
(***************************************************************************)
EXTENDS Integers, FiniteSets, Sequences

CONSTANTS
    Keys,        \* user keys; < on them is the order of their encoded bytes
    Members,     \* member strings; < on them is their byte order
    NoMeta,      \* no record under the meta key
    MaxCount,    \* INT32_MAX: the bound of CheckModifyCount / check_set_count
    MaxTime,     \* the last clock reading explored
    ClockSteps,  \* how the clock may move from one version allocation to the next
    SRemArgs,    \* member lists given to SREM, duplicates allowed
    StoreArgs,   \* key lists given to SDIFFSTORE, SINTERSTORE, SUNIONSTORE
    PopCounts    \* counts given to SPOP

ASSUME KeysAssumption == Keys \subseteq Nat /\ Keys # {}
ASSUME MembersAssumption ==
    /\ Members \subseteq Nat /\ Members # {}
    /\ IsFiniteSet(Members) /\ Cardinality(Members) <= MaxCount
ASSUME NoMetaAssumption == NoMeta \notin [type : {"sets", "strings"},
                                          count : Int, version : Int, etime : Int]
ASSUME MaxCountAssumption == MaxCount \in Nat \ {0}
ASSUME MaxTimeAssumption == MaxTime \in Nat
ASSUME ClockStepsAssumption == ClockSteps \subseteq Int
ASSUME ArgsAssumption ==
    /\ SRemArgs \subseteq Seq(Members) \ {<<>>}
    /\ StoreArgs \subseteq Seq(Keys) \ {<<>>}
    /\ PopCounts \subseteq Nat \ {0}

VARIABLES
    meta,   \* meta column family: user key -> meta value or NoMeta
    data,   \* sets-data column family: set of <<key, version, member>>
    now     \* the last clock reading

vars == <<meta, data, now>>

MetaValue == [type : {"sets", "strings"}, count : 0 .. MaxCount,
              version : Nat, etime : Nat]

TypeOK ==
    /\ meta \in [Keys -> MetaValue \cup {NoMeta}]
    /\ data \subseteq Keys \X Nat \X Members
    /\ now \in 0 .. MaxTime

-----------------------------------------------------------------------------
(* Decoding a meta value. *)

\* ParsedBaseMetaValue::IsStale: the expire time has passed.
Expired(m) == m.etime # 0 /\ m.etime <= now

\* IsStale(meta_value): expired, or a collection whose count is 0.
IsStale(m) == Expired(m) \/ (m.type = "sets" /\ m.count = 0)

\* s.ok() && ExpectedMetaValue(DataType::kSets, meta_value)
IsSets(k) == meta[k] # NoMeta /\ meta[k].type = "sets"

\* The WRONGTYPE early return: a live record of another type.
WrongType(k) == meta[k] # NoMeta /\ meta[k].type # "sets" /\ ~IsStale(meta[k])

LiveSet(k) == IsSets(k) /\ ~IsStale(meta[k])

MembersAt(k, v) == {x \in Members : <<k, v, x>> \in data}

\* What SMEMBERS returns for k: the members under the meta's version.
View(k) == IF LiveSet(k) THEN MembersAt(k, meta[k].version) ELSE {}

\* ParsedSetsMetaValue::CheckModifyCount: the new count stays in int32 range.
CheckModifyCount(m, d) == 0 <= m.count + d /\ m.count + d <= MaxCount

\* The clock readings an allocation may take next.
Readings == {now + d : d \in ClockSteps} \cap 0 .. MaxTime

\* ParsedSetsMetaValue::InitialMetaValue: count 0, no expiry, new version.
InitialMetaValue(m, t) ==
    [type |-> "sets", count |-> 0, etime |-> 0,
     version |-> IF m.version >= t THEN m.version + 1 ELSE t]

\* Mutant: a stale set is re-created under the version it already has.
NewVersionKeep(k, t) == IF IsSets(k) THEN meta[k].version ELSE t

\* The version a (re)created set of k gets: InitialMetaValue on an existing
\* Sets meta, SetsMetaValue::UpdateVersion (the clock reading) otherwise.
NewVersion(k, t) == IF IsSets(k) THEN InitialMetaValue(meta[k], t).version ELSE t

\* The batch that (re)creates k holding exactly ms.
Create(k, ms, t) ==
    /\ meta' = [meta EXCEPT ![k] = [type |-> "sets", count |-> Cardinality(ms),
                                    version |-> NewVersion(k, t), etime |-> 0]]
    /\ data' = data \cup {<<k, NewVersion(k, t), x>> : x \in ms}
    /\ now' = t

\* The order of the sets-data column family: by key, version, member.
Before(r, q) ==
    \/ r[1] < q[1]
    \/ r[1] = q[1] /\ r[2] < q[2]
    \/ r[1] = q[1] /\ r[2] = q[2] /\ r[3] < q[3]

\* Mutant: the seek key names the user key only, not its version.
SeekFromKey(k, v) == {r \in data : r[1] >= k}

\* The records an iterator visits after Seek(EncodeSeekKey(k, v)), and the
\* position of a record among them.
SeekFrom(k, v) == {r \in data : r[1] > k \/ (r[1] = k /\ r[2] >= v)}
Pos(S, r) == Cardinality({q \in S : Before(q, r)})

-----------------------------------------------------------------------------
(* Read results that the STORE operations write. *)

SDiffTypeOK(ks) == \A i \in 1 .. Len(ks) : ~WrongType(ks[i])
SDiffResult(ks) == View(ks[1]) \ UNION {View(ks[i]) : i \in 2 .. Len(ks)}

\* SInterstore reads keys[1..] in order and stops at the first one that is
\* absent or stale; only the keys read before it are type checked.
Invalid(k) == meta[k] = NoMeta \/ IsStale(meta[k])
SInterTypeOK(ks) ==
    LET stop == {i \in 2 .. Len(ks) : Invalid(ks[i])}
        last == IF stop = {} THEN Len(ks) ELSE CHOOSE i \in stop : \A j \in stop : i <= j
    IN  /\ \A i \in 2 .. last : ~WrongType(ks[i])
        /\ stop = {} => ~WrongType(ks[1])
SInterResult(ks) == {x \in View(ks[1]) : \A i \in 2 .. Len(ks) : x \in View(ks[i])}

SUnionTypeOK(ks) == \A i \in 1 .. Len(ks) : ~WrongType(ks[i])
SUnionResult(ks) == UNION {View(ks[i]) : i \in 1 .. Len(ks)}

\* Mutant: the walk stops after the count, not at it (cur_index <= size).
SRandMemberWalkInclusive(k) ==
    LET it == SeekFrom(k, meta[k].version)
    IN  {r \in it : Pos(it, r) <= meta[k].count}

\* SRANDMEMBER k n on a live set: the records its iterator may return,
\* those at a drawn position below the meta's count, walking from the
\* set's seek key.
SRandMemberWalk(k) ==
    LET it == SeekFrom(k, meta[k].version)
    IN  {r \in it : Pos(it, r) < meta[k].count}

-----------------------------------------------------------------------------
(* Operations. *)

\* Mutant: the count grows by every filtered member, present or not.
SAddCountAll(k, ms) ==
    \/ /\ ~LiveSet(k)
       /\ ~WrongType(k)
       /\ \E t \in Readings : Create(k, ms, t)
    \/ /\ LiveSet(k)
       /\ ms \ MembersAt(k, meta[k].version) # {}
       /\ meta' = [meta EXCEPT ![k].count = @ + Cardinality(ms)]
       /\ data' = data \cup {<<k, meta[k].version, x>> : x \in ms}
       /\ UNCHANGED now

\* SADD k ms (ms: the deduplicated members).  A key that is not a live set
\* is (re)created; otherwise the members not yet present are added.  No
\* step when nothing is new (the cnt == 0 return) or on WRONGTYPE.
SAdd(k, ms) ==
    \/ /\ ~LiveSet(k)
       /\ ~WrongType(k)
       /\ IsSets(k) => Cardinality(ms) <= MaxCount
       /\ \E t \in Readings : Create(k, ms, t)
    \/ /\ LiveSet(k)
       /\ LET v == meta[k].version
              new == ms \ MembersAt(k, v)
          IN  /\ new # {}
              /\ CheckModifyCount(meta[k], Cardinality(new))
              /\ meta' = [meta EXCEPT ![k].count = @ + Cardinality(new)]
              /\ data' = data \cup {<<k, v, x>> : x \in new}
              /\ UNCHANGED now

\* SREM k args: every argument found by a point read of the store is
\* deleted and counted.
SRem(k, args) ==
    LET v == meta[k].version
        hits == {i \in 1 .. Len(args) : <<k, v, args[i]>> \in data}
    IN  /\ LiveSet(k)
        /\ CheckModifyCount(meta[k], -Cardinality(hits))
        /\ meta' = [meta EXCEPT ![k].count = @ - Cardinality(hits)]
        /\ data' = data \ {<<k, v, args[i]>> : i \in hits}
        /\ UNCHANGED now

\* Mutant: the path commented out in SPop, which lowers the count by c
\* instead of deleting the meta when fewer than c members are left.
SPopKeepMeta(k, c) ==
    LET m == meta[k]
        it == SeekFrom(k, m.version)
    IN  /\ LiveSet(k)
        /\ \/ /\ m.count < c
              /\ data' = data \ {r \in it : Pos(it, r) < m.count}
              /\ meta' = [meta EXCEPT ![k].count = @ - c]
           \/ /\ m.count >= c
              /\ \E idx \in SUBSET (0 .. m.count - 1) :
                    /\ Cardinality(idx) = c
                    /\ data' = data \ {r \in it : Pos(it, r) \in idx}
              /\ meta' = [meta EXCEPT ![k].count = @ - c]
        /\ UNCHANGED now

\* SPOP k c.  Fewer than c members: delete the first count records the
\* iterator meets from the set's seek key, and the meta.  Otherwise draw c
\* distinct positions below count and delete the records at them.
SPop(k, c) ==
    LET m == meta[k]
        it == SeekFrom(k, m.version)
    IN  /\ LiveSet(k)
        /\ \/ /\ m.count < c
              /\ data' = data \ {r \in it : Pos(it, r) < m.count}
              /\ meta' = [meta EXCEPT ![k] = NoMeta]
           \/ /\ m.count >= c
              /\ CheckModifyCount(m, -c)
              /\ \E idx \in SUBSET (0 .. m.count - 1) :
                    /\ Cardinality(idx) = c
                    /\ data' = data \ {r \in it : Pos(it, r) \in idx}
              /\ meta' = [meta EXCEPT ![k].count = @ - c]
        /\ UNCHANGED now

\* SMOVE src dst x.  The source's meta put and member delete are staged
\* first; the destination is then read from the store, not from the batch.
SMove(src, dst, x) ==
    LET vs == meta[src].version
        md == meta[dst]
        srcMeta == [meta EXCEPT ![src].count = @ - 1]
        srcData == data \ {<<src, vs, x>>}
    IN  /\ LiveSet(src)
        /\ <<src, vs, x>> \in data
        /\ CheckModifyCount(meta[src], -1)
        /\ ~WrongType(dst)
        /\ \/ /\ ~LiveSet(dst)
              /\ \E t \in Readings :
                    /\ meta' = [srcMeta EXCEPT ![dst] =
                                  [type |-> "sets", count |-> 1,
                                   version |-> NewVersion(dst, t), etime |-> 0]]
                    /\ data' = srcData \cup {<<dst, NewVersion(dst, t), x>>}
                    /\ now' = t
           \/ /\ LiveSet(dst)
              /\ <<dst, md.version, x>> \notin data
              /\ CheckModifyCount(md, 1)
              /\ meta' = [srcMeta EXCEPT ![dst] = [md EXCEPT !.count = @ + 1]]
              /\ data' = srcData \cup {<<dst, md.version, x>>}
              /\ UNCHANGED now
           \/ /\ LiveSet(dst)
              /\ <<dst, md.version, x>> \in data
              /\ meta' = srcMeta
              /\ data' = srcData
              /\ UNCHANGED now

\* SDIFFSTORE / SINTERSTORE d ks: compute the result from a snapshot, then
\* give d a new version holding exactly the result.
SDiffstore(d, ks) ==
    /\ SDiffTypeOK(ks)
    /\ IsSets(d) => Cardinality(SDiffResult(ks)) <= MaxCount
    /\ \E t \in Readings : Create(d, SDiffResult(ks), t)

\* Mutant: an absent or stale source is skipped instead of emptying the
\* intersection.
SInterstoreSkipMissing(d, ks) ==
    /\ SInterTypeOK(ks)
    /\ \E t \in Readings :
          Create(d, {x \in View(ks[1]) : \A i \in 2 .. Len(ks) :
                                           LiveSet(ks[i]) => x \in View(ks[i])}, t)

SInterstore(d, ks) ==
    /\ SInterTypeOK(ks)
    /\ IsSets(d) => Cardinality(SInterResult(ks)) <= MaxCount
    /\ \E t \in Readings : Create(d, SInterResult(ks), t)

\* SUNIONSTORE d ks.  When d holds a Sets meta, the new meta is put under
\* the raw user key d instead of its encoded meta key: the meta of d is
\* left as it was and the result is written under a version it never gets.
SUnionstore(d, ks) ==
    LET res == SUnionResult(ks) IN
    /\ SUnionTypeOK(ks)
    /\ \/ /\ IsSets(d)
          /\ Cardinality(res) <= MaxCount
          /\ \E t \in Readings :
                /\ data' = data \cup {<<d, NewVersion(d, t), x>> : x \in res}
                /\ now' = t
          /\ UNCHANGED meta
       \/ /\ ~IsSets(d)
          /\ \E t \in Readings : Create(d, res, t)

\* RENAME k n on a set: the meta of k is put under n as it is, then k's
\* meta is reset by InitialMetaValue.  The member records are not moved.
SetsRename(k, n) ==
    /\ IsSets(k)
    /\ ~Expired(meta[k])
    /\ meta[k].count # 0
    /\ \E t \in Readings :
          /\ meta' = [meta EXCEPT ![n] = meta[k], ![k] = InitialMetaValue(meta[k], t)]
          /\ now' = t
    /\ UNCHANGED data

\* RENAMENX: as RENAME, unless n holds a live value.
SetsRenamenx(k, n) ==
    /\ meta[n] # NoMeta => IsStale(meta[n])
    /\ SetsRename(k, n)

-----------------------------------------------------------------------------
(* The environment: other commands and the store itself. *)

\* Time passes.
Tick ==
    /\ now < MaxTime
    /\ now' = now + 1
    /\ UNCHANGED <<meta, data>>

\* EXPIRE k: a live key gets an expire time, reached now or one tick later.
Expire(k) ==
    /\ meta[k] # NoMeta
    /\ ~IsStale(meta[k])
    /\ \E e \in {now, now + 1} \ {0} : meta' = [meta EXCEPT ![k].etime = e]
    /\ UNCHANGED <<data, now>>

\* SET k v of the Strings type overwrites the meta record of k.
StringsSet(k) ==
    /\ meta' = [meta EXCEPT ![k] = [type |-> "strings", count |-> 0,
                                    version |-> 0, etime |-> 0]]
    /\ UNCHANGED <<data, now>>

\* The compaction filter drops a member record whose set is gone, stale, or
\* at a newer version, and an expired meta record.
CompactData(r) ==
    /\ r \in data
    /\ IsSets(r[1]) => meta[r[1]].version > r[2] \/ IsStale(meta[r[1]])
    /\ data' = data \ {r}
    /\ UNCHANGED <<meta, now>>

CompactMeta(k) ==
    /\ meta[k] # NoMeta
    /\ Expired(meta[k])
    /\ meta' = [meta EXCEPT ![k] = NoMeta]
    /\ UNCHANGED <<data, now>>

-----------------------------------------------------------------------------
Init ==
    /\ meta = [k \in Keys |-> NoMeta]
    /\ data = {}
    /\ now = 0

\* The commands of the Set layer.
SetsNext ==
    \E k, n \in Keys :
       \/ \E ms \in (SUBSET Members) \ {{}} : SAdd(k, ms)
       \/ \E args \in SRemArgs : SRem(k, args)
       \/ \E c \in PopCounts : SPop(k, c)
       \/ \E x \in Members : SMove(k, n, x)
       \/ \E ks \in StoreArgs : SDiffstore(k, ks) \/ SInterstore(k, ks) \/ SUnionstore(k, ks)

\* Everything else that changes the store.
EnvNext ==
    \/ Tick
    \/ \E k \in Keys : Expire(k) \/ StringsSet(k) \/ CompactMeta(k)
    \/ \E r \in data : CompactData(r)

Next == SetsNext \/ EnvNext

Spec == Init /\ [][Next]_vars

\* With the RENAME and RENAMENX of sets.
RenameNext == \E k, n \in Keys : SetsRename(k, n) \/ SetsRenamenx(k, n)

SpecWithRename == Init /\ [][Next \/ RenameNext]_vars

-----------------------------------------------------------------------------
(* Properties. *)

\* The count in every unexpired Sets meta equals the number of member
\* records under its version (spec invariant 2, test I1: SCARD = |SMEMBERS|).
\* Every mutator keeps it by counting the point reads it makes before
\* staging its batch; SPOP's positional walk and STORE's re-creation
\* under a new version rely on it.
CountMatchesMembers ==
    \A k \in Keys :
        IsSets(k) /\ ~Expired(meta[k]) => meta[k].count = Cardinality(MembersAt(k, meta[k].version))

\* SADD on a key that is not a live set leaves it holding exactly the added
\* members: no member record left behind by an earlier incarnation of the
\* key is visible under the version it is given (spec I6, scenario 6).
RecreatedSetHasNoGhosts ==
    [][\A k \in Keys, ms \in SUBSET Members :
          SAdd(k, ms) /\ ~LiveSet(k) => View(k)' = ms]_vars

\* SDIFFSTORE and SINTERSTORE leave the destination holding exactly the
\* result computed from the snapshot, whatever it held before (spec I4).
StoreReplacesDestination ==
    [][\A d \in Keys, ks \in StoreArgs :
          /\ SDiffstore(d, ks) => View(d)' = SDiffResult(ks)
          /\ SInterstore(d, ks) => View(d)' = SInterResult(ks)]_vars

\* SPOP deletes only member records of the popped set's current version:
\* its walk by position, bounded by the count and not by the key prefix,
\* never reaches the records of another key or version.
SPopStaysInSet ==
    [][\A k \in Keys, c \in PopCounts :
          SPop(k, c) => \A r \in data \ data' : r[1] = k /\ r[2] = meta[k].version]_vars

\* SPOP on one key leaves the set of every other key as it was (spec 4.3
\* SPOP: it removes members of the popped set).  After RENAME the new key's
\* meta counts records that sit under the old key, and SPOP's walk
\* (:828, no prefix check) goes on past the new key's prefix.
SPopKeepsOtherSets ==
    [][\A k \in Keys, c \in PopCounts :
          SPop(k, c) => \A j \in Keys \ {k} : View(j)' = View(j)]_vars

\* SRANDMEMBER on a live set reaches exactly its members: the records at
\* positions below the count, walking from the set's seek key, are the
\* member records of its version (spec 4.3 SRANDMEMBER: "random members
\* of the set"), neither a record of another key or version nor fewer.
SRandMemberReadsOwnSet ==
    \A k \in Keys :
        LiveSet(k) => SRandMemberWalk(k) = {<<k, meta[k].version, x>> : x \in View(k)}

\* SUNIONSTORE leaves the destination holding exactly the union (spec I4).
UnionStoreReplacesDestination ==
    [][\A d \in Keys, ks \in StoreArgs :
          SUnionstore(d, ks) => View(d)' = SUnionResult(ks)]_vars

\* SMOVE k k x, source and destination the same key, changes nothing: it is
\* a membership test (spec 4.3 SMOVE, Redis semantics).
SMoveSameKeyKeepsSet ==
    [][\A k \in Keys, x \in Members : SMove(k, k, x) => View(k)' = View(k)]_vars

\* RENAME k k, a key renamed to itself, leaves its set as it was: Redis
\* replies OK and changes nothing.  The code puts k's meta under k, then
\* resets k with InitialMetaValue.
RenameSameKeyKeepsSet ==
    [][\A k \in Keys : SetsRename(k, k) => View(k)' = View(k)]_vars
=============================================================================
