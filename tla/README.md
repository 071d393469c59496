# Formal model of the pikiwidb Set type (`redis_sets.cc`)

This directory holds the TLA+ modules, TLC configurations and TLAPS proofs for
the Set data type of pikiwidb's storage engine,
`src/src/storage/src/redis_sets.cc`.

## 1. The system

### Parts and how they interact

The Set commands store a set in two RocksDB column families:

* **meta CF.** Each user key maps to a meta value: type, count, version and
  etime (expire time). A set's meta says how many members it has and which
  version its member records live under.
* **sets-data CF.** Each member is one record `<key, version, member>`.
  Records are ordered by key, then version, then member.

A set is deleted or re-created by giving its meta a new version and count 0.
This is a logical delete: the old member records stay until the compaction
filter drops them. The filter drops a record whose meta is gone, stale, or at
a newer version.

Every mutating command follows the same pattern:

1. Take the record lock of its key, or `MultiScopeRecordLock` for SMOVE and
   RENAME.
2. Read the meta and the member records from the DB.
3. Stage puts and deletes in one write batch.
4. Commit the batch once.

The lock serialises commands on a key, and the batch makes their writes
atomic. Reads inside a command go to the DB and never to the command's own
batch. SDIFFSTORE, SINTERSTORE and SUNIONSTORE read their sources from a
snapshot while holding only the destination's lock.

Outside `src/`, and modelled from the spec, are:

* the meta value format: `IsStale`, `InitialMetaValue`, `CheckModifyCount`
  and `UpdateVersion`;
* the compaction filters;
* EXPIRE;
* overwriting a key with another data type (a Strings SET).

### Inventory

| Operation | Code | State it changes |
|---|---|---|
| SADD | 66–151 | re-creates a stale, empty or absent set under a new version, or adds the missing members and raises the count |
| SREM | 968–1019 | deletes the members found by point reads and lowers the count by the number of hits |
| SPOP | 801–884 | walks the records from the set's seek key by position. If `count < cnt`, it deletes the first `count` records and the meta. Otherwise it deletes `cnt` distinct random positions and lowers the count |
| SMOVE | 692–799 | stages the source delete, then reads the destination from the DB and either creates it, adds the member, or leaves it alone |
| SDIFFSTORE, SINTERSTORE, SUNIONSTORE | 257–368, 456–578, 1075–1160 | compute the result from a snapshot, then give the destination a new version that holds exactly the result |
| SetsRename, SetsRenamenx | 1238–1304 | copy the meta to the new key, then reset the old key with `InitialMetaValue`, using two separate Puts |
| SCARD, SISMEMBER, SMEMBERS, SDIFF, SINTER, SUNION, SRANDMEMBER, SSCAN | reads | none |
| AddAndGetSpopCount, ResetSpopCount | 886–894 | an in-memory LRU counter of SPOPs per key |

### Hard behaviours

* **Version reuse.** Re-creating a set must use a version newer than any
  member record of the key that is still on disk. `InitialMetaValue` ensures
  this by taking `max(version+1, now)`. A meta created from nothing takes the
  clock reading.
* **Reads that bypass the batch.** SREM and SMOVE read from the DB what they
  have already staged in the batch.
* **A positional walk with no prefix check.** SPOP and SRANDMEMBER bound
  their walk by the count, not by the key prefix. The count must therefore
  equal the number of records under the version.
* **Not atomic.** RENAME's two Puts are not in a batch, and
  `AddAndGetSpopCount` does a lookup and an insert without a lock.

## 2. Modules

| Module | What it is |
|---|---|
| `SetsStore` | The store. It has the VARIABLES `meta` (key → meta record or `NoMeta`), `data` (a set of `<<key, version, member>>` records) and `now` (the clock). Each command is one action, translated from the whole handler with every guard, branch and early return; an error return is a state with no step. Helper operators follow the code's own checks: `IsSets`, `WrongType`, `LiveSet`, `View` (= SMEMBERS), `NewVersion`, `Create` (the batch that re-creates a key), `SeekFrom`/`Pos` (the SPOP iterator), `SRandMemberWalk` (the records SRANDMEMBER's iterator can return), and the `*Result` operators (SDIFF, SINTER, SUNION). The environment actions are `Tick`, `Expire`, `StringsSet`, `CompactData` and `CompactMeta`. `Spec` holds all Set commands; `SpecWithRename` adds RENAME and RENAMENX. |
| `MC_SetsStore` | The model-checking instance. It defines the constants a `.cfg` cannot write: argument sequences, a clock step of −1, and `MaxCount` = 2^31−1. |
| `SetsStore_proofs` | The TLAPS proofs about `SetsStore`: types, versions behind the clock, no ghosts on re-creation. |
| `SetsStore_count_proofs` | The TLAPS proofs that counts match member records, and that SPOP's and SRANDMEMBER's walks stay in their set. |
| `SetsLocked` | The mutators SADD, SREM, SMOVE and RENAME as concurrent threads over the same store. A thread takes the record locks of its command's keys one at a time (`Acquire`, in the sorted order of `lock_many`), reads the meta and member records of those keys (`Read`), and writes (`Write`). For SADD, SREM and SMOVE the write is the batch, after which the lock guard releases (`Release`). For RENAME, `Write` is the Put of the new key's meta, and `Put2` is the second Put, the reset of the old key, after which the locks are released. The variables are those of the store plus `pc`, `cmd`, `owner` (key → thread holding its lock), `rmeta`/`rdata` (what the thread read) and `ops`. `A == INSTANCE SetsStore` is the abstract specification. `L == INSTANCE SetsStore WITH meta <- LockedMeta` is the same store seen by a thread that takes the record locks: while a RENAME thread is between its Puts (`Renaming(j)`), the new key `j` shows what that thread read of it. |
| `MC_SetsLocked` | The command sets and argument sequences for the `SetsLocked` runs. |
| `SetsLocked_proofs` | The proofs that the locks exclude and that the threads without RENAME implement `SetsStore`. |
| `SetsLocked_rename_proofs` | The proof that the threads, RENAME included, implement `SetsStore`'s `SpecWithRename` under the mapping `LockedMeta`. |
| `SpopCounts` | The SPOP count store. `AddAndGetSpopCount` is two steps of a thread, `AddLookup` (the cache Lookup, with `old_count = 0` on a miss) and `AddInsert` (Insert of old + 1, evicting the least recently used key when the cache is full). `ResetSpopCount` is one step. The ghost `pops` counts the completed calls on each key since its last reset. |

### How the code maps to the model

* **Meta records.** A meta record is a record, not bytes. `count` is bounded
  by `MaxCount` (the int32 limit) through `CheckModifyCount`, just as in the
  code.
* **SADD arguments.** The deduplicated member list is a non-empty subset of
  `Members`.
* **SREM arguments.** SREM takes a sequence, because duplicates matter.
* **SPOP random choice.** The random draw is a `\E` over position sets of the
  right size.
* **SPOP walk.** `Pos` counts the records that come before a record in CF
  order among those at or after the seek key. This is what lets the model see
  a walk that leaves its own set.
* **SRANDMEMBER walk.** The read is the operator `SRandMemberWalk`: the
  records at positions below the count from the set's seek key. Every
  position SRANDMEMBER draws is below the count, so this set bounds what it
  can return, whatever the draw.
* **SMOVE.** `SMove` uses the pre-state meta of the destination (`md`) and
  the pre-state `data`, because the code reads the DB after staging the
  source writes.

* **Threads (`SetsLocked`).** Each handler step is one action: `Acquire` is
  one lock of `lock_many`, `Read` the handler's `db_->Get` calls, and `Write`
  the error return or the batch commit. Their guards and branches
  (`SAddOk`, `SRemOk`, `SMoveOk`, `RenameOk`, and the three disjuncts of
  `SMoveWrite`) are those of `SetsStore`, computed from what the thread read
  rather than from the current store. An error return writes nothing and
  releases the locks.
* **SPOP counts (`SpopCounts`).** `count[k] = 0` stands for "not cached";
  the code never inserts 0. `order` is the LRU list. The cache itself is
  outside `src/` and is spec-modelled.

## 3. Runs

All runs use Keys = {1, 2}, Members = {1, 2}, MaxTime = 3, PopCounts = {1, 2},
and the clock moves forward one step per version allocation.

| Run | cfg | Expect | Checks |
|---|---|---|---|
| core | `SetsStore.cfg` | pass | `TypeOK`; `CountMatchesMembers` (the count of every unexpired set equals its records under its version); `RecreatedSetHasNoGhosts` (SADD on a non-live key shows exactly the added members); `StoreReplacesDestination` (SDIFFSTORE/SINTERSTORE replace the destination); `SPopStaysInSet` (SPOP deletes only records of the popped set's version); `SRandMemberReadsOwnSet` (the records SRANDMEMBER's walk reaches on a live set are exactly its member records). About 61,700 distinct states, 30 s. |
| srem_duplicates | `SetsStore_sremdup.cfg` | violation of `CountMatchesMembers` | `SREM k 1 1` on {1, 2} leaves count 0 with member 2 on disk. |
| smove_same_key | `SetsStore_smove.cfg` | violation of `SMoveSameKeyKeepsSet` | `SMOVE k k x` deletes x (the source == destination check is commented out). |
| sunionstore_raw_meta_key | `SetsStore_sunion.cfg` | violation of `UnionStoreReplacesDestination` | The new meta goes to the raw key at line 1142, so the destination keeps its old members. |
| clock_regression_ghosts | `SetsStore_clockback.cfg` | violation of `RecreatedSetHasNoGhosts` | With a clock step of −1, a set created from nothing after SPOP deleted its meta reuses an old version, and an old member reappears. |
| rename_then_spop | `SetsStore_renamespop.cfg` | violation of `SPopKeepsOtherSets` | SADD 2 {1}; RENAME 2→1, which moves only the meta, so key 1 counts one member that sits under key 2; SADD 2 {1} under a new version; compaction drops 2's old record; SPOP 1 1 walks from key 1's seek key past its prefix (no prefix check at line 828) and deletes set 2's member. Set 2 is left with count 1 and no members. |
| rename_same_key | `SetsStore_renameself.cfg` | violation of `RenameSameKeyKeepsSet` | `RENAME k k` puts k's meta back under k and then resets k, so the set is emptied. |
| locked_sets | `SetsLocked.cfg` | pass | Two threads, three commands each, from SADD to either key, SREM, and SMOVE in both directions. `ImplementsAtomicSets`: every store change is one `SetsStore` step (refinement under the identity mapping). `CommandsComplete`: every command that starts taking locks returns. |
| locked_rename | `SetsLocked_rename.cfg` | pass | As above, with RENAME 1→2 and RENAME 1→1 among the commands. `ExclusiveAccess`: no two threads are between their reads and their last write on a common key. `CommandsComplete`. `ImplementsAtomicSetsUnderLocks`: under the mapping `LockedMeta`, every step is one `SetsStore` step, RENAME's second Put being the atomic RENAME and its first a stutter. About 54,800 distinct states, 20 s. |
| rename_two_puts | `SetsLocked_renameput.cfg` | violation of `ImplementsAtomicSetsWithRename` | Between RENAME's two Puts, both keys hold the same meta, a state no atomic RENAME produces. A reader that takes no lock, or a crash, sees it. |
| spop_counts | `SpopCounts.cfg` | pass | Two concurrent callers, two keys, a cache of one key, three calls each (about 9,800 distinct states). `TypeOK`: under every interleaving of Lookups, Inserts with eviction, and Removes, the LRU list is a list of keys and each count stays within the calls made. |
| spop_reset_race | `SpopCounts_race.cfg` | violation of `CountNeverAhead` | A thread looks up count 1; another thread resets the key; the first thread inserts 2, so the reset is lost. |

Each core property has a mutant: a plausible bug in the mapped code that TLC
must catch. They are listed in `PROJECT.json`:

* SPOP keeps the meta (the commented-out path);
* SADD counts every member;
* re-creation keeps the old version;
* SINTERSTORE skips missing sources;
* the SPOP seek key drops the version;
* SRANDMEMBER's walk runs one position past the count (`<=` for `<`);
* SMOVE and RENAME lock only their source key (breaks `ImplementsAtomicSets`, `ExclusiveAccess` and `ImplementsAtomicSetsUnderLocks`);
* locks taken in argument order instead of sorted order (two SMOVEs in opposite directions deadlock, breaking `CommandsComplete`);
* `old_count` left uninitialised on a cache miss (breaks the count store's `TypeOK`: a count passes the calls made).

### Why the bounds are enough

* **Keys.** Two keys give the cross-key cases: SMOVE src ≠ dst and
  src = dst, a store whose destination is one of its sources, and the SPOP
  walk running into the next key.
* **Members.** Two members give partial overlaps for diff, intersection and
  union, and SREM with a duplicate.
* **Clock.** MaxTime = 3 gives up to three version bumps of a key, so there
  is room for a set to be deleted, re-created and expired. MaxTime = 4 takes
  more than 6 minutes.
* **Counts.** `MaxCount` is the real int32 limit. The counts reached are
  small, and the overflow guards are kept in the actions.
* **Threads.** `SetsLocked` uses two threads with three commands each, two
  keys, one member and MaxTime 6 (enough for every command to allocate a
  version). Two threads give every pairwise lock conflict: the same key,
  overlapping key pairs in both orders, and a one-key command against a
  two-key one. Three threads took about two minutes for the first command
  set and add no new kind of conflict. One member is enough because the
  properties are about lock coverage and atomicity, not set contents; the
  content properties are checked on the atomic model.
* **SPOP counts.** A cache of one key over two keys makes every insert of the
  other key evict. Six calls give a count of up to six, with reset and
  eviction between them.

### Fairness

`SetsStore` and `SpopCounts` assume none: their properties are safety
properties. Deadlock is checked. In `SetsStore` a Strings SET is always
possible. In `SpopCounts` and `SetsLocked`, a final stuttering disjunct
allows only the state where every thread has made all its calls, so a stuck
lock wait is reported.

`SetsLocked` assumes weak fairness of each thread's `Acquire`, `Read`,
`Write` and `Put2`: a thread that can take its next step eventually does.
The spec (section 5) runs operations on parallel threads of a pool, and each
operation is synchronous and short. The store calls always return, and a
waiter on a record lock is woken when the lock is released. Weak fairness is
enough for `Acquire` because, with sorted acquisition and a bounded number
of commands, a free lock stays free until its waiter takes it or another
thread takes and releases it; `CommandsComplete` holds without strong
fairness. `Start` has no fairness: a client need not send another command.

## 4. Proofs

`SetsStore_proofs.tla` and `SetsStore_count_proofs.tla` hold the TLAPS proofs about the store. They hold for every value of
the constants, under the assumptions named in `SetsStore`:

* `Members` is finite with at most `MaxCount` elements;
* `MaxCount` and `MaxTime` are naturals;
* the argument sets are non-empty sequences or positive counts.

* **`TypeCorrect`: `Spec => []TypeOK`.** `TypeOK` is inductive as it stands.
  The proof has:
  * one lemma per command (`SAddType`, `SRemType`, `SPopType`, `SMoveType`,
    `StoresType`) and one for the environment (`EnvType`);
  * helper lemmas under them: `MembersCount` (any set of members has a
    cardinality in 0..MaxCount, from `FS_Subset` and `FS_CardinalityType`),
    `CreateType` (the re-creating batch is well typed), `NewVersionType` and
    `ResultsType`.

* **`VersionsStayBehindClock`:
  `ClockForward => (Spec => [](TypeOK /\ VersionsNotAhead))`.**
  * `ClockForward` says every clock step is positive.
  * `VersionsNotAhead` says every member record and every meta has a version
    at most `now`.
  * The key lemma is `NewVersionIsReading`: under the invariant, the version
    that `InitialMetaValue` or `UpdateVersion` allocates from a reading `t`
    is `t` itself, and `t > now`.
  * `NextNotAhead` then shows the invariant is preserved. There is one step
    per command and per environment action. `CountUpdateKeepsVersions`
    covers the meta updates that only change a count.

* **`NoGhostsOnRecreate`: `ClockForward => (Spec => RecreatedSetHasNoGhosts)`.**
  This is the property of the core run, proved for all constants.
  * `VersionsNotAhead` is the strengthening it needs. The property itself
    says nothing about versions, but the version a re-created set gets must
    be unused by every record still on disk.
  * The step is `SAddNoGhosts`: the new version is `t > now`, at or above
    every record's version, so the members under it are exactly the ones
    added. An empty SADD leaves a stale set that shows nothing.
  * The `clock_regression_ghosts` run shows that `ClockForward` is needed.
    With a clock step of −1, TLC finds ghosts.

* **`StoresReplaceDestination`: `ClockForward => (Spec => StoreReplacesDestination)`.**
  This is another action property of the core run. Its step is
  `StoresNoGhosts`, and it rests on the same lemma as SADD, `CreateView`:
  the batch that re-creates a key under a version taken from a reading
  shows exactly the members it writes. A destination whose result is empty
  is left stale and shows nothing. On the clock-regression instance
  (`SetsStore_clockback.cfg`), TLC also finds this property violated, so
  the assumption is needed here too.

* **`CountsMatchMembers`: `ClockForward /\ SRemDistinct => (Spec => []CountMatchesMembers)`**
  (in `SetsStore_count_proofs`). `SRemDistinct` says no SREM argument list
  names a member twice. The `srem_duplicates` run shows it is needed: the
  code counts a repeated member twice. `ClockForward` is needed because a
  re-created set must start with no records under its version.
  * The inductive invariant is `CountInv`: `TypeOK`, `VersionsNotAhead`,
    `IsFiniteSet(data)` and `CountMatchesMembers`. TLC checked it on the
    core instance before it was proved. `VersionsNotAhead` gives the
    re-created sets no records; finiteness gives SPOP's positions meaning,
    since `Pos` is a cardinality.
  * There is one lemma per command: `SAddCount`, `SRemCount`, `SPopCount`,
    `SMoveCount`, `StoresCount`, and `EnvCount` for the environment. Each
    one shows the changed key's count against its member records.
    `OthersCount` (built on `CountFrame`) shows every other key keeps its
    count, because its meta and its records are unchanged and the clock
    does not go back.
  * SREM: the members removed are the image of the hit indices, and
    distinct arguments make that image as large as the hits.
  * SUNIONSTORE onto a set leaves the meta alone. Its records go under a
    version newer than the meta's, which the meta does not count.
  * CompactData: a record the filter drops under a live, unexpired version
    would need a count of 0 with a record present, which the invariant
    rules out.
  * SPOP is the hard step. `BeforeOrder` shows the data CF order is a
    strict total order, because keys and members are naturals.
    `SeekPositions` shows SPOP's iterator meets the set's records first,
    in their own order. Every other record it meets comes after all of
    them. `PosRange` and `PosInjective` make `Pos` a bijection from a finite
    set of records onto `0 .. n-1`. `PosPreimage` shows that deleting the
    records at `c` distinct positions deletes `c` records. With the count
    right, the positions below it are exactly the set's records.
* **`SPopStaysInVersion`: `ClockForward /\ SRemDistinct => (Spec => SPopStaysInSet)`.**
  This is an action property, and it follows from `CountInv` through the
  first conjunct of `SPopCount`. `Spec` has no RENAME. With RENAME the count
  no longer matches the records under the new key, and `rename_then_spop`
  shows SPOP then deleting another set's member.
* **`SRandMemberInSet`: `ClockForward /\ SRemDistinct => (Spec => []SRandMemberReadsOwnSet)`.**
  It follows from `CountInv` through `SetWalk`, with the same position
  lemmas as SPOP.
* **`LocksExclude`: `Spec => []ExclusiveAccess`** (in `SetsLocked_proofs`).
  The strengthening is `LocksHeld`: a busy thread (reading or writing) holds
  the lock of every key it locks. `LockKeysAreAccessKeys` says those keys are
  its access keys. Two owners of one key are impossible, since `owner` is a
  function. One lemma covers each step (`NextLocksHeld`, with
  `ReleaseLocksHeld`); `LocksHeldExclusive` derives the property.
* **`ThreadsImplementAtomicSets`: `NoRename => (Spec => ImplementsAtomicSets)`.**
  `NoRename` says no command in `Cmds` is RENAME. The refinement invariant
  `RefInv` has four parts:
  * `LocksHeld`;
  * `MetaOK`, which keeps every Sets meta a well-formed record;
  * no thread at `put2`;
  * `ReadsCurrent`: what a thread at `write` read of its access keys (meta
    and member records) is still what the store holds.

  `ReadsCurrent` is the heart of the argument. It holds because another
  thread's write only touches its own access keys, and `LocksHeld` makes
  those disjoint from this thread's. With it, `SAddRefines`, `SRemRefines`
  and `SMoveRefines` show that the write computed from the reads is exactly
  `SetsStore`'s `SAdd`, `SRem` or `SMove` on the current store. Every other
  step (`QuietStep`) leaves the store unchanged. `RefStep` combines these,
  and the theorem follows by PTL. Without `NoRename` the theorem is false:
  the `rename_two_puts` run is the counterexample.
* **`ThreadsImplementAtomicSetsUnderLocks`: `Spec => ImplementsAtomicSetsUnderLocks`**
  (in `SetsLocked_rename_proofs`). It has no assumption on the commands,
  so RENAME is included. The refinement mapping is `LockedMeta`: while a
  thread is between RENAME's two Puts, the new key shows what that thread
  read of it. Under this mapping the first Put is a stutter, and the second
  Put is `SetsStore`'s `SetsRename(k, n)`. The invariant `LockInv` adds
  three conjuncts to `RefInv` (and drops "no thread at `put2`"):
  * `EtimeZero`: no meta has an expire time. The threads only create metas
    with etime 0 or copy them. This is why the meta that RENAME copies is
    not expired, which `SetsRename` requires.
  * `Pending`: a thread at `put2` runs RENAME. Its read of the source is
    still the store's, the new key holds the source's meta, and that meta
    is a live set with a non-zero count (`RenameOk`).
  * `ReadsCurrent` and `LocksHeld`, as before.

  `RenamerUnique` follows from the locks. The only thread that can be
  renaming into a key that a busy thread accesses is that thread itself.
  So on a writer's keys the mapping is the store (`WriterKeysUnrenamed`),
  and elsewhere a write keeps the mapping (`SameRenamers`). The
  `*Transfer` lemmas turn each atomic step on `meta` into the same step on
  `LockedMeta`. The step lemmas are:
  * `QuietLocked` (Start and Acquire);
  * `ReadLocked`;
  * `WriteLocked`, which reuses `WriteStore`;
  * `RenameWriteLocked`;
  * `Put2Locked`.

  `LockedStep` combines them. TLC checked `LockInv` as an invariant of the
  locked_rename instance before it was proved. Together with the
  `rename_two_puts` violation, this theorem says exactly where RENAME fails
  to be atomic: only for a reader that takes no record lock, or after a
  crash between the Puts.
What is only model-checked:

* `CountMatchesMembers`, `SPopStaysInSet` and `SRandMemberReadsOwnSet`
  without their hypotheses. Duplicate SREM arguments and a backward clock
  are what the `srem_duplicates` and `clock_regression_ghosts` runs
  explore, and there they fail. The remaining action properties are the
  subjects of violation runs.
* Everything about `SpopCounts`. Its only passing property is `TypeOK`;
  `CountNeverAhead` holds with one caller but then follows from
  `old_count = 0` and the Insert of old + 1 alone, and with concurrent
  callers it fails (`spop_reset_race`), so no theorem is kept about it.
  `TypeOK` itself: the LRU list is kept with `SelectSeq`, whose
  result type is defined by a recursive function. Proving that `Unlink`
  returns a sequence of keys needs induction over that function, which
  the installed provers cannot do. The count bounds would further need a
  sum over the threads' calls.
* `CommandsComplete`: liveness, which TLAPS cannot prove here (it needs
  ENABLED and fairness reasoning).
* `ImplementsAtomicSets` with `SetsStore`'s environment (expiry, compaction,
  Strings SET) racing the threads. The threads model only the client
  commands.

## 5. Not modelled, and why

* **SRANDMEMBER's draw, and SSCAN.** Both are read-only. SRANDMEMBER's
  walk is modelled (`SRandMemberWalk`). The random positions, the
  duplicates of a negative count and the final shuffle are not: every drawn
  position is below the count, and the property covers all of them. SSCAN's
  cursor store is not modelled.
* **Lost and evicted SPOP counts.** Two concurrent
  `AddAndGetSpopCount` calls can both look up the same count, and an
  eviction restarts a key's count from zero. No property checks either:
  nothing under `src/` or in the spec says the count is exact, and the
  reader of the count (the compaction trigger) is outside `src/`.
  `CountNeverAhead` is about over-counts, which only the reset race
  produces.
* **SPOP and the STORE commands as threads.** They read through a snapshot
  and write one batch under the key locks. The STORE commands lock only the
  destination. They stay atomic steps of `SetsStore`: by spec section 5 they
  linearize at their snapshot, and splitting them would add snapshot
  versions to the state without a code path that the atomic model misses.
* **A crash between RENAME's Puts.** There is no recovery code to model. The
  intermediate state is what `rename_two_puts` exhibits, and after a crash
  it would simply persist. RENAME across instances is also not modelled.
* **Introspection and statistics** (`ScanSets`, `ScanSetsKeyNum`,
  `UpdateSpecificKeyStatistics`). They are logging only.
