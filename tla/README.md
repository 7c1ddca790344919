# TLA+ models of atree's slab storage and digester

This directory holds TLA+ models of the storage layer and the digester of
atree (`src/array_debug.go` and `hash.go`, the latter at the top of
`src/unnamed/part_000`). The models are checked with TLC.

## The system

atree keeps Arrays and Maps as trees of *slabs*. Each slab is addressed by a
`StorageID`, which is an `(Address, StorageIndex)` pair. The parts covered here:

| Part | Code | What it does |
|------|------|--------------|
| Handles | `StorageID`, `StorageIndex.Next`, `Valid` | Handles and their counters. |
| Base store | `InMemBaseStorage`, `LedgerBaseStorage` | Raw byte segments by handle, plus a per-address index allocator. |
| BasicSlabStorage | `BasicSlabStorage` | An in-memory map from handle to slab. It writes through. `Load` fills it from encoded slabs, as tests do to reopen a storage. |
| PersistentSlabStorage | `PersistentSlabStorage` | A *deltas* map of pending writes (`nil` = removed) and a read *cache* over a base store. `Commit` writes the owned deltas in sorted order. `AutoCommit` writes through instead. |
| FastCommit | `PersistentSlabStorage.FastCommit` | `Commit` with encoding done by `numWorkers` goroutines over two buffered channels. |
| Digester | `basicDigesterBuilder`, `basicDigester`, `basicDigesterPool` | Multi-level hashes of a Map key. Level 0 is circlehash. Levels 1..3 come from one blake3 sum, computed lazily and memoised. Digesters are reused through a process-wide `sync.Pool`. |
| CheckHealth | `BasicSlabStorage.CheckHealth` | A test-time check of a slab map. It records every slab's parent, walks up from every leaf, and compares the counts of visited slabs and roots. |
| Array validators | `Array.valid`, `_valid`, `ArrayStats` | Test-time walks over an Array's slab tree. `_valid` recurses into every child and checks each slab's fill, count and size. `ArrayStats` counts levels and slabs level by level. |
| PrintArray | `PrintArray` | Prints the tree. Not modelled. |

How the parts interact:

- Reads (`Retrieve`) consult the deltas, then the cache, then the base store.
- Writes go to the deltas. With AutoCommit they go to the base store and the cache instead.
- `Commit` and `FastCommit` call the base store's `Store` or `Remove` for every owned key, in ascending (address, index) order. They then empty the deltas. Temporary handles (address 0) are never committed.
- `FastCommit` runs encoder goroutines. An encoder can outlive an early error return of the calling goroutine.
- Digesters are shared through the pool by all goroutines that hash Map keys.

## Modules

| Module | Models | State | Actions |
|--------|--------|-------|---------|
| `StorageID` | Handles and their 16-byte raw encoding | – (operators: `StorageIndexNext`, `Valid`, `LessStorageID`, `ToRawBytes`, `NewStorageIDFromRawBytes` over `PutBigEndian`/`BigEndianValue`) | – |
| `SlabCodec` | The slab codec (not under `src/`) | – (operators `Encode`, `DecodeSlab`, `DecodeFails`) | – |
| `BaseStorage` | InMem/Ledger base store | `segments`, `storageIndex` | `BaseStore`, `BaseRemove`, `BaseGenerateStorageID` |
| `SlabStore` | Abstract contract of a slab storage | `view` (what Retrieve returns), `persisted`, `allocated` | `Allocate`, `Put`, `Delete`, `WriteBack`, `Revert` |
| `BasicSlabStorage` | BasicSlabStorage | `slabs`, `storageIndex`, `allocated` (ghost) | `GenerateStorageID`, `Store`, `Remove`, `Load` (all entries, or, on a corrupt entry, any subset of the good ones: those Go's map order visited first); `Retrieve` is an operator |
| `PersistentSlabStorage` | PersistentSlabStorage | base + `cache`, `deltas`, `tempStorageIndex`, `autoCommit` (the option, fixed at construction), `committing`/`commitKeys` (the Commit loop), `allocated` (ghost) | `GenerateStorageID`, `Store`, `Remove`, `Retrieve`, `DropDeltas`, `DropCache`, `CommitBegin`, `CommitStep`, `CommitFail`, `CommitEnd` |
| `FastCommit` | FastCommit together with the other storage operations | the above + the caller's state, `jobs`/`results` channels and closed flags, encoder program counters, `panicked` | caller: `FastCommitBegin`, `FastCommitCollect`, `FastCommitApply`, `FastCommitApplyStep`, `FastCommitApplyFail`, `FastCommitEnd`, `StorageStep`; encoder `w`: `WorkerRecv`, `WorkerEncode`, `WorkerSend`, `WorkerExit` |
| `StorageHealth` | CheckHealth | the input slab map and expected root count, the loop position `pc`, `scanned`, `parentOf`, `pending` leafs, `cur`, `visited`, `rootsMap`, `err` | `ScanSlab`, `ScanDone`, `WalkLeaf`, `Climb`, `WalkDone`, `Count` |
| `ArrayValid` | valid, `_valid`, ArrayStats | the input slab map only (the functions are operators) | – (`ValidSlab`/`ValidChildren`, `Valid` and `StatsFrom` are RECURSIVE operators; `Next` leaves the map unchanged) |
| `Digester` | hash.go | builder seeds `k0`, `pool`, `created`, digester fields (`circleHash64`, `blake3Hash`, `msg`), what each client holds and was returned | `SetSeed`, `BuildDigester`, `BuildDigesterFail`, `Digest`, `DigestPrefix`, `PutDigester` |

Each `MC*.tla` module extends its model for TLC. `MCFastCommit` adds a state constraint.

Modelling choices:

- **Slabs, encodings and hashes are abstract.**
  - A slab is a model value.
  - `Encode` wraps the slab in a record and `DecodeSlab` unwraps it; bytes that are no encoding (`CorruptData`) make it fail. They are modelled from spec.md because the codec is not under `src/`.
  - A digest is a tuple naming its key, seed and level. Distinct inputs give distinct digests, which is what the properties need.
- **Commit is one action per loop iteration.** An error at any key (`BaseMayFail`, `EncodeMayFail`) stops it after earlier keys are written.
- **Error returns that change nothing are omitted.** Examples are a failing AutoCommit `Store`, a base `Retrieve` error, and the `k0 == 0` error of `Digest`. They would only be stuttering steps.
- **Retrieve as a state change.** Its only effect on state is caching a decoded base segment (`Retrieve`). Its result is the operator `View(id)`.
- **FastCommit's jobs are queued atomically.** The caller fills `jobs` in the same step that launches the encoders. Nothing else can observe the channel before the `go` statements run.
- **A panic ends the program.** After `panicked` only stuttering is possible (`Crashed`).

## Abstract specification and refinement

`SlabStore` is what a slab storage promises:

- `Retrieve` returns the last `Store`/`Remove` of a handle.
- Handles come from `GenerateStorageID` fresh.
- A commit only writes back pending values of owned handles (`WriteBack`).
- Dropping the deltas reverts the view to what is persisted (`Revert`).
- `writeThrough`, fixed in `Init`, says whether every write persists at once.

`PersistentSlabStorage` instantiates it with a refinement mapping (`SlabStoreAbs`):

- `view` is `View(id)`, which is Retrieve's answer;
- `persisted` is the decoded base segment;
- `writeThrough` is `autoCommit`.

Freshness of handles is not something the refinement can see: a handle returned twice leaves the abstract `allocated` set unchanged, a stutter. It is therefore stated directly, for BasicSlabStorage, as `GenerateStorageIDFresh`. BasicSlabStorage is not checked against `SlabStore`: with view and persisted both its slab map, Store and Remove would be Put and Delete by construction.

## Runs

| Run | cfg | Expect | Shows |
|-----|-----|--------|-------|
| persistent_commit | `MCPersistentSlabStorage.cfg` | pass | In both AutoCommit modes (`AutoCommitModes = {FALSE, TRUE}`), a Commit, failing at any key and retried, keeps Retrieve's answers unchanged while it runs (`CommitWritesKeepView`). At its last step every owned pending write is in the base store (`CommittedDeltasPersisted`). Temporary handles never reach the base store (`TypeOK` on `commitKeys`). Every handle GenerateStorageID returns, written with `ToRawBytes` into a buffer of 15, 16 or 17 bytes and read back with `NewStorageIDFromRawBytes`, comes back unchanged, the bytes past the 16th are left alone, and a 15-byte buffer is refused by both (`RawBytesRoundTrip`). |
| persistent_stale_cache | `MCPersistentSlabStorage_stale.cfg` | violation | For a handle with no pending write, a cached slab must be what the base holds (`CacheMatchesBase`). Store, Commit, Remove, Commit leaves the removed slab in the cache (finding 1). |
| autocommit_refinement | `MCPersistentSlabStorage_autocommit.cfg` | violation | AutoCommit Remove-then-Store hides the slab (finding 2). |
| fastcommit | `MCFastCommit.cfg` | pass | With two encoders finishing in any order, FastCommit persists what Commit would (`FastCommitDeltasPersisted`). Every encoder goroutine exits (`EncodersTerminate`). |
| fastcommit_panic | `MCFastCommit_panic.cfg` | violation | Send on the closed results channel after an early error return (finding 3). |
| digester | `MCDigester.cfg` | pass | Two goroutines share two pooled digesters over two keys and two seeds (one of them the unset 0), with hash-input failures. Every digest returned at a valid level is the digest of the caller's current key (`DigestsMatchKey`). This shows that `Reset` clears the blake3 memo. |
| basic_load | `MCBasicSlabStorage_load.cfg` | violation | GenerateStorageID never returns a handle that holds a slab (`GenerateStorageIDFresh`). Load of a slab under (1,1), then GenerateStorageID(1) returns (1,1) (finding 7). |
| health | `MCStorageHealth.cfg` | pass | Every slab map over three handles is checked, in every map iteration order. CheckHealth returns nil exactly when the map is a healthy forest (`CheckHealthDecidesForest`). `Forest` is defined on the whole graph, with the community `Graphs` module. CheckHealth returns whenever the references are acyclic (`ReturnsWhenAcyclic`). |
| health_cycle | `MCStorageHealth_cycle.cfg` | violation | A reference cycle above a leaf makes CheckHealth loop forever (finding 4). |
| health_dangling | `MCStorageHealth_dangling.cfg` | violation | A reference to a missing slab, of another address, passes (finding 5). |
| array_valid | `MCArrayValid.cfg` | pass | Over every slab map of up to three levels, a shared child included, `valid` returns true exactly for the well-formed trees, whatever its early returns skip, and reports an error only for a broken tree (`ValidDecidesWellFormed`). The reference `WellFormed` is defined on the tree below the root. `ArrayStats` fails exactly when a slab of the tree is missing, and otherwise reports the tree's height and its meta and data slabs, counted once per path (`StatsCountTree`). |
| array_valid_headers | `MCArrayValid_headers.cfg` | violation | `valid` accepts a meta slab whose child header records a wrong element count (finding 6). |

Each property of a passing run has a mutant in `PROJECT.json`: a plausible bug in the code, written as an operator beside the definition it replaces, that TLC must catch.

## Findings

1. `Commit` (array_debug.go:862) removes a deleted slab from the base store but not from the read cache, then resets the deltas (line 885). Right after that Commit, `Retrieve` finds no delta, hits the cache and returns the removed slab.
2. With AutoCommit, `Remove` (line 1045) leaves a `nil` delta that a later write-through `Store` never clears. `Retrieve` then reports the slab absent, and the next `Commit` deletes it from the base store.
3. `FastCommit` returns on the first encoding error (line 946). Its deferred `close(results)` runs while other encoders still hold jobs, and their send (line 926) panics.
4. CheckHealth's walk up from a leaf (line 741) never checks for a parent it has already visited. A cycle above a leaf makes it loop forever, including a meta slab that lists itself as a child. Whether a given slab map hangs or returns an error depends on Go's map order.
5. CheckHealth records parents for referenced handles (line 668) but never checks that those slabs exist. A data slab referencing a leaf and a missing slab of another address is reported healthy.
6. `_valid` (line 214) sums the counts its recursion returns for the children, but never compares a child header's count or size with the child. A meta slab with a stale child header passes. spec.md 3.1 says a meta slab lists its children's headers, and index lookup navigates by those headers.
7. `BasicSlabStorage.Load` (line 640) writes every decoded slab without advancing `storageIndex`. The next `GenerateStorageID` returns a loaded slab's handle, and a `Store` under it overwrites that slab; spec.md 4.1 says allocate returns a fresh handle per address.

Three disagreements are noted here but not checked by a run:

- The same early return as finding 3 also lets the caller's next `Store` or `Remove` write `s.deltas` while an encoder still reads it (line 915), a concurrent map access. Waiting for the encoders before returning fixes both.

- `FastCommit(numWorkers <= 0)` with a pending write blocks forever at line 943.
- `basicDigester.Digest` rejects `level >= 4` (hash.go line 189), so its "list mode" branch is dead. spec.md 4.4 describes the zero digest for that level.

## Bounds

- **persistent_commit: 2 addresses × 2 indices, 1 slab value, 2 temporary handles.**
  - Two addresses and two indices per address give Commit several keys to stop between.
  - Temporary handles exercise the owner filter.
  - Both failure kinds are on, so Commit can stop at every key, including the last, and be retried. That is 1.6 M states over both AutoCommit modes, in about 40 s with two workers.
  - The raw-bytes round trip is checked for every generated handle (addresses 0, 1 and 2, so the address bytes are non-zero and a shifted copy of the index shows) over buffers one byte shorter than, equal to and one byte longer than `storageIDSize`, filled with non-zero bytes so a byte left behind or overwritten shows.
- **fastcommit: 2 addresses × 1 index, 2 encoders, no temporary handles (`MCConstraint`).**
  - Two encoders give every completion order of two jobs and the early-return race.
  - Temporary handles are covered by persistent_commit and only multiply states here. That is about 1 min.
- **persistent_stale_cache, autocommit_refinement, basic_load:** 1 address × 1 or 2 indices, the smallest setting where each counterexample exists. basic_load's Load is given every map from the four handles to a good or a corrupt encoding.
- **health:** three handles (two of address 1, one of address 2), each absent or a slab of one of six kinds, with up to two references. That is every map of up to three slabs, 59,582 inputs with the expected root count 1 or 2. The smallest cycle (a self-reference), the smallest double reference, and a cross-address edge all occur. The run finds 545 k states in 13 s.
- **array_valid:** handles r (the root), x and y. The root may list up to two of x and y, repeats allowed, and x may list y. So there are trees of three levels and a leaf shared by two headers. Data slabs hold at most one element. Header counts are 0..2 and child-header counts 0..1, sizes 1..2, with prefix and header sizes chosen so that both right and wrong sizes occur. Every slab may be absent, full or underflowing, or carry extra data, and the root may carry the wrong type info. That is 2.8 M slab maps in about 1 min. Cycles are left out: on them `_valid` does not return.
- **digester:** 2 clients, 2 objects, 2 keys, seeds {0, 7}. Two objects let a digester be reused by the other client while one is still held.

## Fairness

`FastCommitSpec` assumes weak fairness of the caller while a FastCommit is in progress, and of each encoder goroutine. The Go scheduler eventually runs every runnable goroutine, so this is justified. Operations between FastCommit calls have no fairness: a program may stop calling the storage. `StorageHealth` assumes weak fairness of its one sequential function: once called, it keeps running. States with `pc = "done"` have no successor (the function has returned), so its runs set `CHECK_DEADLOCK FALSE`. The other modules state only safety and refinement, so they have no fairness.

## Not modelled (yet)

- **The Array engine under the validators:** `getArraySlab`, `IsFull`, `IsUnderflow`, `ByteSize` and the slab types are not under `src/`. `ArrayValid` takes their results as inputs (`fillOK`, element sizes) and the prefix and header sizes as constants. `PrintArray` only prints. `ArrayStats`' `ElementCount` is the engine's `a.Count()`.
- **The MapDataSlab element iterator in CheckHealth:** its errors and early `nil` key are not modelled. Elements are abstracted to the handles they reference.
- **NewInMemBaseStorageFromMap:** it starts a base store from a map without advancing the index counters, the same defect as `Load` (finding 7); the base-store models start empty.
- **Counter wrap-around** of `tempStorageIndex` and `StorageIndex.Next` at 2^64: out of reach of both TLC's integers and any real program. The models bound both counters with `MaxIndex`.
- **Go map iteration order in Commit:** `sortedOwnedDeltaKeys` sorts the keys, so the model collects them as a set and sorts; the order the map yields them in cannot change anything.
- **Usage-reporter counters, `StorageID.String`, the Ledger's key prefixing, error types, tests and benchmarks:** no property is about them.
