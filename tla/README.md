# TLA+ models of the Storage Appliance Architecture

This directory models the parts of the repository whose correctness depends on
the order of events or on bookkeeping done by hand in many places. TLC checks
the models on small instances; TLAPS proves the most important results for
every size. Modelled are `pstorage`, the Python appliance, from its REST
requests down to its files and flash, with its cluster, replication and
analytics, and the Go object store. The other Go parts and the legacy C++ are
left out for the reasons under "Not modelled".

## The system

| Part | Source | Model |
|---|---|---|
| Flash block manager | `pstorage/.../directflash/block_manager.py` | `BlockManager` |
| Flash simulator, garbage collection, wear levelling | `directflash/simulator.py`, `garbage_collection.py`, `wear_leveling.py` | `DirectFlash`, contract `FlashStore` |
| Controller: data path | `core/controller.py` | `StorageController` |
| Volumes, snapshots and their requests | `core/volume_manager.py`, `snapshot_manager.py`, `api/routes/volumes.py`, `snapshots.py` | `VolumeService` |
| Data reduction: engine and deduplication | `purity/engine.py`, `deduplication.py` | `PurityEngine` |
| Data reduction: codecs | `purity/pattern_removal.py`, `compression.py` | `ReductionCodec` |
| File backend | `storage/file_backend.py`, `backend.py` | `FileBackend`, contract `BlockStore` |
| Cluster, mediator, failover | `activecluster/cluster.py`, `mediator.py`, `failover.py` | `ActiveCluster` |
| Replication | `activecluster/replication.py`, `api/routes/replication.py` | `Replication` |
| Analytics | `analytics/predictor.py`, `api/routes/analytics.py` | `StoragePredictor` |
| Object store | `unity/objstorage.go` | `ObjectStore` |

`PROJECT.json` has the complete list of parts, the lines each definition
models, and the hazards of each part at the line where they bite.

The API calls the storage controller. The controller sends data through the
Purity engine (pattern removal, deduplication, compression) into the file
backend, and records the block in a volume. The cluster keeps, on every node,
a view of the other nodes and a replication engine. The predictor is fed by
API requests. DirectFlash is a simulator of its own that the controller does
not use; the object store is a separate Go program.

The data path is modelled twice, from two sides. `StorageController` composes
controller, volumes, deduplication and backend with the suspensions between
them, and abstracts the data. `VolumeService`, `PurityEngine` and `FileBackend`
each open up one of those parts: the counters and answers of the volumes, the
codecs and statistics of the reduction, the two files of a block.

**Atomicity.** All of `pstorage` runs on one asyncio event loop. A coroutine
gives up the loop only in real I/O (aiofiles, httpx), in `asyncio.sleep`, or
for a lock that somebody holds. Everything between two such points is one
action. Where a loop runs without suspending, its iterations are separate
actions, and a control variable (`pc` in `DirectFlash`, `running` in
`StorageController`) keeps everybody else out. The object store serves each
request in a goroutine; its locks are held for one access to one map, so every
lock section is an action and everybody else may run in between.

## Modules

A module `MCx` gives the constants of module `x` values that a `.cfg` cannot
express, and symmetries. Definitions called `Mut...` are versions of the
definition after them with a bug of the kind the code could have; each shows
that some property would notice.

### BlockManager, DirectFlash, FlashStore
`BlockManager` has the physical blocks, the logical-to-physical table, the free
pool and the counters; its operators are the methods of the class.
`DirectFlash` adds the simulator: `Write`/`Retry`, `Delete`, the collector
(`GCLoop`, `ForceGC`, `GCStep`), levelling (`ForceLeveling`, `LevelStep`,
`EraseSource`), `Initialize` and `Shutdown`. Python's choice among equally worn
free blocks is left open. `get_stats` raises when all blocks are bad; this is
modelled with what it leaves behind (`GCRaises`).
`FlashStore` is the contract: fresh addresses, stable content, and nothing
visible from collection and levelling. Its variable `op` makes that last part
say something: while an operation or the collector runs, no deletion can
explain a change of content.

### StorageController
Volumes, snapshots, the deduplication table and the block files. A write of
new data suspends in the backend between `check_duplicate` and
`register_block` (`WriteNew`, then `WriteStored` or `WriteFails`). A deletion
goes over the volume's live dict (`DeleteStart`, `DeleteNext`, `Unlink`,
`DeleteFinish`, `DeleteRaises` when the dict has changed size). The backend's
lock is first come, first served (`ioq`). Three constants say what happens
around it: `Sharing`, that clients use clones and snapshots; `Races`, that they
use a volume while it is being deleted; `UnlinkFaults`, that removing a block
may raise, at its data file or, with that one gone, at its metadata file
(`UnlinkFails`), which ends the deletion half way and leaves the volume to be
deleted again.

### VolumeService
The requests of the REST API for volumes and snapshots, each with the status
code it is answered with. Mapping dicts are objects on a heap, because the code
shares or copies them: writes update a dict in place; clones, snapshots and
restores copy. Sizes are counted in blocks, and every counter that an operation
adjusts by hand (`used_bytes`, the totals, the lists of snapshots) is there.
`total_used_bytes` is not exact (see below); the history variable `drift` is by
how much, so that nothing else can make it wrong unnoticed.

### ReductionCodec, PurityEngine
`ReductionCodec` has the conversions as operators on sequences of bytes:
`Encode`/`Decode` of pattern removal, the compression header of one byte for the
algorithm and four for the size, and how `Retrieve` recognises what it reads.
`Radix` is the number of values of a byte: 256, and 8 in the run, where sizes
still fit. The compression library is external, a pair of operators of which the
second undoes the first. `Survives` describes the data that comes back as it was
written; the codec gives no more (see below). `find_zero_regions` and
`chunk_data` have no caller yet; they are there as operators only.
`PurityEngine` adds the table, the files and the counters of the three stages.
`reduce_and_store` suspends while it stores (`ReduceNew`, then `StoreDone` or
`StoreFails`), `delete` while it removes the file (`Delete`, then `DeleteDone` or
`DeleteFails`). A deletion that raised has given up its reference and can be
tried again, as `delete_volume` does when it is repeated; the second time it
takes a reference of somebody else, if there is one. The history variable
`overdrawn` has the fingerprints of which that happened. The stages that are
enabled are chosen when the process starts.

### FileBackend, BlockStore
A block is a data file and a metadata file, changed one after the other under
one lock. Every file operation is an action: a file is torn from the time it is
opened until its content is there. Any of them may raise (`Raises`), and the
process may end and start again on what it left (`Crash`). `BlockStore` is the
contract of `storage/backend.py`: calls take effect at once, and a call that
fails leaves its own block in doubt and no other. `doubt` records those blocks.

### ActiveCluster
For each modelled node its own view (health, roles, primary) and its failover
controller. Heartbeats are reduced to `fresh`, the ids heard of within the
failure threshold; `Silence` takes an id out, for whatever reason. `initialize`
registers each peer under a hash of its URL (`cluster.py:88`), and Python's
hashes differ from process to process: `Start` takes one of the sets of ids in
`HashIds`, which may have the node's own id in it, and a heartbeat counts only
if its id is in the set. A stopped process loses everything.

### Replication
One node's engine: synchronous sending, the asynchronous journal and its loop,
requests that are lost, refused, late, or answered after the timeout, peers
added and removed under way, and crashes, which lose the journal (`lost`).
`Answers` is what peers do with a request: take it or refuse it. What they do is
external to the engine: nothing serves the path that the engine posts to, so a
peer that runs this repository's server refuses (`replication_live`). The run
`replication` lets peers do either, and so speaks of the engine also for the
time when the two paths agree.

### StoragePredictor
Capacity samples and access records come in; forecast, confidence,
temperatures, tiering advice and health are operators on them. Floats are exact
quotients, so the model shows the formulas right and not their rounding.

### ObjectStore
Buckets, put, get, delete, versions and multipart uploads over the storage
pool. A request is a record in `call` that moves from one lock section to the
next. `clash` collects the objects and parts of which two changes have
overlapped: the code makes no promise about them, and the properties say which
of them need it.

## Runs

| Run | Expectation | Distinct states | Shows |
|---|---|---|---|
| `directflash` | pass | 110,034 | mapping, pool and counters exact; a write fails only when no stale block is left; `FlashStore` implemented; operations return; stale blocks above the threshold are reclaimed |
| `controller` | pass | 112,748 | without sharing and races no mapped block loses its file, references are not undercounted, a deletion completes |
| `controller_full` | pass | 949,421 | with everything, failing removals included: no fingerprint leads to a removed block, and mapped blocks hold the data written |
| `controller_clone` | violation | | deleting a volume removes blocks of its clone |
| `volumes` | pass | 180,681 | used bytes, provisioned bytes, counts and lists are exact through overwrites, clones, restores and deletions, and `total_used_bytes` is off by the recorded drift; snapshots never change; no request shows in two volumes |
| `purity` | pass | 1,292,924 | what a caller holds is on disk, unless somebody gave up a reference that others have, and reads back; the bytes the three stages report add up; codecs and scans agree with their reference definitions |
| `backend` | pass | 251,909 | the two files of a block agree outside of a change; the lock is always released; `BlockStore` implemented, with exceptions and crashes |
| `cluster` | pass | 20,159 | under any ids for the peers: views stay consistent; automatic changes go to healthy members; a peer that stays silent shows in the reported state; a failed primary is replaced and a returned original one is failed back to |
| `replication` | pass | 863,945 | both modes, with crashes: what was acknowledged was taken by a peer, is in the journal, or was in the journal that a crash lost; the journal stays in order |
| `replication_live` | violation | | with peers that run this server no queued operation is ever replicated |
| `analytics` | pass | 543,314 | the forecast is the least-squares line and consistent with itself; temperatures and advice agree; neither a bad block nor a round of erases of all blocks raises the health score |
| `objects` | pass | 2,352,876 | reads return the bytes of one put or fail; the newest version is the latest; metadata, versions and pool agree on objects whose changes have not overlapped; parts are joined in order |

`controller_clone` and `replication_live` check sentences of the repository's
documentation that the code does not live up to; `findings` in `PROJECT.json`
quotes them and explains the counterexamples. The counterexample of
`replication_live` is a loop under fairness: the journal is copied, its first
operation sent, refused with 404 and kept. The engine is not to blame: with
`Answers = {"ok"}` the same property holds (2,988 states).

Type invariants: `TypeOK` is an invariant by itself in `cluster` and `backend`
and a conjunct of `CountersExact`, `SavingsAddUp`, `RefsCover` and `JournalSound`
(`PredictorTypeOK`, of `ForecastSound`). It is proved for every module.

`CodecsExact`, `ScansExact` and `HealthFallsWithWear` are about pure functions:
they are evaluated for all inputs in the initial states of their runs.

### Observed while modelling
Other places where code and documentation or comments part, or where a reader
may expect more than the code gives. No run is spent on them.

Flash:
* `block_manager.py:144`: an overwrite that finds the pool empty leaves a table
  entry on a block that later goes to another address. The simulator never
  rewrites an address.
* `block_manager.py:251`: `invalid_blocks` is never lowered, because the state
  is tested after it has been overwritten.
* `wear_leveling.py:87`: only worn blocks are relieved; a block with data that
  nobody rewrites stays unworn ("even distribution", line 31).

Data path:
* `controller.py:126`: deleting a volume also removes blocks of its snapshots
  ("Immutable once created", `snapshot_manager.py:60`). `VolumeService` shows
  that the snapshot's mapping never changes; the blocks it leads to may go.
* `controller.py:126`: `delete_volume` iterates over the live dict and suspends
  in file I/O. A write to a new offset meanwhile ends the loop with
  `RuntimeError`, and the volume stays, with offsets whose blocks are gone.
  `docs/NUDD-analysis.md:71` says "Race Condition Prevention ... Resolved".
  A deletion that failed on a file and is repeated gives up references twice.
* `controller.py:167`: a write that overlaps the deletion of its volume is
  answered with a `WriteResult` although nothing records it. A write beyond the
  end of the volume has stored its block before it is refused.
* `volume_manager.py:249`: overwriting an offset never gives up the reference of
  the old block.
* `engine.py:153`: pattern blocks are looked up by one fingerprint and
  registered under another: they are never deduplicated, and their entries
  outlive their blocks. Equal blocks written concurrently are stored twice.

Volumes and snapshots:
* `volume_manager.py:267`: `total_used_bytes` grows by the whole write, also when
  the offset was mapped before; clones and restores do not add to it, and
  deleting a volume (`:191`) takes its `used_bytes` off. So it drifts either way,
  below zero too; `/metrics` serves it (`api/routes/metrics.py:96`). This is
  `drift`.
* `total_logical_bytes` and `total_physical_bytes` are not exact:
  `logical_bytes` turns negative when a volume restored from a snapshot is
  overwritten, physical bytes are only ever taken off, and overwrites and
  clones that are deleted make the totals drift.
* A restore into a smaller volume leaves blocks beyond its end. Data longer than
  a block is readable at the offset of its first block only.

Reduction:
* A zero block of another size than `default_block_size`, empty data, and data
  that starts like a marker do not read back as written. With compression off,
  neither does data that starts with a byte 0 to 2, which is taken for a
  header. `Survives` states the data that does, exactly.
* `engine.py:216`: repeated bytes are registered as they are, but looked up and
  given up by their encoded form. If other data equals that form, deleting the
  repeated bytes takes a reference of that data, and a file somebody holds goes.
  So it does when a deletion that raised is tried again. This is `overdrawn`.
* `blocks_analyzed` of pattern removal counts a reduced block twice.

File backend:
* A write that fails between its two files leaves a data file that nothing
  refers to. A deletion that fails between them leaves the metadata: later
  deletions answer `False` for ever, and writing the same content under that id
  again succeeds without storing it. Ids are uuids, so Purity never does.
* `read_block` takes no lock: a deletion between `exists` and `open` shows as
  `FileNotFoundError` instead of the documented `KeyError`.

Cluster and replication:
* `failover.py:148`: every node elects and sets the primary in its own view and
  tells nobody ("Prevents split-brain by arbitrating primary selection",
  `mediator.py:57`). Two nodes, each the other's peer: one is primary, an
  operator makes the other primary by `manual_failover` there, and both go on
  as primary.
* `mediator.py:202`: the election starts once, on the edge from healthy to
  unhealthy, and `check_and_failover` does nothing in `FAILED_OVER`. A primary
  that fails after a failover, while there is no quorum, is not replaced when
  the quorum returns ("Detection of primary failure", `failover.py:58`).
  `FailoverHappens` therefore speaks of the state `NORMAL`.
* `failover.py:240`: failback does not ask for a quorum; `failover.py:221`: it
  also undoes a manual failover.
* `cluster.py:93`: a secondary never learns who is primary, so it never
  replaces it.
* `cluster.py:88`: peers are registered under a hash of their URL and heartbeats
  carry node ids, so a heartbeat is attributed to its sender only if the two
  happen to be the same. Otherwise a live peer is unhealthy once the threshold
  has passed, and stays so ("Monitors node health via heartbeats",
  `mediator.py:55`). Two peers whose hashes coincide are one member.
* `replication.py:206`: a synchronous write is acknowledged when one peer has it
  ("write to all replicas before ack", `replication.py:67`);
  `replication.py:284`: a peer that missed an operation which another one took
  is never sent it again.
* `replication.py:312`: after `shutdown` and `initialize` the HTTP client stays
  closed.

Analytics:
* `predictor.py:439`: the reason given with an advice compares names of tiers
  alphabetically. A move from `nvme` to `archive` is said to be "to faster tier
  for better performance".
* A volume that was never accessed is frozen at once; records of deleted
  volumes stay for ever; `record_access` takes volumes that do not exist.
* In floats, samples less than about a minute apart cancel out: the slope is 0,
  or off by several percent. The model has exact quotients.
* A single erase of the least worn block makes wear more even. The variance
  penalty it saves can be more than the wear penalty it costs, and the score
  rises. `HealthFallsWithWear` is about erases of all blocks and about bad ones.
* `predictor.py:483`: `get_volume_analytics` reads the clock again for each
  block. A block at the edge of a temperature can be hot by one reading and not
  by the next; the model has one reading for the whole request.

Object store:
* Overlapping puts of one key can leave metadata and pool apart, and reads then
  fail with "checksum mismatch". This is what `clash` excludes from
  `SettledReadable` and `CurrentIsNewest`; `ReadsVerified` and `OneLatest` hold
  regardless.
* All versions of a key share one `StorageID`, so old ones become unreadable.
  Deleting in a versioned bucket leaves the object readable. An unknown
  `versionId` returns the current object; that of a delete marker dereferences
  nil.
* `completeMultipartHandler` passes an empty list of parts: the object is empty
  and the parts leak. `CompleteMultipartUpload` itself takes any numbers and
  sizes; the model calls it with any set of parts that were uploaded, the empty
  one included, and with their sizes, as clients of the S3 protocol do. Bucket
  and key of the upload are ignored. `DeleteBucket` leaves the objects.

### Bounds
* `DirectFlash`: three blocks fill up, become stale, are moved and wear out
  within five addresses; three erasures make a block bad, so every block can
  reach its end. Thresholds of 75 % and 50 % lie between the possible fill
  levels.
* `StorageController`: two blocks per volume and one offset outside, two
  volumes, two concurrent coroutines, one value with a pattern and one without,
  two or three stored blocks. `MaxRef` bounds duplicates. Coroutines, and the
  offsets inside a volume, are alike in every step, so `controller_full` uses
  their symmetry; `controller`, which checks liveness, uses none.
* `VolumeService`: two volumes and two snapshots ever created, sizes of one and
  two blocks and writes of one and two, so that writes can fit, end beyond a
  volume, overlap and be cut off by a resize; ids never created or deleted are
  used, too.
* `PurityEngine`: three calls, enough for two that share a block and a deletion
  between them; six inputs, one for each way through the codecs, and with the
  repeated byte its encoded form. `CodecsExact` and `ScansExact` take all data of
  up to four bytes over five values, longer data around the sizes of header and
  markers, and two blocks that compress.
* `FileBackend`: two coroutines on two ids with two contents; three references.
* `ActiveCluster`: one node that registers its peers under one to three of four
  ids, its own among them, of which heartbeats carry two, so that some peers are
  heard and others never; elections have a choice, and the quorum (three of
  four) is a majority and not half; a failover target that is known and one that
  is not.
* `Replication`: two peers and two operations; one peer and three operations
  for liveness.
* `StoragePredictor`: a history of three samples, so that it is trimmed; four
  time units pass through all temperatures; two volumes of two blocks.
* `ObjectStore`: two goroutines on one key of one bucket, two versions, one
  upload of two parts.

Deadlock is not checked where the bounds on ids, operations or calls end every
behaviour (`volumes`, `purity`, `analytics`, `controller`, `controller_full`,
`replication`, `replication_live`). It is checked in the others.

### Fairness
* `DirectFlash`: weak fairness of a running operation. Strong fairness of the
  background collector, because its timer puts it into the event loop's FIFO
  queue, where other operations cannot overtake it for ever.
* `StorageController`, `FileBackend`: weak fairness of suspended coroutines:
  file operations end, with a result or an exception, and the event loop
  resumes the coroutine. The lock is handed on in the order of the queue.
* `ActiveCluster`: weak fairness of the periodic tasks and the election task.
* `Replication`: weak fairness of the engine; of the requests it sends again and
  again some reach the peer, and of the answers, whichever they are, some are
  heard (strong fairness).

## Proofs

Each proof module extends the module it is about; `MonitoringProofs` extends
two that share no state, which is why the definitions of `StoragePredictor` are
called `PredictorInit`, `PredictorNext`, `PredictorSpec` and so on, and Python's
`None` is `Absent` there. The constants are arbitrary within the named
assumption of their module; TLC evaluates the assumptions in the runs.

**Induction over data.** Sums over a history, the scan for zero regions and the
chunks of a block are recursive functions. The provers do not find inductions
by themselves, so two lemmas supply them. `Induction` says that a set of
naturals with 0 and all successors is all of them; it follows from the least
element of what would be missing. A lemma such as `SumsExist` builds the
function that the recursion defines, one argument at a time, and with it the
definition's equation holds.

**`DirectFlashProofs`** (`BlockAssumption`, `FlashAssumption`: a collector
target below 100 %) proves, for any number of blocks and addresses, any data,
endurance and thresholds, that `TypeOK`, `MappingConsistent`, `PoolExact` and
`FailsOnlyWhenFull` are invariant, that only stale blocks are erased, and that
`DirectFlash` implements `FlashStore`. The inductive invariant is
`IInv == BMInv /\ Ctl /\ ...`: `BMInv` joins typing, mapping, pool, "blocks in
use are not worn out and hold data"; `Ctl` says what holds at each control
point. `FailsOnlyWhenFull` is not inductive by itself: the collector may stop
at its target, which leaves a free block only because the target is below
100 % and the counters are exact (`TargetLeavesRoom`); it must also know that
its list is exactly the stale blocks. One lemma for each block manager
operation (`WriteSucceedsKeeps`, `DeleteKeeps`, `EraseKeeps`, `LevelKeeps`)
and one for each action lead to `StepInvariant`; the refinement then needs only
what each operation does to reads.

**`StorageControllerProofs`** (`ControllerAssumption`) proves, for any volumes,
snapshots, blocks and coroutines, with or without sharing, races and failing
removals, that a fingerprint never leads to a block that is gone or about to go
(`TableStaysLive`), and that every mapped block was stored for the data that
the mapping names (`MappingsMatch`). The inductive invariant `Sound` adds to
the types what the suspended coroutines know: a block being stored belongs to
one coroutine and is not on disk; what a deletion still has to remove is
settled, and its table entry is gone; pattern data never gets an entry under
the fingerprint that is looked up. `TypeCorrect` bounds the reference counts.

The same module proves that reference counts cover the offsets that use a block
(`ReferencesCovered`) and that every mapped offset of a volume not being deleted
has its file (`NothingDangles`). Both assume `Alone`: no clones and snapshots,
no use of a volume while it is deleted, no failing removal, which are the
constants of the run `controller`. Without it both are false, as
`controller_clone` and the notes above show. Neither is inductive: a deletion
gives up references one at a time while its volume still maps the blocks, so
`Guarded` counts as holders the offsets that no deletion has passed yet, says
that a deleted volume's mapping is the one its deletion started with, and that
a block of pattern data, which is never deduplicated, has one holder. That the
holders are finitely many makes a step a change of their number by one.

**`VolumeServiceProofs`** (`ServiceAssumption`) proves that snapshots never
change (`SnapshotsStay`) and that no request shows in two volumes
(`VolumesApart`). Both are about aliasing and follow from `Owned`: every volume
and snapshot has a dict object of its own. Every request is one of three
shapes, which is what the lemmas establish one request at a time. `FiguresExact`
is about what clients are shown: every `used_bytes` is the size of what the dict
maps, the numbers of volumes and snapshots and the provisioned bytes are those of
what is there, and the list of a volume's snapshots is what was taken of it and
not deleted, in that order. `total_used_bytes` is the sum of the volumes'
`used_bytes` plus `drift`, that is plus what was overwritten, less what clones
and restores handed out (`Drifted`). A sum is stated as the number of cells
(volume, position), of which there are finitely many, so that no induction is
needed: a request adds or takes away the cells of one volume.

**`PurityProofs`** (`CodecAssumption`, `EngineAssumption`) proves for all data,
markers, block sizes and settings that data which `Survives` describes is read
back from what is stored for it (`StoredReadsBack`), and that through
deduplication, concurrent stores and deletions the block that a caller was
given reads back as that caller's data (`RetrieveReturnsData`). The invariant
`Inv` says that a table entry names a block stored for its fingerprint and
that a write has its own block or one stored for its reduced form. It assumes
that SHA-256 does not collide (`Fingerprint` is the identity) and that neither
marker can be taken for a header, for the other marker or for a repeated byte.

What reads back is exactly what `Survives` describes (`CodecsAreExact`), for all
data. That a size of four bytes reads back as it was written is a lemma on
`ToBytes` and `FromBytes` for any radix. That other data does *not* read back
assumes `NoFixpoint`: the library does not turn the bytes that follow a header
in a block into that very block, or into what decodes to it. For an arbitrary
pair of functions that may happen, and the block would come back by accident.
TLC evaluates `NoFixpoint` for the coder and the data of the `purity` run.
`ScansAreExact`, for all data and all minimal sizes: the regions that
`find_zero_regions` yields are the maximal runs of zeros that are long enough,
because the scan's state after `i` bytes has the runs that ended before them and
the start of the one that is open; the chunks of `chunk_data` are cut every
`min_block_size` bytes and join to the data.

The bytes that the three stages report add up (`SavingsAreExact`): `Booked`
counts cells of the table and of stores under way. A block stays on disk while
a caller holds it, unless the caller is counted in an entry that was overdrawn
(`HeldBlocksStay`); this needs no assumption on the data. Who can lose a block is
thereby said exactly: the holders of a fingerprint of which `delete` took a
reference that its caller did not have. Nobody else does, whatever fails and is
tried again. `Kept` says of an entry that was not overdrawn that it counts
exactly its holders, and that the block it gives out and those they hold are on
disk with no deletion on its way to them. A repeated byte that was stored has a
block of its own that no look-up leads to.

**`FileBackendProofs`** (`BackendAssumption`) proves, for any ids, contents and
coroutines, that the two files of a block agree outside of a change
(`FilesAlwaysAgree`), that one call at most is between its changes
(`ChangesOneAtATime`), and that `FileBackend` implements `BlockStore`. The
inductive invariant is `Typed /\ Locked /\ Planned /\ FilesOK`: only the holder
of the lock is past its look at the metadata, what it does next agrees with
what it found, and its position says how far the files have got. Without
`Planned` nothing would keep the stale copy of the metadata that a call works
with in step with the file. `TypeCorrect` says that metadata on disk always has
a reference; `MaxRefs` bounds when calls begin, not the count itself.

**`ObjectStoreProofs`** (`StoreAssumption`) proves, for any buckets, keys,
bodies, uploads and goroutines, type correctness, that the newest version is
the latest, that a read returns the whole bytes of one put or fails, and that
metadata, versions and pool agree on objects whose changes have not overlapped
(`ObjectsReadable`, `CurrentVersion`). The last two are false in the middle of a
change; `Sound(n)` says, for each position of the one request that may be
changing the object, what pool and versions hold. `AllListed` holds whatever
overlaps and carries the theorem about reads.

`PartsAssembled` is about multipart uploads: what `CompleteMultipartUpload`
stores is the listed parts end to end. `Assembled` says where each byte is: part
`i` begins behind as many bytes as the listed parts below it have. The invariant
`PInv` follows the parts through pool and upload. For a part whose changes have
not overlapped, one request at most is about it, and the pool has what the
upload records unless that request is uploading it (`PartSound`); nothing is
there of an upload to come, and one whose parts are reclaimed is gone (`Unborn`,
`Swept`). From this the part that is read next is the one that was listed, with
the size that was listed (`Joins`, `JoinNext`).

**`ReplicationProofs`** (`ReplicationAssumption`) proves, for any peers and any
bound on the operations, in both modes, with lost, late and refused requests, a
loop that is stopped and started and crashes, that nothing acknowledged is
forgotten but by a crash (`AckedAlwaysKept`) and that journal, copy and counter
stay in step (`JournalAlwaysSound`). The inductive invariant is
`TypeOK /\ Requests /\ Kept /\ Journal`: requests belong to operations under
way; an answer of 200 comes from a peer that has the operation, and so does
every success; the copy is an ordered part of the journal and the operation
the loop waits for is the head of the copy. Without the last, nothing would
keep the copy a part of the journal when an operation leaves both.

**`MonitoringProofs`** (`ClusterAssumption`) proves of `ActiveCluster`, for any
set of nodes with natural numbers as ids, whatever ids a node registers its
peers under each time it starts, that primary and roles agree in every view and
that automatic changes of the primary go to a healthy member (with a quorum, or
back to the original primary). Views and failover controllers keep their types
(`TypeCorrect`). The inductive invariant is `Typed /\ RolesAgree`; the
election's choice of the least id rests on the well-foundedness of the naturals
(`ElectedIsCandidate`).

Of `StoragePredictor` (`PredictorAssumption`) it proves all three properties.
The state needs little: `PInv` is the types and a bound on the access counts.
The work is in the arithmetic.
* `ForecastHolds`, for every history. A column that is a linear combination of
  two others has the same combination of their sums (`SumLinear`), and a sum of
  squares is zero only with all of them (`SumPositive`). From the first the
  residuals cancel; from the second the denominator is positive unless all
  samples have one time (`SpreadIs`) and R-squared is one only if all residuals
  are zero. If they are, the samples rise as the line does (`OnLine`); and if
  samples lie on a line that is not upright, its equation summed over them makes
  it the fitted one (`LineThrough`). That predictions and thresholds are in
  order follows from the monotony of the line, of the rounding (`TruncateUp`)
  and of the clipping (`ClipUp`).
* `TieringAgrees`: the volume's temperature is that of its latest access, and a
  later access is warmer (`LaterIsWarmer`); that there is a latest one rests on
  the bound on the clock (`MaxIsLargest`).
* `HealthFalls`, for every drive in `Drives` (any sequence of erase counts that
  is not empty): a round of erases moves all of them and their mean together,
  so the variance stays (`WearVariance`) and only the wear penalty grows.

Only model-checked are the liveness properties (`OpsReturn`,
`PressureRelieved`, `DeleteCompletes`, `SilenceShows`, `FailoverHappens`,
`FailbackHappens`, `CallsReturn`), which are beyond the prover. Every safety
invariant, action property and refinement of the passing runs is proved.

## Not modelled

Left out because there is nothing behind the interface to speak about:
* OneFS, VPLEX and the NVMe subsystem of `powerscale/powerscale.go`:
  `writeShardToNode`, `readShardFromNode` and `writeToSite` are stubs, the
  queues are never consumed, and a zone write advances a pointer and keeps no
  data. A property about stored data would be one about code that is not there.
* Data Domain: nothing lowers a segment's reference count, so its collector
  never has anything to remove.
* NVMe-oF initiator and target: the two sides do not agree on the wire format
  (`parseCommand` looks beyond its 64-byte buffer, the initiator does not
  serialise the fields), so no connection gets as far as I/O.
* DPU client, CGO bridge, NVMe driver: placeholders, wrappers of external
  libraries, and an emulation that answers each command before `submit`
  returns.
* Legacy C++: not built by the repository; placement, replacement and node I/O
  of PowerStore are declared and never defined.

Left out of modelled parts:
* methods nothing calls: `BlockManager.allocate_block`, `Mediator.remove_node`,
  `DeduplicationEngine.clear`; `VolumeManager.update_volume`, which sets a name
  and a description; `ReplicationEngine.close`;
* the bytes of the compression libraries and of SHA-256, latencies and
  statistics that no decision and no property reads, directory layout, lists
  and HTTP handlers without state, settings (the constants of the models);
* lifecycle rules of the object store: no bucket ever gets one.
