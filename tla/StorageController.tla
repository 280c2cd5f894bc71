-------------------------- MODULE StorageController -------------------------
(***************************************************************************)
(* The data path of pstorage: StorageController (core/controller.py) over  *)
(* PurityEngine and DeduplicationEngine (purity/), FileBackend (storage/), *)
(* VolumeManager and SnapshotManager (core/).                              *)
(*                                                                         *)
(* Coroutines run on one event loop and suspend only in the file I/O of    *)
(* FileBackend.  A write suspends between check_duplicate and              *)
(* register_block when the data is new; delete_volume suspends whenever a  *)
(* block's last reference goes.  Everything between two suspensions is one *)
(* step, or a chain of steps during which `running' names the coroutine.   *)
(***************************************************************************)
EXTENDS Integers, Sequences, FiniteSets

CONSTANTS
  Data,       \* contents of a block
  Patterns,   \* those that pattern_removal encodes (zero, repeated)
  Offsets,    \* offsets that clients write at, of whole blocks
  Outside,    \* those beyond the end of a volume; all are of one size
  MaxVols, MaxSnaps,   \* bounds on volumes and snapshots ever created
  MaxBlocks,  \* bound on blocks ever stored
  MaxRef,     \* bound on the references a dedup hit adds
  Tasks,      \* coroutines that can be suspended at the same time
  None,
  Sharing,    \* clients use clones and snapshots
  Races,      \* clients use a volume while its deletion is running
  UnlinkFaults   \* the file I/O of a deletion can fail

ASSUME ControllerAssumption ==
  /\ Patterns \subseteq Data
  /\ IsFiniteSet(Offsets) /\ Outside \subseteq Offsets
  /\ {MaxVols, MaxSnaps, MaxBlocks, MaxRef} \subseteq Nat
  /\ {Sharing, Races, UnlinkFaults} \subseteq BOOLEAN
  /\ None \notin Tasks /\ None \notin 1 .. MaxBlocks
  /\ None \notin [block : 1 .. MaxBlocks, ref : Int]

VARIABLES
  content,   \* content[b]: the data block b was stored for; b is its uuid
  disk,      \* blocks whose file and metadata exist (FileBackend)
  table,     \* _dedupe_table: fingerprint -> [block, ref], or None
  vols,      \* _volumes: their state and block mapping
  snaps,     \* _snapshots
  tasks,     \* suspended coroutines
  ioq,       \* those that hold or wait for FileBackend's lock, first come first served
  running    \* the coroutine in the middle of a loop, or None

vars == <<content, disk, table, vols, snaps, tasks, ioq, running>>

VolIds == 1 .. MaxVols
SnapIds == 1 .. MaxSnaps
BlockIds == 1 .. MaxBlocks

(* Fingerprints: of the data itself, and of its pattern encoding.          *)
Raw(d) == <<"raw", d>>
Enc(d) == <<"enc", d>>
Fps == {Raw(d) : d \in Data} \cup {Enc(d) : d \in Patterns}

(* Mutant: a hash under which all data collides.                           *)
MutFingerprint(d) == Raw(CHOOSE x \in Data \ Patterns : TRUE)

(* The fingerprint that check_duplicate computes and that the volume       *)
(* records: of the encoded data when the pattern stage reduced it.  Data   *)
(* that is itself the encoding of other data is not among Data here; the   *)
(* engine's own module, PurityEngine, has it.                              *)
Fingerprint(d) == IF d \in Patterns THEN Enc(d) ELSE Raw(d)

(* volume.blocks: where the data written to an offset is.  A VolumeBlock    *)
(* records the fingerprint of that data, which the data determines.        *)
Mapping == [Offsets -> [block : BlockIds, data : Data] \cup {None}]
Unmapped == [o \in Offsets |-> None]
Mapped(m) == {o \in Offsets : m[o] # None}

Idle == [kind |-> "idle"]

TypeOK ==
  /\ content \in Seq(Data) /\ Len(content) <= MaxBlocks
  /\ disk \subseteq 1 .. Len(content)
  /\ table \in [Fps -> [block : BlockIds, ref : 1 .. MaxRef + MaxBlocks] \cup {None}]
  /\ vols \in [VolIds -> [st : {"unused", "live", "gone"}, blocks : Mapping]]
  /\ snaps \in [SnapIds -> [st : {"unused", "live", "gone"}, blocks : Mapping]]
  /\ \A t \in Tasks :
       \/ tasks[t] = Idle
       \/ tasks[t] \in [kind : {"store"}, vol : VolIds, off : Offsets,
                        data : Data, block : BlockIds]
       \/ tasks[t] \in [kind : {"delete"}, vol : VolIds, mapped : SUBSET Offsets,
                        todo : SUBSET Offsets, old : Mapping \cup {None},
                        unlink : BlockIds \cup {None}]
  /\ ioq \in Seq(Tasks)
  /\ running \in Tasks \cup {None}

Init ==
  /\ content = <<>> /\ disk = {}
  /\ table = [f \in Fps |-> None]
  /\ vols = [v \in VolIds |-> [st |-> "unused", blocks |-> Unmapped]]
  /\ snaps = [s \in SnapIds |-> [st |-> "unused", blocks |-> Unmapped]]
  /\ tasks = [t \in Tasks |-> Idle] /\ ioq = <<>>
  /\ running = None

-----------------------------------------------------------------------------
Live(v) == vols[v].st = "live"
Deleting(v) == \E t \in Tasks : tasks[t].kind = "delete" /\ tasks[t].vol = v
Storing(v) == \E t \in Tasks : tasks[t].kind = "store" /\ tasks[t].vol = v
Usable(v) == running = None /\ Live(v) /\ (~Races => ~Deleting(v))

(* A fresh uuid: the first id never used.                                  *)
Fresh(obj, ids, i) == /\ i \in ids /\ obj[i].st = "unused"
                      /\ \A j \in ids : obj[j].st = "unused" => i <= j

(* Mutant: a duplicate is found but its reference is not counted.          *)
MutRegister(f, b) ==
  table' = [table EXCEPT ![f] = IF @ = None THEN [block |-> b, ref |-> 1] ELSE @]

(* register_block: one more reference, or a new entry.                     *)
Register(f, b) ==
  LET entry == table[f] IN
  table' = [table EXCEPT ![f] = IF entry = None THEN [block |-> b, ref |-> 1]
                                ELSE [entry EXCEPT !.ref = @ + 1]]

(* dereference_block: the count that is left, and the entry goes at zero.  *)
RefsLeft(f) == IF table[f] = None THEN 0 ELSE table[f].ref - 1
Dereference(f) ==
  LET entry == table[f] IN
  table' = [table EXCEPT ![f] = IF RefsLeft(f) = 0 THEN None
                                ELSE [entry EXCEPT !.ref = @ - 1]]

(* VolumeManager.write_block: refused for a volume that is gone and for an *)
(* offset outside; the controller has stored the block by then.  The block *)
(* that was at the offset keeps its reference.                             *)
RecordBlock(v, o, b, d) ==
  vols' = IF Live(v) /\ o \notin Outside
          THEN [vols EXCEPT ![v].blocks[o] = [block |-> b, data |-> d]]
          ELSE vols

CreateVolume(v) ==
  /\ running = None
  /\ Fresh(vols, VolIds, v)
  /\ vols' = [vols EXCEPT ![v].st = "live"]
  /\ UNCHANGED <<content, disk, table, snaps, tasks, ioq, running>>

(* Mutant: a hit is recorded in the volume without register_block.         *)
MutWriteDuplicate(v, o, d) ==
  /\ Usable(v)
  /\ table[Fingerprint(d)] # None
  /\ RecordBlock(v, o, table[Fingerprint(d)].block, d)
  /\ UNCHANGED <<content, disk, table, snaps, tasks, ioq, running>>

(* write() of data whose fingerprint is known: no I/O, one step.           *)
WriteDuplicate(v, o, d) ==
  /\ Usable(v)
  /\ table[Fingerprint(d)] # None
  /\ table[Fingerprint(d)].ref < MaxRef
  /\ Register(Fingerprint(d), table[Fingerprint(d)].block)
  /\ RecordBlock(v, o, table[Fingerprint(d)].block, d)
  /\ UNCHANGED <<content, disk, snaps, tasks, ioq, running>>

(* Mutant: the block is registered before its file is written.             *)
MutWriteNew(t, v, o, d) ==
  /\ Len(content) < MaxBlocks
  /\ Usable(v)
  /\ tasks[t] = Idle
  /\ table[Fingerprint(d)] = None
  /\ content' = Append(content, d)
  /\ Register(Raw(d), Len(content) + 1)
  /\ tasks' = [tasks EXCEPT ![t] = [kind |-> "store", vol |-> v, off |-> o,
                                    data |-> d, block |-> Len(content) + 1]]
  /\ ioq' = Append(ioq, t)
  /\ UNCHANGED <<disk, vols, snaps, running>>

(* write() of new data, up to the suspension in backend.write_block.       *)
WriteNew(t, v, o, d) ==
  /\ Len(content) < MaxBlocks
  /\ Usable(v)
  /\ tasks[t] = Idle
  /\ table[Fingerprint(d)] = None
  /\ content' = Append(content, d)
  /\ tasks' = [tasks EXCEPT ![t] = [kind |-> "store", vol |-> v, off |-> o,
                                    data |-> d, block |-> Len(content) + 1]]
  /\ ioq' = Append(ioq, t)
  /\ UNCHANGED <<disk, table, vols, snaps, running>>

(* The lock is t's and its file I/O is over.                               *)
IODone(t) == running = None /\ ioq # <<>> /\ Head(ioq) = t /\ ioq' = Tail(ioq)

(* The file is written: reduce_and_store registers the fingerprint of the  *)
(* original data, write() records the block in the volume.                 *)
WriteStored(t) ==
  /\ tasks[t].kind = "store"
  /\ IODone(t)
  /\ disk' = disk \cup {tasks[t].block}
  /\ Register(Raw(tasks[t].data), tasks[t].block)
  /\ RecordBlock(tasks[t].vol, tasks[t].off, tasks[t].block, tasks[t].data)
  /\ tasks' = [tasks EXCEPT ![t] = Idle]
  /\ UNCHANGED <<content, snaps, running>>

(* The file I/O raises: the exception leaves write() at that point.        *)
WriteFails(t) ==
  /\ tasks[t].kind = "store"
  /\ IODone(t)
  /\ tasks' = [tasks EXCEPT ![t] = Idle]
  /\ UNCHANGED <<content, disk, table, vols, snaps, running>>

-----------------------------------------------------------------------------
(* delete_volume iterates over the live dict volume.blocks.                *)
DeleteStart(t, v) ==
  /\ Usable(v)
  /\ ~Races => ~Storing(v)
  /\ tasks[t] = Idle
  /\ tasks' = [tasks EXCEPT ![t] =
                 [kind |-> "delete", vol |-> v, mapped |-> Mapped(vols[v].blocks),
                  todo |-> Mapped(vols[v].blocks), old |-> None, unlink |-> None]]
  /\ running' = t
  /\ UNCHANGED <<content, disk, table, vols, snaps, ioq>>

(* The dict the loop goes over: the volume's, or the one it had when a     *)
(* restore or another deletion took it away.                               *)
Iterated(t) == IF tasks[t].old = None THEN vols[tasks[t].vol].blocks ELSE tasks[t].old
Detached(v, t) == IF tasks[t].kind = "delete" /\ tasks[t].vol = v
                  THEN [tasks[t] EXCEPT !.old = Iterated(t)] ELSE tasks[t]

(* A dict that changed size ends the loop with RuntimeError; the volume    *)
(* stays, with the references already given up.                            *)
DeleteRaises(t) ==
  /\ running = t
  /\ Mapped(Iterated(t)) # tasks[t].mapped
  /\ tasks' = [tasks EXCEPT ![t] = Idle]
  /\ running' = None
  /\ UNCHANGED <<content, disk, table, vols, snaps, ioq>>

(* purity.delete of the next block.  Without references left it goes on to *)
(* backend.delete_block, which suspends for the lock or for its file I/O.  *)
DeleteNext(t) ==
  /\ running = t
  /\ Mapped(Iterated(t)) = tasks[t].mapped
  /\ \E o \in tasks[t].todo :
       LET task == tasks[t]
           vb == Iterated(t)[o]
           fp == Fingerprint(vb.data)
           suspends == RefsLeft(fp) = 0 /\ (vb.block \in disk \/ ioq # <<>>)
       IN /\ Dereference(fp)
          /\ tasks' = [tasks EXCEPT ![t] =
                         [task EXCEPT !.todo = task.todo \ {o},
                                      !.unlink = IF suspends THEN vb.block ELSE None]]
          /\ ioq' = IF suspends THEN Append(ioq, t) ELSE ioq
          /\ running' = IF suspends THEN None ELSE t
  /\ UNCHANGED <<content, disk, vols, snaps>>

(* Mutant: delete_volume returns after the first block file it removes.    *)
MutUnlink(t) ==
  /\ tasks[t].kind = "delete"
  /\ IODone(t)
  /\ disk' = disk \ {tasks[t].unlink}
  /\ tasks' = [tasks EXCEPT ![t] = Idle]
  /\ UNCHANGED <<content, table, vols, snaps, running>>

(* backend.delete_block has removed the file; the loop goes on.            *)
Unlink(t) ==
  /\ tasks[t].kind = "delete"
  /\ IODone(t)
  /\ disk' = disk \ {tasks[t].unlink}
  /\ tasks' = [tasks EXCEPT ![t].unlink = None]
  /\ running' = t
  /\ UNCHANGED <<content, table, vols, snaps>>

(* The file I/O of delete_block raises, before the data file is removed or *)
(* after it, at the metadata file: delete_volume ends there.  The volume   *)
(* stays, with its mapping, and the references already given up do not     *)
(* come back.                                                              *)
UnlinkFails(t) ==
  /\ UnlinkFaults
  /\ tasks[t].kind = "delete"
  /\ IODone(t)
  /\ disk' \in {disk, disk \ {tasks[t].unlink}}
  /\ tasks' = [tasks EXCEPT ![t] = Idle]
  /\ UNCHANGED <<content, table, vols, snaps, running>>

DeleteFinish(t) ==
  /\ running = t
  /\ Mapped(Iterated(t)) = tasks[t].mapped
  /\ tasks[t].todo = {}
  /\ vols' = [vols EXCEPT ![tasks[t].vol] = [st |-> "gone", blocks |-> Unmapped]]
  /\ tasks' = [u \in Tasks |-> IF u = t THEN Idle ELSE Detached(tasks[t].vol, u)]
  /\ running' = None
  /\ UNCHANGED <<content, disk, table, snaps, ioq>>

-----------------------------------------------------------------------------
(* Clones, snapshots and restores copy block references; none of them      *)
(* registers a reference with the deduplication table.                     *)
CloneVolume(v, w) ==
  /\ Sharing /\ Usable(v)
  /\ Fresh(vols, VolIds, w)
  /\ vols' = [vols EXCEPT ![w] = vols[v]]
  /\ UNCHANGED <<content, disk, table, snaps, tasks, ioq, running>>

CreateSnapshot(v, s) ==
  /\ Sharing /\ Usable(v)
  /\ Fresh(snaps, SnapIds, s)
  /\ snaps' = [snaps EXCEPT ![s] = vols[v]]
  /\ UNCHANGED <<content, disk, table, vols, tasks, ioq, running>>

DeleteSnapshot(s) ==
  /\ running = None
  /\ snaps[s].st = "live"
  /\ snaps' = [snaps EXCEPT ![s] = [st |-> "gone", blocks |-> Unmapped]]
  /\ UNCHANGED <<content, disk, table, vols, tasks, ioq, running>>

RestoreInto(s, v) ==
  /\ Usable(v)
  /\ snaps[s].st = "live"
  /\ vols' = [vols EXCEPT ![v].blocks = snaps[s].blocks]
  /\ tasks' = [t \in Tasks |-> Detached(v, t)]
  /\ UNCHANGED <<content, disk, table, snaps, ioq, running>>

RestoreNew(s, w) ==
  /\ running = None
  /\ snaps[s].st = "live"
  /\ Fresh(vols, VolIds, w)
  /\ vols' = [vols EXCEPT ![w] = snaps[s]]
  /\ UNCHANGED <<content, disk, table, snaps, tasks, ioq, running>>

-----------------------------------------------------------------------------
TaskStep(t) == \/ WriteStored(t) \/ WriteFails(t)
               \/ DeleteRaises(t) \/ DeleteNext(t) \/ Unlink(t) \/ UnlinkFails(t)
               \/ DeleteFinish(t)

Next ==
  \/ \E v \in VolIds : CreateVolume(v)
  \/ \E v \in VolIds, o \in Offsets, d \in Data :
       WriteDuplicate(v, o, d) \/ \E t \in Tasks : WriteNew(t, v, o, d)
  \/ \E t \in Tasks : TaskStep(t) \/ \E v \in VolIds : DeleteStart(t, v)
  \/ \E v, w \in VolIds : CloneVolume(v, w)
  \/ \E s \in SnapIds : \/ DeleteSnapshot(s)
                        \/ \E v \in VolIds : \/ CreateSnapshot(v, s)
                                             \/ RestoreInto(s, v) \/ RestoreNew(s, v)

Spec == Init /\ [][Next]_vars

(* File I/O completes and the event loop resumes the coroutine.            *)
FairSpec == Spec /\ \A t \in Tasks : WF_vars(TaskStep(t))

-----------------------------------------------------------------------------
(* Offset o of v is mapped and no running deletion has given it up.        *)
Holds(v, o) ==
  /\ Live(v) /\ vols[v].blocks[o] # None
  /\ \A t \in Tasks : tasks[t].kind = "delete" /\ tasks[t].vol = v => o \in tasks[t].todo

Holders(d) == {x \in VolIds \X Offsets : Holds(x[1], x[2]) /\ vols[x[1]].blocks[x[2]].data = d}

Unlinking == {tasks[t].unlink : t \in {u \in Tasks : tasks[u].kind = "delete"}} \ {None}

(* "Reference counting for safe deletion": the data of every mapped offset *)
(* of a volume that is not being deleted is on disk, so that read() finds  *)
(* it.                                                                     *)
NoDangling ==
  \A v \in VolIds, o \in Offsets :
    Live(v) /\ ~Deleting(v) /\ vols[v].blocks[o] # None => vols[v].blocks[o].block \in disk

(* The table counts at least one reference for each mapped offset whose    *)
(* fingerprint it deduplicates: dereference_block cannot reach zero while  *)
(* another offset still uses the block.                                    *)
RefsCover ==
  /\ TypeOK
  /\ \A d \in Data \ Patterns :
       Cardinality(Holders(d)) <= IF table[Raw(d)] = None THEN 0 ELSE table[Raw(d)].ref

(* A fingerprint check_duplicate can find leads to a block that is on disk *)
(* and that no deletion suspended in file I/O is about to remove, also     *)
(* with clones, snapshots, restores, racing deletions and deletions that   *)
(* failed and are tried again.                                             *)
TableLive ==
  \A d \in Data \ Patterns :
    table[Raw(d)] # None => table[Raw(d)].block \in disk \ Unlinking

(* Reading back: the block recorded for an offset, in a volume or in a     *)
(* snapshot, was stored for the data that was written there.               *)
ContentMatches ==
  /\ \A v \in VolIds, o \in Offsets : vols[v].blocks[o] # None =>
       vols[v].blocks[o].data = content[vols[v].blocks[o].block]
  /\ \A s \in SnapIds, o \in Offsets : snaps[s].blocks[o] # None =>
       snaps[s].blocks[o].data = content[snaps[s].blocks[o].block]

(* delete_volume that has started ends with the volume removed, when       *)
(* nobody else uses the volume meanwhile and no file I/O of it fails.      *)
DeleteCompletes == \A v \in VolIds : Deleting(v) ~> vols[v].st = "gone"
=============================================================================
