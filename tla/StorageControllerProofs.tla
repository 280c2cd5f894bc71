----------------------- MODULE StorageControllerProofs ----------------------
(***************************************************************************)
(* The deduplication table never leads a write to a block that is gone or  *)
(* going, and every mapping leads to a block stored for its data: for any  *)
(* number of volumes, snapshots, blocks and coroutines, with clones,       *)
(* snapshots, restores, racing and failing deletions.  Both follow from    *)
(* Sound, which tells settled blocks from those still being stored.  The   *)
(* bound on a reference count follows from a count of the settled blocks;  *)
(* without clones, snapshots and racing or failing deletions the           *)
(* references cover the mappings and nothing dangles, by Guarded.          *)
(***************************************************************************)
EXTENDS StorageController, FiniteSetTheorems, TLAPS

StoreTask == [kind : {"store"}, vol : VolIds, off : Offsets, data : Data, block : BlockIds]
DeleteTask == [kind : {"delete"}, vol : VolIds, mapped : SUBSET Offsets,
               todo : SUBSET Offsets, old : Mapping \cup {None},
               unlink : BlockIds \cup {None}]
TaskRecord == {Idle} \cup StoreTask \cup DeleteTask
Holder == [st : {"unused", "live", "gone"}, blocks : Mapping]
Entry == [block : BlockIds, ref : Int]

(* Counting a reference more or less changes only the count.               *)
LEMMA EntryCount ==
  ASSUME NEW e \in Entry
  PROVE  /\ e.ref \in Int
         /\ [e EXCEPT !.ref = @ + 1] \in Entry /\ [e EXCEPT !.ref = @ + 1].ref = e.ref + 1
         /\ [e EXCEPT !.ref = @ - 1] \in Entry /\ [e EXCEPT !.ref = @ - 1].ref = e.ref - 1
BY DEF Entry

(* The types, without the bound on references, which needs their count.    *)
Typed ==
  /\ content \in Seq(Data) /\ Len(content) <= MaxBlocks
  /\ disk \subseteq 1 .. Len(content)
  /\ table \in [Fps -> Entry \cup {None}]
  /\ vols \in [VolIds -> Holder] /\ snaps \in [SnapIds -> Holder]
  /\ tasks \in [Tasks -> TaskRecord]
  /\ running \in Tasks => tasks[running].kind = "delete"

(* Block b was stored, or at least allocated, and no coroutine of ts is    *)
(* still storing it.                                                       *)
Settled(b, c, ts) ==
  /\ b \in 1 .. Len(c)
  /\ \A t \in Tasks : ts[t].kind = "store" => ts[t].block # b

(* A mapping leads to settled blocks that hold its data.                   *)
Good(m, c, ts) ==
  /\ m \in Mapping
  /\ \A o \in Offsets : m[o] # None => Settled(m[o].block, c, ts) /\ c[m[o].block] = m[o].data

(* What a coroutine stores is its own block and not on disk; what a        *)
(* deletion iterates over is good and what it removes is settled.          *)
StoreOK(x, c, dk) ==
  x.kind = "store" => x.block \in 1 .. Len(c) /\ x.block \notin dk /\ c[x.block] = x.data
DeleteOK(x, c, ts) ==
  x.kind = "delete" => /\ x.todo \subseteq x.mapped
                       /\ x.old # None => Good(x.old, c, ts)
                       /\ x.unlink # None => Settled(x.unlink, c, ts)

(* An entry check_duplicate can find: on disk, of its data, not going.     *)
EntryOK(d, e, c, dk, ts) ==
  e # None => /\ e.block \in dk /\ c[e.block] = d
              /\ \A t \in Tasks : ts[t].kind = "delete" => ts[t].unlink # e.block

MapsGood == /\ \A v \in VolIds : Good(vols[v].blocks, content, tasks)
            /\ \A s \in SnapIds : Good(snaps[s].blocks, content, tasks)
StoresGood == \A t \in Tasks : StoreOK(tasks[t], content, disk)
DeletesGood == \A t \in Tasks : DeleteOK(tasks[t], content, tasks)
StoresApart ==
  \A t, u \in Tasks : tasks[t].kind = "store" /\ tasks[u].kind = "store" /\ t # u
                        => tasks[t].block # tasks[u].block
TableGood == \A d \in Data \ Patterns : EntryOK(d, table[Raw(d)], content, disk, tasks)
NoEncoded == \A d \in Patterns : table[Enc(d)] = None

(* The inductive invariant.                                                *)
Sound == Typed /\ MapsGood /\ StoresGood /\ DeletesGood /\ StoresApart /\ TableGood /\ NoEncoded

-----------------------------------------------------------------------------
(* Settled blocks stay settled and keep their content.                     *)
Keeps(c, c2, ts, ts2) ==
  \A b : Settled(b, c, ts) => Settled(b, c2, ts2) /\ c2[b] = c[b]

(* Mappings stay good as long as settled blocks stay settled.              *)
LEMMA GoodKept ==
  \A m, c, c2, ts, ts2 : Keeps(c, c2, ts, ts2) /\ Good(m, c, ts) => Good(m, c2, ts2)
BY DEF Keeps, Good

(* So does what a deletion still has to do.                                *)
LEMMA DeleteKept ==
  \A x, c, c2, ts, ts2 : Keeps(c, c2, ts, ts2) /\ DeleteOK(x, c, ts) => DeleteOK(x, c2, ts2)
BY GoodKept DEF Keeps, DeleteOK

(* Coroutines that stop storing, or start anything else, keep them.        *)
LEMMA NoNewStore ==
  \A c, ts, ts2 : (\A t \in Tasks : ts2[t].kind = "store" => ts2[t] = ts[t])
                    => Keeps(c, c, ts, ts2)
BY DEF Keeps, Settled

(* An empty mapping is good.                                               *)
LEMMA EmptyGood == \A c, ts : Good(Unmapped, c, ts)
BY DEF Good, Unmapped, Mapping

(* The kind of a coroutine says which record it is.                        *)
LEMMA Kinds ==
  ASSUME NEW x \in TaskRecord
  PROVE  /\ x.kind = "store" => x \in StoreTask
         /\ x.kind = "delete" => x \in DeleteTask
         /\ x = Idle => x.kind = "idle"
BY DEF TaskRecord, StoreTask, DeleteTask, Idle

(* A coroutine is idle, stores or deletes.                                 *)
LEMMA KindOf ==
  ASSUME NEW x \in TaskRecord
  PROVE  x.kind # "idle" => x.kind \in {"store", "delete"}
BY DEF TaskRecord, StoreTask, DeleteTask, Idle

(* The kind of the idle coroutine.                                         *)
LEMMA IdleKind == Idle.kind = "idle"
BY DEF Idle

-----------------------------------------------------------------------------
(* Steps that touch neither the table nor the disk: mappings are copied or *)
(* dropped, coroutines end, and deletions start or go on.                  *)
CalmTask(x, x0, c, ts) ==
  \/ x = x0
  \/ x = Idle
  \/ /\ x.kind = "delete" /\ DeleteOK(x, c, ts)
     /\ x.unlink # None => x0.kind = "delete" /\ x.unlink = x0.unlink

CalmStep ==
  /\ UNCHANGED <<content, disk, table>>
  /\ vols' \in [VolIds -> Holder] /\ snaps' \in [SnapIds -> Holder]
  /\ tasks' \in [Tasks -> TaskRecord]
  /\ running' \in Tasks => tasks'[running'].kind = "delete"
  /\ \A v \in VolIds : Good(vols'[v].blocks, content, tasks)
  /\ \A s \in SnapIds : Good(snaps'[s].blocks, content, tasks)
  /\ \A t \in Tasks : CalmTask(tasks'[t], tasks[t], content, tasks)

(* A calm step, one without a new block or reference, keeps Sound.         *)
LEMMA CalmKeepsSound ==
  ASSUME Sound, CalmStep
  PROVE  Sound'
<1>1. Typed'
  BY DEF Typed, Sound, CalmStep
<1>2. ASSUME NEW t \in Tasks
      PROVE  tasks'[t].kind = "store" => tasks'[t] = tasks[t]
  BY Kinds DEF CalmStep, CalmTask, Idle
<1>3. Keeps(content, content', tasks, tasks')
  BY <1>2, NoNewStore DEF CalmStep
<1>4. /\ \A v \in VolIds : Good(vols'[v].blocks, content', tasks')
      /\ \A s \in SnapIds : Good(snaps'[s].blocks, content', tasks')
  BY <1>3, GoodKept DEF CalmStep
<1>5. ASSUME NEW t \in Tasks
      PROVE  StoreOK(tasks'[t], content', disk')
  BY <1>2 DEF Sound, StoresGood, StoreOK, CalmStep
<1>6. ASSUME NEW t \in Tasks
      PROVE  DeleteOK(tasks'[t], content', tasks')
  <2>1. DeleteOK(tasks'[t], content, tasks)
    <3>1. CASE tasks'[t] = tasks[t]
      BY <3>1 DEF Sound, DeletesGood
    <3>2. CASE tasks'[t] = Idle
      BY <3>2 DEF Idle, DeleteOK
    <3> QED BY <3>1, <3>2 DEF CalmStep, CalmTask
  <2> QED BY <2>1, <1>3, DeleteKept
<1>7. \A t, u \in Tasks : tasks'[t].kind = "store" /\ tasks'[u].kind = "store" /\ t # u
                            => tasks'[t].block # tasks'[u].block
  BY <1>2 DEF Sound, StoresApart
<1>8. ASSUME NEW d \in Data \ Patterns, NEW e, e = table[Raw(d)]
      PROVE  EntryOK(d, e, content', disk', tasks')
  <2> SUFFICES ASSUME e # None
               PROVE  /\ e.block \in disk' /\ content'[e.block] = d
                      /\ \A t \in Tasks : tasks'[t].kind = "delete" => tasks'[t].unlink # e.block
    BY DEF EntryOK
  <2>1. /\ e.block \in disk /\ content[e.block] = d
        /\ \A t \in Tasks : tasks[t].kind = "delete" => tasks[t].unlink # e.block
    BY <1>8 DEF Sound, TableGood, EntryOK
  <2>2. e.block # None
    BY <2>1, ControllerAssumption DEF Sound, Typed
  <2>3. ASSUME NEW t \in Tasks, tasks'[t].kind = "delete"
        PROVE  tasks'[t].unlink # e.block
    BY <2>1, <2>2, <2>3 DEF CalmStep, CalmTask, Idle
  <2> QED BY <2>1, <2>3 DEF CalmStep
<1>9. \A d \in Data \ Patterns : EntryOK(d, table'[Raw(d)], content', disk', tasks')
  BY <1>8 DEF CalmStep
<1>10. \A d \in Patterns : table'[Enc(d)] = None
  BY DEF Sound, NoEncoded, CalmStep
<1> QED BY <1>1, <1>4, <1>5, <1>6, <1>7, <1>9, <1>10
        DEF Sound, MapsGood, StoresGood, DeletesGood, StoresApart, TableGood, NoEncoded

(* A step that gives one volume or one snapshot a good mapping.            *)
LEMMA CalmVolume ==
  ASSUME Sound, NEW v \in VolIds, NEW r \in Holder, Good(r.blocks, content, tasks),
         vols' = [vols EXCEPT ![v] = r],
         UNCHANGED <<content, disk, table, snaps, tasks, running>>
  PROVE  CalmStep
BY DEF CalmStep, CalmTask, Sound, MapsGood, Typed

(* A step that gives one snapshot good mappings is calm.                   *)
LEMMA CalmSnapshot ==
  ASSUME Sound, NEW s \in SnapIds, NEW r \in Holder, Good(r.blocks, content, tasks),
         snaps' = [snaps EXCEPT ![s] = r],
         UNCHANGED <<content, disk, table, vols, tasks, running>>
  PROVE  CalmStep
BY DEF CalmStep, CalmTask, Sound, MapsGood, Typed

(* A step that gives one coroutine another calm state.                     *)
LEMMA CalmCoroutine ==
  ASSUME Sound, NEW t \in Tasks, NEW x \in TaskRecord,
         CalmTask(x, tasks[t], content, tasks),
         tasks' = [tasks EXCEPT ![t] = x],
         running' \in Tasks => running' = t /\ x.kind = "delete",
         UNCHANGED <<content, disk, table, vols, snaps>>
  PROVE  CalmStep
BY DEF CalmStep, CalmTask, Sound, MapsGood, Typed

(* A coroutine that ends is calm.                                          *)
LEMMA IdleCalm == /\ Idle \in TaskRecord
                  /\ \A x0, c, ts : CalmTask(Idle, x0, c, ts)
BY DEF TaskRecord, CalmTask

(* create_volume is calm.                                                  *)
LEMMA CreateVolumeCalm ==
  ASSUME Sound, NEW v \in VolIds, CreateVolume(v)
  PROVE  CalmStep
<1> DEFINE r == [vols[v] EXCEPT !.st = "live"]
<1>1. vols[v] \in Holder /\ Good(vols[v].blocks, content, tasks)
  BY DEF Sound, MapsGood, Typed
<1>2. r \in Holder /\ r.blocks = vols[v].blocks
  BY <1>1 DEF Holder
<1>3. vols' = [vols EXCEPT ![v] = r]
  BY DEF CreateVolume
<1> HIDE DEF r
<1> QED BY <1>1, <1>2, <1>3, CalmVolume, ZenonT(60) DEF CreateVolume

(* delete_snapshot is calm: it releases no block.                          *)
LEMMA DropCalm ==
  ASSUME Sound, NEW s \in SnapIds, DeleteSnapshot(s)
  PROVE  CalmStep
<1> DEFINE r == [st |-> "gone", blocks |-> Unmapped]
<1>1. r \in Holder /\ Good(r.blocks, content, tasks)
  BY EmptyGood, ZenonT(60) DEF Holder, Good
<1>2. snaps' = [snaps EXCEPT ![s] = r]
  BY DEF DeleteSnapshot
<1> HIDE DEF r
<1> QED BY <1>1, <1>2, CalmSnapshot, ZenonT(60) DEF DeleteSnapshot

(* create_snapshot and restore to a new volume copy good mappings.         *)
LEMMA CopiesCalm ==
  ASSUME Sound, NEW v \in VolIds, NEW s \in SnapIds, CreateSnapshot(v, s) \/ RestoreNew(s, v)
  PROVE  CalmStep
<1>1. /\ vols[v] \in Holder /\ Good(vols[v].blocks, content, tasks)
      /\ snaps[s] \in Holder /\ Good(snaps[s].blocks, content, tasks)
  BY DEF Sound, MapsGood, Typed
<1>2. CASE CreateSnapshot(v, s)
  BY <1>1, <1>2, CalmSnapshot, ZenonT(60) DEF CreateSnapshot
<1>3. CASE RestoreNew(s, v)
  BY <1>1, <1>3, CalmVolume, ZenonT(60) DEF RestoreNew
<1> QED BY <1>2, <1>3

(* The mapping a deletion goes over is good, and stays good when a restore *)
(* or another deletion takes it away from the volume.                      *)
LEMMA IteratedGood ==
  ASSUME Sound, NEW t \in Tasks, tasks[t].kind = "delete"
  PROVE  Good(Iterated(t), content, tasks)
<1>1. tasks[t] \in DeleteTask /\ DeleteOK(tasks[t], content, tasks)
  BY Kinds DEF Sound, DeletesGood, Typed
<1>2. tasks[t].vol \in VolIds
  BY <1>1 DEF DeleteTask
<1> QED BY <1>1, <1>2 DEF Iterated, DeleteOK, Sound, MapsGood

(* A deletion that loses its dict to a restore keeps what it iterates.     *)
LEMMA DetachedCalm ==
  ASSUME Sound, NEW v \in VolIds, NEW t \in Tasks
  PROVE  /\ Detached(v, t) \in TaskRecord
         /\ Detached(v, t).kind = tasks[t].kind
         /\ CalmTask(Detached(v, t), tasks[t], content, tasks)
<1>1. tasks[t] \in TaskRecord
  BY DEF Sound, Typed
<1>2. CASE ~(tasks[t].kind = "delete" /\ tasks[t].vol = v)
  BY <1>1, <1>2 DEF Detached, CalmTask
<1>3. CASE tasks[t].kind = "delete" /\ tasks[t].vol = v
  <2>1. tasks[t] \in DeleteTask /\ DeleteOK(tasks[t], content, tasks)
    BY <1>1, <1>3, Kinds DEF Sound, DeletesGood
  <2>2. Good(Iterated(t), content, tasks) /\ Iterated(t) \in Mapping
    BY <1>3, IteratedGood DEF Good
  <2> DEFINE x == [tasks[t] EXCEPT !.old = Iterated(t)]
  <2>3. x \in DeleteTask
    BY <2>1, <2>2 DEF DeleteTask
  <2>4. /\ x.kind = "delete" /\ x.old = Iterated(t) /\ x.unlink = tasks[t].unlink
        /\ x.todo = tasks[t].todo /\ x.mapped = tasks[t].mapped
    BY <1>3, <2>1 DEF DeleteTask
  <2> HIDE DEF x
  <2>5. DeleteOK(x, content, tasks)
    BY <1>3, <2>1, <2>2, <2>4 DEF DeleteOK
  <2>6. CalmTask(x, tasks[t], content, tasks)
    BY <1>3, <2>4, <2>5 DEF CalmTask
  <2> QED BY <1>3, <2>3, <2>4, <2>6 DEF Detached, TaskRecord, x
<1> QED BY <1>2, <1>3

(* restore_snapshot into a volume is calm, also during its deletion.       *)
LEMMA RestoreIntoCalm ==
  ASSUME Sound, NEW s \in SnapIds, NEW v \in VolIds, RestoreInto(s, v)
  PROVE  CalmStep
<1> DEFINE r == [vols[v] EXCEPT !.blocks = snaps[s].blocks]
<1>1. vols[v] \in Holder /\ snaps[s] \in Holder /\ Good(snaps[s].blocks, content, tasks)
  BY DEF Sound, MapsGood, Typed
<1>2. r \in Holder /\ r.blocks = snaps[s].blocks
  BY <1>1 DEF Holder
<1>3. vols' = [vols EXCEPT ![v] = r]
  BY DEF RestoreInto
<1> HIDE DEF r
<1>4. /\ vols' \in [VolIds -> Holder]
      /\ \A w \in VolIds : Good(vols'[w].blocks, content, tasks)
  BY <1>1, <1>2, <1>3 DEF Sound, MapsGood, Typed
<1>5. /\ tasks' \in [Tasks -> TaskRecord]
      /\ \A t \in Tasks : CalmTask(tasks'[t], tasks[t], content, tasks)
      /\ \A t \in Tasks : tasks'[t].kind = tasks[t].kind
  BY DetachedCalm DEF RestoreInto
<1> QED BY <1>4, <1>5 DEF CalmStep, RestoreInto, Sound, MapsGood, Typed

(* A coroutine that ends with an exception.                                *)
LEMMA FailuresCalm ==
  ASSUME Sound, NEW t \in Tasks, WriteFails(t) \/ DeleteRaises(t)
  PROVE  CalmStep
<1>1. /\ tasks' = [tasks EXCEPT ![t] = Idle]
      /\ UNCHANGED <<content, disk, table, vols, snaps>>
  BY DEF WriteFails, DeleteRaises
<1>2. running' = None
  BY DEF WriteFails, DeleteRaises, IODone
<1> QED BY <1>1, <1>2, IdleCalm, CalmCoroutine, ControllerAssumption, ZenonT(60)

(* delete_volume begins calmly, with all offsets to do.                    *)
LEMMA DeleteStartCalm ==
  ASSUME Sound, NEW t \in Tasks, NEW v \in VolIds, DeleteStart(t, v)
  PROVE  CalmStep
<1> DEFINE m == Mapped(vols[v].blocks)
           x == [kind |-> "delete", vol |-> v, mapped |-> m, todo |-> m,
                 old |-> None, unlink |-> None]
<1>1. m \subseteq Offsets
  BY DEF Mapped
<1>2. x \in DeleteTask
  BY <1>1 DEF DeleteTask
<1>3. DeleteOK(x, content, tasks) /\ x.kind = "delete" /\ x.unlink = None
  BY DEF DeleteOK
<1>4. tasks' = [tasks EXCEPT ![t] = x]
  BY DEF DeleteStart
<1> HIDE DEF x
<1>5. x \in TaskRecord /\ CalmTask(x, tasks[t], content, tasks)
  BY <1>2, <1>3 DEF TaskRecord, CalmTask
<1>6. running' = t /\ UNCHANGED <<content, disk, table, vols, snaps>>
  BY DEF DeleteStart
<1> QED BY <1>3, <1>4, <1>5, <1>6, CalmCoroutine, ZenonT(60)

(* delete_volume ends calmly, with the volume gone.                        *)
LEMMA DeleteFinishCalm ==
  ASSUME Sound, NEW t \in Tasks, DeleteFinish(t)
  PROVE  CalmStep
<1> DEFINE v == tasks[t].vol
           r == [st |-> "gone", blocks |-> Unmapped]
<1>1. tasks[t] \in DeleteTask
  BY Kinds DEF DeleteFinish, Sound, Typed
<1>2. v \in VolIds
  BY <1>1 DEF DeleteTask
<1>3. r \in Holder /\ Good(r.blocks, content, tasks)
  BY EmptyGood, ZenonT(60) DEF Holder, Good
<1>4. vols' = [vols EXCEPT ![v] = r]
  BY DEF DeleteFinish
<1>5. tasks' = [u \in Tasks |-> IF u = t THEN Idle ELSE Detached(v, u)]
  BY DEF DeleteFinish
<1> HIDE DEF r, v
<1>6. /\ vols' \in [VolIds -> Holder]
      /\ \A w \in VolIds : Good(vols'[w].blocks, content, tasks)
  BY <1>2, <1>3, <1>4 DEF Sound, MapsGood, Typed
<1>7. /\ tasks' \in [Tasks -> TaskRecord]
      /\ \A u \in Tasks : CalmTask(tasks'[u], tasks[u], content, tasks)
  BY <1>2, <1>5, DetachedCalm, IdleCalm
<1> QED BY <1>6, <1>7, ControllerAssumption
        DEF CalmStep, DeleteFinish, Sound, MapsGood, Typed

-----------------------------------------------------------------------------
(* Fingerprints tell data apart, and encoded data from plain data.         *)
LEMMA Fingerprints ==
  /\ \A d \in Data : Raw(d) \in Fps /\ Fingerprint(d) \in Fps
  /\ \A d \in Patterns : Enc(d) \in Fps
  /\ \A d, e : Raw(d) = Raw(e) => d = e
  /\ \A d, e : Raw(d) # Enc(e)
BY ControllerAssumption DEF Raw, Enc, Fps, Fingerprint

(* VolumeManager.write_block with a block that holds the data keeps every  *)
(* mapping good.                                                           *)
LEMMA RecordGood ==
  ASSUME Sound, NEW v \in VolIds, NEW o \in Offsets, NEW b \in BlockIds, NEW d \in Data,
         RecordBlock(v, o, b, d), Settled(b, content', tasks'), content'[b] = d,
         Keeps(content, content', tasks, tasks')
  PROVE  /\ vols' \in [VolIds -> Holder]
         /\ \A w \in VolIds : Good(vols'[w].blocks, content', tasks')
<1>1. /\ vols \in [VolIds -> Holder]
      /\ \A w \in VolIds : Good(vols[w].blocks, content', tasks')
  BY GoodKept DEF Sound, MapsGood, Typed
<1>2. CASE vols' = vols
  BY <1>1, <1>2
<1>3. CASE vols' = [vols EXCEPT ![v].blocks[o] = [block |-> b, data |-> d]]
  <2> DEFINE m == [vols[v].blocks EXCEPT ![o] = [block |-> b, data |-> d]]
             r == [vols[v] EXCEPT !.blocks = m]
  <2>1. vols' = [vols EXCEPT ![v] = r]
    BY <1>3
  <2>2. vols[v] \in Holder /\ vols[v].blocks \in Mapping /\ Good(vols[v].blocks, content', tasks')
    BY <1>1 DEF Holder
  <2>3. m \in Mapping
    BY <2>2 DEF Mapping
  <2>4. m[o] = [block |-> b, data |-> d] /\ \A p \in Offsets : p # o => m[p] = vols[v].blocks[p]
    BY <2>2 DEF Mapping
  <2> HIDE DEF m
  <2>5. Good(m, content', tasks')
    BY <2>2, <2>3, <2>4 DEF Good
  <2>6. r \in Holder /\ r.blocks = m
    BY <2>2, <2>3 DEF Holder
  <2> HIDE DEF r
  <2> QED BY <1>1, <2>1, <2>5, <2>6
<1> QED BY <1>2, <1>3 DEF RecordBlock

(* write of data that is known takes one more reference.                   *)
LEMMA WriteDuplicateSound ==
  ASSUME Sound, NEW v \in VolIds, NEW o \in Offsets, NEW d \in Data, WriteDuplicate(v, o, d)
  PROVE  Sound'
<1> DEFINE e == table[Raw(d)]
           e2 == [e EXCEPT !.ref = @ + 1]
<1>1. d \notin Patterns /\ Fingerprint(d) = Raw(d)
  BY DEF WriteDuplicate, Fingerprint, Sound, NoEncoded
<1>2. e \in Entry /\ e # None
  BY <1>1, Fingerprints DEF WriteDuplicate, Sound, Typed
<1>3. EntryOK(d, e, content, disk, tasks)
  BY <1>1 DEF Sound, TableGood
<1>4. e2 \in Entry /\ e2.block = e.block
  BY <1>2 DEF Entry
<1>5. table' = [table EXCEPT ![Raw(d)] = e2]
  BY <1>1, <1>2 DEF WriteDuplicate, Register
<1>6. RecordBlock(v, o, e.block, d) /\ UNCHANGED <<content, disk, snaps, tasks, running>>
  BY <1>1 DEF WriteDuplicate
<1>7. e.block \in disk /\ content[e.block] = d /\ e.block \in BlockIds
  BY <1>2, <1>3 DEF EntryOK, Entry
<1> HIDE DEF e, e2
<1>8. Settled(e.block, content, tasks)
  BY <1>7, ZenonT(60) DEF Settled, Sound, StoresGood, Typed, StoreOK
<1>9. /\ vols' \in [VolIds -> Holder]
      /\ \A w \in VolIds : Good(vols'[w].blocks, content', tasks')
  BY <1>6, <1>7, <1>8, RecordGood DEF Keeps
<1>10. /\ table' \in [Fps -> Entry \cup {None}]
       /\ \A f \in Fps : f # Raw(d) => table'[f] = table[f]
       /\ table'[Raw(d)] = e2
  BY <1>4, <1>5, Fingerprints DEF Sound, Typed
<1>11. EntryOK(d, e2, content, disk, tasks)
  BY <1>2, <1>3, <1>4 DEF EntryOK
<1>12. \A x \in Data \ Patterns : EntryOK(x, table'[Raw(x)], content, disk, tasks)
  BY <1>10, <1>11, Fingerprints DEF Sound, TableGood
<1>13. \A x \in Patterns : table'[Enc(x)] = None
  BY <1>10, Fingerprints, SMT, SMTT(60) DEF Sound, NoEncoded
<1> QED BY <1>6, <1>9, <1>10, <1>12, <1>13
        DEF Sound, MapsGood, StoresGood, DeletesGood, StoresApart, TableGood, NoEncoded, Typed

(* write of new data takes a fresh block and suspends.                     *)
LEMMA WriteNewSound ==
  ASSUME Sound, NEW t \in Tasks, NEW v \in VolIds, NEW o \in Offsets, NEW d \in Data,
         WriteNew(t, v, o, d)
  PROVE  Sound'
<1> DEFINE b == Len(content) + 1
           x == [kind |-> "store", vol |-> v, off |-> o, data |-> d, block |-> b]
<1>1. content \in Seq(Data) /\ Len(content) \in Nat /\ disk \subseteq 1 .. Len(content)
  BY DEF Sound, Typed
<1>2. content' = Append(content, d) /\ Len(content) < MaxBlocks
  BY DEF WriteNew
<1>3. /\ content' \in Seq(Data) /\ Len(content') = Len(content) + 1
      /\ Len(content') <= MaxBlocks
      /\ \A c \in 1 .. Len(content) : content'[c] = content[c]
      /\ content'[b] = d
  BY <1>1, <1>2, ControllerAssumption
<1>4. b \in BlockIds /\ b \notin 1 .. Len(content) /\ b \in 1 .. Len(content')
  BY <1>1, <1>2, <1>3, ControllerAssumption DEF BlockIds
<1>5. tasks' = [tasks EXCEPT ![t] = x]
  BY DEF WriteNew
<1>6. /\ x \in TaskRecord /\ x.kind = "store" /\ x.block = b /\ x.data = d
  BY <1>4 DEF TaskRecord, StoreTask
<1> HIDE DEF x, b
<1>7. /\ tasks' \in [Tasks -> TaskRecord] /\ tasks'[t] = x
      /\ \A u \in Tasks : u # t => tasks'[u] = tasks[u]
  BY <1>5, <1>6 DEF Sound, Typed
<1>8. Keeps(content, content', tasks, tasks')
  BY <1>1, <1>3, <1>4, <1>6, <1>7 DEF Keeps, Settled
<1>9. UNCHANGED <<disk, table, vols, snaps>> /\ running' = None
  BY DEF WriteNew, Usable
<1>10. Typed'
  BY <1>1, <1>3, <1>7, <1>9, ControllerAssumption DEF Sound, Typed
<1>11. /\ \A w \in VolIds : Good(vols'[w].blocks, content', tasks')
       /\ \A s \in SnapIds : Good(snaps'[s].blocks, content', tasks')
  BY <1>8, <1>9, GoodKept DEF Sound, MapsGood
<1>12. \A u \in Tasks : StoreOK(tasks'[u], content', disk')
  BY <1>1, <1>3, <1>4, <1>6, <1>7, <1>9 DEF Sound, StoresGood, StoreOK
<1>13. \A u \in Tasks : DeleteOK(tasks'[u], content', tasks')
  <2>1. DeleteOK(x, content', tasks')
    BY <1>6 DEF DeleteOK
  <2> QED BY <2>1, <1>7, <1>8, DeleteKept DEF Sound, DeletesGood
<1>14. \A u, w \in Tasks : tasks'[u].kind = "store" /\ tasks'[w].kind = "store" /\ u # w
                             => tasks'[u].block # tasks'[w].block
  BY <1>4, <1>6, <1>7 DEF Sound, StoresGood, StoresApart, StoreOK
<1>15. \A y \in Data \ Patterns : EntryOK(y, table'[Raw(y)], content', disk', tasks')
  BY <1>1, <1>3, <1>6, <1>7, <1>9, SMT, SMTT(60) DEF Sound, TableGood, EntryOK
<1> QED BY <1>9, <1>10, <1>11, <1>12, <1>13, <1>14, <1>15
        DEF Sound, MapsGood, StoresGood, DeletesGood, StoresApart, TableGood, NoEncoded

(* The block is on disk before the table leads to it.                      *)
LEMMA WriteStoredSound ==
  ASSUME Sound, NEW t \in Tasks, WriteStored(t)
  PROVE  Sound'
<1> DEFINE b == tasks[t].block
           d == tasks[t].data
           e == table[Raw(d)]
           e2 == IF e = None THEN [block |-> b, ref |-> 1] ELSE [e EXCEPT !.ref = @ + 1]
<1>1. tasks[t].kind = "store" /\ tasks[t] \in StoreTask
  BY Kinds DEF WriteStored, Sound, Typed
<1>2. tasks[t].vol \in VolIds /\ tasks[t].off \in Offsets /\ b \in BlockIds /\ d \in Data
  BY <1>1 DEF StoreTask
<1>3. b \in 1 .. Len(content) /\ b \notin disk /\ content[b] = d
  BY <1>1 DEF Sound, StoresGood, StoreOK
<1>4. /\ tasks' = [tasks EXCEPT ![t] = Idle]
      /\ disk' = disk \cup {b}
      /\ UNCHANGED <<content, snaps>> /\ running' = None
      /\ RecordBlock(tasks[t].vol, tasks[t].off, b, d)
  BY DEF WriteStored, IODone
<1>5. table' = [table EXCEPT ![Raw(d)] = e2]
  BY DEF WriteStored, Register
<1>6. e \in Entry \cup {None}
  BY <1>2, Fingerprints DEF Sound, Typed
<1>7. e2 \in Entry /\ e2.block = IF e = None THEN b ELSE e.block
  BY <1>2, <1>6 DEF Entry
<1> HIDE DEF e, e2, b, d
<1>8. /\ tasks' \in [Tasks -> TaskRecord] /\ tasks'[t] = Idle /\ Idle.kind = "idle"
      /\ \A u \in Tasks : u # t => tasks'[u] = tasks[u]
  BY <1>4, IdleCalm DEF Sound, Typed, Idle
<1>9. Keeps(content, content', tasks, tasks')
  BY <1>4, <1>8, NoNewStore, ZenonT(60)
<1>10. Settled(b, content', tasks')
  BY <1>1, <1>3, <1>4, <1>8 DEF Settled, Sound, StoresApart, b
<1>11. /\ vols' \in [VolIds -> Holder]
       /\ \A w \in VolIds : Good(vols'[w].blocks, content', tasks')
  BY <1>2, <1>3, <1>4, <1>9, <1>10, RecordGood, ZenonT(60)
<1>12. \A s \in SnapIds : Good(snaps'[s].blocks, content', tasks')
  BY <1>4, <1>9, GoodKept DEF Sound, MapsGood
<1>13. /\ table' \in [Fps -> Entry \cup {None}]
       /\ \A f \in Fps : f # Raw(d) => table'[f] = table[f]
       /\ table'[Raw(d)] = e2
  BY <1>2, <1>5, <1>7, Fingerprints DEF Sound, Typed
<1>14. Typed'
  BY <1>3, <1>4, <1>8, <1>11, <1>13, ControllerAssumption, ZenonT(60) DEF Sound, Typed
<1>15. \A u \in Tasks : StoreOK(tasks'[u], content', disk')
  BY <1>1, <1>4, <1>8 DEF Sound, StoresGood, StoresApart, StoreOK, b
<1>16. \A u \in Tasks : DeleteOK(tasks'[u], content', tasks')
  <2>1. DeleteOK(Idle, content', tasks')
    BY <1>8 DEF DeleteOK
  <2> QED BY <2>1, <1>8, <1>9, DeleteKept DEF Sound, DeletesGood
<1>17. \A u, w \in Tasks : tasks'[u].kind = "store" /\ tasks'[w].kind = "store" /\ u # w
                             => tasks'[u].block # tasks'[w].block
  BY <1>8 DEF Sound, StoresApart
<1>18. \A u \in Tasks : tasks'[u].kind = "delete" => tasks'[u].unlink # b
  <2> SUFFICES ASSUME NEW u \in Tasks, tasks'[u].kind = "delete" PROVE tasks'[u].unlink # b
    OBVIOUS
  <2>1. tasks'[u] = tasks[u] /\ DeleteOK(tasks[u], content, tasks)
    BY <1>8 DEF Sound, DeletesGood
  <2>2. tasks[u].unlink # None => Settled(tasks[u].unlink, content, tasks)
    BY <2>1 DEF DeleteOK
  <2>3. b # None
    BY <1>2, ControllerAssumption DEF BlockIds
  <2> QED BY <1>1, <2>1, <2>2, <2>3 DEF Settled, b
<1>19. ASSUME NEW y \in Data \ Patterns
       PROVE  EntryOK(y, table'[Raw(y)], content', disk', tasks')
  <2>1. EntryOK(y, table[Raw(y)], content', disk', tasks')
    BY <1>4, <1>8 DEF Sound, TableGood, EntryOK
  <2>2. CASE y # d
    BY <2>1, <2>2, <1>13, Fingerprints
  <2>3. CASE y = d /\ e # None
    BY <2>1, <2>3, <1>7, <1>13 DEF EntryOK, e
  <2>4. CASE y = d /\ e = None
    BY <2>4, <1>3, <1>4, <1>7, <1>13, <1>18 DEF EntryOK
  <2> QED BY <2>2, <2>3, <2>4
<1>20. \A y \in Patterns : table'[Enc(y)] = None
  BY <1>13, Fingerprints DEF Sound, NoEncoded
<1> QED BY <1>11, <1>12, <1>14, <1>15, <1>16, <1>17, <1>19, <1>20, ZenonT(60)
        DEF Sound, MapsGood, StoresGood, DeletesGood, StoresApart, TableGood, NoEncoded

(* A reference given up takes the entry with it if it was the last.        *)
LEMMA DeleteNextSound ==
  ASSUME Sound, NEW t \in Tasks, DeleteNext(t)
  PROVE  Sound'
<1>1. PICK o \in tasks[t].todo :
        LET task == tasks[t]
            vb == Iterated(t)[o]
            fp == Fingerprint(vb.data)
            suspends == RefsLeft(fp) = 0 /\ (vb.block \in disk \/ ioq # <<>>)
        IN /\ Dereference(fp)
           /\ tasks' = [tasks EXCEPT ![t] =
                          [task EXCEPT !.todo = task.todo \ {o},
                                       !.unlink = IF suspends THEN vb.block ELSE None]]
           /\ ioq' = IF suspends THEN Append(ioq, t) ELSE ioq
           /\ running' = IF suspends THEN None ELSE t
  BY ZenonT(60) DEF DeleteNext
<1> DEFINE vb == Iterated(t)[o]
           d == vb.data
           fp == Fingerprint(d)
           suspends == RefsLeft(fp) = 0 /\ (vb.block \in disk \/ ioq # <<>>)
           y == [tasks[t] EXCEPT !.todo = tasks[t].todo \ {o}]
           x == [y EXCEPT !.unlink = IF suspends THEN vb.block ELSE None]
<1>2. /\ tasks[t].kind = "delete" /\ tasks[t] \in DeleteTask
      /\ DeleteOK(tasks[t], content, tasks)
  BY Kinds DEF DeleteNext, Sound, DeletesGood, Typed
<1>3. o \in Offsets /\ vb # None
  <2>1. o \in tasks[t].mapped
    BY <1>2 DEF DeleteOK
  <2> QED BY <2>1 DEF DeleteNext, Mapped
<1>4. Good(Iterated(t), content, tasks)
  BY <1>2, IteratedGood
<1>5. /\ Settled(vb.block, content, tasks) /\ content[vb.block] = d
      /\ vb.block \in BlockIds /\ d \in Data
  BY <1>3, <1>4 DEF Good, Mapping
<1>6. /\ tasks' = [tasks EXCEPT ![t] = x]
      /\ running' \in Tasks => running' = t
      /\ Dereference(fp)
      /\ UNCHANGED <<content, disk, vols, snaps>>
  BY <1>1, ControllerAssumption, ZenonT(60) DEF DeleteNext
<1>7. fp \in Fps /\ (d \notin Patterns => fp = Raw(d))
  BY <1>5, Fingerprints DEF Fingerprint
<1>8. suspends => RefsLeft(fp) = 0
  OBVIOUS
<1>9. y \in DeleteTask /\ y.todo = tasks[t].todo \ {o} /\ y.kind = "delete"
      /\ y.mapped = tasks[t].mapped /\ y.old = tasks[t].old
  BY <1>2 DEF DeleteTask
<1> HIDE DEF suspends, y, fp, vb
<1>10. /\ x \in DeleteTask /\ x.todo = tasks[t].todo \ {o} /\ x.kind = "delete"
       /\ x.mapped = tasks[t].mapped /\ x.old = tasks[t].old
       /\ x.unlink = IF suspends THEN vb.block ELSE None
  BY <1>5, <1>9 DEF DeleteTask
<1> HIDE DEF x
<1>11. /\ tasks' \in [Tasks -> TaskRecord] /\ tasks'[t] = x
       /\ \A u \in Tasks : u # t => tasks'[u] = tasks[u]
  BY <1>6, <1>10 DEF Sound, Typed, TaskRecord
<1>12. Keeps(content, content', tasks, tasks')
  <2>1. \A u \in Tasks : tasks'[u].kind = "store" => tasks'[u] = tasks[u]
    BY <1>10, <1>11
  <2> QED BY <1>6, <2>1, NoNewStore, ZenonT(60)
<1>13. /\ table' \in [Fps -> Entry \cup {None}]
       /\ \A f \in Fps : table'[f] # None =>
            table[f] # None /\ table'[f].block = table[f].block
       /\ RefsLeft(fp) = 0 => table'[fp] = None
  <2> DEFINE e == table[fp]
             e2 == IF RefsLeft(fp) = 0 THEN None ELSE [e EXCEPT !.ref = @ - 1]
  <2>1. table \in [Fps -> Entry \cup {None}]
    BY DEF Sound, Typed
  <2>2. table' = [table EXCEPT ![fp] = e2]
    BY <1>6 DEF Dereference
  <2>3. CASE RefsLeft(fp) = 0
    BY <1>7, <2>1, <2>2, <2>3
  <2>4. CASE RefsLeft(fp) # 0
    <3>1. e # None /\ e \in Entry
      BY <1>7, <2>1, <2>4 DEF RefsLeft
    <3>2. e2 \in Entry /\ e2.block = e.block
      BY <2>4, <3>1 DEF Entry
    <3> HIDE DEF e2
    <3> QED BY <1>7, <2>1, <2>2, <2>4, <3>1, <3>2
  <2> QED BY <2>3, <2>4
<1>14. Typed'
  BY <1>6, <1>10, <1>11, <1>13 DEF Sound, Typed
<1>15. /\ \A w \in VolIds : Good(vols'[w].blocks, content', tasks')
       /\ \A s \in SnapIds : Good(snaps'[s].blocks, content', tasks')
  BY <1>6, <1>12, GoodKept, ZenonT(60) DEF Sound, MapsGood
<1>16. \A u \in Tasks : StoreOK(tasks'[u], content', disk')
  BY <1>6, <1>10, <1>11 DEF Sound, StoresGood, StoreOK
<1>17. \A u \in Tasks : DeleteOK(tasks'[u], content', tasks')
  <2>1. DeleteOK(x, content, tasks)
    BY <1>2, <1>5, <1>10 DEF DeleteOK
  <2> QED BY <2>1, <1>11, <1>12, DeleteKept, ZenonT(60) DEF Sound, DeletesGood
<1>18. \A u, w \in Tasks : tasks'[u].kind = "store" /\ tasks'[w].kind = "store" /\ u # w
                             => tasks'[u].block # tasks'[w].block
  BY <1>10, <1>11 DEF Sound, StoresApart
<1>19. ASSUME NEW z \in Data \ Patterns, table'[Raw(z)] # None
       PROVE  EntryOK(z, table'[Raw(z)], content', disk', tasks')
  <2> DEFINE b == table[Raw(z)].block
  <2>1. EntryOK(z, table[Raw(z)], content, disk, tasks)
    BY DEF Sound, TableGood
  <2>2. table[Raw(z)] # None /\ table'[Raw(z)].block = b
    BY <1>13, <1>19, Fingerprints
  <2>3. /\ b \in disk /\ content[b] = z
        /\ \A u \in Tasks : tasks[u].kind = "delete" => tasks[u].unlink # b
    BY <2>1, <2>2 DEF EntryOK
  <2>4. x.unlink # b
    <3>1. CASE suspends
      <4>1. d # z
        BY <1>7, <1>8, <1>13, <1>19, <3>1
      <4> QED BY <1>5, <1>10, <2>3, <3>1, <4>1
    <3>2. CASE ~suspends
      <4>1. /\ disk \subseteq 1 .. Len(content) /\ Len(content) <= MaxBlocks
            /\ Len(content) \in Nat
        BY DEF Sound, Typed
      <4> HIDE DEF b
      <4>2. b # None
        BY <2>3, <4>1, ControllerAssumption
      <4> QED BY <1>10, <3>2, <4>2
    <3> QED BY <3>1, <3>2
  <2> QED BY <1>6, <1>11, <2>2, <2>3, <2>4, SMT, SMTT(60) DEF EntryOK
<1>20. \A z \in Data \ Patterns : EntryOK(z, table'[Raw(z)], content', disk', tasks')
  BY <1>19 DEF EntryOK
<1>21. \A z \in Patterns : table'[Enc(z)] = None
  BY <1>13, Fingerprints DEF Sound, NoEncoded
<1> QED BY <1>14, <1>15, <1>16, <1>17, <1>18, <1>20, <1>21, ZenonT(60)
        DEF Sound, MapsGood, StoresGood, DeletesGood, StoresApart, TableGood, NoEncoded

(* Removing a file takes a block that the table does not lead to, whether  *)
(* the deletion goes on or ends there (as x says).                         *)
LEMMA FileGoneSound ==
  ASSUME Sound, NEW t \in Tasks, tasks[t].kind = "delete",
         NEW x \in TaskRecord, x.kind # "store", DeleteOK(x, content, tasks),
         x.kind = "delete" => x.unlink = None,
         tasks' = [tasks EXCEPT ![t] = x],
         running' \in Tasks => running' = t /\ x.kind = "delete",
         disk' \in {disk, disk \ {tasks[t].unlink}},
         UNCHANGED <<content, table, vols, snaps>>
  PROVE  Sound'
<1>4. /\ tasks' \in [Tasks -> TaskRecord] /\ tasks'[t] = x
      /\ \A u \in Tasks : u # t => tasks'[u] = tasks[u]
  BY DEF Sound, Typed
<1>. DEFINE Quiet == \A u \in Tasks : tasks'[u].kind = "store" => tasks'[u] = tasks[u]
<1>5. Quiet /\ Keeps(content, content', tasks, tasks')
  <2>1. Quiet
    BY <1>4, ZenonT(60)
  <2> QED BY <2>1, NoNewStore, ZenonT(60)
<1>6. Typed'
  <2>1. disk' \subseteq disk
    BY ZenonT(60)
  <2> QED BY <1>4, <2>1, ZenonT(60) DEF Sound, Typed
<1>7. /\ \A w \in VolIds : Good(vols'[w].blocks, content', tasks')
      /\ \A s \in SnapIds : Good(snaps'[s].blocks, content', tasks')
  BY <1>5, GoodKept, ZenonT(60) DEF Sound, MapsGood
<1>8. \A u \in Tasks : StoreOK(tasks'[u], content', disk')
  <2>1. disk' \subseteq disk
    BY ZenonT(60)
  <2> QED BY <1>5, <2>1, ZenonT(60) DEF Sound, StoresGood, StoreOK
<1>9. \A u \in Tasks : DeleteOK(tasks'[u], content', tasks')
  BY <1>4, <1>5, DeleteKept, ZenonT(60) DEF Sound, DeletesGood
<1>10. \A u, w \in Tasks : tasks'[u].kind = "store" /\ tasks'[w].kind = "store" /\ u # w
                             => tasks'[u].block # tasks'[w].block
  BY <1>5, ZenonT(60) DEF Sound, StoresApart
<1>11. ASSUME NEW z \in Data \ Patterns, table[Raw(z)] # None
       PROVE  EntryOK(z, table[Raw(z)], content', disk', tasks')
  <2>1. EntryOK(z, table[Raw(z)], content, disk, tasks)
    BY DEF Sound, TableGood
  <2>2. table[Raw(z)].block # None
    <3>1. table[Raw(z)].block \in disk
      BY <1>11, <2>1, ZenonT(60) DEF EntryOK
    <3>2. disk \subseteq 1 .. Len(content) /\ Len(content) \in Nat /\ Len(content) <= MaxBlocks
      BY DEF Sound, Typed
    <3>3. MaxBlocks \in Nat /\ None \notin 1 .. MaxBlocks
      BY ControllerAssumption, ZenonT(60)
    <3>4. table[Raw(z)].block \in 1 .. MaxBlocks
      <4> DEFINE b == table[Raw(z)].block
      <4>1. b \in 1 .. Len(content)
        BY <3>1, <3>2, ZenonT(60)
      <4> HIDE DEF b
      <4>2. b \in 1 .. MaxBlocks
        BY ONLY <3>2, <3>3, <4>1
      <4> QED BY <4>2, ZenonT(60) DEF b
    <3> QED BY <3>3, <3>4, ZenonT(60)
  <2>3. table[Raw(z)].block \in disk'
    <3>1. table[Raw(z)].block \in disk /\ table[Raw(z)].block # tasks[t].unlink
      BY <1>11, <2>1 DEF EntryOK
    <3>2. disk' = disk \/ disk' = disk \ {tasks[t].unlink}
      BY ZenonT(60)
    <3> QED BY <3>1, <3>2, ZenonT(60)
  <2>4. \A u \in Tasks : tasks'[u].kind = "delete" => tasks'[u].unlink # table[Raw(z)].block
    BY <1>4, <1>11, <2>1, <2>2, ZenonT(60) DEF EntryOK
  <2> QED BY <1>11, <2>1, <2>3, <2>4, ZenonT(60) DEF EntryOK
<1>12. \A z \in Data \ Patterns : EntryOK(z, table'[Raw(z)], content', disk', tasks')
  BY <1>11 DEF EntryOK
<1> QED BY <1>6, <1>7, <1>8, <1>9, <1>10, <1>12, ZenonT(60)
        DEF Sound, MapsGood, StoresGood, DeletesGood, StoresApart, TableGood, NoEncoded

(* delete_block removes the file, and the loop goes on.                    *)
LEMMA UnlinkSound ==
  ASSUME Sound, NEW t \in Tasks, Unlink(t)
  PROVE  Sound'
<1> DEFINE x == [tasks[t] EXCEPT !.unlink = None]
<1>1. /\ tasks[t].kind = "delete" /\ tasks[t] \in DeleteTask
      /\ DeleteOK(tasks[t], content, tasks)
  BY Kinds DEF Unlink, Sound, DeletesGood, Typed
<1>2. /\ x \in DeleteTask /\ x.kind = "delete" /\ x.unlink = None
      /\ x.todo = tasks[t].todo /\ x.mapped = tasks[t].mapped /\ x.old = tasks[t].old
  BY <1>1 DEF DeleteTask
<1>3. /\ tasks' = [tasks EXCEPT ![t] = x] /\ running' = t
      /\ disk' = disk \ {tasks[t].unlink}
      /\ UNCHANGED <<content, table, vols, snaps>>
  BY DEF Unlink
<1> HIDE DEF x
<1>4. x \in TaskRecord /\ x.kind # "store" /\ DeleteOK(x, content, tasks)
  BY <1>1, <1>2 DEF DeleteOK, TaskRecord
<1> QED BY <1>1, <1>2, <1>3, <1>4, FileGoneSound, ZenonT(60)

(* delete_block raises, and the deletion ends.                             *)
LEMMA UnlinkFailsSound ==
  ASSUME Sound, NEW t \in Tasks, UnlinkFails(t)
  PROVE  Sound'
<1>1. /\ tasks[t].kind = "delete" /\ tasks' = [tasks EXCEPT ![t] = Idle]
      /\ running' = None /\ disk' \in {disk, disk \ {tasks[t].unlink}}
      /\ UNCHANGED <<content, table, vols, snaps>>
  BY ZenonT(60) DEF UnlinkFails, IODone
<1>2. /\ Idle \in TaskRecord /\ Idle.kind # "store" /\ Idle.kind # "delete"
      /\ DeleteOK(Idle, content, tasks)
  BY IdleCalm, IdleKind DEF DeleteOK
<1>3. None \notin Tasks
  BY ControllerAssumption, ZenonT(60)
<1> QED BY <1>1, <1>2, <1>3, FileGoneSound, ZenonT(60)

-----------------------------------------------------------------------------
(* A step is calm or one of those that store, register or release.         *)
LEMMA NextCases ==
  ASSUME Sound, Next
  PROVE  \/ CalmStep
         \/ \E v \in VolIds, o \in Offsets, d \in Data :
              WriteDuplicate(v, o, d) \/ \E t \in Tasks : WriteNew(t, v, o, d)
         \/ \E t \in Tasks : WriteStored(t) \/ DeleteNext(t) \/ Unlink(t) \/ UnlinkFails(t)
<1>1. ASSUME NEW v \in VolIds, NEW w \in VolIds, CloneVolume(v, w)
      PROVE  CalmStep
  <2>1. vols[v] \in Holder /\ Good(vols[v].blocks, content, tasks)
    BY DEF Sound, MapsGood, Typed
  <2> QED BY <1>1, <2>1, CalmVolume, ZenonT(60) DEF CloneVolume
<1>2. ASSUME NEW s \in SnapIds, NEW v \in VolIds,
             CreateSnapshot(v, s) \/ RestoreNew(s, v) \/ RestoreInto(s, v)
      PROVE  CalmStep
  BY <1>2, CopiesCalm, RestoreIntoCalm
<1>3. ASSUME NEW t \in Tasks, TaskStep(t) \/ \E v \in VolIds : DeleteStart(t, v)
      PROVE  CalmStep \/ WriteStored(t) \/ DeleteNext(t) \/ Unlink(t) \/ UnlinkFails(t)
  BY <1>3, FailuresCalm, DeleteStartCalm, DeleteFinishCalm DEF TaskStep
<1> QED BY <1>1, <1>2, <1>3, DropCalm, CreateVolumeCalm DEF Next

(* Every step keeps Sound.                                                 *)
LEMMA NextSound ==
  ASSUME Sound, Next
  PROVE  Sound'
BY NextCases, CalmKeepsSound, WriteDuplicateSound, WriteNewSound, WriteStoredSound,
   DeleteNextSound, UnlinkSound, UnlinkFailsSound

(* Sound holds in every reachable state.                                   *)
THEOREM StateSound == Spec => []Sound
<1>1. Init => Sound
  <2> SUFFICES ASSUME Init
               PROVE  Sound
    BY ZenonT(60)
  <2>1. Unmapped \in Mapping /\ \A c, ts : Good(Unmapped, c, ts)
    BY EmptyGood DEF Good
  <2>2. content = <<>> /\ Len(content) = 0 /\ content \in Seq(Data) /\ disk = {}
    BY DEF Init
  <2>3. \A t \in Tasks : tasks[t] = Idle /\ tasks[t].kind = "idle"
    BY DEF Init, Idle
  <2>4. Typed
    BY <2>1, <2>2, ControllerAssumption DEF Init, Typed, Holder, TaskRecord
  <2>5. /\ \A v \in VolIds : Good(vols[v].blocks, content, tasks)
        /\ \A s \in SnapIds : Good(snaps[s].blocks, content, tasks)
    BY <2>1 DEF Init
  <2>6. \A d \in Data : table[Raw(d)] = None
    BY Fingerprints DEF Init
  <2>7. \A d \in Patterns : table[Enc(d)] = None
    BY Fingerprints DEF Init
  <2> QED BY <2>3, <2>4, <2>5, <2>6, <2>7
          DEF Sound, MapsGood, StoresGood, DeletesGood, StoresApart, TableGood, NoEncoded, StoreOK, DeleteOK, EntryOK
<1>2. Sound /\ [Next]_vars => Sound'
  <2>1. ASSUME Sound, UNCHANGED vars
        PROVE  Sound'
    BY <2>1
       DEF vars, Sound, MapsGood, StoresGood, DeletesGood, StoresApart, TableGood, NoEncoded, Typed
  <2> QED BY <2>1, NextSound
<1> QED BY <1>1, <1>2, PTL DEF Spec

(* A fingerprint that check_duplicate finds leads to a block that is on    *)
(* disk and that no suspended deletion is about to remove.                 *)
THEOREM TableStaysLive == Spec => []TableLive
<1>1. Sound => TableLive
  <2> SUFFICES ASSUME Sound, NEW d \in Data \ Patterns, table[Raw(d)] # None
               PROVE  table[Raw(d)].block \in disk \ Unlinking
    BY DEF TableLive
  <2>1. EntryOK(d, table[Raw(d)], content, disk, tasks)
    BY ZenonT(60) DEF Sound, TableGood
  <2> QED BY <2>1, ZenonT(60) DEF EntryOK, Unlinking
<1> QED BY <1>1, StateSound, PTL

(* The block recorded for an offset was stored for the data written there, *)
(* whatever was cloned, restored, deleted or written at the same time.     *)
THEOREM MappingsMatch == Spec => []ContentMatches
<1>1. Sound => ContentMatches
  BY DEF Sound, MapsGood, Good, ContentMatches
<1> QED BY <1>1, StateSound, PTL
-----------------------------------------------------------------------------
(* The full type invariant.  A hit takes a count to MaxRef at most; only   *)
(* register_block for a block just stored goes beyond, once for each block *)
(* that is settled.                                                        *)
SettledIn(c, ts) == {b \in 1 .. Len(c) : Settled(b, c, ts)}
RefBound(c, ts) == MaxRef + Cardinality(SettledIn(c, ts))

RefsBounded ==
  \A f \in Fps : table[f] # None => table[f].ref \in 1 .. RefBound(content, tasks)

(* At most MaxBlocks blocks are settled.                                   *)
LEMMA SettledCount ==
  ASSUME NEW c \in Seq(Data), Len(c) <= MaxBlocks, NEW ts
  PROVE  /\ IsFiniteSet(SettledIn(c, ts))
         /\ Cardinality(SettledIn(c, ts)) \in 0 .. MaxBlocks
         /\ RefBound(c, ts) \in MaxRef .. MaxRef + MaxBlocks
<1>1. Len(c) \in Nat /\ MaxBlocks \in Nat /\ MaxRef \in Nat
  BY ControllerAssumption
<1>2. IsFiniteSet(1 .. Len(c)) /\ Cardinality(1 .. Len(c)) = Len(c)
  <2>1. 1 \in Int /\ Len(c) \in Int
    BY <1>1
  <2>2. /\ IsFiniteSet(1 .. Len(c))
        /\ Cardinality(1 .. Len(c)) = IF 1 > Len(c) THEN 0 ELSE Len(c) - 1 + 1
    BY ONLY <2>1, FS_Interval, ZenonT(60)
  <2> QED BY <1>1, <2>2
<1>3. SettledIn(c, ts) \subseteq 1 .. Len(c)
  BY DEF SettledIn
<1>4. /\ IsFiniteSet(SettledIn(c, ts)) /\ Cardinality(SettledIn(c, ts)) \in Nat
      /\ Cardinality(SettledIn(c, ts)) <= Cardinality(1 .. Len(c))
  BY <1>2, <1>3, FS_Subset, FS_CardinalityType, ZenonT(60)
<1> QED BY <1>1, <1>2, <1>4 DEF RefBound

(* Settled blocks do not become fewer, and one that is settled in addition *)
(* counts.                                                                 *)
LEMMA SettledGrow ==
  ASSUME NEW c \in Seq(Data), NEW c2 \in Seq(Data), Len(c) <= MaxBlocks, Len(c2) <= MaxBlocks,
         NEW ts, NEW ts2, Keeps(c, c2, ts, ts2)
  PROVE  /\ RefBound(c, ts) <= RefBound(c2, ts2)
         /\ \A b : Settled(b, c2, ts2) /\ ~Settled(b, c, ts)
                     => RefBound(c, ts) + 1 <= RefBound(c2, ts2)
<1> DEFINE S == SettledIn(c, ts)
           S2 == SettledIn(c2, ts2)
<1>1. S \subseteq S2
  BY DEF SettledIn, Keeps, Settled
<1>2. /\ IsFiniteSet(S) /\ Cardinality(S) \in Nat
      /\ IsFiniteSet(S2) /\ Cardinality(S2) \in Nat
  BY SettledCount, FS_CardinalityType
<1>3. Cardinality(S) <= Cardinality(S2)
  BY <1>1, <1>2, FS_Subset
<1>4. ASSUME NEW b, Settled(b, c2, ts2), ~Settled(b, c, ts)
      PROVE  Cardinality(S) + 1 <= Cardinality(S2)
  <2>1. b \in S2 /\ b \notin S
    BY <1>4 DEF SettledIn, Settled
  <2>2. Cardinality(S) # Cardinality(S2)
    BY <1>1, <1>2, <2>1, FS_Subset, ZenonT(60)
  <2> QED BY <1>2, <1>3, <2>2
<1>5. MaxRef \in Nat
  BY ControllerAssumption, ZenonT(60)
<1>6. RefBound(c, ts) = MaxRef + Cardinality(S) /\ RefBound(c2, ts2) = MaxRef + Cardinality(S2)
  BY ZenonT(60) DEF RefBound
<1> HIDE DEF S, S2
<1>7. MaxRef + Cardinality(S) <= MaxRef + Cardinality(S2)
  BY ONLY <1>2, <1>3, <1>5
<1>8. Cardinality(S) + 1 <= Cardinality(S2)
        => (MaxRef + Cardinality(S)) + 1 <= MaxRef + Cardinality(S2)
  BY ONLY <1>2, <1>5
<1> QED BY <1>4, <1>6, <1>7, <1>8, ZenonT(60)

(* What every step does to counts and to settled blocks: a count that      *)
(* grows stays within MaxRef or comes with a block newly settled.          *)
CountStep ==
  /\ Keeps(content, content', tasks, tasks')
  /\ \A f \in Fps : table'[f] # None =>
       \/ table[f] # None /\ table'[f].ref <= table[f].ref /\ table'[f].ref >= 1
       \/ table'[f].ref \in 1 .. MaxRef
       \/ /\ table'[f].ref = IF table[f] = None THEN 1 ELSE table[f].ref + 1
          /\ \E b : Settled(b, content', tasks') /\ ~Settled(b, content, tasks)

(* Such steps keep the bound.                                              *)
LEMMA CountStepBounded ==
  ASSUME Sound, Sound', RefsBounded, CountStep
  PROVE  RefsBounded'
<1> SUFFICES ASSUME NEW f \in Fps, table'[f] # None
             PROVE  table'[f].ref \in 1 .. RefBound(content', tasks')
  BY DEF RefsBounded
<1>1. /\ content \in Seq(Data) /\ Len(content) <= MaxBlocks
      /\ content' \in Seq(Data) /\ Len(content') <= MaxBlocks
      /\ table' \in [Fps -> Entry \cup {None}]
  BY DEF Sound, Typed
<1>2. /\ RefBound(content, tasks) \in Nat /\ RefBound(content', tasks') \in Nat
      /\ MaxRef \in Nat /\ MaxRef <= RefBound(content', tasks')
  <2>1. /\ RefBound(content, tasks) \in MaxRef .. MaxRef + MaxBlocks
        /\ RefBound(content', tasks') \in MaxRef .. MaxRef + MaxBlocks
    BY <1>1, SettledCount, ZenonT(60)
  <2>2. MaxRef \in Nat /\ MaxBlocks \in Nat
    BY ControllerAssumption, ZenonT(60)
  <2> QED BY ONLY <2>1, <2>2
<1>3. /\ RefBound(content, tasks) <= RefBound(content', tasks')
      /\ \A b : Settled(b, content', tasks') /\ ~Settled(b, content, tasks)
                  => RefBound(content, tasks) + 1 <= RefBound(content', tasks')
  BY <1>1, SettledGrow DEF CountStep
<1>4. table'[f].ref \in Int
  BY <1>1 DEF Entry
<1>5. table[f] # None => table[f].ref \in 1 .. RefBound(content, tasks)
  BY DEF RefsBounded
<1> HIDE DEF RefBound
<1> QED BY <1>2, <1>3, <1>4, <1>5 DEF CountStep

(* Every step is one.                                                      *)
LEMMA NextCounts ==
  ASSUME Sound, Sound', RefsBounded, Next
  PROVE  CountStep
<1>0. /\ table \in [Fps -> Entry \cup {None}] /\ tasks \in [Tasks -> TaskRecord]
      /\ \A f \in Fps : table[f] # None => table[f].ref \in Int /\ table[f].ref >= 1
  <2>1. table \in [Fps -> Entry \cup {None}] /\ tasks \in [Tasks -> TaskRecord]
    BY ZenonT(60) DEF Sound, Typed
  <2> QED BY <2>1 DEF RefsBounded, Entry
<1>same. ASSUME NEW f \in Fps, table'[f] = table[f], table'[f] # None
          PROVE  table[f] # None /\ table'[f].ref <= table[f].ref /\ table'[f].ref >= 1
  <2>1. table[f] # None /\ table[f].ref \in Int /\ table[f].ref >= 1
    BY <1>0, <1>same, ZenonT(60)
  <2>2. table[f].ref <= table[f].ref
    BY ONLY <2>1
  <2> QED BY <1>same, <2>1, <2>2, ZenonT(60)
<1>1. CASE CalmStep
  <2>1. ASSUME NEW t \in Tasks
        PROVE  tasks'[t].kind = "store" => tasks'[t] = tasks[t]
    BY <1>1, Kinds DEF CalmStep, CalmTask, Idle
  <2>2. Keeps(content, content', tasks, tasks')
    BY <1>1, <2>1, NoNewStore DEF CalmStep
  <2> QED BY <1>same, <1>1, <2>2, ZenonT(60) DEF CountStep, CalmStep
<1>2. ASSUME NEW v \in VolIds, NEW o \in Offsets, NEW d \in Data, WriteDuplicate(v, o, d)
      PROVE  CountStep
  <2> DEFINE g == Fingerprint(d)
  <2>1. /\ table \in [Fps -> Entry \cup {None}]
        /\ \A f \in Fps : table[f] # None => table[f].ref \in Int /\ table[f].ref >= 1
    BY <1>0, ZenonT(60)
  <2>2. g \in Fps /\ table[g] \in Entry /\ table[g] # None /\ table[g].ref < MaxRef
    BY <1>2, <2>1, Fingerprints DEF WriteDuplicate
  <2>3. /\ table' = [table EXCEPT ![g] = [table[g] EXCEPT !.ref = @ + 1]]
        /\ content' = content /\ tasks' = tasks
    BY <1>2, <2>2 DEF WriteDuplicate, Register
  <2> HIDE DEF g
  <2>4. \A f \in Fps : f # g => table'[f] = table[f]
    BY <2>1, <2>3
  <2>5. table'[g].ref = table[g].ref + 1
    BY <2>1, <2>2, <2>3 DEF Entry
  <2>6. table'[g].ref \in 1 .. MaxRef
    BY <2>1, <2>2, <2>5, ControllerAssumption
  <2>7. Keeps(content, content', tasks, tasks')
    BY <2>3 DEF Keeps
  <2> QED BY <1>same, <2>4, <2>6, <2>7, ZenonT(60) DEF CountStep
<1>3. ASSUME NEW t \in Tasks, NEW v \in VolIds, NEW o \in Offsets, NEW d \in Data,
             WriteNew(t, v, o, d)
      PROVE  CountStep
  <2>1. /\ content' = Append(content, d) /\ content \in Seq(Data) /\ table' = table
        /\ tasks \in [Tasks -> TaskRecord]
        /\ tasks' = [tasks EXCEPT ![t] = [kind |-> "store", vol |-> v, off |-> o,
                                          data |-> d, block |-> Len(content) + 1]]
    BY <1>3, ZenonT(60) DEF WriteNew, Sound, Typed
  <2>2. /\ Len(content) \in Nat /\ Len(content') = Len(content) + 1
        /\ \A b \in 1 .. Len(content) : content'[b] = content[b]
    BY <2>1
  <2>3. /\ tasks'[t].block = Len(content) + 1
        /\ \A u \in Tasks : u # t => tasks'[u] = tasks[u]
    BY <2>1
  <2>4. Keeps(content, content', tasks, tasks')
    BY <2>2, <2>3 DEF Keeps, Settled
  <2> QED BY <1>same, <2>1, <2>4, ZenonT(60) DEF CountStep
<1>4. ASSUME NEW t \in Tasks, WriteStored(t)
      PROVE  CountStep
  <2> DEFINE d == tasks[t].data
             b == tasks[t].block
             g == Raw(d)
  <2>1. tasks[t].kind = "store" /\ tasks[t] \in StoreTask
    BY <1>4, Kinds, ZenonT(60) DEF WriteStored, Sound, Typed
  <2>2. d \in Data /\ g \in Fps /\ b \in 1 .. Len(content)
    BY <2>1, Fingerprints, ZenonT(60) DEF StoreTask, Sound, StoresGood, StoreOK
  <2>3. /\ table \in [Fps -> Entry \cup {None}] /\ tasks \in [Tasks -> TaskRecord]
        /\ \A f \in Fps : table[f] # None => table[f].ref \in Int /\ table[f].ref >= 1
    BY <1>0, ZenonT(60)
  <2>4. /\ tasks' = [tasks EXCEPT ![t] = Idle] /\ content' = content
        /\ table' = [table EXCEPT ![g] = IF table[g] = None THEN [block |-> b, ref |-> 1]
                                         ELSE [table[g] EXCEPT !.ref = @ + 1]]
    BY <1>4, ZenonT(60) DEF WriteStored, Register
  <2> HIDE DEF g
  <2>5. \A f \in Fps : f # g => table'[f] = table[f]
    BY <2>3, <2>4, ZenonT(60)
  <2>6. table'[g].ref = IF table[g] = None THEN 1 ELSE table[g].ref + 1
    BY <2>2, <2>3, <2>4, ZenonT(60) DEF Entry
  <2>7. /\ tasks'[t] = Idle /\ Idle.kind = "idle"
        /\ \A u \in Tasks : u # t => tasks'[u] = tasks[u]
    BY <2>3, <2>4, ZenonT(60) DEF Idle
  <2>8. Keeps(content, content', tasks, tasks')
    BY <2>4, <2>7, NoNewStore, ZenonT(60)
  <2>9. Settled(b, content', tasks') /\ ~Settled(b, content, tasks)
    <3>1. \A u \in Tasks : u # t /\ tasks[u].kind = "store" => tasks[u].block # b
      BY <2>1, ZenonT(60) DEF Sound, StoresApart
    <3> HIDE DEF b
    <3> QED BY <2>1, <2>2, <2>4, <2>7, <3>1, ZenonT(60) DEF Settled, b
  <2> HIDE DEF b
  <2> QED BY <1>same, <2>5, <2>6, <2>8, <2>9, ZenonT(60) DEF CountStep
<1>5. ASSUME NEW t \in Tasks, DeleteNext(t)
      PROVE  CountStep
  <2>1. PICK f \in Fps : Dereference(f)
    <3>1. PICK o \in tasks[t].todo : Dereference(Fingerprint(Iterated(t)[o].data))
      BY <1>5, ZenonT(60) DEF DeleteNext
    <3>2. tasks[t].kind = "delete" /\ DeleteOK(tasks[t], content, tasks)
      BY <1>5, ZenonT(60) DEF DeleteNext, Sound, DeletesGood, Typed
    <3>3. o \in Offsets /\ Iterated(t)[o] # None
      BY <1>5, <3>2, ZenonT(60) DEF DeleteOK, DeleteNext, Mapped
    <3>4. Iterated(t)[o].data \in Data
      BY <3>2, <3>3, IteratedGood, ZenonT(60) DEF Good, Mapping
    <3> QED BY <3>1, <3>4, Fingerprints, ZenonT(60)
  <2>2. /\ table \in [Fps -> Entry \cup {None}] /\ tasks \in [Tasks -> TaskRecord]
        /\ \A g \in Fps : table[g] # None => table[g].ref \in Int /\ table[g].ref >= 1
    BY <1>0, ZenonT(60)
  <2>3. \A g \in Fps : g # f => table'[g] = table[g]
    BY <2>1, <2>2, ZenonT(60) DEF Dereference
  <2>4. ASSUME table'[f] # None
        PROVE  table[f] # None /\ table'[f].ref <= table[f].ref /\ table'[f].ref >= 1
    <3>1. table' = [table EXCEPT ![f] = IF RefsLeft(f) = 0 THEN None
                                        ELSE [table[f] EXCEPT !.ref = @ - 1]]
      BY <2>1, ZenonT(60) DEF Dereference
    <3>2. RefsLeft(f) # 0 /\ table[f] # None /\ table[f] \in Entry
      BY <2>2, <2>4, <3>1, ZenonT(60) DEF RefsLeft
    <3>3. table'[f].ref = table[f].ref - 1 /\ table[f].ref - 1 # 0
      BY <2>2, <3>1, <3>2, ZenonT(60) DEF RefsLeft, Entry
    <3> QED BY <2>2, <3>2, <3>3
  <2>5. /\ content' = content
        /\ \A u \in Tasks : tasks'[u].kind = "store" => tasks'[u] = tasks[u]
    <3>1. PICK o \in tasks[t].todo, x \in BlockIds \cup {None} :
            tasks' = [tasks EXCEPT ![t] = [tasks[t] EXCEPT !.todo = tasks[t].todo \ {o},
                                                           !.unlink = x]]
      <4>1. tasks[t].kind = "delete" /\ tasks[t] \in DeleteTask /\ DeleteOK(tasks[t], content, tasks)
        BY <1>5, Kinds, ZenonT(60) DEF DeleteNext, Sound, DeletesGood, Typed
      <4>2. Good(Iterated(t), content, tasks)
        BY <4>1, IteratedGood, ZenonT(60)
      <4>3. \A o \in tasks[t].todo : o \in Offsets /\ Iterated(t)[o] # None
        BY <1>5, <4>1, ZenonT(60) DEF DeleteOK, DeleteNext, Mapped
      <4>4. \A o \in tasks[t].todo : Iterated(t)[o].block \in BlockIds
        BY <4>2, <4>3, ZenonT(60) DEF Good, Mapping
      <4> QED BY <1>5, <4>4, ZenonT(60) DEF DeleteNext
    <3>2. tasks[t] \in DeleteTask
      BY <1>5, Kinds, ZenonT(60) DEF DeleteNext, Sound, Typed
    <3>3. tasks'[t].kind = "delete"
      BY <2>2, <3>1, <3>2, ZenonT(60) DEF DeleteTask
    <3>4. \A u \in Tasks : u # t => tasks'[u] = tasks[u]
      BY <2>2, <3>1, ZenonT(60)
    <3> QED BY <1>5, <3>3, <3>4, ZenonT(60) DEF DeleteNext
  <2>6. Keeps(content, content', tasks, tasks')
    BY <2>5, NoNewStore, ZenonT(60)
  <2> QED BY <1>same, <2>3, <2>4, <2>6, ZenonT(60) DEF CountStep
<1>6. ASSUME NEW t \in Tasks, Unlink(t)
      PROVE  CountStep
  <2>1. /\ tasks[t] \in DeleteTask /\ content' = content /\ table' = table
        /\ tasks' = [tasks EXCEPT ![t] = [tasks[t] EXCEPT !.unlink = None]]
        /\ tasks \in [Tasks -> TaskRecord]
    BY <1>6, Kinds, ZenonT(60) DEF Unlink, Sound, Typed
  <2>2. tasks'[t].kind = "delete" /\ \A u \in Tasks : u # t => tasks'[u] = tasks[u]
    BY <2>1, ZenonT(60) DEF DeleteTask
  <2>3. Keeps(content, content', tasks, tasks')
    BY <2>1, <2>2, NoNewStore, ZenonT(60)
  <2> QED BY <1>same, <2>1, <2>3, ZenonT(60) DEF CountStep
<1>7. ASSUME NEW t \in Tasks, UnlinkFails(t)
      PROVE  CountStep
  <2>1. /\ content' = content /\ table' = table /\ tasks' = [tasks EXCEPT ![t] = Idle]
        /\ tasks \in [Tasks -> TaskRecord]
    BY <1>7, ZenonT(60) DEF UnlinkFails, Sound, Typed
  <2>2. tasks'[t].kind = "idle" /\ \A u \in Tasks : u # t => tasks'[u] = tasks[u]
    BY <2>1, IdleKind, ZenonT(60)
  <2>3. Keeps(content, content', tasks, tasks')
    BY <2>1, <2>2, NoNewStore, ZenonT(60)
  <2> QED BY <1>same, <2>1, <2>3, ZenonT(60) DEF CountStep
<1> QED BY <1>1, <1>2, <1>3, <1>4, <1>5, <1>6, <1>7, NextCases, ZenonT(60)
(* The queue for the lock and the running coroutine are of their types.    *)
QueueTyped == ioq \in Seq(Tasks) /\ running \in Tasks \cup {None}

(* Coroutines join the queue at its end and leave it at its head.          *)
LEMMA NextQueue ==
  ASSUME QueueTyped, Next
  PROVE  QueueTyped'
<1>1. ASSUME NEW t \in Tasks, ioq' = Append(ioq, t)
      PROVE  ioq' \in Seq(Tasks)
  BY <1>1 DEF QueueTyped
<1>2. ASSUME NEW t \in Tasks, IODone(t)
      PROVE  ioq' \in Seq(Tasks)
  BY <1>2 DEF QueueTyped, IODone
<1>3. ASSUME NEW t \in Tasks, NEW v \in VolIds, NEW o \in Offsets, NEW d \in Data,
             WriteNew(t, v, o, d)
      PROVE  QueueTyped'
  BY <1>1, <1>3, ZenonT(60) DEF WriteNew, QueueTyped
<1>4. ASSUME NEW t \in Tasks, TaskStep(t) \/ \E v \in VolIds : DeleteStart(t, v)
      PROVE  QueueTyped'
  <2>1. CASE WriteStored(t) \/ WriteFails(t) \/ Unlink(t) \/ UnlinkFails(t)
    BY <1>2, <2>1, ZenonT(60) DEF WriteStored, WriteFails, Unlink, UnlinkFails, QueueTyped
  <2>2. CASE DeleteNext(t)
    <3>1. (ioq' = ioq \/ ioq' = Append(ioq, t)) /\ running' \in {t, None}
      BY <2>2, ZenonT(60) DEF DeleteNext
    <3> QED BY <1>1, <3>1, ZenonT(60) DEF QueueTyped
  <2>3. CASE DeleteRaises(t) \/ DeleteFinish(t) \/ \E v \in VolIds : DeleteStart(t, v)
    BY <2>3, ZenonT(60) DEF DeleteRaises, DeleteFinish, DeleteStart, QueueTyped
  <2> QED BY <1>4, <2>1, <2>2, <2>3, ZenonT(60) DEF TaskStep
<1>5. ASSUME NEW v \in VolIds, NEW o \in Offsets, NEW d \in Data, WriteDuplicate(v, o, d)
      PROVE  QueueTyped'
  BY <1>5, ZenonT(60) DEF WriteDuplicate, QueueTyped
<1>6. ASSUME NEW v \in VolIds, CreateVolume(v) \/ \E w \in VolIds : CloneVolume(v, w)
      PROVE  QueueTyped'
  BY <1>6, ZenonT(60) DEF CreateVolume, CloneVolume, QueueTyped
<1>7. ASSUME NEW s \in SnapIds, NEW v \in VolIds,
             CreateSnapshot(v, s) \/ RestoreNew(s, v) \/ RestoreInto(s, v)
      PROVE  QueueTyped'
  BY <1>7, ZenonT(60) DEF CreateSnapshot, RestoreNew, RestoreInto, QueueTyped
<1>8. ASSUME NEW s \in SnapIds, DeleteSnapshot(s)
      PROVE  QueueTyped'
  BY <1>8, ZenonT(60) DEF DeleteSnapshot, QueueTyped
<1> QED BY <1>3, <1>4, <1>5, <1>6, <1>7, <1>8, ZenonT(60) DEF Next

Bounded == RefsBounded /\ QueueTyped

(* The state has its types; in particular no reference count drops below   *)
(* one in the table or grows beyond the hits and the blocks stored.        *)
THEOREM TypeCorrect == Spec => []TypeOK
<1>1. Init => Bounded
  <2> SUFFICES ASSUME Init
               PROVE  Bounded
    BY ZenonT(60)
  <2>1. \A f \in Fps : table[f] = None
    BY ZenonT(60) DEF Init
  <2> QED BY <2>1 DEF Init, Bounded, RefsBounded, QueueTyped
<1>2. Sound /\ Sound' /\ Bounded /\ [Next]_vars => Bounded'
  <2>1. ASSUME Sound, Sound', Bounded, Next
        PROVE  Bounded'
    BY <2>1, NextCounts, CountStepBounded, NextQueue, ZenonT(60) DEF Bounded
  <2>2. ASSUME Bounded, UNCHANGED vars
        PROVE  Bounded'
    BY <2>2, ZenonT(60) DEF vars, Bounded, RefsBounded, QueueTyped
  <2> QED BY <2>1, <2>2, ZenonT(60)
<1>3. Sound /\ Bounded => TypeOK
  <2> SUFFICES ASSUME Sound, Bounded
               PROVE  TypeOK
    BY ZenonT(60)
  <2>1. RefBound(content, tasks) \in MaxRef .. MaxRef + MaxBlocks
    BY SettledCount, ZenonT(60) DEF Sound, Typed
  <2>2. ASSUME NEW f \in Fps
        PROVE  table[f] \in [block : BlockIds, ref : 1 .. MaxRef + MaxBlocks] \cup {None}
    <3> SUFFICES ASSUME table[f] # None
                 PROVE  table[f] \in [block : BlockIds, ref : 1 .. MaxRef + MaxBlocks]
      BY ZenonT(60)
    <3>1. table[f] \in Entry
      BY ZenonT(60) DEF Sound, Typed
    <3>2. table[f].ref \in 1 .. MaxRef + MaxBlocks
      BY <2>1, ControllerAssumption DEF Bounded, RefsBounded
    <3> QED BY <3>1, <3>2, ZenonT(60) DEF Entry
  <2>3. table \in [Fps -> [block : BlockIds, ref : 1 .. MaxRef + MaxBlocks] \cup {None}]
    BY <2>2, ZenonT(60) DEF Sound, Typed
  <2>4. \A t \in Tasks : tasks[t] = Idle \/ tasks[t] \in StoreTask \/ tasks[t] \in DeleteTask
    BY ZenonT(60) DEF Sound, Typed, TaskRecord
  <2> QED BY <2>3, <2>4, ZenonT(60)
          DEF TypeOK, Sound, Typed, Holder, StoreTask, DeleteTask, Bounded, QueueTyped
<1> QED BY <1>1, <1>2, <1>3, StateSound, PTL DEF Spec
-----------------------------------------------------------------------------
(* Reference counts.  When clients share no blocks, do not use a volume    *)
(* while it is deleted, and no deletion fails, the table counts every      *)
(* holder of a block.  A volume that is being deleted is then left alone,  *)
(* so that its deletion goes over the mapping it started with.             *)
Alone == ~Sharing /\ ~Races /\ ~UnlinkFaults

Sole(t) ==
  tasks[t].kind = "delete" =>
    /\ Live(tasks[t].vol) /\ tasks[t].old = None
    /\ tasks[t].mapped = Mapped(vols[tasks[t].vol].blocks)
    /\ \A u \in Tasks : tasks[u].kind # "idle" /\ tasks[u].vol = tasks[t].vol => u = t

Undisturbed ==
  /\ \A s \in SnapIds : snaps[s].st = "unused"
  /\ \A v \in VolIds : ~Live(v) => vols[v].blocks = Unmapped
  /\ \A t \in Tasks : Sole(t)

Held == {x \in VolIds \X Offsets : Holds(x[1], x[2])}
At(x) == vols[x[1]].blocks[x[2]]
Refs(d) == IF table[Raw(d)] = None THEN 0 ELSE table[Raw(d)].ref

(* What the counts are for: no held block is gone or going.  Data that the *)
(* pattern stage encodes is not deduplicated, its blocks have one holder.  *)
Covered == \A d \in Data \ Patterns : Cardinality(Holders(d)) <= Refs(d)
HeldLive == \A x \in Held : At(x).block \in disk \ Unlinking
PatternsApart ==
  \A x, y \in Held : At(x).data \in Patterns /\ At(x).block = At(y).block => x = y

(* The inductive invariant, next to Sound.                                 *)
Guarded == Undisturbed /\ Covered /\ HeldLive /\ PatternsApart

(* There are finitely many holders.                                        *)
LEMMA HoldersFinite ==
  ASSUME NEW d
  PROVE  /\ IsFiniteSet(Holders(d)) /\ Cardinality(Holders(d)) \in Nat
         /\ Holders(d) = {x \in Held : At(x).data = d}
<1>1. IsFiniteSet(VolIds) /\ IsFiniteSet(Offsets)
  <2>1. MaxVols \in Int /\ 1 \in Int
    BY ControllerAssumption
  <2>2. IsFiniteSet(VolIds)
    BY <2>1, FS_Interval, ZenonT(60) DEF VolIds
  <2> QED BY <2>2, ControllerAssumption, ZenonT(60)
<1>2. IsFiniteSet(VolIds \X Offsets)
  BY <1>1, FS_Product, ZenonT(60)
<1>3. Holders(d) \subseteq VolIds \X Offsets
  BY ZenonT(60) DEF Holders
<1>4. IsFiniteSet(Holders(d))
  BY <1>2, <1>3, FS_Subset, ZenonT(60)
<1>5. Holders(d) = {x \in Held : At(x).data = d}
  BY ZenonT(60) DEF Holders, Held, At
<1> QED BY <1>4, <1>5, FS_CardinalityType, ZenonT(60)

(* One element more or less.                                               *)
LEMMA OneMore ==
  ASSUME NEW S, IsFiniteSet(S), NEW T, NEW y
  PROVE  /\ T \subseteq S => Cardinality(T) <= Cardinality(S)
         /\ T \subseteq S \cup {y} => Cardinality(T) <= Cardinality(S) + 1
         /\ y \in S /\ T \subseteq S \ {y} => Cardinality(T) <= Cardinality(S) - 1
<1>1. Cardinality(S) \in Nat
  BY FS_CardinalityType, ZenonT(60)
<1>2. T \subseteq S => Cardinality(T) <= Cardinality(S)
  BY FS_Subset, ZenonT(60)
<1>3. ASSUME T \subseteq S \cup {y}
      PROVE  Cardinality(T) <= Cardinality(S) + 1
  <2>1. /\ IsFiniteSet(S \cup {y})
        /\ Cardinality(S \cup {y}) = IF y \in S THEN Cardinality(S) ELSE Cardinality(S) + 1
    BY FS_AddElement, ZenonT(60)
  <2>2. IsFiniteSet(T) /\ Cardinality(T) <= Cardinality(S \cup {y})
    BY <1>3, <2>1, FS_Subset, ZenonT(60)
  <2>3. Cardinality(T) \in Nat
    BY <2>2, FS_CardinalityType, ZenonT(60)
  <2> QED BY <1>1, <2>1, <2>2, <2>3
<1>4. ASSUME y \in S, T \subseteq S \ {y}
      PROVE  Cardinality(T) <= Cardinality(S) - 1
  <2>1. IsFiniteSet(S \ {y}) /\ Cardinality(S \ {y}) = Cardinality(S) - 1
    BY <1>4, FS_RemoveElement, ZenonT(60)
  <2> QED BY <1>4, <2>1, FS_Subset, ZenonT(60)
<1> QED BY <1>2, <1>3, <1>4, ZenonT(60)

(* Refs counts integers.                                                   *)
LEMMA RefsInt ==
  ASSUME Sound, NEW d \in Data
  PROVE  Refs(d) \in Int
BY Fingerprints DEF Sound, Typed, Entry, Refs

(* A step that gains no holder, takes no held block off the disk and       *)
(* leaves the table alone.                                                 *)
LEMMA QuietStep ==
  ASSUME Sound, Sound', Guarded, table' = table,
         \A x \in Held' : x \in Held /\ At(x)' = At(x) /\ At(x).block \in disk' \ Unlinking'
  PROVE  Covered' /\ HeldLive' /\ PatternsApart'
<1>1. ASSUME NEW d \in Data \ Patterns
      PROVE  Cardinality(Holders(d)') <= Refs(d)'
  <2>1. Holders(d)' \subseteq Holders(d)
    <3>1. Holders(d)' = {x \in Held' : At(x)'.data = d}
      BY ZenonT(60) DEF Holders, Held, At
    <3> QED BY <3>1, HoldersFinite, ZenonT(60)
  <2>2. Cardinality(Holders(d)') <= Cardinality(Holders(d))
    BY <2>1, HoldersFinite, OneMore, ZenonT(60)
  <2>3. Refs(d)' = Refs(d) /\ Refs(d) \in Int /\ Cardinality(Holders(d)) \in Nat
    BY HoldersFinite, RefsInt, ZenonT(60) DEF Refs
  <2>4. IsFiniteSet(Holders(d)') /\ Cardinality(Holders(d)') \in Nat
    BY <2>1, HoldersFinite, FS_Subset, FS_CardinalityType, ZenonT(60)
  <2> QED BY <2>2, <2>3, <2>4 DEF Guarded, Covered
<1>2. HeldLive'
  BY ZenonT(60) DEF HeldLive
<1>3. PatternsApart'
  BY ZenonT(60) DEF PatternsApart, Guarded
<1> QED BY <1>1, <1>2, <1>3, ZenonT(60) DEF Covered
(* A step that makes y a holder of block b of data d, and registers it.    *)
LEMMA GainStep ==
  ASSUME Sound, Sound', Guarded, NEW y, NEW b, NEW d \in Data,
         \A x \in Held' : \/ x \in Held /\ At(x)' = At(x)
                          \/ x = y /\ At(x)' = [block |-> b, data |-> d],
         \A x \in Held' : At(x)'.block \in disk' \ Unlinking',
         \A x \in Held : At(x).block = b => At(x).data \notin Patterns /\ d \notin Patterns,
         \A e \in Data \ Patterns : Refs(e)' = IF e = d THEN Refs(e) + 1 ELSE Refs(e)
  PROVE  Covered' /\ HeldLive' /\ PatternsApart'
<1>1. ASSUME NEW e \in Data \ Patterns
      PROVE  Cardinality(Holders(e)') <= Refs(e)'
  <2>1. Holders(e)' = {x \in Held' : At(x)'.data = e}
    BY ZenonT(60) DEF Holders, Held, At
  <2>2. Holders(e) = {x \in Held : At(x).data = e}
    BY HoldersFinite, ZenonT(60)
  <2>3. /\ IsFiniteSet(Holders(e)) /\ Cardinality(Holders(e)) \in Nat /\ Refs(e) \in Int
        /\ Cardinality(Holders(e)) <= Refs(e)
    BY HoldersFinite, RefsInt, ZenonT(60) DEF Guarded, Covered
  <2>4. IsFiniteSet(Holders(e) \cup {y})
    BY <2>3, FS_AddElement, ZenonT(60)
  <2>5. Holders(e)' \subseteq Holders(e) \cup {y}
    BY <2>1, <2>2, ZenonT(60)
  <2>6. Cardinality(Holders(e)') \in Nat
    BY <2>4, <2>5, FS_Subset, FS_CardinalityType, ZenonT(60)
  <2>7. CASE e = d
    <3>1. Cardinality(Holders(e)') <= Cardinality(Holders(e)) + 1
      BY <2>3, <2>5, OneMore, ZenonT(60)
    <3> QED BY <2>3, <2>6, <2>7, <3>1
  <2>8. CASE e # d
    <3>1. Holders(e)' \subseteq Holders(e)
      BY <2>1, <2>2, <2>8
    <3>2. Cardinality(Holders(e)') <= Cardinality(Holders(e))
      BY <2>3, <3>1, OneMore, ZenonT(60)
    <3> QED BY <2>3, <2>6, <2>8, <3>2
  <2> QED BY <2>7, <2>8, ZenonT(60)
<1>2. HeldLive'
  BY ZenonT(60) DEF HeldLive
<1>3. PatternsApart'
  BY DEF PatternsApart, Guarded
<1> QED BY <1>1, <1>2, <1>3, ZenonT(60) DEF Covered

(* Such a step, in terms of holders and counts.                            *)
Gains(y, b, d) ==
  /\ \A x \in Held' : \/ x \in Held /\ At(x)' = At(x)
                      \/ x = y /\ At(x)' = [block |-> b, data |-> d]
  /\ \A x \in Held : At(x).block = b => At(x).data \notin Patterns /\ d \notin Patterns
Counted(d) == \A e \in Data \ Patterns : Refs(e)' = IF e = d THEN Refs(e) + 1 ELSE Refs(e)

(* It keeps the counts right.                                              *)
LEMMA GainCounted ==
  ASSUME Sound, Sound', Guarded, NEW y, NEW b, NEW d \in Data,
         Gains(y, b, d), Counted(d), HeldLive'
  PROVE  Covered' /\ PatternsApart'
<1>1. /\ \A x \in Held' : \/ x \in Held /\ At(x)' = At(x)
                          \/ x = y /\ At(x)' = [block |-> b, data |-> d]
      /\ \A x \in Held : At(x).block = b => At(x).data \notin Patterns /\ d \notin Patterns
  BY ZenonT(60) DEF Gains
<1>2. \A x \in Held' : At(x)'.block \in disk' \ Unlinking'
  BY ZenonT(60) DEF HeldLive
<1>3. \A e \in Data \ Patterns : Refs(e)' = IF e = d THEN Refs(e) + 1 ELSE Refs(e)
  BY ZenonT(60) DEF Counted
<1> QED BY <1>1, <1>2, <1>3, GainStep

(* A step that ends the hold of y and gives up one reference for it.       *)
LEMMA DropStep ==
  ASSUME Sound, Sound', Guarded, NEW y \in Held,
         \A x \in Held' : /\ x \in Held /\ x # y /\ At(x)' = At(x)
                          /\ At(x).block \in disk' \ Unlinking',
         \A e \in Data \ Patterns :
           Refs(e)' = IF e = At(y).data THEN Refs(e) - 1 ELSE Refs(e)
  PROVE  Covered' /\ HeldLive' /\ PatternsApart'
<1>1. ASSUME NEW e \in Data \ Patterns
      PROVE  Cardinality(Holders(e)') <= Refs(e)'
  <2>1. Holders(e)' = {x \in Held' : At(x)'.data = e}
    BY ZenonT(60) DEF Holders, Held, At
  <2>2. Holders(e) = {x \in Held : At(x).data = e}
    BY HoldersFinite, ZenonT(60)
  <2>3. /\ IsFiniteSet(Holders(e)) /\ Cardinality(Holders(e)) \in Nat /\ Refs(e) \in Int
        /\ Cardinality(Holders(e)) <= Refs(e)
    BY HoldersFinite, RefsInt, ZenonT(60) DEF Guarded, Covered
  <2>4. Holders(e)' \subseteq Holders(e) \ {y}
    BY <2>1, <2>2, ZenonT(60)
  <2>5. Cardinality(Holders(e)') \in Nat
    BY <2>3, <2>4, FS_Subset, FS_CardinalityType, ZenonT(60)
  <2>6. CASE e = At(y).data
    <3>1. Cardinality(Holders(e)') <= Cardinality(Holders(e)) - 1
      BY <2>2, <2>3, <2>4, <2>6, OneMore, ZenonT(60)
    <3>2. Refs(e)' = Refs(e) - 1
      BY <2>6, ZenonT(60)
    <3> QED BY ONLY <2>3, <2>5, <3>1, <3>2
  <2>7. CASE e # At(y).data
    <3>1. Cardinality(Holders(e)') <= Cardinality(Holders(e))
      BY <2>3, <2>4, OneMore, ZenonT(60)
    <3>2. Refs(e)' = Refs(e)
      BY <2>7, ZenonT(60)
    <3> QED BY ONLY <2>3, <2>5, <3>1, <3>2
  <2> QED BY <2>6, <2>7, ZenonT(60)
<1>2. HeldLive'
  BY ZenonT(60) DEF HeldLive
<1>3. PatternsApart'
  BY ZenonT(60) DEF PatternsApart, Guarded
<1> QED BY <1>1, <1>2, <1>3, ZenonT(60) DEF Covered

(* Held, in terms of volumes and offsets.                                  *)
LEMMA HeldIs ==
  /\ \A x : x \in Held <=> \E v \in VolIds, o \in Offsets : x = <<v, o>> /\ Holds(v, o)
  /\ \A x : x \in Held' <=> \E v \in VolIds, o \in Offsets : x = <<v, o>> /\ Holds(v, o)'
  /\ \A v, o : At(<<v, o>>) = vols[v].blocks[o] /\ At(<<v, o>>)' = vols'[v].blocks[o]
<1>1. \A x : x \in Held <=> \E v \in VolIds, o \in Offsets : x = <<v, o>> /\ Holds(v, o)
  BY DEF Held
<1>2. \A x : x \in Held' <=> \E v \in VolIds, o \in Offsets : x = <<v, o>> /\ Holds(v, o)'
  BY DEF Held, Holds
<1>3. \A v, o : At(<<v, o>>) = vols[v].blocks[o] /\ At(<<v, o>>)' = vols'[v].blocks[o]
  BY ZenonT(60) DEF At
<1> QED BY <1>1, <1>2, <1>3, ZenonT(60)

(* A holder after a step, as an offset of a volume.                        *)
LEMMA HeldPair ==
  ASSUME NEW x \in Held'
  PROVE  \E v \in VolIds, o \in Offsets :
           /\ x = <<v, o>> /\ Holds(v, o)' /\ (Holds(v, o) => x \in Held)
           /\ At(x) = vols[v].blocks[o] /\ At(x)' = vols'[v].blocks[o]
BY HeldIs

(* What a coroutine works on stays the same.                               *)
SameJob(x, y) == x.kind = y.kind /\ x.vol = y.vol /\ x.old = y.old /\ x.mapped = y.mapped

(* A deletion that goes on is still the only coroutine of its volume.      *)
LEMMA SoleSame ==
  ASSUME Undisturbed, vols' = vols, \A u \in Tasks : SameJob(tasks'[u], tasks[u])
  PROVE  \A u \in Tasks : Sole(u)'
<1> SUFFICES ASSUME NEW u \in Tasks, tasks'[u].kind = "delete"
             PROVE  Sole(u)'
  BY ZenonT(60) DEF Sole
<1>1. Sole(u) /\ tasks[u].kind = "delete" /\ SameJob(tasks'[u], tasks[u])
  BY ZenonT(60) DEF Undisturbed, SameJob
<1>2. \A w \in Tasks : tasks'[w].kind = tasks[w].kind /\ tasks'[w].vol = tasks[w].vol
  BY ZenonT(60) DEF SameJob
<1> QED BY <1>1, <1>2, ZenonT(60) DEF Sole, Live, SameJob

(* Steps of coroutines that leave volumes and table alone.  A volume that  *)
(* starts to be deleted gives nothing up yet.                              *)
LEMMA SameVolumes ==
  ASSUME Sound, Sound', Guarded, Undisturbed', vols' = vols, table' = table,
         \A v \in VolIds, o \in Offsets : Holds(v, o)' => Holds(v, o),
         \A b : b \in disk \ Unlinking => b \in disk' \ Unlinking'
  PROVE  Guarded'
<1>1. ASSUME NEW x \in Held'
      PROVE  x \in Held /\ At(x)' = At(x) /\ At(x).block \in disk' \ Unlinking'
  <2>1. PICK v \in VolIds, o \in Offsets :
          /\ x = <<v, o>> /\ Holds(v, o)' /\ (Holds(v, o) => x \in Held)
          /\ At(x) = vols[v].blocks[o] /\ At(x)' = vols'[v].blocks[o]
    BY <1>1, HeldPair, ZenonT(60)
  <2>2. x \in Held /\ At(x)' = At(x)
    BY <2>1, ZenonT(60)
  <2> QED BY <2>2, ZenonT(60) DEF Guarded, HeldLive
<1> QED BY <1>1, QuietStep, ZenonT(60) DEF Guarded
(* What a step must do for coroutines to stay undisturbed.                 *)
LEMMA StaysUndisturbed ==
  ASSUME Sound, Undisturbed, snaps' = snaps,
         \A v \in VolIds : ~Live(v)' => vols'[v].blocks = Unmapped,
         \A t \in Tasks : Sole(t)'
  PROVE  Undisturbed'
BY ZenonT(60) DEF Undisturbed

(* create_volume.                                                          *)
LEMMA CreateVolumeGuarded ==
  ASSUME Sound, Sound', Guarded, NEW v \in VolIds, CreateVolume(v)
  PROVE  Guarded'
<1>1. /\ vols[v].blocks = Unmapped /\ ~Live(v)
      /\ vols' = [vols EXCEPT ![v].st = "live"] /\ vols \in [VolIds -> Holder]
      /\ UNCHANGED <<content, disk, table, snaps, tasks>>
  BY ZenonT(60) DEF CreateVolume, Fresh, Live, Guarded, Undisturbed, Sound, Typed
<1>2. /\ vols'[v].blocks = Unmapped /\ vols'[v].st = "live"
      /\ \A w \in VolIds : w # v => vols'[w] = vols[w]
  BY <1>1, ZenonT(60) DEF Holder
<1>3. ASSUME NEW t \in Tasks
      PROVE  Sole(t)'
  <2> SUFFICES ASSUME tasks[t].kind = "delete"
               PROVE  Sole(t)'
    BY <1>1, ZenonT(60) DEF Sole
  <2>1. Sole(t) /\ tasks[t] \in DeleteTask
    BY Kinds, ZenonT(60) DEF Guarded, Undisturbed, Sound, Typed
  <2>2. tasks[t].vol \in VolIds /\ tasks[t].vol # v
    BY <1>1, <2>1, ZenonT(60) DEF Sole, DeleteTask
  <2> QED BY <1>1, <1>2, <2>1, <2>2, ZenonT(60) DEF Sole, Live
<1>4. \A w \in VolIds : ~Live(w)' => vols'[w].blocks = Unmapped
  BY <1>2, ZenonT(60) DEF Live, Guarded, Undisturbed
<1>5. Undisturbed'
  BY <1>1, <1>3, <1>4, StaysUndisturbed, ZenonT(60) DEF Guarded
<1>6. ASSUME NEW w \in VolIds, NEW o \in Offsets, Holds(w, o)'
      PROVE  Holds(w, o) /\ vols'[w].blocks[o] = vols[w].blocks[o]
  <2>1. CASE w = v
    BY <1>2, <1>6, <2>1, ZenonT(60) DEF Holds, Unmapped
  <2>2. CASE w # v
    BY <1>1, <1>2, <1>6, <2>2, ZenonT(60) DEF Holds, Live
  <2> QED BY <2>1, <2>2, ZenonT(60)
<1>7. \A x \in Held' : x \in Held /\ At(x)' = At(x) /\ At(x).block \in disk' \ Unlinking'
  <2>1. Unlinking' = Unlinking
    BY <1>1, ZenonT(60) DEF Unlinking
  <2>2. ASSUME NEW x \in Held'
        PROVE  x \in Held /\ At(x)' = At(x)
    <3>1. PICK w \in VolIds, o \in Offsets :
            /\ x = <<w, o>> /\ Holds(w, o)' /\ (Holds(w, o) => x \in Held)
            /\ At(x) = vols[w].blocks[o] /\ At(x)' = vols'[w].blocks[o]
      BY <2>2, HeldPair, ZenonT(60)
    <3> QED BY <1>6, <3>1, ZenonT(60)
  <2> QED BY <1>1, <2>1, <2>2, ZenonT(60) DEF Guarded, HeldLive
<1> QED BY <1>1, <1>5, <1>7, QuietStep, ZenonT(60) DEF Guarded

(* VolumeManager.write_block changes at most the offset that is written,   *)
(* and only in a live volume.                                              *)
Recorded(v, o, b, d) ==
  /\ \A w \in VolIds : vols'[w].st = vols[w].st
  /\ \A w \in VolIds : w # v \/ ~Live(w) => vols'[w] = vols[w]
  /\ \A p \in Offsets : p # o => vols'[v].blocks[p] = vols[v].blocks[p]
  /\ \/ vols'[v].blocks[o] = vols[v].blocks[o]
     \/ vols'[v].blocks[o] = [block |-> b, data |-> d]

(* VolumeManager.write_block records the block so, or not at all.          *)
LEMMA RecordShape ==
  ASSUME Sound, NEW v \in VolIds, NEW o \in Offsets, NEW b, NEW d, RecordBlock(v, o, b, d)
  PROVE  Recorded(v, o, b, d)
<1>1. vols \in [VolIds -> Holder] /\ vols[v].blocks \in Mapping
  BY ZenonT(60) DEF Sound, Typed, Holder
<1>2. CASE vols' = vols
  BY <1>2, ZenonT(60) DEF Recorded
<1>3. CASE Live(v) /\ vols' = [vols EXCEPT ![v].blocks[o] = [block |-> b, data |-> d]]
  <2> DEFINE m == [vols[v].blocks EXCEPT ![o] = [block |-> b, data |-> d]]
             r == [vols[v] EXCEPT !.blocks = m]
  <2>1. vols' = [vols EXCEPT ![v] = r]
    BY <1>3, ZenonT(60)
  <2>2. r.st = vols[v].st /\ r.blocks = m
    BY <1>1, ZenonT(60) DEF Holder
  <2>3. m[o] = [block |-> b, data |-> d] /\ \A p \in Offsets : p # o => m[p] = vols[v].blocks[p]
    BY <1>1, ZenonT(60) DEF Mapping
  <2> HIDE DEF m, r
  <2>4. vols'[v] = r /\ \A w \in VolIds : w # v => vols'[w] = vols[w]
    BY <1>1, <2>1, ZenonT(60)
  <2> QED BY <1>3, <2>2, <2>3, <2>4, ZenonT(60) DEF Recorded
<1> QED BY <1>2, <1>3, ZenonT(60) DEF RecordBlock

(* A recorded block makes its offset a holder of it and changes no other;  *)
(* no deletion of the volume runs.                                         *)
LEMMA RecordHolds ==
  ASSUME Sound, Sound', Undisturbed, NEW v \in VolIds, NEW o \in Offsets, NEW b, NEW d,
         RecordBlock(v, o, b, d), ~Deleting(v), snaps' = snaps,
         \A t \in Tasks : tasks'[t] = tasks[t] \/ (tasks[t].kind = "store" /\ tasks'[t] = Idle)
  PROVE  /\ Undisturbed'
         /\ \A x \in Held' : \/ x \in Held /\ At(x)' = At(x)
                             \/ x = <<v, o>> /\ At(x)' = [block |-> b, data |-> d]
<1>1. /\ \A w \in VolIds : vols'[w].st = vols[w].st
      /\ \A w \in VolIds : w # v \/ ~Live(w) => vols'[w] = vols[w]
      /\ \A p \in Offsets : p # o => vols'[v].blocks[p] = vols[v].blocks[p]
      /\ \/ vols'[v].blocks[o] = vols[v].blocks[o]
         \/ vols'[v].blocks[o] = [block |-> b, data |-> d]
  <2>1. Recorded(v, o, b, d)
    BY RecordShape, ZenonT(60)
  <2> QED BY <2>1, ZenonT(60) DEF Recorded
<1>2. \A t \in Tasks : tasks'[t].kind # "idle" => tasks'[t] = tasks[t]
  BY IdleKind, ZenonT(60)
<1>3. ASSUME NEW t \in Tasks
      PROVE  Sole(t)'
  <2> SUFFICES ASSUME tasks'[t].kind = "delete"
               PROVE  Sole(t)'
    BY ZenonT(60) DEF Sole
  <2>1. Sole(t) /\ tasks[t] \in DeleteTask /\ tasks'[t] = tasks[t]
    BY <1>2, Kinds, ZenonT(60) DEF Undisturbed, Sound, Typed
  <2>2. tasks[t].vol \in VolIds /\ tasks[t].vol # v
    BY <2>1, ZenonT(60) DEF Deleting, DeleteTask
  <2> QED BY <1>1, <1>2, <2>1, <2>2, ZenonT(60) DEF Sole, Live
<1>4. \A w \in VolIds : ~Live(w)' => vols'[w].blocks = Unmapped
  BY <1>1, ZenonT(60) DEF Live, Undisturbed
<1>5. Undisturbed'
  BY <1>3, <1>4, StaysUndisturbed, ZenonT(60)
<1>6. ASSUME NEW w \in VolIds, NEW p \in Offsets, Holds(w, p)'
      PROVE  \/ Holds(w, p) /\ vols'[w].blocks[p] = vols[w].blocks[p]
             \/ w = v /\ p = o /\ vols'[w].blocks[p] = [block |-> b, data |-> d]
  <2>1. \A t \in Tasks : tasks[t].kind = "delete" /\ tasks[t].vol = w => p \in tasks[t].todo
    BY <1>6, ZenonT(60) DEF Holds
  <2> QED BY <1>1, <1>6, <2>1, ZenonT(60) DEF Holds, Live
<1>7. ASSUME NEW x \in Held'
      PROVE  \/ x \in Held /\ At(x)' = At(x)
             \/ x = <<v, o>> /\ At(x)' = [block |-> b, data |-> d]
  <2>1. PICK w \in VolIds, p \in Offsets :
          /\ x = <<w, p>> /\ Holds(w, p)' /\ (Holds(w, p) => x \in Held)
          /\ At(x) = vols[w].blocks[p] /\ At(x)' = vols'[w].blocks[p]
    BY HeldPair, ZenonT(60)
  <2> QED BY <1>6, <2>1, ZenonT(60)
<1> QED BY <1>5, <1>7, ZenonT(60)

(* A held block is settled and was stored for the data held there.         *)
LEMMA HeldContent ==
  ASSUME Sound
  PROVE  \A x \in Held : /\ Settled(At(x).block, content, tasks)
                          /\ content[At(x).block] = At(x).data
                          /\ At(x).block \in BlockIds /\ At(x).data \in Data
<1> SUFFICES ASSUME NEW x \in Held
             PROVE  /\ Settled(At(x).block, content, tasks)
                    /\ content[At(x).block] = At(x).data
                    /\ At(x).block \in BlockIds /\ At(x).data \in Data
  BY ZenonT(60)
<1>1. PICK v \in VolIds, o \in Offsets : x = <<v, o>> /\ Holds(v, o) /\ At(x) = vols[v].blocks[o]
  BY HeldIs
<1> DEFINE m == vols[v].blocks
<1>2. m[o] # None /\ Good(m, content, tasks)
  BY <1>1, ZenonT(60) DEF Holds, Sound, MapsGood
<1>3. m[o] \in [block : BlockIds, data : Data]
  BY <1>2, ZenonT(60) DEF Good, Mapping
<1>4. Settled(m[o].block, content, tasks) /\ content[m[o].block] = m[o].data
  BY <1>2, ZenonT(60) DEF Good
<1> HIDE DEF m
<1> QED BY <1>1, <1>3, <1>4, ZenonT(60) DEF m

(* write of known data.                                                    *)
LEMMA WriteDuplicateGuarded ==
  ASSUME Alone, Sound, Sound', Guarded, NEW v \in VolIds, NEW o \in Offsets, NEW d \in Data,
         WriteDuplicate(v, o, d)
  PROVE  Guarded'
<1> DEFINE e == table[Raw(d)]
<1>1. d \notin Patterns /\ Fingerprint(d) = Raw(d) /\ ~Deleting(v)
  BY ZenonT(60) DEF WriteDuplicate, Fingerprint, Sound, NoEncoded, Usable, Alone
<1>2. e \in Entry /\ e # None /\ table \in [Fps -> Entry \cup {None}]
  BY <1>1, Fingerprints, ZenonT(60) DEF WriteDuplicate, Sound, Typed
<1>3. e.block \in disk /\ content[e.block] = d /\ e.block \notin Unlinking
  <2>1. EntryOK(d, e, content, disk, tasks)
    BY <1>1, ZenonT(60) DEF Sound, TableGood
  <2> HIDE DEF e
  <2> QED BY <1>2, <2>1, ZenonT(60) DEF EntryOK, Unlinking
<1>4. /\ table' = [table EXCEPT ![Raw(d)] = [e EXCEPT !.ref = @ + 1]]
      /\ RecordBlock(v, o, e.block, d)
      /\ UNCHANGED <<content, disk, snaps, tasks, running>>
  BY <1>1, <1>2, ZenonT(60) DEF WriteDuplicate, Register
<1>5. \A z \in Data \ Patterns : Refs(z)' = IF z = d THEN Refs(z) + 1 ELSE Refs(z)
  <2>1. Raw(d) \in Fps /\ \A z \in Data : Raw(z) \in Fps /\ (Raw(z) = Raw(d) => z = d)
    BY Fingerprints, ZenonT(60)
  <2>2. table'[Raw(d)].ref = e.ref + 1 /\ table'[Raw(d)] # None
    <3>1. table'[Raw(d)] = [e EXCEPT !.ref = @ + 1]
      BY <1>2, <1>4, <2>1, ZenonT(60)
    <3>2. [e EXCEPT !.ref = @ + 1] \in Entry /\ [e EXCEPT !.ref = @ + 1].ref = e.ref + 1
      BY <1>2, EntryCount, ZenonT(60)
    <3>3. table'[Raw(d)] # None
      BY <3>1, <3>2, ControllerAssumption, ZenonT(60) DEF Entry, BlockIds
    <3> QED BY <3>1, <3>2, <3>3, ZenonT(60)
  <2> QED BY <1>2, <1>4, <2>1, <2>2, ZenonT(60) DEF Refs
<1> HIDE DEF e
<1>6. /\ Undisturbed'
      /\ \A x \in Held' : \/ x \in Held /\ At(x)' = At(x)
                          \/ x = <<v, o>> /\ At(x)' = [block |-> e.block, data |-> d]
  <2>1. snaps' = snaps /\ \A t \in Tasks : tasks'[t] = tasks[t]
    BY <1>4, ZenonT(60)
  <2> QED BY <1>1, <1>4, <2>1, RecordHolds, ZenonT(60) DEF Guarded
<1>7. Unlinking' = Unlinking /\ disk' = disk
  BY <1>4, ZenonT(60) DEF Unlinking
<1>8. \A x \in Held' : At(x)'.block \in disk' \ Unlinking'
  <2> SUFFICES ASSUME NEW x \in Held'
               PROVE  At(x)'.block \in disk' \ Unlinking'
    BY ZenonT(60)
  <2>1. CASE x \in Held /\ At(x)' = At(x)
    <3>1. At(x).block \in disk \ Unlinking
      BY <2>1, ZenonT(60) DEF Guarded, HeldLive
    <3> QED BY <1>7, <2>1, <3>1, ZenonT(60)
  <2>2. CASE At(x)' = [block |-> e.block, data |-> d]
    <3>1. At(x)'.block = e.block
      BY ONLY <2>2
    <3> QED BY <1>3, <1>7, <3>1, ZenonT(60)
  <2> QED BY <1>6, <2>1, <2>2, ZenonT(60)
<1>9. \A x \in Held : At(x).block = e.block => At(x).data \notin Patterns /\ d \notin Patterns
  BY <1>1, <1>3, HeldContent, ZenonT(60)
<1>10. Covered' /\ HeldLive' /\ PatternsApart'
  <2> DEFINE y == <<v, o>>
             b == e.block
  <2>1. Gains(y, b, d)
    BY <1>6, <1>9, ZenonT(60) DEF Gains
  <2> HIDE DEF y, b
  <2>2. Counted(d) /\ HeldLive'
    BY <1>5, <1>8, ZenonT(60) DEF Counted, HeldLive
  <2> QED BY <2>1, <2>2, GainCounted, ZenonT(60)
<1> QED BY <1>6, <1>10, ZenonT(60) DEF Guarded
(* The write of new data, up to its file I/O.                              *)
LEMMA WriteNewGuarded ==
  ASSUME Alone, Sound, Sound', Guarded, NEW t \in Tasks, NEW v \in VolIds, NEW o \in Offsets,
         NEW d \in Data, WriteNew(t, v, o, d)
  PROVE  Guarded'
<1> DEFINE x == [kind |-> "store", vol |-> v, off |-> o, data |-> d, block |-> Len(content) + 1]
<1>1. /\ ~Deleting(v) /\ tasks[t] = Idle /\ UNCHANGED <<disk, table, vols, snaps>>
      /\ tasks' = [tasks EXCEPT ![t] = x] /\ tasks \in [Tasks -> TaskRecord]
  BY ZenonT(60) DEF WriteNew, Usable, Alone, Sound, Typed
<1>2. /\ tasks'[t] = x /\ x.kind = "store" /\ x.vol = v /\ tasks[t].kind = "idle"
      /\ \A u \in Tasks : u # t => tasks'[u] = tasks[u]
  <2>1. x.kind = "store" /\ x.vol = v
    BY ZenonT(60)
  <2> HIDE DEF x
  <2>2. tasks'[t] = x /\ \A u \in Tasks : u # t => tasks'[u] = tasks[u]
    BY <1>1, ZenonT(60)
  <2> QED BY <1>1, <2>1, <2>2, IdleKind, ZenonT(60)
<1> HIDE DEF x
<1>3. ASSUME NEW u \in Tasks
      PROVE  Sole(u)'
  <2> SUFFICES ASSUME tasks'[u].kind = "delete"
               PROVE  Sole(u)'
    BY ZenonT(60) DEF Sole
  <2>1. u # t /\ tasks'[u] = tasks[u] /\ Sole(u)
    BY <1>2, ZenonT(60) DEF Guarded, Undisturbed
  <2>2. tasks[u].vol # v
    BY <1>1, <2>1, ZenonT(60) DEF Deleting
  <2> QED BY <1>1, <1>2, <2>1, <2>2, ZenonT(60) DEF Sole, Live
<1>4. Undisturbed'
  BY <1>1, <1>3, StaysUndisturbed, ZenonT(60) DEF Guarded, Undisturbed, Live
<1>5. \A w \in VolIds, p \in Offsets : Holds(w, p)' => Holds(w, p)
  BY <1>1, <1>2, ZenonT(60) DEF Holds, Live
<1>6. Unlinking' = Unlinking
  BY <1>1, <1>2, ZenonT(60) DEF Unlinking
<1> QED BY <1>1, <1>4, <1>5, <1>6, SameVolumes, ZenonT(60)

(* The block is on disk and recorded.                                      *)
LEMMA WriteStoredGuarded ==
  ASSUME Sound, Sound', Guarded, NEW t \in Tasks, WriteStored(t)
  PROVE  Guarded'
<1> DEFINE v == tasks[t].vol
           o == tasks[t].off
           b == tasks[t].block
           d == tasks[t].data
           y == <<v, o>>
<1>1. tasks[t].kind = "store" /\ tasks[t] \in StoreTask /\ tasks \in [Tasks -> TaskRecord]
  BY Kinds, ZenonT(60) DEF WriteStored, Sound, Typed
<1>2. v \in VolIds /\ o \in Offsets /\ b \in BlockIds /\ d \in Data
  BY <1>1, ZenonT(60) DEF StoreTask
<1>3. /\ disk' = disk \cup {b} /\ Register(Raw(d), b) /\ RecordBlock(v, o, b, d)
      /\ tasks' = [tasks EXCEPT ![t] = Idle] /\ snaps' = snaps
  BY ZenonT(60) DEF WriteStored
<1>4. ~Deleting(v)
  BY <1>1, ZenonT(60) DEF Deleting, Guarded, Undisturbed, Sole
<1>5. \A u \in Tasks : tasks'[u] = tasks[u] \/ (tasks[u].kind = "store" /\ tasks'[u] = Idle)
  BY <1>1, <1>3, ZenonT(60)
<1>6. \A z \in Data \ Patterns : Refs(z)' = IF z = d THEN Refs(z) + 1 ELSE Refs(z)
  <2> DEFINE e == table[Raw(d)]
             e2 == IF e = None THEN [block |-> b, ref |-> 1] ELSE [e EXCEPT !.ref = @ + 1]
  <2>1. Raw(d) \in Fps /\ \A z \in Data : Raw(z) \in Fps /\ (Raw(z) = Raw(d) => z = d)
    BY <1>2, Fingerprints, ZenonT(60)
  <2>2. table \in [Fps -> Entry \cup {None}] /\ table' = [table EXCEPT ![Raw(d)] = e2]
    BY <1>3, ZenonT(60) DEF Register, Sound, Typed
  <2>3. e \in Entry \cup {None}
    BY <2>1, <2>2, ZenonT(60)
  <2>4. e2 \in Entry /\ e2.ref = IF e = None THEN 1 ELSE e.ref + 1
    <3> HIDE DEF e, b
    <3>1. CASE e = None
      BY <1>2, <3>1 DEF Entry
    <3>2. CASE e # None
      <4>1. e \in Entry
        BY <2>3, <3>2, ZenonT(60)
      <4>2. e2 = [e EXCEPT !.ref = @ + 1]
        BY <3>2, ZenonT(60)
      <4>3. (IF e = None THEN 1 ELSE e.ref + 1) = e.ref + 1
        BY <3>2, ZenonT(60)
      <4> HIDE DEF e2
      <4> QED BY <4>1, <4>2, <4>3, EntryCount, ZenonT(60)
    <3> QED BY <3>1, <3>2, ZenonT(60)
  <2>5. e2 # None
    BY <2>4, ControllerAssumption, ZenonT(60) DEF Entry, BlockIds
  <2> HIDE DEF e2
  <2> SUFFICES ASSUME NEW z \in Data \ Patterns
               PROVE  Refs(z)' = IF z = d THEN Refs(z) + 1 ELSE Refs(z)
    BY ZenonT(60)
  <2>6. CASE z = d
    <3>1. Refs(z)' = e2.ref
      BY <2>1, <2>2, <2>5, <2>6, ZenonT(60) DEF Refs
    <3>2. Refs(z) = IF e = None THEN 0 ELSE e.ref
      BY <2>6, ZenonT(60) DEF Refs
    <3>3. e2.ref = IF e = None THEN 1 ELSE e.ref + 1
      BY <2>4, ZenonT(60)
    <3> HIDE DEF e
    <3> QED BY ONLY <2>6, <3>1, <3>2, <3>3
  <2>7. CASE z # d
    BY <2>1, <2>2, <2>7, ZenonT(60) DEF Refs
  <2> QED BY <2>6, <2>7, ZenonT(60)
<1>7. Unlinking' \subseteq Unlinking
  BY <1>1, <1>3, ZenonT(60) DEF Unlinking, Idle
<1>8. b \notin Unlinking /\ \A x \in Held : At(x).block # b
  <2>1. ~Settled(b, content, tasks)
    BY <1>1, ZenonT(60) DEF Settled
  <2>2. ASSUME NEW u \in Tasks, tasks[u].kind = "delete", tasks[u].unlink # None
        PROVE  tasks[u].unlink # b
    BY <2>1, <2>2, ZenonT(60) DEF Sound, DeletesGood, DeleteOK
  <2> QED BY <2>1, <2>2, HeldContent, ZenonT(60) DEF Unlinking
<1> HIDE DEF v, o, b, d
<1>9. /\ Undisturbed'
      /\ \A x \in Held' : \/ x \in Held /\ At(x)' = At(x)
                          \/ x = y /\ At(x)' = [block |-> b, data |-> d]
  <2>1. Undisturbed /\ v \in VolIds /\ o \in Offsets /\ RecordBlock(v, o, b, d) /\ snaps' = snaps
    BY <1>2, <1>3, ZenonT(60) DEF Guarded
  <2> QED BY <1>4, <1>5, <2>1, RecordHolds, ZenonT(60)
<1> HIDE DEF y
<1>10. \A x \in Held' : At(x)'.block \in disk' \ Unlinking'
  <2> SUFFICES ASSUME NEW x \in Held'
               PROVE  At(x)'.block \in disk' \ Unlinking'
    BY ZenonT(60)
  <2>1. CASE x \in Held /\ At(x)' = At(x)
    <3>1. At(x).block \in disk \ Unlinking
      BY <2>1, ZenonT(60) DEF Guarded, HeldLive
    <3> QED BY <1>3, <1>7, <2>1, <3>1, ZenonT(60)
  <2>2. CASE At(x)' = [block |-> b, data |-> d]
    <3>1. At(x)'.block = b
      BY ONLY <2>2
    <3> QED BY <1>3, <1>7, <1>8, <3>1, ZenonT(60)
  <2> QED BY <1>9, <2>1, <2>2, ZenonT(60)
<1>11. \A x \in Held : At(x).block = b => At(x).data \notin Patterns /\ d \notin Patterns
  BY <1>8, ZenonT(60)
<1>12. Covered' /\ HeldLive' /\ PatternsApart'
  <2>1. Gains(y, b, d)
    BY <1>9, <1>11, ZenonT(60) DEF Gains
  <2>2. Counted(d) /\ HeldLive' /\ d \in Data
    BY <1>2, <1>6, <1>10, ZenonT(60) DEF Counted, HeldLive
  <2> QED BY <2>1, <2>2, GainCounted, ZenonT(60)
<1> QED BY <1>9, <1>12, ZenonT(60) DEF Guarded

(* The write whose file I/O fails leaves a block nobody refers to.         *)
LEMMA WriteFailsGuarded ==
  ASSUME Sound, Sound', Guarded, NEW t \in Tasks, WriteFails(t)
  PROVE  Guarded'
<1>1. /\ tasks[t].kind = "store" /\ tasks \in [Tasks -> TaskRecord]
      /\ tasks' = [tasks EXCEPT ![t] = Idle] /\ UNCHANGED <<disk, table, vols, snaps>>
  BY ZenonT(60) DEF WriteFails, Sound, Typed
<1>2. /\ tasks'[t].kind = "idle"
      /\ \A u \in Tasks : u # t => tasks'[u] = tasks[u]
  BY <1>1, ZenonT(60) DEF Idle
<1>3. \A u \in Tasks : Sole(u)'
  BY <1>1, <1>2, ZenonT(60) DEF Sole, Live, Guarded, Undisturbed
<1>4. Undisturbed'
  BY <1>1, <1>3, StaysUndisturbed, ZenonT(60) DEF Guarded, Undisturbed, Live
<1>5. \A w \in VolIds, p \in Offsets : Holds(w, p)' => Holds(w, p)
  BY <1>1, <1>2, ZenonT(60) DEF Holds, Live
<1>6. Unlinking' = Unlinking
  BY <1>1, <1>2, ZenonT(60) DEF Unlinking
<1> QED BY <1>1, <1>4, <1>5, <1>6, SameVolumes, ZenonT(60)
(* delete_volume starts: nothing is given up yet.                          *)
LEMMA DeleteStartGuarded ==
  ASSUME Alone, Sound, Sound', Guarded, NEW t \in Tasks, NEW v \in VolIds, DeleteStart(t, v)
  PROVE  Guarded'
<1> DEFINE m == Mapped(vols[v].blocks)
           x == [kind |-> "delete", vol |-> v, mapped |-> m, todo |-> m,
                 old |-> None, unlink |-> None]
<1>1. /\ ~Deleting(v) /\ ~Storing(v) /\ Live(v) /\ tasks[t] = Idle
      /\ UNCHANGED <<disk, table, vols, snaps>>
      /\ tasks' = [tasks EXCEPT ![t] = x] /\ tasks \in [Tasks -> TaskRecord]
  BY ZenonT(60) DEF DeleteStart, Usable, Alone, Sound, Typed
<1>2. /\ tasks'[t] = x /\ x.kind = "delete" /\ x.vol = v /\ x.mapped = m /\ x.todo = m
      /\ x.old = None /\ x.unlink = None /\ tasks[t].kind = "idle"
      /\ \A u \in Tasks : u # t => tasks'[u] = tasks[u]
  <2>1. x.kind = "delete" /\ x.vol = v /\ x.mapped = m /\ x.todo = m /\ x.old = None /\ x.unlink = None
    BY ZenonT(60)
  <2> HIDE DEF x
  <2>2. tasks'[t] = x /\ \A u \in Tasks : u # t => tasks'[u] = tasks[u]
    BY <1>1, ZenonT(60)
  <2> QED BY <1>1, <2>1, <2>2, IdleKind, ZenonT(60)
<1> HIDE DEF x
<1>3. \A u \in Tasks : tasks[u].kind # "idle" => tasks[u].vol # v
  <2> SUFFICES ASSUME NEW u \in Tasks, tasks[u].kind # "idle"
               PROVE  tasks[u].vol # v
    BY ZenonT(60)
  <2>1. tasks[u].kind \in {"store", "delete"}
    <3>1. tasks[u] \in TaskRecord
      BY <1>1, ZenonT(60)
    <3> QED BY <3>1, KindOf, ZenonT(60)
  <2> QED BY <1>1, <2>1, ZenonT(60) DEF Deleting, Storing
<1>4. ASSUME NEW u \in Tasks
      PROVE  Sole(u)'
  BY <1>1, <1>2, <1>3, ZenonT(60) DEF Sole, Live, Guarded, Undisturbed
<1>5. Undisturbed'
  BY <1>1, <1>4, StaysUndisturbed, ZenonT(60) DEF Guarded, Undisturbed, Live
<1>6. \A w \in VolIds, p \in Offsets : Holds(w, p)' => Holds(w, p)
  BY <1>1, <1>2, ZenonT(60) DEF Holds, Live
<1>7. Unlinking' \subseteq Unlinking
  BY <1>1, <1>2, ZenonT(60) DEF Unlinking
<1> QED BY <1>1, <1>5, <1>6, <1>7, SameVolumes, ZenonT(60)

(* backend.delete_block is through: the block had no holder.               *)
LEMMA UnlinkGuarded ==
  ASSUME Sound, Sound', Guarded, NEW t \in Tasks, Unlink(t)
  PROVE  Guarded'
<1> DEFINE x == [tasks[t] EXCEPT !.unlink = None]
<1>1. /\ tasks[t].kind = "delete" /\ tasks[t] \in DeleteTask /\ tasks \in [Tasks -> TaskRecord]
      /\ tasks' = [tasks EXCEPT ![t] = x] /\ disk' = disk \ {tasks[t].unlink}
      /\ UNCHANGED <<table, vols, snaps>>
  BY Kinds, ZenonT(60) DEF Unlink, Sound, Typed
<1>2. /\ tasks'[t] = x /\ x.kind = "delete" /\ x.vol = tasks[t].vol /\ x.old = tasks[t].old
      /\ x.mapped = tasks[t].mapped /\ x.todo = tasks[t].todo /\ x.unlink = None
      /\ \A u \in Tasks : u # t => tasks'[u] = tasks[u]
  BY <1>1, ZenonT(60) DEF DeleteTask
<1> HIDE DEF x
<1>3. \A u \in Tasks : Sole(u)'
  <2>1. \A u \in Tasks : SameJob(tasks'[u], tasks[u])
    BY <1>1, <1>2, ZenonT(60) DEF SameJob
  <2> QED BY <1>1, <2>1, SoleSame, ZenonT(60) DEF Guarded
<1>4. Undisturbed'
  BY <1>1, <1>3, StaysUndisturbed, ZenonT(60) DEF Guarded, Undisturbed, Live
<1>5. \A w \in VolIds, p \in Offsets : Holds(w, p)' => Holds(w, p)
  BY <1>1, <1>2, ZenonT(60) DEF Holds, Live
<1>6. \A b : b \in disk \ Unlinking => b \in disk' \ Unlinking'
  <2>1. Unlinking' \subseteq Unlinking
    BY <1>1, <1>2, ZenonT(60) DEF Unlinking
  <2>2. None \notin disk
    <3>1. disk \subseteq 1 .. Len(content) /\ Len(content) <= MaxBlocks /\ Len(content) \in Nat
      BY DEF Sound, Typed
    <3>2. None \notin 1 .. MaxBlocks /\ MaxBlocks \in Nat
      BY ONLY ControllerAssumption
    <3>3. 1 .. Len(content) \subseteq 1 .. MaxBlocks
      BY ONLY <3>1, <3>2
    <3> QED BY <3>1, <3>2, <3>3, ZenonT(60)
  <2>3. tasks[t].unlink = None \/ tasks[t].unlink \in Unlinking
    BY <1>1, ZenonT(60) DEF Unlinking
  <2> QED BY <1>1, <2>1, <2>2, <2>3, ZenonT(60)
<1> QED BY <1>1, <1>4, <1>5, <1>6, SameVolumes, ZenonT(60)

(* delete_volume ends with everything given up.                            *)
LEMMA DeleteFinishGuarded ==
  ASSUME Sound, Sound', Guarded, NEW t \in Tasks, DeleteFinish(t)
  PROVE  Guarded'
<1> DEFINE v == tasks[t].vol
<1>1. tasks[t].kind = "delete" /\ tasks[t] \in DeleteTask /\ tasks[t].todo = {}
  BY Kinds, ZenonT(60) DEF DeleteFinish, Sound, Typed
<1>2. v \in VolIds /\ Sole(t)
  BY <1>1, ZenonT(60) DEF DeleteTask, Guarded, Undisturbed
<1>3. /\ vols' = [vols EXCEPT ![v] = [st |-> "gone", blocks |-> Unmapped]]
      /\ vols \in [VolIds -> Holder]
      /\ tasks' = [u \in Tasks |-> IF u = t THEN Idle ELSE Detached(v, u)]
      /\ UNCHANGED <<disk, table, snaps>>
  BY ZenonT(60) DEF DeleteFinish, Sound, Typed
<1>4. /\ tasks'[t].kind = "idle"
      /\ \A u \in Tasks : u # t => tasks'[u] = tasks[u]
  BY <1>1, <1>2, <1>3, ZenonT(60) DEF Idle, Detached, Sole
<1>5. /\ vols'[v].st = "gone" /\ vols'[v].blocks = Unmapped
      /\ \A w \in VolIds : w # v => vols'[w] = vols[w]
  BY <1>2, <1>3, ZenonT(60)
<1>6. ASSUME NEW u \in Tasks
      PROVE  Sole(u)'
  <2> SUFFICES ASSUME tasks'[u].kind = "delete"
               PROVE  Sole(u)'
    BY ZenonT(60) DEF Sole
  <2>1. u # t /\ tasks'[u] = tasks[u] /\ Sole(u) /\ tasks[u] \in DeleteTask
    BY <1>4, Kinds, ZenonT(60) DEF Guarded, Undisturbed, Sound, Typed
  <2>2. tasks[u].vol # v /\ tasks[u].vol \in VolIds
    BY <1>1, <1>2, <2>1, ZenonT(60) DEF Sole, DeleteTask
  <2> QED BY <1>4, <1>5, <2>1, <2>2, ZenonT(60) DEF Sole, Live
<1>7. Undisturbed'
  <2>1. \A w \in VolIds : ~Live(w)' => vols'[w].blocks = Unmapped
    BY <1>5, ZenonT(60) DEF Live, Guarded, Undisturbed
  <2> QED BY <1>3, <1>6, <2>1, StaysUndisturbed, ZenonT(60) DEF Guarded
<1>8. ASSUME NEW w \in VolIds, NEW p \in Offsets, Holds(w, p)'
      PROVE  Holds(w, p) /\ vols'[w].blocks[p] = vols[w].blocks[p]
  <2>1. w # v
    BY <1>5, <1>8, ZenonT(60) DEF Holds, Live
  <2>2. \A u \in Tasks : tasks[u].kind = "delete" /\ tasks[u].vol = w => p \in tasks[u].todo
    BY <1>4, <1>8, <2>1, ZenonT(60) DEF Holds
  <2> QED BY <1>5, <1>8, <2>1, <2>2, ZenonT(60) DEF Holds, Live
<1>9. Unlinking' \subseteq Unlinking
  BY <1>4, ZenonT(60) DEF Unlinking
<1>10. ASSUME NEW x \in Held'
       PROVE  x \in Held /\ At(x)' = At(x) /\ At(x).block \in disk' \ Unlinking'
  <2>1. PICK w \in VolIds, p \in Offsets :
          /\ x = <<w, p>> /\ Holds(w, p)' /\ (Holds(w, p) => x \in Held)
          /\ At(x) = vols[w].blocks[p] /\ At(x)' = vols'[w].blocks[p]
    BY HeldPair, ZenonT(60)
  <2>2. x \in Held /\ At(x)' = At(x)
    BY <1>8, <2>1, ZenonT(60)
  <2>3. At(x).block \in disk \ Unlinking
    BY <2>2, ZenonT(60) DEF Guarded, HeldLive
  <2>4. disk' = disk
    BY <1>3, ZenonT(60)
  <2> QED BY ONLY <1>9, <2>2, <2>3, <2>4
<1> QED BY <1>3, <1>7, <1>10, QuietStep, ZenonT(60) DEF Guarded
(* The next block of the deletion: its last reference goes only when       *)
(* nobody else holds it.                                                   *)
LEMMA DeleteNextGuarded ==
  ASSUME Sound, Sound', Guarded, NEW t \in Tasks, DeleteNext(t)
  PROVE  Guarded'
<1>1. PICK o \in tasks[t].todo :
        LET task == tasks[t]
            vb == Iterated(t)[o]
            fp == Fingerprint(vb.data)
            suspends == RefsLeft(fp) = 0 /\ (vb.block \in disk \/ ioq # <<>>)
        IN /\ Dereference(fp)
           /\ tasks' = [tasks EXCEPT ![t] =
                          [task EXCEPT !.todo = task.todo \ {o},
                                       !.unlink = IF suspends THEN vb.block ELSE None]]
           /\ ioq' = IF suspends THEN Append(ioq, t) ELSE ioq
           /\ running' = IF suspends THEN None ELSE t
  BY ZenonT(60) DEF DeleteNext
<1> DEFINE v == tasks[t].vol
           y == <<v, o>>
           d == At(y).data
           fp == Fingerprint(d)
           x == tasks'[t]
<1>2. /\ tasks[t].kind = "delete" /\ tasks[t] \in DeleteTask /\ tasks \in [Tasks -> TaskRecord]
      /\ tasks[t].todo \subseteq tasks[t].mapped /\ Sole(t)
  BY Kinds, ZenonT(60) DEF DeleteNext, Sound, DeletesGood, DeleteOK, Typed, Guarded, Undisturbed
<1>3. v \in VolIds /\ Iterated(t) = vols[v].blocks /\ Iterated(t)[o] = At(y)
  BY <1>2, ZenonT(60) DEF Iterated, Sole, DeleteTask, At
<1>4. o \in Offsets /\ At(y) # None /\ y \in Held
  <2>1. o \in Offsets /\ vols[v].blocks[o] # None
    BY <1>2, ZenonT(60) DEF Sole, Mapped
  <2>2. Holds(v, o)
    BY <1>2, <2>1, ZenonT(60) DEF Holds, Sole
  <2> QED BY <1>3, <2>1, <2>2, HeldIs, ZenonT(60)
<1>5. /\ x.kind = "delete" /\ x.vol = v /\ x.old = tasks[t].old /\ x.mapped = tasks[t].mapped
      /\ x.todo = tasks[t].todo \ {o}
      /\ \A u \in Tasks : u # t => tasks'[u] = tasks[u]
  <2>1. PICK b : tasks' = [tasks EXCEPT ![t] = [tasks[t] EXCEPT !.todo = tasks[t].todo \ {o},
                                                               !.unlink = b]]
    BY <1>1, ZenonT(60)
  <2> QED BY <1>2, <2>1, ZenonT(60) DEF DeleteTask
<1>6. Dereference(fp) /\ (x.unlink = None \/ (x.unlink = At(y).block /\ RefsLeft(fp) = 0))
  <2> DEFINE b == IF RefsLeft(fp) = 0 /\ (At(y).block \in disk \/ ioq # <<>>)
                  THEN At(y).block ELSE None
  <2>1. /\ Dereference(fp)
        /\ tasks' = [tasks EXCEPT ![t] = [tasks[t] EXCEPT !.todo = tasks[t].todo \ {o},
                                                          !.unlink = b]]
    BY <1>1, <1>3, ZenonT(60)
  <2>2. b = None \/ (b = At(y).block /\ RefsLeft(fp) = 0)
    BY ZenonT(60)
  <2> HIDE DEF b
  <2>3. x.unlink = b
    BY <1>2, <2>1, ZenonT(60) DEF DeleteTask
  <2> QED BY <2>1, <2>2, <2>3, ZenonT(60)
<1>7. UNCHANGED <<content, disk, vols, snaps>>
  BY ZenonT(60) DEF DeleteNext
<1> HIDE DEF x, y, d, fp, v
<1>8. Undisturbed'
  <2>1. \A u \in Tasks : Sole(u)'
    <3>1. \A u \in Tasks : SameJob(tasks'[u], tasks[u])
      BY <1>2, <1>5, ZenonT(60) DEF SameJob, x, v
    <3> QED BY <1>7, <3>1, SoleSame, ZenonT(60) DEF Guarded
  <2> QED BY <1>7, <2>1, StaysUndisturbed, ZenonT(60) DEF Guarded, Undisturbed, Live
<1>9. ASSUME NEW z \in Held'
      PROVE  z \in Held /\ z # y /\ At(z)' = At(z)
  <2>1. PICK w \in VolIds, p \in Offsets :
          /\ z = <<w, p>> /\ Holds(w, p)' /\ (Holds(w, p) => z \in Held)
          /\ At(z) = vols[w].blocks[p] /\ At(z)' = vols'[w].blocks[p]
    BY HeldPair, ZenonT(60)
  <2>2. \A u \in Tasks : tasks'[u].kind = "delete" /\ tasks'[u].vol = w => p \in tasks'[u].todo
    BY <2>1, ZenonT(60) DEF Holds
  <2>3. w = v => p # o /\ p \in tasks[t].todo
    BY <1>5, <2>2, ZenonT(60) DEF x
  <2>4. \A u \in Tasks : tasks[u].kind = "delete" /\ tasks[u].vol = w => p \in tasks[u].todo
    BY <1>5, <2>2, <2>3, ZenonT(60) DEF v
  <2>5. Holds(w, p)
    BY <1>7, <2>1, <2>4, ZenonT(60) DEF Holds, Live
  <2>6. z # y
    BY <2>1, <2>3, ZenonT(60) DEF y
  <2>7. vols' = vols
    BY <1>7, ZenonT(60)
  <2> QED BY <2>1, <2>5, <2>6, <2>7, ZenonT(60)
<1>10. d \in Data /\ content[At(y).block] = d
  BY <1>4, HeldContent, ZenonT(60) DEF d
<1>11. ASSUME d \notin Patterns
       PROVE  /\ fp = Raw(d) /\ table[fp] # None /\ table[fp] \in Entry /\ y \in Holders(d)
              /\ IsFiniteSet(Holders(d)) /\ Cardinality(Holders(d)) \in Nat
              /\ Cardinality(Holders(d)) <= table[fp].ref
  <2>1. /\ IsFiniteSet(Holders(d)) /\ Cardinality(Holders(d)) \in Nat /\ y \in Holders(d)
    BY <1>4, HoldersFinite, ZenonT(60) DEF d
  <2>2. Cardinality(Holders(d)) # 0
    BY <2>1, FS_EmptySet, ZenonT(60)
  <2>3. fp = Raw(d) /\ fp \in Fps
    BY <1>10, <1>11, Fingerprints, ZenonT(60) DEF fp, Fingerprint
  <2>4. Cardinality(Holders(d)) <= Refs(d)
    BY <1>10, <1>11, ZenonT(60) DEF Guarded, Covered
  <2>5. table[fp] # None
    <3> SUFFICES ASSUME table[fp] = None
                 PROVE  FALSE
      BY ZenonT(60)
    <3>1. Refs(d) = 0
      BY <2>3, ZenonT(60) DEF Refs
    <3> QED BY ONLY <2>1, <2>2, <2>4, <3>1
  <2>6. table[fp] \in Entry
    BY <2>3, <2>5, ZenonT(60) DEF Sound, Typed
  <2> QED BY <2>1, <2>3, <2>4, <2>5, <2>6, ZenonT(60) DEF Refs
<1>12. ASSUME NEW e \in Data \ Patterns
       PROVE  Refs(e)' = IF e = d THEN Refs(e) - 1 ELSE Refs(e)
  <2> DEFINE q == IF RefsLeft(fp) = 0 THEN None ELSE [table[fp] EXCEPT !.ref = @ - 1]
  <2>1. table \in [Fps -> Entry \cup {None}] /\ table' = [table EXCEPT ![fp] = q]
    BY <1>6, ZenonT(60) DEF Dereference, Sound, Typed
  <2>2. fp \in Fps /\ Raw(e) \in Fps
    BY <1>10, Fingerprints, ZenonT(60) DEF fp
  <2>3. CASE e # d
    <3>1. fp # Raw(e)
      BY <2>3, Fingerprints, ZenonT(60) DEF fp, Fingerprint
    <3> QED BY <2>1, <2>2, <2>3, <3>1, ZenonT(60) DEF Refs
  <2>4. CASE e = d
    <3>1. fp = Raw(d) /\ table[fp] # None /\ table[fp] \in Entry
      BY <1>11, <2>4, ZenonT(60)
    <3>2. RefsLeft(fp) = table[fp].ref - 1 /\ table[fp].ref \in Int
      BY <3>1, ZenonT(60) DEF RefsLeft, Entry
    <3>3. RefsLeft(fp) # 0 => q \in Entry /\ q.ref = table[fp].ref - 1
      BY <3>1, EntryCount, ZenonT(60)
    <3>4. RefsLeft(fp) # 0 => q # None
      BY <3>3, ControllerAssumption, ZenonT(60) DEF Entry, BlockIds
    <3>5. RefsLeft(fp) = 0 => q = None
      BY ZenonT(60)
    <3> HIDE DEF q
    <3>6. table'[Raw(e)] = q
      BY <2>1, <2>2, <2>4, <3>1, ZenonT(60)
    <3> QED BY <2>4, <3>1, <3>2, <3>3, <3>4, <3>5, <3>6, ZenonT(60) DEF Refs
  <2> QED BY <2>3, <2>4, ZenonT(60)
<1>13. ASSUME NEW z \in Held', RefsLeft(fp) = 0, At(z).block = At(y).block
       PROVE  FALSE
  <2>1. z \in Held /\ z # y /\ At(z).data = d
    BY <1>9, <1>10, <1>13, HeldContent, ZenonT(60)
  <2>2. CASE d \in Patterns
    BY <1>4, <1>13, <2>1, <2>2, ZenonT(60) DEF Guarded, PatternsApart, d
  <2>3. CASE d \notin Patterns
    <3>0. table[fp].ref \in Int /\ RefsLeft(fp) = table[fp].ref - 1 /\ RefsLeft(fp) = 0
      BY <1>11, <1>13, <2>3, EntryCount, ZenonT(60) DEF RefsLeft
    <3>1. table[fp].ref = 1
      BY ONLY <3>0
    <3>2. z \in Holders(d)
      BY <2>1, HoldersFinite, ZenonT(60)
    <3>3. {z} \subseteq Holders(d) \ {y}
      BY <2>1, <3>2, ZenonT(60)
    <3>4. Cardinality({z}) <= Cardinality(Holders(d)) - 1
      BY <1>11, <2>3, <3>3, OneMore, ZenonT(60)
    <3>5. Cardinality({z}) = 1
      BY FS_Singleton, ZenonT(60)
    <3>6. Cardinality(Holders(d)) \in Nat /\ Cardinality(Holders(d)) <= table[fp].ref
      BY <1>11, <2>3, ZenonT(60)
    <3> QED BY ONLY <3>1, <3>4, <3>5, <3>6
  <2> QED BY <2>2, <2>3, ZenonT(60)
<1>14. ASSUME NEW z \in Held'
       PROVE  At(z).block \in disk' \ Unlinking'
  <2>1. At(z).block \in disk \ Unlinking /\ At(z).block \in BlockIds
    BY <1>9, HeldContent, ZenonT(60) DEF Guarded, HeldLive
  <2>2. ASSUME NEW u \in Tasks, tasks'[u].kind = "delete", tasks'[u].unlink # None
        PROVE  tasks'[u].unlink # At(z).block
    <3>1. CASE u = t
      BY <1>6, <1>13, <2>2, <3>1, ZenonT(60) DEF x
    <3>2. CASE u # t
      BY <1>5, <2>1, <2>2, <3>2, ZenonT(60) DEF Unlinking
    <3> QED BY <3>1, <3>2, ZenonT(60)
  <2>3. At(z).block \notin Unlinking'
    BY <2>2, ZenonT(60) DEF Unlinking
  <2> QED BY <1>7, <2>1, <2>3, ZenonT(60)
<1>15. Covered' /\ HeldLive' /\ PatternsApart'
  BY <1>4, <1>9, <1>12, <1>14, DropStep, ZenonT(60) DEF d
<1> QED BY <1>8, <1>15, ZenonT(60) DEF Guarded
(* Every step keeps the counts right; steps that share blocks, race with a *)
(* deletion or make one fail do not happen here.                           *)
LEMMA NextGuarded ==
  ASSUME Alone, Sound, Sound', Guarded, Next
  PROVE  Guarded'
<1>1. \A s \in SnapIds : snaps[s].st = "unused"
  BY ZenonT(60) DEF Guarded, Undisturbed
<1>2. ASSUME NEW t \in Tasks, DeleteRaises(t)
      PROVE  FALSE
  <2>1. tasks[t].kind = "delete" /\ Sole(t)
    BY <1>2, ZenonT(60) DEF DeleteRaises, Sound, Typed, Guarded, Undisturbed
  <2> QED BY <1>2, <2>1, ZenonT(60) DEF DeleteRaises, Iterated, Sole
<1>3. ASSUME NEW t \in Tasks, TaskStep(t) \/ \E v \in VolIds : DeleteStart(t, v)
      PROVE  Guarded'
  BY ZenonT(60), <1>2, <1>3, WriteStoredGuarded, WriteFailsGuarded, DeleteStartGuarded, DeleteNextGuarded,
     UnlinkGuarded, DeleteFinishGuarded DEF TaskStep, UnlinkFails, Alone
<1>4. ASSUME NEW s \in SnapIds, DeleteSnapshot(s)
      PROVE  FALSE
  BY <1>1, <1>4, ZenonT(60) DEF DeleteSnapshot
<1>5. ASSUME NEW s \in SnapIds, NEW v \in VolIds,
             CreateSnapshot(v, s) \/ RestoreNew(s, v) \/ RestoreInto(s, v)
      PROVE  FALSE
  BY <1>1, <1>5, ZenonT(60) DEF CreateSnapshot, RestoreNew, RestoreInto, Alone
<1>6. ASSUME NEW v \in VolIds, NEW w \in VolIds, CloneVolume(v, w)
      PROVE  FALSE
  BY <1>6, ZenonT(60) DEF CloneVolume, Alone
<1> QED BY <1>3, <1>4, <1>5, <1>6, CreateVolumeGuarded, WriteDuplicateGuarded, WriteNewGuarded, ZenonT(60)
        DEF Next

(* The counts are right in every reachable state.                          *)
THEOREM CountsRight ==
  ASSUME Alone
  PROVE  Spec => []Guarded
<1>1. Init => Guarded
  <2> SUFFICES ASSUME Init
               PROVE  Guarded
    BY ZenonT(60)
  <2>1. Held = {}
    BY ZenonT(60) DEF Init, Held, Holds, Live
  <2>2. \A d : Cardinality(Holders(d)) = 0
    BY <2>1, HoldersFinite, FS_EmptySet, ZenonT(60)
  <2>3. \A d \in Data : Refs(d) = 0
    BY Fingerprints, ZenonT(60) DEF Init, Refs
  <2>4. Undisturbed
    BY ZenonT(60) DEF Init, Undisturbed, Sole, Idle
  <2>5. HeldLive /\ PatternsApart
    BY <2>1, ZenonT(60) DEF HeldLive, PatternsApart
  <2>6. Covered
    <3>1. \A d \in Data : Cardinality(Holders(d)) <= Refs(d)
      BY <2>2, <2>3
    <3> QED BY <3>1, ZenonT(60) DEF Covered
  <2> QED BY <2>4, <2>5, <2>6, ZenonT(60) DEF Guarded
<1>2. Sound /\ Sound' /\ Guarded /\ [Next]_vars => Guarded'
  <2>1. ASSUME Guarded, UNCHANGED vars
        PROVE  Guarded'
    <3>1. UNCHANGED <<content, disk, table, vols, snaps, tasks>>
      BY <2>1, ZenonT(60) DEF vars
    <3>2. Undisturbed'
      BY <2>1, <3>1, ZenonT(60) DEF Guarded, Undisturbed, Sole, Live
    <3>3. Held' = Held /\ Unlinking' = Unlinking /\ \A x : At(x)' = At(x)
      BY <3>1, ZenonT(60) DEF Held, At, Holds, Live, Unlinking
    <3>4. \A d : Holders(d)' = Holders(d) /\ Refs(d)' = Refs(d)
      BY <3>1, ZenonT(60) DEF Holders, Holds, Live, Refs
    <3> QED BY <2>1, <3>1, <3>2, <3>3, <3>4, ZenonT(60) DEF Guarded, Covered, HeldLive, PatternsApart
  <2> QED BY <2>1, NextGuarded, ZenonT(60)
<1> QED BY <1>1, <1>2, StateSound, PTL DEF Spec

(* Without clones, snapshots and racing or failing deletions the table     *)
(* counts a reference for each mapped offset it deduplicates, whatever     *)
(* writes and deletions overlap: dereference_block does not reach zero     *)
(* while an offset still uses the block.                                   *)
THEOREM ReferencesCovered ==
  ASSUME Alone
  PROVE  Spec => []RefsCover
<1>1. TypeOK /\ Guarded => RefsCover
  BY DEF Guarded, Covered, Refs, RefsCover
<1> QED BY <1>1, TypeCorrect, CountsRight, PTL

(* Under the same conditions read() finds the block of every mapped offset *)
(* of a volume that is not being deleted.                                  *)
THEOREM NothingDangles ==
  ASSUME Alone
  PROVE  Spec => []NoDangling
<1>1. Guarded => NoDangling
  <2> SUFFICES ASSUME Guarded, NEW v \in VolIds, NEW o \in Offsets,
                      Live(v), ~Deleting(v), vols[v].blocks[o] # None
               PROVE  vols[v].blocks[o].block \in disk
    BY ZenonT(60) DEF NoDangling
  <2>1. Holds(v, o)
    BY ZenonT(60) DEF Holds, Deleting
  <2> QED BY <2>1, HeldIs, ZenonT(60) DEF Guarded, HeldLive
<1> QED BY <1>1, CountsRight, PTL
=============================================================================
