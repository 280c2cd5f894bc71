---------------------------- MODULE VolumeService ---------------------------
(***************************************************************************)
(* The volume and snapshot requests of the REST API (api/routes/volumes.py *)
(* and snapshots.py) over VolumeManager and SnapshotManager (core/): which *)
(* objects there are, the sizes they report, the counters of the two       *)
(* managers and the answers clients get.                                   *)
(*                                                                         *)
(* Block mappings are Python dicts, modelled as objects on a heap: a       *)
(* volume or snapshot holds a reference, writes update the dict in place,  *)
(* and clones, snapshots and restores copy it.  Write and delete suspend   *)
(* in the data path, before the step that is their action here.            *)
(***************************************************************************)
EXTENDS Integers, Sequences, FiniteSets

CONSTANTS
  MaxVols, MaxSnaps,   \* bounds on volumes and snapshots ever created
  Offsets,             \* block offsets clients use
  Sizes,               \* sizes of volumes, in blocks
  Lengths,             \* lengths of the data of a write, in blocks
  StoredSizes,         \* sizes reduce_and_store reports, 0 for a duplicate
  MaxLogical,          \* bound on total_logical_bytes
  None

ASSUME ServiceAssumption ==
  /\ {MaxVols, MaxSnaps, MaxLogical} \subseteq Nat
  /\ StoredSizes \subseteq Nat
  /\ Offsets \subseteq Nat /\ Sizes \subseteq Nat /\ Lengths \subseteq Nat \ {0}

VARIABLES
  heap,      \* heap[h]: offset -> length of the block there, 0 when there is none
  vols,      \* _volumes
  snaps,     \* _snapshots
  index,     \* _volume_snapshots: volume -> its snapshots, oldest first
  byVolume,  \* SnapshotStats.snapshots_by_volume
  total,     \* VolumeStats, and SnapshotStats.total_snapshots
  used,      \* volume and snapshot ids given out so far
  reply,     \* the status code of the last answer
  drift      \* history: the bytes of overwritten blocks, which stay in
             \* total_used_bytes, less those that clones and restores gave
             \* to volumes, which never enter it

vars == <<heap, vols, snaps, index, byVolume, total, used, reply, drift>>

VolIds == 1 .. MaxVols
SnapIds == 1 .. MaxSnaps
NoBlocks == [o \in Offsets |-> 0]

(* A dict object is named after the volume or snapshot it is made for.     *)
VolDict(v) == <<"volume", v>>
SnapDict(s) == <<"snapshot", s>>
Dicts == {VolDict(v) : v \in VolIds} \cup {SnapDict(s) : s \in SnapIds}

Mapping == [Offsets -> Lengths \cup {0}]
Volume == [size : Sizes, used : Nat, logical : Int, physical : Nat, dict : Dicts]
Snapshot == [vol : VolIds, size : Sizes, used : Nat, dict : Dicts]
Errors == {400, 404, 500}

ASSUME NoneAssumption == None \notin Volume \cup Snapshot

TypeOK ==
  /\ heap \in [Dicts -> Mapping]
  /\ vols \in [VolIds -> Volume \cup {None}]
  /\ snaps \in [SnapIds -> Snapshot \cup {None}]
  /\ index \in [VolIds -> Seq(SnapIds)]
  /\ byVolume \in [VolIds -> 0 .. MaxSnaps]
  /\ total \in [vols : Nat, provisioned : Nat, used : Int, logical : Int,
                physical : Int, snaps : Nat]
  /\ used \in [vols : 0 .. MaxVols, snaps : 0 .. MaxSnaps]
  /\ reply \in {0, 200} \cup Errors
  /\ drift \in Int

Init ==
  /\ heap = [h \in Dicts |-> NoBlocks]
  /\ vols = [v \in VolIds |-> None] /\ snaps = [s \in SnapIds |-> None]
  /\ index = [v \in VolIds |-> <<>>] /\ byVolume = [v \in VolIds |-> 0]
  /\ total = [vols |-> 0, provisioned |-> 0, used |-> 0, logical |-> 0,
              physical |-> 0, snaps |-> 0]
  /\ used = [vols |-> 0, snaps |-> 0]
  /\ reply = 0
  /\ drift = 0

-----------------------------------------------------------------------------
Live(v) == vols[v] # None
SnapLive(s) == snaps[s] # None

Answer(code) == reply' = code

(* A request that finds no volume, no snapshot or a bad argument leaves    *)
(* what is modelled here.  A write beyond the end has stored its block and *)
(* counted a reference by then: StorageController has that part.           *)
Refuse(code) ==
  /\ Answer(code)
  /\ UNCHANGED <<heap, vols, snaps, index, byVolume, total, used, drift>>

(* VolumeManager.create_volume with the next id and a new dict; clone and  *)
(* restore then fill in blocks and sizes.                                  *)
AddVolume(size, blocks, usedBytes, logical) ==
  LET v == used.vols + 1
  IN  /\ v \in VolIds
      /\ heap' = [heap EXCEPT ![VolDict(v)] = blocks]
      /\ vols' = [vols EXCEPT ![v] = [size |-> size, used |-> usedBytes, logical |-> logical,
                                      physical |-> 0, dict |-> VolDict(v)]]
      /\ total' = [total EXCEPT !.vols = @ + 1, !.provisioned = @ + size]
      /\ used' = [used EXCEPT !.vols = v]
      /\ drift' = drift - usedBytes
      /\ Answer(200)

CreateVolume(size) ==
  /\ AddVolume(size, NoBlocks, 0, 0)
  /\ UNCHANGED <<snaps, index, byVolume>>

(* clone_volume: used and logical bytes are copied, the totals are not     *)
(* told of them.                                                           *)
CloneVolume(v) ==
  \/ /\ ~Live(v) /\ Refuse(404)
  \/ /\ Live(v)
     /\ AddVolume(vols[v].size, heap[vols[v].dict], vols[v].used, vols[v].logical)
     /\ UNCHANGED <<snaps, index, byVolume>>

Resized(v, size) ==
  /\ vols' = [vols EXCEPT ![v].size = size]
  /\ total' = [total EXCEPT !.provisioned = @ + size - vols[v].size]

ResizeVolume(v, size) ==
  \/ /\ ~Live(v) /\ Refuse(404)
  \/ /\ Live(v) /\ size < vols[v].size /\ Refuse(400)
  \/ /\ Live(v) /\ size >= vols[v].size
     /\ Resized(v, size)
     /\ Answer(200)
     /\ UNCHANGED <<heap, snaps, index, byVolume, used, drift>>

(* The end of delete_volume, once the blocks are given up; the dict goes   *)
(* with the volume, its snapshots stay.                                    *)
DeleteVolume(v) ==
  \/ /\ ~Live(v) /\ Refuse(404)
  \/ /\ Live(v)
     /\ vols' = [vols EXCEPT ![v] = None]
     /\ heap' = [heap EXCEPT ![vols[v].dict] = NoBlocks]
     /\ total' = [total EXCEPT !.vols = @ - 1, !.provisioned = @ - vols[v].size,
                               !.used = @ - vols[v].used, !.logical = @ - vols[v].logical,
                               !.physical = @ - vols[v].physical]
     /\ Answer(200)
     /\ UNCHANGED <<snaps, index, byVolume, used, drift>>

-----------------------------------------------------------------------------
(* Mutant: an overwrite does not take the old block's size off.            *)
MutWriteBlock(v, o, n, p) ==
  /\ heap' = [heap EXCEPT ![vols[v].dict][o] = n]
  /\ vols' = [vols EXCEPT ![v] = [@ EXCEPT !.used = @ + n, !.logical = @ + n, !.physical = p]]
  /\ total' = [total EXCEPT !.used = @ + n, !.logical = @ + n]
  /\ drift' = drift + heap[vols[v].dict][o]

(* VolumeManager.write_block on a live volume: the old block's size comes  *)
(* off the volume, but not off the totals.  A restore does not set logical *)
(* bytes, so they can drop below zero here.                                *)
WriteBlock(v, o, n, p) ==
  LET vol == vols[v]
      old == heap[vol.dict][o]
  IN  /\ heap' = [heap EXCEPT ![vol.dict][o] = n]
      /\ vols' = [vols EXCEPT ![v] = [vol EXCEPT !.used = @ - old + n, !.logical = @ - old + n,
                                                 !.physical = p]]
      /\ total' = [total EXCEPT !.used = @ + n, !.logical = @ + n]
      /\ drift' = drift + old

(* The end of controller.write.  It suspends in the data path between its  *)
(* own look at the volume and the one write_block takes, and does not      *)
(* notice when write_block no longer finds the volume: that is answered as *)
(* a success.                                                              *)
Write(v, o, n) ==
  \/ /\ ~Live(v) /\ (Refuse(404) \/ (v <= used.vols /\ Refuse(200)))
  \/ /\ Live(v) /\ o + n > vols[v].size /\ Refuse(400)
  \/ /\ Live(v) /\ o + n <= vols[v].size
     /\ total.logical + n <= MaxLogical
     /\ \E p \in StoredSizes : WriteBlock(v, o, n, p)
     /\ Answer(200)
     /\ UNCHANGED <<snaps, index, byVolume, used>>

-----------------------------------------------------------------------------
CreateSnapshot(v) ==
  \/ /\ ~Live(v) /\ Refuse(404)
  \/ LET s == used.snaps + 1
     IN  /\ Live(v) /\ s \in SnapIds
         /\ heap' = [heap EXCEPT ![SnapDict(s)] = heap[vols[v].dict]]
         /\ snaps' = [snaps EXCEPT ![s] = [vol |-> v, size |-> vols[v].size,
                                           used |-> vols[v].used, dict |-> SnapDict(s)]]
         /\ index' = [index EXCEPT ![v] = Append(@, s)]
         /\ byVolume' = [byVolume EXCEPT ![v] = Len(index[v]) + 1]
         /\ total' = [total EXCEPT !.snaps = @ + 1]
         /\ used' = [used EXCEPT !.snaps = s]
         /\ Answer(200)
         /\ UNCHANGED <<vols, drift>>

(* list.remove: the items behind the first s move up.  It raises when      *)
(* there is no s; Without has no value then.                               *)
FirstAt(seq, s) ==
  CHOOSE i \in DOMAIN seq : seq[i] = s /\ \A j \in DOMAIN seq : j < i => seq[j] # s
Without(seq, s) ==
  [i \in 1 .. Len(seq) - 1 |-> IF i < FirstAt(seq, s) THEN seq[i] ELSE seq[i + 1]]

(* The routes find a snapshot under the volume it was taken of, also when  *)
(* that volume is gone.                                                    *)
Found(v, s) == SnapLive(s) /\ snaps[s].vol = v

DropSnapshot(v, s) ==
  /\ snaps' = [snaps EXCEPT ![s] = None]
  /\ heap' = [heap EXCEPT ![snaps[s].dict] = NoBlocks]
  /\ index' = [index EXCEPT ![v] = Without(@, s)]
  /\ byVolume' = [byVolume EXCEPT ![v] = Len(Without(index[v], s))]
  /\ total' = [total EXCEPT !.snaps = @ - 1]

DeleteSnapshot(v, s) ==
  \/ /\ ~Found(v, s) /\ Refuse(404)
  \/ /\ Found(v, s)
     /\ DropSnapshot(v, s)
     /\ Answer(200)
     /\ UNCHANGED <<vols, used, drift>>

(* Mutant: the volume is given the snapshot's dict and not a copy of it.   *)
MutRestoreInto(v, s, target) ==
  \/ /\ ~Found(v, s) /\ Refuse(404)
  \/ /\ Found(v, s) /\ ~Live(target) /\ Refuse(500)
  \/ /\ Found(v, s) /\ Live(target)
     /\ vols' = [vols EXCEPT ![target] = [@ EXCEPT !.dict = snaps[s].dict, !.used = snaps[s].used]]
     /\ drift' = drift + vols[target].used - snaps[s].used
     /\ Answer(200)
     /\ UNCHANGED <<heap, snaps, index, byVolume, total, used>>

(* restore_snapshot into an existing volume, of any size: a copy of the    *)
(* snapshot's dict, and its used bytes.                                    *)
RestoreInto(v, s, target) ==
  \/ /\ ~Found(v, s) /\ Refuse(404)
  \/ /\ Found(v, s) /\ ~Live(target) /\ Refuse(500)
  \/ /\ Found(v, s) /\ Live(target)
     /\ heap' = [heap EXCEPT ![VolDict(target)] = heap[snaps[s].dict]]
     /\ vols' = [vols EXCEPT ![target] = [@ EXCEPT !.dict = VolDict(target),
                                                   !.used = snaps[s].used]]
     /\ drift' = drift + vols[target].used - snaps[s].used
     /\ Answer(200)
     /\ UNCHANGED <<snaps, index, byVolume, total, used>>

(* restore_snapshot into a new volume; its logical bytes start at zero.    *)
RestoreNew(v, s) ==
  \/ /\ ~Found(v, s) /\ Refuse(404)
  \/ /\ Found(v, s)
     /\ AddVolume(snaps[s].size, heap[snaps[s].dict], snaps[s].used, 0)
     /\ UNCHANGED <<snaps, index, byVolume>>

-----------------------------------------------------------------------------
Next ==
  \/ \E n \in Sizes : CreateVolume(n)
  \/ \E v \in VolIds :
       \/ DeleteVolume(v)
       \/ \E n \in Sizes : ResizeVolume(v, n)
       \/ \E o \in Offsets, n \in Lengths : Write(v, o, n)
       \/ CloneVolume(v) \/ CreateSnapshot(v)
       \/ \E s \in SnapIds : \/ DeleteSnapshot(v, s) \/ RestoreNew(v, s)
                            \/ \E target \in VolIds : RestoreInto(v, s, target)

Spec == Init /\ [][Next]_vars

-----------------------------------------------------------------------------
LiveVols == {v \in VolIds : Live(v)}
LiveSnaps == {s \in SnapIds : SnapLive(s)}

(* The blocks' worth of data a dict maps, of space volumes are given and   *)
(* of data they report, as pairs of an owner and a position: as many as    *)
(* the sizes add up to.                                                    *)
MappedCells(f) == UNION {{o} \X (1 .. f[o]) : o \in Offsets}
Mapped(h) == Cardinality(MappedCells(heap[h]))
SizeCells == UNION {{v} \X (1 .. vols[v].size) : v \in LiveVols}
UsedCells == UNION {{v} \X (1 .. vols[v].used) : v \in LiveVols}

(* Of the figures kept by hand in every operation, these are exact: the    *)
(* used_bytes of a volume or a snapshot is the sum of the block sizes it   *)
(* maps, through overwrites, clones and restores; the totals count the     *)
(* volumes, their sizes and the snapshots; a volume's list names each of   *)
(* its snapshots once, oldest first, and no other, also after it is gone.  *)
(* total_used_bytes is not the sum of the volumes' used_bytes: it differs  *)
(* by the drift and by nothing else, whichever volumes are deleted.        *)
CountersExact ==
  /\ TypeOK
  /\ \A v \in LiveVols : vols[v].used = Mapped(vols[v].dict)
  /\ \A s \in LiveSnaps : snaps[s].used = Mapped(snaps[s].dict)
  /\ total.vols = Cardinality(LiveVols)
  /\ total.provisioned = Cardinality(SizeCells)
  /\ total.used = Cardinality(UsedCells) + drift
  /\ total.snaps = Cardinality(LiveSnaps)
  /\ \A v \in VolIds :
       /\ {index[v][i] : i \in DOMAIN index[v]} = {s \in LiveSnaps : snaps[s].vol = v}
       /\ \A i, j \in DOMAIN index[v] : i < j => index[v][i] < index[v][j]
       /\ byVolume[v] = Len(index[v])

(* "Immutable once created" (SnapshotManager): no request, a write to a    *)
(* volume restored from it included, changes what a snapshot maps.         *)
SnapshotsImmutable ==
  [][\A s \in SnapIds : snaps[s] # None /\ snaps'[s] # None =>
       snaps'[s] = snaps[s] /\ heap'[snaps'[s].dict] = heap[snaps[s].dict]]_vars

(* A write to one volume does not show in another, cloned or restored from *)
(* the same place: every step changes the mapping of one volume at most.   *)
WritesStayInVolume ==
  [][\A v, w \in VolIds :
       LET Changed(x) == /\ vols[x] # None /\ vols'[x] # None
                         /\ heap'[vols'[x].dict] # heap[vols[x].dict]
       IN  Changed(v) /\ Changed(w) => v = w]_vars
=============================================================================
