------------------------- MODULE VolumeServiceProofs ------------------------
(***************************************************************************)
(* For every number of volumes and snapshots: snapshots never change, a    *)
(* step shows in one volume only, and the sizes and counters that the      *)
(* managers keep by hand are exact, or off by exactly the drift.           *)
(*                                                                         *)
(* The first two follow from Owned: the copies that clone, snapshot and    *)
(* restore make leave no two volumes or snapshots with the same dict       *)
(* object.  The counters need, besides it, that each used_bytes is the     *)
(* size of what its dict maps, and that ids not given out yet are free.    *)
(***************************************************************************)
EXTENDS VolumeService, FiniteSetTheorems, TLAPS

(* n blocks' worth of data is what f maps.                                 *)
Sized(f, n) == IsFiniteSet(MappedCells(f)) /\ n = Cardinality(MappedCells(f))

(* Every volume and snapshot refers to the dict made for it and knows what *)
(* that maps; snapshot ids not given out yet have no snapshot.             *)
Owned ==
  /\ heap \in [Dicts -> Mapping]
  /\ vols \in [VolIds -> Volume \cup {None}]
  /\ snaps \in [SnapIds -> Snapshot \cup {None}]
  /\ used \in [vols : Nat, snaps : Nat]
  /\ \A v \in VolIds : vols[v] # None => /\ vols[v].dict = VolDict(v)
                                         /\ Sized(heap[VolDict(v)], vols[v].used)
  /\ \A s \in SnapIds : snaps[s] # None => /\ snaps[s].dict = SnapDict(s)
                                           /\ Sized(heap[SnapDict(s)], snaps[s].used)
  /\ \A s \in SnapIds : s > used.snaps => snaps[s] = None

-----------------------------------------------------------------------------
(* Cells are counted as pairs of an owner and a position, a row of n of    *)
(* them for each owner.                                                    *)
Row(x, n) == {x} \X (1 .. n)

(* A row has as many cells as it is long.                                  *)
LEMMA RowCount ==
  ASSUME NEW x, NEW n \in Nat
  PROVE  IsFiniteSet(Row(x, n)) /\ Cardinality(Row(x, n)) = n
<1>1. 1 \in Int /\ n \in Int
  OBVIOUS
<1>2. IsFiniteSet(1 .. n) /\ Cardinality(1 .. n) = IF 1 > n THEN 0 ELSE n - 1 + 1
  BY ONLY <1>1, FS_Interval, ZenonT(60)
<1>3. Cardinality(1 .. n) = n
  BY <1>2
<1>4. IsFiniteSet({x}) /\ Cardinality({x}) = 1
  BY FS_Singleton, ZenonT(60)
<1>5. /\ IsFiniteSet({x} \X (1 .. n))
      /\ Cardinality({x} \X (1 .. n)) = Cardinality({x}) * Cardinality(1 .. n)
  BY <1>2, <1>4, FS_Product, ZenonT(60)
<1> QED BY <1>3, <1>4, <1>5 DEF Row

(* A row joins the cells of other owners, or leaves.                       *)
LEMMA RowJoins ==
  ASSUME NEW S, IsFiniteSet(S), NEW x, NEW n \in Nat, S \cap Row(x, n) = {}
  PROVE  /\ IsFiniteSet(S \cup Row(x, n))
         /\ Cardinality(S \cup Row(x, n)) = Cardinality(S) + n
<1>1. IsFiniteSet(Row(x, n)) /\ Cardinality(Row(x, n)) = n
  BY RowCount, ZenonT(60)
<1>2. /\ IsFiniteSet(S \cup Row(x, n))
      /\ Cardinality(S \cup Row(x, n)) =
           Cardinality(S) + Cardinality(Row(x, n)) - Cardinality(S \cap Row(x, n))
  BY <1>1, FS_Union, ZenonT(60)
<1>3. Cardinality(S \cap Row(x, n)) = 0 /\ Cardinality(S) \in Nat
  BY FS_EmptySet, FS_CardinalityType, ZenonT(60)
<1> QED BY <1>1, <1>2, <1>3

(* The cells that are left when a row leaves.                              *)
LEMMA RowLeaves ==
  ASSUME NEW S, IsFiniteSet(S), NEW x, NEW n \in Nat, Row(x, n) \subseteq S
  PROVE  /\ IsFiniteSet(S \ Row(x, n))
         /\ Cardinality(S \ Row(x, n)) = Cardinality(S) - n
<1>1. S \cap Row(x, n) = Row(x, n)
  BY ZenonT(60)
<1>2. /\ IsFiniteSet(S \ Row(x, n))
      /\ Cardinality(S \ Row(x, n)) = Cardinality(S) - Cardinality(S \cap Row(x, n))
  BY FS_Difference, ZenonT(60)
<1>3. Cardinality(Row(x, n)) = n
  BY RowCount, ZenonT(60)
<1> QED BY <1>1, <1>2, <1>3, ZenonT(60)

(* The cells a dict maps, one by one.                                      *)
LEMMA CellsAre ==
  /\ \A f, z : z \in MappedCells(f) <=> \E o \in Offsets : z \in Row(o, f[o])
  /\ \A z, x, n : z \in Row(x, n) => z[1] = x
BY ZenonT(60) DEF MappedCells, Row

(* A write of n blocks' worth at o replaces what was there.                *)
LEMMA CellsWritten ==
  ASSUME NEW f \in Mapping, NEW o \in Offsets, NEW n \in Lengths, NEW u, Sized(f, u)
  PROVE  Sized([f EXCEPT ![o] = n], u - f[o] + n) /\ f[o] \in Nat
<1> DEFINE g == [f EXCEPT ![o] = n]
           S == MappedCells(f)
           T == S \ Row(o, f[o])
<1>1. f[o] \in Nat /\ n \in Nat /\ g[o] = n /\ \A p \in Offsets : p # o => g[p] = f[p]
  <2>1. Lengths \cup {0} \subseteq Nat
    BY ServiceAssumption
  <2>2. f[o] \in Lengths \cup {0}
    BY ZenonT(60) DEF Mapping
  <2>3. g[o] = n /\ \A p \in Offsets : p # o => g[p] = f[p]
    BY ZenonT(60) DEF Mapping
  <2> QED BY <2>1, <2>2, <2>3, ZenonT(60)
<1> HIDE DEF g
<1>2. Row(o, f[o]) \subseteq S
  BY CellsAre, ZenonT(60)
<1>3. \A z \in T : \E p \in Offsets : p # o /\ z \in Row(p, f[p])
  BY CellsAre, ZenonT(60)
<1>4. T \cap Row(o, n) = {}
  BY <1>3, CellsAre, ZenonT(60)
<1>5. \A z : z \in MappedCells(g) <=> z \in T \/ z \in Row(o, n)
  <2>1. ASSUME NEW z \in MappedCells(g) PROVE z \in T \/ z \in Row(o, n)
    <3>1. PICK p \in Offsets : z \in Row(p, g[p])
      BY CellsAre, ZenonT(60)
    <3>2. CASE p = o
      BY <1>1, <3>1, <3>2, ZenonT(60)
    <3>3. CASE p # o
      <4>1. z \in Row(p, f[p]) /\ z \notin Row(o, f[o])
        BY <1>1, <3>1, <3>3, CellsAre, ZenonT(60)
      <4> QED BY <4>1, CellsAre, ZenonT(60)
    <3> QED BY <3>2, <3>3, ZenonT(60)
  <2>2. ASSUME NEW z \in T PROVE z \in MappedCells(g)
    <3>1. PICK p \in Offsets : p # o /\ z \in Row(p, f[p])
      BY <1>3, ZenonT(60)
    <3> QED BY <1>1, <3>1, CellsAre, ZenonT(60)
  <2>3. ASSUME NEW z \in Row(o, n) PROVE z \in MappedCells(g)
    BY <1>1, CellsAre, ZenonT(60)
  <2> QED BY <2>1, <2>2, <2>3, ZenonT(60)
<1>6. MappedCells(g) = T \cup Row(o, n)
  BY <1>5, ZenonT(60)
<1>7. IsFiniteSet(S) /\ u = Cardinality(S)
  BY ZenonT(60) DEF Sized
<1> DEFINE m == f[o]
<1>8. IsFiniteSet(T \cup Row(o, n)) /\ Cardinality(T \cup Row(o, n)) = Cardinality(S) - m + n
  <2>1. T = S \ Row(o, m) /\ Row(o, m) \subseteq S /\ m \in Nat
    BY <1>1, <1>2, ZenonT(60)
  <2> HIDE DEF S, T, m
  <2>2. IsFiniteSet(T) /\ Cardinality(T) = Cardinality(S) - m
    BY <1>7, <2>1, RowLeaves, ZenonT(60)
  <2> QED BY <1>1, <1>4, <2>2, RowJoins
<1>9. Sized(g, u - m + n)
  <2> HIDE DEF S, T, m
  <2> QED BY <1>6, <1>7, <1>8, ZenonT(60) DEF Sized
<1> QED BY <1>1, <1>9, ZenonT(60) DEF g

-----------------------------------------------------------------------------
(* The three things a step can do to the objects: nothing; replace volume  *)
(* v and what its own dict maps; or add or remove snapshot s and its dict. *)
NoChange == UNCHANGED <<heap, vols, snaps, used>>

VolumeStep(v, f, r) ==
  /\ r # None => r.dict = VolDict(v) /\ Sized(f, r.used)
  /\ heap' = [heap EXCEPT ![VolDict(v)] = f]
  /\ vols' = [vols EXCEPT ![v] = r]
  /\ snaps' = snaps
  /\ used' \in [vols : Nat, snaps : Nat] /\ used'.snaps = used.snaps

SnapshotStep(s, f, r) ==
  /\ r # None => /\ r.dict = SnapDict(s) /\ Sized(f, r.used)
                 /\ snaps[s] = None /\ s <= used'.snaps
  /\ heap' = [heap EXCEPT ![SnapDict(s)] = f]
  /\ snaps' = [snaps EXCEPT ![s] = r]
  /\ vols' = vols
  /\ used' \in [vols : Nat, snaps : Nat] /\ used'.snaps >= used.snaps

SomeVolumeStep ==
  \E v \in VolIds, f \in Mapping, r \in Volume \cup {None} : VolumeStep(v, f, r)
SomeSnapshotStep ==
  \E s \in SnapIds, f \in Mapping, r \in Snapshot \cup {None} : SnapshotStep(s, f, r)
StepShape == NoChange \/ SomeVolumeStep \/ SomeSnapshotStep

(* The names of dicts tell their owners apart.                             *)
LEMMA DictNames ==
  /\ \A v \in VolIds : VolDict(v) \in Dicts
  /\ \A s \in SnapIds : SnapDict(s) \in Dicts
  /\ \A v, w \in VolIds : VolDict(v) = VolDict(w) => v = w
  /\ \A s, t \in SnapIds : SnapDict(s) = SnapDict(t) => s = t
  /\ \A v \in VolIds, s \in SnapIds : VolDict(v) # SnapDict(s)
BY ZenonT(60) DEF Dicts, VolDict, SnapDict

(* create_volume, and so clone and restore into a new volume, fill a dict  *)
(* of their own.                                                           *)
LEMMA AddVolumeShape ==
  ASSUME Owned, NEW size \in Sizes, NEW f \in Mapping, NEW u, Sized(f, u), NEW l \in Int,
         AddVolume(size, f, u, l), snaps' = snaps
  PROVE  SomeVolumeStep
<1> DEFINE v == used.vols + 1
           r == [size |-> size, used |-> u, logical |-> l, physical |-> 0, dict |-> VolDict(v)]
<1>1. v \in VolIds
  BY ZenonT(60) DEF AddVolume
<1>2. r \in Volume
  <2>1. u \in Nat
    BY FS_CardinalityType, ZenonT(60) DEF Sized
  <2> QED BY <1>1, <2>1, DictNames, ZenonT(60) DEF Volume
<1>3. used' \in [vols : Nat, snaps : Nat] /\ used'.snaps = used.snaps
  BY DEF AddVolume, Owned
<1>4. VolumeStep(v, f, r)
  BY <1>3, ZenonT(60) DEF AddVolume, VolumeStep
<1> QED BY <1>1, <1>2, <1>4, ZenonT(60) DEF SomeVolumeStep

(* A refused request does nothing.                                         *)
LEMMA RefuseShape ==
  ASSUME NEW c, Refuse(c)
  PROVE  NoChange
BY ZenonT(60) DEF Refuse, NoChange

(* A step on volume v that replaces its record by r, whose dict is the one *)
(* it has, and at most the mapping of that dict.                           *)
LEMMA OnVolume ==
  ASSUME Owned, NEW v \in VolIds, NEW f \in Mapping, NEW r \in Volume \cup {None},
         r # None => r.dict = VolDict(v) /\ Sized(f, r.used),
         heap' = [heap EXCEPT ![VolDict(v)] = f], vols' = [vols EXCEPT ![v] = r],
         snaps' = snaps, used' = used
  PROVE  SomeVolumeStep
<1>1. VolumeStep(v, f, r)
  BY ZenonT(60) DEF VolumeStep, Owned
<1> QED BY <1>1, ZenonT(60) DEF SomeVolumeStep

(* An empty dict is a mapping, of nothing.                                 *)
LEMMA EmptyMapping == NoBlocks \in Mapping /\ Sized(NoBlocks, 0)
<1>1. NoBlocks \in Mapping
  BY ZenonT(60) DEF NoBlocks, Mapping
<1>2. MappedCells(NoBlocks) = {}
  BY DEF NoBlocks, MappedCells
<1> QED BY <1>1, <1>2, FS_EmptySet, ZenonT(60) DEF Sized

(* clone_volume adds a volume with a dict of its own.                      *)
LEMMA CloneShape ==
  ASSUME Owned, NEW v \in VolIds, CloneVolume(v)
  PROVE  StepShape
<1>1. CASE ~Live(v)
  BY <1>1, RefuseShape, ZenonT(60) DEF CloneVolume, StepShape
<1>2. CASE Live(v)
  <2>1. vols[v] \in Volume
    BY <1>2, ZenonT(60) DEF Owned, Live
  <2>2. /\ vols[v].size \in Sizes /\ vols[v].logical \in Int
        /\ vols[v].dict \in Dicts
    BY <2>1, ZenonT(60) DEF Volume
  <2>3. heap[vols[v].dict] \in Mapping /\ Sized(heap[vols[v].dict], vols[v].used)
    BY <1>2, <2>2, ZenonT(60) DEF Owned, Live
  <2>4. /\ AddVolume(vols[v].size, heap[vols[v].dict], vols[v].used, vols[v].logical)
        /\ snaps' = snaps
    BY <1>2, ZenonT(60) DEF CloneVolume
  <2> QED BY <2>2, <2>3, <2>4, AddVolumeShape, ZenonT(60) DEF StepShape
<1> QED BY <1>1, <1>2, ZenonT(60)

(* resize_volume changes the record of one volume.                         *)
LEMMA ResizeShape ==
  ASSUME Owned, NEW v \in VolIds, NEW size \in Sizes, ResizeVolume(v, size)
  PROVE  StepShape
<1>1. CASE Refuse(404) \/ Refuse(400)
  BY <1>1, RefuseShape, ZenonT(60) DEF StepShape
<1>2. CASE Live(v) /\ Resized(v, size) /\ UNCHANGED <<heap, snaps, used>>
  <2> DEFINE r == [vols[v] EXCEPT !.size = size]
  <2>1. /\ vols[v] \in Volume /\ vols[v].dict = VolDict(v)
        /\ Sized(heap[VolDict(v)], vols[v].used)
    BY <1>2, ZenonT(60) DEF Owned, Live
  <2>2. r \in Volume /\ r.dict = VolDict(v) /\ r.used = vols[v].used
    BY <2>1, ZenonT(60) DEF Volume
  <2>3. vols' = [vols EXCEPT ![v] = r]
    BY <1>2, <2>1, ZenonT(60) DEF Resized
  <2>4. heap' = [heap EXCEPT ![VolDict(v)] = heap[VolDict(v)]] /\ heap[VolDict(v)] \in Mapping
    BY <1>2, DictNames, ZenonT(60) DEF Owned
  <2> HIDE DEF r
  <2> QED BY <1>2, <2>1, <2>2, <2>3, <2>4, OnVolume, ZenonT(60) DEF StepShape
<1> QED BY <1>1, <1>2, ZenonT(60) DEF ResizeVolume

(* delete_volume takes one volume away.                                    *)
LEMMA DeleteShape ==
  ASSUME Owned, NEW v \in VolIds, DeleteVolume(v)
  PROVE  StepShape
<1>1. CASE ~Live(v)
  BY <1>1, RefuseShape, ZenonT(60) DEF DeleteVolume, StepShape
<1>2. CASE Live(v)
  <2>1. vols[v].dict = VolDict(v)
    BY <1>2, ZenonT(60) DEF Owned, Live
  <2>2. /\ vols' = [vols EXCEPT ![v] = None] /\ heap' = [heap EXCEPT ![VolDict(v)] = NoBlocks]
        /\ snaps' = snaps /\ used' = used
    BY <1>2, <2>1, ZenonT(60) DEF DeleteVolume
  <2> QED BY <2>2, OnVolume, EmptyMapping, ZenonT(60) DEF StepShape
<1> QED BY <1>1, <1>2, ZenonT(60)

(* write changes the dict of one volume.                                   *)
LEMMA WriteShape ==
  ASSUME Owned, NEW v \in VolIds, NEW o \in Offsets, NEW n \in Lengths, Write(v, o, n)
  PROVE  StepShape
<1>1. CASE \E c : Refuse(c)
  BY <1>1, RefuseShape, ZenonT(60) DEF StepShape
<1>2. CASE /\ Live(v) /\ snaps' = snaps /\ used' = used
           /\ \E p \in StoredSizes : WriteBlock(v, o, n, p)
  <2>1. PICK p \in StoredSizes : WriteBlock(v, o, n, p)
    BY <1>2, ZenonT(60)
  <2> DEFINE old == heap[vols[v].dict][o]
             f == [heap[VolDict(v)] EXCEPT ![o] = n]
             r == [vols[v] EXCEPT !.used = @ - old + n, !.logical = @ - old + n, !.physical = p]
  <2>2. /\ vols[v] \in Volume /\ vols[v].dict = VolDict(v)
        /\ Sized(heap[VolDict(v)], vols[v].used)
    BY <1>2, ZenonT(60) DEF Owned, Live
  <2>3. heap[VolDict(v)] \in Mapping /\ VolDict(v) \in Dicts
    BY DictNames, ZenonT(60) DEF Owned
  <2>4. old \in Int /\ n \in Int /\ p \in Nat
    <3>1. Lengths \cup {0} \subseteq Int /\ StoredSizes \subseteq Nat
      BY ServiceAssumption
    <3> QED BY <2>2, <2>3, <3>1, ZenonT(60) DEF Mapping
  <2>5. f \in Mapping
    BY <2>3, ZenonT(60) DEF Mapping
  <2>6. heap' = [heap EXCEPT ![VolDict(v)] = f] /\ vols' = [vols EXCEPT ![v] = r]
    <3>1. heap' = [heap EXCEPT ![VolDict(v)][o] = n]
      BY <2>1, <2>2, ZenonT(60) DEF WriteBlock
    <3>2. heap' = [heap EXCEPT ![VolDict(v)] = f]
      BY <3>1, ZenonT(60)
    <3>3. vols' = [vols EXCEPT ![v] = r]
      BY <2>1, ZenonT(60) DEF WriteBlock
    <3> QED BY <3>2, <3>3, ZenonT(60)
  <2>7. r \in Volume /\ r.dict = VolDict(v) /\ Sized(f, r.used)
    <3> DEFINE u == vols[v].used - old + n
               l == vols[v].logical - old + n
    <3>1. Sized(f, u)
      BY <2>2, <2>3, CellsWritten, ZenonT(60)
    <3>2. u \in Nat /\ l \in Int
      <4> HIDE DEF old, u
      <4> QED BY <2>2, <2>4, <3>1, FS_CardinalityType DEF Volume, Sized
    <3>3. r = [vols[v] EXCEPT !.used = u, !.logical = l, !.physical = p]
      BY ZenonT(60)
    <3> HIDE DEF u, l, r, f
    <3>4. r = [size |-> vols[v].size, used |-> u, logical |-> l, physical |-> p,
               dict |-> vols[v].dict]
      BY <2>2, <3>3, ZenonT(60) DEF Volume
    <3> QED BY <2>2, <2>4, <3>1, <3>2, <3>4, ZenonT(60) DEF Volume
  <2> HIDE DEF r, f
  <2> QED BY <1>2, <2>5, <2>6, <2>7, OnVolume, ZenonT(60) DEF StepShape
<1> QED BY <1>1, <1>2, ZenonT(60) DEF Write

(* create_snapshot copies the dict into a new one.                         *)
LEMMA CreateSnapshotShape ==
  ASSUME Owned, NEW v \in VolIds, CreateSnapshot(v)
  PROVE  StepShape
<1>1. CASE ~Live(v)
  BY <1>1, RefuseShape, ZenonT(60) DEF CreateSnapshot, StepShape
<1>2. CASE Live(v)
  <2> DEFINE s == used.snaps + 1
             f == heap[vols[v].dict]
             r == [vol |-> v, size |-> vols[v].size, used |-> vols[v].used, dict |-> SnapDict(s)]
  <2>1. /\ s \in SnapIds /\ heap' = [heap EXCEPT ![SnapDict(s)] = f]
        /\ snaps' = [snaps EXCEPT ![s] = r] /\ vols' = vols
        /\ used' = [used EXCEPT !.snaps = s]
    BY <1>2, ZenonT(60) DEF CreateSnapshot
  <2>2. vols[v] \in Volume
    BY <1>2, ZenonT(60) DEF Owned, Live
  <2>3. /\ vols[v].size \in Sizes /\ vols[v].used \in Nat /\ f \in Mapping
        /\ Sized(f, vols[v].used)
    BY <1>2, <2>2, ZenonT(60) DEF Volume, Owned, Live
  <2>4. r \in Snapshot /\ r.dict = SnapDict(s) /\ r.used = vols[v].used
    BY <2>1, <2>3, DictNames, ZenonT(60) DEF Snapshot
  <2>5. used \in [vols : Nat, snaps : Nat] /\ snaps[s] = None
    BY <2>1 DEF Owned
  <2>6. used' \in [vols : Nat, snaps : Nat] /\ used'.snaps = s
    BY <2>1, <2>5
  <2>7. s > used.snaps /\ s \in Nat
    BY <2>5
  <2> HIDE DEF s, f, r
  <2>8. SnapshotStep(s, f, r)
    BY <2>1, <2>3, <2>4, <2>5, <2>6, <2>7 DEF SnapshotStep
  <2> QED BY <2>1, <2>3, <2>4, <2>8, ZenonT(60) DEF StepShape, SomeSnapshotStep
<1> QED BY <1>1, <1>2, ZenonT(60)

(* delete_snapshot takes one snapshot away.                                *)
LEMMA DeleteSnapshotShape ==
  ASSUME Owned, NEW v \in VolIds, NEW s \in SnapIds, DeleteSnapshot(v, s)
  PROVE  StepShape
<1>1. CASE ~Found(v, s)
  BY <1>1, RefuseShape, ZenonT(60) DEF DeleteSnapshot, StepShape
<1>2. CASE Found(v, s)
  <2>1. snaps[s].dict = SnapDict(s) /\ used \in [vols : Nat, snaps : Nat]
    BY <1>2, ZenonT(60) DEF Owned, Found, SnapLive
  <2>2. SnapshotStep(s, NoBlocks, None)
    BY <1>2, <2>1 DEF DeleteSnapshot, DropSnapshot, SnapshotStep
  <2> QED BY <2>2, EmptyMapping, ZenonT(60) DEF StepShape, SomeSnapshotStep
<1> QED BY <1>1, <1>2, ZenonT(60)

(* What a snapshot found by a request maps and records.                    *)
LEMMA FoundSnapshot ==
  ASSUME Owned, NEW v \in VolIds, NEW s \in SnapIds, Found(v, s)
  PROVE  /\ heap[snaps[s].dict] \in Mapping
         /\ snaps[s].size \in Sizes /\ snaps[s].used \in Nat
         /\ Sized(heap[snaps[s].dict], snaps[s].used)
<1>1. snaps[s] \in Snapshot /\ Sized(heap[snaps[s].dict], snaps[s].used)
  BY ZenonT(60) DEF Owned, Found, SnapLive
<1> QED BY <1>1, ZenonT(60) DEF Snapshot, Owned

(* Restoring to a new volume copies the snapshot's dict.                   *)
LEMMA RestoreNewShape ==
  ASSUME Owned, NEW v \in VolIds, NEW s \in SnapIds, RestoreNew(v, s)
  PROVE  StepShape
<1>1. CASE ~Found(v, s)
  BY <1>1, RefuseShape, ZenonT(60) DEF RestoreNew, StepShape
<1>2. CASE Found(v, s)
  BY <1>2, FoundSnapshot, AddVolumeShape DEF RestoreNew, StepShape
<1> QED BY <1>1, <1>2, ZenonT(60)

(* Restoring into a volume gives it a copy of the snapshot's dict.         *)
LEMMA RestoreIntoShape ==
  ASSUME Owned, NEW v \in VolIds, NEW s \in SnapIds, NEW target \in VolIds,
         RestoreInto(v, s, target)
  PROVE  StepShape
<1>1. CASE Refuse(404) \/ Refuse(500)
  BY <1>1, RefuseShape, ZenonT(60) DEF StepShape
<1>2. CASE ~(Refuse(404) \/ Refuse(500))
  <2> DEFINE r == [vols[target] EXCEPT !.dict = VolDict(target), !.used = snaps[s].used]
  <2>1. /\ Found(v, s) /\ Live(target)
        /\ heap' = [heap EXCEPT ![VolDict(target)] = heap[snaps[s].dict]]
        /\ vols' = [vols EXCEPT ![target] = r]
        /\ snaps' = snaps /\ used' = used
    BY <1>2, ZenonT(60) DEF RestoreInto
  <2>2. /\ heap[snaps[s].dict] \in Mapping /\ snaps[s].used \in Nat
        /\ Sized(heap[snaps[s].dict], snaps[s].used)
    BY <2>1, FoundSnapshot, ZenonT(60)
  <2>3. vols[target] \in Volume
    BY <2>1, ZenonT(60) DEF Owned, Live
  <2>4. r \in Volume /\ r.dict = VolDict(target) /\ r.used = snaps[s].used
    BY <2>2, <2>3, DictNames, ZenonT(60) DEF Volume
  <2> HIDE DEF r
  <2> QED BY <2>1, <2>2, <2>4, OnVolume, ZenonT(60) DEF StepShape
<1> QED BY <1>1, <1>2, ZenonT(60)

(* Every request is of one of the shapes.                                  *)
LEMMA NextShape ==
  ASSUME Owned, Next
  PROVE  StepShape
<1>1. ASSUME NEW n \in Sizes, CreateVolume(n)
      PROVE  StepShape
  BY <1>1, AddVolumeShape, EmptyMapping DEF CreateVolume, StepShape
<1> QED BY ZenonT(60), <1>1, DeleteShape, ResizeShape, WriteShape, CloneShape, CreateSnapshotShape,
           DeleteSnapshotShape, RestoreNewShape, RestoreIntoShape DEF Next

-----------------------------------------------------------------------------
(* Each shape leaves every dict with one owner.                            *)
LEMMA ShapeKeepsOwned ==
  ASSUME Owned, StepShape
  PROVE  Owned'
<1>1. CASE NoChange
  BY <1>1, ZenonT(60) DEF NoChange, Owned
<1>2. ASSUME NEW v \in VolIds, NEW f \in Mapping, NEW r \in Volume \cup {None},
             VolumeStep(v, f, r)
      PROVE  Owned'
  BY <1>2, DictNames, ZenonT(60) DEF VolumeStep, Owned
<1>3. ASSUME NEW s \in SnapIds, NEW f \in Mapping, NEW r \in Snapshot \cup {None},
             SnapshotStep(s, f, r)
      PROVE  Owned'
  <2>1. heap' \in [Dicts -> Mapping] /\ snaps' \in [SnapIds -> Snapshot \cup {None}]
    BY <1>3, DictNames, ZenonT(60) DEF SnapshotStep, Owned
  <2>2. ASSUME NEW t \in SnapIds
        PROVE  /\ snaps'[t] # None => /\ snaps'[t].dict = SnapDict(t)
                                       /\ Sized(heap'[SnapDict(t)], snaps'[t].used)
               /\ t > used'.snaps => snaps'[t] = None
    <3>1. t \in Int /\ used.snaps \in Nat /\ used'.snaps \in Nat /\ used'.snaps >= used.snaps
      BY <1>3 DEF SnapshotStep, Owned, SnapIds
    <3>2. CASE t = s
      BY <1>3, <3>1, <3>2, DictNames DEF SnapshotStep, Owned
    <3>3. CASE t # s
      BY <1>3, <3>1, <3>3, DictNames DEF SnapshotStep, Owned
    <3> QED BY <3>2, <3>3, ZenonT(60)
  <2>3. \A w \in VolIds : heap'[VolDict(w)] = heap[VolDict(w)]
    BY <1>3, DictNames, ZenonT(60) DEF SnapshotStep, Owned
  <2> QED BY <1>3, <2>1, <2>2, <2>3, ZenonT(60) DEF SnapshotStep, Owned
<1> QED BY <1>1, <1>2, <1>3, ZenonT(60) DEF StepShape, SomeVolumeStep, SomeSnapshotStep

(* Owned holds in every reachable state.                                   *)
THEOREM EveryDictOwned == Spec => []Owned
<1>1. Init => Owned
  BY DictNames, EmptyMapping DEF Init, Owned
<1>2. Owned /\ [Next]_vars => Owned'
  <2>1. Owned /\ UNCHANGED vars => Owned'
    BY ZenonT(60) DEF vars, Owned
  <2> QED BY <2>1, NextShape, ShapeKeepsOwned
<1> QED BY <1>1, <1>2, PTL DEF Spec

(* "Immutable once created": what a snapshot maps never changes, whatever  *)
(* requests follow.                                                        *)
THEOREM SnapshotsStay == Spec => SnapshotsImmutable
<1> DEFINE Kept(s) == snaps[s] # None /\ snaps'[s] # None =>
                        snaps'[s] = snaps[s] /\ heap'[snaps'[s].dict] = heap[snaps[s].dict]
<1>1. Owned /\ Owned' /\ [Next]_vars => [\A s \in SnapIds : Kept(s)]_vars
  <2> SUFFICES ASSUME Owned, Next, NEW s \in SnapIds, snaps[s] # None, snaps'[s] # None
               PROVE  snaps'[s] = snaps[s] /\ heap'[snaps'[s].dict] = heap[snaps[s].dict]
    BY ZenonT(60)
  <2>1. snaps[s].dict = SnapDict(s) /\ SnapDict(s) \in Dicts
    BY DictNames, ZenonT(60) DEF Owned
  <2>2. CASE NoChange
    BY <2>2, ZenonT(60) DEF NoChange
  <2>3. CASE SomeVolumeStep
    BY <2>1, <2>3, DictNames DEF SomeVolumeStep, VolumeStep, Owned
  <2>4. CASE SomeSnapshotStep
    BY <2>1, <2>4, DictNames DEF SomeSnapshotStep, SnapshotStep, Owned
  <2> QED BY <2>2, <2>3, <2>4, NextShape DEF StepShape
<1> QED BY <1>1, EveryDictOwned, PTL DEF Spec, SnapshotsImmutable

(* A step changes what one volume maps at most: clones and restored        *)
(* volumes share no dict with their sources.                               *)
THEOREM VolumesApart == Spec => WritesStayInVolume
<1> DEFINE Changed(x) == /\ vols[x] # None /\ vols'[x] # None
                         /\ heap'[vols'[x].dict] # heap[vols[x].dict]
<1>1. Owned /\ Owned' /\ [Next]_vars
        => [\A v, w \in VolIds : Changed(v) /\ Changed(w) => v = w]_vars
  <2> SUFFICES ASSUME Owned, Owned', Next, NEW v \in VolIds, NEW w \in VolIds,
                      Changed(v), Changed(w)
               PROVE  v = w
    BY ZenonT(60)
  <2>1. \A x \in VolIds : Changed(x) => heap'[VolDict(x)] # heap[VolDict(x)]
    BY ZenonT(60) DEF Owned
  <2>2. heap'[VolDict(v)] # heap[VolDict(v)] /\ heap'[VolDict(w)] # heap[VolDict(w)]
    BY <2>1, ZenonT(60)
  <2> HIDE DEF Changed
  <2>3. CASE NoChange
    BY <2>2, <2>3, ZenonT(60) DEF NoChange
  <2>4. CASE SomeVolumeStep
    BY <2>2, <2>4, DictNames, ZenonT(60) DEF SomeVolumeStep, VolumeStep, Owned
  <2>5. CASE SomeSnapshotStep
    BY <2>2, <2>5, DictNames, ZenonT(60) DEF SomeSnapshotStep, SnapshotStep, Owned
  <2> QED BY <2>3, <2>4, <2>5, NextShape DEF StepShape
<1> QED BY <1>1, EveryDictOwned, PTL DEF Spec, WritesStayInVolume
-----------------------------------------------------------------------------
(* The counters.  Ids not given out yet have no volume.                    *)
TotalRec == [vols : Int, provisioned : Int, used : Int, logical : Int, physical : Int, snaps : Int]

VolumesCounted ==
  /\ \A v \in VolIds : v > used.vols => vols[v] = None
  /\ total.vols = Cardinality(LiveVols)
  /\ IsFiniteSet(SizeCells) /\ total.provisioned = Cardinality(SizeCells)
Counted ==
  /\ total \in TotalRec
  /\ used \in [vols : 0 .. MaxVols, snaps : 0 .. MaxSnaps]
  /\ VolumesCounted
  /\ total.snaps = Cardinality(LiveSnaps)
  /\ reply \in {0, 200} \cup Errors

(* The live volumes and snapshots and the volumes' cells, one by one,      *)
(* before and after a step.                                                *)
LEMMA LiveAre ==
  /\ LiveVols \subseteq VolIds /\ LiveSnaps \subseteq SnapIds
  /\ \A v \in VolIds : v \in LiveVols <=> vols[v] # None
  /\ \A v \in VolIds : v \in LiveVols' <=> vols'[v] # None
  /\ \A s \in SnapIds : s \in LiveSnaps <=> snaps[s] # None
  /\ \A s \in SnapIds : s \in LiveSnaps' <=> snaps'[s] # None
  /\ LiveVols' \subseteq VolIds /\ LiveSnaps' \subseteq SnapIds
  /\ \A z : z \in SizeCells <=> \E v \in LiveVols : z \in Row(v, vols[v].size)
  /\ \A z : z \in SizeCells' <=> \E v \in LiveVols' : z \in Row(v, vols'[v].size)
BY ZenonT(60) DEF LiveVols, LiveSnaps, Live, SnapLive, SizeCells, Row

(* There are finitely many ids.                                            *)
LEMMA LiveFinite == IsFiniteSet(LiveVols) /\ IsFiniteSet(LiveSnaps)
<1>1. 1 \in Int /\ MaxVols \in Int /\ MaxSnaps \in Int
  BY ServiceAssumption
<1>2. IsFiniteSet(1 .. MaxVols) /\ IsFiniteSet(1 .. MaxSnaps)
  BY ONLY <1>1, FS_Interval, ZenonT(60)
<1> QED BY <1>2, LiveAre, FS_Subset, ZenonT(60) DEF VolIds, SnapIds

(* A new volume.                                                           *)
LEMMA VolumeAdded ==
  ASSUME Owned, VolumesCounted, NEW v \in VolIds, vols[v] = None, NEW r \in Volume,
         vols' = [vols EXCEPT ![v] = r]
  PROVE  /\ Cardinality(LiveVols') = Cardinality(LiveVols) + 1
         /\ IsFiniteSet(SizeCells')
         /\ Cardinality(SizeCells') = Cardinality(SizeCells) + r.size
<1>1. /\ vols'[v] = r /\ r # None /\ \A w \in VolIds : w # v => vols'[w] = vols[w]
  BY NoneAssumption, ZenonT(60) DEF Owned
<1>2. r.size \in Nat
  BY ServiceAssumption, ZenonT(60) DEF Volume
<1>3. LiveVols' = LiveVols \cup {v} /\ v \notin LiveVols
  BY <1>1, LiveAre, ZenonT(60)
<1>4. Cardinality(LiveVols \cup {v}) = Cardinality(LiveVols) + 1
  BY <1>3, LiveFinite, FS_AddElement, ZenonT(60)
<1>5. SizeCells' = SizeCells \cup Row(v, r.size)
  <2>1. \A z : z \in SizeCells' <=> z \in SizeCells \/ z \in Row(v, r.size)
    BY <1>1, <1>3, LiveAre, ZenonT(60)
  <2> QED BY <2>1, ZenonT(60)
<1>6. SizeCells \cap Row(v, r.size) = {}
  BY <1>3, LiveAre, CellsAre
<1> QED BY <1>2, <1>3, <1>4, <1>5, <1>6, RowJoins, ZenonT(60) DEF VolumesCounted

(* A volume that goes.                                                     *)
LEMMA VolumeRemoved ==
  ASSUME Owned, VolumesCounted, NEW v \in VolIds, vols[v] # None,
         vols' = [vols EXCEPT ![v] = None]
  PROVE  /\ Cardinality(LiveVols') = Cardinality(LiveVols) - 1
         /\ IsFiniteSet(SizeCells')
         /\ Cardinality(SizeCells') = Cardinality(SizeCells) - vols[v].size
<1>1. /\ vols'[v] = None /\ \A w \in VolIds : w # v => vols'[w] = vols[w]
  BY ZenonT(60) DEF Owned
<1>2. vols[v].size \in Nat
  <2>1. vols[v] \in Volume
    BY ZenonT(60) DEF Owned
  <2> QED BY <2>1, ServiceAssumption, ZenonT(60) DEF Volume
<1>3. LiveVols' = LiveVols \ {v} /\ v \in LiveVols
  BY <1>1, LiveAre, ZenonT(60)
<1>4. Cardinality(LiveVols \ {v}) = Cardinality(LiveVols) - 1
  BY <1>3, LiveFinite, FS_RemoveElement, ZenonT(60)
<1>5. SizeCells' = SizeCells \ Row(v, vols[v].size) /\ Row(v, vols[v].size) \subseteq SizeCells
  <2>1. Row(v, vols[v].size) \subseteq SizeCells
    BY <1>3, LiveAre, ZenonT(60)
  <2>2. ASSUME NEW z \in SizeCells' PROVE z \in SizeCells /\ z \notin Row(v, vols[v].size)
    <3>1. PICK w \in LiveVols' : z \in Row(w, vols'[w].size)
      BY LiveAre, ZenonT(60)
    <3>2. w # v /\ w \in LiveVols /\ z \in Row(w, vols[w].size)
      BY <1>1, <1>3, <3>1, LiveAre, ZenonT(60)
    <3> QED BY <3>2, LiveAre, CellsAre, ZenonT(60)
  <2>3. ASSUME NEW z \in SizeCells, z \notin Row(v, vols[v].size) PROVE z \in SizeCells'
    <3>1. PICK w \in LiveVols : z \in Row(w, vols[w].size)
      BY LiveAre, ZenonT(60)
    <3> QED BY <1>1, <1>3, <2>3, <3>1, LiveAre, ZenonT(60)
  <2> QED BY <2>1, <2>2, <2>3, ZenonT(60)
<1> QED BY <1>2, <1>3, <1>4, <1>5, RowLeaves, ZenonT(60) DEF VolumesCounted

(* A volume that gets another size, or keeps it.                           *)
LEMMA VolumeReplaced ==
  ASSUME Owned, VolumesCounted, NEW v \in VolIds, vols[v] # None, NEW r \in Volume,
         vols' = [vols EXCEPT ![v] = r]
  PROVE  /\ Cardinality(LiveVols') = Cardinality(LiveVols)
         /\ IsFiniteSet(SizeCells')
         /\ Cardinality(SizeCells') = Cardinality(SizeCells) - vols[v].size + r.size
<1>1. /\ vols'[v] = r /\ r # None /\ \A w \in VolIds : w # v => vols'[w] = vols[w]
  BY NoneAssumption, ZenonT(60) DEF Owned
<1> DEFINE m == vols[v].size
           n == r.size
           T == SizeCells \ Row(v, m)
<1>2. m \in Nat /\ n \in Nat
  <2>1. vols[v] \in Volume
    BY ZenonT(60) DEF Owned
  <2> QED BY <2>1, ServiceAssumption, ZenonT(60) DEF Volume
<1>3. LiveVols' = LiveVols /\ v \in LiveVols
  BY <1>1, LiveAre, ZenonT(60)
<1>4. Row(v, m) \subseteq SizeCells
  BY <1>3, LiveAre, ZenonT(60)
<1>5. \A z \in T : \E w \in LiveVols : w # v /\ z \in Row(w, vols[w].size)
  BY LiveAre, ZenonT(60)
<1>6. T \cap Row(v, n) = {}
  BY <1>5, CellsAre, ZenonT(60)
<1>7. SizeCells' = T \cup Row(v, n)
  <2>1. ASSUME NEW z \in SizeCells' PROVE z \in T \/ z \in Row(v, n)
    <3>1. PICK w \in LiveVols : z \in Row(w, vols'[w].size)
      BY <1>3, LiveAre, ZenonT(60)
    <3>2. CASE w = v
      BY <1>1, <3>1, <3>2, ZenonT(60)
    <3>3. CASE w # v
      <4>1. z \in Row(w, vols[w].size) /\ z \notin Row(v, m)
        BY <1>1, <3>1, <3>3, LiveAre, CellsAre, ZenonT(60)
      <4> QED BY <4>1, LiveAre, ZenonT(60)
    <3> QED BY <3>2, <3>3, ZenonT(60)
  <2>2. ASSUME NEW z \in T PROVE z \in SizeCells'
    <3>1. PICK w \in LiveVols : w # v /\ z \in Row(w, vols[w].size)
      BY <1>5, ZenonT(60)
    <3> QED BY <1>1, <1>3, <3>1, LiveAre, ZenonT(60)
  <2>3. ASSUME NEW z \in Row(v, n) PROVE z \in SizeCells'
    BY <1>1, <1>3, LiveAre, ZenonT(60)
  <2> QED BY <2>1, <2>2, <2>3, ZenonT(60)
<1>8. IsFiniteSet(T) /\ Cardinality(T) = Cardinality(SizeCells) - m
  BY <1>2, <1>4, RowLeaves, ZenonT(60) DEF VolumesCounted
<1>9. IsFiniteSet(T \cup Row(v, n)) /\ Cardinality(T \cup Row(v, n)) = Cardinality(T) + n
  <2> HIDE DEF T, n
  <2> QED BY <1>2, <1>6, <1>8, RowJoins, ZenonT(60)
<1> QED BY <1>3, <1>7, <1>8, <1>9, ZenonT(60)
(* The totals after a step that sets one or two of them.                   *)
LEMMA TotalsSet ==
  ASSUME total \in TotalRec, NEW a \in Int, NEW b \in Int
  PROVE  /\ total' = [total EXCEPT !.vols = a, !.provisioned = b] =>
              /\ total' \in TotalRec /\ total'.vols = a
              /\ total'.provisioned = b /\ total'.snaps = total.snaps
         /\ total' = [total EXCEPT !.used = a, !.logical = b] =>
              /\ total' \in TotalRec /\ total'.vols = total.vols
              /\ total'.provisioned = total.provisioned /\ total'.snaps = total.snaps
         /\ total' = [total EXCEPT !.snaps = a] =>
              /\ total' \in TotalRec /\ total'.vols = total.vols
              /\ total'.provisioned = total.provisioned /\ total'.snaps = a
         /\ total' = [total EXCEPT !.provisioned = b] =>
              /\ total' \in TotalRec /\ total'.vols = total.vols
              /\ total'.provisioned = b /\ total'.snaps = total.snaps
<1>1. ASSUME total' = [total EXCEPT !.vols = a, !.provisioned = b]
      PROVE  /\ total' \in TotalRec /\ total'.vols = a
             /\ total'.provisioned = b /\ total'.snaps = total.snaps
  BY <1>1, ZenonT(60) DEF TotalRec
<1>2. ASSUME total' = [total EXCEPT !.used = a, !.logical = b]
      PROVE  /\ total' \in TotalRec /\ total'.vols = total.vols
             /\ total'.provisioned = total.provisioned /\ total'.snaps = total.snaps
  BY <1>2, ZenonT(60) DEF TotalRec
<1>3. ASSUME total' = [total EXCEPT !.snaps = a]
      PROVE  /\ total' \in TotalRec /\ total'.vols = total.vols
             /\ total'.provisioned = total.provisioned /\ total'.snaps = a
  BY <1>3, ZenonT(60) DEF TotalRec
<1>4. ASSUME total' = [total EXCEPT !.provisioned = b]
      PROVE  /\ total' \in TotalRec /\ total'.vols = total.vols
             /\ total'.provisioned = b /\ total'.snaps = total.snaps
  BY <1>4, ZenonT(60) DEF TotalRec
<1> QED BY <1>1, <1>2, <1>3, <1>4, ZenonT(60)

(* Steps that leave snapshots alone leave their number.                    *)
LEMMA SameSnapshots ==
  ASSUME snaps' = snaps
  PROVE  LiveSnaps' = LiveSnaps
BY ZenonT(60) DEF LiveSnaps, SnapLive

(* A refused request.                                                      *)
LEMMA RefuseCounted ==
  ASSUME Counted, NEW c \in {200} \cup Errors, Refuse(c)
  PROVE  Counted'
BY ZenonT(60) DEF Counted, VolumesCounted, Refuse, Answer, LiveVols, LiveSnaps, Live, SnapLive, SizeCells

(* create_volume: one volume more, and its size.                           *)
LEMMA AddCounted ==
  ASSUME Owned, Counted, NEW size \in Sizes, NEW f \in Mapping, NEW u, Sized(f, u), NEW l \in Int,
         AddVolume(size, f, u, l), snaps' = snaps
  PROVE  Counted'
<1> DEFINE v == used.vols + 1
           r == [size |-> size, used |-> u, logical |-> l, physical |-> 0, dict |-> VolDict(v)]
           a == total.vols + 1
           b == total.provisioned + size
<1>1. /\ v \in VolIds /\ vols' = [vols EXCEPT ![v] = r]
      /\ total' = [total EXCEPT !.vols = @ + 1, !.provisioned = @ + size]
      /\ used' = [used EXCEPT !.vols = v] /\ reply' = 200
  BY ZenonT(60) DEF AddVolume, Answer
<1>2. total \in TotalRec /\ used \in [vols : 0 .. MaxVols, snaps : 0 .. MaxSnaps]
  BY ZenonT(60) DEF Counted
<1>3. vols[v] = None /\ v > used.vols /\ v \in Int /\ used.vols \in Int
  BY <1>1, <1>2 DEF Counted, VolumesCounted
<1>4. used' \in [vols : 0 .. MaxVols, snaps : 0 .. MaxSnaps] /\ used'.vols = v
  BY <1>1, <1>2 DEF VolIds
<1>5. r \in Volume /\ r.size = size
  <2>1. u \in Nat
    BY FS_CardinalityType, ZenonT(60) DEF Sized
  <2> QED BY <1>1, <2>1, DictNames, ZenonT(60) DEF Volume
<1>6. a \in Int /\ b \in Int
  <2>1. size \in Int
    BY ServiceAssumption
  <2> QED BY <1>2, <2>1 DEF TotalRec
<1>7. total' = [total EXCEPT !.vols = a, !.provisioned = b]
  BY <1>1, ZenonT(60)
<1> HIDE DEF r
<1>8. /\ Cardinality(LiveVols') = Cardinality(LiveVols) + 1
      /\ IsFiniteSet(SizeCells')
      /\ Cardinality(SizeCells') = Cardinality(SizeCells) + size
  BY <1>1, <1>3, <1>5, VolumeAdded, ZenonT(60) DEF Counted
<1>9. \A w \in VolIds : w > used'.vols => vols'[w] = None
  <2> SUFFICES ASSUME NEW w \in VolIds, w > v PROVE vols'[w] = None
    BY <1>4, ZenonT(60)
  <2>1. w \in Int /\ w > used.vols /\ w # v
    BY <1>3 DEF VolIds
  <2>2. vols'[w] = vols[w]
    BY <1>1, <2>1, ZenonT(60) DEF Owned
  <2> QED BY <2>1, <2>2, ZenonT(60) DEF Counted, VolumesCounted
<1>10. total' \in TotalRec /\ total'.vols = a /\ total'.provisioned = b /\ total'.snaps = total.snaps
  <2> HIDE DEF a, b
  <2> QED BY <1>2, <1>6, <1>7, TotalsSet, ZenonT(60)
<1>11. VolumesCounted'
  <2>1. a = Cardinality(LiveVols') /\ b = Cardinality(SizeCells')
    BY <1>8, ZenonT(60) DEF Counted, VolumesCounted
  <2> QED BY <1>8, <1>9, <1>10, <2>1, ZenonT(60) DEF VolumesCounted
<1> QED BY <1>1, <1>4, <1>10, <1>11, SameSnapshots, ZenonT(60) DEF Counted

(* Steps that replace a live volume's record and know the new total.       *)
LEMMA ReplaceCounted ==
  ASSUME Owned, Counted, NEW v \in VolIds, vols[v] # None, NEW r \in Volume,
         vols' = [vols EXCEPT ![v] = r], snaps' = snaps, used' = used, reply' = 200,
         total' \in TotalRec, total'.vols = total.vols, total'.snaps = total.snaps,
         total'.provisioned = total.provisioned - vols[v].size + r.size
  PROVE  Counted'
<1>1. /\ Cardinality(LiveVols') = Cardinality(LiveVols)
      /\ IsFiniteSet(SizeCells')
      /\ Cardinality(SizeCells') = Cardinality(SizeCells) - vols[v].size + r.size
  BY VolumeReplaced, ZenonT(60) DEF Counted
<1>2. \A w \in VolIds : w > used.vols => vols'[w] = None
  <2> SUFFICES ASSUME NEW w \in VolIds, w > used.vols PROVE vols'[w] = None
    BY ZenonT(60)
  <2>1. vols[w] = None
    BY ZenonT(60) DEF Counted, VolumesCounted
  <2> QED BY <2>1, ZenonT(60) DEF Owned
<1>3. VolumesCounted'
  BY <1>1, <1>2, ZenonT(60) DEF VolumesCounted, Counted
<1> QED BY <1>3, SameSnapshots, ZenonT(60) DEF Counted
(* resize_volume: the total follows the new size.                          *)
LEMMA ResizeCounted ==
  ASSUME Owned, Counted, NEW v \in VolIds, NEW size \in Sizes, ResizeVolume(v, size)
  PROVE  Counted'
<1>1. CASE Refuse(404) \/ Refuse(400)
  BY <1>1, RefuseCounted DEF Errors
<1>2. CASE ~(Refuse(404) \/ Refuse(400))
  <2> DEFINE r == [vols[v] EXCEPT !.size = size]
             b == total.provisioned + size - vols[v].size
  <2>1. /\ vols[v] # None /\ vols' = [vols EXCEPT ![v].size = size]
        /\ total' = [total EXCEPT !.provisioned = @ + size - vols[v].size]
        /\ snaps' = snaps /\ used' = used /\ reply' = 200
    BY <1>2, ZenonT(60) DEF ResizeVolume, Resized, Live, Answer
  <2>2. vols[v] \in Volume
    BY <2>1, ZenonT(60) DEF Owned
  <2>3. r \in Volume /\ r.size = size
    BY <2>2, ZenonT(60) DEF Volume
  <2>4. vols' = [vols EXCEPT ![v] = r] /\ total' = [total EXCEPT !.provisioned = b]
    BY <2>1, ZenonT(60)
  <2>5. total \in TotalRec /\ b \in Int /\ b = total.provisioned - vols[v].size + r.size
    <3>1. size \in Int /\ vols[v].size \in Int
      BY <2>2, ServiceAssumption DEF Volume
    <3>2. total \in TotalRec /\ total.provisioned \in Int
      BY ZenonT(60) DEF Counted, TotalRec
    <3> HIDE DEF r
    <3> QED BY <2>3, <3>1, <3>2
  <2> HIDE DEF r, b
  <2>6. /\ total' \in TotalRec /\ total'.vols = total.vols
        /\ total'.provisioned = b /\ total'.snaps = total.snaps
    BY <2>4, <2>5, TotalsSet, ZenonT(60)
  <2>7. total'.provisioned = total.provisioned - vols[v].size + r.size
    BY <2>5, <2>6, ZenonT(60)
  <2>8. /\ vols[v] # None /\ vols' = [vols EXCEPT ![v] = r]
        /\ snaps' = snaps /\ used' = used /\ reply' = 200
    BY <2>1, <2>4, ZenonT(60)
  <2> QED BY <2>3, <2>6, <2>7, <2>8, ReplaceCounted, ZenonT(60)
<1> QED BY <1>1, <1>2, ZenonT(60)

(* write_block: the totals of used and logical bytes only.                 *)
LEMMA WriteCounted ==
  ASSUME Owned, Counted, NEW v \in VolIds, NEW o \in Offsets, NEW n \in Lengths, Write(v, o, n)
  PROVE  Counted'
<1>1. CASE Refuse(404) \/ Refuse(400) \/ Refuse(200)
  BY <1>1, RefuseCounted DEF Errors
<1>2. CASE ~(Refuse(404) \/ Refuse(400) \/ Refuse(200))
  <2>1. PICK p \in StoredSizes : /\ vols[v] # None /\ WriteBlock(v, o, n, p)
                                 /\ snaps' = snaps /\ used' = used /\ reply' = 200
    BY <1>2 DEF Write, Live, Answer
  <2> DEFINE old == heap[vols[v].dict][o]
             u == vols[v].used - old + n
             l == vols[v].logical - old + n
             r == [vols[v] EXCEPT !.used = u, !.logical = l, !.physical = p]
             a == total.used + n
             b == total.logical + n
  <2>2. /\ vols[v] \in Volume /\ vols[v].dict = VolDict(v)
        /\ Sized(heap[VolDict(v)], vols[v].used) /\ heap[VolDict(v)] \in Mapping
    BY <2>1, DictNames, ZenonT(60) DEF Owned
  <2>3. /\ vols' = [vols EXCEPT ![v] = r]
        /\ total' = [total EXCEPT !.used = a, !.logical = b]
    BY <2>1, ZenonT(60) DEF WriteBlock
  <2>4. old \in Int /\ n \in Int /\ p \in Nat
    <3>1. Lengths \cup {0} \subseteq Int /\ StoredSizes \subseteq Nat
      BY ServiceAssumption
    <3> QED BY <2>2, <3>1, ZenonT(60) DEF Mapping
  <2>5. u \in Nat /\ l \in Int
    <3>1. Sized([heap[VolDict(v)] EXCEPT ![o] = n], u)
      BY <2>2, CellsWritten, ZenonT(60)
    <3> HIDE DEF old, u
    <3> QED BY <2>2, <2>4, <3>1, FS_CardinalityType DEF Volume, Sized
  <2>6. total \in TotalRec /\ a \in Int /\ b \in Int
    BY <2>4 DEF Counted, TotalRec
  <2>7. r \in Volume /\ r.size = vols[v].size
    <3> HIDE DEF u, l
    <3> QED BY <2>2, <2>4, <2>5, ZenonT(60) DEF Volume
  <2>8. /\ total' \in TotalRec /\ total'.vols = total.vols
        /\ total'.provisioned = total.provisioned /\ total'.snaps = total.snaps
    <3> HIDE DEF a, b
    <3> QED BY <2>3, <2>6, TotalsSet, ZenonT(60)
  <2>9. total'.provisioned = total.provisioned - vols[v].size + r.size
    <3>1. vols[v].size \in Int
      <4>1. Sizes \subseteq Int
        BY ServiceAssumption
      <4> QED BY <2>2, <4>1, ZenonT(60) DEF Volume
    <3>2. total.provisioned \in Int
      BY <2>6, ZenonT(60) DEF TotalRec
    <3> HIDE DEF r
    <3> QED BY <2>7, <2>8, <3>1, <3>2
  <2> HIDE DEF r
  <2> QED BY <2>1, <2>3, <2>7, <2>8, <2>9, ReplaceCounted, ZenonT(60)
<1> QED BY <1>1, <1>2, ZenonT(60)

(* Restoring into a volume: no total changes.                              *)
LEMMA RestoreIntoCounted ==
  ASSUME Owned, Counted, NEW v \in VolIds, NEW s \in SnapIds, NEW target \in VolIds,
         RestoreInto(v, s, target)
  PROVE  Counted'
<1>1. CASE Refuse(404) \/ Refuse(500)
  BY <1>1, RefuseCounted DEF Errors
<1>2. CASE ~(Refuse(404) \/ Refuse(500))
  <2> DEFINE r == [vols[target] EXCEPT !.dict = VolDict(target), !.used = snaps[s].used]
  <2>1. /\ Found(v, s) /\ vols[target] # None /\ vols' = [vols EXCEPT ![target] = r]
        /\ snaps' = snaps /\ used' = used /\ total' = total /\ reply' = 200
    BY <1>2, ZenonT(60) DEF RestoreInto, Live, Answer
  <2>2. vols[target] \in Volume /\ snaps[s].used \in Nat
    BY <2>1, FoundSnapshot, ZenonT(60) DEF Owned
  <2>3. r \in Volume /\ r.size = vols[target].size
    BY <2>2, DictNames, ZenonT(60) DEF Volume
  <2>4. total' \in TotalRec /\ total'.provisioned = total.provisioned - vols[target].size + r.size
    <3>1. vols[target].size \in Int
      <4>1. Sizes \subseteq Int
        BY ServiceAssumption
      <4> QED BY <2>2, <4>1, ZenonT(60) DEF Volume
    <3>2. total \in TotalRec /\ total.provisioned \in Int
      BY ZenonT(60) DEF Counted, TotalRec
    <3> HIDE DEF r
    <3> QED BY <2>1, <2>3, <3>1, <3>2
  <2> HIDE DEF r
  <2> QED BY <2>1, <2>3, <2>4, ReplaceCounted, ZenonT(60)
<1> QED BY <1>1, <1>2, ZenonT(60)
(* delete_volume: one volume less, and its size.                           *)
LEMMA DeleteCounted ==
  ASSUME Owned, Counted, NEW v \in VolIds, DeleteVolume(v)
  PROVE  Counted'
<1>1. CASE ~Live(v)
  BY <1>1, RefuseCounted, ZenonT(60) DEF DeleteVolume, Errors
<1>2. CASE Live(v)
  <2> DEFINE r == vols[v]
             a == total.vols - 1
             b == total.provisioned - r.size
             c == total.used - r.used
             d == total.logical - r.logical
             e == total.physical - r.physical
  <2>1. /\ vols[v] # None /\ vols' = [vols EXCEPT ![v] = None]
        /\ total' = [total EXCEPT !.vols = a, !.provisioned = b, !.used = c, !.logical = d,
                                  !.physical = e]
        /\ snaps' = snaps /\ used' = used /\ reply' = 200
    BY <1>2, ZenonT(60) DEF DeleteVolume, Live, Answer
  <2>2. r \in Volume
    BY <2>1, ZenonT(60) DEF Owned
  <2>3. r.size \in Int /\ r.used \in Int /\ r.logical \in Int /\ r.physical \in Int
    <3>1. Sizes \subseteq Int
      BY ServiceAssumption
    <3>2. r.size \in Sizes /\ r.used \in Nat /\ r.logical \in Int /\ r.physical \in Nat
      BY <2>2, ZenonT(60) DEF Volume
    <3>3. r.size \in Int
      BY <3>1, <3>2, ZenonT(60)
    <3>4. r.used \in Int /\ r.physical \in Int
      BY <3>2
    <3> QED BY <3>2, <3>3, <3>4, ZenonT(60)
  <2>4. total \in TotalRec
    BY ZenonT(60) DEF Counted
  <2>5. a \in Int /\ b \in Int /\ c \in Int /\ d \in Int /\ e \in Int
    <3> HIDE DEF r
    <3>1. /\ total.vols \in Int /\ total.provisioned \in Int /\ total.used \in Int
          /\ total.logical \in Int /\ total.physical \in Int
      BY <2>4, ZenonT(60) DEF TotalRec
    <3> QED BY <2>3, <3>1
  <2>6. total' = [vols |-> a, provisioned |-> b, used |-> c, logical |-> d, physical |-> e,
                  snaps |-> total.snaps]
    <3> HIDE DEF a, b, c, d, e
    <3> QED BY <2>1, <2>4, ZenonT(60) DEF TotalRec
  <2>7. total' \in TotalRec /\ total'.vols = a /\ total'.provisioned = b /\ total'.snaps = total.snaps
    <3> HIDE DEF a, b, c, d, e
    <3> QED BY <2>4, <2>5, <2>6, ZenonT(60) DEF TotalRec
  <2>8. /\ Cardinality(LiveVols') = Cardinality(LiveVols) - 1
        /\ IsFiniteSet(SizeCells')
        /\ Cardinality(SizeCells') = Cardinality(SizeCells) - vols[v].size
    BY <2>1, VolumeRemoved, ZenonT(60) DEF Counted
  <2>9. \A w \in VolIds : w > used'.vols => vols'[w] = None
    BY <2>1, ZenonT(60) DEF Owned, Counted, VolumesCounted
  <2>10. VolumesCounted'
    <3>1. a = Cardinality(LiveVols') /\ b = Cardinality(SizeCells')
      BY <2>8, ZenonT(60) DEF Counted, VolumesCounted
    <3> HIDE DEF a, b
    <3> QED BY <2>7, <2>8, <2>9, <3>1, ZenonT(60) DEF VolumesCounted
  <2>11. total'.snaps = Cardinality(LiveSnaps')
    BY <2>1, <2>7, SameSnapshots, ZenonT(60) DEF Counted
  <2> QED BY <2>1, <2>7, <2>10, <2>11, ZenonT(60) DEF Counted
<1> QED BY <1>1, <1>2, ZenonT(60)

(* clone_volume and restoring to a new volume add one.                     *)
LEMMA CloneCounted ==
  ASSUME Owned, Counted, NEW v \in VolIds, CloneVolume(v)
  PROVE  Counted'
<1>1. CASE ~Live(v)
  BY <1>1, RefuseCounted, ZenonT(60) DEF CloneVolume, Errors
<1>2. CASE Live(v)
  <2>1. vols[v] \in Volume
    BY <1>2, ZenonT(60) DEF Owned, Live
  <2>2. /\ vols[v].size \in Sizes /\ vols[v].logical \in Int
        /\ vols[v].dict \in Dicts
    BY <2>1, ZenonT(60) DEF Volume
  <2>3. heap[vols[v].dict] \in Mapping /\ Sized(heap[vols[v].dict], vols[v].used)
    BY <1>2, <2>2, ZenonT(60) DEF Owned, Live
  <2>4. /\ AddVolume(vols[v].size, heap[vols[v].dict], vols[v].used, vols[v].logical)
        /\ snaps' = snaps
    BY <1>2, ZenonT(60) DEF CloneVolume
  <2> QED BY <2>2, <2>3, <2>4, AddCounted, ZenonT(60)
<1> QED BY <1>1, <1>2, ZenonT(60)

(* Restoring to a new volume.                                              *)
LEMMA RestoreNewCounted ==
  ASSUME Owned, Counted, NEW v \in VolIds, NEW s \in SnapIds, RestoreNew(v, s)
  PROVE  Counted'
<1>1. CASE ~Found(v, s)
  BY <1>1, RefuseCounted, ZenonT(60) DEF RestoreNew, Errors
<1>2. CASE Found(v, s)
  BY <1>2, FoundSnapshot, AddCounted DEF RestoreNew
<1> QED BY <1>1, <1>2, ZenonT(60)

(* Steps that leave the volumes alone leave their figures.                 *)
LEMMA SameVolumes ==
  ASSUME VolumesCounted, vols' = vols, used'.vols = used.vols, total'.vols = total.vols,
         total'.provisioned = total.provisioned
  PROVE  VolumesCounted'
BY ZenonT(60) DEF VolumesCounted, LiveVols, Live, SizeCells

(* create_snapshot: one snapshot more.                                     *)
LEMMA CreateSnapshotCounted ==
  ASSUME Owned, Counted, NEW v \in VolIds, CreateSnapshot(v)
  PROVE  Counted'
<1>1. CASE ~Live(v)
  BY <1>1, RefuseCounted, ZenonT(60) DEF CreateSnapshot, Errors
<1>2. CASE Live(v)
  <2> DEFINE s == used.snaps + 1
             r == [vol |-> v, size |-> vols[v].size, used |-> vols[v].used, dict |-> SnapDict(s)]
             a == total.snaps + 1
  <2>1. /\ s \in SnapIds /\ snaps' = [snaps EXCEPT ![s] = r] /\ vols' = vols
        /\ used' = [used EXCEPT !.snaps = s] /\ total' = [total EXCEPT !.snaps = a]
        /\ reply' = 200
    BY <1>2, ZenonT(60) DEF CreateSnapshot, Answer
  <2>2. vols[v] \in Volume
    BY <1>2, ZenonT(60) DEF Owned, Live
  <2>3. r \in Snapshot
    <3>1. vols[v].size \in Sizes /\ vols[v].used \in Nat
      BY <2>2, ZenonT(60) DEF Volume
    <3> QED BY <2>1, <3>1, DictNames, ZenonT(60) DEF Snapshot
  <2>4. total \in TotalRec /\ used \in [vols : 0 .. MaxVols, snaps : 0 .. MaxSnaps]
    BY ZenonT(60) DEF Counted
  <2>5. snaps[s] = None
    BY <2>1, <2>4 DEF Owned
  <2>6. a \in Int
    BY <2>4 DEF TotalRec
  <2>7. /\ used' \in [vols : 0 .. MaxVols, snaps : 0 .. MaxSnaps] /\ used'.vols = used.vols
    BY <2>1, <2>4 DEF SnapIds
  <2> HIDE DEF s, r
  <2>8. LiveSnaps' = LiveSnaps \cup {s} /\ s \notin LiveSnaps
    <3>1. snaps'[s] # None /\ \A t \in SnapIds : t # s => snaps'[t] = snaps[t]
      BY <2>1, <2>3, NoneAssumption, ZenonT(60) DEF Owned
    <3> QED BY <2>1, <2>5, <3>1, LiveAre, ZenonT(60)
  <2>9. Cardinality(LiveSnaps') = Cardinality(LiveSnaps) + 1
    BY <2>8, LiveFinite, FS_AddElement, ZenonT(60)
  <2>10. a = Cardinality(LiveSnaps')
    BY <2>9, ZenonT(60) DEF Counted
  <2> HIDE DEF a
  <2>11. /\ total' \in TotalRec /\ total'.vols = total.vols
         /\ total'.provisioned = total.provisioned /\ total'.snaps = a
    BY <2>1, <2>4, <2>6, TotalsSet, ZenonT(60)
  <2>12. VolumesCounted'
    BY <2>1, <2>7, <2>11, SameVolumes, ZenonT(60) DEF Counted
  <2> QED BY <2>1, <2>7, <2>10, <2>11, <2>12, ZenonT(60) DEF Counted
<1> QED BY <1>1, <1>2, ZenonT(60)

(* delete_snapshot: one snapshot less.                                     *)
LEMMA DeleteSnapshotCounted ==
  ASSUME Owned, Counted, NEW v \in VolIds, NEW s \in SnapIds, DeleteSnapshot(v, s)
  PROVE  Counted'
<1>1. CASE ~Found(v, s)
  BY <1>1, RefuseCounted, ZenonT(60) DEF DeleteSnapshot, Errors
<1>2. CASE Found(v, s)
  <2> DEFINE a == total.snaps - 1
  <2>1. /\ snaps[s] # None /\ snaps' = [snaps EXCEPT ![s] = None] /\ vols' = vols /\ used' = used
        /\ total' = [total EXCEPT !.snaps = a] /\ reply' = 200
    BY <1>2, ZenonT(60) DEF DeleteSnapshot, DropSnapshot, Found, SnapLive, Answer
  <2>2. total \in TotalRec /\ a \in Int
    BY DEF Counted, TotalRec
  <2>3. LiveSnaps' = LiveSnaps \ {s} /\ s \in LiveSnaps
    <3>1. snaps'[s] = None /\ \A t \in SnapIds : t # s => snaps'[t] = snaps[t]
      BY <2>1, ZenonT(60) DEF Owned
    <3> QED BY <2>1, <3>1, LiveAre, ZenonT(60)
  <2>4. Cardinality(LiveSnaps') = Cardinality(LiveSnaps) - 1
    BY <2>3, LiveFinite, FS_RemoveElement, ZenonT(60)
  <2>5. a = Cardinality(LiveSnaps')
    BY <2>4, ZenonT(60) DEF Counted
  <2> HIDE DEF a
  <2>6. /\ total' \in TotalRec /\ total'.vols = total.vols
        /\ total'.provisioned = total.provisioned /\ total'.snaps = a
    BY <2>1, <2>2, TotalsSet, ZenonT(60)
  <2>7. VolumesCounted'
    BY <2>1, <2>6, SameVolumes, ZenonT(60) DEF Counted
  <2> QED BY <2>1, <2>5, <2>6, <2>7, ZenonT(60) DEF Counted
<1> QED BY <1>1, <1>2, ZenonT(60)

(* Every request keeps the totals exact.                                   *)
LEMMA NextCounted ==
  ASSUME Owned, Counted, Next
  PROVE  Counted'
<1>1. ASSUME NEW n \in Sizes, CreateVolume(n)
      PROVE  Counted'
  BY <1>1, AddCounted, EmptyMapping DEF CreateVolume
<1> QED BY ZenonT(60), <1>1, DeleteCounted, ResizeCounted, WriteCounted, CloneCounted, CreateSnapshotCounted,
           DeleteSnapshotCounted, RestoreNewCounted, RestoreIntoCounted DEF Next
-----------------------------------------------------------------------------
(* The total of used bytes, which is off by the drift.                     *)
UsedOf(r) == IF r = None THEN 0 ELSE r.used

Drifted ==
  /\ total \in TotalRec /\ drift \in Int
  /\ IsFiniteSet(UsedCells) /\ total.used = Cardinality(UsedCells) + drift

(* The cells of the used bytes, one by one, before and after a step.       *)
LEMMA UsedAre ==
  /\ \A z : z \in UsedCells <=> \E v \in VolIds : z \in Row(v, UsedOf(vols[v]))
  /\ \A z : z \in UsedCells' <=> \E v \in VolIds : z \in Row(v, UsedOf(vols'[v]))
<1>1. \A v, z : z \notin Row(v, 0)
  BY DEF Row
<1>2. \A z : z \in UsedCells <=> \E v \in LiveVols : z \in Row(v, vols[v].used)
  BY ZenonT(60) DEF UsedCells, Row
<1>3. \A z : z \in UsedCells' <=> \E v \in LiveVols' : z \in Row(v, vols'[v].used)
  BY ZenonT(60) DEF UsedCells, Row
<1>4. \A z : z \in UsedCells <=> \E v \in VolIds : z \in Row(v, UsedOf(vols[v]))
  BY <1>1, <1>2, LiveAre, ZenonT(60) DEF UsedOf
<1>5. \A z : z \in UsedCells' <=> \E v \in VolIds : z \in Row(v, UsedOf(vols'[v]))
  BY <1>1, <1>3, LiveAre, ZenonT(60) DEF UsedOf
<1> QED BY <1>4, <1>5, ZenonT(60)

(* A step that replaces, adds or removes one volume.                       *)
LEMMA UsedMoves ==
  ASSUME Owned, IsFiniteSet(UsedCells), NEW v \in VolIds, NEW r \in Volume \cup {None},
         vols' = [vols EXCEPT ![v] = r]
  PROVE  /\ IsFiniteSet(UsedCells')
         /\ Cardinality(UsedCells') = Cardinality(UsedCells) - UsedOf(vols[v]) + UsedOf(r)
         /\ UsedOf(vols[v]) \in Nat /\ UsedOf(r) \in Nat /\ Cardinality(UsedCells) \in Nat
<1> DEFINE m == UsedOf(vols[v])
           n == UsedOf(r)
           T == UsedCells \ Row(v, m)
<1>1. /\ vols'[v] = r /\ \A w \in VolIds : w # v => vols'[w] = vols[w]
      /\ vols[v] \in Volume \cup {None}
  BY ZenonT(60) DEF Owned
<1>2. m \in Nat /\ n \in Nat
  <2>1. \A x \in Volume \cup {None} : UsedOf(x) \in Nat
    BY DEF UsedOf, Volume
  <2> QED BY <1>1, <2>1, ZenonT(60)
<1>3. /\ \A z : z \in UsedCells <=> \E w \in VolIds : z \in Row(w, UsedOf(vols[w]))
      /\ \A z : z \in UsedCells' <=> \E w \in VolIds : z \in Row(w, UsedOf(vols'[w]))
  BY UsedAre, ZenonT(60)
<1>4. Row(v, m) \subseteq UsedCells /\ UsedOf(vols'[v]) = n
  BY <1>1, <1>3, ZenonT(60)
<1> HIDE DEF m, n
<1>5. UsedCells' = T \cup Row(v, n)
  <2>1. ASSUME NEW z \in UsedCells' PROVE z \in T \/ z \in Row(v, n)
    <3>1. PICK w \in VolIds : z \in Row(w, UsedOf(vols'[w]))
      BY <1>3, ZenonT(60)
    <3>2. CASE w = v
      BY <1>4, <3>1, <3>2, ZenonT(60)
    <3>3. CASE w # v
      <4>1. z \in UsedCells
        BY <1>1, <1>3, <3>1, <3>3, ZenonT(60)
      <4>2. z \notin Row(v, m)
        BY <3>1, <3>3, CellsAre, ZenonT(60)
      <4> QED BY <4>1, <4>2, ZenonT(60)
    <3> QED BY <3>2, <3>3, ZenonT(60)
  <2>2. ASSUME NEW z \in T PROVE z \in UsedCells'
    <3>1. PICK w \in VolIds : z \in Row(w, UsedOf(vols[w]))
      BY <1>3, ZenonT(60)
    <3>2. w # v
      BY <3>1, ZenonT(60) DEF m
    <3> QED BY <1>1, <1>3, <3>1, <3>2, ZenonT(60)
  <2>3. ASSUME NEW z \in Row(v, n) PROVE z \in UsedCells'
    BY <1>3, <1>4, <2>3, ZenonT(60)
  <2> QED BY <2>1, <2>2, <2>3, ZenonT(60)
<1>6. T \cap Row(v, n) = {}
  <2> SUFFICES ASSUME NEW z \in T, z \in Row(v, n) PROVE FALSE
    BY ZenonT(60)
  <2>1. PICK w \in VolIds : z \in Row(w, UsedOf(vols[w]))
    BY <1>3, ZenonT(60)
  <2>2. w = v
    BY <2>1, CellsAre, ZenonT(60)
  <2> QED BY <2>1, <2>2, ZenonT(60) DEF m
<1>7. IsFiniteSet(T) /\ Cardinality(T) = Cardinality(UsedCells) - m
  BY <1>2, <1>4, RowLeaves, ZenonT(60)
<1> HIDE DEF T
<1>8. /\ IsFiniteSet(UsedCells') /\ Cardinality(UsedCells') = Cardinality(T) + n
  BY <1>2, <1>5, <1>6, <1>7, RowJoins, ZenonT(60)
<1>9. Cardinality(UsedCells) \in Nat
  BY FS_CardinalityType, ZenonT(60)
<1>10. /\ IsFiniteSet(UsedCells') /\ Cardinality(UsedCells') = Cardinality(UsedCells) - m + n
  BY <1>7, <1>8, ZenonT(60)
<1> QED BY <1>2, <1>9, <1>10, ZenonT(60) DEF m, n

(* A step on one volume that adds k to the total: the drift has the rest.  *)
LEMMA UsedStep ==
  ASSUME Owned, Drifted, NEW v \in VolIds, NEW r \in Volume \cup {None},
         vols' = [vols EXCEPT ![v] = r], NEW k \in Int,
         total' \in TotalRec, total'.used = total.used + k,
         drift' = drift + k + UsedOf(vols[v]) - UsedOf(r)
  PROVE  Drifted'
<1>1. /\ IsFiniteSet(UsedCells')
      /\ Cardinality(UsedCells') = Cardinality(UsedCells) - UsedOf(vols[v]) + UsedOf(r)
      /\ UsedOf(vols[v]) \in Nat /\ UsedOf(r) \in Nat /\ Cardinality(UsedCells) \in Nat
  BY UsedMoves, ZenonT(60) DEF Drifted
<1>2. drift \in Int /\ total.used = Cardinality(UsedCells) + drift
  BY ZenonT(60) DEF Drifted
<1>3. total'.used = Cardinality(UsedCells') + drift'
  BY <1>1, <1>2
<1>4. drift' \in Int
  BY <1>1, <1>2
<1> QED BY <1>1, <1>3, <1>4, ZenonT(60) DEF Drifted

(* A step that leaves the volumes and what is used of them.                *)
LEMMA UsedStays ==
  ASSUME Drifted, vols' = vols, total' \in TotalRec, total'.used = total.used, drift' = drift
  PROVE  Drifted'
BY ZenonT(60) DEF Drifted, UsedCells, LiveVols, Live

(* The used bytes in the totals after a step.                              *)
LEMMA TotalsUsed ==
  ASSUME total \in TotalRec, NEW a \in Int, NEW b \in Int
  PROVE  /\ total' = [total EXCEPT !.vols = a, !.provisioned = b] => total'.used = total.used
         /\ total' = [total EXCEPT !.used = a, !.logical = b] => total'.used = a
         /\ total' = [total EXCEPT !.snaps = a] => total'.used = total.used
         /\ total' = [total EXCEPT !.provisioned = b] => total'.used = total.used
BY ZenonT(60) DEF TotalRec

(* A refused request leaves the total and the drift.                       *)
LEMMA RefuseDrifted ==
  ASSUME Drifted, NEW c, Refuse(c)
  PROVE  Drifted'
<1>1. vols' = vols /\ total' = total /\ drift' = drift
  BY ZenonT(60) DEF Refuse
<1> QED BY <1>1, UsedStays, ZenonT(60) DEF Drifted

(* A volume added with used bytes that nobody wrote to it.                 *)
LEMMA AddDrifted ==
  ASSUME Owned, Counted, Drifted, NEW size \in Sizes, NEW f \in Mapping, NEW u, Sized(f, u),
         NEW l \in Int, AddVolume(size, f, u, l), Counted'
  PROVE  Drifted'
<1> DEFINE v == used.vols + 1
           r == [size |-> size, used |-> u, logical |-> l, physical |-> 0, dict |-> VolDict(v)]
           a == total.vols + 1
           b == total.provisioned + size
<1>1. /\ v \in VolIds /\ vols' = [vols EXCEPT ![v] = r] /\ drift' = drift - u
      /\ total' = [total EXCEPT !.vols = a, !.provisioned = b]
  BY ZenonT(60) DEF AddVolume
<1>2. total \in TotalRec /\ used \in [vols : 0 .. MaxVols, snaps : 0 .. MaxSnaps]
  BY ZenonT(60) DEF Counted
<1>3. vols[v] = None
  BY <1>1, <1>2 DEF Counted, VolumesCounted
<1>4. u \in Nat
  BY FS_CardinalityType, ZenonT(60) DEF Sized
<1>5. r \in Volume /\ r.used = u /\ r # None
  <2>1. r \in Volume /\ r.used = u
    BY <1>1, <1>4, DictNames, ZenonT(60) DEF Volume
  <2> HIDE DEF r
  <2> QED BY <2>1, NoneAssumption, ZenonT(60)
<1>6. a \in Int /\ b \in Int
  <2>1. size \in Int
    BY ServiceAssumption
  <2> QED BY <1>2, <2>1 DEF TotalRec
<1> HIDE DEF a, b, r, v
<1>7. total'.used = total.used /\ total' \in TotalRec
  BY <1>1, <1>2, <1>6, TotalsUsed, ZenonT(60) DEF Counted
<1>8. UsedOf(vols[v]) = 0 /\ UsedOf(r) = u
  BY <1>3, <1>5, ZenonT(60) DEF UsedOf
<1>9. /\ total'.used = total.used + 0
      /\ drift' = drift + 0 + UsedOf(vols[v]) - UsedOf(r)
  <2>1. total.used \in Int /\ drift \in Int
    BY <1>2, ZenonT(60) DEF Drifted, TotalRec
  <2> QED BY <1>1, <1>4, <1>7, <1>8, <2>1
<1>10. 0 \in Int /\ r \in Volume \cup {None}
  BY <1>5
<1> QED BY <1>1, <1>7, <1>9, <1>10, UsedStep, ZenonT(60)

(* resize_volume leaves what is used.                                      *)
LEMMA ResizeDrifted ==
  ASSUME Owned, Drifted, NEW v \in VolIds, NEW size \in Sizes, ResizeVolume(v, size), Counted'
  PROVE  Drifted'
<1>1. CASE Refuse(404) \/ Refuse(400)
  BY <1>1, RefuseDrifted, ZenonT(60)
<1>2. CASE ~(Refuse(404) \/ Refuse(400))
  <2> DEFINE r == [vols[v] EXCEPT !.size = size]
             b == total.provisioned + size - vols[v].size
  <2>1. /\ vols[v] # None /\ vols' = [vols EXCEPT ![v] = r] /\ drift' = drift
        /\ total' = [total EXCEPT !.provisioned = b]
    BY <1>2, ZenonT(60) DEF ResizeVolume, Resized, Live
  <2>2. vols[v] \in Volume
    BY <2>1, ZenonT(60) DEF Owned
  <2>3. r \in Volume /\ r.used = vols[v].used /\ vols[v].used \in Nat
    BY <2>2, ZenonT(60) DEF Volume
  <2>4. total'.used = total.used /\ total' \in TotalRec /\ total.used \in Int /\ drift \in Int
    BY <2>1, ZenonT(60) DEF TotalRec, Counted, Drifted
  <2> HIDE DEF r, b
  <2>5. r # None
    BY <2>3, NoneAssumption, ZenonT(60)
  <2>6. UsedOf(vols[v]) = UsedOf(r) /\ UsedOf(r) \in Nat
    BY <2>1, <2>3, <2>5, ZenonT(60) DEF UsedOf
  <2>7. /\ total'.used = total.used + 0
        /\ drift' = drift + 0 + UsedOf(vols[v]) - UsedOf(r)
    BY <2>1, <2>4, <2>6
  <2>8. 0 \in Int /\ r \in Volume \cup {None}
    BY <2>3
  <2> QED BY <2>1, <2>4, <2>7, <2>8, UsedStep, ZenonT(60)
<1> QED BY <1>1, <1>2, ZenonT(60)

(* write_block: the old block's size stays in the total.                   *)
LEMMA WriteDrifted ==
  ASSUME Owned, Drifted, NEW v \in VolIds, NEW o \in Offsets, NEW n \in Lengths, Write(v, o, n),
         Counted'
  PROVE  Drifted'
<1>1. CASE Refuse(404) \/ Refuse(400) \/ Refuse(200)
  BY <1>1, RefuseDrifted, ZenonT(60)
<1>2. CASE ~(Refuse(404) \/ Refuse(400) \/ Refuse(200))
  <2>1. PICK p \in StoredSizes : vols[v] # None /\ WriteBlock(v, o, n, p)
    BY <1>2 DEF Write, Live
  <2> DEFINE old == heap[vols[v].dict][o]
             u == vols[v].used - old + n
             l == vols[v].logical - old + n
             r == [vols[v] EXCEPT !.used = u, !.logical = l, !.physical = p]
             a == total.used + n
             b == total.logical + n
  <2>2. /\ vols[v] \in Volume /\ vols[v].dict = VolDict(v)
        /\ Sized(heap[VolDict(v)], vols[v].used) /\ heap[VolDict(v)] \in Mapping
    BY <2>1, DictNames, ZenonT(60) DEF Owned
  <2>3. /\ vols' = [vols EXCEPT ![v] = r] /\ drift' = drift + old
        /\ total' = [total EXCEPT !.used = a, !.logical = b]
    BY <2>1, ZenonT(60) DEF WriteBlock
  <2>4. old \in Int /\ n \in Int /\ p \in Nat
    <3>1. Lengths \cup {0} \subseteq Int /\ StoredSizes \subseteq Nat
      BY ServiceAssumption
    <3> QED BY <2>2, <3>1, ZenonT(60) DEF Mapping
  <2>5. u \in Nat /\ l \in Int
    <3>1. Sized([heap[VolDict(v)] EXCEPT ![o] = n], u)
      BY <2>2, CellsWritten, ZenonT(60)
    <3> HIDE DEF old, u
    <3> QED BY <2>2, <2>4, <3>1, FS_CardinalityType DEF Volume, Sized
  <2>6. total \in TotalRec /\ total.used \in Int /\ a \in Int /\ b \in Int /\ drift \in Int
    BY <2>4 DEF Drifted, TotalRec
  <2>7. r \in Volume /\ r.used = u /\ vols[v].used \in Nat
    <3> HIDE DEF u, l
    <3> QED BY <2>2, <2>4, <2>5, ZenonT(60) DEF Volume
  <2>8. total'.used = a /\ total' \in TotalRec
    <3> HIDE DEF a, b
    <3> QED BY <2>3, <2>6, TotalsUsed, ZenonT(60) DEF Counted
  <2>9. UsedOf(vols[v]) = vols[v].used /\ UsedOf(r) = u
    <3> HIDE DEF r
    <3>1. r # None
      BY <2>7, NoneAssumption, ZenonT(60)
    <3> QED BY <2>1, <2>7, <3>1, ZenonT(60) DEF UsedOf
  <2> HIDE DEF r, old
  <2>10. /\ total'.used = total.used + n
         /\ drift' = drift + n + UsedOf(vols[v]) - UsedOf(r)
    BY <2>3, <2>4, <2>6, <2>7, <2>8, <2>9
  <2>11. r \in Volume \cup {None}
    BY <2>7, ZenonT(60)
  <2> QED BY <2>3, <2>4, <2>8, <2>10, <2>11, UsedStep, ZenonT(60)
<1> QED BY <1>1, <1>2, ZenonT(60)

(* Restoring into a volume: the total is not told what it now uses.        *)
LEMMA RestoreIntoDrifted ==
  ASSUME Owned, Drifted, NEW v \in VolIds, NEW s \in SnapIds, NEW target \in VolIds,
         RestoreInto(v, s, target)
  PROVE  Drifted'
<1>1. CASE Refuse(404) \/ Refuse(500)
  BY <1>1, RefuseDrifted, ZenonT(60)
<1>2. CASE ~(Refuse(404) \/ Refuse(500))
  <2> DEFINE r == [vols[target] EXCEPT !.dict = VolDict(target), !.used = snaps[s].used]
  <2>1. /\ Found(v, s) /\ vols[target] # None /\ vols' = [vols EXCEPT ![target] = r]
        /\ total' = total /\ drift' = drift + vols[target].used - snaps[s].used
    BY <1>2, ZenonT(60) DEF RestoreInto, Live
  <2>2. vols[target] \in Volume /\ snaps[s].used \in Nat
    BY <2>1, FoundSnapshot, ZenonT(60) DEF Owned
  <2>3. r \in Volume /\ r.used = snaps[s].used /\ vols[target].used \in Nat
    BY <2>2, DictNames, ZenonT(60) DEF Volume
  <2>4. total \in TotalRec /\ total.used \in Int /\ drift \in Int
    BY ZenonT(60) DEF TotalRec, Drifted
  <2> HIDE DEF r
  <2>5. UsedOf(vols[target]) = vols[target].used /\ UsedOf(r) = snaps[s].used
    <3>1. r # None
      BY <2>3, NoneAssumption, ZenonT(60)
    <3> QED BY <2>1, <2>3, <3>1, ZenonT(60) DEF UsedOf
  <2>6. /\ total'.used = total.used + 0 /\ total' \in TotalRec
        /\ drift' = drift + 0 + UsedOf(vols[target]) - UsedOf(r)
    BY <2>1, <2>2, <2>3, <2>4, <2>5
  <2>7. 0 \in Int /\ r \in Volume \cup {None}
    BY <2>3
  <2> QED BY <2>1, <2>6, <2>7, UsedStep, ZenonT(60)
<1> QED BY <1>1, <1>2, ZenonT(60)

(* delete_volume: what the volume reports comes off.                       *)
LEMMA DeleteDrifted ==
  ASSUME Owned, Drifted, NEW v \in VolIds, DeleteVolume(v), Counted'
  PROVE  Drifted'
<1>1. CASE ~Live(v)
  BY <1>1, RefuseDrifted, ZenonT(60) DEF DeleteVolume
<1>2. CASE Live(v)
  <2> DEFINE a == total.vols - 1
             b == total.provisioned - vols[v].size
             c == total.used - vols[v].used
             d == total.logical - vols[v].logical
             e == total.physical - vols[v].physical
  <2>1. /\ vols[v] # None /\ vols' = [vols EXCEPT ![v] = None] /\ drift' = drift
        /\ total' = [total EXCEPT !.vols = a, !.provisioned = b, !.used = c, !.logical = d,
                                  !.physical = e]
    BY <1>2, ZenonT(60) DEF DeleteVolume, Live
  <2>2. vols[v] \in Volume
    BY <2>1, ZenonT(60) DEF Owned
  <2>3. vols[v].used \in Nat
    BY <2>2, ZenonT(60) DEF Volume
  <2>4. total \in TotalRec /\ total.used \in Int /\ drift \in Int /\ total' \in TotalRec
    BY ZenonT(60) DEF TotalRec, Drifted, Counted
  <2>5. total'.used = c
    <3> HIDE DEF a, b, c, d, e
    <3>1. total' = [vols |-> a, provisioned |-> b, used |-> c, logical |-> d, physical |-> e,
                    snaps |-> total.snaps]
      BY <2>1, <2>4, ZenonT(60) DEF TotalRec
    <3> QED BY <3>1, ZenonT(60)
  <2>6. UsedOf(vols[v]) = vols[v].used /\ UsedOf(None) = 0
    BY <2>1, ZenonT(60) DEF UsedOf
  <2> HIDE DEF a, b, d, e
  <2> DEFINE k == 0 - vols[v].used
  <2>7. /\ k \in Int /\ total'.used = total.used + k
        /\ drift' = drift + k + UsedOf(vols[v]) - UsedOf(None)
    BY <2>1, <2>3, <2>4, <2>5, <2>6
  <2> HIDE DEF k
  <2> QED BY <2>1, <2>4, <2>7, UsedStep, ZenonT(60)
<1> QED BY <1>1, <1>2, ZenonT(60)

(* Snapshots come and go without the total.                                *)
LEMMA SnapshotsDrifted ==
  ASSUME Drifted, NEW v \in VolIds,
         CreateSnapshot(v) \/ (\E s \in SnapIds : DeleteSnapshot(v, s)), Counted'
  PROVE  Drifted'
<1>1. CASE \E c : Refuse(c)
  BY <1>1, RefuseDrifted, ZenonT(60)
<1>2. CASE ~\E c : Refuse(c)
  <2>1. /\ vols' = vols /\ drift' = drift
        /\ \/ total' = [total EXCEPT !.snaps = @ + 1]
           \/ total' = [total EXCEPT !.snaps = @ - 1]
    BY <1>2, ZenonT(60) DEF CreateSnapshot, DeleteSnapshot, DropSnapshot
  <2>2. total'.used = total.used /\ total' \in TotalRec
    BY <2>1, ZenonT(60) DEF TotalRec, Drifted, Counted
  <2> QED BY <2>1, <2>2, UsedStays, ZenonT(60)
<1> QED BY <1>1, <1>2, ZenonT(60)

(* clone_volume and restoring to a new volume add used bytes.              *)
LEMMA CopiesDrifted ==
  ASSUME Owned, Counted, Drifted, NEW v \in VolIds,
         CloneVolume(v) \/ (\E s \in SnapIds : RestoreNew(v, s)), Counted'
  PROVE  Drifted'
<1>1. CASE \E c : Refuse(c)
  BY <1>1, RefuseDrifted, ZenonT(60)
<1>2. CASE Live(v) /\ AddVolume(vols[v].size, heap[vols[v].dict], vols[v].used, vols[v].logical)
  <2>1. vols[v] \in Volume
    BY <1>2, ZenonT(60) DEF Owned, Live
  <2>2. /\ vols[v].size \in Sizes /\ vols[v].logical \in Int
        /\ vols[v].dict \in Dicts
    BY <2>1, ZenonT(60) DEF Volume
  <2>3. heap[vols[v].dict] \in Mapping /\ Sized(heap[vols[v].dict], vols[v].used)
    BY <1>2, <2>2, ZenonT(60) DEF Owned, Live
  <2> QED BY <1>2, <2>2, <2>3, AddDrifted, ZenonT(60)
<1>3. ASSUME NEW s \in SnapIds, Found(v, s),
             AddVolume(snaps[s].size, heap[snaps[s].dict], snaps[s].used, 0)
      PROVE  Drifted'
  <2>1. /\ heap[snaps[s].dict] \in Mapping /\ snaps[s].size \in Sizes
        /\ Sized(heap[snaps[s].dict], snaps[s].used)
    BY <1>3, FoundSnapshot, ZenonT(60)
  <2>2. 0 \in Int
    OBVIOUS
  <2> QED BY <1>3, <2>1, <2>2, AddDrifted, ZenonT(60)
<1> QED BY <1>1, <1>2, <1>3, ZenonT(60) DEF CloneVolume, RestoreNew

(* Every request keeps the total of used bytes off by the drift.           *)
LEMMA NextDrifted ==
  ASSUME Owned, Counted, Drifted, Next, Counted'
  PROVE  Drifted'
<1>1. ASSUME NEW n \in Sizes, CreateVolume(n)
      PROVE  Drifted'
  <2>1. AddVolume(n, NoBlocks, 0, 0) /\ 0 \in Int
    BY <1>1, SMT DEF CreateVolume
  <2> QED BY <2>1, AddDrifted, EmptyMapping, ZenonT(60)
<1> QED BY ZenonT(60), <1>1, DeleteDrifted, ResizeDrifted, WriteDrifted, CopiesDrifted, SnapshotsDrifted,
           RestoreIntoDrifted DEF Next

-----------------------------------------------------------------------------
(* The lists of snapshots, oldest first, and what they name.               *)
Ordered(q) == \A i, j \in 1 .. Len(q) : i < j => q[i] < q[j]
Names(q, s) == \E i \in 1 .. Len(q) : q[i] = s

(* A younger snapshot goes to the end of a list.                           *)
LEMMA OneMore ==
  ASSUME NEW q \in Seq(SnapIds), Ordered(q), NEW s \in SnapIds,
         \A t \in SnapIds : Names(q, t) => t < s
  PROVE  /\ Append(q, s) \in Seq(SnapIds) /\ Len(Append(q, s)) = Len(q) + 1
         /\ Ordered(Append(q, s))
         /\ \A t \in SnapIds : Names(Append(q, s), t) <=> Names(q, t) \/ t = s
<1> DEFINE a == Append(q, s)
<1>1. /\ a \in Seq(SnapIds) /\ Len(a) = Len(q) + 1 /\ Len(q) \in Nat /\ a[Len(q) + 1] = s
      /\ \A i \in 1 .. Len(q) : a[i] = q[i] /\ q[i] \in SnapIds
  OBVIOUS
<1> HIDE DEF a
<1>2. ASSUME NEW i \in 1 .. Len(a), NEW j \in 1 .. Len(a), i < j
      PROVE  a[i] < a[j]
  <2>1. i \in 1 .. Len(q) /\ a[i] = q[i] /\ q[i] \in SnapIds
    BY <1>1, <1>2
  <2>2. CASE j \in 1 .. Len(q)
    BY <1>1, <1>2, <2>1, <2>2, ZenonT(60) DEF Ordered
  <2>3. CASE j \notin 1 .. Len(q)
    <3>1. a[j] = s
      BY <1>1, <2>3
    <3> QED BY <2>1, <3>1, ZenonT(60) DEF Names
  <2> QED BY <2>2, <2>3, ZenonT(60)
<1>3. ASSUME NEW t \in SnapIds
      PROVE  Names(a, t) <=> Names(q, t) \/ t = s
  <2>1. ASSUME NEW i \in 1 .. Len(a), a[i] = t
        PROVE  Names(q, t) \/ t = s
    <3>1. CASE i \in 1 .. Len(q)
      BY <1>1, <2>1, <3>1, ZenonT(60) DEF Names
    <3>2. CASE i \notin 1 .. Len(q)
      BY <1>1, <2>1, <3>2
    <3> QED BY <3>1, <3>2, ZenonT(60)
  <2>2. ASSUME NEW i \in 1 .. Len(q), q[i] = t
        PROVE  i \in 1 .. Len(a) /\ a[i] = t
    BY <1>1, <2>2
  <2>3. Len(q) + 1 \in 1 .. Len(a)
    BY <1>1
  <2> QED BY <1>1, <2>1, <2>2, <2>3, ZenonT(60) DEF Names
<1> QED BY <1>1, <1>2, <1>3, ZenonT(60) DEF a, Ordered

(* list.remove takes the one entry there is of a snapshot.                 *)
LEMMA OneLess ==
  ASSUME NEW q \in Seq(SnapIds), Ordered(q), NEW s \in SnapIds, Names(q, s)
  PROVE  /\ Without(q, s) \in Seq(SnapIds) /\ Len(Without(q, s)) = Len(q) - 1
         /\ Ordered(Without(q, s))
         /\ \A t \in SnapIds : Names(Without(q, s), t) <=> Names(q, t) /\ t # s
<1> DEFINE a == Without(q, s)
           n == Len(q)
<1>1. n \in Nat /\ DOMAIN q = 1 .. n /\ \A i \in 1 .. n : q[i] \in SnapIds /\ q[i] \in Int
  <2>1. n \in Nat /\ DOMAIN q = 1 .. n /\ \A i \in 1 .. n : q[i] \in SnapIds
    OBVIOUS
  <2>2. SnapIds \subseteq Int
    BY DEF SnapIds
  <2> QED BY <2>1, <2>2, ZenonT(60)
<1>2. PICK k \in 1 .. n : q[k] = s
  BY ZenonT(60) DEF Names
<1>3. \A i \in 1 .. n : q[i] = s => i = k
  BY <1>1, <1>2 DEF Ordered
<1>4. FirstAt(q, s) = k
  <2>1. k \in DOMAIN q /\ q[k] = s /\ \A j \in DOMAIN q : j < k => q[j] # s
    BY <1>1, <1>2, <1>3
  <2>2. \A i \in DOMAIN q : q[i] = s => i = k
    BY <1>1, <1>3, ZenonT(60)
  <2> QED BY <2>1, <2>2, ZenonT(60) DEF FirstAt
<1>5. a = [i \in 1 .. n - 1 |-> IF i < k THEN q[i] ELSE q[i + 1]]
  BY <1>4, ZenonT(60) DEF Without
<1>6. n - 1 \in Nat /\ \A i \in 1 .. n - 1 : i \in 1 .. n /\ i + 1 \in 1 .. n
  BY <1>1, <1>2
<1> HIDE DEF n
<1>7. a \in Seq(SnapIds) /\ Len(a) = n - 1
  <2>1. \A i \in 1 .. n - 1 : a[i] \in SnapIds
    BY <1>1, <1>5, <1>6, ZenonT(60)
  <2>2. a \in [1 .. n - 1 -> SnapIds]
    BY <1>5, <2>1, ZenonT(60)
  <2> HIDE DEF a
  <2> QED BY <1>6, <2>2
<1>8. \A i \in 1 .. n - 1 : a[i] = IF i < k THEN q[i] ELSE q[i + 1]
  BY <1>5, ZenonT(60)
<1> HIDE DEF a
<1>9. Ordered(a)
  <2> SUFFICES ASSUME NEW i \in 1 .. n - 1, NEW j \in 1 .. n - 1, i < j PROVE a[i] < a[j]
    BY <1>7, ZenonT(60) DEF Ordered
  <2>1. \A x, y \in 1 .. n : x < y => q[x] < q[y]
    BY ZenonT(60) DEF Ordered, n
  <2> QED BY <1>1, <1>6, <1>8, <2>1
<1>10. ASSUME NEW t \in SnapIds
       PROVE  Names(a, t) <=> Names(q, t) /\ t # s
  <2>1. ASSUME NEW i \in 1 .. n - 1, a[i] = t
        PROVE  Names(q, t) /\ t # s
    <3>1. CASE i < k
      <4>1. a[i] = q[i] /\ i \in 1 .. n /\ i # k
        BY <1>2, <1>6, <1>8, <3>1
      <4> QED BY <1>3, <2>1, <4>1, ZenonT(60) DEF Names, n
    <3>2. CASE ~(i < k)
      <4>1. a[i] = q[i + 1] /\ i + 1 \in 1 .. n /\ i + 1 # k
        BY <1>2, <1>6, <1>8, <3>2
      <4> QED BY <1>3, <2>1, <4>1, ZenonT(60) DEF Names, n
    <3> QED BY <3>1, <3>2, ZenonT(60)
  <2>2. ASSUME NEW i \in 1 .. n, q[i] = t, t # s
        PROVE  \E j \in 1 .. n - 1 : a[j] = t
    <3>1. i # k
      BY <1>2, <2>2, ZenonT(60)
    <3>2. CASE i < k
      <4>1. i \in 1 .. n - 1 /\ a[i] = q[i]
        BY <1>1, <1>2, <1>8, <3>2
      <4> QED BY <2>2, <4>1, ZenonT(60)
    <3>3. CASE i > k
      <4>1. i - 1 \in 1 .. n - 1 /\ ~(i - 1 < k) /\ i - 1 + 1 = i
        BY <1>1, <1>2, <3>3
      <4>2. a[i - 1] = q[i]
        BY <1>8, <4>1, ZenonT(60)
      <4> QED BY <2>2, <4>1, <4>2, ZenonT(60)
    <3> QED BY <1>2, <3>1, <3>2, <3>3
  <2> QED BY <1>7, <2>1, <2>2, ZenonT(60) DEF Names, n
<1> QED BY <1>7, <1>9, <1>10, ZenonT(60) DEF a, n

(* Each list names the snapshots of its volume, in order, and its length   *)
(* is the count kept of it.                                                *)
ListOf(v) ==
  /\ Ordered(index[v]) /\ Len(index[v]) <= used.snaps /\ byVolume[v] = Len(index[v])
  /\ \A s \in SnapIds : Names(index[v], s) <=> snaps[s] # None /\ snaps[s].vol = v
Listed ==
  /\ index \in [VolIds -> Seq(SnapIds)] /\ byVolume \in [VolIds -> Int]
  /\ \A v \in VolIds : ListOf(v)
(* Steps that leave the snapshots alone leave the lists.                   *)
LEMMA SameLists ==
  ASSUME Listed, index' = index, byVolume' = byVolume, snaps' = snaps, used'.snaps = used.snaps
  PROVE  Listed'
BY ZenonT(60) DEF Listed, ListOf

(* create_snapshot: the new snapshot is the youngest of all.               *)
LEMMA CreateSnapshotListed ==
  ASSUME Owned, Listed, NEW v \in VolIds, CreateSnapshot(v)
  PROVE  Listed'
<1>1. CASE ~Live(v)
  BY <1>1, SameLists, ZenonT(60) DEF CreateSnapshot, Refuse
<1>2. CASE Live(v)
  <2> DEFINE s == used.snaps + 1
             r == [vol |-> v, size |-> vols[v].size, used |-> vols[v].used, dict |-> SnapDict(s)]
             q == index[v]
             n == Len(q) + 1
  <2>1. /\ s \in SnapIds /\ snaps' = [snaps EXCEPT ![s] = r]
        /\ index' = [index EXCEPT ![v] = Append(q, s)] /\ byVolume' = [byVolume EXCEPT ![v] = n]
        /\ used' = [used EXCEPT !.snaps = s]
    BY <1>2, ZenonT(60) DEF CreateSnapshot
  <2>2. used \in [vols : Nat, snaps : Nat] /\ snaps \in [SnapIds -> Snapshot \cup {None}]
    BY ZenonT(60) DEF Owned
  <2>3. /\ q \in Seq(SnapIds) /\ Ordered(q) /\ Len(q) <= used.snaps /\ byVolume[v] = Len(q)
        /\ \A t \in SnapIds : Names(q, t) <=> snaps[t] # None /\ snaps[t].vol = v
    BY ZenonT(60) DEF Listed, ListOf
  <2>4. used'.snaps = s /\ s > used.snaps /\ s \in Nat /\ used.snaps \in Nat
    BY <2>1, <2>2
  <2>5. \A t \in SnapIds : snaps[t] # None => t < s /\ t # s
    <3> SUFFICES ASSUME NEW t \in SnapIds, snaps[t] # None PROVE t < s /\ t # s
      BY ZenonT(60)
    <3>1. ~(t > used.snaps) /\ t \in Int
      BY DEF Owned, SnapIds
    <3> HIDE DEF s
    <3> QED BY <2>4, <3>1
  <2>6. r # None /\ r.vol = v
    <3>1. vols[v] \in Volume
      BY <1>2, ZenonT(60) DEF Owned, Live
    <3>2. vols[v].size \in Sizes /\ vols[v].used \in Nat
      BY <3>1, ZenonT(60) DEF Volume
    <3>3. r \in Snapshot
      BY <2>1, <3>2, DictNames, ZenonT(60) DEF Snapshot
    <3> QED BY <3>3, NoneAssumption, ZenonT(60)
  <2>7. Len(q) \in Nat /\ n <= s /\ n \in Int
    BY <2>3, <2>4
  <2>8. /\ Append(q, s) \in Seq(SnapIds) /\ Len(Append(q, s)) = n /\ Ordered(Append(q, s))
        /\ \A t \in SnapIds : Names(Append(q, s), t) <=> Names(q, t) \/ t = s
    <3> HIDE DEF s, q
    <3> QED BY <2>1, <2>3, <2>5, OneMore, ZenonT(60)
  <2> HIDE DEF s, r, q, n
  <2>9. /\ snaps'[s] = r /\ \A t \in SnapIds : t # s => snaps'[t] = snaps[t]
    BY <2>1, <2>2, ZenonT(60)
  <2>10. /\ index' \in [VolIds -> Seq(SnapIds)] /\ byVolume' \in [VolIds -> Int]
         /\ index'[v] = Append(q, s) /\ byVolume'[v] = n
         /\ \A w \in VolIds : w # v => index'[w] = index[w] /\ byVolume'[w] = byVolume[w]
    BY <2>1, <2>7, <2>8, ZenonT(60) DEF Listed
  <2>11. ListOf(v)'
    <3>1. \A t \in SnapIds : Names(Append(q, s), t) <=> snaps'[t] # None /\ snaps'[t].vol = v
      BY <2>3, <2>5, <2>6, <2>8, <2>9, ZenonT(60)
    <3> QED BY <2>4, <2>7, <2>8, <2>10, <3>1, ZenonT(60) DEF ListOf
  <2>12. ASSUME NEW w \in VolIds, w # v PROVE ListOf(w)'
    <3>1. /\ Ordered(index[w]) /\ Len(index[w]) <= used.snaps /\ byVolume[w] = Len(index[w])
          /\ \A t \in SnapIds : Names(index[w], t) <=> snaps[t] # None /\ snaps[t].vol = w
          /\ Len(index[w]) \in Nat
      BY DEF Listed, ListOf
    <3>2. \A t \in SnapIds : Names(index[w], t) <=> snaps'[t] # None /\ snaps'[t].vol = w
      BY <2>5, <2>6, <2>9, <2>12, <3>1, ZenonT(60)
    <3>3. Len(index[w]) <= s
      BY <2>4, <3>1
    <3> QED BY <2>4, <2>10, <2>12, <3>1, <3>2, <3>3, ZenonT(60) DEF ListOf
  <2> QED BY <2>10, <2>11, <2>12, ZenonT(60) DEF Listed
<1> QED BY <1>1, <1>2, ZenonT(60)

(* delete_snapshot: the list of its volume loses it, even when the volume  *)
(* is gone.                                                                *)
LEMMA DeleteSnapshotListed ==
  ASSUME Owned, Listed, NEW v \in VolIds, NEW s \in SnapIds, DeleteSnapshot(v, s)
  PROVE  Listed'
<1>1. CASE ~Found(v, s)
  BY <1>1, SameLists, ZenonT(60) DEF DeleteSnapshot, Refuse
<1>2. CASE Found(v, s)
  <2> DEFINE q == index[v]
             a == Without(q, s)
             n == Len(a)
  <2>1. /\ snaps[s] # None /\ snaps[s].vol = v /\ snaps' = [snaps EXCEPT ![s] = None]
        /\ index' = [index EXCEPT ![v] = a] /\ byVolume' = [byVolume EXCEPT ![v] = n]
        /\ used' = used
    BY <1>2, ZenonT(60) DEF DeleteSnapshot, DropSnapshot, Found, SnapLive
  <2>2. used.snaps \in Nat /\ snaps \in [SnapIds -> Snapshot \cup {None}]
    BY ZenonT(60) DEF Owned
  <2>3. /\ q \in Seq(SnapIds) /\ Ordered(q) /\ Len(q) <= used.snaps /\ byVolume[v] = Len(q)
        /\ \A t \in SnapIds : Names(q, t) <=> snaps[t] # None /\ snaps[t].vol = v
    BY ZenonT(60) DEF Listed, ListOf
  <2>4. /\ a \in Seq(SnapIds) /\ n = Len(q) - 1 /\ Ordered(a)
        /\ \A t \in SnapIds : Names(a, t) <=> Names(q, t) /\ t # s
    <3> HIDE DEF q
    <3> QED BY <2>1, <2>3, OneLess, ZenonT(60)
  <2>5. Len(q) \in Nat /\ n <= used.snaps /\ n \in Int
    <3>1. Len(q) \in Nat
      BY <2>3
    <3> HIDE DEF q, n
    <3> QED BY <2>2, <2>3, <2>4, <3>1
  <2>6. snaps'[s] = None /\ \A t \in SnapIds : t # s => snaps'[t] = snaps[t]
    BY <2>1, <2>2, ZenonT(60)
  <2>7. n = Len(a)
    BY ZenonT(60)
  <2> HIDE DEF q, a, n
  <2>8. /\ index' \in [VolIds -> Seq(SnapIds)] /\ byVolume' \in [VolIds -> Int]
        /\ index'[v] = a /\ byVolume'[v] = n
        /\ \A w \in VolIds : w # v => index'[w] = index[w] /\ byVolume'[w] = byVolume[w]
    BY <2>1, <2>4, <2>5, ZenonT(60) DEF Listed
  <2>9. ListOf(v)'
    <3>1. \A t \in SnapIds : Names(a, t) <=> snaps'[t] # None /\ snaps'[t].vol = v
      BY <2>3, <2>4, <2>6, ZenonT(60)
    <3> QED BY <2>1, <2>4, <2>5, <2>7, <2>8, <3>1, ZenonT(60) DEF ListOf
  <2>10. ASSUME NEW w \in VolIds, w # v PROVE ListOf(w)'
    <3>1. /\ Ordered(index[w]) /\ Len(index[w]) <= used.snaps /\ byVolume[w] = Len(index[w])
          /\ \A t \in SnapIds : Names(index[w], t) <=> snaps[t] # None /\ snaps[t].vol = w
      BY ZenonT(60) DEF Listed, ListOf
    <3>2. \A t \in SnapIds : Names(index[w], t) <=> snaps'[t] # None /\ snaps'[t].vol = w
      BY <2>1, <2>6, <2>10, <3>1, ZenonT(60)
    <3> QED BY <2>1, <2>8, <2>10, <3>1, <3>2, ZenonT(60) DEF ListOf
  <2> QED BY <2>8, <2>9, <2>10, ZenonT(60) DEF Listed
<1> QED BY <1>1, <1>2, ZenonT(60)
(* Adding a volume gives out no snapshot id.                               *)
LEMMA AddListed ==
  ASSUME Owned, Listed, NEW size, NEW f, NEW u, NEW l, AddVolume(size, f, u, l),
         snaps' = snaps, index' = index, byVolume' = byVolume
  PROVE  Listed'
<1>1. used'.snaps = used.snaps
  BY ZenonT(60) DEF AddVolume, Owned
<1> QED BY <1>1, SameLists, ZenonT(60)

(* Every request keeps the lists.                                          *)
LEMMA NextListed ==
  ASSUME Owned, Listed, Next
  PROVE  Listed'
<1>1. ASSUME NEW n \in Sizes, CreateVolume(n)
      PROVE  Listed'
  BY <1>1, AddListed, ZenonT(60) DEF CreateVolume
<1>2. ASSUME NEW v \in VolIds, DeleteVolume(v) \/ CloneVolume(v)
      PROVE  Listed'
  BY <1>2, AddListed, SameLists, ZenonT(60) DEF DeleteVolume, CloneVolume, Refuse
<1>3. ASSUME NEW v \in VolIds, NEW n \in Sizes, ResizeVolume(v, n)
      PROVE  Listed'
  BY <1>3, SameLists, ZenonT(60) DEF ResizeVolume, Refuse
<1>4. ASSUME NEW v \in VolIds, NEW o \in Offsets, NEW n \in Lengths, Write(v, o, n)
      PROVE  Listed'
  BY <1>4, SameLists, ZenonT(60) DEF Write, Refuse
<1>5. ASSUME NEW v \in VolIds, NEW s \in SnapIds, RestoreNew(v, s)
      PROVE  Listed'
  BY <1>5, AddListed, SameLists, ZenonT(60) DEF RestoreNew, Refuse
<1>6. ASSUME NEW v \in VolIds, NEW s \in SnapIds, NEW target \in VolIds, RestoreInto(v, s, target)
      PROVE  Listed'
  BY <1>6, SameLists, ZenonT(60) DEF RestoreInto, Refuse
<1> QED BY <1>1, <1>2, <1>3, <1>4, <1>5, <1>6, CreateSnapshotListed, DeleteSnapshotListed, ZenonT(60) DEF Next

(* At the start there is nothing to count or to list.                      *)
LEMMA InitCounted ==
  ASSUME Init
  PROVE  Counted /\ Drifted /\ Listed
<1>1. LiveVols = {} /\ LiveSnaps = {} /\ SizeCells = {} /\ UsedCells = {}
  BY ZenonT(60) DEF Init, LiveVols, Live, LiveSnaps, SnapLive, SizeCells, UsedCells
<1>2. VolumesCounted
  BY <1>1, FS_EmptySet, ZenonT(60) DEF Init, VolumesCounted
<1>3. total \in TotalRec /\ used \in [vols : 0 .. MaxVols, snaps : 0 .. MaxSnaps]
  BY ServiceAssumption DEF Init, TotalRec
<1>4. Counted
  BY <1>1, <1>2, <1>3, FS_EmptySet, ZenonT(60) DEF Init, Counted
<1>5. ASSUME NEW v \in VolIds PROVE ListOf(v)
  <2>1. index[v] = <<>> /\ byVolume[v] = 0 /\ used.snaps = 0 /\ \A s \in SnapIds : snaps[s] = None
    BY ZenonT(60) DEF Init
  <2>2. Ordered(<<>>) /\ Len(<<>>) = 0 /\ \A s : ~Names(<<>>, s)
    BY DEF Ordered, Names
  <2> QED BY <2>1, <2>2 DEF ListOf
<1>6. index \in [VolIds -> Seq(SnapIds)] /\ byVolume \in [VolIds -> Int]
  BY DEF Init
<1>7. Drifted
  <2>1. Cardinality({}) = 0 /\ IsFiniteSet({})
    BY FS_EmptySet, ZenonT(60)
  <2>2. drift = 0 /\ total.used = 0
    BY ZenonT(60) DEF Init
  <2> QED BY <1>1, <1>3, <2>1, <2>2 DEF Drifted
<1> QED BY <1>4, <1>5, <1>6, <1>7, ZenonT(60) DEF Listed

(* The four invariants say what CountersExact says.                        *)
LEMMA CountersFollow ==
  ASSUME Owned, Counted, Drifted, Listed
  PROVE  CountersExact
<1>1. \A v \in LiveVols : vols[v].used = Mapped(vols[v].dict)
  BY LiveAre, ZenonT(60) DEF Owned, Sized, Mapped
<1>2. \A s \in LiveSnaps : snaps[s].used = Mapped(snaps[s].dict)
  BY LiveAre, ZenonT(60) DEF Owned, Sized, Mapped
<1>3. /\ total.vols = Cardinality(LiveVols) /\ total.provisioned = Cardinality(SizeCells)
      /\ total.snaps = Cardinality(LiveSnaps) /\ total.used = Cardinality(UsedCells) + drift
  BY ZenonT(60) DEF Counted, VolumesCounted, Drifted
<1>4. total.vols \in Nat /\ total.provisioned \in Nat /\ total.snaps \in Nat
  BY <1>3, LiveFinite, FS_CardinalityType, ZenonT(60) DEF Counted, VolumesCounted
<1>5. total \in [vols : Nat, provisioned : Nat, used : Int, logical : Int, physical : Int, snaps : Nat]
  BY <1>4, ZenonT(60) DEF Counted, TotalRec
<1>6. ASSUME NEW v \in VolIds
      PROVE  /\ {index[v][i] : i \in DOMAIN index[v]} = {s \in LiveSnaps : snaps[s].vol = v}
             /\ \A i, j \in DOMAIN index[v] : i < j => index[v][i] < index[v][j]
             /\ byVolume[v] = Len(index[v]) /\ byVolume[v] \in 0 .. MaxSnaps
  <2> DEFINE q == index[v]
  <2>1. /\ q \in Seq(SnapIds) /\ Ordered(q) /\ Len(q) <= used.snaps /\ byVolume[v] = Len(q)
        /\ \A t \in SnapIds : Names(q, t) <=> snaps[t] # None /\ snaps[t].vol = v
    BY ZenonT(60) DEF Listed, ListOf
  <2> HIDE DEF q
  <2>2. DOMAIN q = 1 .. Len(q) /\ Len(q) \in Nat /\ \A i \in 1 .. Len(q) : q[i] \in SnapIds
    BY <2>1
  <2>3. used.snaps \in 0 .. MaxSnaps /\ MaxSnaps \in Nat
    BY ServiceAssumption, ZenonT(60) DEF Counted
  <2>4. Len(q) \in 0 .. MaxSnaps
    BY <2>1, <2>2, <2>3
  <2>5. \A t : t \in {q[i] : i \in DOMAIN q} <=> t \in {s \in LiveSnaps : snaps[s].vol = v}
    BY <2>1, <2>2, LiveAre DEF Names
  <2>6. {q[i] : i \in DOMAIN q} = {s \in LiveSnaps : snaps[s].vol = v}
    BY <2>5, ZenonT(60)
  <2> QED BY <2>1, <2>2, <2>4, <2>6, ZenonT(60) DEF Ordered, q
<1>7. byVolume \in [VolIds -> 0 .. MaxSnaps]
  BY <1>6, ZenonT(60) DEF Listed
<1>8. TypeOK
  BY <1>5, <1>7, ZenonT(60) DEF TypeOK, Owned, Counted, Drifted, Listed
<1> QED BY <1>1, <1>2, <1>3, <1>6, <1>8, ZenonT(60) DEF CountersExact

(* After any sequence of requests used bytes, the numbers and sizes the    *)
(* totals count and the lists of snapshots are exact, of volumes that are  *)
(* gone as well; total_used_bytes is the sum of the volumes' used bytes    *)
(* plus what was overwritten less what clones and restores handed out.     *)
THEOREM FiguresExact == Spec => []CountersExact
<1>1. Init => Counted /\ Drifted /\ Listed
  BY InitCounted, ZenonT(60)
<1>2. Owned /\ Counted /\ Drifted /\ Listed /\ [Next]_vars => Counted' /\ Drifted' /\ Listed'
  <2>1. Counted /\ Listed /\ UNCHANGED vars => Counted' /\ Listed'
    BY DEF vars, Counted, Listed, ListOf, VolumesCounted, LiveVols, Live, LiveSnaps, SnapLive,
           SizeCells
  <2>2. Drifted /\ UNCHANGED vars => Drifted'
    BY ZenonT(60) DEF vars, Drifted, UsedCells, LiveVols, Live
  <2> QED BY <2>1, <2>2, NextCounted, NextDrifted, NextListed, ZenonT(60)
<1>3. Owned /\ Counted /\ Drifted /\ Listed => CountersExact
  BY CountersFollow
<1> QED BY <1>1, <1>2, <1>3, EveryDictOwned, PTL DEF Spec
=============================================================================
