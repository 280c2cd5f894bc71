------------------------- MODULE DirectFlashProofs --------------------------
(***************************************************************************)
(* Proofs about DirectFlash for every number of blocks, addresses and data *)
(* values, every endurance and every setting of the thresholds.            *)
(***************************************************************************)
EXTENDS DirectFlash, FiniteSetTheorems, TLAPS

(* The block manager's part of the inductive invariant.                    *)
BMInv == /\ BMTypeOK
         /\ MappingConsistent
         /\ PoolExact
         /\ \A p \in Blocks : bstate[p] # "BAD" => erase[p] < MaxErase
         /\ \A p \in Blocks : bstate[p] = "VALID" => bdata[p] # NoData

With(s) == {p \in Blocks : bstate[p] = s}

(* There are finitely many blocks, so every set of blocks has a size that  *)
(* goes up or down by one with one element.                                *)
LEMMA SizeOfBlockSets ==
  ASSUME NEW S \in SUBSET Blocks, NEW p \in Blocks
  PROVE  /\ IsFiniteSet(S)
         /\ Cardinality(S) \in Nat
         /\ Cardinality(S) = 0 <=> S = {}
         /\ p \notin S => Cardinality(S \cup {p}) = Cardinality(S) + 1
         /\ p \in S => Cardinality(S \ {p}) = Cardinality(S) - 1
<1>1. IsFiniteSet(Blocks)
  BY FS_Interval, BlockAssumption DEF Blocks
<1>2. IsFiniteSet(S)
  BY <1>1, FS_Subset, ZenonT(60)
<1>. QED
  BY <1>2, FS_CardinalityType, FS_EmptySet, FS_AddElement, FS_RemoveElement, ZenonT(60)

(* write_block of an address without a block keeps the invariant when it   *)
(* finds room, and changes nothing when it does not.                       *)
LEMMA WriteSucceedsKeeps ==
  ASSUME BMInv, NEW a \in Addr, l2p[a] = None, NEW d \in Data,
         WriteBlockSucceeds(a, d)
  PROVE  BMInv'
<1>0. PICK p \in LeastWorn :
       /\ free' = free \ {p}
       /\ bstate' = [q \in Blocks |-> IF q = p THEN "VALID"
                                      ELSE IF q \in Superseded(a) THEN "INVALID"
                                      ELSE bstate[q]]
       /\ laddr' = [q \in Blocks |-> IF q = p THEN a
                                     ELSE IF q \in Superseded(a) THEN None
                                     ELSE laddr[q]]
       /\ bdata' = [bdata EXCEPT ![p] = d]
       /\ l2p' = [l2p EXCEPT ![a] = p]
       /\ free_blocks' = free_blocks - 1
       /\ valid_blocks' = IF Superseded(a) = {} THEN valid_blocks + 1 ELSE valid_blocks
       /\ invalid_blocks' = IF Superseded(a) = {} THEN invalid_blocks
                                                 ELSE invalid_blocks + 1
       /\ UNCHANGED <<erase, bad_blocks>>
  BY ZenonT(60) DEF WriteBlockSucceeds
<1>1. /\ p \in Blocks /\ p \in free /\ bstate[p] = "FREE" /\ erase[p] < MaxErase
      /\ Superseded(a) = {}
  BY <1>0, ZenonT(60) DEF LeastWorn, BMInv, BMTypeOK, PoolExact, Superseded, None, Blocks
<1>2. /\ bstate' = [bstate EXCEPT ![p] = "VALID"]
      /\ laddr' = [laddr EXCEPT ![p] = a]
      /\ free' = free \ {p}
      /\ bdata' = [bdata EXCEPT ![p] = d]
      /\ l2p' = [l2p EXCEPT ![a] = p]
      /\ erase' = erase
      /\ free_blocks' = free_blocks - 1 /\ valid_blocks' = valid_blocks + 1
      /\ invalid_blocks' = invalid_blocks /\ bad_blocks' = bad_blocks
  BY <1>0, <1>1, ZenonT(60) DEF BMInv, BMTypeOK
<1>3. BMTypeOK'
  BY <1>1, <1>2, SMTT(30) DEF BMInv, BMTypeOK, BlockState, None, Blocks, Addr
<1>4. MappingConsistent'
  <2>1. ASSUME NEW x \in Addr, l2p'[x] # None
        PROVE  bstate'[l2p'[x]] = "VALID" /\ laddr'[l2p'[x]] = x
    BY <1>1, <1>2, <2>1 DEF BMInv, BMTypeOK, MappingConsistent
  <2>2. ASSUME NEW q \in Blocks, bstate'[q] = "VALID"
        PROVE  laddr'[q] # None /\ l2p'[laddr'[q]] = q
    BY <1>1, <1>2, <2>2, SMT, SMTT(60) DEF BMInv, BMTypeOK, MappingConsistent, None, Addr, Blocks
  <2>. QED
    BY <2>1, <2>2, ZenonT(60) DEF MappingConsistent
<1>5. PoolExact'
  <2>1. free' = {q \in Blocks : bstate'[q] = "FREE"}
    BY <1>1, <1>2, ZenonT(60) DEF BMInv, BMTypeOK, PoolExact
  <2>2. With("VALID")' = With("VALID") \cup {p} /\ p \notin With("VALID")
    BY <1>1, <1>2, ZenonT(60) DEF BMInv, BMTypeOK, With
  <2>3. With("BAD")' = With("BAD")
    BY <1>1, <1>2, ZenonT(60) DEF BMInv, BMTypeOK, With
  <2>4. /\ Cardinality(free') = Cardinality(free) - 1
        /\ Cardinality(With("VALID")') = Cardinality(With("VALID")) + 1
    <3>1. With("VALID") \in SUBSET Blocks /\ free \in SUBSET Blocks
      BY ZenonT(60) DEF With, BMInv, BMTypeOK
    <3>. QED
      BY <1>1, <1>2, <2>2, <3>1, SizeOfBlockSets, ZenonT(60)
  <2>. QED
    BY <2>1, <2>3, <2>4, <1>2, SMTT(30) DEF BMInv, PoolExact, With
<1>. QED
  BY <1>1, <1>2, <1>3, <1>4, <1>5, BlockAssumption, ZenonT(60) DEF BMInv, BMTypeOK

(* write_block of an address without a block changes nothing when the      *)
(* pool is empty.                                                          *)
LEMMA WriteFailsKeeps ==
  ASSUME BMInv, NEW a \in Addr, l2p[a] = None, WriteBlockFails(a)
  PROVE  UNCHANGED bmVars
<1>1. Superseded(a) = {}
  BY ZenonT(60) DEF Superseded
<1>2. bstate' = bstate /\ laddr' = laddr
  BY <1>1, ZenonT(60) DEF WriteBlockFails, BMInv, BMTypeOK
<1>. QED
  BY <1>1, <1>2, ZenonT(60) DEF WriteBlockFails, bmVars, stats

(* delete_block keeps the invariant.                                       *)
LEMMA DeleteKeeps ==
  ASSUME BMInv, NEW a \in Addr, DeleteBlock(a)
  PROVE  BMInv'
<1>. DEFINE p == l2p[a]
<1>1. /\ p \in Blocks /\ bstate[p] = "VALID" /\ laddr[p] = a
      /\ bstate' = [bstate EXCEPT ![p] = "INVALID"]
      /\ laddr' = [laddr EXCEPT ![p] = None]
      /\ l2p' = [l2p EXCEPT ![a] = None]
      /\ valid_blocks' = valid_blocks - 1
      /\ invalid_blocks' = invalid_blocks + 1
      /\ UNCHANGED <<bdata, erase, free, free_blocks, bad_blocks>>
  BY ZenonT(60) DEF DeleteBlock, BMInv, BMTypeOK, MappingConsistent
<1>. HIDE DEF p
<1>2. BMTypeOK'
  BY <1>1 DEF BMInv, BMTypeOK, BlockState
<1>3. MappingConsistent'
  <2>1. ASSUME NEW x \in Addr, l2p'[x] # None
        PROVE  bstate'[l2p'[x]] = "VALID" /\ laddr'[l2p'[x]] = x
    BY <1>1, <2>1, ZenonT(60) DEF BMInv, BMTypeOK, MappingConsistent
  <2>2. ASSUME NEW q \in Blocks, bstate'[q] = "VALID"
        PROVE  laddr'[q] # None /\ l2p'[laddr'[q]] = q
    BY <1>1, <2>2, ZenonT(60) DEF BMInv, BMTypeOK, MappingConsistent, p
  <2>. QED
    BY <2>1, <2>2, ZenonT(60) DEF MappingConsistent
<1>4. PoolExact'
  <2>1. free' = {q \in Blocks : bstate'[q] = "FREE"}
    BY <1>1, ZenonT(60) DEF BMInv, BMTypeOK, PoolExact
  <2>2. /\ With("VALID")' = With("VALID") \ {p} /\ p \in With("VALID")
        /\ With("BAD")' = With("BAD")
    BY <1>1, ZenonT(60) DEF BMInv, BMTypeOK, With
  <2>3. With("VALID") \in SUBSET Blocks
    BY ZenonT(60) DEF With
  <2>4. Cardinality(With("VALID")') = Cardinality(With("VALID")) - 1
    BY <1>1, <2>2, <2>3, SizeOfBlockSets, ZenonT(60)
  <2>. QED
    BY <1>1, <2>1, <2>2, <2>4, ZenonT(60) DEF BMInv, PoolExact, With
<1>. QED
  BY <1>1, <1>2, <1>3, <1>4, ZenonT(60) DEF BMInv, BMTypeOK

(* erase_block of a stale block keeps the invariant, whether the block is  *)
(* free again or worn out, and leaves the table and live data alone.       *)
LEMMA EraseKeeps ==
  ASSUME BMInv, NEW p \in Blocks, bstate[p] = "INVALID", EraseBlock(p)
  PROVE  /\ BMInv'
         /\ bstate' \in {[bstate EXCEPT ![p] = "BAD"], [bstate EXCEPT ![p] = "FREE"]}
         /\ UNCHANGED <<l2p, valid_blocks>>
         /\ \A q \in Blocks : q # p => bdata'[q] = bdata[q] /\ erase'[q] = erase[q]
<1>1. /\ erase' = [erase EXCEPT ![p] = @ + 1]
      /\ erase[p] \in 0 .. MaxErase /\ erase[p] < MaxErase
      /\ UNCHANGED <<l2p, valid_blocks, invalid_blocks>>
  BY ZenonT(60) DEF EraseBlock, EraseWearsOut, EraseFrees, BMInv, BMTypeOK
<1>2. CASE EraseWearsOut(p)
  <2>1. BMTypeOK'
    BY <1>1, <1>2, BlockAssumption DEF EraseWearsOut, BMInv, BMTypeOK, BlockState
  <2>2. MappingConsistent'
    BY <1>1, <1>2 DEF EraseWearsOut, BMInv, BMTypeOK, MappingConsistent
  <2>3. PoolExact'
    <3>1. free' = {q \in Blocks : bstate'[q] = "FREE"}
      BY <1>2, ZenonT(60) DEF EraseWearsOut, BMInv, BMTypeOK, PoolExact
    <3>2. /\ With("BAD")' = With("BAD") \cup {p} /\ p \notin With("BAD")
          /\ With("VALID")' = With("VALID")
      BY <1>2, ZenonT(60) DEF EraseWearsOut, BMInv, BMTypeOK, With
    <3>3. With("BAD") \in SUBSET Blocks
      BY ZenonT(60) DEF With
    <3>4. Cardinality(With("BAD")') = Cardinality(With("BAD")) + 1
      BY <3>2, <3>3, SizeOfBlockSets, ZenonT(60)
    <3>. QED
      BY <1>1, <1>2, <3>1, <3>2, <3>4, ZenonT(60) DEF EraseWearsOut, BMInv, PoolExact, With
  <2>. QED
    BY <1>1, <1>2, <2>1, <2>2, <2>3, ZenonT(60) DEF EraseWearsOut, BMInv, BMTypeOK
<1>3. CASE EraseFrees(p)
  <2>1. BMTypeOK'
    BY <1>1, <1>3, BlockAssumption DEF EraseFrees, BMInv, BMTypeOK, BlockState
  <2>2. MappingConsistent'
    BY <1>1, <1>3 DEF EraseFrees, BMInv, BMTypeOK, MappingConsistent
  <2>3. PoolExact'
    <3>1. /\ free' = {q \in Blocks : bstate'[q] = "FREE"}
          /\ free' = free \cup {p} /\ p \notin free
      BY <1>3, ZenonT(60) DEF EraseFrees, BMInv, BMTypeOK, PoolExact
    <3>2. /\ With("BAD")' = With("BAD")
          /\ With("VALID")' = With("VALID")
      BY <1>3, ZenonT(60) DEF EraseFrees, BMInv, BMTypeOK, With
    <3>3. free \in SUBSET Blocks
      BY ZenonT(60) DEF BMInv, BMTypeOK
    <3>4. Cardinality(free') = Cardinality(free) + 1
      BY <3>1, <3>3, SizeOfBlockSets, ZenonT(60)
    <3>. QED
      BY <1>1, <1>3, <3>1, <3>2, <3>4, ZenonT(60) DEF EraseFrees, BMInv, PoolExact, With
  <2>. QED
    BY <1>1, <1>3, <2>1, <2>2, <2>3, ZenonT(60) DEF EraseFrees, BMInv, BMTypeOK
<1>. QED
  BY <1>2, <1>3, ZenonT(60) DEF EraseBlock

(* level_block keeps the invariant: the data, its address and the table    *)
(* entry move together.                                                    *)
LEMMA LevelKeeps ==
  ASSUME BMInv, NEW s \in Blocks, NEW d \in Blocks, Candidates(s, d),
         LevelBlock(s, d)
  PROVE  BMInv'
<1>. DEFINE a == laddr[s]
<1>1. /\ bstate[s] = "VALID" /\ bstate[d] = "FREE" /\ s # d /\ d \in free
      /\ a \in Addr /\ l2p[a] = s /\ a # None
      /\ bdata' = [bdata EXCEPT ![d] = bdata[s]]
      /\ bstate' = [bstate EXCEPT ![d] = "VALID", ![s] = "INVALID"]
      /\ laddr' = [laddr EXCEPT ![d] = a, ![s] = None]
      /\ l2p' = [l2p EXCEPT ![a] = d]
      /\ free' = free \ {d}
      /\ free_blocks' = free_blocks - 1
      /\ invalid_blocks' = invalid_blocks + 1
      /\ UNCHANGED <<erase, valid_blocks, bad_blocks>>
  BY DEF LevelBlock, Candidates, BMInv, BMTypeOK, MappingConsistent, PoolExact
<1>. HIDE DEF a
<1>2. BMTypeOK'
  BY <1>1 DEF BMInv, BMTypeOK, BlockState
<1>3. MappingConsistent'
  <2>1. ASSUME NEW x \in Addr, l2p'[x] # None
        PROVE  bstate'[l2p'[x]] = "VALID" /\ laddr'[l2p'[x]] = x
    BY <1>1, <2>1 DEF BMInv, BMTypeOK, MappingConsistent
  <2>2. ASSUME NEW q \in Blocks, bstate'[q] = "VALID"
        PROVE  laddr'[q] # None /\ l2p'[laddr'[q]] = q
    BY <1>1, <2>2 DEF BMInv, BMTypeOK, MappingConsistent
  <2>. QED
    BY <2>1, <2>2, ZenonT(60) DEF MappingConsistent
<1>4. PoolExact'
  <2>1. free' = {q \in Blocks : bstate'[q] = "FREE"}
    BY <1>1, ZenonT(60) DEF BMInv, BMTypeOK, PoolExact
  <2>2. /\ With("VALID")' = (With("VALID") \cup {d}) \ {s}
        /\ d \notin With("VALID") /\ s \in With("VALID") \cup {d}
        /\ With("BAD")' = With("BAD")
    BY <1>1, ZenonT(60) DEF BMInv, BMTypeOK, With
  <2>3. /\ With("VALID") \in SUBSET Blocks
        /\ With("VALID") \cup {d} \in SUBSET Blocks
        /\ free \in SUBSET Blocks
    BY ZenonT(60) DEF With, BMInv, BMTypeOK
  <2>. DEFINE V == With("VALID")
              W == V \cup {d}
  <2>4. Cardinality(W) = Cardinality(V) + 1 /\ Cardinality(V) \in Nat
    <3>1. V \in SUBSET Blocks /\ d \notin V
      BY <2>2, <2>3, ZenonT(60)
    <3>. QED
      BY <3>1, SizeOfBlockSets, ZenonT(60)
  <2>5. Cardinality(V') = Cardinality(W) - 1
    <3>1. W \in SUBSET Blocks /\ s \in W /\ V' = W \ {s}
      BY <2>2, <2>3, ZenonT(60)
    <3>. HIDE DEF W, V
    <3>. QED
      BY <3>1, SizeOfBlockSets, ZenonT(60)
  <2>6. Cardinality(free') = Cardinality(free) - 1
    BY <1>1, <2>3, SizeOfBlockSets, ZenonT(60)
  <2>7. Cardinality(With("VALID")') = Cardinality(With("VALID"))
    <3>. HIDE DEF W, With
    <3>. QED
      BY <2>4, <2>5
  <2>. QED
    BY <1>1, <2>1, <2>2, <2>6, <2>7, ZenonT(60) DEF BMInv, PoolExact, With
<1>. QED
  BY <1>1, <1>2, <1>3, <1>4, ZenonT(60) DEF BMInv, BMTypeOK, Candidates

-----------------------------------------------------------------------------
(* The inductive invariant, and its part about the control variables.      *)
Ctl ==
  /\ next \in 0 .. MaxAddr
  /\ gcState \in {"IDLE", "RUNNING", "STOPPED"}
  /\ gcTask \in {"none", "alive", "dead"}
  /\ pc \in {"idle", "gc", "retry", "level", "eraseSource"}
  /\ cur \in Data \cup {NoData}
  /\ todo \subseteq Blocks
  /\ caller \in {"write", "loop", "force"}
  /\ source \in Blocks
  /\ \A a \in Addr : l2p[a] # None => a < next
  /\ cur # NoData <=> pc = "retry" \/ (pc = "gc" /\ caller = "write")
  /\ cur # NoData => next > 0 /\ l2p[next - 1] = None
  /\ pc = "gc" => todo = Invalid /\ todo # {} /\ gcState = "RUNNING"
  /\ pc = "eraseSource" => bstate[source] = "INVALID"
  /\ FailsOnlyWhenFull

IInv == BMInv /\ Ctl /\ inited \in BOOLEAN

(* The inductive invariant contains every invariant the runs check.        *)
LEMMA InvariantImplies ==
  IInv => TypeOK /\ MappingConsistent /\ PoolExact /\ FailsOnlyWhenFull
BY ZenonT(60) DEF IInv, BMInv, Ctl, TypeOK

(* The inductive invariant holds in a new simulator.                       *)
LEMMA InitInvariant == Init => IInv
<1>. SUFFICES ASSUME Init PROVE IInv
  BY ZenonT(60)
<1>1. BMTypeOK
  BY BlockAssumption DEF Init, BMInit, BMTypeOK, BlockState
<1>2. MappingConsistent
  BY ZenonT(60) DEF Init, BMInit, MappingConsistent
<1>3. PoolExact
  <2>1. /\ free = {p \in Blocks : bstate[p] = "FREE"}
        /\ {p \in Blocks : bstate[p] = "VALID"} = {}
        /\ {p \in Blocks : bstate[p] = "BAD"} = {}
    BY ZenonT(60) DEF Init, BMInit
  <2>2. Cardinality(Blocks) = TotalBlocks
    BY FS_Interval, BlockAssumption DEF Blocks
  <2>. QED
    BY <2>1, <2>2, FS_EmptySet, ZenonT(60) DEF PoolExact, Init, BMInit
<1>4. Ctl
  BY BlockAssumption DEF Init, BMInit, Ctl, FailsOnlyWhenFull, Blocks
<1>5. inited \in BOOLEAN
  BY ZenonT(60) DEF Init
<1>6. BMInv
  BY <1>1, <1>2, <1>3, BlockAssumption DEF BMInv, Init, BMInit
<1>. QED
  BY <1>4, <1>5, <1>6, ZenonT(60) DEF IInv

(* Reaching gc_target leaves a free block, because the target is below one *)
(* hundred percent.                                                        *)
LEMMA TargetLeavesRoom ==
  ASSUME NEW n \in Nat, TargetMet(n)
  PROVE  n # 0
<1>. SUFFICES ASSUME n = 0 PROVE FALSE
  BY ZenonT(60)
<1>1. TotalBlocks * 100 <= GcTarget * TotalBlocks
  BY BlockAssumption DEF TargetMet, Used
<1>2. GcTarget * TotalBlocks <= 99 * TotalBlocks
  BY BlockAssumption, FlashAssumption
<1>. QED
  BY <1>1, <1>2, BlockAssumption, FlashAssumption

(* A step that leaves the block manager alone keeps its invariant.         *)
LEMMA Untouched ==
  ASSUME BMInv, UNCHANGED bmVars
  PROVE  BMInv' /\ Invalid' = Invalid /\ (GetStatsRaises' <=> GetStatsRaises)
BY ZenonT(60) DEF BMInv, bmVars, stats, BMTypeOK, MappingConsistent, PoolExact, Invalid,
       GetStatsRaises

(* Entering run_gc_cycle from any of its callers.                          *)
LEMMA EnterGCKeeps ==
  ASSUME IInv, pc = "idle", UNCHANGED bmVars, NEW c \in {"write", "loop", "force"},
         EnterGC(c), next' \in 0 .. MaxAddr, next' >= next,
         cur' \in Data \cup {NoData}, cur' # NoData <=> c = "write",
         c = "write" => next' > 0 /\ l2p[next' - 1] = None
  PROVE  Ctl'
<1>1. Invalid' = Invalid /\ UNCHANGED <<l2p, bstate, free>>
  BY Untouched, ZenonT(60) DEF IInv, bmVars
<1>2. /\ gcTask' = gcTask /\ inited' = inited /\ source' = source /\ caller' = c
      /\ \/ gcState = "STOPPED" /\ gcState' = "STOPPED" /\ pc' = AfterGC(c) /\ todo' = todo
         \/ todo' = Invalid /\ Invalid = {} /\ pc' = AfterGC(c) /\ gcState' = "IDLE"
         \/ todo' = Invalid /\ Invalid # {} /\ pc' = "gc" /\ gcState' = "RUNNING"
  BY <1>1, ZenonT(60) DEF EnterGC, Invalid
<1>3. \A a \in Addr : l2p'[a] # None => a < next'
  BY <1>1 DEF IInv, Ctl, Addr
<1>4. /\ cur' # NoData <=> pc' = "retry" \/ (pc' = "gc" /\ caller' = "write")
      /\ pc' \in {"idle", "gc", "retry"}
  BY <1>2, ZenonT(60) DEF AfterGC
<1>5. FailsOnlyWhenFull'
  BY <1>1, <1>2, ZenonT(60) DEF FailsOnlyWhenFull, AfterGC
<1>6. /\ gcState' \in {"IDLE", "RUNNING", "STOPPED"} /\ gcTask' \in {"none", "alive", "dead"}
      /\ todo' \subseteq Blocks /\ caller' \in {"write", "loop", "force"}
      /\ source' \in Blocks
  BY <1>2, ZenonT(60) DEF IInv, Ctl, Invalid
<1>7. cur' # NoData => next' > 0 /\ l2p'[next' - 1] = None
  BY <1>1, ZenonT(60)
<1>8. pc' = "gc" => todo' = Invalid' /\ todo' # {} /\ gcState' = "RUNNING"
  BY <1>1, <1>2, ZenonT(60) DEF AfterGC
<1>. QED
  BY <1>3, <1>4, <1>5, <1>6, <1>7, <1>8, ZenonT(60) DEF Ctl

(* A successful attempt of write() at a fresh address a, from Write or     *)
(* from Retry.                                                             *)
LEMMA WrittenKeeps ==
  ASSUME IInv, NEW a \in Addr, l2p[a] = None, NEW d \in Data, Written(a, d),
         next' \in 0 .. MaxAddr, next' >= next, a < next'
  PROVE  IInv'
<1>1. BMInv'
  BY WriteSucceedsKeeps, ZenonT(60) DEF IInv, Written
<1>2. /\ pc' \in {"idle", "level"} /\ cur' = NoData
      /\ UNCHANGED <<gcState, gcTask, inited, todo, caller, source>>
  BY ZenonT(60) DEF Written
<1>3. PICK p \in LeastWorn : l2p' = [l2p EXCEPT ![a] = p]
  BY ZenonT(60) DEF Written, WriteBlockSucceeds
<1>4. \A x \in Addr : l2p'[x] # None => x < next'
  BY <1>3 DEF IInv, BMInv, BMTypeOK, Ctl, Addr
<1>5. Ctl'
  BY <1>2, <1>4, ZenonT(60) DEF IInv, Ctl, FailsOnlyWhenFull
<1>6. inited' \in BOOLEAN
  BY <1>2, ZenonT(60) DEF IInv
<1>. QED
  BY <1>1, <1>5, <1>6, ZenonT(60) DEF IInv

(* write(), both when its first attempt succeeds and when it goes to the   *)
(* collector, keeps the invariant.                                         *)
LEMMA WriteKeeps ==
  ASSUME IInv, NEW d \in Data, Write(d)
  PROVE  IInv'
<1>1. /\ pc = "idle" /\ next < MaxAddr /\ next' = next + 1 /\ next \in Nat
      /\ next \in Addr /\ l2p[next] = None /\ next' \in 0 .. MaxAddr
  BY BlockAssumption DEF Write, IInv, Ctl, Addr
<1>2. CASE Written(next, d)
  BY <1>1, <1>2, WrittenKeeps
<1>3. CASE WriteBlockFails(next) /\ cur' = d /\ EnterGC("write")
  <2>1. UNCHANGED bmVars
    BY <1>1, <1>3, WriteFailsKeeps, ZenonT(60) DEF IInv
  <2>2. Ctl'
    BY <1>1, <1>3, <2>1, EnterGCKeeps, BlockAssumption
  <2>3. inited' \in BOOLEAN
    BY <1>3, ZenonT(60) DEF EnterGC, IInv
  <2>. QED
    BY <2>1, <2>2, <2>3, Untouched, ZenonT(60) DEF IInv
<1>. QED
  BY <1>2, <1>3, ZenonT(60) DEF Write

(* So does the second attempt, which succeeds or raises IOError.           *)
LEMMA RetryKeeps ==
  ASSUME IInv, Retry
  PROVE  IInv'
<1>1. /\ pc = "retry" /\ cur \in Data /\ next' = next /\ next > 0
      /\ next \in 0 .. MaxAddr /\ next - 1 \in Addr /\ l2p[next - 1] = None
  BY BlockAssumption DEF Retry, IInv, Ctl, Addr
<1>2. CASE Written(next - 1, cur)
  BY <1>1, <1>2, WrittenKeeps
<1>3. CASE /\ WriteBlockFails(next - 1)
           /\ pc' = "idle" /\ cur' = NoData
           /\ UNCHANGED <<gcState, gcTask, inited, todo, caller, source>>
  <2>1. UNCHANGED bmVars
    BY <1>1, <1>3, WriteFailsKeeps, ZenonT(60) DEF IInv
  <2>2. Ctl'
    BY <1>1, <1>3, <2>1, ZenonT(60) DEF IInv, Ctl, FailsOnlyWhenFull, bmVars
  <2>3. inited' \in BOOLEAN
    BY <1>3, ZenonT(60) DEF IInv
  <2>. QED
    BY <2>1, <2>2, <2>3, Untouched, ZenonT(60) DEF IInv
<1>. QED
  BY <1>2, <1>3, ZenonT(60) DEF Retry

(* delete() and trim() keep the invariant.                                 *)
LEMMA DeleteActionKeeps ==
  ASSUME IInv, NEW a \in Addr, Delete(a)
  PROVE  IInv'
<1>1. BMInv'
  BY DeleteKeeps, ZenonT(60) DEF IInv, Delete
<1>2. l2p' = [l2p EXCEPT ![a] = None] /\ pc = "idle"
  BY ZenonT(60) DEF Delete, DeleteBlock
<1>3. \A x \in Addr : l2p'[x] # None => x < next
  BY <1>2, ZenonT(60) DEF IInv, BMInv, BMTypeOK, Ctl
<1>4. Ctl'
  BY <1>2, <1>3, ZenonT(60) DEF IInv, Ctl, Delete, ctl, FailsOnlyWhenFull
<1>5. inited' \in BOOLEAN
  BY ZenonT(60) DEF Delete, ctl, IInv
<1>. QED
  BY <1>1, <1>4, <1>5, ZenonT(60) DEF IInv

(* An iteration of run_gc_cycle erases a stale block: its second look at   *)
(* the state never finds another one.                                      *)
LEMMA GCErases ==
  ASSUME IInv, GCStep
  PROVE  \E p \in todo : /\ p \in Blocks /\ bstate[p] = "INVALID"
                         /\ EraseBlock(p) /\ todo' = todo \ {p}
<1>1. PICK p \in todo : Collect(p) /\ todo' = todo \ {p}
  BY ZenonT(60) DEF GCStep
<1>2. p \in Blocks /\ bstate[p] = "INVALID"
  BY ZenonT(60) DEF GCStep, IInv, Ctl, Invalid
<1>. QED
  BY <1>1, <1>2, ZenonT(60) DEF Collect

(* An iteration of run_gc_cycle keeps the invariant, also when get_stats   *)
(* raises because the last usable block has worn out.                      *)
LEMMA GCStepKeeps ==
  ASSUME IInv, GCStep
  PROVE  IInv'
<1>1. PICK p \in todo : EraseBlock(p) /\ todo' = todo \ {p}
  BY GCErases, ZenonT(60)
<1>2. /\ pc = "gc" /\ todo = Invalid /\ p \in Blocks /\ bstate[p] = "INVALID"
      /\ UNCHANGED <<next, inited, caller, source>>
      /\ cur # NoData <=> caller = "write"
      /\ gcState = "RUNNING"
  BY <1>1, ZenonT(60) DEF GCStep, IInv, Ctl, Invalid
<1>3. /\ BMInv' /\ l2p' = l2p
      /\ bstate' \in {[bstate EXCEPT ![p] = "BAD"], [bstate EXCEPT ![p] = "FREE"]}
  BY <1>1, <1>2, EraseKeeps, SMTT(30) DEF IInv
<1>4. todo' = Invalid' /\ todo' \subseteq Blocks
  BY <1>1, <1>2, <1>3, ZenonT(60) DEF Invalid, IInv, BMInv, BMTypeOK
<1>5. inited' \in BOOLEAN
  BY <1>2, ZenonT(60) DEF IInv
<1>6. CASE GCRaises
  <2>1. pc' = "idle" /\ cur' = NoData /\ gcState' = gcState
        /\ gcTask' \in {"dead", gcTask}
    BY <1>6, ZenonT(60) DEF GCRaises
  <2>2. Ctl'
    BY <1>2, <1>3, <1>4, <2>1, ZenonT(60) DEF IInv, Ctl, FailsOnlyWhenFull
  <2>. QED
    BY <1>3, <1>5, <2>2, ZenonT(60) DEF IInv
<1>7. CASE /\ todo' = {} \/ TargetMet(free_blocks')
           /\ pc' = AfterGC(caller) /\ gcState' = "IDLE"
           /\ UNCHANGED <<gcTask, cur>>
  <2>1. FailsOnlyWhenFull'
    <3>1. CASE todo' = {}
      BY <1>4, <3>1, ZenonT(60) DEF FailsOnlyWhenFull
    <3>2. CASE TargetMet(free_blocks')
      <4>1. free' \in SUBSET Blocks /\ free_blocks' = Cardinality(free')
        BY <1>3, ZenonT(60) DEF BMInv, BMTypeOK, PoolExact
      <4>2. Cardinality(free') \in Nat /\ (Cardinality(free') = 0 <=> free' = {})
        BY <1>2, <4>1, SizeOfBlockSets, ZenonT(60)
      <4>3. free_blocks' # 0
        BY <3>2, <4>1, <4>2, TargetLeavesRoom, ZenonT(60)
      <4>. QED
        BY <4>1, <4>2, <4>3, SMTT(30) DEF FailsOnlyWhenFull
    <3>. QED
      BY <1>7, <3>1, <3>2, ZenonT(60)
  <2>2. Ctl'
    BY <1>2, <1>3, <1>4, <1>7, <2>1, SMTT(30) DEF IInv, Ctl, AfterGC
  <2>. QED
    BY <1>3, <1>5, <2>2, ZenonT(60) DEF IInv
<1>8. CASE ~(todo' = {} \/ TargetMet(free_blocks')) /\ UNCHANGED <<pc, gcState, gcTask, cur>>
  <2>1. Ctl'
    BY <1>2, <1>3, <1>4, <1>8, ZenonT(60) DEF IInv, Ctl, FailsOnlyWhenFull
  <2>. QED
    BY <1>3, <1>5, <2>1, ZenonT(60) DEF IInv
<1>. QED
  BY <1>6, <1>7, <1>8, ZenonT(60) DEF GCStep

(* The loop of run_leveling_pass keeps the invariant.                      *)
LEMMA LevelingKeeps ==
  ASSUME IInv, LevelStep \/ EraseSource \/ ForceLeveling
  PROVE  IInv'
<1>0. UNCHANGED <<next, gcState, gcTask, inited, cur, todo, caller>>
  BY ZenonT(60) DEF LevelStep, EraseSource, ForceLeveling
<1>1. inited' \in BOOLEAN
  BY <1>0, ZenonT(60) DEF IInv
<1>2. ASSUME NEW s \in Blocks, NEW d \in Blocks, pc = "level", Candidates(s, d),
             LevelBlock(s, d), source' = s, pc' = "eraseSource"
      PROVE  IInv'
  <2>1. BMInv'
    BY <1>2, LevelKeeps, SMTT(30) DEF IInv
  <2>2. /\ bstate'[s] = "INVALID"
        /\ \A a \in Addr : l2p'[a] # None => a < next
    <3>1. /\ bstate[s] = "VALID" /\ laddr[s] \in Addr /\ l2p[laddr[s]] = s
          /\ s # None /\ laddr[s] # None
      BY <1>2 DEF Candidates, IInv, BMInv, BMTypeOK, MappingConsistent, Blocks, None
    <3>2. l2p' = [l2p EXCEPT ![laddr[s]] = d] /\ laddr[s] < next
      BY <1>2, <3>1, SMTT(30) DEF LevelBlock, IInv, Ctl
    <3>3. \A a \in Addr : l2p'[a] # None => a < next
      BY <3>1, <3>2, SMTT(30) DEF IInv, Ctl, BMInv, BMTypeOK
    <3>. QED
      BY <1>2, <3>3, SMTT(30) DEF LevelBlock, IInv, BMInv, BMTypeOK
  <2>3. Ctl'
    BY <1>0, <1>2, <2>2, ZenonT(60) DEF IInv, Ctl, FailsOnlyWhenFull
  <2>. QED
    BY <1>1, <2>1, <2>3, ZenonT(60) DEF IInv
<1>3. ASSUME UNCHANGED <<bmVars, source>>, pc \in {"level", "idle"}, pc' \in {"level", "idle"}
      PROVE  IInv'
  <2>1. Ctl'
    BY <1>0, <1>3, ZenonT(60) DEF IInv, Ctl, FailsOnlyWhenFull, bmVars
  <2>. QED
    BY <1>1, <1>3, <2>1, Untouched, SMTT(30) DEF IInv
<1>4. CASE EraseSource
  <2>1. bstate[source] = "INVALID" /\ source \in Blocks /\ EraseBlock(source)
    BY <1>4, ZenonT(60) DEF EraseSource, IInv, Ctl
  <2>2. BMInv' /\ l2p' = l2p
    BY <2>1, EraseKeeps, SMTT(30) DEF IInv
  <2>3. Ctl'
    BY <1>0, <1>4, <2>2, ZenonT(60) DEF EraseSource, IInv, Ctl, FailsOnlyWhenFull
  <2>. QED
    BY <1>1, <2>2, <2>3, ZenonT(60) DEF IInv
<1>. QED
  BY <1>2, <1>3, <1>4, ZenonT(60) DEF LevelStep, ForceLeveling

(* Starting, stopping and forcing the collector keep the invariant.        *)
LEMMA CollectorControlKeeps ==
  ASSUME IInv, GCLoop \/ ForceGC \/ Initialize \/ Shutdown
  PROVE  IInv'
<1>1. UNCHANGED bmVars /\ pc = "idle" /\ next' = next /\ cur' = cur /\ cur = NoData
  BY ZenonT(60) DEF GCLoop, ForceGC, Initialize, Shutdown, IInv, Ctl
<1>2. BMInv'
  BY <1>1, Untouched, ZenonT(60) DEF IInv
<1>3. ASSUME NEW c \in {"loop", "force"}, EnterGC(c)
      PROVE  IInv'
  <2>1. next \in 0 .. MaxAddr /\ next >= next
    BY DEF IInv, Ctl
  <2>2. Ctl'
    BY <1>1, <1>3, <2>1, EnterGCKeeps, ZenonT(60)
  <2>3. inited' \in BOOLEAN
    BY <1>3, ZenonT(60) DEF EnterGC, IInv
  <2>. QED
    BY <1>2, <2>2, <2>3, ZenonT(60) DEF IInv
<1>4. ASSUME inited' \in BOOLEAN, UNCHANGED <<pc, todo, caller, source>>,
             gcState' \in {"IDLE", "RUNNING", "STOPPED"},
             gcTask' \in {"none", "alive", "dead"}
      PROVE  IInv'
  <2>1. Ctl'
    BY <1>1, <1>4, ZenonT(60) DEF IInv, Ctl, FailsOnlyWhenFull, bmVars
  <2>. QED
    BY <1>2, <1>4, <2>1, SMTT(30) DEF IInv
<1>5. CASE GCLoop
  <2>1. CASE gcTask' = "dead" /\ UNCHANGED <<gcState, inited, pc, todo, caller, source>>
    <3>1. inited' \in BOOLEAN
      BY <2>1, ZenonT(60) DEF IInv
    <3>. QED
      BY <1>4, <2>1, <3>1, ZenonT(60) DEF IInv, Ctl
  <2>. QED
    BY <1>3, <1>5, <2>1, SMTT(30) DEF GCLoop
<1>6. CASE ForceGC
  BY <1>3, <1>6, SMTT(30) DEF ForceGC
<1>7. CASE Initialize
  <2>1. inited' \in BOOLEAN
    BY <1>7, ZenonT(60) DEF Initialize
  <2>2. /\ gcState' \in {"IDLE", gcState} /\ gcTask' \in {"alive", gcTask}
        /\ UNCHANGED <<pc, todo, caller, source>>
    BY <1>7, ZenonT(60) DEF Initialize
  <2>. QED
    BY <1>4, <2>1, <2>2, ZenonT(60) DEF IInv, Ctl
<1>8. CASE Shutdown
  <2>1. inited' \in BOOLEAN
    BY <1>8, ZenonT(60) DEF Shutdown
  <2>2. /\ gcState' = "STOPPED" /\ gcTask' = "none"
        /\ UNCHANGED <<pc, todo, caller, source>>
    BY <1>8, ZenonT(60) DEF Shutdown
  <2>. QED
    BY <1>4, <2>1, <2>2, ZenonT(60)
<1>. QED
  BY <1>5, <1>6, <1>7, <1>8, SMTT(30)

(* Every step keeps the inductive invariant.                               *)
LEMMA StepInvariant == IInv /\ [Next]_vars => IInv'
<1>. SUFFICES ASSUME IInv, [Next]_vars PROVE IInv'
  BY ZenonT(60)
<1>1. CASE \E d \in Data : Write(d)
  BY <1>1, WriteKeeps, ZenonT(60)
<1>2. CASE \E a \in Addr : Delete(a)
  BY <1>2, DeleteActionKeeps, ZenonT(60)
<1>3. CASE Initialize \/ Shutdown \/ GCLoop \/ ForceGC
  BY <1>3, CollectorControlKeeps, ZenonT(60)
<1>4. CASE ForceLeveling \/ LevelStep \/ EraseSource
  BY <1>4, LevelingKeeps, ZenonT(60)
<1>5. CASE GCStep
  BY <1>5, GCStepKeeps, ZenonT(60)
<1>6. CASE Retry
  BY <1>6, RetryKeeps, ZenonT(60)
<1>7. CASE UNCHANGED vars
  <2>1. UNCHANGED <<bmVars, next, ctl>>
    BY <1>7, ZenonT(60) DEF vars
  <2>2. Ctl'
    BY <2>1, ZenonT(60) DEF IInv, Ctl, ctl, bmVars, FailsOnlyWhenFull, Invalid
  <2>3. inited' \in BOOLEAN
    BY <2>1, ZenonT(60) DEF IInv, ctl
  <2>. QED
    BY <2>1, <2>2, <2>3, Untouched, ZenonT(60) DEF IInv
<1>. QED
  BY <1>1, <1>2, <1>3, <1>4, <1>5, <1>6, <1>7, ZenonT(60) DEF Next, Step

(* The inductive invariant holds in every reachable state.                 *)
LEMMA Invariance == Spec => []IInv
BY InitInvariant, StepInvariant, PTL DEF Spec

-----------------------------------------------------------------------------
(* Every state of the simulator is well typed.                             *)
THEOREM TypeCorrect == Spec => []TypeOK
<1>1. IInv => TypeOK
  BY InvariantImplies, ZenonT(60)
<1>. QED
  BY <1>1, Invariance, PTL

(* The logical-to-physical table and the blocks' own addresses agree after *)
(* any number of writes, deletions, collections and moves.                 *)
THEOREM MappingAlwaysConsistent == Spec => []MappingConsistent
<1>1. IInv => MappingConsistent
  BY InvariantImplies, ZenonT(60)
<1>. QED
  BY <1>1, Invariance, PTL

(* The free pool and the counters of free, valid and bad blocks are exact. *)
THEOREM PoolAlwaysExact == Spec => []PoolExact
<1>1. IInv => PoolExact
  BY InvariantImplies, ZenonT(60)
<1>. QED
  BY <1>1, Invariance, PTL

(* A write fails after a collection only when no stale block is left.      *)
THEOREM WritesFailOnlyWhenFull == Spec => []FailsOnlyWhenFull
<1>1. IInv => FailsOnlyWhenFull
  BY InvariantImplies, ZenonT(60)
<1>. QED
  BY <1>1, Invariance, PTL

(* erase_block is only ever applied to a stale block.                      *)
THEOREM OnlyStaleErased == Spec => EraseOnlyStale
<1>1. ASSUME IInv, [Next]_vars
      PROVE  [\A p \in Blocks : erase'[p] # erase[p] => bstate[p] = "INVALID"]_vars
  <2>. SUFFICES ASSUME NEW q \in Blocks, erase'[q] # erase[q]
                PROVE  bstate[q] = "INVALID"
    BY ZenonT(60)
  <2>1. CASE GCStep
    <3>1. PICK p \in todo : EraseBlock(p)
      BY <1>1, <2>1, GCErases, SMTT(30)
    <3>2. p \in Blocks /\ bstate[p] = "INVALID"
      BY <1>1, <2>1, ZenonT(60) DEF GCStep, IInv, Ctl, Invalid
    <3>. QED
      BY <1>1, <3>1, <3>2, EraseKeeps, ZenonT(60) DEF IInv
  <2>2. CASE EraseSource
    <3>1. EraseBlock(source) /\ source \in Blocks /\ bstate[source] = "INVALID"
      BY <1>1, <2>2, ZenonT(60) DEF EraseSource, IInv, Ctl
    <3>. QED
      BY <1>1, <3>1, EraseKeeps, SMTT(30) DEF IInv
  <2>3. CASE \/ \E d \in Data : Write(d)
             \/ \E a \in Addr : Delete(a)
             \/ Initialize \/ Shutdown \/ GCLoop \/ ForceGC \/ ForceLeveling
             \/ Retry \/ LevelStep \/ UNCHANGED vars
    <3>1. erase' = erase
      BY <2>3, ZenonT(30) DEF Write, Delete, Initialize, Shutdown, GCLoop, ForceGC,
           ForceLeveling, Retry, LevelStep, Written, WriteBlockSucceeds, WriteBlockFails,
           DeleteBlock, LevelBlock, vars, bmVars
    <3>. QED
      BY <3>1, SMTT(30)
  <2>. QED
    BY <1>1, <2>1, <2>2, <2>3, ZenonT(60) DEF Next, Step
<1>. QED
  BY <1>1, Invariance, PTL DEF Spec, EraseOnlyStale

-----------------------------------------------------------------------------
(* What reads return, through the refinement mapping.                      *)
Rd == [a \in Addr |-> ReadBlock(a)]

(* A step that shows nothing to the client: FlashStore stutters, or its    *)
(* Background begins or ends.                                              *)
Silent == /\ Rd' = Rd /\ next' = next /\ cur' = cur
          /\ (pc = "idle" <=> pc' = "idle") \/ cur = NoData

(* What read_block returns, under the invariant, in terms of the table.    *)
LEMMA ReadsMapped ==
  ASSUME BMInv, NEW a \in Addr
  PROVE  /\ Rd[a] = IF l2p[a] = None THEN NoData ELSE bdata[l2p[a]]
         /\ Rd[a] # NoData <=> l2p[a] # None
BY SMTT(30) DEF BMInv, BMTypeOK, MappingConsistent, Rd, ReadBlock

(* A block that is free is the block of no address.                        *)
LEMMA FreeUnmapped ==
  ASSUME BMInv, NEW x \in Addr, NEW p \in Blocks, bstate[p] = "FREE"
  PROVE  l2p[x] # p
<1>1. p # None
  BY SMTT(30) DEF Blocks, None
<1>. QED
  BY <1>1, ZenonT(60) DEF BMInv, MappingConsistent

(* The types of what read_block looks at.                                  *)
LEMMA ReadTypes ==
  ASSUME BMInv
  PROVE  l2p \in [Addr -> Blocks \cup {None}] /\ bdata \in [Blocks -> Data \cup {NoData}]
BY ZenonT(60) DEF BMInv, BMTypeOK

(* A write that finds room changes what is read at its address alone.      *)
LEMMA WriteSucceedsReads ==
  ASSUME BMInv, BMInv', NEW a \in Addr, l2p[a] = None, NEW d \in Data,
         WriteBlockSucceeds(a, d)
  PROVE  Rd' = [Rd EXCEPT ![a] = d]
<1>1. PICK p \in LeastWorn : bdata' = [bdata EXCEPT ![p] = d] /\ l2p' = [l2p EXCEPT ![a] = p]
  BY ZenonT(30) DEF WriteBlockSucceeds
<1>2. p \in Blocks /\ bstate[p] = "FREE" /\ p # None
  BY <1>1, SMTT(30) DEF LeastWorn, BMInv, BMTypeOK, PoolExact, Blocks, None
<1>3. ASSUME NEW x \in Addr
      PROVE  Rd'[x] = IF x = a THEN d ELSE Rd[x]
  <2>1. Rd'[x] = IF l2p'[x] = None THEN NoData ELSE bdata'[l2p'[x]]
    BY SMTT(30) DEF BMInv, BMTypeOK, MappingConsistent, Rd, ReadBlock
  <2>2. Rd[x] = IF l2p[x] = None THEN NoData ELSE bdata[l2p[x]]
    BY ReadsMapped, ZenonT(60)
  <2>4. l2p[x] # p
    BY <1>2, FreeUnmapped, ZenonT(60)
  <2>5. l2p \in [Addr -> Blocks \cup {None}] /\ bdata \in [Blocks -> Data \cup {NoData}]
    BY ReadTypes, ZenonT(60)
  <2>6. x # a => l2p'[x] = l2p[x]
    BY <1>1, <2>5, ZenonT(60)
  <2>7. l2p'[a] = p /\ bdata'[p] = d
    BY <1>1, <1>2, <2>5, ZenonT(60)
  <2>. QED
    BY <1>1, <1>2, <2>1, <2>2, <2>4, <2>5, <2>6, <2>7, SMTT(30)
<1>. QED
  BY <1>3, ZenonT(60) DEF Rd

(* Erasing a stale block changes nothing that is read.                     *)
LEMMA EraseReads ==
  ASSUME BMInv, BMInv', NEW p \in Blocks, bstate[p] = "INVALID", EraseBlock(p)
  PROVE  Rd' = Rd
<1>1. /\ l2p' = l2p
      /\ \A q \in Blocks : q # p => bdata'[q] = bdata[q]
  BY EraseKeeps, SMTT(30)
<1>2. ASSUME NEW x \in Addr
      PROVE  ReadBlock(x)' = ReadBlock(x)
  BY <1>1 DEF BMInv, BMTypeOK, MappingConsistent, ReadBlock
<1>. QED
  BY <1>2, SMTT(30) DEF Rd

(* Moving a block changes nothing that is read.                            *)
LEMMA LevelReads ==
  ASSUME BMInv, BMInv', NEW s \in Blocks, NEW d \in Blocks, Candidates(s, d),
         LevelBlock(s, d)
  PROVE  Rd' = Rd
<1>1. /\ bstate[s] = "VALID" /\ bstate[d] = "FREE" /\ s # d
      /\ laddr[s] \in Addr /\ l2p[laddr[s]] = s
      /\ bdata' = [bdata EXCEPT ![d] = bdata[s]]
      /\ l2p' = [l2p EXCEPT ![laddr[s]] = d]
      /\ s # None /\ d # None
  BY SMTT(30) DEF LevelBlock, Candidates, BMInv, BMTypeOK, MappingConsistent, Blocks, None
<1>2. ASSUME NEW x \in Addr
      PROVE  ReadBlock(x)' = ReadBlock(x)
  <2>1. ReadBlock(x)' = IF l2p'[x] = None THEN NoData ELSE bdata'[l2p'[x]]
    BY SMTT(30) DEF BMInv, BMTypeOK, MappingConsistent, ReadBlock
  <2>2. ReadBlock(x) = IF l2p[x] = None THEN NoData ELSE bdata[l2p[x]]
    BY ZenonT(60) DEF BMInv, BMTypeOK, MappingConsistent, ReadBlock
  <2>4. l2p[x] # d
    BY <1>1, FreeUnmapped, ZenonT(60)
  <2>5. l2p \in [Addr -> Blocks \cup {None}] /\ bdata \in [Blocks -> Data \cup {NoData}]
    BY ReadTypes, SMTT(30)
  <2>6. x # laddr[s] => l2p'[x] = l2p[x]
    BY <1>1, <2>5, SMTT(30)
  <2>7. l2p'[laddr[s]] = d /\ bdata'[d] = bdata[s]
    BY <1>1, <2>5, ZenonT(60)
  <2>. QED
    BY <1>1, <2>1, <2>2, <2>4, <2>5, <2>6, <2>7, SMTT(30)
<1>. QED
  BY <1>2, SMTT(30) DEF Rd

(* A deletion changes what is read at its address alone.                   *)
LEMMA DeleteReads ==
  ASSUME BMInv, BMInv', NEW a \in Addr, DeleteBlock(a)
  PROVE  Rd' = [Rd EXCEPT ![a] = NoData] /\ Rd[a] # NoData
<1>1. l2p[a] # None /\ l2p' = [l2p EXCEPT ![a] = None] /\ bdata' = bdata
  BY SMTT(30) DEF DeleteBlock
<1>2. ASSUME NEW x \in Addr
      PROVE  Rd'[x] = IF x = a THEN NoData ELSE Rd[x]
  <2>1. Rd'[x] = IF l2p'[x] = None THEN NoData ELSE bdata'[l2p'[x]]
    BY SMTT(30) DEF BMInv, BMTypeOK, MappingConsistent, Rd, ReadBlock
  <2>2. Rd[x] = IF l2p[x] = None THEN NoData ELSE bdata[l2p[x]]
    BY ReadsMapped, ZenonT(60)
  <2>. QED
    BY <1>1, <2>1, <2>2, SMTT(30) DEF BMInv, BMTypeOK
<1>. QED
  BY <1>1, <1>2, ReadsMapped, ZenonT(30) DEF Rd

(* DirectFlash implements FlashStore: reads return what was written until  *)
(* the address is deleted, whatever the collector and wear levelling do.   *)
THEOREM Refinement == Spec => RefinesStore
<1>1. Init => Store!Init
  BY ZenonT(60) DEF Init, BMInit, Store!Init, ReadBlock, Addr
<1>2. ASSUME IInv, IInv', [Next]_vars
      PROVE  [Store!Next]_(Store!vars)
  <2>0. BMInv /\ BMInv'
    BY <1>2, ZenonT(60) DEF IInv
  <2>1. SUFFICES \/ \E d \in Data : Store!Write(d) \/ Store!Wait(d)
                 \/ Store!Resume \/ Store!Fail
                 \/ \E a \in Addr : Store!Delete(a)
                 \/ Silent
    BY ZenonT(60) DEF Store!Next, Store!vars, Store!Background, Addr, Rd, Silent
  <2>2. ASSUME NEW d \in Data, Write(d)
        PROVE  Store!Write(d) \/ Store!Wait(d)
    <3>1. /\ pc = "idle" /\ cur = NoData /\ next < MaxAddr /\ next' = next + 1
          /\ next \in Addr /\ l2p[next] = None
      BY <1>2, <2>2, BlockAssumption DEF Write, IInv, Ctl, Addr
    <3>2. CASE Written(next, d)
      <4>1. Rd' = [Rd EXCEPT ![next] = d] /\ cur' = cur
        BY <2>0, <3>1, <3>2, WriteSucceedsReads, ZenonT(60) DEF Written
      <4>. QED
        BY <3>1, <4>1, SMTT(30) DEF Store!Write, Rd
    <3>3. CASE WriteBlockFails(next) /\ cur' = d /\ EnterGC("write")
      <4>1. Rd' = Rd
        BY <2>0, <3>1, <3>3, WriteFailsKeeps, ZenonT(60) DEF bmVars, Rd, ReadBlock
      <4>2. pc' # "idle"
        BY <3>3, ZenonT(60) DEF EnterGC, AfterGC
      <4>. QED
        BY <3>1, <3>3, <4>1, <4>2, SMTT(30) DEF Store!Wait, Rd
    <3>. QED
      BY <2>2, <3>2, <3>3, SMTT(30) DEF Write
  <2>3. ASSUME Retry
        PROVE  Store!Resume \/ Store!Fail
    <3>1. /\ pc = "retry" /\ cur # NoData /\ cur \in Data /\ next' = next /\ cur' = NoData
          /\ next - 1 \in Addr /\ l2p[next - 1] = None
      BY <1>2, <2>3, BlockAssumption DEF Retry, Written, IInv, Ctl, Addr
    <3>2. CASE Written(next - 1, cur)
      <4>1. Rd' = [Rd EXCEPT ![next - 1] = cur]
        BY <2>0, <3>1, <3>2, WriteSucceedsReads, SMTT(30) DEF Written
      <4>. QED
        BY <3>1, <4>1, SMTT(30) DEF Store!Resume, Rd
    <3>3. CASE WriteBlockFails(next - 1) /\ pc' = "idle"
      <4>1. Rd' = Rd
        BY <2>0, <3>1, <3>3, WriteFailsKeeps, ZenonT(30) DEF bmVars, Rd, ReadBlock
      <4>. QED
        BY <3>1, <3>3, <4>1, SMTT(30) DEF Store!Fail, Rd
    <3>. QED
      BY <2>3, <3>2, <3>3, SMTT(30) DEF Retry
  <2>4. ASSUME NEW a \in Addr, Delete(a)
        PROVE  Store!Delete(a)
    <3>1. pc = "idle" /\ pc' = pc /\ cur = NoData /\ next' = next /\ cur' = cur
      BY <1>2, <2>4, ZenonT(60) DEF Delete, ctl, IInv, Ctl
    <3>2. Rd' = [Rd EXCEPT ![a] = NoData] /\ Rd[a] # NoData
      BY <2>0, <2>4, DeleteReads, ZenonT(60) DEF Delete
    <3>. QED
      BY <3>1, <3>2, SMTT(30) DEF Store!Delete, Rd
  <2>5. ASSUME GCStep
        PROVE  Store!Fail \/ Silent
    <3>1. PICK p \in todo : EraseBlock(p)
      BY <1>2, <2>5, GCErases, SMTT(30)
    <3>2. p \in Blocks /\ bstate[p] = "INVALID"
      BY <1>2, <2>5, ZenonT(60) DEF GCStep, IInv, Ctl, Invalid
    <3>3. Rd' = Rd
      BY <2>0, <3>1, <3>2, EraseReads, SMTT(30)
    <3>4. /\ pc = "gc" /\ next' = next
          /\ cur # NoData <=> caller = "write"
      BY <1>2, <2>5, ZenonT(60) DEF GCStep, IInv, Ctl
    <3>5. CASE GCRaises
      <4>1. pc' = "idle" /\ cur' = NoData
        BY <3>5, ZenonT(60) DEF GCRaises
      <4>. QED
        BY <3>3, <3>4, <4>1, ZenonT(60) DEF Store!Fail, Rd, Silent
    <3>6. CASE cur' = cur /\ pc' \in {pc, AfterGC(caller)}
      BY <3>3, <3>4, <3>6, SMTT(30) DEF Silent, AfterGC
    <3>. QED
      BY <2>5, <3>5, <3>6, ZenonT(60) DEF GCStep
  <2>6. ASSUME EraseSource
        PROVE  Silent
    BY <1>2, <2>0, <2>6, EraseReads, SMTT(30) DEF EraseSource, IInv, Ctl, Silent
  <2>7. ASSUME LevelStep
        PROVE  Silent
    <3>1. ASSUME UNCHANGED bmVars
          PROVE  Rd' = Rd
      BY <3>1, ZenonT(60) DEF bmVars, Rd, ReadBlock
    <3>2. ASSUME NEW s \in Blocks, NEW d \in Blocks, Candidates(s, d), LevelBlock(s, d)
          PROVE  Rd' = Rd
      BY <2>0, <3>2, LevelReads, SMTT(30)
    <3>3. cur = NoData
      BY <1>2, <2>7, ZenonT(60) DEF LevelStep, IInv, Ctl
    <3>4. Rd' = Rd
      BY <2>7, <3>1, <3>2, ZenonT(60) DEF LevelStep
    <3>. QED
      BY <2>7, <3>3, <3>4, SMTT(30) DEF LevelStep, Silent
  <2>8. ASSUME Initialize \/ Shutdown \/ GCLoop \/ ForceGC \/ ForceLeveling \/ UNCHANGED vars
        PROVE  Silent
    <3>1. UNCHANGED bmVars /\ next' = next /\ cur' = cur
      BY <2>8, SMTT(30) DEF Initialize, Shutdown, GCLoop, ForceGC, ForceLeveling, vars, ctl
    <3>2. pc = "idle" \/ pc' = pc
      BY <2>8, SMTT(30) DEF Initialize, Shutdown, GCLoop, ForceGC, ForceLeveling, vars, ctl
    <3>3. pc = "idle" => cur = NoData
      BY <1>2, SMTT(30) DEF IInv, Ctl
    <3>4. Rd' = Rd
      BY <3>1, ZenonT(60) DEF bmVars, Rd, ReadBlock
    <3>. QED
      BY <3>1, <3>2, <3>3, <3>4, SMTT(30) DEF Silent
  <2>. QED
    BY <1>2, <2>2, <2>3, <2>4, <2>5, <2>6, <2>7, <2>8, ZenonT(60) DEF Next, Step
<1>. QED
  BY <1>1, <1>2, Invariance, PTL DEF Spec, RefinesStore, Store!Spec

=============================================================================
