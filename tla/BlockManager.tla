---------------------------- MODULE BlockManager ----------------------------
(***************************************************************************)
(* The flash block manager of pstorage (directflash/block_manager.py): the *)
(* physical blocks, the logical-to-physical table, the free pool and the   *)
(* statistics the other DirectFlash parts read.  The operators below are   *)
(* the methods of class BlockManager; each runs under the manager's lock   *)
(* and never suspends inside it, so each is one step.                      *)
(***************************************************************************)
EXTENDS Integers, FiniteSets

CONSTANTS TotalBlocks,  \* number of physical blocks
          MaxAddr,      \* logical addresses are 0 .. MaxAddr-1
          Data,         \* what a client may write
          NoData,       \* b"", the content of an erased block
          MaxErase      \* max_erase_count, the endurance of a block

ASSUME BlockAssumption == /\ TotalBlocks \in Nat \ {0}
                          /\ MaxAddr \in Nat
                          /\ MaxErase \in Nat \ {0}
                          /\ NoData \notin Data

VARIABLES bstate,   \* _blocks[p].state
          laddr,    \* _blocks[p].logical_address
          bdata,    \* _blocks[p].data
          erase,    \* _blocks[p].erase_count
          l2p,      \* _l2p_table
          free,     \* _free_blocks
          free_blocks, valid_blocks, invalid_blocks, bad_blocks   \* _stats

stats == <<free_blocks, valid_blocks, invalid_blocks, bad_blocks>>
bmVars == <<bstate, laddr, bdata, erase, l2p, free, stats>>

Blocks == 0 .. TotalBlocks - 1
Addr   == 0 .. MaxAddr - 1
None   == -1              \* an absent table entry, a block without address

BlockState == {"FREE", "VALID", "INVALID", "BAD"}

BMTypeOK ==
  /\ bstate \in [Blocks -> BlockState]
  /\ laddr \in [Blocks -> Addr \cup {None}]
  /\ bdata \in [Blocks -> Data \cup {NoData}]
  /\ erase \in [Blocks -> 0 .. MaxErase]
  /\ l2p \in [Addr -> Blocks \cup {None}]
  /\ free \subseteq Blocks
  /\ {free_blocks, valid_blocks, invalid_blocks, bad_blocks} \subseteq Int

BMInit ==
  /\ bstate = [p \in Blocks |-> "FREE"]
  /\ laddr = [p \in Blocks |-> None]
  /\ bdata = [p \in Blocks |-> NoData]
  /\ erase = [p \in Blocks |-> 0]
  /\ l2p = [a \in Addr |-> None]
  /\ free = Blocks
  /\ free_blocks = TotalBlocks
  /\ valid_blocks = 0 /\ invalid_blocks = 0 /\ bad_blocks = 0

(* The free blocks with the lowest erase count; min() over a Python set    *)
(* breaks ties by the set's iteration order, which is left open here.      *)
LeastWorn == {p \in free : \A q \in free : erase[p] <= erase[q]}

-----------------------------------------------------------------------------
(* The block write_block invalidates first when address a is mapped: this  *)
(* happens before the pool is looked at.                                   *)
Superseded(a) == {l2p[a]} \ {None}

(* write_block returning (-1, False): the pool is empty.  The previous     *)
(* block of the address is invalid by now and the table still names it.    *)
WriteBlockFails(a) ==
  /\ free = {}
  /\ bstate' = [p \in Blocks |-> IF p \in Superseded(a) THEN "INVALID"
                                                        ELSE bstate[p]]
  /\ laddr' = [p \in Blocks |-> IF p \in Superseded(a) THEN None ELSE laddr[p]]
  /\ valid_blocks' = IF Superseded(a) = {} THEN valid_blocks ELSE valid_blocks - 1
  /\ invalid_blocks' = IF Superseded(a) = {} THEN invalid_blocks ELSE invalid_blocks + 1
  /\ UNCHANGED <<bdata, erase, l2p, free, free_blocks, bad_blocks>>

(* write_block returning (p, True).                                        *)
WriteBlockSucceeds(a, d) ==
  \E p \in LeastWorn :
    /\ free' = free \ {p}
    /\ bstate' = [q \in Blocks |-> IF q = p THEN "VALID"
                                   ELSE IF q \in Superseded(a) THEN "INVALID"
                                   ELSE bstate[q]]
    /\ laddr' = [q \in Blocks |-> IF q = p THEN a
                                  ELSE IF q \in Superseded(a) THEN None
                                  ELSE laddr[q]]
    /\ bdata' = [bdata EXCEPT ![p] = d]
    /\ l2p' = [l2p EXCEPT ![a] = p]
    /\ free_blocks' = free_blocks - 1
    /\ valid_blocks' = IF Superseded(a) = {} THEN valid_blocks + 1 ELSE valid_blocks
    /\ invalid_blocks' = IF Superseded(a) = {} THEN invalid_blocks ELSE invalid_blocks + 1
    /\ UNCHANGED <<erase, bad_blocks>>

(* What read_block returns for an address, NoData standing for None.       *)
ReadBlock(a) == IF l2p[a] # None /\ bstate[l2p[a]] = "VALID"
                THEN bdata[l2p[a]] ELSE NoData

DeleteBlock(a) ==
  /\ l2p[a] # None
  /\ bstate' = [bstate EXCEPT ![l2p[a]] = "INVALID"]
  /\ laddr' = [laddr EXCEPT ![l2p[a]] = None]
  /\ l2p' = [l2p EXCEPT ![a] = None]
  /\ valid_blocks' = valid_blocks - 1
  /\ invalid_blocks' = invalid_blocks + 1
  /\ UNCHANGED <<bdata, erase, free, free_blocks, bad_blocks>>

(* erase_block on a block that is not bad.  The counter of invalid blocks  *)
(* is left alone: the code lowers it only if the state is still INVALID,   *)
(* which it tests after overwriting the state.                             *)
EraseWearsOut(p) ==
  /\ erase[p] + 1 >= MaxErase
  /\ bstate' = [bstate EXCEPT ![p] = "BAD"]
  /\ bad_blocks' = bad_blocks + 1
  /\ UNCHANGED <<laddr, bdata, l2p, free, free_blocks, valid_blocks, invalid_blocks>>

(* Mutant: the block returns to the pool and is not counted.               *)
MutEraseFrees(p) ==
  /\ erase[p] + 1 < MaxErase
  /\ bstate' = [bstate EXCEPT ![p] = "FREE"]
  /\ laddr' = [laddr EXCEPT ![p] = None]
  /\ bdata' = [bdata EXCEPT ![p] = NoData]
  /\ free' = free \cup {p}
  /\ UNCHANGED <<l2p, free_blocks, valid_blocks, invalid_blocks, bad_blocks>>

EraseFrees(p) ==
  /\ erase[p] + 1 < MaxErase
  /\ bstate' = [bstate EXCEPT ![p] = "FREE"]
  /\ laddr' = [laddr EXCEPT ![p] = None]
  /\ bdata' = [bdata EXCEPT ![p] = NoData]
  /\ free' = free \cup {p}
  /\ free_blocks' = free_blocks + 1
  /\ UNCHANGED <<l2p, valid_blocks, invalid_blocks, bad_blocks>>

EraseBlock(p) ==
  /\ bstate[p] # "BAD"
  /\ erase' = [erase EXCEPT ![p] = @ + 1]
  /\ EraseWearsOut(p) \/ EraseFrees(p)

(* get_stats() takes min() over the blocks that are not bad and raises     *)
(* ValueError when there is none.                                          *)
GetStatsRaises == \A p \in Blocks : bstate[p] = "BAD"
=============================================================================
