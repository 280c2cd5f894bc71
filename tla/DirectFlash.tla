---------------------------- MODULE DirectFlash -----------------------------
(***************************************************************************)
(* DirectFlashSimulator (directflash/simulator.py) with the garbage        *)
(* collector (garbage_collection.py) and wear levelling                    *)
(* (wear_leveling.py) working on one block manager.                        *)
(*                                                                         *)
(* The coroutines of this package never suspend except in the sleep of the *)
(* background collector: their locks are free whenever they ask for them,  *)
(* because no holder suspends.  An operation that loops therefore keeps    *)
(* the event loop until it returns.  pc says which loop is running; a new  *)
(* operation starts only when pc = "idle".                                 *)
(***************************************************************************)
EXTENDS BlockManager

CONSTANTS Threshold,     \* wear_leveling_threshold
          GcThreshold,   \* gc_threshold, in percent
          GcTarget       \* gc_target, in percent

ASSUME FlashAssumption == /\ Threshold \in Nat
                          /\ GcThreshold \in 0 .. 100
                          /\ GcTarget \in 0 .. 99

VARIABLES next,      \* _next_logical_address
          gcState,   \* GarbageCollector._state
          gcTask,    \* _gc_task: "none", "alive", or "dead" after an exception
          inited,    \* DirectFlashSimulator._initialized
          pc,        \* "idle", "gc", "retry", "level" or "eraseSource"
          cur,       \* the data of the write that waits for the collector
          todo,      \* invalid_blocks still to visit in run_gc_cycle
          caller,    \* who runs the collector: "write", "loop" or "force"
          source     \* the block a levelling step has just emptied

ctl == <<gcState, gcTask, inited, pc, cur, todo, caller, source>>
vars == <<bmVars, next, ctl>>

TypeOK ==
  /\ BMTypeOK
  /\ next \in 0 .. MaxAddr
  /\ gcState \in {"IDLE", "RUNNING", "STOPPED"}
  /\ gcTask \in {"none", "alive", "dead"}
  /\ inited \in BOOLEAN
  /\ pc \in {"idle", "gc", "retry", "level", "eraseSource"}
  /\ cur \in Data \cup {NoData}
  /\ todo \subseteq Blocks
  /\ caller \in {"write", "loop", "force"}
  /\ source \in Blocks

Init ==
  /\ BMInit
  /\ next = 0
  /\ gcState = "IDLE" /\ gcTask = "none" /\ inited = FALSE
  /\ pc = "idle" /\ cur = NoData /\ todo = {} /\ caller = "force" /\ source = 0

-----------------------------------------------------------------------------
(* Garbage collection.                                                     *)

Invalid == {p \in Blocks : bstate[p] = "INVALID"}

(* get_utilization() * 100 * total_blocks for a given free counter, so     *)
(* that the comparisons with the two percentages stay in the integers.     *)
Used(freeCount) == (TotalBlocks - freeCount) * 100

ShouldRun == Used(free_blocks) >= GcThreshold * TotalBlocks
TargetMet(freeCount) == Used(freeCount) <= GcTarget * TotalBlocks

(* Where control goes when a collection returns to its caller.             *)
AfterGC(c) == IF c = "write" THEN "retry" ELSE "idle"

(* Mutant: whether there is work is judged by the list of the last cycle.  *)
MutEnterGCStale(c) ==
  /\ caller' = c
  /\ IF gcState = "STOPPED" \/ todo = {}
     THEN pc' = AfterGC(c) /\ UNCHANGED <<gcState, todo>>
     ELSE /\ todo' = {p \in Blocks : bstate'[p] = "INVALID"}
          /\ pc' = "gc" /\ gcState' = "RUNNING"
  /\ UNCHANGED <<gcTask, inited, source>>

(* run_gc_cycle up to its loop: refused once stopped; with nothing to      *)
(* visit it returns at once.                                               *)
EnterGC(c) ==
  /\ caller' = c
  /\ IF gcState = "STOPPED"
     THEN pc' = AfterGC(c) /\ UNCHANGED <<gcState, todo>>
     ELSE /\ todo' = {p \in Blocks : bstate'[p] = "INVALID"}
          /\ IF todo' = {} THEN pc' = AfterGC(c) /\ gcState' = "IDLE"
                           ELSE pc' = "gc" /\ gcState' = "RUNNING"
  /\ UNCHANGED <<gcTask, inited, source>>

(* The exception of get_stats leaves the collector RUNNING and ends its    *)
(* caller; gc_loop catches only CancelledError, so the task is over.       *)
GCRaises ==
  /\ pc' = "idle" /\ cur' = NoData
  /\ gcTask' = IF caller = "loop" THEN "dead" ELSE gcTask
  /\ UNCHANGED gcState

(* The collector looks at the state again before it erases a block.        *)
Collect(p) == IF bstate[p] = "INVALID" THEN EraseBlock(p) ELSE UNCHANGED bmVars

(* One iteration of the loop of run_gc_cycle: visit the block, look at the *)
(* utilization, go on or finish.                                           *)
GCStep ==
  /\ pc = "gc"
  /\ \E p \in todo :
       /\ \A q \in todo : p <= q
       /\ Collect(p)
       /\ todo' = todo \ {p}
  /\ IF GetStatsRaises' THEN GCRaises
     ELSE /\ IF todo' = {} \/ TargetMet(free_blocks')
             THEN pc' = AfterGC(caller) /\ gcState' = "IDLE"
             ELSE UNCHANGED <<pc, gcState>>
          /\ UNCHANGED <<gcTask, cur>>
  /\ UNCHANGED <<next, inited, caller, source>>

(* A turn of gc_loop that finds work, or that dies of the exception.       *)
GCLoop ==
  /\ pc = "idle" /\ gcTask = "alive"
  /\ UNCHANGED <<bmVars, next, cur>>
  /\ \/ /\ GetStatsRaises
        /\ gcTask' = "dead"
        /\ UNCHANGED <<gcState, inited, pc, todo, caller, source>>
     \/ /\ ~GetStatsRaises
        /\ ShouldRun
        /\ EnterGC("loop")

ForceGC == /\ pc = "idle"
           /\ UNCHANGED <<bmVars, next, cur>>
           /\ EnterGC("force")

(* initialize(), which starts the background collector, and shutdown(),    *)
(* where awaiting a task that died raises before _initialized is cleared.  *)
Initialize ==
  /\ pc = "idle" /\ ~inited
  /\ inited' = TRUE
  /\ IF gcTask = "none" THEN gcState' = "IDLE" /\ gcTask' = "alive"
                        ELSE UNCHANGED <<gcState, gcTask>>
  /\ UNCHANGED <<bmVars, next, pc, cur, todo, caller, source>>

Shutdown ==
  /\ pc = "idle"
  /\ gcState' = "STOPPED" /\ gcTask' = "none"
  /\ inited' = (inited /\ gcTask = "dead")
  /\ UNCHANGED <<bmVars, next, pc, cur, todo, caller, source>>

-----------------------------------------------------------------------------
(* Wear levelling.                                                         *)

ShouldLevel == \E p, q \in Blocks : /\ bstate[q] # "BAD"
                                    /\ erase[p] - erase[q] > Threshold

(* find_candidates: a most worn block in use, a least worn free one.       *)
Candidates(s, d) ==
  /\ bstate[s] = "VALID" /\ bstate[d] = "FREE"
  /\ \A p \in Blocks : /\ bstate[p] = "VALID" => erase[p] <= erase[s]
                       /\ bstate[p] = "FREE" => erase[p] >= erase[d]
  /\ erase[s] - erase[d] > Threshold

(* Mutants: the table is not told of the move; the data is not copied.     *)
MutLevelBlockUnmapped(s, d) ==
  /\ bdata' = [bdata EXCEPT ![d] = bdata[s]]
  /\ bstate' = [bstate EXCEPT ![d] = "VALID", ![s] = "INVALID"]
  /\ laddr' = [laddr EXCEPT ![d] = laddr[s], ![s] = None]
  /\ free' = free \ {d}
  /\ free_blocks' = free_blocks - 1
  /\ invalid_blocks' = invalid_blocks + 1
  /\ UNCHANGED <<erase, l2p, valid_blocks, bad_blocks>>

MutLevelBlockEmpty(s, d) ==
  /\ bstate' = [bstate EXCEPT ![d] = "VALID", ![s] = "INVALID"]
  /\ laddr' = [laddr EXCEPT ![d] = laddr[s], ![s] = None]
  /\ l2p' = IF laddr[s] = None THEN l2p ELSE [l2p EXCEPT ![laddr[s]] = d]
  /\ free' = free \ {d}
  /\ free_blocks' = free_blocks - 1
  /\ invalid_blocks' = invalid_blocks + 1
  /\ UNCHANGED <<bdata, erase, valid_blocks, bad_blocks>>

(* level_block: move the data of s to d.                                   *)
LevelBlock(s, d) ==
  /\ bdata' = [bdata EXCEPT ![d] = bdata[s]]
  /\ bstate' = [bstate EXCEPT ![d] = "VALID", ![s] = "INVALID"]
  /\ laddr' = [laddr EXCEPT ![d] = laddr[s], ![s] = None]
  /\ l2p' = IF laddr[s] = None THEN l2p ELSE [l2p EXCEPT ![laddr[s]] = d]
  /\ free' = free \ {d}
  /\ free_blocks' = free_blocks - 1
  /\ invalid_blocks' = invalid_blocks + 1
  /\ UNCHANGED <<erase, valid_blocks, bad_blocks>>

(* The loop of run_leveling_pass: move one block, or stop.                 *)
LevelStep ==
  /\ pc = "level"
  /\ \/ \E s, d \in Blocks : /\ Candidates(s, d)
                             /\ LevelBlock(s, d)
                             /\ source' = s
                             /\ pc' = "eraseSource"
     \/ /\ \A s, d \in Blocks : ~Candidates(s, d)
        /\ pc' = "idle"
        /\ UNCHANGED <<bmVars, source>>
  /\ UNCHANGED <<next, gcState, gcTask, inited, cur, todo, caller>>

EraseSource ==
  /\ pc = "eraseSource"
  /\ EraseBlock(source)
  /\ pc' = "level"
  /\ UNCHANGED <<next, gcState, gcTask, inited, cur, todo, caller, source>>

(* force_wear_leveling(); get_stats raises, changing nothing, when every   *)
(* block is bad, and then there is no pass either.                         *)
ForceLeveling ==
  /\ pc = "idle" /\ ShouldLevel
  /\ pc' = "level"
  /\ UNCHANGED <<bmVars, next, gcState, gcTask, inited, cur, todo, caller, source>>

-----------------------------------------------------------------------------
(* write(): a fresh address, one attempt, and after a failure a collection *)
(* and a second attempt.  After a success the wear is looked at.           *)

Written(a, d) ==
  /\ WriteBlockSucceeds(a, d)
  /\ pc' = IF ShouldLevel' THEN "level" ELSE "idle"
  /\ cur' = NoData
  /\ UNCHANGED <<gcState, gcTask, inited, todo, caller, source>>

Write(d) ==
  /\ pc = "idle" /\ next < MaxAddr
  /\ next' = next + 1
  /\ \/ Written(next, d)
     \/ /\ WriteBlockFails(next)
        /\ cur' = d
        /\ EnterGC("write")

(* Mutant: a write that fails goes back to the collector until it succeeds.*)
MutRetryForever ==
  /\ pc = "retry"
  /\ \/ Written(next - 1, cur)
     \/ WriteBlockFails(next - 1) /\ EnterGC("write") /\ UNCHANGED cur
  /\ UNCHANGED next

(* The second attempt; failing again it raises IOError, and the address is *)
(* never used.                                                             *)
Retry ==
  /\ pc = "retry"
  /\ \/ Written(next - 1, cur)
     \/ /\ WriteBlockFails(next - 1)
        /\ pc' = "idle" /\ cur' = NoData
        /\ UNCHANGED <<gcState, gcTask, inited, todo, caller, source>>
  /\ UNCHANGED next

(* delete() and trim() of an address that is mapped.                       *)
Delete(a) ==
  /\ pc = "idle"
  /\ DeleteBlock(a)
  /\ UNCHANGED <<next, ctl>>

-----------------------------------------------------------------------------
Step == GCStep \/ Retry \/ LevelStep \/ EraseSource

Next ==
  \/ \E d \in Data : Write(d)
  \/ \E a \in Addr : Delete(a)
  \/ Initialize \/ Shutdown
  \/ GCLoop \/ ForceGC \/ ForceLeveling
  \/ Step

Spec == Init /\ [][Next]_vars

(* An operation that has started runs on, and the timer of the background  *)
(* collector keeps firing: its callback waits in the FIFO ready queue of   *)
(* the event loop, so no stream of other operations can starve it.         *)
FairSpec == Spec /\ WF_vars(Step) /\ SF_vars(GCLoop)
-----------------------------------------------------------------------------
(* A mapped address names a block in use that knows it by that address,    *)
(* and every block in use is named by the table.  write_block, level_block *)
(* and delete_block each update the two sides separately; a mistake leaks  *)
(* blocks or lets two addresses share one.                                 *)
MappingConsistent ==
  /\ \A a \in Addr : l2p[a] # None => /\ bstate[l2p[a]] = "VALID"
                                      /\ laddr[l2p[a]] = a
  /\ \A p \in Blocks : bstate[p] = "VALID" => /\ laddr[p] # None
                                              /\ l2p[laddr[p]] = p

(* The pool holds exactly the free blocks, and the counters that the       *)
(* collector's utilization and get_capacity are computed from agree with   *)
(* the states of the blocks, across writes, moves, erasures and wear-out.  *)
PoolExact ==
  /\ free = {p \in Blocks : bstate[p] = "FREE"}
  /\ free_blocks = Cardinality(free)
  /\ valid_blocks = Cardinality({p \in Blocks : bstate[p] = "VALID"})
  /\ bad_blocks = Cardinality({p \in Blocks : bstate[p] = "BAD"})

(* erase_block has no check of its own against erasing live data: only     *)
(* blocks that hold stale data are ever erased by its two callers.         *)
EraseOnlyStale ==
  [][\A p \in Blocks : erase'[p] # erase[p] => bstate[p] = "INVALID"]_vars

(* A write that comes back from the collector and still finds the pool     *)
(* empty fails for lack of room, not because the collector stopped early:  *)
(* unless the collector was shut down no stale block is left.              *)
FailsOnlyWhenFull ==
  pc = "retry" /\ free = {} /\ gcState # "STOPPED" => Invalid = {}

(* What the client sees is FlashStore: fresh addresses, and content that   *)
(* collection and levelling never change or lose: while one of them runs   *)
(* no address reads differently, except that of the write that waits.      *)
Store == INSTANCE FlashStore WITH store <- [a \in Addr |-> ReadBlock(a)],
                                  pending <- cur,
                                  op <- IF pc = "idle" THEN "idle" ELSE "busy"
RefinesStore == Store!Spec

(* Every operation returns: the levelling loop, which erases the block it  *)
(* empties and looks for the next pair, does not go round for ever.        *)
OpsReturn == pc # "idle" ~> pc = "idle"

(* With the background collector on, stale blocks above the threshold are  *)
(* reclaimed.                                                              *)
Pressure == inited /\ gcState # "STOPPED" /\ ShouldRun /\ Invalid # {}
PressureRelieved == Pressure ~> ~Pressure
=============================================================================
