----------------------------- MODULE FileBackend ----------------------------
(***************************************************************************)
(* FileBackend (storage/file_backend.py): a block is a data file and a     *)
(* metadata file.  write_block and delete_block change them one after the  *)
(* other, each through several suspensions in aiofiles, all under one      *)
(* asyncio.Lock.  Any of the file operations may raise, and the process    *)
(* may end at any time and start again on the files it left.               *)
(*                                                                         *)
(* A file opened for writing is truncated first: it is torn until its      *)
(* content is there.  read_block opens the data file without the lock.     *)
(***************************************************************************)
EXTENDS Integers, Sequences, FiniteSets

CONSTANTS
  Ids,        \* block ids
  Contents,   \* data of a block; its checksum tells contents apart
  Tasks,      \* coroutines that call the backend
  None, Torn, Unknown,
  MaxRefs     \* bound on the references of a block

ASSUME BackendAssumption ==
  /\ MaxRefs \in Nat
  /\ None # Torn /\ {None, Torn} \cap Contents = {}
  /\ {None, Torn, Unknown} \cap [content : Contents, refs : Int] = {}
  /\ Unknown # None

VARIABLES
  data,    \* data[i]: content of the data file, Torn, or None without a file
  meta,    \* meta[i]: the BlockInfo in the metadata file, Torn, or None
  queue,   \* the coroutines that hold or wait for _lock, in their order
  call,    \* call[t]: the call of t that is under way
  doubt    \* ids of which a call has ended between its changes to the files

vars == <<data, meta, queue, call, doubt>>

(* A block that is there has a reference.                                  *)
BlockInfo == [content : Contents, refs : Nat \ {0}]
Idle == [op |-> "idle"]
Calls == [op : {"write", "delete"}, id : Ids, content : Contents \cup {None},
          pc : {"info", "data", "fill", "meta", "refs", "mfill", "rmdata", "rmmeta"},
          was : BlockInfo \cup {None}]

TypeOK ==
  /\ data \in [Ids -> Contents \cup {None, Torn}]
  /\ meta \in [Ids -> BlockInfo \cup {None, Torn}]
  /\ queue \in Seq(Tasks)
  /\ \A t \in Tasks : call[t] = Idle \/ call[t] \in Calls
  /\ doubt \subseteq Ids

Init ==
  /\ data = [i \in Ids |-> None] /\ meta = [i \in Ids |-> None]
  /\ queue = <<>> /\ call = [t \in Tasks |-> Idle]
  /\ doubt = {}

-----------------------------------------------------------------------------
Holds(t) == queue # <<>> /\ Head(queue) = t
At(t, p) == Holds(t) /\ call[t] # Idle /\ call[t].pc = p

(* The call of x writes what the metadata it has found says is there.      *)
Same(x) == x.was # None /\ x.was.content = x.content

(* Mutant: new content keeps counting the references of the old one.       *)
MutAfter(x) ==
  IF x.op = "delete" THEN [content |-> x.was.content, refs |-> x.was.refs - 1]
  ELSE IF x.was # None THEN [content |-> x.content, refs |-> x.was.refs + 1]
  ELSE [content |-> x.content, refs |-> 1]

(* The metadata that the call of x leaves.                                 *)
After(x) ==
  IF x.op = "delete" THEN [content |-> x.was.content, refs |-> x.was.refs - 1]
  ELSE IF Same(x) THEN [content |-> x.content, refs |-> x.was.refs + 1]
  ELSE [content |-> x.content, refs |-> 1]

(* The call has changed a file and is not through.                         *)
Begun(x) == x.op # "idle" /\ x.pc \in {"fill", "meta", "mfill", "rmmeta"}

(* The call that is changing block i.                                      *)
Changing(t, i) == Holds(t) /\ Begun(call[t]) /\ call[t].id = i

(* References of i once the writes under way are through.                  *)
Refs(i) ==
  LET refs == IF \E t \in Tasks : Changing(t, i)
              THEN After(call[Head(queue)]).refs
              ELSE IF meta[i] \in {None, Torn} THEN 0 ELSE meta[i].refs
  IN refs + Cardinality({t \in Tasks : /\ call[t].op = "write" /\ call[t].id = i
                                       /\ ~Changing(t, i)})

Invoke(t, op, i, c) ==
  /\ call[t] = Idle
  /\ call' = [call EXCEPT ![t] =
                [op |-> op, id |-> i, content |-> c, pc |-> "info", was |-> None]]
  /\ queue' = Append(queue, t)
  /\ UNCHANGED <<data, meta, doubt>>

WriteBlock(t, i, c) ==
  /\ Refs(i) < MaxRefs
  /\ Invoke(t, "write", i, c)

DeleteBlock(t, i) == Invoke(t, "delete", i, None)

Advance(t, p) == call' = [call EXCEPT ![t].pc = p] /\ UNCHANGED queue
Return(t) == call' = [call EXCEPT ![t] = Idle] /\ queue' = Tail(queue)

(* get_block_info: metadata that is not there or not JSON reads as None.   *)
Info(i) == IF meta[i] \in {None, Torn} THEN None ELSE meta[i]

(* Mutant: the last reference leaves the block.                            *)
MutPlanDelete(x) ==
  IF x.op = "write" THEN (IF Same(x) THEN "refs" ELSE "data")
  ELSE IF x.was.refs <= 0 THEN "rmdata" ELSE "refs"

(* What the call goes on with: references only, or the files.              *)
Plan(x) ==
  IF x.op = "write" THEN (IF Same(x) THEN "refs" ELSE "data")
  ELSE IF x.was.refs <= 1 THEN "rmdata" ELSE "refs"

GetBlockInfo(t) ==
  /\ At(t, "info")
  /\ LET x == call[t]
         y == [x EXCEPT !.was = Info(x.id)]
     IN IF y.op = "delete" /\ y.was = None
        THEN Return(t)
        ELSE /\ call' = [call EXCEPT ![t] = [y EXCEPT !.pc = Plan(y)]]
             /\ UNCHANGED queue
  /\ UNCHANGED <<data, meta, doubt>>

OpenData(t) ==
  /\ At(t, "data")
  /\ data' = [data EXCEPT ![call[t].id] = Torn]
  /\ Advance(t, "fill")
  /\ UNCHANGED <<meta, doubt>>

WriteData(t) ==
  /\ At(t, "fill")
  /\ data' = [data EXCEPT ![call[t].id] = call[t].content]
  /\ Advance(t, "meta")
  /\ UNCHANGED <<meta, doubt>>

(* _write_metadata.                                                        *)
OpenMetadata(t) ==
  /\ At(t, "meta") \/ At(t, "refs")
  /\ meta' = [meta EXCEPT ![call[t].id] = Torn]
  /\ Advance(t, "mfill")
  /\ UNCHANGED <<data, doubt>>

WriteMetadata(t) ==
  /\ At(t, "mfill")
  /\ meta' = [meta EXCEPT ![call[t].id] = After(call[t])]
  /\ Return(t)
  /\ UNCHANGED <<data, doubt>>

(* A missing data file ends delete_block with False; the metadata stays.   *)
RemoveData(t) ==
  /\ At(t, "rmdata")
  /\ IF data[call[t].id] = None
     THEN Return(t) /\ UNCHANGED data
     ELSE Advance(t, "rmmeta") /\ data' = [data EXCEPT ![call[t].id] = None]
  /\ UNCHANGED <<meta, doubt>>

(* Mutant: the metadata file is forgotten.                                 *)
MutRemoveMetadata(t) ==
  /\ At(t, "rmmeta")
  /\ Return(t)
  /\ UNCHANGED <<data, meta, doubt>>

RemoveMetadata(t) ==
  /\ At(t, "rmmeta")
  /\ meta' = [meta EXCEPT ![call[t].id] = None]
  /\ Return(t)
  /\ UNCHANGED <<data, doubt>>

-----------------------------------------------------------------------------
(* Mutant: the lock is kept when a file operation raises.                  *)
MutRaises(t) ==
  /\ Holds(t) /\ call[t] # Idle
  /\ doubt' = IF Begun(call[t]) THEN doubt \cup {call[t].id} ELSE doubt
  /\ call' = [call EXCEPT ![t] = Idle]
  /\ UNCHANGED <<data, meta, queue>>

(* A file operation raises: `async with' releases the lock.                *)
Raises(t) ==
  /\ Holds(t) /\ call[t] # Idle
  /\ doubt' = IF Begun(call[t]) THEN doubt \cup {call[t].id} ELSE doubt
  /\ Return(t)
  /\ UNCHANGED <<data, meta>>

(* The process ends; the next one finds the files, and nothing else.       *)
Crash ==
  /\ queue # <<>>
  /\ doubt' = IF Begun(call[Head(queue)]) THEN doubt \cup {call[Head(queue)].id} ELSE doubt
  /\ queue' = <<>> /\ call' = [t \in Tasks |-> Idle]
  /\ UNCHANGED <<data, meta>>

Step(t) == \/ GetBlockInfo(t) \/ OpenData(t) \/ WriteData(t) \/ OpenMetadata(t)
           \/ WriteMetadata(t) \/ RemoveData(t) \/ RemoveMetadata(t)

Next == \/ \E t \in Tasks, i \in Ids : \/ DeleteBlock(t, i)
                                       \/ \E c \in Contents : WriteBlock(t, i, c)
        \/ \E t \in Tasks : Step(t) \/ Raises(t)
        \/ Crash

Spec == Init /\ [][Next]_vars

(* File operations end, and the event loop resumes the coroutine.          *)
FairSpec == Spec /\ \A t \in Tasks : WF_vars(Step(t))

-----------------------------------------------------------------------------
(* Outside of a call that is changing it, a block not in doubt has both    *)
(* files or neither, and the data is what the metadata's checksum says: so *)
(* read_block, which takes no lock, finds the whole content or no file.    *)
FilesAgree ==
  \A i \in Ids \ doubt :
    (\A t \in Tasks : Begun(call[t]) => call[t].id # i) =>
      data[i] = IF meta[i] = None THEN None ELSE meta[i].content

(* At most one call has changed a file and is not through, so a crash      *)
(* leaves at most one block half changed.                                  *)
OneAtATime ==
  \A t, u \in Tasks : Begun(call[t]) /\ Begun(call[u]) => t = u

(* The lock is always released: every call returns, also behind calls that *)
(* raise.                                                                  *)
CallsReturn == \A t \in Tasks : call[t] # Idle ~> call[t] = Idle

(* What a block is for the callers: the state before the call that is      *)
(* changing it, until that call is through.                                *)
View(i) ==
  IF i \in doubt THEN Unknown
  ELSE IF \E t \in Tasks : Changing(t, i) THEN call[Head(queue)].was
  ELSE meta[i]

(* The backend implements BlockStore: every call takes effect at once or,  *)
(* when it fails or is interrupted, leaves its own block in doubt only.    *)
Store == INSTANCE BlockStore WITH blocks <- [i \in Ids |-> View(i)]
RefinesBlockStore == Store!Spec
=============================================================================
