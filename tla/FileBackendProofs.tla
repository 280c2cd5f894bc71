-------------------------- MODULE FileBackendProofs -------------------------
(***************************************************************************)
(* FileBackend implements BlockStore, for any ids, contents and number of  *)
(* coroutines, with file operations that raise and crashes at any point.   *)
(* The inductive invariant says how far the files of the block that the    *)
(* holder of the lock is changing have got.                                *)
(***************************************************************************)
EXTENDS FileBackend, TLAPS

(* The types.                                                              *)
Typed ==
  /\ data \in [Ids -> Contents \cup {None, Torn}]
  /\ meta \in [Ids -> BlockInfo \cup {None, Torn}]
  /\ queue \in Seq(Tasks)
  /\ call \in [Tasks -> Calls \cup {Idle}]
  /\ doubt \subseteq Ids

(* Only the holder of the lock is past its look at the metadata.           *)
Locked == \A t \in Tasks : call[t] # Idle /\ call[t].pc # "info" => Holds(t)

(* What a call does next agrees with what it has found.                    *)
Sane(x) ==
  /\ x.op = "write" => x.content \in Contents
  /\ x.op = "delete" /\ x.pc # "info" => x.was # None
  /\ x.pc \in {"data", "fill", "meta"} => x.op = "write" /\ ~Same(x)
  /\ x.pc \in {"rmdata", "rmmeta"} => x.op = "delete" /\ x.was.refs <= 1
  /\ x.pc \in {"refs", "mfill"} /\ x.op = "delete" => ~(x.was.refs <= 1)
  /\ x.pc = "refs" /\ x.op = "write" => Same(x)
Planned == \A t \in Tasks : call[t] # Idle => Sane(call[t])

(* Both files of block i or neither, and of the same content.              *)
Agree(d, m) == m # Torn /\ d = IF m = None THEN None ELSE m.content

(* How far the call x has got with data file d and metadata file m.        *)
Progress(x, d, m) ==
  /\ x.pc \in {"data", "refs", "rmdata"} => m = x.was
  /\ x.pc = "fill" => m = x.was
  /\ x.pc = "meta" => m = x.was /\ d = x.content
  /\ x.pc = "mfill" => d = After(x).content
  /\ x.pc = "rmmeta" => m = x.was /\ d = None

FilesOK ==
  /\ \A i \in Ids \ doubt :
       (\A t \in Tasks : ~Changing(t, i)) => Agree(data[i], meta[i])
  /\ \A t \in Tasks : call[t] # Idle /\ call[t].id \notin doubt =>
       Progress(call[t], data[call[t].id], meta[call[t].id])

IInv == Typed /\ Locked /\ Planned /\ FilesOK

(* A coroutine without a call is told apart from every call.               *)
LEMMA IdleNotCall == Idle \notin Calls /\ Idle.op = "idle"
BY ZenonT(60) DEF Idle, Calls

(* The markers are no block infos.                                         *)
LEMMA InfoApart == None \notin BlockInfo /\ Torn \notin BlockInfo /\ Unknown \notin BlockInfo
BY BackendAssumption DEF BlockInfo

(* asyncio.Lock has one holder: everybody else waits at the start.         *)
LEMMA OnlyHolder ==
  ASSUME Locked, NEW t \in Tasks, Holds(t), NEW u \in Tasks, u # t
  PROVE  /\ call[u] # Idle => call[u].pc = "info"
         /\ ~Holds(u)
BY ZenonT(60) DEF Locked, Holds

-----------------------------------------------------------------------------
(* The holder t goes on: its call becomes y, and the files of its block d  *)
(* and m.                                                                  *)
GoesOn(t, y, d, m) ==
  LET i == call[t].id IN
  /\ Holds(t) /\ call[t] # Idle
  /\ y \in Calls /\ y.id = i /\ Sane(y)
  /\ d \in Contents \cup {None, Torn} /\ m \in BlockInfo \cup {None, Torn}
  /\ i \notin doubt => Progress(y, d, m) /\ (~Begun(y) => Agree(d, m))
  /\ call' = [call EXCEPT ![t] = y] /\ queue' = queue /\ doubt' = doubt
  /\ data' = [data EXCEPT ![i] = d] /\ meta' = [meta EXCEPT ![i] = m]

(* The call of the holder t ends, and leaves files d and m.                *)
Ends(t, d, m) ==
  LET i == call[t].id IN
  /\ Holds(t) /\ call[t] # Idle
  /\ d \in Contents \cup {None, Torn} /\ m \in BlockInfo \cup {None, Torn}
  /\ i \notin doubt' => Agree(d, m)
  /\ call' = [call EXCEPT ![t] = Idle] /\ queue' = Tail(queue)
  /\ doubt' \in {doubt, doubt \cup {i}}
  /\ data' = [data EXCEPT ![i] = d] /\ meta' = [meta EXCEPT ![i] = m]

(* A step of the lock's holder that goes on keeps the invariant.           *)
LEMMA GoesOnKeeps ==
  ASSUME IInv, NEW t \in Tasks, NEW y, NEW d, NEW m, GoesOn(t, y, d, m)
  PROVE  IInv'
<1> DEFINE i == call[t].id
<1>1. call[t] \in Calls /\ i \in Ids
  BY ZenonT(60) DEF IInv, Typed, GoesOn, Calls
<1>2. /\ call'[t] = y /\ y # Idle /\ \A u \in Tasks : u # t => call'[u] = call[u]
  BY IdleNotCall, ZenonT(60) DEF IInv, Typed, GoesOn
<1>3. /\ data'[i] = d /\ meta'[i] = m
      /\ \A j \in Ids : j # i => data'[j] = data[j] /\ meta'[j] = meta[j]
  BY <1>1, ZenonT(60) DEF IInv, Typed, GoesOn
<1>4. Typed'
  BY <1>1, ZenonT(60) DEF IInv, Typed, GoesOn
<1>5. Holds(t)' /\ \A u \in Tasks : u # t => ~Holds(u)' /\ ~Holds(u)
  BY ZenonT(60) DEF GoesOn, Holds
<1>6. \A u \in Tasks : u # t => (call[u] # Idle => call[u].pc = "info")
  BY <1>5, ZenonT(60) DEF IInv, Locked
<1>7. Locked' /\ Planned'
  BY <1>2, <1>5, <1>6, ZenonT(60) DEF IInv, Locked, Planned, GoesOn
<1>8. ASSUME NEW j \in Ids, j \notin doubt, \A u \in Tasks : ~Changing(u, j)'
      PROVE  Agree(data'[j], meta'[j])
  <2>1. CASE j = i
    BY <1>2, <1>3, <1>5, <1>8, <2>1, ZenonT(60) DEF GoesOn, Changing
  <2>2. CASE j # i
    BY <1>3, <1>5, <1>8, <2>2, ZenonT(60) DEF IInv, FilesOK, Changing
  <2> QED BY <2>1, <2>2, ZenonT(60)
<1>9. ASSUME NEW u \in Tasks, call'[u] # Idle, call'[u].id \notin doubt
      PROVE  Progress(call'[u], data'[call'[u].id], meta'[call'[u].id])
  <2>1. CASE u = t
    BY <1>2, <1>3, <1>9, <2>1 DEF GoesOn
  <2>2. CASE u # t
    BY <1>2, <1>6, <1>9, <2>2, ZenonT(60) DEF Progress
  <2> QED BY <2>1, <2>2, ZenonT(60)
<1>10. FilesOK'
  BY <1>8, <1>9, ZenonT(60) DEF FilesOK, GoesOn
<1> QED BY <1>4, <1>7, <1>10, ZenonT(60) DEF IInv

(* So does one that ends the holder's call and releases the lock.          *)
LEMMA EndsKeeps ==
  ASSUME IInv, NEW t \in Tasks, NEW d, NEW m, Ends(t, d, m)
  PROVE  IInv'
<1> DEFINE i == call[t].id
<1>1. call[t] \in Calls /\ i \in Ids
  BY ZenonT(60) DEF IInv, Typed, Ends, Calls
<1>2. call'[t] = Idle /\ \A u \in Tasks : u # t => call'[u] = call[u]
  BY ZenonT(60) DEF IInv, Typed, Ends
<1>3. /\ data'[i] = d /\ meta'[i] = m
      /\ \A j \in Ids : j # i => data'[j] = data[j] /\ meta'[j] = meta[j]
  BY <1>1, ZenonT(60) DEF IInv, Typed, Ends
<1>4. Tail(queue) \in Seq(Tasks)
  BY DEF IInv, Typed, Ends, Holds
<1>5. Typed'
  BY <1>1, <1>4, ZenonT(60) DEF IInv, Typed, Ends
<1>6. \A u \in Tasks : u # t => ~Holds(u) /\ (call[u] # Idle => call[u].pc = "info")
  BY ZenonT(60) DEF IInv, Locked, Ends, Holds
<1>7. \A u \in Tasks : call'[u] # Idle => call'[u].pc = "info"
  BY <1>2, <1>6, ZenonT(60)
<1>8. Locked' /\ Planned'
  BY <1>2, <1>7, ZenonT(60) DEF IInv, Locked, Planned
<1>9. ASSUME NEW j \in Ids, j \notin doubt'
      PROVE  Agree(data'[j], meta'[j])
  <2>1. CASE j = i
    BY <1>3, <1>9, <2>1, ZenonT(60) DEF Ends
  <2>2. CASE j # i
    BY <1>3, <1>6, <1>9, <2>2, ZenonT(60) DEF IInv, FilesOK, Changing, Ends
  <2> QED BY <2>1, <2>2, ZenonT(60)
<1>10. FilesOK'
  BY <1>7, <1>9, ZenonT(60) DEF FilesOK, Progress
<1> QED BY <1>5, <1>8, <1>10, ZenonT(60) DEF IInv

-----------------------------------------------------------------------------
(* While the holder has not begun, its block's files agree.                *)
LEMMA NotBegun ==
  ASSUME IInv, NEW t \in Tasks, Holds(t), call[t] # Idle, ~Begun(call[t]),
         call[t].id \notin doubt
  PROVE  Agree(data[call[t].id], meta[call[t].id])
<1>1. call[t].id \in Ids
  BY ZenonT(60) DEF IInv, Typed, Calls
<1>2. \A u \in Tasks : ~Changing(u, call[t].id)
  BY ZenonT(60) DEF Changing, Holds
<1> QED BY <1>1, <1>2, ZenonT(60) DEF IInv, FilesOK

(* So does a new call, which joins the waiting ones.                       *)
LEMMA InvokeKeeps ==
  ASSUME IInv, NEW t \in Tasks, NEW i \in Ids, NEW op \in {"write", "delete"},
         NEW c \in Contents \cup {None}, op = "write" => c \in Contents,
         Invoke(t, op, i, c)
  PROVE  IInv'
<1> DEFINE x == [op |-> op, id |-> i, content |-> c, pc |-> "info", was |-> None]
<1>1. x \in Calls /\ x.pc = "info" /\ Sane(x) /\ ~Begun(x)
  BY ZenonT(60) DEF Calls, Sane, Begun
<1>2. call' = [call EXCEPT ![t] = x] /\ call[t] = Idle
  BY ZenonT(60) DEF Invoke
<1> HIDE DEF x
<1>3. call'[t] = x /\ \A u \in Tasks : u # t => call'[u] = call[u]
  BY <1>2, ZenonT(60) DEF IInv, Typed
<1>4. Typed'
  BY <1>1, <1>2 DEF IInv, Typed, Invoke
<1>5. \A u \in Tasks : Holds(u) => Holds(u)'
  BY DEF IInv, Typed, Invoke, Holds
<1>6. Locked' /\ Planned'
  BY <1>1, <1>3, <1>5, ZenonT(60) DEF IInv, Locked, Planned
<1>7. ASSUME NEW u \in Tasks, NEW j \in Ids, Changing(u, j)
      PROVE  Changing(u, j)'
  <2>1. call[u].op # "idle"
    BY <1>7, ZenonT(60) DEF Changing, Begun
  <2>2. u # t
    BY <1>2, <2>1, IdleNotCall, ZenonT(60)
  <2> QED BY <1>3, <1>5, <1>7, <2>2, ZenonT(60) DEF Changing
<1>8. FilesOK'
  <2>1. UNCHANGED <<data, meta, doubt>>
    BY ZenonT(60) DEF Invoke
  <2>2. \A u \in Tasks : call'[u] # Idle /\ call'[u].id \notin doubt =>
          Progress(call'[u], data[call'[u].id], meta[call'[u].id])
    BY <1>1, <1>3 DEF IInv, FilesOK, Progress
  <2> QED BY <1>7, <2>1, <2>2, ZenonT(60) DEF IInv, FilesOK
<1> QED BY <1>4, <1>6, <1>8, ZenonT(60) DEF IInv

-----------------------------------------------------------------------------
(* Every step of the holder is of one of the two shapes.                   *)
LEMMA HolderTyped ==
  ASSUME IInv, NEW t \in Tasks, Holds(t), call[t] # Idle
  PROVE  /\ call[t] \in Calls /\ Sane(call[t]) /\ call[t].id \in Ids
         /\ data[call[t].id] \in Contents \cup {None, Torn}
         /\ meta[call[t].id] \in BlockInfo \cup {None, Torn}
         /\ data = [data EXCEPT ![call[t].id] = data[call[t].id]]
         /\ meta = [meta EXCEPT ![call[t].id] = meta[call[t].id]]
         /\ call[t].id \notin doubt =>
              Progress(call[t], data[call[t].id], meta[call[t].id])
BY ZenonT(60) DEF IInv, Typed, Planned, FilesOK, Calls

(* The metadata a call leaves is a block info.                             *)
LEMMA AfterTyped ==
  ASSUME NEW x \in Calls, Sane(x), x.pc = "mfill"
  PROVE  After(x) \in BlockInfo
BY DEF Calls, Sane, After, Same, BlockInfo

Found(x) == [[x EXCEPT !.was = Info(x.id)] EXCEPT !.pc = Plan([x EXCEPT !.was = Info(x.id)])]

(* get_block_info under the lock: the call goes on or ends.                *)
LEMMA GetBlockInfoShape ==
  ASSUME IInv, NEW t \in Tasks, GetBlockInfo(t)
  PROVE  \/ GoesOn(t, Found(call[t]), data[call[t].id], meta[call[t].id])
         \/ Ends(t, data[call[t].id], meta[call[t].id])
<1> DEFINE x == call[t]
           i == x.id
           w == [x EXCEPT !.was = Info(i)]
           y == [w EXCEPT !.pc = Plan(w)]
<1>1. Holds(t) /\ x # Idle /\ x.pc = "info" /\ ~Begun(x)
  BY ZenonT(60) DEF GetBlockInfo, At, Begun
<1>2. x \in Calls /\ Sane(x) /\ i \in Ids
  BY <1>1, HolderTyped, ZenonT(60)
<1>3. Info(i) \in BlockInfo \cup {None} /\ (meta[i] # Torn => Info(i) = meta[i])
  BY <1>1, HolderTyped, ZenonT(60) DEF Info
<1>4. i \notin doubt => Agree(data[i], meta[i])
  BY <1>1, NotBegun, ZenonT(60)
<1>5. /\ w \in Calls /\ w.was = Info(i) /\ w.op = x.op
      /\ w.content = x.content /\ w.id = i
  BY <1>2, <1>3, ZenonT(60) DEF Calls
<1>6. CASE w.op = "delete" /\ w.was = None
  <2>1. Return(t) /\ UNCHANGED <<data, meta, doubt>>
    BY <1>6, ZenonT(60) DEF GetBlockInfo
  <2> QED BY <1>1, <1>4, <2>1, HolderTyped, ZenonT(60) DEF Ends, Return
<1>7. CASE ~(w.op = "delete" /\ w.was = None)
  <2>1. call' = [call EXCEPT ![t] = y] /\ UNCHANGED <<queue, data, meta, doubt>>
    BY <1>7, ZenonT(60) DEF GetBlockInfo
  <2>2. Plan(w) \in {"refs", "data", "rmdata"}
    BY ZenonT(60) DEF Plan
  <2>3. /\ y \in Calls /\ y.was = w.was /\ y.op = w.op /\ y.content = w.content
        /\ y.id = i /\ y.pc = Plan(w)
    BY <1>5, <2>2, ZenonT(60) DEF Calls
  <2> HIDE DEF y
  <2>4. Sane(y)
    BY <1>2, <1>5, <1>7, <2>3, ZenonT(60) DEF Sane, Plan, Same, Calls
  <2>5. i \notin doubt => Progress(y, data[i], meta[i])
    BY <1>3, <1>4, <1>5, <2>2, <2>3, ZenonT(60) DEF Agree, Progress
  <2>6. GoesOn(t, y, data[i], meta[i])
    BY <1>1, <1>4, <2>1, <2>3, <2>4, <2>5, HolderTyped, ZenonT(60) DEF GoesOn
  <2> QED BY <2>6, ZenonT(60) DEF y, Found
<1> QED BY <1>6, <1>7, ZenonT(60)

(* The call of x at the next control point p.                              *)
To(x, p) == [x EXCEPT !.pc = p]

(* A call that only moves on stays a call.                                 *)
LEMMA ToTyped ==
  ASSUME NEW x \in Calls,
         NEW p \in {"fill", "meta", "mfill", "rmmeta"}
  PROVE  /\ To(x, p) \in Calls /\ To(x, p).pc = p /\ To(x, p).op = x.op
         /\ To(x, p).id = x.id /\ To(x, p).was = x.was
         /\ To(x, p).content = x.content /\ Begun(To(x, p))
BY ZenonT(60) DEF Calls, To, Begun

(* Opening the data file truncates it.                                     *)
LEMMA OpenDataShape ==
  ASSUME IInv, NEW t \in Tasks, OpenData(t)
  PROVE  GoesOn(t, To(call[t], "fill"), Torn, meta[call[t].id])
<1> DEFINE x == call[t]
           y == To(x, "fill")
<1>1. Holds(t) /\ x # Idle /\ x.pc = "data"
  BY ZenonT(60) DEF OpenData, At
<1>2. call' = [call EXCEPT ![t] = y] /\ UNCHANGED queue
  BY ZenonT(60) DEF OpenData, Advance, To
<1>3. Sane(x) /\ x \in Calls
  BY <1>1, HolderTyped, ZenonT(60)
<1>4. /\ y \in Calls /\ y.pc = "fill" /\ y.op = x.op /\ y.id = x.id
      /\ y.was = x.was /\ y.content = x.content /\ Begun(y)
  BY <1>3, ToTyped, ZenonT(60)
<1> HIDE DEF y
<1>5. Sane(y)
  BY <1>1, <1>3, <1>4, ZenonT(60) DEF Sane, Same
<1>6. x.id \notin doubt => Progress(y, Torn, meta[x.id])
  BY <1>1, <1>4, HolderTyped, ZenonT(60) DEF Progress
<1>7. GoesOn(t, y, Torn, meta[x.id])
  BY <1>1, <1>2, <1>4, <1>5, <1>6, HolderTyped, ZenonT(60) DEF GoesOn, OpenData
<1> QED BY <1>7, ZenonT(60) DEF y

(* The data is there before the metadata is touched.                       *)
LEMMA WriteDataShape ==
  ASSUME IInv, NEW t \in Tasks, WriteData(t)
  PROVE  GoesOn(t, To(call[t], "meta"), call[t].content, meta[call[t].id])
<1> DEFINE x == call[t]
           y == To(x, "meta")
<1>1. Holds(t) /\ x # Idle /\ x.pc = "fill"
  BY ZenonT(60) DEF WriteData, At
<1>2. call' = [call EXCEPT ![t] = y] /\ UNCHANGED queue
  BY ZenonT(60) DEF WriteData, Advance, To
<1>3. Sane(x) /\ x \in Calls
  BY <1>1, HolderTyped, ZenonT(60)
<1>4. /\ y \in Calls /\ y.pc = "meta" /\ y.op = x.op /\ y.id = x.id
      /\ y.was = x.was /\ y.content = x.content /\ Begun(y)
  BY <1>3, ToTyped, ZenonT(60)
<1> HIDE DEF y
<1>5. Sane(y) /\ x.content \in Contents
  BY <1>1, <1>3, <1>4, ZenonT(60) DEF Sane, Same
<1>6. x.id \notin doubt => Progress(y, x.content, meta[x.id])
  BY <1>1, <1>4, HolderTyped, ZenonT(60) DEF Progress
<1>7. GoesOn(t, y, x.content, meta[x.id])
  BY <1>1, <1>2, <1>4, <1>5, <1>6, HolderTyped, ZenonT(60) DEF GoesOn, WriteData
<1> QED BY <1>7, ZenonT(60) DEF y

(* Opening the metadata file truncates it.                                 *)
LEMMA OpenMetadataShape ==
  ASSUME IInv, NEW t \in Tasks, OpenMetadata(t)
  PROVE  GoesOn(t, To(call[t], "mfill"), data[call[t].id], Torn)
<1> DEFINE x == call[t]
           y == To(x, "mfill")
<1>1. Holds(t) /\ x # Idle /\ x.pc \in {"meta", "refs"}
  BY ZenonT(60) DEF OpenMetadata, At
<1>2. call' = [call EXCEPT ![t] = y] /\ UNCHANGED queue
  BY ZenonT(60) DEF OpenMetadata, Advance, To
<1>3. Sane(x) /\ x \in Calls
  BY <1>1, HolderTyped, ZenonT(60)
<1>4. /\ y \in Calls /\ y.pc = "mfill" /\ y.op = x.op /\ y.id = x.id
      /\ y.was = x.was /\ y.content = x.content /\ Begun(y)
  BY <1>3, ToTyped, ZenonT(60)
<1> HIDE DEF y
<1>5. Sane(y)
  BY <1>1, <1>3, <1>4, ZenonT(60) DEF Sane, Same
<1>6. ASSUME x.id \notin doubt
      PROVE  Progress(y, data[x.id], Torn)
  <2>1. x.op \in {"write", "delete"} /\ After(y).content =
          IF x.op = "delete" THEN x.was.content ELSE x.content
    BY <1>3, <1>4, ZenonT(60) DEF After, Calls
  <2>2. CASE x.pc = "meta"
    BY <1>1, <1>3, <1>4, <1>6, <2>1, <2>2, HolderTyped, ZenonT(60) DEF Progress, Sane
  <2>3. CASE x.pc = "refs"
    <3>1. x.was # None /\ (x.op = "write" => x.content = x.was.content)
      BY <1>3, <2>1, <2>3, ZenonT(60) DEF Sane, Same
    <3>2. Agree(data[x.id], meta[x.id])
      BY <1>1, <1>6, <2>3, NotBegun, ZenonT(60) DEF Begun
    <3>3. meta[x.id] = x.was
      BY <1>1, <1>6, <2>3, HolderTyped, ZenonT(60) DEF Progress
    <3> QED BY <1>4, <2>1, <3>1, <3>2, <3>3, ZenonT(60) DEF Progress, Agree
  <2> QED BY <1>1, <2>2, <2>3, ZenonT(60)
<1>7. GoesOn(t, y, data[x.id], Torn)
  BY <1>1, <1>2, <1>4, <1>5, <1>6, HolderTyped, ZenonT(60) DEF GoesOn, OpenMetadata
<1> QED BY <1>7, ZenonT(60) DEF y

(* delete_block removes the data file, or ends without one.                *)
LEMMA RemoveDataShape ==
  ASSUME IInv, NEW t \in Tasks, RemoveData(t)
  PROVE  \/ GoesOn(t, To(call[t], "rmmeta"), None, meta[call[t].id])
         \/ Ends(t, data[call[t].id], meta[call[t].id])
<1> DEFINE x == call[t]
           y == To(x, "rmmeta")
<1>1. Holds(t) /\ x # Idle /\ x.pc = "rmdata" /\ ~Begun(x)
  BY ZenonT(60) DEF RemoveData, At, Begun
<1>2. CASE data[x.id] = None
  <2>1. Return(t) /\ UNCHANGED <<data, meta, doubt>>
    BY <1>2, ZenonT(60) DEF RemoveData
  <2>2. x.id \notin doubt => Agree(data[x.id], meta[x.id])
    BY <1>1, NotBegun, ZenonT(60)
  <2> QED BY <1>1, <2>1, <2>2, HolderTyped, ZenonT(60) DEF Ends, Return
<1>3. CASE data[x.id] # None
  <2>1. call' = [call EXCEPT ![t] = y] /\ UNCHANGED queue
    BY <1>3, ZenonT(60) DEF RemoveData, Advance, To
  <2>2. Sane(x) /\ x \in Calls
    BY <1>1, HolderTyped, ZenonT(60)
  <2>3. /\ y \in Calls /\ y.pc = "rmmeta" /\ y.op = x.op /\ y.id = x.id
        /\ y.was = x.was /\ y.content = x.content /\ Begun(y)
    BY <2>2, ToTyped, ZenonT(60)
  <2> HIDE DEF y
  <2>4. Sane(y)
    BY <1>1, <2>2, <2>3, ZenonT(60) DEF Sane, Same
  <2>5. x.id \notin doubt => Progress(y, None, meta[x.id])
    BY <1>1, <2>3, HolderTyped, ZenonT(60) DEF Progress
  <2>6. GoesOn(t, y, None, meta[x.id])
    BY <1>1, <1>3, <2>1, <2>3, <2>4, <2>5, HolderTyped, ZenonT(60) DEF GoesOn, RemoveData
  <2> QED BY <2>6, ZenonT(60) DEF y
<1> QED BY <1>2, <1>3, ZenonT(60)

(* Writing the metadata ends the call, and the files agree.                *)
LEMMA WriteMetadataShape ==
  ASSUME IInv, NEW t \in Tasks, WriteMetadata(t)
  PROVE  Ends(t, data[call[t].id], After(call[t]))
<1> DEFINE x == call[t]
<1>1. Holds(t) /\ x # Idle /\ x.pc = "mfill"
  BY ZenonT(60) DEF WriteMetadata, At
<1>2. x \in Calls /\ Sane(x)
  BY <1>1, HolderTyped, ZenonT(60)
<1>3. After(x) \in BlockInfo
  BY <1>1, <1>2, AfterTyped, ZenonT(60)
<1>4. x.id \notin doubt => Agree(data[x.id], After(x))
  BY <1>1, <1>3, HolderTyped, InfoApart, ZenonT(60) DEF Progress, Agree
<1> QED BY <1>1, <1>3, <1>4, HolderTyped, ZenonT(60) DEF Ends, WriteMetadata, Return

(* Removing the metadata ends delete_block: no file is left.               *)
LEMMA RemoveMetadataShape ==
  ASSUME IInv, NEW t \in Tasks, RemoveMetadata(t)
  PROVE  Ends(t, data[call[t].id], None)
<1> DEFINE x == call[t]
<1>1. Holds(t) /\ x # Idle /\ x.pc = "rmmeta"
  BY ZenonT(60) DEF RemoveMetadata, At
<1>2. x.id \notin doubt => Agree(data[x.id], None)
  BY <1>1, HolderTyped, BackendAssumption, ZenonT(60) DEF Progress, Agree
<1> QED BY <1>1, <1>2, HolderTyped, ZenonT(60) DEF Ends, RemoveMetadata, Return

(* An exception ends the call, with its block in doubt or untouched.       *)
LEMMA RaisesShape ==
  ASSUME IInv, NEW t \in Tasks, Raises(t)
  PROVE  Ends(t, data[call[t].id], meta[call[t].id])
<1>1. Holds(t) /\ call[t] # Idle
  BY ZenonT(60) DEF Raises
<1>2. call[t].id \notin doubt' => Agree(data[call[t].id], meta[call[t].id])
  BY <1>1, NotBegun, ZenonT(60) DEF Raises
<1> QED BY <1>1, <1>2, HolderTyped, ZenonT(60) DEF Ends, Raises, Return

(* The end of the process keeps the invariant.                             *)
LEMMA CrashKeeps ==
  ASSUME IInv, Crash
  PROVE  IInv'
<1>1. Head(queue) \in Tasks
  BY DEF IInv, Typed, Crash
<1>2. call[Head(queue)] \in Calls \cup {Idle}
  BY <1>1, ZenonT(60) DEF IInv, Typed
<1>3. Begun(call[Head(queue)]) => call[Head(queue)].id \in Ids
  BY <1>2, IdleNotCall, ZenonT(60) DEF Begun, Calls
<1>4. Typed'
  BY <1>3 DEF IInv, Typed, Crash
<1>5. \A t \in Tasks : call'[t] = Idle
  BY ZenonT(60) DEF Crash
<1>6. ASSUME NEW i \in Ids, i \notin doubt'
      PROVE  Agree(data[i], meta[i])
  <2>1. i \notin doubt /\ \A t \in Tasks : ~Changing(t, i)
    BY <1>6, ZenonT(60) DEF Crash, Changing, Holds
  <2> QED BY <2>1, ZenonT(60) DEF IInv, FilesOK
<1>7. Locked' /\ Planned' /\ FilesOK'
  BY <1>5, <1>6, ZenonT(60) DEF Locked, Planned, FilesOK, Crash
<1> QED BY <1>4, <1>7, ZenonT(60) DEF IInv

(* Without files the invariant holds.                                      *)
LEMMA InitKeeps == Init => IInv
<1> SUFFICES ASSUME Init PROVE IInv
  BY ZenonT(60)
<1>1. Typed
  BY DEF Init, Typed
<1>2. Locked /\ Planned
  BY ZenonT(60) DEF Init, Locked, Planned
<1>3. FilesOK
  BY BackendAssumption, ZenonT(60) DEF Init, FilesOK, Agree
<1> QED BY <1>1, <1>2, <1>3, ZenonT(60) DEF IInv

(* Every step keeps it.                                                    *)
LEMMA NextKeeps == IInv /\ [Next]_vars => IInv'
<1> SUFFICES ASSUME IInv, [Next]_vars PROVE IInv'
  BY ZenonT(60)
<1>1. ASSUME NEW t \in Tasks, NEW i \in Ids, DeleteBlock(t, i)
      PROVE  IInv'
  BY <1>1, InvokeKeeps, ZenonT(60) DEF DeleteBlock
<1>2. ASSUME NEW t \in Tasks, NEW i \in Ids, NEW c \in Contents, WriteBlock(t, i, c)
      PROVE  IInv'
  BY <1>2, InvokeKeeps, ZenonT(60) DEF WriteBlock
<1>3. ASSUME NEW t \in Tasks, Step(t)
      PROVE  IInv'
  <2>1. CASE GetBlockInfo(t)
    BY <2>1, GetBlockInfoShape, GoesOnKeeps, EndsKeeps, ZenonT(60)
  <2>2. CASE OpenData(t)
    BY <2>2, OpenDataShape, GoesOnKeeps, ZenonT(60)
  <2>3. CASE WriteData(t)
    BY <2>3, WriteDataShape, GoesOnKeeps, ZenonT(60)
  <2>4. CASE OpenMetadata(t)
    BY <2>4, OpenMetadataShape, GoesOnKeeps, ZenonT(60)
  <2>5. CASE WriteMetadata(t)
    BY <2>5, WriteMetadataShape, EndsKeeps, ZenonT(60)
  <2>6. CASE RemoveData(t)
    BY <2>6, RemoveDataShape, GoesOnKeeps, EndsKeeps, ZenonT(60)
  <2>7. CASE RemoveMetadata(t)
    BY <2>7, RemoveMetadataShape, EndsKeeps, ZenonT(60)
  <2> QED BY <1>3, <2>1, <2>2, <2>3, <2>4, <2>5, <2>6, <2>7, ZenonT(60) DEF Step
<1>4. ASSUME NEW t \in Tasks, Raises(t)
      PROVE  IInv'
  BY <1>4, RaisesShape, EndsKeeps, ZenonT(60)
<1>5. CASE Crash
  BY <1>5, CrashKeeps, ZenonT(60)
<1>6. CASE UNCHANGED vars
  BY <1>6, ZenonT(60) DEF vars, IInv, Typed, Locked, Planned, FilesOK, Changing, Holds
<1> QED BY <1>1, <1>2, <1>3, <1>4, <1>5, <1>6, ZenonT(60) DEF Next

(* The lock and the order of the file operations keep every block that no  *)
(* fault has put in doubt sound at every control point.                    *)
THEOREM BackendSound == Spec => []IInv
BY InitKeeps, NextKeeps, PTL DEF Spec

(* The metadata of a block that is there counts a reference at least: the  *)
(* last one takes the block along, also after calls that failed.           *)
THEOREM TypeCorrect == Spec => []TypeOK
<1>1. IInv => TypeOK
  BY DEF IInv, Typed, TypeOK
<1> QED BY <1>1, BackendSound, PTL

(* Outside of a call that is changing it, a block has both files or        *)
(* neither, with the content its metadata names: write_block and           *)
(* delete_block never leave a mixture unless an exception or a crash does. *)
THEOREM FilesAlwaysAgree == Spec => []FilesAgree
<1>1. IInv => FilesAgree
  BY DEF IInv, FilesOK, FilesAgree, Agree, Changing
<1> QED BY <1>1, BackendSound, PTL

(* At most one call has changed a file and is not through.                 *)
THEOREM ChangesOneAtATime == Spec => []OneAtATime
<1>1. IInv => OneAtATime
  <2> SUFFICES ASSUME IInv, NEW t \in Tasks, NEW u \in Tasks,
                      Begun(call[t]), Begun(call[u])
               PROVE  t = u
    BY ZenonT(60) DEF OneAtATime
  <2>1. Holds(t) /\ Holds(u)
    BY IdleNotCall, ZenonT(60) DEF IInv, Locked, Begun
  <2> QED BY <2>1 DEF Holds
<1> QED BY <1>1, BackendSound, PTL

-----------------------------------------------------------------------------
(* Implementation: which steps callers see, and as what.                   *)
Views == [i \in Ids |-> View(i)]

(* What callers see, in terms of the lock's holder.                        *)
LEMMA HolderView ==
  ASSUME IInv, NEW t \in Tasks, Holds(t), NEW i \in Ids
  PROVE  View(i) = IF i \in doubt THEN Unknown
                   ELSE IF Begun(call[t]) /\ call[t].id = i THEN call[t].was
                   ELSE meta[i]
BY ZenonT(60) DEF View, Changing, Holds

(* A step that goes on shows nothing if the holder's block does not.       *)
LEMMA GoesOnViews ==
  ASSUME IInv, NEW t \in Tasks, NEW y, NEW d, NEW m, GoesOn(t, y, d, m),
         call[t].id \notin doubt =>
           (IF Begun(call[t]) THEN call[t].was ELSE meta[call[t].id])
             = (IF Begun(y) THEN y.was ELSE m)
  PROVE  Views' = Views
<1> DEFINE i == call[t].id
<1>1. i \in Ids /\ Holds(t) /\ doubt' = doubt /\ queue' = queue /\ y.id = i
  BY HolderTyped, ZenonT(60) DEF GoesOn
<1>2. call'[t] = y /\ meta'[i] = m /\ \A j \in Ids : j # i => meta'[j] = meta[j]
  BY <1>1, ZenonT(60) DEF IInv, Typed, GoesOn
<1>3. Head(queue') = t /\ queue' # <<>>
  BY <1>1, ZenonT(60) DEF Holds
<1>4. ASSUME NEW j \in Ids
      PROVE  View(j)' = IF j \in doubt THEN Unknown
                        ELSE IF Begun(y) /\ i = j THEN y.was ELSE meta'[j]
  BY <1>1, <1>2, <1>3, ZenonT(60) DEF View, Changing, Holds
<1>5. ASSUME NEW j \in Ids PROVE View(j)' = View(j)
  <2>1. CASE j = i
    BY <1>1, <1>2, <1>4, <2>1, HolderView, ZenonT(60)
  <2>2. CASE j # i
    BY <1>1, <1>2, <1>4, <2>2, HolderView
  <2> QED BY <2>1, <2>2, ZenonT(60)
<1> QED BY <1>5, ZenonT(60) DEF Views

(* The end of a call shows in its own block only.                          *)
LEMMA EndsViews ==
  ASSUME IInv, NEW t \in Tasks, NEW d, NEW m, Ends(t, d, m)
  PROVE  Views' = [Views EXCEPT ![call[t].id] =
                     IF call[t].id \in doubt' THEN Unknown ELSE m]
<1> DEFINE i == call[t].id
<1>1. i \in Ids /\ Holds(t)
  BY HolderTyped, ZenonT(60) DEF Ends
<1>2. meta'[i] = m /\ \A j \in Ids : j # i => meta'[j] = meta[j] /\ (j \in doubt' <=> j \in doubt)
  BY <1>1, ZenonT(60) DEF IInv, Typed, Ends
<1>3. \A u \in Tasks : ~Begun(call'[u])
  <2>1. \A u \in Tasks : u # t => ~Begun(call[u])
    BY <1>1, OnlyHolder, IdleNotCall, ZenonT(60) DEF IInv, Begun
  <2>2. ~Begun(Idle)
    BY IdleNotCall, ZenonT(60) DEF Begun
  <2> QED BY <2>1, <2>2, ZenonT(60) DEF IInv, Typed, Ends
<1>4. ASSUME NEW j \in Ids
      PROVE  View(j)' = IF j \in doubt' THEN Unknown ELSE meta'[j]
  BY <1>3, ZenonT(60) DEF View, Changing
<1>5. ASSUME NEW j \in Ids, j # i PROVE View(j)' = View(j)
  BY <1>1, <1>2, <1>4, <1>5, HolderView
<1>6. ASSUME NEW j \in Ids, j = i
      PROVE  View(j)' = IF j \in doubt' THEN Unknown ELSE m
  BY <1>2, <1>4, <1>6, ZenonT(60)
<1> QED BY <1>1, <1>5, <1>6, ZenonT(60) DEF Views

(* A call that ends without having begun is not seen.                      *)
LEMMA EndsUnseen ==
  ASSUME IInv, NEW t \in Tasks, NEW d, Ends(t, d, meta[call[t].id]),
         ~Begun(call[t]), doubt' = doubt
  PROVE  Views' = Views
<1>1. call[t].id \in Ids /\ Holds(t)
  BY HolderTyped, ZenonT(60) DEF Ends
<1>2. Views[call[t].id] = IF call[t].id \in doubt' THEN Unknown ELSE meta[call[t].id]
  BY <1>1, HolderView, ZenonT(60) DEF Views
<1>3. Views' = [Views EXCEPT ![call[t].id] = Views[call[t].id]]
  BY <1>2, EndsViews, ZenonT(60)
<1>4. [Views EXCEPT ![call[t].id] = Views[call[t].id]] = Views
  BY ZenonT(60) DEF Views
<1> QED BY <1>3, <1>4, ZenonT(60)

(* Written metadata is a write or a reference given up.                    *)
LEMMA WriteMetadataSeen ==
  ASSUME IInv, NEW t \in Tasks, WriteMetadata(t)
  PROVE  [Store!Next]_Views
<1> DEFINE x == call[t]
           i == x.id
<1>1. Holds(t) /\ x # Idle /\ x.pc = "mfill" /\ Begun(x)
  BY IdleNotCall, ZenonT(60) DEF WriteMetadata, At, Begun, IInv, Typed, Calls
<1>2. x \in Calls /\ Sane(x) /\ i \in Ids
  BY <1>1, HolderTyped, ZenonT(60)
<1>3. Views' = [Views EXCEPT ![i] = IF i \in doubt THEN Unknown ELSE After(x)]
  BY EndsViews, WriteMetadataShape, ZenonT(60) DEF WriteMetadata
<1>4. Views[i] = IF i \in doubt THEN Unknown ELSE x.was
  BY <1>1, <1>2, HolderView, ZenonT(60) DEF Views
<1>5. CASE i \in doubt
  BY <1>3, <1>4, <1>5, ZenonT(60) DEF Views
<1>6. CASE i \notin doubt /\ x.op = "write"
  <2>1. x.content \in Contents /\ x.was \in BlockInfo \cup {None}
    BY <1>2, <1>6, ZenonT(60) DEF Sane, Calls
  <2>2. Views[i] # Unknown
    BY <1>4, <1>6, <2>1, InfoApart, BackendAssumption, ZenonT(60)
  <2>3. After(x) = Store!Written(Views[i], x.content)
    BY <1>4, <1>6, ZenonT(60) DEF After, Same, Store!Written
  <2>4. Store!Write(i, x.content)
    BY <1>3, <1>6, <2>2, <2>3, ZenonT(60) DEF Store!Write, Views
  <2> QED BY <1>2, <2>1, <2>4, ZenonT(60) DEF Store!Next
<1>7. CASE i \notin doubt /\ x.op = "delete"
  <2>1. x.was \in BlockInfo /\ ~(x.was.refs <= 1)
    BY <1>1, <1>2, <1>7, ZenonT(60) DEF Sane, Calls
  <2>2. Views[i] \notin {None, Unknown}
    BY <1>4, <1>7, <2>1, InfoApart, ZenonT(60)
  <2>3. After(x) = Store!Dropped(Views[i])
    BY <1>4, <1>7, <2>1, ZenonT(60) DEF After, Store!Dropped
  <2>4. Store!Delete(i)
    BY <1>3, <1>7, <2>2, <2>3, ZenonT(60) DEF Store!Delete, Views
  <2> QED BY <1>2, <2>4, ZenonT(60) DEF Store!Next
<1> QED BY <1>2, <1>5, <1>6, <1>7, ZenonT(60) DEF Calls

(* Removed metadata is the deletion of the last reference.                 *)
LEMMA RemoveMetadataSeen ==
  ASSUME IInv, NEW t \in Tasks, RemoveMetadata(t)
  PROVE  [Store!Next]_Views
<1> DEFINE x == call[t]
           i == x.id
<1>1. Holds(t) /\ x # Idle /\ x.pc = "rmmeta"
  BY ZenonT(60) DEF RemoveMetadata, At
<1>2. x \in Calls /\ Sane(x) /\ i \in Ids /\ Begun(x)
  BY <1>1, HolderTyped, ZenonT(60) DEF Begun, Calls
<1>3. Views' = [Views EXCEPT ![i] = IF i \in doubt THEN Unknown ELSE None]
  BY EndsViews, RemoveMetadataShape, ZenonT(60) DEF RemoveMetadata
<1>4. Views[i] = IF i \in doubt THEN Unknown ELSE x.was
  BY <1>1, <1>2, HolderView, ZenonT(60) DEF Views
<1>5. CASE i \in doubt
  BY <1>3, <1>4, <1>5, ZenonT(60) DEF Views
<1>6. CASE i \notin doubt
  <2>1. x.was \in BlockInfo /\ x.was.refs <= 1
    BY <1>1, <1>2, ZenonT(60) DEF Sane, Calls
  <2>2. Views[i] \notin {None, Unknown}
    BY <1>4, <1>6, <2>1, InfoApart, ZenonT(60)
  <2>3. None = Store!Dropped(Views[i])
    BY <1>4, <1>6, <2>1, ZenonT(60) DEF Store!Dropped
  <2>4. Store!Delete(i)
    BY <1>3, <1>6, <2>2, <2>3, ZenonT(60) DEF Store!Delete, Views
  <2> QED BY <1>2, <2>4, ZenonT(60) DEF Store!Next
<1> QED BY <1>5, <1>6, ZenonT(60)

(* A step of a call is a step of BlockStore or is not seen.                *)
LEMMA StepSeen ==
  ASSUME IInv, NEW t \in Tasks, Step(t)
  PROVE  [Store!Next]_Views
<1>1. CASE GetBlockInfo(t)
  <2>1. /\ Holds(t) /\ call[t] # Idle /\ ~Begun(call[t]) /\ doubt' = doubt
    BY <1>1, ZenonT(60) DEF GetBlockInfo, At, Begun
  <2>2. call[t] \in Calls
    BY <2>1, HolderTyped, ZenonT(60)
  <2>3. ~Begun(Found(call[t]))
    BY <2>2, ZenonT(60) DEF Begun, Found, Plan, Calls
  <2> QED BY <1>1, <2>1, <2>3, GetBlockInfoShape, GoesOnViews, EndsUnseen, ZenonT(60)
<1>2. CASE OpenData(t)
  <2>1. Holds(t) /\ call[t] # Idle /\ ~Begun(call[t]) /\ call[t].pc = "data"
    BY <1>2, ZenonT(60) DEF OpenData, At, Begun
  <2>2. call[t].id \notin doubt => meta[call[t].id] = call[t].was
    BY <2>1, HolderTyped, ZenonT(60) DEF Progress
  <2>3. Begun(To(call[t], "fill")) /\ To(call[t], "fill").was = call[t].was
    BY <2>1, HolderTyped, ToTyped, ZenonT(60)
  <2> QED BY <1>2, <2>1, <2>2, <2>3, OpenDataShape, GoesOnViews, ZenonT(60)
<1>3. CASE WriteData(t)
  <2>1. Holds(t) /\ call[t] # Idle /\ call[t].pc = "fill"
    BY <1>3, ZenonT(60) DEF WriteData, At
  <2>2. call[t] \in Calls /\ Begun(call[t])
    BY <2>1, HolderTyped, ZenonT(60) DEF Begun, Calls
  <2>3. Begun(To(call[t], "meta")) /\ To(call[t], "meta").was = call[t].was
    BY <2>2, ToTyped, ZenonT(60)
  <2> QED BY <1>3, <2>2, <2>3, WriteDataShape, GoesOnViews, ZenonT(60)
<1>4. CASE OpenMetadata(t)
  <2>1. Holds(t) /\ call[t] # Idle /\ call[t].pc \in {"meta", "refs"}
    BY <1>4, ZenonT(60) DEF OpenMetadata, At
  <2>2. call[t] \in Calls
    BY <2>1, HolderTyped, ZenonT(60)
  <2>3. Begun(To(call[t], "mfill")) /\ To(call[t], "mfill").was = call[t].was
    BY <2>2, ToTyped, ZenonT(60)
  <2>4. call[t].id \notin doubt => meta[call[t].id] = call[t].was
    BY <2>1, HolderTyped, ZenonT(60) DEF Progress
  <2> QED BY <1>4, <2>3, <2>4, OpenMetadataShape, GoesOnViews, ZenonT(60)
<1>5. CASE RemoveData(t)
  <2>1. /\ Holds(t) /\ call[t] # Idle /\ ~Begun(call[t]) /\ call[t].pc = "rmdata"
        /\ doubt' = doubt
    BY <1>5, ZenonT(60) DEF RemoveData, At, Begun
  <2>2. call[t].id \notin doubt => meta[call[t].id] = call[t].was
    BY <2>1, HolderTyped, ZenonT(60) DEF Progress
  <2>3. Begun(To(call[t], "rmmeta")) /\ To(call[t], "rmmeta").was = call[t].was
    BY <2>1, HolderTyped, ToTyped, ZenonT(60)
  <2> QED BY <1>5, <2>1, <2>2, <2>3, RemoveDataShape, GoesOnViews, EndsUnseen, ZenonT(60)
<1> QED BY <1>1, <1>2, <1>3, <1>4, <1>5, WriteMetadataSeen, RemoveMetadataSeen, ZenonT(60) DEF Step

(* An exception is a fault of BlockStore or is not seen.                   *)
LEMMA RaisesSeen ==
  ASSUME IInv, NEW t \in Tasks, Raises(t)
  PROVE  [Store!Next]_Views
<1>1. CASE Begun(call[t])
  <2>1. call[t].id \in Ids /\ call[t].id \in doubt'
    BY <1>1, HolderTyped, ZenonT(60) DEF Raises
  <2>2. Store!Fault(call[t].id)
    BY <2>1, RaisesShape, EndsViews, ZenonT(60) DEF Store!Fault, Views
  <2> QED BY <2>1, <2>2, ZenonT(60) DEF Store!Next
<1>2. CASE ~Begun(call[t])
  BY <1>2, RaisesShape, EndsUnseen, ZenonT(60) DEF Raises
<1> QED BY <1>1, <1>2, ZenonT(60)

(* So is the end of the process.                                           *)
LEMMA CrashSeen ==
  ASSUME IInv, Crash
  PROVE  [Store!Next]_Views
<1> DEFINE h == Head(queue)
<1>1. h \in Tasks /\ Holds(h)
  BY DEF IInv, Typed, Crash, Holds
<1>2. \A u \in Tasks : ~Holds(u)'
  BY ZenonT(60) DEF Crash, Holds
<1>3. ASSUME NEW j \in Ids
      PROVE  View(j)' = IF j \in doubt' THEN Unknown ELSE meta[j]
  BY <1>2, ZenonT(60) DEF View, Changing, Crash
<1>4. CASE Begun(call[h])
  <2>1. call[h].id \in Ids
    BY <1>1, <1>4, HolderTyped, IdleNotCall, ZenonT(60) DEF Begun
  <2>2. doubt' = doubt \cup {call[h].id}
    BY <1>4, ZenonT(60) DEF Crash
  <2>3. ASSUME NEW j \in Ids
        PROVE  View(j)' = IF j = call[h].id THEN Unknown ELSE View(j)
    BY <1>1, <1>3, <2>2, HolderView, ZenonT(60)
  <2>4. Store!Fault(call[h].id)
    BY <2>1, <2>3, ZenonT(60) DEF Store!Fault
  <2> QED BY <2>1, <2>4, ZenonT(60) DEF Store!Next
<1>5. CASE ~Begun(call[h])
  <2>1. doubt' = doubt
    BY <1>5, ZenonT(60) DEF Crash
  <2>2. \A j \in Ids : View(j)' = View(j)
    BY <1>1, <1>3, <1>5, <2>1, HolderView, ZenonT(60)
  <2> QED BY <2>2, ZenonT(60) DEF Views
<1> QED BY <1>4, <1>5, ZenonT(60)

(* A new call changes nothing that callers see: the holder stays.          *)
LEMMA InvokeSeen ==
  ASSUME IInv, NEW t \in Tasks, NEW op \in {"write", "delete"}, NEW i, NEW c,
         Invoke(t, op, i, c)
  PROVE  Views' = Views
<1>1. call[t] = Idle /\ UNCHANGED <<data, meta, doubt>> /\ queue' = Append(queue, t)
  BY ZenonT(60) DEF Invoke
<1>2. \A u \in Tasks : u # t => call'[u] = call[u]
  BY ZenonT(60) DEF Invoke, IInv, Typed
<1>3. ~Begun(call[t]) /\ ~Begun(call'[t])
  BY <1>1, IdleNotCall, ZenonT(60) DEF Invoke, IInv, Typed, Begun
<1>4. queue # <<>> => queue' # <<>> /\ Head(queue') = Head(queue)
  BY <1>1 DEF IInv, Typed
<1>5. queue = <<>> => queue' # <<>> /\ Head(queue') = t
  BY <1>1 DEF IInv, Typed
<1>6. ASSUME NEW j \in Ids PROVE View(j)' = View(j)
  <2>1. CASE queue = <<>>
    BY <1>1, <1>3, <1>5, <2>1, ZenonT(60) DEF View, Changing, Holds
  <2>2. CASE queue # <<>>
    BY <1>1, <1>2, <1>3, <1>4, <2>2, ZenonT(60) DEF View, Changing, Holds
  <2> QED BY <2>1, <2>2, ZenonT(60)
<1> QED BY <1>6, ZenonT(60) DEF Views

(* write_block and delete_block behave like a map of blocks whose entries  *)
(* change at once; an exception or a crash leaves the block of the call    *)
(* it ends in doubt, and no other.                                         *)
THEOREM ImplementsBlockStore == Spec => RefinesBlockStore
<1>1. Init => Store!Init
  BY ZenonT(60) DEF Init, Store!Init, View, Changing, Holds
<1>2. IInv /\ [Next]_vars => [Store!Next]_Views
  <2> SUFFICES ASSUME IInv, [Next]_vars PROVE [Store!Next]_Views
    BY ZenonT(60)
  <2>1. ASSUME NEW t \in Tasks, NEW i \in Ids, DeleteBlock(t, i)
        PROVE  Views' = Views
    BY <2>1, InvokeSeen, ZenonT(60) DEF DeleteBlock
  <2>2. ASSUME NEW t \in Tasks, NEW i \in Ids, NEW c \in Contents, WriteBlock(t, i, c)
        PROVE  Views' = Views
    BY <2>2, InvokeSeen, ZenonT(60) DEF WriteBlock
  <2>3. CASE UNCHANGED vars
    BY <2>3, ZenonT(60) DEF vars, Views, View, Changing, Holds
  <2> QED BY <2>1, <2>2, <2>3, StepSeen, RaisesSeen, CrashSeen, ZenonT(60) DEF Next
<1>3. IInv /\ [Next]_vars => [Store!Next]_([i \in Ids |-> View(i)])
  BY <1>2 DEF Views
<1> QED BY <1>1, <1>3, BackendSound, PTL DEF Spec, RefinesBlockStore, Store!Spec
=============================================================================
