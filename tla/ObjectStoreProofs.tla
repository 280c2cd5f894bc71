-------------------------- MODULE ObjectStoreProofs -------------------------
(***************************************************************************)
(* The object store, for any buckets, keys, bodies, uploads and number of  *)
(* goroutines: types first, then the versions of a key, what a read        *)
(* returns, that metadata, versions and pool agree on every object whose   *)
(* changes have not overlapped, and that multipart uploads are assembled   *)
(* of their parts in order.                                                *)
(***************************************************************************)
EXTENDS ObjectStore, FiniteSetTheorems, NaturalsInduction, WellFoundedInduction, TLAPS

(* The version ids in use are finitely many, so there is a next one.       *)
LEMMA NewVersionType ==
  ASSUME TypeOK
  PROVE  NewVersion \in Nat \ {0}
<1>. DEFINE IdsOf(n) == {versions[n][k].id : k \in 1 .. Len(versions[n])}
            All == {IdsOf(n) : n \in Names}
<1>1. ASSUME NEW n \in Names
      PROVE  IsFiniteSet(IdsOf(n))
  <2>1. versions[n] \in Seq(Version) /\ Len(versions[n]) \in Nat
    BY DEF TypeOK
  <2>2. IsFiniteSet(1 .. Len(versions[n]))
    BY <2>1, FS_Interval
  <2>. DEFINE f == [k \in 1 .. Len(versions[n]) |-> versions[n][k].id]
  <2>3. f \in Surjection(1 .. Len(versions[n]), IdsOf(n))
    BY DEF Surjection
  <2>. QED
    BY <2>2, <2>3, FS_Surjection DEF ExistsSurjection
<1>2. IsFiniteSet(All)
  <2>. DEFINE f == [n \in Names |-> IdsOf(n)]
  <2>1. f \in Surjection(Names, All)
    BY ZenonT(60) DEF Surjection
  <2>. HIDE DEF f, All
  <2>. QED
    BY <2>1, StoreAssumption, FS_Surjection DEF ExistsSurjection
<1>3. IsFiniteSet(UNION All)
  <2>1. \A T \in All : IsFiniteSet(T)
    BY <1>1
  <2>. HIDE DEF All
  <2>. QED
    BY <1>2, <2>1, FS_UNION
<1>4. Used = UNION All
  BY DEF Used
<1>5. Cardinality(Used) \in Nat
  <2>. HIDE DEF All
  <2>. QED
    BY <1>3, <1>4, FS_CardinalityType
<1>. QED
  BY <1>5 DEF NewVersion

(* sort.Slice: the first of the listed parts is one of them, the lowest.   *)
LEMMA FirstListed ==
  ASSUME NEW parts \in SUBSET PartNumbers, parts # {}
  PROVE  First(parts) \in parts /\ \A j \in parts : First(parts) <= j
<1>1. parts \subseteq Nat
  BY StoreAssumption
<1>. DEFINE Less == OpToRel(<, Nat)
<1>2. IsWellFoundedOn(Less, Nat)
  BY NatLessThanWellFounded, ZenonT(60)
<1>3. \A i, j \in Nat : j < i => <<j, i>> \in Less
  BY ZenonT(60) DEF OpToRel
<1>. HIDE DEF Less
<1>4. \E i \in parts : \A j \in parts : ~(<<j, i>> \in Less)
  BY <1>1, <1>2, WFMin, ZenonT(60)
<1>5. \E i \in parts : \A j \in parts : ~(j < i)
  BY <1>1, <1>3, <1>4, ZenonT(60)
<1>6. \A i, j \in Nat : ~(j < i) => i <= j
  OBVIOUS
<1>7. \E i \in parts : \A j \in parts : i <= j
  BY <1>1, <1>5, <1>6, ZenonT(60)
<1>. QED
  BY <1>7 DEF First

(* Adding a version keeps ids, contents and markers of the earlier ones.   *)
LEMMA AppendedKeeps ==
  ASSUME NEW vs \in Seq(Version), NEW v \in Version
  PROVE  /\ Appended(vs, v) \in Seq(Version)
         /\ Len(Appended(vs, v)) = Len(vs) + 1
         /\ Appended(vs, v)[Len(vs) + 1] = v
         /\ \A k \in 1 .. Len(vs) : /\ Appended(vs, v)[k].id = vs[k].id
                                    /\ Appended(vs, v)[k].content = vs[k].content
                                    /\ Appended(vs, v)[k].marker = vs[k].marker
                                    /\ Appended(vs, v)[k].latest = FALSE
<1>. DEFINE Past(w) == [w EXCEPT !.latest = FALSE]
            old == [k \in 1 .. Len(vs) |-> Past(vs[k])]
<1>1. \A w \in Version : /\ Past(w) \in Version /\ Past(w).id = w.id
                         /\ Past(w).content = w.content /\ Past(w).marker = w.marker
                         /\ Past(w).latest = FALSE
  BY ZenonT(60) DEF Version
<1>2. \A k \in 1 .. Len(vs) : vs[k] \in Version
  OBVIOUS
<1>3. Appended(vs, v) = Append(old, v)
  BY DEF Appended
<1>. HIDE DEF Version, Past
<1>4. old \in Seq(Version) /\ Len(old) = Len(vs)
  BY <1>1, <1>2
<1>5. \A k \in 1 .. Len(vs) : old[k] = Past(vs[k])
  OBVIOUS
<1>. HIDE DEF old
<1>6. /\ Append(old, v) \in Seq(Version) /\ Len(Append(old, v)) = Len(vs) + 1
      /\ Append(old, v)[Len(vs) + 1] = v
      /\ \A k \in 1 .. Len(vs) : Append(old, v)[k] = old[k]
  BY <1>4
<1>7. \A k \in 1 .. Len(vs) : Appended(vs, v)[k] = Past(vs[k])
  BY <1>3, <1>5, <1>6, ZenonT(60)
<1>8. \A k \in 1 .. Len(vs) : /\ Appended(vs, v)[k].id = vs[k].id
                              /\ Appended(vs, v)[k].content = vs[k].content
                              /\ Appended(vs, v)[k].marker = vs[k].marker
                              /\ Appended(vs, v)[k].latest = FALSE
  <2>. TAKE k \in 1 .. Len(vs)
  <2>1. /\ Past(vs[k]).id = vs[k].id /\ Past(vs[k]).content = vs[k].content
        /\ Past(vs[k]).marker = vs[k].marker /\ Past(vs[k]).latest = FALSE
    BY <1>1, <1>2, ZenonT(60)
  <2>2. Appended(vs, v)[k] = Past(vs[k])
    BY <1>7
  <2>. QED
    BY <2>1, <2>2
<1>. QED
  BY <1>3, <1>6, <1>8, ZenonT(60)


-----------------------------------------------------------------------------
(* The request x changes the object n.                                     *)
Changing(x, n) == x.op \in Changes /\ x.name = n

(* What a request may clash over: objects it changes, and parts.           *)
LEMMA SubjectsType ==
  ASSUME NEW x \in Calls
  PROVE  /\ Subjects(x) \subseteq Names \cup PartIds
         /\ \A n \in Names : n \in Subjects(x) <=> Changing(x, n)
<1>1. CASE x = Idle
  BY <1>1 DEF Subjects, Idle, Changes, Changing
<1>2. CASE x \in Puts \cup Deletes
  BY <1>2 DEF Subjects, Puts, Deletes, Changes, Changing
<1>3. CASE x \in Finds \cup Gets
  BY <1>3 DEF Subjects, Finds, Gets, Changes, Changing
<1>4. CASE x \in Parts
  BY <1>4, StoreAssumption DEF Subjects, Parts, Changes, Changing
<1>5. CASE x \in Completes \cup Sweeps
  <2>1. x.op = "complete" /\ x.name \in Names /\ x.upload \in Uploads
    BY <1>5 DEF Completes, Sweeps
  <2>2. {x.upload} \X PartNumbers \subseteq PartIds
    BY <2>1 DEF PartIds
  <2>. QED
    BY <2>1, <2>2, StoreAssumption DEF Subjects, Changes, Changing
<1>. QED
  BY <1>1, <1>2, <1>3, <1>4, <1>5 DEF Calls

(* A task at some lock section has a request.                              *)
LEMMA Working == \A t, p : At(t, p) => call[t] # Idle /\ call[t].pc = p
BY DEF At, Idle

(* Where a request may be, given the point it has reached.                 *)
LEMMA Where ==
  ASSUME TypeOK, NEW t \in Tasks, call[t] # Idle
  PROVE  /\ call[t].pc \in {"alloc", "write"} => call[t] \in Puts \cup Parts \cup Completes
         /\ call[t].pc \in {"version", "meta"} => call[t] \in Puts \cup Completes
         /\ call[t].pc = "find" => call[t] \in Finds
         /\ call[t].pc = "read" => call[t] \in Gets
         /\ call[t].pc \in {"marker", "remove", "reclaim"} => call[t] \in Deletes
         /\ call[t].pc = "record" => call[t] \in Parts
         /\ call[t].pc = "parts" => call[t] \in Completes
         /\ call[t].pc \in {"drop", "sweep"} => call[t] \in Sweeps
<1>1. call[t] \in Calls
  BY DEF TypeOK
<1>. QED
  BY <1>1 DEF Calls, Puts, Finds, Gets, Deletes, Parts, Completes, Sweeps

(* A request that completes an upload names it.                            *)
LEMMA UploadType ==
  ASSUME NEW x \in Calls, x.op = "complete"
  PROVE  x.upload \in Uploads
<1>1. x \in Completes \cup Sweeps
  BY DEF Calls, Idle, Puts, Finds, Gets, Deletes, Parts
<1>. QED
  BY <1>1 DEF Completes, Sweeps

(* An UploadPart request, by its operation.                                *)
LEMMA PartType ==
  ASSUME NEW x \in Calls, x.op = "part"
  PROVE  x \in Parts
BY DEF Calls, Idle, Puts, Finds, Gets, Deletes, Completes, Sweeps

(* A CompleteMultipartUpload request that still joins parts.               *)
LEMMA CompleteType ==
  ASSUME NEW x \in Calls, x.op = "complete", x.pc \notin {"drop", "sweep"}
  PROVE  x \in Completes /\ x.upload \in Uploads /\ x.listed \subseteq PartNumbers
<1>1. x \in Completes
  BY DEF Calls, Idle, Puts, Finds, Gets, Deletes, Parts, Sweeps
<1>. QED
  BY <1>1 DEF Completes

(* Task t, which has nothing to do, takes the request x.                   *)
Starts(t, x) == call[t] = Idle /\ Begin(t, x)

(* A request that begins keeps the types.                                  *)
LEMMA BeginTyped ==
  ASSUME TypeOK, NEW t \in Tasks, NEW x \in Calls, Starts(t, x),
         UNCHANGED <<buckets, pool, objects, versions, uploads>>
  PROVE  TypeOK'
<1>1. call' \in [Tasks -> Calls]
  BY DEF TypeOK, Starts, Begin
<1>2. clash' \subseteq Names \cup PartIds
  <2>1. UNION {Subjects(x) \cap Subjects(call[u]) : u \in Tasks} \subseteq Subjects(x)
    OBVIOUS
  <2>. QED
    BY <2>1, SubjectsType DEF TypeOK, Starts, Begin
<1>. QED
  BY <1>1, <1>2 DEF TypeOK

(* Idle, and what a request may become when it goes on.                    *)
LEMMA CallTyped ==
  ASSUME TypeOK, NEW t \in Tasks, NEW x \in Calls,
         call' = [call EXCEPT ![t] = x], clash' = clash
  PROVE  call' \in [Tasks -> Calls] /\ clash' \subseteq Names \cup PartIds
BY DEF TypeOK

(* A request stays one of its kind as it moves on.                         *)
LEMMA GotoType ==
  ASSUME NEW x \in Calls
  PROVE  /\ x \in Puts \cup Completes =>
              \A p \in {"alloc", "write", "version", "meta"} : [x EXCEPT !.pc = p] \in Calls
         /\ x \in Parts =>
              \A p \in {"alloc", "write", "record"} : [x EXCEPT !.pc = p] \in Calls
         /\ x \in Deletes => [x EXCEPT !.pc = "reclaim"] \in Calls
         /\ x \in Sweeps => [x EXCEPT !.pc = "sweep"] \in Calls
         /\ Idle \in Calls
<1>1. x \in Puts => \A p \in {"alloc", "write", "version", "meta"} : [x EXCEPT !.pc = p] \in Puts
  BY DEF Puts
<1>2. x \in Completes =>
        \A p \in {"alloc", "write", "version", "meta"} : [x EXCEPT !.pc = p] \in Completes
  BY DEF Completes
<1>3. x \in Parts => \A p \in {"alloc", "write", "record"} : [x EXCEPT !.pc = p] \in Parts
  BY DEF Parts
<1>4. x \in Deletes => [x EXCEPT !.pc = "reclaim"] \in Deletes
  BY DEF Deletes
<1>5. x \in Sweeps => [x EXCEPT !.pc = "sweep"] \in Sweeps
  BY DEF Sweeps
<1>. QED
  BY <1>1, <1>2, <1>3, <1>4, <1>5 DEF Calls


(* What read returns is data.                                              *)
LEMMA ReadType ==
  ASSUME NEW stored \in Data, NEW size \in Nat
  PROVE  Read(stored, size) \in Data
BY DEF Read, Data

(* Reading as many bytes as are stored returns them.                       *)
LEMMA ReadAll ==
  ASSUME NEW stored \in Data
  PROVE  Read(stored, Len(stored)) = stored
<1>1. Read(stored, Len(stored)) = [i \in 1 .. Len(stored) |-> stored[i]]
  BY DEF Read, Data
<1>2. stored \in Seq(Int)
  BY DEF Data
<1>. QED
  BY <1>1, <1>2

(* What the request x is when it begins.                                   *)
Fresh(x) ==
  /\ x.op # "idle" /\ x.pc \in {"alloc", "read", "find", "marker", "remove", "parts"}
  /\ x.op = "get" => /\ x.name \in Names /\ objects[x.name] # None
                     /\ x.meta = objects[x.name]
  /\ x.op \in {"put", "complete"} => x.version = None
  /\ x.op = "part" => x.pc = "alloc" /\ Open(x.id[1])
  /\ x.op = "complete" =>
       /\ x.pc = "parts" /\ x.todo = x.listed /\ x.data = <<>> /\ Open(x.upload)
       /\ \A i \in x.listed : uploads[x.upload][i] \in Data
                              /\ x.size[i] = Len(uploads[x.upload][i])

(* Every request begins at its first lock section, with what it read.      *)
LEMMA RequestBegins ==
  ASSUME TypeOK, NEW t \in Tasks, Request(t)
  PROVE  \E x \in Calls : Starts(t, x) /\ Fresh(x)
           /\ UNCHANGED <<buckets, pool, objects, versions, uploads>>
<1>. DEFINE Begins(x) == /\ x \in Calls /\ Starts(t, x) /\ Fresh(x)
                         /\ UNCHANGED <<buckets, pool, objects, versions, uploads>>
<1>1. ASSUME NEW n \in Names, NEW d \in Contents, PutObject(t, n, d)
      PROVE  \E x : Begins(x)
  <2>1. buckets[n[1]] \in BOOLEAN
    BY <1>1 DEF TypeOK, PutObject, Names
  <2>2. d \in Data
    BY StoreAssumption
  <2>. DEFINE x1 == [op |-> "put", pc |-> "alloc", name |-> n, data |-> d,
                    versioned |-> buckets[n[1]], version |-> None]
  <2>3. x1 \in Calls /\ Fresh(x1)
    BY <2>1, <2>2 DEF Fresh, Calls, Puts, VersionIds
  <2>. QED
    BY <1>1, <2>3 DEF Starts, PutObject
<1>2. ASSUME NEW n \in Names, NEW w \in 1 .. MaxVersions \cup {None}, GetObject(t, n, w)
      PROVE  \E x : Begins(x)
  <2>1. objects[n] \in Metadata
    BY <1>2 DEF TypeOK, GetObject
  <2>. DEFINE x1 == [op |-> "get", pc |-> "read", name |-> n, meta |-> objects[n]]
              y == [op |-> "get", pc |-> "find", name |-> n, meta |-> objects[n], want |-> w]
  <2>2. CASE w \in {None, objects[n].version}
    <3>1. x1 \in Calls /\ Fresh(x1)
      BY <1>2, <2>1 DEF Fresh, GetObject, Calls, Gets
    <3>. QED
      BY <1>2, <2>2, <3>1 DEF Starts, GetObject
  <2>3. CASE w \notin {None, objects[n].version}
    <3>1. y \in Calls /\ Fresh(y)
      BY <1>2, <2>1, <2>3, StoreAssumption DEF Fresh, GetObject, Calls, Finds
    <3>. QED
      BY <1>2, <2>3, <3>1 DEF Starts, GetObject
  <2>. QED
    BY <2>2, <2>3
<1>3. ASSUME NEW n \in Names, DeleteObject(t, n)
      PROVE  \E x : Begins(x)
  <2>. DEFINE x1 == [op |-> "delete", name |-> n,
                    pc |-> IF buckets[n[1]] THEN "marker" ELSE "remove"]
  <2>1. x1 \in Calls /\ Fresh(x1)
    BY DEF Fresh, Calls, Deletes
  <2>. QED
    BY <1>3, <2>1 DEF Starts, DeleteObject
<1>4. ASSUME NEW u \in Uploads, NEW i \in PartNumbers, NEW d \in PartBody[i],
             UploadPart(t, u, i, d)
      PROVE  \E x : Begins(x)
  <2>. DEFINE x1 == [op |-> "part", pc |-> "alloc", id |-> <<u, i>>, data |-> d]
  <2>1. d \in Data /\ <<u, i>> \in PartIds
    BY StoreAssumption DEF PartIds
  <2>2. x1 \in Calls /\ Fresh(x1)
    BY <1>4, <2>1 DEF Fresh, Calls, Parts, UploadPart
  <2>. QED
    BY <1>4, <2>2 DEF Starts, UploadPart
<1>5. ASSUME NEW u \in Uploads, NEW n \in Names, NEW parts \in SUBSET PartNumbers,
             CompleteMultipartUpload(t, u, n, parts)
      PROVE  \E x : Begins(x)
  <2>. DEFINE sz == [i \in PartNumbers |-> IF i \in parts THEN Len(uploads[u][i]) ELSE 0]
              x1 == [op |-> "complete", pc |-> "parts", name |-> n, upload |-> u,
                    listed |-> parts, size |-> sz, todo |-> parts, data |-> <<>>, versioned |-> FALSE,
                    version |-> None]
  <2>1. \A i \in parts : uploads[u][i] \in Data
    BY <1>5 DEF CompleteMultipartUpload, Open, TypeOK
  <2>2. sz \in [PartNumbers -> Nat]
    BY <2>1 DEF Data
  <2>3. \A i \in parts : sz[i] = Len(uploads[u][i])
    OBVIOUS
  <2>4. x1 \in Calls /\ Fresh(x1)
    <3>1. Open(u)
      BY <1>5 DEF CompleteMultipartUpload
    <3>. HIDE DEF sz
    <3>2. x1 \in Calls
      BY <2>2 DEF Calls, Completes, VersionIds, Data
    <3>3. Fresh(x1)
      BY <2>1, <2>3, <3>1 DEF Fresh
    <3>. QED
      BY <3>2, <3>3
  <2>. QED
    BY <1>5, <2>4 DEF Starts, CompleteMultipartUpload
<1>. QED
  BY <1>1, <1>2, <1>3, <1>4, <1>5 DEF Request


(* Every lock section keeps the types.                                     *)
LEMMA StepTyped ==
  ASSUME TypeOK, NEW t \in Tasks, Step(t)
  PROVE  TypeOK'
<1>. DEFINE x == call[t]
<1>0. x \in Calls
  BY DEF TypeOK
<1>1. ASSUME AllocateSpace(t) \/ WriteWithServices(t)
      PROVE  TypeOK'
  <2>1. x \in Puts \cup Parts \cup Completes
    BY <1>1, Where, Working DEF AllocateSpace, WriteWithServices
  <2>2. StorageID(x) \in Names \cup PartIds /\ x.data \in Data
    BY <2>1 DEF StorageID, Puts, Parts, Completes
  <2>3. AfterWrite(x) \in {"record", "version", "meta"}
        /\ (x \in Parts <=> AfterWrite(x) = "record")
    BY <2>1 DEF AfterWrite, Puts, Parts, Completes
  <2>4. \E y \in Calls : call' = [call EXCEPT ![t] = y]
    <3>1. CASE AllocateSpace(t)
      <4>1. [x EXCEPT !.pc = "write"] \in Calls
        BY <1>0, <2>1, GotoType, ZenonT(60)
      <4>. QED
        BY <3>1, <4>1, ZenonT(60) DEF AllocateSpace, Goto
    <3>2. CASE WriteWithServices(t)
      <4>1. [x EXCEPT !.pc = AfterWrite(x)] \in Calls
        BY <1>0, <2>1, <2>3, GotoType, ZenonT(60)
      <4>. QED
        BY <3>2, <4>1, ZenonT(60) DEF WriteWithServices, Goto
    <3>. QED
      BY <1>1, <3>1, <3>2
  <2>5. pool' \in [Names \cup PartIds -> {None} \cup Data]
    <3>1. <<>> \in Data
      BY DEF Data
    <3>. QED
      BY <1>1, <2>2, <3>1, ZenonT(60) DEF AllocateSpace, WriteWithServices, TypeOK
  <2>. QED
    BY <1>1, <2>4, <2>5, CallTyped DEF AllocateSpace, WriteWithServices, TypeOK
<1>2. ASSUME AddVersion(t)
      PROVE  TypeOK'
  <2>1. x \in Puts \cup Completes
    BY <1>2, Where, Working DEF AddVersion
  <2>2. NewVersion \in Nat \ {0}
    BY NewVersionType
  <2>. DEFINE v == [id |-> NewVersion, content |-> x.data, latest |-> TRUE, marker |-> FALSE]
              y == [x EXCEPT !.pc = "meta", !.version = v.id]
  <2>3. x.name \in Names /\ x.data \in Data
    BY <2>1 DEF Puts, Completes
  <2>4. v \in Version
    BY <2>2, <2>3 DEF Version
  <2>5. y \in Calls
    BY <2>1, <2>2, ZenonT(60) DEF Calls, Puts, Completes, VersionIds
  <2>6. versions[x.name] \in Seq(Version)
    BY <2>3 DEF TypeOK
  <2>7. /\ call' = [call EXCEPT ![t] = y]
        /\ versions' = [versions EXCEPT ![x.name] = Appended(versions[x.name], v)]
        /\ UNCHANGED <<buckets, pool, objects, uploads, clash>>
    BY <1>2 DEF AddVersion
  <2>. HIDE DEF v, y, x
  <2>8. versions' \in [Names -> Seq(Version)]
    <3>1. Appended(versions[x.name], v) \in Seq(Version)
      BY <2>4, <2>6, AppendedKeeps, ZenonT(60)
    <3>. QED
      BY <2>3, <2>7, <3>1 DEF TypeOK
  <2>. QED
    BY <2>5, <2>7, <2>8, CallTyped DEF TypeOK
<1>3. ASSUME StoreMetadata(t)
      PROVE  TypeOK'
  <2>1. x \in Puts \cup Completes
    BY <1>3, Where, Working DEF StoreMetadata
  <2>. DEFINE m == [content |-> x.data, version |-> x.version]
              y == [op |-> "complete", pc |-> "drop", name |-> x.name, upload |-> x.upload,
                    todo |-> x.listed]
  <2>2. x.name \in Names /\ m \in Metadata
    BY <2>1 DEF Puts, Completes, Metadata
  <2>3. x.op = "complete" => y \in Calls
    BY <2>1 DEF Puts, Completes, Sweeps, Calls
  <2>4. objects' \in [Names -> {None} \cup Metadata]
    BY <1>3, <2>2 DEF StoreMetadata, TypeOK
  <2>5. \E z \in Calls : call' = [call EXCEPT ![t] = z]
    BY <1>0, <1>3, <2>3, GotoType, ZenonT(60) DEF StoreMetadata, Finish
  <2>. QED
    BY <1>3, <2>4, <2>5, CallTyped DEF StoreMetadata, TypeOK
<1>4. ASSUME FindVersion(t)
      PROVE  TypeOK'
  <2>1. x \in Finds
    BY <1>4, Where, Working DEF FindVersion
  <2>2. x.name \in Names /\ x.meta \in Metadata /\ versions[x.name] \in Seq(Version)
    BY <2>1 DEF Finds, TypeOK
  <2>3. \A m \in Metadata : [op |-> "get", pc |-> "read", name |-> x.name, meta |-> m] \in Calls
    BY <2>2 DEF Calls, Gets
  <2>4. ASSUME NEW k \in 1 .. Len(versions[x.name]), ~versions[x.name][k].marker
        PROVE  [content |-> versions[x.name][k].content, version |-> versions[x.name][k].id]
                 \in Metadata
    <3>1. versions[x.name][k] \in Version
      BY <2>2
    <3>. QED
      BY <2>4, <3>1, ZenonT(60) DEF Version, Metadata, VersionIds
  <2>5. \E z \in Calls : call' = [call EXCEPT ![t] = z]
    BY <1>0, <1>4, <2>2, <2>3, <2>4, GotoType, ZenonT(60) DEF FindVersion, Finish
  <2>. QED
    BY <1>4, <2>5, CallTyped, SMT, SMTT(60) DEF FindVersion, TypeOK
<1>5. ASSUME ReadObject(t)
      PROVE  TypeOK'
  BY <1>0, <1>5, GotoType, CallTyped, ZenonT(60) DEF ReadObject, Finish, TypeOK
<1>6. ASSUME AddMarker(t)
      PROVE  TypeOK'
  <2>1. x.name \in Names
    BY <1>6, Where, Working DEF AddMarker, Deletes
  <2>2. NewVersion \in Nat \ {0}
    BY NewVersionType
  <2>. DEFINE v == [id |-> NewVersion, content |-> None, latest |-> TRUE, marker |-> TRUE]
  <2>3. v \in Version
    BY <2>2 DEF Version
  <2>4. versions' = [versions EXCEPT ![x.name] = Appended(versions[x.name], v)]
    BY <1>6 DEF AddMarker
  <2>5. versions[x.name] \in Seq(Version)
    BY <2>1 DEF TypeOK
  <2>. HIDE DEF v, x
  <2>6. versions' \in [Names -> Seq(Version)]
    <3>1. Appended(versions[x.name], v) \in Seq(Version)
      BY <2>3, <2>5, AppendedKeeps, ZenonT(60)
    <3>. QED
      BY <2>1, <2>4, <3>1 DEF TypeOK
  <2>7. Idle \in Calls
    BY DEF Calls
  <2>. QED
    BY <1>6, <2>6, <2>7, CallTyped DEF AddMarker, Finish, TypeOK
<1>7. ASSUME RemoveMetadata(t)
      PROVE  TypeOK'
  <2>1. x \in Deletes
    BY <1>7, Where, Working DEF RemoveMetadata
  <2>2. objects' \in [Names -> {None} \cup Metadata]
    BY <1>7, <2>1 DEF RemoveMetadata, TypeOK, Deletes
  <2>3. \E z \in Calls : call' = [call EXCEPT ![t] = z]
    <3>1. Idle \in Calls /\ [x EXCEPT !.pc = "reclaim"] \in Calls
      BY <1>0, <2>1, GotoType, ZenonT(60)
    <3>. QED
      BY <1>7, <3>1 DEF RemoveMetadata, Finish, Goto
  <2>. QED
    BY <1>7, <2>2, <2>3, CallTyped DEF RemoveMetadata, TypeOK
<1>8. ASSUME ReclaimSpace(t)
      PROVE  TypeOK'
  <2>1. x \in Deletes
    BY <1>8, Where, Working DEF ReclaimSpace
  <2>2. pool' \in [Names \cup PartIds -> {None} \cup Data]
    BY <1>8, <2>1 DEF ReclaimSpace, TypeOK, Deletes
  <2>. QED
    BY <1>0, <1>8, <2>2, GotoType, CallTyped, ZenonT(60) DEF ReclaimSpace, Finish, TypeOK
<1>9. ASSUME RecordPart(t)
      PROVE  TypeOK'
  <2>1. x \in Parts
    BY <1>9, Where, Working DEF RecordPart
  <2>2. x.id[1] \in Uploads /\ x.id[2] \in PartNumbers /\ x.data \in Data
    BY <2>1 DEF Parts, PartIds
  <2>3. uploads' \in [Uploads -> {None, Gone} \cup [PartNumbers -> {None} \cup Data]]
    BY <1>9, <2>2 DEF RecordPart, TypeOK, Open
  <2>. QED
    BY <1>0, <1>9, <2>3, GotoType, CallTyped, ZenonT(60) DEF RecordPart, Finish, TypeOK
<1>10. ASSUME ReadPart(t)
       PROVE  TypeOK'
  <2>. DEFINE i == First(x.todo)
              stored == pool[<<x.upload, i>>]
              y == [x EXCEPT !.todo = @ \ {i}, !.data = @ \o Read(stored, x.size[i])]
  <2>1. x \in Completes /\ x.todo # {}
    BY <1>10, Where, Working DEF ReadPart
  <2>2. i \in PartNumbers /\ x.upload \in Uploads /\ x.data \in Data
    BY <2>1, FirstListed DEF Completes
  <2>3. CASE stored = None
    BY <1>0, <1>10, <2>3, GotoType, CallTyped, ZenonT(60) DEF ReadPart, Finish, TypeOK
  <2>4. CASE stored # None
    <3>1. stored \in Data
      BY <2>2, <2>4 DEF TypeOK, PartIds
    <3>2. x.data \o Read(stored, x.size[i]) \in Data
      <4>1. x.size[i] \in Nat
        BY <2>1, <2>2 DEF Completes
      <4>2. Read(stored, x.size[i]) \in Data
        BY <3>1, <4>1, ReadType
      <4>. QED
        BY <2>2, <4>2 DEF Data
    <3>3. y \in Calls
      BY <2>1, <3>2, ZenonT(60) DEF Completes, Calls
    <3>4. call' = [call EXCEPT ![t] = y]
      BY <1>10, <2>4 DEF ReadPart
    <3>. QED
      BY <1>10, <3>3, <3>4, CallTyped DEF ReadPart, TypeOK
  <2>. QED
    BY <2>3, <2>4
<1>11. ASSUME PutParts(t)
       PROVE  TypeOK'
  <2>. DEFINE b == buckets[x.name[1]]
              y == [x EXCEPT !.pc = "alloc", !.versioned = b]
  <2>1. x \in Completes
    BY <1>11, Where, Working DEF PutParts
  <2>2. b = None \/ b \in BOOLEAN
    BY <2>1 DEF Completes, Names, TypeOK
  <2>3. b # None => y \in Calls
    BY <2>1, <2>2, ZenonT(60) DEF Completes, Calls
  <2>4. Idle \in Calls
    BY DEF Calls
  <2>5. \E z \in Calls : call' = [call EXCEPT ![t] = z]
    BY <1>11, <2>3, <2>4 DEF PutParts, Finish
  <2>. QED
    BY <1>11, <2>5, CallTyped DEF PutParts, TypeOK
<1>12. ASSUME DropUpload(t)
       PROVE  TypeOK'
  <2>1. x \in Sweeps
    BY <1>12, Where, Working DEF DropUpload
  <2>2. uploads' \in [Uploads -> {None, Gone} \cup [PartNumbers -> {None} \cup Data]]
    BY <1>12, <2>1 DEF DropUpload, Sweeps, TypeOK
  <2>3. [x EXCEPT !.pc = "sweep"] \in Calls
    BY <1>0, <2>1, GotoType, ZenonT(60)
  <2>. QED
    BY <1>12, <2>2, <2>3, CallTyped DEF DropUpload, Goto, TypeOK
<1>13. ASSUME ReclaimPart(t)
       PROVE  TypeOK'
  <2>1. x \in Sweeps
    BY <1>13, Where, Working DEF ReclaimPart
  <2>2. CASE x.todo = {}
    BY <1>0, <1>13, <2>2, GotoType, CallTyped, ZenonT(60) DEF ReclaimPart, Finish, TypeOK
  <2>3. CASE x.todo # {}
    <3>. DEFINE y == [x EXCEPT !.todo = @ \ {First(x.todo)}]
    <3>1. y \in Calls
      BY <2>1 DEF Sweeps, Calls
    <3>2. /\ call' = [call EXCEPT ![t] = y]
          /\ pool' = [pool EXCEPT ![<<x.upload, First(x.todo)>>] = None]
      BY <1>13, <2>3 DEF ReclaimPart
    <3>3. pool' \in [Names \cup PartIds -> {None} \cup Data]
      BY <3>2, ZenonT(60) DEF TypeOK
    <3>. QED
      BY <1>13, <3>1, <3>2, <3>3, CallTyped DEF ReclaimPart, TypeOK
  <2>. QED
    BY <2>2, <2>3
<1>. QED
  BY <1>1, <1>2, <1>3, <1>4, <1>5, <1>6, <1>7, <1>8, <1>9, <1>10, <1>11, <1>12, <1>13
     DEF Step

(* Every request and every step keep the types.                            *)
LEMMA NextTyped ==
  ASSUME TypeOK, [Next]_vars
  PROVE  TypeOK'
<1>1. ASSUME NEW b \in Buckets, DeleteBucket(b) \/ \E v \in BOOLEAN : CreateBucket(b, v)
      PROVE  TypeOK'
  BY <1>1, ZenonT(60) DEF TypeOK, DeleteBucket, CreateBucket
<1>2. ASSUME NEW u \in Uploads, InitiateMultipartUpload(u)
      PROVE  TypeOK'
  BY <1>2 DEF TypeOK, InitiateMultipartUpload
<1>3. CASE UNCHANGED vars
  BY <1>3 DEF TypeOK, vars
<1>. QED
  BY <1>1, <1>2, <1>3, RequestBegins, BeginTyped, StepTyped DEF Next

(* Every request and every step of a goroutine keeps buckets, objects,     *)
(* versions, uploads and pool of their types, and version ids positive.    *)
THEOREM StoreTyped == Spec => []TypeOK
<1>1. Init => TypeOK
  BY DEF Init, TypeOK, Calls
<1>2. TypeOK /\ [Next]_vars => TypeOK'
  BY NextTyped
<1>. QED
  BY <1>1, <1>2, PTL DEF Spec

-----------------------------------------------------------------------------
(* The request x is between the changes it makes to its object.            *)
Moving(x) == x.op # "idle" /\ x.pc \in {"write", "version", "meta", "reclaim"}

(* The metadata that the request x is going to store.                      *)
Meta(x) == [content |-> x.data, version |-> x.version]

(* Version m.version is one of vs, with the content of m; after it, vs has *)
(* markers only.                                                           *)
Listed(m, vs) ==
  m.version # None =>
    \E k \in 1 .. Len(vs) : vs[k].id = m.version /\ vs[k].content = m.content
Newest(m, vs) ==
  m.version # None =>
    \E k \in 1 .. Len(vs) : /\ vs[k].id = m.version /\ vs[k].content = m.content
                            /\ \A j \in k + 1 .. Len(vs) : vs[j].marker

Want(n) == IF objects[n] = None THEN None ELSE objects[n].content

(* An object whose changes have not overlapped: one request changes it at  *)
(* most, and how far that request has got says what pool and versions hold.*)
Alone(n) == \A t, u \in Tasks : Changing(call[t], n) /\ Changing(call[u], n) => t = u
Kept(n) == (\A t \in Tasks : Changing(call[t], n) => ~Moving(call[t])) => pool[n] = Want(n)
Stored(n) == \A t \in Tasks : Changing(call[t], n) /\ call[t].pc \in {"version", "meta"} =>
               pool[n] = call[t].data
Freed(n) == \A t \in Tasks : Changing(call[t], n) /\ call[t].pc = "reclaim" => objects[n] = None
Current(n) == (\A t \in Tasks : Changing(call[t], n) => call[t].pc # "meta") /\ objects[n] # None =>
                Newest(objects[n], versions[n])
Coming(n) == \A t \in Tasks : Changing(call[t], n) /\ call[t].pc = "meta" =>
               Newest(Meta(call[t]), versions[n])
Sound(n) == Alone(n) /\ Kept(n) /\ Stored(n) /\ Freed(n) /\ Current(n) /\ Coming(n)

(* Whatever overlaps: metadata that names a version agrees with the list   *)
(* of versions, and a request has no version before AddVersion.            *)
Fits(x, vss) ==
  /\ x.op = "get" => Listed(x.meta, vss[x.name])
  /\ x.op \in {"put", "complete"} /\ x.pc = "meta" => Listed(Meta(x), vss[x.name])
  /\ x.op \in {"put", "complete"} /\ x.pc \in {"parts", "alloc", "write", "version"} =>
       x.version = None
AllListed == /\ \A n \in Names : objects[n] # None => Listed(objects[n], versions[n])
             /\ \A t \in Tasks : Fits(call[t], versions)

IInv == TypeOK /\ OneLatest /\ AllListed /\ \A n \in Names \ clash : Sound(n)

(* A step that leaves alone the object, and the requests that are between  *)
(* their changes to it, keeps it sound.                                    *)
LEMMA Quiet ==
  ASSUME NEW n \in Names, Sound(n),
         pool'[n] = pool[n], objects'[n] = objects[n], versions'[n] = versions[n],
         \A u \in Tasks : Changing(call'[u], n) => Changing(call[u], n),
         \A u \in Tasks : Changing(call'[u], n) /\ Moving(call'[u]) => call'[u] = call[u],
         \A u \in Tasks : Changing(call[u], n) /\ Moving(call[u]) => call'[u] = call[u]
  PROVE  Sound(n)'
<1>1. Alone(n)'
  BY DEF Sound, Alone, Changing
<1>2. Kept(n)'
  BY DEF Sound, Kept, Want, Changing, Moving
<1>3. Stored(n)' /\ Freed(n)'
  BY DEF Sound, Stored, Freed, Changing, Moving, Changes
<1>4. Current(n)'
  BY DEF Sound, Current, Changing, Moving, Changes
<1>5. Coming(n)'
  BY DEF Sound, Coming, Changing, Moving, Changes
<1>. QED
  BY <1>1, <1>2, <1>3, <1>4, <1>5 DEF Sound

(* A new request for an object with no other one under way.                *)
LEMMA BeginSound ==
  ASSUME TypeOK, NEW t \in Tasks, NEW x \in Calls, Starts(t, x), ~Moving(x),
         UNCHANGED <<pool, objects, versions>>,
         NEW n \in Names \ clash', n \notin clash => Sound(n)
  PROVE  Sound(n)'
<1>1. Sound(n)
  BY DEF Starts, Begin
<1>2. \A u \in Tasks : Changing(call[u], n) => ~Changing(x, n)
  <2>. SUFFICES ASSUME NEW u \in Tasks, Changing(call[u], n), Changing(x, n)
                PROVE  FALSE
    OBVIOUS
  <2>1. call[u] \in Calls
    BY DEF TypeOK
  <2>2. n \in Subjects(x) \cap Subjects(call[u])
    BY <2>1, SubjectsType
  <2>3. n \in UNION {Subjects(x) \cap Subjects(call[v]) : v \in Tasks}
    BY <2>2
  <2>. QED
    BY <2>3 DEF Starts, Begin
<1>3. call[t] = Idle /\ call'[t] = x /\ \A u \in Tasks \ {t} : call'[u] = call[u]
  BY DEF Starts, Begin, TypeOK
<1>4. ~Changing(call[t], n)
  BY <1>3 DEF Changing, Changes, Idle
<1>5. CASE ~Changing(x, n)
  BY <1>1, <1>3, <1>4, <1>5, Quiet
<1>6. CASE Changing(x, n)
  <2>1. \A u \in Tasks : ~Changing(call[u], n)
    BY <1>2, <1>6
  <2>2. \A u \in Tasks : Changing(call'[u], n) => u = t
    BY <1>3, <2>1
  <2>3. pool[n] = Want(n) /\ (objects[n] # None => Newest(objects[n], versions[n]))
    BY <1>1, <2>1 DEF Sound, Kept, Current
  <2>4. x.op # "idle"
    BY <1>6 DEF Changing, Changes
  <2>5. Alone(n)'
    BY <2>2 DEF Alone, Changing
  <2>6. Kept(n)' /\ Current(n)'
    BY <2>3 DEF Kept, Current, Want, Newest
  <2>7. Stored(n)' /\ Freed(n)' /\ Coming(n)'
    BY <1>3, <2>2, <2>4, ZenonT(60) DEF Stored, Freed, Coming, Moving, Changing
  <2>. QED
    BY <2>5, <2>6, <2>7 DEF Sound
<1>. QED
  BY <1>5, <1>6


(* A step of the one request that changes the object: what must hold for   *)
(* y, which the request becomes.                                           *)
LEMMA Solo ==
  ASSUME TypeOK, NEW n \in Names, NEW t \in Tasks, Changing(call[t], n), Alone(n),
         NEW y \in Calls, call' = [call EXCEPT ![t] = y], y = Idle \/ Changing(y, n),
         ~Moving(y) => pool'[n] = Want(n)',
         y.op # "idle" /\ y.pc \in {"version", "meta"} => pool'[n] = y.data,
         y.op # "idle" /\ y.pc = "reclaim" => objects'[n] = None,
         (y.op = "idle" \/ y.pc # "meta") /\ objects'[n] # None =>
            Newest(objects'[n], versions'[n]),
         y.op # "idle" /\ y.pc = "meta" => Newest(Meta(y), versions'[n])
  PROVE  Sound(n)'
<1>1. call'[t] = y /\ \A u \in Tasks \ {t} : call'[u] = call[u]
  BY DEF TypeOK
<1>2. \A u \in Tasks : Changing(call'[u], n) => u = t
  BY <1>1 DEF Alone
<1>3. y.op # "idle" <=> Changing(y, n)
  BY DEF Idle, Changing, Changes
<1>4. Alone(n)'
  BY <1>2 DEF Alone, Changing
<1>5. Kept(n)'
  <2>1. CASE Changing(y, n)
    BY <1>1, <2>1 DEF Kept, Changing, Moving, Want
  <2>2. CASE y = Idle
    BY <2>2 DEF Kept, Moving, Want, Idle
  <2>. QED
    BY <2>1, <2>2
<1>6. Stored(n)' /\ Freed(n)'
  BY <1>1, <1>2, <1>3, ZenonT(60) DEF Stored, Freed, Changing
<1>7. Current(n)'
  <2>1. CASE Changing(y, n)
    BY <1>1, <1>3, <2>1, ZenonT(60) DEF Current, Changing, Newest
  <2>2. CASE y = Idle
    BY <2>2 DEF Current, Idle, Newest
  <2>. QED
    BY <2>1, <2>2
<1>8. Coming(n)'
  <2>1. ASSUME NEW u \in Tasks, Changing(call'[u], n), call'[u].pc = "meta"
        PROVE  Newest(Meta(call'[u]), versions'[n])
    <3>1. call'[u] = y
      BY <1>1, <1>2, <2>1, ZenonT(60)
    <3>. QED
      BY <1>3, <2>1, <3>1, ZenonT(60)
  <2>. QED
    BY <2>1, ZenonT(60) DEF Coming, Changing, Newest, Meta
<1>. QED
  BY <1>4, <1>5, <1>6, <1>7, <1>8 DEF Sound

(* Of requests that are not about to be between changes, Kept and Current  *)
(* say what holds.                                                         *)
LEMMA Settled ==
  ASSUME NEW n \in Names, NEW t \in Tasks, Sound(n), Changing(call[t], n)
  PROVE  /\ ~Moving(call[t]) => pool[n] = Want(n)
         /\ call[t].pc # "meta" /\ objects[n] # None => Newest(objects[n], versions[n])
<1>1. \A u \in Tasks : Changing(call[u], n) => u = t
  BY DEF Sound, Alone
<1>. QED
  BY <1>1 DEF Sound, Kept, Current

(* Steps of a request that changes n.                                      *)
LEMMA OwnStep ==
  ASSUME TypeOK, AllListed, NEW n \in Names, Sound(n), NEW t \in Tasks,
         Changing(call[t], n),
         \/ AllocateSpace(t) \/ WriteWithServices(t) \/ AddVersion(t) \/ StoreMetadata(t)
         \/ AddMarker(t) \/ RemoveMetadata(t) \/ ReclaimSpace(t)
  PROVE  Sound(n)'
<1>. DEFINE x == call[t]
<1>0. /\ x \in Calls /\ x.op \in Changes /\ x.name = n /\ x.op # "idle" /\ x # Idle
      /\ Alone(n) /\ Idle \in Calls /\ Idle.op = "idle" /\ ~Moving(Idle)
  BY DEF TypeOK, Changing, Changes, Sound, Idle, Calls, Moving
<1>1. CASE AllocateSpace(t)
  <2>. DEFINE y == [x EXCEPT !.pc = "write"]
  <2>1. x.pc = "alloc" /\ x \in Puts \cup Completes
    BY <1>0, <1>1, Where DEF AllocateSpace, At, Parts, Changes
  <2>2. y \in Calls
    BY <1>0, <2>1, GotoType, ZenonT(60)
  <2>3. y.op = x.op /\ y.name = n /\ y.pc = "write"
    BY <1>0, <2>1, ZenonT(60) DEF Puts, Completes
  <2>4. objects[n] # None => Newest(objects[n], versions[n])
    BY <2>1, Settled
  <2>5. call' = [call EXCEPT ![t] = y] /\ UNCHANGED <<objects, versions>>
    BY <1>1 DEF AllocateSpace, Goto
  <2>. HIDE DEF y
  <2>. QED
    BY <1>0, <2>2, <2>3, <2>4, <2>5, Solo, ZenonT(60) DEF Changing, Moving
<1>2. CASE WriteWithServices(t)
  <2>. DEFINE y == [x EXCEPT !.pc = AfterWrite(x)]
  <2>1. x.pc = "write" /\ x \in Puts \cup Completes
    BY <1>0, <1>2, Where, ZenonT(60) DEF WriteWithServices, At, Parts, Changes
  <2>2. AfterWrite(x) \in {"version", "meta"}
    BY <1>0 DEF AfterWrite, Changes
  <2>3. y \in Calls
    BY <1>0, <2>1, <2>2, GotoType, ZenonT(60)
  <2>4. /\ y.op = x.op /\ y.name = n /\ y.pc \in {"version", "meta"} /\ y.data = x.data
        /\ y.version = x.version
    BY <1>0, <2>1, <2>2 DEF Puts, Completes
  <2>5. objects[n] # None => Newest(objects[n], versions[n])
    BY <2>1, Settled, ZenonT(60)
  <2>6. x.version = None
    BY <2>1 DEF AllListed, Fits, Puts, Completes
  <2>7. pool'[n] = x.data
    <3>1. StorageID(x) = n
      BY <1>0 DEF StorageID, Changes
    <3>. QED
      BY <1>2, <3>1, ZenonT(60) DEF WriteWithServices, TypeOK
  <2>8. call' = [call EXCEPT ![t] = y] /\ UNCHANGED <<objects, versions>>
    BY <1>2 DEF WriteWithServices, Goto
  <2>9. Newest(Meta(y), versions'[n])
    BY <2>4, <2>6 DEF Newest, Meta
  <2>. HIDE DEF y
  <2>. QED
    BY <1>0, <2>3, <2>4, <2>5, <2>7, <2>8, <2>9, Solo, ZenonT(60) DEF Changing, Moving
<1>3. CASE AddVersion(t)
  <2>. DEFINE v == [id |-> NewVersion, content |-> x.data, latest |-> TRUE, marker |-> FALSE]
              y == [x EXCEPT !.pc = "meta", !.version = v.id]
              vs == versions[n]
  <2>1. x.pc = "version" /\ x \in Puts \cup Completes
    BY <1>0, <1>3, Where DEF AddVersion, At
  <2>2. NewVersion \in Nat \ {0}
    BY NewVersionType
  <2>3. v \in Version /\ vs \in Seq(Version)
    BY <2>1, <2>2, ZenonT(60) DEF Version, Puts, Completes, TypeOK
  <2>4. y \in Calls
    BY <2>1, <2>2, ZenonT(60) DEF Calls, Puts, Completes, VersionIds
  <2>5. /\ y.op = x.op /\ y.name = n /\ y.pc = "meta" /\ y.data = x.data
        /\ y.version = v.id
    BY <1>0, <2>1 DEF Puts, Completes
  <2>6. pool[n] = x.data
    BY <1>0, <2>1 DEF Sound, Stored, Changing
  <2>7. /\ call' = [call EXCEPT ![t] = y] /\ UNCHANGED <<pool, objects>>
        /\ versions'[n] = Appended(vs, v)
    BY <1>0, <1>3 DEF AddVersion, TypeOK
  <2>8. v.content = x.data
    OBVIOUS
  <2>. HIDE DEF y, v, vs
  <2>9. Newest(Meta(y), versions'[n])
    <3>0. Len(vs) \in Nat
      BY <2>3
    <3>1. Len(Appended(vs, v)) = Len(vs) + 1 /\ Appended(vs, v)[Len(vs) + 1] = v
      BY <2>3, AppendedKeeps, ZenonT(60)
    <3>. DEFINE k == Len(vs) + 1
    <3>2. k \in 1 .. Len(versions'[n]) /\ k + 1 .. Len(versions'[n]) = {}
      BY <2>7, <3>0, <3>1
    <3>3. versions'[n][k].id = Meta(y).version /\ versions'[n][k].content = Meta(y).content
      BY <2>5, <2>7, <2>8, <3>1 DEF Meta
    <3>. HIDE DEF k
    <3>. QED
      BY <3>2, <3>3, ZenonT(60) DEF Newest
  <2>. QED
    BY <1>0, <2>4, <2>5, <2>6, <2>7, <2>9, Solo, ZenonT(60) DEF Changing, Moving
<1>4. CASE StoreMetadata(t)
  <2>. DEFINE y == IF x.op = "complete"
                   THEN [op |-> "complete", pc |-> "drop", name |-> x.name,
                         upload |-> x.upload, todo |-> x.listed]
                   ELSE Idle
  <2>1. x.pc = "meta" /\ x \in Puts \cup Completes
    BY <1>0, <1>4, Where DEF StoreMetadata, At
  <2>2. y \in Calls
    BY <1>0, <2>1, ZenonT(60) DEF Calls, Puts, Completes, Sweeps
  <2>3. y = Idle \/ (Changing(y, n) /\ y.pc = "drop")
    BY <1>0, ZenonT(60) DEF Changing, Changes
  <2>4. pool[n] = x.data /\ Newest(Meta(x), versions[n])
    BY <1>0, <2>1, ZenonT(60) DEF Sound, Stored, Coming, Changing
  <2>5. /\ call' = [call EXCEPT ![t] = y] /\ UNCHANGED <<pool, versions>>
        /\ objects'[n] = Meta(x)
    BY <1>0, <1>4 DEF StoreMetadata, Finish, TypeOK, Meta
  <2>6. pool'[n] = Want(n)'
    <3>1. x.data \in Data /\ Meta(x).content = x.data
      BY <2>1 DEF Puts, Completes, Meta
    <3>2. Meta(x) \in Metadata
      BY <2>1, ZenonT(60) DEF Puts, Completes, Meta, Metadata
    <3>3. objects'[n] # None
      BY <2>5, <3>2, StoreAssumption, ZenonT(60)
    <3>. QED
      BY <2>4, <2>5, <3>1, <3>3, ZenonT(60) DEF Want
  <2>. HIDE DEF y
  <2>. QED
    BY <1>0, <2>2, <2>3, <2>4, <2>5, <2>6, Solo, ZenonT(60) DEF Moving
<1>5. CASE AddMarker(t)
  <2>. DEFINE v == [id |-> NewVersion, content |-> None, latest |-> TRUE, marker |-> TRUE]
              vs == versions[n]
  <2>1. x.pc = "marker"
    BY <1>5, ZenonT(60) DEF AddMarker, At
  <2>2. NewVersion \in Nat \ {0}
    BY NewVersionType
  <2>3. v \in Version /\ vs \in Seq(Version) /\ v.marker = TRUE
    BY <2>2, ZenonT(60) DEF Version, TypeOK
  <2>4. pool[n] = Want(n) /\ (objects[n] # None => Newest(objects[n], vs))
    BY <2>1, Settled, ZenonT(60) DEF Moving
  <2>5. /\ call' = [call EXCEPT ![t] = Idle] /\ UNCHANGED <<pool, objects>>
        /\ versions'[n] = Appended(vs, v)
    BY <1>0, <1>5, ZenonT(60) DEF AddMarker, Finish, TypeOK
  <2>6. pool'[n] = Want(n)'
    BY <2>4, <2>5, SMT, ZenonT(60) DEF Want
  <2>. HIDE DEF v, vs
  <2>7. ASSUME NEW m, Newest(m, vs)
        PROVE  Newest(m, Appended(vs, v))
    <3>. SUFFICES ASSUME m.version # None
                  PROVE  Newest(m, Appended(vs, v))
      BY DEF Newest
    <3>. DEFINE ws == Appended(vs, v)
    <3>1. PICK k \in 1 .. Len(vs) : /\ vs[k].id = m.version /\ vs[k].content = m.content
                                    /\ \A j \in k + 1 .. Len(vs) : vs[j].marker
      BY <2>7 DEF Newest
    <3>0. Len(vs) \in Nat
      BY <2>3
    <3>2. /\ Len(ws) = Len(vs) + 1 /\ ws[Len(vs) + 1] = v
          /\ \A j \in 1 .. Len(vs) : /\ ws[j].id = vs[j].id /\ ws[j].content = vs[j].content
                                     /\ ws[j].marker = vs[j].marker
      BY <2>3, AppendedKeeps, ZenonT(60)
    <3>. HIDE DEF ws
    <3>3. k \in 1 .. Len(ws) /\ ws[k].id = m.version /\ ws[k].content = m.content
      BY <3>0, <3>1, <3>2
    <3>4. \A j \in k + 1 .. Len(ws) : ws[j].marker
      <4>. TAKE j \in k + 1 .. Len(ws)
      <4>1. CASE j = Len(vs) + 1
        BY <2>3, <3>2, <4>1
      <4>2. CASE j # Len(vs) + 1
        <5>1. j \in k + 1 .. Len(vs) /\ j \in 1 .. Len(vs)
          BY <3>0, <3>2, <4>2
        <5>. QED
          BY <3>1, <3>2, <5>1
      <4>. QED
        BY <4>1, <4>2
    <3>5. Newest(m, ws)
      BY <3>3, <3>4, ZenonT(60) DEF Newest
    <3>. QED
      BY <3>5 DEF ws
  <2>. QED
    BY <1>0, <2>4, <2>5, <2>6, <2>7, Solo, ZenonT(60) DEF Moving
<1>6. CASE RemoveMetadata(t)
  <2>. DEFINE y == IF objects[n] = None THEN Idle ELSE [x EXCEPT !.pc = "reclaim"]
  <2>1. x.pc = "remove" /\ x \in Deletes
    BY <1>0, <1>6, Where DEF RemoveMetadata, At
  <2>2. y \in Calls
    BY <1>0, <2>1, GotoType, ZenonT(60)
  <2>3. \/ y = Idle /\ objects[n] = None
        \/ y.op = x.op /\ y.name = n /\ y.pc = "reclaim"
    BY <1>0, <2>1 DEF Deletes
  <2>4. /\ call' = [call EXCEPT ![t] = y] /\ UNCHANGED <<pool, versions>>
        /\ objects'[n] = None
    BY <1>0, <1>6 DEF RemoveMetadata, Finish, Goto, TypeOK
  <2>5. pool[n] = Want(n)
    BY <2>1, Settled, ZenonT(60) DEF Moving
  <2>6. ~Moving(y) => pool'[n] = Want(n)'
    BY <1>0, <2>3, <2>4, <2>5 DEF Moving, Want
  <2>. HIDE DEF y
  <2>. QED
    BY <1>0, <2>2, <2>3, <2>4, <2>6, Solo, ZenonT(60) DEF Changing
<1>7. CASE ReclaimSpace(t)
  <2>1. x.pc = "reclaim"
    BY <1>7, ZenonT(60) DEF ReclaimSpace, At
  <2>2. objects[n] = None
    BY <1>0, <2>1, ZenonT(60) DEF Sound, Freed, Changing
  <2>3. /\ call' = [call EXCEPT ![t] = Idle] /\ UNCHANGED <<objects, versions>>
        /\ pool'[n] = None
    BY <1>0, <1>7, ZenonT(60) DEF ReclaimSpace, Finish, TypeOK
  <2>4. pool'[n] = Want(n)'
    BY <2>2, <2>3, ZenonT(60) DEF Want
  <2>. QED
    BY <1>0, <2>2, <2>3, <2>4, Solo, ZenonT(60)
<1>. QED
  BY <1>1, <1>2, <1>3, <1>4, <1>5, <1>6, <1>7


(* A step of a request that is not among its changes of n: n is not        *)
(* touched, and the request does not become one that is.                   *)
LEMMA OtherStep ==
  ASSUME TypeOK, NEW n \in Names, Sound(n), NEW t \in Tasks, Step(t),
         ~Changing(call[t], n) \/ call[t].pc \in {"parts", "drop", "sweep"}
  PROVE  Sound(n)'
<1>. DEFINE x == call[t]
<1>0. x # Idle /\ x \in Calls
  BY Working, ZenonT(60) DEF Step, TypeOK, AllocateSpace, WriteWithServices, AddVersion, StoreMetadata,
     FindVersion, ReadObject, AddMarker, RemoveMetadata, ReclaimSpace, RecordPart, ReadPart,
     PutParts, DropUpload, ReclaimPart
<1>. SUFFICES /\ pool'[n] = pool[n] /\ objects'[n] = objects[n] /\ versions'[n] = versions[n]
              /\ \E y : /\ call' = [call EXCEPT ![t] = y]
                        /\ Changing(y, n) => Changing(x, n) /\ ~Moving(y)
  <2>1. PICK y : /\ call' = [call EXCEPT ![t] = y]
                 /\ Changing(y, n) => Changing(x, n) /\ ~Moving(y)
    BY ZenonT(60)
  <2>2. call'[t] = y /\ \A u \in Tasks \ {t} : call'[u] = call[u]
    BY <2>1, ZenonT(60) DEF TypeOK
  <2>3. Changing(x, n) => ~Moving(x)
    BY ZenonT(60) DEF Moving
  <2>. QED
    BY <2>1, <2>2, <2>3, Quiet, ZenonT(60)
<1>1. Idle.op = "idle" /\ ~Changing(Idle, n)
  BY ZenonT(60) DEF Idle, Changing, Changes
<1>2. CASE AllocateSpace(t) \/ WriteWithServices(t)
  <2>1. x \in Puts \cup Parts \cup Completes /\ x.pc \in {"alloc", "write"}
    BY <1>0, <1>2, Where, ZenonT(60) DEF AllocateSpace, WriteWithServices, At
  <2>2. ~Changing(x, n)
    BY <2>1, ZenonT(60)
  <2>3. StorageID(x) # n
    BY <2>1, <2>2, StoreAssumption, ZenonT(60) DEF StorageID, Puts, Parts, Completes, Changing, Changes
  <2>4. pool'[n] = pool[n]
    BY <1>2, <2>3, ZenonT(60) DEF AllocateSpace, WriteWithServices, TypeOK
  <2>5. \A p : ~Changing([x EXCEPT !.pc = p], n)
    BY <2>1, <2>2, ZenonT(60) DEF Changing, Changes, Puts, Parts, Completes
  <2>6. \E p : call' = [call EXCEPT ![t] = [x EXCEPT !.pc = p]]
    BY <1>2, ZenonT(60) DEF AllocateSpace, WriteWithServices, Goto
  <2>. QED
    BY <1>2, <2>4, <2>5, <2>6, ZenonT(60) DEF AllocateSpace, WriteWithServices
<1>3. CASE AddVersion(t)
  <2>1. x \in Puts \cup Completes /\ x.pc = "version"
    BY <1>0, <1>3, Where, ZenonT(60) DEF AddVersion, At
  <2>2. ~Changing(x, n) /\ x.name # n
    BY <2>1, ZenonT(60) DEF Changing, Changes, Puts, Completes
  <2>3. versions'[n] = versions[n]
    BY <1>3, <2>2, ZenonT(60) DEF AddVersion, TypeOK
  <2>4. \A i : ~Changing([x EXCEPT !.pc = "meta", !.version = i], n)
    BY <2>1, <2>2, ZenonT(60) DEF Changing, Puts, Completes
  <2>5. \E i : call' = [call EXCEPT ![t] = [x EXCEPT !.pc = "meta", !.version = i]]
    BY <1>3, ZenonT(60) DEF AddVersion
  <2>. QED
    BY <1>3, <2>3, <2>4, <2>5, ZenonT(60) DEF AddVersion
<1>4. CASE StoreMetadata(t)
  <2>1. x \in Puts \cup Completes /\ x.pc = "meta"
    BY <1>0, <1>4, Where, ZenonT(60) DEF StoreMetadata, At
  <2>2. ~Changing(x, n) /\ x.name # n
    BY <2>1, ZenonT(60) DEF Changing, Changes, Puts, Completes
  <2>3. objects'[n] = objects[n]
    BY <1>4, <2>2, ZenonT(60) DEF StoreMetadata, TypeOK
  <2>4. \E y : call' = [call EXCEPT ![t] = y] /\ (y = Idle \/ y.name = x.name)
    BY <1>4, ZenonT(60) DEF StoreMetadata, Finish
  <2>. QED
    BY <1>1, <1>4, <2>2, <2>3, <2>4, ZenonT(60) DEF StoreMetadata, Changing
<1>5. CASE FindVersion(t) \/ ReadObject(t)
  <2>1. \E y : call' = [call EXCEPT ![t] = y] /\ y.op \in {"get", "idle"}
    <3>1. CASE ReadObject(t)
      BY <1>1, <3>1, ZenonT(60) DEF ReadObject, Finish
    <3>2. CASE FindVersion(t)
      BY <1>1, <3>2 DEF FindVersion, Finish
    <3>. QED
      BY <1>5, <3>1, <3>2, ZenonT(60)
  <2>. QED
    BY <1>5, <2>1, ZenonT(60) DEF FindVersion, ReadObject, Changing, Changes
<1>6. CASE AddMarker(t) \/ RemoveMetadata(t) \/ ReclaimSpace(t)
  <2>1. x \in Deletes /\ x.pc \in {"marker", "remove", "reclaim"}
    BY <1>0, <1>6, Where, ZenonT(60) DEF AddMarker, RemoveMetadata, ReclaimSpace, At
  <2>2. ~Changing(x, n) /\ x.name # n
    BY <2>1, ZenonT(60) DEF Changing, Changes, Deletes
  <2>3. pool'[n] = pool[n] /\ objects'[n] = objects[n] /\ versions'[n] = versions[n]
    BY <1>6, <2>2, ZenonT(60) DEF AddMarker, RemoveMetadata, ReclaimSpace, TypeOK
  <2>4. ~Changing([x EXCEPT !.pc = "reclaim"], n)
    BY <2>1, <2>2, ZenonT(60) DEF Changing, Deletes
  <2>5. \E y : call' = [call EXCEPT ![t] = y] /\ y \in {Idle, [x EXCEPT !.pc = "reclaim"]}
    BY <1>6, ZenonT(60) DEF AddMarker, RemoveMetadata, ReclaimSpace, Finish, Goto
  <2>. QED
    BY <1>1, <2>3, <2>4, <2>5, ZenonT(60)
<1>7. CASE RecordPart(t)
  BY <1>1, <1>7, ZenonT(60) DEF RecordPart, Finish
<1>8. CASE ReadPart(t) \/ PutParts(t)
  <2>1. x \in Completes /\ x.pc = "parts"
    BY <1>0, <1>8, Where, ZenonT(60) DEF ReadPart, PutParts, At
  <2>. DEFINE A(todo, d) == [x EXCEPT !.todo = todo, !.data = d]
              B(b) == [x EXCEPT !.pc = "alloc", !.versioned = b]
  <2>2. /\ \A todo, d : A(todo, d).op = x.op /\ A(todo, d).name = x.name /\ A(todo, d).pc = "parts"
        /\ \A b : B(b).op = x.op /\ B(b).name = x.name /\ B(b).pc = "alloc"
    BY <2>1, ZenonT(60) DEF Completes
  <2>3. \/ call' = [call EXCEPT ![t] = Idle]
        \/ \E todo, d : call' = [call EXCEPT ![t] = A(todo, d)]
        \/ \E b : call' = [call EXCEPT ![t] = B(b)]
    BY <1>8, ZenonT(60) DEF ReadPart, PutParts, Finish
  <2>. HIDE DEF A, B
  <2>4. \E y : /\ call' = [call EXCEPT ![t] = y]
               /\ Changing(y, n) => Changing(x, n) /\ ~Moving(y)
    BY <1>1, <2>2, <2>3 DEF Changing, Moving
  <2>. QED
    BY <1>8, <2>4, ZenonT(60) DEF ReadPart, PutParts
<1>9. CASE DropUpload(t)
  <2>1. x \in Sweeps
    BY <1>0, <1>9, Where, ZenonT(60) DEF DropUpload, At
  <2>. DEFINE y == [x EXCEPT !.pc = "sweep"]
  <2>2. y.op = x.op /\ y.name = x.name /\ y.pc = "sweep"
    BY <2>1, ZenonT(60) DEF Sweeps
  <2>3. call' = [call EXCEPT ![t] = y]
    BY <1>9, ZenonT(60) DEF DropUpload, Goto
  <2>. HIDE DEF y
  <2>. QED
    BY <1>9, <2>2, <2>3, ZenonT(60) DEF DropUpload, Changing, Moving
<1>10. CASE ReclaimPart(t)
  <2>1. x \in Sweeps /\ x.pc = "sweep"
    BY <1>0, <1>10, Where, ZenonT(60) DEF ReclaimPart, At
  <2>2. CASE x.todo = {}
    BY <1>1, <1>10, <2>2, ZenonT(60) DEF ReclaimPart, Finish
  <2>3. CASE x.todo # {}
    <3>. DEFINE y == [x EXCEPT !.todo = @ \ {First(x.todo)}]
                id == <<x.upload, First(x.todo)>>
    <3>1. id \in PartIds
      BY <2>1, <2>3, FirstListed, ZenonT(60) DEF Sweeps, PartIds
    <3>2. id # n
      BY <3>1, StoreAssumption, ZenonT(60)
    <3>3. y.op = x.op /\ y.name = x.name /\ y.pc = "sweep"
      BY <2>1, ZenonT(60) DEF Sweeps
    <3>4. call' = [call EXCEPT ![t] = y] /\ pool' = [pool EXCEPT ![id] = None]
      BY <1>10, <2>3, ZenonT(60) DEF ReclaimPart
    <3>. HIDE DEF y, id
    <3>5. pool'[n] = pool[n]
      BY <3>2, <3>4, ZenonT(60) DEF TypeOK
    <3>. QED
      BY <1>10, <3>3, <3>4, <3>5, ZenonT(60) DEF ReclaimPart, Changing, Moving
  <2>. QED
    BY <2>2, <2>3, ZenonT(60)
<1>. QED
  BY <1>2, <1>3, <1>4, <1>5, <1>6, <1>7, <1>8, <1>9, <1>10, ZenonT(60) DEF Step


-----------------------------------------------------------------------------
(* Lists of versions only grow, by a version that is the latest.           *)
LEMMA VersionsGrow ==
  ASSUME TypeOK, [Next]_vars, NEW n \in Names
  PROVE  \/ versions'[n] = versions[n]
         \/ \E v \in Version : v.latest = TRUE /\ versions'[n] = Appended(versions[n], v)
<1>1. ASSUME NEW t \in Tasks, AddVersion(t)
      PROVE  \/ versions'[n] = versions[n]
             \/ \E v \in Version : v.latest = TRUE /\ versions'[n] = Appended(versions[n], v)
  <2>. DEFINE v == [id |-> NewVersion, content |-> call[t].data, latest |-> TRUE,
                    marker |-> FALSE]
  <2>1. call[t] \in Puts \cup Completes
    BY <1>1, Where, Working, ZenonT(60) DEF AddVersion
  <2>2. v \in Version /\ v.latest = TRUE
    BY <2>1, NewVersionType, ZenonT(60) DEF Version, Puts, Completes
  <2>3. versions' = [versions EXCEPT ![call[t].name] = Appended(versions[call[t].name], v)]
    BY <1>1, ZenonT(60) DEF AddVersion
  <2>. HIDE DEF v
  <2>. QED
    BY <2>2, <2>3, ZenonT(60) DEF TypeOK
<1>2. ASSUME NEW t \in Tasks, AddMarker(t)
      PROVE  \/ versions'[n] = versions[n]
             \/ \E v \in Version : v.latest = TRUE /\ versions'[n] = Appended(versions[n], v)
  <2>. DEFINE v == [id |-> NewVersion, content |-> None, latest |-> TRUE, marker |-> TRUE]
  <2>1. v \in Version /\ v.latest = TRUE
    BY NewVersionType, ZenonT(60) DEF Version
  <2>2. versions' = [versions EXCEPT ![call[t].name] = Appended(versions[call[t].name], v)]
    BY <1>2, ZenonT(60) DEF AddMarker
  <2>. HIDE DEF v
  <2>. QED
    BY <2>1, <2>2, ZenonT(60) DEF TypeOK
<1>3. ASSUME NEW t \in Tasks, Request(t)
      PROVE  versions' = versions
  BY <1>3, ZenonT(60) DEF Request, PutObject, GetObject, DeleteObject, UploadPart, CompleteMultipartUpload
<1>4. ASSUME NEW t \in Tasks, Step(t), ~AddVersion(t), ~AddMarker(t)
      PROVE  versions' = versions
  BY <1>4, ZenonT(60) DEF Step, AllocateSpace, WriteWithServices, StoreMetadata, FindVersion, ReadObject,
     RemoveMetadata, ReclaimSpace, RecordPart, ReadPart, PutParts, DropUpload, ReclaimPart
<1>5. ASSUME NEW b \in Buckets, DeleteBucket(b) \/ \E v \in BOOLEAN : CreateBucket(b, v)
      PROVE  versions' = versions
  BY <1>5, ZenonT(60) DEF DeleteBucket, CreateBucket
<1>6. ASSUME NEW u \in Uploads, InitiateMultipartUpload(u)
      PROVE  versions' = versions
  BY <1>6, ZenonT(60) DEF InitiateMultipartUpload
<1>7. CASE UNCHANGED vars
  BY <1>7, ZenonT(60) DEF vars
<1>. QED
  BY <1>1, <1>2, <1>3, <1>4, <1>5, <1>6, <1>7, ZenonT(60) DEF Next

(* Versions are appended only, and appending moves the latest mark.        *)
LEMMA LatestStays ==
  ASSUME TypeOK, OneLatest, [Next]_vars
  PROVE  OneLatest'
<1>. SUFFICES ASSUME NEW n \in Names, NEW k \in 1 .. Len(versions'[n])
              PROVE  versions'[n][k].latest <=> k = Len(versions'[n])
  BY ZenonT(60) DEF OneLatest
<1>1. CASE versions'[n] = versions[n]
  BY <1>1, ZenonT(60) DEF OneLatest
<1>2. ASSUME NEW v \in Version, v.latest = TRUE, versions'[n] = Appended(versions[n], v)
      PROVE  versions'[n][k].latest <=> k = Len(versions'[n])
  <2>. DEFINE vs == versions[n]
              ws == Appended(vs, v)
  <2>1. vs \in Seq(Version)
    BY ZenonT(60) DEF TypeOK
  <2>2. Len(vs) \in Nat
    BY <2>1
  <2>3. /\ Len(ws) = Len(vs) + 1 /\ ws[Len(vs) + 1] = v
        /\ \A j \in 1 .. Len(vs) : ws[j].latest = FALSE
    BY <2>1, AppendedKeeps, ZenonT(60)
  <2>. HIDE DEF vs, ws
  <2>4. CASE k = Len(vs) + 1
    <3>1. versions'[n] = ws
      BY <1>2, ZenonT(60) DEF vs, ws
    <3>2. versions'[n][k] = v /\ k = Len(versions'[n])
      BY <2>3, <2>4, <3>1, ZenonT(60)
    <3>. QED
      BY <1>2, <3>2, ZenonT(60)
  <2>5. CASE k # Len(vs) + 1
    <3>1. k \in 1 .. Len(vs) /\ k # Len(ws) /\ versions'[n] = ws
      BY <1>2, <2>2, <2>3, <2>5 DEF vs, ws
    <3>. QED
      BY <2>3, <3>1, ZenonT(60)
  <2>. QED
    BY <2>4, <2>5, ZenonT(60)
<1>. QED
  BY <1>1, <1>2, VersionsGrow, ZenonT(60)

(* What is listed stays listed.                                            *)
LEMMA ListedStays ==
  ASSUME TypeOK, [Next]_vars, NEW n \in Names, NEW m, Listed(m, versions[n])
  PROVE  Listed(m, versions'[n])
<1>1. CASE versions'[n] = versions[n]
  BY <1>1, ZenonT(60)
<1>2. ASSUME NEW v \in Version, versions'[n] = Appended(versions[n], v)
      PROVE  Listed(m, versions'[n])
  <2>. DEFINE vs == versions[n]
              ws == Appended(vs, v)
  <2>1. vs \in Seq(Version)
    BY ZenonT(60) DEF TypeOK
  <2>2. Len(vs) \in Nat
    BY <2>1
  <2>3. /\ Len(ws) = Len(vs) + 1
        /\ \A j \in 1 .. Len(vs) : ws[j].id = vs[j].id /\ ws[j].content = vs[j].content
    BY <2>1, AppendedKeeps, ZenonT(60)
  <2>. HIDE DEF vs, ws
  <2>4. \A j \in 1 .. Len(vs) : j \in 1 .. Len(ws)
    BY <2>2, <2>3
  <2>5. Listed(m, vs)
    BY ZenonT(60) DEF vs
  <2>6. Listed(m, ws)
    BY <2>3, <2>4, <2>5, ZenonT(60) DEF Listed
  <2>. QED
    BY <1>2, <2>6, ZenonT(60) DEF vs, ws
<1>. QED
  BY <1>1, <1>2, VersionsGrow, ZenonT(60)


(* What fits goes on fitting while others run.                             *)
LEMMA FitsStays ==
  ASSUME TypeOK, [Next]_vars, NEW x \in Calls, Fits(x, versions)
  PROVE  Fits(x, versions')
<1>1. x.op \in {"get", "put", "complete"} => x.name \in Names
  BY DEF Calls, Idle, Puts, Finds, Gets, Deletes, Parts, Completes, Sweeps
<1>. QED
  BY <1>1, ListedStays, ZenonT(60) DEF Fits

(* Requests begin with metadata that is listed, or without a version.      *)
LEMMA RequestFits ==
  ASSUME TypeOK, AllListed, NEW t \in Tasks, Request(t)
  PROVE  AllListed'
<1>1. PICK x \in Calls : Starts(t, x) /\ Fresh(x) /\ UNCHANGED <<objects, versions>>
  BY RequestBegins, ZenonT(60)
<1>2. Fits(x, versions)
  BY <1>1, ZenonT(60) DEF Fits, Fresh, AllListed
<1>3. call'[t] = x /\ \A u \in Tasks \ {t} : call'[u] = call[u]
  BY <1>1, ZenonT(60) DEF Starts, Begin, TypeOK
<1>4. \A u \in Tasks : Fits(call'[u], versions)
  BY <1>2, <1>3, ZenonT(60) DEF AllListed
<1>. QED
  BY <1>1, <1>4, ZenonT(60) DEF AllListed, Fits, Listed, Meta

(* Every lock section keeps metadata among the versions listed.            *)
LEMMA StepFits ==
  ASSUME TypeOK, AllListed, NEW t \in Tasks, Step(t)
  PROVE  AllListed'
<1>. DEFINE x == call[t]
            Goes(y) == call' = [call EXCEPT ![t] = y] /\ Fits(y, versions')
<1>1. \A n \in Names : \A m : Listed(m, versions[n]) => Listed(m, versions'[n])
  BY ListedStays, ZenonT(60) DEF Next
<1>2. \A u \in Tasks : Fits(call[u], versions')
  BY FitsStays, ZenonT(60) DEF Next, AllListed, TypeOK
<1>. SUFFICES /\ \A n \in Names : objects'[n] # None =>
                   objects'[n] = objects[n] \/ Listed(objects'[n], versions'[n])
              /\ \E y : Goes(y)
  <2>1. PICK y : Goes(y)
    BY ZenonT(60)
  <2>2. call'[t] = y /\ \A u \in Tasks \ {t} : call'[u] = call[u]
    BY <2>1, ZenonT(60) DEF TypeOK
  <2>3. \A u \in Tasks : Fits(call'[u], versions')
    BY <1>2, <2>1, <2>2, ZenonT(60)
  <2>4. \A n \in Names : objects'[n] # None => Listed(objects'[n], versions'[n])
    BY <1>1, ZenonT(60) DEF AllListed
  <2>. QED
    BY <2>3, <2>4, ZenonT(60) DEF AllListed, Fits, Listed, Meta
<1>3. Fits(Idle, versions')
  BY ZenonT(60) DEF Fits, Idle
<1>4. x # Idle /\ x \in Calls
  BY Working, ZenonT(60) DEF Step, TypeOK, AllocateSpace, WriteWithServices, AddVersion, StoreMetadata,
     FindVersion, ReadObject, AddMarker, RemoveMetadata, ReclaimSpace, RecordPart, ReadPart,
     PutParts, DropUpload, ReclaimPart
<1>5. CASE AllocateSpace(t) \/ WriteWithServices(t)
  <2>1. x \in Puts \cup Parts \cup Completes /\ x.pc \in {"alloc", "write"}
    BY <1>4, <1>5, Where, ZenonT(60) DEF AllocateSpace, WriteWithServices, At
  <2>2. x.op # "part" => x.version = None
    BY <2>1, ZenonT(60) DEF AllListed, Fits, Puts, Parts, Completes
  <2>3. \A p : Fits([x EXCEPT !.pc = p], versions')
    BY <2>1, <2>2, ZenonT(60) DEF Fits, Listed, Meta, Puts, Parts, Completes
  <2>4. \E p : call' = [call EXCEPT ![t] = [x EXCEPT !.pc = p]]
    BY <1>5, ZenonT(60) DEF AllocateSpace, WriteWithServices, Goto
  <2>. QED
    BY <1>5, <2>3, <2>4, ZenonT(60) DEF AllocateSpace, WriteWithServices
<1>6. CASE AddVersion(t)
  <2>. DEFINE v == [id |-> NewVersion, content |-> x.data, latest |-> TRUE, marker |-> FALSE]
              y == [x EXCEPT !.pc = "meta", !.version = v.id]
              vs == versions[x.name]
              ws == Appended(vs, v)
  <2>1. x \in Puts \cup Completes
    BY <1>4, <1>6, Where, ZenonT(60) DEF AddVersion, At
  <2>2. NewVersion \in Nat \ {0}
    BY NewVersionType, ZenonT(60)
  <2>3. v \in Version /\ vs \in Seq(Version) /\ v.content = x.data /\ x.name \in Names
    BY <2>1, <2>2, ZenonT(60) DEF Version, Puts, Completes, TypeOK
  <2>4. /\ y.op \in {"put", "complete"} /\ y.pc = "meta" /\ y.name = x.name /\ y.data = x.data
        /\ y.version = v.id
    BY <2>1, ZenonT(60) DEF Puts, Completes
  <2>5. call' = [call EXCEPT ![t] = y] /\ versions'[x.name] = ws /\ UNCHANGED objects
    BY <1>6, <2>3, ZenonT(60) DEF AddVersion, TypeOK
  <2>. HIDE DEF y, v, vs
  <2>6. Len(vs) \in Nat
    BY <2>3
  <2>7. Len(ws) = Len(vs) + 1 /\ ws[Len(vs) + 1] = v
    BY <2>3, AppendedKeeps, ZenonT(60)
  <2>. HIDE DEF ws
  <2>8. Len(vs) + 1 \in 1 .. Len(ws)
    BY <2>6, <2>7
  <2>9. Listed(Meta(y), ws)
    BY <2>3, <2>4, <2>7, <2>8, ZenonT(60) DEF Listed, Meta
  <2>10. Fits(y, versions')
    BY <2>4, <2>5, <2>9, ZenonT(60) DEF Fits
  <2>. QED
    BY <2>5, <2>10, ZenonT(60)
<1>7. CASE StoreMetadata(t)
  <2>1. x \in Puts \cup Completes /\ x.pc = "meta"
    BY <1>4, <1>7, Where, ZenonT(60) DEF StoreMetadata, At
  <2>2. x.name \in Names /\ Listed(Meta(x), versions[x.name])
    BY <2>1, ZenonT(60) DEF AllListed, Fits, Puts, Completes
  <2>3. objects' = [objects EXCEPT ![x.name] = Meta(x)] /\ UNCHANGED versions
    BY <1>7, ZenonT(60) DEF StoreMetadata, Meta
  <2>4. \A n \in Names : objects'[n] = objects[n] \/ Listed(objects'[n], versions'[n])
    BY <2>2, <2>3, ZenonT(60) DEF TypeOK
  <2>. DEFINE z == [op |-> "complete", pc |-> "drop", name |-> x.name, upload |-> x.upload,
                    todo |-> x.listed]
  <2>5. call' = [call EXCEPT ![t] = Idle] \/ call' = [call EXCEPT ![t] = z]
    BY <1>7, ZenonT(60) DEF StoreMetadata, Finish
  <2>6. Fits(z, versions')
    BY ZenonT(60) DEF Fits
  <2>. HIDE DEF z
  <2>. QED
    BY <1>3, <2>4, <2>5, <2>6, ZenonT(60)
<1>8. CASE FindVersion(t)
  <2>1. x \in Finds
    BY <1>4, <1>8, Where, ZenonT(60) DEF FindVersion, At
  <2>2. x.name \in Names /\ Listed(x.meta, versions[x.name])
    BY <2>1, ZenonT(60) DEF AllListed, Fits, Finds
  <2>. DEFINE G(m) == [op |-> "get", pc |-> "read", name |-> x.name, meta |-> m]
              vs == versions[x.name]
              M(k) == [content |-> vs[k].content, version |-> vs[k].id]
  <2>3. \A m : Listed(m, vs) => Fits(G(m), versions)
    BY ZenonT(60) DEF Fits
  <2>4. \A k \in 1 .. Len(vs) : Listed(M(k), vs)
    BY ZenonT(60) DEF Listed
  <2>5. UNCHANGED <<objects, versions>>
    BY <1>8, ZenonT(60) DEF FindVersion
  <2>6. \/ call' = [call EXCEPT ![t] = Idle]
        \/ call' = [call EXCEPT ![t] = G(x.meta)]
        \/ \E k \in 1 .. Len(vs) : call' = [call EXCEPT ![t] = G(M(k))]
    BY <1>8, ZenonT(60) DEF FindVersion, Finish
  <2>. HIDE DEF G, M
  <2>. QED
    BY <1>3, <2>2, <2>3, <2>4, <2>5, <2>6, ZenonT(60)
<1>9. CASE ReadObject(t) \/ AddMarker(t) \/ ReclaimSpace(t) \/ RecordPart(t)
  BY <1>3, <1>9, ZenonT(60) DEF ReadObject, AddMarker, ReclaimSpace, RecordPart, Finish
<1>10. CASE RemoveMetadata(t)
  <2>1. x \in Deletes
    BY <1>4, <1>10, Where, ZenonT(60) DEF RemoveMetadata, At
  <2>2. Fits([x EXCEPT !.pc = "reclaim"], versions')
    BY <2>1, ZenonT(60) DEF Deletes, Fits
  <2>3. \A n \in Names : objects'[n] # None => objects'[n] = objects[n]
    BY <1>10, <2>1, ZenonT(60) DEF RemoveMetadata, Deletes, TypeOK
  <2>. QED
    BY <1>3, <1>10, <2>2, <2>3, ZenonT(60) DEF RemoveMetadata, Finish, Goto
<1>11. CASE ReadPart(t) \/ PutParts(t)
  <2>1. x \in Completes /\ x.pc = "parts"
    BY <1>4, <1>11, Where, ZenonT(60) DEF ReadPart, PutParts, At
  <2>2. x.version = None
    BY <2>1, ZenonT(60) DEF AllListed, Fits, Completes
  <2>. DEFINE A(todo, d) == [x EXCEPT !.todo = todo, !.data = d]
              B(b) == [x EXCEPT !.pc = "alloc", !.versioned = b]
  <2>3. /\ \A todo, d : Fits(A(todo, d), versions')
        /\ \A b : Fits(B(b), versions')
    BY <2>1, <2>2, ZenonT(60) DEF Completes, Fits
  <2>4. \/ call' = [call EXCEPT ![t] = Idle]
        \/ \E todo, d : call' = [call EXCEPT ![t] = A(todo, d)]
        \/ \E b : call' = [call EXCEPT ![t] = B(b)]
    BY <1>11, ZenonT(60) DEF ReadPart, PutParts, Finish
  <2>. HIDE DEF A, B
  <2>. QED
    BY <1>3, <1>11, <2>3, <2>4, ZenonT(60) DEF ReadPart, PutParts
<1>12. CASE DropUpload(t) \/ ReclaimPart(t)
  <2>1. x \in Sweeps
    BY <1>4, <1>12, Where, ZenonT(60) DEF DropUpload, ReclaimPart, At
  <2>2. /\ Fits([x EXCEPT !.pc = "sweep"], versions')
        /\ \A todo : Fits([x EXCEPT !.todo = todo], versions')
    BY <2>1, ZenonT(60) DEF Fits, Sweeps
  <2>3. \/ call' = [call EXCEPT ![t] = Idle]
        \/ call' = [call EXCEPT ![t] = [x EXCEPT !.pc = "sweep"]]
        \/ \E todo : call' = [call EXCEPT ![t] = [x EXCEPT !.todo = todo]]
    BY <1>12, ZenonT(60) DEF DropUpload, ReclaimPart, Goto, Finish
  <2>. QED
    BY <1>3, <1>12, <2>2, <2>3, ZenonT(60) DEF DropUpload, ReclaimPart
<1>. QED
  BY <1>5, <1>6, <1>7, <1>8, <1>9, <1>10, <1>11, <1>12, ZenonT(60) DEF Step


-----------------------------------------------------------------------------
(* Every step of every goroutine keeps the invariant.                      *)
LEMMA Inductive ==
  ASSUME IInv, [Next]_vars
  PROVE  IInv'
<1>. USE DEF IInv
<1>1. TypeOK'
  BY NextTyped, ZenonT(60)
<1>2. OneLatest'
  BY LatestStays, ZenonT(60)
<1>3. ASSUME NEW t \in Tasks, Request(t)
      PROVE  AllListed' /\ \A n \in Names \ clash' : Sound(n)'
  <2>1. AllListed'
    BY <1>3, RequestFits, ZenonT(60)
  <2>2. PICK x \in Calls : Starts(t, x) /\ Fresh(x) /\ UNCHANGED <<pool, objects, versions>>
    BY <1>3, RequestBegins, ZenonT(60)
  <2>3. ~Moving(x)
    BY <2>2, ZenonT(60) DEF Fresh, Moving
  <2>4. ASSUME NEW n \in Names \ clash'
        PROVE  Sound(n)'
    BY <2>2, <2>3, BeginSound, ZenonT(60)
  <2>. QED
    BY <2>1, <2>4, ZenonT(60)
<1>4. ASSUME NEW t \in Tasks, Step(t)
      PROVE  AllListed' /\ \A n \in Names \ clash' : Sound(n)'
  <2>1. AllListed'
    BY <1>4, StepFits, ZenonT(60)
  <2>2. clash' = clash
    BY <1>4, ZenonT(60) DEF Step, AllocateSpace, WriteWithServices, AddVersion, StoreMetadata, FindVersion,
       ReadObject, AddMarker, RemoveMetadata, ReclaimSpace, RecordPart, ReadPart, PutParts,
       DropUpload, ReclaimPart
  <2>3. ASSUME NEW n \in Names \ clash'
        PROVE  Sound(n)'
    <3>1. Sound(n)
      BY <2>2, ZenonT(60)
    <3>2. CASE ~Changing(call[t], n) \/ call[t].pc \in {"parts", "drop", "sweep"}
      BY <1>4, <3>1, <3>2, OtherStep, ZenonT(60)
    <3>3. CASE Changing(call[t], n) /\ call[t].pc \notin {"parts", "drop", "sweep"}
      <4>1. call[t] \in Calls /\ call[t].op \in Changes
        BY <3>3, ZenonT(60) DEF TypeOK, Changing
      <4>2. /\ ~FindVersion(t) /\ ~ReadObject(t) /\ ~RecordPart(t) /\ ~ReadPart(t)
            /\ ~PutParts(t) /\ ~DropUpload(t) /\ ~ReclaimPart(t)
        BY <3>3, <4>1, Where, Working, ZenonT(60) DEF FindVersion, ReadObject, RecordPart, ReadPart, PutParts,
           DropUpload, ReclaimPart, Finds, Gets, Parts, Changes
      <4>. QED
        BY <1>4, <3>1, <3>3, <4>2, OwnStep, ZenonT(60) DEF Step
    <3>. QED
      BY <3>2, <3>3, ZenonT(60)
  <2>. QED
    BY <2>1, <2>3, ZenonT(60)
<1>5. ASSUME UNCHANGED <<pool, objects, versions, call, clash>>
      PROVE  AllListed' /\ \A n \in Names \ clash' : Sound(n)'
  <2>1. AllListed'
    BY <1>5, ZenonT(60) DEF AllListed, Fits, Listed, Meta
  <2>2. ASSUME NEW n \in Names \ clash'
        PROVE  Sound(n)'
    BY <1>5, Quiet, ZenonT(60)
  <2>. QED
    BY <2>1, <2>2, ZenonT(60)
<1>. QED
  BY <1>1, <1>2, <1>3, <1>4, <1>5, ZenonT(60) DEF Next, vars, DeleteBucket, CreateBucket,
     InitiateMultipartUpload

(* The invariant holds in every state of every run of the object store.    *)
THEOREM StoreSound == Spec => []IInv
<1>1. Init => IInv
  <2>. SUFFICES ASSUME Init
                PROVE  IInv
    BY ZenonT(60)
  <2>1. TypeOK
    BY DEF Init, TypeOK, Calls
  <2>2. OneLatest
    BY DEF Init, OneLatest
  <2>3. AllListed
    BY ZenonT(60) DEF Init, AllListed, Fits, Idle
  <2>4. \A n \in Names : Sound(n)
    BY ZenonT(60) DEF Init, Sound, Alone, Kept, Stored, Freed, Current, Coming, Changing, Changes, Idle, Want
  <2>. QED
    BY <2>1, <2>2, <2>3, <2>4, ZenonT(60) DEF IInv
<1>2. IInv /\ [Next]_vars => IInv'
  BY Inductive, ZenonT(60)
<1>. QED
  BY <1>1, <1>2, PTL DEF Spec

(* PutObject and DeleteObject mark the earlier versions before they append *)
(* theirs: exactly the newest version of a key is the latest.              *)
THEOREM LatestIsNewest == Spec => []OneLatest
BY StoreSound, PTL DEF IInv

(* GetObject returns the bytes of one put, and those of a version are the  *)
(* ones PutObject listed for it, whatever overlaps with the read.          *)
THEOREM ReadsReturnOnePut == Spec => []ReadsVerified
<1>1. IInv => ReadsVerified
  <2>. SUFFICES ASSUME IInv, NEW t \in Tasks, At(t, "read"), Returns(t)
                PROVE  LET m == call[t].meta
                           vs == versions[call[t].name]
                       IN /\ Bytes(t) = m.content
                          /\ m.version # None =>
                               \E k \in 1 .. Len(vs) : /\ vs[k].id = m.version
                                                       /\ vs[k].content = Bytes(t)
    BY ZenonT(60) DEF ReadsVerified
  <2>1. call[t].op = "get"
    BY Where, Working, ZenonT(60) DEF IInv, Gets
  <2>2. Bytes(t) = call[t].meta.content
    BY ZenonT(60) DEF Returns, Verified
  <2>3. Listed(call[t].meta, versions[call[t].name])
    BY <2>1, ZenonT(60) DEF IInv, AllListed, Fits
  <2>. QED
    BY <2>2, <2>3, ZenonT(60) DEF Listed
<1>. QED
  BY <1>1, StoreSound, PTL

(* When the changes of an object do not overlap, pool and metadata agree   *)
(* between them: PutObject leaves an object that GetObject can read, and   *)
(* DeleteObject leaves nothing in the pool.                                *)
THEOREM ObjectsReadable == Spec => []SettledReadable
<1>1. IInv => SettledReadable
  <2>. SUFFICES ASSUME IInv, NEW n \in Names \ clash, ~Busy(n)
                PROVE  pool[n] = Want(n)
    BY ZenonT(60) DEF SettledReadable, Want
  <2>1. \A t \in Tasks : ~Changing(call[t], n)
    BY SubjectsType, ZenonT(60) DEF Busy, IInv, TypeOK
  <2>. QED
    BY <2>1, ZenonT(60) DEF IInv, Sound, Kept
<1>. QED
  BY <1>1, StoreSound, PTL

(* Likewise the current metadata of a versioned object is that of its      *)
(* newest version which is not a delete marker.                            *)
THEOREM CurrentVersion == Spec => []CurrentIsNewest
<1>1. IInv => CurrentIsNewest
  <2>. SUFFICES ASSUME IInv, NEW n \in Names \ clash, ~Busy(n), objects[n] # None,
                       objects[n].version # None
                PROVE  \E k \in 1 .. Len(versions[n]) :
                         /\ versions[n][k].id = objects[n].version
                         /\ versions[n][k].content = objects[n].content
                         /\ \A j \in k + 1 .. Len(versions[n]) : versions[n][j].marker
    BY ZenonT(60) DEF CurrentIsNewest
  <2>1. \A t \in Tasks : ~Changing(call[t], n)
    BY SubjectsType, ZenonT(60) DEF Busy, IInv, TypeOK
  <2>2. Newest(objects[n], versions[n])
    BY <2>1, ZenonT(60) DEF IInv, Sound, Current
  <2>. QED
    BY <2>2, ZenonT(60) DEF Newest
<1>. QED
  BY <1>1, StoreSound, PTL

-----------------------------------------------------------------------------
(* Multipart uploads.  The parts of a listing that are done are joined in  *)
(* data, each behind the bytes of the lower ones.                          *)
Offset(listed, parts, i) == Cardinality(PartBytes(parts, {j \in listed : j < i}))
Joined(data, listed, done, parts) ==
  /\ IsFiniteSet(PartBytes(parts, done)) /\ Len(data) = Cardinality(PartBytes(parts, done))
  /\ \A i \in done :
       /\ Offset(listed, parts, i) \in Nat
       /\ Offset(listed, parts, i) + Len(parts[i]) <= Len(data)
       /\ \A k \in 1 .. Len(parts[i]) : data[Offset(listed, parts, i) + k] = parts[i][k]

(* The bytes of one more part.                                             *)
LEMMA BytesJoin ==
  ASSUME NEW parts, NEW done, NEW i, i \notin done, parts[i] \in Data,
         IsFiniteSet(PartBytes(parts, done))
  PROVE  /\ IsFiniteSet(PartBytes(parts, done \cup {i}))
         /\ Cardinality(PartBytes(parts, done \cup {i})) =
              Cardinality(PartBytes(parts, done)) + Len(parts[i])
<1>. DEFINE n == Len(parts[i])
            S == PartBytes(parts, done)
            R == {i} \X (1 .. n)
<1>1. n \in Nat
  BY DEF Data
<1>2. PartBytes(parts, done \cup {i}) = S \cup R
  BY ZenonT(60) DEF PartBytes
<1>3. S \cap R = {}
  BY DEF PartBytes
<1>4. IsFiniteSet(R) /\ Cardinality(R) = n
  <2>. HIDE DEF n
  <2>1. 1 \in Int /\ n \in Int
    BY <1>1
  <2>2. IsFiniteSet(1 .. n) /\ Cardinality(1 .. n) = IF 1 > n THEN 0 ELSE n - 1 + 1
    BY ONLY <2>1, FS_Interval, ZenonT(60)
  <2>3. Cardinality(1 .. n) = n
    BY <1>1, <2>2
  <2>4. IsFiniteSet({i}) /\ Cardinality({i}) = 1
    BY FS_Singleton, ZenonT(60)
  <2>5. IsFiniteSet(R) /\ Cardinality(R) = Cardinality({i}) * Cardinality(1 .. n)
    BY <2>2, <2>4, FS_Product, ZenonT(60)
  <2>. QED
    BY <1>1, <2>3, <2>4, <2>5
<1>. HIDE DEF S, R, n
<1>5. /\ IsFiniteSet(S \cup R)
      /\ Cardinality(S \cup R) = Cardinality(S) + Cardinality(R) - Cardinality(S \cap R)
  <2>1. IsFiniteSet(S)
    BY ZenonT(60) DEF S
  <2>. QED
    BY <1>4, <2>1, FS_Union, ZenonT(60)
<1>6. Cardinality(S \cap R) = 0 /\ Cardinality(S) \in Nat
  <2>1. IsFiniteSet(S)
    BY ZenonT(60) DEF S
  <2>. QED
    BY <1>3, <2>1, FS_EmptySet, FS_CardinalityType, ZenonT(60)
<1>7. IsFiniteSet(S \cup R) /\ Cardinality(S \cup R) = Cardinality(S) + n
  BY <1>1, <1>4, <1>5, <1>6
<1>. QED
  BY <1>2, <1>7, ZenonT(60) DEF S, n

(* Reading the next part, all of the lower ones being done, appends it at  *)
(* its place.                                                              *)
LEMMA JoinNext ==
  ASSUME NEW data \in Data, NEW listed, NEW done \in SUBSET listed, NEW parts,
         Joined(data, listed, done, parts), NEW i \in listed \ done, parts[i] \in Data,
         \A j \in done : j < i /\ parts[j] \in Data, \A j \in listed \ done : ~(j < i)
  PROVE  Joined(data \o parts[i], listed, done \cup {i}, parts)
<1>. DEFINE e == data \o parts[i]
            n == Len(parts[i])
            m == Len(data)
<1>1. /\ n \in Nat /\ m \in Nat /\ Len(e) = m + n
      /\ \A k \in 1 .. m : e[k] = data[k]
      /\ \A k \in 1 .. n : e[m + k] = parts[i][k]
  BY DEF Data
<1>2. /\ IsFiniteSet(PartBytes(parts, done)) /\ m = Cardinality(PartBytes(parts, done))
      /\ \A j \in done :
           /\ Offset(listed, parts, j) \in Nat /\ Offset(listed, parts, j) + Len(parts[j]) <= m
           /\ \A k \in 1 .. Len(parts[j]) : data[Offset(listed, parts, j) + k] = parts[j][k]
  BY ZenonT(60) DEF Joined
<1>. HIDE DEF e, m, n
<1>3. {j \in listed : j < i} = done
  BY ZenonT(60)
<1>4. Offset(listed, parts, i) = m
  BY <1>2, <1>3, ZenonT(60) DEF Offset
<1>5. /\ IsFiniteSet(PartBytes(parts, done \cup {i}))
      /\ Cardinality(PartBytes(parts, done \cup {i})) = m + n
  BY <1>2, BytesJoin, ZenonT(60) DEF n
<1>6. ASSUME NEW j \in done
      PROVE  /\ Offset(listed, parts, j) \in Nat
             /\ Offset(listed, parts, j) + Len(parts[j]) <= Len(e)
             /\ \A k \in 1 .. Len(parts[j]) : e[Offset(listed, parts, j) + k] = parts[j][k]
  <2>. DEFINE o == Offset(listed, parts, j)
              l == Len(parts[j])
  <2>1. o \in Nat /\ l \in Nat /\ o + l <= m
    BY <1>2 DEF Data
  <2>2. \A k \in 1 .. l : data[o + k] = parts[j][k]
    BY <1>2, ZenonT(60)
  <2>. HIDE DEF o, l
  <2>3. o + l <= Len(e)
    BY <1>1, <2>1
  <2>4. \A k \in 1 .. l : o + k \in 1 .. m
    BY <1>1, <2>1
  <2>5. \A k \in 1 .. l : e[o + k] = parts[j][k]
    BY <1>1, <2>2, <2>4, ZenonT(60)
  <2>. QED
    BY <2>1, <2>3, <2>5, ZenonT(60) DEF o, l
<1>7. /\ Offset(listed, parts, i) \in Nat
      /\ Offset(listed, parts, i) + Len(parts[i]) <= Len(e)
      /\ \A k \in 1 .. Len(parts[i]) : e[Offset(listed, parts, i) + k] = parts[i][k]
  BY <1>1, <1>4 DEF n
<1>8. Len(e) = Cardinality(PartBytes(parts, done \cup {i}))
  BY <1>1, <1>5, ZenonT(60)
<1>. QED
  BY <1>5, <1>6, <1>7, <1>8, ZenonT(60) DEF Joined, e

(* CompleteMultipartUpload until the object is stored: the listed parts    *)
(* that are not to do are joined, as the upload has them.                  *)
Assembling(x) == x.op = "complete" /\ x.pc \in {"parts", "alloc", "write", "version", "meta"}
Fine(x, ups, cl) == ({x.upload} \X x.listed) \cap cl = {} /\ ups[x.upload] \notin {None, Gone}
Joins(x, ups, cl) ==
  /\ x.todo \subseteq x.listed /\ (x.pc # "parts" => x.todo = {})
  /\ \A i \in x.listed \ x.todo, j \in x.todo : i < j
  /\ Fine(x, ups, cl) =>
       /\ \A i \in x.listed : ups[x.upload][i] \in Data /\ x.size[i] = Len(ups[x.upload][i])
       /\ Joined(x.data, x.listed, x.listed \ x.todo, ups[x.upload])

(* A part whose changes have not overlapped: one request is about it at    *)
(* most, and the pool has what the upload says unless that is changing it. *)
Loading(x, p) == x.op = "part" /\ x.id = p
OnPart(x, p) == Loading(x, p) \/ (x.op = "complete" /\ x.upload = p[1])
OnePart(p) == \A t, u \in Tasks : OnPart(call[t], p) /\ OnPart(call[u], p) => t = u
KeptPart(p) ==
  Open(p[1]) /\ (\A t \in Tasks : Loading(call[t], p) => call[t].pc = "alloc") =>
    pool[p] = uploads[p[1]][p[2]]
LoadedPart(p) ==
  \A t \in Tasks : Loading(call[t], p) /\ call[t].pc = "record" => pool[p] = call[t].data
PartSound(p) == OnePart(p) /\ KeptPart(p) /\ LoadedPart(p)

(* Nothing is there of an upload to come, and one that is swept is gone.   *)
Unborn(u) ==
  uploads[u] = None => /\ \A i \in PartNumbers : pool[<<u, i>>] = None
                       /\ \A t \in Tasks, i \in PartNumbers : ~OnPart(call[t], <<u, i>>)
                       /\ \A t \in Tasks : call[t].op = "complete" => call[t].upload # u
Swept ==
  \A t \in Tasks : call[t].op = "complete" /\ call[t].pc = "sweep" =>
    uploads[call[t].upload] = Gone

PInv == /\ TypeOK /\ Swept /\ \A u \in Uploads : Unborn(u)
        /\ \A p \in PartIds \ clash : PartSound(p)
        /\ \A t \in Tasks : Assembling(call[t]) => Joins(call[t], uploads, clash)

(* Names of parts.                                                         *)
LEMMA PartIdsAre ==
  /\ \A p \in PartIds : p[1] \in Uploads /\ p[2] \in PartNumbers /\ p = <<p[1], p[2]>>
  /\ \A u \in Uploads, i \in PartNumbers :
       <<u, i>> \in PartIds /\ <<u, i>>[1] = u /\ <<u, i>>[2] = i
  /\ \A p \in PartIds : p \notin Names
BY StoreAssumption DEF PartIds

(* A request is about a part exactly when it may clash over it.            *)
LEMMA SubjectParts ==
  ASSUME NEW x \in Calls, NEW p \in PartIds
  PROVE  p \in Subjects(x) <=> OnPart(x, p)
<1>1. p \notin Names /\ p[1] \in Uploads /\ p[2] \in PartNumbers /\ p = <<p[1], p[2]>>
  BY PartIdsAre, ZenonT(60)
<1>2. CASE x = Idle
  BY <1>2, ZenonT(60) DEF Subjects, Idle, Changes, OnPart, Loading
<1>3. CASE x \in Puts \cup Deletes
  BY <1>1, <1>3, ZenonT(60) DEF Subjects, Puts, Deletes, Changes, OnPart, Loading
<1>4. CASE x \in Finds \cup Gets
  BY <1>4, ZenonT(60) DEF Subjects, Finds, Gets, Changes, OnPart, Loading
<1>5. CASE x \in Parts
  BY <1>5, ZenonT(60) DEF Subjects, Parts, Changes, OnPart, Loading
<1>6. CASE x \in Completes \cup Sweeps
  <2>1. x.op = "complete" /\ x.name \in Names /\ x.upload \in Uploads
    BY <1>6, ZenonT(60) DEF Completes, Sweeps
  <2>2. p \in {x.upload} \X PartNumbers <=> p[1] = x.upload
    BY <1>1, ZenonT(60)
  <2>. QED
    BY <1>1, <2>1, <2>2, ZenonT(60) DEF Subjects, Changes, OnPart, Loading
<1>. QED
  BY <1>2, <1>3, <1>4, <1>5, <1>6, ZenonT(60) DEF Calls

(* A step of t that changes neither uploads nor parts, whose request is no *)
(* part upload and turns into y, which is about no part that it was not    *)
(* about before.                                                           *)
LEMMA PartsQuiet ==
  ASSUME PInv, TypeOK', NEW t \in Tasks, NEW y, call' = [call EXCEPT ![t] = y],
         clash' = clash, uploads' = uploads, \A p \in PartIds : pool'[p] = pool[p],
         call[t].op # "part", y.op # "part",
         y.op = "complete" => call[t].op = "complete" /\ y.upload = call[t].upload,
         y.op = "complete" => y.pc # "sweep",
         Assembling(y) => Joins(y, uploads, clash)
  PROVE  PInv'
<1>1. call'[t] = y /\ \A v \in Tasks : v # t => call'[v] = call[v]
  BY ZenonT(60) DEF PInv, TypeOK
<1>2. Swept'
  BY <1>1, ZenonT(60) DEF PInv, Swept
<1>3. \A v \in Tasks, p \in PartIds :
        /\ OnPart(call'[v], p) => OnPart(call[v], p)
        /\ Loading(call'[v], p) <=> Loading(call[v], p)
        /\ Loading(call[v], p) => call'[v] = call[v]
  BY <1>1, ZenonT(60) DEF OnPart, Loading
<1>4. ASSUME NEW u \in Uploads
      PROVE  Unborn(u)'
  <2>. SUFFICES ASSUME uploads[u] = None
                PROVE  /\ \A i \in PartNumbers : pool'[<<u, i>>] = None
                       /\ \A v \in Tasks, i \in PartNumbers : ~OnPart(call'[v], <<u, i>>)
                       /\ \A v \in Tasks : call'[v].op = "complete" => call'[v].upload # u
    BY ZenonT(60) DEF Unborn, OnPart, Loading
  <2>1. /\ \A i \in PartNumbers : pool[<<u, i>>] = None
        /\ \A v \in Tasks, i \in PartNumbers : ~OnPart(call[v], <<u, i>>)
        /\ \A v \in Tasks : call[v].op = "complete" => call[v].upload # u
    BY ZenonT(60) DEF PInv, Unborn
  <2>2. \A i \in PartNumbers : <<u, i>> \in PartIds
    BY PartIdsAre, ZenonT(60)
  <2>3. \A i \in PartNumbers : pool'[<<u, i>>] = None
    BY <2>1, <2>2, ZenonT(60)
  <2>4. \A v \in Tasks, i \in PartNumbers : ~OnPart(call'[v], <<u, i>>)
    BY <1>3, <2>1, <2>2, ZenonT(60)
  <2>5. ASSUME NEW v \in Tasks, call'[v].op = "complete"
        PROVE  call'[v].upload # u
    <3>1. CASE v = t
      <4>1. y.op = "complete" /\ call'[v] = y
        BY <1>1, <2>5, <3>1, ZenonT(60)
      <4>. QED
        BY <2>1, <4>1, ZenonT(60)
    <3>2. CASE v # t
      BY <1>1, <2>1, <2>5, <3>2, ZenonT(60)
    <3>. QED
      BY <3>1, <3>2, ZenonT(60)
  <2>. QED
    BY <2>3, <2>4, <2>5, ZenonT(60)
<1>5. ASSUME NEW p \in PartIds \ clash
      PROVE  PartSound(p)'
  <2>1. OnePart(p) /\ KeptPart(p) /\ LoadedPart(p)
    BY ZenonT(60) DEF PInv, PartSound
  <2>2. OnePart(p)'
    BY <1>3, <2>1, ZenonT(60) DEF OnePart
  <2>3. KeptPart(p)'
    BY <1>3, <2>1, ZenonT(60) DEF KeptPart, Open
  <2>4. LoadedPart(p)'
    BY <1>3, <2>1, ZenonT(60) DEF LoadedPart
  <2>. QED
    BY <2>2, <2>3, <2>4, ZenonT(60) DEF PartSound
<1>6. ASSUME NEW v \in Tasks, Assembling(call'[v])
      PROVE  Joins(call'[v], uploads, clash)
  BY <1>1, <1>6, ZenonT(60) DEF PInv
<1>7. \A v \in Tasks : Assembling(call[v])' => Joins(call[v], uploads, clash)'
  BY <1>6, ZenonT(60)
<1>. QED
  BY <1>2, <1>4, <1>5, <1>7, ZenonT(60) DEF PInv
(* Only the listed parts of an upload matter to what is joined.            *)
LEMMA JoinedSame ==
  ASSUME NEW data, NEW listed, NEW done \in SUBSET listed, NEW parts, NEW parts2,
         \A i \in listed : parts2[i] = parts[i], Joined(data, listed, done, parts)
  PROVE  Joined(data, listed, done, parts2)
<1>1. \A s \in SUBSET listed : PartBytes(parts2, s) = PartBytes(parts, s)
  BY DEF PartBytes
<1>2. PartBytes(parts2, done) = PartBytes(parts, done)
  BY <1>1, ZenonT(60)
<1>3. \A i : {j \in listed : j < i} \in SUBSET listed
  BY ZenonT(60)
<1>4. \A i : Offset(listed, parts2, i) = Offset(listed, parts, i)
  BY <1>1, <1>3, ZenonT(60) DEF Offset
<1>5. \A i \in done : parts2[i] = parts[i]
  BY ZenonT(60)
<1>. QED
  BY <1>2, <1>4, <1>5 DEF Joined

(* The parts of a request stay joined when its listed parts are the same,  *)
(* and when more parts clash.                                              *)
LEMMA JoinsKept ==
  ASSUME NEW x, NEW ups, NEW cl, NEW ups2, NEW cl2, Joins(x, ups, cl), cl \subseteq cl2,
         Fine(x, ups2, cl2) => /\ ups[x.upload] \notin {None, Gone}
                               /\ \A i \in x.listed : ups2[x.upload][i] = ups[x.upload][i]
  PROVE  Joins(x, ups2, cl2)
<1>1. /\ x.todo \subseteq x.listed /\ (x.pc # "parts" => x.todo = {})
      /\ \A i \in x.listed \ x.todo, j \in x.todo : i < j
  BY ZenonT(60) DEF Joins
<1>2. ASSUME Fine(x, ups2, cl2)
      PROVE  /\ \A i \in x.listed : ups2[x.upload][i] \in Data
                                    /\ x.size[i] = Len(ups2[x.upload][i])
             /\ Joined(x.data, x.listed, x.listed \ x.todo, ups2[x.upload])
  <2>1. Fine(x, ups, cl)
    BY <1>2, ZenonT(60) DEF Fine
  <2>2. /\ \A i \in x.listed : ups[x.upload][i] \in Data
                               /\ x.size[i] = Len(ups[x.upload][i])
        /\ Joined(x.data, x.listed, x.listed \ x.todo, ups[x.upload])
    BY <2>1, ZenonT(60) DEF Joins
  <2>3. \A i \in x.listed : ups2[x.upload][i] = ups[x.upload][i]
    BY <1>2, ZenonT(60)
  <2>4. x.listed \ x.todo \in SUBSET x.listed
    BY ZenonT(60)
  <2>5. Joined(x.data, x.listed, x.listed \ x.todo, ups2[x.upload])
    BY <2>2, <2>3, <2>4, JoinedSame, ZenonT(60)
  <2>. QED
    BY <2>2, <2>3, <2>5, ZenonT(60)
<1>. QED
  BY <1>1, <1>2, ZenonT(60) DEF Joins

(* A request begins with none of its parts read.                           *)
LEMMA JoinsBegin ==
  ASSUME NEW x \in Calls, Fresh(x), NEW cl, x.op = "complete"
  PROVE  Joins(x, uploads, cl)
<1>1. /\ x.pc = "parts" /\ x.todo = x.listed /\ x.data = <<>>
      /\ \A i \in x.listed : uploads[x.upload][i] \in Data
                             /\ x.size[i] = Len(uploads[x.upload][i])
  BY ZenonT(60) DEF Fresh
<1>2. x.listed \ x.todo = {}
  BY <1>1, ZenonT(60)
<1>3. PartBytes(uploads[x.upload], {}) = {}
  BY ZenonT(60) DEF PartBytes
<1>4. Joined(<<>>, x.listed, {}, uploads[x.upload])
  BY <1>3, FS_EmptySet, ZenonT(60) DEF Joined
<1>. QED
  BY <1>1, <1>2, <1>4, ZenonT(60) DEF Joins

(* A request that begins is alone on the parts that do not clash.          *)
LEMMA PartsBegin ==
  ASSUME PInv, TypeOK', NEW t \in Tasks, NEW x \in Calls, Starts(t, x), Fresh(x),
         UNCHANGED <<pool, uploads>>
  PROVE  PInv'
<1>1. /\ call[t] = Idle /\ call'[t] = x /\ \A v \in Tasks : v # t => call'[v] = call[v]
      /\ clash' = clash \cup UNION {Subjects(x) \cap Subjects(call[u]) : u \in Tasks}
  BY ZenonT(60) DEF PInv, TypeOK, Starts, Begin
<1>2. Swept'
  BY <1>1, ZenonT(60) DEF PInv, Swept, Fresh
<1>3. \A p : ~OnPart(call[t], p) /\ ~Loading(call[t], p)
  BY <1>1 DEF Idle, OnPart, Loading
<1>4. ASSUME NEW p \in PartIds
      PROVE  OnPart(x, p) => Open(p[1])
  BY ZenonT(60) DEF Fresh, OnPart, Loading
<1>5. ASSUME NEW u \in Uploads
      PROVE  Unborn(u)'
  <2>. SUFFICES ASSUME uploads[u] = None
                PROVE  /\ \A i \in PartNumbers : pool'[<<u, i>>] = None
                       /\ \A v \in Tasks, i \in PartNumbers : ~OnPart(call'[v], <<u, i>>)
                       /\ \A v \in Tasks : call'[v].op = "complete" => call'[v].upload # u
    BY ZenonT(60) DEF Unborn, OnPart, Loading
  <2>1. Unborn(u)
    BY ZenonT(60) DEF PInv
  <2>2. \A i \in PartNumbers : ~OnPart(x, <<u, i>>)
    BY <1>4, PartIdsAre, ZenonT(60) DEF Open
  <2>3. x.op = "complete" => x.upload # u
    BY ZenonT(60) DEF Fresh, Open
  <2>. QED
    BY <1>1, <2>1, <2>2, <2>3, ZenonT(60) DEF Unborn
<1>6. ASSUME NEW p \in PartIds \ clash'
      PROVE  PartSound(p)'
  <2>1. OnePart(p) /\ KeptPart(p) /\ LoadedPart(p)
    BY <1>1, ZenonT(60) DEF PInv, PartSound
  <2>2. ASSUME NEW v \in Tasks, OnPart(x, p)
        PROVE  ~OnPart(call[v], p)
    <3>. SUFFICES ASSUME OnPart(call[v], p)
                  PROVE  FALSE
      BY ZenonT(60)
    <3>1. call[v] \in Calls
      BY ZenonT(60) DEF PInv, TypeOK
    <3>2. p \in Subjects(x) \cap Subjects(call[v])
      BY <2>2, <3>1, SubjectParts, ZenonT(60)
    <3>. QED
      BY <1>1, <3>2, ZenonT(60)
  <2>3. OnePart(p)'
    BY <1>1, <1>3, <2>1, <2>2, ZenonT(60) DEF OnePart, OnPart, Loading
  <2>4. \A v \in Tasks : Loading(call'[v], p) => \/ call'[v].pc = "alloc"
                                                 \/ v # t /\ Loading(call[v], p)
    BY <1>1, ZenonT(60) DEF Fresh, Loading
  <2>5. \A v \in Tasks : Loading(call[v], p) => v # t /\ Loading(call'[v], p)
    BY <1>1, <1>3, ZenonT(60)
  <2>6. KeptPart(p)'
    BY <1>1, <2>1, <2>5, ZenonT(60) DEF KeptPart, Open, Loading
  <2>7. LoadedPart(p)'
    BY <1>1, <2>1, <2>4, ZenonT(60) DEF LoadedPart, Loading
  <2>. QED
    BY <2>3, <2>6, <2>7, ZenonT(60) DEF PartSound
<1>7. ASSUME NEW v \in Tasks, Assembling(call'[v])
      PROVE  Joins(call'[v], uploads, clash')
  <2>1. CASE v = t
    BY <1>1, <1>7, <2>1, JoinsBegin, ZenonT(60) DEF Assembling
  <2>2. CASE v # t
    <3>1. Joins(call[v], uploads, clash) /\ clash \subseteq clash' /\ call'[v] = call[v]
      BY <1>1, <1>7, <2>2, ZenonT(60) DEF PInv
    <3>2. Fine(call[v], uploads, clash') => uploads[call[v].upload] \notin {None, Gone}
      BY ZenonT(60) DEF Fine
    <3>. QED
      BY <3>1, <3>2, JoinsKept, ZenonT(60)
  <2>. QED
    BY <2>1, <2>2, ZenonT(60)
<1>8. \A v \in Tasks : Assembling(call[v])' => Joins(call[v], uploads, clash)'
  BY <1>7, ZenonT(60)
<1>. QED
  BY <1>2, <1>5, <1>6, <1>8, ZenonT(60) DEF PInv
(* A request that joins parts is of its kind.                              *)
LEMMA AssemblingType ==
  ASSUME TypeOK, NEW t \in Tasks, Assembling(call[t])
  PROVE  /\ call[t] \in Completes /\ call[t].upload \in Uploads
         /\ call[t].listed \subseteq PartNumbers
<1>1. call[t] \in Calls /\ call[t].op = "complete" /\ call[t].pc \notin {"drop", "sweep"}
  BY ZenonT(60) DEF TypeOK, Assembling
<1>. QED
  BY <1>1, CompleteType, ZenonT(60)

(* A step of t, which uploads the part p: it changes p only, in the pool   *)
(* and in the upload, and the two agree on it when it is done.             *)
LEMMA PartStep ==
  ASSUME PInv, TypeOK', NEW t \in Tasks, NEW p \in PartIds, Loading(call[t], p), NEW y,
         call' = [call EXCEPT ![t] = y], y = Idle \/ (Loading(y, p) /\ y.pc # "alloc"),
         clash' = clash, \A q \in PartIds : q # p => pool'[q] = pool[q],
         \A u \in Uploads : /\ uploads'[u] = None <=> uploads[u] = None
                            /\ uploads'[u] = Gone <=> uploads[u] = Gone,
         \A q \in PartIds : q # p /\ Open(q[1]) => uploads'[q[1]][q[2]] = uploads[q[1]][q[2]],
         y = Idle /\ p \notin clash /\ Open(p[1]) => pool'[p] = uploads'[p[1]][p[2]],
         y # Idle /\ y.pc = "record" => pool'[p] = y.data
  PROVE  PInv'
<1>1. call'[t] = y /\ \A v \in Tasks : v # t => call'[v] = call[v]
  BY ZenonT(60) DEF PInv, TypeOK
<1>2. call[t].op = "part" /\ call[t].id = p /\ (y.op = "idle" \/ (y.op = "part" /\ y.id = p))
  BY DEF Loading, Idle
<1>3. p[1] \in Uploads /\ p[2] \in PartNumbers /\ p = <<p[1], p[2]>>
  BY PartIdsAre, ZenonT(60)
<1>4. \A v \in Tasks : call'[v].op = "complete" => call'[v] = call[v]
  BY <1>1, <1>2, ZenonT(60)
<1>5. \A v \in Tasks : call'[v].op = "complete" => call'[v].upload \in Uploads
  BY UploadType, ZenonT(60) DEF TypeOK
<1>6. Swept'
  BY <1>4, <1>5, ZenonT(60) DEF PInv, Swept
<1>7. ASSUME NEW v \in Tasks, NEW q \in PartIds, OnPart(call'[v], q)
      PROVE  OnPart(call[v], q)
  <2>1. CASE v = t
    <3>1. OnPart(y, q)
      BY <1>1, <1>7, <2>1, ZenonT(60)
    <3>2. q = p
      BY ONLY <1>2, <3>1 DEF OnPart, Loading
    <3>. QED
      BY <2>1, <3>2, ZenonT(60) DEF OnPart
  <2>2. CASE v # t
    BY <1>1, <1>7, <2>2, ZenonT(60)
  <2>. QED
    BY <2>1, <2>2, ZenonT(60)
<1>8. ASSUME NEW u \in Uploads
      PROVE  Unborn(u)'
  <2>. SUFFICES ASSUME uploads[u] = None
                PROVE  /\ \A i \in PartNumbers : pool'[<<u, i>>] = None
                       /\ \A v \in Tasks, i \in PartNumbers : ~OnPart(call'[v], <<u, i>>)
                       /\ \A v \in Tasks : call'[v].op = "complete" => call'[v].upload # u
    BY ZenonT(60) DEF Unborn, OnPart, Loading
  <2>1. /\ \A i \in PartNumbers : pool[<<u, i>>] = None
        /\ \A v \in Tasks, i \in PartNumbers : ~OnPart(call[v], <<u, i>>)
        /\ \A v \in Tasks : call[v].op = "complete" => call[v].upload # u
    BY ZenonT(60) DEF PInv, Unborn
  <2>2. \A i \in PartNumbers : <<u, i>> # p
    BY <2>1, ZenonT(60) DEF OnPart
  <2>3. \A i \in PartNumbers : pool'[<<u, i>>] = None
    BY <2>1, <2>2, PartIdsAre, ZenonT(60)
  <2>. QED
    BY <1>4, <1>7, <2>1, <2>3, PartIdsAre, ZenonT(60)
<1>9. ASSUME NEW q \in PartIds \ clash
      PROVE  PartSound(q)'
  <2>1. OnePart(q) /\ KeptPart(q) /\ LoadedPart(q)
    BY ZenonT(60) DEF PInv, PartSound
  <2>2. OnePart(q)'
    BY <1>7, <2>1, ZenonT(60) DEF OnePart, OnPart, Loading
  <2>3. Open(q[1])' <=> Open(q[1])
    BY PartIdsAre, ZenonT(60) DEF Open
  <2>4. CASE q = p
    <3>1. \A v \in Tasks : Loading(call'[v], p) => v = t
      BY <1>7, <2>1, <2>4, ZenonT(60) DEF OnePart, OnPart
    <3>2. KeptPart(p)'
      <4>1. CASE y = Idle
        BY <2>3, <2>4, <4>1, ZenonT(60) DEF KeptPart
      <4>2. CASE Loading(y, p) /\ y.pc # "alloc"
        BY <1>1, <4>2, ZenonT(60) DEF KeptPart, Loading
      <4>. QED
        BY <4>1, <4>2, ZenonT(60)
    <3>3. LoadedPart(p)'
      <4>. SUFFICES ASSUME NEW v \in Tasks, Loading(call'[v], p), call'[v].pc = "record"
                    PROVE  pool'[p] = call'[v].data
        BY ZenonT(60) DEF LoadedPart
      <4>1. call'[v] = y
        BY <1>1, <3>1, ZenonT(60)
      <4>2. y # Idle
        <5>1. y.op = "part"
          BY <4>1, ZenonT(60) DEF Loading
        <5>. QED
          BY ONLY <5>1 DEF Idle
      <4>. QED
        BY <4>1, <4>2, ZenonT(60)
    <3>. QED
      BY <2>2, <2>4, <3>2, <3>3, ZenonT(60) DEF PartSound
  <2>5. CASE q # p
    <3>1. \A v \in Tasks : /\ Loading(call'[v], q) <=> Loading(call[v], q)
                           /\ Loading(call[v], q) => call'[v] = call[v]
      BY <1>1, <1>2, <2>5, ZenonT(60) DEF Loading
    <3>2. KeptPart(q)'
      BY <2>1, <2>3, <2>5, <3>1, ZenonT(60) DEF KeptPart
    <3>3. LoadedPart(q)'
      BY <2>1, <2>5, <3>1, ZenonT(60) DEF LoadedPart, Loading
    <3>. QED
      BY <2>2, <3>2, <3>3, ZenonT(60) DEF PartSound
  <2>. QED
    BY <2>4, <2>5, ZenonT(60)
<1>10. ASSUME NEW v \in Tasks, Assembling(call'[v])
       PROVE  Joins(call'[v], uploads', clash')
  <2>1. call'[v] = call[v] /\ call[v].op = "complete" /\ call[v].upload \in Uploads
    BY <1>4, <1>5, <1>10, ZenonT(60) DEF Assembling
  <2>2. Joins(call[v], uploads, clash)
    BY <1>10, <2>1, ZenonT(60) DEF PInv
  <2>3. v # t
    BY <1>2, <2>1, ZenonT(60)
  <2>. DEFINE x == call[v]
  <2>4. x.listed \subseteq PartNumbers
    BY <1>10, <2>1, AssemblingType, ZenonT(60) DEF PInv
  <2>5. ASSUME Fine(x, uploads', clash'), NEW i \in x.listed
        PROVE  uploads'[x.upload][i] = uploads[x.upload][i]
    <3>. DEFINE q == <<x.upload, i>>
    <3>1. q \in PartIds /\ q[1] = x.upload /\ q[2] = i /\ q \notin clash
      BY <2>1, <2>4, <2>5, PartIdsAre, ZenonT(60) DEF Fine
    <3>2. OnPart(x, q) /\ OnePart(q)
      BY <2>1, <3>1, ZenonT(60) DEF OnPart, PInv, PartSound
    <3>3. q # p
      BY <2>3, <3>2, ZenonT(60) DEF OnePart, OnPart
    <3>4. Open(x.upload)
      BY <2>1, <2>5, ZenonT(60) DEF Fine, Open
    <3>. QED
      BY <3>1, <3>3, <3>4, ZenonT(60)
  <2>6. Fine(x, uploads', clash') => uploads[x.upload] \notin {None, Gone}
    BY <2>1, ZenonT(60) DEF Fine
  <2>. HIDE DEF x
  <2>7. Joins(x, uploads', clash')
    BY <2>2, <2>5, <2>6, JoinsKept, ZenonT(60) DEF x
  <2>. QED
    BY <2>1, <2>7, ZenonT(60) DEF x
<1>11. \A v \in Tasks : Assembling(call[v])' => Joins(call[v], uploads, clash)'
  BY <1>10, ZenonT(60)
<1>. QED
  BY <1>6, <1>8, <1>9, <1>11, ZenonT(60) DEF PInv
(* InitiateMultipartUpload: nothing of the upload was there.               *)
LEMMA PartsInitiate ==
  ASSUME PInv, TypeOK', NEW u \in Uploads, InitiateMultipartUpload(u)
  PROVE  PInv'
<1>. DEFINE new == [i \in PartNumbers |-> None]
<1>1. /\ uploads[u] = None /\ uploads'[u] = new /\ new \notin {None, Gone}
      /\ \A w \in Uploads : w # u => uploads'[w] = uploads[w]
      /\ UNCHANGED <<pool, call, clash>>
  <2>1. /\ uploads[u] = None /\ uploads' = [uploads EXCEPT ![u] = new]
        /\ UNCHANGED <<pool, call, clash>>
    BY ZenonT(60) DEF InitiateMultipartUpload
  <2>2. new \in [PartNumbers -> {None} \cup Data]
    BY ZenonT(60)
  <2>. HIDE DEF new
  <2>3. new \notin {None, Gone}
    BY <2>2, StoreAssumption, ZenonT(60)
  <2>4. uploads'[u] = new /\ \A w \in Uploads : w # u => uploads'[w] = uploads[w]
    BY <2>1, ZenonT(60) DEF PInv, TypeOK
  <2>. QED
    BY <2>1, <2>3, <2>4, ZenonT(60)
<1>2. /\ \A i \in PartNumbers : pool[<<u, i>>] = None
      /\ \A v \in Tasks, i \in PartNumbers : ~OnPart(call[v], <<u, i>>)
      /\ \A v \in Tasks : call[v].op = "complete" => call[v].upload # u
  BY <1>1, ZenonT(60) DEF PInv, Unborn
<1>3. \A v \in Tasks : call[v].op = "complete" => call[v].upload \in Uploads
  BY UploadType, ZenonT(60) DEF PInv, TypeOK
<1>4. Swept'
  BY <1>1, <1>2, <1>3, ZenonT(60) DEF PInv, Swept
<1>5. ASSUME NEW w \in Uploads
      PROVE  Unborn(w)'
  <2>1. Unborn(w)
    BY ZenonT(60) DEF PInv
  <2>. QED
    BY <1>1, <2>1, ZenonT(60) DEF Unborn, OnPart, Loading
<1>6. ASSUME NEW p \in PartIds \ clash
      PROVE  PartSound(p)'
  <2>1. OnePart(p) /\ KeptPart(p) /\ LoadedPart(p)
    BY ZenonT(60) DEF PInv, PartSound
  <2>2. OnePart(p)' /\ LoadedPart(p)'
    BY <1>1, <2>1, ZenonT(60) DEF OnePart, LoadedPart, OnPart, Loading
  <2>3. p[1] \in Uploads /\ p[2] \in PartNumbers /\ p = <<p[1], p[2]>>
    BY PartIdsAre, ZenonT(60)
  <2>4. CASE p[1] = u
    <3>1. pool[p] = None /\ uploads'[p[1]][p[2]] = None
      BY <1>1, <1>2, <2>3, <2>4, ZenonT(60)
    <3>. QED
      BY <1>1, <2>2, <3>1, ZenonT(60) DEF PartSound, KeptPart
  <2>5. CASE p[1] # u
    <3>1. uploads'[p[1]] = uploads[p[1]]
      BY <1>1, <2>3, <2>5, ZenonT(60)
    <3>. QED
      BY <1>1, <2>1, <2>2, <3>1, ZenonT(60) DEF PartSound, KeptPart, Open, Loading
  <2>. QED
    BY <2>4, <2>5, ZenonT(60)
<1>7. ASSUME NEW v \in Tasks, Assembling(call[v])
      PROVE  Joins(call[v], uploads', clash')
  <2>1. uploads'[call[v].upload] = uploads[call[v].upload] /\ clash \subseteq clash'
    BY <1>1, <1>2, <1>3, <1>7, ZenonT(60) DEF Assembling
  <2>2. Joins(call[v], uploads, clash)
    BY <1>7, ZenonT(60) DEF PInv
  <2>3. Fine(call[v], uploads', clash') =>
          /\ uploads[call[v].upload] \notin {None, Gone}
          /\ \A i \in call[v].listed : uploads'[call[v].upload][i] = uploads[call[v].upload][i]
    BY <2>1, ZenonT(60) DEF Fine
  <2>. QED
    BY <2>1, <2>2, <2>3, JoinsKept, ZenonT(60)
<1>8. \A v \in Tasks : Assembling(call[v])' => Joins(call[v], uploads, clash)'
  BY <1>1, <1>7, ZenonT(60)
<1>. QED
  BY <1>1, <1>4, <1>5, <1>6, <1>8, ZenonT(60) DEF PInv

(* CompleteMultipartUpload drops the upload: what is about it no more      *)
(* needs its parts.                                                        *)
LEMMA PartsDrop ==
  ASSUME PInv, TypeOK', NEW t \in Tasks, DropUpload(t)
  PROVE  PInv'
<1>. DEFINE u == call[t].upload
            y == [call[t] EXCEPT !.pc = "sweep"]
<1>1. call[t] \in Sweeps
  BY Where, Working, ZenonT(60) DEF PInv, DropUpload
<1>2. /\ u \in Uploads /\ call[t].op = "complete" /\ call[t].pc \notin {"parts", "sweep"}
      /\ y.op = "complete" /\ y.pc = "sweep" /\ y.upload = u
  BY <1>1, ZenonT(60) DEF Sweeps, DropUpload, At
<1>3. /\ uploads'[u] = Gone /\ \A w \in Uploads : w # u => uploads'[w] = uploads[w]
      /\ call'[t] = y /\ \A v \in Tasks : v # t => call'[v] = call[v]
      /\ UNCHANGED <<pool, clash>>
  BY <1>2, ZenonT(60) DEF DropUpload, Goto, PInv, TypeOK
<1>. HIDE DEF u, y
<1>4. \A v \in Tasks : call[v].op = "complete" => call[v].upload \in Uploads
  BY UploadType, ZenonT(60) DEF PInv, TypeOK
<1>5. Swept'
  BY <1>2, <1>3, <1>4, ZenonT(60) DEF PInv, Swept
<1>6. \A v \in Tasks, p \in PartIds :
        /\ OnPart(call'[v], p) <=> OnPart(call[v], p)
        /\ Loading(call'[v], p) <=> Loading(call[v], p)
        /\ Loading(call[v], p) => call'[v] = call[v]
  BY <1>2, <1>3, ZenonT(60) DEF OnPart, Loading, u
<1>7. ASSUME NEW w \in Uploads
      PROVE  Unborn(w)'
  <2>. SUFFICES ASSUME uploads'[w] = None
                PROVE  /\ \A i \in PartNumbers : pool'[<<w, i>>] = None
                       /\ \A v \in Tasks, i \in PartNumbers : ~OnPart(call'[v], <<w, i>>)
                       /\ \A v \in Tasks : call'[v].op = "complete" => call'[v].upload # w
    BY ZenonT(60) DEF Unborn, OnPart, Loading
  <2>1. w # u /\ uploads[w] = None
    BY <1>3, StoreAssumption, ZenonT(60)
  <2>2. /\ \A i \in PartNumbers : pool[<<w, i>>] = None
        /\ \A v \in Tasks, i \in PartNumbers : ~OnPart(call[v], <<w, i>>)
        /\ \A v \in Tasks : call[v].op = "complete" => call[v].upload # w
    BY <2>1, ZenonT(60) DEF PInv, Unborn
  <2>3. \A i \in PartNumbers : <<w, i>> \in PartIds
    BY PartIdsAre, ZenonT(60)
  <2>4. \A i \in PartNumbers : pool'[<<w, i>>] = None
    BY <1>3, <2>2, ZenonT(60)
  <2>5. \A v \in Tasks, i \in PartNumbers : ~OnPart(call'[v], <<w, i>>)
    BY <1>6, <2>2, <2>3, ZenonT(60)
  <2>6. \A v \in Tasks : call'[v].op = "complete" => call'[v].upload # w
    BY <1>2, <1>3, <2>1, <2>2, ZenonT(60)
  <2>. QED
    BY <2>4, <2>5, <2>6, ZenonT(60)
<1>8. ASSUME NEW p \in PartIds \ clash
      PROVE  PartSound(p)'
  <2>1. OnePart(p) /\ KeptPart(p) /\ LoadedPart(p)
    BY ZenonT(60) DEF PInv, PartSound
  <2>2. OnePart(p)' /\ LoadedPart(p)'
    BY <1>3, <1>6, <2>1, ZenonT(60) DEF OnePart, LoadedPart
  <2>3. Open(p[1])' => uploads'[p[1]] = uploads[p[1]]
    BY <1>3, PartIdsAre, ZenonT(60) DEF Open
  <2>4. KeptPart(p)'
    BY <1>3, <1>6, <2>1, <2>3, ZenonT(60) DEF KeptPart, Open, Loading
  <2>. QED
    BY <2>2, <2>4, ZenonT(60) DEF PartSound
<1>9. ASSUME NEW v \in Tasks, Assembling(call'[v])
      PROVE  Joins(call'[v], uploads', clash')
  <2>1. v # t /\ call'[v] = call[v] /\ call[v].upload \in Uploads
    BY <1>2, <1>3, <1>4, <1>9, ZenonT(60) DEF Assembling
  <2>2. Joins(call[v], uploads, clash) /\ clash \subseteq clash'
    BY <1>3, <1>9, <2>1, ZenonT(60) DEF PInv
  <2>3. Fine(call[v], uploads', clash') => uploads'[call[v].upload] = uploads[call[v].upload]
    BY <1>3, <2>1, ZenonT(60) DEF Fine
  <2>4. Fine(call[v], uploads', clash') =>
          /\ uploads[call[v].upload] \notin {None, Gone}
          /\ \A i \in call[v].listed : uploads'[call[v].upload][i] = uploads[call[v].upload][i]
    BY <2>3, ZenonT(60) DEF Fine
  <2>. QED
    BY <2>1, <2>2, <2>4, JoinsKept, ZenonT(60)
<1>10. \A v \in Tasks : Assembling(call[v])' => Joins(call[v], uploads, clash)'
  BY <1>9, ZenonT(60)
<1>. QED
  BY <1>3, <1>5, <1>7, <1>8, <1>10, ZenonT(60) DEF PInv
(* CompleteMultipartUpload gives back the space of a part: the upload is   *)
(* gone.                                                                   *)
LEMMA PartsReclaim ==
  ASSUME PInv, TypeOK', NEW t \in Tasks, ReclaimPart(t)
  PROVE  PInv'
<1>. DEFINE x == call[t]
            u == x.upload
            y == [x EXCEPT !.todo = @ \ {First(x.todo)}]
<1>1. x \in Sweeps /\ x.pc = "sweep" /\ x.op = "complete" /\ u \in Uploads
  BY Where, Working, ZenonT(60) DEF PInv, ReclaimPart, Sweeps
<1>2. uploads[u] = Gone
  BY <1>1, ZenonT(60) DEF PInv, Swept
<1>3. CASE x.todo = {}
  <2>1. call' = [call EXCEPT ![t] = Idle] /\ UNCHANGED <<pool, uploads, clash>>
    BY <1>3, ZenonT(60) DEF ReclaimPart, Finish
  <2>2. Idle.op = "idle"
    BY ZenonT(60) DEF Idle
  <2>. QED
    BY <1>1, <2>1, <2>2, PartsQuiet, ZenonT(60) DEF Assembling
<1>4. CASE x.todo # {}
  <2>1. y.op = "complete" /\ y.pc = "sweep" /\ y.upload = u
    BY <1>1, ZenonT(60) DEF Sweeps
  <2>2. /\ pool' = [pool EXCEPT ![<<u, First(x.todo)>>] = None]
        /\ call'[t] = y /\ \A v \in Tasks : v # t => call'[v] = call[v]
        /\ UNCHANGED <<uploads, clash>>
    BY <1>4, ZenonT(60) DEF ReclaimPart, PInv, TypeOK
  <2>. HIDE DEF y
  <2>3. \A p \in PartIds : p[1] # u => pool'[p] = pool[p]
    <3>. DEFINE q == <<u, First(x.todo)>>
    <3>1. pool \in [Names \cup PartIds -> {None} \cup Data] /\ q[1] = u
      BY ZenonT(60) DEF PInv, TypeOK
    <3>2. pool' = [pool EXCEPT ![q] = None]
      BY <2>2, ZenonT(60)
    <3>. HIDE DEF q
    <3>3. \A p \in PartIds : p # q => pool'[p] = pool[p]
      BY <3>1, <3>2, ZenonT(60)
    <3>. QED
      BY <3>1, <3>3, ZenonT(60)
  <2>4. Swept'
    BY <1>2, <2>1, <2>2, ZenonT(60) DEF PInv, Swept
  <2>5. \A v \in Tasks, p \in PartIds :
          /\ OnPart(call'[v], p) <=> OnPart(call[v], p)
          /\ Loading(call'[v], p) <=> Loading(call[v], p)
          /\ Loading(call[v], p) => call'[v] = call[v]
    BY <1>1, <2>1, <2>2, ZenonT(60) DEF OnPart, Loading
  <2>6. ASSUME NEW w \in Uploads
        PROVE  Unborn(w)'
    <3>. SUFFICES ASSUME uploads[w] = None
                  PROVE  /\ \A i \in PartNumbers : pool'[<<w, i>>] = None
                         /\ \A v \in Tasks, i \in PartNumbers : ~OnPart(call'[v], <<w, i>>)
                         /\ \A v \in Tasks : call'[v].op = "complete" => call'[v].upload # w
      BY <2>2, ZenonT(60) DEF Unborn, OnPart, Loading
    <3>1. w # u
      BY <1>2, StoreAssumption, ZenonT(60)
    <3>2. /\ \A i \in PartNumbers : pool[<<w, i>>] = None
          /\ \A v \in Tasks, i \in PartNumbers : ~OnPart(call[v], <<w, i>>)
          /\ \A v \in Tasks : call[v].op = "complete" => call[v].upload # w
      BY ZenonT(60) DEF PInv, Unborn
    <3>3. \A i \in PartNumbers : pool'[<<w, i>>] = None
      BY <2>3, <3>1, <3>2, PartIdsAre, ZenonT(60)
    <3>. QED
      BY <2>1, <2>2, <2>5, <3>1, <3>2, <3>3, PartIdsAre, ZenonT(60)
  <2>7. ASSUME NEW p \in PartIds \ clash
        PROVE  PartSound(p)'
    <3>1. OnePart(p) /\ KeptPart(p) /\ LoadedPart(p)
      BY ZenonT(60) DEF PInv, PartSound
    <3>2. OnePart(p)'
      BY <2>5, <3>1, ZenonT(60) DEF OnePart, OnPart, Loading
    <3>3. Open(p[1]) => pool'[p] = pool[p]
      BY <1>2, <2>3, ZenonT(60) DEF Open
    <3>4. KeptPart(p)'
      BY <2>2, <2>5, <3>1, <3>3, ZenonT(60) DEF KeptPart, Open
    <3>5. \A v \in Tasks : Loading(call[v], p) => p[1] # u
      BY <1>1, <3>1, ZenonT(60) DEF OnePart, OnPart, Loading
    <3>6. LoadedPart(p)'
      BY <2>3, <2>5, <3>1, <3>5, ZenonT(60) DEF LoadedPart
    <3>. QED
      BY <3>2, <3>4, <3>6, ZenonT(60) DEF PartSound
  <2>8. \A v \in Tasks : Assembling(call'[v]) => Joins(call'[v], uploads, clash)
    BY <2>1, <2>2, ZenonT(60) DEF PInv, Assembling
  <2>9. \A v \in Tasks : Assembling(call[v])' => Joins(call[v], uploads, clash)'
    BY <2>2, <2>8, ZenonT(60)
  <2>. QED
    BY <2>2, <2>4, <2>6, <2>7, <2>9, ZenonT(60) DEF PInv
<1>. QED
  BY <1>3, <1>4, ZenonT(60)

(* UploadPart: allocate, write, record.                                    *)
LEMMA PartsUpload ==
  ASSUME PInv, TypeOK', NEW t \in Tasks, call[t].op = "part",
         AllocateSpace(t) \/ WriteWithServices(t) \/ RecordPart(t)
  PROVE  PInv'
<1>. DEFINE x == call[t]
            p == x.id
<1>0. x \in Calls /\ x.op = "part"
  BY ZenonT(60) DEF PInv, TypeOK
<1>1. x \in Parts
  BY <1>0, PartType, ZenonT(60)
<1>2. /\ p \in PartIds /\ x.data \in Data /\ Loading(x, p) /\ p[1] \in Uploads
      /\ p[2] \in PartNumbers /\ p = <<p[1], p[2]>> /\ StorageID(x) = p
  BY <1>1, PartIdsAre, ZenonT(60) DEF Parts, Loading, StorageID
<1>3. \A s : LET y == [x EXCEPT !.pc = s] IN Loading(y, p) /\ y.pc = s /\ y.data = x.data /\ y # Idle
  BY <1>1, ZenonT(60) DEF Parts, Loading, Idle
<1>4. CASE AllocateSpace(t)
  <2>. DEFINE y == [x EXCEPT !.pc = "write"]
  <2>1. /\ call' = [call EXCEPT ![t] = y] /\ pool' = [pool EXCEPT ![p] = <<>>]
        /\ UNCHANGED <<uploads, clash>>
    BY <1>2, <1>4, ZenonT(60) DEF AllocateSpace, Goto
  <2>2. Loading(y, p) /\ y.pc = "write" /\ y # Idle
    BY <1>3, ZenonT(60)
  <2>3. \A q \in PartIds : q # p => pool'[q] = pool[q]
    BY <2>1, ZenonT(60) DEF PInv, TypeOK
  <2>. HIDE DEF y, p
  <2>. QED
    BY <1>2, <2>1, <2>2, <2>3, PartStep, ZenonT(60)
<1>5. CASE WriteWithServices(t)
  <2>. DEFINE y == [x EXCEPT !.pc = "record"]
  <2>1. /\ call' = [call EXCEPT ![t] = y] /\ pool' = [pool EXCEPT ![p] = x.data]
        /\ UNCHANGED <<uploads, clash>>
    BY <1>2, <1>5, ZenonT(60) DEF WriteWithServices, Goto, AfterWrite
  <2>2. Loading(y, p) /\ y.pc = "record" /\ y # Idle /\ y.data = x.data
    BY <1>3, ZenonT(60)
  <2>3. /\ pool'[p] = y.data
        /\ \A q \in PartIds : q # p => pool'[q] = pool[q]
    BY <1>2, <2>1, <2>2, ZenonT(60) DEF PInv, TypeOK
  <2>. HIDE DEF y, p
  <2>. QED
    BY <1>2, <2>1, <2>2, <2>3, PartStep, ZenonT(60)
<1>6. CASE RecordPart(t)
  <2>1. /\ call' = [call EXCEPT ![t] = Idle] /\ UNCHANGED <<pool, clash>> /\ x.pc = "record"
        /\ uploads' = IF Open(p[1]) THEN [uploads EXCEPT ![p[1]][p[2]] = x.data] ELSE uploads
    BY <1>6, ZenonT(60) DEF RecordPart, Finish, At
  <2>2. uploads \in [Uploads -> {None, Gone} \cup [PartNumbers -> {None} \cup Data]]
    BY ZenonT(60) DEF PInv, TypeOK
  <2>3. Open(p[1]) => /\ uploads[p[1]] \in [PartNumbers -> {None} \cup Data]
                      /\ uploads'[p[1]] = [uploads[p[1]] EXCEPT ![p[2]] = x.data]
                      /\ uploads'[p[1]] \in [PartNumbers -> {None} \cup Data]
    BY <1>2, <2>1, <2>2, ZenonT(60) DEF Open
  <2>4. \A w \in Uploads : w # p[1] \/ ~Open(p[1]) => uploads'[w] = uploads[w]
    BY <1>2, <2>1, <2>2, ZenonT(60)
  <2>5. \A w \in Uploads : /\ uploads'[w] = None <=> uploads[w] = None
                           /\ uploads'[w] = Gone <=> uploads[w] = Gone
    BY <2>3, <2>4, StoreAssumption, ZenonT(60) DEF Open
  <2>6. ASSUME NEW q \in PartIds, q # p, Open(q[1])
        PROVE  uploads'[q[1]][q[2]] = uploads[q[1]][q[2]]
    <3>1. q[1] \in Uploads /\ q[2] \in PartNumbers /\ q = <<q[1], q[2]>>
      BY PartIdsAre, ZenonT(60)
    <3>2. CASE q[1] # p[1]
      BY <2>4, <3>1, <3>2, ZenonT(60)
    <3>3. CASE q[1] = p[1]
      <4>1. q[2] # p[2]
        BY <1>2, <2>6, <3>1, <3>3, ZenonT(60)
      <4>. QED
        BY <2>3, <2>6, <3>1, <3>3, <4>1, ZenonT(60)
    <3>. QED
      BY <3>2, <3>3, ZenonT(60)
  <2>7. ASSUME p \notin clash, Open(p[1])
        PROVE  pool'[p] = uploads'[p[1]][p[2]]
    <3>1. pool[p] = x.data
      BY <1>2, <2>1, <2>7, ZenonT(60) DEF PInv, PartSound, LoadedPart
    <3>2. pool'[p] = pool[p]
      BY <2>1, ZenonT(60)
    <3>3. uploads'[p[1]][p[2]] = x.data
      <4>. DEFINE m == uploads[p[1]]
                  i == p[2]
      <4>1. m \in [PartNumbers -> {None} \cup Data] /\ i \in PartNumbers
        BY <1>2, <2>3, <2>7, ZenonT(60)
      <4>2. uploads'[p[1]] = [m EXCEPT ![i] = x.data]
        BY <2>3, <2>7, ZenonT(60)
      <4>. HIDE DEF m, i
      <4>3. [m EXCEPT ![i] = x.data][i] = x.data
        BY ONLY <4>1
      <4>. QED
        BY <4>2, <4>3, ZenonT(60) DEF i
    <3>. QED
      BY <3>1, <3>2, <3>3, ZenonT(60)
  <2>. HIDE DEF p
  <2>. QED
    BY <1>2, <2>1, <2>5, <2>6, <2>7, PartStep, ZenonT(60)
<1>. QED
  BY <1>4, <1>5, <1>6, ZenonT(60)
(* What is joined stays so while the request goes on to store it.          *)
LEMMA JoinsGoOn ==
  ASSUME NEW x, NEW y, Joins(x, uploads, clash), x.todo = {},
         y.upload = x.upload, y.listed = x.listed, y.size = x.size, y.todo = x.todo,
         y.data = x.data
  PROVE  Joins(y, uploads, clash)
BY ZenonT(60) DEF Joins, Fine

(* CompleteMultipartUpload reads the lowest part that is to do.            *)
LEMMA PartsRead ==
  ASSUME PInv, TypeOK', NEW t \in Tasks, ReadPart(t)
  PROVE  PInv'
<1>. DEFINE x == call[t]
            i == First(x.todo)
            p == <<x.upload, i>>
            stored == pool[p]
            y == [x EXCEPT !.todo = @ \ {i}, !.data = @ \o Read(stored, x.size[i])]
<1>1. x \in Completes /\ x.pc = "parts" /\ x.todo # {} /\ x.op = "complete"
  BY Where, Working, ZenonT(60) DEF PInv, ReadPart, Completes
<1>2. Assembling(x) /\ Joins(x, uploads, clash)
  BY <1>1, ZenonT(60) DEF Assembling, PInv
<1>3. x.todo \in SUBSET PartNumbers /\ x.upload \in Uploads /\ x.data \in Data
  BY <1>1, ZenonT(60) DEF Completes
<1>4. i \in x.todo /\ \A j \in x.todo : i <= j
  BY <1>1, <1>3, FirstListed, ZenonT(60)
<1>5. UNCHANGED <<pool, uploads, clash>>
  BY ZenonT(60) DEF ReadPart
<1>6. CASE stored = None
  <2>1. call' = [call EXCEPT ![t] = Idle] /\ Idle.op = "idle"
    BY <1>6, ZenonT(60) DEF ReadPart, Finish, Idle
  <2>. QED
    BY <1>1, <1>5, <2>1, PartsQuiet, ZenonT(60) DEF Assembling
<1>7. CASE stored # None
  <2>1. call' = [call EXCEPT ![t] = y]
    BY <1>7, ZenonT(60) DEF ReadPart
  <2>2. /\ y.op = "complete" /\ y.pc = "parts" /\ y.upload = x.upload /\ y.listed = x.listed
        /\ y.size = x.size /\ y.todo = x.todo \ {i}
        /\ y.data = x.data \o Read(stored, x.size[i])
    BY <1>1, ZenonT(60) DEF Completes
  <2>3. /\ x.todo \subseteq x.listed
        /\ \A k \in x.listed \ x.todo, j \in x.todo : k < j
    BY <1>2, ZenonT(60) DEF Joins
  <2>4. x.listed \subseteq Nat /\ x.todo \subseteq Nat
    BY <1>1, StoreAssumption, ZenonT(60) DEF Completes
  <2>5. \A k \in x.listed \ y.todo, j \in y.todo : k < j
    <3>. HIDE DEF x, y, i
    <3>1. y.todo = x.todo \ {i}
      BY <2>2, ZenonT(60)
    <3>2. \A j \in y.todo : i < j
      BY <1>4, <2>4, <3>1
    <3>3. \A k \in x.listed \ y.todo : k = i \/ k \in x.listed \ x.todo
      BY <3>1, ZenonT(60)
    <3>. QED
      BY <2>3, <3>1, <3>2, <3>3, ZenonT(60)
  <2>6. ASSUME Fine(x, uploads, clash)
        PROVE  /\ \A k \in x.listed : uploads[x.upload][k] \in Data
                                      /\ x.size[k] = Len(uploads[x.upload][k])
               /\ Joined(y.data, x.listed, x.listed \ y.todo, uploads[x.upload])
    <3>. DEFINE parts == uploads[x.upload]
                done == x.listed \ x.todo
    <3>1. /\ \A k \in x.listed : parts[k] \in Data /\ x.size[k] = Len(parts[k])
          /\ Joined(x.data, x.listed, done, parts)
      BY <1>2, <2>6, ZenonT(60) DEF Joins
    <3>2. p \in PartIds \ clash /\ p[1] = x.upload /\ p[2] = i
      BY <1>3, <1>4, <2>3, <2>6, PartIdsAre, ZenonT(60) DEF Fine
    <3>3. OnePart(p) /\ KeptPart(p) /\ OnPart(x, p) /\ Open(p[1])
      BY <1>1, <2>6, <3>2, ZenonT(60) DEF PInv, PartSound, OnPart, Open, Fine
    <3>4. \A v \in Tasks : ~Loading(call[v], p)
      BY <1>1, <3>3, ZenonT(60) DEF OnePart, OnPart, Loading
    <3>5. stored = parts[i]
      BY <3>2, <3>3, <3>4, ZenonT(60) DEF KeptPart
    <3>6. parts[i] \in Data /\ x.size[i] = Len(parts[i])
      BY <1>4, <2>3, <3>1, ZenonT(60)
    <3>. HIDE DEF stored, parts, i, p, x, y
    <3>7. Read(stored, x.size[i]) = parts[i]
      BY <3>5, <3>6, ReadAll, ZenonT(60)
    <3>8. \A j \in done : j < i /\ parts[j] \in Data
      BY <1>4, <2>3, <3>1, ZenonT(60)
    <3>9. i \in x.listed \ done /\ \A j \in x.listed \ done : ~(j < i)
      BY <1>4, <2>3, <2>4
    <3>10. done \in SUBSET x.listed /\ x.listed \ y.todo = done \cup {i}
      BY <1>4, <2>2, <2>3, ZenonT(60)
    <3>11. Joined(x.data \o parts[i], x.listed, done \cup {i}, parts)
      <4>. HIDE DEF done
      <4>. QED
        BY <1>3, <3>1, <3>6, <3>8, <3>9, <3>10, JoinNext, ZenonT(60)
    <3>. QED
      BY <2>2, <3>1, <3>7, <3>10, <3>11, ZenonT(60) DEF parts
  <2>7. Fine(y, uploads, clash) => Fine(x, uploads, clash)
    BY <2>2, ZenonT(60) DEF Fine
  <2>. HIDE DEF y, x, i, stored
  <2>8. Joins(y, uploads, clash)
    BY <2>2, <2>3, <2>5, <2>6, <2>7, ZenonT(60) DEF Joins
  <2>9. call[t].op = "complete" /\ y.upload = call[t].upload
    BY <1>1, <2>2, ZenonT(60) DEF x
  <2>. QED
    BY <1>5, <2>1, <2>2, <2>8, <2>9, PartsQuiet, ZenonT(60)
<1>. QED
  BY <1>6, <1>7, ZenonT(60)

(* The steps of requests that upload no part and are not in the midst of   *)
(* an upload's parts.                                                      *)
LEMMA PartsPass ==
  ASSUME PInv, TypeOK', NEW t \in Tasks, call[t].op # "part",
         \/ AllocateSpace(t) \/ WriteWithServices(t) \/ AddVersion(t) \/ StoreMetadata(t)
         \/ FindVersion(t) \/ ReadObject(t) \/ AddMarker(t) \/ RemoveMetadata(t)
         \/ ReclaimSpace(t) \/ PutParts(t)
  PROVE  PInv'
<1>. DEFINE x == call[t]
<1>0. TypeOK /\ x \in Calls /\ x # Idle
  BY Working, ZenonT(60) DEF PInv, TypeOK, AllocateSpace, WriteWithServices, AddVersion, StoreMetadata, FindVersion,
     ReadObject, AddMarker, RemoveMetadata, ReclaimSpace, PutParts
<1>1. Idle.op = "idle" /\ ~Assembling(Idle)
  BY ZenonT(60) DEF Idle, Assembling
<1>2. ASSUME call' = [call EXCEPT ![t] = Idle], UNCHANGED <<uploads, clash>>,
             \A p \in PartIds : pool'[p] = pool[p]
      PROVE  PInv'
  BY <1>1, <1>2, PartsQuiet, ZenonT(60)
<1>3. ASSUME NEW y, call' = [call EXCEPT ![t] = y], UNCHANGED <<uploads, clash>>,
             \A p \in PartIds : pool'[p] = pool[p], x \in Completes, x.todo = {},
             y.op = "complete", y.pc # "sweep", y.upload = x.upload, y.listed = x.listed,
             y.size = x.size, y.todo = x.todo, y.data = x.data
      PROVE  PInv'
  <2>1. Assembling(x) /\ x.op = "complete"
    BY <1>3, ZenonT(60) DEF Completes, Assembling
  <2>2. Joins(x, uploads, clash)
    BY <2>1, ZenonT(60) DEF PInv
  <2>3. Joins(y, uploads, clash)
    BY <1>3, <2>2, JoinsGoOn, ZenonT(60)
  <2>. QED
    BY <1>3, <2>1, <2>3, PartsQuiet, ZenonT(60)
<1>4. x \in Completes /\ x.pc # "parts" => x.todo = {}
  <2>1. x \in Completes => Assembling(x)
    BY ZenonT(60) DEF Completes, Assembling
  <2>. QED
    BY <2>1, ZenonT(60) DEF PInv, Joins
<1>5. ASSUME NEW d, pool' = [pool EXCEPT ![x.name] = d], x \in Puts \cup Completes \cup Deletes
      PROVE  \A p \in PartIds : pool'[p] = pool[p]
  <2>1. x.name \in Names
    BY <1>5, ZenonT(60) DEF Puts, Completes, Deletes
  <2>. QED
    BY <1>0, <1>5, <2>1, PartIdsAre, ZenonT(60) DEF TypeOK
<1>6. CASE AllocateSpace(t)
  <2>. DEFINE y == [x EXCEPT !.pc = "write"]
  <2>1. x \in Puts \cup Completes /\ x.pc = "alloc"
    BY <1>0, <1>6, Where, ZenonT(60) DEF AllocateSpace, At, Parts
  <2>2. /\ call' = [call EXCEPT ![t] = y] /\ UNCHANGED <<uploads, clash>>
        /\ pool' = [pool EXCEPT ![x.name] = <<>>]
    BY <1>6, ZenonT(60) DEF AllocateSpace, Goto, StorageID
  <2>3. \A p \in PartIds : pool'[p] = pool[p]
    BY <1>5, <2>1, <2>2, ZenonT(60)
  <2>4. CASE x \in Completes
    <3>1. /\ y.op = "complete" /\ y.pc # "sweep" /\ y.upload = x.upload /\ y.listed = x.listed
          /\ y.size = x.size /\ y.todo = x.todo /\ y.data = x.data
      BY <2>4, ZenonT(60) DEF Completes
    <3>. HIDE DEF y, x
    <3>. QED
      BY <1>3, <1>4, <2>1, <2>2, <2>3, <2>4, <3>1, ZenonT(60)
  <2>5. CASE x \in Puts
    <3>1. y.op = "put"
      BY <2>5, ZenonT(60) DEF Puts
    <3>. HIDE DEF y
    <3>. QED
      BY <2>2, <2>3, <3>1, PartsQuiet, ZenonT(60) DEF Assembling
  <2>. QED
    BY <2>1, <2>4, <2>5, ZenonT(60)
<1>7. CASE WriteWithServices(t)
  <2>. DEFINE y == [x EXCEPT !.pc = AfterWrite(x)]
  <2>1. x \in Puts \cup Completes /\ x.pc = "write" /\ AfterWrite(x) \in {"version", "meta"}
    BY <1>0, <1>7, Where, ZenonT(60) DEF WriteWithServices, At, Parts, AfterWrite
  <2>2. /\ call' = [call EXCEPT ![t] = y] /\ UNCHANGED <<uploads, clash>>
        /\ pool' = [pool EXCEPT ![x.name] = x.data]
    BY <1>7, ZenonT(60) DEF WriteWithServices, Goto, StorageID
  <2>3. \A p \in PartIds : pool'[p] = pool[p]
    BY <1>5, <2>1, <2>2, ZenonT(60)
  <2>4. CASE x \in Completes
    <3>1. /\ y.op = "complete" /\ y.pc # "sweep" /\ y.upload = x.upload /\ y.listed = x.listed
          /\ y.size = x.size /\ y.todo = x.todo /\ y.data = x.data
      BY <2>1, <2>4, ZenonT(60) DEF Completes
    <3>. HIDE DEF y, x
    <3>. QED
      BY <1>3, <1>4, <2>1, <2>2, <2>3, <2>4, <3>1, ZenonT(60)
  <2>5. CASE x \in Puts
    <3>1. y.op = "put"
      BY <2>5, ZenonT(60) DEF Puts
    <3>. HIDE DEF y
    <3>. QED
      BY <2>2, <2>3, <3>1, PartsQuiet, ZenonT(60) DEF Assembling
  <2>. QED
    BY <2>1, <2>4, <2>5, ZenonT(60)
<1>8. CASE AddVersion(t)
  <2>. DEFINE y == [x EXCEPT !.pc = "meta", !.version = NewVersion]
  <2>1. x \in Puts \cup Completes /\ x.pc = "version"
    BY <1>0, <1>8, Where, ZenonT(60) DEF AddVersion, At
  <2>2. call' = [call EXCEPT ![t] = y] /\ UNCHANGED <<uploads, clash, pool>>
    BY <1>8, ZenonT(60) DEF AddVersion
  <2>3. CASE x \in Completes
    <3>1. /\ y.op = "complete" /\ y.pc # "sweep" /\ y.upload = x.upload /\ y.listed = x.listed
          /\ y.size = x.size /\ y.todo = x.todo /\ y.data = x.data
      BY <2>3, ZenonT(60) DEF Completes
    <3>. HIDE DEF y, x
    <3>. QED
      BY <1>3, <1>4, <2>1, <2>2, <2>3, <3>1, ZenonT(60)
  <2>4. CASE x \in Puts
    <3>1. y.op = "put"
      BY <2>4, ZenonT(60) DEF Puts
    <3>. HIDE DEF y
    <3>. QED
      BY <2>2, <3>1, PartsQuiet, ZenonT(60) DEF Assembling
  <2>. QED
    BY <2>1, <2>3, <2>4, ZenonT(60)
<1>9. CASE StoreMetadata(t)
  <2>1. UNCHANGED <<uploads, clash, pool>>
    BY <1>9, ZenonT(60) DEF StoreMetadata
  <2>2. CASE x.op = "complete"
    <3>. DEFINE y == [op |-> "complete", pc |-> "drop", name |-> x.name, upload |-> x.upload,
                      todo |-> x.listed]
    <3>1. call' = [call EXCEPT ![t] = y]
      BY <1>9, <2>2, ZenonT(60) DEF StoreMetadata
    <3>2. y.op = "complete" /\ y.pc = "drop" /\ y.upload = x.upload /\ ~Assembling(y)
      BY ZenonT(60) DEF Assembling
    <3>. HIDE DEF y
    <3>. QED
      BY <2>1, <2>2, <3>1, <3>2, PartsQuiet, ZenonT(60)
  <2>3. CASE x.op # "complete"
    BY <1>2, <1>9, <2>1, <2>3, ZenonT(60) DEF StoreMetadata, Finish
  <2>. QED
    BY <2>2, <2>3, ZenonT(60)
<1>10. CASE FindVersion(t)
  <2>1. UNCHANGED <<uploads, clash, pool>>
    BY <1>10, ZenonT(60) DEF FindVersion
  <2>2. \/ call' = [call EXCEPT ![t] = Idle]
        \/ \E m : call' = [call EXCEPT ![t] = [op |-> "get", pc |-> "read", name |-> x.name,
                                               meta |-> m]]
    BY <1>10, ZenonT(60) DEF FindVersion, Finish
  <2>3. ASSUME NEW m, call' = [call EXCEPT ![t] = [op |-> "get", pc |-> "read", name |-> x.name,
                                                   meta |-> m]]
        PROVE  PInv'
    <3>. DEFINE y == [op |-> "get", pc |-> "read", name |-> x.name, meta |-> m]
    <3>1. y.op = "get" /\ ~Assembling(y)
      BY ZenonT(60) DEF Assembling
    <3>2. call' = [call EXCEPT ![t] = y]
      BY <2>3, ZenonT(60)
    <3>. HIDE DEF y
    <3>. QED
      BY <2>1, <3>1, <3>2, PartsQuiet, ZenonT(60)
  <2>. QED
    BY <1>2, <2>1, <2>2, <2>3, ZenonT(60)
<1>11. CASE ReadObject(t) \/ AddMarker(t)
  BY <1>2, <1>11, ZenonT(60) DEF ReadObject, AddMarker, Finish
<1>12. CASE RemoveMetadata(t)
  <2>. DEFINE y == [x EXCEPT !.pc = "reclaim"]
  <2>1. x \in Deletes
    BY <1>0, <1>12, Where, ZenonT(60) DEF RemoveMetadata, At
  <2>2. y.op = "delete"
    BY <2>1, ZenonT(60) DEF Deletes
  <2>3. /\ UNCHANGED <<uploads, clash, pool>>
        /\ call' = [call EXCEPT ![t] = Idle] \/ call' = [call EXCEPT ![t] = y]
    BY <1>12, ZenonT(60) DEF RemoveMetadata, Finish, Goto
  <2>. HIDE DEF y
  <2>4. call' = [call EXCEPT ![t] = y] => PInv'
    BY <2>2, <2>3, PartsQuiet, ZenonT(60) DEF Assembling
  <2>. QED
    BY <1>2, <2>3, <2>4, ZenonT(60)
<1>13. CASE ReclaimSpace(t)
  <2>1. x \in Deletes
    BY <1>0, <1>13, Where, ZenonT(60) DEF ReclaimSpace, At
  <2>2. \A p \in PartIds : pool'[p] = pool[p]
    BY <1>5, <1>13, <2>1, ZenonT(60) DEF ReclaimSpace
  <2>. QED
    BY <1>2, <1>13, <2>2, ZenonT(60) DEF ReclaimSpace, Finish
<1>14. CASE PutParts(t)
  <2>. DEFINE y == [x EXCEPT !.pc = "alloc", !.versioned = buckets[x.name[1]]]
  <2>1. x \in Completes /\ x.todo = {}
    BY <1>0, <1>14, Where, ZenonT(60) DEF PutParts, At
  <2>2. /\ UNCHANGED <<uploads, clash, pool>>
        /\ call' = [call EXCEPT ![t] = Idle] \/ call' = [call EXCEPT ![t] = y]
    BY <1>14, ZenonT(60) DEF PutParts, Finish
  <2>3. /\ y.op = "complete" /\ y.pc # "sweep" /\ y.upload = x.upload /\ y.listed = x.listed
        /\ y.size = x.size /\ y.todo = x.todo /\ y.data = x.data
    BY <2>1, ZenonT(60) DEF Completes
  <2>. HIDE DEF y, x
  <2>4. call' = [call EXCEPT ![t] = y] => PInv'
    BY <1>3, <2>1, <2>2, <2>3, ZenonT(60)
  <2>. QED
    BY <1>2, <2>2, <2>4, ZenonT(60)
<1>. QED
  BY <1>6, <1>7, <1>8, <1>9, <1>10, <1>11, <1>12, <1>13, <1>14, ZenonT(60)
(* Every step of every goroutine keeps the invariant of the parts.         *)
LEMMA PartsInductive ==
  ASSUME PInv, [Next]_vars
  PROVE  PInv'
<1>1. TypeOK'
  BY NextTyped, ZenonT(60) DEF PInv
<1>2. ASSUME NEW t \in Tasks, Request(t)
      PROVE  PInv'
  <2>1. PICK x \in Calls : Starts(t, x) /\ Fresh(x) /\ UNCHANGED <<pool, uploads>>
    BY <1>2, RequestBegins, ZenonT(60) DEF PInv
  <2>. QED
    BY <1>1, <2>1, PartsBegin, ZenonT(60)
<1>3. ASSUME NEW t \in Tasks, Step(t)
      PROVE  PInv'
  <2>1. CASE DropUpload(t) \/ ReclaimPart(t) \/ ReadPart(t)
    BY <1>1, <2>1, PartsDrop, PartsReclaim, PartsRead, ZenonT(60)
  <2>2. ASSUME ~(DropUpload(t) \/ ReclaimPart(t) \/ ReadPart(t)), call[t].op = "part"
        PROVE  PInv'
    <3>1. call[t] \notin Puts \cup Completes \cup Finds \cup Gets \cup Deletes
      BY <2>2, ZenonT(60) DEF Puts, Completes, Finds, Gets, Deletes
    <3>2. /\ ~AddVersion(t) /\ ~StoreMetadata(t) /\ ~FindVersion(t) /\ ~ReadObject(t)
          /\ ~AddMarker(t) /\ ~RemoveMetadata(t) /\ ~ReclaimSpace(t) /\ ~PutParts(t)
      BY <3>1, Where, Working, ZenonT(60) DEF PInv, AddVersion, StoreMetadata, FindVersion, ReadObject, AddMarker,
         RemoveMetadata, ReclaimSpace, PutParts
    <3>. QED
      BY <1>1, <1>3, <2>2, <3>2, PartsUpload, ZenonT(60) DEF Step
  <2>3. ASSUME ~(DropUpload(t) \/ ReclaimPart(t) \/ ReadPart(t)), call[t].op # "part"
        PROVE  PInv'
    <3>1. ~RecordPart(t)
      BY <2>3, Where, Working, ZenonT(60) DEF PInv, RecordPart, Parts
    <3>. QED
      BY <1>1, <1>3, <2>3, <3>1, PartsPass, ZenonT(60) DEF Step
  <2>. QED
    BY <2>1, <2>2, <2>3, ZenonT(60)
<1>4. ASSUME UNCHANGED <<pool, uploads, call, clash>>
      PROVE  PInv'
  <2>1. Swept' /\ \A u \in Uploads : Unborn(u)'
    BY <1>4, ZenonT(60) DEF PInv, Swept, Unborn, OnPart, Loading
  <2>2. \A p \in PartIds \ clash : PartSound(p)'
    BY <1>4, ZenonT(60) DEF PInv, PartSound, OnePart, KeptPart, LoadedPart, Open
  <2>3. \A t \in Tasks : Assembling(call[t])' => Joins(call[t], uploads, clash)'
    BY <1>4, ZenonT(60) DEF PInv
  <2>. QED
    BY <1>1, <1>4, <2>1, <2>2, <2>3, ZenonT(60) DEF PInv
<1>5. ASSUME NEW u \in Uploads, InitiateMultipartUpload(u)
      PROVE  PInv'
  BY <1>1, <1>5, PartsInitiate, ZenonT(60)
<1>6. ASSUME NEW b \in Buckets, DeleteBucket(b) \/ \E v \in BOOLEAN : CreateBucket(b, v)
      PROVE  PInv'
  BY <1>4, <1>6, ZenonT(60) DEF DeleteBucket, CreateBucket
<1>. QED
  BY <1>2, <1>3, <1>4, <1>5, <1>6, ZenonT(60) DEF Next, vars

(* CompleteMultipartUpload reads every listed part as the upload has it,   *)
(* in the order of the part numbers, whatever the other goroutines do:     *)
(* unless changes of those parts overlap with it, what it stores is the    *)
(* listed parts end to end, and nothing else.                              *)
THEOREM PartsAssembled == Spec => []Assembled
<1>1. Init => PInv
  <2>. SUFFICES ASSUME Init
                PROVE  PInv
    BY ZenonT(60)
  <2>1. TypeOK
    BY DEF Init, TypeOK, Calls
  <2>2. \A t \in Tasks : call[t] = Idle /\ Idle.op = "idle"
    BY ZenonT(60) DEF Init, Idle
  <2>3. \A t \in Tasks : /\ \A p : ~OnPart(call[t], p) /\ ~Loading(call[t], p)
                         /\ ~Assembling(call[t]) /\ call[t].op # "complete"
    BY <2>2, ZenonT(60) DEF OnPart, Loading, Assembling
  <2>4. Swept /\ \A u \in Uploads : Unborn(u)
    BY <2>3, PartIdsAre, ZenonT(60) DEF Init, Swept, Unborn
  <2>5. \A u \in Uploads : ~Open(u)
    BY ZenonT(60) DEF Init, Open
  <2>6. \A p \in PartIds : PartSound(p)
    BY <2>3, <2>5, PartIdsAre, ZenonT(60) DEF PartSound, OnePart, KeptPart, LoadedPart
  <2>. QED
    BY <2>1, <2>3, <2>4, <2>6, ZenonT(60) DEF PInv
<1>2. PInv /\ [Next]_vars => PInv'
  BY PartsInductive, ZenonT(60)
<1>3. PInv => Assembled
  <2>. SUFFICES ASSUME PInv, NEW t \in Tasks, call[t].op = "complete",
                       call[t].pc \in {"alloc", "write", "version", "meta"},
                       ({call[t].upload} \X call[t].listed) \cap clash = {},
                       Open(call[t].upload)
                PROVE  LET x == call[t]
                           parts == uploads[x.upload]
                       IN /\ Len(x.data) = Cardinality(PartBytes(parts, x.listed))
                          /\ \A i \in x.listed : \A k \in 1 .. Len(parts[i]) :
                               x.data[Offset(x.listed, parts, i) + k] = parts[i][k]
    BY ZenonT(60) DEF Assembled, Offset
  <2>1. Joins(call[t], uploads, clash) /\ Fine(call[t], uploads, clash)
    BY ZenonT(60) DEF PInv, Assembling, Fine, Open
  <2>2. call[t].listed \ call[t].todo = call[t].listed
    BY <2>1, ZenonT(60) DEF Joins
  <2>3. Joined(call[t].data, call[t].listed, call[t].listed, uploads[call[t].upload])
    BY <2>1, <2>2, ZenonT(60) DEF Joins
  <2>. QED
    BY <2>3, ZenonT(60) DEF Joined
<1>. QED
  BY <1>1, <1>2, <1>3, PTL DEF Spec
=============================================================================
