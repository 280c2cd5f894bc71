----------------------------- MODULE ObjectStore ----------------------------
(***************************************************************************)
(* ObjectProtocolEngine and its UnifiedStoragePool (unity/objstorage.go):  *)
(* buckets, objects with versions, multipart uploads.  Handlers run as     *)
(* goroutines; the maps of buckets, objects, versions and uploads and the  *)
(* pool have a lock each, which is held for one access.  So a handler is a *)
(* sequence of such accesses, and everybody else runs in between.          *)
(*                                                                         *)
(* Data are sequences of bytes.  ETags are hashes and stand for the data.  *)
(* Version ids are times; they are taken to be distinct.  No bucket ever   *)
(* gets lifecycle rules, so applyLifecycleRules returns at once.           *)
(***************************************************************************)
EXTENDS Integers, Sequences, FiniteSets

CONSTANTS
  Buckets, Keys,
  Contents,      \* bodies of put requests: sequences of bytes
  Tasks,         \* goroutines
  Uploads,       \* upload ids
  PartNumbers,   \* a set of naturals
  PartBody,      \* PartBody[i]: bodies of requests that upload part i
  MaxVersions,   \* bound on version ids
  None, Gone

Names == Buckets \X Keys
PartIds == Uploads \X PartNumbers
Data == Seq(Int)

VersionIds == {None} \cup (Nat \ {0})
Metadata == [content : Data, version : VersionIds]

(* Upload ids are random: none of them is the name of a bucket.  An upload *)
(* that is not in the map is told apart from one that is.                  *)
ASSUME StoreAssumption ==
  /\ IsFiniteSet(Names) /\ Names \cap PartIds = {}
  /\ PartNumbers \subseteq Nat /\ MaxVersions \in Nat
  /\ Contents \subseteq Data /\ PartBody \in [PartNumbers -> SUBSET Data]
  /\ None \notin Data \cup Metadata
  /\ None # Gone /\ {None, Gone} \cap [PartNumbers -> {None} \cup Data] = {}

VARIABLES
  buckets,   \* buckets[b]: VersioningEnabled, or None
  pool,      \* pool[i]: bytes stored under a name or a part id, or None
  objects,   \* objects[n]: the current ObjectMetadata, or None
  versions,  \* versions[n]: the ObjectVersions, oldest first
  uploads,   \* uploads[u]: name and parts of an upload, None before, Gone after
  call,      \* call[t]: the request that t is working on
  clash      \* names and uploads of which two changes have overlapped

vars == <<buckets, pool, objects, versions, uploads, call, clash>>

Version == [id : Nat \ {0}, content : Data, latest : BOOLEAN, marker : {FALSE}]
             \cup [id : Nat \ {0}, content : {None}, latest : BOOLEAN, marker : {TRUE}]

Idle == [op |-> "idle"]
Puts == [op : {"put"}, pc : {"alloc", "write", "version", "meta"}, name : Names,
         data : Data, versioned : BOOLEAN, version : VersionIds]
Finds == [op : {"get"}, pc : {"find"}, name : Names, meta : Metadata, want : Nat]
Gets == [op : {"get"}, pc : {"read"}, name : Names, meta : Metadata]
Deletes == [op : {"delete"}, pc : {"marker", "remove", "reclaim"}, name : Names]
Parts == [op : {"part"}, pc : {"alloc", "write", "record"}, id : PartIds, data : Data]
Completes == [op : {"complete"}, pc : {"parts", "alloc", "write", "version", "meta"},
              name : Names, upload : Uploads, listed : SUBSET PartNumbers, size : [PartNumbers -> Nat],
              todo : SUBSET PartNumbers, data : Data, versioned : BOOLEAN, version : VersionIds]
Sweeps == [op : {"complete"}, pc : {"drop", "sweep"}, name : Names, upload : Uploads,
           todo : SUBSET PartNumbers]
Calls == {Idle} \cup Puts \cup Finds \cup Gets \cup Deletes \cup Parts \cup Completes \cup Sweeps

TypeOK ==
  /\ buckets \in [Buckets -> {None} \cup BOOLEAN]
  /\ pool \in [Names \cup PartIds -> {None} \cup Data]
  /\ objects \in [Names -> {None} \cup Metadata]
  /\ versions \in [Names -> Seq(Version)]
  /\ uploads \in [Uploads -> {None, Gone} \cup [PartNumbers -> {None} \cup Data]]
  /\ call \in [Tasks -> Calls]
  /\ clash \subseteq Names \cup PartIds

-----------------------------------------------------------------------------
Init ==
  /\ buckets = [b \in Buckets |-> None]
  /\ pool = [i \in Names \cup PartIds |-> None]
  /\ objects = [n \in Names |-> None]
  /\ versions = [n \in Names |-> <<>>]
  /\ uploads = [u \in Uploads |-> None]
  /\ call = [t \in Tasks |-> Idle]
  /\ clash = {}

(* ReadWithServices fills a buffer of the size asked for; what the stored  *)
(* bytes do not cover stays zero.                                          *)
Read(stored, size) == [i \in 1 .. size |-> IF i <= Len(stored) THEN stored[i] ELSE 0]

At(t, p) == call[t].op # "idle" /\ call[t].pc = p
Goto(t, p) == call' = [call EXCEPT ![t].pc = p]
Finish(t) == call' = [call EXCEPT ![t] = Idle]

Changes == {"put", "delete", "complete"}

(* What the request x changes: an object, parts of an upload.              *)
Subjects(x) == (IF x.op \in Changes THEN {x.name} ELSE {})
                 \cup (IF x.op = "complete" THEN {x.upload} \X PartNumbers
                       ELSE IF x.op = "part" THEN {x.id} ELSE {})

Begin(t, x) ==
  /\ call' = [call EXCEPT ![t] = x]
  /\ clash' = clash \cup UNION {Subjects(x) \cap Subjects(call[u]) : u \in Tasks}

-----------------------------------------------------------------------------
(* Buckets.  Deleting one leaves its objects and versions.                 *)
CreateBucket(b, versioning) ==
  /\ buckets[b] = None
  /\ buckets' = [buckets EXCEPT ![b] = versioning]
  /\ UNCHANGED <<pool, objects, versions, uploads, call, clash>>

DeleteBucket(b) ==
  /\ buckets[b] # None
  /\ buckets' = [buckets EXCEPT ![b] = None]
  /\ UNCHANGED <<pool, objects, versions, uploads, call, clash>>

(* The bound on versions leaves room for every request under way.          *)
Used == UNION {{versions[n][k].id : k \in 1 .. Len(versions[n])} : n \in Names}

NewVersion == Cardinality(Used) + 1
Room == NewVersion + Cardinality({t \in Tasks : call[t].op \in Changes}) <= MaxVersions

(* PutObject; CompleteMultipartUpload goes on with the same steps.         *)
PutObject(t, n, d) ==
  /\ call[t] = Idle
  /\ buckets[n[1]] # None /\ (buckets[n[1]] => Room)
  /\ Begin(t, [op |-> "put", pc |-> "alloc", name |-> n, data |-> d,
               versioned |-> buckets[n[1]], version |-> None])
  /\ UNCHANGED <<buckets, pool, objects, versions, uploads>>

(* The storage id that the request x writes.                               *)
StorageID(x) == IF x.op = "part" THEN x.id ELSE x.name

AllocateSpace(t) ==
  /\ At(t, "alloc")
  /\ pool' = [pool EXCEPT ![StorageID(call[t])] = <<>>]
  /\ Goto(t, "write")
  /\ UNCHANGED <<buckets, objects, versions, uploads, clash>>

AfterWrite(x) == IF x.op = "part" THEN "record"
                 ELSE IF x.versioned THEN "version" ELSE "meta"

WriteWithServices(t) ==
  /\ At(t, "write")
  /\ pool' = [pool EXCEPT ![StorageID(call[t])] = call[t].data]
  /\ Goto(t, AfterWrite(call[t]))
  /\ UNCHANGED <<buckets, objects, versions, uploads, clash>>

(* Mutant: the earlier versions stay the latest.                           *)
MutAppended(vs, v) == Append(vs, v)

Appended(vs, v) == Append([k \in 1 .. Len(vs) |-> [vs[k] EXCEPT !.latest = FALSE]], v)

AddVersion(t) ==
  /\ At(t, "version")
  /\ LET x == call[t]
         v == [id |-> NewVersion, content |-> x.data, latest |-> TRUE, marker |-> FALSE]
     IN /\ versions' = [versions EXCEPT ![x.name] = Appended(@, v)]
        /\ call' = [call EXCEPT ![t] = [x EXCEPT !.pc = "meta", !.version = v.id]]
  /\ UNCHANGED <<buckets, pool, objects, uploads, clash>>

(* Mutant: metadata that is there stays.                                   *)
MutStoreMetadata(t) ==
  /\ At(t, "meta")
  /\ objects' = [objects EXCEPT ![call[t].name] =
       IF @ = None THEN [content |-> call[t].data, version |-> call[t].version] ELSE @]
  /\ Finish(t)
  /\ UNCHANGED <<buckets, pool, versions, uploads, clash>>

StoreMetadata(t) ==
  /\ At(t, "meta")
  /\ LET x == call[t]
     IN /\ objects' = [objects EXCEPT ![x.name] = [content |-> x.data, version |-> x.version]]
        /\ IF x.op = "complete"
           THEN call' = [call EXCEPT ![t] = [op |-> "complete", pc |-> "drop", name |-> x.name,
                           upload |-> x.upload, todo |-> x.listed]]
           ELSE Finish(t)
  /\ UNCHANGED <<buckets, pool, versions, uploads, clash>>

-----------------------------------------------------------------------------
(* GetObject, of the current version or of version w.                      *)
GetObject(t, n, w) ==
  /\ call[t] = Idle
  /\ objects[n] # None
  /\ LET m == objects[n]
     IN Begin(t, IF w \in {None, m.version}
                 THEN [op |-> "get", pc |-> "read", name |-> n, meta |-> m]
                 ELSE [op |-> "get", pc |-> "find", name |-> n, meta |-> m, want |-> w])
  /\ UNCHANGED <<buckets, pool, objects, versions, uploads>>

(* A version id that is not there leaves the current metadata; the one of  *)
(* a delete marker, which has no metadata, ends the request in a panic.    *)
FindVersion(t) ==
  /\ At(t, "find")
  /\ LET x == call[t]
         found == {k \in 1 .. Len(versions[x.name]) : versions[x.name][k].id = x.want}
         ReadOf(m) == call' = [call EXCEPT ![t] = [op |-> "get", pc |-> "read",
                                                   name |-> x.name, meta |-> m]]
     IN IF found = {}
        THEN ReadOf(x.meta)
        ELSE \E k \in found :
               LET v == versions[x.name][k]
               IN IF v.marker THEN Finish(t)
                  ELSE ReadOf([content |-> v.content, version |-> v.id])
  /\ UNCHANGED <<buckets, pool, objects, versions, uploads, clash>>

(* Mutant: the checksum is not compared.                                   *)
MutVerified(d, m) == TRUE

Verified(d, m) == d = m.content

(* The bytes that the request of t reads, and whether it returns them.     *)
Bytes(t) == Read(pool[call[t].name], Len(call[t].meta.content))
Returns(t) == pool[call[t].name] # None /\ Verified(Bytes(t), call[t].meta)

ReadObject(t) ==
  /\ At(t, "read")
  /\ Finish(t)
  /\ UNCHANGED <<buckets, pool, objects, versions, uploads, clash>>

-----------------------------------------------------------------------------
(* DeleteObject: a delete marker, or the metadata and then the space.      *)
DeleteObject(t, n) ==
  /\ call[t] = Idle
  /\ buckets[n[1]] # None /\ (buckets[n[1]] => Room)
  /\ Begin(t, [op |-> "delete", name |-> n,
               pc |-> IF buckets[n[1]] THEN "marker" ELSE "remove"])
  /\ UNCHANGED <<buckets, pool, objects, versions, uploads>>

AddMarker(t) ==
  /\ At(t, "marker")
  /\ versions' = [versions EXCEPT ![call[t].name] = Appended(@,
       [id |-> NewVersion, content |-> None, latest |-> TRUE, marker |-> TRUE])]
  /\ Finish(t)
  /\ UNCHANGED <<buckets, pool, objects, uploads, clash>>

RemoveMetadata(t) ==
  /\ At(t, "remove")
  /\ objects' = [objects EXCEPT ![call[t].name] = None]
  /\ IF objects[call[t].name] = None THEN Finish(t) ELSE Goto(t, "reclaim")
  /\ UNCHANGED <<buckets, pool, versions, uploads, clash>>

(* Mutant: the space of a deleted object is not given back.                *)
MutReclaimSpace(t) ==
  /\ At(t, "reclaim")
  /\ Finish(t)
  /\ UNCHANGED <<buckets, pool, objects, versions, uploads, clash>>

ReclaimSpace(t) ==
  /\ At(t, "reclaim")
  /\ pool' = [pool EXCEPT ![call[t].name] = None]
  /\ Finish(t)
  /\ UNCHANGED <<buckets, objects, versions, uploads, clash>>

-----------------------------------------------------------------------------
(* Multipart uploads.  The bucket and the key come with each request; the  *)
(* ones of the upload are not looked at.                                   *)
InitiateMultipartUpload(u) ==
  /\ uploads[u] = None
  /\ uploads' = [uploads EXCEPT ![u] = [i \in PartNumbers |-> None]]
  /\ UNCHANGED <<buckets, pool, objects, versions, call, clash>>

Open(u) == uploads[u] \notin {None, Gone}

UploadPart(t, u, i, d) ==
  /\ call[t] = Idle
  /\ Open(u)
  /\ Begin(t, [op |-> "part", pc |-> "alloc", id |-> <<u, i>>, data |-> d])
  /\ UNCHANGED <<buckets, pool, objects, versions, uploads>>

RecordPart(t) ==
  /\ At(t, "record")
  /\ LET u == call[t].id[1]
     IN uploads' = IF Open(u) THEN [uploads EXCEPT ![u][call[t].id[2]] = call[t].data]
                   ELSE uploads
  /\ Finish(t)
  /\ UNCHANGED <<buckets, pool, objects, versions, clash>>

(* A caller that keeps to the protocol: it lists parts that it has         *)
(* uploaded, with the sizes it was told.  (The method takes any list; the  *)
(* handler of the HTTP server always passes the empty one.)                *)
CompleteMultipartUpload(t, u, n, parts) ==
  /\ call[t] = Idle
  /\ Open(u) /\ Room /\ \A i \in parts : uploads[u][i] # None
  /\ Begin(t, [op |-> "complete", pc |-> "parts", name |-> n, upload |-> u, listed |-> parts,
               size |-> [i \in PartNumbers |-> IF i \in parts THEN Len(uploads[u][i]) ELSE 0],
               todo |-> parts, data |-> <<>>, versioned |-> FALSE, version |-> None])
  /\ UNCHANGED <<buckets, pool, objects, versions, uploads>>

(* Mutant: the parts are not sorted.                                       *)
MutFirst(parts) == CHOOSE i \in parts : \A j \in parts : i >= j

First(parts) == CHOOSE i \in parts : \A j \in parts : i <= j

ReadPart(t) ==
  /\ At(t, "parts") /\ call[t].todo # {}
  /\ LET x == call[t]
         i == First(x.todo)
         stored == pool[<<x.upload, i>>]
     IN IF stored = None
        THEN Finish(t)
        ELSE call' = [call EXCEPT ![t] = [x EXCEPT !.todo = @ \ {i},
                                                   !.data = @ \o Read(stored, x.size[i])]]
  /\ UNCHANGED <<buckets, pool, objects, versions, uploads, clash>>

(* The parts are there: PutObject looks for the bucket.                    *)
PutParts(t) ==
  /\ At(t, "parts") /\ call[t].todo = {}
  /\ LET x == call[t]
         b == buckets[x.name[1]]
     IN IF b = None
        THEN Finish(t)
        ELSE call' = [call EXCEPT ![t] = [x EXCEPT !.pc = "alloc", !.versioned = b]]
  /\ UNCHANGED <<buckets, pool, objects, versions, uploads, clash>>

DropUpload(t) ==
  /\ At(t, "drop")
  /\ uploads' = [uploads EXCEPT ![call[t].upload] = Gone]
  /\ Goto(t, "sweep")
  /\ UNCHANGED <<buckets, pool, objects, versions, clash>>

ReclaimPart(t) ==
  /\ At(t, "sweep")
  /\ LET x == call[t]
     IN IF x.todo = {}
        THEN Finish(t) /\ UNCHANGED pool
        ELSE /\ pool' = [pool EXCEPT ![<<x.upload, First(x.todo)>>] = None]
             /\ call' = [call EXCEPT ![t] = [x EXCEPT !.todo = @ \ {First(x.todo)}]]
  /\ UNCHANGED <<buckets, objects, versions, uploads, clash>>

-----------------------------------------------------------------------------
Request(t) ==
  \/ \E n \in Names : \/ \E d \in Contents : PutObject(t, n, d)
                      \/ \E w \in 1 .. MaxVersions \cup {None} : GetObject(t, n, w)
                      \/ DeleteObject(t, n)
  \/ \E u \in Uploads :
       \/ \E i \in PartNumbers : \E d \in PartBody[i] : UploadPart(t, u, i, d)
       \/ \E n \in Names, parts \in SUBSET PartNumbers : CompleteMultipartUpload(t, u, n, parts)

Step(t) == \/ AllocateSpace(t) \/ WriteWithServices(t) \/ AddVersion(t) \/ StoreMetadata(t)
           \/ FindVersion(t) \/ ReadObject(t)
           \/ AddMarker(t) \/ RemoveMetadata(t) \/ ReclaimSpace(t)
           \/ RecordPart(t) \/ ReadPart(t) \/ PutParts(t) \/ DropUpload(t) \/ ReclaimPart(t)

Next == \/ \E b \in Buckets : DeleteBucket(b) \/ \E v \in BOOLEAN : CreateBucket(b, v)
        \/ \E u \in Uploads : InitiateMultipartUpload(u)
        \/ \E t \in Tasks : Request(t) \/ Step(t)

Spec == Init /\ [][Next]_vars

-----------------------------------------------------------------------------
(* Changes of subject s that are under way.                                *)
Busy(s) == \E t \in Tasks : s \in Subjects(call[t])

(* What GetObject returns are the whole bytes of one put: changes that run *)
(* between its look-ups and its read make it fail, they never make it      *)
(* return a mixture; the bytes of a version are those PutObject gave it.   *)
ReadsVerified ==
  \A t \in Tasks : At(t, "read") /\ Returns(t) =>
    LET m == call[t].meta
        vs == versions[call[t].name]
    IN /\ Bytes(t) = m.content
       /\ m.version # None =>
            \E k \in 1 .. Len(vs) : vs[k].id = m.version /\ vs[k].content = Bytes(t)

(* Exactly the newest version or marker of a key is the latest, however    *)
(* puts and deletions interleave.                                          *)
OneLatest ==
  \A n \in Names : \A k \in 1 .. Len(versions[n]) :
    versions[n][k].latest <=> k = Len(versions[n])

(* When no change of an object is under way and none ever overlapped       *)
(* another, the pool holds the bytes its metadata describes, and nothing   *)
(* of an object that is gone: it can be read, and its space is given back. *)
SettledReadable ==
  \A n \in Names \ clash : ~Busy(n) =>
    pool[n] = IF objects[n] = None THEN None ELSE objects[n].content

(* The current metadata names the newest version that is no marker.        *)
CurrentIsNewest ==
  \A n \in Names \ clash : ~Busy(n) /\ objects[n] # None /\ objects[n].version # None =>
    \E k \in 1 .. Len(versions[n]) :
      /\ versions[n][k].id = objects[n].version
      /\ versions[n][k].content = objects[n].content
      /\ \A j \in k + 1 .. Len(versions[n]) : versions[n][j].marker

(* The bytes of the parts in s, as pairs of a part and a position in it.   *)
PartBytes(parts, s) == UNION {{i} \X (1 .. Len(parts[i])) : i \in s}

(* CompleteMultipartUpload puts the listed parts together in the order of  *)
(* their numbers, each behind all the bytes of the lower ones, and nothing *)
(* else, unless changes of those parts have overlapped with it.            *)
Assembled ==
  \A t \in Tasks :
    call[t].op = "complete" /\ call[t].pc \in {"alloc", "write", "version", "meta"} =>
      LET x == call[t]
          parts == uploads[x.upload]
          Before(i) == PartBytes(parts, {j \in x.listed : j < i})
      IN ({x.upload} \X x.listed) \cap clash = {} /\ Open(x.upload)
         => /\ Len(x.data) = Cardinality(PartBytes(parts, x.listed))
            /\ \A i \in x.listed : \A k \in 1 .. Len(parts[i]) :
                 x.data[Cardinality(Before(i)) + k] = parts[i][k]
=============================================================================
