---------------------------- MODULE PurityEngine ----------------------------
(***************************************************************************)
(* PurityEngine (purity/engine.py) with its DeduplicationEngine            *)
(* (purity/deduplication.py): the blocks it stores, the references it      *)
(* counts and the statistics of the three reduction stages.                *)
(*                                                                         *)
(* reduce_and_store suspends in backend.write_block and delete in          *)
(* backend.delete_block; any number of them can be suspended at once.      *)
(* Write number w is known to the caller by the block id and fingerprint   *)
(* it was given, until the caller deletes it.  A deletion that raised can  *)
(* be tried again: delete_volume of a volume that still maps the block.    *)
(***************************************************************************)
EXTENDS ReductionCodec, Functions

CONSTANTS
  Inputs,      \* the data clients write in this instance
  MaxWrites    \* bound on the calls of reduce_and_store

ASSUME EngineAssumption == Inputs \subseteq Blocks /\ MaxWrites \in Nat

VARIABLES
  settings,   \* which stages are enabled; fixed when the process starts
  disk,       \* the blocks whose file exists; a block is named after the
              \* write that stored it
  table,      \* _dedupe_table: fingerprint -> [block, size, ref]
  writes,     \* the calls of reduce_and_store, in order
  reduction,  \* ReductionStats
  dedup,      \* DedupStats
  compression,\* the counters of CompressionEngine._stats
  overdrawn   \* history: the fingerprints of which delete gave up a
              \* reference that its caller did not have

vars == <<settings, disk, table, writes, reduction, dedup, compression, overdrawn>>

Writes == 1 .. MaxWrites

(* Mutant: a hash under which data of the same length collides.            *)
MutFingerprint(c) == Repeat(0, Len(c))

(* SHA-256 does not collide: cells are their own fingerprint.              *)
Fingerprint(c) == c
Known(f) == f \in DOMAIN table

(* A write that found a duplicate has the block of an earlier one.         *)
Write(d, st, b) == [data |-> d, st |-> st, block |-> b]
WriteStates == {"storing", "failed", "held", "unlinking", "undeleted", "deleted"}

(* What the caller was told: dedupe_result.fingerprint, of the cells that  *)
(* check_duplicate looked at.                                              *)
FingerprintOf(w) == Fingerprint(Reduced(writes[w].data, settings))

(* The holder of w is counted in the entry of that fingerprint.  The       *)
(* holder of a repeated byte that was stored, not found, is counted in     *)
(* another: the one of the data itself.                                    *)
HasReference(w) ==
  /\ writes[w].st = "held"
  /\ PatternReduced(writes[w].data, settings) => writes[w].block # w

(* What the file of block b holds.                                         *)
Content(b) == Stored(writes[b].data, settings)

TypeOK ==
  /\ settings \in [pattern : BOOLEAN, dedupe : BOOLEAN, compression : BOOLEAN]
  /\ disk \subseteq DOMAIN writes
  /\ \A f \in DOMAIN table : table[f] \in [block : Writes, size : Nat, ref : Nat \ {0}]
  /\ writes \in Seq([data : Inputs, st : WriteStates, block : Writes])
  /\ Len(writes) <= MaxWrites
  /\ reduction \in [in : Nat, stored : Nat, pattern : Int, dedupe : Nat, compression : Nat]
  /\ dedup \in [total : Nat, unique : Nat, duplicate : Nat, before : Nat, after : Nat]
  /\ compression \in [compressed : Nat, skipped : Nat, before : Nat, after : Nat]
  /\ \A f \in overdrawn : \E d \in Inputs : f = Fingerprint(Reduced(d, settings))

Init ==
  /\ settings \in [pattern : BOOLEAN, dedupe : BOOLEAN, compression : BOOLEAN]
  /\ disk = {}
  /\ table = <<>>
  /\ writes = <<>>
  /\ reduction = [in |-> 0, stored |-> 0, pattern |-> 0, dedupe |-> 0, compression |-> 0]
  /\ dedup = [total |-> 0, unique |-> 0, duplicate |-> 0, before |-> 0, after |-> 0]
  /\ compression = [compressed |-> 0, skipped |-> 0, before |-> 0, after |-> 0]
  /\ overdrawn = {}

-----------------------------------------------------------------------------
Extend(t, f, e) == [g \in DOMAIN t \cup {f} |-> IF g = f THEN e ELSE t[g]]
Entry(b, n) == [block |-> b, size |-> n, ref |-> 1]

(* register_block of the cells c, held by block b.                         *)
RegisterBlock(c, b) ==
  LET f == Fingerprint(c)
  IN  IF Known(f)
      THEN /\ table' = [table EXCEPT ![f].ref = @ + 1]
           /\ dedup' = [dedup EXCEPT !.total = @ + 1, !.duplicate = @ + 1,
                                     !.before = @ + Len(c)]
      ELSE /\ table' = Extend(table, f, Entry(b, Len(c)))
           /\ dedup' = [dedup EXCEPT !.total = @ + 1, !.unique = @ + 1,
                                     !.before = @ + Len(c), !.after = @ + Len(c)]

(* dereference_block, and the count that is left.                          *)
RefsLeft(f) == IF Known(f) THEN table[f].ref - 1 ELSE 0
DereferenceBlock(f) ==
  IF ~Known(f) THEN UNCHANGED <<table, dedup>>
  ELSE IF table[f].ref > 1
  THEN table' = [table EXCEPT ![f].ref = @ - 1] /\ UNCHANGED dedup
  ELSE /\ table' = Restrict(table, DOMAIN table \ {f})
       /\ dedup' = [dedup EXCEPT !.after = @ - table[f].size]

-----------------------------------------------------------------------------
(* reduction's counters after data d has passed the pattern stage.         *)
Accepted(d) ==
  [reduction EXCEPT !.in = @ + Len(d),
                    !.pattern = @ + Len(d) - Len(Reduced(d, settings))]

Duplicate(d) == settings.dedupe /\ Known(Fingerprint(Reduced(d, settings)))

(* reduce_and_store of data whose reduced form is known: no I/O.           *)
ReduceDuplicate(d) ==
  LET c == Reduced(d, settings)
      b == table[Fingerprint(c)].block
  IN  /\ Len(writes) < MaxWrites
      /\ Duplicate(d)
      /\ reduction' = [Accepted(d) EXCEPT !.dedupe = @ + Len(c)]
      /\ RegisterBlock(c, b)
      /\ writes' = Append(writes, Write(d, "held", b))
      /\ UNCHANGED <<settings, disk, compression, overdrawn>>

CompressionRuns(d) == settings.compression /\ ~PatternReduced(d, settings)

(* Mutant: what the library would have saved is counted although compress  *)
(* kept the data as it was.                                                *)
MutCompressionSaved(d) == IF CompressionRuns(d) THEN Len(d) - Len(Deflate(d)) ELSE 0

(* was_compressed is false when compress kept the data as it was.          *)
CompressionSaved(d) ==
  IF CompressionRuns(d) /\ Beneficial(d) THEN Len(d) - Len(Deflate(d)) ELSE 0

(* The counters of compress(d).                                            *)
CountCompress(d) ==
  IF Beneficial(d)
  THEN [compression EXCEPT !.compressed = @ + 1, !.before = @ + Len(d),
                           !.after = @ + Len(Deflate(d))]
  ELSE [compression EXCEPT !.skipped = @ + 1, !.before = @ + Len(d), !.after = @ + Len(d)]

(* reduce_and_store of new data, up to the suspension in write_block.      *)
ReduceNew(d) ==
  /\ Len(writes) < MaxWrites
  /\ ~Duplicate(d)
  /\ reduction' = [Accepted(d) EXCEPT !.compression = @ + CompressionSaved(d)]
  /\ compression' = IF CompressionRuns(d) THEN CountCompress(d) ELSE compression
  /\ writes' = Append(writes, Write(d, "storing", Len(writes) + 1))
  /\ UNCHANGED <<settings, disk, table, dedup, overdrawn>>

(* write_block returns: the original data is registered, whatever cells    *)
(* check_duplicate looked up.                                              *)
StoreDone(w) ==
  LET d == writes[w].data
      c == Stored(d, settings)
  IN  /\ writes[w].st = "storing"
      /\ disk' = disk \cup {w}
      /\ RegisterBlock(d, w)
      /\ reduction' = [reduction EXCEPT !.stored = @ + Len(c)]
      /\ writes' = [writes EXCEPT ![w].st = "held"]
      /\ UNCHANGED <<settings, compression, overdrawn>>

(* write_block raises: the exception leaves reduce_and_store.              *)
StoreFails(w) ==
  /\ writes[w].st = "storing"
  /\ writes' = [writes EXCEPT ![w].st = "failed"]
  /\ UNCHANGED <<settings, disk, table, reduction, dedup, compression, overdrawn>>

(* Mutant: the block goes when one of several references is given up.      *)
MutDelete(w) ==
  /\ writes[w].st = "held"
  /\ DereferenceBlock(FingerprintOf(w))
  /\ writes' = [writes EXCEPT ![w].st = "unlinking"]
  /\ UNCHANGED <<settings, disk, reduction, compression, overdrawn>>

(* delete of what write w was given, up to the suspension in delete_block; *)
(* the first time, or again after it raised.  The reference is given up    *)
(* each time, whoever it belongs to.                                       *)
Delete(w) ==
  LET f == FingerprintOf(w)
  IN  /\ writes[w].st \in {"held", "undeleted"}
      /\ DereferenceBlock(f)
      /\ writes' = [writes EXCEPT ![w].st = IF RefsLeft(f) = 0 THEN "unlinking" ELSE "deleted"]
      /\ overdrawn' = IF Known(f) /\ ~HasReference(w) THEN overdrawn \cup {f} ELSE overdrawn
      /\ UNCHANGED <<settings, disk, reduction, compression>>

DeleteDone(w) ==
  /\ writes[w].st = "unlinking"
  /\ disk' = disk \ {writes[w].block}
  /\ writes' = [writes EXCEPT ![w].st = "deleted"]
  /\ UNCHANGED <<settings, table, reduction, dedup, compression, overdrawn>>

(* delete_block raises, at the block's file or, with that one gone, at its *)
(* metadata file.                                                          *)
DeleteFails(w) ==
  /\ writes[w].st = "unlinking"
  /\ disk' \in {disk, disk \ {writes[w].block}}
  /\ writes' = [writes EXCEPT ![w].st = "undeleted"]
  /\ UNCHANGED <<settings, table, reduction, dedup, compression, overdrawn>>

Next ==
  \/ \E d \in Inputs : ReduceDuplicate(d) \/ ReduceNew(d)
  \/ \E w \in DOMAIN writes :
       StoreDone(w) \/ StoreFails(w) \/ Delete(w) \/ DeleteDone(w) \/ DeleteFails(w)

Spec == Init /\ [][Next]_vars

-----------------------------------------------------------------------------
Held == {w \in DOMAIN writes : writes[w].st = "held"}

(* "Original uncompressed data" (retrieve): whether a write stored a block *)
(* or was given one that was there, that block reads back as the data of   *)
(* the write, when the data is of the kind that survives.                  *)
ReadsBack ==
  \A w \in Held : Survives(writes[w].data, settings) =>
                    Retrieve(Content(writes[w].block)) = writes[w].data

(* "True if block was actually deleted (ref count reached 0)" (delete): a  *)
(* block's file stays while a caller holds a write that was given it, with *)
(* deletions failing and being tried again.  Only a holder counted in an   *)
(* entry that somebody overdrew can lose its block.                        *)
HeldOnDisk ==
  \A w \in Held : \/ writes[w].block \in disk
                  \/ HasReference(w) /\ FingerprintOf(w) \in overdrawn

(* The cells of writes that are on their way to disk or failed there, and  *)
(* those the table's entries stand for.                                    *)
PendingCells ==
  UNION {{w} \X (1 .. Len(Stored(writes[w].data, settings))) :
           w \in {v \in DOMAIN writes : writes[v].st \in {"storing", "failed"}}}
TableCells == UNION {{f} \X (1 .. table[f].size) : f \in DOMAIN table}

(* Every byte accepted is accounted for once: stored, saved by one of the  *)
(* three stages, or in a write that is on its way to disk or failed there. *)
(* The headers are the only bytes stored that nobody sent.  What the       *)
(* deduplication engine says is left is the size of what its table holds,  *)
(* and it counts every registration as unique or as a duplicate.           *)
SavingsAddUp ==
  /\ TypeOK
  /\ reduction.in + HEADER_SIZE * (compression.compressed + compression.skipped)
       = reduction.stored + reduction.pattern + reduction.dedupe + reduction.compression
         + Cardinality(PendingCells)
  /\ dedup.after = Cardinality(TableCells)
  /\ dedup.total = dedup.unique + dedup.duplicate

-----------------------------------------------------------------------------
(* The n bytes of d from position a are zeros, with none before or after.  *)
IsRun(d, a, n) ==
  /\ a + n <= Len(d) + 1 /\ \A i \in a .. a + n - 1 : d[i] = 0
  /\ a = 1 \/ d[a - 1] # 0
  /\ a + n = Len(d) + 1 \/ d[a + n] # 0

(* The maximal runs of at least min zeros of d: start and length.          *)
ZeroRuns(d, min) == {r \in (1 .. Len(d)) \X (min .. Len(d)) : IsRun(d, r[1], r[2])}

(* The chunks are d, cut every min bytes.                                  *)
CutEvery(chunks, d, min) ==
  /\ Len(d) <= Len(chunks) * min
  /\ chunks # <<>> => (Len(chunks) - 1) * min < Len(d)
  /\ \A i \in 1 .. Len(chunks) :
       chunks[i] = SubSeq(d, (i - 1) * min + 1, IF i * min < Len(d) THEN i * min ELSE Len(d))

(* The library does not inflate what follows the header in a block of data *)
(* to that block or to its encoded form.                                   *)
NoFixpoint ==
  \A d \in Blocks : HasHeader(d) /\ d[1] # NONE =>
    LET p == Inflate(SubSeq(d, HEADER_SIZE + 1, Len(d)))
    IN  p # d /\ (IsEncoded(p) => Decode(p) # d)

(* retrieve against its reference, for all data and every setting the      *)
(* process can start with: it gives back what was written exactly when     *)
(* Survives says so.                                                       *)
CodecsExact ==
  writes = <<>> =>
    \A d \in Blocks : Survives(d, settings) <=> Retrieve(Stored(d, settings)) = d

(* The scans against their references: find_zero_regions yields the        *)
(* maximal zero runs of the minimum size and no others, trailing ones      *)
(* included; chunk_data cuts all of the data into chunks of the minimum    *)
(* size, with only the last one shorter.                                   *)
ScansExact ==
  writes = <<>> =>
    \A d \in Blocks, min \in 1 .. BlockSize :
      /\ FindZeroRegions(d, min) = ZeroRuns(d, min)
      /\ CutEvery(ChunkData(d, min), d, min)
=============================================================================
