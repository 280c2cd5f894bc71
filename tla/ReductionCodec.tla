--------------------------- MODULE ReductionCodec ---------------------------
(***************************************************************************)
(* What the reduction pipeline of pstorage writes for a block of data and  *)
(* what it makes of it when it reads it back: PatternRemoval               *)
(* (purity/pattern_removal.py) and CompressionEngine                       *)
(* (purity/compression.py), joined by PurityEngine (purity/engine.py).     *)
(*                                                                         *)
(* Data is a sequence of bytes.                                            *)
(***************************************************************************)
EXTENDS Integers, Sequences, FiniteSets

CONSTANTS
  Blocks,          \* the data clients write
  Radix,           \* the number of values of a byte, 256
  ZERO_BLOCK_MARKER, PATTERN_BLOCK_PREFIX,
  BlockSize,       \* default_block_size, which is PatternRemoval.min_block_size
  Algorithm,       \* the header byte of the configured algorithm, LZ4 or ZSTD
  Deflate(_), Inflate(_)   \* the compression library

NONE == 0
ALGORITHM_BYTES == {NONE, 1, 2}
HEADER_SIZE == 5    \* the algorithm and a size of four bytes

-----------------------------------------------------------------------------
(* n.to_bytes(4, "big"), and int.from_bytes of four bytes.  The first byte *)
(* is not cut to its width: to_bytes raises for the lengths it would not   *)
(* hold, which no block has.                                               *)
ToBytes(n) ==
  LET q == n \div Radix
      r == q \div Radix
  IN  <<r \div Radix, r % Radix, q % Radix, n % Radix>>
FromBytes(b) == Radix * (Radix * (Radix * b[1] + b[2]) + b[3]) + b[4]

Repeat(b, n) == [i \in 1 .. n |-> b]

(* analyze: empty data counts as a zero block and as a repeated pattern.   *)
IsZeroBlock(d) == \A i \in 1 .. Len(d) : d[i] = 0
IsRepeated(d) == \A i \in 1 .. Len(d) : d[i] = d[1]

(* The library gives back what it was given; neither marker can be taken   *)
(* for a header, for the other, or for a repeated byte.                    *)
ASSUME CodecAssumption ==
  /\ \A d \in Blocks : /\ d \in Seq(Nat)
                       /\ Deflate(d) \in Seq(Nat)
                       /\ Inflate(Deflate(d)) = d
  /\ Algorithm \in ALGORITHM_BYTES \ {NONE}
  /\ BlockSize \in Nat \ {0} /\ Radix \in Nat \ {0}
  /\ ZERO_BLOCK_MARKER \in Seq(Nat) /\ Len(ZERO_BLOCK_MARKER) >= 4
  /\ PATTERN_BLOCK_PREFIX \in Seq(Nat) /\ Len(PATTERN_BLOCK_PREFIX) >= 4
  /\ Len(PATTERN_BLOCK_PREFIX) <= Len(ZERO_BLOCK_MARKER)
  /\ \E i \in 1 .. Len(PATTERN_BLOCK_PREFIX) :
       ZERO_BLOCK_MARKER[i] # PATTERN_BLOCK_PREFIX[i]
  /\ ~IsRepeated(ZERO_BLOCK_MARKER) /\ ~IsRepeated(PATTERN_BLOCK_PREFIX)
  /\ {ZERO_BLOCK_MARKER[1], PATTERN_BLOCK_PREFIX[1]} \cap ALGORITHM_BYTES = {}

(* Mutant: the pattern marker carries the block size, not the length.      *)
MutEncode(d) ==
  IF IsZeroBlock(d) THEN ZERO_BLOCK_MARKER
  ELSE IF IsRepeated(d) THEN PATTERN_BLOCK_PREFIX \o <<d[1]>> \o ToBytes(BlockSize)
       ELSE d

(* PatternRemoval.encode.                                                  *)
Encode(d) ==
  IF IsZeroBlock(d) THEN ZERO_BLOCK_MARKER
  ELSE IF IsRepeated(d) THEN PATTERN_BLOCK_PREFIX \o <<d[1]>> \o ToBytes(Len(d))
       ELSE d

StartsWith(s, p) == Len(s) >= Len(p) /\ \A i \in 1 .. Len(p) : s[i] = p[i]
IsEncoded(s) == s = ZERO_BLOCK_MARKER \/ StartsWith(s, PATTERN_BLOCK_PREFIX)

(* PatternRemoval.decode, called without original_size: a zero block       *)
(* always becomes BlockSize zeros.  Data that is the prefix and nothing    *)
(* more has no pattern byte: IndexError, here no data.                     *)
Decode(s) ==
  IF s = ZERO_BLOCK_MARKER THEN Repeat(0, BlockSize)
  ELSE IF Len(s) > Len(PATTERN_BLOCK_PREFIX)
       THEN Repeat(s[Len(PATTERN_BLOCK_PREFIX) + 1],
                   FromBytes(SubSeq(s, Len(s) - 3, Len(s))))
       ELSE <<>>

(* CompressionEngine.compress: kept when original / compressed >= 1.1; the *)
(* ratio counts as 1.0 when nothing is left to divide by.                  *)
Beneficial(d) == Len(Deflate(d)) > 0 /\ 10 * Len(d) >= 11 * Len(Deflate(d))
Header(algorithm, n) == <<algorithm>> \o ToBytes(n)
Compress(d) == IF Beneficial(d) THEN Header(Algorithm, Len(d)) \o Deflate(d)
                                ELSE Header(NONE, Len(d)) \o d

HasHeader(s) == Len(s) >= HEADER_SIZE /\ s[1] \in ALGORITHM_BYTES
Decompress(s) ==
  LET payload == SubSeq(s, HEADER_SIZE + 1, Len(s))
  IN  IF s[1] = NONE THEN payload ELSE Inflate(payload)

-----------------------------------------------------------------------------
(* The cells reduce_and_store looks up in the dedup table, and those it    *)
(* writes when they are new, under the settings s.                         *)
PatternReduced(d, s) == s.pattern /\ IsRepeated(d)
Reduced(d, s) == IF PatternReduced(d, s) THEN Encode(d) ELSE d
Stored(d, s) == IF s.compression /\ ~PatternReduced(d, s) THEN Compress(d)
                                                           ELSE Reduced(d, s)

(* PurityEngine.retrieve, from the cells of the block's file.              *)
Retrieve(c) ==
  LET plain == IF HasHeader(c) THEN Decompress(c) ELSE c
  IN  IF IsEncoded(plain) THEN Decode(plain) ELSE plain

(* The data that comes back as it went in: a zero block of the block size, *)
(* any other repeated byte, and otherwise data that does not itself look   *)
(* like an encoded block or, when compression does not add a header, like  *)
(* data with one.                                                          *)
Survives(d, s) ==
  IF PatternReduced(d, s)
  THEN IsZeroBlock(d) => Len(d) = BlockSize
  ELSE ~IsEncoded(d) /\ (s.compression \/ ~HasHeader(d))

-----------------------------------------------------------------------------
(* The two scans are methods without a caller so far.                      *)

(* Mutant: a region of just the minimal size is not long enough.           *)
MutCloseRegion(r, i, min) ==
  IF r.start # 0 /\ i - r.start > min THEN r.out \cup {<<r.start, i - r.start>>} ELSE r.out

(* find_zero_regions ends a region: yielded when it is long enough.        *)
CloseRegion(r, i, min) ==
  IF r.start # 0 /\ i - r.start >= min THEN r.out \cup {<<r.start, i - r.start>>} ELSE r.out

(* The scan's state is where the open region starts (0 when there is none) *)
(* and the regions yielded.  Offsets are the code's plus 1.                *)
ScanByte(d, min, r, i) ==
  IF d[i] = 0 THEN [r EXCEPT !.start = IF @ = 0 THEN i ELSE @]
              ELSE [start |-> 0, out |-> CloseRegion(r, i, min)]

(* The state after i bytes.                                                *)
ZeroScan(d, min) ==
  LET scan[i \in 0 .. Len(d)] ==
        IF i = 0 THEN [start |-> 0, out |-> {}] ELSE ScanByte(d, min, scan[i - 1], i)
  IN  scan

FindZeroRegions(d, min) == CloseRegion(ZeroScan(d, min)[Len(d)], Len(d) + 1, min)

(* DeduplicationEngine.chunk_data: the end of the chunk that begins behind *)
(* o bytes, and the chunks it yields from there on, in order.              *)
ChunkEnd(d, min, o) == IF min < Len(d) - o THEN o + min ELSE Len(d)
ChunksFrom(d, min) ==
  LET chunk[o \in 0 .. Len(d)] ==
        IF o = Len(d) THEN <<>>
        ELSE <<SubSeq(d, o + 1, ChunkEnd(d, min, o))>> \o chunk[ChunkEnd(d, min, o)]
  IN  chunk
ChunkData(d, min) == ChunksFrom(d, min)[0]
=============================================================================
