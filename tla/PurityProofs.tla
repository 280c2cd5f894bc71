---------------------------- MODULE PurityProofs ----------------------------
(***************************************************************************)
(* The reduction pipeline, for every block size, every lossless library    *)
(* and all data: what it stores reads back as the data it was given, the   *)
(* bytes its stages report add up, a block that a caller holds stays, and  *)
(* the codecs are what their reference definitions say.                    *)
(***************************************************************************)
EXTENDS PurityEngine, FiniteSetTheorems, SequenceTheorems, TLAPS

Settings == [pattern : BOOLEAN, dedupe : BOOLEAN, compression : BOOLEAN]

(* Dividing by the number of values of a byte.                             *)
LEMMA Quotient ==
  ASSUME NEW n \in Nat
  PROVE  /\ n \div Radix \in Nat /\ n % Radix \in Nat
         /\ n = Radix * (n \div Radix) + (n % Radix)
<1>1. Radix \in Nat \ {0}
  BY CodecAssumption, ZenonT(60)
<1>2. n \div Radix \in Nat /\ n % Radix \in Nat
  BY ONLY <1>1, n \in Nat
<1>3. n % Radix = n - Radix * (n \div Radix)
  BY ONLY <1>1, n \in Nat
<1>4. Radix * (n \div Radix) \in Nat
  BY ONLY <1>1, <1>2
<1> QED BY ONLY <1>2, <1>3, <1>4, n \in Nat

(* A length takes four bytes, and is what they give back.                  *)
LEMMA SizeRoundTrip ==
  ASSUME NEW n \in Nat
  PROVE  /\ ToBytes(n) \in Seq(Nat) /\ Len(ToBytes(n)) = 4
         /\ FromBytes(ToBytes(n)) = n
<1> DEFINE q == n \div Radix
           r == q \div Radix
           t == r \div Radix
           b == r % Radix
           c == q % Radix
           e == n % Radix
<1>1. q \in Nat /\ e \in Nat /\ n = Radix * q + e
  BY Quotient, ZenonT(60)
<1>2. r \in Nat /\ c \in Nat /\ q = Radix * r + c
  BY <1>1, Quotient, ZenonT(60)
<1>3. t \in Nat /\ b \in Nat /\ r = Radix * t + b
  BY <1>2, Quotient, ZenonT(60)
<1>4. ToBytes(n) = <<t, b, c, e>>
  BY ZenonT(60) DEF ToBytes
<1> HIDE DEF q, r, t, b, c, e
<1>5. /\ <<t, b, c, e>> \in Seq(Nat) /\ Len(<<t, b, c, e>>) = 4
      /\ <<t, b, c, e>>[1] = t /\ <<t, b, c, e>>[2] = b
      /\ <<t, b, c, e>>[3] = c /\ <<t, b, c, e>>[4] = e
  BY ONLY <1>1, <1>2, <1>3
<1>6. FromBytes(<<t, b, c, e>>) = n
  BY <1>1, <1>2, <1>3, <1>5, ZenonT(60) DEF FromBytes
<1> QED BY <1>4, <1>5, <1>6, ZenonT(60)

(* Bytes put before p are the first of the result, and p what is behind.  *)
LEMMA Behind ==
  ASSUME NEW h \in Seq(Nat), NEW p \in Seq(Nat)
  PROVE  /\ h \o p \in Seq(Nat) /\ Len(h \o p) = Len(h) + Len(p)
         /\ \A i \in 1 .. Len(h) : (h \o p)[i] = h[i]
         /\ SubSeq(h \o p, Len(h) + 1, Len(h \o p)) = p
<1> DEFINE c == h \o p
<1>1. Len(h) \in Nat /\ Len(p) \in Nat
  OBVIOUS
<1>2. /\ c \in Seq(Nat) /\ Len(c) = Len(h) + Len(p)
      /\ \A i \in 1 .. Len(h) + Len(p) : c[i] = IF i <= Len(h) THEN h[i] ELSE p[i - Len(h)]
  BY ConcatProperties, ZenonT(60)
<1> HIDE DEF c
<1>3. \A i \in 1 .. Len(h) : c[i] = h[i]
  BY <1>1, <1>2
<1>4. ASSUME NEW i \in 1 .. Len(p)
      PROVE  c[Len(h) + i] = p[i]
  <2> DEFINE k == Len(h) + i
  <2>1. k \in 1 .. Len(h) + Len(p) /\ ~(k <= Len(h)) /\ k - Len(h) = i
    BY <1>1
  <2> HIDE DEF k
  <2>2. c[k] = IF k <= Len(h) THEN h[k] ELSE p[k - Len(h)]
    BY <1>2, <2>1, ZenonT(60)
  <2>3. c[k] = p[i]
    BY <2>1, <2>2, ZenonT(60)
  <2> QED BY <2>3, ZenonT(60) DEF k
<1>5. SubSeq(c, Len(h) + 1, Len(c)) = p
  <2>1. SubSeq(c, Len(h) + 1, Len(c)) = [i \in 1 .. Len(p) |-> c[Len(h) + i]]
    BY <1>1, <1>2, SMT, SMTT(60)
  <2>2. p = [i \in 1 .. Len(p) |-> p[i]]
    OBVIOUS
  <2>3. [i \in 1 .. Len(p) |-> c[Len(h) + i]] = [i \in 1 .. Len(p) |-> p[i]]
    BY <1>4, ZenonT(60)
  <2> QED BY <2>1, <2>2, <2>3, ZenonT(60)
<1> QED BY <1>2, <1>3, <1>5, ZenonT(60) DEF c

(* A header of five bytes put before p is cut off again.                   *)
LEMMA Payload ==
  ASSUME NEW h \in Seq(Nat), Len(h) = 5, NEW p \in Seq(Nat)
  PROVE  LET c == h \o p
         IN  /\ c \in Seq(Nat) /\ Len(c) = Len(p) + 5 /\ c[1] = h[1]
             /\ SubSeq(c, 6, Len(c)) = p
<1> DEFINE c == h \o p
<1>1. /\ c \in Seq(Nat) /\ Len(c) = Len(h) + Len(p) /\ \A i \in 1 .. Len(h) : c[i] = h[i]
      /\ SubSeq(c, Len(h) + 1, Len(c)) = p
  BY Behind, ZenonT(60)
<1> HIDE DEF c
<1>2. Len(p) \in Nat /\ 1 \in 1 .. 5 /\ 5 + 1 = 6 /\ 5 + Len(p) = Len(p) + 5
  OBVIOUS
<1> QED BY <1>1, <1>2, ZenonT(60) DEF c

LEMMA HeaderIs ==
  ASSUME NEW a \in Nat, NEW n \in Nat
  PROVE  Header(a, n) \in Seq(Nat) /\ Len(Header(a, n)) = 5 /\ Header(a, n)[1] = a
<1> DEFINE z == ToBytes(n)
<1>1. z \in Seq(Nat) /\ Len(z) = 4
  BY SizeRoundTrip, ZenonT(60)
<1>2. Header(a, n) = <<a>> \o z
  BY ZenonT(60) DEF Header
<1> HIDE DEF z
<1>3. <<a>> \o z \in Seq(Nat) /\ Len(<<a>> \o z) = 5 /\ (<<a>> \o z)[1] = a
  <2>1. <<a>> \in Seq(Nat) /\ Len(<<a>>) = 1 /\ <<a>>[1] = a /\ 1 + 4 = 5 /\ 1 \in 1 .. 1
    OBVIOUS
  <2> QED BY <1>1, <2>1, Behind, ZenonT(60)
<1> QED BY <1>2, <1>3, ZenonT(60)

(* A byte and four more put after p leave its bytes alone, and are found   *)
(* behind it: the pattern byte and the length behind the prefix of encode. *)
LEMMA Suffix ==
  ASSUME NEW p \in Seq(Nat), NEW a \in Nat, NEW z \in Seq(Nat), Len(z) = 4
  PROVE  LET c == p \o <<a>> \o z
         IN  /\ c \in Seq(Nat) /\ Len(c) = Len(p) + 5
             /\ \A i \in 1 .. Len(p) : c[i] = p[i]
             /\ c[Len(p) + 1] = a /\ SubSeq(c, Len(c) - 3, Len(c)) = z
<1> DEFINE h == p \o <<a>>
           c == h \o z
<1>1. /\ h \in Seq(Nat) /\ Len(h) = Len(p) + 1 /\ h[Len(p) + 1] = a
      /\ \A i \in 1 .. Len(p) : h[i] = p[i]
  OBVIOUS
<1> HIDE DEF h
<1>2. /\ c \in Seq(Nat) /\ Len(c) = Len(h) + Len(z) /\ \A i \in 1 .. Len(h) : c[i] = h[i]
      /\ SubSeq(c, Len(h) + 1, Len(c)) = z
  BY <1>1, Behind, ZenonT(60)
<1> HIDE DEF c
<1>3. Len(p) \in Nat /\ Len(c) - 3 = Len(h) + 1 /\ Len(c) = Len(p) + 5
  BY <1>1, <1>2
<1>4. (\A i \in 1 .. Len(p) : c[i] = p[i]) /\ c[Len(p) + 1] = a
  <2>1. Len(p) + 1 \in 1 .. Len(h) /\ \A i \in 1 .. Len(p) : i \in 1 .. Len(h)
    BY <1>1, <1>3
  <2> QED BY <1>1, <1>2, <2>1, ZenonT(60)
<1>5. SubSeq(c, Len(c) - 3, Len(c)) = z
  BY <1>2, <1>3, ZenonT(60)
<1> QED BY <1>2, <1>3, <1>4, <1>5, ZenonT(60) DEF c, h

(* What the statistics add.                                                *)
LEMMA Added ==
  /\ \A m, n \in Nat : m + n \in Nat
  /\ \A m \in Int, n, k \in Nat : m + n - k \in Int
OBVIOUS

(* compress writes a byte of the enumeration other than that of NONE.      *)
LEMMA Chosen == Algorithm \in Nat \ {0} /\ Algorithm \in {0, 1, 2}
BY CodecAssumption DEF ALGORITHM_BYTES, NONE

(* Data, what the library makes of it, and the prefix are cells.           *)
LEMMA Cells ==
  /\ \A d \in Blocks : /\ d \in Seq(Nat) /\ Len(d) \in Nat
                       /\ Deflate(d) \in Seq(Nat) /\ Len(Deflate(d)) \in Nat
  /\ PATTERN_BLOCK_PREFIX \in Seq(Nat) /\ Len(PATTERN_BLOCK_PREFIX) \in Nat
  /\ Len(PATTERN_BLOCK_PREFIX) >= 4 /\ PATTERN_BLOCK_PREFIX[1] \notin ALGORITHM_BYTES
<1>1. ASSUME NEW d \in Blocks
      PROVE  /\ d \in Seq(Nat) /\ Len(d) \in Nat
             /\ Deflate(d) \in Seq(Nat) /\ Len(Deflate(d)) \in Nat
  <2>1. d \in Seq(Nat) /\ Deflate(d) \in Seq(Nat)
    BY CodecAssumption, ZenonT(60)
  <2> QED BY ONLY <2>1
<1>2. PATTERN_BLOCK_PREFIX \in Seq(Nat) /\ Len(PATTERN_BLOCK_PREFIX) >= 4
  BY CodecAssumption, ZenonT(60)
<1>3. Len(PATTERN_BLOCK_PREFIX) \in Nat
  BY ONLY <1>2
<1>4. PATTERN_BLOCK_PREFIX[1] \notin ALGORITHM_BYTES
  BY CodecAssumption, ZenonT(60)
<1> QED BY <1>1, <1>2, <1>3, <1>4, ZenonT(60)

(* decompress undoes compress, whether the library's output was kept or    *)
(* not.                                                                    *)
LEMMA HeaderRoundTrip ==
  ASSUME NEW d \in Blocks
  PROVE  HasHeader(Compress(d)) /\ Decompress(Compress(d)) = d
<1>1. d \in Seq(Nat) /\ Deflate(d) \in Seq(Nat) /\ Inflate(Deflate(d)) = d
  BY CodecAssumption
<1>2. Algorithm \in Nat \ {0} /\ Algorithm \in {0, 1, 2} /\ Len(d) \in Nat
  BY <1>1, Chosen
<1>3. CASE Beneficial(d)
  <2> DEFINE h == Header(Algorithm, Len(d))
             c == h \o Deflate(d)
  <2>0. h \in Seq(Nat) /\ Len(h) = 5 /\ h[1] = Algorithm
    BY <1>2, HeaderIs, ZenonT(60)
  <2>1. Len(c) = Len(Deflate(d)) + 5 /\ c[1] = Algorithm /\ SubSeq(c, 6, Len(c)) = Deflate(d)
    <3> HIDE DEF h
    <3> QED BY <1>1, <2>0, Payload, ZenonT(60)
  <2>2. Compress(d) = c
    BY <1>3 DEF Compress
  <2>3. HasHeader(c)
    <3> HIDE DEF c
    <3> QED BY <1>1, <1>2, <2>1 DEF HasHeader, HEADER_SIZE, ALGORITHM_BYTES, NONE
  <2>4. Decompress(c) = Inflate(Deflate(d))
    <3>1. c[1] # NONE /\ SubSeq(c, HEADER_SIZE + 1, Len(c)) = Deflate(d)
      <4> HIDE DEF c
      <4> QED BY <1>2, <2>1 DEF HEADER_SIZE, NONE
    <3> HIDE DEF c
    <3> QED BY <3>1, ZenonT(60) DEF Decompress
  <2> HIDE DEF c
  <2> QED BY <1>1, <2>2, <2>3, <2>4
<1>4. CASE ~Beneficial(d)
  <2> DEFINE h == Header(NONE, Len(d))
             c == h \o d
  <2>0. h \in Seq(Nat) /\ Len(h) = 5 /\ h[1] = NONE
    BY <1>2, HeaderIs DEF NONE
  <2>1. Len(c) = Len(d) + 5 /\ c[1] = NONE /\ SubSeq(c, 6, Len(c)) = d
    <3> HIDE DEF h
    <3> QED BY <1>1, <2>0, Payload, ZenonT(60)
  <2>2. Compress(d) = c
    BY <1>4 DEF Compress
  <2> HIDE DEF c
  <2> QED BY <1>1, <1>2, <2>1, <2>2 DEF HasHeader, Decompress, HEADER_SIZE, ALGORITHM_BYTES, NONE
<1> QED BY <1>3, <1>4

(* The form pattern removal gives a repeated byte, or a zero block of the  *)
(* block size, is recognised, is not taken for a header and decodes to the *)
(* data.                                                                   *)
LEMMA PatternRoundTrip ==
  ASSUME NEW d \in Blocks, IsRepeated(d), IsZeroBlock(d) => Len(d) = BlockSize
  PROVE  IsEncoded(Encode(d)) /\ ~HasHeader(Encode(d)) /\ Decode(Encode(d)) = d
<1>1. d \in Seq(Nat) /\ Len(d) \in Nat
  BY CodecAssumption
<1>2. CASE IsZeroBlock(d)
  <2>1. Encode(d) = ZERO_BLOCK_MARKER
    BY <1>2 DEF Encode
  <2>2. Decode(ZERO_BLOCK_MARKER) = Repeat(0, BlockSize)
    BY DEF Decode
  <2>3. Repeat(0, BlockSize) = d
    BY <1>1, <1>2 DEF IsZeroBlock, Repeat
  <2> QED BY <2>1, <2>2, <2>3, CodecAssumption, SMT, SMTT(60) DEF IsEncoded, HasHeader
<1>3. CASE ~IsZeroBlock(d)
  <2> DEFINE P == PATTERN_BLOCK_PREFIX
             z == ToBytes(Len(d))
             c == P \o <<d[1]>> \o z
  <2>1. Encode(d) = c
    BY <1>3 DEF Encode
  <2>2. P \in Seq(Nat) /\ Len(P) \in Nat /\ Len(P) >= 4 /\ P[1] \notin ALGORITHM_BYTES
    BY Cells, ZenonT(60)
  <2>3. Len(d) # 0
    BY <1>1, <1>3 DEF IsZeroBlock
  <2>4. d[1] \in Nat
    BY <1>1, <2>3
  <2>10. z \in Seq(Nat) /\ Len(z) = 4 /\ FromBytes(z) = Len(d)
    BY <1>1, SizeRoundTrip, ZenonT(60)
  <2> HIDE DEF z
  <2>5. /\ c \in Seq(Nat) /\ Len(c) = Len(P) + 5
        /\ \A i \in 1 .. Len(P) : c[i] = P[i]
        /\ c[Len(P) + 1] = d[1] /\ SubSeq(c, Len(c) - 3, Len(c)) = z
    BY <2>2, <2>4, <2>10, Suffix, ZenonT(60)
  <2>6. c # ZERO_BLOCK_MARKER
    BY <2>5, CodecAssumption, ZenonT(60)
  <2>7. Repeat(d[1], Len(d)) = d
    BY <1>1 DEF IsRepeated, Repeat
  <2>8. StartsWith(c, P) /\ ~HasHeader(c)
    <3> HIDE DEF c
    <3>1. Len(c) >= Len(P) /\ c[1] = P[1]
      BY <2>2, <2>5
    <3>2. StartsWith(c, P)
      BY <2>5, <3>1, ZenonT(60) DEF StartsWith
    <3>3. ~HasHeader(c)
      BY <2>2, <3>1, ZenonT(60) DEF HasHeader
    <3> QED BY <3>2, <3>3
  <2>9. Decode(c) = Repeat(d[1], Len(d))
    <3> HIDE DEF c
    <3>1. Len(c) > Len(P)
      BY <2>2, <2>5
    <3> QED BY <2>5, <2>6, <2>10, <3>1, ZenonT(60) DEF Decode
  <2> QED BY <2>1, <2>7, <2>8, <2>9, ZenonT(60) DEF IsEncoded
<1> QED BY <1>2, <1>3

(* Data that Survives names reads back: for every setting, what            *)
(* reduce_and_store writes for it, retrieve turns into it again.           *)
THEOREM StoredReadsBack ==
  ASSUME NEW d \in Blocks, NEW s \in Settings, Survives(d, s)
  PROVE  Retrieve(Stored(d, s)) = d
<1>1. CASE PatternReduced(d, s)
  <2>1. IsRepeated(d) /\ (IsZeroBlock(d) => Len(d) = BlockSize)
    BY <1>1 DEF PatternReduced, Survives
  <2>2. Stored(d, s) = Encode(d)
    BY <1>1 DEF Stored, Reduced
  <2> QED BY <2>1, <2>2, PatternRoundTrip DEF Retrieve
<1>2. CASE ~PatternReduced(d, s) /\ s.compression
  <2>1. ~IsEncoded(d)
    BY <1>2 DEF Survives
  <2>2. Stored(d, s) = Compress(d)
    BY <1>2 DEF Stored
  <2> QED BY <2>1, <2>2, HeaderRoundTrip DEF Retrieve
<1>3. CASE ~PatternReduced(d, s) /\ ~s.compression
  <2>1. ~IsEncoded(d) /\ ~HasHeader(d)
    BY <1>3 DEF Survives
  <2>2. Stored(d, s) = d
    BY <1>3 DEF Stored, Reduced
  <2> QED BY <2>1, <2>2 DEF Retrieve
<1> QED BY <1>1, <1>2, <1>3

(* An encoded block is neither a repeated byte nor data with a header, and *)
(* decode makes a repeated byte of whatever it is given.                   *)
LEMMA EncodedMixed ==
  ASSUME NEW c \in Seq(Nat), IsEncoded(c)
  PROVE  ~IsRepeated(c) /\ ~HasHeader(c)
<1>1. CASE c = ZERO_BLOCK_MARKER
  BY <1>1, CodecAssumption DEF HasHeader
<1>2. CASE StartsWith(c, PATTERN_BLOCK_PREFIX)
  <2> DEFINE P == PATTERN_BLOCK_PREFIX
  <2>1. P \in Seq(Nat) /\ Len(P) >= 4 /\ P[1] \notin ALGORITHM_BYTES
    BY Cells, ZenonT(60)
  <2>2. PICK i \in 1 .. Len(P) : P[i] # P[1]
    BY CodecAssumption, ZenonT(60) DEF IsRepeated
  <2>3. Len(c) >= Len(P) /\ c[i] = P[i] /\ c[1] = P[1]
    BY <1>2, <2>1 DEF StartsWith
  <2>4. i \in 1 .. Len(c)
    BY <2>1, <2>3
  <2> QED BY <2>1, <2>2, <2>3, <2>4, ZenonT(60) DEF IsRepeated, HasHeader
<1> QED BY <1>1, <1>2, ZenonT(60) DEF IsEncoded

LEMMA RepeatRepeats ==
  ASSUME NEW b, NEW n \in Nat
  PROVE  Len(Repeat(b, n)) = n /\ IsRepeated(Repeat(b, n))
BY DEF Repeat, IsRepeated

LEMMA DecodeRepeats ==
  ASSUME NEW c \in Seq(Nat)
  PROVE  IsRepeated(Decode(c))
<1>1. CASE c = ZERO_BLOCK_MARKER
  BY <1>1, RepeatRepeats, CodecAssumption DEF Decode
<1>2. CASE c # ZERO_BLOCK_MARKER /\ Len(c) > Len(PATTERN_BLOCK_PREFIX)
  <2> DEFINE z == SubSeq(c, Len(c) - 3, Len(c))
  <2>1. Len(c) \in Nat /\ Len(c) > 4
    <3>1. Len(PATTERN_BLOCK_PREFIX) \in Nat /\ Len(PATTERN_BLOCK_PREFIX) >= 4
      BY Cells, ZenonT(60)
    <3> QED BY <1>2, <3>1
  <2>2. z[1] \in Nat /\ z[2] \in Nat /\ z[3] \in Nat /\ z[4] \in Nat
    BY <2>1, SMT, SMTT(60)
  <2>3. FromBytes(z) \in Nat
    <3>1. Radix \in Nat
      BY CodecAssumption, ZenonT(60)
    <3>2. \A m, n, k \in Nat : m * n + k \in Nat
      OBVIOUS
    <3> HIDE DEF z
    <3> QED BY <2>2, <3>1, <3>2, ZenonT(60) DEF FromBytes
  <2> HIDE DEF z
  <2> QED BY <1>2, <2>3, RepeatRepeats, ZenonT(60) DEF Decode, z
<1>3. CASE c # ZERO_BLOCK_MARKER /\ ~(Len(c) > Len(PATTERN_BLOCK_PREFIX))
  <2>1. IsRepeated(<<>>)
    BY DEF IsRepeated
  <2> QED BY <1>3, <2>1, ZenonT(60) DEF Decode
<1> QED BY <1>1, <1>2, <1>3, ZenonT(60)

(* Cutting the header off shortens the data and keeps a repeated byte one. *)
LEMMA CutHeader ==
  ASSUME NEW d \in Seq(Nat), Len(d) >= 5
  PROVE  LET c == SubSeq(d, 6, Len(d))
         IN  c \in Seq(Nat) /\ Len(c) = Len(d) - 5 /\ (IsRepeated(d) => IsRepeated(c))
<1> DEFINE c == SubSeq(d, 6, Len(d))
<1>1. c \in Seq(Nat) /\ Len(c) = Len(d) - 5 /\ \A i \in 1 .. Len(c) : c[i] = d[i + 5]
  <2>1. c \in Seq(Nat)
    OBVIOUS
  <2>2. c = [i \in 1 .. Len(d) - 5 |-> d[i + 5]] /\ Len(d) - 5 \in Nat
    OBVIOUS
  <2>3. Len(c) = Len(d) - 5 /\ \A i \in 1 .. Len(d) - 5 : c[i] = d[i + 5]
    <3> HIDE DEF c
    <3> QED BY <2>2
  <2> QED BY <2>1, <2>3
<1>2. ASSUME IsRepeated(d)
      PROVE  IsRepeated(c)
  <2>1. ASSUME NEW i \in 1 .. Len(c)
        PROVE  c[i] = c[1]
    <3>1. i + 5 \in 1 .. Len(d) /\ 1 + 5 \in 1 .. Len(d) /\ 1 \in 1 .. Len(c)
      BY <1>1
    <3> HIDE DEF c
    <3> QED BY <1>1, <1>2, <3>1, SMT, SMTT(60) DEF IsRepeated
  <2> QED BY <2>1, ZenonT(60) DEF IsRepeated
<1> QED BY <1>1, <1>2, ZenonT(60)

(* Other data does not come back: a short or long zero block has become    *)
(* one of the block size, data that looks encoded a repeated byte, and     *)
(* data with a header has lost it.                                         *)
LEMMA OthersLost ==
  ASSUME NoFixpoint, NEW d \in Blocks, NEW s \in Settings, ~Survives(d, s)
  PROVE  Retrieve(Stored(d, s)) # d
<1>0. d \in Seq(Nat) /\ Len(d) \in Nat
  BY CodecAssumption
<1>1. CASE PatternReduced(d, s)
  <2>1. IsZeroBlock(d) /\ Len(d) # BlockSize /\ Stored(d, s) = ZERO_BLOCK_MARKER
    BY <1>1, ZenonT(60) DEF Survives, Stored, Reduced, Encode
  <2>2. ~HasHeader(ZERO_BLOCK_MARKER)
    BY CodecAssumption DEF HasHeader
  <2>3. Retrieve(ZERO_BLOCK_MARKER) = Repeat(0, BlockSize)
    BY <2>2, ZenonT(60) DEF Retrieve, IsEncoded, Decode
  <2>4. Len(Repeat(0, BlockSize)) = BlockSize
    BY RepeatRepeats, CodecAssumption
  <2> QED BY <2>1, <2>3, <2>4, ZenonT(60)
<1>2. CASE ~PatternReduced(d, s) /\ IsEncoded(d)
  <2>1. ~IsRepeated(d) /\ ~HasHeader(d) /\ IsRepeated(Decode(d))
    BY <1>0, <1>2, EncodedMixed, DecodeRepeats, ZenonT(60)
  <2>2. CASE s.compression
    <3>1. Stored(d, s) = Compress(d)
      BY <1>2, <2>2, ZenonT(60) DEF Stored
    <3>2. Retrieve(Compress(d)) = Decode(d)
      BY <1>2, HeaderRoundTrip, ZenonT(60) DEF Retrieve
    <3> QED BY <2>1, <3>1, <3>2, ZenonT(60)
  <2>3. CASE ~s.compression
    <3>1. Stored(d, s) = d
      BY <1>2, <2>3, ZenonT(60) DEF Stored, Reduced
    <3>2. Retrieve(d) = Decode(d)
      BY <1>2, <2>1, ZenonT(60) DEF Retrieve
    <3> QED BY <2>1, <3>1, <3>2, ZenonT(60)
  <2> QED BY <2>2, <2>3, ZenonT(60)
<1>3. CASE ~PatternReduced(d, s) /\ ~IsEncoded(d)
  <2>1. ~s.compression /\ HasHeader(d)
    BY <1>3, ZenonT(60) DEF Survives
  <2>2. Stored(d, s) = d
    BY <1>3, <2>1, ZenonT(60) DEF Stored, Reduced
  <2> DEFINE p == SubSeq(d, HEADER_SIZE + 1, Len(d))
  <2>3. CASE d[1] = NONE
    <3>1. p \in Seq(Nat) /\ Len(p) = Len(d) - 5 /\ (IsRepeated(d) => IsRepeated(p))
      BY <1>0, <2>1, CutHeader DEF HasHeader, HEADER_SIZE
    <3>2. Retrieve(d) = IF IsEncoded(p) THEN Decode(p) ELSE p
      BY <2>1, <2>3, ZenonT(60) DEF Retrieve, Decompress
    <3> HIDE DEF p
    <3>3. p # d
      BY <1>0, <3>1
    <3>4. IsEncoded(p) => Decode(p) # d
      BY <3>1, EncodedMixed, DecodeRepeats, ZenonT(60)
    <3> QED BY <2>2, <3>2, <3>3, <3>4, ZenonT(60)
  <2>4. CASE d[1] # NONE
    <3>1. Retrieve(d) = IF IsEncoded(Inflate(p)) THEN Decode(Inflate(p)) ELSE Inflate(p)
      BY <2>1, <2>4, ZenonT(60) DEF Retrieve, Decompress
    <3>2. Inflate(p) # d /\ (IsEncoded(Inflate(p)) => Decode(Inflate(p)) # d)
      BY <2>1, <2>4, ZenonT(60) DEF NoFixpoint
    <3> QED BY <2>2, <3>1, <3>2, ZenonT(60)
  <2> QED BY <2>3, <2>4, ZenonT(60)
<1> QED BY <1>1, <1>2, <1>3, ZenonT(60)

-----------------------------------------------------------------------------
(* find_zero_regions and chunk_data against what they are to yield.  The   *)
(* recursions that model their loops are shown to have a solution, step by *)
(* step, and the state after a step is then found by induction.            *)

(* Induction on the naturals, for the set of those with a property.        *)
LEMMA Induction ==
  ASSUME NEW S, 0 \in S, \A n \in Nat : n \in S => n + 1 \in S
  PROVE  Nat \subseteq S
<1> DEFINE Less == OpToRel(<, Nat)
           Rest == Nat \ S
<1>1. IsWellFoundedOn(Less, Nat)
  BY NatLessThanWellFounded, ZenonT(60)
<1>2. \A i, j \in Nat : j < i => <<j, i>> \in Less
  BY ZenonT(60) DEF OpToRel
<1> HIDE DEF Less
<1>3. SUFFICES ASSUME Rest # {}
               PROVE  FALSE
  BY ZenonT(60)
<1>4. \E i \in Rest : \A j \in Rest : ~(<<j, i>> \in Less)
  BY <1>1, <1>3, WFMin, ZenonT(60)
<1>5. PICK i \in Rest : \A j \in Rest : ~(j < i)
  BY <1>2, <1>4, ZenonT(60)
<1>6. i \in Nat /\ i # 0 /\ i - 1 \in Nat /\ i - 1 < i /\ (i - 1) + 1 = i
  BY <1>5
<1> QED BY <1>5, <1>6, ZenonT(60)

(* f is the course of a scan over the first n bytes.                       *)
Scans(f, d, min, n) ==
  f = [i \in 0 .. n |-> IF i = 0 THEN [start |-> 0, out |-> {}]
                       ELSE ScanByte(d, min, f[i - 1], i)]

LEMMA ScanExists ==
  ASSUME NEW d, NEW min, NEW n \in Nat
  PROVE  \E f : Scans(f, d, min, n)
<1> DEFINE S == {m \in Nat : \E f : Scans(f, d, min, m)}
<1>1. 0 \in S
  <2>1. Scans([i \in 0 .. 0 |-> [start |-> 0, out |-> {}]], d, min, 0)
    BY DEF Scans
  <2> QED BY <2>1, ZenonT(60)
<1>2. ASSUME NEW m \in Nat, m \in S
      PROVE  m + 1 \in S
  <2>1. PICK f : Scans(f, d, min, m)
    BY <1>2, ZenonT(60)
  <2> DEFINE g == [i \in 0 .. m + 1 |-> IF i = m + 1 THEN ScanByte(d, min, f[m], m + 1) ELSE f[i]]
  <2>2. \A i \in 0 .. m : f[i] = IF i = 0 THEN [start |-> 0, out |-> {}]
                                 ELSE ScanByte(d, min, f[i - 1], i)
    BY <2>1, ZenonT(60) DEF Scans
  <2>3. \A i \in 0 .. m + 1 : g[i] = IF i = 0 THEN [start |-> 0, out |-> {}]
                                     ELSE ScanByte(d, min, g[i - 1], i)
    BY <2>2
  <2>4. g = [i \in 0 .. m + 1 |-> g[i]]
    BY ZenonT(60)
  <2> HIDE DEF g
  <2>5. Scans(g, d, min, m + 1)
    BY <2>3, <2>4, ZenonT(60) DEF Scans
  <2> QED BY <2>5
<1> HIDE DEF S
<1>3. n \in S
  BY <1>1, <1>2, Induction, ZenonT(60)
<1> QED BY <1>3, ZenonT(60) DEF S

(* What the scan's recursion says.                                         *)
LEMMA ScanSteps ==
  ASSUME NEW d \in Seq(Nat), NEW min
  PROVE  /\ ZeroScan(d, min)[0] = [start |-> 0, out |-> {}]
         /\ \A i \in 1 .. Len(d) :
              ZeroScan(d, min)[i] = ScanByte(d, min, ZeroScan(d, min)[i - 1], i)
<1>1. Scans(ZeroScan(d, min), d, min, Len(d))
  <2>1. \E f : Scans(f, d, min, Len(d))
    <3>1. Len(d) \in Nat
      OBVIOUS
    <3> QED BY <3>1, ScanExists, ZenonT(60)
  <2> QED BY <2>1, ZenonT(60) DEF ZeroScan, Scans
<1> DEFINE z == ZeroScan(d, min)
<1> HIDE DEF z
<1>2. z = [i \in 0 .. Len(d) |-> IF i = 0 THEN [start |-> 0, out |-> {}]
                                ELSE ScanByte(d, min, z[i - 1], i)]
  BY <1>1, ZenonT(60) DEF Scans, z
<1>3. \A i \in 0 .. Len(d) : z[i] = IF i = 0 THEN [start |-> 0, out |-> {}]
                                     ELSE ScanByte(d, min, z[i - 1], i)
  BY <1>2, ZenonT(60)
<1>4. 0 \in 0 .. Len(d) /\ \A i \in 1 .. Len(d) : i \in 0 .. Len(d) /\ i # 0
  OBVIOUS
<1> QED BY <1>3, <1>4, ZenonT(60) DEF z

(* The open region of a scan that has seen i bytes: the zeros up to there. *)
Opened(d, s, i) ==
  IF i = 0 \/ d[i] # 0 THEN s = 0
  ELSE /\ s \in 1 .. i /\ (s = 1 \/ d[s - 1] # 0)
       /\ \A k \in s .. i : d[k] = 0
RunsBefore(d, min, i) == {r \in ZeroRuns(d, min) : r[1] + r[2] <= i}

(* A run is a pair.                                                        *)
LEMMA RunIs ==
  ASSUME NEW d \in Seq(Nat), NEW min \in Nat \ {0}
  PROVE  /\ \A a, n \in Nat : <<a, n>> \in ZeroRuns(d, min) <=>
                               a >= 1 /\ n >= min /\ IsRun(d, a, n)
         /\ \A r \in ZeroRuns(d, min) : \E a, n \in Nat :
              r = <<a, n>> /\ r[1] = a /\ r[2] = n
<1>1. ASSUME NEW a \in Nat, NEW n \in Nat
      PROVE  <<a, n>> \in ZeroRuns(d, min) <=> a >= 1 /\ n >= min /\ IsRun(d, a, n)
  <2>1. <<a, n>> \in ZeroRuns(d, min) <=>
          a \in 1 .. Len(d) /\ n \in min .. Len(d) /\ IsRun(d, a, n)
    BY ZenonT(60) DEF ZeroRuns
  <2>2. IsRun(d, a, n) /\ n >= min /\ a >= 1 => a \in 1 .. Len(d) /\ n \in min .. Len(d)
    BY DEF IsRun
  <2>3. a \in 1 .. Len(d) /\ n \in min .. Len(d) => n >= min /\ a >= 1
    OBVIOUS
  <2> QED BY <2>1, <2>2, <2>3, ZenonT(60)
<1>2. ASSUME NEW r \in ZeroRuns(d, min)
      PROVE  \E a, n \in Nat : r = <<a, n>> /\ r[1] = a /\ r[2] = n
  <2>1. r \in (1 .. Len(d)) \X (min .. Len(d))
    BY ZenonT(60) DEF ZeroRuns
  <2>2. PICK a \in 1 .. Len(d), n \in min .. Len(d) : r = <<a, n>>
    BY <2>1
  <2>3. a \in Nat /\ n \in Nat
    OBVIOUS
  <2> QED BY <2>2, <2>3, ZenonT(60)
<1> QED BY <1>1, <1>2, ZenonT(60)

(* Two runs that end at the same byte are one.                             *)
LEMMA SameEnd ==
  ASSUME NEW d \in Seq(Nat), NEW i \in Nat, NEW a \in 1 .. i, NEW b \in 1 .. i,
         a = 1 \/ d[a - 1] # 0, b = 1 \/ d[b - 1] # 0,
         \A k \in a .. i : d[k] = 0, \A k \in b .. i : d[k] = 0
  PROVE  a = b
<1>1. ~(a < b)
  <2> SUFFICES ASSUME a < b
               PROVE  FALSE
    BY ZenonT(60)
  <2>1. b - 1 \in a .. i /\ b # 1
    OBVIOUS
  <2> QED BY <2>1, ZenonT(60)
<1>2. ~(b < a)
  <2> SUFFICES ASSUME b < a
               PROVE  FALSE
    BY ZenonT(60)
  <2>1. a - 1 \in b .. i /\ a # 1
    OBVIOUS
  <2> QED BY <2>1, ZenonT(60)
<1> QED BY <1>1, <1>2

(* What closing does, with the parts of the state named.                   *)
LEMMA CloseIs ==
  ASSUME NEW s \in Nat, NEW out, NEW i \in Nat, NEW min \in Nat
  PROVE  CloseRegion([start |-> s, out |-> out], i + 1, min)
           = out \cup (IF s # 0 /\ i + 1 - s >= min THEN {<<s, i + 1 - s>>} ELSE {})
BY DEF CloseRegion

(* Closing a region where a run of zeros cannot go on yields just the runs *)
(* that end there.                                                         *)
LEMMA CloseYields ==
  ASSUME NEW d \in Seq(Nat), NEW min \in Nat \ {0}, NEW i \in 0 .. Len(d),
         i = Len(d) \/ d[i + 1] # 0,
         NEW s, Opened(d, s, i)
  PROVE  CloseRegion([start |-> s, out |-> RunsBefore(d, min, i)], i + 1, min)
           = RunsBefore(d, min, i + 1)
<1> DEFINE new == {r \in ZeroRuns(d, min) : r[1] + r[2] = i + 1}
<1>0. s \in Nat /\ Len(d) \in Nat /\ i \in Nat
  BY DEF Opened
<1>1. RunsBefore(d, min, i + 1) = RunsBefore(d, min, i) \cup new
  <2>1. \A r \in ZeroRuns(d, min) : r[1] + r[2] \in Nat
    BY RunIs
  <2>2. \A x \in Nat : x <= i + 1 <=> (x <= i \/ x = i + 1)
    BY <1>0
  <2> QED BY <2>1, <2>2, ZenonT(60) DEF RunsBefore
<1>2. ASSUME NEW r \in new
      PROVE  r = <<s, i + 1 - s>> /\ s # 0 /\ i + 1 - s >= min
  <2>1. PICK a \in Nat, n \in Nat : r = <<a, n>> /\ r[1] = a /\ r[2] = n
    BY <1>2, RunIs, ZenonT(60)
  <2>2. a + n = i + 1 /\ a >= 1 /\ n >= min /\ IsRun(d, a, n)
    BY <1>2, <2>1, RunIs, ZenonT(60)
  <2>3. /\ a \in 1 .. i /\ n = i + 1 - a /\ a + n - 1 = i /\ i \in a .. i /\ i # 0
    BY <1>0, <2>2
  <2>4. (a = 1 \/ d[a - 1] # 0) /\ \A k \in a .. i : d[k] = 0
    BY <2>2, <2>3, ZenonT(60) DEF IsRun
  <2>5. s \in 1 .. i /\ (s = 1 \/ d[s - 1] # 0) /\ \A k \in s .. i : d[k] = 0
    BY <2>3, <2>4, ZenonT(60) DEF Opened
  <2>6. a = s
    BY <1>0, <2>3, <2>4, <2>5, SameEnd, ZenonT(60)
  <2> QED BY <2>1, <2>2, <2>3, <2>5, <2>6
<1>3. ASSUME s # 0, i + 1 - s >= min
      PROVE  <<s, i + 1 - s>> \in new
  <2>1. s \in 1 .. i /\ (s = 1 \/ d[s - 1] # 0) /\ \A k \in s .. i : d[k] = 0
    BY <1>3, ZenonT(60) DEF Opened
  <2>2. /\ i + 1 - s \in Nat /\ s + (i + 1 - s) = i + 1 /\ s + (i + 1 - s) - 1 = i
        /\ s >= 1 /\ i + 1 <= Len(d) + 1 /\ (i = Len(d) => i + 1 = Len(d) + 1)
    BY <1>0, <2>1
  <2>3. IsRun(d, s, i + 1 - s)
    BY <2>1, <2>2, ZenonT(60) DEF IsRun
  <2>4. <<s, i + 1 - s>> \in ZeroRuns(d, min)
    BY <1>0, <1>3, <2>2, <2>3, RunIs, ZenonT(60)
  <2> QED BY <2>2, <2>4, ZenonT(60)
<1> HIDE DEF new
<1>4. new = IF s # 0 /\ i + 1 - s >= min THEN {<<s, i + 1 - s>>} ELSE {}
  BY <1>2, <1>3, ZenonT(60)
<1> DEFINE before == RunsBefore(d, min, i)
<1>5. CloseRegion([start |-> s, out |-> before], i + 1, min) = before \cup new
  <2> HIDE DEF before
  <2>1. CloseRegion([start |-> s, out |-> before], i + 1, min)
          = before \cup (IF s # 0 /\ i + 1 - s >= min THEN {<<s, i + 1 - s>>} ELSE {})
    BY <1>0, CloseIs
  <2> QED BY <1>4, <2>1, ZenonT(60)
<1> QED BY <1>1, <1>5, ZenonT(60)

(* A zero byte neither ends a run nor yields one.                          *)
LEMMA ZeroYields ==
  ASSUME NEW d \in Seq(Nat), NEW min \in Nat \ {0}, NEW i \in 1 .. Len(d), d[i] = 0
  PROVE  RunsBefore(d, min, i) = RunsBefore(d, min, i - 1)
<1>1. ASSUME NEW r \in ZeroRuns(d, min), r[1] + r[2] = i
      PROVE  FALSE
  <2>1. PICK a \in Nat, n \in Nat : r = <<a, n>> /\ r[1] = a /\ r[2] = n
    BY <1>1, RunIs, ZenonT(60)
  <2>2. a + n = i /\ IsRun(d, a, n)
    BY <1>1, <2>1, RunIs, ZenonT(60)
  <2>3. i # Len(d) + 1
    OBVIOUS
  <2> QED BY <1>1, <2>2, <2>3, ZenonT(60) DEF IsRun
<1>2. \A r \in ZeroRuns(d, min) : r[1] + r[2] \in Nat
  BY RunIs
<1>3. \A x \in Nat : x # i => (x <= i <=> x <= i - 1)
  OBVIOUS
<1>4. \A r \in ZeroRuns(d, min) : r[1] + r[2] <= i <=> r[1] + r[2] <= i - 1
  <2> SUFFICES ASSUME NEW r \in ZeroRuns(d, min)
               PROVE  r[1] + r[2] <= i <=> r[1] + r[2] <= i - 1
    BY ZenonT(60)
  <2>1. r[1] + r[2] \in Nat /\ r[1] + r[2] # i
    BY <1>1, <1>2, ZenonT(60)
  <2> QED BY <1>3, <2>1, ZenonT(60)
<1> QED BY <1>4, ZenonT(60) DEF RunsBefore

(* A zero byte opens a region or goes on with the open one.                *)
LEMMA ZeroOpens ==
  ASSUME NEW d \in Seq(Nat), NEW i \in 1 .. Len(d), d[i] = 0, NEW s, Opened(d, s, i - 1)
  PROVE  Opened(d, IF s = 0 THEN i ELSE s, i)
<1>1. CASE i - 1 = 0 \/ d[i - 1] # 0
  <2>1. s = 0
    BY <1>1, ZenonT(60) DEF Opened
  <2>2. i \in 1 .. i /\ i # 0 /\ (i - 1 = 0 => i = 1) /\ \A k \in i .. i : k = i
    OBVIOUS
  <2> QED BY <1>1, <2>1, <2>2, ZenonT(60) DEF Opened
<1>2. CASE ~(i - 1 = 0 \/ d[i - 1] # 0)
  <2>1. s \in 1 .. i - 1 /\ (s = 1 \/ d[s - 1] # 0) /\ \A k \in s .. i - 1 : d[k] = 0
    BY <1>2, ZenonT(60) DEF Opened
  <2>2. s # 0 /\ i # 0 /\ s \in 1 .. i /\ \A k \in s .. i : k = i \/ k \in s .. i - 1
    BY <2>1
  <2>3. \A k \in s .. i : d[k] = 0
    BY <2>1, <2>2, ZenonT(60)
  <2> QED BY <2>1, <2>2, <2>3, ZenonT(60) DEF Opened
<1> QED BY <1>1, <1>2, ZenonT(60)

(* The scan's state after i bytes: the open region and the runs yielded.   *)
LEMMA ScanState ==
  ASSUME NEW d \in Seq(Nat), NEW min \in Nat \ {0}, NEW n \in 0 .. Len(d)
  PROVE  \E s : /\ Opened(d, s, n)
               /\ ZeroScan(d, min)[n] = [start |-> s, out |-> RunsBefore(d, min, n)]
<1> DEFINE P(i) == \E s : /\ Opened(d, s, i)
                         /\ ZeroScan(d, min)[i] = [start |-> s, out |-> RunsBefore(d, min, i)]
           S == {i \in Nat : i <= Len(d) => P(i)}
<1>1. 0 \in S
  <2>1. RunsBefore(d, min, 0) = {}
    <3>1. ASSUME NEW r \in ZeroRuns(d, min), r[1] + r[2] <= 0
          PROVE  FALSE
      <4>1. PICK a \in Nat, m \in Nat : r = <<a, m>> /\ r[1] = a /\ r[2] = m
        BY <3>1, RunIs, ZenonT(60)
      <4>2. a + m <= 0 /\ a >= 1
        BY <3>1, <4>1, RunIs, ZenonT(60)
      <4> QED BY <4>2
    <3> QED BY <3>1, ZenonT(60) DEF RunsBefore
  <2>2. ZeroScan(d, min)[0] = [start |-> 0, out |-> {}]
    BY ScanSteps, ZenonT(60)
  <2>3. Opened(d, 0, 0)
    BY ZenonT(60) DEF Opened
  <2>4. P(0)
    BY <2>1, <2>2, <2>3, ZenonT(60)
  <2> HIDE DEF P
  <2> QED BY <2>4, ZenonT(60)
<1>2. ASSUME NEW i \in Nat, i \in S
      PROVE  i + 1 \in S
  <2>0. SUFFICES ASSUME i + 1 <= Len(d)
                 PROVE  P(i + 1)
    <3> HIDE DEF P
    <3> QED OBVIOUS
  <2>1. /\ i + 1 \in 1 .. Len(d) /\ (i + 1) - 1 = i /\ i <= Len(d) /\ i \in 0 .. Len(d)
        /\ i + 1 # 0
    BY <2>0
  <2>2. PICK s : Opened(d, s, i) /\ ZeroScan(d, min)[i] = [start |-> s, out |-> RunsBefore(d, min, i)]
    BY <1>2, <2>1, ZenonT(60)
  <2> DEFINE r == [start |-> s, out |-> RunsBefore(d, min, i)]
  <2>3. ZeroScan(d, min)[i + 1] = ScanByte(d, min, r, i + 1)
    <3>1. ZeroScan(d, min)[i + 1] = ScanByte(d, min, ZeroScan(d, min)[(i + 1) - 1], i + 1)
      BY <2>1, ScanSteps, ZenonT(60)
    <3> QED BY <2>1, <2>2, <3>1, ZenonT(60)
  <2>4. CASE d[i + 1] = 0
    <3>1. ScanByte(d, min, r, i + 1) = [start |-> IF s = 0 THEN i + 1 ELSE s, out |-> RunsBefore(d, min, i)]
      BY <2>4, ZenonT(60) DEF ScanByte
    <3>2. RunsBefore(d, min, i + 1) = RunsBefore(d, min, i)
      BY <2>1, <2>4, ZeroYields, ZenonT(60)
    <3>3. Opened(d, IF s = 0 THEN i + 1 ELSE s, i + 1)
      <4>1. Opened(d, s, (i + 1) - 1)
        BY <2>1, <2>2, ZenonT(60)
      <4> QED BY <2>1, <2>4, <4>1, ZeroOpens, ZenonT(60)
    <3> QED BY <2>3, <3>1, <3>2, <3>3, ZenonT(60)
  <2>5. CASE d[i + 1] # 0
    <3>1. ScanByte(d, min, r, i + 1) = [start |-> 0, out |-> CloseRegion(r, i + 1, min)]
      BY <2>5, ZenonT(60) DEF ScanByte
    <3>2. CloseRegion(r, i + 1, min) = RunsBefore(d, min, i + 1)
      BY <2>1, <2>2, <2>5, CloseYields, ZenonT(60)
    <3>3. Opened(d, 0, i + 1)
      BY <2>5, ZenonT(60) DEF Opened
    <3> QED BY <2>3, <3>1, <3>2, <3>3, ZenonT(60)
  <2> QED BY <2>4, <2>5, ZenonT(60)
<1> HIDE DEF S
<1>3. Nat \subseteq S
  BY <1>1, <1>2, Induction, ZenonT(60)
<1>4. n \in Nat /\ n <= Len(d)
  OBVIOUS
<1> QED BY <1>3, <1>4, ZenonT(60) DEF S

(* find_zero_regions yields the maximal runs of at least min zeros.        *)
LEMMA RegionsExact ==
  ASSUME NEW d \in Seq(Nat), NEW min \in Nat \ {0}
  PROVE  FindZeroRegions(d, min) = ZeroRuns(d, min)
<1>1. Len(d) \in 0 .. Len(d)
  OBVIOUS
<1>2. PICK s : /\ Opened(d, s, Len(d))
               /\ ZeroScan(d, min)[Len(d)] = [start |-> s, out |-> RunsBefore(d, min, Len(d))]
  BY <1>1, ScanState, ZenonT(60)
<1>3. FindZeroRegions(d, min) = RunsBefore(d, min, Len(d) + 1)
  BY <1>1, <1>2, CloseYields, ZenonT(60) DEF FindZeroRegions
<1>4. ASSUME NEW r \in ZeroRuns(d, min)
      PROVE  r[1] + r[2] <= Len(d) + 1
  <2>1. PICK a \in Nat, n \in Nat : r = <<a, n>> /\ r[1] = a /\ r[2] = n
    BY <1>4, RunIs, ZenonT(60)
  <2>2. IsRun(d, a, n)
    BY <1>4, <2>1, RunIs, ZenonT(60)
  <2> QED BY <2>1, <2>2, ZenonT(60) DEF IsRun
<1> QED BY <1>3, <1>4, ZenonT(60) DEF RunsBefore

-----------------------------------------------------------------------------
(* The chunks from o on, as the recursion of chunk_data gives them, for    *)
(* the last n offsets.                                                     *)
Chunked(f, d, min, n) ==
  f = [o \in Len(d) - n .. Len(d) |->
         IF o = Len(d) THEN <<>>
         ELSE <<SubSeq(d, o + 1, ChunkEnd(d, min, o))>> \o f[ChunkEnd(d, min, o)]]

(* A chunk takes in at least a byte and ends with the data.                *)
LEMMA ChunkEnds ==
  ASSUME NEW d \in Seq(Nat), NEW min \in Nat \ {0}, NEW o \in 0 .. Len(d), o # Len(d)
  PROVE  ChunkEnd(d, min, o) \in o + 1 .. Len(d)
BY DEF ChunkEnd

LEMMA ChunksExist ==
  ASSUME NEW d \in Seq(Nat), NEW min \in Nat \ {0}, NEW n \in 0 .. Len(d)
  PROVE  \E f : Chunked(f, d, min, n)
<1> DEFINE L == Len(d)
           C(f, o) == IF o = L THEN <<>>
                      ELSE <<SubSeq(d, o + 1, ChunkEnd(d, min, o))>> \o f[ChunkEnd(d, min, o)]
           S == {m \in Nat : m <= L => \E f : Chunked(f, d, min, m)}
<1>0. L \in Nat
  OBVIOUS
<1>1. 0 \in S
  <2>1. L - 0 = L /\ \A o \in L .. L : o = L
    BY <1>0
  <2> DEFINE g == [o \in L .. L |-> <<>>]
  <2>2. Chunked(g, d, min, 0)
    BY <2>1, ZenonT(60) DEF Chunked
  <2> QED BY <2>2, ZenonT(60)
<1>2. ASSUME NEW m \in Nat, m \in S
      PROVE  m + 1 \in S
  <2>0. SUFFICES ASSUME m + 1 <= L
                 PROVE  \E f : Chunked(f, d, min, m + 1)
    OBVIOUS
  <2> DEFINE k == L - (m + 1)
  <2>1. /\ m <= L /\ k \in 0 .. L /\ k # L /\ L - m = k + 1
        /\ \A o \in k .. L : o \in 0 .. L /\ (o # k => o \in k + 1 .. L)
        /\ \A o \in k .. L : \A e \in o + 1 .. L : e \in k + 1 .. L /\ e \in k .. L /\ e # k
        /\ \A o \in k + 1 .. L : o \in k .. L /\ o # k
    BY <1>0, <2>0
  <2>2. PICK f : Chunked(f, d, min, m)
    BY <1>2, <2>1, ZenonT(60)
  <2>3. \A o \in k + 1 .. L : f[o] = C(f, o)
    BY <2>1, <2>2, ZenonT(60) DEF Chunked
  <2> DEFINE g == [o \in k .. L |-> IF o = k THEN C(f, k) ELSE f[o]]
  <2>4. ASSUME NEW o \in k .. L
        PROVE  g[o] = C(g, o)
    <3>1. CASE o = L
      BY <2>1, <2>3, <3>1, ZenonT(60)
    <3>2. CASE o # L
      <4> DEFINE e == ChunkEnd(d, min, o)
      <4>1. e \in o + 1 .. L
        BY <2>1, <3>2, ChunkEnds, ZenonT(60)
      <4>2. g[e] = f[e]
        <5> HIDE DEF e
        <5> QED BY <2>1, <4>1, ZenonT(60)
      <4>3. g[o] = C(f, o)
        BY <2>1, <2>3, ZenonT(60)
      <4> HIDE DEF g
      <4> QED BY <3>2, <4>2, <4>3, ZenonT(60)
    <3> QED BY <3>1, <3>2, ZenonT(60)
  <2>5. g = [o \in k .. L |-> g[o]]
    BY ZenonT(60)
  <2> HIDE DEF g
  <2>6. Chunked(g, d, min, m + 1)
    BY <2>4, <2>5, ZenonT(60) DEF Chunked
  <2> QED BY <2>6, ZenonT(60)
<1> HIDE DEF S
<1>3. Nat \subseteq S
  BY <1>1, <1>2, Induction, ZenonT(60)
<1>4. n \in Nat /\ n <= L
  BY <1>0
<1> QED BY <1>3, <1>4, ZenonT(60) DEF S

(* What the recursion of chunk_data says.                                  *)
LEMMA ChunkSteps ==
  ASSUME NEW d \in Seq(Nat), NEW min \in Nat \ {0}
  PROVE  /\ ChunksFrom(d, min)[Len(d)] = <<>>
         /\ \A o \in 0 .. Len(d) : o # Len(d) =>
              ChunksFrom(d, min)[o] = <<SubSeq(d, o + 1, ChunkEnd(d, min, o))>>
                                        \o ChunksFrom(d, min)[ChunkEnd(d, min, o)]
<1>1. Len(d) \in 0 .. Len(d) /\ Len(d) - Len(d) = 0
  OBVIOUS
<1>2. \E f : Chunked(f, d, min, Len(d))
  BY <1>1, ChunksExist, ZenonT(60)
<1>3. Chunked(ChunksFrom(d, min), d, min, Len(d))
  BY <1>1, <1>2, ZenonT(60) DEF ChunksFrom, Chunked
<1> DEFINE f == ChunksFrom(d, min)
<1> HIDE DEF f
<1>4. f = [o \in 0 .. Len(d) |->
            IF o = Len(d) THEN <<>>
            ELSE <<SubSeq(d, o + 1, ChunkEnd(d, min, o))>> \o f[ChunkEnd(d, min, o)]]
  BY <1>1, <1>3, ZenonT(60) DEF Chunked, f
<1>5. \A o \in 0 .. Len(d) : f[o] =
        IF o = Len(d) THEN <<>>
        ELSE <<SubSeq(d, o + 1, ChunkEnd(d, min, o))>> \o f[ChunkEnd(d, min, o)]
  BY <1>4, ZenonT(60)
<1> QED BY <1>1, <1>5, ZenonT(60) DEF f

(* c is d from offset o on, cut every min bytes.                           *)
CutFrom(c, d, min, o) ==
  /\ c \in Seq(Seq(Nat))
  /\ Len(d) <= o + Len(c) * min
  /\ c # <<>> => o + (Len(c) - 1) * min < Len(d)
  /\ \A i \in 1 .. Len(c) :
       c[i] = SubSeq(d, o + (i - 1) * min + 1, IF o + i * min < Len(d) THEN o + i * min ELSE Len(d))

LEMMA Products ==
  ASSUME NEW a \in Int, NEW b \in Int
  PROVE  a * b \in Int /\ (a + 1) * b = a * b + b /\ (a - 1) * b = a * b - b
OBVIOUS

LEMMA CutOne ==
  ASSUME NEW x \in Seq(Nat), NEW c \in Seq(Seq(Nat))
  PROVE  /\ <<x>> \o c \in Seq(Seq(Nat)) /\ Len(<<x>> \o c) = Len(c) + 1
         /\ (<<x>> \o c)[1] = x /\ \A i \in 1 .. Len(c) : (<<x>> \o c)[i + 1] = c[i]
OBVIOUS

(* Another chunk of min bytes before the rest.                             *)
LEMMA CutMore ==
  ASSUME NEW d \in Seq(Nat), NEW min \in Nat \ {0}, NEW o \in 0 .. Len(d),
         min < Len(d) - o, NEW c, CutFrom(c, d, min, o + min)
  PROVE  CutFrom(<<SubSeq(d, o + 1, o + min)>> \o c, d, min, o)
<1> DEFINE L == Len(d)
           x == SubSeq(d, o + 1, o + min)
           w == <<x>> \o c
           n == Len(c)
<1>0. L \in Nat /\ min \in Nat /\ min > 0 /\ o \in Nat
  OBVIOUS
<1>1. c \in Seq(Seq(Nat)) /\ n \in Nat
  BY DEF CutFrom
<1>2. x \in Seq(Nat)
  BY <1>0
<1>3. /\ w \in Seq(Seq(Nat)) /\ Len(w) = n + 1 /\ w # <<>>
      /\ w[1] = x /\ \A i \in 1 .. n : w[i + 1] = c[i]
  <2> HIDE DEF x
  <2> QED BY <1>1, <1>2, CutOne
<1>4. L <= o + min + n * min /\ (c # <<>> => o + min + (n - 1) * min < L)
  BY ZenonT(60) DEF CutFrom
<1>5. n * min \in Int /\ (n + 1) * min = n * min + min /\ (n - 1) * min = n * min - min
      /\ (n + 1) - 1 = n
  BY <1>0, <1>1, Products
<1>6. c = <<>> => n = 0
  OBVIOUS
<1>7. L <= o + (n + 1) * min /\ o + ((n + 1) - 1) * min < L
  BY <1>0, <1>4, <1>5, <1>6
<1>8. ASSUME NEW i \in 1 .. n + 1
      PROVE  w[i] = SubSeq(d, o + (i - 1) * min + 1, IF o + i * min < L THEN o + i * min ELSE L)
  <2>1. CASE i = 1
    <3>1. (1 - 1) * min = 0 /\ 1 * min = min /\ o + min < L /\ o + 0 + 1 = o + 1
      BY <1>0
    <3> QED BY <1>3, <2>1, <3>1, ZenonT(60)
  <2>2. CASE i # 1
    <3> DEFINE k == i - 1
    <3>1. k \in 1 .. n /\ i = k + 1 /\ k \in Int
      BY <1>1, <2>2
    <3>2. /\ o + (i - 1) * min + 1 = o + min + (k - 1) * min + 1
          /\ o + i * min = o + min + k * min
      <4>1. k * min \in Int /\ (k + 1) * min = k * min + min /\ (k - 1) * min = k * min - min
        BY <1>0, <3>1, Products
      <4> HIDE DEF k
      <4>2. i - 1 = k
        BY <3>1
      <4> QED BY <1>0, <3>1, <4>1, <4>2
    <3>3. c[k] = SubSeq(d, o + min + (k - 1) * min + 1,
                        IF o + min + k * min < L THEN o + min + k * min ELSE L)
      <4> HIDE DEF k
      <4> QED BY <3>1, ZenonT(60) DEF CutFrom
    <3>4. w[i] = c[k]
      <4> HIDE DEF k, w
      <4> QED BY <1>3, <3>1, ZenonT(60)
    <3> HIDE DEF k, w
    <3> QED BY <3>2, <3>3, <3>4, ZenonT(60)
  <2> QED BY <2>1, <2>2, ZenonT(60)
<1> HIDE DEF w
<1>9. CutFrom(w, d, min, o)
  BY <1>3, <1>7, <1>8, ZenonT(60) DEF CutFrom
<1> QED BY <1>9, ZenonT(60) DEF w

(* chunk_data cuts the data every min bytes.                               *)
LEMMA ChunksCut ==
  ASSUME NEW d \in Seq(Nat), NEW min \in Nat \ {0}
  PROVE  CutFrom(ChunkData(d, min), d, min, 0)
<1> DEFINE L == Len(d)
           f == ChunksFrom(d, min)
           S == {m \in Nat : \A o \in 0 .. L : L - o <= m => CutFrom(f[o], d, min, o)}
<1>0. L \in Nat
  OBVIOUS
<1>1. CutFrom(f[L], d, min, L)
  <2>1. f[L] = <<>>
    BY ChunkSteps, ZenonT(60)
  <2>2. <<>> \in Seq(Seq(Nat)) /\ Len(<<>>) = 0 /\ L <= L + 0 * min
    BY <1>0
  <2>3. \A i \in 1 .. 0 : FALSE
    OBVIOUS
  <2>4. CutFrom(<<>>, d, min, L)
    BY <2>2, <2>3, ZenonT(60) DEF CutFrom
  <2> HIDE DEF f
  <2> QED BY <2>1, <2>4, ZenonT(60)
<1>2. 0 \in S
  <2>1. \A o \in 0 .. L : L - o <= 0 => o = L
    BY <1>0
  <2> HIDE DEF f
  <2> QED BY <1>1, <2>1, ZenonT(60)
<1>3. ASSUME NEW m \in Nat, m \in S
      PROVE  m + 1 \in S
  <2> SUFFICES ASSUME NEW o \in 0 .. L, L - o <= m + 1
               PROVE  CutFrom(f[o], d, min, o)
    OBVIOUS
  <2>1. CASE o = L
    BY <1>1, <2>1, ZenonT(60)
  <2>2. CASE o # L
    <3>1. f[o] = <<SubSeq(d, o + 1, ChunkEnd(d, min, o))>> \o f[ChunkEnd(d, min, o)]
      BY <2>2, ChunkSteps, ZenonT(60)
    <3> HIDE DEF f
    <3>2. CASE min < L - o
      <4>1. ChunkEnd(d, min, o) = o + min /\ o + min \in 0 .. L /\ L - (o + min) <= m
        BY <3>2 DEF ChunkEnd
      <4>2. CutFrom(f[o + min], d, min, o + min)
        BY <1>3, <4>1, ZenonT(60)
      <4> QED BY <3>1, <3>2, <4>1, <4>2, CutMore, ZenonT(60)
    <3>3. CASE ~(min < L - o)
      <4> DEFINE x == SubSeq(d, o + 1, L)
      <4>1. f[o] = <<x>> \o f[L]
        BY <3>1, <3>3, ZenonT(60) DEF ChunkEnd
      <4>2. f[L] = <<>>
        BY ChunkSteps, ZenonT(60) DEF f
      <4>3. x \in Seq(Nat)
        BY <1>0
      <4> HIDE DEF x
      <4>4. f[o] = <<x>> /\ f[o] \in Seq(Seq(Nat)) /\ Len(f[o]) = 1 /\ f[o][1] = x
        BY <4>1, <4>2, <4>3
      <4>5. /\ L <= o + 1 * min /\ o + (1 - 1) * min < L /\ o + (1 - 1) * min + 1 = o + 1
            /\ ~(o + 1 * min < L) /\ \A i \in 1 .. 1 : i = 1
        BY <1>0, <2>2, <3>3
      <4> QED BY <4>4, <4>5, ZenonT(60) DEF CutFrom, x
    <3> QED BY <3>2, <3>3, ZenonT(60)
  <2> QED BY <2>1, <2>2, ZenonT(60)
<1> HIDE DEF S
<1>4. Nat \subseteq S
  BY <1>2, <1>3, Induction, ZenonT(60)
<1>5. L \in S /\ 0 \in 0 .. L /\ L - 0 <= L
  BY <1>0, <1>4
<1> QED BY <1>5, ZenonT(60) DEF S, ChunkData

(* Without the offset, that is what CutEvery says.                         *)
LEMMA ChunksExact ==
  ASSUME NEW d \in Seq(Nat), NEW min \in Nat \ {0}
  PROVE  CutEvery(ChunkData(d, min), d, min)
<1> DEFINE c == ChunkData(d, min)
<1>1. CutFrom(c, d, min, 0)
  BY ChunksCut, ZenonT(60)
<1> HIDE DEF c
<1>2. Len(c) \in Nat /\ min \in Int
  BY <1>1 DEF CutFrom
<1>3. \A x \in Int : x * min \in Int /\ 0 + x * min = x * min /\ 0 + x = x
  BY <1>2
<1>4. Len(c) \in Int /\ Len(c) - 1 \in Int /\ \A i \in 1 .. Len(c) : i \in Int /\ i - 1 \in Int
  BY <1>2
<1>5. /\ 0 + Len(c) * min = Len(c) * min /\ 0 + (Len(c) - 1) * min = (Len(c) - 1) * min
      /\ \A i \in 1 .. Len(c) : 0 + i * min = i * min /\ 0 + (i - 1) * min = (i - 1) * min
  BY <1>3, <1>4, ZenonT(60)
<1>6. CutEvery(c, d, min)
  BY <1>1, <1>5, ZenonT(60) DEF CutFrom, CutEvery
<1> QED BY <1>6, ZenonT(60) DEF c

-----------------------------------------------------------------------------
(* The encoded form of a repeated byte or zero block is not one itself, so *)
(* pattern removal leaves data that has that form alone.                   *)
LEMMA EncodedNotRepeated ==
  ASSUME NEW d \in Blocks, IsRepeated(d)
  PROVE  ~IsRepeated(Encode(d))
<1>1. CASE IsZeroBlock(d)
  BY <1>1, CodecAssumption, ZenonT(60) DEF Encode
<1>2. CASE ~IsZeroBlock(d)
  <2> DEFINE P == PATTERN_BLOCK_PREFIX
             z == ToBytes(Len(d))
             c == P \o <<d[1]>> \o z
  <2>1. d \in Seq(Nat) /\ Len(d) \in Nat /\ P \in Seq(Nat) /\ Len(P) \in Nat /\ Len(P) >= 4
    BY Cells, ZenonT(60)
  <2>2. d[1] \in Nat
    BY <1>2, <2>1 DEF IsZeroBlock
  <2>7. z \in Seq(Nat) /\ Len(z) = 4
    BY <2>1, SizeRoundTrip, ZenonT(60)
  <2>6. Encode(d) = c
    BY <1>2, ZenonT(60) DEF Encode
  <2> HIDE DEF z
  <2>3. Len(c) = Len(P) + 5 /\ \A i \in 1 .. Len(P) : c[i] = P[i]
    BY <2>1, <2>2, <2>7, Suffix, ZenonT(60)
  <2>4. PICK i \in 1 .. Len(P) : P[i] # P[1]
    BY CodecAssumption, ZenonT(60) DEF IsRepeated
  <2>5. i \in 1 .. Len(c) /\ c[i] # c[1]
    <3>1. i \in Nat /\ 1 <= i /\ i <= Len(P) /\ 1 \in 1 .. Len(P)
      BY <2>1, <2>4
    <3>2. c[i] = P[i] /\ c[1] = P[1]
      <4> HIDE DEF c
      <4> QED BY <2>3, <2>4, <3>1, ZenonT(60)
    <3>3. i \in 1 .. Len(c)
      <4> HIDE DEF c
      <4> QED BY <2>1, <2>3, <3>1
    <3> HIDE DEF c
    <3> QED BY <2>4, <3>2, <3>3, ZenonT(60)
  <2> HIDE DEF c
  <2> QED BY <2>5, <2>6, ZenonT(60) DEF IsRepeated
<1> QED BY <1>1, <1>2, ZenonT(60)

(* A duplicate of d: a block stored for data that is d's reduced form      *)
(* reads back as d.                                                        *)
LEMMA DuplicateReadsBack ==
  ASSUME NEW d \in Blocks, NEW s \in Settings, Survives(d, s), Reduced(d, s) \in Blocks
  PROVE  Retrieve(Stored(Reduced(d, s), s)) = d
<1>1. CASE ~PatternReduced(d, s)
  <2>1. Reduced(d, s) = d
    BY <1>1, ZenonT(60) DEF Reduced
  <2> QED BY <2>1, StoredReadsBack, ZenonT(60)
<1>2. CASE PatternReduced(d, s)
  <2> DEFINE e == Encode(d)
  <2>1. Reduced(d, s) = e /\ e \in Blocks
    BY <1>2, ZenonT(60) DEF Reduced
  <2>2. IsRepeated(d) /\ (IsZeroBlock(d) => Len(d) = BlockSize)
    BY <1>2, ZenonT(60) DEF PatternReduced, Survives
  <2>3. IsEncoded(e) /\ ~HasHeader(e) /\ Decode(e) = d
    BY <2>2, PatternRoundTrip, ZenonT(60)
  <2>4. ~PatternReduced(e, s)
    BY <2>2, EncodedNotRepeated, ZenonT(60) DEF PatternReduced
  <2> HIDE DEF e
  <2>5. CASE s.compression
    <3>1. Stored(e, s) = Compress(e)
      BY <2>4, <2>5, ZenonT(60) DEF Stored
    <3>2. HasHeader(Compress(e)) /\ Decompress(Compress(e)) = e
      BY <2>1, HeaderRoundTrip, ZenonT(60)
    <3> QED BY <2>1, <2>3, <3>1, <3>2, ZenonT(60) DEF Retrieve
  <2>6. CASE ~s.compression
    <3>1. Stored(e, s) = e
      BY <2>4, <2>6, ZenonT(60) DEF Stored, Reduced
    <3> QED BY <2>1, <2>3, <3>1, ZenonT(60) DEF Retrieve
  <2> QED BY <2>5, <2>6, ZenonT(60)
<1> QED BY <1>1, <1>2, ZenonT(60)

-----------------------------------------------------------------------------
WriteRec == [data : Inputs, st : WriteStates, block : Writes]
EntryRec == [block : Writes, size : Nat, ref : Nat \ {0}]

(* An entry of the table names a block stored for the data that is its     *)
(* fingerprint.                                                            *)
EntriesSound(t, ws) ==
  \A f \in DOMAIN t : /\ t[f] \in EntryRec
                       /\ t[f].block \in DOMAIN ws
                       /\ ws[t[f].block].data = f

(* A write has the block it stored, or one stored for its reduced form.    *)
BlocksSound(ws) ==
  \A w \in DOMAIN ws :
    \/ ws[w].block = w
    \/ /\ ws[w].block \in DOMAIN ws
       /\ ws[ws[w].block].data = Reduced(ws[w].data, settings)

Inv ==
  /\ settings \in Settings
  /\ writes \in Seq(WriteRec)
  /\ Len(writes) <= MaxWrites
  /\ EntriesSound(table, writes)
  /\ BlocksSound(writes)

(* The records of the writes, by index.                                    *)
LEMMA WritesTyped ==
  ASSUME Inv
  PROVE  DOMAIN writes = 1 .. Len(writes) /\ \A w \in DOMAIN writes : writes[w] \in WriteRec
<1>1. writes \in Seq(WriteRec)
  BY ZenonT(60) DEF Inv
<1> HIDE DEF WriteRec
<1> QED BY <1>1

(* The invariant gives what retrieve promises.                             *)
LEMMA InvReadsBack == Inv => ReadsBack
<1> SUFFICES ASSUME Inv, NEW w \in Held, Survives(writes[w].data, settings)
             PROVE  Retrieve(Content(writes[w].block)) = writes[w].data
  BY ZenonT(60) DEF ReadsBack
<1> DEFINE d == writes[w].data
           b == writes[w].block
<1>1. w \in DOMAIN writes /\ d \in Blocks /\ settings \in Settings
  BY EngineAssumption, WritesTyped, ZenonT(60) DEF Inv, Held, WriteRec
<1>2. CASE b = w
  BY <1>1, <1>2, StoredReadsBack, ZenonT(60) DEF Content
<1>3. CASE b \in DOMAIN writes /\ writes[b].data = Reduced(d, settings)
  <2>1. writes[b].data \in Blocks
    BY <1>3, EngineAssumption, WritesTyped, ZenonT(60) DEF WriteRec
  <2> QED BY <1>1, <1>3, <2>1, DuplicateReadsBack, ZenonT(60) DEF Content
<1> QED BY <1>1, <1>2, <1>3, ZenonT(60) DEF Inv, BlocksSound

(* A step that only moves write w on leaves every write's data and block   *)
(* as they were.                                                           *)
LEMMA StateChanges ==
  ASSUME Inv, NEW w \in DOMAIN writes, NEW x \in WriteStates,
         writes' = [writes EXCEPT ![w].st = x]
  PROVE  /\ writes' \in Seq(WriteRec) /\ Len(writes') = Len(writes) /\ DOMAIN writes' = DOMAIN writes
         /\ \A v \in DOMAIN writes : writes'[v].data = writes[v].data /\ writes'[v].block = writes[v].block
<1>1. writes \in Seq(WriteRec) /\ DOMAIN writes = 1 .. Len(writes)
  BY WritesTyped, ZenonT(60) DEF Inv
<1>2. [writes[w] EXCEPT !.st = x] \in WriteRec
  BY WritesTyped, ZenonT(60) DEF WriteRec
<1>3. writes' = [writes EXCEPT ![w] = [writes[w] EXCEPT !.st = x]]
  BY ZenonT(60)
<1>4. /\ [writes[w] EXCEPT !.st = x].data = writes[w].data
      /\ [writes[w] EXCEPT !.st = x].block = writes[w].block
  BY WritesTyped, ZenonT(60) DEF WriteRec
<1> DEFINE r == [writes[w] EXCEPT !.st = x]
<1> HIDE DEF WriteRec, r
<1>5. writes' = [writes EXCEPT ![w] = r]
  BY <1>3, ZenonT(60) DEF r
<1>6. r \in WriteRec /\ r.data = writes[w].data /\ r.block = writes[w].block
  BY <1>2, <1>4, ZenonT(60) DEF r
<1> QED BY <1>1, <1>5, <1>6

(* So the invariant holds after such a step when the table is still sound. *)
LEMMA StateChangesKeepInv ==
  ASSUME Inv, NEW w \in DOMAIN writes, NEW x \in WriteStates,
         writes' = [writes EXCEPT ![w].st = x], settings' = settings,
         EntriesSound(table', writes)
  PROVE  Inv'
<1>1. /\ writes' \in Seq(WriteRec) /\ Len(writes') = Len(writes) /\ DOMAIN writes' = DOMAIN writes
      /\ \A v \in DOMAIN writes : /\ writes'[v].data = writes[v].data
                                  /\ writes'[v].block = writes[v].block
  BY StateChanges, ZenonT(60)
<1>2. EntriesSound(table', writes')
  <2> SUFFICES ASSUME NEW f \in DOMAIN table'
               PROVE  /\ table'[f] \in EntryRec
                      /\ table'[f].block \in DOMAIN writes'
                      /\ writes'[table'[f].block].data = f
    BY ZenonT(60) DEF EntriesSound
  <2>1. /\ table'[f] \in EntryRec
        /\ table'[f].block \in DOMAIN writes
        /\ writes[table'[f].block].data = f
    BY ZenonT(60) DEF EntriesSound
  <2> QED BY <1>1, <2>1, ZenonT(60)
<1>3. BlocksSound(writes)'
  BY <1>1 DEF Inv, BlocksSound
<1> QED BY <1>1, <1>2, <1>3, ZenonT(60) DEF Inv, WriteRec, EntryRec, Writes, EntriesSound

(* A new write that has its own number as block, or a block the table      *)
(* names for its reduced form, keeps the invariant.                        *)
LEMMA AppendKeepsInv ==
  ASSUME Inv, Len(writes) < MaxWrites, NEW r \in WriteRec,
         writes' = Append(writes, r), settings' = settings,
         EntriesSound(table', writes),
         \/ r.block = Len(writes) + 1
         \/ /\ r.block \in DOMAIN writes
            /\ writes[r.block].data = Reduced(r.data, settings)
  PROVE  Inv'
<1>1. writes \in Seq(WriteRec) /\ DOMAIN writes = 1 .. Len(writes)
  BY WritesTyped, ZenonT(60) DEF Inv
<1>2. /\ writes' \in Seq(WriteRec) /\ Len(writes') = Len(writes) + 1
      /\ DOMAIN writes' = 1 .. Len(writes) + 1
      /\ \A v \in DOMAIN writes : writes'[v] = writes[v]
      /\ writes'[Len(writes) + 1] = r
  <2> HIDE DEF WriteRec
  <2> QED BY <1>1
<1>3. DOMAIN writes \subseteq DOMAIN writes' /\ Len(writes) + 1 \in DOMAIN writes'
  BY <1>1, <1>2
<1>4. Len(writes') <= MaxWrites
  BY <1>1, <1>2, EngineAssumption
<1>5. EntriesSound(table', writes')
  BY <1>2, <1>3, ZenonT(60) DEF EntriesSound
<1>6. ASSUME NEW v \in DOMAIN writes'
      PROVE  \/ writes'[v].block = v
             \/ /\ writes'[v].block \in DOMAIN writes'
                /\ writes'[writes'[v].block].data = Reduced(writes'[v].data, settings')
  <2>1. CASE v \in DOMAIN writes
    BY <1>2, <1>3, <2>1, ZenonT(60) DEF Inv, BlocksSound
  <2>2. CASE v = Len(writes) + 1
    BY <1>2, <1>3, <2>2, ZenonT(60)
  <2> QED BY <1>1, <1>2, <2>1, <2>2
<1> QED BY <1>2, <1>4, <1>5, <1>6, ZenonT(60) DEF Inv, BlocksSound, WriteRec, EntryRec, Writes, EntriesSound

(* register_block keeps the table sound when the block was stored for the  *)
(* data it registers.                                                      *)
LEMMA RegisterKeepsTable ==
  ASSUME Inv, NEW c \in Seq(Nat), NEW b \in DOMAIN writes,
         ~Known(c) => writes[b].data = c,
         RegisterBlock(c, b)
  PROVE  EntriesSound(table', writes)
<1>1. b \in Writes
  BY WritesTyped, EngineAssumption DEF Inv, Writes
<1>2. CASE Known(c)
  <2>1. table' = [table EXCEPT ![c].ref = @ + 1]
    BY <1>2, ZenonT(60) DEF RegisterBlock, Fingerprint
  <2>2. [table[c] EXCEPT !.ref = @ + 1] \in EntryRec /\ [table[c] EXCEPT !.ref = @ + 1].block = table[c].block
    <3>1. table[c] \in EntryRec
      BY <1>2, ZenonT(60) DEF Inv, EntriesSound, Known
    <3> QED BY <3>1 DEF EntryRec
  <2>3. /\ DOMAIN table' = DOMAIN table
        /\ \A f \in DOMAIN table : table'[f] \in EntryRec /\ table'[f].block = table[f].block
    BY <2>1, <2>2, <1>2, ZenonT(60) DEF Inv, EntriesSound, Known
  <2> QED BY <2>3, ZenonT(60) DEF Inv, EntriesSound
<1>3. CASE ~Known(c)
  <2>1. table' = [g \in DOMAIN table \cup {c} |-> IF g = c THEN Entry(b, Len(c)) ELSE table[g]]
    BY <1>3, ZenonT(60) DEF RegisterBlock, Fingerprint, Extend
  <2>2. Entry(b, Len(c)) \in EntryRec /\ Entry(b, Len(c)).block = b
    BY <1>1 DEF Entry, EntryRec
  <2> QED BY <1>3, <2>1, <2>2, ZenonT(60) DEF Inv, EntriesSound, Known
<1> QED BY <1>2, <1>3, ZenonT(60)

(* dereference_block only lowers counts and removes entries.               *)
LEMMA DereferenceKeepsTable ==
  ASSUME Inv, NEW f, DereferenceBlock(f)
  PROVE  EntriesSound(table', writes)
<1>1. CASE ~Known(f)
  BY <1>1, ZenonT(60) DEF DereferenceBlock, Inv
<1>2. CASE Known(f) /\ table[f].ref > 1
  <2>1. table' = [table EXCEPT ![f].ref = @ - 1]
    BY <1>2, ZenonT(60) DEF DereferenceBlock
  <2>2. [table[f] EXCEPT !.ref = @ - 1] \in EntryRec /\ [table[f] EXCEPT !.ref = @ - 1].block = table[f].block
    <3>1. table[f] \in EntryRec
      BY <1>2, ZenonT(60) DEF Inv, EntriesSound, Known
    <3> QED BY <1>2, <3>1 DEF EntryRec
  <2>3. /\ DOMAIN table' = DOMAIN table
        /\ \A g \in DOMAIN table : table'[g] \in EntryRec /\ table'[g].block = table[g].block
    BY <2>1, <2>2, <1>2, ZenonT(60) DEF Inv, EntriesSound, Known
  <2> QED BY <2>3, ZenonT(60) DEF Inv, EntriesSound
<1>3. CASE Known(f) /\ ~(table[f].ref > 1)
  <2>1. table' = [g \in DOMAIN table \ {f} |-> table[g]]
    BY <1>3, ZenonT(60) DEF DereferenceBlock, Restrict
  <2> QED BY <2>1, ZenonT(60) DEF Inv, EntriesSound
<1> QED BY <1>1, <1>2, <1>3, ZenonT(60)

(* Every step of the engine keeps the invariant.                           *)
LEMMA NextKeepsInv == Inv /\ [Next]_vars => Inv'
<1> SUFFICES ASSUME Inv, [Next]_vars PROVE Inv'
  BY ZenonT(60)
<1> USE DEF WriteStates
<1>1. ASSUME NEW d \in Inputs, ReduceDuplicate(d) PROVE Inv'
  <2> DEFINE c == Reduced(d, settings)
             b == table[c].block
             r == Write(d, "held", b)
  <2>1. /\ Len(writes) < MaxWrites /\ c \in DOMAIN table /\ settings' = settings
        /\ RegisterBlock(c, b) /\ writes' = Append(writes, r)
    BY <1>1, ZenonT(60) DEF ReduceDuplicate, Duplicate, Known, Fingerprint
  <2>2. b \in DOMAIN writes /\ b \in Writes /\ writes[b].data = c
    BY <2>1, ZenonT(60) DEF Inv, EntriesSound, EntryRec
  <2>3. r \in WriteRec /\ r.data = d /\ r.block = b
    BY <2>2, ZenonT(60) DEF Write, WriteRec
  <2>4. c \in Seq(Nat)
    BY <2>2, WritesTyped, EngineAssumption, CodecAssumption, ZenonT(60) DEF WriteRec
  <2>5. EntriesSound(table', writes)
    BY <2>1, <2>2, <2>4, RegisterKeepsTable, ZenonT(60)
  <2> HIDE DEF c, b, r
  <2>6. writes[r.block].data = Reduced(r.data, settings) /\ r.block \in DOMAIN writes
    BY <2>2, <2>3, ZenonT(60) DEF c
  <2> QED BY <2>1, <2>3, <2>5, <2>6, AppendKeepsInv, ZenonT(60)
<1>2. ASSUME NEW d \in Inputs, ReduceNew(d) PROVE Inv'
  <2> DEFINE r == Write(d, "storing", Len(writes) + 1)
  <2>1. /\ Len(writes) < MaxWrites /\ settings' = settings /\ table' = table
        /\ writes' = Append(writes, r)
    BY <1>2, ZenonT(60) DEF ReduceNew
  <2>2. Len(writes) \in Nat
    BY DEF Inv
  <2>3. r \in WriteRec /\ r.block = Len(writes) + 1
    BY <2>1, <2>2, EngineAssumption DEF Write, WriteRec, Writes
  <2>4. EntriesSound(table', writes)
    BY <2>1, ZenonT(60) DEF Inv
  <2> HIDE DEF r
  <2> QED BY <2>1, <2>3, <2>4, AppendKeepsInv, ZenonT(60)
<1>3. ASSUME NEW w \in DOMAIN writes, StoreDone(w) PROVE Inv'
  <2>1. /\ settings' = settings /\ RegisterBlock(writes[w].data, w)
        /\ writes' = [writes EXCEPT ![w].st = "held"]
    BY <1>3, ZenonT(60) DEF StoreDone
  <2>2. writes[w].data \in Seq(Nat)
    BY WritesTyped, EngineAssumption, CodecAssumption, ZenonT(60) DEF WriteRec
  <2>3. EntriesSound(table', writes)
    BY <2>1, <2>2, RegisterKeepsTable, ZenonT(60)
  <2> QED BY <2>1, <2>3, StateChangesKeepInv, ZenonT(60)
<1>4. ASSUME NEW w \in DOMAIN writes, StoreFails(w) PROVE Inv'
  <2>1. /\ settings' = settings /\ table' = table
        /\ writes' = [writes EXCEPT ![w].st = "failed"]
    BY <1>4, ZenonT(60) DEF StoreFails
  <2>2. EntriesSound(table', writes)
    BY <2>1, ZenonT(60) DEF Inv
  <2> QED BY <2>1, <2>2, StateChangesKeepInv, ZenonT(60)
<1>5. ASSUME NEW w \in DOMAIN writes, Delete(w) PROVE Inv'
  <2> DEFINE x == IF RefsLeft(FingerprintOf(w)) = 0 THEN "unlinking" ELSE "deleted"
  <2>1. /\ settings' = settings /\ DereferenceBlock(FingerprintOf(w))
        /\ writes' = [writes EXCEPT ![w].st = x]
    BY <1>5, ZenonT(60) DEF Delete
  <2>2. EntriesSound(table', writes)
    BY <2>1, DereferenceKeepsTable, ZenonT(60)
  <2>3. x \in WriteStates
    BY ZenonT(60)
  <2> HIDE DEF x
  <2> QED BY <2>1, <2>2, <2>3, StateChangesKeepInv, ZenonT(60)
<1>6. ASSUME NEW w \in DOMAIN writes, DeleteDone(w) PROVE Inv'
  <2>1. /\ settings' = settings /\ table' = table
        /\ writes' = [writes EXCEPT ![w].st = "deleted"]
    BY <1>6, ZenonT(60) DEF DeleteDone
  <2>2. EntriesSound(table', writes)
    BY <2>1, ZenonT(60) DEF Inv
  <2> QED BY <2>1, <2>2, StateChangesKeepInv, ZenonT(60)
<1>7. ASSUME NEW w \in DOMAIN writes, DeleteFails(w) PROVE Inv'
  <2>1. /\ settings' = settings /\ table' = table
        /\ writes' = [writes EXCEPT ![w].st = "undeleted"]
    BY <1>7, ZenonT(60) DEF DeleteFails
  <2>2. EntriesSound(table', writes)
    BY <2>1, ZenonT(60) DEF Inv
  <2> QED BY <2>1, <2>2, StateChangesKeepInv, ZenonT(60)
<1>8. CASE UNCHANGED vars
  BY <1>8, ZenonT(60) DEF vars, Inv, EntriesSound, BlocksSound
<1> QED BY <1>1, <1>2, <1>3, <1>4, <1>5, <1>6, <1>7, <1>8, ZenonT(60) DEF Next

(* The invariant holds in every reachable state.                           *)
LEMMA InvHolds == Spec => []Inv
<1>1. Init => Inv
  BY EngineAssumption DEF Init, Inv, Settings, EntriesSound, BlocksSound
<1> QED BY <1>1, NextKeepsInv, PTL DEF Spec

(* retrieve returns the original data of every write a caller holds: for   *)
(* all data, settings, block sizes and numbers of writes, in every order   *)
(* of concurrent stores, failures and deletions.                           *)
THEOREM RetrieveReturnsData == Spec => []ReadsBack
BY InvHolds, InvReadsBack, PTL

(* retrieve gives back what was written exactly when Survives says so, for *)
(* all data, block sizes and settings, provided the library inflates no    *)
(* block's content to the block itself.                                    *)
THEOREM CodecsAreExact ==
  ASSUME NoFixpoint
  PROVE  Spec => []CodecsExact
<1>1. Inv => CodecsExact
  <2> SUFFICES ASSUME Inv, NEW d \in Blocks
               PROVE  Survives(d, settings) <=> Retrieve(Stored(d, settings)) = d
    BY ZenonT(60) DEF CodecsExact
  <2>1. settings \in Settings
    BY ZenonT(60) DEF Inv
  <2> QED BY <2>1, StoredReadsBack, OthersLost, ZenonT(60)
<1> QED BY <1>1, InvHolds, PTL

(* The regions that find_zero_regions yields are the maximal zero runs of  *)
(* the minimum size and chunk_data cuts all of the data into chunks of the *)
(* minimum size, whatever the data and the minimum.                        *)
THEOREM ScansAreExact == Spec => []ScansExact
<1>1. ScansExact
  <2> SUFFICES ASSUME NEW d \in Blocks, NEW min \in 1 .. BlockSize
               PROVE  /\ FindZeroRegions(d, min) = ZeroRuns(d, min)
                      /\ CutEvery(ChunkData(d, min), d, min)
    BY ZenonT(60) DEF ScansExact
  <2>1. d \in Seq(Nat)
    BY CodecAssumption, ZenonT(60)
  <2>2. min \in Nat \ {0}
    BY CodecAssumption
  <2> QED BY <2>1, <2>2, RegionsExact, ChunksExact, ZenonT(60)
<1> QED BY <1>1, PTL

-----------------------------------------------------------------------------
(* The accounts.  Cells are counted as pairs of an owner and a position, a *)
(* row of n of them for each owner.                                        *)
Row(x, n) == {x} \X (1 .. n)

(* A row has as many cells as it is long.                                  *)
LEMMA RowCount ==
  ASSUME NEW x, NEW n \in Nat
  PROVE  IsFiniteSet(Row(x, n)) /\ Cardinality(Row(x, n)) = n
<1>1. 1 \in Int /\ n \in Int
  OBVIOUS
<1>2. IsFiniteSet(1 .. n) /\ Cardinality(1 .. n) = IF 1 > n THEN 0 ELSE n - 1 + 1
  BY ONLY <1>1, FS_Interval, ZenonT(60)
<1>3. Cardinality(1 .. n) = n
  BY <1>2
<1>4. IsFiniteSet({x}) /\ Cardinality({x}) = 1
  BY FS_Singleton, ZenonT(60)
<1>5. /\ IsFiniteSet({x} \X (1 .. n))
      /\ Cardinality({x} \X (1 .. n)) = Cardinality({x}) * Cardinality(1 .. n)
  BY <1>2, <1>4, FS_Product, ZenonT(60)
<1> QED BY <1>3, <1>4, <1>5 DEF Row

(* A row joins the cells of other owners, or leaves.                       *)
LEMMA RowJoins ==
  ASSUME NEW S, IsFiniteSet(S), NEW x, NEW n \in Nat, S \cap Row(x, n) = {}
  PROVE  /\ IsFiniteSet(S \cup Row(x, n))
         /\ Cardinality(S \cup Row(x, n)) = Cardinality(S) + n
<1>1. IsFiniteSet(Row(x, n)) /\ Cardinality(Row(x, n)) = n
  BY RowCount, ZenonT(60)
<1>2. /\ IsFiniteSet(S \cup Row(x, n))
      /\ Cardinality(S \cup Row(x, n)) =
           Cardinality(S) + Cardinality(Row(x, n)) - Cardinality(S \cap Row(x, n))
  BY <1>1, FS_Union, ZenonT(60)
<1>3. Cardinality(S \cap Row(x, n)) = 0 /\ Cardinality(S) \in Nat
  BY FS_EmptySet, FS_CardinalityType, ZenonT(60)
<1> QED BY <1>1, <1>2, <1>3

(* The cells that are left when a row leaves.                              *)
LEMMA RowLeaves ==
  ASSUME NEW S, IsFiniteSet(S), NEW x, NEW n \in Nat, Row(x, n) \subseteq S
  PROVE  /\ IsFiniteSet(S \ Row(x, n))
         /\ Cardinality(S \ Row(x, n)) = Cardinality(S) - n
<1>1. S \cap Row(x, n) = Row(x, n)
  BY ZenonT(60)
<1>2. /\ IsFiniteSet(S \ Row(x, n))
      /\ Cardinality(S \ Row(x, n)) = Cardinality(S) - Cardinality(S \cap Row(x, n))
  BY FS_Difference, ZenonT(60)
<1>3. Cardinality(Row(x, n)) = n
  BY RowCount, ZenonT(60)
<1> QED BY <1>1, <1>2, <1>3, ZenonT(60)

(* The cells of a table and of the pending writes, one by one.             *)
LEMMA CellsAre ==
  /\ \A z : z \in TableCells <=> \E f \in DOMAIN table : z \in Row(f, table[f].size)
  /\ \A z : z \in TableCells' <=> \E f \in DOMAIN table' : z \in Row(f, table'[f].size)
  /\ \A z : z \in PendingCells <=>
       \E w \in DOMAIN writes : /\ writes[w].st \in {"storing", "failed"}
                                /\ z \in Row(w, Len(Stored(writes[w].data, settings)))
  /\ \A z : z \in PendingCells' <=>
       \E w \in DOMAIN writes' : /\ writes'[w].st \in {"storing", "failed"}
                                 /\ z \in Row(w, Len(Stored(writes'[w].data, settings')))
  /\ \A z, x, n : z \in Row(x, n) => z[1] = x
BY ZenonT(60) DEF TableCells, PendingCells, Row

ReductionRec == [in : Nat, stored : Nat, pattern : Int, dedupe : Nat, compression : Nat]
DedupRec == [total : Nat, unique : Nat, duplicate : Nat, before : Nat, after : Int]
CompressionRec == [compressed : Nat, skipped : Nat, before : Nat, after : Nat]

Balance(r, c, n) ==
  r.in + HEADER_SIZE * (c.compressed + c.skipped)
    = r.stored + r.pattern + r.dedupe + r.compression + n

(* The inductive invariant, next to Inv.                                   *)
TableBooked ==
  /\ dedup \in DedupRec /\ dedup.total = dedup.unique + dedup.duplicate
  /\ IsFiniteSet(TableCells) /\ dedup.after = Cardinality(TableCells)
BytesBooked ==
  /\ reduction \in ReductionRec /\ compression \in CompressionRec
  /\ IsFiniteSet(PendingCells)
  /\ Balance(reduction, compression, Cardinality(PendingCells))
Booked == TableBooked /\ BytesBooked /\ disk \subseteq DOMAIN writes

(* register_block books the cells of a new entry, and none for a known one.*)
LEMMA RegisterBooked ==
  ASSUME Inv, TableBooked, NEW c \in Seq(Nat), NEW b, RegisterBlock(c, b)
  PROVE  TableBooked'
<1>1. dedup \in DedupRec /\ Len(c) \in Nat
  BY DEF TableBooked
<1>2. CASE Known(c)
  <2>1. /\ table' = [table EXCEPT ![c] = [table[c] EXCEPT !.ref = @ + 1]]
        /\ dedup' = [dedup EXCEPT !.total = @ + 1, !.duplicate = @ + 1, !.before = @ + Len(c)]
    BY <1>2, ZenonT(60) DEF RegisterBlock, Fingerprint
  <2>2. table[c] \in EntryRec /\ c \in DOMAIN table
    BY <1>2, ZenonT(60) DEF Inv, EntriesSound, Known
  <2>3. DOMAIN table' = DOMAIN table /\ \A f \in DOMAIN table : table'[f].size = table[f].size
    BY <2>1, <2>2, ZenonT(60) DEF EntryRec
  <2>4. TableCells' = TableCells
    BY <2>3, CellsAre, ZenonT(60)
  <2>5. /\ dedup' \in DedupRec /\ dedup'.total = dedup.total + 1 /\ dedup'.unique = dedup.unique
        /\ dedup'.duplicate = dedup.duplicate + 1 /\ dedup'.after = dedup.after
    <3>1. dedup' = [total |-> dedup.total + 1, unique |-> dedup.unique,
                    duplicate |-> dedup.duplicate + 1, before |-> dedup.before + Len(c),
                    after |-> dedup.after]
      BY <1>1, <2>1, ZenonT(60) DEF DedupRec
    <3> QED BY <1>1, <3>1 DEF DedupRec
  <2>6. dedup'.total = dedup'.unique + dedup'.duplicate
    <3>1. dedup \in DedupRec /\ dedup.total = dedup.unique + dedup.duplicate
      BY <1>1, ZenonT(60) DEF TableBooked
    <3>2. dedup.unique \in Nat /\ dedup.duplicate \in Nat
      BY <3>1, ZenonT(60) DEF DedupRec
    <3> QED BY ONLY <2>5, <3>1, <3>2, SMT, SMTT(60)
  <2> QED BY <2>4, <2>5, <2>6, ZenonT(60) DEF TableBooked
<1>3. CASE ~Known(c)
  <2>1. /\ table' = [g \in DOMAIN table \cup {c} |-> IF g = c THEN Entry(b, Len(c)) ELSE table[g]]
        /\ dedup' = [dedup EXCEPT !.total = @ + 1, !.unique = @ + 1,
                                  !.before = @ + Len(c), !.after = @ + Len(c)]
    BY <1>3, ZenonT(60) DEF RegisterBlock, Fingerprint, Extend
  <2>2. /\ DOMAIN table' = DOMAIN table \cup {c} /\ c \notin DOMAIN table
        /\ table'[c].size = Len(c)
        /\ \A f \in DOMAIN table : table'[f] = table[f]
    BY <1>3, <2>1, ZenonT(60) DEF Known, Entry
  <2>3. TableCells' = TableCells \cup Row(c, Len(c))
    BY <2>2, CellsAre
  <2>4. TableCells \cap Row(c, Len(c)) = {}
    <3> SUFFICES ASSUME NEW z, z \in TableCells, z \in Row(c, Len(c))
                 PROVE  FALSE
      BY ZenonT(60)
    <3>1. PICK f \in DOMAIN table : z \in Row(f, table[f].size)
      BY CellsAre, ZenonT(60)
    <3>2. z[1] = c /\ z[1] = f
      BY <3>1, CellsAre, ZenonT(60)
    <3> QED BY <2>2, <3>2, ZenonT(60)
  <2>5. /\ dedup' \in DedupRec /\ dedup'.total = dedup.total + 1
        /\ dedup'.unique = dedup.unique + 1
        /\ dedup'.duplicate = dedup.duplicate /\ dedup'.after = dedup.after + Len(c)
    <3>1. dedup' = [total |-> dedup.total + 1, unique |-> dedup.unique + 1,
                    duplicate |-> dedup.duplicate, before |-> dedup.before + Len(c),
                    after |-> dedup.after + Len(c)]
      BY <1>1, <2>1, ZenonT(60) DEF DedupRec
    <3> QED BY <1>1, <3>1 DEF DedupRec
  <2>6. dedup'.total = dedup'.unique + dedup'.duplicate
    <3>1. dedup \in DedupRec /\ dedup.total = dedup.unique + dedup.duplicate
      BY <1>1, ZenonT(60) DEF TableBooked
    <3>2. dedup.unique \in Nat /\ dedup.duplicate \in Nat
      BY <3>1, ZenonT(60) DEF DedupRec
    <3> QED BY ONLY <2>5, <3>1, <3>2, SMT, SMTT(60)
  <2>7. /\ IsFiniteSet(TableCells \cup Row(c, Len(c)))
        /\ Cardinality(TableCells \cup Row(c, Len(c))) = Cardinality(TableCells) + Len(c)
    BY <1>1, <2>4, RowJoins, ZenonT(60) DEF TableBooked
  <2> QED BY <2>3, <2>5, <2>6, <2>7, ZenonT(60) DEF TableBooked
<1> QED BY <1>2, <1>3, ZenonT(60)

(* dereference_block takes the cells of an entry that goes off the books.  *)
LEMMA DereferenceBooked ==
  ASSUME Inv, TableBooked, NEW f, DereferenceBlock(f)
  PROVE  TableBooked'
<1>1. CASE ~Known(f)
  BY <1>1, ZenonT(60) DEF DereferenceBlock, TableBooked, TableCells
<1>2. ASSUME Known(f)
      PROVE  f \in DOMAIN table /\ table[f] \in EntryRec /\ table[f].size \in Nat
  BY <1>2, ZenonT(60) DEF Inv, EntriesSound, Known, EntryRec
<1>3. CASE Known(f) /\ table[f].ref > 1
  <2>1. /\ table' = [table EXCEPT ![f] = [table[f] EXCEPT !.ref = @ - 1]]
        /\ dedup' = dedup
    BY <1>3, ZenonT(60) DEF DereferenceBlock
  <2>2. DOMAIN table' = DOMAIN table /\ \A g \in DOMAIN table : table'[g].size = table[g].size
    BY <1>2, <1>3, <2>1, ZenonT(60) DEF EntryRec
  <2>3. TableCells' = TableCells
    BY <2>2, CellsAre, ZenonT(60)
  <2> QED BY <2>1, <2>3, ZenonT(60) DEF TableBooked
<1>4. CASE Known(f) /\ ~(table[f].ref > 1)
  <2> DEFINE n == table[f].size
  <2>1. /\ table' = [g \in DOMAIN table \ {f} |-> table[g]]
        /\ dedup' = [dedup EXCEPT !.after = @ - n]
    BY <1>4, ZenonT(60) DEF DereferenceBlock, Restrict
  <2>2. n \in Nat /\ f \in DOMAIN table
    BY <1>2, <1>4, ZenonT(60)
  <2>3. TableCells' = TableCells \ Row(f, n) /\ Row(f, n) \subseteq TableCells
    BY <2>1, <2>2, CellsAre, ZenonT(60)
  <2>4. /\ dedup' \in DedupRec /\ dedup'.total = dedup.total /\ dedup'.unique = dedup.unique
        /\ dedup'.duplicate = dedup.duplicate /\ dedup'.after = dedup.after - n
    BY <2>1, <2>2 DEF DedupRec, TableBooked
  <2> HIDE DEF n
  <2>5. /\ IsFiniteSet(TableCells \ Row(f, n))
        /\ Cardinality(TableCells \ Row(f, n)) = Cardinality(TableCells) - n
    BY <2>2, <2>3, RowLeaves, ZenonT(60) DEF TableBooked
  <2> QED BY <2>3, <2>4, <2>5, ZenonT(60) DEF TableBooked
<1> QED BY <1>1, <1>3, <1>4, ZenonT(60)

(* The lengths of what the stages make of data, and where they go: what    *)
(* came in, with a header if compress adds one, is what pattern removal    *)
(* and compression saved and what is stored.                               *)
LEMMA Lengths ==
  ASSUME NEW d \in Inputs, settings \in Settings
  PROVE  LET c == Reduced(d, settings)
             s == Stored(d, settings)
         IN  /\ Len(d) \in Nat /\ c \in Seq(Nat) /\ Len(c) \in Nat /\ Len(s) \in Nat
             /\ CompressionSaved(d) \in Nat /\ Len(Deflate(d)) \in Nat
             /\ Len(d) + (IF CompressionRuns(d) THEN HEADER_SIZE ELSE 0)
                  = Len(d) - Len(c) + CompressionSaved(d) + Len(s)
<1>1. /\ d \in Blocks /\ d \in Seq(Nat) /\ Len(d) \in Nat
      /\ Deflate(d) \in Seq(Nat) /\ Len(Deflate(d)) \in Nat
  BY EngineAssumption, Cells, ZenonT(60)
<1>2. Reduced(d, settings) \in Seq(Nat)
  <2>1. CASE ~PatternReduced(d, settings)
    BY <1>1, <2>1, ZenonT(60) DEF Reduced
  <2>2. CASE PatternReduced(d, settings) /\ IsZeroBlock(d)
    BY <2>2, CodecAssumption, ZenonT(60) DEF Reduced, Encode
  <2>3. CASE PatternReduced(d, settings) /\ ~IsZeroBlock(d)
    <3>1. d[1] \in Nat
      BY <1>1, <2>3 DEF IsZeroBlock
    <3>2. Reduced(d, settings) = PATTERN_BLOCK_PREFIX \o <<d[1]>> \o ToBytes(Len(d))
      BY <2>3, ZenonT(60) DEF Reduced, Encode, PatternReduced
    <3>3. PATTERN_BLOCK_PREFIX \in Seq(Nat)
      BY CodecAssumption, ZenonT(60)
    <3>4. ToBytes(Len(d)) \in Seq(Nat) /\ Len(ToBytes(Len(d))) = 4
      BY <1>1, SizeRoundTrip, ZenonT(60)
    <3> QED BY <3>1, <3>2, <3>3, <3>4, Suffix, ZenonT(60)
  <2> QED BY <2>1, <2>2, <2>3, ZenonT(60)
<1>3. Len(Reduced(d, settings)) \in Nat
  BY <1>2
<1>4. CASE ~CompressionRuns(d)
  <2>1. Stored(d, settings) = Reduced(d, settings) /\ CompressionSaved(d) = 0
    BY <1>4, ZenonT(60) DEF CompressionRuns, Stored, CompressionSaved
  <2> QED BY <1>1, <1>2, <1>3, <1>4, <2>1
<1>5. CASE CompressionRuns(d)
  <2>1. Stored(d, settings) = Compress(d) /\ Reduced(d, settings) = d
    BY <1>5, ZenonT(60) DEF CompressionRuns, Stored, Reduced
  <2>2. CASE Beneficial(d)
    <3>1. Compress(d) = Header(Algorithm, Len(d)) \o Deflate(d) /\ Algorithm \in Nat
      BY <2>2, Chosen, ZenonT(60) DEF Compress
    <3>4. Header(Algorithm, Len(d)) \in Seq(Nat) /\ Len(Header(Algorithm, Len(d))) = 5
      BY <1>1, <3>1, HeaderIs, ZenonT(60)
    <3>2. Len(Compress(d)) = Len(Deflate(d)) + 5
      BY <1>1, <3>1, <3>4, Payload, ZenonT(60)
    <3>3. CompressionSaved(d) = Len(d) - Len(Deflate(d)) /\ CompressionSaved(d) \in Nat
      BY <1>1, <1>5, <2>2 DEF CompressionSaved, Beneficial
    <3> QED BY <1>1, <1>2, <1>5, <2>1, <3>2, <3>3 DEF HEADER_SIZE
  <2>3. CASE ~Beneficial(d)
    <3> DEFINE h == Header(NONE, Len(d))
    <3>1. Compress(d) = h \o d
      BY <2>3, ZenonT(60) DEF Compress
    <3>4. h \in Seq(Nat) /\ Len(h) = 5
      BY <1>1, HeaderIs DEF NONE
    <3> HIDE DEF h
    <3>5. Len(h \o d) = Len(d) + 5
      BY <1>1, <3>4, Payload, ZenonT(60)
    <3>2. Len(Compress(d)) = Len(d) + 5
      BY <3>1, <3>5, ZenonT(60)
    <3>3. CompressionSaved(d) = 0
      BY <2>3, ZenonT(60) DEF CompressionSaved
    <3> QED BY <1>1, <1>2, <1>5, <2>1, <3>2, <3>3 DEF HEADER_SIZE
  <2> QED BY <2>2, <2>3, ZenonT(60)
<1> QED BY <1>4, <1>5, ZenonT(60)

(* The pattern stage's part of the counters.                               *)
LEMMA AcceptedIs ==
  ASSUME NEW d \in Inputs, settings \in Settings, reduction \in ReductionRec
  PROVE  Accepted(d) = [in |-> reduction.in + Len(d), stored |-> reduction.stored,
                        pattern |-> reduction.pattern + Len(d) - Len(Reduced(d, settings)),
                        dedupe |-> reduction.dedupe, compression |-> reduction.compression]
<1> DEFINE p == reduction.in + Len(d)
           q == reduction.pattern + Len(d) - Len(Reduced(d, settings))
<1>1. Accepted(d) = [reduction EXCEPT !.in = p, !.pattern = q]
  BY ZenonT(60) DEF Accepted
<1> HIDE DEF p, q
<1>2. [reduction EXCEPT !.in = p, !.pattern = q]
        = [in |-> p, stored |-> reduction.stored, pattern |-> q,
           dedupe |-> reduction.dedupe, compression |-> reduction.compression]
  <2>1. [reduction EXCEPT !.in = p]
          = [in |-> p, stored |-> reduction.stored, pattern |-> reduction.pattern,
             dedupe |-> reduction.dedupe, compression |-> reduction.compression]
    BY DEF ReductionRec
  <2>2. [[in |-> p, stored |-> reduction.stored, pattern |-> reduction.pattern,
          dedupe |-> reduction.dedupe, compression |-> reduction.compression] EXCEPT !.pattern = q]
          = [in |-> p, stored |-> reduction.stored, pattern |-> q,
             dedupe |-> reduction.dedupe, compression |-> reduction.compression]
    OBVIOUS
  <2> QED BY <2>1, <2>2, ZenonT(60)
<1> QED BY <1>1, <1>2, ZenonT(60) DEF p, q

(* A write appended after the others: held at once, its cells are not      *)
(* pending; on its way, they are.                                          *)
LEMMA PendingAppend ==
  ASSUME Inv, NEW r, writes' = Append(writes, r), settings' = settings
  PROVE  LET n == Len(writes) + 1
             row == Row(n, Len(Stored(r.data, settings)))
         IN  /\ r.st = "held" => PendingCells' = PendingCells
             /\ r.st = "storing" => PendingCells' = PendingCells \cup row
             /\ PendingCells \cap row = {}
<1> DEFINE n == Len(writes) + 1
           row == Row(n, Len(Stored(r.data, settings)))
<1>1. /\ DOMAIN writes = 1 .. Len(writes) /\ Len(writes) \in Nat
      /\ DOMAIN writes' = 1 .. n /\ writes'[n] = r
      /\ \A v \in DOMAIN writes : writes'[v] = writes[v]
  <2>1. writes \in Seq(WriteRec) /\ DOMAIN writes = 1 .. Len(writes)
    BY WritesTyped, ZenonT(60) DEF Inv
  <2> HIDE DEF WriteRec
  <2> QED BY <2>1
<1>2. n \notin DOMAIN writes /\ DOMAIN writes' = DOMAIN writes \cup {n}
  BY <1>1
<1> HIDE DEF n
<1>3. PendingCells \cap row = {}
  <2> SUFFICES ASSUME NEW z, z \in PendingCells, z \in row
               PROVE  FALSE
    BY ZenonT(60)
  <2>1. PICK w \in DOMAIN writes : z \in Row(w, Len(Stored(writes[w].data, settings)))
    BY CellsAre, ZenonT(60)
  <2>2. z[1] = w /\ z[1] = n
    BY <2>1, CellsAre, ZenonT(60)
  <2> QED BY <1>2, <2>2, ZenonT(60)
<1>4. ASSUME r.st = "held"
      PROVE  PendingCells' = PendingCells
  <2>1. \A z : z \in PendingCells' <=> z \in PendingCells
    BY <1>1, <1>2, <1>4, CellsAre, ZenonT(60)
  <2> QED BY <2>1, ZenonT(60)
<1>5. ASSUME r.st = "storing"
      PROVE  PendingCells' = PendingCells \cup row
  <2>1. \A z : z \in PendingCells' <=> z \in PendingCells \/ z \in row
    BY <1>1, <1>2, <1>5, CellsAre
  <2> QED BY <2>1, ZenonT(60)
<1> QED BY <1>3, <1>4, <1>5, ZenonT(60) DEF n

(* A write that fails keeps its cells pending; one that is stored does     *)
(* not; what happens to others does not matter.                            *)
LEMMA PendingMoves ==
  ASSUME Inv, NEW w \in DOMAIN writes, NEW x \in WriteStates,
         writes' = [writes EXCEPT ![w].st = x], settings' = settings
  PROVE  LET row == Row(w, Len(Stored(writes[w].data, settings)))
             pending == {"storing", "failed"}
         IN  /\ (writes[w].st \in pending <=> x \in pending) => PendingCells' = PendingCells
             /\ writes[w].st \in pending /\ x \notin pending =>
                  PendingCells' = PendingCells \ row /\ row \subseteq PendingCells
<1> DEFINE row == Row(w, Len(Stored(writes[w].data, settings)))
           pending == {"storing", "failed"}
<1>1. /\ DOMAIN writes' = DOMAIN writes
      /\ \A v \in DOMAIN writes : writes'[v].data = writes[v].data
  BY StateChanges, ZenonT(60)
<1>2. /\ writes'[w].st = x
      /\ \A v \in DOMAIN writes : v # w => writes'[v] = writes[v]
  BY WritesTyped, ZenonT(60) DEF WriteRec
<1>3. ASSUME writes[w].st \in pending <=> x \in pending
      PROVE  PendingCells' = PendingCells
  <2>1. \A v \in DOMAIN writes : writes'[v].st \in pending <=> writes[v].st \in pending
    BY <1>2, <1>3, ZenonT(60)
  <2>2. \A z : z \in PendingCells' <=> z \in PendingCells
    BY <1>1, <2>1, CellsAre, ZenonT(60)
  <2> QED BY <2>2, ZenonT(60)
<1>4. ASSUME writes[w].st \in pending, x \notin pending
      PROVE  PendingCells' = PendingCells \ row /\ row \subseteq PendingCells
  <2>1. row \subseteq PendingCells
    BY <1>4, CellsAre, ZenonT(60)
  <2>2. \A z : z \in PendingCells' <=> z \in PendingCells /\ z \notin row
    <3>1. ASSUME NEW z, z \in PendingCells'
          PROVE  z \in PendingCells /\ z \notin row
      <4>1. PICK v \in DOMAIN writes : /\ writes'[v].st \in pending
                                       /\ z \in Row(v, Len(Stored(writes[v].data, settings)))
        BY <1>1, <3>1, CellsAre, ZenonT(60)
      <4>2. v # w /\ writes'[v] = writes[v]
        BY <1>2, <1>4, <4>1, ZenonT(60)
      <4>3. z \notin row
        BY <4>1, <4>2, CellsAre
      <4> QED BY <4>1, <4>2, <4>3, CellsAre, ZenonT(60)
    <3>2. ASSUME NEW z, z \in PendingCells, z \notin row
          PROVE  z \in PendingCells'
      <4>1. PICK v \in DOMAIN writes : /\ writes[v].st \in pending
                                       /\ z \in Row(v, Len(Stored(writes[v].data, settings)))
        BY <3>2, CellsAre, ZenonT(60)
      <4>2. v # w
        BY <3>2, <4>1, ZenonT(60)
      <4> QED BY <1>1, <1>2, <4>1, <4>2, CellsAre, ZenonT(60)
    <3> QED BY <3>1, <3>2, ZenonT(60)
  <2> QED BY <2>1, <2>2, ZenonT(60)
<1> QED BY <1>3, <1>4, ZenonT(60)
(* The balance is kept when what comes in, with the headers, is what is    *)
(* stored, saved or left pending.                                          *)
LEMMA Balances ==
  ASSUME NEW r \in ReductionRec, NEW q \in ReductionRec,
         NEW x \in CompressionRec, NEW y \in CompressionRec, NEW N \in Nat, NEW n \in Nat,
         Balance(r, x, N),
         (q.in - r.in) + 5 * ((y.compressed - x.compressed) + (y.skipped - x.skipped))
           = (q.stored - r.stored) + (q.pattern - r.pattern) + (q.dedupe - r.dedupe)
             + (q.compression - r.compression) + (n - N)
  PROVE  Balance(q, y, n)
<1> DEFINE ri == r.in
           rs == r.stored
           rp == r.pattern
           rd == r.dedupe
           rc == r.compression
           qi == q.in
           qs == q.stored
           qp == q.pattern
           qd == q.dedupe
           qc == q.compression
           xc == x.compressed
           xs == x.skipped
           yc == y.compressed
           ys == y.skipped
<1>1. /\ ri \in Int /\ rs \in Int /\ rp \in Int /\ rd \in Int /\ rc \in Int
      /\ qi \in Int /\ qs \in Int /\ qp \in Int /\ qd \in Int /\ qc \in Int
      /\ xc \in Int /\ xs \in Int /\ yc \in Int /\ ys \in Int
  BY DEF ReductionRec, CompressionRec
<1>2. ri + 5 * (xc + xs) = rs + rp + rd + rc + N
  BY ZenonT(60) DEF Balance, HEADER_SIZE
<1>3. (qi - ri) + 5 * ((yc - xc) + (ys - xs))
        = (qs - rs) + (qp - rp) + (qd - rd) + (qc - rc) + (n - N)
  BY ZenonT(60)
<1>4. qi + 5 * (yc + ys) = qs + qp + qd + qc + n
  <2> HIDE DEF ri, rs, rp, rd, rc, qi, qs, qp, qd, qc, xc, xs, yc, ys
  <2> QED BY <1>1, <1>2, <1>3
<1> QED BY <1>4, ZenonT(60) DEF Balance, HEADER_SIZE

(* reduce_and_store of a duplicate: what came in was saved by the pattern  *)
(* stage and by deduplication.                                             *)
LEMMA DuplicateBooked ==
  ASSUME Inv, Booked, NEW d \in Inputs, ReduceDuplicate(d)
  PROVE  Booked'
<1> DEFINE c == Reduced(d, settings)
           b == table[Fingerprint(c)].block
           r == Write(d, "held", b)
<1>1. /\ settings' = settings /\ settings \in Settings /\ disk' = disk
      /\ compression' = compression
      /\ RegisterBlock(c, b) /\ writes' = Append(writes, r)
      /\ reduction' = [Accepted(d) EXCEPT !.dedupe = @ + Len(c)]
  BY ZenonT(60) DEF ReduceDuplicate, Inv
<1>2. /\ Len(d) \in Nat /\ c \in Seq(Nat) /\ Len(c) \in Nat
  BY <1>1, Lengths, ZenonT(60)
<1>3. TableBooked'
  BY <1>1, <1>2, RegisterBooked, ZenonT(60) DEF Booked
<1>4. r.st = "held"
  BY ZenonT(60) DEF Write
<1> HIDE DEF r, b
<1>5. PendingCells' = PendingCells
  BY <1>1, <1>4, PendingAppend, ZenonT(60)
<1>6. reduction \in ReductionRec
  BY ZenonT(60) DEF Booked, BytesBooked
<1>7. reduction' = [in |-> reduction.in + Len(d), stored |-> reduction.stored,
                    pattern |-> reduction.pattern + Len(d) - Len(c),
                    dedupe |-> reduction.dedupe + Len(c),
                    compression |-> reduction.compression]
  <2>1. Accepted(d) = [in |-> reduction.in + Len(d), stored |-> reduction.stored,
                       pattern |-> reduction.pattern + Len(d) - Len(c),
                       dedupe |-> reduction.dedupe, compression |-> reduction.compression]
    BY <1>1, <1>6, AcceptedIs, ZenonT(60)
  <2> HIDE DEF c
  <2> QED BY <1>1, <2>1
<1>8. BytesBooked'
  <2>1. reduction' \in ReductionRec
    BY <1>2, <1>6, <1>7 DEF ReductionRec
  <2>2. Balance(reduction', compression', Cardinality(PendingCells))
    <3> HIDE DEF c
    <3>1. Balance(reduction, compression, Cardinality(PendingCells))
      BY ZenonT(60) DEF Booked, BytesBooked
    <3>2. Cardinality(PendingCells) \in Nat /\ compression \in CompressionRec
      BY FS_CardinalityType, ZenonT(60) DEF Booked, BytesBooked
    <3>3. /\ reduction.in \in Int /\ reduction.stored \in Int /\ reduction.pattern \in Int
          /\ reduction.dedupe \in Int /\ reduction.compression \in Int
          /\ compression.compressed \in Int /\ compression.skipped \in Int
      BY <1>6, <3>2 DEF ReductionRec, CompressionRec
    <3>4. /\ reduction'.in - reduction.in = Len(d)
          /\ reduction'.stored - reduction.stored = 0
          /\ reduction'.pattern - reduction.pattern = Len(d) - Len(c)
          /\ reduction'.dedupe - reduction.dedupe = Len(c)
          /\ reduction'.compression - reduction.compression = 0
          /\ compression'.compressed - compression.compressed = 0
          /\ compression'.skipped - compression.skipped = 0
      <4>1. /\ reduction'.in = reduction.in + Len(d) /\ reduction'.stored = reduction.stored
            /\ reduction'.pattern = reduction.pattern + Len(d) - Len(c)
            /\ reduction'.dedupe = reduction.dedupe + Len(c)
            /\ reduction'.compression = reduction.compression
        BY <1>7, ZenonT(60)
      <4>2. Len(d) \in Int /\ Len(c) \in Int
        BY <1>2
      <4>3. (reduction.in + Len(d)) - reduction.in = Len(d)
        BY <3>3, <4>2
      <4>4. (reduction.pattern + Len(d) - Len(c)) - reduction.pattern = Len(d) - Len(c)
        BY <3>3, <4>2
      <4>5. (reduction.dedupe + Len(c)) - reduction.dedupe = Len(c)
        BY <3>3, <4>2
      <4>6. reduction.stored - reduction.stored = 0 /\ reduction.compression - reduction.compression = 0
        BY <3>3
      <4>7. /\ compression.compressed - compression.compressed = 0
            /\ compression.skipped - compression.skipped = 0
        BY <3>3
      <4> QED BY <1>1, <4>1, <4>3, <4>4, <4>5, <4>6, <4>7, ZenonT(60)
    <3>5. (reduction'.in - reduction.in)
            + 5 * ((compression'.compressed - compression.compressed)
                   + (compression'.skipped - compression.skipped))
            = (reduction'.stored - reduction.stored) + (reduction'.pattern - reduction.pattern)
              + (reduction'.dedupe - reduction.dedupe)
              + (reduction'.compression - reduction.compression)
              + (Cardinality(PendingCells) - Cardinality(PendingCells))
      BY <1>2, <3>2, <3>4
    <3> QED BY <1>1, <1>6, <2>1, <3>1, <3>2, <3>5, Balances, ZenonT(60)
  <2> QED BY <1>1, <1>5, <2>1, <2>2, ZenonT(60) DEF Booked, BytesBooked
<1>9. (disk \subseteq DOMAIN writes)'
  <2>1. writes \in Seq(WriteRec) /\ disk \subseteq DOMAIN writes
    BY ZenonT(60) DEF Inv, Booked
  <2> HIDE DEF WriteRec
  <2> QED BY <1>1, <2>1
<1> QED BY <1>3, <1>8, <1>9, ZenonT(60) DEF Booked

(* reduce_and_store of new data, up to the write: what came in, and the    *)
(* header, is on its way, but for what two of the stages saved.            *)
LEMMA NewBooked ==
  ASSUME Inv, Booked, NEW d \in Inputs, ReduceNew(d)
  PROVE  Booked'
<1> DEFINE c == Reduced(d, settings)
           s == Stored(d, settings)
           v == CompressionSaved(d)
           r == Write(d, "storing", Len(writes) + 1)
           h == IF CompressionRuns(d) THEN 1 ELSE 0
<1>1. /\ settings' = settings /\ settings \in Settings /\ disk' = disk
      /\ table' = table /\ dedup' = dedup
      /\ writes' = Append(writes, r)
      /\ reduction' = [Accepted(d) EXCEPT !.compression = @ + v]
      /\ compression' = IF CompressionRuns(d) THEN CountCompress(d) ELSE compression
  BY ZenonT(60) DEF ReduceNew, Inv
<1>2. /\ Len(d) \in Nat /\ Len(c) \in Nat /\ Len(s) \in Nat /\ v \in Nat
      /\ Len(d) + 5 * h = Len(d) - Len(c) + v + Len(s)
  BY <1>1, Lengths DEF HEADER_SIZE
<1>3. Len(d) \in Nat /\ Len(Deflate(d)) \in Nat
  BY <1>1, Lengths, ZenonT(60)
<1>4. r.st = "storing" /\ r.data = d
  BY ZenonT(60) DEF Write
<1> HIDE DEF r
<1>5. /\ PendingCells' = PendingCells \cup Row(Len(writes) + 1, Len(s))
      /\ PendingCells \cap Row(Len(writes) + 1, Len(s)) = {}
  BY <1>1, <1>4, PendingAppend, ZenonT(60)
<1>6. /\ IsFiniteSet(PendingCells') /\ Cardinality(PendingCells') = Cardinality(PendingCells) + Len(s)
  BY <1>2, <1>5, RowJoins, ZenonT(60) DEF Booked, BytesBooked
<1>7. /\ reduction \in ReductionRec /\ compression \in CompressionRec
      /\ Cardinality(PendingCells) \in Nat
      /\ Balance(reduction, compression, Cardinality(PendingCells))
  BY FS_CardinalityType, ZenonT(60) DEF Booked, BytesBooked
<1>8. reduction' = [in |-> reduction.in + Len(d), stored |-> reduction.stored,
                    pattern |-> reduction.pattern + Len(d) - Len(c),
                    dedupe |-> reduction.dedupe,
                    compression |-> reduction.compression + v]
  <2>1. Accepted(d) = [in |-> reduction.in + Len(d), stored |-> reduction.stored,
                       pattern |-> reduction.pattern + Len(d) - Len(c),
                       dedupe |-> reduction.dedupe, compression |-> reduction.compression]
    BY <1>1, <1>7, AcceptedIs, ZenonT(60)
  <2> HIDE DEF c, v
  <2> QED BY <1>1, <2>1
<1>9. /\ compression' \in CompressionRec
      /\ (compression'.compressed - compression.compressed)
           + (compression'.skipped - compression.skipped) = h
  <2>1. /\ compression.compressed \in Nat /\ compression.skipped \in Nat
        /\ compression.before \in Nat /\ compression.after \in Nat
    BY <1>7, ZenonT(60) DEF CompressionRec
  <2>2. CASE ~CompressionRuns(d)
    <3>1. h = 0 /\ compression' = compression
      BY <1>1, <2>2, ZenonT(60)
    <3> HIDE DEF h
    <3> QED BY <1>7, <2>1, <3>1
  <2>3. CASE CompressionRuns(d) /\ Beneficial(d)
    <3>1. compression' = [compressed |-> compression.compressed + 1,
                          skipped |-> compression.skipped,
                          before |-> compression.before + Len(d),
                          after |-> compression.after + Len(Deflate(d))]
      BY <1>1, <1>7, <2>3, ZenonT(60) DEF CountCompress, CompressionRec
    <3>2. h = 1
      BY <2>3, ZenonT(60)
    <3> HIDE DEF h
    <3>3. /\ compression.before + Len(d) \in Nat
          /\ compression.after + Len(Deflate(d)) \in Nat
      BY ONLY <1>3, <2>1
    <3> QED BY ONLY <2>1, <3>1, <3>2, <3>3, SMT, SMTT(60) DEF CompressionRec
  <2>4. CASE CompressionRuns(d) /\ ~Beneficial(d)
    <3>1. compression' = [compressed |-> compression.compressed,
                          skipped |-> compression.skipped + 1,
                          before |-> compression.before + Len(d),
                          after |-> compression.after + Len(d)]
      BY <1>1, <1>7, <2>4, ZenonT(60) DEF CountCompress, CompressionRec
    <3>2. h = 1
      BY <2>4, ZenonT(60)
    <3> HIDE DEF h
    <3>3. /\ compression.before + Len(d) \in Nat
          /\ compression.after + Len(d) \in Nat
      BY ONLY <1>3, <2>1
    <3> QED BY ONLY <2>1, <3>1, <3>2, <3>3, SMT, SMTT(60) DEF CompressionRec
  <2> QED BY <2>2, <2>3, <2>4, ZenonT(60)
<1>10. h \in Nat
  BY ZenonT(60)
<1> HIDE DEF c, s, v, h
<1>11. reduction' \in ReductionRec
  <2>1. /\ reduction.in + Len(d) \in Nat /\ reduction.stored \in Nat
        /\ reduction.pattern + Len(d) - Len(c) \in Int
        /\ reduction.dedupe \in Nat /\ reduction.compression + v \in Nat
    <3>1. /\ reduction.in \in Nat /\ reduction.stored \in Nat /\ reduction.pattern \in Int
          /\ reduction.dedupe \in Nat /\ reduction.compression \in Nat
      BY <1>7, ZenonT(60) DEF ReductionRec
    <3>2. Len(d) \in Nat /\ Len(c) \in Nat /\ v \in Nat
      BY <1>2, ZenonT(60)
    <3> QED BY ONLY <3>1, <3>2, Added, ZenonT(60)
  <2> QED BY <1>8, <2>1, ZenonT(60) DEF ReductionRec
<1>12. Balance(reduction', compression', Cardinality(PendingCells) + Len(s))
  <2>1. /\ reduction.in \in Int /\ reduction.stored \in Int /\ reduction.pattern \in Int
        /\ reduction.dedupe \in Int /\ reduction.compression \in Int
    BY <1>7 DEF ReductionRec
  <2>2. /\ reduction'.in - reduction.in = Len(d)
        /\ reduction'.stored - reduction.stored = 0
        /\ reduction'.pattern - reduction.pattern = Len(d) - Len(c)
        /\ reduction'.dedupe - reduction.dedupe = 0
        /\ reduction'.compression - reduction.compression = v
    <3>1. /\ reduction'.in = reduction.in + Len(d) /\ reduction'.stored = reduction.stored
          /\ reduction'.pattern = reduction.pattern + Len(d) - Len(c)
          /\ reduction'.dedupe = reduction.dedupe
          /\ reduction'.compression = reduction.compression + v
      BY <1>8, ZenonT(60)
    <3>2. Len(d) \in Int /\ Len(c) \in Int /\ v \in Int
      BY <1>2
    <3>3. (reduction.in + Len(d)) - reduction.in = Len(d)
      BY <2>1, <3>2
    <3>4. (reduction.pattern + Len(d) - Len(c)) - reduction.pattern = Len(d) - Len(c)
      BY <2>1, <3>2
    <3>5. (reduction.compression + v) - reduction.compression = v
      BY <2>1, <3>2
    <3>6. reduction.stored - reduction.stored = 0 /\ reduction.dedupe - reduction.dedupe = 0
      BY <2>1
    <3> QED BY <3>1, <3>3, <3>4, <3>5, <3>6, ZenonT(60)
  <2>3. (reduction'.in - reduction.in)
          + 5 * ((compression'.compressed - compression.compressed)
                 + (compression'.skipped - compression.skipped))
          = (reduction'.stored - reduction.stored) + (reduction'.pattern - reduction.pattern)
            + (reduction'.dedupe - reduction.dedupe)
            + (reduction'.compression - reduction.compression)
            + ((Cardinality(PendingCells) + Len(s)) - Cardinality(PendingCells))
    <3>1. (Cardinality(PendingCells) + Len(s)) - Cardinality(PendingCells) = Len(s)
      BY <1>2, <1>7
    <3>2. Len(d) + 5 * h = 0 + (Len(d) - Len(c)) + 0 + v + Len(s)
      BY <1>2, <1>10
    <3> QED BY <1>9, <2>2, <3>1, <3>2, ZenonT(60)
  <2>4. Cardinality(PendingCells) + Len(s) \in Nat
    BY <1>2, <1>7
  <2> QED BY <1>7, <1>9, <1>11, <2>3, <2>4, Balances, ZenonT(60)
<1>13. BytesBooked'
  BY <1>6, <1>9, <1>11, <1>12, ZenonT(60) DEF BytesBooked
<1>14. (disk \subseteq DOMAIN writes)'
  <2>1. writes \in Seq(WriteRec) /\ disk \subseteq DOMAIN writes
    BY ZenonT(60) DEF Inv, Booked
  <2> HIDE DEF WriteRec
  <2> QED BY <1>1, <2>1
<1>15. TableBooked'
  BY <1>1, ZenonT(60) DEF Booked, TableBooked, TableCells
<1> QED BY <1>13, <1>14, <1>15, ZenonT(60) DEF Booked
(* write_block returned: what was pending is stored.                       *)
LEMMA StoreBooked ==
  ASSUME Inv, Booked, NEW w \in DOMAIN writes, StoreDone(w)
  PROVE  Booked'
<1> DEFINE d == writes[w].data
           s == Stored(d, settings)
<1>1. /\ settings' = settings /\ settings \in Settings /\ disk' = disk \cup {w}
      /\ compression' = compression /\ writes[w].st = "storing"
      /\ RegisterBlock(d, w) /\ writes' = [writes EXCEPT ![w].st = "held"]
      /\ reduction' = [reduction EXCEPT !.stored = @ + Len(s)]
  BY ZenonT(60) DEF StoreDone, Inv
<1>2. d \in Inputs /\ d \in Seq(Nat)
  BY WritesTyped, EngineAssumption, CodecAssumption, ZenonT(60) DEF WriteRec
<1>3. Len(s) \in Nat
  BY <1>1, <1>2, Lengths, ZenonT(60)
<1>4. TableBooked'
  BY <1>1, <1>2, RegisterBooked, ZenonT(60) DEF Booked
<1>5. /\ PendingCells' = PendingCells \ Row(w, Len(s))
      /\ Row(w, Len(s)) \subseteq PendingCells
  BY <1>1, PendingMoves, ZenonT(60) DEF WriteStates
<1>6. (disk \subseteq DOMAIN writes)'
  BY <1>1, StateChanges, ZenonT(60) DEF Booked
<1>7. /\ reduction \in ReductionRec /\ compression \in CompressionRec
      /\ IsFiniteSet(PendingCells) /\ Cardinality(PendingCells) \in Nat
      /\ Balance(reduction, compression, Cardinality(PendingCells))
  BY FS_CardinalityType, ZenonT(60) DEF Booked, BytesBooked
<1> HIDE DEF d, s
<1>8. /\ IsFiniteSet(PendingCells')
      /\ Cardinality(PendingCells') = Cardinality(PendingCells) - Len(s)
      /\ Cardinality(PendingCells') \in Nat
  BY <1>3, <1>5, <1>7, RowLeaves, FS_CardinalityType, ZenonT(60)
<1>9. reduction' = [in |-> reduction.in, stored |-> reduction.stored + Len(s),
                    pattern |-> reduction.pattern, dedupe |-> reduction.dedupe,
                    compression |-> reduction.compression]
  BY <1>1, <1>7, ZenonT(60) DEF ReductionRec
<1>10. reduction' \in ReductionRec
  <2>1. reduction.stored + Len(s) \in Nat
    BY <1>3, <1>7 DEF ReductionRec
  <2> QED BY <1>7, <1>9, <2>1, ZenonT(60) DEF ReductionRec
<1>11. Balance(reduction', compression', Cardinality(PendingCells'))
  <2>1. /\ reduction.in \in Int /\ reduction.stored \in Int /\ reduction.pattern \in Int
        /\ reduction.dedupe \in Int /\ reduction.compression \in Int
        /\ compression.compressed \in Int /\ compression.skipped \in Int
    BY <1>7 DEF ReductionRec, CompressionRec
  <2>2. (reduction.stored + Len(s)) - reduction.stored = Len(s)
    BY <1>3, <2>1
  <2>3. /\ reduction.in - reduction.in = 0 /\ reduction.pattern - reduction.pattern = 0
        /\ reduction.dedupe - reduction.dedupe = 0
    BY <2>1
  <2>4. /\ reduction.compression - reduction.compression = 0
        /\ compression.compressed - compression.compressed = 0
        /\ compression.skipped - compression.skipped = 0
    BY <2>1
  <2>5. /\ reduction'.in = reduction.in /\ reduction'.stored = reduction.stored + Len(s)
        /\ reduction'.pattern = reduction.pattern /\ reduction'.dedupe = reduction.dedupe
        /\ reduction'.compression = reduction.compression
    BY <1>9, ZenonT(60)
  <2>6. 0 + 5 * (0 + 0) = Len(s) + 0 + 0 + 0 + (Cardinality(PendingCells') - Cardinality(PendingCells))
    BY <1>3, <1>7, <1>8
  <2>7. (reduction'.in - reduction.in)
          + 5 * ((compression'.compressed - compression.compressed)
                 + (compression'.skipped - compression.skipped))
          = (reduction'.stored - reduction.stored) + (reduction'.pattern - reduction.pattern)
            + (reduction'.dedupe - reduction.dedupe)
            + (reduction'.compression - reduction.compression)
            + (Cardinality(PendingCells') - Cardinality(PendingCells))
    BY <1>1, <2>2, <2>3, <2>4, <2>5, <2>6, ZenonT(60)
  <2>8. compression' \in CompressionRec
    BY <1>1, <1>7, ZenonT(60)
  <2> QED BY <1>7, <1>8, <1>10, <2>7, <2>8, Balances, ZenonT(60)
<1> QED BY <1>1, <1>4, <1>6, <1>7, <1>8, <1>10, <1>11, ZenonT(60) DEF Booked, BytesBooked

(* A step that leaves the counters of bytes and the pending cells alone.   *)
LEMMA OthersBooked ==
  ASSUME Inv, Booked, TableBooked', NEW w \in DOMAIN writes, NEW x \in WriteStates,
         writes' = [writes EXCEPT ![w].st = x], disk' \subseteq disk,
         writes[w].st \in {"storing", "failed"} <=> x \in {"storing", "failed"},
         UNCHANGED <<settings, reduction, compression>>
  PROVE  Booked'
<1>1. PendingCells' = PendingCells
  BY PendingMoves, ZenonT(60)
<1>2. (disk \subseteq DOMAIN writes)'
  BY StateChanges, ZenonT(60) DEF Booked
<1> QED BY <1>1, <1>2, ZenonT(60) DEF Booked, BytesBooked

(* Every step of every caller keeps the accounts.                          *)
LEMMA NextBooked == Inv /\ Booked /\ [Next]_vars => Booked'
<1> SUFFICES ASSUME Inv, Booked, [Next]_vars PROVE Booked'
  BY ZenonT(60)
<1> USE DEF WriteStates
<1>1. ASSUME NEW w \in DOMAIN writes, StoreFails(w) PROVE Booked'
  <2>1. TableBooked'
    BY <1>1, ZenonT(60) DEF StoreFails, Booked, TableBooked, TableCells
  <2>2. /\ writes' = [writes EXCEPT ![w].st = "failed"] /\ writes[w].st = "storing"
        /\ disk' \subseteq disk /\ UNCHANGED <<settings, reduction, compression>>
    BY <1>1, ZenonT(60) DEF StoreFails
  <2> QED BY <2>1, <2>2, OthersBooked, ZenonT(60)
<1>2. ASSUME NEW w \in DOMAIN writes, Delete(w) PROVE Booked'
  <2> DEFINE x == IF RefsLeft(FingerprintOf(w)) = 0 THEN "unlinking" ELSE "deleted"
  <2>1. /\ writes' = [writes EXCEPT ![w].st = x] /\ writes[w].st \in {"held", "undeleted"}
        /\ disk' \subseteq disk /\ UNCHANGED <<settings, reduction, compression>>
        /\ DereferenceBlock(FingerprintOf(w))
    BY <1>2, ZenonT(60) DEF Delete
  <2>2. TableBooked'
    BY <2>1, DereferenceBooked, ZenonT(60) DEF Booked
  <2>3. x \in {"unlinking", "deleted"}
    BY ZenonT(60)
  <2> HIDE DEF x
  <2>4. x \in WriteStates /\ x \notin {"storing", "failed"}
    BY <2>3, ZenonT(60)
  <2>5. writes[w].st \notin {"storing", "failed"}
    BY <2>1, ZenonT(60)
  <2> QED BY <2>1, <2>2, <2>4, <2>5, OthersBooked, ZenonT(60)
<1>3. ASSUME NEW w \in DOMAIN writes, DeleteDone(w) PROVE Booked'
  <2>1. TableBooked'
    BY <1>3, ZenonT(60) DEF DeleteDone, Booked, TableBooked, TableCells
  <2>2. /\ writes' = [writes EXCEPT ![w].st = "deleted"] /\ writes[w].st = "unlinking"
        /\ disk' \subseteq disk /\ UNCHANGED <<settings, reduction, compression>>
    BY <1>3, ZenonT(60) DEF DeleteDone
  <2> QED BY <2>1, <2>2, OthersBooked, ZenonT(60)
<1>4. ASSUME NEW w \in DOMAIN writes, DeleteFails(w) PROVE Booked'
  <2>1. TableBooked'
    BY <1>4, ZenonT(60) DEF DeleteFails, Booked, TableBooked, TableCells
  <2>2. /\ writes' = [writes EXCEPT ![w].st = "undeleted"] /\ writes[w].st = "unlinking"
        /\ disk' \subseteq disk /\ UNCHANGED <<settings, reduction, compression>>
    BY <1>4, ZenonT(60) DEF DeleteFails
  <2> QED BY <2>1, <2>2, OthersBooked, ZenonT(60)
<1>5. CASE UNCHANGED vars
  BY <1>5, ZenonT(60) DEF vars, Booked, TableBooked, BytesBooked, TableCells, PendingCells
<1> QED BY <1>1, <1>2, <1>3, <1>4, <1>5, DuplicateBooked, NewBooked, StoreBooked, ZenonT(60) DEF Next

(* Nothing is booked at the start.                                         *)
LEMMA InitBooked == Init => Booked
<1> SUFFICES ASSUME Init PROVE Booked
  BY ZenonT(60)
<1>1. writes = <<>> /\ table = <<>> /\ disk = {}
  BY ZenonT(60) DEF Init
<1>2. DOMAIN table = {} /\ DOMAIN writes = {}
  BY <1>1
<1>3. TableCells = {} /\ PendingCells = {}
  BY <1>2, CellsAre, ZenonT(60)
<1>4. IsFiniteSet({}) /\ Cardinality({}) = 0
  BY FS_EmptySet, ZenonT(60)
<1>5. TableBooked
  BY <1>3, <1>4 DEF Init, TableBooked, DedupRec
<1>6. BytesBooked
  BY <1>3, <1>4 DEF Init, BytesBooked, ReductionRec, CompressionRec, Balance, HEADER_SIZE
<1> QED BY <1>1, <1>5, <1>6, ZenonT(60) DEF Booked

(* Only fingerprints of data that clients write are overdrawn.             *)
Drawn == \A f \in overdrawn : \E d \in Inputs : f = Fingerprint(Reduced(d, settings))

LEMMA DrawnHolds == Inv /\ Drawn /\ [Next]_vars => Drawn'
<1> SUFFICES ASSUME Inv, Drawn, [Next]_vars PROVE Drawn'
  BY ZenonT(60)
<1>1. CASE UNCHANGED <<settings, overdrawn>>
  BY <1>1, ZenonT(60) DEF Drawn
<1>2. ASSUME NEW w \in DOMAIN writes, Delete(w) PROVE Drawn'
  <2>1. /\ settings' = settings
        /\ overdrawn' = overdrawn \/ overdrawn' = overdrawn \cup {FingerprintOf(w)}
    BY <1>2, ZenonT(60) DEF Delete
  <2>2. writes[w].data \in Inputs
    BY WritesTyped, ZenonT(60) DEF WriteRec
  <2> QED BY <2>1, <2>2, ZenonT(60) DEF Drawn, FingerprintOf
<1>3. CASE UNCHANGED vars
  BY <1>1, <1>3, ZenonT(60) DEF vars
<1>4. ASSUME NEW d \in Inputs, ReduceDuplicate(d) \/ ReduceNew(d) PROVE Drawn'
  BY <1>1, <1>4, ZenonT(60) DEF ReduceDuplicate, ReduceNew
<1>5. ASSUME NEW w \in DOMAIN writes,
             StoreDone(w) \/ StoreFails(w) \/ DeleteDone(w) \/ DeleteFails(w)
      PROVE  Drawn'
  BY <1>1, <1>5, ZenonT(60) DEF StoreDone, StoreFails, DeleteDone, DeleteFails
<1> QED BY <1>2, <1>3, <1>4, <1>5, ZenonT(60) DEF Next

(* Every byte the engine accepts is accounted for once, and what the       *)
(* deduplication engine says is left is what its table holds, whatever the *)
(* data, the library, the settings and the order of the callers' steps.    *)
THEOREM SavingsAreExact == Spec => []SavingsAddUp
<1>1. Inv /\ Booked /\ Drawn => SavingsAddUp
  <2> SUFFICES ASSUME Inv, Booked, Drawn PROVE SavingsAddUp
    BY ZenonT(60)
  <2>1. dedup.after \in Nat
    BY FS_CardinalityType, ZenonT(60) DEF Booked, TableBooked
  <2>2. dedup \in [total : Nat, unique : Nat, duplicate : Nat, before : Nat, after : Nat]
    BY <2>1, ZenonT(60) DEF Booked, TableBooked, DedupRec
  <2>3. \A f \in DOMAIN table : table[f] \in [block : Writes, size : Nat, ref : Nat \ {0}]
    BY ZenonT(60) DEF Inv, EntriesSound, EntryRec
  <2>4. TypeOK
    BY <2>2, <2>3, ZenonT(60) DEF TypeOK, Inv, Booked, BytesBooked, Settings, WriteRec, ReductionRec,
                      CompressionRec, Drawn
  <2> QED BY <2>4 DEF SavingsAddUp, Booked, TableBooked, BytesBooked, Balance
<1>2. Init => Drawn
  BY ZenonT(60) DEF Init, Drawn
<1> QED BY <1>1, <1>2, InvHolds, InitBooked, NextBooked, DrawnHolds, PTL DEF Spec
-----------------------------------------------------------------------------
(* The blocks that callers hold.  Key is what a write was looked up as and *)
(* is given up as; Plain data is its own.  A write Shares the entry of its *)
(* key unless it stored a repeated byte, whose entry nobody looks up.      *)
Plain(d) == ~PatternReduced(d, settings)
Key(ws, w) == Reduced(ws[w].data, settings)
Shares(ws, w) == Plain(ws[w].data) \/ ws[w].block # w
Holders(ws, f) == {w \in DOMAIN ws : ws[w].st = "held" /\ Shares(ws, w) /\ Key(ws, w) = f}
Refs(t, f) == IF f \in DOMAIN t THEN t[f].ref ELSE 0

(* A block that is on disk, with no delete_block on its way.               *)
Safe(b, on, ws) == b \in on /\ \A u \in DOMAIN ws : ws[u].st = "unlinking" => ws[u].block # b

(* A write has a block of its own or that of one that is through; the      *)
(* table's entries are such blocks.                                        *)
Owned(ws) ==
  \A w \in DOMAIN ws :
    /\ ws[w].st = "storing" => ws[w].block = w
    /\ ws[w].block # w => ws[ws[w].block].st # "storing"
Given(t, ws) == \A f \in DOMAIN t : ws[t[f].block].st # "storing"

(* Where nothing was overdrawn, an entry counts its holders, and the block *)
(* it gives out and those they hold are safe.                              *)
Counted(t, ws, over) ==
  \A f : Plain(f) /\ f \notin over => Refs(t, f) = Cardinality(Holders(ws, f))
HeldSafe(on, ws, over) ==
  \A w \in DOMAIN ws : ws[w].st = "held" =>
    Safe(ws[w].block, on, ws) \/ (Shares(ws, w) /\ Key(ws, w) \in over)
EntrySafe(t, on, ws, over) ==
  \A f \in DOMAIN t : Plain(f) => Safe(t[f].block, on, ws) \/ f \in over

Kept ==
  /\ Owned(writes) /\ Given(table, writes) /\ Counted(table, writes, overdrawn)
  /\ HeldSafe(disk, writes, overdrawn) /\ EntrySafe(table, disk, writes, overdrawn)

(* Keys are plain: no encoded form is a repeated byte.                     *)
LEMMA KeyPlain ==
  ASSUME NEW d \in Inputs
  PROVE  Plain(Reduced(d, settings)) /\ (Plain(d) => Reduced(d, settings) = d)
<1>1. CASE Plain(d)
  BY <1>1, ZenonT(60) DEF Plain, Reduced
<1>2. CASE ~Plain(d)
  <2>1. IsRepeated(d) /\ Reduced(d, settings) = Encode(d)
    BY <1>2, ZenonT(60) DEF Plain, PatternReduced, Reduced
  <2>2. ~IsRepeated(Encode(d))
    BY <2>1, EncodedNotRepeated, EngineAssumption, ZenonT(60)
  <2> QED BY <1>2, <2>1, <2>2, ZenonT(60) DEF Plain, PatternReduced
<1> QED BY <1>1, <1>2, ZenonT(60)

(* The block of a write that shares was stored for its key.                *)
LEMMA BlockData ==
  ASSUME Inv, NEW w \in DOMAIN writes
  PROVE  /\ writes[w].block \in DOMAIN writes /\ writes[w].data \in Inputs
         /\ Shares(writes, w) => writes[writes[w].block].data = Key(writes, w)
<1>0. writes[w].data \in Inputs
  BY WritesTyped, ZenonT(60) DEF WriteRec
<1>1. CASE writes[w].block = w
  BY <1>0, <1>1, KeyPlain, ZenonT(60) DEF Shares, Key
<1>2. CASE writes[w].block # w
  BY <1>0, <1>2, ZenonT(60) DEF Inv, BlocksSound, Key
<1> QED BY <1>1, <1>2, ZenonT(60)

(* Writes with the same block: when one shares, so does the other, and     *)
(* their keys are the same.                                                *)
LEMMA SameBlock ==
  ASSUME Inv, NEW v \in DOMAIN writes, NEW w \in DOMAIN writes,
         writes[v].block = writes[w].block, v # w
  PROVE  Shares(writes, v) /\ Shares(writes, w) /\ Key(writes, v) = Key(writes, w)
<1>1. ASSUME NEW x \in DOMAIN writes, NEW y \in DOMAIN writes,
             writes[x].block = x, writes[y].block = x, y # x
      PROVE  Shares(writes, x)
  <2>1. Shares(writes, y)
    BY <1>1, ZenonT(60) DEF Shares
  <2>2. writes[x].data = Key(writes, y) /\ Plain(Key(writes, y))
    BY <1>1, <2>1, BlockData, KeyPlain, ZenonT(60) DEF Key
  <2> QED BY <2>2, ZenonT(60) DEF Shares
<1>2. Shares(writes, v)
  <2>1. CASE writes[v].block = v
    BY <1>1, <2>1, ZenonT(60)
  <2> QED BY <2>1, ZenonT(60) DEF Shares
<1>3. Shares(writes, w)
  <2>1. CASE writes[w].block = w
    BY <1>1, <2>1, ZenonT(60)
  <2> QED BY <2>1, ZenonT(60) DEF Shares
<1> QED BY <1>2, <1>3, BlockData, ZenonT(60)

(* register_block: one reference more.                                     *)
LEMMA RegisterRefs ==
  ASSUME Inv, NEW c \in Seq(Nat), NEW b, RegisterBlock(c, b)
  PROVE  /\ DOMAIN table' = DOMAIN table \cup {c}
         /\ Refs(table', c) = Refs(table, c) + 1
         /\ \A g : g # c => Refs(table', g) = Refs(table, g)
         /\ \A g \in DOMAIN table : table'[g].block = table[g].block
         /\ c \notin DOMAIN table => table'[c].block = b
<1>1. CASE Known(c)
  <2>1. table' = [table EXCEPT ![c] = [table[c] EXCEPT !.ref = @ + 1]]
    BY <1>1, ZenonT(60) DEF RegisterBlock, Fingerprint
  <2>2. table[c] \in EntryRec /\ c \in DOMAIN table
    BY <1>1, ZenonT(60) DEF Inv, EntriesSound, Known
  <2>3. /\ [table[c] EXCEPT !.ref = @ + 1].ref = table[c].ref + 1
        /\ [table[c] EXCEPT !.ref = @ + 1].block = table[c].block
    BY <2>2, ZenonT(60) DEF EntryRec
  <2>4. /\ DOMAIN table' = DOMAIN table /\ table'[c].ref = table[c].ref + 1
        /\ table'[c].block = table[c].block
        /\ \A g \in DOMAIN table : g # c => table'[g] = table[g]
    BY <2>1, <2>2, <2>3, ZenonT(60)
  <2> QED BY <2>2, <2>4, ZenonT(60) DEF Refs
<1>2. CASE ~Known(c)
  <2>1. table' = [g \in DOMAIN table \cup {c} |-> IF g = c THEN Entry(b, Len(c)) ELSE table[g]]
    BY <1>2, ZenonT(60) DEF RegisterBlock, Fingerprint, Extend
  <2>2. /\ DOMAIN table' = DOMAIN table \cup {c} /\ c \notin DOMAIN table
        /\ table'[c].ref = 1 /\ table'[c].block = b
        /\ \A f \in DOMAIN table : table'[f] = table[f]
    BY <1>2, <2>1, ZenonT(60) DEF Known, Entry
  <2> QED BY <2>2 DEF Refs
<1> QED BY <1>1, <1>2, ZenonT(60)

(* dereference_block of a fingerprint the table has: one reference less,   *)
(* and the entry goes with the last one.                                   *)
LEMMA DereferenceRefs ==
  ASSUME Inv, NEW f \in DOMAIN table, DereferenceBlock(f)
  PROVE  /\ DOMAIN table' \subseteq DOMAIN table
         /\ RefsLeft(f) = Refs(table, f) - 1 /\ Refs(table', f) = RefsLeft(f)
         /\ RefsLeft(f) = 0 => f \notin DOMAIN table'
         /\ \A g : g # f => Refs(table', g) = Refs(table, g)
         /\ \A g \in DOMAIN table' : table'[g].block = table[g].block
<1>1. table[f] \in EntryRec /\ Known(f) /\ table[f].ref \in Nat \ {0}
  BY ZenonT(60) DEF Inv, EntriesSound, Known, EntryRec
<1>2. RefsLeft(f) = table[f].ref - 1 /\ Refs(table, f) = table[f].ref
  BY <1>1, ZenonT(60) DEF RefsLeft, Refs
<1>3. CASE table[f].ref > 1
  <2>1. table' = [table EXCEPT ![f] = [table[f] EXCEPT !.ref = @ - 1]]
    BY <1>1, <1>3, ZenonT(60) DEF DereferenceBlock
  <2>2. /\ [table[f] EXCEPT !.ref = @ - 1].ref = table[f].ref - 1
        /\ [table[f] EXCEPT !.ref = @ - 1].block = table[f].block
    BY <1>1, ZenonT(60) DEF EntryRec
  <2>3. /\ DOMAIN table' = DOMAIN table /\ table'[f].ref = table[f].ref - 1
        /\ table'[f].block = table[f].block
        /\ \A g \in DOMAIN table : g # f => table'[g] = table[g]
    BY <2>1, <2>2, ZenonT(60)
  <2> QED BY <1>1, <1>2, <1>3, <2>3 DEF Refs
<1>4. CASE ~(table[f].ref > 1)
  <2>1. table' = [g \in DOMAIN table \ {f} |-> table[g]]
    BY <1>1, <1>4, ZenonT(60) DEF DereferenceBlock, Restrict
  <2>2. table[f].ref = 1
    BY <1>1, <1>4
  <2> QED BY <1>2, <2>1, <2>2 DEF Refs
<1> QED BY <1>3, <1>4, ZenonT(60)

(* The holders of the same data are finitely many; one joins, one leaves.  *)
LEMMA HoldersCount ==
  ASSUME Inv, NEW d
  PROVE  /\ IsFiniteSet(Holders(writes, d)) /\ Cardinality(Holders(writes, d)) \in Nat
         /\ \A w : w \notin Holders(writes, d) =>
              Cardinality(Holders(writes, d) \cup {w}) = Cardinality(Holders(writes, d)) + 1
         /\ \A w \in Holders(writes, d) :
              Cardinality(Holders(writes, d) \ {w}) = Cardinality(Holders(writes, d)) - 1
<1>1. 1 \in Int /\ Len(writes) \in Int /\ DOMAIN writes = 1 .. Len(writes)
  BY WritesTyped DEF Inv
<1>2. IsFiniteSet(1 .. Len(writes))
  BY ONLY <1>1, FS_Interval, ZenonT(60)
<1>3. IsFiniteSet(Holders(writes, d))
  BY <1>1, <1>2, FS_Subset, ZenonT(60) DEF Holders
<1> HIDE DEF Holders
<1>4. Cardinality(Holders(writes, d)) \in Nat
  BY <1>3, FS_CardinalityType, ZenonT(60)
<1>5. \A w : w \notin Holders(writes, d) =>
        Cardinality(Holders(writes, d) \cup {w}) = Cardinality(Holders(writes, d)) + 1
  BY <1>3, FS_AddElement, ZenonT(60)
<1>6. \A w \in Holders(writes, d) :
        Cardinality(Holders(writes, d) \ {w}) = Cardinality(Holders(writes, d)) - 1
  BY <1>3, FS_RemoveElement, ZenonT(60)
<1> QED BY <1>3, <1>4, <1>5, <1>6, ZenonT(60)
(* A step that only moves write w on.                                      *)
LEMMA StateMoves ==
  ASSUME Inv, NEW w \in DOMAIN writes, NEW x \in WriteStates,
         writes' = [writes EXCEPT ![w].st = x]
  PROVE  /\ DOMAIN writes' = DOMAIN writes /\ writes'[w].st = x
         /\ \A v \in DOMAIN writes : /\ writes'[v].data = writes[v].data
                                     /\ writes'[v].block = writes[v].block
         /\ \A v \in DOMAIN writes : v # w => writes'[v].st = writes[v].st
<1>1. /\ DOMAIN writes' = DOMAIN writes
      /\ \A v \in DOMAIN writes : /\ writes'[v].data = writes[v].data
                                  /\ writes'[v].block = writes[v].block
  BY StateChanges, ZenonT(60)
<1>2. /\ writes'[w].st = x
      /\ \A v \in DOMAIN writes : v # w => writes'[v] = writes[v]
  BY WritesTyped, ZenonT(60) DEF WriteRec
<1> QED BY <1>1, <1>2, ZenonT(60)

(* A write appended after the others.                                      *)
LEMMA Appends ==
  ASSUME Inv, NEW r, writes' = Append(writes, r)
  PROVE  LET n == Len(writes) + 1
         IN  /\ DOMAIN writes' = DOMAIN writes \cup {n} /\ n \notin DOMAIN writes
             /\ writes'[n] = r /\ \A v \in DOMAIN writes : writes'[v] = writes[v]
<1>1. writes \in Seq(WriteRec) /\ DOMAIN writes = 1 .. Len(writes)
  BY WritesTyped, ZenonT(60) DEF Inv
<1> HIDE DEF WriteRec
<1> QED BY <1>1

(* The settings stay: Kept of the next state, in terms of the present ones. *)
LEMMA KeptNext ==
  ASSUME settings' = settings, Owned(writes'), Given(table', writes'),
         Counted(table', writes', overdrawn'), HeldSafe(disk', writes', overdrawn'),
         EntrySafe(table', disk', writes', overdrawn')
  PROVE  Kept'
<1>1. \A d : Plain(d)' <=> Plain(d)
  BY ZenonT(60) DEF Plain
<1>2. \A w : /\ Key(writes, w)' = Key(writes', w)
             /\ Shares(writes, w)' <=> Shares(writes', w)
  BY ZenonT(60) DEF Key, Shares, Plain
<1>3. \A f : Holders(writes, f)' = Holders(writes', f)
  BY <1>2, ZenonT(60) DEF Holders
<1>4. Counted(table, writes, overdrawn)'
  BY <1>1, <1>3, ZenonT(60) DEF Counted, Refs
<1>5. HeldSafe(disk, writes, overdrawn)'
  BY <1>2, ZenonT(60) DEF HeldSafe, Safe
<1>6. EntrySafe(table, disk, writes, overdrawn)'
  BY <1>1, ZenonT(60) DEF EntrySafe, Safe
<1>7. Owned(writes)' /\ Given(table, writes)'
  BY ZenonT(60) DEF Owned, Given
<1> QED BY <1>4, <1>5, <1>6, <1>7, ZenonT(60) DEF Kept

(* A write whose data and block stay shares as before, with the same key.  *)
LEMMA SameShare ==
  ASSUME NEW v, writes'[v].data = writes[v].data, writes'[v].block = writes[v].block
  PROVE  /\ Key(writes', v) = Key(writes, v)
         /\ Shares(writes', v) <=> Shares(writes, v)
BY ZenonT(60) DEF Key, Shares

(* reduce_and_store of a duplicate: one holder and one reference more, of  *)
(* a block that is safe or whose entry was overdrawn.                      *)
LEMMA DuplicateKept ==
  ASSUME Inv, Kept, NEW d \in Inputs, ReduceDuplicate(d)
  PROVE  Kept'
<1> DEFINE k == Reduced(d, settings)
           b == table[k].block
           n == Len(writes) + 1
           r == Write(d, "held", b)
<1>1. /\ settings' = settings /\ disk' = disk /\ overdrawn' = overdrawn
      /\ k \in DOMAIN table /\ RegisterBlock(k, b) /\ writes' = Append(writes, r)
  BY ZenonT(60) DEF ReduceDuplicate, Duplicate, Known, Fingerprint
<1>2. Plain(k)
  BY KeyPlain, ZenonT(60)
<1>3. /\ b \in DOMAIN writes /\ writes[b].data = k /\ writes[b].st # "storing"
      /\ Safe(b, disk, writes) \/ k \in overdrawn
  BY <1>1, <1>2, ZenonT(60) DEF Inv, EntriesSound, Kept, EntrySafe, Given
<1>4. k \in Seq(Nat)
  BY <1>3, WritesTyped, EngineAssumption, CodecAssumption, ZenonT(60) DEF WriteRec
<1>5. /\ DOMAIN table' = DOMAIN table /\ Refs(table', k) = Refs(table, k) + 1
      /\ \A g : g # k => Refs(table', g) = Refs(table, g)
      /\ \A g \in DOMAIN table : table'[g].block = table[g].block
  BY <1>1, <1>4, RegisterRefs, ZenonT(60)
<1>6. r.st = "held" /\ r.data = d /\ r.block = b
  BY ZenonT(60) DEF Write
<1>7. Reduced(d, settings) = k
  OBVIOUS
<1> HIDE DEF k, b, r
<1>8. /\ DOMAIN writes' = DOMAIN writes \cup {n} /\ n \notin DOMAIN writes
      /\ writes'[n] = r /\ \A v \in DOMAIN writes : writes'[v] = writes[v]
  BY <1>1, Appends, ZenonT(60)
<1> HIDE DEF n
<1>9. \A z : Safe(z, disk, writes) => Safe(z, disk', writes')
  BY <1>1, <1>6, <1>8, ZenonT(60) DEF Safe
<1>10. Key(writes', n) = k /\ Shares(writes', n) /\ writes'[n].st = "held"
  BY <1>3, <1>6, <1>7, <1>8, ZenonT(60) DEF Key, Shares
<1>11. \A v \in DOMAIN writes : /\ Key(writes', v) = Key(writes, v)
                                /\ Shares(writes', v) <=> Shares(writes, v)
  BY <1>8, SameShare, ZenonT(60)
<1>12. Owned(writes')
  <2> SUFFICES ASSUME NEW v \in DOMAIN writes'
               PROVE  /\ writes'[v].st = "storing" => writes'[v].block = v
                      /\ writes'[v].block # v => writes'[writes'[v].block].st # "storing"
    BY ZenonT(60) DEF Owned
  <2>1. CASE v = n
    BY <1>3, <1>6, <1>8, <2>1, ZenonT(60)
  <2>2. CASE v \in DOMAIN writes
    <3>1. writes[v].block \in DOMAIN writes
      BY <2>2, BlockData, ZenonT(60)
    <3> QED BY <1>8, <2>2, <3>1, ZenonT(60) DEF Kept, Owned
  <2> QED BY <1>8, <2>1, <2>2, ZenonT(60)
<1>13. Given(table', writes')
  BY <1>5, <1>8, ZenonT(60) DEF Given, Kept, Inv, EntriesSound
<1>14. Counted(table', writes', overdrawn')
  <2> SUFFICES ASSUME NEW e, Plain(e), e \notin overdrawn
               PROVE  Refs(table', e) = Cardinality(Holders(writes', e))
    BY <1>1, ZenonT(60) DEF Counted
  <2>1. Refs(table, e) = Cardinality(Holders(writes, e))
    BY ZenonT(60) DEF Kept, Counted
  <2>2. CASE e = k
    <3>1. Holders(writes', k) = Holders(writes, k) \cup {n} /\ n \notin Holders(writes, k)
      BY <1>8, <1>10, <1>11, ZenonT(60) DEF Holders
    <3> QED BY <1>5, <2>1, <2>2, <3>1, HoldersCount, ZenonT(60)
  <2>3. CASE e # k
    <3>1. Holders(writes', e) = Holders(writes, e)
      BY <1>8, <1>10, <1>11, <2>3, ZenonT(60) DEF Holders
    <3> QED BY <1>5, <2>1, <2>3, <3>1, ZenonT(60)
  <2> QED BY <2>2, <2>3, ZenonT(60)
<1>15. HeldSafe(disk', writes', overdrawn')
  <2> SUFFICES ASSUME NEW v \in DOMAIN writes', writes'[v].st = "held"
               PROVE  \/ Safe(writes'[v].block, disk', writes')
                      \/ Shares(writes', v) /\ Key(writes', v) \in overdrawn
    BY <1>1, ZenonT(60) DEF HeldSafe
  <2>1. CASE v = n
    BY <1>3, <1>6, <1>8, <1>9, <1>10, <2>1, ZenonT(60)
  <2>2. CASE v \in DOMAIN writes
    BY <1>8, <1>9, <1>11, <2>2, ZenonT(60) DEF HeldSafe, Kept
  <2> QED BY <1>8, <2>1, <2>2, ZenonT(60)
<1>16. EntrySafe(table', disk', writes', overdrawn')
  BY <1>1, <1>5, <1>9, ZenonT(60) DEF EntrySafe, Kept
<1> QED BY <1>1, <1>12, <1>13, <1>14, <1>15, <1>16, KeptNext, ZenonT(60)

(* reduce_and_store of new data: nobody holds it yet.                      *)
LEMMA NewKept ==
  ASSUME Inv, Kept, NEW d \in Inputs, ReduceNew(d)
  PROVE  Kept'
<1> DEFINE n == Len(writes) + 1
           r == Write(d, "storing", n)
<1>1. /\ settings' = settings /\ disk' = disk /\ table' = table /\ overdrawn' = overdrawn
      /\ writes' = Append(writes, r)
  BY ZenonT(60) DEF ReduceNew
<1>2. r.st = "storing" /\ r.data = d /\ r.block = n
  BY ZenonT(60) DEF Write
<1> HIDE DEF r
<1>3. /\ DOMAIN writes' = DOMAIN writes \cup {n} /\ n \notin DOMAIN writes
      /\ writes'[n] = r /\ \A v \in DOMAIN writes : writes'[v] = writes[v]
  BY <1>1, Appends, ZenonT(60)
<1> HIDE DEF n
<1>4. \A z : Safe(z, disk, writes) => Safe(z, disk', writes')
  BY <1>1, <1>2, <1>3, ZenonT(60) DEF Safe
<1>5. \A v \in DOMAIN writes : /\ Key(writes', v) = Key(writes, v)
                               /\ Shares(writes', v) <=> Shares(writes, v)
  BY <1>3, SameShare, ZenonT(60)
<1>6. writes'[n].st # "held"
  BY <1>2, <1>3, ZenonT(60)
<1>7. Owned(writes')
  <2> SUFFICES ASSUME NEW v \in DOMAIN writes'
               PROVE  /\ writes'[v].st = "storing" => writes'[v].block = v
                      /\ writes'[v].block # v => writes'[writes'[v].block].st # "storing"
    BY ZenonT(60) DEF Owned
  <2>1. CASE v = n
    BY <1>2, <1>3, <2>1, ZenonT(60)
  <2>2. CASE v \in DOMAIN writes
    <3>1. writes[v].block \in DOMAIN writes
      BY <2>2, BlockData, ZenonT(60)
    <3> QED BY <1>3, <2>2, <3>1, ZenonT(60) DEF Kept, Owned
  <2> QED BY <1>3, <2>1, <2>2, ZenonT(60)
<1>8. Given(table', writes')
  BY <1>1, <1>3, ZenonT(60) DEF Given, Kept, Inv, EntriesSound
<1>9. Counted(table', writes', overdrawn')
  <2>1. \A e : Holders(writes', e) = Holders(writes, e)
    BY <1>3, <1>5, <1>6, ZenonT(60) DEF Holders
  <2> QED BY <1>1, <2>1, ZenonT(60) DEF Counted, Kept
<1>10. HeldSafe(disk', writes', overdrawn')
  BY <1>1, <1>3, <1>4, <1>5, <1>6, ZenonT(60) DEF HeldSafe, Kept
<1>11. EntrySafe(table', disk', writes', overdrawn')
  BY <1>1, <1>4, ZenonT(60) DEF EntrySafe, Kept
<1> QED BY <1>1, <1>7, <1>8, <1>9, <1>10, <1>11, KeptNext, ZenonT(60)

(* A write that moves on does not take up storing again.                   *)
LEMMA MovesOwned ==
  ASSUME Inv, Kept, NEW w \in DOMAIN writes, NEW x \in WriteStates, x # "storing",
         writes' = [writes EXCEPT ![w].st = x]
  PROVE  /\ Owned(writes') /\ Given(table, writes')
         /\ \A v \in DOMAIN writes : /\ Key(writes', v) = Key(writes, v)
                                     /\ Shares(writes', v) <=> Shares(writes, v)
<1>1. /\ DOMAIN writes' = DOMAIN writes /\ writes'[w].st = x
      /\ \A v \in DOMAIN writes : /\ writes'[v].data = writes[v].data
                                  /\ writes'[v].block = writes[v].block
      /\ \A v \in DOMAIN writes : v # w => writes'[v].st = writes[v].st
  BY StateMoves, ZenonT(60)
<1>2. \A v \in DOMAIN writes : writes[v].st # "storing" => writes'[v].st # "storing"
  BY <1>1, ZenonT(60)
<1>3. \A v \in DOMAIN writes : writes'[v].st = "storing" => writes[v].st = "storing"
  BY <1>1, ZenonT(60)
<1>4. Given(table, writes')
  BY <1>2, ZenonT(60) DEF Given, Kept, Inv, EntriesSound
<1>5. \A v \in DOMAIN writes : writes[v].block \in DOMAIN writes
  BY BlockData, ZenonT(60)
<1>6. Owned(writes')
  <2> SUFFICES ASSUME NEW v \in DOMAIN writes
               PROVE  /\ writes'[v].st = "storing" => writes[v].block = v
                      /\ writes[v].block # v => writes'[writes[v].block].st # "storing"
    BY <1>1, ZenonT(60) DEF Owned
  <2>1. /\ writes[v].st = "storing" => writes[v].block = v
        /\ writes[v].block # v => writes[writes[v].block].st # "storing"
    BY ZenonT(60) DEF Kept, Owned
  <2> QED BY <1>2, <1>3, <1>5, <2>1, ZenonT(60)
<1>7. \A v \in DOMAIN writes : /\ Key(writes', v) = Key(writes, v)
                               /\ Shares(writes', v) <=> Shares(writes, v)
  BY <1>1, SameShare, ZenonT(60)
<1> QED BY <1>4, <1>6, <1>7, ZenonT(60)

(* write_block returned: the block is on disk, and no delete can have been *)
(* after it before.  The holder of a repeated byte is counted where nobody *)
(* looks.                                                                  *)
LEMMA StoreKept ==
  ASSUME Inv, Kept, NEW w \in DOMAIN writes, StoreDone(w)
  PROVE  Kept'
<1> DEFINE d == writes[w].data
<1>1. /\ settings' = settings /\ disk' = disk \cup {w} /\ writes[w].st = "storing"
      /\ RegisterBlock(d, w) /\ writes' = [writes EXCEPT ![w].st = "held"]
      /\ overdrawn' = overdrawn
  BY ZenonT(60) DEF StoreDone
<1>2. d \in Inputs /\ d \in Seq(Nat)
  BY WritesTyped, EngineAssumption, CodecAssumption, ZenonT(60) DEF WriteRec
<1>3. /\ DOMAIN writes' = DOMAIN writes /\ writes'[w].st = "held"
      /\ \A v \in DOMAIN writes : /\ writes'[v].data = writes[v].data
                                  /\ writes'[v].block = writes[v].block
      /\ \A v \in DOMAIN writes : v # w => writes'[v].st = writes[v].st
  BY <1>1, StateMoves, ZenonT(60) DEF WriteStates
<1>4. /\ DOMAIN table' = DOMAIN table \cup {d}
      /\ Refs(table', d) = Refs(table, d) + 1
      /\ \A g : g # d => Refs(table', g) = Refs(table, g)
      /\ \A g \in DOMAIN table : table'[g].block = table[g].block
      /\ d \notin DOMAIN table => table'[d].block = w
  BY <1>1, <1>2, RegisterRefs, ZenonT(60)
<1>5. /\ Owned(writes') /\ Given(table, writes')
      /\ \A v \in DOMAIN writes : /\ Key(writes', v) = Key(writes, v)
                                  /\ Shares(writes', v) <=> Shares(writes, v)
  BY <1>1, MovesOwned, ZenonT(60) DEF WriteStates
<1>6. writes[w].block = w
  BY <1>1, ZenonT(60) DEF Kept, Owned
<1>7. /\ Shares(writes, w) <=> Plain(d)
      /\ Plain(Key(writes, w)) /\ (Plain(d) => Key(writes, w) = d)
  BY <1>2, <1>6, KeyPlain, ZenonT(60) DEF Shares, Key
<1> HIDE DEF d
<1>8. Given(table', writes')
  BY <1>3, <1>4, <1>5, ZenonT(60) DEF Given
<1>9. \A z : Safe(z, disk, writes) => Safe(z, disk', writes')
  BY <1>1, <1>3, ZenonT(60) DEF Safe
<1>10. Safe(w, disk', writes')
  <2>1. ASSUME NEW u \in DOMAIN writes, writes'[u].st = "unlinking", writes[u].block = w
        PROVE  FALSE
    <3>1. u # w
      BY <1>3, <2>1, ZenonT(60)
    <3> QED BY <1>1, <2>1, <3>1, ZenonT(60) DEF Kept, Owned
  <2> QED BY <1>1, <1>3, <2>1, ZenonT(60) DEF Safe
<1>11. Counted(table', writes', overdrawn')
  <2> SUFFICES ASSUME NEW e, Plain(e), e \notin overdrawn
               PROVE  Refs(table', e) = Cardinality(Holders(writes', e))
    BY <1>1, ZenonT(60) DEF Counted
  <2>1. Refs(table, e) = Cardinality(Holders(writes, e))
    BY ZenonT(60) DEF Kept, Counted
  <2>2. CASE e = d
    <3>1. Shares(writes, w) /\ Key(writes, w) = d
      BY <1>7, <2>2, ZenonT(60)
    <3>2. Holders(writes', d) = Holders(writes, d) \cup {w} /\ w \notin Holders(writes, d)
      BY <1>1, <1>3, <1>5, <3>1, ZenonT(60) DEF Holders
    <3> QED BY <1>4, <2>1, <2>2, <3>2, HoldersCount, ZenonT(60)
  <2>3. CASE e # d
    <3>1. ~(Shares(writes, w) /\ Key(writes, w) = e)
      BY <1>7, <2>3, ZenonT(60)
    <3>2. Holders(writes', e) = Holders(writes, e)
      BY <1>1, <1>3, <1>5, <3>1, ZenonT(60) DEF Holders
    <3> QED BY <1>4, <2>1, <2>3, <3>2, ZenonT(60)
  <2> QED BY <2>2, <2>3, ZenonT(60)
<1>12. HeldSafe(disk', writes', overdrawn')
  BY <1>1, <1>3, <1>5, <1>6, <1>9, <1>10, ZenonT(60) DEF HeldSafe, Kept
<1>13. EntrySafe(table', disk', writes', overdrawn')
  BY <1>1, <1>4, <1>9, <1>10, ZenonT(60) DEF EntrySafe, Kept
<1> QED BY <1>1, <1>5, <1>8, <1>11, <1>12, <1>13, KeptNext, ZenonT(60)

(* write_block raised, or delete_block returned or raised: nobody's        *)
(* holdings change, and the file that may go is no one's.                  *)
LEMMA SettledKept ==
  ASSUME Inv, Kept, NEW w \in DOMAIN writes, StoreFails(w) \/ DeleteDone(w) \/ DeleteFails(w)
  PROVE  Kept'
<1>1. /\ settings' = settings /\ table' = table /\ overdrawn' = overdrawn
      /\ writes[w].st \in {"storing", "unlinking"}
      /\ disk' = disk \/ (writes[w].st = "unlinking" /\ disk' = disk \ {writes[w].block})
  BY ZenonT(60) DEF StoreFails, DeleteDone, DeleteFails
<1>2. PICK x \in {"failed", "deleted", "undeleted"} : writes' = [writes EXCEPT ![w].st = x]
  BY ZenonT(60) DEF StoreFails, DeleteDone, DeleteFails
<1>3. x \in WriteStates /\ x # "storing" /\ x # "held" /\ x # "unlinking"
  BY ZenonT(60) DEF WriteStates
<1>4. /\ DOMAIN writes' = DOMAIN writes /\ writes'[w].st = x
      /\ \A v \in DOMAIN writes : /\ writes'[v].data = writes[v].data
                                  /\ writes'[v].block = writes[v].block
      /\ \A v \in DOMAIN writes : v # w => writes'[v].st = writes[v].st
  BY <1>2, <1>3, StateMoves, ZenonT(60)
<1>5. /\ Owned(writes') /\ Given(table, writes')
      /\ \A v \in DOMAIN writes : /\ Key(writes', v) = Key(writes, v)
                                  /\ Shares(writes', v) <=> Shares(writes, v)
  BY <1>2, <1>3, MovesOwned, ZenonT(60)
<1>6. \A v \in DOMAIN writes : writes'[v].st = "held" <=> writes[v].st = "held"
  BY <1>1, <1>3, <1>4, ZenonT(60)
<1>7. \A z : Safe(z, disk, writes) => Safe(z, disk', writes')
  BY <1>1, <1>3, <1>4, ZenonT(60) DEF Safe
<1>8. Counted(table', writes', overdrawn')
  <2>1. \A e : Holders(writes', e) = Holders(writes, e)
    BY <1>4, <1>5, <1>6, ZenonT(60) DEF Holders
  <2> QED BY <1>1, <2>1, ZenonT(60) DEF Counted, Kept
<1>9. HeldSafe(disk', writes', overdrawn')
  BY <1>1, <1>4, <1>5, <1>6, <1>7, ZenonT(60) DEF HeldSafe, Kept
<1>10. EntrySafe(table', disk', writes', overdrawn')
  BY <1>1, <1>7, ZenonT(60) DEF EntrySafe, Kept
<1>11. Given(table', writes')
  BY <1>1, <1>5, ZenonT(60)
<1> QED BY <1>1, <1>5, <1>8, <1>9, <1>10, <1>11, KeptNext, ZenonT(60)

(* delete.  With a reference of its own: one holder and one reference      *)
(* less, and the file goes with the last holder.  With somebody else's:    *)
(* the entry is overdrawn.  With none to give up, nobody has the block.    *)
LEMMA DeleteKept ==
  ASSUME Inv, Kept, NEW w \in DOMAIN writes, Delete(w)
  PROVE  Kept'
<1> DEFINE f == Key(writes, w)
           x == IF RefsLeft(f) = 0 THEN "unlinking" ELSE "deleted"
<1>1. FingerprintOf(w) = f
  BY ZenonT(60) DEF FingerprintOf, Fingerprint, Key
<1>2. /\ settings' = settings /\ disk' = disk /\ writes[w].st \in {"held", "undeleted"}
      /\ DereferenceBlock(f) /\ writes' = [writes EXCEPT ![w].st = x]
      /\ overdrawn' = IF Known(f) /\ ~HasReference(w) THEN overdrawn \cup {f} ELSE overdrawn
  BY <1>1, ZenonT(60) DEF Delete
<1>3. x \in WriteStates /\ x # "storing" /\ x # "held" /\ (x = "unlinking" => RefsLeft(f) = 0)
  BY ZenonT(60) DEF WriteStates
<1>4. Plain(f)
  BY BlockData, KeyPlain, ZenonT(60) DEF Key
<1>5. HasReference(w) => w \in Holders(writes, f)
  BY ZenonT(60) DEF HasReference, Holders, Shares, Plain
<1>6. overdrawn \subseteq overdrawn' /\ (f \notin overdrawn' /\ f \in DOMAIN table => HasReference(w))
  BY <1>2, ZenonT(60) DEF Known
<1>7. Shares(writes, w) => writes[writes[w].block].data = f
  BY BlockData, ZenonT(60)
<1> HIDE DEF f, x
<1>8. /\ DOMAIN table' \subseteq DOMAIN table
      /\ \A g : g # f => Refs(table', g) = Refs(table, g)
      /\ \A g \in DOMAIN table' : table'[g].block = table[g].block
      /\ f \in DOMAIN table => Refs(table', f) = Refs(table, f) - 1
      /\ RefsLeft(f) = 0 => f \notin DOMAIN table'
      /\ f \notin DOMAIN table => table' = table
  <2>1. CASE f \in DOMAIN table
    BY <1>2, <2>1, DereferenceRefs, ZenonT(60)
  <2>2. CASE f \notin DOMAIN table
    BY <1>2, <2>2, ZenonT(60) DEF DereferenceBlock, Known
  <2> QED BY <2>1, <2>2, ZenonT(60)
<1>9. /\ DOMAIN writes' = DOMAIN writes /\ writes'[w].st = x
      /\ \A v \in DOMAIN writes : /\ writes'[v].data = writes[v].data
                                  /\ writes'[v].block = writes[v].block
      /\ \A v \in DOMAIN writes : v # w => writes'[v].st = writes[v].st
  BY <1>2, <1>3, StateMoves, ZenonT(60)
<1>10. /\ Owned(writes') /\ Given(table, writes')
       /\ \A v \in DOMAIN writes : /\ Key(writes', v) = Key(writes, v)
                                   /\ Shares(writes', v) <=> Shares(writes, v)
  BY <1>2, <1>3, MovesOwned, ZenonT(60)
<1>11. Given(table', writes')
  BY <1>8, <1>10, ZenonT(60) DEF Given
<1>12. /\ \A e : Holders(writes', e) = Holders(writes, e) \ {w}
       /\ \A e : e # f => w \notin Holders(writes, e)
  BY <1>3, <1>9, <1>10, ZenonT(60) DEF Holders, f
<1>13. Counted(table', writes', overdrawn')
  <2> SUFFICES ASSUME NEW e, Plain(e), e \notin overdrawn'
               PROVE  Refs(table', e) = Cardinality(Holders(writes', e))
    BY ZenonT(60) DEF Counted
  <2>1. Refs(table, e) = Cardinality(Holders(writes, e))
    BY <1>6, ZenonT(60) DEF Kept, Counted
  <2>2. CASE e # f
    <3>1. Holders(writes', e) = Holders(writes, e)
      BY <1>12, <2>2, ZenonT(60)
    <3> QED BY <1>8, <2>1, <2>2, <3>1, ZenonT(60)
  <2>3. CASE e = f /\ f \in DOMAIN table
    <3>1. w \in Holders(writes, f)
      BY <1>5, <1>6, <2>3, ZenonT(60)
    <3>2. Cardinality(Holders(writes', f)) = Cardinality(Holders(writes, f)) - 1
      BY <1>12, <3>1, HoldersCount, ZenonT(60)
    <3> QED BY <1>8, <2>1, <2>3, <3>2, ZenonT(60)
  <2>4. CASE e = f /\ f \notin DOMAIN table
    <3>1. Refs(table, f) = 0 /\ table' = table
      BY <1>8, <2>4, ZenonT(60) DEF Refs
    <3>2. Holders(writes, f) = {}
      BY <2>1, <2>4, <3>1, HoldersCount, FS_EmptySet, ZenonT(60)
    <3>3. Holders(writes', f) = Holders(writes, f)
      BY <1>12, <3>2, ZenonT(60)
    <3> QED BY <2>1, <2>4, <3>1, <3>3, ZenonT(60)
  <2> QED BY <2>2, <2>3, <2>4, ZenonT(60)
<1>14. \A z : Safe(z, disk, writes) /\ (x = "unlinking" => z # writes[w].block)
                => Safe(z, disk', writes')
  BY <1>2, <1>9, ZenonT(60) DEF Safe
<1>15. ASSUME x = "unlinking", f \notin overdrawn' PROVE Holders(writes', f) = {}
  <2>1. f \notin DOMAIN table' /\ Refs(table', f) = 0
    BY <1>3, <1>8, <1>15, ZenonT(60) DEF Refs
  <2>2. Cardinality(Holders(writes', f)) = 0
    BY <1>4, <1>13, <1>15, <2>1, ZenonT(60) DEF Counted
  <2>3. IsFiniteSet(Holders(writes', f))
    BY <1>12, HoldersCount, FS_Subset, ZenonT(60)
  <2> QED BY <2>2, <2>3, FS_EmptySet, ZenonT(60)
<1>16. HeldSafe(disk', writes', overdrawn')
  <2> SUFFICES ASSUME NEW v \in DOMAIN writes, writes'[v].st = "held",
                      ~(Shares(writes, v) /\ Key(writes, v) \in overdrawn')
               PROVE  Safe(writes[v].block, disk', writes')
    BY <1>9, <1>10, ZenonT(60) DEF HeldSafe
  <2>1. v # w /\ writes[v].st = "held" /\ Safe(writes[v].block, disk, writes)
    BY <1>3, <1>6, <1>9, ZenonT(60) DEF Kept, HeldSafe
  <2>2. ASSUME x = "unlinking", writes[v].block = writes[w].block PROVE FALSE
    <3>1. Shares(writes, v) /\ Key(writes, v) = f
      BY <2>1, <2>2, SameBlock, ZenonT(60) DEF f
    <3>2. v \in Holders(writes', f)
      BY <1>9, <1>10, <3>1, ZenonT(60) DEF Holders
    <3> QED BY <1>15, <2>2, <3>1, <3>2, ZenonT(60)
  <2> QED BY <1>14, <2>1, <2>2, ZenonT(60)
<1>17. EntrySafe(table', disk', writes', overdrawn')
  <2> SUFFICES ASSUME NEW g \in DOMAIN table', Plain(g), g \notin overdrawn'
               PROVE  Safe(table[g].block, disk', writes')
    BY <1>8, ZenonT(60) DEF EntrySafe
  <2>1. /\ g \in DOMAIN table /\ writes[table[g].block].data = g
        /\ Safe(table[g].block, disk, writes)
    BY <1>6, <1>8, ZenonT(60) DEF Inv, EntriesSound, Kept, EntrySafe
  <2>2. ASSUME x = "unlinking", table[g].block = writes[w].block PROVE FALSE
    <3>1. CASE Shares(writes, w)
      BY <1>3, <1>7, <1>8, <2>1, <2>2, <3>1, ZenonT(60)
    <3>2. CASE ~Shares(writes, w)
      BY <2>1, <2>2, <3>2, ZenonT(60) DEF Shares
    <3> QED BY <3>1, <3>2, ZenonT(60)
  <2> QED BY <1>14, <2>1, <2>2, ZenonT(60)
<1> QED BY <1>2, <1>10, <1>11, <1>13, <1>16, <1>17, KeptNext, ZenonT(60)

(* A block's file stays while a caller holds a write that was given it,    *)
(* whatever the settings, the data and the order of the callers' steps,    *)
(* and although deletions may fail and be tried again: only the holders    *)
(* counted in an entry of which delete gave up a reference that its caller *)
(* did not have can lose it.                                               *)
THEOREM HeldBlocksStay == Spec => []HeldOnDisk
<1>1. Inv /\ Kept => HeldOnDisk
  <2> SUFFICES ASSUME Inv, Kept, NEW w \in Held
               PROVE  writes[w].block \in disk \/ (HasReference(w) /\ FingerprintOf(w) \in overdrawn)
    BY ZenonT(60) DEF HeldOnDisk
  <2>1. w \in DOMAIN writes /\ writes[w].st = "held"
    BY ZenonT(60) DEF Held
  <2>2. Safe(writes[w].block, disk, writes) \/ (Shares(writes, w) /\ Key(writes, w) \in overdrawn)
    BY <2>1, ZenonT(60) DEF Kept, HeldSafe
  <2>3. /\ Shares(writes, w) => HasReference(w)
        /\ FingerprintOf(w) = Key(writes, w)
    BY <2>1, ZenonT(60) DEF HasReference, Shares, Plain, FingerprintOf, Fingerprint, Key
  <2> QED BY <2>2, <2>3, ZenonT(60) DEF Safe
<1>2. Init => Kept
  <2> SUFFICES ASSUME Init PROVE Kept
    BY ZenonT(60)
  <2>1. DOMAIN writes = {} /\ DOMAIN table = {}
    BY DEF Init
  <2>2. \A d : Holders(writes, d) = {} /\ Refs(table, d) = 0
    BY <2>1, ZenonT(60) DEF Holders, Refs
  <2> QED BY <2>1, <2>2, FS_EmptySet, ZenonT(60) DEF Kept, Owned, Given, Counted, HeldSafe, EntrySafe
<1>3. Inv /\ Kept /\ [Next]_vars => Kept'
  <2> SUFFICES ASSUME Inv, Kept, [Next]_vars PROVE Kept'
    BY ZenonT(60)
  <2>1. CASE UNCHANGED vars
    <3>1. /\ settings' = settings /\ disk' = disk /\ table' = table /\ writes' = writes
          /\ overdrawn' = overdrawn
      BY <2>1, ZenonT(60) DEF vars
    <3> QED BY <3>1, KeptNext, ZenonT(60) DEF Kept
  <2> QED BY <2>1, DuplicateKept, NewKept, StoreKept, SettledKept, DeleteKept, ZenonT(60) DEF Next
<1> QED BY <1>1, <1>2, <1>3, InvHolds, PTL DEF Spec
=============================================================================
