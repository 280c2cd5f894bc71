--------------------------- MODULE MCPurityEngine ---------------------------
(***************************************************************************)
(* Model checking instance of PurityEngine.  A byte has eight values: 5    *)
(* stands for the underscore both markers start with, 3 and 4 for other    *)
(* bytes.  The compression library is stood in for by run-length coding,   *)
(* which is lossless, gains on some data and loses on other.               *)
(***************************************************************************)
EXTENDS PurityEngine

MCMarker == <<5, 5, 3, 5>>
MCPrefix == <<5, 5, 4, 4>>

Compressible == Repeat(3, 7) \o <<4, 5>>

(* Data around the sizes of the header and of the markers, with and        *)
(* without the bytes they start with.                                      *)
Upto(n, S) == UNION {[1 .. k -> S] : k \in 0 .. n}
MCBlocks ==
  Upto(4, {0, 1, 3, 4, 5}) \cup [1 .. 5 -> {0, 1, 3}] \cup [1 .. 6 -> {0, 2}]
    \cup {MCPrefix \o x : x \in Upto(2, {0, 3})} \cup {MCPrefix \o <<3, 0, 0, 0, 3>>}
    \cup {Repeat(3, 9), Compressible}

(* A zero block of the block size and one shorter, a repeated byte and its *)
(* encoded form, data that starts like a header, compressible data.        *)
MCInputs == {<<0, 0, 0>>, <<0, 0>>, <<3, 3, 3>>, MCPrefix \o <<3, 0, 0, 0, 3>>,
             <<1, 3, 1, 3, 3>>, Compressible}

(* Runs as pairs of a length and a cell.                                   *)
RunLength(d) ==
  LET code[i \in 0 .. Len(d)] ==
        IF i = 0 THEN <<>>
        ELSE LET r == code[i - 1]
                 n == Len(r)
             IN  IF r # <<>> /\ r[n] = d[i] THEN [r EXCEPT ![n - 1] = @ + 1]
                                            ELSE r \o <<1, d[i]>>
  IN  code[Len(d)]
Expand(c) ==
  LET plain[i \in 0 .. Len(c) \div 2] ==
        IF i = 0 THEN <<>> ELSE plain[i - 1] \o Repeat(c[2 * i], c[2 * i - 1])
  IN  plain[Len(c) \div 2]

(* Run-length coding inflates no block to itself: what CodecsAreExact asks *)
(* of the library holds here.                                              *)
ASSUME CoderAssumption == NoFixpoint
=============================================================================
