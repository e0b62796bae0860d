------------------------------ MODULE Polyline ------------------------------
(***************************************************************************)
(* The encoded polyline of a ride: internal/geo/polyline.go.  A character  *)
(* is its code.                                                            *)
(***************************************************************************)
EXTENDS Integers, Sequences, FiniteSetsExt

CONSTANTS
  MaxBytes,    \* maxEncodedPolylineBytes
  QuarterTurn  \* 90 degrees, in the units the polyline counts in

ASSUME PolylineAssumption == MaxBytes \in Nat /\ QuarterTurn \in Nat \ {0}

Malformed == <<>>

Alphabet == 63..126
MaxChunks == 6  \* maxValueBits, five bits at a time

Chunk(encoded, i) == encoded[i] - 63

\* decodeValue: the last character of the value that begins at i, which is the
\* first without the continuation bit.  There is none when the text ends, leaves
\* the alphabet or goes on for too long before it.
LastOf(encoded, i) ==
  {j \in i..(i + MaxChunks - 1) :
     /\ j <= Len(encoded)
     /\ \A k \in i..j : encoded[k] \in Alphabet
     /\ Chunk(encoded, j) < 32
     /\ \A k \in i..(j - 1) : Chunk(encoded, k) >= 32}

\* The bits of the chunks, the lowest first.
Bits(encoded, i, j) ==
  MapThenSumSet(LAMBDA k : (Chunk(encoded, k) % 32) * 2^(5 * (k - i)), i..j)

\* The low bit is the sign, and ^n is -n - 1.
Signed(bits) == IF bits % 2 = 1 THEN -(bits \div 2) - 1 ELSE bits \div 2

\* The values of the text, and whether all of it could be read.
Decoded(encoded) ==
  LET from[i \in 1..(Len(encoded) + 1)] ==
        IF i > Len(encoded) THEN [values |-> <<>>, whole |-> TRUE]
        ELSE IF LastOf(encoded, i) = {} THEN [values |-> <<>>, whole |-> FALSE]
        ELSE LET j == CHOOSE j \in LastOf(encoded, i) : TRUE
             IN  [from[j + 1] EXCEPT !.values = <<Signed(Bits(encoded, i, j))>> \o @]
  IN  from[1]

OnTheGlobe(p) ==
  p.lat \in (-QuarterTurn)..QuarterTurn /\ p.lon \in (-2 * QuarterTurn)..(2 * QuarterTurn)

\* DecodePolyline: the values are steps, by turns of latitude and longitude.
\* One that cannot be read, a step without its other half, or a point that is
\* not on the globe refuses the whole text.
DecodePolyline(encoded) ==
  LET steps == Decoded(encoded).values
      sum(first, n) == MapThenSumSet(LAMBDA k : steps[2 * k - first], 1..n)
      points == [n \in 1..(Len(steps) \div 2) |-> [lat |-> sum(1, n), lon |-> sum(0, n)]]
  IN  IF /\ Len(encoded) <= MaxBytes
         /\ Decoded(encoded).whole /\ Len(steps) % 2 = 0
         /\ \A n \in DOMAIN points : OnTheGlobe(points[n])
      THEN points ELSE Malformed
=============================================================================
