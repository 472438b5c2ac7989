--------------------------- MODULE KVCacheProofs ---------------------------
(***************************************************************************)
(* Proofs about KVCache, for any packing, head size, block size, spare     *)
(* room and attention mode, and any sequence of calls.                     *)
(*                                                                         *)
(* The layouts of keys and values are numbers in a mixed radix: one digit  *)
(* each for the block, the row, the place in the row and the place in the  *)
(* pack.  Digits are unique, so no two cells coincide; they are bounded,   *)
(* so every cell is in the buffer; and growth changes only the first one   *)
(* (keys, blocks of values) or the length of a row (one block of values).  *)
(* From there on a layout is a function from tokens and dims to cells, and *)
(* what the operations of CPUKVCacheManager keep is stated once for both.  *)
(*                                                                         *)
(* The invariant: within the contract the buffer holds hist, and the noted *)
(* edit describes keep (Kept): the tokens in front, and ranges each of     *)
(* which lies behind the place it is moved to, so that the upward loop of  *)
(* onRealloc meets no token it has overwritten.                            *)
(***************************************************************************)
EXTENDS KVCache, SequenceTheorems, NaturalsInduction, WellFoundedInduction, TLAPS

-----------------------------------------------------------------------------
(* Numbers: division with rest, and numbers in a mixed radix.              *)

\* A number, its quotient and its rest.
LEMMA Euclid ==
    ASSUME NEW a \in Int, NEW n \in Nat \ {0}
    PROVE  /\ a \div n \in Int /\ a % n \in 0 .. n - 1
           /\ a = n * (a \div n) + (a % n)
<1>1. a \div n \in Int
  OBVIOUS
<1>2. a % n \in 0 .. n - 1
  OBVIOUS
<1>3. a = n * (a \div n) + (a % n)
  OBVIOUS
<1> QED
  BY <1>1, <1>2, <1>3

\* The only way to write a number with a rest below n.
LEMMA EuclidUnique ==
    ASSUME NEW a \in Int, NEW n \in Nat \ {0}, NEW q \in Int, NEW r \in 0 .. n - 1,
           a = n * q + r
    PROVE  a \div n = q /\ a % n = r
  BY SMTT(30)

\* Two numbers with the same quotient and rest are one.
LEMMA DigitInj ==
    ASSUME NEW n \in Nat \ {0}, NEW a \in Int, NEW b \in Int,
           NEW x \in 0 .. n - 1, NEW y \in 0 .. n - 1, a * n + x = b * n + y
    PROVE  a = b /\ x = y
  OBVIOUS

\* A product of natural numbers does not go down when a factor goes up.
LEMMA TimesMonotone ==
    ASSUME NEW a \in Nat, NEW b \in Nat, NEW n \in Nat, a <= b
    PROVE  a * n \in Nat /\ a * n <= b * n
  OBVIOUS

\* A number with one more digit.
LEMMA DigitBound ==
    ASSUME NEW n \in Nat \ {0}, NEW A \in Nat, NEW a \in 0 .. A - 1, NEW x \in 0 .. n - 1
    PROVE  a * n + x \in 0 .. A * n - 1
<1>1. (a + 1) * n <= A * n
  <2>1. a + 1 \in Nat /\ A \in Nat /\ n \in Nat /\ a + 1 <= A
    OBVIOUS
  <2> QED
    BY <2>1, TimesMonotone
<1>2. (a + 1) * n = a * n + n
  OBVIOUS
<1>3. a * n \in Nat /\ A * n \in Nat
  OBVIOUS
<1> QED
  BY <1>1, <1>2, <1>3

\* The quotient of a number below a product.
LEMMA QuotientBound ==
    ASSUME NEW n \in Nat \ {0}, NEW b \in Nat, NEW a \in 0 .. b * n - 1
    PROVE  a \div n \in 0 .. b - 1
<1>3. b * n \in Nat /\ a \in Int
  OBVIOUS
<1>1. PICK q \in Int : q = a \div n
  BY <1>3, Euclid
<1>2. PICK r \in 0 .. n - 1 : a = n * q + r
  <2>1. a = n * (a \div n) + (a % n) /\ a % n \in 0 .. n - 1
    BY <1>3, Euclid
  <2> QED
    BY <1>1, <2>1
<1>4. q >= 0
  <2>1. SUFFICES ASSUME q <= -1 PROVE FALSE
    BY <1>1
  <2>2. n * q <= -n
    BY <2>1
  <2> QED
    BY <2>2, <1>2, <1>3
<1>5. q < b
  <2>1. SUFFICES ASSUME b <= q PROVE FALSE
    BY <1>1
  <2>2. b * n <= q * n
    BY <2>1, <1>4, TimesMonotone
  <2>3. q * n = n * q
    OBVIOUS
  <2> QED
    BY <2>2, <2>3, <1>2, <1>3
<1> QED
  BY <1>1, <1>4, <1>5

\* A quotient of a natural number is one.
LEMMA QuotientNat ==
    ASSUME NEW a \in Nat, NEW n \in Nat \ {0}
    PROVE  a \div n \in Nat
<1>1. a + 1 \in Nat /\ a \in 0 .. (a + 1) * n - 1
  <2>1. (a + 1) * n = a * n + n
    OBVIOUS
  <2>2. a <= a * n
    OBVIOUS
  <2> QED
    BY <2>1, <2>2
<1> QED
  BY <1>1, QuotientBound

\* UP_DIV is the number of blocks of y that x fills or starts.
LEMMA UpDivFacts ==
    ASSUME NEW x \in Nat, NEW y \in Nat \ {0}
    PROVE  /\ UP_DIV(x, y) \in Nat
           /\ x <= UP_DIV(x, y) * y /\ UP_DIV(x, y) * y < x + y
<1>1. PICK w \in Nat : w = x + y - 1
  OBVIOUS
<1>2. PICK q \in Nat : q = w \div y
  BY QuotientNat
<1>3. PICK r \in 0 .. y - 1 : w = y * q + r
  <2>1. w = y * (w \div y) + (w % y) /\ w % y \in 0 .. y - 1
    BY Euclid
  <2> QED
    BY <1>2, <2>1
<1>4. x <= q * y /\ q * y < x + y
  BY <1>1, <1>3
<1> QED
  BY <1>1, <1>2, <1>4 DEF UP_DIV

\* More of x takes no fewer blocks.
LEMMA UpDivMonotone ==
    ASSUME NEW x \in Nat, NEW z \in Nat, NEW y \in Nat \ {0}, x <= z
    PROVE  UP_DIV(x, y) <= UP_DIV(z, y)
<1>1. PICK p \in Nat : p = UP_DIV(x, y)
  BY UpDivFacts
<1>2. PICK q \in Nat : q = UP_DIV(z, y)
  BY UpDivFacts
<1>3. p * y < x + y /\ z <= q * y
  BY <1>1, <1>2, UpDivFacts
<1>4. SUFFICES ASSUME q + 1 <= p PROVE FALSE
  BY <1>1, <1>2
<1>5. (q + 1) * y <= p * y
  BY <1>4, TimesMonotone
<1>6. (q + 1) * y = q * y + y
  OBVIOUS
<1> QED
  BY <1>3, <1>5, <1>6

\* A position below x lies in one of its blocks.
LEMMA BlockOf ==
    ASSUME NEW x \in Nat, NEW y \in Nat \ {0}, NEW i \in 0 .. UP_DIV(x, y) * y - 1
    PROVE  i \div y \in 0 .. UP_DIV(x, y) - 1 /\ i % y \in 0 .. y - 1
<1>1. PICK b \in Nat : b = UP_DIV(x, y)
  BY UpDivFacts
<1>2. i \in 0 .. b * y - 1 /\ b * y \in Nat
  BY <1>1
<1>3. i \div y \in 0 .. b - 1
  BY <1>2, QuotientBound
<1>4. i \in Int
  BY <1>2
<1>5. i % y \in 0 .. y - 1
  BY <1>4, Euclid
<1> QED
  BY <1>1, <1>3, <1>5

\* A number of four digits.
Mixed(a, b, c, e, B, C, E) == ((a * B + b) * C + c) * E + e

\* Its bound.
LEMMA MixedBound ==
    ASSUME NEW A \in Nat, NEW B \in Nat \ {0}, NEW C \in Nat \ {0}, NEW E \in Nat \ {0},
           NEW a \in 0 .. A - 1, NEW b \in 0 .. B - 1, NEW c \in 0 .. C - 1, NEW e \in 0 .. E - 1
    PROVE  Mixed(a, b, c, e, B, C, E) \in 0 .. A * B * C * E - 1
<1>1. PICK x : x = a * B + b
  OBVIOUS
<1>2. PICK X : X = A * B
  OBVIOUS
<1>3. x \in 0 .. X - 1 /\ X \in Nat
  BY <1>1, <1>2, DigitBound
<1>4. PICK y : y = x * C + c
  OBVIOUS
<1>5. PICK Y : Y = X * C
  OBVIOUS
<1>6. y \in 0 .. Y - 1 /\ Y \in Nat
  BY <1>3, <1>4, <1>5, DigitBound
<1>7. y * E + e \in 0 .. Y * E - 1
  BY <1>6, DigitBound
<1> QED
  BY <1>1, <1>2, <1>4, <1>5, <1>7 DEF Mixed

\* Its digits can be read off.
Digits(m, B, C, E) == <<((m \div E) \div C) \div B, ((m \div E) \div C) % B, (m \div E) % C, m % E>>

\* They are the ones it was made from.
LEMMA MixedDigits ==
    ASSUME NEW B \in Nat \ {0}, NEW C \in Nat \ {0}, NEW E \in Nat \ {0},
           NEW a \in Nat, NEW b \in 0 .. B - 1, NEW c \in 0 .. C - 1, NEW e \in 0 .. E - 1
    PROVE  Digits(Mixed(a, b, c, e, B, C, E), B, C, E) = <<a, b, c, e>>
<1>1. PICK x \in Int : x = B * a + b
  OBVIOUS
<1>2. PICK y \in Int : y = C * x + c
  OBVIOUS
<1>3. PICK z \in Int : z = E * y + e
  OBVIOUS
<1>4. z = Mixed(a, b, c, e, B, C, E)
  BY <1>1, <1>2, <1>3 DEF Mixed
<1>5. z \div E = y /\ z % E = e
  BY <1>3, EuclidUnique
<1>6. y \div C = x /\ y % C = c
  BY <1>2, EuclidUnique
<1>7. x \div B = a /\ x % B = b
  BY <1>1, EuclidUnique
<1> QED
  BY <1>4, <1>5, <1>6, <1>7 DEF Digits

-----------------------------------------------------------------------------
(* The cells of keys and values.                                           *)

\* The sizes of the layout.
LEMMA Consts ==
    /\ hP \in Nat \ {0} /\ lP \in Nat \ {0} /\ mHeadDim \in Nat \ {0}
    /\ FlashBlock \in Nat \ {0} /\ mExpandChunk \in Nat /\ MaxTokens \in Nat
    /\ AddSizes \subseteq Nat \ {0} /\ AttentionOption \subseteq 0 .. 15
  BY KVAssumption

\* The rounded sizes hold what they round up, and something.
LEMMA RoundFacts ==
    ASSUME NEW x \in Nat \ {0}, NEW y \in Nat \ {0}
    PROVE  /\ UP_DIV(x, y) \in Nat \ {0} /\ ROUND_UP(x, y) \in Nat
           /\ ROUND_UP(x, y) = UP_DIV(x, y) * y /\ x <= ROUND_UP(x, y)
<1>1. PICK q \in Nat : q = UP_DIV(x, y)
  BY UpDivFacts
<1>2. x <= q * y
  BY <1>1, UpDivFacts
<1>3. q # 0
  BY <1>2
<1> QED
  BY <1>1, <1>2, <1>3 DEF ROUND_UP

\* keyIndex counts in a mixed radix: block of tokens, block of dims, token, dim.
LEMMA KeyMixed ==
    ASSUME NEW seq \in Nat, NEW dim \in Nat
    PROVE  keyIndex(seq, dim) =
             Mixed(seq \div hP, dim \div lP, seq % hP, dim % lP, UP_DIV(mHeadDim, lP), hP, lP)
<1>1. PICK a \in Int, c \in Int : a = seq \div hP /\ c = seq % hP
  <2>1. seq \in Int /\ hP \in Nat \ {0}
    BY Consts
  <2>2. seq \div hP \in Int /\ seq % hP \in 0 .. hP - 1
    BY <2>1, Euclid
  <2> QED
    BY <2>1, <2>2
<1>2. PICK b \in Int, e \in Int : b = dim \div lP /\ e = dim % lP
  <2>1. dim \in Int /\ lP \in Nat \ {0}
    BY Consts
  <2>2. dim \div lP \in Int /\ dim % lP \in 0 .. lP - 1
    BY <2>1, Euclid
  <2> QED
    BY <2>1, <2>2
<1>3. PICK U \in Nat : U = UP_DIV(mHeadDim, lP)
  BY Consts, UpDivFacts
<1>4. a * (U * lP) * hP + b * hP * lP + c * lP + e = ((a * U + b) * hP + c) * lP + e
  BY Consts
<1> QED
  BY <1>1, <1>2, <1>3, <1>4 DEF keyIndex, ROUND_UP, Mixed

\* A key of a token of the buffer, padding of the dims included, is inside it.
LEMMA KeyPadIn ==
    ASSUME NEW max \in Nat \ {0}, NEW seq \in 0 .. max - 1,
           NEW dim \in 0 .. ROUND_UP(mHeadDim, lP) - 1, mKeyQuantMode # "TQ"
    PROVE  keyIndex(seq, dim) \in 0 .. KeySize(max) - 1
<1>1. PICK A \in Nat \ {0} : A = UP_DIV(max, hP) /\ max <= A * hP
  BY Consts, RoundFacts
<1>2. PICK U \in Nat \ {0} : U = UP_DIV(mHeadDim, lP)
  BY Consts, RoundFacts
<1>3. seq \in 0 .. A * hP - 1 /\ A * hP \in Nat
  BY <1>1, Consts
<1>4. seq \div hP \in 0 .. A - 1 /\ seq % hP \in 0 .. hP - 1
  BY <1>1, <1>3, Consts, BlockOf
<1>5. dim \in 0 .. U * lP - 1 /\ U * lP \in Nat
  BY <1>2, Consts DEF ROUND_UP
<1>6. dim \div lP \in 0 .. U - 1 /\ dim % lP \in 0 .. lP - 1
  BY <1>2, <1>5, Consts, BlockOf
<1>7. Mixed(seq \div hP, dim \div lP, seq % hP, dim % lP, U, hP, lP)
        \in 0 .. A * U * hP * lP - 1
  BY <1>4, <1>6, Consts, MixedBound
<1>8. keyIndex(seq, dim) = Mixed(seq \div hP, dim \div lP, seq % hP, dim % lP, U, hP, lP)
  BY <1>2, <1>5, KeyMixed
<1>9. KeySize(max) = A * hP * (U * lP)
  BY <1>1, <1>2 DEF KeySize, ROUND_UP
<1>10. A * hP * (U * lP) = A * U * hP * lP
  BY Consts
<1> QED
  BY <1>7, <1>8, <1>9, <1>10

\* The dims of a head are within the rounded ones.
LEMMA DimsPadded ==
    ASSUME NEW dim \in Dims
    PROVE  /\ dim \in Nat /\ dim < mHeadDim
           /\ dim \in 0 .. ROUND_UP(mHeadDim, lP) - 1 /\ dim \in 0 .. ROUND_UP(mHeadDim, hP) - 1
<1>1. /\ mHeadDim <= ROUND_UP(mHeadDim, lP) /\ mHeadDim <= ROUND_UP(mHeadDim, hP)
      /\ ROUND_UP(mHeadDim, lP) \in Nat /\ ROUND_UP(mHeadDim, hP) \in Nat
  BY Consts, RoundFacts
<1> QED
  BY <1>1, Consts DEF Dims

\* A key of a token of the buffer is inside it.
LEMMA KeyIn ==
    ASSUME NEW max \in Nat \ {0}, NEW seq \in 0 .. max - 1, NEW dim \in Dims
    PROVE  KeyCell(seq, dim) \in 0 .. KeySize(max) - 1
<1>1. CASE mKeyQuantMode = "TQ"
  <2>1. dim \in 0 .. mHeadDim - 1
    BY DEF Dims
  <2>2. seq * mHeadDim + dim \in 0 .. max * mHeadDim - 1
    BY <2>1, Consts, DigitBound
  <2> QED
    BY <1>1, <2>2 DEF KeyCell, KeySize
<1>2. CASE mKeyQuantMode # "TQ"
  BY <1>2, KeyPadIn, DimsPadded DEF KeyCell
<1> QED
  BY <1>1, <1>2

\* No two keys share a cell.
LEMMA KeyInj ==
    ASSUME NEW s \in Nat, NEW d \in Dims, NEW t \in Nat, NEW f \in Dims,
           KeyCell(s, d) = KeyCell(t, f)
    PROVE  s = t /\ d = f
<1>1. CASE mKeyQuantMode = "TQ"
  <2>1. d \in 0 .. mHeadDim - 1 /\ f \in 0 .. mHeadDim - 1 /\ s \in Int /\ t \in Int
    BY DEF Dims
  <2>2. s * mHeadDim + d = t * mHeadDim + f
    BY <1>1 DEF KeyCell
  <2> QED
    BY <2>1, <2>2, Consts, DigitInj
<1>2. CASE mKeyQuantMode # "TQ"
  <2>1. PICK U \in Nat \ {0} : U = UP_DIV(mHeadDim, lP)
    BY Consts, RoundFacts
  <2>2. d \in Nat /\ f \in Nat /\ d \in 0 .. U * lP - 1 /\ f \in 0 .. U * lP - 1
    BY <2>1, DimsPadded DEF ROUND_UP
  <2>3. Mixed(s \div hP, d \div lP, s % hP, d % lP, U, hP, lP) =
        Mixed(t \div hP, f \div lP, t % hP, f % lP, U, hP, lP)
    BY <1>2, <2>1, <2>2, KeyMixed DEF KeyCell
  <2>4. /\ s \div hP \in Nat /\ t \div hP \in Nat
        /\ s % hP \in 0 .. hP - 1 /\ t % hP \in 0 .. hP - 1
    <3>1. hP \in Nat \ {0} /\ s \in Int /\ t \in Int
      BY Consts
    <3> QED
      BY <3>1, QuotientNat, Euclid
  <2>5. /\ d \div lP \in 0 .. U - 1 /\ f \div lP \in 0 .. U - 1
        /\ d % lP \in 0 .. lP - 1 /\ f % lP \in 0 .. lP - 1
    BY <2>1, <2>2, Consts, BlockOf
  <2>6. s \div hP = t \div hP /\ s % hP = t % hP /\ d \div lP = f \div lP /\ d % lP = f % lP
    <3>1. PICK a \in Nat, c \in 0 .. hP - 1 : a = s \div hP /\ c = s % hP
      BY <2>4
    <3>2. PICK p \in Nat, r \in 0 .. hP - 1 : p = t \div hP /\ r = t % hP
      BY <2>4
    <3>3. PICK b \in 0 .. U - 1, e \in 0 .. lP - 1 : b = d \div lP /\ e = d % lP
      BY <2>5
    <3>4. PICK q \in 0 .. U - 1, g \in 0 .. lP - 1 : q = f \div lP /\ g = f % lP
      BY <2>5
    <3>5. Mixed(a, b, c, e, U, hP, lP) = Mixed(p, q, r, g, U, hP, lP)
      BY <2>3, <3>1, <3>2, <3>3, <3>4, Zenon
    <3>6. <<a, b, c, e>> = <<p, q, r, g>>
      <4>1. hP \in Nat \ {0} /\ lP \in Nat \ {0}
        BY Consts
      <4>2. Digits(Mixed(a, b, c, e, U, hP, lP), U, hP, lP) = <<a, b, c, e>>
        BY <4>1, MixedDigits
      <4>3. Digits(Mixed(p, q, r, g, U, hP, lP), U, hP, lP) = <<p, q, r, g>>
        BY <4>1, MixedDigits
      <4> QED
        BY <3>5, <4>2, <4>3, Zenon
    <3> QED
      BY <3>1, <3>2, <3>3, <3>4, <3>6
  <2>7. s = hP * (s \div hP) + (s % hP) /\ t = hP * (t \div hP) + (t % hP)
    <3>1. hP \in Nat \ {0} /\ s \in Int /\ t \in Int
      BY Consts
    <3> QED
      BY <3>1, Euclid
  <2>8. d = lP * (d \div lP) + (d % lP) /\ f = lP * (f \div lP) + (f % lP)
    <3>1. lP \in Nat \ {0} /\ d \in Int /\ f \in Int
      BY <2>2, Consts
    <3> QED
      BY <3>1, Euclid
  <2>9. s = t
    BY <2>6, <2>7, Zenon
  <2>10. d = f
    BY <2>6, <2>8, Zenon
  <2> QED
    BY <2>9, <2>10
<1> QED
  BY <1>1, <1>2

\* A longer buffer has no fewer cells for keys.
LEMMA KeyGrow ==
    ASSUME NEW max \in Nat \ {0}, NEW new \in Nat, max <= new
    PROVE  KeySize(max) \in Nat /\ KeySize(new) \in Nat /\ KeySize(max) <= KeySize(new)
<1>1. CASE mKeyQuantMode = "TQ"
  BY <1>1, Consts, TimesMonotone DEF KeySize
<1>2. CASE mKeyQuantMode # "TQ"
  <2>1. PICK A \in Nat, B \in Nat : A = UP_DIV(max, hP) /\ B = UP_DIV(new, hP) /\ A <= B
    BY Consts, UpDivFacts, UpDivMonotone
  <2>2. PICK R \in Nat : R = ROUND_UP(mHeadDim, lP)
    BY Consts, RoundFacts
  <2>3. A * hP \in Nat /\ B * hP \in Nat /\ A * hP <= B * hP
    BY <2>1, Consts, TimesMonotone
  <2>4. A * hP * R \in Nat /\ B * hP * R \in Nat /\ A * hP * R <= B * hP * R
    BY <2>3, TimesMonotone
  <2> QED
    BY <1>2, <2>1, <2>2, <2>4 DEF KeySize, ROUND_UP
<1> QED
  BY <1>1, <1>2

\* What ProcessValue writes counts in a mixed radix too: block and block of dims, block of
\* tokens, dim, token.
LEMMA ValueMixed ==
    ASSUME NEW upper \in Nat \ {0}, NEW blk \in Nat, NEW inner \in Nat, NEW dim \in Nat,
           mValueQuantMode # "TQ"
    PROVE  ValueCellIn(upper, blk, inner, dim) =
             Mixed(blk * UP_DIV(mHeadDim, hP) + (dim \div hP), inner \div lP, dim % hP,
                   inner % lP, UP_DIV(upper, lP), hP, lP)
<1>1. PICK a \in Int, c \in Int : a = dim \div hP /\ c = dim % hP
  <2>1. dim \in Int /\ hP \in Nat \ {0}
    BY Consts
  <2>2. dim \div hP \in Int /\ dim % hP \in 0 .. hP - 1
    BY <2>1, Euclid
  <2> QED
    BY <2>1, <2>2
<1>2. PICK b \in Int, e \in Int : b = inner \div lP /\ e = inner % lP
  <2>1. inner \in Int /\ lP \in Nat \ {0}
    BY Consts
  <2>2. inner \div lP \in Int /\ inner % lP \in 0 .. lP - 1
    BY <2>1, Euclid
  <2> QED
    BY <2>1, <2>2
<1>3. PICK U \in Nat, V \in Nat : U = UP_DIV(upper, lP) /\ V = UP_DIV(mHeadDim, hP)
  BY Consts, UpDivFacts
<1>4. blk * V * U * lP * hP + a * U * lP * hP + c * lP + b * lP * hP + e
        = (((blk * V + a) * U + b) * hP + c) * lP + e
  BY Consts
<1> QED
  BY <1>1, <1>2, <1>3, <1>4 DEF ValueCellIn, Mixed

\* The digits of a cell of the values.
LEMMA ValueDigits ==
    ASSUME NEW upper \in Nat \ {0}, NEW inner \in 0 .. ROUND_UP(upper, lP) - 1, NEW dim \in Dims
    PROVE  /\ dim \div hP \in 0 .. UP_DIV(mHeadDim, hP) - 1 /\ dim % hP \in 0 .. hP - 1
           /\ inner \div lP \in 0 .. UP_DIV(upper, lP) - 1 /\ inner % lP \in 0 .. lP - 1
           /\ inner \in Nat /\ dim \in Nat
           /\ UP_DIV(mHeadDim, hP) \in Nat \ {0} /\ UP_DIV(upper, lP) \in Nat \ {0}
<1>1. dim \in 0 .. UP_DIV(mHeadDim, hP) * hP - 1 /\ dim \in Nat
  BY DimsPadded DEF ROUND_UP
<1>2. dim \div hP \in 0 .. UP_DIV(mHeadDim, hP) - 1 /\ dim % hP \in 0 .. hP - 1
  BY <1>1, Consts, BlockOf
<1>3. inner \in 0 .. UP_DIV(upper, lP) * lP - 1
  BY DEF ROUND_UP
<1>4. inner \div lP \in 0 .. UP_DIV(upper, lP) - 1 /\ inner % lP \in 0 .. lP - 1
  BY <1>3, Consts, BlockOf
<1>5. ROUND_UP(upper, lP) \in Nat
  BY Consts, RoundFacts
<1>6. inner \in Nat
  BY <1>5
<1>7. UP_DIV(mHeadDim, hP) \in Nat \ {0} /\ UP_DIV(upper, lP) \in Nat \ {0}
  BY Consts, RoundFacts
<1> QED
  BY <1>1, <1>2, <1>4, <1>6, <1>7

\* A value of a block of the buffer, padding of the tokens included, is inside it.
LEMMA ValuePadIn ==
    ASSUME NEW max \in Nat \ {0}, NEW upper \in Nat \ {0}, NEW blk \in 0 .. UP_DIV(max, upper) - 1,
           NEW inner \in 0 .. ROUND_UP(upper, lP) - 1, NEW dim \in Dims, mValueQuantMode # "TQ"
    PROVE  ValueCellIn(upper, blk, inner, dim) \in 0 .. ValueSize(max, upper) - 1
<1>1. PICK V \in Nat \ {0}, U \in Nat \ {0} : V = UP_DIV(mHeadDim, hP) /\ U = UP_DIV(upper, lP)
  BY ValueDigits
<1>2. PICK N \in Nat : N = UP_DIV(max, upper)
  BY UpDivFacts
<1>3. PICK a : a = blk * V + (dim \div hP)
  OBVIOUS
<1>4. blk \in 0 .. N - 1 /\ dim \div hP \in 0 .. V - 1
  BY <1>1, <1>2, ValueDigits
<1>5. N * V \in Nat /\ a \in 0 .. N * V - 1
  BY <1>3, <1>4, DigitBound
<1>6. Mixed(a, inner \div lP, dim % hP, inner % lP, U, hP, lP) \in 0 .. N * V * U * hP * lP - 1
  BY <1>1, <1>5, ValueDigits, Consts, MixedBound
<1>7. blk \in Nat /\ inner \in Nat /\ dim \in Nat
  BY <1>2, ValueDigits
<1>8. ValueCellIn(upper, blk, inner, dim) = Mixed(a, inner \div lP, dim % hP, inner % lP, U, hP, lP)
  BY <1>1, <1>3, <1>7, ValueMixed
<1>9. ValueSize(max, upper) = N * (V * hP) * (U * lP)
  BY <1>1, <1>2 DEF ValueSize, ROUND_UP
<1>10. N * (V * hP) * (U * lP) = N * V * U * hP * lP
  BY Consts
<1> QED
  BY <1>6, <1>8, <1>9, <1>10

\* A position and its block.
LEMMA BlockFacts ==
    ASSUME NEW upper \in Nat \ {0}, NEW s \in Nat
    PROVE  /\ s \div upper \in Nat /\ s % upper \in 0 .. upper - 1 /\ s % upper \in Nat
           /\ s % upper \in 0 .. ROUND_UP(upper, lP) - 1
           /\ s = upper * (s \div upper) + (s % upper)
<1>1. s \in Int
  OBVIOUS
<1>2. s % upper \in 0 .. upper - 1 /\ s = upper * (s \div upper) + (s % upper)
  BY <1>1, Euclid
<1>3. upper <= ROUND_UP(upper, lP) /\ ROUND_UP(upper, lP) \in Nat
  BY Consts, RoundFacts
<1>4. s % upper \in 0 .. ROUND_UP(upper, lP) - 1 /\ s % upper \in Nat
  BY <1>2, <1>3
<1> QED
  BY <1>2, <1>4, QuotientNat

\* TQ values lie token after token.
LEMMA ValueTQ ==
    ASSUME NEW upper \in Nat \ {0}, NEW s \in Nat, NEW dim \in Dims, mValueQuantMode = "TQ"
    PROVE  ValueCell(upper, s, dim) = s * mHeadDim + dim
<1>1. PICK q \in Nat, r \in Nat : q = s \div upper /\ r = s % upper /\ s = upper * q + r
  BY BlockFacts
<1>2. q * upper + r = s
  BY <1>1
<1> QED
  BY <1>1, <1>2 DEF ValueCell, ValueCellIn

\* A value of a token of the buffer is inside it.
LEMMA ValueIn ==
    ASSUME NEW max \in Nat \ {0}, NEW upper \in Nat \ {0}, NEW seq \in 0 .. max - 1, NEW dim \in Dims
    PROVE  ValueCell(upper, seq, dim) \in 0 .. ValueSize(max, upper) - 1
<1>1. CASE mValueQuantMode = "TQ"
  <2>1. dim \in 0 .. mHeadDim - 1
    BY DEF Dims
  <2>2. seq * mHeadDim + dim \in 0 .. max * mHeadDim - 1
    BY <2>1, Consts, DigitBound
  <2>3. seq \in Nat
    OBVIOUS
  <2> QED
    BY <1>1, <2>2, <2>3, ValueTQ DEF ValueSize
<1>2. CASE mValueQuantMode # "TQ"
  <2>1. PICK N \in Nat : N = UP_DIV(max, upper) /\ max <= N * upper
    BY UpDivFacts
  <2>2. seq \in 0 .. N * upper - 1 /\ seq \in Nat
    BY <2>1
  <2>3. seq \div upper \in 0 .. UP_DIV(max, upper) - 1
    BY <2>1, <2>2, BlockOf
  <2>4. seq % upper \in 0 .. ROUND_UP(upper, lP) - 1
    BY <2>2, BlockFacts
  <2> QED
    BY <1>2, <2>3, <2>4, ValuePadIn DEF ValueCell
<1> QED
  BY <1>1, <1>2

\* No two values share a cell.
LEMMA ValueInj ==
    ASSUME NEW upper \in Nat \ {0}, NEW s \in Nat, NEW d \in Dims, NEW t \in Nat, NEW f \in Dims,
           ValueCell(upper, s, d) = ValueCell(upper, t, f)
    PROVE  s = t /\ d = f
<1>1. CASE mValueQuantMode = "TQ"
  <2>1. d \in 0 .. mHeadDim - 1 /\ f \in 0 .. mHeadDim - 1 /\ s \in Int /\ t \in Int
    BY DEF Dims
  <2>2. s * mHeadDim + d = t * mHeadDim + f
    BY <1>1, ValueTQ
  <2> QED
    BY <2>1, <2>2, Consts, DigitInj
<1>2. CASE mValueQuantMode # "TQ"
  <2>1. PICK V \in Nat \ {0}, U \in Nat \ {0} : V = UP_DIV(mHeadDim, hP) /\ U = UP_DIV(upper, lP)
    BY Consts, RoundFacts
  <2>2. PICK x \in Nat, y \in Nat : /\ x = s \div upper /\ y = s % upper /\ s = upper * x + y
                                    /\ y \in 0 .. ROUND_UP(upper, lP) - 1
    BY BlockFacts
  <2>3. PICK z \in Nat, w \in Nat : /\ z = t \div upper /\ w = t % upper /\ t = upper * z + w
                                    /\ w \in 0 .. ROUND_UP(upper, lP) - 1
    BY BlockFacts
  <2>4. /\ d \div hP \in 0 .. V - 1 /\ d % hP \in 0 .. hP - 1 /\ d \in Nat
        /\ y \div lP \in 0 .. U - 1 /\ y % lP \in 0 .. lP - 1
    BY <2>1, <2>2, ValueDigits
  <2>5. /\ f \div hP \in 0 .. V - 1 /\ f % hP \in 0 .. hP - 1 /\ f \in Nat
        /\ w \div lP \in 0 .. U - 1 /\ w % lP \in 0 .. lP - 1
    BY <2>1, <2>3, ValueDigits
  <2>6. PICK a \in Nat : a = x * V + (d \div hP)
    BY <2>4
  <2>7. PICK b \in Nat : b = z * V + (f \div hP)
    BY <2>5
  <2>8. Mixed(a, y \div lP, d % hP, y % lP, U, hP, lP) =
        Mixed(b, w \div lP, f % hP, w % lP, U, hP, lP)
    <3>1. ValueCellIn(upper, x, y, d) = ValueCellIn(upper, z, w, f)
      BY <2>2, <2>3 DEF ValueCell
    <3>2. ValueCellIn(upper, x, y, d) = Mixed(a, y \div lP, d % hP, y % lP, U, hP, lP)
      BY <1>2, <2>1, <2>4, <2>6, ValueMixed
    <3>3. ValueCellIn(upper, z, w, f) = Mixed(b, w \div lP, f % hP, w % lP, U, hP, lP)
      BY <1>2, <2>1, <2>5, <2>7, ValueMixed
    <3> QED
      BY <3>1, <3>2, <3>3
  <2>9. a = b /\ y \div lP = w \div lP /\ d % hP = f % hP /\ y % lP = w % lP
    <3>1. PICK m \in 0 .. U - 1, e \in 0 .. lP - 1 : m = y \div lP /\ e = y % lP
      BY <2>4
    <3>2. PICK q \in 0 .. U - 1, g \in 0 .. lP - 1 : q = w \div lP /\ g = w % lP
      BY <2>5
    <3>3. PICK c \in 0 .. hP - 1, r \in 0 .. hP - 1 : c = d % hP /\ r = f % hP
      BY <2>4, <2>5
    <3>4. Mixed(a, m, c, e, U, hP, lP) = Mixed(b, q, r, g, U, hP, lP)
      BY <2>8, <3>1, <3>2, <3>3, Zenon
    <3>5. <<a, m, c, e>> = <<b, q, r, g>>
      <4>1. hP \in Nat \ {0} /\ lP \in Nat \ {0}
        BY Consts
      <4>2. Digits(Mixed(a, m, c, e, U, hP, lP), U, hP, lP) = <<a, m, c, e>>
        BY <4>1, MixedDigits
      <4>3. Digits(Mixed(b, q, r, g, U, hP, lP), U, hP, lP) = <<b, q, r, g>>
        BY <4>1, MixedDigits
      <4> QED
        BY <3>4, <4>2, <4>3, Zenon
    <3> QED
      BY <3>1, <3>2, <3>3, <3>5
  <2>10. x = z /\ d \div hP = f \div hP
    <3>1. x \in Int /\ z \in Int /\ x * V + (d \div hP) = z * V + (f \div hP)
      BY <2>6, <2>7, <2>9
    <3> QED
      BY <3>1, <2>4, <2>5, DigitInj
  <2>11. d = hP * (d \div hP) + (d % hP) /\ f = hP * (f \div hP) + (f % hP)
    <3>1. hP \in Nat \ {0} /\ d \in Int /\ f \in Int
      BY <2>4, <2>5, Consts
    <3> QED
      BY <3>1, Euclid
  <2>12. y = lP * (y \div lP) + (y % lP) /\ w = lP * (w \div lP) + (w % lP)
    <3>1. lP \in Nat \ {0} /\ y \in Int /\ w \in Int
      BY Consts
    <3> QED
      BY <3>1, Euclid
  <2>13. d = f
    BY <2>9, <2>10, <2>11, Zenon
  <2>14. y = w
    BY <2>9, <2>12, Zenon
  <2>15. s = t
    BY <2>2, <2>3, <2>10, <2>14, Zenon
  <2> QED
    BY <2>13, <2>15
<1> QED
  BY <1>1, <1>2

\* A block holds a token, and without flash attention there is one block.
LEMMA UpperFacts ==
    ASSUME NEW max \in Nat \ {0}
    PROVE  /\ UpperKv(max) \in Nat \ {0} /\ UP_DIV(max, max) = 1
           /\ mUseFlashAttention => UpperKv(max) = FlashBlock
           /\ ~mUseFlashAttention => UpperKv(max) = max
<1>1. max + max - 1 = max * 1 + (max - 1) /\ max + max - 1 \in Int /\ max - 1 \in 0 .. max - 1
  OBVIOUS
<1>2. (max + max - 1) \div max = 1
  <2>1. PICK w \in Int, r \in 0 .. max - 1 : w = max + max - 1 /\ r = max - 1 /\ w = max * 1 + r
    BY <1>1
  <2>2. w \div max = 1
    BY <2>1, EuclidUnique
  <2> QED
    BY <2>1, <2>2
<1> QED
  BY <1>2, Consts DEF UpperKv, UP_DIV

\* A token of the only block.
LEMMA OneBlock ==
    ASSUME NEW max \in Nat \ {0}, NEW seq \in 0 .. max - 1
    PROVE  seq \div max = 0 /\ seq % max = seq
<1>1. seq = max * 0 + seq /\ seq \in Int
  OBVIOUS
<1> QED
  BY <1>1, EuclidUnique

\* The digits that a row of values has inside.
LEMMA RowDigits ==
    ASSUME NEW max \in Nat \ {0}, NEW seq \in 0 .. max - 1, NEW dim \in Dims
    PROVE  \E a \in 0 .. UP_DIV(mHeadDim, hP) - 1, b \in 0 .. UP_DIV(max, lP) - 1,
              c \in 0 .. hP - 1, e \in 0 .. lP - 1 :
              a = dim \div hP /\ b = seq \div lP /\ c = dim % hP /\ e = seq % lP
<1>1. seq \in 0 .. ROUND_UP(max, lP) - 1
  <2>1. max <= ROUND_UP(max, lP) /\ ROUND_UP(max, lP) \in Nat
    BY Consts, RoundFacts
  <2> QED
    BY <2>1
<1> QED
  BY <1>1, ValueDigits

\* Where moveKV takes a value to be is where it is, when there is one block.
LEMMA MoveIndex ==
    ASSUME NEW max \in Nat \ {0}, NEW seq \in 0 .. max - 1, NEW dim \in Dims,
           mValueQuantMode # "TQ"
    PROVE  valueIndex(max, seq, dim) = ValueCell(max, seq, dim)
<1>1. PICK a \in 0 .. UP_DIV(mHeadDim, hP) - 1, b \in 0 .. UP_DIV(max, lP) - 1,
           c \in 0 .. hP - 1, e \in 0 .. lP - 1 :
             a = dim \div hP /\ b = seq \div lP /\ c = dim % hP /\ e = seq % lP
  BY RowDigits
<1>2. PICK U \in Nat, V \in Nat : U = UP_DIV(max, lP) /\ V = UP_DIV(mHeadDim, hP)
  BY Consts, UpDivFacts
<1>3. a \in Int /\ b \in Int /\ c \in Int /\ e \in Int /\ hP \in Int /\ lP \in Int
  BY <1>1, <1>2, Consts
<1>4. a * (U * lP) * hP + b * hP * lP + c * lP + e
        = 0 * V * U * lP * hP + a * U * lP * hP + c * lP + b * lP * hP + e
  BY <1>3
<1>5. ValueCell(max, seq, dim) = ValueCellIn(max, 0, seq, dim)
  BY OneBlock DEF ValueCell
<1> QED
  BY <1>1, <1>2, <1>4, <1>5 DEF valueIndex, ValueCellIn, ROUND_UP

\* The length of a row of hP dims, one block.
Row(max) == ROUND_UP(max, lP) * hP

\* The rows of a buffer, and a longer one.
LEMMA RowFacts ==
    ASSUME NEW max \in Nat \ {0}
    PROVE  /\ Row(max) \in Nat \ {0} /\ Row(max) = UP_DIV(max, lP) * lP * hP
           /\ UP_DIV(mHeadDim, hP) \in Nat
           /\ mValueQuantMode # "TQ" => ValueSize(max, max) = UP_DIV(mHeadDim, hP) * Row(max)
<1>1. PICK U \in Nat \ {0}, V \in Nat : U = UP_DIV(max, lP) /\ V = UP_DIV(mHeadDim, hP)
  BY Consts, RoundFacts
<1>2. U * lP * hP \in Nat \ {0}
  <2>1. U * lP \in Nat \ {0}
    BY Consts
  <2> QED
    BY <2>1, Consts
<1>3. 1 * (V * hP) * (U * lP) = V * (U * lP * hP)
  BY Consts
<1>4. mValueQuantMode # "TQ" => ValueSize(max, max) = V * Row(max)
  BY <1>1, <1>3, UpperFacts DEF ValueSize, ROUND_UP, Row
<1> QED
  BY <1>1, <1>2, <1>4 DEF Row, ROUND_UP

\* A longer buffer has longer rows.
LEMMA RowGrow ==
    ASSUME NEW max \in Nat \ {0}, NEW new \in Nat, max <= new
    PROVE  Row(max) <= Row(new)
<1>1. PICK U \in Nat, W \in Nat : U = UP_DIV(max, lP) /\ W = UP_DIV(new, lP) /\ U <= W
  BY Consts, UpDivFacts, UpDivMonotone
<1>2. U * lP \in Nat /\ W * lP \in Nat /\ U * lP <= W * lP
  BY <1>1, Consts, TimesMonotone
<1>3. U * lP * hP <= W * lP * hP
  BY <1>2, Consts, TimesMonotone
<1> QED
  BY <1>1, <1>3 DEF Row, ROUND_UP

\* A value is in a row of its dims, at a place that does not depend on the length.
LEMMA RowIndex ==
    ASSUME NEW max \in Nat \ {0}, NEW seq \in 0 .. max - 1, NEW dim \in Dims,
           mValueQuantMode # "TQ"
    PROVE  \E r \in 0 .. Row(max) - 1 : \A new \in Nat : max <= new =>
              ValueCell(new, seq, dim) = (dim \div hP) * Row(new) + r
<1>1. PICK a \in 0 .. UP_DIV(mHeadDim, hP) - 1, b \in 0 .. UP_DIV(max, lP) - 1,
           c \in 0 .. hP - 1, e \in 0 .. lP - 1 :
             a = dim \div hP /\ b = seq \div lP /\ c = dim % hP /\ e = seq % lP
  BY RowDigits
<1>2. PICK U \in Nat, V \in Nat : U = UP_DIV(max, lP) /\ V = UP_DIV(mHeadDim, hP)
  BY Consts, UpDivFacts
<1>3. PICK x : x = b * hP + c
  OBVIOUS
<1>4. x \in 0 .. U * hP - 1 /\ U * hP \in Nat
  BY <1>1, <1>2, <1>3, Consts, DigitBound
<1>5. PICK X \in Nat : X = U * hP
  BY <1>4
<1>6. PICK r : r = x * lP + e
  OBVIOUS
<1>7. r \in 0 .. X * lP - 1
  BY <1>1, <1>4, <1>5, <1>6, Consts, DigitBound
<1>8. X * lP = Row(max)
  <2>1. U * hP * lP = U * lP * hP
    BY Consts
  <2> QED
    BY <1>2, <1>5, <2>1 DEF Row, ROUND_UP
<1>9. r \in 0 .. Row(max) - 1
  BY <1>7, <1>8
<1>10. ASSUME NEW new \in Nat, max <= new
       PROVE  ValueCell(new, seq, dim) = (dim \div hP) * Row(new) + r
  <2>1. new \in Nat \ {0} /\ seq \in 0 .. new - 1
    BY <1>10
  <2>2. ValueCell(new, seq, dim) = ValueCellIn(new, 0, seq, dim)
    BY <2>1, OneBlock DEF ValueCell
  <2>3. PICK W \in Nat : W = UP_DIV(new, lP)
    BY Consts, UpDivFacts
  <2>4. a \in Int /\ b \in Int /\ c \in Int /\ e \in Int /\ hP \in Int /\ lP \in Int
    BY <1>1, <1>2, Consts
  <2>5. 0 * V * W * lP * hP + a * W * lP * hP + c * lP + b * lP * hP + e
          = a * (W * lP * hP) + ((b * hP + c) * lP + e)
    BY <2>4
  <2> QED
    BY <1>1, <1>2, <1>3, <1>6, <2>2, <2>3, <2>5 DEF ValueCellIn, Row, ROUND_UP
<1> QED
  BY <1>9, <1>10

\* The values of a buffer in one block are found again in the rows of a longer one.
LEMMA RowMoves ==
    ASSUME NEW max \in Nat \ {0}, NEW new \in Nat, max <= new,
           NEW seq \in 0 .. max - 1, NEW dim \in Dims, mValueQuantMode # "TQ", NEW i,
           i = ValueCell(new, seq, dim)
    PROVE  /\ i % Row(new) < Row(max)
           /\ (i \div Row(new)) * Row(max) + (i % Row(new)) = ValueCell(max, seq, dim)
<1>1. PICK r \in 0 .. Row(max) - 1 : \A n \in Nat : max <= n =>
              ValueCell(n, seq, dim) = (dim \div hP) * Row(n) + r
  BY RowIndex
<1>2. PICK a \in Int : a = dim \div hP
  BY RowDigits
<1>3. PICK N \in Nat \ {0}, O \in Nat \ {0} : N = Row(new) /\ O = Row(max) /\ O <= N
  BY RowFacts, RowGrow
<1>4. i = N * a + r
  <2>1. i = a * N + r
    BY <1>1, <1>2, <1>3
  <2> QED
    BY <2>1, <1>3
<1>5. i \in Int /\ r \in 0 .. N - 1
  BY <1>3, <1>4
<1>6. i \div N = a /\ i % N = r
  BY <1>4, <1>5, EuclidUnique
<1>7. ValueCell(max, seq, dim) = a * O + r
  BY <1>1, <1>2, <1>3
<1>8. r < O
  BY <1>3
<1> QED
  BY <1>3, <1>6, <1>7, <1>8

\* What ExpandValue copies from a row is inside the shorter buffer.
LEMMA RowIn ==
    ASSUME NEW max \in Nat \ {0}, NEW new \in Nat \ {0}, mValueQuantMode # "TQ",
           NEW i \in 0 .. ValueSize(new, new) - 1, i % Row(new) < Row(max)
    PROVE  (i \div Row(new)) * Row(max) + (i % Row(new)) \in 0 .. ValueSize(max, max) - 1
<1>1. PICK N \in Nat \ {0}, O \in Nat \ {0}, V \in Nat :
         /\ N = Row(new) /\ O = Row(max) /\ V = UP_DIV(mHeadDim, hP)
         /\ ValueSize(new, new) = V * N /\ ValueSize(max, max) = V * O
  BY RowFacts
<1>2. i \in 0 .. V * N - 1 /\ V * N \in Nat
  BY <1>1
<1>3. i \div N \in 0 .. V - 1
  BY <1>2, QuotientBound
<1>4. i \in Int
  BY <1>2
<1>5. i % N \in 0 .. N - 1
  BY <1>4, Euclid
<1>6. i % N \in 0 .. O - 1
  BY <1>1, <1>5
<1>7. (i \div N) * O + (i % N) \in 0 .. V * O - 1
  BY <1>3, <1>6, DigitBound
<1> QED
  BY <1>1, <1>7

\* A longer buffer of the same blocks has no fewer cells.
LEMMA BlocksGrow ==
    ASSUME NEW max \in Nat \ {0}, NEW new \in Nat, max <= new, NEW upper \in Nat \ {0}
    PROVE  /\ ValueSize(max, upper) \in Nat /\ ValueSize(new, upper) \in Nat
           /\ ValueSize(max, upper) <= ValueSize(new, upper)
<1>1. CASE mValueQuantMode = "TQ"
  BY <1>1, Consts, TimesMonotone DEF ValueSize
<1>2. CASE mValueQuantMode # "TQ"
  <2>1. PICK A \in Nat, B \in Nat : A = UP_DIV(max, upper) /\ B = UP_DIV(new, upper) /\ A <= B
    BY UpDivFacts, UpDivMonotone
  <2>2. PICK R \in Nat, S \in Nat : R = ROUND_UP(mHeadDim, hP) /\ S = ROUND_UP(upper, lP)
    BY Consts, RoundFacts
  <2>3. A * R \in Nat /\ B * R \in Nat /\ A * R <= B * R
    BY <2>1, TimesMonotone
  <2>4. A * R * S \in Nat /\ B * R * S \in Nat /\ A * R * S <= B * R * S
    BY <2>3, TimesMonotone
  <2> QED
    BY <1>2, <2>1, <2>2, <2>4 DEF ValueSize
<1> QED
  BY <1>1, <1>2

-----------------------------------------------------------------------------
(* What a buffer holds.                                                    *)

IsCache(c) == DOMAIN c = {"mMaxLength", "upper", "mPastLength", "key", "value"}

\* A buffer of mMaxLength tokens in the layout of the mode.
Shaped(c) ==
    /\ IsCache(c) /\ c.mMaxLength \in Nat \ {0} /\ c.upper = UpperKv(c.mMaxLength)
    /\ DOMAIN c.key = 0 .. KeySize(c.mMaxLength) - 1
    /\ DOMAIN c.value = 0 .. ValueSize(c.mMaxLength, c.upper) - 1

\* A buffer of TQ values grows only where flash attention has it in blocks.
ValuesRight == mValueQuantMode = "TQ" => mUseFlashAttention

\* The layouts, as functions; tokens are counted from 0.
KeyPlace == [q \in Nat \X Dims |-> KeyCell(q[1], q[2])]
ValuePlace(upper) == [q \in Nat \X Dims |-> ValueCell(upper, q[1], q[2])]

\* The kernels find the tokens lo + 1 .. hi of T.
HoldsKeys(c, lo, hi, T) ==
    \A s \in lo .. hi - 1, d \in Dims : c.key[KeyPlace[<<s, d>>]] = <<T[s + 1], d>>
HoldsValues(c, lo, hi, T) ==
    \A s \in lo .. hi - 1, d \in Dims : c.value[ValuePlace(c.upper)[<<s, d>>]] = <<T[s + 1], d>>
Holds(c, lo, hi, T) ==
    HoldsKeys(c, lo, hi, T) /\ (ValuesRight => HoldsValues(c, lo, hi, T))

\* Padding that the kernels read has been cleared.
Clean(c) ==
    /\ mHeadDim % lP # 0 /\ mKeyQuantMode # "TQ" => \A i \in DOMAIN c.key : c.key[i] # Garbage
    /\ lP > 1 /\ mValueQuantMode # "TQ" => \A i \in DOMAIN c.value : c.value[i] # Garbage

\* What Store leaves and what it writes.
LEMMA StoreFacts ==
    ASSUME NEW buf, NEW at, NEW new
    PROVE  /\ DOMAIN Store(buf, at, new) = DOMAIN buf
           /\ \A i \in DOMAIN buf :
                /\ (\A p \in DOMAIN at : at[p] # i) => Store(buf, at, new)[i] = buf[i]
                /\ \A q \in DOMAIN at : (at[q] = i /\ \A p \in DOMAIN at : at[p] = i => p = q)
                     => Store(buf, at, new)[i] = new[q]
                /\ \/ Store(buf, at, new)[i] = buf[i]
                   \/ \E p \in DOMAIN at : at[p] = i /\ Store(buf, at, new)[i] = new[p]
<1>1. DOMAIN Store(buf, at, new) = DOMAIN buf
  BY DEF Store
<1>2. ASSUME NEW i \in DOMAIN buf
      PROVE  /\ (\A p \in DOMAIN at : at[p] # i) => Store(buf, at, new)[i] = buf[i]
             /\ \A q \in DOMAIN at : (at[q] = i /\ \A p \in DOMAIN at : at[p] = i => p = q)
                  => Store(buf, at, new)[i] = new[q]
             /\ \/ Store(buf, at, new)[i] = buf[i]
                \/ \E p \in DOMAIN at : at[p] = i /\ Store(buf, at, new)[i] = new[p]
  <2> DEFINE P == {p \in DOMAIN at : at[p] = i}
             w == CHOOSE p \in P : TRUE
  <2>1. Store(buf, at, new)[i] = IF P = {} THEN buf[i] ELSE new[w]
    BY DEF Store
  <2>2. P # {} => w \in P
    OBVIOUS
  <2>3. \A p : p \in P <=> p \in DOMAIN at /\ at[p] = i
    OBVIOUS
  <2> HIDE DEF P, w
  <2>4. (\A p \in DOMAIN at : at[p] # i) => Store(buf, at, new)[i] = buf[i]
    BY <2>1, <2>3, Zenon
  <2>5. ASSUME NEW q \in DOMAIN at, at[q] = i, \A p \in DOMAIN at : at[p] = i => p = q
        PROVE  Store(buf, at, new)[i] = new[q]
    <3>1. P # {} /\ w = q
      BY <2>2, <2>3, <2>5, Zenon
    <3> QED
      BY <2>1, <3>1, Zenon
  <2>6. \/ Store(buf, at, new)[i] = buf[i]
        \/ \E p \in DOMAIN at : at[p] = i /\ Store(buf, at, new)[i] = new[p]
    BY <2>1, <2>2, <2>3, Zenon
  <2> QED
    BY <2>4, <2>5, <2>6, Zenon
<1> QED
  BY <1>1, <1>2, Zenon

\* What MoveKV writes into the keys and the values of c, the dims of `size` tokens.
Tokens(size) == (0 .. size - 1) \X Dims
MovedKey(c, src, size) ==
    Store(c.key, [p \in Tokens(size) |-> keyIndex(c.mPastLength + p[1], p[2])],
                 [p \in Tokens(size) |-> At(c.key, keyIndex(src + p[1], p[2]))])
MovedValue(c, src, size) ==
    Store(c.value,
          [p \in Tokens(size) |-> valueIndex(c.mMaxLength, c.mPastLength + p[1], p[2])],
          [p \in Tokens(size) |-> At(c.value, valueIndex(c.mMaxLength, src + p[1], p[2]))])

\* The fields after a move.
LEMMA MoveFields ==
    ASSUME NEW c, IsCache(c), NEW src, NEW size, NEW e, e = MoveKV(c, src, size)
    PROVE  /\ IsCache(e) /\ e.mMaxLength = c.mMaxLength /\ e.upper = c.upper
           /\ e.mPastLength = c.mPastLength + size
           /\ e.key = MovedKey(c, src, size) /\ e.value = MovedValue(c, src, size)
  BY DEF MoveKV, MovedKey, MovedValue, Tokens, IsCache

\* What OnUpdateKV writes.
NewCells(toks) == [p \in Tokens(Len(toks)) |-> <<toks[p[1] + 1], p[2]>>]
UpdatedKey(c, toks) ==
    Store(c.key, [p \in Tokens(Len(toks)) |-> KeyCell(c.mPastLength + p[1], p[2])], NewCells(toks))
UpdatedValue(c, toks) ==
    Store(c.value, [p \in Tokens(Len(toks)) |-> ValueCell(c.upper, c.mPastLength + p[1], p[2])],
          NewCells(toks))

\* An update with n tokens.
UpdatedBy(e, c, toks, n) == e = OnUpdateKV(c, toks) /\ n = Len(toks)

\* The fields after it.
LEMMA UpdateFields ==
    ASSUME NEW c, IsCache(c), NEW toks, NEW n, NEW e, UpdatedBy(e, c, toks, n)
    PROVE  /\ IsCache(e) /\ e.mMaxLength = c.mMaxLength /\ e.upper = c.upper
           /\ e.mPastLength = c.mPastLength + n
           /\ e.key = UpdatedKey(c, toks) /\ e.value = UpdatedValue(c, toks)
  BY DEF UpdatedBy, OnUpdateKV, UpdatedKey, UpdatedValue, NewCells, Tokens, IsCache

\* The keys after a growth.
ExpandKey(c, max) == [i \in 0 .. KeySize(max) - 1 |-> IF i \in DOMAIN c.key THEN c.key[i] ELSE Zero]

\* The fields after it.
LEMMA ExpandFields ==
    ASSUME NEW c, IsCache(c), NEW max \in Nat, NEW e, e = Expand(c, max)
    PROVE  /\ IsCache(e) /\ e.mMaxLength = max /\ e.upper = UpperKv(max)
           /\ e.mPastLength = c.mPastLength
           /\ e.key = ExpandKey(c, max) /\ e.value = ExpandValue(c, max)
  BY DEF Expand, ExpandKey, IsCache

\* F lays out the dims of max tokens in a buffer.
Layout(F, buf, max) ==
    /\ \A s, t \in 0 .. max - 1, d, f \in Dims : F[<<s, d>>] = F[<<t, f>>] => s = t /\ d = f
    /\ \A s \in 0 .. max - 1, d \in Dims : F[<<s, d>>] \in DOMAIN buf

\* The indices `at` are the places of `size` tokens from dst on.
Targets(at, F, dst, size) ==
    /\ DOMAIN at = Tokens(size)
    /\ \A x \in 0 .. size - 1, d \in Dims : at[<<x, d>>] = F[<<dst + x, d>>]

\* The buffer `out` is `buf` with new cells for these tokens.
Stored(out, buf, new, F, dst, size, max) ==
    /\ DOMAIN out = DOMAIN buf
    /\ \A s \in 0 .. max - 1, d \in Dims : s < dst \/ dst + size <= s =>
         out[F[<<s, d>>]] = buf[F[<<s, d>>]]
    /\ \A x \in 0 .. size - 1, d \in Dims : out[F[<<dst + x, d>>]] = new[<<x, d>>]
    /\ \A i \in DOMAIN buf : out[i] = buf[i] \/ \E p \in Tokens(size) : out[i] = new[p]

\* That is what Store makes.
LEMMA StoreSpec ==
    ASSUME NEW buf, NEW size \in Nat, NEW dst \in Nat, NEW max \in Nat, dst + size <= max, NEW F,
           Layout(F, buf, max), NEW at, NEW new, Targets(at, F, dst, size)
    PROVE  Stored(Store(buf, at, new), buf, new, F, dst, size, max)
<1>1. DOMAIN Store(buf, at, new) = DOMAIN buf
  BY StoreFacts
<1>2. ASSUME NEW s \in 0 .. max - 1, NEW d \in Dims, s < dst \/ dst + size <= s
      PROVE  Store(buf, at, new)[F[<<s, d>>]] = buf[F[<<s, d>>]]
  <2>1. F[<<s, d>>] \in DOMAIN buf
    BY DEF Layout
  <2>2. ASSUME NEW p \in DOMAIN at PROVE at[p] # F[<<s, d>>]
    <3>1. PICK x \in 0 .. size - 1, f \in Dims : p = <<x, f>> /\ dst + x \in 0 .. max - 1
      BY DEF Targets, Tokens
    <3>2. at[p] = F[<<dst + x, f>>]
      BY <3>1 DEF Targets
    <3>3. dst + x # s
      BY <1>2
    <3> QED
      BY <3>1, <3>2, <3>3 DEF Layout
  <2> QED
    BY <2>1, <2>2, StoreFacts
<1>3. ASSUME NEW x \in 0 .. size - 1, NEW d \in Dims
      PROVE  Store(buf, at, new)[F[<<dst + x, d>>]] = new[<<x, d>>]
  <2>1. F[<<dst + x, d>>] \in DOMAIN buf
    BY DEF Layout
  <2>2. <<x, d>> \in DOMAIN at /\ at[<<x, d>>] = F[<<dst + x, d>>]
    BY DEF Targets, Tokens
  <2>3. ASSUME NEW p \in DOMAIN at, at[p] = F[<<dst + x, d>>] PROVE p = <<x, d>>
    <3>1. PICK y \in 0 .. size - 1, f \in Dims : p = <<y, f>> /\ dst + y \in 0 .. max - 1
      BY DEF Targets, Tokens
    <3>2. F[<<dst + y, f>>] = F[<<dst + x, d>>]
      BY <3>1, <2>3 DEF Targets
    <3>3. dst + y = dst + x /\ f = d
      BY <3>1, <3>2 DEF Layout
    <3> QED
      BY <3>1, <3>3
  <2> QED
    BY <2>1, <2>2, <2>3, StoreFacts
<1>4. \A i \in DOMAIN buf : \/ Store(buf, at, new)[i] = buf[i]
                            \/ \E p \in Tokens(size) : Store(buf, at, new)[i] = new[p]
  BY StoreFacts DEF Targets
<1> QED
  BY <1>1, <1>2, <1>3, <1>4 DEF Stored

\* The layouts are layouts of a shaped buffer.
LEMMA PlaceFacts ==
    ASSUME NEW c, Shaped(c)
    PROVE  /\ \A s \in Nat, d \in Dims : KeyPlace[<<s, d>>] = KeyCell(s, d)
           /\ \A s \in Nat, d \in Dims : ValuePlace(c.upper)[<<s, d>>] = ValueCell(c.upper, s, d)
           /\ Layout(KeyPlace, c.key, c.mMaxLength)
           /\ Layout(ValuePlace(c.upper), c.value, c.mMaxLength)
           /\ c.mMaxLength \in Nat \ {0} /\ c.upper \in Nat \ {0}
<1>1. c.mMaxLength \in Nat \ {0} /\ c.upper \in Nat \ {0}
  BY UpperFacts DEF Shaped
<1>2. \A s \in Nat, d \in Dims : KeyPlace[<<s, d>>] = KeyCell(s, d)
  BY DEF KeyPlace
<1>3. \A s \in Nat, d \in Dims : ValuePlace(c.upper)[<<s, d>>] = ValueCell(c.upper, s, d)
  BY DEF ValuePlace
<1>4. \A s \in 0 .. c.mMaxLength - 1 : s \in Nat
  BY <1>1
<1>5. \A s, t \in 0 .. c.mMaxLength - 1, d, f \in Dims :
        KeyPlace[<<s, d>>] = KeyPlace[<<t, f>>] => s = t /\ d = f
  BY <1>2, <1>4, KeyInj
<1>6. \A s, t \in 0 .. c.mMaxLength - 1, d, f \in Dims :
        ValuePlace(c.upper)[<<s, d>>] = ValuePlace(c.upper)[<<t, f>>] => s = t /\ d = f
  BY <1>1, <1>3, <1>4, ValueInj
<1>7. \A s \in 0 .. c.mMaxLength - 1, d \in Dims : KeyPlace[<<s, d>>] \in DOMAIN c.key
  BY <1>1, <1>2, <1>4, KeyIn DEF Shaped
<1>8. \A s \in 0 .. c.mMaxLength - 1, d \in Dims : ValuePlace(c.upper)[<<s, d>>] \in DOMAIN c.value
  BY <1>1, <1>3, <1>4, ValueIn DEF Shaped
<1> QED
  BY <1>1, <1>2, <1>3, <1>5, <1>6, <1>7, <1>8 DEF Layout

\* The new keys and values of a buffer with the old shape.
LEMMA SameShape ==
    ASSUME NEW c, Shaped(c), NEW e, IsCache(e), e.mMaxLength = c.mMaxLength, e.upper = c.upper,
           DOMAIN e.key = DOMAIN c.key, DOMAIN e.value = DOMAIN c.value
    PROVE  Shaped(e)
  BY DEF Shaped

\* A move as a reserve asks for it.
MovedBy(e, c, src, size, dst, L, T, h) ==
    /\ e = MoveKV(c, src, size) /\ Shaped(c) /\ Clean(c) /\ dst = c.mPastLength
    /\ dst <= src /\ src + size <= L /\ L <= c.mMaxLength
    /\ Holds(c, 0, dst, T) /\ Holds(c, dst, L, h)
    /\ \A i \in 1 .. size : T[dst + i] = h[src + i]

\* A move of tokens towards the front: the tokens before it stay, the moved ones are where
\* they are to be, and the ones that have not been passed yet stay as well.
LEMMA MoveHolds ==
    ASSUME NEW c, MoveSupported, NEW src \in Nat, NEW size \in Nat, NEW L \in Nat,
           NEW dst \in Nat, NEW T, NEW h, NEW e,
           MovedBy(e, c, src, size, dst, L, T, h)
    PROVE  /\ Shaped(e) /\ Clean(e) /\ e.mMaxLength = c.mMaxLength
           /\ e.mPastLength = dst + size
           /\ Holds(e, 0, dst + size, T) /\ Holds(e, dst + size, L, h)
<1> SUFFICES ASSUME Shaped(c), dst = c.mPastLength, dst <= src, src + size <= L,
                    L <= c.mMaxLength, Holds(c, 0, dst, T), Holds(c, dst, L, h), Clean(c),
                    \A i \in 1 .. size : T[dst + i] = h[src + i], e = MoveKV(c, src, size)
             PROVE  /\ Shaped(e) /\ Clean(e) /\ e.mMaxLength = c.mMaxLength
                    /\ e.mPastLength = dst + size
                    /\ Holds(e, 0, dst + size, T) /\ Holds(e, dst + size, L, h)
  BY DEF MovedBy
<1>0. PICK max \in Nat \ {0} : max = c.mMaxLength
  BY DEF Shaped
<1>a. PICK F : F = KeyPlace
  OBVIOUS
<1>b. PICK G : G = ValuePlace(c.upper)
  OBVIOUS
<1> DEFINE kat == [p \in Tokens(size) |-> keyIndex(dst + p[1], p[2])]
           knew == [p \in Tokens(size) |-> At(c.key, keyIndex(src + p[1], p[2]))]
           vat == [p \in Tokens(size) |-> valueIndex(max, dst + p[1], p[2])]
           vnew == [p \in Tokens(size) |-> At(c.value, valueIndex(max, src + p[1], p[2]))]
<1>1. /\ mKeyQuantMode # "TQ" /\ mValueQuantMode # "TQ" /\ ValuesRight
  BY DEF MoveSupported, ValuesRight
<1>2. L <= max /\ c.upper = max
  BY <1>0, UpperFacts DEF MoveSupported, Shaped
<1>3. /\ IsCache(e) /\ e.mMaxLength = c.mMaxLength /\ e.upper = c.upper
      /\ e.mPastLength = dst + size
      /\ e.key = Store(c.key, kat, knew) /\ e.value = Store(c.value, vat, vnew)
  <2>1. IsCache(c)
    BY DEF Shaped
  <2>2. /\ IsCache(e) /\ e.mMaxLength = c.mMaxLength /\ e.upper = c.upper
        /\ e.mPastLength = c.mPastLength + size
        /\ e.key = MovedKey(c, src, size) /\ e.value = MovedValue(c, src, size)
    BY <2>1, MoveFields
  <2>3. /\ MovedKey(c, src, size) = Store(c.key, kat, knew)
        /\ MovedValue(c, src, size) = Store(c.value, vat, vnew)
    BY <1>0 DEF MovedKey, MovedValue
  <2> QED
    BY <2>2, <2>3, Zenon
<1>4. Shaped(e)
  BY <1>3, StoreFacts, SameShape
<1>5. Layout(F, c.key, max) /\ Layout(G, c.value, max)
  BY <1>0, <1>a, <1>b, PlaceFacts
<1>6. ASSUME NEW x \in 0 .. size - 1, NEW d \in Dims
      PROVE  /\ <<x, d>> \in Tokens(size)
             /\ kat[<<x, d>>] = F[<<dst + x, d>>] /\ vat[<<x, d>>] = G[<<dst + x, d>>]
             /\ knew[<<x, d>>] = c.key[F[<<src + x, d>>]] /\ F[<<src + x, d>>] \in DOMAIN c.key
             /\ vnew[<<x, d>>] = c.value[G[<<src + x, d>>]] /\ G[<<src + x, d>>] \in DOMAIN c.value
  <2>1. dst + x \in 0 .. max - 1 /\ src + x \in 0 .. max - 1 /\ dst + x \in Nat /\ src + x \in Nat
    BY <1>2
  <2>2. <<x, d>> \in Tokens(size)
    BY DEF Tokens
  <2>3. /\ F[<<dst + x, d>>] = keyIndex(dst + x, d) /\ F[<<src + x, d>>] = keyIndex(src + x, d)
    BY <1>a, <1>1, <2>1, PlaceFacts DEF KeyCell
  <2>4. /\ G[<<dst + x, d>>] = valueIndex(max, dst + x, d)
        /\ G[<<src + x, d>>] = valueIndex(max, src + x, d)
    BY <1>b, <1>1, <1>2, <2>1, PlaceFacts, MoveIndex
  <2>5. F[<<src + x, d>>] \in DOMAIN c.key /\ G[<<src + x, d>>] \in DOMAIN c.value
    BY <1>5, <2>1 DEF Layout
  <2> QED
    BY <2>2, <2>3, <2>4, <2>5 DEF At
<1>7. DOMAIN kat = Tokens(size) /\ DOMAIN vat = Tokens(size)
  OBVIOUS
<1> HIDE DEF kat, knew, vat, vnew
<1>8. Targets(kat, F, dst, size) /\ Targets(vat, G, dst, size)
  BY <1>6, <1>7 DEF Targets
<1>9. dst + size <= max /\ max \in Nat
  BY <1>2
<1>10. Stored(e.key, c.key, knew, F, dst, size, max)
  BY <1>3, <1>5, <1>8, <1>9, StoreSpec
<1>11. Stored(e.value, c.value, vnew, G, dst, size, max)
  BY <1>3, <1>5, <1>8, <1>9, StoreSpec
<1>12. /\ HoldsKeys(c, 0, dst, T) /\ HoldsValues(c, 0, dst, T)
       /\ HoldsKeys(c, dst, L, h) /\ HoldsValues(c, dst, L, h)
  BY <1>1 DEF Holds
<1>13. HoldsKeys(e, 0, dst + size, T) /\ HoldsValues(e, 0, dst + size, T)
  <2>1. SUFFICES ASSUME NEW s \in 0 .. (dst + size) - 1, NEW d \in Dims
                 PROVE  e.key[F[<<s, d>>]] = <<T[s + 1], d>> /\ e.value[G[<<s, d>>]] = <<T[s + 1], d>>
    BY <1>a, <1>b, <1>3 DEF HoldsKeys, HoldsValues
  <2>2. s \in 0 .. max - 1
    BY <1>2
  <2>3. CASE s < dst
    <3>1. s \in 0 .. dst - 1
      BY <2>3
    <3>2. c.key[F[<<s, d>>]] = <<T[s + 1], d>> /\ c.value[G[<<s, d>>]] = <<T[s + 1], d>>
      BY <1>a, <1>b, <1>1, <1>12, <3>1 DEF HoldsKeys, HoldsValues
    <3>3. e.key[F[<<s, d>>]] = c.key[F[<<s, d>>]]
      BY <1>10, <2>2, <2>3 DEF Stored
    <3>4. e.value[G[<<s, d>>]] = c.value[G[<<s, d>>]]
      BY <1>11, <2>2, <2>3 DEF Stored
    <3> QED
      BY <3>2, <3>3, <3>4
  <2>4. CASE dst <= s
    <3>1. PICK x \in 0 .. size - 1 : dst + x = s
      <4>1. s - dst \in 0 .. size - 1 /\ dst + (s - dst) = s
        BY <2>4
      <4> QED
        BY <4>1
    <3>2. PICK t \in dst .. L - 1 : /\ t = src + x /\ t + 1 = src + (x + 1) /\ x + 1 \in 1 .. size
                                    /\ dst + (x + 1) = s + 1
      BY <3>1
    <3>3. T[s + 1] = h[t + 1]
      BY <3>2
    <3>4. c.key[F[<<t, d>>]] = <<h[t + 1], d>> /\ c.value[G[<<t, d>>]] = <<h[t + 1], d>>
      BY <1>a, <1>b, <1>1, <1>12 DEF HoldsKeys, HoldsValues
    <3>5. knew[<<x, d>>] = c.key[F[<<t, d>>]] /\ vnew[<<x, d>>] = c.value[G[<<t, d>>]]
      BY <1>6, <3>2
    <3>6. e.key[F[<<s, d>>]] = knew[<<x, d>>]
      BY <1>10, <3>1 DEF Stored
    <3>7. e.value[G[<<s, d>>]] = vnew[<<x, d>>]
      BY <1>11, <3>1 DEF Stored
    <3> QED
      BY <3>3, <3>4, <3>5, <3>6, <3>7
  <2> QED
    BY <2>3, <2>4
<1>14. HoldsKeys(e, dst + size, L, h) /\ HoldsValues(e, dst + size, L, h)
  <2>1. SUFFICES ASSUME NEW s \in dst + size .. L - 1, NEW d \in Dims
                 PROVE  e.key[F[<<s, d>>]] = <<h[s + 1], d>> /\ e.value[G[<<s, d>>]] = <<h[s + 1], d>>
    BY <1>a, <1>b, <1>3 DEF HoldsKeys, HoldsValues
  <2>2. s \in 0 .. max - 1 /\ s \in dst .. L - 1 /\ dst + size <= s
    BY <1>2
  <2>3. c.key[F[<<s, d>>]] = <<h[s + 1], d>> /\ c.value[G[<<s, d>>]] = <<h[s + 1], d>>
    BY <1>a, <1>b, <1>1, <1>12, <2>2 DEF HoldsKeys, HoldsValues
  <2>4. e.key[F[<<s, d>>]] = c.key[F[<<s, d>>]]
    BY <1>10, <2>2 DEF Stored
  <2>5. e.value[G[<<s, d>>]] = c.value[G[<<s, d>>]]
    BY <1>11, <2>2 DEF Stored
  <2> QED
    BY <2>3, <2>4, <2>5
<1>15. Holds(e, 0, dst + size, T) /\ Holds(e, dst + size, L, h)
  BY <1>13, <1>14 DEF Holds
<1>16. Clean(e)
  <2>1. ASSUME \A i \in DOMAIN c.key : c.key[i] # Garbage, NEW i \in DOMAIN e.key
        PROVE  e.key[i] # Garbage
    <3>1. i \in DOMAIN c.key /\ (e.key[i] = c.key[i] \/ \E p \in Tokens(size) : e.key[i] = knew[p])
      BY <1>10 DEF Stored
    <3>2. ASSUME NEW p \in Tokens(size) PROVE knew[p] # Garbage
      <4>1. PICK x \in 0 .. size - 1, d \in Dims : p = <<x, d>>
        BY DEF Tokens
      <4>2. PICK j \in DOMAIN c.key : knew[<<x, d>>] = c.key[j]
        BY <1>6
      <4> QED
        BY <4>1, <4>2, <2>1
    <3> QED
      BY <2>1, <3>1, <3>2
  <2>2. ASSUME \A i \in DOMAIN c.value : c.value[i] # Garbage, NEW i \in DOMAIN e.value
        PROVE  e.value[i] # Garbage
    <3>1. i \in DOMAIN c.value /\ (e.value[i] = c.value[i] \/ \E p \in Tokens(size) : e.value[i] = vnew[p])
      BY <1>11 DEF Stored
    <3>2. ASSUME NEW p \in Tokens(size) PROVE vnew[p] # Garbage
      <4>1. PICK x \in 0 .. size - 1, d \in Dims : p = <<x, d>>
        BY DEF Tokens
      <4>2. PICK j \in DOMAIN c.value : vnew[<<x, d>>] = c.value[j]
        BY <1>6
      <4> QED
        BY <4>1, <4>2, <2>2
    <3> QED
      BY <2>2, <3>1, <3>2
  <2> QED
    BY <2>1, <2>2 DEF Clean
<1> QED
  BY <1>3, <1>4, <1>15, <1>16

\* The tokens of a pass are stored behind the others.
LEMMA UpdateHolds ==
    ASSUME NEW c, Shaped(c), NEW dst \in Nat, dst = c.mPastLength, NEW toks, NEW n \in Nat,
           dst + n <= c.mMaxLength, NEW T, NEW U, Holds(c, 0, dst, T), Clean(c),
           \A s \in 1 .. dst : U[s] = T[s], \A i \in 1 .. n : U[dst + i] = toks[i],
           NEW e, UpdatedBy(e, c, toks, n)
    PROVE  /\ Shaped(e) /\ Clean(e) /\ e.mMaxLength = c.mMaxLength
           /\ e.mPastLength = dst + n /\ Holds(e, 0, dst + n, U)
<1>0. PICK max \in Nat \ {0} : max = c.mMaxLength
  BY DEF Shaped
<1>a. PICK F : F = KeyPlace
  OBVIOUS
<1>b. PICK G : G = ValuePlace(c.upper)
  OBVIOUS
<1> DEFINE kat == [p \in Tokens(Len(toks)) |-> KeyCell(c.mPastLength + p[1], p[2])]
           vat == [p \in Tokens(Len(toks)) |-> ValueCell(c.upper, c.mPastLength + p[1], p[2])]
           new == [p \in Tokens(Len(toks)) |-> <<toks[p[1] + 1], p[2]>>]
<1>1. dst + n <= max /\ max \in Nat
  BY <1>0
<1>2. /\ IsCache(e) /\ e.mMaxLength = c.mMaxLength /\ e.upper = c.upper
      /\ e.mPastLength = dst + n
      /\ e.key = Store(c.key, kat, new) /\ e.value = Store(c.value, vat, new)
  <2>1. IsCache(c)
    BY DEF Shaped
  <2>2. /\ IsCache(e) /\ e.mMaxLength = c.mMaxLength /\ e.upper = c.upper
        /\ e.mPastLength = c.mPastLength + n
        /\ e.key = UpdatedKey(c, toks) /\ e.value = UpdatedValue(c, toks)
    BY <2>1, UpdateFields
  <2>3. UpdatedKey(c, toks) = Store(c.key, kat, new) /\ UpdatedValue(c, toks) = Store(c.value, vat, new)
    BY DEF UpdatedKey, UpdatedValue, NewCells
  <2> QED
    BY <2>1, <2>2, <2>3, Zenon
<1>3. Shaped(e)
  BY <1>2, StoreFacts, SameShape
<1>4. Layout(F, c.key, max) /\ Layout(G, c.value, max)
  BY <1>0, <1>a, <1>b, PlaceFacts
<1>5. ASSUME NEW x \in 0 .. n - 1, NEW d \in Dims
      PROVE  /\ <<x, d>> \in Tokens(n) /\ new[<<x, d>>] = <<toks[x + 1], d>>
             /\ kat[<<x, d>>] = F[<<dst + x, d>>] /\ vat[<<x, d>>] = G[<<dst + x, d>>]
  <2>1. dst + x \in Nat
    OBVIOUS
  <2>2. <<x, d>> \in Tokens(n) /\ n = Len(toks)
    BY DEF UpdatedBy, Tokens
  <2>3. F[<<dst + x, d>>] = KeyCell(dst + x, d) /\ G[<<dst + x, d>>] = ValueCell(c.upper, dst + x, d)
    BY <1>a, <1>b, <2>1, PlaceFacts
  <2> QED
    BY <2>2, <2>3
<1>6. DOMAIN kat = Tokens(n) /\ DOMAIN vat = Tokens(n)
  BY DEF UpdatedBy
<1> HIDE DEF kat, vat, new
<1>7. Targets(kat, F, dst, n) /\ Targets(vat, G, dst, n)
  BY <1>5, <1>6 DEF Targets
<1>8. Stored(e.key, c.key, new, F, dst, n, max)
  BY <1>1, <1>2, <1>4, <1>7, StoreSpec
<1>9. Stored(e.value, c.value, new, G, dst, n, max)
  BY <1>1, <1>2, <1>4, <1>7, StoreSpec
<1>10. HoldsKeys(e, 0, dst + n, U)
  <2>1. SUFFICES ASSUME NEW s \in 0 .. (dst + n) - 1, NEW d \in Dims
                 PROVE  e.key[F[<<s, d>>]] = <<U[s + 1], d>>
    BY <1>a DEF HoldsKeys
  <2>2. s \in 0 .. max - 1
    BY <1>1
  <2>3. CASE s < dst
    <3>1. s \in 0 .. dst - 1 /\ s + 1 \in 1 .. dst
      BY <2>3
    <3>2. U[s + 1] = T[s + 1]
      BY <3>1
    <3>3. c.key[F[<<s, d>>]] = <<T[s + 1], d>>
      BY <1>a, <3>1 DEF Holds, HoldsKeys
    <3>4. e.key[F[<<s, d>>]] = c.key[F[<<s, d>>]]
      BY <1>8, <2>2, <2>3 DEF Stored
    <3> QED
      BY <3>2, <3>3, <3>4
  <2>4. CASE dst <= s
    <3>1. PICK x \in 0 .. n - 1 : dst + x = s
      BY <2>4
    <3>2. x + 1 \in 1 .. n /\ dst + (x + 1) = s + 1
      BY <3>1
    <3>3. U[s + 1] = toks[x + 1]
      BY <3>2
    <3>4. new[<<x, d>>] = <<toks[x + 1], d>>
      BY <1>5
    <3>5. e.key[F[<<s, d>>]] = new[<<x, d>>]
      BY <1>8, <3>1 DEF Stored
    <3> QED
      BY <3>3, <3>4, <3>5
  <2> QED
    BY <2>3, <2>4
<1>11. ASSUME HoldsValues(c, 0, dst, T) PROVE HoldsValues(e, 0, dst + n, U)
  <2>0. G = ValuePlace(e.upper)
    BY <1>b, <1>2
  <2>1. SUFFICES ASSUME NEW s \in 0 .. (dst + n) - 1, NEW d \in Dims
                 PROVE  e.value[G[<<s, d>>]] = <<U[s + 1], d>>
    BY <2>0 DEF HoldsValues
  <2>2. s \in 0 .. max - 1
    BY <1>1
  <2>3. CASE s < dst
    <3>1. s \in 0 .. dst - 1 /\ s + 1 \in 1 .. dst
      BY <2>3
    <3>2. U[s + 1] = T[s + 1]
      BY <3>1
    <3>3. c.value[G[<<s, d>>]] = <<T[s + 1], d>>
      BY <1>b, <1>11, <3>1 DEF HoldsValues
    <3>4. e.value[G[<<s, d>>]] = c.value[G[<<s, d>>]]
      BY <1>9, <2>2, <2>3 DEF Stored
    <3> QED
      BY <3>2, <3>3, <3>4
  <2>4. CASE dst <= s
    <3>1. PICK x \in 0 .. n - 1 : dst + x = s
      BY <2>4
    <3>2. x + 1 \in 1 .. n /\ dst + (x + 1) = s + 1
      BY <3>1
    <3>3. U[s + 1] = toks[x + 1]
      BY <3>2
    <3>4. new[<<x, d>>] = <<toks[x + 1], d>>
      BY <1>5
    <3>5. e.value[G[<<s, d>>]] = new[<<x, d>>]
      BY <1>9, <3>1 DEF Stored
    <3> QED
      BY <3>3, <3>4, <3>5
  <2> QED
    BY <2>3, <2>4
<1>12. Holds(e, 0, dst + n, U)
  BY <1>10, <1>11 DEF Holds
<1>13. ASSUME NEW p \in Tokens(n) PROVE new[p] # Garbage
  <2>1. PICK x \in 0 .. n - 1, d \in Dims : p = <<x, d>>
    BY DEF Tokens
  <2>2. d \in Nat
    BY DimsPadded
  <2>3. new[p] = <<toks[x + 1], d>>
    BY <1>5, <2>1
  <2> QED
    BY <2>2, <2>3 DEF Garbage
<1>14. Clean(e)
  <2>1. ASSUME \A i \in DOMAIN c.key : c.key[i] # Garbage, NEW i \in DOMAIN e.key
        PROVE  e.key[i] # Garbage
    BY <1>8, <1>13, <2>1 DEF Stored
  <2>2. ASSUME \A i \in DOMAIN c.value : c.value[i] # Garbage, NEW i \in DOMAIN e.value
        PROVE  e.value[i] # Garbage
    BY <1>9, <1>13, <2>2 DEF Stored
  <2> QED
    BY <2>1, <2>2 DEF Clean
<1> QED
  BY <1>2, <1>3, <1>12, <1>14

\* A new buffer is clean and holds nothing.
LEMMA AllocHolds ==
    ASSUME NEW n \in Nat \ {0}, NEW T, NEW e, e = OnAlloc(n)
    PROVE  /\ Shaped(e) /\ Clean(e) /\ e.mMaxLength = n + mExpandChunk /\ e.mPastLength = 0
           /\ Holds(e, 0, 0, T)
<1>1. n + mExpandChunk \in Nat \ {0}
  BY Consts
<1>2. /\ IsCache(e) /\ e.mMaxLength = n + mExpandChunk /\ e.upper = UpperKv(e.mMaxLength)
      /\ e.mPastLength = 0
      /\ e.key = [i \in 0 .. KeySize(e.mMaxLength) - 1 |->
                     IF mHeadDim % lP # 0 \/ mKeyQuantMode # "None" THEN Zero ELSE Garbage]
      /\ e.value = [i \in 0 .. ValueSize(e.mMaxLength, e.upper) - 1 |->
                     IF lP > 1 \/ mValueQuantMode # "None" THEN Zero ELSE Garbage]
  BY DEF OnAlloc, IsCache
<1>3. Shaped(e)
  BY <1>1, <1>2 DEF Shaped
<1>4. Zero # Garbage
  BY DEF Zero, Garbage
<1>5. Clean(e)
  BY <1>2, <1>4 DEF Clean
<1>6. Holds(e, 0, 0, T)
  BY DEF Holds, HoldsKeys, HoldsValues
<1> QED
  BY <1>2, <1>3, <1>5, <1>6

\* A buffer that grows keeps what it holds and has no more garbage than before.
LEMMA ExpandHolds ==
    ASSUME NEW c, Shaped(c), NEW new \in Nat, c.mMaxLength <= new, NEW L \in Nat,
           L <= c.mMaxLength, NEW T, Holds(c, 0, L, T), Clean(c), NEW e, e = Expand(c, new)
    PROVE  /\ Shaped(e) /\ Clean(e) /\ e.mMaxLength = new /\ e.mPastLength = c.mPastLength
           /\ Holds(e, 0, L, T)
<1>0. PICK max \in Nat \ {0} : max = c.mMaxLength /\ max <= new /\ L <= max
  BY DEF Shaped
<1>a. PICK F : F = KeyPlace
  OBVIOUS
<1>1. /\ IsCache(e) /\ e.mMaxLength = new /\ e.upper = UpperKv(new) /\ e.mPastLength = c.mPastLength
      /\ e.key = [i \in 0 .. KeySize(new) - 1 |-> IF i \in DOMAIN c.key THEN c.key[i] ELSE Zero]
      /\ e.value = ExpandValue(c, new)
  <2>1. IsCache(c)
    BY DEF Shaped
  <2>2. /\ IsCache(e) /\ e.mMaxLength = new /\ e.upper = UpperKv(new) /\ e.mPastLength = c.mPastLength
        /\ e.key = ExpandKey(c, new) /\ e.value = ExpandValue(c, new)
    BY <2>1, ExpandFields
  <2> QED
    BY <2>2 DEF ExpandKey
<1>2. new \in Nat \ {0}
  BY <1>0
<1>3. Shaped(e)
  <2>1. DOMAIN e.value = 0 .. ValueSize(new, UpperKv(new)) - 1
    BY <1>1 DEF ExpandValue
  <2> QED
    BY <1>1, <1>2, <2>1 DEF Shaped
<1>4. Zero # Garbage
  BY DEF Zero, Garbage
<1>5. Layout(F, c.key, max) /\ DOMAIN c.key = 0 .. KeySize(max) - 1
  BY <1>0, <1>a, PlaceFacts DEF Shaped
<1>6. KeySize(max) \in Nat /\ KeySize(new) \in Nat /\ KeySize(max) <= KeySize(new)
  BY <1>0, KeyGrow
<1>7. \A i \in DOMAIN c.key : i \in DOMAIN e.key /\ e.key[i] = c.key[i]
  BY <1>1, <1>5, <1>6
<1>8. HoldsKeys(e, 0, L, T)
  <2>1. SUFFICES ASSUME NEW s \in 0 .. L - 1, NEW d \in Dims
                 PROVE  e.key[F[<<s, d>>]] = <<T[s + 1], d>>
    BY <1>a DEF HoldsKeys
  <2>2. s \in 0 .. max - 1
    BY <1>0
  <2>3. F[<<s, d>>] \in DOMAIN c.key
    BY <1>5, <2>2 DEF Layout
  <2>4. c.key[F[<<s, d>>]] = <<T[s + 1], d>>
    BY <1>a DEF Holds, HoldsKeys
  <2> QED
    BY <1>7, <2>3, <2>4
<1>9. ASSUME \A i \in DOMAIN c.key : c.key[i] # Garbage, NEW i \in DOMAIN e.key
      PROVE  e.key[i] # Garbage
  BY <1>1, <1>4, <1>9
<1>10. CASE mUseFlashAttention
  <2>1. PICK upper \in Nat \ {0} : upper = c.upper /\ upper = e.upper /\ UpperKv(new) = upper
    BY <1>0, <1>1, <1>2, <1>10, UpperFacts DEF Shaped
  <2>2. PICK G : G = ValuePlace(upper)
    OBVIOUS
  <2>3. Layout(G, c.value, max) /\ DOMAIN c.value = 0 .. ValueSize(max, upper) - 1
    BY <1>0, <2>1, <2>2, PlaceFacts DEF Shaped
  <2>4. /\ ValueSize(max, upper) \in Nat /\ ValueSize(new, upper) \in Nat
        /\ ValueSize(max, upper) <= ValueSize(new, upper)
    BY <1>0, BlocksGrow
  <2>5. e.value = [i \in 0 .. ValueSize(new, upper) - 1 |->
                     IF i \in DOMAIN c.value THEN c.value[i] ELSE Zero]
    BY <1>1, <1>10, <2>1 DEF ExpandValue
  <2>6. \A i \in DOMAIN c.value : i \in DOMAIN e.value /\ e.value[i] = c.value[i]
    BY <2>3, <2>4, <2>5
  <2>7. ASSUME HoldsValues(c, 0, L, T) PROVE HoldsValues(e, 0, L, T)
    <3>0. G = ValuePlace(e.upper) /\ G = ValuePlace(c.upper)
      BY <2>1, <2>2
    <3>1. SUFFICES ASSUME NEW s \in 0 .. L - 1, NEW d \in Dims
                   PROVE  e.value[G[<<s, d>>]] = <<T[s + 1], d>>
      BY <3>0 DEF HoldsValues
    <3>2. s \in 0 .. max - 1
      BY <1>0
    <3>3. G[<<s, d>>] \in DOMAIN c.value
      BY <2>3, <3>2 DEF Layout
    <3>4. c.value[G[<<s, d>>]] = <<T[s + 1], d>>
      BY <2>7, <3>0 DEF HoldsValues
    <3> QED
      BY <2>6, <3>3, <3>4
  <2>8. ASSUME \A i \in DOMAIN c.value : c.value[i] # Garbage, NEW i \in DOMAIN e.value
        PROVE  e.value[i] # Garbage
    BY <1>4, <2>5, <2>8
  <2>9. Holds(e, 0, L, T)
    BY <1>8, <2>7 DEF Holds
  <2>10. Clean(e)
    BY <1>9, <2>8 DEF Clean
  <2> QED
    BY <1>1, <1>3, <2>9, <2>10
<1>11. CASE ~mUseFlashAttention
  <2>1. c.upper = max /\ e.upper = new /\ UpperKv(new) = new
    BY <1>0, <1>1, <1>2, <1>11, UpperFacts DEF Shaped
  <2>2. DOMAIN c.value = 0 .. ValueSize(max, max) - 1 /\ DOMAIN e.value = 0 .. ValueSize(new, new) - 1
    BY <1>0, <1>1, <1>3, <2>1 DEF Shaped
  <2>3. ASSUME NEW i \in DOMAIN e.value
        PROVE  e.value[i] = IF i % Row(new) < Row(max)
                            THEN At(c.value, (i \div Row(new)) * Row(max) + (i % Row(new)))
                            ELSE IF lP > 1 THEN Zero ELSE Garbage
    BY <1>0, <1>1, <1>11, <2>1, <2>2 DEF ExpandValue, Row
  <2>4. ASSUME mValueQuantMode # "TQ", HoldsValues(c, 0, L, T) PROVE HoldsValues(e, 0, L, T)
    <3>1. SUFFICES ASSUME NEW s \in 0 .. L - 1, NEW d \in Dims
                   PROVE  e.value[ValuePlace(e.upper)[<<s, d>>]] = <<T[s + 1], d>>
      BY DEF HoldsValues
    <3>2. s \in 0 .. max - 1 /\ s \in 0 .. new - 1 /\ s \in Nat
      BY <1>0
    <3>3. PICK i : i = ValueCell(new, s, d)
      OBVIOUS
    <3>4. PICK j : j = ValueCell(max, s, d)
      OBVIOUS
    <3>5. ValuePlace(e.upper)[<<s, d>>] = i
      BY <1>3, <2>1, <3>2, <3>3, PlaceFacts
    <3>6. ValuePlace(c.upper)[<<s, d>>] = j
      BY <2>1, <3>2, <3>4, PlaceFacts
    <3>7. i \in DOMAIN e.value
      BY <1>2, <2>2, <3>2, <3>3, ValueIn
    <3>8. j \in DOMAIN c.value
      BY <2>2, <3>2, <3>4, ValueIn
    <3>9. i % Row(new) < Row(max) /\ (i \div Row(new)) * Row(max) + (i % Row(new)) = j
      BY <1>0, <2>4, <3>2, <3>3, <3>4, RowMoves
    <3>10. e.value[i] = At(c.value, j)
      BY <2>3, <3>7, <3>9
    <3>11. c.value[j] = <<T[s + 1], d>>
      BY <2>4, <3>6 DEF HoldsValues
    <3> QED
      BY <3>5, <3>8, <3>10, <3>11 DEF At
  <2>5. ASSUME mValueQuantMode # "TQ", lP > 1, \A i \in DOMAIN c.value : c.value[i] # Garbage,
               NEW i \in DOMAIN e.value
        PROVE  e.value[i] # Garbage
    <3>1. CASE i % Row(new) < Row(max)
      <4>1. PICK j : j = (i \div Row(new)) * Row(max) + (i % Row(new))
        OBVIOUS
      <4>2. j \in DOMAIN c.value
        BY <1>2, <2>2, <2>5, <3>1, <4>1, RowIn
      <4>3. e.value[i] = At(c.value, j)
        BY <2>3, <3>1, <4>1
      <4> QED
        BY <2>5, <4>2, <4>3 DEF At
    <3>2. CASE ~(i % Row(new) < Row(max))
      BY <1>4, <2>3, <2>5, <3>2
    <3> QED
      BY <3>1, <3>2
  <2>6. ValuesRight => mValueQuantMode # "TQ"
    BY <1>11 DEF ValuesRight
  <2>7. Holds(e, 0, L, T)
    BY <1>8, <2>4, <2>6 DEF Holds
  <2>8. Clean(e)
    BY <1>9, <2>5 DEF Clean
  <2> QED
    BY <1>1, <1>3, <2>7, <2>8
<1> QED
  BY <1>10, <1>11

-----------------------------------------------------------------------------
(* The reserve.                                                            *)

\* A set that holds 0 and the successors of its numbers holds all of them.
LEMMA Induction ==
    ASSUME NEW S \in SUBSET Nat, 0 \in S, \A n \in S : n + 1 \in S
    PROVE  Nat \subseteq S
<1> DEFINE M == Nat \ S
           R == {ss \in Nat \X Nat : ss[1] < ss[2]}
<1>1. SUFFICES ASSUME M # {} PROVE FALSE
  OBVIOUS
<1>2. IsWellFoundedOn(R, Nat)
  BY NatLessThanWellFounded DEF OpToRel
<1>3. PICK m \in M : \A u \in M : ~(<<u, m>> \in R)
  <2>1. M \in SUBSET Nat
    OBVIOUS
  <2> HIDE DEF M, R
  <2> QED
    BY <1>1, <1>2, <2>1, WFMin
<1>4. m \in Nat /\ m # 0 /\ m \notin S
  OBVIOUS
<1>5. m - 1 \in Nat /\ m - 1 < m /\ (m - 1) + 1 = m
  BY <1>4
<1>6. m - 1 \notin S
  BY <1>4, <1>5
<1>7. <<m - 1, m>> \in R
  BY <1>4, <1>5
<1> QED
  BY <1>3, <1>5, <1>6, <1>7

\* Tokens in the first k entries of a reserve.
Sums(res) ==
    LET sum[k \in 0 .. Len(res)] == IF k = 0 THEN 0 ELSE sum[k - 1] + res[k][2]
    IN  sum

\* The function that Sums names.
IsSums(f, res) == f = [k \in 0 .. Len(res) |-> IF k = 0 THEN 0 ELSE f[k - 1] + res[k][2]]

\* There is one.
LEMMA SumsExist ==
    ASSUME NEW res \in Seq(Nat \X Nat)
    PROVE  IsSums(Sums(res), res)
<1> DEFINE Good(f, n) == /\ f = [k \in 0 .. n |-> f[k]]
                         /\ \A k \in 0 .. n : f[k] = IF k = 0 THEN 0 ELSE f[k - 1] + res[k][2]
           Upto(n) == \E f : Good(f, n)
           S == {n \in Nat : Upto(n)}
<1>1. Upto(0)
  <2> DEFINE f == [k \in 0 .. 0 |-> 0]
  <2>1. f = [k \in 0 .. 0 |-> f[k]] /\ \A k \in 0 .. 0 : k = 0 /\ f[k] = 0
    OBVIOUS
  <2> HIDE DEF f
  <2> QED
    BY <2>1
<1>2. ASSUME NEW n \in Nat, Upto(n) PROVE Upto(n + 1)
  <2>1. PICK f : Good(f, n)
    BY <1>2
  <2>w. PICK w : w = f[n] + res[n + 1][2]
    OBVIOUS
  <2> DEFINE g == [k \in 0 .. n + 1 |-> IF k = n + 1 THEN w ELSE f[k]]
  <2>2. ASSUME NEW k \in 0 .. n + 1 PROVE g[k] = IF k = 0 THEN 0 ELSE g[k - 1] + res[k][2]
    <3>1. CASE k = n + 1
      BY <2>w, <3>1
    <3>2. CASE k # n + 1
      <4>1. k \in 0 .. n /\ g[k] = f[k] /\ (k # 0 => k - 1 \in 0 .. n /\ g[k - 1] = f[k - 1])
        BY <3>2
      <4>2. f[k] = IF k = 0 THEN 0 ELSE f[k - 1] + res[k][2]
        BY <2>1, <4>1
      <4> QED
        BY <4>1, <4>2
    <3> QED
      BY <3>1, <3>2
  <2>3. g = [k \in 0 .. n + 1 |-> g[k]]
    OBVIOUS
  <2> HIDE DEF g
  <2>4. Good(g, n + 1)
    BY <2>2, <2>3
  <2> QED
    BY <2>4
<1> HIDE DEF Upto
<1>3. 0 \in S /\ \A n \in S : n + 1 \in S
  BY <1>1, <1>2
<1>4. S \in SUBSET Nat
  OBVIOUS
<1> HIDE DEF S
<1>5. Nat \subseteq S
  BY <1>3, <1>4, Induction
<1>6. Len(res) \in S
  BY <1>5
<1>7. Upto(Len(res))
  BY <1>6 DEF S
<1>8. PICK f : Good(f, Len(res))
  BY <1>7 DEF Upto
<1>9. IsSums(f, res)
  BY <1>8 DEF IsSums
<1> QED
  BY <1>9 DEF Sums, IsSums

\* The sums are numbers, each one adds the size of an entry.
LEMMA SumsFacts ==
    ASSUME NEW res \in Seq(Nat \X Nat)
    PROVE  /\ Sums(res)[0] = 0
           /\ \A k \in 0 .. Len(res) : Sums(res)[k] \in Nat
           /\ \A k \in 1 .. Len(res) : Sums(res)[k] = Sums(res)[k - 1] + res[k][2]
<1>1. PICK f : f = Sums(res)
  OBVIOUS
<1>2. PICK N \in Nat : N = Len(res)
  OBVIOUS
<1>3. \A k \in 0 .. N : f[k] = IF k = 0 THEN 0 ELSE f[k - 1] + res[k][2]
  BY <1>1, <1>2, SumsExist DEF IsSums
<1>4. f[0] = 0
  BY <1>3
<1>5. \A k \in 1 .. N : f[k] = f[k - 1] + res[k][2] /\ res[k][2] \in Nat
  <2>1. \A k \in 1 .. N : res[k] \in Nat \X Nat
    BY <1>2
  <2> QED
    BY <1>3, <2>1
<1> DEFINE S == {n \in Nat : n <= N => f[n] \in Nat}
<1>6. 0 \in S /\ S \in SUBSET Nat
  BY <1>4
<1>7. ASSUME NEW n \in S PROVE n + 1 \in S
  <2>1. SUFFICES ASSUME n + 1 <= N PROVE f[n + 1] \in Nat
    OBVIOUS
  <2>2. n \in Nat /\ n + 1 \in 1 .. N /\ (n + 1) - 1 = n /\ n <= N
    BY <2>1
  <2>3. f[n + 1] = f[(n + 1) - 1] + res[n + 1][2] /\ res[n + 1][2] \in Nat
    BY <1>5, <2>2
  <2>4. f[n] \in Nat
    BY <2>2
  <2> QED
    BY <2>2, <2>3, <2>4
<1>8. Nat \subseteq S
  <2> HIDE DEF S
  <2> QED
    BY <1>6, <1>7, Induction
<1>9. \A k \in 0 .. N : f[k] \in Nat
  BY <1>8
<1> QED
  BY <1>1, <1>2, <1>4, <1>5, <1>9

\* computeReverseSize is the last of them.
LEMMA ReverseSize ==
    ASSUME NEW m
    PROVE  ComputeReverseSize(m) = Sums(m.reserve)[Len(m.reserve)]
  BY DEF ComputeReverseSize, Sums

\* The caches that MoveReserve goes through.
IsDone(f, c, start, res) ==
    f = [k \in 0 .. Len(res) |->
            IF k = 0 THEN c ELSE MoveKV(f[k - 1], start + res[k][1], res[k][2])]

\* They exist.
LEMMA DoneExist ==
    ASSUME NEW res \in Seq(Nat \X Nat), NEW c, NEW start
    PROVE  \E f : IsDone(f, c, start, res) /\ MoveReserve(c, start, res) = f[Len(res)]
<1> DEFINE Upto(n) == \E f : f = [k \in 0 .. n |->
                IF k = 0 THEN c ELSE MoveKV(f[k - 1], start + res[k][1], res[k][2])]
           S == {n \in Nat : Upto(n)}
<1>1. Upto(0)
  <2> DEFINE f == [k \in 0 .. 0 |-> c]
  <2>1. f = [k \in 0 .. 0 |-> IF k = 0 THEN c ELSE MoveKV(f[k - 1], start + res[k][1], res[k][2])]
    OBVIOUS
  <2> QED
    BY <2>1
<1>2. ASSUME NEW n \in Nat, Upto(n) PROVE Upto(n + 1)
  <2>1. PICK f : f = [k \in 0 .. n |->
                IF k = 0 THEN c ELSE MoveKV(f[k - 1], start + res[k][1], res[k][2])]
    BY <1>2
  <2> DEFINE g == [k \in 0 .. n + 1 |->
                IF k = n + 1 THEN MoveKV(f[n], start + res[n + 1][1], res[n + 1][2]) ELSE f[k]]
  <2>2. ASSUME NEW k \in 0 .. n + 1
        PROVE  g[k] = IF k = 0 THEN c ELSE MoveKV(g[k - 1], start + res[k][1], res[k][2])
    <3>1. CASE k = n + 1
      BY <3>1
    <3>2. CASE k # n + 1
      <4>1. k \in 0 .. n /\ g[k] = f[k] /\ (k # 0 => k - 1 \in 0 .. n /\ g[k - 1] = f[k - 1])
        BY <3>2
      <4>2. f[k] = IF k = 0 THEN c ELSE MoveKV(f[k - 1], start + res[k][1], res[k][2])
        BY <2>1, <4>1
      <4> QED
        BY <4>1, <4>2
    <3> QED
      BY <3>1, <3>2
  <2>3. g = [k \in 0 .. n + 1 |-> g[k]]
    OBVIOUS
  <2> HIDE DEF g
  <2>4. g = [k \in 0 .. n + 1 |->
                IF k = 0 THEN c ELSE MoveKV(g[k - 1], start + res[k][1], res[k][2])]
    BY <2>2, <2>3
  <2> QED
    BY <2>4
<1> HIDE DEF Upto
<1>3. 0 \in S /\ \A n \in S : n + 1 \in S
  BY <1>1, <1>2
<1>4. S \in SUBSET Nat
  OBVIOUS
<1> HIDE DEF S
<1>5. Nat \subseteq S
  BY <1>3, <1>4, Induction
<1>6. Len(res) \in S
  BY <1>5
<1>7. Upto(Len(res))
  BY <1>6 DEF S
<1> QED
  BY <1>7 DEF Upto, MoveReserve, IsDone

\* Each one is the one before it after a move.
LEMMA DoneSteps ==
    ASSUME NEW res \in Seq(Nat \X Nat), NEW c, NEW start, NEW f, IsDone(f, c, start, res)
    PROVE  /\ f[0] = c
           /\ \A k \in 1 .. Len(res) : f[k] = MoveKV(f[k - 1], start + res[k][1], res[k][2])
<1>1. \A k \in 0 .. Len(res) :
        f[k] = IF k = 0 THEN c ELSE MoveKV(f[k - 1], start + res[k][1], res[k][2])
  BY Zenon DEF IsDone
<1>2. 0 \in 0 .. Len(res) /\ \A k \in 1 .. Len(res) : k \in 0 .. Len(res) /\ k # 0
  OBVIOUS
<1> QED
  BY <1>1, <1>2, Zenon

-----------------------------------------------------------------------------
(* Types of the cache, whatever was asked of it.                           *)

Cells(buf) == \A i \in DOMAIN buf : buf[i] \in Int \X Int

\* The fields have their types and the cells hold pairs.
Typed(c) ==
    /\ IsCache(c) /\ c.mMaxLength \in Nat /\ c.mPastLength \in Int
    /\ Cells(c.key) /\ Cells(c.value)

\* A cell that is read, in the buffer or not, is a pair.
LEMMA AtCell ==
    ASSUME NEW buf, Cells(buf), NEW i
    PROVE  At(buf, i) \in Int \X Int
  BY DEF Cells, At, Garbage

\* Store writes pairs.
LEMMA StoreCells ==
    ASSUME NEW buf, Cells(buf), NEW at, NEW new, \A p \in DOMAIN at : new[p] \in Int \X Int
    PROVE  Cells(Store(buf, at, new))
<1>1. PICK out : out = Store(buf, at, new)
  OBVIOUS
<1>2. /\ DOMAIN out = DOMAIN buf
      /\ \A i \in DOMAIN buf : \/ out[i] = buf[i]
                               \/ \E p \in DOMAIN at : at[p] = i /\ out[i] = new[p]
  BY <1>1, StoreFacts
<1> QED
  BY <1>1, <1>2 DEF Cells

\* A new buffer is typed.
LEMMA AllocTyped ==
    ASSUME NEW n \in Nat
    PROVE  Typed(OnAlloc(n))
<1>1. PICK e : e = OnAlloc(n)
  OBVIOUS
<1>2. Zero \in Int \X Int /\ Garbage \in Int \X Int
  BY DEF Zero, Garbage
<1>3. /\ IsCache(e) /\ e.mMaxLength = n + mExpandChunk /\ e.mPastLength = 0
      /\ e.key = [i \in 0 .. KeySize(e.mMaxLength) - 1 |->
                     IF mHeadDim % lP # 0 \/ mKeyQuantMode # "None" THEN Zero ELSE Garbage]
      /\ e.value = [i \in 0 .. ValueSize(e.mMaxLength, UpperKv(e.mMaxLength)) - 1 |->
                     IF lP > 1 \/ mValueQuantMode # "None" THEN Zero ELSE Garbage]
  BY <1>1 DEF OnAlloc, IsCache
<1>4. Cells(e.key) /\ Cells(e.value)
  BY <1>2, <1>3 DEF Cells
<1> QED
  BY <1>1, <1>3, <1>4, Consts DEF Typed

\* A grown buffer is typed.
LEMMA ExpandTyped ==
    ASSUME NEW c, Typed(c), NEW max \in Nat
    PROVE  Typed(Expand(c, max)) /\ Expand(c, max).mPastLength = c.mPastLength
<1>1. PICK e : e = Expand(c, max)
  OBVIOUS
<1>2. Zero \in Int \X Int /\ Garbage \in Int \X Int
  BY DEF Zero, Garbage
<1>3. /\ IsCache(e) /\ e.mMaxLength = max /\ e.mPastLength = c.mPastLength
      /\ e.key = ExpandKey(c, max) /\ e.value = ExpandValue(c, max)
  BY <1>1, ExpandFields DEF Typed
<1>4. Cells(e.key)
  BY <1>2, <1>3 DEF Cells, Typed, ExpandKey
<1>5. Cells(e.value)
  <2>1. \A i : At(c.value, i) \in Int \X Int
    BY AtCell DEF Typed
  <2>2. \A i \in DOMAIN c.value : c.value[i] \in Int \X Int
    BY DEF Typed, Cells
  <2>3. \A i \in DOMAIN ExpandValue(c, max) : ExpandValue(c, max)[i] \in Int \X Int
    BY <1>2, <2>1, <2>2 DEF ExpandValue
  <2> QED
    BY <1>3, <2>3 DEF Cells
<1> QED
  BY <1>1, <1>3, <1>4, <1>5 DEF Typed

\* A cache that has moved tokens is typed.
LEMMA MoveTyped ==
    ASSUME NEW c, Typed(c), NEW src, NEW size \in Nat
    PROVE  Typed(MoveKV(c, src, size))
<1>1. PICK e : e = MoveKV(c, src, size)
  OBVIOUS
<1>2. /\ IsCache(e) /\ e.mMaxLength = c.mMaxLength /\ e.mPastLength = c.mPastLength + size
      /\ e.key = MovedKey(c, src, size) /\ e.value = MovedValue(c, src, size)
  BY <1>1, MoveFields DEF Typed
<1>3. Cells(e.key)
  <2> DEFINE at == [p \in Tokens(size) |-> keyIndex(c.mPastLength + p[1], p[2])]
             new == [p \in Tokens(size) |-> At(c.key, keyIndex(src + p[1], p[2]))]
  <2>1. \A p \in DOMAIN at : new[p] \in Int \X Int
    BY AtCell DEF Typed
  <2>2. e.key = Store(c.key, at, new)
    BY <1>2 DEF MovedKey
  <2> HIDE DEF at, new
  <2> QED
    BY <2>1, <2>2, StoreCells DEF Typed
<1>4. Cells(e.value)
  <2> DEFINE at == [p \in Tokens(size) |-> valueIndex(c.mMaxLength, c.mPastLength + p[1], p[2])]
             new == [p \in Tokens(size) |-> At(c.value, valueIndex(c.mMaxLength, src + p[1], p[2]))]
  <2>1. \A p \in DOMAIN at : new[p] \in Int \X Int
    BY AtCell DEF Typed
  <2>2. e.value = Store(c.value, at, new)
    BY <1>2 DEF MovedValue
  <2> HIDE DEF at, new
  <2> QED
    BY <2>1, <2>2, StoreCells DEF Typed
<1> QED
  BY <1>1, <1>2, <1>3, <1>4 DEF Typed

\* A cache that has taken the tokens of a pass is typed.
LEMMA UpdateTyped ==
    ASSUME NEW c, Typed(c), NEW toks \in Seq(Int)
    PROVE  Typed(OnUpdateKV(c, toks))
<1>1. PICK e : e = OnUpdateKV(c, toks)
  OBVIOUS
<1>n. PICK n \in Nat : n = Len(toks)
  OBVIOUS
<1>2. /\ IsCache(e) /\ e.mMaxLength = c.mMaxLength /\ e.mPastLength = c.mPastLength + n
      /\ e.key = UpdatedKey(c, toks) /\ e.value = UpdatedValue(c, toks)
  <2>1. UpdatedBy(e, c, toks, n)
    BY <1>1, <1>n DEF UpdatedBy
  <2>2. IsCache(c)
    BY DEF Typed
  <2> QED
    BY <2>1, <2>2, UpdateFields
<1>d. Dims \subseteq Int
  BY Consts DEF Dims
<1>3. \A p \in Tokens(n) : <<toks[p[1] + 1], p[2]>> \in Int \X Int
  <2>1. SUFFICES ASSUME NEW x \in 0 .. n - 1, NEW d \in Dims
                 PROVE  <<toks[x + 1], d>> \in Int \X Int
    BY DEF Tokens
  <2>2. x + 1 \in 1 .. Len(toks)
    BY <1>n
  <2> QED
    BY <1>d, <2>2
<1>4. DOMAIN NewCells(toks) = Tokens(n) /\ \A p \in Tokens(n) : NewCells(toks)[p] \in Int \X Int
  BY <1>3, <1>n DEF NewCells
<1>5. Cells(e.key)
  <2> DEFINE at == [p \in Tokens(n) |-> KeyCell(c.mPastLength + p[1], p[2])]
  <2>1. e.key = Store(c.key, at, NewCells(toks)) /\ DOMAIN at = Tokens(n)
    BY <1>2, <1>n DEF UpdatedKey
  <2> HIDE DEF at
  <2> QED
    BY <1>4, <2>1, StoreCells DEF Typed
<1>6. Cells(e.value)
  <2> DEFINE at == [p \in Tokens(n) |-> ValueCell(c.upper, c.mPastLength + p[1], p[2])]
  <2>1. e.value = Store(c.value, at, NewCells(toks)) /\ DOMAIN at = Tokens(n)
    BY <1>2, <1>n DEF UpdatedValue
  <2> HIDE DEF at
  <2> QED
    BY <1>4, <2>1, StoreCells DEF Typed
<1> QED
  BY <1>1, <1>2, <1>5, <1>6 DEF Typed

\* The moves for a reserve leave a typed cache.
LEMMA MoveReserveTyped ==
    ASSUME NEW c, Typed(c), NEW start, NEW res \in Seq(Nat \X Nat)
    PROVE  Typed(MoveReserve(c, start, res))
<1>1. PICK f : IsDone(f, c, start, res) /\ MoveReserve(c, start, res) = f[Len(res)]
  BY DoneExist
<1>2. PICK N \in Nat : N = Len(res)
  OBVIOUS
<1>3. f[0] = c /\ \A k \in 1 .. N : f[k] = MoveKV(f[k - 1], start + res[k][1], res[k][2])
  <2>1. /\ f[0] = c
        /\ \A k \in 1 .. Len(res) : f[k] = MoveKV(f[k - 1], start + res[k][1], res[k][2])
    BY <1>1, DoneSteps
  <2> QED
    BY <1>2, <2>1, Zenon
<1>4. \A k \in 1 .. N : res[k][2] \in Nat
  <2>1. \A k \in 1 .. N : res[k] \in Nat \X Nat
    BY <1>2
  <2> QED
    BY <2>1
<1> DEFINE S == {n \in Nat : n <= N => Typed(f[n])}
<1>5. 0 \in S /\ S \in SUBSET Nat
  BY <1>3
<1>6. ASSUME NEW n \in S PROVE n + 1 \in S
  <2>1. SUFFICES ASSUME n + 1 <= N PROVE Typed(f[n + 1])
    OBVIOUS
  <2>2. n \in Nat /\ n + 1 \in 1 .. N /\ (n + 1) - 1 = n /\ n <= N
    BY <2>1
  <2>3. f[n + 1] = MoveKV(f[n], start + res[n + 1][1], res[n + 1][2]) /\ res[n + 1][2] \in Nat
    BY <1>3, <1>4, <2>2
  <2>4. Typed(f[n])
    BY <2>2
  <2> QED
    BY <2>3, <2>4, MoveTyped
<1>7. Nat \subseteq S
  <2> HIDE DEF S
  <2> QED
    BY <1>5, <1>6, Induction
<1>8. Typed(f[N])
  BY <1>7
<1> QED
  BY <1>1, <1>2, <1>8

-----------------------------------------------------------------------------
(* The passes.                                                             *)

\* T is what a reserve leaves of h: its first tokens, and the ranges of the entries, each
\* of which lies behind the place it goes to.
Kept(h, T, start, res) ==
    /\ start \in 0 .. Len(h)
    /\ Len(T) = start + Sums(res)[Len(res)]
    /\ \A i \in 1 .. start : T[i] = h[i]
    /\ \A j \in 1 .. Len(res) :
         /\ Sums(res)[j - 1] <= res[j][1] /\ start + res[j][1] + res[j][2] <= Len(h)
         /\ \A i \in 1 .. res[j][2] : T[start + Sums(res)[j - 1] + i] = h[start + res[j][1] + i]

\* A buffer with the tokens of T.
Good(c, T) ==
    /\ Shaped(c) /\ Clean(c) /\ c.mPastLength = Len(T) /\ Len(T) <= c.mMaxLength
    /\ Holds(c, 0, Len(T), T)

\* What is held up to a token is held up to an earlier one, and by equal texts.
LEMMA HoldsLess ==
    ASSUME NEW c, NEW hi \in Nat, NEW T, Holds(c, 0, hi, T), NEW lo \in Nat, NEW mid \in Nat,
           mid <= hi, NEW U, \A i \in 1 .. mid : U[i] = T[i]
    PROVE  Holds(c, 0, mid, U) /\ Holds(c, lo, hi, T)
<1>1. \A s \in 0 .. mid - 1 : s \in 0 .. hi - 1 /\ U[s + 1] = T[s + 1]
  OBVIOUS
<1>2. \A s \in lo .. hi - 1 : s \in 0 .. hi - 1
  OBVIOUS
<1>3. HoldsKeys(c, 0, mid, U) /\ HoldsKeys(c, lo, hi, T)
  BY <1>1, <1>2 DEF Holds, HoldsKeys
<1>4. ValuesRight => HoldsValues(c, 0, mid, U) /\ HoldsValues(c, lo, hi, T)
  BY <1>1, <1>2 DEF Holds, HoldsValues
<1> QED
  BY <1>3, <1>4 DEF Holds

\* The state after k moves: the text up to the target of the next one, and behind it
\* what has not been moved.
AfterMoves(c, max, past, L, T, h) ==
    /\ Shaped(c) /\ Clean(c) /\ c.mMaxLength = max /\ c.mPastLength = past
    /\ Holds(c, 0, past, T) /\ Holds(c, past, L, h)

\* The moves for a reserve leave the text that it describes.
LEMMA MoveReserveHolds ==
    ASSUME NEW c, Shaped(c), Clean(c), MoveSupported, NEW start \in Nat, start = c.mPastLength,
           NEW res \in Seq(Nat \X Nat), NEW h, Len(h) \in Nat, Len(h) <= c.mMaxLength,
           Holds(c, 0, Len(h), h), NEW T, Kept(h, T, start, res),
           NEW e, e = MoveReserve(c, start, res)
    PROVE  /\ Shaped(e) /\ Clean(e) /\ e.mMaxLength = c.mMaxLength
           /\ e.mPastLength = Len(T) /\ Holds(e, 0, Len(T), T)
<1>0. PICK max \in Nat \ {0} : max = c.mMaxLength
  BY DEF Shaped
<1>L. PICK L \in Nat : L = Len(h) /\ L <= max
  BY <1>0
<1>1. PICK f : IsDone(f, c, start, res) /\ MoveReserve(c, start, res) = f[Len(res)]
  BY DoneExist
<1>2. PICK N \in Nat : N = Len(res)
  OBVIOUS
<1>3. f[0] = c /\ \A k \in 1 .. N : f[k] = MoveKV(f[k - 1], start + res[k][1], res[k][2])
  <2>1. /\ f[0] = c
        /\ \A k \in 1 .. Len(res) : f[k] = MoveKV(f[k - 1], start + res[k][1], res[k][2])
    BY <1>1, DoneSteps
  <2> QED
    BY <1>2, <2>1, Zenon
<1>4. \A k \in 1 .. N : res[k][1] \in Nat /\ res[k][2] \in Nat
  <2>1. \A k \in 1 .. N : res[k] \in Nat \X Nat
    BY <1>2
  <2> QED
    BY <2>1
<1>s. PICK sum : sum = Sums(res)
  OBVIOUS
<1>5. /\ sum[0] = 0 /\ \A k \in 0 .. N : sum[k] \in Nat
      /\ \A k \in 1 .. N : sum[k] = sum[k - 1] + res[k][2]
  BY <1>s, <1>2, SumsFacts
<1>6. /\ start <= L /\ Len(T) = start + sum[N] /\ \A i \in 1 .. start : T[i] = h[i]
      /\ \A j \in 1 .. N :
           /\ sum[j - 1] <= res[j][1] /\ start + res[j][1] + res[j][2] <= L
           /\ \A i \in 1 .. res[j][2] : T[start + sum[j - 1] + i] = h[start + res[j][1] + i]
  BY <1>s, <1>2, <1>L DEF Kept
<1> DEFINE S == {n \in Nat : n <= N => AfterMoves(f[n], max, start + sum[n], L, T, h)}
<1>7. 0 \in S /\ S \in SUBSET Nat
  <2>1. Holds(c, 0, start, T) /\ Holds(c, start, L, h)
    BY <1>6, <1>L, HoldsLess
  <2>2. start + sum[0] = start
    BY <1>5
  <2>3. AfterMoves(c, max, start, L, T, h)
    BY <1>0, <2>1 DEF AfterMoves
  <2> QED
    BY <1>3, <2>2, <2>3
<1>8. ASSUME NEW n \in S PROVE n + 1 \in S
  <2>1. SUFFICES ASSUME n + 1 <= N PROVE AfterMoves(f[n + 1], max, start + sum[n + 1], L, T, h)
    OBVIOUS
  <2>2. n \in Nat /\ n + 1 \in 1 .. N /\ (n + 1) - 1 = n /\ n <= N /\ n \in 0 .. N
    BY <2>1
  <2>13. AfterMoves(f[n], max, start + sum[n], L, T, h)
    BY <2>2
  <2> HIDE DEF S
  <2>3. PICK b \in Nat, size \in Nat : b = res[n + 1][1] /\ size = res[n + 1][2]
    BY <1>4, <2>2
  <2>4. PICK dst \in Nat : dst = start + sum[n]
    BY <1>5, <2>2
  <2>5. PICK src \in Nat : src = start + b
    OBVIOUS
  <2>6. f[n + 1] = MoveKV(f[n], src, size)
    BY <1>3, <2>2, <2>3, <2>5
  <2>7. start + sum[n + 1] = dst + size /\ dst <= src /\ src + size <= L
    <3>1. sum[n + 1] = sum[(n + 1) - 1] + res[n + 1][2]
      BY <1>5, <2>2
    <3>2. sum[(n + 1) - 1] <= res[n + 1][1] /\ start + res[n + 1][1] + res[n + 1][2] <= L
      BY <1>6, <2>2
    <3>3. PICK u \in Nat : u = sum[n]
      BY <1>5, <2>2
    <3>4. sum[n + 1] = u + size /\ u <= b /\ start + b + size <= L /\ dst = start + u
      BY <2>2, <2>3, <2>4, <3>1, <3>2, <3>3
    <3>5. start + sum[n + 1] = dst + size
      BY <3>4
    <3>6. dst <= src /\ src + size <= L
      BY <2>5, <3>4
    <3> QED
      BY <3>5, <3>6
  <2>8. \A i \in 1 .. size : T[dst + i] = h[src + i]
    <3>1. \A i \in 1 .. res[n + 1][2] :
            T[start + sum[(n + 1) - 1] + i] = h[start + res[n + 1][1] + i]
      BY <1>6, <2>2
    <3> QED
      BY <2>2, <2>3, <2>4, <2>5, <3>1
  <2>9. AfterMoves(f[n], max, dst, L, T, h)
    BY <2>4, <2>13
  <2>10. /\ Shaped(f[n]) /\ Clean(f[n]) /\ f[n].mMaxLength = max /\ f[n].mPastLength = dst
         /\ Holds(f[n], 0, dst, T) /\ Holds(f[n], dst, L, h)
    BY <2>9 DEF AfterMoves
  <2>11. PICK g : g = f[n + 1]
    OBVIOUS
  <2>12. /\ Shaped(g) /\ Clean(g) /\ g.mMaxLength = max /\ g.mPastLength = dst + size
         /\ Holds(g, 0, dst + size, T) /\ Holds(g, dst + size, L, h)
    <3>1. MovedBy(g, f[n], src, size, dst, L, T, h)
      BY <1>L, <2>6, <2>7, <2>8, <2>10, <2>11 DEF MovedBy
    <3>2. PICK c1 : c1 = f[n]
      OBVIOUS
    <3>3. MovedBy(g, c1, src, size, dst, L, T, h) /\ c1.mMaxLength = max
      BY <2>10, <3>1, <3>2
    <3>4. /\ Shaped(g) /\ Clean(g) /\ g.mMaxLength = c1.mMaxLength
          /\ g.mPastLength = dst + size
          /\ Holds(g, 0, dst + size, T) /\ Holds(g, dst + size, L, h)
      BY <3>3, MoveHolds
    <3> QED
      BY <3>3, <3>4
  <2> QED
    BY <2>7, <2>11, <2>12 DEF AfterMoves
<1>9. Nat \subseteq S
  <2> HIDE DEF S
  <2> QED
    BY <1>7, <1>8, Induction
<1>10. AfterMoves(f[N], max, start + sum[N], L, T, h)
  BY <1>9
<1> QED
  BY <1>0, <1>1, <1>2, <1>6, <1>10 DEF AfterMoves

\* No entries, no moves.
LEMMA MoveNothing ==
    ASSUME NEW c, NEW start
    PROVE  MoveReserve(c, start, << >>) = c
<1>1. PICK res \in Seq(Nat \X Nat) : res = << >> /\ Len(res) = 0
  <2>1. << >> \in Seq(Nat \X Nat) /\ Len(<< >>) = 0
    OBVIOUS
  <2> QED
    BY <2>1, Zenon
<1>2. PICK f : IsDone(f, c, start, res) /\ MoveReserve(c, start, res) = f[Len(res)]
  BY DoneExist
<1>3. f[0] = c
  BY <1>2, DoneSteps
<1>4. MoveReserve(c, start, res) = c
  BY <1>1, <1>2, <1>3
<1> QED
  BY <1>1, <1>4

\* The sum of no entries.
LEMMA SumsNothing == Sums(<< >>)[Len(<< >>)] = 0
<1>1. << >> \in Seq(Nat \X Nat) /\ Len(<< >>) = 0
  OBVIOUS
<1> QED
  BY <1>1, SumsFacts

\* The cache c with its last tokens given up.
Cut(c, past) == [c EXCEPT !.mPastLength = past]

\* Its fields.
LEMMA CutFields ==
    ASSUME NEW c, IsCache(c), NEW past, NEW e, e = Cut(c, past)
    PROVE  /\ IsCache(e) /\ e.mMaxLength = c.mMaxLength /\ e.upper = c.upper
           /\ e.mPastLength = past /\ e.key = c.key /\ e.value = c.value
  BY DEF Cut, IsCache

\* It holds what was held.
LEMMA CutHolds ==
    ASSUME NEW c, Shaped(c), Clean(c), NEW past, NEW e, e = Cut(c, past), NEW L, NEW T,
           Holds(c, 0, L, T)
    PROVE  /\ Shaped(e) /\ Clean(e) /\ e.mMaxLength = c.mMaxLength /\ e.mPastLength = past
           /\ Holds(e, 0, L, T)
<1>1. /\ IsCache(e) /\ e.mMaxLength = c.mMaxLength /\ e.upper = c.upper
      /\ e.mPastLength = past /\ e.key = c.key /\ e.value = c.value
  BY CutFields DEF Shaped
<1>2. Shaped(e)
  BY <1>1, SameShape
<1>3. Clean(e)
  BY <1>1 DEF Clean
<1>4. Holds(e, 0, L, T)
  BY <1>1 DEF Holds, HoldsKeys, HoldsValues
<1> QED
  BY <1>1, <1>2, <1>3, <1>4

\* The room onRealloc makes for `need` tokens.
Room(c, need) == IF need > c.mMaxLength THEN Expand(c, need + mExpandChunk) ELSE c

\* There is enough of it, and nothing is lost.
LEMMA RoomHolds ==
    ASSUME NEW c, NEW h, Good(c, h), Len(h) \in Nat, NEW need \in Nat, NEW e, e = Room(c, need)
    PROVE  /\ Shaped(e) /\ Clean(e) /\ need <= e.mMaxLength /\ Len(h) <= e.mMaxLength
           /\ e.mPastLength = Len(h) /\ Holds(e, 0, Len(h), h)
<1>1. PICK max \in Nat \ {0} : max = c.mMaxLength
  BY DEF Good, Shaped
<1>L. PICK L \in Nat : L = Len(h)
  OBVIOUS
<1>2. /\ Shaped(c) /\ Clean(c) /\ c.mPastLength = L /\ L <= max /\ Holds(c, 0, L, h)
  BY <1>1, <1>L DEF Good
<1>3. CASE need > max
  <2>1. PICK new \in Nat : new = need + mExpandChunk /\ max <= new /\ need <= new
    BY <1>3, Consts
  <2>2. e = Expand(c, new)
    BY <1>1, <1>3, <2>1 DEF Room
  <2>3. /\ Shaped(e) /\ Clean(e) /\ e.mMaxLength = new /\ e.mPastLength = c.mPastLength
        /\ Holds(e, 0, L, h)
    BY <1>1, <1>2, <2>1, <2>2, ExpandHolds
  <2> QED
    BY <1>L, <1>2, <2>1, <2>3
<1>4. CASE ~(need > max)
  <2>1. e = c
    BY <1>1, <1>4 DEF Room
  <2> QED
    BY <1>1, <1>L, <1>2, <1>4, <2>1
<1> QED
  BY <1>3, <1>4

\* The types of a KVMeta.
IsMeta(m) ==
    /\ DOMAIN m = {"previous", "remove", "reserve", "add"}
    /\ m.previous \in Nat /\ m.remove \in 0 .. m.previous /\ m.add \in Nat
    /\ m.reserve \in Seq(Nat \X Nat)

\* onRealloc for a cache with the tokens of h, of which T is to stay.
Reallocated(e, c, m, h, T) ==
    /\ e = OnRealloc(c, m) /\ Good(c, h) /\ m.previous = Len(h)
    /\ Kept(h, T, m.previous - m.remove, m.reserve)
    /\ m.reserve # << >> => MoveSupported

\* It leaves T, and room for the tokens of the pass.
LEMMA ReallocHolds ==
    ASSUME NEW c, NEW m, IsMeta(m), NEW h, Len(h) \in Nat, NEW T, NEW e, Reallocated(e, c, m, h, T)
    PROVE  /\ Shaped(e) /\ Clean(e) /\ e.mPastLength = Len(T) /\ Holds(e, 0, Len(T), T)
           /\ Len(T) \in Nat /\ Len(T) + m.add <= e.mMaxLength
<1>r. PICK res \in Seq(Nat \X Nat) : res = m.reserve
  BY DEF IsMeta
<1>p. PICK prev \in Nat, rem \in Nat, add \in Nat :
         prev = m.previous /\ rem = m.remove /\ add = m.add /\ rem <= prev
  BY DEF IsMeta
<1>k. PICK k \in Nat : k = Sums(res)[Len(res)]
  BY SumsFacts
<1>s. PICK start \in Nat : start = prev - rem
  BY <1>p
<1>n. PICK need \in Nat : need = start + k + add
  OBVIOUS
<1>1. /\ Good(c, h) /\ prev = Len(h) /\ Kept(h, T, start, res) /\ (res # << >> => MoveSupported)
  BY <1>r, <1>p, <1>s DEF Reallocated
<1>2. /\ start <= Len(h) /\ Len(T) = start + k /\ \A i \in 1 .. start : T[i] = h[i]
  BY <1>1, <1>k DEF Kept
<1>3. c.mPastLength = prev
  BY <1>1 DEF Good
<1>4. need = m.previous + m.add - m.remove + ComputeReverseSize(m) /\ start = c.mPastLength - m.remove
  <2>1. ComputeReverseSize(m) = k
    BY <1>r, <1>k, ReverseSize
  <2>2. need = prev + add - rem + k
    BY <1>s, <1>n
  <2>3. start = c.mPastLength - rem
    BY <1>s, <1>3
  <2> QED
    BY <1>p, <2>1, <2>2, <2>3, Zenon
<1>5. PICK room : room = Room(c, need)
  OBVIOUS
<1>6. PICK cut : cut = Cut(room, start)
  OBVIOUS
<1>7. e = IF mKeyQuantMode # "None" \/ mValueQuantMode # "None" THEN cut
          ELSE MoveReserve(cut, start, res)
  BY <1>r, <1>4, <1>5, <1>6 DEF Reallocated, OnRealloc, Room, Cut
<1>8. /\ Shaped(room) /\ Clean(room) /\ need <= room.mMaxLength /\ Len(h) <= room.mMaxLength
      /\ Holds(room, 0, Len(h), h)
  BY <1>1, <1>5, RoomHolds
<1>9. /\ Shaped(cut) /\ Clean(cut) /\ need <= cut.mMaxLength /\ Len(h) <= cut.mMaxLength
      /\ cut.mPastLength = start /\ Holds(cut, 0, Len(h), h)
  BY <1>6, <1>8, CutHolds
<1>10. Len(T) \in Nat /\ Len(T) + m.add = need
  BY <1>2, <1>n, <1>p
<1>11. CASE res = << >>
  <2>1. e = cut
    BY <1>7, <1>11, MoveNothing
  <2>2. k = 0 /\ Len(T) = start
    BY <1>2, <1>k, <1>11, SumsNothing
  <2>3. Holds(cut, 0, start, T)
    BY <1>2, <1>9, HoldsLess
  <2> QED
    BY <1>9, <1>10, <2>1, <2>2, <2>3
<1>12. CASE res # << >>
  <2>1. MoveSupported
    BY <1>1, <1>12
  <2>2. e = MoveReserve(cut, start, res)
    BY <1>7, <2>1 DEF MoveSupported
  <2>3. /\ Shaped(e) /\ Clean(e) /\ e.mMaxLength = cut.mMaxLength
        /\ e.mPastLength = Len(T) /\ Holds(e, 0, Len(T), T)
    BY <1>1, <1>9, <2>1, <2>2, MoveReserveHolds
  <2> QED
    BY <1>9, <1>10, <2>3
<1> QED
  BY <1>11, <1>12

\* onRealloc leaves a typed cache.
LEMMA ReallocTyped ==
    ASSUME NEW c, Typed(c), NEW m, IsMeta(m)
    PROVE  Typed(OnRealloc(c, m))
<1>r. PICK res \in Seq(Nat \X Nat) : res = m.reserve
  BY DEF IsMeta
<1>p. PICK prev \in Nat, rem \in Nat, add \in Nat :
         prev = m.previous /\ rem = m.remove /\ add = m.add /\ rem <= prev
  BY DEF IsMeta
<1>k. PICK k \in Nat : k = ComputeReverseSize(m)
  <2>1. Sums(res)[Len(res)] \in Nat
    BY SumsFacts
  <2>2. ComputeReverseSize(m) = Sums(res)[Len(res)]
    BY <1>r, ReverseSize
  <2> QED
    BY <2>1, <2>2
<1>n. PICK need \in Nat : need = prev + add - rem + k
  <2>1. rem <= prev
    BY <1>p
  <2>2. prev + add - rem + k \in Nat
    BY <2>1
  <2> QED
    BY <2>2
<1>s. PICK start \in Int : start = c.mPastLength - rem
  BY DEF Typed
<1>5. PICK room : room = Room(c, need)
  OBVIOUS
<1>6. PICK cut : cut = Cut(room, start)
  OBVIOUS
<1>7. OnRealloc(c, m) = IF mKeyQuantMode # "None" \/ mValueQuantMode # "None" THEN cut
                        ELSE MoveReserve(cut, start, res)
  BY <1>r, <1>p, <1>k, <1>n, <1>s, <1>5, <1>6, Zenon DEF OnRealloc, Room, Cut
<1>8. Typed(room)
  <2>1. need + mExpandChunk \in Nat
    BY Consts
  <2> QED
    BY <1>5, <2>1, ExpandTyped DEF Room
<1>9. Typed(cut)
  <2>1. /\ IsCache(cut) /\ cut.mMaxLength = room.mMaxLength
        /\ cut.mPastLength = start /\ cut.key = room.key /\ cut.value = room.value
    BY <1>6, <1>8, CutFields DEF Typed
  <2> QED
    BY <1>8, <2>1 DEF Typed
<1>10. Typed(MoveReserve(cut, start, res))
  BY <1>9, MoveReserveTyped
<1> QED
  BY <1>7, <1>9, <1>10

\* A pass leaves a typed cache.
LEMMA AttentionTyped ==
    ASSUME NEW m, IsMeta(m), Typed(cache), NEW toks \in Seq(Int)
    PROVE  Typed(Attention(m, toks))
<1>1. PICK c : c = IF m.previous = m.remove THEN OnAlloc(Len(toks)) ELSE OnRealloc(cache, m)
  OBVIOUS
<1>2. Typed(c)
  <2>1. Len(toks) \in Nat
    OBVIOUS
  <2>2. Typed(OnAlloc(Len(toks))) /\ Typed(OnRealloc(cache, m))
    BY <2>1, AllocTyped, ReallocTyped
  <2> QED
    BY <1>1, <2>2
<1>3. Attention(m, toks) = OnUpdateKV(c, toks)
  BY <1>1 DEF Attention
<1> QED
  BY <1>2, <1>3, UpdateTyped

\* The pass finds an empty cache, or one with the tokens of h of which T is to stay.
Passes(m, h, T) ==
    /\ m.previous = m.remove => T = << >>
    /\ m.previous # m.remove =>
         /\ Good(cache, h) /\ m.previous = Len(h) /\ Len(h) \in Nat
         /\ Kept(h, T, m.previous - m.remove, m.reserve)
         /\ m.reserve # << >> => MoveSupported

\* Then it leaves the tokens of T and behind them its own.
LEMMA AttentionHolds ==
    ASSUME NEW m, IsMeta(m), NEW toks \in Seq(Int), toks # << >>, m.add = Len(toks),
           NEW h, NEW T \in Seq(Int), Passes(m, h, T)
    PROVE  Good(Attention(m, toks), T \o toks)
<1>n. PICK n \in Nat \ {0} : n = Len(toks)
  OBVIOUS
<1>t. PICK dst \in Nat : dst = Len(T)
  OBVIOUS
<1>U. PICK U : U = T \o toks
  OBVIOUS
<1>1. Len(U) = dst + n /\ (\A s \in 1 .. dst : U[s] = T[s]) /\ \A i \in 1 .. n : U[dst + i] = toks[i]
  BY <1>n, <1>t, <1>U
<1>2. PICK c : c = IF m.previous = m.remove THEN OnAlloc(Len(toks)) ELSE OnRealloc(cache, m)
  OBVIOUS
<1>3. PICK e : e = Attention(m, toks)
  OBVIOUS
<1>4. UpdatedBy(e, c, toks, n)
  BY <1>n, <1>2, <1>3 DEF Attention, UpdatedBy
<1>5. /\ Shaped(c) /\ Clean(c) /\ c.mPastLength = dst /\ Holds(c, 0, dst, T)
      /\ dst + n <= c.mMaxLength
  <2>1. CASE m.previous = m.remove
    <3>1. dst = 0
      BY <1>t, <2>1 DEF Passes
    <3>2. c = OnAlloc(n)
      BY <1>n, <1>2, <2>1
    <3>3. /\ Shaped(c) /\ Clean(c) /\ c.mMaxLength = n + mExpandChunk /\ c.mPastLength = 0
          /\ Holds(c, 0, 0, T)
      BY <3>2, AllocHolds
    <3>4. n <= n + mExpandChunk /\ 0 + n = n
      BY Consts
    <3> QED
      BY <3>1, <3>3, <3>4
  <2>2. CASE m.previous # m.remove
    <3>1. Reallocated(c, cache, m, h, T) /\ Len(h) \in Nat
      BY <1>2, <2>2 DEF Passes, Reallocated
    <3>2. /\ Shaped(c) /\ Clean(c) /\ c.mPastLength = Len(T) /\ Holds(c, 0, Len(T), T)
          /\ Len(T) + m.add <= c.mMaxLength
      BY <3>1, ReallocHolds
    <3> QED
      BY <1>n, <1>t, <3>2
  <2> QED
    BY <2>1, <2>2
<1>6. /\ Shaped(e) /\ Clean(e) /\ e.mMaxLength = c.mMaxLength
      /\ e.mPastLength = dst + n /\ Holds(e, 0, dst + n, U)
  BY <1>1, <1>4, <1>5, UpdateHolds
<1>7. Good(e, U)
  BY <1>1, <1>5, <1>6 DEF Good
<1> QED
  BY <1>3, <1>7, <1>U

-----------------------------------------------------------------------------
(* The invariant.                                                          *)

\* TypeOK, with the fields that the records have.
TypeInv ==
    /\ option \in AttentionOption /\ IsMeta(meta) /\ Typed(cache) /\ all_seq_len \in Nat
    /\ hist \in Seq(1 .. MaxTokens) /\ keep \in Seq(1 .. MaxTokens)
    /\ next \in 1 .. MaxTokens + 1 /\ sound \in BOOLEAN

\* Tokens that a meta leaves of the ones before the pass.
Left(m) == m.previous - m.remove + Sums(m.reserve)[Len(m.reserve)]

\* meta counts no token short, in the contract or not: an engine that erases everything
\* starts from nothing.
LengthInv ==
    /\ Len(hist) <= meta.previous /\ Len(keep) <= Left(meta)
    /\ meta.previous = meta.remove /\ meta.reserve = << >> => all_seq_len = 0

\* Within the contract the buffer has the tokens of hist, and the noted edit describes keep.
SoundInv ==
    sound => /\ meta.previous = Len(hist) /\ cache.mPastLength = Len(hist)
             /\ meta.previous # 0 => Good(cache, hist)
             /\ all_seq_len = Len(keep)
             /\ Kept(hist, keep, meta.previous - meta.remove, meta.reserve)
             /\ meta.reserve # << >> => MoveSupported

IInv == TypeInv /\ LengthInv /\ SoundInv

\* It implies what TypeOK says.
LEMMA TypeInvTypeOK ==
    ASSUME TypeInv
    PROVE  TypeOK
<1>1. Range(cache.key) \subseteq Int \X Int /\ Range(cache.value) \subseteq Int \X Int
  BY DEF TypeInv, Typed, Cells, Range
<1> QED
  BY <1>1 DEF TypeOK, TypeInv, IsMeta, Typed

\* A number of tokens is left.
LEMMA LeftFacts ==
    ASSUME NEW m, IsMeta(m)
    PROVE  /\ Left(m) \in Nat /\ m.previous - m.remove \in Nat /\ m.previous - m.remove <= Left(m)
           /\ m.reserve = << >> => Left(m) = m.previous - m.remove
           /\ Left(m) = m.previous - m.remove + ComputeReverseSize(m)
<1>1. PICK prev \in Nat, rem \in Nat : prev = m.previous /\ rem = m.remove /\ rem <= prev
  BY DEF IsMeta
<1>2. PICK k \in Nat : k = Sums(m.reserve)[Len(m.reserve)]
  BY SumsFacts DEF IsMeta
<1>3. m.reserve = << >> => k = 0
  BY <1>2, SumsNothing
<1>4. ComputeReverseSize(m) = k
  BY <1>2, ReverseSize
<1>5. Left(m) = (prev - rem) + k
  BY <1>1, <1>2 DEF Left
<1>6. (prev - rem) + k \in Nat /\ prev - rem \in Nat /\ prev - rem <= (prev - rem) + k
      /\ (k = 0 => (prev - rem) + k = prev - rem)
  BY <1>1
<1> QED
  BY <1>1, <1>3, <1>4, <1>5, <1>6

\* The tokens of a pass.
LEMMA FreshFacts ==
    ASSUME TypeInv, NEW n \in AddSizes, next + n - 1 <= MaxTokens
    PROVE  /\ n \in Nat \ {0} /\ Fresh(n) \in Seq(1 .. MaxTokens) /\ Fresh(n) \in Seq(Int)
           /\ Len(Fresh(n)) = n /\ Fresh(n) # << >> /\ next + n \in 1 .. MaxTokens + 1
<1>1. n \in Nat \ {0} /\ MaxTokens \in Nat /\ next \in 1 .. MaxTokens + 1
  BY Consts, KVAssumption DEF TypeInv
<1>2. \A i \in 1 .. n : next + i - 1 \in 1 .. MaxTokens
  BY <1>1
<1>3. Fresh(n) \in [1 .. n -> 1 .. MaxTokens]
  BY <1>2 DEF Fresh
<1>4. Fresh(n) \in Seq(1 .. MaxTokens) /\ Len(Fresh(n)) = n
  BY <1>1, <1>3
<1> QED
  BY <1>1, <1>4

\* The meta of a pass of n tokens.
LEMMA AddFacts ==
    ASSUME NEW m, IsMeta(m), NEW n \in Nat, NEW p, p = [m EXCEPT !.add = n]
    PROVE  /\ IsMeta(p) /\ p.previous = m.previous /\ p.remove = m.remove
           /\ p.reserve = m.reserve /\ p.add = n /\ Left(p) = Left(m)
<1>1. /\ DOMAIN p = DOMAIN m /\ p.previous = m.previous /\ p.remove = m.remove
      /\ p.reserve = m.reserve /\ p.add = n
  BY DEF IsMeta
<1> QED
  BY <1>1 DEF IsMeta, Left

\* p is the meta after a pass with the edit that is noted behind it.
Synced(p, m, remove, reserve) == p = [Sync(m) EXCEPT !.remove = remove, !.reserve = reserve]

\* Its fields.
LEMMA SyncFacts ==
    ASSUME NEW m, IsMeta(m), NEW remove, NEW reserve, NEW p, Synced(p, m, remove, reserve)
    PROVE  /\ DOMAIN p = {"previous", "remove", "reserve", "add"}
           /\ p.previous = Left(m) + m.add /\ p.remove = remove /\ p.reserve = reserve /\ p.add = 0
<1>1. /\ DOMAIN p = {"previous", "remove", "reserve", "add"}
      /\ p.previous = m.previous - m.remove + m.add + ComputeReverseSize(m)
      /\ p.remove = remove /\ p.reserve = reserve /\ p.add = 0
  BY DEF Synced, Sync
<1>2. PICK prev \in Nat, rem \in Nat, add \in Nat : prev = m.previous /\ rem = m.remove /\ add = m.add
  BY DEF IsMeta
<1>3. PICK k \in Int : k = ComputeReverseSize(m)
  <2>1. Sums(m.reserve)[Len(m.reserve)] \in Nat
    BY SumsFacts DEF IsMeta
  <2> QED
    BY <2>1, ReverseSize
<1>4. (prev - rem + add) + k = (prev - rem + k) + add
  OBVIOUS
<1>5. Left(m) = prev - rem + k
  BY <1>2, <1>3, LeftFacts
<1> QED
  BY <1>1, <1>2, <1>3, <1>4, <1>5

-----------------------------------------------------------------------------
(* The steps.                                                              *)

\* What a pass does to lengths and types, wherever it starts from.
LEMMA ForwardTypes ==
    ASSUME TypeInv, LengthInv, NEW n \in AddSizes, NEW remove \in 0 .. n,
           NEW reserve \in Seq(Nat \X Nat), Forward(n, remove, reserve)
    PROVE  /\ option' = option /\ IsMeta(meta') /\ Typed(cache') /\ n \in Nat \ {0}
           /\ meta'.previous = Left(meta) + n /\ meta'.remove = remove /\ meta'.reserve = reserve
           /\ hist' = keep \o Fresh(n) /\ hist' \in Seq(1 .. MaxTokens)
           /\ Len(hist') = Len(keep) + n /\ Len(hist') <= meta'.previous
           /\ Fresh(n) \in Seq(1 .. MaxTokens) /\ Len(Fresh(n)) = n
           /\ next' \in 1 .. MaxTokens + 1 /\ meta'.previous # 0
<1>1. PICK m : m = [meta EXCEPT !.add = n]
  OBVIOUS
<1>2. /\ next + n - 1 <= MaxTokens /\ cache' = Attention(m, Fresh(n)) /\ option' = option
      /\ Synced(meta', m, remove, reserve)
      /\ hist' = keep \o Fresh(n) /\ next' = next + n
  BY <1>1 DEF Forward, Synced
<1>3. /\ n \in Nat \ {0} /\ Fresh(n) \in Seq(1 .. MaxTokens) /\ Fresh(n) \in Seq(Int)
      /\ Len(Fresh(n)) = n /\ next + n \in 1 .. MaxTokens + 1
  BY <1>2, FreshFacts
<1>4. IsMeta(meta) /\ Typed(cache) /\ keep \in Seq(1 .. MaxTokens) /\ Len(keep) <= Left(meta)
  BY DEF TypeInv, LengthInv
<1>5. IsMeta(m) /\ m.add = n /\ Left(m) = Left(meta)
  BY <1>1, <1>3, <1>4, AddFacts
<1>6. /\ DOMAIN meta' = {"previous", "remove", "reserve", "add"}
      /\ meta'.previous = Left(meta) + n /\ meta'.remove = remove /\ meta'.reserve = reserve
      /\ meta'.add = 0
  BY <1>2, <1>5, SyncFacts
<1>7. PICK left \in Nat : left = Left(meta)
  BY <1>4, LeftFacts
<1>8. meta'.previous \in Nat /\ remove \in 0 .. meta'.previous /\ meta'.previous # 0
  BY <1>3, <1>6, <1>7
<1>9. IsMeta(meta')
  BY <1>6, <1>8 DEF IsMeta
<1>10. Typed(cache')
  BY <1>2, <1>3, <1>4, <1>5, AttentionTyped
<1>11. hist' \in Seq(1 .. MaxTokens) /\ Len(hist') = Len(keep) + n
  <2>1. PICK new \in Seq(1 .. MaxTokens) : new = Fresh(n)
    BY <1>3
  <2>2. keep \o new \in Seq(1 .. MaxTokens) /\ Len(keep \o new) = Len(keep) + Len(new)
    BY <1>4, ConcatProperties
  <2> QED
    BY <1>2, <1>3, <2>1, <2>2
<1>12. Len(hist') <= meta'.previous
  BY <1>3, <1>4, <1>6, <1>7, <1>11
<1> QED
  BY <1>2, <1>3, <1>6, <1>8, <1>9, <1>10, <1>11, <1>12

\* A pass from the contract, or from nothing, leaves a good cache of the right length.
LEMMA ForwardHolds ==
    ASSUME IInv, NEW n \in AddSizes, NEW remove \in 0 .. n,
           NEW reserve \in Seq(Nat \X Nat), Forward(n, remove, reserve), SoundAfterForward
    PROVE  /\ Good(cache', hist') /\ meta'.previous = Len(hist') /\ cache'.mPastLength = Len(hist')
           /\ all_seq_len = Len(keep)
<1>1. PICK m : m = [meta EXCEPT !.add = n]
  OBVIOUS
<1>2. /\ next + n - 1 <= MaxTokens /\ cache' = Attention(m, Fresh(n))
  BY <1>1 DEF Forward
<1>3. /\ n \in Nat \ {0} /\ Fresh(n) \in Seq(Int) /\ Len(Fresh(n)) = n /\ Fresh(n) # << >>
  BY <1>2, FreshFacts DEF IInv
<1>4. /\ hist' = keep \o Fresh(n) /\ Len(hist') = Len(keep) + n /\ meta'.previous = Left(meta) + n
  BY ForwardTypes DEF IInv
<1>5. /\ IsMeta(meta) /\ Typed(cache) /\ keep \in Seq(1 .. MaxTokens) /\ hist \in Seq(1 .. MaxTokens)
      /\ Len(keep) <= Left(meta)
  BY DEF IInv, TypeInv, LengthInv
<1>6. /\ IsMeta(m) /\ m.add = n /\ m.previous = meta.previous /\ m.remove = meta.remove
      /\ m.reserve = meta.reserve
  BY <1>1, <1>3, <1>5, AddFacts
<1>7. Passes(m, hist, keep) /\ Len(keep) = Left(meta) /\ all_seq_len = Len(keep)
  <2>1. CASE meta.previous = meta.remove
    <3>1. meta.reserve = << >>
      BY <2>1 DEF SoundAfterForward
    <3>2. Left(meta) = 0
      <4>1. meta.remove - meta.remove = 0
        BY <1>5 DEF IsMeta
      <4> QED
        BY <1>5, <2>1, <3>1, <4>1, LeftFacts
    <3>3. keep = << >> /\ Len(keep) = 0
      BY <1>5, <3>2
    <3>4. all_seq_len = 0
      BY <2>1, <3>1 DEF IInv, LengthInv
    <3> QED
      BY <1>6, <2>1, <3>2, <3>3, <3>4 DEF Passes
  <2>2. CASE meta.previous # meta.remove
    <3>1. sound
      BY <2>2 DEF SoundAfterForward
    <3>2. /\ meta.previous = Len(hist) /\ (meta.previous # 0 => Good(cache, hist))
          /\ all_seq_len = Len(keep)
          /\ Kept(hist, keep, meta.previous - meta.remove, meta.reserve)
          /\ (meta.reserve # << >> => MoveSupported)
      BY <3>1 DEF IInv, SoundInv
    <3>3. meta.previous # 0
      BY <1>5, <2>2 DEF IsMeta
    <3>4. Len(keep) = Left(meta)
      BY <3>2 DEF Kept, Left
    <3>5. Len(hist) \in Nat
      BY <1>5
    <3> QED
      BY <1>6, <2>2, <3>2, <3>3, <3>4, <3>5 DEF Passes
  <2> QED
    BY <2>1, <2>2
<1>8. keep \in Seq(Int)
  <2>1. \A i \in 1 .. Len(keep) : keep[i] \in Int
    BY <1>5, Consts
  <2> QED
    BY <1>5, <2>1
<1>9. Good(cache', hist')
  BY <1>2, <1>3, <1>4, <1>6, <1>7, <1>8, AttentionHolds
<1> QED
  BY <1>4, <1>7, <1>9 DEF Good

\* The mode does not change, so neither do the layouts.
LEMMA SameMode ==
    ASSUME option' = option
    PROVE  /\ mKeyQuantMode' = mKeyQuantMode /\ mValueQuantMode' = mValueQuantMode
           /\ (mUseFlashAttention' <=> mUseFlashAttention) /\ (MoveSupported' <=> MoveSupported)
           /\ (ValuesRight' <=> ValuesRight)
<1>1. mUseFlashAttention' <=> mUseFlashAttention
  BY DEF mUseFlashAttention
<1>2. mKeyQuantMode' = mKeyQuantMode
  BY DEF mKeyQuantMode
<1>3. mValueQuantMode' = mValueQuantMode
  BY <1>1 DEF mValueQuantMode
<1> QED
  BY <1>1, <1>2, <1>3 DEF MoveSupported, ValuesRight

\* A good cache is good in the next state.
LEMMA GoodPrime ==
    ASSUME option' = option, Good(cache', hist')
    PROVE  Good(cache, hist)'
<1>1. /\ mKeyQuantMode' = mKeyQuantMode /\ mValueQuantMode' = mValueQuantMode
      /\ (mUseFlashAttention' <=> mUseFlashAttention) /\ (ValuesRight' <=> ValuesRight)
  BY SameMode
<1>2. UpperKv(cache.mMaxLength)' = UpperKv(cache'.mMaxLength)
  BY <1>1 DEF UpperKv
<1>3. KeySize(cache.mMaxLength)' = KeySize(cache'.mMaxLength)
  BY <1>1 DEF KeySize
<1>4. ValueSize(cache.mMaxLength, cache.upper)' = ValueSize(cache'.mMaxLength, cache'.upper)
  BY <1>1 DEF ValueSize
<1>5. Shaped(cache)'
  BY <1>2, <1>3, <1>4 DEF Good, Shaped
<1>6. Clean(cache)'
  BY <1>1 DEF Good, Clean
<1>7. KeyPlace' = KeyPlace
  BY <1>1 DEF KeyPlace, KeyCell
<1>8. ValuePlace(cache.upper)' = ValuePlace(cache'.upper)
  BY <1>1 DEF ValuePlace, ValueCell, ValueCellIn
<1>9. Holds(cache, 0, Len(hist), hist)'
  <2>1. HoldsKeys(cache, 0, Len(hist), hist)'
    BY <1>7 DEF Good, Holds, HoldsKeys
  <2>2. ValuesRight => HoldsValues(cache, 0, Len(hist), hist)'
    BY <1>8 DEF Good, Holds, HoldsValues
  <2> QED
    BY <1>1, <2>1, <2>2 DEF Holds
<1> QED
  BY <1>5, <1>6, <1>9 DEF Good

\* SoundInv in the next state, in terms of this one's mode.
LEMMA SoundNext ==
    ASSUME option' = option,
           sound' => /\ meta'.previous = Len(hist') /\ cache'.mPastLength = Len(hist')
                     /\ meta'.previous # 0 => Good(cache', hist')
                     /\ all_seq_len' = Len(keep')
                     /\ Kept(hist', keep', meta'.previous - meta'.remove, meta'.reserve)
                     /\ meta'.reserve # << >> => MoveSupported
    PROVE  SoundInv'
  BY GoodPrime, SameMode DEF SoundInv

\* TypeInv and LengthInv in the next state.
LEMMA TypeNext ==
    ASSUME TypeInv, option' = option, IsMeta(meta'), Typed(cache'), all_seq_len' \in Nat,
           hist' \in Seq(1 .. MaxTokens), keep' \in Seq(1 .. MaxTokens),
           next' \in 1 .. MaxTokens + 1, sound' \in BOOLEAN,
           Len(hist') <= meta'.previous, Len(keep') <= Left(meta'),
           meta'.previous = meta'.remove /\ meta'.reserve = << >> => all_seq_len' = 0
    PROVE  TypeInv' /\ LengthInv'
  BY DEF TypeInv, LengthInv

\* With no reserve, a prefix stays.
LEMMA KeptPrefix ==
    ASSUME NEW h, NEW T, NEW start \in 0 .. Len(h), Len(T) = start, \A i \in 1 .. start : T[i] = h[i],
           Len(h) \in Nat
    PROVE  Kept(h, T, start, << >>)
<1>1. Sums(<< >>)[Len(<< >>)] = 0 /\ \A j \in 1 .. Len(<< >>) : FALSE
  BY SumsNothing
<1>2. Len(T) = start + Sums(<< >>)[Len(<< >>)]
  BY <1>1
<1> QED
  BY <1>1, <1>2 DEF Kept

\* What SoundAfterForward says is true or false.
LEMMA SoundBoolean ==
    ASSUME TypeInv
    PROVE  SoundAfterForward \in BOOLEAN
  BY DEF SoundAfterForward, TypeInv

\* A pass for a prompt or for one token.
LEMMA GenerateHolds ==
    ASSUME IInv, NEW n \in AddSizes, Generate(n)
    PROVE  IInv'
<1>1. /\ Forward(n, 0, << >>) /\ keep' = hist' /\ all_seq_len' = all_seq_len + n
      /\ sound' = SoundAfterForward
  BY DEF Generate
<1>2. TypeInv /\ LengthInv /\ n \in Nat /\ 0 \in 0 .. n /\ << >> \in Seq(Nat \X Nat)
  BY Consts DEF IInv
<1>3. /\ option' = option /\ IsMeta(meta') /\ Typed(cache') /\ n \in Nat \ {0}
      /\ meta'.remove = 0 /\ meta'.reserve = << >>
      /\ hist' \in Seq(1 .. MaxTokens) /\ Len(hist') = Len(keep) + n /\ Len(hist') <= meta'.previous
      /\ next' \in 1 .. MaxTokens + 1 /\ meta'.previous # 0
  BY <1>1, <1>2, ForwardTypes
<1>4. Left(meta') = meta'.previous /\ meta'.previous - meta'.remove = meta'.previous
  <2>1. PICK p \in Nat : p = meta'.previous
    BY <1>3 DEF IsMeta
  <2>2. p - 0 = p
    OBVIOUS
  <2> QED
    BY <1>3, <2>1, <2>2, LeftFacts
<1>5. all_seq_len' \in Nat /\ sound' \in BOOLEAN
  BY <1>1, <1>2, SoundBoolean DEF TypeInv
<1>6. TypeInv' /\ LengthInv'
  BY <1>1, <1>2, <1>3, <1>4, <1>5, TypeNext
<1>7. ASSUME sound'
      PROVE  /\ meta'.previous = Len(hist') /\ cache'.mPastLength = Len(hist')
             /\ Good(cache', hist') /\ all_seq_len' = Len(keep')
             /\ Kept(hist', keep', meta'.previous - meta'.remove, meta'.reserve)
  <2>1. /\ Good(cache', hist') /\ meta'.previous = Len(hist') /\ cache'.mPastLength = Len(hist')
        /\ all_seq_len = Len(keep)
    BY <1>1, <1>2, <1>7, ForwardHolds
  <2>2. Kept(hist', keep', Len(hist'), << >>)
    BY <1>1, <1>3, KeptPrefix
  <2> QED
    BY <1>1, <1>3, <1>4, <2>1, <2>2
<1>8. SoundInv'
  BY <1>3, <1>7, SoundNext
<1> QED
  BY <1>6, <1>8 DEF IInv

\* A pass that fails, before or after this layer.
LEMMA GenerateFailsHolds ==
    ASSUME IInv, NEW n \in AddSizes, NEW ran \in BOOLEAN, GenerateFails(n, ran)
    PROVE  IInv'
<1>1. PICK m : m = [meta EXCEPT !.add = n]
  OBVIOUS
<1>2. /\ next + n - 1 <= MaxTokens /\ meta' = m
      /\ next' = (IF ran THEN next + n ELSE next)
      /\ cache' = (IF ran THEN Attention(m, Fresh(n)) ELSE cache)
      /\ sound' = (sound /\ ~ran) /\ option' = option /\ all_seq_len' = all_seq_len
      /\ hist' = hist /\ keep' = keep
  BY <1>1 DEF GenerateFails
<1>3. TypeInv /\ LengthInv /\ SoundInv /\ IsMeta(meta) /\ Typed(cache)
  BY DEF IInv, TypeInv
<1>4. /\ n \in Nat \ {0} /\ Fresh(n) \in Seq(Int) /\ next + n \in 1 .. MaxTokens + 1
  BY <1>2, <1>3, FreshFacts
<1>5. /\ IsMeta(m) /\ m.previous = meta.previous /\ m.remove = meta.remove
      /\ m.reserve = meta.reserve /\ Left(m) = Left(meta)
  BY <1>1, <1>3, <1>4, AddFacts
<1>6. Typed(cache')
  <2>1. Typed(Attention(m, Fresh(n)))
    BY <1>3, <1>4, <1>5, AttentionTyped
  <2> QED
    BY <1>2, <1>3, <2>1
<1>7. next' \in 1 .. MaxTokens + 1 /\ sound' \in BOOLEAN
  BY <1>2, <1>3, <1>4 DEF TypeInv
<1>8. TypeInv' /\ LengthInv'
  BY <1>2, <1>3, <1>5, <1>6, <1>7, TypeNext DEF TypeInv, LengthInv
<1>9. SoundInv'
  <2>1. sound' => cache' = cache /\ sound
    BY <1>2, <1>3 DEF TypeInv
  <2> QED
    BY <1>2, <1>3, <1>5, <2>1, SoundNext DEF SoundInv
<1> QED
  BY <1>8, <1>9 DEF IInv

\* A pass for drafts of which the first i are accepted.
LEMMA DraftVerifyHolds ==
    ASSUME IInv, NEW n \in AddSizes, NEW i \in 1 .. n, DraftVerify(n, i)
    PROVE  IInv'
<1>0. n \in Nat \ {0} /\ i \in Nat \ {0}
  BY Consts
<1>1. /\ i < n /\ Forward(n, n - i, << >>) /\ keep' = SubSeq(hist', 1, Len(hist') - (n - i))
      /\ all_seq_len' = all_seq_len + i /\ sound' = SoundAfterForward
  BY DEF DraftVerify
<1>2. /\ TypeInv /\ LengthInv /\ n - i \in 0 .. n /\ << >> \in Seq(Nat \X Nat)
      /\ keep \in Seq(1 .. MaxTokens)
  BY <1>0, <1>1 DEF IInv, TypeInv
<1>3. /\ option' = option /\ IsMeta(meta') /\ Typed(cache')
      /\ meta'.previous = Left(meta) + n /\ meta'.remove = n - i /\ meta'.reserve = << >>
      /\ hist' \in Seq(1 .. MaxTokens) /\ Len(hist') = Len(keep) + n /\ Len(hist') <= meta'.previous
      /\ next' \in 1 .. MaxTokens + 1
  BY <1>1, <1>2, ForwardTypes
<1>k. PICK k \in Nat : k = Len(keep) + i
  BY <1>0, <1>2
<1>4. k \in 0 .. Len(hist') /\ Len(hist') - (n - i) = k /\ Len(hist') \in Nat
  BY <1>0, <1>1, <1>2, <1>3, <1>k
<1>5. /\ keep' \in Seq(1 .. MaxTokens) /\ Len(keep') = k /\ \A j \in 1 .. k : keep'[j] = hist'[j]
  <2>1. keep' = SubSeq(hist', 1, k)
    BY <1>1, <1>4
  <2>2. \A j \in 1 .. k : hist'[j] \in 1 .. MaxTokens
    <3>1. hist' \in Seq(1 .. MaxTokens)
      BY <1>3
    <3>2. \A j \in 1 .. k : j \in 1 .. Len(hist')
      BY <1>4
    <3> QED
      BY <3>1, <3>2, ElementOfSeq
  <2>3. /\ SubSeq(hist', 1, k) \in Seq(1 .. MaxTokens)
        /\ Len(SubSeq(hist', 1, k)) = IF 1 <= k THEN k - 1 + 1 ELSE 0
        /\ \A j \in 1 .. k - 1 + 1 : SubSeq(hist', 1, k)[j] = hist'[1 + j - 1]
    BY <2>2, SubSeqProperties
  <2>4. k - 1 + 1 = k /\ \A j \in 1 .. k : 1 + j - 1 = j
    OBVIOUS
  <2> QED
    BY <2>1, <2>3, <2>4
<1>6. /\ Left(meta') = meta'.previous - (n - i) /\ k <= Left(meta')
      /\ meta'.previous # meta'.remove /\ meta'.previous - meta'.remove = Left(meta')
  <2>1. PICK left \in Nat : left = Left(meta)
    BY <1>2, LeftFacts DEF TypeInv
  <2>2. Left(meta') = meta'.previous - meta'.remove
    BY <1>3, LeftFacts
  <2>3. Left(meta') = (left + n) - (n - i) /\ Len(keep) <= left
    BY <1>2, <1>3, <2>1, <2>2 DEF LengthInv
  <2>4. (left + n) - (n - i) = left + i /\ left + n # n - i
    BY <1>0
  <2>5. Len(keep) \in Nat
    BY <1>2
  <2> QED
    BY <1>0, <1>3, <1>k, <2>1, <2>2, <2>3, <2>4, <2>5
<1>7. all_seq_len' \in Nat /\ sound' \in BOOLEAN
  BY <1>0, <1>1, <1>2, SoundBoolean DEF TypeInv
<1>8. TypeInv' /\ LengthInv'
  BY <1>2, <1>3, <1>5, <1>6, <1>7, TypeNext
<1>9. ASSUME sound'
      PROVE  /\ meta'.previous = Len(hist') /\ cache'.mPastLength = Len(hist')
             /\ Good(cache', hist') /\ all_seq_len' = Len(keep')
             /\ Kept(hist', keep', meta'.previous - meta'.remove, meta'.reserve)
  <2>1. /\ Good(cache', hist') /\ meta'.previous = Len(hist') /\ cache'.mPastLength = Len(hist')
        /\ all_seq_len = Len(keep)
    BY <1>1, <1>2, <1>9, ForwardHolds
  <2>2. Kept(hist', keep', k, << >>)
    BY <1>4, <1>5, KeptPrefix
  <2>3. meta'.previous - meta'.remove = k
    BY <1>3, <1>4, <2>1
  <2>4. all_seq_len' = k
    BY <1>1, <1>k, <2>1
  <2> QED
    BY <1>3, <1>5, <2>1, <2>2, <2>3, <2>4
<1>10. SoundInv'
  BY <1>3, <1>9, SoundNext
<1> QED
  BY <1>8, <1>10 DEF IInv

\* The whole history is erased.
LEMMA ResetHolds ==
    ASSUME IInv, Reset
    PROVE  IInv'
<1>1. /\ meta' = [meta EXCEPT !.remove = meta.previous] /\ all_seq_len' = 0 /\ keep' = << >>
      /\ sound' = (sound /\ meta.reserve = << >>)
      /\ option' = option /\ cache' = cache /\ hist' = hist /\ next' = next
  BY DEF Reset
<1>2. TypeInv /\ LengthInv /\ SoundInv /\ IsMeta(meta)
  BY DEF IInv, TypeInv
<1>3. /\ DOMAIN meta' = DOMAIN meta /\ meta'.previous = meta.previous /\ meta'.remove = meta.previous
      /\ meta'.reserve = meta.reserve /\ meta'.add = meta.add
  BY <1>1, <1>2 DEF IsMeta
<1>4. IsMeta(meta') /\ meta'.previous - meta'.remove = 0
  BY <1>2, <1>3 DEF IsMeta
<1>5. Left(meta') \in Nat /\ Len(<< >>) = 0 /\ << >> \in Seq(1 .. MaxTokens)
  BY <1>4, LeftFacts
<1>6. sound' \in BOOLEAN
  BY <1>1, <1>2 DEF TypeInv
<1>7. TypeInv' /\ LengthInv'
  <2>1. Len(keep') <= Left(meta')
    BY <1>1, <1>5
  <2>2. /\ Typed(cache') /\ all_seq_len' \in Nat /\ hist' \in Seq(1 .. MaxTokens)
        /\ keep' \in Seq(1 .. MaxTokens) /\ next' \in 1 .. MaxTokens + 1
        /\ Len(hist') <= meta'.previous
    BY <1>1, <1>2, <1>3, <1>5 DEF TypeInv, LengthInv
  <2> QED
    BY <1>1, <1>2, <1>4, <1>6, <2>1, <2>2, TypeNext
<1>8. Kept(hist, << >>, 0, << >>)
  <2>1. Len(hist) \in Nat /\ 0 \in 0 .. Len(hist)
    BY <1>2 DEF TypeInv
  <2> QED
    BY <1>5, <2>1, KeptPrefix
<1>9. ASSUME sound'
      PROVE  /\ meta'.previous = Len(hist') /\ cache'.mPastLength = Len(hist')
             /\ (meta'.previous # 0 => Good(cache', hist')) /\ all_seq_len' = Len(keep')
             /\ Kept(hist', keep', meta'.previous - meta'.remove, meta'.reserve)
             /\ meta'.reserve = << >>
  <2>1. sound /\ meta.reserve = << >>
    BY <1>1, <1>9
  <2> QED
    BY <1>1, <1>2, <1>3, <1>4, <1>5, <1>8, <2>1 DEF SoundInv
<1>10. SoundInv'
  BY <1>1, <1>9, SoundNext
<1> QED
  BY <1>7, <1>10 DEF IInv

\* The end of tuning withdraws a reserve.
LEMMA TuneEndHolds ==
    ASSUME IInv, TuneEnd
    PROVE  IInv'
<1>1. /\ meta' = [meta EXCEPT !.remove = meta.previous, !.reserve = << >>, !.add = 0]
      /\ all_seq_len' = 0 /\ keep' = << >> /\ sound' = sound
      /\ option' = option /\ cache' = cache /\ hist' = hist /\ next' = next
  BY DEF TuneEnd
<1>2. TypeInv /\ LengthInv /\ SoundInv /\ IsMeta(meta)
  BY DEF IInv, TypeInv
<1>3. /\ DOMAIN meta' = DOMAIN meta /\ meta'.previous = meta.previous /\ meta'.remove = meta.previous
      /\ meta'.reserve = << >> /\ meta'.add = 0
  BY <1>1, <1>2 DEF IsMeta
<1>4. IsMeta(meta') /\ meta'.previous - meta'.remove = 0
  BY <1>2, <1>3 DEF IsMeta
<1>5. Left(meta') \in Nat /\ Len(<< >>) = 0 /\ << >> \in Seq(1 .. MaxTokens)
  BY <1>4, LeftFacts
<1>7. TypeInv' /\ LengthInv'
  <2>1. Len(keep') <= Left(meta')
    BY <1>1, <1>5
  <2>2. /\ Typed(cache') /\ all_seq_len' \in Nat /\ hist' \in Seq(1 .. MaxTokens)
        /\ keep' \in Seq(1 .. MaxTokens) /\ next' \in 1 .. MaxTokens + 1
        /\ Len(hist') <= meta'.previous /\ sound' \in BOOLEAN
    BY <1>1, <1>2, <1>3, <1>5 DEF TypeInv, LengthInv
  <2> QED
    BY <1>1, <1>2, <1>4, <2>1, <2>2, TypeNext
<1>8. Kept(hist, << >>, 0, << >>)
  <2>1. Len(hist) \in Nat /\ 0 \in 0 .. Len(hist)
    BY <1>2 DEF TypeInv
  <2> QED
    BY <1>5, <2>1, KeptPrefix
<1>9. ASSUME sound'
      PROVE  /\ meta'.previous = Len(hist') /\ cache'.mPastLength = Len(hist')
             /\ (meta'.previous # 0 => Good(cache', hist')) /\ all_seq_len' = Len(keep')
             /\ Kept(hist', keep', meta'.previous - meta'.remove, meta'.reserve)
             /\ meta'.reserve = << >>
  BY <1>1, <1>2, <1>3, <1>4, <1>5, <1>8, <1>9 DEF SoundInv
<1>10. SoundInv'
  BY <1>1, <1>9, SoundNext
<1> QED
  BY <1>7, <1>10 DEF IInv

\* The smaller of two numbers.
LEMMA MinOfTwo ==
    ASSUME NEW a \in Nat, NEW b \in Nat
    PROVE  Min({a, b}) = IF a <= b THEN a ELSE b
<1>1. PICK w : w = IF a <= b THEN a ELSE b
  OBVIOUS
<1>2. w \in {a, b} /\ \A y \in {a, b} : w <= y
  BY <1>1
<1>3. \A x \in {a, b} : (\A y \in {a, b} : x <= y) => x = w
  BY <1>1
<1>4. Min({a, b}) = w
  BY <1>2, <1>3 DEF Min
<1> QED
  BY <1>1, <1>4

\* T is what an erased range leaves of h, which has at most `tail` tokens behind it.
Erased(T, h, S, begin, end, tail) ==
    /\ h \in Seq(S) /\ begin \in Nat /\ end \in Nat /\ tail \in Nat
    /\ begin < end /\ Len(h) <= end + tail
    /\ T = SubSeq(h, 1, Min({begin, Len(h)})) \o SubSeq(h, end + 1, Len(h))

\* It is the beginning and the tokens behind the range.
TwoParts(T, h, begin, end, tail) ==
    /\ Len(T) <= begin + tail
    /\ Len(h) = end + tail => /\ Len(T) = begin + tail
                              /\ \A i \in 1 .. begin : T[i] = h[i]
                              /\ \A i \in 1 .. tail : T[begin + i] = h[end + i]

\* So it is.
LEMMA EraseText ==
    ASSUME NEW S, NEW h, NEW begin, NEW end, NEW T, NEW tail, Erased(T, h, S, begin, end, tail)
    PROVE  T \in Seq(S) /\ TwoParts(T, h, begin, end, tail)
<1>0. /\ h \in Seq(S) /\ begin \in Nat /\ end \in Nat /\ tail \in Nat
      /\ begin < end /\ Len(h) <= end + tail
  BY DEF Erased
<1> USE <1>0
<1>L. PICK L \in Nat : L = Len(h) /\ L <= end + tail
  OBVIOUS
<1>h. \A i \in 1 .. L : h[i] \in S
  BY <1>L
<1>a. PICK a \in Nat : a = IF begin <= L THEN begin ELSE L
  OBVIOUS
<1>b. PICK b \in Nat : b = IF end <= L THEN L - end ELSE 0
  <2>1. (IF end <= L THEN L - end ELSE 0) \in Nat
    OBVIOUS
  <2> QED
    BY <2>1
<1>c. a <= L /\ (end <= L => a = begin /\ b = L - end)
  BY <1>a, <1>b
<1>1. PICK p : p = SubSeq(h, 1, a)
  OBVIOUS
<1>2. PICK q : q = SubSeq(h, end + 1, L)
  OBVIOUS
<1>3. T = p \o q
  BY <1>L, <1>a, <1>1, <1>2, MinOfTwo DEF Erased
<1>4. p \in Seq(S) /\ Len(p) = a /\ \A i \in 1 .. a : p[i] = h[i]
  <2>1. \A i \in 1 .. a : h[i] \in S
    BY <1>h, <1>c
  <2>2. /\ SubSeq(h, 1, a) \in Seq(S) /\ Len(SubSeq(h, 1, a)) = IF 1 <= a THEN a - 1 + 1 ELSE 0
        /\ \A i \in 1 .. a - 1 + 1 : SubSeq(h, 1, a)[i] = h[1 + i - 1]
    BY <2>1, SubSeqProperties
  <2>3. a - 1 + 1 = a /\ \A i \in 1 .. a : 1 + i - 1 = i
    OBVIOUS
  <2> QED
    BY <1>1, <2>2, <2>3
<1>5. q \in Seq(S) /\ Len(q) = b /\ (end <= L => \A i \in 1 .. b : q[i] = h[end + i])
  <2>1. \A i \in end + 1 .. L : h[i] \in S
    BY <1>h
  <2>2. /\ SubSeq(h, end + 1, L) \in Seq(S)
        /\ Len(SubSeq(h, end + 1, L)) = IF end + 1 <= L THEN L - (end + 1) + 1 ELSE 0
        /\ \A i \in 1 .. L - (end + 1) + 1 : SubSeq(h, end + 1, L)[i] = h[(end + 1) + i - 1]
    <3>1. PICK m \in Int : m = end + 1
      OBVIOUS
    <3>2. \A i \in m .. L : h[i] \in S
      BY <2>1, <3>1
    <3>3. /\ SubSeq(h, m, L) \in Seq(S)
          /\ Len(SubSeq(h, m, L)) = IF m <= L THEN L - m + 1 ELSE 0
          /\ \A i \in 1 .. L - m + 1 : SubSeq(h, m, L)[i] = h[m + i - 1]
      BY <3>2, SubSeqProperties
    <3> QED
      BY <3>1, <3>3
  <2>3. /\ b = IF end + 1 <= L THEN L - (end + 1) + 1 ELSE 0
        /\ (end <= L => b = L - (end + 1) + 1)
        /\ \A i \in 1 .. b : (end + 1) + i - 1 = end + i
    BY <1>b
  <2> QED
    BY <1>2, <2>2, <2>3
<1>6. /\ T \in Seq(S) /\ Len(T) = a + b
      /\ \A i \in 1 .. a + b : T[i] = IF i <= a THEN p[i] ELSE q[i - a]
  <2>1. p \in Seq(S) /\ q \in Seq(S) /\ Len(p) = a /\ Len(q) = b
    BY <1>4, <1>5
  <2>2. /\ p \o q \in Seq(S) /\ Len(p \o q) = Len(p) + Len(q)
        /\ \A i \in 1 .. Len(p) + Len(q) : (p \o q)[i] = IF i <= Len(p) THEN p[i] ELSE q[i - Len(p)]
    BY <2>1, ConcatProperties
  <2> QED
    BY <1>3, <2>1, <2>2, Zenon
<1>7. Len(T) <= begin + tail
  <2>1. a <= begin
    BY <1>a
  <2>2. b <= tail
    BY <1>L, <1>b
  <2> QED
    BY <1>6, <2>1, <2>2
<1>8. ASSUME L = end + tail
      PROVE  /\ Len(T) = begin + tail /\ \A i \in 1 .. begin : T[i] = h[i]
             /\ \A i \in 1 .. tail : T[begin + i] = h[end + i]
  <2>1. a = begin /\ b = tail /\ end <= L
    BY <1>c, <1>8
  <2>2. ASSUME NEW i \in 1 .. begin PROVE T[i] = h[i]
    <3>1. i \in 1 .. a + b /\ i <= a /\ i \in 1 .. a
      BY <2>1
    <3> QED
      BY <1>4, <1>6, <3>1
  <2>3. ASSUME NEW i \in 1 .. tail PROVE T[begin + i] = h[end + i]
    <3>1. a + i \in 1 .. a + b /\ ~(a + i <= a) /\ (a + i) - a = i /\ i \in 1 .. b
      BY <2>1
    <3>2. T[a + i] = q[(a + i) - a]
      BY <1>6, <3>1
    <3> QED
      BY <1>5, <2>1, <3>1, <3>2
  <2> QED
    BY <1>6, <2>1, <2>2, <2>3
<1> QED
  BY <1>L, <1>6, <1>7, <1>8 DEF TwoParts

\* The sum of one entry.
LEMMA SumsOne ==
    ASSUME NEW b \in Nat, NEW n \in Nat
    PROVE  /\ <<<<b, n>>>> \in Seq(Nat \X Nat) /\ Len(<<<<b, n>>>>) = 1 /\ <<<<b, n>>>> # << >>
           /\ Sums(<<<<b, n>>>>)[0] = 0 /\ Sums(<<<<b, n>>>>)[1] = n
<1>1. PICK res : res = <<<<b, n>>>>
  OBVIOUS
<1>2. res \in Seq(Nat \X Nat) /\ Len(res) = 1 /\ res[1] = <<b, n>> /\ res[1][2] = n /\ res # << >>
  BY <1>1
<1>3. /\ Sums(res)[0] = 0 /\ \A k \in 1 .. Len(res) : Sums(res)[k] = Sums(res)[k - 1] + res[k][2]
  BY <1>2, SumsFacts
<1>4. Sums(res)[1] = Sums(res)[1 - 1] + res[1][2] /\ 1 - 1 = 0
  BY <1>2, <1>3
<1>5. Sums(res)[1] = n
  BY <1>2, <1>3, <1>4
<1> QED
  BY <1>1, <1>2, <1>3, <1>5

\* With one entry, a prefix stays and a range behind it.
LEMMA KeptOne ==
    ASSUME NEW h, Len(h) \in Nat, NEW T, NEW start \in Nat, NEW b \in Nat, NEW n \in Nat,
           start + b + n <= Len(h), Len(T) = start + n, \A i \in 1 .. start : T[i] = h[i],
           \A i \in 1 .. n : T[start + i] = h[start + b + i]
    PROVE  Kept(h, T, start, <<<<b, n>>>>)
<1>1. PICK res : res = <<<<b, n>>>>
  OBVIOUS
<1>2. /\ Len(res) = 1 /\ Sums(res)[0] = 0 /\ Sums(res)[1] = n
      /\ res[1][1] = b /\ res[1][2] = n
  BY <1>1, SumsOne
<1>3. start \in 0 .. Len(h) /\ Len(T) = start + Sums(res)[Len(res)]
  BY <1>2
<1>4. ASSUME NEW j \in 1 .. Len(res)
      PROVE  /\ Sums(res)[j - 1] <= res[j][1] /\ start + res[j][1] + res[j][2] <= Len(h)
             /\ \A i \in 1 .. res[j][2] : T[start + Sums(res)[j - 1] + i] = h[start + res[j][1] + i]
  <2>1. j = 1 /\ j - 1 = 0
    BY <1>2
  <2>2. 0 <= b /\ start + b + n <= Len(h) /\ \A i \in 1 .. n : T[(start + 0) + i] = h[start + b + i]
    OBVIOUS
  <2> QED
    BY <1>2, <2>1, <2>2, Zenon
<1>5. Kept(h, T, start, res)
  BY <1>3, <1>4 DEF Kept
<1> QED
  BY <1>1, <1>5

\* A range of the history is erased.
LEMMA EraseHolds ==
    ASSUME IInv, NEW begin \in 0 .. meta.previous, NEW end \in 0 .. meta.previous,
           EraseHistory(begin, end)
    PROVE  IInv'
<1>0. TypeInv /\ LengthInv /\ SoundInv /\ IsMeta(meta) /\ hist \in Seq(1 .. MaxTokens)
  BY DEF IInv, TypeInv
<1>p. PICK prev \in Nat : prev = meta.previous
  BY <1>0 DEF IsMeta
<1>t. PICK tail \in Nat : tail = prev - end /\ end <= prev
  <2>1. prev - end \in Nat /\ end <= prev
    BY <1>p
  <2> QED
    BY <2>1
<1>b. begin \in Nat /\ end \in Nat /\ begin <= prev
  BY <1>p
<1>L. PICK L \in Nat : L = Len(hist)
  BY <1>0
<1>1. /\ begin < end
      /\ all_seq_len' = begin + tail
      /\ sound' = (sound /\ EraseSupported(begin, end))
      /\ option' = option /\ cache' = cache /\ hist' = hist /\ next' = next
  BY <1>p, <1>t DEF EraseHistory
<1>r. PICK res : res = IF tail = 0 THEN meta.reserve ELSE <<<<end - begin, tail>>>>
  OBVIOUS
<1>2. meta' = [meta EXCEPT !.remove = prev - begin, !.reserve = res]
  BY <1>p, <1>t, <1>r DEF EraseHistory
<1>3. keep' = SubSeq(hist, 1, Min({begin, Len(hist)})) \o SubSeq(hist, end + 1, Len(hist))
  BY DEF EraseHistory
<1>4. /\ DOMAIN meta' = DOMAIN meta /\ meta'.previous = prev /\ meta'.remove = prev - begin
      /\ meta'.reserve = res /\ meta'.add = meta.add
  BY <1>0, <1>p, <1>2 DEF IsMeta
<1>g. PICK gap \in Nat : gap = end - begin /\ begin + gap = end
  <2>1. end - begin \in Nat /\ begin + (end - begin) = end
    BY <1>1, <1>b
  <2> QED
    BY <2>1
<1>5. res \in Seq(Nat \X Nat) /\ (tail # 0 => Sums(res)[Len(res)] = tail /\ res # << >>)
  <2>1. CASE tail = 0
    BY <1>0, <1>r, <2>1 DEF IsMeta
  <2>2. CASE tail # 0
    BY <1>r, <1>g, <2>2, SumsOne
  <2> QED
    BY <2>1, <2>2
<1>6. prev - begin \in 0 .. prev /\ prev - (prev - begin) = begin
  BY <1>b
<1>7. IsMeta(meta') /\ meta'.previous - meta'.remove = begin
  BY <1>0, <1>4, <1>5, <1>6 DEF IsMeta
<1>k. PICK k \in Nat : k = Sums(res)[Len(res)]
  BY <1>5, SumsFacts
<1>8. Left(meta') = begin + k /\ tail <= k
  BY <1>4, <1>5, <1>6, <1>k DEF Left
<1>9. L <= end + tail
  BY <1>0, <1>p, <1>t, <1>b, <1>L DEF LengthInv
<1>10. /\ keep' \in Seq(1 .. MaxTokens) /\ Len(keep') <= begin + tail
       /\ L = end + tail => /\ Len(keep') = begin + tail
                            /\ \A i \in 1 .. begin : keep'[i] = hist[i]
                            /\ \A i \in 1 .. tail : keep'[begin + i] = hist[end + i]
  <2>1. Erased(keep', hist, 1 .. MaxTokens, begin, end, tail)
    BY <1>0, <1>1, <1>3, <1>9, <1>b, <1>L DEF Erased
  <2>2. keep' \in Seq(1 .. MaxTokens) /\ TwoParts(keep', hist, begin, end, tail)
    BY <2>1, EraseText, Zenon
  <2> QED
    BY <1>L, <2>2 DEF TwoParts
<1>11. Len(keep') <= Left(meta')
  <2>1. Len(keep') \in Nat
    BY <1>10
  <2> QED
    BY <1>b, <1>8, <1>10, <2>1
<1>12. TypeInv' /\ LengthInv'
  <2>1. /\ Typed(cache') /\ all_seq_len' \in Nat /\ hist' \in Seq(1 .. MaxTokens)
        /\ next' \in 1 .. MaxTokens + 1 /\ Len(hist') <= meta'.previous /\ sound' \in BOOLEAN
    BY <1>0, <1>1, <1>4, <1>b, <1>p DEF TypeInv, LengthInv
  <2>2. meta'.previous = meta'.remove /\ meta'.reserve = << >> => all_seq_len' = 0
    BY <1>1, <1>4, <1>5, <1>b
  <2> QED
    BY <1>0, <1>1, <1>7, <1>10, <1>11, <2>1, <2>2, TypeNext
<1>13. ASSUME sound'
       PROVE  /\ meta'.previous = Len(hist') /\ cache'.mPastLength = Len(hist')
              /\ (meta'.previous # 0 => Good(cache', hist')) /\ all_seq_len' = Len(keep')
              /\ Kept(hist', keep', meta'.previous - meta'.remove, meta'.reserve)
              /\ (meta'.reserve # << >> => MoveSupported)
  <2>1. sound /\ meta.reserve = << >> /\ (end # meta.previous => MoveSupported)
    BY <1>1, <1>13 DEF EraseSupported
  <2>2. /\ prev = L /\ cache.mPastLength = Len(hist) /\ (meta.previous # 0 => Good(cache, hist))
    BY <1>0, <1>p, <1>L, <2>1 DEF SoundInv
  <2>3. /\ Len(keep') = begin + tail /\ \A i \in 1 .. begin : keep'[i] = hist[i]
        /\ \A i \in 1 .. tail : keep'[begin + i] = hist[end + i]
    <3>1. L = end + tail
      BY <1>t, <1>b, <2>2
    <3> QED
      BY <1>10, <3>1
  <2>4. Kept(hist, keep', begin, res) /\ (res # << >> => MoveSupported)
    <3>1. CASE tail = 0
      <4>1. res = << >> /\ Len(keep') = begin /\ begin \in 0 .. Len(hist) /\ Len(hist) \in Nat
        BY <1>r, <1>b, <1>L, <2>1, <2>2, <2>3, <3>1
      <4> QED
        BY <2>3, <4>1, KeptPrefix
    <3>2. CASE tail # 0
      <4>1. res = <<<<gap, tail>>>> /\ Len(hist) \in Nat /\ begin + gap + tail <= Len(hist)
        BY <1>r, <1>g, <1>t, <1>L, <2>2, <3>2
      <4>2. \A i \in 1 .. tail : keep'[begin + i] = hist[begin + gap + i]
        BY <1>g, <2>3
      <4>3. MoveSupported
        BY <1>t, <1>p, <2>1, <3>2
      <4> QED
        BY <1>b, <2>3, <4>1, <4>2, <4>3, KeptOne
    <3> QED
      BY <3>1, <3>2
  <2> QED
    BY <1>1, <1>4, <1>7, <1>p, <1>L, <2>2, <2>3, <2>4
<1>14. SoundInv'
  BY <1>1, <1>13, SoundNext
<1> QED
  BY <1>12, <1>14 DEF IInv

\* A path of k drafts in a tree of n.
Path(path, n, k) ==
    /\ k \in 1 .. n /\ path \in [1 .. k -> 0 .. n - 1]
    /\ \A i, j \in 1 .. k : i < j => path[i] < path[j]

\* The accepted ones are such paths.
LEMMA PathFacts ==
    ASSUME NEW n \in Nat \ {0}, NEW path \in AcceptedPaths(n)
    PROVE  \E k \in Nat : Path(path, n, k) /\ DOMAIN path = 1 .. k /\ Len(path) = k
<1>1. PICK k \in 1 .. n : path \in [1 .. k -> 0 .. n - 1]
  BY DEF AcceptedPaths
<1>2. DOMAIN path = 1 .. k /\ k \in Nat
  BY <1>1
<1>3. \A i, j \in 1 .. k : i < j => path[i] < path[j]
  BY <1>2 DEF AcceptedPaths
<1>4. Path(path, n, k)
  BY <1>1, <1>3 DEF Path
<1>5. Len(path) = k
  BY <1>1, <1>2
<1> QED
  BY <1>2, <1>4, <1>5

\* A draft has at least as many drafts in front of it in the tree as on the path.
LEMMA PathClimbs ==
    ASSUME NEW n \in Nat \ {0}, NEW k \in Nat, NEW path, Path(path, n, k)
    PROVE  \A j \in 1 .. k : path[j] \in 0 .. n - 1 /\ j - 1 <= path[j]
<1>1. /\ \A j \in 1 .. k : path[j] \in 0 .. n - 1
      /\ \A i, j \in 1 .. k : i < j => path[i] < path[j]
  BY DEF Path
<1> DEFINE S == {i \in Nat : i + 1 <= k => i <= path[i + 1]}
<1>2. S \in SUBSET Nat /\ 0 \in S
  BY <1>1
<1>3. ASSUME NEW i \in S PROVE i + 1 \in S
  <2>1. SUFFICES ASSUME (i + 1) + 1 <= k PROVE i + 1 <= path[(i + 1) + 1]
    OBVIOUS
  <2>2. i \in Nat /\ i + 1 \in 1 .. k /\ (i + 1) + 1 \in 1 .. k /\ i + 1 < (i + 1) + 1
    BY <2>1
  <2>3. i <= path[i + 1]
    BY <2>1, <2>2
  <2>4. path[i + 1] < path[(i + 1) + 1] /\ path[i + 1] \in Int /\ path[(i + 1) + 1] \in Int
    BY <1>1, <2>2
  <2> QED
    BY <2>2, <2>3, <2>4
<1>4. Nat \subseteq S
  <2> HIDE DEF S
  <2> QED
    BY <1>2, <1>3, Induction
<1>5. ASSUME NEW j \in 1 .. k PROVE j - 1 <= path[j]
  <2>1. j - 1 \in S /\ (j - 1) + 1 = j
    BY <1>4
  <2> QED
    BY <2>1
<1> QED
  BY <1>1, <1>5

\* The entries that updateDraft notes for a path.
PathReserve(path, k) == [j \in 1 .. k |-> <<path[j], 1>>]

\* Their sums count them.
LEMMA PathSums ==
    ASSUME NEW n \in Nat \ {0}, NEW k \in Nat, NEW path, Path(path, n, k),
           NEW res, res = PathReserve(path, k)
    PROVE  /\ res \in Seq(Nat \X Nat) /\ Len(res) = k /\ res # << >>
           /\ \A j \in 1 .. k : res[j][1] = path[j] /\ res[j][2] = 1
           /\ \A j \in 0 .. k : Sums(res)[j] = j
<1>1. k \in 1 .. n /\ \A j \in 1 .. k : path[j] \in Nat
  BY PathClimbs DEF Path
<1>2. /\ res \in [1 .. k -> Nat \X Nat]
      /\ \A j \in 1 .. k : res[j] = <<path[j], 1>>
  BY <1>1 DEF PathReserve
<1>3. res \in Seq(Nat \X Nat) /\ Len(res) = k /\ res # << >>
  BY <1>1, <1>2
<1>4. \A j \in 1 .. k : res[j][1] = path[j] /\ res[j][2] = 1
  BY <1>2
<1>s. PICK sum : sum = Sums(res)
  OBVIOUS
<1>5. sum[0] = 0 /\ \A j \in 1 .. k : sum[j] = sum[j - 1] + 1
  <2>1. sum[0] = 0 /\ \A j \in 1 .. k : sum[j] = sum[j - 1] + res[j][2]
    BY <1>s, <1>3, SumsFacts
  <2> QED
    BY <1>4, <2>1
<1> DEFINE S == {i \in Nat : i <= k => sum[i] = i}
<1>6. S \in SUBSET Nat /\ 0 \in S
  BY <1>5
<1>7. ASSUME NEW i \in S PROVE i + 1 \in S
  <2>1. SUFFICES ASSUME i + 1 <= k PROVE sum[i + 1] = i + 1
    OBVIOUS
  <2>2. i \in Nat /\ i + 1 \in 1 .. k /\ (i + 1) - 1 = i /\ i <= k
    BY <2>1
  <2>3. sum[i + 1] = sum[(i + 1) - 1] + 1
    BY <1>5, <2>2
  <2>4. sum[i] = i
    BY <2>2
  <2> QED
    BY <2>2, <2>3, <2>4
<1>8. Nat \subseteq S
  <2> HIDE DEF S
  <2> QED
    BY <1>6, <1>7, Induction
<1>9. \A j \in 0 .. k : sum[j] = j
  BY <1>8
<1> QED
  BY <1>s, <1>3, <1>4, <1>9

\* What such a reserve leaves of a text K with the tokens `new` of a pass behind it.
PathText(new, path, k) == [j \in 1 .. k |-> new[path[j] + 1]]

\* It is a text.
LEMMA PathTextFacts ==
    ASSUME NEW S, NEW n \in Nat \ {0}, NEW k \in Nat, NEW path, Path(path, n, k),
           NEW new \in Seq(S), Len(new) = n
    PROVE  /\ PathText(new, path, k) \in Seq(S) /\ Len(PathText(new, path, k)) = k
           /\ \A j \in 1 .. k : PathText(new, path, k)[j] = new[path[j] + 1]
<1>1. \A j \in 1 .. k : path[j] + 1 \in 1 .. Len(new)
  BY PathClimbs
<1>2. \A j \in 1 .. k : new[path[j] + 1] \in S
  BY <1>1
<1>3. PICK t : t = PathText(new, path, k)
  OBVIOUS
<1>4. t \in [1 .. k -> S] /\ \A j \in 1 .. k : t[j] = new[path[j] + 1]
  BY <1>2, <1>3 DEF PathText
<1>5. t \in Seq(S) /\ Len(t) = k
  BY <1>4
<1> QED
  BY <1>3, <1>4, <1>5

\* u is s and behind it t.
Joined(u, s, t, S, L, n) ==
    s \in Seq(S) /\ t \in Seq(S) /\ L = Len(s) /\ n = Len(t) /\ u = s \o t

\* The parts of u at L: s of length L, and t.
Parts(u, s, t, L, n) ==
    /\ Len(u) = L + n /\ \A i \in 1 .. L : u[i] = s[i]
    /\ \A i \in 1 .. n : u[L + i] = t[i]

\* The parts of a concatenation.
LEMMA ConcatParts ==
    ASSUME NEW S, NEW s, NEW t, NEW L \in Nat, NEW n \in Nat, NEW u, Joined(u, s, t, S, L, n)
    PROVE  Parts(u, s, t, L, n)
<1> SUFFICES ASSUME s \in Seq(S), t \in Seq(S), L = Len(s), n = Len(t), u = s \o t
             PROVE  Parts(u, s, t, L, n)
  BY Zenon DEF Joined
<1>1. /\ s \o t \in Seq(S) /\ Len(s \o t) = Len(s) + Len(t)
      /\ \A i \in 1 .. Len(s) + Len(t) : (s \o t)[i] = IF i <= Len(s) THEN s[i] ELSE t[i - Len(s)]
  BY ConcatProperties
<1>2. /\ u \in Seq(S) /\ Len(u) = L + n
      /\ \A i \in 1 .. L + n : u[i] = IF i <= L THEN s[i] ELSE t[i - L]
  BY <1>1, Zenon
<1>3. ASSUME NEW i \in 1 .. L PROVE u[i] = s[i]
  <2>1. i \in 1 .. L + n /\ i <= L
    OBVIOUS
  <2> QED
    BY <1>2, <2>1, Zenon
<1>4. ASSUME NEW i \in 1 .. n PROVE u[L + i] = t[i]
  <2>1. L + i \in 1 .. L + n /\ ~(L + i <= L) /\ (L + i) - L = i
    OBVIOUS
  <2>2. u[L + i] = t[(L + i) - L]
    BY <1>2, <2>1, Zenon
  <2> QED
    BY <2>1, <2>2, Zenon
<1> QED
  BY <1>2, <1>3, <1>4 DEF Parts

\* The reserve describes the accepted drafts.
LEMMA KeptPath ==
    ASSUME NEW S, NEW n \in Nat \ {0}, NEW k \in Nat, NEW path, Path(path, n, k),
           NEW new \in Seq(S), Len(new) = n, NEW K \in Seq(S)
    PROVE  Kept(K \o new, K \o PathText(new, path, k), Len(K), PathReserve(path, k))
<1>1. PICK t \in Seq(S) : t = PathText(new, path, k) /\ Len(t) = k
  BY PathTextFacts
<1>2. \A j \in 1 .. k : t[j] = new[path[j] + 1]
  BY <1>1, PathTextFacts
<1>3. PICK res : res = PathReserve(path, k)
  OBVIOUS
<1>4. /\ Len(res) = k /\ \A j \in 1 .. k : res[j][1] = path[j] /\ res[j][2] = 1
      /\ \A j \in 0 .. k : Sums(res)[j] = j
  BY <1>3, PathSums
<1>5. PICK L \in Nat : L = Len(K)
  OBVIOUS
<1>6. PICK h : h = K \o new
  OBVIOUS
<1>7. PICK T : T = K \o t
  OBVIOUS
<1>8. /\ Len(h) = L + n /\ \A i \in 1 .. L : h[i] = K[i]
      /\ \A i \in 1 .. n : h[L + i] = new[i]
  <2>1. Joined(h, K, new, S, L, n)
    BY <1>5, <1>6, Zenon DEF Joined
  <2>2. n \in Nat
    OBVIOUS
  <2>3. Parts(h, K, new, L, n)
    BY <2>1, <2>2, ConcatParts
  <2> QED
    BY <2>3 DEF Parts
<1>9. /\ Len(T) = L + k /\ \A i \in 1 .. L : T[i] = K[i]
      /\ \A i \in 1 .. k : T[L + i] = t[i]
  <2>1. Joined(T, K, t, S, L, k)
    BY <1>1, <1>5, <1>7, Zenon DEF Joined
  <2>2. Parts(T, K, t, L, k)
    BY <2>1, ConcatParts
  <2> QED
    BY <2>2 DEF Parts
<1>10. \A j \in 1 .. k : path[j] \in 0 .. n - 1 /\ j - 1 <= path[j]
  BY PathClimbs
<1>11. L \in 0 .. Len(h) /\ Len(T) = L + Sums(res)[Len(res)] /\ \A i \in 1 .. L : T[i] = h[i]
  <2>1. Sums(res)[k] = k
    BY <1>4
  <2> QED
    BY <1>4, <1>8, <1>9, <2>1
<1>12. ASSUME NEW j \in 1 .. Len(res)
       PROVE  /\ Sums(res)[j - 1] <= res[j][1] /\ L + res[j][1] + res[j][2] <= Len(h)
              /\ \A i \in 1 .. res[j][2] : T[L + Sums(res)[j - 1] + i] = h[L + res[j][1] + i]
  <2>1. j \in 1 .. k /\ j - 1 \in 0 .. k
    BY <1>4
  <2>2. PICK b \in Nat : b = path[j] /\ j - 1 <= b /\ b <= n - 1 /\ b + 1 \in 1 .. n
    BY <1>10, <2>1
  <2>3. res[j][1] = b /\ res[j][2] = 1 /\ Sums(res)[j - 1] = j - 1
    BY <1>4, <2>1, <2>2
  <2>4. L + b + 1 <= Len(h)
    BY <1>8, <2>2
  <2>5. T[L + j] = new[b + 1] /\ h[L + (b + 1)] = new[b + 1]
    BY <1>2, <1>8, <1>9, <2>1, <2>2
  <2>6. ASSUME NEW i \in 1 .. 1 PROVE T[L + (j - 1) + i] = h[L + b + i]
    <3>1. i = 1 /\ L + (j - 1) + i = L + j /\ L + b + i = L + (b + 1)
      BY <2>1
    <3> QED
      BY <2>5, <3>1
  <2> QED
    BY <2>2, <2>3, <2>4, <2>6, Zenon
<1>13. Kept(h, T, L, res)
  BY <1>11, <1>12 DEF Kept
<1> QED
  BY <1>1, <1>3, <1>5, <1>6, <1>7, <1>13

\* A pass for a tree of drafts of which a path is accepted.
LEMMA TreeHolds ==
    ASSUME IInv, NEW n \in AddSizes, NEW path \in AcceptedPaths(n), NEW last \in BOOLEAN,
           TreeDecoding(n, path, last)
    PROVE  IInv'
<1>0. /\ n \in Nat \ {0} /\ TypeInv /\ LengthInv /\ IsMeta(meta) /\ keep \in Seq(1 .. MaxTokens)
      /\ all_seq_len \in Nat /\ Len(keep) <= Left(meta)
  BY Consts DEF IInv, TypeInv, LengthInv
<1>1. PICK k \in Nat : Path(path, n, k) /\ DOMAIN path = 1 .. k /\ Len(path) = k
  BY <1>0, PathFacts
<1>2. PICK res : res = PathReserve(path, k)
  OBVIOUS
<1>3. PICK new : new = Fresh(n)
  OBVIOUS
<1>4. PICK t : t = PathText(new, path, k)
  OBVIOUS
<1>5. /\ (IF last THEN Forward(n, 0, << >>) ELSE Forward(n, n, res))
      /\ keep' = keep \o t
      /\ all_seq_len' = (IF last THEN all_seq_len ELSE all_seq_len + k)
      /\ sound' = (SoundAfterForward /\ MoveSupported /\ ~last)
  BY <1>1, <1>2, <1>3, <1>4 DEF TreeDecoding, PathReserve, PathText
<1>6. /\ res \in Seq(Nat \X Nat) /\ Len(res) = k /\ res # << >> /\ Sums(res)[k] = k /\ k \in 1 .. n
  BY <1>0, <1>1, <1>2, PathSums DEF Path
<1>7. PICK rem \in 0 .. n, rsv \in Seq(Nat \X Nat) :
        Forward(n, rem, rsv) /\ (IF last THEN rem = 0 /\ rsv = << >> ELSE rem = n /\ rsv = res)
  <2>1. 0 \in 0 .. n /\ n \in 0 .. n /\ << >> \in Seq(Nat \X Nat)
    BY <1>0
  <2> QED
    BY <1>5, <1>6, <2>1
<1>8. /\ option' = option /\ IsMeta(meta') /\ Typed(cache')
      /\ meta'.previous = Left(meta) + n /\ meta'.remove = rem /\ meta'.reserve = rsv
      /\ hist' = keep \o new /\ hist' \in Seq(1 .. MaxTokens)
      /\ Len(hist') = Len(keep) + n /\ Len(hist') <= meta'.previous
      /\ new \in Seq(1 .. MaxTokens) /\ Len(new) = n /\ next' \in 1 .. MaxTokens + 1
      /\ meta'.previous # 0
  BY <1>0, <1>3, <1>7, ForwardTypes
<1>9. t \in Seq(1 .. MaxTokens) /\ Len(t) = k
  BY <1>0, <1>1, <1>4, <1>8, PathTextFacts
<1>10. keep' \in Seq(1 .. MaxTokens) /\ Len(keep') = Len(keep) + k
  BY <1>0, <1>5, <1>9, ConcatProperties
<1>l. PICK left \in Nat : left = Left(meta)
  BY <1>0, LeftFacts
<1>m. PICK old \in Nat : old = Len(keep) /\ old <= left
  BY <1>0, <1>l
<1>11. /\ meta'.previous - rem \in Nat /\ Len(keep') <= Left(meta')
       /\ meta'.previous = meta'.remove /\ meta'.reserve = << >> => all_seq_len' = 0
  <2>1. CASE last
    <3>1. rem = 0 /\ rsv = << >> /\ (left + n) - 0 = left + n
      BY <1>0, <1>7, <2>1
    <3>2. Left(meta') = left + n
      BY <1>8, <1>l, <3>1, LeftFacts
    <3>3. Len(keep') <= left + n /\ left + n \in Nat /\ left + n # 0
      BY <1>0, <1>6, <1>10, <1>m
    <3> QED
      BY <1>8, <1>l, <3>1, <3>2, <3>3
  <2>2. CASE ~last
    <3>1. rem = n /\ rsv = res /\ (left + n) - n = left
      BY <1>0, <1>7, <2>2
    <3>2. Left(meta') = left + k
      BY <1>6, <1>8, <1>l, <3>1 DEF Left
    <3>3. Len(keep') <= left + k
      BY <1>10, <1>m
    <3> QED
      BY <1>6, <1>8, <1>l, <3>1, <3>2, <3>3
  <2> QED
    BY <2>1, <2>2
<1>12. all_seq_len' \in Nat /\ sound' \in BOOLEAN
  <2>1. all_seq_len + k \in Nat
    BY <1>0
  <2> QED
    BY <1>0, <1>5, <2>1
<1>13. TypeInv' /\ LengthInv'
  BY <1>0, <1>8, <1>10, <1>11, <1>12, TypeNext
<1>14. ASSUME sound'
       PROVE  /\ meta'.previous = Len(hist') /\ cache'.mPastLength = Len(hist')
              /\ Good(cache', hist') /\ all_seq_len' = Len(keep')
              /\ Kept(hist', keep', meta'.previous - meta'.remove, meta'.reserve)
              /\ MoveSupported
  <2>1. SoundAfterForward /\ MoveSupported /\ ~last
    BY <1>5, <1>14
  <2>2. /\ Good(cache', hist') /\ meta'.previous = Len(hist') /\ cache'.mPastLength = Len(hist')
        /\ all_seq_len = Len(keep)
    BY <1>7, <2>1, ForwardHolds
  <2>3. all_seq_len' = Len(keep')
    BY <1>5, <1>10, <2>1, <2>2
  <2>4. rem = n /\ rsv = res
    BY <1>7, <2>1
  <2>5. (old + n) - n = old
    BY <1>0
  <2>6. meta'.previous - meta'.remove = Len(keep)
    BY <1>8, <1>m, <2>2, <2>4, <2>5
  <2>7. Kept(keep \o new, keep \o PathText(new, path, k), Len(keep), PathReserve(path, k))
    BY <1>0, <1>1, <1>8, KeptPath
  <2>8. Kept(hist', keep', Len(keep), res)
    BY <1>2, <1>4, <1>5, <1>8, <2>7
  <2> QED
    BY <1>8, <2>1, <2>2, <2>3, <2>4, <2>6, <2>8
<1>15. SoundInv'
  BY <1>8, <1>14, SoundNext
<1> QED
  BY <1>13, <1>15 DEF IInv

-----------------------------------------------------------------------------
(* The theorems.                                                           *)

\* An engine starts with nothing.
LEMMA InitHolds ==
    ASSUME Init
    PROVE  IInv
<1>1. /\ option \in AttentionOption
      /\ meta = [previous |-> 0, remove |-> 0, reserve |-> << >>, add |-> 0]
      /\ cache = NoCache
      /\ all_seq_len = 0 /\ hist = << >> /\ keep = << >> /\ next = 1 /\ sound = TRUE
  BY DEF Init
<1>2. /\ DOMAIN meta = {"previous", "remove", "reserve", "add"} /\ meta.previous = 0
      /\ meta.remove = 0 /\ meta.reserve = << >> /\ meta.add = 0
  BY <1>1
<1>3. << >> \in Seq(Nat \X Nat) /\ << >> \in Seq(1 .. MaxTokens) /\ Len(<< >>) = 0
  OBVIOUS
<1>4. IsMeta(meta) /\ meta.previous - meta.remove = 0
  BY <1>2, <1>3 DEF IsMeta
<1>5. Left(meta) = 0
  BY <1>2, <1>4, LeftFacts
<1>6. /\ IsCache(cache) /\ cache.mMaxLength = 0 /\ cache.mPastLength = 0
      /\ cache.key = << >> /\ cache.value = << >>
  BY <1>1 DEF NoCache, IsCache
<1>7. Typed(cache)
  <2>1. Cells(<< >>)
    BY DEF Cells
  <2> QED
    BY <1>6, <2>1 DEF Typed
<1>8. TypeInv
  BY <1>1, <1>3, <1>4, <1>7, Consts DEF TypeInv
<1>9. LengthInv
  BY <1>1, <1>2, <1>3, <1>5 DEF LengthInv
<1>10. Kept(hist, keep, 0, << >>)
  BY <1>1, <1>3, KeptPrefix
<1>11. SoundInv
  BY <1>1, <1>2, <1>3, <1>4, <1>6, <1>10 DEF SoundInv
<1> QED
  BY <1>8, <1>9, <1>11 DEF IInv

\* A step that changes nothing.
LEMMA StutterHolds ==
    ASSUME IInv, UNCHANGED vars
    PROVE  IInv'
<1>1. /\ option' = option /\ meta' = meta /\ cache' = cache /\ all_seq_len' = all_seq_len
      /\ hist' = hist /\ keep' = keep /\ next' = next /\ sound' = sound
  BY DEF vars
<1>2. TypeInv' /\ LengthInv'
  BY <1>1, TypeNext DEF IInv, TypeInv, LengthInv
<1>3. SoundInv'
  BY <1>1, SoundNext DEF IInv, SoundInv
<1> QED
  BY <1>2, <1>3 DEF IInv

\* Every step keeps the invariant.
LEMMA NextKeeps ==
    ASSUME IInv, [Next]_vars
    PROVE  IInv'
<1>1. ASSUME NEW n \in AddSizes, Generate(n) PROVE IInv'
  BY <1>1, GenerateHolds
<1>2. ASSUME NEW n \in AddSizes, NEW ran \in BOOLEAN, GenerateFails(n, ran) PROVE IInv'
  BY <1>2, GenerateFailsHolds
<1>3. ASSUME NEW n \in AddSizes, NEW i \in 1 .. n, DraftVerify(n, i) PROVE IInv'
  BY <1>3, DraftVerifyHolds
<1>4. ASSUME NEW n \in AddSizes, NEW path \in AcceptedPaths(n), NEW last \in BOOLEAN,
             TreeDecoding(n, path, last)
      PROVE  IInv'
  BY <1>4, TreeHolds
<1>5. ASSUME NEW begin \in 0 .. meta.previous, NEW end \in 0 .. meta.previous,
             EraseHistory(begin, end)
      PROVE  IInv'
  BY <1>5, EraseHolds
<1>6. CASE Reset
  BY <1>6, ResetHolds
<1>7. CASE TuneEnd
  BY <1>7, TuneEndHolds
<1>8. CASE UNCHANGED vars
  BY <1>8, StutterHolds
<1> QED
  BY <1>1, <1>2, <1>3, <1>4, <1>5, <1>6, <1>7, <1>8 DEF Next

\* Every attention mode but TQ values without flash attention.
LEMMA ModeFacts ==
    ASSUME option \in 0 .. 15, option \notin {4, 6}
    PROVE  ValuesRight
<1>1. SUFFICES ASSUME mValueQuantMode = "TQ" PROVE mUseFlashAttention
  BY DEF ValuesRight
<1>2. option % 8 \in {4, 6}
  BY <1>1 DEF mValueQuantMode
<1>3. option \div 8 = 1
  BY <1>2
<1> QED
  BY <1>3 DEF mUseFlashAttention

\* In the contract, a cache with something in it is good.
LEMMA GoodNow ==
    ASSUME IInv, sound, hist # << >> \/ cache.mPastLength > 0
    PROVE  Good(cache, hist) /\ hist \in Seq(1 .. MaxTokens) /\ cache.mPastLength = Len(hist)
<1>1. /\ meta.previous = Len(hist) /\ cache.mPastLength = Len(hist)
      /\ (meta.previous # 0 => Good(cache, hist)) /\ hist \in Seq(1 .. MaxTokens)
  BY DEF IInv, SoundInv, TypeInv
<1>2. Len(hist) # 0
  BY <1>1
<1> QED
  BY <1>1, <1>2

\* The cells of the tokens of a good cache.
LEMMA GoodCells ==
    ASSUME NEW c, NEW T, NEW L \in Nat, L = Len(T), Good(c, T), NEW s \in 0 .. L - 1, NEW d \in Dims
    PROVE  /\ At(c.key, KeyCell(s, d)) = <<T[s + 1], d>>
           /\ ValuesRight => At(c.value, ValueCell(c.upper, s, d)) = <<T[s + 1], d>>
<1>1. Shaped(c) /\ L <= c.mMaxLength /\ Holds(c, 0, L, T)
  BY DEF Good
<1>2. PICK max \in Nat \ {0} : max = c.mMaxLength
  BY <1>1 DEF Shaped
<1>3. s \in Nat /\ s \in 0 .. max - 1
  BY <1>1, <1>2
<1>4. /\ KeyPlace[<<s, d>>] = KeyCell(s, d) /\ ValuePlace(c.upper)[<<s, d>>] = ValueCell(c.upper, s, d)
      /\ Layout(KeyPlace, c.key, max) /\ Layout(ValuePlace(c.upper), c.value, max)
  BY <1>1, <1>2, <1>3, PlaceFacts
<1>5. KeyCell(s, d) \in DOMAIN c.key /\ ValueCell(c.upper, s, d) \in DOMAIN c.value
  BY <1>3, <1>4 DEF Layout
<1>6. c.key[KeyCell(s, d)] = <<T[s + 1], d>>
  BY <1>1, <1>4 DEF Holds, HoldsKeys
<1>7. ValuesRight => c.value[ValueCell(c.upper, s, d)] = <<T[s + 1], d>>
  BY <1>1, <1>4 DEF Holds, HoldsValues
<1> QED
  BY <1>5, <1>6, <1>7 DEF At

\* The invariant implies that the kernels find the history.
LEMMA HistoryFound ==
    ASSUME IInv, ValuesRight
    PROVE  CacheHoldsHistory
<1>1. SUFFICES ASSUME sound
               PROVE  /\ meta.previous = Len(hist) /\ cache.mPastLength = Len(hist)
                      /\ \A s \in 1 .. Len(hist), d \in Dims :
                           /\ At(cache.key, KeyCell(s - 1, d)) = <<hist[s], d>>
                           /\ At(cache.value, ValueCell(cache.upper, s - 1, d)) = <<hist[s], d>>
  BY DEF CacheHoldsHistory
<1>2. meta.previous = Len(hist) /\ cache.mPastLength = Len(hist)
  BY <1>1 DEF IInv, SoundInv
<1>3. ASSUME NEW s \in 1 .. Len(hist), NEW d \in Dims
      PROVE  /\ At(cache.key, KeyCell(s - 1, d)) = <<hist[s], d>>
             /\ At(cache.value, ValueCell(cache.upper, s - 1, d)) = <<hist[s], d>>
  <2>1. hist \in Seq(1 .. MaxTokens)
    BY DEF IInv, TypeInv
  <2>2. PICK L \in Nat : L = Len(hist)
    BY <2>1
  <2>3. hist # << >>
    BY <2>2
  <2>4. Good(cache, hist)
    BY <1>1, <2>3, GoodNow
  <2>5. PICK t \in 0 .. L - 1 : t = s - 1 /\ t + 1 = s
    <3>1. s - 1 \in 0 .. L - 1 /\ (s - 1) + 1 = s
      BY <2>2
    <3> QED
      BY <3>1
  <2>6. /\ At(cache.key, KeyCell(t, d)) = <<hist[t + 1], d>>
        /\ At(cache.value, ValueCell(cache.upper, t, d)) = <<hist[t + 1], d>>
    BY <2>2, <2>4, GoodCells
  <2> QED
    BY <2>5, <2>6
<1> QED
  BY <1>2, <1>3

\* A number that is divided without a rest is its own round.
LEMMA NoPadding ==
    ASSUME NEW x \in Nat \ {0}, NEW y \in Nat \ {0}, x % y = 0
    PROVE  ROUND_UP(x, y) = x
<1>1. PICK q \in Int : q = x \div y
  BY Euclid
<1>2. x = y * q
  BY <1>1, Euclid
<1>3. y - 1 \in 0 .. y - 1 /\ x + y - 1 = y * q + (y - 1) /\ x + y - 1 \in Int
  BY <1>2
<1>4. (x + y - 1) \div y = q
  BY <1>3, EuclidUnique
<1>5. ROUND_UP(x, y) = q * y
  BY <1>4 DEF ROUND_UP, UP_DIV
<1> QED
  BY <1>2, <1>5

\* A key that is read, with the padding of its dims, has been written or cleared.
LEMMA KeyPadded ==
    ASSUME NEW c, NEW T, NEW L \in Nat, L = Len(T), Good(c, T), mKeyQuantMode # "TQ",
           NEW s \in 0 .. L - 1, NEW d \in 0 .. ROUND_UP(mHeadDim, lP) - 1
    PROVE  At(c.key, keyIndex(s, d)) # Garbage
<1>1. Shaped(c) /\ L <= c.mMaxLength /\ Clean(c)
  BY DEF Good
<1>2. PICK max \in Nat \ {0} : max = c.mMaxLength
  BY <1>1 DEF Shaped
<1>3. s \in 0 .. max - 1
  BY <1>1, <1>2
<1>4. keyIndex(s, d) \in 0 .. KeySize(max) - 1
  BY <1>3, KeyPadIn
<1>5. keyIndex(s, d) \in DOMAIN c.key
  BY <1>1, <1>2, <1>4 DEF Shaped
<1>6. CASE mHeadDim % lP # 0
  BY <1>1, <1>5, <1>6 DEF Clean, At
<1>7. CASE mHeadDim % lP = 0
  <2>1. ROUND_UP(mHeadDim, lP) = mHeadDim
    BY <1>7, Consts, NoPadding
  <2>2. d \in Dims
    BY <2>1 DEF Dims
  <2>3. d \in Nat
    BY <2>2, DimsPadded
  <2>4. At(c.key, KeyCell(s, d)) = <<T[s + 1], d>>
    BY <2>2, GoodCells
  <2>5. KeyCell(s, d) = keyIndex(s, d)
    BY DEF KeyCell
  <2> QED
    BY <2>3, <2>4, <2>5 DEF Garbage
<1> QED
  BY <1>6, <1>7

\* Rounding keeps the order.
LEMMA RoundMonotone ==
    ASSUME NEW x \in Nat \ {0}, NEW z \in Nat \ {0}, NEW y \in Nat \ {0}, x <= z
    PROVE  ROUND_UP(x, y) <= ROUND_UP(z, y)
<1>1. PICK a \in Nat, b \in Nat : a = UP_DIV(x, y) /\ b = UP_DIV(z, y)
  BY RoundFacts
<1>2. a <= b
  BY <1>1, UpDivMonotone
<1>3. a * y <= b * y
  BY <1>2, TimesMonotone
<1> QED
  BY <1>1, <1>3 DEF ROUND_UP

\* The last block of values, with the padding of its tokens, has been written or cleared.
LEMMA ValuePadded ==
    ASSUME NEW c, NEW T, NEW L \in Nat, L = Len(T), Good(c, T), mValueQuantMode # "TQ", L > 0,
           NEW x \in 0 .. ROUND_UP(((L - 1) % c.upper) + 1, lP) - 1, NEW d \in Dims
    PROVE  At(c.value, ValueCellIn(c.upper, (L - 1) \div c.upper, x, d)) # Garbage
<1>1. Shaped(c) /\ L <= c.mMaxLength /\ Clean(c)
  BY DEF Good
<1>2. PICK max \in Nat \ {0} : max = c.mMaxLength /\ L <= max
  BY <1>1 DEF Shaped
<1>3. PICK upper \in Nat \ {0} : upper = c.upper
  BY <1>1, PlaceFacts
<1>4. PICK last \in Nat : last = L - 1 /\ last \in 0 .. max - 1
  <2>1. L - 1 \in Nat /\ L - 1 \in 0 .. max - 1
    BY <1>2
  <2> QED
    BY <2>1
<1>5. PICK blk \in Nat, r \in Nat : /\ blk = last \div upper /\ r = last % upper /\ r \in 0 .. upper - 1
                                    /\ last = upper * blk + r
  <2>1. /\ last \div upper \in Nat /\ last % upper \in 0 .. upper - 1 /\ last % upper \in Nat
        /\ last = upper * (last \div upper) + (last % upper)
    BY BlockFacts
  <2> QED
    BY <2>1, Zenon
<1>6. blk \in 0 .. UP_DIV(max, upper) - 1
  <2>1. max <= UP_DIV(max, upper) * upper /\ UP_DIV(max, upper) \in Nat
    BY UpDivFacts
  <2>2. PICK b \in Nat : b = UP_DIV(max, upper) /\ max <= b * upper
    BY <2>1
  <2>3. last \in 0 .. b * upper - 1
    BY <1>4, <2>2
  <2>4. last \div upper \in 0 .. b - 1
    BY <2>3, QuotientBound
  <2> QED
    BY <1>5, <2>2, <2>4
<1>p. lP \in Nat \ {0}
  BY Consts
<1>7. r + 1 \in Nat \ {0} /\ r + 1 <= upper
  BY <1>5
<1>8. x \in 0 .. ROUND_UP(r + 1, lP) - 1
  BY <1>3, <1>4, <1>5
<1>9. x \in 0 .. ROUND_UP(upper, lP) - 1
  <2>1. ROUND_UP(r + 1, lP) <= ROUND_UP(upper, lP)
    BY <1>p, <1>7, RoundMonotone
  <2>2. ROUND_UP(r + 1, lP) \in Nat /\ ROUND_UP(upper, lP) \in Nat
    BY <1>p, <1>7, RoundFacts
  <2> QED
    BY <1>8, <2>1, <2>2
<1>10. ValueCellIn(upper, blk, x, d) \in DOMAIN c.value
  <2>1. ValueCellIn(upper, blk, x, d) \in 0 .. ValueSize(max, upper) - 1
    BY <1>6, <1>9, ValuePadIn
  <2> QED
    BY <1>1, <1>2, <1>3, <2>1 DEF Shaped
<1>11. At(c.value, ValueCellIn(upper, blk, x, d)) # Garbage
  <2>1. CASE lP > 1
    BY <1>1, <1>10, <2>1 DEF Clean, At
  <2>2. CASE lP = 1
    <3>1. ROUND_UP(r + 1, lP) = r + 1
      <4>1. (r + 1) % 1 = 0
        BY <1>7
      <4> QED
        BY <1>7, <2>2, <4>1, NoPadding
    <3>2. x \in 0 .. r /\ x \in Nat
      BY <1>8, <3>1
    <3>3. PICK u \in Nat : u = upper * blk /\ last = u + r
      BY <1>5
    <3>4. PICK s \in Nat : s = upper * blk + x /\ s \in 0 .. L - 1
      <4>1. u + x \in Nat /\ u + x <= last
        BY <3>2, <3>3
      <4>2. u + x \in 0 .. L - 1
        BY <1>4, <4>1
      <4> QED
        BY <3>3, <4>1, <4>2, Zenon
    <3>5. s \div upper = blk /\ s % upper = x
      <4>1. x \in 0 .. upper - 1 /\ s \in Int /\ blk \in Int
        BY <1>5, <3>2
      <4> QED
        BY <3>4, <4>1, EuclidUnique
    <3>6. ValuesRight
      BY DEF ValuesRight
    <3>7. At(c.value, ValueCell(upper, s, d)) = <<T[s + 1], d>>
      <4>1. s \in 0 .. L - 1
        BY <3>4
      <4>2. At(c.value, ValueCell(c.upper, s, d)) = <<T[s + 1], d>>
        BY <3>6, <4>1, GoodCells
      <4> QED
        BY <1>3, <4>2, Zenon
    <3>8. ValueCell(upper, s, d) = ValueCellIn(upper, blk, x, d)
      BY <3>5 DEF ValueCell
    <3>9. d \in Nat
      BY DimsPadded
    <3> QED
      BY <3>7, <3>8, <3>9 DEF Garbage
  <2> QED
    BY <1>p, <2>1, <2>2
<1> QED
  BY <1>3, <1>4, <1>5, <1>11

\* The invariant implies that no garbage is read.
LEMMA NothingUninitialised ==
    ASSUME IInv
    PROVE  ReadsInitialised
<1>1. SUFFICES ASSUME sound, cache.mPastLength > 0
               PROVE  /\ mKeyQuantMode # "TQ" =>
                           \A s \in 0 .. cache.mPastLength - 1, d \in 0 .. ROUND_UP(mHeadDim, lP) - 1 :
                               At(cache.key, keyIndex(s, d)) # Garbage
                      /\ mValueQuantMode # "TQ" =>
                           \A x \in 0 .. ROUND_UP(((cache.mPastLength - 1) % cache.upper) + 1, lP) - 1,
                              d \in Dims :
                               At(cache.value, ValueCellIn(cache.upper,
                                       (cache.mPastLength - 1) \div cache.upper, x, d)) # Garbage
  BY DEF ReadsInitialised
<1>2. Good(cache, hist) /\ hist \in Seq(1 .. MaxTokens) /\ cache.mPastLength = Len(hist)
  BY <1>1, GoodNow
<1>3. PICK L \in Nat : L = Len(hist) /\ L = cache.mPastLength /\ L > 0
  BY <1>1, <1>2
<1>4. ASSUME mKeyQuantMode # "TQ", NEW s \in 0 .. L - 1, NEW d \in 0 .. ROUND_UP(mHeadDim, lP) - 1
      PROVE  At(cache.key, keyIndex(s, d)) # Garbage
  BY <1>2, <1>3, <1>4, KeyPadded
<1>5. ASSUME mValueQuantMode # "TQ", NEW x \in 0 .. ROUND_UP(((L - 1) % cache.upper) + 1, lP) - 1,
             NEW d \in Dims
      PROVE  At(cache.value, ValueCellIn(cache.upper, (L - 1) \div cache.upper, x, d)) # Garbage
  BY <1>2, <1>3, <1>5, ValuePadded
<1> QED
  BY <1>3, <1>4, <1>5

\* IInv is an inductive invariant of the engine and its cache.
THEOREM Inductive == Spec => []IInv
<1>1. Init => IInv
  BY InitHolds
<1>2. IInv /\ [Next]_vars => IInv'
  BY NextKeeps
<1> QED
  BY <1>1, <1>2, PTL DEF Spec

\* Every call sequence keeps the types: meta removes no more than it counts, lengths do
\* not go below zero, and tokens are tokens, within the contract of eraseHistory and
\* outside it, after failed passes as well.
THEOREM TypeCorrect == Spec => []TypeOK
<1>1. IInv => TypeOK
  BY TypeInvTypeOK DEF IInv
<1> QED
  BY <1>1, Inductive, PTL

\* In every attention mode the position of the next token (all_seq_len) is the number of
\* tokens that the noted edits leave in front of it.
THEOREM PositionsCorrect == Spec => []PositionsFollow
<1>1. IInv => PositionsFollow
  BY DEF IInv, SoundInv, PositionsFollow
<1> QED
  BY <1>1, Inductive, PTL

\* For every packing, head size, block size and spare room, and in every attention mode but
\* 4 and 6 (TQ values without flash attention, whose buffer expandKVCacheInMem copies with
\* the strides of float values), the kernels find the key and the value of every token.
THEOREM HistoryKept == Spec => [](option \notin {4, 6} => CacheHoldsHistory)
<1>1. IInv => (option \notin {4, 6} => CacheHoldsHistory)
  <2>1. IInv => option \in 0 .. 15
    BY Consts DEF IInv, TypeInv
  <2> QED
    BY <2>1, ModeFacts, HistoryFound
<1> QED
  BY <1>1, Inductive, PTL

\* In every attention mode, the padding of dims and tokens that the kernels read has been
\* written or cleared, in new, grown and edited buffers.
THEOREM PaddingInitialised == Spec => []ReadsInitialised
<1>1. IInv => ReadsInitialised
  BY NothingUninitialised
<1> QED
  BY <1>1, Inductive, PTL

=============================================================================
