------------------------------ MODULE FpProofs ------------------------------
(***************************************************************************)
(* The floating point results are right for every width of the formats.    *)
(*                                                                         *)
(* FloatAlwaysExact rests on two chains of lemmas about the operators of   *)
(* FpBackend.  For memory: the fields of a packed image are the ones put   *)
(* in, so the conversions of FpFormat.h invert each other on the numbers   *)
(* of their format (ReloadsF, ReloadsS, ReloadsG), and every operation     *)
(* leaves such a number (RoundSingle for S, RpackFits for F and G).  For   *)
(* the arithmetic: rounding half up, or chopping, looks at no bit below    *)
(* half a unit of the format (SameRounding), and the fraction a kernel     *)
(* keeps agrees with the exact result down to there (MulLead, DivLead,     *)
(* SumLeadAlike), so Rpack rounds it to what the reference expects         *)
(* (RightlyRounded).                                                       *)
(*                                                                         *)
(* Induction over the naturals is proved for sets (SetInduction), from the *)
(* pigeonhole theorem, and the doubling of powers from the number of       *)
(* subsets; nothing about exponentiation is assumed.                       *)
(***************************************************************************)
EXTENDS FpGrains, FiniteSetTheorems, TLAPS

----------------------------------------------------------------------------
(* Induction, powers of two and division.                                 *)

\* Induction over the naturals, for a set: were m the outside of P, subtracting one
\* would map the counterexamples up to m into fewer places than there are of them.
LEMMA SetInduction ==
  ASSUME NEW P \in SUBSET Nat, 0 \in P, \A n \in P : n + 1 \in P
  PROVE  \A n \in Nat : n \in P
<1> SUFFICES ASSUME NEW m \in Nat, m \notin P PROVE FALSE
  OBVIOUS
<1> DEFINE C == {n \in 0 .. m : n \notin P}
           f == [n \in C |-> n - 1]
<1>1. IsFiniteSet(C) /\ Cardinality(C) \in Nat
  <2>1. IsFiniteSet(0 .. m)
    BY FS_Interval
  <2>2. C \in SUBSET (0 .. m)
    OBVIOUS
  <2> HIDE DEF C
  <2> QED BY <2>1, <2>2, FS_Subset, FS_CardinalityType
<1>2. IsFiniteSet(C \ {m}) /\ Cardinality(C \ {m}) = Cardinality(C) - 1
  <2>1. m \in C
    OBVIOUS
  <2> HIDE DEF C
  <2> QED BY <1>1, <2>1, FS_RemoveElement
<1>3. f \in [C -> C \ {m}]
  OBVIOUS
<1>4. PICK x, y \in C : x # y /\ f[x] = f[y]
  <2> HIDE DEF C, f
  <2> QED BY <1>1, <1>2, <1>3, FS_PigeonHole
<1> QED BY <1>4

\* A power of two doubles: 2^n counts the subsets of 1 .. n.
LEMMA TwoPowSucc ==
  ASSUME NEW n \in Nat
  PROVE  2^(n + 1) = 2 * 2^n
<1> DEFINE A == SUBSET (1 .. n)
           B == SUBSET (1 .. n + 1)
           C == {x \in B : n + 1 \in x}
           f == [x \in A |-> x \cup {n + 1}]
<1>1. /\ IsFiniteSet(1 .. n) /\ Cardinality(1 .. n) = n
      /\ IsFiniteSet(1 .. n + 1) /\ Cardinality(1 .. n + 1) = n + 1
  BY FS_Interval
<1>2. IsFiniteSet(A) /\ Cardinality(A) = 2^n
  BY <1>1, FS_SUBSET
<1>3. Cardinality(B) = 2^(n + 1)
  BY <1>1, FS_SUBSET
<1>4. f \in Bijection(A, C)
  <2>1. f \in [A -> C]
    OBVIOUS
  <2>2. ASSUME NEW x \in A, NEW y \in A, f[x] = f[y] PROVE x = y
    <3>1. n + 1 \notin x /\ n + 1 \notin y
      OBVIOUS
    <3>2. x \cup {n + 1} = y \cup {n + 1}
      BY <2>2
    <3>3. ASSUME NEW e PROVE e \in x <=> e \in y
      BY <3>1, <3>2
    <3> QED BY <3>3, Zenon
  <2>3. ASSUME NEW z \in C PROVE \E x \in A : f[x] = z
    <3>1. z \ {n + 1} \in A
      OBVIOUS
    <3>2. z = (z \ {n + 1}) \cup {n + 1}
      BY DEF C
    <3> QED BY <3>1, <3>2
  <2> HIDE DEF A, C, f
  <2> QED BY <2>1, <2>2, <2>3 DEF Bijection, Injection, Surjection, IsInjective
<1>5. IsFiniteSet(C) /\ Cardinality(C) = Cardinality(A)
  <2> HIDE DEF A, C, f
  <2> QED BY <1>2, <1>4, FS_Bijection DEF ExistsBijection
<1>6. A \cup C = B /\ A \cap C = {}
  <2>1. ASSUME NEW x PROVE x \in A \cup C <=> x \in B
    <3>1. CASE n + 1 \in x
      BY <3>1
    <3>2. CASE n + 1 \notin x
      BY <3>2
    <3> QED BY <3>1, <3>2
  <2>2. A \cap C = {}
    OBVIOUS
  <2> QED BY <2>1, <2>2
<1>7. Cardinality(B) = Cardinality(A) + Cardinality(C) - 0
  <2> HIDE DEF A, B, C
  <2> QED BY <1>2, <1>5, <1>6, FS_Union, FS_EmptySet
<1>8. Cardinality(A) \in Nat
  BY <1>2, FS_CardinalityType
<1> HIDE DEF A, B, C, f
<1> QED BY <1>2, <1>3, <1>5, <1>7, <1>8

\* Powers of two are positive.
LEMMA PowPos ==
  ASSUME NEW n \in Nat
  PROVE  2^n \in Nat /\ 2^n >= 1
<1> DEFINE P == {k \in Nat : 2^k \in Nat /\ 2^k >= 1}
<1>1. 0 \in P
  OBVIOUS
<1>2. ASSUME NEW k \in P PROVE k + 1 \in P
  BY TwoPowSucc
<1> HIDE DEF P
<1>3. n \in P
  BY <1>1, <1>2, SetInduction DEF P
<1> QED BY <1>3 DEF P

\* The power of a sum of exponents.
LEMMA PowAdd ==
  ASSUME NEW m \in Nat, NEW n \in Nat
  PROVE  2^(m + n) = 2^m * 2^n
<1> DEFINE P == {k \in Nat : 2^(m + k) = 2^m * 2^k}
<1>1. 0 \in P
  BY PowPos
<1>2. ASSUME NEW k \in P PROVE k + 1 \in P
  <2>1. 2^(m + (k + 1)) = 2 * 2^(m + k)
    BY TwoPowSucc
  <2>2. 2^(k + 1) = 2 * 2^k
    BY TwoPowSucc
  <2>3. 2 * (2^m * 2^k) = 2^m * (2 * 2^k)
    BY PowPos
  <2> QED BY <2>1, <2>2, <2>3
<1> HIDE DEF P
<1>3. n \in P
  BY <1>1, <1>2, SetInduction DEF P
<1> QED BY <1>3 DEF P

\* A power split at a smaller exponent.
LEMMA PowSplit ==
  ASSUME NEW m \in Nat, NEW n \in Nat, m <= n
  PROVE  2^n = 2^m * 2^(n - m)
<1>1. n - m \in Nat /\ m + (n - m) = n
  OBVIOUS
<1> QED BY <1>1, PowAdd

\* A positive factor does not make a number smaller.
LEMMA MulGe ==
  ASSUME NEW a \in Nat, NEW b \in Nat, b >= 1
  PROVE  a * b >= a
OBVIOUS

\* The order of powers is the order of their exponents.
LEMMA PowMono ==
  ASSUME NEW m \in Nat, NEW n \in Nat
  PROVE  /\ m <= n => 2^m <= 2^n
         /\ m < n => 2 * 2^m <= 2^n
         /\ 2^m <= 2^n => m <= n
         /\ 2^m < 2^n => m < n
<1>1. ASSUME NEW i \in Nat, NEW j \in Nat, i <= j PROVE 2^i <= 2^j
  <2>1. 2^j = 2^i * 2^(j - i) /\ j - i \in Nat
    BY PowSplit, <1>1
  <2> QED BY <2>1, PowPos, MulGe
<1>2. ASSUME NEW i \in Nat, NEW j \in Nat, i < j PROVE 2 * 2^i <= 2^j
  <2>1. 2^(i + 1) <= 2^j
    BY <1>1, <1>2
  <2> QED BY <2>1, TwoPowSucc
<1> QED
  <2>1. 2^m >= 1 /\ 2^n >= 1 /\ 2^m \in Nat /\ 2^n \in Nat
    BY PowPos
  <2> QED BY <1>1, <1>2, <2>1

\* Every positive number has a top bit, and only one.
LEMMA TopBit ==
  ASSUME NEW n \in Nat, n >= 1
  PROVE  \E h \in Nat : 2^h <= n /\ n < 2^(h + 1)
<1> DEFINE P == {k \in Nat : \E h \in Nat : 2^h <= k + 1 /\ k + 1 < 2^(h + 1)}
<1>1. 0 \in P
  <2>1. 2^0 <= 0 + 1 /\ 0 + 1 < 2^(0 + 1)
    OBVIOUS
  <2> QED BY <2>1
<1>2. ASSUME NEW k \in P PROVE k + 1 \in P
  <2>1. PICK h \in Nat : 2^h <= k + 1 /\ k + 1 < 2^(h + 1)
    OBVIOUS
  <2>2. 2^(h + 1) \in Nat /\ 2^h \in Nat /\ 2^(h + 1 + 1) = 2 * 2^(h + 1) /\ 2^(h + 1) >= 1
    BY PowPos, TwoPowSucc
  <2>3. CASE k + 1 + 1 < 2^(h + 1)
    BY <2>1, <2>2, <2>3
  <2>4. CASE k + 1 + 1 >= 2^(h + 1)
    <3>1. 2^(h + 1) <= k + 1 + 1 /\ k + 1 + 1 < 2^(h + 1 + 1)
      BY <2>1, <2>2, <2>4
    <3> QED BY <3>1
  <2> QED BY <2>3, <2>4, <2>2
<1>3. P \in SUBSET Nat /\ n - 1 \in Nat
  OBVIOUS
<1> HIDE DEF P
<1>4. n - 1 \in P
  BY <1>1, <1>2, <1>3, SetInduction
<1> QED BY <1>4 DEF P

\* A number has one top bit.
LEMMA TopBitUnique ==
  ASSUME NEW n \in Nat, NEW h \in Nat, 2^h <= n, n < 2^(h + 1),
         NEW k \in Nat, 2^k <= n, n < 2^(k + 1)
  PROVE  h = k
<1>1. 2^h \in Nat /\ 2^k \in Nat /\ 2^(h + 1) \in Nat /\ 2^(k + 1) \in Nat
  BY PowPos
<1>2. 2^h < 2^(k + 1) /\ 2^k < 2^(h + 1)
  BY <1>1
<1>3. h < k + 1 /\ k < h + 1
  BY <1>2, PowMono
<1> QED BY <1>3

\* Division with remainder, and that it is unique.
LEMMA DivMod ==
  ASSUME NEW x \in Int, NEW d \in Nat, d >= 1
  PROVE  /\ x \div d \in Int /\ x % d \in Nat /\ x % d < d
         /\ x = d * (x \div d) + (x % d)
OBVIOUS

\* The quotient is the one number between whose multiples the dividend lies.
LEMMA DivUnique ==
  ASSUME NEW x \in Int, NEW d \in Nat, d >= 1, NEW q \in Int,
         d * q <= x, x < d * (q + 1)
  PROVE  x \div d = q /\ x % d = x - d * q
<1> DEFINE p == x \div d
           r == x % d
<1>1. p \in Int /\ r \in Nat /\ r < d /\ x = d * p + r
  BY DivMod
<1> HIDE DEF p, r
<1>2. ~(p < q)
  <2> SUFFICES ASSUME p + 1 <= q PROVE FALSE
    BY <1>1
  <2>1. d * (p + 1) <= d * q /\ d * (p + 1) = d * p + d
    BY <1>1
  <2> QED BY <2>1, <1>1
<1>3. ~(q < p)
  <2> SUFFICES ASSUME q + 1 <= p PROVE FALSE
    BY <1>1
  <2>1. d * (q + 1) <= d * p
    BY <1>1
  <2> QED BY <2>1, <1>1
<1>4. p = q
  BY <1>1, <1>2, <1>3
<1> QED BY <1>1, <1>4 DEF p, r

----------------------------------------------------------------------------
(* The fields of an image.                                                *)

\* Three fields in one number: s above e of base X above f of base Y.
Fields(s, X, Y, e, f) == s * (X * Y) + e * Y + f
Splits(r, s, X, Y, e, f) ==
  /\ r \in 0 .. 2 * (X * Y) - 1
  /\ r \div (X * Y) = s /\ r \div Y = s * X + e
  /\ r % Y = f /\ (s * X + e) % X = e

\* What Fields put together, division takes apart.
LEMMA FieldsOf ==
  ASSUME NEW s \in {0, 1}, NEW X \in Nat, NEW Y \in Nat, X >= 1, Y >= 1,
         NEW e \in 0 .. X - 1, NEW f \in 0 .. Y - 1
  PROVE  Splits(Fields(s, X, Y, e, f), s, X, Y, e, f)
<1> DEFINE r == Fields(s, X, Y, e, f)
           low == e * Y + f
<1>1. X * Y \in Nat /\ X * Y >= 1 /\ e * Y \in Nat
  OBVIOUS
<1>2. e * Y + Y <= X * Y
  <2>1. (e + 1) * Y <= X * Y /\ (e + 1) * Y = e * Y + Y
    OBVIOUS
  <2> QED BY <2>1
<1>3. low \in 0 .. X * Y - 1
  BY <1>1, <1>2
<1>4. r \in Nat /\ r \in 0 .. 2 * (X * Y) - 1 /\ r = s * (X * Y) + low
  BY <1>1, <1>3 DEF Fields
<1>5. r \div (X * Y) = s
  <2>1. (X * Y) * s = s * (X * Y) /\ (X * Y) * (s + 1) = s * (X * Y) + X * Y
    BY <1>1
  <2>2. (X * Y) * s <= r /\ r < (X * Y) * (s + 1)
    BY <1>3, <1>4, <2>1
  <2> HIDE DEF r, low
  <2> QED BY <1>1, <1>4, <2>2, DivUnique
<1>6. r \div Y = s * X + e /\ r % Y = f
  <2>1. Y * (s * X + e) = s * (X * Y) + e * Y /\ Y * (s * X + e + 1) = s * (X * Y) + e * Y + Y
    OBVIOUS
  <2>2. Y * (s * X + e) <= r /\ r < Y * (s * X + e + 1) /\ r - Y * (s * X + e) = f
    BY <2>1 DEF Fields
  <2>3. s * X + e \in Int
    OBVIOUS
  <2> DEFINE q == s * X + e
  <2>4. Y * q <= r /\ r < Y * (q + 1) /\ r - Y * q = f /\ q \in Int
    BY <2>2, <2>3
  <2> HIDE DEF r, low, q
  <2>5. r \div Y = q /\ r % Y = f
    BY <1>4, <2>4, DivUnique
  <2> QED BY <2>5 DEF q
<1>7. (s * X + e) % X = e
  <2>1. X * s <= s * X + e /\ s * X + e < X * (s + 1) /\ s * X + e - X * s = e
    OBVIOUS
  <2> QED BY <2>1, DivUnique
<1> QED BY <1>4, <1>5, <1>6, <1>7 DEF Splits

\* The widths of the formats, from WidthAssumption.
LEMMA Widths ==
  /\ ExpBits \in Nat /\ ExpBits >= 3 /\ FracBits \in Nat /\ FracBits >= 2
  /\ SExpBits \in Nat /\ SFracBits \in Nat /\ SExpBits >= 2 /\ SFracBits >= 1
  /\ SExpBits < ExpBits /\ SFracBits < FracBits /\ Guard \in Nat /\ Guard >= 2
  /\ RegBits \in Nat /\ RegBits - 1 = ExpBits + FracBits /\ RegBits >= 5
  /\ Pad \in Nat /\ Pad >= 1
BY WidthAssumption DEF RegBits, Pad

\* The powers behind the fields of a register.
LEMMA RegPowers ==
  /\ 2^ExpBits \in Nat /\ 2^ExpBits >= 1 /\ 2^FracBits \in Nat /\ 2^FracBits >= 1
  /\ 2^(RegBits - 1) = 2^ExpBits * 2^FracBits
  /\ 2^RegBits = 2 * (2^ExpBits * 2^FracBits)
<1>1. RegBits - 1 \in Nat /\ RegBits - 1 + 1 = RegBits
  BY Widths
<1>2. 2^RegBits = 2 * 2^(RegBits - 1)
  BY <1>1, TwoPowSucc
<1> QED BY <1>2, Widths, PowPos, PowAdd

Images == 0 .. 2^RegBits - 1

\* The fields of an image are what Pack put together.
LEMMA PackFields ==
  ASSUME NEW s \in {0, 1}, NEW e \in 0 .. 2^ExpBits - 1, NEW f \in 0 .. 2^FracBits - 1
  PROVE  /\ Pack(s, e, f) \in Images
         /\ Sign(Pack(s, e, f)) = s /\ Exp(Pack(s, e, f)) = e /\ Frac(Pack(s, e, f)) = f
<1> DEFINE r == Pack(s, e, f)
           X == 2^ExpBits
           Y == 2^FracBits
<1>1. X \in Nat /\ Y \in Nat /\ X >= 1 /\ Y >= 1 /\ e \in 0 .. X - 1 /\ f \in 0 .. Y - 1
  BY RegPowers
<1>2. 2^(RegBits - 1) = X * Y /\ 2^RegBits = 2 * (X * Y) /\ 2^1 = 2 /\ 2^0 = 1
  BY RegPowers
<1> HIDE DEF X, Y
<1>3. r = Fields(s, X, Y, e, f)
  BY <1>2 DEF Pack, Y, Fields
<1> HIDE DEF r
<1>4. /\ r \in 0 .. 2 * (X * Y) - 1 /\ r \div (X * Y) = s /\ r \div Y = s * X + e
      /\ r % Y = f /\ (s * X + e) % X = e
  <2>1. s \in {0, 1} /\ e \in 0 .. X - 1 /\ f \in 0 .. Y - 1
    BY <1>1
  <2>2. Splits(r, s, X, Y, e, f)
    BY <1>3, <1>1, <2>1, FieldsOf
  <2> QED BY <2>2 DEF Splits
<1>5. Sign(r) = s
  BY <1>2, <1>4 DEF Sign, Bits
<1>6. Exp(r) = e
  BY <1>4 DEF Exp, Bits, X, Y
<1>7. r \in Nat
  BY <1>1, <1>2, <1>4
<1>8. Frac(r) = f
  BY <1>2, <1>4, <1>7 DEF Frac, Bits, Y
<1>9. r \in Images
  BY <1>2, <1>4 DEF Images
<1> QED BY <1>5, <1>6, <1>8, <1>9 DEF r

\* An image is determined by its fields.
LEMMA FieldsPack ==
  ASSUME NEW r \in Images
  PROVE  /\ r = Pack(Sign(r), Exp(r), Frac(r)) /\ Sign(r) \in {0, 1}
         /\ Exp(r) \in 0 .. 2^ExpBits - 1 /\ Frac(r) \in 0 .. 2^FracBits - 1
<1> DEFINE X == 2^ExpBits
           Y == 2^FracBits
           h == r \div Y
           t == r \div (X * Y)
<1>1. X \in Nat /\ Y \in Nat /\ X >= 1 /\ Y >= 1
  BY RegPowers
<1>2. 2^(RegBits - 1) = X * Y /\ 2^RegBits = 2 * (X * Y) /\ 2^1 = 2 /\ 2^0 = 1
  BY RegPowers
<1>3. r \in Nat /\ r < 2 * (X * Y)
  BY <1>2, <1>1 DEF Images
<1>4. Sign(r) = t % 2 /\ Exp(r) = h % X /\ Frac(r) = r % Y
  BY <1>2, <1>3 DEF Sign, Exp, Frac, Bits
<1> HIDE DEF X, Y
<1>5. h \in Int /\ r % Y \in Nat /\ r % Y < Y /\ r = Y * h + (r % Y)
  BY <1>1, <1>3, DivMod
<1> HIDE DEF h
<1>6. h \div X \in Int /\ h % X \in Nat /\ h % X < X /\ h = X * (h \div X) + (h % X)
  BY <1>1, <1>5, DivMod
<1> DEFINE q == h \div X
           e == h % X
           f == r % Y
<1>7. r = q * (X * Y) + e * Y + f /\ r = Fields(q, X, Y, e, f)
  <2>1. Y * h = q * (X * Y) + e * Y
    BY <1>1, <1>5, <1>6
  <2> QED BY <1>5, <2>1 DEF Fields
<1>8. q \in {0, 1}
  <2> HIDE DEF q, e, f
  <2>1. e * Y + f \in 0 .. X * Y - 1 /\ X * Y \in Nat /\ X * Y >= 1
    <3>1. (e + 1) * Y <= X * Y /\ (e + 1) * Y = e * Y + Y
      BY <1>1, <1>6 DEF e
    <3>2. e * Y \in Nat /\ X * Y \in Nat /\ X * Y >= 1
      BY <1>1, <1>6 DEF e
    <3> QED BY <3>1, <3>2, <1>5, <1>1 DEF f
  <2>2. q \in Int
    BY <1>6 DEF q
  <2> DEFINE Z == X * Y
             l == e * Y + f
  <2>3. Z \in Nat /\ Z >= 1 /\ l \in 0 .. Z - 1 /\ r < 2 * Z
    BY <2>1, <1>3
  <2>4. r = q * Z + l
    <3>1. q * (X * Y) \in Int /\ e * Y \in Int /\ f \in Int
      BY <1>1, <1>5, <1>6, <2>2 DEF e, f
    <3> QED BY <1>7, <3>1
  <2> HIDE DEF Z, l
  <2>5. ~(q >= 2)
    <3> SUFFICES ASSUME q >= 2 PROVE FALSE
      OBVIOUS
    <3>1. q * Z >= 2 * Z
      BY <2>2, <2>3
    <3> QED BY <3>1, <2>3, <2>2, <2>4
  <2>6. ~(q < 0)
    <3> SUFFICES ASSUME q <= -1 PROVE FALSE
      BY <2>2
    <3>1. q * Z <= -Z
      BY <2>2, <2>3
    <3> QED BY <3>1, <2>3, <1>3, <2>2, <2>4
  <2> QED BY <2>2, <2>5, <2>6
<1>9. t = q
  <2>1. e \in 0 .. X - 1 /\ f \in 0 .. Y - 1
    BY <1>1, <1>5, <1>6
  <2> HIDE DEF q, e, f
  <2>2. r = Fields(q, X, Y, e, f)
    BY <1>7
  <2>3. Splits(r, q, X, Y, e, f)
    BY <1>1, <1>8, <2>1, <2>2, FieldsOf
  <2> QED BY <2>3 DEF Splits, t
<1>10. Sign(r) = q
  BY <1>4, <1>8, <1>9
<1>11. Exp(r) = e /\ Frac(r) = f /\ e \in 0 .. X - 1 /\ f \in 0 .. Y - 1
  BY <1>1, <1>4, <1>5, <1>6
<1> HIDE DEF q, e, f, t
<1> QED BY <1>2, <1>7, <1>8, <1>10, <1>11 DEF Pack, X, Y

----------------------------------------------------------------------------
(* The short formats in a register, and the conversions to memory and back. *)

\* The exponents of a short format in a register: a window around the bias.
Half == 2^(SExpBits - 1)
ShortExps == Bias - Half + 1 .. Bias + Half - 1

\* The powers behind the two biases.
LEMMA ExpPowers ==
  /\ Half \in Nat /\ Half >= 2 /\ Bias \in Nat /\ 2 * Half <= Bias
  /\ 2^SExpBits = 2 * Half /\ 2^ExpBits = 2 * Bias
  /\ \E k \in Nat : Bias = Half * k
<1>1. /\ SExpBits - 1 \in Nat /\ ExpBits - 1 \in Nat /\ SExpBits - 1 < ExpBits - 1
      /\ SExpBits - 1 >= 1 /\ SExpBits - 1 + 1 = SExpBits /\ ExpBits - 1 + 1 = ExpBits
  BY Widths
<1>2. Half \in Nat /\ Bias \in Nat
  BY <1>1, PowPos DEF Half, Bias
<1>3. 2 * Half <= Bias
  BY <1>1, PowMono DEF Half, Bias
<1>4. Half >= 2
  <2>1. 2^1 <= 2^(SExpBits - 1)
    BY <1>1, PowMono
  <2> QED BY <2>1 DEF Half
<1>5. 2^SExpBits = 2 * Half /\ 2^ExpBits = 2 * Bias
  BY <1>1, TwoPowSucc DEF Half, Bias
<1>6. Bias = Half * 2^((ExpBits - 1) - (SExpBits - 1)) /\ (ExpBits - 1) - (SExpBits - 1) \in Nat
  <2> DEFINE i == SExpBits - 1
             j == ExpBits - 1
  <2>1. i \in Nat /\ j \in Nat /\ i <= j /\ j - i \in Nat
    BY <1>1
  <2> HIDE DEF i, j
  <2>2. 2^j = 2^i * 2^(j - i)
    BY <2>1, PowSplit
  <2> QED BY <2>1, <2>2 DEF i, j, Half, Bias
<1>7. \E k \in Nat : Bias = Half * k
  BY <1>6, PowPos
<1> QED BY <1>2, <1>3, <1>4, <1>5, <1>7

\* A multiple of d and a rest.
At(d, k, f) == d * k + f

\* Quotient and remainder of a multiple and a rest.
LEMMA RestOf ==
  ASSUME NEW d \in Nat, d >= 1, NEW k \in Int, NEW f \in 0 .. d - 1
  PROVE  At(d, k, f) % d = f /\ At(d, k, f) \div d = k
<1> DEFINE x == At(d, k, f)
<1>1. x \in Int /\ d * k <= x /\ x < d * (k + 1) /\ x - d * k = f
  <2>1. d * k \in Int /\ d * (k + 1) = d * k + d
    OBVIOUS
  <2> QED BY <2>1 DEF At
<1> HIDE DEF x
<1>2. x % d = f /\ x \div d = k
  BY <1>1, DivUnique
<1> QED BY <1>2 DEF x

\* The window narrows to the nonzero short exponents, and widens back.
LEMMA CollapseExpand ==
  ASSUME NEW e \in ShortExps
  PROVE  /\ CollapseExp(e) \in 1 .. 2^SExpBits - 1 /\ ExpandExp(CollapseExp(e)) = e
         /\ CollapseExp(e) = 2^SExpBits - 1 => e = Bias + Half - 1
<1>1. PICK k \in Int : Bias = Half * k
  BY ExpPowers
<1>2. /\ Half \in Nat /\ Half >= 2 /\ Bias \in Nat /\ 2 * Half <= Bias /\ 2^SExpBits = 2 * Half
      /\ Half >= 1 /\ Bias >= 1 /\ 1 \in Int /\ 0 \in Int
  BY ExpPowers
<1>3. e \in Nat
  BY <1>2 DEF ShortExps
<1>4. CollapseExp(e) = ((e \div Bias) % 2) * Half + (e % Half)
  BY DEF CollapseExp, Bits, Half, Bias
<1>5. ASSUME NEW c \in Int
      PROVE ExpandExp(c) = IF c >= Half THEN Bias + (c % Half) ELSE Bias - Half + c
  BY DEF ExpandExp, Half, Bias
<1>6. CASE e >= Bias
  <2> DEFINE f == e - Bias
  <2>1. f \in 0 .. Half - 1 /\ e = At(Half, k, f) /\ f \in 0 .. Bias - 1 /\ e = At(Bias, 1, f)
        /\ e = Bias + f
    BY <1>1, <1>2, <1>6 DEF ShortExps, At
  <2> HIDE DEF f
  <2>2. e % Half = f
    BY <1>2, <2>1, RestOf
  <2>3. e \div Bias = 1
    BY <1>2, <2>1, RestOf
  <2>4. CollapseExp(e) = Half + f
    BY <1>2, <1>4, <2>1, <2>2, <2>3
  <2>5. (Half + f) % Half = f
    <3>1. Half + f = At(Half, 1, f)
      BY <1>2, <2>1 DEF At
    <3> QED BY <3>1, <1>2, <2>1, RestOf
  <2>6. Half + f \in Int /\ Half + f >= Half
    BY <1>2, <2>1
  <2>7. ExpandExp(Half + f) = Bias + f
    BY <1>5, <2>5, <2>6
  <2> QED BY <1>2, <2>1, <2>4, <2>7
<1>7. CASE e < Bias
  <2> DEFINE f == e - Bias + Half
  <2>1. f \in 1 .. Half - 1 /\ e = At(Half, k - 1, f) /\ e \in 0 .. Bias - 1 /\ e = At(Bias, 0, e)
    <3>1. Half * (k - 1) = Half * k - Half
      BY <1>2
    <3> QED BY <3>1, <1>1, <1>2, <1>3, <1>7 DEF ShortExps, At
  <2>2. f \in 0 .. Half - 1 /\ k - 1 \in Int
    BY <1>2, <2>1
  <2> HIDE DEF f
  <2>3. e % Half = f
    BY <1>2, <2>1, <2>2, RestOf
  <2>4. e \div Bias = 0
    BY <1>2, <2>1, RestOf
  <2>5. CollapseExp(e) = f
    BY <1>2, <1>4, <2>1, <2>3, <2>4
  <2>6. e = Bias - Half + f
    BY <1>2, <1>3 DEF f
  <2>7. f \in Int /\ ~(f >= Half)
    BY <1>2, <2>1
  <2>8. ExpandExp(f) = Bias - Half + f
    BY <1>5, <2>7
  <2> QED BY <1>2, <2>1, <2>5, <2>6, <2>8
<1> QED BY <1>3, <1>2, <1>6, <1>7

\* The powers behind the fields of a longword in memory.
LEMMA MemPowers ==
  /\ 2^SExpBits \in Nat /\ 2^SExpBits >= 1 /\ 2^SFracBits \in Nat /\ 2^SFracBits >= 1
  /\ 2^(SExpBits + SFracBits) = 2^SExpBits * 2^SFracBits
  /\ 2^LongBits = 2 * (2^SExpBits * 2^SFracBits)
  /\ 2^Pad \in Nat /\ 2^Pad >= 1 /\ 2^FracBits = 2^SFracBits * 2^Pad
<1>1. SExpBits + SFracBits \in Nat /\ LongBits = SExpBits + SFracBits + 1 /\ SFracBits <= FracBits
  BY Widths DEF LongBits
<1>2. 2^LongBits = 2 * 2^(SExpBits + SFracBits)
  BY <1>1, TwoPowSucc
<1>3. 2^FracBits = 2^SFracBits * 2^Pad
  BY <1>1, Widths, PowSplit DEF Pad
<1> QED BY <1>2, <1>3, Widths, PowPos, PowAdd

\* The fields of a longword are what MemPack put together.
LEMMA MemPackFields ==
  ASSUME NEW s \in {0, 1}, NEW e \in 0 .. 2^SExpBits - 1, NEW f \in 0 .. 2^SFracBits - 1
  PROVE  /\ MemPack(s, e, f) \in 0 .. 2^LongBits - 1
         /\ MemSign(MemPack(s, e, f)) = s /\ MemExp(MemPack(s, e, f)) = e
         /\ MemFrac(MemPack(s, e, f)) = f
<1> DEFINE r == MemPack(s, e, f)
           X == 2^SExpBits
           Y == 2^SFracBits
<1>1. X \in Nat /\ Y \in Nat /\ X >= 1 /\ Y >= 1 /\ e \in 0 .. X - 1 /\ f \in 0 .. Y - 1
  BY MemPowers
<1>2. 2^(SExpBits + SFracBits) = X * Y /\ 2^1 = 2 /\ 2^0 = 1 /\ 2^LongBits = 2 * (X * Y)
  BY MemPowers
<1> HIDE DEF X, Y
<1>3. r = Fields(s, X, Y, e, f)
  BY <1>2 DEF MemPack, Y, Fields
<1> HIDE DEF r
<1>4. Splits(r, s, X, Y, e, f)
  BY <1>3, <1>1, FieldsOf
<1>5. /\ r \in 0 .. 2 * (X * Y) - 1 /\ r \div (X * Y) = s /\ r \div Y = s * X + e
      /\ r % Y = f /\ (s * X + e) % X = e
  BY <1>4 DEF Splits
<1>6. MemSign(r) = s
  BY <1>2, <1>5 DEF MemSign, Bits
<1>7. MemExp(r) = e
  BY <1>5 DEF MemExp, Bits, X, Y
<1>8. r \in Nat
  BY <1>1, <1>2, <1>5
<1>9. MemFrac(r) = f
  BY <1>2, <1>5, <1>8 DEF MemFrac, Bits, Y
<1> QED BY <1>2, <1>5, <1>6, <1>7, <1>9 DEF r

\* A short fraction at the top of the long one.
LEMMA PadFrac ==
  ASSUME NEW f \in 0 .. 2^SFracBits - 1
  PROVE  f * 2^Pad \in 0 .. 2^FracBits - 1 /\ (f * 2^Pad) \div 2^Pad = f
<1> DEFINE d == 2^Pad
           n == 2^SFracBits
<1>1. d \in Nat /\ d >= 1 /\ n \in Nat /\ 2^FracBits = n * d /\ f \in Int /\ f \in 0 .. n - 1
  BY MemPowers
<1> HIDE DEF d, n
<1>2. 0 \in 0 .. d - 1
  BY <1>1
<1>3. At(d, f, 0) \div d = f
  BY <1>1, <1>2, RestOf
<1>4. At(d, f, 0) = f * d
  BY <1>1 DEF At
<1>5. f * d >= 0 /\ f * d + d <= n * d
  <2>1. (f + 1) * d <= n * d /\ (f + 1) * d = f * d + d /\ f * d >= 0
    BY <1>1
  <2> QED BY <2>1
<1>6. f * d \in 0 .. n * d - 1
  <2>1. f * d \in Int /\ n * d \in Int
    BY <1>1
  <2> QED BY <1>1, <1>5, <2>1
<1> QED BY <1>1, <1>3, <1>4, <1>6 DEF d

\* Short exponents are neither the least nor the greatest of a register.
LEMMA ShortInLong ==
  /\ \A e \in ShortExps : e \in 0 .. 2^ExpBits - 1 /\ e # 0 /\ e # ExpMax
  /\ ExpMax \in 0 .. 2^ExpBits - 1 /\ ExpMax # 0
  /\ MemExpMax \in 1 .. 2^SExpBits - 1 /\ 0 \in 0 .. 2^SExpBits - 1
  /\ 0 \in 0 .. 2^SFracBits - 1 /\ 0 \in 0 .. 2^ExpBits - 1 /\ 0 \in 0 .. 2^FracBits - 1
<1>1. /\ 2^ExpBits = 2 * Bias /\ Bias \in Nat /\ Half \in Nat /\ 2 * Half <= Bias
      /\ Half >= 2 /\ 2^SExpBits = 2 * Half
  BY ExpPowers
<1> QED BY <1>1, MemPowers, RegPowers DEF ShortExps, ExpMax, MemExpMax

\* Zero and the numbers of a short format, as register images.
ShortZero(r) == \E s \in {0, 1} : r = Pack(s, 0, 0)
ShortNumber(r, exps) ==
  \E s \in {0, 1}, e \in exps, f \in 0 .. 2^SFracBits - 1 : r = Pack(s, e, f * 2^Pad)

\* A number of F comes back from memory as it was.
LEMMA ReloadsF ==
  ASSUME NEW r, ShortZero(r) \/ ShortNumber(r, ShortExps)
  PROVE  ConvertFToRegister(ConvertFToMemory(r)) = r
<1>1. CASE ShortZero(r)
  <2>1. PICK s \in {0, 1} : r = Pack(s, 0, 0)
    BY <1>1 DEF ShortZero
  <2>2. Exp(r) = 0 /\ Sign(r) = s
    BY <2>1, PackFields, ShortInLong
  <2> DEFINE m == MemPack(s, 0, 0)
  <2>3. ConvertFToMemory(r) = m
    BY <2>2 DEF ConvertFToMemory
  <2>4. MemSign(m) = s /\ MemExp(m) = 0
    BY MemPackFields, ShortInLong
  <2> HIDE DEF m
  <2> QED BY <2>1, <2>3, <2>4 DEF ConvertFToRegister
<1>2. CASE ShortNumber(r, ShortExps)
  <2>1. PICK s \in {0, 1}, e \in ShortExps, f \in 0 .. 2^SFracBits - 1 : r = Pack(s, e, f * 2^Pad)
    BY <1>2 DEF ShortNumber
  <2>2. f * 2^Pad \in 0 .. 2^FracBits - 1 /\ (f * 2^Pad) \div 2^Pad = f
    BY PadFrac
  <2>3. e \in 0 .. 2^ExpBits - 1 /\ e # 0
    BY ShortInLong
  <2>4. Exp(r) = e /\ Sign(r) = s /\ Frac(r) = f * 2^Pad
    BY <2>1, <2>2, <2>3, PackFields
  <2> DEFINE c == CollapseExp(e)
             m == MemPack(s, c, f)
  <2>5. ConvertFToMemory(r) = m
    BY <2>2, <2>3, <2>4 DEF ConvertFToMemory
  <2>6. c \in 1 .. 2^SExpBits - 1 /\ ExpandExp(c) = e
    BY CollapseExpand
  <2> HIDE DEF c
  <2>7. c \in 0 .. 2^SExpBits - 1 /\ c # 0
    BY <2>6, MemPowers
  <2>8. MemSign(m) = s /\ MemExp(m) = c /\ MemFrac(m) = f
    BY <2>7, MemPackFields
  <2> HIDE DEF m
  <2> QED BY <2>1, <2>5, <2>6, <2>7, <2>8 DEF ConvertFToRegister
<1> QED BY <1>1, <1>2

\* In S the top exponent is that of infinities and NaNs, in memory and in a register.
SExps == (ShortExps \ {Bias + Half - 1}) \cup {ExpMax}

\* A number of S comes back from memory as it was.
LEMMA ReloadsS ==
  ASSUME NEW r, ShortZero(r) \/ ShortNumber(r, SExps)
  PROVE  ConvertSToRegister(ConvertSToMemory(r)) = r
<1>1. CASE ShortZero(r)
  <2>1. PICK s \in {0, 1} : r = Pack(s, 0, 0)
    BY <1>1 DEF ShortZero
  <2>2. Exp(r) = 0 /\ Sign(r) = s
    BY <2>1, PackFields, ShortInLong
  <2> DEFINE m == MemPack(s, 0, 0)
  <2>3. ConvertSToMemory(r) = m
    BY <2>2 DEF ConvertSToMemory
  <2>4. MemSign(m) = s /\ MemExp(m) = 0
    BY MemPackFields, ShortInLong
  <2> HIDE DEF m
  <2> QED BY <2>1, <2>3, <2>4 DEF ConvertSToRegister
<1>2. CASE ShortNumber(r, SExps)
  <2>1. PICK s \in {0, 1}, e \in SExps, f \in 0 .. 2^SFracBits - 1 : r = Pack(s, e, f * 2^Pad)
    BY <1>2 DEF ShortNumber
  <2>2. f * 2^Pad \in 0 .. 2^FracBits - 1 /\ (f * 2^Pad) \div 2^Pad = f
    BY PadFrac
  <2>3. e \in 0 .. 2^ExpBits - 1 /\ e # 0
    BY ShortInLong DEF SExps
  <2>4. Exp(r) = e /\ Sign(r) = s /\ Frac(r) = f * 2^Pad
    BY <2>1, <2>2, <2>3, PackFields
  <2> DEFINE c == IF e = ExpMax THEN MemExpMax ELSE CollapseExp(e)
             m == MemPack(s, c, f)
  <2>5. ConvertSToMemory(r) = m
    BY <2>2, <2>3, <2>4 DEF ConvertSToMemory
  <2>6. c \in 1 .. 2^SExpBits - 1 /\ e = IF c = MemExpMax THEN ExpMax ELSE ExpandExp(c)
    <3>1. CASE e = ExpMax
      BY <3>1, ShortInLong
    <3>2. CASE e # ExpMax
      <4>1. e \in ShortExps /\ e # Bias + Half - 1
        BY <3>2 DEF SExps
      <4>2. /\ CollapseExp(e) \in 1 .. 2^SExpBits - 1 /\ ExpandExp(CollapseExp(e)) = e
            /\ CollapseExp(e) # 2^SExpBits - 1
        BY <4>1, CollapseExpand
      <4> QED BY <3>2, <4>2 DEF MemExpMax
    <3> QED BY <3>1, <3>2
  <2> HIDE DEF c
  <2>7. c \in 0 .. 2^SExpBits - 1 /\ c # 0
    BY <2>6, MemPowers
  <2>8. MemSign(m) = s /\ MemExp(m) = c /\ MemFrac(m) = f
    BY <2>7, MemPackFields
  <2> HIDE DEF m
  <2> QED BY <2>1, <2>5, <2>6, <2>7, <2>8 DEF ConvertSToRegister
<1> QED BY <1>1, <1>2

-----------------------------------------------------------------------------
\* G: four words swapped end for end, twice.
LEMMA FourWords ==
  ASSUME NEW v \in Nat, v >= 1, NEW x \in 0 .. v * (v * (v * v)) - 1
  PROVE  \E a, b, c, d \in 0 .. v - 1 : x = At(v, At(v, At(v, a, b), c), d)
<1>1. x \in Nat
  BY DEF At
<1> DEFINE x1 == x \div v
           x2 == x1 \div v
           x3 == x2 \div v
<1>2. x1 \in Int /\ x % v \in Nat /\ x % v < v /\ x = At(v, x1, x % v)
  BY <1>1, DivMod DEF At
<1> HIDE DEF x1
<1>3. x2 \in Int /\ x1 % v \in Nat /\ x1 % v < v /\ x1 = At(v, x2, x1 % v)
  BY <1>2, DivMod DEF At
<1> HIDE DEF x2
<1>4. x3 \in Int /\ x2 % v \in Nat /\ x2 % v < v /\ x2 = At(v, x3, x2 % v)
  BY <1>3, DivMod DEF At
<1> HIDE DEF x3
<1>5. ASSUME NEW y \in Int, NEW n \in Nat, NEW f \in 0 .. v - 1, At(v, y, f) \in 0 .. v * n - 1
      PROVE  y \in 0 .. n - 1
  <2>1. v * y + f \in 0 .. v * n - 1
    BY <1>5 DEF At
  <2>2. ~(y >= n)
    <3> SUFFICES ASSUME y >= n PROVE FALSE
      OBVIOUS
    <3>1. v * y >= v * n
      OBVIOUS
    <3> QED BY <2>1, <3>1
  <2>3. ~(y <= -1)
    <3> SUFFICES ASSUME y <= -1 PROVE FALSE
      OBVIOUS
    <3>1. v * y <= -v
      OBVIOUS
    <3> QED BY <2>1, <3>1
  <2> QED BY <2>2, <2>3
<1>6. v * (v * v) \in Nat /\ v * v \in Nat
  OBVIOUS
<1>7. x1 \in 0 .. v * (v * v) - 1
  <2> DEFINE n == v * (v * v)
  <2>1. n \in Nat /\ x \in 0 .. v * n - 1 /\ x % v \in 0 .. v - 1
    BY <1>2, <1>6
  <2> HIDE DEF n
  <2>2. x1 \in 0 .. n - 1
    BY <1>2, <1>5, <2>1
  <2> QED BY <2>2 DEF n
<1>8. x2 \in 0 .. v * v - 1
  <2> DEFINE n == v * v
  <2>1. n \in Nat /\ x1 \in 0 .. v * n - 1 /\ x1 % v \in 0 .. v - 1
    BY <1>3, <1>6, <1>7
  <2> HIDE DEF n
  <2>2. x2 \in 0 .. n - 1
    BY <1>3, <1>5, <2>1
  <2> QED BY <2>2 DEF n
<1>9. x3 \in 0 .. v - 1
  <2>1. x2 % v \in 0 .. v - 1
    BY <1>4
  <2> QED BY <1>4, <1>5, <1>8, <2>1
<1>10. /\ x % v \in 0 .. v - 1 /\ x1 % v \in 0 .. v - 1 /\ x2 % v \in 0 .. v - 1
       /\ x = At(v, At(v, At(v, x3, x2 % v), x1 % v), x % v)
  BY <1>2, <1>3, <1>4
<1> DEFINE b == x2 % v
           c == x1 % v
           d == x % v
<1>11. x = At(v, At(v, At(v, x3, b), c), d) /\ b \in 0 .. v - 1 /\ c \in 0 .. v - 1 /\ d \in 0 .. v - 1
  BY <1>10
<1> HIDE DEF b, c, d
<1>12. \E y, z, u, p \in 0 .. v - 1 : x = At(v, At(v, At(v, y, z), u), p)
  <2> USE <1>9, <1>11
  <2> WITNESS x3 \in 0 .. v - 1, b \in 0 .. v - 1, c \in 0 .. v - 1, d \in 0 .. v - 1
  <2> QED BY <1>11
<1> QED BY <1>12, Zenon

\* Swapping reverses four words.
LEMMA SwapWordsOf ==
  ASSUME NEW a, NEW b, NEW c, NEW d,
         LET v == 2^(RegBits \div 4) IN
         a \in 0 .. v - 1 /\ b \in 0 .. v - 1 /\ c \in 0 .. v - 1 /\ d \in 0 .. v - 1
  PROVE  LET v == 2^(RegBits \div 4) IN
         SwapWords(At(v, At(v, At(v, a, b), c), d)) = At(v, At(v, At(v, d, c), b), a)
<1> DEFINE w == RegBits \div 4
           v == 2^w
           x == At(v, At(v, At(v, a, b), c), d)
<1>1. w \in Nat
  BY Widths
<1> HIDE DEF w
<1>2. /\ v \in Nat /\ v >= 1 /\ 2^(0 * w) = 1 /\ 2^(1 * w) = v
      /\ 2^(2 * w) = v * v /\ 2^(3 * w) = v * (v * v)
  <2>1. w + w \in Nat /\ 2^(w + w) = v * v /\ 2^(w + (w + w)) = v * 2^(w + w)
    BY <1>1, PowAdd
  <2>2. 0 * w = 0 /\ 1 * w = w /\ 2 * w = w + w /\ 3 * w = w + (w + w)
    BY <1>1
  <2>3. v \in Nat /\ v >= 1
    BY <1>1, PowPos
  <2>4. 2^0 = 1
    OBVIOUS
  <2>5. 2^(0 * w) = 1 /\ 2^(1 * w) = v
    BY <2>2, <2>4, Zenon
  <2>6. 2^(2 * w) = v * v
    BY <2>1, <2>2, Zenon
  <2>7. 2^(3 * w) = v * (v * v)
    BY <2>1, <2>2, Zenon
  <2> QED BY <2>3, <2>5, <2>6, <2>7, Zenon
<1>3. a \in 0 .. v - 1 /\ b \in 0 .. v - 1 /\ c \in 0 .. v - 1 /\ d \in 0 .. v - 1
  BY DEF w
<1> HIDE DEF v
<1> DEFINE y == At(v, At(v, a, b), c)
           z == At(v, a, b)
<1>4. z \in Nat /\ y \in Nat /\ x \in Nat
  <2>1. z \in Nat
    BY <1>2, <1>3 DEF At
  <2>2. ASSUME NEW k \in Nat, NEW f \in 0 .. v - 1 PROVE At(v, k, f) \in Nat
    BY <1>2 DEF At
  <2> QED BY <1>3, <2>1, <2>2
<1> HIDE DEF z
<1>5. x % v = d /\ x \div v = y /\ y % v = c /\ y \div v = z /\ z % v = b /\ z \div v = a
  <2>1. y \in Int /\ z \in Int /\ a \in Int
    BY <1>4, <1>3
  <2>2. x = At(v, y, d) /\ y = At(v, z, c) /\ z = At(v, a, b)
    BY DEF z
  <2> HIDE DEF x, y
  <2>3. v \in Nat /\ v >= 1
    BY <1>2
  <2>4. x % v = d /\ x \div v = y
    BY <1>3, <2>1, <2>2, <2>3, RestOf, Zenon
  <2>5. y % v = c /\ y \div v = z
    BY <1>3, <2>1, <2>2, <2>3, RestOf, Zenon
  <2>6. z % v = b /\ z \div v = a
    BY <1>3, <2>1, <2>2, <2>3, RestOf, Zenon
  <2> QED BY <2>4, <2>5, <2>6
<1> HIDE DEF x, y
<1>6. ASSUME NEW n \in Nat PROVE n \div (v * v) = (n \div v) \div v
  <2> DEFINE n1 == n \div v
             n2 == n1 \div v
  <2>1. n1 \in Int /\ n % v \in Nat /\ n % v < v /\ n = v * n1 + (n % v)
    BY <1>2, DivMod
  <2> HIDE DEF n1
  <2>2. n2 \in Int /\ n1 % v \in Nat /\ n1 % v < v /\ n1 = v * n2 + (n1 % v)
    BY <1>2, <2>1, DivMod
  <2> HIDE DEF n2
  <2> DEFINE u == v * v
             r1 == n1 % v
             r0 == n % v
  <2>3. u \in Nat /\ u >= 1
    BY <1>2
  <2>4. u * n2 <= n /\ n < u * (n2 + 1)
    <3> HIDE DEF r1, r0
    <3>1. r1 \in Nat /\ r1 <= v - 1 /\ r0 \in Nat /\ r0 <= v - 1
      BY <2>1, <2>2, <1>2 DEF r1, r0
    <3>2. n = u * n2 + v * r1 + r0
      <4>1. n = v * n1 + r0 /\ n1 = v * n2 + r1
        BY <2>1, <2>2 DEF r1, r0
      <4>2. v * (v * n2 + r1) = (v * v) * n2 + v * r1
        BY <1>2, <2>2, <3>1
      <4> QED BY <4>1, <4>2
    <3>3. v * r1 >= 0 /\ v * r1 <= v * (v - 1) /\ v * (v - 1) = u - v
      BY <1>2, <3>1
    <3>4. u * (n2 + 1) = u * n2 + u /\ u * n2 \in Int
      BY <2>2, <2>3
    <3>5. v * r1 \in Int
      BY <1>2, <3>1
    <3> HIDE DEF u
    <3> QED BY <1>2, <2>3, <3>1, <3>2, <3>3, <3>4, <3>5
  <2> HIDE DEF u
  <2>5. n \in Int
    OBVIOUS
  <2>6. n \div u = n2
    BY <2>2, <2>3, <2>4, <2>5, DivUnique
  <2> QED BY <2>6 DEF u, n1, n2
<1>7. x \div 1 = x
  BY <1>4
<1>8. x \div (v * v) = z
  BY <1>4, <1>5, <1>6
<1>9. x \div (v * (v * v)) = a
  <2>1. y \div (v * v) = a
    BY <1>4, <1>5, <1>6
  <2> DEFINE u == v * v
  <2>2. u \in Nat /\ u >= 1 /\ v * u \in Nat /\ v * u >= 1
    BY <1>2
  <2>3. x = v * y + d /\ y = u * a + (y % u) /\ y % u \in Nat /\ y % u < u
    <3>1. x = v * y + d
      BY <1>2, <1>4, <1>5, DivMod
    <3> HIDE DEF u
    <3>2. y = u * (y \div u) + (y % u) /\ y % u \in Nat /\ y % u < u
      BY <1>4, <2>2, DivMod
    <3>3. y \div u = a
      BY <2>1 DEF u
    <3> QED BY <3>1, <3>2, <3>3
  <2> HIDE DEF u
  <2> DEFINE r == y % u
             p == v * u
  <2>4. p * a <= x /\ x < p * (a + 1)
    <3> HIDE DEF r
    <3>1. r \in Nat /\ r <= u - 1
      BY <2>2, <2>3 DEF r
    <3>2. x = p * a + v * r + d
      <4>1. x = v * (u * a + r) + d
        BY <2>3 DEF r
      <4>2. v * (u * a + r) = (v * u) * a + v * r
        BY <1>2, <1>3, <2>2, <3>1
      <4> QED BY <4>1, <4>2
    <3>3. v * r >= 0 /\ v * r <= v * (u - 1) /\ v * (u - 1) = p - v /\ v * r \in Int
      BY <1>2, <2>2, <3>1
    <3>4. p * (a + 1) = p * a + p /\ p * a \in Int /\ p \in Nat
      BY <1>2, <1>3, <2>2
    <3> HIDE DEF p
    <3> QED BY <1>2, <1>3, <3>1, <3>2, <3>3, <3>4
  <2>5. p \in Nat /\ p >= 1 /\ a \in Int /\ x \in Int
    BY <2>2, <1>3, <1>4
  <2> HIDE DEF p
  <2>6. x \div p = a
    BY <2>4, <2>5, DivUnique
  <2> QED BY <2>6 DEF p, u
<1>10. a % v = a
  <2>1. a = At(v, 0, a) /\ 0 \in Int
    BY <1>2, <1>3 DEF At
  <2> QED BY <1>2, <1>3, <2>1, RestOf
<1>11. SwapWords(x) = d * (v * (v * v)) + c * (v * v) + b * v + a
  BY <1>2, <1>5, <1>7, <1>8, <1>9, <1>10 DEF SwapWords, Bits, w, v
<1>12. d * (v * (v * v)) + c * (v * v) + b * v + a = At(v, At(v, At(v, d, c), b), a)
  BY <1>2, <1>3 DEF At
<1> QED BY <1>11, <1>12 DEF x, v, w

\* Swapping twice is nothing: a number of G comes back as it was.
LEMMA ReloadsG ==
  ASSUME NEW r \in Images
  PROVE  SwapWords(SwapWords(r)) = r
<1> DEFINE w == RegBits \div 4
           v == 2^w
<1>1. w \in Nat /\ RegBits = w + (w + (w + w))
  BY WidthAssumption, Widths DEF RegBits
<1>2. v \in Nat /\ v >= 1
  BY <1>1, PowPos
<1>3. 2^RegBits = v * (v * (v * v))
  <2>1. w + w \in Nat /\ w + (w + w) \in Nat
    BY <1>1
  <2> HIDE DEF w
  <2>2. 2^(w + w) = v * v
    BY <1>1, PowAdd
  <2>3. 2^(w + (w + w)) = v * 2^(w + w)
    BY <1>1, <2>1, PowAdd
  <2>4. 2^(w + (w + (w + w))) = v * 2^(w + (w + w))
    BY <1>1, <2>1, PowAdd
  <2> QED BY <1>1, <2>2, <2>3, <2>4
<1>4. PICK a, b, c, d \in 0 .. v - 1 : r = At(v, At(v, At(v, a, b), c), d)
  <2> HIDE DEF v
  <2>1. r \in 0 .. v * (v * (v * v)) - 1
    BY <1>3 DEF Images
  <2> QED BY <1>2, <2>1, FourWords
<1>5. SwapWords(r) = At(v, At(v, At(v, d, c), b), a)
  BY <1>4, SwapWordsOf
<1>6. SwapWords(At(v, At(v, At(v, d, c), b), a)) = r
  BY <1>4, SwapWordsOf
<1> QED BY <1>5, <1>6

----------------------------------------------------------------------------
(* Rounding to S: every result of SoftFloat in format S is a single.      *)

\* The bound on top bits is wide enough for sums and products.
LEMMA MaxLog2Type ==
  MaxLog2 \in Nat /\ MaxLog2 >= 3 * FracBits + 11 /\ MaxLog2 >= 2^ExpBits + 2 * FracBits + 6
BY Widths, RegPowers DEF MaxLog2

\* Log2 is the top bit.
LEMMA Log2Is ==
  ASSUME NEW n \in Nat, NEW h \in 0 .. MaxLog2, 2^h <= n, n < 2^(h + 1)
  PROVE  Log2(n) = h
<1>1. \A k \in 0 .. MaxLog2 : 2^k <= n /\ n < 2^(k + 1) => k = h
  BY TopBitUnique, MaxLog2Type
<1> QED BY <1>1 DEF Log2

\* Below the bound every number has a top bit.
LEMMA Log2Of ==
  ASSUME NEW n \in Nat, n >= 1, n < 2^(MaxLog2 + 1)
  PROVE  Log2(n) \in 0 .. MaxLog2 /\ Log2(n) \in Nat /\ 2^Log2(n) <= n /\ n < 2^(Log2(n) + 1)
<1>1. PICK h \in Nat : 2^h <= n /\ n < 2^(h + 1)
  BY TopBit
<1>2. h < MaxLog2 + 1
  <2>1. MaxLog2 + 1 \in Nat
    BY MaxLog2Type
  <2>2. 2^h \in Nat /\ 2^(MaxLog2 + 1) \in Nat
    BY <2>1, PowPos
  <2>3. 2^h < 2^(MaxLog2 + 1)
    BY <1>1, <2>2
  <2> QED BY <2>1, <2>3, PowMono
<1>3. h \in 0 .. MaxLog2
  BY <1>2, MaxLog2Type
<1>4. Log2(n) = h
  BY <1>1, <1>3, Log2Is
<1> QED BY <1>1, <1>3, <1>4

\* The top bit of a number between powers of two.
LEMMA Log2Between ==
  ASSUME NEW n \in Nat, n >= 1, n < 2^(MaxLog2 + 1)
  PROVE  /\ \A k \in Nat : n >= 2^k => Log2(n) >= k
         /\ \A k \in Nat : n < 2^k => Log2(n) < k
<1> DEFINE h == Log2(n)
<1>1. h \in Nat /\ 2^h <= n /\ n < 2^(h + 1)
  BY Log2Of
<1> HIDE DEF h
<1>2. ASSUME NEW k \in Nat, n >= 2^k PROVE h >= k
  <2>1. 2^k < 2^(h + 1)
    BY <1>1, <1>2, PowPos
  <2> QED BY <1>1, <2>1, PowMono
<1>3. ASSUME NEW k \in Nat, n < 2^k PROVE h < k
  <2>1. 2^h < 2^k
    BY <1>1, <1>3, PowPos
  <2> QED BY <1>1, <2>1, PowMono
<1> QED BY <1>2, <1>3 DEF h

\* Every positive number below the square has an integer root.
LEMMA RootExists ==
  ASSUME NEW n \in Nat
  PROVE  \E r \in Nat : r * r <= n /\ n < (r + 1) * (r + 1)
<1> DEFINE P == {k \in Nat : \E r \in Nat : r * r <= k /\ k < (r + 1) * (r + 1)}
<1>1. 0 \in P
  <2>1. 0 * 0 <= 0 /\ 0 < (0 + 1) * (0 + 1)
    OBVIOUS
  <2> QED BY <2>1
<1>2. ASSUME NEW k \in P PROVE k + 1 \in P
  <2>1. PICK r \in Nat : r * r <= k /\ k < (r + 1) * (r + 1)
    OBVIOUS
  <2>2. CASE k + 1 < (r + 1) * (r + 1)
    <3>1. r * r <= k + 1 /\ r * r \in Nat
      BY <2>1
    <3> QED BY <2>2, <3>1
  <2>3. CASE ~(k + 1 < (r + 1) * (r + 1))
    <3>1. (r + 1) * (r + 1) \in Nat
      OBVIOUS
    <3>2. (r + 1) * (r + 1) = k + 1
      BY <2>1, <2>3, <3>1
    <3>3. (r + 1 + 1) * (r + 1 + 1) = (r + 1) * (r + 1) + (2 * r + 3)
      OBVIOUS
    <3>4. (r + 1) * (r + 1) <= k + 1 /\ k + 1 < (r + 1 + 1) * (r + 1 + 1)
      BY <3>1, <3>2, <3>3
    <3> QED BY <3>4
  <2> QED BY <2>2, <2>3
<1>3. P \in SUBSET Nat
  OBVIOUS
<1> HIDE DEF P
<1>4. n \in P
  BY <1>1, <1>2, <1>3, SetInduction
<1> QED BY <1>4 DEF P

\* The biases and exponents of S in those of a register.
LEMMA ShortBias ==
  /\ TBias = Bias - 1 /\ SBias = Half - 1
  /\ S.frac = SFracBits /\ S.min = 2 - Half /\ S.max = Half - 1
  /\ Half \in Nat /\ Bias \in Nat /\ Half >= 2 /\ 2 * Half <= Bias
  /\ SFracBits + Half <= Bias
  /\ ExpandExp(1) = Bias - Half + 1
  /\ 2^ExpBits = 2 * Bias /\ ExpMax = 2 * Bias - 1
<1>1. Half \in Nat /\ Bias \in Nat /\ Half >= 2 /\ 2 * Half <= Bias /\ 2^ExpBits = 2 * Bias
  BY ExpPowers
<1>2. TBias = Bias - 1 /\ SBias = Half - 1
  BY DEF TBias, SBias, Bias, Half
<1>3. S.frac = SFracBits /\ S.min = 1 - SBias /\ S.max = SBias
  BY DEF S
<1>4. SFracBits + Half <= Bias
  BY WidthAssumption DEF Half, Bias
<1>5. ExpandExp(1) = IF 1 >= Half THEN Bias + (1 % Half) ELSE Bias - Half + 1
  BY DEF ExpandExp, Half, Bias
<1> QED BY <1>1, <1>2, <1>3, <1>4, <1>5 DEF ExpMax

\* What a single result can be: a number of S, or denormal.
Single(r) == r \in Images /\ (DenormalS(r) \/ ShortZero(r) \/ ShortNumber(r, SExps))

\* An exponent of S and a short fraction make a single.
LEMMA PackSingle ==
  ASSUME NEW s \in {0, 1}, NEW e \in Int, e >= 1, e <= Bias + Half - 2,
         NEW f \in 0 .. 2^SFracBits - 1
  PROVE  Single(Pack(s, e, f * 2^Pad))
<1> DEFINE r == Pack(s, e, f * 2^Pad)
<1>1. e \in 0 .. 2^ExpBits - 1
  BY ShortBias
<1>2. f * 2^Pad \in 0 .. 2^FracBits - 1
  BY PadFrac
<1>3. r \in Images /\ Exp(r) = e
  BY <1>1, <1>2, PackFields
<1>4. CASE e < Bias - Half + 1
  <2>1. DenormalS(r)
    BY <1>3, <1>4, ShortBias DEF DenormalS
  <2> QED BY <1>3, <2>1 DEF Single
<1>5. CASE e >= Bias - Half + 1
  <2>1. e \in SExps
    BY <1>5, ShortBias DEF SExps, ShortExps
  <2>2. ShortNumber(r, SExps)
    BY <2>1 DEF ShortNumber
  <2> QED BY <1>3, <2>2 DEF Single
<1> QED BY <1>4, <1>5, ShortBias

\* Zeros are singles.
LEMMA SingleZero ==
  ASSUME NEW s \in {0, 1}
  PROVE  Single(Pack(s, 0, 0))
BY PackFields, ShortInLong DEF Single, ShortZero

\* Infinities are singles.
LEMMA SingleInf ==
  ASSUME NEW s \in {0, 1}
  PROVE  Single(Inf(s))
<1>1. 0 \in 0 .. 2^SFracBits - 1 /\ 0 * 2^Pad = 0 /\ ExpMax \in SExps
  BY ShortInLong, MemPowers DEF SExps
<1>2. Inf(s) = Pack(s, ExpMax, 0 * 2^Pad)
  BY <1>1 DEF Inf
<1>3. ShortNumber(Inf(s), SExps)
  BY <1>1, <1>2 DEF ShortNumber
<1>4. Inf(s) \in Images
  BY ShortInLong, PackFields DEF Inf
<1> QED BY <1>3, <1>4 DEF Single

\* The NaN of an invalid operation is a single.
LEMMA SingleNaN == Single(NaN)
<1> DEFINE f == 2^(SFracBits - 1)
<1>1. f \in 0 .. 2^SFracBits - 1
  <2>1. SFracBits - 1 \in Nat /\ SFracBits - 1 < SFracBits /\ SFracBits \in Nat
    BY Widths
  <2> QED BY <2>1, PowPos, PowMono
<1>2. 2^(FracBits - 1) = f * 2^Pad
  <2>1. SFracBits - 1 \in Nat /\ Pad \in Nat /\ FracBits - 1 = (SFracBits - 1) + Pad
    BY Widths DEF Pad
  <2> QED BY <2>1, PowAdd
<1> HIDE DEF f
<1>3. ExpMax \in SExps /\ ExpMax \in 0 .. 2^ExpBits - 1
  BY ShortInLong DEF SExps
<1>4. NaN = Pack(0, ExpMax, f * 2^Pad)
  BY <1>2 DEF NaN
<1>5. ShortNumber(NaN, SExps)
  BY <1>1, <1>3, <1>4 DEF ShortNumber
<1>6. NaN \in Images
  BY <1>1, <1>3, <1>4, PadFrac, PackFields
<1> QED BY <1>5, <1>6 DEF Single

\* An integer of at most SFracBits + 1 bits, or the power above them, as an image.
LEMMA ImageSingle ==
  ASSUME NEW s \in {0, 1}, NEW n \in 0 .. 2^(SFracBits + 1), NEW lsb \in Int,
         lsb >= S.min - SFracBits, n # 0 => Log2(n) + lsb <= S.max
  PROVE  Single(Image(s, n, lsb))
<1>1. CASE n = 0
  <2>1. Image(s, n, lsb) = Pack(s, 0, 0)
    BY <1>1 DEF Image
  <2> QED BY <2>1, SingleZero
<1>2. CASE n # 0
  <2> DEFINE k == Log2(n)
             e == k + lsb + TBias
             sh == SFracBits + 1
  <2>1. sh \in Nat /\ sh < MaxLog2 + 1 /\ MaxLog2 + 1 \in Nat
    BY Widths, MaxLog2Type
  <2>2. n \in Nat /\ n >= 1 /\ n <= 2^sh /\ n < 2^(MaxLog2 + 1) /\ n < 2^(sh + 1)
    <3>1. 2^sh < 2^(MaxLog2 + 1) /\ 2^sh < 2^(sh + 1) /\ 2^sh \in Nat
      <4>1. 2 * 2^sh <= 2^(MaxLog2 + 1)
        BY <2>1, PowMono
      <4>2. 2 * 2^sh <= 2^(sh + 1)
        BY <2>1, TwoPowSucc, PowPos
      <4>3. 2^sh \in Nat /\ 2^sh >= 1 /\ 2^(MaxLog2 + 1) \in Nat /\ 2^(sh + 1) \in Nat
        BY <2>1, PowPos
      <4> QED BY <4>1, <4>2, <4>3
    <3>2. 2^(MaxLog2 + 1) \in Nat /\ 2^(sh + 1) \in Nat
      BY <2>1, PowPos
    <3> QED BY <1>2, <3>1, <3>2
  <2>3. k \in Nat /\ 2^k <= n /\ n < 2^(k + 1)
    BY <2>2, Log2Of
  <2>4. k < sh + 1
    BY <2>1, <2>2, Log2Between
  <2>5. k + lsb <= S.max
    BY <1>2
  <2> HIDE DEF k
  <2>6. e \in Int /\ e >= 1 /\ e <= Bias + Half - 2
    BY <2>3, <2>5, ShortBias, Widths
  <2>7. Image(s, n, lsb) = Pack(s, e, (n * 2^FracBits) \div 2^k - 2^FracBits)
    BY <1>2, <2>6 DEF Image, k
  <2>8. PICK f \in 0 .. 2^SFracBits - 1 : (n * 2^FracBits) \div 2^k - 2^FracBits = f * 2^Pad
    <3> DEFINE a == 2^k
               d == 2^Pad
               y == 2^FracBits
               z == 2^SFracBits
    <3>1. a \in Nat /\ a >= 1 /\ d \in Nat /\ d >= 1 /\ z \in Nat /\ z >= 1 /\ y = z * d /\ y \in Nat
      BY <2>3, PowPos, MemPowers, RegPowers
    <3>2. CASE k <= SFracBits
      <4> DEFINE b == 2^(SFracBits - k)
      <4>1. z = a * b
        BY <2>3, <3>2, Widths, PowSplit
      <4>2. b \in Nat /\ b >= 1
        <5>1. SFracBits - k \in Nat
          BY <2>3, <3>2, Widths
        <5> QED BY <5>1, PowPos
      <4>3. a <= n /\ n < 2 * a
        BY <2>3, TwoPowSucc
      <4> HIDE DEF a, b, d, y, z
      <4>4. n * y = At(a, n * (b * d), 0)
        <5>1. n * ((a * b) * d) = a * (n * (b * d))
          BY <2>2, <3>1, <4>2
        <5>2. n * y = n * ((a * b) * d)
          BY <3>1, <4>1
        <5>3. a * (n * (b * d)) \in Int
          BY <2>2, <3>1, <4>2
        <5> QED BY <5>1, <5>2, <5>3 DEF At
      <4>5. (n * y) \div a = n * (b * d)
        <5>1. n * (b * d) \in Int /\ 0 \in 0 .. a - 1
          BY <2>2, <3>1, <4>2
        <5> DEFINE u == n * (b * d)
        <5> HIDE DEF u
        <5>2. At(a, u, 0) \div a = u
          BY <3>1, <5>1, RestOf DEF u
        <5> QED BY <4>4, <5>2 DEF u
      <4>6. n * (b * d) - y = (n * b - z) * d
        <5>1. n * (b * d) = (n * b) * d /\ (n * b - z) * d = (n * b) * d - z * d
          BY <2>2, <3>1, <4>2
        <5> QED BY <3>1, <5>1
      <4>7. n * b - z \in 0 .. z - 1
        <5>1. n * b >= a * b
          BY <2>2, <3>1, <4>2, <4>3
        <5>2. (n + 1) * b <= (2 * a) * b /\ (n + 1) * b = n * b + b /\ (2 * a) * b = 2 * (a * b)
          BY <2>2, <3>1, <4>2, <4>3
        <5>3. n * b \in Int /\ a * b \in Int
          BY <2>2, <3>1, <4>2
        <5> QED BY <5>1, <5>2, <5>3, <4>1, <4>2
      <4>8. (n * y) \div a - y = (n * b - z) * d
        BY <4>5, <4>6
      <4> QED BY <4>7, <4>8 DEF a, d, y, z
    <3>3. CASE k > SFracBits
      <4>1. k = sh
        BY <2>3, <2>4, <3>3, Widths
      <4>2. n = a
        BY <2>2, <2>3, <4>1
      <4>3. 0 \in 0 .. z - 1 /\ 0 \in 0 .. a - 1
        BY <3>1
      <4> HIDE DEF a, d, y, z
      <4>4. n * y = a * y
        BY <4>2, Zenon
      <4>5. a \in Nat /\ a >= 1 /\ y \in Int
        BY <3>1
      <4>6. n * y = At(a, y, 0)
        BY <4>4, <4>5 DEF At
      <4>7. At(a, y, 0) \div a = y
        BY <4>3, <4>5, RestOf
      <4>8. (n * y) \div a - y = 0 * d
        BY <3>1, <4>6, <4>7
      <4> QED BY <4>3, <4>8 DEF a, d, y, z
    <3> QED BY <3>2, <3>3, <2>3, Widths
  <2> HIDE DEF e
  <2>9. Image(s, n, lsb) = Pack(s, e, f * 2^Pad)
    BY <2>7, <2>8
  <2> QED BY <2>6, <2>9, PackSingle
<1> QED BY <1>1, <1>2

\* What Round leaves in format S is a single.
LEMMA RoundSingle ==
  ASSUME NEW s \in {0, 1}, NEW q \in Nat, q >= 2^SFracBits, q < 2^(MaxLog2 + 1),
         NEW sticky, NEW e \in Int, NEW rm
  PROVE  Single(Round(s, q, sticky, e, S, rm).bits)
<1> DEFINE h == Log2(q)
           top == h + e
           lsb == (IF top < S.min THEN S.min ELSE top) - S.frac
           unit == 2^(lsb - e)
           up == RoundsUp(rm, s, (q \div unit) % 2 = 1, q % unit, unit \div 2, sticky)
           n == (q \div unit) + IF up THEN 1 ELSE 0
           away == rm = "near" \/ rm = IF s = 1 THEN "min" ELSE "max"
           big == Image(s, 2^(S.frac + 1) - 1, S.max - S.frac)
<1>1. Round(s, q, sticky, e, S, rm).bits =
        IF n # 0 /\ Log2(n) + lsb > S.max THEN IF away THEN Inf(s) ELSE big
        ELSE Image(s, n, lsb)
  BY DEF Round
<1>2. q >= 1
  BY PowPos, Widths
<1>3. h \in Nat /\ 2^h <= q /\ q < 2^(h + 1) /\ h >= SFracBits
  <2>1. h \in Nat /\ 2^h <= q /\ q < 2^(h + 1)
    BY <1>2, Log2Of
  <2>2. h >= SFracBits
    BY <1>2, Log2Between, Widths
  <2> QED BY <2>1, <2>2
<1> HIDE DEF h
<1>4. lsb \in Int /\ lsb - e \in Nat /\ lsb - e >= h - SFracBits /\ lsb >= S.min - SFracBits
  BY <1>3, ShortBias, Widths
<1> HIDE DEF top, lsb
<1>5. n \in 0 .. 2^(SFracBits + 1)
  <2> DEFINE sh == lsb - e
             z == 2^(SFracBits + 1)
  <2>1. sh \in Nat /\ SFracBits + 1 \in Nat /\ h + 1 \in Nat /\ h + 1 <= sh + (SFracBits + 1)
    BY <1>3, <1>4, Widths
  <2>2. unit \in Nat /\ unit >= 1 /\ z \in Nat /\ z >= 1
    BY <2>1, PowPos
  <2>3. q < unit * z
    <3>1. sh + (SFracBits + 1) \in Nat
      BY <2>1
    <3>2. 2^(h + 1) <= 2^(sh + (SFracBits + 1))
      BY <2>1, <3>1, PowMono
    <3>3. 2^(sh + (SFracBits + 1)) = unit * z
      BY <2>1, PowAdd
    <3>4. 2^(h + 1) \in Nat /\ unit * z \in Nat
      BY <2>1, <2>2, PowPos
    <3> HIDE DEF unit, z
    <3> QED BY <1>3, <3>2, <3>3, <3>4
  <2> HIDE DEF unit, z, up
  <2> DEFINE n0 == q \div unit
  <2>4. n0 \in Int /\ q % unit \in Nat /\ q % unit < unit /\ q = unit * n0 + (q % unit)
    BY <2>2, DivMod
  <2> HIDE DEF n0
  <2>5. n0 >= 0
    <3> SUFFICES ASSUME n0 <= -1 PROVE FALSE
      BY <2>4
    <3>1. unit * n0 <= -unit /\ unit * n0 \in Int
      BY <2>2, <2>4
    <3> QED BY <2>2, <2>4, <3>1
  <2>6. n0 < z
    <3> SUFFICES ASSUME n0 >= z PROVE FALSE
      BY <2>2, <2>4
    <3>1. unit * n0 >= unit * z /\ unit * n0 \in Int /\ unit * z \in Int
      BY <2>2, <2>4
    <3> QED BY <2>2, <2>3, <2>4, <3>1
  <2>7. n = n0 \/ n = n0 + 1
    BY <2>4 DEF n0
  <2> HIDE DEF n
  <2> QED BY <2>2, <2>4, <2>5, <2>6, <2>7 DEF z
<1> HIDE DEF n, unit, up
<1>6. CASE n # 0 /\ Log2(n) + lsb > S.max
  <2>1. Single(Inf(s))
    BY SingleInf
  <2>2. Single(big)
    <3> DEFINE m == 2^(SFracBits + 1) - 1
    <3>1. SFracBits + 1 \in Nat /\ SFracBits \in Nat
      BY Widths
    <3>2. 2^(SFracBits + 1) = 2 * 2^SFracBits /\ 2^SFracBits \in Nat /\ 2^SFracBits >= 1
      BY <3>1, TwoPowSucc, PowPos
    <3>3. m \in 0 .. 2^(SFracBits + 1) /\ 2^SFracBits <= m /\ m < 2^(SFracBits + 1) /\ m \in Nat
      BY <3>2
    <3> HIDE DEF m
    <3>4. Log2(m) = SFracBits
      <4>1. SFracBits \in 0 .. MaxLog2
        BY Widths, MaxLog2Type
      <4> QED BY <3>3, <4>1, Log2Is
    <3>5. S.max - SFracBits \in Int /\ S.max - SFracBits >= S.min - SFracBits
          /\ Log2(m) + (S.max - SFracBits) <= S.max
      BY <3>4, ShortBias, Widths
    <3>6. big = Image(s, m, S.max - SFracBits)
      BY ShortBias DEF m
    <3> QED BY <3>3, <3>5, <3>6, ImageSingle
  <2> HIDE DEF big, away
  <2> QED BY <1>1, <1>6, <2>1, <2>2
<1>7. CASE ~(n # 0 /\ Log2(n) + lsb > S.max)
  <2>1. n # 0 => Log2(n) + lsb <= S.max
    <3> SUFFICES ASSUME n # 0, ~(Log2(n) + lsb > S.max) PROVE Log2(n) + lsb <= S.max
      BY <1>7
    <3>1. n \in Nat /\ n >= 1 /\ n < 2^(MaxLog2 + 1)
      <4>1. SFracBits + 1 \in Nat /\ MaxLog2 + 1 \in Nat /\ SFracBits + 1 < MaxLog2 + 1
        BY Widths, MaxLog2Type
      <4>2. 2 * 2^(SFracBits + 1) <= 2^(MaxLog2 + 1)
        BY <4>1, PowMono
      <4>3. 2^(SFracBits + 1) \in Nat /\ 2^(SFracBits + 1) >= 1 /\ 2^(MaxLog2 + 1) \in Nat
        BY <4>1, PowPos
      <4> QED BY <1>5, <4>2, <4>3
    <3>2. Log2(n) \in Nat
      BY <3>1, Log2Of
    <3> QED BY <1>4, <3>2, ShortBias
  <2>2. Single(Image(s, n, lsb))
    BY <1>4, <1>5, <2>1, ImageSingle
  <2> QED BY <1>1, <1>7, <2>2
<1> QED BY <1>6, <1>7

-----------------------------------------------------------------------------
\* The value of an image: its number has the hidden bit at most on top.
LEMMA ValueType ==
  ASSUME NEW r \in Images
  PROVE  /\ Value(r).sign \in {0, 1} /\ Value(r).num \in Nat /\ Value(r).num < 2^(FracBits + 1)
         /\ Value(r).e \in Int /\ Value(r).e >= 1 - TBias - FracBits
         /\ Value(r).e <= ExpMax - TBias - FracBits /\ TBias \in Int
         /\ Value(r).num = 0 => r = Pack(Sign(r), 0, 0)
<1>1. /\ Sign(r) \in {0, 1} /\ Exp(r) \in 0 .. 2^ExpBits - 1 /\ Frac(r) \in 0 .. 2^FracBits - 1
      /\ r = Pack(Sign(r), Exp(r), Frac(r))
  BY FieldsPack
<1>2. 2^FracBits \in Nat /\ 2^FracBits >= 1 /\ 2^(FracBits + 1) = 2 * 2^FracBits /\ FracBits \in Nat
  BY Widths, RegPowers, TwoPowSucc
<1>3. TBias \in Int /\ ExpMax \in Nat /\ ExpMax = 2^ExpBits - 1 /\ ExpMax >= 1
  BY ShortBias DEF ExpMax
<1>4. /\ Value(r).sign = Sign(r) /\ Value(r).num = IF Exp(r) = 0 THEN Frac(r) ELSE Frac(r) + 2^FracBits
      /\ Value(r).e = (IF Exp(r) = 0 THEN 1 ELSE Exp(r)) - TBias - FracBits
  BY DEF Value
<1>5. Value(r).num = 0 => Exp(r) = 0 /\ Frac(r) = 0
  BY <1>1, <1>2, <1>4
<1>6. Value(r).num = 0 => r = Pack(Sign(r), 0, 0)
  BY <1>1, <1>5
<1>7. /\ Value(r).e \in Int /\ Value(r).e >= 1 - TBias - FracBits
      /\ Value(r).e <= ExpMax - TBias - FracBits
  BY <1>1, <1>2, <1>3, <1>4
<1> QED BY <1>1, <1>2, <1>3, <1>4, <1>6, <1>7

\* The sign of a product is a sign.
LEMMA SignsType ==
  ASSUME NEW a \in Images, NEW b \in Images
  PROVE  Signs(a, b) \in {0, 1}
BY FieldsPack DEF Signs

\* A negated image is an image.
LEMMA NegateType ==
  ASSUME NEW r \in Images
  PROVE  Negate(r) \in Images
<1>1. 2^RegBits \in Nat /\ 2^RegBits >= 1 /\ 2^(RegBits - 1) \in Nat
  BY Widths, PowPos
<1>2. r + 2^(RegBits - 1) \in Int
  BY <1>1 DEF Images
<1> DEFINE x == r + 2^(RegBits - 1)
           d == 2^RegBits
<1> HIDE DEF x, d
<1>3. x % d \in Nat /\ x % d < d
  BY <1>1, <1>2, DivMod DEF x, d
<1> QED BY <1>1, <1>3 DEF x, d, Negate, Images

\* Products of powers bound the operands of Round.
LEMMA MulBound ==
  ASSUME NEW a \in Nat, NEW b \in Nat, NEW x \in Nat, NEW y \in Nat, a < 2^x, b < 2^y
  PROVE  a * b < 2^(x + y)
<1> DEFINE u == 2^x
           v == 2^y
<1>1. u \in Nat /\ v \in Nat /\ u >= 1 /\ v >= 1 /\ 2^(x + y) = u * v
  BY PowPos, PowAdd
<1> HIDE DEF u, v
<1>2. a <= u - 1 /\ b <= v - 1
  BY <1>1 DEF u, v
<1>3. a * b <= (u - 1) * b /\ (u - 1) * b <= (u - 1) * (v - 1)
  BY <1>1, <1>2
<1>4. (u - 1) * (v - 1) = u * v - u - v + 1
  BY <1>1
<1>5. a * b \in Int /\ (u - 1) * b \in Int /\ u * v \in Int
  BY <1>1
<1> QED BY <1>1, <1>3, <1>4, <1>5

\* What is below a power is below every larger one.
LEMMA PowTrans ==
  ASSUME NEW a \in Nat, NEW x \in Nat, NEW y \in Nat, a < 2^x, x <= y
  PROVE  a < 2^y
BY PowMono, PowPos

\* The value of z in units of 2^e.
Units(z, e) == (IF z.sign = 1 THEN -1 ELSE 1) * z.num * 2^(z.e - e)

\* A sum is below a power the difference of the exponents bounds.
LEMMA SumBound ==
  ASSUME NEW x, NEW y,
         x.num \in Nat, y.num \in Nat, x.num < 2^(FracBits + 1), y.num < 2^(FracBits + 1),
         x.e \in Int, y.e \in Int, x.e - y.e < 2^ExpBits - 1, y.e - x.e < 2^ExpBits - 1,
         NEW z, z = SumOf(x, y)
  PROVE  /\ z.n \in Int /\ z.e \in Int
         /\ z.n < 2^(2^ExpBits + FracBits + 1) /\ -z.n < 2^(2^ExpBits + FracBits + 1)
<1> DEFINE e == IF x.e < y.e THEN x.e ELSE y.e
           w == 2^ExpBits - 2
<1>1. z.n = Units(x, e) + Units(y, e) /\ z.e = e
  BY DEF SumOf, Units
<1>2. /\ e \in Int /\ x.e - e \in Nat /\ y.e - e \in Nat /\ w \in Nat
      /\ x.e - e <= w /\ y.e - e <= w /\ FracBits \in Nat
  <2>1. 2^ExpBits \in Nat /\ 2^ExpBits >= 2
    BY ExpPowers
  <2> QED BY <2>1, Widths
<1> HIDE DEF e, w
<1>3. ASSUME NEW v, v.num \in Nat, v.num < 2^(FracBits + 1), v.e - e \in Nat, v.e - e <= w
      PROVE  /\ Units(v, e) \in Int
             /\ Units(v, e) < 2^(FracBits + 1 + (w + 1)) /\ -Units(v, e) < 2^(FracBits + 1 + (w + 1))
  <2> DEFINE p == 2^(v.e - e)
             m == v.num
  <2>1. p \in Nat /\ p < 2^(w + 1)
    <3>1. 2 * p <= 2^(w + 1) /\ p \in Nat /\ p >= 1
      BY <1>2, <1>3, PowMono, PowPos
    <3>2. 2^(w + 1) \in Nat
      BY <1>2, PowPos
    <3> QED BY <3>1, <3>2
  <2>2. m \in Nat /\ m < 2^(FracBits + 1) /\ FracBits + 1 \in Nat /\ w + 1 \in Nat
    BY <1>2, <1>3
  <2> HIDE DEF p, m
  <2> DEFINE i == FracBits + 1
             j == w + 1
  <2>3. i \in Nat /\ j \in Nat /\ m < 2^i /\ p < 2^j
    BY <2>1, <2>2
  <2> HIDE DEF i, j
  <2>4. m * p < 2^(i + j)
    BY <2>1, <2>2, <2>3, MulBound, Zenon
  <2>5. m * p \in Nat
    BY <2>1, <2>2
  <2>6. m * p < 2^(FracBits + 1 + (w + 1)) /\ m * p \in Nat
    BY <2>4, <2>5 DEF i, j
  <2>7. Units(v, e) = m * p \/ Units(v, e) = -(m * p)
    <3>1. Units(v, e) = (IF v.sign = 1 THEN -1 ELSE 1) * m * p
      BY DEF Units, m, p
    <3>2. 1 * m * p = m * p /\ (-1) * m * p = -(m * p)
      BY <2>1, <2>2
    <3> QED BY <3>1, <3>2
  <2>8. 2^(FracBits + 1 + (w + 1)) \in Nat
    <3>1. FracBits + 1 + (w + 1) \in Nat
      BY <2>2
    <3> QED BY <3>1, PowPos
  <2> QED BY <2>6, <2>7, <2>8
<1>4. 2^(2^ExpBits + FracBits) \in Nat /\ 2^(2^ExpBits + FracBits + 1) = 2 * 2^(2^ExpBits + FracBits)
      /\ FracBits + 1 + (w + 1) = 2^ExpBits + FracBits
  <2>1. 2^ExpBits \in Nat
    BY RegPowers
  <2>2. FracBits + 1 + (w + 1) \in Nat /\ FracBits + 1 + (w + 1) = 2^ExpBits + FracBits
    BY <1>2, <2>1 DEF w
  <2>3. 2^ExpBits + FracBits \in Nat
    BY <2>1, <1>2
  <2> DEFINE i == 2^ExpBits + FracBits
  <2> HIDE DEF i
  <2>4. 2^i \in Nat /\ 2^(i + 1) = 2 * 2^i
    BY <2>3, PowPos, TwoPowSucc DEF i
  <2> QED BY <2>2, <2>4 DEF i
<1> DEFINE lim == 2^(2^ExpBits + FracBits)
           ux == Units(x, e)
           uy == Units(y, e)
<1>5. lim \in Nat /\ 2^(2^ExpBits + FracBits + 1) = 2 * lim
  BY <1>4
<1>6. ux \in Int /\ ux < lim /\ -ux < lim
  BY <1>2, <1>3, <1>4
<1>7. uy \in Int /\ uy < lim /\ -uy < lim
  BY <1>2, <1>3, <1>4
<1>8. z.n = ux + uy /\ z.e = e /\ e \in Int
  BY <1>1, <1>2
<1> HIDE DEF lim, ux, uy
<1> QED BY <1>5, <1>6, <1>7, <1>8

\* What Round takes: at least the bits of the format, and not beyond MaxLog2.
Roundable(q) == q \in Nat /\ q >= 2^FracBits /\ q < 2^(MaxLog2 + 1)

\* What Round takes has the bits of S.
LEMMA RoundableS ==
  ASSUME NEW q, Roundable(q)
  PROVE  q \in Nat /\ q >= 2^SFracBits /\ q < 2^(MaxLog2 + 1)
<1>1. 2^SFracBits <= 2^FracBits /\ 2^SFracBits \in Nat /\ 2^FracBits \in Nat
  BY Widths, PowMono, PowPos
<1> QED BY <1>1 DEF Roundable

\* A positive number with the spare bits below it can be rounded.
LEMMA ScaledRoundable ==
  ASSUME NEW n \in Nat, n >= 1, NEW k \in Nat, n < 2^k, k + Spare <= MaxLog2 + 1
  PROVE  Roundable(n * 2^Spare)
<1> DEFINE p == 2^Spare
<1>1. Spare \in Nat /\ Spare >= FracBits /\ MaxLog2 + 1 \in Nat /\ k + Spare \in Nat
  BY Widths, MaxLog2Type DEF Spare
<1>2. p \in Nat /\ p >= 1 /\ 2^FracBits <= p /\ 2^FracBits \in Nat /\ p < 2^(Spare + 1)
  <2>1. 2^(Spare + 1) = 2 * p
    BY <1>1, TwoPowSucc
  <2> QED BY <1>1, <2>1, Widths, PowMono, PowPos
<1> DEFINE u == 2^k
<1>3. u \in Nat /\ 2^(k + Spare) = u * p
  BY <1>1, PowPos, PowAdd
<1>4. u * p <= 2^(MaxLog2 + 1) /\ 2^(MaxLog2 + 1) \in Nat
  BY <1>1, <1>3, PowMono, PowPos
<1>5. n <= u - 1
  BY <1>3
<1> HIDE DEF p, u
<1>6. n * p >= p /\ n * p <= (u - 1) * p /\ (u - 1) * p = u * p - p
  BY <1>2, <1>3, <1>5
<1>7. n * p \in Nat /\ u * p \in Nat
  BY <1>2, <1>3
<1>8. n * p \in Nat /\ n * p >= 2^FracBits /\ n * p < 2^(MaxLog2 + 1)
  BY <1>2, <1>4, <1>6, <1>7
<1> QED BY <1>8 DEF Roundable, p

\* A sum that is not zero can be rounded.
LEMMA SumRoundable ==
  ASSUME NEW x, NEW y,
         x.num \in Nat, y.num \in Nat, x.num < 2^(FracBits + 1), y.num < 2^(FracBits + 1),
         x.e \in Int, y.e \in Int, x.e - y.e < 2^ExpBits - 1, y.e - x.e < 2^ExpBits - 1,
         NEW z, z = SumOf(x, y)
  PROVE  /\ z.n \in Int /\ z.e \in Int
         /\ z.n # 0 => Roundable((IF z.n < 0 THEN -z.n ELSE z.n) * 2^Spare)
<1> DEFINE k == 2^ExpBits + FracBits + 1
<1>1. z.n \in Int /\ z.e \in Int /\ z.n < 2^k /\ -z.n < 2^k
  BY SumBound
<1>2. k \in Nat /\ k + Spare <= MaxLog2 + 1
  BY MaxLog2Type, Widths, RegPowers DEF Spare
<1> HIDE DEF k
<1>3. ASSUME z.n # 0 PROVE Roundable((IF z.n < 0 THEN -z.n ELSE z.n) * 2^Spare)
  <2> DEFINE n == IF z.n < 0 THEN -z.n ELSE z.n
  <2>1. n \in Nat /\ n >= 1 /\ n < 2^k
    BY <1>1, <1>3
  <2> HIDE DEF n
  <2>2. Roundable(n * 2^Spare)
    BY <1>2, <2>1, ScaledRoundable
  <2> QED BY <2>2 DEF n
<1> QED BY <1>1, <1>3

\* The values of two images are close enough to be added.
LEMMA ValuesClose ==
  ASSUME NEW a \in Images, NEW b \in Images
  PROVE  /\ Value(a).num \in Nat /\ Value(b).num \in Nat
         /\ Value(a).num < 2^(FracBits + 1) /\ Value(b).num < 2^(FracBits + 1)
         /\ Value(a).e \in Int /\ Value(b).e \in Int
         /\ Value(a).e - Value(b).e < 2^ExpBits - 1 /\ Value(b).e - Value(a).e < 2^ExpBits - 1
<1>1. /\ Value(a).num \in Nat /\ Value(a).num < 2^(FracBits + 1) /\ Value(a).e \in Int
      /\ Value(a).e >= 1 - TBias - FracBits /\ Value(a).e <= ExpMax - TBias - FracBits
      /\ TBias \in Int
  BY ValueType
<1>2. /\ Value(b).num \in Nat /\ Value(b).num < 2^(FracBits + 1) /\ Value(b).e \in Int
      /\ Value(b).e >= 1 - TBias - FracBits /\ Value(b).e <= ExpMax - TBias - FracBits
  BY ValueType
<1>3. FracBits \in Nat /\ ExpMax = 2^ExpBits - 1 /\ 2^ExpBits \in Nat
  BY Widths, RegPowers DEF ExpMax
<1> QED BY <1>1, <1>2, <1>3

\* A sum in S is a single.
LEMMA SfAddSingle ==
  ASSUME NEW a \in Images, NEW b \in Images, NEW rm
  PROVE  Single(SfAdd(a, b, S, rm).bits)
<1> DEFINE z == Sum(a, b)
           s == IF z.n < 0 THEN 1 ELSE 0
           q == (IF z.n < 0 THEN -z.n ELSE z.n) * 2^Spare
<1>1. z.n \in Int /\ z.e \in Int /\ (z.n # 0 => Roundable(q))
  BY ValuesClose, SumRoundable DEF Sum
<1> HIDE DEF z
<1>2. CASE z.n = 0
  <2> DEFINE t == IF Sign(a) = Sign(b) THEN Sign(a) ELSE IF rm = "min" THEN 1 ELSE 0
  <2>1. SfAdd(a, b, S, rm).bits = Pack(t, 0, 0)
    BY <1>2 DEF SfAdd, z
  <2>2. t \in {0, 1}
    BY FieldsPack
  <2> HIDE DEF t
  <2> QED BY <2>1, <2>2, SingleZero
<1>3. CASE z.n # 0
  <2>1. SfAdd(a, b, S, rm) = Round(s, q, FALSE, z.e - Spare, S, rm)
    BY <1>3 DEF SfAdd, z
  <2>2. s \in {0, 1} /\ z.e - Spare \in Int
    BY <1>1, Widths DEF Spare
  <2>3. Roundable(q)
    BY <1>1, <1>3
  <2> HIDE DEF s, q
  <2> QED BY <2>1, <2>2, <2>3, RoundableS, RoundSingle
<1> QED BY <1>2, <1>3

\* A product in S is a single.
LEMMA SfMulSingle ==
  ASSUME NEW a \in Images, NEW b \in Images, NEW rm
  PROVE  Single(SfMul(a, b, S, rm).bits)
<1> DEFINE x == Value(a)
           y == Value(b)
           n == x.num * y.num
<1>1. /\ x.num \in Nat /\ y.num \in Nat /\ x.num < 2^(FracBits + 1) /\ y.num < 2^(FracBits + 1)
      /\ x.e \in Int /\ y.e \in Int
  BY ValuesClose
<1>2. Signs(a, b) \in {0, 1}
  BY SignsType
<1>3. n \in Nat /\ n < 2^((FracBits + 1) + (FracBits + 1))
  <2> DEFINE i == FracBits + 1
             u == x.num
             v == y.num
  <2>1. i \in Nat /\ u \in Nat /\ v \in Nat /\ u < 2^i /\ v < 2^i
    BY <1>1, Widths
  <2> HIDE DEF i, u, v
  <2>2. u * v < 2^(i + i)
    BY <2>1, MulBound, Zenon
  <2>3. u * v \in Nat
    BY <2>1
  <2> QED BY <2>2, <2>3 DEF i, u, v
<1>4. SfMul(a, b, S, rm) =
        IF n = 0 THEN [bits |-> Pack(Signs(a, b), 0, 0), exc |-> {}]
        ELSE Round(Signs(a, b), n * 2^Spare, FALSE, x.e + y.e - Spare, S, rm)
  BY DEF SfMul
<1> HIDE DEF n
<1>5. CASE n = 0
  BY <1>2, <1>4, <1>5, SingleZero
<1>6. CASE n # 0
  <2> DEFINE k == (FracBits + 1) + (FracBits + 1)
  <2>1. k \in Nat /\ n \in Nat /\ n >= 1 /\ n < 2^k /\ k + Spare <= MaxLog2 + 1
    BY <1>3, <1>6, Widths, MaxLog2Type DEF Spare
  <2> HIDE DEF k
  <2>2. Roundable(n * 2^Spare)
    BY <2>1, ScaledRoundable
  <2>3. x.e + y.e - Spare \in Int
    BY <1>1, Widths DEF Spare
  <2> DEFINE q == n * 2^Spare
             e == x.e + y.e - Spare
  <2>4. SfMul(a, b, S, rm) = Round(Signs(a, b), q, FALSE, e, S, rm)
    BY <1>4, <1>6
  <2> HIDE DEF q, e
  <2>5. Roundable(q) /\ e \in Int
    BY <2>2, <2>3 DEF q, e
  <2> QED BY <1>2, <2>4, <2>5, RoundableS, RoundSingle
<1> QED BY <1>5, <1>6

\* The quotient of two fractions with 2 * Spare more bits.
LEMMA QuotientRoundable ==
  ASSUME NEW x \in Nat, NEW y \in Nat, x >= 1, y >= 1, x < 2^(FracBits + 1), y < 2^(FracBits + 1)
  PROVE  Roundable((x * 2^(2 * Spare)) \div y)
<1> DEFINE i == FracBits + 1
           m == 2^(2 * Spare)
           c == 2^(2 * Spare - i)
           l == 2^i
           q == (x * m) \div y
<1>1. i \in Nat /\ 2 * Spare \in Nat /\ i <= 2 * Spare /\ 2 * Spare - i \in Nat
  BY Widths DEF Spare
<1>2. m \in Nat /\ m >= 1 /\ c \in Nat /\ c >= 1 /\ l \in Nat /\ m = l * c
  BY <1>1, PowPos, PowSplit
<1>3. 2^FracBits <= c /\ 2^FracBits \in Nat
  <2>1. FracBits <= 2 * Spare - i
    BY Widths DEF Spare
  <2> QED BY <1>1, <2>1, Widths, PowMono, PowPos
<1>4. x * m < 2^(MaxLog2 + 1) /\ x * m \in Nat
  <2>1. m < 2^(2 * Spare + 1)
    BY <1>1, <1>2, TwoPowSucc
  <2> DEFINE j == 2 * Spare + 1
  <2>2. j \in Nat /\ x < 2^i /\ m < 2^j
    BY <1>1, <2>1
  <2> HIDE DEF i, j, m
  <2>3. x * m < 2^(i + j)
    BY <1>1, <1>2, <2>2, MulBound, Zenon
  <2>4. i + j \in Nat /\ MaxLog2 + 1 \in Nat /\ i + j <= MaxLog2 + 1
    BY Widths, MaxLog2Type DEF i, j, Spare
  <2>5. x * m \in Nat
    BY <1>2
  <2> QED BY <2>3, <2>4, <2>5, PowTrans
<1>5. y <= l - 1
  BY <1>2
<1> HIDE DEF m, c, l, i
<1> DEFINE n == x * m
<1>6. n \in Nat /\ n < 2^(MaxLog2 + 1)
  BY <1>4
<1>7. n >= y * c
  <2>1. n >= m /\ (l - 1) * c <= l * c /\ y * c <= (l - 1) * c
    BY <1>2, <1>5
  <2>2. y * c \in Int /\ (l - 1) * c \in Int /\ l * c \in Int
    BY <1>2
  <2> QED BY <1>2, <1>6, <2>1, <2>2
<1> HIDE DEF n
<1> DEFINE p == n \div y
<1>8. p \in Int /\ n % y \in Nat /\ n % y < y /\ n = y * p + (n % y)
  BY <1>6, DivMod
<1> HIDE DEF p
<1>9. p >= c
  <2> SUFFICES ASSUME p + 1 <= c PROVE FALSE
    BY <1>2, <1>8
  <2>1. y * (p + 1) <= y * c /\ y * (p + 1) = y * p + y
    BY <1>2, <1>8
  <2>2. y * p \in Int /\ y * c \in Int
    BY <1>2, <1>8
  <2> QED BY <1>7, <1>8, <2>1, <2>2
<1>10. p <= n
  <2>1. y * p >= p
    BY <1>2, <1>8, <1>9
  <2>2. y * p \in Int
    BY <1>8
  <2> QED BY <1>6, <1>8, <2>1, <2>2
<1>11. p \in Nat /\ p >= 2^FracBits /\ p < 2^(MaxLog2 + 1)
  <2>1. 2^(MaxLog2 + 1) \in Nat
    BY MaxLog2Type, PowPos
  <2> QED BY <1>2, <1>3, <1>6, <1>8, <1>9, <1>10, <2>1
<1> QED BY <1>11 DEF Roundable, p, n, m

\* A quotient in S is a single.
LEMMA SfDivSingle ==
  ASSUME NEW a \in Images, NEW b \in Images, NEW rm
  PROVE  Single(SfDiv(a, b, S, rm).bits)
<1> DEFINE x == Value(a)
           y == Value(b)
           n == x.num * 2^(2 * Spare)
           q == n \div y.num
           e == x.e - y.e - 2 * Spare
<1>1. /\ x.num \in Nat /\ y.num \in Nat /\ x.num < 2^(FracBits + 1) /\ y.num < 2^(FracBits + 1)
      /\ x.e \in Int /\ y.e \in Int
  BY ValuesClose
<1>2. Signs(a, b) \in {0, 1}
  BY SignsType
<1>3. CASE y.num = 0 /\ x.num = 0
  <2>1. SfDiv(a, b, S, rm).bits = NaN
    BY <1>3 DEF SfDiv
  <2> QED BY <2>1, SingleNaN
<1>4. CASE y.num = 0 /\ x.num # 0
  <2>1. SfDiv(a, b, S, rm).bits = Inf(Signs(a, b))
    BY <1>4 DEF SfDiv
  <2> QED BY <1>2, <2>1, SingleInf
<1>5. CASE y.num # 0 /\ x.num = 0
  <2>1. SfDiv(a, b, S, rm).bits = Pack(Signs(a, b), 0, 0)
    BY <1>5 DEF SfDiv
  <2> QED BY <1>2, <2>1, SingleZero
<1>6. CASE y.num # 0 /\ x.num # 0
  <2>1. SfDiv(a, b, S, rm) = Round(Signs(a, b), q, n % y.num # 0, e, S, rm)
    BY <1>6 DEF SfDiv
  <2>2. e \in Int
    BY <1>1, Widths DEF Spare
  <2>3. Roundable(q)
    <3> DEFINE u == x.num
               v == y.num
    <3>1. u \in Nat /\ v \in Nat /\ u >= 1 /\ v >= 1 /\ u < 2^(FracBits + 1) /\ v < 2^(FracBits + 1)
      BY <1>1, <1>6
    <3> HIDE DEF u, v
    <3>2. Roundable((u * 2^(2 * Spare)) \div v)
      BY <3>1, QuotientRoundable
    <3> QED BY <3>2 DEF u, v
  <2> DEFINE st == n % y.num # 0
  <2> HIDE DEF q, e, st
  <2>4. SfDiv(a, b, S, rm) = Round(Signs(a, b), q, st, e, S, rm)
    BY <2>1 DEF st
  <2> QED BY <1>2, <2>2, <2>3, <2>4, RoundableS, RoundSingle
<1> QED BY <1>3, <1>4, <1>5, <1>6

\* A square root lies between the roots of the bounds of its radicand.
LEMMA RootBetween ==
  ASSUME NEW r \in Nat, NEW n \in Nat, NEW p \in Nat, NEW q \in Nat,
         r * r <= n, n < (r + 1) * (r + 1), p * p <= n, n < q * q
  PROVE  p <= r /\ r < q
<1>1. ASSUME r + 1 <= p PROVE FALSE
  <2>1. (r + 1) * (r + 1) <= p * p
    BY <1>1
  <2>2. (r + 1) * (r + 1) \in Int /\ p * p \in Int
    OBVIOUS
  <2> QED BY <2>1, <2>2
<1>2. ASSUME q <= r PROVE FALSE
  <2>1. q * q <= r * r
    BY <1>2
  <2>2. q * q \in Int /\ r * r \in Int
    OBVIOUS
  <2> QED BY <2>1, <2>2
<1> QED BY <1>1, <1>2

\* The root of a scaled number can be rounded.
LEMMA RootRoundable ==
  ASSUME NEW n \in Nat, 2^(2 * Spare) <= n, n < 2^(2 * (FracBits + Spare))
  PROVE  Roundable(ISqrt(n))
<1> DEFINE p == 2^Spare
           k == FracBits + Spare
           q == 2^k
<1>1. Spare \in Nat /\ k \in Nat /\ FracBits <= Spare /\ FracBits \in Nat
  BY Widths DEF Spare
<1>2. p \in Nat /\ q \in Nat /\ 2^(2 * Spare) = p * p /\ 2^(2 * k) = q * q
  <2>1. 2^(Spare + Spare) = p * p /\ 2^(k + k) = q * q
    BY <1>1, PowAdd
  <2>2. Spare + Spare = 2 * Spare /\ k + k = 2 * k
    BY <1>1
  <2>3. p \in Nat /\ q \in Nat
    BY <1>1, PowPos
  <2> HIDE DEF p, q, k
  <2> QED BY <2>1, <2>2, <2>3
<1> HIDE DEF p, q
<1>3. PICK r \in Nat : r * r <= n /\ n < (r + 1) * (r + 1)
  BY RootExists
<1>4. \A t \in Nat : t * t <= n /\ n < (t + 1) * (t + 1) => p <= t /\ t < q
  <2> TAKE t \in Nat
  <2> HAVE t * t <= n /\ n < (t + 1) * (t + 1)
  <2>1. p * p <= n /\ n < q * q
    BY <1>2
  <2> QED BY <1>2, <2>1, RootBetween, Zenon
<1>5. r \in 0 .. 2^(FracBits + Spare)
  BY <1>2, <1>3, <1>4 DEF q
<1> DEFINE root == ISqrt(n)
<1>6. root \in 0 .. 2^(FracBits + Spare) /\ root * root <= n /\ n < (root + 1) * (root + 1)
  BY <1>3, <1>5 DEF ISqrt
<1> HIDE DEF root
<1>7. root \in Nat /\ p <= root /\ root < q
  <2>1. root \in Nat
    BY <1>2, <1>6 DEF q
  <2> QED BY <1>4, <1>6, <2>1
<1>8. 2^FracBits <= p
  BY <1>1, PowMono DEF p
<1>9. k <= MaxLog2 + 1 /\ MaxLog2 + 1 \in Nat
  BY <1>1, MaxLog2Type, Widths DEF Spare
<1>10. root < 2^(MaxLog2 + 1)
  BY <1>1, <1>7, <1>9, PowTrans DEF q
<1>11. root >= 2^FracBits
  BY <1>1, <1>2, <1>7, <1>8, PowPos
<1> QED BY <1>7, <1>10, <1>11 DEF Roundable, root

\* A difference in S is a single.
LEMMA SfSubSingle ==
  ASSUME NEW a \in Images, NEW b \in Images, NEW rm
  PROVE  Single(SfSub(a, b, S, rm).bits)
BY NegateType, SfAddSingle DEF SfSub

\* A root in S is a single.
LEMMA SfSqrtSingle ==
  ASSUME NEW a \in Images, NEW rm
  PROVE  Single(SfSqrt(a, S, rm).bits)
<1> DEFINE x == Value(a)
           i == x.e % 2
           k == 2 * Spare + i
           n == x.num * 2^k
           e == (x.e \div 2) - Spare
           st == ISqrt(n) * ISqrt(n) # n
<1>1. /\ x.num \in Nat /\ x.num < 2^(FracBits + 1) /\ x.e \in Int
      /\ x.num = 0 => a = Pack(Sign(a), 0, 0)
  BY ValueType
<1>2. CASE x.num = 0
  <2>1. SfSqrt(a, S, rm).bits = Pack(Sign(a), 0, 0)
    BY <1>1, <1>2 DEF SfSqrt
  <2> QED BY <2>1, FieldsPack, SingleZero
<1>3. CASE x.num # 0 /\ x.sign = 1
  <2>1. SfSqrt(a, S, rm).bits = NaN
    BY <1>3 DEF SfSqrt
  <2> QED BY <2>1, SingleNaN
<1>4. CASE x.num # 0 /\ x.sign # 1
  <2>1. SfSqrt(a, S, rm) = Round(0, ISqrt(n), st, e, S, rm)
    BY <1>4 DEF SfSqrt
  <2>2. e \in Int /\ i \in 0 .. 1 /\ k \in Nat /\ Spare \in Nat
    BY <1>1, Widths DEF Spare
  <2> DEFINE num == x.num
  <2>3. num \in Nat /\ num >= 1 /\ num < 2^(FracBits + 1)
    BY <1>1, <1>4
  <2> HIDE DEF x, i, num
  <2>4. 2^k \in Nat /\ 2^k >= 1 /\ 2^k < 2^(k + 1) /\ 2^(2 * Spare) <= 2^k /\ 2^(2 * Spare) \in Nat
    <3>1. 2 * Spare \in Nat /\ 2 * Spare <= k
      BY <2>2
    <3> HIDE DEF k
    <3> QED BY <2>2, <3>1, PowPos, TwoPowSucc, PowMono
  <2> DEFINE m == 2^k
             j == FracBits + 1
             p == 2^j
  <2>5. j \in Nat /\ m \in Nat /\ m >= 1 /\ p \in Nat /\ num < p /\ 2^(j + k) = p * m
    <3>1. j \in Nat
      BY Widths
    <3> HIDE DEF k, j
    <3> QED BY <2>2, <2>3, <2>4, <3>1, PowPos, PowAdd DEF j
  <2> HIDE DEF m, j, p
  <2>6. num * m < 2^(j + k) /\ num * m \in Nat
    BY <2>3, <2>5
  <2>7. num * m >= m
    BY <2>3, <2>5
  <2>8. j + k \in Nat /\ 2 * (FracBits + Spare) \in Nat /\ j + k <= 2 * (FracBits + Spare)
    BY <2>2, Widths DEF j, Spare
  <2>9. num * m < 2^(2 * (FracBits + Spare))
    <3> DEFINE u == 2 * (FracBits + Spare)
               t == j + k
               d == num * m
    <3>1. u \in Nat /\ t \in Nat /\ t <= u /\ d \in Nat /\ d < 2^t
      BY <2>6, <2>8
    <3> HIDE DEF u, t, d
    <3>2. d < 2^u
      BY <3>1, PowTrans
    <3> QED BY <3>2 DEF d, u
  <2>10. 2^(2 * Spare) <= num * m
    BY <2>4, <2>6, <2>7 DEF m
  <2>11. Roundable(ISqrt(num * m))
    <3> DEFINE d == num * m
    <3>1. d \in Nat /\ 2^(2 * Spare) <= d /\ d < 2^(2 * (FracBits + Spare))
      BY <2>6, <2>9, <2>10
    <3> HIDE DEF d
    <3>2. Roundable(ISqrt(d))
      BY <3>1, RootRoundable
    <3> QED BY <3>2 DEF d
  <2> DEFINE q == ISqrt(num * m)
  <2>12. SfSqrt(a, S, rm) = Round(0, q, st, e, S, rm)
    BY <2>1 DEF num, m
  <2> HIDE DEF q, e, st
  <2> QED BY <2>2, <2>11, <2>12, RoundableS, RoundSingle DEF q
<1> QED BY <1>2, <1>3, <1>4

\* A conversion to S is a single.
LEMMA SfConvertSingle ==
  ASSUME NEW a \in Images, NEW rm
  PROVE  Single(SfConvert(a, S, rm).bits)
<1> DEFINE n == Value(a).num
           q == n * 2^Spare
           e == Value(a).e - Spare
<1>1. /\ n \in Nat /\ n < 2^(FracBits + 1) /\ Value(a).e \in Int
      /\ n = 0 => a = Pack(Sign(a), 0, 0)
  BY ValueType
<1>2. CASE n = 0
  <2>1. SfConvert(a, S, rm).bits = Pack(Sign(a), 0, 0)
    BY <1>1, <1>2 DEF SfConvert
  <2> QED BY <2>1, FieldsPack, SingleZero
<1>3. CASE n # 0
  <2>1. SfConvert(a, S, rm) = Round(Sign(a), q, FALSE, e, S, rm)
    BY <1>3 DEF SfConvert
  <2>2. FracBits + 1 \in Nat /\ FracBits + 1 + Spare <= MaxLog2 + 1 /\ Spare \in Nat
    BY Widths, MaxLog2Type DEF Spare
  <2>3. e \in Int /\ Sign(a) \in {0, 1}
    BY <1>1, <2>2, FieldsPack
  <2> HIDE DEF n, e
  <2>4. Roundable(q)
    BY <1>1, <1>3, <2>2, ScaledRoundable
  <2> HIDE DEF q
  <2> QED BY <2>1, <2>3, <2>4, RoundableS, RoundSingle
<1> QED BY <1>2, <1>3

\* Every arithmetic result of format S is a single.
LEMMA ArithSingle ==
  ASSUME NEW a \in Images, NEW b \in Images, NEW v, NEW dyn
  PROVE  /\ Single(AddS(a, b, v, dyn).bits) /\ Single(SubS(a, b, v, dyn).bits)
         /\ Single(MulS(a, b, v, dyn).bits) /\ Single(DivS(a, b, v, dyn).bits)
         /\ Single(SqrtS(b, v, dyn).bits)
<1>1. Narrow(a, v, dyn) \in Images /\ Narrow(b, v, dyn) \in Images
  BY SfConvertSingle DEF Narrow, Single
<1>2. Single(AddS(a, b, v, dyn).bits)
  BY <1>1, SfAddSingle DEF AddS, SBinary
<1>3. Single(SubS(a, b, v, dyn).bits)
  BY <1>1, SfSubSingle DEF SubS, SBinary
<1>4. Single(MulS(a, b, v, dyn).bits)
  BY <1>1, SfMulSingle DEF MulS, SBinary
<1>5. Single(DivS(a, b, v, dyn).bits)
  BY <1>1, SfDivSingle DEF DivS, SBinary
<1>6. Single(SqrtS(b, v, dyn).bits)
  BY <1>1, SfSqrtSingle DEF SqrtS
<1> QED BY <1>2, <1>3, <1>4, <1>5, <1>6

----------------------------------------------------------------------------
(* Rpack: one rounding of a fraction with guard bits.                     *)

\* The powers behind a fraction: the hidden bit on top, the guard bits below.
LEMMA KernelPowers ==
  /\ FracWidth \in Nat /\ FracWidth >= 5 /\ FracWidth - 1 = FracBits + Guard
  /\ NormBit \in Nat /\ NormBit >= 1 /\ 2^FracWidth = 2 * NormBit
  /\ NormBit = 2^FracBits * 2^Guard
  /\ 2^Guard \in Nat /\ 2^Guard >= 4
<1>1. /\ FracWidth \in Nat /\ FracWidth >= 5 /\ FracWidth - 1 = FracBits + Guard
      /\ Guard \in Nat /\ Guard >= 2 /\ FracBits \in Nat
  BY Widths DEF FracWidth
<1>2. NormBit = 2^(FracBits + Guard)
  BY <1>1 DEF NormBit
<1>3. NormBit \in Nat /\ NormBit >= 1 /\ NormBit = 2^FracBits * 2^Guard
  <2>1. FracBits + Guard \in Nat
    BY <1>1
  <2> DEFINE k == FracBits + Guard
  <2>2. 2^k \in Nat /\ 2^k >= 1
    <3>1. k \in Nat
      BY <2>1
    <3> HIDE DEF k
    <3> QED BY <3>1, PowPos
  <2> QED BY <1>1, <1>2, <2>2, PowAdd
<1>4. 2^FracWidth = 2 * NormBit
  <2> DEFINE k == FracBits + Guard
  <2>1. k \in Nat /\ k + 1 = FracWidth /\ NormBit = 2^k
    BY <1>1, <1>2
  <2> HIDE DEF k
  <2>2. 2^(k + 1) = 2 * 2^k
    BY <2>1, TwoPowSucc
  <2> QED BY <2>1, <2>2
<1>5. 2^Guard \in Nat /\ 2^Guard >= 4
  <2>1. 2^2 <= 2^Guard /\ 2^Guard \in Nat
    BY <1>1, PowMono, PowPos
  <2>2. 2^(1 + 1) = 2 * 2^1
    BY TwoPowSucc
  <2>3. 1 + 1 = 2 /\ 2^1 = 2
    OBVIOUS
  <2> QED BY <2>1, <2>2, <2>3
<1> QED BY <1>1, <1>3, <1>4, <1>5

\* A fraction of M units or more, and less than twice as many, rounds to that
\* range, its upper end included.
LEMMA RoundsTo ==
  ASSUME NEW M \in Nat, NEW U \in Nat, M >= 1, U >= 1, NEW x \in Nat,
         M * U <= x, x < 2 * (M * U), NEW c \in 0 .. U - 1
  PROVE  /\ (x + c) \div U \in M .. 2 * M
         /\ (x + c) \div U = 2 * M <=> x + c >= 2 * (M * U)
<1> DEFINE y == x + c
           n == y \div U
<1>1. y \in Nat /\ M * U \in Nat
  OBVIOUS
<1>2. n \in Int /\ y % U \in Nat /\ y % U < U /\ y = U * n + (y % U)
  BY <1>1, DivMod
<1>3. y >= M * U /\ y < 2 * (M * U) + U
  BY <1>1
<1> HIDE DEF n, y
<1>4. ASSUME n + 1 <= M PROVE FALSE
  <2>1. U * (n + 1) <= U * M /\ U * (n + 1) = U * n + U /\ U * M = M * U
    BY <1>2, <1>4
  <2> QED BY <1>1, <1>2, <1>3, <2>1
<1>5. ASSUME n >= 2 * M + 1 PROVE FALSE
  <2>1. U * n >= U * (2 * M + 1) /\ U * (2 * M + 1) = 2 * (M * U) + U
    BY <1>2, <1>5
  <2>2. U * n \in Int
    BY <1>2
  <2> QED BY <1>1, <1>2, <1>3, <2>1, <2>2
<1>6. ASSUME n = 2 * M PROVE y >= 2 * (M * U)
  <2>1. U * n = 2 * (M * U)
    BY <1>6
  <2> QED BY <1>1, <1>2, <2>1
<1>7. ASSUME n <= 2 * M - 1 PROVE y < 2 * (M * U)
  <2>1. U * (n + 1) <= U * (2 * M) /\ U * (n + 1) = U * n + U /\ U * (2 * M) = 2 * (M * U)
    BY <1>2, <1>7
  <2>2. U * n \in Int
    BY <1>2
  <2> QED BY <1>1, <1>2, <2>1, <2>2
<1>8. n \in M .. 2 * M /\ (n = 2 * M <=> y >= 2 * (M * U))
  BY <1>1, <1>2, <1>4, <1>5, <1>6, <1>7
<1> QED BY <1>8 DEF n, y

\* The field a fraction of n units leaves once its hidden bit is cut off.
LEMMA PlacedBits ==
  ASSUME NEW M \in Nat, NEW D \in Nat, NEW H \in Nat, M >= 1, D >= 1, H >= 1,
         NEW n \in M .. 2 * M - 1
  PROVE  ((n * (D * H)) \div H) % (M * D) = (n - M) * D
<1>1. n * (D * H) = At(H, n * D, 0) /\ n * D \in Int /\ M * D \in Nat /\ M * D >= 1
  BY DEF At
<1>2. n * D = At(M * D, 1, (n - M) * D)
  BY DEF At
<1>3. (n - M) * D \in 0 .. M * D - 1
  <2>1. n - M \in Nat /\ n - M <= M - 1
    OBVIOUS
  <2> DEFINE i == n - M
  <2> HIDE DEF i
  <2>2. i \in Nat /\ i <= M - 1
    BY <2>1 DEF i
  <2>3. i * D \in Nat /\ i * D <= (M - 1) * D /\ (M - 1) * D = M * D - D
    BY <2>2
  <2>4. i * D \in 0 .. M * D - 1
    BY <1>1, <2>3
  <2> QED BY <2>4 DEF i
<1> DEFINE a == n * D
           b == M * D
           f == (n - M) * D
           z == n * (D * H)
<1>4. z = At(H, a, 0) /\ a \in Int /\ b \in Nat /\ b >= 1 /\ a = At(b, 1, f) /\ f \in 0 .. b - 1
  BY <1>1, <1>2, <1>3
<1> HIDE DEF a, b, f, z
<1>5. z \div H = a
  <2>1. 0 \in 0 .. H - 1
    OBVIOUS
  <2>2. At(H, a, 0) \div H = a
    BY <1>4, <2>1, RestOf
  <2> QED BY <1>4, <2>2
<1>6. a % b = f
  <2>1. At(b, 1, f) % b = f
    <3>1. 1 \in Int
      OBVIOUS
    <3> QED BY <1>4, <3>1, RestOf, Zenon
  <2>2. a = At(b, 1, f)
    BY <1>4
  <2> QED BY <2>1, <2>2
<1>7. (z \div H) % b = f
  BY <1>5, <1>6
<1> QED BY <1>7 DEF a, b, f, z

\* Half of a double.
LEMMA HalfOf ==
  ASSUME NEW h \in Nat, NEW u, u = 2 * h
  PROVE  u \div 2 = h
OBVIOUS

\* A power of a positive exponent is two or more.
LEMMA PowEven ==
  ASSUME NEW n \in Nat, n >= 1
  PROVE  2^n >= 2
<1>1. n - 1 \in Nat /\ n - 1 + 1 = n
  OBVIOUS
<1>2. 2^n = 2 * 2^(n - 1) /\ 2^(n - 1) \in Nat /\ 2^(n - 1) >= 1
  BY <1>1, TwoPowSucc, PowPos
<1> QED BY <1>2

\* Beyond the upper bound is not below the lower one.
LEMMA Beyond ==
  ASSUME NEW lo \in Int, NEW hi \in Int, lo <= hi, NEW e \in Int, e > hi
  PROVE  ~(e < lo)
OBVIOUS

\* A number between d and 2 * d wraps to the rest above d.
LEMMA WrapOnce ==
  ASSUME NEW d \in Nat, NEW y \in Nat, d >= 1, y >= d, y < 2 * d
  PROVE  y % d = y - d
<1>1. d * 1 <= y /\ y < d * (1 + 1) /\ y \in Int /\ 1 \in Int
  OBVIOUS
<1>2. y % d = y - d * 1
  BY <1>1, DivUnique
<1> QED BY <1>2

\* What is left of a fraction when fb of its bits are kept: units of 2^shift.
LEMMA UnitPowers ==
  ASSUME NEW fb \in 1 .. FracBits, NEW shift, shift = FracWidth - 1 - fb,
         NEW M, M = 2^fb, NEW U, U = 2^shift, NEW D, D = 2^(FracBits - fb)
  PROVE  /\ M \in Nat /\ M >= 2 /\ U \in Nat /\ U >= 4 /\ D \in Nat /\ D >= 1
         /\ U = D * 2^Guard /\ NormBit = M * U /\ 2^FracBits = M * D
         /\ 2^(fb + 1) = 2 * M /\ U \div 2 = 2^(shift - 1) /\ U = 2 * (U \div 2)
         /\ shift \in Nat /\ fb \in Nat /\ FracBits - fb \in Nat
<1>1. /\ fb \in Nat /\ FracBits \in Nat /\ fb <= FracBits /\ FracBits - fb \in Nat
      /\ Guard \in Nat /\ Guard >= 2 /\ shift = (FracBits - fb) + Guard
      /\ shift \in Nat /\ shift - 1 \in Nat /\ shift - 1 + 1 = shift /\ shift >= 2
  BY Widths, KernelPowers
<1>2. M \in Nat /\ U \in Nat /\ D \in Nat /\ D >= 1
  BY <1>1, PowPos
<1>3. 2^FracBits = M * D
  BY <1>1, PowSplit
<1>4. U = D * 2^Guard
  BY <1>1, PowAdd
<1>5. NormBit = M * U
  <2>1. NormBit = (M * D) * 2^Guard
    BY <1>3, KernelPowers
  <2> DEFINE H == 2^Guard
  <2>2. H \in Nat
    BY KernelPowers
  <2> HIDE DEF H
  <2>3. (M * D) * H = M * (D * H)
    BY <1>2, <2>2
  <2> QED BY <1>4, <2>1, <2>3 DEF H
<1>6. 2^(fb + 1) = 2 * M
  BY <1>1, TwoPowSucc
<1>7. U = 2 * 2^(shift - 1) /\ 2^(shift - 1) \in Nat
  BY <1>1, TwoPowSucc, PowPos
<1>8. U \div 2 = 2^(shift - 1) /\ U = 2 * (U \div 2)
  <2> DEFINE h == 2^(shift - 1)
  <2>1. U = 2 * h /\ h \in Nat
    BY <1>7
  <2> HIDE DEF h
  <2>2. U \div 2 = h
    BY <2>1, HalfOf
  <2> QED BY <2>1, <2>2 DEF h
<1>9. M >= 2 /\ U >= 4
  <2>1. M >= 2
    BY <1>1, PowEven
  <2>2. D * 2^Guard >= 2^Guard
    BY <1>2, KernelPowers
  <2> DEFINE H == 2^Guard
  <2>3. H >= 4 /\ U >= H /\ H \in Nat
    BY <1>4, <2>2, KernelPowers
  <2> HIDE DEF H
  <2> QED BY <1>2, <2>1, <2>3
<1> QED BY <1>1, <1>2, <1>3, <1>4, <1>5, <1>6, <1>8, <1>9

\* The sum of a fraction and half a unit, its carry brought back in: it holds as
\* many units as the sum has, or half of them after a carry.
Carries(M, U, x, chop, c, n, sum) ==
  /\ M \in Nat /\ U \in Nat /\ M >= 2 /\ U >= 4 /\ x \in Nat /\ M * U <= x /\ x < 2 * (M * U)
  /\ chop \in BOOLEAN /\ c \in 0 .. U - 1 /\ (chop => c = 0)
  /\ n = (x + c) \div U /\ sum = (x + c) % (2 * (M * U))
Carried(M, U, x, chop, c, n, sum) ==
  /\ n \in M .. 2 * M
  /\ ~chop /\ sum < M * U <=> n = 2 * M
  /\ n = 2 * M => (sum \div 2 + M * U) \div U = M
  /\ n # 2 * M => sum = x + c

\* The units of a fraction after rounding, the carry included.
LEMMA CarriedUnits ==
  ASSUME NEW M, NEW U, NEW x, NEW chop, NEW c, NEW n, NEW sum,
         Carries(M, U, x, chop, c, n, sum)
  PROVE  Carried(M, U, x, chop, c, n, sum)
<1> USE DEF Carries, Carried
<1> DEFINE P == M * U
           y == x + c
<1>1. n \in M .. 2 * M /\ (n = 2 * M <=> y >= 2 * P)
  <2>1. M >= 1 /\ U >= 1
    OBVIOUS
  <2>2. /\ (x + c) \div U \in M .. 2 * M
        /\ (x + c) \div U = 2 * M <=> x + c >= 2 * (M * U)
    BY <2>1, RoundsTo
  <2> QED BY <2>2
<1>2. P \in Nat /\ U <= P /\ P <= x /\ x < 2 * P /\ y \in Nat /\ y < 2 * P + U /\ y >= P
  <2>1. M * U \in Nat /\ U <= M * U
    OBVIOUS
  <2> QED BY <2>1
<1>3. sum = y % (2 * P) /\ n = y \div U
  OBVIOUS
<1> HIDE DEF P, y
<1>4. CASE y < 2 * P
  <2>1. sum = y /\ n # 2 * M
    BY <1>1, <1>2, <1>3, <1>4
  <2> QED BY <1>1, <1>2, <2>1 DEF y, P
<1>5. CASE y >= 2 * P
  <2>1. n = 2 * M
    BY <1>1, <1>5
  <2>2. sum = y - 2 * P
    <3> DEFINE d == 2 * P
    <3>1. d \in Nat /\ d >= 1 /\ y >= d /\ y < 2 * d /\ sum = y % d
      BY <1>2, <1>3, <1>5
    <3> HIDE DEF d
    <3>2. sum = y - d
      BY <1>2, <3>1, WrapOnce
    <3> QED BY <3>2 DEF d
  <2>3. sum \in Nat /\ sum < U /\ sum < P /\ ~chop
    <3>1. ~chop
      BY <1>2, <1>5 DEF y
    <3> QED BY <1>2, <1>5, <2>2, <3>1
  <2>4. (sum \div 2 + M * U) \div U = M
    <3> DEFINE k == sum \div 2
    <3>1. k \in 0 .. U - 1
      BY <2>3
    <3> HIDE DEF k
    <3>2. k + M * U = At(U, M, k) /\ U >= 1 /\ M \in Int
      BY <3>1 DEF At
    <3>3. At(U, M, k) \div U = M
      BY <3>1, <3>2, RestOf
    <3> QED BY <3>2, <3>3 DEF k
  <2> QED BY <1>1, <2>1, <2>3, <2>4 DEF P
<1> QED BY <1>2, <1>4, <1>5

\* x in units of U, rounded half up or chopped; the exponent and the image of a
\* fraction of n units.
Nearest(x, U, chop) == (x + IF chop THEN 0 ELSE U \div 2) \div U
VaxExp(exp, n, g) == IF n = 2^(g.fracBits + 1) THEN exp + 1 ELSE exp
VaxFrac(n, g) == IF n = 2^(g.fracBits + 1) THEN 0 ELSE n - 2^g.fracBits
VaxBits(s, exp, n, g) ==
  IF VaxExp(exp, n, g) < g.expLo THEN 0
  ELSE Pack(s, IF VaxExp(exp, n, g) > g.expHi THEN g.expHi ELSE VaxExp(exp, n, g),
            VaxFrac(n, g) * 2^(FracBits - g.fracBits))

\* Rpack packs the nearest fraction of the format.
LEMMA RpackIs ==
  ASSUME NEW r, NEW g, NEW v, NEW exc, r.exp \in Int,
         r.frac \in NormBit .. 2 * NormBit - 1, v.chop \in BOOLEAN,
         g.fracBits \in 1 .. FracBits, g.expLo \in Int, g.expHi \in Int, g.expLo <= g.expHi,
         NEW n, n = Nearest(r.frac, 2^(FracWidth - 1 - g.fracBits), v.chop)
  PROVE  /\ n \in 2^g.fracBits .. 2^(g.fracBits + 1)
         /\ Rpack(r, g, v, exc).bits = VaxBits(r.sign, r.exp, n, g)
         /\ VaxExp(r.exp, n, g) > g.expHi => "OVF" \in Rpack(r, g, v, exc).exc
<1> DEFINE fb == g.fracBits
           x == r.frac
           shift == FracWidth - 1 - fb
           M == 2^fb
           U == 2^shift
           D == 2^(FracBits - fb)
           H == 2^Guard
           c == IF v.chop THEN 0 ELSE U \div 2
           sum == (x + c) % 2^FracWidth
           carry == ~v.chop /\ sum < NormBit
           frac == IF carry THEN sum \div 2 + NormBit ELSE sum
           top == IF carry THEN r.exp + 1 ELSE r.exp
           field == Bits((frac \div U) * U, Guard, FracBits)
<1>1. fb \in 1 .. FracBits
  OBVIOUS
<1>2. /\ M \in Nat /\ M >= 2 /\ U \in Nat /\ U >= 4 /\ D \in Nat /\ D >= 1
      /\ U = D * H /\ NormBit = M * U /\ 2^FracBits = M * D
      /\ 2^(fb + 1) = 2 * M /\ U \div 2 = 2^(shift - 1) /\ U = 2 * (U \div 2)
      /\ U \div 2 \in Nat
  <2> HIDE DEF fb
  <2>1. /\ M \in Nat /\ M >= 2 /\ U \in Nat /\ U >= 4 /\ D \in Nat /\ D >= 1
        /\ U = D * H /\ NormBit = M * U /\ 2^FracBits = M * D
        /\ 2^(fb + 1) = 2 * M /\ U \div 2 = 2^(shift - 1) /\ U = 2 * (U \div 2)
    BY <1>1, UnitPowers
  <2> HIDE DEF U
  <2> QED BY <2>1
<1>3. Rpack(r, g, v, exc) =
        CASE x = 0 -> [bits |-> 0, exc |-> exc]
          [] x # 0 /\ top < g.expLo ->
               [bits |-> 0, exc |-> exc \cup IF v.underflow THEN {"UNF"} ELSE {}]
          [] OTHER -> [bits |-> Pack(r.sign, IF top > g.expHi THEN g.expHi ELSE top, field),
                       exc |-> exc \cup IF top > g.expHi THEN {"OVF"} ELSE {}]
  BY <1>2 DEF Rpack
<1>4. x \in Nat /\ M * U <= x /\ x < 2 * (M * U) /\ x # 0 /\ 2^FracWidth = 2 * (M * U)
  BY <1>2, KernelPowers
<1>5. c \in 0 .. U - 1 /\ c <= U \div 2 /\ n = (x + c) \div U
  BY <1>2 DEF Nearest
<1>6. H \in Nat /\ H >= 1
  BY KernelPowers
<1> HIDE DEF fb, x, shift, M, U, D, H
<1>7. Carries(M, U, x, v.chop, c, n, sum)
  BY <1>2, <1>4, <1>5 DEF Carries
<1> HIDE DEF c, sum
<1>8. Carried(M, U, x, v.chop, c, n, sum)
  BY <1>7, CarriedUnits
<1>9. /\ n \in M .. 2 * M
      /\ ~v.chop /\ sum < M * U <=> n = 2 * M
      /\ n = 2 * M => (sum \div 2 + M * U) \div U = M
      /\ n # 2 * M => sum = x + c
  BY <1>8 DEF Carried
<1>10. carry <=> n = 2 * M
  BY <1>2, <1>9
<1>11. field = (IF n = 2 * M THEN 0 ELSE n - M) * D
  <2>1. frac \div U = IF n = 2 * M THEN M ELSE n
    BY <1>2, <1>5, <1>9, <1>10
  <2> DEFINE i == IF n = 2 * M THEN M ELSE n
  <2>2. i \in M .. 2 * M - 1 /\ i - M = IF n = 2 * M THEN 0 ELSE n - M
    BY <1>2, <1>9
  <2>3. field = ((i * (D * H)) \div H) % (M * D)
    BY <1>2, <2>1 DEF Bits, H
  <2> HIDE DEF i, field
  <2>4. ((i * (D * H)) \div H) % (M * D) = (i - M) * D
    <3>1. M >= 1
      BY <1>2
    <3> QED BY <1>2, <1>6, <2>2, <3>1, PlacedBits
  <2> QED BY <2>2, <2>3, <2>4
<1>12. n = 2^(g.fracBits + 1) <=> n = 2 * M
  BY <1>2 DEF fb
<1>13. top = VaxExp(r.exp, n, g) /\ field = VaxFrac(n, g) * 2^(FracBits - g.fracBits)
  BY <1>10, <1>11, <1>12 DEF VaxExp, VaxFrac, M, D, fb
<1>14. n \in 2^g.fracBits .. 2^(g.fracBits + 1)
  BY <1>2, <1>9 DEF fb, M
<1>15. top \in Int
  OBVIOUS
<1> HIDE DEF top, field
<1>16. Rpack(r, g, v, exc).bits = VaxBits(r.sign, r.exp, n, g)
  BY <1>3, <1>4, <1>13 DEF VaxBits
<1>17. ASSUME top > g.expHi PROVE "OVF" \in Rpack(r, g, v, exc).exc
  <2>1. ~(top < g.expLo)
    BY <1>15, <1>17, Beyond, Zenon
  <2> DEFINE p == Pack(r.sign, IF top > g.expHi THEN g.expHi ELSE top, field)
  <2> HIDE DEF p
  <2>2. Rpack(r, g, v, exc) = [bits |-> p, exc |-> exc \cup IF top > g.expHi THEN {"OVF"} ELSE {}]
    BY <1>3, <1>4, <2>1 DEF p
  <2>3. Rpack(r, g, v, exc).exc = exc \cup {"OVF"}
    BY <1>17, <2>2
  <2> QED BY <2>3
<1> QED BY <1>13, <1>14, <1>16, <1>17

----------------------------------------------------------------------------
(* The VAX kernels stay inside their format.                              *)

\* A result a format holds.
Fits(r, g) == r \in Images /\ (g = F => ShortZero(r) \/ ShortNumber(r, ShortExps))

\* The geometry of F and G.
LEMMA GeomType ==
  ASSUME NEW g \in {F, G}
  PROVE  /\ g.fracBits \in 1 .. FracBits /\ g.expLo \in Int /\ g.expHi \in Int
         /\ g.expLo <= g.expHi /\ g.expLo >= 1 /\ g.expHi <= ExpMax
<1>1. Half \in Nat /\ Half >= 2 /\ Bias \in Nat /\ 2 * Half <= Bias /\ ExpMax = 2 * Bias - 1
  BY ShortBias
<1>2. F.fracBits = SFracBits /\ F.expLo = Bias - Half + 1 /\ F.expHi = Bias + Half - 1
  BY DEF F, Half
<1>3. G.fracBits = FracBits /\ G.expLo = 1 /\ G.expHi = ExpMax
  BY DEF G
<1>4. SFracBits \in 1 .. FracBits /\ FracBits \in 1 .. FracBits
  BY Widths
<1>5. CASE g = F
  BY <1>1, <1>2, <1>4, <1>5
<1>6. CASE g = G
  BY <1>1, <1>3, <1>4, <1>6
<1> QED BY <1>5, <1>6

\* Zero fits every format.
LEMMA ZeroFits ==
  ASSUME NEW g
  PROVE  Fits(0, g)
<1>1. Pack(0, 0, 0) = 0
  BY RegPowers DEF Pack
<1>2. 0 \in Images
  <2>1. Pack(0, 0, 0) \in Images
    BY PackFields, RegPowers
  <2> QED BY <1>1, <2>1
<1> QED BY <1>1, <1>2 DEF Fits, ShortZero

\* A rounded fraction has the bits of its format.
LEMMA VaxFracType ==
  ASSUME NEW g \in {F, G}, NEW n \in 2^g.fracBits .. 2^(g.fracBits + 1)
  PROVE  VaxFrac(n, g) \in 0 .. 2^g.fracBits - 1
<1> DEFINE fb == g.fracBits
           M == 2^fb
<1>1. fb \in Nat
  BY GeomType
<1> HIDE DEF fb
<1>2. M \in Nat /\ M >= 1 /\ 2^(fb + 1) = 2 * M
  BY <1>1, PowPos, TwoPowSucc
<1>3. n \in M .. 2^(fb + 1) /\ VaxFrac(n, g) = IF n = 2^(fb + 1) THEN 0 ELSE n - M
  BY DEF VaxFrac, fb
<1> HIDE DEF M
<1>4. VaxFrac(n, g) \in 0 .. M - 1
  BY <1>2, <1>3
<1> QED BY <1>4 DEF M, fb

\* A packed result fits its format.
LEMMA VaxBitsFit ==
  ASSUME NEW g \in {F, G}, NEW s \in {0, 1}, NEW top \in Int,
         NEW n \in 2^g.fracBits .. 2^(g.fracBits + 1)
  PROVE  Fits(VaxBits(s, top, n, g), g)
<1> DEFINE e == IF VaxExp(top, n, g) > g.expHi THEN g.expHi ELSE VaxExp(top, n, g)
           f == VaxFrac(n, g)
<1>1. VaxExp(top, n, g) \in Int /\ g.expLo \in Int /\ g.expHi \in Int /\ g.expLo <= g.expHi
  BY GeomType DEF VaxExp
<1>2. CASE VaxExp(top, n, g) < g.expLo
  BY <1>2, ZeroFits DEF VaxBits
<1>3. CASE ~(VaxExp(top, n, g) < g.expLo)
  <2>1. VaxBits(s, top, n, g) = Pack(s, e, f * 2^(FracBits - g.fracBits))
    BY <1>3 DEF VaxBits
  <2>2. e \in g.expLo .. g.expHi
    BY <1>1, <1>3
  <2>3. f \in 0 .. 2^g.fracBits - 1
    BY VaxFracType
  <2> HIDE DEF e, f
  <2>4. e \in 0 .. 2^ExpBits - 1
    <3>1. g.expLo >= 1 /\ g.expHi <= ExpMax /\ ExpMax \in Int /\ 2^ExpBits - 1 = ExpMax
      BY GeomType, RegPowers DEF ExpMax
    <3>2. e \in Int /\ g.expLo <= e /\ e <= g.expHi
      BY <1>1, <2>2
    <3> DEFINE lo == g.expLo
               hi == g.expHi
    <3>3. lo \in Int /\ hi \in Int /\ lo >= 1 /\ hi <= ExpMax /\ lo <= e /\ e <= hi
      BY <1>1, <3>1, <3>2
    <3> HIDE DEF lo, hi
    <3> QED BY <3>1, <3>2, <3>3
  <2>5. CASE g = G
    <3>1. g.fracBits = FracBits /\ FracBits - FracBits = 0
      BY <2>5, Widths DEF G
    <3>2. f \in 0 .. 2^FracBits - 1 /\ f \in Int
      BY <2>3, <3>1, RegPowers
    <3>3. f * 2^(FracBits - g.fracBits) = f
      <4>1. 2^(FracBits - g.fracBits) = 2^0
        BY <3>1
      <4>2. 2^0 = 1
        OBVIOUS
      <4> QED BY <3>2, <4>1, <4>2
    <3>4. Pack(s, e, f) \in Images
      BY <2>4, <3>2, PackFields
    <3>5. g # F
      BY <3>1, Widths DEF F
    <3> QED BY <2>1, <3>3, <3>4, <3>5 DEF Fits
  <2>6. CASE g = F
    <3>1. g.fracBits = SFracBits /\ FracBits - SFracBits = Pad
      BY <2>6 DEF F, Pad
    <3>2. e \in ShortExps
      BY <2>2, <2>6 DEF F, ShortExps, Half
    <3>3. f \in 0 .. 2^SFracBits - 1
      BY <2>3, <3>1
    <3>4. VaxBits(s, top, n, g) = Pack(s, e, f * 2^Pad)
      BY <2>1, <3>1
    <3>5. ShortNumber(VaxBits(s, top, n, g), ShortExps)
      BY <3>2, <3>3, <3>4 DEF ShortNumber
    <3>6. f * 2^Pad \in 0 .. 2^FracBits - 1
      BY <3>3, PadFrac
    <3> DEFINE k == f * 2^Pad
    <3> HIDE DEF k
    <3>7. Pack(s, e, k) \in Images
      BY <2>4, <3>6, PackFields DEF k
    <3> QED BY <3>4, <3>5, <3>7 DEF Fits, k
  <2> QED BY <2>5, <2>6
<1> QED BY <1>2, <1>3

\* A number after normalisation.
Normal(r) == r.sign \in {0, 1} /\ r.exp \in Int /\ r.frac \in NormBit .. 2 * NormBit - 1

\* What Rpack packs fits the format.
LEMMA RpackFits ==
  ASSUME NEW r, NEW g \in {F, G}, NEW v, NEW exc, v.chop \in BOOLEAN,
         Normal(r) \/ r.frac = 0
  PROVE  Fits(Rpack(r, g, v, exc).bits, g)
<1>1. CASE r.frac = 0
  BY <1>1, ZeroFits DEF Rpack
<1>2. CASE Normal(r)
  <2> DEFINE n == Nearest(r.frac, 2^(FracWidth - 1 - g.fracBits), v.chop)
  <2>1. r.sign \in {0, 1} /\ r.exp \in Int /\ r.frac \in NormBit .. 2 * NormBit - 1
    BY <1>2 DEF Normal
  <2>2. n \in 2^g.fracBits .. 2^(g.fracBits + 1) /\ Rpack(r, g, v, exc).bits = VaxBits(r.sign, r.exp, n, g)
    BY <2>1, GeomType, RpackIs
  <2> HIDE DEF n
  <2> QED BY <2>1, <2>2, VaxBitsFit
<1> QED BY <1>1, <1>2

\* Two different shifts do not both put the top bit in place.
LEMMA ShiftOrder ==
  ASSUME NEW x \in Nat, NEW N \in Nat, N >= 1, NEW a \in Nat, NEW b \in Nat, a < b,
         x * 2^a \in N .. 2 * N - 1, x * 2^b \in N .. 2 * N - 1
  PROVE  FALSE
<1> DEFINE p == 2^a
           q == 2^b
<1>1. p \in Nat /\ q \in Nat /\ 2 * p <= q
  BY PowPos, PowMono
<1>2. x * p >= N /\ x * q <= 2 * N - 1
  OBVIOUS
<1> HIDE DEF p, q
<1>3. x * (2 * p) <= x * q /\ x * (2 * p) = 2 * (x * p) /\ x * p \in Nat /\ x * q \in Nat
  BY <1>1
<1> QED BY <1>2, <1>3

\* The shift that normalises is unique.
LEMMA ShiftUnique ==
  ASSUME NEW x \in Nat, NEW N \in Nat, N >= 1, NEW i \in Nat, NEW j \in Nat,
         x * 2^i \in N .. 2 * N - 1, x * 2^j \in N .. 2 * N - 1
  PROVE  i = j
<1>1. i < j \/ j < i \/ i = j
  OBVIOUS
<1>2. CASE i < j
  BY <1>2, ShiftOrder, Zenon
<1>3. CASE j < i
  BY <1>3, ShiftOrder, Zenon
<1> QED BY <1>1, <1>2, <1>3

\* Norm shifts by the number that puts the top bit in place.
LEMMA NormIs ==
  ASSUME NEW r, r.frac \in Nat, r.frac # 0, NEW n \in 0 .. FracWidth - 1,
         r.frac * 2^n \in NormBit .. 2 * NormBit - 1
  PROVE  Norm(r) = [r EXCEPT !.exp = @ - n, !.frac = @ * 2^n]
<1> DEFINE k == CHOOSE k \in 0 .. FracWidth - 1 : r.frac * 2^k \in NormBit .. 2 * NormBit - 1
<1>1. k \in 0 .. FracWidth - 1 /\ r.frac * 2^k \in NormBit .. 2 * NormBit - 1
  <2>1. \E i \in 0 .. FracWidth - 1 : r.frac * 2^i \in NormBit .. 2 * NormBit - 1
    OBVIOUS
  <2> QED BY <2>1, Zenon
<1>2. Norm(r) = [r EXCEPT !.exp = @ - k, !.frac = @ * 2^k]
  BY DEF Norm
<1> HIDE DEF k
<1>3. k = n
  <2>1. n \in Nat /\ k \in Nat /\ NormBit \in Nat /\ NormBit >= 1
    BY <1>1, KernelPowers
  <2> QED BY <1>1, <2>1, ShiftUnique
<1> QED BY <1>2, <1>3

\* There is such a number for every fraction but zero.
LEMMA NormExists ==
  ASSUME NEW x \in 1 .. 2 * NormBit - 1
  PROVE  \E n \in 0 .. FracWidth - 1 : x * 2^n \in NormBit .. 2 * NormBit - 1
<1>1. /\ FracWidth \in Nat /\ FracWidth >= 5 /\ NormBit \in Nat /\ 2^FracWidth = 2 * NormBit
      /\ NormBit = 2^(FracWidth - 1) /\ x \in Nat /\ x >= 1
  BY KernelPowers DEF NormBit
<1>2. PICK h \in Nat : 2^h <= x /\ x < 2^(h + 1)
  BY <1>1, TopBit
<1>3. h < FracWidth
  <2>1. 2^h < 2^FracWidth
    BY <1>1, <1>2, PowPos
  <2> QED BY <1>1, <2>1, PowMono
<1> DEFINE n == FracWidth - 1 - h
           p == 2^h
           q == 2^n
<1>4. n \in 0 .. FracWidth - 1 /\ n \in Nat
  BY <1>1, <1>3
<1>5. p \in Nat /\ q \in Nat /\ NormBit = p * q /\ 2^(h + 1) = 2 * p /\ q >= 1
  <2>1. h + n = FracWidth - 1
    BY <1>1, <1>4
  <2> HIDE DEF n
  <2> QED BY <1>1, <1>4, <2>1, PowPos, PowAdd, TwoPowSucc
<1>6. p <= x /\ x <= 2 * p - 1
  BY <1>1, <1>2, <1>5
<1> HIDE DEF n, p, q
<1>7. p * q <= x * q /\ x * q <= (2 * p - 1) * q /\ (2 * p - 1) * q = 2 * (p * q) - q
  BY <1>1, <1>5, <1>6
<1>8. x * q \in Nat /\ p * q \in Nat
  BY <1>1, <1>5
<1>9. x * q \in NormBit .. 2 * NormBit - 1
  BY <1>5, <1>7, <1>8
<1> QED BY <1>4, <1>9 DEF q

\* A normalised number has its top bit in place or is zero.
LEMMA NormType ==
  ASSUME NEW s \in {0, 1}, NEW e \in Int, NEW f \in 0 .. 2 * NormBit - 1,
         NEW r, r = [sign |-> s, exp |-> e, frac |-> f]
  PROVE  Normal(Norm(r)) \/ Norm(r).frac = 0
<1>1. CASE f = 0
  BY <1>1 DEF Norm
<1>2. CASE f # 0
  <2>1. f \in 1 .. 2 * NormBit - 1 /\ f \in Nat
    BY <1>2, KernelPowers
  <2>2. PICK n \in 0 .. FracWidth - 1 : f * 2^n \in NormBit .. 2 * NormBit - 1
    BY <2>1, NormExists
  <2> DEFINE y == f * 2^n
  <2>3. Norm(r) = [r EXCEPT !.exp = @ - n, !.frac = @ * 2^n]
    <3>1. r.frac \in Nat /\ r.frac # 0 /\ r.frac * 2^n \in NormBit .. 2 * NormBit - 1
      BY <1>2, <2>1, <2>2
    <3> QED BY <3>1, NormIs
  <2>4. Norm(r) = [sign |-> s, exp |-> e - n, frac |-> y]
    BY <2>3
  <2>5. e - n \in Int
    BY KernelPowers
  <2> HIDE DEF y
  <2> QED BY <2>2, <2>4, <2>5 DEF Normal, y
<1> QED BY <1>1, <1>2

\* Whatever a kernel hands over, Rpack(Norm(r)) fits the format.
LEMMA KernelFits ==
  ASSUME NEW s \in {0, 1}, NEW e \in Int, NEW f \in 0 .. 2 * NormBit - 1,
         NEW r, r = [sign |-> s, exp |-> e, frac |-> f],
         NEW g \in {F, G}, NEW v, v.chop \in BOOLEAN, NEW exc
  PROVE  Fits(Rpack(Norm(r), g, v, exc).bits, g)
<1>1. Normal(Norm(r)) \/ Norm(r).frac = 0
  BY NormType
<1> DEFINE m == Norm(r)
<1> HIDE DEF m
<1>2. Normal(m) \/ m.frac = 0
  BY <1>1 DEF m
<1>3. Fits(Rpack(m, g, v, exc).bits, g)
  BY <1>2, RpackFits
<1> QED BY <1>3 DEF m

\* The fraction of an image with its hidden bit, and the number unpacked from it.
Hidden(r) == Frac(r) + 2^FracBits

\* What Unpack takes from an image.
LEMMA UnpackIs ==
  ASSUME NEW r \in Images
  PROVE  /\ Exp(r) = 0 => Unpack(r) = [sign |-> 0, exp |-> 0, frac |-> 0]
         /\ Exp(r) # 0 => Unpack(r) = [sign |-> Sign(r), exp |-> Exp(r), frac |-> Hidden(r) * 2^Guard]
         /\ Hidden(r) \in 2^FracBits .. 2 * 2^FracBits - 1 /\ Hidden(r) \in Nat
         /\ Hidden(r) * 2^Guard \in NormBit .. 2 * NormBit - 1
         /\ Sign(r) \in {0, 1} /\ Exp(r) \in Nat
<1>1. Sign(r) \in {0, 1} /\ Exp(r) \in 0 .. 2^ExpBits - 1 /\ Frac(r) \in 0 .. 2^FracBits - 1
  BY FieldsPack
<1> DEFINE L == 2^FracBits
           H == 2^Guard
           x == Hidden(r)
<1>2. L \in Nat /\ L >= 1 /\ H \in Nat /\ H >= 4 /\ NormBit = L * H /\ NormBit \in Nat
  BY RegPowers, KernelPowers
<1>3. x \in L .. 2 * L - 1 /\ x \in Nat
  <2>1. x = Frac(r) + L /\ Frac(r) \in 0 .. L - 1
    BY <1>1 DEF Hidden
  <2> HIDE DEF L, x
  <2> QED BY <1>2, <2>1
<1>4. x * H \in NormBit .. 2 * NormBit - 1
  <2> HIDE DEF L, H, x
  <2>1. L * H <= x * H /\ x * H <= (2 * L - 1) * H /\ (2 * L - 1) * H = 2 * (L * H) - H
    BY <1>2, <1>3
  <2>2. x * H \in Nat /\ L * H \in Nat
    BY <1>2, <1>3
  <2> QED BY <1>2, <2>1, <2>2
<1>5. Exp(r) \in Nat
  BY <1>1, RegPowers
<1>6. Exp(r) # 0 => Unpack(r) = [sign |-> Sign(r), exp |-> Exp(r), frac |-> x * H]
  BY DEF Unpack, Hidden
<1>7. Exp(r) = 0 => Unpack(r) = [sign |-> 0, exp |-> 0, frac |-> 0]
  BY DEF Unpack
<1> QED BY <1>1, <1>3, <1>4, <1>5, <1>6, <1>7

\* The record form of what is unpacked.
Unpacked(p) ==
  /\ p = [sign |-> p.sign, exp |-> p.exp, frac |-> p.frac]
  /\ p.sign \in {0, 1} /\ p.exp \in Nat /\ p.frac \in 0 .. 2 * NormBit - 1
  /\ p.exp = 0 => p.frac = 0
  /\ p.exp # 0 => p.frac \in NormBit .. 2 * NormBit - 1

\* An unpacked number is a record of sign, exponent and fraction, negated or not.
LEMMA UnpackType ==
  ASSUME NEW r \in Images
  PROVE  Unpacked(Unpack(r)) /\ Unpacked([Unpack(r) EXCEPT !.sign = 1 - @])
<1> DEFINE f == Hidden(r) * 2^Guard
<1>1. /\ Exp(r) = 0 => Unpack(r) = [sign |-> 0, exp |-> 0, frac |-> 0]
      /\ Exp(r) # 0 => Unpack(r) = [sign |-> Sign(r), exp |-> Exp(r), frac |-> f]
      /\ f \in NormBit .. 2 * NormBit - 1 /\ Sign(r) \in {0, 1} /\ Exp(r) \in Nat
      /\ NormBit \in Nat /\ NormBit >= 1
  BY UnpackIs, KernelPowers
<1> HIDE DEF f
<1>2. CASE Exp(r) = 0
  BY <1>1, <1>2 DEF Unpacked
<1>3. CASE Exp(r) # 0
  BY <1>1, <1>3 DEF Unpacked
<1> QED BY <1>2, <1>3

\* A sum or difference fits its format.
LEMMA AddSubFits ==
  ASSUME NEW x \in Images, NEW y \in Images, NEW sub \in BOOLEAN, NEW g \in {F, G},
         NEW v, v.chop \in BOOLEAN
  PROVE  Fits(AddSub(x, y, sub, g, v).bits, g)
<1> DEFINE p == Unpack(x)
           q == IF sub THEN [Unpack(y) EXCEPT !.sign = 1 - @] ELSE Unpack(y)
           a == IF p.exp < q.exp THEN q ELSE p
           b == IF p.exp < q.exp THEN p ELSE q
           small == IF a.exp - b.exp >= FracWidth THEN 0 ELSE b.frac \div 2^(a.exp - b.exp)
           sum == a.frac + small
           exc == Invalid({x, y})
           r == IF a.sign # b.sign
                THEN [a EXCEPT !.frac = (@ - small) % 2^FracWidth]
                ELSE IF sum < 2^FracWidth THEN [a EXCEPT !.frac = sum]
                ELSE [a EXCEPT !.frac = sum \div 2, !.exp = @ + 1]
<1>1. Unpacked(p) /\ Unpacked(q)
  BY UnpackType
<1>2. AddSub(x, y, sub, g, v) =
        CASE p.exp = 0 -> Rpack(q, g, v, exc)
          [] p.exp # 0 /\ q.exp = 0 -> Rpack(p, g, v, exc)
          [] OTHER -> Rpack(Norm(r), g, v, exc)
  BY DEF AddSub
<1> HIDE DEF p, q, exc
<1>3. CASE p.exp = 0
  <2>1. Normal(q) \/ q.frac = 0
    BY <1>1 DEF Normal, Unpacked
  <2>2. AddSub(x, y, sub, g, v) = Rpack(q, g, v, exc)
    BY <1>2, <1>3
  <2> QED BY <2>1, <2>2, RpackFits
<1>4. CASE p.exp # 0 /\ q.exp = 0
  <2>1. Normal(p) \/ p.frac = 0
    BY <1>1 DEF Normal, Unpacked
  <2>2. AddSub(x, y, sub, g, v) = Rpack(p, g, v, exc)
    BY <1>2, <1>4
  <2> QED BY <2>1, <2>2, RpackFits
<1>5. CASE p.exp # 0 /\ q.exp # 0
  <2>1. AddSub(x, y, sub, g, v) = Rpack(Norm(r), g, v, exc)
    BY <1>2, <1>5
  <2>2. Unpacked(a) /\ Unpacked(b) /\ a.exp - b.exp \in Nat
    BY <1>1, <1>5 DEF Unpacked
  <2>3. NormBit \in Nat /\ 2^FracWidth = 2 * NormBit /\ NormBit >= 1
    BY KernelPowers
  <2> HIDE DEF a, b
  <2>4. small \in 0 .. 2 * NormBit - 1
    <3>1. CASE a.exp - b.exp >= FracWidth
      BY <2>3, <3>1
    <3>2. CASE ~(a.exp - b.exp >= FracWidth)
      <4> DEFINE d == 2^(a.exp - b.exp)
                 i == b.frac
      <4>1. small = i \div d
        BY <3>2
      <4>2. d \in Nat /\ d >= 1
        BY <2>2, PowPos
      <4>3. i \in 0 .. 2 * NormBit - 1
        BY <2>2 DEF Unpacked
      <4> HIDE DEF d, i
      <4>4. i \in Nat /\ i \div d \in Int /\ i % d \in Nat /\ i = d * (i \div d) + (i % d) /\ i % d < d
        BY <2>3, <4>2, <4>3, DivMod
      <4> DEFINE k == i \div d
      <4> HIDE DEF k
      <4>5. k \in Int /\ d * k <= i /\ i < d * (k + 1)
        <5>1. d * k \in Int /\ d * (k + 1) = d * k + d
          BY <4>2, <4>4 DEF k
        <5> QED BY <4>2, <4>4, <5>1 DEF k
      <4>6. ASSUME k + 1 <= 0 PROVE FALSE
        <5>1. d * (k + 1) <= 0
          BY <4>2, <4>5, <4>6
        <5> QED BY <4>2, <4>4, <4>5, <5>1
      <4>7. k \in Nat /\ k <= d * k
        BY <4>2, <4>5, <4>6
      <4>8. d * k \in Int
        BY <4>2, <4>5
      <4>9. k <= i
        BY <4>4, <4>5, <4>7, <4>8
      <4> QED BY <2>3, <4>1, <4>3, <4>4, <4>7, <4>9 DEF k
    <3> QED BY <3>1, <3>2
  <2> HIDE DEF small
  <2>5. /\ a = [sign |-> a.sign, exp |-> a.exp, frac |-> a.frac]
        /\ a.sign \in {0, 1} /\ a.exp \in Int /\ a.frac \in 0 .. 2 * NormBit - 1
    BY <2>2 DEF Unpacked
  <2> DEFINE s == a.sign
             e == a.exp
             f == a.frac
  <2>6. a = [sign |-> s, exp |-> e, frac |-> f] /\ s \in {0, 1} /\ e \in Int /\ f \in 0 .. 2 * NormBit - 1
    BY <2>5
  <2>7. r = IF s # b.sign THEN [a EXCEPT !.frac = (f - small) % 2^FracWidth]
            ELSE IF f + small < 2^FracWidth THEN [a EXCEPT !.frac = f + small]
            ELSE [a EXCEPT !.frac = (f + small) \div 2, !.exp = e + 1]
    BY <2>5
  <2> HIDE DEF s, e, f, r
  <2>8. \E e1 \in Int, f1 \in 0 .. 2 * NormBit - 1 : r = [sign |-> s, exp |-> e1, frac |-> f1]
    <3>1. CASE s # b.sign
      <4> DEFINE k == (f - small) % 2^FracWidth
      <4>1. k \in 0 .. 2 * NormBit - 1
        BY <2>3, <2>4, <2>6
      <4>2. r = [a EXCEPT !.frac = k]
        BY <2>7, <3>1
      <4> HIDE DEF k
      <4>3. r = [sign |-> s, exp |-> e, frac |-> k]
        BY <2>6, <4>2
      <4> QED BY <2>6, <4>1, <4>3
    <3>2. CASE s = b.sign /\ f + small < 2^FracWidth
      <4> DEFINE k == f + small
      <4>1. k \in 0 .. 2 * NormBit - 1
        BY <2>3, <2>4, <2>6, <3>2
      <4>2. r = [a EXCEPT !.frac = k]
        BY <2>7, <3>2
      <4> HIDE DEF k
      <4>3. r = [sign |-> s, exp |-> e, frac |-> k]
        BY <2>6, <4>2
      <4> QED BY <2>6, <4>1, <4>3
    <3>3. CASE s = b.sign /\ ~(f + small < 2^FracWidth)
      <4> DEFINE k == (f + small) \div 2
      <4>1. k \in 0 .. 2 * NormBit - 1
        BY <2>3, <2>4, <2>6, <3>3
      <4>2. r = [a EXCEPT !.frac = k, !.exp = e + 1]
        BY <2>7, <3>3
      <4>3. e + 1 \in Int
        BY <2>6
      <4> HIDE DEF k
      <4>4. r = [sign |-> s, exp |-> e + 1, frac |-> k]
        BY <2>6, <4>2
      <4> QED BY <4>1, <4>4, <4>3
    <3> QED BY <3>1, <3>2, <3>3
  <2>9. Fits(Rpack(Norm(r), g, v, exc).bits, g)
    BY <2>6, <2>8, KernelFits
  <2> QED BY <2>1, <2>9
<1> QED BY <1>3, <1>4, <1>5

\* A quotient lies between the quotients of the bounds of its dividend.
LEMMA QuotientIn ==
  ASSUME NEW x \in Nat, NEW d \in Nat, d >= 1, NEW lo \in Nat, NEW hi \in Nat,
         d * lo <= x, x < d * hi
  PROVE  x \div d \in lo .. hi - 1
<1> DEFINE q == x \div d
<1>1. q \in Int /\ x % d \in Nat /\ x % d < d /\ x = d * q + (x % d)
  BY DivMod
<1> HIDE DEF q
<1>2. d * q \in Int /\ d * (q + 1) = d * q + d
  BY <1>1
<1>3. d * q <= x /\ x < d * (q + 1)
  BY <1>1, <1>2
<1>4. ASSUME q + 1 <= lo PROVE FALSE
  <2>1. d * (q + 1) <= d * lo /\ d * lo \in Int
    BY <1>1, <1>4
  <2> QED BY <1>2, <1>3, <2>1
<1>5. ASSUME hi <= q PROVE FALSE
  <2>1. d * hi <= d * q /\ d * hi \in Int
    BY <1>1, <1>5
  <2> QED BY <1>2, <1>3, <2>1
<1>6. q \in lo .. hi - 1
  BY <1>1, <1>4, <1>5
<1> QED BY <1>6 DEF q

\* The product of two normal fractions, cut to its upper half.
LEMMA ProductNormal ==
  ASSUME NEW N \in Nat, N >= 1, NEW A \in N .. 2 * N - 1, NEW B \in N .. 2 * N - 1
  PROVE  /\ A * B \in Nat
         /\ A * B >= 2 * (N * N) => (A * B) \div (2 * N) \in N .. 2 * N - 1
         /\ A * B < 2 * (N * N) => (A * B) \div N \in N .. 2 * N - 1
<1> DEFINE P == A * B
<1>1. A \in Nat /\ B \in Nat /\ A >= N /\ B >= N /\ A <= 2 * N - 1 /\ B <= 2 * N - 1
  OBVIOUS
<1>2. P \in Nat /\ N * N \in Nat
  BY <1>1
<1>3. N * N <= P
  <2>1. N * N <= A * N /\ A * N <= A * B
    BY <1>1
  <2>2. A * N \in Nat
    BY <1>1
  <2> QED BY <1>2, <2>1, <2>2
<1>4. P < 4 * (N * N)
  <2>1. A * B <= A * (2 * N) /\ A * (2 * N) = (2 * N) * A
    BY <1>1
  <2>2. (2 * N) * A <= (2 * N) * (2 * N - 1) /\ (2 * N) * (2 * N - 1) = 4 * (N * N) - 2 * N
    BY <1>1
  <2>3. A * (2 * N) \in Nat
    BY <1>1
  <2> QED BY <1>2, <2>1, <2>2, <2>3
<1> HIDE DEF P
<1>5. ASSUME P >= 2 * (N * N) PROVE P \div (2 * N) \in N .. 2 * N - 1
  <2> DEFINE d == 2 * N
             h == 2 * N
  <2>1. d \in Nat /\ d >= 1 /\ h \in Nat /\ d * N = 2 * (N * N) /\ d * h = 4 * (N * N)
    OBVIOUS
  <2>2. d * N <= P /\ P < d * h
    BY <1>4, <1>5, <2>1
  <2> HIDE DEF d, h
  <2>3. P \div d \in N .. h - 1
    BY <1>2, <2>1, <2>2, QuotientIn
  <2> QED BY <2>3 DEF d, h
<1>6. ASSUME P < 2 * (N * N) PROVE P \div N \in N .. 2 * N - 1
  <2> DEFINE h == 2 * N
  <2>1. h \in Nat /\ N * h = 2 * (N * N)
    OBVIOUS
  <2>2. N * N <= P /\ P < N * h
    BY <1>3, <1>6, <2>1
  <2> HIDE DEF h
  <2>3. P \div N \in N .. h - 1
    BY <1>2, <2>1, <2>2, QuotientIn
  <2> QED BY <2>3 DEF h
<1> QED BY <1>2, <1>5, <1>6 DEF P

\* The powers behind a product of two fractions.
LEMMA DoublePowers ==
  /\ 2^(2 * FracWidth - 1) = 2 * (NormBit * NormBit) /\ 2^(FracWidth - 1) = NormBit
<1> DEFINE k == FracWidth - 1
<1>1. k \in Nat /\ k + k \in Nat /\ NormBit = 2^k /\ 2 * FracWidth - 1 = k + k + 1 /\ NormBit \in Nat
  BY KernelPowers DEF NormBit
<1> HIDE DEF k
<1>2. 2^(k + k) = NormBit * NormBit
  BY <1>1, PowAdd
<1> DEFINE m == k + k
<1>3. 2^(m + 1) = 2 * 2^m
  <2>1. m \in Nat
    BY <1>1
  <2> HIDE DEF m
  <2> QED BY <2>1, TwoPowSucc
<1> QED BY <1>1, <1>2, <1>3 DEF k

\* A product fits its format.
LEMMA VaxMulFits ==
  ASSUME NEW x \in Images, NEW y \in Images, NEW g \in {F, G}, NEW v, v.chop \in BOOLEAN
  PROVE  Fits(VaxMul(x, y, g, v).bits, g)
<1> DEFINE a == Unpack(x)
           b == Unpack(y)
           product == a.frac * b.frac
           large == product >= 2^(2 * FracWidth - 1)
           top == a.exp + b.exp - Bias - 1
           exc == Invalid({x, y})
           s == (a.sign + b.sign) % 2
           e == IF large THEN top + 1 ELSE top
           f == product \div 2^(IF large THEN FracWidth ELSE FracWidth - 1)
           r == [sign |-> s, exp |-> e, frac |-> f]
<1>1. VaxMul(x, y, g, v) = IF a.exp = 0 \/ b.exp = 0 THEN [bits |-> 0, exc |-> exc]
                           ELSE Rpack(Norm(r), g, v, exc)
  BY DEF VaxMul
<1>2. Unpacked(a) /\ Unpacked(b)
  BY UnpackType
<1> HIDE DEF a, b, exc
<1>3. CASE a.exp = 0 \/ b.exp = 0
  BY <1>1, <1>3, ZeroFits
<1>4. CASE a.exp # 0 /\ b.exp # 0
  <2> DEFINE A == a.frac
             B == b.frac
             N == NormBit
  <2>1. A \in N .. 2 * N - 1 /\ B \in N .. 2 * N - 1 /\ N \in Nat /\ N >= 1
    BY <1>2, <1>4, KernelPowers DEF Unpacked
  <2>2. f = (A * B) \div (IF A * B >= 2 * (N * N) THEN 2 * N ELSE N)
    BY DoublePowers, KernelPowers
  <2>3. s \in {0, 1} /\ e \in Int
    BY <1>2, ExpPowers DEF Unpacked
  <2> HIDE DEF A, B, N, f, s, e
  <2>4. f \in N .. 2 * N - 1
    <3>1. /\ A * B \in Nat
          /\ A * B >= 2 * (N * N) => (A * B) \div (2 * N) \in N .. 2 * N - 1
          /\ A * B < 2 * (N * N) => (A * B) \div N \in N .. 2 * N - 1
      BY <2>1, ProductNormal
    <3>2. A * B >= 2 * (N * N) \/ A * B < 2 * (N * N)
      BY <2>1, <3>1
    <3> QED BY <2>2, <3>1, <3>2
  <2>5. f \in 0 .. 2 * NormBit - 1
    BY <2>1, <2>4 DEF N
  <2>6. VaxMul(x, y, g, v) = Rpack(Norm(r), g, v, exc) /\ r = [sign |-> s, exp |-> e, frac |-> f]
    BY <1>1, <1>4
  <2> HIDE DEF r
  <2> QED BY <2>3, <2>5, <2>6, KernelFits
<1> QED BY <1>3, <1>4

\* The quotient of two normal fractions, prec bits from the top of the word.
LEMMA UfDivType ==
  ASSUME NEW A \in NormBit .. 2 * NormBit - 1, NEW B \in NormBit .. 2 * NormBit - 1
  PROVE  UfDiv(A \div 2, B \div 2, FracBits + 3) \in 0 .. 2 * NormBit - 1
<1> DEFINE a == A \div 2
           b == B \div 2
           m == FracBits + 3 - 1
           P == 2^m
           k == FracWidth - (FracBits + 3)
           K == 2^k
           N == NormBit
<1>1. N \in Nat /\ N >= 4 /\ \E h \in Nat : N = 2 * h
  <2> DEFINE L == 2^FracBits
             H == 2^Guard
             j == FracBits + Guard - 1
             J == 2^j
  <2>1. N = L * H /\ L \in Nat /\ L >= 1 /\ H \in Nat /\ H >= 4 /\ N \in Nat
    BY KernelPowers, RegPowers
  <2>2. j \in Nat /\ j + 1 = FracWidth - 1
    BY Widths, KernelPowers
  <2>3. N = 2 * J /\ J \in Nat
    <3> HIDE DEF j
    <3> QED BY <2>2, TwoPowSucc, PowPos DEF NormBit
  <2> HIDE DEF L, H, J, N
  <2>4. L * H >= H
    BY <2>1
  <2>5. N >= 4
    BY <2>1, <2>4
  <2> QED BY <2>1, <2>3, <2>5
<1>2. m \in Nat /\ k \in Nat /\ (m + 1) + k = FracWidth /\ FracWidth \in Nat
  BY Widths, KernelPowers DEF FracWidth
<1>3. P \in Nat /\ P >= 1 /\ K \in Nat /\ K >= 1 /\ 2 * N = (2 * P) * K
  <2> DEFINE m1 == m + 1
  <2>1. m1 \in Nat /\ m1 + k = FracWidth
    BY <1>2
  <2> HIDE DEF m, k
  <2>2. 2^m1 = 2 * P
    BY <1>2, TwoPowSucc
  <2>3. P \in Nat /\ P >= 1 /\ K \in Nat /\ K >= 1
    BY <1>2, PowPos
  <2> HIDE DEF m1
  <2>4. 2^(m1 + k) = 2^m1 * 2^k
    BY <1>2, <2>1, PowAdd
  <2> QED BY <2>1, <2>2, <2>3, <2>4, KernelPowers
<1>4. a \in Nat /\ b \in Nat /\ b >= 1 /\ a < 2 * b
  <2>1. PICK h \in Nat : N = 2 * h
    BY <1>1
  <2>2. A \in 2 * h .. 4 * h - 1 /\ B \in 2 * h .. 4 * h - 1 /\ h >= 2
    BY <1>1, <2>1
  <2>3. a \in h .. 2 * h - 1 /\ b \in h .. 2 * h - 1
    BY <2>2
  <2> QED BY <2>2, <2>3
<1>5. UfDiv(A \div 2, B \div 2, FracBits + 3) = ((a * P) \div b) * K
  <2> DEFINE p == FracBits + 3
  <2>1. p - 1 = m /\ FracWidth - p = k
    BY Widths, KernelPowers
  <2> HIDE DEF a, b, p
  <2>2. UfDiv(a, b, p) = ((a * 2^(p - 1)) \div b) * 2^(FracWidth - p)
    BY DEF UfDiv
  <2> HIDE DEF m, k
  <2>3. UfDiv(a, b, p) = ((a * 2^m) \div b) * 2^k
    BY <2>1, <2>2
  <2> QED BY <2>3 DEF a, b, p
<1> HIDE DEF a, b, P, K, N, m, k
<1>6. (a * P) \div b \in 0 .. 2 * P - 1
  <2> DEFINE x == a * P
             h == 2 * P
  <2>1. x \in Nat /\ h \in Nat /\ b * 0 <= x
    BY <1>3, <1>4
  <2>2. x < b * h
    <3>1. a * P <= (2 * b - 1) * P /\ (2 * b - 1) * P = b * (2 * P) - P
      BY <1>3, <1>4
    <3>2. b * (2 * P) \in Nat
      BY <1>3, <1>4
    <3> QED BY <1>3, <2>1, <3>1, <3>2
  <2> HIDE DEF x, h
  <2>3. 0 \in Nat
    OBVIOUS
  <2>4. x \div b \in 0 .. h - 1
    BY <1>4, <2>1, <2>2, <2>3, QuotientIn
  <2> QED BY <2>4 DEF x, h
<1> DEFINE q == (a * P) \div b
<1> HIDE DEF q
<1>7. q \in Nat /\ q <= 2 * P - 1
  BY <1>3, <1>6 DEF q
<1>8. q * K \in Nat /\ q * K <= (2 * P - 1) * K /\ (2 * P - 1) * K = (2 * P) * K - K
  BY <1>3, <1>7
<1>9. q * K \in 0 .. 2 * N - 1
  <2>1. (2 * P) * K \in Nat
    BY <1>3
  <2> QED BY <1>1, <1>3, <1>8, <2>1
<1> QED BY <1>5, <1>9 DEF q, N

\* A quotient fits its format.
LEMMA DivFits ==
  ASSUME NEW x \in Images, NEW y \in Images, NEW g \in {F, G}, NEW v, v.chop \in BOOLEAN
  PROVE  Fits(Div(x, y, g, v).bits, g)
<1> DEFINE a == Unpack(x)
           b == Unpack(y)
           exc == Invalid({x, y})
           s == (a.sign + b.sign) % 2
           e == a.exp - b.exp + Bias + 1
           f == UfDiv(a.frac \div 2, b.frac \div 2, FracBits + 3)
           r == [sign |-> s, exp |-> e, frac |-> f]
<1>1. Div(x, y, g, v) =
        CASE b.exp = 0 -> [bits |-> 0, exc |-> exc \cup {"DZE"}]
          [] b.exp # 0 /\ a.exp = 0 -> [bits |-> 0, exc |-> exc]
          [] OTHER -> Rpack(Norm(r), g, v, exc)
  BY DEF Div
<1>2. Unpacked(a) /\ Unpacked(b)
  BY UnpackType
<1> HIDE DEF a, b, exc
<1>3. CASE b.exp = 0 \/ a.exp = 0
  BY <1>1, <1>3, ZeroFits
<1>4. CASE b.exp # 0 /\ a.exp # 0
  <2> DEFINE A == a.frac
             B == b.frac
  <2>1. A \in NormBit .. 2 * NormBit - 1 /\ B \in NormBit .. 2 * NormBit - 1
    BY <1>2, <1>4 DEF Unpacked
  <2>2. s \in {0, 1} /\ e \in Int
    BY <1>2, ExpPowers DEF Unpacked
  <2>3. f = UfDiv(A \div 2, B \div 2, FracBits + 3)
    OBVIOUS
  <2> HIDE DEF A, B, f, s, e
  <2>4. f \in 0 .. 2 * NormBit - 1
    BY <2>1, <2>3, UfDivType
  <2>5. Div(x, y, g, v) = Rpack(Norm(r), g, v, exc) /\ r = [sign |-> s, exp |-> e, frac |-> f]
    BY <1>1, <1>4
  <2> HIDE DEF r
  <2> QED BY <2>2, <2>4, <2>5, KernelFits
<1> QED BY <1>3, <1>4

\* A root fits its format.
LEMMA SqrtFits ==
  ASSUME NEW x \in Images, NEW g \in {F, G}, NEW v, v.chop \in BOOLEAN
  PROVE  Fits(Sqrt(x, g, v).bits, g)
<1> DEFINE a == Unpack(x)
           odd == (a.exp - Bias - 1) % 2 = 1
           e0 == a.exp - Bias - 1 + IF odd THEN 1 ELSE 0
           m == IF odd THEN a.frac \div 2 ELSE a.frac
           n == m * 2^(FracWidth - 2)
           f == CHOOSE r \in 0 .. 2^FracWidth - 1 : r * r <= n /\ (r + 1) * (r + 1) > n
           e == e0 \div 2 + Bias + 1
           w == [sign |-> 0, exp |-> e, frac |-> f]
<1>1. Sqrt(x, g, v) =
        CASE a.exp = 0 -> [bits |-> 0, exc |-> Invalid({x})]
          [] a.exp # 0 /\ a.sign = 1 -> [bits |-> 0, exc |-> {"INV"}]
          [] OTHER -> Rpack(Norm(w), g, v, {})
  BY DEF Sqrt
<1>2. Unpacked(a)
  BY UnpackType
<1> HIDE DEF a
<1>3. CASE a.exp = 0 \/ a.sign = 1
  BY <1>1, <1>3, ZeroFits
<1>4. CASE a.exp # 0 /\ a.sign # 1
  <2> DEFINE N == NormBit
             Q == 2^(FracWidth - 2)
  <2>1. N \in Nat /\ Q \in Nat /\ N = 2 * Q /\ 2^FracWidth = 2 * N
    <3> DEFINE i == FracWidth - 2
    <3>1. i \in Nat /\ i + 1 = FracWidth - 1
      BY KernelPowers
    <3> HIDE DEF i
    <3>2. 2^(i + 1) = 2 * 2^i /\ 2^i \in Nat
      BY <3>1, TwoPowSucc, PowPos
    <3> QED BY <3>1, <3>2, KernelPowers DEF NormBit, i
  <2>2. m \in Nat /\ m < 2 * N
    <3>1. a.frac \in NormBit .. 2 * NormBit - 1
      BY <1>2, <1>4 DEF Unpacked
    <3> QED BY <2>1, <3>1
  <2>3. n = m * Q
    OBVIOUS
  <2> HIDE DEF m, N, Q
  <2>4. n \in Nat /\ n < N * N
    <3>1. m * Q \in Nat /\ m * Q <= (2 * N - 1) * Q /\ (2 * N - 1) * Q = N * (2 * Q) - Q
      BY <2>1, <2>2
    <3>2. Q >= 1
      <4>1. N >= 1
        BY KernelPowers DEF N
      <4> QED BY <2>1, <4>1
    <3>3. N * (2 * Q) = N * N /\ N * N \in Nat
      BY <2>1
    <3> QED BY <2>1, <2>3, <3>1, <3>2, <3>3
  <2> HIDE DEF n
  <2>5. PICK t \in Nat : t * t <= n /\ n < (t + 1) * (t + 1)
    BY <2>4, RootExists
  <2>6. t < N
    <3>1. 0 * 0 <= n /\ 0 \in Nat
      BY <2>4
    <3> QED BY <2>1, <2>4, <2>5, <3>1, RootBetween
  <2>7. t \in 0 .. 2^FracWidth - 1 /\ t * t <= n /\ (t + 1) * (t + 1) > n
    <3>1. t * t \in Nat /\ (t + 1) * (t + 1) \in Nat
      OBVIOUS
    <3> QED BY <2>1, <2>4, <2>5, <2>6, <3>1
  <2>8. f \in 0 .. 2^FracWidth - 1
    BY <2>7, Zenon
  <2>9. f \in 0 .. 2 * NormBit - 1 /\ e \in Int
    <3>1. e \in Int
      BY <1>2, ExpPowers DEF Unpacked
    <3> QED BY <2>1, <2>8, <3>1 DEF N
  <2>10. Sqrt(x, g, v) = Rpack(Norm(w), g, v, {}) /\ w = [sign |-> 0, exp |-> e, frac |-> f]
    BY <1>1, <1>4
  <2> HIDE DEF w, f, e
  <2> QED BY <2>9, <2>10, KernelFits
<1> QED BY <1>3, <1>4

\* The VAX kernels leave a number of their format.
LEMMA VaxArithFits ==
  ASSUME NEW op \in Arith \cup {"SQRT"}, NEW a \in Images, NEW b \in Images,
         NEW g \in {F, G}, NEW v, VaxMode(v).chop \in BOOLEAN
  PROVE  Fits(VaxArith(op, a, b, g, v).bits, g)
<1> DEFINE w == VaxMode(v)
<1>1. w.chop \in BOOLEAN
  OBVIOUS
<1>2. VaxArith(op, a, b, g, v) =
        CASE op = "ADD" -> AddSub(a, b, FALSE, g, w)
          [] op = "SUB" -> AddSub(a, b, TRUE, g, w)
          [] op = "MUL" -> VaxMul(a, b, g, w)
          [] op = "DIV" -> Div(a, b, g, w)
          [] op = "SQRT" -> Sqrt(b, g, w)
  BY DEF VaxArith
<1>3. op \in {"ADD", "SUB", "MUL", "DIV", "SQRT"}
  BY DEF Arith
<1> HIDE DEF w
<1>4. CASE op = "ADD"
  <2>1. VaxArith(op, a, b, g, v) = AddSub(a, b, FALSE, g, w)
    BY <1>2, <1>4
  <2>2. PICK sub \in BOOLEAN : VaxArith(op, a, b, g, v) = AddSub(a, b, sub, g, w)
    BY <2>1
  <2> QED BY <1>1, <2>2, AddSubFits
<1>5. CASE op = "SUB"
  <2>1. VaxArith(op, a, b, g, v) = AddSub(a, b, TRUE, g, w)
    BY <1>2, <1>5
  <2>2. PICK sub \in BOOLEAN : VaxArith(op, a, b, g, v) = AddSub(a, b, sub, g, w)
    BY <2>1
  <2> QED BY <1>1, <2>2, AddSubFits
<1>6. CASE op = "MUL"
  BY <1>1, <1>2, <1>6, VaxMulFits
<1>7. CASE op = "DIV"
  BY <1>1, <1>2, <1>7, DivFits
<1>8. CASE op = "SQRT"
  BY <1>1, <1>2, <1>8, SqrtFits
<1> QED BY <1>3, <1>4, <1>5, <1>6, <1>7, <1>8

----------------------------------------------------------------------------
(* Rounding depends on the leading bits only.                             *)

\* Cutting twice is cutting once.
LEMMA DivDiv ==
  ASSUME NEW x \in Nat, NEW a \in Nat, NEW b \in Nat, a >= 1, b >= 1
  PROVE  (x \div a) \div b = x \div (a * b)
<1> DEFINE p == x \div a
           q == p \div b
           r == x % a
           s == p % b
           d == a * b
<1>1. p \in Int /\ r \in Nat /\ r < a /\ x = a * p + r
  BY DivMod
<1> HIDE DEF p, r
<1>2. q \in Int /\ s \in Nat /\ s < b /\ p = b * q + s
  BY <1>1, DivMod
<1> HIDE DEF q, s
<1>3. a * p = d * q + a * s
  BY <1>1, <1>2
<1>4. d \in Nat /\ d >= 1
  OBVIOUS
<1>5. a * s \in Nat /\ a * s <= a * (b - 1) /\ a * (b - 1) = d - a
  BY <1>2
<1> HIDE DEF d
<1>6. d * q \in Int /\ d * (q + 1) = d * q + d /\ a * p \in Int
  BY <1>1, <1>2, <1>4
<1>7. d * q <= x /\ x < d * (q + 1)
  BY <1>1, <1>3, <1>4, <1>5, <1>6
<1>8. x \div d = q
  BY <1>2, <1>4, <1>7, DivUnique
<1> QED BY <1>8 DEF d, q, p

\* A factor common to dividend and divisor cancels.
LEMMA DivScale ==
  ASSUME NEW x \in Nat, NEW a \in Nat, NEW c \in Nat, a >= 1, c >= 1
  PROVE  (x * c) \div (a * c) = x \div a
<1> DEFINE q == x \div a
           r == x % a
           d == a * c
           y == x * c
<1>1. q \in Int /\ r \in Nat /\ r < a /\ x = a * q + r
  BY DivMod
<1> HIDE DEF q, r
<1>2. y = d * q + r * c
  BY <1>1
<1>3. d \in Nat /\ d >= 1 /\ y \in Int
  OBVIOUS
<1>4. r * c \in Nat /\ r * c <= (a - 1) * c /\ (a - 1) * c = d - c
  BY <1>1
<1> HIDE DEF d, y
<1>5. d * q \in Int /\ d * (q + 1) = d * q + d
  BY <1>1, <1>3
<1>6. d * q <= y /\ y < d * (q + 1)
  BY <1>2, <1>3, <1>4, <1>5
<1>7. y \div d = q
  BY <1>1, <1>3, <1>6, DivUnique
<1> QED BY <1>7 DEF d, q, y

\* A multiple of the divisor comes out of a quotient.
LEMMA DivPlus ==
  ASSUME NEW x \in Nat, NEW a \in Nat, a >= 1, NEW k \in Nat
  PROVE  (k * a + x) \div a = k + x \div a
<1> DEFINE q == x \div a
           r == x % a
           y == k * a + x
           m == k + q
<1>1. q \in Int /\ r \in Nat /\ r < a /\ x = a * q + r
  BY DivMod
<1> HIDE DEF q, r
<1>2. m \in Int /\ y \in Int /\ a * m = k * a + a * q
  BY <1>1
<1>3. a * m \in Int /\ a * (m + 1) = a * m + a /\ a * q \in Int /\ k * a \in Int
  BY <1>1, <1>2
<1> HIDE DEF m
<1>4. a * m <= y /\ y < a * (m + 1)
  BY <1>1, <1>2, <1>3
<1> HIDE DEF y
<1>5. y \div a = m
  BY <1>2, <1>4, DivUnique
<1> QED BY <1>5 DEF y, m, q

\* What is rounded depends on the half units only.
LEMMA HalfUnits ==
  ASSUME NEW x \in Nat, NEW V \in Nat, V >= 1, NEW chop \in BOOLEAN
  PROVE  Nearest(x, 2 * V, chop) = ((x \div V) + IF chop THEN 0 ELSE 1) \div 2
<1> DEFINE c == IF chop THEN 0 ELSE 1
           U == 2 * V
           j == x \div V
<1>1. c \in Nat /\ U \div 2 = V /\ j \in Nat
  <2>1. U \div 2 = V
    BY HalfOf
  <2>2. j \in Nat
    <3>1. 0 \in Nat /\ x + 1 \in Nat /\ V * 0 <= x
      OBVIOUS
    <3>2. x < V * (x + 1)
      <4>1. V * (x + 1) = V * x + V /\ V * x >= x /\ V * x \in Nat
        OBVIOUS
      <4> QED BY <4>1
    <3>3. x \div V \in 0 .. (x + 1) - 1
      BY <3>1, <3>2, QuotientIn
    <3> QED BY <3>3
  <2> QED BY <2>1, <2>2
<1>2. Nearest(x, U, chop) = (x + IF chop THEN 0 ELSE V) \div U
  BY <1>1 DEF Nearest
<1>3. (IF chop THEN 0 ELSE V) = c * V
  OBVIOUS
<1> DEFINE y == c * V + x
<1>4. y \in Nat /\ x + (IF chop THEN 0 ELSE V) = y
  BY <1>1, <1>3
<1> HIDE DEF c
<1>5. y \div V = c + j
  BY <1>1, DivPlus
<1> HIDE DEF y
<1>6. (y \div V) \div 2 = y \div (V * 2)
  BY <1>4, DivDiv
<1>7. V * 2 = U
  OBVIOUS
<1>8. Nearest(x, U, chop) = y \div U
  BY <1>2, <1>4
<1>9. Nearest(x, U, chop) = (c + j) \div 2
  BY <1>5, <1>6, <1>7, <1>8
<1>10. c + j = j + c
  BY <1>1
<1> QED BY <1>9, <1>10 DEF c, U, j

\* Two numbers with the same leading bits, one more than are kept: they round alike.
LeadAlike(x, q, h) ==
  /\ x \in NormBit .. 2 * NormBit - 1 /\ q \in Nat
  /\ h \in Nat /\ h >= FracBits + 1 /\ h <= MaxLog2 /\ 2^h <= q /\ q < 2^(h + 1)
  /\ x \div 2^(Guard - 1) = q \div 2^(h - 1 - FracBits)

\* Numbers with the same leading bits down to the half unit round alike.
LEMMA SameRounding ==
  ASSUME NEW x, NEW q, NEW h, LeadAlike(x, q, h), NEW fb \in 1 .. FracBits, NEW chop \in BOOLEAN
  PROVE  Nearest(x, 2^(FracWidth - 1 - fb), chop) = Nearest(q, 2^(h - fb), chop)
<1> DEFINE i == Guard - 1
           j == h - 1 - FracBits
           k == FracBits - fb
           I == 2^i
           J == 2^j
           K == 2^k
           V == I * K
           W == J * K
<1>1. /\ i \in Nat /\ j \in Nat /\ k \in Nat /\ FracWidth - 1 - fb = (i + k) + 1 /\ h - fb = (j + k) + 1
      /\ x \in Nat /\ q \in Nat /\ x \div I = q \div J
  BY Widths, KernelPowers DEF LeadAlike
<1> HIDE DEF i, j, k
<1>2. I \in Nat /\ I >= 1 /\ J \in Nat /\ J >= 1 /\ K \in Nat /\ K >= 1
  BY <1>1, PowPos
<1>3. 2^(FracWidth - 1 - fb) = 2 * V /\ 2^(h - fb) = 2 * W
  <2> DEFINE m == i + k
             n == j + k
  <2>1. m \in Nat /\ n \in Nat /\ 2^m = I * K /\ 2^n = J * K
    BY <1>1, PowAdd
  <2>2. FracWidth - 1 - fb = m + 1 /\ h - fb = n + 1
    BY <1>1
  <2> HIDE DEF m, n
  <2>3. 2^(m + 1) = 2 * 2^m /\ 2^(n + 1) = 2 * 2^n
    BY <2>1, TwoPowSucc
  <2> QED BY <2>1, <2>2, <2>3
<1> HIDE DEF I, J, K
<1>4. V \in Nat /\ V >= 1 /\ W \in Nat /\ W >= 1
  BY <1>2
<1>5. x \div V = q \div W
  <2>1. (x \div I) \div K = x \div (I * K)
    BY <1>1, <1>2, DivDiv
  <2>2. (q \div J) \div K = q \div (J * K)
    BY <1>1, <1>2, DivDiv
  <2> QED BY <1>1, <2>1, <2>2
<1> HIDE DEF V, W
<1>6. Nearest(x, 2 * V, chop) = ((x \div V) + IF chop THEN 0 ELSE 1) \div 2
  BY <1>1, <1>4, HalfUnits
<1>7. Nearest(q, 2 * W, chop) = ((q \div W) + IF chop THEN 0 ELSE 1) \div 2
  BY <1>1, <1>4, HalfUnits
<1> QED BY <1>3, <1>5, <1>6, <1>7

\* The result res has the expected bits, or reports that the format ends.
Right(res, expected) == IF expected = Absent THEN "OVF" \in res.exc ELSE res.bits = expected

\* Zero is the right result when the exact one is zero.
LEMMA ZeroRight ==
  ASSUME NEW res, res.bits = 0, NEW z, z.q = 0, NEW g, NEW chop
  PROVE  Right(res, RoundedVax(z, g, chop))
<1>1. RoundedVax(z, g, chop) = 0
  BY DEF RoundedVax
<1>2. 0 # Absent
  BY OperandAssumption
<1> QED BY <1>1, <1>2 DEF Right

\* A result whose leading bits are those of the exact one is rounded to what the
\* exact one is rounded to.
LEMMA RightlyRounded ==
  ASSUME NEW r, Normal(r), NEW g \in {F, G}, NEW v, v.chop \in BOOLEAN, NEW exc,
         NEW z, NEW h, LeadAlike(r.frac, z.q, h), z.e \in Int,
         r.exp = h + z.e + Bias + 1, z.s = r.sign
  PROVE  Right(Rpack(r, g, v, exc), RoundedVax(z, g, v.chop))
<1> DEFINE n == Nearest(r.frac, 2^(FracWidth - 1 - g.fracBits), v.chop)
           top == VaxExp(r.exp, n, g)
           res == Rpack(r, g, v, exc)
           expected == RoundedVax(z, g, v.chop)
<1>1. /\ g.fracBits \in 1 .. FracBits /\ g.expLo \in Int /\ g.expHi \in Int
      /\ g.expLo <= g.expHi /\ g.expLo >= 1 /\ g.expHi <= ExpMax
  BY GeomType
<1>2. r.sign \in {0, 1} /\ r.exp \in Int /\ r.frac \in NormBit .. 2 * NormBit - 1
  BY DEF Normal
<1>3. /\ n \in 2^g.fracBits .. 2^(g.fracBits + 1)
      /\ res.bits = VaxBits(r.sign, r.exp, n, g)
      /\ top > g.expHi => "OVF" \in res.exc
  BY <1>1, <1>2, RpackIs
<1>4. /\ z.q \in Nat /\ h \in 0 .. MaxLog2 /\ h \in Nat /\ 2^h <= z.q /\ z.q < 2^(h + 1) /\ z.q # 0
      /\ Log2(z.q) = h
  <2> DEFINE q == z.q
  <2>1. q \in Nat /\ h \in Nat /\ h <= MaxLog2 /\ 2^h <= q /\ q < 2^(h + 1)
    BY DEF LeadAlike
  <2>2. h \in 0 .. MaxLog2 /\ 2^h \in Nat /\ 2^h >= 1
    BY <2>1, MaxLog2Type, PowPos
  <2> HIDE DEF q
  <2>3. Log2(q) = h /\ q # 0
    BY <2>1, <2>2, Log2Is
  <2> QED BY <2>1, <2>2, <2>3 DEF q
<1>5. n = Nearest(z.q, 2^(h - g.fracBits), v.chop)
  BY <1>1, SameRounding
<1> DEFINE unit == 2^(Log2(z.q) - g.fracBits)
           n2 == (z.q + IF v.chop THEN 0 ELSE unit \div 2) \div unit
<1>6. n2 = n
  BY <1>4, <1>5 DEF Nearest
<1> DEFINE carry == n = 2^(g.fracBits + 1)
           exp2 == (Log2(z.q) + z.e + IF carry THEN 1 ELSE 0) + Bias + 1
           frac2 == IF carry THEN 0 ELSE n - 2^g.fracBits
<1>7. expected = CASE z.q = 0 \/ exp2 < g.expLo -> 0
                   [] z.q # 0 /\ exp2 > g.expHi -> Absent
                   [] OTHER -> Pack(z.s, exp2, frac2 * 2^(FracBits - g.fracBits))
  BY <1>6 DEF RoundedVax
<1>8. exp2 = top /\ frac2 = VaxFrac(n, g) /\ top \in Int
  <2>1. Bias \in Int
    BY ExpPowers
  <2> QED BY <1>2, <1>4, <2>1 DEF VaxExp, VaxFrac
<1> HIDE DEF n, top, res, expected, exp2, frac2
<1>9. CASE top < g.expLo
  <2>1. expected = 0 /\ res.bits = 0
    <3>1. expected = 0
      <4>1. ~(top > g.expHi)
        BY <1>1, <1>8, <1>9
      <4> QED BY <1>7, <1>8, <1>9, <4>1
    <3>2. VaxBits(r.sign, r.exp, n, g) = 0
      BY <1>9 DEF VaxBits, top
    <3> QED BY <1>3, <3>1, <3>2
  <2>2. 0 # Absent
    BY OperandAssumption
  <2> QED BY <2>1, <2>2 DEF Right, res, expected
<1>10. CASE ~(top < g.expLo) /\ top > g.expHi
  <2>1. expected = Absent
    BY <1>4, <1>7, <1>8, <1>10
  <2> QED BY <1>3, <1>10, <2>1 DEF Right, res, expected
<1>11. CASE ~(top < g.expLo) /\ ~(top > g.expHi)
  <2> DEFINE p == Pack(r.sign, top, VaxFrac(n, g) * 2^(FracBits - g.fracBits))
  <2>1. expected = p
    BY <1>4, <1>7, <1>8, <1>11
  <2>2. res.bits = p
    BY <1>3, <1>11 DEF VaxBits, top
  <2>3. res.bits \in Images
    <3>1. Fits(VaxBits(r.sign, r.exp, n, g), g)
      BY <1>2, <1>3, VaxBitsFit
    <3> QED BY <1>3, <3>1 DEF Fits
  <2>4. res.bits \in Int
    BY <2>3, RegPowers DEF Images
  <2> HIDE DEF p
  <2>5. expected # Absent
    BY <2>1, <2>2, <2>4, OperandAssumption
  <2> QED BY <2>1, <2>2, <2>5 DEF Right, res, expected
<1> QED BY <1>9, <1>10, <1>11

----------------------------------------------------------------------------
(* Products.                                                              *)

\* The value of an image as a VAX number.
LEMMA VaxValueIs ==
  ASSUME NEW r \in Images
  PROVE  /\ Exp(r) # 0 => VaxValue(r) = [sign |-> Sign(r), num |-> Hidden(r),
                                          e |-> Exp(r) - Bias - FracBits - 1]
         /\ Exp(r) = 0 => VaxValue(r) = [sign |-> Sign(r), num |-> 0, e |-> -Bias - FracBits]
<1>1. TBias = Bias - 1 /\ Bias \in Int /\ Bias - 1 \in Int /\ FracBits \in Int /\ Exp(r) \in Int
  BY ShortBias, Widths, UnpackIs
<1>2. VaxValue(r) = [sign |-> Sign(r),
                     num |-> IF Exp(r) = 0 THEN 0 ELSE Value(r).num, e |-> Value(r).e - 2]
  <2> DEFINE m == Value(r).num
             e == Value(r).e
             t == Sign(r)
  <2>1. Value(r) = [sign |-> t, num |-> m, e |-> e]
    BY DEF Value
  <2> HIDE DEF m, e, t
  <2>2. VaxValue(r) = [sign |-> t, num |-> IF Exp(r) = 0 THEN 0 ELSE m, e |-> e - 2]
    <3>1. VaxValue(r) = [[sign |-> t, num |-> m, e |-> e] EXCEPT
                           !.num = IF Exp(r) = 0 THEN 0 ELSE @, !.e = @ - 2]
      BY <2>1 DEF VaxValue
    <3>2. CASE Exp(r) = 0
      BY <3>1, <3>2
    <3>3. CASE Exp(r) # 0
      BY <3>1, <3>3
    <3> QED BY <3>2, <3>3
  <2> QED BY <2>2 DEF m, e, t
<1>3. Exp(r) # 0 => Value(r).num = Hidden(r) /\ Value(r).e = Exp(r) - TBias - FracBits
  BY DEF Value, Hidden
<1>4. Exp(r) = 0 => Value(r).e = 1 - TBias - FracBits
  BY DEF Value
<1>5. Exp(r) # 0 => Value(r).e - 2 = Exp(r) - Bias - FracBits - 1
  BY <1>1, <1>3
<1>6. Exp(r) = 0 => Value(r).e - 2 = -Bias - FracBits
  BY <1>1, <1>4
<1> QED BY <1>2, <1>3, <1>5, <1>6

\* What is normal stays as it is.
LEMMA NormNormal ==
  ASSUME NEW s \in {0, 1}, NEW e \in Int, NEW f \in NormBit .. 2 * NormBit - 1,
         NEW r, r = [sign |-> s, exp |-> e, frac |-> f]
  PROVE  Norm(r) = r /\ Normal(r)
<1>1. 0 \in 0 .. FracWidth - 1 /\ f \in Nat /\ f # 0 /\ 2^0 = 1
  BY KernelPowers
<1>2. r.frac = f /\ r.frac * 2^0 = f
  BY <1>1
<1>3. Norm(r) = [r EXCEPT !.exp = @ - 0, !.frac = @ * 2^0]
  <2>1. r.frac \in Nat /\ r.frac # 0 /\ r.frac * 2^0 \in NormBit .. 2 * NormBit - 1
    BY <1>1, <1>2
  <2> QED BY <1>1, <2>1, NormIs
<1>4. Norm(r) = [r EXCEPT !.exp = e, !.frac = f]
  <2>1. e - 0 = e /\ r.exp = e
    OBVIOUS
  <2> QED BY <1>2, <1>3, <2>1
<1> QED BY <1>4 DEF Normal

\* The leading bits of a product of fractions, cut from a word of 2 * V * L units
\* and from the exact product with 2 * T times as many.
Twice(u, v) == u = 2 * v

ProductLeads(L, V, T1, A, B, H, S1) ==
  /\ A * B \in Nat /\ A * B >= L * L /\ A * B < 4 * (L * L)
  /\ (((A * H) * (B * H)) \div (L * H)) \div V = (2 * (A * B)) \div L
  /\ (((A * H) * (B * H)) \div (2 * (L * H))) \div V = (A * B) \div L
  /\ ((A * B) * S1) \div (L * T1) = (2 * (A * B)) \div L
  /\ ((A * B) * S1) \div (L * S1) = (A * B) \div L

\* The product of two fractions, scaled and cut, has the leading bits of the exact one.
LEMMA ProductLead ==
  ASSUME NEW L \in Nat, NEW V \in Nat, NEW T1 \in Nat, L >= 1, V >= 1, T1 >= 1,
         NEW A \in L .. 2 * L - 1, NEW B \in L .. 2 * L - 1,
         NEW H, Twice(H, V), NEW S1, Twice(S1, T1)
  PROVE  ProductLeads(L, V, T1, A, B, H, S1)
<1> DEFINE P == A * B
<1>1. A \in Nat /\ B \in Nat /\ A >= L /\ B >= L /\ A <= 2 * L - 1 /\ B <= 2 * L - 1
      /\ H \in Nat /\ H >= 1 /\ S1 \in Nat /\ S1 >= 1
  BY DEF Twice
<1>2. P \in Nat /\ P >= L * L /\ P < 4 * (L * L)
  <2>1. P \in Nat /\ L * L \in Nat /\ A * L \in Nat /\ A * (2 * L) \in Nat
    BY <1>1
  <2>2. L * L <= A * L /\ A * L <= A * B
    BY <1>1
  <2>3. A * B <= A * (2 * L) /\ A * (2 * L) = (2 * L) * A
    BY <1>1
  <2>4. (2 * L) * A <= (2 * L) * (2 * L - 1) /\ (2 * L) * (2 * L - 1) = 4 * (L * L) - 2 * L
    BY <1>1
  <2> QED BY <2>1, <2>2, <2>3, <2>4
<1>3. (A * H) * (B * H) = (P * H) * H /\ (P * H) * H = P * (H * H)
  BY <1>1
<1> HIDE DEF P
<1> DEFINE R == P * H
           D == 2 * L
<1>4. R \in Nat /\ D \in Nat /\ D >= 1 /\ 2 * P \in Nat
  BY <1>1, <1>2
<1>5. R = (2 * P) * V /\ 2 * (L * H) = D * H
  BY <1>1, <1>2 DEF Twice
<1>6. (R * H) \div (L * H) = R \div L /\ (R * H) \div (D * H) = R \div D
  <2> HIDE DEF R, D
  <2> QED BY <1>1, <1>4, DivScale
<1>7. (R \div L) \div V = (2 * P) \div L
  <2>1. (R \div L) \div V = R \div (L * V)
    <3> HIDE DEF R
    <3> QED BY <1>4, DivDiv
  <2>2. ((2 * P) * V) \div (L * V) = (2 * P) \div L
    <3> DEFINE Q == 2 * P
    <3>1. Q \in Nat
      BY <1>4
    <3> HIDE DEF Q
    <3>2. (Q * V) \div (L * V) = Q \div L
      BY <3>1, DivScale
    <3> QED BY <3>2 DEF Q
  <2> HIDE DEF R
  <2> QED BY <1>5, <2>1, <2>2
<1>8. (R \div D) \div V = P \div L
  <2>1. (R \div D) \div V = R \div (D * V)
    <3> HIDE DEF R, D
    <3> QED BY <1>4, DivDiv
  <2>2. D * V = L * H
    BY DEF Twice
  <2>3. (P * H) \div (L * H) = P \div L
    BY <1>1, <1>2, DivScale
  <2> HIDE DEF D
  <2> QED BY <2>1, <2>2, <2>3
<1>9. (P * S1) \div (L * S1) = P \div L
  BY <1>1, <1>2, DivScale
<1>10. (P * S1) \div (L * T1) = (2 * P) \div L
  <2> DEFINE Q == 2 * P
  <2>1. Q \in Nat /\ P * S1 = Q * T1
    BY <1>2 DEF Twice
  <2> HIDE DEF Q
  <2>2. (Q * T1) \div (L * T1) = Q \div L
    BY <2>1, DivScale
  <2>3. (P * S1) \div (L * T1) = Q \div L
    BY <2>1, <2>2
  <2> QED BY <2>3 DEF Q
<1> HIDE DEF R, D
<1>11. (((A * H) * (B * H)) \div (L * H)) \div V = (2 * P) \div L
  BY <1>3, <1>6, <1>7 DEF R
<1>12. (((A * H) * (B * H)) \div (2 * (L * H))) \div V = P \div L
  BY <1>3, <1>5, <1>6, <1>8 DEF R
<1> QED BY <1>2, <1>3, <1>9, <1>10, <1>11, <1>12 DEF P, ProductLeads

\* The powers behind the guard bits and the spare bits.
LEMMA ScalePowers ==
  /\ 2^FracBits \in Nat /\ 2^FracBits >= 1
  /\ 2^(Guard - 1) \in Nat /\ 2^(Guard - 1) >= 1 /\ Twice(2^Guard, 2^(Guard - 1))
  /\ 2^(Spare - 1) \in Nat /\ 2^(Spare - 1) >= 1 /\ Twice(2^Spare, 2^(Spare - 1))
  /\ 2^Guard \in Nat /\ 2^Guard >= 1 /\ 2^Spare \in Nat /\ 2^Spare >= 1
  /\ Spare \in Nat /\ Spare >= 7 /\ Guard - 1 \in Nat /\ Spare - 1 \in Nat
<1>1. Guard - 1 \in Nat /\ Guard - 1 + 1 = Guard /\ Spare - 1 \in Nat /\ Spare - 1 + 1 = Spare
      /\ Guard \in Nat /\ Spare \in Nat /\ Spare >= 7 /\ FracBits \in Nat
  BY Widths DEF Spare
<1>2. Twice(2^Guard, 2^(Guard - 1)) /\ Twice(2^Spare, 2^(Spare - 1))
  BY <1>1, TwoPowSucc DEF Twice
<1> QED BY <1>1, <1>2, PowPos

\* n * 2^k * 2^Spare in powers: where the top bit of an exact result lies.
LEMMA TopOfScaled ==
  ASSUME NEW P \in Nat, NEW k \in Nat, NEW M, M = 2^k, M <= P, P < 2 * M
  PROVE  /\ 2^(k + Spare) <= P * 2^Spare /\ P * 2^Spare < 2^(k + Spare + 1)
         /\ P * 2^Spare \in Nat
<1> DEFINE S1 == 2^Spare
           m == k + Spare
<1>1. S1 \in Nat /\ S1 >= 1 /\ Spare \in Nat
  BY ScalePowers
<1>2. m \in Nat /\ 2^m = M * S1 /\ 2^(m + 1) = 2 * 2^m
  <2>1. m \in Nat /\ 2^m = M * S1
    BY <1>1, PowAdd
  <2> HIDE DEF m
  <2> QED BY <2>1, TwoPowSucc
<1>3. M \in Nat
  BY PowPos
<1> HIDE DEF S1, m
<1>4. M * S1 <= P * S1 /\ P * S1 <= (2 * M - 1) * S1 /\ (2 * M - 1) * S1 = 2 * (M * S1) - S1
  BY <1>1, <1>3
<1>5. P * S1 \in Nat /\ M * S1 \in Nat
  BY <1>1, <1>3
<1>6. 2^m <= P * S1 /\ P * S1 < 2^(m + 1)
  BY <1>1, <1>2, <1>4, <1>5
<1> QED BY <1>5, <1>6 DEF S1, m

\* What VaxMul leaves of a product has the leading bits of the exact one.
LEMMA MulLead ==
  ASSUME NEW A \in 2^FracBits .. 2 * 2^FracBits - 1, NEW B \in 2^FracBits .. 2 * 2^FracBits - 1,
         NEW f, f = ((A * 2^Guard) * (B * 2^Guard)) \div
                      (IF A * B >= 2 * (2^FracBits * 2^FracBits) THEN 2 * NormBit ELSE NormBit),
         NEW h, h = FracBits + FracBits + Spare +
                      IF A * B >= 2 * (2^FracBits * 2^FracBits) THEN 1 ELSE 0,
         f \in NormBit .. 2 * NormBit - 1
  PROVE  LeadAlike(f, A * B * 2^Spare, h)
<1> DEFINE L == 2^FracBits
           V == 2^(Guard - 1)
           T1 == 2^(Spare - 1)
           H == 2^Guard
           S1 == 2^Spare
           P == A * B
           large == P >= 2 * (L * L)
           q == P * S1
<1>1. /\ L \in Nat /\ L >= 1 /\ V \in Nat /\ V >= 1 /\ T1 \in Nat /\ T1 >= 1
      /\ Twice(H, V) /\ Twice(S1, T1) /\ S1 \in Nat
  BY ScalePowers
<1>2. NormBit = L * H
  BY KernelPowers
<1>3. A \in L .. 2 * L - 1 /\ B \in L .. 2 * L - 1
  OBVIOUS
<1>4. FracBits \in Nat /\ Spare \in Nat /\ Spare >= 7 /\ MaxLog2 \in Nat /\ 3 * FracBits + 11 <= MaxLog2
      /\ Spare = FracBits + 5
  BY Widths, ScalePowers, MaxLog2Type DEF Spare
<1>5. f = ((A * H) * (B * H)) \div (IF large THEN 2 * (L * H) ELSE L * H)
  BY <1>2
<1> DEFINE k == FracBits + FracBits
           k1 == FracBits + FracBits + 1
<1>6. k \in Nat /\ k1 \in Nat /\ 2^k = L * L /\ 2^k1 = 2 * (L * L) /\ h = (IF large THEN k1 ELSE k) + Spare
  <2>1. k \in Nat /\ 2^k = L * L /\ k + 1 = k1
    BY <1>4, PowAdd
  <2> HIDE DEF k
  <2>2. 2^(k + 1) = 2 * 2^k
    BY <2>1, TwoPowSucc
  <2>3. h = (IF large THEN k1 ELSE k) + Spare
    BY <1>4 DEF k
  <2> HIDE DEF k1
  <2> QED BY <2>1, <2>2, <2>3, <1>4 DEF k1
<1>7. h - 1 - FracBits = (IF large THEN FracBits + Spare ELSE FracBits + (Spare - 1)) /\ h \in Nat
      /\ h >= FracBits + 1 /\ h <= MaxLog2
  BY <1>4
<1>8. 2^(FracBits + Spare) = L * S1 /\ 2^(FracBits + (Spare - 1)) = L * T1
  BY <1>4, ScalePowers, PowAdd
<1> HIDE DEF L, V, T1, H, S1
<1>9. /\ P \in Nat /\ P >= L * L /\ P < 4 * (L * L)
      /\ (((A * H) * (B * H)) \div (L * H)) \div V = (2 * P) \div L
      /\ (((A * H) * (B * H)) \div (2 * (L * H))) \div V = P \div L
      /\ q \div (L * T1) = (2 * P) \div L
      /\ q \div (L * S1) = P \div L
  <2>1. ProductLeads(L, V, T1, A, B, H, S1)
    BY <1>1, <1>3, ProductLead
  <2> QED BY <2>1 DEF ProductLeads
<1>10. L * L \in Nat
  BY <1>1
<1> HIDE DEF P, k, k1
<1>11. CASE large
  <2>1. f \div V = q \div 2^(h - 1 - FracBits)
    BY <1>5, <1>7, <1>8, <1>9, <1>11
  <2>2. 2^h <= q /\ q < 2^(h + 1) /\ q \in Nat
    <3> DEFINE M == 2 * (L * L)
    <3>1. M = 2^k1 /\ M <= P /\ P < 2 * M
      BY <1>6, <1>9, <1>10, <1>11
    <3> HIDE DEF M
    <3>2. 2^(k1 + Spare) <= P * 2^Spare /\ P * 2^Spare < 2^(k1 + Spare + 1) /\ P * 2^Spare \in Nat
      BY <1>6, <1>9, <3>1, TopOfScaled
    <3>3. h = k1 + Spare
      BY <1>6, <1>11
    <3> QED BY <3>2, <3>3 DEF S1
  <2> QED BY <1>7, <2>1, <2>2 DEF LeadAlike, V, S1, P
<1>12. CASE ~large
  <2>1. f \div V = q \div 2^(h - 1 - FracBits)
    BY <1>5, <1>7, <1>8, <1>9, <1>12
  <2>2. 2^h <= q /\ q < 2^(h + 1) /\ q \in Nat
    <3> DEFINE M == L * L
    <3>1. M = 2^k /\ M <= P /\ P < 2 * M
      BY <1>6, <1>9, <1>10, <1>12
    <3> HIDE DEF M
    <3>2. 2^(k + Spare) <= P * 2^Spare /\ P * 2^Spare < 2^(k + Spare + 1) /\ P * 2^Spare \in Nat
      BY <1>6, <1>9, <3>1, TopOfScaled
    <3>3. h = k + Spare
      BY <1>6, <1>12
    <3> QED BY <3>2, <3>3 DEF S1
  <2> QED BY <1>7, <2>1, <2>2 DEF LeadAlike, V, S1, P
<1> QED BY <1>11, <1>12

\* A product is the exact one rounded once.
THEOREM MulRight ==
  ASSUME NEW x \in Images, NEW y \in Images, NEW g \in {F, G}, NEW v, v.chop \in BOOLEAN
  PROVE  Right(VaxMul(x, y, g, v), RoundedVax(Exactly("MUL", x, y), g, v.chop))
<1> DEFINE z == Exactly("MUL", x, y)
           exc == Invalid({x, y})
<1>1. z = [s |-> Signs(x, y), q |-> VaxValue(x).num * VaxValue(y).num * 2^Spare,
           e |-> VaxValue(x).e + VaxValue(y).e - Spare]
  BY DEF Exactly
<1>2. /\ Exp(x) \in Nat /\ Exp(y) \in Nat /\ Sign(x) \in {0, 1} /\ Sign(y) \in {0, 1}
      /\ Hidden(x) \in 2^FracBits .. 2 * 2^FracBits - 1 /\ Hidden(y) \in 2^FracBits .. 2 * 2^FracBits - 1
      /\ Hidden(x) \in Nat /\ Hidden(y) \in Nat
  BY UnpackIs
<1>3. CASE Exp(x) = 0 \/ Exp(y) = 0
  <2>1. Unpack(x).exp = Exp(x) /\ Unpack(y).exp = Exp(y)
    BY UnpackIs
  <2>2. VaxMul(x, y, g, v) = [bits |-> 0, exc |-> exc]
    BY <1>3, <2>1 DEF VaxMul
  <2>3. z.q = 0
    <3> DEFINE i == VaxValue(x).num
               j == VaxValue(y).num
    <3>1. i \in Nat /\ j \in Nat /\ (i = 0 \/ j = 0)
      BY <1>2, <1>3, VaxValueIs
    <3>2. z.q = i * j * 2^Spare
      BY <1>1
    <3> HIDE DEF i, j
    <3>3. i * j = 0
      BY <3>1
    <3> QED BY <3>2, <3>3, ScalePowers
  <2> HIDE DEF z, exc
  <2>4. VaxMul(x, y, g, v).bits = 0
    BY <2>2
  <2>5. Right(VaxMul(x, y, g, v), RoundedVax(z, g, v.chop))
    BY <2>3, <2>4, ZeroRight
  <2> QED BY <2>5 DEF z
<1>4. CASE Exp(x) # 0 /\ Exp(y) # 0
  <2> DEFINE A == Hidden(x)
             B == Hidden(y)
             L == 2^FracBits
             H == 2^Guard
             large == A * B >= 2 * (L * L)
             top == Exp(x) + Exp(y) - Bias - 1
             s == Signs(x, y)
             e == IF large THEN top + 1 ELSE top
             f == ((A * H) * (B * H)) \div (IF large THEN 2 * NormBit ELSE NormBit)
             r == [sign |-> s, exp |-> e, frac |-> f]
             h == FracBits + FracBits + Spare + IF large THEN 1 ELSE 0
  <2>1. /\ Unpack(x) = [sign |-> Sign(x), exp |-> Exp(x), frac |-> A * H]
        /\ Unpack(y) = [sign |-> Sign(y), exp |-> Exp(y), frac |-> B * H]
    BY <1>4, UnpackIs
  <2>2. L \in Nat /\ H \in Nat /\ H >= 1 /\ A \in Nat /\ B \in Nat /\ NormBit = L * H
        /\ A \in L .. 2 * L - 1 /\ B \in L .. 2 * L - 1 /\ L >= 1
    BY <1>2, ScalePowers, KernelPowers
  <2>3. (A * H) * (B * H) >= 2 * (NormBit * NormBit) <=> large
    <3> DEFINE P == A * B
               M == L * L
               W == H * H
    <3> HIDE DEF A, B, L, H
    <3>1. (A * H) * (B * H) = P * W /\ NormBit * NormBit = M * W
      BY <2>2
    <3>2. P \in Nat /\ M \in Nat /\ W \in Nat /\ W >= 1
      BY <2>2
    <3> HIDE DEF P, M, W
    <3>3. P * W >= 2 * (M * W) <=> P >= 2 * M
      <4>1. ASSUME P >= 2 * M PROVE P * W >= 2 * (M * W)
        <5>1. P * W >= (2 * M) * W /\ (2 * M) * W = 2 * (M * W)
          BY <3>2, <4>1
        <5> QED BY <5>1
      <4>2. ASSUME P <= 2 * M - 1 PROVE P * W < 2 * (M * W)
        <5>1. P * W <= (2 * M - 1) * W /\ (2 * M - 1) * W = 2 * (M * W) - W
          BY <3>2, <4>2
        <5>2. P * W \in Nat /\ M * W \in Nat
          BY <3>2
        <5> QED BY <3>2, <5>1, <5>2
      <4>3. P * W \in Nat /\ M * W \in Nat
        BY <3>2
      <4> QED BY <3>2, <4>1, <4>2, <4>3
    <3> QED BY <3>1, <3>3 DEF P, M
  <2>4. VaxMul(x, y, g, v) = Rpack(Norm(r), g, v, exc)
    <3> DEFINE big == (A * H) * (B * H) >= 2^(2 * FracWidth - 1)
    <3>1. big <=> large
      BY <2>3, DoublePowers
    <3>2. 2^(IF big THEN FracWidth ELSE FracWidth - 1) = IF large THEN 2 * NormBit ELSE NormBit
      BY <3>1, DoublePowers, KernelPowers
    <3> HIDE DEF A, B, L, H, large
    <3>3. VaxMul(x, y, g, v) =
            Rpack(Norm([sign |-> (Sign(x) + Sign(y)) % 2, exp |-> IF big THEN top + 1 ELSE top,
                        frac |-> ((A * H) * (B * H)) \div 2^(IF big THEN FracWidth ELSE FracWidth - 1)]),
                  g, v, exc)
      BY <1>4, <2>1 DEF VaxMul
    <3> QED BY <3>1, <3>2, <3>3 DEF Signs
  <2>5. f \in NormBit .. 2 * NormBit - 1
    <3> DEFINE N == NormBit
               a == A * H
               b == B * H
    <3>1. N \in Nat /\ N >= 1 /\ a \in N .. 2 * N - 1 /\ b \in N .. 2 * N - 1
      BY UnpackIs, KernelPowers
    <3>2. large <=> a * b >= 2 * (N * N)
      BY <2>3
    <3>3. f = (a * b) \div (IF large THEN 2 * N ELSE N)
      OBVIOUS
    <3> HIDE DEF N, a, b, large, f
    <3>4. /\ a * b \in Nat
          /\ a * b >= 2 * (N * N) => (a * b) \div (2 * N) \in N .. 2 * N - 1
          /\ a * b < 2 * (N * N) => (a * b) \div N \in N .. 2 * N - 1
      BY <3>1, ProductNormal
    <3>5. a * b >= 2 * (N * N) \/ a * b < 2 * (N * N)
      BY <3>1, <3>4
    <3>6. f \in N .. 2 * N - 1
      BY <3>2, <3>3, <3>4, <3>5
    <3> QED BY <3>6 DEF N
  <2>6. LeadAlike(f, A * B * 2^Spare, h)
    <3> HIDE DEF A, B
    <3> QED BY <2>2, <2>5, MulLead
  <2>7. s \in {0, 1} /\ e \in Int
    BY <1>2, SignsType, ExpPowers
  <2>8. z.q = A * B * 2^Spare /\ z.s = s
        /\ z.e = (Exp(x) - Bias - FracBits - 1) + (Exp(y) - Bias - FracBits - 1) - Spare
    BY <1>1, <1>4, VaxValueIs
  <2>9. e = h + z.e + Bias + 1 /\ z.e \in Int
    <3>1. FracBits \in Int /\ Bias \in Int /\ Spare \in Int /\ Exp(x) \in Int /\ Exp(y) \in Int
      BY <1>2, Widths, ExpPowers, ScalePowers
    <3> HIDE DEF large, z
    <3> QED BY <2>8, <3>1
  <2> HIDE DEF z, exc, h, e, f, s
  <2>10. Norm(r) = r /\ Normal(r)
    BY <2>5, <2>7, NormNormal
  <2>11. r.frac = f /\ r.exp = e /\ r.sign = s
    OBVIOUS
  <2> HIDE DEF r
  <2>12. LeadAlike(r.frac, z.q, h) /\ r.exp = h + z.e + Bias + 1 /\ z.s = r.sign
    BY <2>6, <2>8, <2>9, <2>11
  <2>13. Right(Rpack(r, g, v, exc), RoundedVax(z, g, v.chop))
    BY <2>9, <2>10, <2>12, RightlyRounded
  <2> QED BY <2>4, <2>10, <2>13 DEF z
<1> QED BY <1>3, <1>4

----------------------------------------------------------------------------
(* Quotients.                                                             *)

\* The leading bits of a quotient: those the dividend was scaled by are cut off.
LEMMA CutQuotient ==
  ASSUME NEW A \in Nat, NEW B \in Nat, NEW J \in Nat, NEW M \in Nat, B >= 1, J >= 1
  PROVE  ((A * (J * M)) \div B) \div J = (M * A) \div B
<1> DEFINE x == A * (J * M)
           y == M * A
<1>1. x \in Nat /\ y \in Nat /\ x = y * J
  OBVIOUS
<1> HIDE DEF x, y
<1>2. (x \div B) \div J = x \div (B * J)
  BY <1>1, DivDiv
<1>3. (y * J) \div (B * J) = y \div B
  BY <1>1, DivScale
<1>4. (x \div B) \div J = y \div B
  BY <1>1, <1>2, <1>3
<1> QED BY <1>4 DEF x, y

\* The same for the quotient the kernel takes, and its range.
LEMMA KernelQuotient ==
  ASSUME NEW A \in Nat, NEW B \in Nat, NEW L \in Nat, NEW V \in Nat, L >= 1, V >= 1,
         A >= L, A <= 2 * L - 1, B >= L, B <= 2 * L - 1, NEW Q, Q = ((A * V) * (4 * L)) \div (B * V)
  PROVE  /\ Q = (4 * L * A) \div B /\ Q \in Nat
         /\ A >= B => Q \in 4 * L .. 8 * L - 1
         /\ A < B => Q \in 2 * L .. 4 * L - 1
         /\ Q \div 2 = (2 * L * A) \div B
<1> DEFINE x == 4 * L * A
           y == 2 * L * A
<1>1. x \in Nat /\ y \in Nat /\ x = 2 * y /\ B >= 1 /\ (A * V) * (4 * L) = x * V
  OBVIOUS
<1>2. y * 2 = x
  BY <1>1
<1>3. /\ A >= B => B * (4 * L) <= x
      /\ A < B => x < B * (4 * L)
      /\ x < B * (8 * L) /\ B * (2 * L) <= x
  <2>1. x = A * (4 * L)
    OBVIOUS
  <2>2. A >= B => A * (4 * L) >= B * (4 * L)
    OBVIOUS
  <2>3. A < B => A * (4 * L) < B * (4 * L)
    OBVIOUS
  <2>4. A * (4 * L) < (2 * B) * (4 * L) /\ (2 * B) * (4 * L) = B * (8 * L)
    OBVIOUS
  <2>5. (2 * A) * (2 * L) >= B * (2 * L) /\ (2 * A) * (2 * L) = A * (4 * L)
    OBVIOUS
  <2> HIDE DEF x
  <2>6. A * (4 * L) \in Nat /\ B * (4 * L) \in Nat /\ B * (8 * L) \in Nat /\ B * (2 * L) \in Nat
    OBVIOUS
  <2> QED BY <2>1, <2>2, <2>3, <2>4, <2>5, <2>6
<1> HIDE DEF x, y
<1>4. (x * V) \div (B * V) = x \div B
  BY <1>1, DivScale
<1>5. Q = x \div B
  BY <1>1, <1>4
<1>6. Q \in Nat /\ (A >= B => Q \in 4 * L .. 8 * L - 1) /\ (A < B => Q \in 2 * L .. 4 * L - 1)
  <2> DEFINE l == 2 * L
             m == 4 * L
             n == 8 * L
  <2>1. l \in Nat /\ m \in Nat /\ n \in Nat /\ (A >= B => B * m <= x) /\ (A < B => x < B * m)
        /\ x < B * n /\ B * l <= x
    BY <1>3
  <2> HIDE DEF l, m, n
  <2>2. x \div B \in l .. n - 1
    BY <1>1, <2>1, QuotientIn
  <2>3. A >= B => x \div B \in m .. n - 1
    BY <1>1, <2>1, QuotientIn
  <2>4. A < B => x \div B \in l .. m - 1
    BY <1>1, <2>1, QuotientIn
  <2> QED BY <1>5, <2>1, <2>2, <2>3, <2>4 DEF l, m, n
<1>7. Q \div 2 = y \div B
  <2> DEFINE two == 2
  <2>1. two \in Nat /\ two >= 1 /\ y * two = x
    BY <1>2
  <2> HIDE DEF two
  <2>2. (x \div B) \div two = x \div (B * two)
    BY <1>1, <2>1, DivDiv
  <2>3. (y * two) \div (B * two) = y \div B
    BY <1>1, <2>1, DivScale
  <2>4. Q \div two = y \div B
    BY <1>5, <2>1, <2>2, <2>3
  <2> QED BY <2>4 DEF two
<1> QED BY <1>5, <1>6, <1>7 DEF x, y

\* The powers behind the bits UfDiv produces and those of the exact quotient.
LEMMA DivPowers ==
  LET L == 2^FracBits  V == 2^(Guard - 1)  K == 2^(Guard - 2)  X == 2^(2 * Spare) IN
  /\ L \in Nat /\ L >= 1 /\ V \in Nat /\ V >= 1 /\ K \in Nat /\ K >= 1 /\ Twice(V, K)
  /\ Twice(2^Guard, V) /\ NormBit = 4 * L * K /\ 2^(FracBits + 2) = 4 * L
  /\ X \in Nat /\ X >= 1 /\ X = 2^(2 * Spare - 1 - FracBits) * (2 * L)
  /\ X = 2^(2 * Spare - 2 - FracBits) * (4 * L)
  /\ 2^(2 * Spare - 1 - FracBits) \in Nat /\ 2^(2 * Spare - 1 - FracBits) >= 1
  /\ 2^(2 * Spare - 2 - FracBits) \in Nat /\ 2^(2 * Spare - 2 - FracBits) >= 1
  /\ X = 2 * 2^(2 * Spare - 1) /\ 2^(2 * Spare - 1) \in Nat /\ 2^(2 * Spare + 1) = 2 * X
<1> DEFINE L == 2^FracBits
           V == 2^(Guard - 1)
           K == 2^(Guard - 2)
           X == 2^(2 * Spare)
           i == 2 * Spare - 1 - FracBits
           j == 2 * Spare - 2 - FracBits
           k == 2 * Spare - 1
           I == 2^i
           J == 2^j
           Y == 2^k
           m == 2 * Spare
           fb1 == FracBits + 1
           fb2 == FracBits + 2
<1>1. /\ FracBits \in Nat /\ Guard - 2 \in Nat /\ Guard - 1 \in Nat /\ Guard - 2 + 1 = Guard - 1
      /\ i \in Nat /\ j \in Nat /\ k \in Nat /\ m \in Nat /\ j + 1 = i /\ k + 1 = m
      /\ i + fb1 = m /\ fb1 \in Nat /\ fb1 = FracBits + 1 /\ fb2 = fb1 + 1 /\ m + 1 = 2 * Spare + 1
  BY Widths DEF Spare
<1>2. L \in Nat /\ L >= 1 /\ V \in Nat /\ V >= 1 /\ Twice(2^Guard, V) /\ 2^Guard \in Nat
  BY ScalePowers
<1>3. K \in Nat /\ K >= 1 /\ V = 2 * K
  BY <1>1, PowPos, TwoPowSucc
<1> HIDE DEF i, j, k, m, fb1, fb2
<1>4. I \in Nat /\ I >= 1 /\ J \in Nat /\ J >= 1 /\ Y \in Nat /\ X \in Nat /\ X >= 1
      /\ I = 2 * J /\ X = 2 * Y /\ 2^(m + 1) = 2 * X
  BY <1>1, PowPos, TwoPowSucc DEF m
<1>5. 2^fb1 = 2 * L /\ 2^fb2 = 2 * 2^fb1 /\ X = I * 2^fb1
  <2>1. 2^(FracBits + 1) = 2 * 2^FracBits
    BY <1>1, TwoPowSucc
  <2>2. 2^(fb1 + 1) = 2 * 2^fb1
    BY <1>1, TwoPowSucc
  <2>3. 2^(i + fb1) = 2^i * 2^fb1
    BY <1>1, PowAdd
  <2> QED BY <1>1, <2>1, <2>2, <2>3 DEF m
<1>6. 2^(FracBits + 2) = 4 * L
  <2>1. 2^fb2 = 4 * L
    BY <1>2, <1>5
  <2> QED BY <2>1 DEF fb2
<1>7. X = I * (2 * L) /\ X = J * (4 * L)
  <2> HIDE DEF L, I, J, X
  <2>1. X = I * (2 * L)
    BY <1>5
  <2>2. I * (2 * L) = J * (4 * L)
    BY <1>2, <1>4
  <2> QED BY <2>1, <2>2
<1>8. NormBit = 4 * L * K
  <2>1. NormBit = L * 2^Guard
    BY KernelPowers
  <2> DEFINE H == 2^Guard
  <2>2. H = 2 * V
    BY <1>2 DEF Twice
  <2> HIDE DEF H, L, V, K
  <2>3. L * H = 4 * L * K
    BY <1>2, <1>3, <2>2
  <2> QED BY <2>1, <2>3 DEF H
<1>9. 2^(2 * Spare + 1) = 2 * X
  BY <1>1, <1>4
<1> QED BY <1>2, <1>3, <1>4, <1>6, <1>7, <1>8, <1>9 DEF Twice, i, j, k

\* The leading bits of a quotient, shifted up by one when the dividend is the
\* smaller fraction.
DivFrac(A, B) == UfDiv((A * 2^Guard) \div 2, (B * 2^Guard) \div 2, FracBits + 3)

\* What Div leaves of a quotient has the leading bits of the exact one.
LEMMA DivLead ==
  ASSUME NEW A \in 2^FracBits .. 2 * 2^FracBits - 1, NEW B \in 2^FracBits .. 2 * 2^FracBits - 1
  PROVE  /\ DivFrac(A, B) \in Nat /\ DivFrac(A, B) # 0
         /\ A >= B => LeadAlike(DivFrac(A, B), (A * 2^(2 * Spare)) \div B, 2 * Spare)
         /\ A < B => LeadAlike(DivFrac(A, B) * 2, (A * 2^(2 * Spare)) \div B, 2 * Spare - 1)
<1> DEFINE L == 2^FracBits
           V == 2^(Guard - 1)
           K == 2^(Guard - 2)
           H == 2^Guard
           X == 2^(2 * Spare)
           I == 2^(2 * Spare - 1 - FracBits)
           J == 2^(2 * Spare - 2 - FracBits)
           Y == 2^(2 * Spare - 1)
           Q == ((A * V) * (4 * L)) \div (B * V)
           q == (A * X) \div B
           f == DivFrac(A, B)
<1>1. /\ L \in Nat /\ L >= 1 /\ V \in Nat /\ V >= 1 /\ K \in Nat /\ K >= 1 /\ Twice(V, K)
      /\ Twice(H, V) /\ NormBit = 4 * L * K /\ 2^(FracBits + 2) = 4 * L
      /\ X \in Nat /\ X >= 1 /\ X = I * (2 * L) /\ X = J * (4 * L)
      /\ I \in Nat /\ I >= 1 /\ J \in Nat /\ J >= 1
      /\ X = 2 * Y /\ Y \in Nat /\ 2^(2 * Spare + 1) = 2 * X
  BY DivPowers
<1>2. A \in L .. 2 * L - 1 /\ B \in L .. 2 * L - 1
  OBVIOUS
<1>3. f = Q * K
  <2> DEFINE p == FracBits + 3
             a == A * V
             b == B * V
  <2>1. p - 1 = FracBits + 2 /\ FracWidth - p = Guard - 2
    BY Widths DEF FracWidth
  <2>2. (A * H) \div 2 = a /\ (B * H) \div 2 = b
    <3> HIDE DEF L, V, H
    <3>1. a \in Nat /\ b \in Nat /\ A * H = 2 * a /\ B * H = 2 * b
      BY <1>1, <1>2 DEF Twice
    <3> HIDE DEF a, b
    <3> QED BY <3>1, HalfOf
  <2>3. f = UfDiv(a, b, p)
    BY <2>2 DEF DivFrac
  <2> HIDE DEF a, b, p, f
  <2>4. UfDiv(a, b, p) = ((a * 2^(p - 1)) \div b) * 2^(FracWidth - p)
    BY DEF UfDiv
  <2> QED BY <1>1, <2>1, <2>3, <2>4 DEF a, b
<1> HIDE DEF L, V, K, H, X, I, J, Y, f, Q
<1>4. A \in Nat /\ B \in Nat /\ A >= L /\ A <= 2 * L - 1 /\ B >= L /\ B <= 2 * L - 1 /\ B >= 1
  BY <1>1, <1>2
<1>5. /\ Q = (4 * L * A) \div B /\ Q \in Nat
      /\ A >= B => Q \in 4 * L .. 8 * L - 1
      /\ A < B => Q \in 2 * L .. 4 * L - 1
      /\ Q \div 2 = (2 * L * A) \div B
  BY <1>1, <1>4, KernelQuotient DEF Q
<1>6. Spare \in Nat /\ Spare >= 7 /\ Spare = FracBits + 5 /\ FracBits \in Nat /\ FracBits >= 2
      /\ MaxLog2 \in Nat /\ 3 * FracBits + 11 <= MaxLog2
  BY Widths, ScalePowers, MaxLog2Type DEF Spare
<1>7. NormBit \in Nat
  BY KernelPowers
<1>8. q \in Nat /\ (A >= B => q \in X .. 2 * X - 1) /\ (A < B => q \in Y .. 2 * Y - 1)
  <2> DEFINE x == A * X
             X2 == 2 * X
             Y2 == 2 * Y
  <2>1. x \in Nat /\ X2 \in Nat /\ Y2 \in Nat /\ X = Y2
    BY <1>1, <1>4
  <2>2. A >= B => B * X <= x
    BY <1>1, <1>4
  <2>3. x < B * X2
    <3>1. A * X <= (2 * B - 1) * X /\ (2 * B - 1) * X = B * (2 * X) - X /\ B * (2 * X) \in Nat
      BY <1>1, <1>4
    <3> QED BY <1>1, <2>1, <3>1
  <2>4. A < B => x < B * X
    BY <1>1, <1>4
  <2>5. B * Y <= x
    <3>1. B * Y <= (2 * A) * Y /\ (2 * A) * Y = A * (2 * Y) /\ B * Y \in Nat
      BY <1>1, <1>4
    <3> QED BY <1>1, <2>1, <3>1
  <2> HIDE DEF x, X2, Y2
  <2>6. A >= B => x \div B \in X .. X2 - 1
    BY <1>1, <1>4, <2>1, <2>2, <2>3, QuotientIn
  <2>7. A < B => x \div B \in Y .. Y2 - 1
    <3>1. A < B => x < B * Y2
      BY <2>1, <2>4
    <3> QED BY <1>1, <1>4, <2>1, <2>5, <3>1, QuotientIn
  <2>8. q = x \div B
    BY DEF x
  <2>9. A >= B \/ A < B
    BY <1>4
  <2> HIDE DEF q
  <2> QED BY <1>1, <2>1, <2>6, <2>7, <2>8, <2>9 DEF X2, Y2
<1>9. f \in Nat /\ f # 0
  <2>1. Q >= 1
    BY <1>1, <1>4, <1>5
  <2> QED BY <1>1, <1>3, <1>5, <2>1
<1> HIDE DEF q
<1>10. ASSUME A >= B PROVE LeadAlike(f, q, 2 * Spare)
  <2>1. f \in NormBit .. 2 * NormBit - 1
    <3>1. Q >= 4 * L /\ Q <= 8 * L - 1
      BY <1>1, <1>5, <1>10
    <3>2. Q * K >= 4 * L * K /\ Q * K <= (8 * L - 1) * K /\ (8 * L - 1) * K = 2 * (4 * L * K) - K
      BY <1>1, <1>5, <3>1
    <3> QED BY <1>1, <1>3, <1>7, <1>9, <3>2
  <2>2. f \div V = Q \div 2
    <3> DEFINE two == 2
    <3>1. two \in Nat /\ two >= 1 /\ V = two * K
      BY <1>1 DEF Twice
    <3> HIDE DEF two
    <3>2. Q \in Nat /\ two \in Nat /\ K \in Nat /\ two >= 1 /\ K >= 1
      BY <1>1, <1>5, <3>1
    <3>3. (Q * K) \div (two * K) = Q \div two
      BY <3>2, DivScale
    <3> QED BY <1>3, <3>1, <3>3 DEF two
  <2>3. q \div I = (2 * L * A) \div B
    <3> DEFINE M == 2 * L
    <3>1. M \in Nat /\ q = (A * (I * M)) \div B /\ 2 * L * A = M * A
      BY <1>1 DEF q
    <3> HIDE DEF M
    <3>2. ((A * (I * M)) \div B) \div I = (M * A) \div B
      BY <1>1, <1>4, <3>1, CutQuotient
    <3> QED BY <3>1, <3>2
  <2>4. f \div V = q \div I
    BY <1>5, <2>2, <2>3
  <2>5. 2^(2 * Spare) <= q /\ q < 2^(2 * Spare + 1)
    BY <1>1, <1>8, <1>10 DEF X
  <2>6. 2 * Spare \in Nat /\ 2 * Spare >= FracBits + 1 /\ 2 * Spare <= MaxLog2
    BY <1>6
  <2> QED BY <1>8, <2>1, <2>4, <2>5, <2>6 DEF LeadAlike, V, I
<1>11. ASSUME A < B PROVE LeadAlike(f * 2, q, 2 * Spare - 1)
  <2>1. f * 2 \in NormBit .. 2 * NormBit - 1
    <3>1. Q >= 2 * L /\ Q <= 4 * L - 1
      BY <1>1, <1>5, <1>11
    <3>2. Q * K >= 2 * L * K /\ Q * K <= (4 * L - 1) * K /\ (4 * L - 1) * K = 4 * L * K - K
          /\ 4 * L * K = 2 * (2 * L * K)
      BY <1>1, <1>5, <3>1
    <3> QED BY <1>1, <1>3, <1>7, <1>9, <3>2
  <2>2. (f * 2) \div V = Q
    <3>1. f * 2 = Q * V
      BY <1>1, <1>3, <1>5 DEF Twice
    <3> DEFINE one == 1
    <3>2. one \in Nat /\ one >= 1 /\ one * V = V /\ Q \div one = Q
      BY <1>1, <1>5
    <3> HIDE DEF one
    <3>3. (Q * V) \div (one * V) = Q \div one
      BY <1>1, <1>5, <3>2, DivScale
    <3> QED BY <3>1, <3>2, <3>3
  <2>3. q \div J = (4 * L * A) \div B
    <3> DEFINE M == 4 * L
    <3>1. M \in Nat /\ q = (A * (J * M)) \div B /\ 4 * L * A = M * A
      BY <1>1 DEF q
    <3> HIDE DEF M
    <3>2. ((A * (J * M)) \div B) \div J = (M * A) \div B
      BY <1>1, <1>4, <3>1, CutQuotient
    <3> QED BY <3>1, <3>2
  <2>4. (f * 2) \div V = q \div J
    BY <1>5, <2>2, <2>3
  <2> DEFINE h == 2 * Spare - 1
  <2>5. h \in Nat /\ h >= FracBits + 1 /\ h <= MaxLog2 /\ h - 1 - FracBits = 2 * Spare - 2 - FracBits
        /\ h + 1 = 2 * Spare
    BY <1>6
  <2>6. 2^h <= q /\ q < 2^(h + 1)
    <3>1. Y <= q /\ q < X
      BY <1>1, <1>8, <1>11
    <3> QED BY <2>5, <3>1 DEF X, Y
  <2> HIDE DEF h
  <2>7. (f * 2) \div 2^(Guard - 1) = q \div 2^(h - 1 - FracBits)
    BY <2>4, <2>5 DEF V, J
  <2>8. LeadAlike(f * 2, q, h)
    BY <1>8, <2>1, <2>5, <2>6, <2>7 DEF LeadAlike
  <2> QED BY <2>8 DEF h
<1> QED BY <1>9, <1>10, <1>11 DEF f, q, X

\* A quotient is the exact one, cut off far below and rounded once.
THEOREM DivRight ==
  ASSUME NEW x \in Images, NEW y \in Images, Exp(y) # 0,
         NEW g \in {F, G}, NEW v, v.chop \in BOOLEAN
  PROVE  Right(Div(x, y, g, v), RoundedVax(Exactly("DIV", x, y), g, v.chop))
<1> DEFINE z == Exactly("DIV", x, y)
           exc == Invalid({x, y})
<1>1. z = [s |-> Signs(x, y), q |-> (VaxValue(x).num * 2^(2 * Spare)) \div VaxValue(y).num,
           e |-> VaxValue(x).e - VaxValue(y).e - 2 * Spare]
  BY DEF Exactly
<1>2. /\ Exp(x) \in Nat /\ Exp(y) \in Nat /\ Sign(x) \in {0, 1} /\ Sign(y) \in {0, 1}
      /\ Hidden(x) \in 2^FracBits .. 2 * 2^FracBits - 1 /\ Hidden(y) \in 2^FracBits .. 2 * 2^FracBits - 1
      /\ Hidden(x) \in Nat /\ Hidden(y) \in Nat /\ Hidden(y) >= 1
  BY UnpackIs, ScalePowers
<1>3. CASE Exp(x) = 0
  <2>1. Unpack(x).exp = 0 /\ Unpack(y).exp # 0
    BY <1>3, UnpackIs
  <2>2. Div(x, y, g, v) = [bits |-> 0, exc |-> exc]
    BY <2>1 DEF Div
  <2>3. z.q = 0
    <3>1. VaxValue(x).num = 0 /\ VaxValue(y).num = Hidden(y)
      BY <1>3, VaxValueIs
    <3> DEFINE B == Hidden(y)
               X == 2^(2 * Spare)
    <3>2. z.q = (0 * X) \div B /\ X \in Nat
      BY <1>1, <3>1, DivPowers
    <3> HIDE DEF B, X
    <3>3. B \in Nat /\ B >= 1 /\ 0 * X = 0
      BY <1>2, <3>2 DEF B
    <3>4. 0 \div B = 0
      BY <3>3
    <3> QED BY <3>2, <3>3, <3>4
  <2> HIDE DEF z, exc
  <2>4. Div(x, y, g, v).bits = 0
    BY <2>2
  <2>5. Right(Div(x, y, g, v), RoundedVax(z, g, v.chop))
    BY <2>3, <2>4, ZeroRight
  <2> QED BY <2>5 DEF z
<1>4. CASE Exp(x) # 0
  <2> DEFINE A == Hidden(x)
             B == Hidden(y)
             H == 2^Guard
             s == Signs(x, y)
             e == Exp(x) - Exp(y) + Bias + 1
             f == DivFrac(A, B)
             r == [sign |-> s, exp |-> e, frac |-> f]
  <2>1. /\ Unpack(x) = [sign |-> Sign(x), exp |-> Exp(x), frac |-> A * H]
        /\ Unpack(y) = [sign |-> Sign(y), exp |-> Exp(y), frac |-> B * H]
    BY <1>4, UnpackIs
  <2>2. Div(x, y, g, v) = Rpack(Norm(r), g, v, exc)
    <3> HIDE DEF A, B
    <3> QED BY <1>4, <2>1 DEF Div, DivFrac, Signs
  <2>3. s \in {0, 1} /\ e \in Int
    BY <1>2, SignsType, ExpPowers
  <2>4. z.q = (A * 2^(2 * Spare)) \div B /\ z.s = s
        /\ z.e = (Exp(x) - Bias - FracBits - 1) - (Exp(y) - Bias - FracBits - 1) - 2 * Spare
    BY <1>1, <1>4, VaxValueIs
  <2>5. z.e \in Int /\ e = 2 * Spare + z.e + Bias + 1
    <3>1. FracBits \in Int /\ Bias \in Int /\ Spare \in Int /\ Exp(x) \in Int /\ Exp(y) \in Int
      BY <1>2, Widths, ExpPowers, ScalePowers
    <3> HIDE DEF z
    <3> QED BY <2>4, <3>1
  <2>6. /\ f \in Nat /\ f # 0
        /\ A >= B => LeadAlike(f, z.q, 2 * Spare)
        /\ A < B => LeadAlike(f * 2, z.q, 2 * Spare - 1)
    <3> HIDE DEF A, B
    <3>1. /\ DivFrac(A, B) \in Nat /\ DivFrac(A, B) # 0
          /\ A >= B => LeadAlike(DivFrac(A, B), (A * 2^(2 * Spare)) \div B, 2 * Spare)
          /\ A < B => LeadAlike(DivFrac(A, B) * 2, (A * 2^(2 * Spare)) \div B, 2 * Spare - 1)
      BY <1>2, DivLead DEF A, B
    <3> QED BY <2>4, <3>1
  <2>7. A >= B \/ A < B
    BY <1>2
  <2> HIDE DEF z, exc, e, f, s, A, B
  <2>8. r.frac = f /\ r.exp = e /\ r.sign = s
    OBVIOUS
  <2>9. CASE A >= B
    <3>1. f \in NormBit .. 2 * NormBit - 1
      BY <2>6, <2>9 DEF LeadAlike
    <3>2. Norm(r) = r /\ Normal(r)
      BY <2>3, <3>1, NormNormal
    <3> DEFINE h == 2 * Spare
    <3>3. LeadAlike(r.frac, z.q, h) /\ r.exp = h + z.e + Bias + 1 /\ z.s = r.sign
      BY <2>4, <2>5, <2>6, <2>8, <2>9
    <3> HIDE DEF r, h
    <3>4. Right(Rpack(r, g, v, exc), RoundedVax(z, g, v.chop))
      BY <2>5, <3>2, <3>3, RightlyRounded
    <3> QED BY <2>2, <3>2, <3>4 DEF z, r
  <2>10. CASE A < B
    <3> DEFINE f2 == f * 2
               m == [sign |-> s, exp |-> e - 1, frac |-> f2]
               h == 2 * Spare - 1
    <3>1. f2 \in NormBit .. 2 * NormBit - 1
      BY <2>6, <2>10 DEF LeadAlike
    <3>2. Norm(r) = m
      <4>1. 1 \in 0 .. FracWidth - 1 /\ 2^1 = 2
        BY KernelPowers
      <4>2. r.frac \in Nat /\ r.frac # 0 /\ r.frac * 2^1 = f2
        BY <2>6, <2>8, <4>1
      <4>3. Norm(r) = [r EXCEPT !.exp = @ - 1, !.frac = @ * 2^1]
        <5>1. r.frac * 2^1 \in NormBit .. 2 * NormBit - 1
          BY <3>1, <4>2
        <5> HIDE DEF r
        <5> QED BY <4>1, <4>2, <5>1, NormIs
      <4> QED BY <2>8, <4>2, <4>3
    <3>3. m.frac = f2 /\ m.exp = e - 1 /\ m.sign = s /\ e - 1 \in Int
      BY <2>3
    <3>4. Normal(m)
      BY <2>3, <3>1, <3>3 DEF Normal
    <3>5. e - 1 = h + z.e + Bias + 1
      BY <2>3, <2>5, ScalePowers, ExpPowers
    <3>6. LeadAlike(m.frac, z.q, h) /\ m.exp = h + z.e + Bias + 1 /\ z.s = m.sign
      BY <2>4, <2>6, <2>10, <3>3, <3>5
    <3> HIDE DEF r, h, m
    <3>7. Right(Rpack(m, g, v, exc), RoundedVax(z, g, v.chop))
      BY <2>5, <3>4, <3>6, RightlyRounded
    <3> QED BY <2>2, <3>2, <3>7 DEF z, r
  <2> QED BY <2>7, <2>9, <2>10
<1> QED BY <1>3, <1>4

----------------------------------------------------------------------------
(* Sums of magnitudes.                                                    *)

\* The sum of two fractions, the smaller one shifted to the larger and cut: its
\* units and its leading bits are those of the exact sum Z.
SumLeads(L, V, H, D, A, B, Z, R1) ==
  /\ Z \in Nat /\ R1 \in Nat /\ L * D <= Z /\ Z < 4 * (L * D)
  /\ R1 < 2 * (L * H) <=> Z < 2 * (L * D)
  /\ Z < 2 * (L * D) => R1 \div V = (2 * Z) \div D /\ R1 \in L * H .. 2 * (L * H) - 1
  /\ Z >= 2 * (L * D) => (R1 \div 2) \div V = Z \div D /\ R1 \div 2 \in L * H .. 2 * (L * H) - 1

\* The sum of two fractions, the smaller one shifted and cut, has the leading bits of Z.
LEMMA SumLead ==
  ASSUME NEW L \in Nat, NEW V \in Nat, NEW D \in Nat, L >= 1, V >= 1, D >= 1,
         NEW H, Twice(H, V), NEW A \in L .. 2 * L - 1, NEW B \in 0 .. 2 * L - 1
  PROVE  SumLeads(L, V, H, D, A, B, A * D + B, A * H + ((B * H) \div D))
<1> DEFINE Z == A * D + B
           R1 == A * H + ((B * H) \div D)
           M == L * D
           N == L * H
<1>1. H \in Nat /\ H >= 1 /\ A \in Nat /\ B \in Nat
  BY DEF Twice
<1>2. Z \in Nat /\ M \in Nat /\ M >= 1 /\ N \in Nat
  BY <1>1
<1>3. M <= Z /\ Z < 4 * M
  <2>1. L * D <= A * D /\ A * D <= (2 * L - 1) * D /\ (2 * L - 1) * D = 2 * (L * D) - D
    BY <1>1
  <2>2. A * D \in Nat /\ 2 * L - 1 <= 2 * (L * D)
    <3>1. L <= L * D
      OBVIOUS
    <3> QED BY <1>1, <1>2, <3>1
  <2> QED BY <1>1, <1>2, <2>1, <2>2
<1>4. R1 = (Z * H) \div D
  <2> DEFINE k == A * H
             u == B * H
  <2>1. k \in Nat /\ u \in Nat /\ Z * H = k * D + u
    BY <1>1
  <2> HIDE DEF k, u
  <2>2. (k * D + u) \div D = k + u \div D
    BY <2>1, DivPlus
  <2> QED BY <2>1, <2>2 DEF k, u
<1> HIDE DEF Z, R1
<1> DEFINE R == Z * H
<1>5. R \in Nat /\ R = (2 * Z) * V /\ 2 * Z \in Nat
  BY <1>1, <1>2 DEF Twice
<1>6. M * H = D * N /\ 2 * (M * H) = D * (2 * N)
  BY <1>1
<1> HIDE DEF M, N
<1>7. R1 \in N .. 4 * N - 1 /\ (Z < 2 * M => R1 < 2 * N) /\ (Z >= 2 * M => R1 >= 2 * N)
  <2> DEFINE n2 == 2 * N
             n4 == 4 * N
  <2>1. n2 \in Nat /\ n4 \in Nat
    BY <1>2
  <2>2. M * H <= R /\ M * H \in Nat
    BY <1>1, <1>2, <1>3
  <2>3. R < D * n4
    <3>1. Z * H <= (4 * M - 1) * H /\ (4 * M - 1) * H = 4 * (M * H) - H
      BY <1>1, <1>2, <1>3
    <3>2. D * n4 = 4 * (M * H)
      BY <1>2, <1>6
    <3> QED BY <1>1, <1>5, <2>2, <3>1, <3>2
  <2>4. ASSUME Z < 2 * M PROVE R < D * n2
    <3>1. Z * H <= (2 * M - 1) * H /\ (2 * M - 1) * H = 2 * (M * H) - H
      BY <1>1, <1>2, <2>4
    <3> QED BY <1>1, <1>5, <1>6, <2>2, <3>1
  <2>5. ASSUME Z >= 2 * M PROVE D * n2 <= R
    <3>1. Z * H >= (2 * M) * H /\ (2 * M) * H = 2 * (M * H)
      BY <1>1, <1>2, <2>5
    <3> QED BY <1>6, <3>1
  <2>6. D * N <= R
    BY <1>6, <2>2
  <2> HIDE DEF n2, n4, R
  <2>7. R \div D \in N .. n4 - 1
    BY <1>2, <1>5, <2>1, <2>3, <2>6, QuotientIn
  <2>8. ASSUME Z < 2 * M PROVE R \div D \in N .. n2 - 1
    <3>1. R < D * n2
      BY <2>4, <2>8
    <3> QED BY <1>2, <1>5, <2>1, <2>6, <3>1, QuotientIn
  <2>9. ASSUME Z >= 2 * M PROVE R \div D \in n2 .. n4 - 1
    <3>1. D * n2 <= R
      BY <2>5, <2>9
    <3> QED BY <1>2, <1>5, <2>1, <2>3, <3>1, QuotientIn
  <2>10. R1 = R \div D
    BY <1>4 DEF R
  <2> QED BY <1>2, <2>1, <2>7, <2>8, <2>9, <2>10 DEF n2, n4
<1>8. R1 \div V = (2 * Z) \div D
  <2> DEFINE Q == 2 * Z
  <2>1. Q \in Nat /\ R = Q * V
    BY <1>5
  <2> HIDE DEF Q, R
  <2>2. (R \div D) \div V = R \div (D * V)
    BY <1>5, DivDiv
  <2>3. (Q * V) \div (D * V) = Q \div D
    BY <2>1, DivScale
  <2> QED BY <1>4, <2>1, <2>2, <2>3 DEF Q, R
<1>9. (R1 \div 2) \div V = Z \div D
  <2> DEFINE two == 2
             W == two * V
  <2>1. two \in Nat /\ two >= 1 /\ W = H /\ W \in Nat
    BY <1>1 DEF Twice
  <2>2. R1 \in Nat
    BY <1>2, <1>7
  <2> HIDE DEF two
  <2>3. (R1 \div two) \div V = R1 \div (two * V)
    BY <2>1, <2>2, DivDiv
  <2> HIDE DEF R, W
  <2>4. (R \div D) \div H = R \div (D * H)
    BY <1>1, <1>5, DivDiv
  <2>5. (Z * H) \div (D * H) = Z \div D
    BY <1>1, <1>2, DivScale
  <2>6. (R1 \div two) \div V = R1 \div H
    BY <2>1, <2>3 DEF W
  <2>7. R1 \div H = Z \div D
    BY <1>4, <2>4, <2>5 DEF R
  <2> QED BY <2>6, <2>7 DEF two
<1>10. Z >= 2 * M => R1 \div 2 \in N .. 2 * N - 1
  BY <1>2, <1>7
<1>11. R1 < 2 * N <=> Z < 2 * M
  BY <1>2, <1>7
<1>12. Z < 2 * M => R1 \in N .. 2 * N - 1
  BY <1>2, <1>7
<1>13. SumLeads(L, V, H, D, A, B, Z, R1)
  BY <1>2, <1>3, <1>7, <1>8, <1>9, <1>10, <1>11, <1>12 DEF SumLeads, M, N
<1> QED BY <1>13 DEF Z, R1

\* What AddSub leaves of A and B, d places apart, and what rounds alike.
SumUnits(A, B, d) == A * 2^d + B
SumLarge(A, B, d) == SumUnits(A, B, d) >= 2 * (2^FracBits * 2^d)
SumFrac(A, B, d) ==
  LET R1 == A * 2^Guard + ((B * 2^Guard) \div 2^d) IN
  IF SumLarge(A, B, d) THEN R1 \div 2 ELSE R1

\* What AddSub leaves of a sum has the leading bits of the exact one.
LEMMA SumLeadAlike ==
  ASSUME NEW A \in 2^FracBits .. 2 * 2^FracBits - 1, NEW B \in 0 .. 2 * 2^FracBits - 1,
         NEW d \in Nat, d < 2^ExpBits,
         NEW h, h = FracBits + d + Spare + IF SumLarge(A, B, d) THEN 1 ELSE 0
  PROVE  /\ LeadAlike(SumFrac(A, B, d), SumUnits(A, B, d) * 2^Spare, h)
         /\ A * 2^Guard + ((B * 2^Guard) \div 2^d) < 2^FracWidth <=> ~SumLarge(A, B, d)
         /\ SumUnits(A, B, d) \in Nat /\ SumUnits(A, B, d) >= 1
<1> DEFINE L == 2^FracBits
           V == 2^(Guard - 1)
           H == 2^Guard
           D == 2^d
           T1 == 2^(Spare - 1)
           S1 == 2^Spare
           Z == A * D + B
           R1 == A * H + ((B * H) \div D)
           large == SumLarge(A, B, d)
           f == SumFrac(A, B, d)
           q == Z * S1
<1>1. /\ L \in Nat /\ L >= 1 /\ V \in Nat /\ V >= 1 /\ T1 \in Nat /\ T1 >= 1
      /\ Twice(H, V) /\ Twice(S1, T1) /\ S1 \in Nat /\ S1 >= 1 /\ D \in Nat /\ D >= 1
  BY ScalePowers, PowPos
<1>2. NormBit = L * H /\ 2^FracWidth = 2 * NormBit
  BY KernelPowers
<1>3. A \in L .. 2 * L - 1 /\ B \in 0 .. 2 * L - 1
  OBVIOUS
<1>4. FracBits \in Nat /\ Spare \in Nat /\ Spare >= 7 /\ MaxLog2 = 2^ExpBits + 3 * FracBits + 11
      /\ Spare = FracBits + 5 /\ 2^ExpBits \in Nat /\ Spare - 1 \in Nat
  BY Widths, ScalePowers, RegPowers DEF Spare, MaxLog2
<1>5. large <=> Z >= 2 * (L * D)
  BY DEF SumLarge, SumUnits
<1>6. f = IF large THEN R1 \div 2 ELSE R1
  BY DEF SumFrac
<1> HIDE DEF large, f
<1> DEFINE k == FracBits + d
           k1 == FracBits + d + 1
<1>7. k \in Nat /\ k1 \in Nat /\ 2^k = L * D /\ 2^k1 = 2 * (L * D) /\ h = (IF large THEN k1 ELSE k) + Spare
  <2>1. k \in Nat /\ 2^k = L * D /\ k + 1 = k1
    BY <1>4, PowAdd
  <2> HIDE DEF k
  <2>2. 2^(k + 1) = 2 * 2^k
    BY <2>1, TwoPowSucc
  <2>3. h = (IF large THEN k1 ELSE k) + Spare
    BY <1>4 DEF k, large
  <2> HIDE DEF k1
  <2> QED BY <2>1, <2>2, <2>3, <1>4 DEF k1
<1>8. h - 1 - FracBits = (IF large THEN d + Spare ELSE d + (Spare - 1)) /\ h \in Nat
      /\ h >= FracBits + 1 /\ h <= MaxLog2
  BY <1>4 DEF large
<1>9. 2^(d + Spare) = D * S1 /\ 2^(d + (Spare - 1)) = D * T1
  BY <1>4, PowAdd
<1> HIDE DEF L, V, T1, H, S1, D
<1>10. SumLeads(L, V, H, D, A, B, Z, R1)
  BY <1>1, <1>3, SumLead
<1> HIDE DEF Z, R1
<1>11. /\ Z \in Nat /\ R1 \in Nat /\ L * D <= Z /\ Z < 4 * (L * D)
       /\ R1 < 2 * (L * H) <=> Z < 2 * (L * D)
       /\ Z < 2 * (L * D) => R1 \div V = (2 * Z) \div D /\ R1 \in L * H .. 2 * (L * H) - 1
       /\ Z >= 2 * (L * D) => (R1 \div 2) \div V = Z \div D /\ R1 \div 2 \in L * H .. 2 * (L * H) - 1
  BY <1>10 DEF SumLeads
<1>12. L * D \in Nat /\ L * D >= 1
  BY <1>1
<1>13. R1 < 2^FracWidth <=> ~large
  BY <1>2, <1>5, <1>11, <1>12
<1>14. q \div (D * S1) = Z \div D /\ q \div (D * T1) = (2 * Z) \div D
  <2>1. (Z * S1) \div (D * S1) = Z \div D
    <3>1. Z \in Nat /\ D \in Nat /\ S1 \in Nat /\ D >= 1 /\ S1 >= 1
      BY <1>1, <1>11
    <3> QED BY <3>1, DivScale
  <2> DEFINE Q == 2 * Z
  <2>2. Q \in Nat /\ Z * S1 = Q * T1
    BY <1>1, <1>11 DEF Twice
  <2> HIDE DEF Q
  <2>3. (Q * T1) \div (D * T1) = Q \div D
    BY <1>1, <2>2, DivScale
  <2> QED BY <2>1, <2>2, <2>3 DEF Q
<1> HIDE DEF k, k1
<1>15. f \in NormBit .. 2 * NormBit - 1
  BY <1>2, <1>5, <1>6, <1>11, <1>12
<1>16. f \div V = q \div 2^(h - 1 - FracBits)
  <2>1. CASE large
    <3>1. 2^(h - 1 - FracBits) = D * S1
      BY <1>8, <1>9, <2>1
    <3>2. f \div V = Z \div D
      BY <1>5, <1>6, <1>11, <2>1
    <3> QED BY <1>14, <3>1, <3>2
  <2>2. CASE ~large
    <3>1. 2^(h - 1 - FracBits) = D * T1
      BY <1>8, <1>9, <2>2
    <3>2. Z < 2 * (L * D)
      BY <1>5, <1>11, <1>12, <2>2
    <3>3. f \div V = (2 * Z) \div D
      BY <1>6, <1>11, <2>2, <3>2
    <3> QED BY <1>14, <3>1, <3>3
  <2> QED BY <2>1, <2>2
<1>17. 2^h <= q /\ q < 2^(h + 1) /\ q \in Nat
  <2>1. CASE large
    <3> DEFINE M == 2 * (L * D)
    <3>1. M = 2^k1 /\ M <= Z /\ Z < 2 * M
      BY <1>5, <1>7, <1>11, <1>12, <2>1
    <3> HIDE DEF M
    <3>2. 2^(k1 + Spare) <= Z * 2^Spare /\ Z * 2^Spare < 2^(k1 + Spare + 1) /\ Z * 2^Spare \in Nat
      BY <1>7, <1>11, <3>1, TopOfScaled
    <3>3. h = k1 + Spare
      BY <1>7, <2>1
    <3> QED BY <3>2, <3>3 DEF S1
  <2>2. CASE ~large
    <3> DEFINE M == L * D
    <3>1. M = 2^k /\ M <= Z /\ Z < 2 * M
      BY <1>5, <1>7, <1>11, <1>12, <2>2
    <3> HIDE DEF M
    <3>2. 2^(k + Spare) <= Z * 2^Spare /\ Z * 2^Spare < 2^(k + Spare + 1) /\ Z * 2^Spare \in Nat
      BY <1>7, <1>11, <3>1, TopOfScaled
    <3>3. h = k + Spare
      BY <1>7, <2>2
    <3> QED BY <3>2, <3>3 DEF S1
  <2> QED BY <2>1, <2>2
<1>18. LeadAlike(f, q, h)
  BY <1>8, <1>15, <1>16, <1>17 DEF LeadAlike, V
<1>19. Z = SumUnits(A, B, d) /\ Z >= 1
  BY <1>11, <1>12 DEF SumUnits, Z, D
<1> QED BY <1>11, <1>13, <1>18, <1>19 DEF f, S1, R1, H, D, large

\* The operand of the larger exponent, the other one, and what each contributes.
Hi(x, y) == IF Exp(x) < Exp(y) THEN y ELSE x
Lo(x, y) == IF Exp(x) < Exp(y) THEN x ELSE y
Num(r) == IF Exp(r) = 0 THEN 0 ELSE Hidden(r)
Place(r) == IF Exp(r) = 0 THEN 1 ELSE Exp(r)
Apart(x, y) == Place(Hi(x, y)) - Place(Lo(x, y))

\* The two operands in order of their exponents, and how far they are apart.
LEMMA PlaceType ==
  ASSUME NEW x \in Images, NEW y \in Images
  PROVE  /\ Hi(x, y) \in Images /\ Lo(x, y) \in Images
         /\ Num(Lo(x, y)) \in 0 .. 2 * 2^FracBits - 1 /\ Num(Lo(x, y)) \in Nat
         /\ Apart(x, y) \in Nat /\ Apart(x, y) < 2^ExpBits
         /\ Place(x) \in Nat /\ Place(y) \in Nat
<1>1. Hi(x, y) \in Images /\ Lo(x, y) \in Images
  BY DEF Hi, Lo
<1>2. Exp(x) \in 0 .. 2^ExpBits - 1 /\ Exp(y) \in 0 .. 2^ExpBits - 1 /\ 2^ExpBits \in Nat
  BY FieldsPack, RegPowers
<1>3. Num(Lo(x, y)) \in 0 .. 2 * 2^FracBits - 1 /\ Num(Lo(x, y)) \in Nat
  <2> DEFINE l == Lo(x, y)
             L == 2^FracBits
  <2>1. Hidden(l) \in L .. 2 * L - 1 /\ L \in Nat /\ L >= 1
    BY <1>1, UnpackIs, RegPowers
  <2> HIDE DEF l, L
  <2>2. Num(l) \in 0 .. 2 * L - 1 /\ Num(l) \in Nat
    BY <2>1 DEF Num
  <2> QED BY <2>2 DEF l, L
<1>4. Apart(x, y) \in Nat /\ Apart(x, y) < 2^ExpBits /\ Place(x) \in Nat /\ Place(y) \in Nat
  BY <1>2 DEF Apart, Place, Hi, Lo
<1> QED BY <1>1, <1>3, <1>4

\* Two numbers of one sign add up to one of that sign.
Of(t, n, e) == [sign |-> t, num |-> n, e |-> e]
Signed1(t, n) == IF t = 1 THEN -n ELSE n
AddsUp(Z, A, B, E1, E2) == E1 >= E2 /\ Z = A * 2^(E1 - E2) + B

\* The reference adds two numbers of one sign.
LEMMA SameSignSum ==
  ASSUME NEW t \in {0, 1}, NEW A \in Nat, NEW B \in Nat, NEW E1 \in Int, NEW E2 \in Int,
         NEW Z, AddsUp(Z, A, B, E1, E2)
  PROVE  /\ SumOf(Of(t, A, E1), Of(t, B, E2)) = [n |-> Signed1(t, Z), e |-> E2]
         /\ SumOf(Of(t, B, E2), Of(t, A, E1)) = [n |-> Signed1(t, Z), e |-> E2]
<1> DEFINE X == Of(t, A, E1)
           Y == Of(t, B, E2)
           c == IF t = 1 THEN -1 ELSE 1
           D == 2^(E1 - E2)
<1>1. D \in Nat /\ E1 >= E2 /\ Z = A * D + B
  BY PowPos DEF AddsUp
<1>2. E2 - E2 = 0 /\ 2^0 = 1
  OBVIOUS
<1>3. X.sign = t /\ X.num = A /\ X.e = E1 /\ Y.sign = t /\ Y.num = B /\ Y.e = E2
  BY DEF Of
<1>4. (IF X.e < Y.e THEN X.e ELSE Y.e) = E2 /\ (IF Y.e < X.e THEN Y.e ELSE X.e) = E2
  BY <1>1, <1>3
<1> HIDE DEF X, Y
<1>5. SumOf(X, Y) = [n |-> c * A * 2^(E1 - E2) + c * B * 2^(E2 - E2), e |-> E2]
  BY <1>3, <1>4 DEF SumOf
<1>6. SumOf(Y, X) = [n |-> c * B * 2^(E2 - E2) + c * A * 2^(E1 - E2), e |-> E2]
  BY <1>3, <1>4 DEF SumOf
<1>7. c * A * 2^(E1 - E2) + c * B * 2^(E2 - E2) = Signed1(t, Z)
      /\ c * B * 2^(E2 - E2) + c * A * 2^(E1 - E2) = Signed1(t, Z)
  <2>1. 2^(E2 - E2) = 1
    BY <1>2
  <2> DEFINE one == 2^(E2 - E2)
  <2>2. Z = A * D + B /\ one = 1
    BY <1>1, <2>1
  <2> HIDE DEF D, one, c
  <2>3. c * A * D + c * B * one = Signed1(t, Z) /\ c * B * one + c * A * D = Signed1(t, Z)
    <3>1. c * B * one = c * B
      BY <2>2 DEF c
    <3>2. CASE t = 1
      <4>1. c = -1 /\ A * D \in Nat /\ c * A * D = -(A * D) /\ c * B = -B
        BY <1>1, <3>2 DEF c
      <4>2. Signed1(t, Z) = -Z
        BY <3>2 DEF Signed1
      <4> QED BY <2>2, <3>1, <4>1, <4>2
    <3>3. CASE t = 0
      <4>1. c = 1 /\ A * D \in Nat /\ c * A * D = A * D /\ c * B = B
        BY <1>1, <3>3 DEF c
      <4>2. Signed1(t, Z) = Z
        BY <3>3 DEF Signed1
      <4> QED BY <2>2, <3>1, <4>1, <4>2
    <3> QED BY <3>2, <3>3
  <2> QED BY <2>3 DEF D, one
<1> QED BY <1>5, <1>6, <1>7 DEF X, Y

\* The operation that adds, of operands whose magnitudes add up.
OpOf(sub) == IF sub THEN "SUB" ELSE "ADD"
Magnitudes(x, y, sub, t) ==
  /\ t \in {0, 1} /\ Sign(x) = t /\ (IF sub THEN 1 - Sign(y) ELSE Sign(y)) = t

\* The exact sum of two images whose magnitudes add up, in units of the smaller one.
LEMMA ExactSum ==
  ASSUME NEW x \in Images, NEW y \in Images, NEW sub \in BOOLEAN, NEW t, Magnitudes(x, y, sub, t),
         NEW Z, Z = Num(Hi(x, y)) * 2^Apart(x, y) + Num(Lo(x, y)), NEW z, z = Exactly(OpOf(sub), x, y)
  PROVE  /\ z.q = Z * 2^Spare /\ z.e = Place(Lo(x, y)) - Bias - FracBits - 1 - Spare
         /\ Z \in Nat /\ (Z # 0 => z.s = t) /\ z.e \in Int
<1> DEFINE a == VaxValue(x)
           b == IF sub THEN [VaxValue(y) EXCEPT !.sign = 1 - @] ELSE VaxValue(y)
           ea == Place(x) - Bias - FracBits - 1
           eb == Place(y) - Bias - FracBits - 1
           sum == SumOf(a, b)
<1>1. /\ Place(x) \in Nat /\ Place(y) \in Nat /\ Bias \in Int /\ FracBits \in Int /\ Spare \in Nat
      /\ Hidden(x) \in Nat /\ Hidden(y) \in Nat /\ Exp(x) \in Nat /\ Exp(y) \in Nat
  BY PlaceType, ExpPowers, Widths, ScalePowers, UnpackIs
<1>2. a = Of(t, Num(x), ea)
  BY <1>1, VaxValueIs DEF Magnitudes, Of, Num, Place
<1>3. b = Of(t, Num(y), eb)
  <2>1. VaxValue(y) = Of(Sign(y), Num(y), eb)
    BY <1>1, VaxValueIs DEF Of, Num, Place
  <2>2. CASE sub
    <3>1. b = [Of(Sign(y), Num(y), eb) EXCEPT !.sign = 1 - Sign(y)] /\ 1 - Sign(y) = t
      BY <2>1, <2>2 DEF Magnitudes, Of
    <3> HIDE DEF eb
    <3> QED BY <3>1 DEF Of
  <2>3. CASE ~sub
    BY <2>1, <2>3 DEF Magnitudes
  <2> QED BY <2>2, <2>3
<1>4. t \in {0, 1} /\ Num(x) \in Nat /\ Num(y) \in Nat /\ ea \in Int /\ eb \in Int
  BY <1>1 DEF Magnitudes, Num
<1>5. Apart(x, y) = (IF Exp(x) < Exp(y) THEN eb - ea ELSE ea - eb)
      /\ (Exp(x) < Exp(y) => eb >= ea) /\ (~(Exp(x) < Exp(y)) => ea >= eb)
  BY <1>1 DEF Apart, Hi, Lo, Place
<1>6. sum = [n |-> Signed1(t, Z), e |-> Place(Lo(x, y)) - Bias - FracBits - 1]
  <2> HIDE DEF a, b
  <2>1. CASE Exp(x) < Exp(y)
    <3>1. AddsUp(Z, Num(y), Num(x), eb, ea)
      BY <1>5, <2>1 DEF Hi, Lo, AddsUp
    <3>2. ea = Place(Lo(x, y)) - Bias - FracBits - 1
      BY <2>1 DEF Lo
    <3> HIDE DEF ea, eb
    <3>3. SumOf(Of(t, Num(x), ea), Of(t, Num(y), eb)) = [n |-> Signed1(t, Z), e |-> ea]
      BY <1>4, <3>1, SameSignSum
    <3> QED BY <1>2, <1>3, <3>2, <3>3
  <2>2. CASE ~(Exp(x) < Exp(y))
    <3>1. AddsUp(Z, Num(x), Num(y), ea, eb)
      BY <1>5, <2>2 DEF Hi, Lo, AddsUp
    <3>2. eb = Place(Lo(x, y)) - Bias - FracBits - 1
      BY <2>2 DEF Lo
    <3> HIDE DEF ea, eb
    <3>3. SumOf(Of(t, Num(x), ea), Of(t, Num(y), eb)) = [n |-> Signed1(t, Z), e |-> eb]
      BY <1>4, <3>1, SameSignSum
    <3> QED BY <1>2, <1>3, <3>2, <3>3
  <2> QED BY <2>1, <2>2
<1>7. z = [s |-> IF sum.n < 0 THEN 1 ELSE 0,
           q |-> (IF sum.n < 0 THEN -sum.n ELSE sum.n) * 2^Spare, e |-> sum.e - Spare]
  BY DEF Exactly, OpOf
<1>8. Z \in Nat
  <2> DEFINE D == 2^Apart(x, y)
             m == Num(Hi(x, y))
             n == Num(Lo(x, y))
  <2>1. D \in Nat /\ m \in Nat /\ n \in Nat /\ Z = m * D + n
    BY <1>4, PlaceType, PowPos DEF Hi, Lo
  <2> HIDE DEF D, m, n
  <2>2. m * D \in Nat
    BY <2>1
  <2> QED BY <2>1, <2>2
<1> HIDE DEF sum
<1>9. sum.n = Signed1(t, Z) /\ sum.e = Place(Lo(x, y)) - Bias - FracBits - 1
  BY <1>6
<1>10. (IF sum.n < 0 THEN -sum.n ELSE sum.n) = Z /\ (Z # 0 => (IF sum.n < 0 THEN 1 ELSE 0) = t)
  BY <1>4, <1>8, <1>9 DEF Signed1
<1>11. Place(Lo(x, y)) \in Nat
  BY <1>1 DEF Lo
<1> QED BY <1>1, <1>7, <1>8, <1>9, <1>10, <1>11

\* Adding a zero changes no fraction.
LEMMA ZeroAdded ==
  ASSUME NEW A \in 2^FracBits .. 2 * 2^FracBits - 1, NEW d \in Nat
  PROVE  ~SumLarge(A, 0, d) /\ SumFrac(A, 0, d) = A * 2^Guard
<1> DEFINE L == 2^FracBits
           H == 2^Guard
           D == 2^d
<1>1. L \in Nat /\ H \in Nat /\ D \in Nat /\ D >= 1
  BY ScalePowers, PowPos
<1>2. A \in L .. 2 * L - 1
  OBVIOUS
<1>3. (SumLarge(A, 0, d) <=> A * D + 0 >= 2 * (L * D))
      /\ SumFrac(A, 0, d) = IF SumLarge(A, 0, d) THEN (A * H + ((0 * H) \div D)) \div 2
                            ELSE A * H + ((0 * H) \div D)
  BY DEF SumLarge, SumUnits, SumFrac
<1> HIDE DEF L, H, D
<1>4. A * D < 2 * (L * D) /\ A * D \in Nat /\ A * H \in Nat /\ L * D \in Nat
  <2>1. A \in Nat /\ A * D <= (2 * L - 1) * D /\ (2 * L - 1) * D = 2 * (L * D) - D
    BY <1>1, <1>2
  <2>2. A * D \in Nat /\ A * H \in Nat /\ L * D \in Nat
    BY <1>1, <2>1
  <2> QED BY <1>1, <2>1, <2>2
<1>5. 0 * H = 0 /\ 0 \div D = 0
  BY <1>1
<1>6. ~SumLarge(A, 0, d)
  BY <1>3, <1>4
<1>7. SumFrac(A, 0, d) = A * H + 0
  BY <1>3, <1>5, <1>6
<1>8. SumFrac(A, 0, d) = A * H
  BY <1>4, <1>7
<1> QED BY <1>6, <1>8 DEF H

\* A fraction shifted by the width of the word or more leaves nothing.
LEMMA ShiftedOut ==
  ASSUME NEW B \in 0 .. 2 * 2^FracBits - 1, NEW d \in Nat
  PROVE  (IF d >= FracWidth THEN 0 ELSE (B * 2^Guard) \div 2^d) = (B * 2^Guard) \div 2^d
<1>1. CASE d >= FracWidth
  <2> DEFINE L == 2^FracBits
             H == 2^Guard
             D == 2^d
             W == 2^FracWidth
             u == B * H
  <2>1. L \in Nat /\ H \in Nat /\ H >= 1 /\ D \in Nat /\ D >= 1 /\ W <= D /\ W = 2 * (L * H) /\ W \in Nat
    BY <1>1, ScalePowers, PowPos, PowMono, KernelPowers
  <2>2. B \in Nat /\ B <= 2 * L - 1
    BY <2>1
  <2> HIDE DEF L, H, D, W
  <2>3. u \in Nat /\ u < D
    <3>1. B * H <= (2 * L - 1) * H /\ (2 * L - 1) * H = 2 * (L * H) - H
      BY <2>1, <2>2
    <3>2. B * H \in Nat /\ L * H \in Nat
      BY <2>1, <2>2
    <3> QED BY <2>1, <3>1, <3>2
  <2> HIDE DEF u
  <2>4. u \div D = 0
    BY <2>1, <2>3
  <2> QED BY <1>1, <2>4 DEF u, H, D
<1>2. CASE ~(d >= FracWidth)
  BY <1>2
<1> QED BY <1>1, <1>2

\* What AddSub packs when the magnitudes of its operands add up.
SumNumber(x, y, t) ==
  LET A == Num(Hi(x, y))  B == Num(Lo(x, y))  d == Apart(x, y) IN
  [sign |-> t, exp |-> Exp(Hi(x, y)) + (IF SumLarge(A, B, d) THEN 1 ELSE 0), frac |-> SumFrac(A, B, d)]

\* AddSub packs SumNumber; a zero operand takes the early exits to the same result.
LEMMA SumKernel ==
  ASSUME NEW x \in Images, NEW y \in Images, NEW sub \in BOOLEAN, NEW t, Magnitudes(x, y, sub, t),
         Exp(x) # 0 \/ Exp(y) # 0, NEW g \in {F, G}, NEW v, v.chop \in BOOLEAN
  PROVE  AddSub(x, y, sub, g, v) = Rpack(Norm(SumNumber(x, y, t)), g, v, Invalid({x, y}))
<1> DEFINE p == Unpack(x)
           q == IF sub THEN [Unpack(y) EXCEPT !.sign = 1 - @] ELSE Unpack(y)
           a == IF p.exp < q.exp THEN q ELSE p
           b == IF p.exp < q.exp THEN p ELSE q
           small == IF a.exp - b.exp >= FracWidth THEN 0 ELSE b.frac \div 2^(a.exp - b.exp)
           sum == a.frac + small
           exc == Invalid({x, y})
           r == IF a.sign # b.sign
                THEN [a EXCEPT !.frac = (@ - small) % 2^FracWidth]
                ELSE IF sum < 2^FracWidth THEN [a EXCEPT !.frac = sum]
                ELSE [a EXCEPT !.frac = sum \div 2, !.exp = @ + 1]
           H == 2^Guard
           fx == Hidden(x) * H
           fy == Hidden(y) * H
           ex == Exp(x)
           ey == Exp(y)
           n == SumNumber(x, y, t)
<1>1. AddSub(x, y, sub, g, v) =
        CASE p.exp = 0 -> Rpack(q, g, v, exc)
          [] p.exp # 0 /\ q.exp = 0 -> Rpack(p, g, v, exc)
          [] OTHER -> Rpack(Norm(r), g, v, exc)
  BY DEF AddSub
<1>2. /\ Hidden(x) \in 2^FracBits .. 2 * 2^FracBits - 1 /\ Hidden(y) \in 2^FracBits .. 2 * 2^FracBits - 1
      /\ ex \in Nat /\ ey \in Nat /\ fx \in NormBit .. 2 * NormBit - 1 /\ fy \in NormBit .. 2 * NormBit - 1
      /\ t \in {0, 1}
  BY UnpackIs DEF Magnitudes
<1>3. /\ ex = 0 => p.exp = 0
      /\ ex # 0 => p = [sign |-> t, exp |-> ex, frac |-> fx]
  BY UnpackIs DEF Magnitudes
<1>4. /\ ey = 0 => q.exp = 0
      /\ ey # 0 => q = [sign |-> t, exp |-> ey, frac |-> fy]
  <2>1. CASE ey = 0
    <3>1. Unpack(y) = [sign |-> 0, exp |-> 0, frac |-> 0]
      BY <2>1, UnpackIs
    <3> QED BY <2>1, <3>1
  <2>2. CASE ey # 0
    <3>1. Unpack(y) = [sign |-> Sign(y), exp |-> ey, frac |-> fy]
      BY <2>2, UnpackIs
    <3> HIDE DEF ey, fy
    <3>2. CASE sub
      BY <2>2, <3>1, <3>2 DEF Magnitudes
    <3>3. CASE ~sub
      BY <2>2, <3>1, <3>3 DEF Magnitudes
    <3> QED BY <3>2, <3>3
  <2> QED BY <2>1, <2>2
<1> HIDE DEF p, q, exc
<1>5. Apart(x, y) \in Nat
  BY PlaceType
<1>6. CASE ex = 0
  <2>1. ey # 0 /\ Hi(x, y) = y /\ Lo(x, y) = x /\ Num(y) = Hidden(y) /\ Num(x) = 0
    BY <1>2, <1>6 DEF Hi, Lo, Num
  <2>2. n = [sign |-> t, exp |-> ey + 0, frac |-> fy]
    BY <1>2, <1>5, <2>1, ZeroAdded DEF SumNumber
  <2>3. n = q
    BY <1>2, <1>4, <2>1, <2>2
  <2>4. Norm(q) = q
    <3>1. q = [sign |-> t, exp |-> ey, frac |-> fy] /\ ey \in Int
      BY <1>2, <1>4, <2>1
    <3> HIDE DEF ey, fy
    <3> QED BY <1>2, <3>1, NormNormal
  <2>5. AddSub(x, y, sub, g, v) = Rpack(q, g, v, exc)
    BY <1>1, <1>3, <1>6
  <2> QED BY <2>3, <2>4, <2>5 DEF exc
<1>7. CASE ex # 0 /\ ey = 0
  <2>1. Hi(x, y) = x /\ Lo(x, y) = y /\ Num(x) = Hidden(x) /\ Num(y) = 0
    BY <1>2, <1>7 DEF Hi, Lo, Num
  <2>2. n = [sign |-> t, exp |-> ex + 0, frac |-> fx]
    BY <1>2, <1>5, <2>1, ZeroAdded DEF SumNumber
  <2>3. n = p
    BY <1>2, <1>3, <1>7, <2>2
  <2>4. Norm(p) = p
    <3>1. p = [sign |-> t, exp |-> ex, frac |-> fx] /\ ex \in Int
      BY <1>2, <1>3, <1>7
    <3> HIDE DEF ex, fx
    <3> QED BY <1>2, <3>1, NormNormal
  <2>5. p.exp # 0 /\ q.exp = 0
    BY <1>3, <1>4, <1>7
  <2>6. AddSub(x, y, sub, g, v) = Rpack(p, g, v, exc)
    BY <1>1, <2>5
  <2> QED BY <2>3, <2>4, <2>6 DEF exc
<1>8. CASE ex # 0 /\ ey # 0
  <2> DEFINE A == Num(Hi(x, y))
             B == Num(Lo(x, y))
             d == Apart(x, y)
             e == Exp(Hi(x, y))
             large == SumLarge(A, B, d)
             fr == A * H
             sm == (B * H) \div 2^d
  <2>1. p.exp # 0 /\ q.exp # 0 /\ p.exp = ex /\ q.exp = ey
    BY <1>3, <1>4, <1>8
  <2>2. AddSub(x, y, sub, g, v) = Rpack(Norm(r), g, v, exc)
    BY <1>1, <2>1
  <2>3. /\ a.sign = t /\ b.sign = t /\ a.exp = e /\ a.frac = fr /\ b.frac = B * H
        /\ a.exp - b.exp = d /\ a = [sign |-> t, exp |-> e, frac |-> fr]
        /\ A \in 2^FracBits .. 2 * 2^FracBits - 1 /\ B \in 2^FracBits .. 2 * 2^FracBits - 1 /\ e \in Nat
    <3>1. CASE ex < ey
      <4>1. a = q /\ b = p
        BY <2>1, <3>1
      <4>2. A = Hidden(y) /\ B = Hidden(x) /\ e = ey /\ d = ey - ex
        BY <1>8, <3>1 DEF Hi, Lo, Num, Apart, Place
      <4>3. q = [sign |-> t, exp |-> ey, frac |-> fy] /\ p = [sign |-> t, exp |-> ex, frac |-> fx]
        BY <1>3, <1>4, <1>8
      <4>4. fr = fy /\ B * H = fx
        BY <4>2
      <4> HIDE DEF a, b, ex, ey, fx, fy, fr, A, B, d, e
      <4> QED BY <1>2, <4>1, <4>2, <4>3, <4>4
    <3>2. CASE ~(ex < ey)
      <4>1. a = p /\ b = q
        BY <2>1, <3>2
      <4>2. A = Hidden(x) /\ B = Hidden(y) /\ e = ex /\ d = ex - ey
        BY <1>8, <3>2 DEF Hi, Lo, Num, Apart, Place
      <4>3. q = [sign |-> t, exp |-> ey, frac |-> fy] /\ p = [sign |-> t, exp |-> ex, frac |-> fx]
        BY <1>3, <1>4, <1>8
      <4>4. fr = fx /\ B * H = fy
        BY <4>2
      <4> HIDE DEF a, b, ex, ey, fx, fy, fr, A, B, d, e
      <4> QED BY <1>2, <4>1, <4>2, <4>3, <4>4
    <3> QED BY <3>1, <3>2
  <2>4. B \in 0 .. 2 * 2^FracBits - 1
    BY <2>3, ScalePowers
  <2>5. small = sm
    <3>1. (IF d >= FracWidth THEN 0 ELSE (B * 2^Guard) \div 2^d) = (B * 2^Guard) \div 2^d
      <4> HIDE DEF B, d
      <4> QED BY <1>5, <2>4, ShiftedOut DEF d
    <3> HIDE DEF a, b
    <3> QED BY <2>3, <3>1
  <2>6. d < 2^ExpBits
    BY PlaceType
  <2>7. fr + sm < 2^FracWidth <=> ~large
    <3> DEFINE h == FracBits + d + Spare + IF large THEN 1 ELSE 0
    <3>1. h = FracBits + d + Spare + IF SumLarge(A, B, d) THEN 1 ELSE 0
      OBVIOUS
    <3> HIDE DEF A, B, d, h
    <3> QED BY <1>5, <2>3, <2>4, <2>6, <3>1, SumLeadAlike DEF d
  <2>8. n = [sign |-> t, exp |-> e + (IF large THEN 1 ELSE 0), frac |-> IF large THEN (fr + sm) \div 2 ELSE fr + sm]
    BY DEF SumNumber, SumFrac
  <2> HIDE DEF a, b, small, A, B, d, e, large, fr, sm, n
  <2>9. r = n
    <3>1. CASE large
      <4>1. r = [a EXCEPT !.frac = (fr + sm) \div 2, !.exp = e + 1]
        BY <2>3, <2>5, <2>7, <3>1
      <4> DEFINE k == (fr + sm) \div 2
                 e1 == e + 1
      <4>2. n = [sign |-> t, exp |-> e1, frac |-> k] /\ r = [a EXCEPT !.frac = k, !.exp = e1]
        BY <2>8, <3>1, <4>1
      <4>3. a = [sign |-> t, exp |-> e, frac |-> fr]
        BY <2>3
      <4> HIDE DEF k, r, e1
      <4>4. r = [[sign |-> t, exp |-> e, frac |-> fr] EXCEPT !.frac = k, !.exp = e1]
        BY <4>2, <4>3
      <4>5. r = [sign |-> t, exp |-> e1, frac |-> k]
        BY <4>4
      <4> QED BY <4>2, <4>5
    <3>2. CASE ~large
      <4> DEFINE k == fr + sm
      <4>1. r = [a EXCEPT !.frac = k]
        BY <2>3, <2>5, <2>7, <3>2
      <4>2. n = [sign |-> t, exp |-> e, frac |-> k]
        BY <2>3, <2>8, <3>2
      <4> HIDE DEF k, r
      <4> QED BY <2>3, <4>1, <4>2
    <3> QED BY <3>1, <3>2
  <2> QED BY <2>2, <2>9 DEF exc, n
<1> QED BY <1>6, <1>7, <1>8

\* A sum of magnitudes is the exact one, cut off below the guard bits and rounded once.
THEOREM SumRight ==
  ASSUME NEW x \in Images, NEW y \in Images, NEW sub \in BOOLEAN, NEW t, Magnitudes(x, y, sub, t),
         NEW g \in {F, G}, NEW v, v.chop \in BOOLEAN
  PROVE  Right(AddSub(x, y, sub, g, v), RoundedVax(Exactly(OpOf(sub), x, y), g, v.chop))
<1> DEFINE z == Exactly(OpOf(sub), x, y)
           A == Num(Hi(x, y))
           B == Num(Lo(x, y))
           d == Apart(x, y)
           Z == A * 2^d + B
           exc == Invalid({x, y})
<1>1. /\ z.q = Z * 2^Spare /\ z.e = Place(Lo(x, y)) - Bias - FracBits - 1 - Spare
      /\ Z \in Nat /\ (Z # 0 => z.s = t) /\ z.e \in Int
  BY ExactSum
<1>2. /\ d \in Nat /\ d < 2^ExpBits /\ B \in 0 .. 2 * 2^FracBits - 1
      /\ Hi(x, y) \in Images /\ Lo(x, y) \in Images
  BY PlaceType
<1>3. Exp(x) \in Nat /\ Exp(y) \in Nat
  BY UnpackIs
<1>4. CASE Exp(x) = 0 /\ Exp(y) = 0
  <2> DEFINE q == IF sub THEN [Unpack(y) EXCEPT !.sign = 1 - @] ELSE Unpack(y)
  <2>1. Unpack(x).exp = 0 /\ Unpack(y) = [sign |-> 0, exp |-> 0, frac |-> 0]
    BY <1>4, UnpackIs
  <2>2. AddSub(x, y, sub, g, v) = Rpack(q, g, v, exc)
    BY <2>1 DEF AddSub
  <2>3. q.frac = 0
    BY <2>1
  <2> HIDE DEF q, exc
  <2>4. Rpack(q, g, v, exc).bits = 0
    BY <2>3 DEF Rpack
  <2>5. A = 0 /\ B = 0
    BY <1>4 DEF Num, Hi, Lo
  <2>6. z.q = 0
    <3> DEFINE D == 2^d
               S1 == 2^Spare
    <3>1. z.q = (A * D + B) * S1 /\ D \in Nat /\ S1 \in Nat
      BY <1>1, <1>2, PowPos, ScalePowers
    <3> HIDE DEF z, A, B, D, S1
    <3> QED BY <2>5, <3>1
  <2> HIDE DEF z
  <2>7. Right(AddSub(x, y, sub, g, v), RoundedVax(z, g, v.chop))
    BY <2>2, <2>4, <2>6, ZeroRight
  <2> QED BY <2>7 DEF z
<1>5. CASE Exp(x) # 0 \/ Exp(y) # 0
  <2> DEFINE large == SumLarge(A, B, d)
             h == FracBits + d + Spare + IF large THEN 1 ELSE 0
             n == SumNumber(x, y, t)
             f == SumFrac(A, B, d)
             e == Exp(Hi(x, y)) + (IF large THEN 1 ELSE 0)
  <2>1. AddSub(x, y, sub, g, v) = Rpack(Norm(n), g, v, exc)
    BY <1>5, SumKernel
  <2>2. Exp(Hi(x, y)) # 0 /\ A = Hidden(Hi(x, y)) /\ Exp(Hi(x, y)) \in Nat
    BY <1>3, <1>5 DEF Hi, Num
  <2>3. A \in 2^FracBits .. 2 * 2^FracBits - 1
    BY <1>2, <2>2, UnpackIs
  <2>4. h = FracBits + d + Spare + IF SumLarge(A, B, d) THEN 1 ELSE 0
    OBVIOUS
  <2>5. LeadAlike(f, Z * 2^Spare, h) /\ Z # 0
    <3>1. Z = SumUnits(A, B, d)
      BY DEF SumUnits
    <3> HIDE DEF A, B, d, h, Z
    <3>2. /\ LeadAlike(SumFrac(A, B, d), SumUnits(A, B, d) * 2^Spare, h)
          /\ SumUnits(A, B, d) \in Nat /\ SumUnits(A, B, d) >= 1
      BY <1>2, <2>3, <2>4, SumLeadAlike
    <3> QED BY <3>1, <3>2
  <2>6. n = [sign |-> t, exp |-> e, frac |-> f]
    BY DEF SumNumber
  <2>7. e = h + z.e + Bias + 1
    <3>1. Exp(Hi(x, y)) = d + Place(Lo(x, y))
      <4>1. Place(Hi(x, y)) = Exp(Hi(x, y))
        BY <2>2 DEF Place
      <4>2. Place(Lo(x, y)) \in Nat
        BY <1>2, PlaceType
      <4> QED BY <2>2, <4>1, <4>2 DEF Apart
    <3>2. Place(Lo(x, y)) \in Nat /\ FracBits \in Int /\ Bias \in Int /\ Spare \in Int
      BY <1>2, PlaceType, Widths, ExpPowers, ScalePowers
    <3> HIDE DEF d, z, large
    <3> QED BY <1>1, <1>2, <3>1, <3>2
  <2>8. t \in {0, 1} /\ e \in Int
    BY <2>2 DEF Magnitudes
  <2> HIDE DEF z, Z, h, e, f, large, A, B, d, exc
  <2>9. f \in NormBit .. 2 * NormBit - 1
    BY <2>5 DEF LeadAlike
  <2>10. n.frac = f /\ n.exp = e /\ n.sign = t
    BY <2>6
  <2> HIDE DEF n
  <2>11. Norm(n) = n /\ Normal(n)
    BY <2>6, <2>8, <2>9, NormNormal
  <2>12. LeadAlike(n.frac, z.q, h) /\ n.exp = h + z.e + Bias + 1 /\ z.s = n.sign /\ z.e \in Int
    BY <1>1, <2>5, <2>7, <2>10
  <2>13. Right(Rpack(n, g, v, exc), RoundedVax(z, g, v.chop))
    BY <2>11, <2>12, RightlyRounded
  <2> QED BY <2>1, <2>11, <2>13 DEF z
<1> QED BY <1>4, <1>5

----------------------------------------------------------------------------
(* The leaves, and what each leaves in the result register.               *)

\* The formats of the leaves, and the roundings VAX leaves are encoded with.
LEMMA LeafType ==
  ASSUME NEW l \in AllLeaves
  PROVE  l.fmt \in {"S", "T", "F", "G"} /\ (l.fmt \in {"F", "G"} => l.rnd \in {"C", "N"})
<1>1. CASE l \in ArithT \cup ArithS \cup CompareT \cup BaseGrains
  BY <1>1 DEF ArithT, ArithS, CompareT, BaseGrains, Leaves
<1>2. CASE l \in Cvtts \cup Cvttq \cup Cvtqx \cup CompareSu
  BY <1>2 DEF Cvtts, Cvttq, Cvtqx, CompareSu, Leaves
<1>3. CASE l \in Sqrtf \cup Sqrtg \cup Sqrts \cup Sqrtt
  BY <1>3 DEF Sqrtf, Sqrtg, Sqrts, Sqrtt, Leaves
<1>4. ASSUME NEW rnd \in {"C", "N"}, NEW trap, NEW others, l \in Vax(rnd, trap, others)
      PROVE  l.fmt \in {"F", "G"} /\ l.rnd \in {"C", "N"}
  BY <1>4 DEF Vax, Leaves
<1>5. CASE l \in VaxC \cup VaxN \cup VaxUC \cup VaxU \cup VaxSC \cup VaxS \cup VaxSUC \cup VaxSU
  <2>1. \E rnd \in {"C", "N"} : \E trap, others : l \in Vax(rnd, trap, others)
    BY <1>5 DEF VaxC, VaxN, VaxUC, VaxU, VaxSC, VaxS, VaxSUC, VaxSU
  <2> QED BY <1>4, <2>1
<1> QED BY <1>1, <1>2, <1>3, <1>5 DEF AllLeaves

\* Operands are images.
LEMMA OperandType ==
  ASSUME NEW l, NEW a \in OperandsOf(l)
  PROVE  a \in Images
<1>1. a \in Operands
  BY DEF OperandsOf
<1> QED BY <1>1, OperandAssumption DEF Images

\* The modes of the kernels are chopped for /C only.
LEMMA VaxModes ==
  ASSUME NEW rnd \in {"C", "N"}
  PROVE  /\ VaxMode(FpVariantFromEncoded(rnd)).chop = (rnd = "C")
         /\ VaxMode(FpVariantFromEncoded(rnd)).chop \in BOOLEAN
BY DEF VaxMode, FpVariantFromEncoded, GetEffectiveRoundingMode

\* A result survives a store and a load, a denormal single excepted.
Reloads(fmt, r) ==
  ~(fmt = "S" /\ DenormalS(r)) => FromMemory(fmt, ToMemory(fmt, r)) = r

\* What a format holds survives a store and a load.
LEMMA ReloadsAll ==
  ASSUME NEW r
  PROVE  /\ Single(r) => Reloads("S", r)
         /\ Fits(r, F) => Reloads("F", r)
         /\ Fits(r, G) => Reloads("G", r)
         /\ Reloads("T", r)
<1>1. ASSUME Single(r) PROVE Reloads("S", r)
  <2>1. ~DenormalS(r) => ConvertSToRegister(ConvertSToMemory(r)) = r
    BY <1>1, ReloadsS DEF Single
  <2> QED BY <2>1 DEF Reloads, ToMemory, FromMemory
<1>2. ASSUME Fits(r, F) PROVE Reloads("F", r)
  <2>1. ConvertFToRegister(ConvertFToMemory(r)) = r
    BY <1>2, ReloadsF DEF Fits
  <2> QED BY <2>1 DEF Reloads, ToMemory, FromMemory
<1>3. ASSUME Fits(r, G) PROVE Reloads("G", r)
  <2>1. SwapWords(SwapWords(r)) = r
    BY <1>3, ReloadsG DEF Fits
  <2> QED BY <2>1 DEF Reloads, ToMemory, FromMemory
<1>4. Reloads("T", r)
  BY DEF Reloads, ToMemory, FromMemory
<1> QED BY <1>1, <1>2, <1>3, <1>4

\* The backend's result of a leaf, by format.
LEMMA ResultOf ==
  ASSUME NEW l, l.op \in Arith \cup {"SQRT"}, l.fmt \in {"S", "T", "F", "G"}, NEW a, NEW b, NEW dyn
  PROVE  LET v == FpVariantFromEncoded(l.rnd)
             r == Result(l, a, b, dyn)
         IN /\ l.fmt = "S" => \/ r = AddS(a, b, v, dyn) \/ r = SubS(a, b, v, dyn)
                              \/ r = MulS(a, b, v, dyn) \/ r = DivS(a, b, v, dyn)
                              \/ r = SqrtS(b, v, dyn)
            /\ l.fmt = "F" => r = VaxArith(l.op, a, b, F, v)
            /\ l.fmt = "G" => r = VaxArith(l.op, a, b, G, v)
<1> DEFINE v == FpVariantFromEncoded(l.rnd)
<1>1. l.fmt \in {"S", "T"} => Result(l, a, b, dyn) = IeeeResult(l, a, b, v, dyn)
  BY DEF Result
<1>2. l.fmt \in {"F", "G"} => Result(l, a, b, dyn) = VaxResult(l, a, b, v, dyn)
  BY DEF Result
<1>3. l.fmt = "S" => \/ IeeeResult(l, a, b, v, dyn) = AddS(a, b, v, dyn)
                     \/ IeeeResult(l, a, b, v, dyn) = SubS(a, b, v, dyn)
                     \/ IeeeResult(l, a, b, v, dyn) = MulS(a, b, v, dyn)
                     \/ IeeeResult(l, a, b, v, dyn) = DivS(a, b, v, dyn)
                     \/ IeeeResult(l, a, b, v, dyn) = SqrtS(b, v, dyn)
  <2> HIDE DEF v
  <2> QED BY DEF IeeeResult, Arith
<1>4. /\ l.fmt = "F" => VaxResult(l, a, b, v, dyn) = VaxArith(l.op, a, b, F, v)
      /\ l.fmt = "G" => VaxResult(l, a, b, v, dyn) = VaxArith(l.op, a, b, G, v)
  <2> HIDE DEF v
  <2>1. l.op \notin {"GF", "GD", "DG", "GQ", "QF", "QG"}
    BY DEF Arith
  <2>2. VaxResult(l, a, b, v, dyn) = VaxArith(l.op, a, b, IF l.fmt = "F" THEN F ELSE G, v)
    BY <2>1 DEF VaxResult
  <2> QED BY <2>2
<1> HIDE DEF v
<1> QED BY <1>1, <1>2, <1>3, <1>4 DEF v

\* The result of every arithmetic leaf survives a store and a load.
THEOREM ResultReloads ==
  ASSUME NEW l \in AllLeaves, l.op \in Arith \cup {"SQRT"},
         NEW a \in Images, NEW b \in Images, NEW dyn
  PROVE  Reloads(l.fmt, Result(l, a, b, dyn).bits)
<1> DEFINE v == FpVariantFromEncoded(l.rnd)
           r == Result(l, a, b, dyn)
<1>1. l.fmt \in {"S", "T", "F", "G"} /\ (l.fmt \in {"F", "G"} => l.rnd \in {"C", "N"})
  BY LeafType
<1>2. /\ l.fmt = "S" => \/ r = AddS(a, b, v, dyn) \/ r = SubS(a, b, v, dyn)
                        \/ r = MulS(a, b, v, dyn) \/ r = DivS(a, b, v, dyn)
                        \/ r = SqrtS(b, v, dyn)
      /\ l.fmt = "F" => r = VaxArith(l.op, a, b, F, v)
      /\ l.fmt = "G" => r = VaxArith(l.op, a, b, G, v)
  BY <1>1, ResultOf
<1>3. l.fmt \in {"F", "G"} => VaxMode(v).chop \in BOOLEAN
  BY <1>1, VaxModes
<1> HIDE DEF v, r
<1>4. CASE l.fmt = "S"
  <2>1. Single(r.bits)
    BY <1>2, <1>4, ArithSingle
  <2> QED BY <1>4, <2>1, ReloadsAll DEF r
<1>5. CASE l.fmt = "F"
  <2>1. Fits(r.bits, F)
    BY <1>2, <1>3, <1>5, VaxArithFits
  <2> QED BY <1>5, <2>1, ReloadsAll DEF r
<1>6. CASE l.fmt = "G"
  <2>1. Fits(r.bits, G)
    BY <1>2, <1>3, <1>6, VaxArithFits
  <2> QED BY <1>6, <2>1, ReloadsAll DEF r
<1>7. CASE l.fmt = "T"
  BY <1>7, ReloadsAll
<1> QED BY <1>1, <1>4, <1>5, <1>6, <1>7

\* VaxExact of an instruction i that left r.
ExactFor(i, r) ==
  LET clean == i # Absent /\ i.fmt \in {"F", "G"} /\ i.op \in Arith \cup {"SQRT"}
                /\ ~Reserved(i.a) /\ ~Reserved(i.b) IN
  clean /\ Case(i) \in Claimed /\ i.exc \cap {"DZE", "INV"} = {} =>
    LET g == IF i.fmt = "F" THEN F ELSE G
        expected == RoundedVax(Exactly(i.op, i.a, i.b), g, i.rnd = "C")
    IN IF expected = Absent THEN "OVF" \in i.exc ELSE r = expected

\* An addition or a subtraction adds the magnitudes of its operands.
AddsMagnitudes(op, a, b) == (op = "ADD" => Sign(a) = Sign(b)) /\ (op = "SUB" => Sign(a) # Sign(b))

\* A sum of magnitudes, a product and a quotient are rounded from the exact one.
LEMMA ArithRight ==
  ASSUME NEW op \in Arith, NEW a \in Images, NEW b \in Images, NEW g \in {F, G},
         NEW v, VaxMode(v).chop \in BOOLEAN,
         AddsMagnitudes(op, a, b), "DZE" \notin VaxArith(op, a, b, g, v).exc
  PROVE  Right(VaxArith(op, a, b, g, v), RoundedVax(Exactly(op, a, b), g, VaxMode(v).chop))
<1> DEFINE w == VaxMode(v)
<1>1. w.chop \in BOOLEAN
  OBVIOUS
<1>2. Sign(a) \in {0, 1} /\ Sign(b) \in {0, 1}
  BY UnpackIs
<1>3. /\ op = "ADD" => VaxArith(op, a, b, g, v) = AddSub(a, b, FALSE, g, w)
      /\ op = "SUB" => VaxArith(op, a, b, g, v) = AddSub(a, b, TRUE, g, w)
      /\ op = "MUL" => VaxArith(op, a, b, g, v) = VaxMul(a, b, g, w)
      /\ op = "DIV" => VaxArith(op, a, b, g, v) = Div(a, b, g, w)
  BY DEF VaxArith
<1> HIDE DEF w
<1>4. ASSUME op \in {"ADD", "SUB"} PROVE Right(VaxArith(op, a, b, g, v), RoundedVax(Exactly(op, a, b), g, w.chop))
  <2>1. PICK sub \in BOOLEAN : sub <=> op = "SUB"
    OBVIOUS
  <2>2. op = OpOf(sub) /\ VaxArith(op, a, b, g, v) = AddSub(a, b, sub, g, w)
    BY <1>3, <1>4, <2>1 DEF OpOf
  <2>3. Magnitudes(a, b, sub, Sign(a))
    BY <1>2, <1>4, <2>1 DEF Magnitudes, AddsMagnitudes
  <2>4. Right(AddSub(a, b, sub, g, w), RoundedVax(Exactly(OpOf(sub), a, b), g, w.chop))
    BY <1>1, <2>3, SumRight
  <2> QED BY <2>2, <2>4
<1>5. ASSUME op = "MUL" PROVE Right(VaxArith(op, a, b, g, v), RoundedVax(Exactly(op, a, b), g, w.chop))
  BY <1>1, <1>3, <1>5, MulRight
<1>6. ASSUME op = "DIV" PROVE Right(VaxArith(op, a, b, g, v), RoundedVax(Exactly(op, a, b), g, w.chop))
  <2>1. Exp(b) # 0
    <3>1. SUFFICES ASSUME Exp(b) = 0 PROVE FALSE
      OBVIOUS
    <3>2. Unpack(b).exp = 0
      BY <3>1 DEF Unpack
    <3>3. "DZE" \in Div(a, b, g, w).exc
      BY <3>2 DEF Div
    <3> QED BY <1>3, <1>6, <3>3
  <2> QED BY <1>1, <1>3, <1>6, <2>1, DivRight
<1> QED BY <1>4, <1>5, <1>6 DEF w, Arith

\* The result of every leaf is what the reference expects of it.
LEMMA ResultExact ==
  ASSUME Claimed \subseteq {"sum", "MUL", "DIV"},
         NEW l \in AllLeaves, NEW a \in Images, NEW b \in Images, NEW dyn,
         NEW i, i = [op |-> l.op, fmt |-> l.fmt, rnd |-> l.rnd, a |-> a, b |-> b,
                     exc |-> Result(l, a, b, dyn).exc]
  PROVE  ExactFor(i, Result(l, a, b, dyn).bits)
<1> DEFINE r == Result(l, a, b, dyn)
           g == IF l.fmt = "F" THEN F ELSE G
           v == FpVariantFromEncoded(l.rnd)
           expected == RoundedVax(Exactly(i.op, i.a, i.b), g, i.rnd = "C")
<1>1. i.op = l.op /\ i.fmt = l.fmt /\ i.rnd = l.rnd /\ i.a = a /\ i.b = b /\ i.exc = r.exc
  OBVIOUS
<1> HIDE DEF r
<1>2. SUFFICES ASSUME l.fmt \in {"F", "G"}, l.op \in Arith \cup {"SQRT"}, Case(i) \in Claimed, "DZE" \notin r.exc
               PROVE  IF expected = Absent THEN "OVF" \in r.exc ELSE r.bits = expected
  BY <1>1 DEF ExactFor, r
<1>3. l.rnd \in {"C", "N"} /\ l.fmt \in {"S", "T", "F", "G"}
  BY <1>2, LeafType
<1>4. r = VaxArith(l.op, a, b, g, v) /\ g \in {F, G}
  <2>1. /\ l.fmt = "F" => Result(l, a, b, dyn) = VaxArith(l.op, a, b, F, v)
        /\ l.fmt = "G" => Result(l, a, b, dyn) = VaxArith(l.op, a, b, G, v)
    BY <1>2, <1>3, ResultOf
  <2> QED BY <1>2, <2>1 DEF r
<1>5. VaxMode(v).chop = (l.rnd = "C") /\ VaxMode(v).chop \in BOOLEAN
  BY <1>3, VaxModes
<1>6. l.op \in Arith /\ AddsMagnitudes(l.op, a, b)
  <2>1. Case(i) \notin {"difference", "SQRT"}
    BY <1>2
  <2>2. l.op = "SQRT" => Case(i) = "SQRT"
    BY <1>1 DEF Case
  <2>3. l.op = "ADD" => Case(i) = IF Sign(a) = Sign(b) THEN "sum" ELSE "difference"
    BY <1>1 DEF Case
  <2>4. l.op = "SUB" => Case(i) = IF Sign(a) = Sign(b) THEN "difference" ELSE "sum"
    BY <1>1 DEF Case
  <2>5. l.op \in Arith
    BY <1>2, <2>1, <2>2
  <2>6. l.op = "ADD" => Sign(a) = Sign(b)
    BY <2>1, <2>3
  <2>7. l.op = "SUB" => Sign(a) # Sign(b)
    BY <2>1, <2>4
  <2> QED BY <2>5, <2>6, <2>7 DEF AddsMagnitudes
<1> HIDE DEF g, v
<1>7. Right(VaxArith(l.op, a, b, g, v), RoundedVax(Exactly(l.op, a, b), g, VaxMode(v).chop))
  <2>1. VaxMode(v).chop \in BOOLEAN /\ "DZE" \notin VaxArith(l.op, a, b, g, v).exc
    BY <1>2, <1>4, <1>5
  <2> QED BY <1>4, <1>6, <2>1, ArithRight
<1> QED BY <1>1, <1>4, <1>5, <1>7 DEF Right

----------------------------------------------------------------------------
(* The instruction, its result and its memory operand.                    *)

\* The operand in memory is the result's image and reloads to it; a result not
\* yet stored will.
CellReloads ==
  /\ cell # Absent => insn # Absent /\ cell.fmt = insn.fmt /\ ReloadsSame
  /\ cell = Absent /\ insn # Absent /\ insn.op \in Arith \cup {"SQRT"} => Reloads(insn.fmt, fc)
FloatInv == CellReloads /\ ExactFor(insn, fc)

\* The invariant holds at the start.
LEMMA FloatInvInit == FloatInit => FloatInv
BY DEF FloatInit, FloatInv, CellReloads, ExactFor

\* An arithmetic instruction, compare or conversion keeps the invariant.
LEMMA OperateInv ==
  ASSUME Claimed \subseteq {"sum", "MUL", "DIV"}, FloatInv,
         NEW l \in AllLeaves, NEW a \in OperandsOf(l), NEW b \in OperandsOf(l), Operate(l, a, b)
  PROVE  FloatInv'
<1> DEFINE dyn == fpcr.dyn
           r == Result(l, a, b, dyn)
           i == [op |-> l.op, fmt |-> l.fmt, rnd |-> l.rnd, a |-> a, b |-> b, exc |-> r.exc]
<1>1. insn = Absent /\ fc' = r.bits /\ insn' = i /\ cell' = cell
  BY DEF Operate
<1>2. cell' = Absent
  BY <1>1 DEF FloatInv, CellReloads
<1>3. a \in Images /\ b \in Images
  BY OperandType
<1> HIDE DEF dyn
<1>4. ExactFor(i, r.bits)
  BY <1>3, ResultExact
<1>5. l.op \in Arith \cup {"SQRT"} => Reloads(l.fmt, r.bits)
  BY <1>3, ResultReloads
<1>6. i.op = l.op /\ i.fmt = l.fmt
  OBVIOUS
<1> HIDE DEF r, i
<1>7. ExactFor(insn, fc)'
  BY <1>1, <1>4 DEF ExactFor
<1>8. CellReloads'
  BY <1>1, <1>2, <1>5, <1>6 DEF CellReloads, Reloads
<1> QED BY <1>7, <1>8 DEF FloatInv

\* A move keeps the invariant.
LEMMA MoveInv ==
  ASSUME FloatInv, NEW kind, kind \notin Arith \cup {"SQRT"},
         NEW a, NEW b, NEW value, Move(kind, a, b, value)
  PROVE  FloatInv'
<1> DEFINE i == [op |-> kind, fmt |-> "T", rnd |-> "N", a |-> a, b |-> b, exc |-> {}]
<1>1. insn = Absent /\ insn' = i /\ cell' = cell /\ i.op = kind /\ i.fmt = "T"
  BY DEF Move
<1>2. cell' = Absent
  BY <1>1 DEF FloatInv, CellReloads
<1> HIDE DEF i
<1> QED BY <1>1, <1>2 DEF FloatInv, CellReloads, ExactFor

\* A load changes only a denormal single.
LEMMA LoadInv ==
  ASSUME FloatInv, Load
  PROVE  FloatInv'
<1>1. cell # Absent /\ cell' = cell /\ insn' = insn /\ fc' = FromMemory(cell.fmt, cell.bits)
  BY DEF Load
<1>2. insn # Absent /\ cell.fmt = insn.fmt /\ ReloadsSame
  BY <1>1 DEF FloatInv, CellReloads
<1>3. ReloadsSame'
  BY <1>1 DEF ReloadsSame
<1>4. CellReloads'
  BY <1>1, <1>2, <1>3 DEF CellReloads
<1>5. fc' = fc \/ insn.fmt = "S"
  BY <1>1, <1>2 DEF ReloadsSame
<1>6. ExactFor(insn, fc)'
  BY <1>1, <1>5 DEF ExactFor, FloatInv
<1> QED BY <1>4, <1>6 DEF FloatInv

\* A store writes what reloads.
LEMMA StoreInv ==
  ASSUME FloatInv, Store
  PROVE  FloatInv'
<1> DEFINE c == [fmt |-> insn.fmt, bits |-> ToMemory(insn.fmt, fc)]
<1>1. /\ insn # Absent /\ insn.op \in Arith \cup {"SQRT"} /\ cell = Absent
      /\ cell' = c /\ insn' = insn /\ fc' = fc /\ c.fmt = insn.fmt /\ c.bits = ToMemory(insn.fmt, fc)
  BY DEF Store
<1> HIDE DEF c
<1>2. Reloads(insn.fmt, fc)
  BY <1>1 DEF FloatInv, CellReloads
<1>3. ReloadsSame'
  BY <1>1, <1>2 DEF ReloadsSame, Reloads
<1>4. CellReloads'
  BY <1>1, <1>2, <1>3 DEF CellReloads, Reloads
<1>5. ExactFor(insn, fc)'
  BY <1>1 DEF ExactFor, FloatInv
<1> QED BY <1>4, <1>5 DEF FloatInv

\* Steps that leave instruction, result and operand alone keep the invariant.
LEMMA SameInv ==
  ASSUME FloatInv, UNCHANGED <<insn, fc, cell>>
  PROVE  FloatInv'
BY DEF FloatInv, CellReloads, ReloadsSame, ExactFor, Reloads

\* Every step keeps the invariant.
LEMMA FloatInvNext ==
  ASSUME Claimed \subseteq {"sum", "MUL", "DIV"}, FloatInv, [FloatNext]_floatVars
  PROVE  FloatInv'
<1>1. ASSUME NEW l \in AllLeaves, NEW a \in OperandsOf(l), NEW b \in OperandsOf(l), Operate(l, a, b)
      PROVE  FloatInv'
  BY <1>1, OperateInv
<1>2. ASSUME NEW kind \in {"CPYS", "CPYSN", "CPYSE"}, NEW a \in Operands, NEW b \in Operands, Copy(kind, a, b)
      PROVE  FloatInv'
  BY <1>2, MoveInv DEF Copy, Arith
<1>3. ASSUME NEW kind \in {"CVTQL", "CVTLQ"}, NEW b \in Operands, MoveLong(kind, b)
      PROVE  FloatInv'
  BY <1>3, MoveInv DEF MoveLong, Arith
<1>4. ASSUME NEW test \in Tests, NEW a \in Operands, NEW b \in Operands, Fcmov(test, a, b)
      PROVE  FloatInv'
  BY <1>4, MoveInv DEF Fcmov, Arith
<1>5. ASSUME NEW dyn \in Dyns, MtFpcr(dyn)
      PROVE  FloatInv'
  BY <1>5, SameInv DEF MtFpcr
<1>6. ASSUME NEW test \in Tests, Branch(test)
      PROVE  FloatInv'
  BY <1>6, SameInv DEF Branch
<1>7. CASE UNCHANGED floatVars
  BY <1>7, SameInv DEF floatVars
<1> QED BY <1>1, <1>2, <1>3, <1>4, <1>5, <1>6, <1>7, StoreInv, LoadInv DEF FloatNext, Execute

\* The result an instruction leaves is right: a VAX sum of magnitudes, product or
\* quotient is the exact one rounded once, and every result but a denormal single
\* comes back from memory as it was stored.
THEOREM FloatAlwaysExact ==
  ASSUME Claimed \subseteq {"sum", "MUL", "DIV"}
  PROVE  FloatSpec => []FloatExact
<1>1. FloatInv => FloatExact
  BY DEF FloatInv, CellReloads, ExactFor, FloatExact, VaxExact, ReloadsSame
<1>2. FloatInv /\ [FloatNext]_floatVars => FloatInv'
  BY FloatInvNext
<1> QED BY <1>1, <1>2, FloatInvInit, PTL DEF FloatSpec
=============================================================================
