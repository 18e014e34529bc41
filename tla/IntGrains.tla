------------------------------ MODULE IntGrains ------------------------------
(* The integer grains: what each leaf of eBoxLib/grains/IntArith.cpp puts in *)
(* BoxResult.regWriteValue for the resolved operands opA and opB.  A         *)
(* quadword is a number of 8 bytes of ByteBits bits each; a longword has 4   *)
(* and a word 2 of those bytes.  Grains that differ only in an operand width *)
(* are one operator with the width in bytes as a parameter.                  *)
EXTENDS Integers, FiniteSets, FiniteSetsExt, Bitwise

CONSTANT ByteBits       \* bits in a byte; 8 in the program

Width == 8 * ByteBits
Quads == 0 .. 2^Width - 1

Mod(x) == x % 2^Width
Neg(x) == Mod(2^Width - x)
Low(v, n) == v % 2^(n * ByteBits)
Byte(v, i) == (v \div 2^(i * ByteBits)) % 2^ByteBits
OfBytes(f) == MapThenSumSet(LAMBDA i : f[i] * 2^(i * ByteBits), 0 .. 7)
Bit(v, i) == (v \div 2^i) % 2
IsNegative(v) == v >= 2^(Width - 1)
Truth(p) == IF p THEN 1 ELSE 0

\* The low n bytes of v as a two's complement number, extended to a quadword.
Sext(v, n) ==
  IF Low(v, n) >= 2^(n * ByteBits - 1)
  THEN Low(v, n) + 2^Width - 2^(n * ByteBits)
  ELSE Low(v, n)

\* ADDL, ADDQ, S4ADDx, S8ADDx and their SUB forms, k the scale.
Add(a, b, k, n) == Sext(Mod(Mod(k * a) + b), n)
Sub(a, b, k, n) == Sext(Mod(Mod(k * a) + Neg(b)), n)
Mul(a, b, n) == Sext(Low(a, n) * Low(b, n), n)
Umulh(a, b) == (a * b) \div 2^Width

Cmpult(a, b) == Truth(a < b)
Cmpule(a, b) == Truth(a <= b)
\* Signed order is unsigned order with the sign bits complemented.
Biased(v) == Mod(v + 2^(Width - 1))
Cmplt(a, b) == Truth(Biased(a) < Biased(b))
Cmple(a, b) == Truth(Biased(a) <= Biased(b))

Ones(v) == {i \in 0 .. Width - 1 : Bit(v, i) = 1}
Ctpop(v) == Cardinality(Ones(v))
Ctlz(v) == IF v = 0 THEN Width ELSE Width - 1 - Max(Ones(v))
Cttz(v) == IF v = 0 THEN Width ELSE Min(Ones(v))

AndQ(a, b) == a & b
BicQ(a, b) == a & (2^Width - 1 - b)
OrQ(a, b) == a | b
OrnotQ(a, b) == a | (2^Width - 1 - b)
XorQ(a, b) == a ^^ b
EqvQ(a, b) == 2^Width - 1 - (a ^^ b)

Sll(a, b) == Mod(a * 2^(b % Width))
Srl(a, b) == a \div 2^(b % Width)
Sra(a, b) ==
  LET s == b % Width IN
  Srl(a, s) + (IF IsNegative(a) THEN 2^Width - 2^(Width - s) ELSE 0)

\* The condition a conditional move or branch puts on Ra.
Holds(cond, a) ==
  CASE cond = "EQ" -> a = 0
    [] cond = "NE" -> a # 0
    [] cond = "LT" -> IsNegative(a)
    [] cond = "GE" -> ~IsNegative(a)
    [] cond = "LE" -> IsNegative(a) \/ a = 0
    [] cond = "GT" -> ~IsNegative(a) /\ a # 0
    [] cond = "LBC" -> a % 2 = 0
    [] cond = "LBS" -> a % 2 = 1

Offset(b) == b % 8

Cmpbge(a, b) == SumSet({2^i : i \in {j \in 0 .. 7 : Byte(a, j) >= Byte(b, j)}})
Zap(v, m) == OfBytes([i \in 0 .. 7 |-> IF Bit(m, i) = 1 THEN 0 ELSE Byte(v, i)])
Zapnot(v, m) == OfBytes([i \in 0 .. 7 |-> IF Bit(m, i) = 1 THEN Byte(v, i) ELSE 0])

Extl(v, b, n) ==
  LET o == Offset(b) IN
  OfBytes([i \in 0 .. 7 |-> IF i < n /\ i + o < 8 THEN Byte(v, i + o) ELSE 0])

Exth(v, b, n) ==
  LET o == Offset(b) IN
  OfBytes([i \in 0 .. 7 |->
             IF o # 0 /\ i < n /\ i >= 8 - o THEN Byte(v, i - (8 - o)) ELSE 0])

Insl(v, b, n) ==
  LET o == Offset(b) IN
  OfBytes([i \in 0 .. 7 |-> IF i \in o .. o + n - 1 THEN Byte(v, i - o) ELSE 0])

\* A mutant of Insh: the aligned case is not singled out, and a shift by the
\* whole width leaves the value.
InshNoGuard(v, b, n) ==
  LET o == Offset(b) IN
  IF o = 0 THEN Low(v, n) ELSE Low(v, n) \div 2^((8 - o) * ByteBits)

Insh(v, b, n) ==
  LET o == Offset(b) IN
  OfBytes([i \in 0 .. 7 |->
             IF o # 0 /\ i + 8 - o < n THEN Byte(v, i + 8 - o) ELSE 0])

Mskl(v, b, n) ==
  LET o == Offset(b) IN
  OfBytes([i \in 0 .. 7 |-> IF i \in o .. o + n - 1 THEN 0 ELSE Byte(v, i)])

Mskh(v, b, n) ==
  LET o == Offset(b) IN
  OfBytes([i \in 0 .. 7 |-> IF i + 8 < o + n THEN 0 ELSE Byte(v, i)])

\* Lane i of v, lanes n bytes wide.
Lane(v, i, n) == Low(v \div 2^(i * n * ByteBits), n)
OfLanes(f, n) == MapThenSumSet(LAMBDA i : f[i] * 2^(i * n * ByteBits), DOMAIN f)
Better(x, y, signed, n) == IF signed THEN Cmplt(Sext(x, n), Sext(y, n)) = 1 ELSE x < y

MaxLanes(a, b, signed, n) ==
  OfLanes([i \in 0 .. (8 \div n) - 1 |->
             IF Better(Lane(b, i, n), Lane(a, i, n), signed, n)
             THEN Lane(a, i, n) ELSE Lane(b, i, n)], n)

MinLanes(a, b, signed, n) ==
  OfLanes([i \in 0 .. (8 \div n) - 1 |->
             IF Better(Lane(a, i, n), Lane(b, i, n), signed, n)
             THEN Lane(a, i, n) ELSE Lane(b, i, n)], n)

Distance(x, y) == IF x >= y THEN x - y ELSE y - x
Perr(a, b) == MapThenSumSet(LAMBDA i : Distance(Byte(a, i), Byte(b, i)), 0 .. 7)

\* UNPKBW, UNPKBL: the low 8 \div n bytes, one per lane of n bytes; PKWB, PKLB
\* are the converse.
Unpk(b, n) == OfLanes([i \in 0 .. (8 \div n) - 1 |-> Byte(b, i)], n)
Pk(b, n) == OfLanes([i \in 0 .. (8 \div n) - 1 |-> Byte(b, i * n)], 1)
=============================================================================
