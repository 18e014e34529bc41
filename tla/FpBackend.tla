----------------------------- MODULE FpBackend -----------------------------
(***************************************************************************)
(* The images of floating point numbers and the operations on them.        *)
(*                                                                         *)
(* fBoxLib/grains/FpFormat.h: the images in a register and in memory.  A   *)
(* register is a number of 1 + ExpBits + FracBits bits (1 + 11 + 52 in the *)
(* code), a longword in memory one of 1 + SExpBits + SFracBits bits        *)
(* (1 + 8 + 23).                                                           *)
(*                                                                         *)
(* fpBoxLib: the operations of a grain on images, each with the qualifier  *)
(* v of the instruction and the dynamic rounding mode dyn of the FPCR,     *)
(* returning an image and the exceptions raised.  vax_float.h has the VAX  *)
(* F and G kernels, on integers: an operand is unpacked to sign, exponent  *)
(* and a fraction of FracWidth bits (64 in the code), its hidden bit on    *)
(* top and Guard zero bits (11) below; the arithmetic is modulo            *)
(* 2^FracWidth.  fp_backend_softfloat.cpp has the rest.  Berkeley          *)
(* SoftFloat is external: SfAdd ... SfToInt give its results for finite    *)
(* operands, exact and rounded once to format f.                           *)
(***************************************************************************)
EXTENDS Integers

CONSTANTS ExpBits, FracBits,    \* of T and G, and of every register image
          SExpBits, SFracBits,  \* of S and F
          Guard                 \* bits a kernel keeps below the fraction

\* The short formats lie inside the long ones, the smallest short number within
\* reach of a normal register image; a register is four words of equal width.
ASSUME WidthAssumption ==
  /\ ExpBits \in Nat /\ FracBits \in Nat /\ Guard \in Nat /\ Guard >= 2
  /\ SExpBits \in 2 .. ExpBits - 1 /\ SFracBits \in 1 .. FracBits - 1
  /\ SFracBits + 2^(SExpBits - 1) <= 2^(ExpBits - 1)
  /\ (1 + ExpBits + FracBits) % 4 = 0

----------------------------------------------------------------------------
(* The images. *)

Bits(x, low, n) == (x \div 2^low) % 2^n

RegBits == 1 + ExpBits + FracBits
Sign(r) == Bits(r, RegBits - 1, 1)
Exp(r) == Bits(r, FracBits, ExpBits)
Frac(r) == Bits(r, 0, FracBits)
Pack(s, e, f) == s * 2^(RegBits - 1) + e * 2^FracBits + f
ExpMax == 2^ExpBits - 1
Pad == FracBits - SFracBits   \* fraction bits a short format leaves zero

\* The short exponent widened: its top bit stays on top, the gap is filled with
\* the opposite of that bit; narrowed, the gap is cut out.
ExpandExp(e) ==
  LET half == 2^(SExpBits - 1) IN
  IF e >= half THEN 2^(ExpBits - 1) + (e % half) ELSE 2^(ExpBits - 1) - half + e
CollapseExp(e) == Bits(e, ExpBits - 1, 1) * 2^(SExpBits - 1) + (e % 2^(SExpBits - 1))

MemSign(m) == Bits(m, SExpBits + SFracBits, 1)
MemExp(m) == Bits(m, SFracBits, SExpBits)
MemFrac(m) == Bits(m, 0, SFracBits)
MemPack(s, e, f) == s * 2^(SExpBits + SFracBits) + e * 2^SFracBits + f
MemExpMax == 2^SExpBits - 1

ConvertSToRegister(m) ==
  IF MemExp(m) = 0 THEN Pack(MemSign(m), 0, 0)
  ELSE Pack(MemSign(m), IF MemExp(m) = MemExpMax THEN ExpMax ELSE ExpandExp(MemExp(m)),
            MemFrac(m) * 2^Pad)
ConvertSToMemory(r) ==
  IF Exp(r) = 0 THEN MemPack(Sign(r), 0, 0)
  ELSE MemPack(Sign(r), IF Exp(r) = ExpMax THEN MemExpMax ELSE CollapseExp(Exp(r)),
               Frac(r) \div 2^Pad)

\* The 7 and the 16 fraction bits are taken apart and put together again in the
\* same order, in both directions.
ConvertFToRegister(m) ==
  IF MemExp(m) = 0 THEN Pack(MemSign(m), 0, 0)
  ELSE Pack(MemSign(m), ExpandExp(MemExp(m)), MemFrac(m) * 2^Pad)
ConvertFToMemory(r) ==
  IF Exp(r) = 0 THEN MemPack(Sign(r), 0, 0)
  ELSE MemPack(Sign(r), CollapseExp(Exp(r)), Frac(r) \div 2^Pad)

\* G: the four words of the quadword in the opposite order.
SwapWords(x) ==
  LET w == RegBits \div 4
      word(i) == Bits(x, i * w, w)
  IN word(0) * 2^(3 * w) + word(1) * 2^(2 * w) + word(2) * 2^w + word(3)

\* An integer in a register, signed; and the same the other way.
Signed(x) == IF x >= 2^(RegBits - 1) THEN x - 2^RegBits ELSE x
Unsigned(n) == n % 2^RegBits

\* A longword integer in a register: its top two bits on top, the others below
\* the filled part of the exponent.
LongBits == 1 + SExpBits + SFracBits
Cvtql(q) == Bits(q, LongBits - 2, 2) * 2^(RegBits - 2) + Bits(q, 0, LongBits - 2) * 2^Pad
Cvtlq(r) ==
  LET lw == Bits(r, RegBits - 2, 2) * 2^(LongBits - 2) + Bits(r, Pad, LongBits - 2)
  IN Unsigned(IF lw >= 2^(LongBits - 1) THEN lw - 2^LongBits ELSE lw)

----------------------------------------------------------------------------
(* The VAX kernels. *)

FracWidth == FracBits + 1 + Guard
NormBit == 2^(FracWidth - 1)
Bias == 2^(ExpBits - 1)

\* VaxGeom: significant fraction bits and the exponents of the format.
G == [fracBits |-> FracBits, expHi |-> ExpMax, expLo |-> 1]
F == [fracBits |-> SFracBits,
      expHi |-> Bias + 2^(SExpBits - 1) - 1, expLo |-> Bias - 2^(SExpBits - 1) + 1]

Reserved(op) == Exp(op) = 0 /\ Sign(op) = 1
Unpack(op) ==
  IF Exp(op) = 0 THEN [sign |-> 0, exp |-> 0, frac |-> 0]
  ELSE [sign |-> Sign(op), exp |-> Exp(op), frac |-> (Frac(op) + 2^FracBits) * 2^Guard]
Invalid(ops) == IF \E op \in ops : Reserved(op) THEN {"INV"} ELSE {}

Norm(r) ==
  IF r.frac = 0 THEN [sign |-> 0, exp |-> 0, frac |-> 0]
  ELSE LET n == CHOOSE n \in 0 .. FracWidth - 1 : r.frac * 2^n \in NormBit .. 2 * NormBit - 1
       IN [r EXCEPT !.exp = @ - n, !.frac = @ * 2^n]

\* Mutant: the carry out of the rounding is lost.
RpackNoCarry(r, g, v, exc) ==
  LET shift == FracWidth - 1 - g.fracBits
      frac == (r.frac + IF v.chop THEN 0 ELSE 2^(shift - 1)) % 2^FracWidth
  IN IF r.frac = 0 \/ r.exp < g.expLo THEN [bits |-> 0, exc |-> exc]
     ELSE [bits |-> Pack(r.sign, IF r.exp > g.expHi THEN g.expHi ELSE r.exp,
                         Bits((frac \div 2^shift) * 2^shift, Guard, FracBits)),
           exc |-> exc \cup IF r.exp > g.expHi THEN {"OVF"} ELSE {}]

\* Round half up, or chop, to the format's precision; cap the exponent; flush
\* what is below the format to zero.
Rpack(r, g, v, exc) ==
  LET shift == FracWidth - 1 - g.fracBits
      sum == (r.frac + IF v.chop THEN 0 ELSE 2^(shift - 1)) % 2^FracWidth
      carry == ~v.chop /\ sum < NormBit
      frac == IF carry THEN sum \div 2 + NormBit ELSE sum
      exp == IF carry THEN r.exp + 1 ELSE r.exp
      packed == Pack(r.sign, IF exp > g.expHi THEN g.expHi ELSE exp,
                     Bits((frac \div 2^shift) * 2^shift, Guard, FracBits))
  IN CASE r.frac = 0 -> [bits |-> 0, exc |-> exc]
       [] r.frac # 0 /\ exp < g.expLo ->
            [bits |-> 0, exc |-> exc \cup IF v.underflow THEN {"UNF"} ELSE {}]
       [] OTHER -> [bits |-> packed,
                    exc |-> exc \cup IF exp > g.expHi THEN {"OVF"} ELSE {}]

\* The operand of the smaller exponent is shifted to the larger; of two that
\* differ in sign the second is then taken from the first.
AddSub(x, y, sub, g, v) ==
  LET p == Unpack(x)
      q == IF sub THEN [Unpack(y) EXCEPT !.sign = 1 - @] ELSE Unpack(y)
      a == IF p.exp < q.exp THEN q ELSE p
      b == IF p.exp < q.exp THEN p ELSE q
      small == IF a.exp - b.exp >= FracWidth THEN 0 ELSE b.frac \div 2^(a.exp - b.exp)
      sum == a.frac + small
      exc == Invalid({x, y})
  IN CASE p.exp = 0 -> Rpack(q, g, v, exc)
       [] p.exp # 0 /\ q.exp = 0 -> Rpack(p, g, v, exc)
       [] OTHER ->
            Rpack(Norm(IF a.sign # b.sign
                       THEN [a EXCEPT !.frac = (@ - small) % 2^FracWidth]
                       ELSE IF sum < 2^FracWidth THEN [a EXCEPT !.frac = sum]
                       ELSE [a EXCEPT !.frac = sum \div 2, !.exp = @ + 1]), g, v, exc)

VaxMul(x, y, g, v) ==
  LET a == Unpack(x)  b == Unpack(y)
      product == a.frac * b.frac
      large == product >= 2^(2 * FracWidth - 1)
      exp == a.exp + b.exp - Bias - 1
  IN IF a.exp = 0 \/ b.exp = 0 THEN [bits |-> 0, exc |-> Invalid({x, y})]
     ELSE Rpack(Norm([sign |-> (a.sign + b.sign) % 2,
                      exp |-> IF large THEN exp + 1 ELSE exp,
                      frac |-> product \div 2^(IF large THEN FracWidth ELSE FracWidth - 1)]),
                g, v, Invalid({x, y}))

\* prec quotient bits, the first one the integer bit, from the top of the word.
UfDiv(dvd, dvr, prec) == ((dvd * 2^(prec - 1)) \div dvr) * 2^(FracWidth - prec)

Div(x, y, g, v) ==
  LET a == Unpack(x)  b == Unpack(y) IN
  CASE b.exp = 0 -> [bits |-> 0, exc |-> Invalid({x, y}) \cup {"DZE"}]
    [] b.exp # 0 /\ a.exp = 0 -> [bits |-> 0, exc |-> Invalid({x, y})]
    [] OTHER -> Rpack(Norm([sign |-> (a.sign + b.sign) % 2,
                            exp |-> a.exp - b.exp + Bias + 1,
                            frac |-> UfDiv(a.frac \div 2, b.frac \div 2, FracBits + 3)]),
                      g, v, Invalid({x, y}))

\* The radicand is the fraction times 2^(FracWidth - 2); the root has FracWidth bits.
Sqrt(x, g, v) ==
  LET a == Unpack(x)
      odd == (a.exp - Bias - 1) % 2 = 1
      e == a.exp - Bias - 1 + IF odd THEN 1 ELSE 0
      m == IF odd THEN a.frac \div 2 ELSE a.frac
      root == CHOOSE r \in 0 .. 2^FracWidth - 1 :
                r * r <= m * 2^(FracWidth - 2) /\ (r + 1) * (r + 1) > m * 2^(FracWidth - 2)
  IN CASE a.exp = 0 -> [bits |-> 0, exc |-> Invalid({x})]
       [] a.exp # 0 /\ a.sign = 1 -> [bits |-> 0, exc |-> {"INV"}]
       [] OTHER -> Rpack(Norm([sign |-> 0, exp |-> e \div 2 + Bias + 1, frac |-> root]),
                         g, v, {})

----------------------------------------------------------------------------
\* SoftFloat.  A finite number is (-1)^sign * num * 2^e.
TBias == 2^(ExpBits - 1) - 1
SBias == 2^(SExpBits - 1) - 1
T == [frac |-> FracBits, min |-> 1 - TBias, max |-> TBias]
S == [frac |-> SFracBits, min |-> 1 - SBias, max |-> SBias]
Value(r) == [sign |-> Sign(r),
             num |-> IF Exp(r) = 0 THEN Frac(r) ELSE Frac(r) + 2^FracBits,
             e |-> (IF Exp(r) = 0 THEN 1 ELSE Exp(r)) - TBias - FracBits]
Inf(s) == Pack(s, ExpMax, 0)
NaN == Pack(0, ExpMax, 2^(FracBits - 1))
Finite(r) == Exp(r) < ExpMax
\* Spare low bits keep every quotient and root wider than a format; MaxLog2 is
\* beyond the top bit of every sum, product and quotient taken.
Spare == FracBits + 5
MaxLog2 == 2^ExpBits + 3 * FracBits + 11
Log2(n) == CHOOSE h \in 0 .. MaxLog2 : 2^h <= n /\ n < 2^(h + 1)
ISqrt(n) == CHOOSE r \in 0 .. 2^(FracBits + Spare) : r * r <= n /\ n < (r + 1) * (r + 1)

\* The image of n * 2^lsb, which fits.
Image(s, n, lsb) ==
  LET e == Log2(n) + lsb + TBias IN
  CASE n = 0 -> Pack(s, 0, 0)
    [] n # 0 /\ e >= 1 -> Pack(s, e, (n * 2^FracBits) \div 2^Log2(n) - 2^FracBits)
    [] OTHER -> Pack(s, 0, n * 2^(lsb - (1 - TBias - FracBits)))

RoundsUp(rm, s, odd, rest, half, sticky) ==
  CASE rm = "near" -> rest > half \/ (rest = half /\ (sticky \/ odd))
    [] rm = "chop" -> FALSE
    [] rm = "min"  -> s = 1 /\ (rest > 0 \/ sticky)
    [] rm = "max"  -> s = 0 /\ (rest > 0 \/ sticky)

\* q * 2^e, and a little more when sticky, rounded to f; q has spare low bits.
Round(s, q, sticky, e, f, rm) ==
  LET top == Log2(q) + e
      lsb == (IF top < f.min THEN f.min ELSE top) - f.frac
      unit == 2^(lsb - e)
      up == RoundsUp(rm, s, (q \div unit) % 2 = 1, q % unit, unit \div 2, sticky)
      n == (q \div unit) + IF up THEN 1 ELSE 0
      inexact == IF sticky \/ q % unit > 0 THEN {"INE"} ELSE {}
      away == rm = "near" \/ rm = IF s = 1 THEN "min" ELSE "max"
  IN CASE n # 0 /\ Log2(n) + lsb > f.max ->
            [bits |-> IF away THEN Inf(s) ELSE Image(s, 2^(f.frac + 1) - 1, f.max - f.frac),
             exc |-> {"OVF", "INE"}]
       [] OTHER -> [bits |-> Image(s, n, lsb),
                    exc |-> inexact \cup IF n < 2^f.frac /\ inexact # {} THEN {"UNF"} ELSE {}]

Signs(a, b) == (Sign(a) + Sign(b)) % 2
SumOf(x, y) ==   \* x + y in units of 2^e
  LET e == IF x.e < y.e THEN x.e ELSE y.e
      in_(z) == (IF z.sign = 1 THEN -1 ELSE 1) * z.num * 2^(z.e - e)
  IN [n |-> in_(x) + in_(y), e |-> e]
Sum(a, b) == SumOf(Value(a), Value(b))
Negate(r) == (r + 2^(RegBits - 1)) % 2^RegBits

SfAdd(a, b, f, rm) ==
  LET z == Sum(a, b) IN
  IF z.n = 0
  THEN [bits |-> Pack(IF Sign(a) = Sign(b) THEN Sign(a) ELSE IF rm = "min" THEN 1 ELSE 0,
                      0, 0), exc |-> {}]
  ELSE Round(IF z.n < 0 THEN 1 ELSE 0,
             (IF z.n < 0 THEN -z.n ELSE z.n) * 2^Spare, FALSE, z.e - Spare, f, rm)
SfSub(a, b, f, rm) == SfAdd(a, Negate(b), f, rm)
SfMul(a, b, f, rm) ==
  LET x == Value(a)  y == Value(b) IN
  IF x.num * y.num = 0 THEN [bits |-> Pack(Signs(a, b), 0, 0), exc |-> {}]
  ELSE Round(Signs(a, b), x.num * y.num * 2^Spare, FALSE, x.e + y.e - Spare, f, rm)
SfDiv(a, b, f, rm) ==
  LET x == Value(a)  y == Value(b)  n == x.num * 2^(2 * Spare) IN
  CASE y.num = 0 /\ x.num = 0 -> [bits |-> NaN, exc |-> {"INV"}]
    [] y.num = 0 /\ x.num # 0 -> [bits |-> Inf(Signs(a, b)), exc |-> {"DZE"}]
    [] y.num # 0 /\ x.num = 0 -> [bits |-> Pack(Signs(a, b), 0, 0), exc |-> {}]
    [] OTHER -> Round(Signs(a, b), n \div y.num, n % y.num # 0, x.e - y.e - 2 * Spare, f, rm)
SfSqrt(a, f, rm) ==
  LET x == Value(a)
      n == x.num * 2^(2 * Spare + (x.e % 2))
  IN CASE x.num = 0 -> [bits |-> a, exc |-> {}]
       [] x.num # 0 /\ x.sign = 1 -> [bits |-> NaN, exc |-> {"INV"}]
       [] OTHER -> Round(0, ISqrt(n), ISqrt(n) * ISqrt(n) # n, (x.e \div 2) - Spare, f, rm)
SfConvert(a, f, rm) ==
  IF Value(a).num = 0 THEN [bits |-> a, exc |-> {}]
  ELSE Round(Sign(a), Value(a).num * 2^Spare, FALSE, Value(a).e - Spare, f, rm)
SfFromInt(n, f, rm) ==
  IF n = 0 THEN [bits |-> 0, exc |-> {}]
  ELSE Round(IF n < 0 THEN 1 ELSE 0, (IF n < 0 THEN -n ELSE n) * 2^Spare, FALSE, -Spare, f, rm)
\* To an integer: below the unit it is rounded; out of range is invalid.
SfToInt(a, rm) ==
  LET x == Value(a)
      unit == 2^(IF x.e < 0 THEN -x.e ELSE 0)
      m == x.num * 2^(IF x.e > 0 THEN x.e ELSE 0)
      up == RoundsUp(rm, x.sign, (m \div unit) % 2 = 1, 2 * (m % unit), unit, FALSE)
      n == (IF x.sign = 1 THEN -1 ELSE 1) * ((m \div unit) + IF up THEN 1 ELSE 0)
  IN IF n \in -(2^(RegBits - 1)) .. 2^(RegBits - 1) - 1
     THEN [n |-> n, exc |-> IF m % unit = 0 THEN {} ELSE {"INE"}]
     ELSE [n |-> -(2^(RegBits - 1)), exc |-> {"INV"}]
IsNaN(r) == Exp(r) = ExpMax /\ Frac(r) # 0
Ordered(a, b) == ~IsNaN(a) /\ ~IsNaN(b)
SfLess(a, b) == Ordered(a, b) /\ Sum(a, Negate(b)).n < 0
SfEqual(a, b) == Ordered(a, b) /\ Sum(a, Negate(b)).n = 0
Signalling(r) == IsNaN(r) /\ Frac(r) < 2^(FracBits - 1)

----------------------------------------------------------------------------
\* FPVariant as fpVariantFromEncoded builds it from the rounding field of the
\* function code: the constructor leaves the flags of the single qualifiers
\* (chopped, minusInf, dynamic, underflow) false.
FpVariantFromEncoded(rnd) ==
  [mode |-> CASE rnd = "C" -> "chop" [] rnd = "M" -> "min" [] rnd = "N" -> "near"
              [] rnd = "D" -> "fpcr",
   dynamic |-> FALSE, underflow |-> FALSE]

GetEffectiveRoundingMode(v) ==
  IF v.mode # "fpcr" THEN v.mode ELSE IF v.dynamic THEN "fpcr" ELSE "near"
ResolveRm(v, dyn) ==
  IF GetEffectiveRoundingMode(v) = "fpcr" THEN dyn ELSE GetEffectiveRoundingMode(v)

AddT(a, b, v, dyn) == SfAdd(a, b, T, ResolveRm(v, dyn))
SubT(a, b, v, dyn) == SfSub(a, b, T, ResolveRm(v, dyn))
MulT(a, b, v, dyn) == SfMul(a, b, T, ResolveRm(v, dyn))
DivT(a, b, v, dyn) == SfDiv(a, b, T, ResolveRm(v, dyn))
SqrtT(a, v, dyn) == SfSqrt(a, T, ResolveRm(v, dyn))

\* S: the operands narrowed (exact for a single), one rounding in the operation,
\* the result widened exactly.
Narrow(a, v, dyn) == SfConvert(a, S, ResolveRm(v, dyn)).bits
SBinary(Op(_, _, _, _), a, b, v, dyn) ==
  Op(Narrow(a, v, dyn), Narrow(b, v, dyn), S, ResolveRm(v, dyn))
AddS(a, b, v, dyn) == SBinary(SfAdd, a, b, v, dyn)
SubS(a, b, v, dyn) == SBinary(SfSub, a, b, v, dyn)
MulS(a, b, v, dyn) == SBinary(SfMul, a, b, v, dyn)
DivS(a, b, v, dyn) == SBinary(SfDiv, a, b, v, dyn)
SqrtS(a, v, dyn) == SfSqrt(Narrow(a, v, dyn), S, ResolveRm(v, dyn))

\* Compare: 2.0 for true.  The images of G compare like those of T.
CmpTrue == Pack(0, 2^(ExpBits - 1), 0)
Compare(k, a, b) ==
  [bits |-> IF CASE k = "EQ" -> SfEqual(a, b) [] k = "LT" -> SfLess(a, b)
                 [] k = "LE" -> SfLess(a, b) \/ SfEqual(a, b) [] k = "UN" -> ~Ordered(a, b)
            THEN CmpTrue ELSE 0,
   exc |-> IF Signalling(a) \/ Signalling(b) THEN {"INV"} ELSE {}]

ToQuad(r) == [bits |-> Unsigned(r.n),
              exc |-> (r.exc \ {"INV"}) \cup IF "INV" \in r.exc THEN {"IOV"} ELSE {}]
CvtTS(a, v, dyn) == SfConvert(a, S, ResolveRm(v, dyn))
CvtST(a) == [bits |-> SfConvert(a, S, "near").bits, exc |-> {}]
CvtTQ(a, v, dyn) == ToQuad(SfToInt(a, ResolveRm(v, dyn)))
CvtQT(a, v, dyn) == SfFromInt(Signed(a), T, ResolveRm(v, dyn))
CvtQS(a, v, dyn) == SfFromInt(Signed(a), S, ResolveRm(v, dyn))

\* The VAX kernels know two modes, and the underflow flag of the variant.
VaxMode(v) == [chop |-> GetEffectiveRoundingMode(v) = "chop", underflow |-> v.underflow]
VaxArith(op, a, b, g, v) ==
  CASE op = "ADD" -> AddSub(a, b, FALSE, g, VaxMode(v))
    [] op = "SUB" -> AddSub(a, b, TRUE, g, VaxMode(v))
    [] op = "MUL" -> VaxMul(a, b, g, VaxMode(v))
    [] op = "DIV" -> Div(a, b, g, VaxMode(v))
    [] op = "SQRT" -> Sqrt(b, g, VaxMode(v))

\* VAX: an image read as T is four times its value.
VaxReserved(r) == Exp(r) = 0 /\ r # 0
ScaleExp(r, d) ==
  CASE Exp(r) = 0 -> r
    [] Exp(r) # 0 /\ Exp(r) + d <= 0 -> Pack(Sign(r), 0, 0)
    [] OTHER -> Pack(Sign(r), IF Exp(r) + d >= ExpMax THEN ExpMax - 1 ELSE Exp(r) + d, Frac(r))
\* Nearest even at the last bit of F, in the image: a carry goes to the exponent.
RoundFreg(r) ==
  LET base == r - (r % 2^Pad)
      low == r % 2^Pad
      odd == (r \div 2^Pad) % 2 = 1
      up == Exp(r) \in 1 .. ExpMax - 1 /\ (2 * low > 2^Pad \/ (2 * low = 2^Pad /\ odd))
  IN (base + IF up THEN 2^Pad ELSE 0) % 2^RegBits

CvtGF(a) == IF VaxReserved(a) THEN [bits |-> 0, exc |-> {"INV"}]
            ELSE [bits |-> RoundFreg(a), exc |-> {}]
CvtGD(a) == [bits |-> a, exc |-> {}]
CvtGQ(a, v, dyn) == IF VaxReserved(a) THEN [bits |-> 0, exc |-> {"INV"}]
                    ELSE ToQuad(SfToInt(ScaleExp(a, -2), ResolveRm(v, dyn)))
CvtQF(a, v, dyn) == LET r == SfFromInt(Signed(a), T, ResolveRm(v, dyn))
                    IN [bits |-> RoundFreg(ScaleExp(r.bits, 2)), exc |-> r.exc]
CvtQG(a, v, dyn) == LET r == SfFromInt(Signed(a), T, ResolveRm(v, dyn))
                    IN [bits |-> ScaleExp(r.bits, 2), exc |-> r.exc]
=============================================================================
