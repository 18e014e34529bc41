------------------------------ MODULE FpGrains ------------------------------
(***************************************************************************)
(* The floating point grains: fBoxLib/grains/Float.cpp and                 *)
(* FloatVariants.cpp.  One instruction works on operands a and b, leaves   *)
(* its result in fc and folds its exceptions into the FPCR; the result is  *)
(* then stored and loaded again, or tested by a branch.                    *)
(***************************************************************************)
EXTENDS FpBackend

CONSTANTS Operands,  \* register images an instruction may find in Fa and Fb
          Dyns,      \* dynamic rounding modes the guest writes to the FPCR
          Claimed,   \* VAX operations whose results are checked
          Absent     \* no instruction, no memory operand, no branch yet

ASSUME OperandAssumption == Operands \subseteq 0 .. 2^RegBits - 1 /\ Absent \notin Int

VARIABLES insn,   \* the instruction just executed, or Absent
          fc,     \* its result register
          fpcr,   \* [exc, sum, dyn]: sticky exceptions, SUM, dynamic rounding
          cell,   \* the memory operand: [fmt, bits]
          taken   \* what a branch on fc did, or Absent

floatVars == <<insn, fc, fpcr, cell, taken>>

----------------------------------------------------------------------------
\* The leaves: one for each operation, format, rounding and trap qualifier.  All
\* qualifiers of an operation have the same body, and the trap qualifier has no
\* effect in it.
Leaves(ops, fmts, rnds, traps) == [op : ops, fmt : fmts, rnd : rnds, trap : traps]
Arith == {"ADD", "SUB", "MUL", "DIV"}
Compares == {"EQ", "LT", "LE"}
AnyRound == {"C", "M", "N", "D"}

ArithT == Leaves(Arith, {"T"}, AnyRound, {"", "U", "SU", "SUI"})
ArithS == Leaves(Arith, {"S"}, AnyRound, {"", "U", "SU", "SUI"})
CompareT == Leaves(Compares, {"T"}, {"N"}, {""})
BaseGrains == Leaves({"UN", "TS", "ST", "TQ", "QS", "QT"}, {"T"}, {"N"}, {""})
Cvtts == Leaves({"TS"}, {"T"}, AnyRound, {"", "U", "SU", "SUI"})
Cvttq == Leaves({"TQ"}, {"T"}, AnyRound, {"", "V", "SV", "SVI"})
Cvtqx == Leaves({"QS", "QT"}, {"T"}, AnyRound, {"", "SUI"})
CompareSu == Leaves(Compares \cup {"UN"}, {"T"}, {"N"}, {"SU"})
Sqrtf == Leaves({"SQRT"}, {"F"}, {"C", "N"}, {"", "U", "S", "SU"})
Sqrtg == Leaves({"SQRT"}, {"G"}, {"C", "N"}, {"", "U", "S", "SU"})
Sqrts == Leaves({"SQRT"}, {"S"}, AnyRound, {"", "U", "SU", "SUI"})
Sqrtt == Leaves({"SQRT"}, {"T"}, AnyRound, {"", "U", "SU", "SUI"})

\* VAX: the conversions from a quadword have no trap qualifier, the compares
\* only /S.
Vax(rnd, trap, others) ==
  Leaves(Arith, {"F", "G"}, {rnd}, {trap})
    \cup Leaves({"DG", "GF", "GD", "GQ"} \cup others, {"G"}, {rnd}, {trap})
VaxC == Vax("C", "", {"QF", "QG"})
VaxN == Vax("N", "", {"QF", "QG"} \cup Compares)
VaxUC == Vax("C", "U", {})
VaxU == Vax("N", "U", {})
VaxSC == Vax("C", "S", {})
VaxS == Vax("N", "S", Compares)
VaxSUC == Vax("C", "SU", {})
VaxSU == Vax("N", "SU", {})

AllLeaves ==
  ArithT \cup ArithS \cup CompareT \cup BaseGrains \cup Cvtts \cup Cvttq \cup Cvtqx
    \cup CompareSu \cup Sqrtf \cup Sqrtg \cup Sqrts \cup Sqrtt
    \cup VaxC \cup VaxN \cup VaxUC \cup VaxU \cup VaxSC \cup VaxS \cup VaxSUC \cup VaxSU

Binary(l) == l.op \in Arith \cup Compares \cup {"UN"}

\* What a leaf asks of the backend.
IeeeResult(l, a, b, v, dyn) ==
  CASE l.op = "ADD"  -> IF l.fmt = "T" THEN AddT(a, b, v, dyn) ELSE AddS(a, b, v, dyn)
    [] l.op = "SUB"  -> IF l.fmt = "T" THEN SubT(a, b, v, dyn) ELSE SubS(a, b, v, dyn)
    [] l.op = "MUL"  -> IF l.fmt = "T" THEN MulT(a, b, v, dyn) ELSE MulS(a, b, v, dyn)
    [] l.op = "DIV"  -> IF l.fmt = "T" THEN DivT(a, b, v, dyn) ELSE DivS(a, b, v, dyn)
    [] l.op = "SQRT" -> IF l.fmt = "T" THEN SqrtT(b, v, dyn) ELSE SqrtS(b, v, dyn)
    [] l.op = "TS" -> CvtTS(b, v, dyn)
    [] l.op = "ST" -> CvtST(b)
    [] l.op = "TQ" -> CvtTQ(b, v, dyn)
    [] l.op = "QT" -> CvtQT(b, v, dyn)
    [] l.op = "QS" -> CvtQS(b, v, dyn)
    [] OTHER -> Compare(l.op, a, b)
VaxResult(l, a, b, v, dyn) ==
  CASE l.op \in Arith \cup {"SQRT"} -> VaxArith(l.op, a, b, IF l.fmt = "F" THEN F ELSE G, v)
    [] l.op = "GF" -> CvtGF(b)
    [] l.op \in {"GD", "DG"} -> CvtGD(b)
    [] l.op = "GQ" -> CvtGQ(b, v, dyn)
    [] l.op = "QF" -> CvtQF(b, v, dyn)
    [] l.op = "QG" -> CvtQG(b, v, dyn)
    [] OTHER -> Compare(l.op, a, b)
Result(l, a, b, dyn) ==
  LET v == FpVariantFromEncoded(l.rnd) IN
  IF l.fmt \in {"S", "T"} THEN IeeeResult(l, a, b, v, dyn) ELSE VaxResult(l, a, b, v, dyn)

\* Operands are numbers of the format; T has them finite (SoftFloat's rules for
\* infinities and NaNs are its own), and a compare takes any image.
OperandsOf(l) ==
  CASE l.op \in Compares \cup {"UN", "QT", "QS", "QF", "QG"} -> Operands
    [] l.fmt = "S" \/ l.op = "ST" ->
         {r \in Operands : Finite(r) /\ ConvertSToRegister(ConvertSToMemory(r)) = r}
    [] l.fmt = "F" -> {r \in Operands : ConvertFToRegister(ConvertFToMemory(r)) = r}
    [] l.fmt = "T" /\ l.op \in Arith \cup {"SQRT", "TS", "TQ"} -> {r \in Operands : Finite(r)}
    [] OTHER -> Operands

----------------------------------------------------------------------------
FloatInit ==
  /\ insn = Absent /\ fc = 0 /\ cell = Absent /\ taken = Absent
  /\ fpcr = [exc |-> {}, sum |-> FALSE, dyn |-> "chop"]

FoldFpcrExc(exc) ==
  fpcr' = [fpcr EXCEPT !.exc = @ \cup exc, !.sum = fpcr.exc \cup exc # {}]

Operate(l, a, b) ==
  LET r == Result(l, a, b, fpcr.dyn) IN
  /\ insn = Absent
  /\ fc' = r.bits
  /\ FoldFpcrExc(r.exc)
  /\ insn' = [op |-> l.op, fmt |-> l.fmt, rnd |-> l.rnd, a |-> a, b |-> b, exc |-> r.exc]
  /\ UNCHANGED <<cell, taken>>

\* CPYS, CPYSN and CPYSE; the longword moves CVTQL and CVTLQ; FCMOVxx: grains that
\* raise nothing.
Move(kind, a, b, value) ==
  /\ insn = Absent
  /\ fc' = value
  /\ insn' = [op |-> kind, fmt |-> "T", rnd |-> "N", a |-> a, b |-> b, exc |-> {}]
  /\ UNCHANGED <<fpcr, cell, taken>>
CopySign(kind, a, b) ==
  CASE kind = "CPYS"  -> Pack(Sign(a), Exp(b), Frac(b))
    [] kind = "CPYSN" -> Pack(1 - Sign(a), Exp(b), Frac(b))
    [] kind = "CPYSE" -> Pack(Sign(a), Exp(a), Frac(b))
Copy(kind, a, b) == Move(kind, a, b, CopySign(kind, a, b))
MoveLong(kind, b) == Move(kind, b, b, IF kind = "CVTQL" THEN Cvtql(b) ELSE Cvtlq(b))

\* The host's comparison with 0.0: both zeros equal it, a NaN differs from it.
FpTest(test, r) ==
  LET negative == Sign(r) = 1 /\ r # Pack(1, 0, 0) /\ ~IsNaN(r)
      zero == r \in {0, Pack(1, 0, 0)}
      positive == ~negative /\ ~zero /\ ~IsNaN(r)
  IN CASE test = "EQ" -> zero [] test = "NE" -> ~zero
       [] test = "LT" -> negative [] test = "GE" -> positive \/ zero
       [] test = "LE" -> negative \/ zero [] test = "GT" -> positive
Tests == {"EQ", "NE", "LT", "GE", "LE", "GT"}
Fcmov(test, a, b) == Move("FCMOV", a, b, IF FpTest(test, a) THEN b ELSE fc)

\* FBxx on the result of a compare.
Branch(test) ==
  /\ insn # Absent /\ insn.op \in Compares /\ taken = Absent
  /\ taken' = FpTest(test, fc)
  /\ UNCHANGED <<insn, fc, fpcr, cell>>

\* STx converts, LDx is converted by formatLoadValue when the load completes.
ToMemory(fmt, r) ==
  CASE fmt = "S" -> ConvertSToMemory(r) [] fmt = "F" -> ConvertFToMemory(r)
    [] fmt = "G" -> SwapWords(r) [] fmt = "T" -> r
FromMemory(fmt, m) ==
  CASE fmt = "S" -> ConvertSToRegister(m) [] fmt = "F" -> ConvertFToRegister(m)
    [] fmt = "G" -> SwapWords(m) [] fmt = "T" -> m
Store ==
  /\ insn # Absent /\ insn.op \in Arith \cup {"SQRT"} /\ cell = Absent
  /\ cell' = [fmt |-> insn.fmt, bits |-> ToMemory(insn.fmt, fc)]
  /\ UNCHANGED <<insn, fc, fpcr, taken>>
Load ==
  /\ cell # Absent
  /\ fc' = FromMemory(cell.fmt, cell.bits)
  /\ UNCHANGED <<insn, fpcr, cell, taken>>

\* MT_FPCR writes its operand as it is.
MtFpcr(dyn) ==
  /\ insn = Absent
  /\ fpcr' = [exc |-> {}, sum |-> FALSE, dyn |-> dyn]
  /\ UNCHANGED <<insn, fc, cell, taken>>

\* The first instruction, and what follows it.
Execute ==
  \/ \E l \in AllLeaves : \E a, b \in OperandsOf(l) :
       (Binary(l) \/ a = b) /\ Operate(l, a, b)
  \/ \E kind \in {"CPYS", "CPYSN", "CPYSE"}, a, b \in Operands : Copy(kind, a, b)
  \/ \E kind \in {"CVTQL", "CVTLQ"}, b \in Operands : MoveLong(kind, b)
  \/ \E test \in Tests, a, b \in Operands : Fcmov(test, a, b)
  \/ \E dyn \in Dyns : MtFpcr(dyn)

FloatNext ==
  \/ insn = Absent /\ Execute
  \/ \E test \in Tests : Branch(test)
  \/ Store
  \/ Load

FloatSpec == FloatInit /\ [][FloatNext]_floatVars

----------------------------------------------------------------------------
(* The reference for VAX arithmetic: the exact result, rounded half up or     *)
(* chopped once, in unlimited width.  value = (-1)^s * num * 2^e; an image    *)
(* with a zero exponent is zero, whatever its fraction.                       *)
VaxValue(r) ==
  [Value(r) EXCEPT !.num = IF Exp(r) = 0 THEN 0 ELSE @, !.e = @ - 2]
Exactly(op, a, b) ==   \* [s, q, e]: the exact result, low bits beyond q cut off
  LET x == VaxValue(a)  y == VaxValue(b)
      sum == SumOf(x, IF op = "SUB" THEN [y EXCEPT !.sign = 1 - @] ELSE y)
      root == y.num * 2^(2 * Spare + (y.e % 2))
  IN CASE op \in {"ADD", "SUB"} ->
            [s |-> IF sum.n < 0 THEN 1 ELSE 0,
             q |-> (IF sum.n < 0 THEN -sum.n ELSE sum.n) * 2^Spare, e |-> sum.e - Spare]
       [] op = "MUL" -> [s |-> Signs(a, b), q |-> x.num * y.num * 2^Spare,
                         e |-> x.e + y.e - Spare]
       [] op = "DIV" -> [s |-> Signs(a, b), q |-> (x.num * 2^(2 * Spare)) \div y.num,
                         e |-> x.e - y.e - 2 * Spare]
       [] op = "SQRT" -> [s |-> 0, q |-> ISqrt(root), e |-> (y.e \div 2) - Spare]
RoundedVax(z, g, chop) ==
  LET unit == 2^(Log2(z.q) - g.fracBits)
      n == (z.q + IF chop THEN 0 ELSE unit \div 2) \div unit
      top == Log2(z.q) + z.e + IF n = 2^(g.fracBits + 1) THEN 1 ELSE 0
      frac == IF n = 2^(g.fracBits + 1) THEN 0 ELSE n - 2^g.fracBits
      exp == top + Bias + 1
  IN CASE z.q = 0 \/ exp < g.expLo -> 0
       [] z.q # 0 /\ exp > g.expHi -> Absent
       [] OTHER -> Pack(z.s, exp, frac * 2^(FracBits - g.fracBits))

(* What an addition or a subtraction does to the magnitudes.                  *)
Case(i) ==
  CASE i.op = "ADD" -> IF Sign(i.a) = Sign(i.b) THEN "sum" ELSE "difference"
    [] i.op = "SUB" -> IF Sign(i.a) = Sign(i.b) THEN "difference" ELSE "sum"
    [] OTHER -> i.op

(* VAX arithmetic gives the exact result rounded once: no carry out of the    *)
(* rounding, alignment or quotient bit is lost, and an exponent beyond the    *)
(* format is reported or flushed.                                             *)
VaxExact ==
  LET clean == insn # Absent /\ insn.fmt \in {"F", "G"} /\ insn.op \in Arith \cup {"SQRT"}
                /\ ~Reserved(insn.a) /\ ~Reserved(insn.b) IN
  clean /\ Case(insn) \in Claimed /\ insn.exc \cap {"DZE", "INV"} = {} =>
    LET g == IF insn.fmt = "F" THEN F ELSE G
        expected == RoundedVax(Exactly(insn.op, insn.a, insn.b), g, insn.rnd = "C")
    IN IF expected = Absent THEN "OVF" \in insn.exc ELSE fc = expected

(* What STx stores, LDx of the same format loads back; a single result that   *)
(* is denormal is left out.                                                   *)
DenormalS(r) == Exp(r) # 0 /\ Exp(r) < ExpandExp(1)
ReloadsSame ==
  cell # Absent /\ ~(cell.fmt = "S" /\ DenormalS(fc)) =>
    FromMemory(cell.fmt, cell.bits) = fc

(* The result an instruction leaves is right, in the register and through     *)
(* memory.                                                                    *)
FloatExact == VaxExact /\ ReloadsSame
=============================================================================
