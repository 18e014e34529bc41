------------------------------ MODULE MCMemory ------------------------------
(* Memory access: the translation buffer under any PALcode, the two buffers   *)
(* of a CPU with their refill flows and context switches, and programs whose  *)
(* loads and stores go through one; and the floating point instructions.  A   *)
(* behaviour steps one of them, chosen by part.                               *)
EXTENDS MCSpam, IntGrains, FpGrains, TLC

CONSTANTS PageBytes, FrameOf, Frames, Jobs

VARIABLES part,
          job, regs, mem, held, pc, trap, cbox

Program == INSTANCE GuestProgram WITH tb <- held

programVars == <<job, regs, mem, held, pc, trap, cbox>>

-----------------------------------------------------------------------------
(* Programs for GuestProgram: the sequences compilers emit for the Alpha.     *)
(* Pages hold one quadword; virtual pages 0 and 1 lie in frames 2 and 0,      *)
(* page 2 in one that does not exist.  A byte is one bit.                     *)
Scattered == (0 :> 2) @@ (1 :> 0) @@ (2 :> 3)
Ld(a, disp) == [op |-> "LD_U", a |-> a, b |-> 1, n |-> 8, disp |-> disp]
St(a, disp) == [op |-> "ST_U", a |-> a, b |-> 1, n |-> 8, disp |-> disp]
Op(op, a, b, c) == [op |-> op, a |-> a, b |-> b, c |-> c]
OpN(op, n, a, b, c) == [op |-> op, n |-> n, a |-> a, b |-> b, c |-> c]
Half(op, high, n, a, b, c) == [op |-> op, high |-> high, n |-> n, a |-> a, b |-> b, c |-> c]
OpL(op, a, lit, c) == [op |-> op, a |-> a, lit |-> lit, c |-> c]
Scaled(op, k, n, a, b, c) == [op |-> op, k |-> k, n |-> n, a |-> a, b |-> b, c |-> c]
Lanes(op, signed, n, a, b, c) ==
  [op |-> op, signed |-> signed, n |-> n, a |-> a, b |-> b, c |-> c]
Cmov(cond, a, b, c) == [op |-> "CMOV", cond |-> cond, a |-> a, b |-> b, c |-> c]
BranchOn(cond, a, disp) == [op |-> "B", cond |-> cond, a |-> a, b |-> 31, disp |-> disp]

LoadCode(n) ==
  <<Ld(2, 0), Ld(3, n - 1), Half("EXT", FALSE, n, 2, 1, 2), Half("EXT", TRUE, n, 3, 1, 3),
    Op("BIS", 2, 3, 2)>>

StoreCode(n) ==
  <<Ld(4, n - 1), Ld(3, 0), Half("INS", TRUE, n, 2, 1, 6), Half("INS", FALSE, n, 2, 1, 5),
    Half("MSK", TRUE, n, 4, 1, 4), Half("MSK", FALSE, n, 3, 1, 3), Op("BIS", 4, 6, 4),
    Op("BIS", 3, 5, 3), St(4, n - 1), St(3, 0)>>

\* A call of strlen: skip the bytes before the string, then look for a zero a
\* quadword at a time.
StrlenCode ==
  <<[op |-> "BSR", a |-> 7, b |-> 31, disp |-> 2],
    Scaled("SUB", 1, 8, 2, 1, 2),
    BranchOn("EQ", 31, 14),
    Ld(3, 0), [op |-> "LDA", a |-> 4, b |-> 31, disp |-> 255],
    Half("INS", TRUE, 8, 4, 1, 4), OpL("BIC", 1, 7, 2), Op("BIS", 4, 3, 3),
    Op("CMPBGE", 31, 3, 4), BranchOn("NE", 4, 4),
    [op |-> "LD", a |-> 3, b |-> 2, n |-> 8, disp |-> 8],
    [op |-> "LDA", a |-> 2, b |-> 2, disp |-> 8],
    Op("CMPBGE", 31, 3, 4), BranchOn("EQ", 4, -4),
    Op("CTTZ", 31, 4, 5), Scaled("ADD", 1, 8, 2, 5, 2),
    [op |-> "RET", a |-> 31, b |-> 7]>>

WideAddCode ==
  <<Scaled("ADD", 1, 8, 2, 4, 5), Op("CMPULT", 5, 2, 6),
    Scaled("ADD", 1, 8, 1, 3, 7), Scaled("ADD", 1, 8, 7, 6, 7)>>

\* Signed high half: correct the unsigned one for each negative factor.
WideMulCode ==
  <<OpN("MUL", 8, 1, 2, 5), Op("UMULH", 1, 2, 6), Scaled("SUB", 1, 8, 6, 2, 3),
    Cmov("LT", 1, 3, 6), Scaled("SUB", 1, 8, 6, 1, 3), Cmov("LT", 2, 3, 6)>>

NormaliseCode ==
  <<Op("CTLZ", 31, 1, 2), Op("SLL", 1, 2, 3), Op("SRL", 3, 2, 4)>>

\* Two ways to one value, in registers 3 and 4, and another two in 6 and 7.
\* A longword result against the quadword one, narrowed by shifts.
NarrowCode(op, k) ==
  <<Scaled(op, k, 4, 1, 2, 3), Scaled(op, k, 8, 1, 2, 4),
    OpL("SLL", 4, Width - 4 * ByteBits, 4), OpL("SRA", 4, Width - 4 * ByteBits, 4),
    OpN("SEXT", 2, 31, 1, 6),
    OpL("SLL", 1, Width - 2 * ByteBits, 7), OpL("SRA", 7, Width - 2 * ByteBits, 7)>>

\* The byte distances of two quadwords; a byte is one bit, so CTPOP sums them.
PixelCode ==
  <<Lanes("MAX", FALSE, 1, 1, 2, 3), Lanes("MIN", FALSE, 1, 1, 2, 4),
    Op("BIC", 3, 4, 3), Op("CTPOP", 31, 3, 3), Op("PERR", 1, 2, 4),
    Lanes("MAX", TRUE, 2, 1, 2, 6), Lanes("MIN", TRUE, 2, 1, 2, 7),
    Op("XOR", 6, 7, 6), Op("XOR", 1, 2, 7)>>

RepackCode(n) ==
  <<OpN("UNPK", n, 31, 1, 2), OpN("PK", n, 31, 2, 3),
    OpL("ZAPNOT", 1, 2^(8 \div n) - 1, 4), OpL("ZAP", 1, 240, 6), OpL("ZAPNOT", 1, 15, 7)>>

LogicCode ==
  <<Op("AND", 1, 2, 3), Op("ORNOT", 31, 2, 4), Op("BIC", 1, 4, 4),
    Op("EQV", 1, 2, 6), Op("XOR", 1, 2, 7), Op("ORNOT", 31, 7, 7)>>

OrderCode ==
  <<Op("CMPLE", 1, 2, 3), Op("CMPLT", 2, 1, 4), OpL("XOR", 4, 1, 4),
    Op("CMPULE", 1, 2, 6), Op("CMPULE", 2, 1, 7), Op("AND", 6, 7, 6),
    Op("CMPEQ", 1, 2, 7)>>

ProbeCode == <<[op |-> "LD", a |-> 2, b |-> 1, n |-> 4, disp |-> 0]>>

Regs(f) == [r \in 1 .. 7 |-> IF r \in DOMAIN f THEN f[r] ELSE 0]
Zeros == [x \in 0 .. 23 |-> 0]
OneHot(x) == [Zeros EXCEPT ![x] = 1]
Ground == {Zeros, [x \in 0 .. 23 |-> 1]}
Edges == {0, 1, 2, 85, 127, 128, 129, 170, 254, 255}

Job(kind, n, code, rs, m) ==
  [kind |-> kind, n |-> n, code |-> code, regs |-> Regs(rs), mem |-> m,
   strict |-> FALSE]

LoadJobs ==
  {Job("load", n, LoadCode(n), 1 :> ea, OneHot(x)) :
     n \in {2, 4, 8}, ea \in 0 .. 8, x \in 0 .. 23}

StoreJobs ==
  {Job("store", n, StoreCode(n), (1 :> ea) @@ (2 :> v), m) :
     n \in {2, 4, 8}, ea \in 0 .. 8, v \in {170, 85, 255, 0}, m \in Ground}

StrlenJobs ==
  {Job("strlen", 8, StrlenCode, 1 :> ea, [[x \in 0 .. 23 |-> 1] EXCEPT ![z] = 0, ![7] = 0]) :
     ea \in 0 .. 7, z \in 16 .. 23}

ArithJobs ==
  UNION {{Job("wideAdd", 8, WideAddCode, (1 :> a) @@ (2 :> b) @@ (3 :> b) @@ (4 :> a), Zeros),
          Job("wideMul", 8, WideMulCode, (1 :> a) @@ (2 :> b), Zeros),
          Job("normalise", 8, NormaliseCode, 1 :> a, Zeros)}
         \union {Job("agree", 8, code, (1 :> a) @@ (2 :> b), Zeros) :
                   code \in {NarrowCode(op, k) : op \in {"ADD", "SUB", "MUL"}, k \in {1, 4, 8}}
                           \union {RepackCode(2), RepackCode(4), PixelCode, LogicCode, OrderCode}} :
           a \in Edges, b \in Edges}

PlainCode(n) == <<[op |-> "LD", a |-> 2, b |-> 1, n |-> n, disp |-> 0]>>
Plain(eas, n) ==
  {Job("plainLoad", n, PlainCode(n), 1 :> ea, OneHot(x)) : ea \in eas, x \in 0 .. 23}

\* Plain loads, misaligned too, within a page.
PlainJobs ==
  LET jobs == Plain(0 .. 7, 1) \union Plain(0 .. 6, 2) \union Plain(0 .. 4, 4)
  IN jobs \union {[j EXCEPT !.strict = TRUE] : j \in jobs}

AllJobs ==
  LoadJobs \union StoreJobs \union StrlenJobs \union ArithJobs \union PlainJobs
  \union {Job("probe", 4, ProbeCode, (1 :> 16) @@ (2 :> 9), Zeros)}

-----------------------------------------------------------------------------

MCInit ==
  /\ part \in {"buffer", "refill", "program", "float"}
  /\ Init /\ Refill!Init /\ FloatInit
  /\ IF part = "program" THEN Program!Init
     ELSE /\ job = None /\ regs = <<>> /\ mem = <<>> /\ held = {} /\ pc = 0
          /\ trap = "no program" /\ cbox = FALSE

BufferStep ==
  part = "buffer" /\ Next /\ UNCHANGED <<part, refillVars, programVars, floatVars>>
RefillStep ==
  part = "refill" /\ Refill!Next /\ UNCHANGED <<part, mgr, programVars, floatVars>>
ProgramStep ==
  part = "program" /\ Program!Next /\ UNCHANGED <<part, mgr, refillVars, floatVars>>
FloatStep ==
  part = "float" /\ FloatNext /\ UNCHANGED <<part, mgr, refillVars, programVars>>

MCSpec ==
  /\ MCInit
  /\ [][BufferStep \/ RefillStep \/ ProgramStep \/ FloatStep]_
       <<part, mgr, refillVars, programVars, floatVars>>
  /\ Refill!Fairness

(* Compiled programs compute what they are written for.                       *)
ProgramsCompute == Program!ProgramsCompute
=============================================================================
