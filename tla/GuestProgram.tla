---------------------------- MODULE GuestProgram ----------------------------
(* PipelineDriver::step for integer, load, store and branch grains: resolve  *)
(* the operands, run the leaf, drain its BoxResult (MemDrainer), retire.     *)
(* The guest runs one short program of compiled Alpha code, chosen by Jobs.  *)
(*                                                                           *)
(* Virtual page p lies in physical frame FrameOf[p]; tb is the set of pages  *)
(* the D-stream buffer holds.  A miss traps, PALcode refills and the         *)
(* instruction is run again; entries may be lost at any time.  pc counts     *)
(* instructions.                                                             *)
EXTENDS IntGrains, Sequences

CONSTANTS Jobs,         \* [kind, n, code, regs, mem, strict]: a program and its
                        \* start; strict is CpuState::unalignTrapEnabled
          PageBytes,    \* bytes in a page
          FrameOf,      \* virtual page -> physical frame, injective
          Frames,       \* the frames that exist
          None

VARIABLES job, regs, mem, tb, pc, trap, cbox
vars == <<job, regs, mem, tb, pc, trap, cbox>>

ZeroReg == 31           \* R31 reads as zero; also kNoRegWrite
Code == job.code
Reg(r) == IF r = ZeroReg THEN 0 ELSE regs[r]

\* The operands GR resolves: Rb may be a literal of an operate instruction.
OpA(g) == Reg(g.a)
OpB(g) == IF "lit" \in DOMAIN g THEN g.lit ELSE Reg(g.b)

\* The grains of a byte manipulation family: n bytes at offset Rb<2:0>, the
\* half that lies in the low or in the high quadword.
Extract(g, a, b) == IF g.high THEN Exth(a, b, g.n) ELSE Extl(a, b, g.n)
Insert(g, a, b) == IF g.high THEN Insh(a, b, g.n) ELSE Insl(a, b, g.n)
Mask(g, a, b) == IF g.high THEN Mskh(a, b, g.n) ELSE Mskl(a, b, g.n)

\* The value of an operate grain.
Alu(g, a, b) ==
  CASE g.op = "ADD" -> Add(a, b, g.k, g.n)
    [] g.op = "SUB" -> Sub(a, b, g.k, g.n)
    [] g.op = "MUL" -> Mul(a, b, g.n)
    [] g.op = "UMULH" -> Umulh(a, b)
    [] g.op = "CMPEQ" -> Truth(a = b)
    [] g.op = "CMPULT" -> Cmpult(a, b)
    [] g.op = "CMPULE" -> Cmpule(a, b)
    [] g.op = "CMPLT" -> Cmplt(a, b)
    [] g.op = "CMPLE" -> Cmple(a, b)
    [] g.op = "CTPOP" -> Ctpop(b)
    [] g.op = "CTLZ" -> Ctlz(b)
    [] g.op = "CTTZ" -> Cttz(b)
    [] g.op = "AND" -> AndQ(a, b)
    [] g.op = "BIC" -> BicQ(a, b)
    [] g.op = "BIS" -> OrQ(a, b)
    [] g.op = "ORNOT" -> OrnotQ(a, b)
    [] g.op = "XOR" -> XorQ(a, b)
    [] g.op = "EQV" -> EqvQ(a, b)
    [] g.op = "SLL" -> Sll(a, b)
    [] g.op = "SRL" -> Srl(a, b)
    [] g.op = "SRA" -> Sra(a, b)
    [] g.op = "CMPBGE" -> Cmpbge(a, b)
    [] g.op = "ZAP" -> Zap(a, b)
    [] g.op = "ZAPNOT" -> Zapnot(a, b)
    [] g.op = "EXT" -> Extract(g, a, b)
    [] g.op = "INS" -> Insert(g, a, b)
    [] g.op = "MSK" -> Mask(g, a, b)
    [] g.op = "SEXT" -> Sext(b, g.n)
    [] g.op = "MAX" -> MaxLanes(a, b, g.signed, g.n)
    [] g.op = "MIN" -> MinLanes(a, b, g.signed, g.n)
    [] g.op = "PERR" -> Perr(a, b)
    [] g.op = "UNPK" -> Unpk(b, g.n)
    [] g.op = "PK" -> Pk(b, g.n)

\* BoxResult: the register and memory effects of a leaf, and its next pc.
NoEffect(g) == [reg |-> ZeroReg, val |-> 0, size |-> 0, addr |-> 0, data |-> 0,
                store |-> FALSE, next |-> pc + 1]

Ea(g) == Mod(OpB(g) + g.disp)
Aligned(ea) == ea - (ea % 8)

Leaf(g) ==
  CASE g.op \in {"LD", "LD_U"} ->
         [NoEffect(g) EXCEPT !.reg = g.a, !.size = g.n,
            !.addr = IF g.op = "LD_U" THEN Aligned(Ea(g)) ELSE Ea(g)]
    [] g.op \in {"ST", "ST_U"} ->
         [NoEffect(g) EXCEPT !.size = g.n, !.store = TRUE, !.data = OpA(g),
            !.addr = IF g.op = "ST_U" THEN Aligned(Ea(g)) ELSE Ea(g)]
    [] g.op = "LDA" -> [NoEffect(g) EXCEPT !.reg = g.a, !.val = Ea(g)]
    [] g.op = "CMOV" ->
         [NoEffect(g) EXCEPT !.reg = IF Holds(g.cond, OpA(g)) THEN g.c ELSE ZeroReg,
                             !.val = OpB(g)]
    [] g.op = "B" ->
         [NoEffect(g) EXCEPT !.next = IF Holds(g.cond, OpA(g)) THEN pc + 1 + g.disp
                                      ELSE pc + 1]
    [] g.op = "BSR" ->
         [NoEffect(g) EXCEPT !.reg = g.a, !.val = pc + 1, !.next = pc + 1 + g.disp]
    [] g.op = "RET" ->
         [NoEffect(g) EXCEPT !.reg = g.a, !.val = pc + 1, !.next = OpB(g)]
    [] OTHER -> [NoEffect(g) EXCEPT !.reg = g.c, !.val = Alu(g, OpA(g), OpB(g))]

\* Translation of a data address: one lookup, for the first byte.
Page(va) == va \div PageBytes
PhysOf(va) == (FrameOf[Page(va)] * PageBytes) + (va % PageBytes)
Misaligned(r) == r.addr % r.size # 0
Translated(r) == Page(r.addr) \in tb
Answers(pa) == pa \div PageBytes \in Frames

\* GuestMemory reads and writes r.size consecutive physical bytes.
MemByte(pa) == IF pa \in DOMAIN mem THEN mem[pa] ELSE 0
ReadMem(pa, n) ==
  OfBytes([i \in 0 .. 7 |-> IF i < n THEN MemByte(pa + i) ELSE 0])
WriteMem(pa, n, v) ==
  [x \in DOMAIN mem |-> IF x \in pa .. pa + n - 1 THEN Byte(v, x - pa) ELSE mem[x]]

\* formatLoadValue: longwords are sign extended, bytes and words are not.
Loaded(raw, n) == IF n = 4 THEN Sext(raw, n) ELSE raw

Commit(r, v) ==
  regs' = IF r.reg = ZeroReg THEN regs ELSE [regs EXCEPT ![r.reg] = v]

Running == trap = None /\ pc \in 1 .. Len(Code)
Result == Leaf(Code[pc])

\* No memory effect: commit and advance.
Operate ==
  /\ Running
  /\ Result.size = 0
  /\ Commit(Result, Result.val)
  /\ pc' = Result.next
  /\ UNCHANGED <<job, mem, tb, trap, cbox>>

Accesses == Running /\ Result.size # 0 /\ ~(job.strict /\ Misaligned(Result))

\* A translation fault: nothing is committed, PALcode gets the address and the
\* pc to return to.
DtbMiss ==
  /\ Accesses
  /\ ~Translated(Result)
  /\ trap' = [pc |-> pc, va |-> Result.addr]
  /\ UNCHANGED <<job, regs, mem, tb, pc, cbox>>

\* UNALIGN, when the policy asks for it; the handler ends the program.
UnalignTrapTaken ==
  /\ Running
  /\ Result.size # 0
  /\ job.strict
  /\ Misaligned(Result)
  /\ trap' = [pc |-> pc, va |-> Result.addr]
  /\ pc' = 0
  /\ UNCHANGED <<job, regs, mem, tb, cbox>>

\* Nothing answers at the address: the error is latched in the CBox and the
\* handler resumes after the access.
BusError ==
  /\ Accesses
  /\ Translated(Result)
  /\ ~Answers(PhysOf(Result.addr))
  /\ cbox' = TRUE
  /\ pc' = pc + 1
  /\ UNCHANGED <<job, regs, mem, tb, trap>>

Load ==
  /\ Accesses
  /\ Translated(Result)
  /\ ~Result.store
  /\ Answers(PhysOf(Result.addr))
  /\ Commit(Result, Loaded(ReadMem(PhysOf(Result.addr), Result.size), Result.size))
  /\ pc' = Result.next
  /\ UNCHANGED <<job, mem, tb, trap, cbox>>

Store ==
  /\ Accesses
  /\ Translated(Result)
  /\ Result.store
  /\ Answers(PhysOf(Result.addr))
  /\ mem' = WriteMem(PhysOf(Result.addr), Result.size, Result.data)
  /\ pc' = Result.next
  /\ UNCHANGED <<job, regs, tb, trap, cbox>>

\* PALcode fills the buffer for the latched address and returns (external).
Refill ==
  /\ trap # None
  /\ pc # 0
  /\ tb' = tb \union {Page(trap.va)}
  /\ trap' = None
  /\ pc' = trap.pc
  /\ UNCHANGED <<job, regs, mem, cbox>>

\* A fill for some other page, or an invalidate, drops an entry.
Evict ==
  /\ \E p \in tb : tb' = tb \ {p}
  /\ UNCHANGED <<job, regs, mem, pc, trap, cbox>>

Init ==
  /\ job \in Jobs
  /\ regs = job.regs
  /\ mem = job.mem
  /\ tb = {}
  /\ pc = 1
  /\ trap = None
  /\ cbox = FALSE

Next ==
  \/ Operate \/ DtbMiss \/ UnalignTrapTaken \/ BusError \/ Load \/ Store
  \/ Refill \/ Evict

Spec == Init /\ [][Next]_vars
-----------------------------------------------------------------------------
(* What the programs are for.                                              *)
Done == trap = None /\ pc > Len(Code)

\* Byte va of a virtual address space over physical memory m.
VByte(m, va) == m[PhysOf(va)]
VBytes(m, va, n) == OfBytes([i \in 0 .. 7 |-> IF i < n THEN VByte(m, va + i) ELSE 0])
Patched(m, va, n, v) ==
  [x \in DOMAIN m |->
     IF \E i \in 0 .. n - 1 : PhysOf(va + i) = x
     THEN Byte(v, CHOOSE i \in 0 .. n - 1 : PhysOf(va + i) = x)
     ELSE m[x]]

R0(r) == job.regs[r]
Signed(v) == IF IsNegative(v) THEN v - 2^Width ELSE v

\* The distance from va to the first zero byte.
ZeroAt(m, va) == Min({i \in 0 .. 15 : va + i < 16 /\ VByte(m, va + i) = 0})

Outcome ==
  CASE job.kind = "load" -> regs[2] = VBytes(job.mem, R0(1), job.n)
    [] job.kind = "store" -> mem = Patched(job.mem, R0(1), job.n, R0(2))
    [] job.kind = "plainLoad" ->
         regs[2] = Loaded(VBytes(job.mem, R0(1), job.n), job.n)
    [] job.kind = "strlen" -> regs[2] = ZeroAt(job.mem, R0(1))
    [] job.kind = "wideAdd" ->
         regs[7] * 2^Width + regs[5]
           = (R0(1) * 2^Width + R0(2) + R0(3) * 2^Width + R0(4)) % 2^(2 * Width)
    [] job.kind = "wideMul" ->
         regs[6] * 2^Width + regs[5]
           = (Signed(R0(1)) * Signed(R0(2))) % 2^(2 * Width)
    [] job.kind = "normalise" ->
         /\ regs[4] = R0(1)
         /\ R0(1) # 0 => IsNegative(regs[3])
    [] job.kind = "agree" -> regs[3] = regs[4] /\ regs[6] = regs[7]
    [] job.kind = "probe" -> regs[2] = R0(2) /\ cbox

(* PROPERTY.  A compiled program computes what it is written for: unaligned  *)
(* quantities are loaded and stored byte for byte through LDQ_U, EXTx, INSx  *)
(* and MSKx at every offset, a string is measured from any start, double     *)
(* width sums and products are exact, two ways to compute one value agree,   *)
(* and a probe of absent memory leaves its register alone, whichever of the  *)
(* accesses miss in the translation buffer and are run again.                *)
ProgramsCompute == Done => Outcome

=============================================================================
