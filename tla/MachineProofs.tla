---------------------------- MODULE MachineProofs ----------------------------
(***************************************************************************)
(* Proofs about the run loop, for any timer period, any interrupt levels   *)
(* and masks the guest writes, any depth of nested PAL flows and any       *)
(* number of CPUs and lines, when no interrupt is injected (the injection  *)
(* of armInterruptInjection does not look at the mode).                    *)
(*                                                                         *)
(* One inductive invariant carries the mode: PALmode holds exactly while a *)
(* flow is on the stack, so an interrupt is accepted by native code only,  *)
(* every flow but the outermost is a fault inside PALcode, and bit 0 of    *)
(* EXC_ADDR says whether there is a flow to return to.                     *)
(***************************************************************************)
EXTENDS MachineTick, SequenceTheorems, TLAPS

-----------------------------------------------------------------------------
(* The stack of flows.                                                     *)

\* A stack of one flow.
LEMMA OneFlow ==
  ASSUME NEW f \in Flows
  PROVE  /\ <<f>> \in Seq(Flows) /\ <<f>> # <<>> /\ Len(<<f>>) = 1
         /\ <<f>>[1] = f /\ DOMAIN <<f>> = {1}
OBVIOUS

\* Entering a flow.
LEMMA Pushed ==
  ASSUME NEW f \in Flows, NEW s \in Seq(Flows)
  PROVE  /\ <<f>> \o s \in Seq(Flows) /\ Len(<<f>> \o s) = Len(s) + 1
         /\ <<f>> \o s # <<>>
         /\ \A i \in 1 .. Len(s) + 1 :
              (<<f>> \o s)[i] = IF i = 1 THEN f ELSE s[i - 1]
<1>1. <<f>> \in Seq(Flows) /\ Len(<<f>>) = 1 /\ <<f>>[1] = f
  OBVIOUS
<1>2. /\ <<f>> \o s \in Seq(Flows) /\ Len(<<f>> \o s) = 1 + Len(s)
      /\ \A i \in 1 .. 1 + Len(s) :
           (<<f>> \o s)[i] = IF i <= 1 THEN <<f>>[i] ELSE s[i - 1]
  BY <1>1, ConcatProperties
<1>3. Len(s) \in Nat
  OBVIOUS
<1>4. <<f>> \o s # <<>>
  BY <1>2, <1>3
<1> QED
  BY <1>1, <1>2, <1>3, <1>4

\* Returning from the innermost flow.
LEMMA Popped ==
  ASSUME NEW s \in Seq(Flows), s # <<>>
  PROVE  /\ Tail(s) \in Seq(Flows) /\ Len(s) \in Nat \ {0}
         /\ Len(Tail(s)) = Len(s) - 1
         /\ \A i \in 1 .. Len(s) - 1 : Tail(s)[i] = s[i + 1]
         /\ Head(s) = s[1] /\ s[1] \in Flows
         /\ Tail(s) = <<>> <=> Len(s) = 1
<1>1. Len(s) \in Nat \ {0} /\ Head(s) = s[1] /\ s[1] \in Flows
  BY EmptySeq
<1>2. /\ Tail(s) \in Seq(Flows) /\ Len(Tail(s)) = Len(s) - 1
      /\ \A i \in 1 .. Len(s) - 1 : Tail(s)[i] = s[i + 1]
  BY <1>1
<1>3. Tail(s) = <<>> <=> Len(s) = 1
  <2>1. \A q \in Seq(Flows) : q = <<>> <=> Len(q) = 0
    BY EmptySeq
  <2>2. Tail(s) = <<>> <=> Len(Tail(s)) = 0
    BY <1>2, <2>1
  <2> QED
    BY <1>1, <1>2, <2>2
<1> QED
  BY <1>1, <1>2, <1>3

-----------------------------------------------------------------------------
(* The mode and the stack.                                                 *)

\* Every flow but the outermost is a fault inside PALcode.
Nested == \A i \in 1 .. Len(stack) - 1 : stack[i] = "miss"

\* The mode bit and the saved mode bit, by the stack.
ModeKept ==
  /\ cpu.pal <=> stack # <<>>
  /\ stack # <<>> => (cpu.exc <=> Len(stack) > 1)

ModeInv == TypeOK /\ ~armed /\ ModeKept /\ Nested

\* A flow that is no fault inside PALcode is alone on the stack.
LEMMA Outermost ==
  ASSUME ModeInv, stack # <<>>, Top # "miss"
  PROVE  Len(stack) = 1 /\ stack[1] = Top /\ cpu.pal /\ ~cpu.exc
<1>0. stack \in Seq(Flows)
  BY DEF ModeInv, TypeOK
<1>1. stack \in Seq(Flows) /\ Len(stack) \in Nat \ {0} /\ Top = stack[1]
  BY <1>0, Popped DEF Top
<1>2. Len(stack) = 1
  <2> SUFFICES ASSUME Len(stack) # 1 PROVE FALSE
    OBVIOUS
  <2>1. 1 \in 1 .. Len(stack) - 1
    BY <1>1
  <2> QED
    BY <1>1, <2>1 DEF ModeInv, Nested
<1> QED
  BY <1>1, <1>2 DEF ModeInv, ModeKept, TypeOK, Cpu

\* The divert of a tick is for a source that is there, and in native code.
LEMMA SelectedSound ==
  ASSUME ~armed, NEW d, NEW i2, NEW due \in BOOLEAN
  PROVE  /\ Selected(d, i2, due) \in {"clk", "ip", "err", "dev", "none"}
         /\ Selected(d, i2, due) # "none" => ~cpu.pal
         /\ Selected(d, i2, due) = "clk" => 0 \in i2
         /\ Selected(d, i2, due) = "ip" => 0 \in irq3
         /\ Selected(d, i2, due) = "err" => ErrorLine \in d
BY DEF Selected, CanAcceptInterrupt, PendingIrq0

\* What the privileged-mode transitions leave of the mode.
LEMMA Transitions ==
  ASSUME NEW c \in Cpu
  PROVE  /\ EnterWithLinkage(c) \in Cpu
         /\ EnterWithLinkage(c).pal /\ EnterWithLinkage(c).exc = c.pal
         /\ HwReiStacked(c) \in Cpu /\ HwReiStacked(c).pal = c.exc
         /\ HwReiStacked(c).exc = c.exc
         /\ \A b \in BOOLEAN : /\ HwReiRegister(c, b) \in Cpu
                               /\ HwReiRegister(c, b).pal = b
                               /\ HwReiRegister(c, b).exc = c.exc
         /\ \A b \in BOOLEAN : /\ WriteICtl(c, b) \in Cpu
                               /\ WriteICtl(c, b).pal = c.pal
                               /\ WriteICtl(c, b).exc = c.exc
         /\ \A e \in EI : /\ StageInterruptDivert(c, e) \in Cpu
                          /\ StageInterruptDivert(c, e).pal
                          /\ StageInterruptDivert(c, e).exc = c.pal
<1> USE DEF Cpu, PalModeEnter, PalModeLeave, Swapped
<1>1. EnterWithLinkage(c) \in Cpu /\ EnterWithLinkage(c).pal
      /\ EnterWithLinkage(c).exc = c.pal
  BY DEF EnterWithLinkage
<1>2. /\ HwReiStacked(c) \in Cpu /\ HwReiStacked(c).pal = c.exc
      /\ HwReiStacked(c).exc = c.exc
  BY DEF HwReiStacked, SetPalMode
<1>3. ASSUME NEW b \in BOOLEAN
      PROVE  /\ HwReiRegister(c, b) \in Cpu /\ HwReiRegister(c, b).pal = b
             /\ HwReiRegister(c, b).exc = c.exc
  BY DEF HwReiRegister, SetPalMode
<1>4. ASSUME NEW b \in BOOLEAN
      PROVE  /\ WriteICtl(c, b) \in Cpu /\ WriteICtl(c, b).pal = c.pal
             /\ WriteICtl(c, b).exc = c.exc
  BY DEF WriteICtl
<1>5. ASSUME NEW e \in EI
      PROVE  /\ StageInterruptDivert(c, e) \in Cpu
             /\ StageInterruptDivert(c, e).pal
             /\ StageInterruptDivert(c, e).exc = c.pal
  BY DEF StageInterruptDivert
<1> QED
  BY <1>1, <1>2, <1>3, <1>4, <1>5 DEF Cpu

-----------------------------------------------------------------------------
(* The Cchip words.                                                        *)

\* Every handler acknowledges its own cause, and requests nothing.
LEMMA Acknowledges ==
  ASSUME NEW f \in Flows
  PROVE  /\ AckOf(f) \in MiscWrites /\ AckOf(f).ipreq = {}
         /\ AckOf(f).itintr = IF f = "clk" THEN {0} ELSE {}
         /\ AckOf(f).ipintr = IF f = "ip" THEN {0} ELSE {}
         /\ AckOf(f).nxm <=> f \in {"err", "mchk"}
<1>1. 0 \in CPUs
  BY CchipAssumption DEF CPUs
<1> QED
  BY <1>1 DEF AckOf, NoWrite, MiscWrites

\* A write of MISC by its parts.
LEMMA WriteMiscExact ==
  ASSUME TypeOK, NEW w \in MiscWrites, WriteMisc(w)
  PROVE  /\ misc' \in Misc /\ drir' \subseteq Lines
         /\ irq2' \subseteq Configured /\ irq3' \subseteq Configured
         /\ misc'.nxm <=> misc.nxm /\ ~w.nxm
         /\ misc'.itintr = misc.itintr \ w.itintr
         /\ misc'.ipintr = (misc.ipintr \ w.ipintr) \union w.ipreq
         /\ irq2' = irq2 \ w.itintr
         /\ irq3' = (irq3 \union (w.ipreq \intersect Configured)) \ w.ipintr
         /\ drir' = IF w.nxm THEN drir \ {ErrorLine} ELSE drir
<1>1. misc \in Misc /\ drir \subseteq Lines
      /\ irq2 \subseteq Configured /\ irq3 \subseteq Configured
  BY DEF TypeOK
<1>2. /\ irq2' = irq2 \ w.itintr
      /\ irq3' = (irq3 \union (w.ipreq \intersect Configured)) \ w.ipintr
      /\ drir' = IF w.nxm THEN drir \ {ErrorLine} ELSE drir
  BY DEF WriteMisc, Irq2AfterWrite, DrirAfterWrite, Irq3AfterAck,
         Irq3AfterRequest
<1>3. misc' \in Misc
  BY <1>1 DEF WriteMisc, MiscAfterWrite, Winners, Misc, MiscWrites
<1>4. /\ misc'.nxm <=> misc.nxm /\ ~w.nxm
      /\ misc'.itintr = misc.itintr \ w.itintr
      /\ misc'.ipintr = (misc.ipintr \ w.ipintr) \union w.ipreq
  BY <1>1 DEF WriteMisc, MiscAfterWrite, Misc, MiscWrites
<1> QED
  BY <1>1, <1>2, <1>3, <1>4

\* The request of an interprocessor interrupt.
LEMMA IpiWrite ==
  /\ [NoWrite EXCEPT !.ipreq = {0}] \in MiscWrites
  /\ [NoWrite EXCEPT !.ipreq = {0}].ipreq = {0}
  /\ [NoWrite EXCEPT !.ipreq = {0}].itintr = {}
  /\ [NoWrite EXCEPT !.ipreq = {0}].ipintr = {}
  /\ ~[NoWrite EXCEPT !.ipreq = {0}].nxm
<1>1. 0 \in CPUs
  BY CchipAssumption DEF CPUs
<1> QED
  BY <1>1 DEF NoWrite, MiscWrites

-----------------------------------------------------------------------------
(* The types and the mode, in one induction: that the stack stays within   *)
(* its bound needs that an interrupt is taken by native code only.         *)

\* The registers a CPU step leaves in their types.
Registers ==
  /\ misc \in Misc /\ drir \subseteq Lines
  /\ irq2 \subseteq Configured /\ irq3 \subseteq Configured
  /\ dim \subseteq Lines /\ devreq \in BOOLEAN /\ idle \in BOOLEAN

LEMMA RetiresType ==
  ASSUME ModeInv, Retires
  PROVE  /\ clock' \in 0 .. Period - 1 /\ relocated' \in BOOLEAN
         /\ armed' = armed /\ armed' \in BOOLEAN /\ phase' \in {"cpu", "tick"}
<1>1. clock \in Nat /\ Period \in Nat /\ Period > 1
  BY MachineTickAssumption DEF ModeInv, TypeOK
<1>2. (clock + 1) % Period \in 0 .. Period - 1
  BY <1>1
<1> QED
  BY <1>2 DEF Retires, ModeInv, TypeOK

\* A CPU step that leaves the mode and the stack alone.
LEMMA KeepsMode ==
  ASSUME ModeInv, Retires, Registers', UNCHANGED <<cpu, stack>>
  PROVE  ModeInv'
BY RetiresType DEF ModeInv, ModeKept, Nested, TypeOK, Registers

LEMMA OneIsNested ==
  ASSUME Len(stack') = 1
  PROVE  Nested' /\ Len(stack') <= MaxNest
BY MachineTickAssumption DEF Nested

\* A CPU step that enters PALmode from native code.
LEMMA EntersMode ==
  ASSUME ModeInv, Retires, Registers', Native, NEW f \in Flows,
         cpu' = EnterWithLinkage(cpu), stack' = <<f>>
  PROVE  ModeInv'
<1>1. cpu' \in Cpu /\ cpu'.pal /\ ~cpu'.exc
  BY Transitions DEF ModeInv, ModeKept, TypeOK, Native, Cpu
<1>2. stack' \in Seq(Flows) /\ Len(stack') = 1 /\ stack' # <<>>
  BY OneFlow
<1>3. Nested' /\ Len(stack') <= MaxNest
  BY <1>2, OneIsNested
<1> QED
  BY <1>1, <1>2, <1>3, RetiresType DEF ModeInv, ModeKept, TypeOK, Registers

\* A flow that is done and is no fault inside PALcode returns to native code.
LEMMA ReturnsAlone ==
  ASSUME ModeInv, stack # <<>>, Top # "miss",
         stack' = [stack EXCEPT ![1] = "return"]
  PROVE  stack' = <<"return">>
<1>1. Len(stack) = 1 /\ stack \in Seq(Flows)
  BY Outermost DEF ModeInv, TypeOK
<1>2. stack' \in Seq(Flows) /\ Len(stack') = 1 /\ stack'[1] = "return"
  BY <1>1, ExceptSeq DEF Flows
<1>3. <<"return">> \in Seq(Flows) /\ Len(<<"return">>) = 1
      /\ <<"return">>[1] = "return"
  BY OneFlow DEF Flows
<1> QED
  BY <1>2, <1>3, SeqEqual

\* A step of PALcode that rewrites the innermost flow.
LEMMA RewritesTop ==
  ASSUME ModeInv, Retires, Registers', stack # <<>>, Top # "miss",
         cpu' \in Cpu, cpu'.pal = cpu.pal, cpu'.exc = cpu.exc,
         stack' = [stack EXCEPT ![1] = "return"]
  PROVE  ModeInv'
<1>1. Len(stack) = 1 /\ cpu.pal /\ ~cpu.exc /\ stack \in Seq(Flows)
  BY Outermost DEF ModeInv, TypeOK
<1>2. stack' = <<"return">>
  BY ReturnsAlone
<1>3. stack' \in Seq(Flows) /\ Len(stack') = 1 /\ stack' # <<>>
  BY <1>2, OneFlow DEF Flows
<1>4. Nested' /\ Len(stack') <= MaxNest
  BY <1>3, OneIsNested
<1>5. ModeKept'
  <2>1. cpu'.pal /\ ~cpu'.exc
    BY <1>1, Zenon
  <2>2. \A n : n = 1 => ~(n > 1)
    OBVIOUS
  <2> QED
    BY <1>3, <2>1, <2>2, Zenon DEF ModeKept
<1>6. TypeOK' /\ ~armed'
  BY <1>3, <1>4, RetiresType DEF ModeInv, TypeOK, Registers
<1> QED
  BY <1>4, <1>5, <1>6 DEF ModeInv

LEMMA NestedTrapKeepsMode ==
  ASSUME ModeInv, NestedTrap
  PROVE  ModeInv'
<1>1. /\ Retires /\ stack \in Seq(Flows) /\ stack # <<>> /\ "miss" \in Flows
      /\ stack' = <<"miss">> \o stack /\ cpu \in Cpu
      /\ cpu' = EnterWithLinkage(cpu) /\ Len(stack) < MaxNest
  BY DEF NestedTrap, ModeInv, TypeOK, Flows
<1>2. Len(stack) \in Nat \ {0} /\ MaxNest \in Nat
  BY <1>1, Popped, MachineTickAssumption
<1>3. /\ stack' \in Seq(Flows) /\ Len(stack') = Len(stack) + 1 /\ stack' # <<>>
      /\ \A i \in 1 .. Len(stack) + 1 :
           stack'[i] = IF i = 1 THEN "miss" ELSE stack[i - 1]
  BY <1>1, Pushed
<1>4. cpu' \in Cpu /\ cpu'.pal /\ cpu'.exc
  BY <1>1, Transitions DEF ModeInv, ModeKept, Cpu
<1>5. ASSUME NEW i \in 1 .. Len(stack') - 1 PROVE stack'[i] = "miss"
  <2>1. i = 1 \/ i - 1 \in 1 .. Len(stack) - 1
    BY <1>2, <1>3
  <2>2. i \in 1 .. Len(stack) + 1
    BY <1>2, <1>3
  <2> QED
    BY <1>3, <2>1, <2>2 DEF ModeInv, Nested
<1>6. Len(stack') <= MaxNest /\ Len(stack') > 1
  BY <1>1, <1>2, <1>3
<1>7. Registers'
  BY DEF NestedTrap, ModeInv, TypeOK, Registers, cchip
<1>8. ModeKept' /\ Nested'
  BY <1>3, <1>4, <1>5, <1>6 DEF ModeKept, Nested
<1> QED
  BY <1>1, <1>3, <1>4, <1>6, <1>7, <1>8, RetiresType
  DEF ModeInv, TypeOK, Registers

\* PALcode puts a saved mode bit back into EXC_ADDR.
LEMMA SavedMode ==
  ASSUME NEW c \in Cpu, NEW b \in BOOLEAN
  PROVE  /\ [c EXCEPT !.exc = b] \in Cpu /\ [c EXCEPT !.exc = b].pal = c.pal
         /\ [c EXCEPT !.exc = b].exc = b
BY DEF Cpu

LEMMA HwReiKeepsMode ==
  ASSUME ModeInv, HwRei
  PROVE  ModeInv'
<1>1. /\ Retires /\ stack \in Seq(Flows) /\ stack # <<>>
      /\ stack' = Tail(stack) /\ cpu \in Cpu
      /\ Len(stack) <= MaxNest /\ MaxNest \in Nat
  BY MachineTickAssumption DEF HwRei, ModeInv, TypeOK
<1>2. /\ Len(stack) \in Nat \ {0} /\ stack' \in Seq(Flows)
      /\ Len(stack') = Len(stack) - 1
      /\ \A i \in 1 .. Len(stack) - 1 : stack'[i] = stack[i + 1]
      /\ stack' = <<>> <=> Len(stack) = 1
  BY <1>1, Popped
<1>3. Nested'
  <2> SUFFICES ASSUME NEW i \in 1 .. Len(stack') - 1 PROVE stack'[i] = "miss"
    BY DEF Nested
  <2>1. i \in 1 .. Len(stack) - 1 /\ i + 1 \in 1 .. Len(stack) - 1
    BY <1>2
  <2> QED
    BY <1>2, <2>1 DEF ModeInv, Nested
<1>4. cpu.pal /\ cpu.pal \in BOOLEAN /\ (cpu.exc <=> Len(stack) > 1)
  BY <1>1 DEF ModeInv, ModeKept, Cpu
<1>5. ASSUME Top = "miss" /\ Len(stack) > 1 PROVE cpu' \in Cpu /\ ModeKept'
  <2>1. cpu' = [HwReiRegister(cpu, TRUE) EXCEPT !.exc = Len(stack) > 2]
    BY <1>5 DEF HwRei
  <2>2. HwReiRegister(cpu, TRUE) \in Cpu /\ HwReiRegister(cpu, TRUE).pal
    BY <1>1, Transitions
  <2>3. cpu' \in Cpu /\ cpu'.pal /\ (cpu'.exc <=> Len(stack) > 2)
    <3> DEFINE deep == Len(stack) > 2
    <3>1. deep \in BOOLEAN /\ (deep <=> Len(stack) > 2)
      OBVIOUS
    <3>2. cpu' = [HwReiRegister(cpu, TRUE) EXCEPT !.exc = deep]
      BY <2>1, Zenon
    <3> HIDE DEF deep
    <3> QED
      BY <2>2, <3>1, <3>2, SavedMode
  <2>4. stack' # <<>> /\ (Len(stack') > 1 <=> Len(stack) > 2)
    BY <1>2, <1>5
  <2> QED
    BY <2>3, <2>4 DEF ModeKept
<1>6. ASSUME ~(Top = "miss" /\ Len(stack) > 1) PROVE cpu' \in Cpu /\ ModeKept'
  <2>1. Len(stack) = 1
    BY <1>1, <1>2, <1>6, Outermost
  <2>2. cpu' = HwReiStacked(cpu)
    BY <1>6 DEF HwRei
  <2>3. cpu' \in Cpu /\ ~cpu'.pal
    BY <1>1, <1>4, <2>1, <2>2, Transitions
  <2> QED
    BY <1>2, <2>1, <2>3 DEF ModeKept
<1>7. Len(stack') <= MaxNest
  BY <1>1, <1>2
<1>8. Registers'
  BY DEF HwRei, ModeInv, TypeOK, Registers, cchip
<1> QED
  BY <1>1, <1>2, <1>3, <1>5, <1>6, <1>7, <1>8, RetiresType
  DEF ModeInv, TypeOK, Registers

LEMMA EnterConsoleKeepsMode ==
  ASSUME ModeInv, EnterConsole
  PROVE  ModeInv'
<1>1. /\ cpu \in Cpu /\ cpu' = HwReiRegister(cpu, FALSE)
      /\ clock \in Nat /\ Period \in Nat /\ Period > 1
      /\ clock' = (clock + 1) % Period
  BY MachineTickAssumption DEF EnterConsole, ModeInv, TypeOK
<1>2. cpu' \in Cpu /\ ~cpu'.pal
  BY <1>1, Transitions
<1>3. clock' \in 0 .. Period - 1
  BY <1>1
<1>4. stack' = <<>> /\ stack' \in Seq(Flows) /\ Len(stack') = 0
  BY EmptySeq DEF EnterConsole
<1>5. Len(stack') <= MaxNest /\ Nested'
  BY <1>4, MachineTickAssumption DEF Nested
<1>6. /\ Registers' /\ phase' \in {"cpu", "tick"} /\ relocated' \in BOOLEAN
      /\ armed' = armed
  BY DEF EnterConsole, ModeInv, TypeOK, Registers, cchip
<1> QED
  BY <1>2, <1>3, <1>4, <1>5, <1>6 DEF ModeInv, ModeKept, TypeOK, Registers

\* What a tick leaves, whatever it diverts for.
LEMMA TickExact ==
  ASSUME ModeInv, NEW rises \in BOOLEAN, NEW due \in BOOLEAN,
         SystemTick(rises, due)
  PROVE  \E s \in {"clk", "ip", "err", "dev", "none"} :
           /\ misc' \in Misc /\ clock' \in 0 .. Period - 1
           /\ drir' \subseteq Lines /\ devreq' \in BOOLEAN
           /\ irq2' \subseteq Configured /\ irq3' \subseteq Configured
           /\ misc'.nxm = misc.nxm /\ misc'.ipintr = misc.ipintr
           /\ irq2 \subseteq misc.itintr => irq2' \subseteq misc'.itintr
           /\ misc.itintr \subseteq misc'.itintr
           /\ irq3' \subseteq irq3
           /\ ErrorLine \in drir' <=> ErrorLine \in drir
           /\ s # "none" => ~cpu.pal
           /\ s = "clk" /\ irq2 \subseteq misc.itintr => 0 \in misc'.itintr
           /\ s = "ip" => 0 \in irq3
           /\ s = "err" => ErrorLine \in drir
           /\ ~armed'
           /\ IF s = "none" THEN UNCHANGED <<cpu, stack>>
              ELSE /\ cpu' = StageInterruptDivert(cpu, CauseBit[s])
                   /\ stack' = <<s>> \o stack
<1> DEFINE d == IF devreq \/ rises THEN drir \union DevLines ELSE drir \ DevLines
           i2 == irq2 \union Fired(Warped)
           s == Selected(d, i2, due)
<1>1. /\ misc \in Misc /\ drir \subseteq Lines /\ devreq \in BOOLEAN
      /\ irq2 \subseteq Configured /\ irq3 \subseteq Configured
      /\ clock \in 0 .. Period - 1 /\ ~armed
  BY DEF ModeInv, TypeOK
<1>2. /\ devreq' = (devreq \/ rises) /\ drir' = d /\ clock' = Warped
      /\ misc' = [misc EXCEPT !.itintr = @ \union Fired(Warped)]
      /\ irq2' = (IF s = "clk" THEN i2 \ {0} ELSE i2)
      /\ irq3' = (IF s = "ip" THEN irq3 \ {0} ELSE irq3)
      /\ armed' = (armed /\ s # "inject")
      /\ IF s = "none" THEN UNCHANGED <<cpu, stack>>
         ELSE /\ cpu' = StageInterruptDivert(cpu, CauseBit[s])
              /\ stack' = <<s>> \o stack
  BY DEF SystemTick
<1>3. /\ s \in {"clk", "ip", "err", "dev", "none"}
      /\ s # "none" => ~cpu.pal
      /\ s = "clk" => 0 \in i2
      /\ s = "ip" => 0 \in irq3
      /\ s = "err" => ErrorLine \in d
  BY <1>1, SelectedSound
<1>4. ErrorLine \in d <=> ErrorLine \in drir
  BY CchipAssumption
<1>5. d \subseteq Lines
  BY <1>1 DEF Lines
<1>6. Fired(Warped) \subseteq Configured /\ Configured \subseteq CPUs
  BY DEF Fired, Configured
<1>7. Warped \in 0 .. Period - 1
  BY <1>1, MachineTickAssumption DEF Warped
<1> HIDE DEF d, s
<1>8. /\ misc' \in Misc /\ misc'.itintr = misc.itintr \union Fired(Warped)
      /\ misc'.nxm = misc.nxm /\ misc'.ipintr = misc.ipintr
  BY <1>1, <1>2, <1>6 DEF Misc
<1>9. irq2' \subseteq i2 /\ irq3' \subseteq irq3 /\ ~armed' /\ devreq' \in BOOLEAN
  BY <1>1, <1>2
<1>10. irq2' \subseteq Configured /\ irq3' \subseteq Configured
  BY <1>1, <1>6, <1>9
<1> USE <1>3
<1> WITNESS s \in {"clk", "ip", "err", "dev", "none"}
<1> QED
  BY <1>2, <1>3, <1>4, <1>5, <1>7, <1>8, <1>9, <1>10

LEMMA TickKeepsMode ==
  ASSUME ModeInv, Tick
  PROVE  ModeInv'
<1>1. PICK rises \in BOOLEAN, due \in BOOLEAN : SystemTick(rises, due)
  BY DEF Tick
<1>2. /\ phase' \in {"cpu", "tick"} /\ dim' = dim /\ idle' = idle
      /\ relocated' = relocated
  BY <1>1 DEF SystemTick
<1>3. PICK s \in {"clk", "ip", "err", "dev", "none"} :
           /\ misc' \in Misc /\ clock' \in 0 .. Period - 1
           /\ drir' \subseteq Lines /\ devreq' \in BOOLEAN
           /\ irq2' \subseteq Configured /\ irq3' \subseteq Configured
           /\ s # "none" => ~cpu.pal
           /\ ~armed'
           /\ IF s = "none" THEN UNCHANGED <<cpu, stack>>
              ELSE /\ cpu' = StageInterruptDivert(cpu, CauseBit[s])
                   /\ stack' = <<s>> \o stack
  BY <1>1, TickExact
<1>4. armed' \in BOOLEAN
  BY <1>1 DEF SystemTick
<1>5. CASE s = "none"
  BY <1>2, <1>3, <1>4, <1>5 DEF ModeInv, ModeKept, Nested, TypeOK
<1>6. CASE s # "none"
  <2>1. cpu \in Cpu /\ ~cpu.pal /\ stack = <<>> /\ s \in Flows
    BY <1>3, <1>6 DEF ModeInv, ModeKept, TypeOK, Flows
  <2>2. CauseBit[s] \in EI
    BY <1>6 DEF CauseBit, EI
  <2>3. cpu' \in Cpu /\ cpu'.pal /\ ~cpu'.exc
    BY <1>3, <1>6, <2>1, <2>2, Transitions
  <2>4. stack' \in Seq(Flows) /\ Len(stack') = 1 /\ stack' # <<>>
    <3>1. stack \in Seq(Flows) /\ Len(stack) = 0
      BY <2>1, EmptySeq
    <3>2. stack' = <<s>> \o stack
      BY <1>3, <1>6
    <3> QED
      BY <2>1, <3>1, <3>2, Pushed
  <2>5. Nested' /\ Len(stack') <= MaxNest
    BY <2>4, OneIsNested
  <2> QED
    BY <1>2, <1>3, <1>4, <2>3, <2>4, <2>5 DEF ModeInv, ModeKept, TypeOK
<1> QED
  BY <1>5, <1>6

LEMMA KernelKeepsMode ==
  ASSUME ModeInv, Kernel
  PROVE  ModeInv'
<1>0. Registers /\ cpu \in Cpu
  BY DEF ModeInv, TypeOK, Registers
<1>1. ASSUME NEW b \in BOOLEAN, Compute(b) PROVE ModeInv'
  BY <1>0, <1>1, KeepsMode DEF Compute, Registers, cchip
<1>2. ASSUME NEW f \in {"callpal", "miss"}, EnterPal(f) PROVE ModeInv'
  <2>1. Registers' /\ f \in Flows
    BY <1>0, <1>2 DEF EnterPal, Registers, cchip, Flows
  <2> QED
    BY <1>2, <2>1, EntersMode DEF EnterPal
<1>3. CASE NestedTrap
  BY <1>3, NestedTrapKeepsMode
<1>4. ASSUME NEW src \in Sources, UnclaimedAccess(src) PROVE ModeInv'
  <2>1. Registers'
    <3>1. MiscAfterNxm(misc, src) \in Misc
      BY <1>0 DEF Registers, MiscAfterNxm, Misc
    <3> QED
      BY <1>0, <1>4, <3>1 DEF UnclaimedAccess, Registers, Lines
  <2>2. "mchk" \in Flows
    BY DEF Flows
  <2> QED
    BY <1>4, <2>1, <2>2, EntersMode DEF UnclaimedAccess
<1>5. CASE PollClock
  <2>1. AckOf("clk") \in MiscWrites /\ TypeOK
    BY Acknowledges DEF Flows, ModeInv
  <2>2. Registers'
    BY <1>0, <1>5, <2>1, WriteMiscExact DEF PollClock, Registers
  <2> QED
    BY <1>5, <2>2, KeepsMode DEF PollClock
<1>6. CASE SendIpi
  <2>1. Registers'
    BY <1>0, <1>6, IpiWrite, WriteMiscExact DEF SendIpi, Registers, ModeInv
  <2> QED
    BY <1>6, <2>1, KeepsMode DEF SendIpi
<1>7. ASSUME NEW d \in DimChoices, WriteDim(d) PROVE ModeInv'
  <2>1. Registers'
    BY <1>0, <1>7, MachineTickAssumption DEF WriteDim, Registers, cchip
  <2> QED
    BY <1>7, <2>1, KeepsMode DEF WriteDim
<1>8. CASE Handle
  <2>1. Top \in Flows /\ Top # "miss" /\ TypeOK /\ stack # <<>>
    BY <1>8 DEF Handle, Flows, ModeInv
  <2>2. AckOf(Top) \in MiscWrites
    BY <2>1, Acknowledges
  <2>3. devreq' \in BOOLEAN
    BY <1>8 DEF Handle
  <2>4. Registers'
    BY <1>0, <1>8, <2>1, <2>2, <2>3, WriteMiscExact DEF Handle, Registers
  <2> QED
    BY <1>0, <1>8, <2>1, <2>4, RewritesTop DEF Handle
<1>9. ASSUME NEW s \in IerChoices, WriteIer(s) PROVE ModeInv'
  <2>1. Registers' /\ Top # "miss"
    BY <1>0, <1>9 DEF WriteIer, Registers, cchip
  <2>2. cpu' \in Cpu /\ cpu'.pal = cpu.pal /\ cpu'.exc = cpu.exc
    BY <1>0, <1>9, MachineTickAssumption DEF WriteIer, Cpu
  <2> QED
    BY <1>9, <2>1, <2>2, RewritesTop DEF WriteIer
<1>10. CASE ToggleSde
  <2>1. PICK b \in BOOLEAN : cpu' = WriteICtl(cpu, b)
    BY <1>10 DEF ToggleSde
  <2>2. cpu' \in Cpu /\ cpu'.pal = cpu.pal /\ cpu'.exc = cpu.exc
    BY <1>0, <2>1, Transitions
  <2>3. Registers' /\ stack' = stack /\ Retires
    BY <1>0, <1>10 DEF ToggleSde, Registers, cchip
  <2> QED
    BY <2>2, <2>3, RetiresType DEF ModeInv, ModeKept, Nested, TypeOK, Registers
<1>11. CASE HwRei
  BY <1>11, HwReiKeepsMode
<1>12. CASE EnterConsole
  BY <1>12, EnterConsoleKeepsMode
<1>13. CASE BootCompute
  BY <1>0, <1>13, KeepsMode DEF BootCompute, Registers, cchip
<1> QED
  BY <1>1, <1>2, <1>3, <1>4, <1>5, <1>6, <1>7, <1>8, <1>9, <1>10, <1>11,
     <1>12, <1>13 DEF Kernel

(* The types and the mode, through every CPU step and every tick.          *)
LEMMA ModeInvariant ==
  ASSUME ~Inject
  PROVE  Spec => []ModeInv
<1>1. Init => ModeInv
  <2> SUFFICES ASSUME Init PROVE ModeInv
    OBVIOUS
  <2>1. stack = <<"boot">> /\ "boot" \in Flows
    BY DEF Init, Flows
  <2>2. stack \in Seq(Flows) /\ Len(stack) = 1 /\ stack # <<>>
    BY <2>1, OneFlow
  <2>3. Nested /\ Len(stack) <= MaxNest
    BY <2>2, MachineTickAssumption DEF Nested
  <2>4. misc \in Misc
    BY DEF Init, MiscReset, Misc
  <2>5. cpu \in Cpu /\ cpu.pal /\ ~cpu.exc
    BY DEF Init, Cpu, EI
  <2>6. clock \in 0 .. Period - 1
    BY MachineTickAssumption DEF Init
  <2>7. ~armed /\ armed \in BOOLEAN
    BY MachineTickAssumption DEF Init
  <2>8. /\ drir \subseteq Lines /\ irq2 \subseteq Configured
        /\ irq3 \subseteq Configured /\ dim \subseteq Lines
        /\ devreq \in BOOLEAN /\ idle \in BOOLEAN /\ relocated \in BOOLEAN
        /\ phase \in {"cpu", "tick"}
    BY DEF Init
  <2>9. TypeOK
    BY <2>2, <2>3, <2>4, <2>5, <2>6, <2>7, <2>8 DEF TypeOK
  <2>10. ModeKept
    BY <2>2, <2>5 DEF ModeKept
  <2> QED
    BY <2>3, <2>7, <2>9, <2>10 DEF ModeInv
<1>2. ModeInv /\ [Next]_vars => ModeInv'
  <2> SUFFICES ASSUME ModeInv, [Next]_vars PROVE ModeInv'
    OBVIOUS
  <2>1. CASE UNCHANGED vars
    BY <2>1 DEF vars, ModeInv, ModeKept, Nested, TypeOK
  <2> QED
    BY <2>1, KernelKeepsMode, TickKeepsMode DEF Next
<1> QED
  BY <1>1, <1>2, PTL DEF Spec

(* Every register of the run loop keeps its type, and the PAL flows never  *)
(* stack deeper than the guest's own faults make them: a tick pushes a     *)
(* flow on the empty stack only.                                           *)
THEOREM TypeCorrect ==
  ASSUME ~Inject
  PROVE  Spec => []TypeOK
<1>1. ModeInv => TypeOK
  BY DEF ModeInv
<1> QED
  BY <1>1, ModeInvariant, PTL

(* systemTick never diverts the CPU inside PALcode, so EXC_ADDR always     *)
(* leads back to the code that the running flow interrupted, and the mode  *)
(* bit is up exactly while a flow runs (canAcceptInterrupt, hw_rei).       *)
THEOREM ReturnAddressIsKept ==
  ASSUME ~Inject
  PROVE  Spec => []ReturnAddressKept
<1>1. ModeInv => ReturnAddressKept
  BY DEF ModeInv, ModeKept, ReturnAddressKept, Native
<1> QED
  BY <1>1, ModeInvariant, PTL

-----------------------------------------------------------------------------
(* The shadow registers.                                                   *)

InStep(c) == c.bank = "shadow" <=> c.pal /\ c.sde

\* Every transition keeps the bank in step; a divert does for native code.
LEMMA TransitionsInStep ==
  ASSUME NEW c \in Cpu, InStep(c)
  PROVE  /\ InStep(EnterWithLinkage(c)) /\ InStep(HwReiStacked(c))
         /\ \A b \in BOOLEAN : InStep(HwReiRegister(c, b))
         /\ \A b \in BOOLEAN : InStep(WriteICtl(c, b))
         /\ ~c.pal => \A e \in EI : InStep(StageInterruptDivert(c, e))
<1> USE DEF Cpu, InStep, PalModeEnter, PalModeLeave, Swapped
<1>1. InStep(EnterWithLinkage(c))
  BY DEF EnterWithLinkage
<1>2. InStep(HwReiStacked(c))
  BY DEF HwReiStacked, SetPalMode
<1>3. ASSUME NEW b \in BOOLEAN PROVE InStep(HwReiRegister(c, b))
  BY DEF HwReiRegister, SetPalMode
<1>4. ASSUME NEW b \in BOOLEAN PROVE InStep(WriteICtl(c, b))
  BY DEF WriteICtl
<1>5. ASSUME NEW e \in EI, ~c.pal PROVE InStep(StageInterruptDivert(c, e))
  BY <1>5 DEF StageInterruptDivert
<1> HIDE DEF InStep
<1> QED
  BY <1>1, <1>2, <1>3, <1>4, <1>5

(* The live registers are the shadow bank exactly in PALmode with SDE on:  *)
(* CALL_PAL, traps at any depth, diverts, both forms of HW_REI and SDE     *)
(* edges swap in step, because a divert finds the CPU in native mode.      *)
THEOREM BankIsInStep ==
  ASSUME ~Inject
  PROVE  Spec => []BankMatchesMode
<1>1. Init => BankMatchesMode
  BY DEF Init, BankMatchesMode
<1>2. ModeInv /\ BankMatchesMode /\ [Next]_vars => BankMatchesMode'
  <2> SUFFICES ASSUME ModeInv, InStep(cpu), [Next]_vars PROVE InStep(cpu')
    BY DEF BankMatchesMode, InStep
  <2>1. cpu \in Cpu
    BY DEF ModeInv, TypeOK
  <2>2. ASSUME UNCHANGED cpu PROVE InStep(cpu')
    BY <2>2
  <2>3. ASSUME cpu' = EnterWithLinkage(cpu) PROVE InStep(cpu')
    BY <2>1, <2>3, TransitionsInStep
  <2>4. ASSUME NEW s \in IerChoices, WriteIer(s) PROVE InStep(cpu')
    BY <2>1, <2>4 DEF WriteIer, Cpu, InStep
  <2>5. CASE ToggleSde
    <3>1. PICK b \in BOOLEAN : cpu' = WriteICtl(cpu, b)
      BY <2>5 DEF ToggleSde
    <3> QED
      BY <2>1, <3>1, TransitionsInStep
  <2>6. CASE HwRei
    <3>1. CASE cpu' = HwReiStacked(cpu)
      BY <2>1, <3>1, TransitionsInStep
    <3>2. CASE cpu' = [HwReiRegister(cpu, TRUE) EXCEPT !.exc = Len(stack) > 2]
      <4>1. InStep(HwReiRegister(cpu, TRUE)) /\ HwReiRegister(cpu, TRUE) \in Cpu
        BY <2>1, Transitions, TransitionsInStep
      <4>2. \A c \in Cpu : \A b : InStep(c) => InStep([c EXCEPT !.exc = b])
        BY DEF InStep, Cpu
      <4> QED
        BY <3>2, <4>1, <4>2
    <3> QED
      BY <2>6, <3>1, <3>2 DEF HwRei
  <2>7. CASE EnterConsole
    BY <2>1, <2>7, TransitionsInStep DEF EnterConsole
  <2>8. CASE Tick
    <3>1. PICK rises \in BOOLEAN, due \in BOOLEAN : SystemTick(rises, due)
      BY <2>8 DEF Tick
    <3>2. PICK s \in {"clk", "ip", "err", "dev", "none"} :
            /\ s # "none" => ~cpu.pal
            /\ IF s = "none" THEN UNCHANGED <<cpu, stack>>
               ELSE cpu' = StageInterruptDivert(cpu, CauseBit[s])
      BY <3>1, TickExact
    <3>3. s # "none" => CauseBit[s] \in EI
      BY DEF CauseBit, EI
    <3> QED
      BY <2>1, <2>2, <3>2, <3>3, TransitionsInStep
  <2>9. UNCHANGED vars => UNCHANGED cpu
    BY DEF vars
  <2>10. ASSUME Kernel PROVE InStep(cpu')
    <3>1. \/ UNCHANGED cpu \/ cpu' = EnterWithLinkage(cpu)
          \/ \E s \in IerChoices : WriteIer(s)
          \/ ToggleSde \/ HwRei \/ EnterConsole
      BY <2>10 DEF Kernel, Compute, EnterPal, NestedTrap, UnclaimedAccess,
                   PollClock, SendIpi, WriteDim, Handle, BootCompute
    <3> QED
      BY <2>2, <2>3, <2>4, <2>5, <2>6, <2>7, <3>1
  <2> QED
    BY <2>2, <2>8, <2>9, <2>10 DEF Next
<1> QED
  BY <1>1, <1>2, ModeInvariant, PTL DEF Spec

-----------------------------------------------------------------------------
(* The causes of the handlers.                                             *)

\* What the latches and the error line promise about MISC.
Latches ==
  /\ irq2 \subseteq misc.itintr /\ irq3 \subseteq misc.ipintr
  /\ misc.nxm <=> ErrorLine \in drir

Handlers == {"clk", "ip", "err"}

\* A stack with no handler in it asks nothing of MISC.
LEMMA NoHandler ==
  ASSUME \A i \in DOMAIN stack' : stack'[i] \notin Handlers
  PROVE  HandlerHasCause'
BY DEF Handlers, HandlerHasCause, InFlow

\* Nor does a step that adds none and leaves the three causes alone.
LEMMA NoNewHandler ==
  ASSUME HandlerHasCause,
         misc.itintr \subseteq misc'.itintr, misc.ipintr \subseteq misc'.ipintr,
         misc.nxm => misc'.nxm,
         \A i \in DOMAIN stack' : stack'[i] \in Handlers =>
           \E j \in DOMAIN stack : stack[j] = stack'[i]
  PROVE  HandlerHasCause'
<1>1. \A f \in Handlers : InFlow(f)' => InFlow(f)
  BY DEF InFlow
<1> QED
  BY <1>1 DEF HandlerHasCause, Handlers

\* A write of native code: it finds no handler.
LEMMA NativeWrite ==
  ASSUME ModeInv, Latches, Native, UNCHANGED stack, Latches'
  PROVE  Latches' /\ HandlerHasCause'
<1>1. DOMAIN stack' = {}
  BY DEF Native
<1> QED
  BY <1>1, NoHandler

\* A MISC write keeps what the latches promise.
LEMMA WriteKeepsLatches ==
  ASSUME TypeOK, Latches, NEW w \in MiscWrites, WriteMisc(w)
  PROVE  Latches'
<1>1. /\ misc'.nxm <=> misc.nxm /\ ~w.nxm
      /\ misc'.itintr = misc.itintr \ w.itintr
      /\ misc'.ipintr = (misc.ipintr \ w.ipintr) \union w.ipreq
      /\ irq2' = irq2 \ w.itintr
      /\ irq3' = (irq3 \union (w.ipreq \intersect Configured)) \ w.ipintr
      /\ drir' = IF w.nxm THEN drir \ {ErrorLine} ELSE drir
  BY WriteMiscExact
<1> QED
  BY <1>1 DEF Latches

LEMMA KernelKeepsCauses ==
  ASSUME ModeInv, ModeInv', Latches, HandlerHasCause, Kernel
  PROVE  Latches' /\ HandlerHasCause'
<1>0. /\ TypeOK /\ stack \in Seq(Flows) /\ Len(stack) \in Nat
      /\ DOMAIN stack = 1 .. Len(stack)
  BY DEF ModeInv, TypeOK
<1>1. ASSUME UNCHANGED <<cchip, stack>> PROVE Latches' /\ HandlerHasCause'
  BY <1>1 DEF cchip, Latches, HandlerHasCause, InFlow
<1>2. ASSUME NEW f \in {"callpal", "miss"}, EnterPal(f)
      PROVE  Latches' /\ HandlerHasCause'
  <2>1. stack' = <<f>> /\ f \in Flows /\ f \notin Handlers /\ UNCHANGED cchip
    BY <1>2 DEF EnterPal, Flows, Handlers
  <2>2. \A i \in DOMAIN stack' : stack'[i] \notin Handlers
    BY <2>1, OneFlow
  <2> QED
    BY <2>1, <2>2, NoHandler DEF Latches, cchip
<1>3. CASE NestedTrap
  <2>1. /\ stack' = <<"miss">> \o stack /\ UNCHANGED cchip
        /\ "miss" \in Flows /\ "miss" \notin Handlers
    BY <1>3 DEF NestedTrap, Flows, Handlers
  <2>2. /\ stack' \in Seq(Flows) /\ Len(stack') = Len(stack) + 1
        /\ \A i \in 1 .. Len(stack) + 1 :
             stack'[i] = IF i = 1 THEN "miss" ELSE stack[i - 1]
    BY <1>0, <2>1, Pushed
  <2>3. ASSUME NEW i \in DOMAIN stack', stack'[i] \in Handlers
        PROVE  \E j \in DOMAIN stack : stack[j] = stack'[i]
    <3>1. i \in 1 .. Len(stack) + 1
      BY <2>2
    <3>2. i # 1
      BY <2>1, <2>2, <2>3, <3>1
    <3>3. i - 1 \in DOMAIN stack
      BY <1>0, <3>1, <3>2
    <3>4. stack'[i] = stack[i - 1]
      BY <2>2, <3>1, <3>2
    <3> QED
      BY <3>3, <3>4
  <2> QED
    BY <2>1, <2>3, NoNewHandler DEF Latches, cchip
<1>4. ASSUME NEW src \in Sources, UnclaimedAccess(src)
      PROVE  Latches' /\ HandlerHasCause'
  <2>1. stack' = <<"mchk">> /\ "mchk" \in Flows /\ "mchk" \notin Handlers
    BY <1>4 DEF UnclaimedAccess, Flows, Handlers
  <2>2. \A i \in DOMAIN stack' : stack'[i] \notin Handlers
    BY <2>1, OneFlow
  <2>3. Latches'
    BY <1>0, <1>4 DEF UnclaimedAccess, Latches, MiscAfterNxm, TypeOK, Misc
  <2> QED
    BY <2>2, <2>3, NoHandler
<1>5. CASE PollClock
  <2>1. AckOf("clk") \in MiscWrites
    BY Acknowledges DEF Flows
  <2> QED
    BY <1>0, <1>5, <2>1, WriteKeepsLatches, NativeWrite DEF PollClock
<1>6. CASE SendIpi
  BY <1>0, <1>6, IpiWrite, WriteKeepsLatches, NativeWrite DEF SendIpi
<1>7. CASE Handle
  <2>1. Top \in Flows /\ Top # "miss" /\ stack # <<>>
        /\ stack' = [stack EXCEPT ![1] = "return"]
    BY <1>7 DEF Handle, Flows
  <2>2. AckOf(Top) \in MiscWrites
    BY <2>1, Acknowledges
  <2>3. Latches'
    BY <1>0, <1>7, <2>2, WriteKeepsLatches DEF Handle
  <2>4. stack' = <<"return">>
    BY <1>0, <2>1, ReturnsAlone
  <2>5. \A i \in DOMAIN stack' : stack'[i] \notin Handlers
    BY <2>4, OneFlow DEF Flows, Handlers
  <2> QED
    BY <2>3, <2>5, NoHandler
<1>8. ASSUME NEW s \in IerChoices, WriteIer(s)
      PROVE  Latches' /\ HandlerHasCause'
  <2>1. Top # "miss" /\ stack # <<>> /\ UNCHANGED cchip
        /\ stack' = [stack EXCEPT ![1] = "return"]
    BY <1>8 DEF WriteIer
  <2>2. stack' = <<"return">>
    BY <1>0, <2>1, ReturnsAlone
  <2>3. \A i \in DOMAIN stack' : stack'[i] \notin Handlers
    BY <2>2, OneFlow DEF Flows, Handlers
  <2> QED
    BY <2>1, <2>3, NoHandler DEF Latches, cchip
<1>9. CASE HwRei
  <2>1. stack # <<>> /\ stack' = Tail(stack) /\ UNCHANGED cchip
    BY <1>9 DEF HwRei
  <2>2. /\ stack' \in Seq(Flows) /\ Len(stack') = Len(stack) - 1
        /\ \A i \in 1 .. Len(stack) - 1 : stack'[i] = stack[i + 1]
    BY <1>0, <2>1, Popped
  <2>3. ASSUME NEW i \in DOMAIN stack'
        PROVE  \E j \in DOMAIN stack : stack[j] = stack'[i]
    <3>1. i \in 1 .. Len(stack) - 1
      BY <2>2
    <3>2. i + 1 \in DOMAIN stack /\ stack'[i] = stack[i + 1]
      BY <1>0, <2>2, <3>1
    <3> QED
      BY <3>2
  <2> QED
    BY <2>1, <2>3, NoNewHandler DEF Latches, cchip
<1>10. CASE EnterConsole
  <2>1. DOMAIN stack' = {} /\ UNCHANGED cchip
    BY <1>10 DEF EnterConsole
  <2> QED
    BY <2>1, NoHandler DEF Latches, cchip
<1>11. \/ UNCHANGED <<cchip, stack>>
       \/ \E f \in {"callpal", "miss"} : EnterPal(f)
       \/ NestedTrap \/ \E src \in Sources : UnclaimedAccess(src)
       \/ PollClock \/ SendIpi \/ Handle \/ \E s \in IerChoices : WriteIer(s)
       \/ HwRei \/ EnterConsole
  BY DEF Kernel, Compute, WriteDim, ToggleSde, BootCompute
<1> QED
  BY <1>1, <1>2, <1>3, <1>4, <1>5, <1>6, <1>7, <1>8, <1>9, <1>10, <1>11

LEMMA TickKeepsCauses ==
  ASSUME ModeInv, Latches, HandlerHasCause, Tick
  PROVE  Latches' /\ HandlerHasCause'
<1>1. PICK rises \in BOOLEAN, due \in BOOLEAN : SystemTick(rises, due)
  BY DEF Tick
<1>2. PICK s \in {"clk", "ip", "err", "dev", "none"} :
           /\ misc'.nxm = misc.nxm /\ misc'.ipintr = misc.ipintr
           /\ irq2 \subseteq misc.itintr => irq2' \subseteq misc'.itintr
           /\ misc.itintr \subseteq misc'.itintr
           /\ irq3' \subseteq irq3
           /\ ErrorLine \in drir' <=> ErrorLine \in drir
           /\ s # "none" => ~cpu.pal
           /\ s = "clk" /\ irq2 \subseteq misc.itintr => 0 \in misc'.itintr
           /\ s = "ip" => 0 \in irq3
           /\ s = "err" => ErrorLine \in drir
           /\ IF s = "none" THEN UNCHANGED <<cpu, stack>>
              ELSE stack' = <<s>> \o stack
  BY <1>1, TickExact
<1>3. Latches'
  BY <1>2 DEF Latches
<1>4. ASSUME s = "none" PROVE HandlerHasCause'
  BY <1>2, <1>4, NoNewHandler
<1>5. ASSUME s # "none" PROVE HandlerHasCause'
  <2>1. stack = <<>> /\ s \in Flows /\ stack' = <<s>> \o stack
    BY <1>2, <1>5 DEF ModeInv, ModeKept, Flows
  <2>2. stack' = <<s>>
    BY <2>1, OneFlow, ConcatEmptySeq
  <2>3. \A f : InFlow(f)' => f = s
    BY <2>1, <2>2, OneFlow DEF InFlow
  <2>4. /\ s = "clk" => 0 \in misc'.itintr
        /\ s = "ip" => 0 \in misc'.ipintr
        /\ s = "err" => misc'.nxm
    BY <1>2 DEF Latches
  <2> QED
    BY <2>3, <2>4 DEF HandlerHasCause
<1> QED
  BY <1>3, <1>4, <1>5

(* A handler finds the cause it was diverted for: between the divert and   *)
(* the handler's acknowledge only PALcode runs, and every latch and the    *)
(* error line are backed by MISC when the tick reads them (systemTick,     *)
(* miscWriteW1C).                                                          *)
THEOREM HandlersHaveTheirCause ==
  ASSUME ~Inject
  PROVE  Spec => []HandlerHasCause
<1>1. Init => Latches /\ HandlerHasCause
  <2> SUFFICES ASSUME Init PROVE Latches /\ HandlerHasCause
    OBVIOUS
  <2>1. stack = <<"boot">> /\ "boot" \in Flows
    BY DEF Init, Flows
  <2>2. \A f : InFlow(f) => f = "boot"
    BY <2>1, OneFlow DEF InFlow
  <2> QED
    BY <2>2 DEF Init, Latches, HandlerHasCause, MiscReset
<1>2. ModeInv /\ ModeInv' /\ Latches /\ HandlerHasCause /\ [Next]_vars
        => Latches' /\ HandlerHasCause'
  <2> SUFFICES ASSUME ModeInv, ModeInv', Latches, HandlerHasCause, [Next]_vars
               PROVE  Latches' /\ HandlerHasCause'
    OBVIOUS
  <2>1. CASE UNCHANGED vars
    BY <2>1 DEF vars, Latches, HandlerHasCause, InFlow
  <2> QED
    BY <2>1, KernelKeepsCauses, TickKeepsCauses DEF Next
<1> QED
  BY <1>1, <1>2, ModeInvariant, PTL DEF Spec
=============================================================================
