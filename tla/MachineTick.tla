----------------------------- MODULE MachineTick -----------------------------
(***************************************************************************)
(* The run loop of the emulated machine (Machine::stepCycle): one CPU step *)
(* and then systemTick, which mirrors the device interrupt line, fires the *)
(* interval timer on its cycle edge and diverts the CPU for at most one of *)
(* timer, interprocessor, error and device interrupt, in that order.       *)
(*                                                                         *)
(* The CPU step is the guest's: which instruction comes next is the guest  *)
(* program's choice, what it does to the machine is the emulator's code.   *)
(* The flows the guest is in are kept as a stack, innermost first; native  *)
(* code runs when it is empty.                                             *)
(***************************************************************************)
EXTENDS Cchip, PalMode, Sequences

CONSTANTS
  Period,        \* cycles between timer edges, kCchipTimerMask + 1
  IerChoices,    \* the HW_IER values the guest's PALcode writes
  DimChoices,    \* the DIM values it writes
  MaxNest,       \* bound: PAL flows stacked on one another
  ZapSde,        \* the PALcode turns its shadow registers off and on
  Paced,         \* devices ask at most once between two timer edges
  IdleWarp,      \* EMULATR_IDLEWARP
  Inject         \* armInterruptInjection was called

ASSUME MachineTickAssumption ==
  /\ Period \in Nat /\ Period > 1
  /\ \A s \in IerChoices : s \subseteq EI
  /\ \A d \in DimChoices : d \subseteq Lines
  /\ MaxNest \in Nat \ {0}
  /\ {ZapSde, Paced, IdleWarp, Inject} \subseteq BOOLEAN

VARIABLES
  misc, drir, irq2, irq3,   \* the Cchip, see module Cchip
  dim,                      \* DIM0
  devreq,                   \* the level the device chain presents
  cpu,                      \* see module PalMode
  stack,                    \* the guest's PAL flows, innermost first
  idle,                     \* the PC is in the console's idle loop
  clock,                    \* m_systemClock modulo Period
  relocated,                \* m_palImageRelocated
  armed,                    \* injection armed and not fired
  phase                     \* "cpu": cpuKernel next; "tick": systemTick next

cchip == <<misc, drir, irq2, irq3>>
vars == <<misc, drir, irq2, irq3, dim, devreq, cpu, stack, idle, clock,
          relocated, armed, phase>>

Flows == {"boot", "callpal", "miss", "mchk", "return",
          "clk", "ip", "err", "dev", "inject"}

TypeOK ==
  /\ misc \in Misc /\ drir \subseteq Lines
  /\ irq2 \subseteq Configured /\ irq3 \subseteq Configured
  /\ dim \subseteq Lines /\ devreq \in BOOLEAN
  /\ cpu \in Cpu
  /\ stack \in Seq(Flows) /\ Len(stack) <= MaxNest
  /\ idle \in BOOLEAN /\ clock \in 0 .. Period - 1
  /\ relocated \in BOOLEAN /\ armed \in BOOLEAN
  /\ phase \in {"cpu", "tick"}

Init ==
  /\ \E src \in Sources : misc = MiscReset(src)
  /\ drir = {} /\ irq2 = {} /\ irq3 = {} /\ dim = {} /\ devreq = FALSE
  /\ cpu = [pal |-> TRUE, exc |-> FALSE, sde |-> FALSE, bank |-> "native",
            isum |-> 0, ier |-> {}]
  /\ stack = <<"boot">>
  /\ idle = FALSE /\ clock = 0 /\ relocated = FALSE /\ armed = Inject
  /\ phase = "cpu"

Native == stack = <<>>

Top == Head(stack)

-----------------------------------------------------------------------------
(* The CPU step.  Each action is one instruction: cpuKernel retires it and  *)
(* stepCycle advances the system clock.                                    *)

Retires ==
  /\ phase = "cpu" /\ phase' = "tick"
  /\ clock' = (clock + 1) % Period
  /\ UNCHANGED <<relocated, armed>>

\* An instruction that touches none of this, inside or outside the idle loop.
Compute(inIdle) ==
  /\ Retires /\ Native
  /\ idle' = inIdle
  /\ UNCHANGED <<cchip, dim, devreq, cpu, stack>>

\* CALL_PAL, or a fault of native code that PALcode repairs.
EnterPal(flow) ==
  /\ Retires /\ Native
  /\ cpu' = EnterWithLinkage(cpu)
  /\ stack' = <<flow>>
  /\ UNCHANGED <<cchip, dim, devreq, idle>>

\* A fault inside PALcode.
NestedTrap ==
  /\ Retires /\ stack # <<>> /\ Len(stack) < MaxNest
  /\ cpu' = EnterWithLinkage(cpu)
  /\ stack' = <<"miss">> \o stack
  /\ UNCHANGED <<cchip, dim, devreq, idle>>

\* An access no device claims: reportNxm, and the bus error traps.
UnclaimedAccess(src) ==
  /\ Retires /\ Native
  /\ misc' = IF misc.nxm THEN misc ELSE MiscAfterNxm(misc, src)
  /\ drir' = IF misc.nxm THEN drir ELSE drir \union {ErrorLine}
  /\ cpu' = EnterWithLinkage(cpu)
  /\ stack' = <<"mchk">>
  /\ UNCHANGED <<irq2, irq3, dim, devreq, idle>>

WriteMisc(w) ==
  /\ misc' = MiscAfterWrite(misc, w)
  /\ irq2' = Irq2AfterWrite(irq2, w)
  /\ drir' = DrirAfterWrite(drir, w)
  /\ irq3' = Irq3AfterAck(Irq3AfterRequest(irq3, w), w)

AckOf(flow) ==
  CASE flow = "clk" -> [NoWrite EXCEPT !.itintr = {0}]
    [] flow = "ip" -> [NoWrite EXCEPT !.ipintr = {0}]
    [] flow \in {"err", "mchk"} -> [NoWrite EXCEPT !.nxm = TRUE]
    [] OTHER -> NoWrite

\* Native code polls the clock, sends itself an interrupt, or sets DIM0.
PollClock ==
  /\ Retires /\ Native /\ WriteMisc(AckOf("clk"))
  /\ UNCHANGED <<dim, devreq, cpu, stack, idle>>

SendIpi ==
  /\ Retires /\ Native /\ WriteMisc([NoWrite EXCEPT !.ipreq = {0}])
  /\ UNCHANGED <<dim, devreq, cpu, stack, idle>>

WriteDim(d) ==
  /\ Retires /\ Native /\ dim' = d
  /\ UNCHANGED <<cchip, devreq, cpu, stack, idle>>

\* PALcode: a handler removes its cause and will then return; SWPIPL writes
\* HW_IER and will then return.
Handle ==
  /\ Retires /\ stack # <<>> /\ Top \in {"clk", "ip", "err", "mchk", "dev"}
  /\ WriteMisc(AckOf(Top))
  /\ devreq' = (devreq /\ Top # "dev")
  /\ stack' = [stack EXCEPT ![1] = "return"]
  /\ UNCHANGED <<dim, cpu, idle>>

WriteIer(s) ==
  /\ Retires /\ stack # <<>> /\ Top = "callpal"
  /\ cpu' = [cpu EXCEPT !.ier = s]
  /\ stack' = [stack EXCEPT ![1] = "return"]
  /\ UNCHANGED <<cchip, dim, devreq, idle>>

\* PALcode turns the shadow registers on or off ("zap sde").
ToggleSde ==
  /\ ZapSde /\ Retires /\ stack # <<>>
  /\ cpu' = WriteICtl(cpu, ~cpu.sde)
  /\ UNCHANGED <<cchip, dim, devreq, stack, idle>>

\* HW_REI: a flow returns through EXC_ADDR, but the handler of a fault inside
\* PALcode does so through its own linkage and puts the outer EXC_ADDR back.
HwRei ==
  /\ Retires /\ stack # <<>> /\ Top \in {"return", "miss", "mchk", "inject"}
  /\ cpu' = IF Top = "miss" /\ Len(stack) > 1
            THEN [HwReiRegister(cpu, TRUE) EXCEPT !.exc = Len(stack) > 2]
            ELSE HwReiStacked(cpu)
  /\ stack' = Tail(stack)
  /\ idle' = FALSE
  /\ UNCHANGED <<cchip, dim, devreq>>

\* The boot code reaches the SRM entry point (onBeforeFetch) and leaves
\* PALmode through a register-form HW_REI.
EnterConsole ==
  /\ phase = "cpu" /\ phase' = "tick" /\ clock' = (clock + 1) % Period
  /\ stack = <<"boot">> /\ stack' = <<>>
  /\ relocated' = TRUE
  /\ cpu' = HwReiRegister(cpu, FALSE)
  /\ UNCHANGED <<cchip, dim, devreq, idle, armed>>

\* In the boot flow before that.
BootCompute ==
  /\ Retires /\ stack = <<"boot">>
  /\ UNCHANGED <<cchip, dim, devreq, cpu, stack, idle>>

Kernel ==
  \/ \E b \in BOOLEAN : Compute(b)
  \/ \E f \in {"callpal", "miss"} : EnterPal(f)
  \/ NestedTrap
  \/ \E src \in Sources : UnclaimedAccess(src)
  \/ PollClock
  \/ SendIpi
  \/ \E d \in DimChoices : WriteDim(d)
  \/ Handle
  \/ \E s \in IerChoices : WriteIer(s)
  \/ ToggleSde
  \/ HwRei
  \/ EnterConsole
  \/ BootCompute

-----------------------------------------------------------------------------
(* systemTick.                                                             *)

\* Mutant: PALmode does not hold an interrupt off.
CanAcceptInPal(irqLevel) == relocated /\ 24 - irqLevel \in cpu.ier

\* canAcceptInterrupt: level l is gated by HW_IER bit 57 - l, that is EI[24-l].
CanAcceptInterrupt(irqLevel) ==
  relocated /\ ~cpu.pal /\ 24 - irqLevel \in cpu.ier

\* Mutant: the idle fast-forward overshoots the edge by a cycle.
WarpedOvershoot ==
  IF IdleWarp /\ idle /\ Native /\ CanAcceptInterrupt(22) /\ clock # 0
  THEN 1 ELSE clock

\* EMULATR_IDLEWARP: jump to the next timer edge.
Warped ==
  IF IdleWarp /\ idle /\ Native /\ CanAcceptInterrupt(22) /\ clock # 0
  THEN 0 ELSE clock

\* The CPUs the timer fires for: all the configured ones, on the edge.
Fired(clk) == IF clk = 0 THEN Configured ELSE {}

\* Mutant: the interprocessor class is gated one level too low.
SelectedIpiLevel(d, i2, due) ==
  CASE CanAcceptInterrupt(22) /\ 0 \in i2 -> "clk"
    [] OTHER ->
  CASE CanAcceptInterrupt(20) /\ 0 \in irq3 -> "ip"
    [] OTHER ->
  CASE PendingIrq0(d, dim) /\ CanAcceptInterrupt(23) -> "err"
    [] OTHER ->
  CASE PendingIrq1(d, dim) /\ CanAcceptInterrupt(23) -> "dev"
    [] OTHER -> IF armed /\ due THEN "inject" ELSE "none"

\* The one source the tick diverts for, given the lines d, the timer latches
\* i2 and whether the injection cycle has come.  The error class is gated by
\* canAcceptInterrupt(23), the device level.
Selected(d, i2, due) ==
  CASE CanAcceptInterrupt(22) /\ 0 \in i2 -> "clk"
    [] OTHER ->
  CASE CanAcceptInterrupt(21) /\ 0 \in irq3 -> "ip"
    [] OTHER ->
  CASE PendingIrq0(d, dim) /\ CanAcceptInterrupt(23) -> "err"
    [] OTHER ->
  CASE PendingIrq1(d, dim) /\ CanAcceptInterrupt(23) -> "dev"
    [] OTHER -> IF armed /\ due THEN "inject" ELSE "none"

\* The ISUM cause bit each divert stages.
CauseBit == [clk |-> 2, ip |-> 3, err |-> 0, dev |-> 1, inject |-> 0]

SystemTick(rises, due) ==
  LET d == IF devreq \/ rises THEN drir \union DevLines ELSE drir \ DevLines
      i2 == irq2 \union Fired(Warped)
      s == Selected(d, i2, due)
  IN
  /\ phase = "tick" /\ phase' = "cpu"
  /\ rises /\ Paced => clock = 1
  /\ devreq' = (devreq \/ rises)
  /\ drir' = d
  /\ clock' = Warped
  /\ misc' = [misc EXCEPT !.itintr = @ \union Fired(Warped)]
  /\ irq2' = IF s = "clk" THEN i2 \ {0} ELSE i2
  /\ irq3' = IF s = "ip" THEN irq3 \ {0} ELSE irq3
  /\ armed' = (armed /\ s # "inject")
  /\ IF s = "none"
     THEN UNCHANGED <<cpu, stack>>
     ELSE /\ cpu' = StageInterruptDivert(cpu, CauseBit[s])
          /\ stack' = <<s>> \o stack
  /\ UNCHANGED <<dim, idle, relocated>>

Tick == \E rises, due \in BOOLEAN : SystemTick(rises, due)

Next == Kernel \/ Tick

\* The loop runs on; the guest's PAL flows come to their end, and its
\* operating system lowers its interrupt level again and again.
Fairness ==
  /\ WF_vars(Tick) /\ WF_vars(Kernel)
  /\ SF_vars(Handle) /\ SF_vars(HwRei) /\ SF_vars(EnterConsole)
  /\ SF_vars(EnterPal("callpal")) /\ SF_vars(WriteIer(EI))
  /\ SF_vars(WriteDim(Lines))

Spec == Init /\ [][Next]_vars /\ Fairness

-----------------------------------------------------------------------------
InFlow(f) == \E i \in DOMAIN stack : stack[i] = f

(* A handler finds the cause it was diverted for: the clock handler reads  *)
(* ITINTR set, the interprocessor one IPINTR, the error one NXM, however   *)
(* native polls and acknowledges interleave with the latches.              *)
HandlerHasCause ==
  /\ InFlow("clk") => 0 \in misc.itintr
  /\ InFlow("ip") => 0 \in misc.ipintr
  /\ InFlow("err") => misc.nxm

(* "never take an interrupt while the CPU is executing PALcode": the saved *)
(* PC of the flow that runs is that of the code it interrupted, so every   *)
(* flow returns where it came from, and the emulator's mode bit agrees.    *)
ReturnAddressKept ==
  /\ cpu.pal <=> ~Native
  /\ ~Native /\ ~InFlow("boot") => (cpu.exc <=> Len(stack) > 1)

(* "live bank == shadow iff (palMode && SDE<1>)": through CALL_PAL, traps, *)
(* nested traps, diverts, HW_REI and SDE edges the swaps stay in step, so  *)
(* native code never runs on PALcode's scratch registers.                  *)
BankMatchesMode == cpu.bank = "shadow" <=> cpu.pal /\ cpu.sde

(* The guest's clock never stops: again and again a tick is latched or     *)
(* being handled, though the idle fast-forward rewrites the system clock.  *)
ClockRuns == []<>(0 \in irq2 \/ InFlow("clk"))

(* A requested interprocessor interrupt is delivered, timer and error      *)
(* traffic notwithstanding.                                                *)
IpiDelivered == 0 \in irq3 ~> 0 \notin irq3

(* A latched NXM is seen by software in the end: the pinned error line     *)
(* diverts until some handler acknowledges it.                             *)
ErrorServed == misc.nxm ~> ~misc.nxm

(* A device that asks is served although its class is polled last.         *)
DeviceServed == devreq ~> ~devreq

(* Every class below the clock is served in the end.                       *)
ClassesServed == IpiDelivered /\ ErrorServed /\ DeviceServed
=============================================================================
