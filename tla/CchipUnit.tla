------------------------------ MODULE CchipUnit ------------------------------
(***************************************************************************)
(* The Cchip's interrupt registers, driven by firmware writes, the bus     *)
(* arbiter, the interval timer, the devices and the run loop's diverts.    *)
(* Every handler is one step: the emulator runs them all on the thread of  *)
(* Machine::run.                                                           *)
(***************************************************************************)
EXTENDS Cchip, FiniteSets

CONSTANT Writes      \* the MISC writes firmware makes

ASSUME CchipUnitAssumption == Writes \subseteq MiscWrites

(* A finite set of writes for TLC. *)

\* Firmware writes one field at a time, one CPU per arbitration try.
FieldWrites ==
  {[NoWrite EXCEPT !.nxm = TRUE], [NoWrite EXCEPT !.acl = TRUE]}
  \union {[NoWrite EXCEPT !.ipintr = {n}] : n \in CPUs}
  \union {[NoWrite EXCEPT !.itintr = {n}] : n \in CPUs}
  \union {[NoWrite EXCEPT !.ipreq = {n}] : n \in CPUs}
  \union {[NoWrite EXCEPT !.abt = {n}] : n \in CPUs}

\* Firmware also combines any interrupt bits of any CPUs in one store, but does
\* not request and acknowledge the same interprocessor interrupt in it.
SomeWrites ==
  FieldWrites \union
  {w \in [nxm : BOOLEAN, acl : {FALSE}, abt : {{}}, abw : {{}},
          itintr : SUBSET CPUs, ipintr : SUBSET CPUs, ipreq : SUBSET CPUs] :
     w.ipintr \intersect w.ipreq = {}}

-----------------------------------------------------------------------------

VARIABLES misc, drir, irq2, irq3,
          taken2,   \* history: CPUs whose tick in ITINTR has had its latch
          taken3    \* consumed, by a divert or by a reload; for IPINTR too

vars == <<misc, drir, irq2, irq3, taken2, taken3>>

TypeOK ==
  /\ misc \in Misc
  /\ drir \subseteq Lines
  /\ irq2 \subseteq Configured
  /\ irq3 \subseteq Configured
  /\ taken2 \subseteq CPUs
  /\ taken3 \subseteq CPUs

Init ==
  /\ \E src \in Sources : misc = MiscReset(src)
  /\ drir = {} /\ irq2 = {} /\ irq3 = {} /\ taken2 = {} /\ taken3 = {}

\* write(MISC): miscWriteW1C with its side effects, in the code's order.
MiscWrite(w) ==
  /\ misc' = MiscAfterWrite(misc, w)
  /\ irq2' = Irq2AfterWrite(irq2, w)
  /\ drir' = DrirAfterWrite(drir, w)
  /\ irq3' = Irq3AfterAck(Irq3AfterRequest(irq3, w), w)
  /\ taken2' = taken2 \ w.itintr
  /\ taken3' = taken3 \ (w.ipreq \union w.ipintr)

\* fireIntervalTimer: bit and latch of every configured CPU.
FireIntervalTimer ==
  /\ misc' = [misc EXCEPT !.itintr = @ \union Configured]
  /\ irq2' = irq2 \union Configured
  /\ taken2' = taken2 \ Configured
  /\ UNCHANGED <<drir, irq3, taken3>>

\* TsunamiChipset::reportNxm: absorbed while NXM is latched, else latchNxm.
ReportNxm(src) ==
  /\ ~misc.nxm
  /\ misc' = MiscAfterNxm(misc, src)
  /\ drir' = drir \union {ErrorLine}
  /\ UNCHANGED <<irq2, irq3, taken2, taken3>>

\* assertInterrupt and deassertInterrupt, called for a device line.
AssertInterrupt(l) ==
  /\ drir' = drir \union {l}
  /\ UNCHANGED <<misc, irq2, irq3, taken2, taken3>>

DeassertInterrupt(l) ==
  /\ drir' = drir \ {l}
  /\ UNCHANGED <<misc, irq2, irq3, taken2, taken3>>

\* The run loop diverts CPU 0, the only one it polls, and drops the latch.
DivertTimer ==
  /\ 0 \in irq2
  /\ irq2' = irq2 \ {0}
  /\ taken2' = taken2 \union {0}
  /\ UNCHANGED <<misc, drir, irq3, taken3>>

DivertIpi ==
  /\ 0 \in irq3
  /\ irq3' = irq3 \ {0}
  /\ taken3' = taken3 \union {0}
  /\ UNCHANGED <<misc, drir, irq2, taken2>>

\* Mutant: the interrupt lines are left out of the snapshot too.
RestoredWithoutDrir == [misc |-> misc, drir |-> {}, irq2 |-> {}, irq3 |-> {}]

\* What deserialize() in a new process makes of what serialize() wrote: MISC
\* and DRIR are on the wire, the latches are those of a cold start.
Restored == [misc |-> misc, drir |-> drir, irq2 |-> {}, irq3 |-> {}]

\* A snapshot is saved, and loaded by a new process.
Reload ==
  /\ misc' = Restored.misc /\ drir' = Restored.drir
  /\ irq2' = Restored.irq2 /\ irq3' = Restored.irq3
  /\ taken2' = taken2 \union irq2 /\ taken3' = taken3 \union irq3

\* reset().
Reset ==
  /\ \E src \in Sources : misc' = MiscReset(src)
  /\ drir' = {} /\ irq2' = {} /\ irq3' = {} /\ taken2' = {} /\ taken3' = {}

Next ==
  \/ \E w \in Writes : MiscWrite(w)
  \/ FireIntervalTimer
  \/ \E src \in Sources : ReportNxm(src)
  \/ \E l \in DevLines : AssertInterrupt(l) \/ DeassertInterrupt(l)
  \/ DivertTimer
  \/ DivertIpi
  \/ Reload
  \/ Reset

Spec == Init /\ [][Next]_vars

-----------------------------------------------------------------------------
(* The error line is the mirror of MISC<NXM>, across latches, firmware     *)
(* acknowledges, device lines, resets and reloads: were the line to stay up *)
(* after the acknowledge, b_irq<0> would divert forever; were it down with *)
(* NXM set, reportNxm would absorb every later event unseen.               *)
NxmMirrored == misc.nxm <=> ErrorLine \in drir

(* A latched b_irq<2> or b_irq<3> has its cause in MISC: a handler that is *)
(* diverted to finds the ITINTR or IPINTR bit it was diverted for.         *)
LatchBacked == irq2 \subseteq misc.itintr /\ irq3 \subseteq misc.ipintr

(* No handler loses a tick or an interprocessor request: while its MISC    *)
(* bit is set, either the latch is pending, or it was consumed by a divert *)
(* (whose handler's acknowledge will leave a quiescent state) or dropped   *)
(* by a reload, which resumes without the latches.                         *)
NoInterruptLost ==
  \A n \in Configured :
    /\ n \in misc.itintr => n \in irq2 \union taken2
    /\ n \in misc.ipintr => n \in irq3 \union taken3

(* The boot arbitration has at most one winner, and the winner tried:      *)
(* firmware that reads its own ABW bit set is alone in the init sequence.  *)
OneWinner == Cardinality(misc.abw) <= 1 /\ misc.abw \subseteq misc.abt
=============================================================================
