-------------------------------- MODULE Cchip --------------------------------
(***************************************************************************)
(* The interrupt state of the Tsunami Cchip (chipsetLib/TsunamiCchip.h),   *)
(* as operators on its parts.  A part is what one atomic word of the code  *)
(* holds, so a module may make a handler one step or one step per word:    *)
(*                                                                         *)
(*   misc   the MISC register: nxm (NXM), nxs (NXS), ipintr, itintr, abt   *)
(*          and abw, the last four as sets of CPU numbers                  *)
(*   drir   the raw interrupt lines, a set; ErrorLine stands for DRIR<63>  *)
(*   irq2   the CPUs whose b_irq<2> latch (interval timer) is set          *)
(*   irq3   the CPUs whose b_irq<3> latch (interprocessor) is set          *)
(*                                                                         *)
(* A write of MISC is the set of ones it writes, by field: w.nxm, w.itintr *)
(* and w.ipintr clear, w.abt and w.abw set, w.acl and w.ipreq only act.    *)
(***************************************************************************)
EXTENDS Integers

CONSTANTS
  CpuCount,    \* m_cpuCount, the configured CPUs
  MaxCpus,     \* kMaxCPUs, the width of the per-CPU fields
  DevLines,    \* the DRIR lines devices drive (DRIR<55:0>)
  ErrorLine,   \* DRIR<63>, the mirror of MISC<NXM>
  Sources      \* NXM source codes

ASSUME CchipAssumption ==
  /\ MaxCpus \in Nat \ {0}
  /\ CpuCount \in Nat \ {0}
  /\ ErrorLine \notin DevLines

CPUs == 0 .. MaxCpus - 1

\* The loops that set a latch run over n < m_cpuCount && n < kMaxCPUs.
Configured == {n \in CPUs : n < CpuCount}

Lines == DevLines \union {ErrorLine}

Misc == [nxm : BOOLEAN, nxs : Sources, ipintr : SUBSET CPUs,
         itintr : SUBSET CPUs, abt : SUBSET CPUs, abw : SUBSET CPUs]

MiscWrites == [nxm : BOOLEAN, ipintr : SUBSET CPUs, itintr : SUBSET CPUs,
               abt : SUBSET CPUs, abw : SUBSET CPUs, acl : BOOLEAN,
               ipreq : SUBSET CPUs]

\* A write that changes nothing; callers name the fields they set.
NoWrite == [nxm |-> FALSE, ipintr |-> {}, itintr |-> {}, abt |-> {},
            abw |-> {}, acl |-> FALSE, ipreq |-> {}]

\* reset(): MISC keeps only its revision field; NXS has no defined value then.
MiscReset(src) == [nxm |-> FALSE, nxs |-> src, ipintr |-> {}, itintr |-> {},
                   abt |-> {}, abw |-> {}]

-----------------------------------------------------------------------------
(* The updates of MISC, each the body of one compare-exchange loop.        *)

\* Mutant: the win is not gated on an earlier try.
WinnersUngated(m, w) == w.abt \ m.abt

\* The CPUs an arbitration try promotes from ABT to ABW: all those a write
\* names, when no earlier try is still recorded.
Winners(m, w) == IF m.abt = {} THEN w.abt ELSE {}

\* The value the write leaves in MISC.
MiscAfterWrite(m, w) ==
  [m EXCEPT !.nxm = @ /\ ~w.nxm,
            !.ipintr = (@ \ w.ipintr) \union w.ipreq,
            !.itintr = @ \ w.itintr,
            !.abt = IF w.acl THEN {} ELSE @ \union w.abt,
            !.abw = IF w.acl THEN {} ELSE @ \union w.abw \union Winners(m, w)]

\* latchNxm: NXS is deposited at the 0->1 edge of NXM only.
MiscAfterNxm(m, src) ==
  [m EXCEPT !.nxm = TRUE, !.nxs = IF m.nxm THEN @ ELSE src]

-----------------------------------------------------------------------------
(* The side effects of a MISC write on the other words.                    *)

\* Mutant: the timer latch survives the acknowledge.
Irq2AfterWriteKept(irq2, w) == irq2

\* An acknowledged ITINTR<n> drops the timer latch of CPU n.
Irq2AfterWrite(irq2, w) == irq2 \ w.itintr

\* An acknowledged NXM drops the DRIR mirror.
DrirAfterWrite(drir, w) == IF w.nxm THEN drir \ {ErrorLine} ELSE drir

\* Mutant: the request loop forgets the last configured CPU.
Irq3AfterRequestShort(irq3, w) ==
  irq3 \union {n \in w.ipreq \intersect Configured : n + 1 \in Configured}

\* IPREQ<n> sets the interprocessor latch of a configured CPU n ...
Irq3AfterRequest(irq3, w) == irq3 \union (w.ipreq \intersect Configured)

\* ... and then an acknowledged IPINTR<n> clears it.
Irq3AfterAck(irq3, w) == irq3 \ w.ipintr

-----------------------------------------------------------------------------
(* What the run loop polls, with dim the DIM register of the CPU.          *)

\* pendingIrq0: the error class.
PendingIrq0(drir, dim) == ErrorLine \in drir \intersect dim

\* pendingIrq1: the device class.
PendingIrq1(drir, dim) == drir \intersect dim \intersect DevLines # {}
=============================================================================
