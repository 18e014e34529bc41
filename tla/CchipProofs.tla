----------------------------- MODULE CchipProofs -----------------------------
(***************************************************************************)
(* Proofs about CchipUnit, for any number of CPUs, lines, sources and any  *)
(* set of firmware writes.  Each theorem rests on the type invariant; the  *)
(* mirror and the latch invariants are inductive relative to it.           *)
(***************************************************************************)
EXTENDS CchipUnit, FiniteSetTheorems, TLAPS

\* A MISC write leaves a MISC value.
LEMMA WriteType ==
  ASSUME NEW m \in Misc, NEW w \in MiscWrites
  PROVE  MiscAfterWrite(m, w) \in Misc
BY DEF Misc, MiscWrites, MiscAfterWrite, Winners

LEMMA NxmType ==
  ASSUME NEW m \in Misc, NEW src \in Sources
  PROVE  MiscAfterNxm(m, src) \in Misc
BY DEF Misc, MiscAfterNxm

LEMMA ResetType ==
  ASSUME NEW src \in Sources
  PROVE  MiscReset(src) \in Misc
BY DEF Misc, MiscReset

(* The registers keep their types through every handler of the Cchip, and  *)
(* the latches of CPUs that are not configured are never set (the bound    *)
(* m_cpuCount of the loops in fireIntervalTimer and miscWriteW1C).         *)
THEOREM TypeCorrect == Spec => []TypeOK
<1>1. Init => TypeOK
  BY ResetType DEF Init, TypeOK
<1>2. TypeOK /\ [Next]_vars => TypeOK'
  <2> SUFFICES ASSUME TypeOK, [Next]_vars PROVE TypeOK'
    OBVIOUS
  <2> USE DEF TypeOK
  <2>1. ASSUME NEW w \in Writes, MiscWrite(w) PROVE TypeOK'
    <3>1. w \in MiscWrites
      BY CchipUnitAssumption
    <3>2. misc' \in Misc
      BY <2>1, <3>1, WriteType DEF MiscWrite
    <3>3. drir' \subseteq Lines /\ irq2' \subseteq Configured
      BY <2>1 DEF MiscWrite, DrirAfterWrite, Irq2AfterWrite
    <3>4. irq3' \subseteq Configured
      BY <2>1 DEF MiscWrite, Irq3AfterAck, Irq3AfterRequest
    <3>5. taken2' \subseteq CPUs /\ taken3' \subseteq CPUs
      BY <2>1 DEF MiscWrite
    <3> QED
      BY <3>2, <3>3, <3>4, <3>5
  <2>2. CASE FireIntervalTimer
    <3>1. misc' \in Misc
      BY <2>2 DEF FireIntervalTimer, Misc, Configured
    <3> QED
      BY <2>2, <3>1 DEF FireIntervalTimer
  <2>3. ASSUME NEW src \in Sources, ReportNxm(src) PROVE TypeOK'
    BY <2>3, NxmType DEF ReportNxm, Lines
  <2>4. ASSUME NEW l \in DevLines, AssertInterrupt(l) \/ DeassertInterrupt(l)
        PROVE  TypeOK'
    BY <2>4 DEF AssertInterrupt, DeassertInterrupt, Lines
  <2>5. CASE DivertTimer
    <3>1. 0 \in CPUs
      BY <2>5 DEF DivertTimer, Configured
    <3> QED
      BY <2>5, <3>1 DEF DivertTimer
  <2>6. CASE DivertIpi
    <3>1. 0 \in CPUs
      BY <2>6 DEF DivertIpi, Configured
    <3> QED
      BY <2>6, <3>1 DEF DivertIpi
  <2>7. CASE Reload
    BY <2>7 DEF Reload, Restored, Configured
  <2>8. CASE Reset
    BY <2>8, ResetType DEF Reset
  <2>9. CASE UNCHANGED vars
    BY <2>9 DEF vars
  <2> QED
    BY <2>1, <2>2, <2>3, <2>4, <2>5, <2>6, <2>7, <2>8, <2>9 DEF Next
<1> QED
  BY <1>1, <1>2, PTL DEF Spec

(* DRIR<63> is up exactly while MISC<NXM> is set, through latchNxm, the    *)
(* acknowledge in miscWriteW1C, device lines, resets and reloads.          *)
THEOREM NxmIsMirrored == Spec => []NxmMirrored
<1>1. Init => NxmMirrored
  BY DEF Init, NxmMirrored, MiscReset
<1>2. TypeOK /\ NxmMirrored /\ [Next]_vars => NxmMirrored'
  <2> SUFFICES ASSUME TypeOK, NxmMirrored, [Next]_vars PROVE NxmMirrored'
    OBVIOUS
  <2> USE DEF TypeOK, NxmMirrored
  <2>1. ASSUME NEW w \in Writes, MiscWrite(w) PROVE NxmMirrored'
    <3>1. w.nxm \in BOOLEAN /\ misc.nxm \in BOOLEAN
      BY CchipUnitAssumption DEF MiscWrites, Misc
    <3>2. misc'.nxm = (misc.nxm /\ ~w.nxm)
      BY <2>1 DEF MiscWrite, MiscAfterWrite, Misc
    <3>3. drir' = IF w.nxm THEN drir \ {ErrorLine} ELSE drir
      BY <2>1 DEF MiscWrite, DrirAfterWrite
    <3> QED
      BY <3>1, <3>2, <3>3
  <2>2. CASE FireIntervalTimer
    BY <2>2 DEF FireIntervalTimer, Misc
  <2>3. ASSUME NEW src \in Sources, ReportNxm(src) PROVE NxmMirrored'
    BY <2>3 DEF ReportNxm, MiscAfterNxm, Misc
  <2>4. ASSUME NEW l \in DevLines, AssertInterrupt(l) \/ DeassertInterrupt(l)
        PROVE  NxmMirrored'
    BY <2>4, CchipAssumption DEF AssertInterrupt, DeassertInterrupt
  <2>5. CASE DivertTimer \/ DivertIpi \/ Reload
    BY <2>5 DEF DivertTimer, DivertIpi, Reload, Restored
  <2>6. CASE Reset
    BY <2>6 DEF Reset, MiscReset
  <2>7. CASE UNCHANGED vars
    BY <2>7 DEF vars
  <2> QED
    BY <2>1, <2>2, <2>3, <2>4, <2>5, <2>6, <2>7 DEF Next
<1> QED
  BY <1>1, <1>2, TypeCorrect, PTL DEF Spec

\* What a write leaves of the two cause fields.
LEMMA WriteCauses ==
  ASSUME NEW m \in Misc, NEW w \in MiscWrites
  PROVE  /\ MiscAfterWrite(m, w).itintr = m.itintr \ w.itintr
         /\ MiscAfterWrite(m, w).ipintr = (m.ipintr \ w.ipintr) \union w.ipreq
BY DEF Misc, MiscWrites, MiscAfterWrite

(* A pending b_irq<2> or b_irq<3> latch has its cause bit in MISC, whatever *)
(* fields a single firmware write combines.                                *)
THEOREM LatchesAreBacked == Spec => []LatchBacked
<1>1. Init => LatchBacked
  BY DEF Init, LatchBacked
<1>2. TypeOK /\ LatchBacked /\ [Next]_vars => LatchBacked'
  <2> SUFFICES ASSUME TypeOK, LatchBacked, [Next]_vars PROVE LatchBacked'
    OBVIOUS
  <2> USE DEF TypeOK, LatchBacked
  <2>1. ASSUME NEW w \in Writes, MiscWrite(w) PROVE LatchBacked'
    <3>1. /\ misc'.itintr = misc.itintr \ w.itintr
          /\ misc'.ipintr = (misc.ipintr \ w.ipintr) \union w.ipreq
      BY <2>1, WriteCauses, CchipUnitAssumption DEF MiscWrite
    <3>2. /\ irq2' = irq2 \ w.itintr
          /\ irq3' = (irq3 \union (w.ipreq \intersect Configured)) \ w.ipintr
      BY <2>1 DEF MiscWrite, Irq2AfterWrite, Irq3AfterAck, Irq3AfterRequest
    <3> QED
      BY <3>1, <3>2
  <2>2. CASE FireIntervalTimer
    BY <2>2 DEF FireIntervalTimer, Misc
  <2>3. ASSUME NEW src \in Sources, ReportNxm(src) PROVE LatchBacked'
    BY <2>3 DEF ReportNxm, MiscAfterNxm, Misc
  <2>4. ASSUME NEW l \in DevLines, AssertInterrupt(l) \/ DeassertInterrupt(l)
        PROVE  LatchBacked'
    BY <2>4 DEF AssertInterrupt, DeassertInterrupt
  <2>5. CASE DivertTimer \/ DivertIpi \/ Reload
    BY <2>5 DEF DivertTimer, DivertIpi, Reload, Restored
  <2>6. CASE Reset
    BY <2>6 DEF Reset, MiscReset
  <2>7. CASE UNCHANGED vars
    BY <2>7 DEF vars
  <2> QED
    BY <2>1, <2>2, <2>3, <2>4, <2>5, <2>6, <2>7 DEF Next
<1> QED
  BY <1>1, <1>2, TypeCorrect, PTL DEF Spec

(* With firmware that never acknowledges and requests the same             *)
(* interprocessor interrupt in one write, no handler loses a tick or a     *)
(* request.                                                                *)
THEOREM NothingIsLost ==
  ASSUME \A w \in Writes : w.ipreq \intersect w.ipintr = {}
  PROVE  Spec => []NoInterruptLost
<1>1. Init => NoInterruptLost
  BY DEF Init, NoInterruptLost, MiscReset
<1>2. TypeOK /\ NoInterruptLost /\ [Next]_vars => NoInterruptLost'
  <2> SUFFICES ASSUME TypeOK, NoInterruptLost, [Next]_vars,
                      NEW n \in Configured
               PROVE  /\ n \in misc'.itintr => n \in irq2' \union taken2'
                      /\ n \in misc'.ipintr => n \in irq3' \union taken3'
    BY DEF NoInterruptLost
  <2> DEFINE Goal == /\ n \in misc'.itintr => n \in irq2' \union taken2'
                     /\ n \in misc'.ipintr => n \in irq3' \union taken3'
  <2>0. /\ n \in misc.itintr => n \in irq2 \union taken2
        /\ n \in misc.ipintr => n \in irq3 \union taken3
    BY DEF NoInterruptLost
  <2> USE DEF TypeOK
  <2>1. ASSUME NEW w \in Writes, MiscWrite(w) PROVE Goal
    <3>1. /\ misc'.itintr = misc.itintr \ w.itintr
          /\ misc'.ipintr = (misc.ipintr \ w.ipintr) \union w.ipreq
      BY <2>1, WriteCauses, CchipUnitAssumption DEF MiscWrite
    <3>2. /\ irq2' = irq2 \ w.itintr
          /\ irq3' = (irq3 \union (w.ipreq \intersect Configured)) \ w.ipintr
          /\ taken2' = taken2 \ w.itintr
          /\ taken3' = taken3 \ (w.ipreq \union w.ipintr)
      BY <2>1 DEF MiscWrite, Irq2AfterWrite, Irq3AfterAck, Irq3AfterRequest
    <3>3. w.ipreq \intersect w.ipintr = {}
      BY <2>1
    <3> QED
      BY <2>0, <3>1, <3>2, <3>3
  <2>2. CASE FireIntervalTimer
    BY <2>0, <2>2 DEF FireIntervalTimer, Misc
  <2>3. ASSUME NEW src \in Sources, ReportNxm(src) PROVE Goal
    BY <2>0, <2>3 DEF ReportNxm, MiscAfterNxm, Misc
  <2>4. ASSUME NEW l \in DevLines, AssertInterrupt(l) \/ DeassertInterrupt(l)
        PROVE  Goal
    BY <2>0, <2>4 DEF AssertInterrupt, DeassertInterrupt
  <2>5. CASE DivertTimer \/ DivertIpi
    BY <2>0, <2>5 DEF DivertTimer, DivertIpi
  <2>6. CASE Reload
    BY <2>0, <2>6 DEF Reload, Restored
  <2>7. CASE Reset
    BY <2>7 DEF Reset, MiscReset
  <2>8. CASE UNCHANGED vars
    BY <2>0, <2>8 DEF vars
  <2> QED
    BY <2>1, <2>2, <2>3, <2>4, <2>5, <2>6, <2>7, <2>8 DEF Next
<1> QED
  BY <1>1, <1>2, TypeCorrect, PTL DEF Spec

\* What a write leaves of the two arbitration fields.
LEMMA WriteArbitration ==
  ASSUME NEW m \in Misc, NEW w \in MiscWrites
  PROVE  /\ MiscAfterWrite(m, w).abt = IF w.acl THEN {} ELSE m.abt \union w.abt
         /\ MiscAfterWrite(m, w).abw =
              IF w.acl THEN {} ELSE m.abw \union w.abw \union Winners(m, w)
BY DEF Misc, MiscWrites, MiscAfterWrite

(* With firmware in which a CPU tries for itself and none sets a winner    *)
(* outright, the boot arbitration has at most one winner: a try is         *)
(* promoted only while no earlier one is recorded, a winner stays recorded *)
(* as a try, and only ACL and reset forget either.                         *)
THEOREM ArbitrationHasOneWinner ==
  ASSUME \A w \in Writes : w.abw = {} /\ Cardinality(w.abt) <= 1
  PROVE  Spec => []OneWinner
<1>1. Init => OneWinner
  BY FS_EmptySet DEF Init, OneWinner, MiscReset
<1>2. TypeOK /\ OneWinner /\ [Next]_vars => OneWinner'
  <2> SUFFICES ASSUME TypeOK, OneWinner, [Next]_vars PROVE OneWinner'
    OBVIOUS
  <2> USE DEF TypeOK, OneWinner
  <2>1. ASSUME NEW w \in Writes, MiscWrite(w) PROVE OneWinner'
    <3>1. w.abw = {} /\ Cardinality(w.abt) <= 1
      OBVIOUS
    <3>2. /\ misc'.abt = IF w.acl THEN {} ELSE misc.abt \union w.abt
          /\ misc'.abw = IF w.acl THEN {} ELSE misc.abw \union Winners(misc, w)
      BY <2>1, <3>1, WriteArbitration, CchipUnitAssumption DEF MiscWrite
    <3>3. CASE w.acl
      BY <3>2, <3>3, FS_EmptySet
    <3>4. CASE ~w.acl /\ misc.abt = {}
      BY <3>1, <3>2, <3>4 DEF Winners
    <3>5. CASE ~w.acl /\ misc.abt # {}
      BY <3>2, <3>5 DEF Winners
    <3> QED
      BY <3>3, <3>4, <3>5
  <2>2. CASE FireIntervalTimer
    BY <2>2 DEF FireIntervalTimer, Misc
  <2>3. ASSUME NEW src \in Sources, ReportNxm(src) PROVE OneWinner'
    BY <2>3 DEF ReportNxm, MiscAfterNxm, Misc
  <2>4. ASSUME NEW l \in DevLines, AssertInterrupt(l) \/ DeassertInterrupt(l)
        PROVE  OneWinner'
    BY <2>4 DEF AssertInterrupt, DeassertInterrupt
  <2>5. CASE DivertTimer \/ DivertIpi \/ Reload
    BY <2>5 DEF DivertTimer, DivertIpi, Reload, Restored
  <2>6. CASE Reset
    BY <2>6, FS_EmptySet DEF Reset, MiscReset
  <2>7. CASE UNCHANGED vars
    BY <2>7 DEF vars
  <2> QED
    BY <2>1, <2>2, <2>3, <2>4, <2>5, <2>6, <2>7 DEF Next
<1> QED
  BY <1>1, <1>2, TypeCorrect, PTL DEF Spec
=============================================================================
