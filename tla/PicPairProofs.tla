---------------------------- MODULE PicPairProofs ----------------------------
(***************************************************************************)
(* Proofs about PicPair, for any lines, masks and vector bases: the        *)
(* register files keep their types, and the guarantees of the controller   *)
(* pair hold of every step.  All of them come down to one fact: the level  *)
(* unitPending returns is eligible.                                        *)
(***************************************************************************)
EXTENDS MCPic, SequenceTheorems, TLAPS

\* A set of levels that is not empty has a highest-priority member.
LEMMA HighestIsLeast ==
  ASSUME NEW S \in SUBSET Levels, S # {}
  PROVE  Highest(S) \in S /\ \A j \in S : Highest(S) <= j
<1>1. \E l \in S : \A j \in S : l <= j
  <2>1. CASE 0 \in S
    BY <2>1 DEF Levels
  <2>2. CASE 0 \notin S /\ 1 \in S
    BY <2>2 DEF Levels
  <2>3. CASE 0 \notin S /\ 1 \notin S /\ 2 \in S
    BY <2>3 DEF Levels
  <2>4. CASE 0 \notin S /\ 1 \notin S /\ 2 \notin S /\ 3 \in S
    BY <2>4 DEF Levels
  <2>5. CASE /\ 0 \notin S /\ 1 \notin S /\ 2 \notin S /\ 3 \notin S
             /\ 4 \in S
    BY <2>5 DEF Levels
  <2>6. CASE /\ 0 \notin S /\ 1 \notin S /\ 2 \notin S /\ 3 \notin S
             /\ 4 \notin S /\ 5 \in S
    BY <2>6 DEF Levels
  <2>7. CASE /\ 0 \notin S /\ 1 \notin S /\ 2 \notin S /\ 3 \notin S
             /\ 4 \notin S /\ 5 \notin S /\ 6 \in S
    BY <2>7 DEF Levels
  <2>8. CASE /\ 0 \notin S /\ 1 \notin S /\ 2 \notin S /\ 3 \notin S
             /\ 4 \notin S /\ 5 \notin S /\ 6 \notin S
    <3>1. PICK l \in S : TRUE
      OBVIOUS
    <3>2. \A j \in S : j = 7
      BY <2>8 DEF Levels
    <3> QED
      BY <3>1, <3>2
  <2> QED
    BY <2>1, <2>2, <2>3, <2>4, <2>5, <2>6, <2>7, <2>8
<1> QED
  BY <1>1 DEF Highest

\* What unitPending finds is a level the unit may serve, and the first one.
LEMMA PendingIsEligible ==
  ASSUME NEW u \in UnitType, NEW extra \in SUBSET Levels,
         UnitPending(u, extra) # NoLevel
  PROVE  /\ UnitPending(u, extra) \in Levels
         /\ u.init = "Ready"
         /\ UnitPending(u, extra) \in (u.irr \cup extra) \ u.imr
         /\ \A j \in u.isr : UnitPending(u, extra) < j
         /\ \A j \in u.irr \ u.imr : UnitPending(u, extra) <= j
<1> DEFINE E == Eligible(u, extra)
<1>1. E \in SUBSET Levels
  BY DEF Eligible, UnitType
<1>2. u.init = "Ready" /\ E # {} /\ UnitPending(u, extra) = Highest(E)
  BY DEF UnitPending
<1>3. Highest(E) \in E /\ \A j \in E : Highest(E) <= j
  BY <1>1, <1>2, HighestIsLeast
<1>4. UnitPending(u, extra) \in Levels
  BY <1>1, <1>2, <1>3
<1>5. ASSUME NEW j \in u.irr \ u.imr
      PROVE  Highest(E) <= j
  <2>1. CASE j \in E
    BY <1>3, <2>1
  <2>2. CASE j \notin E
    <3>1. PICK n \in u.isr : ~(j < n)
      BY <2>2 DEF Eligible
    <3>2. Highest(E) < n
      BY <1>3, <3>1 DEF Eligible
    <3>3. j \in Int /\ n \in Int /\ Highest(E) \in Int
      BY <1>2, <1>4 DEF UnitType, Levels
    <3> HIDE DEF E
    <3> QED
      BY <3>1, <3>2, <3>3
  <2> QED
    BY <2>1, <2>2
<1> QED
  BY <1>1, <1>2, <1>3, <1>4, <1>5 DEF Eligible

\* Moving a level into service keeps a unit a unit.
LEMMA TransferType ==
  ASSUME NEW u \in UnitType, NEW l \in Levels
  PROVE  /\ TransferIrrToIsr(u, l) \in UnitType
         /\ TransferIrrToIsr(u, l).irr = u.irr \ {l}
         /\ TransferIrrToIsr(u, l).isr = u.isr \cup {l}
         /\ TransferIrrToIsr(u, l).init = u.init
         /\ TransferIrrToIsr(u, l).poll = u.poll
BY DEF TransferIrrToIsr, UnitType

\* The three outcomes of acknowledge, with what is known of the level.
LEMMA AcknowledgeCases ==
  ASSUME TypeOK
  PROVE  \/ Acknowledge(pic) = pic
         \/ /\ FromSlave(pic)
            /\ SlaveLevel(pic) # NoLevel
            /\ MasterLevel(pic) = CascadeIr
            /\ Acknowledge(pic) =
                 [pic EXCEPT !.unit = [i \in Units |-> TransferIrrToIsr(@[i],
                                IF i = 0 THEN CascadeIr ELSE SlaveLevel(pic))]]
         \/ /\ MasterLevel(pic) # NoLevel
            /\ MasterLevel(pic) = CascadeIr => SlaveLevel(pic) = NoLevel
            /\ Acknowledge(pic) =
                 [pic EXCEPT !.unit[0] = TransferIrrToIsr(@, MasterLevel(pic))]
BY DEF Acknowledge, OutputAsserted, PendingLevel, FromSlave

\* What a step that leaves a unit alone, or stutters, cannot disturb.
LEMMA UnitOfType ==
  ASSUME TypeOK, NEW i \in Units
  PROVE  pic.unit[i] \in UnitType
BY DEF TypeOK

\* One unit replaced by another unit.
LEMMA OnUnitKeeps ==
  ASSUME TypeOK, NEW i \in Units, NEW u, OnUnit(i, u)
  PROVE  /\ pic'.unit[i] = u
         /\ \A j \in Units \ {i} : pic'.unit[j] = pic.unit[j]
         /\ pic'.high = pic.high
         /\ u \in UnitType => TypeOK'
BY DEF TypeOK, OnUnit

\* Where a non-specific EOI and a poll leave a unit.
LEMMA EoiType ==
  ASSUME NEW u \in UnitType
  PROVE  /\ WriteEoi(u) \in UnitType
         /\ WriteEoi(u).irr = u.irr
         /\ WriteEoi(u).isr \subseteq u.isr
BY DEF WriteEoi, UnitType

LEMMA ReadBaseCases ==
  ASSUME NEW u \in UnitType
  PROVE  /\ ReadBase(u) \in UnitType
         /\ \/ ReadBase(u).irr = u.irr /\ ReadBase(u).isr = u.isr
            \/ \E l \in {UnitPending(u, {})} :
               /\ l # NoLevel
               /\ u.poll /\ ~ReadBase(u).poll
               /\ ReadBase(u).irr = u.irr \ {l}
               /\ ReadBase(u).isr = u.isr \cup {l}
<1> DEFINE l == UnitPending(u, {})
           v == [u EXCEPT !.poll = FALSE]
<1>1. v \in UnitType /\ v.irr = u.irr /\ v.isr = u.isr /\ v.poll = FALSE
  BY DEF UnitType
<1>2. CASE ~u.poll
  <2>1. ReadBase(u) = u
    BY <1>2 DEF ReadBase
  <2> QED
    BY <2>1
<1>3. CASE u.poll /\ l = NoLevel
  <2>1. ReadBase(u) = v
    BY <1>3 DEF ReadBase
  <2> QED
    BY <1>1, <2>1
<1>4. CASE u.poll /\ l # NoLevel
  <2>1. l \in Levels
    BY <1>4, PendingIsEligible
  <2>2. ReadBase(u) = TransferIrrToIsr(v, l)
    BY <1>4 DEF ReadBase
  <2>3. /\ ReadBase(u) \in UnitType
        /\ ReadBase(u).irr = u.irr \ {l}
        /\ ReadBase(u).isr = u.isr \cup {l}
        /\ ~ReadBase(u).poll
    <3> HIDE DEF l, v
    <3> QED
      BY <1>1, <2>1, <2>2, TransferType
  <2> QED
    BY <1>4, <2>3
<1> QED
  BY <1>2, <1>3, <1>4

----------------------------------------------------------------------------
\* Level l of unit i goes into service, as unitPending's scan allows it.
Serves(i, l) ==
  /\ pic'.unit[i].irr = pic.unit[i].irr \ {l}
  /\ pic'.unit[i].isr = pic.unit[i].isr \cup {l}
  /\ pic.unit[i].init = "Ready"
  /\ l \notin pic.unit[i].imr
  /\ \A j \in pic.unit[i].isr : l < j
  /\ \A j \in pic.unit[i].irr \ pic.unit[i].imr : l <= j

\* Nothing goes into service on unit i, and no request of it is withdrawn
\* unless the unit is being initialised.
Quiet(i) ==
  /\ pic'.unit[i].isr \subseteq pic.unit[i].isr
  /\ \/ pic.unit[i].irr \subseteq pic'.unit[i].irr
     \/ pic'.unit[i].init = "ExpectIcw2"

\* What one step may do to a unit; every property below is read off it.
Effect(i) ==
  \/ Quiet(i)
  \/ /\ \E l \in Levels : Serves(i, l)
     /\ i = 1 => \/ CascadeIr \in pic'.unit[0].isr
                 \/ pic.unit[1].poll /\ ~pic'.unit[1].poll

\* The INTA cycle.
LEMMA IntaEffect ==
  ASSUME TypeOK, Inta
  PROVE  TypeOK' /\ \A i \in Units : Effect(i)
<1> DEFINE s == SlaveLevel(pic)
           j == MasterLevel(pic)
           x == IF s # NoLevel THEN {CascadeIr} ELSE {}
<1>1. pic.unit[0] \in UnitType /\ pic.unit[1] \in UnitType
  BY UnitOfType DEF Units
<1>2. x \in SUBSET Levels /\ {} \in SUBSET Levels
  BY DEF Levels, CascadeIr
<1>3. s # NoLevel =>
        /\ s \in Levels
        /\ pic.unit[1].init = "Ready"
        /\ s \notin pic.unit[1].imr
        /\ \A k \in pic.unit[1].isr : s < k
        /\ \A k \in pic.unit[1].irr \ pic.unit[1].imr : s <= k
  BY <1>1, <1>2, PendingIsEligible DEF SlaveLevel
<1>4. j # NoLevel =>
        /\ j \in Levels
        /\ pic.unit[0].init = "Ready"
        /\ j \notin pic.unit[0].imr
        /\ \A k \in pic.unit[0].isr : j < k
        /\ \A k \in pic.unit[0].irr \ pic.unit[0].imr : j <= k
  BY <1>1, <1>2, PendingIsEligible DEF MasterLevel
<1>5. CASE Acknowledge(pic) = pic
  BY <1>5 DEF Inta, TypeOK, Effect, Quiet
<1>6. CASE /\ s # NoLevel
           /\ j = CascadeIr
           /\ Acknowledge(pic) =
                [pic EXCEPT !.unit = [i \in Units |-> TransferIrrToIsr(@[i],
                                        IF i = 0 THEN CascadeIr ELSE s)]]
  <2>1. /\ pic'.unit = [i \in Units |-> TransferIrrToIsr(pic.unit[i],
                                           IF i = 0 THEN CascadeIr ELSE s)]
        /\ pic' = [unit |-> pic'.unit, high |-> pic.high]
    BY <1>6 DEF Inta, TypeOK
  <2>2. /\ pic'.unit[0] = TransferIrrToIsr(pic.unit[0], CascadeIr)
        /\ pic'.unit[1] = TransferIrrToIsr(pic.unit[1], s)
    BY <2>1 DEF Units
  <2>3. j # NoLevel /\ CascadeIr \in Levels
    BY <1>6 DEF NoLevel, CascadeIr, Levels
  <2>4. /\ TransferIrrToIsr(pic.unit[0], CascadeIr) \in UnitType
        /\ TransferIrrToIsr(pic.unit[1], s) \in UnitType
    BY <1>1, <1>3, <1>6, <2>3, TransferType
  <2>5. TypeOK'
    BY <2>1, <2>4 DEF TypeOK, Units
  <2>6. Serves(0, CascadeIr) /\ Serves(1, s)
    BY <1>1, <1>3, <1>4, <1>6, <2>2, <2>3, TransferType DEF Serves
  <2>7. CascadeIr \in pic'.unit[0].isr
    BY <2>6 DEF Serves
  <2> QED
    BY <1>3, <1>6, <2>3, <2>5, <2>6, <2>7 DEF Effect, Units
<1>7. CASE /\ j # NoLevel
           /\ Acknowledge(pic) =
                [pic EXCEPT !.unit[0] = TransferIrrToIsr(@, j)]
  <2>1. /\ pic'.unit = [pic.unit EXCEPT ![0] = TransferIrrToIsr(@, j)]
        /\ pic' = [unit |-> pic'.unit, high |-> pic.high]
    BY <1>7 DEF Inta, TypeOK
  <2>2. /\ pic'.unit[0] = TransferIrrToIsr(pic.unit[0], j)
        /\ pic'.unit[1] = pic.unit[1]
    BY <2>1 DEF TypeOK, Units
  <2>3. TransferIrrToIsr(pic.unit[0], j) \in UnitType
    BY <1>1, <1>4, <1>7, TransferType
  <2>4. TypeOK'
    BY <2>1, <2>3 DEF TypeOK, Units
  <2>5. Serves(0, j)
    BY <1>1, <1>4, <1>7, <2>2, TransferType DEF Serves
  <2>6. Quiet(1)
    BY <2>2 DEF Quiet
  <2> QED
    BY <1>4, <1>7, <2>4, <2>5, <2>6 DEF Effect, Units
<1> QED
  BY <1>5, <1>6, <1>7, AcknowledgeCases

\* Latching a request keeps a unit a unit.
LEMMA LatchType ==
  ASSUME NEW u \in UnitType, NEW l \in Levels
  PROVE  /\ [u EXCEPT !.irr = @ \cup {l}] \in UnitType
         /\ [u EXCEPT !.irr = @ \cup {l}].isr = u.isr
         /\ [u EXCEPT !.irr = @ \cup {l}].irr = u.irr \cup {l}
BY DEF UnitType

\* A change of an input line only ever adds a request.
LEMMA DriveEffect ==
  ASSUME TypeOK, NEW line \in Lines, NEW level \in BOOLEAN, Drive(line, level)
  PROVE  TypeOK' /\ \A i \in Units : Effect(i)
<1> DEFINE k == line \div 8
           l == line % 8
           h == IF level THEN pic.high \cup {line} ELSE pic.high \ {line}
<1>1. k \in Units /\ l \in Levels
  BY PicAssumption DEF Units, Levels
<1>2. h \in SUBSET Lines
  BY DEF TypeOK
<1>3. CASE level /\ line \notin pic.high
  <2>1. pic' = [unit |-> [pic.unit EXCEPT ![k].irr = @ \cup {l}], high |-> h]
    BY <1>3 DEF Drive, SetIrqInput
  <2> HIDE DEF k, l, h
  <2>2. \A i \in Units :
          /\ pic'.unit[i] = IF i = k THEN [pic.unit[i] EXCEPT !.irr = @ \cup {l}]
                                     ELSE pic.unit[i]
          /\ pic.unit[i] \in UnitType
    BY <1>1, <2>1 DEF TypeOK
  <2>3. ASSUME NEW i \in Units
        PROVE  /\ pic'.unit[i] \in UnitType
               /\ pic'.unit[i].isr = pic.unit[i].isr
               /\ pic.unit[i].irr \subseteq pic'.unit[i].irr
    <3>1. pic.unit[i] \in UnitType
      BY <2>2
    <3>2. CASE i = k
      <4>1. pic'.unit[i] = [pic.unit[i] EXCEPT !.irr = @ \cup {l}]
        BY <2>2, <3>2
      <4> QED
        BY <1>1, <3>1, <4>1, LatchType
    <3>3. CASE i # k
      BY <2>2, <3>1, <3>3
    <3> QED
      BY <3>2, <3>3
  <2>4. pic'.unit \in [Units -> UnitType]
    BY <2>1, <2>3 DEF TypeOK
  <2>5. TypeOK'
    BY <1>2, <2>1, <2>4 DEF TypeOK
  <2> QED
    BY <2>3, <2>5 DEF Effect, Quiet
<1>4. CASE ~(level /\ line \notin pic.high)
  <2>1. pic' = [unit |-> pic.unit, high |-> h]
    BY <1>4 DEF Drive, SetIrqInput
  <2> HIDE DEF h
  <2> QED
    BY <1>2, <2>1 DEF TypeOK, Effect, Quiet
<1> QED
  BY <1>3, <1>4

\* A write to a port of one unit takes nothing into service.
LEMMA WriteEffect ==
  ASSUME TypeOK, NEW i \in Units, NEW u \in UnitType, OnUnit(i, u),
         u.isr \subseteq pic.unit[i].isr,
         pic.unit[i].irr \subseteq u.irr \/ u.init = "ExpectIcw2"
  PROVE  TypeOK' /\ \A j \in Units : Effect(j)
BY OnUnitKeeps DEF Effect, Quiet

\* Reading a base port may be a poll.
LEMMA ReadEffect ==
  ASSUME TypeOK, NEW i \in Units, IoReadBase(i)
  PROVE  TypeOK' /\ \A j \in Units : Effect(j)
<1> DEFINE u == pic.unit[i]
           v == ReadBase(u)
           l == UnitPending(u, {})
<1>1. u \in UnitType /\ v \in UnitType
  BY UnitOfType, ReadBaseCases
<1>2. OnUnit(i, v)
  BY DEF IoReadBase
<1>3. CASE v.irr = u.irr /\ v.isr = u.isr
  BY <1>1, <1>2, <1>3, WriteEffect
<1>4. CASE /\ l # NoLevel
           /\ u.poll /\ ~v.poll
           /\ v.irr = u.irr \ {l}
           /\ v.isr = u.isr \cup {l}
  <2>1. /\ pic'.unit[i] = v
        /\ \A j \in Units \ {i} : pic'.unit[j] = pic.unit[j]
        /\ TypeOK'
    BY <1>1, <1>2, OnUnitKeeps
  <2>2. /\ l \in Levels
        /\ u.init = "Ready"
        /\ l \in (u.irr \cup {}) \ u.imr
        /\ \A j \in u.isr : l < j
        /\ \A j \in u.irr \ u.imr : l <= j
    BY <1>1, <1>4, PendingIsEligible
  <2>3. Serves(i, l)
    <3> HIDE DEF v, l
    <3> QED
      BY <1>4, <2>1, <2>2 DEF Serves
  <2>4. i = 1 => pic.unit[1].poll /\ ~pic'.unit[1].poll
    BY <1>4, <2>1
  <2>5. Effect(i)
    BY <2>2, <2>3, <2>4 DEF Effect
  <2>6. \A j \in Units \ {i} : Effect(j)
    BY <2>1 DEF Effect, Quiet
  <2> QED
    BY <2>1, <2>5, <2>6
<1> QED
  BY <1>1, <1>3, <1>4, ReadBaseCases

\* Every step keeps the types and affects a unit in one of the two ways.
LEMMA StepEffect ==
  ASSUME TypeOK, [Next]_pic
  PROVE  TypeOK' /\ \A i \in Units : Effect(i)
<1>1. CASE UNCHANGED pic
  BY <1>1 DEF TypeOK, Effect, Quiet
<1>2. ASSUME NEW line \in Lines, NEW level \in BOOLEAN, Drive(line, level)
      PROVE  TypeOK' /\ \A i \in Units : Effect(i)
  BY <1>2, DriveEffect
<1>3. CASE Inta
  BY <1>3, IntaEffect
<1>4. ASSUME NEW i \in Units, IoReadBase(i)
      PROVE  TypeOK' /\ \A j \in Units : Effect(j)
  BY <1>4, ReadEffect
<1>5. ASSUME NEW i \in Units, IoIcw1(i)
      PROVE  TypeOK' /\ \A j \in Units : Effect(j)
  <2>1. pic.unit[i] \in UnitType
    BY UnitOfType
  <2>2. /\ WriteIcw1(pic.unit[i]) \in UnitType
        /\ WriteIcw1(pic.unit[i]).isr = {}
        /\ WriteIcw1(pic.unit[i]).init = "ExpectIcw2"
    BY <2>1 DEF WriteIcw1, UnitType, InitStates
  <2> QED
    BY <1>5, <2>2, WriteEffect DEF IoIcw1
<1>6. ASSUME NEW i \in Units, NEW rr \in {0, 2, 3}, NEW p \in BOOLEAN,
             IoOcw3(i, rr, p)
      PROVE  TypeOK' /\ \A j \in Units : Effect(j)
  <2>1. pic.unit[i] \in UnitType
    BY UnitOfType
  <2>2. /\ WriteOcw3(pic.unit[i], rr, p) \in UnitType
        /\ WriteOcw3(pic.unit[i], rr, p).isr = pic.unit[i].isr
        /\ WriteOcw3(pic.unit[i], rr, p).irr = pic.unit[i].irr
    BY <2>1 DEF WriteOcw3, UnitType
  <2> QED
    BY <1>6, <2>2, WriteEffect DEF IoOcw3
<1>7. ASSUME NEW i \in Units, IoEoi(i)
      PROVE  TypeOK' /\ \A j \in Units : Effect(j)
  <2>1. pic.unit[i] \in UnitType
    BY UnitOfType
  <2> QED
    BY <1>7, <2>1, EoiType, WriteEffect DEF IoEoi
<1>8. ASSUME NEW i \in Units, NEW l \in Levels, IoSpecificEoi(i, l)
      PROVE  TypeOK' /\ \A j \in Units : Effect(j)
  <2>1. pic.unit[i] \in UnitType
    BY UnitOfType
  <2>2. /\ WriteSpecificEoi(pic.unit[i], l) \in UnitType
        /\ WriteSpecificEoi(pic.unit[i], l).isr = pic.unit[i].isr \ {l}
        /\ WriteSpecificEoi(pic.unit[i], l).irr = pic.unit[i].irr
    BY <2>1 DEF WriteSpecificEoi, UnitType
  <2> QED
    BY <1>8, <2>2, WriteEffect DEF IoSpecificEoi
<1>9. ASSUME NEW i \in Units, NEW mask \in Masks, NEW base \in Bases,
             IoData(i, mask, base)
      PROVE  TypeOK' /\ \A j \in Units : Effect(j)
  <2>1. pic.unit[i] \in UnitType
    BY UnitOfType
  <2>2. /\ WriteData(pic.unit[i], mask, base) \in UnitType
        /\ WriteData(pic.unit[i], mask, base).isr = pic.unit[i].isr
        /\ WriteData(pic.unit[i], mask, base).irr = pic.unit[i].irr
    <3> mask \in SUBSET Levels
      BY PicAssumption
    <3> QED
      BY <2>1 DEF WriteData, UnitType, InitStates
  <2> QED
    BY <1>9, <2>2, WriteEffect DEF IoData
<1> QED
  BY <1>1, <1>2, <1>3, <1>4, <1>5, <1>6, <1>7, <1>8, <1>9 DEF Next

----------------------------------------------------------------------------
\* The two register files and the edge detector keep their types through
\* every sequence of line changes, INTA cycles and port accesses.
THEOREM TypeCorrect == Spec => []TypeOK
<1>1. Init => TypeOK
  BY DEF Init, ResetPic, ResetUnit, TypeOK, UnitType, InitStates
<1>2. TypeOK /\ [Next]_pic => TypeOK'
  BY StepEffect
<1> QED
  BY <1>1, <1>2, PTL DEF Spec

\* A captured edge leaves IRR only into service or by ICW1: no falling line,
\* mask write or EOI withdraws it.
THEOREM EdgesPersist == Spec => EdgePersists
<1>1. TypeOK /\ [Next]_pic =>
        \A i \in Units : \A l \in pic.unit[i].irr \ pic'.unit[i].irr :
           l \in pic'.unit[i].isr \/ pic'.unit[i].init = "ExpectIcw2"
  BY StepEffect DEF Effect, Quiet, Serves
<1> QED
  BY <1>1, TypeCorrect, PTL DEF Spec, EdgePersists

\* On every path into service (INTA, cascade, poll) a level is unmasked and
\* above all levels its unit already has in service.
THEOREM ServiceNests == Spec => ServiceIsNested
<1>1. TypeOK /\ [Next]_pic =>
        \A i \in Units : \A l \in pic'.unit[i].isr \ pic.unit[i].isr :
           /\ pic.unit[i].init = "Ready"
           /\ l \notin pic.unit[i].imr
           /\ \A j \in pic.unit[i].isr : l < j
  BY StepEffect DEF Effect, Quiet, Serves
<1> QED
  BY <1>1, TypeCorrect, PTL DEF Spec, ServiceIsNested

\* A slave level goes into service together with master level 2, or because
\* the guest polled the slave.
THEOREM CascadeIsServed == Spec => CascadeServesBoth
<1>1. TypeOK /\ [Next]_pic =>
        (pic'.unit[1].isr \ pic.unit[1].isr # {}
           => \/ CascadeIr \in pic'.unit[0].isr
              \/ pic.unit[1].poll /\ ~pic'.unit[1].poll)
  BY StepEffect DEF Effect, Quiet, Units
<1> QED
  BY <1>1, TypeCorrect, PTL DEF Spec, CascadeServesBoth

\* What the master takes into service is its highest-priority unmasked
\* request.
THEOREM NoInversion == Spec => NoPriorityInversion
<1>1. TypeOK /\ [Next]_pic =>
        \A l \in pic'.unit[0].isr \ pic.unit[0].isr :
          \A j \in pic.unit[0].irr \ pic.unit[0].imr : l <= j
  BY StepEffect DEF Effect, Quiet, Serves, Units
<1> QED
  BY <1>1, TypeCorrect, PTL DEF Spec, NoPriorityInversion

-----------------------------------------------------------------------------
(* The controller in the device interrupt path: chipset, processor, guest. *)

\* The path works on the controller of this module.
LEMMA SamePic ==
  /\ Chain!ResetPic = ResetPic /\ Chain!Levels = Levels /\ Chain!NoLevel = NoLevel
  /\ \A p : Chain!OutputAsserted(p) = OutputAsserted(p)
  /\ \A p : Chain!Acknowledge(p) = Acknowledge(p)
  /\ \A p : Chain!Vector(p) = Vector(p)
  /\ \A p, line, level : Chain!SetIrqInput(p, line, level) = SetIrqInput(p, line, level)
  /\ \A u : Chain!WriteIcw1(u) = WriteIcw1(u) /\ Chain!WriteEoi(u) = WriteEoi(u)
  /\ \A u, mask, base : Chain!WriteData(u, mask, base) = WriteData(u, mask, base)
<1>1. /\ Chain!Levels = Levels /\ Chain!NoLevel = NoLevel /\ Chain!Units = Units
      /\ Chain!CascadeIr = CascadeIr
  BY DEF Chain!Levels, Levels, Chain!NoLevel, NoLevel, Chain!Units, Units,
    Chain!CascadeIr, CascadeIr
<1>2. Chain!ResetPic = ResetPic
  BY <1>1, Zenon DEF Chain!ResetPic, ResetPic, Chain!ResetUnit, ResetUnit
<1>3. \A u, x : Chain!Eligible(u, x) = Eligible(u, x)
  BY Zenon DEF Chain!Eligible, Eligible
<1>4. \A S : Chain!Highest(S) = Highest(S)
  BY Zenon DEF Chain!Highest, Highest
<1>5. \A u, x : Chain!UnitPending(u, x) = UnitPending(u, x)
  BY <1>1, <1>3, <1>4, Zenon DEF Chain!UnitPending, UnitPending
<1>6. \A p : Chain!SlaveLevel(p) = SlaveLevel(p)
  BY <1>5, Zenon DEF Chain!SlaveLevel, SlaveLevel
<1>7. \A p : Chain!MasterLevel(p) = MasterLevel(p)
  BY <1>1, <1>5, <1>6, Zenon DEF Chain!MasterLevel, MasterLevel
<1>8. \A p : Chain!FromSlave(p) <=> FromSlave(p)
  BY <1>1, <1>6, <1>7, Zenon DEF Chain!FromSlave, FromSlave
<1>p. \A p : Chain!PendingLevel(p) = PendingLevel(p)
  BY <1>6, <1>7, <1>8, Zenon DEF Chain!PendingLevel, PendingLevel
<1>9. \A p : Chain!OutputAsserted(p) = OutputAsserted(p)
  BY <1>1, <1>p, Zenon DEF Chain!OutputAsserted, OutputAsserted
<1>10. \A u, l : Chain!TransferIrrToIsr(u, l) = TransferIrrToIsr(u, l)
  BY Zenon DEF Chain!TransferIrrToIsr, TransferIrrToIsr
<1>11. \A p : Chain!Acknowledge(p) = Acknowledge(p)
  BY <1>1, <1>6, <1>7, <1>8, <1>9, <1>10 DEF Chain!Acknowledge, Acknowledge
<1>12. \A p : Chain!Vector(p) = Vector(p)
  BY <1>1, <1>6, <1>7, <1>8, <1>9, Zenon DEF Chain!Vector, Vector
<1>13. \A p, line, level : Chain!SetIrqInput(p, line, level) = SetIrqInput(p, line, level)
  BY Zenon DEF Chain!SetIrqInput, SetIrqInput
<1>14. \A u : Chain!WriteIcw1(u) = WriteIcw1(u) /\ Chain!WriteEoi(u) = WriteEoi(u)
  BY <1>4, Zenon DEF Chain!WriteIcw1, WriteIcw1, Chain!WriteEoi, WriteEoi
<1>15. \A u, mask, base : Chain!WriteData(u, mask, base) = WriteData(u, mask, base)
  BY Zenon DEF Chain!WriteData, WriteData
<1> QED
  BY <1>1, <1>2, <1>9, <1>11, <1>12, <1>13, <1>14, <1>15

\* The pair as the firmware leaves it: the slave is never initialised, the
\* master's base is 0 and only the two lines reach it.
WiredMaster(u) == u \in UnitType /\ u.irr \subseteq {4, 6} /\ u.icw2 = 0

Wired(p) ==
  /\ p \in [unit : [Units -> UnitType], high : SUBSET {4, 6}]
  /\ WiredMaster(p.unit[0]) /\ p.unit[1].init = "Idle"

LEMMA MasterOps ==
  ASSUME NEW u, WiredMaster(u), NEW mask \in SUBSET Levels
  PROVE  /\ WiredMaster(WriteIcw1(u)) /\ WiredMaster(WriteEoi(u))
         /\ WiredMaster(WriteData(u, mask, 0))
         /\ \A l \in {4, 6} : WiredMaster([u EXCEPT !.irr = @ \cup {l}])
         /\ \A l \in {4, 6} : WiredMaster(TransferIrrToIsr(u, l))
<1>1. WiredMaster(WriteIcw1(u))
  BY DEF WiredMaster, WriteIcw1, UnitType, InitStates
<1>2. WiredMaster(WriteEoi(u))
  BY DEF WiredMaster, WriteEoi, UnitType
<1>3. WiredMaster(WriteData(u, mask, 0))
  BY DEF WiredMaster, WriteData, UnitType, InitStates
<1>4. \A l \in {4, 6} : WiredMaster([u EXCEPT !.irr = @ \cup {l}])
  BY DEF WiredMaster, UnitType, Levels
<1>5. ASSUME NEW l \in {4, 6}
      PROVE  WiredMaster(TransferIrrToIsr(u, l))
  <2>1. u \in UnitType /\ l \in Levels
    BY DEF WiredMaster, Levels
  <2>2. TransferIrrToIsr(u, l).icw2 = u.icw2
    BY <2>1 DEF TransferIrrToIsr, UnitType
  <2> QED
    BY <2>1, <2>2, TransferType DEF WiredMaster
<1> QED
  BY <1>1, <1>2, <1>3, <1>4, <1>5

LEMMA WiredOutput ==
  ASSUME NEW p, Wired(p)
  PROVE  /\ ~FromSlave(p)
         /\ OutputAsserted(p) <=> MasterLevel(p) # NoLevel
         /\ MasterLevel(p) # NoLevel => MasterLevel(p) \in {4, 6}
         /\ OutputAsserted(p) => Vector(p) \in {4, 6}
<1>1. SlaveLevel(p) = NoLevel
  BY DEF Wired, SlaveLevel, UnitPending
<1>2. ~FromSlave(p) /\ (OutputAsserted(p) <=> MasterLevel(p) # NoLevel)
  BY <1>1 DEF FromSlave, OutputAsserted, PendingLevel
<1>3. MasterLevel(p) = UnitPending(p.unit[0], {})
  BY <1>1 DEF MasterLevel
<1>4. MasterLevel(p) # NoLevel => MasterLevel(p) \in {4, 6}
  BY <1>3, PendingIsEligible DEF Wired, WiredMaster
<1>5. OutputAsserted(p) => Vector(p) = 0 + MasterLevel(p)
  BY <1>2 DEF Vector, Wired, WiredMaster
<1> QED
  BY <1>2, <1>4, <1>5

LEMMA WiredOps ==
  ASSUME NEW p, Wired(p)
  PROVE  /\ \A u : WiredMaster(u) => Wired([p EXCEPT !.unit[0] = u])
         /\ Wired(Acknowledge(p))
         /\ \A line \in {4, 6}, level \in BOOLEAN : Wired(SetIrqInput(p, line, level))
<1>1. \A u : WiredMaster(u) => Wired([p EXCEPT !.unit[0] = u])
  BY DEF Wired, WiredMaster, Units
<1>2. Wired(Acknowledge(p))
  <2>1. CASE ~OutputAsserted(p)
    BY <2>1 DEF Acknowledge
  <2>2. CASE OutputAsserted(p)
    <3>1. /\ MasterLevel(p) \in {4, 6}
          /\ Acknowledge(p) = [p EXCEPT !.unit[0] = TransferIrrToIsr(@, MasterLevel(p))]
      BY <2>2, WiredOutput DEF Acknowledge
    <3>2. WiredMaster(TransferIrrToIsr(p.unit[0], MasterLevel(p)))
      BY <3>1, MasterOps DEF Wired
    <3>3. [p EXCEPT !.unit[0] = TransferIrrToIsr(@, MasterLevel(p))]
            = [p EXCEPT !.unit[0] = TransferIrrToIsr(p.unit[0], MasterLevel(p))]
      BY DEF Wired, Units
    <3> QED
      BY <1>1, <3>1, <3>2, <3>3
  <2> QED
    BY <2>1, <2>2
<1>3. ASSUME NEW line \in {4, 6}, NEW level \in BOOLEAN
      PROVE  Wired(SetIrqInput(p, line, level))
  <2>1. line \div 8 = 0 /\ line % 8 = line
    OBVIOUS
  <2>2. SetIrqInput(p, line, level) =
          [unit |-> IF level /\ line \notin p.high
                    THEN [p.unit EXCEPT ![0].irr = @ \cup {line}] ELSE p.unit,
           high |-> IF level THEN p.high \cup {line} ELSE p.high \ {line}]
    BY <2>1 DEF SetIrqInput
  <2>3. WiredMaster([p.unit[0] EXCEPT !.irr = @ \cup {line}])
    BY MasterOps DEF Wired
  <2>4. [p.unit EXCEPT ![0].irr = @ \cup {line}]
          = [p.unit EXCEPT ![0] = [p.unit[0] EXCEPT !.irr = @ \cup {line}]]
    OBVIOUS
  <2> DEFINE u == [p.unit[0] EXCEPT !.irr = @ \cup {line}]
  <2>5. u \in UnitType
    BY <2>3 DEF WiredMaster
  <2> HIDE DEF u
  <2> QED
    BY <2>2, <2>3, <2>4, <2>5 DEF Wired, Units, u
<1> QED
  BY <1>1, <1>2, <1>3

\* Devices and chipset; what the UART and the queue hold plays no part.
DevicesOk(d) ==
  /\ d \in [uart : {d.uart}, pic : {d.pic}, fdc : BOOLEAN, keys : {d.keys},
            last : BOOLEAN, drir : BOOLEAN]
  /\ Wired(d.pic) /\ d.last = d.drir

\* The record of the devices after an access to one of them.
LEMMA DeviceUpdate ==
  ASSUME NEW d, DevicesOk(d), NEW e, NEW x,
         \/ e = [d EXCEPT !.uart = x] \/ e = [d EXCEPT !.keys = x]
         \/ x \in BOOLEAN /\ e = [d EXCEPT !.fdc = x]
         \/ Wired(x) /\ e = [d EXCEPT !.pic = x]
  PROVE  DevicesOk(e) /\ e.drir = d.drir /\ (Wired(x) \/ e.pic = d.pic)
<1>1. /\ e \in [uart : {e.uart}, pic : {e.pic}, fdc : BOOLEAN, keys : {e.keys},
               last : BOOLEAN, drir : BOOLEAN]
      /\ e.last = d.last /\ e.drir = d.drir
      /\ e.pic = d.pic \/ (Wired(x) /\ e.pic = x)
  BY DEF DevicesOk
<1> QED
  BY <1>1 DEF DevicesOk

\* After evalDeviceIrqs DRIR<55> is the output of the pair.
LEMMA EvalMirrors ==
  ASSUME NEW d, DevicesOk(d)
  PROVE  LET e == Chain!EvalDeviceIrqs(d) IN
         DevicesOk(e) /\ e.drir = OutputAsserted(e.pic)
<1> DEFINE k == Chain!PullKey(d)
           l == Chain!SampleLines(k)
           e == Chain!MirrorOutput(l)
<1>0. Chain!EvalDeviceIrqs(d) = e
  <2>1. \A x : (CHOOSE y \in {Chain!PullKey(z) : z \in {x}} : TRUE) = Chain!PullKey(x)
    OBVIOUS
  <2>2. \A x : (CHOOSE y \in {Chain!SampleLines(z) : z \in {x}} : TRUE) = Chain!SampleLines(x)
    OBVIOUS
  <2>3. \A x : (CHOOSE y \in {Chain!MirrorOutput(z) : z \in {x}} : TRUE) = Chain!MirrorOutput(x)
    OBVIOUS
  <2> QED
    BY <2>1, <2>2, <2>3, Zenon DEF Chain!EvalDeviceIrqs, Chain!Apply
<1>1. DevicesOk(k)
  <2>2. \/ k = d
        \/ k = [d EXCEPT !.uart = Chain!FeedRxByte(d.uart, Chain!Key), !.keys = d.keys - 1]
    BY Zenon DEF Chain!PullKey
  <2> HIDE DEF k
  <2>3. /\ k \in [uart : {k.uart}, pic : {k.pic}, fdc : BOOLEAN, keys : {k.keys},
                 last : BOOLEAN, drir : BOOLEAN]
        /\ k.pic = d.pic /\ k.last = d.last /\ k.drir = d.drir
    BY <2>2 DEF DevicesOk
  <2> QED
    BY <2>3 DEF DevicesOk
<1> HIDE DEF k
<1>2. DevicesOk(l)
  <2> DEFINE q == SetIrqInput(k.pic, 4, Chain!IntPending(k.uart))
             r == SetIrqInput(q, 6, k.fdc)
  <2>1. Wired(q)
    BY <1>1, WiredOps DEF DevicesOk, Chain!IntPending
  <2>2. Wired(r)
    <3> HIDE DEF q
    <3>1. k.fdc \in BOOLEAN
      BY <1>1 DEF DevicesOk
    <3> QED
      BY <2>1, <3>1, WiredOps
  <2>3. l = [k EXCEPT !.pic = r]
    BY SamePic DEF Chain!SampleLines, Chain!Com1Line, Chain!FdcLine
  <2> HIDE DEF l, r
  <2> QED
    BY <1>1, <2>2, <2>3, DeviceUpdate
<1> HIDE DEF l
<1>3. DevicesOk(e) /\ e.drir = OutputAsserted(e.pic)
  <2>1. OutputAsserted(l.pic) \in BOOLEAN
    BY DEF OutputAsserted
  <2>2. e = IF OutputAsserted(l.pic) = l.last THEN l
            ELSE [l EXCEPT !.last = OutputAsserted(l.pic), !.drir = OutputAsserted(l.pic)]
    BY SamePic DEF Chain!MirrorOutput
  <2> HIDE DEF e
  <2>3. CASE OutputAsserted(l.pic) = l.last
    BY <1>2, <2>2, <2>3 DEF DevicesOk
  <2>4. CASE OutputAsserted(l.pic) # l.last
    <3>1. /\ e.last = OutputAsserted(l.pic) /\ e.drir = OutputAsserted(l.pic)
          /\ e.pic = l.pic
      BY <1>2, <2>2, <2>4 DEF DevicesOk
    <3>2. e \in [uart : {e.uart}, pic : {e.pic}, fdc : BOOLEAN, keys : {e.keys},
                 last : BOOLEAN, drir : BOOLEAN]
      BY <1>2, <2>1, <2>2, <2>4 DEF DevicesOk
    <3> QED
      BY <1>2, <3>1, <3>2 DEF DevicesOk
  <2> QED
    BY <2>3, <2>4
<1> QED
  BY <1>0, <1>3

InitPcs   == {"icw1", "icw2", "icw3", "icw4", "ocw1"}
ServePcs  == {"isr", "rx", "thre", "fdcisr", "mask", "eoi", "rei"}
NativePcs == InitPcs \cup {"main"} \cup ServePcs

\* The flow: only native code is on the stack, and below a handler there is
\* what it interrupted.
FlowOk(pc, stack, vec) ==
  /\ pc \in NativePcs \cup Chain!PalPcs /\ stack \in Seq(NativePcs)
  /\ pc \in ServePcs \cup Chain!PalPcs => Len(stack) > 0
  /\ \A i \in 1 .. Len(stack) : stack[i] \in ServePcs => i > 1
  /\ pc = "palrei" => vec \in {4, 6}

\* The fields of the processor's record.
ProcessorFields(c) ==
  c \in [pc : {c.pc}, stack : {c.stack}, ei : {c.ei}, dim : {c.dim}, todo : {c.todo},
         vec : {c.vec}, toSend : {c.toSend}]

ProcessorOk(c) == ProcessorFields(c) /\ FlowOk(c.pc, c.stack, c.vec)

\* The strengthening: DRIR<55> mirrors the output at every boundary, and from
\* the divert to the IACK read the output stays asserted.
ChainInv ==
  /\ DevicesOk(m) /\ m.drir = OutputAsserted(m.pic)
  /\ ProcessorOk(g)
  /\ g.pc = "pal" => OutputAsserted(m.pic)

LEMMA DivertKeeps ==
  ASSUME NEW c, ProcessorOk(c), c.pc \notin Chain!PalPcs
  PROVE  ProcessorOk(Chain!Divert(c)) /\ Chain!Divert(c).pc = "pal"
<1> DEFINE d == Chain!Divert(c)
           s == Append(c.stack, c.pc)
<1>1. c.pc \in NativePcs /\ c.stack \in Seq(NativePcs)
  BY DEF ProcessorOk, FlowOk
<1>2. /\ s \in Seq(NativePcs) /\ Len(s) = Len(c.stack) + 1 /\ Len(c.stack) \in Nat
      /\ \A i \in 1 .. Len(c.stack) : s[i] = c.stack[i]
      /\ s[Len(c.stack) + 1] = c.pc
  BY <1>1
<1>3. d = [c EXCEPT !.pc = "pal", !.stack = s]
  BY DEF Chain!Divert
<1> HIDE DEF s
<1>4. /\ d.pc = "pal" /\ d.stack = s /\ ProcessorFields(d)
  BY <1>3 DEF ProcessorOk, ProcessorFields
<1>5. \A i \in 1 .. Len(s) : s[i] \in ServePcs => i > 1
  <2>1. \A i \in 1 .. Len(c.stack) : c.stack[i] \in ServePcs => i > 1
    BY DEF ProcessorOk, FlowOk
  <2>2. c.pc \in ServePcs => Len(c.stack) > 0
    BY DEF ProcessorOk, FlowOk
  <2> QED
    BY <1>2, <2>1, <2>2
<1>6. Len(s) > 0
  BY <1>2
<1> HIDE DEF d
<1>7. d.pc # "palrei" /\ "pal" \in Chain!PalPcs
  BY <1>4 DEF Chain!PalPcs
<1>8. FlowOk(d.pc, d.stack, d.vec)
  BY <1>2, <1>4, <1>5, <1>6, <1>7 DEF FlowOk
<1> QED
  BY <1>4, <1>8 DEF ProcessorOk, d

\* One instruction and its boundary.
LEMMA BoundaryKeeps ==
  ASSUME NEW d, NEW c, DevicesOk(d), ProcessorOk(c), c.pc # "pal",
         Chain!Boundary(d, c)
  PROVE  ChainInv'
<1>1. /\ m' = Chain!EvalDeviceIrqs(d)
      /\ \/ g' = c
         \/ /\ Chain!CanAccept(c) /\ m'.drir /\ g' = Chain!Divert(c)
  BY DEF Chain!Boundary
<1>2. DevicesOk(m') /\ m'.drir = OutputAsserted(m'.pic)
  BY <1>1, EvalMirrors
<1>3. ProcessorOk(g') /\ (g'.pc = "pal" => OutputAsserted(m'.pic))
  <2>1. CASE g' = c
    BY <2>1
  <2>2. CASE Chain!CanAccept(c) /\ m'.drir /\ g' = Chain!Divert(c)
    BY <1>2, <2>2, DivertKeeps DEF Chain!CanAccept
  <2> QED
    BY <1>1, <2>1, <2>2
<1> QED
  BY <1>2, <1>3 DEF ChainInv

\* The next instruction is native code, a handler's only inside a handler.
LEMMA NextPc ==
  ASSUME ProcessorOk(g), NEW c, ProcessorFields(c), c.stack = g.stack,
         c.pc \in NativePcs, c.pc \in ServePcs => g.pc \in ServePcs \cup Chain!PalPcs
  PROVE  ProcessorOk(c) /\ c.pc # "pal"
<1>1. c.pc \notin Chain!PalPcs /\ c.pc # "pal" /\ c.pc # "palrei"
  BY DEF Chain!PalPcs, NativePcs, InitPcs, ServePcs
<1> QED
  BY <1>1 DEF ProcessorOk, FlowOk

LEMMA GotoKeeps ==
  ASSUME ProcessorOk(g), NEW pc \in NativePcs,
         pc \in ServePcs => g.pc \in ServePcs \cup Chain!PalPcs
  PROVE  ProcessorOk(Chain!Goto(pc)) /\ Chain!Goto(pc).pc # "pal"
<1> DEFINE c == Chain!Goto(pc)
<1>1. ProcessorFields(c) /\ c.pc = pc /\ c.stack = g.stack
  BY DEF Chain!Goto, ProcessorOk, ProcessorFields
<1> HIDE DEF c
<1>2. ProcessorOk(c) /\ c.pc # "pal"
  BY <1>1, NextPc
<1> QED
  BY <1>2 DEF c

\* A device access of the guest, by the part of the record it changes.
LEMMA MasterWrite ==
  ASSUME ChainInv, NEW u, WiredMaster(u)
  PROVE  DevicesOk(Chain!Master(m, u))
<1> DEFINE q == [m.pic EXCEPT !.unit[0] = u]
<1>1. DevicesOk(m)
  BY DEF ChainInv
<1>2. Wired(q)
  BY <1>1, WiredOps DEF DevicesOk
<1>3. Chain!Master(m, u) = [m EXCEPT !.pic = q]
  BY Zenon DEF Chain!Master
<1> DEFINE e == Chain!Master(m, u)
<1> HIDE DEF q, e
<1>4. e = [m EXCEPT !.pic = q]
  BY <1>3 DEF e
<1>5. DevicesOk(e)
  BY <1>1, <1>2, <1>4, DeviceUpdate
<1> QED
  BY <1>5 DEF e

LEMMA InitPicKeeps ==
  ASSUME ChainInv, Chain!InitPic
  PROVE  ChainInv'
<1>0. ProcessorOk(g) /\ WiredMaster(m.pic.unit[0])
  BY DEF ChainInv, DevicesOk, Wired
<1>1. CASE g.pc = "icw1" /\ Chain!Boundary(Chain!Master(m, Chain!WriteIcw1(m.pic.unit[0])),
                                          Chain!Goto("icw2"))
  <2>1. WiredMaster(Chain!WriteIcw1(m.pic.unit[0]))
    BY <1>0, MasterOps, SamePic
  <2>2. DevicesOk(Chain!Master(m, Chain!WriteIcw1(m.pic.unit[0])))
    BY <2>1, MasterWrite
  <2>3. "icw2" \in NativePcs /\ "icw2" \notin ServePcs
    BY DEF NativePcs, InitPcs, ServePcs
  <2>4. ProcessorOk(Chain!Goto("icw2")) /\ Chain!Goto("icw2").pc # "pal"
    BY <1>0, <2>3, GotoKeeps
  <2> QED
    BY <1>1, <2>2, <2>4, BoundaryKeeps
<1>2. ASSUME NEW t \in {<<"icw2", "icw3">>, <<"icw3", "icw4">>, <<"icw4", "ocw1">>,
                         <<"ocw1", "main">>},
             Chain!Boundary(Chain!Master(m, Chain!WriteData(m.pic.unit[0], Chain!Levels, 0)),
                            Chain!Goto(t[2]))
      PROVE  ChainInv'
  <2>1. WiredMaster(Chain!WriteData(m.pic.unit[0], Chain!Levels, 0))
    BY <1>0, MasterOps, SamePic
  <2>2. DevicesOk(Chain!Master(m, Chain!WriteData(m.pic.unit[0], Chain!Levels, 0)))
    BY <2>1, MasterWrite
  <2>3. t[2] \in NativePcs /\ t[2] \notin ServePcs
    BY DEF NativePcs, InitPcs, ServePcs
  <2>4. ProcessorOk(Chain!Goto(t[2])) /\ Chain!Goto(t[2]).pc # "pal"
    BY <1>0, <2>3, GotoKeeps
  <2> QED
    BY <1>2, <2>2, <2>4, BoundaryKeeps
<1> QED
  BY <1>1, <1>2 DEF Chain!InitPic

LEMMA SetupKeeps ==
  ASSUME ChainInv, NEW op, Chain!Setup(op)
  PROVE  ChainInv'
<1>0. /\ DevicesOk(m) /\ ProcessorOk(g) /\ WiredMaster(m.pic.unit[0])
      /\ g.pc = "main" /\ "main" \in NativePcs /\ "main" \notin ServePcs
  BY DEF ChainInv, DevicesOk, Wired, Chain!Setup, NativePcs, ServePcs
<1> DEFINE c == [g EXCEPT !.todo = @ \ {op}]
           u == Chain!WriteData(m.pic.unit[0], Chain!Levels \ {Chain!Com1Line, Chain!FdcLine}, 0)
           w == [m EXCEPT !.uart = Chain!WriteIER(@, TRUE, @.etbei)]
<1>1. \/ Chain!Boundary(Chain!Master(m, u), c)
      \/ Chain!Boundary(w, c)
      \/ Chain!Boundary(m, [c EXCEPT !.dim = TRUE])
      \/ Chain!Boundary(m, [c EXCEPT !.ei = TRUE])
  BY Zenon DEF Chain!Setup
<1>2. DevicesOk(Chain!Master(m, u))
  <2>1. WiredMaster(u)
    BY <1>0, MasterOps, SamePic
  <2> HIDE DEF u
  <2> QED
    BY <2>1, MasterWrite
<1>3. DevicesOk(w)
  <2>1. PICK x : w = [m EXCEPT !.uart = x]
    OBVIOUS
  <2> HIDE DEF w
  <2> QED
    BY <1>0, <2>1, DeviceUpdate
<1>4. ASSUME NEW n, \/ n = c \/ n = [c EXCEPT !.dim = TRUE]
                    \/ n = [c EXCEPT !.ei = TRUE]
      PROVE  ProcessorOk(n) /\ n.pc # "pal"
  <2>1. ProcessorFields(n) /\ n.pc = g.pc /\ n.stack = g.stack
    BY <1>0, <1>4 DEF ProcessorOk, ProcessorFields
  <2> QED
    BY <1>0, <2>1, NextPc
<1> DEFINE cd == [c EXCEPT !.dim = TRUE]
           ce == [c EXCEPT !.ei = TRUE]
<1>5. /\ ProcessorOk(c) /\ c.pc # "pal" /\ ProcessorOk(cd) /\ cd.pc # "pal"
      /\ ProcessorOk(ce) /\ ce.pc # "pal"
  <2>1. \A n : n = c \/ n = cd \/ n = ce => ProcessorOk(n) /\ n.pc # "pal"
    BY <1>4
  <2> HIDE DEF c, cd, ce
  <2> QED
    BY <2>1
<1>6. \/ Chain!Boundary(Chain!Master(m, u), c) \/ Chain!Boundary(w, c)
      \/ Chain!Boundary(m, cd) \/ Chain!Boundary(m, ce)
  BY <1>1
<1> HIDE DEF c, cd, ce, u, w
<1> QED
  BY <1>0, <1>2, <1>3, <1>5, <1>6, BoundaryKeeps

\* An access to the UART, a change of the floppy's level or none.
LEMMA ServiceKeeps ==
  ASSUME ChainInv, NEW c, ProcessorOk(c), c.pc # "pal", NEW d,
         \/ d = m \/ d = [m EXCEPT !.fdc = FALSE]
         \/ \E x : d = [m EXCEPT !.uart = x],
         Chain!Boundary(d, c)
  PROVE  ChainInv'
<1>1. DevicesOk(m)
  BY DEF ChainInv
<1>2. DevicesOk(d)
  BY <1>1, DeviceUpdate
<1> QED
  BY <1>2, BoundaryKeeps

\* The IACK read of the diverted processor finds the output asserted.
LEMMA IackKeeps ==
  ASSUME ChainInv, Chain!Iack
  PROVE  ChainInv'
<1>0. /\ DevicesOk(m) /\ ProcessorOk(g) /\ g.pc = "pal" /\ OutputAsserted(m.pic)
      /\ Wired(m.pic)
  BY DEF ChainInv, DevicesOk, Chain!Iack
<1> DEFINE a == [m EXCEPT !.pic = Chain!Acknowledge(@)]
           d == Chain!AcknowledgeDeviceInterrupt(m)
           c == [g EXCEPT !.pc = "palrei", !.vec = Chain!Vector(m.pic)]
<1>1. DevicesOk(a)
  <2>1. Wired(Chain!Acknowledge(m.pic)) /\ a = [m EXCEPT !.pic = Chain!Acknowledge(m.pic)]
    BY <1>0, WiredOps, SamePic
  <2> HIDE DEF a
  <2> QED
    BY <1>0, <2>1, DeviceUpdate
<1>2. d = Chain!EvalDeviceIrqs(a)
  BY DEF Chain!AcknowledgeDeviceInterrupt
<1>3. Chain!Vector(m.pic) \in {4, 6}
  BY <1>0, WiredOutput, SamePic
<1>4. /\ ProcessorFields(c) /\ c.pc = "palrei" /\ c.stack = g.stack
      /\ c.vec = Chain!Vector(m.pic)
  BY <1>0 DEF ProcessorOk, ProcessorFields
<1>5. Chain!Boundary(d, c)
  BY Zenon DEF Chain!Iack
<1> HIDE DEF a, d, c
<1>6. DevicesOk(d)
  BY <1>1, <1>2, EvalMirrors
<1>7. ProcessorOk(c) /\ c.pc # "pal"
  <2>1. "palrei" \in Chain!PalPcs /\ "pal" \in Chain!PalPcs
    BY DEF Chain!PalPcs
  <2> QED
    BY <1>0, <1>3, <1>4, <2>1 DEF ProcessorOk, FlowOk
<1> QED
  BY <1>5, <1>6, <1>7, BoundaryKeeps

\* The steps of the handlers up to the end of interrupt.
LEMMA HandlerKeeps ==
  ASSUME ChainInv,
         \/ Chain!PalRei \/ Chain!ReadIir \/ Chain!ReadData \/ Chain!Refill
         \/ Chain!ServeFdc \/ Chain!Mask \/ Chain!Eoi
  PROVE  ChainInv'
<1>0. DevicesOk(m) /\ ProcessorOk(g) /\ WiredMaster(m.pic.unit[0])
  BY DEF ChainInv, DevicesOk, Wired
<1>p. \A pc \in ServePcs : pc \in NativePcs
  BY DEF NativePcs
<1>g. ASSUME NEW pc \in ServePcs, g.pc \in ServePcs \cup Chain!PalPcs
      PROVE  ProcessorOk(Chain!Goto(pc)) /\ Chain!Goto(pc).pc # "pal"
  BY <1>0, <1>p, <1>g, GotoKeeps
<1>s. {"isr", "rx", "thre", "fdcisr", "mask", "eoi", "rei"} = ServePcs
  BY DEF ServePcs
<1>1. CASE Chain!PalRei
  <2> DEFINE pc == CASE g.vec = Chain!Com1Line -> "isr"
                     [] g.vec = Chain!FdcLine  -> "fdcisr"
                     [] OTHER                  -> "rei"
  <2>1. pc \in ServePcs
    BY DEF ServePcs
  <2>2. g.pc = "palrei" /\ Chain!Boundary(m, Chain!Goto(pc))
    BY <1>1 DEF Chain!PalRei
  <2> HIDE DEF pc
  <2>3. g.pc \in Chain!PalPcs
    BY <2>2 DEF Chain!PalPcs
  <2> QED
    BY <1>g, <2>1, <2>2, <2>3, ServiceKeeps
<1>2. CASE Chain!ReadIir
  <2> DEFINE pc == CASE Chain!IirCause(m.uart) = "RxAvail" -> "rx"
                     [] Chain!IirCause(m.uart) = "Thre"    -> "thre"
                     [] OTHER                              -> "mask"
             d == [m EXCEPT !.uart = Chain!ReadIIR(@)]
  <2>1. pc \in ServePcs
    BY DEF ServePcs
  <2>2. g.pc = "isr" /\ Chain!Boundary(d, Chain!Goto(pc))
    BY <1>2, Zenon DEF Chain!ReadIir
  <2>3. \E x : d = [m EXCEPT !.uart = x]
    OBVIOUS
  <2> HIDE DEF pc, d
  <2> QED
    BY <1>g, <1>s, <2>1, <2>2, <2>3, ServiceKeeps
<1>3. CASE Chain!ReadData
  <2> DEFINE d == [m EXCEPT !.uart = Chain!ReadRBR(@)]
  <2>2. g.pc = "rx" /\ Chain!Boundary(d, Chain!Goto("isr"))
    BY <1>3, Zenon DEF Chain!ReadData
  <2>3. \E x : d = [m EXCEPT !.uart = x]
    OBVIOUS
  <2> HIDE DEF d
  <2> QED
    BY <1>g, <1>s, <2>2, <2>3, ServiceKeeps
<1>4. CASE Chain!Refill
  <2> DEFINE d == [m EXCEPT !.uart = Chain!WriteTHR(@, Chain!Other)]
             e == [m EXCEPT !.uart = Chain!WriteIER(@, TRUE, FALSE)]
             c == [g EXCEPT !.pc = "isr", !.toSend = @ - 1]
  <2>1. /\ g.pc = "thre"
        /\ Chain!Boundary(d, c) \/ Chain!Boundary(e, Chain!Goto("isr"))
    BY <1>4, Zenon DEF Chain!Refill
  <2>2. /\ \E x : d = [m EXCEPT !.uart = x]
        /\ \E x : e = [m EXCEPT !.uart = x]
    OBVIOUS
  <2>3. ProcessorFields(c) /\ c.pc = "isr" /\ c.stack = g.stack
    BY <1>0 DEF ProcessorOk, ProcessorFields
  <2> HIDE DEF c, d, e
  <2>4. ProcessorOk(c) /\ c.pc # "pal"
    BY <1>0, <1>p, <1>s, <2>1, <2>3, NextPc
  <2> QED
    BY <1>g, <1>s, <2>1, <2>2, <2>4, ServiceKeeps
<1>5. CASE Chain!ServeFdc
  <2> DEFINE d == [m EXCEPT !.fdc = FALSE]
  <2>2. g.pc = "fdcisr" /\ Chain!Boundary(d, Chain!Goto("mask"))
    BY <1>5, Zenon DEF Chain!ServeFdc
  <2> QED
    BY <1>g, <1>s, <2>2, ServiceKeeps
<1>6. CASE Chain!Mask
  <2> DEFINE c == [g EXCEPT !.pc = "eoi", !.ei = FALSE]
  <2>1. g.pc = "mask" /\ Chain!Boundary(m, c)
    BY <1>6, Zenon DEF Chain!Mask
  <2>3. ProcessorFields(c) /\ c.pc = "eoi" /\ c.stack = g.stack
    BY <1>0 DEF ProcessorOk, ProcessorFields
  <2> HIDE DEF c
  <2>4. ProcessorOk(c) /\ c.pc # "pal"
    BY <1>0, <1>p, <1>s, <2>1, <2>3, NextPc
  <2> QED
    BY <2>1, <2>4, ServiceKeeps
<1>7. CASE Chain!Eoi
  <2>1. WiredMaster(Chain!WriteEoi(m.pic.unit[0]))
    BY <1>0, MasterOps, SamePic
  <2>2. DevicesOk(Chain!Master(m, Chain!WriteEoi(m.pic.unit[0])))
    BY <2>1, MasterWrite
  <2>3. /\ g.pc = "eoi"
        /\ Chain!Boundary(Chain!Master(m, Chain!WriteEoi(m.pic.unit[0])), Chain!Goto("rei"))
    BY <1>7, Zenon DEF Chain!Eoi
  <2>4. ProcessorOk(Chain!Goto("rei")) /\ Chain!Goto("rei").pc # "pal"
    BY <1>g, <1>s, <2>3
  <2> QED
    BY <2>2, <2>3, <2>4, BoundaryKeeps
<1> QED
  BY <1>1, <1>2, <1>3, <1>4, <1>5, <1>6, <1>7

\* The return finds the pc of what was interrupted on the stack.
LEMMA ReiKeeps ==
  ASSUME ChainInv, Chain!Rei
  PROVE  ChainInv'
<1> DEFINE n == Len(g.stack)
           s == SubSeq(g.stack, 1, n - 1)
           c == [g EXCEPT !.pc = Chain!Last(g.stack), !.stack = Chain!Front(@), !.ei = TRUE]
<1>0. /\ ProcessorOk(g) /\ g.pc = "rei" /\ g.stack \in Seq(NativePcs)
      /\ \A i \in 1 .. n : g.stack[i] \in ServePcs => i > 1
  BY DEF ChainInv, ProcessorOk, FlowOk, Chain!Rei
<1>1. n \in Nat /\ n > 0
  BY <1>0 DEF ProcessorOk, FlowOk, ServePcs
<1>2. Chain!Boundary(m, c)
  BY Zenon DEF Chain!Rei
<1>3. Chain!Last(g.stack) = g.stack[n] /\ Chain!Front(g.stack) = s
  BY DEF Chain!Last, Chain!Front
<1>4. /\ s \in Seq(NativePcs) /\ Len(s) = n - 1
      /\ \A i \in 1 .. n - 1 : s[i] = g.stack[i]
  BY <1>0, <1>1
<1>5. ProcessorFields(c) /\ c.pc = g.stack[n] /\ c.stack = s
  BY <1>0, <1>3 DEF ProcessorOk, ProcessorFields
<1> HIDE DEF c, s
<1>6. c.pc \in NativePcs /\ c.pc \notin Chain!PalPcs
  BY <1>0, <1>1, <1>5 DEF NativePcs, InitPcs, ServePcs, Chain!PalPcs
<1>7. c.pc \in ServePcs => Len(s) > 0
  BY <1>0, <1>1, <1>4, <1>5
<1>8. \A i \in 1 .. Len(s) : s[i] \in ServePcs => i > 1
  BY <1>0, <1>1, <1>4
<1>9. ProcessorOk(c) /\ c.pc # "pal"
  <2>1. c.pc # "pal" /\ c.pc # "palrei"
    BY <1>6 DEF Chain!PalPcs
  <2> QED
    BY <1>4, <1>5, <1>6, <1>7, <1>8, <2>1 DEF ProcessorOk, FlowOk
<1> QED
  BY <1>2, <1>9, ServiceKeeps

LEMMA ChainNext ==
  ASSUME ChainInv, [Chain!Next]_(Chain!vars)
  PROVE  ChainInv'
<1>0. DevicesOk(m) /\ ProcessorOk(g) /\ m.drir = OutputAsserted(m.pic)
  BY DEF ChainInv
<1>1. CASE Chain!Handler
  BY <1>1, InitPicKeeps, IackKeeps, HandlerKeeps, ReiKeeps DEF Chain!Handler
<1>2. ASSUME NEW op \in {"ocw1", "ier", "dim", "ei"}, Chain!Setup(op)
      PROVE  ChainInv'
  BY <1>2, SetupKeeps
<1>3. CASE Chain!Idle
  BY <1>0, <1>3, ServiceKeeps DEF Chain!Idle
<1>4. CASE Chain!StartPrint
  <2> DEFINE d == [m EXCEPT !.uart = Chain!WriteIER(@, TRUE, TRUE)]
             c == [g EXCEPT !.toSend = PrintLen]
  <2>1. g.pc = "main" /\ Chain!Boundary(d, c)
    BY <1>4, Zenon DEF Chain!StartPrint
  <2>2. \E x : d = [m EXCEPT !.uart = x]
    OBVIOUS
  <2>3. ProcessorFields(c) /\ c.pc = g.pc /\ c.stack = g.stack /\ c.vec = g.vec
    BY <1>0 DEF ProcessorOk, ProcessorFields
  <2> HIDE DEF c, d
  <2>4. ProcessorOk(c) /\ c.pc # "pal"
    BY <1>0, <2>1, <2>3 DEF ProcessorOk
  <2> QED
    BY <2>1, <2>2, <2>4, ServiceKeeps
<1>5. CASE Chain!TypeKey \/ Chain!FdcComplete
  <2>1. g' = g
    BY <1>5 DEF Chain!TypeKey, Chain!FdcComplete
  <2>2. DevicesOk(m') /\ m'.drir = m.drir /\ m'.pic = m.pic
    <3>1. CASE Chain!TypeKey
      <4> DEFINE k == IF m.keys >= RxQueue THEN m.keys ELSE m.keys + 1
      <4>1. m' = [m EXCEPT !.keys = k]
        BY <3>1 DEF Chain!TypeKey
      <4> HIDE DEF k
      <4>2. DevicesOk(m') /\ m'.drir = m.drir
        BY <1>0, <4>1, DeviceUpdate
      <4> QED
        BY <1>0, <4>1, <4>2 DEF DevicesOk
    <3>2. CASE Chain!FdcComplete
      <4>1. m' = [m EXCEPT !.fdc = TRUE]
        BY <3>2 DEF Chain!FdcComplete
      <4>2. DevicesOk(m') /\ m'.drir = m.drir
        BY <1>0, <4>1, DeviceUpdate
      <4> QED
        BY <1>0, <4>1, <4>2 DEF DevicesOk
    <3> QED
      BY <1>5, <3>1, <3>2
  <2> QED
    BY <1>0, <2>1, <2>2 DEF ChainInv
<1>6. CASE UNCHANGED Chain!vars
  BY <1>6 DEF ChainInv, Chain!vars
<1> QED
  BY <1>1, <1>2, <1>3, <1>4, <1>5, <1>6 DEF Chain!Next

LEMMA ChainInit ==
  ASSUME Chain!Init
  PROVE  ChainInv
<1>1. Wired(ResetPic) /\ ~OutputAsserted(ResetPic)
  <2>1. Wired(ResetPic)
    BY DEF Wired, WiredMaster, ResetPic, ResetUnit, UnitType, InitStates, Units
  <2>2. MasterLevel(ResetPic) = NoLevel
    BY DEF MasterLevel, UnitPending, ResetPic, ResetUnit, Units
  <2> QED
    BY <2>1, <2>2, WiredOutput
<1>2. /\ m.pic = ResetPic /\ m.last = FALSE /\ m.drir = FALSE
      /\ m \in [uart : {m.uart}, pic : {m.pic}, fdc : BOOLEAN, keys : {m.keys},
                last : BOOLEAN, drir : BOOLEAN]
  BY SamePic DEF Chain!Init
<1>3. ProcessorFields(g) /\ g.pc = "icw1" /\ g.stack = <<>>
  BY DEF Chain!Init, ProcessorFields
<1>4. ProcessorOk(g)
  <2>1. "icw1" \in NativePcs /\ "icw1" \notin ServePcs \cup Chain!PalPcs
    BY DEF NativePcs, InitPcs, ServePcs, Chain!PalPcs
  <2>2. g.stack \in Seq(NativePcs) /\ Len(g.stack) = 0
    BY <1>3
  <2> QED
    BY <1>3, <2>1, <2>2 DEF ProcessorOk, FlowOk
<1>5. DevicesOk(m)
  BY <1>1, <1>2, Zenon DEF DevicesOk
<1>6. m.drir = OutputAsserted(m.pic)
  <2>1. OutputAsserted(ResetPic) = FALSE
    BY <1>1 DEF OutputAsserted
  <2> QED
    BY <1>2, <2>1, Zenon
<1>7. g.pc # "pal"
  BY <1>3
<1> QED
  BY <1>4, <1>5, <1>6, <1>7, Zenon DEF ChainInv

(* A divert is never wasted: from the boundary that staged it to the read of *)
(* the IACK window no terminal, floppy or driver withdraws the request, so   *)
(* the acknowledge returns the vector of one of the two lines, however long  *)
(* the FIFOs, queues and print requests are.                                 *)
THEOREM IackHasVector == Chain!Spec => []NoSpuriousIack
<1>1. ChainInv => NoSpuriousIack
  BY DEF ChainInv, ProcessorOk, FlowOk, NoSpuriousIack, Chain!NoSpuriousIack, PicLines
<1> QED
  BY <1>1, ChainInit, ChainNext, PTL DEF Chain!Spec
============================================================================
