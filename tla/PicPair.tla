------------------------------ MODULE PicPair ------------------------------
(* The controller pair of Pic8259 between arbitrary devices and an arbitrary  *)
(* guest: every port access and every line change, in any order.              *)
EXTENDS Pic8259

VARIABLE pic

Init == pic = ResetPic

OnUnit(i, u) == pic' = [pic EXCEPT !.unit[i] = u]

Drive(line, level) == pic' = SetIrqInput(pic, line, level)
Inta               == pic' = Acknowledge(pic)
IoReadBase(i)      == OnUnit(i, ReadBase(pic.unit[i]))
IoIcw1(i)          == OnUnit(i, WriteIcw1(pic.unit[i]))
IoOcw3(i, rr, p)   == OnUnit(i, WriteOcw3(pic.unit[i], rr, p))
IoEoi(i)           == OnUnit(i, WriteEoi(pic.unit[i]))
IoSpecificEoi(i, l) == OnUnit(i, WriteSpecificEoi(pic.unit[i], l))
IoData(i, mask, base) == OnUnit(i, WriteData(pic.unit[i], mask, base))

Next ==
  \/ \E line \in Lines, level \in BOOLEAN : Drive(line, level)
  \/ Inta
  \/ \E i \in Units :
       \/ IoReadBase(i)
       \/ IoIcw1(i)
       \/ \E rr \in {0, 2, 3}, p \in BOOLEAN : IoOcw3(i, rr, p)
       \/ IoEoi(i)
       \/ \E l \in Levels : IoSpecificEoi(i, l)
       \/ \E mask \in Masks, base \in Bases : IoData(i, mask, base)

Spec == Init /\ [][Next]_pic

----------------------------------------------------------------------------
(* Types of the two register files and of the edge detector. *)
TypeOK == pic \in [unit : [Units -> UnitType], high : SUBSET Lines]

(* A captured edge "persists until acknowledge() services it": a request       *)
(* leaves IRR only into service or by re-initialising its unit (ICW1); neither *)
(* the falling input, nor a mask, nor an EOI withdraws it.                     *)
EdgePersists ==
  [][\A i \in Units :
       \A l \in pic.unit[i].irr \ pic'.unit[i].irr :
          l \in pic'.unit[i].isr \/ pic'.unit[i].init = "ExpectIcw2"]_pic

(* In-service suppression on every path into service (INTA, cascade, poll):    *)
(* a level enters service only on an initialised unit, unmasked, and above all *)
(* levels the unit has in service.  "While ISR holds a level in service, that  *)
(* level and lower priorities are suppressed."                                 *)
ServiceIsNested ==
  [][\A i \in Units :
       \A l \in pic'.unit[i].isr \ pic.unit[i].isr :
          /\ pic.unit[i].init = "Ready"
          /\ l \notin pic.unit[i].imr
          /\ \A j \in pic.unit[i].isr : l < j]_pic

(* The cascade INTA sequence: a slave level enters service together with       *)
(* master level 2, so the master holds back levels 3..7 while the slave's      *)
(* handler runs.  Only a poll of the slave by the guest is exempt.             *)
CascadeServesBoth ==
  [][pic'.unit[1].isr \ pic.unit[1].isr # {}
       => \/ CascadeIr \in pic'.unit[0].isr
          \/ pic.unit[1].poll /\ ~pic'.unit[1].poll]_pic

(* The level acknowledge serves is the highest-priority request of the pair:   *)
(* it never leaves an unmasked request of a higher priority waiting.           *)
NoPriorityInversion ==
  [][\A l \in pic'.unit[0].isr \ pic.unit[0].isr :
       \A j \in pic.unit[0].irr \ pic.unit[0].imr : l <= j]_pic
============================================================================
