------------------------------ MODULE Pic8259 ------------------------------
(***************************************************************************)
(* chipsetLib/Pic8259Pair.h: the master/slave pair of 8259A interrupt      *)
(* controllers of the ISA bridge.  Unit 0 is the master, unit 1 the slave, *)
(* cascaded on master level 2.  Requests are edge captured whatever the    *)
(* mask; the output is a level, a function of the live registers.          *)
(*                                                                         *)
(* A register is the set of levels whose bit is set.  ICW3, ICW4, LTIM and *)
(* ELCR are stored by the code and read by nothing but their own read-back,*)
(* so they are left out; the writes that store them keep their effect on   *)
(* the initialisation sequence.                                            *)
(***************************************************************************)
EXTENDS Integers

CONSTANTS Lines,   \* ISA lines with a device on them, a subset of 0..15
          Masks,   \* the OCW1 masks the guest writes, sets of levels
          Bases    \* the ICW2 vector bases the guest writes

Levels    == 0..7
Units     == {0, 1}
CascadeIr == 2
NoLevel   == -1

ASSUME PicAssumption ==
  /\ Lines \subseteq 0..15
  /\ Masks \subseteq SUBSET Levels
  /\ Bases \subseteq {8 * k : k \in 0..31}

InitStates == {"Idle", "ExpectIcw2", "ExpectIcw3", "ExpectIcw4", "Ready"}

UnitType == [irr : SUBSET Levels, isr : SUBSET Levels, imr : SUBSET Levels,
             icw2 : Bases \cup {0}, init : InitStates,
             readIsr : BOOLEAN, poll : BOOLEAN]

ResetUnit == [irr |-> {}, isr |-> {}, imr |-> Levels, icw2 |-> 0,
              init |-> "Idle", readIsr |-> FALSE, poll |-> FALSE]

\* reset(): the pair is its two units and the lines last seen high
\* (m_lastInput).
ResetPic == [unit |-> [i \in Units |-> ResetUnit], high |-> {}]

----------------------------------------------------------------------------
(* Priority resolution. *)

\* Mutant: the mask test is missing.
EligibleUnmasked(u, extra) ==
  {l \in u.irr \cup extra : \A m \in u.isr : l < m}

\* The requests unitPending's scan can stop at: requested, not masked, and
\* above every level in service.
Eligible(u, extra) ==
  {l \in (u.irr \cup extra) \ u.imr : \A m \in u.isr : l < m}

\* Mutant: the scan runs from level 7 up.
HighestReversed(S) == CHOOSE l \in S : \A m \in S : m <= l

Highest(S) == CHOOSE l \in S : \A m \in S : l <= m

\* unitPending: the scan from level 0 down, NoLevel for its -1.
UnitPending(u, extra) ==
  IF u.init = "Ready" /\ Eligible(u, extra) # {}
  THEN Highest(Eligible(u, extra)) ELSE NoLevel

SlaveLevel(p) == UnitPending(p.unit[1], {})

\* The slave's output is the master's request on CascadeIr.
MasterLevel(p) ==
  UnitPending(p.unit[0], IF SlaveLevel(p) # NoLevel THEN {CascadeIr} ELSE {})

\* pendingLevel: 0..7 on the master, 8..15 on the slave.
FromSlave(p) == MasterLevel(p) = CascadeIr /\ SlaveLevel(p) # NoLevel
PendingLevel(p) ==
  IF FromSlave(p) THEN 8 + SlaveLevel(p) ELSE MasterLevel(p)

OutputAsserted(p) == PendingLevel(p) # NoLevel

----------------------------------------------------------------------------
(* The operations, as functions of the pair. *)

\* Mutant: a falling input withdraws the request.
SetIrqInputFallClears(p, line, level) ==
  LET i == line \div 8  l == line % 8 IN
  [unit |-> [p.unit EXCEPT ![i].irr = IF ~level THEN @ \ {l}
                                      ELSE IF line \in p.high THEN @ ELSE @ \cup {l}],
   high |-> IF level THEN p.high \cup {line} ELSE p.high \ {line}]

\* setIrqInput: a rising edge latches the request, mask or no mask.
SetIrqInput(p, line, level) ==
  LET i == line \div 8  l == line % 8 IN
  [unit |-> IF level /\ line \notin p.high
            THEN [p.unit EXCEPT ![i].irr = @ \cup {l}] ELSE p.unit,
   high |-> IF level THEN p.high \cup {line} ELSE p.high \ {line}]

TransferIrrToIsr(u, l) == [u EXCEPT !.irr = @ \ {l}, !.isr = @ \cup {l}]

\* Mutant: the cascade level is not put in service on the master.
AcknowledgeSlaveOnly(p) ==
  CASE ~OutputAsserted(p) -> p
    [] OutputAsserted(p) /\ FromSlave(p) ->
         [p EXCEPT !.unit[1] = TransferIrrToIsr(@, SlaveLevel(p))]
    [] OTHER -> [p EXCEPT !.unit[0] = TransferIrrToIsr(@, MasterLevel(p))]

\* acknowledge: the INTA cycle, on both units for a slave level.
Acknowledge(p) ==
  CASE ~OutputAsserted(p) -> p
    [] OutputAsserted(p) /\ FromSlave(p) ->
         [p EXCEPT !.unit = [i \in Units |-> TransferIrrToIsr(@[i],
                               IF i = 0 THEN CascadeIr ELSE SlaveLevel(p))]]
    [] OTHER -> [p EXCEPT !.unit[0] = TransferIrrToIsr(@, MasterLevel(p))]

\* The vector acknowledge returns; NoLevel when nothing is pending.
Vector(p) ==
  CASE ~OutputAsserted(p) -> NoLevel
    [] OutputAsserted(p) /\ FromSlave(p) -> p.unit[1].icw2 + SlaveLevel(p)
    [] OTHER -> p.unit[0].icw2 + MasterLevel(p)

\* readBase: an armed poll acknowledges the unit's own highest request, once;
\* otherwise the read has no effect.
ReadBase(u) ==
  LET l == UnitPending(u, {}) IN
  CASE ~u.poll -> u
    [] u.poll /\ l = NoLevel -> [u EXCEPT !.poll = FALSE]
    [] OTHER -> TransferIrrToIsr([u EXCEPT !.poll = FALSE], l)

\* writeBase, ICW1
WriteIcw1(u) ==
  [u EXCEPT !.init = "ExpectIcw2", !.imr = {}, !.irr = {}, !.isr = {},
            !.readIsr = FALSE, !.poll = FALSE]

\* writeBase, OCW3: rr in {0, 2, 3}, p the poll bit
WriteOcw3(u, rr, p) ==
  [u EXCEPT !.readIsr = IF rr = 2 THEN FALSE ELSE IF rr = 3 THEN TRUE ELSE @,
            !.poll = @ \/ p]

\* writeBase, OCW2: the non-specific EOI ends the highest level in service,
\* the specific one the level it names; rotations are ignored.
WriteEoi(u) ==
  IF u.isr = {} THEN u ELSE [u EXCEPT !.isr = @ \ {Highest(u.isr)}]
WriteSpecificEoi(u, l) == [u EXCEPT !.isr = @ \ {l}]

\* writeData: the next initialisation word, or the mask.
WriteData(u, mask, base) ==
  CASE u.init = "ExpectIcw2" -> [u EXCEPT !.icw2 = base, !.init = "ExpectIcw3"]
    [] u.init = "ExpectIcw3" -> [u EXCEPT !.init = "ExpectIcw4"]
    [] u.init = "ExpectIcw4" -> [u EXCEPT !.init = "Ready"]
    [] OTHER -> [u EXCEPT !.imr = mask]
============================================================================
