------------------------------- MODULE Floppy -------------------------------
(***************************************************************************)
(* The diskette controller Floppy82077, its line into the edge-triggered   *)
(* PIC, and the driver that sleeps on it.  The chipset samples the line    *)
(* after every instruction of the guest, so each action ends with Sample.  *)
(* There is no drive: data commands fail at once.  Parameters and results  *)
(* are counted, not kept.                                                  *)
(***************************************************************************)
EXTENDS Naturals

VARIABLES phase, op, cmdPos, resPos,   \* m_phase, m_cmd[0], m_cmdPos, m_resPos
          int, enabled,                \* m_intPending; DOR<2>, not in reset
          level, edge,                 \* the PIC: the line as sampled, the latch
          drv                          \* the driver: where it is

fdc == <<phase, op, cmdPos, resPos, int, enabled>>
vars == <<fdc, level, edge, drv>>

\* cmdShape: the parameters and results of a command.
Shape ==
  [specify |-> [params |-> 2, results |-> 0],
   senseDrive |-> [params |-> 1, results |-> 1],
   data |-> [params |-> 8, results |-> 7],
   format |-> [params |-> 5, results |-> 7],
   readId |-> [params |-> 1, results |-> 7],
   recalibrate |-> [params |-> 1, results |-> 0],
   seek |-> [params |-> 2, results |-> 0],
   sense |-> [params |-> 0, results |-> 2],
   perpendicular |-> [params |-> 1, results |-> 0],
   configure |-> [params |-> 3, results |-> 0],
   dumpreg |-> [params |-> 0, results |-> 10],
   version |-> [params |-> 0, results |-> 1],
   invalid |-> [params |-> 0, results |-> 1]]

Commands == DOMAIN Shape
Interrupting == {"data", "format", "readId", "recalibrate", "seek"}

Init ==
  /\ phase = "Command" /\ op = "invalid" /\ cmdPos = 0 /\ resPos = 0
  /\ int = FALSE /\ enabled = FALSE
  /\ level = FALSE /\ edge = FALSE
  /\ drv = "off"

\* evalDeviceIrqs after the instruction: a rise of the line is latched.
Sample ==
  /\ level' = int'
  /\ edge' = (edge \/ (int' /\ ~level))

(* The controller.                                                         *)
-----------------------------------------------------------------------------

\* Entering reset clears the controller, leaving it interrupts.
WriteDor(run) ==
  /\ enabled' = run
  /\ IF enabled /\ ~run
     THEN /\ phase' = "Command" /\ cmdPos' = 0 /\ resPos' = 0 /\ int' = FALSE
     ELSE /\ int' = (int \/ (run /\ ~enabled))
          /\ UNCHANGED <<phase, cmdPos, resPos>>
  /\ UNCHANGED op

Execute(c) ==
  /\ resPos' = 0
  /\ phase' = IF Shape[c].results > 0 THEN "Result" ELSE "Command"

\* Mutant: the opcode leaves the interrupt of the command before.
FifoWriteKeepsInt(c) ==
  /\ phase = "Command"
  /\ op' = (IF cmdPos = 0 THEN c ELSE op)
  /\ IF cmdPos = Shape[op'].params
     THEN /\ Execute(op') /\ cmdPos' = IF Shape[op'].results > 0 THEN cmdPos + 1 ELSE 0
          /\ int' = (IF op' = "sense" THEN FALSE ELSE int \/ op' \in Interrupting)
     ELSE /\ cmdPos' = cmdPos + 1 /\ int' = int
          /\ UNCHANGED <<phase, resPos>>
  /\ UNCHANGED enabled

\* A byte in the command phase: the opcode, which takes the interrupt of the
\* command before away, or a parameter; the last one executes.
FifoWrite(c) ==
  /\ phase = "Command"
  /\ op' = (IF cmdPos = 0 THEN c ELSE op)
  /\ IF cmdPos = Shape[op'].params
     THEN /\ Execute(op') /\ cmdPos' = IF Shape[op'].results > 0 THEN cmdPos + 1 ELSE 0
          /\ int' = (op' \in Interrupting \/ (int /\ cmdPos > 0))
     ELSE /\ cmdPos' = cmdPos + 1 /\ int' = (int /\ cmdPos > 0)
          /\ UNCHANGED <<phase, resPos>>
  /\ UNCHANGED enabled

\* In the result phase a byte written is ignored; the last byte read ends it.
FifoRead ==
  /\ phase = "Result"
  /\ resPos' = resPos + 1
  /\ IF resPos + 1 >= Shape[op].results
     THEN phase' = "Command" /\ cmdPos' = 0 /\ int' = FALSE
     ELSE UNCHANGED <<phase, cmdPos, int>>
  /\ UNCHANGED <<op, enabled>>

(* The driver: it resets the controller, then gives it commands, and sleeps *)
(* until the interrupt of the reset or of the command comes.                *)
-----------------------------------------------------------------------------

\* It acknowledges earlier interrupts before it starts what it will wait for.
SampleAfresh == level' = int' /\ edge' = (int' /\ ~level)

EnterReset ==
  /\ drv # "reset" /\ WriteDor(FALSE) /\ drv' = "reset" /\ Sample

LeaveReset ==
  /\ drv = "reset" /\ WriteDor(TRUE) /\ drv' = "wait"
  /\ SampleAfresh

Begin(c) ==
  /\ drv = "ready" /\ FifoWrite(c)
  /\ drv' = IF Shape[c].params > 0 THEN "params" ELSE "results"
  /\ SampleAfresh

Param ==
  /\ drv = "params" /\ FifoWrite(op)
  /\ drv' = IF cmdPos < Shape[op].params THEN "params"
            ELSE IF op \in Interrupting THEN "wait"
            ELSE IF Shape[op].results > 0 THEN "results" ELSE "ready"
  /\ Sample

\* The interrupt wakes it; a command with a result is read out.
Wake ==
  /\ drv = "wait" /\ edge /\ edge' = FALSE
  /\ drv' = IF phase = "Result" THEN "results" ELSE "ready"
  /\ UNCHANGED <<fdc, level>>

ReadResult ==
  /\ drv = "results" /\ FifoRead
  /\ drv' = IF phase' = "Result" THEN "results" ELSE "ready"
  /\ Sample

Next ==
  \/ EnterReset \/ LeaveReset \/ Wake \/ ReadResult \/ Param
  \/ \E c \in Commands : Begin(c)

Spec == Init /\ [][Next]_vars

-----------------------------------------------------------------------------
(* "Completion re-asserts INT, giving a fresh 0->1 edge": whatever interrupts  *)
(* of earlier commands and resets the driver left unread, the PIC has latched  *)
(* an edge whenever it sleeps, and awake it is in step with the controller:    *)
(* results to read after a command that has some, an opcode due otherwise.     *)
WaitIsWoken ==
  /\ drv = "wait" => edge
  /\ drv = "results" => phase = "Result"
  /\ drv = "ready" => phase = "Command" /\ cmdPos = 0
=============================================================================
