------------------------------ MODULE FlashRom ------------------------------
(***************************************************************************)
(* The flash that holds the console environment: its command machine, as   *)
(* operators on [mode, data].  An access is one byte at a flash offset;    *)
(* the offsets told apart are the two unlock addresses and the cells of    *)
(* one sector.                                                             *)
(***************************************************************************)
EXTENDS Naturals, Sequences

CONSTANTS Cells,     \* offsets of one sector, no unlock address among them
          Values,    \* what a cell can be programmed to
          Erased     \* 0xFF

A1 == "5555"
A2 == "2AAA"

Modes == {"Read", "Step1", "Step2", "Autosel", "Program", "Erase3", "Erase4",
          "Erase5", "Confirm0", "Confirm1"}

\* Inside a command: bytes of it are still to come.
Commands == {"Step1", "Step2", "Program", "Erase3", "Erase4", "Erase5"}

Images == [Cells -> Values \union {Erased}]

\* Mutant: a status read does not end the erase handshake.
ReadChipSticky(chip) == chip

\* read: what it does to the command machine.
ReadChip(chip) ==
  [chip EXCEPT !.mode =
     CASE @ = "Confirm1" -> "Confirm0"
       [] @ = "Confirm0" -> "Read"
       [] OTHER -> @]

\* The command bytes that move the unlock sequence on; any other byte ends it.
Advance(mode, off, d) ==
  CASE mode \in {"Read", "Autosel"} /\ off = A1 /\ d = "AA" -> "Step1"
    [] mode = "Step1" /\ off = A2 /\ d = "55" -> "Step2"
    [] mode = "Step2" /\ off = A1 /\ d = "90" -> "Autosel"
    [] mode = "Step2" /\ off = A1 /\ d = "A0" -> "Program"
    [] mode = "Step2" /\ off = A1 /\ d = "80" -> "Erase3"
    [] mode = "Erase3" /\ off = A1 /\ d = "AA" -> "Erase4"
    [] mode = "Erase4" /\ off = A2 /\ d = "55" -> "Erase5"
    [] mode = "Erase5" /\ (d = "30" \/ (off = A1 /\ d = "10")) -> "Confirm1"
    [] OTHER -> "Read"

\* A chip erase, or an erase of the sector (of the one sector told apart).
Erases(chip, off, d) ==
  chip.mode = "Erase5" /\ ((d = "30" /\ off \in Cells) \/ (off = A1 /\ d = "10"))

Programs(chip, off) == chip.mode = "Program" /\ off \in Cells

\* An erase of another sector, or a program outside this one, mutates as well.
Mutates(chip, off, d) ==
  \/ chip.mode = "Program"
  \/ chip.mode = "Erase5" /\ (d = "30" \/ (off = A1 /\ d = "10"))

\* write.
WriteChip(chip, off, d) ==
  [mode |-> Advance(chip.mode, off, d),
   data |-> IF Erases(chip, off, d) THEN [c \in Cells |-> Erased]
            ELSE IF Programs(chip, off) THEN [chip.data EXCEPT ![off] = d]
            ELSE chip.data]
=============================================================================
