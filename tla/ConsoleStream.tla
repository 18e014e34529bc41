--------------------------- MODULE ConsoleStream ---------------------------
(***************************************************************************)
(* The transmit filter of ConsoleTx between a guest that writes arbitrary  *)
(* bytes and the console backend.  History variables: written, the bytes   *)
(* the guest wrote; out, the bytes the backend received.                   *)
(***************************************************************************)
EXTENDS ConsoleTx

CONSTANTS MaxTx,       \* bound: bytes written
          SavePoints   \* "lineEnd": the machine is saved at line ends only;
                       \* "any": between any two bytes, as autosave does

VARIABLES tx, written, out

vars == <<tx, written, out>>

Init == tx = EmptyTx /\ written = <<>> /\ out = <<>>

\* writeTHR's call of badgeTxEmit; badgeEmitByte hands bytes to the backend.
Put(c) ==
  LET r == BadgeTxEmit(tx, c) IN
  /\ Len(written) < MaxTx
  /\ tx' = r.tx
  /\ out' = out \o r.emits
  /\ written' = Append(written, c)

\* The machine is saved on its way out and resumed in a new process, whose
\* filter starts empty: serialize leaves these buffers out.  A line end is an
\* Other byte.
SaveAndResume ==
  /\ SavePoints = "any" \/ (written # <<>> /\ Last(written) = Other)
  /\ tx' = EmptyTx
  /\ UNCHANGED <<written, out>>

Next == (\E c \in Bytes : Put(c)) \/ SaveAndResume

Spec == Init /\ [][Next]_vars

----------------------------------------------------------------------------
(* Types, and the bound on what the filter withholds: "at most a run of        *)
(* digits plus up to 4 lookahead bytes".                                       *)
TypeOK ==
  /\ tx.mode \in {"Normal", "Digits", "Suffix"}
  /\ tx.pend \in 0..DigitCap /\ Len(tx.suf) < Len(Suffix)
  /\ tx.mode = "Normal" <=> Withheld(tx) = <<>>

(* The filter is transparent but for the speed: what the backend received plus *)
(* what is withheld is what the driver wrote, byte for byte and in order.      *)
TxConserved == Undo(out) \o Withheld(tx) = written

(* Every "<n> MHz" is rewritten: the backend never receives a run of at most   *)
(* DigitCap raw digits followed by " MHz" ("any "<n> MHz" token"), also when   *)
(* another run of digits precedes it ("DS20 100 MHz").                         *)
SpeedRewritten ==
  \A i \in 1..Len(out) : \A n \in 1..DigitCap :
    ~ /\ i + n + Len(Suffix) - 1 <= Len(out)
      /\ SubSeq(out, i, i + n + Len(Suffix) - 1) = Digits(n) \o Suffix
      /\ i > 1 => out[i - 1] # Digit

(* Both: every speed is rewritten and nothing else is.                         *)
FilterFaithful == TxConserved /\ SpeedRewritten
=============================================================================
