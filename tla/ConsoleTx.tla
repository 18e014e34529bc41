----------------------------- MODULE ConsoleTx -----------------------------
(***************************************************************************)
(* deviceLib/Tsunami/Uart16550.h, badgeTxEmit and its helpers: the filter  *)
(* on the console's transmit stream.  It withholds a run of digits until   *)
(* it knows whether " MHz" follows; if so the digits are replaced by the   *)
(* measured speed, otherwise everything is passed on.                      *)
(*                                                                         *)
(* A byte is Digit, one of the bytes of " MHz", or Other.  The replacement *)
(* of a run of n digits is n times SpeedDigit: the code pads the measured  *)
(* speed to at least the width of the run.                                 *)
(***************************************************************************)
EXTENDS Naturals, Sequences, SequencesExt

CONSTANT DigitCap   \* the 24 of badgeTxEmit: longest run withheld

ASSUME DigitCapAssumption == DigitCap \in Nat \ {0}

Digit  == "0"
Other  == "x"
SpeedDigit == "9"
Suffix == <<" ", "M", "H", "z">>
Bytes  == {Digit, Other} \cup Range(Suffix)

\* The filter: mode, number of withheld digits, withheld suffix bytes.
EmptyTx == [mode |-> "Normal", pend |-> 0, suf |-> <<>>]

Digits(n) == [i \in 1..n |-> Digit]
Speed(n)  == [i \in 1..n |-> SpeedDigit]

\* What one call yields: the new filter and the bytes handed to the backend.
Yield(tx, bytes) == [tx |-> tx, emits |-> bytes]

InNormal(c) ==
  IF c = Digit THEN Yield([EmptyTx EXCEPT !.mode = "Digits", !.pend = 1], <<>>)
               ELSE Yield(EmptyTx, <<c>>)

\* A further digit; at the cap everything withheld is flushed with it.
InDigits(tx) ==
  IF tx.pend < DigitCap THEN Yield([tx EXCEPT !.pend = @ + 1], <<>>)
                        ELSE Yield(EmptyTx, Append(Digits(tx.pend), Digit))

\* Mutant: on divergence the bytes are flushed as they are, so a digit that
\* ends the mismatch is not withheld again ("DS20 100 MHz").
InSuffixNoRefeed(tx, c) ==
  LET suf == Append(tx.suf, c) IN
  CASE suf = Suffix -> Yield(EmptyTx, Speed(tx.pend) \o Suffix)
    [] suf # Suffix /\ IsPrefix(suf, Suffix) ->
         Yield([tx EXCEPT !.mode = "Suffix", !.suf = suf], <<>>)
    [] OTHER -> Yield(EmptyTx, Digits(tx.pend) \o suf)

\* A byte after the digits: the whole suffix rewrites the token, a proper
\* prefix waits, anything else flushes the digits and feeds the suffix bytes
\* again from Normal.  Of those only the last can be a digit, so the
\* recursion unfolds to one more step.
InSuffix(tx, c) ==
  LET suf == Append(tx.suf, c)
      r   == InNormal(c)
  IN CASE suf = Suffix -> Yield(EmptyTx, Speed(tx.pend) \o Suffix)
       [] suf # Suffix /\ IsPrefix(suf, Suffix) ->
            Yield([tx EXCEPT !.mode = "Suffix", !.suf = suf], <<>>)
       [] OTHER -> Yield(r.tx, Digits(tx.pend) \o tx.suf \o r.emits)

BadgeTxEmit(tx, c) ==
  CASE tx.mode = "Normal" -> InNormal(c)
    [] tx.mode = "Digits" /\ c = Digit -> InDigits(tx)
    [] OTHER -> InSuffix(tx, c)

Withheld(tx) == Digits(tx.pend) \o tx.suf

\* The stream the guest wrote, read back from what was emitted.
Undo(s) == [i \in DOMAIN s |-> IF s[i] = SpeedDigit THEN Digit ELSE s[i]]
============================================================================
