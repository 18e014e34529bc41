----------------------------- MODULE Uart16550 -----------------------------
(***************************************************************************)
(* deviceLib/Tsunami/Uart16550.h: the 16550 serial port of the console.    *)
(* The interrupt has two sources: received data (level, while the FIFO is  *)
(* not empty) and transmitter empty (a latch, set by enabling it and by    *)
(* every transmitted byte, cleared when IIR reports it).                   *)
(*                                                                         *)
(* MCR, SCR, the divisor latch and the stored FCR bits are storage that no *)
(* behaviour here reads; LCR is kept as its DLAB bit, which redirects      *)
(* registers 0 and 1 to the divisor.                                       *)
(***************************************************************************)
EXTENDS ConsoleTx

CONSTANTS RxDepth,   \* kRxFifoDepth
          RxBytes    \* the bytes a terminal sends

ASSUME UartAssumption == RxDepth \in Nat \ {0}

\* reset()
ResetUart == [erbfi |-> FALSE, etbei |-> FALSE, dlab |-> FALSE,
              thre |-> FALSE, overrun |-> FALSE, rx |-> <<>>, tx |-> EmptyTx]

RxPending(u)   == u.erbfi /\ u.rx # <<>>
ThrePending(u) == u.etbei /\ u.thre

IntPending(u) == RxPending(u) \/ ThrePending(u)

\* Mutant: an overrun overwrites the oldest byte and reports nothing.
FeedRxByteOverwrite(u, b) ==
  IF Len(u.rx) >= RxDepth THEN [u EXCEPT !.rx = Append(Tail(@), b)]
                          ELSE [u EXCEPT !.rx = Append(@, b)]

\* feedRxByte: a full FIFO drops the byte and sets the sticky overrun bit.
FeedRxByte(u, b) ==
  IF Len(u.rx) >= RxDepth THEN [u EXCEPT !.overrun = TRUE]
                          ELSE [u EXCEPT !.rx = Append(@, b)]

\* readRegister(0): the divisor under DLAB, else readRBR.
ReadRBR(u) ==
  IF u.dlab \/ u.rx = <<>> THEN u ELSE [u EXCEPT !.rx = Tail(@)]

\* Mutant: enabling the transmit interrupt does not latch the empty THR.
WriteIERNoLatch(u, erbfi, etbei) ==
  IF u.dlab THEN u ELSE [u EXCEPT !.erbfi = erbfi, !.etbei = etbei]

\* writeRegister(1): a rising ETBEI latches the already empty THR.
WriteIER(u, erbfi, etbei) ==
  IF u.dlab THEN u
  ELSE [u EXCEPT !.erbfi = erbfi, !.etbei = etbei,
                 !.thre = @ \/ (etbei /\ ~u.etbei)]

\* writeRegister(0): transmission completes at once and re-arms THRE.
WriteTHR(u, c) ==
  IF u.dlab THEN u
  ELSE [u EXCEPT !.thre = TRUE, !.tx = BadgeTxEmit(u.tx, c).tx]

\* The cause readIIR reports; received data comes first.
IirCause(u) ==
  CASE RxPending(u) -> "RxAvail"
    [] ~RxPending(u) /\ ThrePending(u) -> "Thre"
    [] OTHER -> "NoInt"

\* Mutant: any IIR read clears the latch, also one that reports the receiver.
ReadIIRClearsAlways(u) == [u EXCEPT !.thre = FALSE]

\* readIIR clears the THRE latch only when THRE is what it reports.
ReadIIR(u) == IF IirCause(u) = "Thre" THEN [u EXCEPT !.thre = FALSE] ELSE u

\* readLSR: reading clears the error bits.
ReadLSR(u) == [u EXCEPT !.overrun = FALSE]

\* writeFCR: bit 1 empties the receive FIFO.
WriteFCR(u, clear) == IF clear THEN [u EXCEPT !.rx = <<>>] ELSE u

WriteLCR(u, dlab) == [u EXCEPT !.dlab = dlab]

\* serialize, then deserialize into a new instance: every register and the
\* FIFO, but not the transmit filter.
Restored(u) == [u EXCEPT !.tx = EmptyTx]
============================================================================
