------------------------------ MODULE UartPort ------------------------------
(***************************************************************************)
(* The serial port between an arbitrary driver and an arbitrary terminal.  *)
(* History variables: fed, the bytes accepted from the terminal and not    *)
(* yet read or discarded by a FIFO reset; lost, whether a byte was dropped *)
(* since LSR was last read; credit, a THRE event not yet reported by IIR.  *)
(***************************************************************************)
EXTENDS Uart16550

CONSTANT TxBytes     \* the bytes the driver transmits

ASSUME PortAssumption == TxBytes \subseteq Bytes

VARIABLES uart, fed, lost, credit

vars == <<uart, fed, lost, credit>>

Init ==
  /\ uart = ResetUart
  /\ fed = <<>> /\ lost = FALSE /\ credit = FALSE

Receive(b) ==
  /\ uart' = FeedRxByte(uart, b)
  /\ fed' = IF Len(fed) < RxDepth THEN Append(fed, b) ELSE fed
  /\ lost' = (lost \/ Len(fed) >= RxDepth)
  /\ UNCHANGED credit

ReadData ==
  /\ uart' = ReadRBR(uart)
  /\ fed' = IF uart.dlab \/ fed = <<>> THEN fed ELSE Tail(fed)
  /\ UNCHANGED <<lost, credit>>

Enable(erbfi, etbei) ==
  /\ uart' = WriteIER(uart, erbfi, etbei)
  /\ credit' = (credit \/ (~uart.dlab /\ etbei /\ ~uart.etbei))
  /\ UNCHANGED <<fed, lost>>

Transmit(c) ==
  /\ uart' = WriteTHR(uart, c)
  /\ credit' = (credit \/ ~uart.dlab)
  /\ UNCHANGED <<fed, lost>>

Identify ==
  /\ uart' = ReadIIR(uart)
  /\ credit' = (credit /\ IirCause(uart) # "Thre")
  /\ UNCHANGED <<fed, lost>>

Status ==
  /\ uart' = ReadLSR(uart)
  /\ lost' = FALSE
  /\ UNCHANGED <<fed, credit>>

FifoControl(clear) ==
  /\ uart' = WriteFCR(uart, clear)
  /\ fed' = IF clear THEN <<>> ELSE fed
  /\ UNCHANGED <<lost, credit>>

LineControl(dlab) ==
  /\ uart' = WriteLCR(uart, dlab)
  /\ UNCHANGED <<fed, lost, credit>>

\* Machine: the snapshot taken on the way out, resumed in a new process.
SaveAndResume ==
  /\ uart' = Restored(uart)
  /\ UNCHANGED <<fed, lost, credit>>

Next ==
  \/ \E b \in RxBytes : Receive(b)
  \/ ReadData
  \/ \E erbfi, etbei \in BOOLEAN : Enable(erbfi, etbei)
  \/ \E c \in TxBytes : Transmit(c)
  \/ Identify
  \/ Status
  \/ \E clear \in BOOLEAN : FifoControl(clear)
  \/ \E dlab \in BOOLEAN : LineControl(dlab)
  \/ SaveAndResume

Spec == Init /\ [][Next]_vars

----------------------------------------------------------------------------
(* Types, and the bound on what the transmit filter withholds: "at most a run  *)
(* of digits plus up to 4 lookahead bytes".                                    *)
TypeOK ==
  /\ uart.rx \in Seq(RxBytes) /\ Len(uart.rx) <= RxDepth
  /\ {uart.erbfi, uart.etbei, uart.dlab, uart.thre, uart.overrun} \subseteq BOOLEAN
  /\ uart.tx.mode \in {"Normal", "Digits", "Suffix"}
  /\ uart.tx.pend \in 0..DigitCap /\ Len(uart.tx.suf) < Len(Suffix)
  /\ uart.tx.mode = "Normal" <=> Withheld(uart.tx) = <<>>

(* The receiver never loses a byte silently: the driver reads exactly the     *)
(* accepted bytes in order, and a dropped one is reported by LSR.              *)
ReceiveAccounted ==
  /\ uart.rx = fed
  /\ lost => uart.overrun

(* A transmitter-empty event stays pending until IIR reports it as such, also  *)
(* when received data is reported first: intPending holds while the source is  *)
(* enabled.                                                                    *)
ThreNotForgotten == (credit /\ uart.etbei) => IntPending(uart)
=============================================================================
