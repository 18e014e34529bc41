---------------------------- MODULE ConsoleProofs ----------------------------
(***************************************************************************)
(* The serial console, for every FIFO depth, every cap on the withheld     *)
(* digits and every set of bytes.                                          *)
(***************************************************************************)
EXTENDS MCConsole, SequenceTheorems, TLAPS

(* The transmit filter                                                     *)

\* The proper prefixes of " MHz".
Starts == {s \in Seq(Bytes) : Len(s) < Len(Suffix) /\ \A i \in 1..Len(s) : s[i] = Suffix[i]}

\* The states of the filter: what is withheld is a run of digits, then a proper
\* prefix of " MHz".
TxStates ==
  {t \in [mode : {"Normal", "Digits", "Suffix"}, pend : 0..DigitCap, suf : Starts] :
     /\ t.mode = "Normal" <=> t.pend = 0
     /\ t.mode = "Suffix" <=> t.suf # <<>>}

LEMMA SuffixType == Suffix \in Seq(Bytes) /\ Len(Suffix) = 4
<1>1. Len(Suffix) = 4 /\ DOMAIN Suffix = 1..4
  BY DEF Suffix
<1>2. \A i \in 1..4 : Suffix[i] \in Bytes
  BY <1>1 DEF Bytes, Range
<1>3. Suffix = [i \in 1..4 |-> Suffix[i]]
  BY DEF Suffix
<1>4. Suffix \in Seq(Bytes)
  BY <1>2, <1>3, SeqDef
<1> QED
  BY <1>1, <1>4

\* What is a prefix of " MHz" and not all of it is a proper prefix.
LEMMA ProperPrefix ==
  ASSUME NEW s \in Seq(Bytes), IsPrefix(s, Suffix), s # Suffix
  PROVE  s \in Starts
<1>1. Len(s) <= 4 /\ SubSeq(s, 1, Len(s)) = SubSeq(Suffix, 1, Len(s))
  BY SuffixType DEF IsPrefix
<1>2. \A i \in 1..Len(s) : s[i] = Suffix[i]
  <2> SUFFICES ASSUME NEW i \in 1..Len(s) PROVE s[i] = Suffix[i]
    OBVIOUS
  <2>1. SubSeq(s, 1, Len(s))[i] = s[i] /\ SubSeq(Suffix, 1, Len(s))[i] = Suffix[i]
    BY <1>1, SuffixType
  <2> QED
    BY <1>1, <2>1
<1>3. Len(s) # 4
  BY <1>2, SuffixType, SeqEqual
<1> QED
  BY <1>1, <1>2, <1>3, SuffixType DEF Starts

LEMMA EmptyTxType == EmptyTx \in TxStates
BY DigitCapAssumption, SuffixType DEF EmptyTx, TxStates, Starts

LEMMA InNormalType ==
  ASSUME NEW c \in Bytes
  PROVE  InNormal(c).tx \in TxStates
<1>1. [mode |-> "Digits", pend |-> 1, suf |-> <<>>] \in TxStates
  BY DigitCapAssumption, SuffixType DEF TxStates, Starts
<1> QED
  BY <1>1, EmptyTxType DEF InNormal, Yield, EmptyTx

LEMMA FilterType ==
  ASSUME NEW t \in TxStates, NEW c \in Bytes
  PROVE  BadgeTxEmit(t, c).tx \in TxStates
<1>1. CASE t.mode = "Normal"
  BY <1>1, InNormalType DEF BadgeTxEmit
<1>2. CASE t.mode = "Digits" /\ c = Digit
  <2>1. [t EXCEPT !.pend = @ + 1] \in TxStates \/ ~(t.pend < DigitCap)
    BY <1>2, DigitCapAssumption DEF TxStates
  <2> QED
    BY <1>2, <2>1, EmptyTxType DEF BadgeTxEmit, InDigits, Yield
<1>3. CASE ~(t.mode = "Normal") /\ ~(t.mode = "Digits" /\ c = Digit)
  <2>1. BadgeTxEmit(t, c) = InSuffix(t, c)
    BY <1>3 DEF BadgeTxEmit
  <2>2. CASE Append(t.suf, c) = Suffix
    BY <2>1, <2>2, EmptyTxType DEF InSuffix, Yield
  <2>3. CASE Append(t.suf, c) # Suffix /\ IsPrefix(Append(t.suf, c), Suffix)
    <3>0. Append(t.suf, c) \in Seq(Bytes) /\ Append(t.suf, c) # <<>>
      BY DEF TxStates, Starts
    <3>1. Append(t.suf, c) \in Starts
      BY <2>3, <3>0, ProperPrefix
    <3>2. [t EXCEPT !.mode = "Suffix", !.suf = Append(t.suf, c)] \in TxStates
      BY <1>3, <3>0, <3>1 DEF TxStates
    <3> QED
      BY <2>1, <2>3, <3>2 DEF InSuffix, Yield
  <2>4. CASE Append(t.suf, c) # Suffix /\ ~IsPrefix(Append(t.suf, c), Suffix)
    BY <2>1, <2>4, InNormalType DEF InSuffix, Yield
  <2> QED
    BY <2>2, <2>3, <2>4
<1> QED
  BY <1>1, <1>2, <1>3

-----------------------------------------------------------------------------
(* The serial port                                                         *)

\* The states of the port's registers.
Uarts ==
  {u \in [erbfi : BOOLEAN, etbei : BOOLEAN, dlab : BOOLEAN, thre : BOOLEAN,
          overrun : BOOLEAN, rx : Seq(RxBytes), tx : TxStates] :
     Len(u.rx) <= RxDepth}

\* Every access of the driver and of the terminal keeps the registers there.
LEMMA ResetUartType == ResetUart \in Uarts
BY EmptyTxType, UartAssumption DEF ResetUart, Uarts

LEMMA FeedRxByteType ==
  ASSUME NEW u \in Uarts, NEW b \in RxBytes
  PROVE  FeedRxByte(u, b) \in Uarts
<1>1. CASE Len(u.rx) >= RxDepth
  BY <1>1 DEF FeedRxByte, Uarts
<1>2. CASE ~(Len(u.rx) >= RxDepth)
  <2>1. Append(u.rx, b) \in Seq(RxBytes) /\ Len(Append(u.rx, b)) <= RxDepth
    BY <1>2, UartAssumption DEF Uarts
  <2> QED
    BY <1>2, <2>1 DEF FeedRxByte, Uarts
<1> QED
  BY <1>1, <1>2

LEMMA ReadRBRType ==
  ASSUME NEW u \in Uarts
  PROVE  ReadRBR(u) \in Uarts
<1>1. CASE u.dlab \/ u.rx = <<>>
  BY <1>1 DEF ReadRBR
<1>2. CASE ~(u.dlab \/ u.rx = <<>>)
  <2>1. Tail(u.rx) \in Seq(RxBytes) /\ Len(Tail(u.rx)) <= RxDepth
    BY <1>2, UartAssumption DEF Uarts
  <2> QED
    BY <1>2, <2>1 DEF ReadRBR, Uarts
<1> QED
  BY <1>1, <1>2

LEMMA WriteTHRType ==
  ASSUME NEW u \in Uarts, NEW c \in Bytes
  PROVE  WriteTHR(u, c) \in Uarts
<1>1. BadgeTxEmit(u.tx, c).tx \in TxStates
  BY FilterType DEF Uarts
<1> QED
  BY <1>1 DEF WriteTHR, Uarts

LEMMA WriteFCRType ==
  ASSUME NEW u \in Uarts, NEW clear \in BOOLEAN
  PROVE  WriteFCR(u, clear) \in Uarts
<1>1. <<>> \in Seq(RxBytes) /\ Len(<<>>) = 0
  BY EmptySeq
<1>2. ASSUME NEW e \in Seq(RxBytes), Len(e) = 0
      PROVE  [u EXCEPT !.rx = e] \in Uarts
  <2>1. Len(e) <= RxDepth
    BY <1>2, UartAssumption
  <2> QED
    BY <2>1 DEF Uarts
<1>3. [u EXCEPT !.rx = <<>>] \in Uarts
  BY <1>1, <1>2, Zenon
<1> QED
  BY <1>3, Zenon DEF WriteFCR

LEMMA ControlType ==
  ASSUME NEW u \in Uarts, NEW x \in BOOLEAN, NEW y \in BOOLEAN
  PROVE  WriteIER(u, x, y) \in Uarts /\ WriteLCR(u, x) \in Uarts
BY DEF WriteIER, WriteLCR, Uarts

LEMMA StatusType ==
  ASSUME NEW u \in Uarts
  PROVE  ReadIIR(u) \in Uarts /\ ReadLSR(u) \in Uarts /\ Restored(u) \in Uarts
BY EmptyTxType DEF ReadIIR, ReadLSR, Restored, Uarts

\* The typing part of the port's inductive invariant.
PortType ==
  /\ uart \in Uarts
  /\ fed \in Seq(RxBytes)
  /\ lost \in BOOLEAN
  /\ credit \in BOOLEAN

LEMMA PortTypeInvariant == Spec => []PortType
<1>1. Init => PortType
  BY ResetUartType, EmptySeq DEF Init, PortType
<1>2. PortType /\ [Next]_vars => PortType'
  <2> SUFFICES ASSUME PortType, [Next]_vars PROVE PortType'
    OBVIOUS
  <2> USE DEF PortType
  <2>1. ASSUME NEW b \in RxBytes, Receive(b) PROVE PortType'
    <3>1. fed' \in Seq(RxBytes) /\ lost' \in BOOLEAN
      BY <2>1 DEF Receive
    <3> QED
      BY <2>1, <3>1, FeedRxByteType DEF Receive
  <2>2. CASE ReadData
    BY <2>2, ReadRBRType DEF ReadData
  <2>3. ASSUME NEW erbfi \in BOOLEAN, NEW etbei \in BOOLEAN, Enable(erbfi, etbei)
        PROVE  PortType'
    BY <2>3, ControlType DEF Enable
  <2>4. ASSUME NEW c \in TxBytes, Transmit(c) PROVE PortType'
    BY <2>4, WriteTHRType, PortAssumption DEF Transmit
  <2>5. CASE Identify \/ Status \/ SaveAndResume
    BY <2>5, StatusType DEF Identify, Status, SaveAndResume
  <2>6. ASSUME NEW clear \in BOOLEAN, FifoControl(clear) PROVE PortType'
    BY <2>6, WriteFCRType, EmptySeq DEF FifoControl
  <2>7. ASSUME NEW dlab \in BOOLEAN, LineControl(dlab) PROVE PortType'
    BY <2>7, ControlType DEF LineControl
  <2>8. CASE UNCHANGED vars
    BY <2>8 DEF vars
  <2> QED
    BY <2>1, <2>2, <2>3, <2>4, <2>5, <2>6, <2>7, <2>8 DEF Next
<1> QED
  BY <1>1, <1>2, PTL DEF Spec

\* A run of digits is a sequence.
LEMMA DigitsType ==
  ASSUME NEW n \in Nat
  PROVE  /\ Digits(n) \in Seq(Bytes) /\ Len(Digits(n)) = n
         /\ \A i \in 1..n : Digits(n)[i] = Digit
<1>1. Digit \in Bytes
  BY DEF Bytes
<1>2. Digits(n) \in [1..n -> Bytes]
  BY <1>1 DEF Digits
<1>3. Digits(n) \in Seq(Bytes)
  BY <1>2, SeqDef
<1> QED
  BY <1>3 DEF Digits

\* What is withheld is as long as its digits and its suffix bytes.
LEMMA WithheldEmpty ==
  ASSUME NEW t \in TxStates
  PROVE  Withheld(t) = <<>> <=> t.pend = 0 /\ t.suf = <<>>
<1>1. t.pend \in Nat /\ t.suf \in Seq(Bytes)
  BY DigitCapAssumption DEF TxStates, Starts
<1>2. Digits(t.pend) \in Seq(Bytes) /\ Len(Digits(t.pend)) = t.pend
  BY <1>1, DigitsType
<1>3. Len(Withheld(t)) = t.pend + Len(t.suf) /\ Withheld(t) \in Seq(Bytes)
  <2> DEFINE d == Digits(t.pend)
             f == t.suf
  <2>1. d \in Seq(Bytes) /\ f \in Seq(Bytes) /\ Len(d) = t.pend /\ Withheld(t) = d \o f
    BY <1>1, <1>2 DEF Withheld
  <2> HIDE DEF d, f
  <2>2. Len(d \o f) = Len(d) + Len(f) /\ d \o f \in Seq(Bytes)
    BY <2>1, ConcatProperties
  <2> QED
    BY <2>1, <2>2 DEF f
<1>4. Len(t.suf) \in Nat /\ (t.suf = <<>> <=> Len(t.suf) = 0)
  BY <1>1, EmptySeq
<1>5. Withheld(t) = <<>> <=> Len(Withheld(t)) = 0
  BY <1>3, EmptySeq
<1> QED
  BY <1>1, <1>3, <1>4, <1>5

(* The registers of the port keep their types, the receive FIFO its depth, *)
(* and the transmit filter withholds at most DigitCap digits and a proper  *)
(* prefix of " MHz", under any sequence of accesses, resets and reloads.   *)
THEOREM PortTypeCorrect == Spec => []TypeOK
<1>1. PortType => TypeOK
  <2> SUFFICES ASSUME PortType PROVE TypeOK
    OBVIOUS
  <2>1. uart.tx \in TxStates
    BY DEF PortType, Uarts
  <2>2. uart.tx.mode = "Normal" <=> Withheld(uart.tx) = <<>>
    BY <2>1, WithheldEmpty DEF TxStates
  <2> QED
    BY <2>1, <2>2 DEF PortType, TypeOK, Uarts, TxStates, Starts
<1> QED
  BY <1>1, PortTypeInvariant, PTL

(* The driver reads exactly the bytes the receiver accepted, in order, and *)
(* a byte that found the FIFO full is reported by LSR: also across a FIFO  *)
(* reset, a divisor access and a reload.                                   *)
THEOREM ReceiverAccounts == Spec => []ReceiveAccounted
<1>1. Init => ReceiveAccounted
  BY DEF Init, ReceiveAccounted, ResetUart
<1>2. PortType /\ ReceiveAccounted /\ [Next]_vars => ReceiveAccounted'
  <2> SUFFICES ASSUME PortType, ReceiveAccounted, [Next]_vars
               PROVE  ReceiveAccounted'
    OBVIOUS
  <2> USE DEF PortType, ReceiveAccounted, Uarts
  <2>1. ASSUME NEW b \in RxBytes, Receive(b) PROVE ReceiveAccounted'
    <3>1. Len(fed) \in Nat /\ RxDepth \in Nat
      BY UartAssumption
    <3> QED
      BY <2>1, <3>1 DEF Receive, FeedRxByte
  <2>2. CASE ReadData
    BY <2>2 DEF ReadData, ReadRBR
  <2>3. ASSUME NEW erbfi \in BOOLEAN, NEW etbei \in BOOLEAN, Enable(erbfi, etbei)
        PROVE  ReceiveAccounted'
    BY <2>3 DEF Enable, WriteIER
  <2>4. ASSUME NEW c \in TxBytes, Transmit(c) PROVE ReceiveAccounted'
    BY <2>4 DEF Transmit, WriteTHR
  <2>5. CASE Identify
    BY <2>5 DEF Identify, ReadIIR
  <2>6. CASE Status
    BY <2>6 DEF Status, ReadLSR
  <2>7. ASSUME NEW clear \in BOOLEAN, FifoControl(clear) PROVE ReceiveAccounted'
    BY <2>7 DEF FifoControl, WriteFCR
  <2>8. ASSUME NEW dlab \in BOOLEAN, LineControl(dlab) PROVE ReceiveAccounted'
    BY <2>8 DEF LineControl, WriteLCR
  <2>9. CASE SaveAndResume
    BY <2>9 DEF SaveAndResume, Restored
  <2>10. CASE UNCHANGED vars
    BY <2>10 DEF vars
  <2> QED
    BY <2>1, <2>2, <2>3, <2>4, <2>5, <2>6, <2>7, <2>8, <2>9, <2>10 DEF Next
<1> QED
  BY <1>1, <1>2, PortTypeInvariant, PTL DEF Spec

\* The strengthening: it is the latch itself that keeps the event, not the
\* receiver's level that IntPending may also hold for.
ThreLatched == credit /\ uart.etbei => uart.thre

(* A transmitter-empty event raises the interrupt until IIR has reported   *)
(* it, whatever the receiver reports before it.                            *)
THEOREM ThreIsNotForgotten == Spec => []ThreNotForgotten
<1>1. Init => ThreLatched
  BY DEF Init, ThreLatched
<1>2. PortType /\ ThreLatched /\ [Next]_vars => ThreLatched'
  <2> SUFFICES ASSUME PortType, ThreLatched, [Next]_vars PROVE ThreLatched'
    OBVIOUS
  <2> USE DEF PortType, ThreLatched, Uarts
  <2>1. ASSUME NEW b \in RxBytes, Receive(b) PROVE ThreLatched'
    BY <2>1 DEF Receive, FeedRxByte
  <2>2. CASE ReadData
    BY <2>2 DEF ReadData, ReadRBR
  <2>3. ASSUME NEW erbfi \in BOOLEAN, NEW etbei \in BOOLEAN, Enable(erbfi, etbei)
        PROVE  ThreLatched'
    BY <2>3 DEF Enable, WriteIER
  <2>4. ASSUME NEW c \in TxBytes, Transmit(c) PROVE ThreLatched'
    BY <2>4 DEF Transmit, WriteTHR
  <2>5. CASE Identify
    BY <2>5 DEF Identify, ReadIIR
  <2>6. CASE Status
    BY <2>6 DEF Status, ReadLSR
  <2>7. ASSUME NEW clear \in BOOLEAN, FifoControl(clear) PROVE ThreLatched'
    BY <2>7 DEF FifoControl, WriteFCR
  <2>8. ASSUME NEW dlab \in BOOLEAN, LineControl(dlab) PROVE ThreLatched'
    BY <2>8 DEF LineControl, WriteLCR
  <2>9. CASE SaveAndResume
    BY <2>9 DEF SaveAndResume, Restored
  <2>10. CASE UNCHANGED vars
    BY <2>10 DEF vars
  <2> QED
    BY <2>1, <2>2, <2>3, <2>4, <2>5, <2>6, <2>7, <2>8, <2>9, <2>10 DEF Next
<1>3. ThreLatched => ThreNotForgotten
  BY DEF ThreLatched, ThreNotForgotten, IntPending, ThrePending
<1> QED
  BY <1>1, <1>2, <1>3, PortTypeInvariant, PTL DEF Spec

-----------------------------------------------------------------------------
(* The socket backend                                                      *)

\* The queues and the connection.  Without a client there is no input, in the
\* queue or in the socket.
BackendType ==
  /\ rxQueue \in Seq(Clients \X Int) /\ wire \in Seq(Clients \X Int)
  /\ txQueue \in Seq(Nat) /\ batch \in Seq(Nat) \union {None}
  /\ put \in Seq(Nat) /\ toSocket \in Seq(Nat)
  /\ sock \in Clients \union {None}
  /\ sent \in [Clients -> Nat]
  /\ sock = None => rxQueue = <<>> /\ wire = <<>>

\* The input queue goes on in the socket: together they are a gapless run of what
\* the attached client sent, up to its last byte.
WireExact == \A i \in 1..Len(wire) : wire[i] = <<sock, sent[sock] - Len(wire) + i>>
RxExact ==
  \A i \in 1..Len(rxQueue) :
    rxQueue[i] = <<sock, sent[sock] - Len(wire) - (Len(rxQueue) - i)>>

\* What is left of a queue that overflows: its last bytes.
LEMMA OldestDroppedExact ==
  ASSUME NEW S, NEW q \in Seq(S), RxSize \in Nat
  PROVE  /\ Backend!OldestDropped(q) \in Seq(S)
         /\ \A i \in 1..Len(Backend!OldestDropped(q)) :
              Backend!OldestDropped(q)[i] =
                q[Len(q) - Len(Backend!OldestDropped(q)) + i]
<1>1. CASE Len(q) > RxSize
  <2> DEFINE m == Len(q) - RxSize + 1
             r == SubSeq(q, m, Len(q))
  <2>1. m \in 1..Len(q) + 1 /\ Len(q) - m + 1 = RxSize
    BY <1>1
  <2>2. \A i \in m..Len(q) : q[i] \in S
    BY <2>1
  <2>3. r \in Seq(S) /\ Len(r) = RxSize
    BY <2>1, <2>2
  <2>4. \A i \in 1..RxSize : r[i] = q[m + i - 1]
    BY <2>1
  <2> QED
    BY <1>1, <2>1, <2>3, <2>4 DEF Backend!OldestDropped
<1>2. CASE ~(Len(q) > RxSize)
  BY <1>2 DEF Backend!OldestDropped
<1> QED
  BY <1>1, <1>2

LEMMA BackendTypeInvariant ==
  ASSUME RxSize \in Nat, None \notin Clients
  PROVE  Backend!Spec => []BackendType
<1>1. Backend!Init => BackendType
  BY EmptySeq DEF Backend!Init, BackendType
<1>2. BackendType /\ [Backend!Next]_Backend!vars => BackendType'
  <2> SUFFICES ASSUME BackendType, [Backend!Next]_Backend!vars PROVE BackendType'
    OBVIOUS
  <2> USE DEF BackendType, Backend!queues, Backend!caller, Backend!history
  <2>1. CASE Backend!Start \/ Backend!Stop \/ Backend!TimeOut \/ Backend!EmitTxReady
             \/ (\E t \in BOOLEAN : Backend!GetCharWait(t))
             \/ (\E c \in Clients : Backend!Connect(c) \/ Backend!Close(c))
    BY <2>1 DEF Backend!Start, Backend!Stop, Backend!TimeOut, Backend!EmitTxReady,
                Backend!GetCharWait, Backend!Connect, Backend!Close
  <2>2. CASE Backend!GetCharNow \/ Backend!Reader \/ Backend!Reset
    <3>1. \/ rxQueue' = rxQueue \/ rxQueue' = <<>>
          \/ rxQueue # <<>> /\ rxQueue' = Tail(rxQueue)
      BY <2>2 DEF Backend!GetCharNow, Backend!Reader, Backend!Reset
    <3>2. rxQueue' \in Seq(Clients \X Int)
      <4>1. <<>> \in Seq(Clients \X Int)
        BY EmptySeq
      <4>2. rxQueue # <<>> => Tail(rxQueue) \in Seq(Clients \X Int)
        OBVIOUS
      <4> QED
        BY <3>1, <4>1, <4>2, Zenon
    <3>3. UNCHANGED <<wire, txQueue, batch, put, toSocket, sock, sent>>
      BY <2>2 DEF Backend!GetCharNow, Backend!Reader, Backend!Reset
    <3> QED
      BY <3>1, <3>2, <3>3
  <2>3. CASE Backend!PutChar
    BY <2>3 DEF Backend!PutChar
  <2>4. ASSUME NEW c \in Clients, Backend!Send(c) PROVE BackendType'
    <3>1. <<c, sent[c] + 1>> \in Clients \X Int /\ sent[c] + 1 \in Nat
      OBVIOUS
    <3>2. wire' \in Seq(Clients \X Int) /\ sent' \in [Clients -> Nat]
      BY <2>4, <3>1 DEF Backend!Send
    <3> QED
      BY <2>4, <3>2 DEF Backend!Send
  <2>5. ASSUME NEW c \in Clients, Backend!OnNewConnection(c) PROVE BackendType'
    BY <2>5, EmptySeq DEF Backend!OnNewConnection
  <2>6. CASE Backend!OnReadyRead
    <3>1. rxQueue \o wire \in Seq(Clients \X Int)
      OBVIOUS
    <3>2. rxQueue' \in Seq(Clients \X Int)
      BY <2>6, <3>1, OldestDroppedExact DEF Backend!OnReadyRead
    <3> QED
      BY <2>6, <3>2, EmptySeq DEF Backend!OnReadyRead
  <2>7. CASE Backend!OnDisconnected \/ Backend!DoStop
    BY <2>7, EmptySeq DEF Backend!OnDisconnected, Backend!DoStop
  <2>8. CASE Backend!DrainTake \/ Backend!DrainWrite
    <3>1. <<>> \in Seq(Nat) /\ (batch # None => toSocket \o batch \in Seq(Nat))
      BY EmptySeq
    <3>2. CASE Backend!DrainTake
      BY <3>1, <3>2, Zenon DEF Backend!DrainTake
    <3>3. CASE Backend!DrainWrite
      BY <3>1, <3>3, Zenon DEF Backend!DrainWrite
    <3> QED
      BY <2>8, <3>2, <3>3
  <2>9. CASE UNCHANGED Backend!vars
    BY <2>9 DEF Backend!vars
  <2> QED
    BY <2>1, <2>2, <2>3, <2>4, <2>5, <2>6, <2>7, <2>8, <2>9
    DEF Backend!Next, Backend!Backend
<1> QED
  BY <1>1, <1>2, PTL DEF Backend!Spec

\* The bytes in flight, between the queue and the socket.
InFlight == IF batch = None THEN <<>> ELSE batch

(* Output: what was written, taken and queued is what was printed.          *)
LEMMA OutputOrder ==
  ASSUME RxSize \in Nat, None \notin Clients, None \notin Seq(Nat)
  PROVE  Backend!Spec => []Backend!OutputInOrder
<1>1. Backend!Init => Backend!OutputInOrder
  BY EmptySeq, ConcatEmptySeq DEF Backend!Init, Backend!OutputInOrder
<1>2. BackendType /\ Backend!OutputInOrder /\ [Backend!Next]_Backend!vars
        => Backend!OutputInOrder'
  <2> SUFFICES ASSUME BackendType, Backend!OutputInOrder, [Backend!Next]_Backend!vars
               PROVE  Backend!OutputInOrder'
    OBVIOUS
  <2>a. /\ toSocket \in Seq(Nat) /\ txQueue \in Seq(Nat) /\ put \in Seq(Nat)
        /\ batch \in Seq(Nat) \union {None} /\ InFlight \in Seq(Nat)
    BY EmptySeq DEF BackendType, InFlight
  <2>b. (toSocket \o InFlight) \o txQueue = put
    BY DEF Backend!OutputInOrder, InFlight
  <2> SUFFICES (toSocket' \o InFlight') \o txQueue' = put'
    BY DEF Backend!OutputInOrder, InFlight
  <2>1. CASE UNCHANGED <<toSocket, batch, txQueue, put>>
    BY <2>1, <2>b DEF InFlight
  <2>2. CASE Backend!PutChar
    <3> DEFINE b == Len(put) + 1
               w == toSocket \o InFlight
    <3>1. b \in Nat /\ w \in Seq(Nat)
      BY <2>a
    <3>2. txQueue' = Append(txQueue, b) /\ put' = Append(put, b)
      BY <2>2 DEF Backend!PutChar
    <3>3. toSocket' = toSocket /\ InFlight' = InFlight
      BY <2>2 DEF Backend!PutChar, InFlight
    <3>4. w \o Append(txQueue, b) = Append(w \o txQueue, b)
      <4> HIDE DEF w, b
      <4> QED
        <5>1. w \o txQueue \in Seq(Nat) /\ <<b>> \in Seq(Nat) /\ txQueue \in Seq(Nat)
          BY <2>a, <3>1, ConcatProperties
        <5>2. Append(txQueue, b) = txQueue \o <<b>> /\ Append(w \o txQueue, b) = (w \o txQueue) \o <<b>>
          BY <3>1, <5>1, AppendIsConcat
        <5>3. (w \o txQueue) \o <<b>> = w \o (txQueue \o <<b>>)
          BY <3>1, <5>1, ConcatAssociative, SMTT(20)
        <5> QED
          BY <5>2, <5>3, Zenon
    <3> QED
      BY <2>b, <3>2, <3>3, <3>4
  <2>3. CASE Backend!DrainTake
    <3>1. CASE sock = None \/ txQueue = <<>>
      BY <2>1, <2>3, <3>1 DEF Backend!DrainTake, Backend!history
    <3>2. CASE ~(sock = None \/ txQueue = <<>>)
      <4>1. /\ batch = None /\ batch' = txQueue /\ txQueue' = <<>>
            /\ toSocket' = toSocket /\ put' = put
        BY <2>3, <3>2 DEF Backend!DrainTake, Backend!EventLoop, Backend!history
      <4>2. InFlight = <<>> /\ InFlight' = txQueue
        BY <2>a, <4>1 DEF InFlight
      <4>3. toSocket \o <<>> = toSocket
        BY <2>a, ConcatEmptySeq
      <4>4. (toSocket \o txQueue) \o <<>> = toSocket \o txQueue
        BY <2>a, ConcatEmptySeq, ConcatProperties
      <4> QED
        BY <2>b, <4>1, <4>2, <4>3, <4>4
    <3> QED
      BY <3>1, <3>2
  <2>4. CASE Backend!DrainWrite
    <3>1. /\ batch # None /\ batch' = None /\ toSocket' = toSocket \o batch
          /\ txQueue' = txQueue /\ put' = put
      BY <2>4 DEF Backend!DrainWrite
    <3>2. InFlight = batch /\ InFlight' = <<>>
      BY <3>1 DEF InFlight
    <3>3. (toSocket \o batch) \o <<>> = toSocket \o batch
      BY <2>a, <3>2, ConcatEmptySeq, ConcatProperties
    <3> QED
      BY <2>b, <3>1, <3>2, <3>3
  <2>5. CASE Backend!DoStop
    <3>1. /\ batch = None /\ batch' = None /\ txQueue' = <<>>
          /\ toSocket' = toSocket /\ put' = toSocket
      BY <2>5 DEF Backend!DoStop, Backend!EventLoop
    <3>2. toSocket \o <<>> = toSocket
      BY <2>a, ConcatEmptySeq
    <3> QED
      BY <3>1, <3>2 DEF InFlight
  <2>6. CASE Backend!Start \/ Backend!Stop \/ Backend!TimeOut \/ Backend!EmitTxReady
             \/ (\E t \in BOOLEAN : Backend!GetCharWait(t))
             \/ (\E c \in Clients : Backend!Connect(c) \/ Backend!Close(c))
    BY <2>1, <2>6 DEF Backend!Start, Backend!Stop, Backend!TimeOut, Backend!EmitTxReady,
         Backend!GetCharWait, Backend!Connect, Backend!Close, Backend!queues, Backend!history
  <2>7. CASE Backend!GetCharNow \/ Backend!Reader \/ Backend!Reset
             \/ Backend!OnReadyRead \/ Backend!OnDisconnected
             \/ (\E c \in Clients : Backend!Send(c) \/ Backend!OnNewConnection(c))
    BY <2>1, <2>7 DEF Backend!GetCharNow, Backend!Reader, Backend!Reset,
         Backend!OnReadyRead, Backend!OnDisconnected, Backend!Send,
         Backend!OnNewConnection, Backend!history
  <2>8. CASE UNCHANGED Backend!vars
    BY <2>1, <2>8 DEF Backend!vars, Backend!queues, Backend!history
  <2> QED
    BY <2>2, <2>3, <2>4, <2>5, <2>6, <2>7, <2>8 DEF Backend!Next, Backend!Backend
<1> QED
  BY <1>1, <1>2, BackendTypeInvariant, PTL DEF Backend!Spec

(* Input: queue and socket together are a gapless run of what the attached  *)
(* client sent.                                                            *)
LEMMA InputRun ==
  ASSUME RxSize \in Nat, None \notin Clients
  PROVE  Backend!Spec => [](WireExact /\ RxExact)
<1>1. Backend!Init => WireExact /\ RxExact
  BY EmptySeq DEF Backend!Init, WireExact, RxExact
<1>2. BackendType /\ WireExact /\ RxExact /\ [Backend!Next]_Backend!vars
        => WireExact' /\ RxExact'
  <2> SUFFICES ASSUME BackendType, WireExact, RxExact, [Backend!Next]_Backend!vars
               PROVE  WireExact' /\ RxExact'
    OBVIOUS
  <2>a. /\ rxQueue \in Seq(Clients \X Int) /\ wire \in Seq(Clients \X Int)
        /\ Len(rxQueue) \in Nat /\ Len(wire) \in Nat
    BY DEF BackendType
  <2>b. sock \in Clients => sent[sock] \in Nat
    BY DEF BackendType
  <2>1. CASE UNCHANGED <<rxQueue, wire, sock, sent>>
    BY <2>1 DEF WireExact, RxExact
  <2>2. CASE rxQueue' = <<>> /\ UNCHANGED <<wire, sock, sent>>
    BY <2>2, EmptySeq DEF WireExact, RxExact
  <2>3. CASE rxQueue' = <<>> /\ wire' = <<>>
    BY <2>3, EmptySeq DEF WireExact, RxExact
  <2>4. CASE rxQueue # <<>> /\ rxQueue' = Tail(rxQueue) /\ UNCHANGED <<wire, sock, sent>>
    <3>1. sock \in Clients
      BY <2>4 DEF BackendType
    <3>2. Len(rxQueue') = Len(rxQueue) - 1
          /\ \A i \in 1..Len(rxQueue') : rxQueue'[i] = rxQueue[i + 1]
      BY <2>4, <2>a
    <3>3. RxExact'
      BY <2>4, <2>a, <2>b, <3>1, <3>2 DEF RxExact
    <3> QED
      BY <2>4, <3>3 DEF WireExact
  <2>5. ASSUME NEW c \in Clients, Backend!Send(c) PROVE WireExact' /\ RxExact'
    <3> DEFINE b == <<c, sent[c] + 1>>
    <3>1. /\ sock = c /\ sock' = c /\ rxQueue' = rxQueue /\ wire' = Append(wire, b)
          /\ sent'[c] = sent[c] + 1 /\ sent[c] \in Nat
      BY <2>5 DEF Backend!Send, BackendType
    <3>2. b \in Clients \X Int
      BY <3>1
    <3>3. /\ Len(wire') = Len(wire) + 1
          /\ \A i \in 1..Len(wire') : wire'[i] = IF i <= Len(wire) THEN wire[i] ELSE b
      <4> HIDE DEF b
      <4> QED
        BY <2>a, <3>1, <3>2
    <3>a. sent'[sock'] = sent[c] + 1 /\ Len(wire') = Len(wire) + 1
      BY <3>1, <3>3
    <3>b. (sent[c] + 1) - Len(wire') = sent[c] - Len(wire)
      <4>1. sent[c] \in Nat /\ Len(wire) \in Nat
        BY <2>a, <3>1
      <4> QED
        BY <3>a, <4>1
    <3>4. WireExact'
      <4> SUFFICES ASSUME NEW i \in 1..Len(wire')
                   PROVE  wire'[i] = <<c, (sent[c] + 1) - Len(wire') + i>>
        BY <3>1, <3>a, Zenon DEF WireExact
      <4>1. CASE i <= Len(wire)
        <5>1. wire[i] = <<c, sent[c] - Len(wire) + i>>
          BY <2>a, <3>1, <4>1 DEF WireExact
        <5>2. wire'[i] = wire[i]
          BY <3>3, <4>1
        <5> QED
          BY <3>b, <5>1, <5>2, Zenon
      <4>2. CASE ~(i <= Len(wire))
        BY <2>a, <3>1, <3>3, <3>a, <4>2
      <4> QED
        BY <4>1, <4>2
    <3>5. RxExact'
      <4> SUFFICES ASSUME NEW i \in 1..Len(rxQueue)
                   PROVE  rxQueue[i] =
                            <<c, (sent[c] + 1) - Len(wire') - (Len(rxQueue) - i)>>
        BY <3>1, <3>a, Zenon DEF RxExact
      <4>1. rxQueue[i] = <<c, sent[c] - Len(wire) - (Len(rxQueue) - i)>>
        BY <3>1 DEF RxExact
      <4> QED
        BY <3>b, <4>1, Zenon
    <3> QED
      BY <3>4, <3>5
  <2>6. CASE Backend!OnReadyRead
    <3> DEFINE q == rxQueue \o wire
               n == sent[sock]
    <3>1. /\ sock \in Clients /\ sock' = sock /\ sent' = sent
          /\ rxQueue' = Backend!OldestDropped(q) /\ wire' = <<>>
      BY <2>6 DEF Backend!OnReadyRead, Backend!history, BackendType
    <3>2. q \in Seq(Clients \X Int) /\ Len(q) = Len(rxQueue) + Len(wire)
      BY <2>a
    <3>3. \A i \in 1..Len(q) : q[i] = <<sock, n - (Len(q) - i)>>
      <4> SUFFICES ASSUME NEW i \in 1..Len(q) PROVE q[i] = <<sock, n - (Len(q) - i)>>
        OBVIOUS
      <4>1. CASE i <= Len(rxQueue)
        <5>1. q[i] = rxQueue[i]
          BY <2>a, <4>1
        <5> QED
          BY <2>a, <2>b, <3>1, <3>2, <4>1, <5>1 DEF RxExact
      <4>2. CASE ~(i <= Len(rxQueue))
        <5>1. q[i] = wire[i - Len(rxQueue)]
          BY <2>a, <4>2
        <5>2. i - Len(rxQueue) \in 1..Len(wire)
          BY <2>a, <3>2, <4>2
        <5> QED
          BY <2>a, <2>b, <3>1, <3>2, <4>2, <5>1, <5>2 DEF WireExact
      <4> QED
        BY <4>1, <4>2
    <3> HIDE DEF q
    <3>4. \A i \in 1..Len(rxQueue') :
            rxQueue'[i] = q[Len(q) - Len(rxQueue') + i]
      BY <3>1, <3>2, OldestDroppedExact
    <3>5. rxQueue' \in Seq(Clients \X Int) /\ Len(rxQueue') <= Len(q)
      <4>1. CASE Len(q) > RxSize
        BY <3>1, <3>2, <4>1 DEF Backend!OldestDropped
      <4>2. CASE ~(Len(q) > RxSize)
        BY <3>1, <3>2, <4>2 DEF Backend!OldestDropped
      <4> QED
        BY <4>1, <4>2
    <3>6. \A i \in 1..Len(rxQueue') : rxQueue'[i] = <<sock, n - (Len(rxQueue') - i)>>
      <4> SUFFICES ASSUME NEW i \in 1..Len(rxQueue')
                   PROVE  rxQueue'[i] = <<sock, n - (Len(rxQueue') - i)>>
        OBVIOUS
      <4> DEFINE j == Len(q) - Len(rxQueue') + i
      <4>1. j \in 1..Len(q) /\ Len(q) - j = Len(rxQueue') - i
        BY <3>2, <3>5
      <4>2. rxQueue'[i] = q[j]
        BY <3>4
      <4> HIDE DEF j
      <4> QED
        BY <3>3, <4>1, <4>2
    <3>7. n - 0 = n /\ Len(wire') = 0
      BY <2>b, <3>1, EmptySeq
    <3> QED
      BY <3>1, <3>6, <3>7 DEF WireExact, RxExact
  <2>7. CASE Backend!Start \/ Backend!Stop \/ Backend!TimeOut \/ Backend!EmitTxReady
             \/ Backend!PutChar \/ Backend!DrainTake \/ Backend!DrainWrite
             \/ (\E t \in BOOLEAN : Backend!GetCharWait(t))
             \/ (\E c \in Clients : Backend!Connect(c) \/ Backend!Close(c))
    BY <2>1, <2>7 DEF Backend!Start, Backend!Stop, Backend!TimeOut, Backend!EmitTxReady,
         Backend!PutChar, Backend!DrainTake, Backend!DrainWrite, Backend!GetCharWait,
         Backend!Connect, Backend!Close, Backend!queues, Backend!history
  <2>8. CASE Backend!GetCharNow \/ Backend!Reader \/ Backend!Reset
    BY <2>1, <2>2, <2>4, <2>8 DEF Backend!GetCharNow, Backend!Reader, Backend!Reset,
         Backend!history
  <2>9. CASE Backend!OnDisconnected \/ Backend!DoStop
    BY <2>3, <2>9 DEF Backend!OnDisconnected, Backend!DoStop
  <2>10. ASSUME NEW c \in Clients, Backend!OnNewConnection(c)
         PROVE  WireExact' /\ RxExact'
    <3>1. CASE sock # None
      BY <2>1, <2>10, <3>1 DEF Backend!OnNewConnection, Backend!history
    <3>2. CASE sock = None
      BY <2>3, <2>10, <3>2 DEF Backend!OnNewConnection, BackendType
    <3> QED
      BY <3>1, <3>2
  <2>11. CASE UNCHANGED Backend!vars
    BY <2>1, <2>11 DEF Backend!vars, Backend!queues, Backend!history
  <2> QED
    BY <2>5, <2>6, <2>7, <2>8, <2>9, <2>10, <2>11 DEF Backend!Next, Backend!Backend
<1> QED
  BY <1>1, <1>2, BackendTypeInvariant, PTL DEF Backend!Spec

(* The byte streams between the emulator, the backend thread and the        *)
(* socket are intact in both directions, for any number of clients and any  *)
(* size of the input queue: onDrainTx writes outside m_mutex what it took    *)
(* under it and no byte overtakes another; an overflow of m_rxQueue drops    *)
(* its oldest bytes only, and a client never reads, or leaves behind, what   *)
(* another one sent.                                                         *)
THEOREM ConsoleStreamsIntact ==
  ASSUME RxSize \in Nat, None \notin Clients, None \notin Seq(Nat)
  PROVE  Backend!Spec => []StreamsIntact
<1>1. BackendType /\ Backend!OutputInOrder /\ RxExact => StreamsIntact
  <2> SUFFICES ASSUME BackendType, Backend!OutputInOrder, RxExact PROVE StreamsIntact
    OBVIOUS
  <2>1. DOMAIN rxQueue = 1..Len(rxQueue)
    BY DEF BackendType
  <2> QED
    BY <2>1 DEF RxExact, StreamsIntact, Backend!StreamsIntact, Backend!InputFromClient
<1> QED
  BY <1>1, BackendTypeInvariant, OutputOrder, InputRun, PTL

-----------------------------------------------------------------------------
(* The byte stream of the transmit filter                                  *)

\* What the backend may receive.
Received == Bytes \cup {SpeedDigit}

LEMMA SuffixBytes ==
  /\ \A k \in 1..4 : Suffix[k] # Digit /\ Suffix[k] # SpeedDigit
  /\ \A j, k \in 1..4 : Suffix[j] = Suffix[k] => j = k
BY DEF Suffix, Digit, SpeedDigit

\* At i begin n digits, no digit before them and at most DigitCap of them,
\* followed by the first k bytes of " MHz".
Token(s, i, n, k) ==
  /\ i + n + k - 1 <= Len(s)
  /\ \A j \in i .. i + n - 1 : s[j] = Digit
  /\ i > 1 => s[i - 1] # Digit
  /\ \A j \in 1..k : s[i + n - 1 + j] = Suffix[j]

NoToken(s) == \A i \in 1..Len(s), n \in 1..DigitCap : ~Token(s, i, n, 4)

\* s may end inside a token only after the first of its suffix bytes, and only
\* while the filter withholds a digit, which will come next.
NoOpenToken(s, mode) ==
  \A i \in 1..Len(s), n \in 1..DigitCap, k \in 0..3 :
    Token(s, i, n, k) /\ i + n + k - 1 = Len(s) => k # 0 /\ mode # "Normal"

\* z continues s.
Continues(z, s) ==
  /\ s \in Seq(Received) /\ z \in Seq(Received)
  /\ Len(s) <= Len(z) /\ \A j \in 1..Len(s) : z[j] = s[j]

LEMMA TokenShortens ==
  ASSUME NEW z, Len(z) \in Nat, NEW i \in 1..Len(z), NEW n \in 1..DigitCap, NEW k \in 1..4,
         Token(z, i, n, k)
  PROVE  Token(z, i, n, k - 1)
<1>1. i + n + (k - 1) - 1 <= Len(z)
  BY DigitCapAssumption DEF Token
<1>2. \A j \in 1 .. k - 1 : j \in 1..k
  OBVIOUS
<1> QED
  BY <1>1, <1>2 DEF Token

LEMMA OldToken ==
  ASSUME NEW s, NEW z, Continues(z, s), NEW i \in 1..Len(z), NEW n \in 1..DigitCap,
         NEW k \in 0..4, Token(z, i, n, k), i + n + k - 1 <= Len(s)
  PROVE  i \in 1..Len(s) /\ Token(s, i, n, k)
<1> USE DigitCapAssumption
<1>1. Len(s) \in Nat /\ Len(z) \in Nat /\ i \in 1..Len(s)
  BY DEF Continues
<1>2. \A j \in i .. i + n - 1 : j \in 1..Len(s) /\ s[j] = Digit
  BY <1>1 DEF Continues, Token
<1>3. i > 1 => s[i - 1] # Digit
  BY <1>1 DEF Continues, Token
<1>4. \A j \in 1..k : s[i + n - 1 + j] = Suffix[j]
  <2> TAKE j \in 1..k
  <2>1. i + n - 1 + j \in 1..Len(s)
    BY <1>1
  <2> QED
    BY <2>1 DEF Continues, Token
<1> QED
  BY <1>1, <1>2, <1>3, <1>4 DEF Token

\* Normal passes on a byte that is no digit.
LEMMA BytePassed ==
  ASSUME NEW s, NEW z, Continues(z, s), Len(z) = Len(s) + 1, z[Len(z)] # Digit,
         NoToken(s), NoOpenToken(s, "Normal")
  PROVE  NoToken(z) /\ NoOpenToken(z, "Normal")
<1> USE DigitCapAssumption
<1>1. Len(s) \in Nat /\ Len(z) \in Nat
  BY DEF Continues
<1>2. ASSUME NEW i \in 1..Len(z), NEW n \in 1..DigitCap, NEW k \in 0..4,
             Token(z, i, n, k)
      PROVE  i + n + k - 1 # Len(z)
  <2> SUFFICES ASSUME i + n + k - 1 = Len(z) PROVE FALSE
    OBVIOUS
  <2>1. k # 0
    <3>1. k = 0 => Len(z) \in i .. i + n - 1
      BY <1>1, <1>2
    <3> QED
      BY <1>2, <3>1 DEF Token
  <2>2. Token(z, i, n, k - 1) /\ k - 1 \in 0..3 /\ i + n + (k - 1) - 1 = Len(s)
    <3>1. k \in 1..4 /\ k - 1 \in 0..3 /\ i + n + (k - 1) - 1 = Len(s)
      BY <1>1, <2>1
    <3> QED
      BY <1>1, <1>2, <3>1, TokenShortens
  <2>3. i \in 1..Len(s) /\ Token(s, i, n, k - 1)
    BY <1>1, <2>2, OldToken
  <2> QED
    BY <2>2, <2>3 DEF NoOpenToken
<1>3. NoToken(z)
  <2> SUFFICES ASSUME NEW i \in 1..Len(z), NEW n \in 1..DigitCap, Token(z, i, n, 4)
               PROVE  FALSE
    BY DEF NoToken
  <2>1. 4 \in 0..4 /\ i + n + 4 - 1 # Len(z)
    BY <1>1, <1>2
  <2>2. i + n + 4 - 1 <= Len(s)
    BY <1>1, <2>1 DEF Token
  <2>3. i \in 1..Len(s) /\ Token(s, i, n, 4)
    BY <2>1, <2>2, OldToken
  <2> QED
    BY <2>3 DEF NoToken
<1>4. NoOpenToken(z, "Normal")
  <2> SUFFICES ASSUME NEW i \in 1..Len(z), NEW n \in 1..DigitCap, NEW k \in 0..3,
                      Token(z, i, n, k)
               PROVE  i + n + k - 1 # Len(z)
    BY <1>1 DEF NoOpenToken
  <2>1. k \in 0..4
    OBVIOUS
  <2> QED
    BY <1>2, <2>1
<1> QED
  BY <1>3, <1>4

\* A run longer than the cap is passed on as it is.
LEMMA LongRunPassed ==
  ASSUME NEW s, NEW z, Continues(z, s), Len(z) = Len(s) + DigitCap + 1,
         \A j \in Len(s) + 1 .. Len(z) : z[j] = Digit, NoToken(s)
  PROVE  NoToken(z) /\ NoOpenToken(z, "Normal")
<1> USE DigitCapAssumption
<1>1. Len(s) \in Nat /\ Len(z) \in Nat
  BY DEF Continues
<1>2. ASSUME NEW i \in 1..Len(z), NEW n \in 1..DigitCap, NEW k \in 1..4, Token(z, i, n, k)
      PROVE  i + n + k - 1 <= Len(s)
  <2>1. z[i + n - 1 + k] = Suffix[k] /\ i + n - 1 + k <= Len(z)
    BY <1>1, <1>2 DEF Token
  <2>2. i + n - 1 + k \notin Len(s) + 1 .. Len(z)
    BY <2>1, SuffixBytes
  <2> QED
    BY <1>1, <2>1, <2>2
<1>3. NoToken(z)
  <2> SUFFICES ASSUME NEW i \in 1..Len(z), NEW n \in 1..DigitCap, Token(z, i, n, 4)
               PROVE  FALSE
    BY DEF NoToken
  <2>1. i + n + 4 - 1 <= Len(s)
    BY <1>2
  <2> QED
    BY <2>1, OldToken DEF NoToken
<1>4. NoOpenToken(z, "Normal")
  <2> SUFFICES ASSUME NEW i \in 1..Len(z), NEW n \in 1..DigitCap, NEW k \in 0..3,
                      Token(z, i, n, k), i + n + k - 1 = Len(z)
               PROVE  FALSE
    BY DEF NoOpenToken
  <2>1. k = 0
    BY <1>1, <1>2
  <2>2. i - 1 \in Len(s) + 1 .. Len(z) /\ i > 1
    BY <1>1, <2>1
  <2> QED
    BY <2>2 DEF Token
<1> QED
  BY <1>3, <1>4

\* A rewritten speed.
LEMMA SpeedPassed ==
  ASSUME NEW s, NEW z, Continues(z, s), NEW m \in 1..DigitCap,
         Len(z) = Len(s) + m + 4,
         \A j \in Len(s) + 1 .. Len(s) + m : z[j] = SpeedDigit,
         \A j \in 1..4 : z[Len(s) + m + j] = Suffix[j], NoToken(s)
  PROVE  NoToken(z) /\ NoOpenToken(z, "Normal")
<1> USE DigitCapAssumption
<1>1. Len(s) \in Nat /\ Len(z) \in Nat
  BY DEF Continues
<1>2. z[Len(z)] = Suffix[4] /\ z[Len(z) - 4] = SpeedDigit
  BY <1>1
<1>3. NoOpenToken(z, "Normal")
  <2> SUFFICES ASSUME NEW i \in 1..Len(z), NEW n \in 1..DigitCap, NEW k \in 0..3,
                      Token(z, i, n, k), i + n + k - 1 = Len(z)
               PROVE  FALSE
    BY DEF NoOpenToken
  <2>1. CASE k = 0
    <3>1. Len(z) \in i .. i + n - 1
      BY <1>1, <2>1
    <3> QED
      BY <1>2, <3>1, SuffixBytes DEF Token
  <2>2. CASE k # 0
    <3>1. z[Len(z)] = Suffix[k] /\ k \in 1..4
      BY <1>1, <2>2 DEF Token
    <3> QED
      BY <1>2, <3>1, SuffixBytes
  <2> QED
    BY <2>1, <2>2
<1>4. NoToken(z)
  <2> SUFFICES ASSUME NEW i \in 1..Len(z), NEW n \in 1..DigitCap, Token(z, i, n, 4)
               PROVE  FALSE
    BY DEF NoToken
  <2> DEFINE p == i + n + 3
  <2>1. p \in Nat /\ p <= Len(z) /\ z[p] = Suffix[4] /\ p - 4 \in i .. i + n - 1
    BY <1>1 DEF Token
  <2> HIDE DEF p
  <2>2. CASE p <= Len(s)
    <3>1. 4 \in 0..4 /\ i + n + 4 - 1 <= Len(s)
      BY <1>1, <2>2 DEF p
    <3>2. i \in 1..Len(s) /\ Token(s, i, n, 4)
      BY <3>1, OldToken
    <3> QED
      BY <3>2 DEF NoToken
  <2>3. CASE p \in Len(s) + 1 .. Len(s) + m
    BY <2>1, <2>3, SuffixBytes
  <2>4. CASE p > Len(s) + m
    <3> DEFINE j == p - Len(s) - m
    <3>1. j \in 1..4 /\ p = Len(s) + m + j
      BY <1>1, <2>1, <2>4
    <3> HIDE DEF j
    <3>2. Suffix[j] = Suffix[4]
      BY <2>1, <3>1
    <3>3. j = 4
      BY <3>1, <3>2, SuffixBytes
    <3>4. z[p - 4] = SpeedDigit /\ p - 4 \in i .. i + n - 1
      BY <1>1, <1>2, <2>1, <3>1, <3>3
    <3>5. z[p - 4] = Digit
      BY <3>4 DEF Token
    <3> QED
      BY <3>4, <3>5 DEF Digit, SpeedDigit
  <2> QED
    BY <1>1, <2>1, <2>2, <2>3, <2>4
<1> QED
  BY <1>3, <1>4

\* m withheld digits and the w suffix bytes after them, passed on after s.
Flushed(z, s, m, w) ==
  /\ Continues(z, s) /\ m \in 1..DigitCap /\ w \in 0..3
  /\ Len(s) + m + w <= Len(z)
  /\ \A j \in Len(s) + 1 .. Len(s) + m : z[j] = Digit
  /\ \A j \in 1..w : z[Len(s) + m + j] = Suffix[j]

\* A token ends where they end.
EndsFlush(s, m, w, i, n, k) == i + n + k - 1 = Len(s) + m + w

\* Such a token has exactly these suffix bytes.
LEMMA FlushedEnd ==
  ASSUME NEW s, NEW z, NEW m, NEW w, Flushed(z, s, m, w),
         NEW i \in 1..Len(z), NEW n \in 1..DigitCap, NEW k \in 0..4,
         Token(z, i, n, k), EndsFlush(s, m, w, i, n, k)
  PROVE  k = w
<1> USE DigitCapAssumption DEF EndsFlush
<1>1. Len(s) \in Nat /\ Len(z) \in Nat /\ m \in 1..DigitCap /\ w \in 0..3
  BY DEF Continues, Flushed
<1>2. CASE k < w
  <2> DEFINE j == w - k
  <2>1. j \in 1..w /\ j \in 1..4 /\ i + n - 1 = Len(s) + m + j /\ i + n - 1 \in i .. i + n - 1
    BY <1>1, <1>2
  <2> HIDE DEF j
  <2>2. z[i + n - 1] = Suffix[j] /\ z[i + n - 1] = Digit
    BY <2>1 DEF Flushed, Token
  <2> QED
    BY <2>1, <2>2, SuffixBytes
<1>3. CASE k > w
  <2> DEFINE j == k - w
  <2>1. j \in 1..k /\ j \in 1..4 /\ i + n - 1 + j = Len(s) + m
        /\ Len(s) + m \in Len(s) + 1 .. Len(s) + m
    BY <1>1, <1>3
  <2> HIDE DEF j
  <2>2. z[i + n - 1 + j] = Suffix[j] /\ z[Len(s) + m] = Digit
    BY <2>1 DEF Flushed, Token
  <2> QED
    BY <2>1, <2>2, SuffixBytes
<1> QED
  BY <1>1, <1>2, <1>3

\* None that is complete ends within them.
LEMMA FlushedWhole ==
  ASSUME NEW s, NEW z, NEW m, NEW w, Flushed(z, s, m, w), NoToken(s),
         NEW i \in 1..Len(z), NEW n \in 1..DigitCap, Token(z, i, n, 4)
  PROVE  i + n + 3 > Len(s) + m + w
<1> USE DigitCapAssumption
<1>1. Len(s) \in Nat /\ Len(z) \in Nat /\ m \in 1..DigitCap /\ w \in 0..3
  BY DEF Continues, Flushed
<1>2. ASSUME i + n + 3 <= Len(s) + m + w
      PROVE  FALSE
  <2> DEFINE p == i + n + 3
  <2>0. 4 \in 1..4 /\ z[i + n - 1 + 4] = Suffix[4]
    BY DEF Token
  <2>1. p \in Nat /\ z[p] = Suffix[4] /\ p <= Len(s) + m + w
    <3>1. i + n - 1 + 4 = p /\ p \in Nat
      BY <1>1
    <3> QED
      BY <1>2, <2>0, <3>1
  <2> HIDE DEF p
  <2>2. CASE p <= Len(s)
    <3>1. 4 \in 0..4 /\ i + n + 4 - 1 <= Len(s) /\ Continues(z, s)
      BY <1>1, <2>2 DEF p, Flushed
    <3>2. i \in 1..Len(s) /\ Token(s, i, n, 4)
      BY <3>1, OldToken
    <3> QED
      BY <3>2 DEF NoToken
  <2>3. CASE p \in Len(s) + 1 .. Len(s) + m
    BY <2>1, <2>3, SuffixBytes DEF Flushed
  <2>4. CASE p > Len(s) + m
    <3> DEFINE j == p - Len(s) - m
    <3>1. j \in 1..w /\ p = Len(s) + m + j
      BY <1>1, <2>1, <2>4
    <3>0. j \in 1..3
      BY <1>1, <3>1
    <3> HIDE DEF j
    <3>2. Suffix[j] = Suffix[4]
      BY <2>1, <3>1 DEF Flushed
    <3> QED
      BY <3>0, <3>2, SuffixBytes
  <2> QED
    BY <1>1, <2>1, <2>2, <2>3, <2>4
<1> QED
  BY <1>1, <1>2

\* The withheld bytes are flushed and the digit after them is withheld.
LEMMA FlushedAtDigit ==
  ASSUME NEW s, NEW z, NEW m, NEW w, Flushed(z, s, m, w), NoToken(s), w # 0,
         Len(z) = Len(s) + m + w
  PROVE  NoToken(z) /\ NoOpenToken(z, "Digits")
<1> USE DigitCapAssumption
<1>1. Len(s) \in Nat /\ Len(z) \in Nat /\ m \in 1..DigitCap /\ w \in 0..3
  BY DEF Continues, Flushed
<1>2. ASSUME NEW i \in 1..Len(z), NEW n \in 1..DigitCap
      PROVE  ~Token(z, i, n, 4)
  <2>1. Token(z, i, n, 4) => i + n + 3 > Len(z)
    BY <1>2, FlushedWhole
  <2>2. Token(z, i, n, 4) => i + n + 3 <= Len(z)
    BY <1>1 DEF Token
  <2> QED
    BY <1>1, <2>1, <2>2
<1>3. ASSUME NEW i \in 1..Len(z), NEW n \in 1..DigitCap, NEW k \in 0..3,
             Token(z, i, n, k), i + n + k - 1 = Len(z)
      PROVE  k # 0
  <2>1. k \in 0..4 /\ EndsFlush(s, m, w, i, n, k)
    BY <1>1, <1>3 DEF EndsFlush
  <2>2. k = w
    BY <1>3, <2>1, FlushedEnd
  <2> QED
    BY <1>1, <2>2
<1> QED
  BY <1>1, <1>2, <1>3 DEF NoToken, NoOpenToken

\* A token that ends with the byte after them has the next suffix byte there.
LEMMA FlushedNext ==
  ASSUME NEW s, NEW z, NEW m, NEW w, Flushed(z, s, m, w), Len(z) = Len(s) + m + w + 1,
         NEW i \in 1..Len(z), NEW n \in 1..DigitCap, NEW k \in 1..4,
         Token(z, i, n, k), i + n + k - 1 = Len(z)
  PROVE  z[Len(z)] = Suffix[w + 1]
<1> USE DigitCapAssumption
<1>1. Len(s) \in Nat /\ Len(z) \in Nat /\ m \in 1..DigitCap /\ w \in 0..3
  BY DEF Continues, Flushed
<1> DEFINE h == k - 1
<1>2. h \in 0..4 /\ EndsFlush(s, m, w, i, n, h)
  BY <1>1 DEF EndsFlush
<1>3. Token(z, i, n, h)
  BY <1>1, TokenShortens
<1> HIDE DEF h
<1>4. h = w
  BY <1>2, <1>3, FlushedEnd
<1>5. k \in 1..k /\ i + n - 1 + k = Len(z) /\ k = w + 1
  BY <1>1, <1>4 DEF h
<1> QED
  BY <1>5 DEF Token

\* The withheld bytes are flushed with the byte c that is not the next of " MHz".
LEMMA FlushedAtByte ==
  ASSUME NEW s, NEW z, NEW m, NEW w, Flushed(z, s, m, w), NoToken(s),
         Len(z) = Len(s) + m + w + 1, z[Len(z)] # Digit, z[Len(z)] # Suffix[w + 1]
  PROVE  NoToken(z) /\ NoOpenToken(z, "Normal")
<1> USE DigitCapAssumption
<1>1. Len(s) \in Nat /\ Len(z) \in Nat /\ m \in 1..DigitCap /\ w \in 0..3
  BY DEF Continues, Flushed
<1>2. ASSUME NEW i \in 1..Len(z), NEW n \in 1..DigitCap, NEW k \in 0..4, Token(z, i, n, k)
      PROVE  i + n + k - 1 # Len(z)
  <2> SUFFICES ASSUME i + n + k - 1 = Len(z) PROVE FALSE
    OBVIOUS
  <2>1. k # 0
    <3>1. k = 0 => Len(z) \in i .. i + n - 1
      BY <1>1
    <3> QED
      BY <1>2, <3>1 DEF Token
  <2>2. k \in 1..4
    BY <2>1
  <2>3. z[Len(z)] = Suffix[w + 1]
    BY <1>2, <2>2, FlushedNext
  <2> QED
    BY <2>3
<1>3. NoToken(z)
  <2> SUFFICES ASSUME NEW i \in 1..Len(z), NEW n \in 1..DigitCap, Token(z, i, n, 4)
               PROVE  FALSE
    BY DEF NoToken
  <2>0. 4 \in 0..4 /\ i + n + 4 - 1 # Len(z)
    BY <1>1, <1>2
  <2>1. i + n + 3 # Len(z)
    BY <1>1, <2>0
  <2>2. i + n + 3 > Len(s) + m + w
    BY FlushedWhole
  <2>3. i + n + 3 <= Len(z)
    BY <1>1 DEF Token
  <2> QED
    BY <1>1, <2>1, <2>2, <2>3
<1>4. NoOpenToken(z, "Normal")
  <2> SUFFICES ASSUME NEW i \in 1..Len(z), NEW n \in 1..DigitCap, NEW k \in 0..3,
                      Token(z, i, n, k)
               PROVE  i + n + k - 1 # Len(z)
    BY <1>1 DEF NoOpenToken
  <2>1. k \in 0..4
    OBVIOUS
  <2> QED
    BY <1>2, <2>1
<1> QED
  BY <1>3, <1>4

LEMMA SpeedType ==
  ASSUME NEW n \in Nat
  PROVE  /\ Speed(n) \in Seq(Received) /\ Len(Speed(n)) = n
         /\ \A i \in 1..n : Speed(n)[i] = SpeedDigit
<1>1. SpeedDigit \in Received
  BY DEF Received
<1>2. Speed(n) \in [1..n -> Received]
  BY <1>1 DEF Speed
<1>3. Speed(n) \in Seq(Received)
  BY <1>2, SeqDef
<1> QED
  BY <1>3 DEF Speed

LEMMA BytesReceived ==
  ASSUME NEW s \in Seq(Bytes)
  PROVE  s \in Seq(Received)
BY DEF Received

LEMMA UndoType ==
  ASSUME NEW s \in Seq(Received)
  PROVE  Undo(s) \in Seq(Bytes) /\ Len(Undo(s)) = Len(s)
<1>1. Digit \in Bytes /\ DOMAIN s = 1..Len(s) /\ Len(s) \in Nat
  BY DEF Bytes
<1>2. \A i \in 1..Len(s) : s[i] \in Received
  OBVIOUS
<1>3. Undo(s) \in [1..Len(s) -> Bytes]
  BY <1>1, <1>2 DEF Undo, Received
<1> QED
  BY <1>1, <1>3, SeqDef

LEMMA UndoPlain ==
  ASSUME NEW s \in Seq(Bytes)
  PROVE  Undo(s) = s
<1>1. \A b \in Bytes : b # SpeedDigit
  <2>1. Digit # SpeedDigit /\ Other # SpeedDigit
    BY DEF Digit, Other, SpeedDigit
  <2>2. DOMAIN Suffix = 1..4
    BY DEF Suffix
  <2> QED
    BY <2>1, <2>2, SuffixBytes DEF Bytes, Range
<1>2. \A i \in 1..Len(s) : s[i] \in Bytes
  OBVIOUS
<1>3. DOMAIN s = 1..Len(s)
  OBVIOUS
<1>4. Undo(s) = [i \in 1..Len(s) |-> s[i]]
  BY <1>1, <1>2, <1>3 DEF Undo
<1> QED
  BY <1>3, <1>4

LEMMA UndoSpeed ==
  ASSUME NEW n \in Nat
  PROVE  Undo(Speed(n)) = Digits(n)
<1>1. DOMAIN Speed(n) = 1..n /\ \A i \in 1..n : Speed(n)[i] = SpeedDigit
  BY DEF Speed
<1> QED
  BY <1>1 DEF Undo, Digits

LEMMA UndoConcat ==
  ASSUME NEW s \in Seq(Received), NEW e \in Seq(Received)
  PROVE  Undo(s \o e) = Undo(s) \o Undo(e)
<1> DEFINE z == s \o e
           u == Undo(s)
           v == Undo(e)
<1>1. /\ z \in Seq(Received) /\ Len(z) = Len(s) + Len(e)
      /\ \A i \in 1..Len(z) : z[i] = IF i <= Len(s) THEN s[i] ELSE e[i - Len(s)]
  BY ConcatProperties
<1>2. u \in Seq(Bytes) /\ v \in Seq(Bytes) /\ Len(u) = Len(s) /\ Len(v) = Len(e)
  BY UndoType
<1>3. /\ u \o v \in Seq(Bytes) /\ Len(u \o v) = Len(s) + Len(e)
      /\ \A i \in 1 .. Len(s) + Len(e) : (u \o v)[i] = IF i <= Len(s) THEN u[i] ELSE v[i - Len(s)]
  <2> HIDE DEF u, v
  <2>1. /\ u \o v \in Seq(Bytes) /\ Len(u \o v) = Len(u) + Len(v)
        /\ \A i \in 1 .. Len(u) + Len(v) : (u \o v)[i] = IF i <= Len(u) THEN u[i] ELSE v[i - Len(u)]
    BY <1>2, ConcatProperties
  <2> QED
    BY <1>2, <2>1
<1>4. Undo(z) \in Seq(Bytes) /\ Len(Undo(z)) = Len(s) + Len(e)
  BY <1>1, UndoType
<1>5. \A i \in 1 .. Len(s) + Len(e) : Undo(z)[i] = (u \o v)[i]
  <2> SUFFICES ASSUME NEW i \in 1 .. Len(s) + Len(e) PROVE Undo(z)[i] = (u \o v)[i]
    OBVIOUS
  <2>0. Len(s) \in Nat /\ Len(e) \in Nat
    OBVIOUS
  <2>1. Undo(z)[i] = IF z[i] = SpeedDigit THEN Digit ELSE z[i]
    BY <1>1 DEF Undo
  <2>2. i <= Len(s) => u[i] = IF s[i] = SpeedDigit THEN Digit ELSE s[i]
    BY <2>0 DEF Undo
  <2>3. i > Len(s) => v[i - Len(s)] = IF e[i - Len(s)] = SpeedDigit THEN Digit ELSE e[i - Len(s)]
    <3>1. i > Len(s) => i - Len(s) \in DOMAIN e
      BY <2>0
    <3> QED
      BY <3>1 DEF Undo
  <2> HIDE DEF u, v, z
  <2> QED
    BY <1>1, <1>3, <2>0, <2>1, <2>2, <2>3
<1> HIDE DEF u, v, z
<1>6. Undo(z) = u \o v
  BY <1>3, <1>4, <1>5, SeqEqual
<1> QED
  BY <1>6 DEF u, v, z

LEMMA DigitsGrow ==
  /\ Digits(0) = <<>> /\ Digits(1) = <<Digit>>
  /\ \A n \in Nat : Append(Digits(n), Digit) = Digits(n + 1)
<1>1. Digits(0) = <<>>
  BY DigitsType, EmptySeq
<1>2. Digits(1) = <<Digit>>
  <2>0. 1 \in Nat /\ 1 \in 1..1
    OBVIOUS
  <2>1. Digits(1) \in Seq(Bytes) /\ Len(Digits(1)) = 1 /\ Digits(1)[1] = Digit
    BY <2>0, DigitsType
  <2>2. <<Digit>> \in Seq(Bytes) /\ Len(<<Digit>>) = 1 /\ <<Digit>>[1] = Digit
    BY DEF Bytes
  <2> QED
    BY <2>1, <2>2, SeqEqual
<1>3. ASSUME NEW n \in Nat PROVE Append(Digits(n), Digit) = Digits(n + 1)
  <2>1. Digits(n) \in Seq(Bytes) /\ Len(Digits(n)) = n /\ \A i \in 1..n : Digits(n)[i] = Digit
    BY DigitsType
  <2>2. /\ Digits(n + 1) \in Seq(Bytes) /\ Len(Digits(n + 1)) = n + 1
        /\ \A i \in 1 .. n + 1 : Digits(n + 1)[i] = Digit
    BY DigitsType
  <2>3. Digit \in Bytes
    BY DEF Bytes
  <2>4. /\ Append(Digits(n), Digit) \in Seq(Bytes) /\ Len(Append(Digits(n), Digit)) = n + 1
        /\ \A i \in 1 .. n + 1 : Append(Digits(n), Digit)[i] = Digit
    <3> HIDE DEF Digits
    <3>1. /\ Append(Digits(n), Digit) \in Seq(Bytes) /\ Len(Append(Digits(n), Digit)) = n + 1
          /\ \A i \in 1..n : Append(Digits(n), Digit)[i] = Digits(n)[i]
          /\ Append(Digits(n), Digit)[n + 1] = Digit
      BY <2>1, <2>3, AppendProperties
    <3> QED
      BY <2>1, <3>1
  <2> QED
    BY <2>2, <2>4, SeqEqual
<1> QED
  BY <1>1, <1>2, <1>3

LEMMA AppendAfter ==
  ASSUME NEW a \in Seq(Bytes), NEW b \in Seq(Bytes), NEW c \in Bytes
  PROVE  Append(a \o b, c) = a \o Append(b, c)
<1>1. a \o b \in Seq(Bytes) /\ <<c>> \in Seq(Bytes)
  BY ConcatProperties
<1>2. Append(a \o b, c) = (a \o b) \o <<c>> /\ Append(b, c) = b \o <<c>>
  BY <1>1, AppendIsConcat
<1> QED
  BY <1>1, <1>2, ConcatAssociative

LEMMA StartsParts ==
  ASSUME NEW f \in Starts
  PROVE  f \in Seq(Bytes) /\ Len(f) \in 0..3 /\ \A i \in 1..Len(f) : f[i] = Suffix[i]
<1>1. f \in Seq(Bytes) /\ \A i \in 1..Len(f) : f[i] = Suffix[i]
  BY DEF Starts
<1>2. Len(f) < 4
  BY SuffixType DEF Starts
<1>3. Len(f) \in Nat
  BY <1>1
<1>4. \A n \in Nat : n < 4 => n \in 0..3
  OBVIOUS
<1>5. Len(f) \in 0..3
  BY <1>2, <1>3, <1>4, Zenon
<1> QED
  BY <1>1, <1>5

\* A byte that ends the match is not the next one of " MHz".
LEMMA MismatchByte ==
  ASSUME NEW f \in Starts, NEW c \in Bytes, ~IsPrefix(Append(f, c), Suffix)
  PROVE  c # Suffix[Len(f) + 1]
<1> SUFFICES ASSUME c = Suffix[Len(f) + 1] PROVE FALSE
  OBVIOUS
<1> DEFINE a == Append(f, c)
<1>1. f \in Seq(Bytes) /\ Len(f) \in 0..3 /\ \A i \in 1..Len(f) : f[i] = Suffix[i]
  BY StartsParts
<1>2. /\ a \in Seq(Bytes) /\ Len(a) = Len(f) + 1
      /\ \A i \in 1..Len(f) : a[i] = f[i]
      /\ a[Len(f) + 1] = c
  BY <1>1, AppendProperties
<1> HIDE DEF a
<1>3. Len(a) \in 1..4 /\ \A i \in 1..Len(a) : a[i] = Suffix[i]
  BY <1>1, <1>2
<1>4. SubSeq(a, 1, Len(a)) = [i \in 1..Len(a) |-> a[i]]
  BY <1>2, <1>3
<1>5. SubSeq(Suffix, 1, Len(a)) = [i \in 1..Len(a) |-> Suffix[i]]
  BY <1>3, SuffixType
<1>6. [i \in 1..Len(a) |-> a[i]] = [i \in 1..Len(a) |-> Suffix[i]]
  BY <1>3
<1>7. IsPrefix(a, Suffix)
  BY <1>3, <1>4, <1>5, <1>6, SuffixType DEF IsPrefix
<1> QED
  BY <1>7 DEF a

LEMMA WithheldParts ==
  ASSUME NEW t \in TxStates
  PROVE  /\ t.pend \in 0..DigitCap /\ t.pend \in Nat /\ t.suf \in Starts /\ t.suf \in Seq(Bytes)
         /\ Len(t.suf) \in 0..3
         /\ Digits(t.pend) \in Seq(Bytes) /\ Withheld(t) \in Seq(Bytes)
         /\ t.mode = "Normal" => t.pend = 0 /\ t.suf = <<>> /\ Withheld(t) = <<>>
         /\ t.mode # "Normal" => t.pend \in 1..DigitCap
         /\ t.mode = "Digits" => t.suf = <<>> /\ Withheld(t) = Digits(t.pend)
         /\ t.mode = "Suffix" => Len(t.suf) # 0
         /\ t.mode \in {"Normal", "Digits", "Suffix"}
<1>1. /\ t.pend \in 0..DigitCap /\ t.pend \in Nat /\ t.suf \in Starts /\ t.suf \in Seq(Bytes)
      /\ Len(t.suf) \in 0..3
  <2>1. t.pend \in 0..DigitCap /\ t.suf \in Starts
    BY DEF TxStates
  <2> QED
    BY <2>1, DigitCapAssumption, StartsParts
<1>2. Digits(t.pend) \in Seq(Bytes)
  BY <1>1, DigitsType
<1>3. Withheld(t) \in Seq(Bytes)
  BY <1>1, <1>2, ConcatProperties DEF Withheld
<1>4. t.mode = "Normal" => t.pend = 0 /\ t.suf = <<>> /\ Withheld(t) = <<>>
  BY WithheldEmpty DEF TxStates
<1>5. t.mode # "Normal" => t.pend \in 1..DigitCap
  BY <1>1, DigitCapAssumption DEF TxStates
<1>6. t.mode = "Digits" => t.suf = <<>>
  BY DEF TxStates
<1>7. t.mode = "Digits" => Withheld(t) = Digits(t.pend)
  BY <1>2, <1>6, ConcatEmptySeq DEF Withheld
<1>8. t.mode = "Suffix" => Len(t.suf) # 0
  BY <1>1, EmptySeq DEF TxStates
<1>9. t.mode \in {"Normal", "Digits", "Suffix"}
  BY DEF TxStates
<1> QED
  BY <1>1, <1>2, <1>3, <1>4, <1>5, <1>6, <1>7, <1>8, <1>9

\* What one call of badgeTxEmit does with the byte c: withhold it, pass it on,
\* give up on a run that is too long, rewrite a speed, or give up on a run that
\* is followed by something else, which may begin a new run.
Held(t, c, r) ==
  r.emits = <<>> /\ r.tx.mode # "Normal" /\ Withheld(r.tx) = Append(Withheld(t), c)
Passed(t, c, r) ==
  t.mode = "Normal" /\ c # Digit /\ r.tx = EmptyTx /\ r.emits = <<c>>
TooLong(t, c, r) ==
  /\ t.mode = "Digits" /\ c = Digit /\ t.pend = DigitCap
  /\ r.tx = EmptyTx /\ r.emits = Digits(DigitCap + 1)
Rewritten(t, c, r) ==
  /\ t.mode # "Normal" /\ Append(t.suf, c) = Suffix
  /\ r.tx = EmptyTx /\ r.emits = Speed(t.pend) \o Suffix
BrokenByByte(t, c, r) ==
  /\ t.mode # "Normal" /\ c # Digit /\ c # Suffix[Len(t.suf) + 1]
  /\ r.tx = EmptyTx /\ r.emits = Digits(t.pend) \o t.suf \o <<c>>
BrokenByDigit(t, c, r) ==
  /\ t.mode = "Suffix" /\ c = Digit
  /\ r.tx.mode = "Digits" /\ r.tx.pend = 1 /\ r.tx.suf = <<>>
  /\ r.emits = Digits(t.pend) \o t.suf

LEMMA YieldParts == \A t, e : Yield(t, e).tx = t /\ Yield(t, e).emits = e
BY DEF Yield

LEMMA FilterCases ==
  ASSUME NEW t \in TxStates, NEW c \in Bytes
  PROVE  LET r == BadgeTxEmit(t, c) IN
         \/ Held(t, c, r) \/ Passed(t, c, r) \/ TooLong(t, c, r)
         \/ Rewritten(t, c, r) \/ BrokenByByte(t, c, r) \/ BrokenByDigit(t, c, r)
<1> DEFINE r == BadgeTxEmit(t, c)
<1> USE DigitCapAssumption
<1>0. /\ c = Digit => /\ InNormal(c).tx.mode = "Digits" /\ InNormal(c).tx.pend = 1
                      /\ InNormal(c).tx.suf = <<>> /\ InNormal(c).emits = <<>>
      /\ c # Digit => InNormal(c).tx = EmptyTx /\ InNormal(c).emits = <<c>>
  <2>1. CASE c = Digit
    <3> DEFINE d == [EmptyTx EXCEPT !.mode = "Digits", !.pend = 1]
    <3>1. d.mode = "Digits" /\ d.pend = 1 /\ d.suf = <<>>
      BY DEF EmptyTx
    <3>2. InNormal(c) = Yield(d, <<>>)
      BY <2>1 DEF InNormal
    <3> HIDE DEF d
    <3>3. InNormal(c).tx = d /\ InNormal(c).emits = <<>>
      BY <3>2, YieldParts, Zenon
    <3> QED
      BY <2>1, <3>1, <3>3
  <2>2. CASE c # Digit
    <3>1. InNormal(c) = Yield(EmptyTx, <<c>>)
      BY <2>2 DEF InNormal
    <3> QED
      BY <2>2, <3>1, YieldParts, Zenon
  <2> QED
    BY <2>1, <2>2
<1>1. CASE t.mode = "Normal" /\ c = Digit
  <2>1. r.emits = <<>> /\ r.tx.mode = "Digits" /\ r.tx.pend = 1 /\ r.tx.suf = <<>>
    BY <1>0, <1>1 DEF BadgeTxEmit
  <2>2. Withheld(r.tx) = <<Digit>>
    <3>1. Withheld(r.tx) = <<Digit>> \o <<>>
      BY <2>1, DigitsGrow DEF Withheld
    <3>2. <<Digit>> \in Seq({Digit})
      OBVIOUS
    <3> QED
      BY <3>1, <3>2, ConcatEmptySeq
  <2>3. Append(Withheld(t), c) = <<Digit>>
    <3>1. Withheld(t) = <<>>
      BY <1>1, WithheldParts
    <3> QED
      BY <1>1, <3>1
  <2> QED
    BY <2>1, <2>2, <2>3 DEF Held
<1>2. CASE t.mode = "Normal" /\ c # Digit
  BY <1>0, <1>2 DEF BadgeTxEmit, Passed
<1>3. CASE t.mode = "Digits" /\ c = Digit
  <2>1. r = InDigits(t)
    BY <1>3 DEF BadgeTxEmit
  <2>2. t.suf = <<>> /\ Withheld(t) = Digits(t.pend) /\ t.pend \in 1..DigitCap
    BY <1>3, WithheldParts
  <2>3. CASE t.pend < DigitCap
    <3>1. r.emits = <<>> /\ r.tx = [t EXCEPT !.pend = @ + 1]
      BY <2>1, <2>3 DEF InDigits, Yield
    <3>2. r.tx.mode = "Digits" /\ r.tx.suf = <<>> /\ r.tx.pend = t.pend + 1
      BY <1>3, <2>2, <3>1 DEF TxStates
    <3>3. Withheld(r.tx) = Digits(t.pend + 1)
      <4>1. Digits(t.pend + 1) \in Seq(Bytes)
        BY <2>2, DigitsType
      <4> QED
        BY <3>2, <4>1, ConcatEmptySeq DEF Withheld
    <3>4. Append(Withheld(t), c) = Digits(t.pend + 1)
      <4>1. t.pend \in Nat
        BY <2>2
      <4>2. Append(Digits(t.pend), Digit) = Digits(t.pend + 1)
        BY <4>1, DigitsGrow
      <4> QED
        BY <1>3, <2>2, <4>2
    <3> QED
      BY <3>1, <3>2, <3>3, <3>4 DEF Held
  <2>4. CASE ~(t.pend < DigitCap)
    <3>1. t.pend = DigitCap
      BY <2>2, <2>4
    <3>2. r.tx = EmptyTx /\ r.emits = Append(Digits(t.pend), Digit)
      BY <2>1, <2>4 DEF InDigits, Yield
    <3> QED
      BY <1>3, <3>1, <3>2, DigitsGrow DEF TooLong
  <2> QED
    BY <2>3, <2>4
<1>4. CASE t.mode # "Normal" /\ ~(t.mode = "Digits" /\ c = Digit)
  <2>1. r = InSuffix(t, c)
    BY <1>4 DEF BadgeTxEmit
  <2>2. CASE Append(t.suf, c) = Suffix
    <3>1. InSuffix(t, c) = Yield(EmptyTx, Speed(t.pend) \o Suffix)
      BY <2>2 DEF InSuffix
    <3> QED
      <4> DEFINE e == Speed(t.pend) \o Suffix
      <4>1. r = Yield(EmptyTx, e)
        BY <2>1, <3>1
      <4> HIDE DEF e, r
      <4>2. r.tx = EmptyTx /\ r.emits = e
        BY <4>1, YieldParts, Zenon
      <4>3. Rewritten(t, c, r)
        BY <1>4, <2>2, <4>2, Zenon DEF Rewritten, e
      <4> QED
        BY <4>3 DEF r
  <2>3. CASE Append(t.suf, c) # Suffix /\ IsPrefix(Append(t.suf, c), Suffix)
    <3>1. r.emits = <<>> /\ r.tx = [t EXCEPT !.mode = "Suffix", !.suf = Append(t.suf, c)]
      BY <2>1, <2>3 DEF InSuffix, Yield
    <3>2. r.tx.mode = "Suffix" /\ r.tx.suf = Append(t.suf, c) /\ r.tx.pend = t.pend
      BY <3>1 DEF TxStates
    <3>3. Withheld(r.tx) = Append(Withheld(t), c)
      <4>1. Digits(t.pend) \in Seq(Bytes) /\ t.suf \in Seq(Bytes)
        BY WithheldParts
      <4>2. Append(Digits(t.pend) \o t.suf, c) = Digits(t.pend) \o Append(t.suf, c)
        BY <4>1, AppendAfter
      <4> QED
        BY <3>2, <4>2 DEF Withheld
    <3> QED
      BY <3>1, <3>2, <3>3 DEF Held
  <2>4. CASE Append(t.suf, c) # Suffix /\ ~IsPrefix(Append(t.suf, c), Suffix)
    <3>1. r.tx = InNormal(c).tx /\ r.emits = Digits(t.pend) \o t.suf \o InNormal(c).emits
      <4>1. InSuffix(t, c) = Yield(InNormal(c).tx, Digits(t.pend) \o t.suf \o InNormal(c).emits)
        BY <2>4 DEF InSuffix
      <4> QED
        <5> DEFINE n == InNormal(c)
                   e == Digits(t.pend) \o t.suf \o n.emits
        <5>1. r = Yield(n.tx, e)
          BY <2>1, <4>1
        <5> HIDE DEF e, r
        <5>2. r.tx = n.tx /\ r.emits = e
          BY <5>1, YieldParts, Zenon
        <5> QED
          BY <5>2 DEF e
    <3>2. c # Suffix[Len(t.suf) + 1]
      BY <2>4, WithheldParts, MismatchByte
    <3>3. CASE c # Digit
      BY <1>0, <1>4, <3>1, <3>2, <3>3 DEF BrokenByByte
    <3>4. CASE c = Digit
      <4>1. t.mode = "Suffix"
        BY <1>4, <3>4, WithheldParts
      <4>2. Digits(t.pend) \o t.suf \o <<>> = Digits(t.pend) \o t.suf
        BY WithheldParts, ConcatEmptySeq DEF Withheld
      <4> QED
        BY <1>0, <3>1, <3>4, <4>1, <4>2 DEF BrokenByDigit
    <3> QED
      BY <3>3, <3>4
  <2> QED
    BY <2>2, <2>3, <2>4
<1> QED
  BY <1>1, <1>2, <1>3, <1>4, WithheldParts

\* No byte is lost, added or moved: what is emitted, with the speed read back,
\* and what is then withheld is what was withheld before and the byte.
LEMMA FilterConserves ==
  ASSUME NEW t \in TxStates, NEW c \in Bytes
  PROVE  LET r == BadgeTxEmit(t, c) IN
         r.emits \in Seq(Received) /\ Undo(r.emits) \o Withheld(r.tx) = Append(Withheld(t), c)
<1> DEFINE r == BadgeTxEmit(t, c)
           d == Digits(t.pend)
           f == t.suf
           goal == /\ r.emits \in Seq(Received)
                   /\ Undo(r.emits) \o Withheld(r.tx) = Append(Withheld(t), c)
<1> SUFFICES goal
  OBVIOUS
<1>0. /\ d \in Seq(Bytes) /\ f \in Seq(Bytes) /\ d \o f \in Seq(Bytes) /\ Withheld(t) = d \o f
      /\ <<c>> \in Seq(Bytes) /\ Withheld(t) \in Seq(Bytes) /\ t.pend \in Nat
  <2>1. <<c>> \in Seq(Bytes)
    OBVIOUS
  <2>2. Withheld(t) = d \o f
    BY DEF Withheld
  <2> QED
    BY <2>1, <2>2, WithheldParts, Zenon
<1>1. r.tx \in TxStates /\ Withheld(r.tx) \in Seq(Bytes)
  BY FilterType, WithheldParts
<1>2. r.tx = EmptyTx => Withheld(r.tx) = <<>>
  BY <1>1, WithheldParts DEF EmptyTx
<1>3. Append(Withheld(t), c) = Withheld(t) \o <<c>> /\ Append(Withheld(t), c) \in Seq(Bytes)
  BY <1>0, AppendIsConcat, AppendProperties
<1> HIDE DEF r, d, f
\* A flush of plain bytes e from which the filter starts anew.
<1>4. ASSUME NEW e, r.emits = e, e \in Seq(Bytes), r.tx = EmptyTx, e = Append(Withheld(t), c)
      PROVE  goal
  <2>1. r.emits \in Seq(Received) /\ Undo(r.emits) = e
    BY <1>4, BytesReceived, UndoPlain
  <2>2. e \o <<>> = e
    BY <1>4, ConcatEmptySeq
  <2> QED
    BY <1>2, <1>4, <2>1, <2>2
<1>5. CASE Held(t, c, r)
  <2>1. r.emits = <<>> /\ Withheld(r.tx) = Append(Withheld(t), c)
    BY <1>5 DEF Held
  <2>2. <<>> \in Seq(Bytes) /\ <<>> \in Seq(Received)
    OBVIOUS
  <2>3. Undo(<<>>) = <<>>
    BY <2>2, UndoPlain
  <2>4. <<>> \o Withheld(r.tx) = Withheld(r.tx)
    BY <1>1, ConcatEmptySeq
  <2> QED
    BY <2>1, <2>2, <2>3, <2>4, Zenon
<1>6. CASE Passed(t, c, r)
  <2>1. t.mode = "Normal" /\ r.tx = EmptyTx /\ r.emits = <<c>>
    BY <1>6 DEF Passed
  <2>2. Withheld(t) = <<>>
    BY <2>1, WithheldParts
  <2>3. <<c>> = Append(Withheld(t), c)
    BY <2>2
  <2> QED
    BY <1>0, <1>4, <2>1, <2>3, Zenon
<1>7. CASE TooLong(t, c, r)
  <2>1. /\ t.mode = "Digits" /\ c = Digit /\ t.pend = DigitCap /\ r.tx = EmptyTx
        /\ r.emits = Digits(DigitCap + 1)
    BY <1>7 DEF TooLong
  <2>2. Withheld(t) = Digits(t.pend)
    BY <2>1, WithheldParts
  <2>3. Digits(DigitCap + 1) = Append(Withheld(t), c)
    BY <1>0, <2>1, <2>2, DigitsGrow
  <2> QED
    BY <1>3, <1>4, <2>1, <2>3, Zenon
<1>8. CASE Rewritten(t, c, r)
  <2>1. Append(t.suf, c) = Suffix /\ r.tx = EmptyTx /\ r.emits = Speed(t.pend) \o Suffix
    BY <1>8 DEF Rewritten
  <2>2. Speed(t.pend) \in Seq(Received) /\ Suffix \in Seq(Received) /\ Suffix \in Seq(Bytes)
    BY <1>0, SpeedType, SuffixType, BytesReceived
  <2>3. r.emits \in Seq(Received)
    BY <2>1, <2>2, ConcatProperties
  <2>4. Undo(r.emits) = d \o Suffix
    <3>1. Undo(r.emits) = Undo(Speed(t.pend)) \o Undo(Suffix)
      BY <2>1, <2>2, UndoConcat, Zenon
    <3> QED
      BY <1>0, <2>2, <3>1, UndoSpeed, UndoPlain, Zenon DEF d
  <2>5. Append(Withheld(t), c) = d \o Suffix
    <3>1. Append(d \o f, c) = d \o Append(f, c)
      BY <1>0, AppendAfter, Zenon
    <3>2. Append(f, c) = Suffix
      BY <2>1 DEF f
    <3> QED
      BY <1>0, <3>1, <3>2, Zenon
  <2>6. (d \o Suffix) \o <<>> = d \o Suffix
    BY <1>3, <2>5, ConcatEmptySeq
  <2> QED
    BY <1>2, <2>1, <2>3, <2>4, <2>5, <2>6, Zenon
<1>9. CASE BrokenByByte(t, c, r)
  <2>1. r.tx = EmptyTx /\ r.emits = Digits(t.pend) \o t.suf \o <<c>>
    BY <1>9 DEF BrokenByByte
  <2>2. r.emits = Append(Withheld(t), c)
    BY <1>0, <1>3, <2>1 DEF d, f
  <2> QED
    BY <1>3, <1>4, <2>1, <2>2, Zenon
<1>10. CASE BrokenByDigit(t, c, r)
  <2>1. /\ c = Digit /\ r.tx.pend = 1 /\ r.tx.suf = <<>>
        /\ r.emits = Digits(t.pend) \o t.suf
    BY <1>10 DEF BrokenByDigit
  <2>2. r.emits = Withheld(t) /\ r.emits \in Seq(Received) /\ Undo(r.emits) = Withheld(t)
    BY <1>0, <2>1, BytesReceived, UndoPlain DEF d, f
  <2>3. Withheld(r.tx) = <<c>>
    <3>1. Withheld(r.tx) = <<c>> \o <<>>
      BY <2>1, DigitsGrow DEF Withheld
    <3> QED
      BY <1>0, <3>1, ConcatEmptySeq
  <2> QED
    BY <1>3, <2>2, <2>3, Zenon
<1>11. \/ Held(t, c, r) \/ Passed(t, c, r) \/ TooLong(t, c, r)
       \/ Rewritten(t, c, r) \/ BrokenByByte(t, c, r) \/ BrokenByDigit(t, c, r)
  BY FilterCases DEF r
<1> HIDE DEF goal
<1> QED
  BY <1>5, <1>6, <1>7, <1>8, <1>9, <1>10, <1>11

LEMMA ConcatContinues ==
  ASSUME NEW s \in Seq(Received), NEW e \in Seq(Received)
  PROVE  /\ Continues(s \o e, s) /\ Len(s) \in Nat /\ Len(e) \in Nat
         /\ Len(s \o e) = Len(s) + Len(e)
         /\ \A j \in Len(s) + 1 .. Len(s) + Len(e) : (s \o e)[j] = e[j - Len(s)]
         /\ \A j \in 1..Len(e) : (s \o e)[Len(s) + j] = e[j]
<1> DEFINE z == s \o e
<1>0. Len(s) \in Nat /\ Len(e) \in Nat
  OBVIOUS
<1>1. /\ z \in Seq(Received) /\ Len(z) = Len(s) + Len(e)
      /\ \A i \in 1 .. Len(s) + Len(e) : z[i] = IF i <= Len(s) THEN s[i] ELSE e[i - Len(s)]
  BY ConcatProperties
<1> HIDE DEF z
<1>2. Continues(z, s)
  BY <1>0, <1>1 DEF Continues
<1>3. \A j \in Len(s) + 1 .. Len(s) + Len(e) : z[j] = e[j - Len(s)]
  BY <1>0, <1>1
<1>4. \A j \in 1..Len(e) : z[Len(s) + j] = e[j]
  <2> SUFFICES ASSUME NEW j \in 1..Len(e) PROVE z[Len(s) + j] = e[j]
    OBVIOUS
  <2>1. Len(s) + j \in 1 .. Len(s) + Len(e) /\ ~(Len(s) + j <= Len(s)) /\ (Len(s) + j) - Len(s) = j
    BY <1>0
  <2> QED
    BY <1>1, <2>1
<1> QED
  BY <1>0, <1>1, <1>2, <1>3, <1>4 DEF z

\* Withheld digits and suffix bytes, then a tail, handed to the backend.
LEMMA FlushIsFlushed ==
  ASSUME NEW s \in Seq(Received), NEW m \in 1..DigitCap, NEW f \in Starts,
         NEW x \in Seq(Bytes)
  PROVE  LET z == s \o (Digits(m) \o f \o x) IN
         /\ Flushed(z, s, m, Len(f)) /\ Len(z) = Len(s) + m + Len(f) + Len(x)
         /\ x # <<>> => z[Len(s) + m + Len(f) + 1] = x[1]
<1> DEFINE d == Digits(m)
           e == d \o f \o x
           z == s \o e
<1> USE DigitCapAssumption
<1>0. m \in Nat /\ f \in Seq(Bytes) /\ Len(f) \in 0..3 /\ \A i \in 1..Len(f) : f[i] = Suffix[i]
  BY StartsParts
<1>1. d \in Seq(Bytes) /\ Len(d) = m /\ \A i \in 1..m : d[i] = Digit
  BY <1>0, DigitsType
<1> HIDE DEF d
<1> DEFINE y == d \o f
<1>2. /\ y \in Seq(Bytes) /\ Len(y) = m + Len(f)
      /\ \A i \in 1 .. m + Len(f) : y[i] = IF i <= m THEN d[i] ELSE f[i - m]
  <2>1. /\ y \in Seq(Bytes) /\ Len(y) = Len(d) + Len(f)
        /\ \A i \in 1 .. Len(d) + Len(f) : y[i] = IF i <= Len(d) THEN d[i] ELSE f[i - Len(d)]
    BY <1>0, <1>1, ConcatProperties
  <2> QED
    BY <1>1, <2>1
<1>3. /\ e \in Seq(Bytes) /\ Len(e) = m + Len(f) + Len(x)
      /\ \A i \in 1 .. m + Len(f) + Len(x) : e[i] = IF i <= m + Len(f) THEN y[i] ELSE x[i - (m + Len(f))]
  <2> HIDE DEF y
  <2>1. /\ y \o x \in Seq(Bytes) /\ Len(y \o x) = Len(y) + Len(x)
        /\ \A i \in 1 .. Len(y) + Len(x) : (y \o x)[i] = IF i <= Len(y) THEN y[i] ELSE x[i - Len(y)]
    BY <1>2, ConcatProperties
  <2>2. e = y \o x
    BY DEF y
  <2> HIDE DEF e
  <2> QED
    BY <1>2, <2>1, <2>2
<1>4. e \in Seq(Received)
  BY <1>3, BytesReceived
<1> HIDE DEF e, y
<1>5. /\ Continues(z, s) /\ Len(s) \in Nat /\ Len(z) = Len(s) + Len(e)
      /\ \A j \in Len(s) + 1 .. Len(s) + Len(e) : z[j] = e[j - Len(s)]
      /\ \A j \in 1..Len(e) : z[Len(s) + j] = e[j]
  BY <1>4, ConcatContinues
<1> HIDE DEF z
<1>6. Len(x) \in Nat /\ Len(f) \in Nat
  BY <1>0
<1>7. \A j \in Len(s) + 1 .. Len(s) + m : z[j] = Digit
  <2> SUFFICES ASSUME NEW j \in Len(s) + 1 .. Len(s) + m PROVE z[j] = Digit
    OBVIOUS
  <2> DEFINE k == j - Len(s)
  <2>1. k \in 1..m /\ k \in 1 .. m + Len(f) /\ k \in 1 .. m + Len(f) + Len(x)
        /\ j \in Len(s) + 1 .. Len(s) + Len(e)
    BY <1>0, <1>3, <1>5, <1>6
  <2>2. z[j] = e[k] /\ e[k] = y[k] /\ y[k] = d[k] /\ d[k] = Digit
    BY <1>0, <1>1, <1>2, <1>3, <1>5, <1>6, <2>1
  <2> QED
    BY <2>2
<1>8. \A j \in 1..Len(f) : z[Len(s) + m + j] = Suffix[j]
  <2> SUFFICES ASSUME NEW j \in 1..Len(f) PROVE z[Len(s) + m + j] = Suffix[j]
    OBVIOUS
  <2> DEFINE k == m + j
  <2>1. /\ k \in 1..Len(e) /\ k \in 1 .. m + Len(f) /\ k \in 1 .. m + Len(f) + Len(x)
        /\ ~(k <= m) /\ k - m = j /\ k <= m + Len(f) /\ Len(s) + m + j = Len(s) + k
    BY <1>0, <1>3, <1>5, <1>6
  <2> HIDE DEF k
  <2>2. z[Len(s) + k] = e[k] /\ e[k] = y[k] /\ y[k] = f[j] /\ f[j] = Suffix[j]
    BY <1>0, <1>2, <1>3, <1>5, <2>1
  <2> QED
    BY <2>1, <2>2
<1>9. x # <<>> => z[Len(s) + m + Len(f) + 1] = x[1]
  <2> SUFFICES ASSUME x # <<>> PROVE z[Len(s) + m + Len(f) + 1] = x[1]
    OBVIOUS
  <2>0. Len(x) \in Nat \ {0}
    BY EmptySeq
  <2> DEFINE k == m + Len(f) + 1
  <2>1. /\ k \in 1..Len(e) /\ k \in 1 .. m + Len(f) + Len(x)
        /\ ~(k <= m + Len(f)) /\ k - (m + Len(f)) = 1 /\ Len(s) + m + Len(f) + 1 = Len(s) + k
    BY <1>0, <1>3, <1>5, <1>6, <2>0
  <2> HIDE DEF k
  <2>2. z[Len(s) + k] = e[k] /\ e[k] = x[1]
    BY <1>0, <1>3, <1>5, <2>1
  <2> QED
    BY <2>1, <2>2
<1>10. Flushed(z, s, m, Len(f)) /\ Len(z) = Len(s) + m + Len(f) + Len(x)
  BY <1>0, <1>3, <1>5, <1>6, <1>7, <1>8 DEF Flushed
<1> QED
  BY <1>9, <1>10 DEF z, e, d

\* Whatever the backend has received, one call completes no raw token and opens
\* none that the next call could complete.
LEMMA FilterRewrites ==
  ASSUME NEW t \in TxStates, NEW c \in Bytes, NEW s \in Seq(Received),
         NoToken(s), NoOpenToken(s, t.mode)
  PROVE  LET r == BadgeTxEmit(t, c) IN
         NoToken(s \o r.emits) /\ NoOpenToken(s \o r.emits, r.tx.mode)
<1> DEFINE r == BadgeTxEmit(t, c)
           z == s \o r.emits
           goal == NoToken(z) /\ NoOpenToken(z, r.tx.mode)
<1> SUFFICES goal
  OBVIOUS
<1> USE DigitCapAssumption
<1>1. r.emits \in Seq(Received)
  BY FilterConserves
<1>2. \/ Held(t, c, r) \/ Passed(t, c, r) \/ TooLong(t, c, r)
      \/ Rewritten(t, c, r) \/ BrokenByByte(t, c, r) \/ BrokenByDigit(t, c, r)
  BY FilterCases
<1> HIDE DEF r
<1>3. r.tx = EmptyTx => r.tx.mode = "Normal"
  BY DEF EmptyTx
<1>4. CASE Held(t, c, r)
  <2>1. r.emits = <<>> /\ r.tx.mode # "Normal"
    BY <1>4 DEF Held
  <2>2. s \o <<>> = s
    BY ConcatEmptySeq
  <2>3. z = s
    BY <2>1, <2>2
  <2> HIDE DEF z
  <2>4. NoOpenToken(s, r.tx.mode)
    BY <2>1 DEF NoOpenToken
  <2> QED
    BY <2>3, <2>4
<1>5. CASE Passed(t, c, r)
  <2>1. t.mode = "Normal" /\ c # Digit /\ r.tx.mode = "Normal" /\ r.emits = <<c>>
    BY <1>3, <1>5 DEF Passed
  <2>2. Len(<<c>>) = 1 /\ <<c>>[1] = c /\ 1 \in 1..1
    OBVIOUS
  <2>3. /\ Continues(z, s) /\ Len(z) = Len(s) + Len(r.emits)
        /\ \A j \in 1..Len(r.emits) : z[Len(s) + j] = r.emits[j]
    BY <1>1, ConcatContinues
  <2> HIDE DEF z
  <2>4. Len(z) = Len(s) + 1 /\ z[Len(z)] = c
    BY <2>1, <2>2, <2>3
  <2>5. NoToken(z) /\ NoOpenToken(z, "Normal")
    BY <2>1, <2>3, <2>4, BytePassed
  <2> QED
    BY <2>1, <2>5
<1>6. CASE TooLong(t, c, r)
  <2>1. r.tx.mode = "Normal" /\ r.emits = Digits(DigitCap + 1)
    BY <1>3, <1>6 DEF TooLong
  <2>2. Len(r.emits) = DigitCap + 1 /\ \A i \in 1 .. DigitCap + 1 : r.emits[i] = Digit
    BY <2>1, DigitsType
  <2>3. /\ Continues(z, s) /\ Len(s) \in Nat /\ Len(z) = Len(s) + Len(r.emits)
        /\ \A j \in Len(s) + 1 .. Len(s) + Len(r.emits) : z[j] = r.emits[j - Len(s)]
    BY <1>1, ConcatContinues
  <2> HIDE DEF z
  <2>4. Len(z) = Len(s) + DigitCap + 1
    BY <2>2, <2>3
  <2>5. \A j \in Len(s) + 1 .. Len(z) : z[j] = Digit
    <3> SUFFICES ASSUME NEW j \in Len(s) + 1 .. Len(z) PROVE z[j] = Digit
      OBVIOUS
    <3>1. j \in Len(s) + 1 .. Len(s) + Len(r.emits) /\ j - Len(s) \in 1 .. DigitCap + 1
      BY <2>2, <2>3
    <3> QED
      BY <2>2, <2>3, <3>1
  <2>6. NoToken(z) /\ NoOpenToken(z, "Normal")
    BY <2>3, <2>4, <2>5, LongRunPassed
  <2> QED
    BY <2>1, <2>6
<1>7. CASE Rewritten(t, c, r)
  <2> DEFINE m == t.pend
             v == Speed(m)
  <2>1. r.tx.mode = "Normal" /\ r.emits = v \o Suffix /\ m \in 1..DigitCap
    BY <1>3, <1>7, WithheldParts DEF Rewritten
  <2>2. /\ v \in Seq(Received) /\ Len(v) = m /\ \A i \in 1..m : v[i] = SpeedDigit
        /\ Suffix \in Seq(Received) /\ Len(Suffix) = 4
    <3>1. m \in Nat
      BY <2>1
    <3> QED
      BY <3>1, SpeedType, SuffixType, BytesReceived
  <2> HIDE DEF v
  <2>3. /\ Len(v \o Suffix) = m + 4
        /\ \A j \in 1..m : (v \o Suffix)[j] = SpeedDigit
        /\ \A j \in 1..4 : (v \o Suffix)[m + j] = Suffix[j]
    <3>1. /\ Continues(v \o Suffix, v) /\ Len(v \o Suffix) = Len(v) + Len(Suffix)
          /\ \A j \in 1..Len(Suffix) : (v \o Suffix)[Len(v) + j] = Suffix[j]
      BY <2>2, ConcatContinues
    <3> QED
      BY <2>2, <3>1 DEF Continues
  <2>4. /\ Continues(z, s) /\ Len(s) \in Nat /\ Len(z) = Len(s) + Len(r.emits)
        /\ \A j \in Len(s) + 1 .. Len(s) + Len(r.emits) : z[j] = r.emits[j - Len(s)]
        /\ \A j \in 1..Len(r.emits) : z[Len(s) + j] = r.emits[j]
    BY <1>1, ConcatContinues
  <2> DEFINE e == v \o Suffix
  <2>5. r.emits = e /\ Len(e) = m + 4
    BY <2>1, <2>3
  <2>6. (\A j \in 1..m : e[j] = SpeedDigit) /\ (\A j \in 1..4 : e[m + j] = Suffix[j])
    BY <2>3
  <2> HIDE DEF z, m, e
  <2>7. Len(z) = Len(s) + m + 4
    BY <2>1, <2>4, <2>5
  <2>8. \A j \in Len(s) + 1 .. Len(s) + m : z[j] = SpeedDigit
    <3> SUFFICES ASSUME NEW j \in Len(s) + 1 .. Len(s) + m PROVE z[j] = SpeedDigit
      OBVIOUS
    <3>1. j \in Len(s) + 1 .. Len(s) + Len(r.emits) /\ j - Len(s) \in 1..m
      BY <2>1, <2>4, <2>5
    <3> QED
      BY <2>4, <2>5, <2>6, <3>1
  <2>9. \A j \in 1..4 : z[Len(s) + m + j] = Suffix[j]
    <3> SUFFICES ASSUME NEW j \in 1..4 PROVE z[Len(s) + m + j] = Suffix[j]
      OBVIOUS
    <3>1. m + j \in 1..Len(r.emits) /\ Len(s) + m + j = Len(s) + (m + j)
      BY <2>1, <2>4, <2>5
    <3>2. z[Len(s) + (m + j)] = e[m + j]
      BY <2>4, <2>5, <3>1
    <3> QED
      BY <2>6, <3>1, <3>2
  <2>10. NoToken(z) /\ NoOpenToken(z, "Normal")
    BY <2>1, <2>4, <2>7, <2>8, <2>9, SpeedPassed
  <2> QED
    BY <2>1, <2>10
<1>8. CASE BrokenByByte(t, c, r)
  <2> DEFINE m == t.pend
             f == t.suf
             x == <<c>>
  <2>1. r.tx.mode = "Normal" /\ r.emits = Digits(m) \o f \o x /\ c # Digit /\ c # Suffix[Len(f) + 1]
    BY <1>3, <1>8 DEF BrokenByByte
  <2>2. m \in 1..DigitCap /\ f \in Starts /\ Len(f) \in 0..3
    BY <1>8, WithheldParts DEF BrokenByByte
  <2>3. x \in Seq(Bytes) /\ Len(x) = 1 /\ x # <<>> /\ x[1] = c
    OBVIOUS
  <2> HIDE DEF m, f, x
  <2>4. /\ Flushed(z, s, m, Len(f)) /\ Len(z) = Len(s) + m + Len(f) + Len(x)
        /\ z[Len(s) + m + Len(f) + 1] = x[1]
    <3> DEFINE y == s \o (Digits(m) \o f \o x)
    <3>1. /\ Flushed(y, s, m, Len(f)) /\ Len(y) = Len(s) + m + Len(f) + Len(x)
          /\ y[Len(s) + m + Len(f) + 1] = x[1]
      BY <2>2, <2>3, FlushIsFlushed
    <3>2. z = y
      BY <2>1
    <3> HIDE DEF y, z
    <3> QED
      BY <3>1, <3>2
  <2> HIDE DEF z
  <2>5. Len(z) = Len(s) + m + Len(f) + 1 /\ z[Len(z)] = c
    BY <2>3, <2>4
  <2>6. NoToken(z) /\ NoOpenToken(z, "Normal")
    BY <2>1, <2>4, <2>5, FlushedAtByte
  <2> QED
    BY <2>1, <2>6
<1>9. CASE BrokenByDigit(t, c, r)
  <2> DEFINE m == t.pend
             f == t.suf
             x == <<>>
  <2>1. r.tx.mode = "Digits" /\ r.emits = Digits(m) \o f /\ t.mode = "Suffix"
    BY <1>9 DEF BrokenByDigit
  <2>2. m \in 1..DigitCap /\ f \in Starts /\ Len(f) \in 0..3 /\ Len(f) # 0
    BY <2>1, WithheldParts
  <2>3. x \in Seq(Bytes) /\ Len(x) = 0
    OBVIOUS
  <2>4. Digits(m) \o f \in Seq(Bytes)
    BY WithheldParts DEF Withheld
  <2>5. r.emits = Digits(m) \o f \o x
    BY <2>1, <2>4, ConcatEmptySeq
  <2> HIDE DEF m, f, x
  <2>6. Flushed(z, s, m, Len(f)) /\ Len(z) = Len(s) + m + Len(f) + Len(x)
    <3> DEFINE y == s \o (Digits(m) \o f \o x)
    <3>1. /\ Flushed(y, s, m, Len(f)) /\ Len(y) = Len(s) + m + Len(f) + Len(x)
          /\ x # <<>> => y[Len(s) + m + Len(f) + 1] = x[1]
      BY <2>2, <2>3, FlushIsFlushed, ZenonT(40)
    <3>2. z = y
      BY <2>5
    <3> HIDE DEF y, z
    <3> QED
      BY <3>1, <3>2
  <2> HIDE DEF z
  <2>7. Len(z) = Len(s) + m + Len(f)
    BY <2>2, <2>3, <2>6 DEF Flushed, Continues
  <2>8. NoToken(z) /\ NoOpenToken(z, "Digits")
    BY <2>2, <2>6, <2>7, FlushedAtDigit
  <2> QED
    BY <2>1, <2>8
<1> HIDE DEF goal
<1> QED
  BY <1>2, <1>4, <1>5, <1>6, <1>7, <1>8, <1>9

\* The filter of the stream is the filter of the port.
LEMMA SameFilter ==
  /\ Stream!EmptyTx = EmptyTx /\ Stream!Bytes = Bytes
  /\ \A t, c : Stream!BadgeTxEmit(t, c) = BadgeTxEmit(t, c)
  /\ \A t : Stream!Withheld(t) = Withheld(t)
  /\ \A s : Stream!Undo(s) = Undo(s)
  /\ \A n : Stream!Digits(n) = Digits(n)
  /\ Stream!Suffix = Suffix /\ Stream!Digit = Digit /\ Stream!Other = Other
BY DEF Stream!EmptyTx, EmptyTx, Stream!Bytes, Bytes, Stream!BadgeTxEmit, BadgeTxEmit,
  Stream!InNormal, InNormal, Stream!InDigits, InDigits, Stream!InSuffix, InSuffix,
  Stream!Yield, Yield, Stream!Digits, Digits, Stream!Speed, Speed, Stream!Suffix, Suffix,
  Stream!Digit, Digit, Stream!Other, Other, Stream!SpeedDigit, SpeedDigit,
  Stream!Withheld, Withheld, Stream!Undo, Undo, Stream!IsPrefix, IsPrefix,
  Stream!Range, Range

\* What makes the stream faithful inductive: no raw token, and none open while
\* the filter withholds nothing.
StreamInv ==
  /\ tx \in TxStates /\ written \in Seq(Bytes) /\ out \in Seq(Received)
  /\ Undo(out) \o Withheld(tx) = written
  /\ NoToken(out) /\ NoOpenToken(out, tx.mode)

\* At a line end nothing is withheld.
LEMMA LineEndIsEmpty ==
  ASSUME StreamInv, written # <<>>, Last(written) = Other
  PROVE  tx = EmptyTx
<1> DEFINE u == Undo(out)
           d == Digits(tx.pend)
           f == tx.suf
           w == d \o f
<1>1. /\ u \in Seq(Bytes) /\ d \in Seq(Bytes) /\ f \in Seq(Bytes) /\ w \in Seq(Bytes)
      /\ tx.pend \in Nat /\ Len(d) = tx.pend /\ f \in Starts
      /\ written = u \o w
  BY UndoType, WithheldParts, DigitsType DEF StreamInv, Withheld
<1>2. Len(f) \in 0..3 /\ \A i \in 1..Len(f) : f[i] = Suffix[i]
  BY <1>1, StartsParts
<1>3. Other # Digit /\ \A k \in 1..4 : Suffix[k] # Other
  BY DEF Other, Digit, Suffix
<1>4. \A i \in 1..Len(d) : d[i] = Digit
  BY <1>1, DigitsType
<1> HIDE DEF u, d, f, w
<1>5. /\ Len(w) = Len(d) + Len(f)
      /\ \A i \in 1 .. Len(d) + Len(f) : w[i] = IF i <= Len(d) THEN d[i] ELSE f[i - Len(d)]
  BY <1>1, ConcatProperties DEF w
<1>6. /\ Len(written) = Len(u) + Len(w)
      /\ \A i \in 1 .. Len(u) + Len(w) : written[i] = IF i <= Len(u) THEN u[i] ELSE w[i - Len(u)]
  BY <1>1, ConcatProperties
<1>7. Len(u) \in Nat /\ Len(d) \in Nat /\ Len(f) \in Nat /\ Len(w) \in Nat
  BY <1>1
<1>8. Len(w) = 0
  <2> SUFFICES ASSUME Len(w) # 0 PROVE FALSE
    OBVIOUS
  <2>1. written[Len(written)] = w[Len(w)]
    <3> DEFINE k == Len(written)
    <3>1. k \in 1 .. Len(u) + Len(w) /\ ~(k <= Len(u)) /\ k - Len(u) = Len(w)
      BY <1>6, <1>7
    <3> QED
      BY <1>6, <3>1
  <2>2. w[Len(w)] # Other
    <3>1. CASE Len(f) = 0
      BY <1>3, <1>4, <1>5, <1>7, <3>1
    <3>2. CASE Len(f) # 0
      <4>1. /\ Len(w) \in 1 .. Len(d) + Len(f) /\ ~(Len(w) <= Len(d))
            /\ Len(w) - Len(d) = Len(f) /\ Len(f) \in 1..Len(f) /\ Len(f) \in 1..4
        BY <1>2, <1>5, <1>7, <3>2
      <4>2. w[Len(w)] = f[Len(f)] /\ f[Len(f)] = Suffix[Len(f)]
        BY <1>2, <1>5, <4>1
      <4> QED
        BY <1>3, <4>1, <4>2
    <3> QED
      BY <3>1, <3>2
  <2> QED
    BY <2>1, <2>2 DEF Last
<1>9. tx.pend = 0 /\ f = <<>>
  <2>1. Len(d) = 0 /\ Len(f) = 0
    BY <1>5, <1>7, <1>8
  <2>2. f # <<>> => Len(f) \in Nat \ {0}
    BY <1>1, EmptySeq, Zenon
  <2> QED
    BY <1>1, <2>1, <2>2
<1> QED
  BY <1>9 DEF StreamInv, TxStates, EmptyTx, f

LEMMA StreamInvInitially == Stream!Init => StreamInv
<1> SUFFICES ASSUME Stream!Init PROVE StreamInv
  OBVIOUS
<1>1. tx = EmptyTx /\ written = <<>> /\ out = <<>>
  BY SameFilter DEF Stream!Init
<1>2. <<>> \in Seq(Bytes) /\ <<>> \in Seq(Received) /\ Len(<<>>) = 0
  OBVIOUS
<1>3. tx \in TxStates /\ Withheld(tx) = <<>>
  BY <1>1, EmptyTxType, WithheldParts DEF EmptyTx
<1>4. Undo(<<>>) = <<>> /\ <<>> \o <<>> = <<>>
  BY <1>2, UndoPlain, ConcatEmptySeq
<1>5. Undo(out) \o Withheld(tx) = written
  BY <1>1, <1>3, <1>4, Zenon
<1>6. NoToken(out) /\ NoOpenToken(out, tx.mode)
  BY <1>1, <1>2 DEF NoToken, NoOpenToken
<1> QED
  BY <1>1, <1>2, <1>3, <1>5, <1>6 DEF StreamInv

LEMMA PutKeepsStream ==
  ASSUME StreamInv, NEW c \in Bytes, Stream!Put(c)
  PROVE  StreamInv'
<1> DEFINE r == BadgeTxEmit(tx, c)
           e == r.emits
           u == Undo(out)
           v == Undo(e)
           w == Withheld(tx)
           x == Withheld(r.tx)
<1>1. tx' = r.tx /\ out' = out \o e /\ written' = Append(written, c)
  BY SameFilter DEF Stream!Put
<1>2. tx \in TxStates /\ written \in Seq(Bytes) /\ out \in Seq(Received) /\ u \o w = written
  BY DEF StreamInv
<1>3. r.tx \in TxStates
  BY <1>2, FilterType
<1>4. e \in Seq(Received) /\ v \o x = Append(w, c)
  BY <1>2, FilterConserves
<1>5. NoToken(out \o e) /\ NoOpenToken(out \o e, r.tx.mode)
  BY <1>2, FilterRewrites DEF StreamInv
<1>6. u \in Seq(Bytes) /\ v \in Seq(Bytes) /\ w \in Seq(Bytes) /\ x \in Seq(Bytes)
  BY <1>2, <1>3, <1>4, UndoType, WithheldParts
<1>7. Undo(out \o e) = u \o v
  BY <1>2, <1>4, UndoConcat
<1>8. out \o e \in Seq(Received) /\ Append(written, c) \in Seq(Bytes)
  BY <1>2, <1>4, ConcatProperties, AppendProperties
<1>9. Undo(out') \o Withheld(tx') = written'
  <2>1. Undo(out') = u \o v /\ Withheld(tx') = x
    BY <1>1, <1>7
  <2> HIDE DEF u, v, w, x
  <2>2. (u \o v) \o x = u \o (v \o x)
    BY <1>6, ConcatAssociative
  <2>3. u \o Append(w, c) = Append(u \o w, c)
    BY <1>6, AppendAfter
  <2> QED
    BY <1>1, <1>2, <1>4, <2>1, <2>2, <2>3, Zenon
<1> HIDE DEF r, e
<1>10. NoToken(out') /\ NoOpenToken(out', tx'.mode)
  BY <1>1, <1>5
<1> QED
  BY <1>1, <1>3, <1>8, <1>9, <1>10 DEF StreamInv

\* A raw "<n> MHz" in the output is a token of four suffix bytes.
LEMMA NoTokenIsRewritten ==
  ASSUME out \in Seq(Received), NoToken(out)
  PROVE  Stream!SpeedRewritten
<1> USE DigitCapAssumption
<1> SUFFICES ASSUME NEW i \in 1..Len(out), NEW n \in 1..DigitCap,
                    i + n + Len(Suffix) - 1 <= Len(out),
                    SubSeq(out, i, i + n + Len(Suffix) - 1) = Digits(n) \o Suffix,
                    i > 1 => out[i - 1] # Digit
             PROVE  FALSE
  BY SameFilter DEF Stream!SpeedRewritten
<1>0. Len(out) \in Nat /\ Len(Suffix) = 4 /\ Suffix \in Seq(Bytes) /\ n \in Nat
  BY SuffixType
<1> DEFINE d == Digits(n)
           q == SubSeq(out, i, i + n + 3)
<1>1. d \in Seq(Bytes) /\ Len(d) = n /\ \A j \in 1..n : d[j] = Digit
  BY <1>0, DigitsType
<1>2. i + n + 3 <= Len(out) /\ q = d \o Suffix
  <2>1. i + n + Len(Suffix) - 1 = i + n + 3
    BY <1>0
  <2> QED
    BY <2>1
<1>3. \A j \in 1 .. n + 4 : q[j] = out[i + j - 1]
  BY <1>0, <1>2
<1> HIDE DEF d, q
<1>4. \A j \in 1 .. n + 4 : q[j] = IF j <= n THEN d[j] ELSE Suffix[j - n]
  <2> DEFINE y == d \o Suffix
  <2>1. d \in Seq(Received) /\ Suffix \in Seq(Received)
    BY <1>0, <1>1, BytesReceived
  <2>2. /\ Continues(y, d)
        /\ \A j \in Len(d) + 1 .. Len(d) + Len(Suffix) : y[j] = Suffix[j - Len(d)]
    BY <2>1, ConcatContinues
  <2>3. q = y
    BY <1>2
  <2> HIDE DEF y
  <2>4. \A j \in 1..n : q[j] = d[j]
    BY <1>1, <2>2, <2>3 DEF Continues
  <2>5. \A j \in n + 1 .. n + 4 : q[j] = Suffix[j - n]
    BY <1>0, <1>1, <2>2, <2>3
  <2> QED
    BY <1>0, <2>4, <2>5
<1>5. \A j \in i .. i + n - 1 : out[j] = Digit
  <2> SUFFICES ASSUME NEW j \in i .. i + n - 1 PROVE out[j] = Digit
    OBVIOUS
  <2> DEFINE k == j - i + 1
  <2>1. k \in 1..n /\ k \in 1 .. n + 4 /\ i + k - 1 = j /\ k <= n
    BY <1>0
  <2> HIDE DEF k
  <2>2. q[k] = d[k] /\ d[k] = Digit
    BY <1>1, <1>4, <2>1
  <2>3. q[k] = out[j]
    BY <1>3, <2>1
  <2> QED
    BY <2>2, <2>3
<1>6. \A j \in 1..4 : out[i + n - 1 + j] = Suffix[j]
  <2> SUFFICES ASSUME NEW j \in 1..4 PROVE out[i + n - 1 + j] = Suffix[j]
    OBVIOUS
  <2> DEFINE k == n + j
  <2>1. k \in 1 .. n + 4 /\ i + k - 1 = i + n - 1 + j /\ ~(k <= n) /\ k - n = j
    BY <1>0
  <2> HIDE DEF k
  <2> QED
    BY <1>3, <1>4, <2>1
<1>7. Token(out, i, n, 4)
  BY <1>0, <1>2, <1>5, <1>6 DEF Token
<1> QED
  BY <1>7 DEF NoToken

(* The transmit filter is transparent but for the speed: what the backend    *)
(* received and what is withheld is what the guest wrote, byte for byte, and *)
(* no "<n> MHz" of at most DigitCap digits reaches the backend unrewritten,  *)
(* for every cap and every byte stream, when the machine is saved only at    *)
(* line ends: serialize leaves the withheld bytes out.                       *)
THEOREM FilterIsFaithful ==
  ASSUME SavePoints = "lineEnd"
  PROVE  Stream!Spec => []FilterFaithful
<1>1. Stream!Init => StreamInv
  BY StreamInvInitially
<1>2. StreamInv /\ [Stream!Next]_(Stream!vars) => StreamInv'
  <2> SUFFICES ASSUME StreamInv, [Stream!Next]_(Stream!vars) PROVE StreamInv'
    OBVIOUS
  <2>1. ASSUME NEW c \in Stream!Bytes, Stream!Put(c) PROVE StreamInv'
    BY <2>1, SameFilter, PutKeepsStream
  <2>2. CASE Stream!SaveAndResume
    <3>1. tx = EmptyTx
      BY <2>2, SameFilter, LineEndIsEmpty DEF Stream!SaveAndResume, Stream!Last, Last
    <3>2. tx' = tx /\ written' = written /\ out' = out
      BY <2>2, <3>1, SameFilter DEF Stream!SaveAndResume
    <3> QED
      BY <3>2 DEF StreamInv
  <2>3. CASE UNCHANGED Stream!vars
    BY <2>3 DEF StreamInv, Stream!vars
  <2> QED
    BY <2>1, <2>2, <2>3 DEF Stream!Next
<1>3. StreamInv => FilterFaithful
  <2> SUFFICES ASSUME StreamInv PROVE FilterFaithful
    OBVIOUS
  <2>1. Stream!TxConserved
    BY SameFilter, Zenon DEF StreamInv, Stream!TxConserved
  <2>2. Stream!SpeedRewritten
    BY NoTokenIsRewritten DEF StreamInv
  <2> QED
    BY <2>1, <2>2 DEF FilterFaithful, Stream!FilterFaithful
<1> QED
  BY <1>1, <1>2, <1>3, PTL DEF Stream!Spec
=============================================================================
