--------------------------- MODULE DeviceIrqChain ---------------------------
(***************************************************************************)
(* The device interrupt path, end to end:                                  *)
(*   terminal -> console backend queue -> UART receive FIFO                *)
(*   UART / floppy interrupt level -> 8259 edge -> PIC output              *)
(*   -> Cchip DRIR<55> -> DIM -> divert of the CPU to its handler          *)
(*   -> interrupt acknowledge -> device service -> EOI -> return.          *)
(*                                                                         *)
(* chipsetLib/TsunamiChipset.h evalDeviceIrqs samples the levels once per  *)
(* step boundary; systemLib/Machine.cpp systemTick calls it after every    *)
(* guest instruction and then decides on the divert.  Every guest action   *)
(* below is one instruction followed by that boundary.  The guest (SRM     *)
(* firmware: initialisation, serial driver, floppy driver) is not in the   *)
(* repository and is modelled from how the code says it drives the chips.  *)
(***************************************************************************)
EXTENDS Pic8259, Uart16550

\* Lines are the two below, and RxBytes is {Key}.
CONSTANTS RxQueue,    \* rxBufferSize, the backend's queue
          MaxKeys,    \* bound: bytes the terminal sends
          MaxPrints,  \* bound: print requests of the guest
          PrintLen,   \* bytes per print request
          MaxFdc      \* bound: floppy completions

Com1Line == 4
FdcLine  == 6
Key      == "k"

VARIABLES m,        \* devices and chipset
          g,        \* processor and guest program
          typed,    \* bytes the terminal has sent
          prints,   \* print requests so far
          fdcs      \* floppy completions so far

vars == <<m, g, typed, prints, fdcs>>

Init ==
  /\ m = [uart |-> ResetUart, pic |-> ResetPic, fdc |-> FALSE, keys |-> 0,
          last |-> FALSE, drir |-> FALSE]
  /\ g = [pc |-> "icw1", stack |-> <<>>, ei |-> FALSE, dim |-> FALSE,
          todo |-> {"ocw1", "ier", "dim", "ei"}, vec |-> NoLevel, toSend |-> 0]
  /\ typed = 0 /\ prints = 0 /\ fdcs = 0

----------------------------------------------------------------------------
(* TsunamiChipset::evalDeviceIrqs *)

\* At most one byte per boundary, and only when the FIFO has room.
PullKey(d) ==
  IF Len(d.uart.rx) < RxDepth /\ d.keys > 0
  THEN [d EXCEPT !.uart = FeedRxByte(@, Key), !.keys = @ - 1] ELSE d

\* setIrqInput for COM1 and the floppy.  (COM2 on IRQ3 is never enabled here.)
SampleLines(d) ==
  [d EXCEPT !.pic = SetIrqInput(SetIrqInput(@, Com1Line, IntPending(d.uart)),
                                FdcLine, d.fdc)]

\* Mutant: the mirror only ever asserts.
MirrorAssertOnly(d) ==
  LET level == OutputAsserted(d.pic) IN
  IF level = d.last THEN d
  ELSE [d EXCEPT !.last = level, !.drir = @ \/ level]

\* DRIR<55> is written only when the output differs from m_lastPicLevel.
MirrorOutput(d) ==
  LET level == OutputAsserted(d.pic) IN
  IF level = d.last THEN d ELSE [d EXCEPT !.last = level, !.drir = level]

\* Op(x), written so that TLC evaluates x once.
Apply(Op(_), x) == CHOOSE y \in {Op(z) : z \in {x}} : TRUE

EvalDeviceIrqs(d) ==
  Apply(MirrorOutput, Apply(SampleLines, Apply(PullKey, d)))

\* acknowledgeDeviceInterrupt, behind a read of the Pchip0 IACK window.
AcknowledgeDeviceInterrupt(d) ==
  EvalDeviceIrqs([d EXCEPT !.pic = Acknowledge(@)])

----------------------------------------------------------------------------
(* Machine::systemTick, device part *)

PalPcs == {"pal", "palrei"}

\* canAcceptInterrupt: not in PAL mode, and the IER bit of the line is set.
CanAccept(c) == c.pc \notin PalPcs /\ c.ei

\* stageInterruptDivert: the interrupted pc is kept for the return.
Divert(c) == [c EXCEPT !.pc = "pal", !.stack = Append(@, c.pc)]

\* The boundary after an instruction that left the devices at d and the
\* processor at c: pendingIrq1 is DRIR<55> gated by DIM, a level.
Boundary(d, c) ==
  \E e \in {EvalDeviceIrqs(d)} :
  /\ m' = e
  /\ g' = IF CanAccept(c) /\ e.drir /\ c.dim THEN Divert(c) ELSE c

----------------------------------------------------------------------------
(* The guest.  Native code runs at pc "main"; the handler's pcs follow the    *)
(* acknowledge.                                                               *)

Master(d, u) == [d EXCEPT !.pic.unit[0] = u]
Goto(pc) == [g EXCEPT !.pc = pc]
Keep == UNCHANGED <<typed, prints, fdcs>>

\* ICW1..ICW4 on the master, then a mask over everything: the polled phase.
InitPic ==
  /\ \/ g.pc = "icw1" /\ Boundary(Master(m, WriteIcw1(m.pic.unit[0])), Goto("icw2"))
     \/ \E t \in {<<"icw2", "icw3">>, <<"icw3", "icw4">>, <<"icw4", "ocw1">>,
                   <<"ocw1", "main">>} :
          /\ g.pc = t[1]
          /\ Boundary(Master(m, WriteData(m.pic.unit[0], Levels, 0)), Goto(t[2]))
  /\ Keep

\* The un-gating writes of the drivers and of the firmware, in any order.
Setup(op) ==
  /\ g.pc = "main" /\ op \in g.todo
  /\ LET c == [g EXCEPT !.todo = @ \ {op}] IN
     \/ op = "ocw1" /\ Boundary(Master(m, WriteData(m.pic.unit[0],
                                      Levels \ {Com1Line, FdcLine}, 0)), c)
     \/ op = "ier" /\ Boundary([m EXCEPT !.uart = WriteIER(@, TRUE, @.etbei)], c)
     \/ op = "dim" /\ Boundary(m, [c EXCEPT !.dim = TRUE])
     \/ op = "ei" /\ Boundary(m, [c EXCEPT !.ei = TRUE])
  /\ Keep

Idle == g.pc = "main" /\ Boundary(m, g) /\ Keep

\* A print request: queue the bytes and enable the transmit interrupt.
StartPrint ==
  /\ g.pc = "main" /\ g.todo = {} /\ g.toSend = 0 /\ prints < MaxPrints
  /\ Boundary([m EXCEPT !.uart = WriteIER(@, TRUE, TRUE)],
              [g EXCEPT !.toSend = PrintLen])
  /\ prints' = prints + 1
  /\ UNCHANGED <<typed, fdcs>>

\* PAL code reads the IACK window, then returns to native mode.
Iack ==
  /\ g.pc = "pal"
  /\ Boundary(AcknowledgeDeviceInterrupt(m),
              [g EXCEPT !.pc = "palrei", !.vec = Vector(m.pic)])
  /\ Keep

PalRei ==
  /\ g.pc = "palrei"
  /\ Boundary(m, Goto(CASE g.vec = Com1Line -> "isr"
                        [] g.vec = FdcLine  -> "fdcisr"
                        [] OTHER            -> "rei"))
  /\ Keep

\* The serial handler: read IIR until it reports no interrupt.
ReadIir ==
  /\ g.pc = "isr"
  /\ Boundary([m EXCEPT !.uart = ReadIIR(@)],
              Goto(CASE IirCause(m.uart) = "RxAvail" -> "rx"
                     [] IirCause(m.uart) = "Thre"    -> "thre"
                     [] OTHER                        -> "mask"))
  /\ Keep

ReadData ==
  /\ g.pc = "rx"
  /\ Boundary([m EXCEPT !.uart = ReadRBR(@)], Goto("isr"))
  /\ Keep

\* The next byte, or the transmit interrupt off when there is none.
Refill ==
  /\ g.pc = "thre"
  /\ IF g.toSend > 0
     THEN Boundary([m EXCEPT !.uart = WriteTHR(@, Other)],
                   [g EXCEPT !.pc = "isr", !.toSend = @ - 1])
     ELSE Boundary([m EXCEPT !.uart = WriteIER(@, TRUE, FALSE)], Goto("isr"))
  /\ Keep

\* The floppy handler reads the result, which drops the interrupt.
ServeFdc ==
  /\ g.pc = "fdcisr"
  /\ Boundary([m EXCEPT !.fdc = FALSE], Goto("mask"))
  /\ Keep

\* Raise IPL, end of interrupt, return.
Mask == g.pc = "mask" /\ Boundary(m, [g EXCEPT !.pc = "eoi", !.ei = FALSE]) /\ Keep

Eoi ==
  /\ g.pc = "eoi"
  /\ Boundary(Master(m, WriteEoi(m.pic.unit[0])), Goto("rei"))
  /\ Keep

Rei ==
  /\ g.pc = "rei"
  /\ Boundary(m, [g EXCEPT !.pc = Last(g.stack), !.stack = Front(@), !.ei = TRUE])
  /\ Keep

----------------------------------------------------------------------------
(* The outside world: the terminal's byte reaches the backend's queue on the   *)
(* console's own thread, where a full queue drops its oldest byte; the floppy  *)
(* completes a command.                                                        *)
TypeKey ==
  /\ typed < MaxKeys /\ typed' = typed + 1
  /\ m' = [m EXCEPT !.keys = IF @ >= RxQueue THEN @ ELSE @ + 1]
  /\ UNCHANGED <<g, prints, fdcs>>

FdcComplete ==
  /\ fdcs < MaxFdc /\ ~m.fdc /\ fdcs' = fdcs + 1
  /\ m' = [m EXCEPT !.fdc = TRUE]
  /\ UNCHANGED <<g, typed, prints>>

Handler ==
  \/ InitPic \/ Iack \/ PalRei \/ ReadIir \/ ReadData \/ Refill \/ ServeFdc
  \/ Mask \/ Eoi \/ Rei

Next ==
  \/ Handler
  \/ \E op \in {"ocw1", "ier", "dim", "ei"} : Setup(op)
  \/ Idle \/ StartPrint
  \/ TypeKey \/ FdcComplete

\* The processor keeps executing and the firmware finishes its setup; the
\* terminal, the floppy and print requests owe nothing.
Fairness ==
  /\ WF_vars(Handler) /\ WF_vars(Idle)
  /\ \A op \in {"ocw1", "ier", "dim", "ei"} : WF_vars(Setup(op))

Spec == Init /\ [][Next]_vars /\ Fairness

----------------------------------------------------------------------------
(* A divert is never wasted: between the boundary that staged it and the IACK  *)
(* read nothing withdraws the request, so the acknowledge returns a vector and *)
(* not the spurious one.                                                       *)
NoSpuriousIack == g.pc = "palrei" => g.vec \in Lines

(* Every byte in the queue is eventually read by the guest, whatever order its *)
(* un-gating writes came in, and although the PIC sees edges only: no edge is  *)
(* missed between two boundaries.                                              *)
KeysAreRead ==
  (m.keys + Len(m.uart.rx) > 0) ~> (m.keys + Len(m.uart.rx) = 0)

(* A print request completes: every transmitted byte re-arms THRE and gets its *)
(* own interrupt or is picked up by the handler's loop.                        *)
PrintsComplete == (g.toSend > 0) ~> (g.toSend = 0)

(* A floppy completion is served although the serial line has priority over it.*)
FdcServed == m.fdc ~> ~m.fdc

(* Every source of the path is served: typed bytes, print requests, floppy.    *)
SourcesServed == KeysAreRead /\ PrintsComplete /\ FdcServed
=============================================================================
