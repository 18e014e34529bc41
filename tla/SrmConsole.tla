----------------------------- MODULE SrmConsole -----------------------------
(***************************************************************************)
(* The TCP console backend, SRMConsoleDevice, between three threads: the   *)
(* emulator, which calls getChar and putChar; the backend thread, whose    *)
(* event loop runs the slots one at a time and owns the socket; and the    *)
(* caller of start and stop.  The queues are shared under m_mutex: an      *)
(* action is one critical section, or one slot.                            *)
(*                                                                         *)
(* Bytes are numbered per client.  History: sent, how many bytes a client  *)
(* sent; put, the bytes handed to putChar and not discarded by stop; out,  *)
(* the bytes written to a socket.                                          *)
(***************************************************************************)
EXTENDS Naturals, Sequences, SequencesExt

CONSTANTS
  Clients,
  RxSize,      \* m_config.rxBufferSize
  MaxSend,     \* bound: bytes a client sends
  MaxPut,      \* bound: bytes the emulator prints
  MaxStarts,   \* bound: calls of start
  None

VARIABLES
  running,         \* m_running
  stopper,         \* "idle"; "asked": stop waits for doStop
  rx, tx, sock,    \* m_rxQueue, m_txQueue, m_socket
  drain,           \* a txReady is posted to the backend's event loop
  batch,           \* what onDrainTx has taken and not yet written, or None
  peer,            \* each client's connection
  wire,            \* the bytes of the attached client the socket holds
  emu, timed,      \* the emulator thread, and whether its wait times out
  starts, sent, put, out

queues == <<rx, tx, batch, wire>>
caller == <<running, stopper, starts>>
history == <<sent, put, out>>
vars == <<queues, caller, sock, drain, peer, emu, timed, history>>

Init ==
  /\ running = FALSE /\ stopper = "idle" /\ starts = 0
  /\ rx = <<>> /\ tx = <<>> /\ batch = None /\ wire = <<>>
  /\ sock = None /\ drain = FALSE
  /\ peer = [c \in Clients |-> "off"]
  /\ emu = "idle" /\ timed = FALSE
  /\ sent = [c \in Clients |-> 0] /\ put = <<>> /\ out = <<>>

Woken == IF emu = "waiting" THEN "woken" ELSE emu    \* m_rxCondition.wakeAll

\* The backend thread is between two slots.
EventLoop == batch = None

-----------------------------------------------------------------------------
(* start and stop. *)

Start ==
  /\ ~running /\ stopper = "idle" /\ starts < MaxStarts
  /\ running' = TRUE /\ starts' = starts + 1
  /\ UNCHANGED <<queues, stopper, sock, drain, peer, emu, timed, history>>

Stop ==
  /\ running /\ stopper = "idle"
  /\ running' = FALSE /\ stopper' = "asked"
  /\ UNCHANGED <<queues, starts, sock, drain, peer, emu, timed, history>>

\* Mutant: the readers are not woken.
DoStopSilent ==
  /\ stopper = "asked" /\ EventLoop
  /\ stopper' = "idle"
  /\ sock' = None /\ wire' = <<>> /\ rx' = <<>> /\ tx' = <<>>
  /\ peer' = [c \in Clients |-> IF peer[c] = "off" THEN "off" ELSE "gone"]
  /\ put' = out
  /\ UNCHANGED <<emu, running, starts, batch, drain, timed, sent, out>>

DoStop ==
  /\ stopper = "asked" /\ EventLoop
  /\ stopper' = "idle"
  /\ sock' = None /\ wire' = <<>> /\ rx' = <<>> /\ tx' = <<>>
  /\ peer' = [c \in Clients |-> IF peer[c] = "off" THEN "off" ELSE "gone"]
  /\ emu' = Woken
  /\ put' = out
  /\ UNCHANGED <<running, starts, batch, drain, timed, sent, out>>

-----------------------------------------------------------------------------
(* The emulator thread. *)

\* getChar, not blocking, or with input at hand.
GetCharNow ==
  /\ emu = "idle" /\ rx # <<>>
  /\ rx' = Tail(rx)
  /\ UNCHANGED <<tx, batch, wire, caller, sock, drain, peer, emu, timed, history>>

\* getChar(true, ...) without input waits on m_rxCondition.
GetCharWait(t) ==
  /\ emu = "idle" /\ rx = <<>>
  /\ emu' = "waiting" /\ timed' = t
  /\ UNCHANGED <<queues, caller, sock, drain, peer, history>>

\* The reader has m_mutex again: m_running first, then the queue.
Reader ==
  /\ emu = "woken"
  /\ emu' = IF running /\ rx = <<>> THEN "waiting" ELSE "idle"
  /\ rx' = IF running /\ rx # <<>> THEN Tail(rx) ELSE rx
  /\ UNCHANGED <<tx, batch, wire, caller, sock, drain, peer, timed, history>>

TimeOut ==
  /\ emu = "waiting" /\ timed /\ emu' = "idle"
  /\ UNCHANGED <<queues, caller, sock, drain, peer, timed, history>>

\* putChar: enqueue under the lock, then emit txReady.
PutChar ==
  /\ emu = "idle" /\ Len(put) < MaxPut
  /\ tx' = Append(tx, Len(put) + 1) /\ put' = Append(put, Len(put) + 1)
  /\ emu' = "emit"
  /\ UNCHANGED <<rx, batch, wire, caller, sock, drain, peer, timed, sent, out>>

EmitTxReady ==
  /\ emu = "emit" /\ emu' = "idle"
  /\ drain' = TRUE
  /\ UNCHANGED <<queues, caller, sock, peer, timed, history>>

Reset ==
  /\ emu = "idle"
  /\ rx' = <<>>
  /\ UNCHANGED <<tx, batch, wire, caller, sock, drain, peer, emu, timed, history>>

-----------------------------------------------------------------------------
(* The terminals. *)

Connect(c) ==
  /\ running /\ stopper = "idle" /\ peer[c] = "off"
  /\ peer' = [peer EXCEPT ![c] = "pending"]
  /\ UNCHANGED <<queues, caller, sock, drain, emu, timed, history>>

Send(c) ==
  /\ peer[c] = "open" /\ sock = c /\ sent[c] < MaxSend
  /\ sent' = [sent EXCEPT ![c] = @ + 1]
  /\ wire' = Append(wire, <<c, sent[c] + 1>>)
  /\ UNCHANGED <<rx, tx, batch, caller, sock, drain, peer, emu, timed, put, out>>

Close(c) ==
  /\ peer[c] = "open"
  /\ peer' = [peer EXCEPT ![c] = "closed"]
  /\ UNCHANGED <<queues, caller, sock, drain, emu, timed, history>>

-----------------------------------------------------------------------------
(* The slots of the backend thread. *)

\* Mutant: the output queued before the connection is not announced.
OnNewConnectionQuiet(c) ==
  /\ EventLoop /\ peer[c] = "pending"
  /\ IF sock # None
     THEN peer' = [peer EXCEPT ![c] = "gone"] /\ UNCHANGED <<sock, rx, drain>>
     ELSE /\ peer' = [peer EXCEPT ![c] = "open"]
          /\ sock' = c /\ rx' = <<>> /\ UNCHANGED drain
  /\ UNCHANGED <<tx, batch, wire, caller, emu, timed, history>>

\* A second client is rejected.
OnNewConnection(c) ==
  /\ EventLoop /\ peer[c] = "pending"
  /\ IF sock # None
     THEN peer' = [peer EXCEPT ![c] = "gone"] /\ UNCHANGED <<sock, rx, drain>>
     ELSE /\ peer' = [peer EXCEPT ![c] = "open"]
          /\ sock' = c /\ rx' = <<>>
          /\ drain' = (drain \/ tx # <<>>)
  /\ UNCHANGED <<tx, batch, wire, caller, emu, timed, history>>

\* A full queue drops its oldest byte for each new one.
OldestDropped(q) ==
  IF Len(q) > RxSize THEN SubSeq(q, Len(q) - RxSize + 1, Len(q)) ELSE q

OnReadyRead ==
  /\ EventLoop /\ sock # None /\ wire # <<>>
  /\ rx' = OldestDropped(rx \o wire) /\ wire' = <<>>
  /\ emu' = Woken
  /\ UNCHANGED <<tx, batch, caller, sock, drain, peer, timed, history>>

OnDisconnected ==
  /\ EventLoop /\ sock # None /\ peer[sock] = "closed" /\ wire = <<>>
  /\ peer' = [peer EXCEPT ![sock] = "gone"]
  /\ sock' = None /\ rx' = <<>>
  /\ emu' = Woken
  /\ UNCHANGED <<tx, batch, wire, caller, drain, timed, history>>

\* onDrainTx under the lock: without a client the bytes stay for a later drain.
DrainTake ==
  /\ EventLoop /\ drain /\ drain' = FALSE
  /\ IF sock = None \/ tx = <<>>
     THEN UNCHANGED <<tx, batch>>
     ELSE batch' = tx /\ tx' = <<>>
  /\ UNCHANGED <<rx, wire, caller, sock, peer, emu, timed, history>>

\* Mutant: the queue is emptied after the write.
DrainWriteClear ==
  /\ batch # None
  /\ out' = out \o batch /\ batch' = None /\ tx' = <<>>
  /\ UNCHANGED <<rx, wire, caller, sock, drain, peer, emu, timed, sent, put>>

\* onDrainTx after the lock.
DrainWrite ==
  /\ batch # None
  /\ out' = out \o batch /\ batch' = None
  /\ UNCHANGED <<rx, tx, wire, caller, sock, drain, peer, emu, timed, sent, put>>

Backend ==
  \/ \E c \in Clients : OnNewConnection(c)
  \/ OnReadyRead \/ OnDisconnected
  \/ DrainTake \/ DrainWrite \/ DoStop

Next ==
  \/ Start \/ Stop
  \/ GetCharNow \/ (\E t \in BOOLEAN : GetCharWait(t)) \/ Reader \/ TimeOut
  \/ PutChar \/ EmitTxReady \/ Reset
  \/ \E c \in Clients : Connect(c) \/ Send(c) \/ Close(c)
  \/ Backend

\* Each slot of the backend gets its turn, a woken thread runs, a wait times out.
Fairness ==
  /\ \A c \in Clients : WF_vars(OnNewConnection(c))
  /\ WF_vars(OnReadyRead) /\ WF_vars(OnDisconnected)
  /\ WF_vars(DrainTake) /\ WF_vars(DrainWrite) /\ WF_vars(DoStop)
  /\ WF_vars(Reader) /\ WF_vars(TimeOut) /\ WF_vars(EmitTxReady)

Spec == Init /\ [][Next]_vars /\ Fairness

-----------------------------------------------------------------------------

(* Nothing printed is lost or reordered on its way to the socket, although     *)
(* the emulator prints while the backend writes outside the lock: the bytes    *)
(* written, taken and queued are the bytes printed since the last stop.        *)
OutputInOrder ==
  out \o (IF batch = None THEN <<>> ELSE batch) \o tx = put

(* The input queue is a gapless run of what the attached client sent, up to    *)
(* the byte received last: an overflow drops the oldest byte only, and no byte *)
(* of an earlier client is left.                                               *)
InputFromClient ==
  \A i \in DOMAIN rx :
    rx[i] = <<sock, sent[sock] - Len(wire) - (Len(rx) - i)>>

(* The byte streams are intact in both directions, the threads of the          *)
(* emulator and of the backend notwithstanding.                                *)
StreamsIntact == OutputInOrder /\ InputFromClient

(* What was printed before or while a client is attached reaches it: the       *)
(* output never waits for the next putChar.                                    *)
OutputReachesClient ==
  \A c \in Clients : (sock = c /\ tx # <<>>) ~> (tx = <<>> \/ sock # c)

(* stop releases a reader that is waiting, also when a disconnect or a reset   *)
(* has just sent it back to sleep.                                             *)
StopReleasesReader ==
  (emu = "waiting" /\ stopper = "asked") ~> (emu # "waiting")
=============================================================================
