------------------------------ MODULE MCConsole ------------------------------
(* The serial console: the port under any driver, the byte stream of its      *)
(* transmit filter, and the socket backend with its threads.  A behaviour     *)
(* steps one of them, chosen by part.                                         *)
EXTENDS UartPort

CONSTANTS MaxTx, SavePoints,
          Clients, RxSize, MaxSend, MaxPut, MaxStarts, None

VARIABLES part,
          tx, written, out,
          running, stopper, rxQueue, txQueue, sock, drain, batch, peer, wire,
          emu, timed, starts, sent, put, toSocket

Stream == INSTANCE ConsoleStream
Backend == INSTANCE SrmConsole WITH rx <- rxQueue, tx <- txQueue, out <- toSocket

streamVars == <<tx, written, out>>
backendVars == <<running, stopper, rxQueue, txQueue, sock, drain, batch, peer, wire,
                 emu, timed, starts, sent, put, toSocket>>

MCInit ==
  /\ part \in {"port", "stream", "backend"}
  /\ Init /\ Stream!Init /\ Backend!Init

PortStep ==
  part = "port" /\ Next /\ UNCHANGED <<part, streamVars, backendVars>>
StreamStep ==
  part = "stream" /\ Stream!Next /\ UNCHANGED <<part, vars, backendVars>>
BackendStep ==
  part = "backend" /\ Backend!Next /\ UNCHANGED <<part, vars, streamVars>>

MCSpec ==
  /\ MCInit
  /\ [][PortStep \/ StreamStep \/ BackendStep]_<<part, vars, streamVars, backendVars>>
  /\ Backend!Fairness

(* The filter passes on what the guest wrote, but for the speed tokens.       *)
FilterFaithful == Stream!FilterFaithful

(* Neither direction of the socket loses, repeats or reorders a byte, except  *)
(* for the oldest of a full queue and the input of a client that is gone.     *)
StreamsIntact == Backend!StreamsIntact

(* Output never waits for the next putChar while a client is attached.        *)
OutputReachesClient == Backend!OutputReachesClient

(* stop releases a waiting reader.                                            *)
StopReleasesReader == Backend!StopReleasesReader
=============================================================================
