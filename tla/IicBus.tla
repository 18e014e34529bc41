------------------------------- MODULE IicBus -------------------------------
(***************************************************************************)
(* IicPcf8584: the I2C controller, the devices on its bus, and the polled   *)
(* firmware driver (external) of the contract P1 to P5 in the header.  The   *)
(* driver writes in one transaction (address, offset, data, STOP) and reads  *)
(* in two (address and offset, STOP; address, dummy, bytes, NACK, STOP); it  *)
(* looks at S1 before every step, and starts over when PIN stays set.        *)
(*                                                                         *)
(* A snapshot holds the guest and the device images, and nothing of the      *)
(* controller: a resumed machine has a controller fresh from reset.         *)
(***************************************************************************)
EXTENDS Naturals, Sequences

CONSTANTS
  Nodes, Status,    \* the devices on the bus; those that absorb writes
  Size, Values,     \* bytes of an image (256 in the code), and their values
  Requests,         \* [op, node, off, data]; a read asks for Len(data) bytes
  None

NoShift == None

VARIABLES
  phase, cur,       \* m_phase, m_curDev
  first, dummy,     \* m_firstWrite, m_dummyDone
  pin, lrb,         \* S1: PIN (idle) and LRB (no acknowledge)
  shift,            \* S0, the address staged
  off, img,         \* each device's offset and image
  drv, got,         \* the driver's request and step, the bytes it read
  ref, saved,       \* history: what completed writes left; the snapshot
  torn              \* history: resumed with an address or an offset staged

ctl == <<phase, cur, first, dummy, pin, lrb, shift, off>>
vars == <<ctl, img, drv, got, ref, saved, torn>>

Blank == [n \in Nodes |-> [i \in 0..(Size - 1) |-> CHOOSE v \in Values : TRUE]]
Ready == [at |-> "ready", req |-> None]

Init ==
  /\ phase = "Idle" /\ cur = None /\ first = FALSE /\ dummy = FALSE
  /\ pin = TRUE /\ lrb = FALSE /\ shift = NoShift
  /\ off = [n \in Nodes |-> 0] /\ img = Blank
  /\ drv = Ready /\ got = <<>> /\ ref = Blank
  /\ saved = None /\ torn = FALSE

-----------------------------------------------------------------------------
(* The controller's registers. *)

\* STO without STA, and PIN written while idle.
WriteStop ==
  /\ phase' = "Idle" /\ cur' = None /\ pin' = TRUE /\ lrb' = FALSE
  /\ UNCHANGED <<first, dummy, shift, off, img>>

\* S0 while idle, with ES0 set: the address register.
StageAddress(a) ==
  /\ phase = "Idle"
  /\ shift' = a
  /\ UNCHANGED <<phase, cur, first, dummy, pin, lrb, off, img>>

StartTransaction ==
  /\ pin' = FALSE
  /\ IF shift = NoShift \/ shift.node \notin Nodes
     THEN phase' = "AddrNak" /\ cur' = None /\ lrb' = TRUE /\ UNCHANGED <<first, dummy>>
     ELSE /\ cur' = shift.node /\ lrb' = FALSE
          /\ dummy' = FALSE /\ first' = TRUE
          /\ phase' = shift.dir
  /\ UNCHANGED <<shift, off, img>>

Bump(n) == [off EXCEPT ![n] = (@ + 1) % Size]

\* The first byte of a write is the offset; a status device absorbs the rest.
WriteS0(v) ==
  /\ phase = "Write" /\ lrb' = FALSE /\ pin' = FALSE
  /\ IF first
     THEN off' = [off EXCEPT ![cur] = v] /\ first' = FALSE /\ UNCHANGED img
     ELSE /\ UNCHANGED first
          /\ IF cur \in Status
             THEN UNCHANGED <<off, img>>
             ELSE img' = [img EXCEPT ![cur][off[cur]] = v] /\ off' = Bump(cur)
  /\ UNCHANGED <<phase, cur, dummy, shift>>

\* Mutant: the pipelined receiver has no dummy.
ReadS0NoDummy(b) ==
  /\ phase = "Read"
  /\ b = img[cur][off[cur]] /\ off' = Bump(cur) /\ UNCHANGED dummy
  /\ UNCHANGED <<phase, cur, first, pin, lrb, shift, img>>

\* The first read of a stream is the dummy.
ReadS0(b) ==
  /\ phase = "Read"
  /\ IF dummy
     THEN b = img[cur][off[cur]] /\ off' = Bump(cur) /\ UNCHANGED dummy
     ELSE b = None /\ dummy' = TRUE /\ UNCHANGED off
  /\ UNCHANGED <<phase, cur, first, pin, lrb, shift, img>>

\* PIN without ACK in the middle of a read.
WriteNack ==
  /\ lrb' = (phase = "Read")
  /\ pin' = (phase = "Idle" /\ pin)
  /\ UNCHANGED <<phase, cur, first, dummy, shift, off, img>>

-----------------------------------------------------------------------------
(* The driver. *)

Goto(step) == drv' = [drv EXCEPT !.at = step]
Served == ~pin /\ ~lrb
DirOf == IF drv.at \in {"stage", "start"} THEN "Write" ELSE "Read"

Submit(r) ==
  /\ drv.at \in {"ready", "done"}
  /\ drv' = [at |-> "stage", req |-> r] /\ got' = <<>>
  /\ UNCHANGED <<ctl, img, ref, saved, torn>>

\* ES0, then the address.
Stage ==
  /\ drv.at \in {"stage", "restage"}
  /\ Goto(IF drv.at = "stage" THEN "start" ELSE "restart")
  /\ StageAddress([node |-> drv.req.node, dir |-> DirOf])
  /\ UNCHANGED <<got, ref, saved, torn>>

Start ==
  /\ drv.at \in {"start", "restart"}
  /\ Goto(IF drv.at = "start" THEN "offset" ELSE "dummy")
  /\ StartTransaction /\ UNCHANGED <<got, ref, saved, torn>>

NoAnswer ==
  /\ drv.at \in {"offset", "dummy"} /\ ~pin /\ lrb
  /\ Goto("absent") /\ WriteStop /\ UNCHANGED <<got, ref, saved, torn>>

Forget ==
  /\ drv.at = "absent" /\ drv' = Ready
  /\ UNCHANGED <<ctl, img, got, ref, saved, torn>>

SendOffset ==
  /\ drv.at = "offset" /\ Served /\ WriteS0(drv.req.off)
  /\ Goto(IF drv.req.op = "write" THEN "data" ELSE "turn")
  /\ UNCHANGED <<got, ref, saved, torn>>

SendData ==
  /\ drv.at = "data" /\ Served /\ Len(got) < Len(drv.req.data)
  /\ WriteS0(drv.req.data[Len(got) + 1])
  /\ got' = Append(got, None)          \* counts the bytes sent
  /\ UNCHANGED <<drv, ref, saved, torn>>

EndWrite ==
  /\ drv.at = "data" /\ Len(got) = Len(drv.req.data) /\ Served
  /\ WriteStop /\ drv' = Ready /\ got' = <<>>
  /\ ref' = IF drv.req.node \in Status THEN ref
            ELSE [ref EXCEPT ![drv.req.node] =
                    [i \in 0..(Size - 1) |->
                       LET k == {j \in DOMAIN drv.req.data : (drv.req.off + j - 1) % Size = i}
                       IN  IF k = {} THEN @[i] ELSE drv.req.data[CHOOSE j \in k : TRUE]]]
  /\ UNCHANGED <<saved, torn>>

TurnAround ==
  /\ drv.at = "turn" /\ Served /\ Goto("restage")
  /\ WriteStop /\ UNCHANGED <<got, ref, saved, torn>>

ReadDummy ==
  /\ drv.at = "dummy" /\ Served /\ Goto("bytes")
  /\ \E b \in Values \cup {None} : ReadS0(b)
  /\ UNCHANGED <<got, ref, saved, torn>>

ReadByte ==
  /\ drv.at = "bytes" /\ Served /\ Len(got) < Len(drv.req.data)
  /\ \E b \in Values \cup {None} : ReadS0(b) /\ got' = Append(got, b)
  /\ UNCHANGED <<drv, ref, saved, torn>>

Nack ==
  /\ drv.at = "bytes" /\ Served /\ Len(got) = Len(drv.req.data)
  /\ Goto("last") /\ WriteNack /\ UNCHANGED <<got, ref, saved, torn>>

EndRead ==
  /\ drv.at = "last" /\ ~pin /\ lrb
  /\ Goto("done") /\ WriteStop /\ UNCHANGED <<got, ref, saved, torn>>

\* PIN stays set: STOP, and the request from its beginning.
TimeOut ==
  /\ drv.at \in {"offset", "data", "turn", "dummy", "bytes", "last"} /\ pin
  /\ Goto("stage") /\ got' = <<>>
  /\ WriteStop /\ UNCHANGED <<ref, saved, torn>>

-----------------------------------------------------------------------------
Save ==
  /\ saved = None
  /\ saved' = [img |-> img, drv |-> drv, got |-> got, ref |-> ref, torn |-> torn]
  /\ UNCHANGED <<ctl, img, drv, got, ref, torn>>

\* A new process resumes the snapshot.
Resume ==
  /\ saved # None /\ saved' = None
  /\ img' = saved.img /\ drv' = saved.drv /\ got' = saved.got /\ ref' = saved.ref
  /\ torn' = (saved.torn \/ saved.drv.at \in {"start", "restage", "restart"})
  /\ phase' = "Idle" /\ cur' = None /\ first' = FALSE /\ dummy' = FALSE
  /\ pin' = TRUE /\ lrb' = FALSE /\ shift' = NoShift
  /\ off' = [n \in Nodes |-> 0]

Next ==
  \/ \E r \in Requests : Submit(r)
  \/ Stage \/ Start \/ NoAnswer \/ Forget
  \/ SendOffset \/ SendData \/ EndWrite
  \/ TurnAround \/ ReadDummy \/ ReadByte \/ Nack \/ EndRead
  \/ TimeOut \/ Save \/ Resume

Spec == Init /\ [][Next]_vars

-----------------------------------------------------------------------------
(* A read that completes returns what the last completed writes of that node   *)
(* left there, byte for byte from the offset asked for, across the wrap of the  *)
(* offset and a resume in the middle of a transaction.  A resume with an address *)
(* or an offset staged is excepted: the snapshot has neither.                   *)
IicReadsBack ==
  drv.at = "done" /\ ~torn =>
    \A i \in DOMAIN got :
      got[i] = ref[drv.req.node][(drv.req.off + i - 1) % Size]
=============================================================================
