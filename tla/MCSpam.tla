------------------------------- MODULE MCSpam -------------------------------
(* The translation buffer under any PALcode, and the two buffers of a CPU     *)
(* with their refill flows and context switches.                              *)
EXTENDS SpamManager

CONSTANTS Procs, AsnOf, MaxVersion, ProcFrames

VARIABLES tb, asn, dtbAsn, tag, cur, version, access, flow

Refill == INSTANCE TlbRefill WITH Pfns <- ProcFrames

refillVars == <<tb, asn, dtbAsn, tag, cur, version, access, flow>>

\* Two shards that collide: (0, 0) with (1, 1) and (0, 1) with (1, 0).
SumShard(v, a) == (v + a) % 2

\* Single pages for every address space, blocks of two for one of them.
SomeKinds == {<<0, TRUE>>, <<1, FALSE>>}

\* Every process has a frame of its own for each version of a page.
OwnFrames == Procs \X (0 .. MaxVersion)
TwoAsns == [p \in Procs |-> IF p = "p" THEN 0 ELSE 1]

(* A process hits its own current mappings in the data buffer.                *)
DataIsOwn == Refill!DataIsOwn

(* A miss is refilled once and the access goes on.                            *)
RefillCompletes == Refill!RefillCompletes

(* Doc claim: a fetch after a context switch uses the new process's pages.    *)
FetchIsOwn == Refill!FetchIsOwn
=============================================================================
