------------------------------ MODULE TlbRefill ------------------------------
(***************************************************************************)
(* Memory accesses of two processes on one CPU: Ev6Translator looks up the *)
(* instruction or the data buffer, a miss enters the guest's PALcode,      *)
(* which stages a tag, writes the PTE and retries the access.  PALcode is  *)
(* external; what its HW_MTPR instructions do is PalEntries.cpp's.         *)
(*                                                                         *)
(* A process's page table gives each of its pages a frame, a pair of the   *)
(* process and a version, so that two processes never share one.           *)
(***************************************************************************)
EXTENDS SpamTlb, FiniteSetsExt

CONSTANTS
  Procs, AsnOf,     \* the processes, and the ASN the guest gives each
  MaxVersion        \* bound: how often pages are remapped

\* AsnOf \in [Procs -> Asns], 0 \in Asns, Pfns = Procs \X (0 .. MaxVersion).

Sides == {"I", "D"}
Banks == {0, 1}

VARIABLES
  tb,        \* itbMgr and dtbMgr
  asn,       \* CpuState::asn
  dtbAsn,    \* dtbAsn0, dtbAsn1
  tag,       \* itbTag, and dtbTag0 with dtbTag1
  cur,       \* the process the guest runs
  version,   \* the guest's page tables
  access,    \* the access under way: side and page, or None
  flow       \* "native", or the miss handler's next step

vars == <<tb, asn, dtbAsn, tag, cur, version, access, flow>>

Flows == {"native", "stage", "fill", "return"}

Init ==
  /\ tb = [x \in Sides |-> ClearManager]
  /\ asn = 0
  /\ cur \in {p \in Procs : AsnOf[p] = 0}
  /\ dtbAsn = [b \in Banks |-> 0]
  /\ tag = [x \in Sides |-> 0]
  /\ version = [p \in Procs |-> [v \in Vpns |-> 0]]
  /\ access = None /\ flow = "native"

Frame(p, v) == <<p, version[p][v]>>

\* How often the guest has changed a mapping.
Remaps == MapThenSumSet(LAMBDA x : version[x[1]][x[2]], Procs \X Vpns)

-----------------------------------------------------------------------------

\* The next instruction fetches, or loads or stores.
Begin(x, v) ==
  /\ flow = "native" /\ access = None
  /\ access' = [side |-> x, vpn |-> v]
  /\ UNCHANGED <<tb, asn, dtbAsn, tag, cur, version, flow>>

\* translateInstruction, translateData: both look up under CpuState::asn.
Translated == Lookup(tb[access.side], access.vpn, asn)

Hit ==
  /\ flow = "native" /\ access # None /\ Translated # None
  /\ access' = None
  /\ UNCHANGED <<tb, asn, dtbAsn, tag, cur, version, flow>>

Miss ==
  /\ flow = "native" /\ access # None /\ Translated = None
  /\ flow' = "stage"
  /\ UNCHANGED <<tb, asn, dtbAsn, tag, cur, version, access>>

\* HW_MTPR ITB_TAG, or DTB_TAG0 and DTB_TAG1.
StageTag ==
  /\ flow = "stage" /\ flow' = "fill"
  /\ tag' = [tag EXCEPT ![access.side] = access.vpn]
  /\ UNCHANGED <<tb, asn, dtbAsn, cur, version, access>>

InsertFor(m, x, a) ==
  Insert(m, tag[x], a, 0, FALSE, Frame(cur, access.vpn))

\* Mutant: the staging registers are swapped.
WritePteSwapped ==
  /\ flow = "fill" /\ flow' = "return"
  /\ tb' = [tb EXCEPT ![access.side] =
       IF access.side = "I" THEN InsertFor(@, "I", dtbAsn[0])
       ELSE InsertFor(InsertFor(@, "I", dtbAsn[0]), "I", dtbAsn[1])]
  /\ UNCHANGED <<asn, dtbAsn, tag, cur, version, access>>

\* Mutant: bank 1 fills under the instruction side's ASN.
WritePteBankAsn ==
  /\ flow = "fill" /\ flow' = "return"
  /\ tb' = [tb EXCEPT ![access.side] =
       IF access.side = "I" THEN InsertFor(@, "I", asn)
       ELSE InsertFor(InsertFor(@, "D", dtbAsn[0]), "D", asn)]
  /\ UNCHANGED <<asn, dtbAsn, tag, cur, version, access>>

\* HW_MTPR ITB_PTE fills under CpuState::asn; DTB_PTE0 and DTB_PTE1 fill under
\* the ASN of their bank.
WritePte ==
  /\ flow = "fill" /\ flow' = "return"
  /\ tb' = [tb EXCEPT ![access.side] =
       IF access.side = "I" THEN InsertFor(@, "I", asn)
       ELSE InsertFor(InsertFor(@, "D", dtbAsn[0]), "D", dtbAsn[1])]
  /\ UNCHANGED <<asn, dtbAsn, tag, cur, version, access>>

\* HW_RET to the faulting instruction.
Retry ==
  /\ flow = "return" /\ flow' = "native"
  /\ UNCHANGED <<tb, asn, dtbAsn, tag, cur, version, access>>

\* The guest's context switch between two instructions.  PALcode writes DTB_ASN0,
\* DTB_ASN1 and PCTX; iprSelector takes PCTX's number for PAL_TEMP_0, so that
\* CpuState::asn stays.  The access under way belongs to the process left behind
\* and is dropped with it.
SwitchTo(p) ==
  /\ flow = "native" /\ p # cur
  /\ cur' = p /\ access' = None
  /\ dtbAsn' = [b \in Banks |-> AsnOf[p]]
  /\ UNCHANGED <<tb, asn, tag, version, flow>>

\* The guest changes a PTE of the running process and executes TBIS: HW_MTPR
\* ITB_IS under CpuState::asn, DTB_IS0 and DTB_IS1 under their bank's ASN.
Remap(v) ==
  /\ flow = "native" /\ access = None /\ Remaps < MaxVersion
  /\ version' = [version EXCEPT ![cur][v] = @ + 1]
  /\ tb' = [x \in Sides |->
       IF x = "I" THEN InvalidateSingle(tb[x], v, asn)
       ELSE InvalidateSingle(InvalidateSingle(tb[x], v, dtbAsn[0]), v, dtbAsn[1])]
  /\ UNCHANGED <<asn, dtbAsn, tag, cur, access, flow>>

Step == Hit \/ Miss \/ StageTag \/ WritePte \/ Retry

Next ==
  \/ \E x \in Sides, v \in Vpns : Begin(x, v)
  \/ Step
  \/ \E p \in Procs : SwitchTo(p)
  \/ \E v \in Vpns : Remap(v)

\* The CPU goes on with the instruction and with its handler.
Fairness == WF_vars(Step)

Spec == Init /\ [][Next]_vars /\ Fairness

-----------------------------------------------------------------------------

HitsOwn(x) ==
  \A v \in Vpns : LET e == Lookup(tb[x], v, asn) IN
    e # None => e.pfn = Frame(cur, v)

(* The data buffer keeps address spaces apart: whatever the switches, fills   *)
(* and TBIS before, a process whose ASN is CpuState::asn hits its own current *)
(* mappings, neither a stale one nor one that was filled for another process. *)
DataIsOwn == AsnOf[cur] = asn => HitsOwn("D")

(* A fetch that misses is refilled once and then goes on, unless the process  *)
(* is switched away: the entry lands where the retry looks for it.            *)
FetchCompletes ==
  (access # None /\ access.side = "I") ~> access = None

(* The same of loads and stores, as long as the data buffer is filled under   *)
(* the ASN it is looked up with.  SwitchTo ends that for a process whose ASN  *)
(* is not CpuState::asn: its data accesses miss again after every refill.     *)
DataCompletes ==
  [](\A b \in Banks : dtbAsn[b] = asn) =>
    ((access # None /\ access.side = "D") ~> access = None)

(* A miss of either stream is refilled once and the access goes on.           *)
RefillCompletes == FetchCompletes /\ DataCompletes

(* Doc claim, PalEntries.cpp:1740: "I-side ASN comes from PCTX (cpu.asn)", so  *)
(* that a fetch after a context switch uses the new process's pages.  A write *)
(* of PCTX reaches PAL_TEMP_0 and cpu.asn never changes: a process fetches     *)
(* from the frames of the one before it.                                      *)
FetchIsOwn == HitsOwn("I")
=============================================================================
