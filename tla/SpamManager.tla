----------------------------- MODULE SpamManager -----------------------------
(***************************************************************************)
(* One translation buffer of a CPU under arbitrary PALcode: fills, the     *)
(* three invalidations and the clear of a cold start, in any order.        *)
(***************************************************************************)
EXTENDS SpamTlb

CONSTANTS Kinds,        \* granularity and ASM bit of the pages filled
          MaxFlushes    \* bound: TBIA and TBIAP between two clears

ASSUME ManagerAssumption == Kinds \subseteq Ghs \X BOOLEAN /\ MaxFlushes \in Nat

VARIABLE mgr

TypeOK == mgr \in Managers

Init == mgr = ClearManager

Fill(v, a, gh, asm, pfn) == mgr' = Insert(mgr, v, a, gh, asm, pfn)

TbInvalidateAll == mgr.g + mgr.p < MaxFlushes /\ mgr' = InvalidateAll(mgr)

TbInvalidateAllProcess == mgr.g + mgr.p < MaxFlushes /\ mgr' = InvalidateAllProcess(mgr)

TbInvalidateSingle(v, a) == mgr' = InvalidateSingle(mgr, v, a)

Clear == mgr' = ClearManager

Next ==
  \/ \E v \in Vpns, a \in Asns, k \in Kinds, pfn \in Pfns :
       Fill(v, a, k[1], k[2], pfn)
  \/ TbInvalidateAll
  \/ TbInvalidateAllProcess
  \/ \E v \in Vpns, a \in Asns : TbInvalidateSingle(v, a)
  \/ Clear

Spec == Init /\ [][Next]_mgr

-----------------------------------------------------------------------------

Translation(e) == [vpn |-> e.vpn, asn |-> e.asn, gh |-> e.gh, asm |-> e.asm,
                   pfn |-> e.pfn]

TranslationOf(v, a, gh, asm, pfn) ==
  [vpn |-> MaskVpn(v, gh), asn |-> a, gh |-> gh, asm |-> asm, pfn |-> pfn]

LiveOf(m) ==
  {Translation(m.slot[x[1]][x[2]]) :
     x \in {y \in Shards \X Slots :
              /\ m.slot[y[1]][y[2]] # None
              /\ IsLive(m, m.slot[y[1]][y[2]])}}

Covers(t, v) == MaskVpn(v, t.gh) = t.vpn

Contract == INSTANCE TbContract WITH
  live <- LiveOf(mgr),
  Translations <- [vpn : Vpns, asn : Asns, gh : Ghs, asm : BOOLEAN, pfn : Pfns]

(* The sharded buffer with lazy, epoch-based flushing does what a translation *)
(* buffer promises: no fill displaces more than one translation, TBIA and     *)
(* TBIAP leave none of the translations they must remove and TBIAP keeps the  *)
(* ASM ones, TBIS removes every copy of the page's translation and no other's *)
(* (SPAMShardManager::insert, invalidateAll, invalidateAllProcess,            *)
(* invalidateSingle).  Each operation is matched with its own abstract one:   *)
(* Contract!Spec alone would let a TBIAP pass for a TBIA.                     *)
ImplementsContract ==
  /\ Contract!Init
  /\ [][/\ \A v \in Vpns, a \in Asns, k \in Kinds, pfn \in Pfns :
             Fill(v, a, k[1], k[2], pfn) =>
               Contract!Fill(TranslationOf(v, a, k[1], k[2], pfn))
        /\ TbInvalidateAll \/ Clear => Contract!FlushAll
        /\ TbInvalidateAllProcess => Contract!FlushProcess
        /\ \A v \in Vpns, a \in Asns :
             TbInvalidateSingle(v, a) => Contract!FlushSingle(v, a)]_mgr

(* A hit is a translation of the very page: it comes from a live entry whose  *)
(* block covers the page and whose address space is the CPU's, or which is    *)
(* ASM, whatever else shares the shard (the cross-granularity hit that        *)
(* SPAMShardManager::lookup guards against).                                  *)
LookupSound ==
  \A v \in Vpns, a \in Asns :
    Hits(mgr, v, a) # {} =>
      LET e == Lookup(mgr, v, a) IN
      /\ Translation(e) \in LiveOf(mgr)
      /\ Covers(e, v) /\ (e.asm \/ e.asn = a)

(* No live translation is out of reach: every page of its block hits under    *)
(* the address space it was filled for, so a refilled access is not refilled  *)
(* again while the entry lives.                                               *)
LookupComplete ==
  \A t \in LiveOf(mgr), v \in Vpns :
    Covers(t, v) => Hits(mgr, v, t.asn) # {}

(* Lookup answers exactly: a hit is a translation of the page and the address *)
(* space asked for, and every live translation hits on every page of its      *)
(* block (SPAMShardManager::lookup probes the shards where insert puts them). *)
LookupExact == LookupSound /\ LookupComplete
=============================================================================
