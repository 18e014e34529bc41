----------------------------- MODULE TbContract -----------------------------
(***************************************************************************)
(* What a translation buffer promises its PALcode, without shards, slots   *)
(* or epochs: a set of translations.  A fill adds one and may displace one *)
(* other; TBIA empties the set; TBIAP keeps the address-space-match ones;  *)
(* TBIS removes the page's translation of the address space it names and   *)
(* nothing that a different page or address space uses.                    *)
(***************************************************************************)
EXTENDS Integers

CONSTANTS Translations,          \* [vpn, asn, gh, asm, pfn]
          Vpns, Asns,
          Covers(_, _)           \* Covers(t, v): v lies in the block of t

VARIABLE live

Init == live = {}

Fill(t) ==
  /\ t \in live' /\ live' \subseteq live \union {t}
  /\ \E displaced \in live \union {t} : live \ {displaced} \subseteq live'

FlushAll == live' = {}

FlushProcess == live' = {t \in live : t.asm}

\* An ASM translation filled under another ASN may stay: see TbisReachesAsm.
FlushSingle(v, a) ==
  /\ live' \subseteq live
  /\ \A t \in live : Covers(t, v) /\ t.asn = a => t \notin live'
  /\ \A t \in live : ~Covers(t, v) \/ (~t.asm /\ t.asn # a) => t \in live'

Next ==
  \/ \E t \in Translations : Fill(t)
  \/ FlushAll
  \/ FlushProcess
  \/ \E v \in Vpns, a \in Asns : FlushSingle(v, a)

Spec == Init /\ [][Next]_live
=============================================================================
