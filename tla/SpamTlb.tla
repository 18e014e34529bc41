------------------------------- MODULE SpamTlb -------------------------------
(***************************************************************************)
(* The software-managed translation buffer: SPAMShardManager over          *)
(* SPAMBucket, as operators on the state of one manager.                   *)
(*                                                                         *)
(* A manager is [slot, cursor, g, p]: the slots of every shard, each None  *)
(* (valid = false) or an entry, the round-robin cursor of every shard, and *)
(* the global and the process epoch.  An entry keeps its tag (vpn, already *)
(* masked by the granularity hint, asn, gh), its PTE with the ASM bit, and *)
(* the epochs it was stamped with.  The realm is left out of the tag: each *)
(* manager only ever holds one.                                            *)
(***************************************************************************)
EXTENDS Integers

CONSTANTS
  Vpns, Asns, Pfns,   \* virtual pages, address space numbers, page frames
  GhBits,             \* VPN bits one granularity step drops; 3 in the code
  MaxGh,              \* the largest granularity hint; 3 in the code
  Shards,             \* shard indices
  Ways,               \* slots per shard
  ShardOf(_, _),      \* tlbKeyHash & kShardMask, of the masked VPN and the ASN:
                      \* realm and gh are hashed above the mask's bits
  None

Ghs == 0 .. MaxGh

\* vpnMaskForGh applied to a VPN.
MaskVpn(v, gh) == v - (v % (2 ^ (GhBits * gh)))

ASSUME SpamAssumption ==
  /\ MaxGh \in Nat /\ Ways \in Nat \ {0}
  /\ \A v \in Vpns, gh \in Ghs : MaskVpn(v, gh) \in Vpns
  /\ \A v \in Vpns : MaskVpn(v, 0) = v
  /\ \A v \in Vpns, a \in Asns : ShardOf(v, a) \in Shards

Slots == 0 .. Ways - 1

Entries == [vpn : Vpns, asn : Asns, gh : Ghs, asm : BOOLEAN, pfn : Pfns,
            g : Nat, p : Nat]

ASSUME NoneAssumption == None \notin Entries

Managers == [slot : [Shards -> [Slots -> Entries \union {None}]],
             cursor : [Shards -> Slots], g : Nat, p : Nat]

\* The state after construction, and after clear.
ClearManager ==
  [slot |-> [s \in Shards |-> [w \in Slots |-> None]],
   cursor |-> [s \in Shards |-> 0], g |-> 0, p |-> 0]

-----------------------------------------------------------------------------
Matches(e, v, a) ==
  /\ e # None
  /\ MaskVpn(v, e.gh) = e.vpn
  /\ e.asm \/ e.asn = a

\* isLiveUnder: TBIA ages every entry, TBIAP the ones that are not ASM.
IsLive(m, e) == e.g = m.g /\ (e.asm \/ e.p = m.p)

\* Mutant: the match compares the VPN masked by the probe's granularity.
HitsMaskedProbe(m, v, a) ==
  {x \in Ghs \X Slots :
     LET e == m.slot[ShardOf(MaskVpn(v, x[1]), a)][x[2]] IN
       e # None /\ MaskVpn(v, x[1]) = e.vpn /\ (e.asm \/ e.asn = a) /\ IsLive(m, e)}

\* The entry a probe <<gh, way>> reads: its granularity selects the shard.
Probed(m, v, a, x) == m.slot[ShardOf(MaskVpn(v, x[1]), a)][x[2]]

\* The probes that hit: the raw VPN matches, at the entry's own granularity.
Hits(m, v, a) ==
  {x \in Ghs \X Slots :
     Matches(Probed(m, v, a, x), v, a) /\ IsLive(m, Probed(m, v, a, x))}

\* lookup: the smallest granularity first, then the lowest slot.
FirstHit(m, v, a) ==
  CHOOSE x \in Hits(m, v, a) : \A y \in Hits(m, v, a) :
    x[1] < y[1] \/ (x[1] = y[1] /\ x[2] <= y[2])

Lookup(m, v, a) ==
  IF Hits(m, v, a) = {} THEN None
  ELSE Probed(m, v, a, FirstHit(m, v, a))

\* The slot insert writes: the first free one, else the round-robin victim.
Victim(m, s) ==
  LET free == {w \in Slots : m.slot[s][w] = None} IN
  IF free = {} THEN m.cursor[s]
  ELSE CHOOSE w \in free : \A u \in free : w <= u

PutEntry(m, s, e) ==
  [m EXCEPT !.slot[s][Victim(m, s)] = e,
            !.cursor[s] = (@ + 1) % Ways]

NewEntry(m, v, a, gh, asm, pfn) ==
  [vpn |-> MaskVpn(v, gh), asn |-> a, gh |-> gh, asm |-> asm, pfn |-> pfn,
   g |-> m.g, p |-> m.p]

Insert(m, v, a, gh, asm, pfn) ==
  PutEntry(m, ShardOf(MaskVpn(v, gh), a), NewEntry(m, v, a, gh, asm, pfn))

InvalidateAll(m) == [m EXCEPT !.g = @ + 1]

InvalidateAllProcess(m) == [m EXCEPT !.p = @ + 1]

\* Mutant: one match ends the scan.
InvalidateSingleFirst(m, v, a) ==
  IF Hits(m, v, a) = {} THEN m
  ELSE [m EXCEPT !.slot[ShardOf(MaskVpn(v, FirstHit(m, v, a)[1]), a)]
                       [FirstHit(m, v, a)[2]] = None]

\* invalidateSingle: every matching slot of the shards the probes select.
InvalidateSingle(m, v, a) ==
  LET probed == {ShardOf(MaskVpn(v, gh), a) : gh \in Ghs} IN
  [m EXCEPT !.slot = [s \in Shards |-> [w \in Slots |->
     IF s \in probed /\ Matches(m.slot[s][w], v, a)
       THEN None ELSE m.slot[s][w]]]]
=============================================================================
