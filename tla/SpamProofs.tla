----------------------------- MODULE SpamProofs -----------------------------
(***************************************************************************)
(* The translation buffer, for any shards, ways, pages, address spaces and *)
(* granularities and any hash.  MaskVpn is never expanded: all that counts *)
(* is that lookup and insert mask and hash alike.                          *)
(***************************************************************************)
EXTENDS MCSpam, WellFoundedInduction, TLAPS

\* The smallest element a CHOOSE names exists.
LEMMA LeastElement ==
  ASSUME NEW T \in SUBSET Nat, T # {}
  PROVE  \E x \in T : \A y \in T : x <= y
<1> DEFINE R == OpToRel(<, Nat)
<1>1. IsWellFoundedOn(R, Nat)
  BY NatLessThanWellFounded
<1>2. \A x, y \in Nat : y < x => <<y, x>> \in R
  BY DEF OpToRel
<1> HIDE DEF R
<1>3. PICK x \in T : \A y \in T : ~ (<<y, x>> \in R)
  BY <1>1, WFMin
<1>4. \A y \in T : ~(y < x)
  BY <1>2, <1>3
<1>5. \A y \in T : y \in Nat /\ x \in Nat
  OBVIOUS
<1> QED
  BY <1>4, <1>5

LEMMA LeastPair ==
  ASSUME NEW T \in SUBSET (Nat \X Nat), T # {}
  PROVE  \E x \in T : \A y \in T : x[1] < y[1] \/ (x[1] = y[1] /\ x[2] <= y[2])
<1>1. PICK i \in {x[1] : x \in T} : \A j \in {x[1] : x \in T} : i <= j
  <2>1. {x[1] : x \in T} \in SUBSET Nat /\ {x[1] : x \in T} # {}
    OBVIOUS
  <2> QED
    BY <2>1, LeastElement
<1> DEFINE U == {x[2] : x \in {y \in T : y[1] = i}}
<1>2. PICK k \in U : \A l \in U : k <= l
  <2>1. U \in SUBSET Nat /\ U # {}
    BY <1>1
  <2> HIDE DEF U
  <2> QED
    BY <2>1, LeastElement
<1>3. PICK x \in T : x[1] = i /\ x[2] = k
  BY <1>2
<1>4. \A y \in T : i <= y[1] /\ (y[1] = i => k <= y[2]) /\ y[1] \in Nat /\ i \in Nat
  BY <1>1, <1>2
<1> QED
  BY <1>3, <1>4

\* Buffers whose entries map to the frames of F.
EntriesOf(F) == [vpn : Vpns, asn : Asns, gh : Ghs, asm : BOOLEAN, pfn : F,
                 g : Nat, p : Nat]

ManagersOf(F) == [slot : [Shards -> [Slots -> EntriesOf(F) \union {None}]],
                  cursor : [Shards -> Slots], g : Nat, p : Nat]

LEMMA AllFrames == Managers = ManagersOf(Pfns) /\ Entries = EntriesOf(Pfns)
BY DEF Managers, ManagersOf, Entries, EntriesOf

LEMMA VictimType ==
  ASSUME NEW F, NEW m \in ManagersOf(F), NEW s \in Shards
  PROVE  Victim(m, s) \in Slots
<1> DEFINE free == {w \in Slots : m.slot[s][w] = None}
<1>1. CASE free = {}
  BY <1>1 DEF Victim, ManagersOf
<1>2. CASE free # {}
  <2>1. free \in SUBSET Nat
    BY DEF Slots
  <2>2. \E w \in free : \A u \in free : w <= u
    <3> HIDE DEF free
    <3> QED
      BY <1>2, <2>1, LeastElement
  <2>3. Victim(m, s) = CHOOSE w \in free : \A u \in free : w <= u
    BY <1>2 DEF Victim
  <2>4. (CHOOSE w \in free : \A u \in free : w <= u) \in free
    <3> HIDE DEF free
    <3> QED
      BY <2>2
  <2> QED
    BY <2>3, <2>4
<1> QED
  BY <1>1, <1>2

LEMMA NewEntryType ==
  ASSUME NEW F, NEW m \in ManagersOf(F), NEW v \in Vpns, NEW a \in Asns, NEW gh \in Ghs,
         NEW asm \in BOOLEAN, NEW pfn \in F
  PROVE  /\ NewEntry(m, v, a, gh, asm, pfn) \in EntriesOf(F)
         /\ ShardOf(MaskVpn(v, gh), a) \in Shards
BY SpamAssumption DEF NewEntry, EntriesOf, ManagersOf

\* insert writes one slot of one shard; cursor aside, nothing else changes.
LEMMA PutEntryExact ==
  ASSUME NEW F, NEW m \in ManagersOf(F), NEW s \in Shards, NEW e \in EntriesOf(F)
  PROVE  /\ PutEntry(m, s, e) \in ManagersOf(F)
         /\ PutEntry(m, s, e).g = m.g /\ PutEntry(m, s, e).p = m.p
         /\ \A t \in Shards, w \in Slots :
              PutEntry(m, s, e).slot[t][w] =
                IF t = s /\ w = Victim(m, s) THEN e ELSE m.slot[t][w]
<1>1. Victim(m, s) \in Slots
  BY VictimType
<1>2. (m.cursor[s] + 1) % Ways \in Slots
  BY SpamAssumption DEF ManagersOf, Slots
<1> QED
  BY <1>1, <1>2 DEF PutEntry, ManagersOf

LEMMA ClearType ==
  ASSUME NEW F
  PROVE  ClearManager \in ManagersOf(F)
BY SpamAssumption DEF ClearManager, ManagersOf, Slots

\* What the invalidations leave: TBIA and TBIAP only advance an epoch, TBIS only
\* empties slots.
LEMMA InvalidateExact ==
  ASSUME NEW m \in Managers
  PROVE  /\ InvalidateAll(m) \in Managers
         /\ InvalidateAll(m).slot = m.slot
         /\ InvalidateAll(m).g = m.g + 1 /\ InvalidateAll(m).p = m.p
         /\ InvalidateAllProcess(m) \in Managers
         /\ InvalidateAllProcess(m).slot = m.slot
         /\ InvalidateAllProcess(m).g = m.g /\ InvalidateAllProcess(m).p = m.p + 1
BY DEF InvalidateAll, InvalidateAllProcess, Managers

LEMMA InvalidateSingleExact ==
  ASSUME NEW F, NEW m \in ManagersOf(F), NEW v \in Vpns, NEW a \in Asns
  PROVE  /\ InvalidateSingle(m, v, a) \in ManagersOf(F)
         /\ InvalidateSingle(m, v, a).g = m.g /\ InvalidateSingle(m, v, a).p = m.p
         /\ \A s \in Shards, w \in Slots :
              InvalidateSingle(m, v, a).slot[s][w] =
                IF /\ \E gh \in Ghs : s = ShardOf(MaskVpn(v, gh), a)
                   /\ Matches(m.slot[s][w], v, a)
                THEN None ELSE m.slot[s][w]
<1> DEFINE probed == {ShardOf(MaskVpn(v, gh), a) : gh \in Ghs}
           new == [s \in Shards |-> [w \in Slots |->
                     IF s \in probed /\ Matches(m.slot[s][w], v, a)
                       THEN None ELSE m.slot[s][w]]]
<1>1. InvalidateSingle(m, v, a) = [m EXCEPT !.slot = new]
  BY DEF InvalidateSingle
<1>2. new \in [Shards -> [Slots -> EntriesOf(F) \union {None}]]
  BY DEF ManagersOf
<1>3. \A s \in Shards, w \in Slots :
        new[s][w] = IF s \in probed /\ Matches(m.slot[s][w], v, a)
                      THEN None ELSE m.slot[s][w]
  OBVIOUS
<1>4. \A s : s \in probed <=> \E gh \in Ghs : s = ShardOf(MaskVpn(v, gh), a)
  OBVIOUS
<1> HIDE DEF probed, new
<1>5. /\ [m EXCEPT !.slot = new] \in ManagersOf(F)
      /\ [m EXCEPT !.slot = new].slot = new
      /\ [m EXCEPT !.slot = new].g = m.g /\ [m EXCEPT !.slot = new].p = m.p
  BY <1>2 DEF ManagersOf
<1> QED
  BY <1>1, <1>3, <1>4, <1>5

-----------------------------------------------------------------------------

(* Every operation of SPAMShardManager keeps slots, cursors and epochs in   *)
(* their ranges; insert always finds a slot.                               *)
THEOREM TypeCorrect == Spec => []TypeOK
<1>1. Init => TypeOK
  BY ClearType, AllFrames DEF Init, TypeOK
<1>2. TypeOK /\ [Next]_mgr => TypeOK'
  <2> SUFFICES ASSUME TypeOK, [Next]_mgr PROVE TypeOK'
    OBVIOUS
  <2> USE DEF TypeOK
  <2>1. ASSUME NEW v \in Vpns, NEW a \in Asns, NEW k \in Kinds, NEW pfn \in Pfns,
               Fill(v, a, k[1], k[2], pfn)
        PROVE  TypeOK'
    <3>1. k[1] \in Ghs /\ k[2] \in BOOLEAN
      BY ManagerAssumption
    <3> QED
      BY <2>1, <3>1, NewEntryType, PutEntryExact, AllFrames DEF Fill, Insert
  <2>2. CASE TbInvalidateAll \/ TbInvalidateAllProcess
    BY <2>2, InvalidateExact DEF TbInvalidateAll, TbInvalidateAllProcess
  <2>3. ASSUME NEW v \in Vpns, NEW a \in Asns, TbInvalidateSingle(v, a)
        PROVE  TypeOK'
    BY <2>3, InvalidateSingleExact, AllFrames DEF TbInvalidateSingle
  <2>4. CASE Clear
    BY <2>4, ClearType, AllFrames DEF Clear
  <2>5. CASE UNCHANGED mgr
    BY <2>5
  <2> QED
    BY <2>1, <2>2, <2>3, <2>4, <2>5 DEF Next
<1> QED
  BY <1>1, <1>2, PTL DEF Spec

(* The strengthening that both properties of the buffer rest on: an entry   *)
(* sits in the shard its own tag hashes to, and no epoch is ahead of the    *)
(* manager's, so that advancing one ages every entry.                      *)
Placed ==
  \A s \in Shards, w \in Slots :
    mgr.slot[s][w] # None =>
      /\ s = ShardOf(mgr.slot[s][w].vpn, mgr.slot[s][w].asn)
      /\ mgr.slot[s][w].g <= mgr.g /\ mgr.slot[s][w].p <= mgr.p

LEMMA EntriesArePlaced == Spec => []Placed
<1>1. Init => Placed
  BY DEF Init, Placed, ClearManager
<1>2. TypeOK /\ Placed /\ [Next]_mgr => Placed'
  <2> SUFFICES ASSUME TypeOK, Placed, [Next]_mgr,
                      NEW s \in Shards, NEW w \in Slots, mgr'.slot[s][w] # None
               PROVE  /\ s = ShardOf(mgr'.slot[s][w].vpn, mgr'.slot[s][w].asn)
                      /\ mgr'.slot[s][w].g <= mgr'.g /\ mgr'.slot[s][w].p <= mgr'.p
    BY DEF Placed
  <2> DEFINE Goal == /\ s = ShardOf(mgr'.slot[s][w].vpn, mgr'.slot[s][w].asn)
                     /\ mgr'.slot[s][w].g <= mgr'.g /\ mgr'.slot[s][w].p <= mgr'.p
  <2>0. mgr.slot[s][w] # None =>
          /\ s = ShardOf(mgr.slot[s][w].vpn, mgr.slot[s][w].asn)
          /\ mgr.slot[s][w].g <= mgr.g /\ mgr.slot[s][w].p <= mgr.p
    BY DEF Placed
  <2>a. mgr \in Managers /\ mgr.g \in Nat /\ mgr.p \in Nat
    BY DEF TypeOK, Managers
  <2>b. mgr.slot[s][w] # None => mgr.slot[s][w].g \in Nat /\ mgr.slot[s][w].p \in Nat
    BY DEF TypeOK, Managers, Entries
  <2>1. ASSUME NEW v \in Vpns, NEW a \in Asns, NEW k \in Kinds, NEW pfn \in Pfns,
               Fill(v, a, k[1], k[2], pfn)
        PROVE  Goal
    <3> DEFINE e == NewEntry(mgr, v, a, k[1], k[2], pfn)
               h == ShardOf(MaskVpn(v, k[1]), a)
    <3>1. e \in Entries /\ h \in Shards
      BY <2>a, NewEntryType, AllFrames, ManagerAssumption
    <3>2. /\ e.vpn = MaskVpn(v, k[1]) /\ e.asn = a
          /\ e.g = mgr.g /\ e.p = mgr.p
      BY DEF NewEntry
    <3>3. mgr' = PutEntry(mgr, h, e)
      BY <2>1 DEF Fill, Insert
    <3> HIDE DEF e
    <3>4. /\ mgr'.g = mgr.g /\ mgr'.p = mgr.p
          /\ mgr'.slot[s][w] = IF s = h /\ w = Victim(mgr, h) THEN e ELSE mgr.slot[s][w]
      BY <2>a, <3>1, <3>3, PutEntryExact, AllFrames
    <3>5. CASE s = h /\ w = Victim(mgr, h)
      BY <2>a, <3>2, <3>4, <3>5
    <3>6. CASE ~(s = h /\ w = Victim(mgr, h))
      BY <2>0, <3>4, <3>6
    <3> QED
      BY <3>5, <3>6
  <2>2. CASE TbInvalidateAll
    BY <2>0, <2>a, <2>b, <2>2, InvalidateExact DEF TbInvalidateAll
  <2>3. CASE TbInvalidateAllProcess
    BY <2>0, <2>a, <2>b, <2>3, InvalidateExact DEF TbInvalidateAllProcess
  <2>4. ASSUME NEW v \in Vpns, NEW a \in Asns, TbInvalidateSingle(v, a)
        PROVE  Goal
    <3>1. /\ mgr'.g = mgr.g /\ mgr'.p = mgr.p /\ mgr'.slot[s][w] = mgr.slot[s][w]
      BY <2>a, <2>4, InvalidateSingleExact, AllFrames DEF TbInvalidateSingle
    <3> QED
      BY <2>0, <3>1
  <2>5. CASE Clear
    BY <2>5 DEF Clear, ClearManager
  <2>6. CASE UNCHANGED mgr
    BY <2>0, <2>6
  <2> QED
    BY <2>1, <2>2, <2>3, <2>4, <2>5, <2>6 DEF Next
<1> QED
  BY <1>1, <1>2, TypeCorrect, PTL DEF Spec

-----------------------------------------------------------------------------
(* Lookup                                                                  *)

\* A translation is live when some slot holds it, stamped with current epochs.
LEMMA LiveInSlot ==
  ASSUME NEW m, NEW t
  PROVE  t \in LiveOf(m) <=>
           \E s \in Shards, w \in Slots :
             /\ m.slot[s][w] # None /\ IsLive(m, m.slot[s][w])
             /\ t = Translation(m.slot[s][w])
<1> DEFINE Held == {y \in Shards \X Slots :
                      /\ m.slot[y[1]][y[2]] # None
                      /\ IsLive(m, m.slot[y[1]][y[2]])}
<1>1. t \in LiveOf(m) <=> \E x \in Held : t = Translation(m.slot[x[1]][x[2]])
  BY DEF LiveOf
<1>2. \A x \in Held : /\ x[1] \in Shards /\ x[2] \in Slots
                      /\ m.slot[x[1]][x[2]] # None /\ IsLive(m, m.slot[x[1]][x[2]])
  OBVIOUS
<1>3. \A s \in Shards, w \in Slots :
        m.slot[s][w] # None /\ IsLive(m, m.slot[s][w]) => <<s, w>> \in Held
  OBVIOUS
<1> HIDE DEF Held
<1>4. \A s \in Shards, w \in Slots : <<s, w>>[1] = s /\ <<s, w>>[2] = w
  OBVIOUS
<1> QED
  BY <1>1, <1>2, <1>3, <1>4

\* The probe that lookup answers from is one that hits.
LEMMA FirstHitHits ==
  ASSUME NEW m, NEW v, NEW a, Hits(m, v, a) # {}
  PROVE  FirstHit(m, v, a) \in Hits(m, v, a)
<1>1. Hits(m, v, a) \in SUBSET (Nat \X Nat)
  BY SpamAssumption DEF Hits, Ghs, Slots
<1>2. \E x \in Hits(m, v, a) : \A y \in Hits(m, v, a) :
        x[1] < y[1] \/ (x[1] = y[1] /\ x[2] <= y[2])
  BY <1>1, LeastPair
<1> QED
  BY <1>2 DEF FirstHit

(* A hit is a translation of the page and address space asked for, and     *)
(* every live translation hits on every page of its block: lookup probes   *)
(* the shards into which insert puts entries, for every granularity, and   *)
(* compares at the entry's own.                                            *)
THEOREM LookupIsExact == Spec => []LookupExact
<1>1. TypeOK /\ Placed => LookupExact
  <2> SUFFICES ASSUME TypeOK, Placed PROVE LookupExact
    OBVIOUS
  <2>1. ASSUME NEW v \in Vpns, NEW a \in Asns, Hits(mgr, v, a) # {}
        PROVE  LET e == Lookup(mgr, v, a) IN
               /\ Translation(e) \in LiveOf(mgr)
               /\ Covers(e, v) /\ (e.asm \/ e.asn = a)
    <3> DEFINE x == FirstHit(mgr, v, a)
               s == ShardOf(MaskVpn(v, x[1]), a)
               e == Lookup(mgr, v, a)
    <3>1. x \in Hits(mgr, v, a)
      BY <2>1, FirstHitHits
    <3>2. e = Probed(mgr, v, a, x)
      BY <2>1 DEF Lookup
    <3> HIDE DEF x, e
    <3>3. x[1] \in Ghs /\ x[2] \in Slots
      BY <3>1 DEF Hits
    <3>4. Matches(e, v, a) /\ IsLive(mgr, e)
      BY <3>1, <3>2 DEF Hits
    <3>5. s \in Shards
      BY <3>3, SpamAssumption
    <3>6. e = mgr.slot[s][x[2]]
      BY <3>2 DEF Probed
    <3>7. Translation(e) \in LiveOf(mgr)
      <4> HIDE DEF s
      <4> QED
        BY <3>3, <3>4, <3>5, <3>6, LiveInSlot DEF Matches
    <3> QED
      BY <3>4, <3>7 DEF Matches, Covers, e
  <2>2. ASSUME NEW t \in LiveOf(mgr), NEW v \in Vpns, Covers(t, v)
        PROVE  Hits(mgr, v, t.asn) # {}
    <3>1. PICK s \in Shards, w \in Slots :
            /\ mgr.slot[s][w] # None /\ IsLive(mgr, mgr.slot[s][w])
            /\ t = Translation(mgr.slot[s][w])
      BY LiveInSlot
    <3> DEFINE e == mgr.slot[s][w]
    <3>2. e \in Entries
      BY <3>1 DEF TypeOK, Managers
    <3>3. s = ShardOf(e.vpn, e.asn)
      BY <3>1 DEF Placed
    <3>4. t.asn = e.asn /\ MaskVpn(v, e.gh) = e.vpn
      BY <2>2, <3>1 DEF Covers, Translation
    <3>5. Probed(mgr, v, t.asn, <<e.gh, w>>) = e
      BY <3>3, <3>4 DEF Probed
    <3>6. <<e.gh, w>> \in Ghs \X Slots
      BY <3>2 DEF Entries
    <3>7. Matches(e, v, t.asn) /\ IsLive(mgr, e)
      BY <3>1, <3>4 DEF Matches
    <3>8. <<e.gh, w>> \in Hits(mgr, v, t.asn)
      BY <3>5, <3>6, <3>7, Zenon DEF Hits
    <3> QED
      BY <3>8
  <2> QED
    BY <2>1, <2>2 DEF LookupExact, LookupSound, LookupComplete
<1> QED
  BY <1>1, TypeCorrect, EntriesArePlaced, PTL

-----------------------------------------------------------------------------
(* The operations against the contract, one lemma each.                    *)

LEMMA FillKeepsContract ==
  ASSUME TypeOK, NEW v \in Vpns, NEW a \in Asns, NEW k \in Kinds, NEW pfn \in Pfns,
         Fill(v, a, k[1], k[2], pfn)
  PROVE  Contract!Fill(TranslationOf(v, a, k[1], k[2], pfn))
<1> DEFINE t == TranslationOf(v, a, k[1], k[2], pfn)
           e == NewEntry(mgr, v, a, k[1], k[2], pfn)
           h == ShardOf(MaskVpn(v, k[1]), a)
           n == Victim(mgr, h)
           old == mgr.slot[h][n]
           live == LiveOf(mgr)
           liveN == LiveOf(mgr')
<1>1. /\ e \in Entries /\ h \in Shards /\ mgr \in Managers
  BY NewEntryType, AllFrames, ManagerAssumption DEF TypeOK
<1>2. n \in Slots
  BY <1>1, VictimType, AllFrames
<1>3. /\ mgr'.g = mgr.g /\ mgr'.p = mgr.p
      /\ \A s \in Shards, w \in Slots :
           mgr'.slot[s][w] = IF s = h /\ w = n THEN e ELSE mgr.slot[s][w]
  BY <1>1, PutEntryExact, AllFrames DEF Fill, Insert
<1>4. e # None /\ IsLive(mgr', e) /\ t = Translation(e)
  BY <1>1, <1>3, NoneAssumption
  DEF IsLive, NewEntry, Translation, TranslationOf
<1>5. \A x : IsLive(mgr', x) <=> IsLive(mgr, x)
  BY <1>3 DEF IsLive
<1> HIDE DEF t, e, h, n, live, liveN
<1>6. t \in liveN
  BY <1>1, <1>2, <1>3, <1>4, LiveInSlot DEF liveN
<1>7. liveN \subseteq live \union {t}
  <2> SUFFICES ASSUME NEW u \in liveN, u # t PROVE u \in live
    OBVIOUS
  <2>1. PICK s \in Shards, w \in Slots :
          /\ mgr'.slot[s][w] # None /\ IsLive(mgr', mgr'.slot[s][w])
          /\ u = Translation(mgr'.slot[s][w])
    BY LiveInSlot DEF liveN
  <2>2. ~(s = h /\ w = n)
    BY <1>3, <1>4, <2>1
  <2> QED
    BY <1>3, <1>5, <2>1, <2>2, LiveInSlot DEF live
<1>8. \A u \in live : u # Translation(old) => u \in liveN
  <2> SUFFICES ASSUME NEW u \in live, u # Translation(old) PROVE u \in liveN
    OBVIOUS
  <2>1. PICK s \in Shards, w \in Slots :
          /\ mgr.slot[s][w] # None /\ IsLive(mgr, mgr.slot[s][w])
          /\ u = Translation(mgr.slot[s][w])
    BY LiveInSlot DEF live
  <2>2. ~(s = h /\ w = n)
    BY <2>1
  <2> QED
    BY <1>3, <1>5, <2>1, <2>2, LiveInSlot DEF liveN
<1>9. \E displaced \in live \union {t} : live \ {displaced} \subseteq liveN
  <2>1. CASE Translation(old) \in live
    BY <1>8, <2>1
  <2>2. CASE Translation(old) \notin live
    <3>1. live \ {t} \subseteq liveN
      BY <1>8, <2>2
    <3> QED
      BY <3>1
  <2> QED
    BY <2>1, <2>2
<1> QED
  BY <1>6, <1>7, <1>9 DEF Contract!Fill, live, liveN, t

LEMMA FlushAllKeepsContract ==
  ASSUME TypeOK, Placed, TbInvalidateAll \/ Clear
  PROVE  Contract!FlushAll
<1> SUFFICES ASSUME NEW s \in Shards, NEW w \in Slots,
                    mgr'.slot[s][w] # None, IsLive(mgr', mgr'.slot[s][w])
             PROVE  FALSE
  <2>1. \A t : t \notin LiveOf(mgr')
    BY LiveInSlot
  <2>2. LiveOf(mgr') = {}
    BY <2>1
  <2> QED
    BY <2>2 DEF Contract!FlushAll
<1>1. CASE TbInvalidateAll
  <2>1. mgr'.slot = mgr.slot /\ mgr'.g = mgr.g + 1 /\ mgr.g \in Nat
    BY <1>1, InvalidateExact DEF TbInvalidateAll, TypeOK, Managers
  <2>2. mgr.slot[s][w].g <= mgr.g /\ mgr.slot[s][w].g \in Nat
    BY <2>1 DEF Placed, TypeOK, Managers, Entries
  <2> QED
    BY <2>1, <2>2 DEF IsLive
<1>2. CASE Clear
  BY <1>2 DEF Clear, ClearManager
<1> QED
  BY <1>1, <1>2

LEMMA FlushProcessKeepsContract ==
  ASSUME TypeOK, Placed, TbInvalidateAllProcess
  PROVE  Contract!FlushProcess
<1>1. /\ mgr'.slot = mgr.slot /\ mgr'.g = mgr.g /\ mgr'.p = mgr.p + 1 /\ mgr.p \in Nat
  BY InvalidateExact DEF TbInvalidateAllProcess, TypeOK, Managers
<1>2. ASSUME NEW s \in Shards, NEW w \in Slots, mgr.slot[s][w] # None
      PROVE  IsLive(mgr', mgr.slot[s][w]) <=>
               IsLive(mgr, mgr.slot[s][w]) /\ mgr.slot[s][w].asm
  <2>1. mgr.slot[s][w].p <= mgr.p /\ mgr.slot[s][w].p \in Nat
    BY <1>2 DEF Placed, TypeOK, Managers, Entries
  <2>2. mgr.slot[s][w].p # mgr.p + 1
    BY <1>1, <2>1
  <2> QED
    BY <1>1, <2>2 DEF IsLive
<1>3. \A x : Translation(x).asm = x.asm
  BY DEF Translation
<1>4. \A t : t \in LiveOf(mgr') <=> t \in LiveOf(mgr) /\ t.asm
  <2> SUFFICES ASSUME NEW t PROVE t \in LiveOf(mgr') <=> t \in LiveOf(mgr) /\ t.asm
    OBVIOUS
  <2>1. ASSUME t \in LiveOf(mgr') PROVE t \in LiveOf(mgr) /\ t.asm
    <3>1. PICK s \in Shards, w \in Slots :
            /\ mgr'.slot[s][w] # None /\ IsLive(mgr', mgr'.slot[s][w])
            /\ t = Translation(mgr'.slot[s][w])
      BY <2>1, LiveInSlot
    <3> QED
      BY <1>1, <1>2, <1>3, <3>1, LiveInSlot
  <2>2. ASSUME t \in LiveOf(mgr), t.asm PROVE t \in LiveOf(mgr')
    <3>1. PICK s \in Shards, w \in Slots :
            /\ mgr.slot[s][w] # None /\ IsLive(mgr, mgr.slot[s][w])
            /\ t = Translation(mgr.slot[s][w])
      BY <2>2, LiveInSlot
    <3>2. mgr.slot[s][w].asm
      BY <1>3, <2>2, <3>1
    <3> QED
      BY <1>1, <1>2, <3>1, <3>2, LiveInSlot
  <2> QED
    BY <2>1, <2>2
<1> QED
  BY <1>4 DEF Contract!FlushProcess

LEMMA FlushSingleKeepsContract ==
  ASSUME TypeOK, Placed, NEW v \in Vpns, NEW a \in Asns, TbInvalidateSingle(v, a)
  PROVE  Contract!FlushSingle(v, a)
<1>1. /\ mgr'.g = mgr.g /\ mgr'.p = mgr.p
      /\ \A s \in Shards, w \in Slots :
           mgr'.slot[s][w] =
             IF /\ \E gh \in Ghs : s = ShardOf(MaskVpn(v, gh), a)
                /\ Matches(mgr.slot[s][w], v, a)
             THEN None ELSE mgr.slot[s][w]
  BY InvalidateSingleExact, AllFrames DEF TbInvalidateSingle, TypeOK
<1>2. \A x : IsLive(mgr', x) <=> IsLive(mgr, x)
  BY <1>1 DEF IsLive
<1>3. \A x : /\ Translation(x).asm = x.asm /\ Translation(x).asn = x.asn
            /\ Covers(Translation(x), v) <=> MaskVpn(v, x.gh) = x.vpn
  BY DEF Translation, Covers
<1>4. ASSUME NEW t \in LiveOf(mgr')
      PROVE  t \in LiveOf(mgr) /\ ~(Covers(t, v) /\ t.asn = a)
  <2>1. PICK s \in Shards, w \in Slots :
          /\ mgr'.slot[s][w] # None /\ IsLive(mgr', mgr'.slot[s][w])
          /\ t = Translation(mgr'.slot[s][w])
    BY LiveInSlot
  <2>2. /\ mgr'.slot[s][w] = mgr.slot[s][w]
        /\ ~ /\ \E gh \in Ghs : s = ShardOf(MaskVpn(v, gh), a)
             /\ Matches(mgr.slot[s][w], v, a)
    BY <1>1, <2>1
  <2>3. t \in LiveOf(mgr)
    BY <1>2, <2>1, <2>2, LiveInSlot
  <2>4. ASSUME Covers(t, v), t.asn = a PROVE FALSE
    <3> DEFINE e == mgr.slot[s][w]
    <3>0. t = Translation(e)
      BY <2>1, <2>2
    <3>1. e.asn = a /\ MaskVpn(v, e.gh) = e.vpn
      <4> HIDE DEF e
      <4> QED
        BY <2>4, <3>0 DEF Translation, Covers
    <3>2. Matches(e, v, a)
      BY <2>1, <2>2, <3>1 DEF Matches
    <3>3. s = ShardOf(e.vpn, e.asn) /\ e.gh \in Ghs
      BY <2>1, <2>2 DEF Placed, TypeOK, Managers, Entries
    <3> QED
      BY <2>2, <3>1, <3>2, <3>3
  <2> QED
    BY <2>3, <2>4
<1>5. ASSUME NEW t \in LiveOf(mgr), ~Covers(t, v) \/ (~t.asm /\ t.asn # a)
      PROVE  t \in LiveOf(mgr')
  <2>1. PICK s \in Shards, w \in Slots :
          /\ mgr.slot[s][w] # None /\ IsLive(mgr, mgr.slot[s][w])
          /\ t = Translation(mgr.slot[s][w])
    BY LiveInSlot
  <2>2. ~Matches(mgr.slot[s][w], v, a)
    BY <1>3, <1>5, <2>1 DEF Matches
  <2>3. mgr'.slot[s][w] = mgr.slot[s][w]
    BY <1>1, <2>2
  <2> QED
    BY <1>2, <2>1, <2>3, LiveInSlot
<1> QED
  BY <1>4, <1>5 DEF Contract!FlushSingle

LEMMA InitMeetsContract == Init => Contract!Init
<1> SUFFICES ASSUME Init PROVE LiveOf(mgr) = {}
  BY DEF Contract!Init
<1>1. \A s \in Shards, w \in Slots : mgr.slot[s][w] = None
  BY DEF Init, ClearManager
<1>2. \A t : t \notin LiveOf(mgr)
  BY <1>1, LiveInSlot
<1> QED
  BY <1>2

(* The sharded buffer with its lazy, epoch-based flushing does what the     *)
(* contract says, operation by operation: a fill adds its translation and   *)
(* displaces at most one, TBIA and the cold start leave none, TBIAP exactly *)
(* the ASM ones, TBIS removes every copy of the page's translation in its   *)
(* address space and touches no other page and no other address space.     *)
THEOREM OperationsMeetContract == Spec => ImplementsContract
<1>1. TypeOK /\ Placed /\ [Next]_mgr
        => [/\ \A v \in Vpns, a \in Asns, k \in Kinds, pfn \in Pfns :
                 Fill(v, a, k[1], k[2], pfn) =>
                   Contract!Fill(TranslationOf(v, a, k[1], k[2], pfn))
            /\ TbInvalidateAll \/ Clear => Contract!FlushAll
            /\ TbInvalidateAllProcess => Contract!FlushProcess
            /\ \A v \in Vpns, a \in Asns :
                 TbInvalidateSingle(v, a) => Contract!FlushSingle(v, a)]_mgr
  BY FillKeepsContract, FlushAllKeepsContract, FlushProcessKeepsContract,
     FlushSingleKeepsContract
<1> QED
  BY <1>1, InitMeetsContract, TypeCorrect, EntriesArePlaced, PTL
  DEF Spec, ImplementsContract

(* Hence every behaviour of the buffer is one of the contract, with the     *)
(* live translations as its set.                                           *)
THEOREM RefinesContract == Spec => Contract!Spec
<1>1. TypeOK /\ Placed /\ [Next]_mgr => [Contract!Next]_(LiveOf(mgr))
  <2> SUFFICES ASSUME TypeOK, Placed, [Next]_mgr
               PROVE  Contract!Next \/ UNCHANGED LiveOf(mgr)
    OBVIOUS
  <2>1. ASSUME NEW v \in Vpns, NEW a \in Asns, NEW k \in Kinds, NEW pfn \in Pfns,
               Fill(v, a, k[1], k[2], pfn)
        PROVE  Contract!Next
    <3>1. Contract!Fill(TranslationOf(v, a, k[1], k[2], pfn))
      BY <2>1, FillKeepsContract
    <3>2. TranslationOf(v, a, k[1], k[2], pfn)
            \in [vpn : Vpns, asn : Asns, gh : Ghs, asm : BOOLEAN, pfn : Pfns]
      <4>1. k[1] \in Ghs /\ k[2] \in BOOLEAN
        BY ManagerAssumption
      <4>2. MaskVpn(v, k[1]) \in Vpns
        BY <4>1, SpamAssumption
      <4> QED
        BY <4>1, <4>2 DEF TranslationOf
    <3> QED
      BY <3>1, <3>2, Zenon DEF Contract!Next
  <2>2. CASE TbInvalidateAll \/ Clear
    BY <2>2, FlushAllKeepsContract DEF Contract!Next
  <2>3. CASE TbInvalidateAllProcess
    BY <2>3, FlushProcessKeepsContract DEF Contract!Next
  <2>4. ASSUME NEW v \in Vpns, NEW a \in Asns, TbInvalidateSingle(v, a)
        PROVE  Contract!Next
    BY <2>4, FlushSingleKeepsContract DEF Contract!Next
  <2>5. CASE UNCHANGED mgr
    BY <2>5
  <2> QED
    BY <2>1, <2>2, <2>3, <2>4, <2>5 DEF Next
<1> QED
  BY <1>1, InitMeetsContract, TypeCorrect, EntriesArePlaced, PTL
  DEF Spec, Contract!Spec

-----------------------------------------------------------------------------
(* Two processes and the refill of the buffers.                            *)

\* The refill works on the buffer of this module.
LEMMA SameBuffer ==
  /\ Refill!ClearManager = ClearManager
  /\ \A m, v, a : Refill!Lookup(m, v, a) = Lookup(m, v, a)
  /\ \A m, v, a, gh, asm, pfn :
       Refill!Insert(m, v, a, gh, asm, pfn) = Insert(m, v, a, gh, asm, pfn)
  /\ \A m, v, a : Refill!InvalidateSingle(m, v, a) = InvalidateSingle(m, v, a)
<1>0. /\ Refill!Ghs = Ghs /\ Refill!Slots = Slots
  BY DEF Refill!Ghs, Ghs, Refill!Slots, Slots
<1>1. \A v, gh : Refill!MaskVpn(v, gh) = MaskVpn(v, gh)
  BY DEF Refill!MaskVpn, MaskVpn
<1>2. \A e, v, a : Refill!Matches(e, v, a) <=> Matches(e, v, a)
  BY <1>1 DEF Refill!Matches, Matches
<1>3. \A m, e : Refill!IsLive(m, e) <=> IsLive(m, e)
  BY DEF Refill!IsLive, IsLive
<1>4. \A m, v, a, x : Refill!Probed(m, v, a, x) = Probed(m, v, a, x)
  BY <1>1 DEF Refill!Probed, Probed
<1>5. \A m, v, a : Refill!Hits(m, v, a) = Hits(m, v, a)
  BY <1>0, <1>2, <1>3, <1>4 DEF Refill!Hits, Hits
<1>f. \A m, v, a : Refill!FirstHit(m, v, a) = FirstHit(m, v, a)
  BY <1>5, Zenon DEF Refill!FirstHit, FirstHit
<1>6. \A m, v, a : Refill!Lookup(m, v, a) = Lookup(m, v, a)
  BY <1>4, <1>5, <1>f, Zenon DEF Refill!Lookup, Lookup
<1>7. \A m, s : Refill!Victim(m, s) = Victim(m, s)
  BY <1>0 DEF Refill!Victim, Victim
<1>n. \A m, v, a, gh, asm, pfn :
        Refill!NewEntry(m, v, a, gh, asm, pfn) = NewEntry(m, v, a, gh, asm, pfn)
  BY <1>1, Zenon DEF Refill!NewEntry, NewEntry
<1>p. \A m, s, e : Refill!PutEntry(m, s, e) = PutEntry(m, s, e)
  BY <1>7, Zenon DEF Refill!PutEntry, PutEntry
<1>8. \A m, v, a, gh, asm, pfn :
        Refill!Insert(m, v, a, gh, asm, pfn) = Insert(m, v, a, gh, asm, pfn)
  BY <1>1, <1>n, <1>p, Zenon DEF Refill!Insert, Insert
<1>9. \A m, v, a : Refill!InvalidateSingle(m, v, a) = InvalidateSingle(m, v, a)
  BY <1>0, <1>1, <1>2 DEF Refill!InvalidateSingle, InvalidateSingle
<1> QED
  BY <1>0, <1>6, <1>8, <1>9 DEF Refill!ClearManager, ClearManager

\* The guest gives each process an address space of its own.
GuestAssumption ==
  /\ 0 \in Asns /\ AsnOf \in [Procs -> Asns]
  /\ \A p, q \in Procs : AsnOf[p] = AsnOf[q] => p = q
  /\ None \notin [side : Refill!Sides, vpn : Vpns]

\* A buffer of this guest: frames are named by process and version.
Buffers == ManagersOf(Procs \X Nat)

\* An entry of the data buffer: it sits where its page is looked up, for one
\* address space, and maps the page as that process's table does now.
OwnEntry(s, e, ver) ==
  /\ e.gh = 0 /\ ~e.asm
  /\ s = ShardOf(e.vpn, e.asn)
  /\ \A p \in Procs : AsnOf[p] = e.asn => e.pfn = <<p, ver[p][e.vpn]>>

RefillTypes ==
  /\ tb \in [Refill!Sides -> Buffers]
  /\ cur \in Procs
  /\ version \in [Procs -> [Vpns -> Nat]]
  /\ tag \in [Refill!Sides -> Vpns \union {0}]
  /\ access \in [side : Refill!Sides, vpn : Vpns] \union {None}

\* The strengthening: the banks follow the running process, a fill under way
\* has its page staged, and every entry is its process's own.
RefillInv ==
  /\ RefillTypes
  /\ asn = 0 /\ dtbAsn = [b \in Refill!Banks |-> AsnOf[cur]]
  /\ flow # "native" => access # None
  /\ flow = "fill" => tag[access.side] = access.vpn
  /\ \A s \in Shards, w \in Slots :
       tb["D"].slot[s][w] # None => OwnEntry(s, tb["D"].slot[s][w], version)

LEMMA RefillInit ==
  ASSUME GuestAssumption, Refill!Init
  PROVE  RefillInv
<1>1. tb = [x \in Refill!Sides |-> ClearManager]
  BY SameBuffer DEF Refill!Init
<1>2. tb \in [Refill!Sides -> Buffers]
  BY <1>1, ClearType DEF Buffers
<1>3. \A s \in Shards, w \in Slots : tb["D"].slot[s][w] = None
  BY <1>1 DEF Refill!Sides, ClearManager
<1>4. /\ cur \in Procs /\ AsnOf[cur] = 0 /\ asn = 0
      /\ dtbAsn = [b \in Refill!Banks |-> 0] /\ access = None /\ flow = "native"
      /\ version \in [Procs -> [Vpns -> Nat]]
      /\ tag \in [Refill!Sides -> Vpns \union {0}]
  BY DEF Refill!Init
<1> QED
  BY <1>2, <1>3, <1>4, Zenon DEF RefillInv, RefillTypes

\* A fill for the running process, with its page staged.
LEMMA InsertKeeps ==
  ASSUME GuestAssumption, NEW m \in Buffers, NEW v \in Vpns, cur \in Procs,
         version \in [Procs -> [Vpns -> Nat]],
         \A s \in Shards, w \in Slots :
           m.slot[s][w] # None => OwnEntry(s, m.slot[s][w], version)
  PROVE  LET n == Insert(m, v, AsnOf[cur], 0, FALSE, Refill!Frame(cur, v)) IN
         /\ n \in Buffers
         /\ \A s \in Shards, w \in Slots :
              n.slot[s][w] # None => OwnEntry(s, n.slot[s][w], version)
<1> DEFINE a == AsnOf[cur]
           f == Refill!Frame(cur, v)
           e == NewEntry(m, v, a, 0, FALSE, f)
           h == ShardOf(MaskVpn(v, 0), a)
           n == Insert(m, v, a, 0, FALSE, f)
<1>1. a \in Asns /\ f \in Procs \X Nat /\ 0 \in Ghs
  BY SpamAssumption DEF GuestAssumption, Refill!Frame, Ghs
<1>2. MaskVpn(v, 0) = v
  BY SpamAssumption
<1>3. e \in EntriesOf(Procs \X Nat) /\ h \in Shards
  BY <1>1, NewEntryType DEF Buffers
<1>4. n = PutEntry(m, h, e)
  BY DEF Insert
<1>5. OwnEntry(h, e, version)
  <2>1. /\ e.gh = 0 /\ ~e.asm /\ e.vpn = v /\ e.asn = a /\ e.pfn = f
    BY <1>2 DEF NewEntry
  <2>2. \A p \in Procs : AsnOf[p] = a => f = <<p, version[p][v]>>
    BY DEF GuestAssumption, Refill!Frame
  <2> HIDE DEF e, f
  <2> QED
    BY <1>2, <2>1, <2>2 DEF OwnEntry
<1> HIDE DEF e, h, n
<1>6. /\ n \in Buffers
      /\ \A s \in Shards, w \in Slots :
           n.slot[s][w] = IF s = h /\ w = Victim(m, h) THEN e ELSE m.slot[s][w]
  BY <1>3, <1>4, PutEntryExact DEF Buffers
<1>7. \A s \in Shards, w \in Slots :
        n.slot[s][w] # None => OwnEntry(s, n.slot[s][w], version)
  BY <1>5, <1>6
<1> QED
  BY <1>6, <1>7 DEF n

\* TBIS leaves no entry of the page in the running process's address space.
LEMMA InvalidateKeeps ==
  ASSUME GuestAssumption, NEW m \in Buffers, NEW v \in Vpns, NEW a \in Asns,
         \A s \in Shards, w \in Slots :
           m.slot[s][w] # None => OwnEntry(s, m.slot[s][w], version)
  PROVE  /\ InvalidateSingle(m, v, a) \in Buffers
         /\ \A s \in Shards, w \in Slots :
              LET e == InvalidateSingle(m, v, a).slot[s][w] IN
              e # None => OwnEntry(s, e, version) /\ ~(e.vpn = v /\ e.asn = a)
<1>1. /\ InvalidateSingle(m, v, a) \in Buffers
      /\ \A s \in Shards, w \in Slots :
           InvalidateSingle(m, v, a).slot[s][w] =
             IF /\ \E gh \in Ghs : s = ShardOf(MaskVpn(v, gh), a)
                /\ Matches(m.slot[s][w], v, a)
             THEN None ELSE m.slot[s][w]
  BY InvalidateSingleExact DEF Buffers
<1>2. ASSUME NEW s \in Shards, NEW w \in Slots, m.slot[s][w] # None,
             m.slot[s][w].vpn = v, m.slot[s][w].asn = a
      PROVE  /\ \E gh \in Ghs : s = ShardOf(MaskVpn(v, gh), a)
             /\ Matches(m.slot[s][w], v, a)
  <2>1. OwnEntry(s, m.slot[s][w], version)
    BY <1>2
  <2>2. MaskVpn(v, 0) = v /\ 0 \in Ghs
    BY SpamAssumption DEF Ghs
  <2> QED
    BY <1>2, <2>1, <2>2 DEF OwnEntry, Matches
<1> QED
  BY <1>1, <1>2

LEMMA RefillNext ==
  ASSUME GuestAssumption, RefillInv, [Refill!Next]_(Refill!vars)
  PROVE  RefillInv'
<1>t. RefillTypes /\ "D" \in Refill!Sides /\ "I" \in Refill!Sides
  BY DEF RefillInv, Refill!Sides
<1>a. /\ cur \in Procs /\ AsnOf[cur] \in Asns /\ asn \in Asns
      /\ dtbAsn[0] = AsnOf[cur] /\ dtbAsn[1] = AsnOf[cur]
      /\ tb["D"] \in Buffers /\ tb["I"] \in Buffers
      /\ version \in [Procs -> [Vpns -> Nat]]
  BY <1>t DEF RefillInv, RefillTypes, GuestAssumption, Refill!Banks
<1>own. \A s \in Shards, w \in Slots :
          tb["D"].slot[s][w] # None => OwnEntry(s, tb["D"].slot[s][w], version)
  BY DEF RefillInv
<1>1. ASSUME NEW x \in Refill!Sides, NEW v \in Vpns, Refill!Begin(x, v)
      PROVE  RefillInv'
  BY <1>1 DEF RefillInv, RefillTypes, Refill!Begin
<1>2. CASE Refill!Hit \/ Refill!Miss \/ Refill!Retry
  BY <1>2 DEF RefillInv, RefillTypes, Refill!Hit, Refill!Miss, Refill!Retry
<1>3. CASE Refill!StageTag
  BY <1>3 DEF RefillInv, RefillTypes, Refill!StageTag
<1>4. CASE Refill!WritePte
  <2>0. /\ access \in [side : Refill!Sides, vpn : Vpns]
        /\ access.side \in Refill!Sides /\ access.vpn \in Vpns
        /\ tag[access.side] = access.vpn
    BY <1>4 DEF RefillInv, RefillTypes, Refill!WritePte
  <2> DEFINE I(m, a) == Insert(m, access.vpn, a, 0, FALSE, Refill!Frame(cur, access.vpn))
  <2>1. /\ flow' = "return" /\ UNCHANGED <<asn, dtbAsn, tag, cur, version, access>>
        /\ tb' = [tb EXCEPT ![access.side] =
                   IF access.side = "I" THEN I(tb["I"], asn)
                   ELSE I(I(tb["D"], AsnOf[cur]), AsnOf[cur])]
    <3>1. CASE access.side = "I"
      BY <1>4, <2>0, <3>1, SameBuffer DEF Refill!WritePte, Refill!InsertFor
    <3>2. CASE access.side = "D"
      BY <1>4, <1>a, <2>0, <3>2, SameBuffer DEF Refill!WritePte, Refill!InsertFor
    <3> QED
      BY <2>0, <3>1, <3>2 DEF Refill!Sides
  <2>2. I(tb["I"], asn) \in Buffers
    <3>1. Refill!Frame(cur, access.vpn) \in Procs \X Nat /\ 0 \in Ghs
      BY <1>a, <2>0, SpamAssumption DEF GuestAssumption, Refill!Frame, Ghs
    <3> DEFINE e == NewEntry(tb["I"], access.vpn, asn, 0, FALSE,
                             Refill!Frame(cur, access.vpn))
    <3>2. /\ tb["I"] \in ManagersOf(Procs \X Nat)
          /\ e \in EntriesOf(Procs \X Nat)
          /\ ShardOf(MaskVpn(access.vpn, 0), asn) \in Shards
      BY <1>a, <2>0, <3>1, NewEntryType DEF Buffers
    <3>3. I(tb["I"], asn) = PutEntry(tb["I"], ShardOf(MaskVpn(access.vpn, 0), asn), e)
      BY DEF Insert
    <3> HIDE DEF e, I
    <3> QED
      BY <3>2, <3>3, PutEntryExact DEF Buffers
  <2> HIDE DEF I
  <2>3. /\ I(tb["D"], AsnOf[cur]) \in Buffers
        /\ \A s \in Shards, w \in Slots :
             I(tb["D"], AsnOf[cur]).slot[s][w] # None =>
               OwnEntry(s, I(tb["D"], AsnOf[cur]).slot[s][w], version)
    BY <1>a, <1>own, <2>0, InsertKeeps DEF I
  <2> DEFINE d == I(I(tb["D"], AsnOf[cur]), AsnOf[cur])
  <2>4. /\ d \in Buffers
        /\ \A s \in Shards, w \in Slots :
             d.slot[s][w] # None => OwnEntry(s, d.slot[s][w], version)
    BY <1>a, <2>0, <2>3, InsertKeeps DEF I
  <2> HIDE DEF d
  <2>5. /\ tb' \in [Refill!Sides -> Buffers]
        /\ tb'["D"] = d \/ tb'["D"] = tb["D"]
    <3>0. tb \in [Refill!Sides -> Buffers]
      BY <1>t DEF RefillTypes
    <3>1. CASE access.side = "I"
      BY <1>t, <2>1, <2>2, <3>0, <3>1
    <3>2. CASE access.side = "D"
      BY <1>t, <2>1, <2>4, <3>0, <3>2 DEF d
    <3> QED
      BY <2>0, <3>1, <3>2 DEF Refill!Sides
  <2>6. \A s \in Shards, w \in Slots :
          tb'["D"].slot[s][w] # None => OwnEntry(s, tb'["D"].slot[s][w], version)
    BY <1>own, <2>4, <2>5
  <2>7. RefillTypes'
    BY <1>t, <2>1, <2>5, Zenon DEF RefillTypes
  <2>8. /\ asn' = 0 /\ dtbAsn' = [b \in Refill!Banks |-> AsnOf[cur']]
    BY <2>1, Zenon DEF RefillInv
  <2>9. access' # None /\ flow' # "fill"
    BY <2>0, <2>1 DEF GuestAssumption
  <2>10. \A s \in Shards, w \in Slots :
           tb'["D"].slot[s][w] # None => OwnEntry(s, tb'["D"].slot[s][w], version')
    BY <2>1, <2>6
  <2> HIDE DEF d
  <2> QED
    BY <2>7, <2>8, <2>9, <2>10, Zenon DEF RefillInv
<1>5. ASSUME NEW p \in Procs, Refill!SwitchTo(p)
      PROVE  RefillInv'
  BY <1>5 DEF RefillInv, RefillTypes, Refill!SwitchTo
<1>6. ASSUME NEW v \in Vpns, Refill!Remap(v)
      PROVE  RefillInv'
  <2> DEFINE a == AsnOf[cur]
             d == InvalidateSingle(InvalidateSingle(tb["D"], v, a), v, a)
  <2>1. /\ flow = "native" /\ UNCHANGED <<asn, dtbAsn, tag, cur, access, flow>>
        /\ version' = [version EXCEPT ![cur][v] = @ + 1]
        /\ tb' = [x \in Refill!Sides |->
                   IF x = "I" THEN InvalidateSingle(tb[x], v, asn)
                   ELSE InvalidateSingle(InvalidateSingle(tb[x], v, a), v, a)]
    BY <1>6, <1>a, SameBuffer DEF Refill!Remap
  <2>2. /\ version' \in [Procs -> [Vpns -> Nat]]
        /\ \A p \in Procs, u \in Vpns :
             p # cur \/ u # v => version'[p][u] = version[p][u]
    BY <1>a, <2>1
  <2>3. InvalidateSingle(tb["I"], v, asn) \in Buffers
    BY <1>a, InvalidateSingleExact DEF Buffers
  <2>4. /\ d \in Buffers
        /\ \A s \in Shards, w \in Slots :
             d.slot[s][w] # None => /\ OwnEntry(s, d.slot[s][w], version)
                                    /\ ~(d.slot[s][w].vpn = v /\ d.slot[s][w].asn = a)
    <3> DEFINE c == InvalidateSingle(tb["D"], v, a)
    <3>1. /\ c \in Buffers
          /\ \A s \in Shards, w \in Slots :
               c.slot[s][w] # None => OwnEntry(s, c.slot[s][w], version)
      BY <1>a, <1>own, InvalidateKeeps
    <3> HIDE DEF c
    <3>2. d = InvalidateSingle(c, v, a)
      BY DEF c
    <3> QED
      BY <1>a, <3>1, <3>2, InvalidateKeeps
  <2>5. tb' \in [Refill!Sides -> Buffers] /\ tb'["D"] = d
    <3> HIDE DEF d
    <3>1. tb'["D"] = d /\ tb'["I"] = InvalidateSingle(tb["I"], v, asn)
      BY <1>t, <2>1 DEF d
    <3>2. \A x \in Refill!Sides : tb'[x] \in Buffers
      BY <2>3, <2>4, <3>1 DEF Refill!Sides
    <3> QED
      BY <2>1, <3>1, <3>2
  <2> HIDE DEF d
  <2>6. ASSUME NEW s \in Shards, NEW w \in Slots, d.slot[s][w] # None
        PROVE  OwnEntry(s, d.slot[s][w], version')
    <3> DEFINE e == d.slot[s][w]
    <3>1. OwnEntry(s, e, version) /\ ~(e.vpn = v /\ e.asn = a) /\ e.vpn \in Vpns
      BY <2>4, <2>6 DEF Buffers, ManagersOf, EntriesOf
    <3>2. \A p \in Procs : AsnOf[p] = e.asn =>
            version'[p][e.vpn] = version[p][e.vpn]
      BY <2>2, <3>1
    <3> QED
      BY <3>1, <3>2, <2>1, <2>5 DEF OwnEntry
  <2> QED
    BY <2>1, <2>2, <2>5, <2>6 DEF RefillInv, RefillTypes
<1>7. CASE UNCHANGED Refill!vars
  BY <1>7 DEF RefillInv, RefillTypes, Refill!vars
<1> QED
  BY <1>1, <1>2, <1>3, <1>4, <1>5, <1>6, <1>7 DEF Refill!Next, Refill!Step

(* Whatever fills, context switches, page-table changes and TBIS came       *)
(* before, a process whose ASN is CpuState::asn hits its own current        *)
(* mappings in the data buffer, for any number of processes, pages, shards  *)
(* and ways, when no two processes share an ASN.                            *)
THEOREM DataStaysOwn ==
  ASSUME GuestAssumption
  PROVE  Refill!Spec => []DataIsOwn
<1>1. RefillInv => DataIsOwn
  <2> SUFFICES ASSUME RefillInv, AsnOf[cur] = asn, NEW v \in Vpns,
                      Lookup(tb["D"], v, asn) # None
               PROVE  Lookup(tb["D"], v, asn).pfn = Refill!Frame(cur, v)
    BY SameBuffer DEF DataIsOwn, Refill!DataIsOwn, Refill!HitsOwn
  <2> DEFINE x == FirstHit(tb["D"], v, asn)
             s == ShardOf(MaskVpn(v, x[1]), asn)
             e == Lookup(tb["D"], v, asn)
  <2>1. x \in Hits(tb["D"], v, asn) /\ e = Probed(tb["D"], v, asn, x)
    BY FirstHitHits DEF Lookup
  <2> HIDE DEF x
  <2>2. x[1] \in Ghs /\ x[2] \in Slots /\ Matches(e, v, asn)
    BY <2>1 DEF Hits
  <2>3. s \in Shards /\ e = tb["D"].slot[s][x[2]]
    BY <2>1, <2>2, SpamAssumption DEF Probed, RefillInv, GuestAssumption
  <2> HIDE DEF s, e
  <2>4. OwnEntry(s, e, version)
    BY <2>2, <2>3 DEF RefillInv, Matches
  <2>5. e.vpn = v /\ e.asn = asn
    BY <2>2, <2>4, SpamAssumption DEF Matches, OwnEntry
  <2>6. cur \in Procs
    BY DEF RefillInv, RefillTypes
  <2> QED
    BY <2>4, <2>5, <2>6 DEF OwnEntry, Refill!Frame, e
<1> QED
  BY <1>1, RefillInit, RefillNext, PTL DEF Refill!Spec
=============================================================================
