----------------------------- MODULE LockTable -----------------------------
(***************************************************************************)
(* schedLib/SmpHarness.h, class LockArbiter: its operations as functions   *)
(* of the reservation table, a function from agents to the reserved        *)
(* granule (None: the agent is not a key of m_reservation).                *)
(***************************************************************************)
CONSTANT None

\* loadLocked: sets or re-arms a's own reservation, nobody else's.
LoadLockedT(res, a, addr) == [res EXCEPT ![a] = addr]

\* Mutant: only one holder is dropped.
ClearGranuleOneHolder(res, addr) ==
  LET held == {b \in DOMAIN res : res[b] = addr}
      one  == CHOOSE b \in held : TRUE
  IN  [b \in DOMAIN res |-> IF b \in held /\ b = one THEN None ELSE res[b]]

\* clearGranule: every reservation that names addr is erased.
ClearGranule(res, addr) ==
  [b \in DOMAIN res |-> IF res[b] = addr THEN None ELSE res[b]]

\* Mutant: any reservation will do, whatever granule it names.
ScSucceedsAnyGranule(res, a, addr) == res[a] # None

\* storeCond's test.
ScSucceeds(res, a, addr) == res[a] = addr

StoreCondT(res, a, addr) ==
  IF ScSucceeds(res, a, addr) THEN ClearGranule(res, addr) ELSE res

StoreT(res, a, addr) == ClearGranule(res, addr)
============================================================================
