---------------------------- MODULE LockArbiter ----------------------------
(***************************************************************************)
(* schedLib/SmpHarness.h, class LockArbiter: the table of LDx_L / STx_C    *)
(* reservations.  An agent holds at most one reservation (a map keyed by   *)
(* the agent); any store to a granule, conditional or plain, drops every   *)
(* reservation that names it.                                              *)
(*                                                                         *)
(* lastLL and stored are history variables: the granule of each agent's    *)
(* most recent LDx_L, and the set of <<agent, granule>> pairs whose granule*)
(* was stored to since that agent last load-locked it.  No action reads    *)
(* them; the properties do.                                                *)
(***************************************************************************)
EXTENDS LockTable

CONSTANTS Agents,   \* AgentId: the processors
          Addrs     \* lock granules

ASSUME NoneAssumption == None \notin Addrs

VARIABLES reservation,  \* m_reservation
          ack,          \* result of each agent's last storeCond (*ackSuccess)
          lastLL,       \* history
          stored        \* history

vars == <<reservation, ack, lastLL, stored>>

----------------------------------------------------------------------------
Init ==
  /\ reservation = [a \in Agents |-> None]
  /\ ack = [a \in Agents |-> FALSE]
  /\ lastLL = [a \in Agents |-> None]
  /\ stored = Agents \X Addrs

LoadLocked(a, addr) ==
  /\ reservation' = LoadLockedT(reservation, a, addr)
  /\ lastLL' = [lastLL EXCEPT ![a] = addr]
  /\ stored' = stored \ {<<a, addr>>}
  /\ UNCHANGED ack

StoreCond(a, addr) ==
  LET ok == ScSucceeds(reservation, a, addr) IN
  /\ reservation' = StoreCondT(reservation, a, addr)
  /\ ack' = [ack EXCEPT ![a] = ok]
  /\ stored' = IF ok THEN stored \cup (Agents \X {addr}) ELSE stored
  /\ UNCHANGED lastLL

Store(a, addr) ==
  /\ reservation' = StoreT(reservation, a, addr)
  /\ stored' = stored \cup (Agents \X {addr})
  /\ UNCHANGED <<ack, lastLL>>

\* LockArbiter::reset (from Dispatcher::reset).
Reset ==
  /\ reservation' = [a \in Agents |-> None]
  /\ lastLL' = [a \in Agents |-> None]
  /\ stored' = Agents \X Addrs
  /\ UNCHANGED ack

Next ==
  \/ \E a \in Agents, addr \in Addrs :
        LoadLocked(a, addr) \/ StoreCond(a, addr) \/ Store(a, addr)
  \/ Reset

Spec == Init /\ [][Next]_vars

----------------------------------------------------------------------------
(* Types of the table and of the history. *)
TypeOK ==
  /\ reservation \in [Agents -> Addrs \cup {None}]
  /\ ack \in [Agents -> BOOLEAN]
  /\ lastLL \in [Agents -> Addrs \cup {None}]
  /\ stored \subseteq Agents \X Addrs

(* The table is exactly what the history justifies: a holds a reservation on  *)
(* addr when addr is the granule of its latest LDx_L and nobody has stored to *)
(* addr since; in every other case it holds none.  (LockArbiter's comment:    *)
(* "succeeds iff a's reservation on addr is still valid".)                    *)
ReservationExact ==
  \A a \in Agents, addr \in Addrs :
    reservation[a] = addr <=> (lastLL[a] = addr /\ <<a, addr>> \notin stored)

(* LL/SC atomicity as the processors see it: an STx_C that reports success    *)
(* follows an LDx_L of the same agent on the same granule with no store by    *)
(* anyone in between.  So of two agents that load-locked a granule, only the  *)
(* first to store wins ("exactly one winner per contended round").            *)
ScAtomic ==
  [][\A a \in Agents, addr \in Addrs :
        StoreCond(a, addr) /\ ack'[a]
          => lastLL[a] = addr /\ <<a, addr>> \notin stored]_vars
============================================================================
