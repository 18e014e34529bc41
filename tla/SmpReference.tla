---------------------------- MODULE SmpReference ----------------------------
(***************************************************************************)
(* What schedLib promises of a run (SmpHarness.h, header contract): time   *)
(* advances one quantum at a time; in a quantum every runnable agent takes *)
(* exactly one step on its private state, then the staged effects are      *)
(* applied once, in agent order.  A call of Dispatcher::run does this      *)
(* until untilTick or until no agent can run, and not once more.  A call   *)
(* with nothing to do may or may not perform one quantum: ThreadedDriver   *)
(* tests for the end only after a quantum, SequentialDriver before it.     *)
(*                                                                         *)
(* Agents are of two kinds: schedLib/MockCpuAgent.h, the LL/SC workload of *)
(* the determinism tests, and schedLib/AlphaCpuAgent, a real processor     *)
(* that stages nothing and stops by itself when its machine halts.  The    *)
(* definitions of this module are the harness and the agents; its          *)
(* specification is the promise, one quantum per step.                     *)
(***************************************************************************)
EXTENDS LockTable, Naturals, Sequences, SequencesExt

CONSTANTS N,           \* number of registered agents
          LockEveryN,  \* lockEveryN: one LL/SC transaction per this many calls
          LockAddr,    \* LockAddr[a]: sharedLockAddr of agent a
          AlphaCycles, \* AlphaCycles[a]: stepCycle calls of AlphaCpuAgent a
                       \* before one returns false; mock agents not in domain
          Quantum,     \* Dispatcher quantum
          Untils,      \* the untilTick arguments run() is called with
          MaxLog,      \* bound: no new call once a grant log is this long
          MaxNow       \* bound: no new call once the clock is this far

AgentIds == 1..N

----------------------------------------------------------------------------
(* MockCpuAgent.  m_callCount matters only modulo lockEveryN; m_counter and   *)
(* m_rng are private arithmetic no other agent sees and are left out.         *)

IsAlpha(a) == a \in DOMAIN AlphaCycles

NewAgent(a) == [calls |-> 0, tx |-> "Idle", lastScOk |-> FALSE,
                log |-> <<>>, halted |-> FALSE,
                left |-> IF IsAlpha(a) THEN AlphaCycles[a] ELSE 0]

\* !m_halted of the mock; !m_stopped && !halted of the processor.
Runnable(ag) == ~ag.halted

\* MockCpuAgent::step, the private half.
StepMock(ag) ==
  LET c == (ag.calls + 1) % LockEveryN IN
  CASE ag.tx = "Idle" ->
         [ag EXCEPT !.calls = c, !.tx = IF c = 0 THEN "AwaitSc" ELSE "Idle"]
    [] ag.tx = "AwaitSc"  -> [ag EXCEPT !.calls = c, !.tx = "AwaitAck"]
    [] ag.tx = "AwaitAck" -> [ag EXCEPT !.calls = c, !.tx = "Idle",
                                        !.log = Append(@, ag.lastScOk)]

\* AlphaCpuAgent::step: up to Quantum stepCycle calls, stopping at a false.
StepAlpha(ag) ==
  IF ag.left < Quantum THEN [ag EXCEPT !.left = 0, !.halted = TRUE]
                       ELSE [ag EXCEPT !.left = @ - Quantum]

StepAgent(ag, a) == IF IsAlpha(a) THEN StepAlpha(ag) ELSE StepMock(ag)

\* MockCpuAgent::step, the effects it stages in its outbox.
StagedBy(ag, a) ==
  CASE IsAlpha(a) -> <<>>
    [] ag.tx = "Idle" /\ (ag.calls + 1) % LockEveryN = 0 ->
         <<[kind |-> "LoadLocked", source |-> a, addr |-> LockAddr[a]]>>
    [] ag.tx = "AwaitSc" ->
         <<[kind |-> "StoreCond", source |-> a, addr |-> LockAddr[a]]>>
    [] OTHER -> <<>>

\* Dispatcher::applyEffect on the shared state st = [res, agent].
ApplyEffect(st, e) ==
  CASE e.kind = "LoadLocked" ->
         [st EXCEPT !.res = LoadLockedT(@, e.source, e.addr)]
    [] e.kind = "StoreCond" ->
         [st EXCEPT !.res = StoreCondT(@, e.source, e.addr),
                    !.agent[e.source].lastScOk =
                        ScSucceeds(st.res, e.source, e.addr)]

\* Dispatcher::syncPhase: outboxes in agent order, each in submission order.
SyncPhase(res, agent, outbox) ==
  LET s == FoldLeft(ApplyEffect, [res |-> res, agent |-> agent],
                    FlattenSeq([a \in AgentIds |-> outbox[a]]))
  IN [res |-> s.res, agent |-> [a \in AgentIds |-> s.agent[a]]]

EmptyOutbox == [a \in AgentIds |-> <<>>]

----------------------------------------------------------------------------
VARIABLES agent,    \* the agents' private state
          res,      \* the arbiter's reservations
          now,      \* LogicalClock::m_now
          until,    \* untilTick of the current call
          running,  \* a Dispatcher::run call is in progress
          fresh     \* it has not performed a quantum yet

refVars == <<agent, res, now, until, running, fresh>>

RefInit ==
  /\ agent = [a \in AgentIds |-> NewAgent(a)]
  /\ res = [a \in AgentIds |-> None]
  /\ now = 0 /\ until = 0
  /\ running = FALSE /\ fresh = FALSE

WorkLeft == now < until /\ \E a \in AgentIds : Runnable(agent[a])

\* Dispatcher::run, the call.
CallAllowed ==
  /\ ~running
  /\ \A a \in AgentIds : Len(agent[a].log) < MaxLog
  /\ now < MaxNow

RefCall(u) ==
  /\ CallAllowed
  /\ running' = TRUE /\ fresh' = TRUE
  /\ until' = u
  /\ UNCHANGED <<agent, res, now>>

\* One whole quantum.
RefQuantum ==
  /\ running /\ (WorkLeft \/ fresh)
  /\ LET stepped == [a \in AgentIds |-> IF Runnable(agent[a])
                                      THEN StepAgent(agent[a], a) ELSE agent[a]]
         outbox  == [a \in AgentIds |-> IF Runnable(agent[a])
                                      THEN StagedBy(agent[a], a) ELSE <<>>]
         s == SyncPhase(res, stepped, outbox)
     IN agent' = s.agent /\ res' = s.res
  /\ now' = now + Quantum
  /\ fresh' = FALSE
  /\ UNCHANGED <<until, running>>

RefReturn ==
  /\ running /\ ~WorkLeft
  /\ running' = FALSE /\ fresh' = FALSE
  /\ UNCHANGED <<agent, res, now, until>>

\* Between calls: halt(), release() of a mock agent, resetForRun of a real
\* one (clears m_stopped); Dispatcher::reset.
RefPark(a) ==
  /\ ~running
  /\ IsAlpha(a) => agent[a].halted
  /\ agent' = [agent EXCEPT ![a].halted = ~@]
  /\ UNCHANGED <<res, now, until, running, fresh>>

RefReset ==
  /\ ~running
  /\ now' = 0
  /\ res' = [a \in AgentIds |-> None]
  /\ UNCHANGED <<agent, until, running, fresh>>

RefNext ==
  \/ \E u \in Untils : RefCall(u)
  \/ RefQuantum
  \/ RefReturn
  \/ \E a \in AgentIds : RefPark(a)
  \/ RefReset

RefSpec == RefInit /\ [][RefNext]_refVars
=============================================================================
