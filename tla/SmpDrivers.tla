----------------------------- MODULE SmpDrivers -----------------------------
(***************************************************************************)
(* schedLib/SmpDrivers.h: the two execution policies a Dispatcher can run  *)
(* its agents with.  SequentialDriver steps the runnable agents one by one *)
(* on one host thread; ThreadedDriver gives every agent a host thread and  *)
(* meets at a std::barrier whose completion function runs syncPhase, the   *)
(* clock advance and the termination test.                                 *)
(*                                                                         *)
(* quantumBase is a history variable: the agents as they were when the     *)
(* current quantum began.  It is the refinement mapping for agent.         *)
(***************************************************************************)
EXTENDS SmpReference

VARIABLES driver,    \* "sequential" or "threaded" during a call, else None
          outbox,    \* IAgent::m_outbox
          idx,       \* sequential: 0 = loop test, 1..N = next agent, N+1 = sync
          any,       \* sequential: anyRunnable
          tpc,       \* threaded: "top", "barrier" or "exited" of each thread
          done,      \* threaded: the atomic flag
          quantumBase

vars == <<agent, res, now, until, running, fresh,
          driver, outbox, idx, any, tpc, done, quantumBase>>

Init ==
  /\ RefInit
  /\ driver = None
  /\ outbox = EmptyOutbox
  /\ idx = 0 /\ any = FALSE
  /\ tpc = [a \in AgentIds |-> "exited"]
  /\ done = FALSE
  /\ quantumBase = agent

----------------------------------------------------------------------------
(* Dispatcher: setDriver + run, reset, and parking of agents between runs. *)

Call(d, u) ==
  /\ CallAllowed
  /\ running' = TRUE /\ fresh' = TRUE /\ until' = u /\ driver' = d
  /\ idx' = 0 /\ any' = FALSE /\ done' = FALSE
  /\ tpc' = [a \in AgentIds |-> IF d = "threaded" THEN "top" ELSE "exited"]
  /\ UNCHANGED <<agent, res, now, outbox, quantumBase>>

\* The driver returns; its locals go out of scope.
Return ==
  /\ running' = FALSE /\ fresh' = FALSE
  /\ driver' = None /\ idx' = 0 /\ any' = FALSE /\ done' = FALSE
  /\ UNCHANGED <<agent, res, now, until, outbox, tpc, quantumBase>>

Park(a) ==
  /\ RefPark(a)
  /\ quantumBase' = agent'
  /\ UNCHANGED <<driver, outbox, idx, any, tpc, done>>

Reset ==
  /\ RefReset
  /\ outbox' = EmptyOutbox
  /\ UNCHANGED <<driver, idx, any, tpc, done, quantumBase>>

\* if (a->runnable()) a->step(quantum): private state and own outbox only.
StepIfRunnable(a) ==
  IF Runnable(agent[a])
  THEN /\ agent' = [agent EXCEPT ![a] = StepAgent(@, a)]
       /\ outbox' = [outbox EXCEPT ![a] = @ \o StagedBy(agent[a], a)]
  ELSE UNCHANGED <<agent, outbox>>

\* d.syncPhase(); d.clock().advance(d.quantum())
SyncAndAdvance ==
  LET s == SyncPhase(res, agent, outbox) IN
  /\ agent' = s.agent /\ res' = s.res
  /\ outbox' = EmptyOutbox
  /\ now' = now + Quantum
  /\ fresh' = FALSE
  /\ quantumBase' = s.agent

----------------------------------------------------------------------------
(* SequentialDriver::run *)

SeqLoopTest ==
  /\ running /\ driver = "sequential" /\ idx = 0
  /\ \/ /\ now < until
        /\ idx' = 1 /\ any' = FALSE
        /\ UNCHANGED <<agent, res, now, until, running, fresh, driver, outbox,
                       tpc, done, quantumBase>>
     \/ now >= until /\ Return

SeqStep ==
  /\ running /\ driver = "sequential" /\ idx \in AgentIds
  /\ StepIfRunnable(idx)
  /\ any' = (any \/ Runnable(agent[idx]))
  /\ idx' = idx + 1
  /\ UNCHANGED <<res, now, until, running, fresh, driver, tpc, done,
                 quantumBase>>

SeqSync ==
  /\ running /\ driver = "sequential" /\ idx = N + 1
  /\ \/ ~any /\ Return
     \/ /\ any
        /\ SyncAndAdvance
        /\ idx' = 0
        /\ UNCHANGED <<until, running, driver, any, tpc, done>>

----------------------------------------------------------------------------
(* ThreadedDriver::run *)

\* Mutant: a parked agent's thread leaves instead of arriving at the barrier.
ThreadStepParkedLeaves(a) ==
  /\ running /\ driver = "threaded" /\ tpc[a] = "top" /\ ~done
  /\ StepIfRunnable(a)
  /\ tpc' = [tpc EXCEPT ![a] = IF Runnable(agent[a]) THEN "barrier" ELSE "exited"]
  /\ UNCHANGED <<res, now, until, running, fresh, driver, idx, any, done,
                 quantumBase>>

\* One turn of agent a's thread: step if runnable, then arrive_and_wait.
ThreadStep(a) ==
  /\ running /\ driver = "threaded" /\ tpc[a] = "top" /\ ~done
  /\ StepIfRunnable(a)
  /\ tpc' = [tpc EXCEPT ![a] = "barrier"]
  /\ UNCHANGED <<res, now, until, running, fresh, driver, idx, any, done,
                 quantumBase>>

ThreadExit(a) ==
  /\ running /\ driver = "threaded" /\ tpc[a] = "top" /\ done
  /\ tpc' = [tpc EXCEPT ![a] = "exited"]
  /\ UNCHANGED <<agent, res, now, until, running, fresh, driver, outbox, idx,
                 any, done, quantumBase>>

\* Mutant: only the tick limit ends the run.
OnBarrierTickOnly ==
  /\ running /\ driver = "threaded" /\ \A a \in AgentIds : tpc[a] = "barrier"
  /\ SyncAndAdvance
  /\ done' = (now' >= until)
  /\ tpc' = [a \in AgentIds |-> "top"]
  /\ UNCHANGED <<until, running, driver, idx, any>>

\* The completion function, then the release of every thread.
OnBarrier ==
  /\ running /\ driver = "threaded" /\ \A a \in AgentIds : tpc[a] = "barrier"
  /\ SyncAndAdvance
  /\ done' = (now' >= until \/ \A a \in AgentIds : ~Runnable(agent'[a]))
  /\ tpc' = [a \in AgentIds |-> "top"]
  /\ UNCHANGED <<until, running, driver, idx, any>>

\* The threads are joined when run() leaves its scope.
Join ==
  /\ running /\ driver = "threaded" /\ \A a \in AgentIds : tpc[a] = "exited"
  /\ Return

----------------------------------------------------------------------------
Run ==
  \/ SeqLoopTest \/ SeqStep \/ SeqSync
  \/ \E a \in AgentIds : ThreadStep(a) \/ ThreadExit(a)
  \/ OnBarrier \/ Join

Next ==
  \/ \E d \in {"sequential", "threaded"}, u \in Untils : Call(d, u)
  \/ Run
  \/ \E a \in AgentIds : Park(a)
  \/ Reset

\* Host threads are scheduled fairly; the caller may stop calling run().
Fairness ==
  /\ WF_vars(SeqLoopTest) /\ WF_vars(SeqStep) /\ WF_vars(SeqSync)
  /\ \A a \in 1..N : WF_vars(ThreadStep(a)) /\ WF_vars(ThreadExit(a))
  /\ WF_vars(OnBarrier) /\ WF_vars(Join)

Spec == Init /\ [][Next]_vars /\ Fairness

----------------------------------------------------------------------------
(* SmpHarness.h: "SequentialDriver and ThreadedDriver produce identical final  *)
(* state".  Whatever order the host runs the threads in, each driver performs  *)
(* exactly the quanta of the reference and leaves its state.                   *)
Ref == INSTANCE SmpReference WITH agent <- quantumBase
DriversMatchReference == Ref!RefSpec

(* SmpDrivers.h: the barrier's participant count is constant, so no thread is  *)
(* left waiting at it: every call of Dispatcher::run returns.                  *)
RunReturns == running ~> ~running
=============================================================================
