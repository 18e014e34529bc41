------------------------------ MODULE SmpProofs ------------------------------
(***************************************************************************)
(* The two reservation tables and the drivers.  LockArbiter: LL/SC         *)
(* atomicity for any set of agents and any set of granules.  LockMonitor:  *)
(* no lost update, for any placement of any number of threads on any       *)
(* number of CPUs.  SmpDrivers: both drivers perform the reference quanta. *)
(***************************************************************************)
EXTENDS MCSmp, Integers, Sequences, TLAPS

(* Every operation of LockArbiter keeps the table and its history typed.    *)
THEOREM TypeCorrect == Spec => []TypeOK
<1>1. Init => TypeOK
  BY DEF Init, TypeOK
<1>2. TypeOK /\ [Next]_vars => TypeOK'
  <2> SUFFICES ASSUME TypeOK, [Next]_vars PROVE TypeOK'
    OBVIOUS
  <2> USE DEF TypeOK
  <2>1. ASSUME NEW a \in Agents, NEW addr \in Addrs, LoadLocked(a, addr)
        PROVE  TypeOK'
    BY <2>1 DEF LoadLocked, LoadLockedT
  <2>2. ASSUME NEW a \in Agents, NEW addr \in Addrs, StoreCond(a, addr)
        PROVE  TypeOK'
    <3>1. reservation' \in [Agents -> Addrs \cup {None}]
      BY <2>2 DEF StoreCond, StoreCondT, ClearGranule
    <3>2. ScSucceeds(reservation, a, addr) \in BOOLEAN
      BY DEF ScSucceeds
    <3>3. ack' \in [Agents -> BOOLEAN]
      BY <2>2, <3>2 DEF StoreCond
    <3>4. stored' \subseteq Agents \X Addrs
      BY <2>2 DEF StoreCond
    <3> QED
      BY <2>2, <3>1, <3>3, <3>4 DEF StoreCond
  <2>3. ASSUME NEW a \in Agents, NEW addr \in Addrs, Store(a, addr)
        PROVE  TypeOK'
    BY <2>3 DEF Store, StoreT, ClearGranule
  <2>4. CASE Reset
    BY <2>4 DEF Reset
  <2>5. CASE UNCHANGED vars
    BY <2>5 DEF vars
  <2> QED
    BY <2>1, <2>2, <2>3, <2>4, <2>5 DEF Next
<1> QED
  BY <1>1, <1>2, PTL DEF Spec

(* The table is exact with respect to the history of load-locks and stores: *)
(* clearGranule drops every reservation it must and none it must not.       *)
THEOREM ReservationIsExact == Spec => []ReservationExact
<1>1. Init => ReservationExact
  BY NoneAssumption DEF Init, ReservationExact
<1>2. TypeOK /\ ReservationExact /\ [Next]_vars => ReservationExact'
  <2> SUFFICES ASSUME TypeOK, ReservationExact, [Next]_vars,
                      NEW b \in Agents, NEW x \in Addrs
               PROVE  reservation'[b] = x
                        <=> (lastLL'[b] = x /\ <<b, x>> \notin stored')
    BY DEF ReservationExact
  <2>0. reservation[b] = x <=> (lastLL[b] = x /\ <<b, x>> \notin stored)
    BY DEF ReservationExact
  <2> USE NoneAssumption DEF TypeOK
  <2>1. ASSUME NEW a \in Agents, NEW addr \in Addrs, LoadLocked(a, addr)
        PROVE  reservation'[b] = x
                 <=> (lastLL'[b] = x /\ <<b, x>> \notin stored')
    <3>1. CASE b = a /\ x = addr
      BY <2>1, <3>1 DEF LoadLocked, LoadLockedT
    <3>2. CASE b = a /\ x # addr
      BY <2>1, <3>2 DEF LoadLocked, LoadLockedT
    <3>3. CASE b # a
      <4>1. reservation'[b] = reservation[b] /\ lastLL'[b] = lastLL[b]
        BY <2>1, <3>3 DEF LoadLocked, LoadLockedT
      <4>2. <<b, x>> \in stored' <=> <<b, x>> \in stored
        BY <2>1, <3>3 DEF LoadLocked
      <4> QED
        BY <4>1, <4>2, <2>0
    <3> QED
      BY <3>1, <3>2, <3>3
  <2>2. ASSUME NEW addr \in Addrs,
               reservation' = ClearGranule(reservation, addr),
               stored' = stored \cup (Agents \X {addr}),
               lastLL' = lastLL
        PROVE  reservation'[b] = x
                 <=> (lastLL'[b] = x /\ <<b, x>> \notin stored')
    <3>1. reservation'[b] = IF reservation[b] = addr THEN None
                                                     ELSE reservation[b]
      BY <2>2 DEF ClearGranule
    <3>2. CASE x = addr
      BY <3>1, <3>2, <2>2
    <3>3. CASE x # addr
      BY <3>1, <3>3, <2>2, <2>0
    <3> QED
      BY <3>2, <3>3
  <2>3. ASSUME NEW a \in Agents, NEW addr \in Addrs, StoreCond(a, addr)
        PROVE  reservation'[b] = x
                 <=> (lastLL'[b] = x /\ <<b, x>> \notin stored')
    <3>1. CASE ScSucceeds(reservation, a, addr)
      BY <2>2, <2>3, <3>1 DEF StoreCond, StoreCondT
    <3>2. CASE ~ScSucceeds(reservation, a, addr)
      BY <2>0, <2>3, <3>2 DEF StoreCond, StoreCondT
    <3> QED
      BY <3>1, <3>2
  <2>4. ASSUME NEW a \in Agents, NEW addr \in Addrs, Store(a, addr)
        PROVE  reservation'[b] = x
                 <=> (lastLL'[b] = x /\ <<b, x>> \notin stored')
    BY <2>2, <2>4 DEF Store, StoreT
  <2>5. CASE Reset
    BY <2>5 DEF Reset
  <2>6. CASE UNCHANGED vars
    BY <2>0, <2>6 DEF vars
  <2> QED
    BY <2>1, <2>3, <2>4, <2>5, <2>6 DEF Next
<1> QED
  BY <1>1, <1>2, TypeCorrect, PTL DEF Spec

(* A store-conditional that reports success is atomic with its load-lock.   *)
THEOREM StoreCondAtomic == Spec => ScAtomic
<1>1. TypeOK /\ ReservationExact /\ [Next]_vars
        => [\A a \in Agents, addr \in Addrs :
              StoreCond(a, addr) /\ ack'[a]
                => lastLL[a] = addr /\ <<a, addr>> \notin stored]_vars
  <2> SUFFICES ASSUME TypeOK, ReservationExact,
                      NEW a \in Agents, NEW addr \in Addrs,
                      StoreCond(a, addr), ack'[a]
               PROVE  lastLL[a] = addr /\ <<a, addr>> \notin stored
    BY Zenon
  <2>1. ack'[a] = ScSucceeds(reservation, a, addr)
    BY DEF StoreCond, TypeOK
  <2>2. reservation[a] = addr
    BY <2>1 DEF ScSucceeds
  <2> QED
    BY <2>2 DEF ReservationExact
<1> QED
  BY <1>1, TypeCorrect, ReservationIsExact, PTL DEF Spec, ScAtomic

-----------------------------------------------------------------------------
(* LockMonitor                                                             *)

(* The reservations, the running threads and the links keep their types,   *)
(* and a CPU only ever runs a thread placed on it.                         *)
THEOREM MonitorTypeCorrect == Monitor!Spec => []Monitor!TypeOK
<1>1. Monitor!Init => Monitor!TypeOK
  BY DEF Monitor!Init, Monitor!TypeOK
<1>2. Monitor!TypeOK /\ [Monitor!Next]_Monitor!vars => Monitor!TypeOK'
  <2> SUFFICES ASSUME Monitor!TypeOK, [Monitor!Next]_Monitor!vars
               PROVE  Monitor!TypeOK'
    OBVIOUS
  <2> USE DEF Monitor!TypeOK
  <2>1. ASSUME NEW c \in Cpus, NEW l \in Lines, Monitor!LoadLocked(c, l)
        PROVE  Monitor!TypeOK'
    BY <2>1 DEF Monitor!LoadLocked
  <2>2. ASSUME NEW c \in Cpus, NEW l \in Lines, Monitor!Store(c, l)
        PROVE  Monitor!TypeOK'
    BY <2>2 DEF Monitor!Store, Monitor!Written, Monitor!ClearLine
  <2>3. ASSUME NEW c \in Cpus, NEW l \in Lines,
               Monitor!StoreCondFails(c, l) \/ Monitor!StoreCondBusError(c, l)
        PROVE  Monitor!TypeOK'
    BY <2>3 DEF Monitor!StoreCondFails, Monitor!StoreCondBusError
  <2>4. ASSUME NEW c \in Cpus, NEW l \in Lines, Monitor!StoreCondSucceeds(c, l)
        PROVE  Monitor!TypeOK'
    BY <2>4 DEF Monitor!StoreCondSucceeds, Monitor!Written, Monitor!ClearLine
  <2>5. ASSUME NEW c \in Cpus, NEW t \in Threads, Monitor!Switch(c, t)
        PROVE  Monitor!TypeOK'
    BY <2>5 DEF Monitor!Switch
  <2>6. CASE UNCHANGED Monitor!vars
    BY <2>6 DEF Monitor!vars
  <2> QED
    BY <2>1, <2>2, <2>3, <2>4, <2>5, <2>6 DEF Monitor!Next
<1> QED
  BY <1>1, <1>2, PTL DEF Monitor!Spec

\* clearLine leaves no other CPU a reservation on the line, and takes away or
\* adds nothing else.
LEMMA ClearLineExact ==
  ASSUME NEW mon \in [Cpus -> Lines \union {None}], NEW l \in Lines,
         NEW except \in Cpus, NEW b \in Cpus,
         Monitor!ClearLine(mon, l, except)[b] # None
  PROVE  /\ Monitor!ClearLine(mon, l, except)[b] = mon[b]
         /\ b # except => mon[b] # l
BY DEF Monitor!ClearLine

\* A store leaves the links of the storing thread and of other lines alone.
LEMMA WrittenElsewhere ==
  ASSUME NEW lk, NEW t \in Threads, NEW l, NEW u \in Threads,
         u = t \/ lk[u].line # l
  PROVE  Monitor!Written(lk, t, l)[u] = lk[u]
BY DEF Monitor!Written

(* What a reservation stands for, when PALcode drops it before it resumes  *)
(* another thread: the running thread's LDx_L of that line is its last,    *)
(* and no thread of this or another CPU has written the line since.        *)
THEOREM ReservationIsCurrent ==
  ASSUME ReiClears, None \notin Lines
  PROVE  Monitor!Spec => []Monitor!ReservationCurrent
<1>1. Monitor!Init => Monitor!ReservationCurrent
  BY DEF Monitor!Init, Monitor!ReservationCurrent
<1>2. Monitor!TypeOK /\ Monitor!ReservationCurrent /\ [Monitor!Next]_Monitor!vars
        => Monitor!ReservationCurrent'
  <2> SUFFICES ASSUME Monitor!TypeOK, Monitor!ReservationCurrent,
                      [Monitor!Next]_Monitor!vars,
                      NEW b \in Cpus, monitor'[b] # None
               PROVE  link'[scheduled'[b]] = [line |-> monitor'[b], dirty |-> FALSE]
    BY DEF Monitor!ReservationCurrent
  <2> DEFINE Goal ==
        link'[scheduled'[b]] = [line |-> monitor'[b], dirty |-> FALSE]
  <2>0. monitor[b] # None =>
          link[scheduled[b]] = [line |-> monitor[b], dirty |-> FALSE]
    BY DEF Monitor!ReservationCurrent
  <2>a. \A c \in Cpus : c # b => scheduled[c] # scheduled[b]
    BY DEF Monitor!TypeOK
  <2>b. scheduled[b] \in Threads
    BY DEF Monitor!TypeOK
  <2>1. ASSUME NEW c \in Cpus, NEW l \in Lines, Monitor!LoadLocked(c, l)
        PROVE  Goal
    BY <2>0, <2>a, <2>b, <2>1 DEF Monitor!LoadLocked, Monitor!TypeOK
  <2>2. ASSUME NEW c \in Cpus, NEW l \in Lines, Monitor!Store(c, l)
        PROVE  Goal
    <3>1. monitor'[b] = monitor[b] /\ (b # c => monitor[b] # l)
      BY <2>2, ClearLineExact DEF Monitor!Store, Monitor!TypeOK
    <3>2. link'[scheduled[b]] = link[scheduled[b]]
      <4>1. scheduled[b] = scheduled[c] \/ link[scheduled[b]].line # l
        BY <2>0, <3>1
      <4> QED
        BY <2>2, <2>b, <4>1, WrittenElsewhere DEF Monitor!Store, Monitor!TypeOK
    <3> QED
      BY <2>0, <2>2, <3>1, <3>2 DEF Monitor!Store
  <2>3. ASSUME NEW c \in Cpus, NEW l \in Lines,
               Monitor!StoreCondFails(c, l) \/ Monitor!StoreCondBusError(c, l)
        PROVE  Goal
    BY <2>0, <2>3 DEF Monitor!StoreCondFails, Monitor!StoreCondBusError,
                      Monitor!TypeOK
  <2>4. ASSUME NEW c \in Cpus, NEW l \in Lines, Monitor!StoreCondSucceeds(c, l)
        PROVE  Goal
    <3> DEFINE mon == [monitor EXCEPT ![c] = None]
    <3>1. mon \in [Cpus -> Lines \union {None}]
      BY DEF Monitor!TypeOK
    <3>2. monitor' = Monitor!ClearLine(mon, l, c)
      BY <2>4 DEF Monitor!StoreCondSucceeds
    <3> HIDE DEF mon
    <3>3. monitor'[b] = mon[b] /\ (b # c => mon[b] # l)
      BY <3>1, <3>2, ClearLineExact
    <3>4. b # c /\ monitor'[b] = monitor[b] /\ monitor[b] # l
      BY <3>3 DEF mon, Monitor!TypeOK
    <3>5. Monitor!Written(link, scheduled[c], l)[scheduled[b]] = link[scheduled[b]]
      BY <2>0, <2>b, <3>4, WrittenElsewhere DEF Monitor!TypeOK
    <3>6. link'[scheduled[b]] = link[scheduled[b]]
      BY <2>4, <2>a, <2>b, <3>4, <3>5
      DEF Monitor!StoreCondSucceeds, Monitor!Written, Monitor!TypeOK
    <3> QED
      BY <2>0, <2>4, <3>4, <3>6 DEF Monitor!StoreCondSucceeds
  <2>5. ASSUME NEW c \in Cpus, NEW t \in Threads, Monitor!Switch(c, t)
        PROVE  Goal
    BY <2>0, <2>5 DEF Monitor!Switch, Monitor!TypeOK
  <2>6. CASE UNCHANGED Monitor!vars
    BY <2>0, <2>6 DEF Monitor!vars
  <2> QED
    BY <2>1, <2>2, <2>3, <2>4, <2>5, <2>6 DEF Monitor!Next
<1> QED
  BY <1>1, <1>2, MonitorTypeCorrect, PTL DEF Monitor!Spec

(* No lost update: an STx_C that stores does so over the contents that its *)
(* own thread's LDx_L read.                                                *)
THEOREM StoreConditionalLosesNoUpdate ==
  ASSUME ReiClears, None \notin Lines
  PROVE  Monitor!Spec => ScLosesNoUpdate
<1>1. Monitor!ReservationCurrent /\ [Monitor!Next]_Monitor!vars
        => [\A c \in Cpus, l \in Lines :
              Monitor!StoreCondSucceeds(c, l) =>
                link[scheduled[c]] = [line |-> l, dirty |-> FALSE]]_Monitor!vars
  BY DEF Monitor!ReservationCurrent, Monitor!StoreCondSucceeds
<1> QED
  BY <1>1, ReservationIsCurrent, PTL
  DEF Monitor!Spec, ScLosesNoUpdate, Monitor!ScLosesNoUpdate

-----------------------------------------------------------------------------
(* The drivers and their reference, one quantum a step.                    *)

\* There is an agent, and the clock counts ticks.
HarnessAssumption == N \in Nat \ {0} /\ Quantum \in Nat /\ Untils \subseteq Nat

\* The reference has the drivers' agents and their sync phase.
LEMMA SameHarness ==
  /\ Drivers!AgentIds = 1 .. N /\ Drivers!Ref!AgentIds = 1 .. N
  /\ \A a : Drivers!Ref!NewAgent(a) = Drivers!NewAgent(a)
  /\ \A ag : Drivers!Ref!Runnable(ag) <=> Drivers!Runnable(ag)
  /\ \A ag, a : Drivers!Ref!StepAgent(ag, a) = Drivers!StepAgent(ag, a)
  /\ \A ag, a : Drivers!Ref!StagedBy(ag, a) = Drivers!StagedBy(ag, a)
  /\ \A r, s, o : Drivers!Ref!SyncPhase(r, s, o) = Drivers!SyncPhase(r, s, o)
<1>1. Drivers!AgentIds = 1 .. N /\ Drivers!Ref!AgentIds = 1 .. N
  BY DEF Drivers!AgentIds, Drivers!Ref!AgentIds
<1>2. \A a : Drivers!Ref!IsAlpha(a) <=> Drivers!IsAlpha(a)
  BY DEF Drivers!Ref!IsAlpha, Drivers!IsAlpha
<1>3. \A a : Drivers!Ref!NewAgent(a) = Drivers!NewAgent(a)
  BY <1>2, Zenon DEF Drivers!Ref!NewAgent, Drivers!NewAgent
<1>4. \A ag : Drivers!Ref!Runnable(ag) <=> Drivers!Runnable(ag)
  BY DEF Drivers!Ref!Runnable, Drivers!Runnable
<1>5. \A ag, a : Drivers!Ref!StepAgent(ag, a) = Drivers!StepAgent(ag, a)
  BY DEF Drivers!Ref!StepAgent, Drivers!StepAgent, Drivers!Ref!StepAlpha, Drivers!StepAlpha,
    Drivers!Ref!StepMock, Drivers!StepMock, Drivers!Ref!IsAlpha, Drivers!IsAlpha
<1>6. \A ag, a : Drivers!Ref!StagedBy(ag, a) = Drivers!StagedBy(ag, a)
  BY DEF Drivers!Ref!StagedBy, Drivers!StagedBy, Drivers!Ref!IsAlpha, Drivers!IsAlpha
<1>7. \A r, s, o : Drivers!Ref!SyncPhase(r, s, o) = Drivers!SyncPhase(r, s, o)
  BY DEF Drivers!Ref!SyncPhase, Drivers!SyncPhase,
    Drivers!Ref!ApplyEffect, Drivers!ApplyEffect, Drivers!Ref!AgentIds, Drivers!AgentIds,
    Drivers!Ref!FoldLeft, Drivers!FoldLeft, Drivers!Ref!FlattenSeq, Drivers!FlattenSeq,
    Drivers!Ref!MapThenFoldSet, Drivers!MapThenFoldSet, Drivers!Ref!Max, Drivers!Max,
    Drivers!Ref!LoadLockedT, Drivers!LoadLockedT, Drivers!Ref!StoreCondT, Drivers!StoreCondT,
    Drivers!Ref!ScSucceeds, Drivers!ScSucceeds, Drivers!Ref!ClearGranule, Drivers!ClearGranule
<1> QED
  BY <1>1, <1>3, <1>4, <1>5, <1>6, <1>7

\* What agent a's turn in a quantum that began with base makes of it, and stages.
Turned(base, a) ==
  IF Drivers!Runnable(base[a]) THEN Drivers!StepAgent(base[a], a) ELSE base[a]
TurnStages(base, a) ==
  IF Drivers!Runnable(base[a]) THEN Drivers!StagedBy(base[a], a) ELSE <<>>

\* Agent a has had its turn in the current quantum.
HadTurn(a) ==
  running /\ ( \/ driver = "sequential" /\ a < idx
               \/ driver = "threaded" /\ tpc[a] = "barrier")

\* Private state and outbox of an agent depend on its own turn only, whatever
\* the others have done: the order of the turns cannot matter.
TurnsArePrivate ==
  /\ quantumBase = [a \in 1 .. N |-> quantumBase[a]]
  /\ agent = [a \in 1 .. N |->
                IF HadTurn(a) THEN Turned(quantumBase, a) ELSE quantumBase[a]]
  /\ outbox = [a \in 1 .. N |->
                 IF HadTurn(a) THEN TurnStages(quantumBase, a) ELSE <<>>]

\* Some agent could run when the quantum began.
BaseRunnable == \E a \in 1 .. N : Drivers!Runnable(quantumBase[a])

SequentialOk ==
  /\ idx \in 0 .. N + 1
  /\ idx > 0 => /\ now < until
                /\ any <=> \E a \in 1 .. N : a < idx /\ Drivers!Runnable(quantumBase[a])

ThreadedOk ==
  /\ tpc \in [1 .. N -> {"top", "barrier", "exited"}]
  /\ ~done => /\ (now < until /\ BaseRunnable) \/ fresh
              /\ \A a \in 1 .. N : tpc[a] # "exited"
  /\ done => /\ ~(now < until /\ BaseRunnable)
             /\ \A a \in 1 .. N : tpc[a] # "barrier"

DriversInv ==
  /\ now \in Nat /\ until \in Nat
  /\ TurnsArePrivate
  /\ running => driver \in {"sequential", "threaded"}
  /\ running /\ driver = "sequential" => SequentialOk
  /\ running /\ driver = "threaded" => ThreadedOk

LEMMA DriversInit ==
  ASSUME HarnessAssumption, Drivers!Init
  PROVE  DriversInv /\ Drivers!Ref!RefInit
<1>1. /\ agent = [a \in 1 .. N |-> Drivers!NewAgent(a)] /\ quantumBase = agent
      /\ outbox = [a \in 1 .. N |-> <<>>] /\ res = [a \in 1 .. N |-> None]
      /\ now = 0 /\ until = 0 /\ running = FALSE /\ fresh = FALSE
  BY SameHarness DEF Drivers!Init, Drivers!RefInit, Drivers!EmptyOutbox
<1>2. Drivers!Ref!RefInit
  BY <1>1, SameHarness DEF Drivers!Ref!RefInit
<1>3. TurnsArePrivate
  BY <1>1 DEF TurnsArePrivate, HadTurn
<1> QED
  BY <1>1, <1>2, <1>3 DEF DriversInv

\* Before the first turn of a quantum, and between calls.
AtRest ==
  /\ quantumBase = [a \in 1 .. N |-> quantumBase[a]]
  /\ agent = quantumBase
  /\ outbox = [a \in 1 .. N |-> <<>>]

LEMMA RestIsNoTurn ==
  ASSUME \A a \in 1 .. N : ~HadTurn(a)
  PROVE  TurnsArePrivate <=> AtRest
BY DEF TurnsArePrivate, AtRest

LEMMA RestIsNoTurnNext ==
  ASSUME \A a \in 1 .. N : ~HadTurn(a)'
  PROVE  TurnsArePrivate' <=> AtRest'
BY DEF TurnsArePrivate, AtRest

\* The sync phase after the last turn is the quantum of the reference.
LEMMA SyncIsQuantum ==
  ASSUME HarnessAssumption, DriversInv, running, \A a \in 1 .. N : HadTurn(a),
         (now < until /\ BaseRunnable) \/ fresh,
         Drivers!SyncAndAdvance, until' = until, running' = running
  PROVE  /\ Drivers!Ref!RefQuantum /\ AtRest'
         /\ now' \in Nat /\ until' \in Nat /\ ~fresh'
<1> DEFINE stepped == [a \in 1 .. N |-> Turned(quantumBase, a)]
           staged == [a \in 1 .. N |-> TurnStages(quantumBase, a)]
           s == Drivers!SyncPhase(res, agent, outbox)
<1>1. agent = stepped /\ outbox = staged
  BY DEF DriversInv, TurnsArePrivate
<1>2. /\ agent' = s.agent /\ res' = s.res /\ quantumBase' = s.agent
      /\ outbox' = [a \in 1 .. N |-> <<>>] /\ now' = now + Quantum /\ fresh' = FALSE
  BY SameHarness DEF Drivers!SyncAndAdvance, Drivers!EmptyOutbox
<1>3. s.agent = [a \in 1 .. N |-> s.agent[a]]
  <2>1. \E x, y : s = [res |-> x, agent |-> [a \in Drivers!AgentIds |-> y[a]]]
    BY Zenon DEF Drivers!SyncPhase
  <2> HIDE DEF s
  <2> QED
    BY <2>1, SameHarness
<1>4. AtRest'
  <2> HIDE DEF s
  <2> QED
    BY <1>2, <1>3 DEF AtRest
<1>5. Drivers!Ref!WorkLeft \/ fresh
  BY SameHarness DEF BaseRunnable, Drivers!Ref!WorkLeft
<1>6. /\ stepped = [a \in Drivers!Ref!AgentIds |->
                      IF Drivers!Ref!Runnable(quantumBase[a])
                      THEN Drivers!Ref!StepAgent(quantumBase[a], a) ELSE quantumBase[a]]
      /\ staged = [a \in Drivers!Ref!AgentIds |->
                      IF Drivers!Ref!Runnable(quantumBase[a])
                      THEN Drivers!Ref!StagedBy(quantumBase[a], a) ELSE <<>>]
  BY SameHarness DEF Turned, TurnStages
<1>7. s = Drivers!Ref!SyncPhase(res, stepped, staged)
  <2> HIDE DEF stepped, staged
  <2> QED
    BY <1>1, SameHarness
<1>8. Drivers!Ref!RefQuantum
  <2> HIDE DEF s, stepped, staged
  <2> QED
    BY <1>2, <1>5, <1>6, <1>7 DEF Drivers!Ref!RefQuantum
<1> QED
  BY <1>2, <1>4, <1>8 DEF DriversInv, HarnessAssumption

\* A turn changes its own agent only.
LEMMA TurnKeeps ==
  ASSUME TurnsArePrivate, NEW a \in 1 .. N, ~HadTurn(a), Drivers!StepIfRunnable(a),
         quantumBase' = quantumBase,
         \A b \in 1 .. N : HadTurn(b)' <=> HadTurn(b) \/ b = a
  PROVE  TurnsArePrivate'
<1>1. agent[a] = quantumBase[a] /\ outbox[a] = <<>>
  BY DEF TurnsArePrivate
<1>2. /\ agent' = [agent EXCEPT ![a] = Turned(quantumBase, a)]
      /\ outbox' = [outbox EXCEPT ![a] = TurnStages(quantumBase, a)]
  <2>1. CASE Drivers!Runnable(agent[a])
    <3>1. <<>> \o Drivers!StagedBy(agent[a], a) = Drivers!StagedBy(agent[a], a)
      BY DEF Drivers!StagedBy
    <3> QED
      BY <1>1, <2>1, <3>1 DEF Drivers!StepIfRunnable, Turned, TurnStages
  <2>2. CASE ~Drivers!Runnable(agent[a])
    BY <1>1, <2>2 DEF Drivers!StepIfRunnable, Turned, TurnStages, TurnsArePrivate
  <2> QED
    BY <2>1, <2>2
<1>3. \A b \in 1 .. N :
        /\ agent'[b] = IF HadTurn(b)' THEN Turned(quantumBase, b) ELSE quantumBase[b]
        /\ outbox'[b] = IF HadTurn(b)' THEN TurnStages(quantumBase, b) ELSE <<>>
  BY <1>1, <1>2 DEF TurnsArePrivate
<1>4. /\ agent' = [b \in 1 .. N |-> agent'[b]]
      /\ outbox' = [b \in 1 .. N |-> outbox'[b]]
  BY <1>2 DEF TurnsArePrivate
<1>5. /\ quantumBase' = [b \in 1 .. N |-> quantumBase'[b]]
      /\ \A b : Turned(quantumBase', b) = Turned(quantumBase, b)
      /\ \A b : TurnStages(quantumBase', b) = TurnStages(quantumBase, b)
  BY DEF TurnsArePrivate
<1> QED
  BY <1>3, <1>4, <1>5 DEF TurnsArePrivate

\* A driver returns with nothing left to do, and the agents are at rest.
LEMMA ReturnKeeps ==
  ASSUME DriversInv, running, AtRest, ~(now < until /\ BaseRunnable), Drivers!Return
  PROVE  DriversInv' /\ Drivers!Ref!RefReturn
<1>1. /\ ~running' /\ fresh' = FALSE
      /\ UNCHANGED <<agent, res, now, until, outbox, quantumBase>>
  BY DEF Drivers!Return
<1>2. TurnsArePrivate'
  <2>1. AtRest' /\ \A a \in 1 .. N : ~HadTurn(a)'
    BY <1>1 DEF AtRest, HadTurn
  <2> QED
    BY <2>1, RestIsNoTurnNext
<1>3. ~Drivers!Ref!WorkLeft
  BY SameHarness DEF BaseRunnable, Drivers!Ref!WorkLeft
<1>4. running' = FALSE
  BY DEF Drivers!Return
<1> QED
  BY <1>1, <1>2, <1>3, <1>4 DEF DriversInv, Drivers!Ref!RefReturn

\* A step of the drivers is one of the reference's, or none.
Matched == DriversInv' /\ [Drivers!Ref!RefNext]_(Drivers!Ref!refVars)

LEMMA SequentialMatches ==
  ASSUME HarnessAssumption, DriversInv,
         Drivers!SeqLoopTest \/ Drivers!SeqStep \/ Drivers!SeqSync
  PROVE  Matched
<1>0. /\ running /\ driver = "sequential" /\ SequentialOk /\ TurnsArePrivate
      /\ now \in Nat /\ until \in Nat /\ N \in Nat
  BY DEF Drivers!SeqLoopTest, Drivers!SeqStep, Drivers!SeqSync, DriversInv, HarnessAssumption
<1>t. \A a \in 1 .. N : HadTurn(a) <=> a < idx
  BY <1>0 DEF HadTurn
<1>1. CASE Drivers!SeqLoopTest /\ now < until
  <2>0. ~(now >= until)
    BY <1>0, <1>1
  <2>1. /\ idx = 0 /\ idx' = 1 /\ any' = FALSE
        /\ UNCHANGED <<agent, res, now, until, running, fresh, driver, outbox, quantumBase>>
    BY <1>1, <2>0, Zenon DEF Drivers!SeqLoopTest
  <2>2. \A a \in 1 .. N : ~HadTurn(a) /\ ~HadTurn(a)'
    BY <1>0, <2>1 DEF HadTurn
  <2>3. TurnsArePrivate'
    <3>1. AtRest
      BY <1>0, <2>2, RestIsNoTurn
    <3>2. AtRest'
      BY <2>1, <3>1 DEF AtRest
    <3> QED
      BY <2>2, <3>2, RestIsNoTurnNext
  <2>4. SequentialOk'
    BY <1>0, <1>1, <2>1 DEF SequentialOk
  <2> QED
    BY <1>0, <2>1, <2>3, <2>4 DEF DriversInv, Matched, Drivers!Ref!refVars
<1>2. CASE Drivers!SeqLoopTest /\ ~(now < until)
  <2>1. idx = 0 /\ Drivers!Return
    BY <1>2 DEF Drivers!SeqLoopTest
  <2>2. AtRest
    BY <1>0, <1>t, <2>1, RestIsNoTurn
  <2> QED
    BY <1>0, <1>2, <2>1, <2>2, ReturnKeeps DEF Matched, Drivers!Ref!RefNext
<1>3. CASE Drivers!SeqStep
  <2>1. /\ idx \in 1 .. N /\ Drivers!StepIfRunnable(idx) /\ idx' = idx + 1
        /\ any' = (any \/ Drivers!Runnable(agent[idx]))
        /\ UNCHANGED <<res, now, until, running, fresh, driver, quantumBase>>
    BY <1>3, SameHarness DEF Drivers!SeqStep
  <2>2. \A a \in 1 .. N : HadTurn(a)' <=> HadTurn(a) \/ a = idx
    BY <1>0, <2>1 DEF HadTurn
  <2>3. TurnsArePrivate'
    BY <1>0, <1>t, <2>1, <2>2, TurnKeeps
  <2>4. Drivers!Runnable(agent[idx]) <=> Drivers!Runnable(quantumBase[idx])
    BY <1>0, <1>t, <2>1 DEF TurnsArePrivate
  <2>5. \A a \in 1 .. N : a < idx' <=> a < idx \/ a = idx
    BY <1>0, <2>1
  <2>6. any' <=> \E a \in 1 .. N : a < idx' /\ Drivers!Runnable(quantumBase'[a])
    <3>1. any' <=> any \/ Drivers!Runnable(agent[idx])
      BY <2>1, Zenon
    <3>2. idx > 0
      BY <1>0, <2>1
    <3>3. any <=> \E a \in 1 .. N : a < idx /\ Drivers!Runnable(quantumBase[a])
      BY <1>0, <3>2, Zenon DEF SequentialOk
    <3>4. quantumBase' = quantumBase
      BY <2>1
    <3> QED
      BY <2>1, <2>4, <2>5, <3>1, <3>3, <3>4, Zenon
  <2>7. SequentialOk'
    BY <1>0, <2>1, <2>6 DEF SequentialOk
  <2> QED
    BY <1>0, <2>1, <2>3, <2>7 DEF DriversInv, Matched, Drivers!Ref!refVars
<1>4. CASE Drivers!SeqSync /\ ~any
  <2>1. idx = N + 1 /\ Drivers!Return
    BY <1>4 DEF Drivers!SeqSync
  <2>2. \A a \in 1 .. N : HadTurn(a) /\ ~Drivers!Runnable(quantumBase[a])
    BY <1>0, <1>t, <1>4, <2>1 DEF SequentialOk
  <2>3. AtRest
    BY <1>0, <2>2 DEF TurnsArePrivate, AtRest, Turned, TurnStages
  <2> QED
    BY <1>0, <2>1, <2>2, <2>3, ReturnKeeps DEF BaseRunnable, Matched, Drivers!Ref!RefNext
<1>5. CASE Drivers!SeqSync /\ any
  <2>1. /\ idx = N + 1 /\ Drivers!SyncAndAdvance /\ idx' = 0
        /\ UNCHANGED <<until, running, driver>>
    BY <1>5 DEF Drivers!SeqSync
  <2>2. (\A a \in 1 .. N : HadTurn(a)) /\ now < until /\ BaseRunnable
    BY <1>0, <1>t, <1>5, <2>1 DEF SequentialOk, BaseRunnable
  <2>3. Drivers!Ref!RefQuantum /\ AtRest' /\ now' \in Nat /\ until' \in Nat
    BY <1>0, <2>1, <2>2, SyncIsQuantum
  <2>4. TurnsArePrivate'
    <3>1. \A a \in 1 .. N : ~HadTurn(a)'
      BY <1>0, <2>1 DEF HadTurn
    <3> QED
      BY <2>3, <3>1, RestIsNoTurnNext
  <2>5. SequentialOk'
    BY <1>0, <2>1 DEF SequentialOk
  <2> QED
    BY <1>0, <2>1, <2>3, <2>4, <2>5 DEF DriversInv, Matched, Drivers!Ref!RefNext
<1> QED
  BY <1>0, <1>1, <1>2, <1>3, <1>4, <1>5

LEMMA ThreadedMatches ==
  ASSUME HarnessAssumption, DriversInv,
         \/ \E a \in 1 .. N : Drivers!ThreadStep(a) \/ Drivers!ThreadExit(a)
         \/ Drivers!OnBarrier \/ Drivers!Join
  PROVE  Matched
<1>0. /\ running /\ driver = "threaded" /\ ThreadedOk /\ TurnsArePrivate
      /\ now \in Nat /\ until \in Nat /\ 1 \in 1 .. N
  BY DEF Drivers!ThreadStep, Drivers!ThreadExit, Drivers!OnBarrier, Drivers!Join, DriversInv,
    HarnessAssumption
<1>t. \A a \in 1 .. N : HadTurn(a) <=> tpc[a] = "barrier"
  BY <1>0 DEF HadTurn
<1>1. ASSUME NEW a \in 1 .. N, Drivers!ThreadStep(a)
      PROVE  Matched
  <2>1. /\ tpc[a] = "top" /\ ~done /\ Drivers!StepIfRunnable(a)
        /\ tpc' = [tpc EXCEPT ![a] = "barrier"]
        /\ UNCHANGED <<res, now, until, running, fresh, driver, done, quantumBase>>
    BY <1>1 DEF Drivers!ThreadStep
  <2>2. /\ ~HadTurn(a)
        /\ \A b \in 1 .. N : HadTurn(b)' <=> HadTurn(b) \/ b = a
    BY <1>0, <1>t, <2>1 DEF HadTurn, ThreadedOk
  <2>3. TurnsArePrivate'
    BY <1>0, <2>1, <2>2, TurnKeeps
  <2>4. ThreadedOk'
    BY <1>0, <2>1 DEF ThreadedOk, BaseRunnable
  <2> QED
    BY <1>0, <2>1, <2>3, <2>4 DEF DriversInv, Matched, Drivers!Ref!refVars
<1>2. ASSUME NEW a \in 1 .. N, Drivers!ThreadExit(a)
      PROVE  Matched
  <2>1. /\ tpc[a] = "top" /\ done /\ tpc' = [tpc EXCEPT ![a] = "exited"]
        /\ UNCHANGED <<agent, res, now, until, running, fresh, driver, outbox, done,
                       quantumBase>>
    BY <1>2 DEF Drivers!ThreadExit
  <2>2. \A b \in 1 .. N : ~HadTurn(b) /\ ~HadTurn(b)'
    BY <1>0, <1>t, <2>1 DEF HadTurn, ThreadedOk
  <2>3. TurnsArePrivate'
    <3>1. AtRest
      BY <1>0, <2>2, RestIsNoTurn
    <3>2. AtRest'
      BY <2>1, <3>1 DEF AtRest
    <3> QED
      BY <2>2, <3>2, RestIsNoTurnNext
  <2>4. ThreadedOk'
    BY <1>0, <2>1 DEF ThreadedOk, BaseRunnable
  <2> QED
    BY <1>0, <2>1, <2>3, <2>4 DEF DriversInv, Matched, Drivers!Ref!refVars
<1>3. CASE Drivers!OnBarrier
  <2>1. /\ \A a \in 1 .. N : tpc[a] = "barrier"
        /\ Drivers!SyncAndAdvance /\ tpc' = [a \in 1 .. N |-> "top"]
        /\ UNCHANGED <<until, running, driver>>
        /\ done' <=> now' >= until \/ \A a \in 1 .. N : ~Drivers!Runnable(agent'[a])
    BY <1>3, SameHarness DEF Drivers!OnBarrier
  <2>2. /\ (\A a \in 1 .. N : HadTurn(a))
        /\ (now < until /\ BaseRunnable) \/ fresh
    BY <1>0, <1>t, <2>1 DEF ThreadedOk
  <2>3. Drivers!Ref!RefQuantum /\ AtRest' /\ now' \in Nat /\ until' \in Nat
    BY <1>0, <2>1, <2>2, SyncIsQuantum
  <2>4. TurnsArePrivate'
    <3>1. \A a \in 1 .. N : ~HadTurn(a)'
      BY <1>0, <2>1 DEF HadTurn
    <3> QED
      BY <2>3, <3>1, RestIsNoTurnNext
  <2>5. done' <=> ~(now' < until' /\ BaseRunnable')
    BY <1>0, <2>1, <2>3 DEF AtRest, BaseRunnable
  <2>6. ThreadedOk'
    BY <2>1, <2>5 DEF ThreadedOk
  <2> QED
    BY <1>0, <2>1, <2>3, <2>4, <2>6 DEF DriversInv, Matched, Drivers!Ref!RefNext
<1>4. CASE Drivers!Join
  <2>1. (\A a \in 1 .. N : tpc[a] = "exited") /\ Drivers!Return
    BY <1>4, SameHarness DEF Drivers!Join
  <2>2. ~(now < until /\ BaseRunnable)
    BY <1>0, <2>1 DEF ThreadedOk
  <2>3. AtRest
    BY <1>0, <1>t, <2>1, RestIsNoTurn
  <2> QED
    BY <1>0, <2>1, <2>2, <2>3, ReturnKeeps DEF Matched, Drivers!Ref!RefNext
<1> QED
  BY <1>1, <1>2, <1>3, <1>4

LEMMA CallerMatches ==
  ASSUME HarnessAssumption, DriversInv,
         \/ \E d \in {"sequential", "threaded"}, u \in Untils : Drivers!Call(d, u)
         \/ \E a \in 1 .. N : Drivers!Park(a)
         \/ Drivers!Reset
  PROVE  Matched
<1>0. ~running /\ now \in Nat /\ until \in Nat
  BY DEF Drivers!Call, Drivers!CallAllowed, Drivers!Park, Drivers!RefPark, Drivers!Reset,
    Drivers!RefReset, DriversInv
<1>1. AtRest
  <2>1. \A a \in 1 .. N : ~HadTurn(a)
    BY <1>0 DEF HadTurn
  <2> QED
    BY <2>1, RestIsNoTurn DEF DriversInv
<1>2. ASSUME NEW d \in {"sequential", "threaded"}, NEW u \in Untils, Drivers!Call(d, u)
      PROVE  Matched
  <2>1. /\ Drivers!CallAllowed
        /\ running' = TRUE /\ fresh' = TRUE /\ until' = u /\ driver' = d
        /\ idx' = 0 /\ done' = FALSE
        /\ tpc' = [a \in 1 .. N |-> IF d = "threaded" THEN "top" ELSE "exited"]
        /\ UNCHANGED <<agent, res, now, outbox, quantumBase>>
    BY <1>2, SameHarness DEF Drivers!Call
  <2>2. Drivers!Ref!RefCall(u)
    <3>1. Drivers!Ref!CallAllowed
      BY <1>1, <2>1, SameHarness DEF AtRest, Drivers!CallAllowed, Drivers!Ref!CallAllowed
    <3> QED
      BY <2>1, <3>1 DEF Drivers!Ref!RefCall
  <2>3. TurnsArePrivate'
    <3>1. AtRest'
      BY <1>1, <2>1 DEF AtRest
    <3>2. \A a \in 1 .. N : ~HadTurn(a)'
      BY <2>1 DEF HadTurn
    <3> QED
      BY <3>1, <3>2, RestIsNoTurnNext
  <2>4. driver' = "sequential" => SequentialOk'
    BY <2>1 DEF SequentialOk, HarnessAssumption
  <2>5. driver' = "threaded" => ThreadedOk'
    BY <2>1 DEF ThreadedOk
  <2>6. now' \in Nat /\ until' \in Nat /\ driver' \in {"sequential", "threaded"}
    BY <1>0, <2>1 DEF HarnessAssumption
  <2> QED
    BY <2>2, <2>3, <2>4, <2>5, <2>6 DEF DriversInv, Matched, Drivers!Ref!RefNext
<1>3. ASSUME NEW a \in 1 .. N, Drivers!Park(a)
      PROVE  Matched
  <2>1. /\ Drivers!IsAlpha(a) => agent[a].halted
        /\ agent' = [agent EXCEPT ![a].halted = ~@] /\ quantumBase' = agent'
        /\ UNCHANGED <<res, now, until, running, fresh, outbox>>
    BY <1>3 DEF Drivers!Park, Drivers!RefPark
  <2>2. Drivers!Ref!RefPark(a)
    BY <1>0, <1>1, <2>1
    DEF AtRest, Drivers!Ref!RefPark, Drivers!IsAlpha, Drivers!Ref!IsAlpha
  <2>3. TurnsArePrivate'
    <3>1. AtRest'
      BY <1>1, <2>1 DEF AtRest
    <3>2. \A b \in 1 .. N : ~HadTurn(b)'
      BY <1>0, <2>1 DEF HadTurn
    <3> QED
      BY <3>1, <3>2, RestIsNoTurnNext
  <2>4. ~running' /\ now' \in Nat /\ until' \in Nat
    BY <1>0, <2>1
  <2> QED
    BY <2>2, <2>3, <2>4, SameHarness DEF DriversInv, Matched, Drivers!Ref!RefNext
<1>4. CASE Drivers!Reset
  <2>1. /\ now' = 0 /\ res' = [a \in 1 .. N |-> None] /\ outbox' = [a \in 1 .. N |-> <<>>]
        /\ UNCHANGED <<agent, until, running, fresh, quantumBase>>
    BY <1>4, SameHarness DEF Drivers!Reset, Drivers!RefReset, Drivers!EmptyOutbox
  <2>2. Drivers!Ref!RefReset
    BY <1>0, <2>1, SameHarness DEF Drivers!Ref!RefReset
  <2>3. TurnsArePrivate'
    <3>1. AtRest'
      BY <1>1, <2>1 DEF AtRest
    <3>2. \A b \in 1 .. N : ~HadTurn(b)'
      BY <1>0, <2>1 DEF HadTurn
    <3> QED
      BY <3>1, <3>2, RestIsNoTurnNext
  <2>4. ~running' /\ now' \in Nat /\ until' \in Nat
    BY <1>0, <2>1
  <2> QED
    BY <2>2, <2>3, <2>4 DEF DriversInv, Matched, Drivers!Ref!RefNext
<1> QED
  BY <1>2, <1>3, <1>4

(* SmpHarness.h: "SequentialDriver and ThreadedDriver produce identical      *)
(* final state".  For any number of agents of either kind, any quantum, any  *)
(* target ticks and any schedule of the host threads, a call of either       *)
(* driver performs the quanta of the reference, each of its steps matching   *)
(* one whole quantum, a call, a return or nothing.                           *)
THEOREM DriversRefine ==
  ASSUME HarnessAssumption
  PROVE  Drivers!Spec => DriversMatchReference
<1>1. DriversInv /\ [Drivers!Next]_(Drivers!vars) => Matched
  <2> SUFFICES ASSUME DriversInv, [Drivers!Next]_(Drivers!vars)
               PROVE  Matched
    OBVIOUS
  <2>1. CASE Drivers!Next
    BY <2>1, SequentialMatches, ThreadedMatches, CallerMatches, SameHarness
    DEF Drivers!Next, Drivers!Run
  <2>2. CASE UNCHANGED Drivers!vars
    <3>1. UNCHANGED <<agent, res, now, until, running, fresh, driver, outbox, idx, any,
                      tpc, done, quantumBase>>
      BY <2>2 DEF Drivers!vars
    <3>2. DriversInv'
      BY <3>1 DEF DriversInv, TurnsArePrivate, HadTurn, SequentialOk, ThreadedOk,
        BaseRunnable, Turned, TurnStages
    <3> QED
      BY <3>1, <3>2 DEF Matched, Drivers!Ref!refVars
  <2> QED
    BY <2>1, <2>2
<1>2. Drivers!Init => DriversInv /\ Drivers!Ref!RefInit
  BY DriversInit
<1> QED
  BY <1>1, <1>2, PTL
  DEF Matched, Drivers!Spec, DriversMatchReference, Drivers!DriversMatchReference,
    Drivers!Ref!RefSpec
=============================================================================
