-------------------------------- MODULE MCSmp --------------------------------
(* The two reservation tables and the SMP drivers.  They share no state: a    *)
(* behaviour steps one of them, chosen by part.                               *)
EXTENDS LockArbiter, TLC

CONSTANTS N, LockEveryN, LockAddr, AlphaCycles, Quantum, Untils, MaxLog, MaxNow,
          Cpus, Threads, Lines, CpuOf, ReiClears

VARIABLES part,
          agent, res, now, until, running, fresh,
          driver, outbox, idx, any, tpc, done, quantumBase,
          monitor, scheduled, link

Drivers == INSTANCE SmpDrivers
Monitor == INSTANCE LockMonitor WITH running <- scheduled

\* Two mock agents contend for granule 0, a processor halts in the middle of
\* its second quantum.
MCLockAddr == <<0, 0, 1>>
MCAlphaCycles == 3 :> 3

\* Two threads share the first CPU.
Placement == [t \in Threads |-> IF t = "t3" THEN "c2" ELSE "c1"]

driversVars == <<agent, res, now, until, running, fresh,
                 driver, outbox, idx, any, tpc, done, quantumBase>>
monitorVars == <<monitor, scheduled, link>>

MCInit ==
  /\ part \in {"arbiter", "drivers", "monitor"}
  /\ Init /\ Drivers!Init /\ Monitor!Init

ArbiterStep ==
  part = "arbiter" /\ Next /\ UNCHANGED <<part, driversVars, monitorVars>>
DriversStep ==
  part = "drivers" /\ Drivers!Next /\ UNCHANGED <<part, vars, monitorVars>>
MonitorStep ==
  part = "monitor" /\ Monitor!Next /\ UNCHANGED <<part, vars, driversVars>>

MCSpec ==
  /\ MCInit
  /\ [][ArbiterStep \/ DriversStep \/ MonitorStep]_<<part, vars, driversVars, monitorVars>>
  /\ Drivers!Fairness

(* Both drivers of SmpDrivers.h perform the quanta of the reference.          *)
DriversMatchReference == Drivers!DriversMatchReference

(* Every call of Dispatcher::run returns.                                     *)
RunReturns == Drivers!RunReturns

(* An STx_C that stores does so over the contents its LDx_L read.             *)
ScLosesNoUpdate == Monitor!ScLosesNoUpdate
=============================================================================
