----------------------------- MODULE LockMonitor -----------------------------
(***************************************************************************)
(* LDx_L, STx_C and plain stores as the memory drainer commits them, with  *)
(* the reservation table of GuestMemory.cpp.  Each CPU runs one of its     *)
(* threads at a time; the guest switches threads through PALcode.          *)
(*                                                                         *)
(* link is history: the line the thread's last LDx_L read, and whether     *)
(* another thread has written the line since.                              *)
(***************************************************************************)
CONSTANTS Cpus, Threads, Lines,
          CpuOf,        \* [Threads -> Cpus]: the CPU a thread is scheduled on
          ReiClears,    \* the guest's PALcode drops the reservation, by an STx_C
                        \* of its own, before it resumes another thread
          None

VARIABLES monitor,   \* m_cpu: the line a CPU has reserved, or None
          running,   \* the thread each CPU runs
          link

vars == <<monitor, running, link>>

TypeOK ==
  /\ monitor \in [Cpus -> Lines \union {None}]
  /\ running \in [Cpus -> Threads]
  /\ \A c \in Cpus : CpuOf[running[c]] = c
  /\ link \in [Threads -> [line : Lines, dirty : BOOLEAN] \union {None}]

Init ==
  /\ monitor = [c \in Cpus |-> None]
  /\ running \in {r \in [Cpus -> Threads] : \A c \in Cpus : CpuOf[r[c]] = c}
  /\ link = [t \in Threads |-> None]

\* Every other thread's link to the line is no longer current.
Written(lk, t, l) ==
  [u \in Threads |->
     IF u # t /\ lk[u] # None /\ lk[u].line = l
       THEN [line |-> l, dirty |-> TRUE] ELSE lk[u]]

\* Mutant: only the storing CPU's reservation is dropped.
ClearLineOwn(mon, l, except) == [mon EXCEPT ![except] = None]

\* clearLine(pa, exceptCpu).
ClearLine(mon, l, except) ==
  [c \in Cpus |-> IF c # except /\ mon[c] = l THEN None ELSE mon[c]]

-----------------------------------------------------------------------------

\* applyLoadEffect with S_Locked; a bus error returns before locks.set.
LoadLocked(c, l) ==
  /\ monitor' = [monitor EXCEPT ![c] = l]
  /\ link' = [link EXCEPT ![running[c]] = [line |-> l, dirty |-> FALSE]]
  /\ UNCHANGED running

Store(c, l) ==
  /\ monitor' = ClearLine(monitor, l, c)
  /\ link' = Written(link, running[c], l)
  /\ UNCHANGED running

\* applyStoreEffect with S_Locked: the reservation goes whatever the outcome.
StoreCondFails(c, l) ==
  /\ monitor[c] # l
  /\ monitor' = [monitor EXCEPT ![c] = None]
  /\ UNCHANGED <<running, link>>

\* The bus refuses the write after the reservation was given up.
StoreCondBusError(c, l) ==
  /\ monitor[c] = l
  /\ monitor' = [monitor EXCEPT ![c] = None]
  /\ UNCHANGED <<running, link>>

StoreCondSucceeds(c, l) ==
  /\ monitor[c] = l
  /\ monitor' = ClearLine([monitor EXCEPT ![c] = None], l, c)
  /\ link' = [Written(link, running[c], l) EXCEPT ![running[c]] = None]
  /\ UNCHANGED running

\* Nothing in the emulator drops a reservation at a trap, an interrupt or HW_RET.
Switch(c, t) ==
  /\ CpuOf[t] = c /\ t # running[c]
  /\ running' = [running EXCEPT ![c] = t]
  /\ monitor' = IF ReiClears THEN [monitor EXCEPT ![c] = None] ELSE monitor
  /\ UNCHANGED link

Next ==
  \/ \E c \in Cpus, l \in Lines :
       \/ LoadLocked(c, l)
       \/ Store(c, l)
       \/ StoreCondFails(c, l)
       \/ StoreCondBusError(c, l)
       \/ StoreCondSucceeds(c, l)
  \/ \E c \in Cpus, t \in Threads : Switch(c, t)

Spec == Init /\ [][Next]_vars

-----------------------------------------------------------------------------

(* What a reservation stands for: the thread the CPU runs read that line last *)
(* with LDx_L, and no other thread, on this or another CPU, wrote it since.   *)
ReservationCurrent ==
  \A c \in Cpus : monitor[c] # None =>
    link[running[c]] = [line |-> monitor[c], dirty |-> FALSE]

(* No lost update: an STx_C that stores does so over the very contents its    *)
(* LDx_L read, also when threads of one CPU take turns between the two.       *)
ScLosesNoUpdate ==
  [][\A c \in Cpus, l \in Lines :
       StoreCondSucceeds(c, l) =>
         link[running[c]] = [line |-> l, dirty |-> FALSE]]_vars
=============================================================================
