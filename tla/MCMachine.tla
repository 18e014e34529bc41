------------------------------ MODULE MCMachine ------------------------------
(* The machine's interrupts: the run loop under a guest that does anything    *)
(* (tick), and the same under one that serves its interrupts (live).  A       *)
(* behaviour steps one of them, chosen by part; the other is off.             *)
EXTENDS MachineTick

CONSTANT LivePeriod

VARIABLES part,
          misc1, drir1, irq2v1, irq3v1, dim1, devreq1, cpu1, stack1, idle1,
          clock1, relocated1, armed1, phase1

\* Everything masked, everything enabled, the clock and devices only.
SomeIer == {{}, EI, {1, 2}}

\* The DIM values a boot goes through: all masked, all enabled.
SomeDim == {{}, Lines}

\* Once set, DIM0 keeps every line enabled.
DimOn == {Lines}

Live ==
  INSTANCE MachineTick
  WITH Period <- LivePeriod, IerChoices <- SomeIer, DimChoices <- DimOn,
       MaxNest <- 1, ZapSde <- FALSE, Paced <- TRUE, Inject <- FALSE,
       misc <- misc1, drir <- drir1, irq2 <- irq2v1, irq3 <- irq3v1,
       dim <- dim1, devreq <- devreq1, cpu <- cpu1, stack <- stack1,
       idle <- idle1, clock <- clock1, relocated <- relocated1,
       armed <- armed1, phase <- phase1

liveVars == <<misc1, drir1, irq2v1, irq3v1, dim1, devreq1, cpu1, stack1, idle1,
              clock1, relocated1, armed1, phase1>>

\* A run loop that does not turn.
TickOff ==
  /\ misc = MiscReset(0) /\ drir = {} /\ irq2 = {} /\ irq3 = {} /\ dim = {}
  /\ devreq = FALSE /\ stack = <<>> /\ idle = FALSE /\ clock = 0
  /\ cpu = [pal |-> FALSE, exc |-> FALSE, sde |-> FALSE, bank |-> "native",
            isum |-> 0, ier |-> {}]
  /\ relocated = FALSE /\ armed = FALSE /\ phase = "off"

LiveOff ==
  /\ misc1 = MiscReset(0) /\ drir1 = {} /\ irq2v1 = {} /\ irq3v1 = {} /\ dim1 = {}
  /\ devreq1 = FALSE /\ stack1 = <<>> /\ idle1 = FALSE /\ clock1 = 0
  /\ cpu1 = [pal |-> FALSE, exc |-> FALSE, sde |-> FALSE, bank |-> "native",
             isum |-> 0, ier |-> {}]
  /\ relocated1 = FALSE /\ armed1 = FALSE /\ phase1 = "off"

MCInit ==
  \/ part = "tick" /\ Init /\ LiveOff
  \/ part = "live" /\ TickOff /\ Live!Init

TickStep ==
  part = "tick" /\ Next /\ UNCHANGED <<part, liveVars>>
LiveStep ==
  part = "live" /\ Live!Next /\ UNCHANGED <<part, vars>>

\* A part that is off has no step to be fair to.
MCSpec ==
  /\ MCInit
  /\ [][TickStep \/ LiveStep]_<<part, vars, liveVars>>
  /\ Live!Fairness

(* The guest's clock never stops, under a guest that serves its interrupts.   *)
TicksRun == part = "live" => Live!ClockRuns

(* Interprocessor, error and device interrupts are served, by such a guest.   *)
EveryClassServed == Live!ClassesServed
=============================================================================
