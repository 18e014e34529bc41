------------------------------- MODULE PalMode -------------------------------
(***************************************************************************)
(* The EV6 privileged-mode transitions (coreLib/PalShadow.h), as operators *)
(* on the part of CpuState they touch:                                     *)
(*                                                                         *)
(*   pal    PALmode, bit 0 of the PC                                       *)
(*   exc    bit 0 of EXC_ADDR: the mode the saved PC returns to            *)
(*   sde    I_CTL[SDE<1>], the shadow-register enable                      *)
(*   bank   "shadow" when R4-R7 and R20-R23 hold the PAL copies, "native"  *)
(*          when they hold the program's                                   *)
(*   isum   the EI[] cause bit of the last divert                          *)
(*   ier    the EI[] bits enabled in HW_IER                                *)
(***************************************************************************)
EXTENDS Integers

EI == 0 .. 3   \* the external interrupt inputs in use

Cpu == [pal : BOOLEAN, exc : BOOLEAN, sde : BOOLEAN,
        bank : {"native", "shadow"}, isum : EI, ier : SUBSET EI]

\* swapPalShadowRegs.
Swapped(bank) == IF bank = "native" THEN "shadow" ELSE "native"

\* palModeEnter: nothing when already in PALmode, else swap and raise.
PalModeEnter(c) ==
  IF c.pal THEN c
  ELSE [c EXCEPT !.pal = TRUE, !.bank = IF c.sde THEN Swapped(@) ELSE @]

\* palModeLeave: nothing when not in PALmode, else lower and swap.
PalModeLeave(c) ==
  IF ~c.pal THEN c
  ELSE [c EXCEPT !.pal = FALSE, !.bank = IF c.sde THEN Swapped(@) ELSE @]

\* setPalMode.
SetPalMode(c, target) == IF target THEN PalModeEnter(c) ELSE PalModeLeave(c)

\* execCallPalDispatch, and the trap delivery of PipelineDriver::retire: both
\* save the PC with its mode bit, then enter.
EnterWithLinkage(c) == PalModeEnter([c EXCEPT !.exc = c.pal])

\* execHwRei, the STACKED form (EXC_ADDR) and the register form (a linkage
\* the PALcode kept, whose bit 0 is the argument).
HwReiStacked(c) == SetPalMode(c, c.exc)

HwReiRegister(c, toPal) == SetPalMode(c, toPal)

\* Mutant: an SDE edge in PALmode does not swap.
WriteICtlNoSwap(c, sde) == [c EXCEPT !.sde = sde]

\* execHwMtpr(HW_I_CTL): an SDE edge inside PALmode swaps the bank at once.
WriteICtl(c, sde) ==
  [c EXCEPT !.sde = sde,
            !.bank = IF c.pal /\ c.sde # sde THEN Swapped(@) ELSE @]

\* stageInterruptDivert: the PC is replaced by the INTERRUPT vector, whose
\* bit 0 is clear, before palModeEnter looks at it.
StageInterruptDivert(c, ei) ==
  [PalModeEnter([c EXCEPT !.exc = c.pal, !.pal = FALSE]) EXCEPT !.isum = ei]
=============================================================================
