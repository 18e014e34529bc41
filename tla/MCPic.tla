-------------------------------- MODULE MCPic --------------------------------
(* The interrupt controllers: between devices and a guest that do anything    *)
(* (pair), and in the path from a device to its driver (chain).  A behaviour  *)
(* steps one of them, chosen by part; the other is off.                       *)
EXTENDS PicPair

CONSTANTS DigitCap, RxDepth, RxBytes, RxQueue, MaxKeys, MaxPrints, PrintLen, MaxFdc

VARIABLES part, m, g, typed, prints, fdcs

\* The serial port's line and the floppy's.
PicLines == {4, 6}

Chain == INSTANCE DeviceIrqChain WITH Lines <- PicLines

chainVars == <<m, g, typed, prints, fdcs>>

ChainOff ==
  /\ m = [uart |-> [rx |-> <<>>], keys |-> 0, fdc |-> FALSE]
  /\ g = [pc |-> "off", stack |-> <<>>, toSend |-> 0]
  /\ typed = MaxKeys /\ prints = MaxPrints /\ fdcs = MaxFdc

MCInit ==
  \/ part = "pair" /\ Init /\ ChainOff
  \/ part = "chain" /\ pic = ResetPic /\ Chain!Init

PairStep == part = "pair" /\ Next /\ UNCHANGED <<part, chainVars>>
ChainStep == part = "chain" /\ Chain!Next /\ UNCHANGED <<part, pic>>

\* A part that is off has no step to be fair to.
MCSpec ==
  /\ MCInit
  /\ [][PairStep \/ ChainStep]_<<part, pic, chainVars>>
  /\ Chain!Fairness

(* An acknowledge returns the vector of a device.                             *)
NoSpuriousIack == Chain!NoSpuriousIack

(* Typed bytes are read, prints complete, floppy completions are served.      *)
SourcesServed == Chain!SourcesServed
=============================================================================
