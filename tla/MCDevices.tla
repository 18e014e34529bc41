------------------------------ MODULE MCDevices ------------------------------
(* The devices with a protocol of their own, and the snapshot files: flash    *)
(* ROM, IDE channel, IIC bus, diskette controller.  A behaviour steps one of   *)
(* them, chosen by part.                                                       *)
EXTENDS FlashStore

CONSTANTS SectorWords, BlockWords, CdbWords, Capacity, DiskRequests, PacketRequests,
          Nodes, Indicators, Size, Bytes, Requests,
          Variants, KeepCount, MaxTime, MaxFiles, MaxFull

VARIABLES part,
          unit, regs, status, phase, pio, left, next, cdb, sense, drv, got,
          iicPhase, cur, first, dummy, pin, lrb, shift, off, img, iicDrv, iicGot,
          ref, saved, torn,
          fdcPhase, op, cmdPos, resPos, int, enabled, level, edge, fdcDrv,
          dir, machine, variant, saving, good, full, time, fulls

Ide == INSTANCE IdeChannel
Iic == INSTANCE IicBus WITH phase <- iicPhase, drv <- iicDrv, got <- iicGot,
                            Values <- Bytes, Status <- Indicators
Fdc == INSTANCE Floppy WITH phase <- fdcPhase, drv <- fdcDrv
Snapshot == INSTANCE SnapshotStore

ideVars == <<unit, regs, status, phase, pio, left, next, cdb, sense, drv, got>>
iicVars == <<iicPhase, cur, first, dummy, pin, lrb, shift, off, img, iicDrv, iicGot,
             ref, saved, torn>>
fdcVars == <<fdcPhase, op, cmdPos, resPos, int, enabled, level, edge, fdcDrv>>
snapVars == <<dir, machine, variant, saving, good, full, time, fulls>>

\* The environment takes two cells of the flash; the guest sets it twice.
TwoCells == <<"c1", "c2">>
TwoEnvs == <<"v1", "v2">>

\* Requests that end inside, at and beyond the last block of the medium.
ThreeAndTwo == [u \in {"disk", "cd"} |-> IF u = "disk" THEN 3 ELSE 2]
SomeReads ==
  {[lba |-> 0, count |-> 2], [lba |-> 2, count |-> 1], [lba |-> 2, count |-> 2],
   [lba |-> 0, count |-> 3]}
SomePackets ==
  {[op |-> "read", lba |-> 1], [op |-> "read", lba |-> 2], [op |-> "inquiry", lba |-> 0],
   [op |-> "sense", lba |-> 0], [op |-> "unknown", lba |-> 0]}

\* Writes that wrap and reads that follow them, a status device, an absent one.
SomeTransfers ==
  {[op |-> "write", node |-> "nv", off |-> 1, data |-> <<1, 0>>],
   [op |-> "write", node |-> "nv", off |-> 0, data |-> <<1>>],
   [op |-> "write", node |-> "led", off |-> 0, data |-> <<1>>],
   [op |-> "read", node |-> "nv", off |-> 1, data |-> <<0, 0>>],
   [op |-> "read", node |-> "led", off |-> 0, data |-> <<0>>],
   [op |-> "read", node |-> "none", off |-> 0, data |-> <<0>>]}

MCInit ==
  /\ part \in {"flash", "ide", "iic", "fdc", "snapshot"}
  /\ Init /\ Ide!Init /\ Iic!Init /\ Fdc!Init /\ Snapshot!Init

FlashStep ==
  /\ part = "flash" /\ Next
  /\ UNCHANGED <<part, ideVars, iicVars, fdcVars, snapVars>>
IdeStep ==
  /\ part = "ide" /\ Ide!Next
  /\ UNCHANGED <<part, vars, iicVars, fdcVars, snapVars>>
IicStep ==
  /\ part = "iic" /\ Iic!Next
  /\ UNCHANGED <<part, vars, ideVars, fdcVars, snapVars>>
FdcStep ==
  /\ part = "fdc" /\ Fdc!Next
  /\ UNCHANGED <<part, vars, ideVars, iicVars, snapVars>>
SnapshotStep ==
  /\ part = "snapshot" /\ Snapshot!Next
  /\ UNCHANGED <<part, vars, ideVars, iicVars, fdcVars>>

MCSpec ==
  /\ MCInit
  /\ [][FlashStep \/ IdeStep \/ IicStep \/ FdcStep \/ SnapshotStep]_
       <<part, vars, ideVars, iicVars, fdcVars, snapVars>>
  /\ Fairness

(* An IDE read that ends without error has delivered its sectors.             *)
ReadDelivers == Ide!ReadDelivers

(* Doc claim: a packet command that transferred data completes.               *)
PacketCompletes == Ide!PacketCompletes

(* An IIC read returns what the completed writes left.                        *)
IicReadsBack == Iic!IicReadsBack

(* The diskette driver never sleeps on an interrupt the PIC cannot see.       *)
WaitIsWoken == Fdc!WaitIsWoken

(* A started machine is all of one snapshot, or the firmware alone.           *)
MachineIsWhole == Snapshot!MachineIsWhole
=============================================================================
