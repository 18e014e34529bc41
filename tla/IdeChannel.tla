----------------------------- MODULE IdeChannel -----------------------------
(***************************************************************************)
(* The primary channel of Cy82C693Ide: a fixed disk as master, the ATAPI   *)
(* CD of VirtualIsoDevice as slave, one task file and one PIO buffer for    *)
(* both.  The polled driver (external) selects a unit, loads the task file, *)
(* gives the command and reads the data register while DRQ is up; it may    *)
(* give up on a command at any point, by a soft reset or by starting over.  *)
(*                                                                         *)
(* A word of data is <<unit, block, i>>.  A disk sector has SectorWords      *)
(* words, a CD block BlockWords.  The LBA registers are one register.       *)
(***************************************************************************)
EXTENDS Naturals, Sequences

CONSTANTS
  SectorWords, BlockWords, CdbWords,
  Capacity,       \* unit -> blocks on the medium; 0: the CD has no medium
  DiskRequests,   \* [lba, count] the driver may ask of the disk
  PacketRequests, \* [op, lba] the driver may ask of the CD
  None

Units == {"disk", "cd"}
Ready == {"DRDY", "DSC"}
Failed == {"DRDY", "ERR"}

\* What a selected unit shows in the task file: 0xEB14 above the 1 for ATAPI.
Signature(u) == [lba |-> IF u = "cd" THEN 15406081 ELSE 1, count |-> 1]

VARIABLES
  unit,       \* driveHead<4>
  regs,       \* the LBA registers and sectorCount
  status, phase,
  pio, left,  \* the words of the buffer not yet read; diskRemaining
  next,       \* diskLba
  cdb,        \* words of the packet received
  sense,      \* m_lastSense
  drv,        \* the driver: where it is and what it asked
  got         \* the words it read for this request

chan == <<unit, regs, status, phase, pio, left, next, cdb>>
vars == <<chan, sense, drv, got>>

Idle == [at |-> "idle", req |-> None]

Init ==
  /\ unit = "disk" /\ regs = Signature("disk") /\ status = Ready /\ phase = "Idle"
  /\ pio = <<>> /\ left = 0 /\ next = 0 /\ cdb = 0
  /\ sense = "NotReady"
  /\ drv = Idle /\ got = <<>>

Sector(lba) == [i \in 1..SectorWords |-> <<"disk", lba, i>>]
Block(lba) == [i \in 1..BlockWords |-> <<"cd", lba, i>>]
SmallReply(op) == <<<<"cd", op, 1>>>>     \* INQUIRY, REQUEST SENSE

-----------------------------------------------------------------------------
(* The controller. *)

\* loadSignature: the channel shows unit u, idle.  diskRemaining stays.
LoadSignature(u) ==
  /\ unit' = u /\ regs' = Signature(u) /\ status' = Ready /\ phase' = "Idle"
  /\ pio' = <<>> /\ cdb' = 0
  /\ UNCHANGED <<left, next>>

\* The sector-count register doubles as ATAPI's interrupt reason.
Reason(n) == regs' = [regs EXCEPT !.count = n]

\* packetComplete
Complete ==
  /\ status' = Ready /\ phase' = "Complete" /\ pio' = <<>> /\ Reason(3)
  /\ UNCHANGED <<unit, left, next, cdb>>

AbortRead ==
  /\ status' = Failed /\ phase' = "Complete" /\ pio' = <<>> /\ left' = 0
  /\ UNCHANGED <<unit, regs, next, cdb>>

\* loadDiskSector of the selected unit: the CD slot holds no disk medium.
\* n sectors are still to come, the first at lba.
LoadDiskSector(lba, n) ==
  \/ /\ unit = "disk"
     /\ pio' = Sector(lba) /\ next' = lba + 1 /\ left' = n - 1
     /\ status' = Ready \cup {"DRQ"} /\ phase' = "DataIn"
     /\ UNCHANGED <<unit, regs, cdb>>
  \/ AbortRead                  \* the medium is unreadable, or not there

StartDiskRead ==
  IF regs.lba + regs.count > Capacity["disk"]
  THEN AbortRead
  ELSE LoadDiskSector(regs.lba, regs.count)

\* IDENTIFY DEVICE of the disk: one buffer.
IdentifyDisk ==
  /\ pio' = <<<<"disk", "identify", 1>>>> /\ left' = 0
  /\ status' = Ready \cup {"DRQ"} /\ phase' = "DataIn"
  /\ UNCHANGED <<unit, regs, next, cdb>>

\* PACKET: the CDB follows.
Packet ==
  /\ status' = {"DRDY", "DRQ"} /\ phase' = "AwaitCdb" /\ cdb' = 0 /\ Reason(1)
  /\ UNCHANGED <<unit, pio, left, next>>

\* The byte count goes to the LBA registers.
Answer(words) ==
  /\ pio' = words /\ status' = {"DRDY", "DRQ"} /\ phase' = "DataIn"
  /\ regs' = [lba |-> 512 * Len(words), count |-> 2]
  /\ UNCHANGED <<unit, left, next>>

CheckCondition ==
  /\ pio' = <<>> /\ status' = Failed /\ phase' = "Complete" /\ Reason(3)
  /\ UNCHANGED <<unit, left, next>>

\* The commands of the probe, and those a unit refuses or accepts without effect.
Probed(cmd) ==
  \/ cmd = "identify" /\ unit = "disk" /\ IdentifyDisk
  \/ /\ cmd = "pidentify" /\ unit = "cd"
     /\ pio' = SmallReply(cmd) /\ status' = {"DRDY", "DRQ"} /\ phase' = "DataIn"
     /\ Reason(2) /\ UNCHANGED <<unit, left, next, cdb>>
  \/ cmd = "reset" /\ LoadSignature(unit)
  \/ /\ <<cmd, unit>> \in {<<"identify", "cd">>, <<"pidentify", "disk">>, <<"features", "cd">>}
     /\ status' = Failed
     /\ UNCHANGED <<unit, regs, phase, pio, left, next, cdb>>
  \/ /\ cmd = "features" /\ unit = "disk" /\ status' = Ready
     /\ UNCHANGED <<unit, regs, phase, pio, left, next, cdb>>

Fail(s) == CheckCondition /\ sense' = s

\* VirtualIsoDevice::handleCommand through executePacket.  A READ is served one
\* block at a time.  An unknown opcode does not reach m_lastSense.
ExecutePacket(r) ==
  \/ r.op = "inquiry" /\ Answer(SmallReply(r.op)) /\ UNCHANGED sense
  \/ r.op = "sense" /\ Answer(SmallReply(sense)) /\ UNCHANGED sense
  \/ r.op = "unknown" /\ CheckCondition /\ UNCHANGED sense
  \/ r.op = "read" /\ Capacity["cd"] = 0 /\ Fail("NotReady")
  \/ r.op = "read" /\ Capacity["cd"] > 0
     /\ IF r.lba >= Capacity["cd"]
        THEN Fail("OutOfRange")
        ELSE \/ Answer(Block(r.lba)) /\ UNCHANGED sense
             \/ Fail("ReadError")

\* A word of the CDB.
WriteCdb(r) ==
  /\ phase = "AwaitCdb" /\ cdb' = cdb + 1
  /\ IF cdb + 1 < CdbWords
     THEN UNCHANGED <<unit, regs, status, phase, pio, left, next, sense>>
     ELSE ExecutePacket(r)

\* Mutant: the last sector of a read is dropped.
PioDrainedEarly ==
  IF left > 1 THEN LoadDiskSector(next, left) ELSE Complete

\* pioDrained: the next sector of a disk read, or the end of the command.
PioDrained ==
  IF left > 0 THEN LoadDiskSector(next, left) ELSE Complete

\* cmdRead of the data register.
ReadWord ==
  /\ phase = "DataIn"
  /\ IF Len(pio) > 1
     THEN pio' = Tail(pio) /\ UNCHANGED <<unit, regs, status, phase, left, next, cdb>>
     ELSE PioDrained

-----------------------------------------------------------------------------
(* The driver. *)

IsPacket == "op" \in DOMAIN drv.req
UnitOf(r) == IF "op" \in DOMAIN r THEN "cd" ELSE "disk"

\* Another request may cut the one before short.
Ask(r) ==
  /\ drv' = [at |-> "selected", req |-> r] /\ got' = <<>>
  /\ LoadSignature(UnitOf(r)) /\ UNCHANGED sense

LoadTaskFile ==
  /\ drv.at = "selected" /\ ~IsPacket
  /\ regs' = drv.req /\ drv' = [drv EXCEPT !.at = "loaded"]
  /\ UNCHANGED <<unit, status, phase, pio, left, next, cdb, sense, got>>

ReadSectors ==
  /\ drv.at = "loaded" /\ drv' = [drv EXCEPT !.at = "data"]
  /\ StartDiskRead /\ UNCHANGED <<sense, got>>

Probe(cmd) ==
  /\ drv.at \in {"idle", "done"} /\ drv' = Idle /\ got' = <<>>
  /\ Probed(cmd) /\ UNCHANGED sense

SendPacket ==
  /\ drv.at = "selected" /\ IsPacket /\ drv' = [drv EXCEPT !.at = "packet"]
  /\ Packet /\ UNCHANGED <<sense, got>>

SendCdb ==
  /\ drv.at = "packet" /\ UNCHANGED got
  /\ drv' = IF cdb + 1 < CdbWords THEN drv ELSE [drv EXCEPT !.at = "data"]
  /\ WriteCdb(drv.req)

TakeWord ==
  /\ drv.at = "data" /\ "DRQ" \in status
  /\ got' = Append(got, Head(pio))
  /\ ReadWord /\ UNCHANGED <<sense, drv>>

\* DRQ is down: the command is over.
Finish ==
  /\ drv.at = "data" /\ "DRQ" \notin status
  /\ drv' = [drv EXCEPT !.at = "done"]
  /\ UNCHANGED <<chan, sense, got>>

\* The driver gives up: the soft reset of ctrlWrite.
GiveUp ==
  /\ drv.at \notin {"idle", "done"} /\ drv' = Idle /\ got' = <<>>
  /\ LoadSignature(unit) /\ UNCHANGED sense

Next ==
  \/ \E r \in DiskRequests \cup PacketRequests : Ask(r)
  \/ \E cmd \in {"identify", "pidentify", "features", "reset"} : Probe(cmd)
  \/ LoadTaskFile \/ ReadSectors
  \/ SendPacket \/ SendCdb \/ TakeWord \/ Finish \/ GiveUp

Spec == Init /\ [][Next]_vars

-----------------------------------------------------------------------------

Words(r) ==
  IF UnitOf(r) = "disk"
  THEN [k \in 1..(r.count * SectorWords) |->
          <<"disk", r.lba + (k - 1) \div SectorWords, 1 + ((k - 1) % SectorWords)>>]
  ELSE Block(r.lba)

(* A read that ends without ERR has delivered the sectors, or the block, it    *)
(* asked for, each word once and in order, whatever commands were abandoned    *)
(* before it on either unit.                                                   *)
ReadDelivers ==
  drv.at = "done" /\ status = Ready /\ (IsPacket => drv.req.op = "read")
    => got = Words(drv.req)

(* Doc claim, Cy82C693Ide.h:485-487: at the end of the buffer a disk read     *)
(* continues, and "everything else (ATAPI single transfer, ATA IDENTIFY, last  *)
(* disk sector) completes the command".  A packet that transferred data does   *)
(* not end in an error.                                                        *)
PacketCompletes ==
  drv.at = "done" /\ IsPacket /\ got # <<>> => status = Ready
=============================================================================
