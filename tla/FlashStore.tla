----------------------------- MODULE FlashStore -----------------------------
(***************************************************************************)
(* The flash between the guest's console firmware, which updates its       *)
(* environment by erasing the sector and programming every cell, and the   *)
(* backing file, which a debounced poll rewrites.  The process may crash   *)
(* at any point, be stopped, and start again; it may be saved and resumed. *)
(*                                                                         *)
(* History variables: want, the environment the guest set last; mutated,   *)
(* whether the array changed since it was loaded or restored; cut, whether *)
(* the process ended, or a snapshot was taken, in the middle of an update. *)
(***************************************************************************)
EXTENDS FlashRom, SequencesExt

CONSTANTS
  CellSeq,       \* the order in which the guest programs the cells
  Envs,          \* the environments it sets, one after the other
  RomEnv,        \* what the firmware image holds
  Window,        \* kFlushQuiescenceCycles in timer periods
  StatusReads,   \* status reads of the guest's erase: 2, or 1 (Data# Polling)
  MaxFails,      \* bound: file operations that fail
  MaxStops,      \* bound: crashes and stops
  None

ASSUME StoreAssumption ==
  /\ CellSeq \in Seq(Cells) /\ CellSeq # <<>> /\ Cells = ToSet(CellSeq)
  /\ Envs \in Seq(Values) /\ RomEnv \in Values
  /\ Window \in Nat \ {0} /\ StatusReads \in {1, 2}
  /\ MaxFails \in Nat /\ MaxStops \in Nat

VARIABLES
  chip, dirty, pending,   \* m_mode and m_data, m_dirty, m_pendingMutation
  quiet,                  \* polls since m_lastMutateCycle, up to Window
  disk, tmp,              \* the backing file and its .tmp, or None
  snap,                   \* the saved machine, or None
  proc,                   \* "down", "up", or inside flushToFile
  stopping,               \* ~Machine is flushing
  todo,                   \* the guest's bus accesses left of its update
  sets, fails, stops, want, mutated, cut

files == <<disk, tmp>>
guest == <<todo, sets, want>>
counts == <<fails, stops>>
history == <<mutated, cut>>
vars == <<chip, dirty, pending, quiet, files, snap, proc, stopping, guest,
          counts, history>>

Full(v) == [c \in Cells |-> v]
Whole(image) == \E v \in Values : image = Full(v)

Init ==
  /\ chip = [mode |-> "Read", data |-> Full(Erased)]
  /\ dirty = FALSE /\ pending = FALSE /\ quiet = 0
  /\ disk = None /\ tmp = None /\ snap = None
  /\ proc = "down" /\ stopping = FALSE
  /\ todo = <<>> /\ sets = 0 /\ fails = 0 /\ stops = 0
  /\ want = RomEnv /\ mutated = FALSE /\ cut = FALSE

-----------------------------------------------------------------------------
(* The guest's console firmware. *)

Put(off, d) == [off |-> off, d |-> d]
Status == [off |-> None, d |-> None]

\* Erase the sector, poll the status, program the cells: four writes for each.
EraseOps ==
  <<Put(A1, "AA"), Put(A2, "55"), Put(A1, "80"),
    Put(A1, "AA"), Put(A2, "55"), Put(Head(CellSeq), "30")>>

StatusOps == [i \in 1 .. StatusReads |-> Status]

ProgramOps(v) ==
  [k \in 1 .. 4 * Len(CellSeq) |->
     CASE k % 4 = 1 -> Put(A1, "AA")
       [] k % 4 = 2 -> Put(A2, "55")
       [] k % 4 = 3 -> Put(A1, "A0")
       [] k % 4 = 0 -> Put(CellSeq[k \div 4], v)]

SetOps(v) == EraseOps \o StatusOps \o ProgramOps(v)

\* The SRM command "set".
StartSet ==
  /\ proc = "up" /\ ~stopping /\ todo = <<>> /\ sets < Len(Envs)
  /\ sets' = sets + 1 /\ want' = Envs[sets + 1]
  /\ todo' = SetOps(want')
  /\ UNCHANGED <<chip, dirty, pending, quiet, files, snap, proc, stopping,
                 counts, history>>

BusAccess ==
  /\ proc = "up" /\ ~stopping /\ todo # <<>>
  /\ todo' = Tail(todo)
  /\ LET op == Head(todo)
         mutates == op # Status /\ Mutates(chip, op.off, op.d) IN
     /\ chip' = IF op = Status THEN ReadChip(chip) ELSE WriteChip(chip, op.off, op.d)
     /\ dirty' = (dirty \/ mutates)
     /\ pending' = (pending \/ mutates)
     /\ mutated' = (mutated \/ mutates)
  /\ UNCHANGED <<quiet, files, snap, proc, stopping, sets, want, counts, cut>>

-----------------------------------------------------------------------------
(* Start, stop, save and resume. *)

\* The constructor loads ds10_flash.rom, then bindFlash the firmware's own file;
\* a load that fails leaves m_backingLoaded as it was.  Only without a backing
\* image does loadSrmFirmware seed the array.
Boot ==
  /\ proc = "down" /\ proc' = "up" /\ stopping' = FALSE
  /\ LET seeds == disk = None IN
     /\ chip' = [mode |-> "Read", data |-> IF seeds THEN Full(RomEnv) ELSE disk]
     /\ dirty' = seeds /\ pending' = seeds /\ mutated' = seeds
     /\ want' = IF seeds THEN RomEnv ELSE disk[Head(CellSeq)]
  /\ quiet' = 0 /\ todo' = <<>>
  /\ UNCHANGED <<files, snap, sets, counts, cut>>

Crash ==
  /\ proc # "down" /\ stops < MaxStops
  /\ proc' = "down" /\ stopping' = FALSE /\ stops' = stops + 1 /\ todo' = <<>>
  /\ UNCHANGED <<chip, dirty, pending, quiet, files, snap, sets, want, fails, history>>

\* The run loop returns, wherever the guest is, and ~Machine calls forceFlush.
Stop ==
  /\ proc = "up" /\ ~stopping /\ stops < MaxStops
  /\ stops' = stops + 1
  /\ stopping' = dirty /\ proc' = IF dirty THEN "write" ELSE "down"
  /\ cut' = (cut \/ todo # <<>>)
  /\ UNCHANGED <<chip, dirty, pending, quiet, files, snap, guest, fails, mutated>>

\* serialize takes the image, and with the processor the guest's place in its
\* update; the command mode is not saved.
Save ==
  /\ proc = "up" /\ ~stopping /\ snap = None
  /\ snap' = [data |-> chip.data, want |-> want, todo |-> todo,
              inside |-> chip.mode \in Commands]
  /\ UNCHANGED <<chip, dirty, pending, quiet, files, proc, stopping, guest,
                 counts, history>>

\* Mutant: the restored image stays marked dirty.
ResumeDirty ==
  /\ proc = "up" /\ ~stopping /\ snap # None
  /\ chip' = [mode |-> "Read", data |-> snap.data]
  /\ pending' = FALSE /\ mutated' = FALSE /\ quiet' = Window
  /\ todo' = snap.todo /\ want' = snap.want /\ cut' = (cut \/ snap.inside)
  /\ UNCHANGED <<dirty, files, snap, proc, stopping, sets, counts>>

\* restoreImage; m_lastMutateCycle is zeroed.
Resume ==
  /\ proc = "up" /\ ~stopping /\ snap # None
  /\ chip' = [mode |-> "Read", data |-> snap.data]
  /\ dirty' = FALSE /\ pending' = FALSE /\ mutated' = FALSE /\ quiet' = Window
  /\ todo' = snap.todo /\ want' = snap.want /\ cut' = (cut \/ snap.inside)
  /\ UNCHANGED <<files, snap, proc, stopping, sets, counts>>

-----------------------------------------------------------------------------
(* Persistence. *)

\* The guest programs the next cell within the window.
GapShort == dirty /\ todo # <<>> /\ ~Whole(chip.data) => pending \/ quiet + 1 < Window

\* Mutant: the poll does not wait for the end of a burst.
PollEager ==
  /\ proc = "up" /\ ~stopping /\ GapShort
  /\ quiet' = IF quiet < Window THEN quiet + 1 ELSE quiet
  /\ proc' = IF dirty THEN "write" ELSE "up"
  /\ UNCHANGED <<pending, chip, dirty, files, snap, stopping, guest, counts, history>>

\* Mutant: a mutation once polled is polled again.
PollForever ==
  /\ proc = "up" /\ ~stopping /\ GapShort
  /\ quiet' = IF pending THEN 0 ELSE IF quiet < Window THEN quiet + 1 ELSE quiet
  /\ proc' = IF ~pending /\ dirty /\ quiet + 1 >= Window THEN "write" ELSE "up"
  /\ UNCHANGED <<pending, chip, dirty, files, snap, stopping, guest, counts, history>>

\* tryFlush, on every timer edge.
Poll ==
  /\ proc = "up" /\ ~stopping /\ GapShort
  /\ pending' = FALSE
  /\ quiet' = IF pending THEN 0 ELSE IF quiet < Window THEN quiet + 1 ELSE quiet
  /\ proc' = IF ~pending /\ dirty /\ quiet + 1 >= Window THEN "write" ELSE "up"
  /\ UNCHANGED <<chip, dirty, files, snap, stopping, guest, counts, history>>

\* After flushToFile: back to the run loop, or the end of the process.
Returned == proc' = IF stopping THEN "down" ELSE "up"

WriteTmp ==
  /\ proc = "write" /\ proc' = "remove"
  /\ tmp' = chip.data
  /\ UNCHANGED <<chip, dirty, pending, quiet, disk, snap, stopping, guest, counts, history>>

\* A short write removes the .tmp.
WriteTmpFails ==
  /\ proc = "write" /\ Returned
  /\ fails < MaxFails /\ fails' = fails + 1
  /\ tmp' = None
  /\ UNCHANGED <<chip, dirty, pending, quiet, disk, snap, stopping, guest, stops, history>>

RemoveOld ==
  /\ proc = "remove" /\ proc' = "rename"
  /\ disk' = None
  /\ UNCHANGED <<chip, dirty, pending, quiet, tmp, snap, stopping, guest, counts, history>>

Rename ==
  /\ proc = "rename" /\ Returned
  /\ disk' = tmp /\ tmp' = None /\ dirty' = FALSE
  /\ UNCHANGED <<chip, pending, quiet, snap, stopping, guest, counts, history>>

RenameFails ==
  /\ proc = "rename" /\ Returned
  /\ fails < MaxFails /\ fails' = fails + 1
  /\ UNCHANGED <<chip, dirty, pending, quiet, files, snap, stopping, guest, stops, history>>

Flush == WriteTmp \/ RemoveOld \/ Rename

Next ==
  \/ StartSet \/ BusAccess
  \/ Boot \/ Crash \/ Stop \/ Save \/ Resume
  \/ Poll
  \/ Flush
  \/ WriteTmpFails \/ RenameFails

\* The CPU runs, and with it the timer; a flush is not interrupted but by a crash.
Fairness == WF_vars(BusAccess) /\ WF_vars(Poll) /\ WF_vars(Flush)

Spec == Init /\ [][Next]_vars /\ Fairness

-----------------------------------------------------------------------------

(* FlashRom.h, D1: "never flush mid transaction (no all-0xFF sector            *)
(* persisted)".  Whatever crashes, failed writes and resumes come between, the *)
(* backing file holds a whole environment.  The exception is forceFlush in the *)
(* middle of an update, which writes the array as it is.                       *)
DiskIsWhole == disk # None /\ ~cut => Whole(disk)

(* Every update lands: when the guest's erase and programs are through, the    *)
(* array holds the environment it set, and after a start or a resume the one   *)
(* it was loaded with.  A command byte the machine swallows loses a cell.  A   *)
(* snapshot between two commands of an update resumes it; one inside a command *)
(* restores the machine in read mode, and that command is lost.                *)
SetLands == (proc = "up" /\ todo = <<>> /\ ~cut) => chip.data = Full(want)

(* "restoring a stale snapshot never clobbers a newer ds10_flash.rom on the    *)
(* debounce poll": a flush starts only for an array that the guest, or the     *)
(* seeding, has changed since it was loaded or restored.                       *)
NoStaleClobber == [][proc # "write" /\ proc' = "write" => mutated]_vars

(* A change reaches the file, unless the process ends or an older machine is   *)
(* resumed: the debounce does not starve it.                                   *)
ChangePersists == (proc = "up" /\ dirty) ~> (~dirty \/ proc = "down")
=============================================================================
