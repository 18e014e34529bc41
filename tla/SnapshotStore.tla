--------------------------- MODULE SnapshotStore ---------------------------
(***************************************************************************)
(* systemLib/Snapshot.cpp: save, load, autoloadLatest and                  *)
(* pruneOldSnapshots, with the process around them, which autosaves, may   *)
(* crash at any point of a save, and is started again, perhaps as another  *)
(* model of machine.  The disk may be full for a while.                    *)
(*                                                                         *)
(* A part of the machine is the number of the moment its contents are of;  *)
(* 0 is the firmware freshly loaded.  A file is what was written of each   *)
(* section and the checksum, which stands for the sections it covers.      *)
(***************************************************************************)
EXTENDS Naturals, Sequences, FiniteSets, SequencesExt

CONSTANTS Variants,    \* chipset variants the process is started with
          KeepCount,   \* kAutoSaveKeepCount
          MaxTime,     \* bound: moments
          MaxFiles,    \* bound: files in the directory
          MaxFull,     \* bound: how often the disk fills up
          None

Parts == {"cpu", "mem", "chips", "srm"}

\* What save writes, in its order; size is the word before the memory and
\* wrapper the chipset's variant and its copy of the size.
Order == <<"cpu", "size", "mem", "wrapper", "chips", "srm">>
Sections == ToSet(Order)
Empty == [s \in Sections |-> None]

VARIABLES dir,        \* the files, oldest first: [auto, body, sum]
          machine,    \* the parts of the running machine, None when down
          variant,    \* its chipset
          saving,     \* sections left to write, None when not in save
          good,       \* QDataStream::status is still Ok
          full,       \* the disk
          time, fulls

file == <<dir, saving, good>>
vars == <<dir, machine, variant, saving, good, full, time, fulls>>

Cold == [p \in Parts |-> 0]

Init ==
  /\ dir = <<>> /\ machine = None /\ variant \in Variants
  /\ saving = None /\ good = TRUE /\ full = FALSE /\ time = 0 /\ fulls = 0

Up == machine # None /\ saving = None

\* The guest runs on.
Run ==
  /\ Up /\ time < MaxTime
  /\ time' = time + 1 /\ machine' = [p \in Parts |-> time']
  /\ UNCHANGED <<file, variant, full, fulls>>

FillDisk ==
  /\ ~full /\ fulls < MaxFull /\ full' = TRUE /\ fulls' = fulls + 1
  /\ UNCHANGED <<file, machine, variant, time>>
FreeDisk ==
  /\ full /\ full' = FALSE /\ UNCHANGED <<file, machine, variant, time, fulls>>

(* save                                                                    *)
-----------------------------------------------------------------------------

\* The file is created, or truncated, under its final name.
SaveOpen(auto) ==
  /\ Up /\ Len(dir) < MaxFiles
  /\ dir' = Append(dir, [auto |-> auto, body |-> Empty, sum |-> None])
  /\ saving' = Order /\ good' = TRUE
  /\ UNCHANGED <<machine, variant, full, time, fulls>>

Contents(s) ==
  CASE s = "size" -> 1
    [] s = "wrapper" -> variant
    [] OTHER -> machine[s]

\* After a write that fails QDataStream writes nothing more, and save goes on.
SaveSection ==
  /\ saving \notin {None, <<>>}
  /\ good' = (good /\ ~full)
  /\ dir' = (IF good' THEN [dir EXCEPT ![Len(dir)].body[Head(saving)] = Contents(Head(saving))]
             ELSE dir)
  /\ saving' = Tail(saving)
  /\ UNCHANGED <<machine, variant, full, time, fulls>>

\* pruneOldSnapshots: of the files named auto_ all but the newest KeepCount go;
\* the others stay in their order.
Pruned(d) ==
  LET autos == {i \in DOMAIN d : d[i].auto}
      kept == {i \in DOMAIN d : d[i].auto =>
                 Cardinality({j \in autos : j > i}) < KeepCount}
      places == 1 .. Cardinality(kept)
      inOrder == {at \in [places -> kept] : \A k, l \in places : k < l => at[k] < at[l]}
  IN {[k \in places |-> d[at[k]]] : at \in inOrder}

\* The checksum of what is read back is appended; the periodic save prunes.
SaveFooter ==
  /\ saving = <<>>
  /\ LET last == dir[Len(dir)]
         whole == [last EXCEPT !.sum = IF full THEN None ELSE last.body]
         d == [dir EXCEPT ![Len(dir)] = whole]
     IN dir' \in {d} \union (IF last.auto THEN Pruned(d) ELSE {})
  /\ saving' = None /\ good' = TRUE
  /\ UNCHANGED <<machine, variant, full, time, fulls>>

Crash ==
  /\ machine # None /\ machine' = None /\ saving' = None /\ good' = TRUE
  /\ UNCHANGED <<dir, variant, full, time, fulls>>

(* load: into a machine that has its firmware loaded and its entry set.    *)
-----------------------------------------------------------------------------

\* Mutant: the checksum is not compared.
AcceptedAny(f) == f.body["size"] # None

\* The checks before anything is changed: checksum, magic, version and size.
Accepted(f) == f.sum = f.body /\ f.body["size"] # None

\* A read past the end of the file yields zero.
Blank(v) == IF v = None THEN 0 ELSE v

\* The memory is read in place, then the wrapper is checked, then the rest is
\* read; the processor and the SRM staging are committed last.
Loaded(f, v) ==
  CASE ~Accepted(f) -> Cold
    [] Accepted(f) /\ f.body["wrapper"] # v ->
         [Cold EXCEPT !["mem"] = Blank(f.body["mem"])]
    [] OTHER -> [p \in Parts |-> Blank(f.body[p])]

\* main: the firmware is loaded, then the newest snapshot, if there is one.
Boot(v) ==
  /\ machine = None
  /\ variant' = v
  /\ machine' = (IF dir = <<>> THEN Cold ELSE Loaded(dir[Len(dir)], v))
  /\ UNCHANGED <<file, full, time, fulls>>

Next ==
  \/ Run \/ FillDisk \/ FreeDisk
  \/ \E auto \in BOOLEAN : SaveOpen(auto)
  \/ SaveSection \/ SaveFooter \/ Crash
  \/ \E v \in Variants : Boot(v)

Spec == Init /\ [][Next]_vars

-----------------------------------------------------------------------------
(* A started machine is of one moment: all of a snapshot, or the firmware      *)
(* alone, so a save cut short by a crash is not half loaded.  A disk that was  *)
(* full is excepted: the checksum then covers what was written, however short, *)
(* and load accepts it.  Snapshot.cpp says so of a load that fails: "restore   *)
(* order avoids leaving the Machine half-restored on early-return error        *)
(* paths", which holds only as long as every file is of the machine's variant. *)
MachineIsWhole ==
  machine # None /\ fulls = 0 => Cardinality({machine[p] : p \in Parts}) = 1
=============================================================================
