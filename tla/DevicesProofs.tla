---------------------------- MODULE DevicesProofs ----------------------------
(***************************************************************************)
(* Proofs about the devices of MCDevices.                                  *)
(***************************************************************************)
EXTENDS MCDevices, SequenceTheorems, FiniteSetTheorems, TLAPS

-----------------------------------------------------------------------------
(* The diskette controller.  The strengthening of WaitIsWoken: the PIC     *)
(* sees the line as it is, a controller in reset has no interrupt and no   *)
(* command under way, and one that takes parameters has none left from     *)
(* before, so the completion is a fresh edge.                              *)

InParams == cmdPos > 0 /\ cmdPos <= Fdc!Shape[op].params

FdcInv ==
  /\ fdcPhase \in {"Command", "Result"} /\ op \in Fdc!Commands
  /\ cmdPos \in Nat /\ resPos \in Nat
  /\ int \in BOOLEAN /\ level = int
  /\ enabled \in BOOLEAN
  /\ ~enabled => ~int /\ fdcPhase = "Command" /\ cmdPos = 0
  /\ fdcDrv \in {"off", "reset", "wait", "ready", "params", "results"}
  /\ fdcDrv = "reset" => ~enabled
  /\ fdcDrv \in {"wait", "ready", "params", "results"} => enabled
  /\ fdcDrv = "wait" => edge /\ (fdcPhase = "Command" => cmdPos = 0)
  /\ fdcDrv = "results" => fdcPhase = "Result"
  /\ fdcDrv = "ready" => fdcPhase = "Command" /\ cmdPos = 0
  /\ fdcDrv = "params" => fdcPhase = "Command" /\ ~int /\ InParams

\* What the table of commands promises.
LEMMA Shapes ==
  ASSUME NEW c \in Fdc!Commands
  PROVE  /\ Fdc!Shape[c].params \in Nat /\ Fdc!Shape[c].results \in Nat
         /\ Fdc!Shape[c].params = 0 =>
              Fdc!Shape[c].results > 0 /\ c \notin Fdc!Interrupting
BY DEF Fdc!Commands, Fdc!Shape, Fdc!Interrupting

(* The driver never sleeps without an edge in the PIC, and awake it agrees *)
(* with the controller on whose turn it is, whatever interrupts and resets *)
(* it left unread (Floppy82077::execute, writeDor, readFifo).              *)
THEOREM DriverIsWoken == Fdc!Spec => []WaitIsWoken
<1>1. Fdc!Init => FdcInv
  <2>1. "invalid" \in Fdc!Commands
    BY DEF Fdc!Commands, Fdc!Shape
  <2> SUFFICES ASSUME Fdc!Init PROVE FdcInv
    OBVIOUS
  <2>2. fdcDrv = "off" /\ op \in Fdc!Commands
    BY <2>1 DEF Fdc!Init
  <2> QED
    BY <2>2 DEF Fdc!Init, FdcInv
<1>2. FdcInv /\ [Fdc!Next]_(Fdc!vars) => FdcInv'
  <2> SUFFICES ASSUME FdcInv, [Fdc!Next]_(Fdc!vars) PROVE FdcInv'
    OBVIOUS
  <2> USE DEF FdcInv
  <2>1. CASE Fdc!EnterReset
    <3>1. /\ enabled' = FALSE /\ int' = FALSE /\ fdcPhase' = "Command"
          /\ cmdPos' = 0 /\ resPos' \in Nat /\ op' = op
      <4>1. CASE enabled
        BY <2>1, <4>1 DEF Fdc!EnterReset, Fdc!WriteDor
      <4>2. CASE ~enabled
        BY <2>1, <4>2 DEF Fdc!EnterReset, Fdc!WriteDor
      <4> QED
        BY <4>1, <4>2
    <3>2. fdcDrv' = "reset" /\ level' = int'
      BY <2>1 DEF Fdc!EnterReset, Fdc!Sample
    <3> QED
      BY <3>1, <3>2
  <2>2. CASE Fdc!LeaveReset
    BY <2>2 DEF Fdc!LeaveReset, Fdc!WriteDor, Fdc!SampleAfresh
  <2>3. ASSUME NEW c \in Fdc!Commands, Fdc!Begin(c) PROVE FdcInv'
    <3>1. /\ fdcPhase = "Command" /\ cmdPos = 0 /\ op' = c /\ enabled' = enabled
          /\ int' \in BOOLEAN /\ level' = int'
          /\ fdcDrv' = IF Fdc!Shape[c].params > 0 THEN "params" ELSE "results"
      BY <2>3 DEF Fdc!Begin, Fdc!FifoWrite, Fdc!SampleAfresh
    <3>2. enabled
      BY <2>3 DEF Fdc!Begin, Fdc!FifoWrite
    <3>3. CASE Fdc!Shape[c].params = 0
      BY <2>3, <3>1, <3>2, <3>3, Shapes
      DEF Fdc!Begin, Fdc!FifoWrite, Fdc!Execute, Fdc!SampleAfresh
    <3>4. CASE Fdc!Shape[c].params > 0
      BY <2>3, <3>1, <3>2, <3>4, Shapes
      DEF Fdc!Begin, Fdc!FifoWrite, Fdc!SampleAfresh, InParams
    <3> QED
      BY <3>3, <3>4, Shapes
  <2>4. CASE Fdc!Param
    <3>1. /\ fdcDrv = "params" /\ fdcPhase = "Command" /\ ~int
          /\ InParams /\ cmdPos > 0
          /\ op' = op /\ enabled' = TRUE /\ level' = int'
          /\ edge' = (edge \/ (int' /\ ~level))
      BY <2>4 DEF Fdc!Param, Fdc!FifoWrite, Fdc!Sample, InParams
    <3>2. Fdc!Shape[op].params \in Nat /\ Fdc!Shape[op].results \in Nat
      BY Shapes
    <3>3. CASE cmdPos = Fdc!Shape[op].params
      <4>1. /\ int' = (op \in Fdc!Interrupting) /\ resPos' = 0
            /\ fdcPhase' = IF Fdc!Shape[op].results > 0 THEN "Result" ELSE "Command"
            /\ cmdPos' = IF Fdc!Shape[op].results > 0 THEN cmdPos + 1 ELSE 0
        BY <2>4, <3>1, <3>3 DEF Fdc!Param, Fdc!FifoWrite, Fdc!Execute
      <4>2. fdcDrv' = IF op \in Fdc!Interrupting THEN "wait"
                      ELSE IF Fdc!Shape[op].results > 0 THEN "results" ELSE "ready"
        BY <2>4, <3>2, <3>3 DEF Fdc!Param
      <4>3. /\ op' \in Fdc!Commands /\ cmdPos' \in Nat /\ resPos' \in Nat
            /\ int' \in BOOLEAN /\ level' = int'
        BY <3>1, <4>1
      <4>4. fdcDrv' = "wait" => edge'
        BY <3>1, <4>1, <4>2
      <4>5. fdcPhase' = "Command" => cmdPos' = 0
        BY <3>2, <4>1
      <4> QED
        BY <3>1, <4>1, <4>2, <4>3, <4>4, <4>5
    <3>4. CASE cmdPos # Fdc!Shape[op].params
      <4>1. int' = FALSE /\ cmdPos' = cmdPos + 1 /\ UNCHANGED <<fdcPhase, resPos>>
        BY <2>4, <3>1, <3>4 DEF Fdc!Param, Fdc!FifoWrite
      <4>2. cmdPos < Fdc!Shape[op].params /\ fdcDrv' = "params"
        BY <2>4, <3>1, <3>2, <3>4 DEF Fdc!Param, InParams
      <4>3. InParams'
        BY <3>1, <3>2, <4>1, <4>2 DEF InParams
      <4>4. op' \in Fdc!Commands
        BY <3>1
      <4>5. cmdPos' \in Nat /\ resPos' \in Nat
        BY <4>1
      <4>6. int' \in BOOLEAN /\ level' = int'
        BY <3>1, <4>1
      <4>7. fdcPhase' = "Command" /\ enabled' \in BOOLEAN /\ enabled' /\ ~int'
        BY <3>1, <4>1
      <4> QED
        BY <4>2, <4>3, <4>4, <4>5, <4>6, <4>7
    <3> QED
      BY <3>3, <3>4
  <2>5. CASE Fdc!Wake
    BY <2>5 DEF Fdc!Wake, Fdc!fdc, InParams
  <2>6. CASE Fdc!ReadResult
    <3>1. /\ fdcPhase = "Result" /\ op' = op /\ enabled' = TRUE
          /\ resPos' = resPos + 1 /\ level' = int'
          /\ fdcDrv' = IF fdcPhase' = "Result" THEN "results" ELSE "ready"
      BY <2>6 DEF Fdc!ReadResult, Fdc!FifoRead, Fdc!Sample
    <3>2. \/ fdcPhase' = "Command" /\ cmdPos' = 0 /\ int' = FALSE
          \/ UNCHANGED <<fdcPhase, cmdPos, int>>
      BY <2>6 DEF Fdc!ReadResult, Fdc!FifoRead
    <3>3. op' \in Fdc!Commands
      BY <3>1
    <3>4. cmdPos' \in Nat /\ resPos' \in Nat
      BY <3>1, <3>2
    <3>5. /\ int' \in BOOLEAN /\ level' = int'
          /\ enabled' \in BOOLEAN /\ enabled'
      BY <3>1, <3>2
    <3>6. \/ fdcPhase' = "Command" /\ cmdPos' = 0 /\ fdcDrv' = "ready"
          \/ fdcPhase' = "Result" /\ fdcDrv' = "results"
      BY <3>1, <3>2
    <3> QED
      BY <3>3, <3>4, <3>5, <3>6
  <2>7. CASE UNCHANGED Fdc!vars
    BY <2>7 DEF Fdc!vars, Fdc!fdc, InParams
  <2> QED
    BY <2>1, <2>2, <2>3, <2>4, <2>5, <2>6, <2>7 DEF Fdc!Next
<1>3. FdcInv => WaitIsWoken
  BY DEF FdcInv, WaitIsWoken, Fdc!WaitIsWoken
<1> QED
  BY <1>1, <1>2, <1>3, PTL DEF Fdc!Spec

-----------------------------------------------------------------------------
(* The flash.  The guest's update is followed by the number r of accesses  *)
(* it has left: which access that is, which modes the command machine may  *)
(* be in (a resume skips the erase handshake), and which cells hold v.     *)

Count == Len(CellSeq)

OpLeft(v, r) ==
  IF r > 4 * Count + 2 THEN EraseOps[4 * Count + 9 - r]
  ELSE IF r > 4 * Count THEN Status
  ELSE CASE r % 4 = 0 -> Put(A1, "AA")
         [] r % 4 = 3 -> Put(A2, "55")
         [] r % 4 = 2 -> Put(A1, "A0")
         [] r % 4 = 1 -> Put(CellSeq[(4 * Count + 1 - r) \div 4], v)

ModesLeft(r) ==
  CASE r = 4 * Count + 8 -> {"Read"}
    [] r = 4 * Count + 7 -> {"Step1"}
    [] r = 4 * Count + 6 -> {"Step2"}
    [] r = 4 * Count + 5 -> {"Erase3"}
    [] r = 4 * Count + 4 -> {"Erase4"}
    [] r = 4 * Count + 3 -> {"Erase5"}
    [] r = 4 * Count + 2 -> {"Confirm1", "Read"}
    [] r = 4 * Count + 1 -> {"Confirm0", "Read"}
    [] r <= 4 * Count /\ r % 4 = 0 -> {"Read"}
    [] r <= 4 * Count /\ r % 4 = 3 -> {"Step1"}
    [] r <= 4 * Count /\ r % 4 = 2 -> {"Step2"}
    [] r <= 4 * Count /\ r % 4 = 1 -> {"Program"}

Accesses ==
  [off : {A1, A2, None} \union Cells,
   d : {"AA", "55", "80", "30", "A0", None} \union Values]

Chips == [mode : Modes, data : Images]

OnTrack(c, ops, v) ==
  /\ c \in Chips /\ ops \in Seq(Accesses) /\ v \in Values
  /\ Len(ops) <= 4 * Count + 8
  /\ \A i \in 1 .. Len(ops) : ops[i] = OpLeft(v, Len(ops) - i + 1)
  /\ c.mode \in ModesLeft(Len(ops))
  /\ \A i \in 1 .. Count :
       Len(ops) <= 4 * (Count - i) => c.data[CellSeq[i]] = v

\* The chip of a resumed machine.
Restored(s) == [mode |-> "Read", data |-> s.data]

\* What holds throughout: a flush writes the array as it stands, and the array is
\* dirty only if it changed.
Flushes ==
  /\ sets \in Nat /\ quiet \in Nat
  /\ dirty => mutated
  /\ proc \in {"down", "up", "write", "remove", "rename"}
  /\ proc \in {"remove", "rename"} => tmp = chip.data

\* What holds as long as no update was cut.
Tracked ==
  /\ proc # "down" => OnTrack(chip, todo, want)
  /\ snap # None /\ ~snap.inside => OnTrack(Restored(snap), snap.todo, snap.want)
  /\ proc \in {"write", "remove", "rename"} => Whole(chip.data)
  /\ disk # None => Whole(disk)

FlashInv == Flushes /\ (~cut => Tracked)

LEMMA CellFacts ==
  /\ Count \in Nat \ {0} /\ CellSeq \in Seq(Cells)
  /\ \A i \in 1 .. Count : CellSeq[i] \in Cells
  /\ \A c \in Cells : \E i \in 1 .. Count : c = CellSeq[i]
  /\ Head(CellSeq) \in Cells /\ Head(CellSeq) = CellSeq[1]
<1>1. CellSeq \in Seq(Cells) /\ CellSeq # <<>> /\ Cells = ToSet(CellSeq)
  BY StoreAssumption
<1>2. Count \in Nat \ {0} /\ DOMAIN CellSeq = 1 .. Count
  BY <1>1, EmptySeq DEF Count
<1>3. \A i \in 1 .. Count : CellSeq[i] \in Cells
  BY <1>1, <1>2 DEF Count
<1>4. \A c \in Cells : \E i \in 1 .. Count : c = CellSeq[i]
  BY <1>1, <1>2 DEF ToSet
<1>5. Head(CellSeq) = CellSeq[1]
  BY <1>1
<1> QED
  BY <1>1, <1>2, <1>3, <1>4, <1>5

\* The accesses of an update, by what is left.
LEMMA AccessesOfSet ==
  ASSUME NEW v \in Values, StatusReads = 2
  PROVE  /\ SetOps(v) \in Seq(Accesses) /\ Len(SetOps(v)) = 4 * Count + 8
         /\ \A i \in 1 .. 4 * Count + 8 :
              SetOps(v)[i] = OpLeft(v, (4 * Count + 8) - i + 1)
<1>1. /\ EraseOps \in Seq(Accesses) /\ Len(EraseOps) = 6
  BY CellFacts DEF EraseOps, Accesses, Put
<1>2. Status \in Accesses
  BY DEF Status, Accesses
<1>3. /\ StatusOps \in Seq(Accesses) /\ Len(StatusOps) = 2
      /\ \A i \in 1 .. 2 : StatusOps[i] = Status
  BY <1>2 DEF StatusOps
<1>4. /\ ProgramOps(v) \in Seq(Accesses) /\ Len(ProgramOps(v)) = 4 * Count
      /\ \A k \in 1 .. 4 * Count :
           ProgramOps(v)[k] = OpLeft(v, 4 * Count + 1 - k)
  <2>1. Count \in Nat /\ Count = Len(CellSeq)
    BY CellFacts DEF Count
  <2>2. ASSUME NEW k \in 1 .. 4 * Count
        PROVE  /\ ProgramOps(v)[k] = OpLeft(v, 4 * Count + 1 - k)
               /\ ProgramOps(v)[k] \in Accesses
    <3> DEFINE r == 4 * Count + 1 - k
    <3>1. /\ r \in Nat /\ ~(r > 4 * Count + 2) /\ ~(r > 4 * Count)
          /\ 4 * Count + 1 - r = k
          /\ r % 4 = 0 <=> k % 4 = 1
          /\ r % 4 = 3 <=> k % 4 = 2
          /\ r % 4 = 2 <=> k % 4 = 3
          /\ r % 4 = 1 <=> k % 4 = 0
          /\ k % 4 \in 0 .. 3
      BY <2>1
    <3>2. k % 4 = 0 => k \div 4 \in 1 .. Count
      BY <2>1
    <3>3. k % 4 = 0 => CellSeq[k \div 4] \in Cells
      BY <3>2, CellFacts
    <3>4. ProgramOps(v)[k] = CASE k % 4 = 1 -> Put(A1, "AA")
                               [] k % 4 = 2 -> Put(A2, "55")
                               [] k % 4 = 3 -> Put(A1, "A0")
                               [] k % 4 = 0 -> Put(CellSeq[k \div 4], v)
      BY <2>1 DEF ProgramOps
    <3>5. /\ Put(A1, "AA") \in Accesses /\ Put(A2, "55") \in Accesses
          /\ Put(A1, "A0") \in Accesses
          /\ k % 4 = 0 => Put(CellSeq[k \div 4], v) \in Accesses
      BY <3>3 DEF Put, Accesses
    <3>6. OpLeft(v, r) = CASE r % 4 = 0 -> Put(A1, "AA")
                           [] r % 4 = 3 -> Put(A2, "55")
                           [] r % 4 = 2 -> Put(A1, "A0")
                           [] r % 4 = 1 -> Put(CellSeq[(4 * Count + 1 - r) \div 4], v)
      BY <3>1 DEF OpLeft
    <3> HIDE DEF r
    <3>7. OpLeft(v, r) = ProgramOps(v)[k]
      BY <3>1, <3>4, <3>6
    <3>8. ProgramOps(v)[k] \in Accesses
      BY <3>1, <3>4, <3>5
    <3> QED
      BY <3>7, <3>8 DEF r
  <2>3. DOMAIN ProgramOps(v) = 1 .. 4 * Count /\ 4 * Count \in Nat
    BY <2>1 DEF ProgramOps
  <2>4. ProgramOps(v) \in [1 .. 4 * Count -> Accesses]
    BY <2>1, <2>2 DEF ProgramOps
  <2> QED
    BY <2>2, <2>3, <2>4
<1>5. /\ EraseOps \o StatusOps \in Seq(Accesses)
      /\ Len(EraseOps \o StatusOps) = 8
      /\ \A i \in 1 .. 8 :
           (EraseOps \o StatusOps)[i] = IF i <= 6 THEN EraseOps[i] ELSE Status
  <2>1. /\ EraseOps \o StatusOps \in Seq(Accesses)
        /\ Len(EraseOps \o StatusOps) = Len(EraseOps) + Len(StatusOps)
        /\ \A i \in 1 .. Len(EraseOps) + Len(StatusOps) :
             (EraseOps \o StatusOps)[i] =
               IF i <= Len(EraseOps) THEN EraseOps[i]
               ELSE StatusOps[i - Len(EraseOps)]
    BY <1>1, <1>3, ConcatProperties
  <2>2. \A i \in 1 .. 8 : i > 6 => i - 6 \in 1 .. 2
    OBVIOUS
  <2> QED
    BY <1>1, <1>3, <2>1, <2>2
<1>6. /\ SetOps(v) \in Seq(Accesses) /\ Len(SetOps(v)) = 8 + 4 * Count
      /\ \A i \in 1 .. 8 + 4 * Count :
           SetOps(v)[i] = IF i <= 8 THEN (EraseOps \o StatusOps)[i]
                          ELSE ProgramOps(v)[i - 8]
  BY <1>4, <1>5, ConcatProperties DEF SetOps
<1>7. ASSUME NEW i \in 1 .. 4 * Count + 8
      PROVE  SetOps(v)[i] = OpLeft(v, (4 * Count + 8) - i + 1)
  <2>1. Count \in Nat
    BY CellFacts
  <2>2. CASE i <= 6
    <3>1. /\ (4 * Count + 8) - i + 1 > 4 * Count + 2 /\ i \in 1 .. 8
          /\ 4 * Count + 9 - ((4 * Count + 8) - i + 1) = i
          /\ i \in 1 .. 8 + 4 * Count /\ i <= 8
      BY <2>1, <2>2
    <3>2. SetOps(v)[i] = (EraseOps \o StatusOps)[i]
      BY <1>6, <3>1, Zenon
    <3>3. (EraseOps \o StatusOps)[i] = EraseOps[i]
      BY <1>5, <2>2, <3>1, Zenon
    <3>4. OpLeft(v, (4 * Count + 8) - i + 1) =
            EraseOps[4 * Count + 9 - ((4 * Count + 8) - i + 1)]
      BY <3>1, Zenon DEF OpLeft
    <3> QED
      BY <3>1, <3>2, <3>3, <3>4, Zenon
  <2>3. CASE i > 6 /\ i <= 8
    <3>1. /\ ~((4 * Count + 8) - i + 1 > 4 * Count + 2) /\ i \in 1 .. 8
          /\ (4 * Count + 8) - i + 1 > 4 * Count /\ ~(i <= 6)
          /\ i \in 1 .. 8 + 4 * Count
      BY <2>1, <2>3
    <3> QED
      BY <1>5, <1>6, <2>3, <3>1 DEF OpLeft
  <2>4. CASE i > 8
    <3>1. /\ i - 8 \in 1 .. 4 * Count /\ ~(i <= 8)
          /\ 4 * Count + 1 - (i - 8) = (4 * Count + 8) - i + 1
          /\ i \in 1 .. 8 + 4 * Count
      BY <2>1, <2>4
    <3>2. SetOps(v)[i] = ProgramOps(v)[i - 8]
      BY <1>6, <3>1
    <3>3. ProgramOps(v)[i - 8] = OpLeft(v, 4 * Count + 1 - (i - 8))
      BY <1>4, <3>1
    <3> QED
      BY <3>1, <3>2, <3>3
  <2> QED
    BY <2>2, <2>3, <2>4
<1> QED
  BY <1>6, <1>7, CellFacts

\* What an access does to the chip.
Accessed(c, a) == IF a = Status THEN ReadChip(c) ELSE WriteChip(c, a.off, a.d)

LEMMA PutExact ==
  ASSUME None \notin {A1, A2} \union Cells, NEW o \in {A1, A2} \union Cells, NEW b
  PROVE  Put(o, b) # Status /\ Put(o, b).off = o /\ Put(o, b).d = b
BY DEF Put, Status

\* The command bytes of an update.
LEMMA Advances ==
  /\ Advance("Read", A1, "AA") = "Step1" /\ Advance("Step1", A2, "55") = "Step2"
  /\ Advance("Step2", A1, "80") = "Erase3" /\ Advance("Step2", A1, "A0") = "Program"
  /\ Advance("Erase3", A1, "AA") = "Erase4" /\ Advance("Erase4", A2, "55") = "Erase5"
  /\ \A o : Advance("Erase5", o, "30") = "Confirm1"
  /\ \A o, b : Advance("Program", o, b) = "Read"
BY DEF Advance, A1, A2

LEMMA ModesExact ==
  ASSUME NEW r \in Nat
  PROVE  /\ ModesLeft(4 * Count + 8) = {"Read"}
         /\ ModesLeft(4 * Count + 7) = {"Step1"}
         /\ ModesLeft(4 * Count + 6) = {"Step2"}
         /\ ModesLeft(4 * Count + 5) = {"Erase3"}
         /\ ModesLeft(4 * Count + 4) = {"Erase4"}
         /\ ModesLeft(4 * Count + 3) = {"Erase5"}
         /\ ModesLeft(4 * Count + 2) = {"Confirm1", "Read"}
         /\ ModesLeft(4 * Count + 1) = {"Confirm0", "Read"}
         /\ r <= 4 * Count =>
              ModesLeft(r) = CASE r % 4 = 0 -> {"Read"} [] r % 4 = 3 -> {"Step1"}
                               [] r % 4 = 2 -> {"Step2"} [] r % 4 = 1 -> {"Program"}
<1>1. Count \in Nat
  BY CellFacts
<1> QED
  BY <1>1 DEF ModesLeft

\* A write: the mode it leads to, and the data of all but the erase.
LEMMA ProgramExact ==
  ASSUME NEW c \in Chips, NEW o \in Cells, NEW b \in Values, c.mode = "Program"
  PROVE  /\ WriteChip(c, o, b) \in Chips /\ WriteChip(c, o, b).mode = "Read"
         /\ WriteChip(c, o, b).data = [c.data EXCEPT ![o] = b]
<1>1. Advance(c.mode, o, b) = "Read" /\ "Read" \in Modes
  BY Advances DEF Modes
<1> QED
  BY <1>1 DEF WriteChip, Chips, Images, Erases, Programs

LEMMA EraseExact ==
  ASSUME NEW c \in Chips, NEW o, NEW b, c.mode # "Program",
         Advance(c.mode, o, b) \in Modes
  PROVE  /\ WriteChip(c, o, b) \in Chips
         /\ WriteChip(c, o, b).mode = Advance(c.mode, o, b)
BY DEF WriteChip, Chips, Images, Erases, Programs

LEMMA CommandExact ==
  ASSUME NEW c \in Chips, NEW o, NEW b, c.mode # "Erase5", c.mode # "Program",
         Advance(c.mode, o, b) \in Modes
  PROVE  /\ WriteChip(c, o, b) \in Chips /\ WriteChip(c, o, b).data = c.data
         /\ WriteChip(c, o, b).mode = Advance(c.mode, o, b)
BY DEF WriteChip, Chips, Images, Erases, Programs

LEMMA ReadExact ==
  ASSUME NEW c \in Chips
  PROVE  /\ ReadChip(c) \in Chips /\ ReadChip(c).data = c.data
         /\ c.mode \in {"Confirm1", "Read"} => ReadChip(c).mode \in {"Confirm0", "Read"}
         /\ c.mode \in {"Confirm0", "Read"} => ReadChip(c).mode = "Read"
BY DEF ReadChip, Chips, Modes

\* The next access of an update: the modes stay on track, and of the data a
\* program changes the one cell that is its turn.
LEMMA AccessExact ==
  ASSUME None \notin {A1, A2} \union Cells, NEW c \in Chips, NEW v \in Values,
         NEW r \in Nat, r > 0, r <= 4 * Count + 8, c.mode \in ModesLeft(r)
  PROVE  /\ Accessed(c, OpLeft(v, r)) \in Chips
         /\ Accessed(c, OpLeft(v, r)).mode \in ModesLeft(r - 1)
         /\ r <= 4 * Count /\ r % 4 # 1 => Accessed(c, OpLeft(v, r)).data = c.data
         /\ r <= 4 * Count /\ r % 4 = 1 =>
              Accessed(c, OpLeft(v, r)).data =
                [c.data EXCEPT ![CellSeq[(4 * Count + 1 - r) \div 4]] = v]
<1> DEFINE q == 4 * Count
           a == OpLeft(v, r)
           Goal == /\ Accessed(c, a) \in Chips
                   /\ Accessed(c, a).mode \in ModesLeft(r - 1)
                   /\ r <= q /\ r % 4 # 1 => Accessed(c, a).data = c.data
                   /\ r <= q /\ r % 4 = 1 =>
                        Accessed(c, a).data =
                          [c.data EXCEPT ![CellSeq[(q + 1 - r) \div 4]] = v]
<1>0. Count \in Nat \ {0} /\ q \in Nat /\ Head(CellSeq) \in Cells
  BY CellFacts
<1>1. \A o \in {A1, A2} \union Cells : \A b :
        a = Put(o, b) => Accessed(c, a) = WriteChip(c, o, b)
  BY PutExact DEF Accessed
<1>2. ASSUME r > q + 2 PROVE Goal
  <2>1. a = EraseOps[q + 9 - r]
    BY <1>2 DEF OpLeft
  <2>2. r \in {q + 3, q + 4, q + 5, q + 6, q + 7, q + 8} /\ ~(r <= q)
    BY <1>0, <1>2
  <2>3. /\ EraseOps[1] = Put(A1, "AA") /\ EraseOps[2] = Put(A2, "55")
        /\ EraseOps[3] = Put(A1, "80") /\ EraseOps[4] = Put(A1, "AA")
        /\ EraseOps[5] = Put(A2, "55") /\ EraseOps[6] = Put(Head(CellSeq), "30")
    BY DEF EraseOps
  <2>4. ASSUME NEW o \in {A1, A2} \union Cells, NEW b, a = Put(o, b),
               Advance(c.mode, o, b) \in Modes, c.mode # "Program",
               Advance(c.mode, o, b) \in ModesLeft(r - 1)
        PROVE  Goal
    <3>1. Accessed(c, a) = WriteChip(c, o, b)
      BY <1>1, <2>4
    <3>2. WriteChip(c, o, b) \in Chips /\ WriteChip(c, o, b).mode = Advance(c.mode, o, b)
      BY <2>4, EraseExact
    <3> QED
      BY <2>2, <2>4, <3>1, <3>2
  <2> HIDE DEF a, Goal
  <2>5. CASE r = q + 8
    <3>1. q + 9 - r = 1 /\ r - 1 = q + 7
      BY <1>0, <2>5
    <3>2. c.mode = "Read" /\ a = Put(A1, "AA")
      BY <2>1, <2>3, <2>5, <3>1, ModesExact
    <3> QED
      BY <2>4, <3>1, <3>2, Advances, ModesExact DEF Modes
  <2>6. CASE r = q + 7
    <3>1. q + 9 - r = 2 /\ r - 1 = q + 6
      BY <1>0, <2>6
    <3>2. c.mode = "Step1" /\ a = Put(A2, "55")
      BY <2>1, <2>3, <2>6, <3>1, ModesExact
    <3> QED
      BY <2>4, <3>1, <3>2, Advances, ModesExact DEF Modes
  <2>7. CASE r = q + 6
    <3>1. q + 9 - r = 3 /\ r - 1 = q + 5
      BY <1>0, <2>7
    <3>2. c.mode = "Step2" /\ a = Put(A1, "80")
      BY <2>1, <2>3, <2>7, <3>1, ModesExact
    <3> QED
      BY <2>4, <3>1, <3>2, Advances, ModesExact DEF Modes
  <2>8. CASE r = q + 5
    <3>1. q + 9 - r = 4 /\ r - 1 = q + 4
      BY <1>0, <2>8
    <3>2. c.mode = "Erase3" /\ a = Put(A1, "AA")
      BY <2>1, <2>3, <2>8, <3>1, ModesExact
    <3> QED
      BY <2>4, <3>1, <3>2, Advances, ModesExact DEF Modes
  <2>9. CASE r = q + 4
    <3>1. q + 9 - r = 5 /\ r - 1 = q + 3
      BY <1>0, <2>9
    <3>2. c.mode = "Erase4" /\ a = Put(A2, "55")
      BY <2>1, <2>3, <2>9, <3>1, ModesExact
    <3> QED
      BY <2>4, <3>1, <3>2, Advances, ModesExact DEF Modes
  <2>10. CASE r = q + 3
    <3>1. q + 9 - r = 6 /\ r - 1 = q + 2
      BY <1>0, <2>10
    <3>2. c.mode = "Erase5" /\ a = Put(Head(CellSeq), "30")
      BY <2>1, <2>3, <2>10, <3>1, ModesExact
    <3> QED
      BY <1>0, <2>4, <3>1, <3>2, Advances, ModesExact DEF Modes
  <2> QED
    BY <2>2, <2>5, <2>6, <2>7, <2>8, <2>9, <2>10
<1>3. ASSUME r > q, ~(r > q + 2) PROVE Goal
  <2>1. a = Status /\ ~(r <= q)
    BY <1>0, <1>3 DEF OpLeft
  <2>2. Accessed(c, a) = ReadChip(c)
    BY <2>1 DEF Accessed
  <2>3. CASE r = q + 2
    <3>1. r - 1 = q + 1 /\ c.mode \in {"Confirm1", "Read"}
      BY <1>0, <2>3, ModesExact
    <3> QED
      BY <2>1, <2>2, <3>1, ReadExact, ModesExact
  <2>4. CASE r = q + 1
    <3>1. r - 1 = q /\ c.mode \in {"Confirm0", "Read"}
      BY <1>0, <2>4, ModesExact
    <3>2. ModesLeft(q) = {"Read"}
      BY <1>0, ModesExact
    <3> QED
      BY <2>1, <2>2, <3>1, <3>2, ReadExact
  <2> QED
    BY <1>0, <1>3, <2>3, <2>4
<1>4. ASSUME ~(r > q) PROVE Goal
  <2>1. r <= q /\ r - 1 \in Nat /\ r - 1 <= q /\ r % 4 \in 0 .. 3 /\ ~(r > q + 2)
    BY <1>0, <1>4
  <2>2. /\ r % 4 = 0 => (r - 1) % 4 = 3
        /\ r % 4 = 3 => (r - 1) % 4 = 2
        /\ r % 4 = 2 => (r - 1) % 4 = 1
        /\ r % 4 = 1 => (r - 1) % 4 = 0
    OBVIOUS
  <2>3. a = CASE r % 4 = 0 -> Put(A1, "AA") [] r % 4 = 3 -> Put(A2, "55")
              [] r % 4 = 2 -> Put(A1, "A0")
              [] r % 4 = 1 -> Put(CellSeq[(q + 1 - r) \div 4], v)
    BY <1>4, <2>1 DEF OpLeft
  <2>4. r % 4 = 1 => (q + 1 - r) \div 4 \in 1 .. Count
    BY <1>0, <2>1
  <2>5. /\ ModesLeft(r) = CASE r % 4 = 0 -> {"Read"} [] r % 4 = 3 -> {"Step1"}
                            [] r % 4 = 2 -> {"Step2"} [] r % 4 = 1 -> {"Program"}
        /\ ModesLeft(r - 1) = CASE (r - 1) % 4 = 0 -> {"Read"}
                                [] (r - 1) % 4 = 3 -> {"Step1"}
                                [] (r - 1) % 4 = 2 -> {"Step2"}
                                [] (r - 1) % 4 = 1 -> {"Program"}
    BY <2>1, ModesExact
  <2>6. ASSUME NEW o \in {A1, A2} \union Cells, NEW b, a = Put(o, b), r % 4 # 1,
               c.mode # "Erase5", c.mode # "Program", Advance(c.mode, o, b) \in Modes,
               Advance(c.mode, o, b) \in ModesLeft(r - 1)
        PROVE  Goal
    <3>1. Accessed(c, a) = WriteChip(c, o, b)
      BY <1>1, <2>6
    <3>2. /\ WriteChip(c, o, b) \in Chips /\ WriteChip(c, o, b).data = c.data
          /\ WriteChip(c, o, b).mode = Advance(c.mode, o, b)
      BY <2>6, CommandExact
    <3> QED
      BY <2>6, <3>1, <3>2
  <2> HIDE DEF a
  <2>7. CASE r % 4 \in {0, 2, 3}
    <3> HIDE DEF Goal
    <3>1. CASE r % 4 = 0
      <4>1. a = Put(A1, "AA") /\ c.mode = "Read" /\ ModesLeft(r - 1) = {"Step1"}
        BY <2>2, <2>3, <2>5, <3>1
      <4>2. Advance(c.mode, A1, "AA") = "Step1" /\ "Step1" \in Modes
        BY <4>1, Advances DEF Modes
      <4>3. c.mode # "Erase5" /\ c.mode # "Program" /\ r % 4 # 1
        BY <3>1, <4>1
      <4> QED
        BY <2>6, <4>1, <4>2, <4>3
    <3>2. CASE r % 4 = 3
      <4>1. a = Put(A2, "55") /\ c.mode = "Step1" /\ ModesLeft(r - 1) = {"Step2"}
        BY <2>2, <2>3, <2>5, <3>2
      <4>2. Advance(c.mode, A2, "55") = "Step2" /\ "Step2" \in Modes
        BY <4>1, Advances DEF Modes
      <4>3. c.mode # "Erase5" /\ c.mode # "Program" /\ r % 4 # 1
        BY <3>2, <4>1
      <4> QED
        BY <2>6, <4>1, <4>2, <4>3
    <3>3. CASE r % 4 = 2
      <4>1. a = Put(A1, "A0") /\ c.mode = "Step2" /\ ModesLeft(r - 1) = {"Program"}
        BY <2>2, <2>3, <2>5, <3>3
      <4>2. Advance(c.mode, A1, "A0") = "Program" /\ "Program" \in Modes
        BY <4>1, Advances DEF Modes
      <4>3. c.mode # "Erase5" /\ c.mode # "Program" /\ r % 4 # 1
        BY <3>3, <4>1
      <4> QED
        BY <2>6, <4>1, <4>2, <4>3
    <3> QED
      BY <2>7, <3>1, <3>2, <3>3
  <2>8. CASE r % 4 = 1
    <3> DEFINE o == CellSeq[(q + 1 - r) \div 4]
    <3>1. a = Put(o, v) /\ c.mode = "Program" /\ ModesLeft(r - 1) = {"Read"}
      BY <2>2, <2>3, <2>5, <2>8
    <3>2. o \in Cells
      BY <2>4, <2>8, CellFacts
    <3> HIDE DEF o
    <3>3. Accessed(c, a) = WriteChip(c, o, v)
      BY <1>1, <3>1, <3>2
    <3>4. /\ WriteChip(c, o, v) \in Chips /\ WriteChip(c, o, v).mode = "Read"
          /\ WriteChip(c, o, v).data = [c.data EXCEPT ![o] = v]
      BY <3>1, <3>2, ProgramExact
    <3> QED
      BY <2>8, <3>1, <3>3, <3>4 DEF o
  <2> QED
    BY <2>1, <2>7, <2>8
<1> QED
  BY <1>2, <1>3, <1>4

(* The next access of an update on track leaves it on track.                   *)
LEMMA AccessKeepsTrack ==
  ASSUME None \notin {A1, A2} \union Cells, NEW c, NEW ops, NEW v,
         OnTrack(c, ops, v), ops # <<>>
  PROVE  OnTrack(Accessed(c, Head(ops)), Tail(ops), v)
<1> DEFINE r == Len(ops)
           d == Accessed(c, Head(ops))
<1>1. /\ c \in Chips /\ ops \in Seq(Accesses) /\ v \in Values
      /\ r <= 4 * Count + 8 /\ c.mode \in ModesLeft(r)
      /\ \A i \in 1 .. r : ops[i] = OpLeft(v, r - i + 1)
      /\ \A i \in 1 .. Count : r <= 4 * (Count - i) => c.data[CellSeq[i]] = v
  BY DEF OnTrack
<1>2. /\ r \in Nat /\ r > 0 /\ Head(ops) = ops[1]
      /\ Tail(ops) \in Seq(Accesses) /\ Len(Tail(ops)) = r - 1
      /\ \A i \in 1 .. r - 1 : Tail(ops)[i] = ops[i + 1]
  BY <1>1, HeadTailProperties, EmptySeq
<1> HIDE DEF r
<1>3. Count \in Nat \ {0} /\ \A i \in 1 .. Count : CellSeq[i] \in Cells
  BY CellFacts
<1>4. Head(ops) = OpLeft(v, r)
  <2>1. 1 \in 1 .. r /\ r - 1 + 1 = r
    BY <1>2
  <2> QED
    BY <1>1, <1>2, <2>1
<1>5. ASSUME NEW i \in 1 .. r - 1
      PROVE  Tail(ops)[i] = OpLeft(v, (r - 1) - i + 1)
  <2>1. i + 1 \in 1 .. r /\ r - (i + 1) + 1 = (r - 1) - i + 1
    BY <1>2
  <2> QED
    BY <1>1, <1>2, <2>1
<1>6. /\ d \in Chips /\ d.mode \in ModesLeft(r - 1)
      /\ r <= 4 * Count /\ r % 4 # 1 => d.data = c.data
      /\ r <= 4 * Count /\ r % 4 = 1 =>
           d.data = [c.data EXCEPT ![CellSeq[(4 * Count + 1 - r) \div 4]] = v]
  BY <1>1, <1>2, <1>4, AccessExact
<1> HIDE DEF d
<1>7. ASSUME NEW i \in 1 .. Count, r - 1 <= 4 * (Count - i)
      PROVE  d.data[CellSeq[i]] = v
  <2>1. c.data \in Images /\ CellSeq[i] \in Cells
    BY <1>1, <1>3 DEF Chips
  <2>2. r <= 4 * Count
    BY <1>2, <1>3, <1>7
  <2>3. CASE r <= 4 * (Count - i)
    <3>1. c.data[CellSeq[i]] = v
      BY <1>1, <2>3
    <3>2. CASE r % 4 = 1
      <4>1. d.data = [c.data EXCEPT ![CellSeq[(4 * Count + 1 - r) \div 4]] = v]
        BY <1>6, <2>2, <3>2
      <4> QED
        BY <2>1, <3>1, <4>1 DEF Images
    <3>3. CASE r % 4 # 1
      BY <1>6, <2>2, <3>1, <3>3
    <3> QED
      BY <3>2, <3>3
  <2>4. CASE ~(r <= 4 * (Count - i))
    <3>1. r = 4 * (Count - i) + 1
      BY <1>2, <1>3, <1>7, <2>4
    <3>2. r % 4 = 1 /\ (4 * Count + 1 - r) \div 4 = i
      <4>1. i \in Int /\ Count \in Int
        BY <1>3
      <4>2. 4 * Count + 1 - r = 4 * i
        BY <3>1, <4>1
      <4>3. (4 * i) \div 4 = i
        BY <4>1
      <4>4. r % 4 = 1
        BY <3>1, <4>1
      <4> QED
        BY <4>2, <4>3, <4>4
    <3>3. d.data = [c.data EXCEPT ![CellSeq[i]] = v]
      BY <1>6, <2>2, <3>2
    <3> QED
      BY <2>1, <3>3 DEF Images
  <2> QED
    BY <2>3, <2>4
<1>8. r - 1 <= 4 * Count + 8
  BY <1>1, <1>2, <1>3
<1> QED
  BY <1>1, <1>2, <1>5, <1>6, <1>7, <1>8 DEF OnTrack, d, r

(* At the end of an update the array holds the environment set.                *)
LEMMA TrackEnds ==
  ASSUME NEW c, NEW v, OnTrack(c, <<>>, v)
  PROVE  c.data = Full(v) /\ Whole(c.data)
<1>1. c.data \in Images /\ v \in Values
  BY DEF OnTrack, Chips
<1>2. Count \in Nat \ {0} /\ Len(<<>>) = 0
  BY CellFacts
<1>3. \A i \in 1 .. Count : 0 <= 4 * (Count - i)
  BY <1>2
<1>4. \A i \in 1 .. Count : c.data[CellSeq[i]] = v
  BY <1>2, <1>3 DEF OnTrack
<1>5. \A x \in Cells : c.data[x] = v
  BY <1>4, CellFacts
<1>6. c.data = Full(v)
  BY <1>1, <1>5 DEF Images, Full
<1> QED
  BY <1>1, <1>6 DEF Whole

(* A whole image is the end of an update.                                      *)
LEMMA WholeIsOnTrack ==
  ASSUME NEW v \in Values
  PROVE  OnTrack([mode |-> "Read", data |-> Full(v)], <<>>, v)
<1>1. Count \in Nat \ {0} /\ \A i \in 1 .. Count : CellSeq[i] \in Cells
  BY CellFacts
<1>2. <<>> \in Seq(Accesses) /\ Len(<<>>) = 0
  OBVIOUS
<1>3. ModesLeft(0) = {"Read"}
  BY <1>1, ModesExact
<1>4. [mode |-> "Read", data |-> Full(v)] \in Chips
  BY DEF Chips, Modes, Images, Full
<1>5. \A i \in 1 .. Count : Full(v)[CellSeq[i]] = v
  BY <1>1 DEF Full
<1>6. [mode |-> "Read", data |-> Full(v)].data = Full(v)
  OBVIOUS
<1>7. 0 <= 4 * Count + 8 /\ \A i \in 1 .. 0 : FALSE
  BY <1>1
<1> QED
  BY <1>2, <1>3, <1>4, <1>5, <1>6, <1>7 DEF OnTrack

LEMMA StartIsOnTrack ==
  ASSUME NEW c \in Chips, NEW ops \in Seq(Accesses), NEW v \in Values,
         NEW n \in Nat, n = 4 * Count + 8, Len(ops) = n, c.mode = "Read",
         \A i \in 1 .. n : ops[i] = OpLeft(v, n - i + 1)
  PROVE  OnTrack(c, ops, v)
<1>1. Count \in Nat \ {0}
  BY CellFacts
<1>2. c.mode \in ModesLeft(n)
  BY <1>1, ModesExact
<1>3. n <= 4 * Count + 8 /\ \A i \in 1 .. Count : ~(n <= 4 * (Count - i))
  BY <1>1
<1> QED
  BY <1>2, <1>3, Zenon DEF OnTrack

(* Between two updates the chip may start the next one.                        *)
LEMMA SetIsOnTrack ==
  ASSUME StatusReads = 2, NEW c \in Chips, c.mode = "Read", NEW v \in Values
  PROVE  OnTrack(c, SetOps(v), v)
<1> DEFINE n == 4 * Count + 8
<1>1. n \in Nat
  BY CellFacts
<1>2. /\ SetOps(v) \in Seq(Accesses) /\ Len(SetOps(v)) = n
      /\ \A i \in 1 .. n : SetOps(v)[i] = OpLeft(v, n - i + 1)
  BY AccessesOfSet, Zenon
<1>3. n = 4 * Count + 8
  OBVIOUS
<1> HIDE DEF n
<1> QED
  BY <1>1, <1>2, <1>3, StartIsOnTrack, Zenon

LEMMA EndMode ==
  ASSUME NEW c, NEW v, OnTrack(c, <<>>, v)
  PROVE  c \in Chips /\ c.mode = "Read"
<1>1. Count \in Nat \ {0} /\ Len(<<>>) = 0
  BY CellFacts
<1>2. ModesLeft(0) = {"Read"}
  BY <1>1, ModesExact
<1> QED
  BY <1>1, <1>2 DEF OnTrack

(* A machine saved between two commands resumes on track.                      *)
LEMMA RestoredIsOnTrack ==
  ASSUME NEW c, NEW ops, NEW v, OnTrack(c, ops, v), c.mode \notin Commands
  PROVE  OnTrack([mode |-> "Read", data |-> c.data], ops, v)
<1>1. c \in Chips /\ ops \in Seq(Accesses) /\ Len(ops) \in Nat
  BY DEF OnTrack
<1>2. Count \in Nat \ {0} /\ Len(ops) <= 4 * Count + 8 /\ c.mode \in ModesLeft(Len(ops))
  BY CellFacts DEF OnTrack
<1>3. \A r \in Nat : r <= 4 * Count + 8 /\ c.mode \in ModesLeft(r) => "Read" \in ModesLeft(r)
  <2> TAKE r \in Nat
  <2> HAVE r <= 4 * Count + 8 /\ c.mode \in ModesLeft(r)
  <2>1. CASE r <= 4 * Count
    <3>1. r % 4 \in 0 .. 3
      OBVIOUS
    <3>2. ModesLeft(r) = CASE r % 4 = 0 -> {"Read"} [] r % 4 = 3 -> {"Step1"}
                           [] r % 4 = 2 -> {"Step2"} [] r % 4 = 1 -> {"Program"}
      BY <2>1, ModesExact
    <3> QED
      BY <3>1, <3>2 DEF Commands
  <2>2. CASE r > 4 * Count
    <3>1. r \in {4 * Count + 1, 4 * Count + 2, 4 * Count + 3, 4 * Count + 4,
                 4 * Count + 5, 4 * Count + 6, 4 * Count + 7, 4 * Count + 8}
      BY <1>2, <2>2
    <3> QED
      BY <3>1, ModesExact DEF Commands
  <2> QED
    BY <1>2, <2>1, <2>2
<1>4. "Read" \in ModesLeft(Len(ops))
  BY <1>1, <1>2, <1>3
<1>5. [mode |-> "Read", data |-> c.data] \in Chips
  BY <1>1 DEF Chips, Modes
<1> QED
  BY <1>4, <1>5 DEF OnTrack

LEMMA FlashInitially == Init => FlashInv
BY DEF Init, FlashInv, Flushes, Tracked

(* Every step of guest, process and flush keeps the files and the dirty flag.  *)
LEMMA FlushesKept ==
  ASSUME Flushes, [Next]_vars
  PROVE  Flushes'
<1> USE DEF Flushes, files, guest, counts, history
<1>1. CASE StartSet
  BY <1>1 DEF StartSet
<1>2. CASE BusAccess
  BY <1>2 DEF BusAccess
<1>3. CASE Boot
  BY <1>3 DEF Boot
<1>4. CASE Crash
  BY <1>4 DEF Crash
<1>5. CASE Stop
  BY <1>5 DEF Stop
<1>6. CASE Save
  BY <1>6 DEF Save
<1>7. CASE Resume
  BY <1>7, StoreAssumption DEF Resume
<1>8. CASE Poll
  BY <1>8 DEF Poll
<1>9. CASE WriteTmp
  BY <1>9 DEF WriteTmp
<1>10. CASE RemoveOld
  BY <1>10 DEF RemoveOld
<1>11. CASE Rename
  BY <1>11 DEF Rename, Returned
<1>12. CASE WriteTmpFails
  BY <1>12 DEF WriteTmpFails, Returned
<1>13. CASE RenameFails
  BY <1>13 DEF RenameFails, Returned
<1>14. CASE UNCHANGED vars
  BY <1>14 DEF vars
<1> QED
  BY <1>1, <1>2, <1>3, <1>4, <1>5, <1>6, <1>7, <1>8, <1>9, <1>10, <1>11, <1>12,
     <1>13, <1>14 DEF Next, Flush

(* Unless it cuts an update, every step keeps the guest, the snapshot and the  *)
(* file on track.                                                              *)
LEMMA TrackedKept ==
  ASSUME StatusReads = 2, None \notin {A1, A2} \union Cells,
         Flushes, ~cut => Tracked, [Next]_vars, ~cut'
  PROVE  Tracked'
<1>0. /\ proc # "down" /\ ~cut => OnTrack(chip, todo, want)
      /\ snap # None /\ ~snap.inside /\ ~cut =>
           OnTrack(Restored(snap), snap.todo, snap.want)
      /\ proc \in {"write", "remove", "rename"} /\ ~cut => Whole(chip.data)
      /\ disk # None /\ ~cut => Whole(disk)
  BY DEF Tracked
<1>1. CASE StartSet
  <2>1. /\ proc = "up" /\ todo = <<>> /\ sets < Len(Envs) /\ ~cut
        /\ want' = Envs[sets + 1] /\ todo' = SetOps(want')
        /\ UNCHANGED <<chip, disk, snap, proc>>
    BY <1>1 DEF StartSet, files, history
  <2>2. want' \in Values
    BY <2>1, StoreAssumption DEF Flushes
  <2>3. OnTrack(chip, <<>>, want)
    BY <1>0, <2>1
  <2>4. chip \in Chips /\ chip.mode = "Read"
    BY <2>3, EndMode
  <2>5. OnTrack(chip', todo', want')
    BY <2>1, <2>2, <2>4, SetIsOnTrack
  <2> QED
    BY <1>0, <2>1, <2>5 DEF Tracked, Restored
<1>2. CASE BusAccess
  <2>1. /\ proc = "up" /\ todo # <<>> /\ ~cut
        /\ chip' = Accessed(chip, Head(todo)) /\ todo' = Tail(todo)
        /\ UNCHANGED <<want, disk, snap, proc>>
    BY <1>2 DEF BusAccess, files, Accessed
  <2>2. OnTrack(chip', todo', want')
    BY <1>0, <2>1, AccessKeepsTrack
  <2> QED
    BY <1>0, <2>1, <2>2 DEF Tracked, Restored
<1>3. CASE Boot
  <2>1. /\ ~cut /\ proc' = "up" /\ todo' = <<>> /\ UNCHANGED <<disk, snap>>
        /\ chip' = [mode |-> "Read", data |-> IF disk = None THEN Full(RomEnv) ELSE disk]
        /\ want' = IF disk = None THEN RomEnv ELSE disk[Head(CellSeq)]
    BY <1>3 DEF Boot, files
  <2>2. CASE disk = None
    <3>1. chip' = [mode |-> "Read", data |-> Full(RomEnv)] /\ want' = RomEnv
      BY <2>1, <2>2
    <3>2. OnTrack(chip', todo', want')
      BY <2>1, <3>1, WholeIsOnTrack, StoreAssumption
    <3> QED
      BY <1>0, <2>1, <2>2, <3>2 DEF Tracked, Restored
  <2>3. CASE disk # None
    <3>1. PICK v \in Values : disk = Full(v)
      BY <1>0, <2>1, <2>3 DEF Whole
    <3>2. disk[Head(CellSeq)] = v
      BY <3>1, CellFacts DEF Full
    <3>3. chip' = [mode |-> "Read", data |-> Full(v)] /\ want' = v
      BY <2>1, <2>3, <3>1, <3>2
    <3>4. OnTrack(chip', todo', want')
      BY <2>1, <3>3, WholeIsOnTrack
    <3> QED
      BY <1>0, <2>1, <2>3, <3>4 DEF Tracked, Restored
  <2> QED
    BY <2>2, <2>3
<1>4. CASE Crash
  BY <1>0, <1>4 DEF Crash, Tracked, Restored, files, history
<1>5. CASE Stop
  <2>1. /\ proc = "up" /\ ~cut /\ todo = <<>> /\ UNCHANGED <<chip, todo, want, disk, snap>>
        /\ proc' = IF dirty THEN "write" ELSE "down"
    BY <1>5 DEF Stop, files, guest
  <2>2. OnTrack(chip, todo, want) /\ Whole(chip.data)
    BY <1>0, <2>1, TrackEnds
  <2> QED
    BY <1>0, <2>1, <2>2 DEF Tracked, Restored
<1>6. CASE Save
  <2>1. /\ proc = "up" /\ ~cut /\ UNCHANGED <<chip, todo, want, disk, proc>>
        /\ snap' = [data |-> chip.data, want |-> want, todo |-> todo,
                    inside |-> chip.mode \in Commands]
    BY <1>6 DEF Save, files, guest, history
  <2>2. OnTrack(chip, todo, want)
    BY <1>0, <2>1
  <2>3. ~snap'.inside => OnTrack(Restored(snap'), snap'.todo, snap'.want)
    BY <2>1, <2>2, RestoredIsOnTrack DEF Restored
  <2> QED
    BY <1>0, <2>1, <2>2, <2>3 DEF Tracked, Restored
<1>7. CASE Resume
  <2>1. /\ snap # None /\ proc = "up" /\ ~cut /\ ~snap.inside
        /\ UNCHANGED <<disk, snap, proc>>
        /\ chip' = Restored(snap) /\ todo' = snap.todo /\ want' = snap.want
    BY <1>7 DEF Resume, Restored, files
  <2>2. OnTrack(Restored(snap), snap.todo, snap.want)
    BY <1>0, <2>1
  <2> QED
    BY <1>0, <2>1, <2>2 DEF Tracked, Restored
<1>8. CASE Poll
  <2>1. /\ proc = "up" /\ ~cut /\ UNCHANGED <<chip, todo, want, disk, snap>>
        /\ proc' = IF ~pending /\ dirty /\ quiet + 1 >= Window THEN "write" ELSE "up"
        /\ dirty /\ todo # <<>> /\ ~Whole(chip.data) => pending \/ quiet + 1 < Window
    BY <1>8 DEF Poll, GapShort, files, guest, history
  <2>2. OnTrack(chip, todo, want)
    BY <1>0, <2>1
  <2>3. proc' = "write" => Whole(chip.data)
    <3>1. todo = <<>> => Whole(chip.data)
      BY <2>2, TrackEnds
    <3>2. ~(quiet + 1 >= Window /\ quiet + 1 < Window)
      BY StoreAssumption DEF Flushes
    <3> QED
      BY <2>1, <3>1, <3>2
  <2> QED
    BY <1>0, <2>1, <2>2, <2>3 DEF Tracked, Restored
<1>9. CASE WriteTmp
  BY <1>0, <1>9 DEF WriteTmp, Tracked, Restored, guest, history
<1>10. CASE RemoveOld
  BY <1>0, <1>10 DEF RemoveOld, Tracked, Restored, guest, history
<1>11. CASE Rename
  <2>1. /\ proc = "rename" /\ ~cut /\ disk' = tmp /\ proc' \in {"down", "up"}
        /\ UNCHANGED <<chip, todo, want, snap>>
    BY <1>11 DEF Rename, Returned, guest, history
  <2>2. tmp = chip.data /\ Whole(chip.data) /\ OnTrack(chip, todo, want)
    BY <1>0, <2>1 DEF Flushes
  <2> QED
    BY <1>0, <2>1, <2>2 DEF Tracked, Restored
<1>12. CASE WriteTmpFails
  BY <1>0, <1>12 DEF WriteTmpFails, Returned, Tracked, Restored, guest, history
<1>13. CASE RenameFails
  BY <1>0, <1>13 DEF RenameFails, Returned, Tracked, Restored, files, guest, history
<1>14. CASE UNCHANGED vars
  BY <1>0, <1>14 DEF vars, Tracked, Restored, files, guest, history
<1> QED
  BY <1>1, <1>2, <1>3, <1>4, <1>5, <1>6, <1>7, <1>8, <1>9, <1>10, <1>11, <1>12,
     <1>13, <1>14 DEF Next, Flush

LEMMA FlashInvariant ==
  ASSUME StatusReads = 2, None \notin {A1, A2} \union Cells
  PROVE  Spec => []FlashInv
<1>1. FlashInv /\ [Next]_vars => FlashInv'
  BY FlushesKept, TrackedKept DEF FlashInv
<1> QED
  BY <1>1, FlashInitially, PTL DEF Spec

(* The debounce and the atomic replacement keep the backing file whole: for    *)
(* every environment, every number of cells, crashes and failed writes, the    *)
(* file is missing or holds one environment, unless a stop or a snapshot cut   *)
(* an update in two.  FlashRom::tryFlush, flushToFile, forceFlush.             *)
THEOREM DiskStaysWhole ==
  ASSUME StatusReads = 2, None \notin {A1, A2} \union Cells
  PROVE  Spec => []DiskIsWhole
<1>1. FlashInv => DiskIsWhole
  BY DEF FlashInv, Tracked, DiskIsWhole
<1> QED
  BY <1>1, FlashInvariant, PTL

(* Every update lands: at its end the array holds the environment set, for a   *)
(* sector of any number of cells.  FlashRom::write, read, restoreImage.        *)
THEOREM UpdateLands ==
  ASSUME StatusReads = 2, None \notin {A1, A2} \union Cells
  PROVE  Spec => []SetLands
<1>1. FlashInv => SetLands
  BY TrackEnds DEF FlashInv, Tracked, SetLands
<1> QED
  BY <1>1, FlashInvariant, PTL

(* A flush starts only for an array that changed since it was loaded or        *)
(* restored: a resumed, older image never overwrites the file by itself.       *)
THEOREM StaleImageIsNotFlushed == Spec => NoStaleClobber
<1>1. Init => Flushes
  BY FlashInitially DEF FlashInv
<1>2. Flushes /\ [Next]_vars => Flushes'
  BY FlushesKept
<1>3. Flushes /\ [Next]_vars => [proc # "write" /\ proc' = "write" => mutated]_vars
  <2> SUFFICES ASSUME Flushes, Next, proc # "write", proc' = "write"
               PROVE  mutated
    OBVIOUS
  <2>1. dirty
    BY DEF Next, Flush, StartSet, BusAccess, Boot, Crash, Stop, Save, Resume, Poll,
           WriteTmp, RemoveOld, Rename, WriteTmpFails, RenameFails, Returned
  <2> QED
    BY <2>1 DEF Flushes
<1> QED
  BY <1>1, <1>2, <1>3, PTL DEF Spec, NoStaleClobber

-----------------------------------------------------------------------------
(* The snapshot files.  While the disk has never been full, a file with a    *)
(* checksum is of one moment, and the one being written holds the sections   *)
(* written so far of the machine that is being saved.                        *)

Bodies == [Snapshot!Sections -> Nat \union Variants \union {None}]
SnapshotFiles == [auto : BOOLEAN, body : Bodies, sum : Bodies \union {None}]

OfOneMoment(body) ==
  \E t \in Nat : body["wrapper"] \in Variants /\ \A p \in Snapshot!Parts : body[p] = t

\* The sections of Order that are written, and those left.
InSave ==
  /\ machine # None /\ dir # <<>>
  /\ saving \in Seq(Snapshot!Sections) /\ Len(saving) <= 6
  /\ \A i \in 1 .. Len(saving) : saving[i] = Snapshot!Order[6 - Len(saving) + i]
  /\ dir[Len(dir)].sum = None
  /\ \A j \in 1 .. 6 - Len(saving) :
       dir[Len(dir)].body[Snapshot!Order[j]] = Snapshot!Contents(Snapshot!Order[j])

FilesWhole ==
  /\ dir \in Seq(SnapshotFiles) /\ time \in Nat /\ variant \in Variants
  /\ ~full /\ good = TRUE
  /\ machine # None => \E t \in Nat : machine = [p \in Snapshot!Parts |-> t]
  /\ saving # None => InSave
  /\ \A i \in 1 .. Len(dir) : dir[i].sum # None => OfOneMoment(dir[i].body)

SnapInv == fulls \in Nat /\ (fulls = 0 => FilesWhole)

LEMMA SameCardinality == \A S : Snapshot!Cardinality(S) = Cardinality(S)
BY DEF Snapshot!Cardinality, Cardinality

LEMMA OrderFacts ==
  /\ Snapshot!Order \in Seq(Snapshot!Sections) /\ Len(Snapshot!Order) = 6
  /\ \A i \in 1 .. 6 : Snapshot!Order[i] \in Snapshot!Sections
  /\ \A s \in Snapshot!Sections : \E i \in 1 .. 6 : s = Snapshot!Order[i]
  /\ Snapshot!Sections = Snapshot!Parts \union {"size", "wrapper"}
<1>1. /\ Snapshot!Order \in [1 .. 6 -> {"cpu", "size", "mem", "wrapper", "chips", "srm"}]
      /\ Len(Snapshot!Order) = 6
      /\ Snapshot!Order[1] = "cpu" /\ Snapshot!Order[2] = "size"
      /\ Snapshot!Order[3] = "mem" /\ Snapshot!Order[4] = "wrapper"
      /\ Snapshot!Order[5] = "chips" /\ Snapshot!Order[6] = "srm"
  BY DEF Snapshot!Order
<1>2. Snapshot!Sections = {"cpu", "size", "mem", "wrapper", "chips", "srm"}
  <2>1. Snapshot!Sections = {Snapshot!Order[i] : i \in 1 .. 6}
    BY <1>1 DEF Snapshot!Sections, Snapshot!ToSet
  <2> QED
    BY <1>1, <2>1
<1> HIDE DEF Snapshot!Order, Snapshot!Sections
<1>3. Snapshot!Order \in Seq(Snapshot!Sections)
  BY <1>2 DEF Snapshot!Order
<1>4. \A s \in Snapshot!Sections : \E i \in 1 .. 6 : s = Snapshot!Order[i]
  BY <1>1, <1>2
<1> QED
  BY <1>1, <1>2, <1>3, <1>4 DEF Snapshot!Parts

\* A section's contents: of the machine's moment, the size or the variant.
LEMMA ContentsFacts ==
  ASSUME NEW t \in Nat, machine = [p \in Snapshot!Parts |-> t], variant \in Variants,
         NEW s \in Snapshot!Sections
  PROVE  /\ Snapshot!Contents(s) \in Nat \union Variants \union {None}
         /\ s \in Snapshot!Parts => Snapshot!Contents(s) = t
         /\ s = "wrapper" => Snapshot!Contents(s) = variant
<1>1. s \in Snapshot!Parts \/ s = "size" \/ s = "wrapper"
  BY OrderFacts DEF Snapshot!Parts
<1>2. s \in Snapshot!Parts => s # "size" /\ s # "wrapper"
  BY DEF Snapshot!Parts
<1> QED
  BY <1>1, <1>2 DEF Snapshot!Contents

\* What pruning leaves are files that were there.
LEMMA PrunedFacts ==
  ASSUME NEW S, NEW d \in Seq(S), NEW e \in Snapshot!Pruned(d)
  PROVE  e \in Seq(S) /\ \A k \in 1 .. Len(e) : \E i \in 1 .. Len(d) : e[k] = d[i]
<1> DEFINE autos == {i \in DOMAIN d : d[i].auto}
           kept == {i \in DOMAIN d : d[i].auto =>
                      Snapshot!Cardinality({j \in autos : j > i}) < KeepCount}
           n == Snapshot!Cardinality(kept)
<1>1. kept \subseteq 1 .. Len(d) /\ Len(d) \in Nat
  OBVIOUS
<1>2. n \in Nat
  <2>1. IsFiniteSet(1 .. Len(d))
    BY <1>1, FS_Interval
  <2> HIDE DEF kept
  <2>2. IsFiniteSet(kept)
    BY <1>1, <2>1, FS_Subset
  <2> QED
    BY <2>2, FS_CardinalityType, SameCardinality
<1>3. PICK at \in [1 .. n -> kept] : e = [k \in 1 .. n |-> d[at[k]]]
  BY DEF Snapshot!Pruned
<1> HIDE DEF n, kept
<1>4. \A k \in 1 .. n : at[k] \in 1 .. Len(d) /\ e[k] = d[at[k]] /\ e[k] \in S
  <2>1. \A i \in 1 .. Len(d) : d[i] \in S
    OBVIOUS
  <2>2. \A k \in 1 .. n : at[k] \in 1 .. Len(d)
    BY <1>1, <1>3
  <2>3. \A k \in 1 .. n : e[k] = d[at[k]]
    BY <1>3
  <2> QED
    BY <2>1, <2>2, <2>3, Zenon
<1>5. e \in [1 .. n -> S]
  BY <1>3, <1>4
<1>6. e \in Seq(S) /\ Len(e) = n
  BY <1>2, <1>5
<1> QED
  BY <1>4, <1>6

\* One more section is written to the file being saved.
LEMMA SectionKeeps ==
  ASSUME FilesWhole, Snapshot!SaveSection
  PROVE  FilesWhole'
<1> DEFINE n == Len(dir)
           s == Head(saving)
           f == dir[n]
           h == [f EXCEPT !.body = [f.body EXCEPT ![s] = Snapshot!Contents(s)]]
<1>1. /\ saving # None /\ saving # <<>> /\ ~full /\ good = TRUE
      /\ saving' = Tail(saving)
      /\ UNCHANGED <<machine, variant, full, time, fulls>>
  BY DEF Snapshot!SaveSection, FilesWhole
<1>2. good' = TRUE /\ dir' = [dir EXCEPT ![n] = h]
  BY <1>1 DEF Snapshot!SaveSection
<1>3. /\ machine # None /\ dir # <<>> /\ dir \in Seq(SnapshotFiles)
      /\ saving \in Seq(Snapshot!Sections) /\ Len(saving) <= 6
      /\ \A i \in 1 .. Len(saving) : saving[i] = Snapshot!Order[6 - Len(saving) + i]
      /\ f.sum = None
      /\ \A j \in 1 .. 6 - Len(saving) :
           f.body[Snapshot!Order[j]] = Snapshot!Contents(Snapshot!Order[j])
  BY <1>1 DEF FilesWhole, InSave
<1>4. PICK t \in Nat : machine = [p \in Snapshot!Parts |-> t]
  BY <1>3 DEF FilesWhole
<1>5. n \in 1 .. Len(dir) /\ n \in Nat /\ f \in SnapshotFiles
  BY <1>3, EmptySeq
<1>6. /\ Len(saving) \in Nat /\ Len(saving) > 0 /\ s = saving[1]
      /\ Tail(saving) \in Seq(Snapshot!Sections) /\ Len(Tail(saving)) = Len(saving) - 1
      /\ \A i \in 1 .. Len(saving) - 1 : Tail(saving)[i] = saving[i + 1]
  BY <1>1, <1>3, HeadTailProperties, EmptySeq
<1> DEFINE r == Len(saving)
<1>7. s = Snapshot!Order[7 - r] /\ s \in Snapshot!Sections
  <2>1. 1 \in 1 .. r /\ 6 - r + 1 = 7 - r
    BY <1>6
  <2> QED
    BY <1>3, <1>6, <2>1
<1>8. Snapshot!Contents(s) \in Nat \union Variants \union {None}
  BY <1>4, <1>7, ContentsFacts DEF FilesWhole
<1> HIDE DEF f, s, r, n
<1>9. /\ h \in SnapshotFiles /\ h.sum = None
      /\ h.body = [f.body EXCEPT ![s] = Snapshot!Contents(s)]
  BY <1>3, <1>5, <1>7, <1>8 DEF SnapshotFiles, Bodies
<1> HIDE DEF h
<1>10. /\ dir' \in Seq(SnapshotFiles) /\ Len(dir') = Len(dir) /\ dir'[n] = h
       /\ \A i \in 1 .. Len(dir) : i # n => dir'[i] = dir[i]
  BY <1>2, <1>3, <1>5, <1>9, ExceptSeq
<1>11. \A x : Snapshot!Contents(x)' = Snapshot!Contents(x)
  BY <1>1 DEF Snapshot!Contents
<1>12. \A j \in 1 .. 6 - (r - 1) :
         h.body[Snapshot!Order[j]] = Snapshot!Contents(Snapshot!Order[j])
  <2> SUFFICES ASSUME NEW j \in 1 .. 6 - (r - 1)
               PROVE  h.body[Snapshot!Order[j]] = Snapshot!Contents(Snapshot!Order[j])
    OBVIOUS
  <2>1. f.body \in Bodies
    BY <1>5 DEF SnapshotFiles
  <2>2. j \in 1 .. 6 /\ (j = 7 - r \/ j \in 1 .. 6 - r)
    BY <1>3, <1>6 DEF r
  <2>3. Snapshot!Order[j] \in Snapshot!Sections
    BY <2>2, OrderFacts
  <2>4. Snapshot!Order[j] = s \/ f.body[Snapshot!Order[j]] = Snapshot!Contents(Snapshot!Order[j])
    BY <1>3, <1>7, <2>2 DEF r
  <2> QED
    BY <1>9, <2>1, <2>3, <2>4 DEF Bodies
<1>13. \A i \in 1 .. Len(saving') : saving'[i] = Snapshot!Order[6 - Len(saving') + i]
  <2> SUFFICES ASSUME NEW i \in 1 .. r - 1
               PROVE  Tail(saving)[i] = Snapshot!Order[6 - (r - 1) + i]
    BY <1>1, <1>6 DEF r
  <2>1. i + 1 \in 1 .. r /\ 6 - r + (i + 1) = 6 - (r - 1) + i
    BY <1>6 DEF r
  <2> QED
    BY <1>3, <1>6, <2>1 DEF r
<1>14. InSave'
  <2>1. Len(saving') = r - 1 /\ r - 1 <= 6 /\ saving' \in Seq(Snapshot!Sections)
    BY <1>1, <1>3, <1>6 DEF r
  <2>2. dir' # <<>> /\ dir'[Len(dir')] = h
    BY <1>5, <1>10 DEF n
  <2>3. machine' # None /\ h.sum = None
    BY <1>1, <1>3, <1>9
  <2>4. \A j \in 1 .. 6 - Len(saving') :
          h.body[Snapshot!Order[j]] = Snapshot!Contents(Snapshot!Order[j])'
    BY <1>11, <1>12, <2>1
  <2> QED
    BY <1>13, <2>1, <2>2, <2>3, <2>4 DEF InSave
<1>15. \A i \in 1 .. Len(dir') : dir'[i].sum # None => OfOneMoment(dir'[i].body)
  BY <1>9, <1>10 DEF FilesWhole
<1> QED
  BY <1>1, <1>2, <1>10, <1>14, <1>15 DEF FilesWhole

\* The checksum is written behind a complete body.
LEMMA FooterKeeps ==
  ASSUME None # <<>>, FilesWhole, Snapshot!SaveFooter
  PROVE  FilesWhole'
<1> DEFINE n == Len(dir)
           f == dir[n]
           h == [f EXCEPT !.sum = f.body]
           d == [dir EXCEPT ![n] = h]
<1>1. /\ saving = <<>> /\ ~full /\ saving' = None /\ good' = TRUE
      /\ UNCHANGED <<machine, variant, full, time, fulls>>
  BY DEF Snapshot!SaveFooter, FilesWhole
<1>2. dir' = d \/ dir' \in Snapshot!Pruned(d)
  BY <1>1 DEF Snapshot!SaveFooter
<1>3. /\ machine # None /\ dir # <<>> /\ dir \in Seq(SnapshotFiles)
      /\ \A j \in 1 .. 6 :
           f.body[Snapshot!Order[j]] = Snapshot!Contents(Snapshot!Order[j])
  <2>1. InSave
    BY <1>1 DEF FilesWhole
  <2>2. 6 - Len(saving) = 6
    BY <1>1
  <2> QED
    BY <2>1, <2>2 DEF InSave, FilesWhole
<1>4. PICK t \in Nat : machine = [p \in Snapshot!Parts |-> t]
  BY <1>3 DEF FilesWhole
<1>5. n \in 1 .. Len(dir) /\ f \in SnapshotFiles
  BY <1>3, EmptySeq
<1> HIDE DEF f, n
<1>6. h \in SnapshotFiles /\ h.body = f.body
  BY <1>5 DEF SnapshotFiles
<1>7. \A x \in Snapshot!Sections : f.body[x] = Snapshot!Contents(x)
  BY <1>3, OrderFacts
<1>8. OfOneMoment(f.body)
  <2>1. variant \in Variants
    BY DEF FilesWhole
  <2>2. \A p \in Snapshot!Parts : f.body[p] = t
    BY <1>4, <1>7, <2>1, ContentsFacts, OrderFacts
  <2>3. f.body["wrapper"] = variant
    BY <1>4, <1>7, <2>1, ContentsFacts, OrderFacts
  <2> QED
    BY <2>1, <2>2, <2>3 DEF OfOneMoment
<1> HIDE DEF h
<1>9. /\ d \in Seq(SnapshotFiles) /\ Len(d) = Len(dir) /\ d[n] = h
      /\ \A i \in 1 .. Len(dir) : i # n => d[i] = dir[i]
  BY <1>3, <1>5, <1>6, ExceptSeq
<1>10. \A i \in 1 .. Len(d) : d[i].sum # None => OfOneMoment(d[i].body)
  BY <1>6, <1>8, <1>9 DEF FilesWhole
<1> HIDE DEF d
<1>11. /\ dir' \in Seq(SnapshotFiles)
       /\ \A i \in 1 .. Len(dir') : dir'[i].sum # None => OfOneMoment(dir'[i].body)
  BY <1>2, <1>9, <1>10, PrunedFacts
<1> QED
  BY <1>1, <1>11 DEF FilesWhole

\* A started machine is all of one file, or the firmware alone.
LEMMA BootKeeps ==
  ASSUME None \notin Bodies, \A v, w \in Variants : v = w, FilesWhole,
         NEW v \in Variants, Snapshot!Boot(v)
  PROVE  FilesWhole'
<1>1. /\ machine = None /\ variant' = v
      /\ machine' = IF dir = <<>> THEN Snapshot!Cold ELSE Snapshot!Loaded(dir[Len(dir)], v)
      /\ UNCHANGED <<dir, saving, good, full, time, fulls>>
  BY DEF Snapshot!Boot, Snapshot!file
<1>2. saving = None
  BY <1>1 DEF FilesWhole, InSave
<1>3. \E t \in Nat : Snapshot!Cold = [p \in Snapshot!Parts |-> t]
  BY DEF Snapshot!Cold
<1>4. ASSUME dir # <<>>
      PROVE  \E t \in Nat : Snapshot!Loaded(dir[Len(dir)], v) = [p \in Snapshot!Parts |-> t]
  <2> DEFINE f == dir[Len(dir)]
  <2>1. Len(dir) \in 1 .. Len(dir) /\ f \in SnapshotFiles
    BY <1>4, EmptySeq DEF FilesWhole
  <2>2. f.sum # None => OfOneMoment(f.body)
    BY <2>1 DEF FilesWhole
  <2> HIDE DEF f
  <2>3. CASE ~Snapshot!Accepted(f)
    BY <1>3, <2>3 DEF Snapshot!Loaded, f
  <2>4. CASE Snapshot!Accepted(f)
    <3>1. f.sum = f.body /\ f.body \in Bodies
      BY <2>1, <2>4 DEF Snapshot!Accepted, SnapshotFiles
    <3>2. PICK t \in Nat : f.body["wrapper"] \in Variants
                           /\ \A p \in Snapshot!Parts : f.body[p] = t
      BY <2>2, <3>1 DEF OfOneMoment
    <3>3. f.body["wrapper"] = v
      BY <3>2
    <3>4. Snapshot!Loaded(f, v) = [p \in Snapshot!Parts |-> Snapshot!Blank(f.body[p])]
      BY <2>4, <3>3 DEF Snapshot!Loaded
    <3>5. Snapshot!Loaded(f, v) = [p \in Snapshot!Parts |-> Snapshot!Blank(t)]
      BY <3>2, <3>4
    <3>6. Snapshot!Blank(t) \in Nat
      BY DEF Snapshot!Blank
    <3> QED
      BY <3>5, <3>6 DEF f
  <2> QED
    BY <2>3, <2>4
<1>5. \E t \in Nat : machine' = [p \in Snapshot!Parts |-> t]
  BY <1>1, <1>3, <1>4
<1> QED
  BY <1>1, <1>2, <1>5 DEF FilesWhole

(* A started machine is all of one snapshot or the firmware alone, for any     *)
(* number of files and saves, crashes in the middle of a save and prunings, as *)
(* long as the disk was never full and every file is of the machine's variant. *)
(* Snapshot::save, load, pruneOldSnapshots; main's autoload.                   *)
THEOREM StartedMachineIsWhole ==
  ASSUME None # <<>>, None \notin Bodies, \A v, w \in Variants : v = w
  PROVE  Snapshot!Spec => []MachineIsWhole
<1>1. Snapshot!Init => SnapInv
  BY DEF Snapshot!Init, SnapInv, FilesWhole
<1>2. SnapInv /\ [Snapshot!Next]_(Snapshot!vars) => SnapInv'
  <2> SUFFICES ASSUME SnapInv, [Snapshot!Next]_(Snapshot!vars)
               PROVE  SnapInv'
    OBVIOUS
  <2>1. CASE Snapshot!FillDisk
    BY <2>1 DEF Snapshot!FillDisk, SnapInv
  <2>2. ASSUME ~Snapshot!FillDisk PROVE UNCHANGED fulls
    BY <2>2 DEF Snapshot!Next, Snapshot!Run, Snapshot!FreeDisk, Snapshot!SaveOpen,
       Snapshot!SaveSection, Snapshot!SaveFooter, Snapshot!Crash, Snapshot!Boot,
       Snapshot!vars
  <2>3. SUFFICES ASSUME ~Snapshot!FillDisk, fulls = 0, FilesWhole PROVE FilesWhole'
    BY <2>1, <2>2 DEF SnapInv
  <2>4. CASE Snapshot!Run
    <3>1. /\ machine # None /\ saving = None /\ time' = time + 1
          /\ machine' = [p \in Snapshot!Parts |-> time']
          /\ UNCHANGED <<dir, saving, good, variant, full>>
      BY <2>4 DEF Snapshot!Run, Snapshot!Up, Snapshot!file
    <3>2. time' \in Nat
      BY <2>3, <3>1 DEF FilesWhole
    <3> QED
      BY <2>3, <3>1, <3>2 DEF FilesWhole
  <2>5. CASE Snapshot!FreeDisk
    BY <2>3, <2>5 DEF Snapshot!FreeDisk, FilesWhole
  <2>6. ASSUME NEW auto \in BOOLEAN, Snapshot!SaveOpen(auto)
        PROVE  FilesWhole'
    <3> DEFINE f == [auto |-> auto, body |-> Snapshot!Empty, sum |-> None]
    <3>1. /\ machine # None /\ saving = None /\ dir' = Append(dir, f)
          /\ saving' = Snapshot!Order /\ good' = TRUE
          /\ UNCHANGED <<machine, variant, full, time, fulls>>
      BY <2>6 DEF Snapshot!SaveOpen, Snapshot!Up
    <3>2. f \in SnapshotFiles /\ f.sum = None
      BY DEF SnapshotFiles, Bodies, Snapshot!Empty
    <3> HIDE DEF f
    <3>3. /\ dir \in Seq(SnapshotFiles) /\ dir' \in Seq(SnapshotFiles)
          /\ Len(dir') = Len(dir) + 1 /\ dir'[Len(dir) + 1] = f
          /\ \A i \in 1 .. Len(dir) : dir'[i] = dir[i]
      BY <2>3, <3>1, <3>2 DEF FilesWhole
    <3>4. InSave'
      <4>1. Len(saving') = 6 /\ saving' \in Seq(Snapshot!Sections)
        BY <3>1, OrderFacts
      <4>2. \A i \in 1 .. Len(saving') : saving'[i] = Snapshot!Order[6 - Len(saving') + i]
        BY <3>1, <4>1
      <4>3. machine' # None /\ dir' # <<>> /\ dir'[Len(dir')].sum = None
        BY <3>1, <3>2, <3>3
      <4>4. 1 .. 6 - Len(saving') = {}
        BY <4>1
      <4> QED
        BY <4>1, <4>2, <4>3, <4>4 DEF InSave
    <3>5. \A i \in 1 .. Len(dir') : dir'[i].sum # None => OfOneMoment(dir'[i].body)
      BY <2>3, <3>2, <3>3 DEF FilesWhole
    <3> QED
      BY <2>3, <3>1, <3>3, <3>4, <3>5 DEF FilesWhole
  <2>7. CASE Snapshot!SaveSection
    BY <2>3, <2>7, SectionKeeps
  <2>8. CASE Snapshot!SaveFooter
    BY <2>3, <2>8, FooterKeeps
  <2>9. CASE Snapshot!Crash
    BY <2>3, <2>9 DEF Snapshot!Crash, FilesWhole
  <2>10. ASSUME NEW v \in Variants, Snapshot!Boot(v) PROVE FilesWhole'
    BY <2>3, <2>10, BootKeeps
  <2>11. CASE UNCHANGED Snapshot!vars
    BY <2>3, <2>11 DEF Snapshot!vars, FilesWhole, InSave, Snapshot!Contents
  <2> QED
    BY <2>3, <2>4, <2>5, <2>6, <2>7, <2>8, <2>9, <2>10, <2>11 DEF Snapshot!Next
<1>3. SnapInv => MachineIsWhole
  <2> SUFFICES ASSUME SnapInv, machine # None, fulls = 0
               PROVE  Snapshot!Cardinality({machine[p] : p \in Snapshot!Parts}) = 1
    BY DEF MachineIsWhole, Snapshot!MachineIsWhole
  <2>1. PICK t \in Nat : machine = [p \in Snapshot!Parts |-> t]
    BY DEF SnapInv, FilesWhole
  <2>2. {machine[p] : p \in Snapshot!Parts} = {t}
    BY <2>1 DEF Snapshot!Parts
  <2> QED
    BY <2>2, FS_Singleton, SameCardinality
<1> QED
  BY <1>1, <1>2, <1>3, PTL DEF Snapshot!Spec

-----------------------------------------------------------------------------
(* The IDE channel.  A read is described by how much of it was taken: word *)
(* j * SectorWords + q + 1 is word q + 1 of the sector in the buffer.      *)

\* The k-th word of a request, by sector and place.
LEMMA DivMod ==
  ASSUME NEW S \in Nat \ {0}, NEW j \in Nat, NEW q \in 0 .. S - 1
  PROVE  (j * S + q) \div S = j /\ (j * S + q) % S = q
<1> DEFINE n == j * S + q
           d == n \div S
           r == n % S
<1>1. n \in Nat
  OBVIOUS
<1>2. d \in Int /\ r \in 0 .. S - 1 /\ n = S * d + r
  <2> HIDE DEF n
  <2> QED
    BY <1>1
<1> HIDE DEF d, r
<1>3. S * (d - j) = q - r
  BY <1>2
<1>4. d - j < 1
  <2> SUFFICES ASSUME d - j >= 1 PROVE FALSE
    BY <1>2
  <2>1. S * (d - j) >= S
    BY <1>2
  <2> QED
    BY <1>2, <1>3, <2>1
<1>5. d - j > -1
  <2> SUFFICES ASSUME d - j <= -1 PROVE FALSE
    BY <1>2
  <2>1. S * (d - j) <= -S
    BY <1>2
  <2> QED
    BY <1>2, <1>3, <2>1
<1>6. d = j
  BY <1>2, <1>4, <1>5
<1> QED
  BY <1>2, <1>3, <1>6 DEF d, r

\* p words of block b of unit u, from word q + 1 on.
Run(u, b, q, p) == [i \in 1 .. p |-> <<u, b, q + i>>]

\* The first n words of a disk request.
Given(r, n) ==
  [k \in 1 .. n |->
     <<"disk", r.lba + (k - 1) \div SectorWords, 1 + ((k - 1) % SectorWords)>>]

LEMMA FunSeq ==
  ASSUME NEW n \in Nat, NEW f, DOMAIN f = 1 .. n, f = [i \in 1 .. n |-> f[i]]
  PROVE  f \in Seq({f[i] : i \in 1 .. n}) /\ Len(f) = n
<1> DEFINE T == {f[i] : i \in 1 .. n}
<1>1. f \in [1 .. n -> T]
  OBVIOUS
<1> HIDE DEF T
<1>2. f \in Seq(T)
  BY <1>1, SeqDef
<1>3. Len(f) \in Nat /\ 1 .. Len(f) = 1 .. n
  BY <1>2
<1>4. Len(f) = n
  BY <1>3
<1> QED
  BY <1>2, <1>4 DEF T

LEMMA SeqIsFun ==
  ASSUME NEW T, NEW s \in Seq(T)
  PROVE  s = [i \in 1 .. Len(s) |-> s[i]]
OBVIOUS

LEMMA AppendIsFun ==
  ASSUME NEW T, NEW s \in Seq(T), NEW x, NEW n \in Nat, Len(s) = n
  PROVE  Append(s, x) = [i \in 1 .. n + 1 |-> IF i = n + 1 THEN x ELSE s[i]]
<1> DEFINE U == T \union {x}
           a == Append(s, x)
<1>1. s \in Seq(U) /\ x \in U
  BY SeqMonotonic
<1> HIDE DEF U, a
<1>2. /\ a \in Seq(U) /\ Len(a) = n + 1
      /\ \A i \in 1 .. n : a[i] = s[i]
      /\ a[n + 1] = x
  BY <1>1, AppendProperties DEF a
<1>3. a = [i \in 1 .. n + 1 |-> a[i]]
  BY <1>2, SeqIsFun
<1>4. \A i \in 1 .. n + 1 : a[i] = IF i = n + 1 THEN x ELSE s[i]
  BY <1>2
<1>5. a = [i \in 1 .. n + 1 |-> IF i = n + 1 THEN x ELSE s[i]]
  BY <1>3, <1>4
<1> QED
  BY <1>5 DEF a

LEMMA RunFacts ==
  ASSUME NEW u, NEW b, NEW q \in Nat, NEW p \in Nat, p # 0
  PROVE  /\ Len(Run(u, b, q, p)) = p
         /\ Head(Run(u, b, q, p)) = <<u, b, q + 1>>
         /\ p > 1 => Tail(Run(u, b, q, p)) = Run(u, b, q + 1, p - 1)
<1> DEFINE f == Run(u, b, q, p)
           T == {f[i] : i \in 1 .. p}
<1>1. f \in Seq(T) /\ Len(f) = p
  BY FunSeq DEF Run
<1>2. \A i \in 1 .. p : f[i] = <<u, b, q + i>>
  BY DEF Run
<1> HIDE DEF f, T
<1>3. Head(f) = <<u, b, q + 1>>
  BY <1>1, <1>2
<1>4. ASSUME p > 1
      PROVE  Tail(f) = Run(u, b, q + 1, p - 1)
  <2>1. Tail(f) = [i \in 1 .. p - 1 |-> f[i + 1]]
    <3>1. f # <<>>
      BY <1>1, <1>4
    <3>2. /\ Tail(f) \in Seq(T) /\ Len(Tail(f)) = p - 1
          /\ \A i \in 1 .. p - 1 : Tail(f)[i] = f[i + 1]
      BY <1>1, <3>1, HeadTailProperties
    <3>3. Tail(f) = [i \in 1 .. p - 1 |-> Tail(f)[i]]
      BY <3>2, SeqIsFun
    <3> QED
      BY <3>2, <3>3
  <2>2. \A i \in 1 .. p - 1 : f[i + 1] = <<u, b, (q + 1) + i>>
    <3> SUFFICES ASSUME NEW i \in 1 .. p - 1
                 PROVE  f[i + 1] = <<u, b, (q + 1) + i>>
      OBVIOUS
    <3>1. i + 1 \in 1 .. p /\ q + (i + 1) = (q + 1) + i
      OBVIOUS
    <3> QED
      BY <1>2, <3>1
  <2> QED
    BY <2>1, <2>2 DEF Run
<1> QED
  BY <1>1, <1>3, <1>4 DEF f

LEMMA RunTail ==
  ASSUME NEW u, NEW b, NEW q \in Nat, NEW p \in Nat
  PROVE  p > 1 => Tail(Run(u, b, q, p)) = Run(u, b, q + 1, p - 1)
<1> SUFFICES ASSUME p > 1 PROVE Tail(Run(u, b, q, p)) = Run(u, b, q + 1, p - 1)
  OBVIOUS
<1>1. p # 0
  OBVIOUS
<1> QED
  BY <1>1, RunFacts, Zenon

LEMMA RunGrows ==
  ASSUME NEW u, NEW b, NEW n \in Nat
  PROVE  Append(Run(u, b, 0, n), <<u, b, n + 1>>) = Run(u, b, 0, n + 1)
<1> DEFINE f == Run(u, b, 0, n)
           T == {f[i] : i \in 1 .. n}
           e == <<u, b, n + 1>>
<1>1. f \in Seq(T) /\ Len(f) = n
  BY FunSeq DEF Run
<1>2. \A i \in 1 .. n : f[i] = <<u, b, 0 + i>>
  BY DEF Run
<1>3. 0 + (n + 1) = n + 1
  OBVIOUS
<1> HIDE DEF f, T
<1>4. Append(f, e) = [i \in 1 .. n + 1 |-> IF i = n + 1 THEN e ELSE f[i]]
  BY <1>1
<1>5. \A i \in 1 .. n + 1 : (IF i = n + 1 THEN e ELSE f[i]) = <<u, b, 0 + i>>
  BY <1>2, <1>3
<1>6. [i \in 1 .. n + 1 |-> IF i = n + 1 THEN e ELSE f[i]]
        = [i \in 1 .. n + 1 |-> <<u, b, 0 + i>>]
  BY <1>5
<1> QED
  BY <1>4, <1>6 DEF f, Run

LEMMA GivenGrows ==
  ASSUME SectorWords \in Nat \ {0}, NEW r, r.lba \in Nat, NEW j \in Nat,
         NEW q \in 0 .. SectorWords - 1
  PROVE  Append(Given(r, j * SectorWords + q), <<"disk", r.lba + j, q + 1>>)
           = Given(r, (j * SectorWords + q) + 1)
<1> DEFINE n == j * SectorWords + q
           f == Given(r, n)
           T == {f[i] : i \in 1 .. n}
           e == <<"disk", r.lba + j, q + 1>>
           W(k) == <<"disk", r.lba + (k - 1) \div SectorWords, 1 + ((k - 1) % SectorWords)>>
<1>1. n \in Nat
  OBVIOUS
<1>2. n \div SectorWords = j /\ n % SectorWords = q
  BY DivMod
<1> HIDE DEF n
<1>3. W(n + 1) = e
  <2>1. (n + 1) - 1 = n /\ 1 + q = q + 1
    BY <1>1
  <2> QED
    BY <1>2, <2>1
<1>4. f = [k \in 1 .. n |-> W(k)]
  BY DEF Given
<1> HIDE DEF W, e
<1>5. f \in Seq(T) /\ Len(f) = n
  BY <1>1, <1>4, FunSeq
<1>6. \A i \in 1 .. n : f[i] = W(i)
  BY <1>4
<1> HIDE DEF f, T
<1>7. Append(f, e) = [i \in 1 .. n + 1 |-> IF i = n + 1 THEN e ELSE f[i]]
  BY <1>1, <1>5, AppendIsFun
<1>8. \A i \in 1 .. n + 1 : (IF i = n + 1 THEN e ELSE f[i]) = W(i)
  BY <1>1, <1>3, <1>6
<1>9. Append(f, e) = [i \in 1 .. n + 1 |-> W(i)]
  BY <1>7, <1>8
<1> QED
  BY <1>9 DEF f, e, n, W, Given

\* Sectors and blocks have words; a request names at least one sector.
IdeAssumption ==
  /\ SectorWords \in Nat \ {0} /\ BlockWords \in Nat \ {0}
  /\ DiskRequests \subseteq [lba : Nat, count : Nat \ {0}]
  /\ PacketRequests \subseteq [op : STRING, lba : Nat]

\* How far a read under way has got.
InDisk(r) ==
  \E j \in 0 .. r.count - 1, q \in 0 .. SectorWords - 1 :
    /\ got = Given(r, j * SectorWords + q)
    /\ pio = Run("disk", r.lba + j, q, SectorWords - q)
    /\ next = (r.lba + j) + 1 /\ left = (r.count - j) - 1

InBlock(r) ==
  \E n \in 0 .. BlockWords - 1 :
    got = Run("cd", r.lba, 0, n) /\ pio = Run("cd", r.lba, n, BlockWords - n)

Reads(r) == r \in PacketRequests => r.op = "read"

IdeInv ==
  /\ drv \in [at : {"idle", "selected", "loaded", "packet", "data", "done"},
             req : DiskRequests \union PacketRequests \union {None}]
  /\ drv.at # "idle" => drv.req \in DiskRequests \union PacketRequests
  /\ drv.at # "idle" => unit = Ide!UnitOf(drv.req)
  /\ drv.at \in {"selected", "loaded", "packet"} => got = <<>>
  /\ drv.at = "loaded" => drv.req \in DiskRequests /\ regs = drv.req
  /\ drv.at = "packet" => drv.req \in PacketRequests
  /\ drv.at = "data" /\ "DRQ" \in status /\ drv.req \in DiskRequests => InDisk(drv.req)
  /\ drv.at = "data" /\ "DRQ" \in status /\ drv.req \in PacketRequests /\ Reads(drv.req)
       => InBlock(drv.req)
  /\ drv.at \in {"data", "done"} /\ status = Ide!Ready /\ Reads(drv.req)
       => got = Ide!Words(drv.req)

LEMMA RequestKinds ==
  ASSUME IdeAssumption
  PROVE  /\ \A r \in DiskRequests :
              /\ Ide!UnitOf(r) = "disk" /\ r \notin PacketRequests /\ "op" \notin DOMAIN r
              /\ r.lba \in Nat /\ r.count \in Nat \ {0}
              /\ Ide!Words(r) = Given(r, r.count * SectorWords)
         /\ \A r \in PacketRequests :
              /\ Ide!UnitOf(r) = "cd" /\ r \notin DiskRequests /\ "op" \in DOMAIN r
              /\ r.lba \in Nat
              /\ Ide!Words(r) = Run("cd", r.lba, 0, BlockWords)
<1>1. ASSUME NEW r \in DiskRequests
      PROVE  r.lba \in Nat /\ r.count \in Nat \ {0} /\ "op" \notin DOMAIN r
  BY <1>1 DEF IdeAssumption
<1>2. ASSUME NEW r \in PacketRequests
      PROVE  r.lba \in Nat /\ "op" \in DOMAIN r
  BY <1>2 DEF IdeAssumption
<1>3. ASSUME NEW r \in DiskRequests
      PROVE  Ide!UnitOf(r) = "disk" /\ Ide!Words(r) = Given(r, r.count * SectorWords)
  BY <1>1 DEF Ide!UnitOf, Ide!Words, Given
<1>4. ASSUME NEW r \in PacketRequests
      PROVE  Ide!UnitOf(r) = "cd" /\ Ide!Words(r) = Run("cd", r.lba, 0, BlockWords)
  <2>1. \A i \in 1 .. BlockWords : 0 + i = i
    OBVIOUS
  <2>2. Run("cd", r.lba, 0, BlockWords) = Ide!Block(r.lba)
    BY <2>1 DEF Run, Ide!Block
  <2> QED
    BY <1>2, <2>2 DEF Ide!UnitOf, Ide!Words
<1> QED
  BY <1>1, <1>2, <1>3, <1>4

LEMMA FullRuns ==
  ASSUME NEW b
  PROVE  /\ Ide!Sector(b) = Run("disk", b, 0, SectorWords)
         /\ Ide!Block(b) = Run("cd", b, 0, BlockWords)
<1>1. \A i \in 1 .. SectorWords : 0 + i = i
  OBVIOUS
<1>2. \A i \in 1 .. BlockWords : 0 + i = i
  OBVIOUS
<1> QED
  BY <1>1, <1>2 DEF Ide!Sector, Ide!Block, Run

LEMMA NothingYet ==
  ASSUME NEW r, NEW b
  PROVE  Given(r, 0) = <<>> /\ Run("cd", b, 0, 0) = <<>>
<1>1. \A f : f \in [1 .. 0 -> {}] => f = <<>>
  OBVIOUS
<1>2. Given(r, 0) \in [1 .. 0 -> {}] /\ Run("cd", b, 0, 0) \in [1 .. 0 -> {}]
  BY DEF Given, Run
<1> QED
  BY <1>1, <1>2

\* The status values a step leaves.
LEMMA StatusKinds ==
  /\ Ide!Failed # Ide!Ready /\ "DRQ" \notin Ide!Failed /\ "DRQ" \notin Ide!Ready
  /\ Ide!Ready \cup {"DRQ"} # Ide!Ready /\ {"DRDY", "DRQ"} # Ide!Ready
BY DEF Ide!Failed, Ide!Ready

\* The places of a read: the next word of a sector, the next sector, the end.
LEMMA ReadArith ==
  ASSUME NEW lba \in Nat, NEW N \in Nat \ {0}, NEW S \in Nat \ {0},
         NEW j \in 0 .. N - 1, NEW q \in 0 .. S - 1
  PROVE  /\ j \in Nat /\ q \in Nat /\ S - q \in Nat \ {0} /\ lba + j \in Nat
         /\ (N - j) - 1 \in Nat
         /\ S - q > 1 => /\ q + 1 \in 0 .. S - 1 /\ (S - q) - 1 = S - (q + 1)
                         /\ (j * S + q) + 1 = j * S + (q + 1)
         /\ ~(S - q > 1) => (j * S + q) + 1 = (j + 1) * S
         /\ (N - j) - 1 > 0 => /\ j + 1 \in 0 .. N - 1
                               /\ (lba + j) + 1 = lba + (j + 1)
                               /\ ((N - j) - 1) - 1 = (N - (j + 1)) - 1
         /\ ~((N - j) - 1 > 0) => j + 1 = N
         /\ (j + 1) * S = (j + 1) * S + 0 /\ 0 \in 0 .. S - 1 /\ S - 0 = S
<1>1. /\ j \in Nat /\ q \in Nat /\ S - q \in Nat \ {0} /\ lba + j \in Nat
      /\ (N - j) - 1 \in Nat
  OBVIOUS
<1>2. S - q > 1 => /\ q + 1 \in 0 .. S - 1 /\ (S - q) - 1 = S - (q + 1)
                   /\ (j * S + q) + 1 = j * S + (q + 1)
  OBVIOUS
<1>3. ASSUME ~(S - q > 1) PROVE (j * S + q) + 1 = (j + 1) * S
  <2>1. q = S - 1
    BY <1>3
  <2> QED
    BY <2>1
<1>4. /\ (N - j) - 1 > 0 => /\ j + 1 \in 0 .. N - 1
                            /\ (lba + j) + 1 = lba + (j + 1)
                            /\ ((N - j) - 1) - 1 = (N - (j + 1)) - 1
      /\ ~((N - j) - 1 > 0) => j + 1 = N
  OBVIOUS
<1>5. (j + 1) * S = (j + 1) * S + 0 /\ 0 \in 0 .. S - 1 /\ S - 0 = S
  OBVIOUS
<1> QED
  BY <1>1, <1>2, <1>3, <1>4, <1>5

\* One word of a disk read: the next of the sector, the first of the next
\* sector, the end of the request or an unreadable sector.
LEMMA DiskWord ==
  ASSUME IdeAssumption, NEW r \in DiskRequests, InDisk(r), "DRQ" \in status,
         got' = Append(got, Head(pio)), Ide!ReadWord
  PROVE  /\ "DRQ" \in status' => InDisk(r)'
         /\ status' = Ide!Ready => got' = Ide!Words(r)
<1>0. /\ r.lba \in Nat /\ r.count \in Nat \ {0} /\ SectorWords \in Nat \ {0}
      /\ Ide!Words(r) = Given(r, r.count * SectorWords)
  BY RequestKinds DEF IdeAssumption
<1>1. PICK j \in 0 .. r.count - 1, q \in 0 .. SectorWords - 1 :
        /\ got = Given(r, j * SectorWords + q)
        /\ pio = Run("disk", r.lba + j, q, SectorWords - q)
        /\ next = (r.lba + j) + 1 /\ left = (r.count - j) - 1
  BY DEF InDisk
<1> DEFINE p == SectorWords - q
           b == r.lba + j
<1>2. /\ j \in Nat /\ q \in Nat /\ p \in Nat \ {0} /\ b \in Nat
      /\ p > 1 => /\ q + 1 \in 0 .. SectorWords - 1 /\ p - 1 = SectorWords - (q + 1)
                  /\ (j * SectorWords + q) + 1 = j * SectorWords + (q + 1)
      /\ ~(p > 1) => (j * SectorWords + q) + 1 = (j + 1) * SectorWords
  BY <1>0, ReadArith
<1>a. /\ left > 0 => /\ j + 1 \in 0 .. r.count - 1 /\ next = r.lba + (j + 1)
                     /\ left - 1 = (r.count - (j + 1)) - 1
      /\ ~(left > 0) => j + 1 = r.count
      /\ (j + 1) * SectorWords = (j + 1) * SectorWords + 0
      /\ 0 \in 0 .. SectorWords - 1 /\ SectorWords - 0 = SectorWords
  <2>1. next = (r.lba + j) + 1 /\ left = (r.count - j) - 1
    BY <1>1
  <2> QED
    BY <1>0, <2>1, ReadArith
<1>3. /\ Len(pio) = p /\ Head(pio) = <<"disk", b, q + 1>>
      /\ p > 1 => Tail(pio) = Run("disk", b, q + 1, p - 1)
  <2>0. q \in Nat /\ p \in Nat /\ p # 0
    BY <1>2
  <2>1. pio = Run("disk", b, q, p)
    BY <1>1
  <2> HIDE DEF p, b
  <2>2. Len(Run("disk", b, q, p)) = p
    BY <2>0, RunFacts, Zenon
  <2>3. Head(Run("disk", b, q, p)) = <<"disk", b, q + 1>>
    BY <2>0, RunFacts, Zenon
  <2>4. p > 1 => Tail(Run("disk", b, q, p)) = Run("disk", b, q + 1, p - 1)
    BY <2>0, RunTail, Zenon
  <2> QED
    BY <2>1, <2>2, <2>3, <2>4, Zenon
<1>4. got' = Given(r, (j * SectorWords + q) + 1)
  <2>1. got' = Append(Given(r, j * SectorWords + q), <<"disk", r.lba + j, q + 1>>)
    BY <1>1, <1>3
  <2> QED
    BY <1>0, <1>2, <2>1, GivenGrows
<1>5. CASE p > 1
  <2>1. pio' = Run("disk", b, q + 1, p - 1) /\ UNCHANGED <<status, left, next>>
    BY <1>3, <1>5 DEF Ide!ReadWord
  <2>2. /\ q + 1 \in 0 .. SectorWords - 1
        /\ pio' = Run("disk", r.lba + j, q + 1, SectorWords - (q + 1))
        /\ got' = Given(r, j * SectorWords + (q + 1))
    BY <1>2, <1>4, <1>5, <2>1
  <2>3. next' = (r.lba + j) + 1 /\ left' = (r.count - j) - 1
    BY <1>1, <2>1
  <2>4. InDisk(r)'
    BY <2>2, <2>3, Zenon DEF InDisk
  <2>5. status' # Ide!Ready
    BY <2>1, StatusKinds
  <2> QED
    BY <2>4, <2>5
<1>6. CASE ~(p > 1)
  <2>2. (j * SectorWords + q) + 1 = (j + 1) * SectorWords
    BY <1>2, <1>6
  <2>3. Ide!PioDrained
    BY <1>3, <1>6 DEF Ide!ReadWord
  <2>4. CASE left > 0
    <3>1. \/ /\ pio' = Ide!Sector(next) /\ next' = next + 1 /\ left' = left - 1
             /\ status' = Ide!Ready \cup {"DRQ"}
          \/ status' = Ide!Failed
      BY <2>3, <2>4 DEF Ide!PioDrained, Ide!LoadDiskSector, Ide!AbortRead
    <3>2. CASE status' = Ide!Failed
      BY <3>2, StatusKinds
    <3>3. CASE /\ pio' = Ide!Sector(next) /\ next' = next + 1 /\ left' = left - 1
               /\ status' = Ide!Ready \cup {"DRQ"}
      <4>1. /\ next' = (r.lba + (j + 1)) + 1 /\ left' = (r.count - (j + 1)) - 1
            /\ j + 1 \in 0 .. r.count - 1 /\ 0 \in 0 .. SectorWords - 1
        BY <1>a, <2>4, <3>3
      <4>3. pio' = Run("disk", r.lba + (j + 1), 0, SectorWords - 0)
        BY <1>a, <2>4, <3>3, FullRuns
      <4>4. got' = Given(r, (j + 1) * SectorWords + 0)
        BY <1>a, <1>4, <2>2
      <4>5. InDisk(r)'
        BY <4>1, <4>3, <4>4, Zenon DEF InDisk
      <4> QED
        BY <3>3, <4>5, StatusKinds
    <3> QED
      BY <3>1, <3>2, <3>3
  <2>5. CASE ~(left > 0)
    <3>1. j + 1 = r.count
      BY <1>a, <2>5
    <3>2. got' = Given(r, r.count * SectorWords)
      BY <1>4, <2>2, <3>1
    <3>3. status' = Ide!Ready
      BY <2>3, <2>5 DEF Ide!PioDrained, Ide!Complete
    <3> QED
      BY <1>0, <3>2, <3>3, StatusKinds
  <2> QED
    BY <2>4, <2>5
<1> QED
  BY <1>5, <1>6

\* One word of a CD block.  Sectors left over from an abandoned disk read end
\* it in an error, never in a false success.
LEMMA BlockWord ==
  ASSUME IdeAssumption, NEW r \in PacketRequests, InBlock(r), "DRQ" \in status,
         Reads(r) /\ unit = "cd", got' = Append(got, Head(pio)), Ide!ReadWord
  PROVE  /\ "DRQ" \in status' => InBlock(r)'
         /\ status' = Ide!Ready => got' = Ide!Words(r)
<1>0. /\ r.lba \in Nat /\ BlockWords \in Nat \ {0}
      /\ Ide!Words(r) = Run("cd", r.lba, 0, BlockWords)
  BY RequestKinds DEF IdeAssumption
<1>1. PICK n \in 0 .. BlockWords - 1 :
        got = Run("cd", r.lba, 0, n) /\ pio = Run("cd", r.lba, n, BlockWords - n)
  BY DEF InBlock
<1> DEFINE p == BlockWords - n
           b == r.lba
<1>2. n \in Nat /\ p \in Nat \ {0}
  BY <1>0
<1>3. /\ Len(pio) = p /\ Head(pio) = <<"cd", b, n + 1>>
      /\ p > 1 => Tail(pio) = Run("cd", b, n + 1, p - 1)
  <2>0. n \in Nat /\ p \in Nat /\ p # 0
    BY <1>2
  <2>1. pio = Run("cd", b, n, p)
    BY <1>1
  <2> HIDE DEF p, b
  <2>2. Len(Run("cd", b, n, p)) = p
    BY <2>0, RunFacts, Zenon
  <2>3. Head(Run("cd", b, n, p)) = <<"cd", b, n + 1>>
    BY <2>0, RunFacts, Zenon
  <2>4. p > 1 => Tail(Run("cd", b, n, p)) = Run("cd", b, n + 1, p - 1)
    BY <2>0, RunTail, Zenon
  <2> QED
    BY <2>1, <2>2, <2>3, <2>4, Zenon
<1>4. got' = Run("cd", r.lba, 0, n + 1)
  BY <1>1, <1>2, <1>3, RunGrows
<1>5. CASE p > 1
  <2>1. pio' = Run("cd", r.lba, n + 1, p - 1) /\ UNCHANGED status
    BY <1>3, <1>5 DEF Ide!ReadWord
  <2>2. n + 1 \in 0 .. BlockWords - 1 /\ p - 1 = BlockWords - (n + 1)
    BY <1>0, <1>2, <1>5
  <2>3. InBlock(r)'
    BY <1>4, <2>1, <2>2 DEF InBlock
  <2>4. status' # Ide!Ready
    BY <2>1, StatusKinds
  <2> QED
    BY <2>3, <2>4
<1>6. CASE ~(p > 1)
  <2>1. n + 1 = BlockWords
    BY <1>0, <1>2, <1>6
  <2>2. status' = Ide!Failed \/ status' = Ide!Ready
    BY <1>3, <1>6 DEF Ide!ReadWord, Ide!PioDrained, Ide!LoadDiskSector, Ide!AbortRead,
      Ide!Complete
  <2> QED
    BY <1>0, <1>4, <2>1, <2>2, StatusKinds
<1> QED
  BY <1>5, <1>6

\* The first sector of a disk request, or an abort.
LEMMA ReadStarts ==
  ASSUME IdeAssumption, NEW r \in DiskRequests, regs = r, got = <<>>, UNCHANGED got,
         Ide!StartDiskRead
  PROVE  /\ "DRQ" \in status' => InDisk(r)'
         /\ status' # Ide!Ready
<1>0. /\ r.lba \in Nat /\ r.count \in Nat \ {0} /\ SectorWords \in Nat \ {0}
  BY RequestKinds DEF IdeAssumption
<1>1. \/ status' = Ide!Failed
      \/ /\ pio' = Ide!Sector(r.lba) /\ next' = r.lba + 1 /\ left' = r.count - 1
         /\ status' = Ide!Ready \cup {"DRQ"}
  BY DEF Ide!StartDiskRead, Ide!LoadDiskSector, Ide!AbortRead
<1>2. CASE status' = Ide!Failed
  BY <1>2, StatusKinds
<1>3. CASE /\ pio' = Ide!Sector(r.lba) /\ next' = r.lba + 1 /\ left' = r.count - 1
           /\ status' = Ide!Ready \cup {"DRQ"}
  <2>1. /\ 0 \in 0 .. r.count - 1 /\ 0 \in 0 .. SectorWords - 1
        /\ 0 * SectorWords + 0 = 0 /\ r.lba + 0 = r.lba /\ SectorWords - 0 = SectorWords
        /\ (r.lba + 0) + 1 = r.lba + 1 /\ (r.count - 0) - 1 = r.count - 1
    BY <1>0
  <2>2. got' = Given(r, 0 * SectorWords + 0)
    BY <2>1, NothingYet
  <2>3. pio' = Run("disk", r.lba + 0, 0, SectorWords - 0)
    BY <1>3, <2>1, FullRuns
  <2>4. next' = (r.lba + 0) + 1 /\ left' = (r.count - 0) - 1
    BY <1>3, <2>1
  <2>5. InDisk(r)'
    BY <2>1, <2>2, <2>3, <2>4, Zenon DEF InDisk
  <2> QED
    BY <1>3, <2>5, StatusKinds
<1> QED
  BY <1>1, <1>2, <1>3

\* The last word of a READ's packet brings the block or an error.
LEMMA BlockStarts ==
  ASSUME IdeAssumption, NEW r \in PacketRequests, Reads(r), got = <<>>, UNCHANGED got,
         Ide!ExecutePacket(r)
  PROVE  /\ "DRQ" \in status' => InBlock(r)'
         /\ status' # Ide!Ready
<1>0. r.lba \in Nat /\ BlockWords \in Nat \ {0} /\ r.op = "read"
  BY RequestKinds DEF IdeAssumption, Reads
<1>1. \/ status' = Ide!Failed
      \/ pio' = Ide!Block(r.lba) /\ status' = {"DRDY", "DRQ"}
  BY <1>0 DEF Ide!ExecutePacket, Ide!Fail, Ide!CheckCondition, Ide!Answer
<1>2. CASE status' = Ide!Failed
  BY <1>2, StatusKinds
<1>3. CASE pio' = Ide!Block(r.lba) /\ status' = {"DRDY", "DRQ"}
  <2>1. 0 \in 0 .. BlockWords - 1 /\ BlockWords - 0 = BlockWords
    BY <1>0
  <2>2. got' = Run("cd", r.lba, 0, 0)
    BY NothingYet
  <2>3. pio' = Run("cd", r.lba, 0, BlockWords - 0)
    BY <1>3, <2>1, FullRuns
  <2>4. InBlock(r)'
    BY <2>1, <2>2, <2>3, Zenon DEF InBlock
  <2> QED
    BY <1>3, <2>4, StatusKinds
<1> QED
  BY <1>1, <1>2, <1>3

LEMMA IdeNext ==
  ASSUME IdeAssumption, IdeInv, [Ide!Next]_(Ide!vars)
  PROVE  IdeInv'
<1>0. /\ drv \in [at : {"idle", "selected", "loaded", "packet", "data", "done"},
                 req : DiskRequests \union PacketRequests \union {None}]
      /\ \A r \in DiskRequests : r \notin PacketRequests /\ "op" \notin DOMAIN r
      /\ \A r \in PacketRequests : r \notin DiskRequests /\ "op" \in DOMAIN r
  BY RequestKinds DEF IdeInv
<1>1. ASSUME NEW r \in DiskRequests \cup PacketRequests, Ide!Ask(r)
      PROVE  IdeInv'
  <2>1. /\ drv' = [at |-> "selected", req |-> r] /\ got' = <<>>
        /\ unit' = Ide!UnitOf(r)
    BY <1>1 DEF Ide!Ask, Ide!LoadSignature
  <2> QED
    BY <2>1 DEF IdeInv
<1>2. ASSUME NEW cmd, Ide!Probe(cmd)
      PROVE  IdeInv'
  <2>1. drv' = [at |-> "idle", req |-> None]
    BY <1>2 DEF Ide!Probe, Ide!Idle
  <2> QED
    BY <2>1 DEF IdeInv
<1>3. CASE Ide!GiveUp
  <2>1. drv' = [at |-> "idle", req |-> None]
    BY <1>3 DEF Ide!GiveUp, Ide!Idle
  <2> QED
    BY <2>1 DEF IdeInv
<1>4. CASE Ide!LoadTaskFile
  <2>1. /\ drv.at = "selected" /\ drv' = [drv EXCEPT !.at = "loaded"] /\ regs' = drv.req
        /\ "op" \notin DOMAIN drv.req /\ UNCHANGED <<got, unit>>
    BY <1>4 DEF Ide!LoadTaskFile, Ide!IsPacket
  <2>2. drv'.at = "loaded" /\ drv'.req = drv.req /\ drv.req \in DiskRequests
    BY <1>0, <2>1 DEF IdeInv
  <2>3. drv' \in [at : {"idle", "selected", "loaded", "packet", "data", "done"},
                  req : DiskRequests \union PacketRequests \union {None}]
    BY <1>0, <2>1
  <2> QED
    BY <2>1, <2>2, <2>3 DEF IdeInv
<1>5. CASE Ide!ReadSectors
  <2>1. /\ drv.at = "loaded" /\ drv' = [drv EXCEPT !.at = "data"] /\ UNCHANGED got
        /\ Ide!StartDiskRead
    BY <1>5 DEF Ide!ReadSectors
  <2>2. /\ drv'.at = "data" /\ drv'.req = drv.req
        /\ drv' \in [at : {"idle", "selected", "loaded", "packet", "data", "done"},
                     req : DiskRequests \union PacketRequests \union {None}]
    BY <1>0, <2>1
  <2>3. drv.req \in DiskRequests /\ regs = drv.req /\ got = <<>>
    BY <2>1 DEF IdeInv
  <2>4. UNCHANGED unit /\ unit = Ide!UnitOf(drv.req)
    BY <2>1 DEF IdeInv, Ide!StartDiskRead, Ide!AbortRead, Ide!LoadDiskSector
  <2>5. ("DRQ" \in status' => InDisk(drv.req)') /\ status' # Ide!Ready
    <3> DEFINE r == drv.req
    <3>1. ("DRQ" \in status' => \E j \in 0 .. r.count - 1, q \in 0 .. SectorWords - 1 :
             /\ got' = Given(r, j * SectorWords + q)
             /\ pio' = Run("disk", r.lba + j, q, SectorWords - q)
             /\ next' = (r.lba + j) + 1 /\ left' = (r.count - j) - 1)
          /\ status' # Ide!Ready
      <4> HIDE DEF r
      <4>1. r \in DiskRequests /\ regs = r /\ got = <<>>
        BY <2>3 DEF r
      <4> QED
        BY <2>1, <4>1, ReadStarts DEF InDisk
    <3> QED
      BY <2>2, <3>1 DEF InDisk
  <2> QED
    BY <1>0, <2>2, <2>3, <2>4, <2>5 DEF IdeInv
<1>6. CASE Ide!SendPacket
  <2>1. /\ drv.at = "selected" /\ drv' = [drv EXCEPT !.at = "packet"]
        /\ "op" \in DOMAIN drv.req /\ UNCHANGED <<got, unit>>
    BY <1>6 DEF Ide!SendPacket, Ide!IsPacket, Ide!Packet
  <2>2. drv'.at = "packet" /\ drv'.req = drv.req /\ drv.req \in PacketRequests
    BY <1>0, <2>1 DEF IdeInv
  <2>3. drv' \in [at : {"idle", "selected", "loaded", "packet", "data", "done"},
                  req : DiskRequests \union PacketRequests \union {None}]
    BY <1>0, <2>1
  <2> QED
    BY <2>1, <2>2, <2>3 DEF IdeInv
<1>7. CASE Ide!SendCdb
  <2>1. drv.at = "packet" /\ UNCHANGED got /\ Ide!WriteCdb(drv.req)
    BY <1>7 DEF Ide!SendCdb
  <2>2. drv.req \in PacketRequests /\ got = <<>> /\ unit = Ide!UnitOf(drv.req)
    BY <2>1 DEF IdeInv
  <2>3. UNCHANGED unit
    BY <2>1 DEF Ide!WriteCdb, Ide!ExecutePacket, Ide!Answer, Ide!Fail, Ide!CheckCondition
  <2>4. CASE cdb + 1 < CdbWords
    <3>1. UNCHANGED drv
      BY <1>7, <2>4 DEF Ide!SendCdb
    <3> QED
      BY <2>1, <2>2, <2>3, <3>1 DEF IdeInv
  <2>5. CASE ~(cdb + 1 < CdbWords)
    <3>1. drv' = [drv EXCEPT !.at = "data"] /\ Ide!ExecutePacket(drv.req)
      BY <1>7, <2>5 DEF Ide!SendCdb, Ide!WriteCdb
    <3>2. /\ drv'.at = "data" /\ drv'.req = drv.req
          /\ drv' \in [at : {"idle", "selected", "loaded", "packet", "data", "done"},
                       req : DiskRequests \union PacketRequests \union {None}]
      BY <1>0, <3>1
    <3>3. Reads(drv.req)
            => ("DRQ" \in status' => InBlock(drv.req)') /\ status' # Ide!Ready
      <4> DEFINE r == drv.req
      <4>1. Reads(r) => /\ "DRQ" \in status' => \E n \in 0 .. BlockWords - 1 :
                             /\ got' = Run("cd", r.lba, 0, n)
                             /\ pio' = Run("cd", r.lba, n, BlockWords - n)
                        /\ status' # Ide!Ready
        <5>1. r \in PacketRequests /\ Ide!ExecutePacket(r)
          BY <2>2, <3>1
        <5> HIDE DEF r
        <5> QED
          BY <2>1, <2>2, <5>1, BlockStarts DEF InBlock
      <4> QED
        BY <3>2, <4>1 DEF InBlock
    <3>4. Reads(drv.req)' <=> Reads(drv.req)
      BY <3>2 DEF Reads
    <3> QED
      BY <1>0, <2>1, <2>2, <2>3, <3>2, <3>3, <3>4 DEF IdeInv
  <2> QED
    BY <2>4, <2>5
<1>8. CASE Ide!TakeWord
  <2>1. /\ drv.at = "data" /\ "DRQ" \in status /\ got' = Append(got, Head(pio))
        /\ Ide!ReadWord /\ UNCHANGED drv
    BY <1>8 DEF Ide!TakeWord
  <2>2. /\ drv.req \in DiskRequests \union PacketRequests /\ unit = Ide!UnitOf(drv.req)
        /\ drv.req \in DiskRequests => InDisk(drv.req)
        /\ drv.req \in PacketRequests /\ Reads(drv.req) => InBlock(drv.req)
    BY <2>1 DEF IdeInv
  <2>3. UNCHANGED unit
    BY <2>1 DEF Ide!ReadWord, Ide!PioDrained, Ide!LoadDiskSector, Ide!AbortRead, Ide!Complete
  <2> DEFINE r == drv.req
             Disk == \E j \in 0 .. r.count - 1, q \in 0 .. SectorWords - 1 :
                       /\ got' = Given(r, j * SectorWords + q)
                       /\ pio' = Run("disk", r.lba + j, q, SectorWords - q)
                       /\ next' = (r.lba + j) + 1 /\ left' = (r.count - j) - 1
             Cd == \E n \in 0 .. BlockWords - 1 :
                     got' = Run("cd", r.lba, 0, n) /\ pio' = Run("cd", r.lba, n, BlockWords - n)
  <2>4. /\ r \in DiskRequests /\ "DRQ" \in status' => Disk
        /\ r \in PacketRequests /\ Reads(r) /\ "DRQ" \in status' => Cd
        /\ Reads(r) /\ status' = Ide!Ready => got' = Ide!Words(r)
    <3>1. /\ r \in DiskRequests \union PacketRequests /\ unit = Ide!UnitOf(r)
          /\ r \in DiskRequests => InDisk(r)
          /\ r \in PacketRequests /\ Reads(r) => InBlock(r)
      BY <2>2
    <3> HIDE DEF r
    <3>2. CASE r \in DiskRequests
      BY <1>0, <2>1, <3>1, <3>2, DiskWord DEF InDisk
    <3>3. CASE r \in PacketRequests
      <4>1. unit = "cd" /\ r \notin DiskRequests
        BY <3>1, <3>3, RequestKinds
      <4> QED
        BY <2>1, <3>1, <3>3, <4>1, BlockWord DEF InBlock
    <3> QED
      BY <3>1, <3>2, <3>3
  <2>5. /\ drv.req \in DiskRequests /\ "DRQ" \in status' => InDisk(drv.req)'
        /\ drv.req \in PacketRequests /\ Reads(drv.req) /\ "DRQ" \in status' => InBlock(drv.req)'
        /\ Reads(drv.req)' <=> Reads(drv.req)
    BY <2>1, <2>4 DEF InDisk, InBlock, Reads
  <2>6. Ide!Words(drv.req)' = Ide!Words(drv.req) /\ Ide!UnitOf(drv.req)' = Ide!UnitOf(drv.req)
    BY <2>1 DEF Ide!Words, Ide!UnitOf, Ide!Block
  <2> QED
    BY <1>0, <2>1, <2>2, <2>3, <2>4, <2>5, <2>6 DEF IdeInv
<1>9. CASE Ide!Finish
  <2>1. /\ drv.at = "data" /\ "DRQ" \notin status /\ drv' = [drv EXCEPT !.at = "done"]
        /\ UNCHANGED <<unit, status, got>>
    BY <1>9 DEF Ide!Finish, Ide!chan
  <2>2. /\ drv'.at = "done" /\ drv'.req = drv.req
        /\ drv' \in [at : {"idle", "selected", "loaded", "packet", "data", "done"},
                     req : DiskRequests \union PacketRequests \union {None}]
    BY <1>0, <2>1
  <2>3. /\ Ide!Words(drv.req)' = Ide!Words(drv.req) /\ Ide!UnitOf(drv.req)' = Ide!UnitOf(drv.req)
        /\ Reads(drv.req)' <=> Reads(drv.req)
    BY <2>2 DEF Ide!Words, Ide!UnitOf, Ide!Block, Reads
  <2> QED
    BY <2>1, <2>2, <2>3 DEF IdeInv
<1>10. CASE UNCHANGED Ide!vars
  BY <1>10 DEF Ide!vars, Ide!chan, IdeInv, InDisk, InBlock, Reads, Ide!Words, Ide!UnitOf,
    Ide!Block
<1> QED
  BY <1>1, <1>2, <1>3, <1>4, <1>5, <1>6, <1>7, <1>8, <1>9, <1>10 DEF Ide!Next

(* A read that ends without ERR has delivered the sectors, or the CD block,    *)
(* the driver asked for, each word once and in order, whatever commands were    *)
(* abandoned on either unit before it: for every capacity, sector and block     *)
(* size and every set of requests that name at least one sector.                *)
THEOREM ReadsDeliver ==
  ASSUME IdeAssumption
  PROVE  Ide!Spec => []ReadDelivers
<1>1. Ide!Init => IdeInv
  BY DEF Ide!Init, Ide!Idle, IdeInv
<1>2. IdeInv /\ [Ide!Next]_(Ide!vars) => IdeInv'
  BY IdeNext
<1>3. IdeInv => ReadDelivers
  <2> SUFFICES ASSUME IdeInv, drv.at = "done", status = Ide!Ready,
                      Ide!IsPacket => drv.req.op = "read"
               PROVE  got = Ide!Words(drv.req)
    BY DEF ReadDelivers, Ide!ReadDelivers
  <2>1. Reads(drv.req)
    BY RequestKinds DEF Reads, Ide!IsPacket
  <2> QED
    BY <2>1 DEF IdeInv
<1> QED
  BY <1>1, <1>2, <1>3, PTL DEF Ide!Spec

-----------------------------------------------------------------------------
(* The IIC bus.  The strengthening of IicReadsBack: outside a write under way  *)
(* the images are what completed writes left; inside one only the cells it     *)
(* names may differ, and the ones it has sent hold its bytes.  The driver and   *)
(* the controller agree on the transaction while PIN is clear; a saved machine  *)
(* keeps the half of this that a fresh controller cannot lose.                  *)

\* Byte j of a request, counted from 1.
ByteAt(r, j) == (r.off + j - 1) % Size

\* An image has bytes, and no request is longer than it or starts outside it.
IicAssumption ==
  /\ Size \in Nat \ {0} /\ Bytes # {}
  /\ \A r \in Requests :
       /\ r.off \in 0 .. Size - 1 /\ r.data \in Seq(Bytes) /\ Len(r.data) <= Size
       /\ \A d \in {"Write", "Read"} : [node |-> r.node, dir |-> d] # None

IicImages == [Nodes -> [0 .. Size - 1 -> Bytes]]

IicSteps == {"ready", "stage", "start", "offset", "data", "turn", "restage", "restart",
             "dummy", "bytes", "last", "done", "absent"}

\* The cells a write under way may have touched.
Open(d, n, i) ==
  /\ d.at \in {"stage", "start", "offset", "data"} /\ d.req.op = "write"
  /\ n = d.req.node /\ n \notin Indicators
  /\ \E j \in 1 .. Len(d.req.data) : ByteAt(d.req, j) = i

ReadSoFar(d, g, rf) ==
  \A i \in 1 .. Len(g) : g[i] = rf[d.req.node][ByteAt(d.req, i)]

\* What a snapshot keeps.
Kept(d, g, m, rf) ==
  /\ d \in [at : IicSteps, req : Requests \union {None}]
  /\ d.at # "ready" => d.req \in Requests
  /\ g \in Seq(Bytes \union {None}) /\ m \in IicImages /\ rf \in IicImages
  /\ \A n \in Nodes, i \in 0 .. Size - 1 : m[n][i] = rf[n][i] \/ Open(d, n, i)
  /\ d.at \in {"stage", "start", "offset", "turn", "restage", "restart", "dummy"} => g = <<>>
  /\ d.at = "data" => d.req.op = "write"
  /\ d.at = "done" => ReadSoFar(d, g, rf)

\* What the controller and the driver agree on.
Agreed(d, g, m, rf, c, f, dm, p, l, s, o) ==
  /\ d.at = "start" => s = [node |-> d.req.node, dir |-> "Write"]
  /\ d.at = "restart" => s = [node |-> d.req.node, dir |-> "Read"]
  /\ d.at \in {"restage", "restart"} => d.req.node \in Nodes /\ o[d.req.node] = d.req.off
  /\ d.at = "offset" /\ ~p =>
       IF d.req.node \in Nodes THEN ~l /\ c = d.req.node /\ f ELSE l
  /\ d.at = "data" /\ ~p =>
       /\ d.req.node \in Nodes /\ c = d.req.node /\ ~f /\ Len(g) <= Len(d.req.data)
       /\ d.req.node \notin Indicators =>
            /\ o[d.req.node] = (d.req.off + Len(g)) % Size
            /\ \A j \in 1 .. Len(g) : m[d.req.node][ByteAt(d.req, j)] = d.req.data[j]
  /\ d.at = "turn" /\ ~p => d.req.node \in Nodes /\ o[d.req.node] = d.req.off
  /\ d.at \in {"dummy", "bytes"} /\ ~p => d.req.node \in Nodes /\ c = d.req.node
  /\ d.at = "dummy" /\ ~p => ~l /\ ~dm /\ o[d.req.node] = d.req.off
  /\ d.at = "bytes" /\ ~p =>
       /\ dm /\ o[d.req.node] = (d.req.off + Len(g)) % Size /\ Len(g) <= Len(d.req.data)
       /\ ReadSoFar(d, g, rf)
  /\ d.at = "last" /\ ~p => ReadSoFar(d, g, rf)

IicTypes ==
  /\ pin \in BOOLEAN /\ lrb \in BOOLEAN /\ first \in BOOLEAN /\ dummy \in BOOLEAN
  /\ off \in [Nodes -> 0 .. Size - 1]

IicInv ==
  /\ torn \in BOOLEAN
  /\ ~torn => /\ IicTypes
              /\ Kept(iicDrv, iicGot, img, ref)
              /\ Agreed(iicDrv, iicGot, img, ref, cur, first, dummy, pin, lrb, shift, off)
  /\ saved # None => /\ saved.torn \in BOOLEAN
                     /\ ~saved.torn => Kept(saved.drv, saved.got, saved.img, saved.ref)

\* The offset wraps at most once in a request.
LEMMA ModSmall ==
  ASSUME NEW S \in Nat \ {0}, NEW a \in 0 .. (2 * S) - 1
  PROVE  a % S = IF a < S THEN a ELSE a - S
<1>1. CASE a < S
  <2>1. a = 0 * S + a /\ a \in 0 .. S - 1
    BY <1>1
  <2> QED
    BY <1>1, <2>1, DivMod
<1>2. CASE ~(a < S)
  <2>1. a = 1 * S + (a - S) /\ a - S \in 0 .. S - 1
    BY <1>2
  <2> QED
    BY <1>2, <2>1, DivMod
<1> QED
  BY <1>1, <1>2

LEMMA Offsets ==
  ASSUME NEW S \in Nat \ {0}, NEW f \in 0 .. S - 1, NEW k \in 0 .. S - 1
  PROVE  /\ (f + k) % S \in 0 .. S - 1
         /\ (((f + k) % S) + 1) % S = (f + (k + 1)) % S
         /\ (f + (k + 1) - 1) % S = (f + k) % S
         /\ (f + 0) % S = f
         /\ (f + (k + 1)) % S \in 0 .. S - 1
<1>1. /\ f + k \in 0 .. (2 * S) - 1
      /\ f + (k + 1) \in 0 .. (2 * S) - 1
      /\ f + 0 = f /\ f + (k + 1) - 1 = f + k /\ f \in 0 .. (2 * S) - 1
  OBVIOUS
<1>2. /\ (f + k) % S = IF f + k < S THEN f + k ELSE (f + k) - S
      /\ (f + (k + 1)) % S = IF f + (k + 1) < S THEN f + (k + 1) ELSE (f + (k + 1)) - S
      /\ f % S = f
  <2>1. \A a \in 0 .. (2 * S) - 1 : a % S = IF a < S THEN a ELSE a - S
    BY ModSmall
  <2>2. f % S = f
    BY <1>1, <2>1
  <2> QED
    BY <1>1, <2>1, <2>2
<1>3. (f + k) % S \in 0 .. S - 1
  <2> DEFINE m == (f + k) % S
  <2>1. m = IF f + k < S THEN f + k ELSE (f + k) - S
    BY <1>2
  <2> HIDE DEF m
  <2>2. m \in 0 .. S - 1
    BY <2>1
  <2> QED
    BY <2>2 DEF m
<1>4. (((f + k) % S) + 1) % S = (f + (k + 1)) % S
  <2> DEFINE x == ((f + k) % S) + 1
  <2>1. x = IF f + k < S THEN (f + k) + 1 ELSE ((f + k) - S) + 1
    BY <1>2
  <2>2. x \in 0 .. (2 * S) - 1
    BY <2>1
  <2> HIDE DEF x
  <2>3. x % S = IF x < S THEN x ELSE x - S
    BY <2>2, ModSmall
  <2>4. x % S = (f + (k + 1)) % S
    BY <1>2, <2>1, <2>3
  <2> QED
    BY <2>4 DEF x
<1>5. ASSUME NEW a \in Nat PROVE a % S \in 0 .. S - 1
  OBVIOUS
<1>6. f + (k + 1) \in Nat
  OBVIOUS
<1> QED
  BY <1>1, <1>2, <1>3, <1>4, <1>5, <1>6

\* Two bytes of a request have two cells.
LEMMA OffsetsApart ==
  ASSUME NEW S \in Nat \ {0}, NEW f \in 0 .. S - 1, NEW k \in 0 .. S - 1, NEW j \in 1 .. k
  PROVE  (f + j - 1) % S # (f + k) % S /\ (f + j - 1) % S \in 0 .. S - 1
<1>1. f + j - 1 \in 0 .. (2 * S) - 1 /\ f + k \in 0 .. (2 * S) - 1
  OBVIOUS
<1>2. /\ (f + j - 1) % S = IF f + j - 1 < S THEN f + j - 1 ELSE (f + j - 1) - S
      /\ (f + k) % S = IF f + k < S THEN f + k ELSE (f + k) - S
  BY <1>1, ModSmall
<1> DEFINE x == (f + j - 1) % S
           y == (f + k) % S
<1> HIDE DEF x, y
<1>3. x # y /\ x \in 0 .. S - 1
  BY <1>2 DEF x, y
<1> QED
  BY <1>3 DEF x, y

\* The driver moves on and the images stay.
LEMMA KeptGoes ==
  ASSUME NEW d, NEW g, NEW m, NEW rf, Kept(d, g, m, rf), d.at # "ready",
         NEW s \in IicSteps \ {"ready"}, NEW e, e = [d EXCEPT !.at = s],
         \/ s \in {"stage", "start", "offset", "data"}
         \/ d.at \notin {"stage", "start", "offset", "data"} \/ d.req.op # "write"
         \/ d.req.node \notin Nodes,
         NEW h \in Seq(Bytes \union {None}),
         s \in {"stage", "start", "offset", "turn", "restage", "restart", "dummy"} => h = <<>>,
         s = "data" => d.req.op = "write",
         s = "done" => ReadSoFar(d, h, rf)
  PROVE  /\ Kept(e, h, m, rf) /\ e.at = s /\ e.req = d.req /\ d.req \in Requests
         /\ d \in [at : IicSteps, req : Requests \union {None}]
<1>1. /\ d \in [at : IicSteps, req : Requests \union {None}] /\ d.req \in Requests
      /\ e.at = s /\ e.req = d.req /\ e \in [at : IicSteps, req : Requests \union {None}]
  BY DEF Kept
<1>2. ASSUME NEW n \in Nodes, NEW i \in 0 .. Size - 1
      PROVE  m[n][i] = rf[n][i] \/ Open(e, n, i)
  <2>1. m[n][i] = rf[n][i] \/ Open(d, n, i)
    BY DEF Kept
  <2> QED
    BY <1>1, <2>1 DEF Open
<1>3. s = "done" => ReadSoFar(e, h, rf)
  BY <1>1 DEF ReadSoFar
<1>4. m \in IicImages /\ rf \in IicImages
  BY DEF Kept
<1> QED
  BY <1>1, <1>2, <1>3, <1>4 DEF Kept

\* The same, with no byte counted.
LEMMA KeptStarts ==
  ASSUME NEW d, NEW g, NEW m, NEW rf, Kept(d, g, m, rf), d.req \in Requests,
         NEW e \in [at : IicSteps, req : Requests \union {None}], e.req = d.req,
         e.at \in {"stage", "start", "offset", "turn", "restage", "restart", "dummy"},
         \/ e.at \in {"stage", "start", "offset"}
         \/ d.at \notin {"stage", "start", "offset", "data"}
  PROVE  Kept(e, <<>>, m, rf)
<1>1. ASSUME NEW n \in Nodes, NEW i \in 0 .. Size - 1
      PROVE  m[n][i] = rf[n][i] \/ Open(e, n, i)
  <2>1. m[n][i] = rf[n][i] \/ Open(d, n, i)
    BY DEF Kept
  <2> QED
    BY <2>1 DEF Open
<1>2. m \in IicImages /\ rf \in IicImages /\ <<>> \in Seq(Bytes \union {None})
  BY DEF Kept
<1> QED
  BY <1>1, <1>2 DEF Kept

\* The driver's record after a step.
LEMMA Goes ==
  ASSUME NEW d, NEW g, NEW m, NEW rf, Kept(d, g, m, rf), d.at # "ready",
         NEW s \in IicSteps, NEW e, e = [d EXCEPT !.at = s]
  PROVE  /\ e \in [at : IicSteps, req : Requests \union {None}]
         /\ e.at = s /\ e.req = d.req /\ d.req \in Requests
BY DEF Kept

LEMMA IicInitially == ASSUME IicAssumption PROVE Iic!Init => IicInv
<1> SUFFICES ASSUME Iic!Init PROVE IicInv
  OBVIOUS
<1>1. Iic!Blank \in IicImages
  BY DEF Iic!Blank, IicImages, IicAssumption
<1>2. Kept(iicDrv, iicGot, img, ref)
  <2>1. iicDrv = [at |-> "ready", req |-> None] /\ iicGot = <<>> /\ img = ref /\ img \in IicImages
    BY <1>1 DEF Iic!Init, Iic!Ready
  <2> QED
    BY <2>1 DEF Kept, IicSteps
<1>3. IicTypes
  <2>1. off = [n \in Nodes |-> 0] /\ 0 \in 0 .. Size - 1
    BY DEF Iic!Init, IicAssumption
  <2>2. pin \in BOOLEAN /\ lrb \in BOOLEAN /\ first \in BOOLEAN /\ dummy \in BOOLEAN
    BY DEF Iic!Init
  <2> QED
    BY <2>1, <2>2 DEF IicTypes
<1>4. iicDrv.at = "ready"
  BY DEF Iic!Init, Iic!Ready
<1> QED
  BY <1>2, <1>3, <1>4 DEF IicInv, Agreed, Iic!Init

\* The actions that leave the images alone.
LEMMA IicQuiet ==
  ASSUME IicAssumption, IicTypes, Kept(iicDrv, iicGot, img, ref),
         Agreed(iicDrv, iicGot, img, ref, cur, first, dummy, pin, lrb, shift, off),
         \/ \E r \in Requests : Iic!Submit(r)
         \/ Iic!Stage \/ Iic!Start \/ Iic!NoAnswer \/ Iic!Forget \/ Iic!TurnAround
         \/ Iic!Nack \/ Iic!EndRead \/ Iic!TimeOut
  PROVE  /\ IicTypes' /\ Kept(iicDrv', iicGot', img', ref')
         /\ Agreed(iicDrv', iicGot', img', ref', cur', first', dummy', pin', lrb', shift', off')
<1> DEFINE Goal == /\ IicTypes' /\ Kept(iicDrv', iicGot', img', ref')
                   /\ Agreed(iicDrv', iicGot', img', ref', cur', first', dummy', pin', lrb',
                             shift', off')
           GotTyped == iicGot \in Seq(Bytes \union {None}) /\ <<>> \in Seq(Bytes \union {None})
<1>0. GotTyped
  BY DEF Kept
<1>1. ASSUME NEW r \in Requests, Iic!Submit(r) PROVE Goal
  <2>1. /\ iicDrv.at \in {"ready", "done"} /\ iicDrv' = [at |-> "stage", req |-> r]
        /\ iicGot' = <<>>
        /\ UNCHANGED <<cur, first, dummy, pin, lrb, shift, off, img, ref>>
    BY <1>1 DEF Iic!Submit, Iic!ctl
  <2>2. Kept(iicDrv', iicGot', img', ref')
    BY <2>1 DEF Kept, Open, IicSteps
  <2> QED
    BY <2>1, <2>2 DEF IicTypes, Agreed
<1>2. CASE Iic!Stage
  <2> DEFINE s == IF iicDrv.at = "stage" THEN "start" ELSE "restart"
  <2>1. /\ iicDrv.at \in {"stage", "restage"} /\ iicDrv' = [iicDrv EXCEPT !.at = s]
        /\ shift' = [node |-> iicDrv.req.node,
                     dir |-> IF iicDrv.at = "stage" THEN "Write" ELSE "Read"]
        /\ UNCHANGED <<cur, first, dummy, pin, lrb, off, img, ref, iicGot>>
    BY <1>2 DEF Iic!Stage, Iic!Goto, Iic!StageAddress, Iic!DirOf
  <2>2. iicGot = <<>> /\ s \in IicSteps \ {"ready"}
    BY <2>1 DEF Kept, IicSteps
  <2>3. /\ Kept(iicDrv', iicGot', img', ref')
        /\ iicDrv'.at = s /\ iicDrv'.req = iicDrv.req
    <3>0. /\ s \in {"stage", "start", "offset", "turn", "restage", "restart", "dummy"}
          /\ \/ s \in {"stage", "start", "offset"}
             \/ iicDrv.at \notin {"stage", "start", "offset", "data"}
          /\ iicDrv.at # "ready" /\ iicDrv' = [iicDrv EXCEPT !.at = s] /\ s \in IicSteps
      BY <2>1 DEF IicSteps
    <3> HIDE DEF s
    <3>1. /\ iicDrv' \in [at : IicSteps, req : Requests \union {None}]
          /\ iicDrv'.at = s /\ iicDrv'.req = iicDrv.req /\ iicDrv.req \in Requests
      BY <3>0, Goes
    <3>2. Kept(iicDrv', <<>>, img, ref)
      BY <3>0, <3>1, KeptStarts
    <3> QED
      BY <2>1, <2>2, <3>1, <3>2
  <2> QED
    BY <2>1, <2>3 DEF IicTypes, Agreed
<1>3. CASE Iic!Start
  <2> DEFINE s == IF iicDrv.at = "start" THEN "offset" ELSE "dummy"
  <2>1. /\ iicDrv.at \in {"start", "restart"} /\ iicDrv' = [iicDrv EXCEPT !.at = s]
        /\ Iic!StartTransaction
        /\ UNCHANGED <<off, img, ref, iicGot>>
    BY <1>3 DEF Iic!Start, Iic!Goto, Iic!StartTransaction
  <2>2. iicGot = <<>> /\ s \in IicSteps \ {"ready"}
    BY <2>1 DEF Kept, IicSteps
  <2>3. /\ Kept(iicDrv', iicGot', img', ref')
        /\ iicDrv'.at = s /\ iicDrv'.req = iicDrv.req /\ iicDrv.req \in Requests
    <3>0. /\ s \in {"stage", "start", "offset", "turn", "restage", "restart", "dummy"}
          /\ \/ s \in {"stage", "start", "offset"}
             \/ iicDrv.at \notin {"stage", "start", "offset", "data"}
          /\ iicDrv.at # "ready" /\ iicDrv' = [iicDrv EXCEPT !.at = s] /\ s \in IicSteps
      BY <2>1 DEF IicSteps
    <3> HIDE DEF s
    <3>1. /\ iicDrv' \in [at : IicSteps, req : Requests \union {None}]
          /\ iicDrv'.at = s /\ iicDrv'.req = iicDrv.req /\ iicDrv.req \in Requests
      BY <3>0, Goes
    <3>2. Kept(iicDrv', <<>>, img, ref)
      BY <3>0, <3>1, KeptStarts
    <3> QED
      BY <2>1, <2>2, <3>1, <3>2
  <2>4. /\ shift.node = iicDrv.req.node /\ shift # None
        /\ iicDrv.at = "restart" => /\ iicDrv.req.node \in Nodes
                                    /\ off[iicDrv.req.node] = iicDrv.req.off
    BY <2>1, <2>3 DEF Agreed, IicAssumption
  <2>5. /\ pin' = FALSE
        /\ IF iicDrv.req.node \in Nodes
           THEN cur' = iicDrv.req.node /\ lrb' = FALSE /\ dummy' = FALSE /\ first' = TRUE
           ELSE lrb' = TRUE /\ UNCHANGED <<first, dummy>>
    BY <2>1, <2>4 DEF Iic!StartTransaction, Iic!NoShift
  <2>6. IicTypes'
    BY <2>1, <2>5 DEF IicTypes
  <2> QED
    BY <2>1, <2>3, <2>4, <2>5, <2>6 DEF Agreed
<1>4. CASE Iic!NoAnswer
  <2>1. /\ iicDrv.at \in {"offset", "dummy"} /\ ~pin /\ lrb
        /\ iicDrv' = [iicDrv EXCEPT !.at = "absent"]
        /\ pin' = TRUE /\ lrb' = FALSE
        /\ UNCHANGED <<first, dummy, off, img, ref, iicGot>>
    BY <1>4 DEF Iic!NoAnswer, Iic!Goto, Iic!WriteStop
  <2>2. iicDrv.at = "offset" => iicDrv.req.node \notin Nodes
    BY <2>1 DEF Agreed
  <2>3. "absent" \in IicSteps \ {"ready"}
    BY DEF IicSteps
  <2>4. Kept(iicDrv', iicGot', img', ref') /\ iicDrv'.at = "absent"
    BY <1>0, <2>1, <2>2, <2>3, KeptGoes
  <2> QED
    BY <2>1, <2>4 DEF IicTypes, Agreed
<1>5. CASE Iic!Forget
  <2>1. /\ iicDrv.at = "absent" /\ iicDrv' = [at |-> "ready", req |-> None]
        /\ UNCHANGED <<cur, first, dummy, pin, lrb, shift, off, img, ref, iicGot>>
    BY <1>5 DEF Iic!Forget, Iic!ctl, Iic!Ready
  <2>2. Kept(iicDrv', iicGot', img', ref')
    BY <2>1 DEF Kept, Open, IicSteps
  <2> QED
    BY <2>1, <2>2 DEF IicTypes, Agreed
<1>6. CASE Iic!TurnAround
  <2>1. /\ iicDrv.at = "turn" /\ ~pin /\ iicDrv' = [iicDrv EXCEPT !.at = "restage"]
        /\ pin' = TRUE /\ lrb' = FALSE
        /\ UNCHANGED <<first, dummy, off, img, ref, iicGot>>
    BY <1>6 DEF Iic!TurnAround, Iic!Goto, Iic!WriteStop, Iic!Served
  <2>2. iicGot = <<>> /\ "restage" \in IicSteps \ {"ready"}
    BY <2>1 DEF Kept, IicSteps
  <2>3. /\ Kept(iicDrv', iicGot', img', ref')
        /\ iicDrv'.at = "restage" /\ iicDrv'.req = iicDrv.req
    <3>0. "restage" \in IicSteps /\ iicDrv.at # "ready"
      BY <2>1 DEF IicSteps
    <3>1. /\ iicDrv' \in [at : IicSteps, req : Requests \union {None}]
          /\ iicDrv'.at = "restage" /\ iicDrv'.req = iicDrv.req /\ iicDrv.req \in Requests
      BY <2>1, <3>0, Goes
    <3>2. Kept(iicDrv', <<>>, img, ref)
      BY <2>1, <3>1, KeptStarts
    <3> QED
      BY <2>1, <2>2, <3>1, <3>2
  <2> QED
    BY <2>1, <2>3 DEF IicTypes, Agreed
<1>7. CASE Iic!Nack
  <2>1. /\ iicDrv.at = "bytes" /\ ~pin /\ iicDrv' = [iicDrv EXCEPT !.at = "last"]
        /\ lrb' \in BOOLEAN /\ pin' \in BOOLEAN
        /\ UNCHANGED <<first, dummy, off, img, ref, iicGot>>
    BY <1>7 DEF Iic!Nack, Iic!Goto, Iic!WriteNack, Iic!Served
  <2>2. "last" \in IicSteps \ {"ready"}
    BY DEF IicSteps
  <2>3. /\ Kept(iicDrv', iicGot', img', ref')
        /\ iicDrv'.at = "last" /\ iicDrv'.req = iicDrv.req
    BY <1>0, <2>1, <2>2, KeptGoes
  <2>4. ReadSoFar(iicDrv', iicGot', ref')
    BY <2>1, <2>3 DEF Agreed, ReadSoFar
  <2> QED
    BY <2>1, <2>3, <2>4 DEF IicTypes, Agreed
<1>8. CASE Iic!EndRead
  <2>1. /\ iicDrv.at = "last" /\ ~pin /\ iicDrv' = [iicDrv EXCEPT !.at = "done"]
        /\ pin' = TRUE /\ lrb' = FALSE
        /\ UNCHANGED <<first, dummy, off, img, ref, iicGot>>
    BY <1>8 DEF Iic!EndRead, Iic!Goto, Iic!WriteStop
  <2>2. "done" \in IicSteps \ {"ready"} /\ ReadSoFar(iicDrv, iicGot, ref)
    BY <2>1 DEF IicSteps, Agreed
  <2>3. Kept(iicDrv', iicGot', img', ref') /\ iicDrv'.at = "done"
    BY <1>0, <2>1, <2>2, KeptGoes
  <2> QED
    BY <2>1, <2>3 DEF IicTypes, Agreed
<1>9. CASE Iic!TimeOut
  <2>1. /\ iicDrv.at \in {"offset", "data", "turn", "dummy", "bytes", "last"}
        /\ iicDrv' = [iicDrv EXCEPT !.at = "stage"] /\ iicGot' = <<>>
        /\ pin' = TRUE /\ lrb' = FALSE
        /\ UNCHANGED <<first, dummy, off, img, ref>>
    BY <1>9 DEF Iic!TimeOut, Iic!Goto, Iic!WriteStop
  <2>3. Kept(iicDrv', iicGot', img', ref') /\ iicDrv'.at = "stage"
    <3>0. "stage" \in IicSteps /\ iicDrv.at # "ready"
      BY <2>1 DEF IicSteps
    <3>1. /\ iicDrv' \in [at : IicSteps, req : Requests \union {None}]
          /\ iicDrv'.at = "stage" /\ iicDrv'.req = iicDrv.req /\ iicDrv.req \in Requests
      BY <2>1, <3>0, Goes
    <3>2. Kept(iicDrv', <<>>, img, ref)
      BY <2>1, <3>1, KeptStarts
    <3> QED
      BY <2>1, <3>1, <3>2
  <2> QED
    BY <2>1, <2>3 DEF IicTypes, Agreed
<1> QED
  BY <1>1, <1>2, <1>3, <1>4, <1>5, <1>6, <1>7, <1>8, <1>9

\* The offset byte, the dummy and a byte read.
LEMMA IicReads ==
  ASSUME IicAssumption, IicTypes, Kept(iicDrv, iicGot, img, ref),
         Agreed(iicDrv, iicGot, img, ref, cur, first, dummy, pin, lrb, shift, off),
         Iic!SendOffset \/ Iic!ReadDummy \/ Iic!ReadByte
  PROVE  /\ IicTypes' /\ Kept(iicDrv', iicGot', img', ref')
         /\ Agreed(iicDrv', iicGot', img', ref', cur', first', dummy', pin', lrb', shift', off')
<1> DEFINE Goal == /\ IicTypes' /\ Kept(iicDrv', iicGot', img', ref')
                   /\ Agreed(iicDrv', iicGot', img', ref', cur', first', dummy', pin', lrb',
                             shift', off')
<1>1. CASE Iic!SendOffset
  <2> DEFINE s == IF iicDrv.req.op = "write" THEN "data" ELSE "turn"
  <2>1. /\ iicDrv.at = "offset" /\ ~pin /\ ~lrb /\ iicDrv' = [iicDrv EXCEPT !.at = s]
        /\ Iic!WriteS0(iicDrv.req.off) /\ UNCHANGED <<iicGot, ref>>
    BY <1>1 DEF Iic!SendOffset, Iic!Served, Iic!Goto
  <2>2. /\ iicDrv.req.node \in Nodes /\ cur = iicDrv.req.node /\ first
    BY <2>1 DEF Agreed
  <2>3. /\ off' = [off EXCEPT ![cur] = iicDrv.req.off] /\ first' = FALSE
        /\ lrb' = FALSE /\ pin' = FALSE /\ UNCHANGED <<img, cur, dummy>>
    BY <2>1, <2>2 DEF Iic!WriteS0
  <2>4. /\ iicDrv.req \in Requests /\ iicGot = <<>> /\ iicGot \in Seq(Bytes \union {None})
        /\ s \in IicSteps \ {"ready"} /\ s \in {"data", "turn"}
        /\ s = "data" <=> iicDrv.req.op = "write"
    BY <2>1 DEF Kept, IicSteps
  <2> HIDE DEF s
  <2>5. /\ Kept(iicDrv', iicGot, img, ref)
        /\ iicDrv'.at = s /\ iicDrv'.req = iicDrv.req
    BY <2>1, <2>4, KeptGoes
  <2>6. /\ iicDrv.req.off \in 0 .. Size - 1 /\ iicDrv.req.data \in Seq(Bytes)
        /\ Size \in Nat \ {0} /\ Len(iicDrv.req.data) \in Nat
    BY <2>4 DEF IicAssumption
  <2>7. off' \in [Nodes -> 0 .. Size - 1] /\ off'[iicDrv.req.node] = iicDrv.req.off
    BY <2>2, <2>3, <2>6 DEF IicTypes
  <2>8. (iicDrv.req.off + 0) % Size = iicDrv.req.off
    <3>1. 0 \in 0 .. Size - 1
      BY <2>6
    <3> QED
      BY <2>6, <3>1, Offsets
  <2>9. Len(iicGot) = 0
    BY <2>4
  <2>10. IicTypes'
    BY <2>3, <2>7 DEF IicTypes
  <2>11. Kept(iicDrv', iicGot', img', ref')
    BY <2>1, <2>3, <2>5
  <2>12. Agreed(iicDrv', iicGot, img, ref, cur, FALSE, dummy, FALSE, FALSE, shift', off')
    BY <2>2, <2>4, <2>5, <2>6, <2>7, <2>8, <2>9 DEF Agreed
  <2>13. Agreed(iicDrv', iicGot', img', ref', cur', first', dummy', pin', lrb', shift', off')
    BY <2>1, <2>3, <2>12
  <2> QED
    BY <2>10, <2>11, <2>13
<1>2. CASE Iic!ReadDummy
  <2>1. /\ iicDrv.at = "dummy" /\ ~pin /\ ~lrb /\ iicDrv' = [iicDrv EXCEPT !.at = "bytes"]
        /\ \E b \in Bytes \cup {None} : Iic!ReadS0(b)
        /\ UNCHANGED <<iicGot, ref>>
    BY <1>2 DEF Iic!ReadDummy, Iic!Served, Iic!Goto
  <2>2. /\ iicDrv.req.node \in Nodes /\ cur = iicDrv.req.node /\ ~dummy
        /\ off[iicDrv.req.node] = iicDrv.req.off
    BY <2>1 DEF Agreed
  <2>3. dummy' = TRUE /\ UNCHANGED <<off, img, cur, first, pin, lrb, shift>>
    BY <2>1, <2>2 DEF Iic!ReadS0
  <2>4. /\ iicDrv.req \in Requests /\ iicGot = <<>> /\ iicGot \in Seq(Bytes \union {None})
        /\ "bytes" \in IicSteps \ {"ready"}
    BY <2>1 DEF Kept, IicSteps
  <2>5. /\ Kept(iicDrv', iicGot, img, ref)
        /\ iicDrv'.at = "bytes" /\ iicDrv'.req = iicDrv.req
    <3>1. iicGot \in Seq(Bytes \union {None}) /\ "bytes" \in IicSteps \ {"ready"}
      BY <2>4
    <3> QED
      BY <2>1, <3>1, KeptGoes
  <2>6. /\ iicDrv.req.off \in 0 .. Size - 1 /\ Size \in Nat \ {0}
        /\ Len(iicDrv.req.data) \in Nat
    BY <2>4 DEF IicAssumption
  <2>8. (iicDrv.req.off + 0) % Size = iicDrv.req.off
    <3>1. 0 \in 0 .. Size - 1
      BY <2>6
    <3> QED
      BY <2>6, <3>1, Offsets
  <2>9. Len(iicGot) = 0
    BY <2>4
  <2>10. ReadSoFar(iicDrv', iicGot, ref)
    BY <2>9 DEF ReadSoFar
  <2>11. Agreed(iicDrv', iicGot, img, ref, cur, first, TRUE, pin, lrb, shift, off)
    BY <2>2, <2>5, <2>6, <2>8, <2>9, <2>10 DEF Agreed
  <2> QED
    BY <2>1, <2>3, <2>5, <2>11 DEF IicTypes
<1>3. CASE Iic!ReadByte
  <2>1. PICK b \in Bytes \cup {None} :
          /\ iicDrv.at = "bytes" /\ ~pin /\ Len(iicGot) < Len(iicDrv.req.data)
          /\ Iic!ReadS0(b) /\ iicGot' = Append(iicGot, b) /\ UNCHANGED <<iicDrv, ref>>
    BY <1>3 DEF Iic!ReadByte, Iic!Served
  <2> DEFINE r == iicDrv.req
             k == Len(iicGot)
             n == r.node
  <2>2. /\ n \in Nodes /\ cur = n /\ dummy /\ off[n] = (r.off + k) % Size
        /\ ReadSoFar(iicDrv, iicGot, ref)
    BY <2>1 DEF Agreed
  <2>3. /\ b = img[n][off[n]] /\ off' = [off EXCEPT ![n] = (off[n] + 1) % Size]
        /\ UNCHANGED <<img, cur, first, dummy, pin, lrb, shift>>
    BY <2>1, <2>2 DEF Iic!ReadS0, Iic!Bump
  <2>4. /\ r \in Requests /\ iicGot \in Seq(Bytes \union {None})
        /\ \A i \in 0 .. Size - 1 : img[n][i] = ref[n][i]
    BY <2>1, <2>2 DEF Kept, Open
  <2>5. /\ r.off \in 0 .. Size - 1 /\ r.data \in Seq(Bytes) /\ Size \in Nat \ {0}
        /\ Len(r.data) \in Nat /\ Len(r.data) <= Size /\ k \in Nat /\ k < Len(r.data)
    BY <2>1, <2>4 DEF IicAssumption
  <2>6. /\ (r.off + k) % Size \in 0 .. Size - 1
        /\ (((r.off + k) % Size) + 1) % Size = (r.off + (k + 1)) % Size
        /\ (r.off + (k + 1) - 1) % Size = (r.off + k) % Size
    <3>1. k \in 0 .. Size - 1
      BY <2>5
    <3> QED
      BY <2>5, <3>1, Offsets
  <2>7. (r.off + (k + 1)) % Size \in 0 .. Size - 1
    BY <2>5
  <2>8. off' \in [Nodes -> 0 .. Size - 1] /\ off'[n] = (r.off + (k + 1)) % Size
    BY <2>2, <2>3, <2>6, <2>7 DEF IicTypes
  <2>9. /\ iicGot' \in Seq(Bytes \union {None}) /\ Len(iicGot') = k + 1
        /\ \A i \in 1 .. k : iicGot'[i] = iicGot[i]
        /\ iicGot'[k + 1] = b
    BY <2>1, <2>4
  <2>10. \A i \in 1 .. k + 1 : iicGot'[i] = ref[n][ByteAt(r, i)]
    <3>1. b = ref[n][ByteAt(r, k + 1)]
      BY <2>2, <2>3, <2>4, <2>6 DEF ByteAt
    <3>2. \A i \in 1 .. k : iicGot[i] = ref[n][ByteAt(r, i)]
      BY <2>2 DEF ReadSoFar
    <3>3. \A i \in 1 .. k + 1 : i \in 1 .. k \/ i = k + 1
      BY <2>5
    <3> QED
      BY <2>9, <3>1, <3>2, <3>3
  <2>11. ReadSoFar(iicDrv, iicGot', ref)
    BY <2>9, <2>10 DEF ReadSoFar
  <2>12. Kept(iicDrv, iicGot', img, ref)
    BY <2>1, <2>9 DEF Kept
  <2>13. k + 1 <= Len(r.data)
    BY <2>5
  <2>14. Agreed(iicDrv, iicGot', img, ref, cur, first, dummy, pin, lrb, shift, off')
    BY <2>1, <2>2, <2>8, <2>9, <2>11, <2>13 DEF Agreed
  <2>15. IicTypes'
    BY <2>3, <2>8 DEF IicTypes
  <2>16. Kept(iicDrv', iicGot', img', ref')
    BY <2>1, <2>3, <2>12
  <2>17. Agreed(iicDrv', iicGot', img', ref', cur', first', dummy', pin', lrb', shift', off')
    BY <2>1, <2>3, <2>14
  <2> QED
    BY <2>15, <2>16, <2>17
<1> QED
  BY <1>1, <1>2, <1>3

\* A byte written, and the STOP that makes the write count.
LEMMA IicWrites ==
  ASSUME IicAssumption, IicTypes, Kept(iicDrv, iicGot, img, ref),
         Agreed(iicDrv, iicGot, img, ref, cur, first, dummy, pin, lrb, shift, off),
         Iic!SendData \/ Iic!EndWrite
  PROVE  /\ IicTypes' /\ Kept(iicDrv', iicGot', img', ref')
         /\ Agreed(iicDrv', iicGot', img', ref', cur', first', dummy', pin', lrb', shift', off')
<1> DEFINE r == iicDrv.req
           k == Len(iicGot)
           n == r.node
<1>0. iicDrv.at = "data" /\ ~pin
  BY DEF Iic!SendData, Iic!EndWrite, Iic!Served
<1>1. /\ r \in Requests /\ iicGot \in Seq(Bytes \union {None}) /\ r.op = "write"
      /\ img \in IicImages /\ ref \in IicImages
      /\ \A c \in Nodes, i \in 0 .. Size - 1 : img[c][i] = ref[c][i] \/ Open(iicDrv, c, i)
      /\ iicDrv \in [at : IicSteps, req : Requests \union {None}]
  BY <1>0 DEF Kept
<1>2. /\ n \in Nodes /\ cur = n /\ ~first /\ k <= Len(r.data)
      /\ n \notin Indicators =>
           /\ off[n] = (r.off + k) % Size
           /\ \A j \in 1 .. k : img[n][ByteAt(r, j)] = r.data[j]
  BY <1>0 DEF Agreed
<1>3. /\ r.off \in 0 .. Size - 1 /\ r.data \in Seq(Bytes) /\ Size \in Nat \ {0}
      /\ Len(r.data) \in Nat /\ Len(r.data) <= Size /\ k \in Nat
  BY <1>1 DEF IicAssumption
<1>4. CASE Iic!SendData
  <2> DEFINE v == r.data[k + 1]
  <2>1. /\ k < Len(r.data) /\ Iic!WriteS0(v) /\ iicGot' = Append(iicGot, None)
        /\ UNCHANGED <<iicDrv, ref>>
    BY <1>4 DEF Iic!SendData
  <2>2. /\ iicGot' \in Seq(Bytes \union {None}) /\ Len(iicGot') = k + 1 /\ k + 1 <= Len(r.data)
    BY <1>1, <1>3, <2>1
  <2>3. v \in Bytes
    BY <1>3, <2>1
  <2> HIDE DEF v
  <2>4. /\ lrb' = FALSE /\ pin' = FALSE /\ UNCHANGED <<cur, dummy, first, shift>>
        /\ IF n \in Indicators THEN UNCHANGED <<off, img>>
           ELSE /\ img' = [img EXCEPT ![n][off[n]] = v]
                /\ off' = [off EXCEPT ![n] = (off[n] + 1) % Size]
    BY <1>2, <2>1 DEF Iic!WriteS0, Iic!Bump
  <2>5. CASE n \in Indicators
    <3>1. Kept(iicDrv, iicGot', img, ref)
      BY <1>0, <1>1, <2>2 DEF Kept
    <3>2. Agreed(iicDrv, iicGot', img, ref, cur, first, dummy, FALSE, FALSE, shift, off)
      BY <1>0, <1>2, <2>2, <2>5 DEF Agreed
    <3>3. UNCHANGED <<off, img>>
      BY <2>4, <2>5
    <3>4. IicTypes'
      BY <2>4, <3>3 DEF IicTypes
    <3>5. Kept(iicDrv', iicGot', img', ref')
      BY <2>1, <3>1, <3>3
    <3>6. Agreed(iicDrv', iicGot', img', ref', cur', first', dummy', pin', lrb', shift', off')
      BY <2>1, <2>4, <3>2, <3>3
    <3> QED
      BY <3>4, <3>5, <3>6
  <2>6. CASE n \notin Indicators
    <3> DEFINE p == (r.off + k) % Size
    <3>1. /\ p \in 0 .. Size - 1 /\ (p + 1) % Size = (r.off + (k + 1)) % Size
          /\ (r.off + (k + 1) - 1) % Size = p
          /\ \A j \in 1 .. k : (r.off + j - 1) % Size # p
          /\ (r.off + (k + 1)) % Size \in 0 .. Size - 1
          /\ \A j \in 1 .. k : (r.off + j - 1) % Size \in 0 .. Size - 1
      <4> DEFINE f == r.off
                 q == k
      <4>1. q \in 0 .. Size - 1 /\ f \in 0 .. Size - 1 /\ Size \in Nat \ {0}
        BY <1>3, <2>1
      <4> HIDE DEF f, q
      <4>2. /\ (f + q) % Size \in 0 .. Size - 1
            /\ (((f + q) % Size) + 1) % Size = (f + (q + 1)) % Size
            /\ (f + (q + 1) - 1) % Size = (f + q) % Size
            /\ (f + (q + 1)) % Size \in 0 .. Size - 1
        BY <4>1, Offsets
      <4>3. ASSUME NEW j \in 1 .. q
            PROVE  /\ (f + j - 1) % Size # (f + q) % Size
                   /\ (f + j - 1) % Size \in 0 .. Size - 1
        BY <4>1, <4>3, OffsetsApart
      <4> QED
        BY <4>2, <4>3 DEF f, q
    <3> HIDE DEF p
    <3>3. off[n] = p /\ \A j \in 1 .. k : img[n][ByteAt(r, j)] = r.data[j]
      BY <1>2, <2>6 DEF p
    <3>4. img' = [img EXCEPT ![n][p] = v] /\ off' = [off EXCEPT ![n] = (p + 1) % Size]
      BY <2>4, <2>6, <3>3
    <3>5. ByteAt(r, k + 1) = p /\ \A j \in 1 .. k : ByteAt(r, j) # p
      BY <3>1 DEF ByteAt
    <3>6. /\ off' \in [Nodes -> 0 .. Size - 1] /\ off'[n] = (r.off + (k + 1)) % Size
      BY <1>2, <3>1, <3>4 DEF IicTypes
    <3>7. /\ img' \in IicImages /\ img'[n][p] = v
          /\ \A c \in Nodes, i \in 0 .. Size - 1 : c # n \/ i # p => img'[c][i] = img[c][i]
      BY <1>1, <1>2, <2>3, <3>1, <3>4 DEF IicImages
    <3>8. Open(iicDrv, n, p)
      <4>1. k + 1 \in 1 .. Len(r.data)
        BY <1>3, <2>1
      <4> QED
        BY <1>0, <1>1, <2>6, <3>5, <4>1 DEF Open
    <3>9. \A c \in Nodes, i \in 0 .. Size - 1 : img'[c][i] = ref[c][i] \/ Open(iicDrv, c, i)
      BY <1>1, <3>7, <3>8
    <3>10. Kept(iicDrv, iicGot', img', ref)
      BY <1>0, <1>1, <2>2, <3>7, <3>9 DEF Kept
    <3>11. \A j \in 1 .. k + 1 : img'[n][ByteAt(r, j)] = r.data[j]
      <4>1. \A j \in 1 .. k + 1 : j \in 1 .. k \/ j = k + 1
        BY <1>3
      <4>2. \A j \in 1 .. k : ByteAt(r, j) \in 0 .. Size - 1
        BY <3>1 DEF ByteAt
      <4>3. \A j \in 1 .. k : img'[n][ByteAt(r, j)] = r.data[j]
        BY <1>2, <3>3, <3>5, <3>7, <4>2
      <4> QED
        BY <3>5, <3>7, <4>1, <4>3 DEF v
    <3>12. Agreed(iicDrv, iicGot', img', ref, cur, first, dummy, FALSE, FALSE, shift, off')
      BY <1>0, <1>2, <2>2, <3>6, <3>11 DEF Agreed
    <3>13. IicTypes'
      BY <2>4, <3>6 DEF IicTypes
    <3>14. Kept(iicDrv', iicGot', img', ref')
      BY <2>1, <3>10
    <3>15. Agreed(iicDrv', iicGot', img', ref', cur', first', dummy', pin', lrb', shift', off')
      BY <2>1, <2>4, <3>12
    <3> QED
      BY <3>13, <3>14, <3>15
  <2> QED
    BY <2>5, <2>6
<1>5. CASE Iic!EndWrite
  <2> DEFINE At(i) == {j \in DOMAIN r.data : (r.off + j - 1) % Size = i}
             After == [i \in 0 .. Size - 1 |->
                         IF At(i) = {} THEN ref[n][i] ELSE r.data[CHOOSE j \in At(i) : TRUE]]
  <2>1. /\ k = Len(r.data) /\ iicDrv' = [at |-> "ready", req |-> None] /\ iicGot' = <<>>
        /\ pin' = TRUE /\ lrb' = FALSE /\ UNCHANGED <<first, dummy, off, img>>
    BY <1>5 DEF Iic!EndWrite, Iic!WriteStop, Iic!Ready
  <2>0. DOMAIN r.data = 1 .. Len(r.data)
    BY <1>3
  <2>2. ref' = IF n \in Indicators THEN ref ELSE [ref EXCEPT ![n] = After]
    BY <1>1, <1>2, <1>5 DEF Iic!EndWrite, IicImages
  <2>3. /\ ref' \in IicImages
        /\ \A c \in Nodes, i \in 0 .. Size - 1 : img[c][i] = ref'[c][i]
    <3>1. CASE n \in Indicators
      BY <1>1, <2>2, <3>1 DEF Open
    <3>2. CASE n \notin Indicators
      <4>1. ASSUME NEW i \in 0 .. Size - 1 PROVE After[i] \in Bytes /\ img[n][i] = After[i]
        <5>1. CASE At(i) = {}
          <6>0. \A j \in 1 .. Len(r.data) : ByteAt(r, j) # i
            BY <2>0, <5>1 DEF ByteAt
          <6>1. ~Open(iicDrv, n, i)
            BY <6>0 DEF Open
          <6>2. img[n][i] = ref[n][i] /\ ref[n][i] \in Bytes
            BY <1>1, <1>2, <6>1 DEF IicImages
          <6> QED
            BY <5>1, <6>2
        <5>2. CASE At(i) # {}
          <6> DEFINE j == CHOOSE x \in At(i) : TRUE
          <6>1. j \in At(i)
            BY <5>2
          <6> HIDE DEF j
          <6>2. j \in 1 .. k /\ ByteAt(r, j) = i
            BY <2>0, <2>1, <6>1 DEF ByteAt
          <6>3. img[n][i] = r.data[j] /\ r.data[j] \in Bytes
            <7>1. \A x \in 1 .. k : img[n][ByteAt(r, x)] = r.data[x]
              BY <1>2, <3>2
            <7>2. \A x \in 1 .. k : r.data[x] \in Bytes
              BY <1>3, <2>1
            <7> QED
              BY <6>2, <7>1, <7>2
          <6>4. After[i] = r.data[j]
            BY <5>2 DEF j
          <6> QED
            BY <6>3, <6>4
        <5> QED
          BY <5>1, <5>2
      <4>2. After \in [0 .. Size - 1 -> Bytes]
        BY <4>1
      <4> HIDE DEF After
      <4>3. ref' \in IicImages /\ ref'[n] = After /\ \A c \in Nodes \ {n} : ref'[c] = ref[c]
        BY <1>1, <1>2, <2>2, <3>2, <4>2 DEF IicImages
      <4>4. \A c \in Nodes \ {n}, i \in 0 .. Size - 1 : img[c][i] = ref[c][i]
        BY <1>1 DEF Open
      <4> QED
        BY <4>1, <4>3, <4>4
    <3> QED
      BY <3>1, <3>2
  <2>4. Kept(iicDrv', iicGot', img', ref')
    <3>1. /\ iicDrv' \in [at : IicSteps, req : Requests \union {None}] /\ iicDrv'.at = "ready"
          /\ iicGot' \in Seq(Bytes \union {None}) /\ img' = img
      BY <2>1 DEF IicSteps
    <3> QED
      BY <1>1, <2>3, <3>1 DEF Kept
  <2>5. iicDrv'.at = "ready"
    BY <2>1
  <2> QED
    BY <2>1, <2>4, <2>5 DEF IicTypes, Agreed
<1> QED
  BY <1>4, <1>5

LEMMA IicNext ==
  ASSUME IicAssumption, IicInv, [Iic!Next]_(Iic!vars)
  PROVE  IicInv'
<1> DEFINE Step == \/ \E r \in Requests : Iic!Submit(r)
                   \/ Iic!Stage \/ Iic!Start \/ Iic!NoAnswer \/ Iic!Forget
                   \/ Iic!SendOffset \/ Iic!SendData \/ Iic!EndWrite
                   \/ Iic!TurnAround \/ Iic!ReadDummy \/ Iic!ReadByte \/ Iic!Nack
                   \/ Iic!EndRead \/ Iic!TimeOut
<1>1. CASE Step
  <2>1. UNCHANGED <<saved, torn>>
    BY <1>1 DEF Iic!Submit, Iic!Stage, Iic!Start, Iic!NoAnswer, Iic!Forget, Iic!SendOffset,
      Iic!SendData, Iic!EndWrite, Iic!TurnAround, Iic!ReadDummy, Iic!ReadByte, Iic!Nack,
      Iic!EndRead, Iic!TimeOut
  <2>2. ~torn => /\ IicTypes' /\ Kept(iicDrv', iicGot', img', ref')
                 /\ Agreed(iicDrv', iicGot', img', ref', cur', first', dummy', pin', lrb',
                           shift', off')
    <3> SUFFICES ASSUME ~torn
                 PROVE  /\ IicTypes' /\ Kept(iicDrv', iicGot', img', ref')
                        /\ Agreed(iicDrv', iicGot', img', ref', cur', first', dummy', pin',
                                  lrb', shift', off')
      OBVIOUS
    <3>1. /\ IicTypes /\ Kept(iicDrv, iicGot, img, ref)
          /\ Agreed(iicDrv, iicGot, img, ref, cur, first, dummy, pin, lrb, shift, off)
      BY DEF IicInv
    <3> QED
      BY <1>1, <3>1, IicQuiet, IicReads, IicWrites
  <2> QED
    BY <2>1, <2>2 DEF IicInv
<1>2. CASE Iic!Save
  <2>1. /\ saved' = [img |-> img, drv |-> iicDrv, got |-> iicGot, ref |-> ref, torn |-> torn]
        /\ UNCHANGED <<cur, first, dummy, pin, lrb, shift, off, img, iicDrv, iicGot, ref, torn>>
    BY <1>2 DEF Iic!Save, Iic!ctl
  <2>2. /\ saved'.torn = torn /\ saved'.img = img /\ saved'.drv = iicDrv
        /\ saved'.got = iicGot /\ saved'.ref = ref
    BY <2>1
  <2>3. IicTypes' <=> IicTypes
    BY <2>1 DEF IicTypes
  <2> QED
    BY <2>1, <2>2, <2>3 DEF IicInv
<1>3. CASE Iic!Resume
  <2>1. /\ saved # None /\ saved' = None
        /\ img' = saved.img /\ iicDrv' = saved.drv /\ iicGot' = saved.got /\ ref' = saved.ref
        /\ torn' = (saved.torn \/ saved.drv.at \in {"start", "restage", "restart"})
        /\ first' = FALSE /\ dummy' = FALSE /\ pin' = TRUE /\ lrb' = FALSE
        /\ off' = [c \in Nodes |-> 0]
    BY <1>3 DEF Iic!Resume
  <2>2. saved.torn \in BOOLEAN /\ (~saved.torn => Kept(saved.drv, saved.got, saved.img, saved.ref))
    BY <2>1 DEF IicInv
  <2>3. IicTypes'
    <3>1. 0 \in 0 .. Size - 1
      BY DEF IicAssumption
    <3> QED
      BY <2>1, <3>1 DEF IicTypes
  <2>4. torn' \in BOOLEAN
    BY <2>1
  <2>5. ~torn' => ~saved.torn /\ iicDrv'.at \notin {"start", "restage", "restart"}
    BY <2>1
  <2>6. ~torn' => Kept(iicDrv', iicGot', img', ref')
    BY <2>1, <2>2, <2>5
  <2>7. ~torn' => Agreed(iicDrv', iicGot', img', ref', cur', first', dummy', pin', lrb', shift',
                         off')
    BY <2>1, <2>5 DEF Agreed
  <2> QED
    BY <2>1, <2>3, <2>4, <2>6, <2>7 DEF IicInv
<1>4. CASE UNCHANGED Iic!vars
  BY <1>4 DEF Iic!vars, Iic!ctl, IicInv, IicTypes
<1> QED
  BY <1>1, <1>2, <1>3, <1>4 DEF Iic!Next

(* A read that completes on the IIC bus returns what the completed writes of    *)
(* that device left, byte for byte from the offset asked for, across the wrap   *)
(* of the offset, timeouts and snapshots taken and resumed in the middle of a    *)
(* transaction: for every set of devices, image size and set of requests no     *)
(* longer than an image.  Only a resume with the address or the offset staged   *)
(* in the lost controller is excepted (torn).                                   *)
THEOREM IicReadsLand ==
  ASSUME IicAssumption
  PROVE  Iic!Spec => []IicReadsBack
<1>1. Iic!Init => IicInv
  BY IicInitially
<1>2. IicInv /\ [Iic!Next]_(Iic!vars) => IicInv'
  BY IicNext
<1>3. IicInv => IicReadsBack
  <2> SUFFICES ASSUME IicInv, iicDrv.at = "done", ~torn, NEW i \in DOMAIN iicGot
               PROVE  iicGot[i] = ref[iicDrv.req.node][(iicDrv.req.off + i - 1) % Size]
    BY DEF IicReadsBack, Iic!IicReadsBack
  <2>1. ReadSoFar(iicDrv, iicGot, ref) /\ iicGot \in Seq(Bytes \union {None})
    BY DEF IicInv, Kept
  <2>2. i \in 1 .. Len(iicGot)
    BY <2>1
  <2> QED
    BY <2>1, <2>2 DEF ReadSoFar, ByteAt
<1> QED
  BY <1>1, <1>2, <1>3, PTL DEF Iic!Spec

=============================================================================
