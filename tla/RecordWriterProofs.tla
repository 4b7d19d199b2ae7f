------------------------- MODULE RecordWriterProofs -------------------------
(***************************************************************************)
(* For every capacity, set of producers, record size and number of pushes: *)
(* the threads of RecordWriter never misuse the file, what they write is   *)
(* the sequence of the records popped, and Close leaves it durable and, as *)
(* far as nothing was dropped, complete.                                   *)
(***************************************************************************)
EXTENDS RecordWriter, SlotRingProofs, SequenceTheorems

-----------------------------------------------------------------------------
(* Cells and positions.                                                    *)

Cell == (Nat \cup {PreambleName}) \X Nat

\* The image of a stretch of a record.
LEMMA CellsImage ==
  ASSUME NEW r \in Nat \cup {PreambleName}, NEW from \in Nat \ {0}, NEW to \in Nat,
         from - 1 <= to
  PROVE  /\ Cells(r, from, to) \in Seq(Cell)
         /\ Len(Cells(r, from, to)) = to - from + 1
         /\ \A k \in 1 .. to - from + 1 : Cells(r, from, to)[k] = <<r, from + k - 1>>
<1> DEFINE n == to - from + 1
<1>1. n \in Nat /\ Cells(r, from, to) \in [1 .. n -> Cell]
  BY DEF Cells, Cell
<1> DEFINE c == Cells(r, from, to)
<1>2. \A k \in 1 .. n : c[k] = <<r, from + k - 1>>
  BY DEF Cells
<1> HIDE DEF n, c
<1>3. c \in [1 .. n -> Cell] /\ n \in Nat
  BY <1>1 DEF c
<1>4. c \in Seq(Cell)
  BY <1>3, SeqDef
<1>5. Len(c) = n
  BY <1>3, <1>4, LenProperties
<1> QED BY <1>2, <1>4, <1>5 DEF c, n

\* What WriteAll appends, whole or in part.
LEMMA Appended ==
  ASSUME file \in Seq(Cell), NEW r \in Nat \cup {PreambleName},
         NEW from \in Nat \ {0}, NEW to \in Nat, from - 1 <= to,
         file' = file \o Cells(r, from, to)
  PROVE  /\ file' \in Seq(Cell) /\ Len(file) \in Nat
         /\ Len(file') = Len(file) + (to - from + 1)
         /\ Len(file') \in Nat /\ Len(file) <= Len(file')
         /\ \A a \in 1 .. Len(file) : file'[a] = file[a]
         /\ \A a \in Len(file) + 1 .. Len(file') :
              file'[a] = <<r, from + (a - Len(file)) - 1>>
<1> DEFINE c == Cells(r, from, to)
<1>1. /\ c \in Seq(Cell) /\ Len(c) = to - from + 1
      /\ \A k \in 1 .. to - from + 1 : c[k] = <<r, from + k - 1>>
  BY CellsImage
<1>2. /\ file \o c \in Seq(Cell) /\ Len(file \o c) = Len(file) + Len(c)
      /\ Len(file) \in Nat
      /\ \A a \in 1 .. Len(file) + Len(c) :
           (file \o c)[a] = IF a <= Len(file) THEN file[a] ELSE c[a - Len(file)]
  BY <1>1, ConcatProperties, LenProperties
<1> HIDE DEF c
<1>3. file' = file \o c
  BY DEF c
<1>4. /\ Len(file') = Len(file) + (to - from + 1)
      /\ Len(file') \in Nat /\ Len(file) <= Len(file')
  BY <1>1, <1>2, <1>3
<1>5. \A a \in 1 .. Len(file) : file'[a] = file[a]
  BY <1>1, <1>2, <1>3
<1>6. ASSUME NEW a \in Len(file) + 1 .. Len(file')
      PROVE  file'[a] = <<r, from + (a - Len(file)) - 1>>
  <2>1. a - Len(file) \in 1 .. to - from + 1 /\ ~(a <= Len(file))
    BY <1>2, <1>4
  <2> QED BY <1>1, <1>2, <1>3, <1>4, <2>1
<1> QED BY <1>2, <1>3, <1>4, <1>5, <1>6

\* Open writes the preamble.
LEMMA OpenWrites ==
  file = <<>> /\ Open => file' \in Seq(Cell) /\ Len(file') = PreambleCells
<1>0. SUFFICES ASSUME file = <<>>, Open
               PROVE  file' \in Seq(Cell) /\ Len(file') = PreambleCells
  OBVIOUS
<1>1. file \in Seq(Cell) /\ Len(file) = 0
  BY <1>0, EmptySeq
<1> DEFINE one == 1
<1>2. /\ file' = file \o Cells(PreambleName, one, PreambleCells)
      /\ PreambleName \in Nat \cup {PreambleName}
      /\ one \in Nat \ {0} /\ PreambleCells \in Nat /\ one - 1 <= PreambleCells
  BY <1>0, WriterAssumption DEF Open, WriteAllOk
<1> HIDE DEF one
<1>3. file' \in Seq(Cell) /\ Len(file') = Len(file) + (PreambleCells - one + 1)
  BY <1>1, <1>2, Appended
<1> QED BY <1>1, <1>2, <1>3 DEF one

\* Where the image of the (n+1)-th record starts.
Start(n) == PreambleCells + n * RecordCells

\* Records lie one after the other.
LEMMA StartProperties ==
  ASSUME NEW n \in Nat
  PROVE  /\ Start(n) \in Nat /\ Start(n) >= PreambleCells
         /\ Start(n + 1) = Start(n) + RecordCells
         /\ Start(0) = PreambleCells
         /\ \A m \in 0 .. n : Start(m) <= Start(n)
<1>1. RecordCells \in Nat \ {0} /\ PreambleCells \in Nat
  BY WriterAssumption DEF RecordCells
<1> HIDE DEF RecordCells
<1>2. n * RecordCells \in Nat /\ (n + 1) * RecordCells = n * RecordCells + RecordCells
  BY <1>1
<1>3. ASSUME NEW m \in 0 .. n PROVE m * RecordCells <= n * RecordCells
  <2>1. n * RecordCells = m * RecordCells + (n - m) * RecordCells /\ (n - m) * RecordCells >= 0
    BY <1>1
  <2>2. m * RecordCells \in Nat /\ (n - m) * RecordCells \in Nat
    BY <1>1
  <2> QED BY <1>2, <2>1, <2>2
<1>4. ASSUME NEW m \in 0 .. n PROVE Start(m) <= Start(n)
  <2>1. m * RecordCells <= n * RecordCells /\ m * RecordCells \in Nat
    BY <1>1, <1>3
  <2> QED BY <1>1, <1>2, <2>1 DEF Start
<1> QED BY <1>1, <1>2, <1>4 DEF Start

\* The reader finds n whole records exactly when the n-th one ends in time.
LEMMA WholeRecordsMeaning ==
  ASSUME NEW c \in Nat, NEW n \in Nat \ {0}
  PROVE  /\ WholeRecords(c) \in Nat
         /\ n <= WholeRecords(c) <=> Start(n) <= c
<1>1. RecordCells \in Nat \ {0} /\ PreambleCells \in Nat
  BY WriterAssumption DEF RecordCells
<1>2. Start(n) \in Nat /\ Start(n) >= PreambleCells + RecordCells
  BY <1>1, StartProperties, n - 1 \in Nat, n - 1 + 1 = n
<1> HIDE DEF RecordCells
<1>3. CASE c < PreambleCells
  BY <1>1, <1>2, <1>3 DEF WholeRecords
<1>4. CASE c >= PreambleCells
  <2> DEFINE a == c - PreambleCells
            q == a \div RecordCells
            s == a % RecordCells
  <2>1. /\ a \in Nat /\ q \in Nat /\ s \in 0 .. RecordCells - 1
        /\ a = RecordCells * q + s
    BY <1>1, <1>4
  <2>2. WholeRecords(c) = q
    BY <1>1, <1>4 DEF WholeRecords
  <2> HIDE DEF a, q, s
  <2>3. n <= q <=> RecordCells * n <= a
    <3>1. CASE n <= q
      <4>1. RecordCells * q = RecordCells * n + RecordCells * (q - n)
        BY <1>1, <2>1
      <4>2. RecordCells * (q - n) \in Nat /\ RecordCells * n \in Nat
        BY <1>1, <2>1, <3>1
      <4>3. RecordCells * q >= RecordCells * n /\ RecordCells * q \in Nat
        BY <1>1, <2>1, <4>1, <4>2
      <4> QED BY <2>1, <3>1, <4>2, <4>3
    <3>2. CASE n > q
      <4>1. RecordCells * n = RecordCells * q + RecordCells * (n - q)
        BY <1>1, <2>1
      <4>2. RecordCells * (n - q) >= RecordCells /\ RecordCells * q \in Nat
        BY <1>1, <2>1, <3>2
      <4> QED BY <1>1, <2>1, <3>2, <4>1, <4>2
    <3> QED BY <2>1, <3>1, <3>2
  <2>4. Start(n) <= c <=> RecordCells * n <= a
    <3>1. n * RecordCells = RecordCells * n /\ RecordCells * n \in Nat
      BY <1>1
    <3> QED BY <1>1, <1>4, <3>1 DEF Start, a
  <2> QED BY <2>1, <2>2, <2>3, <2>4
<1> QED BY <1>1, <1>3, <1>4

-----------------------------------------------------------------------------
(* The ring inside the writer.                                             *)

\* Every step is one of the ring or leaves the ring alone.
LEMMA RingInside ==
  /\ WInit => RingInit
  /\ [WNext]_wvars => [RingNext]_ringVars
<1>1. WInit => RingInit
  BY DEF WInit
<1>2. ASSUME WNext PROVE RingNext \/ UNCHANGED ringVars
  <2>1. CASE OwnerStep
    BY <2>1 DEF OwnerStep, CloseEnds, Open, OpenFails, OpenWriteFails, CloseRequest,
       CloseJoin, CloseSync
  <2>2. CASE WriterStep
    <3>1. CASE PopRecord
      BY <3>1 DEF PopRecord, RingNext
    <3>2. CASE ~PopRecord
      BY <2>2, <3>2 DEF WriterStep, TestShutdown, PopNothing, WriteHeader,
         WritePayload, FlushSkipped, FlushNow
    <3> QED BY <3>1, <3>2
  <2>3. CASE \E p \in Producers : Callback(p)
    BY <2>3 DEF Callback, RingNext
  <2>4. CASE IntervalElapses \/ Crash
    BY <2>4 DEF IntervalElapses, Crash
  <2> QED BY <1>2, <2>1, <2>2, <2>3, <2>4 DEF WNext
<1>3. UNCHANGED wvars => UNCHANGED ringVars
  BY DEF wvars
<1> QED BY <1>1, <1>2, <1>3

(***************************************************************************)
(* The writer uses its ring as SlotRing describes, so that all that is     *)
(* proved of the ring holds of the writer's.                               *)
(***************************************************************************)
THEOREM WriterUsesRing == WSpec => RingSpec
  BY RingInside, PTL DEF WSpec, RingSpec

-----------------------------------------------------------------------------
(***************************************************************************)
(* Where the two threads are.  The writer thread lives between Open and    *)
(* the join in Close; it leaves its loops only after shutdown_ was set.    *)
(***************************************************************************)
Control ==
  /\ owner = "setup" => wpc = "none" /\ file = <<>> /\ synced = 0 /\ ~crashed
  /\ owner \in {"running", "joining"} => bin_fd_ /\ wpc # "none"
  /\ owner \in {"joined", "closed"} => wpc \in {"none", "exited"}
  /\ owner = "joining" => shutdown_
  /\ shutdown_ => owner \notin {"setup", "running"}
  /\ draining => shutdown_
  /\ wpc = "exited" => draining
  /\ wpc = "none" => popped = <<>> /\ atClose = {} /\ ~shutdown_
  /\ owner = "running" => atClose = {}

WBase == RInv /\ WTypeOK /\ Control

\* The threads before Open.
LEMMA WBaseInit == WInit => WBase
<1> SUFFICES ASSUME WInit PROVE WBase
  OBVIOUS
<1>1. RInv
  BY RingInitInv DEF WInit
<1>2. WTypeOK
  <2>1. file \in Seq(Cell) /\ synced \in 0 .. Len(file)
    BY EmptySeq DEF WInit
  <2> QED BY <1>1, <2>1 DEF WInit, RInv, WTypeOK, Cell
<1>3. Control
  BY DEF WInit, Control, RingInit
<1> QED BY <1>1, <1>2, <1>3 DEF WBase

\* Open, and the two halves of Close.
LEMMA OwnerBase ==
  ASSUME WBase, ~crashed,
         Open \/ OpenFails \/ OpenWriteFails \/ CloseRequest \/ CloseJoin \/ CloseSync
  PROVE  WTypeOK' /\ Control'
<1> USE DEF WBase
<1>0. /\ UNCHANGED ringVars
      /\ file \in Seq(Cell) /\ Len(file) \in Nat /\ synced \in 0 .. Len(file)
      /\ RingTypeOK'
  <2>1. UNCHANGED ringVars
    BY DEF Open, OpenFails, OpenWriteFails, CloseRequest, CloseJoin, CloseSync
  <2>2. file \in Seq(Cell) /\ Len(file) \in Nat /\ synced \in 0 .. Len(file)
    BY LenProperties DEF WTypeOK, Cell
  <2> QED BY <2>1, <2>2, RingNextInv DEF RInv
<1>1. CASE Open
  <2>0. /\ file' = file \o Cells(PreambleName, 1, PreambleCells)
        /\ PreambleName \in Nat \cup {PreambleName}
        /\ 1 \in Nat \ {0} /\ PreambleCells \in Nat /\ 1 - 1 <= PreambleCells
    BY <1>1, WriterAssumption DEF Open, WriteAllOk
  <2>1. /\ file' \in Seq(Cell) /\ Len(file') \in Nat /\ Len(file) <= Len(file')
    BY <1>0, <2>0, Appended
  <2>2. WTypeOK'
    <3>1. synced' \in 0 .. Len(file')
      BY <1>0, <1>1, <2>1 DEF Open
    <3> QED BY <1>0, <1>1, <2>1, <3>1 DEF Open, WTypeOK, Cell
  <2>3. Control'
    BY <1>1 DEF Open, Control, ringVars
  <2> QED BY <2>2, <2>3
<1>2. CASE OpenFails
  <2>1. WTypeOK'
    BY <1>0, <1>2 DEF OpenFails, WTypeOK, writerLocals, disk, flushState
  <2>2. Control'
    BY <1>2 DEF OpenFails, Control, writerLocals, disk, flushState, ringVars
  <2> QED BY <2>1, <2>2
<1>3. CASE OpenWriteFails
  <2>1. PICK k \in 0 .. PreambleCells - 1 : file' = file \o Cells(PreambleName, 1, k)
    BY <1>3 DEF OpenWriteFails, WriteAllFails
  <2>2. file' \in Seq(Cell) /\ Len(file') \in Nat /\ Len(file) <= Len(file')
    <3>1. /\ PreambleName \in Nat \cup {PreambleName}
          /\ 1 \in Nat \ {0} /\ k \in Nat /\ 1 - 1 <= k
      BY WriterAssumption
    <3> QED BY <1>0, <2>1, <3>1, Appended
  <2>3. WTypeOK'
    BY <1>0, <1>3, <2>2 DEF OpenWriteFails, WTypeOK, writerLocals, flushState, Cell
  <2>4. Control'
    BY <1>3 DEF OpenWriteFails, Control, writerLocals, ringVars
  <2> QED BY <2>3, <2>4
<1>4. CASE CloseRequest
  <2>1. atClose' \subseteq Nat
    <3>1. Waiting \subseteq Nat
      BY WaitingSlots, RingAssumption DEF RInv, RingTypeOK
    <3>2. \A i \in DOMAIN popped : popped[i] \in Nat
      BY DEF RInv, RingTypeOK
    <3> QED BY <1>4, <3>1, <3>2 DEF CloseRequest
  <2>2. WTypeOK'
    BY <1>0, <1>4, <2>1 DEF CloseRequest, WTypeOK, writerLocals, disk, flushState
  <2>3. Control'
    BY <1>4 DEF CloseRequest, Control, writerLocals, disk, ringVars
  <2> QED BY <2>2, <2>3
<1>5. CASE CloseJoin
  <2>1. WTypeOK'
    BY <1>0, <1>5 DEF CloseJoin, WTypeOK, writerLocals, disk, flushState
  <2>2. Control'
    BY <1>5 DEF CloseJoin, Control, writerLocals, disk, ringVars
  <2> QED BY <2>1, <2>2
<1>6. CASE CloseSync
  <2>1. synced' \in 0 .. Len(file)
    BY <1>0, <1>6 DEF CloseSync, Fsync
  <2>2. WTypeOK'
    BY <1>0, <1>6, <2>1 DEF CloseSync, WTypeOK, writerLocals, flushState
  <2>3. Control'
    BY <1>6 DEF CloseSync, Control, writerLocals, ringVars
  <2> QED BY <2>2, <2>3
<1> QED BY <1>1, <1>2, <1>3, <1>4, <1>5, <1>6

\* The steps of WriterThreadMain.
LEMMA WriterBase ==
  ASSUME WBase, WriterStep
  PROVE  WTypeOK' /\ Control'
<1> USE DEF WBase
<1>0. /\ file \in Seq(Cell) /\ Len(file) \in Nat /\ synced \in 0 .. Len(file)
      /\ rec \in Nat \cup {PreambleName}
      /\ RingTypeOK'
  <2>1. RInv'
    BY RingInside, RingNextInv DEF WNext
  <2>2. file \in Seq(Cell) /\ Len(file) \in Nat /\ synced \in 0 .. Len(file)
    BY LenProperties DEF WTypeOK, Cell
  <2> QED BY <2>1, <2>2 DEF RInv, WTypeOK, PreambleName, Empty
<1>1. CASE TestShutdown
  BY <1>0, <1>1 DEF TestShutdown, WTypeOK, Control, disk, flushState, ringVars
<1>2. CASE PopRecord
  <2>1. slots_[HeadSlot] \in Nat
    BY <1>2, PopWaiting, WaitingSlots, RingAssumption DEF PopRecord, RInv, RingTypeOK
  <2>2. WTypeOK'
    BY <1>0, <1>2, <2>1 DEF PopRecord, WTypeOK, disk, flushState
  <2>3. Control'
    BY <1>2 DEF PopRecord, Control, disk
  <2> QED BY <2>2, <2>3
<1>3. CASE PopNothing
  BY <1>0, <1>3 DEF PopNothing, WTypeOK, Control, disk, flushState, ringVars
<1>4. ASSUME NEW from \in Nat \ {0}, NEW to \in Nat, from - 1 <= to,
             file' = file \o Cells(rec, from, to)
      PROVE  file' \in Seq(Cell) /\ Len(file') \in Nat /\ Len(file) <= Len(file')
  BY <1>0, <1>4, Appended
<1>5. CASE WriteHeader
  <2>1. PICK k \in 0 .. HeaderCells : file' = file \o Cells(rec, 1, k)
    BY <1>5, WriterAssumption DEF WriteHeader, WriteAllOk, WriteAllFails
  <2>2. file' \in Seq(Cell) /\ Len(file') \in Nat /\ Len(file) <= Len(file')
    <3>1. 1 \in Nat \ {0} /\ k \in Nat /\ 1 - 1 <= k
      BY WriterAssumption
    <3> QED BY <1>4, <2>1, <3>1
  <2>3. WTypeOK'
    BY <1>0, <1>5, <2>2 DEF WriteHeader, WTypeOK, flushState, Cell
  <2>4. Control'
    BY <1>5 DEF WriteHeader, Control, ringVars
  <2> QED BY <2>3, <2>4
<1>6. CASE WritePayload
  <2>1. PICK k \in HeaderCells .. RecordCells : file' = file \o Cells(rec, HeaderCells + 1, k)
    BY <1>6, WriterAssumption DEF WritePayload, WriteAllOk, WriteAllFails, RecordCells
  <2>2. file' \in Seq(Cell) /\ Len(file') \in Nat /\ Len(file) <= Len(file')
    <3> DEFINE from == HeaderCells + 1
    <3>1. from \in Nat \ {0} /\ k \in Nat /\ from - 1 <= k
      BY WriterAssumption
    <3>2. file' = file \o Cells(rec, from, k)
      BY <2>1
    <3> HIDE DEF from
    <3> QED BY <1>4, <3>1, <3>2
  <2>3. WTypeOK'
    BY <1>0, <1>6, <2>2 DEF WritePayload, WTypeOK, Cell
  <2>4. Control'
    BY <1>6 DEF WritePayload, Control, ringVars
  <2> QED BY <2>3, <2>4
<1>7. CASE FlushSkipped
  BY <1>0, <1>7 DEF FlushSkipped, AfterFlush, WTypeOK, Control, disk, flushState, ringVars
<1>8. CASE FlushNow
  <2>1. synced' \in 0 .. Len(file)
    BY <1>0, <1>8 DEF FlushNow, Fsync
  <2> QED BY <1>0, <1>8, <2>1 DEF FlushNow, AfterFlush, WTypeOK, Control, ringVars
<1> QED BY <1>1, <1>2, <1>3, <1>5, <1>6, <1>7, <1>8 DEF WriterStep

\* The pushes, the clock and the crash.
LEMMA EnvironmentBase ==
  ASSUME WBase,
         (\E p \in Producers : Callback(p)) \/ IntervalElapses \/ Crash
  PROVE  WTypeOK' /\ Control'
<1> USE DEF WBase
<1>0. /\ file \in Seq(Cell) /\ Len(file) \in Nat /\ synced \in 0 .. Len(file)
      /\ RingTypeOK' /\ popped' = popped
  <2>1. RInv'
    BY RingNextInv DEF Callback, IntervalElapses, Crash, RingNext
  <2>2. file \in Seq(Cell) /\ Len(file) \in Nat /\ synced \in 0 .. Len(file)
    BY LenProperties DEF WTypeOK, Cell
  <2>3. popped' = popped
    BY DEF Callback, IntervalElapses, Crash, Push, Claim, Publish, Reject, ringVars
  <2> QED BY <2>1, <2>2, <2>3 DEF RInv
<1>1. CASE \E p \in Producers : Callback(p)
  BY <1>0, <1>1 DEF Callback, WTypeOK, Control, writerLocals, disk, flushState
<1>2. CASE IntervalElapses
  BY <1>0, <1>2 DEF IntervalElapses, WTypeOK, Control, writerLocals, disk
<1>3. CASE Crash
  <2>1. PICK n \in synced .. Len(file) : file' = SubSeq(file, 1, n)
    BY <1>3 DEF Crash
  <2>2. file' \in Seq(Cell) /\ Len(file') = n
    BY <1>0, <2>1
  <2> QED BY <1>0, <1>3, <2>2 DEF Crash, WTypeOK, Control, writerLocals, flushState, Cell
<1> QED BY <1>1, <1>2, <1>3

\* Every step of the writer and its environment keeps types and control.
LEMMA WBaseNext == WBase /\ [WNext]_wvars => WBase'
<1> SUFFICES ASSUME WBase, [WNext]_wvars PROVE WBase'
  OBVIOUS
<1>1. RInv'
  BY RingInside, RingNextInv DEF WBase
<1>2. CASE WNext
  BY <1>1, <1>2, OwnerBase, WriterBase, EnvironmentBase
     DEF WNext, OwnerStep, CloseEnds, WBase
<1>3. CASE UNCHANGED wvars
  BY <1>1, <1>3 DEF wvars, ringVars, writerLocals, disk, flushState, WBase, WTypeOK,
     RingTypeOK, Control
<1> QED BY <1>2, <1>3

\* The invariant of types and control holds throughout.
LEMMA WBaseAlways == WSpec => []WBase
  BY WBaseInit, WBaseNext, PTL DEF WSpec

(***************************************************************************)
(* Type correctness of the writer, whatever fails.                         *)
(***************************************************************************)
THEOREM WriterTypeCorrect == WSpec => []WTypeOK
<1>1. WBase => WTypeOK
  BY DEF WBase
<1> QED BY <1>1, WBaseAlways, PTL

(***************************************************************************)
(* The writer thread writes only between Open and the close of the file,   *)
(* whatever fails: Close joins it first.                                   *)
(***************************************************************************)
THEOREM WriterKeepsFileOpen == WSpec => []WritesOnlyOpenFile
<1>1. WBase => WritesOnlyOpenFile
  BY DEF WBase, WTypeOK, Control, WritesOnlyOpenFile
<1> QED BY <1>1, WBaseAlways, PTL

-----------------------------------------------------------------------------
(* Durability.                                                             *)

\* A step that touches neither the file nor what has been synced.
DiskUntouched == UNCHANGED <<file, synced, crashed, pending_since_flush_>>

\* Which steps touch the disk.
LEMMA DiskSteps ==
  ASSUME [WNext]_wvars
  PROVE  \/ ~crashed /\ (Open \/ OpenWriteFails \/ CloseSync)
         \/ ~crashed /\ (WriteHeader \/ WritePayload \/ FlushNow)
         \/ Crash
         \/ OpenFails /\ DiskUntouched
         \/ CloseRequest /\ DiskUntouched
         \/ CloseJoin /\ DiskUntouched
         \/ wpc = "test" /\ wpc' = "pop" /\ owner' = owner /\ DiskUntouched
         \/ PopRecord /\ DiskUntouched
         \/ PopNothing /\ DiskUntouched
         \/ FlushSkipped /\ DiskUntouched
         \/ UNCHANGED <<wpc, owner>> /\ DiskUntouched
<1> USE DEF DiskUntouched
<1>1. CASE OwnerStep
  BY <1>1 DEF OwnerStep, CloseEnds, OpenFails, CloseRequest, CloseJoin, disk, flushState
<1>2. CASE WriterStep
  BY <1>2 DEF WriterStep, TestShutdown, PopRecord, PopNothing, FlushSkipped, disk, flushState
<1>3. CASE (\E p \in Producers : Callback(p)) \/ IntervalElapses
  BY <1>3 DEF Callback, IntervalElapses, writerLocals, disk, flushState
<1>4. CASE UNCHANGED wvars
  BY <1>4 DEF wvars, writerLocals, disk, flushState
<1> QED BY <1>1, <1>2, <1>3, <1>4 DEF WNext

(***************************************************************************)
(* After Close returns the whole file is on disk, if fsync() does what it  *)
(* says: nobody writes after the final fsync.                              *)
(***************************************************************************)
THEOREM ClosedIsSynced == "fsync" \notin Faults => (WSpec => []SyncedWhenClosed)
<1> SUFFICES ASSUME "fsync" \notin Faults PROVE WSpec => []SyncedWhenClosed
  OBVIOUS
<1>1. WInit => SyncedWhenClosed
  BY DEF WInit, SyncedWhenClosed
<1>2. ASSUME WBase, SyncedWhenClosed, [WNext]_wvars PROVE SyncedWhenClosed'
  <2> USE <1>2 DEF WBase, SyncedWhenClosed, Control
  <2>1. CASE Open \/ OpenWriteFails \/ CloseSync
    BY <2>1 DEF Open, OpenWriteFails, CloseSync, Fsync
  <2>2. CASE WriteHeader \/ WritePayload \/ FlushNow
    BY <2>2 DEF WriteHeader, WritePayload, FlushNow
  <2>3. CASE Crash
    BY <2>3 DEF Crash
  <2>4. CASE OpenFails /\ DiskUntouched
    BY <2>4 DEF OpenFails, DiskUntouched
  <2>5. CASE DiskUntouched /\ (CloseRequest \/ CloseJoin)
    BY <2>5 DEF DiskUntouched, CloseRequest, CloseJoin
  <2>6. CASE DiskUntouched /\ owner' = owner
    BY <2>6 DEF DiskUntouched
  <2> QED BY <1>2, <2>1, <2>2, <2>3, <2>4, <2>5, <2>6, DiskSteps
       DEF PopRecord, PopNothing, FlushSkipped
<1>3. WBase /\ SyncedWhenClosed /\ [WNext]_wvars => SyncedWhenClosed'
  BY <1>2
<1> QED BY <1>1, <1>3, WBaseAlways, PTL DEF WSpec

(***************************************************************************)
(* When MaybeFlush finds nothing pending, nothing is: all the records      *)
(* written are on disk, if neither write() nor fsync() fails.              *)
(***************************************************************************)
THEOREM NothingPendingIsDurable ==
  {"write", "fsync"} \cap Faults = {} => (WSpec => []NothingPendingMeansDurable)
<1> SUFFICES ASSUME {"write", "fsync"} \cap Faults = {}
             PROVE  WSpec => []NothingPendingMeansDurable
  OBVIOUS
<1>1. WInit => NothingPendingMeansDurable
  BY DEF WInit, NothingPendingMeansDurable
<1>2. ASSUME WBase, NothingPendingMeansDurable, [WNext]_wvars
      PROVE  NothingPendingMeansDurable'
  <2> USE <1>2 DEF WBase, NothingPendingMeansDurable, Control
  <2>1. CASE Open
    BY <2>1, OpenWrites DEF Open
  <2>2. CASE OpenWriteFails \/ OpenFails
    BY <2>2 DEF OpenWriteFails, OpenFails, writerLocals
  <2>3. CASE CloseSync \/ FlushNow
    BY <2>3 DEF CloseSync, FlushNow, Fsync
  <2>4. CASE WriteHeader
    BY <2>4 DEF WriteHeader, WriteAllFails
  <2>5. CASE WritePayload
    <3>1. pending_since_flush_' # 0
      BY <2>5 DEF WritePayload, WriteAllFails, WTypeOK
    <3> QED BY <3>1
  <2>6. CASE Crash
    BY <2>6 DEF Crash
  <2>7. CASE DiskUntouched /\ wpc \notin {"none", "payload"}
    BY <2>7 DEF DiskUntouched
  <2>8. CASE DiskUntouched /\ wpc' = wpc
    BY <2>8 DEF DiskUntouched
  <2> QED BY <1>2, <2>1, <2>2, <2>3, <2>4, <2>5, <2>6, <2>7, <2>8, DiskSteps
       DEF CloseRequest, CloseJoin, writerLocals, PopRecord, PopNothing, FlushSkipped
<1>3. WBase /\ NothingPendingMeansDurable /\ [WNext]_wvars => NothingPendingMeansDurable'
  BY <1>2
<1> QED BY <1>1, <1>3, WBaseAlways, PTL DEF WSpec

-----------------------------------------------------------------------------
(* What is in the file.                                                    *)

\* WriteRecord's first write, whole or in part.
LEMMA HeaderWrites ==
  ASSUME file \in Seq(Cell), NEW r \in Nat \cup {PreambleName},
         NEW k \in 0 .. HeaderCells, file' = file \o Cells(r, 1, k)
  PROVE  /\ Len(file) \in Nat /\ Len(file') = Len(file) + k
         /\ \A a \in 1 .. Len(file) : file'[a] = file[a]
         /\ \A a \in Len(file) + 1 .. Len(file') : file'[a] = <<r, a - Len(file)>>
<1> DEFINE from == 1
<1>1. from \in Nat \ {0} /\ k \in Nat /\ from - 1 <= k /\ file' = file \o Cells(r, from, k)
  BY WriterAssumption
<1> HIDE DEF from
<1>2. /\ Len(file) \in Nat /\ Len(file') = Len(file) + (k - from + 1)
      /\ \A a \in 1 .. Len(file) : file'[a] = file[a]
      /\ \A a \in Len(file) + 1 .. Len(file') :
           file'[a] = <<r, from + (a - Len(file)) - 1>>
  BY <1>1, Appended
<1>3. ASSUME NEW a \in Len(file) + 1 .. Len(file')
      PROVE  from + (a - Len(file)) - 1 = a - Len(file)
  BY <1>2 DEF from
<1>4. Len(file') = Len(file) + k
  BY <1>1, <1>2 DEF from
<1> QED BY <1>2, <1>3, <1>4

\* WriteRecord's second write, whole or in part.
LEMMA PayloadWrites ==
  ASSUME file \in Seq(Cell), NEW r \in Nat \cup {PreambleName},
         NEW k \in HeaderCells .. RecordCells,
         file' = file \o Cells(r, HeaderCells + 1, k)
  PROVE  /\ Len(file) \in Nat /\ Len(file') = Len(file) + (k - HeaderCells)
         /\ \A a \in 1 .. Len(file) : file'[a] = file[a]
         /\ \A a \in Len(file) + 1 .. Len(file') :
              file'[a] = <<r, HeaderCells + (a - Len(file))>>
<1> DEFINE from == HeaderCells + 1
<1>1. from \in Nat \ {0} /\ k \in Nat /\ from - 1 <= k /\ file' = file \o Cells(r, from, k)
  BY WriterAssumption
<1> HIDE DEF from
<1>2. /\ Len(file) \in Nat /\ Len(file') = Len(file) + (k - from + 1)
      /\ \A a \in 1 .. Len(file) : file'[a] = file[a]
      /\ \A a \in Len(file) + 1 .. Len(file') :
           file'[a] = <<r, from + (a - Len(file)) - 1>>
  BY <1>1, Appended
<1>3. ASSUME NEW a \in Len(file) + 1 .. Len(file')
      PROVE  from + (a - Len(file)) - 1 = HeaderCells + (a - Len(file))
  BY <1>2, WriterAssumption DEF from
<1>4. Len(file') = Len(file) + (k - HeaderCells)
  BY <1>1, <1>2, WriterAssumption DEF from
<1> QED BY <1>2, <1>3, <1>4

(***************************************************************************)
(* How long the file is when the writer thread is at each of its steps,    *)
(* and what each cell of it is, as long as write() does not fail.  A crash *)
(* only shortens the file.                                                 *)
(***************************************************************************)
FileLength ==
  /\ Len(file) <= Start(Len(popped))
  /\ wpc \in {"header", "payload"} => Len(popped) > 0 /\ rec = popped[Len(popped)]
  /\ ~crashed =>
       /\ wpc = "none" => file = <<>>
       /\ wpc \in {"test", "pop", "flush", "exited"} => Len(file) = Start(Len(popped))
       /\ wpc = "header" => Len(file) = Start(Len(popped) - 1)
       /\ wpc = "payload" => Len(file) = Start(Len(popped) - 1) + HeaderCells

FileContent ==
  \A n \in 1 .. Len(popped) : \A k \in 1 .. RecordCells :
    Start(n - 1) + k <= Len(file) => file[Start(n - 1) + k] = <<popped[n], k>>

FileInv == WBase /\ FileLength /\ FileContent

\* A step of which the file knows nothing.
FileStutter ==
  /\ UNCHANGED <<file, popped, rec, crashed>>
  /\ wpc' = wpc \/ {wpc, wpc'} \subseteq {"test", "pop", "flush", "exited"}

\* Which steps the file is about.
LEMMA FileSteps ==
  ASSUME [WNext]_wvars
  PROVE  \/ ~crashed /\ (Open \/ OpenWriteFails \/ PopRecord \/ WriteHeader \/ WritePayload)
         \/ Crash \/ FileStutter
<1> USE DEF FileStutter
<1>1. CASE OwnerStep
  BY <1>1 DEF OwnerStep, CloseEnds, OpenFails, CloseRequest, CloseJoin, CloseSync, disk,
     writerLocals, ringVars
<1>2. CASE WriterStep
  BY <1>2 DEF WriterStep, TestShutdown, PopNothing, FlushSkipped, FlushNow, AfterFlush,
     disk, ringVars
<1>3. CASE (\E p \in Producers : Callback(p)) \/ IntervalElapses
  BY <1>3 DEF Callback, Push, Claim, Publish, Reject, IntervalElapses, writerLocals, disk,
     ringVars
<1>4. CASE UNCHANGED wvars
  BY <1>4 DEF wvars, writerLocals, disk, ringVars
<1> QED BY <1>1, <1>2, <1>3, <1>4 DEF WNext

\* TryPop hands the writer the next record of the history.
LEMMA PopRecordAppends ==
  ASSUME WBase, PopRecord
  PROVE  /\ popped' = Append(popped, rec') /\ rec' \in Nat
         /\ Len(popped) \in Nat /\ Len(popped') = Len(popped) + 1
         /\ \A i \in 1 .. Len(popped) : popped'[i] = popped[i]
         /\ popped'[Len(popped')] = rec'
<1>1. popped' = Append(popped, rec') /\ rec' = slots_[HeadSlot]
  BY DEF PopRecord, Pop
<1>2. rec' \in Nat
  BY <1>1, PopWaiting, WaitingSlots, RingAssumption DEF PopRecord, RInv, RingTypeOK, WBase
<1>3. popped \in Seq(Nat)
  BY DEF WBase, RInv, RingTypeOK
<1> QED BY <1>1, <1>2, <1>3

\* The file before Open is empty.
LEMMA FileInit == WInit => FileLength /\ FileContent
<1> SUFFICES ASSUME WInit PROVE FileLength /\ FileContent
  OBVIOUS
<1>1. popped = <<>> /\ file = <<>> /\ Len(popped) = 0 /\ Len(file) = 0
  BY DEF WInit, RingInit
<1>2. Start(0) \in Nat
  BY StartProperties
<1> QED BY <1>1, <1>2 DEF WInit, FileLength, FileContent

\* The steps that write, pop or cut keep to the shape of the file.
LEMMA FileNext ==
  ASSUME "write" \notin Faults, FileInv, [WNext]_wvars
  PROVE  FileLength' /\ FileContent'
<1> DEFINE L == Len(popped)
<1>0. /\ popped \in Seq(Nat) /\ L \in Nat /\ file \in Seq(Cell) /\ Len(file) \in Nat
      /\ rec \in Nat \cup {PreambleName} /\ RecordCells \in Nat /\ HeaderCells \in Nat
      /\ HeaderCells <= RecordCells /\ PreambleCells \in Nat
      /\ \A n \in Nat : Start(n) \in Nat
      /\ Start(0) = PreambleCells
  <2>1. popped \in Seq(Nat) /\ file \in Seq(Cell) /\ rec \in Nat \cup {PreambleName}
    BY DEF FileInv, WBase, WTypeOK, RingTypeOK, Cell, PreambleName, Empty
  <2>2. L \in Nat /\ Len(file) \in Nat
    BY <2>1, LenProperties
  <2>3. /\ RecordCells \in Nat /\ HeaderCells \in Nat /\ HeaderCells <= RecordCells
        /\ PreambleCells \in Nat
    BY WriterAssumption DEF RecordCells
  <2>4. (\A n \in Nat : Start(n) \in Nat) /\ Start(0) = PreambleCells
    BY StartProperties
  <2> QED BY <2>1, <2>2, <2>3, <2>4
<1> HIDE DEF L
<1>n. L \in Nat /\ Len(file) \in Nat /\ RecordCells \in Nat
  BY <1>0
<1>1. CASE Open
  <2>1. L = 0 /\ popped' = popped /\ Len(file') = PreambleCells
    BY <1>1, OpenWrites DEF Open, FileInv, WBase, Control, ringVars, L
  <2> QED BY <1>0, <1>1, <2>1 DEF Open, FileLength, FileContent, L
<1>2. CASE PopRecord /\ ~crashed
  <2>1. /\ rec' \in Nat /\ Len(popped') = L + 1
        /\ \A i \in 1 .. L : popped'[i] = popped[i]
        /\ popped'[Len(popped')] = rec'
    BY <1>2, PopRecordAppends DEF FileInv, L
  <2>2. /\ file' = file /\ crashed' = crashed /\ wpc = "pop" /\ wpc' = "header"
        /\ Len(file) = Start(L)
    BY <1>2 DEF PopRecord, disk, FileInv, FileLength, L
  <2>3. Start(L) <= Start(L + 1)
    BY <1>0, StartProperties
  <2>4. FileLength'
    BY <1>0, <2>1, <2>2, <2>3 DEF FileLength, L
  <2>5. FileContent'
    <3> SUFFICES ASSUME NEW n \in 1 .. L + 1, NEW k \in 1 .. RecordCells,
                        Start(n - 1) + k <= Len(file)
                 PROVE  file[Start(n - 1) + k] = <<popped'[n], k>>
      BY <2>1, <2>2 DEF FileContent, L
    <3>1. CASE n = L + 1
      <4>1. n - 1 = L /\ Start(L) \in Nat
        BY <1>0, <3>1
      <4>2. ~(Start(n - 1) + k <= Len(file))
        BY <2>2, <4>1
      <4> QED BY <4>2
    <3>2. CASE n \in 1 .. L
      BY <2>1, <3>2 DEF FileInv, FileContent, L
    <3>3. n = L + 1 \/ n \in 1 .. L
      BY <1>0
    <3> QED BY <3>1, <3>2, <3>3
  <2> QED BY <2>4, <2>5
<1>3. ASSUME NEW h \in 0 .. RecordCells, NEW k \in 0 .. RecordCells, L > 0,
             Len(file) = Start(L - 1) + h, h + k <= RecordCells,
             Len(file') = Len(file) + k, popped' = popped,
             \A a \in 1 .. Len(file) : file'[a] = file[a],
             \A a \in Len(file) + 1 .. Len(file') :
               file'[a] = <<popped[L], h + (a - Len(file))>>
      PROVE  Len(file') <= Start(L) /\ FileContent'
  <2>1. Start(L) = Start(L - 1) + RecordCells /\ L - 1 \in Nat
    <3>1. L - 1 \in Nat /\ L - 1 + 1 = L
      BY <1>0, <1>3
    <3> QED BY <3>1, StartProperties
  <2> DEFINE s == Start(L - 1)
  <2>a. s \in Nat /\ Start(L) = s + RecordCells /\ Len(file) = s + h
    BY <1>3, <2>1, StartProperties
  <2> HIDE DEF s
  <2>b. Len(file') = Len(file) + k /\ h + k <= RecordCells
    BY <1>3
  <2>2. Len(file') <= Start(L)
    BY <1>n, <2>a, <2>b
  <2>3. ASSUME NEW n \in 1 .. L, NEW j \in 1 .. RecordCells,
               Start(n - 1) + j <= Len(file')
        PROVE  file'[Start(n - 1) + j] = <<popped[n], j>>
    <3> DEFINE u == Start(n - 1)
              a == u + j
    <3>0. n - 1 \in Nat /\ n \in Nat /\ n - 1 + 1 = n
      BY <1>0
    <3>1. u \in Nat /\ Start(n) = u + RecordCells
      BY <3>0, StartProperties
    <3>2. CASE a <= Len(file)
      <4>1. file[a] = <<popped[n], j>>
        BY <3>2 DEF FileInv, FileContent, L
      <4> HIDE DEF u
      <4>2. a \in 1 .. Len(file)
        BY <1>n, <3>1, <3>2
      <4> HIDE DEF a
      <4>3. file'[a] = file[a]
        BY <1>3, <4>2
      <4> QED BY <4>1, <4>3 DEF a, u
    <3>3. CASE a > Len(file)
      <4>1. n = L
        <5> SUFFICES ASSUME n < L PROVE FALSE
          BY <1>0
        <5>1. n \in 0 .. L - 1
          BY <1>0, <3>0
        <5>2. Start(n) <= s
          BY <2>1, <5>1, StartProperties DEF s
        <5> HIDE DEF u
        <5> QED BY <1>0, <2>a, <3>1, <3>3, <5>2
      <4>2. u = s
        BY <4>1 DEF s
      <4> HIDE DEF u
      <4>3. a <= Len(file')
        BY <2>3 DEF u
      <4>4. a \in Len(file) + 1 .. Len(file') /\ h + (a - Len(file)) = j
        BY <1>n, <2>a, <2>b, <3>1, <3>3, <4>2, <4>3
      <4> HIDE DEF a
      <4>5. file'[a] = <<popped[L], h + (a - Len(file))>>
        BY <1>3, <4>4
      <4> QED BY <4>1, <4>4, <4>5 DEF a, u
    <3>4. a \in Nat
      BY <1>n, <3>1
    <3> QED BY <1>n, <3>2, <3>3, <3>4
  <2>4. FileContent'
    BY <1>3, <2>3 DEF FileContent, L
  <2> QED BY <2>2, <2>4
<1>4. CASE WriteHeader /\ ~crashed
  <2>1. /\ file' = file \o Cells(rec, 1, HeaderCells) /\ wpc = "header" /\ wpc' = "payload"
        /\ popped' = popped /\ rec' = rec /\ crashed' = crashed
    BY <1>4 DEF WriteHeader, WriteAllOk, WriteAllFails, ringVars
  <2>2. L > 0 /\ rec = popped[L] /\ Len(file) = Start(L - 1)
    BY <1>4, <2>1 DEF FileInv, FileLength, L
  <2>3. HeaderCells \in 0 .. HeaderCells
    BY <1>0
  <2>4. /\ Len(file') = Len(file) + HeaderCells
        /\ \A a \in 1 .. Len(file) : file'[a] = file[a]
        /\ \A a \in Len(file) + 1 .. Len(file') : file'[a] = <<rec, a - Len(file)>>
    BY <1>0, <2>1, <2>3, HeaderWrites
  <2>5. Len(file') <= Start(L) /\ FileContent'
    <3> DEFINE h == 0
    <3>1. /\ h \in 0 .. RecordCells /\ HeaderCells \in 0 .. RecordCells
          /\ h + HeaderCells <= RecordCells
      BY <1>0
    <3>2. Start(L - 1) \in Nat
      BY <1>0, <2>2, L - 1 \in Nat
    <3>3. Len(file) = Start(L - 1) + h
      BY <2>2, <3>2
    <3>4. ASSUME NEW a \in Len(file) + 1 .. Len(file')
          PROVE  file'[a] = <<popped[L], h + (a - Len(file))>>
      <4>1. h + (a - Len(file)) = a - Len(file)
        BY <1>0, <2>4
      <4> QED BY <2>2, <2>4, <4>1
    <3> HIDE DEF h
    <3> QED BY <1>3, <2>1, <2>2, <2>4, <3>1, <3>3, <3>4
  <2> QED BY <2>1, <2>2, <2>4, <2>5 DEF FileLength, L
<1>5. CASE WritePayload /\ ~crashed
  <2>1. /\ file' = file \o Cells(rec, HeaderCells + 1, RecordCells)
        /\ wpc = "payload" /\ wpc' = "pop"
        /\ popped' = popped /\ rec' = rec /\ crashed' = crashed
    BY <1>5 DEF WritePayload, WriteAllOk, WriteAllFails, ringVars
  <2>2. L > 0 /\ rec = popped[L] /\ Len(file) = Start(L - 1) + HeaderCells
    BY <1>5, <2>1 DEF FileInv, FileLength, L
  <2>3. RecordCells \in HeaderCells .. RecordCells
    BY <1>0
  <2>4. /\ Len(file') = Len(file) + (RecordCells - HeaderCells)
        /\ \A a \in 1 .. Len(file) : file'[a] = file[a]
        /\ \A a \in Len(file) + 1 .. Len(file') :
             file'[a] = <<rec, HeaderCells + (a - Len(file))>>
    BY <1>0, <2>1, <2>3, PayloadWrites
  <2>5. Len(file') <= Start(L) /\ FileContent'
    <3> DEFINE k == RecordCells - HeaderCells
    <3>1. /\ HeaderCells \in 0 .. RecordCells /\ k \in 0 .. RecordCells
          /\ HeaderCells + k <= RecordCells /\ Len(file') = Len(file) + k
      BY <1>0, <2>4
    <3> HIDE DEF k
    <3> QED BY <1>3, <2>1, <2>2, <2>4, <3>1
  <2>6. Len(file') = Start(L)
    <3>1. L - 1 \in Nat /\ L - 1 + 1 = L
      BY <1>0, <2>2
    <3> DEFINE s == Start(L - 1)
              t == Start(L)
              l == Len(file')
    <3>2. t = s + RecordCells /\ s \in Nat
      BY <3>1, StartProperties
    <3>3. l = s + HeaderCells + (RecordCells - HeaderCells)
      BY <2>2, <2>4
    <3> HIDE DEF s, t, l
    <3>4. l = t
      BY <1>0, <3>2, <3>3
    <3> QED BY <3>4 DEF l, t
  <2> QED BY <2>1, <2>2, <2>5, <2>6 DEF FileLength, L
<1>6. CASE Crash
  <2>1. PICK n \in synced .. Len(file) : file' = SubSeq(file, 1, n)
    BY <1>6 DEF Crash
  <2>2. /\ n \in 0 .. Len(file) /\ Len(file') = n
        /\ \A a \in 1 .. n : file'[a] = file[a]
    BY <1>0, <2>1 DEF FileInv, WBase, WTypeOK
  <2>3. crashed' /\ popped' = popped /\ rec' = rec /\ wpc' = wpc
    BY <1>6 DEF Crash, ringVars, writerLocals
  <2>4. FileLength'
    BY <1>0, <2>2, <2>3 DEF FileLength, FileInv, L
  <2>5. FileContent'
    <3> SUFFICES ASSUME NEW m \in 1 .. L, NEW k \in 1 .. RecordCells,
                        Start(m - 1) + k <= n
                 PROVE  file'[Start(m - 1) + k] = <<popped[m], k>>
      BY <2>2, <2>3 DEF FileContent, L
    <3>0. m - 1 \in Nat
      BY <1>0
    <3> DEFINE u == Start(m - 1)
    <3>a. u \in Nat /\ u + k <= n
      BY <3>0, StartProperties
    <3> HIDE DEF u
    <3>b. u + k \in 1 .. n /\ u + k <= Len(file)
      BY <1>0, <2>2, <3>a
    <3>1. Start(m - 1) + k \in 1 .. n /\ Start(m - 1) + k <= Len(file)
      BY <3>b DEF u
    <3> QED BY <2>2, <3>1 DEF FileInv, FileContent, L
  <2> QED BY <2>4, <2>5
<1>7. CASE FileStutter
  BY <1>7 DEF FileStutter, FileInv, FileLength, FileContent, L
<1>8. ~OpenWriteFails
  BY DEF OpenWriteFails, WriteAllFails
<1> QED BY <1>1, <1>2, <1>4, <1>5, <1>6, <1>7, <1>8, FileSteps

\* The shape of the file, always.
LEMMA FileInvAlways == "write" \notin Faults => (WSpec => []FileInv)
<1> SUFFICES ASSUME "write" \notin Faults PROVE WSpec => []FileInv
  OBVIOUS
<1>1. WInit => FileInv
  BY WBaseInit, FileInit DEF FileInv
<1>2. FileInv /\ [WNext]_wvars => FileInv'
  BY WBaseNext, FileNext DEF FileInv
<1> QED BY <1>1, <1>2, PTL DEF WSpec

\* The cells of a stretch the reader cuts out.
LEMMA ChunkCells ==
  ASSUME file \in Seq(Cell), NEW n \in 1 .. ChunkCount
  PROVE  /\ n - 1 \in Nat /\ Start(n - 1) \in Nat /\ Start(n - 1) >= PreambleCells
         /\ Start(n) = Start(n - 1) + RecordCells
         /\ Start(n) <= Len(file) /\ Len(file) \in Nat
         /\ RecordCells \in Nat \ {0}
         /\ Chunk(n) \in Seq(Cell) /\ Len(Chunk(n)) = RecordCells
         /\ \A k \in 1 .. RecordCells : Chunk(n)[k] = file[Start(n - 1) + k]
<1>1. RecordCells \in Nat \ {0} /\ Len(file) \in Nat /\ file \in [1 .. Len(file) -> Cell]
  BY WriterAssumption, LenProperties DEF RecordCells
<1>2. ChunkCount \in Nat
  BY <1>1, WholeRecordsMeaning, 1 \in Nat \ {0} DEF ChunkCount
<1>3. n \in Nat \ {0} /\ n <= ChunkCount /\ n - 1 \in Nat /\ n - 1 + 1 = n
  BY <1>2
<1>4. Start(n) <= Len(file)
  BY <1>1, <1>3, WholeRecordsMeaning DEF ChunkCount
<1> DEFINE u == Start(n - 1)
<1>5. u \in Nat /\ u >= PreambleCells /\ Start(n) = u + RecordCells
  BY <1>3, StartProperties
<1>6. Chunk(n) = SubSeq(file, u + 1, u + RecordCells)
  <2>1. Chunk(n) = SubSeq(file, u + 1, Start(n))
    BY DEF Chunk, Start
  <2> QED BY <1>5, <2>1
<1> HIDE DEF u
<1>7. \A i \in u + 1 .. u + RecordCells : file[i] \in Cell
  <2>1. u + RecordCells <= Len(file)
    BY <1>4, <1>5
  <2>2. \A i \in u + 1 .. u + RecordCells : i \in 1 .. Len(file)
    BY <1>1, <1>5, <2>1
  <2> QED BY <1>1, <2>2
<1>8. u + 1 \in Int /\ u + RecordCells \in Int /\ u + 1 <= u + RecordCells
      /\ (u + RecordCells) - (u + 1) + 1 = RecordCells
  BY <1>1, <1>5
<1>9. /\ Chunk(n) \in Seq(Cell)
      /\ Len(Chunk(n)) = (u + RecordCells) - (u + 1) + 1
      /\ \A k \in 1 .. (u + RecordCells) - (u + 1) + 1 : Chunk(n)[k] = file[(u + 1) + k - 1]
  <2> DEFINE lo == u + 1
            hi == u + RecordCells
  <2>1. /\ lo \in Int /\ hi \in Int /\ lo <= hi /\ Chunk(n) = SubSeq(file, lo, hi)
        /\ \A i \in lo .. hi : file[i] \in Cell
    BY <1>6, <1>7, <1>8
  <2> HIDE DEF lo, hi
  <2>2. /\ SubSeq(file, lo, hi) \in Seq(Cell)
        /\ Len(SubSeq(file, lo, hi)) = hi - lo + 1
        /\ \A k \in 1 .. hi - lo + 1 : SubSeq(file, lo, hi)[k] = file[lo + k - 1]
    BY <2>1, SubSeqProperties
  <2> QED BY <2>1, <2>2 DEF lo, hi
<1>10. ASSUME NEW k \in 1 .. RecordCells PROVE (u + 1) + k - 1 = u + k
  BY <1>1, <1>5
<1>11. \A k \in 1 .. RecordCells : Chunk(n)[k] = file[u + k]
  BY <1>8, <1>9, <1>10
<1> QED BY <1>1, <1>3, <1>4, <1>5, <1>8, <1>9, <1>11 DEF u

\* The n-th stretch is the n-th record popped.
LEMMA ChunkIsPopped ==
  ASSUME FileInv, NEW n \in 1 .. ChunkCount
  PROVE  n \in 1 .. Len(popped) /\ Chunk(n) = Cells(popped[n], 1, RecordCells)
<1>1. popped \in Seq(Nat) /\ file \in Seq(Cell) /\ Len(popped) \in Nat
  BY LenProperties DEF FileInv, WBase, WTypeOK, RingTypeOK, Cell
<1>2. /\ n - 1 \in Nat /\ Start(n - 1) \in Nat /\ Start(n) = Start(n - 1) + RecordCells
      /\ Start(n) <= Len(file) /\ Len(file) \in Nat /\ RecordCells \in Nat \ {0}
      /\ Chunk(n) \in Seq(Cell) /\ Len(Chunk(n)) = RecordCells
      /\ \A k \in 1 .. RecordCells : Chunk(n)[k] = file[Start(n - 1) + k]
  BY <1>1, ChunkCells
<1>3. n \in Nat \ {0}
  BY <1>2
<1>4. n <= Len(popped)
  <2> SUFFICES ASSUME n > Len(popped) PROVE FALSE
    BY <1>1, <1>3
  <2>1. Len(popped) \in 0 .. n - 1
    BY <1>1, <1>3
  <2>2. Start(Len(popped)) <= Start(n - 1) /\ Start(Len(popped)) \in Nat
    BY <1>1, <1>2, <2>1, StartProperties
  <2>3. Len(file) <= Start(Len(popped))
    BY DEF FileInv, FileLength
  <2> DEFINE u == Start(n - 1)
            v == Start(Len(popped))
            l == Len(file)
  <2>4. /\ u \in Nat /\ v \in Nat /\ l \in Nat /\ v <= u /\ l <= v
        /\ u + RecordCells <= l /\ RecordCells \in Nat \ {0}
    BY <1>2, <2>2, <2>3
  <2> HIDE DEF u, v, l
  <2> QED BY <2>4
<1>5. n \in 1 .. Len(popped)
  BY <1>1, <1>3, <1>4
<1> DEFINE c == Cells(popped[n], 1, RecordCells)
<1>6. popped[n] \in Nat
  BY <1>1, <1>5
<1>7. /\ c \in Seq(Cell) /\ Len(c) = RecordCells
      /\ \A k \in 1 .. RecordCells : c[k] = <<popped[n], k>>
  <2> DEFINE one == 1
  <2>1. /\ one \in Nat \ {0} /\ RecordCells \in Nat /\ one - 1 <= RecordCells
        /\ popped[n] \in Nat \cup {PreambleName} /\ c = Cells(popped[n], one, RecordCells)
    BY <1>2, <1>6
  <2> HIDE DEF one, c
  <2>2. /\ c \in Seq(Cell) /\ Len(c) = RecordCells - one + 1
        /\ \A k \in 1 .. RecordCells - one + 1 : c[k] = <<popped[n], one + k - 1>>
    BY <2>1, CellsImage
  <2>3. RecordCells - one + 1 = RecordCells /\ \A k \in 1 .. RecordCells : one + k - 1 = k
    BY <2>1 DEF one
  <2> QED BY <2>2, <2>3
<1> HIDE DEF c
<1>8. ASSUME NEW k \in 1 .. RecordCells PROVE Chunk(n)[k] = c[k]
  <2> DEFINE u == Start(n - 1)
            l == Len(file)
  <2>1. u \in Nat /\ l \in Nat /\ u + RecordCells <= l /\ RecordCells \in Nat
    BY <1>2
  <2> HIDE DEF u, l
  <2>2. u + k <= l
    BY <2>1
  <2>3. file[u + k] = <<popped[n], k>>
    BY <1>5, <2>2 DEF FileInv, FileContent, u, l
  <2> QED BY <1>2, <1>7, <2>3 DEF u
<1>9. Chunk(n) = c
  BY <1>2, <1>7, <1>8, SeqEqual
<1> QED BY <1>5, <1>9 DEF c

(***************************************************************************)
(* Whatever the reader cuts out of the file, now or after a crash, is a    *)
(* whole record, and the n-th one is the n-th that TryPop returned, as     *)
(* long as write() does not fail.                                          *)
(***************************************************************************)
THEOREM FileIsHistory == "write" \notin Faults => (WSpec => []FileFollowsPops)
<1> SUFFICES ASSUME "write" \notin Faults PROVE WSpec => []FileFollowsPops
  OBVIOUS
<1>1. ASSUME FileInv PROVE FileFollowsPops
  <2>1. DOMAIN popped = 1 .. Len(popped)
    BY <1>1, LenProperties DEF FileInv, WBase, RInv, RingTypeOK
  <2> QED BY <1>1, <2>1, ChunkIsPopped DEF FileFollowsPops
<1>2. FileInv => FileFollowsPops
  BY <1>1
<1> QED BY <1>2, FileInvAlways, PTL

-----------------------------------------------------------------------------
(***************************************************************************)
(* The final drain, as long as nothing was ever dropped: no push still     *)
(* under way is older than what Close owes, so the empty slot that ends    *)
(* the drain lies behind all of it.                                        *)
(***************************************************************************)
OwedIsSettled ==
  dropped_count_ = 0 =>
    \A r \in atClose : r < write_index_ /\ \A p \in InFlight : r < claim[p]

OwedIsPopped ==
  (dropped_count_ = 0 /\ draining /\ wpc \in {"flush", "exited"}) =>
    \A r \in atClose : r < Len(popped)

OwedInv == WBase /\ OwedIsSettled /\ OwedIsPopped

\* What a push does to what is owed: nothing.
LEMMA PushOwed ==
  ASSUME OwedInv, NEW p \in Producers, Callback(p)
  PROVE  OwedIsSettled' /\ OwedIsPopped'
<1> USE DEF OwedInv, WBase
<1>0. /\ UNCHANGED <<atClose, draining, wpc, popped>>
      /\ claim \in [Producers -> Nat \cup {NoClaim}] /\ write_index_ \in Nat
      /\ dropped_count_ \in Nat /\ atClose \subseteq Nat
  <2>1. UNCHANGED <<atClose, draining, wpc, popped>>
    BY DEF Callback, writerLocals, Push, Claim, Publish, Reject
  <2> QED BY <2>1, RingAssumption DEF RInv, RingTypeOK, WTypeOK
<1>1. CASE Claim(p)
  BY <1>0, <1>1 DEF Claim, OwedIsSettled, OwedIsPopped, InFlight, NoClaim
<1>2. CASE Publish(p)
  BY <1>0, <1>2 DEF Publish, OwedIsSettled, OwedIsPopped, InFlight, NoClaim
<1>3. CASE Reject(p)
  <2>1. dropped_count_' # 0
    BY <1>0, <1>3 DEF Reject
  <2> QED BY <2>1 DEF OwedIsSettled, OwedIsPopped
<1> QED BY <1>1, <1>2, <1>3 DEF Callback, Push

\* The drain ends behind what is owed.
LEMMA DrainEnds ==
  ASSUME OwedInv, PopNothing, dropped_count_ = 0
  PROVE  \A r \in atClose : r < Len(popped)
<1> USE DEF OwedInv, WBase
<1>0. /\ read_index_ \in Nat /\ write_index_ \in Nat /\ atClose \subseteq Nat
      /\ read_index_ = Len(popped)
  BY RingAssumption DEF RInv, RingTypeOK, WTypeOK, HeadFollowsPops
<1> SUFFICES ASSUME NEW r \in atClose, r >= read_index_ PROVE FALSE
  BY <1>0
<1>1. r < write_index_ /\ \A p \in InFlight : r < claim[p]
  BY DEF OwedIsSettled
<1>2. read_index_ \in read_index_ .. write_index_ - 1
  BY <1>0, <1>1
<1>3. slots_[SlotOf(read_index_)] # read_index_
  BY <1>0 DEF PopNothing, HeadSlot, Empty
<1>4. PICK p \in InFlight : claim[p] = read_index_
  BY <1>2, <1>3 DEF RInv, NoHoles
<1> QED BY <1>0, <1>1, <1>4

\* Every step keeps the account of what Close owes.
LEMMA OwedNext == OwedInv /\ [WNext]_wvars => OwedInv'
<1> SUFFICES ASSUME OwedInv, [WNext]_wvars PROVE OwedIsSettled' /\ OwedIsPopped'
  BY WBaseNext DEF OwedInv
<1> USE DEF OwedInv, WBase
<1>1. CASE CloseRequest
  <2>1. UNCHANGED ringVars /\ draining' = draining /\ ~draining
    BY <1>1 DEF CloseRequest, writerLocals, Control
  <2>2. ASSUME dropped_count_ = 0, NEW r \in atClose'
        PROVE  r < write_index_ /\ \A p \in InFlight : r < claim[p]
    <3>1. /\ r \in Waiting \/ \E i \in DOMAIN popped : r = popped[i]
          /\ \A p \in InFlight : r < claim[p]
      BY <1>1 DEF CloseRequest
    <3>2. CASE r \in Waiting
      BY <3>1, <3>2, WaitingSlots, RingAssumption DEF RInv, RingTypeOK
    <3>3. ASSUME NEW i \in DOMAIN popped, r = popped[i] PROVE r < write_index_
      <4>1. r = i - 1 /\ read_index_ = Len(popped) /\ read_index_ <= write_index_
        BY <2>2, <3>3 DEF RInv, HeadFollowsPops
      <4>2. i \in 1 .. read_index_ /\ read_index_ \in Nat /\ write_index_ \in Nat
        BY <4>1, LenProperties, RingAssumption DEF RInv, RingTypeOK
      <4> QED BY <4>1, <4>2
    <3> QED BY <3>1, <3>2, <3>3
  <2>3. OwedIsSettled'
    BY <2>1, <2>2 DEF OwedIsSettled, ringVars, InFlight
  <2>4. OwedIsPopped'
    BY <2>1 DEF OwedIsPopped
  <2> QED BY <2>3, <2>4
<1>2. CASE \E p \in Producers : Callback(p)
  BY <1>2, PushOwed
<1>3. CASE PopRecord
  BY <1>3 DEF PopRecord, Pop, OwedIsSettled, OwedIsPopped, InFlight
<1>4. CASE PopNothing
  BY <1>4, DrainEnds DEF PopNothing, ringVars, OwedIsSettled, OwedIsPopped, InFlight
<1>5. CASE UNCHANGED <<ringVars, atClose, draining, wpc>>
  BY <1>5 DEF ringVars, OwedIsSettled, OwedIsPopped, InFlight
<1>6. CASE /\ UNCHANGED <<ringVars, atClose>>
           /\ \/ wpc' \notin {"flush", "exited"}
              \/ draining' = draining /\ wpc = "flush"
  BY <1>6 DEF ringVars, OwedIsSettled, OwedIsPopped, InFlight
<1>7. CASE OwnerStep /\ ~CloseRequest
  BY <1>5, <1>6, <1>7 DEF OwnerStep, CloseEnds, Open, OpenFails, OpenWriteFails, CloseJoin,
     CloseSync, writerLocals
<1>8. CASE WriterStep /\ ~PopRecord /\ ~PopNothing
  BY <1>5, <1>6, <1>8 DEF WriterStep, TestShutdown, WriteHeader, WritePayload, FlushSkipped,
     FlushNow
<1>9. CASE IntervalElapses \/ Crash \/ UNCHANGED wvars
  BY <1>5, <1>9 DEF IntervalElapses, Crash, wvars, writerLocals
<1> QED BY <1>1, <1>2, <1>3, <1>4, <1>7, <1>8, <1>9 DEF WNext

\* The account of what Close owes, always.
LEMMA OwedInvAlways == WSpec => []OwedInv
<1>1. WInit => OwedInv
  BY WBaseInit DEF WInit, OwedInv, OwedIsSettled, OwedIsPopped
<1> QED BY <1>1, OwedNext, PTL DEF WSpec

\* When the writer thread has exited, what Close owes was popped.
LEMMA OwedWhenExited ==
  ASSUME OwedInv, wpc \in {"none", "exited"}, dropped_count_ = 0, NEW r \in atClose
  PROVE  /\ wpc = "exited" /\ r \in Nat /\ r + 1 \in 1 .. Len(popped)
         /\ popped[r + 1] = r
<1> USE DEF OwedInv, WBase
<1>1. wpc = "exited" /\ draining
  BY DEF Control
<1>2. r \in Nat /\ r < Len(popped) /\ Len(popped) \in Nat
  BY <1>1, LenProperties DEF OwedIsPopped, WTypeOK, RingTypeOK
<1>3. r + 1 \in 1 .. Len(popped) /\ DOMAIN popped = 1 .. Len(popped)
  BY <1>2, LenProperties DEF RInv, RingTypeOK
<1>4. popped[r + 1] = (r + 1) - 1
  BY <1>3 DEF RInv, HeadFollowsPops
<1> QED BY <1>1, <1>2, <1>3, <1>4

(***************************************************************************)
(* Close leaves nothing behind as long as no push was ever rejected and    *)
(* write() does not fail: every record accepted before Close, with no      *)
(* older push under way, is in the file when Close returns.                *)
(***************************************************************************)
THEOREM CloseDrains == "write" \notin Faults => (WSpec => []DrainedIfNoDrop)
<1> SUFFICES ASSUME "write" \notin Faults PROVE WSpec => []DrainedIfNoDrop
  OBVIOUS
<1>1. ASSUME FileInv, OwedInv PROVE DrainedIfNoDrop
  <2> SUFFICES ASSUME owner = "closed", dropped_count_ = 0, ~crashed, NEW r \in atClose
               PROVE  InFile(r)
    BY DEF DrainedIfNoDrop
  <2> DEFINE n == r + 1
  <2>1. wpc \in {"none", "exited"}
    BY <1>1 DEF OwedInv, WBase, Control
  <2>2. wpc = "exited" /\ r \in Nat /\ n \in 1 .. Len(popped) /\ popped[n] = r
    BY <1>1, <2>1, OwedWhenExited
  <2>3. Len(popped) \in Nat /\ Len(file) \in Nat
    BY <1>1, LenProperties DEF OwedInv, WBase, WTypeOK, RingTypeOK
  <2>4. n \in Nat \ {0} /\ n \in 0 .. Len(popped)
    BY <2>2, <2>3
  <2> HIDE DEF n
  <2>5. Len(file) = Start(Len(popped))
    BY <1>1, <2>2 DEF FileInv, FileLength
  <2>6. Start(n) <= Len(file)
    BY <2>3, <2>4, <2>5, StartProperties
  <2>7. ChunkCount \in Nat /\ n <= ChunkCount
    BY <2>3, <2>4, <2>6, WholeRecordsMeaning DEF ChunkCount
  <2>8. n \in 1 .. ChunkCount
    BY <2>4, <2>7
  <2>9. Chunk(n) = Cells(r, 1, RecordCells)
    BY <1>1, <2>2, <2>8, ChunkIsPopped
  <2> QED BY <2>8, <2>9 DEF InFile
<1>2. FileInv /\ OwedInv => DrainedIfNoDrop
  BY <1>1
<1> QED BY <1>2, FileInvAlways, OwedInvAlways, PTL

-----------------------------------------------------------------------------
(***************************************************************************)
(* What a failing write() leaves of the order.  Every cell after the       *)
(* preamble belongs to a record that was popped, and a later cell never to *)
(* an earlier record, nor to an earlier part of the same one.  Reached is  *)
(* how much of the record popped last may be in the file.                  *)
(***************************************************************************)
Reached ==
  IF wpc = "header" THEN 0 ELSE IF wpc = "payload" THEN HeaderCells ELSE RecordCells

HeldRecord ==
  wpc \in {"header", "payload"} => Len(popped) > 0 /\ rec = popped[Len(popped)]

CellsPopped ==
  \A a \in PreambleCells + 1 .. Len(file) :
    \E i \in 1 .. Len(popped) :
      file[a][1] = popped[i] /\ (i < Len(popped) \/ file[a][2] <= Reached)

CellsOrdered ==
  \A a, b \in PreambleCells + 1 .. Len(file) :
    a < b => \E i, j \in 1 .. Len(popped) :
               /\ file[a][1] = popped[i] /\ file[b][1] = popped[j]
               /\ i < j \/ (i = j /\ file[a][2] < file[b][2])

CellInv == WBase /\ HeldRecord /\ CellsPopped /\ CellsOrdered

\* Appending a stretch of the record in hand, after what is there of it.
LEMMA StretchInOrder ==
  ASSUME CellInv, NEW h \in Nat, h = Reached, Len(popped) > 0, rec = popped[Len(popped)],
         popped' = popped, Len(file) \in Nat, Len(file') \in Nat, Len(file) <= Len(file'),
         \A a \in 1 .. Len(file) : file'[a] = file[a],
         \A a \in Len(file) + 1 .. Len(file') : file'[a] = <<rec, h + (a - Len(file))>>,
         h + (Len(file') - Len(file)) <= Reached'
  PROVE  CellsPopped' /\ CellsOrdered'
<1> DEFINE L == Len(popped)
          l == Len(file)
          m == Len(file')
<1>0. /\ L \in Nat \ {0} /\ l \in Nat /\ m \in Nat /\ l <= m /\ PreambleCells \in Nat
      /\ \A a \in 1 .. l : file[a][2] \in Nat
  <2>1. popped \in Seq(Nat) /\ file \in Seq(Cell)
    BY DEF CellInv, WBase, RInv, RingTypeOK, WTypeOK, Cell
  <2>2. L \in Nat
    BY <2>1, LenProperties
  <2>3. \A a \in 1 .. l : file[a] \in Cell
    BY <2>1, LenProperties
  <2> QED BY <2>2, <2>3, WriterAssumption DEF Cell
<1>1. /\ rec = popped[L] /\ popped' = popped /\ h = Reached
      /\ \A a \in 1 .. l : file'[a] = file[a]
      /\ \A a \in l + 1 .. m : file'[a] = <<rec, h + (a - l)>>
      /\ h + (m - l) <= Reached'
      /\ \A a \in PreambleCells + 1 .. l : \E i \in 1 .. L :
           file[a][1] = popped[i] /\ (i < L \/ file[a][2] <= h)
  BY DEF CellInv, CellsPopped
<1>2. \A a, b \in PreambleCells + 1 .. l :
        a < b => \E i, j \in 1 .. L :
                   /\ file[a][1] = popped[i] /\ file[b][1] = popped[j]
                   /\ i < j \/ (i = j /\ file[a][2] < file[b][2])
  BY DEF CellInv, CellsOrdered
<1>3. Reached' \in Nat
  BY WriterAssumption DEF Reached, RecordCells
<1> DEFINE g == Reached'
<1>4. g \in Nat /\ h + (m - l) <= g
  BY <1>1, <1>3
<1> HIDE DEF L, l, m, g
<1>5. ASSUME NEW a \in PreambleCells + 1 .. m
      PROVE  \E i \in 1 .. L : file'[a][1] = popped[i] /\ (i < L \/ file'[a][2] <= g)
  <2>1. CASE a <= l
    <3>1. a \in 1 .. l /\ a \in PreambleCells + 1 .. l
      BY <1>0, <2>1
    <3>2. PICK i \in 1 .. L : file[a][1] = popped[i] /\ (i < L \/ file[a][2] <= h)
      BY <1>1, <3>1
    <3>3. h <= g
      BY <1>0, <1>4
    <3>4. file[a][2] \in Nat /\ file'[a] = file[a]
      BY <1>0, <1>1, <3>1
    <3>5. file[a][2] <= h => file[a][2] <= g
      BY <1>4, <3>3, <3>4
    <3> QED BY <3>2, <3>4, <3>5
  <2>2. CASE a > l
    <3>1. a \in l + 1 .. m
      BY <1>0, <2>2
    <3>2. file'[a] = <<rec, h + (a - l)>>
      BY <1>1, <3>1
    <3>3. h + (a - l) <= g
      BY <1>0, <1>4, <3>1
    <3>4. L \in 1 .. L
      BY <1>0
    <3> QED BY <1>1, <3>2, <3>3, <3>4
  <2> QED BY <1>0, <2>1, <2>2
<1>6. ASSUME NEW a \in PreambleCells + 1 .. m, NEW b \in PreambleCells + 1 .. m, a < b
      PROVE  \E i, j \in 1 .. L :
               /\ file'[a][1] = popped[i] /\ file'[b][1] = popped[j]
               /\ i < j \/ (i = j /\ file'[a][2] < file'[b][2])
  <2>0. L \in 1 .. L
    BY <1>0
  <2>1. CASE b <= l
    <3>1. /\ a \in 1 .. l /\ a \in PreambleCells + 1 .. l
          /\ b \in 1 .. l /\ b \in PreambleCells + 1 .. l
      BY <1>0, <1>6, <2>1
    <3>2. file'[a] = file[a] /\ file'[b] = file[b]
      BY <1>1, <3>1
    <3> QED BY <1>2, <1>6, <3>1, <3>2
  <2>2. CASE b > l /\ a <= l
    <3>1. a \in 1 .. l /\ a \in PreambleCells + 1 .. l /\ b \in l + 1 .. m
      BY <1>0, <2>2
    <3>2. PICK i \in 1 .. L : file[a][1] = popped[i] /\ (i < L \/ file[a][2] <= h)
      BY <1>1, <3>1
    <3>3. file'[a] = file[a] /\ file[a][2] \in Nat /\ file'[b] = <<rec, h + (b - l)>>
      BY <1>0, <1>1, <3>1
    <3>4. h < h + (b - l)
      BY <1>0, <3>1
    <3>5. file[a][2] <= h => file[a][2] < h + (b - l)
      BY <1>0, <3>1, <3>3, <3>4
    <3>6. i < L \/ i = L
      BY <1>0
    <3> QED BY <1>1, <2>0, <3>2, <3>3, <3>5, <3>6
  <2>3. CASE a > l
    <3>1. a \in l + 1 .. m /\ b \in l + 1 .. m
      BY <1>0, <1>6, <2>3
    <3>2. file'[a] = <<rec, h + (a - l)>> /\ file'[b] = <<rec, h + (b - l)>>
      BY <1>1, <3>1
    <3>3. h + (a - l) < h + (b - l)
      BY <1>0, <1>6, <3>1
    <3> QED BY <1>1, <2>0, <3>2, <3>3
  <2> QED BY <1>0, <2>1, <2>2, <2>3
<1> QED BY <1>1, <1>5, <1>6 DEF CellsPopped, CellsOrdered, L, m, g

\* Every step keeps the cells in order, whatever fails.
LEMMA CellNext ==
  ASSUME CellInv, [WNext]_wvars
  PROVE  HeldRecord' /\ CellsPopped' /\ CellsOrdered'
<1> DEFINE L == Len(popped)
<1>0. /\ popped \in Seq(Nat) /\ L \in Nat /\ file \in Seq(Cell) /\ Len(file) \in Nat
      /\ rec \in Nat \cup {PreambleName} /\ RecordCells \in Nat /\ HeaderCells \in Nat
      /\ HeaderCells <= RecordCells /\ PreambleCells \in Nat
  <2>1. popped \in Seq(Nat) /\ file \in Seq(Cell) /\ rec \in Nat \cup {PreambleName}
    BY DEF CellInv, WBase, RInv, WTypeOK, RingTypeOK, Cell, PreambleName, Empty
  <2>2. L \in Nat /\ Len(file) \in Nat
    BY <2>1, LenProperties
  <2> QED BY <2>1, <2>2, WriterAssumption DEF RecordCells
<1>1. CASE Open
  <2>1. Len(file') = PreambleCells
    BY <1>1, OpenWrites DEF Open, CellInv, WBase, Control
  <2>2. PreambleCells + 1 .. Len(file') = {}
    BY <1>0, <2>1
  <2> QED BY <1>1, <2>2 DEF Open, HeldRecord, CellsPopped, CellsOrdered
<1>2. CASE OpenWriteFails
  <2>1. file = <<>> /\ wpc' = "none"
    BY <1>2 DEF OpenWriteFails, writerLocals, CellInv, WBase, Control
  <2>2. PICK k \in 0 .. PreambleCells - 1 : file' = file \o Cells(PreambleName, 1, k)
    BY <1>2 DEF OpenWriteFails, WriteAllFails
  <2>3. Len(file') = k
    <3> DEFINE one == 1
    <3>1. /\ file' = file \o Cells(PreambleName, one, k) /\ Len(file) = 0
          /\ PreambleName \in Nat \cup {PreambleName}
          /\ one \in Nat \ {0} /\ k \in Nat /\ one - 1 <= k
      BY <1>0, <2>1, <2>2
    <3> HIDE DEF one
    <3>2. Len(file') = Len(file) + (k - one + 1)
      BY <1>0, <3>1, Appended
    <3> QED BY <3>1, <3>2 DEF one
  <2>4. PreambleCells + 1 .. Len(file') = {}
    BY <1>0, <2>3
  <2> QED BY <2>1, <2>4 DEF HeldRecord, CellsPopped, CellsOrdered
<1>3. CASE PopRecord
  <2>1. /\ Len(popped') = L + 1 /\ popped'[Len(popped')] = rec'
        /\ \A i \in 1 .. L : popped'[i] = popped[i]
    BY <1>3, PopRecordAppends DEF CellInv
  <2>2. file' = file
    BY <1>3 DEF PopRecord, disk
  <2> HIDE DEF L
  <2>3. \A i \in 1 .. L : i \in 1 .. L + 1 /\ i < L + 1
    BY <1>0
  <2>4. HeldRecord'
    BY <1>0, <2>1 DEF HeldRecord
  <2>5. CellsPopped'
    BY <2>1, <2>2, <2>3 DEF CellInv, CellsPopped, L
  <2>6. CellsOrdered'
    BY <2>1, <2>2, <2>3 DEF CellInv, CellsOrdered, L
  <2> QED BY <2>4, <2>5, <2>6
<1>4. CASE WriteHeader
  <2>1. PICK k \in 0 .. HeaderCells :
          /\ file' = file \o Cells(rec, 1, k)
          /\ (wpc' = "payload" /\ k = HeaderCells) \/ wpc' = "pop"
    <3>1. CASE WriteAllOk(rec, 1, HeaderCells) /\ wpc' = "payload"
      BY <3>1, WriterAssumption, HeaderCells \in 0 .. HeaderCells DEF WriteAllOk
    <3>2. CASE WriteAllFails(rec, 1, HeaderCells) /\ wpc' = "pop"
      BY <3>2, WriterAssumption DEF WriteAllFails
    <3> QED BY <1>4, <3>1, <3>2 DEF WriteHeader
  <2>2. wpc = "header" /\ popped' = popped /\ rec' = rec
    BY <1>4 DEF WriteHeader, ringVars
  <2>3. /\ Len(file') = Len(file) + k
        /\ \A a \in 1 .. Len(file) : file'[a] = file[a]
        /\ \A a \in Len(file) + 1 .. Len(file') : file'[a] = <<rec, a - Len(file)>>
    BY <1>0, <2>1, HeaderWrites
  <2>4. L > 0 /\ rec = popped[L]
    BY <2>2 DEF CellInv, HeldRecord
  <2> DEFINE h == 0
  <2>5. h \in Nat /\ h = Reached
    BY <2>2 DEF Reached
  <2>6. ASSUME NEW a \in Len(file) + 1 .. Len(file')
        PROVE  file'[a] = <<rec, h + (a - Len(file))>>
    <3>1. h + (a - Len(file)) = a - Len(file)
      BY <1>0, <2>3
    <3> QED BY <2>3, <3>1
  <2>7. h + (Len(file') - Len(file)) <= Reached'
    <3>1. Reached' = HeaderCells \/ Reached' = RecordCells
      BY <2>1 DEF Reached
    <3>2. Len(file') - Len(file) = k
      BY <1>0, <2>3
    <3> QED BY <1>0, <3>1, <3>2
  <2>8. Len(file') \in Nat /\ Len(file) <= Len(file')
    BY <1>0, <2>3
  <2> HIDE DEF h
  <2>9. CellsPopped' /\ CellsOrdered'
    BY <1>0, <2>2, <2>3, <2>4, <2>5, <2>6, <2>7, <2>8, StretchInOrder
  <2>10. HeldRecord'
    BY <2>2, <2>4 DEF HeldRecord
  <2> QED BY <2>9, <2>10
<1>5. CASE WritePayload
  <2>1. PICK k \in HeaderCells .. RecordCells :
          file' = file \o Cells(rec, HeaderCells + 1, k)
    BY <1>5, WriterAssumption DEF WritePayload, WriteAllOk, WriteAllFails, RecordCells
  <2>2. wpc = "payload" /\ wpc' = "pop" /\ popped' = popped /\ rec' = rec
    BY <1>5 DEF WritePayload, ringVars
  <2>3. /\ Len(file') = Len(file) + (k - HeaderCells)
        /\ \A a \in 1 .. Len(file) : file'[a] = file[a]
        /\ \A a \in Len(file) + 1 .. Len(file') :
             file'[a] = <<rec, HeaderCells + (a - Len(file))>>
    BY <1>0, <2>1, PayloadWrites
  <2>4. L > 0 /\ rec = popped[L]
    BY <2>2 DEF CellInv, HeldRecord
  <2>5. HeaderCells = Reached /\ Reached' = RecordCells
    BY <2>2 DEF Reached
  <2>6. HeaderCells + (Len(file') - Len(file)) <= Reached'
    <3>1. Len(file') - Len(file) = k - HeaderCells
      BY <1>0, <2>3
    <3> QED BY <1>0, <2>5, <3>1
  <2>7. Len(file') \in Nat /\ Len(file) <= Len(file')
    BY <1>0, <2>3
  <2>8. CellsPopped' /\ CellsOrdered'
    BY <1>0, <2>2, <2>3, <2>4, <2>5, <2>6, <2>7, StretchInOrder
  <2> QED BY <2>2, <2>8 DEF HeldRecord
<1>6. CASE Crash
  <2>1. PICK n \in synced .. Len(file) : file' = SubSeq(file, 1, n)
    BY <1>6 DEF Crash
  <2>2. /\ n \in 0 .. Len(file) /\ Len(file') = n
        /\ \A a \in 1 .. n : file'[a] = file[a]
    BY <1>0, <2>1 DEF CellInv, WBase, WTypeOK
  <2>3. popped' = popped /\ rec' = rec /\ wpc' = wpc /\ Reached' = Reached
    BY <1>6 DEF Crash, ringVars, writerLocals, Reached
  <2>4. \A a \in PreambleCells + 1 .. n :
          a \in PreambleCells + 1 .. Len(file) /\ file'[a] = file[a]
    BY <1>0, <2>2
  <2>5. CellsPopped'
    BY <2>2, <2>3, <2>4 DEF CellInv, CellsPopped
  <2>6. CellsOrdered'
    BY <2>2, <2>3, <2>4 DEF CellInv, CellsOrdered
  <2> QED BY <2>3, <2>5, <2>6 DEF CellInv, HeldRecord
<1>7. CASE FileStutter
  <2>1. /\ file' = file /\ popped' = popped /\ Reached' = Reached
        /\ HeldRecord'
    BY <1>7 DEF FileStutter, Reached, CellInv, HeldRecord
  <2> QED BY <2>1 DEF CellInv, CellsPopped, CellsOrdered
<1> QED BY <1>1, <1>2, <1>3, <1>4, <1>5, <1>6, <1>7, FileSteps

\* The cells are in order, always.
LEMMA CellInvAlways == WSpec => []CellInv
<1>1. WInit => CellInv
  <2> SUFFICES ASSUME WInit PROVE CellInv
    OBVIOUS
  <2>1. PreambleCells + 1 .. Len(file) = {}
    BY WriterAssumption DEF WInit
  <2> QED BY <2>1, WBaseInit DEF WInit, CellInv, HeldRecord, CellsPopped, CellsOrdered
<1>2. CellInv /\ [WNext]_wvars => CellInv'
  BY WBaseNext, CellNext DEF CellInv
<1> QED BY <1>1, <1>2, PTL DEF WSpec

\* A stretch that is a whole record starts with that record's first cell.
LEMMA RecordStarts ==
  ASSUME file \in Seq(Cell), NEW n \in 1 .. ChunkCount, IsRecord(Chunk(n))
  PROVE  /\ Start(n - 1) + 1 \in PreambleCells + 1 .. Len(file)
         /\ Chunk(n)[1][1] = file[Start(n - 1) + 1][1]
         /\ file[Start(n - 1) + 1][2] = 1
<1>1. /\ Start(n - 1) \in Nat /\ Start(n - 1) >= PreambleCells
      /\ Start(n) = Start(n - 1) + RecordCells
      /\ Start(n) <= Len(file) /\ Len(file) \in Nat
      /\ RecordCells \in Nat \ {0}
      /\ \A k \in 1 .. RecordCells : Chunk(n)[k] = file[Start(n - 1) + k]
  BY ChunkCells
<1>2. Start(n - 1) + 1 \in PreambleCells + 1 .. Len(file)
  <2> DEFINE u == Start(n - 1)
            l == Len(file)
  <2>1. /\ u \in Nat /\ u >= PreambleCells /\ u + RecordCells <= l /\ l \in Nat
        /\ PreambleCells \in Nat
    BY <1>1, WriterAssumption
  <2> HIDE DEF u, l
  <2>2. u + 1 \in PreambleCells + 1 .. l
    BY <1>1, <2>1
  <2> QED BY <2>2 DEF u, l
<1>3. 1 \in 1 .. RecordCells
  BY <1>1
<1>4. Chunk(n)[1] = file[Start(n - 1) + 1]
  BY <1>1, <1>3
<1>5. Chunk(n)[1] = <<Chunk(n)[1][1], 1>>
  <2>1. Chunk(n)[1] = Cells(Chunk(n)[1][1], 1, RecordCells)[1]
    BY DEF IsRecord
  <2>2. 1 \in 1 .. (RecordCells - 1 + 1) /\ 1 + 1 - 1 = 1
    BY <1>1
  <2> QED BY <2>1, <2>2 DEF Cells
<1>6. Chunk(n)[1][2] = 1
  BY <1>5
<1> QED BY <1>2, <1>4, <1>6

(***************************************************************************)
(* Whatever of open(), write() and fsync() fails: as far as the reader's   *)
(* cuts are whole records, they are records that TryPop returned, each     *)
(* once and in that order.                                                 *)
(***************************************************************************)
THEOREM IntactPrefix == WSpec => []IntactPrefixInOrder
<1>1. ASSUME CellInv, Queue!DeliveredOnce PROVE IntactPrefixInOrder
  <2>0. /\ file \in Seq(Cell) /\ DOMAIN popped = 1 .. Len(popped) /\ Len(popped) \in Nat
        /\ ChunkCount \in Nat
    <3>1. popped \in Seq(Nat) /\ file \in Seq(Cell)
      BY <1>1 DEF CellInv, WBase, RInv, WTypeOK, RingTypeOK, Cell
    <3>2. Len(file) \in Nat
      BY <3>1, LenProperties
    <3> QED BY <3>1, <3>2, LenProperties, WholeRecordsMeaning, 1 \in Nat \ {0} DEF ChunkCount
  <2> SUFFICES ASSUME NEW n \in 1 .. ChunkCount, \A m \in 1 .. n : IsRecord(Chunk(m))
               PROVE  \E i \in DOMAIN popped :
                        /\ Chunk(n)[1][1] = popped[i]
                        /\ \A m \in 1 .. n - 1 :
                             \E j \in 1 .. i - 1 : Chunk(m)[1][1] = popped[j]
    BY DEF IntactPrefixInOrder
  <2> DEFINE at(m) == Start(m - 1) + 1
  <2>1. ASSUME NEW m \in 1 .. n
        PROVE  /\ m \in 1 .. ChunkCount
               /\ at(m) \in PreambleCells + 1 .. Len(file)
               /\ Chunk(m)[1][1] = file[at(m)][1] /\ file[at(m)][2] = 1
    <3>1. m \in 1 .. ChunkCount
      BY <2>0
    <3> QED BY <2>0, <3>1, RecordStarts
  <2>2. ASSUME NEW m \in 1 .. n - 1 PROVE at(m) < at(n)
    <3>1. m \in 0 .. n - 1 /\ n - 1 \in Nat /\ m - 1 \in Nat /\ m - 1 + 1 = m
      BY <2>0
    <3>2. /\ Start(m) <= Start(n - 1) /\ Start(n - 1) \in Nat /\ Start(m - 1) \in Nat
          /\ Start(m) = Start(m - 1) + RecordCells /\ RecordCells \in Nat \ {0}
      <4>1. RecordCells \in Nat \ {0}
        BY WriterAssumption DEF RecordCells
      <4>2. Start(m) <= Start(n - 1) /\ Start(n - 1) \in Nat
        BY <3>1, StartProperties
      <4>3. Start(m - 1) \in Nat /\ Start((m - 1) + 1) = Start(m - 1) + RecordCells
        BY <3>1, StartProperties
      <4> QED BY <3>1, <4>1, <4>2, <4>3
    <3> DEFINE u == Start(m - 1)
              v == Start(n - 1)
    <3>3. u \in Nat /\ v \in Nat /\ u + RecordCells <= v /\ RecordCells \in Nat \ {0}
      BY <3>2
    <3> HIDE DEF u, v
    <3>4. u + 1 < v + 1
      BY <3>3
    <3> QED BY <3>4 DEF u, v
  <2>3. n \in 1 .. n
    BY <2>0
  <2> HIDE DEF at
  <2>4. PICK i \in 1 .. Len(popped) : file[at(n)][1] = popped[i]
    BY <1>1, <2>1, <2>3 DEF CellInv, CellsPopped
  <2>5. ASSUME NEW m \in 1 .. n - 1
        PROVE  \E j \in 1 .. i - 1 : Chunk(m)[1][1] = popped[j]
    <3>1. m \in 1 .. n
      BY <2>0
    <3>2. PICK j, k \in 1 .. Len(popped) :
            /\ file[at(m)][1] = popped[j] /\ file[at(n)][1] = popped[k]
            /\ j < k \/ (j = k /\ file[at(m)][2] < file[at(n)][2])
      BY <1>1, <2>1, <2>2, <2>3, <3>1 DEF CellInv, CellsOrdered
    <3>3. j < k
      BY <2>1, <2>3, <3>1, <3>2
    <3>4. k = i
      BY <1>1, <2>0, <2>4, <3>2 DEF Queue!DeliveredOnce
    <3>5. j \in 1 .. i - 1
      BY <2>0, <3>3, <3>4
    <3> QED BY <2>1, <3>1, <3>2, <3>5
  <2> QED BY <2>0, <2>1, <2>3, <2>4, <2>5
<1>2. CellInv /\ Queue!DeliveredOnce => IntactPrefixInOrder
  BY <1>1
<1> QED BY <1>2, CellInvAlways, WriterUsesRing, RingPopsOnce, PTL

-----------------------------------------------------------------------------
(***************************************************************************)
(* The writer implements Recording when no system call fails.              *)
(***************************************************************************)
Stage == IF crashed THEN "crashed"
         ELSE CASE owner = "setup" -> "idle"
                [] owner = "running" -> "open"
                [] owner \in {"joining", "joined"} -> "closing"
                [] OTHER -> "closed"

LogInv == WindowInv /\ FileInv /\ OwedInv

\* How many whole records a file of a given length holds.
LEMMA WholeRecordsIs ==
  ASSUME NEW c \in Nat, NEW n \in Nat, n = 0 \/ Start(n) <= c, c < Start(n + 1)
  PROVE  WholeRecords(c) = n
<1> DEFINE w == WholeRecords(c)
<1>1. n + 1 \in Nat \ {0} /\ (n # 0 => n \in Nat \ {0})
  OBVIOUS
<1>2. w \in Nat /\ ~(n + 1 <= w)
  <2>1. Start(n + 1) \in Nat
    BY StartProperties, n + 1 \in Nat
  <2>2. w \in Nat /\ (n + 1 <= w <=> Start(n + 1) <= c)
    BY <1>1, WholeRecordsMeaning
  <2> QED BY <2>1, <2>2
<1>3. n # 0 => n <= w
  BY <1>1, WholeRecordsMeaning
<1> HIDE DEF w
<1>4. w = n
  BY <1>2, <1>3
<1> QED BY <1>4 DEF w

\* A longer file holds no fewer.
LEMMA WholeRecordsGrow ==
  ASSUME NEW c \in Nat, NEW d \in Nat, c <= d
  PROVE  WholeRecords(c) \in Nat /\ WholeRecords(d) \in Nat
         /\ WholeRecords(c) <= WholeRecords(d)
<1> DEFINE w == WholeRecords(c)
<1>1. w \in Nat /\ WholeRecords(d) \in Nat
  BY WholeRecordsMeaning, 1 \in Nat \ {0}
<1>2. CASE w = 0
  BY <1>1, <1>2
<1>3. CASE w # 0
  <2> HIDE DEF w
  <2>1. w \in Nat \ {0} /\ Start(w) \in Nat
    BY <1>1, <1>3, StartProperties
  <2>2. Start(w) <= c
    BY <1>1, <2>1, WholeRecordsMeaning DEF w
  <2>3. Start(w) <= d
    BY <2>1, <2>2
  <2>4. w <= WholeRecords(d)
    BY <2>1, <2>3, WholeRecordsMeaning
  <2> QED BY <1>1, <2>4 DEF w
<1> QED BY <1>2, <1>3

\* How many records the file holds when the writer is at each of its steps.
Written ==
  /\ Len(popped) \in Nat /\ Len(file) \in Nat /\ synced \in 0 .. Len(file)
  /\ wpc \notin {"header", "payload"} => WholeRecords(Len(file)) = Len(popped)
  /\ wpc \in {"header", "payload"} =>
       Len(popped) > 0 /\ WholeRecords(Len(file)) = Len(popped) - 1

\* All the records popped but the one being written.
LEMMA WrittenSoFar ==
  ASSUME FileInv, ~crashed
  PROVE  Written
<1> USE DEF Written
<1> DEFINE L == Len(popped)
          l == Len(file)
<1>0. /\ popped \in Seq(Nat) /\ file \in Seq(Cell) /\ l \in Nat /\ L \in Nat
      /\ synced \in 0 .. l
  BY LenProperties DEF FileInv, WBase, WTypeOK, RingTypeOK, Cell
<1>1. /\ HeaderCells \in Nat \ {0} /\ RecordCells \in Nat \ {0} /\ HeaderCells < RecordCells
      /\ PreambleCells \in Nat \ {0}
  BY WriterAssumption DEF RecordCells
<1>2. /\ Start(L) \in Nat /\ Start(L + 1) = Start(L) + RecordCells
      /\ Start(0) = PreambleCells /\ L + 1 \in Nat
  BY <1>0, StartProperties
<1>3. CASE wpc = "none"
  <2>1. popped = <<>> /\ file = <<>>
    BY <1>3 DEF FileInv, FileLength, WBase, Control
  <2>2. L = 0 /\ l = 0
    BY <2>1
  <2>3. l < Start(L + 1)
    BY <1>1, <1>2, <2>2
  <2>4. WholeRecords(l) = L
    BY <1>0, <2>2, <2>3, WholeRecordsIs
  <2> QED BY <1>0, <1>3, <2>4
<1>4. CASE wpc \in {"test", "pop", "flush", "exited"}
  <2>1. l = Start(L)
    BY <1>4 DEF FileInv, FileLength
  <2> HIDE DEF l
  <2>2. l < Start(L + 1) /\ Start(L) <= l
    BY <1>0, <1>1, <1>2, <2>1
  <2>3. WholeRecords(l) = L
    BY <1>0, <2>2, WholeRecordsIs
  <2> QED BY <1>0, <1>4, <2>3 DEF l
<1>5. CASE wpc \in {"header", "payload"}
  <2>1. L > 0
    BY <1>5 DEF FileInv, FileLength
  <2> DEFINE s == Start(L - 1)
            n == L - 1
  <2>2. l = s \/ l = s + HeaderCells
    BY <1>5 DEF FileInv, FileLength
  <2>3. n \in Nat /\ n + 1 = L
    BY <1>0, <2>1
  <2>4. s \in Nat /\ Start(n + 1) = s + RecordCells
    BY <2>3, StartProperties
  <2> HIDE DEF s, l
  <2>5. s <= l /\ l < s + RecordCells
    BY <1>1, <2>2, <2>4
  <2>6. Start(n) <= l /\ l < Start(n + 1)
    BY <2>4, <2>5 DEF s
  <2>7. WholeRecords(l) = n
    <3> HIDE DEF n
    <3> QED BY <1>0, <2>3, <2>6, WholeRecordsIs
  <2> QED BY <1>0, <1>5, <2>1, <2>7 DEF l
<1> QED BY <1>3, <1>4, <1>5 DEF FileInv, WBase, WTypeOK

\* The same after a step.
LEMMA WrittenAfter == FileInv' /\ ~crashed' => Written'
<1>1. FileInv /\ ~crashed => Written
  BY WrittenSoFar
<1> QED BY <1>1, PTL

\* What the abstract stage is while the writer thread runs.
LEMMA WriterStage ==
  ASSUME WBase, ~crashed, wpc \notin {"none", "exited"}
  PROVE  Stage \in {"open", "closing"}
<1>1. owner = "running" \/ owner = "joining"
  BY DEF WBase, WTypeOK, Control
<1> QED BY <1>1 DEF Stage

\* What stays put in Recording when the writer leaves it alone.
LEMMA LogFrame ==
  /\ UNCHANGED ringVars => UNCHANGED Log!qvars /\ dropped_count_' = dropped_count_
  /\ UNCHANGED <<crashed, owner>> => Stage' = Stage
  /\ UNCHANGED <<Stage, WholeRecords(Len(file)), WholeRecords(synced), atClose>>
       <=> UNCHANGED Log!fileVars
<1>1. UNCHANGED ringVars => UNCHANGED Log!qvars /\ dropped_count_' = dropped_count_
  BY DEF ringVars, Log!qvars, InFlight, Waiting
<1>2. UNCHANGED <<crashed, owner>> => Stage' = Stage
  BY DEF Stage
<1>3. UNCHANGED <<Stage, WholeRecords(Len(file)), WholeRecords(synced), atClose>>
       <=> UNCHANGED Log!fileVars
  BY DEF Stage, Log!fileVars
<1> QED BY <1>1, <1>2, <1>3

\* A push is the same push in Recording.
LEMMA PushLogs ==
  ASSUME WindowInv, ~crashed, NEW p \in Producers, Callback(p)
  PROVE  Log!RecNext
<1>0. Stage # "crashed" /\ UNCHANGED Log!fileVars
  <2>1. UNCHANGED <<owner, file, synced, crashed, atClose>>
    BY DEF Callback, disk
  <2>2. Stage # "crashed"
    BY DEF Stage
  <2> QED BY <2>1, <2>2, LogFrame
<1>1. CASE Claim(p)
  <2>1. Queue!Offer /\ dropped_count_' = dropped_count_
    BY <1>1, ClaimOffers DEF Claim
  <2>2. Log!Offer
    BY <2>1 DEF Queue!Offer, Log!Offer
  <2>3. Log!PushBegins
    BY <1>0, <2>1, <2>2 DEF Log!PushBegins, Stage
  <2> QED BY <2>3 DEF Log!RecNext
<1>2. CASE Publish(p)
  <2>1. PICK i \in Pending : Queue!Accept(i)
    BY <1>2, PublishAccepts
  <2>2. Log!Accept(i)
    <3>1. Queue!Cardinality(Waiting) = Log!Cardinality(Waiting)
      BY DEF Queue!Cardinality, Log!Cardinality
    <3> QED BY <2>1, <3>1 DEF Queue!Accept, Log!Accept
  <2>3. Log!PushAccepted(i)
    BY <1>0, <1>2, <2>2 DEF Log!PushAccepted, Stage, Publish
  <2> QED BY <2>3 DEF Log!RecNext, Pending
<1>3. CASE Reject(p)
  <2>1. PICK i \in Pending : Queue!Refuse(i)
    BY <1>3, RejectRefuses
  <2>2. Log!Refuse(i)
    BY <2>1 DEF Queue!Refuse, Log!Refuse
  <2>3. Log!PushRefused(i)
    BY <1>0, <1>3, <2>2 DEF Log!PushRefused, Stage, Reject
  <2> QED BY <2>3 DEF Log!RecNext, Pending
<1> QED BY <1>1, <1>2, <1>3 DEF Callback, Push

\* Open begins a recording, Close asks for its end and ends it.
LEMMA OwnerLogs ==
  ASSUME Faults = {}, LogInv, OwnerStep
  PROVE  [Log!RecNext]_(Log!recvars)
<1>0. /\ FileInv /\ WBase /\ OwedInv /\ ~crashed
      /\ UNCHANGED Log!qvars /\ dropped_count_' = dropped_count_
  <2>1. ~crashed /\ UNCHANGED ringVars
    BY DEF OwnerStep, CloseEnds, Open, OpenFails, OpenWriteFails, CloseRequest, CloseJoin,
       CloseSync
  <2> QED BY <2>1, LogFrame DEF LogInv, FileInv
<1>1. CASE Open
  <2>1. file = <<>> /\ wpc = "none" /\ popped = <<>>
    BY <1>0, <1>1 DEF Open, WBase, Control
  <2>2. WholeRecords(Len(file)) = 0
    BY <1>0, <2>1, WrittenSoFar DEF Written
  <2>3. WholeRecords(Len(file')) = 0
    <3>1. Len(file') = PreambleCells
      BY <1>1, <2>1, OpenWrites
    <3>2. /\ PreambleCells \in Nat /\ RecordCells \in Nat \ {0}
          /\ Start(0) = PreambleCells /\ Start(0 + 1) = Start(0) + RecordCells
      BY StartProperties, WriterAssumption DEF RecordCells
    <3>3. PreambleCells < Start(0 + 1)
      BY <3>2
    <3>4. WholeRecords(PreambleCells) = 0
      BY <3>2, <3>3, WholeRecordsIs, 0 \in Nat
    <3> QED BY <3>1, <3>4
  <2>4. Stage = "idle" /\ Stage' = "open"
    BY <1>0, <1>1 DEF Open, Stage
  <2>5. UNCHANGED <<WholeRecords(Len(file)), WholeRecords(synced), atClose>>
    BY <1>1, <2>2, <2>3 DEF Open
  <2>6. Log!Begin
    BY <1>0, <2>4, <2>5 DEF Log!Begin, Stage
  <2> QED BY <2>6 DEF Log!RecNext
<1>2. CASE CloseRequest
  <2>1. Stage = "open" /\ Stage' = "closing"
    BY <1>0, <1>2 DEF CloseRequest, Stage
  <2>2. UNCHANGED <<WholeRecords(Len(file)), WholeRecords(synced)>>
    BY <1>2 DEF CloseRequest, disk
  <2>3. atClose' = {i \in Waiting \cup {popped[k] : k \in DOMAIN popped} :
                      \A j \in {claim[p] : p \in InFlight} : i < j}
    BY <1>2 DEF CloseRequest
  <2>4. Log!RequestEnd
    BY <1>0, <2>1, <2>2, <2>3 DEF Log!RequestEnd, Stage
  <2> QED BY <2>4 DEF Log!RecNext
<1>3. CASE CloseJoin
  <2>1. Stage' = Stage
    BY <1>0, <1>3 DEF CloseJoin, Stage
  <2>2. UNCHANGED <<WholeRecords(Len(file)), WholeRecords(synced), atClose>>
    BY <1>3 DEF CloseJoin, disk
  <2>3. UNCHANGED Log!fileVars
    BY <2>1, <2>2, LogFrame
  <2> QED BY <1>0, <2>3 DEF Log!recvars
<1>4. CASE CloseSync
  <2>1. Stage = "closing" /\ Stage' = "closed"
    BY <1>0, <1>4 DEF CloseSync, Stage
  <2>2. wpc \in {"none", "exited"}
    BY <1>0, <1>4 DEF CloseSync, WBase, Control
  <2>3. WholeRecords(Len(file)) = Len(popped)
    BY <1>0, <2>2, WrittenSoFar DEF Written
  <2>4. dropped_count_ = 0 => atClose \subseteq {popped[k] : k \in DOMAIN popped}
    <3> SUFFICES ASSUME dropped_count_ = 0, NEW r \in atClose
                 PROVE  \E k \in DOMAIN popped : r = popped[k]
      OBVIOUS
    <3>1. r + 1 \in 1 .. Len(popped) /\ popped[r + 1] = r
      BY <1>0, <2>2, OwedWhenExited
    <3>2. DOMAIN popped = 1 .. Len(popped)
      BY <1>0, LenProperties DEF WBase, RInv, RingTypeOK
    <3> QED BY <3>1, <3>2
  <2>5. /\ WholeRecords(synced') = WholeRecords(Len(file))
        /\ UNCHANGED <<WholeRecords(Len(file)), atClose>>
    BY <1>4 DEF CloseSync, Fsync
  <2>6. Log!End
    BY <1>0, <2>1, <2>3, <2>4, <2>5 DEF Log!End, Stage
  <2> QED BY <2>6 DEF Log!RecNext
<1>5. ~OpenFails /\ ~OpenWriteFails
  BY DEF OpenFails, OpenWriteFails, WriteAllFails
<1> QED BY <1>1, <1>2, <1>3, <1>4, <1>5 DEF OwnerStep, CloseEnds

\* The writer thread takes, writes and syncs.
LEMMA WriterLogs ==
  ASSUME Faults = {}, LogInv, LogInv', WriterStep
  PROVE  [Log!RecNext]_(Log!recvars)
<1>0. /\ FileInv /\ WBase /\ ~crashed /\ FileInv' /\ ~crashed'
      /\ UNCHANGED <<crashed, owner, atClose>> /\ Stage' = Stage
  <2>1. ~crashed /\ UNCHANGED <<crashed, owner, atClose>>
    BY DEF WriterStep, TestShutdown, PopRecord, PopNothing, WriteHeader, WritePayload,
       FlushSkipped, FlushNow
  <2> QED BY <2>1, LogFrame DEF LogInv, FileInv
<1>1. CASE PopRecord
  <2>1. Stage \in {"open", "closing"} /\ WholeRecords(Len(file)) = Len(popped)
    BY <1>0, <1>1, WriterStage, WrittenSoFar DEF PopRecord, Written
  <2>2. UNCHANGED Log!fileVars /\ dropped_count_' = dropped_count_
    BY <1>0, <1>1, LogFrame DEF PopRecord, Pop, disk
  <2>3. PICK i \in Waiting : Queue!Deliver(i)
    BY <1>1, PopDelivers DEF PopRecord, LogInv
  <2>4. Log!Deliver(i)
    BY <2>3 DEF Queue!Deliver, Log!Deliver
  <2>5. Log!Take(i)
    BY <2>1, <2>2, <2>4 DEF Log!Take, Log!WriterActive, Stage
  <2> QED BY <2>5 DEF Log!RecNext
<1>2. CASE TestShutdown \/ PopNothing \/ FlushSkipped
  <2>1. UNCHANGED ringVars /\ UNCHANGED <<file, synced>>
    BY <1>2 DEF TestShutdown, PopNothing, FlushSkipped, disk
  <2>2. UNCHANGED Log!recvars
    BY <1>0, <2>1, LogFrame DEF Log!recvars
  <2> QED BY <2>2
<1>3. CASE WriteHeader
  <2>1. wpc = "header" /\ wpc' = "payload" /\ UNCHANGED ringVars /\ UNCHANGED synced
    BY <1>3 DEF WriteHeader, WriteAllFails
  <2>2. WholeRecords(Len(file)) = Len(popped) - 1
    BY <1>0, <2>1, WrittenSoFar DEF Written
  <2>3. WholeRecords(Len(file))' = Len(popped)' - 1
    BY <1>0, <2>1, WrittenAfter DEF Written
  <2>4. UNCHANGED WholeRecords(Len(file))
    BY <2>1, <2>2, <2>3 DEF ringVars
  <2>5. UNCHANGED Log!recvars
    BY <1>0, <2>1, <2>4, LogFrame DEF Log!recvars
  <2> QED BY <2>5
<1>4. CASE WritePayload
  <2>1. wpc = "payload" /\ wpc' = "pop" /\ UNCHANGED ringVars /\ UNCHANGED synced
    BY <1>4 DEF WritePayload
  <2>2. /\ WholeRecords(Len(file)) = Len(popped) - 1 /\ Len(popped) \in Nat
        /\ Stage \in {"open", "closing"}
    BY <1>0, <2>1, WrittenSoFar, WriterStage DEF Written
  <2>3. WholeRecords(Len(file))' = Len(popped)'
    BY <1>0, <2>1, WrittenAfter DEF Written
  <2>4. popped' = popped
    BY <2>1 DEF ringVars
  <2>5. /\ WholeRecords(Len(file)) < Len(popped)
        /\ WholeRecords(Len(file))' = WholeRecords(Len(file)) + 1
    BY <2>2, <2>3, <2>4
  <2>6. UNCHANGED Log!qvars /\ dropped_count_' = dropped_count_
    BY <2>1, LogFrame
  <2>7. Log!Write
    BY <1>0, <2>1, <2>2, <2>5, <2>6 DEF Log!Write, Log!WriterActive, Stage
  <2> QED BY <2>7 DEF Log!RecNext
<1>5. CASE FlushNow
  <2>1. wpc = "flush" /\ UNCHANGED ringVars /\ synced' = Len(file) /\ file' = file
    BY <1>5 DEF FlushNow, Fsync
  <2>2. Stage \in {"open", "closing"}
    BY <1>0, <2>1, WriterStage
  <2>3. UNCHANGED Log!qvars /\ dropped_count_' = dropped_count_
    BY <2>1, LogFrame
  <2>4. Log!Sync
    BY <1>0, <2>1, <2>2, <2>3 DEF Log!Sync, Log!WriterActive, Stage
  <2> QED BY <2>4 DEF Log!RecNext
<1> QED BY <1>1, <1>2, <1>3, <1>4, <1>5 DEF WriterStep

\* A crash cuts the recording above what was synced.
LEMMA CrashLogs ==
  ASSUME LogInv, Crash
  PROVE  Log!RecNext
<1>1. PICK n \in synced .. Len(file) : file' = SubSeq(file, 1, n)
  BY DEF Crash
<1>2. /\ file \in Seq(Cell) /\ Len(file) \in Nat /\ synced \in 0 .. Len(file)
      /\ UNCHANGED ringVars /\ UNCHANGED <<synced, atClose>>
  BY LenProperties DEF LogInv, FileInv, WBase, WTypeOK, Cell, Crash
<1>3. n \in Nat /\ synced \in Nat /\ synced <= n /\ n <= Len(file)
  BY <1>2
<1>4. Len(file') = n
  BY <1>1, <1>2, <1>3
<1>5. WholeRecords(Len(file')) \in WholeRecords(synced) .. WholeRecords(Len(file))
  <2>1. /\ WholeRecords(synced) \in Nat /\ WholeRecords(n) \in Nat
        /\ WholeRecords(synced) <= WholeRecords(n)
    BY <1>3, WholeRecordsGrow
  <2>2. WholeRecords(Len(file)) \in Nat /\ WholeRecords(n) <= WholeRecords(Len(file))
    BY <1>2, <1>3, WholeRecordsGrow
  <2>3. WholeRecords(n) \in WholeRecords(synced) .. WholeRecords(Len(file))
    BY <2>1, <2>2
  <2> QED BY <1>4, <2>3
<1>6. Stage # "crashed" /\ Stage' = "crashed"
  BY DEF Crash, Stage
<1>7. UNCHANGED Log!qvars /\ dropped_count_' = dropped_count_
  BY <1>2, LogFrame
<1>8. Log!Crash
  BY <1>2, <1>5, <1>6, <1>7 DEF Log!Crash, Stage
<1> QED BY <1>8 DEF Log!RecNext

(***************************************************************************)
(* RecordWriter implements Recording when no system call fails: the whole  *)
(* records in the file are an append-only log of what TryPop returned, of  *)
(* which a crash cuts only what was not synced, and which Close ends       *)
(* complete, as far as nothing was dropped, and durable.                   *)
(***************************************************************************)
THEOREM WriterIsRecording == Faults = {} => (WSpec => ImplementsRecording)
<1> SUFFICES ASSUME Faults = {} PROVE WSpec => ImplementsRecording
  OBVIOUS
<1>1. WInit => Log!RecInit
  <2> SUFFICES ASSUME WInit PROVE Log!RecInit
    OBVIOUS
  <2>1. Len(file) = 0 /\ synced = 0
    BY DEF WInit
  <2>2. WholeRecords(0) = 0
    BY WriterAssumption DEF WholeRecords
  <2>3. Queue!QInit
    BY InitImplementsQueue DEF WInit
  <2>4. Log!QInit
    BY <2>3 DEF Queue!QInit, Log!QInit
  <2> QED BY <2>1, <2>2, <2>4 DEF WInit, RingInit, Log!RecInit
<1>2. ASSUME LogInv, LogInv', [WNext]_wvars PROVE [Log!RecNext]_(Log!recvars)
  <2>1. CASE \E p \in Producers : ~crashed /\ Callback(p)
    BY <1>2, <2>1, PushLogs DEF LogInv
  <2>2. CASE IntervalElapses \/ UNCHANGED wvars
    <3>1. UNCHANGED ringVars /\ UNCHANGED <<crashed, owner, file, synced, atClose>>
      BY <2>2 DEF IntervalElapses, wvars, disk
    <3> QED BY <3>1, LogFrame DEF Log!recvars
  <2> QED BY <1>2, <2>1, <2>2, OwnerLogs, WriterLogs, CrashLogs DEF WNext
<1>3. LogInv /\ LogInv' /\ [WNext]_wvars => [Log!RecNext]_(Log!recvars)
  BY <1>2
<1>4. WSpec => []LogInv
  <2>1. RingSpec => []WindowInv
    BY WindowInit, WindowNext, PTL DEF RingSpec
  <2>2. WSpec => []WindowInv
    BY <2>1, WriterUsesRing, PTL
  <2>3. WSpec => []FileInv
    BY FileInvAlways
  <2> QED BY <2>2, <2>3, OwedInvAlways, PTL DEF LogInv
<1> QED BY <1>1, <1>3, <1>4, PTL DEF WSpec, ImplementsRecording, Log!RecSpec

-----------------------------------------------------------------------------
(***************************************************************************)
(* Progress.  The writer thread does not come back from the final drain to *)
(* its main loop.                                                          *)
(***************************************************************************)
NoWayBack == wpc = "test" => ~draining

\* It is kept by every step.
LEMMA NoWayBackNext == WBase /\ NoWayBack /\ [WNext]_wvars => NoWayBack'
<1> SUFFICES ASSUME WBase, NoWayBack, [WNext]_wvars PROVE NoWayBack'
  OBVIOUS
<1>0. draining \in BOOLEAN
  BY DEF WBase, WTypeOK
<1>1. CASE Open
  <2>1. draining' = draining /\ ~draining
    BY <1>1 DEF Open, WBase, Control
  <2> QED BY <2>1 DEF NoWayBack
<1>2. CASE TestShutdown \/ PopRecord \/ WriteHeader \/ WritePayload
  <2>1. wpc' # "test"
    BY <1>2 DEF TestShutdown, PopRecord, WriteHeader, WritePayload
  <2> QED BY <2>1 DEF NoWayBack
<1>3. CASE PopNothing
  BY <1>0, <1>3 DEF PopNothing, NoWayBack
<1>4. CASE FlushSkipped \/ FlushNow
  BY <1>0, <1>4 DEF FlushSkipped, FlushNow, AfterFlush, NoWayBack
<1>5. CASE UNCHANGED <<wpc, draining>>
  BY <1>5 DEF NoWayBack
<1>6. OwnerStep => Open \/ UNCHANGED <<wpc, draining>>
  BY DEF OwnerStep, CloseEnds, OpenFails, OpenWriteFails, CloseRequest, CloseJoin,
     CloseSync, writerLocals
<1>7. ASSUME \/ \E p \in Producers : Callback(p)
             \/ IntervalElapses \/ Crash \/ UNCHANGED wvars
      PROVE  UNCHANGED <<wpc, draining>>
  BY <1>7 DEF Callback, IntervalElapses, Crash, wvars, writerLocals
<1> QED BY <1>1, <1>2, <1>3, <1>4, <1>5, <1>6, <1>7 DEF WNext, WriterStep

\* Where the writer thread is, and whether it has left the main loop.
PlaceOf(at) ==
  CASE at = "header" -> -2 [] at = "payload" -> -1 [] at = "flush" -> 1
    [] at \in {"test", "exited"} -> 2 [] OTHER -> 0

Final(d) == IF d THEN 3 ELSE 0

\* The parts of DrainWork.
LEMMA DrainParts ==
  /\ PlaceOf("header") = -2 /\ PlaceOf("payload") = -1 /\ PlaceOf("pop") = 0
  /\ PlaceOf("flush") = 1 /\ PlaceOf("test") = 2 /\ PlaceOf("exited") = 2
  /\ PlaceOf("none") = 0
  /\ Final(FALSE) = 0 /\ Final(TRUE) = 3
  /\ DrainWork = 3 * Len(popped) + Final(draining) + PlaceOf(wpc)
  /\ DrainWork' = 3 * Len(popped') + Final(draining') + PlaceOf(wpc')
<1>1. /\ PlaceOf("header") = -2 /\ PlaceOf("payload") = -1 /\ PlaceOf("pop") = 0
      /\ PlaceOf("flush") = 1 /\ PlaceOf("test") = 2 /\ PlaceOf("exited") = 2
      /\ PlaceOf("none") = 0
  BY DEF PlaceOf
<1>2. Final(FALSE) = 0 /\ Final(TRUE) = 3
  BY DEF Final
<1>3. DrainWork = 3 * Len(popped) + Final(draining) + PlaceOf(wpc)
  BY DEF PlaceOf, Final, DrainWork
<1>4. DrainWork' = 3 * Len(popped') + Final(draining') + PlaceOf(wpc')
  BY DEF PlaceOf, Final, DrainWork
<1> QED BY <1>1, <1>2, <1>3, <1>4

\* What a step of the writer thread does to them.
LEMMA WriterMoves ==
  ASSUME WBase, NoWayBack, shutdown_, WriterStep
  PROVE  \/ /\ Len(popped') = Len(popped) + 1 /\ draining' = draining
            /\ wpc = "pop" /\ wpc' = "header"
         \/ /\ popped' = popped /\ draining' = draining
            /\ \/ wpc = "header" /\ wpc' \in {"payload", "pop"}
               \/ wpc = "payload" /\ wpc' = "pop"
               \/ wpc = "pop" /\ wpc' \in {"flush", "test"}
               \/ wpc = "flush" /\ wpc' \in {"exited", "test"}
         \/ /\ popped' = popped /\ draining = FALSE /\ draining' = TRUE
            /\ wpc = "test" /\ wpc' = "pop"
<1>0. draining \in BOOLEAN /\ shutdown_ \in BOOLEAN
  BY DEF WBase, WTypeOK
<1>1. CASE TestShutdown
  BY <1>0, <1>1 DEF TestShutdown, NoWayBack, ringVars
<1>2. CASE PopRecord
  BY <1>2, PopRecordAppends DEF PopRecord
<1>3. CASE PopNothing
  BY <1>3 DEF PopNothing, ringVars
<1>4. CASE WriteHeader \/ WritePayload
  BY <1>4 DEF WriteHeader, WritePayload, ringVars
<1>5. CASE FlushSkipped \/ FlushNow
  BY <1>5 DEF FlushSkipped, FlushNow, AfterFlush, ringVars
<1> QED BY <1>1, <1>2, <1>3, <1>4, <1>5 DEF WriterStep

\* Each of these is forward.
LEMMA StepDrains ==
  ASSUME WBase, NoWayBack, shutdown_, WriterStep
  PROVE  DrainWork < DrainWork'
<1>0. Len(popped) \in Nat /\ Final(draining) \in Int
  <2>1. popped \in Seq(Nat) /\ draining \in BOOLEAN
    BY DEF WBase, WTypeOK, RingTypeOK
  <2>2. Len(popped) \in Nat
    BY <2>1, LenProperties
  <2>3. Final(draining) \in Int
    BY <2>1 DEF Final
  <2> QED BY <2>2, <2>3
<1>1. \A n, m, f, g, a, b \in Int :
         \/ m = n + 1 /\ f = g /\ a = 0 /\ b = -2
         \/ m = n /\ f = g /\ a < b
         \/ m = n /\ f = 0 /\ g = 3 /\ a = 2 /\ b = 0
         => 3 * n + f + a < 3 * m + g + b
  OBVIOUS
<1> DEFINE n == Len(popped)
          m == Len(popped')
          f == Final(draining)
          g == Final(draining')
          a == PlaceOf(wpc)
          b == PlaceOf(wpc')
<1>2. /\ \/ m = n + 1 /\ f = g /\ a = 0 /\ b = -2
         \/ m = n /\ f = g /\ a < b
         \/ m = n /\ f = 0 /\ g = 3 /\ a = 2 /\ b = 0
      /\ a \in Int /\ b \in Int
  <2>1. CASE popped' = popped /\ draining = FALSE /\ draining' = TRUE
             /\ wpc = "test" /\ wpc' = "pop"
    <3>0. m = n
      BY <2>1
    <3>1. /\ f = Final(FALSE) /\ g = Final(TRUE)
          /\ a = PlaceOf("test") /\ b = PlaceOf("pop")
      BY <2>1
    <3>2. /\ Final(FALSE) = 0 /\ Final(TRUE) = 3
          /\ PlaceOf("test") = 2 /\ PlaceOf("pop") = 0
      BY DrainParts
    <3> HIDE DEF n, m, f, g, a, b
    <3>3. f = 0 /\ g = 3 /\ a = 2 /\ b = 0
      BY <3>1, <3>2, Zenon
    <3> QED BY <3>0, <3>3
  <2>2. CASE Len(popped') = Len(popped) + 1 /\ draining' = draining
             /\ wpc = "pop" /\ wpc' = "header"
    BY <2>2, DrainParts
  <2>3. CASE /\ popped' = popped /\ draining' = draining
             /\ \/ wpc = "header" /\ wpc' \in {"payload", "pop"}
                \/ wpc = "payload" /\ wpc' = "pop"
                \/ wpc = "pop" /\ wpc' \in {"flush", "test"}
                \/ wpc = "flush" /\ wpc' \in {"exited", "test"}
    <3>1. m = n /\ f = g
      BY <2>3
    <3>2. a < b /\ a \in Int /\ b \in Int
      <4>1. CASE wpc = "header"
        BY <2>3, <4>1, DrainParts
      <4>2. CASE wpc = "payload"
        BY <2>3, <4>2, DrainParts
      <4>3. CASE wpc = "pop"
        BY <2>3, <4>3, DrainParts
      <4>4. CASE wpc = "flush"
        BY <2>3, <4>4, DrainParts
      <4> QED BY <2>3, <4>1, <4>2, <4>3, <4>4
    <3> QED BY <3>1, <3>2
  <2> QED BY <2>1, <2>2, <2>3, WriterMoves
<1>3. n \in Int /\ m \in Int /\ f \in Int /\ g \in Int
  BY <1>0, <1>2
<1>4. DrainWork = 3 * n + f + a /\ DrainWork' = 3 * m + g + b
  BY DrainParts
<1> HIDE DEF n, m, f, g, a, b
<1> QED BY <1>1, <1>2, <1>3, <1>4

\* As far as the writer thread can come with the pushes there are.
DrainBound == DrainWork <= 3 * write_index_ + 5

\* It has taken no more records than were pushed.
LEMMA DrainBounded == WBase /\ BooksInv => DrainBound
<1> SUFFICES ASSUME WBase, BooksInv PROVE DrainWork <= 3 * write_index_ + 5
  BY DEF DrainBound
<1>1. /\ Len(popped) \in Nat /\ write_index_ \in Nat /\ dropped_count_ \in Nat
      /\ Cardinality(InFlight) \in Nat /\ Cardinality(Waiting) \in Nat
  BY LenProperties, WaitingSlots, FS_CardinalityType, RingAssumption
     DEF BooksInv, RInv, RingTypeOK
<1>2. Len(popped) <= write_index_
  BY <1>1 DEF BooksInv, EveryPushAccountedFor
<1>3. Final(draining) \in {0, 3} /\ PlaceOf(wpc) \in {-2, -1, 0, 1, 2}
  BY DrainParts DEF WBase, WTypeOK
<1> QED BY <1>1, <1>2, <1>3, DrainParts

(***************************************************************************)
(* Close cannot be held up by anything but new pushes, whatever calls      *)
(* fail: each step of the writer thread after shutdown_ brings it nearer   *)
(* its end, and the pushes made so far bound how far that can be.  With    *)
(* the threads scheduled (TLC) this is why Close returns.                  *)
(***************************************************************************)
THEOREM DrainCannotStall == WSpec => EachStepDrains
<1>1. RingSpec => []BooksInv
  BY BooksInit, BooksNext, PTL DEF RingSpec
<1>2. WInit => NoWayBack
  BY DEF WInit, NoWayBack
<1>3. WBase /\ NoWayBack /\ DrainBound' /\ [WNext]_wvars
        => [shutdown_ /\ WriterStep => /\ DrainWork < DrainWork'
                                      /\ DrainWork' <= 3 * write_index_ + 5]_wvars
  <2> SUFFICES ASSUME WBase, NoWayBack, DrainBound', shutdown_, WriterStep
               PROVE  DrainWork < DrainWork' /\ DrainWork' <= 3 * write_index_ + 5
    OBVIOUS
  <2>1. write_index_' = write_index_
    BY DEF WriterStep, TestShutdown, PopRecord, Pop, PopNothing, WriteHeader, WritePayload,
       FlushSkipped, FlushNow, ringVars
  <2> QED BY <2>1, StepDrains DEF DrainBound
<1> QED BY <1>1, <1>2, <1>3, NoWayBackNext, DrainBounded, WBaseAlways, WriterUsesRing, PTL
        DEF WSpec, EachStepDrains

=============================================================================
