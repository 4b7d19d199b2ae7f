---------------------------- MODULE RecordWriter ----------------------------
(***************************************************************************)
(* RecordWriter (record_writer.hpp, record_writer.cpp): the producers of   *)
(* SlotRing, the writer thread that drains the ring into the .bin file,    *)
(* the owner thread that calls Open and Close, the disk, and its failures. *)
(*                                                                         *)
(* The file is a sequence of cells <<r, k>>: cell k of the image of record *)
(* r.  A record's image is HeaderCells cells of RecordHeader followed by   *)
(* PayloadCells cells of payload; the FileHeader and the topic table are   *)
(* the Preamble.  Cells below `synced` have been fsynced; a power loss     *)
(* cuts the file anywhere above them, and a killed process is the case     *)
(* where nothing is cut.                                                   *)
(***************************************************************************)
EXTENDS SlotRing

CONSTANTS
  HeaderCells,   \* size of a RecordHeader image (kRecordHeaderWireSize)
  PayloadCells,  \* size of a payload image (wire_size of the topic)
  PreambleCells, \* size of FileHeader and topic table
  Faults         \* which calls may fail: a subset of {"open", "write", "fsync"}

ASSUME WriterAssumption ==
  /\ HeaderCells \in Nat \ {0}
  /\ PayloadCells \in Nat \ {0}
  /\ PreambleCells \in Nat \ {0}
  /\ Faults \subseteq {"open", "write", "fsync"}

VARIABLES
  owner,     \* "setup", "running", "joining", "joined" or "closed"
  wpc,       \* where the writer thread is in WriterThreadMain
  draining,  \* has the writer left the main loop?
  drained_any,
  rec,       \* the PoppedRecord the writer holds
  shutdown_,
  bin_fd_,   \* is the file open?
  file,
  synced,    \* number of cells known to be on disk
  pending_since_flush_,
  flush_due, \* have flush_interval_ milliseconds passed since last_flush_?
  crashed,
  atClose    \* history: accepted when Close was called, no older push under way

writerLocals == <<wpc, draining, drained_any, rec>>
disk == <<bin_fd_, file, synced>>
flushState == <<pending_since_flush_, flush_due>>
wvars == <<ringVars, owner, writerLocals, shutdown_, disk, flushState,
           crashed, atClose>>

RecordCells == HeaderCells + PayloadCells
PreambleName == -1
Cells(r, from, to) == [k \in 1 .. (to - from + 1) |-> <<r, from + k - 1>>]

WInit ==
  /\ RingInit
  /\ owner = "setup"
  /\ wpc = "none"
  /\ draining = FALSE
  /\ drained_any = FALSE
  /\ rec = Empty
  /\ shutdown_ = FALSE
  /\ bin_fd_ = FALSE
  /\ file = <<>>
  /\ synced = 0
  /\ pending_since_flush_ = 0
  /\ flush_due = FALSE
  /\ crashed = FALSE
  /\ atClose = {}

-----------------------------------------------------------------------------
(* The disk.                                                               *)

\* WriteAll of cells from .. to of r succeeds
WriteAllOk(r, from, to) == file' = file \o Cells(r, from, to)

\* write() fails after some of the cells, possibly none, were written
WriteAllFails(r, from, to) ==
  /\ "write" \in Faults
  /\ \E k \in from - 1 .. to - 1 : file' = file \o Cells(r, from, k)

\* fsync(); its result is ignored by every caller
Fsync ==
  \/ synced' = Len(file)
  \/ "fsync" \in Faults /\ UNCHANGED synced

-----------------------------------------------------------------------------
(* The owner: Open, Close, and the destructor's Close.                     *)

Open ==
  /\ owner = "setup"
  /\ owner' = "running"
  /\ bin_fd_' = TRUE
  /\ WriteAllOk(PreambleName, 1, PreambleCells)
  /\ flush_due' = FALSE
  /\ shutdown_' = FALSE
  /\ wpc' = "test"
  /\ UNCHANGED <<ringVars, draining, drained_any, rec, synced,
                 pending_since_flush_, crashed, atClose>>

\* open() fails; Open returns false and the destructor has nothing to do
OpenFails ==
  /\ owner = "setup"
  /\ "open" \in Faults
  /\ owner' = "closed"
  /\ UNCHANGED <<ringVars, writerLocals, shutdown_, disk, flushState,
                 crashed, atClose>>

\* WriteFileHeaderAndMetadata fails; the destructor syncs and closes
OpenWriteFails ==
  /\ owner = "setup"
  /\ owner' = "joined"
  /\ bin_fd_' = TRUE
  /\ WriteAllFails(PreambleName, 1, PreambleCells)
  /\ UNCHANGED <<ringVars, writerLocals, shutdown_, synced, flushState,
                 crashed, atClose>>

\* Close: the thread is joinable
CloseRequest ==
  /\ owner = "running"
  /\ owner' = "joining"
  /\ shutdown_' = TRUE
  /\ atClose' = {r \in Waiting \cup {popped[i] : i \in DOMAIN popped} :
                   \A p \in InFlight : r < claim[p]}
  /\ UNCHANGED <<ringVars, writerLocals, disk, flushState, crashed>>

\* A mutant: Close does not wait for the writer thread.
CloseDetach ==
  /\ owner = "joining"
  /\ owner' = "joined"
  /\ UNCHANGED <<ringVars, writerLocals, shutdown_, disk, flushState,
                 crashed, atClose>>

CloseJoin ==
  /\ owner = "joining"
  /\ wpc = "exited"
  /\ owner' = "joined"
  /\ UNCHANGED <<ringVars, writerLocals, shutdown_, disk, flushState,
                 crashed, atClose>>

\* A mutant: Close relies on the writer thread's last MaybeFlush.
CloseUnsynced ==
  /\ owner = "joined"
  /\ owner' = "closed"
  /\ bin_fd_' = FALSE
  /\ UNCHANGED <<ringVars, writerLocals, shutdown_, file, synced, flushState,
                 crashed, atClose>>

\* Close: the final fsync and close.  A second Close finds no joinable
\* thread and no open file, and does nothing.
CloseSync ==
  /\ owner = "joined"
  /\ owner' = "closed"
  /\ Fsync
  /\ bin_fd_' = FALSE
  /\ UNCHANGED <<ringVars, writerLocals, shutdown_, file, flushState,
                 crashed, atClose>>

-----------------------------------------------------------------------------
(* The writer thread: WriterThreadMain.                                    *)

\* A mutant: shutdown_ is never looked at again.
TestShutdownNever ==
  /\ wpc = "test"
  /\ wpc' = "pop"
  /\ draining' = FALSE
  /\ drained_any' = FALSE
  /\ UNCHANGED <<ringVars, owner, rec, shutdown_, disk, flushState,
                 crashed, atClose>>

\* A mutant: the writer thread leaves without the final drain.
TestShutdownNoDrain ==
  /\ wpc = "test"
  /\ wpc' = IF shutdown_ THEN "flush" ELSE "pop"
  /\ draining' = shutdown_
  /\ drained_any' = FALSE
  /\ UNCHANGED <<ringVars, owner, rec, shutdown_, disk, flushState,
                 crashed, atClose>>

\* while (!shutdown_): one more round, or leave for the final drain
TestShutdown ==
  /\ wpc = "test"
  /\ wpc' = "pop"
  /\ draining' = shutdown_
  /\ drained_any' = FALSE
  /\ UNCHANGED <<ringVars, owner, rec, shutdown_, disk, flushState,
                 crashed, atClose>>

\* A mutant: the record popped last is written again.
PopRecordStale ==
  /\ wpc = "pop"
  /\ Pop
  /\ rec' = IF rec = Empty THEN slots_[HeadSlot] ELSE rec
  /\ drained_any' = TRUE
  /\ wpc' = "header"
  /\ UNCHANGED <<owner, draining, shutdown_, disk, flushState, crashed, atClose>>

\* TryPop returned true
PopRecord ==
  /\ wpc = "pop"
  /\ Pop
  /\ rec' = slots_[HeadSlot]
  /\ drained_any' = TRUE
  /\ wpc' = "header"
  /\ UNCHANGED <<owner, draining, shutdown_, disk, flushState, crashed, atClose>>

\* TryPop returned false: flush after a batch or at the end, else sleep
PopNothing ==
  /\ wpc = "pop"
  /\ slots_[HeadSlot] = Empty
  /\ wpc' = IF draining \/ drained_any THEN "flush" ELSE "test"
  /\ UNCHANGED <<ringVars, owner, draining, drained_any, rec, shutdown_, disk,
                 flushState, crashed, atClose>>

\* WriteRecord: the header, then the payload.  A failed write abandons the
\* record where it is and the loop goes on; its result is ignored.  The early
\* return for a closed file is never taken: see WritesOnlyOpenFile.
WriteHeader ==
  /\ wpc = "header"
  /\ bin_fd_
  /\ \/ WriteAllOk(rec, 1, HeaderCells) /\ wpc' = "payload"
     \/ WriteAllFails(rec, 1, HeaderCells) /\ wpc' = "pop"
  /\ UNCHANGED <<ringVars, owner, draining, drained_any, rec, shutdown_,
                 bin_fd_, synced, flushState, crashed, atClose>>

\* A mutant: the record is not counted for the next flush.
WritePayloadUncounted ==
  /\ wpc = "payload"
  /\ WriteAllOk(rec, HeaderCells + 1, RecordCells)
  /\ wpc' = "pop"
  /\ UNCHANGED <<ringVars, owner, draining, drained_any, rec, shutdown_,
                 bin_fd_, synced, flushState, crashed, atClose>>

\* A mutant: one payload byte too few is written.
WritePayloadShort ==
  /\ wpc = "payload"
  /\ WriteAllOk(rec, HeaderCells + 1, RecordCells - 1)
  /\ pending_since_flush_' = pending_since_flush_ + 1
  /\ wpc' = "pop"
  /\ UNCHANGED <<ringVars, owner, draining, drained_any, rec, shutdown_,
                 bin_fd_, synced, flush_due, crashed, atClose>>

WritePayload ==
  /\ wpc = "payload"
  /\ \/ /\ WriteAllOk(rec, HeaderCells + 1, RecordCells)
        /\ pending_since_flush_' = pending_since_flush_ + 1
     \/ /\ WriteAllFails(rec, HeaderCells + 1, RecordCells)
        /\ UNCHANGED pending_since_flush_
  /\ wpc' = "pop"
  /\ UNCHANGED <<ringVars, owner, draining, drained_any, rec, shutdown_,
                 bin_fd_, synced, flush_due, crashed, atClose>>

AfterFlush == IF draining THEN "exited" ELSE "test"

\* MaybeFlush with nothing pending or too early
FlushSkipped ==
  /\ wpc = "flush"
  /\ pending_since_flush_ = 0 \/ ~flush_due
  /\ wpc' = AfterFlush
  /\ UNCHANGED <<ringVars, owner, draining, drained_any, rec, shutdown_, disk,
                 flushState, crashed, atClose>>

\* MaybeFlush that syncs
FlushNow ==
  /\ wpc = "flush"
  /\ pending_since_flush_ > 0 /\ flush_due
  /\ Fsync
  /\ pending_since_flush_' = 0
  /\ flush_due' = FALSE
  /\ wpc' = AfterFlush
  /\ UNCHANGED <<ringVars, owner, draining, drained_any, rec, shutdown_,
                 bin_fd_, file, crashed, atClose>>

WriterStep ==
  /\ ~crashed
  /\ \/ TestShutdown \/ PopRecord \/ PopNothing
     \/ WriteHeader \/ WritePayload \/ FlushSkipped \/ FlushNow

-----------------------------------------------------------------------------
(* The environment.                                                        *)

\* A subscriber callback pushes, before Open and after Close too: the
\* subscriptions outlive both.
Callback(p) ==
  /\ Push(p)
  /\ UNCHANGED <<owner, writerLocals, shutdown_, disk, flushState, crashed,
                 atClose>>

IntervalElapses ==
  /\ ~crashed
  /\ ~flush_due
  /\ wpc # "none"
  /\ flush_due' = TRUE
  /\ UNCHANGED <<ringVars, owner, writerLocals, shutdown_, disk,
                 pending_since_flush_, crashed, atClose>>

\* The process is killed or the machine loses power.
Crash ==
  /\ ~crashed
  /\ owner # "setup"
  /\ crashed' = TRUE
  /\ \E n \in synced .. Len(file) : file' = SubSeq(file, 1, n)
  /\ UNCHANGED <<ringVars, owner, writerLocals, shutdown_, bin_fd_, synced,
                 flushState, atClose>>

CloseEnds == ~crashed /\ (CloseJoin \/ CloseSync)

OwnerStep ==
  \/ ~crashed /\ (Open \/ OpenFails \/ OpenWriteFails \/ CloseRequest)
  \/ CloseEnds

WNext ==
  \/ OwnerStep
  \/ WriterStep
  \/ ~crashed /\ \E p \in Producers : Callback(p)
  \/ IntervalElapses
  \/ Crash

WSpec == WInit /\ [][WNext]_wvars

\* Scheduling: the operating system runs both threads and the clock advances.
\* Nothing is assumed of the subscriber callbacks.
WFairSpec ==
  /\ WSpec
  /\ WF_wvars(WriterStep)
  /\ WF_wvars(CloseEnds)
  /\ WF_wvars(IntervalElapses)

-----------------------------------------------------------------------------
WTypeOK ==
  /\ RingTypeOK
  /\ owner \in {"setup", "running", "joining", "joined", "closed"}
  /\ wpc \in {"none", "test", "pop", "header", "payload", "flush", "exited"}
  /\ draining \in BOOLEAN
  /\ drained_any \in BOOLEAN
  /\ rec \in Nat \cup {Empty}
  /\ shutdown_ \in BOOLEAN
  /\ bin_fd_ \in BOOLEAN
  /\ file \in Seq((Nat \cup {PreambleName}) \X Nat)
  /\ synced \in 0 .. Len(file)
  /\ pending_since_flush_ \in Nat
  /\ flush_due \in BOOLEAN
  /\ crashed \in BOOLEAN
  /\ atClose \in SUBSET Nat

\* How a sequential reader cuts the file: the n-th stretch of RecordCells
\* cells after the preamble.
WholeRecords(cells) ==
  IF cells < PreambleCells THEN 0 ELSE (cells - PreambleCells) \div RecordCells

ChunkCount == WholeRecords(Len(file))

Chunk(n) ==
  SubSeq(file, PreambleCells + (n - 1) * RecordCells + 1,
               PreambleCells + n * RecordCells)

IsRecord(chunk) == chunk = Cells(chunk[1][1], 1, RecordCells)

InFile(r) == \E n \in 1 .. ChunkCount : Chunk(n) = Cells(r, 1, RecordCells)

(***************************************************************************)
(* Whatever the reader will cut out of the file, now or after a crash, is  *)
(* a whole record, and the n-th one is the n-th that left the ring.  Holds *)
(* as long as write() does not fail.                                       *)
(***************************************************************************)
FileFollowsPops ==
  \A n \in 1 .. ChunkCount :
    /\ n \in DOMAIN popped
    /\ Chunk(n) = Cells(popped[n], 1, RecordCells)

(***************************************************************************)
(* Even when open(), write() and fsync() fail: as far as the reader's cuts *)
(* are whole records, they are records that left the ring, each once and   *)
(* in that order.  A failed write can damage only what follows it.         *)
(***************************************************************************)
IntactPrefixInOrder ==
  \A n \in 1 .. ChunkCount :
    (\A m \in 1 .. n : IsRecord(Chunk(m))) =>
      \E i \in DOMAIN popped :
        /\ Chunk(n)[1][1] = popped[i]
        /\ \A m \in 1 .. n - 1 : \E j \in 1 .. i - 1 : Chunk(m)[1][1] = popped[j]

(***************************************************************************)
(* "Invoked once per record, in original recorded order": what the reader  *)
(* cuts out of the file are the records that were written.                 *)
(***************************************************************************)
ChunksAreRecords == \A n \in 1 .. ChunkCount : IsRecord(Chunk(n))

(***************************************************************************)
(* After Close the whole file is on disk, although the writer thread's own *)
(* last MaybeFlush may have been skipped as too early.                     *)
(***************************************************************************)
SyncedWhenClosed == (owner = "closed" /\ ~crashed) => synced = Len(file)

(***************************************************************************)
(* pending_since_flush_ = 0 means what MaybeFlush takes it to mean: with   *)
(* no record half written, all records written so far are on disk.         *)
(***************************************************************************)
NothingPendingMeansDurable ==
  (pending_since_flush_ = 0 /\ wpc \notin {"none", "payload"} /\ ~crashed)
    => synced = Len(file) \/ Len(file) = PreambleCells

(***************************************************************************)
(* The writer thread never uses the descriptor after Close closed it.      *)
(***************************************************************************)
WritesOnlyOpenFile == wpc \in {"header", "payload"} => bin_fd_

(***************************************************************************)
(* As long as no push was ever rejected, Close leaves nothing behind: each *)
(* record accepted before Close was called, with no older push still       *)
(* under way, is in the file when Close returns.                           *)
(***************************************************************************)
DrainedIfNoDrop ==
  (owner = "closed" /\ dropped_count_ = 0 /\ ~crashed)
    => \A r \in atClose : InFile(r)

(***************************************************************************)
(* RecordWriter keeps the promise of Recording: the whole records in the   *)
(* file are an append-only log of what left the ring, of which a crash     *)
(* cuts only what was not synced, and which Close ends complete, as far as *)
(* nothing was dropped, and durable.                                       *)
(***************************************************************************)
Log == INSTANCE Recording WITH
  Window <- 2 * Capacity,
  MaxOffers <- MaxClaims,
  offered <- write_index_,
  pending <- {claim[p] : p \in InFlight},
  waiting <- Waiting,
  delivered <- popped,
  stage <- IF crashed THEN "crashed"
           ELSE CASE owner = "setup" -> "idle"
                  [] owner = "running" -> "open"
                  [] owner \in {"joining", "joined"} -> "closing"
                  [] OTHER -> "closed",
  written <- WholeRecords(Len(file)),
  durable <- WholeRecords(synced),
  refused <- dropped_count_,
  owed <- atClose

ImplementsRecording == Log!RecSpec

\* How far the writer thread has come towards its end
DrainWork ==
  3 * Len(popped) + (IF draining THEN 3 ELSE 0)
    + CASE wpc = "header" -> -2 [] wpc = "payload" -> -1 [] wpc = "flush" -> 1
        [] wpc \in {"test", "exited"} -> 2 [] OTHER -> 0

(***************************************************************************)
(* Once Close has set shutdown_, each step of the writer thread brings it  *)
(* nearer its end, also when writes fail, and only as many steps remain as *)
(* there are pushes: nothing but new pushes can hold up the join.          *)
(***************************************************************************)
EachStepDrains ==
  [][shutdown_ /\ WriterStep => /\ DrainWork < DrainWork'
                                /\ DrainWork' <= 3 * write_index_ + 5]_wvars

(***************************************************************************)
(* Close returns, however pushes interleave with the drain, provided they  *)
(* stop at some point.                                                     *)
(***************************************************************************)
CloseReturns == owner = "joining" ~> (owner = "closed" \/ crashed)

(***************************************************************************)
(* "Stops the writer thread (after draining whatever remains in the ring   *)
(* buffer)": the records accepted before Close are in the file after it.   *)
(***************************************************************************)
DrainsWhatRemains ==
  (owner = "closed" /\ ~crashed) => \A r \in atClose : InFile(r)

(***************************************************************************)
(* "fsync() periodically to bound how much data could be lost in a crash": *)
(* written records are eventually synced.                                  *)
(***************************************************************************)
PendingIsFlushed ==
  pending_since_flush_ > 0 ~> (pending_since_flush_ = 0 \/ owner = "closed" \/ crashed)

=============================================================================
