# ChronoCap: a TLA+ verification project

ChronoCap records pub/sub topics into one `.bin` file (`i2wRecorder`) and replays
such a file at its original timing (`i2wReplayer`).  This directory holds TLA+
models of its core, translated from the C++ source, the TLC configurations that
check them, and TLAPS proofs of the results that matter most.  File names below
are relative to the repository.

## 1. The system

```
 subscriber callbacks --TryPush--> MpscRingBuffer --TryPop--> writer thread
   (one per topic)                  4096 slots                 write / fsync
                                                                   |
 publishers <--DispatchOne-- RecordReader::Run <------mmap------ .bin file
```

| component | state it keeps | operations | properties that make it correct |
|---|---|---|---|
| `MpscRingBuffer` (`include/chrono_cap/mpsc_ring_buffer.hpp`) | `write_index_`, `read_index_`, `dropped_count_`, slots with a `ready` flag and plain fields | `TryPush` (many threads), `TryPop` (one thread) | no data race on a slot, whole records, each once, in order, every push accounted for |
| `RecordWriter` (`record_writer.hpp`, `src/core/record_writer.cpp`) | the ring, writer thread, `shutdown_`, `bin_fd_`, `pending_since_flush_`, `last_flush_` | `Open`, `Push`, `Close`, `WriterThreadMain`, `WriteRecord`, `MaybeFlush`, `WriteAll` | the file is whole records in ring order up to a cut; closed means drained and synced; `Close` returns |
| wire format and payload codec (`wire_format.hpp`, `payload_codec.hpp`) | none | encode/decode, `Serialize`/`Deserialize` | what is read is what was written; fixed sizes; one byte order |
| `RecordReader` (`record_reader.hpp`, `src/core/record_reader.cpp`) | mapping, topic table, offset, `t0_ns`, start time | `Open`, `ParseHeaderAndMetadata`, `Run` | replays exactly the whole records of a file cut anywhere, never early, and ends |
| `GenericReplayerSystem` (`generic_replayer.hpp`, `src/i2wReplayer.cpp`) | publishers per type | `OnTopicFound`, `OnRecord` | decodes only payloads of its own size |
| `LoggerConfig` (`logger_config.hpp`) | `by_name_` | `LoadFromFile`, `IsEnabled` | what is recorded is what the file asks for |
| `GenericRecorderSystem` (`generic_recorder.hpp`) | `subs_`, `enabled_topics_` | `OnSetup`/`SetupOne`, the callback | the table in the file lists exactly the subscribed topics; no callback outlives the writer; no sample is lost untraced |
| `i2wRecorder` main (`src/i2wRecorder.cpp`) | `g_running`, its locals, the directory of recordings | every path through `main`, `SignalHandler`, `MakeSessionBaseName` | SIGINT ends it; every record it leaves is resolved by its file's table; sessions do not overwrite each other |

What is hard here: callbacks push concurrently with each other and with the writer
thread and are synchronised by one atomic flag per slot; subscriptions exist before
`Open` and after `Close`; `Close` meets the writer thread anywhere in its loop; the
process or the machine may stop between any two bytes; `open`, `write` and `fsync`
may fail and most results are ignored; the reader meets whatever file that left, and
stamps that are not in order; the recorder is killed and started again in the same
directory, with another configuration.  `PROJECT.json` lists each such hazard at its line.

## 2. Modules

| module | what it models |
|---|---|
| `RelaxedQueue` | the promise of the ring: a bounded lossy queue, each sample delivered at most once, reordering below `Window` |
| `SlotRing` | the ring as its users see it: `Claim` (the `fetch_add`), `Publish` or `Reject`, `Pop` |
| `MpscRingBuffer` | the same code one shared-memory access per step: `FetchAdd`, `Overflow`/`FindFree`, `FillHeader`, `FillPayload`, `StoreReady`; `LoadReady`, `CopyHeader`, `CopyPayload`, `ClearReady` |
| `RecordWriter` | EXTENDS `SlotRing`: the owner (`Open*`, `Close*`), the writer thread, the disk with its failures, `Crash` |
| `Recording` | EXTENDS `RelaxedQueue`: the promise of `RecordWriter`: an append-only log of what left the queue, cut by a crash above the last sync, complete (if nothing was refused) and durable when closed |
| `Session` | EXTENDS `Recording`: the recorder process: `LoggerConfig`, `GenericRecorderSystem`, `main`, signals, kill and restart, and the directory of recordings |
| `MCSession` | three topics, four configurations, two seconds and two runs for `Session` |
| `WireFormat` | the codecs and the images `RecordWriter` writes, as byte sequences |
| `Codec` | EXTENDS `WireFormat`: a one-shot machine that serializes any structure and reads it back with something behind it |
| `MCWireFormat` | the values of `Codec` to enumerate, with a byte of two values |
| `Replayer` | EXTENDS `WireFormat`: `RecordReader` driving `GenericReplayerSystem`, in the order of `i2wReplayer`'s `main` |
| `MCReplayer` | small sessions and damaged files for `Replayer` |
| `MpscRingBufferProofs`, `SlotRingProofs`, `RelaxedQueueProofs`, `RecordWriterProofs`, `SessionProofs`, `WireFormatProofs`, `CodecProofs`, `ReplayerProofs` | the TLAPS proofs, one module per component |

`MpscRingBuffer` implements `SlotRing` (`ImplementsSlotRing`) and `SlotRing`
implements `RelaxedQueue` with a window of two laps (`ImplementsRelaxedQueue`).  Two
laps is tight: with `2 * Capacity - 1` TLC refutes the refinement.  `RecordWriter`
implements `Recording` (`ImplementsRecording`) when its system calls succeed.  All
three are checked by TLC on small instances and proved for every one.  So the layers
are

```
 MpscRingBuffer => SlotRing     => RelaxedQueue  the ring
                   RecordWriter => Recording     + writer thread and file
                                   Session       + configuration, process, directory
```

where `=>` is a proved refinement and each line EXTENDS the module above its name:
`Session` rests on the promise of the writer and not on its code.  The window is a
parameter of `RelaxedQueue`; `Session` is run with the smallest one that reorders.

### Correspondence and abstractions

* **Records.**  In the ring a record is named by the index its push claimed.  The
  fine-grained ring keeps the name in two parts of a slot, header fields and payload
  bytes, so that a torn record shows.  In `RecordWriter` the file is a sequence of
  cells `<<record, k>>`, `HeaderCells` of the record header and `PayloadCells` of the
  payload, so that a cut or a failed write can fall inside either.  In
  `WireFormat`/`Replayer` it is real bytes.
* **Bytes.**  `Base` is the number of values of a byte (256 in the code, 2 or 4 in the
  runs).  Layout, offsets and sizes are those of the code; only `NameBytes` (32) is
  scaled as well.  `uint64_t` arithmetic in `Target` wraps at `Base8`, the eighth power;
  powers are written as products because tlapm has no arithmetic of `^`.  A file is
  written part after part; `Appended` is its content after each of them, and
  `Images(s)[n]` the file of session `s` when `n` of its records are in it.
* **Sessions.**  `ReplayAssumption` says what a session is: distinct topic ids, and every
  record of a topic of the table with that topic's size.  That the recorder leaves only
  such files is `FilesReplayable` of `Session`; there a file that a kill cut inside its
  header or table stands as one without topics: it holds no record, and the reader
  refuses it.  Besides sessions cut anywhere the replayer meets `OtherFiles`: any byte
  sequences, whatever their header, table and records say.
* **Names without an end.**  `Deserialize` copies the name field as it is, and
  `std::string(entry.name)` (`record_reader.cpp:137`) reads on behind one that no zero
  ends.  `Strings` lets such a name be followed by any member of `Overrun`, a constant;
  the name is only printed.  The read itself, out of the array, is undefined behaviour
  that nothing here excludes; a recorder always writes the zero.
* **Early returns that change nothing** (`TryPop` on an empty slot, `TryPush` with an
  oversized payload) are stuttering steps.
* **Memory order.**  Steps interleave sequentially consistently.  The only
  inter-thread reads of plain fields are ordered by the acquire/release pairs on
  `ready`, so without a data race nothing else can be observed; `SlotExclusive` is the
  absence of that race.
* **Time.**  `flush_due` abstracts `now - last_flush_ >= flush_interval_`; the replayer
  has an explicit clock that may advance between any two steps once it is read.
* **The recorder process.**  `pc` of `Session` is the place in `main`: `load`, `setup`
  (one step per `SetupOne`), `open`, `loop`, `join` (inside `Close`), `unwind` (the
  destructor of `system`), `release` (that of `writer`).  A callback takes two steps,
  the call of `Push` and its end, so that it may straddle `Open`, `Close` or a kill.
  A file in the directory is its topic table and the `topic_id` and length of each
  record.  A configuration is the list of its JSON entries with absent fields absent;
  `TopicConfig` narrows `struct_id` to 16 bits, as the code does.
* **The i2w runtime** is external.  Assumed: a subscription's callback runs at any time
  from `subscribe` on, one call at a time, and destroying a subscription waits for its
  call.  `subscribe` and `Tick` may fail.
* **Crash.**  The ring and all threads disappear and the file keeps every synced cell
  and any prefix of the rest.  A killed process is the case where nothing is cut.

### The lap assumption

`NotLapping` (`SlotRing`) and `MayLap = FALSE` (`MpscRingBuffer`): a push finishes
before `Capacity` (4096) further pushes have started.  The code does not enforce it.
With a single publishing thread it always holds; with several it is an assumption
about scheduling.  The run `ring_lapped` shows what happens without it.

## 3. Runs

`tlc -workers 2 -config X.cfg M`.  Deadlock checking is off everywhere because every
system may stop: publishers fall silent, a closed recorder or a finished replay does
nothing more, and the bounded models end at their bounds.

| run | bounds | what it shows |
|---|---|---|
| `ring` | 4 slots, 3 producers, 14 pushes (3.5 laps) | `FifoUntilDrop`, `EmptyHeadMeansDrained`, `EveryPushAccountedFor`, refinement of `RelaxedQueue` |
| `ring_accesses` | 4 slots, 2 producers, 7 pushes | `SlotExclusive`, `PoppedIntact`, refinement of `SlotRing`; 7 pushes wrap the ring, drop, and reuse a slot while the other producer is inside `TryPush` |
| `writer` | 2 slots, 2 publishers, 6 pushes, records of 2+1 cells | crash at every step, `Close` at every step, pushes before `Open` and after `Close`: `FileFollowsPops`, `SyncedWhenClosed`, `NothingPendingMeansDurable`, `WritesOnlyOpenFile`, `DrainedIfNoDrop`, refinement of `Recording` |
| `writer_faults` | 2 slots, 1 publisher, 4 pushes, every call may fail | `IntactPrefixInOrder`, `EachStepDrains` and, under fairness, `CloseReturns` |
| `codec` | two-valued bytes; integers exhaustive or at their edges; names up to one byte longer than the field; nothing, zeros or ones behind the image | `RoundTrips`, `FixedSize`, `LittleEndian` |
| `replayer` | four-valued bytes; five sessions (two topics of different size, stamps out of order and before the first, another build's size, an unknown topic, no topic) cut at every byte; the first of them with any one byte replaced by any value, with a topic twice in its table, with stamps that overflow `target_ns`, and without one payload | `ReplayedAsRecorded`, `EveryWholeRecordReplayed`, `NeverEarly`, `ReadsInsideFile`, `EachStepGetsFurther` and, under fairness, `ReplayEnds` |
| `session` | queue of 2, window 2; topics of 2, 8 and 9 bytes for slots of 8; four configurations; two runs with at most 1 and 3 callbacks; 2 seconds | `FilesReplayable`, `RecordsWhatIsAsked`, `WriterOutlivesCallbacks`, `EveryCallAccountedFor`, `RecordingsOnlyGrow` and, under fairness, `SigintEnds`; the promise of the queue: `DeliveredOnce`, `BoundedDisplacement` |

A record has one header cell more than payload cells so that the first write, the gap
and the second write are told apart.  Two slots are the smallest ring in which a
dropped push leaves an empty slot before a full one; three laps suffice for the
misalignment that follows to come round again.  The configurations of `session` tell
apart the rules of `LoggerConfig`: unreadable; empty (everything enabled); duplicate,
partial and foreign entries; a wrong `struct_id`, an unnamed entry and a `struct_id`
that does not fit 16 bits.  Three callbacks of two topics are the fewest with which
a delivery can leave the window; two runs the fewest for a name to come back.

**Fairness.**  `WFairSpec`: the operating system runs the writer thread and the
thread inside `Close`, and the clock advances.  Publishers get none; that they stop
eventually is the bound `MaxClaims`.  This matters: the drain loop
(`record_writer.cpp:59`) looks at `shutdown_` only when the ring is empty, so `Close`
returns only because pushes stop.  `SFairSpec`: main and the writer thread are
scheduled, and a callback that has begun returns, because `TryPush` has no loop.  That
callbacks start, signals arrive, `Tick` fails or the clock ticks is never assumed; the
bound on callbacks plays the part of `MaxClaims`.  `RFairSpec`: the replayer is scheduled and the
clock runs.

### Disagreements between code and documentation

Each is a run whose property states the documented behaviour and which TLC refutes.

* `ring_lapped`: two pushes a lap apart both see `ready == false`, fill one slot, and
  a torn record is popped (`mpsc_ring_buffer.hpp:14-19`).
* `close_leaves_records`: a rejected push keeps its index, so the consumer may stand
  before an empty slot while later ones are full, and the final drain can stop before
  records that were accepted (`record_writer.hpp:87`).  `DrainedIfNoDrop` is what still
  holds.  For the same reason records leave the ring, and enter the file, out of order
  by up to two laps; `FifoUntilDrop` and `ImplementsRelaxedQueue` say what holds of
  the order.
* `quiet_flush`: a batch that ends before the flush interval is over is not synced
  until the next batch, which may never come (`readme.md:57`).  The records concerned
  have left the ring, so the loss window is not "whatever is still unconsumed in the
  ring buffer" either (`record_writer.hpp:54`, `readme.md:505`).
* `write_fault`: a write that fails part way is followed by the next record, and the
  reader cuts all later records at the wrong place (`record_reader.hpp:31`).
  `IntactPrefixInOrder` is what still holds.
* `session_names`: the name has a resolution of a second and `Open` truncates, so a
  recorder restarted within the second erases the session before (`readme.md:425`,
  `readme.md:506`).  `FilesReplayable` holds all the same, and `RecordingsOnlyGrow` says
  that this is the only way a recording loses what was synced.

One more is met on the way and excluded from a property instead of refuted by a run of
its own: `LoadFromFile` reads `struct_id` into 16 bits (`logger_config.hpp:62`) before
`IsEnabled` compares it, so an entry with 65541 records the topic 5, where a `struct_id`
that does not match should disable it ("treats the topic as disabled", `readme.md:412`;
`logger_config.hpp:86`).  `Asked` compares the number in the file; `RecordsWhatIsAsked`
exempts the topics whose number does not fit (`FitsUInt16`), and TLC refutes it without
that exemption on the configuration of `session` that has such an entry.

Related, but true only of builds with a larger topic than today's: `TryPush` refuses a
payload above `kMaxPayloadBytes` without counting it and the callback ignores the
result, although `record_writer.hpp:75` points to `DroppedCount()`.
`EveryCallAccountedFor` shows that nothing else is lost uncounted.

## 4. Proofs

`tlapm M.tla` for the eight proof modules; all obligations are checked.  Every
invariant was first checked by TLC on the runs' instances.  Assumptions on constants
are the `ASSUME`s of the modules; TLC evaluates them in every run.  `MaxClaims` and
`MaxOffers` bound the pushes of a model; the theorems hold for every value of them.

### The ring

* **`MpscRingBufferProofs`**, for every `Capacity > 0`, every non-empty set of
  producers and any number of pushes, assuming `MayLap = FALSE`: `TypeCorrect`,
  `NoDataRace` (`SlotExclusive`), `RecordsIntact` (`PoppedIntact`) and
  `BufferIsSlotRing` (`ImplementsSlotRing`).  The properties are not inductive.  The
  invariant `IInv` adds: the pushes under way hold distinct indices at most a lap old
  (`WithinOneLap`), so by `ModDistinct` distinct slots; a slot being filled is not
  ready and the one being copied is (`FlagsMatch`); and what has been filled, published
  or copied so far belongs to one record (`FilledSoFar`, `ReadyIsWhole`,
  `CopiedSoFar`).  One lemma per step of the code shows that it is preserved.  The lap
  assumption is used once, in `FetchAddInv`.  In the refinement `FetchAdd` is `Claim`,
  `StoreReady` is `Publish`, `Overflow` is `Reject`, `ClearReady` is `Pop` and the
  other accesses stutter.  Composed with `RingIsRelaxedQueue` below it gives
  `BufferIsRelaxedQueue`: the buffer, access by access, is the queue the writer and the
  recorder are modelled with.  `BufferKeepsOrder` draws the conclusions for what `TryPop`
  returns: push order until the first drop, and each record once and less than two laps
  out of order after it.
* **`SlotRingProofs`**, for every capacity, set of producers and number of pushes:
  `RingTypeCorrect`, `FifoWhileNothingDropped` (`FifoUntilDrop`), `EmptyIsEmpty`
  (`EmptyHeadMeansDrained`), `PushesAccountedFor` (`EveryPushAccountedFor`) and
  `RingIsRelaxedQueue` (`ImplementsRelaxedQueue`).  `RInv` adds that until the first
  drop the indices from `read_index_` to `write_index_` are exactly the pushes under way
  and the records waiting (`NoHoles`), the latter within a lap of the head
  (`AheadOfHead`).  The lap bound is the subtle part (`PublishedNearHead`): were a
  published index a lap or more ahead, the index a lap before it would have to be under
  way, but it is too old for that, or in the very slot that was found free.
  The refinement has to show that misaligned slots never let a record overtake an older
  waiting one by two laps.  `FrontSlotsFull` is why: take a slot that holds `w` and one
  the consumer visits before it; once a push a lap or more younger than `w` has been
  decided in the earlier slot, that slot is full, and stays so until the consumer comes
  by.  `RingPopsOnce` and `RingReordersWithinTwoLaps` carry the theorems about the
  abstract queue over to the ring, drops included.
* **`RelaxedQueueProofs`**, for every capacity and window: `QueueTypeCorrect`,
  `DeliversOnce`, `ReordersWithinWindow`.  `QInv` adds that a sample is in one place
  and that a pending sample is at most a window old, so that nothing delivered can be
  further ahead of it.

`SlotRingProofs` opens with the facts about `%` that it and `MpscRingBufferProofs` rest on.

### The writer

**`RecordWriterProofs`**, for every ring, record size and number of pushes, with a crash
possible at every step.  `WriterUsesRing`: every behaviour of the writer is one of the
ring, so the theorems above hold inside it.  What is assumed of the system calls is a
hypothesis of each theorem, as weak as the code allows:

| theorem | property | assumes |
|---|---|---|
| `WriterTypeCorrect` | `WTypeOK` | nothing |
| `WriterKeepsFileOpen` | `WritesOnlyOpenFile` | nothing |
| `IntactPrefix` | `IntactPrefixInOrder` | nothing |
| `ClosedIsSynced` | `SyncedWhenClosed` | `fsync` does not fail |
| `NothingPendingIsDurable` | `NothingPendingMeansDurable` | `write` and `fsync` do not fail |
| `FileIsHistory` | `FileFollowsPops` | `write` does not fail |
| `CloseDrains` | `DrainedIfNoDrop` | `write` does not fail |
| `WriterIsRecording` | `ImplementsRecording` | no call fails |
| `DrainCannotStall` | `EachStepDrains` | nothing |

`Control` relates where the owner and the writer thread are.  `FileLength` and
`FileContent` give the length of the file at each step of the thread and every cell of
it; multiplication of positions by the record size is kept in `StartProperties` and
`WholeRecordsMeaning`.  `OwedIsSettled` and `OwedIsPopped` explain the final drain: no
push still under way is older than what `Close` owes, so by `EmptyIsEmpty`'s invariant
the empty slot that ends the drain lies behind all of it.  With failing writes nothing
is known of positions any more; `CellsPopped` and `CellsOrdered` say that cells appear
in pop order all the same, which, with `RingPopsOnce`, is enough for the intact prefix.
The refinement rests on all of these and on `WindowInv` of the ring.  Proving it showed
that the refinement mapping had two overlapping `CASE` arms for a crashed writer, of
which TLC happens to take the first: `stage` now tests `crashed` before the rest.

`DrainCannotStall` is the part of `CloseReturns` that does not depend on scheduling.  The
measure `DrainWork` counts what the thread has taken from the ring and how far it is in
its loop.  It grows with every step taken after `shutdown_`: the next test of the flag
starts the final drain, and from that the thread does not come back to test again
(`NoWayBack`).  It stays below what the pushes made so far allow, because nothing leaves
the ring that was not pushed (`PushesAccountedFor`'s invariant).

### The recorder

**`SessionProofs`**, for every list of topics, set of configurations, clock and number of
runs, on top of `Recording`: `SessionTypeCorrect` (`STypeOK`), `NoPushWithoutWriter`
(`WriterOutlivesCallbacks`), `RecordingsReplayable` (`FilesReplayable`),
`CallsAccountedFor` (`EveryCallAccountedFor`), `SessionQueueKeepsPromise` (`QTypeOK`,
`DeliveredOnce` and `BoundedDisplacement`, in every run), `SubscribesWhatIsEnabled` and
`RecordingsStay` (`RecordingsOnlyGrow`).
`Phases` ties the place in `main` to the stage of the recording.  For the files,
`TableInv`: the table lists each topic `SetupOne` has subscribed once, every sample ever
pushed is of a listed topic, and the file has its table before it has records; a killed
run leaves a file that inherits this, and a new run replaces at most the file of its
own name.  The same separation, step by step, is `RecordingsStay`: the file of the run
under way is derived from its log, which only `Write` lengthens and a kill cuts above
`durable`, and no other entry of the directory is touched but by `Open`.  For the
books, the number of pushes is what is pending, waits, was delivered or refused, and the
calls of a topic are its samples.  `SubscribesWhatIsEnabled` says that setup follows `IsEnabled`; `RecordsWhatConfigAsks` (`RecordsWhatIsAsked`) that this
is what the file says.  Between them is the loop of `LoadFromFile`: after `m` entries
`by_name_` has for each name the last entry of that name (`LastCounts`), by induction on
`m`.  A topic whose `struct_id` does not fit 16
bits is exempt, and `enabled` is assumed to be a Boolean where it is given, any other
type being an exception (`LoadFails`), and the topics of the build to have names.

### The format and the replayer

* **`WireFormatProofs`**, for every `Base >= 2` and `NameBytes > 0` (so also for 256 and
  32): `StructuresRoundTrip` and `PayloadRoundTrips`: every structure and payload has its
  size and is read back as written.  The integers go digit by digit (`NextDigit`).
  `Holds(in, off, part)` says that a buffer has a part at an offset; a structure is read
  back from any buffer that holds it (`ReadRecordHeader`, `ReadFileHeader`,
  `ReadTopicMeta`, `ReadIndexEntry`), and a file written part after part holds each one
  where it was written (`AppendedHolds`).  That needs induction over the parts.  The
  library's induction rules take an operator, which the provers cannot instantiate; a
  smallest counterexample (`LeastNat`, from `WFMin`) takes only a set and does as well.
  In the same way `AppendedUnfolds` shows that the recursive function exists.
* **`CodecProofs`**, for every `Base`, `NameBytes` and set of values of each structure:
  `CodecRoundTrips` (`RoundTrips`), `CodecFixedSize` (`FixedSize`) and `CodecLittleEndian`
  (`LittleEndian`).  The first two follow from the theorems before.  For the third the weight
  of a stretch of bytes, a recursive function, equals every sequence of partial sums with
  its equation (`WeightUnfolds`, by a smallest counterexample), hence what the integer
  decoder returns at that offset (`WeightDecodes`), hence the field that was written there;
  this for every multi-byte field, the two axes of `JoyMsgs` included.
* **`ReplayerProofs`**, for every `Base`, registry and set of sessions, every cut of
  their files and every other file: `ReplayerTypeCorrect` (`RTypeOK`),
  `DecodesInsideFile` (`ReadsInsideFile`), `RepublishesTheRecording`
  (`ReplayedAsRecorded`), `RepublishesEveryWholeRecord` (`EveryWholeRecordReplayed`),
  `RepublishesOnTime` (`NeverEarly`) and `ReplayCannotLoop` (`EachStepGetsFurther`).
  Four of them hold whatever the bytes.  Types, reads and progress rest on `ReadInv`: it
  says that `by_id_` comes from the table and that `Run` starts only when the hook has
  matched all of it.  `RepublishesOnTime` adds `Paced`: `t0` keeps the stamp of the first
  record published, and each one came at its deadline or after it; a record whose
  `target_ns` overflows is exempt.  The other two are about recordings, and `ReplayInv`
  adds for them that the table read is the one recorded (distinct ids: a later entry
  must not replace an earlier one in `by_id_`) and that the offset is the end of the
  last record published (`RecordsRead`).  A header that lies in the file is that of the
  next record (`AtNextRecord`), so the walk stays in step with the recording; a file
  whose header is refused publishes nothing (`Refused`).  `ReplayCannotLoop` is the
  part of `ReplayEnds` that does not depend on the clock: the measure `Work` is the
  phase of the replay, the topics hooked and twice the offset, it grows with every step
  of the reader, and the table and the records it counts lie in the file, whatever
  `topic_count` claims.

### What stays with TLC

* `CloseReturns`, `ReplayEnds` and `SigintEnds`: liveness under fairness, which needs
  ENABLED.  For the first two the measures above are proved, so what TLC adds is that some
  step is always possible and is taken; `SigintEnds` is model-checked as a whole.
* That TLC's own instances satisfy the assumptions on constants: the `ASSUME`s.

## 5. Not modelled

* `RecordReader::Walk` (never called) and `RunFast` (declared, not defined), the
  commented-out topics and codecs.  `IndexEntry` is in the codec, but nothing writes an
  `.idx` file.
* Opening one `RecordWriter` twice: the program does not.
* The inside of the `i2w` runtime, the queue of 64 samples it keeps per subscription
  included: what it drops never reaches a callback.
* Two recorders running in one directory at once.
* Logging (`configerLogger`), console output, build files, the text of JSON.
* Waiting beyond `MaxClock` for a stamp of a damaged file: `ReplayEnds` lets such a file
  sleep for as long as its stamp says (`SleepsBeyondBound`).

## 6. Plan

1. Joining recorder and replayer: a file `FilesReplayable` accepts is one of `Replayer`'s
   sessions.  Both halves are proved; what is missing is one state for the two programs.
2. `Close` against publishers that never stop (indices modulo two laps), to show that
   the fairness above cannot be weakened.  `EachStepDrains` already says that nothing else
   can hold it up.
