------------------------------ MODULE Replayer ------------------------------
(***************************************************************************)
(* i2wReplayer: RecordReader (record_reader.cpp) driving                   *)
(* GenericReplayerSystem (generic_replayer.hpp) over one recording.        *)
(*                                                                         *)
(* The file is one RecordWriter produced, whole or cut anywhere (a crash   *)
(* of the recorder leaves such a prefix), or any other sequence of bytes.  *)
(* Time is the monotonic clock in nanoseconds; it advances between any two *)
(* steps, also while a callback runs.                                      *)
(***************************************************************************)
EXTENDS WireFormat

CONSTANTS
  Sessions,   \* what was recorded: records [topics, created, records]
  OtherFiles, \* any other files: damaged recordings, or no recordings at all
  Overrun,    \* what may lie in memory behind a name that has no end
  Registry,   \* this build's topic types: [topic_id -> wire_size]
  MaxClock    \* bound on the clock

HeaderAccepted(in) ==
  /\ Len(in) >= kFileHeaderWireSize
  /\ HasMagic(in)
  /\ DeserializeFileHeader(in).version = kFormatVersion

TopicType == [topic_id : U16, wire_size : U32, name : Seq(Byte \ {0})]
RecordType == [topic_id : U16, stamp_ns : U64, seq : U64, payload : Seq(Byte)]

\* A session as i2wRecorder makes it: the topic ids of a build differ, and a
\* record has a topic of the table and that topic's size.
ASSUME ReplayAssumption ==
  /\ \A s \in Sessions :
       /\ s \in [topics : Seq(TopicType), created : U64, records : Seq(RecordType)]
       /\ Len(s.topics) \in U32
       /\ \A j, k \in DOMAIN s.topics :
            s.topics[j].topic_id = s.topics[k].topic_id => j = k
       /\ \A n \in DOMAIN s.records :
            \E t \in DOMAIN s.topics :
              /\ s.topics[t].topic_id = s.records[n].topic_id
              /\ s.topics[t].wire_size = Len(s.records[n].payload)
  /\ OtherFiles \subseteq Seq(Byte)
  /\ Overrun # {} /\ Overrun \subseteq Seq(Byte \ {0})
  /\ MaxClock \in U64 \ {0}

VARIABLES
  session,   \* the session the file was recorded in, or NoSession
  file,      \* its bytes
  pc,        \* "open", "topics", "hook", "walk", "sleep", "failed" or "done"
  topic_count, topics_, by_id_,
  offset,    \* into the file: parsed so far
  hooked,    \* how many topics the hook has accepted, in table order
  t0,        \* [have, stamp, start]: have_t0, t0_ns, replay_start_monotonic_ns
  published, \* history: what was republished, with the moment it was
  now

fileVars == <<session, file>>
tableVars == <<topic_count, topics_, by_id_>>
rvars == <<fileVars, pc, tableVars, offset, hooked, t0, published, now>>

file_size_ == Len(file)

\* The file of a session as RecordWriter wrote it, after each of its records
Images(s) ==
  Appended(WriteFileHeaderAndMetadata(s.topics, s.created),
           [i \in 1 .. Len(s.records) |-> WriteRecord(s.records[i])])

Image(s) == Images(s)[Len(s.records)]

NoSession == [topics |-> <<>>, created |-> 0, records |-> <<>>]
NoTopic == [topic_id \in {} |-> 0]

RInit ==
  /\ \/ /\ session \in Sessions
        /\ \E n \in 0 .. Len(Image(session)) : file = SubSeq(Image(session), 1, n)
     \/ /\ session = NoSession
        /\ file \in OtherFiles
  /\ pc = "open"
  /\ topic_count = 0
  /\ topics_ = <<>>
  /\ by_id_ = NoTopic
  /\ offset = 0
  /\ hooked = 0
  /\ t0 = [have |-> FALSE, stamp |-> 0, start |-> 0]
  /\ published = <<>>
  /\ now \in 0 .. 1

-----------------------------------------------------------------------------
(* RecordReader::Open *)

\* The file is empty (mmap of no bytes fails) or its header is not accepted.
RejectHeader ==
  /\ pc = "open"
  /\ ~HeaderAccepted(file)
  /\ pc' = "failed"
  /\ UNCHANGED <<fileVars, tableVars, offset, hooked, t0, published, now>>

AcceptHeader ==
  /\ pc = "open"
  /\ HeaderAccepted(file)
  /\ topic_count' = DeserializeFileHeader(file).topic_count
  /\ offset' = kFileHeaderWireSize
  /\ pc' = "topics"
  /\ UNCHANGED <<fileVars, topics_, by_id_, hooked, t0, published, now>>

RejectTopic ==
  /\ pc = "topics"
  /\ Len(topics_) < topic_count
  /\ offset + kTopicMetaWireSize > file_size_
  /\ pc' = "failed"
  /\ UNCHANGED <<fileVars, tableVars, offset, hooked, t0, published, now>>

\* std::string(entry.name) reads on behind a field that no zero ends.
Strings(name) == {name \o more : more \in IF Len(name) < NameBytes THEN {<<>>} ELSE Overrun}

ParseTopic ==
  /\ pc = "topics"
  /\ Len(topics_) < topic_count
  /\ offset + kTopicMetaWireSize <= file_size_
  /\ LET entry == DeserializeTopicMeta(From(file, offset))
     IN  /\ \E string \in Strings(entry.name) :
              topics_' = Append(topics_, [topic_id |-> entry.topic_id,
                                          wire_size |-> entry.struct_size,
                                          name |-> string])
         /\ by_id_' = [i \in DOMAIN by_id_ \cup {entry.topic_id} |->
                         IF i = entry.topic_id THEN entry.struct_size ELSE by_id_[i]]
  /\ offset' = offset + kTopicMetaWireSize
  /\ UNCHANGED <<fileVars, pc, topic_count, hooked, t0, published, now>>

\* records_start_offset_ is the offset reached; a file without topics ends
\* the program here
ParsedTopics ==
  /\ pc = "topics"
  /\ Len(topics_) = topic_count
  /\ pc' = IF topics_ = <<>> THEN "done" ELSE "hook"
  /\ UNCHANGED <<fileVars, tableVars, offset, hooked, t0, published, now>>

\* A mutant: the recorded wire_size is not compared with this build's.
MatchesIdOnly(topic) == topic.topic_id \in DOMAIN Registry

Matches(topic) ==
  /\ topic.topic_id \in DOMAIN Registry
  /\ topic.wire_size = Registry[topic.topic_id]

\* OnTopicFound: a type of this build matches and advertise() succeeds
AdvertiseTopic ==
  /\ pc = "hook"
  /\ hooked < Len(topics_)
  /\ Matches(topics_[hooked + 1])
  /\ hooked' = hooked + 1
  /\ UNCHANGED <<fileVars, pc, tableVars, offset, t0, published, now>>

\* OnTopicFound: no type matches, its wire_size differs, or advertise() fails
RefuseTopic ==
  /\ pc = "hook"
  /\ hooked < Len(topics_)
  /\ pc' = "failed"
  /\ UNCHANGED <<fileVars, tableVars, offset, hooked, t0, published, now>>

Opened ==
  /\ pc = "hook"
  /\ hooked = Len(topics_)
  /\ pc' = "walk"
  /\ UNCHANGED <<fileVars, tableVars, offset, hooked, t0, published, now>>

-----------------------------------------------------------------------------
(* RecordReader::Run *)

HeaderAtOffset == DeserializeRecordHeader(From(file, offset))

\* A mutant: the topic_id is left out of the size of the header.
PayloadOffsetShort == offset + 8 + 8

PayloadOffset == offset + kRecordHeaderWireSize

\* A mutant: a record that ends exactly at the end of the file is left out.
RecordAvailableOffByOne ==
  /\ offset + kRecordHeaderWireSize <= file_size_
  /\ HeaderAtOffset.topic_id \in DOMAIN by_id_
  /\ PayloadOffset + by_id_[HeaderAtOffset.topic_id] < file_size_

RecordAvailable ==
  /\ offset + kRecordHeaderWireSize <= file_size_
  /\ HeaderAtOffset.topic_id \in DOMAIN by_id_
  /\ PayloadOffset + by_id_[HeaderAtOffset.topic_id] <= file_size_

\* The end of the file, an unknown topic_id or a truncated payload
Finish ==
  /\ pc = "walk"
  /\ ~RecordAvailable
  /\ pc' = "done"
  /\ UNCHANGED <<fileVars, tableVars, offset, hooked, t0, published, now>>

\* The first record fixes t0
NextRecord ==
  /\ pc = "walk"
  /\ RecordAvailable
  /\ t0' = IF t0.have THEN t0
           ELSE [have |-> TRUE, stamp |-> HeaderAtOffset.stamp_ns, start |-> now]
  /\ pc' = "sleep"
  /\ UNCHANGED <<fileVars, tableVars, offset, hooked, published, now>>

\* A mutant: no clamp; the unsigned difference wraps.
TargetWrapping ==
  (t0.start + ((HeaderAtOffset.stamp_ns - t0.stamp) % Base8)) % Base8

\* A mutant: the deadline is one nanosecond short.
TargetEarly ==
  LET elapsed == IF HeaderAtOffset.stamp_ns > t0.stamp
                 THEN HeaderAtOffset.stamp_ns - t0.stamp - 1 ELSE 0
  IN  (t0.start + elapsed) % Base8

\* target_ns, with the clamp against stamps older than the first
Target ==
  LET elapsed == IF HeaderAtOffset.stamp_ns >= t0.stamp
                 THEN HeaderAtOffset.stamp_ns - t0.stamp ELSE 0
  IN  (t0.start + elapsed) % Base8

\* The callback: what the type of this build with this topic_id publishes,
\* which is nothing if there is none.  The sequence number is not passed on.
OnRecord(h, payload) ==
  IF h.topic_id \in DOMAIN Registry
  THEN <<[topic_id |-> h.topic_id, stamp_ns |-> h.stamp_ns, payload |-> payload,
          at |-> now]>>
  ELSE <<>>

\* A mutant: the walk stays at the record it has published.
RepublishInPlace ==
  /\ pc = "sleep"
  /\ now >= Target
  /\ pc' = "walk"
  /\ UNCHANGED <<fileVars, tableVars, offset, hooked, t0, published, now>>

\* SleepUntilAbsoluteNs returned
Republish ==
  /\ pc = "sleep"
  /\ now >= Target
  /\ LET size == by_id_[HeaderAtOffset.topic_id]
         payload == SubSeq(file, PayloadOffset + 1, PayloadOffset + size)
     IN  /\ published' = published \o OnRecord(HeaderAtOffset, payload)
         /\ offset' = PayloadOffset + size
  /\ pc' = "walk"
  /\ UNCHANGED <<fileVars, tableVars, hooked, t0, now>>

\* Before the first record nothing reads the clock.
Tick ==
  /\ t0.have
  /\ now < MaxClock
  /\ now' = now + 1
  /\ UNCHANGED <<fileVars, pc, tableVars, offset, hooked, t0, published>>

ReaderStep ==
  \/ RejectHeader \/ AcceptHeader \/ RejectTopic \/ ParseTopic \/ ParsedTopics
  \/ AdvertiseTopic \/ RefuseTopic \/ Opened
  \/ NextRecord \/ Republish \/ Finish

RNext == ReaderStep \/ Tick

RSpec == RInit /\ [][RNext]_rvars

\* The clock runs and the operating system schedules the program.
RFairSpec == RSpec /\ WF_rvars(ReaderStep) /\ WF_rvars(Tick)

-----------------------------------------------------------------------------
RTypeOK ==
  /\ session \in Sessions \cup {NoSession}
  /\ file \in Seq(Byte)
  /\ pc \in {"open", "topics", "hook", "walk", "sleep", "failed", "done"}
  /\ topic_count \in U32
  /\ topics_ \in Seq(TopicType)
  /\ DOMAIN by_id_ \subseteq U16 /\ \A i \in DOMAIN by_id_ : by_id_[i] \in U32
  /\ offset \in 0 .. file_size_
  /\ hooked \in 0 .. Len(topics_)
  /\ t0 \in [have : BOOLEAN, stamp : U64, start : 0 .. MaxClock]
  /\ published \in Seq([topic_id : U16, stamp_ns : U64, payload : Seq(Byte),
                        at : 0 .. MaxClock])
  /\ now \in 0 .. MaxClock

(***************************************************************************)
(* Wherever a recording was cut, replay republishes what was recorded: the *)
(* same topics, stamps and payload bytes, in file order, none skipped and  *)
(* nothing made up from a cut record; and nothing at all comes out of a    *)
(* file whose header is not accepted.                                      *)
(***************************************************************************)
ReplayedAsRecorded ==
  /\ session # NoSession =>
       \A i \in DOMAIN published :
         /\ i \in DOMAIN session.records
         /\ published[i].topic_id = session.records[i].topic_id
         /\ published[i].stamp_ns = session.records[i].stamp_ns
         /\ published[i].payload = session.records[i].payload
  /\ ~HeaderAccepted(file) => published = <<>>

\* The first n records of the session lie inside the file.
Contains(n) == Len(Images(session)[n]) <= file_size_

(***************************************************************************)
(* A replay that runs to the end leaves out no record the file holds       *)
(* completely, the last one before the cut included.                       *)
(***************************************************************************)
EveryWholeRecordReplayed ==
  (pc = "done" /\ session # NoSession) =>
    \A n \in DOMAIN session.records : Contains(n) => n \in DOMAIN published

(***************************************************************************)
(* No record of any file is republished before its time: its distance from *)
(* the first record, or none if its stamp is older than the first one's,   *)
(* has passed since the replay started; unless target_ns overflows.        *)
(***************************************************************************)
NeverEarly ==
  \A i \in DOMAIN published :
    LET distance == published[i].stamp_ns - published[1].stamp_ns
    IN  t0.start + distance < Base8 => published[i].at - t0.start >= distance

(***************************************************************************)
(* DecodePayload reads as many bytes as this build's type has, whatever    *)
(* the file's table says: they always lie inside the mapping.              *)
(***************************************************************************)
ReadsInsideFile ==
  pc = "sleep" =>
    /\ HeaderAtOffset.topic_id \in DOMAIN Registry
    /\ PayloadOffset + Registry[HeaderAtOffset.topic_id] <= file_size_

\* How far Open and Run have come
Work ==
  LET phase == CASE pc = "open" -> 0 [] pc = "topics" -> 1 [] pc = "hook" -> 2
                 [] pc = "walk" -> 3 [] OTHER -> 4
  IN  phase + hooked + 2 * offset

(***************************************************************************)
(* Whatever the bytes of the file and the topic_count and sizes it claims, *)
(* each step of Open and Run gets further, and the size of the file bounds *)
(* how far they can get: neither can loop.                                 *)
(***************************************************************************)
EachStepGetsFurther ==
  [][ReaderStep => Work < Work' /\ Work' <= 3 * file_size_ + 4]_rvars

\* A stamp of a damaged file may lie beyond the bound of the clock.
SleepsBeyondBound == session = NoSession /\ pc = "sleep" /\ Target > MaxClock

(***************************************************************************)
(* The replayer ends: on every recording, wherever cut and with stamps out *)
(* of order, and on every damaged file, Open fails or Run returns; at most *)
(* a damaged stamp makes it sleep for as long as that stamp says.          *)
(***************************************************************************)
ReplayEnds == <>(pc \in {"failed", "done"} \/ SleepsBeyondBound)

=============================================================================
