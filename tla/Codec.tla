-------------------------------- MODULE Codec -------------------------------
(***************************************************************************)
(* Every structure of WireFormat, serialized by the recorder and read back *)
(* by the replayer: a one-shot machine.                                    *)
(***************************************************************************)
EXTENDS WireFormat

CONSTANTS
  FileHeaders, TopicMetas, RecordHeaders, IndexEntries, JoyMsgs,
             \* the values of each structure that are written
  Following  \* what may follow an image in the reader's buffer

ASSUME CodecAssumption ==
  /\ FileHeaders \subseteq FileHeaderType
  /\ TopicMetas \subseteq TopicMetaType
  /\ RecordHeaders \subseteq RecordHeaderType
  /\ IndexEntries \subseteq IndexEntryType
  /\ JoyMsgs \subseteq JoyMsgsType
  /\ Following \subseteq Seq(Byte)

VARIABLES kind, value, wire, back

cvars == <<kind, value, wire, back>>

CodecInit ==
  /\ \/ kind = "FileHeader" /\ value \in FileHeaders
     \/ kind = "TopicMetaEntry" /\ value \in TopicMetas
     \/ kind = "RecordHeader" /\ value \in RecordHeaders
     \/ kind = "IndexEntry" /\ value \in IndexEntries
     \/ kind = "JoyMsgs" /\ value \in JoyMsgs
  /\ wire = <<>>
  /\ back = <<>>

Serialize ==
  CASE kind = "FileHeader" -> SerializeFileHeader(value)
    [] kind = "TopicMetaEntry" -> SerializeTopicMeta(value)
    [] kind = "RecordHeader" -> SerializeRecordHeader(value)
    [] kind = "IndexEntry" -> SerializeIndexEntry(value)
    [] kind = "JoyMsgs" -> EncodePayload(value)

Deserialize(in) ==
  CASE kind = "FileHeader" -> DeserializeFileHeader(in)
    [] kind = "TopicMetaEntry" -> DeserializeTopicMeta(in)
    [] kind = "RecordHeader" -> DeserializeRecordHeader(in)
    [] kind = "IndexEntry" -> DeserializeIndexEntry(in)
    [] kind = "JoyMsgs" -> DecodePayload(in)

Write ==
  /\ wire = <<>>
  /\ wire' = Serialize
  /\ UNCHANGED <<kind, value, back>>

Read ==
  /\ wire # <<>>
  /\ back = <<>>
  /\ \E rest \in Following : back' = Deserialize(wire \o rest)
  /\ UNCHANGED <<kind, value, wire>>

CodecSpec == CodecInit /\ [][Write \/ Read]_cvars

-----------------------------------------------------------------------------
\* What a reader is entitled to get back: a name loses what does not fit.
Expected ==
  IF kind = "TopicMetaEntry" THEN [value EXCEPT !.name = Truncated(value.name)]
                             ELSE value

(***************************************************************************)
(* What Serialize (or EncodePayload) wrote is what Deserialize (or         *)
(* DecodePayload) returns, whatever bytes follow it in the file.           *)
(***************************************************************************)
RoundTrips == back # <<>> => back = Expected

(***************************************************************************)
(* Every image has exactly the size the reader steps over: the k...WireSize*)
(* constants, and wire_size of the topic.                                  *)
(***************************************************************************)
FixedSize ==
  wire # <<>> =>
    Len(wire) = CASE kind = "FileHeader" -> kFileHeaderWireSize
                  [] kind = "TopicMetaEntry" -> kTopicMetaWireSize
                  [] kind = "RecordHeader" -> kRecordHeaderWireSize
                  [] kind = "IndexEntry" -> kIndexEntryWireSize
                  [] kind = "JoyMsgs" -> JoyWireSize

\* The value of n bytes at offset off, least significant first
Weight(off, n) ==
  LET upTo[i \in 0 .. n] ==
        IF i = 0 THEN 0 ELSE upTo[i - 1] + wire[off + i] * Place[i]
  IN  upTo[n]

(***************************************************************************)
(* "endian-safe": every multi-byte field is stored at its offset in the    *)
(* format, least significant byte first, whatever the decoder would        *)
(* accept: two fields swapped in both directions would still round-trip.   *)
(***************************************************************************)
LittleEndian ==
  wire # <<>> =>
    CASE kind = "FileHeader" -> /\ Weight(8, 4) = value.version
                                /\ Weight(12, 4) = value.topic_count
                                /\ Weight(16, 8) = value.created_at_ns
      [] kind = "TopicMetaEntry" -> /\ Weight(0, 2) = value.topic_id
                                    /\ Weight(2, 4) = value.struct_size
      [] kind = "RecordHeader" -> /\ Weight(0, 2) = value.topic_id
                                  /\ Weight(2, 8) = value.stamp_ns
                                  /\ Weight(10, 8) = value.seq
      [] kind = "IndexEntry" -> /\ Weight(0, 8) = value.stamp_ns
                                /\ Weight(8, 8) = value.byte_offset
                                /\ Weight(16, 2) = value.topic_id
      [] kind = "JoyMsgs" -> /\ Weight(0, 8) = value.timestamp
                             /\ Weight(8, 4) = value.axis0
                             /\ Weight(12, 4) = value.axis2

=============================================================================
