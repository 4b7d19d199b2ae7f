----------------------------- MODULE WireFormat -----------------------------
(***************************************************************************)
(* The on-disk format of wire_format.hpp, the payload codec of             *)
(* payload_codec.hpp and the images RecordWriter writes with them.         *)
(*                                                                         *)
(* A byte is a number below Base, so that a uintN_t is a number below      *)
(* Base^(N/8).  Base is 256 in the code; a small Base keeps the layout,    *)
(* the sizes and the carries while every integer type becomes enumerable.  *)
(* Buffers are sequences of bytes; in + n in the code is From(in, n).      *)
(***************************************************************************)
EXTENDS Integers, Sequences

CONSTANTS
  Base,      \* number of values of a byte
  NameBytes, \* sizeof(TopicMetaEntry::name), 32 in the code
  kMagic     \* the 8 bytes that start every recording

ASSUME WireAssumption ==
  /\ Base \in Nat /\ Base >= 2
  /\ NameBytes \in Nat \ {0}
  /\ kMagic \in Seq(0 .. Base - 1) /\ Len(kMagic) = 8

\* The powers of Base, as products: tlapm has no arithmetic of ^
Base2 == Base * Base
Base3 == Base2 * Base
Base4 == Base3 * Base
Base5 == Base4 * Base
Base6 == Base5 * Base
Base7 == Base6 * Base
Base8 == Base7 * Base

Byte == 0 .. Base - 1
U16 == 0 .. Base2 - 1
U32 == 0 .. Base4 - 1
U64 == 0 .. Base8 - 1

From(in, n) == SubSeq(in, n + 1, Len(in))
Zeros(n) == [i \in 1 .. n |-> 0]

-----------------------------------------------------------------------------
(* Little-endian integers *)

encode_u16(v) == <<v % Base, (v \div Base) % Base>>

decode_u16(in) == in[1] + in[2] * Base

encode_u32(v) ==
  <<v % Base, (v \div Base) % Base, (v \div Base2) % Base, (v \div Base3) % Base>>

decode_u32(in) == in[1] + in[2] * Base + in[3] * Base2 + in[4] * Base3

\* The place value of each byte: << (8 * i) in the code
Place == <<1, Base, Base2, Base3, Base4, Base5, Base6, Base7>>

\* A mutant: big-endian.
encode_u64_be(v) == [i \in 1 .. 8 |-> (v \div Place[9 - i]) % Base]

encode_u64(v) == [i \in 1 .. 8 |-> (v \div Place[i]) % Base]

decode_u64(in) ==
  in[1] + in[2] * Base + in[3] * Base2 + in[4] * Base3
    + in[5] * Base4 + in[6] * Base5 + in[7] * Base6 + in[8] * Base7

-----------------------------------------------------------------------------
(* The three structures of a recording, and the entry of an index file *)

kFormatVersion == 1
kFileHeaderWireSize == 8 + 4 + 4 + 8 + 8
kTopicMetaWireSize == 2 + 4 + NameBytes
kRecordHeaderWireSize == 2 + 8 + 8
kIndexEntryWireSize == 8 + 8 + 2

\* Their fields; a name is a C string
FileHeaderType == [version : U32, topic_count : U32, created_at_ns : U64]
TopicMetaType == [topic_id : U16, struct_size : U32, name : Seq(Byte \ {0})]
RecordHeaderType == [topic_id : U16, stamp_ns : U64, seq : U64]
IndexEntryType == [stamp_ns : U64, byte_offset : U64, topic_id : U16]

SerializeFileHeader(h) ==
  kMagic \o encode_u32(h.version) \o encode_u32(h.topic_count)
         \o encode_u64(h.created_at_ns) \o Zeros(8)

HasMagic(in) == SubSeq(in, 1, 8) = kMagic

\* FileHeader::Deserialize after the magic bytes matched
DeserializeFileHeader(in) ==
  [version |-> decode_u32(From(in, 8)),
   topic_count |-> decode_u32(From(in, 12)),
   created_at_ns |-> decode_u64(From(in, 16))]

\* What snprintf and Serialize leave of a C string: at most NameBytes - 1 bytes
Truncated(name) == SubSeq(name, 1, IF Len(name) < NameBytes THEN Len(name)
                                                            ELSE NameBytes - 1)

\* A mutant: the whole field, padding included.
CStringRaw(in) == in

\* std::string(char*): the bytes before the first zero of the field, or all
\* of it
CString(in) ==
  LET n == CHOOSE k \in 0 .. Len(in) :
             /\ \A j \in 1 .. k : in[j] # 0
             /\ k = Len(in) \/ in[k + 1] = 0
  IN  SubSeq(in, 1, n)

\* A mutant: the name is not padded to its fixed size.
SerializeTopicMetaUnpadded(t) ==
  encode_u16(t.topic_id) \o encode_u32(t.struct_size) \o Truncated(t.name) \o Zeros(1)

SerializeTopicMeta(t) ==
  encode_u16(t.topic_id) \o encode_u32(t.struct_size)
    \o Truncated(t.name) \o Zeros(NameBytes - Len(Truncated(t.name)))

DeserializeTopicMeta(in) ==
  [topic_id |-> decode_u16(in),
   struct_size |-> decode_u32(From(in, 2)),
   name |-> CString(SubSeq(in, 7, 6 + NameBytes))]

SerializeRecordHeader(h) ==
  encode_u16(h.topic_id) \o encode_u64(h.stamp_ns) \o encode_u64(h.seq)

DeserializeRecordHeader(in) ==
  [topic_id |-> decode_u16(in),
   stamp_ns |-> decode_u64(From(in, 2)),
   seq |-> decode_u64(From(in, 10))]

SerializeIndexEntry(e) ==
  encode_u64(e.stamp_ns) \o encode_u64(e.byte_offset) \o encode_u16(e.topic_id)

DeserializeIndexEntry(in) ==
  [stamp_ns |-> decode_u64(in),
   byte_offset |-> decode_u64(From(in, 8)),
   topic_id |-> decode_u16(From(in, 16))]

-----------------------------------------------------------------------------
(* The payload of the one registered topic type, JoyMsgs.  A float is its  *)
(* bit pattern, a u32.                                                     *)

JoyWireSize == 22
JoyButtons == <<"button0", "button1", "button3", "button4", "button5", "button6">>

JoyMsgsType ==
  [timestamp : U64, axis0 : U32, axis2 : U32,
   buttons : [{JoyButtons[i] : i \in 1 .. 6} -> BOOLEAN]]

EncodePayload(v) ==
  encode_u64(v.timestamp) \o encode_u32(v.axis0) \o encode_u32(v.axis2)
    \o [i \in 1 .. 6 |-> IF v.buttons[JoyButtons[i]] THEN 1 ELSE 0]

\* A mutant: the two axes are swapped.
DecodePayloadSwapped(in) ==
  [timestamp |-> decode_u64(in),
   axis0 |-> decode_u32(From(in, 12)),
   axis2 |-> decode_u32(From(in, 8)),
   buttons |-> [b \in {JoyButtons[i] : i \in 1 .. 6} |->
                  in[16 + (CHOOSE i \in 1 .. 6 : JoyButtons[i] = b)] # 0]]

DecodePayload(in) ==
  [timestamp |-> decode_u64(in),
   axis0 |-> decode_u32(From(in, 8)),
   axis2 |-> decode_u32(From(in, 12)),
   buttons |-> [b \in {JoyButtons[i] : i \in 1 .. 6} |->
                  in[16 + (CHOOSE i \in 1 .. 6 : JoyButtons[i] = b)] # 0]]

-----------------------------------------------------------------------------
(* What RecordWriter writes: the preamble for a table of topics, and one   *)
(* record.                                                                 *)

\* The file after each write: Appended(first, parts)[i] holds first and the
\* first i parts
Appended(first, parts) ==
  LET after[i \in 0 .. Len(parts)] ==
        IF i = 0 THEN first ELSE after[i - 1] \o parts[i]
  IN  after

\* One WriteAll per topic
TopicEntries(topics) ==
  [i \in 1 .. Len(topics) |->
     SerializeTopicMeta([topic_id |-> topics[i].topic_id,
                         struct_size |-> topics[i].wire_size,
                         name |-> topics[i].name])]

TopicTable(topics) == Appended(<<>>, TopicEntries(topics))[Len(topics)]

WriteFileHeaderAndMetadata(topics, now) ==
  SerializeFileHeader([version |-> kFormatVersion,
                       topic_count |-> Len(topics),
                       created_at_ns |-> now])
    \o TopicTable(topics)

WriteRecord(r) ==
  SerializeRecordHeader([topic_id |-> r.topic_id, stamp_ns |-> r.stamp_ns,
                         seq |-> r.seq]) \o r.payload

=============================================================================
