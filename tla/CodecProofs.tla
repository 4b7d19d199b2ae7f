----------------------------- MODULE CodecProofs ----------------------------
(***************************************************************************)
(* For every Base, length of a name, set of values and whatever follows    *)
(* them in the file: each structure is written little-endian in an image   *)
(* of its fixed size, and read back as it was.                             *)
(***************************************************************************)
EXTENDS Codec, WireFormatProofs

-----------------------------------------------------------------------------
(* The image of each structure.                                            *)

\* Serialize and Deserialize of the value, by its kind.
LEMMA Kinds ==
  /\ kind = "FileHeader" => /\ Serialize = SerializeFileHeader(value)
                            /\ \A in : Deserialize(in) = DeserializeFileHeader(in)
  /\ kind = "TopicMetaEntry" => /\ Serialize = SerializeTopicMeta(value)
                                /\ \A in : Deserialize(in) = DeserializeTopicMeta(in)
  /\ kind = "RecordHeader" => /\ Serialize = SerializeRecordHeader(value)
                              /\ \A in : Deserialize(in) = DeserializeRecordHeader(in)
  /\ kind = "IndexEntry" => /\ Serialize = SerializeIndexEntry(value)
                            /\ \A in : Deserialize(in) = DeserializeIndexEntry(in)
  /\ kind = "JoyMsgs" => /\ Serialize = EncodePayload(value)
                         /\ \A in : Deserialize(in) = DecodePayload(in)
  BY DEF Serialize, Deserialize

\* What is written is a value of its structure.
ValueTyped ==
  \/ kind = "FileHeader" /\ value \in FileHeaderType
  \/ kind = "TopicMetaEntry" /\ value \in TopicMetaType
  \/ kind = "RecordHeader" /\ value \in RecordHeaderType
  \/ kind = "IndexEntry" /\ value \in IndexEntryType
  \/ kind = "JoyMsgs" /\ value \in JoyMsgsType

\* Where an image was written, the reader finds the value.
LEMMA ImageRead ==
  ASSUME ValueTyped, NEW rest \in Seq(Byte)
  PROVE  Deserialize(Serialize \o rest) = Expected
<1>1. CASE kind = "FileHeader" /\ value \in FileHeaderType
  <2>1. DeserializeFileHeader(SerializeFileHeader(value) \o rest) = value
    BY <1>1, StructuresRoundTrip
  <2> QED BY <1>1, <2>1, Kinds DEF Expected
<1>2. CASE kind = "TopicMetaEntry" /\ value \in TopicMetaType
  <2>1. DeserializeTopicMeta(SerializeTopicMeta(value) \o rest)
          = [value EXCEPT !.name = Truncated(value.name)]
    BY <1>2, StructuresRoundTrip
  <2> QED BY <1>2, <2>1, Kinds DEF Expected
<1>3. CASE kind = "RecordHeader" /\ value \in RecordHeaderType
  <2>1. DeserializeRecordHeader(SerializeRecordHeader(value) \o rest) = value
    BY <1>3, StructuresRoundTrip
  <2> QED BY <1>3, <2>1, Kinds DEF Expected
<1>4. CASE kind = "IndexEntry" /\ value \in IndexEntryType
  <2>1. DeserializeIndexEntry(SerializeIndexEntry(value) \o rest) = value
    BY <1>4, StructuresRoundTrip
  <2> QED BY <1>4, <2>1, Kinds DEF Expected
<1>5. CASE kind = "JoyMsgs" /\ value \in JoyMsgsType
  <2>1. DecodePayload(EncodePayload(value) \o rest) = value
    BY <1>5, PayloadRoundTrips
  <2> QED BY <1>5, <2>1, Kinds DEF Expected
<1> QED BY <1>1, <1>2, <1>3, <1>4, <1>5 DEF ValueTyped

\* The size the reader steps over, by the kind.
StepSize ==
  CASE kind = "FileHeader" -> kFileHeaderWireSize
    [] kind = "TopicMetaEntry" -> kTopicMetaWireSize
    [] kind = "RecordHeader" -> kRecordHeaderWireSize
    [] kind = "IndexEntry" -> kIndexEntryWireSize
    [] kind = "JoyMsgs" -> JoyWireSize

\* An image is bytes of that number.
LEMMA ImageSize == ValueTyped => Serialize \in Seq(Byte) /\ Len(Serialize) = StepSize
<1> SUFFICES ASSUME ValueTyped PROVE Serialize \in Seq(Byte) /\ Len(Serialize) = StepSize
  OBVIOUS
<1>0. <<>> \in Seq(Byte)
  OBVIOUS
<1>1. CASE kind = "FileHeader" /\ value \in FileHeaderType
  BY <1>0, <1>1, Kinds, FileHeaderSize DEF StepSize
<1>2. CASE kind = "TopicMetaEntry" /\ value \in TopicMetaType
  BY <1>0, <1>2, Kinds, TopicMetaSize DEF StepSize
<1>3. CASE kind = "RecordHeader" /\ value \in RecordHeaderType
  BY <1>0, <1>3, Kinds, RecordHeaderSize DEF StepSize
<1>4. CASE kind = "IndexEntry" /\ value \in IndexEntryType
  BY <1>0, <1>4, Kinds, ReadIndexEntry DEF StepSize
<1>5. CASE kind = "JoyMsgs" /\ value \in JoyMsgsType
  BY <1>0, <1>5, Kinds, PayloadRoundTrips DEF StepSize
<1> QED BY <1>1, <1>2, <1>3, <1>4, <1>5 DEF ValueTyped

-----------------------------------------------------------------------------
(***************************************************************************)
(* The machine writes the image and reads the value.                       *)
(***************************************************************************)
CodecInv ==
  /\ ValueTyped
  /\ wire # <<>> => wire = Serialize
  /\ back # <<>> => back = Expected

\* It does so from the start.
LEMMA CodecInitInv == CodecInit => CodecInv
  BY CodecAssumption DEF CodecInit, CodecInv, ValueTyped

\* Write writes the image, Read reads it, with anything behind it.
LEMMA CodecNextInv == CodecInv /\ [Write \/ Read]_cvars => CodecInv'
<1> SUFFICES ASSUME CodecInv, [Write \/ Read]_cvars PROVE CodecInv'
  OBVIOUS
<1>0. UNCHANGED <<kind, value>> => UNCHANGED <<Serialize, Expected>> /\ (ValueTyped => ValueTyped')
  BY DEF Serialize, Expected, ValueTyped
<1>1. CASE Write
  BY <1>0, <1>1 DEF Write, CodecInv
<1>2. CASE Read
  <2>1. PICK rest \in Following : back' = Deserialize(wire \o rest)
    BY <1>2 DEF Read
  <2>2. rest \in Seq(Byte) /\ wire = Serialize
    BY <1>2, CodecAssumption DEF Read, CodecInv
  <2>3. back' = Expected
    BY <2>1, <2>2, ImageRead DEF CodecInv
  <2> QED BY <1>0, <1>2, <2>3 DEF Read, CodecInv
<1>3. CASE UNCHANGED cvars
  BY <1>0, <1>3 DEF cvars, CodecInv
<1> QED BY <1>1, <1>2, <1>3

\* At every moment.
LEMMA CodecAlways == CodecSpec => []CodecInv
  BY CodecInitInv, CodecNextInv, PTL DEF CodecSpec

(***************************************************************************)
(* What Serialize (or EncodePayload) wrote is what Deserialize (or         *)
(* DecodePayload) returns, for every value and whatever bytes follow it.   *)
(***************************************************************************)
THEOREM CodecRoundTrips == CodecSpec => []RoundTrips
<1>1. CodecInv => RoundTrips
  BY DEF CodecInv, RoundTrips
<1> QED BY <1>1, CodecAlways, PTL

(***************************************************************************)
(* Every image has exactly the size the reader steps over.                 *)
(***************************************************************************)
THEOREM CodecFixedSize == CodecSpec => []FixedSize
<1>1. CodecInv => FixedSize
  BY ImageSize DEF CodecInv, FixedSize, StepSize
<1> QED BY <1>1, CodecAlways, PTL

-----------------------------------------------------------------------------
(* The weight of a stretch of bytes.                                       *)

\* Partial sums that follow the equation of Weight end in it.
LEMMA WeightUnfolds ==
  ASSUME NEW off, NEW n \in Nat, NEW sum \in [0 .. n -> Int], sum[0] = 0,
         \A i \in 1 .. n : sum[i] = sum[i - 1] + wire[off + i] * Place[i]
  PROVE  Weight(off, n) = sum[n]
<1> DEFINE Eq(h) == h = [i \in 0 .. n |->
                           IF i = 0 THEN 0 ELSE h[i - 1] + wire[off + i] * Place[i]]
          g == CHOOSE h : Eq(h)
<1>1. Eq(sum)
  <2>1. ASSUME NEW i \in 0 .. n
        PROVE  sum[i] = IF i = 0 THEN 0 ELSE sum[i - 1] + wire[off + i] * Place[i]
    <3>1. CASE i = 0
      BY <3>1
    <3>2. CASE i # 0
      <4>1. i \in 1 .. n
        BY <3>2
      <4> QED BY <3>2, <4>1
    <3> QED BY <3>1, <3>2
  <2> QED BY <2>1
<1>2. Eq(g)
  <2> HIDE DEF Eq
  <2> QED BY <1>1
<1>3. Weight(off, n) = g[n]
  BY DEF Weight
<1> HIDE DEF g
<1>4. /\ g[0] = 0
      /\ \A i \in 1 .. n : g[i] = g[i - 1] + wire[off + i] * Place[i]
  <2>1. \A i \in 0 .. n : g[i] = IF i = 0 THEN 0 ELSE g[i - 1] + wire[off + i] * Place[i]
    BY <1>2
  <2>2. 0 \in 0 .. n /\ \A i \in 1 .. n : i \in 0 .. n /\ i # 0
    OBVIOUS
  <2> QED BY <2>1, <2>2
<1> DEFINE T == {i \in 0 .. n : g[i] # sum[i]}
<1>5. T = {}
  <2> SUFFICES ASSUME T # {} PROVE FALSE
    OBVIOUS
  <2>1. PICK m \in T : \A k \in T : m <= k
    <3>1. T \in SUBSET Nat
      OBVIOUS
    <3> HIDE DEF T
    <3> QED BY <3>1, LeastNat
  <2>2. m # 0
    BY <1>4, <2>1
  <2>3. m \in 1 .. n /\ m - 1 \in 0 .. n /\ m - 1 \notin T
    BY <2>1, <2>2
  <2>4. g[m - 1] = sum[m - 1]
    BY <2>3
  <2>5. g[m] = sum[m]
    BY <1>4, <2>3, <2>4
  <2> QED BY <2>1, <2>5
<1> QED BY <1>3, <1>5

\* It is what the decoders compute.
LEMMA WeightDecodes ==
  ASSUME wire \in Seq(Byte), NEW off \in Nat
  PROVE  /\ off + 2 <= Len(wire) => Weight(off, 2) = decode_u16(From(wire, off))
         /\ off + 4 <= Len(wire) => Weight(off, 4) = decode_u32(From(wire, off))
         /\ off + 8 <= Len(wire) => Weight(off, 8) = decode_u64(From(wire, off))
<1> DEFINE b == From(wire, off)
          t(i) == b[i] * Place[i]
          s == <<t(1), t(1) + t(2), t(1) + t(2) + t(3), t(1) + t(2) + t(3) + t(4),
                 t(1) + t(2) + t(3) + t(4) + t(5),
                 t(1) + t(2) + t(3) + t(4) + t(5) + t(6),
                 t(1) + t(2) + t(3) + t(4) + t(5) + t(6) + t(7),
                 t(1) + t(2) + t(3) + t(4) + t(5) + t(6) + t(7) + t(8)>>
          sum(n) == [i \in 0 .. n |-> IF i = 0 THEN 0 ELSE s[i]]
<1>0. Len(wire) \in Nat
  BY LenProperties
<1>1. ASSUME NEW n \in 1 .. 8, off + n <= Len(wire)
      PROVE  \A i \in 1 .. n : b[i] = wire[off + i] /\ b[i] \in Int /\ t(i) \in Int
  <2>1. off \in 0 .. Len(wire) /\ \A i \in 1 .. n : i \in 1 .. Len(wire) - off
    BY <1>0, <1>1
  <2>2. /\ b \in Seq(Byte) /\ Len(b) = Len(wire) - off
        /\ \A i \in 1 .. Len(wire) - off : b[i] = wire[off + i]
    BY <2>1, FromBuffer
  <2>3. \A i \in 1 .. n : b[i] \in Int
    <3>1. \A i \in 1 .. n : b[i] \in Byte
      BY <2>1, <2>2, ElementOfSeq
    <3> QED BY <3>1, PlaceTypes DEF Byte
  <2>4. \A i \in 1 .. 8 : Place[i] \in Int
    BY PlaceTypes DEF Place
  <2> HIDE DEF b
  <2>5. ASSUME NEW i \in 1 .. n PROVE t(i) \in Int
    <3>1. i \in 1 .. 8 /\ b[i] \in Int
      BY <2>3
    <3>2. Place[i] \in Int
      BY <2>4, <3>1
    <3> QED BY <3>1, <3>2
  <2> QED BY <2>1, <2>2, <2>3, <2>5
<1>2. ASSUME NEW n \in {2, 4, 8}, off + n <= Len(wire)
      PROVE  Weight(off, n) = s[n]
  <2> HIDE DEF b
  <2>0. n \in 1 .. 8
    BY <1>2
  <2>1. \A i \in 1 .. n : t(i) \in Int /\ t(i) = wire[off + i] * Place[i]
    BY <1>1, <1>2, <2>0
  <2> HIDE DEF t
  <2>2. /\ \A i \in 1 .. n : s[i] \in Int
        /\ s[1] = t(1) /\ \A i \in 2 .. n : s[i] = s[i - 1] + t(i)
    <3>1. /\ s[1] = t(1) /\ s[2] = s[1] + t(2) /\ s[3] = s[2] + t(3) /\ s[4] = s[3] + t(4)
          /\ s[5] = s[4] + t(5) /\ s[6] = s[5] + t(6) /\ s[7] = s[6] + t(7)
          /\ s[8] = s[7] + t(8)
      OBVIOUS
    <3> HIDE DEF s
    <3>2. ASSUME NEW i \in 2 .. n PROVE s[i] = s[i - 1] + t(i)
      <4>1. i \in {2, 3, 4, 5, 6, 7, 8}
        BY <2>0
      <4> QED BY <3>1, <4>1
    <3> DEFINE T == {i \in 1 .. n : s[i] \notin Int}
    <3>3. T = {}
      <4> SUFFICES ASSUME T # {} PROVE FALSE
        OBVIOUS
      <4>1. T \in SUBSET Nat
        BY <2>0
      <4>2. PICK m \in T : \A k \in T : m <= k
        <5> HIDE DEF T
        <5> QED BY <4>1, LeastNat
      <4>3. m \in 1 .. n /\ s[m] \notin Int /\ t(m) \in Int
        BY <2>1, <4>2
      <4>4. m # 1
        BY <3>1, <4>3
      <4>5. m \in 2 .. n /\ m - 1 \in 1 .. n /\ m - 1 \notin T
        BY <2>0, <4>2, <4>3, <4>4
      <4>6. s[m] = s[m - 1] + t(m) /\ s[m - 1] \in Int
        BY <3>2, <4>5
      <4> QED BY <4>3, <4>6
    <3> QED BY <3>1, <3>2, <3>3
  <2> HIDE DEF s
  <2>3. sum(n) \in [0 .. n -> Int] /\ sum(n)[0] = 0 /\ sum(n)[n] = s[n]
    BY <1>2, <2>2
  <2>4. ASSUME NEW i \in 1 .. n
        PROVE  sum(n)[i] = sum(n)[i - 1] + wire[off + i] * Place[i]
    <3>1. t(i) = wire[off + i] * Place[i] /\ t(i) \in Int /\ s[i] \in Int
      BY <2>1, <2>2
    <3>2. CASE i = 1
      <4>1. sum(n)[i] = s[1] /\ sum(n)[i - 1] = 0
        BY <1>2, <3>2
      <4> QED BY <2>2, <3>1, <3>2, <4>1
    <3>3. CASE i # 1
      <4>1. i \in 2 .. n /\ i \in 0 .. n /\ i - 1 \in 0 .. n /\ i - 1 # 0
        BY <1>2, <3>3
      <4>2. sum(n)[i] = s[i] /\ sum(n)[i - 1] = s[i - 1]
        BY <4>1
      <4> HIDE DEF sum
      <4> QED BY <2>2, <3>1, <4>1, <4>2
    <3> QED BY <3>2, <3>3
  <2> HIDE DEF sum
  <2> DEFINE w == sum(n)
  <2>5. /\ w \in [0 .. n -> Int] /\ w[0] = 0 /\ w[n] = s[n] /\ n \in Nat
        /\ \A i \in 1 .. n : w[i] = w[i - 1] + wire[off + i] * Place[i]
    BY <2>0, <2>3, <2>4
  <2> HIDE DEF w
  <2> QED BY <2>5, WeightUnfolds
<1>3. ASSUME NEW n \in {2, 4, 8}, off + n <= Len(wire)
      PROVE  /\ t(1) = b[1] /\ t(2) = b[2] * Base
             /\ n >= 4 => t(3) = b[3] * Base2 /\ t(4) = b[4] * Base3
             /\ n = 8 => t(5) = b[5] * Base4 /\ t(6) = b[6] * Base5
                         /\ t(7) = b[7] * Base6 /\ t(8) = b[8] * Base7
  <2>1. n \in 1 .. 8 /\ 1 \in 1 .. n
    BY <1>3
  <2>2. b[1] \in Int
    BY <1>1, <1>3, <2>1
  <2> HIDE DEF b
  <2> QED BY <1>3, <2>2 DEF Place
<1>4. /\ s[2] = t(1) + t(2) /\ s[4] = t(1) + t(2) + t(3) + t(4)
      /\ s[8] = t(1) + t(2) + t(3) + t(4) + t(5) + t(6) + t(7) + t(8)
  <2> HIDE DEF t
  <2> QED OBVIOUS
<1> HIDE DEF b, t, s
<1>5. off + 2 <= Len(wire) => Weight(off, 2) = decode_u16(b)
  BY <1>2, <1>3, <1>4 DEF decode_u16
<1>6. off + 4 <= Len(wire) => Weight(off, 4) = decode_u32(b)
  BY <1>2, <1>3, <1>4 DEF decode_u32
<1>7. off + 8 <= Len(wire) => Weight(off, 8) = decode_u64(b)
  BY <1>2, <1>3, <1>4 DEF decode_u64
<1> QED BY <1>5, <1>6, <1>7 DEF b

-----------------------------------------------------------------------------
\* The fields of an image, read where they lie.
FieldsWeigh ==
  CASE kind = "FileHeader" -> /\ Weight(8, 4) = value.version
                              /\ Weight(12, 4) = value.topic_count
                              /\ Weight(16, 8) = value.created_at_ns
    [] kind = "TopicMetaEntry" -> /\ Weight(0, 2) = value.topic_id
                                  /\ Weight(2, 4) = value.struct_size
    [] kind = "RecordHeader" -> /\ Weight(0, 2) = value.topic_id
                                /\ Weight(2, 8) = value.stamp_ns
                                /\ Weight(10, 8) = value.seq
    [] kind = "IndexEntry" -> /\ Weight(0, 8) = value.stamp_ns
                              /\ Weight(8, 8) = value.byte_offset
                              /\ Weight(16, 2) = value.topic_id
    [] kind = "JoyMsgs" -> /\ Weight(0, 8) = value.timestamp
                           /\ Weight(8, 4) = value.axis0
                           /\ Weight(12, 4) = value.axis2

\* What the decoders find at an offset is the field that was written there.
LEMMA ImageWeighs ==
  ASSUME ValueTyped, wire = Serialize
  PROVE  FieldsWeigh
<1> wire \in Seq(Byte)
  BY ImageSize
<1>0. /\ wire \o <<>> = wire /\ From(wire, 0) = wire /\ <<>> \in Seq(Byte)
      /\ Len(wire) = StepSize
  BY FromStart, ImageSize
<1>1. Deserialize(wire) = Expected
  BY <1>0, ImageRead
<1>2. CASE kind = "FileHeader" /\ value \in FileHeaderType
  <2>1. DeserializeFileHeader(wire) = value /\ Len(wire) = 32
    BY <1>0, <1>1, <1>2, Kinds DEF Expected, StepSize, kFileHeaderWireSize
  <2>2. /\ decode_u32(From(wire, 8)) = value.version
        /\ decode_u32(From(wire, 12)) = value.topic_count
        /\ decode_u64(From(wire, 16)) = value.created_at_ns
    BY <2>1 DEF DeserializeFileHeader
  <2>3. /\ Weight(8, 4) = decode_u32(From(wire, 8))
        /\ Weight(12, 4) = decode_u32(From(wire, 12))
        /\ Weight(16, 8) = decode_u64(From(wire, 16))
    BY <2>1, WeightDecodes
  <2> QED BY <1>2, <2>2, <2>3 DEF FieldsWeigh
<1>3. CASE kind = "TopicMetaEntry" /\ value \in TopicMetaType
  <2>1. /\ DeserializeTopicMeta(wire) = [value EXCEPT !.name = Truncated(value.name)]
        /\ Len(wire) = 6 + NameBytes /\ NameBytes \in Nat
    BY <1>0, <1>1, <1>3, Kinds, WireAssumption DEF Expected, StepSize, kTopicMetaWireSize
  <2>2. /\ decode_u16(From(wire, 0)) = value.topic_id
        /\ decode_u32(From(wire, 2)) = value.struct_size
    BY <1>0, <1>3, <2>1 DEF DeserializeTopicMeta, TopicMetaType
  <2>3. /\ Weight(0, 2) = decode_u16(From(wire, 0))
        /\ Weight(2, 4) = decode_u32(From(wire, 2))
    BY <2>1, WeightDecodes
  <2> QED BY <1>3, <2>2, <2>3 DEF FieldsWeigh
<1>4. CASE kind = "RecordHeader" /\ value \in RecordHeaderType
  <2>1. DeserializeRecordHeader(wire) = value /\ Len(wire) = 18
    BY <1>0, <1>1, <1>4, Kinds DEF Expected, StepSize, kRecordHeaderWireSize
  <2>2. /\ decode_u16(From(wire, 0)) = value.topic_id
        /\ decode_u64(From(wire, 2)) = value.stamp_ns
        /\ decode_u64(From(wire, 10)) = value.seq
    BY <1>0, <2>1 DEF DeserializeRecordHeader
  <2>3. /\ Weight(0, 2) = decode_u16(From(wire, 0))
        /\ Weight(2, 8) = decode_u64(From(wire, 2))
        /\ Weight(10, 8) = decode_u64(From(wire, 10))
    BY <2>1, WeightDecodes
  <2> QED BY <1>4, <2>2, <2>3 DEF FieldsWeigh
<1>5. CASE kind = "IndexEntry" /\ value \in IndexEntryType
  <2>1. DeserializeIndexEntry(wire) = value /\ Len(wire) = 18
    BY <1>0, <1>1, <1>5, Kinds DEF Expected, StepSize, kIndexEntryWireSize
  <2>2. /\ decode_u64(From(wire, 0)) = value.stamp_ns
        /\ decode_u64(From(wire, 8)) = value.byte_offset
        /\ decode_u16(From(wire, 16)) = value.topic_id
    BY <1>0, <2>1 DEF DeserializeIndexEntry
  <2>3. /\ Weight(0, 8) = decode_u64(From(wire, 0))
        /\ Weight(8, 8) = decode_u64(From(wire, 8))
        /\ Weight(16, 2) = decode_u16(From(wire, 16))
    BY <2>1, WeightDecodes
  <2> QED BY <1>5, <2>2, <2>3 DEF FieldsWeigh
<1>6. CASE kind = "JoyMsgs" /\ value \in JoyMsgsType
  <2>1. DecodePayload(wire) = value /\ Len(wire) = 22
    BY <1>0, <1>1, <1>6, Kinds DEF Expected, StepSize, JoyWireSize
  <2>2. /\ decode_u64(From(wire, 0)) = value.timestamp
        /\ decode_u32(From(wire, 8)) = value.axis0
        /\ decode_u32(From(wire, 12)) = value.axis2
    BY <1>0, <2>1 DEF DecodePayload
  <2>3. /\ Weight(0, 8) = decode_u64(From(wire, 0))
        /\ Weight(8, 4) = decode_u32(From(wire, 8))
        /\ Weight(12, 4) = decode_u32(From(wire, 12))
    BY <2>1, WeightDecodes
  <2> QED BY <1>6, <2>2, <2>3 DEF FieldsWeigh
<1> QED BY <1>2, <1>3, <1>4, <1>5, <1>6 DEF ValueTyped

(***************************************************************************)
(* The multi-byte fields of an image lie at the offsets of the format,     *)
(* least significant byte first.                                           *)
(***************************************************************************)
THEOREM CodecLittleEndian == CodecSpec => []LittleEndian
<1>1. CodecInv => LittleEndian
  BY ImageWeighs DEF CodecInv, LittleEndian, FieldsWeigh
<1> QED BY <1>1, CodecAlways, PTL

=============================================================================
