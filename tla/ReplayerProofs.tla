--------------------------- MODULE ReplayerProofs ---------------------------
(***************************************************************************)
(* For every Base, registry, set of sessions and cut of their files, and   *)
(* for every file that is no recording at all: the replayer reads inside   *)
(* the mapping, republishes nothing before its time and cannot loop; of a  *)
(* recording it republishes exactly the whole records, as they were        *)
(* recorded.                                                               *)
(***************************************************************************)
EXTENDS Replayer, WireFormatProofs

-----------------------------------------------------------------------------
(* What holds of every file, whatever bytes it has.                        *)

\* While Run sleeps it has found a whole record, and the first one fixed t0.
Awaited == pc = "sleep" => RecordAvailable /\ t0.have

\* What by_id_ knows comes from the table that was parsed.
ByIdFromTable ==
  \A id \in DOMAIN by_id_ : \E j \in 1 .. Len(topics_) :
    topics_[j].topic_id = id /\ topics_[j].wire_size = by_id_[id]

\* Run starts only when the hook has accepted every topic of the table.
HookedMatch ==
  /\ \A j \in 1 .. hooked : Matches(topics_[j])
  /\ pc \in {"walk", "sleep"} => hooked = Len(topics_)

ReadInv == RTypeOK /\ Awaited /\ ByIdFromTable /\ HookedMatch

-----------------------------------------------------------------------------
(* What holds of the file of a session, cut anywhere.                      *)

Recorded ==
  /\ session \in Sessions
  /\ \E n \in 0 .. Len(Image(session)) : file = SubSeq(Image(session), 1, n)

\* The table read so far is the one that was recorded.
TableRead ==
  /\ pc = "open" => topics_ = <<>>
  /\ pc \notin {"open", "failed"} =>
       /\ topic_count = Len(session.topics)
       /\ Len(topics_) <= topic_count
       /\ \A j \in 1 .. Len(topics_) :
            /\ topics_[j].topic_id = session.topics[j].topic_id
            /\ topics_[j].wire_size = session.topics[j].wire_size
            /\ topics_[j].topic_id \in DOMAIN by_id_
            /\ by_id_[topics_[j].topic_id] = topics_[j].wire_size
       /\ pc = "topics" =>
            offset = kFileHeaderWireSize + Len(topics_) * kTopicMetaWireSize
       /\ pc # "topics" => Len(topics_) = topic_count

\* What was published is what was recorded.
AsRecorded ==
  \A i \in DOMAIN published :
    /\ i \in DOMAIN session.records
    /\ published[i].topic_id = session.records[i].topic_id
    /\ published[i].stamp_ns = session.records[i].stamp_ns
    /\ published[i].payload = session.records[i].payload

\* The records read so far are the first ones that were recorded.
RecordsRead ==
  /\ pc \in {"open", "topics", "hook", "failed"} => published = <<>>
  /\ pc \in {"hook", "walk", "sleep"} \/ (pc = "done" /\ topics_ # <<>>) =>
       /\ Len(published) <= Len(session.records)
       /\ offset = Len(Images(session)[Len(published)])
  /\ pc = "done" => IF topics_ = <<>> THEN published = <<>> ELSE ~RecordAvailable
  /\ AsRecorded

ReplayInv == ReadInv /\ Recorded /\ TableRead /\ RecordsRead

-----------------------------------------------------------------------------
(* Every file: types and reads.                                            *)

\* Whatever the bytes, the header of a record has its types.
LEMMA RecordHeaderInRange ==
  ASSUME NEW in \in Seq(Byte), NEW off \in Nat, off + kRecordHeaderWireSize <= Len(in)
  PROVE  DeserializeRecordHeader(From(in, off)) \in RecordHeaderType
<1> DEFINE X == From(in, off)
<1>0. Len(in) \in Nat /\ off + 18 <= Len(in)
  BY LenProperties DEF kRecordHeaderWireSize
<1>1. off \in 0 .. Len(in)
  BY <1>0
<1>2. X \in Seq(Byte) /\ Len(X) = Len(in) - off
  BY <1>1, FromBuffer
<1> HIDE DEF X
<1>3. 0 + 2 <= Len(X) /\ 2 + 8 <= Len(X) /\ 10 + 8 <= Len(X)
  BY <1>0, <1>2
<1>4. /\ decode_u16(From(X, 0)) \in U16 /\ decode_u64(From(X, 2)) \in U64
      /\ decode_u64(From(X, 10)) \in U64
  BY <1>2, <1>3, ReadInRange
<1>5. DeserializeRecordHeader(X) \in RecordHeaderType
  BY <1>2, <1>4, FromStart DEF DeserializeRecordHeader, RecordHeaderType
<1> QED BY <1>5 DEF X

\* Whatever the bytes, the entry of a topic has its types.
LEMMA TopicMetaInRange ==
  ASSUME NEW in \in Seq(Byte), NEW off \in Nat, off + kTopicMetaWireSize <= Len(in)
  PROVE  DeserializeTopicMeta(From(in, off)) \in TopicMetaType
<1> DEFINE X == From(in, off)
           f == SubSeq(X, 7, 6 + NameBytes)
<1>0. Len(in) \in Nat /\ NameBytes \in Nat \ {0} /\ off + 6 + NameBytes <= Len(in)
  BY LenProperties, WireAssumption DEF kTopicMetaWireSize
<1>1. off \in 0 .. Len(in)
  BY <1>0
<1>2. X \in Seq(Byte) /\ Len(X) = Len(in) - off
  BY <1>1, FromBuffer
<1> HIDE DEF X
<1>3. 0 + 2 <= Len(X) /\ 2 + 4 <= Len(X) /\ 6 + NameBytes <= Len(X) /\ Len(X) \in Nat
  BY <1>0, <1>2
<1>4. decode_u16(From(X, 0)) \in U16 /\ decode_u32(From(X, 2)) \in U32
  BY <1>2, <1>3, ReadInRange
<1>5. f \in Seq(Byte)
  <2>1. \A i \in 7 .. 6 + NameBytes : i \in 1 .. Len(X) /\ X[i] \in Byte
    BY <1>0, <1>2, <1>3, ElementOfSeq
  <2>2. f \in [1 .. NameBytes -> Byte]
    <3>1. 6 + NameBytes - 7 + 1 = NameBytes
      BY <1>0
    <3>2. \A i \in 1 .. NameBytes : i + 7 - 1 \in 7 .. 6 + NameBytes
      BY <1>0
    <3>3. f = [i \in 1 .. NameBytes |-> X[i + 7 - 1]]
      BY <1>0, <1>2, <3>1
    <3> QED BY <2>1, <3>2, <3>3
  <2> HIDE DEF f
  <2> QED BY <1>0, <2>2, TupleIsSeq
<1>6. CString(f) \in Seq(Byte \ {0})
  BY <1>5, CStringType
<1>7. DeserializeTopicMeta(X) \in TopicMetaType
  BY <1>2, <1>4, <1>6, FromStart DEF DeserializeTopicMeta, TopicMetaType
<1> QED BY <1>7 DEF X

\* Whatever the bytes, the number of topics is a u32.
LEMMA TopicCountInRange ==
  ASSUME NEW in \in Seq(Byte), Len(in) >= kFileHeaderWireSize
  PROVE  DeserializeFileHeader(in).topic_count \in U32
<1>1. 12 + 4 <= Len(in)
  BY LenProperties DEF kFileHeaderWireSize
<1>2. decode_u32(From(in, 12)) \in U32
  BY <1>1, ReadInRange
<1> QED BY <1>2 DEF DeserializeFileHeader

-----------------------------------------------------------------------------
(* The image of a session.                                                 *)

\* The header of a session's file and the parts of it that follow the table.
FileHeaderOf(s) ==
  [version |-> kFormatVersion, topic_count |-> Len(s.topics), created_at_ns |-> s.created]
MetaOf(topic) ==
  [topic_id |-> topic.topic_id, struct_size |-> topic.wire_size, name |-> topic.name]
HeaderOf(r) == [topic_id |-> r.topic_id, stamp_ns |-> r.stamp_ns, seq |-> r.seq]
Preamble(s) == WriteFileHeaderAndMetadata(s.topics, s.created)
Parts(s) == [i \in 1 .. Len(s.records) |-> WriteRecord(s.records[i])]

\* What a session consists of.
LEMMA SessionTypes ==
  ASSUME NEW s \in Sessions
  PROVE  /\ s.topics \in Seq(TopicType) /\ s.records \in Seq(RecordType)
         /\ Len(s.topics) \in Nat /\ Len(s.records) \in Nat
         /\ \A j \in 1 .. Len(s.topics) : MetaOf(s.topics[j]) \in TopicMetaType
         /\ FileHeaderOf(s) \in FileHeaderType
         /\ \A n \in 1 .. Len(s.records) :
              /\ HeaderOf(s.records[n]) \in RecordHeaderType
              /\ s.records[n].payload \in Seq(Byte)
<1>1. /\ s \in [topics : Seq(TopicType), created : U64, records : Seq(RecordType)]
      /\ Len(s.topics) \in U32
  BY ReplayAssumption
<1>2. s.topics \in Seq(TopicType) /\ s.records \in Seq(RecordType) /\ s.created \in U64
  BY <1>1
<1>3. Len(s.topics) \in Nat /\ Len(s.records) \in Nat
  BY <1>2, LenProperties
<1>4. ASSUME NEW j \in 1 .. Len(s.topics) PROVE MetaOf(s.topics[j]) \in TopicMetaType
  <2>1. s.topics[j] \in TopicType
    BY <1>2, ElementOfSeq
  <2> QED BY <2>1 DEF TopicType, MetaOf, TopicMetaType
<1>5. FileHeaderOf(s) \in FileHeaderType
  <2>1. kFormatVersion \in U32
    <3>1. Base \in Nat /\ Base >= 2
      BY WireAssumption
    <3>2. \A a, b \in Nat : a >= 2 /\ b >= 2 => a * b \in Nat /\ a * b >= 2
      OBVIOUS
    <3>3. Base2 \in Nat /\ Base2 >= 2
      BY <3>1, <3>2 DEF Base2
    <3>4. Base3 \in Nat /\ Base3 >= 2
      BY <3>1, <3>2, <3>3 DEF Base3
    <3>5. Base4 \in Nat /\ Base4 >= 2
      BY <3>1, <3>2, <3>4 DEF Base4
    <3> QED BY <3>5 DEF U32, kFormatVersion
  <2> QED BY <1>1, <1>2, <2>1 DEF FileHeaderOf, FileHeaderType
<1>6. ASSUME NEW n \in 1 .. Len(s.records)
      PROVE  /\ HeaderOf(s.records[n]) \in RecordHeaderType
             /\ s.records[n].payload \in Seq(Byte)
  <2>1. s.records[n] \in RecordType
    BY <1>2, ElementOfSeq
  <2> QED BY <2>1 DEF RecordType, HeaderOf, RecordHeaderType
<1> QED BY <1>2, <1>3, <1>4, <1>5, <1>6

\* The entries of the table are parts of one size.
LEMMA TableEntries ==
  ASSUME NEW s \in Sessions
  PROVE  /\ TopicEntries(s.topics) \in Seq(Seq(Byte))
         /\ Len(TopicEntries(s.topics)) = Len(s.topics)
         /\ \A j \in 1 .. Len(s.topics) :
              /\ TopicEntries(s.topics)[j] = SerializeTopicMeta(MetaOf(s.topics[j]))
              /\ Len(TopicEntries(s.topics)[j]) = kTopicMetaWireSize
<1> DEFINE E == TopicEntries(s.topics)
           n == Len(s.topics)
<1>0. n \in Nat
  BY SessionTypes
<1>1. E = [j \in 1 .. n |-> SerializeTopicMeta(MetaOf(s.topics[j]))]
  BY DEF TopicEntries, MetaOf
<1>2. \A j \in 1 .. n : /\ SerializeTopicMeta(MetaOf(s.topics[j])) \in Seq(Byte)
                        /\ Len(SerializeTopicMeta(MetaOf(s.topics[j]))) = kTopicMetaWireSize
  BY SessionTypes, TopicMetaSize
<1> HIDE DEF E, n
<1>3. E \in [1 .. n -> Seq(Byte)]
  BY <1>1, <1>2
<1>4. E \in Seq(Seq(Byte)) /\ Len(E) = n
  BY <1>0, <1>3, TupleIsSeq
<1> QED BY <1>1, <1>2, <1>4 DEF E, n

\* After k entries the table has k times the size of one.
LEMMA TableSize ==
  ASSUME NEW s \in Sessions, NEW k \in 0 .. Len(s.topics)
  PROVE  Len(Appended(<<>>, TopicEntries(s.topics))[k]) = k * kTopicMetaWireSize
<1> DEFINE E == TopicEntries(s.topics)
           n == Len(s.topics)
           A == Appended(<<>>, E)
           T == {m \in 0 .. n : Len(A[m]) # m * kTopicMetaWireSize}
<1>0. n \in Nat /\ kTopicMetaWireSize \in Nat
  BY SessionTypes, WireAssumption DEF kTopicMetaWireSize
<1>1. /\ E \in Seq(Seq(Byte)) /\ Len(E) = n
      /\ \A j \in 1 .. n : E[j] \in Seq(Byte) /\ Len(E[j]) = kTopicMetaWireSize
  BY TableEntries, ElementOfSeq
<1> HIDE DEF E
<1>2. Accumulates(A, Byte, <<>>, E)
  <2>1. <<>> \in Seq(Byte)
    OBVIOUS
  <2> QED BY <1>1, <2>1, AppendedUnfolds
<1> HIDE DEF A
<1>3. /\ A \in [0 .. n -> Seq(Byte)] /\ A[0] = <<>>
      /\ \A i \in 1 .. n : A[i] = A[i - 1] \o E[i]
  BY <1>1, <1>2 DEF Accumulates
<1> HIDE DEF n
<1>4. SUFFICES ASSUME T # {} PROVE FALSE
  BY <1>4 DEF A, E, n
<1>5. PICK m \in T : \A i \in T : m <= i
  <2>1. T \in SUBSET Nat
    BY <1>0
  <2> HIDE DEF T
  <2> QED BY <1>4, <2>1, LeastNat
<1>6. m \in 0 .. n
  BY <1>5
<1>7. m # 0
  <2>1. Len(A[0]) = 0 /\ 0 * kTopicMetaWireSize = 0
    BY <1>0, <1>3
  <2> QED BY <1>5, <2>1
<1>8. m \in 1 .. n /\ m - 1 \in 0 .. n /\ m \in Nat
  BY <1>0, <1>6, <1>7
<1>9. Len(A[m - 1]) = (m - 1) * kTopicMetaWireSize
  <2>1. ~(m <= m - 1)
    BY <1>8
  <2>2. m - 1 \notin T
    <3> HIDE DEF T
    <3> QED BY <1>5, <2>1
  <2> QED BY <1>8, <2>2
<1>10. Len(A[m]) = Len(A[m - 1]) + Len(E[m])
  <2>1. A[m] = A[m - 1] \o E[m] /\ A[m - 1] \in Seq(Byte) /\ E[m] \in Seq(Byte)
    BY <1>1, <1>3, <1>8
  <2> QED BY <2>1, TwoParts
<1>11. (m - 1) * kTopicMetaWireSize + kTopicMetaWireSize = m * kTopicMetaWireSize
  BY <1>0, <1>8
<1> QED BY <1>1, <1>5, <1>8, <1>9, <1>10, <1>11

\* The preamble: the file header and, behind it, the entries of the table.
LEMMA PreambleLayout ==
  ASSUME NEW s \in Sessions
  PROVE  /\ Preamble(s) \in Seq(Byte)
         /\ Len(Preamble(s)) = kFileHeaderWireSize + Len(s.topics) * kTopicMetaWireSize
         /\ Holds(Preamble(s), 0, SerializeFileHeader(FileHeaderOf(s)))
         /\ \A j \in 1 .. Len(s.topics) :
              Holds(Preamble(s), kFileHeaderWireSize + (j - 1) * kTopicMetaWireSize,
                    SerializeTopicMeta(MetaOf(s.topics[j])))
<1> DEFINE H == SerializeFileHeader(FileHeaderOf(s))
           E == TopicEntries(s.topics)
           n == Len(s.topics)
           A == Appended(<<>>, E)
           table == A[n]
<1>0. /\ n \in Nat /\ kTopicMetaWireSize \in Nat /\ kFileHeaderWireSize \in Nat
      /\ <<>> \in Seq(Byte)
  BY SessionTypes, WireAssumption DEF kTopicMetaWireSize, kFileHeaderWireSize
<1>1. /\ E \in Seq(Seq(Byte)) /\ Len(E) = n
      /\ \A j \in 1 .. n : E[j] = SerializeTopicMeta(MetaOf(s.topics[j]))
      /\ \A j \in 1 .. n : E[j] \in Seq(Byte) /\ Len(E[j]) = kTopicMetaWireSize
  BY TableEntries, ElementOfSeq
<1>2. H \in Seq(Byte) /\ Len(H) = kFileHeaderWireSize
  BY SessionTypes, FileHeaderSize
<1>3. Preamble(s) = H \o table
  BY DEF Preamble, WriteFileHeaderAndMetadata, FileHeaderOf, TopicTable
<1>4. \A k \in 0 .. n : Len(A[k]) = k * kTopicMetaWireSize
  BY TableSize
<1> HIDE DEF E, H
<1>5. A \in [0 .. n -> Seq(Byte)]
  <2>1. Accumulates(A, Byte, <<>>, E)
    BY <1>0, <1>1, AppendedUnfolds
  <2> QED BY <1>1, <2>1 DEF Accumulates
<1>6. \A j \in 1 .. n : Holds(A[n], Len(A[j - 1]), E[j])
  <2> SUFFICES ASSUME NEW j \in 1 .. n PROVE Holds(A[n], Len(A[j - 1]), E[j])
    OBVIOUS
  <2>1. n \in j .. Len(E) /\ j \in 1 .. Len(E)
    BY <1>0, <1>1
  <2> QED BY <1>0, <1>1, <2>1, AppendedHolds
<1> HIDE DEF A, n
<1>7. table \in Seq(Byte) /\ Len(table) = n * kTopicMetaWireSize
  BY <1>0, <1>4, <1>5
<1> HIDE DEF table
<1>8. /\ Preamble(s) \in Seq(Byte)
      /\ Len(Preamble(s)) = kFileHeaderWireSize + n * kTopicMetaWireSize
  <2>1. H \o table \in Seq(Byte) /\ Len(H \o table) = Len(H) + Len(table)
    BY <1>2, <1>7, TwoParts
  <2> QED BY <1>2, <1>3, <1>7, <2>1
<1>9. Holds(Preamble(s), 0, H) /\ Holds(Preamble(s), kFileHeaderWireSize, table)
  <2>1. Holds(H \o table, 0, H) /\ Holds(H \o table, Len(H), table)
    BY <1>2, <1>7, HoldsItself
  <2> QED BY <1>2, <1>3, <2>1
<1>10. ASSUME NEW j \in 1 .. n
       PROVE  Holds(Preamble(s), kFileHeaderWireSize + (j - 1) * kTopicMetaWireSize, E[j])
  <2>1. j - 1 \in 0 .. n /\ j - 1 \in Nat /\ E[j] \in Seq(Byte)
    BY <1>0, <1>1
  <2>2. Holds(table, (j - 1) * kTopicMetaWireSize, E[j])
    BY <1>4, <1>6, <2>1 DEF table
  <2>3. (j - 1) * kTopicMetaWireSize \in Nat
    BY <1>0, <2>1
  <2> QED BY <1>0, <1>7, <1>8, <1>9, <2>1, <2>2, <2>3, HoldsInner
<1> QED BY <1>1, <1>8, <1>9, <1>10 DEF H, n

\* The images of a session grow by a record at a time.
LEMMA ImagesGrow ==
  ASSUME NEW s \in Sessions
  PROVE  /\ Parts(s) \in Seq(Seq(Byte)) /\ Len(Parts(s)) = Len(s.records)
         /\ Accumulates(Images(s), Byte, Preamble(s), Parts(s))
         /\ \A k \in 1 .. Len(s.records) :
              /\ Parts(s)[k] = SerializeRecordHeader(HeaderOf(s.records[k]))
                                 \o s.records[k].payload
              /\ Parts(s)[k] \in Seq(Byte)
              /\ Len(Parts(s)[k]) = kRecordHeaderWireSize + Len(s.records[k].payload)
<1> DEFINE P == Parts(s)
           n == Len(s.records)
           W(k) == SerializeRecordHeader(HeaderOf(s.records[k])) \o s.records[k].payload
<1>0. n \in Nat
  BY SessionTypes
<1>1. ASSUME NEW k \in 1 .. n
      PROVE  /\ WriteRecord(s.records[k]) = W(k)
             /\ W(k) \in Seq(Byte)
             /\ Len(W(k)) = kRecordHeaderWireSize + Len(s.records[k].payload)
  <2> DEFINE h == SerializeRecordHeader(HeaderOf(s.records[k]))
             p == s.records[k].payload
  <2>1. h \in Seq(Byte) /\ Len(h) = kRecordHeaderWireSize /\ p \in Seq(Byte)
    BY SessionTypes, RecordHeaderSize
  <2>2. WriteRecord(s.records[k]) = h \o p
    BY DEF WriteRecord, HeaderOf
  <2> HIDE DEF h, p
  <2>3. h \o p \in Seq(Byte) /\ Len(h \o p) = Len(h) + Len(p)
    BY <2>1, TwoParts
  <2> QED BY <2>1, <2>2, <2>3 DEF h, p
<1> HIDE DEF W
<1>2. P = [k \in 1 .. n |-> W(k)]
  BY <1>1 DEF Parts
<1>3. P \in [1 .. n -> Seq(Byte)]
  <2> HIDE DEF P
  <2> QED BY <1>1, <1>2
<1> HIDE DEF n
<1>4. P \in Seq(Seq(Byte)) /\ Len(P) = n
  BY <1>0, <1>3, TupleIsSeq
<1>5. Images(s) = Appended(Preamble(s), P)
  BY DEF Images, Preamble, Parts
<1>6. Accumulates(Images(s), Byte, Preamble(s), P)
  BY <1>4, <1>5, PreambleLayout, AppendedUnfolds
<1> HIDE DEF P
<1>7. \A k \in 1 .. n : P[k] = W(k)
  BY <1>2
<1> QED BY <1>1, <1>4, <1>6, <1>7 DEF P, n, W

\* Where the parts of a session's file are.
LEMMA ImageLayout ==
  ASSUME NEW s \in Sessions
  PROVE  /\ Image(s) \in Seq(Byte)
         /\ Holds(Image(s), 0, SerializeFileHeader(FileHeaderOf(s)))
         /\ \A j \in 1 .. Len(s.topics) :
              Holds(Image(s), kFileHeaderWireSize + (j - 1) * kTopicMetaWireSize,
                    SerializeTopicMeta(MetaOf(s.topics[j])))
         /\ Len(Images(s)[0]) = kFileHeaderWireSize + Len(s.topics) * kTopicMetaWireSize
         /\ \A k \in 0 .. Len(s.records) : Len(Images(s)[k]) \in Nat
         /\ \A k \in 1 .. Len(s.records) :
              /\ Len(Images(s)[k]) = Len(Images(s)[k - 1])
                                       + (kRecordHeaderWireSize + Len(s.records[k].payload))
              /\ Holds(Image(s), Len(Images(s)[k - 1]),
                       SerializeRecordHeader(HeaderOf(s.records[k])) \o s.records[k].payload)
         /\ \A i \in 0 .. Len(s.records) : \A j \in i .. Len(s.records) :
              Len(Images(s)[i]) <= Len(Images(s)[j])
<1> DEFINE P == Parts(s)
           n == Len(s.records)
           I == Images(s)
           pre == Preamble(s)
<1>0. n \in Nat
  BY SessionTypes
<1>1. P \in Seq(Seq(Byte)) /\ Len(P) = n /\ Accumulates(I, Byte, pre, P)
  BY ImagesGrow
<1>2. /\ I \in [0 .. n -> Seq(Byte)] /\ I[0] = pre
      /\ \A k \in 1 .. n : I[k] = I[k - 1] \o P[k]
  BY <1>1 DEF Accumulates
<1>3. I = Appended(pre, P) /\ Image(s) = I[n] /\ pre \in Seq(Byte)
  BY PreambleLayout DEF Images, Preamble, Parts, Image
<1>4. Image(s) \in Seq(Byte) /\ \A k \in 0 .. n : I[k] \in Seq(Byte) /\ Len(I[k]) \in Nat
  BY <1>0, <1>2, <1>3, LenProperties
<1>5. \A i \in 0 .. n : \A j \in i .. n : Holds(I[j], 0, I[i])
  BY <1>1, <1>3, AppendedKeeps
<1>6. \A k \in 1 .. n : Holds(Image(s), Len(I[k - 1]), P[k])
  <2> SUFFICES ASSUME NEW k \in 1 .. n PROVE Holds(Image(s), Len(I[k - 1]), P[k])
    OBVIOUS
  <2>1. n \in k .. Len(P) /\ k \in 1 .. Len(P)
    BY <1>0, <1>1
  <2> QED BY <1>1, <1>3, <2>1, AppendedHolds
<1> HIDE DEF P, I, n, pre
<1>7. Holds(Image(s), 0, pre)
  <2>1. 0 \in 0 .. n /\ n \in 0 .. n
    BY <1>0
  <2> QED BY <1>2, <1>3, <1>5, <2>1
<1>8. Holds(Image(s), 0, SerializeFileHeader(FileHeaderOf(s)))
  <2>1. Holds(pre, 0, SerializeFileHeader(FileHeaderOf(s)))
    BY PreambleLayout DEF pre
  <2>2. SerializeFileHeader(FileHeaderOf(s)) \in Seq(Byte)
    BY SessionTypes, FileHeaderSize
  <2>3. Holds(Image(s), 0 + 0, SerializeFileHeader(FileHeaderOf(s)))
    BY <1>3, <1>4, <1>7, <2>1, <2>2, HoldsInner
  <2> QED BY <2>3
<1>9. ASSUME NEW j \in 1 .. Len(s.topics)
      PROVE  Holds(Image(s), kFileHeaderWireSize + (j - 1) * kTopicMetaWireSize,
                   SerializeTopicMeta(MetaOf(s.topics[j])))
  <2> DEFINE at == kFileHeaderWireSize + (j - 1) * kTopicMetaWireSize
             e == SerializeTopicMeta(MetaOf(s.topics[j]))
  <2>1. Holds(pre, at, e)
    BY PreambleLayout DEF pre
  <2>2. e \in Seq(Byte)
    BY SessionTypes, TopicMetaSize
  <2>3. at \in Nat /\ 0 + at = at
    <3>1. j - 1 \in Nat /\ kTopicMetaWireSize \in Nat /\ kFileHeaderWireSize \in Nat
      BY SessionTypes, WireAssumption DEF kTopicMetaWireSize, kFileHeaderWireSize
    <3>2. \A a, b, c \in Nat : a + b * c \in Nat
      OBVIOUS
    <3> QED BY <3>1, <3>2
  <2> HIDE DEF at, e
  <2>4. Holds(Image(s), 0 + at, e)
    BY <1>3, <1>4, <1>7, <2>1, <2>2, <2>3, HoldsInner
  <2> QED BY <2>3, <2>4 DEF at, e
<1>10. Len(I[0]) = kFileHeaderWireSize + Len(s.topics) * kTopicMetaWireSize
  BY <1>2, PreambleLayout DEF pre
<1>11. ASSUME NEW k \in 1 .. n
       PROVE  /\ Len(I[k]) = Len(I[k - 1])
                               + (kRecordHeaderWireSize + Len(s.records[k].payload))
              /\ Holds(Image(s), Len(I[k - 1]),
                       SerializeRecordHeader(HeaderOf(s.records[k])) \o s.records[k].payload)
  <2>1. /\ P[k] = SerializeRecordHeader(HeaderOf(s.records[k])) \o s.records[k].payload
        /\ P[k] \in Seq(Byte)
        /\ Len(P[k]) = kRecordHeaderWireSize + Len(s.records[k].payload)
    BY ImagesGrow DEF P, n
  <2>2. k - 1 \in 0 .. n /\ I[k] = I[k - 1] \o P[k] /\ I[k - 1] \in Seq(Byte)
    <3>1. k - 1 \in 0 .. n
      BY <1>0
    <3> QED BY <1>2, <1>4, <3>1
  <2>3. Len(I[k]) = Len(I[k - 1]) + Len(P[k])
    BY <2>1, <2>2, TwoParts
  <2> QED BY <1>6, <2>1, <2>3
<1>12. ASSUME NEW i \in 0 .. n, NEW j \in i .. n PROVE Len(I[i]) <= Len(I[j])
  <2>1. 0 + Len(I[i]) <= Len(I[j])
    BY <1>5 DEF Holds
  <2> QED BY <1>4, <2>1
<1> QED BY <1>4, <1>8, <1>9, <1>10, <1>11, <1>12 DEF I, n

\* A file that is cut still holds what lies before the cut.
LEMMA CutFileHolds ==
  ASSUME Recorded, NEW off \in Nat, NEW part \in Seq(Byte),
         Holds(Image(session), off, part), off + Len(part) <= Len(file)
  PROVE  Holds(file, off, part)
<1>1. PICK n \in 0 .. Len(Image(session)) : file = SubSeq(Image(session), 1, n)
  BY DEF Recorded
<1>2. Image(session) \in Seq(Byte)
  BY ImageLayout DEF Recorded
<1>3. Len(file) = n /\ \A i \in 1 .. n : file[i] = Image(session)[i]
  BY <1>1, <1>2, PrefixOf
<1>4. Len(part) \in Nat /\ n \in Nat
  BY <1>2, LenProperties
<1>5. \A i \in 1 .. Len(part) : off + i \in 1 .. n
  BY <1>3, <1>4
<1> QED BY <1>3, <1>5 DEF Holds

\* The file of a session, cut or not, is made of bytes and no longer than its image.
LEMMA CutFileTypes ==
  ASSUME Recorded
  PROVE  file \in Seq(Byte) /\ Len(file) \in Nat /\ Len(file) <= Len(Image(session))
<1>1. PICK n \in 0 .. Len(Image(session)) : file = SubSeq(Image(session), 1, n)
  BY DEF Recorded
<1>2. Image(session) \in Seq(Byte)
  BY ImageLayout DEF Recorded
<1>3. file \in Seq(Byte) /\ Len(file) = n
  BY <1>1, <1>2, PrefixOf
<1> QED BY <1>2, <1>3, LenProperties

-----------------------------------------------------------------------------
(* ReadInv is preserved by every step, whatever the file.                  *)

\* Whatever holds initially.
LEMMA ReadInitInv == RInit => ReadInv
<1> SUFFICES ASSUME RInit PROVE ReadInv
  OBVIOUS
<1>1. file \in Seq(Byte) /\ session \in Sessions \cup {NoSession}
  <2>1. CASE Recorded
    BY <2>1, CutFileTypes DEF Recorded
  <2>2. CASE session = NoSession /\ file \in OtherFiles
    BY <2>2, ReplayAssumption
  <2> QED BY <2>1, <2>2 DEF RInit, Recorded
<1>2. Len(file) \in Nat
  BY <1>1, LenProperties
<1>3. 0 \in U32 /\ 0 \in U64 /\ now \in 0 .. MaxClock /\ 0 \in 0 .. MaxClock
  BY PlaceTypes, WidthsAreNat, ReplayAssumption DEF U32, U64, RInit
<1>4. RTypeOK
  BY <1>1, <1>2, <1>3 DEF RInit, RTypeOK, NoTopic, file_size_
<1> QED BY <1>4 DEF RInit, ReadInv, Awaited, ByIdFromTable, HookedMatch, NoTopic

\* Open accepting or rejecting the header and the end of the table.
LEMMA ReadOpenInv ==
  ASSUME ReadInv,
         RejectHeader \/ AcceptHeader \/ RejectTopic \/ ParsedTopics \/ RefuseTopic \/ Finish
  PROVE  ReadInv'
<1> USE DEF fileVars, tableVars
<1>1. CASE AcceptHeader
  <2>1. file \in Seq(Byte) /\ Len(file) \in Nat /\ Len(file) >= kFileHeaderWireSize
    BY <1>1, LenProperties DEF AcceptHeader, HeaderAccepted, ReadInv, RTypeOK
  <2>2. DeserializeFileHeader(file).topic_count \in U32
    BY <2>1, TopicCountInRange
  <2>3. kFileHeaderWireSize \in 0 .. Len(file)
    BY <2>1 DEF kFileHeaderWireSize
  <2>4. RTypeOK'
    BY <1>1, <2>2, <2>3 DEF AcceptHeader, ReadInv, RTypeOK, file_size_
  <2> QED BY <1>1, <2>4 DEF AcceptHeader, ReadInv, Awaited, ByIdFromTable, HookedMatch
<1>2. CASE RejectHeader \/ RejectTopic \/ ParsedTopics \/ RefuseTopic \/ Finish
  <2>1. /\ UNCHANGED <<fileVars, tableVars, offset, hooked, t0, published, now>>
        /\ pc' \in {"failed", "hook", "done"}
    BY <1>2 DEF RejectHeader, RejectTopic, ParsedTopics, RefuseTopic, Finish
  <2>2. RTypeOK'
    BY <2>1 DEF ReadInv, RTypeOK, file_size_
  <2> QED BY <2>1, <2>2 DEF ReadInv, Awaited, ByIdFromTable, HookedMatch, Matches
<1> QED BY <1>1, <1>2

\* Whatever the reader takes for a name has no zero in it.
LEMMA StringsAreNames ==
  ASSUME NEW name \in Seq(Byte \ {0}), NEW string \in Strings(name)
  PROVE  string \in Seq(Byte \ {0})
<1>1. PICK more \in Seq(Byte \ {0}) : string = name \o more
  <2>1. <<>> \in Seq(Byte \ {0}) /\ Overrun \subseteq Seq(Byte \ {0})
    BY ReplayAssumption
  <2> QED BY <2>1 DEF Strings
<1> QED BY <1>1, ConcatProperties

\* ParseHeaderAndMetadata reading one entry of the table.
LEMMA ReadParseInv == ASSUME ReadInv, ParseTopic PROVE ReadInv'
<1> USE DEF fileVars, tableVars
<1> DEFINE entry == DeserializeTopicMeta(From(file, offset))
<1>0. /\ file \in Seq(Byte) /\ Len(file) \in Nat /\ offset \in Nat
      /\ topics_ \in Seq(TopicType) /\ Len(topics_) \in Nat
      /\ offset + kTopicMetaWireSize <= Len(file)
      /\ kTopicMetaWireSize \in Nat
  BY LenProperties, WireAssumption
     DEF ParseTopic, ReadInv, RTypeOK, file_size_, kTopicMetaWireSize
<1>1. entry \in TopicMetaType
  BY <1>0, TopicMetaInRange
<1>a. PICK string \in Strings(entry.name) :
        topics_' = Append(topics_, [topic_id |-> entry.topic_id,
                                    wire_size |-> entry.struct_size, name |-> string])
  BY DEF ParseTopic
<1> DEFINE resolved == [topic_id |-> entry.topic_id, wire_size |-> entry.struct_size,
                        name |-> string]
<1>2. /\ topics_' = Append(topics_, resolved)
      /\ by_id_' = [i \in DOMAIN by_id_ \cup {resolved.topic_id} |->
                      IF i = resolved.topic_id THEN resolved.wire_size ELSE by_id_[i]]
      /\ offset' = offset + kTopicMetaWireSize
      /\ pc' = "topics" /\ pc = "topics"
      /\ UNCHANGED <<fileVars, topic_count, hooked, t0, published, now>>
  BY <1>a DEF ParseTopic
<1> HIDE DEF entry
<1>3. resolved \in TopicType /\ resolved.topic_id \in U16 /\ resolved.wire_size \in U32
  <2>1. string \in Seq(Byte \ {0})
    BY <1>1, StringsAreNames DEF TopicMetaType
  <2> QED BY <1>1, <2>1 DEF TopicMetaType, TopicType
<1> HIDE DEF resolved
<1>4. /\ topics_' \in Seq(TopicType) /\ Len(topics_') = Len(topics_) + 1
      /\ \A j \in 1 .. Len(topics_) : topics_'[j] = topics_[j]
      /\ topics_'[Len(topics_) + 1] = resolved
  BY <1>0, <1>2, <1>3, AppendProperties
<1>5. RTypeOK'
  <2>1. DOMAIN by_id_' \subseteq U16 /\ \A i \in DOMAIN by_id_' : by_id_'[i] \in U32
    BY <1>2, <1>3 DEF ReadInv, RTypeOK
  <2>2. offset' \in 0 .. Len(file)
    BY <1>0, <1>2
  <2>3. hooked' \in 0 .. Len(topics_')
    BY <1>0, <1>2, <1>4 DEF ReadInv, RTypeOK
  <2> QED BY <1>2, <1>4, <2>1, <2>2, <2>3 DEF ReadInv, RTypeOK, file_size_
<1>6. ByIdFromTable'
  <2> SUFFICES ASSUME NEW id \in DOMAIN by_id_'
               PROVE  \E j \in 1 .. Len(topics_') :
                        /\ topics_'[j].topic_id = id
                        /\ topics_'[j].wire_size = by_id_'[id]
    BY DEF ByIdFromTable
  <2>1. CASE id = resolved.topic_id
    <3>1. Len(topics_) + 1 \in 1 .. Len(topics_')
      BY <1>0, <1>4
    <3> QED BY <1>2, <1>4, <2>1, <3>1
  <2>2. CASE id # resolved.topic_id
    <3>1. id \in DOMAIN by_id_ /\ by_id_'[id] = by_id_[id]
      BY <1>2, <2>2
    <3>2. PICK j \in 1 .. Len(topics_) :
            topics_[j].topic_id = id /\ topics_[j].wire_size = by_id_[id]
      BY <3>1 DEF ReadInv, ByIdFromTable
    <3>3. j \in 1 .. Len(topics_')
      BY <1>0, <1>4
    <3> QED BY <1>4, <3>1, <3>2, <3>3
  <2> QED BY <2>1, <2>2
<1>7. HookedMatch'
  <2>1. \A j \in 1 .. hooked : j \in 1 .. Len(topics_)
    BY <1>0 DEF ReadInv, RTypeOK
  <2> QED BY <1>2, <1>4, <2>1 DEF ReadInv, HookedMatch, Matches
<1>8. Awaited'
  BY <1>2 DEF Awaited
<1> QED BY <1>5, <1>6, <1>7, <1>8 DEF ReadInv

\* The hook accepting a topic, and Open returning.
LEMMA ReadHookInv == ASSUME ReadInv, AdvertiseTopic \/ Opened PROVE ReadInv'
<1> USE DEF fileVars, tableVars
<1>0. Len(topics_) \in Nat /\ hooked \in 0 .. Len(topics_)
  BY LenProperties DEF ReadInv, RTypeOK
<1>1. CASE AdvertiseTopic
  <2>1. hooked' \in 0 .. Len(topics_)
    BY <1>0, <1>1 DEF AdvertiseTopic
  <2>2. RTypeOK'
    BY <1>1, <2>1 DEF AdvertiseTopic, ReadInv, RTypeOK, file_size_
  <2>3. HookedMatch'
    <3>1. \A j \in 1 .. hooked + 1 : j = hooked + 1 \/ j \in 1 .. hooked
      BY <1>0
    <3> QED BY <1>1, <3>1 DEF AdvertiseTopic, ReadInv, HookedMatch, Matches
  <2> QED BY <1>1, <2>2, <2>3 DEF AdvertiseTopic, ReadInv, Awaited, ByIdFromTable
<1>2. CASE Opened
  <2>1. RTypeOK'
    BY <1>2 DEF Opened, ReadInv, RTypeOK, file_size_
  <2> QED BY <1>2, <2>1 DEF Opened, ReadInv, Awaited, ByIdFromTable, HookedMatch, Matches
<1> QED BY <1>1, <1>2

\* A record that is available is read inside the file.
LEMMA RecordInside ==
  ASSUME RTypeOK, RecordAvailable
  PROVE  /\ HeaderAtOffset \in RecordHeaderType
         /\ by_id_[HeaderAtOffset.topic_id] \in Nat
         /\ PayloadOffset \in Nat
         /\ PayloadOffset + by_id_[HeaderAtOffset.topic_id] \in 0 .. Len(file)
<1>0. file \in Seq(Byte) /\ Len(file) \in Nat /\ offset \in Nat
  BY LenProperties DEF RTypeOK, file_size_
<1>1. HeaderAtOffset \in RecordHeaderType
  BY <1>0, RecordHeaderInRange DEF RecordAvailable, HeaderAtOffset, file_size_
<1>2. by_id_[HeaderAtOffset.topic_id] \in Nat
  BY WidthsAreNat DEF RTypeOK, RecordAvailable
<1>3. PayloadOffset \in Nat
  BY <1>0 DEF PayloadOffset, kRecordHeaderWireSize
<1> QED BY <1>0, <1>1, <1>2, <1>3 DEF RecordAvailable, file_size_

\* Run finding a record and publishing it, and the clock.
LEMMA ReadRunInv == ASSUME ReadInv, NextRecord \/ Republish \/ Tick PROVE ReadInv'
<1> USE DEF fileVars, tableVars
<1>1. CASE NextRecord
  <2>1. HeaderAtOffset \in RecordHeaderType
    BY <1>1, RecordInside DEF NextRecord, ReadInv
  <2>2. t0' \in [have : BOOLEAN, stamp : U64, start : 0 .. MaxClock] /\ t0'.have
    BY <1>1, <2>1 DEF NextRecord, ReadInv, RTypeOK, RecordHeaderType
  <2>3. RTypeOK'
    BY <1>1, <2>2 DEF NextRecord, ReadInv, RTypeOK, file_size_
  <2>4. Awaited'
    BY <1>1, <2>2 DEF NextRecord, Awaited, RecordAvailable, HeaderAtOffset, PayloadOffset,
       file_size_
  <2> QED BY <1>1, <2>3, <2>4 DEF NextRecord, ReadInv, ByIdFromTable, HookedMatch, Matches
<1>2. CASE Republish
  <2> DEFINE h == HeaderAtOffset
             size == by_id_[h.topic_id]
             payload == SubSeq(file, PayloadOffset + 1, PayloadOffset + size)
             item == [topic_id |-> h.topic_id, stamp_ns |-> h.stamp_ns,
                      payload |-> payload, at |-> now]
             Item == [topic_id : U16, stamp_ns : U64, payload : Seq(Byte),
                      at : 0 .. MaxClock]
  <2>1. /\ h \in RecordHeaderType /\ size \in Nat /\ PayloadOffset \in Nat
        /\ PayloadOffset + size \in 0 .. Len(file)
    BY <1>2, RecordInside DEF Republish, ReadInv, Awaited
  <2>2. /\ published' = published \o OnRecord(h, payload)
        /\ offset' = PayloadOffset + size /\ pc' = "walk" /\ pc = "sleep"
        /\ UNCHANGED <<fileVars, tableVars, hooked, t0, now>>
    BY <1>2 DEF Republish
  <2>3. file \in Seq(Byte) /\ Len(file) \in Nat
    BY LenProperties DEF ReadInv, RTypeOK
  <2> HIDE DEF h, size
  <2>4. payload \in Seq(Byte)
    <3>1. \A i \in PayloadOffset + 1 .. PayloadOffset + size : i \in 1 .. Len(file)
      BY <2>1, <2>3
    <3>2. \A i \in PayloadOffset + 1 .. PayloadOffset + size : file[i] \in Byte
      BY <2>3, <3>1, ElementOfSeq
    <3>3. payload = [i \in 1 .. size |-> file[i + (PayloadOffset + 1) - 1]]
      <4>1. PayloadOffset + size - (PayloadOffset + 1) + 1 = size
        BY <2>1
      <4> QED BY <2>1, <2>3, <4>1
    <3>4. \A i \in 1 .. size :
            i + (PayloadOffset + 1) - 1 \in PayloadOffset + 1 .. PayloadOffset + size
      BY <2>1
    <3>5. payload \in [1 .. size -> Byte]
      BY <3>2, <3>3, <3>4
    <3> HIDE DEF payload
    <3> QED BY <2>1, <3>5, TupleIsSeq
  <2> HIDE DEF payload
  <2>5. item \in Item
    BY <2>1, <2>4 DEF RecordHeaderType, ReadInv, RTypeOK
  <2>6. OnRecord(h, payload) \in Seq(Item)
    <3>1. OnRecord(h, payload) = <<item>> \/ OnRecord(h, payload) = <<>>
      BY DEF OnRecord
    <3> HIDE DEF item, Item
    <3>2. <<item>> \in Seq(Item)
      BY <2>5
    <3>3. <<>> \in Seq(Item)
      OBVIOUS
    <3> QED BY <3>1, <3>2, <3>3
  <2>7. published' \in Seq(Item)
    <3>1. published \in Seq(Item)
      BY DEF ReadInv, RTypeOK
    <3> HIDE DEF Item
    <3> QED BY <2>2, <2>6, <3>1, ConcatProperties
  <2>8. RTypeOK'
    BY <2>1, <2>2, <2>7 DEF ReadInv, RTypeOK, file_size_
  <2> QED BY <2>2, <2>8 DEF ReadInv, Awaited, ByIdFromTable, HookedMatch, Matches
<1>3. CASE Tick
  <2>1. now' \in 0 .. MaxClock
    BY <1>3, WidthsAreNat, ReplayAssumption DEF Tick, ReadInv, RTypeOK
  <2>2. RTypeOK'
    BY <1>3, <2>1 DEF Tick, ReadInv, RTypeOK, file_size_
  <2>3. Awaited'
    BY <1>3 DEF Tick, ReadInv, Awaited, RecordAvailable, HeaderAtOffset, PayloadOffset,
       file_size_
  <2> QED BY <1>3, <2>2, <2>3 DEF Tick, ReadInv, ByIdFromTable, HookedMatch, Matches
<1> QED BY <1>1, <1>2, <1>3

\* Every step.
LEMMA ReadInvStep == ReadInv /\ [RNext]_rvars => ReadInv'
<1> SUFFICES ASSUME ReadInv, [RNext]_rvars PROVE ReadInv'
  OBVIOUS
<1>1. CASE ReaderStep \/ Tick
  BY <1>1, ReadOpenInv, ReadParseInv, ReadHookInv, ReadRunInv DEF ReaderStep
<1>2. CASE UNCHANGED rvars
  BY <1>2 DEF rvars, fileVars, tableVars, ReadInv, RTypeOK, file_size_, Awaited,
     RecordAvailable, HeaderAtOffset, PayloadOffset, ByIdFromTable, HookedMatch, Matches
<1> QED BY <1>1, <1>2 DEF RNext

\* ReadInv holds throughout.
LEMMA ReadAlways == RSpec => []ReadInv
  BY ReadInitInv, ReadInvStep, PTL DEF RSpec

(***************************************************************************)
(* The replayer is type-correct on every file, whole, cut or damaged: the  *)
(* offset stays inside the mapping and integers keep their width.          *)
(***************************************************************************)
THEOREM ReplayerTypeCorrect == RSpec => []RTypeOK
<1>1. ReadInv => RTypeOK
  BY DEF ReadInv
<1> QED BY <1>1, ReadAlways, PTL

\* The record Run waits for has a type of this build, and that type's size.
LEMMA MatchedWhenAwaited ==
  ReadInv /\ pc = "sleep" => /\ HeaderAtOffset.topic_id \in DOMAIN Registry
                             /\ Registry[HeaderAtOffset.topic_id]
                                  = by_id_[HeaderAtOffset.topic_id]
<1> SUFFICES ASSUME ReadInv, pc = "sleep"
             PROVE  /\ HeaderAtOffset.topic_id \in DOMAIN Registry
                    /\ Registry[HeaderAtOffset.topic_id] = by_id_[HeaderAtOffset.topic_id]
  OBVIOUS
<1> DEFINE id == HeaderAtOffset.topic_id
<1>1. id \in DOMAIN by_id_
  BY DEF ReadInv, Awaited, RecordAvailable
<1>2. PICK j \in 1 .. Len(topics_) :
        topics_[j].topic_id = id /\ topics_[j].wire_size = by_id_[id]
  BY <1>1 DEF ReadInv, ByIdFromTable
<1>3. Matches(topics_[j])
  BY DEF ReadInv, HookedMatch
<1> QED BY <1>2, <1>3 DEF Matches

(***************************************************************************)
(* Whatever the file's table says, DecodePayload reads this build's        *)
(* wire_size bytes inside the mapping, because the hook has compared every *)
(* size in the table with this build's before Run starts.                  *)
(***************************************************************************)
THEOREM DecodesInsideFile == RSpec => []ReadsInsideFile
<1>1. ReadInv => ReadsInsideFile
  BY MatchedWhenAwaited DEF ReadInv, Awaited, RecordAvailable, ReadsInsideFile
<1> QED BY <1>1, ReadAlways, PTL

-----------------------------------------------------------------------------
(* The file of a session is read as it was written.                        *)

\* The header: the number of topics.
LEMMA HeaderOfFile ==
  ASSUME Recorded, HeaderAccepted(file)
  PROVE  DeserializeFileHeader(file).topic_count = Len(session.topics)
<1> DEFINE h == FileHeaderOf(session)
<1>1. session \in Sessions /\ file \in Seq(Byte)
  BY CutFileTypes DEF Recorded
<1>2. h \in FileHeaderType /\ Holds(Image(session), 0, SerializeFileHeader(h))
  BY <1>1, SessionTypes, ImageLayout
<1>3. SerializeFileHeader(h) \in Seq(Byte) /\ Len(SerializeFileHeader(h)) = kFileHeaderWireSize
  BY <1>2, FileHeaderSize
<1>4. 0 + Len(SerializeFileHeader(h)) <= Len(file)
  BY <1>3, CutFileTypes DEF HeaderAccepted, kFileHeaderWireSize
<1>5. Holds(file, 0, SerializeFileHeader(h))
  BY <1>2, <1>3, <1>4, CutFileHolds
<1>6. DeserializeFileHeader(file) = h
  BY <1>1, <1>2, <1>5, ReadFileHeader
<1> QED BY <1>6 DEF FileHeaderOf

\* The entry of a topic.
LEMMA TopicOfFile ==
  ASSUME Recorded, NEW j \in 1 .. Len(session.topics),
         NEW off, off = kFileHeaderWireSize + (j - 1) * kTopicMetaWireSize,
         off + kTopicMetaWireSize <= Len(file)
  PROVE  /\ DeserializeTopicMeta(From(file, off)).topic_id = session.topics[j].topic_id
         /\ DeserializeTopicMeta(From(file, off)).struct_size = session.topics[j].wire_size
<1> DEFINE t == MetaOf(session.topics[j])
<1>1. session \in Sessions /\ file \in Seq(Byte) /\ Len(session.topics) \in Nat
  BY CutFileTypes, SessionTypes DEF Recorded
<1>2. t \in TopicMetaType /\ Holds(Image(session), off, SerializeTopicMeta(t))
  BY <1>1, SessionTypes, ImageLayout
<1>3. SerializeTopicMeta(t) \in Seq(Byte) /\ Len(SerializeTopicMeta(t)) = kTopicMetaWireSize
  BY <1>2, TopicMetaSize
<1>4. off \in Nat
  <2>1. j - 1 \in Nat /\ kTopicMetaWireSize \in Nat /\ kFileHeaderWireSize \in Nat
    BY <1>1, WireAssumption DEF kTopicMetaWireSize, kFileHeaderWireSize
  <2>2. \A a, b, c \in Nat : a + b * c \in Nat
    OBVIOUS
  <2> QED BY <2>1, <2>2
<1>5. Holds(file, off, SerializeTopicMeta(t))
  BY <1>2, <1>3, <1>4, CutFileHolds
<1>6. off + 0 = off
  BY <1>4
<1>7. From(file, off) \in Seq(Byte) /\ Holds(From(file, off), 0, SerializeTopicMeta(t))
  BY <1>1, <1>3, <1>4, <1>5, <1>6, HoldsFrom
<1>8. DeserializeTopicMeta(From(file, off)) = [t EXCEPT !.name = Truncated(t.name)]
  BY <1>2, <1>7, ReadTopicMeta
<1> QED BY <1>8 DEF MetaOf

\* A record: its header, as soon as the header is in the file, and its payload.
LEMMA RecordOfFile ==
  ASSUME Recorded, NEW k \in 1 .. Len(session.records),
         NEW off, off = Len(Images(session)[k - 1]),
         off + kRecordHeaderWireSize <= Len(file)
  PROVE  /\ DeserializeRecordHeader(From(file, off)) = HeaderOf(session.records[k])
         /\ LET size == Len(session.records[k].payload)
                at == off + kRecordHeaderWireSize
            IN  at + size <= Len(file)
                  => SubSeq(file, at + 1, at + size) = session.records[k].payload
<1> DEFINE h == SerializeRecordHeader(HeaderOf(session.records[k]))
           p == session.records[k].payload
           at == off + kRecordHeaderWireSize
           size == Len(p)
<1>1. /\ session \in Sessions /\ file \in Seq(Byte) /\ Len(file) \in Nat
      /\ Len(session.records) \in Nat
  BY CutFileTypes, SessionTypes DEF Recorded
<1>2. /\ HeaderOf(session.records[k]) \in RecordHeaderType
      /\ p \in Seq(Byte) /\ Holds(Image(session), off, h \o p)
  BY <1>1, SessionTypes, ImageLayout
<1>3. h \in Seq(Byte) /\ Len(h) = kRecordHeaderWireSize
  BY <1>2, RecordHeaderSize
<1>4. k - 1 \in 0 .. Len(session.records)
  BY <1>1
<1>5. off \in Nat /\ Image(session) \in Seq(Byte)
  BY <1>1, <1>4, ImageLayout
<1>6. Holds(Image(session), off, h) /\ Holds(Image(session), off + Len(h), p)
  <2> HIDE DEF h, p
  <2> QED BY <1>2, <1>3, <1>5, HoldsBoth
<1>7. Holds(file, off, h)
  <2> HIDE DEF h
  <2> QED BY <1>3, <1>5, <1>6, CutFileHolds
<1>8. off + 0 = off
  BY <1>5
<1>9. From(file, off) \in Seq(Byte) /\ Holds(From(file, off), 0, h)
  <2> HIDE DEF h
  <2> QED BY <1>1, <1>3, <1>5, <1>7, <1>8, HoldsFrom
<1>10. DeserializeRecordHeader(From(file, off)) = HeaderOf(session.records[k])
  BY <1>2, <1>9, ReadRecordHeader
<1>11. ASSUME at + size <= Len(file) PROVE SubSeq(file, at + 1, at + size) = p
  <2>1. at \in Nat /\ size \in Nat
    BY <1>2, <1>5, LenProperties DEF kRecordHeaderWireSize
  <2> HIDE DEF p, h
  <2>2. Holds(Image(session), at, p)
    BY <1>3, <1>6
  <2> HIDE DEF at
  <2>3. Holds(file, at, p)
    BY <1>2, <1>11, <2>1, <2>2, CutFileHolds
  <2>4. \A i \in 1 .. size : file[at + i] = p[i]
    BY <2>3 DEF Holds
  <2>5. SubSeq(file, at + 1, at + size) = [i \in 1 .. size |-> file[at + i]]
    <3>1. at + size - (at + 1) + 1 = size /\ \A i \in 1 .. size : i + (at + 1) - 1 = at + i
      BY <2>1
    <3> HIDE DEF size
    <3> QED BY <1>1, <1>11, <2>1, <3>1
  <2>6. p = [i \in 1 .. size |-> p[i]]
    BY <1>2
  <2> HIDE DEF size
  <2> QED BY <2>4, <2>5, <2>6
<1> QED BY <1>10, <1>11

-----------------------------------------------------------------------------
(* ReplayInv is preserved by every step.                                   *)

\* Where Run stands in the file: at the end of a record that was published.
Positioned ==
  /\ Recorded /\ Len(published) \in Nat
  /\ Len(published) <= Len(session.records)
  /\ offset = Len(Images(session)[Len(published)])
  /\ \A j \in 1 .. Len(session.topics) :
       /\ session.topics[j].topic_id \in DOMAIN by_id_
       /\ by_id_[session.topics[j].topic_id] = session.topics[j].wire_size

\* While Run walks, and after it returned, it stands at such a place.
LEMMA RunIsPositioned ==
  ASSUME ReplayInv, pc \in {"walk", "sleep"} \/ (pc = "done" /\ topics_ # <<>>)
  PROVE  Positioned
<1>1. Recorded
  BY DEF ReplayInv
<1>2. Len(published) \in Nat
  BY LenProperties DEF ReplayInv, ReadInv, RTypeOK
<1>3. /\ Len(published) <= Len(session.records)
      /\ offset = Len(Images(session)[Len(published)])
  BY DEF ReplayInv, RecordsRead
<1>4. /\ Len(topics_) = Len(session.topics)
      /\ \A j \in 1 .. Len(topics_) :
           /\ topics_[j].topic_id = session.topics[j].topic_id
           /\ topics_[j].wire_size = session.topics[j].wire_size
           /\ topics_[j].topic_id \in DOMAIN by_id_
           /\ by_id_[topics_[j].topic_id] = topics_[j].wire_size
  BY DEF ReplayInv, TableRead
<1>5. \A j \in 1 .. Len(session.topics) :
        /\ session.topics[j].topic_id \in DOMAIN by_id_
        /\ by_id_[session.topics[j].topic_id] = session.topics[j].wire_size
  BY <1>4
<1> QED BY <1>1, <1>2, <1>3, <1>5 DEF Positioned

\* The header there is the next record's, by_id_ knows its payload's size and
\* the next place is its end.
LEMMA AtNextRecord ==
  ASSUME Positioned, NEW k, k = Len(published) + 1,
         offset + kRecordHeaderWireSize <= Len(file)
  PROVE  /\ k \in 1 .. Len(session.records)
         /\ HeaderAtOffset = HeaderOf(session.records[k])
         /\ HeaderAtOffset.topic_id \in DOMAIN by_id_
         /\ by_id_[HeaderAtOffset.topic_id] = Len(session.records[k].payload)
         /\ Len(session.records[k].payload) \in Nat
         /\ PayloadOffset + Len(session.records[k].payload) = Len(Images(session)[k])
<1> DEFINE n == Len(session.records)
           p == Len(published)
<1>1. /\ session \in Sessions /\ n \in Nat /\ p \in 0 .. n /\ offset \in Nat
      /\ Len(file) \in Nat /\ Len(file) <= Len(Image(session))
      /\ offset = Len(Images(session)[p])
  BY CutFileTypes, SessionTypes, ImageLayout DEF Positioned, Recorded
<1>2. p # n
  <2> SUFFICES ASSUME p = n PROVE FALSE
    OBVIOUS
  <2>1. offset = Len(Image(session))
    BY <1>1 DEF Image
  <2> QED BY <1>1, <2>1 DEF kRecordHeaderWireSize
<1>3. k \in 1 .. n /\ k - 1 = p
  BY <1>1, <1>2
<1>4. HeaderAtOffset = HeaderOf(session.records[k])
  BY <1>1, <1>3, RecordOfFile DEF Positioned, HeaderAtOffset
<1>5. PICK t \in DOMAIN session.topics :
        /\ session.topics[t].topic_id = session.records[k].topic_id
        /\ session.topics[t].wire_size = Len(session.records[k].payload)
  <2>1. k \in DOMAIN session.records
    BY <1>1, <1>3, SessionTypes, LenProperties
  <2> QED BY <1>1, <2>1, ReplayAssumption
<1>6. t \in 1 .. Len(session.topics)
  BY <1>1, SessionTypes, LenProperties
<1>7. HeaderAtOffset.topic_id = session.topics[t].topic_id
  BY <1>4, <1>5 DEF HeaderOf
<1>8. Len(session.records[k].payload) \in Nat
  BY <1>1, <1>3, SessionTypes, LenProperties
<1>9. PayloadOffset + Len(session.records[k].payload) = Len(Images(session)[k])
  <2> DEFINE size == Len(session.records[k].payload)
             H == kRecordHeaderWireSize
             end == Len(Images(session)[k])
  <2>1. end = Len(Images(session)[k - 1]) + (H + size)
    BY <1>1, <1>3, ImageLayout
  <2>2. Len(Images(session)[k - 1]) = offset
    BY <1>1, <1>3
  <2>3. H \in Nat /\ size \in Nat /\ offset \in Nat /\ PayloadOffset = offset + H
    BY <1>1, <1>8 DEF kRecordHeaderWireSize, PayloadOffset
  <2>4. end = offset + (H + size)
    BY <2>1, <2>2
  <2> HIDE DEF size, H, end
  <2>5. PayloadOffset + size = end
    BY <2>3, <2>4
  <2> QED BY <2>5 DEF size, end
<1> QED BY <1>3, <1>4, <1>5, <1>6, <1>7, <1>8, <1>9 DEF Positioned

\* Initially nothing has been read.
LEMMA ReplayInitInv == RInit /\ session # NoSession => ReplayInv
<1> SUFFICES ASSUME RInit, session # NoSession PROVE ReplayInv
  OBVIOUS
<1>1. ReadInv
  BY ReadInitInv
<1>2. Recorded
  BY DEF RInit, Recorded
<1>3. TableRead /\ RecordsRead
  BY DEF RInit, TableRead, RecordsRead, AsRecorded
<1> QED BY <1>1, <1>2, <1>3 DEF ReplayInv

\* Open failing: nothing has been published.
LEMMA ReplayFailInv ==
  ASSUME ReplayInv, RejectHeader \/ RejectTopic \/ RefuseTopic
  PROVE  TableRead' /\ RecordsRead'
<1>1. /\ UNCHANGED <<fileVars, tableVars, offset, hooked, t0, published, now>>
      /\ pc \in {"open", "topics", "hook"} /\ pc' = "failed"
  BY DEF RejectHeader, RejectTopic, RefuseTopic
<1>2. published = <<>>
  BY <1>1 DEF ReplayInv, RecordsRead
<1> QED BY <1>1, <1>2 DEF TableRead, RecordsRead, AsRecorded

\* The header accepted: topic_count is the size of the table.
LEMMA ReplayAcceptInv ==
  ASSUME ReplayInv, AcceptHeader PROVE TableRead' /\ RecordsRead'
<1>1. /\ topic_count' = DeserializeFileHeader(file).topic_count
      /\ offset' = kFileHeaderWireSize /\ pc = "open" /\ pc' = "topics"
      /\ UNCHANGED <<session, file, topics_, by_id_, t0, published>>
      /\ HeaderAccepted(file)
  BY DEF AcceptHeader, fileVars
<1>2. Recorded
  BY DEF ReplayInv
<1>3. topic_count' = Len(session.topics) /\ Len(session.topics) \in Nat
  BY <1>1, <1>2, HeaderOfFile, SessionTypes DEF Recorded
<1>4. topics_ = <<>> /\ published = <<>>
  BY <1>1 DEF ReplayInv, TableRead, RecordsRead
<1>5. 0 * kTopicMetaWireSize = 0 /\ kFileHeaderWireSize + 0 = kFileHeaderWireSize
  BY WireAssumption DEF kTopicMetaWireSize, kFileHeaderWireSize
<1>6. TableRead'
  BY <1>1, <1>3, <1>4, <1>5 DEF TableRead
<1> QED BY <1>1, <1>4, <1>6 DEF RecordsRead, AsRecorded

\* One entry of the table: the ids differ, so that by_id_ keeps the others.
LEMMA ReplayParseInv ==
  ASSUME ReplayInv, ParseTopic PROVE TableRead' /\ RecordsRead'
<1> DEFINE entry == DeserializeTopicMeta(From(file, offset))
           n == Len(topics_)
           S == session.topics
<1>a. PICK string \in Strings(entry.name) :
        topics_' = Append(topics_, [topic_id |-> entry.topic_id,
                                    wire_size |-> entry.struct_size, name |-> string])
  BY DEF ParseTopic
<1> DEFINE resolved == [topic_id |-> entry.topic_id, wire_size |-> entry.struct_size,
                        name |-> string]
<1>1. /\ topics_' = Append(topics_, resolved)
      /\ by_id_' = [i \in DOMAIN by_id_ \cup {resolved.topic_id} |->
                      IF i = resolved.topic_id THEN resolved.wire_size ELSE by_id_[i]]
      /\ offset' = offset + kTopicMetaWireSize
      /\ pc' = "topics" /\ pc = "topics"
      /\ UNCHANGED <<session, file, topic_count, t0, published>>
      /\ n < topic_count /\ offset + kTopicMetaWireSize <= Len(file)
  BY <1>a DEF ParseTopic, fileVars, file_size_
<1>2. Recorded /\ session \in Sessions /\ Len(S) \in Nat
  BY SessionTypes DEF ReplayInv, Recorded
<1>3. /\ topic_count = Len(S) /\ n \in Nat
      /\ offset = kFileHeaderWireSize + n * kTopicMetaWireSize
      /\ \A j \in 1 .. n :
           /\ topics_[j].topic_id = S[j].topic_id
           /\ topics_[j].wire_size = S[j].wire_size
           /\ topics_[j].topic_id \in DOMAIN by_id_
           /\ by_id_[topics_[j].topic_id] = topics_[j].wire_size
  BY <1>1, LenProperties DEF ReplayInv, ReadInv, RTypeOK, TableRead
<1>4. published = <<>>
  BY <1>1 DEF ReplayInv, RecordsRead
<1>5. n + 1 \in 1 .. Len(S) /\ (n + 1) - 1 = n
  BY <1>1, <1>2, <1>3
<1>6. resolved.topic_id = S[n + 1].topic_id /\ resolved.wire_size = S[n + 1].wire_size
  <2>1. offset = kFileHeaderWireSize + ((n + 1) - 1) * kTopicMetaWireSize
    BY <1>3, <1>5
  <2>2. entry.topic_id = S[n + 1].topic_id /\ entry.struct_size = S[n + 1].wire_size
    BY <1>1, <1>2, <1>5, <2>1, TopicOfFile
  <2> QED BY <2>2
<1> HIDE DEF resolved, entry
<1>7. /\ Len(topics_') = n + 1
      /\ \A j \in 1 .. n : topics_'[j] = topics_[j]
      /\ topics_'[n + 1] = resolved
  <2>1. /\ topics_ \in Seq(TopicType \cup {resolved})
    <3>1. topics_ \in Seq(TopicType)
      BY DEF ReplayInv, ReadInv, RTypeOK
    <3>2. \A i \in 1 .. n : topics_[i] \in TopicType \cup {resolved}
      BY <3>1, ElementOfSeq
    <3>3. topics_ \in [1 .. n -> TopicType \cup {resolved}]
      BY <3>1, <3>2, LenProperties
    <3> QED BY <1>3, <3>3, TupleIsSeq
  <2> QED BY <1>1, <2>1, AppendProperties
<1>8. ASSUME NEW j \in 1 .. n PROVE S[j].topic_id # resolved.topic_id
  <2>1. j \in DOMAIN S /\ n + 1 \in DOMAIN S /\ j # n + 1
    BY <1>2, <1>3, <1>5, SessionTypes, LenProperties
  <2> QED BY <1>2, <1>6, <2>1, ReplayAssumption
<1>9. ASSUME NEW j \in 1 .. n + 1
      PROVE  /\ topics_'[j].topic_id = S[j].topic_id
             /\ topics_'[j].wire_size = S[j].wire_size
             /\ topics_'[j].topic_id \in DOMAIN by_id_'
             /\ by_id_'[topics_'[j].topic_id] = topics_'[j].wire_size
  <2>1. CASE j = n + 1
    BY <1>1, <1>6, <1>7, <2>1
  <2>2. CASE j # n + 1
    <3>1. j \in 1 .. n
      BY <1>3, <2>2
    <3>2. topics_'[j] = topics_[j] /\ topics_[j].topic_id # resolved.topic_id
      BY <1>3, <1>7, <1>8, <3>1
    <3> QED BY <1>1, <1>3, <3>1, <3>2
  <2> QED BY <2>1, <2>2
<1>10. offset' = kFileHeaderWireSize + (n + 1) * kTopicMetaWireSize
  <2>1. kTopicMetaWireSize \in Nat /\ kFileHeaderWireSize \in Nat
    BY WireAssumption DEF kTopicMetaWireSize, kFileHeaderWireSize
  <2>2. \A a, b, c \in Nat : (a + b * c) + c = a + (b + 1) * c
    OBVIOUS
  <2> QED BY <1>1, <1>3, <2>1, <2>2
<1>11. TableRead'
  <2>1. n + 1 <= Len(S)
    BY <1>5
  <2> QED BY <1>1, <1>3, <1>7, <1>9, <1>10, <2>1 DEF TableRead
<1> QED BY <1>1, <1>4, <1>11 DEF RecordsRead, AsRecorded

\* The whole table read: the records start where they were written.
LEMMA ReplayParsedInv ==
  ASSUME ReplayInv, ParsedTopics PROVE TableRead' /\ RecordsRead'
<1>1. /\ pc = "topics" /\ Len(topics_) = topic_count
      /\ pc' = IF topics_ = <<>> THEN "done" ELSE "hook"
      /\ UNCHANGED <<session, file, topic_count, topics_, by_id_, offset, t0, published>>
  BY DEF ParsedTopics, fileVars, tableVars
<1>2. session \in Sessions
  BY DEF ReplayInv, Recorded
<1>3. published = <<>>
  BY <1>1 DEF ReplayInv, RecordsRead
<1>4. TableRead'
  BY <1>1 DEF ReplayInv, TableRead
<1>5. /\ offset = Len(Images(session)[0]) /\ 0 <= Len(session.records)
  <2>1. offset = kFileHeaderWireSize + Len(session.topics) * kTopicMetaWireSize
    BY <1>1 DEF ReplayInv, TableRead
  <2> QED BY <1>2, <2>1, ImageLayout, SessionTypes
<1>6. pc' \in {"done", "hook"} /\ (pc' = "done" => topics_ = <<>>)
  BY <1>1
<1>7. RecordsRead'
  BY <1>1, <1>3, <1>5, <1>6 DEF RecordsRead, AsRecorded
<1> QED BY <1>4, <1>7

\* The hook accepting a topic, and Open returning.
LEMMA ReplayHookInv ==
  ASSUME ReplayInv, AdvertiseTopic \/ Opened PROVE TableRead' /\ RecordsRead'
<1>1. /\ pc = "hook" /\ pc' \in {"hook", "walk"}
      /\ UNCHANGED <<session, file, topic_count, topics_, by_id_, offset, t0, published>>
  BY DEF AdvertiseTopic, Opened, fileVars, tableVars
<1>2. TableRead'
  BY <1>1 DEF ReplayInv, TableRead
<1>3. RecordsRead'
  BY <1>1 DEF ReplayInv, RecordsRead, AsRecorded
<1> QED BY <1>2, <1>3

\* Finding the next record publishes nothing.
LEMMA ReplayNextInv ==
  ASSUME ReplayInv, NextRecord PROVE TableRead' /\ RecordsRead'
<1>1. /\ pc = "walk" /\ pc' = "sleep"
      /\ UNCHANGED <<session, file, topic_count, topics_, by_id_, offset, published>>
  BY DEF NextRecord, fileVars, tableVars
<1>2. TableRead'
  BY <1>1 DEF ReplayInv, TableRead
<1>3. RecordsRead'
  BY <1>1 DEF ReplayInv, RecordsRead, AsRecorded
<1> QED BY <1>2, <1>3

\* Run returning, and the clock: nothing is published.
LEMMA ReplayQuietInv ==
  ASSUME ReplayInv, Finish \/ Tick PROVE TableRead' /\ RecordsRead'
<1>1. CASE Finish
  <2>1. /\ pc = "walk" /\ pc' = "done" /\ ~RecordAvailable
        /\ UNCHANGED <<session, file, topic_count, topics_, by_id_, offset, t0, published>>
    BY <1>1 DEF Finish, fileVars, tableVars
  <2>2. TableRead'
    BY <2>1 DEF ReplayInv, TableRead
  <2>3. ~RecordAvailable'
    BY <2>1 DEF RecordAvailable, HeaderAtOffset, PayloadOffset, file_size_
  <2>4. topics_ = <<>> => published = <<>>
    <3> SUFFICES ASSUME topics_ = <<>> PROVE published = <<>>
      OBVIOUS
    <3>1. Positioned /\ Len(session.topics) = 0
      BY <2>1, RunIsPositioned DEF ReplayInv, TableRead
    <3>2. session \in Sessions /\ published \in Seq([topic_id : U16, stamp_ns : U64,
            payload : Seq(Byte), at : 0 .. MaxClock])
      BY <3>1 DEF Positioned, Recorded, ReplayInv, ReadInv, RTypeOK
    <3>3. DOMAIN session.topics = {}
      BY <3>1, <3>2, SessionTypes, LenProperties
    <3>4. DOMAIN session.records = {}
      BY <3>2, <3>3, ReplayAssumption
    <3>5. \A i \in DOMAIN published : FALSE
      BY <3>4 DEF ReplayInv, RecordsRead, AsRecorded
    <3>6. Len(published) \in Nat /\ DOMAIN published = 1 .. Len(published)
      BY <3>2, LenProperties
    <3>7. Len(published) = 0
      BY <3>5, <3>6
    <3> QED BY <3>2, <3>7, EmptySeq
  <2>5. RecordsRead'
    BY <2>1, <2>3, <2>4 DEF ReplayInv, RecordsRead, AsRecorded
  <2> QED BY <2>2, <2>5
<1>2. CASE Tick
  <2>1. UNCHANGED <<session, file, pc, topic_count, topics_, by_id_, offset, t0, published>>
    BY <1>2 DEF Tick, fileVars, tableVars
  <2>2. TableRead'
    BY <2>1 DEF ReplayInv, TableRead
  <2>3. RecordsRead'
    BY <2>1 DEF ReplayInv, RecordsRead, AsRecorded, RecordAvailable,
       HeaderAtOffset, PayloadOffset, file_size_
  <2> QED BY <2>2, <2>3
<1> QED BY <1>1, <1>2

\* A record published is the next that was recorded.
LEMMA ReplayPublishInv ==
  ASSUME ReplayInv, Republish PROVE TableRead' /\ RecordsRead'
<1> DEFINE h == HeaderAtOffset
           size == by_id_[h.topic_id]
           payload == SubSeq(file, PayloadOffset + 1, PayloadOffset + size)
           item == [topic_id |-> h.topic_id, stamp_ns |-> h.stamp_ns,
                    payload |-> payload, at |-> now]
           p == Len(published)
           k == p + 1
           r == session.records[k]
<1>1. /\ pc = "sleep" /\ pc' = "walk"
      /\ UNCHANGED <<session, file, topic_count, topics_, by_id_>>
      /\ published' = published \o OnRecord(h, payload)
      /\ offset' = PayloadOffset + size
  BY DEF Republish, fileVars, tableVars
<1>2. Positioned /\ RecordAvailable
  BY <1>1, RunIsPositioned DEF ReplayInv, ReadInv, Awaited
<1>3. /\ Recorded /\ session \in Sessions /\ p \in Nat
      /\ offset + kRecordHeaderWireSize <= Len(file)
      /\ offset = Len(Images(session)[p])
      /\ PayloadOffset + size <= Len(file)
  BY <1>2 DEF Positioned, Recorded, RecordAvailable, file_size_
<1>4. /\ k \in 1 .. Len(session.records) /\ h = HeaderOf(r)
      /\ size = Len(r.payload) /\ Len(r.payload) \in Nat
      /\ PayloadOffset + size = Len(Images(session)[k])
  BY <1>2, <1>3, AtNextRecord
<1>5. payload = r.payload
  <2>1. k - 1 = p
    BY <1>3
  <2>2. /\ PayloadOffset = offset + kRecordHeaderWireSize
    BY DEF PayloadOffset
  <2> QED BY <1>3, <1>4, <2>1, <2>2, RecordOfFile
<1>6. OnRecord(h, payload) = <<item>>
  <2>1. h.topic_id \in DOMAIN Registry
    <3>1. ReadInv /\ pc = "sleep" => h.topic_id \in DOMAIN Registry
      BY MatchedWhenAwaited
    <3> QED BY <1>1, <3>1 DEF ReplayInv
  <2> QED BY <2>1 DEF OnRecord
<1>7. /\ item.topic_id = r.topic_id /\ item.stamp_ns = r.stamp_ns
      /\ item.payload = r.payload
  BY <1>4, <1>5 DEF HeaderOf
<1> HIDE DEF item, payload, h, size
<1>8. /\ Len(published') = k /\ DOMAIN published' = 1 .. k /\ published' # <<>>
      /\ \A i \in 1 .. p : published'[i] = published[i] /\ i \in DOMAIN published
      /\ published'[k] = item
  <2>1. published \in Seq(UNION {{published[i] : i \in 1 .. p}, {item}})
    <3>1. published \in [1 .. p -> UNION {{published[i] : i \in 1 .. p}, {item}}]
      BY DEF ReplayInv, ReadInv, RTypeOK
    <3> QED BY <1>3, <3>1, TupleIsSeq
  <2>2. published' = Append(published, item)
    BY <1>1, <1>6, <2>1, AppendIsConcat
  <2>3. Append(published, item) \in Seq(UNION {{published[i] : i \in 1 .. p}, {item}})
    BY <2>1, AppendProperties
  <2> QED BY <1>3, <2>1, <2>2, <2>3, AppendProperties, LenProperties
<1>9. TableRead'
  BY <1>1 DEF ReplayInv, TableRead
<1>10. AsRecorded'
  <2> SUFFICES ASSUME NEW i \in 1 .. k
               PROVE  /\ i \in DOMAIN session.records
                      /\ published'[i].topic_id = session.records[i].topic_id
                      /\ published'[i].stamp_ns = session.records[i].stamp_ns
                      /\ published'[i].payload = session.records[i].payload
    BY <1>1, <1>8 DEF AsRecorded
  <2>1. CASE i = k
    <3>1. k \in DOMAIN session.records
      BY <1>3, <1>4, SessionTypes, LenProperties
    <3> QED BY <1>7, <1>8, <2>1, <3>1
  <2>2. CASE i # k
    <3>1. i \in 1 .. p
      BY <1>3, <2>2
    <3> QED BY <1>8, <3>1 DEF ReplayInv, RecordsRead, AsRecorded
  <2> QED BY <2>1, <2>2
<1>11. RecordsRead'
  <2>1. k <= Len(session.records) /\ offset' = Len(Images(session)[k])
    BY <1>1, <1>3, <1>4, SessionTypes
  <2> QED BY <1>1, <1>8, <1>10, <2>1 DEF RecordsRead
<1> QED BY <1>9, <1>11

\* The file does not change under the reader.
LEMMA FileStays == [RNext]_rvars => UNCHANGED <<session, file>>
  BY DEF RNext, ReaderStep, RejectHeader, AcceptHeader, RejectTopic, ParseTopic,
     ParsedTopics, AdvertiseTopic, RefuseTopic, Opened, NextRecord, Republish, Finish, Tick,
     rvars, fileVars

\* Every step.
LEMMA ReplayInvStep == ReplayInv /\ [RNext]_rvars => ReplayInv'
<1> SUFFICES ASSUME ReplayInv, [RNext]_rvars PROVE ReplayInv'
  OBVIOUS
<1>1. ReadInv' /\ Recorded'
  BY ReadInvStep, FileStays DEF ReplayInv, Recorded
<1>2. CASE RNext
  <2>1. TableRead' /\ RecordsRead'
    BY <1>2, ReplayFailInv, ReplayAcceptInv, ReplayParseInv, ReplayParsedInv,
       ReplayHookInv, ReplayNextInv, ReplayQuietInv, ReplayPublishInv DEF RNext, ReaderStep
  <2> QED BY <1>1, <2>1 DEF ReplayInv
<1>3. CASE UNCHANGED rvars
  <2>1. UNCHANGED <<session, file, pc, topic_count, topics_, by_id_, offset, t0, published>>
    BY <1>3 DEF rvars, fileVars, tableVars
  <2>2. TableRead'
    BY <2>1 DEF ReplayInv, TableRead
  <2>3. RecordsRead'
    BY <2>1 DEF ReplayInv, RecordsRead, AsRecorded, RecordAvailable,
       HeaderAtOffset, PayloadOffset, file_size_
  <2> QED BY <1>1, <2>2, <2>3 DEF ReplayInv
<1> QED BY <1>2, <1>3

\* ReplayInv holds throughout the replay of a recording.
RecordedReplay == session # NoSession => ReplayInv

LEMMA ReplayAlways == RSpec => []RecordedReplay
<1>1. RInit => RecordedReplay
  BY ReplayInitInv DEF RecordedReplay
<1>2. RecordedReplay /\ [RNext]_rvars => RecordedReplay'
  BY ReplayInvStep, FileStays DEF RecordedReplay
<1> QED BY <1>1, <1>2, PTL DEF RSpec

\* A header that is not accepted ends the replay.
Refused == ~HeaderAccepted(file) => pc \in {"open", "failed"} /\ published = <<>>

\* No step leads on from it.
LEMMA RefusedStep == Refused /\ [RNext]_rvars => Refused'
<1> SUFFICES ASSUME Refused, [RNext]_rvars, ~HeaderAccepted(file)
             PROVE  pc' \in {"open", "failed"} /\ published' = <<>>
  BY FileStays DEF Refused
<1>1. pc \in {"open", "failed"} /\ published = <<>>
  BY DEF Refused
<1> QED BY <1>1 DEF RNext, ReaderStep, RejectHeader, AcceptHeader, RejectTopic, ParseTopic,
     ParsedTopics, AdvertiseTopic, RefuseTopic, Opened, NextRecord, Republish, Finish, Tick,
     rvars

(***************************************************************************)
(* Wherever the recording was cut, what is republished is a prefix of what *)
(* was recorded, with its topics, stamps and payload bytes; a file whose   *)
(* header is not accepted makes nothing appear.                            *)
(***************************************************************************)
THEOREM RepublishesTheRecording == RSpec => []ReplayedAsRecorded
<1>1. RecordedReplay /\ Refused => ReplayedAsRecorded
  BY DEF RecordedReplay, Refused, ReplayInv, RecordsRead, AsRecorded, ReplayedAsRecorded
<1>2. RInit => Refused
  BY DEF RInit, Refused
<1> QED BY <1>1, <1>2, RefusedStep, ReplayAlways, PTL DEF RSpec

(***************************************************************************)
(* A replay that ends has republished every record that lies completely in *)
(* the file, the last one before the cut included.                         *)
(***************************************************************************)
THEOREM RepublishesEveryWholeRecord == RSpec => []EveryWholeRecordReplayed
<1>1. RecordedReplay => EveryWholeRecordReplayed
  <2> SUFFICES ASSUME ReplayInv, pc = "done",
                      NEW n \in DOMAIN session.records, Contains(n)
               PROVE  n \in DOMAIN published
    BY DEF EveryWholeRecordReplayed, RecordedReplay
  <2>1. Recorded /\ session \in Sessions
    BY DEF ReplayInv, Recorded
  <2>2. n \in 1 .. Len(session.records) /\ Len(session.records) \in Nat
    BY <2>1, SessionTypes, LenProperties
  <2>3. topics_ # <<>>
    <3>1. Len(session.topics) \in Nat /\ Len(topics_) = Len(session.topics)
      BY <2>1, SessionTypes DEF ReplayInv, TableRead
    <3>2. \E t \in DOMAIN session.topics : TRUE
      BY <2>1, ReplayAssumption
    <3>3. Len(session.topics) # 0
      BY <2>1, <3>2, SessionTypes, LenProperties
    <3> QED BY <3>1, <3>3
  <2>4. Positioned /\ ~RecordAvailable
    BY <2>3, RunIsPositioned DEF ReplayInv, RecordsRead
  <2> DEFINE p == Len(published)
             k == p + 1
  <2>5. p \in 0 .. Len(session.records) /\ DOMAIN published = 1 .. p
    BY <2>2, <2>4, LenProperties DEF Positioned, ReplayInv, ReadInv, RTypeOK
  <2>6. SUFFICES ASSUME n > p PROVE FALSE
    BY <2>2, <2>5, <2>6
  <2>7. k \in 1 .. Len(session.records) /\ n \in k .. Len(session.records) /\ k - 1 = p
        /\ k \in 0 .. Len(session.records)
    BY <2>2, <2>5, <2>6
  <2>8. Len(Images(session)[k]) <= Len(file)
    <3>1. Len(Images(session)[k]) <= Len(Images(session)[n])
      BY <2>1, <2>7, ImageLayout
    <3>2. Len(Images(session)[n]) <= Len(file)
      BY DEF Contains, file_size_
    <3>3. n \in 0 .. Len(session.records)
      BY <2>2
    <3>4. /\ Len(Images(session)[k]) \in Nat /\ Len(Images(session)[n]) \in Nat
          /\ Len(file) \in Nat
      BY <2>1, <2>7, <3>3, ImageLayout, CutFileTypes
    <3> QED BY <3>1, <3>2, <3>4
  <2>9. offset + kRecordHeaderWireSize <= Len(file)
    <3> DEFINE size == Len(session.records[k].payload)
               end == Len(Images(session)[k])
    <3>1. end = Len(Images(session)[k - 1]) + (kRecordHeaderWireSize + size)
      BY <2>1, <2>7, ImageLayout
    <3>2. Len(Images(session)[k - 1]) = offset
      BY <2>4, <2>7 DEF Positioned
    <3>3. /\ size \in Nat /\ offset \in Nat /\ kRecordHeaderWireSize \in Nat
          /\ Len(file) \in Nat
      <4>1. offset \in Nat
        BY <2>1, <2>4, <2>5, ImageLayout DEF Positioned
      <4> QED BY <2>1, <2>7, <4>1, SessionTypes, CutFileTypes, LenProperties
             DEF kRecordHeaderWireSize
    <3>4. end <= Len(file) /\ end = offset + (kRecordHeaderWireSize + size)
      BY <2>8, <3>1, <3>2
    <3> HIDE DEF size, end
    <3> QED BY <3>3, <3>4
  <2>10. /\ HeaderAtOffset.topic_id \in DOMAIN by_id_
         /\ by_id_[HeaderAtOffset.topic_id] = Len(session.records[k].payload)
         /\ PayloadOffset + Len(session.records[k].payload) = Len(Images(session)[k])
    BY <2>4, <2>9, AtNextRecord
  <2>11. RecordAvailable
    BY <2>8, <2>9, <2>10 DEF RecordAvailable, file_size_
  <2> QED BY <2>4, <2>11
<1> QED BY <1>1, ReplayAlways, PTL

-----------------------------------------------------------------------------
(***************************************************************************)
(* Pace, of every file.  Time is measured from the first record published, *)
(* whose stamp t0 keeps from the moment Run found it.                      *)
(***************************************************************************)
OnTime(item) ==
  t0.start + (item.stamp_ns - t0.stamp) < Base8
    => item.at - t0.start >= item.stamp_ns - t0.stamp

Paced ==
  /\ pc \in {"open", "topics", "hook"} => ~t0.have
  /\ ~t0.have => published = <<>>
  /\ t0.have /\ published = <<>> => pc = "sleep" /\ t0.stamp = HeaderAtOffset.stamp_ns
  /\ published # <<>> => t0.stamp = published[1].stamp_ns
  /\ \A i \in DOMAIN published : OnTime(published[i])

\* The deadline: without overflow it is the first record's moment and the
\* distance from the first stamp, or none.
LEMMA DeadlineReached ==
  ASSUME NEW start \in 0 .. MaxClock, NEW first \in U64, NEW stamp \in U64,
         NEW at \in 0 .. MaxClock, start + (stamp - first) < Base8,
         at >= (start + (IF stamp >= first THEN stamp - first ELSE 0)) % Base8
  PROVE  at - start >= stamp - first
<1> DEFINE elapsed == IF stamp >= first THEN stamp - first ELSE 0
<1>1. /\ MaxClock \in Nat /\ MaxClock < Base8 /\ Base8 \in Nat \ {0}
      /\ stamp \in Nat /\ first \in Nat
  BY ReplayAssumption, PlaceTypes, WidthsAreNat DEF U64
<1>2. elapsed \in Nat /\ elapsed >= stamp - first /\ start + elapsed < Base8
  BY <1>1
<1> HIDE DEF elapsed
<1>3. start + elapsed \in 0 .. Base8 - 1
  BY <1>1, <1>2
<1>4. (start + elapsed) % Base8 = start + elapsed
  BY <1>1, <1>3
<1>5. at >= start + elapsed
  BY <1>4 DEF elapsed
<1> QED BY <1>1, <1>2, <1>5

\* Run publishes the record it waited for: the first one has the stamp of
\* t0, and none comes before its deadline.
LEMMA PublishPaced == ASSUME ReadInv, Paced, Republish PROVE Paced'
<1> DEFINE h == HeaderAtOffset
           payload == SubSeq(file, PayloadOffset + 1,
                             PayloadOffset + by_id_[h.topic_id])
           item == [topic_id |-> h.topic_id, stamp_ns |-> h.stamp_ns,
                    payload |-> payload, at |-> now]
           p == Len(published)
<1>1. /\ pc = "sleep" /\ pc' = "walk" /\ now >= Target /\ UNCHANGED <<file, t0, now>>
      /\ published' = published \o OnRecord(h, payload)
  BY DEF Republish, fileVars
<1>2. RecordAvailable /\ t0.have /\ h \in RecordHeaderType
  BY <1>1, RecordInside DEF ReadInv, Awaited
<1>3. OnRecord(h, payload) = <<item>>
  <2>1. h.topic_id \in DOMAIN Registry
    BY <1>1, MatchedWhenAwaited
  <2> QED BY <2>1 DEF OnRecord
<1>4. item.stamp_ns = h.stamp_ns /\ item.at = now
  OBVIOUS
<1>5. OnTime(item)
  <2> SUFFICES ASSUME t0.start + (h.stamp_ns - t0.stamp) < Base8
               PROVE  now - t0.start >= h.stamp_ns - t0.stamp
    BY <1>4 DEF OnTime
  <2>1. /\ t0.start \in 0 .. MaxClock /\ t0.stamp \in U64 /\ now \in 0 .. MaxClock
        /\ h.stamp_ns \in U64
    BY <1>2 DEF ReadInv, RTypeOK, RecordHeaderType
  <2>2. now >= (t0.start + (IF h.stamp_ns >= t0.stamp THEN h.stamp_ns - t0.stamp ELSE 0))
                 % Base8
    BY <1>1 DEF Target
  <2> HIDE DEF h
  <2> QED BY <2>1, <2>2, DeadlineReached
<1> HIDE DEF item, payload
<1>6. /\ p \in Nat /\ DOMAIN published' = 1 .. p + 1 /\ published' # <<>>
      /\ \A i \in 1 .. p : published'[i] = published[i] /\ i \in DOMAIN published
      /\ published'[p + 1] = item
      /\ p = 0 => published = <<>>
  <2>0. published \in Seq(UNION {{published[i] : i \in 1 .. p}, {item}}) /\ p \in Nat
    <3>1. published \in [1 .. p -> UNION {{published[i] : i \in 1 .. p}, {item}}] /\ p \in Nat
      BY LenProperties DEF ReadInv, RTypeOK
    <3> QED BY <3>1, TupleIsSeq
  <2>1. published' = Append(published, item)
    BY <1>1, <1>3, <2>0, AppendIsConcat
  <2>2. Append(published, item) \in Seq(UNION {{published[i] : i \in 1 .. p}, {item}})
    BY <2>0, AppendProperties
  <2> QED BY <2>0, <2>1, <2>2, AppendProperties, LenProperties, EmptySeq
<1>7. t0.stamp = published'[1].stamp_ns
  <2>1. CASE p = 0
    <3>1. published'[1] = item
      BY <1>6, <2>1
    <3>2. t0.stamp = h.stamp_ns
      BY <1>2, <1>6, <2>1 DEF Paced
    <3> QED BY <1>4, <3>1, <3>2
  <2>2. CASE p # 0
    <3>1. 1 \in 1 .. p
      BY <1>6, <2>2
    <3> QED BY <1>6, <3>1 DEF Paced
  <2> QED BY <2>1, <2>2
<1>8. ASSUME NEW i \in DOMAIN published' PROVE OnTime(published'[i])
  <2>1. CASE i = p + 1
    BY <1>5, <1>6, <2>1
  <2>2. CASE i # p + 1
    <3>1. i \in 1 .. p
      BY <1>6, <2>2
    <3> QED BY <1>6, <3>1 DEF Paced
  <2> QED BY <2>1, <2>2
<1>9. (\A i \in DOMAIN published : OnTime(published[i]))'
  BY <1>1, <1>8 DEF OnTime
<1> QED BY <1>1, <1>2, <1>6, <1>7, <1>9 DEF Paced

\* Every step.
LEMMA PacedStep == ReadInv /\ Paced /\ [RNext]_rvars => Paced'
<1> SUFFICES ASSUME ReadInv, Paced, [RNext]_rvars PROVE Paced'
  OBVIOUS
<1> USE DEF fileVars, tableVars
<1>1. CASE NextRecord
  <2>1. /\ pc = "walk" /\ pc' = "sleep" /\ UNCHANGED <<file, offset, published>>
        /\ t0' = IF t0.have THEN t0
                 ELSE [have |-> TRUE, stamp |-> HeaderAtOffset.stamp_ns, start |-> now]
    BY <1>1 DEF NextRecord
  <2>2. CASE t0.have
    BY <2>1, <2>2 DEF Paced, OnTime
  <2>3. CASE ~t0.have
    <3>1. published = <<>> /\ t0'.have /\ t0'.stamp = HeaderAtOffset.stamp_ns
      BY <2>1, <2>3 DEF Paced
    <3> QED BY <2>1, <3>1 DEF Paced, HeaderAtOffset
  <2> QED BY <2>2, <2>3
<1>2. CASE ReaderStep /\ ~NextRecord /\ ~Republish
  <2>1. /\ UNCHANGED <<t0, published>> /\ pc \in {"open", "topics", "hook", "walk"}
        /\ pc' \in {"open", "topics", "hook"} => pc \in {"open", "topics", "hook"}
    BY <1>2 DEF ReaderStep, RejectHeader, AcceptHeader, RejectTopic, ParseTopic,
       ParsedTopics, AdvertiseTopic, RefuseTopic, Opened, Finish
  <2>2. ~(t0.have /\ published = <<>>)
    BY <2>1 DEF Paced
  <2> QED BY <2>1, <2>2 DEF Paced, OnTime
<1>3. CASE Tick \/ UNCHANGED rvars
  <2>1. UNCHANGED <<file, pc, offset, t0, published>>
    BY <1>3 DEF Tick, rvars
  <2> QED BY <2>1 DEF Paced, OnTime, HeaderAtOffset
<1> QED BY <1>1, <1>2, <1>3, PublishPaced DEF RNext

(***************************************************************************)
(* No record of any file is republished early, whatever the order of the   *)
(* stamps: the clamp and, below the overflow of target_ns, the deadline    *)
(* make it wait.                                                           *)
(***************************************************************************)
THEOREM RepublishesOnTime == RSpec => []NeverEarly
<1>1. RInit => Paced
  BY DEF RInit, Paced
<1>2. ReadInv /\ Paced => NeverEarly
  <2> SUFFICES ASSUME ReadInv, Paced, NEW i \in DOMAIN published,
                      t0.start + (published[i].stamp_ns - published[1].stamp_ns) < Base8
               PROVE  published[i].at - t0.start
                        >= published[i].stamp_ns - published[1].stamp_ns
    BY DEF NeverEarly
  <2>1. t0.stamp = published[1].stamp_ns
    BY DEF Paced
  <2> QED BY <2>1 DEF Paced, OnTime
<1> QED BY <1>1, <1>2, ReadAlways, PacedStep, PTL DEF RSpec

-----------------------------------------------------------------------------
(***************************************************************************)
(* Progress.  The offset grows with the table, so that the number of       *)
(* topics, whatever the file claims it is, is bounded by the file's size.  *)
(***************************************************************************)
TableFits ==
  /\ Len(topics_) <= offset
  /\ pc = "open" => offset = 0 /\ topics_ = <<>>

\* The numbers Work is made of.
LEMMA WorkTypes ==
  ASSUME ReadInv, TableFits
  PROVE  /\ Len(topics_) \in Nat /\ Len(file) \in Nat /\ offset \in Nat /\ hooked \in Nat
         /\ hooked <= Len(topics_) /\ Len(topics_) <= offset /\ offset <= Len(file)
<1>1. Len(topics_) \in Nat /\ Len(file) \in Nat
  BY LenProperties DEF ReadInv, RTypeOK
<1>2. offset \in 0 .. Len(file) /\ hooked \in 0 .. Len(topics_)
  BY DEF ReadInv, RTypeOK, file_size_
<1> QED BY <1>1, <1>2 DEF TableFits

\* Parsing an entry moves the offset by at least one byte.
LEMMA ParseAdvances ==
  ASSUME ReadInv, TableFits, ParseTopic
  PROVE  Len(topics_') = Len(topics_) + 1 /\ offset' \in Nat /\ offset' > offset
<1>1. kTopicMetaWireSize \in Nat /\ kTopicMetaWireSize > 0
  BY WireAssumption DEF kTopicMetaWireSize
<1>2. offset' = offset + kTopicMetaWireSize /\ \E r : topics_' = Append(topics_, r)
  BY DEF ParseTopic
<1>3. Len(topics_') = Len(topics_) + 1
  <2>1. topics_ \in Seq(TopicType) /\ topics_' \in Seq(TopicType)
    BY ReadParseInv DEF ReadInv, RTypeOK
  <2>2. PICK r : topics_' = Append(topics_, r)
    BY <1>2
  <2> QED BY <2>1, <2>2
<1> HIDE DEF kTopicMetaWireSize
<1> QED BY <1>1, <1>2, <1>3, WorkTypes

\* Publishing moves it by at least the header.
LEMMA PublishAdvances ==
  ASSUME ReadInv, TableFits, Republish
  PROVE  offset' \in Nat /\ offset' > offset /\ topics_' = topics_
<1>1. /\ by_id_[HeaderAtOffset.topic_id] \in Nat
      /\ offset' = PayloadOffset + by_id_[HeaderAtOffset.topic_id]
      /\ topics_' = topics_
  BY RecordInside DEF Republish, ReadInv, Awaited, tableVars
<1>2. PayloadOffset = offset + 18
  BY DEF PayloadOffset, kRecordHeaderWireSize
<1> QED BY <1>1, <1>2, WorkTypes

\* TableFits is kept by every step.
LEMMA TableFitsStep == ReadInv /\ TableFits /\ [RNext]_rvars => TableFits'
<1> SUFFICES ASSUME ReadInv, TableFits, [RNext]_rvars PROVE TableFits'
  OBVIOUS
<1>1. CASE ParseTopic
  <2>1. pc' # "open"
    BY <1>1 DEF ParseTopic
  <2> QED BY <1>1, <2>1, ParseAdvances, WorkTypes DEF TableFits
<1>2. CASE Republish
  <2>1. pc' # "open"
    BY <1>2 DEF Republish
  <2> QED BY <1>2, <2>1, PublishAdvances, WorkTypes DEF TableFits
<1>3. CASE AcceptHeader
  <2>1. pc = "open" /\ pc' = "topics" /\ topics_' = topics_ /\ offset' = 32
    BY <1>3 DEF AcceptHeader, kFileHeaderWireSize
  <2>2. Len(topics_) = 0
    BY <2>1 DEF TableFits
  <2> QED BY <2>1, <2>2 DEF TableFits
<1>4. ASSUME UNCHANGED <<topics_, offset>>, pc' = pc \/ pc' # "open" PROVE TableFits'
  BY <1>4 DEF TableFits
<1>5. CASE \/ RejectHeader \/ RejectTopic \/ ParsedTopics \/ AdvertiseTopic \/ RefuseTopic
           \/ Opened \/ NextRecord \/ Finish \/ Tick \/ UNCHANGED rvars
  <2>1. UNCHANGED <<topics_, offset>> /\ (pc' = pc \/ pc' # "open")
    BY <1>5 DEF RejectHeader, RejectTopic, ParsedTopics, AdvertiseTopic, RefuseTopic, Opened,
       NextRecord, Finish, Tick, rvars, tableVars
  <2> QED BY <1>4, <2>1
<1> QED BY <1>1, <1>2, <1>3, <1>5 DEF RNext, ReaderStep

\* Where Open and Run are, as a number.
PhaseOf(at) ==
  CASE at = "open" -> 0 [] at = "topics" -> 1 [] at = "hook" -> 2
    [] at = "walk" -> 3 [] OTHER -> 4

\* What a step does to it.
LEMMA PhaseSteps ==
  /\ PhaseOf("open") = 0 /\ PhaseOf("topics") = 1 /\ PhaseOf("hook") = 2
  /\ PhaseOf("walk") = 3 /\ PhaseOf("sleep") = 4 /\ PhaseOf("failed") = 4
  /\ PhaseOf("done") = 4
  /\ Work = PhaseOf(pc) + hooked + 2 * offset
  /\ Work' = PhaseOf(pc') + hooked' + 2 * offset'
  BY DEF PhaseOf, Work

\* One step: it stays in its phase and moves on, or enters a later one.
LEMMA StepGetsFurther ==
  ASSUME ReadInv, TableFits, ReaderStep
  PROVE  Work < Work'
<1> DEFINE p == PhaseOf(pc)
           q == PhaseOf(pc')
<1>0. offset \in Nat /\ hooked \in Nat
  BY WorkTypes
<1>a. \A h, o, n \in Nat : o < n => /\ 1 + h + 2 * o < 1 + h + 2 * n
                                    /\ 4 + h + 2 * o < 3 + h + 2 * n
  OBVIOUS
<1>1. CASE RejectHeader \/ RejectTopic \/ ParsedTopics \/ RefuseTopic \/ Opened
           \/ NextRecord \/ Finish
  <2>1. UNCHANGED <<offset, hooked>>
    BY <1>1 DEF RejectHeader, RejectTopic, ParsedTopics, RefuseTopic, Opened, NextRecord, Finish
  <2>2. p \in Nat /\ q \in Nat /\ p < q
    BY <1>1, PhaseSteps DEF RejectHeader, RejectTopic, ParsedTopics, RefuseTopic, Opened,
       NextRecord, Finish
  <2> HIDE DEF p, q
  <2>3. Work = p + hooked + 2 * offset /\ Work' = q + hooked' + 2 * offset'
    BY PhaseSteps DEF p, q
  <2> QED BY <1>0, <2>1, <2>2, <2>3
<1>2. CASE AcceptHeader
  <2>1. pc = "open" /\ pc' = "topics" /\ offset = 0 /\ offset' = 32 /\ hooked' = hooked
    BY <1>2 DEF AcceptHeader, TableFits, kFileHeaderWireSize
  <2>2. Work = 0 + hooked + 2 * 0 /\ Work' = 1 + hooked + 2 * 32
    BY <2>1, PhaseSteps
  <2> QED BY <1>0, <2>2
<1>3. CASE ParseTopic
  <2>1. pc = "topics" /\ pc' = "topics" /\ hooked' = hooked
    BY <1>3 DEF ParseTopic
  <2>2. offset' \in Nat /\ offset < offset'
    BY <1>0, <1>3, ParseAdvances
  <2>3. Work = 1 + hooked + 2 * offset /\ Work' = 1 + hooked + 2 * offset'
    BY <2>1, PhaseSteps
  <2> QED BY <1>0, <1>a, <2>2, <2>3, Zenon
<1>4. CASE AdvertiseTopic
  <2>1. pc = "hook" /\ pc' = "hook" /\ hooked' = hooked + 1 /\ offset' = offset
    BY <1>4 DEF AdvertiseTopic
  <2>2. Work = 2 + hooked + 2 * offset /\ Work' = 2 + (hooked + 1) + 2 * offset
    BY <2>1, PhaseSteps
  <2> QED BY <1>0, <2>2
<1>5. CASE Republish
  <2>1. pc = "sleep" /\ pc' = "walk" /\ hooked' = hooked
    BY <1>5 DEF Republish
  <2>2. offset' \in Nat /\ offset < offset'
    BY <1>0, <1>5, PublishAdvances
  <2>3. Work = 4 + hooked + 2 * offset /\ Work' = 3 + hooked + 2 * offset'
    BY <2>1, PhaseSteps
  <2> QED BY <1>0, <1>a, <2>2, <2>3, Zenon
<1> QED BY <1>1, <1>2, <1>3, <1>4, <1>5 DEF ReaderStep

\* How far Open and Run can get.
WorkBound == Work <= 3 * Len(file) + 4

\* It is the size of the file that bounds it.
LEMMA WorkBounded == ReadInv /\ TableFits => WorkBound
<1> SUFFICES ASSUME ReadInv, TableFits PROVE Work <= 3 * Len(file) + 4
  BY DEF WorkBound
<1> DEFINE p == PhaseOf(pc)
<1>1. p \in 0 .. 4
  BY PhaseSteps DEF ReadInv, RTypeOK
<1>2. Work = p + hooked + 2 * offset
  BY PhaseSteps
<1> HIDE DEF p
<1> QED BY <1>1, <1>2, WorkTypes

(***************************************************************************)
(* Neither Open nor Run can loop, on any file: each step gets further, and *)
(* the size of the file bounds how far.  With the clock running (TLC) this *)
(* is why every replay ends.                                               *)
(***************************************************************************)
THEOREM ReplayCannotLoop == RSpec => EachStepGetsFurther
<1>1. RInit => TableFits
  <2>1. RInit => offset = 0 /\ topics_ = <<>> /\ Len(<<>>) = 0
    BY DEF RInit
  <2> QED BY <2>1 DEF TableFits
<1>2. ReadInv /\ WorkBound' /\ TableFits /\ [RNext]_rvars
        => [ReaderStep => Work < Work' /\ Work' <= 3 * file_size_ + 4]_rvars
  <2> SUFFICES ASSUME ReadInv, WorkBound', TableFits, ReaderStep
               PROVE  Work < Work' /\ Work' <= 3 * file_size_ + 4
    OBVIOUS
  <2>1. file' = file
    BY DEF ReaderStep, RejectHeader, AcceptHeader, RejectTopic, ParseTopic, ParsedTopics,
       AdvertiseTopic, RefuseTopic, Opened, NextRecord, Republish, Finish, fileVars
  <2> QED BY <2>1, StepGetsFurther DEF file_size_, WorkBound
<1> QED BY <1>1, <1>2, ReadAlways, WorkBounded, TableFitsStep, PTL
        DEF RSpec, EachStepGetsFurther

=============================================================================
