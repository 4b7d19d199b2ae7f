---------------------------- MODULE MCWireFormat ----------------------------
(***************************************************************************)
(* The codec with a byte of two values, so that the values of a structure  *)
(* can be enumerated: all of them where that is few and the boundary       *)
(* values elsewhere.                                                       *)
(***************************************************************************)
EXTENDS Codec

MCMagic == <<0, 1, 0, 0, 1, 0, 0, 1>>

\* both ends of the integers below n
Edge(n) == {0, 1, n - 2, n - 1}

MCFileHeaders == [version : Edge(Base4), topic_count : U32, created_at_ns : U64]

\* names of nonzero bytes, up to one longer than the field holds
MCNames == {[i \in 1 .. n |-> 1] : n \in 0 .. NameBytes + 1}

MCTopicMetas == [topic_id : U16, struct_size : U32, name : MCNames]

MCRecordHeaders == [topic_id : U16, stamp_ns : U64, seq : Edge(Base8)]

MCIndexEntries == [stamp_ns : Edge(Base8), byte_offset : U64, topic_id : U16]

MCJoyMsgs ==
  [timestamp : Edge(Base8), axis0 : U32, axis2 : Edge(Base4),
   buttons : [{JoyButtons[i] : i \in 1 .. 6} -> BOOLEAN]]

MCFollowing == {<<>>, <<0, 0, 0>>, <<1, 1, 1>>}

=============================================================================
