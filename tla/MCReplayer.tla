----------------------------- MODULE MCReplayer -----------------------------
(***************************************************************************)
(* Small sessions for Replayer: two topics of different sizes with stamps  *)
(* out of order (one of them older than the first), a name that is cut, a  *)
(* session of a build whose type has another size, one with a topic this   *)
(* build does not have, one without topics; and damaged files.             *)
(***************************************************************************)
EXTENDS Replayer, TLC

MCMagic == <<1, 2, 3, 3, 2, 1, 0, 0>>

Topic(id, size, name) == [topic_id |-> id, wire_size |-> size, name |-> name]
Rec(id, stamp, seq, bytes) ==
  [topic_id |-> id, stamp_ns |-> stamp, seq |-> seq, payload |-> bytes]

Joy == Topic(1, 2, <<1>>)
Imu == Topic(2, 1, <<2, 3, 1, 2>>)

Mixed ==
  [topics |-> <<Joy, Imu>>, created |-> 9,
   records |-> <<Rec(1, 30, 0, <<3, 1>>), Rec(2, 32, 0, <<2>>),
                 Rec(1, 29, 1, <<0, 0>>), Rec(2, 33, 1, <<1>>)>>]

OneTopic == [topics |-> <<Imu>>, created |-> 300, records |-> <<Rec(2, 1000, 7, <<3>>)>>]

LargerType ==
  [topics |-> <<Topic(1, 1, <<1>>)>>, created |-> 0,
   records |-> <<Rec(1, 5, 0, <<2>>)>>]

UnknownType ==
  [topics |-> <<Imu, Topic(3, 1, <<>>)>>, created |-> 0,
   records |-> <<Rec(3, 5, 0, <<2>>)>>]

Nothing == [topics |-> <<>>, created |-> 1, records |-> <<>>]

MCSessions == {Mixed, OneTopic, LargerType, UnknownType, Nothing}

\* Mixed, with some of its bytes replaced: the header is 1 .. 32, the table
\* 33 .. 50, and the records start at 51, 71, 90 and 110
Damaged(bytes) == bytes @@ Image(Mixed)

MCOtherFiles ==
  \* any one byte is damaged
  {Damaged(i :> b) : i \in DOMAIN Image(Mixed), b \in Byte} \cup
  {\* the first topic is twice in the table
   Damaged(42 :> 1 @@ 44 :> 2),
   \* the distance of two stamps overflows target_ns
   Damaged([i \in 53 .. 60 |-> 0] @@ [i \in 73 .. 80 |-> 3]),
   \* a write failed and left out the payload of the second record
   SubSeq(Image(Mixed), 1, 88) \o SubSeq(Image(Mixed), 90, 128)}

MCOverrun == {<<>>, <<2>>, <<1, 3>>}

MCRegistry == 1 :> 2 @@ 2 :> 1

=============================================================================
