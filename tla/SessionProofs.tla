---------------------------- MODULE SessionProofs ---------------------------
(***************************************************************************)
(* For every list of topics, configuration, clock and number of runs: the  *)
(* recorder never pushes without a writer, loses no sample without a       *)
(* trace, and leaves only records that the table of their file resolves,   *)
(* however its runs are set up, signalled and killed; and it records the   *)
(* topics its configuration asks for.                                      *)
(***************************************************************************)
EXTENDS Session, RelaxedQueueProofs, FiniteSetTheorems, SequenceTheorems,
        WellFoundedInduction

-----------------------------------------------------------------------------
(* The queue of the current run.                                           *)

\* A step of the recorder is one of its recording, or starts a new run.
LEMMA RecordingInside ==
  ASSUME [SNext]_svars
  PROVE  Start \/ [RecNext]_recvars
<1>1. CASE MainStep \/ TickFails
  BY <1>1 DEF MainStep, TickFails, LoadConfig, LoadFails, SkipTopic, SubscribeTopic,
     SubscribeFails, SetupDone, OpenRecording, OpenFails, LeaveLoop, CloseReturns,
     DestroySystem, DestroyWriter, RecNext
<1>2. ASSUME NEW t \in Topics, Callback(t) PROVE [RecNext]_recvars
  BY <1>2 DEF Callback, RecNext
<1>3. CASE PushEnds \/ WriterStep
  BY <1>3 DEF PushEnds, WriterStep, RecNext
<1>4. CASE WriterSync \/ SignalHandler \/ Kill \/ ClockTick \/ UNCHANGED svars
  BY <1>4 DEF WriterSync, SignalHandler, Kill, ClockTick, svars, RecNext
<1> QED BY <1>1, <1>2, <1>3, <1>4 DEF SNext

\* A step of the recording is one of its queue.
LEMMA QueueInside == [RecNext]_recvars => [QNext]_qvars
  BY DEF RecNext, PushBegins, PushAccepted, PushRefused, Begin, RequestEnd, End, Take,
     Write, Sync, Crash, QNext, recvars

\* The queue of every run keeps its promise.
LEMMA QueueAlways == SSpec => []QInv
<1>1. SInit => QInv
  BY QInitInv DEF SInit, RecInit
<1>2. ASSUME QInv, [SNext]_svars PROVE QInv'
  <2>1. CASE Start
    <3>1. offered' = 0 /\ pending' = {} /\ waiting' = {} /\ delivered' = <<>>
      BY <2>1 DEF Start
    <3> QED BY <3>1, QueueAssumption DEF QInv, QTypeOK, OnePlace, PendingIsRecent,
         DeliveredNotFarAhead, DeliveredOnce, BoundedDisplacement
  <2>2. CASE [RecNext]_recvars
    BY <1>2, <2>2, QueueInside, QNextInv
  <2> QED BY <1>2, <2>1, <2>2, RecordingInside
<1>3. QInv /\ [SNext]_svars => QInv'
  BY <1>2
<1> QED BY <1>1, <1>3, PTL DEF SSpec

-----------------------------------------------------------------------------
(* Main, its subscriptions and its writer.                                 *)

(***************************************************************************)
(* No callback can run without a writer to push to, on any way out of      *)
(* main: the system is destroyed, and with it the subscriptions, before    *)
(* the writer.                                                             *)
(***************************************************************************)
THEOREM NoPushWithoutWriter == SSpec => []WriterOutlivesCallbacks
<1>1. SInit => WriterOutlivesCallbacks
  BY DEF SInit, RecInit, QInit, WriterOutlivesCallbacks
<1>2. ASSUME WriterOutlivesCallbacks, [SNext]_svars PROVE WriterOutlivesCallbacks'
  <2> USE <1>2 DEF WriterOutlivesCallbacks
  <2>1. CASE Start
    BY <2>1 DEF Start
  <2>2. CASE LoadConfig \/ LoadFails
    BY <2>2 DEF LoadConfig, LoadFails, recvars, qvars, fileVars
  <2>3. CASE SkipTopic \/ SubscribeTopic \/ SubscribeFails \/ SetupDone
    BY <2>3 DEF SkipTopic, SubscribeTopic, SubscribeFails, SetupDone
  <2>4. CASE OpenRecording \/ OpenFails
    BY <2>4 DEF OpenRecording, OpenFails
  <2>5. CASE LeaveLoop \/ TickFails \/ CloseReturns
    BY <2>5 DEF LeaveLoop, TickFails, CloseReturns
  <2>6. CASE DestroySystem \/ DestroyWriter
    BY <2>6 DEF DestroySystem, DestroyWriter, recvars, qvars, fileVars
  <2>7. ASSUME NEW t \in Topics, Callback(t) PROVE WriterOutlivesCallbacks'
    BY <2>7 DEF Callback
  <2>8. CASE PushEnds
    BY <2>8 DEF PushEnds, PushAccepted, PushRefused, fileVars
  <2>9. CASE WriterStep
    BY <2>9 DEF WriterStep, Take, Deliver, Write, qvars, fileVars
  <2>10. CASE Kill
    BY <2>10 DEF Kill, Crash
  <2>11. CASE UNCHANGED <<subs_, pc, pending, stage>>
    BY <2>11
  <2>12. CASE WriterSync \/ SignalHandler \/ ClockTick \/ UNCHANGED svars
    BY <2>11, <2>12 DEF WriterSync, Sync, SignalHandler, ClockTick, svars, recvars, qvars,
       fileVars
  <2> QED BY <1>2, <2>1, <2>2, <2>3, <2>4, <2>5, <2>6, <2>7, <2>8, <2>9, <2>10, <2>12
       DEF SNext, MainStep
<1>3. WriterOutlivesCallbacks /\ [SNext]_svars => WriterOutlivesCallbacks'
  BY <1>2
<1> QED BY <1>1, <1>3, PTL DEF SSpec

(***************************************************************************)
(* How far main is, and what the writer has of the recording then.         *)
(***************************************************************************)
Phases ==
  /\ pc \in {"load", "setup", "open"} => stage = "idle" /\ table = <<>> /\ name = NoName
  /\ pc = "loop" => stage = "open"
  /\ pc = "join" => stage = "closing"
  /\ pc \in {"unwind", "release"} => stage \in {"idle", "closed"}
  /\ pc = "off" => stage \in {"idle", "closed", "crashed"}
  /\ stage = "idle" => written = 0

(***************************************************************************)
(* Types, for the recording, for main and for the samples.                 *)
(***************************************************************************)
RecordingTypes ==
  /\ stage \in {"idle", "open", "closing", "closed", "crashed"}
  /\ written \in 0 .. Len(delivered)
  /\ durable \in 0 .. written
  /\ refused \in Nat
  /\ owed \subseteq 0 .. offered - 1

TopicInfo(t) == [topic_id |-> AllTopics[t].id, wire_size |-> AllTopics[t].wire_size]
TopicInfos == {TopicInfo(t) : t \in Topics}
Names == {LocalTime[s] : s \in Seconds}

MainTypes ==
  /\ clock \in Seconds
  /\ DOMAIN files \subseteq Names
  /\ name \in Names \cup {NoName}
  /\ run \in 0 .. Len(MaxCalls)
  /\ pc \in {"off", "load", "setup", "open", "loop", "join", "unwind", "release"}
  /\ pc # "off" => run > 0
  /\ config \in Configs
  /\ next \in 1 .. Len(AllTopics) + 1
  /\ ok \in BOOLEAN /\ g_running \in BOOLEAN
  /\ subs_ \subseteq Topics
  /\ enabled_topics_ \in Seq(TopicInfos)
  /\ Len(enabled_topics_) < next
  /\ opened \subseteq 1 .. run

SampleTypes ==
  /\ topicOf \in Seq(Topics)
  /\ Len(topicOf) = offered
  /\ calls \in [Topics -> Nat]

TypeInv == QInv /\ Phases /\ RecordingTypes /\ MainTypes /\ SampleTypes

\* The three together are the type invariant.
LEMMA TypesSuffice == TypeInv => STypeOK
<1> SUFFICES ASSUME TypeInv PROVE STypeOK
  OBVIOUS
<1>1. topicOf \in [1 .. offered -> Topics]
  BY LenProperties DEF TypeInv, SampleTypes
<1> QED BY <1>1 DEF TypeInv, RecordingTypes, MainTypes, SampleTypes, STypeOK, Names

\* The numbers and sets of the recording stay within their bounds.
LEMMA RecordingTypesNext ==
  ASSUME QInv, RecordingTypes, [SNext]_svars
  PROVE  RecordingTypes'
<1>0. /\ offered \in Nat /\ delivered \in Seq(0 .. offered - 1)
      /\ waiting \subseteq 0 .. offered - 1
      /\ Len(delivered) \in Nat /\ DOMAIN delivered = 1 .. Len(delivered)
      /\ \A k \in DOMAIN delivered : delivered[k] \in 0 .. offered - 1
  BY LenProperties, QueueAssumption DEF QInv, QTypeOK
<1> USE DEF RecordingTypes
<1>1. CASE Start
  BY <1>1 DEF Start
<1>2. CASE PushBegins
  BY <1>0, <1>2 DEF PushBegins, Offer, fileVars
<1>3. ASSUME NEW i \in pending, PushAccepted(i) \/ PushRefused(i)
      PROVE  RecordingTypes'
  <2>1. UNCHANGED <<offered, delivered, fileVars>> /\ refused' \in {refused, refused + 1}
    BY <1>3 DEF PushAccepted, PushRefused, Accept, Refuse
  <2> QED BY <2>1 DEF fileVars
<1>4. CASE Begin
  BY <1>4 DEF Begin, qvars
<1>5. CASE RequestEnd
  BY <1>0, <1>5 DEF RequestEnd, qvars
<1>6. CASE End
  BY <1>0, <1>6 DEF End, qvars
<1>7. ASSUME NEW i \in waiting, Take(i) PROVE RecordingTypes'
  <2>1. Len(delivered') = Len(delivered) + 1
    BY <1>0, <1>7 DEF Take, Deliver
  <2> QED BY <1>0, <1>7, <2>1 DEF Take, Deliver, fileVars
<1>8. CASE Write
  BY <1>0, <1>8 DEF Write, qvars
<1>9. CASE Sync
  BY <1>0, <1>9 DEF Sync, qvars
<1>10. CASE Crash
  BY <1>0, <1>10 DEF Crash, qvars
<1>11. CASE UNCHANGED recvars
  BY <1>11 DEF recvars, qvars, fileVars
<1> QED BY <1>1, <1>2, <1>3, <1>4, <1>5, <1>6, <1>7, <1>8, <1>9, <1>10, <1>11,
     RecordingInside DEF RecNext

\* What the assumptions say of the list of topics.
LEMMA TopicTypes ==
  /\ Len(AllTopics) \in Nat /\ Topics = 1 .. Len(AllTopics)
  /\ \A t \in Topics : /\ TopicInfo(t) \in TopicInfos
                       /\ TopicInfo(t).topic_id = AllTopics[t].id
                       /\ TopicInfo(t).wire_size = AllTopics[t].wire_size
                       /\ AllTopics[t].wire_size \in Nat
<1>1. AllTopics \in Seq([name : STRING, id : UInt16, wire_size : Nat])
  BY SessionAssumption
<1>2. Len(AllTopics) \in Nat /\ Topics = 1 .. Len(AllTopics)
  BY <1>1, LenProperties DEF Topics
<1>3. ASSUME NEW t \in Topics PROVE AllTopics[t].wire_size \in Nat
  <2>1. AllTopics[t] \in [name : STRING, id : UInt16, wire_size : Nat]
    BY <1>1, <1>2, ElementOfSeq
  <2> HIDE DEF Topics
  <2> QED BY <2>1
<1> QED BY <1>2, <1>3 DEF TopicInfo, TopicInfos

\* The steps that leave main's own variables alone.
MainUntouched == UNCHANGED <<clock, run, pc, setupVars, subs_, diskVars>>

\* Which steps are main's, and which are not.
LEMMA MainSteps ==
  ASSUME [SNext]_svars
  PROVE  \/ Start \/ MainStep \/ TickFails \/ Kill
         \/ /\ MainUntouched
            /\ g_running' \in {g_running, FALSE}
         \/ clock' \in Seconds /\ UNCHANGED <<run, pc, setupVars, subs_, g_running, diskVars>>
  BY DEF SNext, MainUntouched, Callback, PushEnds, WriterStep, WriterSync, SignalHandler,
     ClockTick, svars

\* The variables of main keep their types.
LEMMA MainTypesNext ==
  ASSUME MainTypes, [SNext]_svars
  PROVE  MainTypes'
<1>0. /\ Len(MaxCalls) \in Nat /\ Len(AllTopics) \in Nat /\ Topics = 1 .. Len(AllTopics)
      /\ run \in Nat
  <2>1. MaxCalls \in Seq(0 .. MaxOffers)
    BY SessionAssumption
  <2>2. Len(MaxCalls) \in Nat
    BY <2>1, LenProperties
  <2> QED BY <2>2, TopicTypes DEF MainTypes
<1>1. CASE Start
  <2>1. DOMAIN Directory \subseteq Names
    BY DEF MainTypes, Directory
  <2>2. run' \in 0 .. Len(MaxCalls) /\ opened' \subseteq 1 .. run'
    BY <1>0, <1>1 DEF Start, MainTypes
  <2>3. enabled_topics_' \in Seq(TopicInfos) /\ Len(enabled_topics_') < next'
        /\ next' \in 1 .. Len(AllTopics) + 1
    BY <1>0, <1>1 DEF Start
  <2> QED BY <1>1, <2>1, <2>2, <2>3 DEF Start, MainTypes
<1>2. CASE LoadConfig \/ LoadFails \/ SetupDone
  BY <1>2 DEF LoadConfig, LoadFails, SetupDone, MainTypes, setupVars, diskVars
<1>3. CASE SkipTopic \/ SubscribeFails
  <2>1. next' \in 1 .. Len(AllTopics) + 1 /\ Len(enabled_topics_') < next'
    <3>1. Len(enabled_topics_) \in Nat
      BY LenProperties DEF MainTypes
    <3>2. next \in 1 .. Len(AllTopics) /\ next' = next + 1 /\ enabled_topics_' = enabled_topics_
      BY <1>0, <1>3 DEF SkipTopic, SubscribeFails
    <3> QED BY <1>0, <3>1, <3>2 DEF MainTypes
  <2> QED BY <1>3, <2>1 DEF SkipTopic, SubscribeFails, MainTypes, diskVars
<1>4. CASE SubscribeTopic
  <2>1. next \in Topics /\ TopicInfo(next) \in TopicInfos
    BY <1>4, TopicTypes DEF SubscribeTopic
  <2>2. enabled_topics_' = Append(enabled_topics_, TopicInfo(next))
    BY <1>4 DEF SubscribeTopic, TopicInfo
  <2> HIDE DEF Topics
  <2>3. /\ enabled_topics_' \in Seq(TopicInfos)
        /\ Len(enabled_topics_') = Len(enabled_topics_) + 1
    BY <2>1, <2>2 DEF MainTypes
  <2>4. Len(enabled_topics_) \in Nat
    BY LenProperties DEF MainTypes
  <2>5. next' \in 1 .. Len(AllTopics) + 1 /\ Len(enabled_topics_') < next'
    BY <1>0, <1>4, <2>1, <2>3, <2>4 DEF SubscribeTopic, MainTypes
  <2> QED BY <1>4, <2>1, <2>3, <2>5 DEF SubscribeTopic, MainTypes, diskVars
<1>5. CASE OpenRecording \/ OpenFails
  <2>1. MakeSessionBaseName \in Names
    BY DEF MainTypes, MakeSessionBaseName, Names
  <2>2. DOMAIN Without(files, MakeSessionBaseName) \subseteq DOMAIN files
    BY DEF Without
  <2>3. name' \in Names \cup {NoName} /\ DOMAIN files' \subseteq Names
    BY <1>5, <2>1, <2>2 DEF OpenRecording, OpenFails, MainTypes
  <2>4. opened' \subseteq 1 .. run'
    <3>1. CASE OpenFails
      BY <3>1 DEF OpenFails, MainTypes
    <3>2. CASE OpenRecording
      BY <1>0, <3>2 DEF OpenRecording, MainTypes
    <3> QED BY <1>5, <3>1, <3>2
  <2> QED BY <1>5, <2>3, <2>4 DEF OpenRecording, OpenFails, MainTypes, setupVars
<1>6. CASE LeaveLoop \/ TickFails \/ CloseReturns
  BY <1>6 DEF LeaveLoop, TickFails, CloseReturns, MainTypes, setupVars, diskVars
<1>7. CASE DestroySystem \/ DestroyWriter
  BY <1>7 DEF DestroySystem, DestroyWriter, MainTypes, setupVars, diskVars
<1>8. CASE Kill
  BY <1>8 DEF Kill, MainTypes, setupVars
<1>9. CASE MainUntouched /\ g_running' \in {g_running, FALSE}
  BY <1>9 DEF MainUntouched, MainTypes, setupVars, diskVars
<1>10. CASE clock' \in Seconds /\ UNCHANGED <<run, pc, setupVars, subs_, g_running, diskVars>>
  BY <1>10 DEF MainTypes, setupVars, diskVars
<1> QED BY <1>1, <1>2, <1>3, <1>4, <1>5, <1>6, <1>7, <1>8, <1>9, <1>10, MainSteps
     DEF MainStep

\* A sample has a topic, and each push is one sample.
LEMMA SampleTypesNext ==
  ASSUME QInv, SampleTypes, [SNext]_svars
  PROVE  SampleTypes'
<1>1. CASE Start
  BY <1>1 DEF Start, SampleTypes
<1>2. ASSUME NEW t \in Topics, Callback(t) PROVE SampleTypes'
  <2>1. calls' \in [Topics -> Nat]
    BY <1>2 DEF Callback, SampleTypes
  <2>2. CASE UNCHANGED <<recvars, topicOf>>
    BY <2>1, <2>2 DEF SampleTypes, recvars, qvars
  <2>3. CASE PushBegins /\ topicOf' = Append(topicOf, t)
    <3> HIDE DEF Topics
    <3>1. topicOf' \in Seq(Topics) /\ Len(topicOf') = Len(topicOf) + 1
      BY <2>3 DEF SampleTypes
    <3> QED BY <2>1, <2>3, <3>1 DEF SampleTypes, PushBegins, Offer
  <2> QED BY <1>2, <2>2, <2>3 DEF Callback
<1>3. CASE UNCHANGED <<offered, sampleVars>>
  BY <1>3 DEF SampleTypes, sampleVars
<1>4. CASE MainStep \/ TickFails
  <2>1. UNCHANGED sampleVars
    BY <1>4 DEF MainStep, TickFails, LoadConfig, LoadFails, SkipTopic, SubscribeTopic,
       SubscribeFails, SetupDone, OpenRecording, OpenFails, LeaveLoop, CloseReturns,
       DestroySystem, DestroyWriter
  <2>2. UNCHANGED offered
    BY <1>4 DEF MainStep, TickFails, LoadConfig, LoadFails, SkipTopic, SubscribeTopic,
       SubscribeFails, SetupDone, OpenRecording, OpenFails, LeaveLoop, CloseReturns,
       DestroySystem, DestroyWriter, Begin, RequestEnd, End, recvars, qvars
  <2> QED BY <1>3, <2>1, <2>2
<1>5. CASE PushEnds \/ WriterStep
  BY <1>3, <1>5 DEF PushEnds, PushAccepted, PushRefused, Accept, Refuse, WriterStep, Take,
     Deliver, Write, qvars
<1>6. CASE WriterSync \/ SignalHandler \/ Kill \/ ClockTick \/ UNCHANGED svars
  BY <1>3, <1>6 DEF WriterSync, Sync, SignalHandler, Kill, Crash, ClockTick, svars, recvars,
     qvars
<1> QED BY <1>1, <1>2, <1>4, <1>5, <1>6 DEF SNext

\* Main and its writer stay in step.
LEMMA PhasesNext ==
  ASSUME RecordingTypes, Phases, [SNext]_svars
  PROVE  Phases'
<1> USE DEF Phases
<1>1. CASE Start
  BY <1>1 DEF Start
<1>2. CASE LoadConfig \/ LoadFails \/ SkipTopic \/ SubscribeTopic \/ SubscribeFails
           \/ SetupDone \/ OpenFails \/ DestroySystem \/ DestroyWriter
  BY <1>2 DEF LoadConfig, LoadFails, SkipTopic, SubscribeTopic, SubscribeFails, SetupDone,
     OpenFails, DestroySystem, DestroyWriter, recvars, fileVars, diskVars
<1>3. CASE OpenRecording \/ LeaveLoop \/ TickFails \/ CloseReturns
  BY <1>3 DEF OpenRecording, LeaveLoop, TickFails, CloseReturns, Begin, RequestEnd, End
<1>4. ASSUME NEW t \in Topics, Callback(t) PROVE Phases'
  BY <1>4 DEF Callback, PushBegins, recvars, fileVars, diskVars
<1>5. CASE PushEnds
  BY <1>5 DEF PushEnds, PushAccepted, PushRefused, fileVars, diskVars
<1>6. CASE WriterStep \/ WriterSync
  BY <1>6 DEF WriterStep, WriterSync, Take, Write, Sync, WriterActive, fileVars, diskVars
<1>7. CASE Kill
  BY <1>7 DEF Kill, Crash
<1>8. CASE SignalHandler \/ ClockTick \/ UNCHANGED svars
  BY <1>8 DEF SignalHandler, ClockTick, svars, recvars, fileVars, diskVars
<1> QED BY <1>1, <1>2, <1>3, <1>4, <1>5, <1>6, <1>7, <1>8 DEF SNext, MainStep

\* Types and phases before the first run.
LEMMA TypeInit == SInit => TypeInv
<1> SUFFICES ASSUME SInit PROVE TypeInv
  OBVIOUS
<1>1. QInv /\ Phases
  BY QInitInv DEF SInit, RecInit, Phases
<1>2. offered = 0 /\ delivered = <<>> /\ Len(delivered) = 0
  BY DEF SInit, RecInit, QInit
<1>3. RecordingTypes
  BY <1>2 DEF SInit, RecInit, RecordingTypes
<1>4. MainTypes
  <2>1. MaxCalls \in Seq(0 .. MaxOffers) /\ 0 \in Seconds /\ Configs # {}
    BY SessionAssumption
  <2>2. Len(MaxCalls) \in Nat /\ Len(AllTopics) \in Nat
    BY <2>1, LenProperties, TopicTypes
  <2>3. config \in Configs
    BY <2>1 DEF SInit
  <2>4. clock \in Seconds /\ DOMAIN files = {} /\ subs_ = {} /\ opened = {}
    BY <2>1 DEF SInit, NoFiles
  <2>5. enabled_topics_ \in Seq(TopicInfos) /\ Len(enabled_topics_) = 0 /\ next = 1
    BY DEF SInit
  <2> QED BY <2>2, <2>3, <2>4, <2>5 DEF SInit, MainTypes
<1>5. SampleTypes
  BY <1>2 DEF SInit, SampleTypes
<1> QED BY <1>1, <1>3, <1>4, <1>5 DEF TypeInv

\* Types and phases, always.
LEMMA TypeAlways == SSpec => []TypeInv
<1> DEFINE TI == RecordingTypes /\ MainTypes /\ SampleTypes /\ Phases
<1>1. SInit => TI
  BY TypeInit DEF TypeInv
<1>2. QInv /\ TI /\ [SNext]_svars => TI'
  BY RecordingTypesNext, MainTypesNext, SampleTypesNext, PhasesNext
<1>3. QInv /\ TI => TypeInv
  BY DEF TypeInv
<1> HIDE DEF TI
<1> QED BY <1>1, <1>2, <1>3, QueueAlways, PTL DEF SSpec

(***************************************************************************)
(* Type correctness of the recorder, over all its runs.                    *)
(***************************************************************************)
THEOREM SessionTypeCorrect == SSpec => []STypeOK
  BY TypeAlways, TypesSuffice, PTL

(***************************************************************************)
(* In every run of the recorder the writer gets no sample twice, and none  *)
(* a window or more ahead of an older one.                                 *)
(***************************************************************************)
THEOREM SessionQueueKeepsPromise ==
  SSpec => [](QTypeOK /\ DeliveredOnce /\ BoundedDisplacement)
<1>1. QInv => QTypeOK /\ DeliveredOnce /\ BoundedDisplacement
  BY DEF QInv
<1> QED BY <1>1, QueueAlways, PTL

-----------------------------------------------------------------------------
(***************************************************************************)
(* The topic table.  It lists topics SetupOne has looked at, each once; a  *)
(* topic is listed when it is subscribed, so that every sample ever pushed *)
(* is of a listed topic; and the file has the table before it has records. *)
(***************************************************************************)
Listed(t) == \E k \in DOMAIN enabled_topics_ : enabled_topics_[k] = TopicInfo(t)

TableGrows ==
  /\ \A k \in DOMAIN enabled_topics_ :
       \E t \in Topics : t < next /\ enabled_topics_[k] = TopicInfo(t)
  /\ \A j, k \in DOMAIN enabled_topics_ :
       j # k => enabled_topics_[j].topic_id # enabled_topics_[k].topic_id

SamplesListed ==
  /\ \A t \in subs_ : Listed(t)
  /\ \A i \in DOMAIN topicOf : Listed(topicOf[i])

TableFirst ==
  /\ table \in {<<>>, enabled_topics_}
  /\ written > 0 \/ WriterActive => table = enabled_topics_

TableInv == TableGrows /\ SamplesListed /\ TableFirst

\* A subscription adds a topic that was not listed.
LEMMA SubscribeTable ==
  ASSUME TypeInv, TableInv, SubscribeTopic
  PROVE  TableInv'
<1> DEFINE E == enabled_topics_
          L == Len(enabled_topics_)
<1>1. next \in Topics /\ TopicInfo(next) \in TopicInfos /\ next' = next + 1 /\ next \in Nat
  BY TopicTypes DEF SubscribeTopic
<1>2. E' = Append(E, TopicInfo(next))
  BY DEF SubscribeTopic, TopicInfo
<1>3. E \in Seq(TopicInfos)
  BY DEF TypeInv, MainTypes
<1> HIDE DEF Topics
<1>4. /\ L \in Nat /\ DOMAIN E = 1 .. L /\ DOMAIN E' = 1 .. L + 1
      /\ \A k \in 1 .. L : E'[k] = E[k]
      /\ E'[L + 1] = TopicInfo(next)
  BY <1>1, <1>2, <1>3
<1>5. ASSUME NEW k \in 1 .. L + 1
      PROVE  k \in 1 .. L \/ k = L + 1
  BY <1>4
<1>6. ASSUME NEW k \in 1 .. L
      PROVE  /\ \E t \in Topics : t < next /\ E[k] = TopicInfo(t)
             /\ E[k].topic_id # AllTopics[next].id
  <2>1. PICK t \in Topics : t < next /\ E[k] = TopicInfo(t)
    BY <1>4 DEF TableInv, TableGrows
  <2>2. t # next
    BY <1>1, <2>1, TopicTypes
  <2>3. AllTopics[t].id # AllTopics[next].id
    BY <1>1, <2>2, SessionAssumption
  <2>4. E[k].topic_id = AllTopics[t].id
    BY <2>1, TopicTypes
  <2> QED BY <2>1, <2>3, <2>4
<1>7. TopicInfo(next).topic_id = AllTopics[next].id
  BY <1>1, TopicTypes
<1>8. TableGrows'
  <2>1. ASSUME NEW k \in 1 .. L + 1
        PROVE  \E t \in Topics : t < next + 1 /\ E'[k] = TopicInfo(t)
    <3>1. CASE k = L + 1
      BY <1>1, <1>4, <3>1
    <3>2. CASE k \in 1 .. L
      <4>1. PICK t \in Topics : t < next /\ E[k] = TopicInfo(t)
        BY <1>6, <3>2
      <4>2. t < next + 1
        BY <1>1, <4>1, TopicTypes
      <4> QED BY <1>4, <3>2, <4>1, <4>2
    <3> QED BY <1>5, <3>1, <3>2
  <2>2. ASSUME NEW j \in 1 .. L + 1, NEW k \in 1 .. L + 1, j # k
        PROVE  E'[j].topic_id # E'[k].topic_id
    <3>1. CASE j \in 1 .. L /\ k \in 1 .. L
      BY <1>4, <2>2, <3>1 DEF TableInv, TableGrows
    <3>2. CASE j \in 1 .. L /\ k = L + 1
      BY <1>4, <1>6, <1>7, <3>2
    <3>3. CASE j = L + 1 /\ k \in 1 .. L
      BY <1>4, <1>6, <1>7, <3>3
    <3> QED BY <1>5, <2>2, <3>1, <3>2, <3>3
  <2> QED BY <1>1, <1>4, <2>1, <2>2 DEF TableGrows
<1>9. SamplesListed'
  <2>0. PICK n : n = next
    OBVIOUS
  <2>1. ASSUME NEW t \in Topics, Listed(t) PROVE Listed(t)'
    <3>1. PICK k \in 1 .. L : E[k] = TopicInfo(t)
      BY <1>4, <2>1 DEF Listed
    <3>2. k \in 1 .. L + 1 /\ E'[k] = TopicInfo(t)
      BY <1>4, <3>1
    <3> QED BY <1>4, <3>2 DEF Listed
  <2>2. Listed(n)'
    <3>1. L + 1 \in 1 .. L + 1
      BY <1>4
    <3> QED BY <1>4, <2>0, <3>1 DEF Listed
  <2>3. subs_' = subs_ \cup {n} /\ topicOf' = topicOf /\ subs_ \subseteq Topics
    BY <2>0 DEF SubscribeTopic, sampleVars, TypeInv, MainTypes
  <2>4. \A t \in subs_' : Listed(t)'
    BY <2>1, <2>2, <2>3 DEF TableInv, SamplesListed
  <2>5. ASSUME NEW i \in DOMAIN topicOf PROVE Listed(topicOf[i])'
    <3>1. PICK t : t = topicOf[i]
      OBVIOUS
    <3>2. t \in Topics
      BY <3>1, ElementOfSeq, LenProperties DEF TypeInv, SampleTypes
    <3>3. Listed(t)
      BY <3>1 DEF TableInv, SamplesListed
    <3>4. Listed(t)'
      BY <2>1, <3>2, <3>3
    <3> QED BY <2>3, <3>1, <3>4 DEF Listed
  <2> QED BY <2>3, <2>4, <2>5 DEF SamplesListed
<1>10. TableFirst'
  <2>1. table' = <<>> /\ written' = 0 /\ stage' = "idle"
    BY DEF SubscribeTopic, TypeInv, Phases, recvars, fileVars, diskVars
  <2> QED BY <2>1 DEF TableFirst, WriterActive
<1> QED BY <1>8, <1>9, <1>10 DEF TableInv

\* Every step keeps the table ahead of the records.
LEMMA TableNext ==
  ASSUME TypeInv, WriterOutlivesCallbacks, TableInv, [SNext]_svars
  PROVE  TableInv'
<1>1. CASE Start
  <2>1. /\ enabled_topics_' = <<>> /\ topicOf' = <<>> /\ table' = <<>> /\ written' = 0
        /\ stage' = "idle" /\ subs_' = {}
    BY <1>1 DEF Start, WriterOutlivesCallbacks
  <2> QED BY <2>1 DEF TableInv, TableGrows, SamplesListed, TableFirst, WriterActive
<1>2. CASE SubscribeTopic
  BY <1>2, SubscribeTable
<1>3. ASSUME UNCHANGED <<enabled_topics_, topicOf>>, subs_' \subseteq subs_,
             next' \in {next, next + 1}, TableFirst'
      PROVE  TableInv'
  <2>1. TableGrows'
    <3>1. ASSUME NEW t \in Topics, t < next PROVE t < next'
      BY <1>3, <3>1, TopicTypes DEF TypeInv, MainTypes
    <3> QED BY <1>3, <3>1 DEF TableInv, TableGrows
  <2>2. SamplesListed'
    BY <1>3 DEF TableInv, SamplesListed, Listed
  <2> QED BY <1>3, <2>1, <2>2 DEF TableInv
<1>4. ASSUME NEW t \in Topics, Callback(t) PROVE TableInv'
  <2>1. /\ UNCHANGED <<enabled_topics_, subs_, next, table>> /\ t \in subs_
        /\ \/ UNCHANGED topicOf
           \/ topicOf' = Append(topicOf, t)
        /\ UNCHANGED <<written, stage>>
    BY <1>4 DEF Callback, PushBegins, setupVars, diskVars, recvars, fileVars
  <2>2. TableFirst' /\ TableGrows'
    BY <2>1 DEF TableInv, TableFirst, TableGrows, WriterActive
  <2>3. SamplesListed'
    <3> HIDE DEF Topics
    <3>1. CASE topicOf' = Append(topicOf, t)
      <4>1. /\ DOMAIN topicOf = 1 .. Len(topicOf) /\ Len(topicOf) \in Nat
            /\ DOMAIN topicOf' = 1 .. Len(topicOf) + 1
            /\ \A i \in DOMAIN topicOf : topicOf'[i] = topicOf[i]
            /\ topicOf'[Len(topicOf) + 1] = t
        BY <3>1 DEF TypeInv, SampleTypes
      <4>2. \A i \in DOMAIN topicOf' : i \in DOMAIN topicOf \/ i = Len(topicOf) + 1
        BY <4>1
      <4> QED BY <2>1, <4>1, <4>2 DEF TableInv, SamplesListed, Listed
    <3>2. CASE UNCHANGED topicOf
      BY <2>1, <3>2 DEF TableInv, SamplesListed, Listed
    <3> QED BY <2>1, <3>1, <3>2
  <2> QED BY <2>2, <2>3 DEF TableInv
<1>5. CASE LoadConfig \/ LoadFails \/ SkipTopic \/ SubscribeFails \/ SetupDone \/ OpenFails
           \/ DestroySystem \/ DestroyWriter
  <2>1. /\ UNCHANGED <<enabled_topics_, topicOf, table, written, stage>>
        /\ subs_' \subseteq subs_ /\ next' \in {next, next + 1}
    BY <1>5 DEF LoadConfig, LoadFails, SkipTopic, SubscribeFails, SetupDone, OpenFails,
       DestroySystem, DestroyWriter, recvars, fileVars, setupVars, sampleVars, diskVars
  <2> QED BY <1>3, <2>1 DEF TableInv, TableFirst, WriterActive
<1>6. CASE OpenRecording
  <2>1. UNCHANGED <<enabled_topics_, topicOf, subs_, next>> /\ table' = enabled_topics_
    BY <1>6 DEF OpenRecording, setupVars, sampleVars
  <2>2. TableFirst'
    BY <2>1 DEF TableFirst
  <2> QED BY <1>3, <2>1, <2>2
<1>7. CASE LeaveLoop \/ TickFails \/ CloseReturns
  <2>1. /\ UNCHANGED <<enabled_topics_, topicOf, subs_, next, table, written>>
        /\ stage' = "closing" => stage = "open"
        /\ stage' # "open"
    BY <1>7 DEF LeaveLoop, TickFails, CloseReturns, RequestEnd, End, setupVars, sampleVars,
       diskVars
  <2>2. TableFirst'
    BY <2>1 DEF TableInv, TableFirst, WriterActive
  <2> QED BY <1>3, <2>1, <2>2
<1>8. CASE PushEnds \/ WriterStep \/ WriterSync
  <2>1. /\ UNCHANGED <<enabled_topics_, topicOf, subs_, next, table, stage>>
        /\ UNCHANGED written \/ WriterActive
    BY <1>8 DEF PushEnds, PushAccepted, PushRefused, WriterStep, Take, Write, WriterSync,
       Sync, setupVars, sampleVars, diskVars, fileVars
  <2>2. TableFirst'
    BY <2>1 DEF TableInv, TableFirst, WriterActive
  <2> QED BY <1>3, <2>1, <2>2
<1>9. CASE Kill
  <2>1. /\ UNCHANGED <<enabled_topics_, topicOf, next>> /\ subs_' = {}
        /\ stage' = "crashed" /\ written' \in durable .. written
        /\ UNCHANGED table \/ (written' = 0 /\ table' = <<>>)
    BY <1>9 DEF Kill, Crash, setupVars, sampleVars
  <2>2. written \in Nat /\ durable \in Nat
    BY LenProperties DEF TypeInv, QInv, QTypeOK, RecordingTypes
  <2>3. TableFirst'
    BY <2>1, <2>2 DEF TableInv, TableFirst, WriterActive
  <2> QED BY <1>3, <2>1, <2>3
<1>10. CASE SignalHandler \/ ClockTick \/ UNCHANGED svars
  <2>1. UNCHANGED <<enabled_topics_, topicOf, subs_, next, table, stage, written>>
    BY <1>10 DEF SignalHandler, ClockTick, svars, recvars, setupVars, sampleVars, diskVars,
       fileVars
  <2> QED BY <1>3, <2>1 DEF TableInv, TableFirst, WriterActive
<1> QED BY <1>1, <1>2, <1>4, <1>5, <1>6, <1>7, <1>8, <1>9, <1>10 DEF SNext, MainStep

-----------------------------------------------------------------------------
(* The directory.                                                          *)

\* What the reader needs of a file: a table entry for each record, once.
Replayable(f) ==
  /\ \A r \in Range(f.records) :
       \E k \in DOMAIN f.table :
         /\ f.table[k].topic_id = r.topic_id
         /\ f.table[k].wire_size = r.payload_len
  /\ \A j, k \in DOMAIN f.table :
       j # k => f.table[j].topic_id # f.table[k].topic_id

FilesKept == \A n \in DOMAIN files : Replayable(files[n])

\* The file of the current run is replayable at every moment.
LEMMA CurrentReplayable ==
  ASSUME TypeInv, TableInv
  PROVE  Replayable(CurrentFile)
<1>0. /\ written \in Nat /\ written <= Len(delivered) /\ Len(delivered) \in Nat
      /\ DOMAIN delivered = 1 .. Len(delivered) /\ offered \in Nat
      /\ \A k \in DOMAIN delivered : delivered[k] \in 0 .. offered - 1
      /\ DOMAIN topicOf = 1 .. offered
      /\ \A i \in 1 .. offered : topicOf[i] \in Topics
  BY LenProperties, ElementOfSeq, QueueAssumption
     DEF TypeInv, QInv, QTypeOK, RecordingTypes, SampleTypes
<1> DEFINE R == [k \in 1 .. written |->
                  LET t == AllTopics[topicOf[delivered[k] + 1]]
                  IN  [topic_id |-> t.id, payload_len |-> t.wire_size]]
<1>1. CurrentFile.records = R /\ CurrentFile.table = table
  BY DEF CurrentFile
<1> HIDE DEF Topics
<1>2. ASSUME NEW k \in 1 .. written
      PROVE  \E j \in DOMAIN table : /\ table[j].topic_id = R[k].topic_id
                                     /\ table[j].wire_size = R[k].payload_len
  <2>1. PICK t : t = topicOf[delivered[k] + 1]
    OBVIOUS
  <2>2. k \in DOMAIN delivered /\ written > 0
    BY <1>0
  <2>3. delivered[k] + 1 \in 1 .. offered
    BY <1>0, <2>2
  <2>4. t \in Topics /\ Listed(t)
    BY <1>0, <2>1, <2>3 DEF TableInv, SamplesListed
  <2>5. table = enabled_topics_
    BY <2>2 DEF TableInv, TableFirst
  <2>6. PICK j \in DOMAIN table : table[j] = TopicInfo(t)
    BY <2>4, <2>5 DEF Listed
  <2>7. /\ table[j].topic_id = AllTopics[t].id
        /\ table[j].wire_size = AllTopics[t].wire_size
    BY <2>4, <2>6, TopicTypes
  <2>8. /\ R[k].topic_id = AllTopics[t].id
        /\ R[k].payload_len = AllTopics[t].wire_size
    BY <2>1
  <2> HIDE DEF R
  <2> QED BY <2>7, <2>8
<1>3. \A j, k \in DOMAIN table : j # k => table[j].topic_id # table[k].topic_id
  BY DEF TableInv, TableFirst, TableGrows
<1>4. DOMAIN R = 1 .. written
  OBVIOUS
<1> HIDE DEF R
<1> QED BY <1>1, <1>2, <1>3, <1>4 DEF Replayable, Range

\* So is the whole directory.
LEMMA DirectoryReplayable ==
  ASSUME TypeInv, TableInv, FilesKept
  PROVE  \A n \in DOMAIN Directory : Replayable(Directory[n])
<1>1. Replayable(CurrentFile)
  BY CurrentReplayable
<1> QED BY <1>1 DEF Directory, FilesKept

\* The files of earlier runs are left alone or truncated away.
LEMMA FilesNext ==
  ASSUME TypeInv, TableInv, FilesKept, [SNext]_svars
  PROVE  FilesKept'
<1>1. CASE Start
  BY <1>1, DirectoryReplayable DEF Start, FilesKept
<1>2. CASE UNCHANGED files \/ files' = Without(files, MakeSessionBaseName)
  BY <1>2 DEF FilesKept, Without
<1>3. CASE MainStep \/ TickFails
  BY <1>2, <1>3 DEF MainStep, TickFails, LoadConfig, LoadFails, SkipTopic, SubscribeTopic,
     SubscribeFails, SetupDone, OpenRecording, OpenFails, LeaveLoop, CloseReturns,
     DestroySystem, DestroyWriter, diskVars
<1>4. CASE Kill
  BY <1>2, <1>4 DEF Kill
<1>5. CASE UNCHANGED diskVars
  BY <1>2, <1>5 DEF diskVars
<1> QED BY <1>1, <1>3, <1>4, <1>5, MainSteps DEF MainUntouched

(***************************************************************************)
(* No record of any file in the directory, of a run that ended, was killed *)
(* or is under way, stops its reader: its topic is in the table before it, *)
(* once, with that record's size, although records are pushed before the   *)
(* table exists.                                                           *)
(***************************************************************************)
THEOREM RecordingsReplayable == SSpec => []FilesReplayable
<1> DEFINE DirInv == TableInv /\ FilesKept
<1>1. SInit => DirInv
  <2> SUFFICES ASSUME SInit PROVE TableInv /\ FilesKept
    OBVIOUS
  <2>1. /\ enabled_topics_ = <<>> /\ topicOf = <<>> /\ table = <<>> /\ written = 0
        /\ stage = "idle" /\ subs_ = {} /\ DOMAIN files = {}
    BY DEF SInit, RecInit, NoFiles
  <2> QED BY <2>1 DEF TableInv, TableGrows, SamplesListed, TableFirst, WriterActive, FilesKept
<1>2. TypeInv /\ WriterOutlivesCallbacks /\ DirInv /\ [SNext]_svars => DirInv'
  BY TableNext, FilesNext
<1>3. TypeInv /\ DirInv => FilesReplayable
  <2> SUFFICES ASSUME TypeInv, DirInv PROVE FilesReplayable
    OBVIOUS
  <2>1. \A n \in DOMAIN Directory : Replayable(Directory[n])
    BY DirectoryReplayable
  <2> QED BY <2>1 DEF FilesReplayable, Replayable
<1> HIDE DEF DirInv
<1> QED BY <1>1, <1>2, <1>3, TypeAlways, NoPushWithoutWriter, PTL DEF SSpec

-----------------------------------------------------------------------------
(* The books.                                                              *)

PushesAccounted ==
  offered = Cardinality(pending) + Cardinality(waiting) + Len(delivered) + refused

SamplesOf(t) == {i \in DOMAIN topicOf : topicOf[i] = t}

CallsAccounted ==
  \A t \in Topics : AllTopics[t].wire_size <= kMaxPayloadBytes =>
    calls[t] = Cardinality(SamplesOf(t))

\* Of a finite set of samples: one more, one less.
LEMMA OneMoreOneLess ==
  ASSUME NEW n \in Nat, NEW S \in SUBSET (0 .. n - 1)
  PROVE  /\ IsFiniteSet(S) /\ Cardinality(S) \in Nat
         /\ \A x : x \notin S => Cardinality(S \cup {x}) = Cardinality(S) + 1
         /\ \A x \in S : Cardinality(S \ {x}) = Cardinality(S) - 1
<1>1. IsFiniteSet(0 .. n - 1)
  BY FS_Interval
<1>2. IsFiniteSet(S) /\ Cardinality(S) \in Nat
  BY <1>1, FS_Subset, FS_CardinalityType
<1> QED BY <1>2, FS_AddElement, FS_RemoveElement

\* A push under way, accepted, refused or delivered is one push.
LEMMA PushesNext ==
  ASSUME QInv, RecordingTypes, PushesAccounted, [SNext]_svars
  PROVE  PushesAccounted'
<1>0. /\ offered \in Nat /\ refused \in Nat /\ Len(delivered) \in Nat
      /\ pending \subseteq 0 .. offered - 1 /\ waiting \subseteq 0 .. offered - 1
      /\ delivered \in Seq(0 .. offered - 1) /\ pending \cap waiting = {}
  BY LenProperties, QueueAssumption DEF QInv, QTypeOK, OnePlace, RecordingTypes
<1>p. /\ Cardinality(pending) \in Nat
      /\ \A x : x \notin pending => Cardinality(pending \cup {x}) = Cardinality(pending) + 1
      /\ \A x \in pending : Cardinality(pending \ {x}) = Cardinality(pending) - 1
  BY <1>0, OneMoreOneLess
<1>w. /\ Cardinality(waiting) \in Nat
      /\ \A x : x \notin waiting => Cardinality(waiting \cup {x}) = Cardinality(waiting) + 1
      /\ \A x \in waiting : Cardinality(waiting \ {x}) = Cardinality(waiting) - 1
  BY <1>0, OneMoreOneLess
<1> DEFINE P == Cardinality(pending)
          W == Cardinality(waiting)
          D == Len(delivered)
<1>s. /\ P \in Nat /\ W \in Nat /\ D \in Nat /\ offered \in Nat /\ refused \in Nat
      /\ offered = P + W + D + refused
  BY <1>0, <1>p, <1>w DEF PushesAccounted
<1>1. CASE Start
  <2>1. offered' = 0 /\ pending' = {} /\ waiting' = {} /\ delivered' = <<>> /\ refused' = 0
    BY <1>1 DEF Start
  <2>2. Cardinality({}) = 0
    BY FS_EmptySet
  <2> QED BY <2>1, <2>2 DEF PushesAccounted
<1>2. CASE PushBegins
  <2>1. P' = P + 1
    <3>1. offered \notin pending /\ pending' = pending \cup {offered}
      BY <1>0, <1>2 DEF PushBegins, Offer
    <3> QED BY <1>p, <3>1
  <2>2. offered' = offered + 1 /\ W' = W /\ D' = D /\ refused' = refused
    BY <1>2 DEF PushBegins, Offer
  <2> HIDE DEF P, W, D
  <2>3. offered' = P' + W' + D' + refused'
    BY <1>s, <2>1, <2>2
  <2> QED BY <2>3 DEF PushesAccounted, P, W, D
<1>3. ASSUME NEW i \in pending, PushAccepted(i) PROVE PushesAccounted'
  <2>1. P' = P - 1
    BY <1>3, <1>p DEF PushAccepted, Accept
  <2>2. W' = W + 1
    <3>1. i \notin waiting /\ waiting' = waiting \cup {i}
      BY <1>0, <1>3 DEF PushAccepted, Accept
    <3> QED BY <1>w, <3>1
  <2>3. UNCHANGED <<offered, refused>> /\ D' = D
    BY <1>3 DEF PushAccepted, Accept
  <2> HIDE DEF P, W, D
  <2>4. offered' = P' + W' + D' + refused'
    BY <1>s, <2>1, <2>2, <2>3
  <2> QED BY <2>4 DEF PushesAccounted, P, W, D
<1>4. ASSUME NEW i \in pending, PushRefused(i) PROVE PushesAccounted'
  <2>1. P' = P - 1
    BY <1>4, <1>p DEF PushRefused, Refuse
  <2>2. offered' = offered /\ W' = W /\ D' = D /\ refused' = refused + 1
    BY <1>4 DEF PushRefused, Refuse
  <2> HIDE DEF P, W, D
  <2>3. offered' = P' + W' + D' + refused'
    BY <1>s, <2>1, <2>2
  <2> QED BY <2>3 DEF PushesAccounted, P, W, D
<1>5. ASSUME NEW i \in waiting, Take(i) PROVE PushesAccounted'
  <2>1. W' = W - 1
    BY <1>5, <1>w DEF Take, Deliver
  <2>2. D' = D + 1
    <3>1. delivered' = Append(delivered, i) /\ i \in 0 .. offered - 1
      BY <1>0, <1>5 DEF Take, Deliver
    <3> QED BY <1>0, <3>1
  <2>3. UNCHANGED <<offered, refused>> /\ P' = P
    BY <1>5 DEF Take, Deliver
  <2> HIDE DEF P, W, D
  <2>4. offered' = P' + W' + D' + refused'
    BY <1>s, <2>1, <2>2, <2>3
  <2> QED BY <2>4 DEF PushesAccounted, P, W, D
<1>6. CASE UNCHANGED <<qvars, refused>>
  BY <1>6 DEF qvars, PushesAccounted
<1>7. CASE Begin \/ RequestEnd \/ End \/ Write \/ Sync \/ Crash \/ UNCHANGED recvars
  BY <1>6, <1>7 DEF Begin, RequestEnd, End, Write, Sync, Crash, recvars
<1> QED BY <1>1, <1>2, <1>3, <1>4, <1>5, <1>7, RecordingInside DEF RecNext

\* A callback whose payload fits pushes one sample of its topic.
LEMMA CallsNext ==
  ASSUME SampleTypes, offered \in Nat, CallsAccounted, [SNext]_svars
  PROVE  CallsAccounted'
<1>1. CASE Start
  <2>1. calls' = [t \in Topics |-> 0] /\ topicOf' = <<>>
    BY <1>1 DEF Start
  <2>2. \A t : SamplesOf(t)' = {}
    BY <2>1 DEF SamplesOf
  <2>3. Cardinality({}) = 0
    BY FS_EmptySet
  <2> QED BY <2>1, <2>2, <2>3 DEF CallsAccounted
<1>2. ASSUME NEW t \in Topics, Callback(t) PROVE CallsAccounted'
  <2> SUFFICES ASSUME NEW u \in Topics, AllTopics[u].wire_size <= kMaxPayloadBytes
               PROVE  calls'[u] = Cardinality(SamplesOf(u)')
    BY DEF CallsAccounted
  <2>0. calls[u] = Cardinality(SamplesOf(u)) /\ calls \in [Topics -> Nat]
    BY DEF CallsAccounted, SampleTypes
  <2>1. calls' = [calls EXCEPT ![t] = calls[t] + 1]
    BY <1>2 DEF Callback
  <2> HIDE DEF Topics
  <2>2. CASE TooLarge(t) /\ UNCHANGED topicOf
    <3>1. ~(AllTopics[t].wire_size <= kMaxPayloadBytes)
      <4>1. AllTopics[t].wire_size \in Nat /\ kMaxPayloadBytes \in Nat
        BY TopicTypes, SessionAssumption
      <4> QED BY <2>2, <4>1 DEF TooLarge
    <3>2. t # u
      BY <3>1
    <3>3. calls'[u] = calls[u]
      BY <2>0, <2>1, <3>2
    <3>4. SamplesOf(u)' = SamplesOf(u)
      BY <2>2 DEF SamplesOf
    <3> QED BY <2>0, <3>3, <3>4
  <2>3. CASE topicOf' = Append(topicOf, t)
    <3> DEFINE L == Len(topicOf)
    <3>1. /\ L \in Nat /\ DOMAIN topicOf = 1 .. L /\ DOMAIN topicOf' = 1 .. L + 1
          /\ \A i \in 1 .. L : topicOf'[i] = topicOf[i]
          /\ topicOf'[L + 1] = t
      BY <2>3 DEF SampleTypes
    <3> HIDE DEF L
    <3>2. \A i \in 1 .. L + 1 : i \in 1 .. L \/ i = L + 1
      BY <3>1
    <3>3. \A i \in 1 .. L : i \in 1 .. L + 1 /\ i # L + 1
      BY <3>1
    <3>4. L + 1 \in 1 .. L + 1
      BY <3>1
    <3>5. CASE u # t
      <4>1. SamplesOf(u)' = SamplesOf(u)
        BY <3>1, <3>2, <3>3, <3>5 DEF SamplesOf
      <4>2. calls'[u] = calls[u]
        BY <2>0, <2>1, <3>5
      <4> QED BY <2>0, <4>1, <4>2
    <3>6. CASE u = t
      <4>1. SamplesOf(u)' = SamplesOf(u) \cup {L + 1} /\ L + 1 \notin SamplesOf(u)
        BY <3>1, <3>2, <3>3, <3>4, <3>6 DEF SamplesOf
      <4>2. IsFiniteSet(SamplesOf(u))
        <5>1. IsFiniteSet(1 .. L)
          BY <3>1, FS_Interval
        <5>2. SamplesOf(u) \subseteq 1 .. L
          BY <3>1 DEF SamplesOf
        <5> QED BY <5>1, <5>2, FS_Subset
      <4>3. Cardinality(SamplesOf(u)') = Cardinality(SamplesOf(u)) + 1
        BY <4>1, <4>2, FS_AddElement
      <4>4. calls'[u] = calls[u] + 1
        BY <2>0, <2>1, <3>6
      <4> QED BY <2>0, <4>3, <4>4
    <3> QED BY <3>5, <3>6
  <2> QED BY <1>2, <2>2, <2>3 DEF Callback
<1>3. CASE UNCHANGED sampleVars
  BY <1>3 DEF CallsAccounted, SamplesOf, sampleVars
<1>4. CASE MainStep \/ TickFails
  <2>1. UNCHANGED sampleVars
    BY <1>4 DEF MainStep, TickFails, LoadConfig, LoadFails, SkipTopic, SubscribeTopic,
       SubscribeFails, SetupDone, OpenRecording, OpenFails, LeaveLoop, CloseReturns,
       DestroySystem, DestroyWriter
  <2> QED BY <1>3, <2>1
<1>5. CASE PushEnds \/ WriterStep \/ WriterSync \/ SignalHandler \/ Kill \/ ClockTick
           \/ UNCHANGED svars
  BY <1>3, <1>5 DEF PushEnds, WriterStep, WriterSync, SignalHandler, Kill, ClockTick, svars
<1> QED BY <1>1, <1>2, <1>4, <1>5 DEF SNext

(***************************************************************************)
(* A sample whose payload fits a slot is never lost without a trace: its   *)
(* callback pushed it, and it is being pushed, waits, went to the writer   *)
(* or was counted as dropped.                                              *)
(***************************************************************************)
THEOREM CallsAccountedFor == SSpec => []EveryCallAccountedFor
<1> DEFINE Books == PushesAccounted /\ CallsAccounted
<1>1. SInit => Books
  <2> SUFFICES ASSUME SInit PROVE PushesAccounted /\ CallsAccounted
    OBVIOUS
  <2>1. /\ offered = 0 /\ pending = {} /\ waiting = {} /\ delivered = <<>> /\ refused = 0
        /\ calls = [t \in Topics |-> 0] /\ topicOf = <<>>
    BY DEF SInit, RecInit, QInit
  <2>2. Cardinality({}) = 0
    BY FS_EmptySet
  <2>3. \A t : SamplesOf(t) = {}
    BY <2>1 DEF SamplesOf
  <2>4. PushesAccounted
    BY <2>1, <2>2 DEF PushesAccounted
  <2>5. CallsAccounted
    BY <2>1, <2>2, <2>3 DEF CallsAccounted
  <2> QED BY <2>4, <2>5
<1>2. TypeInv /\ Books /\ [SNext]_svars => Books'
  <2>1. TypeInv => QInv /\ RecordingTypes /\ SampleTypes /\ offered \in Nat
    BY QueueAssumption DEF TypeInv, QInv, QTypeOK
  <2> QED BY <2>1, PushesNext, CallsNext
<1>3. TypeInv /\ Books => EveryCallAccountedFor
  BY DEF TypeInv, SampleTypes, PushesAccounted, CallsAccounted, SamplesOf,
     EveryCallAccountedFor
<1> HIDE DEF Books
<1> QED BY <1>1, <1>2, <1>3, TypeAlways, PTL DEF SSpec

-----------------------------------------------------------------------------
(***************************************************************************)
(* OnSetup.  As long as no subscribe() failed, the subscriptions are those *)
(* of the enabled topics SetupOne has looked at, and the table lists them. *)
(***************************************************************************)
SubscribedSoFar ==
  /\ pc = "load" => next = 1 /\ subs_ = {} /\ enabled_topics_ = <<>>
  /\ pc = "setup" /\ ok => subs_ = {t \in Topics : t < next /\ IsEnabled(t)}
  /\ pc \in {"open", "loop", "join"} => subs_ = {t \in Topics : IsEnabled(t)}

TableListsSubscribed ==
  pc \in {"setup", "open", "loop", "join"} =>
    {enabled_topics_[k] : k \in DOMAIN enabled_topics_} = {TopicInfo(t) : t \in subs_}

SetupInv == SubscribedSoFar /\ TableListsSubscribed

\* A session that reaches Open records the topics IsEnabled accepts.
RecordsWhatIsEnabled ==
  pc \in {"open", "loop", "join"} =>
    /\ subs_ = {t \in Topics : IsEnabled(t)}
    /\ {e.topic_id : e \in Range(enabled_topics_)} = {AllTopics[t].id : t \in subs_}

\* The fold over the topics, one turn at a time.
LEMMA SetupNext ==
  ASSUME TypeInv, WriterOutlivesCallbacks, SetupInv, [SNext]_svars
  PROVE  SetupInv'
<1>0. /\ Len(AllTopics) \in Nat /\ Topics = 1 .. Len(AllTopics)
      /\ next \in 1 .. Len(AllTopics) + 1 /\ ok \in BOOLEAN
  BY TopicTypes DEF TypeInv, MainTypes
<1> HIDE DEF Topics
<1>1. CASE Start
  BY <1>1 DEF Start, WriterOutlivesCallbacks, SetupInv, SubscribedSoFar, TableListsSubscribed
<1>2. CASE LoadConfig
  <2>1. /\ pc' = "setup" /\ subs_' = {} /\ enabled_topics_' = <<>> /\ next' = 1
    BY <1>2 DEF LoadConfig, SetupInv, SubscribedSoFar
  <2>2. \A t \in Topics : ~(t < 1)
    BY <1>0
  <2> QED BY <2>1, <2>2 DEF SetupInv, SubscribedSoFar, TableListsSubscribed
<1>3. ASSUME pc = "setup", pc' = "setup", next' = next + 1, by_name_' = by_name_
      PROVE  \A t \in Topics : /\ IsEnabled(t)' <=> IsEnabled(t)
                               /\ t < next' <=> t < next \/ t = next
  BY <1>0, <1>3 DEF IsEnabled
<1>4. CASE SkipTopic
  <2>1. /\ pc = "setup" /\ pc' = "setup" /\ next' = next + 1 /\ ~IsEnabled(next)
        /\ UNCHANGED <<by_name_, ok, subs_, enabled_topics_>>
    BY <1>4 DEF SkipTopic
  <2>2. ok' => subs_' = {t \in Topics : t < next' /\ IsEnabled(t)'}
    BY <1>3, <2>1 DEF SetupInv, SubscribedSoFar
  <2>3. SubscribedSoFar'
    BY <2>1, <2>2 DEF SubscribedSoFar
  <2> QED BY <2>1, <2>3 DEF SetupInv, TableListsSubscribed
<1>5. CASE SubscribeTopic
  <2>1. /\ pc = "setup" /\ pc' = "setup" /\ next' = next + 1 /\ IsEnabled(next)
        /\ UNCHANGED <<by_name_, ok>> /\ subs_' = subs_ \cup {next} /\ next \in Topics
        /\ enabled_topics_' = Append(enabled_topics_, TopicInfo(next))
    BY <1>5 DEF SubscribeTopic, TopicInfo
  <2>2. ok' => subs_' = {t \in Topics : t < next' /\ IsEnabled(t)'}
    BY <1>3, <2>1 DEF SetupInv, SubscribedSoFar
  <2>3. SubscribedSoFar'
    BY <2>1, <2>2 DEF SubscribedSoFar
  <2> DEFINE E == enabled_topics_
            L == Len(enabled_topics_)
            n == TopicInfo(next)
  <2>4. /\ L \in Nat /\ DOMAIN E = 1 .. L /\ DOMAIN E' = 1 .. L + 1
        /\ \A k \in 1 .. L : E'[k] = E[k]
        /\ E'[L + 1] = n
    <3>1. E \in Seq(TopicInfos) /\ n \in TopicInfos
      BY <2>1, TopicTypes DEF TypeInv, MainTypes
    <3> HIDE DEF n
    <3>2. E' = Append(E, n)
      BY <2>1 DEF n
    <3> QED BY <3>1, <3>2
  <2>5. {E'[k] : k \in DOMAIN E'} = {E[k] : k \in DOMAIN E} \cup {n}
    <3> HIDE DEF E, L, n
    <3>1. \A k \in 1 .. L + 1 : k \in 1 .. L \/ k = L + 1
      BY <2>4
    <3>2. L + 1 \in 1 .. L + 1 /\ \A k \in 1 .. L : k \in 1 .. L + 1
      BY <2>4
    <3> QED BY <2>4, <3>1, <3>2
  <2>6. {TopicInfo(t) : t \in subs_'} = {TopicInfo(t) : t \in subs_} \cup {n}
    BY <2>1
  <2>7. TableListsSubscribed'
    BY <2>1, <2>5, <2>6 DEF SetupInv, TableListsSubscribed
  <2> QED BY <2>3, <2>7 DEF SetupInv
<1>6. CASE SubscribeFails
  <2>1. pc = "setup" /\ pc' = "setup" /\ ~ok' /\ UNCHANGED <<subs_, enabled_topics_>>
    BY <1>6 DEF SubscribeFails
  <2> QED BY <2>1 DEF SetupInv, SubscribedSoFar, TableListsSubscribed
<1>7. CASE SetupDone
  <2>1. /\ pc = "setup" /\ next \notin Topics /\ pc' = IF ok THEN "open" ELSE "unwind"
        /\ UNCHANGED <<by_name_, ok, subs_, enabled_topics_>>
    BY <1>7 DEF SetupDone, setupVars
  <2>2. \A t \in Topics : t < next /\ (IsEnabled(t)' <=> IsEnabled(t))
    BY <1>0, <2>1 DEF IsEnabled
  <2>3. SubscribedSoFar'
    BY <2>1, <2>2 DEF SetupInv, SubscribedSoFar
  <2>4. TableListsSubscribed'
    BY <2>1 DEF SetupInv, TableListsSubscribed
  <2> QED BY <2>3, <2>4 DEF SetupInv
<1>8. ASSUME UNCHANGED <<by_name_, ok, next, subs_, enabled_topics_>>,
             \/ pc' = pc
             \/ {pc, pc'} \subseteq {"open", "loop", "join"}
             \/ pc' \notin {"load", "setup", "open", "loop", "join"}
      PROVE  SetupInv'
  <2>1. \A t \in Topics : IsEnabled(t)' <=> IsEnabled(t)
    BY <1>8 DEF IsEnabled
  <2>2. SubscribedSoFar'
    BY <1>8, <2>1 DEF SetupInv, SubscribedSoFar
  <2>3. TableListsSubscribed'
    BY <1>8 DEF SetupInv, TableListsSubscribed
  <2> QED BY <2>2, <2>3 DEF SetupInv
<1>9. CASE LoadFails \/ OpenRecording \/ OpenFails \/ LeaveLoop \/ TickFails \/ CloseReturns
           \/ DestroyWriter
  <2>1. /\ UNCHANGED <<by_name_, ok, next, subs_, enabled_topics_>>
        /\ \/ {pc, pc'} \subseteq {"open", "loop", "join"}
           \/ pc' \notin {"load", "setup", "open", "loop", "join"}
    BY <1>9 DEF LoadFails, OpenRecording, OpenFails, LeaveLoop, TickFails, CloseReturns,
       DestroyWriter, setupVars
  <2> QED BY <1>8, <2>1
<1>10. CASE DestroySystem \/ Kill
  BY <1>10 DEF DestroySystem, Kill, SetupInv, SubscribedSoFar, TableListsSubscribed
<1>11. CASE MainUntouched \/ UNCHANGED <<pc, setupVars, subs_>>
  BY <1>8, <1>11 DEF MainUntouched, setupVars
<1> QED BY <1>1, <1>2, <1>4, <1>5, <1>6, <1>7, <1>9, <1>10, <1>11, MainSteps DEF MainStep

(***************************************************************************)
(* A session that reaches Open is subscribed to exactly the topics that    *)
(* LoggerConfig::IsEnabled accepts, whatever the file held, and its table  *)
(* lists exactly those.                                                    *)
(***************************************************************************)
THEOREM SubscribesWhatIsEnabled == SSpec => []RecordsWhatIsEnabled
<1>1. SInit => SetupInv
  BY DEF SInit, SetupInv, SubscribedSoFar, TableListsSubscribed
<1>2. TypeInv /\ WriterOutlivesCallbacks /\ SetupInv /\ [SNext]_svars => SetupInv'
  BY SetupNext
<1>3. TypeInv /\ SetupInv => RecordsWhatIsEnabled
  <2> SUFFICES ASSUME TypeInv, SetupInv, pc \in {"open", "loop", "join"}
               PROVE  {e.topic_id : e \in Range(enabled_topics_)}
                        = {AllTopics[t].id : t \in subs_}
    BY DEF SetupInv, SubscribedSoFar, RecordsWhatIsEnabled
  <2>1. Range(enabled_topics_) = {TopicInfo(t) : t \in subs_}
    BY DEF SetupInv, TableListsSubscribed, Range
  <2>2. \A t \in subs_ : TopicInfo(t).topic_id = AllTopics[t].id
    BY TopicTypes DEF TypeInv, MainTypes
  <2> QED BY <2>1, <2>2
<1> QED BY <1>1, <1>2, <1>3, TypeAlways, NoPushWithoutWriter, PTL DEF SSpec

-----------------------------------------------------------------------------
(***************************************************************************)
(* LoggerConfig::LoadFromFile.  What its loop leaves in by_name_, by       *)
(* induction on the number of entries.                                     *)
(***************************************************************************)
Turns(map, entries) ==
  /\ map[0] = NoConfig
  /\ \A i \in 1 .. Len(entries) : map[i] = LoadEntry(map[i - 1], entries[i])

\* A non-empty set of natural numbers has a least element.
LEMMA LeastNat ==
  ASSUME NEW S \in SUBSET Nat, S # {} PROVE \E m \in S : \A k \in S : m <= k
<1>1. PICK m \in S : \A k \in S : ~(<<k, m>> \in OpToRel(<, Nat))
  BY NatLessThanWellFounded, WFMin
<1>2. \A k \in S : ~(k < m)
  BY <1>1 DEF OpToRel
<1> QED BY <1>2

\* The loop is what its equation says.
LEMMA LoopUnfolds ==
  ASSUME NEW entries, Len(entries) \in Nat
  PROVE  Turns(LoadLoop(entries), entries)
<1> DEFINE n == Len(entries)
           Rec(f, m) == /\ DOMAIN f = 0 .. m
                        /\ f = [i \in 0 .. m |-> f[i]]
                        /\ f[0] = NoConfig
                        /\ \A i \in 1 .. m : f[i] = LoadEntry(f[i - 1], entries[i])
           Exists(m) == \E f : Rec(f, m)
           S == {m \in 0 .. n : ~Exists(m)}
<1>0. n \in Nat
  OBVIOUS
<1> HIDE DEF n
<1>1. Exists(0)
  <2>1. Rec([i \in 0 .. 0 |-> NoConfig], 0)
    OBVIOUS
  <2> QED BY <2>1
<1>2. ASSUME NEW m \in 1 .. n, Exists(m - 1) PROVE Exists(m)
  <2>0. PICK f : Rec(f, m - 1)
    BY <1>2
  <2> DEFINE last == LoadEntry(f[m - 1], entries[m])
             g == [i \in 0 .. m |-> IF i = m THEN last ELSE f[i]]
  <2>1. m \in Nat \ {0}
    BY <1>0
  <2>2. last = LoadEntry(f[m - 1], entries[m])
    OBVIOUS
  <2> HIDE DEF last
  <2>3. DOMAIN g = 0 .. m /\ g = [i \in 0 .. m |-> g[i]] /\ g[0] = NoConfig
    BY <2>0, <2>1
  <2>4. ASSUME NEW i \in 1 .. m PROVE g[i] = LoadEntry(g[i - 1], entries[i])
    <3>0. i \in 0 .. m /\ i - 1 \in 0 .. m /\ i - 1 # m
      BY <2>1
    <3>1. CASE i = m
      BY <2>2, <3>0, <3>1
    <3>2. CASE i # m
      <4>1. i \in 1 .. m - 1
        BY <2>1, <3>2
      <4>2. g[i] = f[i] /\ g[i - 1] = f[i - 1]
        BY <3>0, <3>2
      <4> HIDE DEF g
      <4> QED BY <2>0, <4>1, <4>2
    <3> QED BY <3>1, <3>2
  <2> HIDE DEF g
  <2>5. Rec(g, m)
    BY <2>3, <2>4
  <2> QED BY <2>5
<1> HIDE DEF Exists
<1>3. S = {}
  <2> SUFFICES ASSUME S # {} PROVE FALSE
    OBVIOUS
  <2>1. S \in SUBSET Nat
    BY <1>0
  <2>2. PICK m \in S : \A k \in S : m <= k
    BY <2>1, LeastNat
  <2>3. m \in 1 .. n
    BY <1>0, <1>1, <2>2
  <2>4. m - 1 \in 0 .. n /\ m - 1 \notin S
    BY <1>0, <2>2, <2>3
  <2> QED BY <1>2, <2>2, <2>3, <2>4
<1>4. PICK f : Rec(f, n)
  <2>1. Exists(n)
    BY <1>0, <1>3
  <2> QED BY <2>1 DEF Exists
<1>5. f = [i \in 0 .. Len(entries) |->
             IF i = 0 THEN NoConfig ELSE LoadEntry(f[i - 1], entries[i])]
  <2>1. ASSUME NEW i \in 0 .. n
        PROVE  f[i] = IF i = 0 THEN NoConfig ELSE LoadEntry(f[i - 1], entries[i])
    <3>1. CASE i = 0
      BY <1>4, <3>1
    <3>2. CASE i # 0
      <4>1. i \in 1 .. n
        BY <1>0, <3>2
      <4> QED BY <1>4, <3>2, <4>1
    <3> QED BY <3>1, <3>2
  <2> QED BY <1>0, <1>4, <2>1 DEF n
<1> DEFINE h == CHOOSE h : h = [i \in 0 .. Len(entries) |->
                                  IF i = 0 THEN NoConfig ELSE LoadEntry(h[i - 1], entries[i])]
<1>6. h = [i \in 0 .. Len(entries) |->
             IF i = 0 THEN NoConfig ELSE LoadEntry(h[i - 1], entries[i])]
  <2> HIDE DEF Rec, S
  <2> QED BY <1>5
<1>7. LoadLoop(entries) = h
  BY DEF LoadLoop, h
<1> HIDE DEF h, Rec, S
<1>8. \A i \in 0 .. n : h[i] = IF i = 0 THEN NoConfig ELSE LoadEntry(h[i - 1], entries[i])
  BY <1>6 DEF n
<1>9. 0 \in 0 .. n /\ \A i \in 1 .. n : i \in 0 .. n /\ i # 0
  BY <1>0
<1> QED BY <1>7, <1>8, <1>9 DEF n, Turns

\* LoadFromFile skips the entries of any other.
IsName(who) == who # ""

\* After m entries by_name_ has, for each name, the last entry of that name.
LastCounts(map, entries, who, m) ==
  /\ who \in DOMAIN map <=> \E i \in 1 .. m : entries[i].name = who
  /\ \A k \in 1 .. m :
       (entries[k].name = who /\ \A i \in k + 1 .. m : entries[i].name # who)
         => map[who] = TopicConfig(entries[k])

\* One turn of the loop.
LEMMA OneTurn ==
  ASSUME NEW m \in Nat \ {0}, NEW map, NEW entries, NEW who, IsName(who),
         LastCounts(map, entries, who, m - 1)
  PROVE  LastCounts(LoadEntry(map, entries[m]), entries, who, m)
<1> DEFINE e == entries[m]
           new == LoadEntry(map, e)
<1>0. /\ m \in 1 .. m
      /\ \A i \in 1 .. m : i \in 1 .. m - 1 \/ i = m
      /\ \A i \in 1 .. m - 1 : i \in 1 .. m
  OBVIOUS
<1>1. \A k \in 1 .. m - 1 : m \in k + 1 .. m /\ \A i \in k + 1 .. m - 1 : i \in k + 1 .. m
  OBVIOUS
<1>2. CASE e.name = who
  <2>1. who \in DOMAIN new /\ new[who] = TopicConfig(e)
    BY <1>2 DEF LoadEntry, IsName
  <2> HIDE DEF new
  <2>2. \A k \in 1 .. m : (\A i \in k + 1 .. m : entries[i].name # who) => k = m
    BY <1>0, <1>1, <1>2
  <2> QED BY <1>0, <1>2, <2>1, <2>2 DEF LastCounts, new
<1>3. CASE e.name # who
  <2>1. /\ who \in DOMAIN new <=> who \in DOMAIN map
        /\ who \in DOMAIN map => new[who] = map[who]
    BY <1>3 DEF LoadEntry, IsName
  <2> HIDE DEF new
  <2>2. who \in DOMAIN new <=> \E i \in 1 .. m : entries[i].name = who
    BY <1>0, <1>3, <2>1 DEF LastCounts
  <2>3. ASSUME NEW k \in 1 .. m, entries[k].name = who,
               \A i \in k + 1 .. m : entries[i].name # who
        PROVE  new[who] = TopicConfig(entries[k])
    <3>1. k \in 1 .. m - 1
      BY <1>0, <1>3, <2>3
    <3>2. map[who] = TopicConfig(entries[k]) /\ who \in DOMAIN map
      BY <1>1, <2>3, <3>1 DEF LastCounts
    <3> QED BY <2>1, <3>2
  <2> QED BY <2>2, <2>3 DEF LastCounts, new
<1> QED BY <1>2, <1>3

\* The whole loop.
LEMMA LoadedLastCounts ==
  ASSUME NEW entries, Len(entries) \in Nat, NEW who, IsName(who)
  PROVE  LastCounts(LoadFromFile(entries), entries, who, Len(entries))
<1> DEFINE n == Len(entries)
           L == LoadLoop(entries)
           T == {m \in 0 .. n : ~LastCounts(L[m], entries, who, m)}
<1>0. n \in Nat
  OBVIOUS
<1>t. L[0] = NoConfig /\ \A i \in 1 .. n : L[i] = LoadEntry(L[i - 1], entries[i])
  BY LoopUnfolds DEF Turns
<1> HIDE DEF n, L
<1>1. T = {}
  <2> SUFFICES ASSUME T # {} PROVE FALSE
    OBVIOUS
  <2>1. PICK m \in T : \A k \in T : m <= k
    <3>1. T \in SUBSET Nat
      BY <1>0
    <3> HIDE DEF T
    <3> QED BY <3>1, LeastNat
  <2>2. LastCounts(L[0], entries, who, 0)
    BY <1>t DEF LastCounts, NoConfig
  <2>3. m \in 0 .. n /\ m # 0
    BY <2>1, <2>2
  <2>4. m \in Nat \ {0} /\ m \in 1 .. n /\ m - 1 \in 0 .. n /\ ~(m <= m - 1)
    BY <1>0, <2>3
  <2>5. m - 1 \notin T
    <3> HIDE DEF T
    <3> QED BY <2>1, <2>4
  <2>6. LastCounts(L[m - 1], entries, who, m - 1)
    BY <2>4, <2>5
  <2>7. LastCounts(L[m], entries, who, m)
    BY <1>t, <2>4, <2>6, OneTurn
  <2> QED BY <2>1, <2>7
<1>2. n \in 0 .. n
  BY <1>0
<1>3. LastCounts(L[n], entries, who, n)
  BY <1>1, <1>2
<1> QED BY <1>3 DEF n, L, LoadFromFile

\* The last of the entries of a name.
LEMMA LastEntry ==
  ASSUME NEW n \in Nat, NEW S \in SUBSET (1 .. n), S # {}
  PROVE  Max(S) \in S /\ \A y \in S : Max(S) >= y
<1> DEFINE R == {n - i : i \in S}
<1>0. \A i \in S : i \in Nat /\ n - i \in Nat
  <2>1. \A i \in 1 .. n : i \in Nat /\ n - i \in Nat
    OBVIOUS
  <2> QED BY <2>1
<1>1. R \in SUBSET Nat /\ R # {}
  BY <1>0
<1>2. PICK r \in R : \A k \in R : r <= k
  <2> HIDE DEF R
  <2> QED BY <1>1, LeastNat
<1>3. PICK x \in S : r = n - x
  OBVIOUS
<1>4. \A y \in S : n - x <= n - y
  BY <1>2, <1>3
<1>5. \A y \in S : x >= y
  BY <1>0, <1>4
<1> QED BY <1>5 DEF Max

\* IsEnabled accepts a topic just if the file it was loaded from asks for it.
LEMMA EnabledIsAsked ==
  ASSUME config \in Configs, by_name_ = LoadFromFile(config.entries), NEW t \in Topics,
         FitsUInt16(t)
  PROVE  IsEnabled(t) <=> Asked(t)
<1> DEFINE E == config.entries
           who == AllTopics[t].name
           mine == EntriesFor(t)
           last == Max(mine)
<1>1. IsName(who)
  BY SessionAssumption DEF IsName
<1>2. /\ Len(E) \in Nat /\ DOMAIN E = 1 .. Len(E)
      /\ \A i \in DOMAIN E : "enabled" \in DOMAIN E[i] => E[i].enabled \in BOOLEAN
  <2>1. E \in Seq(Range(E))
    BY SessionAssumption
  <2>2. \A i \in DOMAIN E : "enabled" \in DOMAIN E[i] => E[i].enabled \in BOOLEAN
    BY SessionAssumption
  <2> QED BY <2>1, <2>2, LenProperties
<1>0. mine = {i \in DOMAIN E : E[i].name = who}
  BY DEF EntriesFor
<1> HIDE DEF mine
<1>3. LastCounts(by_name_, E, who, Len(E))
  BY <1>1, <1>2, LoadedLastCounts
<1>4. CASE mine = {}
  <2>1. who \notin DOMAIN by_name_
    BY <1>0, <1>2, <1>3, <1>4 DEF LastCounts
  <2>2. IsEnabled(t)
    BY <2>1 DEF IsEnabled
  <2>3. Asked(t)
    BY <1>4 DEF Asked, mine
  <2> QED BY <2>2, <2>3
<1>5. CASE mine # {}
  <2>1. last \in mine /\ \A y \in mine : last >= y
    <3>1. mine \in SUBSET (1 .. Len(E))
      BY <1>0, <1>2
    <3> QED BY <1>2, <1>5, <3>1, LastEntry
  <2>2. last \in 1 .. Len(E) /\ E[last].name = who
    BY <1>0, <1>2, <2>1
  <2> HIDE DEF last
  <2>3. \A i \in last + 1 .. Len(E) : i \in 1 .. Len(E) /\ ~(last >= i)
    BY <1>2, <2>2
  <2>4. \A i \in last + 1 .. Len(E) : E[i].name # who
    BY <1>0, <1>2, <2>1, <2>3
  <2>5. who \in DOMAIN by_name_ /\ by_name_[who] = TopicConfig(E[last])
    BY <1>3, <2>2, <2>4 DEF LastCounts
  <2>6. TopicConfig(E[last]).struct_id = StructId(E[last])
    <3>1. StructId(E[last]) \in UInt16
      BY <1>5 DEF FitsUInt16, last, mine
    <3>2. ASSUME NEW x \in UInt16 PROVE x % 65536 = x
      BY DEF UInt16
    <3> QED BY <3>1, <3>2 DEF TopicConfig, StructId
  <2>7. TopicConfig(E[last]).enabled <=> ("enabled" \in DOMAIN E[last] => E[last].enabled)
    BY <1>2, <2>2 DEF TopicConfig
  <2>8. IsEnabled(t) <=> TopicConfig(E[last]).struct_id = AllTopics[t].id
                           /\ TopicConfig(E[last]).enabled
    BY <2>5 DEF IsEnabled
  <2>9. Asked(t) <=> /\ StructId(E[last]) = AllTopics[t].id
                     /\ "enabled" \in DOMAIN E[last] => E[last].enabled
    BY <1>5 DEF Asked, last, mine
  <2> QED BY <2>6, <2>7, <2>8, <2>9
<1> QED BY <1>4, <1>5

\* main goes on with the configuration it loaded.
ConfigLoaded ==
  pc \in {"setup", "open", "loop", "join"} =>
    config \in Configs /\ by_name_ = LoadFromFile(config.entries)

(***************************************************************************)
(* A session that reaches Open is subscribed to exactly the topics that    *)
(* logger_config.json asks for, the last entry of a name counting and a    *)
(* struct_id other than the build's disabling, and its table lists exactly *)
(* those; a struct_id that logger_config.hpp narrows to another one is     *)
(* left out.                                                               *)
(***************************************************************************)
THEOREM RecordsWhatConfigAsks == SSpec => []RecordsWhatIsAsked
<1>1. SInit => ConfigLoaded
  BY DEF SInit, ConfigLoaded
<1>2. ASSUME ConfigLoaded, [SNext]_svars PROVE ConfigLoaded'
  <2>1. CASE Start
    BY <2>1 DEF Start, ConfigLoaded
  <2>2. CASE LoadConfig
    <3>1. config' \in Configs /\ by_name_' = LoadFromFile(config'.entries)
      BY <2>2 DEF LoadConfig
    <3> QED BY <3>1 DEF ConfigLoaded
  <2>3. ASSUME UNCHANGED <<config, by_name_>>,
               pc' \in {"setup", "open", "loop", "join"} => pc \in {"setup", "open", "loop", "join"}
        PROVE  ConfigLoaded'
    BY <1>2, <2>3 DEF ConfigLoaded
  <2>4. CASE LoadFails \/ SkipTopic \/ SubscribeTopic \/ SubscribeFails \/ SetupDone
             \/ OpenRecording \/ OpenFails \/ LeaveLoop \/ TickFails \/ CloseReturns
             \/ DestroySystem \/ DestroyWriter
    <3>1. /\ UNCHANGED <<config, by_name_>>
          /\ pc' \in {"setup", "open", "loop", "join"} => pc \in {"setup", "open", "loop", "join"}
      BY <2>4 DEF LoadFails, SkipTopic, SubscribeTopic, SubscribeFails, SetupDone,
         OpenRecording, OpenFails, LeaveLoop, TickFails, CloseReturns, DestroySystem,
         DestroyWriter, setupVars
    <3> QED BY <2>3, <3>1
  <2>5. CASE Kill
    BY <2>5 DEF Kill, ConfigLoaded
  <2>6. CASE MainUntouched \/ UNCHANGED <<pc, setupVars, subs_>>
    BY <2>3, <2>6 DEF MainUntouched, setupVars
  <2> QED BY <1>2, <2>1, <2>2, <2>4, <2>5, <2>6, MainSteps DEF MainStep
<1>3. ConfigLoaded /\ RecordsWhatIsEnabled => RecordsWhatIsAsked
  BY EnabledIsAsked DEF ConfigLoaded, RecordsWhatIsEnabled, RecordsWhatIsAsked
<1>4. ConfigLoaded /\ [SNext]_svars => ConfigLoaded'
  BY <1>2
<1> QED BY <1>1, <1>3, <1>4, SubscribesWhatIsEnabled, PTL DEF SSpec

-----------------------------------------------------------------------------
(***************************************************************************)
(* What a step may do to the directory: to the file of one name, and which *)
(* of its records stay.                                                    *)
(***************************************************************************)
KeptRecords == IF stage' = "crashed" THEN durable ELSE written

FileGrows(n) ==
  \/ n \in DOMAIN Directory' /\ Directory'[n] = Directory[n]
  \/ /\ n = name /\ n \in DOMAIN Directory'
     /\ Keeps(Directory[n], Directory'[n], KeptRecords)
  \/ pc = "open" /\ n = MakeSessionBaseName

\* The record a sample becomes in the file.
RecordOf(top, d) ==
  LET t == AllTopics[top[d + 1]] IN [topic_id |-> t.id, payload_len |-> t.wire_size]

\* The current file, before and after a step.
LEMMA CurrentRecords ==
  /\ DOMAIN CurrentFile.records = 1 .. written /\ CurrentFile.table = table
  /\ \A i \in 1 .. written : CurrentFile.records[i] = RecordOf(topicOf, delivered[i])
  /\ DOMAIN CurrentFile'.records = 1 .. written' /\ CurrentFile'.table = table'
  /\ \A i \in 1 .. written' : CurrentFile'.records[i] = RecordOf(topicOf', delivered'[i])
  BY DEF CurrentFile, RecordOf

\* The files of a step that leaves the names as they are.
LEMMA DirectoryFrame ==
  ASSUME UNCHANGED <<files, name>>, NEW n \in DOMAIN Directory
  PROVE  /\ n \in DOMAIN Directory'
         /\ \/ Directory'[n] = Directory[n]
            \/ n = name /\ Directory[n] = CurrentFile /\ Directory'[n] = CurrentFile'
<1>1. CASE name = NoName
  <2>1. Directory' = Directory
    BY <1>1 DEF Directory
  <2> QED BY <2>1
<1>2. CASE name # NoName
  <2>1. /\ DOMAIN Directory = DOMAIN files \cup {name}
        /\ Directory[n] = IF n = name THEN CurrentFile ELSE files[n]
    BY <1>2 DEF Directory
  <2>2. /\ DOMAIN Directory' = DOMAIN files \cup {name}
        /\ \A m \in DOMAIN files \cup {name} :
             Directory'[m] = IF m = name THEN CurrentFile' ELSE files[m]
    BY <1>2 DEF Directory
  <2> QED BY <2>1, <2>2
<1> QED BY <1>1, <1>2

\* The records that a step leaves at the start of the current file.
LEMMA RecordsKept ==
  ASSUME UNCHANGED <<files, name>>, written \in Nat, written' \in Nat,
         KeptRecords \in 0 .. written, KeptRecords <= written',
         KeptRecords > 0 => table' = table,
         \A i \in 1 .. KeptRecords : /\ delivered'[i] = delivered[i]
                                     /\ topicOf'[delivered[i] + 1] = topicOf[delivered[i] + 1],
         NEW n \in DOMAIN Directory
  PROVE  FileGrows(n)
<1> DEFINE k == KeptRecords
<1>1. Keeps(CurrentFile, CurrentFile', k)
  <2> HIDE DEF k
  <2>1. ASSUME NEW i \in 1 .. k
        PROVE  i \in DOMAIN CurrentFile'.records
               /\ CurrentFile'.records[i] = CurrentFile.records[i]
    <3>1. i \in 1 .. written /\ i \in 1 .. written'
      BY DEF k
    <3>2. RecordOf(topicOf', delivered'[i]) = RecordOf(topicOf, delivered[i])
      BY DEF RecordOf, k
    <3> QED BY <3>1, <3>2, CurrentRecords
  <2>2. k > 0 => CurrentFile'.table = CurrentFile.table
    BY CurrentRecords DEF k
  <2> QED BY <2>1, <2>2 DEF Keeps
<1> HIDE DEF k
<1> QED BY <1>1, DirectoryFrame DEF FileGrows, k

\* A run opens its recording, or fails to.
LEMMA OpenKeepsOthers ==
  ASSUME Phases, OpenRecording \/ OpenFails, NEW n \in DOMAIN Directory
  PROVE  FileGrows(n)
<1>1. pc = "open" /\ name = NoName /\ Directory = files
  BY DEF OpenRecording, OpenFails, Phases, Directory
<1>2. CASE UNCHANGED <<name, files>>
  <2>1. Directory' = Directory
    BY <1>1, <1>2 DEF Directory
  <2> QED BY <2>1 DEF FileGrows
<1>3. CASE name' = MakeSessionBaseName /\ files' = Without(files, MakeSessionBaseName)
  <2>1. CASE n = MakeSessionBaseName
    BY <1>1, <2>1 DEF FileGrows
  <2>2. CASE n # MakeSessionBaseName
    <3>1. n \in DOMAIN files' /\ files'[n] = files[n] /\ n # name'
      BY <1>1, <1>3, <2>2 DEF Without
    <3>2. n \in DOMAIN Directory' /\ Directory'[n] = files'[n]
      BY <3>1 DEF Directory
    <3> QED BY <1>1, <3>1, <3>2 DEF FileGrows
  <2> QED BY <2>1, <2>2
<1> QED BY <1>2, <1>3 DEF OpenRecording, OpenFails

\* The samples the writer was given stay what they are.
LEMMA SamplesKept ==
  ASSUME TypeInv,
         UNCHANGED delivered \/ \E i \in waiting : delivered' = Append(delivered, i),
         UNCHANGED topicOf \/ \E t \in Topics : topicOf' = Append(topicOf, t),
         NEW i \in 1 .. written
  PROVE  /\ delivered'[i] = delivered[i]
         /\ topicOf'[delivered[i] + 1] = topicOf[delivered[i] + 1]
<1>1. /\ offered \in Nat /\ delivered \in Seq(0 .. offered - 1)
      /\ waiting \subseteq 0 .. offered - 1 /\ written \in 0 .. Len(delivered)
      /\ topicOf \in Seq(Topics) /\ Len(topicOf) = offered
      /\ Len(delivered) \in Nat
  BY LenProperties, QueueAssumption
     DEF TypeInv, QInv, QTypeOK, RecordingTypes, SampleTypes
<1>2. i \in 1 .. Len(delivered)
  BY <1>1
<1>3. delivered[i] \in 0 .. offered - 1
  BY <1>1, <1>2, ElementOfSeq
<1>4. delivered[i] + 1 \in 1 .. Len(topicOf)
  BY <1>1, <1>3
<1>5. delivered'[i] = delivered[i]
  <2>1. ASSUME NEW w \in waiting, delivered' = Append(delivered, w)
        PROVE  delivered'[i] = delivered[i]
    BY <1>1, <1>2, <2>1, AppendProperties
  <2> QED BY <2>1
<1> DEFINE j == delivered[i] + 1
<1>6. topicOf'[j] = topicOf[j]
  <2> HIDE DEF j, Topics
  <2>1. ASSUME NEW t \in Topics, topicOf' = Append(topicOf, t)
        PROVE  topicOf'[j] = topicOf[j]
    BY <1>1, <1>4, <2>1, AppendProperties DEF j
  <2> QED BY <2>1
<1> QED BY <1>5, <1>6

\* A kill takes what was not synced, and the table only with all records.
LEMMA KillKeeps ==
  ASSUME TypeInv, RecordingTypes', Kill, NEW n \in DOMAIN Directory
  PROVE  FileGrows(n)
<1>1. /\ UNCHANGED <<files, name, topicOf, delivered, durable>>
      /\ stage' = "crashed" /\ written' \in durable .. written
      /\ table' = table \/ written' = 0
  BY DEF Kill, Crash, qvars, sampleVars
<1>2. /\ written \in Nat /\ durable \in 0 .. written
      /\ written' \in Nat /\ KeptRecords = durable
  BY <1>1, LenProperties, QueueAssumption
     DEF TypeInv, QInv, QTypeOK, RecordingTypes, KeptRecords
<1>3. KeptRecords <= written' /\ (KeptRecords > 0 => table' = table)
  BY <1>1, <1>2
<1> QED BY <1>1, <1>2, <1>3, RecordsKept

\* What the other steps do to the file.
LEMMA FileMoves ==
  ASSUME [SNext]_svars
  PROVE  \/ Start \/ OpenRecording \/ OpenFails \/ Kill
         \/ /\ UNCHANGED <<files, name, table>>
            /\ written' \in {written, written + 1}
            /\ UNCHANGED delivered \/ \E i \in waiting : delivered' = Append(delivered, i)
            /\ UNCHANGED topicOf \/ \E t \in Topics : topicOf' = Append(topicOf, t)
<1> DEFINE Grows ==
      /\ UNCHANGED <<files, name, table>>
      /\ written' \in {written, written + 1}
      /\ UNCHANGED delivered \/ \E i \in waiting : delivered' = Append(delivered, i)
      /\ UNCHANGED topicOf \/ \E t \in Topics : topicOf' = Append(topicOf, t)
<1>1. CASE LoadConfig \/ LoadFails \/ SkipTopic \/ SubscribeTopic \/ SubscribeFails
           \/ SetupDone \/ DestroySystem \/ DestroyWriter
  BY <1>1 DEF LoadConfig, LoadFails, SkipTopic, SubscribeTopic, SubscribeFails, SetupDone,
     DestroySystem, DestroyWriter, recvars, qvars, fileVars, sampleVars, diskVars
<1>2. CASE LeaveLoop \/ TickFails \/ CloseReturns
  BY <1>2 DEF LeaveLoop, TickFails, CloseReturns, RequestEnd, End, qvars, sampleVars,
     diskVars
<1>3. ASSUME NEW t \in Topics, Callback(t) PROVE Grows
  BY <1>3 DEF Callback, PushBegins, Offer, recvars, qvars, fileVars, diskVars
<1>4. CASE PushEnds
  BY <1>4 DEF PushEnds, PushAccepted, PushRefused, Accept, Refuse, fileVars, sampleVars,
     diskVars
<1>5. CASE WriterStep
  BY <1>5 DEF WriterStep, Take, Deliver, Write, qvars, fileVars, sampleVars, diskVars
<1>6. CASE WriterSync \/ SignalHandler \/ ClockTick \/ UNCHANGED svars
  BY <1>6 DEF WriterSync, Sync, SignalHandler, ClockTick, svars, recvars, qvars, fileVars,
     sampleVars, diskVars
<1> QED BY <1>1, <1>2, <1>3, <1>4, <1>5, <1>6 DEF SNext, MainStep

(***************************************************************************)
(* A recording only grows while its run lasts, a kill takes only records   *)
(* that were not synced, and nothing but a run that opens the same name    *)
(* touches it after its own run: whatever the runs before and after do.    *)
(***************************************************************************)
THEOREM RecordingsStay == SSpec => RecordingsOnlyGrow
<1>1. ASSUME TypeInv, [SNext]_svars, NEW n \in DOMAIN Directory PROVE FileGrows(n)
  <2>0. RecordingTypes'
    BY <1>1, RecordingTypesNext DEF TypeInv
  <2>1. CASE Start
    <3>1. Directory' = Directory
      BY <2>1 DEF Start, Directory
    <3> QED BY <3>1 DEF FileGrows
  <2>2. CASE OpenRecording \/ OpenFails
    BY <1>1, <2>2, OpenKeepsOthers DEF TypeInv
  <2>3. CASE Kill
    BY <1>1, <2>0, <2>3, KillKeeps
  <2>4. CASE /\ UNCHANGED <<files, name, table>>
             /\ written' \in {written, written + 1}
             /\ UNCHANGED delivered \/ \E i \in waiting : delivered' = Append(delivered, i)
             /\ UNCHANGED topicOf \/ \E t \in Topics : topicOf' = Append(topicOf, t)
    <3>1. written \in Nat /\ durable \in 0 .. written
      BY <1>1, LenProperties, QueueAssumption DEF TypeInv, QInv, QTypeOK, RecordingTypes
    <3>2. KeptRecords \in 0 .. written /\ KeptRecords <= written' /\ written' \in Nat
      BY <2>4, <3>1 DEF KeptRecords
    <3>3. \A i \in 1 .. written : /\ delivered'[i] = delivered[i]
                                  /\ topicOf'[delivered[i] + 1] = topicOf[delivered[i] + 1]
      BY <1>1, <2>4, SamplesKept
    <3>4. \A i \in 1 .. KeptRecords : i \in 1 .. written
      BY <3>1, <3>2
    <3> QED BY <1>1, <2>4, <3>1, <3>2, <3>3, <3>4, RecordsKept
  <2> QED BY <1>1, <2>1, <2>2, <2>3, <2>4, FileMoves
<1>2. TypeInv /\ [SNext]_svars => [\A n \in DOMAIN Directory : FileGrows(n)]_svars
  BY <1>1
<1>3. SSpec => [][\A n \in DOMAIN Directory : FileGrows(n)]_svars
  BY <1>2, TypeAlways, PTL DEF SSpec
<1> QED BY <1>3 DEF RecordingsOnlyGrow, FileGrows, KeptRecords

=============================================================================
