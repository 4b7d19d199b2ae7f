------------------------------- MODULE Session ------------------------------
(***************************************************************************)
(* i2wRecorder as a process that is started, killed and started again:     *)
(* main (i2wRecorder.cpp) with LoggerConfig (logger_config.hpp) and        *)
(* GenericRecorderSystem (generic_recorder.hpp), its RecordWriter as the   *)
(* Recording it implements, and the directory of recordings it leaves.     *)
(*                                                                         *)
(* A topic is an index into AllTopics.  The i2w runtime is external: it    *)
(* runs the callback of a subscription at any time, one call per           *)
(* subscription at a time, and destroying a subscription waits for its     *)
(* call to return.                                                         *)
(***************************************************************************)
EXTENDS Recording, SequencesExt

CONSTANTS
  AllTopics,        \* the TopicTraits of this build: <<[name, id, wire_size], ...>>
  kMaxPayloadBytes, \* size of a slot's payload
  Configs,          \* contents of logger_config.json: [kind, entries]
  LocalTime,        \* LocalTime[s]: the session name printed in second s
  MaxCalls          \* bound: MaxCalls[r] callbacks in run r, and no run after its end

Topics == DOMAIN AllTopics
Seconds == DOMAIN LocalTime

\* std::uint16_t
UInt16 == {n \in Nat : n < 65536}

ASSUME SessionAssumption ==
  /\ AllTopics \in Seq([name : STRING, id : UInt16, wire_size : Nat])
  /\ kMaxPayloadBytes \in Nat
  /\ Configs # {}
  /\ \A c \in Configs : /\ c.entries \in Seq(Range(c.entries))
                        /\ \A i \in DOMAIN c.entries :
                             "enabled" \in DOMAIN c.entries[i] => c.entries[i].enabled \in BOOLEAN
  /\ \A t \in Topics : AllTopics[t].name # ""
  /\ \A s, t \in Topics : s # t => /\ AllTopics[s].id # AllTopics[t].id
                                   /\ AllTopics[s].name # AllTopics[t].name
  /\ 0 \in Seconds
  /\ MaxCalls \in Seq(0 .. MaxOffers)

VARIABLES
  clock,           \* the second it is
  files,           \* recordings of earlier runs: [session name -> file]
  run,             \* number of the current or last run of the recorder
  pc,              \* "off", "load", "setup", "open", "loop", "join", "unwind", "release"
  config,          \* what logger_config.json held
  by_name_,        \* LoggerConfig::by_name_
  next,            \* the topic SetupOne looks at
  ok,              \* OnSetup's flag
  subs_,           \* topics with a live subscription
  enabled_topics_,
  g_running,
  name,            \* the open session's name, or NoName
  table,           \* the topic table in the file
  topicOf,         \* history: topicOf[n + 1] is the topic of sample n
  calls,           \* history: calls[t]: callbacks run for topic t
  opened           \* history: runs that opened their recording

setupVars == <<config, by_name_, next, ok, enabled_topics_>>
sampleVars == <<topicOf, calls>>
diskVars == <<files, name, table, opened>>
svars == <<recvars, clock, run, pc, setupVars, subs_, g_running, sampleVars, diskVars>>

NoName == "none"
NoConfig == [n \in {} |-> 0]
NoFiles == [n \in {} |-> 0]

SInit ==
  /\ RecInit
  /\ clock = 0
  /\ files = NoFiles
  /\ run = 0
  /\ pc = "off"
  /\ config = CHOOSE c \in Configs : TRUE
  /\ by_name_ = NoConfig
  /\ next = 1
  /\ ok = TRUE
  /\ subs_ = {}
  /\ enabled_topics_ = <<>>
  /\ g_running = TRUE
  /\ name = NoName
  /\ table = <<>>
  /\ topicOf = <<>>
  /\ calls = [t \in Topics |-> 0]
  /\ opened = {}

-----------------------------------------------------------------------------
(* The directory of recordings.                                            *)

\* What the current run's file holds
CurrentFile ==
  [run |-> run, table |-> table,
   records |-> [k \in 1 .. written |->
                  LET t == AllTopics[topicOf[delivered[k] + 1]]
                  IN  [topic_id |-> t.id, payload_len |-> t.wire_size]]]

Without(dir, n) == [m \in DOMAIN dir \ {n} |-> dir[m]]

Directory ==
  IF name = NoName THEN files
  ELSE [m \in DOMAIN files \cup {name} |-> IF m = name THEN CurrentFile ELSE files[m]]

\* The name printed from the clock, to the second
MakeSessionBaseName == LocalTime[clock]

-----------------------------------------------------------------------------
(* LoggerConfig *)

\* entry.value(): the defaults of missing fields, uint16_t for the struct_id
TopicConfig(e) ==
  [struct_id |-> IF "struct_id" \in DOMAIN e THEN e.struct_id % 65536 ELSE 0,
   enabled |-> IF "enabled" \in DOMAIN e THEN e.enabled ELSE TRUE]

\* A mutant: the first entry of a name wins (insert instead of assignment).
LoadEntryOnce(map, e) ==
  IF e.name = "" \/ e.name \in DOMAIN map THEN map
  ELSE [n \in DOMAIN map \cup {e.name} |-> IF n = e.name THEN TopicConfig(e) ELSE map[n]]

\* One turn of LoadFromFile's loop: entries without a name are skipped, a
\* later entry replaces an earlier one of its name
LoadEntry(map, e) ==
  IF e.name = "" THEN map
  ELSE [n \in DOMAIN map \cup {e.name} |-> IF n = e.name THEN TopicConfig(e) ELSE map[n]]

\* by_name_ after each turn of the loop
LoadLoop(entries) ==
  LET after[i \in 0 .. Len(entries)] ==
        IF i = 0 THEN NoConfig ELSE LoadEntry(after[i - 1], entries[i])
  IN  after

LoadFromFile(entries) == LoadLoop(entries)[Len(entries)]

IsEnabled(t) ==
  LET n == AllTopics[t].name
  IN  n \in DOMAIN by_name_ =>
        by_name_[n].struct_id = AllTopics[t].id /\ by_name_[n].enabled

-----------------------------------------------------------------------------
(* main *)

\* The program is started; the file of the run before is left as it is.
Start ==
  /\ pc = "off"
  /\ run < Len(MaxCalls)
  /\ run' = run + 1
  /\ pc' = "load"
  /\ files' = Directory
  /\ name' = NoName
  /\ table' = <<>>
  /\ g_running' = TRUE
  /\ by_name_' = NoConfig
  /\ next' = 1
  /\ ok' = TRUE
  /\ enabled_topics_' = <<>>
  /\ topicOf' = <<>>
  /\ calls' = [t \in Topics |-> 0]
  /\ offered' = 0 /\ pending' = {} /\ waiting' = {} /\ delivered' = <<>>
  /\ stage' = "idle" /\ written' = 0 /\ durable' = 0 /\ owed' = {} /\ refused' = 0
  /\ UNCHANGED <<clock, config, subs_, opened>>

\* LoadFromFile returns true; the writer and the system are constructed.
LoadConfig ==
  /\ pc = "load"
  /\ config' \in {c \in Configs : c.kind = "topics"}
  /\ by_name_' = LoadFromFile(config'.entries)
  /\ pc' = "setup"
  /\ UNCHANGED <<recvars, clock, run, next, ok, subs_, enabled_topics_, g_running,
                 sampleVars, diskVars>>

\* The file is missing, is no JSON or has no array of topics, and main
\* returns 1; or a field has another type and the exception ends the program.
LoadFails ==
  /\ pc = "load"
  /\ \E c \in Configs : c.kind # "topics"
  /\ pc' = "off"
  /\ UNCHANGED <<recvars, clock, run, setupVars, subs_, g_running, sampleVars, diskVars>>

SkipTopic ==
  /\ pc = "setup"
  /\ next \in Topics
  /\ ~IsEnabled(next)
  /\ next' = next + 1
  /\ UNCHANGED <<recvars, clock, run, pc, config, by_name_, ok, subs_,
                 enabled_topics_, g_running, sampleVars, diskVars>>

\* A mutant: the topic is subscribed but not entered into the table.
SubscribeUnlisted ==
  /\ pc = "setup"
  /\ next \in Topics
  /\ IsEnabled(next)
  /\ subs_' = subs_ \cup {next}
  /\ next' = next + 1
  /\ UNCHANGED <<recvars, clock, run, pc, config, by_name_, ok, enabled_topics_,
                 g_running, sampleVars, diskVars>>

SubscribeTopic ==
  /\ pc = "setup"
  /\ next \in Topics
  /\ IsEnabled(next)
  /\ subs_' = subs_ \cup {next}
  /\ enabled_topics_' = Append(enabled_topics_,
                               [topic_id |-> AllTopics[next].id,
                                wire_size |-> AllTopics[next].wire_size])
  /\ next' = next + 1
  /\ UNCHANGED <<recvars, clock, run, pc, config, by_name_, ok, g_running,
                 sampleVars, diskVars>>

\* subscribe() fails; the remaining topics are set up all the same.
SubscribeFails ==
  /\ pc = "setup"
  /\ next \in Topics
  /\ IsEnabled(next)
  /\ ok' = FALSE
  /\ next' = next + 1
  /\ UNCHANGED <<recvars, clock, run, pc, config, by_name_, subs_,
                 enabled_topics_, g_running, sampleVars, diskVars>>

SetupDone ==
  /\ pc = "setup"
  /\ next \notin Topics
  /\ pc' = IF ok THEN "open" ELSE "unwind"
  /\ UNCHANGED <<recvars, clock, run, setupVars, subs_, g_running, sampleVars, diskVars>>

\* A mutant: the recordings of earlier runs are removed.
OpenRecordingAlone ==
  /\ pc = "open"
  /\ Begin
  /\ name' = MakeSessionBaseName
  /\ files' = NoFiles
  /\ table' = enabled_topics_
  /\ opened' = opened \cup {run}
  /\ pc' = "loop"
  /\ UNCHANGED <<clock, run, setupVars, subs_, g_running, sampleVars>>

\* RecordWriter::Open under the name of the second, truncating what is there
OpenRecording ==
  /\ pc = "open"
  /\ Begin
  /\ name' = MakeSessionBaseName
  /\ files' = Without(files, MakeSessionBaseName)
  /\ table' = enabled_topics_
  /\ opened' = opened \cup {run}
  /\ pc' = "loop"
  /\ UNCHANGED <<clock, run, setupVars, subs_, g_running, sampleVars>>

\* open() fails, or it succeeds and the header or the table is not written
OpenFails ==
  /\ pc = "open"
  /\ \/ UNCHANGED <<name, files>>
     \/ /\ name' = MakeSessionBaseName
        /\ files' = Without(files, MakeSessionBaseName)
  /\ pc' = "unwind"
  /\ UNCHANGED <<recvars, clock, run, setupVars, subs_, g_running, sampleVars,
                 table, opened>>

\* A mutant: the loop's condition is inverted.
LeaveLoopInverted ==
  /\ pc = "loop"
  /\ g_running
  /\ RequestEnd
  /\ pc' = "join"
  /\ UNCHANGED <<clock, run, setupVars, subs_, g_running, sampleVars, diskVars>>

\* g_running is found false, and Close is called.
LeaveLoop ==
  /\ pc = "loop"
  /\ ~g_running
  /\ RequestEnd
  /\ pc' = "join"
  /\ UNCHANGED <<clock, run, setupVars, subs_, g_running, sampleVars, diskVars>>

TickFails ==
  /\ pc = "loop"
  /\ RequestEnd
  /\ pc' = "join"
  /\ UNCHANGED <<clock, run, setupVars, subs_, g_running, sampleVars, diskVars>>

CloseReturns ==
  /\ pc = "join"
  /\ End
  /\ pc' = "unwind"
  /\ UNCHANGED <<clock, run, setupVars, subs_, g_running, sampleVars, diskVars>>

\* A mutant: the system does not own its subscriptions.
DestroySystemOnly ==
  /\ pc = "unwind"
  /\ pending = {}
  /\ pc' = "release"
  /\ UNCHANGED <<recvars, clock, run, setupVars, subs_, g_running, sampleVars, diskVars>>

\* main returns: the locals are destroyed in reverse, the system first
DestroySystem ==
  /\ pc = "unwind"
  /\ pending = {}
  /\ subs_' = {}
  /\ pc' = "release"
  /\ UNCHANGED <<recvars, clock, run, setupVars, g_running, sampleVars, diskVars>>

DestroyWriter ==
  /\ pc = "release"
  /\ pc' = "off"
  /\ UNCHANGED <<recvars, clock, run, setupVars, subs_, g_running, sampleVars, diskVars>>

MainStep ==
  \/ LoadConfig \/ LoadFails
  \/ SkipTopic \/ SubscribeTopic \/ SubscribeFails \/ SetupDone
  \/ OpenRecording \/ OpenFails
  \/ LeaveLoop \/ CloseReturns \/ DestroySystem \/ DestroyWriter

-----------------------------------------------------------------------------
(* Subscriber callbacks, the writer thread, signals and time.              *)

\* A mutant: a payload that fills the slot is refused.
TooLargeOrFull(t) == AllTopics[t].wire_size >= kMaxPayloadBytes

TooLarge(t) == AllTopics[t].wire_size > kMaxPayloadBytes

CallsLeft == FoldFunction(+, 0, calls) < MaxCalls[run]

\* The callback encodes the sample and calls Push, whose result it ignores.
Callback(t) ==
  /\ t \in subs_
  /\ \A i \in pending : topicOf[i + 1] # t
  /\ CallsLeft
  /\ calls' = [calls EXCEPT ![t] = @ + 1]
  /\ \/ TooLarge(t) /\ UNCHANGED <<recvars, topicOf>>
     \/ ~TooLarge(t) /\ PushBegins /\ topicOf' = Append(topicOf, t)
  /\ UNCHANGED <<clock, run, pc, setupVars, subs_, g_running, diskVars>>

PushEnds ==
  /\ \E i \in pending : PushAccepted(i) \/ PushRefused(i)
  /\ UNCHANGED <<clock, run, pc, setupVars, subs_, g_running, sampleVars, diskVars>>

WriterStep ==
  /\ \/ \E i \in waiting : Take(i)
     \/ Write
  /\ UNCHANGED <<clock, run, pc, setupVars, subs_, g_running, sampleVars, diskVars>>

WriterSync ==
  /\ Sync
  /\ UNCHANGED <<clock, run, pc, setupVars, subs_, g_running, sampleVars, diskVars>>

SignalHandler ==
  /\ pc # "off"
  /\ g_running' = FALSE
  /\ UNCHANGED <<recvars, clock, run, pc, setupVars, subs_, sampleVars, diskVars>>

\* Another signal, or a power loss.  As long as nothing was synced it can
\* take the table with the records; the reader refuses a cut table.
Kill ==
  /\ pc # "off"
  /\ Crash
  /\ subs_' = {}
  /\ pc' = "off"
  /\ \/ UNCHANGED table
     \/ WriterActive /\ written' = 0 /\ table' = <<>>
  /\ UNCHANGED <<clock, run, setupVars, g_running, sampleVars, files, name, opened>>

ClockTick ==
  /\ clock + 1 \in Seconds
  /\ clock' = clock + 1
  /\ UNCHANGED <<recvars, run, pc, setupVars, subs_, g_running, sampleVars, diskVars>>

SNext ==
  \/ Start \/ MainStep \/ TickFails
  \/ \E t \in Topics : Callback(t)
  \/ PushEnds \/ WriterStep \/ WriterSync
  \/ SignalHandler \/ Kill \/ ClockTick

SSpec == SInit /\ [][SNext]_svars

\* The operating system schedules the main and the writer thread, and a
\* callback that has begun returns: TryPush is wait-free.
SFairSpec ==
  /\ SSpec
  /\ WF_svars(MainStep)
  /\ WF_svars(PushEnds)
  /\ WF_svars(WriterStep)

-----------------------------------------------------------------------------
STypeOK ==
  /\ stage \in {"idle", "open", "closing", "closed", "crashed"}
  /\ written \in 0 .. Len(delivered)
  /\ durable \in 0 .. written
  /\ refused \in Nat
  /\ owed \subseteq 0 .. offered - 1
  /\ clock \in Seconds
  /\ DOMAIN files \subseteq {LocalTime[s] : s \in Seconds}
  /\ run \in 0 .. Len(MaxCalls)
  /\ pc \in {"off", "load", "setup", "open", "loop", "join", "unwind", "release"}
  /\ config \in Configs
  /\ next \in 1 .. Len(AllTopics) + 1
  /\ ok \in BOOLEAN /\ g_running \in BOOLEAN
  /\ subs_ \subseteq Topics
  /\ Len(enabled_topics_) < next
  /\ topicOf \in [1 .. offered -> Topics]
  /\ calls \in [Topics -> Nat]
  /\ opened \subseteq 1 .. run

(***************************************************************************)
(* No record in the directory, of this run or an earlier one, of a run     *)
(* that ended or was killed, stops its reader: the topic of each record is *)
(* in the file's table, once, with the size of that record.  A file that   *)
(* Kill cut inside its header or table, which the reader refuses, stands   *)
(* here as one without topics and so must hold no record at all.           *)
(* Records are pushed before the table exists, by topics that may still    *)
(* turn out not to be part of a session.                                   *)
(***************************************************************************)
FilesReplayable ==
  \A n \in DOMAIN Directory :
    LET f == Directory[n]
    IN  /\ \A r \in Range(f.records) :
             \E k \in DOMAIN f.table :
               /\ f.table[k].topic_id = r.topic_id
               /\ f.table[k].wire_size = r.payload_len
        /\ \A j, k \in DOMAIN f.table :
             j # k => f.table[j].topic_id # f.table[k].topic_id

\* What logger_config.json says of a topic: the last entry of its name
\* counts, and asks for it only with the very struct_id of the build (0 if
\* left out) and unless it says disabled.
EntriesFor(t) == {i \in DOMAIN config.entries : config.entries[i].name = AllTopics[t].name}

StructId(e) == IF "struct_id" \in DOMAIN e THEN e.struct_id ELSE 0

Asked(t) ==
  LET e == config.entries[Max(EntriesFor(t))]
  IN  EntriesFor(t) # {} => /\ StructId(e) = AllTopics[t].id
                            /\ "enabled" \in DOMAIN e => e.enabled

\* The struct_id that counts for a topic survives the conversion to uint16_t.
FitsUInt16(t) ==
  EntriesFor(t) # {} => StructId(config.entries[Max(EntriesFor(t))]) \in UInt16

(***************************************************************************)
(* A session that reaches Open is subscribed to exactly the topics the     *)
(* configuration asks for, and its table will list exactly the topics it   *)
(* is subscribed to.  A struct_id that does not fit uint16_t is left out:  *)
(* LoadFromFile narrows it before IsEnabled compares it, so that 65541 is  *)
(* taken for 5 and records a topic that the file does not ask for.         *)
(***************************************************************************)
RecordsWhatIsAsked ==
  pc \in {"open", "loop", "join"} =>
    /\ \A t \in Topics : FitsUInt16(t) => (t \in subs_ <=> Asked(t))
    /\ {e.topic_id : e \in Range(enabled_topics_)} = {AllTopics[t].id : t \in subs_}

\* The first k records of a file and, if there are any, its table
Keeps(old, new, k) ==
  /\ \A i \in 1 .. k : i \in DOMAIN new.records /\ new.records[i] = old.records[i]
  /\ k > 0 => new.table = old.table

(***************************************************************************)
(* A recording only grows while its run lasts, a crash takes only records  *)
(* that were not synced, and afterwards nothing changes it but a later run *)
(* that opens the very same name.                                          *)
(***************************************************************************)
RecordingsOnlyGrow ==
  [][\A n \in DOMAIN Directory :
       \/ n \in DOMAIN Directory' /\ Directory'[n] = Directory[n]
       \/ /\ n = name /\ n \in DOMAIN Directory'
          /\ Keeps(Directory[n], Directory'[n],
                   IF stage' = "crashed" THEN durable ELSE written)
       \/ pc = "open" /\ n = MakeSessionBaseName]_svars

(***************************************************************************)
(* No callback can run without a writer to push to, on any way out of      *)
(* main: after a failed setup, a failed Open or a Close.                   *)
(***************************************************************************)
WriterOutlivesCallbacks ==
  (subs_ # {} \/ (pending # {} /\ stage # "crashed"))
    => pc \notin {"off", "load", "release"}

(***************************************************************************)
(* A sample whose payload fits a slot, if only just, is never lost without *)
(* a trace: it is being pushed, waits, went to the writer or was counted.  *)
(***************************************************************************)
EveryCallAccountedFor ==
  /\ \A t \in Topics : AllTopics[t].wire_size <= kMaxPayloadBytes =>
       calls[t] = Cardinality({i \in DOMAIN topicOf : topicOf[i] = t})
  /\ Len(topicOf) = Cardinality(pending) + Cardinality(waiting)
                      + Len(delivered) + refused

(***************************************************************************)
(* SIGINT ends the recorder, in whatever state of setup, recording or      *)
(* closing it arrives.                                                     *)
(***************************************************************************)
SigintEnds == ~g_running ~> pc = "off"

(***************************************************************************)
(* "Each new run creates a fresh, independently-timestamped .bin file": a  *)
(* recording, once opened, stays in the directory.                         *)
(***************************************************************************)
SessionsKept ==
  \A r \in opened : \E n \in DOMAIN Directory : Directory[n].run = r

=============================================================================
