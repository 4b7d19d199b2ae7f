----------------------------- MODULE Recording ------------------------------
(***************************************************************************)
(* What RecordWriter promises the program that owns it, as long as the     *)
(* system calls it makes succeed: the samples that leave the queue are     *)
(* appended to one file, one at a time and in that order; what was synced  *)
(* survives a crash, which only ever cuts the end of the file; and a       *)
(* closed recording is durable and, if nothing was refused, holds all that *)
(* was accepted before Close.                                              *)
(*                                                                         *)
(* The file is the first `written` samples of `delivered`.  RecordWriter   *)
(* is shown to implement this module; Session is built on it.              *)
(***************************************************************************)
EXTENDS RelaxedQueue

VARIABLES
  stage,    \* "idle", "open", "closing", "closed" or "crashed"
  written,  \* how many of the delivered samples are whole in the file
  durable,  \* how many of those have been synced
  refused,  \* dropped_count_
  owed      \* what Close owes: accepted before it, no older push undecided

fileVars == <<stage, written, durable, owed>>
recvars == <<qvars, fileVars, refused>>

RecInit ==
  /\ QInit
  /\ stage = "idle"
  /\ written = 0
  /\ durable = 0
  /\ refused = 0
  /\ owed = {}

-----------------------------------------------------------------------------
(* The callers of Push; they push before Open and after Close, too.        *)

PushBegins == stage # "crashed" /\ Offer /\ UNCHANGED <<fileVars, refused>>

PushAccepted(i) ==
  stage # "crashed" /\ Accept(i) /\ UNCHANGED <<fileVars, refused>>

PushRefused(i) ==
  /\ stage # "crashed"
  /\ Refuse(i)
  /\ refused' = refused + 1
  /\ UNCHANGED fileVars

-----------------------------------------------------------------------------
(* The owner: Open and the two halves of Close.                            *)

Begin ==
  /\ stage = "idle"
  /\ stage' = "open"
  /\ UNCHANGED <<qvars, written, durable, refused, owed>>

RequestEnd ==
  /\ stage = "open"
  /\ stage' = "closing"
  /\ owed' = {i \in waiting \cup {delivered[k] : k \in DOMAIN delivered} :
                \A j \in pending : i < j}
  /\ UNCHANGED <<qvars, written, durable, refused>>

End ==
  /\ stage = "closing"
  /\ written = Len(delivered)
  /\ refused = 0 => owed \subseteq {delivered[k] : k \in DOMAIN delivered}
  /\ stage' = "closed"
  /\ durable' = written
  /\ UNCHANGED <<qvars, written, refused, owed>>

-----------------------------------------------------------------------------
(* The writer thread and the machine.                                      *)

WriterActive == stage \in {"open", "closing"}

Take(i) ==
  /\ WriterActive
  /\ written = Len(delivered)
  /\ Deliver(i)
  /\ UNCHANGED <<fileVars, refused>>

\* A mutant: a record is written although none is held.
WriteTwice ==
  /\ WriterActive
  /\ written' = written + 1
  /\ UNCHANGED <<qvars, stage, durable, refused, owed>>

Write ==
  /\ WriterActive
  /\ written < Len(delivered)
  /\ written' = written + 1
  /\ UNCHANGED <<qvars, stage, durable, refused, owed>>

Sync ==
  /\ WriterActive
  /\ durable' = written
  /\ UNCHANGED <<qvars, stage, written, refused, owed>>

Crash ==
  /\ stage # "crashed"
  /\ stage' = "crashed"
  /\ written' \in durable .. written
  /\ UNCHANGED <<qvars, durable, refused, owed>>

RecNext ==
  \/ PushBegins
  \/ \E i \in pending : PushAccepted(i) \/ PushRefused(i)
  \/ Begin \/ RequestEnd \/ End
  \/ \E i \in waiting : Take(i)
  \/ Write \/ Sync \/ Crash

RecSpec == RecInit /\ [][RecNext]_recvars

=============================================================================
