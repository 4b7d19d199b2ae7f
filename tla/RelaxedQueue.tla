---------------------------- MODULE RelaxedQueue ----------------------------
(***************************************************************************)
(* What MpscRingBuffer promises its users when no push is overtaken by a   *)
(* whole lap of other pushes: a lossy queue that is FIFO up to a window.   *)
(*                                                                         *)
(* A sample is named by the number of its push: the n-th call that gets    *)
(* past the size check is sample n.  Every sample is first offered, then   *)
(* either accepted (TryPush returned true) or refused (TryPush returned    *)
(* false and dropped_count_ was incremented); an accepted sample may be    *)
(* delivered (TryPop returned it) once, whole, and never more than         *)
(* Window - 1 samples ahead of one that is still waiting.                  *)
(***************************************************************************)
EXTENDS Integers, Sequences, FiniteSets

CONSTANTS
  Capacity,  \* how many accepted samples may wait
  Window,    \* how far a delivery may run ahead of an older waiting sample
  MaxOffers  \* bound on the number of samples

ASSUME QueueAssumption ==
  /\ Capacity \in Nat \ {0}
  /\ Window \in Nat \ {0}
  /\ MaxOffers \in Nat

VARIABLES
  offered,   \* samples offered so far: 0 .. offered - 1
  pending,   \* offered, neither accepted nor refused yet
  waiting,   \* accepted, not delivered
  delivered  \* the samples handed to the consumer, in that order

qvars == <<offered, pending, waiting, delivered>>

QInit ==
  /\ offered = 0
  /\ pending = {}
  /\ waiting = {}
  /\ delivered = <<>>

\* A mutant: pushes may be overtaken without limit.
OfferUnbounded ==
  /\ offered < MaxOffers
  /\ offered' = offered + 1
  /\ pending' = pending \cup {offered}
  /\ UNCHANGED <<waiting, delivered>>

\* A mutant: the offered sample is not counted.
OfferUncounted ==
  /\ offered < MaxOffers
  /\ \A i \in pending : offered - i < Window
  /\ pending' = pending \cup {offered}
  /\ UNCHANGED <<offered, waiting, delivered>>

(***************************************************************************)
(* A push starts; no push still undecided is a whole window older.         *)
(***************************************************************************)
Offer ==
  /\ offered < MaxOffers
  /\ \A i \in pending : offered - i < Window
  /\ offered' = offered + 1
  /\ pending' = pending \cup {offered}
  /\ UNCHANGED <<waiting, delivered>>

Accept(i) ==
  /\ i \in pending
  /\ Cardinality(waiting) < Capacity
  /\ pending' = pending \ {i}
  /\ waiting' = waiting \cup {i}
  /\ UNCHANGED <<offered, delivered>>

(***************************************************************************)
(* Samples are only refused while something is waiting: an empty queue     *)
(* accepts.                                                                *)
(***************************************************************************)
Refuse(i) ==
  /\ i \in pending
  /\ waiting # {}
  /\ pending' = pending \ {i}
  /\ UNCHANGED <<offered, waiting, delivered>>

\* A mutant: the delivered sample is not taken out of the queue.
DeliverKeeping(i) ==
  /\ i \in waiting
  /\ \A j \in waiting : i - j < Window
  /\ delivered' = Append(delivered, i)
  /\ Len(delivered) < MaxOffers
  /\ UNCHANGED <<offered, pending, waiting>>

Deliver(i) ==
  /\ i \in waiting
  /\ \A j \in waiting : i - j < Window
  /\ waiting' = waiting \ {i}
  /\ delivered' = Append(delivered, i)
  /\ UNCHANGED <<offered, pending>>

QNext ==
  \/ Offer
  \/ \E i \in pending : Accept(i)
  \/ \E i \in pending : Refuse(i)
  \/ \E i \in waiting : Deliver(i)

QSpec == QInit /\ [][QNext]_qvars

-----------------------------------------------------------------------------
QTypeOK ==
  /\ offered \in 0 .. MaxOffers
  /\ pending \in SUBSET (0 .. offered - 1)
  /\ waiting \in SUBSET (0 .. offered - 1)
  /\ delivered \in Seq(0 .. offered - 1)

(***************************************************************************)
(* A record is never handed to the writer twice (TryPop clears ready       *)
(* before it moves on).                                                    *)
(***************************************************************************)
DeliveredOnce ==
  \A i, j \in DOMAIN delivered : i # j => delivered[i] # delivered[j]

(***************************************************************************)
(* The order in which records leave the ring, and so their order in the    *)
(* file, differs from the order of the pushes by less than Window.         *)
(***************************************************************************)
BoundedDisplacement ==
  \A i, j \in DOMAIN delivered :
    i < j => delivered[i] - delivered[j] < Window

=============================================================================
