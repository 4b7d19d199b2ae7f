------------------------------ MODULE SlotRing ------------------------------
(***************************************************************************)
(* MpscRingBuffer at the grain its users see: a push is a claim of an      *)
(* index followed by one step that publishes or rejects it, a pop is one   *)
(* step.  MpscRingBuffer.tla models the same code load by load and store   *)
(* by store and is shown to implement this module; RecordWriter.tla is     *)
(* built on this one.                                                      *)
(*                                                                         *)
(* A record is named by the index its push claimed, so the content of a    *)
(* slot is a number.  The index doubles as the publication order: a topic  *)
(* is pushed by one callback at a time, so its samples claim increasing    *)
(* indices.                                                                *)
(***************************************************************************)
EXTENDS Integers, Sequences, FiniteSets

CONSTANTS
  Capacity,  \* number of slots; 4096 in RecordWriter
  Producers, \* the subscriber callbacks that may push concurrently
  MaxClaims  \* bound on the number of pushes

ASSUME RingAssumption ==
  /\ Capacity \in Nat \ {0}
  /\ Producers # {}
  /\ MaxClaims \in Nat

VARIABLES
  write_index_,   \* next index fetch_add hands out
  read_index_,    \* the consumer's position
  dropped_count_, \* pushes rejected because their slot was still ready
  slots_,         \* slots_[j]: the record published in slot j, or Empty
  claim,          \* claim[p]: the index p holds inside TryPush, or NoClaim
  popped          \* history: the records popped so far, in order

ringVars == <<write_index_, read_index_, dropped_count_, slots_, claim, popped>>

Empty == -1
NoClaim == -1

Slots == 0 .. Capacity - 1

\* idx & (Capacity - 1), Capacity being a power of two
SlotOf(i) == i % Capacity

\* The slot the consumer looks at next
HeadSlot == SlotOf(read_index_)

InFlight == {p \in Producers : claim[p] # NoClaim}

Waiting == {slots_[j] : j \in {k \in Slots : slots_[k] # Empty}}

(***************************************************************************)
(* The assumption under which the ring is sound: a push that started       *)
(* finishes before Capacity further pushes have started.  The code does    *)
(* not enforce it; MpscRingBuffer.tla shows what happens without it.       *)
(***************************************************************************)
NotLapping == \A p \in InFlight : write_index_ - claim[p] < Capacity

RingInit ==
  /\ write_index_ = 0
  /\ read_index_ = 0
  /\ dropped_count_ = 0
  /\ slots_ = [j \in Slots |-> Empty]
  /\ claim = [p \in Producers |-> NoClaim]
  /\ popped = <<>>

\* fetch_add on write_index_
Claim(p) ==
  /\ write_index_ < MaxClaims
  /\ claim[p] = NoClaim
  /\ NotLapping
  /\ claim' = [claim EXCEPT ![p] = write_index_]
  /\ write_index_' = write_index_ + 1
  /\ UNCHANGED <<read_index_, dropped_count_, slots_, popped>>

\* A mutant: the slot is overwritten whether or not it was drained.
PublishBlindly(p) ==
  /\ claim[p] # NoClaim
  /\ slots_' = [slots_ EXCEPT ![SlotOf(claim[p])] = claim[p]]
  /\ claim' = [claim EXCEPT ![p] = NoClaim]
  /\ UNCHANGED <<write_index_, read_index_, dropped_count_, popped>>

\* The slot is free: it is filled and marked ready; TryPush returns true.
Publish(p) ==
  /\ claim[p] # NoClaim
  /\ slots_[SlotOf(claim[p])] = Empty
  /\ slots_' = [slots_ EXCEPT ![SlotOf(claim[p])] = claim[p]]
  /\ claim' = [claim EXCEPT ![p] = NoClaim]
  /\ UNCHANGED <<write_index_, read_index_, dropped_count_, popped>>

\* A mutant: the rejection is not counted.
RejectSilently(p) ==
  /\ claim[p] # NoClaim
  /\ slots_[SlotOf(claim[p])] # Empty
  /\ claim' = [claim EXCEPT ![p] = NoClaim]
  /\ UNCHANGED <<write_index_, read_index_, dropped_count_, slots_, popped>>

\* The slot still holds an undrained record; TryPush returns false.
Reject(p) ==
  /\ claim[p] # NoClaim
  /\ slots_[SlotOf(claim[p])] # Empty
  /\ dropped_count_' = dropped_count_ + 1
  /\ claim' = [claim EXCEPT ![p] = NoClaim]
  /\ UNCHANGED <<write_index_, read_index_, slots_, popped>>

\* A mutant: the consumer steps over a slot that is not ready.
PopSkipping ==
  /\ read_index_ < write_index_
  /\ popped' = IF slots_[HeadSlot] = Empty THEN popped
                                       ELSE Append(popped, slots_[HeadSlot])
  /\ slots_' = [slots_ EXCEPT ![HeadSlot] = Empty]
  /\ read_index_' = read_index_ + 1
  /\ UNCHANGED <<write_index_, dropped_count_, claim>>

\* A mutant: TryPop does not test the ready flag.
PopUnchecked ==
  /\ read_index_ < write_index_
  /\ popped' = Append(popped, slots_[HeadSlot])
  /\ slots_' = [slots_ EXCEPT ![HeadSlot] = Empty]
  /\ read_index_' = read_index_ + 1
  /\ UNCHANGED <<write_index_, dropped_count_, claim>>

\* TryPop succeeds.  When the head slot is not ready it returns false and
\* changes nothing.
Pop ==
  /\ slots_[HeadSlot] # Empty
  /\ popped' = Append(popped, slots_[HeadSlot])
  /\ slots_' = [slots_ EXCEPT ![HeadSlot] = Empty]
  /\ read_index_' = read_index_ + 1
  /\ UNCHANGED <<write_index_, dropped_count_, claim>>

Push(p) == Claim(p) \/ Publish(p) \/ Reject(p)

RingNext == Pop \/ \E p \in Producers : Push(p)

RingSpec == RingInit /\ [][RingNext]_ringVars

-----------------------------------------------------------------------------
RingTypeOK ==
  /\ write_index_ \in 0 .. MaxClaims
  /\ read_index_ \in Nat
  /\ dropped_count_ \in Nat
  /\ slots_ \in [Slots -> Nat \cup {Empty}]
  /\ claim \in [Producers -> Nat \cup {NoClaim}]
  /\ popped \in Seq(Nat)

(***************************************************************************)
(* Until the first rejected push, records leave the ring exactly in the    *)
(* order in which TryPush claimed their indices, none missing.             *)
(***************************************************************************)
FifoUntilDrop ==
  dropped_count_ = 0 =>
    \A i \in DOMAIN popped : popped[i] = i - 1

(***************************************************************************)
(* Until the first rejected push, an empty head slot with no push in       *)
(* flight means the whole ring is empty: the "TryPop returned false" that  *)
(* ends the drain loops of WriterThreadMain loses nothing.                 *)
(***************************************************************************)
EmptyHeadMeansDrained ==
  (dropped_count_ = 0 /\ InFlight = {} /\ slots_[HeadSlot] = Empty) => Waiting = {}

(***************************************************************************)
(* Every push is accounted for: it is in flight, was counted as dropped,   *)
(* waits in a slot, or was popped.                                         *)
(***************************************************************************)
EveryPushAccountedFor ==
  write_index_ = Cardinality(InFlight) + dropped_count_
                   + Cardinality(Waiting) + Len(popped)

(***************************************************************************)
(* The promise of RelaxedQueue, with a window of two laps: one lap because *)
(* the consumer may stand before a slot whose push was rejected, one       *)
(* because a claimed index may be published up to a lap late.              *)
(***************************************************************************)
Queue == INSTANCE RelaxedQueue WITH
  Window <- 2 * Capacity,
  MaxOffers <- MaxClaims,
  offered <- write_index_,
  pending <- {claim[p] : p \in InFlight},
  waiting <- Waiting,
  delivered <- popped

ImplementsRelaxedQueue == Queue!QSpec

=============================================================================
