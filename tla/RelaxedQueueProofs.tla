------------------------- MODULE RelaxedQueueProofs -------------------------
(***************************************************************************)
(* For every capacity, window and number of samples: RelaxedQueue delivers *)
(* no sample twice and reorders by less than its window.                   *)
(***************************************************************************)
EXTENDS RelaxedQueue, TLAPS

(***************************************************************************)
(* The parts of the inductive invariant.  A sample is in one place only; a *)
(* pending sample is at most a window old, so that nothing waiting or      *)
(* delivered is a window ahead of it.                                      *)
(***************************************************************************)
OnePlace ==
  /\ pending \cap waiting = {}
  /\ \A k \in DOMAIN delivered : delivered[k] \notin pending \cup waiting

PendingIsRecent == \A b \in pending : offered - b <= Window

DeliveredNotFarAhead ==
  \A k \in DOMAIN delivered : \A b \in pending \cup waiting :
    delivered[k] - b < Window

QInv ==
  /\ QTypeOK
  /\ OnePlace
  /\ PendingIsRecent
  /\ DeliveredNotFarAhead
  /\ DeliveredOnce
  /\ BoundedDisplacement

\* The invariant holds in the empty queue.
LEMMA QInitInv == QInit => QInv
  BY QueueAssumption DEF QInit, QInv, QTypeOK, OnePlace, PendingIsRecent,
     DeliveredNotFarAhead, DeliveredOnce, BoundedDisplacement

\* Every step of the queue, one per operation of the ring, preserves it.
LEMMA QNextInv == QInv /\ [QNext]_qvars => QInv'
<1> SUFFICES ASSUME QInv, [QNext]_qvars PROVE QInv'
  OBVIOUS
<1> USE QueueAssumption DEF QInv, QTypeOK
<1>1. CASE Offer
  <2>1. QTypeOK'
    BY <1>1 DEF Offer
  <2>2. OnePlace'
    BY <1>1 DEF Offer, OnePlace
  <2>3. PendingIsRecent'
    BY <1>1 DEF Offer, PendingIsRecent
  <2>4. DeliveredNotFarAhead'
    BY <1>1 DEF Offer, DeliveredNotFarAhead
  <2>5. DeliveredOnce' /\ BoundedDisplacement'
    BY <1>1 DEF Offer, DeliveredOnce, BoundedDisplacement
  <2> QED BY <2>1, <2>2, <2>3, <2>4, <2>5
<1>2. ASSUME NEW i \in pending, Accept(i) PROVE QInv'
  <2>1. QTypeOK'
    BY <1>2 DEF Accept
  <2>2. OnePlace'
    BY <1>2 DEF Accept, OnePlace
  <2>3. PendingIsRecent'
    BY <1>2 DEF Accept, PendingIsRecent
  <2>4. DeliveredNotFarAhead'
    BY <1>2 DEF Accept, DeliveredNotFarAhead
  <2>5. DeliveredOnce' /\ BoundedDisplacement'
    BY <1>2 DEF Accept, DeliveredOnce, BoundedDisplacement
  <2> QED BY <2>1, <2>2, <2>3, <2>4, <2>5
<1>3. ASSUME NEW i \in pending, Refuse(i) PROVE QInv'
  <2>1. QTypeOK'
    BY <1>3 DEF Refuse
  <2>2. OnePlace'
    BY <1>3 DEF Refuse, OnePlace
  <2>3. PendingIsRecent'
    BY <1>3 DEF Refuse, PendingIsRecent
  <2>4. DeliveredNotFarAhead'
    BY <1>3 DEF Refuse, DeliveredNotFarAhead
  <2>5. DeliveredOnce' /\ BoundedDisplacement'
    BY <1>3 DEF Refuse, DeliveredOnce, BoundedDisplacement
  <2> QED BY <2>1, <2>2, <2>3, <2>4, <2>5
<1>4. ASSUME NEW i \in waiting, Deliver(i) PROVE QInv'
  <2>0. /\ DOMAIN delivered' = DOMAIN delivered \cup {Len(delivered) + 1}
        /\ DOMAIN delivered = 1 .. Len(delivered)
        /\ \A k \in DOMAIN delivered : delivered'[k] = delivered[k]
        /\ delivered'[Len(delivered) + 1] = i
    BY <1>4 DEF Deliver
  <2>1. QTypeOK'
    BY <1>4 DEF Deliver
  <2>2. OnePlace'
    BY <1>4, <2>0 DEF Deliver, OnePlace
  <2>3. PendingIsRecent'
    BY <1>4 DEF Deliver, PendingIsRecent
  <2>4. DeliveredNotFarAhead'
    <3>1. ASSUME NEW b \in pending \cup waiting PROVE i - b < Window
      BY <1>4 DEF Deliver, PendingIsRecent
    <3> QED BY <1>4, <2>0, <3>1 DEF Deliver, DeliveredNotFarAhead
  <2>5. DeliveredOnce'
    BY <1>4, <2>0 DEF DeliveredOnce, OnePlace
  <2>6. BoundedDisplacement'
    BY <1>4, <2>0 DEF BoundedDisplacement, DeliveredNotFarAhead
  <2> QED BY <2>1, <2>2, <2>3, <2>4, <2>5, <2>6
<1>5. CASE UNCHANGED qvars
  BY <1>5 DEF qvars, OnePlace, PendingIsRecent, DeliveredNotFarAhead,
     DeliveredOnce, BoundedDisplacement
<1> QED BY <1>1, <1>2, <1>3, <1>4, <1>5 DEF QNext

(***************************************************************************)
(* Type correctness of the queue.                                          *)
(***************************************************************************)
THEOREM QueueTypeCorrect == QSpec => []QTypeOK
<1>1. QInv => QTypeOK
  BY DEF QInv
<1> QED BY <1>1, QInitInv, QNextInv, PTL DEF QSpec

(***************************************************************************)
(* No record is handed to the consumer twice.                              *)
(***************************************************************************)
THEOREM DeliversOnce == QSpec => []DeliveredOnce
<1>1. QInv => DeliveredOnce
  BY DEF QInv
<1> QED BY <1>1, QInitInv, QNextInv, PTL DEF QSpec

(***************************************************************************)
(* The order of delivery, and so the order of the records in the file,     *)
(* differs from the order of the pushes by less than the window.           *)
(***************************************************************************)
THEOREM ReordersWithinWindow == QSpec => []BoundedDisplacement
<1>1. QInv => BoundedDisplacement
  BY DEF QInv
<1> QED BY <1>1, QInitInv, QNextInv, PTL DEF QSpec

=============================================================================
