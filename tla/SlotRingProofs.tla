--------------------------- MODULE SlotRingProofs ---------------------------
(***************************************************************************)
(* For every capacity, every set of producers and any number of pushes:    *)
(* until the first rejected push the ring is a queue, and the "empty" that *)
(* TryPop reports to the writer thread's drain loops is the truth; with    *)
(* rejected pushes it still is a queue that reorders within two laps.      *)
(***************************************************************************)
EXTENDS SlotRing, FiniteSetTheorems, TLAPS

(***************************************************************************)
(* What always holds: pushes under way have distinct indices at most a lap *)
(* old; a slot holds a record that was pushed into it and is no longer     *)
(* under way.                                                              *)
(***************************************************************************)
ClaimsDistinct ==
  /\ \A p \in InFlight : /\ claim[p] \in 0 .. write_index_ - 1
                         /\ write_index_ - claim[p] <= Capacity
  /\ \A p, q \in InFlight : p # q => claim[p] # claim[q]

SlotsHoldTheirOwn ==
  \A j \in Slots : slots_[j] # Empty =>
    /\ slots_[j] \in 0 .. write_index_ - 1
    /\ SlotOf(slots_[j]) = j
    /\ \A p \in InFlight : claim[p] # slots_[j]

(***************************************************************************)
(* What holds until the first drop: the indices from read_index_ to        *)
(* write_index_ are exactly the pushes under way and the records waiting,  *)
(* and those waiting lie in one lap from the head.                         *)
(***************************************************************************)
HeadFollowsPops ==
  /\ read_index_ <= write_index_
  /\ read_index_ = Len(popped)
  /\ \A i \in DOMAIN popped : popped[i] = i - 1

AheadOfHead ==
  /\ \A p \in InFlight : claim[p] >= read_index_
  /\ \A j \in Slots : slots_[j] # Empty =>
       slots_[j] >= read_index_ /\ slots_[j] < read_index_ + Capacity

NoHoles ==
  \A i \in read_index_ .. write_index_ - 1 :
    \/ \E p \in InFlight : claim[p] = i
    \/ slots_[SlotOf(i)] = i

RInv ==
  /\ RingTypeOK
  /\ ClaimsDistinct
  /\ SlotsHoldTheirOwn
  /\ dropped_count_ = 0 => HeadFollowsPops /\ AheadOfHead /\ NoHoles

-----------------------------------------------------------------------------
(* Arithmetic of slot indices, idx & (Capacity - 1) in the code, for any   *)
(* capacity.                                                               *)

\* What moves from one place to the next leaves the sum as it is.
LEMMA OneMoved ==
  ASSUME NEW a \in Nat, NEW b \in Nat, NEW c \in Nat, NEW d \in Nat
  PROVE  a + b + c + d = a + b + (c - 1) + (d + 1)
  OBVIOUS

\* The slot is what is left of an index after whole laps.
LEMMA DivMod ==
  ASSUME NEW C \in Nat \ {0}, NEW a \in Nat
  PROVE  \E n \in Nat : a = C * n + (a % C)
<1>1. a \div C \in Nat /\ a = C * (a \div C) + (a % C)
  OBVIOUS
<1> QED BY <1>1

\* Two indices less than a lap apart have different slots.
LEMMA ModDistinct ==
  ASSUME NEW C \in Nat \ {0}, NEW a \in Nat, NEW b \in Nat, a < b, b - a < C
  PROVE  a % C # b % C
<1>1. PICK m \in Nat : a = C * m + (a % C)
  BY DivMod
<1>2. PICK n \in Nat : b = C * n + (b % C)
  BY DivMod
<1>3. a % C \in Nat /\ b % C \in Nat
  OBVIOUS
<1> SUFFICES ASSUME a % C = b % C PROVE FALSE
  OBVIOUS
<1>4. b - a = C * n - C * m
  BY <1>1, <1>2, <1>3
<1>5. b - a = C * (n - m)
  BY <1>4
<1>6. CASE n > m
  <2>1. C * (n - m) >= C
     BY <1>6
  <2> QED BY <2>1, <1>5
<1>7. CASE n <= m
  <2>1. C * (n - m) <= 0
     BY <1>7
  <2> QED BY <2>1, <1>5
<1> QED BY <1>6, <1>7

\* The remainder is determined by the number.
LEMMA RemainderUnique ==
  ASSUME NEW C \in Nat \ {0}, NEW m \in Int, NEW n \in Int,
         NEW r \in 0 .. C - 1, NEW s \in 0 .. C - 1,
         C * m + r = C * n + s
  PROVE  r = s
<1>1. r - s = C * (n - m)
  OBVIOUS
<1>2. CASE n > m
  <2>1. C * (n - m) >= C
    BY <1>2
  <2> QED BY <2>1, <1>1
<1>3. CASE n < m
  <2>1. C * (n - m) <= -C
    BY <1>3
  <2> QED BY <2>1, <1>1
<1>4. CASE n = m
  BY <1>1, <1>4
<1> QED BY <1>2, <1>3, <1>4

\* An index and the one a lap later have the same slot.
LEMMA ModLap ==
  ASSUME NEW C \in Nat \ {0}, NEW a \in Nat
  PROVE  (a + C) % C = a % C
<1> DEFINE b == a + C
<1>1. b \in Nat
  OBVIOUS
<1> HIDE DEF b
<1>2. PICK m \in Nat : a = C * m + (a % C)
  BY DivMod
<1>3. PICK n \in Nat : b = C * n + (b % C)
  BY <1>1, DivMod
<1>4. a % C \in 0 .. C - 1 /\ b % C \in 0 .. C - 1
  BY <1>1
<1>5. C * (m + 1) + (a % C) = C * n + (b % C)
  <2>1. C * (m + 1) = C * m + C
    OBVIOUS
  <2>2. b = C + (C * m + (a % C))
    BY <1>2 DEF b
  <2> QED BY <2>1, <2>2, <1>3, <1>4
<1>6. a % C = b % C
  <2> DEFINE k == m + 1
            r == a % C
            s == b % C
  <2>1. /\ k \in Int /\ n \in Int
        /\ r \in 0 .. C - 1 /\ s \in 0 .. C - 1
        /\ C * k + r = C * n + s
    BY <1>4, <1>5
  <2> HIDE DEF k, r, s
  <2>2. r = s
    BY <2>1, RemainderUnique
  <2> QED BY <2>2 DEF r, s
<1> QED BY <1>6 DEF b

\* A lap, wherever it starts, visits every slot.
LEMMA LapCovers ==
  ASSUME NEW C \in Nat \ {0}, NEW h \in Nat, NEW j \in 0 .. C - 1
  PROVE  \E m \in h .. h + C - 1 : m % C = j
<1>1. PICK q \in Nat : h = C * q + (h % C)
  BY DivMod
<1>2. h % C \in 0 .. C - 1
  OBVIOUS
<1>3. ASSUME NEW k \in Nat, NEW m \in h .. h + C - 1, m = C * k + j
      PROVE  m % C = j
  <2>1. m \in Nat /\ m % C \in 0 .. C - 1
    OBVIOUS
  <2>2. PICK n \in Nat : m = C * n + (m % C)
    BY <2>1, DivMod
  <2> DEFINE r == m % C
  <2>3. r \in 0 .. C - 1 /\ C * n + r = C * k + j /\ n \in Int /\ k \in Int
    BY <1>3, <2>1, <2>2
  <2> HIDE DEF r
  <2>4. r = j
    BY <2>3, RemainderUnique
  <2> QED BY <2>4 DEF r
<1>4. CASE j >= h % C
  <2> DEFINE m == C * q + j
  <2>1. m \in h .. h + C - 1
    BY <1>1, <1>2, <1>4
  <2> QED BY <1>3, <2>1
<1>5. CASE j < h % C
  <2> DEFINE m == C * (q + 1) + j
  <2>0. C * (q + 1) = C * q + C
    OBVIOUS
  <2>1. m \in h .. h + C - 1 /\ q + 1 \in Nat
    BY <1>1, <1>2, <1>5, <2>0
  <2> QED BY <1>3, <2>1
<1> QED BY <1>2, <1>4, <1>5

-----------------------------------------------------------------------------
\* Slots are addressed inside the buffer.
LEMMA SlotOfInSlots == ASSUME NEW i \in Nat PROVE SlotOf(i) \in Slots
  BY RingAssumption DEF SlotOf, Slots

\* Two indices of one lap that share a slot are equal.
LEMMA SameSlotSameIndex ==
  ASSUME NEW a \in Nat, NEW b \in Nat, a <= b, b - a < Capacity,
         SlotOf(a) = SlotOf(b)
  PROVE  a = b
<1> SUFFICES ASSUME a < b PROVE FALSE
  OBVIOUS
<1>1. a % Capacity # b % Capacity
  BY RingAssumption, ModDistinct
<1> QED BY <1>1 DEF SlotOf

\* The invariant holds in the empty ring.
LEMMA RingInitInv == RingInit => RInv
  BY RingAssumption DEF RingInit, RInv, RingTypeOK, ClaimsDistinct,
     SlotsHoldTheirOwn, HeadFollowsPops, AheadOfHead, NoHoles, InFlight, Slots,
     Empty, NoClaim

\* A claim takes the next index, which nothing else has.
LEMMA ClaimInv ==
  ASSUME RInv, NEW p \in Producers, Claim(p)
  PROVE  RInv'
<1> USE RingAssumption DEF RInv, RingTypeOK, Claim, NoClaim, Empty
<1>0. InFlight' = InFlight \cup {p} /\ p \notin InFlight
  BY DEF InFlight
<1>1. RingTypeOK'
  OBVIOUS
<1>2. ClaimsDistinct'
  BY <1>0 DEF ClaimsDistinct, NotLapping, InFlight
<1>3. SlotsHoldTheirOwn'
  BY <1>0 DEF SlotsHoldTheirOwn, InFlight
<1>4. ASSUME dropped_count_ = 0
      PROVE  HeadFollowsPops' /\ AheadOfHead' /\ NoHoles'
  <2>1. HeadFollowsPops'
    BY <1>4 DEF HeadFollowsPops
  <2>2. AheadOfHead'
    BY <1>4, <1>0 DEF AheadOfHead, HeadFollowsPops, InFlight
  <2>3. NoHoles'
    <3> SUFFICES ASSUME NEW i \in read_index_ .. write_index_
                 PROVE  \/ \E q \in InFlight' : claim'[q] = i
                        \/ slots_[SlotOf(i)] = i
      BY DEF NoHoles
    <3>1. CASE i = write_index_
      BY <1>0, <3>1
    <3>2. CASE i \in read_index_ .. write_index_ - 1
      BY <1>4, <1>0, <3>2 DEF NoHoles, InFlight
    <3> QED BY <3>1, <3>2
  <2> QED BY <2>1, <2>2, <2>3
<1> QED BY <1>1, <1>2, <1>3, <1>4

(***************************************************************************)
(* Until the first drop, a record published into a free slot lies within a *)
(* lap of the head: the index a lap before it has been popped, for it is   *)
(* neither under way, being older than a lap, nor in that slot.            *)
(***************************************************************************)
LEMMA PublishedNearHead ==
  ASSUME RInv, NEW p \in Producers, Publish(p), dropped_count_ = 0
  PROVE  claim[p] < read_index_ + Capacity
<1> USE RingAssumption DEF RInv, RingTypeOK, Publish, NoClaim, Empty
<1> SUFFICES ASSUME claim[p] >= read_index_ + Capacity PROVE FALSE
  BY DEF InFlight, ClaimsDistinct
<1> DEFINE i == claim[p] - Capacity
<1>1. claim[p] \in 0 .. write_index_ - 1
  BY DEF InFlight, ClaimsDistinct
<1>2. i \in read_index_ .. write_index_ - 1 /\ i \in Nat
  BY <1>1
<1>3. SlotOf(claim[p]) = SlotOf(i)
  <2>1. claim[p] = i + Capacity
    BY <1>1
  <2> HIDE DEF i
  <2> QED BY <1>2, <2>1, ModLap DEF SlotOf
<1>4. CASE \E q \in InFlight : claim[q] = i
  BY <1>1, <1>4 DEF ClaimsDistinct
<1>5. CASE slots_[SlotOf(i)] = i
  BY <1>2, <1>3, <1>5
<1> QED BY <1>2, <1>4, <1>5 DEF NoHoles

\* A publication moves a record from under way to waiting.
LEMMA PublishInv ==
  ASSUME RInv, NEW p \in Producers, Publish(p)
  PROVE  RInv'
<1> USE RingAssumption DEF RInv, RingTypeOK, Publish, NoClaim, Empty
<1>0. /\ p \in InFlight /\ InFlight' = InFlight \ {p}
      /\ \A q \in InFlight' : claim'[q] = claim[q]
      /\ claim[p] \in 0 .. write_index_ - 1
  BY DEF InFlight, ClaimsDistinct
<1>a. SlotOf(claim[p]) \in Slots
  BY <1>0, SlotOfInSlots
<1>1. RingTypeOK'
  BY <1>0, <1>a
<1>2. ClaimsDistinct'
  BY <1>0 DEF ClaimsDistinct
<1>3. SlotsHoldTheirOwn'
  BY <1>0, <1>a DEF SlotsHoldTheirOwn, ClaimsDistinct
<1>4. ASSUME dropped_count_ = 0
      PROVE  HeadFollowsPops' /\ AheadOfHead' /\ NoHoles'
  <2>1. HeadFollowsPops'
    BY <1>4 DEF HeadFollowsPops
  <2>2. AheadOfHead'
    BY <1>4, <1>0, <1>a, PublishedNearHead DEF AheadOfHead
  <2>3. NoHoles'
    <3> SUFFICES ASSUME NEW i \in read_index_ .. write_index_ - 1
                 PROVE  \/ \E q \in InFlight' : claim'[q] = i
                        \/ slots_'[SlotOf(i)] = i
      BY DEF NoHoles
    <3>1. CASE i = claim[p]
      BY <1>a, <3>1
    <3>2. ASSUME NEW q \in InFlight, claim[q] = i, i # claim[p]
          PROVE  \E o \in InFlight' : claim'[o] = i
      BY <1>0, <3>2
    <3>3. CASE slots_[SlotOf(i)] = i
      BY <1>a, <3>3
    <3> QED BY <1>4, <3>1, <3>2, <3>3 DEF NoHoles
  <2> QED BY <2>1, <2>2, <2>3
<1> QED BY <1>1, <1>2, <1>3, <1>4

\* After a rejection only the part without the head is left to show.
LEMMA RejectInv ==
  ASSUME RInv, NEW p \in Producers, Reject(p)
  PROVE  RInv'
<1> USE DEF RInv, RingTypeOK, Reject, NoClaim, Empty
<1>0. /\ InFlight' = InFlight \ {p}
      /\ \A q \in InFlight' : claim'[q] = claim[q]
  BY DEF InFlight
<1>1. RingTypeOK' /\ dropped_count_' # 0
  OBVIOUS
<1>2. ClaimsDistinct' /\ SlotsHoldTheirOwn'
  BY <1>0 DEF ClaimsDistinct, SlotsHoldTheirOwn
<1> QED BY <1>1, <1>2

(***************************************************************************)
(* Until the first drop, the record in the head slot is the one whose      *)
(* index is read_index_.                                                   *)
(***************************************************************************)
LEMMA HeadHoldsNext ==
  ASSUME RInv, slots_[HeadSlot] # Empty, dropped_count_ = 0
  PROVE  slots_[HeadSlot] = read_index_
<1> DEFINE v == slots_[HeadSlot]
<1>1. HeadSlot \in Slots /\ read_index_ \in Nat
  BY SlotOfInSlots DEF RInv, RingTypeOK, HeadSlot
<1>2. /\ v \in Nat /\ v >= read_index_ /\ v - read_index_ < Capacity
      /\ SlotOf(v) = SlotOf(read_index_)
  BY <1>1, RingAssumption DEF RInv, RingTypeOK, AheadOfHead, SlotsHoldTheirOwn, HeadSlot, Empty
<1> QED BY <1>1, <1>2, SameSlotSameIndex

\* A pop takes the oldest record.
LEMMA PopInv ==
  ASSUME RInv, Pop
  PROVE  RInv'
<1> USE RingAssumption DEF RInv, RingTypeOK, Pop, Empty
<1>0. /\ HeadSlot \in Slots /\ InFlight' = InFlight
      /\ slots_[HeadSlot] \in 0 .. write_index_ - 1
  BY SlotOfInSlots DEF HeadSlot, InFlight, SlotsHoldTheirOwn
<1>1. RingTypeOK'
  <2>1. popped' \in Seq(Nat)
    BY <1>0
  <2> QED BY <1>0, <2>1
<1>2. ClaimsDistinct' /\ SlotsHoldTheirOwn'
  BY <1>0 DEF ClaimsDistinct, SlotsHoldTheirOwn
<1>3. ASSUME dropped_count_ = 0
      PROVE  HeadFollowsPops' /\ AheadOfHead' /\ NoHoles'
  <2>0. slots_[HeadSlot] = read_index_
    BY <1>3, HeadHoldsNext
  <2>1. HeadFollowsPops'
    <3>1. /\ DOMAIN popped' = 1 .. Len(popped) + 1 /\ Len(popped') = Len(popped) + 1
          /\ \A k \in 1 .. Len(popped) : popped'[k] = popped[k]
          /\ popped'[Len(popped) + 1] = read_index_
      BY <1>0, <2>0
    <3> QED BY <1>0, <1>3, <2>0, <3>1 DEF HeadFollowsPops
  <2>2. AheadOfHead'
    <3>1. ASSUME NEW q \in InFlight PROVE claim[q] >= read_index_ + 1
      BY <1>0, <1>3, <2>0 DEF AheadOfHead, SlotsHoldTheirOwn, InFlight, ClaimsDistinct
    <3>2. ASSUME NEW j \in Slots, slots_'[j] # Empty
          PROVE  slots_'[j] >= read_index_ + 1 /\ slots_'[j] < read_index_ + 1 + Capacity
      <4>1. j # HeadSlot /\ slots_'[j] = slots_[j] /\ slots_[j] \in Nat
        BY <3>2, <1>0
      <4>2. SlotOf(slots_[j]) = j
        BY <3>2, <4>1 DEF SlotsHoldTheirOwn
      <4>3. slots_[j] # read_index_
        BY <4>1, <4>2 DEF HeadSlot
      <4> QED BY <1>3, <3>2, <4>1, <4>3 DEF AheadOfHead
    <3> QED BY <1>0, <3>1, <3>2 DEF AheadOfHead
  <2>3. NoHoles'
    <3> SUFFICES ASSUME NEW i \in read_index_ + 1 .. write_index_ - 1
                 PROVE  \/ \E q \in InFlight : claim[q] = i
                        \/ slots_'[SlotOf(i)] = i
      BY <1>0 DEF NoHoles
    <3>1. CASE slots_[SlotOf(i)] = i
      <4>1. SlotOf(i) \in Slots /\ SlotOf(i) # HeadSlot
        BY <2>0, <3>1, SlotOfInSlots
      <4> QED BY <3>1, <4>1
    <3> QED BY <1>3, <3>1 DEF NoHoles
  <2> QED BY <2>1, <2>2, <2>3
<1> QED BY <1>1, <1>2, <1>3

\* Every step of the ring preserves the invariant.
LEMMA RingNextInv == RInv /\ [RingNext]_ringVars => RInv'
<1> SUFFICES ASSUME RInv, [RingNext]_ringVars PROVE RInv'
  OBVIOUS
<1>1. ASSUME NEW p \in Producers, Push(p) PROVE RInv'
  BY <1>1, ClaimInv, PublishInv, RejectInv DEF Push
<1>2. CASE Pop
  BY <1>2, PopInv
<1>3. CASE UNCHANGED ringVars
  BY <1>3 DEF ringVars, RInv, RingTypeOK, ClaimsDistinct, SlotsHoldTheirOwn,
     HeadFollowsPops, AheadOfHead, NoHoles, InFlight
<1> QED BY <1>1, <1>2, <1>3 DEF RingNext

-----------------------------------------------------------------------------
(***************************************************************************)
(* Type correctness of the ring.                                           *)
(***************************************************************************)
THEOREM RingTypeCorrect == RingSpec => []RingTypeOK
<1>1. RInv => RingTypeOK
  BY DEF RInv
<1> QED BY <1>1, RingInitInv, RingNextInv, PTL DEF RingSpec

(***************************************************************************)
(* Until the first rejected push, TryPop returns the records in the order  *)
(* in which TryPush claimed their indices, none missing.                   *)
(***************************************************************************)
THEOREM FifoWhileNothingDropped == RingSpec => []FifoUntilDrop
<1>1. RInv => FifoUntilDrop
  BY DEF RInv, FifoUntilDrop, HeadFollowsPops
<1> QED BY <1>1, RingInitInv, RingNextInv, PTL DEF RingSpec

(***************************************************************************)
(* Until the first rejected push, a head slot that is not ready, with no   *)
(* push under way, means that the ring is empty: the drain loops of        *)
(* WriterThreadMain stop at the right moment.                              *)
(***************************************************************************)
THEOREM EmptyIsEmpty == RingSpec => []EmptyHeadMeansDrained
<1>1. RInv => EmptyHeadMeansDrained
  <2> SUFFICES ASSUME RInv, dropped_count_ = 0, InFlight = {}, slots_[HeadSlot] = Empty
               PROVE  Waiting = {}
    BY DEF EmptyHeadMeansDrained
  <2>1. read_index_ \in Nat /\ write_index_ \in Nat /\ read_index_ <= write_index_
    BY RingAssumption DEF RInv, RingTypeOK, HeadFollowsPops
  <2>2. ~(read_index_ < write_index_)
    BY <2>1 DEF RInv, NoHoles, HeadSlot, Empty
  <2>3. \A j \in Slots : slots_[j] = Empty
    BY <2>1, <2>2 DEF RInv, RingTypeOK, AheadOfHead, SlotsHoldTheirOwn
  <2> QED BY <2>3 DEF Waiting
<1> QED BY <1>1, RingInitInv, RingNextInv, PTL DEF RingSpec

-----------------------------------------------------------------------------
(***************************************************************************)
(* The records waiting in the slots, as a set: a free slot leaves room for *)
(* one more, and each record is in one slot only.                          *)
(***************************************************************************)
LEMMA WaitingSlots ==
  ASSUME RInv
  PROVE  /\ IsFiniteSet(Waiting) /\ Waiting \subseteq 0 .. write_index_ - 1
         /\ \A w \in Waiting : SlotOf(w) \in Slots /\ slots_[SlotOf(w)] = w
         /\ \A w \in Waiting, p \in InFlight : claim[p] # w
<1>1. /\ \A w \in Waiting : SlotOf(w) \in Slots /\ slots_[SlotOf(w)] = w
      /\ \A w \in Waiting, p \in InFlight : claim[p] # w
      /\ Waiting \subseteq 0 .. write_index_ - 1
  BY DEF RInv, SlotsHoldTheirOwn, Waiting
<1>2. IsFiniteSet(0 .. write_index_ - 1)
  BY RingAssumption, FS_Interval DEF RInv, RingTypeOK
<1> QED BY <1>1, <1>2, FS_Subset

\* A free slot means that fewer than Capacity records wait.
LEMMA RoomInTheRing ==
  ASSUME RInv, NEW t \in Slots, slots_[t] = Empty
  PROVE  Cardinality(Waiting) < Capacity
<1> DEFINE Others == Slots \ {t}
          f == [w \in Waiting |-> SlotOf(w)]
<1>1. IsFiniteSet(Slots) /\ Cardinality(Slots) = Capacity
  BY RingAssumption, FS_Interval DEF Slots
<1>2. IsFiniteSet(Others) /\ Cardinality(Others) = Capacity - 1
  BY <1>1, FS_RemoveElement, RingAssumption
<1>3. \A w \in Waiting : SlotOf(w) \in Others
  <2> SUFFICES ASSUME NEW w \in Waiting, SlotOf(w) = t PROVE FALSE
    BY WaitingSlots
  <2> QED BY WaitingSlots DEF Waiting
<1>4. f \in Injection(Waiting, Others)
  <2>1. f \in [Waiting -> Others]
    BY <1>3
  <2>2. \A v, w \in Waiting : f[v] = f[w] => v = w
    BY WaitingSlots
  <2> QED BY <2>1, <2>2 DEF Injection, IsInjective
<1>5. Cardinality(Waiting) <= Cardinality(Others)
  BY <1>2, <1>4, FS_Injection
<1>6. Cardinality(Waiting) \in Nat
  BY WaitingSlots, FS_CardinalityType
<1> QED BY <1>2, <1>5, <1>6, RingAssumption

-----------------------------------------------------------------------------
(***************************************************************************)
(* How a step of the ring changes the two sets RelaxedQueue is about: the  *)
(* indices of the pushes under way and the records waiting.                *)
(***************************************************************************)
Pending == {claim[p] : p \in InFlight}

\* A claim adds a push under way that was not there.
LEMMA ClaimSets ==
  ASSUME RInv, NEW p \in Producers, Claim(p)
  PROVE  /\ p \notin InFlight /\ InFlight' = InFlight \cup {p}
         /\ Pending' = Pending \cup {write_index_} /\ Waiting' = Waiting
<1> USE RingAssumption DEF RInv, RingTypeOK, Claim, NoClaim
<1>1. /\ p \notin InFlight /\ InFlight' = InFlight \cup {p}
      /\ claim'[p] = write_index_ /\ \A q \in InFlight : claim'[q] = claim[q]
  BY DEF InFlight
<1>2. Waiting' = Waiting
  BY DEF Waiting
<1> QED BY <1>1, <1>2 DEF Pending

\* A push that is decided, either way, is no longer under way.
LEMMA DecidedSets ==
  ASSUME RInv, NEW p \in Producers, claim[p] # NoClaim,
         claim' = [claim EXCEPT ![p] = NoClaim]
  PROVE  /\ p \in InFlight /\ InFlight' = InFlight \ {p}
         /\ claim[p] \in Pending /\ Pending' = Pending \ {claim[p]}
         /\ \A q \in InFlight' : claim'[q] = claim[q]
<1> USE DEF RInv, RingTypeOK, NoClaim
<1>1. /\ p \in InFlight /\ InFlight' = InFlight \ {p}
      /\ \A q \in InFlight' : claim'[q] = claim[q]
  BY DEF InFlight
<1>2. \A q \in InFlight : q # p => claim[q] # claim[p]
  BY <1>1 DEF ClaimsDistinct
<1> QED BY <1>1, <1>2 DEF Pending

\* A publication adds its record to those waiting.
LEMMA PublishWaiting ==
  ASSUME RInv, NEW p \in Producers, Publish(p)
  PROVE  /\ claim[p] \in 0 .. write_index_ - 1 /\ claim[p] \notin Waiting
         /\ SlotOf(claim[p]) \in Slots
         /\ Waiting' = Waiting \cup {claim[p]}
<1> USE DEF RInv, RingTypeOK, Publish, NoClaim, Empty
<1>1. p \in InFlight /\ claim[p] \in 0 .. write_index_ - 1
  BY DecidedSets DEF ClaimsDistinct
<1>2. SlotOf(claim[p]) \in Slots
  BY <1>1, SlotOfInSlots
<1>3. claim[p] \notin Waiting
  BY <1>1, WaitingSlots
<1>4. Waiting' = Waiting \cup {claim[p]}
  BY <1>1, <1>2 DEF Waiting
<1> QED BY <1>1, <1>2, <1>3, <1>4

\* A pop takes the record of the head slot, and only that, from those waiting.
LEMMA PopWaiting ==
  ASSUME RInv, Pop
  PROVE  /\ slots_[HeadSlot] \in Waiting
         /\ Waiting' = Waiting \ {slots_[HeadSlot]}
         /\ InFlight' = InFlight /\ Pending' = Pending
<1> USE DEF RInv, RingTypeOK, Pop, Empty
<1>1. HeadSlot \in Slots
  BY SlotOfInSlots DEF HeadSlot
<1>2. InFlight' = InFlight /\ Pending' = Pending
  BY DEF InFlight, Pending
<1>3. slots_[HeadSlot] \in Waiting
  BY <1>1 DEF Waiting
<1>4. ASSUME NEW j \in Slots, j # HeadSlot, slots_[j] # Empty
      PROVE  slots_[j] # slots_[HeadSlot]
  BY <1>1, <1>4 DEF SlotsHoldTheirOwn
<1>5. Waiting' = Waiting \ {slots_[HeadSlot]}
  <2>1. ASSUME NEW w \in Waiting' PROVE w \in Waiting \ {slots_[HeadSlot]}
    <3>1. PICK j \in Slots : slots_'[j] # Empty /\ w = slots_'[j]
      BY DEF Waiting
    <3>2. j # HeadSlot /\ slots_'[j] = slots_[j]
      BY <1>1, <3>1
    <3> QED BY <1>4, <3>1, <3>2 DEF Waiting
  <2>2. ASSUME NEW w \in Waiting \ {slots_[HeadSlot]} PROVE w \in Waiting'
    <3>1. PICK j \in Slots : slots_[j] # Empty /\ w = slots_[j]
      BY DEF Waiting
    <3>2. j # HeadSlot /\ slots_'[j] = slots_[j]
      BY <1>1, <3>1
    <3> QED BY <3>1, <3>2 DEF Waiting
  <2> QED BY <2>1, <2>2
<1> QED BY <1>2, <1>3, <1>5

-----------------------------------------------------------------------------
(***************************************************************************)
(* The books of the ring: with finitely many pushes under way, every push  *)
(* is in one of four places.                                               *)
(***************************************************************************)
BooksInv ==
  /\ RInv
  /\ IsFiniteSet(InFlight)
  /\ EveryPushAccountedFor

\* A claim is a push and one more under way; the ring was empty at first.
LEMMA BooksInit == RingInit => BooksInv
<1> SUFFICES ASSUME RingInit PROVE BooksInv
  OBVIOUS
<1>1. InFlight = {} /\ Waiting = {} /\ Len(popped) = 0
  BY DEF RingInit, InFlight, Waiting, NoClaim, Empty
<1> QED BY <1>1, RingInitInv, FS_EmptySet DEF RingInit, BooksInv, EveryPushAccountedFor

\* Every step moves one push from one place to the next.
LEMMA BooksNext == BooksInv /\ [RingNext]_ringVars => BooksInv'
<1> SUFFICES ASSUME BooksInv, [RingNext]_ringVars PROVE BooksInv'
  OBVIOUS
<1>1. RInv /\ RInv'
  BY RingNextInv DEF BooksInv
<1>2. /\ Cardinality(InFlight) \in Nat /\ Cardinality(Waiting) \in Nat
      /\ Len(popped) \in Nat /\ dropped_count_ \in Nat /\ write_index_ \in Nat
      /\ IsFiniteSet(Waiting)
  BY <1>1, WaitingSlots, FS_CardinalityType, RingAssumption DEF BooksInv, RInv, RingTypeOK
<1> USE <1>1, <1>2 DEF BooksInv, EveryPushAccountedFor
<1>3. ASSUME NEW p \in Producers, Claim(p) PROVE BooksInv'
  <2>1. IsFiniteSet(InFlight') /\ Cardinality(InFlight') = Cardinality(InFlight) + 1
    BY <1>3, ClaimSets, FS_AddElement
  <2>2. Cardinality(Waiting') = Cardinality(Waiting)
    BY <1>3, ClaimSets
  <2> QED BY <1>3, <2>1, <2>2 DEF Claim
<1>4. ASSUME NEW p \in Producers, Publish(p) PROVE BooksInv'
  <2>0. p \in InFlight /\ InFlight' = InFlight \ {p}
    BY <1>4, DecidedSets DEF Publish
  <2>1. IsFiniteSet(InFlight') /\ Cardinality(InFlight') = Cardinality(InFlight) - 1
    BY <2>0, FS_RemoveElement
  <2>2. Cardinality(Waiting') = Cardinality(Waiting) + 1
    BY <1>4, PublishWaiting, FS_AddElement
  <2> QED BY <1>4, <2>1, <2>2 DEF Publish
<1>5. ASSUME NEW p \in Producers, Reject(p) PROVE BooksInv'
  <2>0. p \in InFlight /\ InFlight' = InFlight \ {p}
    BY <1>5, DecidedSets DEF Reject
  <2>1. IsFiniteSet(InFlight') /\ Cardinality(InFlight') = Cardinality(InFlight) - 1
    BY <2>0, FS_RemoveElement
  <2>2. Cardinality(Waiting') = Cardinality(Waiting)
    BY <1>5 DEF Reject, Waiting
  <2> QED BY <1>5, <2>1, <2>2 DEF Reject
<1>6. CASE Pop
  <2>1. Cardinality(Waiting') = Cardinality(Waiting) - 1
    BY <1>6, PopWaiting, FS_RemoveElement
  <2>2. Len(popped') = Len(popped) + 1
    BY <1>6, PopWaiting, WaitingSlots DEF Pop, RInv, RingTypeOK
  <2>3. /\ IsFiniteSet(InFlight') /\ Cardinality(InFlight') = Cardinality(InFlight)
        /\ write_index_' = write_index_ /\ dropped_count_' = dropped_count_
    BY <1>6, PopWaiting DEF Pop
  <2>4. write_index_ = Cardinality(InFlight) + dropped_count_ + (Cardinality(Waiting) - 1)
                         + (Len(popped) + 1)
    BY OneMoved
  <2>5. EveryPushAccountedFor'
    BY <2>1, <2>2, <2>3, <2>4, Zenon
  <2> QED BY <2>3, <2>5
<1>7. CASE UNCHANGED ringVars
  BY <1>7 DEF ringVars, InFlight, Waiting
<1> QED BY <1>3, <1>4, <1>5, <1>6, <1>7 DEF RingNext, Push

(***************************************************************************)
(* No push is lost unnoticed: each is under way, counted in                *)
(* dropped_count_, waiting in a slot or popped.                            *)
(***************************************************************************)
THEOREM PushesAccountedFor == RingSpec => []EveryPushAccountedFor
<1>1. BooksInv => EveryPushAccountedFor
  BY DEF BooksInv
<1> QED BY <1>1, BooksInit, BooksNext, PTL DEF RingSpec

-----------------------------------------------------------------------------
(***************************************************************************)
(* Why a record is never popped two laps ahead of one still waiting.  Take *)
(* a slot that holds w, and a slot the consumer visits before it.  Once a  *)
(* push a lap or more younger than w has been decided in the earlier slot, *)
(* that slot is full, and stays so until the consumer comes by.            *)
(***************************************************************************)
Lap == read_index_ .. read_index_ + Capacity - 1

FrontSlotsFull ==
  \A m, n \in Lap : n < m /\ slots_[SlotOf(m)] # Empty =>
    \A i \in 0 .. write_index_ - 1 :
      (/\ SlotOf(i) = SlotOf(n)
       /\ i >= slots_[SlotOf(m)] + Capacity
       /\ \A p \in InFlight : claim[p] # i)
        => slots_[SlotOf(n)] # Empty

WithinTwoLaps ==
  \A m, n \in Lap :
    n < m /\ slots_[SlotOf(m)] # Empty /\ slots_[SlotOf(n)] # Empty =>
      slots_[SlotOf(n)] - slots_[SlotOf(m)] < 2 * Capacity

WindowInv == RInv /\ FrontSlotsFull /\ WithinTwoLaps

\* Distinct indices of the consumer's next lap have distinct slots.
LEMMA LapSlotsDistinct ==
  ASSUME read_index_ \in Nat, NEW m \in Lap, NEW n \in Lap, m # n
  PROVE  m \in Nat /\ n \in Nat /\ SlotOf(m) # SlotOf(n)
<1>1. m \in Nat /\ n \in Nat
  BY DEF Lap
<1>2. CASE m < n
  BY <1>1, <1>2, SameSlotSameIndex, RingAssumption DEF Lap
<1>3. CASE n < m
  BY <1>1, <1>3, SameSlotSameIndex, RingAssumption DEF Lap
<1> QED BY <1>1, <1>2, <1>3

\* A claim decides nothing and publishes nothing.
LEMMA ClaimWindow ==
  ASSUME WindowInv, NEW p \in Producers, Claim(p)
  PROVE  WindowInv'
<1>1. RInv /\ RInv'
  BY ClaimInv DEF WindowInv
<1>2. /\ write_index_' = write_index_ + 1 /\ write_index_ \in Nat
      /\ slots_' = slots_ /\ Lap' = Lap
      /\ InFlight' = InFlight \cup {p} /\ claim'[p] = write_index_
      /\ \A q \in InFlight : claim'[q] = claim[q]
  BY <1>1, ClaimSets, RingAssumption DEF Claim, Lap, RInv, RingTypeOK, InFlight
<1>3. FrontSlotsFull'
  <2> SUFFICES ASSUME NEW m \in Lap, NEW n \in Lap, n < m, slots_[SlotOf(m)] # Empty,
                      NEW i \in 0 .. write_index_, SlotOf(i) = SlotOf(n),
                      i >= slots_[SlotOf(m)] + Capacity,
                      \A q \in InFlight' : claim'[q] # i
               PROVE  slots_[SlotOf(n)] # Empty
    BY <1>2 DEF FrontSlotsFull
  <2>1. i # write_index_ /\ \A q \in InFlight : claim[q] # i
    BY <1>2
  <2> QED BY <1>2, <2>1 DEF WindowInv, FrontSlotsFull
<1>4. WithinTwoLaps'
  BY <1>2 DEF WindowInv, WithinTwoLaps
<1> QED BY <1>1, <1>3, <1>4 DEF WindowInv

(***************************************************************************)
(* A published record is younger than a lap, so that no push a lap younger *)
(* exists; and if it were two laps ahead of a record behind it, the push a *)
(* lap before it would have left its slot full.                            *)
(***************************************************************************)
LEMMA PublishWindow ==
  ASSUME WindowInv, NEW p \in Producers, Publish(p)
  PROVE  WindowInv'
<1> DEFINE v == claim[p]
          t == SlotOf(v)
<1>1. RInv /\ RInv'
  BY PublishInv DEF WindowInv
<1>2. /\ v \in 0 .. write_index_ - 1 /\ v \in Nat /\ t \in Slots
      /\ write_index_ - v <= Capacity
      /\ p \in InFlight /\ InFlight' = InFlight \ {p}
      /\ \A q \in InFlight' : claim'[q] = claim[q]
      /\ write_index_ \in Nat /\ read_index_ \in Nat
      /\ \A q \in InFlight : write_index_ - claim[q] <= Capacity /\ claim[q] \in Nat
  <2>1. /\ p \in InFlight /\ InFlight' = InFlight \ {p}
        /\ \A q \in InFlight' : claim'[q] = claim[q]
    BY <1>1, DecidedSets DEF Publish
  <2>2. v \in 0 .. write_index_ - 1 /\ t \in Slots
    BY <1>1, PublishWaiting
  <2> QED BY <1>1, <2>1, <2>2, RingAssumption DEF RInv, RingTypeOK, ClaimsDistinct
<1>3. /\ write_index_' = write_index_ /\ Lap' = Lap
      /\ slots_[t] = Empty /\ slots_'[t] = v /\ v # Empty
      /\ \A j \in Slots : j # t => slots_'[j] = slots_[j]
  BY <1>1, <1>2 DEF Publish, Lap, RInv, RingTypeOK, Empty
<1>4. \A n \in Lap : n \in Nat /\ SlotOf(n) \in Slots
  BY <1>2, SlotOfInSlots DEF Lap
<1>5. \A j \in Slots : slots_[j] # Empty => slots_[j] \in 0 .. write_index_ - 1
  BY <1>1 DEF RInv, SlotsHoldTheirOwn
<1> HIDE DEF v, t
<1>6. FrontSlotsFull'
  <2> SUFFICES ASSUME NEW m \in Lap, NEW n \in Lap, n < m, slots_'[SlotOf(m)] # Empty,
                      NEW i \in 0 .. write_index_ - 1, SlotOf(i) = SlotOf(n),
                      i >= slots_'[SlotOf(m)] + Capacity,
                      \A q \in InFlight' : claim'[q] # i
               PROVE  slots_'[SlotOf(n)] # Empty
    BY <1>3 DEF FrontSlotsFull
  <2>1. CASE SlotOf(n) = t
    BY <1>3, <2>1
  <2>2. CASE SlotOf(m) = t
    BY <1>2, <1>3, <2>2, RingAssumption
  <2>3. CASE SlotOf(n) # t /\ SlotOf(m) # t
    <3>1. i # v
      BY <2>3 DEF t
    <3>2. \A q \in InFlight : claim[q] # i
      BY <1>2, <3>1 DEF v
    <3> QED BY <1>3, <1>4, <2>3, <3>2 DEF WindowInv, FrontSlotsFull
  <2> QED BY <2>1, <2>2, <2>3
<1>7. WithinTwoLaps'
  <2> SUFFICES ASSUME NEW m \in Lap, NEW n \in Lap, n < m,
                      slots_'[SlotOf(m)] # Empty, slots_'[SlotOf(n)] # Empty
               PROVE  slots_'[SlotOf(n)] - slots_'[SlotOf(m)] < 2 * Capacity
    BY <1>3 DEF WithinTwoLaps
  <2>0. SlotOf(m) # SlotOf(n)
    <3>1. m # n
      BY <1>4
    <3> QED BY <1>2, <3>1, LapSlotsDistinct
  <2>1. CASE SlotOf(n) = t
    <3> DEFINE w == slots_[SlotOf(m)]
    <3>1. slots_'[SlotOf(n)] = v /\ slots_'[SlotOf(m)] = w /\ w # Empty /\ w \in Nat
      BY <1>3, <1>4, <1>5, <2>0, <2>1
    <3> SUFFICES ASSUME v - w >= 2 * Capacity PROVE FALSE
      BY <1>2, <3>1, RingAssumption
    <3> DEFINE i == v - Capacity
    <3>2. /\ i \in 0 .. write_index_ - 1 /\ i >= w + Capacity /\ v = i + Capacity
          /\ i \in Nat /\ \A q \in InFlight : claim[q] # i
      BY <1>2, <3>1, RingAssumption
    <3> HIDE DEF i
    <3>3. SlotOf(i) = SlotOf(n)
      BY <2>1, <3>2, ModLap, RingAssumption DEF SlotOf, t
    <3>4. slots_[SlotOf(n)] # Empty
      BY <3>1, <3>2, <3>3 DEF WindowInv, FrontSlotsFull
    <3> QED BY <1>3, <2>1, <3>4
  <2>2. CASE SlotOf(m) = t
    <3>1. slots_'[SlotOf(n)] \in 0 .. write_index_ - 1 /\ slots_'[SlotOf(m)] = v
      BY <1>3, <1>4, <1>5, <2>0, <2>2
    <3> QED BY <1>2, <3>1, RingAssumption
  <2>3. CASE SlotOf(n) # t /\ SlotOf(m) # t
    BY <1>3, <1>4, <2>3 DEF WindowInv, WithinTwoLaps
  <2> QED BY <2>1, <2>2, <2>3
<1> QED BY <1>1, <1>6, <1>7 DEF WindowInv

\* A rejected push is decided, and its slot is full.
LEMMA RejectWindow ==
  ASSUME WindowInv, NEW p \in Producers, Reject(p)
  PROVE  WindowInv'
<1>1. RInv /\ RInv'
  BY RejectInv DEF WindowInv
<1>2. /\ InFlight' = InFlight \ {p} /\ \A q \in InFlight' : claim'[q] = claim[q]
      /\ write_index_' = write_index_ /\ Lap' = Lap /\ slots_' = slots_
      /\ slots_[SlotOf(claim[p])] # Empty
  BY <1>1, DecidedSets DEF Reject, Lap
<1>3. FrontSlotsFull'
  <2> SUFFICES ASSUME NEW m \in Lap, NEW n \in Lap, n < m, slots_[SlotOf(m)] # Empty,
                      NEW i \in 0 .. write_index_ - 1, SlotOf(i) = SlotOf(n),
                      i >= slots_[SlotOf(m)] + Capacity,
                      \A q \in InFlight' : claim'[q] # i
               PROVE  slots_[SlotOf(n)] # Empty
    BY <1>2 DEF FrontSlotsFull
  <2>1. CASE i = claim[p]
    BY <1>2, <2>1
  <2>2. CASE i # claim[p]
    <3>1. \A q \in InFlight : claim[q] # i
      BY <1>2, <2>2
    <3> QED BY <3>1 DEF WindowInv, FrontSlotsFull
  <2> QED BY <2>1, <2>2
<1>4. WithinTwoLaps'
  BY <1>2 DEF WindowInv, WithinTwoLaps
<1> QED BY <1>1, <1>3, <1>4 DEF WindowInv

\* The slot a pop empties becomes the last of the consumer's lap.
LEMMA PopWindow ==
  ASSUME WindowInv, Pop
  PROVE  WindowInv'
<1>1. RInv /\ RInv'
  BY PopInv DEF WindowInv
<1>2. /\ read_index_ \in Nat /\ read_index_' = read_index_ + 1
      /\ write_index_' = write_index_ /\ claim' = claim /\ InFlight' = InFlight
      /\ HeadSlot \in Slots /\ slots_'[HeadSlot] = Empty
      /\ \A j \in Slots : j # HeadSlot => slots_'[j] = slots_[j]
  BY <1>1, PopWaiting, SlotOfInSlots DEF Pop, RInv, RingTypeOK, HeadSlot
<1>3. ASSUME NEW n \in Lap', slots_'[SlotOf(n)] # Empty
      PROVE  n \in Lap
  <2>1. CASE n = read_index_ + Capacity
    <3>1. SlotOf(n) = HeadSlot
      BY <1>2, <2>1, ModLap, RingAssumption DEF SlotOf, HeadSlot
    <3> QED BY <1>2, <1>3, <3>1
  <2>2. CASE n # read_index_ + Capacity
    BY <1>2, <2>2, RingAssumption DEF Lap
  <2> QED BY <2>1, <2>2
<1>4. ASSUME NEW n \in Lap', n \in Lap
      PROVE  slots_'[SlotOf(n)] = slots_[SlotOf(n)]
  <2>1. n # read_index_ /\ read_index_ \in Lap /\ n \in Nat
    BY <1>2, <1>4, RingAssumption DEF Lap
  <2>2. SlotOf(n) \in Slots /\ SlotOf(n) # HeadSlot
    BY <1>2, <1>4, <2>1, LapSlotsDistinct, SlotOfInSlots DEF HeadSlot
  <2> QED BY <1>2, <2>2
<1>5. ASSUME NEW m \in Lap', NEW n \in Lap', n < m, slots_'[SlotOf(m)] # Empty
      PROVE  /\ m \in Lap /\ n \in Lap
             /\ slots_'[SlotOf(m)] = slots_[SlotOf(m)]
             /\ slots_'[SlotOf(n)] = slots_[SlotOf(n)]
  <2>1. m \in Lap
    BY <1>3, <1>5
  <2>2. n \in Lap
    BY <1>2, <1>5, <2>1, RingAssumption DEF Lap
  <2> QED BY <1>4, <2>1, <2>2
<1>6. FrontSlotsFull'
  <2> SUFFICES ASSUME NEW m \in Lap', NEW n \in Lap', n < m, slots_'[SlotOf(m)] # Empty,
                      NEW i \in 0 .. write_index_ - 1, SlotOf(i) = SlotOf(n),
                      i >= slots_'[SlotOf(m)] + Capacity,
                      \A q \in InFlight : claim[q] # i
               PROVE  slots_'[SlotOf(n)] # Empty
    BY <1>2 DEF FrontSlotsFull
  <2> QED BY <1>5 DEF WindowInv, FrontSlotsFull
<1>7. WithinTwoLaps'
  <2> SUFFICES ASSUME NEW m \in Lap', NEW n \in Lap', n < m,
                      slots_'[SlotOf(m)] # Empty, slots_'[SlotOf(n)] # Empty
               PROVE  slots_'[SlotOf(n)] - slots_'[SlotOf(m)] < 2 * Capacity
    BY DEF WithinTwoLaps
  <2> QED BY <1>5 DEF WindowInv, WithinTwoLaps
<1> QED BY <1>1, <1>6, <1>7 DEF WindowInv

\* The window invariant holds of the empty ring.
LEMMA WindowInit == RingInit => WindowInv
<1> SUFFICES ASSUME RingInit PROVE WindowInv
  OBVIOUS
<1>1. \A n \in Lap : slots_[SlotOf(n)] = Empty
  BY SlotOfInSlots DEF RingInit, Lap
<1> QED BY <1>1, RingInitInv DEF WindowInv, FrontSlotsFull, WithinTwoLaps

\* The window invariant is preserved by every step.
LEMMA WindowNext == WindowInv /\ [RingNext]_ringVars => WindowInv'
<1> SUFFICES ASSUME WindowInv, [RingNext]_ringVars PROVE WindowInv'
  OBVIOUS
<1>1. ASSUME NEW p \in Producers, Push(p) PROVE WindowInv'
  BY <1>1, ClaimWindow, PublishWindow, RejectWindow DEF Push
<1>2. CASE Pop
  BY <1>2, PopWindow
<1>3. CASE UNCHANGED ringVars
  <2>1. RInv'
    BY <1>3, RingNextInv DEF WindowInv
  <2> QED BY <1>3, <2>1 DEF ringVars, WindowInv, FrontSlotsFull, WithinTwoLaps, Lap, InFlight
<1> QED BY <1>1, <1>2, <1>3 DEF RingNext

-----------------------------------------------------------------------------
\* What the window invariant says of a pop: it may deliver.
LEMMA PopWithinWindow ==
  ASSUME WindowInv, slots_[HeadSlot] # Empty, NEW w \in Waiting
  PROVE  slots_[HeadSlot] - w < 2 * Capacity
<1>1. /\ RInv /\ read_index_ \in Nat /\ SlotOf(w) \in Slots /\ slots_[SlotOf(w)] = w
      /\ w # Empty /\ HeadSlot \in Slots /\ slots_[HeadSlot] \in Nat
  BY WaitingSlots, SlotOfInSlots DEF WindowInv, RInv, RingTypeOK, Empty, HeadSlot, Waiting
<1>2. PICK m \in Lap : SlotOf(m) = SlotOf(w)
  BY <1>1, LapCovers, RingAssumption DEF Lap, Slots, SlotOf
<1>3. CASE m = read_index_
  BY <1>1, <1>2, <1>3, RingAssumption DEF HeadSlot
<1>4. CASE m # read_index_
  <2>1. read_index_ \in Lap /\ read_index_ < m
    BY <1>1, <1>4, RingAssumption DEF Lap
  <2> QED BY <1>1, <1>2, <2>1 DEF WindowInv, WithinTwoLaps, HeadSlot
<1> QED BY <1>3, <1>4

\* The empty ring is the empty queue.
LEMMA InitImplementsQueue == RingInit => Queue!QInit
  BY DEF RingInit, Queue!QInit, InFlight, Waiting, NoClaim, Empty

\* A claim offers a sample.
LEMMA ClaimOffers ==
  ASSUME WindowInv, NEW p \in Producers, Claim(p)
  PROVE  Queue!Offer
<1>0. RInv /\ write_index_ \in Nat
  BY RingAssumption DEF WindowInv, RInv, RingTypeOK
<1>1. \A q \in InFlight : write_index_ - claim[q] < 2 * Capacity
  BY <1>0, RingAssumption DEF Claim, NotLapping, RInv, ClaimsDistinct
<1> QED BY <1>0, <1>1, ClaimSets DEF Claim, Queue!Offer, Pending

\* A publication accepts it.
LEMMA PublishAccepts ==
  ASSUME WindowInv, NEW p \in Producers, Publish(p)
  PROVE  \E i \in Pending : Queue!Accept(i)
<1>0. RInv
  BY DEF WindowInv
<1>1. PICK i : i = claim[p]
  OBVIOUS
<1>2. i \in Pending /\ Pending' = Pending \ {i} /\ Waiting' = Waiting \cup {i}
  BY <1>0, <1>1, DecidedSets, PublishWaiting DEF Publish
<1>3. Queue!Cardinality(Waiting) < Capacity
  <2>1. Cardinality(Waiting) < Capacity
    BY <1>0, PublishWaiting, RoomInTheRing DEF Publish
  <2>2. Queue!Cardinality(Waiting) = Cardinality(Waiting)
    BY DEF Queue!Cardinality, Cardinality
  <2> QED BY <2>1, <2>2
<1>4. Queue!Accept(i)
  BY <1>2, <1>3 DEF Publish, Queue!Accept, Pending
<1> QED BY <1>2, <1>4

\* A rejection refuses it.
LEMMA RejectRefuses ==
  ASSUME WindowInv, NEW p \in Producers, Reject(p)
  PROVE  \E i \in Pending : Queue!Refuse(i)
<1>0. RInv
  BY DEF WindowInv
<1>1. PICK i : i = claim[p]
  OBVIOUS
<1>2. i \in Pending /\ Pending' = Pending \ {i}
  BY <1>0, <1>1, DecidedSets DEF Reject
<1>3. Waiting # {} /\ Waiting' = Waiting
  <2>1. SlotOf(claim[p]) \in Slots
    BY <1>0, SlotOfInSlots DEF Reject, RInv, RingTypeOK
  <2> QED BY <2>1 DEF Reject, Waiting
<1>4. Queue!Refuse(i)
  BY <1>2, <1>3 DEF Reject, Queue!Refuse, Pending
<1> QED BY <1>2, <1>4

\* A pop delivers.
LEMMA PopDelivers ==
  ASSUME WindowInv, Pop
  PROVE  \E i \in Waiting : Queue!Deliver(i)
<1>0. RInv
  BY DEF WindowInv
<1> DEFINE v == slots_[HeadSlot]
<1>1. /\ v \in Waiting /\ Waiting' = Waiting \ {v} /\ Pending' = Pending
      /\ \A w \in Waiting : v - w < 2 * Capacity
  BY <1>0, PopWaiting, PopWithinWindow DEF Pop
<1>2. Queue!Deliver(v)
  BY <1>1 DEF Pop, Queue!Deliver, Pending
<1> QED BY <1>1, <1>2

\* Every step of the ring is a step of the queue.
LEMMA StepImplementsQueue ==
  WindowInv /\ [RingNext]_ringVars => [Queue!QNext]_(Queue!qvars)
<1> SUFFICES ASSUME WindowInv, [RingNext]_ringVars
             PROVE  [Queue!QNext]_(Queue!qvars)
  OBVIOUS
<1>1. ASSUME NEW p \in Producers, Push(p)
      PROVE  Queue!QNext
  BY <1>1, ClaimOffers, PublishAccepts, RejectRefuses DEF Push, Queue!QNext, Pending
<1>2. CASE Pop
  BY <1>2, PopDelivers DEF Queue!QNext
<1>3. CASE UNCHANGED ringVars
  BY <1>3 DEF ringVars, Queue!qvars, InFlight, Waiting
<1> QED BY <1>1, <1>2, <1>3 DEF RingNext

(***************************************************************************)
(* The ring is a lossy queue: it implements RelaxedQueue with a window of  *)
(* two laps, drops or no drops, for every capacity, set of producers and   *)
(* number of pushes.                                                       *)
(***************************************************************************)
THEOREM RingIsRelaxedQueue == RingSpec => ImplementsRelaxedQueue
<1> QED BY WindowInit, WindowNext, InitImplementsQueue, StepImplementsQueue, PTL
   DEF RingSpec, ImplementsRelaxedQueue, Queue!QSpec

-----------------------------------------------------------------------------
(***************************************************************************)
(* What RelaxedQueueProofs shows of the queue therefore holds of the ring. *)
(***************************************************************************)
QueueProofs == INSTANCE RelaxedQueueProofs WITH
  Window <- 2 * Capacity,
  MaxOffers <- MaxClaims,
  offered <- write_index_,
  pending <- {claim[p] : p \in InFlight},
  waiting <- Waiting,
  delivered <- popped

\* The two instances of RelaxedQueue are the same specification.
LEMMA SameQueue == RingSpec => QueueProofs!QSpec
<1>1. Queue!QInit => QueueProofs!QInit
  BY DEF Queue!QInit, QueueProofs!QInit
<1>2. [Queue!QNext]_(Queue!qvars) => [QueueProofs!QNext]_(QueueProofs!qvars)
  <2>1. Queue!Offer => QueueProofs!Offer
    BY DEF Queue!Offer, QueueProofs!Offer
  <2>2. ASSUME NEW i, Queue!Accept(i) PROVE QueueProofs!Accept(i)
    <3>1. Queue!Cardinality(Waiting) = QueueProofs!Cardinality(Waiting)
      BY DEF Queue!Cardinality, QueueProofs!Cardinality
    <3> QED BY <2>2, <3>1 DEF Queue!Accept, QueueProofs!Accept
  <2>3. ASSUME NEW i, Queue!Refuse(i) PROVE QueueProofs!Refuse(i)
    BY <2>3 DEF Queue!Refuse, QueueProofs!Refuse
  <2>4. ASSUME NEW i, Queue!Deliver(i) PROVE QueueProofs!Deliver(i)
    BY <2>4 DEF Queue!Deliver, QueueProofs!Deliver
  <2> QED BY <2>1, <2>2, <2>3, <2>4 DEF Queue!QNext, QueueProofs!QNext,
       Queue!qvars, QueueProofs!qvars
<1> QED BY <1>1, <1>2, RingIsRelaxedQueue, PTL
     DEF ImplementsRelaxedQueue, Queue!QSpec, QueueProofs!QSpec

(***************************************************************************)
(* TryPop returns no record twice.                                         *)
(***************************************************************************)
THEOREM RingPopsOnce == RingSpec => []Queue!DeliveredOnce
<1>1. QueueProofs!QueueAssumption
  BY RingAssumption DEF QueueProofs!QueueAssumption
<1>2. QueueProofs!QSpec => []QueueProofs!DeliveredOnce
  BY <1>1, QueueProofs!DeliversOnce
<1>3. QueueProofs!DeliveredOnce => Queue!DeliveredOnce
  BY DEF QueueProofs!DeliveredOnce, Queue!DeliveredOnce
<1> QED BY SameQueue, <1>2, <1>3, PTL

(***************************************************************************)
(* The order of the records TryPop returns differs from the order in which *)
(* TryPush claimed their indices by less than two laps, drops or no drops. *)
(***************************************************************************)
THEOREM RingReordersWithinTwoLaps == RingSpec => []Queue!BoundedDisplacement
<1>1. QueueProofs!QueueAssumption
  BY RingAssumption DEF QueueProofs!QueueAssumption
<1>2. QueueProofs!QSpec => []QueueProofs!BoundedDisplacement
  BY <1>1, QueueProofs!ReordersWithinWindow
<1>3. QueueProofs!BoundedDisplacement => Queue!BoundedDisplacement
  BY DEF QueueProofs!BoundedDisplacement, Queue!BoundedDisplacement
<1> QED BY SameQueue, <1>2, <1>3, PTL

=============================================================================
