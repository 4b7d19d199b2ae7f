------------------------ MODULE MpscRingBufferProofs ------------------------
(***************************************************************************)
(* For every capacity, every set of producers and any number of pushes: as *)
(* long as no push is overtaken by a whole lap of others, the ready flag   *)
(* protects the plain fields of a slot, and the buffer is a ring of slots  *)
(* filled and emptied in one step, and a relaxed queue.                    *)
(***************************************************************************)
EXTENDS MpscRingBuffer, SequenceTheorems, TLAPS

(***************************************************************************)
(* The inductive invariant.  The pushes under way hold distinct indices    *)
(* less than a lap apart, hence distinct slots; a slot being filled is not *)
(* ready and the slot being copied is; what has been filled, published or  *)
(* copied so far is one record.                                            *)
(***************************************************************************)
WithinOneLap ==
  /\ \A p \in Pushing : /\ idx[p] \in 0 .. write_index_ - 1
                        /\ write_index_ - idx[p] <= Capacity
  /\ \A p, q \in Pushing : p # q => idx[p] # idx[q]

FlagsMatch ==
  /\ \A p \in Producers : Filling(p) => ~ready[MySlot(p)]
  /\ cpc # "idle" => ready[HeadSlot]

FilledSoFar ==
  \A p \in Producers :
    /\ pc[p] \in {"payload", "publish"} => header[MySlot(p)] = idx[p]
    /\ pc[p] = "publish" => payload[MySlot(p)] = idx[p]

ReadyIsWhole ==
  \A j \in Slots : ready[j] =>
    header[j] = payload[j] /\ header[j] \in 0 .. write_index_ - 1

CopiedSoFar ==
  /\ cpc \in {"payload", "release"} => out.header = header[HeadSlot]
  /\ cpc = "release" => out.payload = payload[HeadSlot]

IInv ==
  /\ TypeOK
  /\ WithinOneLap
  /\ FlagsMatch
  /\ FilledSoFar
  /\ ReadyIsWhole
  /\ CopiedSoFar
  /\ PoppedIntact

-----------------------------------------------------------------------------
(***************************************************************************)
(* The refinement mapping, named: what a slot, a producer and the history  *)
(* look like to the users of the ring.                                     *)
(***************************************************************************)
SlotContent == [j \in Slots |-> IF ready[j] THEN header[j] ELSE None]
ClaimOf == [p \in Producers |-> IF pc[p] = "idle" THEN None ELSE idx[p]]
PoppedNames == [i \in DOMAIN popped |-> popped[i].header]

RingProofs == INSTANCE SlotRingProofs WITH
  slots_ <- SlotContent,
  claim <- ClaimOf,
  popped <- PoppedNames

\* The assumption of SlotRing on its constants.
LEMMA RingConstants == RingProofs!RingAssumption
  BY BufferAssumption DEF RingProofs!RingAssumption

-----------------------------------------------------------------------------
\* Slots are addressed inside the buffer.
LEMMA SlotOfInSlots == ASSUME NEW i \in Nat PROVE SlotOf(i) \in Slots
  BY BufferAssumption DEF SlotOf, Slots

\* Two pushes under way never share a slot.
LEMMA DistinctSlots ==
  ASSUME TypeOK, WithinOneLap,
         NEW p \in Pushing, NEW q \in Pushing, p # q
  PROVE  MySlot(p) # MySlot(q)
<1> USE BufferAssumption
<1>1. /\ idx[p] \in Nat /\ idx[q] \in Nat /\ idx[p] # idx[q]
      /\ idx[p] - idx[q] < Capacity /\ idx[q] - idx[p] < Capacity
  BY DEF WithinOneLap, TypeOK
<1>2. CASE idx[p] < idx[q]
  BY <1>1, <1>2, RingConstants, RingProofs!ModDistinct DEF MySlot, SlotOf
<1>3. CASE idx[q] < idx[p]
  BY <1>1, <1>3, RingConstants, RingProofs!ModDistinct DEF MySlot, SlotOf
<1> QED BY <1>1, <1>2, <1>3

\* The slots in use are slots of the buffer.
LEMMA SlotsInRange ==
  ASSUME TypeOK, WithinOneLap
  PROVE  /\ HeadSlot \in Slots
         /\ \A p \in Pushing : MySlot(p) \in Slots /\ idx[p] \in Nat
  BY SlotOfInSlots DEF TypeOK, WithinOneLap, HeadSlot, MySlot

\* The invariant holds in the fresh buffer.
LEMMA InitInv == Init => IInv
  BY BufferAssumption DEF Init, IInv, TypeOK, WithinOneLap, FlagsMatch,
     FilledSoFar, ReadyIsWhole, CopiedSoFar, PoppedIntact, Pushing, Filling,
     Slots, None

-----------------------------------------------------------------------------
(* Each step of TryPush preserves the invariant. *)

\* fetch_add hands out an index no other push under way holds.
LEMMA FetchAddInv ==
  ASSUME IInv, MayLap = FALSE, NEW p \in Producers, FetchAdd(p)
  PROVE  IInv'
<1> USE BufferAssumption, SlotsInRange DEF IInv, TypeOK, FetchAdd, Goto, slots
<1>1. TypeOK'
  OBVIOUS
<1>2. WithinOneLap'
  BY DEF WithinOneLap, Pushing
<1>3. FlagsMatch' /\ CopiedSoFar'
  BY DEF FlagsMatch, CopiedSoFar, Filling, MySlot, HeadSlot
<1>4. FilledSoFar'
  BY DEF FilledSoFar, MySlot
<1>5. ReadyIsWhole' /\ PoppedIntact'
  BY DEF ReadyIsWhole, PoppedIntact
<1> QED BY <1>1, <1>2, <1>3, <1>4, <1>5

\* A rejected push leaves the slots alone.
LEMMA OverflowInv ==
  ASSUME IInv, NEW p \in Producers, Overflow(p)
  PROVE  IInv'
<1> USE DEF IInv, TypeOK, Overflow, Goto, slots
<1>1. TypeOK' /\ WithinOneLap'
  BY DEF WithinOneLap, Pushing
<1>2. FlagsMatch' /\ FilledSoFar' /\ CopiedSoFar'
  BY DEF FlagsMatch, FilledSoFar, CopiedSoFar, Filling, MySlot, HeadSlot
<1>3. ReadyIsWhole' /\ PoppedIntact'
  BY DEF ReadyIsWhole, PoppedIntact
<1> QED BY <1>1, <1>2, <1>3

\* A push goes on only when its slot is not ready.
LEMMA FindFreeInv ==
  ASSUME IInv, NEW p \in Producers, FindFree(p)
  PROVE  IInv'
<1> USE DEF IInv, TypeOK, FindFree, Goto, shared, slots
<1>1. TypeOK' /\ WithinOneLap'
  BY DEF WithinOneLap, Pushing
<1>2. FlagsMatch' /\ FilledSoFar' /\ CopiedSoFar'
  BY DEF FlagsMatch, FilledSoFar, CopiedSoFar, Filling, MySlot, HeadSlot
<1>3. ReadyIsWhole' /\ PoppedIntact'
  BY DEF ReadyIsWhole, PoppedIntact
<1> QED BY <1>1, <1>2, <1>3

\* Filling writes to a slot that is not ready and no other push holds.
LEMMA FillingIsPrivate ==
  ASSUME IInv, NEW p \in Producers, Filling(p)
  PROVE  /\ MySlot(p) \in Slots /\ idx[p] \in Nat /\ ~ready[MySlot(p)]
         /\ \A q \in Producers \ {p} : Filling(q) => MySlot(q) # MySlot(p)
         /\ cpc # "idle" => HeadSlot # MySlot(p)
<1>1. \A q \in Producers : Filling(q) => q \in Pushing
  BY DEF IInv, TypeOK, Filling, Pushing
<1>2. MySlot(p) \in Slots /\ idx[p] \in Nat
  BY <1>1, SlotsInRange DEF IInv
<1>3. \A q \in Producers \ {p} : Filling(q) => MySlot(q) # MySlot(p)
  BY <1>1, DistinctSlots DEF IInv
<1>4. ~ready[MySlot(p)] /\ (cpc # "idle" => HeadSlot # MySlot(p))
  BY DEF IInv, FlagsMatch
<1> QED BY <1>2, <1>3, <1>4

\* Writing the header disturbs neither another push nor the consumer.
LEMMA FillHeaderInv ==
  ASSUME IInv, NEW p \in Producers, FillHeader(p)
  PROVE  IInv'
<1> USE DEF IInv, TypeOK, FillHeader, Goto, shared
<1>0. /\ MySlot(p) \in Slots /\ idx[p] \in Nat /\ ~ready[MySlot(p)]
      /\ \A q \in Producers \ {p} : Filling(q) => MySlot(q) # MySlot(p)
      /\ cpc # "idle" => HeadSlot # MySlot(p)
  BY FillingIsPrivate DEF Filling
<1>1. TypeOK' /\ WithinOneLap'
  BY <1>0 DEF WithinOneLap, Pushing
<1>2. FlagsMatch'
  BY DEF FlagsMatch, Filling, MySlot, HeadSlot
<1>3. FilledSoFar'
  <2> SUFFICES ASSUME NEW q \in Producers, pc'[q] \in {"payload", "publish"}
               PROVE  /\ header'[MySlot(q)] = idx[q]
                      /\ pc'[q] = "publish" => payload[MySlot(q)] = idx[q]
    BY DEF FilledSoFar, MySlot
  <2>1. CASE q = p
    BY <1>0, <2>1
  <2>2. CASE q # p
    BY <1>0, <2>2 DEF FilledSoFar, Filling
  <2> QED BY <2>1, <2>2
<1>4. ReadyIsWhole' /\ PoppedIntact'
  BY <1>0 DEF ReadyIsWhole, PoppedIntact
<1>5. CopiedSoFar'
  BY <1>0, SlotsInRange DEF CopiedSoFar, HeadSlot
<1> QED BY <1>1, <1>2, <1>3, <1>4, <1>5

\* Nor does writing the payload.
LEMMA FillPayloadInv ==
  ASSUME IInv, NEW p \in Producers, FillPayload(p)
  PROVE  IInv'
<1> USE DEF IInv, TypeOK, FillPayload, Goto, shared
<1>0. /\ MySlot(p) \in Slots /\ idx[p] \in Nat /\ ~ready[MySlot(p)]
      /\ \A q \in Producers \ {p} : Filling(q) => MySlot(q) # MySlot(p)
      /\ cpc # "idle" => HeadSlot # MySlot(p)
  BY FillingIsPrivate DEF Filling
<1>1. TypeOK' /\ WithinOneLap'
  BY <1>0 DEF WithinOneLap, Pushing
<1>2. FlagsMatch'
  BY DEF FlagsMatch, Filling, MySlot, HeadSlot
<1>3. FilledSoFar'
  <2> SUFFICES ASSUME NEW q \in Producers, pc'[q] \in {"payload", "publish"}
               PROVE  /\ header[MySlot(q)] = idx[q]
                      /\ pc'[q] = "publish" => payload'[MySlot(q)] = idx[q]
    BY DEF FilledSoFar, MySlot
  <2>1. CASE q = p
    BY <1>0, <2>1 DEF FilledSoFar
  <2>2. CASE q # p
    BY <1>0, <2>2 DEF FilledSoFar, Filling
  <2> QED BY <2>1, <2>2
<1>4. ReadyIsWhole' /\ PoppedIntact'
  BY <1>0 DEF ReadyIsWhole, PoppedIntact
<1>5. CopiedSoFar'
  BY <1>0, SlotsInRange DEF CopiedSoFar, HeadSlot
<1> QED BY <1>1, <1>2, <1>3, <1>4, <1>5

\* What the flag publishes is one record.
LEMMA StoreReadyInv ==
  ASSUME IInv, NEW p \in Producers, StoreReady(p)
  PROVE  IInv'
<1> USE DEF IInv, TypeOK, StoreReady, Goto, shared
<1>0. /\ MySlot(p) \in Slots /\ idx[p] \in Nat /\ ~ready[MySlot(p)]
      /\ \A q \in Producers \ {p} : Filling(q) => MySlot(q) # MySlot(p)
      /\ cpc # "idle" => HeadSlot # MySlot(p)
  BY FillingIsPrivate DEF Filling
<1>1. TypeOK' /\ WithinOneLap'
  BY <1>0 DEF WithinOneLap, Pushing
<1>2. FlagsMatch'
  <2>1. ASSUME NEW q \in Producers, Filling(q)' PROVE ~ready'[MySlot(q)]
    <3>1. q # p /\ Filling(q)
      BY <2>1 DEF Filling
    <3> QED BY <1>0, <3>1 DEF FlagsMatch
  <2>2. cpc # "idle" => ready'[HeadSlot]
    BY <1>0, SlotsInRange DEF FlagsMatch
  <2> QED BY <2>1, <2>2 DEF FlagsMatch, MySlot, HeadSlot
<1>3. FilledSoFar' /\ CopiedSoFar'
  BY DEF FilledSoFar, CopiedSoFar, MySlot, HeadSlot
<1>4. ReadyIsWhole' /\ PoppedIntact'
  <2>1. /\ header[MySlot(p)] = idx[p] /\ payload[MySlot(p)] = idx[p]
        /\ idx[p] \in 0 .. write_index_ - 1
    BY DEF FilledSoFar, WithinOneLap, Pushing
  <2> QED BY <1>0, <2>1 DEF ReadyIsWhole, PoppedIntact
<1> QED BY <1>1, <1>2, <1>3, <1>4

-----------------------------------------------------------------------------
(* Each step of TryPop preserves the invariant. *)

\* The consumer starts copying only from a ready slot.
LEMMA LoadReadyInv ==
  ASSUME IInv, LoadReady
  PROVE  IInv'
<1> USE DEF IInv, TypeOK, LoadReady, shared, slots
<1>1. TypeOK' /\ WithinOneLap'
  BY DEF WithinOneLap, Pushing
<1>2. FlagsMatch' /\ FilledSoFar' /\ CopiedSoFar'
  BY DEF FlagsMatch, FilledSoFar, CopiedSoFar, Filling, MySlot, HeadSlot
<1>3. ReadyIsWhole' /\ PoppedIntact'
  BY DEF ReadyIsWhole, PoppedIntact
<1> QED BY <1>1, <1>2, <1>3

\* Copying the header only changes the consumer's record.
LEMMA CopyHeaderInv ==
  ASSUME IInv, CopyHeader
  PROVE  IInv'
<1> USE SlotsInRange DEF IInv, TypeOK, CopyHeader, shared, slots
<1>1. TypeOK' /\ WithinOneLap'
  BY DEF WithinOneLap, Pushing
<1>2. FlagsMatch' /\ FilledSoFar' /\ CopiedSoFar'
  BY DEF FlagsMatch, FilledSoFar, CopiedSoFar, Filling, MySlot, HeadSlot
<1>3. ReadyIsWhole' /\ PoppedIntact'
  BY DEF ReadyIsWhole, PoppedIntact
<1> QED BY <1>1, <1>2, <1>3

\* So does copying the payload.
LEMMA CopyPayloadInv ==
  ASSUME IInv, CopyPayload
  PROVE  IInv'
<1> USE SlotsInRange DEF IInv, TypeOK, CopyPayload, shared, slots
<1>1. TypeOK' /\ WithinOneLap'
  BY DEF WithinOneLap, Pushing
<1>2. FlagsMatch' /\ FilledSoFar' /\ CopiedSoFar'
  BY DEF FlagsMatch, FilledSoFar, CopiedSoFar, Filling, MySlot, HeadSlot
<1>3. ReadyIsWhole' /\ PoppedIntact'
  BY DEF ReadyIsWhole, PoppedIntact
<1> QED BY <1>1, <1>2, <1>3

\* The record returned is the one the slot held when its flag is cleared.
LEMMA ClearReadyInv ==
  ASSUME IInv, ClearReady
  PROVE  IInv'
<1> USE DEF IInv, ClearReady
<1>0. /\ HeadSlot \in Slots
      /\ out.header = out.payload
      /\ out.header \in 0 .. write_index_ - 1
  BY SlotsInRange DEF FlagsMatch, ReadyIsWhole, CopiedSoFar
<1>1. out \in [header : Nat, payload : Nat]
  BY <1>0 DEF TypeOK
<1>2. TypeOK'
  <2>1. popped' \in Seq([header : Nat, payload : Nat])
    BY <1>1 DEF TypeOK
  <2> QED BY <1>0, <2>1 DEF TypeOK
<1>3. WithinOneLap' /\ FilledSoFar' /\ CopiedSoFar'
  BY DEF WithinOneLap, FilledSoFar, CopiedSoFar, Pushing, MySlot
<1>4. FlagsMatch' /\ ReadyIsWhole'
  BY <1>0 DEF TypeOK, FlagsMatch, ReadyIsWhole, Filling, MySlot
<1>5. PoppedIntact'
  <2>1. /\ DOMAIN popped' = DOMAIN popped \cup {Len(popped) + 1}
        /\ DOMAIN popped = 1 .. Len(popped)
        /\ \A k \in DOMAIN popped : popped'[k] = popped[k]
        /\ popped'[Len(popped) + 1] = out
    BY <1>1 DEF TypeOK
  <2> QED BY <1>0, <2>1 DEF PoppedIntact
<1> QED BY <1>2, <1>3, <1>4, <1>5

-----------------------------------------------------------------------------
\* Every step preserves the invariant.
LEMMA NextInv ==
  ASSUME MayLap = FALSE, IInv, [Next]_vars
  PROVE  IInv'
<1>1. ASSUME NEW p \in Producers, TryPush(p) PROVE IInv'
  BY <1>1, FetchAddInv, OverflowInv, FindFreeInv, FillHeaderInv,
     FillPayloadInv, StoreReadyInv DEF TryPush
<1>2. CASE TryPop
  BY <1>2, LoadReadyInv, CopyHeaderInv, CopyPayloadInv, ClearReadyInv DEF TryPop
<1>3. CASE UNCHANGED vars
  BY <1>3 DEF vars, shared, slots, IInv, TypeOK, WithinOneLap, FlagsMatch,
     FilledSoFar, ReadyIsWhole, CopiedSoFar, PoppedIntact, Pushing, Filling,
     MySlot, HeadSlot
<1> QED BY <1>1, <1>2, <1>3 DEF Next

\* The invariant implies that slots are exclusive.
LEMMA InvImpliesExclusive == IInv => SlotExclusive
<1> SUFFICES ASSUME IInv PROVE SlotExclusive
  OBVIOUS
<1> QED BY FillingIsPrivate DEF SlotExclusive

(***************************************************************************)
(* Type correctness of the ring buffer.                                    *)
(***************************************************************************)
THEOREM TypeCorrect == MayLap = FALSE => (Spec => []TypeOK)
<1> SUFFICES ASSUME MayLap = FALSE PROVE Spec => []TypeOK
  OBVIOUS
<1>1. IInv /\ [Next]_vars => IInv'
  BY NextInv
<1>2. IInv => TypeOK
  BY DEF IInv
<1> QED BY <1>1, <1>2, InitInv, PTL DEF Spec

(***************************************************************************)
(* No data race: producers that fill a slot and the consumer that copies   *)
(* one are never at the same slot.                                         *)
(***************************************************************************)
THEOREM NoDataRace == MayLap = FALSE => (Spec => []SlotExclusive)
<1> SUFFICES ASSUME MayLap = FALSE PROVE Spec => []SlotExclusive
  OBVIOUS
<1>1. IInv /\ [Next]_vars => IInv'
  BY NextInv
<1> QED BY <1>1, InvImpliesExclusive, InitInv, PTL DEF Spec

(***************************************************************************)
(* Every record TryPop returns was pushed, and has its own header and its  *)
(* own payload.                                                            *)
(***************************************************************************)
THEOREM RecordsIntact == MayLap = FALSE => (Spec => []PoppedIntact)
<1> SUFFICES ASSUME MayLap = FALSE PROVE Spec => []PoppedIntact
  OBVIOUS
<1>1. IInv /\ [Next]_vars => IInv'
  BY NextInv
<1>2. IInv => PoppedIntact
  BY DEF IInv
<1> QED BY <1>1, <1>2, InitInv, PTL DEF Spec

-----------------------------------------------------------------------------
(* The buffer implements SlotRing.                                         *)

\* The fresh buffer is the empty ring.
LEMMA InitImplements == Init => Coarse!RingInit
<1> SUFFICES ASSUME Init PROVE Coarse!RingInit
  OBVIOUS
<1>1. SlotContent = [j \in Slots |-> None] /\ ClaimOf = [p \in Producers |-> None]
  BY DEF Init, SlotContent, ClaimOf
<1>2. PoppedNames = <<>>
  BY DEF Init, PoppedNames
<1> QED BY <1>1, <1>2 DEF Init, SlotContent, ClaimOf, PoppedNames, None, Slots,
     Coarse!RingInit, Coarse!Slots, Coarse!Empty, Coarse!NoClaim

\* fetch_add is the claim, and waits for nobody a lap behind.
LEMMA FetchAddImplements ==
  ASSUME IInv, MayLap = FALSE, NEW p \in Producers, FetchAdd(p)
  PROVE  Coarse!Claim(p)
<1> USE DEF FetchAdd, Goto, slots, IInv, TypeOK
<1>1. /\ ClaimOf' = [ClaimOf EXCEPT ![p] = write_index_] /\ ClaimOf[p] = None
      /\ SlotContent' = SlotContent /\ PoppedNames' = PoppedNames
  BY BufferAssumption DEF ClaimOf, SlotContent, PoppedNames, None
<1>2. \A q \in Producers : ClaimOf[q] # None => write_index_ - ClaimOf[q] < Capacity
  BY BufferAssumption DEF ClaimOf, Pushing
<1> QED BY <1>1, <1>2 DEF Coarse!Claim, Coarse!NotLapping, Coarse!InFlight,
     Coarse!NoClaim, None, ClaimOf, SlotContent, PoppedNames

\* A push that found its slot ready is the rejection.
LEMMA OverflowImplements ==
  ASSUME IInv, NEW p \in Producers, Overflow(p)
  PROVE  Coarse!Reject(p)
<1> USE DEF Overflow, Goto, slots, IInv, TypeOK
<1>1. MySlot(p) \in Slots /\ idx[p] \in Nat
  BY SlotsInRange DEF Pushing
<1>2. /\ ClaimOf' = [ClaimOf EXCEPT ![p] = None] /\ ClaimOf[p] = idx[p]
      /\ SlotContent' = SlotContent /\ PoppedNames' = PoppedNames
  BY DEF ClaimOf, SlotContent, PoppedNames
<1>3. SlotContent[SlotOf(ClaimOf[p])] # None
  BY <1>1, <1>2 DEF SlotContent, MySlot, ReadyIsWhole, None
<1> QED BY <1>1, <1>2, <1>3 DEF Coarse!Reject, Coarse!SlotOf, SlotOf, Coarse!Empty,
     Coarse!NoClaim, None, ClaimOf, SlotContent, PoppedNames

\* The store of the ready flag is the publication: the slot's header is by
\* then the pushed record's.
LEMMA StoreReadyImplements ==
  ASSUME IInv, NEW p \in Producers, StoreReady(p)
  PROVE  Coarse!Publish(p)
<1> USE DEF StoreReady, Goto, shared, IInv, TypeOK
<1>0. /\ MySlot(p) \in Slots /\ ~ready[MySlot(p)] /\ header[MySlot(p)] = idx[p]
      /\ idx[p] \in Nat
  BY FillingIsPrivate DEF Filling, FilledSoFar
<1>1. /\ ClaimOf' = [ClaimOf EXCEPT ![p] = None] /\ ClaimOf[p] = idx[p]
      /\ PoppedNames' = PoppedNames
  BY <1>0 DEF ClaimOf, PoppedNames
<1>2. /\ SlotContent[MySlot(p)] = None
      /\ SlotContent' = [SlotContent EXCEPT ![MySlot(p)] = idx[p]]
  BY <1>0 DEF SlotContent
<1> QED BY <1>0, <1>1, <1>2 DEF Coarse!Publish, Coarse!SlotOf, SlotOf, MySlot,
     Coarse!Empty, Coarse!NoClaim, None, ClaimOf, SlotContent, PoppedNames

\* The clearing of the ready flag is the pop, of the record in the slot.
LEMMA ClearReadyImplements ==
  ASSUME IInv, ClearReady
  PROVE  Coarse!Pop
<1> USE DEF ClearReady, IInv
<1>0. /\ HeadSlot \in Slots /\ ready[HeadSlot] /\ out.header = header[HeadSlot]
      /\ header[HeadSlot] \in Nat
  BY SlotsInRange, BufferAssumption DEF FlagsMatch, CopiedSoFar, ReadyIsWhole, TypeOK, None
<1>1. SlotContent[HeadSlot] = out.header /\ out.header # None /\ ClaimOf' = ClaimOf
  BY <1>0 DEF SlotContent, ClaimOf, None
<1>2. SlotContent' = [SlotContent EXCEPT ![HeadSlot] = None]
  BY <1>0 DEF SlotContent, TypeOK
<1>3. PoppedNames' = Append(PoppedNames, out.header)
  <2>1. /\ popped \in Seq([header : Nat, payload : Nat])
        /\ out \in [header : Nat, payload : Nat]
    BY <1>0 DEF TypeOK, CopiedSoFar, ReadyIsWhole
  <2>2. /\ DOMAIN popped = 1 .. Len(popped) /\ DOMAIN popped' = 1 .. Len(popped) + 1
        /\ Len(popped) \in Nat /\ popped'[Len(popped) + 1] = out
        /\ \A k \in 1 .. Len(popped) : popped'[k] = popped[k]
    BY <2>1
  <2>3. \A k \in 1 .. Len(popped) : popped[k].header \in Nat
    BY <2>2 DEF PoppedIntact, TypeOK
  <2> DEFINE n == Len(popped)
  <2>4. PoppedNames \in [1 .. n -> Nat] /\ n \in Nat
    BY <2>2, <2>3 DEF PoppedNames
  <2>5. PoppedNames \in Seq(Nat) /\ Len(PoppedNames) = n
    BY <2>4, SeqDef
  <2>6. PoppedNames' = [k \in 1 .. n + 1 |-> IF k = n + 1 THEN out.header ELSE PoppedNames[k]]
    BY <2>2 DEF PoppedNames
  <2> HIDE DEF n
  <2> QED BY <1>0, <2>5, <2>6
<1> QED BY <1>0, <1>1, <1>2, <1>3 DEF Coarse!Pop, Coarse!HeadSlot, Coarse!SlotOf, HeadSlot, SlotOf,
     Coarse!Empty, None, ClaimOf, SlotContent, PoppedNames

\* Every step is a step of the ring, or one its users do not see.
LEMMA StepImplements ==
  ASSUME MayLap = FALSE, IInv, [Next]_vars
  PROVE  [Coarse!RingNext]_(Coarse!ringVars)
<1>1. ASSUME NEW p \in Producers,
             FindFree(p) \/ FillHeader(p) \/ FillPayload(p)
      PROVE  UNCHANGED Coarse!ringVars
  <2>1. /\ UNCHANGED <<shared, popped>>
        /\ pc[p] # "idle" /\ \E l \in {"header", "payload", "publish"} : pc' = [pc EXCEPT ![p] = l]
        /\ idx' = idx /\ ready' = ready
    BY <1>1 DEF FindFree, FillHeader, FillPayload, Goto, slots
  <2>2. ClaimOf' = ClaimOf
    BY <2>1 DEF ClaimOf, IInv, TypeOK
  <2>3. \A j \in Slots : ready[j] => header'[j] = header[j]
    BY <1>1, FillingIsPrivate DEF FindFree, FillHeader, FillPayload, Goto, slots, Filling, IInv, TypeOK
  <2>4. SlotContent' = SlotContent
    BY <2>1, <2>3 DEF SlotContent
  <2> QED BY <2>1, <2>2, <2>4 DEF Coarse!ringVars, shared, ClaimOf, SlotContent
<1>2. CASE LoadReady \/ CopyHeader \/ CopyPayload \/ UNCHANGED vars
  <2>1. UNCHANGED <<shared, slots, pc, idx, popped>>
    BY <1>2 DEF LoadReady, CopyHeader, CopyPayload, vars
  <2> QED BY <2>1 DEF Coarse!ringVars, shared, slots
<1>3. ASSUME NEW p \in Producers, FetchAdd(p) \/ Overflow(p) \/ StoreReady(p)
      PROVE  Coarse!RingNext
  BY <1>3, FetchAddImplements, OverflowImplements, StoreReadyImplements
     DEF Coarse!RingNext, Coarse!Push
<1>4. CASE ClearReady
  BY <1>4, ClearReadyImplements DEF Coarse!RingNext
<1> QED BY <1>1, <1>2, <1>3, <1>4 DEF Next, TryPush, TryPop

(***************************************************************************)
(* The accesses of TryPush and TryPop to shared memory implement the ring  *)
(* of SlotRing, for every capacity, set of producers and number of pushes, *)
(* if no push is overtaken by a lap.                                       *)
(***************************************************************************)
THEOREM BufferIsSlotRing == MayLap = FALSE => (Spec => ImplementsSlotRing)
<1> SUFFICES ASSUME MayLap = FALSE PROVE Spec => Coarse!RingSpec
  BY DEF ImplementsSlotRing
<1>1. IInv /\ [Next]_vars => IInv'
  BY NextInv
<1>2. IInv /\ [Next]_vars => [Coarse!RingNext]_(Coarse!ringVars)
  BY StepImplements
<1> QED BY <1>1, <1>2, InitInv, InitImplements, PTL DEF Spec, Coarse!RingSpec

-----------------------------------------------------------------------------
(* What SlotRingProofs shows of the ring therefore holds of the buffer.    *)

\* The two instances of SlotRing are the same specification.
LEMMA SameRing == ImplementsSlotRing => RingProofs!RingSpec
<1> USE DEF SlotContent, ClaimOf, PoppedNames
<1>1. /\ Coarse!Empty = RingProofs!Empty /\ Coarse!NoClaim = RingProofs!NoClaim
      /\ Coarse!Slots = RingProofs!Slots
      /\ \A i : Coarse!SlotOf(i) = RingProofs!SlotOf(i)
  BY DEF Coarse!Empty, RingProofs!Empty, Coarse!NoClaim, RingProofs!NoClaim,
     Coarse!Slots, RingProofs!Slots, Coarse!SlotOf, RingProofs!SlotOf
<1>2. Coarse!HeadSlot = RingProofs!HeadSlot
  BY <1>1 DEF Coarse!HeadSlot, RingProofs!HeadSlot
<1>3. Coarse!NotLapping = RingProofs!NotLapping
  BY <1>1 DEF Coarse!NotLapping, RingProofs!NotLapping, Coarse!InFlight, RingProofs!InFlight
<1>4. Coarse!RingInit => RingProofs!RingInit
  BY <1>1 DEF Coarse!RingInit, RingProofs!RingInit
<1>5. [Coarse!RingNext]_(Coarse!ringVars) => [RingProofs!RingNext]_(RingProofs!ringVars)
  <2>1. ASSUME NEW p \in Producers, Coarse!Push(p) PROVE RingProofs!Push(p)
    <3>1. CASE Coarse!Claim(p)
      BY <1>1, <1>3, <3>1 DEF Coarse!Claim, RingProofs!Claim, RingProofs!Push
    <3>2. CASE Coarse!Publish(p)
      BY <3>2 DEF Coarse!Publish, RingProofs!Publish, RingProofs!Push, Coarse!SlotOf,
         RingProofs!SlotOf, Coarse!Empty, RingProofs!Empty, Coarse!NoClaim,
         RingProofs!NoClaim
    <3>3. CASE Coarse!Reject(p)
      BY <1>1, <3>3 DEF Coarse!Reject, RingProofs!Reject, RingProofs!Push
    <3> QED BY <2>1, <3>1, <3>2, <3>3 DEF Coarse!Push
  <2>2. Coarse!Pop => RingProofs!Pop
    BY <1>1, <1>2 DEF Coarse!Pop, RingProofs!Pop
  <2> QED BY <2>1, <2>2 DEF Coarse!RingNext, RingProofs!RingNext, Coarse!ringVars,
       RingProofs!ringVars
<1> QED BY <1>4, <1>5, PTL DEF ImplementsSlotRing, Coarse!RingSpec, RingProofs!RingSpec

(***************************************************************************)
(* The accesses of TryPush and TryPop to shared memory implement the       *)
(* bounded lossy queue with a window of two laps, by way of SlotRing; if   *)
(* no push is overtaken by a lap.                                          *)
(***************************************************************************)
THEOREM BufferIsRelaxedQueue ==
  MayLap = FALSE => (Spec => RingProofs!ImplementsRelaxedQueue)
<1>1. RingProofs!RingSpec => RingProofs!ImplementsRelaxedQueue
  BY RingConstants, RingProofs!RingIsRelaxedQueue
<1> QED BY <1>1, BufferIsSlotRing, SameRing, PTL

\* Until the first rejected push TryPop returns the records in push order.
PoppedFifo ==
  dropped_count_ = 0 => \A i \in DOMAIN popped : popped[i].header = i - 1

\* No record twice, and none two laps or more before an older one.
PoppedOnceNearlyInOrder ==
  \A i, j \in DOMAIN popped :
    /\ i # j => popped[i].header # popped[j].header
    /\ i < j => popped[i].header - popped[j].header < 2 * Capacity

(***************************************************************************)
(* The order in which TryPop returns records, one access at a time: push   *)
(* order until the first rejected push, and afterwards each record once    *)
(* and less than two laps out of order; if no push is overtaken by a lap.  *)
(***************************************************************************)
THEOREM BufferKeepsOrder ==
  MayLap = FALSE => (Spec => [](PoppedFifo /\ PoppedOnceNearlyInOrder))
<1> SUFFICES ASSUME MayLap = FALSE PROVE Spec => [](PoppedFifo /\ PoppedOnceNearlyInOrder)
  OBVIOUS
<1>1. Spec => RingProofs!RingSpec
  BY BufferIsSlotRing, SameRing, PTL
<1>2. RingProofs!RingSpec => []RingProofs!FifoUntilDrop
  BY RingConstants, RingProofs!FifoWhileNothingDropped
<1>3. RingProofs!RingSpec => []RingProofs!Queue!DeliveredOnce
  BY RingConstants, RingProofs!RingPopsOnce
<1>4. RingProofs!RingSpec => []RingProofs!Queue!BoundedDisplacement
  BY RingConstants, RingProofs!RingReordersWithinTwoLaps
<1>5. RingProofs!FifoUntilDrop => PoppedFifo
  BY DEF RingProofs!FifoUntilDrop, PoppedFifo, PoppedNames
<1>6. RingProofs!Queue!DeliveredOnce /\ RingProofs!Queue!BoundedDisplacement
        => PoppedOnceNearlyInOrder
  BY DEF RingProofs!Queue!DeliveredOnce, RingProofs!Queue!BoundedDisplacement,
     PoppedOnceNearlyInOrder, PoppedNames
<1> QED BY <1>1, <1>2, <1>3, <1>4, <1>5, <1>6, PTL

=============================================================================
