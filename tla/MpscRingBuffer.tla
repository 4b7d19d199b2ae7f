--------------------------- MODULE MpscRingBuffer ---------------------------
(***************************************************************************)
(* The lock-free ring buffer of mpsc_ring_buffer.hpp, one step per access  *)
(* to shared memory.                                                       *)
(*                                                                         *)
(* TryPush is the steps FetchAdd, then either Overflow or FindFree,        *)
(* FillHeader, FillPayload and StoreReady.  TryPop is the steps LoadReady, *)
(* CopyHeader, CopyPayload and ClearReady; a TryPop that finds the flag    *)
(* clear changes nothing and is a stuttering step, and so is a TryPush     *)
(* that returns early because len exceeds kMaxPayloadBytes.                *)
(*                                                                         *)
(* The plain fields of a slot are in two parts, the header (topic_id,      *)
(* stamp_ns, seq, payload_len) and the payload bytes, so that a record     *)
(* torn between two pushes can be told from a whole one.  Each part holds  *)
(* the name of the record it was copied from: the index the push claimed.  *)
(*                                                                         *)
(* Steps interleave sequentially consistently.  Every inter-thread read    *)
(* of a slot's plain fields follows an acquire load of the value a release *)
(* store wrote after filling them, so in runs without a data race this is  *)
(* all that can be observed; runs with a data race (MayLap) show the mixed *)
(* fields as the torn records the race produces.                           *)
(***************************************************************************)
EXTENDS Integers, Sequences

CONSTANTS
  Capacity,  \* number of slots
  Producers, \* threads that call TryPush
  MaxClaims, \* bound on the number of pushes
  MayLap     \* may Capacity pushes start while an earlier one is under way?

ASSUME BufferAssumption ==
  /\ Capacity \in Nat \ {0}
  /\ Producers # {}
  /\ MaxClaims \in Nat
  /\ MayLap \in BOOLEAN

VARIABLES
  write_index_, read_index_, dropped_count_,
  ready,    \* ready[j]: the flag of slot j
  header,   \* header[j]: whose topic_id, stamp_ns, seq and len slot j holds
  payload,  \* payload[j]: whose payload bytes slot j holds
  pc,       \* where each producer is in TryPush
  idx,      \* the local idx of each producer
  cpc,      \* where the consumer is in TryPop
  out,      \* the PoppedRecord being filled
  popped    \* history: the records TryPop returned, in order

shared == <<write_index_, read_index_, dropped_count_>>
slots == <<ready, header, payload>>
vars == <<shared, slots, pc, idx, cpc, out, popped>>

None == -1

Slots == 0 .. Capacity - 1
SlotOf(i) == i % Capacity
MySlot(p) == SlotOf(idx[p])
HeadSlot == SlotOf(read_index_)

Pushing == {p \in Producers : pc[p] # "idle"}

Init ==
  /\ write_index_ = 0
  /\ read_index_ = 0
  /\ dropped_count_ = 0
  /\ ready = [j \in Slots |-> FALSE]
  /\ header = [j \in Slots |-> None]
  /\ payload = [j \in Slots |-> None]
  /\ pc = [p \in Producers |-> "idle"]
  /\ idx = [p \in Producers |-> None]
  /\ cpc = "idle"
  /\ out = [header |-> None, payload |-> None]
  /\ popped = <<>>

Goto(p, from, to) ==
  /\ pc[p] = from
  /\ pc' = [pc EXCEPT ![p] = to]

-----------------------------------------------------------------------------
(* TryPush *)

\* A mutant: the index is read and incremented, but not atomically enough
\* to be unique.
FetchAddNotUnique(p) ==
  /\ write_index_ < MaxClaims
  /\ MayLap \/ \A q \in Pushing : write_index_ - idx[q] < Capacity
  /\ Goto(p, "idle", "claimed")
  /\ idx' = [idx EXCEPT ![p] = write_index_]
  /\ write_index_' \in {write_index_, write_index_ + 1}
  /\ UNCHANGED <<read_index_, dropped_count_, slots, cpc, out, popped>>

FetchAdd(p) ==
  /\ write_index_ < MaxClaims
  /\ MayLap \/ \A q \in Pushing : write_index_ - idx[q] < Capacity
  /\ Goto(p, "idle", "claimed")
  /\ idx' = [idx EXCEPT ![p] = write_index_]
  /\ write_index_' = write_index_ + 1
  /\ UNCHANGED <<read_index_, dropped_count_, slots, cpc, out, popped>>

\* ready.load() saw true: the push is counted and rejected
Overflow(p) ==
  /\ Goto(p, "claimed", "idle")
  /\ ready[MySlot(p)]
  /\ dropped_count_' = dropped_count_ + 1
  /\ UNCHANGED <<write_index_, read_index_, slots, idx, cpc, out, popped>>

\* ready.load() saw false
FindFree(p) ==
  /\ Goto(p, "claimed", "header")
  /\ ~ready[MySlot(p)]
  /\ UNCHANGED <<shared, slots, idx, cpc, out, popped>>

\* A mutant: ready is stored before the payload has been copied.
FillHeaderPublishing(p) ==
  /\ Goto(p, "header", "payload")
  /\ header' = [header EXCEPT ![MySlot(p)] = idx[p]]
  /\ ready' = [ready EXCEPT ![MySlot(p)] = TRUE]
  /\ UNCHANGED <<shared, payload, idx, cpc, out, popped>>

FillHeader(p) ==
  /\ Goto(p, "header", "payload")
  /\ header' = [header EXCEPT ![MySlot(p)] = idx[p]]
  /\ UNCHANGED <<shared, ready, payload, idx, cpc, out, popped>>

FillPayload(p) ==
  /\ Goto(p, "payload", "publish")
  /\ payload' = [payload EXCEPT ![MySlot(p)] = idx[p]]
  /\ UNCHANGED <<shared, ready, header, idx, cpc, out, popped>>

StoreReady(p) ==
  /\ Goto(p, "publish", "idle")
  /\ ready' = [ready EXCEPT ![MySlot(p)] = TRUE]
  /\ UNCHANGED <<shared, header, payload, idx, cpc, out, popped>>

-----------------------------------------------------------------------------
(* TryPop, by the single consumer *)

\* A mutant: TryPop does not test the ready flag.
LoadAny ==
  /\ cpc = "idle"
  /\ read_index_ < write_index_
  /\ cpc' = "header"
  /\ UNCHANGED <<shared, slots, pc, idx, out, popped>>

LoadReady ==
  /\ cpc = "idle"
  /\ ready[HeadSlot]
  /\ cpc' = "header"
  /\ UNCHANGED <<shared, slots, pc, idx, out, popped>>

CopyHeader ==
  /\ cpc = "header"
  /\ out' = [out EXCEPT !.header = header[HeadSlot]]
  /\ cpc' = "payload"
  /\ UNCHANGED <<shared, slots, pc, idx, popped>>

CopyPayload ==
  /\ cpc = "payload"
  /\ out' = [out EXCEPT !.payload = payload[HeadSlot]]
  /\ cpc' = "release"
  /\ UNCHANGED <<shared, slots, pc, idx, popped>>

\* A mutant: the consumer moves on without clearing the flag.
ClearNothing ==
  /\ cpc = "release"
  /\ read_index_' = read_index_ + 1
  /\ popped' = Append(popped, out)
  /\ cpc' = "idle"
  /\ Len(popped) < MaxClaims + Capacity
  /\ UNCHANGED <<write_index_, dropped_count_, slots, pc, idx, out>>

ClearReady ==
  /\ cpc = "release"
  /\ ready' = [ready EXCEPT ![HeadSlot] = FALSE]
  /\ read_index_' = read_index_ + 1
  /\ popped' = Append(popped, out)
  /\ cpc' = "idle"
  /\ UNCHANGED <<write_index_, dropped_count_, header, payload, pc, idx, out>>

TryPush(p) ==
  \/ FetchAdd(p) \/ Overflow(p) \/ FindFree(p)
  \/ FillHeader(p) \/ FillPayload(p) \/ StoreReady(p)

TryPop == LoadReady \/ CopyHeader \/ CopyPayload \/ ClearReady

Next == TryPop \/ \E p \in Producers : TryPush(p)

Spec == Init /\ [][Next]_vars

-----------------------------------------------------------------------------
TypeOK ==
  /\ write_index_ \in Nat
  /\ read_index_ \in Nat
  /\ dropped_count_ \in Nat
  /\ ready \in [Slots -> BOOLEAN]
  /\ header \in [Slots -> Nat \cup {None}]
  /\ payload \in [Slots -> Nat \cup {None}]
  /\ pc \in [Producers -> {"idle", "claimed", "header", "payload", "publish"}]
  /\ idx \in [Producers -> Nat \cup {None}]
  /\ cpc \in {"idle", "header", "payload", "release"}
  /\ out \in [header : Nat \cup {None}, payload : Nat \cup {None}]
  /\ popped \in Seq([header : Nat, payload : Nat])

\* Producer p has seen its slot free and may write its plain fields.
Filling(p) == pc[p] \in {"header", "payload", "publish"}

(***************************************************************************)
(* No data race on a slot's plain fields: two producers never fill the     *)
(* same slot, and no producer fills the slot the consumer is copying.      *)
(***************************************************************************)
SlotExclusive ==
  /\ \A p, q \in Producers :
       (Filling(p) /\ Filling(q) /\ MySlot(p) = MySlot(q)) => p = q
  /\ \A p \in Producers :
       (Filling(p) /\ cpc # "idle") => MySlot(p) # HeadSlot

(***************************************************************************)
(* A record TryPop hands to the writer thread is one that was pushed, with *)
(* its own header and its own payload: "the consumer knows when a slot's   *)
(* payload is safe to read" (mpsc_ring_buffer.hpp).                        *)
(***************************************************************************)
PoppedIntact ==
  \A i \in DOMAIN popped :
    /\ popped[i].header = popped[i].payload
    /\ popped[i].header \in 0 .. write_index_ - 1

(***************************************************************************)
(* The ring as its users see it: a step that stores the ready flag is the  *)
(* publication, the step that clears it is the pop.                        *)
(***************************************************************************)
Coarse == INSTANCE SlotRing WITH
  slots_ <- [j \in Slots |-> IF ready[j] THEN header[j] ELSE None],
  claim <- [p \in Producers |-> IF pc[p] = "idle" THEN None ELSE idx[p]],
  popped <- [i \in DOMAIN popped |-> popped[i].header]

ImplementsSlotRing == Coarse!RingSpec

=============================================================================
