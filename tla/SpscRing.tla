------------------------------ MODULE SpscRing ------------------------------
(***************************************************************************)
(* SpscRing<T, Cap>: the ring between one thread that logs and the worker   *)
(* of the logger.  try_push and try_pop are split at their accesses to the  *)
(* two atomic indices and to the slot between them; release and acquire     *)
(* make a slot that was stored before its index visible with the index.     *)
(*                                                                         *)
(* An index is a size_t that is never masked.  It is written here as the    *)
(* bits above and below the mask: index = lap * Cap + slot, so that         *)
(* index & MASK is its slot and 2^64 = Laps * Cap.                          *)
(*                                                                         *)
(* The k-th entry that is pushed is the number k.                           *)
(***************************************************************************)
EXTENDS Naturals

CONSTANTS
    Cap,      \* CapacityPow2
    Laps,     \* 2^64 / CapacityPow2
    MaxPush   \* bound: entries pushed

ASSUME CapIsPositive == Cap \in Nat \ {0}
ASSUME LapsIsPlural == Laps \in Nat /\ Laps > 1
ASSUME MaxPushIsNat == MaxPush \in Nat

VARIABLES
    write_, read_,  \* the indices
    buf_,           \* the slots
    producer,       \* where the producer is in try_push
    consumer,       \* where the consumer is in try_pop
    out,            \* the entry that try_pop copied last
    pushed, popped  \* completed calls: the indices without their wrap-around

vars == <<write_, read_, buf_, producer, consumer, out, pushed, popped>>

Slot  == 0..(Cap - 1)
Index == [lap : 0..(Laps - 1), slot : Slot]

TypeOK ==
    /\ {write_, read_} \subseteq Index
    /\ buf_ \in [Slot -> Nat]
    /\ producer \in {"idle", "store", "publish"}
    /\ consumer \in {"idle", "load", "release"}
    /\ {out, pushed, popped} \subseteq Nat

Init ==
    /\ write_ = [lap |-> 0, slot |-> 0] /\ read_ = write_
    /\ buf_ = [s \in Slot |-> 0]
    /\ producer = "idle" /\ consumer = "idle"
    /\ out = 0 /\ pushed = 0 /\ popped = 0

(* A variant: the index does not wrap around. *)
SuccNoWrap(i) ==
    IF i.slot < Cap - 1 THEN [i EXCEPT !.slot = @ + 1]
    ELSE [lap |-> i.lap + 1, slot |-> 0]

(* i + 1, modulo 2^64. *)
Succ(i) ==
    IF i.slot < Cap - 1 THEN [i EXCEPT !.slot = @ + 1]
    ELSE [lap |-> IF i.lap = Laps - 1 THEN 0 ELSE i.lap + 1, slot |-> 0]
-----------------------------------------------------------------------------
(* try_push *)

(* A variant: no test. *)
PushUntested ==
    /\ producer = "idle" /\ pushed < MaxPush
    /\ producer' = "store"
    /\ UNCHANGED <<write_, read_, buf_, consumer, out, pushed, popped>>

(* The test for "full", n == read_; the caller counts a refusal as dropped. *)
PushTest ==
    /\ producer = "idle" /\ pushed < MaxPush
    /\ Succ(write_) # read_
    /\ producer' = "store"
    /\ UNCHANGED <<write_, read_, buf_, consumer, out, pushed, popped>>

(* A variant: the entry is stored at the index that is published. *)
PushStoreNext ==
    /\ producer = "store"
    /\ buf_' = [buf_ EXCEPT ![Succ(write_).slot] = pushed + 1]
    /\ producer' = "publish"
    /\ UNCHANGED <<write_, read_, consumer, out, pushed, popped>>

PushStore ==
    /\ producer = "store"
    /\ buf_' = [buf_ EXCEPT ![write_.slot] = pushed + 1]
    /\ producer' = "publish"
    /\ UNCHANGED <<write_, read_, consumer, out, pushed, popped>>

PushPublish ==
    /\ producer = "publish"
    /\ write_' = Succ(write_)
    /\ pushed' = pushed + 1
    /\ producer' = "idle"
    /\ UNCHANGED <<read_, buf_, consumer, out, popped>>
-----------------------------------------------------------------------------
(* try_pop *)

(* A variant: no test. *)
PopUntested ==
    /\ consumer = "idle"
    /\ consumer' = "load"
    /\ UNCHANGED <<write_, read_, buf_, producer, out, pushed, popped>>

PopTest ==
    /\ consumer = "idle"
    /\ read_ # write_
    /\ consumer' = "load"
    /\ UNCHANGED <<write_, read_, buf_, producer, out, pushed, popped>>

(* A variant: the index is advanced before the slot is copied. *)
PopLoadNext ==
    /\ consumer = "load"
    /\ out' = buf_[Succ(read_).slot]
    /\ consumer' = "release"
    /\ UNCHANGED <<write_, read_, buf_, producer, pushed, popped>>

PopLoad ==
    /\ consumer = "load"
    /\ out' = buf_[read_.slot]
    /\ consumer' = "release"
    /\ UNCHANGED <<write_, read_, buf_, producer, pushed, popped>>

PopRelease ==
    /\ consumer = "release"
    /\ read_' = Succ(read_)
    /\ popped' = popped + 1
    /\ consumer' = "idle"
    /\ UNCHANGED <<write_, buf_, producer, out, pushed>>
-----------------------------------------------------------------------------
Push == PushTest \/ PushStore \/ PushPublish
Pop  == PopTest \/ PopLoad \/ PopRelease

Next == Push \/ Pop

Spec == Init /\ [][Next]_vars

(* The worker of the logger calls try_pop again and again. *)
FairSpec == Spec /\ WF_vars(Pop)
-----------------------------------------------------------------------------
(* Properties. *)

(* Entries that were pushed and not popped; and the same with an entry that *)
(* is stored and not yet published.                                         *)
Outstanding == pushed - popped
Ahead == IF producer = "publish" THEN Outstanding + 1 ELSE Outstanding

(* While the producer is at most Cap entries ahead, the entry whose turn it *)
(* is lies in the slot that try_pop reads: entries are popped in the order  *)
(* in which they were pushed, each once.  It holds again when the consumer  *)
(* has caught up.                                                          *)
TurnIsInSlot == consumer = "load" /\ Ahead <= Cap => buf_[read_.slot] = popped + 1

(* No slot is stored while it is being copied, unless the producer is so    *)
(* far ahead.                                                              *)
NoTornRead ==
    producer = "store" /\ consumer = "load" /\ write_.slot = read_.slot =>
        Outstanding >= Cap

(* The test for "full" lets it get further ahead.  Then the overwritten     *)
(* entries are lost and newer ones are popped in their turns, but never an  *)
(* older one.                                                              *)
NeverStale ==
    /\ consumer = "release" => popped + 1 <= out
    /\ popped <= out /\ out <= pushed + 1

(* The ring is a queue, in which entries get lost only if the producer is   *)
(* too far ahead; and the consumer never takes a ring for empty that is     *)
(* not, also when the indices wrap around: every turn comes.  An entry      *)
(* counts as received when it is copied.                                   *)
Fifo == INSTANCE LossyFifo WITH
            Room <- Cap,
            begun <- IF producer = "idle" THEN pushed ELSE pushed + 1,
            sent <- pushed,
            received <- IF consumer = "release" THEN popped + 1 ELSE popped,
            last <- out
ImplementsFifo == Fifo!Spec

(* What the code calls full is the ring whose slots are all taken: no entry *)
(* is overwritten before it was popped.                                    *)
FullIsRefused == Ahead <= Cap
=============================================================================
