------------------------------ MODULE LossyFifo ------------------------------
(***************************************************************************)
(* What the ring between a thread that logs and the worker of the logger    *)
(* promises: the k-th try_pop that succeeds returns the k-th entry that was  *)
(* pushed, as long as no more than Room entries are under way, the one      *)
(* counted that is being stored.  Beyond that an entry that was pushed      *)
(* later may come in its place, and the pushes never fail.                  *)
(*                                                                         *)
(* SpscRing.tla is the detailed specification that implements this one;     *)
(* AsyncLogger.tla, in which a ring is a number of records, relies on it.   *)
(***************************************************************************)
EXTENDS Naturals

CONSTANT Room   \* the capacity of the ring

VARIABLES
    begun,      \* entries whose push has begun
    sent,       \* entries whose push has succeeded
    received,   \* entries that were copied out
    last        \* the number of the entry that was copied last

vars == <<begun, sent, received, last>>

Init == begun = 0 /\ sent = 0 /\ received = 0 /\ last = 0

Begin ==
    /\ begun = sent
    /\ begun' = begun + 1
    /\ UNCHANGED <<sent, received, last>>

Send ==
    /\ sent < begun
    /\ sent' = begun
    /\ UNCHANGED <<begun, received, last>>

Receive ==
    /\ received < sent
    /\ received' = received + 1
    /\ IF begun - received <= Room THEN last' = received' ELSE last' \in received'..begun
    /\ UNCHANGED <<begun, sent>>

(* The reader comes back as long as there is something to read. *)
SafeSpec == Init /\ [][Begin \/ Send \/ Receive]_vars
Spec     == SafeSpec /\ WF_vars(Receive)
=============================================================================
