---------------------------- MODULE OutputStream ----------------------------
(***************************************************************************)
(* What TcpConnection::send promises: the bytes of the accepted messages    *)
(* reach the peer in the order of the calls, each once, and all of them if  *)
(* the peer goes on reading, until the connection is cut.  Messages are     *)
(* numbered in the order of the calls and consist of Size units; unit i is  *)
(* the i-th accepted.                                                      *)
(***************************************************************************)
EXTENDS Naturals, Sequences

CONSTANT Size

VARIABLES
    accepted,  \* messages
    delivered, \* units
    cut        \* something has cut the connection short

vars == <<accepted, delivered>>

Init == accepted = 0 /\ delivered = <<>>

Accept ==
    /\ accepted' = accepted + 1
    /\ UNCHANGED delivered

Deliver ==
    /\ Len(delivered) < accepted * Size
    /\ delivered' = Append(delivered, Len(delivered) + 1)
    /\ UNCHANGED accepted

SafeSpec == Init /\ [][Accept \/ Deliver]_vars
Spec     == SafeSpec /\ WF_vars(Deliver /\ ~cut)
=============================================================================
