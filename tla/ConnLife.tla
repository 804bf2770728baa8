------------------------------ MODULE ConnLife ------------------------------
(***************************************************************************)
(* The life of the connections of a TcpServer, as its callbacks let a user  *)
(* see it: a connection is accepted, established, disconnected, taken out   *)
(* of the server's table and destroyed, each once and in this order, and    *)
(* from the first to the last it has a descriptor for itself.               *)
(*                                                                         *)
(* TcpServer.tla, with its three kinds of threads, is the detailed          *)
(* specification that implements this one.                                 *)
(***************************************************************************)
CONSTANTS
    Conn,      \* connections
    Fd,        \* descriptors
    None       \* no descriptor

VARIABLES
    stage,     \* how far each connection is in its life
    fdOf       \* its descriptor

vars == <<stage, fdOf>>

Init ==
    /\ stage = [c \in Conn |-> "pending"]
    /\ fdOf = [c \in Conn |-> None]

Exists(c) == stage[c] \notin {"pending", "destroyed"}

Accept(c, f) ==
    /\ stage[c] = "pending"
    /\ \A d \in Conn : Exists(d) => fdOf[d] # f
    /\ stage' = [stage EXCEPT ![c] = "accepted"]
    /\ fdOf' = [fdOf EXCEPT ![c] = f]

Move(c, from, to) ==
    /\ stage[c] = from
    /\ stage' = [stage EXCEPT ![c] = to]
    /\ UNCHANGED fdOf

Establish(c)  == Move(c, "accepted", "connected")
Disconnect(c) == Move(c, "connected", "disconnected")
Remove(c)     == Move(c, "disconnected", "removed")
Destroy(c)    == Move(c, "removed", "destroyed")

Next ==
    \E c \in Conn :
        \/ \E f \in Fd : Accept(c, f)
        \/ Establish(c) \/ Disconnect(c) \/ Remove(c) \/ Destroy(c)

Spec == Init /\ [][Next]_vars
=============================================================================
