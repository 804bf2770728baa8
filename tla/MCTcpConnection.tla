--------------------------- MODULE MCTcpConnection ---------------------------
(* The uses of a connection that TLC looks at. *)
EXTENDS TcpConnection

Use(inline, window, ends, shutdowns) ==
    [inline |-> inline, window |-> window, ends |-> ends, shutdowns |-> shutdowns]

(* start(), a peer with several messages under way, and shutdown(); start(), *)
(* a peer that may half-close at any time; startInThread(), and a peer that  *)
(* waits for each answer and closes when it has them all.                   *)
Promised == {Use(TRUE, 4, "never", TRUE), Use(TRUE, 2, "any", FALSE), Use(FALSE, 1, "answered", FALSE)}

(* startInThread(), and a peer that closes at any time. *)
ClosedEarly == {Use(FALSE, 1, "any", FALSE)}

(* startInThread(), and a peer with two messages under way. *)
Pipelined == {Use(FALSE, 2, "answered", FALSE)}
=============================================================================
