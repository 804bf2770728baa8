---------------------------- MODULE MCTcpServer ----------------------------
(* Small instances of TcpServer for TLC. *)
EXTENDS TcpServer, TLC

(* Connections, descriptors and workers are interchangeable. *)
Symmetry == Permutations(Conn) \cup Permutations(Fd) \cup Permutations(Worker)
=============================================================================
