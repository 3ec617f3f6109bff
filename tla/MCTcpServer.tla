---------------------------- MODULE MCTcpServer ----------------------------
(* Three clients, up to two loops, and three descriptors to share. *)
EXTENDS TcpServer
=============================================================================
