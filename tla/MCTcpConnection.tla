-------------------------- MODULE MCTcpConnection --------------------------
(* Two-unit messages, so that a write may be partial; one message of each  *)
(* sender.                                                                 *)
EXTENDS TcpConnection

MCMaxSends == [s \in Senders |-> 1]
=============================================================================
