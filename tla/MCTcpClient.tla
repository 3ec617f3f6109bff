---------------------------- MODULE MCTcpClient ----------------------------
(* Delays of 2, 4 and then the limit 5; every order of four calls.         *)
EXTENDS TcpClient
=============================================================================
