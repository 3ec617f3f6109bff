------------------------- MODULE MCEventLoopThread -------------------------
(* One EventLoopThread, its owner and its worker. *)
EXTENDS EventLoopThread
=============================================================================
