----------------------- MODULE MCEventLoopThreadPool -----------------------
(* A pool of up to four loops. *)
EXTENDS EventLoopThreadPool
=============================================================================
