---------------------------- MODULE MCEventLoop ----------------------------
(* Two client threads and the loop's owner, with three functors.           *)
EXTENDS EventLoopProofs
=============================================================================
