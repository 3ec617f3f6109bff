----------------------------- MODULE TaskQueue -----------------------------
(***************************************************************************)
(* What an EventLoop promises the threads that hand it functors, with no   *)
(* mention of locks, wakeups or polling: a functor that is accepted waits  *)
(* in one queue, functors run one at a time in the order they were         *)
(* accepted, a functor may instead run at once in the thread that offers   *)
(* it, and the queue closes only when nothing is left in it.               *)
(***************************************************************************)
EXTENDS Sequences

CONSTANT Tasks

VARIABLES queue,    \* accepted functors that have not run
          done,     \* accepted functors in the order they ran
          direct,   \* functors that ran in the thread that offered them
          closed    \* the executor is gone

tqVars == <<queue, done, direct, closed>>

Init ==
  /\ queue = <<>>
  /\ done = <<>>
  /\ direct = {}
  /\ closed = FALSE

Accept(k) ==
  /\ ~closed
  /\ queue' = Append(queue, k)
  /\ UNCHANGED <<done, direct, closed>>

Execute ==
  /\ ~closed
  /\ queue # <<>>
  /\ done' = Append(done, Head(queue))
  /\ queue' = Tail(queue)
  /\ UNCHANGED <<direct, closed>>

RunAtOnce(k) ==
  /\ ~closed
  /\ direct' = direct \cup {k}
  /\ UNCHANGED <<queue, done, closed>>

Close ==
  /\ queue = <<>>
  /\ closed' = TRUE
  /\ UNCHANGED <<queue, done, direct>>

Next ==
  \/ \E k \in Tasks : Accept(k) \/ RunAtOnce(k)
  \/ Execute
  \/ Close

Spec == Init /\ [][Next]_tqVars
=============================================================================
