-------------------------- MODULE EventLoopThread --------------------------
(***************************************************************************)
(* brsdk::net::EventLoopThread: a thread whose stack holds an EventLoop.   *)
(* StartLoop starts the thread and waits on a condition variable until it  *)
(* has published the loop in loop_; the destructor tells the loop to quit  *)
(* and joins the thread.  The user may destroy the object at any time      *)
(* after StartLoop, and a handler or a functor of the loop may make it     *)
(* quit by itself.  Calls on the loop and its iterations are split where   *)
(* the other thread can get in between, as in module EventLoop.            *)
(*                                                                         *)
(* A step that would use a loop, or an EventLoopThread, that no longer     *)
(* exists leaves both threads undefined, where nothing is claimed.         *)
(***************************************************************************)
EXTENDS Naturals

CONSTANTS QuitsItself,    \* whether user code in the loop may call quit
          MaxPending      \* bound on the functors waiting in the loop

ASSUME QuitsItselfAssumption == QuitsItself \in BOOLEAN
ASSUME MaxPendingAssumption  == MaxPending \in Nat

VARIABLES
  user,        \* where the thread that owns the EventLoopThread is
  worker,      \* where ThreadFunc is
  latch,       \* Thread::latch_
  waiting,     \* the user thread waits on cond_
  loop_,       \* loop_ is not null
  exiting,     \* exiting_
  result,      \* what StartLoop returned
  loop,        \* the EventLoop on the worker's stack
  quit,        \* its quit_
  wakeup,      \* its eventfd is readable
  pending,     \* length of its pending_functors_
  prepared     \* callback_ has run on it

vars == <<user, worker, latch, waiting, loop_, exiting, result, loop, quit,
          wakeup, pending, prepared>>
workerVars == <<worker, loop, prepared>>
userVars == <<user, result>>

TypeOK ==
  /\ user \in {"new", "latch", "wait", "returned", "push", "pushed", "test",
               "quit", "wake", "join", "gone", "undefined"}
  /\ worker \in {"unborn", "start", "construct", "callback", "publish", "enter",
                 "while", "poll", "read", "handle", "run", "leave", "unlock",
                 "unwind", "ended", "undefined"}
  /\ latch \in 0..1
  /\ waiting \in BOOLEAN
  /\ loop_ \in BOOLEAN
  /\ exiting \in BOOLEAN
  /\ result \in {"none", "loop", "null"}
  /\ loop \in {"none", "live", "dead"}
  /\ quit \in BOOLEAN
  /\ wakeup \in BOOLEAN
  /\ pending \in 0..MaxPending
  /\ prepared \in BOOLEAN

Init ==
  /\ user = "new"
  /\ worker = "unborn"
  /\ latch = 1
  /\ waiting = FALSE
  /\ loop_ = FALSE
  /\ exiting = FALSE
  /\ result = "none"
  /\ loop = "none"
  /\ quit = FALSE
  /\ wakeup = FALSE
  /\ pending = 0
  /\ prepared = FALSE

Undefined ==
  /\ user' = "undefined"
  /\ worker' = "undefined"
  /\ UNCHANGED <<latch, waiting, loop_, exiting, result, loop, quit, wakeup,
                 pending, prepared>>

-----------------------------------------------------------------------------
(* The user's thread. *)

(* StartLoop creates the thread and waits for its latch. *)
ThreadStart ==
  /\ user = "new"
  /\ user' = "latch"
  /\ worker' = "start"
  /\ UNCHANGED <<latch, waiting, loop_, exiting, result, loop, quit, wakeup,
                 pending, prepared>>

ThreadStarted ==
  /\ user = "latch"
  /\ latch = 0
  /\ user' = "wait"
  /\ UNCHANGED <<workerVars, latch, waiting, loop_, exiting, result, quit,
                 wakeup, pending>>

(* Faulty: StartLoop takes loop_ without waiting for it. *)
DoesNotWait == FALSE

(* Faulty: StartLoop does not look at exiting_. *)
MustWaitForLoop == ~loop_

MustWait == ~loop_ /\ ~exiting

StartLoopWait ==
  /\ user = "wait" /\ ~waiting
  /\ MustWait
  /\ waiting' = TRUE
  /\ UNCHANGED <<userVars, workerVars, latch, loop_, exiting, quit, wakeup,
                 pending>>

SpuriousWakeup ==
  /\ user = "wait" /\ waiting
  /\ waiting' = FALSE
  /\ UNCHANGED <<userVars, workerVars, latch, loop_, exiting, quit, wakeup,
                 pending>>

StartLoopReturn ==
  /\ user = "wait" /\ ~waiting
  /\ ~MustWait
  /\ result' = IF exiting THEN "null" ELSE "loop"
  /\ user' = "returned"
  /\ UNCHANGED <<workerVars, latch, waiting, loop_, exiting, quit, wakeup,
                 pending>>

(* EventLoop::wakeup, by QueueInLoop and by quit. *)
Wakeup == wakeup' = TRUE

(* The user queues a functor in the loop StartLoop returned.  quit_ is read *)
(* with no lock held; once it is set the functor runs at once.             *)
QueueFunctor ==
  /\ user = "returned" /\ result = "loop"
  /\ IF loop = "live"
     THEN /\ ~quit /\ pending < MaxPending
          /\ user' = "push"
          /\ UNCHANGED <<workerVars, latch, waiting, loop_, exiting, result,
                         quit, wakeup, pending>>
     ELSE Undefined

QueuePush ==
  /\ user = "push"
  /\ IF loop = "live"
     THEN /\ pending' = pending + 1
          /\ user' = "pushed"
          /\ UNCHANGED <<workerVars, latch, waiting, loop_, exiting, result,
                         quit, wakeup>>
     ELSE Undefined

QueueWakeup ==
  /\ user = "pushed"
  /\ IF loop = "live"
     THEN /\ Wakeup
          /\ user' = "returned"
          /\ UNCHANGED <<workerVars, latch, waiting, loop_, exiting, result,
                         quit, pending>>
     ELSE Undefined

(* ~EventLoopThread, also of one that was never started. *)
DestroyBegin ==
  /\ user \in {"new", "returned"}
  /\ exiting' = TRUE
  /\ user' = "test"
  /\ UNCHANGED <<workerVars, latch, waiting, loop_, result, quit, wakeup,
                 pending>>

(* loop_ is read without mutex_. *)
DestroyTest ==
  /\ user = "test"
  /\ user' = IF loop_ THEN "quit" ELSE "gone"
  /\ UNCHANGED <<workerVars, latch, waiting, loop_, exiting, result, quit,
                 wakeup, pending>>

(* loop_ is read again and quit_ set through it. *)
DestroyQuit ==
  /\ user = "quit"
  /\ IF loop_
     THEN /\ quit' = TRUE
          /\ user' = "wake"
          /\ UNCHANGED <<workerVars, latch, waiting, loop_, exiting, result,
                         wakeup, pending>>
     ELSE Undefined

DestroyWakeup ==
  /\ user = "wake"
  /\ IF loop = "live"
     THEN /\ Wakeup
          /\ user' = "join"
          /\ UNCHANGED <<workerVars, latch, waiting, loop_, exiting, result,
                         quit, pending>>
     ELSE Undefined

DestroyJoin ==
  /\ user = "join"
  /\ worker = "ended"
  /\ user' = "gone"
  /\ UNCHANGED <<workerVars, latch, waiting, loop_, exiting, result, quit,
                 wakeup, pending>>

-----------------------------------------------------------------------------
(* The thread it starts. *)

Step(from, to) == worker = from /\ worker' = to

CountDown ==
  /\ Step("start", "construct")
  /\ latch' = 0
  /\ UNCHANGED <<userVars, waiting, loop_, exiting, loop, quit, wakeup,
                 pending, prepared>>

Construct ==
  /\ Step("construct", "callback")
  /\ loop' = "live"
  /\ UNCHANGED <<userVars, latch, waiting, loop_, exiting, quit, wakeup,
                 pending, prepared>>

Callback ==
  /\ Step("callback", "publish")
  /\ prepared' = TRUE
  /\ UNCHANGED <<userVars, latch, waiting, loop_, exiting, loop, quit, wakeup,
                 pending>>

Publish ==
  /\ Step("publish", "enter")
  /\ loop_' = TRUE
  /\ waiting' = FALSE
  /\ UNCHANGED <<userVars, latch, exiting, loop, quit, wakeup, prepared,
                 pending>>

(* loop() clears quit_ on entry, also one that has just been set. *)
LoopEnter ==
  /\ Step("enter", "while")
  /\ quit' = FALSE
  /\ UNCHANGED <<userVars, latch, waiting, loop_, exiting, loop, wakeup,
                 pending, prepared>>

LoopTest ==
  /\ Step("while", IF quit THEN "leave" ELSE "poll")
  /\ UNCHANGED <<userVars, latch, waiting, loop_, exiting, loop, quit, wakeup,
                 pending, prepared>>

(* Poll returns when the eventfd is readable or something else happens.    *)
PollOnWakeup ==
  /\ wakeup
  /\ Step("poll", "read")
  /\ UNCHANGED <<userVars, latch, waiting, loop_, exiting, loop, quit, wakeup,
                 pending, prepared>>

PollOnEvent ==
  /\ ~wakeup
  /\ Step("poll", "handle")
  /\ UNCHANGED <<userVars, latch, waiting, loop_, exiting, loop, quit, wakeup,
                 pending, prepared>>

HandleWakeupRead ==
  /\ Step("read", "handle")
  /\ wakeup' = FALSE
  /\ UNCHANGED <<userVars, latch, waiting, loop_, exiting, loop, quit, pending,
                 prepared>>

(* An event handler or a functor calls quit.                               *)
UserCodeQuits ==
  /\ QuitsItself
  /\ worker \in {"handle", "run"}
  /\ quit' = TRUE
  /\ UNCHANGED <<userVars, workerVars, latch, waiting, loop_, exiting, wakeup,
                 pending>>

(* From the swap on the functors taken are the worker's own.               *)
SwapPending ==
  /\ Step("handle", "run")
  /\ pending' = 0
  /\ UNCHANGED <<userVars, latch, waiting, loop_, exiting, loop, quit, wakeup,
                 prepared>>

FunctorsDone ==
  /\ Step("run", "while")
  /\ UNCHANGED <<userVars, latch, waiting, loop_, exiting, loop, quit, wakeup,
                 pending, prepared>>

(* exiting_ and loop_ are members of the EventLoopThread. *)
Leave ==
  IF user # "gone"
  THEN /\ Step("leave", "unlock")
       /\ exiting' = TRUE
       /\ loop_' = FALSE
       /\ UNCHANGED <<userVars, latch, waiting, loop, quit, wakeup, pending,
                      prepared>>
  ELSE worker = "leave" /\ Undefined

(* So is the mutex the guard unlocks. *)
Unlock ==
  IF user # "gone"
  THEN /\ Step("unlock", "unwind")
       /\ UNCHANGED <<userVars, latch, waiting, loop_, exiting, loop, quit,
                      wakeup, pending, prepared>>
  ELSE worker = "unlock" /\ Undefined

(* Faulty: the destructor of the loop leaves its functors alone. *)
LeftInLoop == pending

RunByDestructor == 0

(* The loop, on the stack of ThreadFunc, is destroyed: ~EventLoop swaps the *)
(* pending functors once more and runs them.                               *)
Unwind ==
  /\ Step("unwind", "ended")
  /\ loop' = "dead"
  /\ pending' = RunByDestructor
  /\ UNCHANGED <<userVars, latch, waiting, loop_, exiting, quit, wakeup,
                 prepared>>

-----------------------------------------------------------------------------
UserStep ==
  \/ ThreadStarted \/ StartLoopWait \/ StartLoopReturn
  \/ QueuePush \/ QueueWakeup
  \/ DestroyTest \/ DestroyQuit \/ DestroyWakeup \/ DestroyJoin

WorkerStep ==
  \/ CountDown \/ Construct \/ Callback \/ Publish \/ LoopEnter
  \/ LoopTest \/ PollOnWakeup \/ HandleWakeupRead \/ SwapPending \/ FunctorsDone
  \/ Leave \/ Unlock \/ Unwind

Finished == user \in {"gone", "undefined"} /\ UNCHANGED vars

Free ==
  \/ ThreadStart \/ QueueFunctor \/ SpuriousWakeup \/ DestroyBegin
  \/ PollOnEvent \/ UserCodeQuits

Next ==
  \/ UserStep \/ WorkerStep \/ Free
  \/ Finished

Spec == Init /\ [][Next]_vars

(* Both threads run.  Nothing obliges the user to start the object, to     *)
(* queue a functor or to destroy it, the condition to wake up by itself,   *)
(* another event to reach the loop, or the loop's handlers to call quit.   *)
FairSpec ==
  /\ Spec
  /\ WF_vars(UserStep)
  /\ WF_vars(WorkerStep)

-----------------------------------------------------------------------------
(* Properties. *)

(* StartLoop hands out a loop only after the thread's callback has         *)
(* prepared it, and a null pointer only when that loop has come and gone.  *)
StartLoopHonest ==
  /\ TypeOK
  /\ result = "loop" => prepared
  /\ result = "null" => quit /\ ~loop_

(* StartLoop returns, whether the loop is still there or has quit before   *)
(* the waiting thread woke up.                                             *)
StartLoopReturns == user \in {"latch", "wait"} ~> result # "none" \/ user = "undefined"

(* A functor queued in the loop that StartLoop returned is taken by an     *)
(* iteration or, when the loop is leaving, by its destructor, even if it   *)
(* was pushed before loop() was entered, or after the last iteration had   *)
(* taken its functors by a call that saw quit_ unset.                      *)
QueuedFunctorsRun == pending > 0 ~> pending = 0 \/ user = "undefined"

(* The destructor waits for the loop to exit (event_loop_thread.cpp:49),   *)
(* and the wait ends.                                                      *)
DestructorReturns == user = "join" ~> user \in {"gone", "undefined"}

InLoop == worker \in {"while", "poll", "read", "handle", "run"}

(* The wait ends at least when loop() is past its entry before the quit.   *)
DestructorReturnsWhenLooping ==
  user = "quit" /\ InLoop ~> user \in {"gone", "undefined"}

(* Neither StartLoop nor the destructor waits for ever, as far as the code  *)
(* prevents it: see DestructorReturns.                                     *)
ThreadReturns == StartLoopReturns /\ DestructorReturnsWhenLooping
=============================================================================
