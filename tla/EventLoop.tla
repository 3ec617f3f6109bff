----------------------------- MODULE EventLoop -----------------------------
(***************************************************************************)
(* brsdk::net::EventLoop: the loop thread that polls, handles events and   *)
(* runs queued functors, and the other threads that call RunInLoop,        *)
(* QueueInLoop and quit on it.  A call is split where another thread can   *)
(* get in between: after each unprotected read of quit_, around the        *)
(* mutex-protected push_back, and before the write to the eventfd.         *)
(***************************************************************************)
EXTENDS Naturals, Sequences

CONSTANTS Clients,    \* threads other than the one that owns the loop
          Owner,      \* the thread that created the loop
          Tasks,      \* functors, each offered to the loop at most once
          NoTask      \* no functor

ASSUME ThreadsAssumption == Owner \notin Clients
ASSUME TasksAssumption   == NoTask \notin Tasks

Threads == Clients \cup {Owner}

VARIABLES
  looping,     \* looping_
  quit,        \* quit_
  calling,     \* calling_pending_functors_
  iterated,    \* iteration_ > 0: poll has returned at least once
  pending,     \* pending_functors_, guarded by mutex_
  functors,    \* the local vector of DoPendingFunctors
  wakeup,      \* the eventfd is readable
  active,      \* active_channels_: the wakeup channel and all the others
  loopPc,      \* where the owner thread is
  op,          \* where each thread is inside a call on the loop
  arg,         \* the functor each thread's call is about
  fresh,       \* functors not yet offered
  executed,    \* functors run by DoPendingFunctors, in order
  direct       \* functors run inside RunInLoop or QueueInLoop

loopVars == <<looping, calling, iterated, functors, active, loopPc>>
callVars == <<op, arg, fresh, direct>>
vars == <<looping, quit, calling, iterated, pending, functors, wakeup, active,
          loopPc, op, arg, fresh, executed, direct>>

LoopPcs == {"created", "entering", "test", "poll", "handle", "swap", "run",
            "body", "stopped", "destroyed"}
Ops == {"none", "queue", "push", "pushed", "direct", "quitting"}
Channels == {"wakeup", "io"}

TypeOK ==
  /\ looping \in BOOLEAN
  /\ quit \in BOOLEAN
  /\ calling \in BOOLEAN
  /\ iterated \in BOOLEAN
  /\ pending \in Seq(Tasks)
  /\ functors \in Seq(Tasks)
  /\ wakeup \in BOOLEAN
  /\ active \in SUBSET Channels
  /\ loopPc \in LoopPcs
  /\ op \in [Threads -> Ops]
  /\ arg \in [Threads -> Tasks \cup {NoTask}]
  /\ fresh \in SUBSET Tasks
  /\ executed \in Seq(Tasks)
  /\ direct \in SUBSET Tasks

Init ==
  /\ looping = FALSE
  /\ quit = FALSE
  /\ calling = FALSE
  /\ iterated = FALSE
  /\ pending = <<>>
  /\ functors = <<>>
  /\ wakeup = FALSE
  /\ active = {}
  /\ loopPc = "created"
  /\ op = [t \in Threads |-> "none"]
  /\ arg = [t \in Threads |-> NoTask]
  /\ fresh = Tasks
  /\ executed = <<>>
  /\ direct = {}

(* The loop exists and its destructor has not begun. *)
Alive == looping \/ loopPc \in {"created", "stopped"}

(* A client may call while the loop is alive; the owner runs user code     *)
(* before and after loop(), in an event handler and inside a functor.      *)
InUserCode(t) ==
  IF t = Owner
  THEN \/ loopPc \in {"created", "body", "stopped"}
       \/ loopPc = "handle" /\ "io" \in active
  ELSE Alive

IsInLoopThread(t) == t = Owner

-----------------------------------------------------------------------------
(* Calls on the loop, by any thread. *)

Goto(t, where) == op' = [op EXCEPT ![t] = where]

Carry(t, k) == arg' = [arg EXCEPT ![t] = k]

Offer(t, k) ==
  /\ op[t] = "none"
  /\ InUserCode(t)
  /\ k \in fresh
  /\ Carry(t, k)
  /\ fresh' = fresh \ {k}
  /\ UNCHANGED <<quit, pending, wakeup, executed, direct, loopVars>>

RunInLoop(t, k) ==
  /\ Offer(t, k)
  /\ Goto(t, IF IsInLoopThread(t) \/ quit THEN "direct" ELSE "queue")

QueueInLoop(t, k) ==
  /\ Offer(t, k)
  /\ Goto(t, "queue")

(* QueueInLoop reads quit_ with no lock held. *)
QueueTestQuit(t) ==
  /\ op[t] = "queue"
  /\ Goto(t, IF quit THEN "direct" ELSE "push")
  /\ UNCHANGED <<quit, pending, wakeup, executed, arg, fresh, direct, loopVars>>

QueuePush(t) ==
  /\ op[t] = "push"
  /\ pending' = Append(pending, arg[t])
  /\ Goto(t, "pushed")
  /\ UNCHANGED <<quit, wakeup, executed, arg, fresh, direct, loopVars>>

(* Faulty: a functor queued by a functor is left for the next event. *)
WakesUnlessInLoop(t) == ~IsInLoopThread(t)
(* Faulty: only functors queued by functors wake the loop. *)
WakesWhenCalling(t) == calling

Wakes(t) == ~IsInLoopThread(t) \/ calling

QueueWakeup(t) ==
  /\ op[t] = "pushed"
  /\ wakeup' = (wakeup \/ Wakes(t))
  /\ Goto(t, "none")
  /\ arg' = [arg EXCEPT ![t] = NoTask]
  /\ UNCHANGED <<quit, pending, executed, fresh, direct, loopVars>>

RunDirect(t) ==
  /\ op[t] = "direct"
  /\ direct' = direct \cup {arg[t]}
  /\ Goto(t, "none")
  /\ arg' = [arg EXCEPT ![t] = NoTask]
  /\ UNCHANGED <<quit, pending, wakeup, executed, fresh, loopVars>>

(* Faulty: quit only sets the flag. *)
AfterQuitNoWakeup(t) == "none"

AfterQuit(t) == IF IsInLoopThread(t) THEN "none" ELSE "quitting"

QuitSet(t) ==
  /\ op[t] = "none"
  /\ InUserCode(t)
  /\ quit' = TRUE
  /\ Goto(t, AfterQuit(t))
  /\ UNCHANGED <<pending, wakeup, executed, arg, fresh, direct, loopVars>>

QuitWakeup(t) ==
  /\ op[t] = "quitting"
  /\ wakeup' = TRUE
  /\ Goto(t, "none")
  /\ UNCHANGED <<quit, pending, executed, arg, fresh, direct, loopVars>>

-----------------------------------------------------------------------------
(* The owner thread. *)

LoopStart ==
  /\ loopPc \in {"created", "stopped"}
  /\ op[Owner] = "none"
  /\ looping' = TRUE
  /\ loopPc' = "entering"
  /\ UNCHANGED <<quit, calling, iterated, pending, functors, wakeup, active,
                 executed, callVars>>

(* A quit that another thread sets before this line is forgotten.          *)
LoopEnter ==
  /\ loopPc = "entering"
  /\ quit' = FALSE
  /\ loopPc' = "test"
  /\ UNCHANGED <<looping, calling, iterated, pending, functors, wakeup, active,
                 executed, callVars>>

LoopTest ==
  /\ loopPc = "test"
  /\ loopPc' = IF quit THEN "stopped" ELSE "poll"
  /\ looping' = ~quit
  /\ active' = {}
  /\ UNCHANGED <<quit, calling, iterated, pending, functors, wakeup, executed,
                 callVars>>

PollReturns(channels) ==
  /\ loopPc = "poll"
  /\ active' = channels
  /\ iterated' = TRUE
  /\ loopPc' = "handle"
  /\ UNCHANGED <<looping, quit, calling, pending, functors, wakeup, executed,
                 callVars>>

(* The eventfd is readable, alone or with other channels. *)
PollWakeup ==
  /\ wakeup
  /\ \E others \in SUBSET {"io"} : PollReturns({"wakeup"} \cup others)

(* Only other channels are ready, or kPollTimeMs has passed. *)
PollOther ==
  /\ ~wakeup
  /\ \E others \in SUBSET {"io"} : PollReturns(others)

HandleWakeupRead ==
  /\ loopPc = "handle"
  /\ "wakeup" \in active
  /\ op[Owner] = "none"
  /\ wakeup' = FALSE
  /\ active' = active \ {"wakeup"}
  /\ UNCHANGED <<looping, quit, calling, iterated, pending, functors, loopPc,
                 executed, callVars>>

(* The last of the other channels' handlers returns. *)
HandleOther ==
  /\ loopPc = "handle"
  /\ "io" \in active
  /\ op[Owner] = "none"
  /\ active' = active \ {"io"}
  /\ UNCHANGED <<looping, quit, calling, iterated, pending, functors, wakeup,
                 loopPc, executed, callVars>>

HandleDone ==
  /\ loopPc = "handle"
  /\ active = {}
  /\ loopPc' = "swap"
  /\ calling' = TRUE
  /\ UNCHANGED <<looping, quit, iterated, pending, functors, wakeup, active,
                 executed, callVars>>

(* Faulty: the pending functors are copied, not swapped. *)
TakeCopy == functors' = pending /\ pending' = pending

Take == functors' = pending /\ pending' = <<>>

SwapPending ==
  /\ loopPc = "swap"
  /\ Take
  /\ loopPc' = "run"
  /\ UNCHANGED <<looping, quit, calling, iterated, wakeup, active, executed,
                 callVars>>

RunFunctor ==
  /\ loopPc = "run"
  /\ functors # <<>>
  /\ executed' = Append(executed, Head(functors))
  /\ functors' = Tail(functors)
  /\ loopPc' = "body"
  /\ UNCHANGED <<looping, quit, calling, iterated, pending, wakeup, active,
                 callVars>>

FunctorReturns ==
  /\ loopPc = "body"
  /\ op[Owner] = "none"
  /\ loopPc' = "run"
  /\ UNCHANGED <<looping, quit, calling, iterated, pending, functors, wakeup,
                 active, executed, callVars>>

PendingDone ==
  /\ loopPc = "run"
  /\ functors = <<>>
  /\ calling' = FALSE
  /\ loopPc' = IF looping THEN "test" ELSE "destroyed"
  /\ UNCHANGED <<looping, quit, iterated, pending, functors, wakeup, active,
                 executed, callVars>>

(* ~EventLoop after loop() has returned, or of a loop that was never run.  *)
(* No thread may be inside a call: the object is about to go.  The wakeup  *)
(* channel is removed and the eventfd closed, then DoPendingFunctors runs  *)
(* what is left.                                                           *)
Destroy ==
  /\ loopPc \in {"created", "stopped"}
  /\ \A t \in Threads : op[t] = "none"
  /\ wakeup' = FALSE
  /\ calling' = TRUE
  /\ loopPc' = "swap"
  /\ UNCHANGED <<looping, quit, iterated, pending, functors, active, executed,
                 callVars>>

-----------------------------------------------------------------------------
InsideCall(t) ==
  \/ QueueTestQuit(t) \/ QueuePush(t) \/ QueueWakeup(t)
  \/ RunDirect(t) \/ QuitWakeup(t)

Call(t) ==
  \/ \E k \in Tasks : RunInLoop(t, k) \/ QueueInLoop(t, k)
  \/ QuitSet(t)

(* What the owner does by itself once loop() or the destructor is running. *)
LoopStep ==
  \/ LoopEnter \/ LoopTest
  \/ PollWakeup \/ HandleWakeupRead \/ HandleOther \/ HandleDone
  \/ SwapPending \/ RunFunctor \/ FunctorReturns \/ PendingDone

Finished == loopPc = "destroyed" /\ UNCHANGED vars

Next ==
  \/ \E t \in Threads : Call(t) \/ InsideCall(t)
  \/ LoopStart \/ LoopStep \/ PollOther \/ Destroy
  \/ Finished

(* A thread inside a call runs on, and so does the loop thread.  Nothing   *)
(* obliges a thread to make a call, a channel to become ready, or poll to  *)
(* time out: progress may not lean on the ten-second poll timeout.         *)
Fairness ==
  /\ \A t \in Threads : WF_vars(InsideCall(t))
  /\ WF_vars(LoopStep)

Spec == Init /\ [][Next]_vars
FairSpec == Spec /\ Fairness

-----------------------------------------------------------------------------
(* Properties. *)

(* A thread that has pushed a functor and will now write the eventfd. *)
WillWake(t) == op[t] = "pushed" /\ (t \in Clients \/ calling)

(* A functor never waits behind a poll that nobody is going to interrupt:  *)
(* when the loop is blocked with functors pending, the eventfd is readable *)
(* or a thread is about to write it.  The exception is a functor the owner *)
(* itself queued before loop(), which waits for the first poll.            *)
NoLostWakeup ==
  loopPc = "poll" /\ pending # <<>> =>
    wakeup \/ ~iterated \/ \E t \in Threads : WillWake(t)

(* A quit by another thread never waits behind a poll either. *)
NoLostQuit ==
  loopPc = "poll" /\ quit =>
    wakeup \/ \E t \in Clients : op[t] = "quitting"

(* What waits to be run.  A loop that never polled need not have been told *)
(* to quit: what a functor run by its destructor queues is not accepted,   *)
(* since nobody looks at pending_functors_ again.                          *)
Accepted ==
  IF iterated \/ Alive \/ loopPc = "swap" THEN functors \o pending
                                          ELSE functors

(* Functors run in the order they were accepted, each once, and none is    *)
(* left when the destructor has returned.                                  *)
Promise == INSTANCE TaskQueue
             WITH queue <- Accepted, done <- executed,
                  closed <- loopPc = "destroyed"
Fifo == Promise!Spec

(* A functor a client has pushed runs unless the loop stops. *)
PushedFunctorRuns ==
  \A t \in Clients, k \in Tasks :
    (op[t] = "pushed" /\ arg[t] = k) ~>
      (~looping \/ \E i \in 1..Len(executed) : executed[i] = k)

(* Once a loop that is past the entry of loop() has been told to quit,     *)
(* loop() returns.  A quit that comes earlier may be forgotten: LoopEnter. *)
QuitEndsLoop == quit /\ looping /\ loopPc # "entering" ~> ~looping
=============================================================================
