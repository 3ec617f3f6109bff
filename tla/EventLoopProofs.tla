-------------------------- MODULE EventLoopProofs --------------------------
(***************************************************************************)
(* Proofs about EventLoop for every set of client threads and functors:    *)
(* type correctness, no lost wakeup, no lost quit, and that the loop       *)
(* implements TaskQueue.  Sitting on one inductive invariant, IInv.        *)
(***************************************************************************)
EXTENDS EventLoop, TLAPS

InCall(t) == op[t] \in {"queue", "push", "pushed", "direct"}

(* A call that is about a functor holds one. *)
ArgOK == \A t \in Threads : InCall(t) => arg[t] \in Tasks

(* calling_pending_functors_ is set exactly inside DoPendingFunctors. *)
CallingOK == calling <=> loopPc \in {"swap", "run", "body"}

(* looping_ is set from loop()'s entry to its return. *)
LoopingOK ==
  /\ loopPc \in {"entering", "test", "poll", "handle"} => looping
  /\ loopPc \in {"created", "stopped", "destroyed"} => ~looping

(* The owner is inside a call only where it runs user code, and its quit   *)
(* is a single step.                                                       *)
OwnerOK ==
  /\ op[Owner] # "none" => InUserCode(Owner)
  /\ op[Owner] # "quitting"

(* DoPendingFunctors' local vector is empty outside it. *)
FunctorsOK == loopPc \notin {"run", "body"} => functors = <<>>

CreatedOK == loopPc = "created" => ~iterated

(* loop() returns only after a quit, so the owner queues nothing until     *)
(* loop() starts again.  A loop that never polled may be destroyed without *)
(* a quit.                                                                 *)
StoppedOK ==
  loopPc = "stopped" \/ (~Alive /\ iterated) =>
    quit /\ op[Owner] \notin {"push", "pushed"}

(* From the destructor on there is no call by another thread, and, if the  *)
(* loop has polled, nothing is queued behind the functors being run.       *)
ClosingOK ==
  ~Alive =>
    /\ \A t \in Clients : op[t] = "none"
    /\ iterated /\ loopPc # "swap" => pending = <<>>

(* The general form of NoLostWakeup: wherever the loop is, pending         *)
(* functors are about to be swapped, or a wakeup is there or on its way.   *)
WakeupOK ==
  pending # <<>> =>
    \/ wakeup
    \/ \E t \in Threads : WillWake(t)
    \/ loopPc \in {"handle", "swap"}
    \/ ~iterated
    \/ ~Alive

IInv ==
  /\ TypeOK
  /\ ArgOK
  /\ CallingOK
  /\ LoopingOK
  /\ OwnerOK
  /\ FunctorsOK
  /\ CreatedOK
  /\ StoppedOK
  /\ ClosingOK
  /\ WakeupOK
  /\ NoLostQuit

-----------------------------------------------------------------------------
LEMMA OwnerIsThread == Owner \in Threads /\ Clients \subseteq Threads
  BY DEF Threads

(* The invariant holds when the loop has just been constructed. *)
LEMMA InitIInv == Init => IInv
<1> SUFFICES ASSUME Init PROVE IInv
  OBVIOUS
<1>1. TypeOK
  <2>1. op \in [Threads -> Ops] /\ arg \in [Threads -> Tasks \cup {NoTask}]
    BY DEF Init, Ops
  <2>2. loopPc \in LoopPcs
    BY DEF Init, LoopPcs
  <2>3. /\ pending \in Seq(Tasks) /\ functors \in Seq(Tasks)
        /\ executed \in Seq(Tasks)
    BY DEF Init
  <2>4. /\ active \in SUBSET Channels /\ fresh \in SUBSET Tasks
        /\ direct \in SUBSET Tasks
    BY DEF Init
  <2>5. /\ looping \in BOOLEAN /\ quit \in BOOLEAN /\ calling \in BOOLEAN
        /\ iterated \in BOOLEAN /\ wakeup \in BOOLEAN
    BY DEF Init
  <2> QED
    BY <2>1, <2>2, <2>3, <2>4, <2>5 DEF TypeOK
<1>2. \A t \in Threads : op[t] = "none"
  BY DEF Init
<1>3. ArgOK /\ OwnerOK
  BY <1>2, OwnerIsThread DEF Init, ArgOK, OwnerOK, InCall
<1>4. StoppedOK /\ ClosingOK
  BY DEF Init, StoppedOK, ClosingOK, Alive
<1>5. CallingOK /\ LoopingOK /\ FunctorsOK /\ CreatedOK /\ WakeupOK /\ NoLostQuit
  BY DEF Init, CallingOK, LoopingOK, FunctorsOK, CreatedOK, WakeupOK, NoLostQuit
<1> QED
  BY <1>1, <1>3, <1>4, <1>5 DEF IInv

(* Every step of a call preserves the invariant. *)
LEMMA CallIInv ==
  ASSUME IInv, NEW t \in Threads, Call(t) \/ InsideCall(t)
  PROVE  IInv'
<1> USE ThreadsAssumption, TasksAssumption, OwnerIsThread
    DEF IInv, TypeOK, ArgOK, CallingOK, LoopingOK, OwnerOK, FunctorsOK,
        CreatedOK, StoppedOK, ClosingOK, WakeupOK, WillWake, NoLostQuit,
        InCall, Alive, LoopPcs, Ops, Channels, Threads, Goto, IsInLoopThread,
        loopVars, InUserCode
<1>1. ASSUME NEW k \in Tasks, RunInLoop(t, k) PROVE IInv'
  BY <1>1 DEF RunInLoop, Offer, Carry
<1>2. ASSUME NEW k \in Tasks, QueueInLoop(t, k) PROVE IInv'
  BY <1>2 DEF QueueInLoop, Offer, Carry
<1>3. CASE QuitSet(t)
  BY <1>3 DEF QuitSet, AfterQuit
<1>4. CASE QueueTestQuit(t)
  BY <1>4 DEF QueueTestQuit
<1>5. CASE QueuePush(t)
  BY <1>5 DEF QueuePush
<1>6. CASE QueueWakeup(t)
  BY <1>6 DEF QueueWakeup, Wakes
<1>7. CASE RunDirect(t)
  BY <1>7 DEF RunDirect
<1>8. CASE QuitWakeup(t)
  BY <1>8 DEF QuitWakeup
<1> QED
  BY <1>1, <1>2, <1>3, <1>4, <1>5, <1>6, <1>7, <1>8 DEF Call, InsideCall

(* Every step of the owner thread preserves the invariant. *)
LEMMA OwnerIInv ==
  ASSUME IInv, LoopStart \/ LoopStep \/ PollOther \/ Destroy
  PROVE  IInv'
<1> USE ThreadsAssumption, TasksAssumption, OwnerIsThread
    DEF IInv, TypeOK, ArgOK, CallingOK, LoopingOK, OwnerOK, FunctorsOK,
        CreatedOK, StoppedOK, ClosingOK, WakeupOK, WillWake, NoLostQuit,
        InCall, Alive, LoopPcs, Ops, Channels, Threads, callVars, InUserCode
<1>1. CASE LoopStart
  BY <1>1 DEF LoopStart
<1>1a. CASE LoopEnter
  BY <1>1a DEF LoopEnter
<1>2. CASE LoopTest
  BY <1>2 DEF LoopTest
<1>3. CASE PollWakeup \/ PollOther
  <2>1. PICK channels \in SUBSET Channels : PollReturns(channels)
    BY <1>3 DEF PollWakeup, PollOther
  <2> QED
    BY <2>1 DEF PollReturns
<1>4. CASE HandleWakeupRead
  BY <1>4 DEF HandleWakeupRead
<1>5. CASE HandleOther
  BY <1>5 DEF HandleOther
<1>6. CASE HandleDone
  BY <1>6 DEF HandleDone
<1>7. CASE SwapPending
  BY <1>7 DEF SwapPending, Take
<1>8. CASE RunFunctor
  BY <1>8 DEF RunFunctor
<1>9. CASE FunctorReturns
  BY <1>9 DEF FunctorReturns
<1>10. CASE PendingDone
  BY <1>10 DEF PendingDone
<1>11. CASE Destroy
  BY <1>11 DEF Destroy
<1> QED
  BY <1>1, <1>1a, <1>2, <1>3, <1>4, <1>5, <1>6, <1>7, <1>8, <1>9, <1>10, <1>11
  DEF LoopStep

LEMMA NextIInv == IInv /\ [Next]_vars => IInv'
<1> SUFFICES ASSUME IInv, [Next]_vars PROVE IInv'
  OBVIOUS
<1>1. CASE UNCHANGED vars
  BY <1>1
  DEF vars, IInv, TypeOK, ArgOK, CallingOK, LoopingOK, OwnerOK, FunctorsOK,
      CreatedOK, StoppedOK, ClosingOK, WakeupOK, WillWake, NoLostQuit, InCall,
      Alive, InUserCode
<1> QED
  BY <1>1, CallIInv, OwnerIInv DEF Next, Finished

(* The strengthened invariant holds in every behaviour of the loop. *)
THEOREM Invariant == Spec => []IInv
  BY InitIInv, NextIInv, PTL DEF Spec

(* Every variable keeps its type: in particular only real functors reach   *)
(* pending_functors_.                                                      *)
THEOREM TypeCorrect == Spec => []TypeOK
  BY Invariant, PTL DEF IInv

(* No functor waits behind a poll that nobody will interrupt: the eventfd  *)
(* protocol of QueueInLoop and DoPendingFunctors loses no wakeup.          *)
THEOREM WakeupNotLost == Spec => []NoLostWakeup
<1>1. IInv => NoLostWakeup
  BY DEF IInv, LoopingOK, WakeupOK, NoLostWakeup, Alive
<1> QED
  BY <1>1, Invariant, PTL

(* No quit by another thread waits behind a poll. *)
THEOREM QuitNotLost == Spec => []NoLostQuit
  BY Invariant, PTL DEF IInv

-----------------------------------------------------------------------------
(* Appending behind a concatenation, and taking from the front of one.     *)
LEMMA ConcatAppend ==
  ASSUME NEW S, NEW f \in Seq(S), NEW p \in Seq(S), NEW k \in S
  PROVE  f \o Append(p, k) = Append(f \o p, k)
  OBVIOUS

LEMMA ConcatFront ==
  ASSUME NEW S, NEW f \in Seq(S), NEW p \in Seq(S), f # <<>>
  PROVE  /\ f \o p # <<>>
         /\ Head(f \o p) = Head(f)
         /\ Tail(f \o p) = Tail(f) \o p
  OBVIOUS

LEMMA ConcatEmpty ==
  ASSUME NEW S, NEW p \in Seq(S)
  PROVE  <<>> \o p = p /\ p \o <<>> = p
  OBVIOUS

(* Every step of the loop is a step of TaskQueue or leaves it alone.       *)
LEMMA StepRefines == IInv /\ [Next]_vars => [Promise!Next]_(Promise!tqVars)
<1> SUFFICES ASSUME IInv, [Next]_vars
             PROVE  [Promise!Next]_(Promise!tqVars)
  OBVIOUS
<1>0. pending \in Seq(Tasks) /\ functors \in Seq(Tasks)
  BY DEF IInv, TypeOK
<1>1. ASSUME NEW t \in Threads, QueuePush(t)
      PROVE  /\ arg[t] \in Tasks
             /\ Promise!Accept(arg[t]) \/ UNCHANGED Promise!tqVars
  <2>1. arg[t] \in Tasks
    BY <1>1 DEF IInv, ArgOK, InCall, QueuePush
  <2>2. functors \o pending' = Append(functors \o pending, arg[t])
    BY <1>0, <1>1, <2>1, ConcatAppend DEF QueuePush
  <2>3. loopPc # "destroyed"
    BY <1>1 DEF IInv, OwnerOK, ClosingOK, LoopingOK, Alive, InUserCode, QueuePush, Threads
  <2>4. UNCHANGED <<functors, iterated, looping, loopPc, executed, direct>>
    BY <1>1 DEF QueuePush, loopVars
  <2>5. CASE iterated \/ Alive \/ loopPc = "swap"
    <3>1. /\ Accepted = functors \o pending
          /\ Accepted' = functors \o pending'
      BY <2>4, <2>5 DEF Accepted, Alive
    <3> QED
      BY <2>1, <2>2, <2>3, <2>4, <3>1 DEF Promise!Accept
  <2>6. CASE ~(iterated \/ Alive \/ loopPc = "swap")
    <3>1. Accepted = functors /\ Accepted' = functors
      BY <2>4, <2>6 DEF Accepted, Alive
    <3> QED
      BY <2>1, <2>4, <3>1 DEF Promise!tqVars
  <2> QED
    BY <2>5, <2>6
<1>2. ASSUME NEW t \in Threads, RunDirect(t)
      PROVE  Promise!RunAtOnce(arg[t]) /\ arg[t] \in Tasks
  <2>1. arg[t] \in Tasks
    BY <1>2 DEF IInv, ArgOK, InCall, RunDirect
  <2>2. loopPc # "destroyed"
    BY <1>2 DEF IInv, OwnerOK, ClosingOK, LoopingOK, Alive, InUserCode, RunDirect, Threads
  <2> QED
    BY <1>2, <2>1, <2>2 DEF RunDirect, loopVars, Accepted, Alive, Promise!RunAtOnce
<1>3. ASSUME RunFunctor PROVE Promise!Execute
  <2>1. /\ functors \o pending # <<>>
        /\ Head(functors \o pending) = Head(functors)
        /\ Tail(functors \o pending) = Tail(functors) \o pending
    BY <1>0, <1>3, ConcatFront DEF RunFunctor
  <2>2. /\ Accepted # <<>>
        /\ Head(Accepted) = Head(functors)
        /\ Tail(Accepted) = Accepted'
    BY <1>3, <2>1 DEF RunFunctor, Accepted, Alive
  <2> QED
    BY <1>3, <2>2 DEF RunFunctor, callVars, Promise!Execute
<1>4. ASSUME SwapPending PROVE UNCHANGED Promise!tqVars
  <2>1. functors = <<>>
    BY <1>4 DEF IInv, FunctorsOK, SwapPending
  <2>2. Accepted = pending
    BY <1>0, <1>4, <2>1, ConcatEmpty DEF SwapPending, Accepted
  <2>3. functors' = pending /\ functors' \o pending' = pending
    BY <1>0, <1>4, ConcatEmpty DEF SwapPending, Take
  <2>4. Accepted' = pending
    BY <2>3 DEF Accepted
  <2> QED
    BY <1>4, <2>2, <2>4 DEF SwapPending, callVars, Promise!tqVars
<1>5. ASSUME PendingDone
      PROVE  Promise!Close \/ UNCHANGED Promise!tqVars
  <2>1. CASE looping
    BY <1>5, <2>1 DEF PendingDone, callVars, Accepted, Alive, Promise!tqVars
  <2>2. CASE ~looping
    <3>1. iterated => functors \o pending = <<>>
      BY <1>5, <2>2, ConcatEmpty DEF IInv, ClosingOK, Alive, PendingDone
    <3>2. Accepted = <<>> /\ Accepted' = <<>>
      BY <1>5, <2>2, <3>1 DEF PendingDone, Accepted, Alive
    <3> QED
      BY <1>5, <2>2, <3>2 DEF PendingDone, callVars, Promise!Close
  <2> QED
    BY <2>1, <2>2
<1>6. ASSUME NEW t \in Threads,
             \/ \E k \in Tasks : RunInLoop(t, k) \/ QueueInLoop(t, k)
             \/ QuitSet(t) \/ QueueTestQuit(t) \/ QueueWakeup(t)
             \/ QuitWakeup(t)
      PROVE  UNCHANGED Promise!tqVars
  BY <1>6 DEF RunInLoop, QueueInLoop, Offer, QuitSet, QueueTestQuit,
       QueueWakeup, QuitWakeup, loopVars, Accepted, Alive, Promise!tqVars
<1>7. ASSUME \/ LoopStart \/ LoopEnter \/ LoopTest \/ PollWakeup \/ PollOther
             \/ HandleWakeupRead \/ HandleOther \/ HandleDone
             \/ FunctorReturns \/ Destroy
      PROVE  UNCHANGED Promise!tqVars
  <2>1. /\ UNCHANGED <<functors, pending, executed, direct>>
        /\ loopPc # "destroyed" /\ loopPc' # "destroyed"
    BY <1>7
    DEF LoopStart, LoopEnter, LoopTest, PollWakeup, PollOther, PollReturns,
        HandleWakeupRead, HandleOther, HandleDone, FunctorReturns, Destroy,
        callVars
  <2>2. CASE FunctorReturns
    BY <2>1, <2>2 DEF FunctorReturns, Accepted, Alive, Promise!tqVars
  <2>3. CASE Destroy
    BY <2>1, <2>3 DEF Destroy, Accepted, Alive, Promise!tqVars
  <2>4. CASE ~FunctorReturns /\ ~Destroy
    <3>1. Alive /\ Alive'
      BY <1>7, <2>4
      DEF LoopStart, LoopEnter, LoopTest, PollWakeup, PollOther, PollReturns,
          HandleWakeupRead, HandleOther, HandleDone, Alive, IInv, LoopingOK
    <3> QED
      BY <2>1, <3>1 DEF Accepted, Promise!tqVars
  <2> QED
    BY <2>2, <2>3, <2>4
<1>8. ASSUME UNCHANGED vars PROVE UNCHANGED Promise!tqVars
  BY <1>8 DEF vars, Accepted, Alive, Promise!tqVars
<1> QED
  BY <1>1, <1>2, <1>3, <1>4, <1>5, <1>6, <1>7, <1>8
  DEF Next, Call, InsideCall, LoopStep, Finished, Promise!Next

(* The loop runs accepted functors once each, in the order they were       *)
(* accepted, and closes with none left, for any number of threads.         *)
THEOREM LoopImplementsTaskQueue == Spec => Fifo
<1>1. Init => Promise!Init
  BY ConcatEmpty DEF Init, Accepted, Alive, Promise!Init
<1> QED
  BY <1>1, StepRefines, Invariant, PTL DEF Spec, Fifo, Promise!Spec
=============================================================================
