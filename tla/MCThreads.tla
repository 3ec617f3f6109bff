----------------------------- MODULE MCThreads -----------------------------
(***************************************************************************)
(* The components that run threads of their own and do not know of each    *)
(* other, in one run: a behaviour is that of one of them, the subject, and *)
(* the others stay in their initial states.  The states are the sum of     *)
(* theirs, not the product, and each property speaks of one component.     *)
(***************************************************************************)
EXTENDS EventLoopThread, ThreadPool, AsyncLogging, CoSchedule, Thpool

VARIABLE subject

threadsVars == <<subject, vars, poolVars, logVars, coVars, thVars>>

ThreadsInit ==
  /\ subject \in {"EventLoopThread", "ThreadPool", "AsyncLogging",
                 "CoSchedule", "Thpool"}
  /\ Init /\ PoolInit /\ LogInit /\ CoInit /\ ThInit

ThreadsNext ==
  /\ UNCHANGED subject
  /\ \/ /\ subject = "EventLoopThread" /\ Next
        /\ UNCHANGED <<poolVars, logVars, coVars, thVars>>
     \/ /\ subject = "ThreadPool" /\ PoolNext
        /\ UNCHANGED <<vars, logVars, coVars, thVars>>
     \/ /\ subject = "AsyncLogging" /\ LogNext
        /\ UNCHANGED <<vars, poolVars, coVars, thVars>>
     \/ /\ subject = "CoSchedule" /\ CoNext
        /\ UNCHANGED <<vars, poolVars, logVars, thVars>>
     \/ /\ subject = "Thpool" /\ ThNext
        /\ UNCHANGED <<vars, poolVars, logVars, coVars>>

(* The fairness of FairSpec, FairPoolSpec, FairLogSpec, FairCoSpec and       *)
(* FairThSpec, each asked of its subject only.                             *)
ThreadsFairness ==
  /\ WF_vars(subject = "EventLoopThread" /\ UserStep)
  /\ WF_vars(subject = "EventLoopThread" /\ WorkerStep)
  /\ WF_poolVars(subject = "ThreadPool" /\ OwnerStep)
  /\ \A t \in Threads : WF_poolVars(subject = "ThreadPool" /\ ThreadStep(t))
  /\ WF_logVars(subject = "AsyncLogging" /\ LogThread)
  /\ WF_logVars(subject = "AsyncLogging" /\ StopJoins)
  /\ WF_coVars(subject = "CoSchedule" /\ CoThread)
  /\ WF_coVars(subject = "CoSchedule" /\ StopWakes)
  /\ WF_thVars(subject = "Thpool" /\ (InitReturns \/ DestroyFrees))
  /\ WF_thVars(subject = "Thpool" /\ DestroyPosts)
  /\ \A u \in ThUsers : WF_thVars(subject = "Thpool" /\ WaitTest(u))
  /\ \A w \in ThWorkers : WF_thVars(subject = "Thpool" /\ WorkerRuns(w))

ThreadsSpec == ThreadsInit /\ [][ThreadsNext]_threadsVars /\ ThreadsFairness
=============================================================================
