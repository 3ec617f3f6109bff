------------------------------- MODULE Thpool -------------------------------
(***************************************************************************)
(* thpool (thread/thpool.cpp): workers that are woken through a binary     *)
(* semaphore, however many jobs the queue holds, thpool_wait, which sleeps *)
(* until all is done, and thpool_destroy, when nobody is inside another    *)
(* call on the pool.                                                       *)
(*                                                                         *)
(* What is done under one mutex is one step, but for the last: a worker    *)
(* that leaves counts itself out before it unlocks thcount_lock, and       *)
(* thpool_destroy, which reads the count without the lock, may have freed  *)
(* the pool by then.  The stage is undefined after such an unlock.         *)
(*                                                                         *)
(* thpool_pause makes a thread stop anywhere until thpool_resume, as any   *)
(* thread may that gets no time; it is left out.                           *)
(***************************************************************************)
EXTENDS Integers, FiniteSets, Sequences

CONSTANTS ThWorkers,      \* thpool_p->threads
          ThUsers,        \* the threads that call thpool_wait
          Jobs,           \* each is added once
          NoJob,          \* a null job
          Nobody          \* not one of ThUsers

ASSUME ThpoolAssumption ==
  /\ NoJob \notin Jobs /\ Nobody \notin ThUsers
  /\ IsFiniteSet(ThWorkers)

VARIABLES
  stage,        \* where thpool_init and thpool_destroy are
  keepAlive,    \* threads_keepalive
  alive,        \* num_threads_alive
  working,      \* num_threads_working
  jobqueue,     \* the jobs, front first
  hasJobs,      \* the binary semaphore is 1
  place,        \* where each worker is in thread_do
  job,          \* job_p of each worker
  waiter,       \* where each user is in thpool_wait
  added,        \* the jobs that were added
  ran,          \* how often each job was run
  signalled     \* the user threads_all_idle was signalled to since the last
                \* one fell asleep

queueVars == <<jobqueue, hasJobs, added>>
thVars == <<stage, keepAlive, alive, working, queueVars, place, job, waiter, ran,
            signalled>>

ThTypeOK ==
  /\ stage \in {"init", "using", "destroying", "destroyed", "undefined"}
  /\ keepAlive \in BOOLEAN /\ hasJobs \in BOOLEAN
  /\ alive \in Nat /\ working \in Nat
  /\ jobqueue \in Seq(Jobs) /\ added \subseteq Jobs
  /\ place \in [ThWorkers -> {"new", "test", "wait", "asleep", "recheck",
                              "count", "pull", "run", "uncount", "leave", "unlock",
                              "gone"}]
  /\ job \in [ThWorkers -> Jobs \cup {NoJob}]
  /\ waiter \in [ThUsers -> {"out", "wait", "asleep"}]
  /\ ran \in [Jobs -> Nat]
  /\ signalled \in ThUsers \cup {Nobody}

ThInit ==
  /\ stage = "init"
  /\ keepAlive = TRUE
  /\ alive = 0 /\ working = 0
  /\ jobqueue = <<>> /\ hasJobs = FALSE /\ added = {}
  /\ place = [w \in ThWorkers |-> "new"]
  /\ job = [w \in ThWorkers |-> NoJob]
  /\ waiter = [u \in ThUsers |-> "out"]
  /\ ran = [j \in Jobs |-> 0]
  /\ signalled = Nobody

Freed == stage \in {"destroyed", "undefined"}

Asleep == {w \in ThWorkers : place[w] = "asleep"}

(* bsem_post: the semaphore is set and one of those that wait is woken.     *)
BsemPost(p) ==
  /\ hasJobs' = TRUE
  /\ IF Asleep = {} THEN place' = p
     ELSE \E w \in Asleep : place' = [p EXCEPT ![w] = "wait"]

BsemPostAll ==
  /\ hasJobs' = TRUE
  /\ place' = [w \in ThWorkers |-> IF w \in Asleep THEN "wait" ELSE place[w]]

-----------------------------------------------------------------------------
(* The users of the pool. *)

(* thpool_init returns when all threads are alive. *)
InitReturns ==
  /\ stage = "init" /\ alive = Cardinality(ThWorkers)
  /\ stage' = "using"
  /\ UNCHANGED <<keepAlive, alive, working, queueVars, place, job, waiter, ran,
                 signalled>>

(* By a user, or by a job. *)
AddWork ==
  /\ \/ stage = "using"
     \/ \E w \in ThWorkers : place[w] = "run"
  /\ \E j \in Jobs \ added :
        added' = added \cup {j} /\ jobqueue' = Append(jobqueue, j)
  /\ BsemPost(place)
  /\ UNCHANGED <<stage, keepAlive, alive, working, job, waiter, ran, signalled>>

WaitBegin(u) ==
  /\ stage = "using" /\ waiter[u] = "out"
  /\ waiter' = [waiter EXCEPT ![u] = "wait"]
  /\ UNCHANGED <<stage, keepAlive, alive, working, queueVars, place, job, ran,
                 signalled>>

Busy == jobqueue # <<>> \/ working > 0

(* jobqueue.len is read without the mutex of the queue. *)
WaitTest(u) ==
  /\ waiter[u] = "wait"
  /\ waiter' = [waiter EXCEPT ![u] = IF Busy THEN "asleep" ELSE "out"]
  /\ signalled' = IF Busy THEN Nobody ELSE signalled
  /\ UNCHANGED <<stage, keepAlive, alive, working, queueVars, place, job, ran>>

DestroyPool ==
  /\ stage = "using" /\ \A u \in ThUsers : waiter[u] = "out"
  /\ stage' = "destroying"
  /\ keepAlive' = FALSE
  /\ UNCHANGED <<alive, working, queueVars, place, job, waiter, ran, signalled>>

(* The semaphore is posted again and again while a thread is alive.         *)
DestroyPosts ==
  /\ stage = "destroying" /\ alive > 0
  /\ BsemPostAll
  /\ UNCHANGED <<stage, keepAlive, alive, working, jobqueue, added, job, waiter,
                 ran, signalled>>

DestroyFrees ==
  /\ stage = "destroying" /\ alive = 0
  /\ stage' = "destroyed"
  /\ jobqueue' = <<>> /\ hasJobs' = FALSE
  /\ UNCHANGED <<keepAlive, alive, working, added, place, job, waiter, ran,
                 signalled>>

-----------------------------------------------------------------------------
(* thread_do. *)

(* No leaving worker holds thcount_lock. *)
ThcountFree == \A w \in ThWorkers : place[w] # "unlock"

(* w goes on from one place to another. *)
Go(w, from, to) == place[w] = from /\ place' = [place EXCEPT ![w] = to]

MarkAlive(w) ==
  /\ Go(w, "new", "test")
  /\ alive' = alive + 1
  /\ UNCHANGED <<stage, keepAlive, working, queueVars, job, waiter, ran, signalled>>

(* threads_keepalive, which is tested before bsem_wait and after it. *)
TestKeepAlive(w) ==
  /\ \/ Go(w, "test", IF keepAlive THEN "wait" ELSE "leave")
     \/ Go(w, "recheck", IF keepAlive THEN "count" ELSE "test")
  /\ UNCHANGED <<stage, keepAlive, alive, working, queueVars, job, waiter, ran,
                 signalled>>

BsemWait(w) ==
  /\ Go(w, "wait", IF hasJobs THEN "recheck" ELSE "asleep")
  /\ hasJobs' = FALSE
  /\ UNCHANGED <<stage, keepAlive, alive, working, jobqueue, added, job, waiter,
                 ran, signalled>>

CountWorking(w) ==
  /\ ThcountFree
  /\ Go(w, "count", "pull")
  /\ working' = working + 1
  /\ UNCHANGED <<stage, keepAlive, alive, queueVars, job, waiter, ran, signalled>>

(* Faulty: the semaphore is not posted for the jobs that are left.          *)
NeverReposts == FALSE

Reposts == Len(jobqueue) > 1

JobqueuePull(w) ==
  /\ \/ /\ jobqueue = <<>>
        /\ Go(w, "pull", "uncount")
        /\ UNCHANGED <<jobqueue, hasJobs, job>>
     \/ /\ jobqueue # <<>> /\ place[w] = "pull"
        /\ job' = [job EXCEPT ![w] = Head(jobqueue)]
        /\ jobqueue' = Tail(jobqueue)
        /\ IF Reposts THEN BsemPost([place EXCEPT ![w] = "run"])
           ELSE Go(w, "pull", "run") /\ UNCHANGED hasJobs
  /\ UNCHANGED <<stage, keepAlive, alive, working, added, waiter, ran, signalled>>

RunJob(w) ==
  /\ Go(w, "run", "uncount")
  /\ ran' = [ran EXCEPT ![job[w]] = @ + 1]
  /\ job' = [job EXCEPT ![w] = NoJob]
  /\ UNCHANGED <<stage, keepAlive, alive, working, queueVars, waiter, signalled>>

(* pthread_cond_signal, not a broadcast: one of those that wait is woken.   *)
SignalAllIdle ==
  IF \A u \in ThUsers : waiter[u] # "asleep" THEN UNCHANGED <<waiter, signalled>>
  ELSE \E u \in ThUsers :
         /\ waiter[u] = "asleep"
         /\ waiter' = [waiter EXCEPT ![u] = "wait"]
         /\ signalled' = u

CountIdle(w) ==
  /\ ThcountFree
  /\ Go(w, "uncount", "test")
  /\ working' = working - 1
  /\ IF working = 1 THEN SignalAllIdle ELSE UNCHANGED <<waiter, signalled>>
  /\ UNCHANGED <<stage, keepAlive, alive, queueVars, job, ran>>

LeavePool(w) ==
  /\ ThcountFree
  /\ Go(w, "leave", "unlock")
  /\ alive' = alive - 1
  /\ UNCHANGED <<stage, keepAlive, working, queueVars, job, waiter, ran, signalled>>

UnlockThcount(w) ==
  /\ Go(w, "unlock", "gone")
  /\ stage' = IF Freed THEN "undefined" ELSE stage
  /\ UNCHANGED <<keepAlive, alive, working, queueVars, job, waiter, ran, signalled>>

ThSpuriousWake ==
  /\ \/ /\ \E w \in ThWorkers : Go(w, "asleep", "wait")
        /\ UNCHANGED waiter
     \/ /\ \E u \in ThUsers :
             waiter[u] = "asleep" /\ waiter' = [waiter EXCEPT ![u] = "wait"]
        /\ UNCHANGED place
  /\ UNCHANGED <<stage, keepAlive, alive, working, queueVars, job, ran,
                 signalled>>

-----------------------------------------------------------------------------
WorkerRuns(w) ==
  \/ MarkAlive(w) \/ TestKeepAlive(w) \/ BsemWait(w) \/ CountWorking(w)
  \/ JobqueuePull(w) \/ RunJob(w) \/ CountIdle(w)
  \/ LeavePool(w) \/ UnlockThcount(w)

OwnerRuns == InitReturns \/ DestroyPosts \/ DestroyFrees

ThFinished == Freed /\ UNCHANGED thVars

ThNext ==
  \/ OwnerRuns \/ AddWork \/ DestroyPool \/ ThSpuriousWake
  \/ \E u \in ThUsers : WaitBegin(u) \/ WaitTest(u)
  \/ \E w \in ThWorkers : WorkerRuns(w)
  \/ ThFinished

ThSpec == ThInit /\ [][ThNext]_thVars

(* Threads run, and jobs end. *)
ThFairness ==
  /\ WF_thVars(InitReturns \/ DestroyFrees) /\ WF_thVars(DestroyPosts)
  /\ \A u \in ThUsers : WF_thVars(WaitTest(u))
  /\ \A w \in ThWorkers : WF_thVars(WorkerRuns(w))

FairThSpec == ThSpec /\ ThFairness

-----------------------------------------------------------------------------
(* Properties. *)

(* The semaphore counts to one, the queue further: while the pool lives and *)
(* there are jobs, it is set, or a worker is on its way to the queue, who  *)
(* posts it again for those that are left (thpool.cpp:480-481).  Jobs are  *)
(* added and run once, and the count that thpool_wait trusts is that of    *)
(* the workers who hold a job or may still take one.                       *)
JobsAwaited ==
  /\ jobqueue # <<>> /\ keepAlive =>
       hasJobs \/ \E w \in ThWorkers : place[w] \in {"recheck", "count", "pull"}
  /\ \A j \in added :
       LET places == Cardinality({w \in ThWorkers : job[w] = j})
                     + Cardinality({i \in DOMAIN jobqueue : jobqueue[i] = j})
                     + ran[j]
       IN places = 1 \/ (Freed /\ places = 0)
  /\ working = Cardinality({w \in ThWorkers :
                              place[w] \in {"pull", "run", "uncount"}})

(* What a user of the pool sleeps on comes: jobs that wait are taken or     *)
(* thrown away, a user in thpool_wait is woken, or another one is in its   *)
(* place, and thpool_destroy returns.                                      *)
UsersServed ==
  /\ \A j \in Jobs :
       j \in {jobqueue[i] : i \in DOMAIN jobqueue}
         ~> stage = "destroyed" \/ \A i \in DOMAIN jobqueue : jobqueue[i] # j
  /\ \A u \in ThUsers :
       waiter[u] = "asleep" ~> waiter[u] # "asleep" \/ signalled \notin {u, Nobody}
  /\ stage = "destroying" ~> stage = "destroyed"

ThpoolSound == [](ThTypeOK /\ JobsAwaited) /\ UsersServed
=============================================================================
