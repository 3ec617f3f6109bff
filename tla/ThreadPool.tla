----------------------------- MODULE ThreadPool -----------------------------
(***************************************************************************)
(* brsdk::thread::ThreadPool: workers that take tasks from a bounded queue *)
(* under one mutex with two conditions, notEmpty_ and notFull_, and the    *)
(* callers of run.  A task is opaque, but it may itself call run.          *)
(*                                                                         *)
(* What is done under the mutex is one step, up to a wait or the unlock.   *)
(* A waiting thread that is woken tests its condition again when it gets   *)
(* the mutex, whatever has happened since.                                 *)
(***************************************************************************)
EXTENDS Integers, FiniteSets, Sequences

CONSTANTS PoolSize,       \* bound on the numThreads of start
          Callers,        \* the threads that call run
          Tasks,          \* what they run; each is offered once
          NoTask,         \* the empty std::function
          MaxQueueSize    \* maxQueueSize_, 0 if the queue is unbounded

Workers == 1..PoolSize
Threads == Workers \cup Callers

ASSUME ThreadPoolAssumption ==
  /\ PoolSize \in Nat
  /\ MaxQueueSize \in Nat
  /\ Callers \cap Int = {} /\ IsFiniteSet(Callers)
  /\ NoTask \notin Tasks

VARIABLES
  owner,       \* what the thread that starts and stops the pool does
  running,     \* running_
  started,     \* threads_.size()
  waitQueue,   \* queue_
  at,          \* where each thread is
  body,        \* the task a worker, or a caller of an empty pool, runs
  arg,         \* the argument of the run a thread is in
  offered,     \* the tasks that have been passed to run
  begun        \* how often each task was begun

poolVars ==
  <<owner, running, started, waitQueue, at, body, arg, offered, begun>>

(* "put" and "take" are about to lock the mutex, "notFull" and "notEmpty"  *)
(* wait; "test" is the loop of runInThread.                                *)
Places == {"off", "test", "take", "notEmpty", "work", "done",
           "idle", "call", "put", "notFull"}

PoolTypeOK ==
  /\ owner \in {"new", "starting", "started", "joining", "stopped"}
  /\ running \in BOOLEAN
  /\ started \in 0..PoolSize
  /\ waitQueue \in Seq(Tasks)
  /\ at \in [Threads -> Places]
  /\ body \in [Threads -> Tasks \cup {NoTask}]
  /\ arg \in [Threads -> Tasks \cup {NoTask}]
  /\ offered \subseteq Tasks
  /\ begun \in [Tasks -> Nat]

PoolInit ==
  /\ owner = "new"
  /\ running = FALSE
  /\ started = 0
  /\ waitQueue = <<>>
  /\ at = [t \in Threads |-> IF t \in Callers THEN "idle" ELSE "off"]
  /\ body = [t \in Threads |-> NoTask]
  /\ arg = [t \in Threads |-> NoTask]
  /\ offered = {}
  /\ begun = [k \in Tasks |-> 0]

IsFull == MaxQueueSize > 0 /\ Len(waitQueue) >= MaxQueueSize

Waiting(place) == {t \in Threads : at[t] = place}

(* Condition::notify wakes one of the threads that wait, if there is one.   *)
Notify(pcs, from, to) ==
  LET waiters == {t \in Threads : pcs[t] = from} IN
  IF waiters = {} THEN {pcs} ELSE {[pcs EXCEPT ![t] = to] : t \in waiters}

NotifyAll(pcs) ==
  [t \in Threads |-> CASE pcs[t] = "notEmpty" -> "take"
                       [] pcs[t] = "notFull" -> "put"
                       [] OTHER -> pcs[t]]

-----------------------------------------------------------------------------
(* The owner: start, with any number of threads, which are added one by     *)
(* one, and then stop.                                                     *)

StartPool ==
  /\ owner = "new"
  /\ owner' = "starting"
  /\ running' = TRUE
  /\ UNCHANGED <<started, waitQueue, at, body, arg, offered, begun>>

StartWorker ==
  /\ owner = "starting"
  /\ \/ /\ started < PoolSize
        /\ started' = started + 1
        /\ at' = [at EXCEPT ![started + 1] = "test"]
        /\ UNCHANGED owner
     \/ owner' = "started" /\ UNCHANGED <<started, at>>
  /\ UNCHANGED <<running, waitQueue, body, arg, offered, begun>>

(* Faulty: the callers of run are not woken. *)
NotifyWorkers(pcs) ==
  [t \in Threads |-> IF pcs[t] = "notEmpty" THEN "take" ELSE pcs[t]]

NotifyStopped(pcs) == NotifyAll(pcs)

StopPool ==
  /\ owner = "started"
  /\ owner' = "joining"
  /\ running' = FALSE
  /\ at' = NotifyStopped(at)
  /\ UNCHANGED <<started, waitQueue, body, arg, offered, begun>>

JoinPool ==
  /\ owner = "joining"
  /\ \A w \in 1..started : at[w] = "done"
  /\ owner' = "stopped"
  /\ UNCHANGED <<running, started, waitQueue, at, body, arg, offered, begun>>

-----------------------------------------------------------------------------
(* run, of a caller or of a task that runs in a worker. *)

CanCall(t) == at[t] = "idle" \/ (at[t] = "work" /\ t \in Workers)

(* threads_.empty() is read without the mutex. *)
Call(t) ==
  /\ CanCall(t)
  /\ \E k \in Tasks \ offered :
       /\ offered' = offered \cup {k}
       /\ IF started = 0
          THEN /\ body' = [body EXCEPT ![t] = k]
               /\ begun' = [begun EXCEPT ![k] = @ + 1]
               /\ at' = [at EXCEPT ![t] = "work"]
               /\ UNCHANGED arg
          ELSE /\ arg' = [arg EXCEPT ![t] = k]
               /\ at' = [at EXCEPT ![t] = "put"]
               /\ UNCHANGED <<body, begun>>
  /\ UNCHANGED <<owner, running, started, waitQueue>>

(* run returns, to the caller or to the task that called it. *)
Back(t) == IF t \in Workers THEN "work" ELSE "idle"

(* Faulty: the caller does not wait once more. *)
PutsAnyway == FALSE

MustWaitFull == IsFull /\ running

(* Faulty: a worker is woken only when the queue was empty, as if one       *)
(* notify would do for several tasks.                                      *)
NotifyFirst(pcs) ==
  IF waitQueue = <<>> THEN Notify(pcs, "notEmpty", "take") ELSE {pcs}

NotifyNotEmpty(pcs) == Notify(pcs, "notEmpty", "take")

Put(t) ==
  /\ at[t] = "put"
  /\ IF MustWaitFull
     THEN at' = [at EXCEPT ![t] = "notFull"] /\ UNCHANGED <<waitQueue, arg>>
     ELSE /\ arg' = [arg EXCEPT ![t] = NoTask]
          /\ IF running
             THEN /\ waitQueue' = Append(waitQueue, arg[t])
                  /\ at' \in NotifyNotEmpty([at EXCEPT ![t] = Back(t)])
             ELSE at' = [at EXCEPT ![t] = Back(t)] /\ UNCHANGED waitQueue
  /\ UNCHANGED <<owner, running, started, body, offered, begun>>

-----------------------------------------------------------------------------
(* runInThread and take. *)

(* running_ is read without the mutex. *)
TestRunning(w) ==
  /\ at[w] = "test"
  /\ at' = [at EXCEPT ![w] = IF running THEN "take" ELSE "done"]
  /\ UNCHANGED <<owner, running, started, waitQueue, body, arg, offered, begun>>

Take(w) ==
  /\ at[w] = "take"
  /\ IF waitQueue = <<>>
     THEN /\ at' = [at EXCEPT ![w] = IF running THEN "notEmpty" ELSE "test"]
          /\ UNCHANGED <<waitQueue, body, begun>>
     ELSE LET k   == Head(waitQueue)
              pcs == [at EXCEPT ![w] = "work"]
          IN /\ waitQueue' = Tail(waitQueue)
             /\ body' = [body EXCEPT ![w] = k]
             /\ begun' = [begun EXCEPT ![k] = @ + 1]
             /\ at' \in IF MaxQueueSize > 0 THEN Notify(pcs, "notFull", "put")
                        ELSE {pcs}
  /\ UNCHANGED <<owner, running, started, arg, offered>>

(* The task returns. *)
FinishTask(t) ==
  /\ at[t] = "work"
  /\ body[t] # NoTask
  /\ body' = [body EXCEPT ![t] = NoTask]
  /\ at' = [at EXCEPT ![t] = IF t \in Workers THEN "test" ELSE "idle"]
  /\ UNCHANGED <<owner, running, started, waitQueue, arg, offered, begun>>

SpuriousWake(t) ==
  /\ at[t] \in {"notEmpty", "notFull"}
  /\ at' = [at EXCEPT ![t] = IF @ = "notEmpty" THEN "take" ELSE "put"]
  /\ UNCHANGED <<owner, running, started, waitQueue, body, arg, offered, begun>>

-----------------------------------------------------------------------------
OwnerStep == StartPool \/ StartWorker \/ JoinPool
ThreadStep(t) == Put(t) \/ TestRunning(t) \/ Take(t) \/ FinishTask(t)

PoolFinished ==
  /\ owner = "stopped" /\ \A t \in Callers : at[t] = "idle"
  /\ UNCHANGED poolVars

PoolNext ==
  \/ OwnerStep \/ StopPool \/ PoolFinished
  \/ \E t \in Threads : Call(t) \/ SpuriousWake(t) \/ ThreadStep(t)

PoolSpec == PoolInit /\ [][PoolNext]_poolVars

(* Threads run, the mutex is fair, and tasks end. *)
PoolFairness ==
  /\ WF_poolVars(OwnerStep)
  /\ \A t \in Threads : WF_poolVars(ThreadStep(t))

FairPoolSpec == PoolSpec /\ PoolFairness

-----------------------------------------------------------------------------
(* Properties. *)

(* One notify for each push and each pop is enough: while a worker sleeps,  *)
(* as many workers are on their way to the queue as there are tasks in it, *)
(* and while a caller sleeps, as many callers as there are free places.    *)
NobodySleepsOnWork ==
  /\ Waiting("notEmpty") # {} => Len(waitQueue) <= Cardinality(Waiting("take"))
  /\ Waiting("notFull") # {} =>
       MaxQueueSize - Len(waitQueue) <= Cardinality(Waiting("put"))

(* The queue never grows beyond its limit, and every task that has been     *)
(* offered is in one place: with the thread that offers it, in the queue,  *)
(* begun once, or dropped because the pool had been stopped.               *)
TasksAccounted ==
  /\ MaxQueueSize > 0 => Len(waitQueue) <= MaxQueueSize
  /\ \A k \in offered :
       LET places == Cardinality({t \in Threads : arg[t] = k})
                     + Cardinality({i \in DOMAIN waitQueue : waitQueue[i] = k})
                     + begun[k]
       IN places = 1 \/ (~running /\ places = 0)

(* The queue is sound: what goes in comes out once, and notify wakes enough *)
(* threads.                                                                *)
PoolSound == PoolTypeOK /\ TasksAccounted /\ NobodySleepsOnWork

(* Every worker is inside a task that waits for a place in the queue. *)
Jammed == \A w \in 1..started : at[w] = "notFull"

(* A task that waits in the queue is begun, unless the pool is stopped, or  *)
(* all its workers run tasks that wait in run for a place in the queue:    *)
(* then nobody is left to make one.                                        *)
TasksBegin ==
  \A k \in Tasks :
    k \in {waitQueue[i] : i \in DOMAIN waitQueue}
      ~> begun[k] > 0 \/ ~running \/ Jammed

(* stop returns, even if the pool is jammed, and nobody stays in run. *)
StopFreesAll ==
  owner = "joining" ~> owner = "stopped" /\ \A t \in Threads : at[t] # "notFull"

(* Nobody waits for the pool for ever, before stop or after it. *)
PoolProgress == TasksBegin /\ StopFreesAll
=============================================================================
