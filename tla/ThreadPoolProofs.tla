-------------------------- MODULE ThreadPoolProofs --------------------------
(***************************************************************************)
(* Proofs about ThreadPool for every number of workers, callers and tasks  *)
(* and every limit of the queue: one notify for each push and each pop is  *)
(* enough, and no task is lost or run twice.  The invariant IInv counts    *)
(* the threads at each place, says what the owner has done so far, and     *)
(* where each task is.                                                     *)
(***************************************************************************)
EXTENDS ThreadPool, FiniteSetTheorems, TLAPS

(* How many threads are at a place. *)
At(pcs, place) == {t \in Threads : pcs[t] = place}
Number(pcs, place) == Cardinality(At(pcs, place))

(* The general form of NobodySleepsOnWork: nobody sleeps when the pool does *)
(* not run, since stop has woken all, and a test of running_ follows.      *)
SleepersOK ==
  /\ Number(at, "notEmpty") > 0 =>
       running /\ Len(waitQueue) <= Number(at, "take")
  /\ Number(at, "notFull") > 0 =>
       running /\ MaxQueueSize > 0 /\ MaxQueueSize - Len(waitQueue) <= Number(at, "put")

(* A thread that is in run and has not left its task yet has one. *)
ArgOK == \A t \in Threads : arg[t] # NoTask <=> at[t] \in {"put", "notFull"}

(* running_ is set from the beginning of start to that of stop, threads     *)
(* that are not in threads_ have not begun, and before start a task is run *)
(* by its caller.                                                          *)
OwnerOK ==
  /\ owner = "new" => started = 0 /\ \A t \in Threads : arg[t] = NoTask
  /\ running <=> owner \in {"starting", "started"}
  /\ \A w \in Workers : w > started => at[w] = "off"

QueueOK == MaxQueueSize > 0 => Len(waitQueue) <= MaxQueueSize

NotIn(q, k) == \A i \in 1 .. Len(q) : q[i] # k
OnceIn(q, k) ==
  \E i \in 1 .. Len(q) : q[i] = k /\ \A j \in 1 .. Len(q) : q[j] = k => j = i

Nobodys(a, k) == \A t \in Threads : a[t] # k
OfOne(a, k) ==
  \E t \in Threads : a[t] = k /\ \A u \in Threads : a[u] = k => u = t

(* A task is with a thread, in the queue, begun, or nowhere: not offered    *)
(* yet, or dropped after stop.                                             *)
TaskOK(k) ==
  \/ OfOne(arg, k) /\ NotIn(waitQueue, k) /\ begun[k] = 0 /\ k \in offered
  \/ Nobodys(arg, k) /\ OnceIn(waitQueue, k) /\ begun[k] = 0 /\ k \in offered
  \/ Nobodys(arg, k) /\ NotIn(waitQueue, k) /\ begun[k] = 1 /\ k \in offered
  \/ /\ Nobodys(arg, k) /\ NotIn(waitQueue, k) /\ begun[k] = 0
     /\ k \in offered => owner \in {"joining", "stopped"}

IInv ==
  /\ PoolTypeOK
  /\ SleepersOK
  /\ ArgOK
  /\ OwnerOK
  /\ QueueOK
  /\ \A k \in Tasks : TaskOK(k)

-----------------------------------------------------------------------------
(* The threads at each place. *)

(* There are finitely many threads. *)
LEMMA FiniteThreads == IsFiniteSet(Threads)
<1>1. IsFiniteSet(Workers)
  BY ThreadPoolAssumption, FS_Interval DEF Workers
<1> QED BY <1>1, ThreadPoolAssumption, FS_Union DEF Threads

(* The numbers are numbers, and 0 where nobody is. *)
LEMMA Numbers ==
  ASSUME NEW pcs, NEW p
  PROVE  /\ IsFiniteSet(At(pcs, p)) /\ Number(pcs, p) \in Nat
         /\ Number(pcs, p) = 0 <=> At(pcs, p) = {}
<1>1. At(pcs, p) \in SUBSET Threads
  BY DEF At
<1>2. IsFiniteSet(At(pcs, p))
  BY <1>1, FiniteThreads, FS_Subset
<1> QED BY <1>2, FS_CardinalityType, FS_EmptySet DEF Number

(* One thread that moves from one place to another changes two numbers.     *)
LEMMA Moved ==
  ASSUME NEW pcs, NEW t \in Threads, NEW p, NEW new, new[t] = p,
         \A u \in Threads \ {t} : new[u] = pcs[u]
  PROVE  \A x : /\ Number(pcs, x) \in Nat /\ Number(new, x) \in Nat
               /\ Number(new, x) = Number(pcs, x) + (IF x = p THEN 1 ELSE 0)
                                                 - (IF x = pcs[t] THEN 1 ELSE 0)
<1> SUFFICES ASSUME NEW x
             PROVE  Number(new, x) = Number(pcs, x) + (IF x = p THEN 1 ELSE 0)
                                                    - (IF x = pcs[t] THEN 1 ELSE 0)
  BY Numbers
<1>0. IsFiniteSet(At(pcs, x)) /\ Number(pcs, x) \in Nat
  BY Numbers
<1>1. CASE x = p /\ x # pcs[t]
  <2>1. At(new, x) = At(pcs, x) \cup {t} /\ t \notin At(pcs, x)
    BY <1>1 DEF At
  <2>2. Number(new, x) = Number(pcs, x) + 1
    BY <1>0, <2>1, FS_AddElement DEF Number
  <2> QED BY <1>0, <1>1, <2>2
<1>2. CASE x # p /\ x = pcs[t]
  <2>1. At(new, x) = At(pcs, x) \ {t} /\ t \in At(pcs, x)
    BY <1>2 DEF At
  <2>2. Number(new, x) = Number(pcs, x) - 1
    BY <1>0, <2>1, FS_RemoveElement DEF Number
  <2> QED BY <1>0, <1>2, <2>2
<1>3. CASE (x = p) = (x = pcs[t])
  <2>1. At(new, x) = At(pcs, x)
    BY <1>3 DEF At
  <2> QED BY <1>0, <1>3, <2>1 DEF Number
<1> QED BY <1>1, <1>2, <1>3

(* notify moves one of the threads that wait, if there is one. *)
LEMMA Notified ==
  ASSUME NEW pcs \in [Threads -> Places], NEW from \in Places, NEW to \in Places,
         from # to, NEW new \in Notify(pcs, from, to)
  PROVE  /\ new \in [Threads -> Places]
         /\ \A u \in Threads : new[u] = pcs[u] \/ (pcs[u] = from /\ new[u] = to)
         /\ \A x \in Places :
              Number(new, x) = Number(pcs, x)
                + (IF x = to /\ Number(pcs, from) > 0 THEN 1 ELSE 0)
                - (IF x = from /\ Number(pcs, from) > 0 THEN 1 ELSE 0)
<1>1. CASE At(pcs, from) = {}
  <2>0. new = pcs
    BY <1>1 DEF Notify, At
  <2>1. new = pcs /\ Number(pcs, from) = 0
    BY <1>1, <2>0, Numbers
  <2>2. \A x \in Places : Number(pcs, x) \in Nat
    BY Numbers
  <2> QED BY <2>1, <2>2
<1>2. CASE At(pcs, from) # {}
  <2>1. PICK u \in Threads : pcs[u] = from /\ new = [pcs EXCEPT ![u] = to]
    BY <1>2 DEF Notify, At
  <2>2. Number(pcs, from) > 0 /\ \A x \in Places : Number(pcs, x) \in Nat
    BY <1>2, Numbers
  <2>3. /\ new \in [Threads -> Places] /\ new[u] = to
        /\ \A v \in Threads \ {u} : new[v] = pcs[v]
    BY <2>1
  <2>4. \A x \in Places :
          Number(new, x) = Number(pcs, x) + (IF x = to THEN 1 ELSE 0)
                                          - (IF x = pcs[u] THEN 1 ELSE 0)
    BY <2>3, Moved
  <2> QED BY <2>1, <2>2, <2>3, <2>4
<1> QED BY <1>1, <1>2

-----------------------------------------------------------------------------
(* The queue. *)

(* push_back adds one task and keeps the others where they are. *)
LEMMA Appended ==
  ASSUME NEW q \in Seq(Tasks), NEW e \in Tasks, NEW k \in Tasks
  PROVE  /\ Append(q, e) \in Seq(Tasks) /\ Len(Append(q, e)) = Len(q) + 1
         /\ NotIn(q, k) => IF k = e THEN OnceIn(Append(q, e), k)
                           ELSE NotIn(Append(q, e), k)
         /\ k # e /\ OnceIn(q, k) => OnceIn(Append(q, e), k)
<1> DEFINE r == Append(q, e)
<1>1. /\ r \in Seq(Tasks) /\ Len(q) \in Nat /\ Len(r) = Len(q) + 1
      /\ \A i \in 1 .. Len(q) : r[i] = q[i]
      /\ r[Len(q) + 1] = e
  OBVIOUS
<1> HIDE DEF r
<1>2. ASSUME NotIn(q, k), k # e PROVE NotIn(r, k)
  BY <1>1, <1>2 DEF NotIn
<1>3. ASSUME NotIn(q, k), k = e PROVE OnceIn(r, k)
  <2>1. Len(q) + 1 \in 1 .. Len(r) /\ r[Len(q) + 1] = k
    BY <1>1, <1>3
  <2>2. \A j \in 1 .. Len(r) : r[j] = k => j = Len(q) + 1
    BY <1>1, <1>3 DEF NotIn
  <2> QED BY <2>1, <2>2 DEF OnceIn
<1>4. ASSUME OnceIn(q, k), k # e PROVE OnceIn(r, k)
  <2>1. PICK i \in 1 .. Len(q) : q[i] = k /\ \A j \in 1 .. Len(q) : q[j] = k => j = i
    BY <1>4 DEF OnceIn
  <2>2. i \in 1 .. Len(r) /\ r[i] = k /\ \A j \in 1 .. Len(r) : r[j] = k => j = i
    BY <1>1, <1>4, <2>1
  <2> QED BY <2>2 DEF OnceIn
<1> QED BY <1>1, <1>2, <1>3, <1>4 DEF r

(* pop_front removes the first task. *)
LEMMA Popped ==
  ASSUME NEW q \in Seq(Tasks), q # <<>>, NEW k \in Tasks
  PROVE  /\ Tail(q) \in Seq(Tasks) /\ Len(q) > 0 /\ Len(Tail(q)) = Len(q) - 1
         /\ Head(q) \in Tasks
         /\ k = Head(q) => ~NotIn(q, k)
         /\ NotIn(q, k) => NotIn(Tail(q), k)
         /\ OnceIn(q, k) => IF k = Head(q) THEN NotIn(Tail(q), k) ELSE OnceIn(Tail(q), k)
<1> DEFINE r == Tail(q)
<1>1. /\ r \in Seq(Tasks) /\ Len(q) \in Nat \ {0} /\ Len(r) = Len(q) - 1
      /\ \A i \in 1 .. Len(q) - 1 : r[i] = q[i + 1]
      /\ Head(q) = q[1] /\ q[1] \in Tasks
  OBVIOUS
<1> HIDE DEF r
<1>2. k = Head(q) => ~NotIn(q, k)
  BY <1>1 DEF NotIn
<1>3. ASSUME NotIn(q, k) PROVE NotIn(r, k)
  <2>1. \A i \in 1 .. Len(r) : i + 1 \in 1 .. Len(q)
    BY <1>1
  <2> QED BY <1>1, <1>3, <2>1 DEF NotIn
<1>4. ASSUME OnceIn(q, k), k = Head(q) PROVE NotIn(r, k)
  <2>1. \A j \in 1 .. Len(q) : q[j] = k => j = 1
    BY <1>1, <1>4 DEF OnceIn
  <2>2. \A i \in 1 .. Len(r) : i + 1 \in 1 .. Len(q) /\ i + 1 # 1
    BY <1>1
  <2> QED BY <1>1, <2>1, <2>2 DEF NotIn
<1>5. ASSUME OnceIn(q, k), k # Head(q) PROVE OnceIn(r, k)
  <2>1. PICK i \in 1 .. Len(q) : q[i] = k /\ \A j \in 1 .. Len(q) : q[j] = k => j = i
    BY <1>5 DEF OnceIn
  <2>2. i # 1
    BY <1>1, <1>5, <2>1
  <2>3. i - 1 \in 1 .. Len(r) /\ (i - 1) + 1 = i
    BY <1>1, <2>1, <2>2
  <2>4. r[i - 1] = k
    BY <1>1, <2>1, <2>3
  <2>5. ASSUME NEW j \in 1 .. Len(r), r[j] = k PROVE j = i - 1
    <3>1. j + 1 \in 1 .. Len(q) /\ q[j + 1] = k
      BY <1>1, <2>5
    <3> QED BY <2>1, <3>1
  <2> QED BY <2>3, <2>4, <2>5 DEF OnceIn
<1> QED BY <1>1, <1>2, <1>3, <1>4, <1>5 DEF r

-----------------------------------------------------------------------------
(* The arguments of run. *)

(* A thread gets the argument e. *)
LEMMA ArgSet ==
  ASSUME NEW a, NEW b, NEW t \in Threads, NEW e, NEW k, b[t] = e, a[t] # k,
         \A u \in Threads \ {t} : b[u] = a[u]
  PROVE  /\ Nobodys(a, k) => IF e = k THEN OfOne(b, k) ELSE Nobodys(b, k)
         /\ e # k /\ OfOne(a, k) => OfOne(b, k)
BY DEF Nobodys, OfOne

(* A thread has passed on its argument k. *)
LEMMA ArgCleared ==
  ASSUME NEW a, NEW b, NEW t \in Threads, NEW k, b[t] # k, a[t] = k,
         \A u \in Threads \ {t} : b[u] = a[u]
  PROVE  ~Nobodys(a, k) /\ (OfOne(a, k) => Nobodys(b, k))
BY DEF Nobodys, OfOne

-----------------------------------------------------------------------------
(* The invariant, action by action. *)

(* Nothing has been started. *)
LEMMA InitOK == PoolInit => IInv
<1> SUFFICES ASSUME PoolInit PROVE IInv
  OBVIOUS
<1>1. PoolTypeOK
  <2>1. at \in [Threads -> Places] /\ started \in 0 .. PoolSize
    BY ThreadPoolAssumption DEF PoolInit, Places
  <2>2. body \in [Threads -> Tasks \cup {NoTask}] /\ arg \in [Threads -> Tasks \cup {NoTask}]
    BY DEF PoolInit
  <2>3. begun \in [Tasks -> Nat] /\ waitQueue \in Seq(Tasks) /\ offered \subseteq Tasks
    BY DEF PoolInit
  <2>4. owner = "new" /\ running \in BOOLEAN
    BY DEF PoolInit
  <2> QED BY <2>1, <2>2, <2>3, <2>4 DEF PoolTypeOK
<1>2. SleepersOK
  <2>1. At(at, "notEmpty") = {} /\ At(at, "notFull") = {}
    BY DEF PoolInit, At
  <2> QED BY <2>1, Numbers DEF SleepersOK
<1>3. ArgOK /\ OwnerOK
  BY ThreadPoolAssumption DEF PoolInit, ArgOK, OwnerOK, Threads, Workers
<1>4. QueueOK
  BY ThreadPoolAssumption DEF PoolInit, QueueOK
<1>5. \A k \in Tasks : TaskOK(k)
  BY ThreadPoolAssumption DEF PoolInit, TaskOK, Nobodys, NotIn
<1> QED BY <1>1, <1>2, <1>3, <1>4, <1>5 DEF IInv

(* start. *)
LEMMA StartPoolOK ==
  ASSUME IInv, StartPool
  PROVE  IInv'
<1>1. PoolTypeOK' /\ ArgOK' /\ OwnerOK' /\ QueueOK'
  BY DEF IInv, StartPool, PoolTypeOK, ArgOK, OwnerOK, QueueOK
<1>2. SleepersOK'
  BY DEF IInv, StartPool, SleepersOK, Number, At
<1>3. \A k \in Tasks : TaskOK(k)'
  BY DEF IInv, StartPool, TaskOK, NotIn, OnceIn, Nobodys, OfOne
<1> QED BY <1>1, <1>2, <1>3 DEF IInv

(* A thread of the pool begins in runInThread. *)
LEMMA StartWorkerOK ==
  ASSUME IInv, StartWorker
  PROVE  IInv'
<1>1. /\ PoolTypeOK /\ owner = "starting" /\ owner' \in {"starting", "started"}
      /\ UNCHANGED <<running, waitQueue, body, arg, offered, begun>>
  BY DEF IInv, StartWorker
<1>2. \A k \in Tasks : TaskOK(k)'
  BY <1>1 DEF IInv, TaskOK, NotIn, OnceIn, Nobodys, OfOne
<1>3. QueueOK'
  BY <1>1 DEF IInv, QueueOK
<1>4. CASE UNCHANGED <<started, at>>
  BY <1>1, <1>2, <1>3, <1>4 DEF IInv, PoolTypeOK, SleepersOK, Number, At, ArgOK, OwnerOK
<1>5. CASE started < PoolSize /\ started' = started + 1
           /\ at' = [at EXCEPT ![started + 1] = "test"]
  <2>1. /\ started \in Nat /\ started + 1 \in Workers /\ started + 1 \in Threads
        /\ at[started + 1] = "off" /\ started' \in 0 .. PoolSize
    BY <1>1, <1>5, ThreadPoolAssumption DEF IInv, OwnerOK, PoolTypeOK, Workers, Threads
  <2>2. at \in [Threads -> Places] /\ "test" \in Places
    BY <1>1 DEF PoolTypeOK, Places
  <2>3. /\ at' \in [Threads -> Places]
        /\ \A x \in Places \ {"test", "off"} : Number(at', x) = Number(at, x)
    <3>1. /\ at' \in [Threads -> Places] /\ at'[started + 1] = "test"
          /\ \A u \in Threads \ {started + 1} : at'[u] = at[u]
      BY <1>5, <2>1, <2>2
    <3> QED BY <2>1, <3>1, Moved
  <2>4. PoolTypeOK'
    BY <1>1, <2>1, <2>3 DEF PoolTypeOK
  <2>5. SleepersOK'
    BY <1>1, <2>3 DEF IInv, SleepersOK, Places
  <2>6. ArgOK' /\ OwnerOK'
    BY <1>1, <1>5, <2>1, <2>2 DEF IInv, ArgOK, OwnerOK, Workers
  <2> QED BY <1>2, <1>3, <2>4, <2>5, <2>6 DEF IInv
<1> QED BY <1>4, <1>5 DEF StartWorker

(* stop wakes everybody. *)
LEMMA StopPoolOK ==
  ASSUME IInv, StopPool
  PROVE  IInv'
<1>1. /\ PoolTypeOK /\ owner = "started" /\ owner' = "joining" /\ running' = FALSE
      /\ at' = [t \in Threads |-> CASE at[t] = "notEmpty" -> "take"
                                   [] at[t] = "notFull" -> "put"
                                   [] OTHER -> at[t]]
      /\ UNCHANGED <<started, waitQueue, body, arg, offered, begun>>
  BY DEF IInv, StopPool, NotifyStopped, NotifyAll
<1>2. \A t \in Threads :
        at'[t] = IF at[t] = "notEmpty" THEN "take"
                 ELSE IF at[t] = "notFull" THEN "put" ELSE at[t]
  BY <1>1
<1>3. PoolTypeOK'
  BY <1>1 DEF PoolTypeOK, Places
<1>4. SleepersOK'
  <2>1. At(at', "notEmpty") = {} /\ At(at', "notFull") = {}
    BY <1>2 DEF At
  <2>2. Number(at', "notEmpty") = 0 /\ Number(at', "notFull") = 0
    BY <2>1, Numbers
  <2> QED BY <2>2 DEF SleepersOK
<1>5. ArgOK'
  BY <1>1, <1>2 DEF IInv, ArgOK
<1>6. OwnerOK' /\ QueueOK'
  BY <1>1, <1>2 DEF IInv, OwnerOK, QueueOK, Workers, Threads
<1>7. \A k \in Tasks : TaskOK(k)'
  BY <1>1 DEF IInv, TaskOK, NotIn, OnceIn, Nobodys, OfOne
<1> QED BY <1>3, <1>4, <1>5, <1>6, <1>7 DEF IInv

(* The destructor has joined the threads. *)
LEMMA JoinPoolOK ==
  ASSUME IInv, JoinPool
  PROVE  IInv'
<1>1. PoolTypeOK' /\ ArgOK' /\ OwnerOK' /\ QueueOK'
  BY DEF IInv, JoinPool, PoolTypeOK, ArgOK, OwnerOK, QueueOK
<1>2. SleepersOK'
  BY DEF IInv, JoinPool, SleepersOK, Number, At
<1>3. \A k \in Tasks : TaskOK(k)'
  BY DEF IInv, JoinPool, TaskOK, NotIn, OnceIn, Nobodys, OfOne
<1> QED BY <1>1, <1>2, <1>3 DEF IInv

(* run is called, and runs the task itself while threads_ is empty. *)
LEMMA CallOK ==
  ASSUME IInv, NEW t \in Threads, Call(t)
  PROVE  IInv'
<1>1. PICK e \in Tasks \ offered :
        /\ offered' = offered \cup {e}
        /\ IF started = 0
           THEN /\ body' = [body EXCEPT ![t] = e]
                /\ begun' = [begun EXCEPT ![e] = @ + 1]
                /\ at' = [at EXCEPT ![t] = "work"]
                /\ UNCHANGED arg
           ELSE /\ arg' = [arg EXCEPT ![t] = e]
                /\ at' = [at EXCEPT ![t] = "put"]
                /\ UNCHANGED <<body, begun>>
  BY DEF Call
<1>2. /\ PoolTypeOK /\ at[t] \in {"idle", "work"} /\ arg[t] = NoTask
      /\ UNCHANGED <<owner, running, started, waitQueue>>
  BY DEF IInv, Call, CanCall, ArgOK
<1>3. Nobodys(arg, e) /\ NotIn(waitQueue, e) /\ begun[e] = 0
  BY <1>1 DEF IInv, TaskOK
<1> DEFINE p == IF started = 0 THEN "work" ELSE "put"
<1>4. p \in Places /\ at \in [Threads -> Places] /\ at' = [at EXCEPT ![t] = p]
  BY <1>1, <1>2 DEF Places, PoolTypeOK
<1>5. /\ at' \in [Threads -> Places] /\ at'[t] = p
      /\ \A u \in Threads \ {t} : at'[u] = at[u]
  BY <1>4
<1>6. PoolTypeOK'
  <2>1. /\ body' \in [Threads -> Tasks \cup {NoTask}]
        /\ arg' \in [Threads -> Tasks \cup {NoTask}]
    BY <1>1, <1>2 DEF PoolTypeOK
  <2>2. begun' \in [Tasks -> Nat] /\ offered' \subseteq Tasks
    BY <1>1, <1>2 DEF PoolTypeOK
  <2> QED BY <1>2, <1>5, <2>1, <2>2 DEF PoolTypeOK
<1>7. Len(waitQueue) \in Nat
  BY <1>2 DEF PoolTypeOK
<1>8. SleepersOK'
  <2>1. /\ Number(at', "notEmpty") = Number(at, "notEmpty")
        /\ Number(at', "notFull") = Number(at, "notFull")
        /\ Number(at', "take") = Number(at, "take")
        /\ Number(at', "put") >= Number(at, "put")
    <3>1. \A x : /\ Number(at, x) \in Nat
                 /\ Number(at', x) = Number(at, x) + (IF x = p THEN 1 ELSE 0)
                                                  - (IF x = at[t] THEN 1 ELSE 0)
      BY <1>5, Moved
    <3> QED BY <1>2, <3>1
  <2>2. MaxQueueSize \in Nat /\ SleepersOK /\ UNCHANGED <<running, waitQueue>>
        /\ \A x : Number(at, x) \in Nat /\ Number(at', x) \in Nat
    BY <1>2, Numbers, ThreadPoolAssumption DEF IInv
  <2> QED BY <1>7, <2>1, <2>2 DEF SleepersOK
<1>9. ArgOK'
  BY <1>1, <1>2, <1>5, ThreadPoolAssumption DEF IInv, ArgOK, PoolTypeOK
<1>10. OwnerOK' /\ QueueOK'
  BY <1>1, <1>2, <1>5 DEF IInv, OwnerOK, QueueOK, Workers, Threads
<1>11. ASSUME NEW k \in Tasks PROVE TaskOK(k)'
  <2>0. TaskOK(k) /\ arg[t] # k
    BY <1>2, ThreadPoolAssumption DEF IInv
  <2>1. CASE started = 0 /\ k = e
    BY <1>1, <1>2, <1>3, <2>1 DEF TaskOK, PoolTypeOK, Nobodys, NotIn
  <2>2. CASE started = 0 /\ k # e
    BY <1>1, <1>2, <2>0, <2>2 DEF TaskOK, PoolTypeOK, Nobodys, OfOne, NotIn, OnceIn
  <2>3. CASE started # 0
    <3>1. arg'[t] = e /\ \A u \in Threads \ {t} : arg'[u] = arg[u]
      BY <1>1, <1>2, <2>3 DEF PoolTypeOK
    <3>2. /\ Nobodys(arg, k) => IF e = k THEN OfOne(arg', k) ELSE Nobodys(arg', k)
          /\ e # k /\ OfOne(arg, k) => OfOne(arg', k)
      BY <2>0, <3>1, ArgSet
    <3>3. begun' = begun /\ waitQueue' = waitQueue /\ owner' = owner
          /\ offered' = offered \cup {e}
      BY <1>1, <1>2, <2>3
    <3> QED BY <1>3, <2>0, <3>2, <3>3 DEF TaskOK
  <2> QED BY <2>1, <2>2, <2>3
<1> QED BY <1>6, <1>8, <1>9, <1>10, <1>11 DEF IInv

(* A step in which one thread goes elsewhere and its task stays where it is. *)
LEMMA GoesOK ==
  ASSUME IInv, NEW t \in Threads, NEW p \in Places, at' = [at EXCEPT ![t] = p],
         at[t] # "off", p \in {"put", "notFull"} <=> at[t] \in {"put", "notFull"},
         body' \in [Threads -> Tasks \cup {NoTask}],
         UNCHANGED <<owner, running, started, waitQueue, arg, offered, begun>>,
         SleepersOK'
  PROVE  IInv'
<1>1. /\ at' \in [Threads -> Places] /\ at'[t] = p
      /\ \A u \in Threads \ {t} : at'[u] = at[u]
  BY DEF IInv, PoolTypeOK
<1>2. PoolTypeOK'
  BY <1>1 DEF IInv, PoolTypeOK
<1>3. ArgOK'
  BY <1>1 DEF IInv, ArgOK
<1>4. OwnerOK' /\ QueueOK'
  BY <1>1 DEF IInv, OwnerOK, QueueOK, Workers, Threads
<1>5. \A k \in Tasks : TaskOK(k)'
  BY DEF IInv, TaskOK, NotIn, OnceIn, Nobodys, OfOne
<1> QED BY <1>2, <1>3, <1>4, <1>5 DEF IInv

(* A thread that is not about to lock the mutex is none the sleepers need. *)
LEMMA TestRunningOK ==
  ASSUME IInv, NEW t \in Threads, TestRunning(t) \/ FinishTask(t)
  PROVE  IInv'
<1>1. PICK p \in {"take", "done", "test", "idle"} : at' = [at EXCEPT ![t] = p]
  BY DEF TestRunning, FinishTask
<1>2. /\ at[t] \in {"test", "work"} /\ PoolTypeOK
      /\ UNCHANGED <<owner, running, started, waitQueue, arg, offered, begun>>
      /\ body' \in [Threads -> Tasks \cup {NoTask}]
  BY DEF IInv, TestRunning, FinishTask, PoolTypeOK
<1>3. at'[t] = p /\ \A u \in Threads \ {t} : at'[u] = at[u]
  BY <1>1, <1>2 DEF PoolTypeOK
<1>4. SleepersOK'
  <2>1. /\ Number(at', "notEmpty") = Number(at, "notEmpty")
        /\ Number(at', "notFull") = Number(at, "notFull")
        /\ Number(at', "put") = Number(at, "put")
        /\ Number(at', "take") \in Nat /\ Number(at', "take") >= Number(at, "take")
        /\ Number(at, "take") \in Nat
    <3>1. \A x : /\ Number(at, x) \in Nat /\ Number(at', x) \in Nat
                 /\ Number(at', x) = Number(at, x) + (IF x = p THEN 1 ELSE 0)
                                                  - (IF x = at[t] THEN 1 ELSE 0)
      BY <1>3, Moved
    <3>2. \A x \in {"notEmpty", "notFull", "put"} : x # p /\ x # at[t]
      BY <1>1, <1>2
    <3>3. at[t] # "take"
      BY <1>2
    <3> QED BY <3>1, <3>2, <3>3
  <2>2. Len(waitQueue) \in Nat /\ SleepersOK /\ UNCHANGED <<running, waitQueue>>
    BY <1>2 DEF IInv, PoolTypeOK
  <2> QED BY <2>1, <2>2 DEF SleepersOK
<1>5. p \in Places /\ at[t] # "off"
      /\ (p \in {"put", "notFull"} <=> at[t] \in {"put", "notFull"})
  BY <1>1, <1>2 DEF Places
<1> QED BY <1>1, <1>2, <1>4, <1>5, GoesOK

(* A thread that wakes up goes where notify would have sent it. *)
LEMMA SpuriousWakeOK ==
  ASSUME IInv, NEW t \in Threads, SpuriousWake(t)
  PROVE  IInv'
<1>1. PICK p \in {"take", "put"} :
        at' = [at EXCEPT ![t] = p] /\ p = IF at[t] = "notEmpty" THEN "take" ELSE "put"
  BY DEF SpuriousWake
<1>2. /\ at[t] \in {"notEmpty", "notFull"} /\ PoolTypeOK
      /\ UNCHANGED <<owner, running, started, waitQueue, body, arg, offered, begun>>
      /\ body' \in [Threads -> Tasks \cup {NoTask}]
  BY DEF IInv, SpuriousWake, PoolTypeOK
<1>3. at'[t] = p /\ \A u \in Threads \ {t} : at'[u] = at[u]
  BY <1>1, <1>2 DEF PoolTypeOK
<1>4. SleepersOK'
  <2>1. \A x : /\ Number(at, x) \in Nat /\ Number(at', x) \in Nat
               /\ Number(at', x) = Number(at, x) + (IF x = p THEN 1 ELSE 0)
                                                - (IF x = at[t] THEN 1 ELSE 0)
    BY <1>3, Moved
  <2>2. /\ Number(at', "notEmpty") <= Number(at, "notEmpty")
        /\ Number(at', "notFull") <= Number(at, "notFull")
        /\ Number(at', "put") >= Number(at, "put")
        /\ Number(at', "take") >= Number(at, "take")
    <3>1. \A x \in {"notEmpty", "notFull"} : x # p
      BY <1>1
    <3>2. \A x \in {"put", "take"} : x # at[t]
      BY <1>2
    <3> QED BY <2>1, <3>1, <3>2
  <2>3. Len(waitQueue) \in Nat /\ MaxQueueSize \in Nat /\ SleepersOK
        /\ UNCHANGED <<running, waitQueue>>
    BY <1>2, ThreadPoolAssumption DEF IInv, PoolTypeOK
  <2>4. /\ Number(at, "notEmpty") \in Nat /\ Number(at', "notEmpty") \in Nat
        /\ Number(at, "notFull") \in Nat /\ Number(at', "notFull") \in Nat
        /\ Number(at, "take") \in Nat /\ Number(at', "take") \in Nat
        /\ Number(at, "put") \in Nat /\ Number(at', "put") \in Nat
    BY <2>1
  <2> QED BY <2>2, <2>3, <2>4 DEF SleepersOK
<1>5. p \in Places /\ at[t] # "off"
      /\ (p \in {"put", "notFull"} <=> at[t] \in {"put", "notFull"})
  BY <1>1, <1>2 DEF Places
<1> QED BY <1>1, <1>2, <1>4, <1>5, GoesOK

(* run waits for a place. *)
LEMMA PutWaitsOK ==
  ASSUME IInv, NEW t \in Threads, Put(t), MustWaitFull
  PROVE  IInv'
<1>1. /\ at' = [at EXCEPT ![t] = "notFull"] /\ at[t] = "put" /\ PoolTypeOK
      /\ UNCHANGED <<owner, running, started, waitQueue, body, arg, offered, begun>>
      /\ body' \in [Threads -> Tasks \cup {NoTask}]
  BY DEF IInv, Put, PoolTypeOK
<1>2. at'[t] = "notFull" /\ \A u \in Threads \ {t} : at'[u] = at[u]
  BY <1>1 DEF PoolTypeOK
<1>3. running /\ MaxQueueSize > 0 /\ MaxQueueSize - Len(waitQueue) <= 0
      /\ Len(waitQueue) \in Nat /\ MaxQueueSize \in Nat
  BY <1>1, ThreadPoolAssumption DEF MustWaitFull, IsFull, PoolTypeOK
<1>4. SleepersOK'
  <2>1. \A x : /\ Number(at, x) \in Nat /\ Number(at', x) \in Nat
               /\ Number(at', x) = Number(at, x) + (IF x = "notFull" THEN 1 ELSE 0)
                                                - (IF x = at[t] THEN 1 ELSE 0)
    BY <1>2, Moved
  <2>2. /\ Number(at', "notEmpty") = Number(at, "notEmpty")
        /\ Number(at', "take") = Number(at, "take")
    <3>1. at[t] = "put"
      BY <1>1
    <3> QED BY <2>1, <3>1
  <2>3. SleepersOK /\ UNCHANGED <<running, waitQueue>>
    BY <1>1 DEF IInv
  <2> QED BY <1>3, <2>1, <2>2, <2>3 DEF SleepersOK
<1> QED BY <1>1, <1>4, GoesOK DEF Places

(* run puts its task into the queue and notifies a worker, or drops it      *)
(* after stop.                                                             *)
LEMMA PutsOK ==
  ASSUME IInv, NEW t \in Threads, Put(t), ~MustWaitFull
  PROVE  IInv'
<1> DEFINE e == arg[t]
           back == Back(t)
<1>0. e = arg[t]
  OBVIOUS
<1> HIDE DEF e
<1>1. /\ at[t] = "put" /\ PoolTypeOK /\ at \in [Threads -> Places]
      /\ arg' = [arg EXCEPT ![t] = NoTask]
      /\ IF running
         THEN /\ waitQueue' = Append(waitQueue, e)
              /\ at' \in Notify([at EXCEPT ![t] = back], "notEmpty", "take")
         ELSE at' = [at EXCEPT ![t] = back] /\ UNCHANGED waitQueue
      /\ UNCHANGED <<owner, running, started, body, offered, begun>>
  BY <1>0 DEF IInv, Put, PoolTypeOK, NotifyNotEmpty
<1>2. /\ e \in Tasks /\ waitQueue \in Seq(Tasks)
      /\ Len(waitQueue) \in Nat /\ MaxQueueSize \in Nat
      /\ back \in {"work", "idle"}
  BY <1>0, <1>1, ThreadPoolAssumption DEF IInv, ArgOK, PoolTypeOK, Back
<1> HIDE DEF back
<1>3. PICK pcs \in [Threads -> Places] : pcs = [at EXCEPT ![t] = back]
  BY <1>1, <1>2 DEF Places
<1>31. pcs[t] = back /\ \A u \in Threads \ {t} : pcs[u] = at[u]
  BY <1>1, <1>3
<1>4. /\ at' \in [Threads -> Places] /\ at'[t] = back
      /\ \A u \in Threads \ {t} : at'[u] = at[u] \/ (at[u] = "notEmpty" /\ at'[u] = "take")
  <2>1. CASE running
    <3>1. at' \in Notify(pcs, "notEmpty", "take")
      BY <1>1, <1>3, <2>1
    <3>2. /\ at' \in [Threads -> Places]
          /\ \A u \in Threads : at'[u] = pcs[u] \/ (pcs[u] = "notEmpty" /\ at'[u] = "take")
      BY <3>1, Notified DEF Places
    <3> QED BY <1>2, <1>31, <3>2
  <2>2. CASE ~running
    BY <1>1, <1>3, <2>2
  <2> QED BY <2>1, <2>2
<1>5. SleepersOK'
  <2>1. CASE running
    <3>1. at' \in Notify(pcs, "notEmpty", "take")
      BY <1>1, <1>3, <2>1
    <3>2. \A x : /\ Number(at, x) \in Nat /\ Number(pcs, x) \in Nat
                 /\ Number(pcs, x) = Number(at, x) + (IF x = back THEN 1 ELSE 0)
                                                  - (IF x = at[t] THEN 1 ELSE 0)
      BY <1>31, Moved
    <3>3. \A x \in Places :
            Number(at', x) = Number(pcs, x)
              + (IF x = "take" /\ Number(pcs, "notEmpty") > 0 THEN 1 ELSE 0)
              - (IF x = "notEmpty" /\ Number(pcs, "notEmpty") > 0 THEN 1 ELSE 0)
      BY <3>1, Notified DEF Places
    <3>4. /\ Number(pcs, "notEmpty") = Number(at, "notEmpty")
          /\ Number(pcs, "take") = Number(at, "take")
          /\ Number(pcs, "notFull") = Number(at, "notFull")
          /\ Number(pcs, "put") = Number(at, "put") - 1
      <4>1. at[t] = "put" /\ back \notin {"notEmpty", "take", "notFull", "put"}
        BY <1>1, <1>2
      <4> QED BY <3>2, <4>1
    <3>5. /\ Number(at', "notEmpty") > 0 => Number(at, "notEmpty") > 0
          /\ Number(at, "notEmpty") > 0 => Number(at', "take") = Number(at, "take") + 1
          /\ Number(at', "notFull") = Number(at, "notFull")
          /\ Number(at', "put") = Number(at, "put") - 1
      BY <3>2, <3>3, <3>4 DEF Places
    <3>6. Len(waitQueue') = Len(waitQueue) + 1 /\ running' = running /\ SleepersOK
      BY <1>1, <1>2, <2>1, Appended DEF IInv
    <3>7. /\ Number(at, "notEmpty") \in Nat /\ Number(at', "notEmpty") \in Nat
          /\ Number(at, "notFull") \in Nat /\ Number(at', "notFull") \in Nat
          /\ Number(at, "take") \in Nat /\ Number(at', "take") \in Nat
          /\ Number(at, "put") \in Nat /\ Number(at', "put") \in Nat
      BY Numbers
    <3> QED BY <1>2, <2>1, <3>5, <3>6, <3>7 DEF SleepersOK
  <2>2. CASE ~running
    <3>1. Number(at, "notEmpty") = 0 /\ Number(at, "notFull") = 0
      BY <2>2, Numbers DEF IInv, SleepersOK
    <3>2. \A x : /\ Number(at, x) \in Nat
                 /\ Number(at', x) = Number(at, x) + (IF x = back THEN 1 ELSE 0)
                                                  - (IF x = at[t] THEN 1 ELSE 0)
      <4>1. \A u \in Threads \ {t} : at'[u] = at[u]
        BY <1>1, <1>3, <2>2
      <4> QED BY <1>4, <4>1, Moved
    <3>3. Number(at', "notEmpty") = 0 /\ Number(at', "notFull") = 0
      <4>1. at[t] = "put" /\ back \notin {"notEmpty", "notFull"}
        BY <1>1, <1>2
      <4> QED BY <3>1, <3>2, <4>1
    <3> QED BY <3>3 DEF SleepersOK
  <2> QED BY <2>1, <2>2
<1>6. waitQueue' \in Seq(Tasks) /\ QueueOK'
  <2>1. CASE running
    <3>1. waitQueue' \in Seq(Tasks) /\ Len(waitQueue') = Len(waitQueue) + 1
      BY <1>1, <1>2, <2>1, Appended
    <3> QED BY <1>2, <2>1, <3>1 DEF QueueOK, MustWaitFull, IsFull
  <2>2. CASE ~running
    BY <1>1, <1>2, <2>2 DEF IInv, QueueOK
  <2> QED BY <2>1, <2>2
<1>7. arg' \in [Threads -> Tasks \cup {NoTask}] /\ arg'[t] = NoTask /\ arg[t] = e
      /\ \A u \in Threads \ {t} : arg'[u] = arg[u]
  BY <1>0, <1>1 DEF PoolTypeOK
<1>8. PoolTypeOK'
  BY <1>1, <1>4, <1>6, <1>7 DEF PoolTypeOK
<1>9. ArgOK'
  BY <1>2, <1>4, <1>7 DEF IInv, ArgOK
<1>10. OwnerOK'
  BY <1>1, <1>4, <1>7 DEF IInv, OwnerOK, Workers, Threads
<1>11. ASSUME NEW k \in Tasks PROVE TaskOK(k)'
  <2>1. NoTask # k /\ TaskOK(k) /\ owner' = owner /\ offered' = offered /\ begun' = begun
    BY <1>1, ThreadPoolAssumption DEF IInv
  <2>2. CASE k = e
    <3>1. ~Nobodys(arg, k) /\ (OfOne(arg, k) => Nobodys(arg', k))
      BY <1>7, <2>1, <2>2, ArgCleared
    <3>2. Nobodys(arg', k) /\ NotIn(waitQueue, k) /\ begun[k] = 0 /\ k \in offered
      BY <2>1, <3>1 DEF TaskOK
    <3>3. CASE running
      <4>1. OnceIn(waitQueue', k)
        <5>1. waitQueue' = Append(waitQueue, e)
          BY <1>1, <3>3
        <5>2. NotIn(waitQueue, k) => OnceIn(Append(waitQueue, e), k)
          BY <1>2, <2>2, Appended
        <5> QED BY <3>2, <5>1, <5>2
      <4> QED BY <2>1, <3>2, <4>1 DEF TaskOK
    <3>4. CASE ~running
      <4>1. owner \in {"joining", "stopped"}
        BY <1>1, <1>2, <1>7, <3>4, ThreadPoolAssumption DEF IInv, OwnerOK, PoolTypeOK
      <4> QED BY <1>1, <2>1, <3>2, <3>4, <4>1 DEF TaskOK, NotIn
    <3> QED BY <3>3, <3>4
  <2>3. CASE k # e
    <3>1. /\ Nobodys(arg, k) => Nobodys(arg', k)
          /\ OfOne(arg, k) => OfOne(arg', k)
      BY <1>7, <2>1, <2>3, ArgSet
    <3>2. /\ NotIn(waitQueue, k) => NotIn(waitQueue', k)
          /\ OnceIn(waitQueue, k) => OnceIn(waitQueue', k)
      <4>1. CASE running
        <5>1. waitQueue' = Append(waitQueue, e)
          BY <1>1, <4>1
        <5>2. /\ NotIn(waitQueue, k) => NotIn(Append(waitQueue, e), k)
              /\ OnceIn(waitQueue, k) => OnceIn(Append(waitQueue, e), k)
          BY <1>2, <2>3, Appended
        <5> QED BY <5>1, <5>2
      <4>2. CASE ~running
        BY <1>1, <4>2
      <4> QED BY <4>1, <4>2
    <3> QED BY <2>1, <3>1, <3>2 DEF TaskOK
  <2> QED BY <2>2, <2>3
<1> QED BY <1>5, <1>6, <1>8, <1>9, <1>10, <1>11 DEF IInv

NothingToTake == waitQueue = <<>>

(* take finds the queue empty, and waits, or returns after stop. *)
LEMMA TakesNothingOK ==
  ASSUME IInv, NEW t \in Threads, Take(t), NothingToTake
  PROVE  IInv'
<1>1. PICK p \in {"notEmpty", "test"} :
        at' = [at EXCEPT ![t] = p] /\ p = IF running THEN "notEmpty" ELSE "test"
  BY DEF Take, NothingToTake
<1>2. /\ at[t] = "take" /\ PoolTypeOK
      /\ UNCHANGED <<owner, running, started, waitQueue, body, arg, offered, begun>>
      /\ body' \in [Threads -> Tasks \cup {NoTask}]
  BY DEF IInv, Take, PoolTypeOK, NothingToTake
<1>3. at'[t] = p /\ \A u \in Threads \ {t} : at'[u] = at[u]
  BY <1>1, <1>2 DEF PoolTypeOK
<1>4. SleepersOK'
  <2>1. \A x : /\ Number(at, x) \in Nat /\ Number(at', x) \in Nat
               /\ Number(at', x) = Number(at, x) + (IF x = p THEN 1 ELSE 0)
                                                - (IF x = at[t] THEN 1 ELSE 0)
    BY <1>3, Moved
  <2>2. /\ Number(at', "notFull") = Number(at, "notFull")
        /\ Number(at', "put") = Number(at, "put")
    <3>1. \A x \in {"notFull", "put"} : x # p /\ x # at[t]
      BY <1>1, <1>2
    <3> QED BY <2>1, <3>1
  <2>3. ~running => Number(at', "notEmpty") = Number(at, "notEmpty")
    <3>1. "notEmpty" # at[t] /\ (~running => p = "test")
      BY <1>1, <1>2
    <3> QED BY <2>1, <3>1
  <2>4. Len(waitQueue') = 0 /\ Len(waitQueue) = 0 /\ running' = running /\ SleepersOK
    BY <1>2 DEF IInv, NothingToTake
  <2> QED BY <2>1, <2>2, <2>3, <2>4 DEF SleepersOK
<1>5. p \in Places /\ at[t] # "off"
      /\ (p \in {"put", "notFull"} <=> at[t] \in {"put", "notFull"})
  BY <1>1, <1>2 DEF Places
<1> QED BY <1>1, <1>2, <1>4, <1>5, GoesOK

(* take takes the first task, and notifies a caller if the queue is bounded. *)
LEMMA TakesOK ==
  ASSUME IInv, NEW t \in Threads, Take(t), ~NothingToTake
  PROVE  IInv'
<1> DEFINE e == Head(waitQueue)
<1>0. e = Head(waitQueue)
  OBVIOUS
<1> HIDE DEF e
<1>1. /\ at[t] = "take" /\ PoolTypeOK /\ at \in [Threads -> Places]
      /\ waitQueue' = Tail(waitQueue)
      /\ body' = [body EXCEPT ![t] = e]
      /\ begun' = [begun EXCEPT ![e] = @ + 1]
      /\ at' \in IF MaxQueueSize > 0
                 THEN Notify([at EXCEPT ![t] = "work"], "notFull", "put")
                 ELSE {[at EXCEPT ![t] = "work"]}
      /\ UNCHANGED <<owner, running, started, arg, offered>>
  BY <1>0 DEF IInv, Take, PoolTypeOK, NothingToTake
<1>2. /\ e \in Tasks /\ waitQueue \in Seq(Tasks) /\ waitQueue' \in Seq(Tasks)
      /\ Len(waitQueue) \in Nat /\ Len(waitQueue') \in Nat
      /\ Len(waitQueue') = Len(waitQueue) - 1 /\ MaxQueueSize \in Nat
  BY <1>0, <1>1, ThreadPoolAssumption DEF PoolTypeOK, NothingToTake
<1>3. PICK pcs \in [Threads -> Places] : pcs = [at EXCEPT ![t] = "work"]
  BY <1>1 DEF Places
<1>4. pcs[t] = "work" /\ \A u \in Threads \ {t} : pcs[u] = at[u]
  BY <1>1, <1>3
<1>5. IF MaxQueueSize > 0 THEN at' \in Notify(pcs, "notFull", "put") ELSE at' = pcs
  BY <1>1, <1>3
<1>6. /\ at' \in [Threads -> Places] /\ at'[t] = "work"
      /\ \A u \in Threads \ {t} : at'[u] = at[u] \/ (at[u] = "notFull" /\ at'[u] = "put")
  <2>1. CASE MaxQueueSize > 0
    <3>1. /\ at' \in [Threads -> Places]
          /\ \A u \in Threads : at'[u] = pcs[u] \/ (pcs[u] = "notFull" /\ at'[u] = "put")
      BY <1>5, <2>1, Notified DEF Places
    <3> QED BY <1>4, <3>1
  <2>2. CASE ~(MaxQueueSize > 0)
    BY <1>4, <1>5, <2>2
  <2> QED BY <2>1, <2>2
<1>7. SleepersOK'
  <2>1. \A x : /\ Number(at, x) \in Nat /\ Number(pcs, x) \in Nat
               /\ Number(pcs, x) = Number(at, x) + (IF x = "work" THEN 1 ELSE 0)
                                                - (IF x = at[t] THEN 1 ELSE 0)
    BY <1>4, Moved
  <2>2. /\ Number(pcs, "notEmpty") = Number(at, "notEmpty")
        /\ Number(pcs, "take") = Number(at, "take") - 1
        /\ Number(pcs, "notFull") = Number(at, "notFull")
        /\ Number(pcs, "put") = Number(at, "put")
    <3>1. at[t] = "take"
      BY <1>1
    <3> QED BY <2>1, <3>1
  <2>3. SleepersOK /\ running' = running
    BY <1>1 DEF IInv
  <2>4. CASE MaxQueueSize > 0
    <3>1. \A x \in Places :
            Number(at', x) = Number(pcs, x)
              + (IF x = "put" /\ Number(pcs, "notFull") > 0 THEN 1 ELSE 0)
              - (IF x = "notFull" /\ Number(pcs, "notFull") > 0 THEN 1 ELSE 0)
      BY <1>5, <2>4, Notified DEF Places
    <3>2. /\ Number(at', "notEmpty") = Number(at, "notEmpty")
          /\ Number(at', "take") = Number(at, "take") - 1
          /\ Number(at', "notFull") > 0 => Number(at, "notFull") > 0
          /\ Number(at, "notFull") > 0 => Number(at', "put") = Number(at, "put") + 1
      BY <2>1, <2>2, <3>1 DEF Places
    <3>3. /\ Number(at, "notEmpty") > 0 => running /\ Len(waitQueue) <= Number(at, "take")
          /\ Number(at, "notFull") > 0 =>
               running /\ MaxQueueSize - Len(waitQueue) <= Number(at, "put")
      BY <2>3 DEF SleepersOK
    <3>4. Number(at', "notEmpty") > 0 =>
            running' /\ Len(waitQueue') <= Number(at', "take")
      BY <1>2, <2>1, <2>3, <3>2, <3>3
    <3>5. Number(at', "notFull") > 0 =>
            running' /\ MaxQueueSize - Len(waitQueue') <= Number(at', "put")
      BY <1>2, <2>1, <2>3, <3>2, <3>3
    <3> QED BY <2>4, <3>4, <3>5 DEF SleepersOK
  <2>5. CASE ~(MaxQueueSize > 0)
    <3>1. at' = pcs
      BY <1>5, <2>5
    <3> QED BY <1>2, <2>1, <2>2, <2>3, <2>5, <3>1 DEF SleepersOK
  <2> QED BY <2>4, <2>5
<1>8. QueueOK'
  BY <1>2 DEF IInv, QueueOK
<1>9. PoolTypeOK'
  <2>1. body' \in [Threads -> Tasks \cup {NoTask}] /\ begun' \in [Tasks -> Nat]
    BY <1>1, <1>2 DEF PoolTypeOK
  <2> QED BY <1>1, <1>2, <1>6, <2>1 DEF PoolTypeOK
<1>10. ArgOK'
  BY <1>1, <1>6 DEF IInv, ArgOK
<1>11. OwnerOK'
  BY <1>1, <1>6 DEF IInv, OwnerOK, Workers, Threads
<1>12. ASSUME NEW k \in Tasks PROVE TaskOK(k)'
  <2>1. TaskOK(k) /\ owner' = owner /\ offered' = offered /\ arg' = arg
    BY <1>1 DEF IInv
  <2>2. begun'[k] = IF k = e THEN begun[k] + 1 ELSE begun[k]
    BY <1>1, <1>2 DEF PoolTypeOK
  <2>3. /\ k = e => ~NotIn(waitQueue, k)
        /\ NotIn(waitQueue, k) => NotIn(waitQueue', k)
        /\ OnceIn(waitQueue, k) => IF k = e THEN NotIn(waitQueue', k)
                                   ELSE OnceIn(waitQueue', k)
    <3>1. waitQueue' = Tail(waitQueue)
      BY <1>1
    <3> QED BY <1>0, <1>2, <3>1, Popped DEF NothingToTake
  <2>4. /\ Nobodys(arg', k) <=> Nobodys(arg, k)
        /\ OfOne(arg', k) <=> OfOne(arg, k)
    BY <2>1
  <2> QED BY <2>1, <2>2, <2>3, <2>4 DEF TaskOK
<1> QED BY <1>7, <1>8, <1>9, <1>10, <1>11, <1>12 DEF IInv

-----------------------------------------------------------------------------
(* The owner, the callers and the workers, in any order, keep IInv. *)
THEOREM Invariant == PoolSpec => []IInv
<1>1. IInv /\ [PoolNext]_poolVars => IInv'
  <2> SUFFICES ASSUME IInv, [PoolNext]_poolVars PROVE IInv'
    OBVIOUS
  <2>1. CASE OwnerStep \/ StopPool
    BY <2>1, StartPoolOK, StartWorkerOK, JoinPoolOK, StopPoolOK DEF OwnerStep
  <2>2. ASSUME NEW t \in Threads, Call(t) \/ SpuriousWake(t) \/ ThreadStep(t)
        PROVE  IInv'
    BY <2>2, CallOK, SpuriousWakeOK, PutWaitsOK, PutsOK, TestRunningOK,
       TakesNothingOK, TakesOK DEF ThreadStep
  <2>3. CASE UNCHANGED poolVars
    BY <2>3 DEF poolVars, IInv, PoolTypeOK, SleepersOK, Number, At, ArgOK, OwnerOK,
       QueueOK, TaskOK, NotIn, OnceIn, Nobodys, OfOne
  <2> QED BY <2>1, <2>2, <2>3 DEF PoolNext, PoolFinished
<1> QED BY InitOK, <1>1, PTL DEF PoolSpec

(* No number of workers, callers and tasks and no limit of the queue makes  *)
(* a thread sleep while there is something for it to do, loses a task or   *)
(* runs one twice (thread_pool.cpp:51-141).                                *)
THEOREM PoolIsSound == PoolSpec => []PoolSound
<1>1. IInv => NobodySleepsOnWork
  <2> SUFFICES ASSUME IInv PROVE NobodySleepsOnWork
    OBVIOUS
  <2>0. \A p : Waiting(p) = At(at, p)
    BY DEF Waiting, At
  <2>1. \A p : /\ Waiting(p) # {} <=> Number(at, p) > 0
               /\ Cardinality(Waiting(p)) = Number(at, p)
    BY <2>0, Numbers DEF Number
  <2> QED BY <2>1 DEF IInv, SleepersOK, NobodySleepsOnWork
<1>2. IInv => TasksAccounted
  <2> SUFFICES ASSUME IInv PROVE TasksAccounted
    OBVIOUS
  <2>1. MaxQueueSize > 0 => Len(waitQueue) <= MaxQueueSize
    BY DEF IInv, QueueOK
  <2>2. ASSUME NEW k \in offered
        PROVE  LET places == Cardinality({t \in Threads : arg[t] = k})
                             + Cardinality({i \in DOMAIN waitQueue : waitQueue[i] = k})
                             + begun[k]
               IN places = 1 \/ (~running /\ places = 0)
    <3> DEFINE with == {t \in Threads : arg[t] = k}
               queued == {i \in DOMAIN waitQueue : waitQueue[i] = k}
    <3>1. k \in Tasks /\ DOMAIN waitQueue = 1 .. Len(waitQueue) /\ TaskOK(k)
      BY DEF IInv, PoolTypeOK
    <3>2. /\ Nobodys(arg, k) => with = {}
          /\ OfOne(arg, k) => \E t : with = {t}
      BY DEF Nobodys, OfOne
    <3>3. /\ NotIn(waitQueue, k) => queued = {}
          /\ OnceIn(waitQueue, k) => \E i : queued = {i}
      BY <3>1 DEF NotIn, OnceIn
    <3> HIDE DEF with, queued
    <3>4. /\ Nobodys(arg, k) => Cardinality(with) = 0
          /\ OfOne(arg, k) => Cardinality(with) = 1
          /\ NotIn(waitQueue, k) => Cardinality(queued) = 0
          /\ OnceIn(waitQueue, k) => Cardinality(queued) = 1
      BY <3>2, <3>3, FS_EmptySet, FS_Singleton
    <3>5. owner \in {"joining", "stopped"} => ~running
      BY DEF IInv, OwnerOK
    <3>6. LET places == Cardinality(with) + Cardinality(queued) + begun[k]
          IN places = 1 \/ (~running /\ places = 0)
      BY <3>1, <3>4, <3>5 DEF TaskOK
    <3> QED BY <3>6 DEF with, queued
  <2> QED BY <2>1, <2>2 DEF TasksAccounted
<1>3. IInv => PoolTypeOK
  BY DEF IInv
<1> QED BY Invariant, <1>1, <1>2, <1>3, PTL DEF PoolSound
=============================================================================
