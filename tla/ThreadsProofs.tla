--------------------------- MODULE ThreadsProofs ---------------------------
(***************************************************************************)
(* Proofs about components of MCThreads that run threads of their own.     *)
(***************************************************************************)
EXTENDS EventLoopThread, CoSchedule, Thpool, AsyncLogging,
        FiniteSetTheorems, SequenceTheorems, TLAPS

-----------------------------------------------------------------------------
(* EventLoopThread.                                                         *)

(* Where the two threads are, and what they count.                          *)
PlacesOK ==
  /\ user \in {"new", "latch", "wait", "returned", "push", "pushed", "test",
               "quit", "wake", "join", "gone", "undefined"}
  /\ worker \in {"unborn", "start", "construct", "callback", "publish", "enter",
                 "while", "poll", "read", "handle", "run", "leave", "unlock",
                 "unwind", "ended", "undefined"}
  /\ latch \in 0..1 /\ pending \in 0..MaxPending
  /\ result \in {"none", "loop", "null"}
  /\ loop \in {"none", "live", "dead"}

FlagsOK ==
  /\ waiting \in BOOLEAN /\ loop_ \in BOOLEAN /\ exiting \in BOOLEAN
  /\ quit \in BOOLEAN /\ wakeup \in BOOLEAN /\ prepared \in BOOLEAN

(* A worker that is on its way out of ThreadFunc has quit and has set loop_ *)
(* back for good.                                                          *)
Left == {"unlock", "unwind", "ended", "undefined"}

(* loop_ is set between Publish and Leave only, exiting_ while the user     *)
(* still waits only by Leave, and quit_ is not cleared after that.  There  *)
(* is room for the functor the user is about to push.                      *)
ThreadInv ==
  /\ user = "new" => worker = "unborn" /\ ~exiting
  /\ user = "push" => pending < MaxPending
  /\ worker \in {"publish", "enter", "leave"} \/ InLoop \/ loop_ => prepared
  /\ worker = "leave" => quit
  /\ worker \in Left \ {"undefined"} => quit /\ ~loop_
  /\ user \in {"latch", "wait"} /\ exiting => worker \in Left \ {"undefined"}
  /\ result = "loop" => prepared
  /\ result = "null" => worker \in Left /\ quit /\ ~loop_

(* What the worker does inside loop(). *)
IterationStep ==
  \/ LoopTest \/ PollOnWakeup \/ PollOnEvent \/ HandleWakeupRead \/ UserCodeQuits
  \/ SwapPending \/ FunctorsDone

LEMMA InitThreadInv == Init => TypeOK /\ ThreadInv
<1> SUFFICES ASSUME Init PROVE TypeOK /\ ThreadInv
  OBVIOUS
<1>1. FlagsOK
  BY Zenon DEF Init, FlagsOK
<1>2. PlacesOK
  BY MaxPendingAssumption DEF Init, PlacesOK
<1>3. ThreadInv
  BY DEF Init, ThreadInv, InLoop, Left
<1> QED BY <1>1, <1>2, <1>3 DEF TypeOK, FlagsOK, PlacesOK

LEMMA NextFlags == TypeOK /\ [Next]_vars => FlagsOK'
<1> SUFFICES ASSUME TypeOK, [Next]_vars PROVE FlagsOK'
  OBVIOUS
<1> USE DEF TypeOK, FlagsOK, userVars, workerVars
<1>1. CASE ThreadStarted \/ StartLoopWait \/ StartLoopReturn
  BY <1>1, Zenon DEF ThreadStarted, StartLoopWait, StartLoopReturn
<1>2. CASE DestroyTest \/ DestroyQuit \/ DestroyWakeup \/ DestroyJoin
  BY <1>2, Zenon DEF DestroyTest, DestroyQuit, DestroyWakeup, DestroyJoin,
                     Undefined, Wakeup
<1>3. CASE ThreadStart \/ SpuriousWakeup \/ DestroyBegin
  BY <1>3, Zenon DEF ThreadStart, SpuriousWakeup, DestroyBegin
<1>4. CASE QueueFunctor \/ QueuePush \/ QueueWakeup
  BY <1>4, Zenon DEF QueueFunctor, QueuePush, QueueWakeup, Undefined, Wakeup
<1>5. CASE IterationStep
  BY <1>5, Zenon DEF IterationStep, LoopTest, PollOnWakeup, PollOnEvent, HandleWakeupRead,
                     UserCodeQuits, SwapPending, FunctorsDone
<1>6. CASE CountDown \/ Construct \/ Callback \/ Publish \/ LoopEnter
  BY <1>6, Zenon DEF CountDown, Construct, Callback, Publish, LoopEnter
<1>7. CASE Leave \/ Unlock \/ Unwind
  BY <1>7, Zenon DEF Leave, Unlock, Unwind, Undefined
<1>8. CASE UNCHANGED vars
  BY <1>8, Zenon DEF vars
<1> HIDE DEF TypeOK, FlagsOK
<1> QED BY <1>1, <1>2, <1>3, <1>4, <1>5, <1>6, <1>7, <1>8, Zenon
        DEF Next, UserStep, WorkerStep, Free, Finished, IterationStep

LEMMA NextPlaces == TypeOK /\ ThreadInv /\ [Next]_vars => PlacesOK'
<1> SUFFICES ASSUME TypeOK, ThreadInv, [Next]_vars PROVE PlacesOK'
  OBVIOUS
<1> USE MaxPendingAssumption DEF TypeOK, PlacesOK, userVars, workerVars
<1>1. CASE ThreadStarted \/ StartLoopWait \/ StartLoopReturn
  BY <1>1 DEF ThreadStarted, StartLoopWait, StartLoopReturn
<1>2. CASE DestroyTest \/ DestroyQuit \/ DestroyWakeup \/ DestroyJoin
  BY <1>2 DEF DestroyTest, DestroyQuit, DestroyWakeup, DestroyJoin, Undefined
<1>3. CASE ThreadStart \/ SpuriousWakeup \/ DestroyBegin
  BY <1>3 DEF ThreadStart, SpuriousWakeup, DestroyBegin
<1>4. CASE QueueFunctor \/ QueuePush \/ QueueWakeup
  BY <1>4 DEF QueueFunctor, QueuePush, QueueWakeup, Undefined, ThreadInv
<1>5. CASE IterationStep
  BY <1>5 DEF IterationStep, LoopTest, PollOnWakeup, PollOnEvent, HandleWakeupRead,
              UserCodeQuits, SwapPending, FunctorsDone, Step
<1>6. CASE CountDown \/ Construct \/ Callback \/ Publish \/ LoopEnter
  BY <1>6 DEF CountDown, Construct, Callback, Publish, LoopEnter, Step
<1>7. CASE Leave \/ Unlock \/ Unwind
  BY <1>7 DEF Leave, Unlock, Unwind, RunByDestructor, Undefined, Step
<1>8. CASE UNCHANGED vars
  BY <1>8 DEF vars
<1> HIDE DEF TypeOK, PlacesOK
<1> QED BY <1>1, <1>2, <1>3, <1>4, <1>5, <1>6, <1>7, <1>8, Zenon
        DEF Next, UserStep, WorkerStep, Free, Finished, IterationStep

LEMMA NextThreadInv == TypeOK /\ ThreadInv /\ [Next]_vars => ThreadInv'
<1> SUFFICES ASSUME TypeOK, ThreadInv, [Next]_vars PROVE ThreadInv'
  OBVIOUS
<1> USE DEF ThreadInv, InLoop, Left, userVars, workerVars
<1>1. CASE ThreadStarted \/ StartLoopWait \/ StartLoopReturn
  BY <1>1 DEF ThreadStarted, StartLoopWait, StartLoopReturn, MustWait
<1>2. CASE DestroyTest \/ DestroyJoin
  BY <1>2 DEF DestroyTest, DestroyJoin
<1>3. CASE DestroyQuit
  BY <1>3 DEF DestroyQuit, Undefined
<1>4. CASE DestroyWakeup
  BY <1>4 DEF DestroyWakeup, Undefined, Wakeup
<1>5. CASE ThreadStart \/ SpuriousWakeup \/ DestroyBegin
  BY <1>5 DEF ThreadStart, SpuriousWakeup, DestroyBegin
<1>6. CASE QueueFunctor \/ QueuePush \/ QueueWakeup
  BY <1>6 DEF QueueFunctor, QueuePush, QueueWakeup, Undefined, Wakeup
<1>7. CASE IterationStep
  BY <1>7, MaxPendingAssumption
  DEF IterationStep, LoopTest, PollOnWakeup, PollOnEvent, HandleWakeupRead, UserCodeQuits,
      SwapPending, FunctorsDone, Step, TypeOK
<1>8. CASE CountDown \/ Construct \/ Callback
  BY <1>8 DEF CountDown, Construct, Callback, Step
<1>9. CASE Publish \/ LoopEnter
  BY <1>9 DEF Publish, LoopEnter, Step
<1>10. CASE Leave
  BY <1>10 DEF Leave, Undefined, Step
<1>11. CASE Unlock \/ Unwind
  BY <1>11, MaxPendingAssumption
  DEF Unlock, Unwind, RunByDestructor, Undefined, Step, TypeOK
<1>12. CASE UNCHANGED vars
  <2>1. UNCHANGED <<user, worker, loop_, exiting, result, quit, prepared, pending>>
    BY <1>12, Zenon DEF vars
  <2> QED BY <2>1
<1> HIDE DEF ThreadInv
<1> QED BY <1>1, <1>2, <1>3, <1>4, <1>5, <1>6, <1>7, <1>8, <1>9, <1>10, <1>11, <1>12, Zenon
        DEF Next, UserStep, WorkerStep, Free, Finished, IterationStep

(* StartLoop hands out a loop that the thread's callback has prepared, and  *)
(* null only for one that has come and gone, whenever the user destroys    *)
(* the object and whenever the loop quits (event_loop_thread.cpp:46-100).  *)
THEOREM StartLoopIsHonest == Spec => []StartLoopHonest
<1>1. TypeOK /\ ThreadInv /\ [Next]_vars => TypeOK' /\ ThreadInv'
  <2>1. FlagsOK' /\ PlacesOK' => TypeOK'
    BY DEF TypeOK, FlagsOK, PlacesOK
  <2> QED BY <2>1, NextFlags, NextPlaces, NextThreadInv
<1>2. TypeOK /\ ThreadInv => StartLoopHonest
  BY DEF ThreadInv, StartLoopHonest
<1> QED BY <1>1, <1>2, InitThreadInv, PTL DEF Spec

-----------------------------------------------------------------------------
(* CoSchedule.                                                              *)

(* When s is run through in turn from position p on, position i comes       *)
(* before position j.                                                      *)
Ahead(i, j, p) == \/ p <= i /\ i < j
                  \/ i < j /\ j < p
                  \/ j < p /\ p <= i

(* Who is in s and has been resumed since another in s was is behind that   *)
(* one in the order from p on; r says that s[p] runs.                      *)
InTurn(s, p, t, r) ==
  /\ p \in 1 .. Len(s)
  /\ \A i, j \in 1 .. Len(s) : s[i] = s[j] => i = j
  /\ \A i, j \in 1 .. Len(s) : t[s[i]][s[j]] \in {0, 1}
  /\ \A i, j \in 1 .. Len(s) : t[s[i]][s[j]] # 0 => Ahead(i, j, p) \/ (r /\ j = p)
  /\ r => \A j \in 1 .. Len(s) : t[s[p]][s[j]] = 0

(* Turns are not counted for who is not in the list.                       *)
CountedIn(s, t) ==
  \A x, y \in Coroutines :
    t[x][y] # 0 => (\E i \in 1 .. Len(s) : s[i] = x) /\ (\E j \in 1 .. Len(s) : s[j] = y)

(* What comes behind s[p] has moved up by one.                              *)
Without(s, p, l) ==
  \A k \in 1 .. Len(s) - 1 : l[k] = s[IF k < p THEN k ELSE k + 1]

(* From t to u the turns of c and those after it are forgotten.              *)
Forgets(c, t, u) ==
  \A x, y \in Coroutines : u[x][y] = IF x = c \/ y = c THEN 0 ELSE t[x][y]

Counts == [Coroutines -> [Coroutines -> Nat]]

(* The list, who is next in it, and whose turn it is.                      *)
ListOK ==
  /\ cos \in Seq(Coroutines) /\ turns \in Counts
  /\ CountedIn(cos, turns)
  /\ cos = <<>> => cur = NoCoroutine
  /\ cos # <<>> => \E p \in 1 .. Len(cos) :
                     cos[p] = cur /\ InTurn(cos, p, turns, runner = "co")
  /\ runner = "co" => cos # <<>> /\ resumed = cur
  /\ runner # "co" => resumed = NoCoroutine

(* The rest of the types.                                                  *)
StatesOK ==
  /\ status \in [Coroutines -> {"none", "ready", "running", "suspend", "dead"}]
  /\ runner \in {"out", "loop", "co", "ending"}
  /\ stopper \in {"idle", "wait", "woken"}

CoFlagsOK == stopFlag \in BOOLEAN /\ stoped \in BOOLEAN /\ rerun \in BOOLEAN

CoInv == ListOK /\ StatesOK /\ CoFlagsOK

LEMMA Resumes ==
  ASSUME NEW s \in Seq(Coroutines), NEW p, NEW t \in Counts, NEW u,
         InTurn(s, p, t, FALSE),
         \A x, y \in Coroutines :
            u[x][y] = IF x = s[p] THEN 0
                      ELSE IF y = s[p] /\ x \in Range(s) THEN t[x][y] + 1 ELSE t[x][y]
  PROVE  InTurn(s, p, u, TRUE)
<1>1. \A i \in 1 .. Len(s) : s[i] \in Coroutines /\ s[i] \in Range(s)
  BY DEF Range
<1>2. ASSUME NEW i \in 1 .. Len(s), NEW j \in 1 .. Len(s)
      PROVE  u[s[i]][s[j]] = IF i = p THEN 0 ELSE IF j = p THEN 1 ELSE t[s[i]][s[j]]
  <2>1. s[i] \in Coroutines /\ s[j] \in Coroutines /\ s[i] \in Range(s)
    BY <1>1
  <2>2. (s[i] = s[p] <=> i = p) /\ (s[j] = s[p] <=> j = p)
    BY DEF InTurn
  <2>3. p \in Nat /\ ~Ahead(i, p, p)
    BY DEF InTurn, Ahead
  <2>4. j = p => t[s[i]][s[j]] = 0
    BY <2>3 DEF InTurn
  <2>5. t[s[i]][s[j]] \in Nat
    BY <2>1 DEF Counts
  <2> QED BY <2>1, <2>2, <2>4, <2>5
<1> QED BY <1>2 DEF InTurn

(* One that yields is the last of the next round.                          *)
LEMMA Yields ==
  ASSUME NEW s \in Seq(Coroutines), NEW p, NEW t, InTurn(s, p, t, TRUE)
  PROVE  InTurn(s, IF p = Len(s) THEN 1 ELSE p + 1, t, FALSE)
<1> DEFINE q == IF p = Len(s) THEN 1 ELSE p + 1
<1>1. p \in 1 .. Len(s) /\ q \in 1 .. Len(s) /\ Len(s) \in Nat
  BY DEF InTurn
<1>2. ASSUME NEW i \in 1 .. Len(s), NEW j \in 1 .. Len(s), t[s[i]][s[j]] # 0
      PROVE  Ahead(i, j, q)
  <2>1. Ahead(i, j, p) \/ j = p
    BY <1>2 DEF InTurn
  <2>2. i # p
    BY <1>2 DEF InTurn
  <2> QED BY <1>1, <2>1, <2>2 DEF Ahead
<1> HIDE DEF q
<1>3. InTurn(s, q, t, FALSE)
  BY <1>1, <1>2 DEF InTurn
<1> QED BY <1>3 DEF q

(* One that ends leaves the others in their order.                         *)
LEMMA Ends ==
  ASSUME NEW s \in Seq(Coroutines), NEW p, NEW t, NEW u, InTurn(s, p, t, TRUE), Len(s) > 1,
         Forgets(s[p], t, u)
  PROVE  /\ RemoveAt(s, p) \in Seq(Coroutines)
         /\ Len(RemoveAt(s, p)) = Len(s) - 1
         /\ RemoveAt(s, p)[IF p = Len(s) THEN 1 ELSE p] = s[IF p = Len(s) THEN 1 ELSE p + 1]
         /\ Without(s, p, RemoveAt(s, p))
         /\ InTurn(RemoveAt(s, p), IF p = Len(s) THEN 1 ELSE p, u, FALSE)
<1> DEFINE l == RemoveAt(s, p)
           q == IF p = Len(s) THEN 1 ELSE p
           Old(k) == IF k < p THEN k ELSE k + 1
<1>1. p \in 1 .. Len(s) /\ q \in 1 .. Len(s) - 1 /\ Len(s) \in Nat
  BY DEF InTurn
<1> DEFINE a == SubSeq(s, 1, p - 1)
           b == SubSeq(s, p + 1, Len(s))
<1>2. /\ a \in Seq(Coroutines) /\ b \in Seq(Coroutines)
      /\ Len(a) = p - 1 /\ Len(b) = Len(s) - p
      /\ \A k \in 1 .. p - 1 : a[k] = s[k]
      /\ \A k \in 1 .. Len(s) - p : b[k] = s[p + k]
  BY <1>1
<1>21. l = a \o b
  BY DEF RemoveAt
<1> HIDE DEF l, a, b
<1>3. l \in Seq(Coroutines) /\ Len(l) = Len(s) - 1
  BY <1>1, <1>2, <1>21
<1>4. ASSUME NEW k \in 1 .. Len(s) - 1 PROVE l[k] = s[Old(k)]
  <2>1. CASE k < p
    BY <1>1, <1>2, <1>21, <2>1
  <2>2. CASE ~(k < p)
    <3>1. k - (p - 1) \in 1 .. Len(s) - p /\ p + (k - (p - 1)) = k + 1
      BY <1>1, <2>2
    <3>2. l[k] = b[k - (p - 1)]
      BY <1>1, <1>2, <1>21, <2>2
    <3> QED BY <1>2, <2>2, <3>1, <3>2
  <2> QED BY <2>1, <2>2
<1>5. \A k \in 1 .. Len(s) - 1 : Old(k) \in 1 .. Len(s) /\ Old(k) # p
  BY <1>1
<1>6. Old(q) = IF p = Len(s) THEN 1 ELSE p + 1
  BY <1>1
<1>7. ASSUME NEW i \in 1 .. Len(s) - 1, NEW j \in 1 .. Len(s) - 1
      PROVE  /\ l[i] = l[j] => i = j
             /\ u[l[i]][l[j]] = t[s[Old(i)]][s[Old(j)]]
             /\ Ahead(Old(i), Old(j), p) => Ahead(i, j, q)
  <2>1. Old(i) = Old(j) => i = j
    BY <1>1
  <2>2. l[i] = l[j] => i = j
    BY <1>4, <1>5, <2>1 DEF InTurn
  <2>3. Ahead(Old(i), Old(j), p) => Ahead(i, j, q)
    BY <1>1 DEF Ahead
  <2> HIDE DEF Old
  <2>4. /\ s[Old(i)] \in Coroutines /\ s[Old(j)] \in Coroutines
        /\ s[Old(i)] # s[p] /\ s[Old(j)] # s[p]
    BY <1>1, <1>5 DEF InTurn
  <2>5. u[s[Old(i)]][s[Old(j)]] = t[s[Old(i)]][s[Old(j)]]
    BY <2>4 DEF Forgets
  <2> QED BY <1>4, <2>2, <2>3, <2>5
<1>8. l[q] = s[Old(q)]
  BY <1>1, <1>4
<1> HIDE DEF q
<1>9. InTurn(l, q, u, FALSE)
  <2>1. ASSUME NEW i \in 1 .. Len(s) - 1, NEW j \in 1 .. Len(s) - 1
        PROVE  /\ u[l[i]][l[j]] \in {0, 1}
               /\ u[l[i]][l[j]] # 0 => Ahead(i, j, q)
    <3> HIDE DEF Old
    <3>1. t[s[Old(i)]][s[Old(j)]] \in {0, 1}
      BY <1>5 DEF InTurn
    <3>2. t[s[Old(i)]][s[Old(j)]] # 0 => Ahead(Old(i), Old(j), p)
      BY <1>5 DEF InTurn
    <3> QED BY <1>7, <3>1, <3>2
  <2> QED BY <1>1, <1>3, <1>7, <2>1 DEF InTurn
<1>10. l[q] = s[IF p = Len(s) THEN 1 ELSE p + 1]
  BY <1>6, <1>8
<1> QED BY <1>3, <1>4, <1>9, <1>10 DEF l, q, Without

(* One that is added comes after the others.                               *)
LEMMA Adds ==
  ASSUME NEW s \in Seq(Coroutines), NEW p, NEW t, NEW r \in BOOLEAN,
         InTurn(s, p, t, r), CountedIn(s, t),
         NEW c \in Coroutines, \A i \in 1 .. Len(s) : s[i] # c
  PROVE  InTurn(Append(s, c), p, t, r) /\ Append(s, c)[p] = s[p]
<1> DEFINE l == Append(s, c)
<1>1. /\ Len(l) = Len(s) + 1 /\ Len(s) \in Nat /\ p \in 1 .. Len(s)
      /\ l[Len(s) + 1] = c /\ \A i \in 1 .. Len(s) : l[i] = s[i]
  BY DEF InTurn
<1>2. \A i \in 1 .. Len(l) : i \in 1 .. Len(s) \/ i = Len(s) + 1
  BY <1>1
<1> HIDE DEF l
<1>3. ASSUME NEW i \in 1 .. Len(l), NEW j \in 1 .. Len(l), l[i] = l[j] PROVE i = j
  BY <1>1, <1>2, <1>3 DEF InTurn
<1>4. \A i \in 1 .. Len(l) : l[i] \in Coroutines
  BY <1>1, <1>2
<1>5. ASSUME NEW i \in 1 .. Len(l), NEW j \in 1 .. Len(l), t[l[i]][l[j]] # 0
      PROVE  i \in 1 .. Len(s) /\ j \in 1 .. Len(s)
  <2>1. (\E k \in 1 .. Len(s) : s[k] = l[i]) /\ (\E k \in 1 .. Len(s) : s[k] = l[j])
    BY <1>4, <1>5 DEF CountedIn
  <2> QED BY <1>1, <1>2, <2>1
<1>6. ASSUME NEW i \in 1 .. Len(l), NEW j \in 1 .. Len(l)
      PROVE  /\ t[l[i]][l[j]] \in {0, 1}
             /\ t[l[i]][l[j]] # 0 => Ahead(i, j, p) \/ (r /\ j = p)
  BY <1>1, <1>5 DEF InTurn
<1>7. ASSUME r, NEW j \in 1 .. Len(l) PROVE t[l[p]][l[j]] = 0
  <2>1. p \in 1 .. Len(l) /\ l[p] = s[p]
    BY <1>1
  <2>2. CASE j \in 1 .. Len(s)
    BY <1>1, <1>7, <2>1, <2>2 DEF InTurn
  <2>3. CASE j \notin 1 .. Len(s)
    BY <1>5, <2>1, <2>3
  <2> QED BY <2>2, <2>3
<1>8. InTurn(l, p, t, r)
  <2>1. p \in 1 .. Len(l)
    BY <1>1
  <2> QED BY <1>3, <1>6, <1>7, <2>1 DEF InTurn
<1> QED BY <1>1, <1>8 DEF l

(* The node of a coroutine in the list is where it is.                      *)
LEMMA Found ==
  ASSUME NEW p \in 1 .. Len(cos), cos \in Seq(Coroutines),
         \A i, j \in 1 .. Len(cos) : cos[i] = cos[j] => i = j
  PROVE  Position(cos[p]) = p
<1>1. DOMAIN cos = 1 .. Len(cos)
  OBVIOUS
<1> QED BY <1>1 DEF Position

LEMMA InitCoInv == CoInit => CoInv
<1> SUFFICES ASSUME CoInit PROVE CoInv
  OBVIOUS
<1>1. CoFlagsOK
  BY Zenon DEF CoInit, CoFlagsOK
<1>2. turns \in Counts /\ \A x, y \in Coroutines : turns[x][y] = 0
  BY DEF CoInit, Counts
<1>3. ListOK
  BY <1>2 DEF CoInit, ListOK, CountedIn
<1>4. StatesOK
  BY DEF CoInit, StatesOK
<1> QED BY <1>1, <1>3, <1>4 DEF CoInv

LEMMA NextCoFlags == CoInv /\ [CoNext]_coVars => CoFlagsOK'
<1> SUFFICES ASSUME CoInv, [CoNext]_coVars PROVE CoFlagsOK'
  OBVIOUS
<1> USE DEF CoInv, CoFlagsOK
<1>1. ASSUME NEW c \in Coroutines, Add(c) PROVE CoFlagsOK'
  BY <1>1, Zenon DEF Add
<1>2. CASE RunCoroutines \/ DestroySchedule
  BY <1>2, Zenon DEF RunCoroutines, DestroySchedule
<1>3. CASE LeaveEntry \/ Resume \/ Yield \/ Return \/ EndRun
  BY <1>3, Zenon DEF LeaveEntry, Resume, Yield, Return, EndRun
<1>4. CASE Stop \/ StopWakes \/ SpuriousStopWake
  BY <1>4, Zenon DEF Stop, StopWakes, SpuriousStopWake
<1>5. CASE UNCHANGED coVars
  BY <1>5, Zenon DEF coVars
<1> HIDE DEF CoInv, CoFlagsOK
<1> QED BY <1>1, <1>2, <1>3, <1>4, <1>5, Zenon DEF CoNext, CoThread

LEMMA NextStates == CoInv /\ [CoNext]_coVars => StatesOK'
<1> SUFFICES ASSUME CoInv, [CoNext]_coVars PROVE StatesOK'
  OBVIOUS
<1> USE DEF CoInv, StatesOK
<1>1. ASSUME NEW c \in Coroutines, Add(c) PROVE StatesOK'
  BY <1>1 DEF Add
<1>2. CASE RunCoroutines
  BY <1>2 DEF RunCoroutines
<1>3. CASE DestroySchedule
  BY <1>3 DEF DestroySchedule
<1>4. CASE LeaveEntry \/ Resume \/ Yield
  BY <1>4 DEF LeaveEntry, Resume, Yield
<1>5. CASE Return
  BY <1>5 DEF Return
<1>6. CASE EndRun
  BY <1>6 DEF EndRun, NotifyStopper, Woken
<1>7. CASE Stop \/ StopWakes \/ SpuriousStopWake
  BY <1>7 DEF Stop, StopWakes, SpuriousStopWake
<1>8. CASE UNCHANGED coVars
  <2>1. UNCHANGED <<status, runner, stopper>>
    BY <1>8, Zenon DEF coVars
  <2> QED BY <2>1
<1> HIDE DEF CoInv, StatesOK
<1> QED BY <1>1, <1>2, <1>3, <1>4, <1>5, <1>6, <1>7, <1>8, Zenon DEF CoNext, CoThread

LEMMA AddList == ASSUME CoInv, NEW c \in Coroutines, Add(c) PROVE ListOK'
<1> DEFINE l == Append(cos, c)
<1>1. /\ cos' = l /\ cur' = IF cur = NoCoroutine THEN c ELSE cur
      /\ UNCHANGED <<resumed, runner, turns>>
      /\ \A i \in 1 .. Len(cos) : cos[i] # c
      /\ cos \in Seq(Coroutines) /\ turns \in Counts
  BY DEF Add, CoInv, ListOK, Range
<1>2. /\ l \in Seq(Coroutines) /\ l # <<>> /\ Len(l) = Len(cos) + 1 /\ Len(cos) \in Nat
      /\ l[Len(cos) + 1] = c /\ \A i \in 1 .. Len(cos) : l[i] = cos[i]
  BY <1>1
<1>3. CountedIn(l, turns)
  <2> HIDE DEF l
  <2>1. \A i \in 1 .. Len(cos) : i \in 1 .. Len(l)
    BY <1>2
  <2>2. \A x : (\E i \in 1 .. Len(cos) : cos[i] = x) => \E i \in 1 .. Len(l) : l[i] = x
    BY <1>2, <2>1
  <2> QED BY <2>2 DEF CoInv, ListOK, CountedIn
<1>4. \E p \in 1 .. Len(l) : l[p] = cur' /\ InTurn(l, p, turns, runner = "co")
  <2>1. CASE cos = <<>>
    <3>1. cur' = c /\ runner # "co" /\ Len(cos) = 0
      BY <1>1, <2>1 DEF CoInv, ListOK
    <3>2. turns[c][c] = 0
      BY <3>1 DEF CoInv, ListOK, CountedIn
    <3>3. Len(l) = 1 /\ l[1] = c
      BY <1>2, <3>1
    <3> HIDE DEF l
    <3>4. InTurn(l, 1, turns, runner = "co")
      BY <3>1, <3>2, <3>3 DEF InTurn
    <3> QED BY <3>1, <3>3, <3>4
  <2>2. CASE cos # <<>>
    <3>1. PICK p \in 1 .. Len(cos) : cos[p] = cur /\ InTurn(cos, p, turns, runner = "co")
      BY <2>2 DEF CoInv, ListOK
    <3>2. cur' = cur
      BY <1>1, <3>1, CoScheduleAssumption
    <3>3. InTurn(l, p, turns, runner = "co") /\ l[p] = cur
      BY <1>1, <3>1, Adds DEF CoInv, ListOK
    <3>4. p \in 1 .. Len(l)
      BY <1>2
    <3> QED BY <3>2, <3>3, <3>4
  <2> QED BY <2>1, <2>2
<1> HIDE DEF l
<1>5. runner = "co" => cos # <<>> /\ resumed = cur /\ cur # NoCoroutine
  <2> SUFFICES ASSUME runner = "co" PROVE cos # <<>> /\ resumed = cur /\ cur # NoCoroutine
    OBVIOUS
  <2>1. cos # <<>> /\ resumed = cur
    BY DEF CoInv, ListOK
  <2>2. PICK p \in 1 .. Len(cos) : cos[p] = cur
    BY <2>1 DEF CoInv, ListOK
  <2> QED BY <1>1, <2>1, <2>2, CoScheduleAssumption
<1> QED BY <1>1, <1>2, <1>3, <1>4, <1>5 DEF CoInv, ListOK

LEMMA ResumeList == ASSUME CoInv, Resume PROVE ListOK'
<1>1. /\ runner = "loop" /\ runner' = "co" /\ cos # <<>>
      /\ resumed' = cur /\ turns' = Counted(cur) /\ UNCHANGED <<cos, cur>>
      /\ cos \in Seq(Coroutines) /\ turns \in Counts
  BY DEF Resume, CoInv, ListOK
<1>2. PICK p \in 1 .. Len(cos) : cos[p] = cur /\ InTurn(cos, p, turns, FALSE)
  BY <1>1 DEF CoInv, ListOK
<1>3. cur \in Coroutines
  BY <1>1, <1>2
<1>4. turns' \in Counts
  <2>1. \A x \in Coroutines : turns[x] \in [Coroutines -> Nat]
    BY <1>1 DEF Counts
  <2>2. \A x \in Coroutines : [turns[x] EXCEPT ![cur] = @ + 1] \in [Coroutines -> Nat]
    BY <1>3, <2>1
  <2>3. Counted(cur) \in Counts
    BY <2>1, <2>2 DEF Counted, Counts
  <2> QED BY <1>1, <2>3
<1>5. \A x, y \in Coroutines :
        turns'[x][y] = IF x = cur THEN 0
                       ELSE IF y = cur /\ x \in Range(cos) THEN turns[x][y] + 1 ELSE turns[x][y]
  <2> SUFFICES ASSUME NEW x \in Coroutines, NEW y \in Coroutines
               PROVE  turns'[x][y] = IF x = cur THEN 0
                                     ELSE IF y = cur /\ x \in Range(cos)
                                     THEN turns[x][y] + 1 ELSE turns[x][y]
    OBVIOUS
  <2>1. turns'[x] = IF x = cur THEN [z \in Coroutines |-> 0]
                    ELSE IF x \in Range(cos) THEN [turns[x] EXCEPT ![cur] = @ + 1]
                    ELSE turns[x]
    BY <1>1 DEF Counted
  <2>2. turns[x] \in [Coroutines -> Nat]
    BY <1>1 DEF Counts
  <2>3. CASE x = cur
    BY <2>1, <2>3
  <2>4. CASE x # cur /\ x \in Range(cos)
    BY <1>3, <2>1, <2>2, <2>4
  <2>5. CASE x # cur /\ x \notin Range(cos)
    BY <2>1, <2>5
  <2> QED BY <2>3, <2>4, <2>5
<1>6. CountedIn(cos, turns')
  <2> SUFFICES ASSUME NEW x \in Coroutines, NEW y \in Coroutines, turns'[x][y] # 0
               PROVE  /\ \E i \in 1 .. Len(cos) : cos[i] = x
                      /\ \E j \in 1 .. Len(cos) : cos[j] = y
    BY DEF CountedIn
  <2>1. CASE y = cur /\ x \in Range(cos)
    BY <1>1, <1>2, <2>1 DEF Range
  <2>2. CASE turns[x][y] # 0
    BY <2>2 DEF CoInv, ListOK, CountedIn
  <2> QED BY <1>5, <2>1, <2>2
<1>7. InTurn(cos, p, turns', TRUE)
  <2>1. /\ cos \in Seq(Coroutines) /\ turns \in Counts
        /\ InTurn(cos, p, turns, FALSE)
    BY <1>1, <1>2
  <2>2. \A x, y \in Coroutines :
          turns'[x][y] = IF x = cos[p] THEN 0
                         ELSE IF y = cos[p] /\ x \in Range(cos)
                         THEN turns[x][y] + 1 ELSE turns[x][y]
    BY <1>2, <1>5, Zenon
  <2> QED BY <2>1, <2>2, Resumes
<1> QED BY <1>1, <1>2, <1>4, <1>6, <1>7 DEF ListOK

LEMMA YieldList == ASSUME CoInv, Yield PROVE ListOK'
<1>1. /\ runner = "co" /\ runner' = "loop" /\ cos # <<>>
      /\ resumed' = NoCoroutine /\ cur' = After(cur) /\ UNCHANGED <<cos, turns>>
      /\ cos \in Seq(Coroutines) /\ turns \in Counts /\ CountedIn(cos, turns)
  BY DEF Yield, CoInv, ListOK
<1>2. PICK p \in 1 .. Len(cos) : cos[p] = cur /\ InTurn(cos, p, turns, TRUE)
  BY <1>1 DEF CoInv, ListOK
<1>3. Position(cur) = p
  BY <1>1, <1>2, Found DEF InTurn
<1> DEFINE q == IF p = Len(cos) THEN 1 ELSE p + 1
<1>4. InTurn(cos, q, turns, FALSE)
  BY <1>1, <1>2, Yields
<1>5. cur' = cos[q]
  BY <1>1, <1>3 DEF After
<1> HIDE DEF q
<1>6. q \in 1 .. Len(cos)
  BY <1>4 DEF InTurn
<1> QED BY <1>1, <1>4, <1>5, <1>6 DEF ListOK

LEMMA ReturnList == ASSUME CoInv, Return PROVE ListOK'
<1> DEFINE left == RemoveAt(cos, Position(cur))
<1>1. /\ runner = "co" /\ cos # <<>> /\ resumed = cur /\ resumed' = NoCoroutine
      /\ cos \in Seq(Coroutines) /\ turns \in Counts
  BY DEF Return, CoInv, ListOK
<1>2. /\ cos' = left
      /\ cur' = IF left = <<>> THEN NoCoroutine ELSE After(cur)
      /\ runner' = IF left = <<>> THEN "ending" ELSE "loop"
      /\ turns' = [x \in Coroutines |-> IF x = cur THEN [y \in Coroutines |-> 0]
                                        ELSE [turns[x] EXCEPT ![cur] = 0]]
  BY <1>1, Zenon DEF Return, NextLeft
<1>3. PICK p \in 1 .. Len(cos) : cos[p] = cur /\ InTurn(cos, p, turns, TRUE)
  BY <1>1 DEF CoInv, ListOK
<1>4. Position(cur) = p /\ cur \in Coroutines
  BY <1>1, <1>3, Found DEF InTurn
<1>5. turns' \in Counts
  BY <1>1, <1>2, <1>4 DEF Counts
<1>6. \A x, y \in Coroutines : turns'[x][y] = IF x = cur \/ y = cur THEN 0 ELSE turns[x][y]
  BY <1>1, <1>2, <1>4 DEF Counts
<1>7. CASE Len(cos) > 1
  <2> DEFINE q == IF p = Len(cos) THEN 1 ELSE p
  <2>1. /\ left \in Seq(Coroutines) /\ Len(left) = Len(cos) - 1
        /\ left[q] = cos[IF p = Len(cos) THEN 1 ELSE p + 1]
        /\ Without(cos, p, left)
        /\ InTurn(left, q, turns', FALSE)
    <3>1. cos \in Seq(Coroutines) /\ InTurn(cos, p, turns, TRUE) /\ left = RemoveAt(cos, p)
      BY <1>1, <1>3, <1>4, Zenon
    <3>2. Forgets(cos[p], turns, turns')
      BY <1>3, <1>6, Zenon DEF Forgets
    <3> DEFINE l == RemoveAt(cos, p)
    <3> HIDE DEF left, q, l
    <3>3. l \in Seq(Coroutines) /\ Len(l) = Len(cos) - 1
      BY <1>7, <3>1, <3>2, Ends DEF l
    <3>4. l[q] = cos[IF p = Len(cos) THEN 1 ELSE p + 1]
      BY <1>7, <3>1, <3>2, Ends DEF l, q
    <3>5. Without(cos, p, l)
      BY <1>7, <3>1, <3>2, Ends DEF l
    <3>6. InTurn(l, q, turns', FALSE)
      BY <1>7, <3>1, <3>2, Ends DEF l, q
    <3>7. left = l
      BY <3>1 DEF l
    <3> QED BY <3>3, <3>4, <3>5, <3>6, <3>7
  <2> HIDE DEF left
  <2>2. left # <<>>
    BY <1>7, <2>1
  <2>3. cur' = left[q]
    BY <1>2, <1>4, <2>1, <2>2 DEF After
  <2>4. CountedIn(left, turns')
    <3>1. ASSUME NEW x \in Coroutines, x # cur, NEW i \in 1 .. Len(cos), cos[i] = x
          PROVE  \E k \in 1 .. Len(left) : left[k] = x
      <4>1. i # p
        BY <1>3, <3>1
      <4>2. CASE i < p
        <5>1. i \in 1 .. Len(cos) - 1
          BY <1>1, <4>2
        <5>2. left[i] = x
          BY <2>1, <3>1, <4>2, <5>1 DEF Without
        <5> QED BY <2>1, <5>1, <5>2
      <4>3. CASE i > p
        <5>1. i - 1 \in 1 .. Len(cos) - 1 /\ ~(i - 1 < p) /\ i - 1 + 1 = i
          BY <1>1, <4>3
        <5>2. left[i - 1] = x
          BY <2>1, <3>1, <5>1 DEF Without
        <5> QED BY <2>1, <5>1, <5>2
      <4> QED BY <4>1, <4>2, <4>3
    <3> SUFFICES ASSUME NEW x \in Coroutines, NEW y \in Coroutines, turns'[x][y] # 0
                 PROVE  /\ \E i \in 1 .. Len(left) : left[i] = x
                        /\ \E j \in 1 .. Len(left) : left[j] = y
      BY DEF CountedIn
    <3>2. x # cur /\ y # cur /\ turns[x][y] # 0
      BY <1>6
    <3> QED BY <3>1, <3>2 DEF CoInv, ListOK, CountedIn
  <2> HIDE DEF q
  <2>5. q \in 1 .. Len(left)
    BY <2>1 DEF InTurn
  <2> QED BY <1>1, <1>2, <1>5, <2>1, <2>2, <2>3, <2>4, <2>5 DEF ListOK
<1>8. CASE ~(Len(cos) > 1)
  <2>1. p = 1 /\ Len(cos) = 1
    <3>1. Len(cos) \in Nat /\ p \in 1 .. Len(cos)
      BY <1>1, <1>3
    <3> QED BY <1>8, <3>1
  <2>2. left = <<>>
    BY <1>1, <1>4, <2>1 DEF RemoveAt
  <2>3. CountedIn(left, turns')
    <3>1. \A x, y \in Coroutines : turns'[x][y] = 0
      <4> SUFFICES ASSUME NEW x \in Coroutines, NEW y \in Coroutines PROVE turns'[x][y] = 0
        OBVIOUS
      <4>1. turns[x][y] # 0 => x = cur
        <5> SUFFICES ASSUME turns[x][y] # 0 PROVE x = cur
          OBVIOUS
        <5>1. PICK i \in 1 .. Len(cos) : cos[i] = x
          BY DEF CoInv, ListOK, CountedIn
        <5> QED BY <1>3, <2>1, <5>1
      <4> QED BY <1>6, <4>1
    <3> QED BY <3>1 DEF CountedIn
  <2> QED BY <1>1, <1>2, <1>5, <2>2, <2>3 DEF ListOK
<1> QED BY <1>7, <1>8

(* No coroutine is resumed twice while another one waits, wherever          *)
(* coroutines are added or end, and cur_ is never left at a freed node     *)
(* (co.cpp:129-235).                                                       *)
THEOREM NobodyIsOvertaken == CoSpec => []NoOvertaking
<1>1. CoInv /\ [CoNext]_coVars => CoInv'
  <2> SUFFICES ASSUME CoInv, [CoNext]_coVars PROVE ListOK'
    BY NextCoFlags, NextStates DEF CoInv
  <2>1. ASSUME NEW c \in Coroutines, Add(c) PROVE ListOK'
    BY <2>1, AddList
  <2>2. CASE Resume \/ Yield \/ Return
    BY <2>2, ResumeList, YieldList, ReturnList
  <2>3. CASE RunCoroutines \/ LeaveEntry \/ EndRun
    <3>1. runner # "co" /\ runner' # "co" /\ UNCHANGED <<cos, cur, resumed, turns>>
      BY <2>3 DEF RunCoroutines, LeaveEntry, EndRun
    <3> QED BY <3>1 DEF CoInv, ListOK
  <2>4. CASE DestroySchedule
    <3>1. runner = "out" /\ cos' = <<>> /\ cur' = NoCoroutine /\ UNCHANGED <<resumed, runner>>
      BY <2>4 DEF DestroySchedule
    <3>2. turns' \in Counts /\ \A x, y \in Coroutines : turns'[x][y] = 0
      BY <2>4 DEF DestroySchedule, Counts
    <3> QED BY <3>1, <3>2 DEF CoInv, ListOK, CountedIn
  <2>5. CASE Stop \/ StopWakes \/ SpuriousStopWake \/ UNCHANGED coVars
    <3>1. UNCHANGED <<cos, cur, resumed, runner, turns>>
      BY <2>5, Zenon DEF Stop, StopWakes, SpuriousStopWake, coVars
    <3> QED BY <3>1 DEF CoInv, ListOK
  <2> QED BY <2>1, <2>2, <2>3, <2>4, <2>5, Zenon DEF CoNext, CoThread
<1>2. ASSUME CoInv PROVE NoOvertaking
  <2>1. /\ cos \in Seq(Coroutines) /\ turns \in [Coroutines -> [Coroutines -> Nat]]
        /\ resumed # NoCoroutine => resumed = cur
    BY <1>2 DEF CoInv, ListOK, Counts
  <2>2. CASE cos = <<>>
    <3>1. cur = NoCoroutine /\ resumed = NoCoroutine /\ Range(cos) = {}
      BY <1>2, <2>1, <2>2 DEF CoInv, ListOK, Range
    <3> QED BY <1>2, <2>1, <2>2, <3>1 DEF CoInv, StatesOK, CoFlagsOK, NoOvertaking, CoTypeOK
  <2>3. CASE cos # <<>>
    <3>1. PICK p \in 1 .. Len(cos) : cos[p] = cur /\ InTurn(cos, p, turns, runner = "co")
      BY <1>2, <2>3 DEF CoInv, ListOK
    <3>2. cur \in Range(cos) /\ cur \in Coroutines
      BY <2>1, <3>1 DEF Range
    <3>3. ASSUME NEW x \in Range(cos), NEW y \in Range(cos) PROVE turns[x][y] <= 1
      <4>0. DOMAIN cos = 1 .. Len(cos)
        BY <2>1, LenProperties
      <4>1. PICK i \in 1 .. Len(cos) : x = cos[i]
        BY <4>0, Zenon DEF Range
      <4>2. PICK j \in 1 .. Len(cos) : y = cos[j]
        BY <4>0, Zenon DEF Range
      <4>3. turns[cos[i]][cos[j]] \in {0, 1}
        BY <3>1 DEF InTurn
      <4> QED BY <4>1, <4>2, <4>3
    <3>4. CoTypeOK
      BY <1>2, <2>1, <3>2 DEF CoInv, StatesOK, CoFlagsOK, CoTypeOK
    <3> QED BY <2>1, <3>2, <3>3, <3>4 DEF NoOvertaking
  <2> QED BY <2>2, <2>3
<1> QED BY <1>1, <1>2, InitCoInv, PTL DEF CoSpec

-----------------------------------------------------------------------------
(* Thpool.                                                                  *)

(* The workers whose place is in s.                                         *)
At(s) == {w \in ThWorkers : place[w] \in s}

Working == {"pull", "run", "uncount"}
Living  == {"test", "wait", "asleep", "recheck", "count", "pull", "run", "uncount",
            "leave"}

(* What is counted.                                                         *)
CountsOK ==
  /\ place \in [ThWorkers -> Living \cup {"new", "unlock", "gone"}]
  /\ working = Cardinality(At(Working))
  /\ alive = Cardinality(At(Living))

Held(j) == \E w \in ThWorkers : job[w] = j
Queued(j) == \E i \in 1 .. Len(jobqueue) : jobqueue[i] = j

(* A job is in one place, and only the destruction of the pool throws it    *)
(* away.                                                                   *)
JobsOnce ==
  /\ jobqueue \in Seq(Jobs) /\ added \subseteq Jobs
  /\ job \in [ThWorkers -> Jobs \cup {NoJob}]
  /\ ran \in [Jobs -> {0, 1}]
  /\ \A w \in ThWorkers : job[w] # NoJob <=> place[w] = "run"
  /\ \A j \in Jobs : Held(j) \/ Queued(j) \/ ran[j] # 0 => j \in added
  /\ \A j \in added : Held(j) \/ Queued(j) \/ ran[j] = 1 \/ Freed
  /\ \A j \in Jobs : Held(j) => ~Queued(j) /\ ran[j] = 0
  /\ \A j \in Jobs : Queued(j) => ran[j] = 0
  /\ \A v, w \in ThWorkers : job[v] = job[w] /\ job[v] # NoJob => v = w
  /\ \A i, k \in 1 .. Len(jobqueue) : jobqueue[i] = jobqueue[k] => i = k

(* The semaphore is set, or somebody who has taken it will look.            *)
JobsSeen ==
  jobqueue # <<>> /\ keepAlive =>
    hasJobs \/ \E w \in ThWorkers : place[w] \in {"recheck", "count", "pull"}

ThFlagsOK == keepAlive \in BOOLEAN /\ hasJobs \in BOOLEAN

UsersOK ==
  /\ stage \in {"init", "using", "destroying", "destroyed", "undefined"}
  /\ waiter \in [ThUsers -> {"out", "wait", "asleep"}]
  /\ signalled \in ThUsers \cup {Nobody}

ThInv == ThFlagsOK /\ UsersOK /\ CountsOK /\ JobsOnce /\ JobsSeen

-----------------------------------------------------------------------------
(* A step moves one worker at most, and wakes others.                       *)
Wakes(v) == place'[v] = place[v] \/ (place[v] = "asleep" /\ place'[v] = "wait")

LEMMA AtFinite == ASSUME NEW s PROVE IsFiniteSet(At(s)) /\ Cardinality(At(s)) \in Nat
BY FS_Subset, FS_CardinalityType, ThpoolAssumption DEF At

(* A worker enters s, leaves it, or stays.                                   *)
LEMMA Going ==
  ASSUME NEW s, "asleep" \in s <=> "wait" \in s, NEW w \in ThWorkers,
         \A v \in ThWorkers \ {w} : Wakes(v)
  PROVE  /\ place[w] \notin s /\ place'[w] \in s =>
              Cardinality(At(s))' = Cardinality(At(s)) + 1
         /\ place[w] \in s /\ place'[w] \notin s =>
              Cardinality(At(s))' = Cardinality(At(s)) - 1
         /\ (place[w] \in s <=> place'[w] \in s) =>
              Cardinality(At(s))' = Cardinality(At(s))
<1>1. At(s)' = IF place'[w] \in s THEN At(s) \cup {w} ELSE At(s) \ {w}
  BY DEF At, Wakes
<1>2. w \in At(s) <=> place[w] \in s
  BY DEF At
<1>3. CASE place[w] \notin s /\ place'[w] \in s
  BY <1>1, <1>2, <1>3, AtFinite, FS_AddElement
<1>4. CASE place[w] \in s /\ place'[w] \notin s
  BY <1>1, <1>2, <1>4, AtFinite, FS_RemoveElement
<1>5. CASE place[w] \in s <=> place'[w] \in s
  <2>1. At(s)' = At(s)
    BY <1>1, <1>2, <1>5
  <2> QED BY <1>5, <2>1
<1> QED BY <1>3, <1>4, <1>5

LEMMA WakingCounts ==
  ASSUME CountsOK, place' \in [ThWorkers -> Living \cup {"new", "unlock", "gone"}],
         \A v \in ThWorkers : Wakes(v), UNCHANGED <<working, alive>>
  PROVE  CountsOK'
<1>1. At(Working)' = At(Working) /\ At(Living)' = At(Living)
  BY DEF At, Working, Living, Wakes
<1> QED BY <1>1 DEF CountsOK

(* What BsemPost does to those that sleep.                                  *)
LEMMA Posting ==
  ASSUME NEW p \in [ThWorkers -> Living \cup {"new", "unlock", "gone"}],
         \A v \in ThWorkers : place[v] = "asleep" => p[v] = "asleep",
         BsemPost(p)
  PROVE  /\ place' \in [ThWorkers -> Living \cup {"new", "unlock", "gone"}]
         /\ \A v \in ThWorkers : \/ place'[v] = p[v]
                                 \/ place[v] = "asleep" /\ place'[v] = "wait"
         /\ hasJobs' = TRUE
<1>1. CASE Asleep = {}
  BY <1>1 DEF BsemPost
<1>2. CASE Asleep # {}
  <2>1. PICK w \in Asleep : place' = [p EXCEPT ![w] = "wait"] /\ hasJobs' = TRUE
    BY <1>2 DEF BsemPost
  <2>2. w \in ThWorkers /\ place[w] = "asleep"
    BY DEF Asleep
  <2> QED BY <2>1, <2>2 DEF Living
<1> QED BY <1>1, <1>2

LEMMA InitThInv == ThInit => ThInv
<1> SUFFICES ASSUME ThInit PROVE ThInv
  OBVIOUS
<1>1. ThFlagsOK
  BY Zenon DEF ThInit, ThFlagsOK
<1>2. UsersOK
  BY DEF ThInit, UsersOK
<1>3. At(Working) = {} /\ At(Living) = {}
  BY DEF ThInit, At, Working, Living
<1>4. CountsOK
  BY <1>3, FS_EmptySet DEF ThInit, CountsOK
<1>5. JobsOnce
  BY ThpoolAssumption DEF ThInit, JobsOnce, Held, Queued
<1>6. JobsSeen
  BY DEF ThInit, JobsSeen
<1> QED BY <1>1, <1>2, <1>4, <1>5, <1>6 DEF ThInv

LEMMA NextThFlags == ThInv /\ [ThNext]_thVars => ThFlagsOK'
<1> SUFFICES ASSUME ThInv, [ThNext]_thVars PROVE ThFlagsOK'
  OBVIOUS
<1> USE DEF ThInv, ThFlagsOK, queueVars
<1>1. CASE InitReturns \/ DestroyPool
  BY <1>1, Zenon DEF InitReturns, DestroyPool
<1>2. CASE DestroyPosts \/ AddWork
  BY <1>2, Zenon DEF DestroyPosts, BsemPostAll, AddWork, BsemPost
<1>3. CASE DestroyFrees \/ ThSpuriousWake
  BY <1>3, Zenon DEF DestroyFrees, ThSpuriousWake
<1>4. ASSUME NEW u \in ThUsers, WaitBegin(u) \/ WaitTest(u) PROVE ThFlagsOK'
  BY <1>4, Zenon DEF WaitBegin, WaitTest
<1>5. ASSUME NEW w \in ThWorkers,
             MarkAlive(w) \/ TestKeepAlive(w) \/ CountWorking(w) \/ RunJob(w) \/ CountIdle(w)
             \/ LeavePool(w) \/ UnlockThcount(w)
      PROVE  ThFlagsOK'
  BY <1>5, Zenon DEF MarkAlive, TestKeepAlive, CountWorking, RunJob, CountIdle, LeavePool,
                     UnlockThcount
<1>6. ASSUME NEW w \in ThWorkers, BsemWait(w) \/ JobqueuePull(w) PROVE ThFlagsOK'
  BY <1>6, Zenon DEF BsemWait, JobqueuePull, BsemPost
<1>7. CASE UNCHANGED thVars
  BY <1>7, Zenon DEF thVars
<1> HIDE DEF ThInv, ThFlagsOK
<1> QED BY <1>1, <1>2, <1>3, <1>4, <1>5, <1>6, <1>7, Zenon
        DEF ThNext, OwnerRuns, WorkerRuns, ThFinished

LEMMA NextUsers == ThInv /\ [ThNext]_thVars => UsersOK'
<1> SUFFICES ASSUME ThInv, [ThNext]_thVars PROVE UsersOK'
  OBVIOUS
<1> USE DEF ThInv, UsersOK, queueVars
<1>1. CASE InitReturns \/ DestroyPool
  BY <1>1 DEF InitReturns, DestroyPool
<1>2. CASE DestroyPosts \/ AddWork
  BY <1>2 DEF DestroyPosts, AddWork
<1>3. CASE DestroyFrees \/ ThSpuriousWake
  BY <1>3 DEF DestroyFrees, ThSpuriousWake
<1>4. ASSUME NEW u \in ThUsers, WaitBegin(u) \/ WaitTest(u) PROVE UsersOK'
  BY <1>4 DEF WaitBegin, WaitTest
<1>5. ASSUME NEW w \in ThWorkers,
             MarkAlive(w) \/ TestKeepAlive(w) \/ CountWorking(w) \/ RunJob(w)
             \/ LeavePool(w) \/ BsemWait(w) \/ JobqueuePull(w)
      PROVE  UsersOK'
  <2>1. UNCHANGED <<stage, waiter, signalled>>
    BY <1>5, Zenon DEF MarkAlive, TestKeepAlive, CountWorking, RunJob, LeavePool, BsemWait,
                       JobqueuePull
  <2> QED BY <2>1
<1>5a. ASSUME NEW w \in ThWorkers, UnlockThcount(w) PROVE UsersOK'
  BY <1>5a DEF UnlockThcount
<1>6. ASSUME NEW w \in ThWorkers, CountIdle(w) PROVE UsersOK'
  BY <1>6 DEF CountIdle, SignalAllIdle
<1>7. CASE UNCHANGED thVars
  <2>1. UNCHANGED <<stage, waiter, signalled>>
    BY <1>7, Zenon DEF thVars
  <2> QED BY <2>1
<1> HIDE DEF ThInv, UsersOK
<1> QED BY <1>1, <1>2, <1>3, <1>4, <1>5, <1>5a, <1>6, <1>7, Zenon
        DEF ThNext, OwnerRuns, WorkerRuns, ThFinished

-----------------------------------------------------------------------------
(* A worker that goes on counts itself in and out.                          *)
LEMMA GoingCounts ==
  ASSUME CountsOK, NEW w \in ThWorkers, \A v \in ThWorkers \ {w} : Wakes(v),
         place' \in [ThWorkers -> Living \cup {"new", "unlock", "gone"}],
         \/ /\ place[w] = "new" /\ place'[w] = "test"
            /\ alive' = alive + 1 /\ working' = working
         \/ /\ place[w] = "leave" /\ place'[w] = "unlock"
            /\ alive' = alive - 1 /\ working' = working
         \/ /\ place[w] = "unlock" /\ place'[w] = "gone"
            /\ alive' = alive /\ working' = working
         \/ /\ place[w] = "count" /\ place'[w] = "pull"
            /\ alive' = alive /\ working' = working + 1
         \/ /\ place[w] = "uncount" /\ place'[w] = "test"
            /\ alive' = alive /\ working' = working - 1
         \/ /\ place[w] \in Living /\ place'[w] \in Living
            /\ place[w] \in Working <=> place'[w] \in Working
            /\ alive' = alive /\ working' = working
  PROVE  CountsOK'
<1>1. "asleep" \in Living /\ "wait" \in Living /\ "asleep" \notin Working /\ "wait" \notin Working
  BY DEF Living, Working
<1> DEFINE Change(s) ==
             /\ place[w] \notin s /\ place'[w] \in s =>
                  Cardinality(At(s))' = Cardinality(At(s)) + 1
             /\ place[w] \in s /\ place'[w] \notin s =>
                  Cardinality(At(s))' = Cardinality(At(s)) - 1
             /\ (place[w] \in s <=> place'[w] \in s) =>
                  Cardinality(At(s))' = Cardinality(At(s))
<1>2. Change(Living) /\ Change(Working)
  BY <1>1, Going
<1> QED BY <1>2 DEF CountsOK, Living, Working

LEMMA NextCounts == ThInv /\ [ThNext]_thVars => CountsOK'
<1> SUFFICES ASSUME ThInv, [ThNext]_thVars PROVE CountsOK'
  OBVIOUS
<1> DEFINE Places == [ThWorkers -> Living \cup {"new", "unlock", "gone"}]
<1>0. CountsOK /\ place \in Places
  BY DEF ThInv, CountsOK
<1> USE DEF queueVars
<1>1. CASE InitReturns \/ DestroyPool \/ DestroyFrees
  BY <1>0, <1>1, WakingCounts DEF InitReturns, DestroyPool, DestroyFrees, Wakes
<1>2. CASE DestroyPosts
  <2>1. /\ place' = [w \in ThWorkers |-> IF w \in Asleep THEN "wait" ELSE place[w]]
        /\ UNCHANGED <<working, alive>>
    BY <1>2 DEF DestroyPosts, BsemPostAll
  <2>2. place' \in Places
    BY <1>0, <2>1 DEF Living
  <2>3. \A v \in ThWorkers : Wakes(v)
    BY <1>0, <2>1 DEF Wakes, Asleep
  <2> QED BY <1>0, <2>1, <2>2, <2>3, WakingCounts
<1>3. CASE AddWork
  <2>1. place' \in Places /\ \A v \in ThWorkers : Wakes(v)
    BY <1>0, <1>3, Posting DEF AddWork, Wakes
  <2> QED BY <1>0, <1>3, <2>1, WakingCounts DEF AddWork
<1>4. CASE ThSpuriousWake
  <2>1. place' \in Places /\ \A v \in ThWorkers : Wakes(v)
    BY <1>0, <1>4 DEF ThSpuriousWake, Go, Wakes, Living
  <2> QED BY <1>0, <1>4, <2>1, WakingCounts DEF ThSpuriousWake
<1>5. ASSUME NEW u \in ThUsers, WaitBegin(u) \/ WaitTest(u) PROVE CountsOK'
  BY <1>0, <1>5, WakingCounts DEF WaitBegin, WaitTest, Wakes
<1>6. ASSUME NEW w \in ThWorkers, NEW from, NEW to \in Living \cup {"unlock", "gone"},
             Go(w, from, to)
      PROVE  /\ place' \in Places /\ \A v \in ThWorkers \ {w} : Wakes(v)
             /\ place[w] = from /\ place'[w] = to
  BY <1>0, <1>6 DEF Go, Wakes
<1>7. ASSUME NEW w \in ThWorkers, MarkAlive(w) PROVE CountsOK'
  <2>1. Go(w, "new", "test") /\ alive' = alive + 1 /\ working' = working
    BY <1>7 DEF MarkAlive
  <2> HIDE DEF Places
  <2>2. "test" \in Living
    BY DEF Living
  <2> QED BY <1>0, <1>6, <2>1, <2>2, GoingCounts DEF Places
<1>8. ASSUME NEW w \in ThWorkers, LeavePool(w) PROVE CountsOK'
  BY <1>0, <1>6, <1>8, GoingCounts DEF LeavePool
<1>8a. ASSUME NEW w \in ThWorkers, UnlockThcount(w) PROVE CountsOK'
  BY <1>0, <1>6, <1>8a, GoingCounts DEF UnlockThcount
<1>9. ASSUME NEW w \in ThWorkers, CountWorking(w) PROVE CountsOK'
  <2>1. "pull" \in Living
    BY DEF Living
  <2> QED BY <1>0, <1>6, <1>9, <2>1, GoingCounts DEF CountWorking
<1>10. ASSUME NEW w \in ThWorkers, CountIdle(w) PROVE CountsOK'
  <2>1. "test" \in Living
    BY DEF Living
  <2> QED BY <1>0, <1>6, <1>10, <2>1, GoingCounts DEF CountIdle
<1>11. ASSUME NEW w \in ThWorkers, NEW from \in Living, NEW to \in Living,
              from \in Working <=> to \in Working, Go(w, from, to),
              UNCHANGED <<working, alive>>
       PROVE  CountsOK'
  BY <1>0, <1>6, <1>11, GoingCounts
<1>12. ASSUME NEW w \in ThWorkers, TestKeepAlive(w) \/ BsemWait(w) \/ RunJob(w) PROVE CountsOK'
  <2>1. UNCHANGED <<working, alive>>
    BY <1>12 DEF TestKeepAlive, BsemWait, RunJob
  <2>2. \E from, to \in Living : (from \in Working <=> to \in Working) /\ Go(w, from, to)
    BY <1>12 DEF TestKeepAlive, BsemWait, RunJob, Living, Working
  <2> QED BY <1>11, <2>1, <2>2
<1>13. ASSUME NEW w \in ThWorkers, JobqueuePull(w) PROVE CountsOK'
  <2>1. UNCHANGED <<working, alive>>
    BY <1>13 DEF JobqueuePull
  <2>2. CASE \E to \in {"run", "uncount"} : Go(w, "pull", to)
    BY <1>11, <2>1, <2>2 DEF Living, Working
  <2>3. CASE place[w] = "pull" /\ BsemPost([place EXCEPT ![w] = "run"])
    <3> DEFINE p == [place EXCEPT ![w] = "run"]
    <3>1. /\ p \in Places /\ p[w] = "run" /\ \A v \in ThWorkers \ {w} : p[v] = place[v]
          /\ \A v \in ThWorkers : place[v] = "asleep" => p[v] = "asleep"
      BY <1>0, <2>3 DEF Living
    <3> HIDE DEF p
    <3>2. /\ place' \in Places
          /\ \A v \in ThWorkers : \/ place'[v] = p[v]
                                  \/ place[v] = "asleep" /\ place'[v] = "wait"
      BY <2>3, <3>1, Posting DEF p
    <3>3. place'[w] = "run" /\ \A v \in ThWorkers \ {w} : Wakes(v)
      BY <2>3, <3>1, <3>2 DEF Wakes
    <3> QED BY <1>0, <2>1, <2>3, <3>2, <3>3, GoingCounts DEF Living, Working
  <2> QED BY <1>13, <2>2, <2>3 DEF JobqueuePull
<1>14. CASE UNCHANGED thVars
  <2>1. UNCHANGED <<place, working, alive>>
    BY <1>14, Zenon DEF thVars
  <2> QED BY <1>0, <2>1, WakingCounts DEF Wakes
<1> QED BY <1>1, <1>2, <1>3, <1>4, <1>5, <1>7, <1>8, <1>8a, <1>9, <1>10, <1>12, <1>13,
           <1>14, Zenon
        DEF ThNext, OwnerRuns, WorkerRuns, ThFinished

-----------------------------------------------------------------------------
LEMMA SameJobs ==
  ASSUME JobsOnce, UNCHANGED <<jobqueue, added, job, ran>>,
         Freed => Freed',
         \A v \in ThWorkers : place'[v] = "run" <=> place[v] = "run"
  PROVE  JobsOnce'
BY DEF JobsOnce, Held, Queued

LEMMA AddJobs == ASSUME CountsOK, JobsOnce, AddWork PROVE JobsOnce'
<1>1. PICK j \in Jobs \ added : added' = added \cup {j} /\ jobqueue' = Append(jobqueue, j)
  BY DEF AddWork
<1>2. /\ UNCHANGED <<stage, job, ran>>
      /\ jobqueue \in Seq(Jobs) /\ added \subseteq Jobs
  BY DEF AddWork, JobsOnce
<1>3. \A v \in ThWorkers : place'[v] = "run" <=> place[v] = "run"
  BY Posting DEF AddWork, CountsOK
<1> DEFINE l == Append(jobqueue, j)
<1>4. /\ l \in Seq(Jobs) /\ Len(l) = Len(jobqueue) + 1 /\ Len(jobqueue) \in Nat
      /\ l[Len(jobqueue) + 1] = j /\ \A i \in 1 .. Len(jobqueue) : l[i] = jobqueue[i]
  BY <1>1, <1>2
<1> HIDE DEF l
<1>5. jobqueue' = l
  BY <1>1 DEF l
<1>6. ~Queued(j) /\ ~Held(j) /\ ran[j] = 0
  BY <1>1 DEF JobsOnce
<1>7. ASSUME NEW k \in Jobs PROVE Queued(k)' <=> Queued(k) \/ k = j
  <2>1. ASSUME NEW i \in 1 .. Len(l), l[i] = k PROVE Queued(k) \/ k = j
    BY <1>4, <2>1 DEF Queued
  <2>2. Queued(k) => \E i \in 1 .. Len(l) : l[i] = k
    BY <1>4 DEF Queued
  <2>3. k = j => \E i \in 1 .. Len(l) : l[i] = k
    BY <1>4
  <2> QED BY <1>5, <2>1, <2>2, <2>3 DEF Queued
<1>8. \A k : Held(k)' <=> Held(k)
  BY <1>2 DEF Held
<1>9. \A i, k \in 1 .. Len(l) : l[i] = l[k] => i = k
  <2>1. \A i \in 1 .. Len(jobqueue) : jobqueue[i] # j
    BY <1>6 DEF Queued
  <2> QED BY <1>4, <2>1 DEF JobsOnce
<1> HIDE DEF Held, Queued
<1> QED BY <1>1, <1>2, <1>3, <1>4, <1>5, <1>6, <1>7, <1>8, <1>9 DEF JobsOnce, Freed

LEMMA PullJobs ==
  ASSUME CountsOK, JobsOnce, NEW w \in ThWorkers, JobqueuePull(w), jobqueue # <<>>
  PROVE  JobsOnce'
<1> DEFINE j == Head(jobqueue)
           l == Tail(jobqueue)
<1>1. /\ job' = [job EXCEPT ![w] = j] /\ jobqueue' = l /\ UNCHANGED <<stage, added, ran>>
      /\ place[w] = "pull"
      /\ BsemPost([place EXCEPT ![w] = "run"]) \/ Go(w, "pull", "run")
  BY DEF JobqueuePull
<1>2. /\ jobqueue \in Seq(Jobs) /\ added \subseteq Jobs
      /\ job \in [ThWorkers -> Jobs \cup {NoJob}] /\ place \in [ThWorkers -> Living \cup {"new", "unlock", "gone"}]
  BY DEF JobsOnce, CountsOK
<1>3. /\ j \in Jobs /\ j = jobqueue[1] /\ 1 \in 1 .. Len(jobqueue) /\ Len(jobqueue) \in Nat
      /\ l \in Seq(Jobs) /\ Len(l) = Len(jobqueue) - 1
      /\ \A i \in 1 .. Len(l) : l[i] = jobqueue[i + 1]
  BY <1>2
<1> HIDE DEF j, l
<1>4. place'[w] = "run" /\ \A v \in ThWorkers \ {w} : place'[v] = "run" <=> place[v] = "run"
  <2> DEFINE p == [place EXCEPT ![w] = "run"]
  <2>1. /\ p \in [ThWorkers -> Living \cup {"new", "unlock", "gone"}]
        /\ p[w] = "run" /\ \A v \in ThWorkers \ {w} : p[v] = place[v]
        /\ \A v \in ThWorkers : place[v] = "asleep" => p[v] = "asleep"
    BY <1>1, <1>2 DEF Living
  <2>2. CASE Go(w, "pull", "run")
    BY <1>2, <2>2 DEF Go
  <2>3. CASE BsemPost(p)
    <3> HIDE DEF p
    <3>1. \A v \in ThWorkers : \/ place'[v] = p[v]
                               \/ place[v] = "asleep" /\ place'[v] = "wait"
      BY <2>1, <2>3, Posting
    <3> QED BY <1>1, <2>1, <3>1
  <2> QED BY <1>1, <2>2, <2>3
<1>5. job[w] = NoJob /\ NoJob \notin Jobs
  BY <1>1, ThpoolAssumption DEF JobsOnce
<1>6. job' \in [ThWorkers -> Jobs \cup {NoJob}] /\ job'[w] = j
      /\ \A v \in ThWorkers \ {w} : job'[v] = job[v]
  BY <1>1, <1>2, <1>3
<1>7. Queued(j) /\ ~Held(j) /\ ran[j] = 0 /\ j \in added
  <2>1. Queued(j)
    BY <1>3 DEF Queued
  <2> QED BY <1>3, <2>1 DEF JobsOnce
<1>8. ASSUME NEW k \in Jobs PROVE Queued(k)' <=> Queued(k) /\ k # j
  <2>1. ASSUME NEW i \in 1 .. Len(l), l[i] = k PROVE Queued(k) /\ k # j
    <3>1. i + 1 \in 1 .. Len(jobqueue) /\ i + 1 # 1 /\ jobqueue[i + 1] = k
      BY <1>3, <2>1
    <3> QED BY <1>3, <3>1 DEF JobsOnce, Queued
  <2>2. ASSUME NEW i \in 1 .. Len(jobqueue), jobqueue[i] = k, k # j
        PROVE  \E n \in 1 .. Len(l) : l[n] = k
    <3>1. i # 1
      BY <1>3, <2>2
    <3>2. i - 1 \in 1 .. Len(l) /\ i - 1 + 1 = i
      BY <1>3, <3>1
    <3> QED BY <1>3, <2>2, <3>2
  <2> QED BY <1>1, <2>1, <2>2 DEF Queued
<1>9. ASSUME NEW k \in Jobs PROVE Held(k)' <=> Held(k) \/ k = j
  BY <1>5, <1>6 DEF Held
<1>10. \A i, k \in 1 .. Len(l) : l[i] = l[k] => i = k
  <2> SUFFICES ASSUME NEW i \in 1 .. Len(l), NEW k \in 1 .. Len(l), l[i] = l[k] PROVE i = k
    OBVIOUS
  <2>1. i + 1 \in 1 .. Len(jobqueue) /\ k + 1 \in 1 .. Len(jobqueue)
        /\ jobqueue[i + 1] = jobqueue[k + 1]
    BY <1>3
  <2>2. i + 1 = k + 1
    BY <2>1 DEF JobsOnce
  <2> QED BY <2>2
<1>11. \A u, v \in ThWorkers : job'[u] = job'[v] /\ job'[u] # NoJob => u = v
  <2>1. \A v \in ThWorkers : job[v] # j
    BY <1>7 DEF Held
  <2>2. \A u, v \in ThWorkers : job[u] = job[v] /\ job[u] # NoJob => u = v
    BY DEF JobsOnce
  <2> QED BY <1>6, <2>1, <2>2
<1>12. \A v \in ThWorkers : job'[v] # NoJob <=> place'[v] = "run"
  <2>1. \A v \in ThWorkers : job[v] # NoJob <=> place[v] = "run"
    BY DEF JobsOnce
  <2> QED BY <1>3, <1>4, <1>5, <1>6, <2>1
<1>13. jobqueue' = l /\ UNCHANGED <<stage, added, ran>>
  BY <1>1
<1> HIDE DEF Held, Queued
<1>14. /\ \A k \in Jobs : Held(k)' \/ Queued(k)' \/ ran'[k] # 0 => k \in added'
       /\ \A k \in added' : Held(k)' \/ Queued(k)' \/ ran'[k] = 1 \/ Freed'
       /\ \A k \in Jobs : Held(k)' => ~Queued(k)' /\ ran'[k] = 0
       /\ \A k \in Jobs : Queued(k)' => ran'[k] = 0
  BY <1>2, <1>7, <1>8, <1>9, <1>13 DEF JobsOnce, Freed
<1>15. added' \subseteq Jobs /\ ran' \in [Jobs -> {0, 1}] /\ jobqueue' \in Seq(Jobs)
  BY <1>3, <1>13 DEF JobsOnce
<1>16. \A i, k \in 1 .. Len(jobqueue') : jobqueue'[i] = jobqueue'[k] => i = k
  BY <1>10, <1>13
<1> QED BY <1>6, <1>11, <1>12, <1>14, <1>15, <1>16, Zenon DEF JobsOnce

LEMMA RunJobs ==
  ASSUME CountsOK, JobsOnce, NEW w \in ThWorkers, RunJob(w) PROVE JobsOnce'
<1> DEFINE j == job[w]
<1>1. /\ place[w] = "run" /\ place' = [place EXCEPT ![w] = "uncount"]
      /\ ran' = [ran EXCEPT ![j] = @ + 1] /\ job' = [job EXCEPT ![w] = NoJob]
      /\ UNCHANGED <<stage, jobqueue, added>>
  BY DEF RunJob, Go, queueVars
<1>2. /\ j \in Jobs /\ Held(j) /\ ran[j] = 0 /\ ~Queued(j) /\ j \in added
      /\ ran \in [Jobs -> {0, 1}] /\ job \in [ThWorkers -> Jobs \cup {NoJob}]
      /\ place \in [ThWorkers -> Living \cup {"new", "unlock", "gone"}]
  <2>1. j # NoJob /\ j \in Jobs /\ Held(j)
    BY <1>1 DEF JobsOnce, Held
  <2> QED BY <2>1 DEF JobsOnce, CountsOK
<1> HIDE DEF j
<1>3. /\ ran' \in [Jobs -> {0, 1}] /\ ran'[j] = 1 /\ \A k \in Jobs \ {j} : ran'[k] = ran[k]
      /\ job' \in [ThWorkers -> Jobs \cup {NoJob}]
      /\ job'[w] = NoJob /\ \A v \in ThWorkers \ {w} : job'[v] = job[v]
      /\ place'[w] = "uncount" /\ \A v \in ThWorkers \ {w} : place'[v] = place[v]
  BY <1>1, <1>2
<1>4. \A k : Queued(k)' <=> Queued(k)
  BY <1>1 DEF Queued
<1>5. ASSUME NEW k \in Jobs PROVE Held(k)' <=> Held(k) /\ k # j
  <2>1. NoJob # k
    BY ThpoolAssumption
  <2>2. \A v \in ThWorkers \ {w} : job[v] # j
    BY <1>2, ThpoolAssumption DEF JobsOnce, j
  <2> QED BY <1>3, <2>1, <2>2 DEF Held, j
<1>6. UNCHANGED <<stage, jobqueue, added>>
  BY <1>1
<1> HIDE DEF Held, Queued
<1>7. /\ \A k \in Jobs : Held(k)' \/ Queued(k)' \/ ran'[k] # 0 => k \in added'
      /\ \A k \in added' : Held(k)' \/ Queued(k)' \/ ran'[k] = 1 \/ Freed'
      /\ \A k \in Jobs : Held(k)' => ~Queued(k)' /\ ran'[k] = 0
      /\ \A k \in Jobs : Queued(k)' => ran'[k] = 0
  BY <1>2, <1>3, <1>4, <1>5, <1>6 DEF JobsOnce, Freed
<1>8. /\ \A u, v \in ThWorkers : job'[u] = job'[v] /\ job'[u] # NoJob => u = v
      /\ \A v \in ThWorkers : job'[v] # NoJob <=> place'[v] = "run"
  BY <1>3 DEF JobsOnce
<1>9. /\ jobqueue' \in Seq(Jobs) /\ added' \subseteq Jobs
      /\ \A i, k \in 1 .. Len(jobqueue') : jobqueue'[i] = jobqueue'[k] => i = k
  BY <1>6 DEF JobsOnce
<1> QED BY <1>3, <1>7, <1>8, <1>9, Zenon DEF JobsOnce

LEMMA NextJobs == ThInv /\ [ThNext]_thVars => JobsOnce'
<1> SUFFICES ASSUME ThInv, [ThNext]_thVars PROVE JobsOnce'
  OBVIOUS
<1>0. CountsOK /\ JobsOnce /\ place \in [ThWorkers -> Living \cup {"new", "unlock", "gone"}]
  BY DEF ThInv, CountsOK
<1> USE DEF queueVars
<1>1. CASE InitReturns \/ DestroyPool
  BY <1>0, <1>1, SameJobs DEF InitReturns, DestroyPool, Freed
<1>2. CASE DestroyPosts
  BY <1>0, <1>2, SameJobs DEF DestroyPosts, BsemPostAll, Asleep, Freed
<1>3. CASE AddWork
  BY <1>0, <1>3, AddJobs
<1>4. CASE DestroyFrees
  <2>1. /\ stage' = "destroyed" /\ jobqueue' = <<>>
        /\ UNCHANGED <<added, place, job, ran>>
    BY <1>4 DEF DestroyFrees
  <2> QED BY <1>0, <2>1 DEF JobsOnce, Held, Queued, Freed
<1>5. CASE ThSpuriousWake
  BY <1>0, <1>5, SameJobs DEF ThSpuriousWake, Go, Freed
<1>6. ASSUME NEW u \in ThUsers, WaitBegin(u) \/ WaitTest(u) PROVE JobsOnce'
  BY <1>0, <1>6, SameJobs DEF WaitBegin, WaitTest, Freed
<1>7. ASSUME NEW w \in ThWorkers, NEW from, NEW to, from # "run", to # "run", Go(w, from, to),
             UNCHANGED <<jobqueue, added, job, ran>>, Freed => Freed'
      PROVE  JobsOnce'
  <2>1. \A v \in ThWorkers : place'[v] = "run" <=> place[v] = "run"
    BY <1>0, <1>7 DEF Go
  <2> QED BY <1>0, <1>7, <2>1, SameJobs
<1>8. ASSUME NEW w \in ThWorkers,
             MarkAlive(w) \/ TestKeepAlive(w) \/ CountWorking(w) \/ CountIdle(w)
             \/ LeavePool(w) \/ UnlockThcount(w) \/ BsemWait(w)
      PROVE  JobsOnce'
  <2>1. UNCHANGED <<jobqueue, added, job, ran>> /\ (Freed => Freed')
    BY <1>8 DEF MarkAlive, TestKeepAlive, CountWorking, CountIdle, LeavePool, UnlockThcount,
                BsemWait, Freed
  <2>2. \E from, to : from # "run" /\ to # "run" /\ Go(w, from, to)
    BY <1>8 DEF MarkAlive, TestKeepAlive, CountWorking, CountIdle, LeavePool, UnlockThcount,
                BsemWait
  <2> QED BY <1>7, <2>1, <2>2
<1>9. ASSUME NEW w \in ThWorkers, RunJob(w) PROVE JobsOnce'
  BY <1>0, <1>9, RunJobs
<1>10. ASSUME NEW w \in ThWorkers, JobqueuePull(w) PROVE JobsOnce'
  <2>1. CASE jobqueue = <<>>
    BY <1>7, <1>10, <2>1 DEF JobqueuePull, Freed
  <2> QED BY <1>0, <1>10, <2>1, PullJobs
<1>11. CASE UNCHANGED thVars
  <2>1. UNCHANGED <<stage, place, jobqueue, added, job, ran>>
    BY <1>11, Zenon DEF thVars, queueVars
  <2> QED BY <1>0, <2>1, SameJobs DEF Freed
<1> QED BY <1>1, <1>2, <1>3, <1>4, <1>5, <1>6, <1>8, <1>9, <1>10, <1>11, Zenon
        DEF ThNext, OwnerRuns, WorkerRuns, ThFinished

-----------------------------------------------------------------------------
Lookers == {"recheck", "count", "pull"}

LEMMA NextSeen == ThInv /\ [ThNext]_thVars => JobsSeen'
<1> SUFFICES ASSUME ThInv, [ThNext]_thVars, ~hasJobs', jobqueue' # <<>>, keepAlive'
             PROVE  \E v \in ThWorkers : place'[v] \in Lookers
  BY DEF JobsSeen, Lookers
<1>0. /\ place \in [ThWorkers -> Living \cup {"new", "unlock", "gone"}] /\ jobqueue \in Seq(Jobs)
      /\ jobqueue # <<>> /\ keepAlive =>
           hasJobs \/ \E v \in ThWorkers : place[v] \in Lookers
  BY DEF ThInv, CountsOK, JobsOnce, JobsSeen, Lookers
<1> USE DEF queueVars
<1> DEFINE Goal == \E v \in ThWorkers : place'[v] \in Lookers
<1>1. ASSUME UNCHANGED <<jobqueue, keepAlive, hasJobs>>,
             \A v \in ThWorkers : place[v] \in Lookers => place'[v] \in Lookers
      PROVE  Goal
  BY <1>0, <1>1
<1>2. CASE InitReturns
  BY <1>1, <1>2 DEF InitReturns
<1>3. CASE DestroyPool \/ DestroyFrees
  BY <1>3 DEF DestroyPool, DestroyFrees
<1>4. CASE DestroyPosts \/ AddWork
  BY <1>4 DEF DestroyPosts, BsemPostAll, AddWork, BsemPost
<1>5. CASE ThSpuriousWake
  BY <1>0, <1>1, <1>5 DEF ThSpuriousWake, Go, Lookers
<1>6. ASSUME NEW u \in ThUsers, WaitBegin(u) \/ WaitTest(u) PROVE Goal
  BY <1>1, <1>6 DEF WaitBegin, WaitTest
<1>7. ASSUME NEW w \in ThWorkers, NEW from, NEW to, from \notin Lookers \/ to \in Lookers,
             Go(w, from, to), UNCHANGED <<jobqueue, keepAlive, hasJobs>>
      PROVE  Goal
  BY <1>0, <1>1, <1>7 DEF Go
<1>8. ASSUME NEW w \in ThWorkers,
             MarkAlive(w) \/ TestKeepAlive(w) \/ CountWorking(w) \/ RunJob(w) \/ CountIdle(w)
             \/ LeavePool(w) \/ UnlockThcount(w)
      PROVE  Goal
  <2>1. UNCHANGED <<jobqueue, keepAlive, hasJobs>>
    BY <1>8 DEF MarkAlive, TestKeepAlive, CountWorking, RunJob, CountIdle, LeavePool,
                UnlockThcount
  <2>2. \E from, to : (from \notin Lookers \/ to \in Lookers) /\ Go(w, from, to)
    BY <1>8, <2>1 DEF MarkAlive, TestKeepAlive, CountWorking, RunJob, CountIdle, LeavePool,
                      UnlockThcount, Lookers
  <2> QED BY <1>7, <2>1, <2>2
<1>9. ASSUME NEW w \in ThWorkers, BsemWait(w) PROVE Goal
  <2>1. /\ Go(w, "wait", IF hasJobs THEN "recheck" ELSE "asleep")
        /\ UNCHANGED <<jobqueue, keepAlive>>
    BY <1>9 DEF BsemWait
  <2>2. CASE hasJobs
    BY <1>0, <2>1, <2>2 DEF Go, Lookers
  <2>3. CASE ~hasJobs
    BY <1>0, <2>1, <2>3 DEF Go, Lookers
  <2> QED BY <2>2, <2>3
<1>10. ASSUME NEW w \in ThWorkers, JobqueuePull(w) PROVE Goal
  <2>1. jobqueue # <<>>
    BY <1>10 DEF JobqueuePull
  <2>2. CASE Len(jobqueue) > 1
    BY <1>10, <2>1, <2>2 DEF JobqueuePull, Reposts, BsemPost
  <2>3. CASE ~(Len(jobqueue) > 1)
    <3>1. jobqueue' = Tail(jobqueue)
      BY <1>10, <2>1 DEF JobqueuePull
    <3>2. Len(jobqueue) \in Nat /\ jobqueue \in Seq(Jobs)
      BY <1>0
    <3>3. Len(jobqueue) = 1 /\ Tail(jobqueue) \in Seq(Jobs)
          /\ Len(Tail(jobqueue)) = Len(jobqueue) - 1
      BY <2>1, <2>3, <3>2, EmptySeq
    <3>4. \A q \in Seq(Jobs) : Len(q) = 0 => q = <<>>
      BY EmptySeq
    <3> DEFINE t == Tail(jobqueue)
    <3> HIDE DEF t
    <3>5. t \in Seq(Jobs) /\ Len(t) = 0
      BY <3>3 DEF t
    <3>6. t = <<>>
      BY <3>4, <3>5
    <3> QED BY <3>1, <3>6 DEF t
  <2> QED BY <2>2, <2>3
<1>11. CASE UNCHANGED thVars
  <2>1. UNCHANGED <<place, jobqueue, keepAlive, hasJobs>>
    BY <1>11, Zenon DEF thVars, queueVars
  <2> QED BY <1>1, <2>1
<1> QED BY <1>2, <1>3, <1>4, <1>5, <1>6, <1>8, <1>9, <1>10, <1>11, Zenon
        DEF ThNext, OwnerRuns, WorkerRuns, ThFinished

(* A set with one element at most.                                          *)
LEMMA OneAtMost ==
  ASSUME NEW S, \A x, y \in S : x = y
  PROVE  Cardinality(S) = IF S = {} THEN 0 ELSE 1
<1>1. CASE S = {}
  BY <1>1, FS_EmptySet
<1>2. CASE S # {}
  <2>1. PICK x : S = {x}
    BY <1>2
  <2> QED BY <1>2, <2>1, FS_Singleton
<1> QED BY <1>1, <1>2

LEMMA ThInvImplies == ThInv => ThTypeOK /\ JobsAwaited
<1> SUFFICES ASSUME ThInv PROVE ThTypeOK /\ JobsAwaited
  OBVIOUS
<1>1. ThTypeOK
  <2>1. keepAlive \in BOOLEAN /\ hasJobs \in BOOLEAN
    BY Zenon DEF ThInv, ThFlagsOK
  <2>2. alive \in Nat /\ working \in Nat
    BY AtFinite DEF ThInv, CountsOK
  <2>3. ran \in [Jobs -> Nat]
    BY DEF ThInv, JobsOnce
  <2>4. place \in [ThWorkers -> {"new", "test", "wait", "asleep", "recheck",
                                 "count", "pull", "run", "uncount", "leave", "unlock",
                                 "gone"}]
    BY DEF ThInv, CountsOK, Living
  <2> QED BY <2>1, <2>2, <2>3, <2>4 DEF ThInv, UsersOK, JobsOnce, ThTypeOK
<1>2. ASSUME NEW j \in added
      PROVE  LET places == Cardinality({w \in ThWorkers : job[w] = j})
                           + Cardinality({i \in DOMAIN jobqueue : jobqueue[i] = j})
                           + ran[j]
             IN places = 1 \/ (Freed /\ places = 0)
  <2> DEFINE H == {w \in ThWorkers : job[w] = j}
             Q == {i \in DOMAIN jobqueue : jobqueue[i] = j}
  <2>0. JobsOnce /\ j \in Jobs /\ NoJob # j
    BY ThpoolAssumption DEF ThInv, JobsOnce
  <2>1. Cardinality(H) = IF Held(j) THEN 1 ELSE 0
    <3>1. \A x, y \in H : x = y
      BY <2>0 DEF JobsOnce
    <3>2. H = {} <=> ~Held(j)
      BY DEF Held
    <3> QED BY <3>1, <3>2, OneAtMost
  <2>2. Cardinality(Q) = IF Queued(j) THEN 1 ELSE 0
    <3>1. DOMAIN jobqueue = 1 .. Len(jobqueue)
      BY <2>0 DEF JobsOnce
    <3>2. \A x, y \in Q : x = y
      BY <2>0, <3>1 DEF JobsOnce
    <3>3. Q = {} <=> ~Queued(j)
      BY <3>1 DEF Queued
    <3> QED BY <3>2, <3>3, OneAtMost
  <2>3. /\ ran[j] \in {0, 1}
        /\ Held(j) \/ Queued(j) \/ ran[j] = 1 \/ Freed
        /\ Held(j) => ~Queued(j) /\ ran[j] = 0
        /\ Queued(j) => ran[j] = 0
    BY <2>0 DEF JobsOnce
  <2> HIDE DEF H, Q
  <2>4. Cardinality(H) + Cardinality(Q) + ran[j] = 1
        \/ (Freed /\ Cardinality(H) + Cardinality(Q) + ran[j] = 0)
    BY <2>1, <2>2, <2>3
  <2> QED BY <2>4 DEF H, Q
<1>3. working = Cardinality({w \in ThWorkers : place[w] \in {"pull", "run", "uncount"}})
  BY DEF ThInv, CountsOK, At, Working
<1>4. jobqueue # <<>> /\ keepAlive =>
        hasJobs \/ \E w \in ThWorkers : place[w] \in {"recheck", "count", "pull"}
  BY DEF ThInv, JobsSeen
<1>5. JobsAwaited
  BY <1>2, <1>3, <1>4, Zenon DEF JobsAwaited
<1> QED BY <1>1, <1>5

(* One bit is enough for any number of jobs: while there are some, it is    *)
(* set or a worker that took it is on its way to the queue; every job is   *)
(* run once or thrown away with the pool, and thpool_wait and             *)
(* thpool_destroy count right (thpool.cpp:176-241, 344-383, 461-547).      *)
THEOREM JobsAreAwaited == ThSpec => [](ThTypeOK /\ JobsAwaited)
<1>1. ThInv /\ [ThNext]_thVars => ThInv'
  BY NextThFlags, NextUsers, NextCounts, NextJobs, NextSeen DEF ThInv
<1> QED BY <1>1, InitThInv, ThInvImplies, PTL DEF ThSpec

-----------------------------------------------------------------------------
(* AsyncLogging.                                                            *)

Before(S, T) == \A m \in S, n \in T : m < n

(* The lines in the file, then those that are being written, in buffers_    *)
(* and in currentBuffer_ follow each other; what has been dropped came     *)
(* before all that wait.                                                   *)
LogOrder ==
  /\ Increasing(file) /\ Increasing(buffersToWrite)
  /\ Increasing(buffers) /\ Increasing(<<currentBuffer>>)
  /\ Before(Lines(file) \cup dropped, Unwritten)
  /\ Before(Lines(buffersToWrite), Lines(buffers) \cup Range(currentBuffer))
  /\ Before(Lines(buffers), Range(currentBuffer))
  /\ Lines(file) \cap dropped = {}
  /\ Lines(file) \cup Unwritten \cup dropped = 1..appended

(* No buffer is taken for a notice, and only the last buffer that the       *)
(* logging thread takes may be empty.                                      *)
LogFilled ==
  /\ \A i \in DOMAIN buffers : buffers[i] # <<>> /\ buffers[i] # Notice
  /\ \A i \in DOMAIN buffersToWrite :
       /\ buffersToWrite[i] # Notice
       /\ buffersToWrite[i] = <<>> => i = Len(buffersToWrite)

(* Each loss is announced. *)
LossesAnnounced ==
  \A i \in DOMAIN file :
    file[i] # Notice /\ (\E n \in Range(file[i]) : n + 1 \in dropped)
      => i > KeptBuffers /\ file[i - KeptBuffers] = Notice

(* The callers have taken nextBuffer_ only if there is a full buffer, and   *)
(* the logging thread has given newBuffer2 away only if it has two to      *)
(* recycle.                                                                *)
LogReady ==
  /\ nextBuffer = NoBuffer => buffers # <<>>
  /\ logThread # "write" =>
       newBuffer1 = <<>> /\ newBuffer2 = <<>> /\ buffersToWrite = <<>>
  /\ logThread = "write" =>
       /\ newBuffer1 = NoBuffer /\ newBuffer2 \in {<<>>, NoBuffer}
       /\ buffersToWrite # <<>>
       /\ newBuffer2 = NoBuffer => Len(buffersToWrite) > 1

LogInv == LogTypeOK /\ LogOrder /\ LogFilled /\ LossesAnnounced /\ LogReady

LEMMA BufferSequences ==
  /\ \A a, b \in Seq(Buffer) :
       /\ a \o b \in Seq(Buffer)
       /\ Len(a) \in Nat /\ Len(b) \in Nat
       /\ DOMAIN a = 1 .. Len(a) /\ DOMAIN b = 1 .. Len(b)
       /\ DOMAIN (a \o b) = 1 .. Len(a) + Len(b)
       /\ Len(a \o b) = Len(a) + Len(b)
       /\ \A i \in 1 .. Len(a) : (a \o b)[i] = a[i]
       /\ \A i \in 1 .. Len(b) : (a \o b)[Len(a) + i] = b[i]
       /\ \A i \in 1 .. Len(a) + Len(b) :
            (a \o b)[i] = IF i <= Len(a) THEN a[i] ELSE b[i - Len(a)]
  /\ \A a \in Seq(Buffer), k \in Nat : k <= Len(a) =>
       /\ SubSeq(a, 1, k) \in Seq(Buffer)
       /\ Len(SubSeq(a, 1, k)) = k
       /\ DOMAIN SubSeq(a, 1, k) = 1 .. k
       /\ \A i \in 1 .. k : SubSeq(a, 1, k)[i] = a[i]
<1>1. ASSUME NEW a \in Seq(Buffer), NEW b \in Seq(Buffer)
      PROVE  /\ a \o b \in Seq(Buffer)
             /\ Len(a) \in Nat /\ Len(b) \in Nat
             /\ DOMAIN a = 1 .. Len(a) /\ DOMAIN b = 1 .. Len(b)
             /\ DOMAIN (a \o b) = 1 .. Len(a) + Len(b)
             /\ Len(a \o b) = Len(a) + Len(b)
             /\ \A i \in 1 .. Len(a) : (a \o b)[i] = a[i]
             /\ \A i \in 1 .. Len(b) : (a \o b)[Len(a) + i] = b[i]
             /\ \A i \in 1 .. Len(a) + Len(b) :
                  (a \o b)[i] = IF i <= Len(a) THEN a[i] ELSE b[i - Len(a)]
  <2>1. Len(a) \in Nat /\ Len(b) \in Nat /\ DOMAIN a = 1 .. Len(a) /\ DOMAIN b = 1 .. Len(b)
    BY LenProperties
  <2>2. /\ a \o b \in Seq(Buffer)
        /\ Len(a \o b) = Len(a) + Len(b)
        /\ \A i \in 1 .. Len(a) + Len(b) : (a \o b)[i] =
             IF i <= Len(a) THEN a[i] ELSE b[i - Len(a)]
    BY ConcatProperties
  <2>3. DOMAIN (a \o b) = 1 .. Len(a \o b)
    BY <2>2, LenProperties
  <2> QED BY <2>1, <2>2, <2>3
<1>2. ASSUME NEW a \in Seq(Buffer), NEW k \in Nat, k <= Len(a)
      PROVE  /\ SubSeq(a, 1, k) \in Seq(Buffer)
             /\ Len(SubSeq(a, 1, k)) = k
             /\ DOMAIN SubSeq(a, 1, k) = 1 .. k
             /\ \A i \in 1 .. k : SubSeq(a, 1, k)[i] = a[i]
  <2>1. \A i \in 1 .. k : a[i] \in Buffer
    BY <1>2, ElementOfSeq, LenProperties
  <2>2. SubSeq(a, 1, k) \in Seq(Buffer) /\ Len(SubSeq(a, 1, k)) = k
        /\ \A i \in 1 .. k : SubSeq(a, 1, k)[i] = a[i]
    BY <2>1, SubSeqProperties
  <2> QED BY <2>2, LenProperties
<1> QED BY <1>1, <1>2

LEMMA LinesJoin == \A a, b \in Seq(Buffer) : Lines(a \o b) = Lines(a) \cup Lines(b)
<1> SUFFICES ASSUME NEW a \in Seq(Buffer), NEW b \in Seq(Buffer)
             PROVE  Lines(a \o b) = Lines(a) \cup Lines(b)
  OBVIOUS
<1>1. Range(a \o b) = Range(a) \cup Range(b)
  <2> DEFINE ab == a \o b
  <2>1. /\ Len(a) \in Nat /\ Len(b) \in Nat
        /\ DOMAIN a = 1 .. Len(a) /\ DOMAIN b = 1 .. Len(b)
        /\ DOMAIN ab = 1 .. Len(a) + Len(b)
        /\ \A i \in 1 .. Len(a) : ab[i] = a[i]
        /\ \A i \in 1 .. Len(b) : ab[Len(a) + i] = b[i]
        /\ \A i \in 1 .. Len(a) + Len(b) : ab[i] = IF i <= Len(a) THEN a[i] ELSE b[i - Len(a)]
    BY BufferSequences
  <2> HIDE DEF ab
  <2>2. Range(ab) \subseteq Range(a) \cup Range(b)
    BY <2>1 DEF Range
  <2>3. ASSUME NEW i \in 1 .. Len(a) PROVE a[i] \in Range(ab)
    <3>1. i \in DOMAIN ab /\ ab[i] = a[i]
      BY <2>1
    <3> QED BY <3>1 DEF Range
  <2>4. ASSUME NEW i \in 1 .. Len(b) PROVE b[i] \in Range(ab)
    <3>1. Len(a) + i \in DOMAIN ab /\ ab[Len(a) + i] = b[i]
      BY <2>1
    <3> QED BY <3>1 DEF Range
  <2> QED BY <2>1, <2>2, <2>3, <2>4 DEF Range, ab
<1> QED BY <1>1 DEF Lines

(* A line of some buffers is at a place in one of them. *)
LEMMA LinesAt ==
  \A bs \in Seq(Buffer) :
    /\ Lines(bs) \subseteq Nat
    /\ \A n : n \in Lines(bs) <=>
         \E i \in 1 .. Len(bs) : bs[i] # Notice /\ n \in Range(bs[i])
    /\ \A i \in 1 .. Len(bs) : \A x \in DOMAIN bs[i] :
         bs[i] # Notice => bs[i][x] \in Lines(bs)
<1> SUFFICES ASSUME NEW bs \in Seq(Buffer)
             PROVE  /\ Lines(bs) \subseteq Nat
                    /\ \A n : n \in Lines(bs) <=>
                         \E i \in 1 .. Len(bs) : bs[i] # Notice /\ n \in Range(bs[i])
                    /\ \A i \in 1 .. Len(bs) : \A x \in DOMAIN bs[i] :
                         bs[i] # Notice => bs[i][x] \in Lines(bs)
  OBVIOUS
<1>1. DOMAIN bs = 1 .. Len(bs)
  BY LenProperties
<1>2. \A n : n \in Lines(bs) <=>
        \E i \in 1 .. Len(bs) : bs[i] # Notice /\ n \in Range(bs[i])
  BY <1>1 DEF Lines, Range
<1>3. \A i \in 1 .. Len(bs) : Range(bs[i]) \subseteq Nat
  <2> SUFFICES ASSUME NEW i \in 1 .. Len(bs) PROVE Range(bs[i]) \subseteq Nat
    OBVIOUS
  <2>1. bs[i] \in Seq(Nat)
    BY ElementOfSeq DEF Buffer
  <2> QED BY <2>1, LenProperties, ElementOfSeq DEF Range
<1>4. \A i \in 1 .. Len(bs) : \A x \in DOMAIN bs[i] : bs[i][x] \in Range(bs[i])
  BY DEF Range
<1> QED BY <1>2, <1>3, <1>4

LEMMA IncreasingJoin ==
  \A a, b \in Seq(Buffer) :
    Increasing(a) /\ Increasing(b) /\ Before(Lines(a), Lines(b)) => Increasing(a \o b)
<1> SUFFICES ASSUME NEW a \in Seq(Buffer), NEW b \in Seq(Buffer),
                    Increasing(a), Increasing(b), Before(Lines(a), Lines(b))
             PROVE  Increasing(a \o b)
  OBVIOUS
<1> DEFINE ab == a \o b
<1>1. /\ Len(a) \in Nat /\ Len(b) \in Nat
      /\ DOMAIN a = 1 .. Len(a) /\ DOMAIN b = 1 .. Len(b)
      /\ DOMAIN ab = 1 .. Len(a) + Len(b)
      /\ \A i \in 1 .. Len(a) + Len(b) : ab[i] = IF i <= Len(a) THEN a[i] ELSE b[i - Len(a)]
  BY BufferSequences
<1> HIDE DEF ab
<1> SUFFICES ASSUME NEW i \in 1 .. Len(a) + Len(b), NEW j \in 1 .. Len(a) + Len(b),
                    ab[i] # Notice, ab[j] # Notice,
                    NEW x \in DOMAIN ab[i], NEW y \in DOMAIN ab[j],
                    i < j \/ (i = j /\ x < y)
             PROVE  ab[i][x] < ab[j][y]
  BY <1>1 DEF Increasing, ab
<1>2. CASE j <= Len(a)
  <2>1. i \in DOMAIN a /\ j \in DOMAIN a /\ ab[i] = a[i] /\ ab[j] = a[j]
    BY <1>1, <1>2
  <2> QED BY <2>1 DEF Increasing
<1>3. CASE i > Len(a)
  <2>1. /\ i - Len(a) \in DOMAIN b /\ j - Len(a) \in DOMAIN b
        /\ ab[i] = b[i - Len(a)] /\ ab[j] = b[j - Len(a)]
    BY <1>1, <1>3
  <2>2. i - Len(a) < j - Len(a) \/ (i - Len(a) = j - Len(a) /\ x < y)
    BY <1>1
  <2> QED BY <2>1, <2>2 DEF Increasing
<1>4. CASE i <= Len(a) /\ j > Len(a)
  <2>1. /\ i \in 1 .. Len(a) /\ j - Len(a) \in 1 .. Len(b)
        /\ ab[i] = a[i] /\ ab[j] = b[j - Len(a)]
    BY <1>1, <1>4
  <2>2. a[i][x] \in Lines(a) /\ b[j - Len(a)][y] \in Lines(b)
    BY <2>1, LinesAt
  <2> QED BY <2>1, <2>2 DEF Before
<1> QED BY <1>1, <1>2, <1>3, <1>4

LEMMA IncreasingPrefix ==
  \A a \in Seq(Buffer), k \in Nat : k <= Len(a) =>
    /\ Increasing(a) => Increasing(SubSeq(a, 1, k))
    /\ Lines(SubSeq(a, 1, k)) \subseteq Lines(a)
<1> SUFFICES ASSUME NEW a \in Seq(Buffer), NEW k \in Nat, k <= Len(a)
             PROVE  /\ Increasing(a) => Increasing(SubSeq(a, 1, k))
                    /\ Lines(SubSeq(a, 1, k)) \subseteq Lines(a)
  OBVIOUS
<1> DEFINE p == SubSeq(a, 1, k)
<1>1. /\ p \in Seq(Buffer) /\ Len(p) = k /\ DOMAIN p = 1 .. k
      /\ \A i \in 1 .. k : p[i] = a[i]
  BY BufferSequences
<1>2. Len(a) \in Nat /\ DOMAIN a = 1 .. Len(a)
  BY BufferSequences
<1> HIDE DEF p
<1>3. \A i \in DOMAIN p : i \in DOMAIN a /\ p[i] = a[i]
  BY <1>1, <1>2
<1>4. Range(p) \subseteq Range(a)
  BY <1>3 DEF Range
<1>5. Increasing(a) => Increasing(p)
  BY <1>3 DEF Increasing
<1> QED BY <1>4, <1>5 DEF Lines, p

LEMMA SingleBuffer ==
  /\ Lines(<<>>) = {} /\ Range(<<>>) = {} /\ Increasing(<<>>)
  /\ Lines(<<Notice>>) = {} /\ Increasing(<<Notice>>)
  /\ \A b \in Buffer : b # Notice => Lines(<<b>>) = Range(b)
  /\ \A n \in Nat \ {0} : Range(<<n>>) = {n} /\ Increasing(<< <<n>> >>) /\ <<n>> # Notice
<1>1. \A b : Range(<<b>>) = {b}
  BY DEF Range
<1>2. Lines(<<>>) = {} /\ Range(<<>>) = {} /\ Increasing(<<>>)
  BY DEF Lines, Range, Increasing
<1>3. Lines(<<Notice>>) = {}
  BY <1>1 DEF Lines
<1>4. Increasing(<<Notice>>)
  BY DEF Increasing
<1>5. ASSUME NEW b \in Buffer, b # Notice PROVE Lines(<<b>>) = Range(b)
  <2>1. Range(<<b>>) \ {Notice} = {b}
    BY <1>1, <1>5
  <2>2. {Range(d) : d \in {b}} = {Range(b)}
    OBVIOUS
  <2> QED BY <2>1, <2>2 DEF Lines
<1>6. ASSUME NEW n \in Nat \ {0} PROVE Increasing(<< <<n>> >>) /\ <<n>> # Notice
  BY DEF Increasing, Notice
<1> QED BY <1>1, <1>2, <1>3, <1>4, <1>5, <1>6

LEMMA AppendsLine ==
  \A b \in Buffer, n \in Nat \ {0} :
    /\ Range(Append(b, n)) = Range(b) \cup {n}
    /\ Append(b, n) # Notice
    /\ b # Notice /\ Increasing(<<b>>) /\ Before(Range(b), {n}) => Increasing(<<Append(b, n)>>)
<1> SUFFICES ASSUME NEW b \in Seq(Nat), NEW n \in Nat \ {0}
             PROVE  /\ Range(Append(b, n)) = Range(b) \cup {n}
                    /\ Append(b, n) # Notice
                    /\ b # Notice /\ Increasing(<<b>>) /\ Before(Range(b), {n})
                         => Increasing(<<Append(b, n)>>)
  BY DEF Buffer
<1> DEFINE c == Append(b, n)
<1>1. /\ c \in Seq(Nat) /\ Len(b) \in Nat /\ Len(c) = Len(b) + 1
      /\ DOMAIN b = 1 .. Len(b) /\ DOMAIN c = 1 .. Len(b) + 1
      /\ \A i \in 1 .. Len(b) : c[i] = b[i]
      /\ c[Len(b) + 1] = n
  OBVIOUS
<1> HIDE DEF c
<1>2. Range(c) = Range(b) \cup {n}
  BY <1>1 DEF Range
<1>3. c # Notice
  BY <1>1 DEF Notice
<1>4. ASSUME b # Notice, Increasing(<<b>>), Before(Range(b), {n}) PROVE Increasing(<<c>>)
  <2>1. \A x, y \in DOMAIN b : x < y => b[x] < b[y]
    BY <1>4 DEF Increasing
  <2>2. \A x \in DOMAIN b : b[x] < n
    BY <1>4 DEF Before, Range
  <2>3. \A x, y \in DOMAIN c : x < y => c[x] < c[y]
    <3> SUFFICES ASSUME NEW x \in 1 .. Len(b) + 1, NEW y \in 1 .. Len(b) + 1, x < y
                 PROVE  c[x] < c[y]
      BY <1>1
    <3>1. x \in 1 .. Len(b) /\ c[x] = b[x]
      BY <1>1
    <3>2. CASE y \in 1 .. Len(b)
      <4>1. b[x] < b[y] /\ c[y] = b[y]
        BY <1>1, <2>1, <3>1, <3>2
      <4> QED BY <3>1, <4>1
    <3>3. CASE y = Len(b) + 1
      BY <1>1, <2>2, <3>1, <3>3
    <3> QED BY <1>1, <3>2, <3>3
  <2> QED BY <2>3 DEF Increasing
<1> QED BY <1>2, <1>3, <1>4 DEF c

(* What the invariant says of the lines, by number. *)
LEMMA LineFacts ==
  LogInv =>
    /\ file \in Seq(Buffer) /\ buffers \in Seq(Buffer) /\ buffersToWrite \in Seq(Buffer)
    /\ currentBuffer \in Buffer /\ currentBuffer # Notice
    /\ appended \in Nat
    /\ Lines(file) \subseteq 1..appended /\ dropped \subseteq 1..appended
    /\ Lines(buffersToWrite) \subseteq 1..appended /\ Lines(buffers) \subseteq 1..appended
    /\ Range(currentBuffer) \subseteq 1..appended
<1> SUFFICES ASSUME LogInv
    PROVE  /\ file \in Seq(Buffer) /\ buffers \in Seq(Buffer) /\ buffersToWrite \in Seq(Buffer)
           /\ currentBuffer \in Buffer /\ currentBuffer # Notice
           /\ appended \in Nat
           /\ Lines(file) \subseteq 1..appended /\ dropped \subseteq 1..appended
           /\ Lines(buffersToWrite) \subseteq 1..appended /\ Lines(buffers) \subseteq 1..appended
           /\ Range(currentBuffer) \subseteq 1..appended
  OBVIOUS
<1>1. /\ file \in Seq(Buffer) /\ buffers \in Seq(Buffer) /\ buffersToWrite \in Seq(Buffer)
      /\ currentBuffer \in Buffer /\ appended \in 0..MaxLines
  BY Zenon DEF LogInv, LogTypeOK
<1>2. Lines(file) \cup Unwritten \cup dropped = 1..appended
  BY Zenon DEF LogInv, LogOrder
<1>3. appended \in Nat
  BY <1>1, AsyncLoggingAssumption
<1>4. /\ Lines(file) \subseteq 1..appended /\ dropped \subseteq 1..appended
      /\ Lines(buffersToWrite) \subseteq 1..appended /\ Lines(buffers) \subseteq 1..appended
      /\ Range(currentBuffer) \subseteq 1..appended
  BY <1>2, Zenon DEF Unwritten
<1>5. 0 \notin Range(currentBuffer) /\ Range(Notice) = {0}
  BY <1>3, <1>4 DEF Notice, Range
<1>6. currentBuffer # Notice
  BY <1>5
<1> QED BY <1>1, <1>3, <1>4, <1>6

LEMMA InitLogInv == LogInit => LogInv
<1> SUFFICES ASSUME LogInit PROVE LogInv
  OBVIOUS
<1>1. LogTypeOK
  <2>1. <<>> \in Buffer /\ <<>> \in Seq(Buffer)
    BY EmptySeq, Zenon DEF Buffer
  <2>2. appended \in 0..MaxLines
    BY AsyncLoggingAssumption DEF LogInit
  <2> QED BY <2>1, <2>2, Zenon DEF LogInit, LogTypeOK
<1>2. LogOrder
  <2>1. Unwritten = {} /\ Lines(file) = {} /\ dropped = {} /\ appended = 0
    BY SingleBuffer DEF LogInit, Unwritten
  <2>2. Increasing(<<currentBuffer>>)
    BY DEF LogInit, Increasing
  <2>3. /\ Increasing(file) /\ Increasing(buffersToWrite) /\ Increasing(buffers)
        /\ Lines(buffersToWrite) = {} /\ Lines(buffers) = {}
    BY SingleBuffer, Zenon DEF LogInit
  <2> QED BY <2>1, <2>2, <2>3 DEF LogOrder, Before
<1>3. LogFilled /\ LossesAnnounced
  BY DEF LogInit, LogFilled, LossesAnnounced
<1>4. LogReady
  BY AsyncLoggingAssumption, EmptySeq DEF LogInit, LogReady
<1> QED BY <1>1, <1>2, <1>3, <1>4 DEF LogInv

LEMMA AppendOrder == ASSUME LogInv, AppendLine PROVE LogOrder' /\ LogFilled' /\ LossesAnnounced'
<1>0. /\ file \in Seq(Buffer) /\ buffers \in Seq(Buffer) /\ currentBuffer \in Buffer
      /\ currentBuffer # Notice /\ appended \in Nat
      /\ Lines(file) \subseteq 1..appended /\ dropped \subseteq 1..appended
      /\ Lines(buffersToWrite) \subseteq 1..appended /\ Lines(buffers) \subseteq 1..appended
      /\ Range(currentBuffer) \subseteq 1..appended
  BY LineFacts
<1>1. LogOrder /\ LogFilled /\ LossesAnnounced
  BY DEF LogInv
<1>2. /\ appended' = appended + 1 /\ buffersToWrite' = buffersToWrite
      /\ file' = file /\ dropped' = dropped
  BY Zenon DEF AppendLine, writerVars
<1>3. LossesAnnounced'
  BY <1>1, <1>2, Zenon DEF LossesAnnounced
<1> DEFINE n == appended + 1
<1>4. n \in Nat \ {0} /\ Before(1..appended, {n})
  BY <1>0 DEF Before
<1>5. Lines(file)' = Lines(file) /\ Lines(buffersToWrite)' = Lines(buffersToWrite)
  BY <1>2, Zenon
<1>6. ASSUME NEW S, S \subseteq 1..appended PROVE Before(S, {n})
  BY <1>4, <1>6 DEF Before
<1> HIDE DEF n
<1>7. /\ Before(Lines(file) \cup dropped, Unwritten \cup {n})
      /\ Before(Lines(buffersToWrite), Lines(buffers) \cup Range(currentBuffer) \cup {n})
      /\ Before(Lines(buffers), Range(currentBuffer) \cup {n})
      /\ Before(Range(currentBuffer), {n})
      /\ Lines(file) \cup (Unwritten \cup {n}) \cup dropped = 1..n
  <2>1. /\ Before(Lines(file) \cup dropped, Unwritten)
        /\ Before(Lines(buffersToWrite), Lines(buffers) \cup Range(currentBuffer))
        /\ Before(Lines(buffers), Range(currentBuffer))
        /\ Lines(file) \cup Unwritten \cup dropped = 1..appended
    BY <1>1 DEF LogOrder
  <2>2. /\ Before(Lines(file) \cup dropped, {n}) /\ Before(Lines(buffersToWrite), {n})
        /\ Before(Lines(buffers), {n}) /\ Before(Range(currentBuffer), {n})
    BY <1>0, <1>6
  <2>3. (1..appended) \cup {n} = 1..n
    BY <1>0 DEF n
  <2> QED BY <2>1, <2>2, <2>3 DEF Before
<1>8. CASE Len(currentBuffer) < BufferLines
  <2>1. /\ currentBuffer' = Append(currentBuffer, n) /\ buffers' = buffers
    BY <1>8, Zenon DEF AppendLine, n
  <2>2. /\ Range(currentBuffer)' = Range(currentBuffer) \cup {n}
        /\ Increasing(<<currentBuffer>>)'
    BY <1>0, <1>1, <1>4, <1>6, <2>1, AppendsLine DEF LogOrder
  <2>3. Lines(buffers)' = Lines(buffers) /\ Increasing(file)' /\ Increasing(buffersToWrite)'
        /\ Increasing(buffers)'
    BY <1>1, <1>2, <2>1, Zenon DEF LogOrder
  <2>4. LogFilled'
    BY <1>1, <1>2, <2>1, Zenon DEF LogFilled
  <2>5. Unwritten' = Unwritten \cup {n}
    BY <1>5, <2>2, <2>3 DEF Unwritten
  <2>6. LogOrder'
    <3>1. Before(Lines(buffersToWrite), Lines(buffers) \cup Range(currentBuffer))'
      BY <1>5, <1>7, <2>2, <2>3 DEF Before
    <3>2. appended' = n /\ (Lines(file) \cap dropped = {})'
      BY <1>1, <1>2, <1>5 DEF n, LogOrder
    <3> QED BY <1>2, <1>5, <1>7, <2>2, <2>3, <2>5, <3>1, <3>2, Zenon DEF LogOrder
  <2> QED BY <1>3, <2>4, <2>6
<1>9. CASE ~(Len(currentBuffer) < BufferLines)
  <2>1. /\ currentBuffer' = <<n>> /\ buffers' = Append(buffers, currentBuffer)
    BY <1>9, Zenon DEF AppendLine, n
  <2>2. buffers' = buffers \o <<currentBuffer>> /\ <<currentBuffer>> \in Seq(Buffer)
    BY <1>0, <2>1
  <2>3. Lines(<<currentBuffer>>) = Range(currentBuffer)
    BY <1>0, SingleBuffer
  <2>4. Lines(buffers)' = Lines(buffers) \cup Range(currentBuffer)
    BY <1>0, <2>2, <2>3, LinesJoin
  <2>5. Increasing(buffers)'
    BY <1>0, <1>1, <2>2, <2>3, IncreasingJoin DEF LogOrder
  <2>6. Range(currentBuffer)' = {n} /\ Increasing(<<currentBuffer>>)'
    BY <1>4, <2>1, SingleBuffer
  <2>7. Increasing(file)' /\ Increasing(buffersToWrite)'
    BY <1>1, <1>2, Zenon DEF LogOrder
  <2>8. Unwritten' = Unwritten \cup {n}
    BY <1>5, <2>4, <2>6 DEF Unwritten
  <2>9. LogFilled'
    <3>1. currentBuffer # <<>>
      BY <1>0, <1>9, AsyncLoggingAssumption, EmptySeq
    <3>2. \A i \in DOMAIN buffers' : \/ i \in DOMAIN buffers /\ buffers'[i] = buffers[i]
                                     \/ buffers'[i] = currentBuffer
      BY <1>0, <2>1
    <3>3. \A i \in DOMAIN buffers' : buffers'[i] # <<>> /\ buffers'[i] # Notice
      BY <1>0, <1>1, <3>1, <3>2, Zenon DEF LogFilled
    <3> QED BY <1>1, <1>2, <3>3, Zenon DEF LogFilled
  <2>10. LogOrder'
    <3>1. Before(Lines(buffersToWrite), Lines(buffers) \cup Range(currentBuffer))'
      BY <1>5, <1>7, <2>4, <2>6 DEF Before
    <3>2. Before(Lines(buffers), Range(currentBuffer))'
      BY <1>7, <2>4, <2>6 DEF Before
    <3>3. appended' = n /\ (Lines(file) \cap dropped = {})'
      BY <1>1, <1>2, <1>5 DEF n, LogOrder
    <3> QED BY <1>2, <1>5, <1>7, <2>5, <2>6, <2>7, <2>8, <3>1, <3>2, <3>3, Zenon DEF LogOrder
  <2> QED BY <1>3, <2>9, <2>10
<1> QED BY <1>8, <1>9

LEMMA TakeOrder == ASSUME LogInv, TakeBuffers, buffersToWrite = <<>>, newBuffer1 = <<>>
                   PROVE  LogOrder' /\ LogFilled' /\ LossesAnnounced'
<1>0. /\ file \in Seq(Buffer) /\ buffers \in Seq(Buffer) /\ currentBuffer \in Buffer
      /\ currentBuffer # Notice
  BY LineFacts
<1>1. LogOrder /\ LogFilled /\ LossesAnnounced
  BY DEF LogInv
<1>2. /\ buffersToWrite' = Append(buffers, currentBuffer) /\ buffers' = <<>>
      /\ currentBuffer' = <<>> /\ appended' = appended
      /\ file' = file /\ dropped' = dropped
  BY Zenon DEF TakeBuffers
<1>3. LossesAnnounced'
  BY <1>1, <1>2, Zenon DEF LossesAnnounced
<1>4. buffersToWrite' = buffers \o <<currentBuffer>> /\ <<currentBuffer>> \in Seq(Buffer)
  BY <1>0, <1>2
<1>5. Lines(<<currentBuffer>>) = Range(currentBuffer)
  BY <1>0, SingleBuffer
<1>6. Lines(buffersToWrite)' = Lines(buffers) \cup Range(currentBuffer)
  BY <1>0, <1>4, <1>5, LinesJoin
<1>7. Increasing(buffersToWrite)'
  BY <1>0, <1>1, <1>4, <1>5, IncreasingJoin DEF LogOrder
<1>8. /\ Lines(buffers)' = {} /\ Range(currentBuffer)' = {}
      /\ Increasing(buffers)' /\ Increasing(<<currentBuffer>>)'
  <2>1. Increasing(<< <<>> >>)
    BY DEF Increasing
  <2> QED BY <1>2, <2>1, SingleBuffer
<1>9. Lines(file)' = Lines(file) /\ Increasing(file)'
  BY <1>1, <1>2, Zenon DEF LogOrder
<1>10. Unwritten' = Unwritten
  BY <1>6, <1>8, SingleBuffer DEF Unwritten
<1>11. LogOrder'
  <2>1. /\ Before(Lines(buffersToWrite), Lines(buffers) \cup Range(currentBuffer))'
        /\ Before(Lines(buffers), Range(currentBuffer))'
    BY <1>8 DEF Before
  <2>2. /\ Before(Lines(file) \cup dropped, Unwritten)'
        /\ (Lines(file) \cap dropped = {})'
        /\ (Lines(file) \cup Unwritten \cup dropped = 1..appended)'
    BY <1>1, <1>2, <1>9, <1>10, Zenon DEF LogOrder
  <2> QED BY <1>7, <1>8, <1>9, <2>1, <2>2 DEF LogOrder
<1>12. LogFilled'
  <2>1. \A i \in DOMAIN buffersToWrite' :
          \/ i \in DOMAIN buffers /\ buffersToWrite'[i] = buffers[i]
          \/ i = Len(buffersToWrite') /\ buffersToWrite'[i] = currentBuffer
    BY <1>0, <1>2
  <2>2. DOMAIN buffers' = {}
    BY <1>2
  <2> QED BY <1>0, <1>1, <2>1, <2>2, Zenon DEF LogFilled
<1> QED BY <1>3, <1>11, <1>12

(* What is kept of the buffers taken, and what is written of that. *)
Prefix(a, b) ==
  /\ a \in Seq(Buffer) /\ DOMAIN a = 1 .. Len(a) /\ Len(a) \in 0 .. Len(b)
  /\ \A i \in 1 .. Len(a) : a[i] = b[i]
  /\ Increasing(a) /\ Lines(a) \subseteq Lines(b)

LEMMA PrefixOf ==
  \A b \in Seq(Buffer), k \in Nat :
    k <= Len(b) /\ Increasing(b) => Prefix(SubSeq(b, 1, k), b) /\ Len(SubSeq(b, 1, k)) = k
<1> SUFFICES ASSUME NEW b \in Seq(Buffer), NEW k \in Nat, k <= Len(b), Increasing(b)
             PROVE  Prefix(SubSeq(b, 1, k), b) /\ Len(SubSeq(b, 1, k)) = k
  OBVIOUS
<1> DEFINE a == SubSeq(b, 1, k)
<1>1. /\ a \in Seq(Buffer) /\ Len(a) = k /\ DOMAIN a = 1 .. k /\ Len(b) \in Nat
      /\ \A i \in 1 .. k : a[i] = b[i]
  BY BufferSequences
<1>2. Increasing(a) /\ Lines(a) \subseteq Lines(b)
  BY IncreasingPrefix
<1> HIDE DEF a
<1>3. Prefix(a, b) /\ Len(a) = k
  BY <1>1, <1>2 DEF Prefix
<1> QED BY <1>3 DEF a

LEMMA KeptFacts ==
  LogInv /\ logThread = "write" =>
    /\ Prefix(Kept, buffersToWrite) /\ Kept # <<>>
    /\ TooMany => Len(Kept) = KeptBuffers /\ Len(Kept) < Len(buffersToWrite)
    /\ ~TooMany => Kept = buffersToWrite
<1> SUFFICES ASSUME LogInv, logThread = "write"
    PROVE  /\ Prefix(Kept, buffersToWrite) /\ Kept # <<>>
           /\ TooMany => Len(Kept) = KeptBuffers /\ Len(Kept) < Len(buffersToWrite)
           /\ ~TooMany => Kept = buffersToWrite
  OBVIOUS
<1>1. /\ buffersToWrite \in Seq(Buffer) /\ buffersToWrite # <<>>
      /\ Increasing(buffersToWrite)
  BY LineFacts DEF LogInv, LogReady, LogOrder
<1>2. Len(buffersToWrite) \in Nat
  BY <1>1, LenProperties
<1>3. CASE TooMany
  <2>1. Kept = SubSeq(buffersToWrite, 1, KeptBuffers)
    BY <1>3 DEF Kept
  <2>2. /\ KeptBuffers \in Nat /\ KeptBuffers >= 2
        /\ KeptBuffers < Len(buffersToWrite)
    BY <1>2, <1>3, AsyncLoggingAssumption DEF TooMany
  <2>3. Prefix(Kept, buffersToWrite) /\ Len(Kept) = KeptBuffers
    BY <1>1, <1>2, <2>1, <2>2, PrefixOf
  <2>4. Kept # <<>>
    BY <2>2, <2>3
  <2> QED BY <1>3, <2>2, <2>3, <2>4
<1>4. CASE ~TooMany
  <2>1. Kept = buffersToWrite
    BY <1>4 DEF Kept
  <2>2. SubSeq(buffersToWrite, 1, Len(buffersToWrite)) = buffersToWrite
    BY <1>1, SubSeqFull
  <2>3. Prefix(SubSeq(buffersToWrite, 1, Len(buffersToWrite)), buffersToWrite)
    BY <1>1, <1>2, PrefixOf
  <2> QED BY <1>1, <1>4, <2>1, <2>2, <2>3
<1> QED BY <1>3, <1>4

LEMMA WrittenFacts ==
  LogInv /\ logThread = "write" =>
    /\ Prefix(Written, Kept) /\ Lines(Written) = Lines(Kept)
    /\ TooMany => Len(Written) = KeptBuffers
<1> SUFFICES ASSUME LogInv, logThread = "write"
    PROVE  /\ Prefix(Written, Kept) /\ Lines(Written) = Lines(Kept)
           /\ TooMany => Len(Written) = KeptBuffers
  OBVIOUS
<1>1. /\ Kept \in Seq(Buffer) /\ Kept # <<>> /\ Increasing(Kept)
      /\ DOMAIN Kept = 1 .. Len(Kept) /\ Len(Kept) <= Len(buffersToWrite)
      /\ \A i \in 1 .. Len(Kept) : Kept[i] = buffersToWrite[i]
      /\ TooMany => Len(Kept) = KeptBuffers /\ Len(Kept) < Len(buffersToWrite)
  BY KeptFacts DEF Prefix
<1>2. Len(Kept) \in Nat /\ Len(Kept) >= 1
  BY <1>1, EmptySeq
<1>3. CASE Last(Kept) = <<>>
  <2>1. Written = SubSeq(Kept, 1, Len(Kept) - 1)
    BY <1>3 DEF Written, Front
  <2>2. Prefix(Written, Kept) /\ Len(Written) = Len(Kept) - 1
    BY <1>1, <1>2, <2>1, PrefixOf
  <2>3. ASSUME NEW n \in Lines(Kept) PROVE n \in Lines(Written)
    <3>1. PICK i \in 1 .. Len(Kept) : Kept[i] # Notice /\ n \in Range(Kept[i])
      BY <1>1, LinesAt
    <3>2. i # Len(Kept)
      BY <1>3, <3>1, SingleBuffer DEF Last
    <3>3. i \in 1 .. Len(Written) /\ Written[i] = Kept[i]
      BY <1>2, <2>2, <3>2 DEF Prefix
    <3> QED BY <2>2, <3>1, <3>3, LinesAt DEF Prefix
  <2>4. Kept[Len(Kept)] = <<>> /\ Len(Kept) \in 1 .. Len(Kept)
    BY <1>2, <1>3 DEF Last
  <2>5. Len(buffersToWrite) \in Nat /\ DOMAIN buffersToWrite = 1 .. Len(buffersToWrite)
    BY LineFacts, LenProperties
  <2>6. Len(Kept) \in DOMAIN buffersToWrite /\ buffersToWrite[Len(Kept)] = <<>>
    BY <1>1, <1>2, <2>4, <2>5
  <2>7. ~TooMany
    BY <1>1, <1>2, <2>5, <2>6 DEF LogInv, LogFilled
  <2>8. Lines(Written) = Lines(Kept)
    BY <2>2, <2>3 DEF Prefix
  <2> QED BY <2>2, <2>7, <2>8
<1>4. CASE Last(Kept) # <<>>
  <2>1. Written = Kept
    BY <1>4 DEF Written
  <2>2. SubSeq(Kept, 1, Len(Kept)) = Kept
    BY <1>1, SubSeqFull
  <2>3. Prefix(SubSeq(Kept, 1, Len(Kept)), Kept)
    BY <1>1, <1>2, PrefixOf
  <2> QED BY <1>1, <2>1, <2>2, <2>3
<1> QED BY <1>3, <1>4

LEMMA WriteOrder == ASSUME LogInv, WriteBuffers PROVE LogOrder' /\ LogFilled'
<1>0. /\ file \in Seq(Buffer) /\ LogOrder /\ logThread = "write"
  BY LineFacts DEF LogInv, WriteBuffers
<1>1. /\ file' = file \o Announced \o Written /\ buffersToWrite' = <<>>
      /\ dropped' = dropped \cup (Lines(buffersToWrite) \ Lines(Kept))
      /\ buffers' = buffers /\ currentBuffer' = currentBuffer /\ appended' = appended
  BY Zenon DEF WriteBuffers, sharedVars
<1>2. /\ Announced \in Seq(Buffer) /\ Lines(Announced) = {} /\ Increasing(Announced)
  <2>1. Notice \in Buffer
    BY DEF Notice, Buffer
  <2> QED BY <2>1, SingleBuffer DEF Announced
<1>3. /\ Written \in Seq(Buffer) /\ Lines(Written) = Lines(Kept) /\ Increasing(Written)
      /\ Lines(Kept) \subseteq Lines(buffersToWrite)
  BY <1>0, KeptFacts, WrittenFacts DEF Prefix
<1> DEFINE F == Lines(file)
           T == Lines(buffersToWrite)
           K == Lines(Kept)
           B == Lines(buffers)
           C == Range(currentBuffer)
<1>4. /\ Before(F \cup dropped, T \cup B \cup C) /\ Before(T, B \cup C) /\ Before(B, C)
      /\ F \cap dropped = {} /\ F \cup (T \cup B \cup C) \cup dropped = 1..appended
      /\ K \subseteq T
  BY <1>0, <1>3 DEF LogOrder, Unwritten
<1>5. file \o Announced \in Seq(Buffer) /\ Lines(file \o Announced) = F
  <2>1. file \o Announced \in Seq(Buffer)
    BY <1>0, <1>2, BufferSequences
  <2>2. Lines(file \o Announced) = Lines(file) \cup Lines(Announced)
    BY <1>0, <1>2, LinesJoin
  <2> QED BY <1>2, <2>1, <2>2
<1>6. Increasing(file \o Announced)
  BY <1>0, <1>2, IncreasingJoin DEF LogOrder, Before
<1>7. Lines(file)' = F \cup K
  BY <1>1, <1>3, <1>5, LinesJoin
<1>8. Before(F, K)
  BY <1>4 DEF Before
<1>9. Increasing(file)'
  BY <1>1, <1>3, <1>5, <1>6, <1>8, IncreasingJoin
<1>10. /\ Lines(buffersToWrite)' = {} /\ Lines(buffers)' = B /\ Range(currentBuffer)' = C
       /\ Increasing(buffersToWrite)'
  BY <1>1, SingleBuffer
<1>11. Unwritten' = B \cup C
  BY <1>10 DEF Unwritten
<1>12. Increasing(buffers)' /\ Increasing(<<currentBuffer>>)'
  BY <1>0, <1>1 DEF LogOrder
<1>13. dropped' = dropped \cup (T \ K) /\ appended' = appended
  BY <1>1
<1> HIDE DEF F, T, K, B, C
<1>14. F \subseteq 1..appended /\ T \subseteq 1..appended /\ dropped \subseteq 1..appended
       /\ appended \in Nat
  BY <1>4, LineFacts
<1>15. (Lines(file) \cap dropped = {})'
  <2> SUFFICES ASSUME NEW n \in F \cup K, n \in dropped \cup (T \ K) PROVE FALSE
    BY <1>7, <1>13
  <2>1. n \in F \/ n \in K
    OBVIOUS
  <2>2. n \in 1..appended /\ ~(n < n)
    BY <1>4, <1>14
  <2>3. n \in F => n \notin dropped /\ n \notin T
    BY <1>4, <2>2 DEF Before
  <2>4. n \in K => n \notin dropped
    BY <1>4, <2>2 DEF Before
  <2> QED BY <2>1, <2>3, <2>4
<1>16. Before(Lines(file) \cup dropped, Unwritten)'
  <2>1. Before(F \cup K \cup (dropped \cup (T \ K)), B \cup C)
    BY <1>4 DEF Before
  <2> QED BY <1>7, <1>11, <1>13, <2>1 DEF Before
<1>17. (Lines(file) \cup Unwritten \cup dropped = 1..appended)'
  <2>1. (F \cup K) \cup (B \cup C) \cup (dropped \cup (T \ K)) = 1..appended
    BY <1>4
  <2> QED BY <1>7, <1>11, <1>13, <2>1
<1>18. /\ Before(Lines(buffersToWrite), Lines(buffers) \cup Range(currentBuffer))'
       /\ Before(Lines(buffers), Range(currentBuffer))'
  BY <1>4, <1>10 DEF Before
<1>19. LogOrder'
  BY <1>9, <1>10, <1>12, <1>15, <1>16, <1>17, <1>18, Zenon DEF LogOrder
<1>20. LogFilled'
  <2>1. DOMAIN buffersToWrite' = {}
    BY <1>1
  <2> QED BY <1>1, <2>1, Zenon DEF LogInv, LogFilled
<1> QED BY <1>19, <1>20

LEMMA BothInside ==
  \A a, b \in Nat : \A j \in 1 .. a, k \in a + 1 .. b :
    j \in 1 .. b /\ j # b /\ j < k /\ k \in 1 .. b
OBVIOUS

LEMMA IndexBelow ==
  \A b \in Nat : \A j \in 1 .. b : \A h \in 1 .. j - 1 : h \in 1 .. b /\ h < j
OBVIOUS

(* Between a line and the next there is no other. *)
LEMMA WriteLosses == ASSUME LogInv, WriteBuffers PROVE LossesAnnounced'
<1>0. /\ file \in Seq(Buffer) /\ LogOrder /\ LogFilled /\ LossesAnnounced
      /\ logThread = "write" /\ buffersToWrite \in Seq(Buffer)
  BY LineFacts DEF LogInv, WriteBuffers
<1>1. /\ file' = file \o Announced \o Written
      /\ dropped' = dropped \cup (Lines(buffersToWrite) \ Lines(Kept))
  BY Zenon DEF WriteBuffers
<1>2. /\ Kept \in Seq(Buffer) /\ Len(Kept) \in 0 .. Len(buffersToWrite)
      /\ \A i \in 1 .. Len(Kept) : Kept[i] = buffersToWrite[i]
      /\ Lines(Kept) \subseteq Lines(buffersToWrite)
      /\ TooMany => Len(Kept) = KeptBuffers /\ Len(Kept) < Len(buffersToWrite)
      /\ ~TooMany => Kept = buffersToWrite
  BY <1>0, KeptFacts DEF Prefix
<1>3. /\ Written \in Seq(Buffer) /\ Len(Written) \in 0 .. Len(Kept)
      /\ \A i \in 1 .. Len(Written) : Written[i] = Kept[i]
      /\ TooMany => Len(Written) = KeptBuffers
  BY <1>0, WrittenFacts DEF Prefix
<1>4. Before(Lines(file) \cup dropped, Lines(buffersToWrite))
  BY <1>0 DEF LogOrder, Unwritten, Before
<1>5. /\ Lines(file) \subseteq Nat /\ Lines(buffersToWrite) \subseteq Nat
      /\ dropped \subseteq Nat
  BY <1>0, LineFacts, LinesAt
<1>6. /\ Announced \in Seq(Buffer) /\ Len(Announced) = (IF TooMany THEN 1 ELSE 0)
      /\ TooMany => Announced[1] = Notice
  BY DEF Announced, Notice, Buffer
<1> DEFINE fa == file \o Announced
           L == Len(file)
           A == Len(Announced)
<1>7. /\ fa \in Seq(Buffer) /\ Len(fa) = L + A /\ L \in Nat
      /\ \A i \in 1 .. L : fa[i] = file[i]
      /\ TooMany => fa[L + 1] = Notice
  <2>1. /\ fa \in Seq(Buffer) /\ Len(fa) = L + A /\ L \in Nat
        /\ \A i \in 1 .. L : fa[i] = file[i]
        /\ \A i \in 1 .. A : fa[L + i] = Announced[i]
    BY <1>0, <1>6, BufferSequences
  <2>2. TooMany => 1 \in 1 .. A
    BY <1>6
  <2> QED BY <1>6, <2>1, <2>2
<1>8. /\ DOMAIN file' = 1 .. L + A + Len(Written)
      /\ \A i \in 1 .. L + A : file'[i] = fa[i]
      /\ \A i \in 1 .. Len(Written) : file'[L + A + i] = Written[i]
  BY <1>1, <1>3, <1>7, BufferSequences
<1> HIDE DEF fa, L, A
<1> SUFFICES ASSUME NEW i \in DOMAIN file', file'[i] # Notice,
                    NEW n \in Range(file'[i]), n + 1 \in dropped'
             PROVE  i > KeptBuffers /\ file'[i - KeptBuffers] = Notice
  BY DEF LossesAnnounced
<1>9. KeptBuffers \in Nat /\ KeptBuffers >= 2
  BY AsyncLoggingAssumption
<1>10. DOMAIN file = 1 .. L
  BY <1>0, LenProperties DEF L
<1>11. A \in 0..1
  BY <1>6 DEF A
<1>12. ASSUME n + 1 \in Lines(buffersToWrite) \ Lines(Kept)
       PROVE  /\ TooMany
              /\ \E k \in KeptBuffers + 1 .. Len(buffersToWrite) :
                   buffersToWrite[k] # Notice /\ n + 1 \in Range(buffersToWrite[k])
  <2>1. TooMany
    BY <1>2, <1>12
  <2>2. PICK k \in 1 .. Len(buffersToWrite) :
          buffersToWrite[k] # Notice /\ n + 1 \in Range(buffersToWrite[k])
    BY <1>0, <1>12, LinesAt
  <2>3. ASSUME k <= KeptBuffers PROVE FALSE
    <3>1. k \in 1 .. Len(Kept) /\ Kept[k] = buffersToWrite[k]
      BY <1>2, <1>9, <2>1, <2>3
    <3>2. n + 1 \in Lines(Kept)
      BY <1>2, <2>2, <3>1, LinesAt
    <3> QED BY <1>12, <3>2
  <2>4. k \in KeptBuffers + 1 .. Len(buffersToWrite)
    BY <1>9, <2>2, <2>3
  <2> QED BY <2>1, <2>2, <2>4
<1>13. ASSUME NEW j \in 1 .. KeptBuffers, n + 1 \in Lines(buffersToWrite) \ Lines(Kept)
       PROVE  \E p \in Lines(buffersToWrite) :
                /\ p \in Range(buffersToWrite[j]) /\ p < n + 1
                /\ \A h \in 1 .. j - 1 : \A m \in Range(buffersToWrite[h]) : m < p
  <2>1. PICK k \in KeptBuffers + 1 .. Len(buffersToWrite) :
          buffersToWrite[k] # Notice /\ n + 1 \in Range(buffersToWrite[k])
    BY <1>12, <1>13
  <2>0. Len(buffersToWrite) \in Nat /\ DOMAIN buffersToWrite = 1 .. Len(buffersToWrite)
    BY <1>0, LenProperties
  <2>2. /\ j \in 1 .. Len(buffersToWrite) /\ j # Len(buffersToWrite) /\ j < k
        /\ DOMAIN buffersToWrite = 1 .. Len(buffersToWrite)
        /\ k \in DOMAIN buffersToWrite
    BY <1>9, <1>13, <2>0, <2>1, BothInside
  <2>3. /\ buffersToWrite[j] # <<>>
        /\ \A h \in 1 .. Len(buffersToWrite) : buffersToWrite[h] # Notice
    BY <1>0, <2>2 DEF LogFilled
  <2>4. 1 \in DOMAIN buffersToWrite[j]
    <3>1. buffersToWrite[j] \in Seq(Nat)
      BY <1>0, <2>2, ElementOfSeq DEF Buffer
    <3>2. Len(buffersToWrite[j]) \in Nat \ {0}
      BY <2>3, <3>1, EmptySeq
    <3> QED BY <3>1, <3>2, LenProperties
  <2> DEFINE p == buffersToWrite[j][1]
  <2>5. p \in Range(buffersToWrite[j]) /\ p \in Lines(buffersToWrite)
    BY <1>0, <2>2, <2>3, <2>4, LinesAt DEF Range
  <2>6. p < n + 1
    <3>1. PICK y \in DOMAIN buffersToWrite[k] : buffersToWrite[k][y] = n + 1
      BY <2>1 DEF Range
    <3>2. Increasing(buffersToWrite)
      BY <1>0 DEF LogOrder
    <3>3. buffersToWrite[k] # Notice
      BY <2>1
    <3>4. p < buffersToWrite[k][y]
      BY <2>2, <2>3, <2>4, <3>1, <3>2, <3>3 DEF Increasing
    <3> QED BY <3>1, <3>4
  <2>7. ASSUME NEW h \in 1 .. j - 1, NEW m \in Range(buffersToWrite[h]) PROVE m < p
    <3>1. PICK y \in DOMAIN buffersToWrite[h] : buffersToWrite[h][y] = m
      BY DEF Range
    <3>2. h \in DOMAIN buffersToWrite /\ h < j
      BY <2>0, <2>2, <2>7, IndexBelow
    <3>3. Increasing(buffersToWrite)
      BY <1>0 DEF LogOrder
    <3>4. buffersToWrite[h][y] < p
      BY <2>2, <2>3, <2>4, <3>1, <3>2, <3>3 DEF Increasing
    <3> QED BY <3>1, <3>4
  <2> QED BY <2>5, <2>6, <2>7
<1>14. CASE i \in 1 .. L
  <2>1. file'[i] = file[i] /\ i \in DOMAIN file
    BY <1>7, <1>8, <1>10, <1>11, <1>14
  <2>2. n \in Lines(file) /\ n \in Nat
    BY <1>0, <1>5, <1>10, <2>1, LinesAt DEF L
  <2>3. n + 1 \notin Lines(buffersToWrite) \ Lines(Kept)
    <3> SUFFICES ASSUME n + 1 \in Lines(buffersToWrite) \ Lines(Kept) PROVE FALSE
      OBVIOUS
    <3>1. 1 \in 1 .. KeptBuffers
      BY <1>9
    <3>2. PICK p \in Lines(buffersToWrite) : p < n + 1
      BY <1>13, <3>1
    <3>3. n < p
      BY <1>4, <2>2, <3>2 DEF Before
    <3> QED BY <1>5, <2>2, <3>2, <3>3
  <2>4. n + 1 \in dropped
    BY <1>1, <2>3
  <2>5. i > KeptBuffers /\ file[i - KeptBuffers] = Notice
    BY <1>0, <2>1, <2>4 DEF LossesAnnounced
  <2>6. i - KeptBuffers \in 1 .. L
    BY <1>7, <1>9, <1>14, <2>5
  <2>7. file'[i - KeptBuffers] = file[i - KeptBuffers]
    BY <1>7, <1>8, <1>11, <2>6
  <2> QED BY <2>5, <2>7
<1>15. CASE i \notin 1 .. L
  <2> DEFINE w == i - (L + A)
  <2>1. i # L + A \/ A = 0
    BY <1>6, <1>7, <1>8, <1>11 DEF A
  <2>2. w \in 1 .. Len(Written) /\ i = (L + A) + w
    BY <1>3, <1>7, <1>8, <1>11, <1>15, <2>1
  <2>3. /\ file'[i] = buffersToWrite[w] /\ w \in 1 .. Len(buffersToWrite)
        /\ TooMany => w <= KeptBuffers
    <3> HIDE DEF w
    <3>1. file'[i] = Written[w]
      BY <1>8, <2>2
    <3>2. Written[w] = Kept[w] /\ w \in 1 .. Len(Kept)
      BY <1>2, <1>3, <2>2
    <3>3. Kept[w] = buffersToWrite[w] /\ w \in 1 .. Len(buffersToWrite)
      BY <1>2, <3>2
    <3> QED BY <1>2, <3>1, <3>2, <3>3
  <2> HIDE DEF w
  <2>4. n \in Lines(buffersToWrite) /\ n \in Nat
    BY <1>0, <1>5, <2>3, LinesAt
  <2>5. n + 1 \notin dropped
    BY <1>4, <1>5, <2>4 DEF Before
  <2>6. n + 1 \in Lines(buffersToWrite) \ Lines(Kept)
    BY <1>1, <2>5
  <2>7. TooMany
    BY <1>12, <2>6
  <2>8. ASSUME w < KeptBuffers PROVE FALSE
    <3>1. KeptBuffers \in 1 .. KeptBuffers /\ w \in 1 .. KeptBuffers - 1
      BY <1>9, <2>3, <2>8
    <3>2. PICK p \in Lines(buffersToWrite) :
            p < n + 1 /\ \A h \in 1 .. KeptBuffers - 1 : \A m \in Range(buffersToWrite[h]) : m < p
      BY <1>13, <2>6, <3>1
    <3>3. n < p
      BY <2>3, <3>1, <3>2
    <3> QED BY <1>5, <2>4, <3>2, <3>3
  <2>9. w = KeptBuffers
    BY <1>9, <2>3, <2>7, <2>8
  <2>10. A = 1 /\ file'[L + 1] = Notice
    BY <1>6, <1>7, <1>8, <2>7 DEF A
  <2>11. i - KeptBuffers = L + 1 /\ i > KeptBuffers
    BY <1>7, <1>9, <2>2, <2>9, <2>10
  <2> QED BY <2>10, <2>11
<1> QED BY <1>14, <1>15

LEMMA NextOrder == LogInv /\ [LogNext]_logVars => LogOrder' /\ LogFilled' /\ LossesAnnounced'
<1> SUFFICES ASSUME LogInv, [LogNext]_logVars
             PROVE  LogOrder' /\ LogFilled' /\ LossesAnnounced'
  OBVIOUS
<1>1. CASE AppendLine
  BY <1>1, AppendOrder
<1>2. CASE TakeBuffers /\ logThread # "write"
  BY <1>2, TakeOrder DEF LogInv, LogReady
<1>3. CASE WriteBuffers
  BY <1>3, WriteOrder, WriteLosses
<1>4. CASE UNCHANGED <<currentBuffer, buffers, buffersToWrite, appended, file, dropped>>
  <2>1. LogOrder /\ LogFilled /\ LossesAnnounced
    BY Zenon DEF LogInv
  <2>2. UNCHANGED currentBuffer /\ UNCHANGED buffers /\ UNCHANGED buffersToWrite
        /\ UNCHANGED appended /\ UNCHANGED file /\ UNCHANGED dropped
    BY <1>4
  <2>3. LogOrder'
    BY <2>1, <2>2, Zenon DEF LogOrder, Unwritten
  <2> QED BY <2>1, <2>2, <2>3, Zenon DEF LogFilled, LossesAnnounced
<1>5. CASE StartLogging \/ StopClears \/ StopJoins
  BY <1>4, <1>5, Zenon DEF StartLogging, StopClears, StopJoins, writerVars
<1>6. CASE TestLogging \/ Timeout
  BY <1>4, <1>6, Zenon DEF TestLogging, Timeout, writerVars, sharedVars
<1>7. CASE LockBuffers
  <2>1. logThread # "write"
    BY <1>7 DEF LockBuffers
  <2> QED BY <1>2, <1>4, <1>7, <2>1, Zenon DEF LockBuffers, writerVars, sharedVars
<1>8. CASE WokenTakes
  BY <1>2, <1>8 DEF WokenTakes
<1>9. CASE LogFinished \/ UNCHANGED logVars
  BY <1>4, <1>9, Zenon DEF LogFinished, logVars
<1> QED BY <1>1, <1>3, <1>5, <1>6, <1>7, <1>8, <1>9, Zenon DEF LogNext, LogThread

LEMMA NextTypes == LogInv /\ [LogNext]_logVars => LogTypeOK'
<1> SUFFICES ASSUME LogInv, [LogNext]_logVars PROVE LogTypeOK'
  OBVIOUS
<1>1. LogTypeOK
  BY DEF LogInv
<1>2. <<>> \in Buffer /\ <<>> \in Seq(Buffer)
  BY EmptySeq, Zenon DEF Buffer
<1>3. CASE AppendLine
  <2>1. appended' \in 0..MaxLines /\ appended + 1 \in Nat
    BY <1>1, <1>3, AsyncLoggingAssumption DEF LogTypeOK, AppendLine
  <2>2. \A b \in Buffer : Append(b, appended + 1) \in Buffer
    BY <2>1 DEF Buffer
  <2>3. <<appended + 1>> \in Buffer
    BY <2>1 DEF Buffer
  <2>4. Append(buffers, currentBuffer) \in Seq(Buffer)
    BY LineFacts
  <2>5. /\ currentBuffer' \in Buffer /\ buffers' \in Seq(Buffer)
        /\ nextBuffer' \in Buffer \cup {NoBuffer}
        /\ logThread' \in {"off", "test", "lock", "wait", "woken", "write", "done"}
    BY <1>1, <1>3, <2>2, <2>3, <2>4, Zenon DEF LogTypeOK, AppendLine, Notified
  <2>6. /\ UNCHANGED logging /\ UNCHANGED newBuffer1 /\ UNCHANGED newBuffer2
        /\ UNCHANGED buffersToWrite /\ UNCHANGED file /\ UNCHANGED dropped
        /\ UNCHANGED stopping
    BY <1>3, Zenon DEF AppendLine, writerVars
  <2> QED BY <1>1, <2>1, <2>5, <2>6, Zenon DEF LogTypeOK
<1>4. CASE TakeBuffers /\ logThread # "write"
  <2>1. Append(buffers, currentBuffer) \in Seq(Buffer)
    BY LineFacts
  <2>2. newBuffer1 = <<>> /\ newBuffer2 = <<>>
    BY <1>4, Zenon DEF LogInv, LogReady
  <2> QED BY <1>1, <1>2, <1>4, <2>1, <2>2, Zenon DEF LogTypeOK, TakeBuffers
<1>5. CASE WriteBuffers
  <2>1. file' \in Seq(Buffer) /\ dropped' \subseteq 1..MaxLines
    <3>1. /\ file \in Seq(Buffer) /\ Announced \in Seq(Buffer) /\ Written \in Seq(Buffer)
      <4>1. Notice \in Buffer
        BY DEF Notice, Buffer
      <4> QED BY <1>5, <4>1, LineFacts, WrittenFacts DEF WriteBuffers, Prefix, Announced
    <3>2. file \o Announced \o Written \in Seq(Buffer)
      BY <3>1, BufferSequences
    <3>3. Lines(buffersToWrite) \subseteq 1..MaxLines
      BY <1>1, LineFacts, AsyncLoggingAssumption DEF LogTypeOK
    <3> QED BY <1>1, <1>5, <3>2, <3>3 DEF WriteBuffers, LogTypeOK
  <2>2. newBuffer1' = <<>> /\ newBuffer2' \in Buffer \cup {NoBuffer}
    BY <1>1, <1>2, <1>5 DEF WriteBuffers, Recycle, Reset, LogTypeOK
  <2>3. buffersToWrite' = <<>> /\ logThread' = "test" /\ UNCHANGED sharedVars
    BY <1>5, Zenon DEF WriteBuffers
  <2> QED BY <1>1, <1>2, <2>1, <2>2, <2>3, Zenon DEF LogTypeOK, sharedVars
<1>6. CASE StartLogging \/ StopClears \/ StopJoins
  BY <1>1, <1>6, Zenon DEF LogTypeOK, StartLogging, StopClears, StopJoins, writerVars,
                          Notified
<1>7. CASE TestLogging \/ Timeout
  BY <1>1, <1>7, Zenon DEF LogTypeOK, TestLogging, Timeout, writerVars, sharedVars
<1>8. CASE LockBuffers
  <2>1. CASE buffers = <<>>
    BY <1>1, <1>8, <2>1, Zenon DEF LogTypeOK, LockBuffers, writerVars, sharedVars
  <2>2. CASE buffers # <<>>
    BY <1>4, <1>8, <2>2 DEF LockBuffers
  <2> QED BY <2>1, <2>2
<1>9. CASE WokenTakes
  BY <1>4, <1>9 DEF WokenTakes
<1>10. CASE LogFinished \/ UNCHANGED logVars
  BY <1>1, <1>10, Zenon DEF LogTypeOK, LogFinished, logVars
<1> QED BY <1>3, <1>5, <1>6, <1>7, <1>8, <1>9, <1>10, Zenon DEF LogNext, LogThread

LEMMA TwoBuffers ==
  \A a \in Seq(Buffer) :
    Len(a) > 1 => Len(SubSeq(a, 1, IF Len(a) > 2 THEN 2 ELSE Len(a))) = 2
<1> SUFFICES ASSUME NEW a \in Seq(Buffer), Len(a) > 1
             PROVE  Len(SubSeq(a, 1, IF Len(a) > 2 THEN 2 ELSE Len(a))) = 2
  OBVIOUS
<1>1. Len(a) \in Nat /\ 2 <= Len(a) /\ 2 \in Nat
  BY LenProperties
<1>2. Len(SubSeq(a, 1, 2)) = 2
  BY <1>1, BufferSequences
<1>3. CASE Len(a) > 2
  BY <1>2, <1>3
<1>4. CASE Len(a) = 2
  BY <1>2, <1>4
<1>5. \A n \in Nat : 2 <= n => n > 2 \/ n = 2
  OBVIOUS
<1>6. Len(a) > 2 \/ Len(a) = 2
  BY <1>1, <1>5
<1> QED BY <1>3, <1>4, <1>6

LEMMA NextReady == LogInv /\ [LogNext]_logVars => LogReady'
<1> SUFFICES ASSUME LogInv, [LogNext]_logVars PROVE LogReady'
  OBVIOUS
<1>1. LogReady /\ <<>> # NoBuffer
  BY AsyncLoggingAssumption, EmptySeq DEF LogInv
<1>2. CASE AppendLine
  <2>1. UNCHANGED <<newBuffer1, newBuffer2, buffersToWrite>>
        /\ (logThread = "write" <=> logThread' = "write")
    BY <1>2 DEF AppendLine, writerVars, Notified
  <2>2. nextBuffer' = NoBuffer => buffers' # <<>>
    <3>1. CASE Len(currentBuffer) < BufferLines
      BY <1>1, <1>2, <3>1, Zenon DEF AppendLine, LogReady
    <3>2. CASE ~(Len(currentBuffer) < BufferLines)
      <4>1. buffers' = Append(buffers, currentBuffer)
        BY <1>2, <3>2, Zenon DEF AppendLine
      <4>2. buffers \in Seq(Buffer) /\ currentBuffer \in Buffer
        BY LineFacts
      <4> QED BY <4>1, <4>2
    <3> QED BY <3>1, <3>2
  <2> QED BY <1>1, <2>1, <2>2, Zenon DEF LogReady
<1>3. CASE TakeBuffers /\ logThread # "write"
  <2>1. /\ buffersToWrite' = Append(buffers, currentBuffer) /\ newBuffer1' = NoBuffer
        /\ logThread' = "write"
    BY <1>3, Zenon DEF TakeBuffers
  <2>2. buffers \in Seq(Buffer) /\ currentBuffer \in Buffer
    BY LineFacts
  <2>3. buffersToWrite' # <<>> /\ (buffers # <<>> => Len(buffersToWrite') > 1)
    BY <2>1, <2>2, EmptySeq
  <2>4. newBuffer2 = <<>> /\ (nextBuffer = NoBuffer => buffers # <<>>)
    BY <1>1, <1>3 DEF LogReady
  <2>5. /\ nextBuffer' # NoBuffer /\ newBuffer2' \in {<<>>, NoBuffer}
        /\ newBuffer2' = NoBuffer => nextBuffer = NoBuffer
    BY <1>1, <1>3, <2>4 DEF TakeBuffers
  <2> QED BY <2>1, <2>3, <2>4, <2>5 DEF LogReady
<1>4. CASE WriteBuffers
  <2>1. /\ newBuffer2 \in {<<>>, NoBuffer}
        /\ newBuffer2 = NoBuffer => Len(buffersToWrite) > 1
    BY <1>1, <1>4 DEF LogReady, WriteBuffers
  <2>2. /\ UNCHANGED <<nextBuffer, buffers>> /\ buffersToWrite' = <<>> /\ logThread' = "test"
        /\ Recycle
    BY <1>4 DEF WriteBuffers, sharedVars
  <2>3. newBuffer1' = <<>>
    BY <2>2 DEF Recycle, Reset
  <2>4. newBuffer2' = <<>>
    <3>1. CASE newBuffer2 = <<>>
      BY <1>1, <2>2, <3>1 DEF Recycle
    <3>2. CASE newBuffer2 = NoBuffer
      <4>1. Len(Kept) > 1 /\ Kept \in Seq(Buffer) /\ Len(Kept) \in Nat
        <5>1. Kept \in Seq(Buffer) /\ (TooMany => Len(Kept) = KeptBuffers)
              /\ (~TooMany => Kept = buffersToWrite)
          BY <1>4, KeptFacts DEF WriteBuffers, Prefix
        <5> QED BY <2>1, <3>2, <5>1, LenProperties, AsyncLoggingAssumption
      <4>2. Len(SubSeq(Kept, 1, IF Len(Kept) > 2 THEN 2 ELSE Len(Kept))) = 2
        BY <4>1, TwoBuffers
      <4> QED BY <2>2, <3>2, <4>2 DEF Recycle, Reset
    <3> QED BY <2>1, <3>1, <3>2
  <2> QED BY <1>1, <2>2, <2>3, <2>4 DEF LogReady
<1>5. CASE /\ UNCHANGED <<nextBuffer, buffers, newBuffer1, newBuffer2, buffersToWrite>>
           /\ (logThread = "write" <=> logThread' = "write")
  BY <1>1, <1>5, Zenon DEF LogReady
<1>6. CASE StartLogging \/ StopClears \/ StopJoins
  BY <1>5, <1>6 DEF StartLogging, StopClears, StopJoins, writerVars, Notified
<1>7. CASE TestLogging \/ Timeout
  BY <1>5, <1>7 DEF TestLogging, Timeout, writerVars, sharedVars
<1>8. CASE LockBuffers
  <2>1. CASE buffers = <<>>
    BY <1>5, <1>8, <2>1 DEF LockBuffers, writerVars, sharedVars
  <2>2. CASE buffers # <<>>
    BY <1>3, <1>8, <2>2 DEF LockBuffers
  <2> QED BY <2>1, <2>2
<1>9. CASE WokenTakes
  BY <1>3, <1>9 DEF WokenTakes
<1>10. CASE LogFinished \/ UNCHANGED logVars
  BY <1>5, <1>10 DEF LogFinished, logVars
<1> QED BY <1>2, <1>4, <1>6, <1>7, <1>8, <1>9, <1>10, Zenon DEF LogNext, LogThread

LEMMA LogInvImplies == LogInv => LoggingSound
<1> SUFFICES ASSUME LogInv PROVE LoggingSound
  OBVIOUS
<1>1. LinesInOrder
  <2>1. Lines(file) \cap Unwritten = {}
    <3> SUFFICES ASSUME NEW n \in Lines(file), n \in Unwritten PROVE FALSE
      OBVIOUS
    <3>1. n \in Nat /\ n < n
      BY LineFacts, LinesAt DEF LogInv, LogOrder, Before
    <3> QED BY <3>1
  <2> QED BY <2>1, Zenon DEF LogInv, LogOrder, LossesAnnounced, LinesInOrder
<1>2. BuffersReady
  BY AsyncLoggingAssumption, LineFacts DEF LogInv, LogReady, BuffersReady, Buffer
<1> QED BY <1>1, <1>2 DEF LogInv, LoggingSound

(* Every line appended is in the file, on its way there or dropped, in the  *)
(* order of the appends, never twice; each loss is announced; and at every *)
(* round the logging thread has two empty buffers and a full or current    *)
(* one to write (async_logging.cpp:52-137).                                *)
THEOREM LoggingIsSound == LogSpec => []LoggingSound
<1>1. LogInv /\ [LogNext]_logVars => LogInv'
  BY NextTypes, NextOrder, NextReady DEF LogInv
<1> QED BY <1>1, InitLogInv, LogInvImplies, PTL DEF LogSpec
=============================================================================
