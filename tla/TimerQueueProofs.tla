-------------------------- MODULE TimerQueueProofs --------------------------
(***************************************************************************)
(* Proofs about TimerQueue for every set of timers, delays and requests:   *)
(* each Timer has one owner, an active one is queued under its expiration, *)
(* the timerfd is armed early enough, and a cancel holds.  They are parts  *)
(* of one inductive invariant, IInv, which must also speak of what cancel  *)
(* leaves behind in timers_: entries of Timers that have been freed.       *)
(***************************************************************************)
EXTENDS TimerQueue, TLAPS

InboxOK ==
  /\ inbox \in Seq(Requests)
  /\ \A i \in 1 .. Len(inbox) : memory[inbox[i].timer] # "none"

(* A Timer is added once. *)
AddedOnce ==
  \A i, j \in 1 .. Len(inbox) :
    inbox[i].what = "add" /\ inbox[i] = inbox[j] => i = j

(* HandleRead's batch lasts from poll to reset, and the loop does not poll  *)
(* again in between.                                                       *)
HandlingOK == (batch # {} => calling) /\ (polled => ~calling)

Owned ==
  \A t \in Timers :
    /\ memory[t] = "live" <=> Requested(t) \/ t \in active \/ t \in batch
    /\ ~(Requested(t) /\ (t \in active \/ t \in batch))
    /\ ~(t \in active /\ t \in batch)

(* An entry is that of an active timer, which is then its only one, or was  *)
(* left behind when its Timer was freed.                                   *)
EntriesOK ==
  /\ \A t \in active : <<exp[t], t>> \in timers
  /\ \A e \in timers : \/ memory[e[2]] = "freed"
                       \/ e[2] \in active /\ e[1] = exp[e[2]]

(* The general form of EarliestIsArmed: entries left behind count, because  *)
(* a new timer is compared with them before the timerfd is armed for it.   *)
ArmedOK ==
  ~calling /\ ~polled /\ timers # {} =>
    \/ readable
    \/ armed # Disarmed /\ \A e \in timers : armed <= Later(e[1])

(* A timer whose cancel came in time is gone, or reset is about to free it. *)
CancelledOK ==
  \A t \in cancelled \ overtook :
    memory[t] = "freed" \/ (t \in batch /\ t \in canceling)

Running ==
  /\ AddedOnce
  /\ HandlingOK
  /\ EntriesOK
  /\ ArmedOK
  /\ CancelledOK

IInv ==
  /\ TypeOK
  /\ InboxOK
  /\ state # "undefined" => Owned
  /\ state = "running" => Running

USE DEF Delays, Ticks, Disarmed

-----------------------------------------------------------------------------
(* The queue of requests, the ticks, and the two operations that requests   *)
(* and user code in the loop thread share.                                 *)

(* A timer is requested when the request to add it waits. *)
LEMMA RequestedOK ==
  ASSUME inbox \in Seq(Requests), NEW t \in Timers
  PROVE  Requested(t) <=>
           \E i \in 1 .. Len(inbox) : inbox[i] = [what |-> "add", timer |-> t]
<1>1. DOMAIN inbox = 1 .. Len(inbox)
  OBVIOUS
<1> QED BY <1>1 DEF Requested, Range

(* The requests that wait are of timers that have been created. *)
LEMMA InboxTimers ==
  ASSUME inbox \in Seq(Requests)
  PROVE  \A i \in 1 .. Len(inbox) : inbox[i].timer \in Timers
<1>1. \A i \in 1 .. Len(inbox) : inbox[i] \in Requests
  OBVIOUS
<1>2. \A r \in Requests : r.timer \in Timers
  BY DEF Requests
<1> QED BY <1>1, <1>2

(* A request that is made is the last one. *)
LEMMA InboxAppended ==
  ASSUME inbox \in Seq(Requests), NEW r \in Requests, inbox' = Append(inbox, r)
  PROVE  /\ inbox' \in Seq(Requests)
         /\ Range(inbox') \subseteq Requests
         /\ Len(inbox') = Len(inbox) + 1
         /\ \A i \in 1 .. Len(inbox) : inbox'[i] = inbox[i]
         /\ inbox'[Len(inbox) + 1] = r
         /\ \A t \in Timers : Requested(t)' <=>
              Requested(t) \/ r = [what |-> "add", timer |-> t]
<1>1. /\ inbox' \in Seq(Requests)
      /\ Len(inbox') = Len(inbox) + 1
      /\ \A i \in 1 .. Len(inbox) : inbox'[i] = inbox[i]
      /\ inbox'[Len(inbox) + 1] = r
      /\ Len(inbox) \in Nat
  OBVIOUS
<1>2. Range(inbox') \subseteq Requests
  <2>1. DOMAIN inbox' = 1 .. Len(inbox') /\ \A i \in 1 .. Len(inbox') : inbox'[i] \in Requests
    BY <1>1
  <2> QED BY <2>1 DEF Range
<1>3. ASSUME NEW t \in Timers
      PROVE  Requested(t)' <=> Requested(t) \/ r = [what |-> "add", timer |-> t]
  <2>1. Requested(t)' <=>
          \E i \in 1 .. Len(inbox') : inbox'[i] = [what |-> "add", timer |-> t]
    <3>1. DOMAIN inbox' = 1 .. Len(inbox')
      BY <1>1
    <3> QED BY <3>1 DEF Requested, Range
  <2>2. 1 .. Len(inbox') = (1 .. Len(inbox)) \cup {Len(inbox) + 1}
    BY <1>1
  <2> QED BY <1>1, <2>1, <2>2, RequestedOK
<1> QED BY <1>1, <1>2, <1>3

(* The request that is run is the first one, and it was made once. *)
LEMMA InboxRun ==
  ASSUME inbox \in Seq(Requests), AddedOnce, inbox # <<>>, inbox' = Tail(inbox)
  PROVE  /\ inbox' \in Seq(Requests)
         /\ Range(inbox') \subseteq Requests
         /\ Len(inbox') = Len(inbox) - 1
         /\ \A i \in 1 .. Len(inbox') : i + 1 \in 1 .. Len(inbox) /\ inbox'[i] = inbox[i + 1]
         /\ Head(inbox) \in Requests /\ Head(inbox) = inbox[1] /\ 1 \in 1 .. Len(inbox)
         /\ \A t \in Timers : Requested(t)' <=>
              Requested(t) /\ Head(inbox) # [what |-> "add", timer |-> t]
<1>1. /\ inbox' \in Seq(Requests)
      /\ Len(inbox) \in Nat \ {0}
      /\ Len(inbox') = Len(inbox) - 1
      /\ \A i \in 1 .. Len(inbox') : i + 1 \in 1 .. Len(inbox) /\ inbox'[i] = inbox[i + 1]
      /\ Head(inbox) \in Requests /\ Head(inbox) = inbox[1]
  OBVIOUS
<1>2. Range(inbox') \subseteq Requests
  <2>1. DOMAIN inbox' = 1 .. Len(inbox') /\ \A i \in 1 .. Len(inbox') : inbox'[i] \in Requests
    BY <1>1
  <2> QED BY <2>1 DEF Range
<1>3. ASSUME NEW t \in Timers
      PROVE  Requested(t)' <=> Requested(t) /\ Head(inbox) # [what |-> "add", timer |-> t]
  <2> DEFINE add == [what |-> "add", timer |-> t]
  <2>1. Requested(t)' <=> \E i \in 1 .. Len(inbox') : inbox'[i] = add
    <3>1. DOMAIN inbox' = 1 .. Len(inbox')
      BY <1>1
    <3> QED BY <3>1 DEF Requested, Range
  <2>2. Requested(t) <=> \E i \in 1 .. Len(inbox) : inbox[i] = add
    BY RequestedOK
  <2>3. add.what = "add"
    OBVIOUS
  <2>4. ASSUME NEW i \in 1 .. Len(inbox'), inbox'[i] = add
        PROVE  Requested(t) /\ Head(inbox) # add
    <3>1. i + 1 \in 1 .. Len(inbox) /\ inbox[i + 1] = add /\ i + 1 # 1 /\ 1 \in 1 .. Len(inbox)
      BY <1>1, <2>4
    <3> QED BY <1>1, <2>2, <2>3, <3>1 DEF AddedOnce
  <2>5. ASSUME NEW i \in 1 .. Len(inbox), inbox[i] = add, Head(inbox) # add
        PROVE  \E j \in 1 .. Len(inbox') : inbox'[j] = add
    <3>1. i # 1 /\ i - 1 \in 1 .. Len(inbox') /\ (i - 1) + 1 = i
      BY <1>1, <2>5
    <3>2. inbox'[i - 1] = inbox[i]
      BY <1>1, <3>1
    <3> QED BY <2>5, <3>1, <3>2
  <2> QED BY <2>1, <2>2, <2>4, <2>5
<1> QED BY <1>1, <1>2, <1>3

(* Delays, when a tick brings them nearer (Due) and as the timerfd rounds   *)
(* them up (Later).                                                        *)
LEMMA TicksOK ==
  /\ \A n \in Ticks : Due(n) \in Ticks /\ Later(n) \in Delays /\ Later(n) >= n
  /\ \A m, n \in Ticks : m <= n => Later(m) <= Later(n)
  /\ \A a \in Delays, n \in Ticks : a <= Later(n) /\ a > 1 => a - 1 <= Later(Due(n))
BY TimersAssumption DEF Due, Later

(* AddTimerInLoop queues a timer that is not queued, and arms the timerfd   *)
(* if no entry is earlier.                                                 *)
LEMMA AddOK ==
  ASSUME TypeOK, EntriesOK, ArmedOK,
         NEW t \in Timers, NEW n \in Ticks, AddTimerInLoop(t, n),
         memory[t] # "freed", t \notin active,
         exp' = [exp EXCEPT ![t] = n],
         memory' = [memory EXCEPT ![t] = "live"],
         UNCHANGED <<calling, polled>>
  PROVE  /\ active' = active \cup {t}
         /\ timers' \subseteq Ticks \X Timers
         /\ armed' \in Delays \cup {Disarmed} /\ readable' \in BOOLEAN
         /\ EntriesOK' /\ ArmedOK'
<1>1. timers' = timers \cup {<<n, t>>} /\ active' = active \cup {t}
  BY DEF AddTimerInLoop, Inserted
<1>2. timers' \subseteq Ticks \X Timers
  BY <1>1 DEF TypeOK
<1>3. armed' \in Delays \cup {Disarmed} /\ readable' \in BOOLEAN
  BY TicksOK DEF TypeOK, AddTimerInLoop, ResetTimerfd, fdVars
<1>4. \A e \in timers : e[2] # t
  BY DEF EntriesOK
<1>5. EntriesOK'
  <2>1. ASSUME NEW u \in active' PROVE <<exp'[u], u>> \in timers'
    BY <1>1, <2>1 DEF TypeOK, EntriesOK
  <2>2. ASSUME NEW e \in timers'
        PROVE  memory'[e[2]] = "freed" \/ (e[2] \in active' /\ e[1] = exp'[e[2]])
    <3>1. CASE e \in timers
      <4>1. e[2] \in Timers /\ e[2] # t
        BY <1>4, <3>1 DEF TypeOK
      <4> QED BY <1>1, <3>1, <4>1 DEF TypeOK, EntriesOK
    <3>2. CASE e = <<n, t>>
      BY <1>1, <3>2 DEF TypeOK
    <3> QED BY <1>1, <3>1, <3>2
  <2> QED BY <2>1, <2>2 DEF EntriesOK
<1>6. ArmedOK'
  <2> SUFFICES ASSUME ~calling, ~polled, ~readable'
               PROVE  armed' # Disarmed /\ \A e \in timers' : armed' <= Later(e[1])
    BY DEF ArmedOK
  <2>1. CASE Arms(n)
    <3>1. armed' = Later(n)
      BY <2>1 DEF AddTimerInLoop, ResetTimerfd
    <3>2. ASSUME NEW e \in timers' PROVE e[1] \in Ticks /\ n <= e[1]
      <4>1. e[1] \in Ticks /\ (e \in timers => n < e[1])
        BY <1>2, <2>1 DEF Arms, IsEarliest, Keys
      <4> QED BY <1>1, <4>1
    <3> QED BY <3>1, <3>2, TicksOK
  <2>2. CASE ~Arms(n)
    <3>1. armed' = armed /\ readable' = readable
      BY <2>2 DEF AddTimerInLoop, fdVars
    <3>2. PICK e \in timers : ~(n < e[1])
      BY <2>2 DEF Arms, IsEarliest, Keys
    <3>3. e[1] \in Ticks /\ e[1] <= n
      BY <3>2 DEF TypeOK
    <3>4. armed # Disarmed /\ \A f \in timers : armed <= Later(f[1])
      BY <3>1, <3>2 DEF ArmedOK
    <3>5. armed \in Delays /\ armed <= Later(e[1]) /\ Later(e[1]) <= Later(n)
          /\ Later(e[1]) \in Delays /\ Later(n) \in Delays
      BY <3>3, <3>4, TicksOK DEF TypeOK
    <3>6. armed <= Later(n)
      BY <3>5
    <3> QED BY <1>1, <3>1, <3>4, <3>6
  <2> QED BY <2>1, <2>2
<1> QED BY <1>1, <1>2, <1>3, <1>5, <1>6

(* CancelInLoop frees a timer that is queued, leaves one that runs to reset, *)
(* and takes no notice of one whose request is still waiting.              *)
LEMMA CancelOK ==
  ASSUME TypeOK, Owned, Running,
         NEW t \in Timers, CancelInLoop(t), memory[t] # "none",
         \A u \in Timers : Requested(u)' <=> Requested(u),
         UNCHANGED <<exp, calling, batch, fdVars, polled>>
  PROVE  /\ memory' \in [Timers -> {"none", "live", "freed"}]
         /\ \A u \in Timers : memory[u] # "none" => memory'[u] # "none"
         /\ timers' = timers /\ active' \subseteq Timers /\ canceling' \subseteq Timers
         /\ cancelled' \subseteq Timers /\ overtook' \subseteq cancelled'
         /\ Owned' /\ EntriesOK' /\ ArmedOK' /\ CancelledOK'
<1>1. cancelled' = cancelled \cup {t} /\ cancelled' \subseteq Timers
      /\ overtook' = (IF Requested(t) THEN overtook \cup {t} ELSE overtook)
      /\ overtook' \subseteq cancelled'
  BY DEF CancelInLoop, TypeOK
<1>2. timers' = timers
  BY DEF CancelInLoop, ErasedFromTimers
<1>3. ArmedOK'
  BY <1>2 DEF Running, ArmedOK, fdVars
<1>4. CASE t \in active
  <2>1. /\ active' = active \ {t}
        /\ memory' = [memory EXCEPT ![t] = "freed"]
        /\ canceling' = canceling
    BY <1>4 DEF CancelInLoop
  <2>2. memory' \in [Timers -> {"none", "live", "freed"}]
    BY <2>1 DEF TypeOK
  <2>3. Owned'
    BY <1>4, <2>1 DEF Owned, TypeOK
  <2>4. EntriesOK'
    <3>1. \A e \in timers : e[2] \in Timers
      BY DEF TypeOK
    <3> QED BY <1>2, <2>1, <3>1 DEF Running, EntriesOK, TypeOK
  <2>5. CancelledOK'
    BY <1>1, <2>1 DEF Running, CancelledOK, TypeOK
  <2> QED BY <1>1, <1>2, <1>3, <2>1, <2>2, <2>3, <2>4, <2>5 DEF TypeOK
<1>5. CASE t \notin active
  <2>1. /\ active' = active /\ memory' = memory
        /\ canceling' = IF calling THEN canceling \cup {t} ELSE canceling
    BY <1>5 DEF CancelInLoop, Canceling
  <2>2. Owned' /\ EntriesOK'
    BY <1>2, <2>1 DEF Owned, Running, EntriesOK
  <2>3. CancelledOK'
    <3> SUFFICES ASSUME NEW u \in cancelled' \ overtook', memory[u] # "freed"
                 PROVE  u \in batch /\ u \in canceling'
      BY <2>1 DEF CancelledOK
    <3>1. CASE u \in cancelled
      BY <1>1, <2>1, <3>1 DEF Running, CancelledOK
    <3>2. CASE u = t
      <4>1. memory[t] = "live" /\ ~Requested(t)
        BY <1>1, <3>2 DEF TypeOK
      <4>2. t \in batch /\ calling
        BY <1>5, <4>1 DEF Owned, Running, HandlingOK
      <4> QED BY <2>1, <3>2, <4>2
    <3> QED BY <1>1, <3>1, <3>2
  <2> QED BY <1>1, <1>2, <1>3, <2>1, <2>2, <2>3 DEF TypeOK
<1> QED BY <1>4, <1>5

-----------------------------------------------------------------------------
(* The invariant, action by action. *)

(* The invariant holds of a queue without timers. *)
LEMMA InitOK == Init => IInv
<1> SUFFICES ASSUME Init PROVE IInv
  OBVIOUS
<1>1. Range(inbox) = {} /\ inbox \in Seq(Requests) /\ Len(inbox) = 0
  BY DEF Init, Range
<1>2. TypeOK
  <2>1. 0 \in Ticks /\ 0 <= MaxInbox
    BY TimersAssumption
  <2>2. /\ memory \in [Timers -> {"none", "live", "freed"}]
        /\ exp \in [Timers -> Ticks] /\ interval \in [Timers -> Ticks]
    BY <2>1 DEF Init
  <2> QED BY <1>1, <2>1, <2>2 DEF Init, TypeOK
<1>3. Owned
  BY <1>1 DEF Init, Owned, Requested
<1>4. InboxOK /\ AddedOnce
  BY <1>1 DEF InboxOK, AddedOnce
<1>5. HandlingOK /\ EntriesOK /\ ArmedOK /\ CancelledOK
  BY DEF Init, HandlingOK, EntriesOK, ArmedOK, CancelledOK
<1> QED BY <1>2, <1>3, <1>4, <1>5 DEF IInv, Running

(* What inbox says stays true when it stays as it is. *)
LEMMA InboxKept ==
  ASSUME TypeOK, InboxOK, AddedOnce, inbox' = inbox,
         \A u \in Timers : memory[u] # "none" => memory'[u] # "none"
  PROVE  /\ InboxOK' /\ AddedOnce'
         /\ \A u \in Timers : Requested(u)' <=> Requested(u)
<1>1. \A i \in 1 .. Len(inbox) : inbox[i].timer \in Timers
  BY InboxTimers DEF InboxOK
<1> QED BY <1>1 DEF InboxOK, AddedOnce, Requested

(* AddTimer in the loop thread. *)
LEMMA LoopAddTimerOK ==
  ASSUME IInv, NEW t \in Timers, LoopAddTimer(t)
  PROVE  IInv'
<1>0. TypeOK /\ InboxOK /\ state = "running" /\ Owned /\ Running
  BY DEF LoopAddTimer, IInv
<1>1. PICK n \in Delays, every \in Intervals(t) : Create(t, n, every) /\ AddTimerInLoop(t, n)
  BY DEF LoopAddTimer
<1>2. /\ memory[t] = "none"
      /\ memory' = [memory EXCEPT ![t] = "live"]
      /\ exp' = [exp EXCEPT ![t] = n]
      /\ interval' = [interval EXCEPT ![t] = every]
      /\ every \in Ticks /\ n \in Ticks
  BY <1>1, TimersAssumption DEF Create, Intervals
<1>3. UNCHANGED <<canceling, calling, batch, toRun, since, polled, inbox, state, cancelled, overtook>>
  BY DEF LoopAddTimer, callVars, history
<1>4. t \notin active /\ t \notin batch /\ ~Requested(t)
  BY <1>0, <1>2 DEF Owned
<1>5. /\ active' = active \cup {t}
      /\ timers' \subseteq Ticks \X Timers
      /\ armed' \in Delays \cup {Disarmed} /\ readable' \in BOOLEAN
      /\ EntriesOK' /\ ArmedOK'
  BY <1>0, <1>1, <1>2, <1>3, <1>4, AddOK DEF Running
<1>6. InboxOK' /\ AddedOnce' /\ \A u \in Timers : Requested(u)' <=> Requested(u)
  BY <1>0, <1>2, <1>3, InboxKept DEF TypeOK, Running
<1>7. TypeOK'
  BY <1>0, <1>2, <1>3, <1>5 DEF TypeOK
<1>8. Owned'
  BY <1>0, <1>2, <1>3, <1>5, <1>6 DEF Owned, TypeOK
<1>9. HandlingOK' /\ CancelledOK'
  BY <1>0, <1>2, <1>3 DEF Running, HandlingOK, CancelledOK, TypeOK
<1> QED BY <1>5, <1>6, <1>7, <1>8, <1>9 DEF IInv, Running

(* cancel in the loop thread. *)
LEMMA LoopCancelOK ==
  ASSUME IInv, NEW t \in Timers, LoopCancel(t)
  PROVE  IInv'
<1>0. TypeOK /\ InboxOK /\ state = "running" /\ Owned /\ Running
  BY DEF LoopCancel, IInv
<1>1. /\ memory[t] # "none" /\ CancelInLoop(t)
      /\ UNCHANGED <<exp, interval, calling, batch, toRun, since, fdVars, polled, inbox, state>>
  BY DEF LoopCancel
<1>2. \A u \in Timers : Requested(u)' <=> Requested(u)
  BY <1>1 DEF Requested
<1>3. /\ memory' \in [Timers -> {"none", "live", "freed"}]
      /\ \A u \in Timers : memory[u] # "none" => memory'[u] # "none"
      /\ timers' = timers /\ active' \subseteq Timers /\ canceling' \subseteq Timers
      /\ cancelled' \subseteq Timers /\ overtook' \subseteq cancelled'
      /\ Owned' /\ EntriesOK' /\ ArmedOK' /\ CancelledOK'
  BY <1>0, <1>1, <1>2, CancelOK
<1>4. InboxOK' /\ AddedOnce'
  BY <1>0, <1>1, <1>3, InboxKept DEF Running
<1>5. TypeOK'
  BY <1>0, <1>1, <1>3 DEF TypeOK, fdVars
<1>6. HandlingOK'
  BY <1>0, <1>1 DEF Running, HandlingOK
<1> QED BY <1>3, <1>4, <1>5, <1>6 DEF IInv, Running

(* The requests of other threads. *)
LEMMA ClientAddTimerOK ==
  ASSUME IInv, NEW t \in Timers, ClientAddTimer(t)
  PROVE  IInv'
<1>0. TypeOK /\ InboxOK /\ state = "running" /\ Owned /\ Running
  BY DEF ClientAddTimer, IInv
<1> DEFINE r == [what |-> "add", timer |-> t]
<1>1. PICK n \in Delays, every \in Intervals(t) : Create(t, n, every)
  BY DEF ClientAddTimer
<1>2. /\ memory[t] = "none"
      /\ memory' = [memory EXCEPT ![t] = "live"]
      /\ exp' = [exp EXCEPT ![t] = n]
      /\ interval' = [interval EXCEPT ![t] = every]
      /\ every \in Ticks /\ n \in Ticks
  BY <1>1, TimersAssumption DEF Create, Intervals
<1>3. /\ UNCHANGED <<timers, active, armed, readable>>
      /\ UNCHANGED <<canceling, calling, batch, toRun, since, polled, state, cancelled, overtook>>
      /\ Len(inbox) < MaxInbox
  BY DEF ClientAddTimer, callVars, history, setVars, fdVars
<1>4. t \notin active /\ t \notin batch /\ ~Requested(t)
  BY <1>0, <1>2 DEF Owned
<1>5. /\ inbox' \in Seq(Requests)
      /\ Range(inbox') \subseteq Requests
      /\ Len(inbox') = Len(inbox) + 1
      /\ \A i \in 1 .. Len(inbox) : inbox'[i] = inbox[i]
      /\ inbox'[Len(inbox) + 1] = r
      /\ \A u \in Timers : Requested(u)' <=>
           Requested(u) \/ r = [what |-> "add", timer |-> u]
  <2>1. r \in Requests /\ inbox' = Append(inbox, r)
    BY DEF ClientAddTimer, Requests
  <2> HIDE DEF r
  <2> QED BY <1>0, <2>1, InboxAppended DEF InboxOK
<1>6. \A u \in Timers : Requested(u)' <=> Requested(u) \/ u = t
  BY <1>5
<1>7. Len(inbox) \in Nat /\ 1 .. Len(inbox') = 1 .. Len(inbox) \cup {Len(inbox) + 1}
      /\ Len(inbox) + 1 \notin 1 .. Len(inbox)
  BY <1>0, <1>5 DEF InboxOK
<1>8. InboxOK'
  <2>1. \A i \in 1 .. Len(inbox) : inbox[i].timer \in Timers
    BY <1>0, InboxTimers DEF InboxOK
  <2>2. \A u \in Timers : memory[u] # "none" => memory'[u] # "none"
    BY <1>0, <1>2 DEF TypeOK
  <2>3. memory'[inbox'[Len(inbox) + 1].timer] # "none"
    BY <1>0, <1>2, <1>5 DEF TypeOK
  <2>4. \A i \in 1 .. Len(inbox) : memory'[inbox'[i].timer] # "none"
    BY <1>0, <1>5, <2>1, <2>2 DEF InboxOK
  <2> QED BY <1>5, <1>7, <2>3, <2>4 DEF InboxOK
<1>9. AddedOnce'
  <2>1. \A i \in 1 .. Len(inbox) : inbox[i] # r
    BY <1>0, <1>4, RequestedOK DEF InboxOK
  <2> QED BY <1>0, <1>5, <1>7, <2>1 DEF Running, AddedOnce
<1>10. TypeOK'
  <2>1. Len(inbox') <= MaxInbox
    BY <1>3, <1>5, <1>7, TimersAssumption
  <2> QED BY <1>0, <1>2, <1>3, <1>5, <2>1 DEF TypeOK
<1>11. Owned'
  BY <1>0, <1>2, <1>3, <1>4, <1>6 DEF Owned, TypeOK
<1>12. EntriesOK'
  <2>1. \A e \in timers : e[2] \in Timers /\ e[2] # t
    BY <1>0, <1>2, <1>4 DEF Running, EntriesOK, TypeOK
  <2> QED BY <1>0, <1>2, <1>3, <1>4, <2>1 DEF Running, EntriesOK, TypeOK
<1>13. HandlingOK' /\ ArmedOK' /\ CancelledOK'
  BY <1>0, <1>2, <1>3 DEF Running, HandlingOK, ArmedOK, CancelledOK, TypeOK
<1> QED BY <1>8, <1>9, <1>10, <1>11, <1>12, <1>13 DEF IInv, Running

(* cancel in another thread is a request. *)
LEMMA ClientCancelOK ==
  ASSUME IInv, NEW t \in Timers, ClientCancel(t)
  PROVE  IInv'
<1>0. TypeOK /\ InboxOK /\ state = "running" /\ Owned /\ Running
  BY DEF ClientCancel, IInv
<1> DEFINE r == [what |-> "cancel", timer |-> t]
<1>1. /\ memory[t] # "none" /\ Len(inbox) < MaxInbox
      /\ UNCHANGED <<memory, exp, interval, timers, active, armed, readable>>
      /\ UNCHANGED <<canceling, calling, batch, toRun, since, polled, state, cancelled, overtook>>
  BY DEF ClientCancel, callVars, history, setVars, fdVars
<1>2. /\ inbox' \in Seq(Requests)
      /\ Range(inbox') \subseteq Requests
      /\ Len(inbox') = Len(inbox) + 1
      /\ \A i \in 1 .. Len(inbox) : inbox'[i] = inbox[i]
      /\ inbox'[Len(inbox) + 1] = r
      /\ \A u \in Timers : Requested(u)' <=>
           Requested(u) \/ r = [what |-> "add", timer |-> u]
  <2>1. r \in Requests /\ inbox' = Append(inbox, r)
    BY DEF ClientCancel, Requests
  <2> HIDE DEF r
  <2> QED BY <1>0, <2>1, InboxAppended DEF InboxOK
<1>3. r.what = "cancel" /\ r.timer = t
  OBVIOUS
<1>4. \A u \in Timers : Requested(u)' <=> Requested(u)
  <2>1. \A u \in Timers : r # [what |-> "add", timer |-> u]
    OBVIOUS
  <2> QED BY <1>2, <2>1
<1>5. Len(inbox) \in Nat /\ 1 .. Len(inbox') = 1 .. Len(inbox) \cup {Len(inbox) + 1}
  BY <1>0, <1>2 DEF InboxOK
<1> HIDE DEF r
<1>6. InboxOK'
  BY <1>0, <1>1, <1>2, <1>3, <1>5 DEF InboxOK
<1>7. AddedOnce'
  <2>1. r.what # "add"
    BY <1>3
  <2> QED BY <1>0, <1>2, <1>5, <2>1 DEF Running, AddedOnce
<1>8. TypeOK'
  <2>1. Len(inbox') <= MaxInbox
    BY <1>1, <1>2, <1>5, TimersAssumption
  <2> QED BY <1>0, <1>1, <1>2, <2>1 DEF TypeOK
<1>9. Owned'
  BY <1>0, <1>1, <1>4 DEF Owned
<1>10. HandlingOK' /\ EntriesOK' /\ ArmedOK' /\ CancelledOK'
  BY <1>0, <1>1 DEF Running, HandlingOK, EntriesOK, ArmedOK, CancelledOK
<1> QED BY <1>6, <1>7, <1>8, <1>9, <1>10 DEF IInv, Running

(* A request of another thread, run by DoPendingFunctors. *)
LEMMA RunRequestOK ==
  ASSUME IInv, RunRequest
  PROVE  IInv'
<1>0. TypeOK /\ InboxOK /\ state = "running" /\ Owned /\ Running
  BY DEF RunRequest, IInv
<1> DEFINE r == Head(inbox)
<1>1. /\ ~polled /\ ~calling /\ inbox # <<>> /\ inbox' = Tail(inbox)
      /\ UNCHANGED <<exp, interval, calling, batch, toRun, since, polled, state>>
  BY DEF RunRequest
<1>2. /\ inbox' \in Seq(Requests)
      /\ Range(inbox') \subseteq Requests
      /\ Len(inbox') = Len(inbox) - 1
      /\ \A i \in 1 .. Len(inbox') : i + 1 \in 1 .. Len(inbox) /\ inbox'[i] = inbox[i + 1]
      /\ r \in Requests /\ r = inbox[1] /\ 1 \in 1 .. Len(inbox)
      /\ \A t \in Timers : Requested(t)' <=>
           Requested(t) /\ r # [what |-> "add", timer |-> t]
  BY <1>0, <1>1, InboxRun DEF InboxOK, Running
<1>3. r.timer \in Timers /\ r.what \in {"add", "cancel"}
      /\ r = [what |-> r.what, timer |-> r.timer]
  BY <1>2 DEF Requests
<1> DEFINE t == r.timer
<1>4. memory[t] # "none" /\ batch = {}
  BY <1>0, <1>1, <1>2 DEF InboxOK, Running, HandlingOK
<1>5. AddedOnce'
  BY <1>0, <1>2 DEF Running, AddedOnce, InboxOK
<1>6. Len(inbox') <= MaxInbox
  BY <1>0, <1>2, TimersAssumption DEF TypeOK, InboxOK
<1>7. HandlingOK'
  BY <1>1, <1>4 DEF HandlingOK
<1>8. ASSUME \A u \in Timers : memory[u] # "none" => memory'[u] # "none"
      PROVE  InboxOK'
  BY <1>0, <1>2, <1>8, InboxTimers DEF InboxOK
<1>9. CASE r.what = "add"
  <2>1. AddTimerInLoop(t, exp[t])
        /\ UNCHANGED <<memory, canceling, cancelled, overtook>>
    BY <1>9 DEF RunRequest, history
  <2>2. Requested(t)
    BY <1>0, <1>2, <1>3, <1>9, RequestedOK DEF InboxOK
  <2>3. memory[t] = "live" /\ t \notin active
    BY <1>0, <1>3, <2>2 DEF Owned
  <2>4. exp[t] \in Ticks /\ exp' = [exp EXCEPT ![t] = exp[t]]
        /\ memory' = [memory EXCEPT ![t] = "live"]
    BY <1>0, <1>1, <1>3, <2>1, <2>3 DEF TypeOK
  <2> HIDE DEF t
  <2>5. /\ active' = active \cup {t}
        /\ timers' \subseteq Ticks \X Timers
        /\ armed' \in Delays \cup {Disarmed} /\ readable' \in BOOLEAN
        /\ EntriesOK' /\ ArmedOK'
    <3>1. t \in Timers
      BY <1>3 DEF t
    <3>2. UNCHANGED <<calling, polled>>
      BY <1>1
    <3>3. memory[t] # "freed"
      BY <2>3
    <3> QED BY <1>0, <2>1, <2>3, <2>4, <3>1, <3>2, <3>3, AddOK DEF Running
  <2>6. TypeOK'
    BY <1>0, <1>1, <1>2, <1>3, <1>6, <2>1, <2>5 DEF TypeOK, t
  <2>7. \A u \in Timers : Requested(u)' <=> Requested(u) /\ u # t
    <3>1. \A u \in Timers : r = [what |-> "add", timer |-> u] <=> u = t
      BY <1>3, <1>9 DEF t
    <3> QED BY <1>2, <3>1
  <2>8. Owned'
    BY <1>0, <1>1, <1>4, <2>1, <2>2, <2>3, <2>5, <2>7 DEF Owned
  <2>9. CancelledOK'
    BY <1>0, <1>1, <2>1 DEF Running, CancelledOK
  <2>10. InboxOK'
    BY <1>8, <2>1
  <2> QED BY <1>5, <1>7, <2>5, <2>6, <2>8, <2>9, <2>10 DEF IInv, Running
<1>10. CASE r.what = "cancel"
  <2>1. CancelInLoop(t) /\ UNCHANGED fdVars
    BY <1>10 DEF RunRequest
  <2>2. \A u \in Timers : Requested(u)' <=> Requested(u)
    <3>1. \A u \in Timers : r # [what |-> "add", timer |-> u]
      BY <1>10
    <3> QED BY <1>2, <3>1
  <2>3. t \in Timers
    BY <1>3
  <2> HIDE DEF t
  <2>4. /\ memory' \in [Timers -> {"none", "live", "freed"}]
        /\ \A u \in Timers : memory[u] # "none" => memory'[u] # "none"
        /\ timers' = timers /\ active' \subseteq Timers /\ canceling' \subseteq Timers
        /\ cancelled' \subseteq Timers /\ overtook' \subseteq cancelled'
        /\ Owned' /\ EntriesOK' /\ ArmedOK' /\ CancelledOK'
    <3>1. UNCHANGED <<exp, calling, batch, fdVars, polled>>
      BY <1>1, <2>1
    <3> QED BY <1>0, <1>4, <2>1, <2>2, <2>3, <3>1, CancelOK
  <2>5. TypeOK'
    BY <1>0, <1>1, <1>2, <1>6, <2>1, <2>4 DEF TypeOK, fdVars
  <2> QED BY <1>5, <1>7, <1>8, <2>4, <2>5 DEF IInv, Running
<1> QED BY <1>3, <1>9, <1>10

(* Poll reports the timerfd, outside of HandleRead. *)
LEMMA PollOK ==
  ASSUME IInv, Poll
  PROVE  IInv'
<1>0. TypeOK /\ InboxOK /\ state = "running" /\ Owned /\ Running
  BY DEF Poll, IInv
<1>1. /\ ~calling /\ polled' = TRUE
      /\ UNCHANGED <<memory, exp, interval, timers, active, canceling, calling,
                     batch, toRun, since, armed, readable, inbox, state,
                     cancelled, overtook>>
  BY DEF Poll, setVars, callVars, fdVars, history
<1>2. InboxOK' /\ AddedOnce' /\ \A u \in Timers : Requested(u)' <=> Requested(u)
  BY <1>0, <1>1, InboxKept DEF Running
<1>3. TypeOK'
  BY <1>0, <1>1 DEF TypeOK
<1>4. Owned' /\ HandlingOK' /\ EntriesOK' /\ ArmedOK' /\ CancelledOK'
  BY <1>0, <1>1, <1>2
     DEF Owned, Running, HandlingOK, EntriesOK, ArmedOK, CancelledOK
<1> QED BY <1>2, <1>3, <1>4 DEF IInv, Running

(* When a freed Timer is used nothing is claimed but types. *)
LEMMA UndefinedOK ==
  ASSUME TypeOK, InboxOK, Undefined
  PROVE  IInv'
BY DEF Undefined, TypeOK, InboxOK, IInv, callVars, fdVars, history

(* HandleRead takes the expired entries, all of which are then those of     *)
(* live and active timers.                                                 *)
LEMMA HandleReadOK ==
  ASSUME IInv, HandleRead
  PROVE  IInv'
<1>0. TypeOK /\ InboxOK /\ state = "running" /\ Owned /\ Running /\ polled
  BY DEF HandleRead, IInv
<1> DEFINE due == {e[2] : e \in Expired}
<1>1. CASE ~Live(due)
  BY <1>0, <1>1, UndefinedOK DEF HandleRead
<1>2. CASE Live(due)
  <2>1. /\ polled' = FALSE /\ readable' = FALSE
        /\ batch' = due /\ toRun' = due
        /\ timers' = timers \ Expired /\ active' = active \ due
        /\ calling' = TRUE /\ canceling' = {} /\ since' = 0
        /\ UNCHANGED <<memory, exp, interval, armed, inbox, state, cancelled, overtook>>
    BY <1>2 DEF HandleRead, StillActive, history
  <2>2. batch = {} /\ ~calling
    BY <1>0 DEF Running, HandlingOK
  <2>3. Expired \subseteq timers /\ due \subseteq Timers
    BY <1>0 DEF Expired, TypeOK
  <2>4. \A t \in due : t \in active /\ exp[t] = 0
    BY <1>0, <1>2, <2>3 DEF Running, EntriesOK, Live, Expired
  <2> HIDE DEF due
  <2>5. InboxOK' /\ AddedOnce' /\ \A u \in Timers : Requested(u)' <=> Requested(u)
    BY <1>0, <2>1, InboxKept DEF Running
  <2>6. TypeOK'
    <3>1. 0 \in Ticks
      BY TimersAssumption
    <3>2. timers' \subseteq Ticks \X Timers /\ active' \subseteq Timers
          /\ batch' \subseteq Timers /\ toRun' \subseteq batch'
      BY <1>0, <2>1, <2>3 DEF TypeOK
    <3> QED BY <1>0, <2>1, <3>1, <3>2 DEF TypeOK
  <2>7. Owned'
    BY <1>0, <2>1, <2>2, <2>3, <2>4, <2>5 DEF Owned
  <2>8. EntriesOK'
    <3>1. ASSUME NEW t \in active' PROVE <<exp'[t], t>> \in timers'
      <4>1. t \in active /\ t \notin due /\ <<exp[t], t>> \in timers
        BY <1>0, <2>1 DEF Running, EntriesOK
      <4>2. <<exp[t], t>> \notin Expired
        BY <4>1 DEF due
      <4> QED BY <2>1, <4>1, <4>2
    <3>2. ASSUME NEW e \in timers'
          PROVE  memory'[e[2]] = "freed" \/ (e[2] \in active' /\ e[1] = exp'[e[2]])
      <4>1. e \in timers /\ e[1] # 0
        BY <2>1 DEF Expired
      <4>2. e[2] \in due => e[1] # exp[e[2]]
        BY <2>4, <4>1
      <4>3. e[2] \in due => memory[e[2]] = "live"
        BY <1>2 DEF Live, due
      <4> QED BY <1>0, <2>1, <4>1, <4>2, <4>3 DEF Running, EntriesOK
    <3> QED BY <3>1, <3>2 DEF EntriesOK
  <2>9. HandlingOK' /\ ArmedOK'
    BY <2>1 DEF HandlingOK, ArmedOK
  <2>10. CancelledOK'
    BY <1>0, <2>1, <2>2 DEF Running, CancelledOK
  <2> QED BY <2>5, <2>6, <2>7, <2>8, <2>9, <2>10 DEF IInv, Running
<1> QED BY <1>1, <1>2

(* A callback of the batch runs, and the batch stays. *)
LEMMA RunCallbackOK ==
  ASSUME IInv, RunCallback
  PROVE  IInv'
<1>0. TypeOK /\ InboxOK /\ state = "running" /\ Owned /\ Running
  BY DEF RunCallback, IInv
<1>1. PICK t \in toRun : toRun' = toRun \ {t}
  BY DEF RunCallback
<1>2. UNCHANGED <<memory, exp, interval, timers, active, canceling, calling, batch,
                  since, armed, readable, polled, inbox, state, cancelled, overtook>>
  BY DEF RunCallback, setVars, fdVars, history
<1>3. InboxOK' /\ AddedOnce' /\ \A u \in Timers : Requested(u)' <=> Requested(u)
  BY <1>0, <1>2, InboxKept DEF Running
<1>4. TypeOK'
  BY <1>0, <1>1, <1>2 DEF TypeOK
<1>5. Owned' /\ HandlingOK' /\ EntriesOK' /\ ArmedOK' /\ CancelledOK'
  BY <1>0, <1>2, <1>3
     DEF Owned, Running, HandlingOK, EntriesOK, ArmedOK, CancelledOK
<1> QED BY <1>3, <1>4, <1>5 DEF IInv, Running

(* reset queues the repeating timers again, frees the others, and arms the  *)
(* timerfd for the earliest entry, which must be that of a live Timer.     *)
LEMMA ResetOK ==
  ASSUME IInv, Reset
  PROVE  IInv'
<1>0. TypeOK /\ InboxOK /\ state = "running" /\ Owned /\ Running /\ calling
  BY DEF Reset, IInv
<1> DEFINE again == {t \in batch : Restarts(t)}
           left == [t \in Timers |-> IF t \in again THEN Left(t) ELSE exp[t]]
           entries == timers \cup {<<left[t], t>> : t \in again}
           safe == \A e \in entries :
                     memory[e[2]] = "live" \/ \E f \in entries : f[1] < e[1]
<1>1. CASE ~safe
  BY <1>0, <1>1, UndefinedOK DEF Reset
<1>2. CASE safe
  <2>1. /\ exp' = left /\ timers' = entries /\ active' = active \cup again
        /\ memory' = [t \in Timers |-> IF t \in batch /\ Discards(t)
                                       THEN "freed" ELSE memory[t]]
        /\ Rearm(entries, left)
        /\ calling' = FALSE /\ batch' = {} /\ toRun = {}
        /\ UNCHANGED <<interval, canceling, toRun, since, polled, inbox, state,
                       cancelled, overtook>>
    BY <1>2 DEF Reset, history
  <2>2. /\ again \subseteq batch /\ batch \subseteq Timers
        /\ \A t \in batch : Discards(t) <=> t \notin again
        /\ \A t \in again : t \notin canceling
    BY <1>0 DEF TypeOK, Discards, Restarts
  <2>3. \A t \in Timers : Left(t) \in Ticks
    BY <1>0, TimersAssumption DEF TypeOK, Left
  <2>4. /\ left \in [Timers -> Ticks]
        /\ \A t \in active : left[t] = exp[t]
    BY <1>0, <2>2, <2>3 DEF TypeOK, Owned
  <2>5. /\ entries \subseteq Ticks \X Timers
        /\ timers \subseteq entries
        /\ \A t \in again : <<left[t], t>> \in entries
        /\ \A e \in entries : e \in timers \/ (e[2] \in again /\ e[1] = left[e[2]])
    <3>1. \A t \in again : <<left[t], t>> \in Ticks \X Timers
      <4> HIDE DEF left, again
      <4> QED BY <2>2, <2>4
    <3>2. timers \subseteq Ticks \X Timers
      BY <1>0 DEF TypeOK
    <3>3. \A e \in entries : e \in timers \/ \E t \in again : e = <<left[t], t>>
      <4> HIDE DEF left, again
      <4> QED OBVIOUS
    <3>4. timers \subseteq entries /\ \A t \in again : <<left[t], t>> \in entries
      <4> HIDE DEF left, again
      <4> QED OBVIOUS
    <3> HIDE DEF left, again, entries
    <3>5. \A e \in entries : e \in Ticks \X Timers
      BY <3>1, <3>2, <3>3
    <3>6. ASSUME NEW e \in entries, e \notin timers
          PROVE  e[2] \in again /\ e[1] = left[e[2]]
      <4>1. PICK t \in again : e = <<left[t], t>>
        BY <3>3, <3>6
      <4>2. e[2] = t /\ e[1] = left[t]
        BY <4>1
      <4> QED BY <4>2
    <3>7. \A e \in entries : e \in timers \/ (e[2] \in again /\ e[1] = left[e[2]])
      BY <3>6
    <3> QED BY <3>4, <3>5, <3>7
  <2> HIDE DEF left, entries, again
  <2>6. \A u \in Timers : memory[u] # "none" => memory'[u] # "none"
    BY <2>1
  <2>7. InboxOK' /\ AddedOnce' /\ \A u \in Timers : Requested(u)' <=> Requested(u)
    BY <1>0, <2>1, <2>6, InboxKept DEF Running
  <2>8. \A t \in active : t \notin batch /\ memory[t] = "live"
    BY <1>0 DEF Owned, TypeOK
  <2>9. EntriesOK'
    <3>1. ASSUME NEW t \in active' PROVE <<exp'[t], t>> \in timers'
      <4>1. CASE t \in active
        BY <1>0, <2>1, <2>4, <2>5, <4>1 DEF Running, EntriesOK
      <4>2. CASE t \in again
        BY <2>1, <2>5, <4>2
      <4> QED BY <2>1, <4>1, <4>2
    <3>2. ASSUME NEW e \in timers'
          PROVE  memory'[e[2]] = "freed" \/ (e[2] \in active' /\ e[1] = exp'[e[2]])
      <4>1. e[2] \in Timers
        BY <2>1, <2>5
      <4>2. CASE e \in timers
        BY <1>0, <2>1, <2>4, <4>1, <4>2 DEF Running, EntriesOK
      <4>3. CASE e[2] \in again /\ e[1] = left[e[2]]
        BY <2>1, <4>3
      <4> QED BY <2>1, <2>5, <4>2, <4>3
    <3> QED BY <3>1, <3>2 DEF EntriesOK
  <2>10. /\ armed' \in Delays \cup {Disarmed} /\ readable' \in BOOLEAN
         /\ ArmedOK'
    <3>1. CASE entries = {}
      BY <1>0, <2>1, <3>1 DEF Rearm, fdVars, TypeOK, ArmedOK
    <3>2. CASE entries # {}
      <4>1. PICK e \in entries : /\ \A f \in entries : e[1] <= f[1]
                                 /\ ResetTimerfd(left[e[2]])
        BY <2>1, <3>2 DEF Rearm
      <4>2. e[2] \in Timers /\ e[1] \in Ticks /\ \A f \in entries : f[1] \in Ticks
        BY <2>5
      <4>3. memory[e[2]] = "live"
        BY <1>2, <4>1, <4>2
      <4>4. e[1] = left[e[2]]
        <5>1. CASE e \in timers
          BY <1>0, <2>4, <4>3, <5>1 DEF Running, EntriesOK
        <5> QED BY <2>5, <5>1
      <4>5. armed' = Later(e[1]) /\ readable' = FALSE
        BY <4>1, <4>4 DEF ResetTimerfd
      <4>6. armed' \in Delays /\ armed' # Disarmed
        BY <4>2, <4>5, TicksOK
      <4>7. \A f \in entries : armed' <= Later(f[1])
        BY <4>1, <4>2, <4>5, TicksOK
      <4> QED BY <2>1, <4>5, <4>6, <4>7 DEF ArmedOK
    <3> QED BY <3>1, <3>2
  <2>11. TypeOK'
    <3>1. memory' \in [Timers -> {"none", "live", "freed"}]
      BY <1>0, <2>1 DEF TypeOK
    <3> QED BY <1>0, <2>1, <2>2, <2>4, <2>5, <2>10, <3>1 DEF TypeOK
  <2>12. Owned'
    <3> SUFFICES ASSUME NEW t \in Timers
                 PROVE  /\ memory'[t] = "live" <=> Requested(t) \/ t \in active'
                        /\ ~(Requested(t) /\ t \in active')
      BY <2>1, <2>7 DEF Owned
    <3> QED BY <1>0, <2>1, <2>2 DEF Owned
  <2>13. HandlingOK'
    BY <1>0, <2>1 DEF Running, HandlingOK
  <2>14. CancelledOK'
    <3> SUFFICES ASSUME NEW t \in cancelled \ overtook
                 PROVE  memory'[t] = "freed"
      BY <2>1 DEF CancelledOK
    <3>1. t \in Timers
      BY <1>0 DEF TypeOK
    <3> QED BY <1>0, <2>1, <2>2, <3>1 DEF Running, CancelledOK
  <2> QED BY <2>7, <2>9, <2>10, <2>11, <2>12, <2>13, <2>14 DEF IInv, Running
<1> QED BY <1>1, <1>2

(* A tick brings every expiration nearer, and an armed timerfd fires before *)
(* it could come too late.                                                 *)
LEMMA TickOK ==
  ASSUME IInv, Tick
  PROVE  IInv'
<1>0. TypeOK /\ InboxOK /\ state = "running" /\ Owned /\ Running
  BY DEF Tick, IInv
<1>1. /\ exp' = [t \in Timers |-> Due(exp[t])]
      /\ timers' = {<<Due(e[1]), e[2]>> : e \in timers}
      /\ armed' = IF armed > 1 THEN armed - 1 ELSE Disarmed
      /\ readable' = (readable \/ armed = 1)
      /\ since' = IF calling /\ since < MaxDelay THEN since + 1 ELSE since
      /\ UNCHANGED <<memory, interval, active, canceling, calling, batch, toRun,
                     polled, inbox, state, cancelled, overtook>>
  BY DEF Tick, history
<1>2. \A e \in timers : e[1] \in Ticks /\ e[2] \in Timers /\ e = <<e[1], e[2]>>
  BY <1>0 DEF TypeOK
<1>3. /\ \A e \in timers : <<Due(e[1]), e[2]>> \in timers'
      /\ \A f \in timers' : \E e \in timers : f = <<Due(e[1]), e[2]>>
  BY <1>1
<1>4. \A f \in timers' : f \in Ticks \X Timers
  <2>1. \A n \in Ticks : Due(n) \in Ticks
    BY TicksOK
  <2> QED BY <1>2, <1>3, <2>1
<1>5. InboxOK' /\ AddedOnce' /\ \A u \in Timers : Requested(u)' <=> Requested(u)
  BY <1>0, <1>1, InboxKept DEF Running
<1>6. TypeOK'
  <2>1. exp' \in [Timers -> Ticks]
    BY <1>0, <1>1, TicksOK DEF TypeOK
  <2>2. since' \in Ticks /\ armed' \in Delays \cup {Disarmed}
    BY <1>0, <1>1, TimersAssumption DEF TypeOK
  <2>3. readable' \in BOOLEAN
    BY <1>0, <1>1 DEF TypeOK
  <2> QED BY <1>0, <1>1, <1>4, <2>1, <2>2, <2>3 DEF TypeOK
<1>7. EntriesOK'
  <2>1. ASSUME NEW t \in active' PROVE <<exp'[t], t>> \in timers'
    <3>1. t \in active /\ t \in Timers /\ <<exp[t], t>> \in timers
      BY <1>0, <1>1 DEF Running, EntriesOK, TypeOK
    <3> QED BY <1>1, <1>3, <3>1
  <2>2. ASSUME NEW f \in timers'
        PROVE  memory'[f[2]] = "freed" \/ (f[2] \in active' /\ f[1] = exp'[f[2]])
    <3>1. PICK e \in timers : f = <<Due(e[1]), e[2]>>
      BY <1>3
    <3>2. f[2] = e[2] /\ f[1] = Due(e[1]) /\ e[2] \in Timers
      BY <1>2, <3>1
    <3> QED BY <1>0, <1>1, <3>2 DEF Running, EntriesOK
  <2> QED BY <2>1, <2>2 DEF EntriesOK
<1>8. ArmedOK'
  <2> SUFFICES ASSUME ~calling, ~polled, timers' # {}, ~readable'
               PROVE  armed' # Disarmed /\ \A f \in timers' : armed' <= Later(f[1])
    BY <1>1 DEF ArmedOK
  <2>1. timers # {} /\ ~readable /\ armed # 1
    BY <1>1
  <2>2. armed # Disarmed /\ \A e \in timers : armed <= Later(e[1])
    BY <1>0, <2>1 DEF Running, ArmedOK
  <2>3. armed \in Delays /\ armed > 1 /\ armed' = armed - 1
    BY <1>0, <1>1, <2>1, <2>2, TimersAssumption DEF TypeOK
  <2>4. ASSUME NEW f \in timers' PROVE armed' <= Later(f[1])
    <3>1. PICK e \in timers : f = <<Due(e[1]), e[2]>>
      BY <1>3
    <3>2. f[1] = Due(e[1]) /\ e[1] \in Ticks
      BY <1>2, <3>1
    <3> QED BY <2>2, <2>3, <3>2, TicksOK
  <2>5. armed' # Disarmed
    BY <2>3, TimersAssumption
  <2> QED BY <2>4, <2>5
<1>9. Owned' /\ HandlingOK' /\ CancelledOK'
  BY <1>0, <1>1, <1>5 DEF Owned, Running, HandlingOK, CancelledOK
<1> QED BY <1>5, <1>6, <1>7, <1>8, <1>9 DEF IInv, Running

(* ~TimerQueue frees the Timers that are queued, and no other is left. *)
LEMMA DestroyOK ==
  ASSUME IInv, Destroy
  PROVE  IInv'
<1>0. TypeOK /\ InboxOK /\ state = "running" /\ Owned /\ Running
      /\ ~calling /\ inbox = <<>>
  BY DEF Destroy, IInv
<1>1. CASE ~Live({e[2] : e \in timers})
  BY <1>0, <1>1, UndefinedOK DEF Destroy
<1>2. CASE Live({e[2] : e \in timers})
  <2>1. /\ memory' = [t \in Timers |-> IF \E e \in timers : e[2] = t THEN "freed"
                                       ELSE memory[t]]
        /\ timers' = {} /\ active' = {}
        /\ armed' = Disarmed /\ readable' = FALSE /\ state' = "destroyed"
        /\ UNCHANGED <<exp, interval, canceling, calling, batch, toRun, since,
                       polled, inbox, cancelled, overtook>>
    BY <1>2 DEF Destroy, callVars, history
  <2>2. TypeOK'
    <3>1. memory' \in [Timers -> {"none", "live", "freed"}]
      BY <1>0, <2>1 DEF TypeOK
    <3> QED BY <1>0, <2>1, <3>1 DEF TypeOK
  <2>3. \A t \in Timers : ~Requested(t)
    BY <1>0, RequestedOK DEF InboxOK
  <2>4. batch = {}
    BY <1>0 DEF Running, HandlingOK
  <2>5. \A t \in Timers : memory[t] = "live" => memory'[t] = "freed"
    <3>1. \A t \in active : \E e \in timers : e[2] = t
      <4>1. \A t \in active : <<exp[t], t>> \in timers /\ <<exp[t], t>>[2] = t
        BY <1>0 DEF Running, EntriesOK
      <4> QED BY <4>1
    <3> QED BY <1>0, <2>1, <2>3, <2>4, <3>1 DEF Owned
  <2>6. Owned'
    <3>1. \A t \in Timers : ~Requested(t)'
      BY <2>1, <2>3 DEF Requested
    <3>2. \A t \in Timers : memory'[t] # "live"
      BY <2>1, <2>5
    <3> QED BY <2>1, <2>4, <3>1, <3>2 DEF Owned
  <2>7. InboxOK'
    BY <1>0, <2>1 DEF InboxOK
  <2> QED BY <2>1, <2>2, <2>6, <2>7 DEF IInv
<1> QED BY <1>1, <1>2

-----------------------------------------------------------------------------
(* IInv is an invariant: every Timer has one owner, cancelled ones go, and  *)
(* the timerfd waits for the earliest entry.                               *)
THEOREM Invariant == Spec => []IInv
<1>1. IInv /\ [Next]_vars => IInv'
  <2> SUFFICES ASSUME IInv, [Next]_vars PROVE IInv'
    OBVIOUS
  <2>1. ASSUME NEW t \in Timers, LoopAddTimer(t) \/ LoopCancel(t) PROVE IInv'
    BY <2>1, LoopAddTimerOK, LoopCancelOK
  <2>2. ASSUME NEW t \in Timers, ClientAddTimer(t) \/ ClientCancel(t) PROVE IInv'
    BY <2>2, ClientAddTimerOK, ClientCancelOK
  <2>3. CASE LoopStep
    BY <2>3, RunRequestOK, PollOK, HandleReadOK, RunCallbackOK, ResetOK DEF LoopStep
  <2>4. CASE Tick \/ Destroy
    BY <2>4, TickOK, DestroyOK
  <2>5. CASE UNCHANGED vars
    BY <2>5 DEF vars, setVars, callVars, fdVars, history, IInv, TypeOK, InboxOK,
       Owned, Requested, Running, AddedOnce, HandlingOK, EntriesOK, ArmedOK,
       CancelledOK
  <2> QED BY <2>1, <2>2, <2>3, <2>4, <2>5 DEF Next
<1> QED BY InitOK, <1>1, PTL DEF Spec

(* A live Timer is with a queued request, in activeTimers_, or in the batch *)
(* HandleRead runs, and in one of them only (timer.cpp:123-219).           *)
THEOREM TimersHaveOneOwner == Spec => []OneOwner
<1>1. IInv => OneOwner
  BY DEF IInv, OneOwner, Owned
<1> QED BY Invariant, <1>1, PTL

(* The two sets agree on the timers that are active: each is live and in    *)
(* timers_ under the expiration it has now (timer.cpp:144-235).            *)
THEOREM ActiveTimersQueued == Spec => []ActiveIsQueued
<1>1. IInv => ActiveIsQueued
  BY DEF IInv, ActiveIsQueued, Running, EntriesOK, Owned, TypeOK
<1> QED BY Invariant, <1>1, PTL

(* The loop never sleeps past an active timer: the timerfd is armed for it  *)
(* or for an earlier entry, or has fired (timer.cpp:134-142, 198-235).     *)
THEOREM TimerfdIsArmed == Spec => []EarliestIsArmed
<1>1. IInv => EarliestIsArmed
  <2> SUFFICES ASSUME IInv, state = "running", ~calling, ~polled, active # {},
                      ~readable
               PROVE  armed # Disarmed /\ \A t \in active : armed <= Later(exp[t])
    BY DEF EarliestIsArmed
  <2>1. \A t \in active : <<exp[t], t>> \in timers
    BY DEF IInv, Running, EntriesOK
  <2>2. armed # Disarmed /\ \A e \in timers : armed <= Later(e[1])
    BY <2>1 DEF IInv, Running, ArmedOK
  <2>3. \A t \in active : armed <= Later(<<exp[t], t>>[1])
    BY <2>1, <2>2
  <2> QED BY <2>2, <2>3
<1> QED BY Invariant, <1>1, PTL

(* A timer whose cancel found it queued or running is not queued again      *)
(* (timer.cpp:144-161, 198-210).                                           *)
THEOREM CancelIsKept == Spec => []CancelHolds
<1>1. IInv => CancelHolds
  BY DEF IInv, CancelHolds, Running, CancelledOK, HandlingOK, Owned, TypeOK
<1> QED BY Invariant, <1>1, PTL
=============================================================================
