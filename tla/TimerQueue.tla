----------------------------- MODULE TimerQueue -----------------------------
(***************************************************************************)
(* brsdk::net::TimerQueue: timers kept in timers_ (by expiration) and      *)
(* activeTimers_ (by identity), one timerfd armed for the earliest, and    *)
(* HandleRead, which runs the expired ones and restarts the repeating      *)
(* ones.  Requests of other threads reach the loop through its FIFO queue  *)
(* of functors (EventLoop).                                                *)
(*                                                                         *)
(* Time is relative: exp[t] and the keys of timers_ are the ticks left, 0  *)
(* when due, so that a repeating timer needs no bound on the clock.  Which *)
(* of several due timers runs first is left open.  The 100 microseconds    *)
(* that how_much_time_from_now imposes are one tick.                       *)
(***************************************************************************)
EXTENDS Integers, FiniteSets, SequencesExt

CONSTANTS Timers,        \* Timer objects, one per AddTimer call
          Repeating,     \* those created with an interval
          Cancellable,   \* those whose TimerId user code may cancel
          MaxDelay,      \* delays and intervals are 1..MaxDelay ticks
          MaxInbox       \* bound on the requests waiting in the loop's queue

ASSUME TimersAssumption ==
  /\ Repeating \subseteq Timers
  /\ Cancellable \subseteq Timers
  /\ MaxDelay \in Nat \ {0}
  /\ MaxInbox \in Nat

Delays == 1..MaxDelay
Ticks == 0..MaxDelay
Disarmed == -1

VARIABLES
  memory,      \* each Timer object: "none", "live" or "freed"
  exp,         \* Timer::expiration_, in ticks from now
  interval,    \* Timer::interval_, 0 when it does not repeat
  timers,      \* timers_: pairs <<expiration, timer>>
  active,      \* activeTimers_
  canceling,   \* canceling_timers_
  calling,     \* calling_expired_timers_
  batch,       \* HandleRead's vector of expired timers
  toRun,       \* those whose callback has not been called yet
  since,       \* ticks since HandleRead read the clock
  armed,       \* ticks until the timerfd fires, or Disarmed
  readable,    \* the timerfd has fired and was not read
  polled,      \* poll has returned with the timerfd's channel active
  inbox,       \* requests of other threads, in the order they were made
  state,       \* "running", "destroyed", or "undefined": a freed Timer was used
  cancelled,   \* timers for which CancelInLoop has run
  overtook     \* those whose AddTimerInLoop was still queued at that time

vars == <<memory, exp, interval, timers, active, canceling, calling, batch,
          toRun, since, armed, readable, polled, inbox, state, cancelled,
          overtook>>

history == <<cancelled, overtook>>
setVars == <<timers, active>>
fdVars == <<armed, readable>>
callVars == <<canceling, calling, batch, toRun, since>>

Requests == [what : {"add", "cancel"}, timer : Timers]

TypeOK ==
  /\ memory \in [Timers -> {"none", "live", "freed"}]
  /\ exp \in [Timers -> Ticks]
  /\ interval \in [Timers -> Ticks]
  /\ timers \subseteq Ticks \X Timers
  /\ active \subseteq Timers
  /\ canceling \subseteq Timers
  /\ calling \in BOOLEAN
  /\ batch \subseteq Timers
  /\ toRun \subseteq batch
  /\ since \in Ticks
  /\ armed \in Delays \cup {Disarmed}
  /\ readable \in BOOLEAN
  /\ polled \in BOOLEAN
  /\ Range(inbox) \subseteq Requests /\ Len(inbox) <= MaxInbox
  /\ state \in {"running", "destroyed", "undefined"}
  /\ cancelled \subseteq Timers /\ overtook \subseteq cancelled

Init ==
  /\ memory = [t \in Timers |-> "none"]
  /\ exp = [t \in Timers |-> 0]
  /\ interval = [t \in Timers |-> 0]
  /\ timers = {}
  /\ active = {}
  /\ canceling = {}
  /\ calling = FALSE
  /\ batch = {}
  /\ toRun = {}
  /\ since = 0
  /\ armed = Disarmed
  /\ readable = FALSE
  /\ polled = FALSE
  /\ inbox = <<>>
  /\ state = "running"
  /\ cancelled = {}
  /\ overtook = {}

Live(S) == \A t \in S : memory[t] = "live"
Undefined == state' = "undefined" /\ UNCHANGED <<memory, exp, interval, timers,
  active, callVars, fdVars, polled, inbox, history>>

-----------------------------------------------------------------------------
(* The timerfd. *)

Later(n) == IF n > 1 THEN n ELSE 1

(* Arming discards an expiration that was not read. *)
ResetTimerfd(n) == armed' = Later(n) /\ readable' = FALSE

Due(n) == IF n > 0 THEN n - 1 ELSE 0

(* A tick passes; nothing else in the system waits for it. *)
Tick ==
  /\ state = "running"
  /\ \/ armed > 0
     \/ \E t \in Timers : memory[t] = "live" /\ exp[t] > 0
     \/ \E e \in timers : e[1] > 0
     \/ calling /\ since < MaxDelay
  /\ exp' = [t \in Timers |-> Due(exp[t])]
  /\ timers' = {<<Due(e[1]), e[2]>> : e \in timers}
  /\ armed' = IF armed > 1 THEN armed - 1 ELSE Disarmed
  /\ readable' = (readable \/ armed = 1)
  /\ since' = IF calling /\ since < MaxDelay THEN since + 1 ELSE since
  /\ UNCHANGED <<memory, interval, active, canceling, calling, batch, toRun,
                 polled, inbox, state, history>>

-----------------------------------------------------------------------------
(* Operations in the loop thread. *)

Keys == {e[1] : e \in timers}
IsEarliest(n) == \A k \in Keys : n < k

Inserted(t, n) ==
  /\ timers' = timers \cup {<<n, t>>}
  /\ active' = active \cup {t}

(* Faulty: the timerfd is armed only for the first timer of an empty queue. *)
ArmsIfEmpty(n) == timers = {}

(* The timer is the earliest: insert's earliest_changed. *)
Arms(n) == IsEarliest(n)

AddTimerInLoop(t, n) ==
  /\ Inserted(t, n)
  /\ IF Arms(n) THEN ResetTimerfd(n) ELSE UNCHANGED fdVars

(* The entry that is erased from timers_ is looked up under the timer's    *)
(* sequence number instead of its expiration, so nothing is erased.  (A    *)
(* sequence number is a small integer, an expiration the microseconds      *)
(* since 1970.)                                                            *)
ErasedFromTimers(t) == {}

(* Faulty: a timer cancelled while it runs is left to be restarted. *)
CancelingForgotten(t) == canceling

Canceling(t) == IF calling THEN canceling \cup {t} ELSE canceling

Requested(t) == [what |-> "add", timer |-> t] \in Range(inbox)

CancelInLoop(t) ==
  /\ IF t \in active
     THEN /\ timers' = timers \ ErasedFromTimers(t)
          /\ active' = active \ {t}
          /\ memory' = [memory EXCEPT ![t] = "freed"]
          /\ UNCHANGED canceling
     ELSE /\ canceling' = Canceling(t)
          /\ UNCHANGED <<timers, active, memory>>
  /\ cancelled' = cancelled \cup {t}
  /\ overtook' = IF Requested(t) THEN overtook \cup {t} ELSE overtook

-----------------------------------------------------------------------------
(* User code. *)

Create(t, n, every) ==
  /\ memory[t] = "none"
  /\ memory' = [memory EXCEPT ![t] = "live"]
  /\ exp' = [exp EXCEPT ![t] = n]
  /\ interval' = [interval EXCEPT ![t] = every]

Intervals(t) == IF t \in Repeating THEN Delays ELSE {0}

(* The loop thread runs user code in handlers, functors and callbacks.     *)
LoopAddTimer(t) ==
  /\ state = "running"
  /\ \E n \in Delays, every \in Intervals(t) :
       Create(t, n, every) /\ AddTimerInLoop(t, n)
  /\ UNCHANGED <<callVars, polled, inbox, state, history>>

LoopCancel(t) ==
  /\ state = "running"
  /\ t \in Cancellable
  /\ memory[t] # "none"
  /\ CancelInLoop(t)
  /\ UNCHANGED <<exp, interval, calling, batch, toRun, since, fdVars, polled,
                 inbox, state>>

(* Another thread creates the Timer itself and queues the rest. *)
ClientAddTimer(t) ==
  /\ state = "running"
  /\ Len(inbox) < MaxInbox
  /\ \E n \in Delays, every \in Intervals(t) : Create(t, n, every)
  /\ inbox' = Append(inbox, [what |-> "add", timer |-> t])
  /\ UNCHANGED <<setVars, callVars, fdVars, polled, state, history>>

ClientCancel(t) ==
  /\ state = "running"
  /\ t \in Cancellable
  /\ memory[t] # "none"
  /\ Len(inbox) < MaxInbox
  /\ inbox' = Append(inbox, [what |-> "cancel", timer |-> t])
  /\ UNCHANGED <<memory, exp, interval, setVars, callVars, fdVars, polled,
                 state, history>>

-----------------------------------------------------------------------------
(* The loop. *)

(* DoPendingFunctors, once the active channels have been handled. *)
RunRequest ==
  /\ state = "running"
  /\ ~polled /\ ~calling
  /\ inbox # <<>>
  /\ inbox' = Tail(inbox)
  /\ LET r == Head(inbox)
     IN IF r.what = "add"
        THEN /\ AddTimerInLoop(r.timer, exp[r.timer])
             /\ UNCHANGED <<memory, canceling, history>>
        ELSE CancelInLoop(r.timer) /\ UNCHANGED fdVars
  /\ UNCHANGED <<exp, interval, calling, batch, toRun, since, polled, state>>

Poll ==
  /\ state = "running"
  /\ readable /\ ~polled /\ ~calling
  /\ polled' = TRUE
  /\ UNCHANGED <<memory, exp, interval, setVars, callVars, fdVars, inbox,
                 state, history>>

Expired == {e \in timers : e[1] = 0}

(* Faulty: GetExpired leaves the expired timers in activeTimers_. *)
ExpiredStayActive(expired) == active

StillActive(expired) == active \ expired

(* HandleRead up to the callbacks: read the timerfd, which may have been   *)
(* armed anew since poll, and take the expired entries.  A Timer a stale   *)
(* entry points to has been freed.                                         *)
HandleRead ==
  /\ state = "running"
  /\ polled
  /\ IF Live({e[2] : e \in Expired})
     THEN /\ polled' = FALSE
          /\ readable' = FALSE
          /\ batch' = {e[2] : e \in Expired}
          /\ toRun' = {e[2] : e \in Expired}
          /\ timers' = timers \ Expired
          /\ active' = StillActive({e[2] : e \in Expired})
          /\ calling' = TRUE
          /\ canceling' = {}
          /\ since' = 0
          /\ UNCHANGED <<memory, exp, interval, armed, inbox, state, history>>
     ELSE Undefined

RunCallback ==
  /\ state = "running"
  /\ calling
  /\ \E t \in toRun : toRun' = toRun \ {t}
  /\ UNCHANGED <<memory, exp, interval, setVars, canceling, calling, batch,
                 since, fdVars, polled, inbox, state, history>>

Restarts(t) == interval[t] > 0 /\ t \notin canceling

(* Faulty: a cancelled repeating timer is neither restarted nor deleted. *)
DiscardsOneShot(t) == interval[t] = 0

Discards(t) == ~Restarts(t)

Left(t) == IF interval[t] > since THEN interval[t] - since ELSE 0

(* Faulty: after the callbacks the timerfd is left as it is. *)
NoRearm(entries, left) == readable' = readable /\ armed' = armed

(* The first entry's Timer tells when to fire next. *)
Rearm(entries, left) ==
  IF entries = {}
  THEN UNCHANGED fdVars
  ELSE \E e \in entries :
         /\ \A f \in entries : e[1] <= f[1]
         /\ ResetTimerfd(left[e[2]])

(* HandleRead after the callbacks: reset. *)
Reset ==
  /\ state = "running"
  /\ calling
  /\ toRun = {}
  /\ LET again == {t \in batch : Restarts(t)}
         left == [t \in Timers |-> IF t \in again THEN Left(t) ELSE exp[t]]
         entries == timers \cup {<<left[t], t>> : t \in again}
     IN IF \A e \in entries :
             memory[e[2]] = "live" \/ \E f \in entries : f[1] < e[1]
        THEN /\ exp' = left
             /\ timers' = entries
             /\ active' = active \cup again
             /\ memory' = [t \in Timers |->
                             IF t \in batch /\ Discards(t)
                             THEN "freed" ELSE memory[t]]
             /\ Rearm(entries, left)
             /\ calling' = FALSE
             /\ batch' = {}
             /\ UNCHANGED <<interval, canceling, toRun, since, polled,
                            inbox, state, history>>
        ELSE Undefined

(* ~TimerQueue, after ~EventLoop has run the queued functors. *)
Destroy ==
  /\ state = "running"
  /\ ~polled /\ ~calling /\ inbox = <<>>
  /\ IF Live({e[2] : e \in timers})
     THEN /\ memory' = [t \in Timers |->
                          IF \E e \in timers : e[2] = t THEN "freed"
                          ELSE memory[t]]
          /\ timers' = {} /\ active' = {}
          /\ armed' = Disarmed /\ readable' = FALSE
          /\ state' = "destroyed"
          /\ UNCHANGED <<exp, interval, callVars, polled, inbox, history>>
     ELSE Undefined

LoopStep == RunRequest \/ Poll \/ HandleRead \/ RunCallback \/ Reset

Next ==
  \/ \E t \in Timers : LoopAddTimer(t) \/ LoopCancel(t)
  \/ \E t \in Timers : ClientAddTimer(t) \/ ClientCancel(t)
  \/ LoopStep \/ Tick \/ Destroy
  \/ state # "running" /\ UNCHANGED vars

Spec == Init /\ [][Next]_vars

(* Time passes, and the loop thread runs: every iteration polls, handles   *)
(* what is readable and runs the requests, so none of the three starves    *)
(* another.                                                                *)
FairSpec ==
  /\ Spec
  /\ WF_vars(Tick)
  /\ WF_vars(RunRequest)
  /\ WF_vars(Poll)
  /\ WF_vars(HandleRead \/ RunCallback \/ Reset)

-----------------------------------------------------------------------------
(* Properties. *)

(* The assertion of CancelInLoop and GetExpired (timer.cpp:146, 160, 182): *)
(* timers_ and activeTimers_ have the same size.                           *)
SameSize == Cardinality(timers) = Cardinality(active)

(* What the two sets are for: an active timer is queued under its own      *)
(* current expiration and is a live object.                                *)
ActiveIsQueued ==
  state = "running" => \A t \in active : <<exp[t], t>> \in timers /\ memory[t] = "live"

(* Every live Timer has one owner: a queued request, activeTimers_, or the *)
(* batch being run.  None leaks, and none is kept after it was deleted.    *)
OneOwner ==
  TypeOK /\ (state # "undefined" =>
    \A t \in Timers :
      LET running == t \in batch
      IN /\ memory[t] = "live" <=> Requested(t) \/ t \in active \/ running
         /\ ~(Requested(t) /\ (t \in active \/ running))
         /\ ~(t \in active /\ running))

(* While the loop sleeps the timerfd is armed, or has fired, early enough  *)
(* for the earliest timer: no timer waits for another event.               *)
EarliestIsArmed ==
  state = "running" /\ ~calling /\ ~polled /\ active # {} =>
    \/ readable
    \/ armed # Disarmed /\ \A t \in active : armed <= Later(exp[t])

(* A cancel that finds the timer active, or in the batch being run, keeps  *)
(* it from being queued again.  One made in the loop thread while another  *)
(* thread's AddTimer is still queued comes too early and is lost.          *)
CancelHolds ==
  state = "running" /\ ~calling => (cancelled \ overtook) \cap active = {}

(* An active timer runs, unless it is cancelled or the queue is gone, and a *)
(* repeating one that has run is queued again until it is cancelled: no     *)
(* expiration is lost between the batch and the next arming of the timerfd. *)
TimersFire ==
  /\ \A t \in Timers : t \in active ~> t \in batch \cup cancelled \/ state # "running"
  /\ \A t \in Repeating \ Cancellable : t \in batch ~> t \in active \/ state # "running"
=============================================================================
