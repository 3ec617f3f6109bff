---------------------------- MODULE CoSchedule ----------------------------
(***************************************************************************)
(* brsdk::CoSchedule and the coroutines under it (_co.cpp): one thread     *)
(* resumes them in turn until all have ended or another thread calls stop. *)
(* Coroutines are added by that thread, from outside or from a coroutine.  *)
(*                                                                         *)
(* A coroutine runs until it yields or returns; switching contexts is what *)
(* happens to co_t::st and schedule_s::cur.  What the scheduler does from  *)
(* there to its next test of stop_ is part of that step.                   *)
(***************************************************************************)
EXTENDS Integers, SequencesExt

CONSTANTS Coroutines,    \* those that may be added, each once
          NoCoroutine    \* a null node

ASSUME CoScheduleAssumption == NoCoroutine \notin Coroutines

VARIABLES
  cos,          \* cos_, and the order of schedule_s::cos as well
  cur,          \* cur_
  resumed,      \* schedule_s::cur, the coroutine that runs
  status,       \* co_t::st; "none" before add and after the release
  stopFlag,     \* stop_
  stoped,       \* stoped_
  runner,       \* where the scheduler's thread is in run
  stopper,      \* where the thread that calls stop is
  rerun,        \* run was called again before that thread woke up
  turns         \* how often y was resumed since x was, or was added

coVars == <<cos, cur, resumed, status, stopFlag, stoped, runner, stopper, rerun,
            turns>>

CoTypeOK ==
  /\ cos \in Seq(Coroutines)
  /\ cur \in Coroutines \cup {NoCoroutine}
  /\ resumed \in Coroutines \cup {NoCoroutine}
  /\ status \in [Coroutines -> {"none", "ready", "running", "suspend", "dead"}]
  /\ stopFlag \in BOOLEAN /\ stoped \in BOOLEAN /\ rerun \in BOOLEAN
  /\ runner \in {"out", "loop", "co", "ending"}
  /\ stopper \in {"idle", "wait", "woken"}
  /\ turns \in [Coroutines -> [Coroutines -> Nat]]

CoInit ==
  /\ cos = <<>>
  /\ cur = NoCoroutine
  /\ resumed = NoCoroutine
  /\ status = [c \in Coroutines |-> "none"]
  /\ stopFlag = FALSE
  /\ stoped = TRUE
  /\ runner = "out"
  /\ stopper = "idle"
  /\ rerun = FALSE
  /\ turns = [x \in Coroutines |-> [y \in Coroutines |-> 0]]

(* Where the node of c is in the list. *)
Position(c) == CHOOSE i \in DOMAIN cos : cos[i] = c

(* list_node::next past the last one is the head of the list, which the     *)
(* scheduler skips.                                                        *)
After(c) == IF Position(c) = Len(cos) THEN cos[1] ELSE cos[Position(c) + 1]

-----------------------------------------------------------------------------
(* CoSchedule::add, with co_new. *)
Add(c) ==
  /\ runner \in {"out", "co"}
  /\ status[c] = "none" /\ c \notin Range(cos)
  /\ cos' = Append(cos, c)
  /\ status' = [status EXCEPT ![c] = "ready"]
  /\ cur' = IF cur = NoCoroutine THEN c ELSE cur
  /\ UNCHANGED <<resumed, stopFlag, stoped, runner, stopper, rerun, turns>>

(* CoSchedule::run *)
RunCoroutines ==
  /\ runner = "out"
  /\ stoped
  /\ stoped' = FALSE
  /\ stopFlag' = FALSE
  /\ runner' = "loop"
  /\ rerun' = (stopper # "idle")
  /\ UNCHANGED <<cos, cur, resumed, status, stopper, turns>>

(* CoSchedule::entry: stop_ is read without the mutex. *)
LeaveEntry ==
  /\ runner = "loop"
  /\ stopFlag \/ cos = <<>>
  /\ runner' = "ending"
  /\ UNCHANGED <<cos, cur, resumed, status, stopFlag, stoped, stopper, rerun,
                 turns>>

Counted(c) ==
  [x \in Coroutines |-> IF x = c THEN [y \in Coroutines |-> 0]
                        ELSE IF x \in Range(cos)
                        THEN [turns[x] EXCEPT ![c] = @ + 1]
                        ELSE turns[x]]

(* co_resume *)
Resume ==
  /\ runner = "loop"
  /\ ~stopFlag /\ cos # <<>>
  /\ resumed' = cur
  /\ status' = [status EXCEPT ![cur] = "running"]
  /\ runner' = "co"
  /\ turns' = Counted(cur)
  /\ UNCHANGED <<cos, cur, stopFlag, stoped, stopper, rerun>>

(* co_yield; then entry goes on to the next node. *)
Yield ==
  /\ runner = "co"
  /\ status' = [status EXCEPT ![resumed] = "suspend"]
  /\ resumed' = NoCoroutine
  /\ cur' = After(cur)
  /\ runner' = "loop"
  /\ UNCHANGED <<cos, stopFlag, stoped, stopper, rerun, turns>>

(* Faulty: the scheduler starts over. *)
FirstLeft(c) == IF c = cos[1] THEN After(c) ELSE cos[1]

NextLeft(c) == After(c)

(* The coroutine returns: _del_co calls close, which is del; the list moves *)
(* on to the next node before the coroutine's own is freed.                *)
Return ==
  /\ runner = "co"
  /\ LET c    == resumed
         left == RemoveAt(cos, Position(c))
     IN /\ cos' = left
        /\ status' = [status EXCEPT ![c] = "dead"]
        /\ cur' = IF left = <<>> THEN NoCoroutine ELSE NextLeft(c)
        /\ runner' = IF left = <<>> THEN "ending" ELSE "loop"
        /\ turns' = [x \in Coroutines |-> IF x = c THEN [y \in Coroutines |-> 0]
                                          ELSE [turns[x] EXCEPT ![c] = 0]]
  /\ resumed' = NoCoroutine
  /\ UNCHANGED <<stopFlag, stoped, stopper, rerun>>

Woken == IF stopper = "wait" THEN "woken" ELSE stopper

(* Faulty: the thread that stops the scheduler is not woken. *)
NotWoken == stopper

NotifyStopper == Woken

EndRun ==
  /\ runner = "ending"
  /\ stopFlag' = FALSE
  /\ stoped' = TRUE
  /\ stopper' = NotifyStopper
  /\ runner' = "out"
  /\ UNCHANGED <<cos, cur, resumed, status, rerun, turns>>

(* co_destroy, when the thread ends: what is left is closed and released. *)
DestroySchedule ==
  /\ runner = "out" /\ stopper = "idle"
  /\ cos # <<>>
  /\ cos' = <<>>
  /\ cur' = NoCoroutine
  /\ status' = [c \in Coroutines |-> IF c \in Range(cos) THEN "dead" ELSE status[c]]
  /\ turns' = [x \in Coroutines |-> [y \in Coroutines |-> 0]]
  /\ UNCHANGED <<resumed, stopFlag, stoped, runner, stopper, rerun>>

-----------------------------------------------------------------------------
(* CoSchedule::stop, in another thread; it waits until stoped_ is set. *)

Stop ==
  /\ stopper = "idle"
  /\ ~stoped
  /\ stopFlag' = TRUE
  /\ stopper' = "wait"
  /\ rerun' = FALSE
  /\ UNCHANGED <<cos, cur, resumed, status, stoped, runner, turns>>

StopWakes ==
  /\ stopper = "woken"
  /\ IF stoped THEN stopper' = "idle" /\ stopFlag' = FALSE
               ELSE stopper' = "wait" /\ UNCHANGED stopFlag
  /\ UNCHANGED <<cos, cur, resumed, status, stoped, runner, rerun, turns>>

SpuriousStopWake ==
  /\ stopper = "wait"
  /\ stopper' = "woken"
  /\ UNCHANGED <<cos, cur, resumed, status, stopFlag, stoped, runner, rerun,
                 turns>>

-----------------------------------------------------------------------------
CoThread == LeaveEntry \/ Resume \/ Yield \/ Return \/ EndRun

CoNext ==
  \/ \E c \in Coroutines : Add(c)
  \/ RunCoroutines \/ CoThread \/ DestroySchedule
  \/ Stop \/ StopWakes \/ SpuriousStopWake

CoSpec == CoInit /\ [][CoNext]_coVars

(* Both threads run, and every coroutine yields or returns. *)
CoFairness == WF_coVars(CoThread) /\ WF_coVars(StopWakes)

FairCoSpec == CoSpec /\ CoFairness

-----------------------------------------------------------------------------
(* Properties. *)

(* cur_ is never left at a node that has been freed, and the scheduler is   *)
(* fair: no coroutine is resumed twice while another one waits, wherever   *)
(* coroutines are added or end in between.                                 *)
NoOvertaking ==
  /\ CoTypeOK
  /\ cur \in Range(cos) \/ (cos = <<>> /\ cur = NoCoroutine)
  /\ resumed # NoCoroutine => resumed = cur
  /\ \A x, y \in Range(cos) : turns[x][y] <= 1

(* stop returns, unless the scheduler's thread calls run again before the   *)
(* thread in stop has seen that stoped_ was set: that clears both flags.   *)
StopComesBack == stopper # "idle" ~> stopper = "idle" \/ rerun
=============================================================================
