------------------------ MODULE EventLoopThreadPool ------------------------
(***************************************************************************)
(* brsdk::net::EventLoopThreadPool: the loops of its threads, handed out   *)
(* in turn to new connections (GetNextLoop) or by hash (GetLoopForHash).   *)
(* Every operation runs in the base loop's thread.  Loop 0 stands for the  *)
(* base loop, loop i for loops_[i - 1].                                    *)
(***************************************************************************)
EXTENDS Integers

CONSTANTS MaxLoops,    \* bound on the size of loops_
          MaxRounds,   \* bound on the rounds of GetNextLoop that are counted
          Hashes       \* arguments of GetLoopForHash

ASSUME MaxLoopsAssumption  == MaxLoops \in Nat
ASSUME MaxRoundsAssumption == MaxRounds \in Nat
ASSUME HashesAssumption    == Hashes \subseteq Nat

VARIABLES
  threadnum,   \* threadnum_
  size,        \* loops_.size(), which is threads_.size()
  next,        \* next_
  hashed,      \* the index GetLoopForHash used last, -1 for the base loop
  given,       \* how often each loop was handed out since the last start
  origin,      \* next_ at the last start
  rounds       \* complete rounds since the last start

vars == <<threadnum, size, next, hashed, given, origin, rounds>>

LoopNumbers == 0..MaxLoops

(* What GetLoopForHash may compute is left to HashInRange. *)
TypeOK ==
  /\ threadnum \in LoopNumbers
  /\ size \in LoopNumbers
  /\ next \in LoopNumbers /\ (next = 0 \/ next < size)
  /\ given \in [LoopNumbers -> Nat]
  /\ origin \in LoopNumbers
  /\ rounds \in Nat

Init ==
  /\ threadnum = 0
  /\ size = 0
  /\ next = 0
  /\ hashed = -1
  /\ given = [l \in LoopNumbers |-> 0]
  /\ origin = 0
  /\ rounds = 0

SetThreadnum(n) ==
  /\ threadnum' = n
  /\ UNCHANGED <<size, next, hashed, given, origin, rounds>>

(* A second start adds as many loops again. *)
Start ==
  /\ size + threadnum <= MaxLoops
  /\ size' = size + threadnum
  /\ given' = [l \in LoopNumbers |-> 0]
  /\ origin' = next
  /\ rounds' = 0
  /\ UNCHANGED <<threadnum, next, hashed>>

(* Faulty: the index wraps one loop too late. *)
WrapsLate(n) == IF n > size THEN 0 ELSE n

(* Faulty: the index wraps one loop too early. *)
WrapsEarly(n) == IF n >= size - 1 THEN 0 ELSE n

Wrap(n) == IF n >= size THEN 0 ELSE n

GetNextLoop ==
  /\ rounds < MaxRounds
  /\ IF size = 0
     THEN UNCHANGED <<next, given, rounds>>
     ELSE /\ given' = [given EXCEPT ![next + 1] = @ + 1]
          /\ next' = Wrap(next + 1)
          /\ rounds' = IF Wrap(next + 1) = origin THEN rounds + 1 ELSE rounds
  /\ UNCHANGED <<threadnum, size, hashed, origin>>

Bit(n, i) == (n \div 2^i) % 2 = 1
BitAnd(m, n) ==
  CHOOSE r \in 0..n : \A i \in 0..n : Bit(r, i) <=> Bit(m, i) /\ Bit(n, i)

GetLoopForHash(hash) ==
  /\ hashed' = IF size = 0 THEN -1 ELSE BitAnd(hash, size)
  /\ UNCHANGED <<threadnum, size, next, given, origin, rounds>>

Next ==
  \/ \E n \in LoopNumbers : SetThreadnum(n)
  \/ Start
  \/ GetNextLoop
  \/ \E hash \in Hashes : GetLoopForHash(hash)

Spec == Init /\ [][Next]_vars

-----------------------------------------------------------------------------
(* Properties. *)

(* GetNextLoop is fair: since the pool was started, no loop has been given *)
(* two connections more than another, wherever next_ stood at the start.   *)
Balanced ==
  \A i, j \in 1..size : given[i] - given[j] \in {-1, 0, 1}

(* GetLoopForHash returns one of the loops (event_loop_thread_pool.hpp:53).*)
HashInRange == hashed < size
=============================================================================
