--------------------------- MODULE TcpServerProofs ---------------------------
(***************************************************************************)
(* Proofs about TcpServer for every number of clients, loops and           *)
(* descriptors: each connection is established first and once, destroyed   *)
(* last and once, and held by somebody for as long as it is open.  The     *)
(* invariant IInv says, for each stage in the life of a connection, which  *)
(* of its functors are on their way, in which queue, and in what order.    *)
(***************************************************************************)
EXTENDS TcpServer, FiniteSetTheorems, TLAPS
-----------------------------------------------------------------------------
(* The pool of loops by itself, for every number of loops.                  *)

(* Loop i has been handed out in the round that is under way. *)
InThisRound(i) ==
  IF origin <= next THEN origin < i /\ i <= next
  ELSE origin < i \/ i <= next

(* Every loop has been handed out once in each complete round, and once    *)
(* more if the current round has reached it.                               *)
PoolCounted ==
  /\ size > 0 => origin < size
  /\ \A i \in 1..size : given[i] = rounds + (IF InThisRound(i) THEN 1 ELSE 0)

PoolInv == TypeOK /\ PoolCounted

LEMMA InitPoolInv == Init => PoolInv
  BY MaxLoopsAssumption DEF Init, PoolInv, TypeOK, PoolCounted, LoopNumbers

(* A call of GetNextLoop advances the round, or completes it. *)
LEMMA GetNextLoopPoolInv == PoolInv /\ GetNextLoop => PoolInv'
<1> SUFFICES ASSUME PoolInv, GetNextLoop PROVE PoolInv'
  OBVIOUS
<1> USE MaxLoopsAssumption, MaxRoundsAssumption DEF PoolInv, TypeOK, LoopNumbers
<1>0. size = 0 \/ size > 0
  OBVIOUS
<1>1. CASE size = 0
  BY <1>1 DEF GetNextLoop, PoolCounted
<1>2. CASE size > 0
  <2>1. /\ next' = IF next + 1 >= size THEN 0 ELSE next + 1
        /\ rounds' = IF next' = origin THEN rounds + 1 ELSE rounds
        /\ given' = [given EXCEPT ![next + 1] = @ + 1]
        /\ UNCHANGED <<threadnum, size, hashed, origin>>
    BY <1>2 DEF GetNextLoop, Wrap
  <2>2. TypeOK'
    BY <1>2, <2>1
  <2>3. \A i \in 1..size :
          given'[i] = IF i = next + 1 THEN given[i] + 1 ELSE given[i]
    BY <2>1
  <2>4. ASSUME NEW i \in 1..size
        PROVE  given'[i] = rounds' + (IF InThisRound(i)' THEN 1 ELSE 0)
    <3>1. given[i] = rounds + (IF InThisRound(i) THEN 1 ELSE 0)
      BY DEF PoolCounted
    <3>2. given'[i] = IF i = next + 1 THEN given[i] + 1 ELSE given[i]
      BY <2>3
    <3>3. origin < size
      BY <1>2 DEF PoolCounted
    <3> QED
      BY <1>2, <2>1, <3>1, <3>2, <3>3 DEF InThisRound
  <2> QED
    BY <1>2, <2>1, <2>2, <2>4 DEF PoolCounted
<1> HIDE DEF PoolInv, TypeOK
<1> QED
  BY <1>0, <1>1, <1>2

LEMMA NextPoolInv == PoolInv /\ [Next]_vars => PoolInv'
<1> SUFFICES ASSUME PoolInv, [Next]_vars PROVE PoolInv'
  OBVIOUS
<1> USE MaxLoopsAssumption, MaxRoundsAssumption, HashesAssumption
    DEF PoolInv, TypeOK, PoolCounted, InThisRound, LoopNumbers
<1>1. ASSUME NEW n \in LoopNumbers, SetThreadnum(n) PROVE PoolInv'
  BY <1>1 DEF SetThreadnum
<1>2. CASE Start
  <2>1. /\ size' = size + threadnum
        /\ size' \in LoopNumbers
        /\ given' = [l \in LoopNumbers |-> 0]
        /\ origin' = next /\ next' = next /\ rounds' = 0
        /\ threadnum' = threadnum
    BY <1>2 DEF Start
  <2>2. size' > 0 => next < size'
    BY <2>1
  <2>3. \A i \in 1..size' : given'[i] = 0 /\ ~(next < i /\ i <= next)
    BY <2>1
  <2> QED
    BY <2>1, <2>2, <2>3
<1>3. CASE GetNextLoop
  BY <1>3, GetNextLoopPoolInv
<1>4. ASSUME NEW hash \in Hashes, GetLoopForHash(hash) PROVE PoolInv'
  BY <1>4 DEF GetLoopForHash
<1>5. CASE UNCHANGED vars
  BY <1>5 DEF vars
<1> QED
  BY <1>1, <1>2, <1>3, <1>4, <1>5 DEF Next

THEOREM PoolInvariant == Spec => []PoolInv
  BY InitPoolInv, NextPoolInv, PTL DEF Spec

(* next_ is always the index of a loop. *)
THEOREM TypeCorrect == Spec => []TypeOK
  BY PoolInvariant, PTL DEF PoolInv

(* Connections are spread evenly, whatever the number of loops. *)
THEOREM RoundRobinFair == Spec => []Balanced
<1>1. PoolInv => Balanced
  BY DEF PoolInv, TypeOK, PoolCounted, Balanced
<1> QED
  BY <1>1, PoolInvariant, PTL

(* The server uses its pool as the pool is meant to be used: each of its    *)
(* steps is an operation of the pool or does not touch it.                 *)
THEOREM ServerUsesPool == ServerSpec => Spec
<1>1. ServerInit => Init
  BY DEF ServerInit
<1>2. [ServerNext]_serverVars => [Next]_vars
  <2> SUFFICES ASSUME [ServerNext]_serverVars PROVE Next \/ UNCHANGED vars
    OBVIOUS
  <2>1. CASE SetServerThreads \/ StartServer
    BY <2>1 DEF SetServerThreads, StartServer, Next
  <2>2. CASE AcceptClient
    BY <2>2 DEF AcceptClient, NewConnection, Next
  <2>3. CASE CloseSpare \/ AcceptRefused \/ DropRefused \/ ReopenSpare
    BY <2>3 DEF CloseSpare, AcceptRefused, DropRefused, ReopenSpare, acceptorRest
  <2>4. CASE \/ \E c \in ConnIds : HandleClose(c)
             \/ \E l \in LoopNumbers : RunFunctor(l) \/ JoinLoop(l)
    BY <2>4 DEF HandleClose, RunFunctor, JoinLoop
  <2>5. CASE DestroyServer
    BY <2>5 DEF DestroyServer
  <2>6. CASE ClientArrives \/ ClientGivesUp \/ OthersOpen \/ OthersClose
    BY <2>6 DEF ClientArrives, ClientGivesUp, OthersOpen, OthersClose, outside
  <2>7. CASE UNCHANGED serverVars
    BY <2>7 DEF serverVars
  <2> QED BY <2>1, <2>2, <2>3, <2>4, <2>5, <2>6, <2>7 DEF ServerNext, HandleAccept
<1> QED BY <1>1, <1>2, PTL DEF ServerSpec, Spec

(* So the connections of a server are spread evenly over its loops.         *)
THEOREM ConnectionsSpread == ServerSpec => []Balanced
  BY ServerUsesPool, RoundRobinFair
-----------------------------------------------------------------------------
(* The connections of the server.                                           *)

Est(c) == Functor("established", c)
Des(c) == Functor("destroyed", c)
Rem(c) == Functor("remove", c)

NotIn(q, f) == \A i \in 1 .. Len(q) : q[i] # f
OnceIn(q, f) ==
  \E i \in 1 .. Len(q) : q[i] = f /\ \A j \in 1 .. Len(q) : q[j] = f => j = i
Before(q, f, g) == \A i, j \in 1 .. Len(q) : q[i] = f /\ q[j] = g => i < j

(* Connection c, whose record is k, is in connections_, its entry being m,  *)
(* or the server, in the state s, has sent ConnectDestroyed before it went. *)
Referenced(c, k, m, s, q) ==
  \/ m = c /\ s = "up" /\ NotIn(q[k.loop], Des(c))
  \/ m = 0 /\ s = "gone" /\ OnceIn(q[k.loop], Des(c))

(* Created, but its loop has not heard of it. *)
Fresh(c, k, m, s, q) ==
  /\ k.state = "kConnecting" /\ ~k.polled
  /\ k.ups = 0 /\ k.downs = 0 /\ k.ends = 0
  /\ k.loop # 0
  /\ OnceIn(q[k.loop], Est(c)) /\ Before(q[k.loop], Est(c), Des(c))
  /\ NotIn(q[0], Rem(c))
  /\ Referenced(c, k, m, s, q)

Open(c, k, m, s, q) ==
  /\ k.state = "kConnected" /\ k.polled
  /\ k.ups = 1 /\ k.downs = 0 /\ k.ends = 0
  /\ NotIn(q[k.loop], Est(c)) /\ NotIn(q[0], Rem(c))
  /\ Referenced(c, k, m, s, q)

(* Closed, and the base loop is to erase it. *)
Leaving(c, k, m, s, q) ==
  /\ k.state = "kDisconnected" /\ k.polled
  /\ k.ups = 1 /\ k.downs = 1 /\ k.ends = 0
  /\ k.loop # 0
  /\ NotIn(q[k.loop], Est(c)) /\ OnceIn(q[0], Rem(c))
  /\ m = c /\ s = "up" /\ NotIn(q[k.loop], Des(c))

(* Closed and erased.  A remove that is still queued comes too late. *)
Erasing(c, k, m, s, q) ==
  /\ k.state = "kDisconnected" /\ k.polled
  /\ k.ups = 1 /\ k.downs = 1 /\ k.ends = 0
  /\ NotIn(q[k.loop], Est(c)) /\ OnceIn(q[k.loop], Des(c))
  /\ m = 0 /\ (s = "gone" \/ NotIn(q[0], Rem(c)))

Over(c, k, m, s, q) ==
  /\ k.state = "kDisconnected" /\ ~k.polled
  /\ k.ups = 1 /\ k.downs = 1 /\ k.ends = 1
  /\ NotIn(q[k.loop], Est(c)) /\ NotIn(q[k.loop], Des(c))
  /\ m = 0 /\ (s = "gone" \/ NotIn(q[0], Rem(c)))

(* Only its own loop has what establishes and destroys c, only the base     *)
(* loop what removes it.                                                   *)
Placed(c, k, q) ==
  \A l \in LoopNumbers :
    /\ l # k.loop => NotIn(q[l], Est(c)) /\ NotIn(q[l], Des(c))
    /\ l # 0 => NotIn(q[l], Rem(c))

Stage(c, k, m, s, q) ==
  /\ k.name = c
  /\ Placed(c, k, q)
  /\ \/ Fresh(c, k, m, s, q) \/ Open(c, k, m, s, q) \/ Leaving(c, k, m, s, q)
     \/ Erasing(c, k, m, s, q) \/ Over(c, k, m, s, q)

Unmade(c, k, m, q) ==
  /\ k.state = "kConnecting" /\ ~k.polled
  /\ k.ups = 0 /\ k.downs = 0 /\ k.ends = 0
  /\ m = 0
  /\ \A l \in LoopNumbers :
       NotIn(q[l], Est(c)) /\ NotIn(q[l], Des(c)) /\ NotIn(q[l], Rem(c))

Records ==
  [state : {"kConnecting", "kConnected", "kDisconnected"},
   polled : BOOLEAN, loop : LoopNumbers, name : 0..MaxConns,
   ups : Nat, downs : Nat, ends : Nat]

Queues == [LoopNumbers -> Seq(Functors)]

(* The spare descriptor is there unless HandleRead or another thread has    *)
(* it, and no more connections are made than clients arrive.               *)
AcceptorOK ==
  /\ listening \in BOOLEAN
  /\ arrived \in 0..MaxConns /\ backlog \in 0..MaxConns /\ made \in 0..MaxConns
  /\ made + backlog <= arrived
  /\ accepting \in {"no", "spareClosed", "refused", "reopen"}
  /\ idleFd \in {"spare", "client", "none"}
  /\ accepting \in {"spareClosed", "reopen"} => idleFd = "none"
  /\ acceptorFds = IF idleFd = "none" THEN 0 ELSE 1
  /\ others \in 0..MaxFds
  /\ stolen \in BOOLEAN
  /\ nextConnId = made + 1

ConnsOK ==
  /\ connections \in [ConnIds -> 0..MaxConns]
  /\ conn \in [ConnIds -> Records]
  /\ queue \in Queues
  /\ server \in {"up", "gone"}
  /\ ended \subseteq LoopNumbers
  /\ used \in {"none", "freed"}

MapOK ==
  \A n \in ConnIds : /\ connections[n] \in {0, n}
                     /\ server = "gone" => connections[n] = 0

StagesOK ==
  \A c \in ConnIds :
    IF c <= made THEN Stage(c, conn[c], connections[c], server, queue)
    ELSE Unmade(c, conn[c], connections[c], queue)

IInv ==
  /\ TypeOK /\ AcceptorOK /\ ConnsOK
  /\ EndsOnce
  /\ used = "none" => MapOK /\ StagesOK
-----------------------------------------------------------------------------
(* Queues of functors. *)

(* Of the functors of c, q and p have the same, in the same order. *)
Same(q, p, c) ==
  \A l \in LoopNumbers, f \in {Est(c), Des(c), Rem(c)} :
    /\ NotIn(q[l], f) => NotIn(p[l], f)
    /\ OnceIn(q[l], f) => OnceIn(p[l], f)
    /\ Before(q[l], Est(c), Des(c)) => Before(p[l], Est(c), Des(c))

(* What is not in a queue is not behind anything. *)
LEMMA NotBehind ==
  ASSUME NEW q, NEW f, NEW g, NotIn(q, f) \/ NotIn(q, g)
  PROVE  Before(q, f, g)
BY DEF NotIn, Before

(* QueueInLoop adds one functor and keeps the others where they are. *)
LEMMA Appended ==
  ASSUME NEW q \in Seq(Functors), NEW e \in Functors
  PROVE  /\ Append(q, e) \in Seq(Functors)
         /\ NotIn(q, e) => OnceIn(Append(q, e), e)
         /\ \A f : f # e /\ NotIn(q, f) => NotIn(Append(q, e), f)
         /\ \A f : f # e /\ OnceIn(q, f) => OnceIn(Append(q, e), f)
         /\ \A f, g : f # e /\ g # e /\ Before(q, f, g) => Before(Append(q, e), f, g)
<1> DEFINE r == Append(q, e)
<1>1. /\ r \in Seq(Functors) /\ Len(q) \in Nat /\ Len(r) = Len(q) + 1
      /\ \A i \in 1 .. Len(q) : r[i] = q[i]
      /\ r[Len(q) + 1] = e
  OBVIOUS
<1> HIDE DEF r
<1>2. ASSUME NEW f, NotIn(q, f), f # e PROVE NotIn(r, f)
  BY <1>1, <1>2 DEF NotIn
<1>3. ASSUME NotIn(q, e) PROVE OnceIn(r, e)
  <2>1. Len(q) + 1 \in 1 .. Len(r) /\ r[Len(q) + 1] = e
    BY <1>1
  <2>2. \A j \in 1 .. Len(r) : r[j] = e => j = Len(q) + 1
    BY <1>1, <1>3 DEF NotIn
  <2> QED BY <2>1, <2>2 DEF OnceIn
<1>4. ASSUME NEW f, OnceIn(q, f), f # e PROVE OnceIn(r, f)
  <2>1. PICK i \in 1 .. Len(q) : q[i] = f /\ \A j \in 1 .. Len(q) : q[j] = f => j = i
    BY <1>4 DEF OnceIn
  <2>2. i \in 1 .. Len(r) /\ r[i] = f /\ \A j \in 1 .. Len(r) : r[j] = f => j = i
    BY <1>1, <1>4, <2>1
  <2> QED BY <2>2 DEF OnceIn
<1>5. ASSUME NEW f, NEW g, f # e, g # e, Before(q, f, g) PROVE Before(r, f, g)
  BY <1>1, <1>5 DEF Before
<1> QED BY <1>1, <1>2, <1>3, <1>4, <1>5 DEF r

NotEmpty(q) == q # <<>>

(* The first functor leaves, and the others keep their order. *)
LEMMA Popped ==
  ASSUME NEW q \in Seq(Functors), NotEmpty(q)
  PROVE  /\ Tail(q) \in Seq(Functors) /\ Head(q) \in Functors
         /\ ~NotIn(q, Head(q))
         /\ OnceIn(q, Head(q)) => NotIn(Tail(q), Head(q))
         /\ \A f : NotIn(q, f) => NotIn(Tail(q), f)
         /\ \A f : f # Head(q) /\ OnceIn(q, f) => OnceIn(Tail(q), f)
         /\ \A f, g : Before(q, f, g) => Before(Tail(q), f, g)
         /\ \A f : OnceIn(q, f) => ~Before(q, f, Head(q))
<1> DEFINE r == Tail(q)
           h == Head(q)
<1>1. /\ r \in Seq(Functors) /\ Len(q) \in Nat \ {0} /\ Len(r) = Len(q) - 1
      /\ \A i \in 1 .. Len(q) - 1 : r[i] = q[i + 1]
      /\ h = q[1] /\ q[1] \in Functors
  BY DEF NotEmpty
<1> HIDE DEF r, h
<1>2. ~NotIn(q, h)
  BY <1>1 DEF NotIn
<1>3. ASSUME NEW f, NotIn(q, f) PROVE NotIn(r, f)
  <2>1. \A i \in 1 .. Len(r) : i + 1 \in 1 .. Len(q)
    BY <1>1
  <2> QED BY <1>1, <1>3, <2>1 DEF NotIn
<1>4. ASSUME OnceIn(q, h) PROVE NotIn(r, h)
  <2>1. \A j \in 1 .. Len(q) : q[j] = h => j = 1
    BY <1>1, <1>4 DEF OnceIn
  <2>2. \A i \in 1 .. Len(r) : i + 1 \in 1 .. Len(q) /\ i + 1 # 1
    BY <1>1
  <2> QED BY <1>1, <2>1, <2>2 DEF NotIn
<1>5. ASSUME NEW f, OnceIn(q, f), f # h PROVE OnceIn(r, f)
  <2>1. PICK i \in 1 .. Len(q) : q[i] = f /\ \A j \in 1 .. Len(q) : q[j] = f => j = i
    BY <1>5 DEF OnceIn
  <2>2. i # 1
    BY <1>1, <1>5, <2>1
  <2>3. i - 1 \in 1 .. Len(r) /\ (i - 1) + 1 = i
    BY <1>1, <2>1, <2>2
  <2>4. r[i - 1] = f
    BY <1>1, <2>1, <2>3
  <2>5. ASSUME NEW j \in 1 .. Len(r), r[j] = f PROVE j = i - 1
    <3>1. j + 1 \in 1 .. Len(q) /\ q[j + 1] = f
      BY <1>1, <2>5
    <3> QED BY <2>1, <3>1
  <2> QED BY <2>3, <2>4, <2>5 DEF OnceIn
<1>6. ASSUME NEW f, NEW g, Before(q, f, g) PROVE Before(r, f, g)
  <2> SUFFICES ASSUME NEW i \in 1 .. Len(r), NEW j \in 1 .. Len(r), r[i] = f, r[j] = g
               PROVE  i < j
    BY DEF Before
  <2>1. i + 1 \in 1 .. Len(q) /\ j + 1 \in 1 .. Len(q) /\ q[i + 1] = f /\ q[j + 1] = g
    BY <1>1
  <2>2. i + 1 < j + 1
    BY <1>6, <2>1 DEF Before
  <2> QED BY <1>1, <2>2
<1>7. ASSUME NEW f, OnceIn(q, f) PROVE ~Before(q, f, h)
  <2>1. PICK i \in 1 .. Len(q) : q[i] = f
    BY <1>7 DEF OnceIn
  <2>2. 1 \in 1 .. Len(q) /\ q[1] = h /\ ~(i < 1)
    BY <1>1, <1>7
  <2> QED BY <2>1, <2>2 DEF Before
<1> QED BY <1>1, <1>2, <1>3, <1>4, <1>5, <1>6, <1>7 DEF r, h

(* Two queues, one behind the other. *)
LEMMA Joined ==
  ASSUME NEW q \in Seq(Functors), NEW s \in Seq(Functors)
  PROVE  /\ q \o s \in Seq(Functors)
         /\ \A f : NotIn(q, f) /\ NotIn(s, f) => NotIn(q \o s, f)
         /\ \A f : OnceIn(q, f) /\ NotIn(s, f) => OnceIn(q \o s, f)
         /\ \A f : NotIn(q, f) /\ OnceIn(s, f) => OnceIn(q \o s, f)
         /\ \A f, g : NotIn(s, f) /\ NotIn(q, g) => Before(q \o s, f, g)
<1> DEFINE r == q \o s
<1>1. /\ r \in Seq(Functors) /\ Len(q) \in Nat /\ Len(s) \in Nat
      /\ Len(r) = Len(q) + Len(s)
      /\ \A i \in 1 .. Len(r) : r[i] = IF i <= Len(q) THEN q[i] ELSE s[i - Len(q)]
  OBVIOUS
<1> HIDE DEF r
<1>2. \A i \in 1 .. Len(r) : \/ i \in 1 .. Len(q) /\ r[i] = q[i]
                            \/ /\ i > Len(q) /\ i - Len(q) \in 1 .. Len(s)
                               /\ r[i] = s[i - Len(q)]
  BY <1>1
<1>3. ASSUME NEW f, NotIn(q, f), NotIn(s, f) PROVE NotIn(r, f)
  BY <1>2, <1>3 DEF NotIn
<1>4. ASSUME NEW f, OnceIn(q, f), NotIn(s, f) PROVE OnceIn(r, f)
  <2>1. PICK i \in 1 .. Len(q) : q[i] = f /\ \A j \in 1 .. Len(q) : q[j] = f => j = i
    BY <1>4 DEF OnceIn
  <2>2. i \in 1 .. Len(r) /\ r[i] = f
    BY <1>1, <2>1
  <2>3. \A j \in 1 .. Len(r) : r[j] = f => j = i
    BY <1>2, <1>4, <2>1 DEF NotIn
  <2> QED BY <2>2, <2>3 DEF OnceIn
<1>5. ASSUME NEW f, NotIn(q, f), OnceIn(s, f) PROVE OnceIn(r, f)
  <2>1. PICK i \in 1 .. Len(s) : s[i] = f /\ \A j \in 1 .. Len(s) : s[j] = f => j = i
    BY <1>5 DEF OnceIn
  <2>2. /\ i + Len(q) \in 1 .. Len(r) /\ ~(i + Len(q) <= Len(q))
        /\ (i + Len(q)) - Len(q) = i
    BY <1>1, <2>1
  <2>3. r[i + Len(q)] = f
    BY <1>1, <2>1, <2>2
  <2>4. ASSUME NEW j \in 1 .. Len(r), r[j] = f PROVE j = i + Len(q)
    <3>1. j - Len(q) \in 1 .. Len(s) /\ s[j - Len(q)] = f
      BY <1>2, <1>5, <2>4 DEF NotIn
    <3>2. j - Len(q) = i
      BY <2>1, <3>1
    <3> QED BY <1>1, <3>2
  <2> QED BY <2>2, <2>3, <2>4 DEF OnceIn
<1>6. ASSUME NEW f, NEW g, NotIn(s, f), NotIn(q, g) PROVE Before(r, f, g)
  <2> SUFFICES ASSUME NEW i \in 1 .. Len(r), NEW j \in 1 .. Len(r), r[i] = f, r[j] = g
               PROVE  i < j
    BY DEF Before
  <2>1. i \in 1 .. Len(q)
    BY <1>2, <1>6 DEF NotIn
  <2>2. j > Len(q)
    BY <1>2, <1>6 DEF NotIn
  <2> QED BY <1>1, <2>1, <2>2
<1> QED BY <1>1, <1>3, <1>4, <1>5, <1>6 DEF r

(* The functors of ~TcpServer, in whatever order it goes through the map. *)
LEMMA Sequenced ==
  ASSUME NEW S \in SUBSET Functors, IsFiniteSet(S)
  PROVE  /\ SetToSeq(S) \in Seq(Functors)
         /\ \A f : IF f \in S THEN OnceIn(SetToSeq(S), f) ELSE NotIn(SetToSeq(S), f)
<1> DEFINE n == Cardinality(S)
           s == SetToSeq(S)
<1>1. n \in Nat /\ ExistsBijection(1 .. n, S)
  BY FS_CardinalityType
<1>2. PICK b : b \in Bijection(1 .. n, S)
  BY <1>1 DEF ExistsBijection
<1>3. b \in [1 .. n -> S] /\ IsInjective(b)
  BY <1>2 DEF Bijection, Injection
<1>4. s \in [1 .. n -> S] /\ IsInjective(s)
  BY <1>3 DEF SetToSeq
<1> HIDE DEF s
<1>5. s \in Injection(1 .. n, S)
  BY <1>4 DEF Injection
<1>6. IsFiniteSet(1 .. n) /\ Cardinality(1 .. n) = n
  BY <1>1, FS_Interval
<1>7. s \in Surjection(1 .. n, S)
  BY <1>5, <1>6, FS_Injection
<1>8. \A f \in S : \E i \in 1 .. n : s[i] = f
  BY <1>7 DEF Surjection
<1> HIDE DEF n
<1>9. s \in Seq(Functors) /\ Len(s) = n
  <2>1. s \in [1 .. n -> Functors]
    BY <1>4
  <2> QED BY <1>1, <2>1
<1>10. ASSUME NEW f \in S PROVE OnceIn(s, f)
  <2>1. PICK i \in 1 .. n : s[i] = f
    BY <1>8
  <2>2. \A j \in 1 .. n : s[j] = f => j = i
    BY <1>4, <2>1 DEF IsInjective
  <2> QED BY <1>9, <2>1, <2>2 DEF OnceIn
<1>11. ASSUME NEW f, f \notin S PROVE NotIn(s, f)
  BY <1>4, <1>9, <1>11 DEF NotIn
<1> QED BY <1>9, <1>10, <1>11 DEF s
-----------------------------------------------------------------------------
(* Records of connections. *)

(* What the handlers leave alone, and what they set. *)
LEMMA RecordChanged ==
  ASSUME NEW k \in Records
  PROVE  /\ Established(k) \in Records
         /\ Established(k).name = k.name /\ Established(k).loop = k.loop
         /\ Established(k).state = "kConnected" /\ Established(k).polled
         /\ Established(k).ups = k.ups + 1
         /\ Established(k).downs = k.downs /\ Established(k).ends = k.ends
         /\ Closed(k) \in Records
         /\ Closed(k).name = k.name /\ Closed(k).loop = k.loop
         /\ Closed(k).state = "kDisconnected" /\ Closed(k).polled = k.polled
         /\ Closed(k).downs = k.downs + 1
         /\ Closed(k).ups = k.ups /\ Closed(k).ends = k.ends
         /\ Destroyed(k) \in Records
         /\ Destroyed(k).name = k.name /\ Destroyed(k).loop = k.loop
         /\ Destroyed(k).ups = k.ups /\ Destroyed(k).ends = k.ends + 1
         /\ ~Destroyed(k).polled
         /\ k.state = "kConnected" => /\ Destroyed(k).state = "kDisconnected"
                                     /\ Destroyed(k).downs = k.downs + 1
         /\ k.state # "kConnected" => /\ Destroyed(k).state = k.state
                                     /\ Destroyed(k).downs = k.downs
<1>0. ASSUME NEW j \in Records, NEW st \in {"kConnecting", "kConnected", "kDisconnected"},
             NEW po \in BOOLEAN, NEW u \in Nat, NEW d \in Nat, NEW e \in Nat
      PROVE  /\ [j EXCEPT !.state = st, !.polled = po, !.ups = u] \in Records
             /\ [j EXCEPT !.state = st, !.downs = d] \in Records
             /\ [j EXCEPT !.polled = po, !.ends = e] \in Records
  BY DEF Records
<1>1. /\ Established(k) \in Records
      /\ Established(k).name = k.name /\ Established(k).loop = k.loop
      /\ Established(k).state = "kConnected" /\ Established(k).polled
      /\ Established(k).ups = k.ups + 1
      /\ Established(k).downs = k.downs /\ Established(k).ends = k.ends
  <2>1. k.ups + 1 \in Nat
    BY DEF Records
  <2>2. Established(k) \in Records
    BY <1>0, <2>1 DEF Established
  <2> QED BY <2>2 DEF Established, Records
<1>2. /\ Closed(k) \in Records
      /\ Closed(k).name = k.name /\ Closed(k).loop = k.loop
      /\ Closed(k).state = "kDisconnected" /\ Closed(k).polled = k.polled
      /\ Closed(k).downs = k.downs + 1
      /\ Closed(k).ups = k.ups /\ Closed(k).ends = k.ends
  <2>1. k.downs + 1 \in Nat
    BY DEF Records
  <2>2. Closed(k) \in Records
    BY <1>0, <2>1 DEF Closed
  <2> QED BY <2>2 DEF Closed, Records
<1>3. ASSUME NEW j \in Records
      PROVE  LET d == [j EXCEPT !.polled = FALSE, !.ends = @ + 1] IN
             /\ d \in Records /\ d.name = j.name /\ d.loop = j.loop
             /\ d.state = j.state /\ d.ups = j.ups /\ d.downs = j.downs
             /\ d.ends = j.ends + 1 /\ ~d.polled
  <2>1. j.ends + 1 \in Nat
    BY DEF Records
  <2>2. [j EXCEPT !.polled = FALSE, !.ends = @ + 1] \in Records
    BY <1>0, <2>1
  <2> QED BY <2>2 DEF Records
<1>4. CASE k.state = "kConnected"
  <2>1. Destroyed(k) = [Closed(k) EXCEPT !.polled = FALSE, !.ends = @ + 1]
    BY <1>4 DEF Destroyed
  <2> QED BY <1>1, <1>2, <1>3, <1>4, <2>1
<1>5. CASE k.state # "kConnected"
  <2>1. Destroyed(k) = [k EXCEPT !.polled = FALSE, !.ends = @ + 1]
    BY <1>5 DEF Destroyed
  <2> QED BY <1>1, <1>2, <1>3, <1>5, <2>1
<1> QED BY <1>4, <1>5

-----------------------------------------------------------------------------
(* Steps that concern one connection. *)

(* A connection whose functors stay as they are stays at its stage. *)
LEMMA Frame ==
  ASSUME NEW c, NEW k, NEW m, NEW s, NEW q, NEW p,
         k.loop \in LoopNumbers, Same(q, p, c)
  PROVE  /\ Stage(c, k, m, s, q) => Stage(c, k, m, s, p)
         /\ Unmade(c, k, m, q) => Unmade(c, k, m, p)
<1>0. 0 \in LoopNumbers
  BY MaxLoopsAssumption DEF LoopNumbers
<1>1. Unmade(c, k, m, q) => Unmade(c, k, m, p)
  BY DEF Unmade, Same
<1>2. Placed(c, k, q) => Placed(c, k, p)
  BY DEF Placed, Same
<1>3. Referenced(c, k, m, s, q) => Referenced(c, k, m, s, p)
  BY DEF Referenced, Same
<1>4. Fresh(c, k, m, s, q) => Fresh(c, k, m, s, p)
  BY <1>0, <1>3 DEF Fresh, Same
<1>5. Open(c, k, m, s, q) => Open(c, k, m, s, p)
  BY <1>0, <1>3 DEF Open, Same
<1>6. Leaving(c, k, m, s, q) => Leaving(c, k, m, s, p)
  BY <1>0 DEF Leaving, Same
<1>7. Erasing(c, k, m, s, q) => Erasing(c, k, m, s, p)
  BY <1>0 DEF Erasing, Same
<1>8. Over(c, k, m, s, q) => Over(c, k, m, s, p)
  BY <1>0 DEF Over, Same
<1> QED BY <1>1, <1>2, <1>4, <1>5, <1>6, <1>7, <1>8 DEF Stage

Sends(q, p, l, e) == p = [q EXCEPT ![l] = Append(@, e)]
Takes(q, p, l) == p = [q EXCEPT ![l] = Tail(@)]

(* Nothing but e gets anywhere, and e to no loop but l. *)
KeptOut(q, p, l, e) ==
  \A x \in LoopNumbers : \A f : x # l \/ f # e => (NotIn(q[x], f) => NotIn(p[x], f))

(* A functor is sent to loop l. *)
LEMMA Sent ==
  ASSUME NEW q \in Queues, NEW l \in LoopNumbers, NEW e \in Functors, NEW p,
         Sends(q, p, l, e)
  PROVE  /\ p \in Queues
         /\ KeptOut(q, p, l, e)
         /\ NotIn(q[l], e) => OnceIn(p[l], e)
         /\ \A d \in ConnIds : d # e.conn => Same(q, p, d)
<1>1. /\ p[l] = Append(q[l], e) /\ q[l] \in Seq(Functors)
      /\ \A x \in LoopNumbers : x # l => p[x] = q[x]
  BY DEF Queues, Sends
<1>0. /\ p[l] \in Seq(Functors)
      /\ NotIn(q[l], e) => OnceIn(p[l], e)
  BY <1>1, Appended
<1>2. /\ \A f : f # e /\ NotIn(q[l], f) => NotIn(p[l], f)
      /\ \A f : f # e /\ OnceIn(q[l], f) => OnceIn(p[l], f)
      /\ \A f, g : f # e /\ g # e /\ Before(q[l], f, g) => Before(p[l], f, g)
  BY <1>1, Appended
<1>3. p \in Queues
  BY <1>0 DEF Queues, Sends
<1>4. ASSUME NEW d \in ConnIds, d # e.conn
      PROVE  e # Est(d) /\ e # Des(d) /\ e # Rem(d)
  BY <1>4 DEF Est, Des, Rem, Functor
<1>5. ASSUME NEW d \in ConnIds, d # e.conn
      PROVE  Same(q, p, d)
  <2> SUFFICES ASSUME NEW x \in LoopNumbers, NEW f \in {Est(d), Des(d), Rem(d)}
               PROVE  /\ NotIn(q[x], f) => NotIn(p[x], f)
                      /\ OnceIn(q[x], f) => OnceIn(p[x], f)
                      /\ Before(q[x], Est(d), Des(d)) => Before(p[x], Est(d), Des(d))
    BY DEF Same
  <2>1. f # e /\ Est(d) # e /\ Des(d) # e
    BY <1>4, <1>5
  <2>2. CASE x = l
    BY <1>2, <2>1, <2>2
  <2>3. CASE x # l
    BY <1>1, <2>3
  <2> QED BY <2>2, <2>3
<1>6. ASSUME NEW x \in LoopNumbers, NEW f, f # e, NotIn(q[x], f)
      PROVE  NotIn(p[x], f)
  <2>1. CASE x = l
    BY <1>2, <1>6, <2>1
  <2>2. CASE x # l
    BY <1>1, <1>6, <2>2
  <2> QED BY <2>1, <2>2
<1>7. ASSUME NEW x \in LoopNumbers, NEW f, x # l, NotIn(q[x], f)
      PROVE  NotIn(p[x], f)
  BY <1>1, <1>7
<1> QED BY <1>0, <1>3, <1>5, <1>6, <1>7 DEF KeptOut

(* Loop l takes its first functor. *)
LEMMA Taken ==
  ASSUME NEW q \in Queues, NEW l \in LoopNumbers, NotEmpty(q[l]), NEW p,
         Takes(q, p, l)
  PROVE  /\ p \in Queues /\ Head(q[l]) \in Functors /\ ~NotIn(q[l], Head(q[l]))
         /\ \A x \in LoopNumbers : \A f : NotIn(q[x], f) => NotIn(p[x], f)
         /\ \A x \in LoopNumbers : \A f :
              (x # l \/ f # Head(q[l])) /\ OnceIn(q[x], f) => OnceIn(p[x], f)
         /\ OnceIn(q[l], Head(q[l])) => NotIn(p[l], Head(q[l]))
         /\ \A f : OnceIn(q[l], f) => ~Before(q[l], f, Head(q[l]))
         /\ \A d \in ConnIds : d # Head(q[l]).conn => Same(q, p, d)
<1> DEFINE h == Head(q[l])
<1>1. /\ p[l] = Tail(q[l]) /\ q[l] \in Seq(Functors)
      /\ \A x \in LoopNumbers : x # l => p[x] = q[x]
  BY DEF Queues, Takes
<1>0. /\ p[l] \in Seq(Functors) /\ h \in Functors
      /\ ~NotIn(q[l], h)
      /\ OnceIn(q[l], h) => NotIn(p[l], h)
      /\ \A f : OnceIn(q[l], f) => ~Before(q[l], f, h)
  BY <1>1, Popped
<1>2. /\ \A f : NotIn(q[l], f) => NotIn(p[l], f)
      /\ \A f : f # h /\ OnceIn(q[l], f) => OnceIn(p[l], f)
      /\ \A f, g : Before(q[l], f, g) => Before(p[l], f, g)
  BY <1>1, Popped
<1> HIDE DEF h
<1>3. p \in Queues
  BY <1>0 DEF Queues, Takes
<1>4. ASSUME NEW d \in ConnIds, d # h.conn
      PROVE  h # Est(d) /\ h # Des(d) /\ h # Rem(d)
  BY <1>4 DEF Est, Des, Rem, Functor
<1>5. ASSUME NEW d \in ConnIds, d # h.conn
      PROVE  Same(q, p, d)
  <2> SUFFICES ASSUME NEW x \in LoopNumbers, NEW f \in {Est(d), Des(d), Rem(d)}
               PROVE  /\ NotIn(q[x], f) => NotIn(p[x], f)
                      /\ OnceIn(q[x], f) => OnceIn(p[x], f)
                      /\ Before(q[x], Est(d), Des(d)) => Before(p[x], Est(d), Des(d))
    BY DEF Same
  <2>1. f # h
    BY <1>4, <1>5
  <2>2. CASE x = l
    BY <1>2, <2>1, <2>2
  <2>3. CASE x # l
    BY <1>1, <2>3
  <2> QED BY <2>2, <2>3
<1>6. ASSUME NEW x \in LoopNumbers, NEW f
      PROVE  /\ NotIn(q[x], f) => NotIn(p[x], f)
             /\ (x # l \/ f # h) /\ OnceIn(q[x], f) => OnceIn(p[x], f)
  <2>1. CASE x = l
    BY <1>2, <2>1
  <2>2. CASE x # l
    BY <1>1, <2>2
  <2> QED BY <2>1, <2>2
<1> QED BY <1>0, <1>3, <1>5, <1>6 DEF h

(* Two such steps in a row. *)
LEMMA SameTwice ==
  ASSUME NEW q, NEW p, NEW r, NEW c, Same(q, p, c), Same(p, r, c)
  PROVE  Same(q, r, c)
<1> SUFFICES ASSUME NEW l \in LoopNumbers, NEW f \in {Est(c), Des(c), Rem(c)}
             PROVE  /\ NotIn(q[l], f) => NotIn(r[l], f)
                    /\ OnceIn(q[l], f) => OnceIn(r[l], f)
                    /\ Before(q[l], Est(c), Des(c)) => Before(r[l], Est(c), Des(c))
  BY DEF Same
<1>1. /\ NotIn(q[l], f) => NotIn(p[l], f)
      /\ OnceIn(q[l], f) => OnceIn(p[l], f)
      /\ Before(q[l], Est(c), Des(c)) => Before(p[l], Est(c), Des(c))
  BY DEF Same
<1>2. /\ NotIn(p[l], f) => NotIn(r[l], f)
      /\ OnceIn(p[l], f) => OnceIn(r[l], f)
      /\ Before(p[l], Est(c), Des(c)) => Before(r[l], Est(c), Des(c))
  BY DEF Same
<1> QED BY <1>1, <1>2

(* What the stages say of the callbacks. *)
LEMMA StageCounts ==
  ASSUME NEW c, NEW k, NEW m, NEW s, NEW q, Stage(c, k, m, s, q)
  PROVE  /\ k.ups <= 1 /\ k.downs <= k.ups /\ k.ends <= k.downs
         /\ k.polled => k.ends = 0
BY DEF Stage, Fresh, Open, Leaving, Erasing, Over

(* c is in one of the stages, or not made yet. *)
LEMMA AtStage ==
  ASSUME IInv, used = "none", NEW c \in ConnIds
  PROVE  /\ 0 \in LoopNumbers /\ conn[c] \in Records /\ conn[c].loop \in LoopNumbers
         /\ c \in Nat /\ made \in Nat
         /\ c <= made => Stage(c, conn[c], connections[c], server, queue)
         /\ ~(c <= made) => Unmade(c, conn[c], connections[c], queue)
<1>1. 0 \in LoopNumbers /\ c \in Nat
  BY MaxLoopsAssumption, ServerAssumption DEF LoopNumbers, ConnIds
<1>2. conn[c] \in Records /\ conn[c].loop \in LoopNumbers /\ made \in Nat
  BY ServerAssumption DEF IInv, ConnsOK, AcceptorOK, Records
<1>3. IF c <= made THEN Stage(c, conn[c], connections[c], server, queue)
      ELSE Unmade(c, conn[c], connections[c], queue)
  BY DEF IInv, StagesOK
<1> QED BY <1>1, <1>2, <1>3

(* The new record of c, and nothing new for the others. *)
Changes(c, k) ==
  /\ conn' \in [ConnIds -> Records]
  /\ conn'[c] = k
  /\ \A d \in ConnIds \ {c} : conn'[d] = conn[d]

(* An assignment to the record of c. *)
LEMMA ConnChanged ==
  ASSUME ConnsOK, NEW c \in ConnIds, NEW k \in Records, conn' = [conn EXCEPT ![c] = k]
  PROVE  Changes(c, k)
BY DEF ConnsOK, Changes

(* What a step that concerns c alone has to show. *)
LEMMA OneMoves ==
  ASSUME IInv, used = "none", used' = "none", TypeOK', AcceptorOK', ConnsOK', MapOK',
         NEW c \in ConnIds, c <= made', NEW k, Changes(c, k),
         made' = made \/ (made' = made + 1 /\ c = made'), server' = server,
         \A d \in ConnIds \ {c} : connections'[d] = connections[d],
         \A d \in ConnIds \ {c} : Same(queue, queue', d),
         Stage(c, k, connections'[c], server', queue')
  PROVE  IInv'
<1>1. ASSUME NEW d \in ConnIds \ {c}
      PROVE  IF d <= made' THEN Stage(d, conn'[d], connections'[d], server', queue')
             ELSE Unmade(d, conn'[d], connections'[d], queue')
  <2>1. /\ conn[d].loop \in LoopNumbers /\ made \in Nat /\ d \in Nat /\ c \in Nat
    BY AtStage
  <2>2. d <= made' <=> d <= made
    BY <2>1
  <2>3. /\ Stage(d, conn[d], connections[d], server, queue) =>
             Stage(d, conn[d], connections[d], server, queue')
        /\ Unmade(d, conn[d], connections[d], queue) =>
             Unmade(d, conn[d], connections[d], queue')
    BY <2>1, Frame
  <2>4. IF d <= made THEN Stage(d, conn[d], connections[d], server, queue)
        ELSE Unmade(d, conn[d], connections[d], queue)
    BY DEF IInv, StagesOK
  <2>5. conn'[d] = conn[d] /\ connections'[d] = connections[d] /\ server' = server
    BY DEF Changes
  <2> QED BY <2>2, <2>3, <2>4, <2>5
<1>2. Stage(c, conn'[c], connections'[c], server', queue')
  BY DEF Changes
<1>3. StagesOK'
  BY <1>1, <1>2 DEF StagesOK
<1>4. EndsOnce'
  <2> SUFFICES ASSUME NEW d \in 1 .. made'
               PROVE  /\ conn'[d].ups <= 1 /\ conn'[d].downs <= conn'[d].ups
                      /\ conn'[d].ends <= conn'[d].downs
                      /\ conn'[d].polled => conn'[d].ends = 0
    BY DEF EndsOnce
  <2>1. d \in ConnIds /\ d <= made'
    BY ServerAssumption DEF AcceptorOK, ConnIds
  <2>2. Stage(d, conn'[d], connections'[d], server', queue')
    BY <1>3, <2>1 DEF StagesOK
  <2> QED BY <2>2, StageCounts
<1> QED BY <1>3, <1>4 DEF IInv

(* A step that concerns none. *)
LEMMA NoneMoves ==
  ASSUME IInv, TypeOK', AcceptorOK', ConnsOK',
         UNCHANGED <<made, connections, conn, queue, server, used>>
  PROVE  IInv'
BY DEF IInv, EndsOnce, MapOK, StagesOK
-----------------------------------------------------------------------------
(* The invariant, action by action. *)

(* No connection is made. *)
LEMMA InitOK == ServerInit => IInv
<1> SUFFICES ASSUME ServerInit PROVE IInv
  OBVIOUS
<1> USE DEF ServerInit, Init
<1>1. TypeOK
  BY MaxLoopsAssumption DEF TypeOK, LoopNumbers
<1>2. AcceptorOK
  <2>1. /\ listening = FALSE /\ arrived = 0 /\ backlog = 0 /\ made = 0
        /\ accepting = "no" /\ idleFd = "spare" /\ acceptorFds = 1
        /\ others = 0 /\ stolen = FALSE /\ nextConnId = 1
    OBVIOUS
  <2>2. 0 \in 0..MaxConns /\ 0 \in 0..MaxFds
    BY ServerAssumption
  <2> HIDE DEF ServerInit, Init
  <2>3. listening \in BOOLEAN /\ stolen \in BOOLEAN
    BY <2>1
  <2>4. /\ arrived = 0 /\ backlog = 0 /\ made = 0 /\ others = 0 /\ nextConnId = 1
        /\ accepting = "no" /\ idleFd = "spare" /\ acceptorFds = 1
    BY <2>1
  <2> QED BY <2>2, <2>3, <2>4 DEF AcceptorOK
<1>3. ConnsOK
  <2>1. 0 \in LoopNumbers /\ 0 \in 0..MaxConns
    BY MaxLoopsAssumption, ServerAssumption DEF LoopNumbers
  <2>2. queue \in Queues
    BY DEF Queues
  <2>3. conn \in [ConnIds -> Records]
    BY <2>1 DEF Records
  <2>4. connections \in [ConnIds -> 0..MaxConns]
    BY <2>1
  <2> QED BY <2>2, <2>3, <2>4 DEF ConnsOK
<1>4. EndsOnce
  BY DEF EndsOnce
<1>5. MapOK
  BY DEF MapOK
<1>6. StagesOK
  <2> SUFFICES ASSUME NEW c \in ConnIds
               PROVE  ~(c <= made) /\ Unmade(c, conn[c], connections[c], queue)
    BY DEF StagesOK
  <2>1. ~(c <= made)
    BY ServerAssumption DEF ConnIds
  <2>2. \A l \in LoopNumbers : \A f : NotIn(queue[l], f)
    BY DEF NotIn
  <2> QED BY <2>1, <2>2 DEF Unmade
<1> QED BY <1>1, <1>2, <1>3, <1>4, <1>5, <1>6 DEF IInv

(* Descriptors: the connections have a number of them. *)
LEMMA LiveCount ==
  ASSUME IInv
  PROVE  Cardinality(Live) \in Nat
<1>1. made \in Nat
  BY ServerAssumption DEF IInv, AcceptorOK
<1>2. IsFiniteSet(1 .. made) /\ Live \in SUBSET (1 .. made)
  BY <1>1, FS_Interval DEF Live
<1> QED BY <1>2, FS_Subset, FS_CardinalityType

(* TcpServer::SetThreadNum. *)
LEMMA SetServerThreadsOK == ASSUME IInv, SetServerThreads PROVE IInv'
<1> USE DEF SetServerThreads, SetThreadnum, acceptorVars, mapVars
<1>1. TypeOK'
  BY DEF IInv, TypeOK
<1>2. AcceptorOK'
  BY DEF IInv, AcceptorOK
<1>3. ConnsOK'
  BY DEF IInv, ConnsOK
<1> QED BY <1>1, <1>2, <1>3, NoneMoves

(* TcpServer::start. *)
LEMMA StartServerOK == ASSUME IInv, StartServer PROVE IInv'
<1> USE DEF StartServer, Start, mapVars
<1>1. TypeOK'
  BY MaxLoopsAssumption DEF IInv, TypeOK, LoopNumbers
<1>2. AcceptorOK'
  BY DEF IInv, AcceptorOK
<1>3. ConnsOK'
  BY DEF IInv, ConnsOK
<1> QED BY <1>1, <1>2, <1>3, NoneMoves

(* Acceptor::HandleRead with EMFILE. *)
LEMMA RefusesOK ==
  ASSUME IInv, CloseSpare \/ AcceptRefused \/ DropRefused \/ ReopenSpare
  PROVE  IInv'
<1> USE DEF CloseSpare, AcceptRefused, DropRefused, ReopenSpare, CloseIdle,
            CloseRefused, acceptorRest, vars, mapVars
<1>1. TypeOK'
  BY DEF IInv, TypeOK
<1>2. AcceptorOK'
  BY ServerAssumption DEF IInv, AcceptorOK
<1>3. ConnsOK'
  BY DEF IInv, ConnsOK
<1>4. UNCHANGED <<made, connections, conn, queue, server, used>>
  OBVIOUS
<1> QED BY <1>1, <1>2, <1>3, <1>4, NoneMoves

(* Clients and other threads. *)
LEMMA OutsideOK ==
  ASSUME IInv, ClientArrives \/ ClientGivesUp \/ OthersOpen \/ OthersClose
  PROVE  IInv'
<1> USE DEF ClientArrives, ClientGivesUp, OthersOpen, OthersClose, outside, vars, mapVars
<1>1. TypeOK'
  BY DEF IInv, TypeOK
<1>2. AcceptorOK'
  <2>1. Cardinality(Live) \in Nat
    BY LiveCount
  <2>2. AcceptorOK /\ acceptorFds \in {0, 1} /\ MaxFds \in Nat /\ MaxConns \in Nat
    BY ServerAssumption DEF IInv, AcceptorOK
  <2>3. CASE ClientArrives
    BY <2>2, <2>3 DEF AcceptorOK
  <2>4. CASE ClientGivesUp
    BY <2>2, <2>4 DEF AcceptorOK
  <2>5. CASE OthersOpen
    <3>1. others < MaxFds
      BY <2>1, <2>2, <2>5 DEF AcceptorOK, FreeFds
    <3>2. others + 1 \in 0..MaxFds
      BY <2>2, <3>1 DEF AcceptorOK
    <3>3. (stolen \/ accepting # "no") \in BOOLEAN
      OBVIOUS
    <3> QED BY <2>2, <2>5, <3>2, <3>3 DEF AcceptorOK
  <2>6. CASE OthersClose
    BY <2>2, <2>6 DEF AcceptorOK
  <2> QED BY <2>3, <2>4, <2>5, <2>6
<1>3. ConnsOK'
  BY DEF IInv, ConnsOK
<1>4. UNCHANGED <<made, connections, conn, queue, server, used>>
  OBVIOUS
<1> QED BY <1>1, <1>2, <1>3, <1>4, NoneMoves

(* ~EventLoopThread. *)
LEMMA JoinLoopOK == ASSUME IInv, NEW l \in LoopNumbers, JoinLoop(l) PROVE IInv'
<1> USE DEF JoinLoop, vars, acceptorVars, mapVars
<1>1. TypeOK'
  BY DEF IInv, TypeOK
<1>2. AcceptorOK'
  BY DEF IInv, AcceptorOK
<1>3. ConnsOK'
  BY DEF IInv, ConnsOK
<1>4. UNCHANGED <<made, connections, conn, queue, server, used>>
  OBVIOUS
<1> QED BY <1>1, <1>2, <1>3, <1>4, NoneMoves

-----------------------------------------------------------------------------
(* What is left alone by the steps of a connection. *)

(* The pool and the acceptor. *)
LEMMA RestOK ==
  ASSUME IInv, UNCHANGED <<vars, acceptorVars, made, nextConnId>>
  PROVE  TypeOK' /\ AcceptorOK'
<1>1. TypeOK'
  BY DEF IInv, TypeOK, vars
<1>2. AcceptorOK'
  BY DEF IInv, AcceptorOK, acceptorVars
<1> QED BY <1>1, <1>2

(* ConnectEstablished. *)
LEMMA EstablishedRuns ==
  ASSUME IInv, NEW l \in LoopNumbers, NotEmpty(queue[l]), used = "none",
         NEW c \in ConnIds, Head(queue[l]) = Est(c), Takes(queue, queue', l),
         conn' = [conn EXCEPT ![c] = Established(conn[c])],
         UNCHANGED <<vars, acceptorVars, made, nextConnId, connections, server,
                     ended, used>>
  PROVE  IInv'
<1>1. /\ queue \in Queues /\ ConnsOK /\ MapOK
  BY DEF IInv, ConnsOK
<1>2. /\ queue' \in Queues
      /\ ~NotIn(queue[l], Est(c))
      /\ OnceIn(queue[l], Est(c)) => NotIn(queue'[l], Est(c))
      /\ \A x \in LoopNumbers : \A f : NotIn(queue[x], f) => NotIn(queue'[x], f)
      /\ \A x \in LoopNumbers : \A f :
           (x # l \/ f # Est(c)) /\ OnceIn(queue[x], f) => OnceIn(queue'[x], f)
      /\ \A d \in ConnIds : d # Est(c).conn => Same(queue, queue', d)
  BY <1>1, Taken
<1>3. Est(c).conn = c /\ Est(c) # Des(c) /\ Est(c) # Rem(c)
  BY DEF Est, Des, Rem, Functor
<1> DEFINE k == conn[c]
           n == Established(conn[c])
<1>4. /\ k \in Records /\ k.loop \in LoopNumbers /\ 0 \in LoopNumbers
      /\ c <= made /\ Stage(c, k, connections[c], server, queue)
  BY <1>2, AtStage DEF Unmade
<1>5. /\ n \in Records /\ n.name = k.name /\ n.loop = k.loop
      /\ n.state = "kConnected" /\ n.polled
      /\ n.ups = k.ups + 1 /\ n.downs = k.downs /\ n.ends = k.ends
  BY <1>4, RecordChanged
<1>6. Changes(c, n)
  BY <1>1, <1>5, ConnChanged
<1> HIDE DEF k, n
<1>7. l = k.loop
  BY <1>2, <1>4 DEF Stage, Placed
<1>8. Fresh(c, k, connections[c], server, queue)
  BY <1>2, <1>4, <1>7 DEF Stage, Open, Leaving, Erasing, Over
<1>9. Placed(c, n, queue')
  BY <1>2, <1>4, <1>5 DEF Stage, Placed
<1>10. Referenced(c, n, connections[c], server, queue')
  <2>1. Referenced(c, k, connections[c], server, queue)
    BY <1>8 DEF Fresh
  <2>2. /\ NotIn(queue[k.loop], Des(c)) => NotIn(queue'[n.loop], Des(c))
        /\ OnceIn(queue[k.loop], Des(c)) => OnceIn(queue'[n.loop], Des(c))
    BY <1>2, <1>3, <1>4, <1>5
  <2> QED BY <2>1, <2>2 DEF Referenced
<1>11. NotIn(queue'[n.loop], Est(c)) /\ NotIn(queue'[0], Rem(c))
  BY <1>2, <1>4, <1>5, <1>7, <1>8 DEF Fresh
<1>12. Open(c, n, connections[c], server, queue')
  BY <1>5, <1>8, <1>10, <1>11 DEF Open, Fresh
<1>13. Stage(c, n, connections'[c], server', queue')
  BY <1>4, <1>5, <1>9, <1>12 DEF Stage
<1>14. TypeOK' /\ AcceptorOK'
  BY RestOK
<1>15. ConnsOK'
  BY <1>1, <1>2, <1>6 DEF ConnsOK, Changes
<1>16. MapOK'
  BY <1>1 DEF MapOK
<1>17. \A d \in ConnIds \ {c} : Same(queue, queue', d)
  BY <1>2, <1>3
<1> QED BY <1>4, <1>6, <1>13, <1>14, <1>15, <1>16, <1>17, OneMoves

(* ConnectDestroyed. *)
LEMMA DestroyedRuns ==
  ASSUME IInv, NEW l \in LoopNumbers, NotEmpty(queue[l]), used = "none",
         NEW c \in ConnIds, Head(queue[l]) = Des(c), Takes(queue, queue', l),
         conn' = [conn EXCEPT ![c] = Destroyed(conn[c])],
         UNCHANGED <<vars, acceptorVars, made, nextConnId, connections, server,
                     ended, used>>
  PROVE  IInv'
<1>1. /\ queue \in Queues /\ ConnsOK /\ MapOK
  BY DEF IInv, ConnsOK
<1>2. /\ queue' \in Queues
      /\ ~NotIn(queue[l], Des(c))
      /\ OnceIn(queue[l], Des(c)) => NotIn(queue'[l], Des(c))
      /\ \A x \in LoopNumbers : \A f : NotIn(queue[x], f) => NotIn(queue'[x], f)
      /\ \A f : OnceIn(queue[l], f) => ~Before(queue[l], f, Des(c))
      /\ \A d \in ConnIds : d # Des(c).conn => Same(queue, queue', d)
  <2> DEFINE h == Head(queue[l])
  <2>1. queue' \in Queues /\ ~NotIn(queue[l], h)
    BY <1>1, Taken
  <2>2. OnceIn(queue[l], h) => NotIn(queue'[l], h)
    BY <1>1, Taken
  <2>3. \A x \in LoopNumbers : \A f : NotIn(queue[x], f) => NotIn(queue'[x], f)
    BY <1>1, Taken
  <2>4. \A f : OnceIn(queue[l], f) => ~Before(queue[l], f, h)
    BY <1>1, Taken
  <2>5. \A e \in ConnIds : e # h.conn => Same(queue, queue', e)
    BY <1>1, Taken
  <2>6. h = Des(c)
    OBVIOUS
  <2> HIDE DEF h
  <2> QED BY <2>1, <2>2, <2>3, <2>4, <2>5, <2>6
<1>3. Des(c).conn = c
  BY DEF Des, Functor
<1> DEFINE k == conn[c]
           n == Destroyed(conn[c])
<1>4. /\ k \in Records /\ k.loop \in LoopNumbers /\ 0 \in LoopNumbers
      /\ c <= made /\ Stage(c, k, connections[c], server, queue)
  BY <1>2, AtStage DEF Unmade
<1>5. /\ n \in Records /\ n.name = k.name /\ n.loop = k.loop
      /\ n.ups = k.ups /\ n.ends = k.ends + 1 /\ ~n.polled
      /\ k.state = "kConnected" => n.state = "kDisconnected" /\ n.downs = k.downs + 1
      /\ k.state # "kConnected" => n.state = k.state /\ n.downs = k.downs
  BY <1>4, RecordChanged
<1>6. Changes(c, n)
  BY <1>1, <1>5, ConnChanged
<1> HIDE DEF k, n
<1>7. l = k.loop
  BY <1>2, <1>4 DEF Stage, Placed
<1>8. ~Fresh(c, k, connections[c], server, queue)
  BY <1>2, <1>7 DEF Fresh
<1>9. /\ ~Leaving(c, k, connections[c], server, queue)
      /\ ~Over(c, k, connections[c], server, queue)
  BY <1>2, <1>7 DEF Leaving, Over
<1>10. /\ n.state = "kDisconnected" /\ n.ups = 1 /\ n.downs = 1 /\ n.ends = 1
       /\ NotIn(queue[k.loop], Est(c)) /\ OnceIn(queue[k.loop], Des(c))
       /\ connections[c] = 0 /\ (server = "gone" \/ NotIn(queue[0], Rem(c)))
  <2>1. CASE Open(c, k, connections[c], server, queue)
    BY <1>2, <1>5, <1>7, <2>1 DEF Open, Referenced
  <2>2. CASE Erasing(c, k, connections[c], server, queue)
    BY <1>5, <2>2 DEF Erasing
  <2> QED BY <1>4, <1>8, <1>9, <2>1, <2>2 DEF Stage
<1>11. Over(c, n, connections[c], server, queue')
  <2>1. NotIn(queue'[n.loop], Est(c)) /\ NotIn(queue'[n.loop], Des(c))
    BY <1>2, <1>4, <1>5, <1>7, <1>10
  <2>2. server = "gone" \/ NotIn(queue'[0], Rem(c))
    BY <1>2, <1>4, <1>10
  <2> QED BY <1>5, <1>10, <2>1, <2>2 DEF Over
<1>12. Placed(c, n, queue')
  BY <1>2, <1>4, <1>5 DEF Stage, Placed
<1>13. Stage(c, n, connections'[c], server', queue')
  BY <1>4, <1>5, <1>11, <1>12 DEF Stage
<1>14. TypeOK' /\ AcceptorOK'
  BY RestOK
<1>15. ConnsOK'
  BY <1>1, <1>2, <1>6 DEF ConnsOK, Changes
<1>16. MapOK'
  BY <1>1 DEF MapOK
<1>17. \A d \in ConnIds \ {c} : Same(queue, queue', d)
  BY <1>2, <1>3
<1> QED BY <1>4, <1>6, <1>13, <1>14, <1>15, <1>16, <1>17, OneMoves

(* A connection of another loop is erased, in the base loop. *)
LEMMA RemoveRuns ==
  ASSUME IInv, NEW l \in LoopNumbers, NotEmpty(queue[l]), used = "none", server = "up",
         NEW c \in ConnIds, Head(queue[l]) = Rem(c),
         NEW left, Takes(queue, left, l), Sends(left, queue', conn[c].loop, Des(c)),
         connections' = [connections EXCEPT ![conn[c].name] = 0],
         UNCHANGED <<vars, acceptorVars, made, nextConnId, conn, server, ended, used>>
  PROVE  IInv'
<1>1. /\ queue \in Queues /\ ConnsOK /\ MapOK
  BY DEF IInv, ConnsOK
<1>2. /\ left \in Queues
      /\ ~NotIn(queue[l], Rem(c))
      /\ OnceIn(queue[l], Rem(c)) => NotIn(left[l], Rem(c))
      /\ \A x \in LoopNumbers : \A f : NotIn(queue[x], f) => NotIn(left[x], f)
      /\ \A d \in ConnIds : d # Rem(c).conn => Same(queue, left, d)
  BY <1>1, Taken
<1>3. /\ Rem(c).conn = c /\ Des(c).conn = c
      /\ Des(c) \in Functors /\ Est(c) # Des(c) /\ Rem(c) # Des(c)
  BY DEF Rem, Des, Est, Functor, Functors
<1> DEFINE k == conn[c]
<1>4. /\ k \in Records /\ k.loop \in LoopNumbers /\ 0 \in LoopNumbers
      /\ c <= made /\ Stage(c, k, connections[c], server, queue)
  BY <1>2, AtStage DEF Unmade
<1>5. /\ queue' \in Queues
      /\ NotIn(left[k.loop], Des(c)) => OnceIn(queue'[k.loop], Des(c))
      /\ KeptOut(left, queue', k.loop, Des(c))
      /\ \A d \in ConnIds : d # Des(c).conn => Same(left, queue', d)
  <2>1. queue' \in Queues
    BY <1>2, <1>3, <1>4, Sent
  <2>2. NotIn(left[k.loop], Des(c)) => OnceIn(queue'[k.loop], Des(c))
    BY <1>2, <1>3, <1>4, Sent
  <2>3. KeptOut(left, queue', k.loop, Des(c))
    BY <1>2, <1>3, <1>4, Sent
  <2>4. \A d \in ConnIds : d # Des(c).conn => Same(left, queue', d)
    BY <1>2, <1>3, <1>4, Sent
  <2> QED BY <2>1, <2>2, <2>3, <2>4
<1>6. Changes(c, k)
  BY <1>1 DEF ConnsOK, Changes
<1>7. k.name = c /\ connections' = [connections EXCEPT ![c] = 0]
  BY <1>4 DEF Stage
<1>8. /\ connections'[c] = 0 /\ connections' \in [ConnIds -> 0..MaxConns]
      /\ \A d \in ConnIds \ {c} : connections'[d] = connections[d]
  BY <1>1, <1>7, ServerAssumption DEF ConnsOK
<1> HIDE DEF k
<1>9. l = 0
  BY <1>2, <1>4 DEF Stage, Placed
<1>10. Leaving(c, k, connections[c], server, queue)
  BY <1>2, <1>4, <1>9 DEF Stage, Fresh, Open, Erasing, Over
<1>11. /\ OnceIn(queue'[k.loop], Des(c)) /\ NotIn(queue'[k.loop], Est(c))
       /\ NotIn(queue'[0], Rem(c))
  BY <1>2, <1>3, <1>4, <1>5, <1>9, <1>10 DEF KeptOut, Leaving
<1>12. Erasing(c, k, 0, server, queue')
  BY <1>10, <1>11 DEF Erasing, Leaving
<1>13. Placed(c, k, queue')
  BY <1>2, <1>3, <1>4, <1>5 DEF KeptOut, Stage, Placed
<1>14. Stage(c, k, connections'[c], server', queue')
  BY <1>7, <1>8, <1>12, <1>13 DEF Stage
<1>15. TypeOK' /\ AcceptorOK'
  BY RestOK
<1>16. ConnsOK'
  BY <1>1, <1>5, <1>8 DEF ConnsOK
<1>17. MapOK'
  BY <1>1, <1>8 DEF MapOK
<1>18. \A d \in ConnIds \ {c} : Same(queue, queue', d)
  BY <1>2, <1>3, <1>5, SameTwice
<1> QED BY <1>4, <1>6, <1>8, <1>14, <1>15, <1>16, <1>17, <1>18, OneMoves

(* The destroyed server is used: of the stages nothing is claimed any more. *)
LEMMA FreedOK ==
  ASSUME IInv, used' = "freed", TypeOK', AcceptorOK', ConnsOK', EndsOnce'
  PROVE  IInv'
BY DEF IInv

(* A loop runs its first functor, one of the three above. *)
LEMMA RunFunctorOK == ASSUME IInv, NEW l \in LoopNumbers, RunFunctor(l) PROVE IInv'
<1> DEFINE f == Head(queue[l])
           left == [queue EXCEPT ![l] = Tail(@)]
<1>1. /\ NotEmpty(queue[l]) /\ used = "none" /\ Takes(queue, left, l)
      /\ UNCHANGED <<vars, acceptorVars, made, nextConnId, server, ended>>
  BY DEF RunFunctor, LoopRuns, NotEmpty, Takes
<1>2. queue \in Queues /\ ConnsOK
  BY DEF IInv, ConnsOK
<1>3. f \in Functors /\ left \in Queues
  BY <1>1, <1>2, Taken
<1>4. /\ f.conn \in ConnIds /\ f.what \in {"established", "destroyed", "remove"}
      /\ f = Functor(f.what, f.conn)
  BY <1>3 DEF Functors, Functor
<1>5. CASE f.what = "established"
  <2>1. /\ conn' = [conn EXCEPT ![f.conn] = Established(conn[f.conn])] /\ queue' = left
        /\ UNCHANGED <<connections, used>>
    BY <1>5 DEF RunFunctor
  <2>2. f = Est(f.conn) /\ Takes(queue, queue', l)
    BY <1>1, <1>4, <1>5, <2>1 DEF Est
  <2> QED BY <1>1, <1>4, <2>1, <2>2, EstablishedRuns
<1>6. CASE f.what = "destroyed"
  <2>1. /\ conn' = [conn EXCEPT ![f.conn] = Destroyed(conn[f.conn])] /\ queue' = left
        /\ UNCHANGED <<connections, used>>
    BY <1>6 DEF RunFunctor
  <2>2. f = Des(f.conn) /\ Takes(queue, queue', l)
    BY <1>1, <1>4, <1>6, <2>1 DEF Des
  <2> QED BY <1>1, <1>4, <2>1, <2>2, DestroyedRuns
<1>7. CASE f.what = "remove"
  <2>1. RemoveConnectionInLoop(left, f.conn) /\ UNCHANGED conn
    BY <1>7 DEF RunFunctor
  <2>2. CASE server = "gone"
    <3>1. used' = "freed" /\ queue' = left /\ UNCHANGED connections
      BY <2>1, <2>2 DEF RemoveConnectionInLoop
    <3>2. TypeOK' /\ AcceptorOK'
      BY <1>1, RestOK
    <3>3. ConnsOK'
      BY <1>1, <1>2, <1>3, <2>1, <3>1 DEF ConnsOK
    <3>4. EndsOnce'
      BY <1>1, <2>1 DEF IInv, EndsOnce
    <3> QED BY <3>1, <3>2, <3>3, <3>4, FreedOK
  <2>3. CASE server # "gone"
    <3>1. /\ connections' = [connections EXCEPT ![conn[f.conn].name] = 0]
          /\ Sends(left, queue', conn[f.conn].loop, Des(f.conn))
          /\ UNCHANGED used
      BY <2>1, <2>3 DEF RemoveConnectionInLoop, Erased, QueueDestroyed, Sends, Des
    <3>2. server = "up" /\ f = Rem(f.conn)
      BY <1>2, <1>4, <1>7, <2>3 DEF ConnsOK, Rem
    <3> QED BY <1>1, <1>4, <2>1, <3>1, <3>2, RemoveRuns
  <2> QED BY <2>2, <2>3
<1> QED BY <1>4, <1>5, <1>6, <1>7

(* HandleClose: the connection is open, since its channel is active. *)
LEMMA ClosedIsOpen ==
  ASSUME IInv, NEW c \in ConnIds, HandleClose(c)
  PROVE  /\ c <= made /\ Stage(c, conn[c], connections[c], server, queue)
         /\ Open(c, conn[c], connections[c], server, queue)
         /\ conn' = [conn EXCEPT ![c] = Closed(conn[c])]
         /\ UNCHANGED <<vars, acceptorVars, made, nextConnId, server, ended>>
<1>1. c \in 1 .. made /\ used = "none" /\ conn[c].state = "kConnected"
  BY DEF HandleClose, Live, LoopRuns
<1>2. c <= made /\ Stage(c, conn[c], connections[c], server, queue)
  BY <1>1, AtStage
<1>3. Open(c, conn[c], connections[c], server, queue)
  BY <1>1, <1>2 DEF Stage, Fresh, Leaving, Erasing, Over
<1> QED BY <1>2, <1>3 DEF HandleClose

(* A connection of the base loop is erased at once, one of another loop     *)
(* by a functor; if there is no server any more, its memory is used.       *)
LEMMA HandleCloseOK == ASSUME IInv, NEW c \in ConnIds, HandleClose(c) PROVE IInv'
<1> DEFINE k == conn[c]
           n == Closed(conn[c])
<1>1. /\ queue \in Queues /\ ConnsOK /\ used = "none" /\ MapOK
  BY DEF IInv, ConnsOK, HandleClose, LoopRuns
<1>2. /\ k \in Records /\ k.loop \in LoopNumbers /\ 0 \in LoopNumbers
      /\ c <= made /\ Stage(c, k, connections[c], server, queue)
      /\ Open(c, k, connections[c], server, queue)
      /\ UNCHANGED <<vars, acceptorVars, made, nextConnId, server, ended>>
  BY <1>1, AtStage, ClosedIsOpen
<1>3. /\ n \in Records /\ n.name = k.name /\ n.loop = k.loop
      /\ n.state = "kDisconnected" /\ n.polled = k.polled
      /\ n.downs = k.downs + 1 /\ n.ups = k.ups /\ n.ends = k.ends
  BY <1>2, RecordChanged
<1>4. Changes(c, n)
  BY <1>1, <1>3, ConnChanged, ClosedIsOpen
<1>5. TypeOK' /\ AcceptorOK'
  BY <1>2, RestOK
<1>6. /\ Est(c) \in Functors /\ Des(c) \in Functors /\ Rem(c) \in Functors
      /\ Est(c) # Des(c) /\ Est(c) # Rem(c) /\ Des(c) # Rem(c)
      /\ Des(c).conn = c /\ Rem(c).conn = c
  BY DEF Est, Des, Rem, Functor, Functors
<1>7. CASE server = "gone"
  <2>1. used' = "freed" /\ UNCHANGED <<connections, queue>>
    BY <1>7 DEF HandleClose
  <2>2. ConnsOK'
    BY <1>1, <1>2, <1>4, <2>1 DEF ConnsOK, Changes
  <2>3. EndsOnce'
    <3> HIDE DEF k, n
    <3> SUFFICES ASSUME NEW d \in 1 .. made
                 PROVE  /\ conn'[d].ups <= 1 /\ conn'[d].downs <= conn'[d].ups
                        /\ conn'[d].ends <= conn'[d].downs
                        /\ conn'[d].polled => conn'[d].ends = 0
      BY <1>2 DEF EndsOnce
    <3>1. CASE d = c
      BY <1>2, <1>3, <1>4, <3>1 DEF Changes, Open
    <3>2. CASE d # c
      <4>1. d \in ConnIds \ {c}
        BY <3>2, ServerAssumption DEF IInv, AcceptorOK, ConnIds
      <4>2. conn'[d] = conn[d]
        BY <1>4, <4>1 DEF Changes
      <4> QED BY <4>2 DEF IInv, EndsOnce
    <3> QED BY <3>1, <3>2
  <2> QED BY <1>5, <2>1, <2>2, <2>3, FreedOK
<1>8. CASE server = "up" /\ k.loop = 0
  <2>1. /\ connections' = [connections EXCEPT ![k.name] = 0]
        /\ Sends(queue, queue', k.loop, Des(c)) /\ UNCHANGED used
    BY <1>8 DEF HandleClose, RemoveConnectionInLoop, Erased, QueueDestroyed, Sends, Des
  <2>2. k.name = c
    BY <1>2 DEF Stage
  <2> HIDE DEF k, n
  <2>3. /\ connections'[c] = 0 /\ connections' \in [ConnIds -> 0..MaxConns]
        /\ \A d \in ConnIds \ {c} : connections'[d] = connections[d]
    BY <1>1, <2>1, <2>2, ServerAssumption DEF ConnsOK
  <2>4. /\ queue' \in Queues
        /\ NotIn(queue[k.loop], Des(c)) => OnceIn(queue'[k.loop], Des(c))
    BY <1>1, <1>2, <1>6, <2>1, Sent
  <2>5. KeptOut(queue, queue', k.loop, Des(c))
    BY <1>1, <1>2, <1>6, <2>1, Sent
  <2>6. \A d \in ConnIds \ {c} : Same(queue, queue', d)
    BY <1>1, <1>2, <1>6, <2>1, Sent
  <2>7. NotIn(queue[k.loop], Des(c))
    BY <1>2, <1>8 DEF Open, Referenced
  <2>8. /\ OnceIn(queue'[n.loop], Des(c)) /\ NotIn(queue'[n.loop], Est(c))
        /\ NotIn(queue'[0], Rem(c))
    BY <1>2, <1>3, <1>6, <2>4, <2>5, <2>7 DEF KeptOut, Open
  <2>9. Erasing(c, n, 0, server, queue')
    BY <1>2, <1>3, <2>8 DEF Erasing, Open
  <2>10. Placed(c, n, queue')
    BY <1>2, <1>3, <1>6, <2>5 DEF KeptOut, Stage, Placed
  <2>11. Stage(c, n, connections'[c], server', queue')
    BY <1>2, <1>3, <2>2, <2>3, <2>9, <2>10 DEF Stage
  <2>12. ConnsOK'
    BY <1>1, <1>2, <1>4, <2>1, <2>3, <2>4 DEF ConnsOK, Changes
  <2>13. MapOK'
    BY <1>1, <1>2, <2>3 DEF MapOK
  <2> QED BY <1>1, <1>2, <1>4, <1>5, <2>1, <2>3, <2>6, <2>11, <2>12, <2>13, OneMoves
<1>9. CASE server = "up" /\ k.loop # 0
  <2>1. Sends(queue, queue', 0, Rem(c)) /\ UNCHANGED <<connections, used>>
    BY <1>9 DEF HandleClose, Sends, Rem
  <2> HIDE DEF k, n
  <2>2. /\ queue' \in Queues
        /\ NotIn(queue[0], Rem(c)) => OnceIn(queue'[0], Rem(c))
    BY <1>1, <1>2, <1>6, <2>1, Sent
  <2>3. KeptOut(queue, queue', 0, Rem(c))
    BY <1>1, <1>2, <1>6, <2>1, Sent
  <2>4. \A d \in ConnIds \ {c} : Same(queue, queue', d)
    BY <1>1, <1>2, <1>6, <2>1, Sent
  <2>5. connections[c] = c /\ NotIn(queue[k.loop], Des(c))
    BY <1>2, <1>9 DEF Open, Referenced
  <2>6. /\ OnceIn(queue'[0], Rem(c)) /\ NotIn(queue'[n.loop], Est(c))
        /\ NotIn(queue'[n.loop], Des(c))
    BY <1>2, <1>3, <1>6, <2>2, <2>3, <2>5 DEF KeptOut, Open
  <2>7. Leaving(c, n, c, server, queue')
    BY <1>2, <1>3, <1>9, <2>6 DEF Leaving, Open
  <2>8. Placed(c, n, queue')
    BY <1>2, <1>3, <1>6, <2>3 DEF KeptOut, Stage, Placed
  <2>9. Stage(c, n, connections'[c], server', queue')
    BY <1>2, <1>3, <2>1, <2>5, <2>7, <2>8 DEF Stage
  <2>10. ConnsOK'
    BY <1>1, <1>2, <1>4, <2>1, <2>2 DEF ConnsOK, Changes
  <2>11. MapOK'
    BY <1>1, <1>2, <2>1 DEF MapOK
  <2> QED BY <1>1, <1>2, <1>4, <1>5, <2>1, <2>4, <2>9, <2>10, <2>11, OneMoves
<1> QED BY <1>1, <1>7, <1>8, <1>9 DEF ConnsOK

(* A connection is made: established at once in the base loop, or by a      *)
(* functor in its own.                                                     *)
LEMMA AcceptClientOK == ASSUME IInv, AcceptClient PROVE IInv'
<1> DEFINE c == made + 1
           l == ChosenLoop
<1>0. /\ used = "none" /\ server = "up" /\ backlog > 0 /\ ConnsOK /\ MapOK
      /\ TypeOK /\ AcceptorOK /\ queue \in Queues
      /\ GetNextLoop /\ made' = c /\ nextConnId' = nextConnId + 1
      /\ backlog' = backlog - 1
      /\ UNCHANGED <<listening, arrived, accepting, idleFd, acceptorFds, others,
                     stolen, server, ended, used>>
  BY DEF IInv, AcceptClient, LoopRuns, ConnsOK, NewConnection, NextId
<1>1. c \in ConnIds /\ nextConnId = c /\ c \in Nat /\ ~(c <= made)
  BY <1>0, ServerAssumption DEF AcceptorOK, ConnIds
<1>2. l \in LoopNumbers
  BY <1>0, MaxLoopsAssumption DEF TypeOK, ChosenLoop, LoopNumbers
<1>3. TypeOK'
  <2>1. UNCHANGED <<threadnum, size, hashed, origin>>
    BY <1>0 DEF GetNextLoop
  <2>2. CASE size = 0
    BY <1>0, <2>1, <2>2 DEF GetNextLoop, TypeOK
  <2>3. CASE size # 0
    <3>1. /\ given' = [given EXCEPT ![next + 1] = @ + 1] /\ next' = Wrap(next + 1)
          /\ rounds' \in {rounds, rounds + 1}
      BY <1>0, <2>3 DEF GetNextLoop
    <3>2. next' \in LoopNumbers /\ (next' = 0 \/ next' < size)
      BY <1>0, <3>1, MaxLoopsAssumption DEF TypeOK, LoopNumbers, Wrap
    <3>3. given' \in [LoopNumbers -> Nat]
      <4>1. given \in [LoopNumbers -> Nat]
        BY <1>0 DEF TypeOK
      <4>2. \A x \in LoopNumbers : given[x] + 1 \in Nat
        BY <4>1
      <4> QED BY <3>1, <4>1, <4>2
    <3> QED BY <1>0, <2>1, <3>1, <3>2, <3>3 DEF TypeOK
  <2> QED BY <2>2, <2>3
<1>4. AcceptorOK'
  BY <1>0, <1>1, ServerAssumption DEF AcceptorOK, ConnIds
<1> DEFINE new == [conn[c] EXCEPT !.loop = l, !.name = c]
           k == IF l = 0 THEN Established(new) ELSE new
<1>5. /\ connections' = [connections EXCEPT ![c] = c]
      /\ conn' = [conn EXCEPT ![c] = k]
      /\ IF l = 0 THEN queue' = queue ELSE Sends(queue, queue', l, Est(c))
  BY <1>1 DEF AcceptClient, NewConnection, Sends, Est
<1> HIDE DEF l
<1>6. /\ conn[c] \in Records /\ 0 \in LoopNumbers
      /\ Unmade(c, conn[c], connections[c], queue)
  BY <1>0, <1>1, AtStage
<1>7. c \in 0..MaxConns
  BY <1>1 DEF ConnIds
<1> HIDE DEF c
<1>8. /\ new \in Records /\ new.loop = l /\ new.name = c
      /\ new.state = "kConnecting" /\ ~new.polled
      /\ new.ups = 0 /\ new.downs = 0 /\ new.ends = 0
  <2>1. new \in Records
    BY <1>2, <1>6, <1>7 DEF Records
  <2>2. /\ new.loop = l /\ new.name = c /\ new.state = conn[c].state
        /\ new.polled = conn[c].polled /\ new.ups = conn[c].ups
        /\ new.downs = conn[c].downs /\ new.ends = conn[c].ends
    BY <1>6 DEF Records
  <2> QED BY <1>6, <2>1, <2>2 DEF Unmade
<1> HIDE DEF new
<1>9. /\ connections'[c] = c /\ connections' \in [ConnIds -> 0..MaxConns]
      /\ \A d \in ConnIds \ {c} : connections'[d] = connections[d]
  BY <1>0, <1>1, <1>5, <1>7 DEF ConnsOK
<1>10. MapOK'
  BY <1>0, <1>9 DEF MapOK
<1>11. /\ \A x \in LoopNumbers : /\ NotIn(queue[x], Est(c)) /\ NotIn(queue[x], Des(c))
                                 /\ NotIn(queue[x], Rem(c))
       /\ Est(c) \in Functors /\ Est(c).conn = c /\ Est(c) # Des(c) /\ Est(c) # Rem(c)
  BY <1>1, <1>6 DEF Unmade, Est, Des, Rem, Functor, Functors
<1>12. CASE l = 0
  <2> DEFINE n == Established(new)
  <2>1. k = n /\ queue' = queue
    BY <1>5, <1>12
  <2>2. /\ n \in Records /\ n.loop = 0 /\ n.name = c /\ n.state = "kConnected"
        /\ n.polled /\ n.ups = 1 /\ n.downs = 0 /\ n.ends = 0
    BY <1>8, <1>12, RecordChanged
  <2>3. Changes(c, n)
    BY <1>0, <1>1, <1>5, <2>1, <2>2, ConnChanged
  <2> HIDE DEF n, k
  <2>4. Open(c, n, c, "up", queue)
    BY <1>6, <1>11, <2>2 DEF Open, Referenced
  <2>5. Placed(c, n, queue)
    BY <1>11 DEF Placed
  <2>6. Stage(c, n, connections'[c], server', queue')
    BY <1>0, <1>9, <2>1, <2>2, <2>4, <2>5 DEF Stage
  <2>7. ConnsOK'
    BY <1>0, <1>9, <2>1, <2>3 DEF ConnsOK, Changes
  <2>8. \A d \in ConnIds \ {c} : Same(queue, queue', d)
    BY <2>1 DEF Same
  <2>9. c <= made' /\ made' = made + 1 /\ c = made'
    BY <1>0, <1>1 DEF c
  <2> QED BY <1>0, <1>1, <1>3, <1>4, <1>9, <1>10, <2>3, <2>6, <2>7, <2>8, <2>9, OneMoves
<1>13. CASE l # 0
  <2>1. k = new /\ Sends(queue, queue', l, Est(c))
    BY <1>5, <1>13
  <2>2. Changes(c, new)
    BY <1>0, <1>1, <1>5, <1>8, <2>1, ConnChanged
  <2> HIDE DEF k
  <2>3. /\ queue' \in Queues /\ OnceIn(queue'[l], Est(c))
    BY <1>0, <1>2, <1>11, <2>1, Sent
  <2>4. KeptOut(queue, queue', l, Est(c))
    BY <1>0, <1>2, <1>11, <2>1, Sent
  <2>5. \A d \in ConnIds \ {c} : Same(queue, queue', d)
    BY <1>0, <1>2, <1>11, <2>1, Sent
  <2>6. NotIn(queue'[l], Des(c)) /\ NotIn(queue'[0], Rem(c))
    BY <1>2, <1>6, <1>11, <2>4 DEF KeptOut
  <2>7. Before(queue'[l], Est(c), Des(c))
    BY <2>6, NotBehind
  <2>8. Fresh(c, new, c, "up", queue')
    BY <1>8, <1>13, <2>3, <2>6, <2>7 DEF Fresh, Referenced
  <2>9. Placed(c, new, queue')
    BY <1>8, <1>11, <2>4 DEF KeptOut, Placed
  <2>10. Stage(c, new, connections'[c], server', queue')
    BY <1>0, <1>8, <1>9, <2>8, <2>9 DEF Stage
  <2>11. ConnsOK'
    BY <1>0, <1>9, <2>2, <2>3 DEF ConnsOK, Changes
  <2>12. c <= made' /\ made' = made + 1 /\ c = made'
    BY <1>0, <1>1 DEF c
  <2> QED BY <1>0, <1>1, <1>3, <1>4, <1>9, <1>10, <2>2, <2>5, <2>10, <2>11, <2>12, OneMoves
<1> QED BY <1>12, <1>13

-----------------------------------------------------------------------------
(* ~TcpServer. *)

(* What it sends to loop l. *)
Ends(l) == {Functor("destroyed", c) : c \in {d \in InMap : l # 0 /\ conn[d].loop = l}}

EndedAt(c, l) == connections[c] = c /\ l # 0 /\ conn[c].loop = l

(* One functor for each connection of loop l in the map. *)
LEMMA EndsAre ==
  ASSUME IInv, used = "none", NEW l \in LoopNumbers
  PROVE  /\ Ends(l) \in SUBSET Functors /\ IsFiniteSet(Ends(l))
         /\ \A c \in ConnIds : /\ Des(c) \in Ends(l) <=> EndedAt(c, l)
                             /\ Est(c) \notin Ends(l) /\ Rem(c) \notin Ends(l)
<1>1. MapOK /\ 0 \notin ConnIds /\ IsFiniteSet(ConnIds)
  BY ServerAssumption, FS_Interval DEF IInv, ConnIds
<1>2. \A c \in ConnIds : c \in InMap <=> connections[c] = c
  BY <1>1 DEF MapOK, InMap
<1>3. InMap \subseteq ConnIds
  BY <1>1 DEF MapOK, InMap
<1> DEFINE D == {d \in InMap : l # 0 /\ conn[d].loop = l}
<1>4. D \in SUBSET ConnIds /\ IsFiniteSet(D)
  BY <1>1, <1>3, FS_Subset
<1>5. Ends(l) = {Functor("destroyed", c) : c \in D}
  BY DEF Ends
<1>6. \A c \in ConnIds : c \in D <=> EndedAt(c, l)
  BY <1>2 DEF EndedAt
<1> HIDE DEF D
<1>7. IsFiniteSet(Ends(l))
  <2> DEFINE b == [c \in D |-> Functor("destroyed", c)]
  <2>1. b \in Surjection(D, Ends(l))
    BY <1>5 DEF Surjection
  <2> QED BY <1>4, <2>1, FS_Surjection
<1>8. Ends(l) \in SUBSET Functors
  BY <1>4, <1>5 DEF Functors, Functor
<1>9. ASSUME NEW c \in ConnIds
      PROVE  /\ Des(c) \in Ends(l) <=> c \in D
             /\ Est(c) \notin Ends(l) /\ Rem(c) \notin Ends(l)
  BY <1>5 DEF Des, Est, Rem, Functor
<1> QED BY <1>6, <1>7, <1>8, <1>9

(* Who was in the map has its ConnectDestroyed on the way. *)
LEMMA DestroyServerOK == ASSUME IInv, DestroyServer PROVE IInv'
<1>1. /\ used = "none" /\ used' = "none" /\ server = "up" /\ server' = "gone"
      /\ accepting = "no" /\ UNCHANGED <<made, vars>>
      /\ ConnsOK /\ MapOK /\ queue \in Queues
  BY DEF IInv, DestroyServer, LoopRuns, BaseRuns, ConnsOK
<1>2. TypeOK'
  BY DEF IInv, DestroyServer, TypeOK, vars
<1>3. AcceptorOK'
  <2>1. /\ listening' = FALSE /\ backlog' = 0 /\ idleFd' = "none" /\ acceptorFds' = 0
        /\ UNCHANGED <<arrived, accepting, others, stolen, made, nextConnId>>
    BY DEF DestroyServer
  <2>2. AcceptorOK /\ MaxConns \in Nat
    BY ServerAssumption DEF IInv
  <2>3. listening' \in BOOLEAN /\ stolen' \in BOOLEAN
    BY <2>1, <2>2 DEF AcceptorOK
  <2>4. arrived \in Nat /\ backlog \in Nat /\ made \in Nat /\ made + backlog <= arrived
    BY <2>2 DEF AcceptorOK
  <2>5. backlog' \in 0..MaxConns /\ made' + backlog' <= arrived'
    BY <2>1, <2>2, <2>4
  <2> QED BY <2>1, <2>2, <2>3, <2>5 DEF AcceptorOK
<1>4. /\ connections' = [n \in ConnIds |-> 0]
      /\ \A c \in ConnIds : connections'[c] = 0
  BY DEF DestroyServer
<1>5. 0 \notin ConnIds /\ 0 \in 0..MaxConns /\ 0 \in LoopNumbers
  BY ServerAssumption, MaxLoopsAssumption DEF ConnIds, LoopNumbers
<1>6. \A c \in ConnIds : c \in InMap <=> connections[c] = c
  BY <1>1, <1>5 DEF MapOK, InMap
<1>7. \A c \in ConnIds : /\ conn[c] \in Records /\ Destroyed(conn[c]) \in Records
                       /\ conn[c].loop \in LoopNumbers
  BY <1>1, AtStage, RecordChanged
<1>8. \A c \in ConnIds : conn'[c] = IF connections[c] = c /\ conn[c].loop = 0
                                  THEN Destroyed(conn[c]) ELSE conn[c]
  BY <1>6 DEF DestroyServer
<1>9. conn' \in [ConnIds -> Records]
  BY <1>7 DEF DestroyServer
<1>10. \A l \in LoopNumbers : queue'[l] = queue[l] \o SetToSeq(Ends(l))
  BY DEF DestroyServer, Ends
<1>11. ASSUME NEW l \in LoopNumbers
       PROVE  /\ queue[l] \in Seq(Functors) /\ SetToSeq(Ends(l)) \in Seq(Functors)
              /\ \A f : IF f \in Ends(l) THEN OnceIn(SetToSeq(Ends(l)), f)
                       ELSE NotIn(SetToSeq(Ends(l)), f)
  BY <1>1, EndsAre, Sequenced DEF Queues
<1>12. queue' \in Queues
  <2>1. \A l \in LoopNumbers : queue[l] \o SetToSeq(Ends(l)) \in Seq(Functors)
    BY <1>11, Joined
  <2> QED BY <2>1 DEF DestroyServer, Queues, Ends
<1>13. ConnsOK'
  BY <1>1, <1>4, <1>5, <1>9, <1>12 DEF ConnsOK, DestroyServer
<1>14. MapOK'
  BY <1>4 DEF MapOK
<1>15. ASSUME NEW l \in LoopNumbers, NEW f, f \notin Ends(l)
       PROVE  /\ NotIn(queue[l], f) => NotIn(queue'[l], f)
              /\ OnceIn(queue[l], f) => OnceIn(queue'[l], f)
  <2> DEFINE s == SetToSeq(Ends(l))
  <2>1. NotIn(s, f) /\ s \in Seq(Functors) /\ queue[l] \in Seq(Functors)
    BY <1>11, <1>15
  <2>2. queue'[l] = queue[l] \o s
    BY <1>10
  <2> HIDE DEF s
  <2>3. NotIn(queue[l], f) => NotIn(queue[l] \o s, f)
    BY <2>1, Joined
  <2>4. OnceIn(queue[l], f) => OnceIn(queue[l] \o s, f)
    BY <2>1, Joined
  <2> QED BY <2>2, <2>3, <2>4
<1>16. ASSUME NEW l \in LoopNumbers, NEW f \in Ends(l), NEW g,
              g \notin Ends(l), NotIn(queue[l], f)
       PROVE  OnceIn(queue'[l], f) /\ Before(queue'[l], g, f)
  <2> DEFINE s == SetToSeq(Ends(l))
  <2>1. /\ OnceIn(s, f) /\ NotIn(s, g) /\ s \in Seq(Functors)
        /\ queue[l] \in Seq(Functors)
    BY <1>11, <1>16
  <2>2. queue'[l] = queue[l] \o s
    BY <1>10
  <2> HIDE DEF s
  <2>3. OnceIn(queue[l] \o s, f)
    BY <1>16, <2>1, Joined
  <2>4. Before(queue[l] \o s, g, f)
    BY <1>16, <2>1, Joined
  <2> QED BY <2>2, <2>3, <2>4
<1>17. ASSUME NEW c \in ConnIds
       PROVE  IF c <= made THEN Stage(c, conn'[c], 0, "gone", queue')
              ELSE Unmade(c, conn'[c], 0, queue')
  <2> DEFINE k == conn[c]
             m == connections[c]
             n == conn'[c]
  <2>1. \A l \in LoopNumbers : /\ Des(c) \in Ends(l) <=> EndedAt(c, l)
                             /\ Est(c) \notin Ends(l) /\ Rem(c) \notin Ends(l)
    BY <1>1, EndsAre
  <2>2. \A l \in LoopNumbers :
          /\ NotIn(queue[l], Est(c)) => NotIn(queue'[l], Est(c))
          /\ OnceIn(queue[l], Est(c)) => OnceIn(queue'[l], Est(c))
          /\ NotIn(queue[l], Rem(c)) => NotIn(queue'[l], Rem(c))
          /\ OnceIn(queue[l], Rem(c)) => OnceIn(queue'[l], Rem(c))
    BY <1>15, <2>1
  <2>3. \A l \in LoopNumbers : ~EndedAt(c, l) =>
          /\ NotIn(queue[l], Des(c)) => NotIn(queue'[l], Des(c))
          /\ OnceIn(queue[l], Des(c)) => OnceIn(queue'[l], Des(c))
    BY <1>15, <2>1
  <2>4. \A l \in LoopNumbers : EndedAt(c, l) /\ NotIn(queue[l], Des(c)) =>
          OnceIn(queue'[l], Des(c)) /\ Before(queue'[l], Est(c), Des(c))
    BY <1>16, <2>1
  <2>5. /\ k \in Records /\ k.loop \in LoopNumbers /\ c # 0
        /\ c <= made => Stage(c, k, m, "up", queue)
        /\ ~(c <= made) => Unmade(c, k, m, queue)
    BY <1>1, <1>5, AtStage
  <2>6. n = IF m = c /\ k.loop = 0 THEN Destroyed(k) ELSE k
    BY <1>8
  <2>7. \A l \in LoopNumbers : EndedAt(c, l) <=> m = c /\ l # 0 /\ k.loop = l
    BY DEF EndedAt
  <2> HIDE DEF k, m, n
  <2>8. CASE ~(c <= made)
    <3>1. m = 0 /\ n = k
      BY <2>5, <2>6, <2>8 DEF Unmade
    <3>2. \A l \in LoopNumbers : ~EndedAt(c, l)
      BY <2>5, <2>7, <3>1
    <3> QED BY <2>2, <2>3, <2>5, <2>8, <3>1, <3>2 DEF Unmade, n
  <2>9. CASE c <= made /\ m # c
    <3>1. n = k /\ \A l \in LoopNumbers : ~EndedAt(c, l)
      BY <2>6, <2>7, <2>9
    <3>2. Placed(c, k, queue')
      BY <2>2, <2>3, <2>5, <2>9, <3>1 DEF Stage, Placed
    <3>3. Erasing(c, k, m, "up", queue) \/ Over(c, k, m, "up", queue)
      BY <2>5, <2>9 DEF Stage, Fresh, Open, Leaving, Referenced
    <3>4. Erasing(c, k, 0, "gone", queue') \/ Over(c, k, 0, "gone", queue')
      BY <2>2, <2>3, <2>5, <3>1, <3>3 DEF Erasing, Over
    <3> QED BY <2>5, <2>9, <3>1, <3>2, <3>4 DEF Stage, n
  <2>10. CASE c <= made /\ m = c /\ k.loop = 0
    <3>1. n = Destroyed(k) /\ \A l \in LoopNumbers : ~EndedAt(c, l)
      BY <2>6, <2>7, <2>10
    <3>2. Open(c, k, m, "up", queue)
      BY <2>5, <2>10 DEF Stage, Fresh, Leaving, Erasing, Over
    <3>3. /\ n.name = k.name /\ n.loop = k.loop /\ n.state = "kDisconnected"
          /\ ~n.polled /\ n.ups = 1 /\ n.downs = 1 /\ n.ends = 1
      BY <2>5, <3>1, <3>2, RecordChanged DEF Open
    <3>4. NotIn(queue'[k.loop], Est(c)) /\ NotIn(queue'[k.loop], Des(c))
      BY <2>2, <2>3, <2>5, <3>1, <3>2 DEF Open, Referenced
    <3>5. Placed(c, k, queue')
      BY <2>2, <2>3, <2>5, <2>10, <3>1 DEF Stage, Placed
    <3>6. Over(c, n, 0, "gone", queue')
      BY <3>3, <3>4 DEF Over
    <3>7. Placed(c, n, queue')
      BY <3>3, <3>5 DEF Placed
    <3> QED BY <2>5, <2>10, <3>3, <3>6, <3>7 DEF Stage, n
  <2>11. CASE c <= made /\ m = c /\ k.loop # 0
    <3>1. n = k /\ EndedAt(c, k.loop)
      BY <2>5, <2>6, <2>7, <2>11
    <3>2. NotIn(queue[k.loop], Des(c))
      BY <2>5, <2>11 DEF Stage, Fresh, Open, Leaving, Erasing, Over, Referenced
    <3>3. OnceIn(queue'[k.loop], Des(c)) /\ Before(queue'[k.loop], Est(c), Des(c))
      BY <2>4, <2>5, <3>1, <3>2
    <3>4. Placed(c, k, queue')
      BY <2>2, <2>3, <2>5, <2>7, <2>11 DEF Stage, Placed
    <3>5. /\ Fresh(c, k, m, "up", queue) => Fresh(c, k, 0, "gone", queue')
          /\ Open(c, k, m, "up", queue) => Open(c, k, 0, "gone", queue')
          /\ Leaving(c, k, m, "up", queue) => Erasing(c, k, 0, "gone", queue')
      BY <1>5, <2>2, <2>5, <3>3 DEF Fresh, Open, Leaving, Erasing, Referenced
    <3>6. ~Erasing(c, k, m, "up", queue) /\ ~Over(c, k, m, "up", queue)
      BY <2>5, <2>11 DEF Erasing, Over
    <3> QED BY <2>5, <2>11, <3>1, <3>4, <3>5, <3>6 DEF Stage, n
  <2> QED BY <2>8, <2>9, <2>10, <2>11
<1>18. StagesOK'
  <2> SUFFICES ASSUME NEW c \in ConnIds
               PROVE  IF c <= made'
                      THEN Stage(c, conn'[c], connections'[c], server', queue')
                      ELSE Unmade(c, conn'[c], connections'[c], queue')
    BY DEF StagesOK
  <2>1. made' = made /\ connections'[c] = 0 /\ server' = "gone"
    BY <1>1, <1>4
  <2> QED BY <1>17, <2>1
<1>19. EndsOnce'
  <2> SUFFICES ASSUME NEW c \in 1 .. made'
               PROVE  /\ conn'[c].ups <= 1 /\ conn'[c].downs <= conn'[c].ups
                      /\ conn'[c].ends <= conn'[c].downs
                      /\ conn'[c].polled => conn'[c].ends = 0
    BY DEF EndsOnce
  <2>1. c \in ConnIds /\ c <= made'
    BY <1>3, ServerAssumption DEF AcceptorOK, ConnIds
  <2>2. Stage(c, conn'[c], connections'[c], server', queue')
    BY <1>18, <2>1 DEF StagesOK
  <2> QED BY <2>2, StageCounts
<1> QED BY <1>2, <1>3, <1>13, <1>14, <1>18, <1>19 DEF IInv

-----------------------------------------------------------------------------
(* For every number of clients, loops and descriptors.                      *)
THEOREM Invariant == ServerSpec => []IInv
<1>1. IInv /\ [ServerNext]_serverVars => IInv'
  <2> SUFFICES ASSUME IInv, [ServerNext]_serverVars PROVE IInv'
    OBVIOUS
  <2>1. CASE SetServerThreads \/ StartServer \/ DestroyServer
    BY <2>1, SetServerThreadsOK, StartServerOK, DestroyServerOK
  <2>2. CASE HandleAccept
    BY <2>2, AcceptClientOK, RefusesOK DEF HandleAccept
  <2>3. ASSUME NEW c \in ConnIds, HandleClose(c) PROVE IInv'
    BY <2>3, HandleCloseOK
  <2>4. ASSUME NEW l \in LoopNumbers, RunFunctor(l) \/ JoinLoop(l) PROVE IInv'
    BY <2>4, RunFunctorOK, JoinLoopOK
  <2>5. CASE ClientArrives \/ ClientGivesUp \/ OthersOpen \/ OthersClose
    BY <2>5, OutsideOK
  <2>6. CASE UNCHANGED serverVars
    <3>1. TypeOK'
      BY <2>6 DEF IInv, TypeOK, serverVars, vars
    <3>2. AcceptorOK'
      BY <2>6 DEF IInv, AcceptorOK, serverVars, acceptorVars, mapVars
    <3>3. ConnsOK'
      BY <2>6 DEF IInv, ConnsOK, serverVars, mapVars
    <3>4. UNCHANGED <<made, connections, conn, queue, server, used>>
      BY <2>6 DEF serverVars, mapVars
    <3> QED BY <3>1, <3>2, <3>3, <3>4, NoneMoves
  <2> QED BY <2>1, <2>2, <2>3, <2>4, <2>5, <2>6 DEF ServerNext
<1> QED BY InitOK, <1>1, PTL DEF ServerSpec

(* ConnectEstablished runs on each connection first and once,               *)
(* ConnectDestroyed last and once, whoever ends it and in whichever order   *)
(* the loops come to their functors (tcp_server.cpp:58-121).               *)
THEOREM ConnectionsEndOnce == ServerSpec => []EndsOnce
<1>1. IInv => EndsOnce
  BY DEF IInv
<1> QED BY Invariant, <1>1, PTL

(* A connection that is open or in the poller is held by connections_ or by *)
(* a functor, and found under its name while the server lives.             *)
THEOREM OpenIsHeld == ServerSpec => []HeldWhileOpen
<1>1. IInv => ServerTypeOK
  <2> SUFFICES ASSUME IInv PROVE ServerTypeOK
    OBVIOUS
  <2>1. /\ acceptorFds \in 0..MaxFds /\ nextConnId \in 1..MaxConns + 1
    BY ServerAssumption DEF IInv, AcceptorOK
  <2>2. ASSUME NEW l \in LoopNumbers PROVE Range(queue[l]) \subseteq Functors
    <3>1. queue[l] \in Seq(Functors)
      BY DEF IInv, ConnsOK, Queues
    <3> QED BY <3>1 DEF Range
  <2> QED BY <2>1, <2>2 DEF IInv, AcceptorOK, ConnsOK, Records, ServerTypeOK
<1>2. ASSUME IInv, used = "none", NEW c \in 1..made
      PROVE  /\ c \notin Live => conn[c].state = "kDisconnected" /\ ~conn[c].polled
             /\ server = "up" /\ conn[c].state # "kDisconnected" =>
                  connections[conn[c].name] = c
  <2> DEFINE k == conn[c]
  <2>1. c \in ConnIds /\ c <= made
    BY <1>2, ServerAssumption DEF IInv, AcceptorOK, ConnIds
  <2>2. /\ Stage(c, k, connections[c], server, queue) /\ k.loop \in LoopNumbers
        /\ \A l \in LoopNumbers : queue[l] \in Seq(Functors)
    BY <1>2, <2>1, AtStage DEF IInv, ConnsOK, Queues
  <2>3. connections[c] = c => c \in Live
    BY <2>1 DEF Live, Held
  <2>4. ASSUME NEW l \in LoopNumbers, OnceIn(queue[l], Des(c)) PROVE c \in Live
    <3>1. PICK i \in 1 .. Len(queue[l]) : queue[l][i] = Des(c)
      BY <2>4 DEF OnceIn
    <3>2. Des(c) \in Range(queue[l]) /\ Des(c).conn = c
      BY <2>2, <3>1 DEF Range, Des, Functor
    <3> QED BY <3>2 DEF Live, Held
  <2> HIDE DEF k
  <2>5. c \notin Live => Over(c, k, connections[c], server, queue)
    BY <2>2, <2>3, <2>4 DEF Stage, Fresh, Open, Leaving, Erasing, Referenced
  <2>6. server = "up" /\ k.state # "kDisconnected" => connections[c] = c
    BY <2>2 DEF Stage, Fresh, Open, Leaving, Erasing, Over, Referenced
  <2>7. k.name = c
    BY <2>2 DEF Stage
  <2> QED BY <2>5, <2>6, <2>7 DEF Over, k
<1>3. IInv => HeldWhileOpen
  BY <1>1, <1>2 DEF HeldWhileOpen
<1> QED BY Invariant, <1>3, PTL
=============================================================================
