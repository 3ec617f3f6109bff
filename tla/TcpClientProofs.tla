------------------------- MODULE TcpClientProofs -------------------------
(***************************************************************************)
(* The sockets, the assertions of the connector, and stop: proofs about    *)
(* TcpClient and its Connector.                                            *)
(***************************************************************************)
EXTENDS TcpClient, FiniteSetTheorems, TLAPS

-----------------------------------------------------------------------------
(* Counting in a sequence.                                                  *)

Unit(b) == IF b THEN 1 ELSE 0

LEMMA CountType ==
  ASSUME NEW S, NEW s \in Seq(S), NEW x
  PROVE  /\ IsFiniteSet({i \in DOMAIN s : s[i] = x})
         /\ Count(x, s) \in Nat
         /\ Count(x, s) = 0 <=> x \notin Range(s)
<1> DEFINE I == {i \in DOMAIN s : s[i] = x}
<1>1. DOMAIN s = 1 .. Len(s) /\ Len(s) \in Nat
  OBVIOUS
<1>2. IsFiniteSet(1 .. Len(s))
  BY <1>1, FS_Interval
<1>3. IsFiniteSet(I)
  BY <1>1, <1>2, FS_Subset
<1>4. Cardinality(I) \in Nat /\ (Cardinality(I) = 0 <=> I = {})
  BY <1>3, FS_CardinalityType, FS_EmptySet
<1>5. I = {} <=> x \notin Range(s)
  BY DEF Range
<1> QED BY <1>3, <1>4, <1>5 DEF Count

LEMMA CountEmpty == ASSUME NEW x PROVE Count(x, <<>>) = 0 /\ Range(<<>>) = {}
<1>1. {i \in DOMAIN <<>> : <<>>[i] = x} = {} /\ Range(<<>>) = {}
  BY DEF Range
<1> QED BY <1>1, FS_EmptySet DEF Count

LEMMA CountAppend ==
  ASSUME NEW S, NEW s \in Seq(S), NEW e \in S, NEW x
  PROVE  /\ Count(x, Append(s, e)) = Count(x, s) + Unit(e = x)
         /\ Range(Append(s, e)) = Range(s) \cup {e}
<1> DEFINE l == Append(s, e)
           I == {i \in DOMAIN s : s[i] = x}
           J == {i \in DOMAIN l : l[i] = x}
           n == Len(s) + 1
<1>1. /\ DOMAIN s = 1 .. Len(s) /\ Len(s) \in Nat
      /\ DOMAIN l = 1 .. n /\ l[n] = e /\ \A i \in 1 .. Len(s) : l[i] = s[i]
  OBVIOUS
<1> HIDE DEF l
<1>2. J = IF e = x THEN I \cup {n} ELSE I
  BY <1>1
<1>3. n \notin I
  BY <1>1
<1>4. IsFiniteSet(I) /\ Cardinality(I) \in Nat
  BY CountType, FS_CardinalityType
<1> HIDE DEF I, J, n
<1>5. Cardinality(J) = Cardinality(I) + Unit(e = x)
  <2>1. Cardinality(I \cup {n}) = Cardinality(I) + 1
    BY <1>3, <1>4, FS_AddElement
  <2>2. CASE e = x
    BY <1>2, <2>1, <2>2 DEF Unit
  <2>3. CASE e # x
    BY <1>2, <1>4, <2>3 DEF Unit
  <2> QED BY <2>2, <2>3
<1>6. Range(l) = Range(s) \cup {e}
  BY <1>1 DEF Range, n
<1> QED BY <1>5, <1>6 DEF Count, I, J, l

LEMMA CountTail ==
  ASSUME NEW S, NEW s \in Seq(S), s # <<>>, NEW x
  PROVE  /\ Count(x, s) = Count(x, Tail(s)) + Unit(Head(s) = x)
         /\ Range(s) = Range(Tail(s)) \cup {Head(s)}
         /\ Head(s) \in S /\ Tail(s) \in Seq(S)
<1> DEFINE l == Tail(s)
           I == {i \in DOMAIN s : s[i] = x}
           J == {i \in DOMAIN l : l[i] = x}
           K == I \ {1}
           Up == [i \in J |-> i + 1]
<1>1. /\ DOMAIN s = 1 .. Len(s) /\ Len(s) \in Nat /\ 1 \in 1 .. Len(s)
      /\ l \in Seq(S) /\ DOMAIN l = 1 .. Len(s) - 1
      /\ \A i \in 1 .. Len(s) - 1 : l[i] = s[i + 1]
      /\ Head(s) = s[1] /\ Head(s) \in S
  OBVIOUS
<1>2. IsFiniteSet(I) /\ IsFiniteSet(J)
  BY <1>1, CountType
<1>3. Up \in Bijection(J, K)
  <2> HIDE DEF l
  <2>1. \A i \in J : i + 1 \in K
    BY <1>1
  <2>2. \A k \in K : k - 1 \in J /\ k - 1 + 1 = k
    BY <1>1
  <2>3. \A i, k \in J : i + 1 = k + 1 => i = k
    BY <1>1
  <2> HIDE DEF J, K
  <2>4. Up \in [J -> K] /\ (\A i \in J : Up[i] = i + 1)
    BY <2>1
  <2> HIDE DEF Up
  <2>5. Up \in Injection(J, K)
    BY <2>3, <2>4 DEF Injection, IsInjective
  <2>6. Up \in Surjection(J, K)
    BY <2>2, <2>4 DEF Surjection
  <2> QED BY <2>5, <2>6 DEF Bijection
<1>4. Cardinality(J) = Cardinality(K)
  BY <1>2, <1>3, FS_Bijection DEF ExistsBijection
<1>5. Cardinality(I) = Cardinality(K) + Unit(1 \in I) /\ Cardinality(I) \in Nat
  <2> HIDE DEF I
  <2>1. Cardinality(I) \in Nat
    BY <1>2, FS_CardinalityType
  <2>2. CASE 1 \in I
    <3>1. Cardinality(K) = Cardinality(I) - 1
      BY <1>2, <2>2, FS_RemoveElement
    <3> HIDE DEF K
    <3> QED BY <2>1, <2>2, <3>1 DEF Unit
  <2>3. CASE 1 \notin I
    <3>1. K = I
      BY <2>3
    <3> HIDE DEF K
    <3> QED BY <2>1, <2>3, <3>1 DEF Unit
  <2> QED BY <2>2, <2>3
<1>6. 1 \in I <=> Head(s) = x
  BY <1>1
<1>7. Range(s) = Range(l) \cup {Head(s)}
  <2> HIDE DEF l
  <2>1. \A i \in 1 .. Len(s) : i = 1 \/ (i - 1 \in 1 .. Len(s) - 1 /\ i - 1 + 1 = i)
    BY <1>1
  <2>2. \A i \in 1 .. Len(s) - 1 : i + 1 \in 1 .. Len(s)
    BY <1>1
  <2>3. ASSUME NEW i \in 1 .. Len(s) PROVE s[i] \in Range(l) \cup {Head(s)}
    <3>1. CASE i = 1
      BY <1>1, <3>1
    <3>2. CASE i # 1
      <4>1. i - 1 \in DOMAIN l /\ l[i - 1] = s[i]
        BY <1>1, <2>1, <3>2
      <4> QED BY <4>1 DEF Range
    <3> QED BY <3>1, <3>2
  <2>4. \A i \in 1 .. Len(s) - 1 : l[i] \in Range(s)
    BY <1>1, <2>2 DEF Range
  <2>5. Head(s) \in Range(s)
    BY <1>1 DEF Range
  <2>6. Range(s) = {s[i] : i \in 1 .. Len(s)} /\ Range(l) = {l[i] : i \in 1 .. Len(s) - 1}
    BY <1>1 DEF Range
  <2>7. Range(s) \subseteq Range(l) \cup {Head(s)}
    BY <2>3, <2>6
  <2>8. Range(l) \subseteq Range(s)
    BY <2>4, <2>6
  <2> QED BY <2>5, <2>7, <2>8
<1> HIDE DEF I, J, K
<1> QED BY <1>1, <1>4, <1>5, <1>6, <1>7 DEF Count, I, J, Unit

-----------------------------------------------------------------------------
(* The inductive invariant.                                                 *)

Waiting(f) == Count(f, functors) + Count(f, batch)
Queued(f) == f \in Range(functors) \/ f \in Range(batch)
OneConnect == Count("connect", made) <= 1

FlagsOK ==
  /\ connect \in BOOLEAN /\ conn \in BOOLEAN /\ wanted \in BOOLEAN
  /\ answered \in BOOLEAN /\ overridden \in BOOLEAN

AttemptOK ==
  /\ state \in {"kDisconnected", "kConnecting", "kConnected"}
  /\ channel \in {"none", "polled", "removed"}
  /\ delay \in InitDelay..MaxDelay
  /\ socket \in {"none", "pending"} \cup Answers
  /\ fds \in Nat /\ timers \in Nat

PlacesOK ==
  /\ active \subseteq {"channel", "timer", "closed"}
  /\ loop \in {"poll", "events", "restart", "functors"}
  /\ client \in {"live", "gone"}
  /\ failed \in {"none", "assert", "null", "freed"}

QueuesOK ==
  /\ functors \in Seq(Functors) /\ batch \in Seq(Functors)
  /\ made \in Seq(UserCalls) /\ Len(made) <= MaxCalls
  /\ call \in {Idle} \cup (UserCalls \X {"flag", "queue"})

(* What poll reported is still so when it is handled, and a connection is   *)
(* that of an attempt that is over.                                        *)
PhasesOK ==
  /\ loop # "functors" => batch = <<>>
  /\ loop \in {"poll", "functors"} => active = {}
  /\ "timer" \in active => timers > 0
  /\ "closed" \in active => conn
  /\ "channel" \in active => channel = "polled" /\ socket # "pending"
  /\ channel = "polled" => state = "kConnecting"
  /\ conn => state = "kConnected"
  /\ loop = "restart" => state = "kConnected" /\ ~conn

Accounted == fds = Unit(state = "kConnecting") + Unit(conn) + Waiting("destroyed")

(* A call of connect() is in one place: on its way to the loop, a timer, an *)
(* attempt, or the connection that came of it.                             *)
Bounded ==
  Unit(state # "kDisconnected") + Unit(call[1] = "connect") + timers
    + Waiting("start") <= Count("connect", made)

(* A channel that was removed is reset before anybody needs the place; that *)
(* of a connection in the very iteration that made it.                     *)
ChannelOK ==
  /\ channel = "removed" => Queued("reset")
  /\ state = "kConnected" /\ channel = "removed" =>
       \/ loop = "events" /\ "closed" \notin active
       \/ loop = "functors" /\ "reset" \in Range(batch)
  /\ OneConnect /\ (call[1] = "connect" \/ Queued("start") \/ "timer" \in active) =>
       channel = "none"
  /\ Count("connect", made) = 0 => channel = "none"

(* After stop() connect_ is off, and an attempt has its StopInLoop before   *)
(* it.                                                                     *)
StopOK ==
  LastCall = "stop" /\ ~overridden =>
    /\ ~wanted
    /\ call # <<"stop", "flag">> => ~connect
    /\ call = Idle /\ state = "kConnecting" => Queued("stop")

(* The same after the destructor, unless it finds a connection.             *)
DestroyOK ==
  LastCall = "destroy" =>
    /\ client = "gone"
    /\ OneConnect =>
         /\ call = <<"destroy", "queue">> => ~connect
         /\ call = Idle => ~connect \/ state = "kConnected"
         /\ call = Idle /\ state = "kConnecting" => Queued("stop")

CallsOK == call # Idle => LastCall = call[1]

Types == FlagsOK /\ AttemptOK /\ PlacesOK /\ QueuesOK

WhileRunning ==
  /\ PhasesOK /\ Accounted /\ Bounded /\ ChannelOK
  /\ StopOK /\ DestroyOK /\ CallsOK

ClientInv ==
  /\ Types
  /\ Running => WhileRunning
  /\ OneConnect => failed # "assert"

LEMMA InitClientInv == Init => ClientInv
<1> SUFFICES ASSUME Init PROVE ClientInv
  OBVIOUS
<1>1. FlagsOK
  BY Zenon DEF Init, FlagsOK
<1>2. AttemptOK /\ PlacesOK
  BY TcpClientAssumption DEF Init, AttemptOK, PlacesOK
<1>3. QueuesOK
  BY TcpClientAssumption DEF Init, QueuesOK
<1>4. \A f : Waiting(f) = 0 /\ ~Queued(f)
  BY CountEmpty DEF Init, Waiting, Queued
<1>5. PhasesOK /\ Accounted /\ ChannelOK
  BY <1>4, CountEmpty DEF Init, PhasesOK, Accounted, ChannelOK, Unit, Idle
<1>6. Bounded
  BY <1>4, CountEmpty DEF Init, Bounded, Unit, Idle
<1>7. StopOK /\ DestroyOK /\ CallsOK
  BY DEF Init, StopOK, DestroyOK, CallsOK, LastCall
<1>8. failed # "assert"
  BY DEF Init
<1> QED BY <1>1, <1>2, <1>3, <1>5, <1>6, <1>7, <1>8 DEF ClientInv, Types, WhileRunning

-----------------------------------------------------------------------------
(* The queue of functors.                                                   *)

LEMMA Appending ==
  ASSUME QueuesOK, NEW f \in Functors, functors' = Append(functors, f), batch' = batch
  PROVE  /\ \A x : Waiting(x)' = Waiting(x) + Unit(f = x)
         /\ \A x : Queued(x)' <=> Queued(x) \/ f = x
         /\ functors' \in Seq(Functors)
<1>1. ASSUME NEW x
      PROVE  /\ Count(x, functors') = Count(x, functors) + Unit(f = x)
             /\ Range(functors') = Range(functors) \cup {f}
  <2>1. functors \in Seq(Functors)
    BY DEF QueuesOK
  <2>2. /\ Count(x, Append(functors, f)) = Count(x, functors) + Unit(f = x)
        /\ Range(Append(functors, f)) = Range(functors) \cup {f}
    BY <2>1, CountAppend
  <2> QED BY <2>2
<1>2. \A x : Count(x, functors) \in Nat /\ Count(x, batch) \in Nat
  BY CountType DEF QueuesOK
<1>3. functors' \in Seq(Functors)
  BY DEF QueuesOK
<1>4. ASSUME NEW x PROVE Waiting(x)' = Waiting(x) + Unit(f = x)
  <2>1. Unit(f = x) \in Nat
    BY DEF Unit
  <2>2. Count(x, functors') = Count(x, functors) + Unit(f = x) /\ Count(x, batch') = Count(x, batch)
    BY <1>1
  <2> QED BY <1>2, <2>1, <2>2 DEF Waiting
<1>5. ASSUME NEW x PROVE Queued(x)' <=> Queued(x) \/ f = x
  <2>1. Range(functors') = Range(functors) \cup {f}
    BY <1>1
  <2> QED BY <2>1 DEF Queued
<1> QED BY <1>3, <1>4, <1>5

LEMMA Taking ==
  ASSUME QueuesOK, NEW f, batch # <<>>, Head(batch) = f, batch' = Tail(batch),
         UNCHANGED functors
  PROVE  /\ \A x : Waiting(x) = Waiting(x)' + Unit(f = x)
         /\ \A x : Waiting(x)' \in Nat
         /\ \A x : Queued(x) <=> Queued(x)' \/ f = x
         /\ f \in Functors /\ batch' \in Seq(Functors)
<1>1. ASSUME NEW x
      PROVE  /\ Count(x, batch) = Count(x, batch') + Unit(f = x)
             /\ Range(batch) = Range(batch') \cup {f}
  <2>1. batch \in Seq(Functors)
    BY DEF QueuesOK
  <2>2. /\ Count(x, batch) = Count(x, Tail(batch)) + Unit(Head(batch) = x)
        /\ Range(batch) = Range(Tail(batch)) \cup {Head(batch)}
    BY <2>1, CountTail
  <2> QED BY <2>2
<1>2. batch' \in Seq(Functors) /\ f \in Functors
  BY CountTail DEF QueuesOK
<1>3. \A x : Count(x, functors) \in Nat /\ Count(x, batch') \in Nat
  BY <1>2, CountType DEF QueuesOK
<1>4. ASSUME NEW x PROVE Waiting(x) = Waiting(x)' + Unit(f = x) /\ Waiting(x)' \in Nat
  <2>1. Unit(f = x) \in Nat
    BY DEF Unit
  <2>2. Count(x, batch) = Count(x, batch') + Unit(f = x) /\ Count(x, functors') = Count(x, functors)
    BY <1>1
  <2> QED BY <1>3, <2>1, <2>2 DEF Waiting
<1>5. ASSUME NEW x PROVE Queued(x) <=> Queued(x)' \/ f = x
  <2>1. Range(batch) = Range(batch') \cup {f}
    BY <1>1
  <2> QED BY <2>1 DEF Queued
<1> QED BY <1>2, <1>4, <1>5

LEMMA TakingAll ==
  ASSUME QueuesOK, batch = <<>>, batch' = functors, functors' = <<>>
  PROVE  /\ \A x : Waiting(x)' = Waiting(x)
         /\ \A x : Queued(x)' <=> Queued(x)
<1>1. \A x : Count(x, <<>>) = 0 /\ Range(<<>>) = {}
  BY CountEmpty
<1>2. \A x : Count(x, functors) \in Nat
  BY CountType DEF QueuesOK
<1> QED BY <1>1, <1>2 DEF Waiting, Queued

LEMMA SameQueues ==
  ASSUME UNCHANGED queues
  PROVE  /\ \A x : Waiting(x)' = Waiting(x)
         /\ \A x : Queued(x)' <=> Queued(x)
BY DEF queues, Waiting, Queued

LEMMA WaitingType ==
  ASSUME QueuesOK, NEW x
  PROVE  Waiting(x) \in Nat /\ (Queued(x) <=> Waiting(x) > 0)
<1>1. /\ Count(x, functors) \in Nat /\ Count(x, batch) \in Nat
      /\ Count(x, functors) = 0 <=> x \notin Range(functors)
      /\ Count(x, batch) = 0 <=> x \notin Range(batch)
  BY CountType DEF QueuesOK
<1> QED BY <1>1 DEF Waiting, Queued

-----------------------------------------------------------------------------
(* Types.                                                                   *)

LEMMA NextFlags == Types /\ [Next]_vars => FlagsOK'
<1> SUFFICES ASSUME Types, [Next]_vars PROVE FlagsOK'
  OBVIOUS
<1> USE DEF Types, FlagsOK, attempt, queues, userVars, eventRest, functorRest, loopSide
<1>1. CASE Poll \/ TakeFunctors \/ BatchDone
  BY <1>1, Zenon DEF Poll, TakeFunctors, BatchDone
<1>2. CASE HandleError \/ HandleWrite \/ HandleSelfConnect
  BY <1>2, Zenon DEF HandleError, HandleWrite, HandleSelfConnect, RetryLater
<1>3. StartInLoop => connect' \in BOOLEAN /\ answered' \in BOOLEAN
  BY Zenon DEF StartInLoop, Fail, TryConnect, ConnectFails, Connecting
<1>4. CASE HandleTimer
  BY <1>3, <1>4, Zenon DEF HandleTimer
<1>5. CASE RemoveConnection
  BY <1>5, Zenon DEF RemoveConnection
<1>6. CASE Restart
  BY <1>6, Zenon DEF Restart, Fail, TryConnect, ConnectFails, Connecting
<1>7. CASE RunStart
  BY <1>3, <1>7, Zenon DEF RunStart
<1>8. CASE RunStop
  <2>1. UNCHANGED <<connect, answered, conn, wanted, overridden>>
    <3>1. UNCHANGED functorRest
      BY <1>8 DEF RunStop
    <3>2. UNCHANGED <<connect, answered>>
      BY <1>8 DEF RunStop, Fail, RetryLater
    <3> QED BY <3>1, <3>2, Zenon
  <2> QED BY <2>1, Zenon
<1>9. CASE RunReset \/ RunDestroyed
  BY <1>9, Zenon DEF RunReset, RunDestroyed
<1>10. ASSUME NEW c \in UserCalls, ConnectOrStop(c) PROVE FlagsOK'
  BY <1>10, Zenon DEF ConnectOrStop, Begin
<1>11. CASE Disconnect \/ Destroy
  BY <1>11, Zenon DEF Disconnect, Destroy, Begin
<1>12. CASE SetFlag \/ QueueCall
  BY <1>12, Zenon DEF SetFlag, QueueCall
<1>13. ASSUME NEW a \in Answers, Answer(a) PROVE FlagsOK'
  BY <1>13, Zenon DEF Answer
<1>14. CASE UNCHANGED vars
  BY <1>14, Zenon DEF vars
<1> HIDE DEF Types, FlagsOK
<1> QED BY <1>1, <1>2, <1>4, <1>5, <1>6, <1>7, <1>8, <1>9, <1>10, <1>11, <1>12, <1>13, <1>14, Zenon
        DEF Next, LoopThread, EventStep, FunctorStep, UserThread

(* Nothing moves once the model has stopped.                                *)
LEMMA StepsRun == [Next]_vars /\ ~Running => UNCHANGED vars
<1> SUFFICES ASSUME [Next]_vars, ~Running, Next PROVE FALSE
  BY Zenon
<1>1. CASE Poll \/ TakeFunctors \/ BatchDone \/ Restart
  BY <1>1, Zenon DEF Poll, TakeFunctors, BatchDone, Restart
<1>2. CASE EventStep
  BY <1>2, Zenon DEF EventStep, HandleError, HandleWrite, HandleSelfConnect, HandleTimer,
                     RemoveConnection, Event
<1>3. CASE FunctorStep
  BY <1>3, Zenon DEF FunctorStep, RunStart, RunStop, RunReset, RunDestroyed, Functor
<1>4. CASE UserThread
  BY <1>4, Zenon DEF UserThread, ConnectOrStop, Disconnect, Destroy, SetFlag, QueueCall, Begin
<1>5. ASSUME NEW a \in Answers, Answer(a) PROVE FALSE
  BY <1>5, Zenon DEF Answer
<1> QED BY <1>1, <1>2, <1>3, <1>4, <1>5, Zenon DEF Next, LoopThread

LEMMA NextPlaces == Types /\ [Next]_vars => PlacesOK'
<1> SUFFICES ASSUME Types, [Next]_vars PROVE PlacesOK'
  OBVIOUS
<1>0. PlacesOK
  BY DEF Types
<1> USE DEF PlacesOK, attempt, queues, userVars, eventRest, functorRest, loopSide
<1>1. CASE Poll
  BY <1>0, <1>1 DEF Poll
<1>2. CASE TakeFunctors \/ BatchDone
  BY <1>0, <1>2 DEF TakeFunctors, BatchDone
<1>3. CASE HandleError
  BY <1>0, <1>3 DEF HandleError, RetryLater, Event
<1>4. CASE HandleWrite \/ HandleSelfConnect
  BY <1>0, <1>4 DEF HandleWrite, HandleSelfConnect, CallsBack, Event
<1>5. StartInLoop => failed' \in {"none", "assert", "null", "freed"}
  BY <1>0 DEF StartInLoop, Fail, TryConnect, ConnectFails, Connecting, CallsBack
<1>6. CASE HandleTimer
  BY <1>0, <1>5, <1>6 DEF HandleTimer, Event
<1>7. CASE RemoveConnection
  BY <1>0, <1>7 DEF RemoveConnection, Event
<1>8. CASE Restart
  BY <1>0, <1>8 DEF Restart, Fail, TryConnect, ConnectFails, Connecting, CallsBack
<1>9. CASE RunStart
  BY <1>0, <1>5, <1>9 DEF RunStart, Functor
<1>10. CASE RunStop
  BY <1>0, <1>10 DEF RunStop, Functor, Fail, RetryLater
<1>11. CASE RunReset \/ RunDestroyed
  BY <1>0, <1>11 DEF RunReset, RunDestroyed, Functor
<1>12. ASSUME NEW c \in UserCalls, ConnectOrStop(c) PROVE PlacesOK'
  BY <1>0, <1>12 DEF ConnectOrStop, Begin
<1>13. CASE Disconnect \/ Destroy
  BY <1>0, <1>13 DEF Disconnect, Destroy, Begin
<1>14. CASE SetFlag \/ QueueCall
  BY <1>0, <1>14 DEF SetFlag, QueueCall
<1>15. ASSUME NEW a \in Answers, Answer(a) PROVE PlacesOK'
  BY <1>0, <1>15 DEF Answer
<1>16. CASE UNCHANGED vars
  <2>1. UNCHANGED <<active, loop, client, failed>>
    BY <1>16, Zenon DEF vars
  <2> QED BY <1>0, <2>1
<1> HIDE DEF PlacesOK
<1> QED BY <1>1, <1>2, <1>3, <1>4, <1>6, <1>7, <1>8, <1>9, <1>10, <1>11, <1>12, <1>13, <1>14,
           <1>15, <1>16, Zenon
        DEF Next, LoopThread, EventStep, FunctorStep, UserThread

LEMMA NextQueues == Types /\ [Next]_vars => QueuesOK'
<1> SUFFICES ASSUME Types, [Next]_vars PROVE QueuesOK'
  OBVIOUS
<1>0. QueuesOK
  BY DEF Types
<1>1. ASSUME UNCHANGED <<functors, batch, made, call>> PROVE QueuesOK'
  BY <1>0, <1>1 DEF QueuesOK
<1>2. ASSUME NEW f \in Functors, functors' = Append(functors, f), UNCHANGED <<batch, made, call>>
      PROVE  QueuesOK'
  BY <1>0, <1>2 DEF QueuesOK
<1>3. ASSUME NEW f, Functor(f), UNCHANGED <<functors, made, call>> PROVE QueuesOK'
  BY <1>0, <1>3, Taking DEF QueuesOK, Functor
<1> USE DEF attempt, queues, userVars, eventRest, functorRest, loopSide
<1>4. CASE Poll \/ BatchDone
  BY <1>1, <1>4, Zenon DEF Poll, BatchDone
<1>5. CASE TakeFunctors
  BY <1>0, <1>5 DEF TakeFunctors, QueuesOK
<1>6. CASE HandleError \/ HandleWrite \/ HandleSelfConnect
  BY <1>2, <1>6 DEF HandleError, HandleWrite, HandleSelfConnect, RetryLater, QueueReset, Functors
<1>7. CASE HandleTimer \/ Restart
  BY <1>1, <1>7, Zenon DEF HandleTimer, Restart
<1>8. CASE RemoveConnection
  BY <1>2, <1>8 DEF RemoveConnection, Functors
<1>9. CASE RunStart
  BY <1>3, <1>9, Zenon DEF RunStart
<1>10. CASE RunStop
  <2>1. Functor("stop") /\ UNCHANGED <<made, call>>
    BY <1>10, Zenon DEF RunStop
  <2>2. UNCHANGED functors \/ functors' = Append(functors, "reset")
    BY <1>10 DEF RunStop, RetryLater, QueueReset
  <2>3. CASE UNCHANGED functors
    BY <1>3, <2>1, <2>3, Zenon
  <2>4. CASE functors' = Append(functors, "reset")
    BY <1>0, <2>1, <2>4, CountTail DEF QueuesOK, Functor, Functors
  <2> QED BY <2>2, <2>3, <2>4
<1>11. CASE RunReset \/ RunDestroyed
  BY <1>3, <1>11, Zenon DEF RunReset, RunDestroyed
<1>12. ASSUME NEW c \in UserCalls, Begin(c), UNCHANGED batch,
              call' = call \/ (\E p \in {"flag", "queue"} : call' = <<c, p>>)
       PROVE  QueuesOK'
  <2>1. /\ made' = Append(made, c) /\ Len(made) < MaxCalls /\ UNCHANGED functors
        /\ made \in Seq(UserCalls) /\ Len(made) \in Nat
    BY <1>0, <1>12 DEF Begin, QueuesOK
  <2>2. made' \in Seq(UserCalls) /\ Len(made') <= MaxCalls
    BY <2>1, TcpClientAssumption
  <2>3. call' \in {Idle} \cup (UserCalls \X {"flag", "queue"})
    BY <1>0, <1>12 DEF QueuesOK
  <2> QED BY <1>0, <1>12, <2>1, <2>2, <2>3 DEF QueuesOK
<1>13. ASSUME NEW c \in UserCalls, ConnectOrStop(c) PROVE QueuesOK'
  BY <1>12, <1>13, Zenon DEF ConnectOrStop, Begin
<1>14. CASE Disconnect \/ Destroy
  <2>1. "disconnect" \in UserCalls /\ "destroy" \in UserCalls
    BY DEF UserCalls
  <2> QED BY <1>12, <1>14, <2>1, Zenon DEF Disconnect, Destroy, Begin
<1>15. CASE SetFlag
  BY <1>0, <1>15 DEF SetFlag, QueuesOK, Idle
<1>16. CASE QueueCall
  BY <1>0, <1>16 DEF QueueCall, QueuesOK, Functors
<1>17. ASSUME NEW a \in Answers, Answer(a) PROVE QueuesOK'
  BY <1>1, <1>17, Zenon DEF Answer
<1>18. CASE UNCHANGED vars
  BY <1>1, <1>18, Zenon DEF vars
<1> QED BY <1>4, <1>5, <1>6, <1>7, <1>8, <1>9, <1>10, <1>11, <1>13, <1>14,
           <1>15, <1>16, <1>17, <1>18, Zenon
        DEF Next, LoopThread, EventStep, FunctorStep, UserThread

LEMMA NextAttempt == Types /\ (Running => WhileRunning) /\ [Next]_vars => AttemptOK'
<1> SUFFICES ASSUME Types, Running => WhileRunning, [Next]_vars PROVE AttemptOK'
  OBVIOUS
<1>0. /\ AttemptOK
      /\ Running => fds = Unit(state = "kConnecting") + Unit(conn) + Waiting("destroyed")
      /\ Running => PhasesOK
      /\ Unit(conn) \in Nat /\ Waiting("destroyed") \in Nat
  BY WaitingType DEF Types, WhileRunning, Accounted, Unit
<1>1. CASE UNCHANGED <<state, channel, delay, socket, fds, timers>>
  BY <1>0, <1>1 DEF AttemptOK
<1>2. Running /\ state = "kConnecting" => fds - 1 \in Nat
  BY <1>0 DEF AttemptOK, Unit
<1>3. NextDelay \in InitDelay .. MaxDelay
  BY <1>0, TcpClientAssumption DEF NextDelay, AttemptOK
<1>4. TryConnect => /\ state' \in {"kDisconnected", "kConnecting", "kConnected"}
                    /\ channel' \in {"none", "polled", "removed"}
                    /\ socket' \in {"none", "pending"} \cup Answers /\ fds' \in Nat
  BY <1>0 DEF TryConnect, ConnectFails, Connecting, Watched, AttemptOK
<1>5. RetryLater /\ Running /\ state = "kConnecting" => AttemptOK'
  BY <1>0, <1>2, <1>3 DEF RetryLater, AttemptOK, Closed
<1>6. StartInLoop => /\ state' \in {"kDisconnected", "kConnecting", "kConnected"}
                     /\ channel' \in {"none", "polled", "removed"}
                     /\ socket' \in {"none", "pending"} \cup Answers /\ fds' \in Nat
                     /\ delay' = delay
  BY <1>0, <1>4 DEF StartInLoop, Fail, attempt, AttemptOK
<1> USE DEF attempt, eventRest, functorRest, loopSide, Event, Functor
<1>7. CASE Poll \/ TakeFunctors \/ BatchDone
  BY <1>1, <1>7, Zenon DEF Poll, TakeFunctors, BatchDone
<1>8. ASSUME Event("channel") PROVE Running /\ state = "kConnecting"
  BY <1>0, <1>8 DEF PhasesOK
<1>9. CASE HandleError
  BY <1>5, <1>8, <1>9 DEF HandleError
<1>10. CASE HandleWrite
  BY <1>0, <1>2, <1>8, <1>10 DEF HandleWrite, AttemptOK, Closed
<1>11. CASE HandleSelfConnect
  BY <1>0, <1>11 DEF HandleSelfConnect, AttemptOK
<1>12. CASE HandleTimer
  <2>1. timers - 1 \in Nat
    BY <1>0, <1>12 DEF HandleTimer, PhasesOK, AttemptOK
  <2> QED BY <1>0, <1>6, <1>12, <2>1 DEF HandleTimer, AttemptOK
<1>13. CASE RemoveConnection
  BY <1>1, <1>13, Zenon DEF RemoveConnection
<1>14. CASE Restart
  BY <1>0, <1>4, <1>14, TcpClientAssumption DEF Restart, Fail, AttemptOK
<1>15. CASE RunStart
  BY <1>0, <1>6, <1>15 DEF RunStart, AttemptOK
<1>16. CASE RunStop
  <2>1. Running
    BY <1>16 DEF RunStop
  <2>2. UNCHANGED <<attempt, timers>> \/ (state = "kConnecting" /\ RetryLater)
    BY <1>16 DEF RunStop, Fail
  <2> QED BY <1>1, <1>5, <2>1, <2>2
<1>17. CASE RunReset
  BY <1>0, <1>17 DEF RunReset, AttemptOK
<1>18. CASE RunDestroyed
  <2>1. Waiting("destroyed") = Waiting("destroyed")' + 1 /\ Waiting("destroyed")' \in Nat
    BY <1>18, Taking DEF RunDestroyed, Types, Unit
  <2>2. fds - 1 \in Nat
    BY <1>0, <1>18, <2>1 DEF RunDestroyed, Unit
  <2> QED BY <1>0, <1>18, <2>2 DEF RunDestroyed, AttemptOK
<1>19. ASSUME NEW c \in UserCalls, ConnectOrStop(c) PROVE AttemptOK'
  BY <1>1, <1>19, Zenon DEF ConnectOrStop, Begin
<1>20. CASE Disconnect \/ Destroy
  BY <1>1, <1>20, Zenon DEF Disconnect, Destroy, Begin
<1>21. CASE SetFlag \/ QueueCall
  BY <1>1, <1>21, Zenon DEF SetFlag, QueueCall
<1>22. ASSUME NEW a \in Answers, Answer(a) PROVE AttemptOK'
  BY <1>0, <1>22 DEF Answer, AttemptOK
<1>23. CASE UNCHANGED vars
  BY <1>1, <1>23, Zenon DEF vars
<1> QED BY <1>7, <1>9, <1>10, <1>11, <1>12, <1>13, <1>14, <1>15, <1>16, <1>17, <1>18, <1>19,
           <1>20, <1>21, <1>22, <1>23, Zenon
        DEF Next, LoopThread, EventStep, FunctorStep, UserThread

-----------------------------------------------------------------------------
(* What an attempt to connect comes to when the model goes on.              *)

Refused == /\ state' = "kDisconnected" /\ client # "gone"
           /\ UNCHANGED <<channel, socket, fds>>

Begun == /\ state' = "kConnecting" /\ channel = "none" /\ channel' = "polled"
         /\ socket' = "pending" /\ fds' = fds + 1

LEMMA Trying == TryConnect /\ Running' => Refused \/ Begun
BY DEF TryConnect, ConnectFails, Connecting, CallsBack, Watched, Running, Refused, Begun

LEMMA Starting ==
  StartInLoop /\ Running' =>
    /\ state = "kDisconnected" /\ UNCHANGED <<connect, delay>>
    /\ \/ ~connect /\ UNCHANGED attempt
       \/ connect /\ (Refused \/ Begun)
BY Trying DEF StartInLoop, Fail, Running, MayStart, attempt

LEMMA NextPhases == Types /\ WhileRunning /\ Next /\ Running' => PhasesOK'
<1> SUFFICES ASSUME Types, WhileRunning, Next, Running' PROVE PhasesOK'
  OBVIOUS
<1>0. /\ PhasesOK /\ Accounted /\ ChannelOK /\ QueuesOK /\ timers \in Nat
      /\ active \subseteq {"channel", "timer", "closed"}
  BY DEF Types, WhileRunning, AttemptOK, PlacesOK
<1> USE DEF PhasesOK, attempt, queues, eventRest, functorRest, loopSide
<1>1. CASE Poll
  BY <1>0, <1>1 DEF Poll, Answered
<1>2. CASE TakeFunctors \/ BatchDone
  <2>1. CASE TakeFunctors
    BY <1>0, <2>1 DEF TakeFunctors
  <2>2. CASE BatchDone
    BY <1>0, <2>2 DEF BatchDone
  <2> QED BY <1>2, <2>1, <2>2
<1>3. CASE HandleError
  BY <1>0, <1>3 DEF HandleError, RetryLater, Event
<1>4. CASE HandleWrite
  BY <1>0, <1>4 DEF HandleWrite, Event
<1>5. CASE HandleSelfConnect
  BY <1>0, <1>5 DEF HandleSelfConnect, Event
<1>6. CASE HandleTimer
  BY <1>0, <1>6, Starting DEF HandleTimer, Event, Refused, Begun
<1>7. CASE RemoveConnection
  BY <1>0, <1>7 DEF RemoveConnection, Event
<1>8. CASE Restart
  <2>1. TryConnect /\ loop = "restart" /\ loop' = "events" /\ UNCHANGED <<timers, active, queues, conn>>
    BY <1>8 DEF Restart, Fail, Running
  <2> QED BY <1>0, <2>1, Trying DEF Refused, Begun
<1>9. CASE RunStart
  BY <1>0, <1>9, Starting DEF RunStart, Functor, Refused, Begun
<1>10. CASE RunStop
  BY <1>0, <1>10 DEF RunStop, Functor, RetryLater, Fail, Running
<1>11. CASE RunReset
  BY <1>0, <1>11 DEF RunReset, Functor
<1>12. CASE RunDestroyed
  BY <1>0, <1>12 DEF RunDestroyed, Functor
<1>13. ASSUME UNCHANGED loopSide PROVE PhasesOK'
  BY <1>0, <1>13
<1>14. ASSUME NEW c \in UserCalls, ConnectOrStop(c) PROVE PhasesOK'
  BY <1>13, <1>14, Zenon DEF ConnectOrStop, Begin
<1>15. CASE Disconnect \/ Destroy \/ SetFlag \/ QueueCall
  BY <1>13, <1>15, Zenon DEF Disconnect, Destroy, Begin, SetFlag, QueueCall
<1>16. ASSUME NEW a \in Answers, Answer(a) PROVE PhasesOK'
  BY <1>0, <1>16, TcpClientAssumption DEF Answer
<1> HIDE DEF PhasesOK
<1> QED BY <1>1, <1>2, <1>3, <1>4, <1>5, <1>6, <1>7, <1>8, <1>9, <1>10, <1>11, <1>12, <1>14, <1>15,
           <1>16, Zenon
        DEF Next, LoopThread, EventStep, FunctorStep, UserThread

-----------------------------------------------------------------------------
(* RunStop takes one functor and appends another.                           *)
LEMMA Replacing ==
  ASSUME QueuesOK, NEW f, NEW g \in Functors, batch # <<>>, Head(batch) = f,
         batch' = Tail(batch), functors' = Append(functors, g)
  PROVE  /\ \A x : Waiting(x)' + Unit(f = x) = Waiting(x) + Unit(g = x)
         /\ \A x : Waiting(x)' \in Nat
         /\ \A x : Queued(x) => Queued(x)' \/ f = x
         /\ \A x : Queued(x)' => Queued(x) \/ g = x
         /\ Queued(g)'
<1>1. ASSUME NEW x
      PROVE  /\ Count(x, batch) = Count(x, batch') + Unit(f = x)
             /\ Range(batch) = Range(batch') \cup {f}
             /\ Count(x, functors') = Count(x, functors) + Unit(g = x)
             /\ Range(functors') = Range(functors) \cup {g}
  <2>1. /\ Count(x, batch) = Count(x, batch') + Unit(f = x)
        /\ Range(batch) = Range(batch') \cup {f}
    BY CountTail DEF QueuesOK
  <2>2. /\ Count(x, functors') = Count(x, functors) + Unit(g = x)
        /\ Range(functors') = Range(functors) \cup {g}
    BY CountAppend DEF QueuesOK
  <2> QED BY <2>1, <2>2
<1>2. batch' \in Seq(Functors) /\ functors' \in Seq(Functors)
  BY CountTail DEF QueuesOK
<1>3. \A x : /\ Count(x, functors) \in Nat /\ Count(x, batch') \in Nat
             /\ Count(x, functors') \in Nat
  BY <1>2, CountType DEF QueuesOK
<1>4. ASSUME NEW x
      PROVE  Waiting(x)' + Unit(f = x) = Waiting(x) + Unit(g = x) /\ Waiting(x)' \in Nat
  <2>1. Unit(f = x) \in Nat /\ Unit(g = x) \in Nat
    BY DEF Unit
  <2>2. /\ Count(x, batch) = Count(x, batch') + Unit(f = x)
        /\ Count(x, functors') = Count(x, functors) + Unit(g = x)
    BY <1>1
  <2>3. /\ Count(x, functors) \in Nat /\ Count(x, batch') \in Nat
        /\ Count(x, functors') \in Nat
    BY <1>3
  <2>4. /\ Waiting(x) = Count(x, functors) + Count(x, batch)
        /\ Waiting(x)' = Count(x, functors') + Count(x, batch')
    BY DEF Waiting
  <2> QED BY <2>1, <2>2, <2>3, <2>4
<1>5. ASSUME NEW x
      PROVE  /\ Queued(x) => Queued(x)' \/ f = x
             /\ Queued(x)' => Queued(x) \/ g = x
  <2>1. Range(batch) = Range(batch') \cup {f} /\ Range(functors') = Range(functors) \cup {g}
    BY <1>1
  <2> QED BY <2>1 DEF Queued
<1>6. Queued(g)'
  <2>1. Range(functors') = Range(functors) \cup {g}
    BY <1>1
  <2> QED BY <2>1 DEF Queued
<1> QED BY <1>4, <1>5, <1>6

(* The functor in turn, and what is left of the queue.                       *)
LEMMA Turn ==
  ASSUME QueuesOK, NEW f, Functor(f), UNCHANGED functors
  PROVE  /\ \A x : Waiting(x) = Waiting(x)' + Unit(f = x)
         /\ \A x : Waiting(x)' \in Nat
         /\ \A x : Queued(x) <=> Queued(x)' \/ f = x
BY Taking DEF Functor

(* StopInLoop does nothing, or takes its own attempt back.                  *)
LEMMA Stopping ==
  ASSUME QueuesOK, RunStop, Running'
  PROVE  /\ Running /\ loop = "functors" /\ UNCHANGED functorRest
         /\ \A x : x \notin {"stop", "reset"} => Waiting(x)' = Waiting(x)
         /\ \A x : x # "stop" => (Queued(x) => Queued(x)')
         /\ \A x : x # "reset" => (Queued(x)' => Queued(x))
         /\ \/ state # "kConnecting" /\ UNCHANGED <<attempt, timers>>
            \/ state = "kConnecting" /\ channel # "none" /\ RetryLater /\ Queued("reset")'
<1>0. Functor("stop") /\ UNCHANGED functorRest
  BY DEF RunStop
<1>1. CASE state # "kConnecting"
  <2>1. UNCHANGED <<attempt, timers, functors>>
    BY <1>1 DEF RunStop
  <2>2. /\ \A x : Waiting(x) = Waiting(x)' + Unit("stop" = x)
        /\ \A x : Waiting(x)' \in Nat
        /\ \A x : Queued(x) <=> Queued(x)' \/ "stop" = x
    BY <1>0, <2>1, Turn
  <2> QED BY <1>0, <1>1, <2>1, <2>2 DEF Unit, Functor
<1>2. CASE state = "kConnecting" /\ channel # "none"
  <2>1. RetryLater /\ functors' = Append(functors, "reset")
    BY <1>2 DEF RunStop, RetryLater, QueueReset
  <2>2. "reset" \in Functors
    BY DEF Functors
  <2>3. /\ \A x : Waiting(x)' + Unit("stop" = x) = Waiting(x) + Unit("reset" = x)
        /\ \A x : Waiting(x)' \in Nat
        /\ \A x : Queued(x) => Queued(x)' \/ "stop" = x
        /\ \A x : Queued(x)' => Queued(x) \/ "reset" = x
        /\ Queued("reset")'
    BY <1>0, <2>1, <2>2, Replacing DEF Functor
  <2>4. \A x : Waiting(x) \in Nat
    BY WaitingType
  <2>5. ASSUME NEW x, x \notin {"stop", "reset"} PROVE Waiting(x)' = Waiting(x)
    <3>1. Waiting(x)' + Unit("stop" = x) = Waiting(x) + Unit("reset" = x)
      BY <2>3
    <3> QED BY <2>3, <2>4, <2>5, <3>1 DEF Unit
  <2> QED BY <1>0, <1>2, <2>1, <2>3, <2>5 DEF Functor
<1>3. CASE state = "kConnecting" /\ channel = "none"
  BY <1>3 DEF RunStop, Fail, Running
<1> QED BY <1>1, <1>2, <1>3

LEMMA NextAccounted == Types /\ WhileRunning /\ Next /\ Running' => Accounted'
<1> SUFFICES ASSUME Types, WhileRunning, Next, Running' PROVE Accounted'
  OBVIOUS
<1>0. /\ QueuesOK /\ PhasesOK /\ fds \in Nat /\ conn \in BOOLEAN
      /\ fds = Unit(state = "kConnecting") + Unit(conn) + Waiting("destroyed")
      /\ Waiting("destroyed") \in Nat
      /\ conn => state = "kConnected"
      /\ loop = "restart" => state = "kConnected"
  BY WaitingType DEF Types, WhileRunning, Accounted, AttemptOK, FlagsOK, PhasesOK
<1>1. ASSUME UNCHANGED <<state, fds, conn>>, Waiting("destroyed")' = Waiting("destroyed")
      PROVE  Accounted'
  BY <1>0, <1>1 DEF Accounted
<1> USE DEF attempt, eventRest, functorRest, loopSide
<1>2. ASSUME UNCHANGED queues PROVE Waiting("destroyed")' = Waiting("destroyed")
  BY <1>2, SameQueues
<1>3. ASSUME NEW f \in Functors, functors' = Append(functors, f), batch' = batch
      PROVE  Waiting("destroyed")' = Waiting("destroyed") + Unit(f = "destroyed")
  BY <1>0, <1>3, Appending
<1>4. CASE Poll \/ BatchDone
  BY <1>1, <1>2, <1>4, Zenon DEF Poll, BatchDone
<1>5. CASE TakeFunctors
  BY <1>0, <1>1, <1>5, TakingAll DEF TakeFunctors, PhasesOK
<1>6. "reset" \in Functors /\ "stop" \in Functors /\ "start" \in Functors
      /\ "destroyed" \in Functors
  BY DEF Functors
<1>7. Event("channel") => state = "kConnecting" /\ ~conn
  BY <1>0 DEF Event, PhasesOK
<1>8. CASE HandleError
  <2>1. /\ state' = "kDisconnected" /\ fds' = fds - 1 /\ UNCHANGED <<conn, batch>>
        /\ functors' = Append(functors, "reset")
    BY <1>8 DEF HandleError, RetryLater, Closed, QueueReset
  <2>2. Waiting("destroyed")' = Waiting("destroyed")
    BY <1>0, <1>3, <1>6, <2>1 DEF Unit
  <2> QED BY <1>0, <1>7, <1>8, <2>1, <2>2 DEF HandleError, Accounted, Unit
<1>9. CASE HandleWrite
  <2>1. /\ state' = "kConnected" /\ fds' = (IF connect THEN fds ELSE fds - 1)
        /\ conn' = connect /\ batch' = batch /\ functors' = Append(functors, "reset")
    BY <1>9 DEF HandleWrite, Closed, QueueReset
  <2>2. Waiting("destroyed")' = Waiting("destroyed")
    BY <1>0, <1>3, <1>6, <2>1 DEF Unit
  <2> QED BY <1>0, <1>7, <1>9, <2>1, <2>2 DEF HandleWrite, Accounted, Unit
<1>10. CASE HandleSelfConnect
  <2>1. /\ UNCHANGED <<state, fds, conn, batch>> /\ functors' = Append(functors, "reset")
    BY <1>10 DEF HandleSelfConnect, QueueReset
  <2>2. Waiting("destroyed")' = Waiting("destroyed")
    BY <1>0, <1>3, <1>6, <2>1 DEF Unit
  <2> QED BY <1>1, <2>1, <2>2
<1>11. ASSUME TryConnect, state # "kConnecting", UNCHANGED conn,
              Waiting("destroyed")' = Waiting("destroyed")
       PROVE  Accounted'
  BY <1>0, <1>11, Trying DEF Refused, Begun, Accounted, Unit
<1>12. ASSUME StartInLoop, UNCHANGED conn, Waiting("destroyed")' = Waiting("destroyed")
       PROVE  Accounted'
  BY <1>0, <1>1, <1>12, Starting DEF Refused, Begun, Accounted, Unit
<1>13. CASE HandleTimer
  <2>1. UNCHANGED <<conn, functors, batch>>
    BY <1>13 DEF HandleTimer
  <2> QED BY <1>2, <1>12, <1>13, <2>1 DEF HandleTimer, queues
<1>14. CASE RemoveConnection
  <2>1. conn /\ ~conn' /\ UNCHANGED <<state, fds, batch>> /\ functors' = Append(functors, "destroyed")
    BY <1>0, <1>14 DEF RemoveConnection, Event, PhasesOK
  <2>2. Waiting("destroyed")' = Waiting("destroyed") + 1
    BY <1>0, <1>3, <1>6, <2>1 DEF Unit
  <2> QED BY <1>0, <2>1, <2>2 DEF Accounted, Unit
<1>15. CASE Restart
  <2>1. TryConnect /\ state # "kConnecting" /\ UNCHANGED <<conn, queues>>
    BY <1>0, <1>15 DEF Restart, Fail, Running
  <2> QED BY <1>2, <1>11, <2>1
<1>16. CASE RunStart
  <2>1. UNCHANGED <<conn, functors>>
    BY <1>16 DEF RunStart
  <2>2. Waiting("destroyed")' = Waiting("destroyed")
    BY <1>0, <1>16, <2>1, Turn DEF RunStart, Unit
  <2> QED BY <1>12, <1>16, <2>1, <2>2 DEF RunStart
<1>17. CASE RunStop
  <2>1. UNCHANGED conn /\ Waiting("destroyed")' = Waiting("destroyed")
    BY <1>0, <1>17, Stopping
  <2>2. \/ UNCHANGED <<state, fds>>
        \/ state = "kConnecting" /\ state' = "kDisconnected" /\ fds' = fds - 1
    BY <1>0, <1>17, Stopping DEF RetryLater, Closed
  <2> QED BY <1>0, <1>1, <2>1, <2>2 DEF Accounted, Unit
<1>18. CASE RunReset
  <2>1. UNCHANGED <<conn, functors, state, fds>>
    BY <1>18 DEF RunReset
  <2>2. Waiting("destroyed")' = Waiting("destroyed")
    BY <1>0, <1>18, <2>1, Turn DEF RunReset, Unit
  <2> QED BY <1>1, <2>1, <2>2
<1>19. CASE RunDestroyed
  <2>1. fds' = fds - 1 /\ UNCHANGED <<conn, functors, state>>
    BY <1>19 DEF RunDestroyed
  <2>2. Waiting("destroyed") = Waiting("destroyed")' + 1 /\ Waiting("destroyed")' \in Nat
    BY <1>0, <1>19, <2>1, Turn DEF RunDestroyed, Unit
  <2> QED BY <1>0, <2>1, <2>2 DEF Accounted, Unit
<1>20. ASSUME NEW c \in UserCalls, ConnectOrStop(c) PROVE Accounted'
  BY <1>1, <1>2, <1>20, Zenon DEF ConnectOrStop, Begin, queues
<1>21. CASE Disconnect \/ Destroy
  BY <1>1, <1>2, <1>21, Zenon DEF Disconnect, Destroy, Begin, queues
<1>22. CASE SetFlag
  BY <1>1, <1>2, <1>22, Zenon DEF SetFlag, queues
<1>23. CASE QueueCall
  <2>1. /\ UNCHANGED <<state, fds, conn, batch>>
        /\ \E f \in {"start", "stop"} : functors' = Append(functors, f)
    BY <1>23 DEF QueueCall
  <2>2. Waiting("destroyed")' = Waiting("destroyed")
    BY <1>0, <1>3, <1>6, <2>1 DEF Unit
  <2> QED BY <1>1, <2>1, <2>2
<1>24. ASSUME NEW a \in Answers, Answer(a) PROVE Accounted'
  BY <1>1, <1>2, <1>24, Zenon DEF Answer
<1> QED BY <1>4, <1>5, <1>8, <1>9, <1>10, <1>13, <1>14, <1>15, <1>16, <1>17, <1>18, <1>19,
           <1>20, <1>21, <1>22, <1>23, <1>24, Zenon
        DEF Next, LoopThread, EventStep, FunctorStep, UserThread

-----------------------------------------------------------------------------
(* The calls.                                                               *)

LEMMA Calling ==
  ASSUME QueuesOK, NEW c \in UserCalls, Begin(c)
  PROVE  /\ Running /\ call = Idle /\ client = "live" /\ LastCall' = c
         /\ Count("connect", made)' = Count("connect", made) + Unit(c = "connect")
         /\ UNCHANGED <<loopSide, connect, functors, answered>>
<1>1. /\ Running /\ call = Idle /\ client = "live" /\ made' = Append(made, c)
      /\ UNCHANGED <<loopSide, connect, functors, answered>> /\ made \in Seq(UserCalls)
  BY DEF Begin, QueuesOK
<1>2. Count("connect", made') = Count("connect", made) + Unit(c = "connect")
  BY <1>1, CountAppend
<1> DEFINE l == Append(made, c)
<1>3. Len(l) = Len(made) + 1 /\ Len(made) \in Nat /\ l[Len(made) + 1] = c /\ l # <<>>
  BY <1>1
<1> HIDE DEF l
<1>4. LastCall' = c
  BY <1>1, <1>3 DEF LastCall, Last, l
<1> QED BY <1>1, <1>2, <1>4

LEMMA NextBounded == Types /\ WhileRunning /\ Next /\ Running' => Bounded'
<1> SUFFICES ASSUME Types, WhileRunning, Next, Running' PROVE Bounded'
  OBVIOUS
<1>0. /\ QueuesOK /\ timers \in Nat /\ Waiting("start") \in Nat
      /\ Unit(state # "kDisconnected") + Unit(call[1] = "connect") + timers
           + Waiting("start") <= Count("connect", made)
      /\ Count("connect", made) \in Nat
  BY WaitingType, CountType DEF Types, WhileRunning, Bounded, AttemptOK, QueuesOK
<1>1. PhasesOK
  BY DEF WhileRunning
<1>2. ASSUME UNCHANGED <<call, timers, made>>, Waiting("start")' = Waiting("start"),
             state' # "kDisconnected" => state # "kDisconnected"
      PROVE  Bounded'
  BY <1>0, <1>2 DEF Bounded, Unit
<1> USE DEF attempt, eventRest, functorRest, loopSide, userVars
<1>3. ASSUME UNCHANGED queues PROVE Waiting("start")' = Waiting("start")
  BY <1>3, SameQueues
<1>4. ASSUME NEW f \in Functors, functors' = Append(functors, f), batch' = batch
      PROVE  Waiting("start")' = Waiting("start") + Unit(f = "start")
  BY <1>0, <1>4, Appending
<1>5. CASE Poll \/ BatchDone
  BY <1>2, <1>3, <1>5, Zenon DEF Poll, BatchDone
<1>6. CASE TakeFunctors
  BY <1>0, <1>1, <1>2, <1>6, TakingAll DEF TakeFunctors, PhasesOK
<1>7. "reset" \in Functors /\ "stop" \in Functors /\ "start" \in Functors
      /\ "destroyed" \in Functors
  BY DEF Functors
<1>8. Event("channel") => state = "kConnecting"
  BY <1>1 DEF Event, PhasesOK
<1>9. ASSUME RetryLater, state = "kConnecting", UNCHANGED <<call, made>>,
             Waiting("start")' = Waiting("start")
      PROVE  Bounded'
  BY <1>0, <1>9 DEF RetryLater, Bounded, Unit
<1>10. CASE HandleError
  <2>1. functors' = Append(functors, "reset") /\ UNCHANGED <<call, made, batch>>
    BY <1>10 DEF HandleError, RetryLater, QueueReset
  <2>2. Waiting("start")' = Waiting("start")
    BY <1>0, <1>4, <1>7, <2>1 DEF Unit
  <2> QED BY <1>8, <1>9, <1>10, <2>1, <2>2 DEF HandleError
<1>11. CASE HandleWrite \/ HandleSelfConnect
  <2>1. /\ functors' = Append(functors, "reset") /\ UNCHANGED <<call, made, batch, timers>>
        /\ Event("channel")
    BY <1>11 DEF HandleWrite, HandleSelfConnect, QueueReset
  <2>2. Waiting("start")' = Waiting("start")
    BY <1>0, <1>4, <1>7, <2>1 DEF Unit
  <2> QED BY <1>2, <1>8, <2>1, <2>2
<1>12. CASE HandleTimer
  <2>1. /\ StartInLoop /\ timers' = timers - 1 /\ UNCHANGED <<call, made, queues>>
        /\ timers > 0
    BY <1>1, <1>12 DEF HandleTimer, queues, Event, PhasesOK
  <2>2. state = "kDisconnected"
    BY <2>1, Starting
  <2> QED BY <1>0, <1>3, <2>1, <2>2 DEF Bounded, Unit
<1>13. CASE RemoveConnection
  <2>1. UNCHANGED <<state, batch, call, made, timers>> /\ functors' = Append(functors, "destroyed")
    BY <1>13 DEF RemoveConnection
  <2>2. Waiting("start")' = Waiting("start")
    BY <1>0, <1>4, <1>7, <2>1 DEF Unit
  <2> QED BY <1>2, <2>1, <2>2
<1>14. CASE Restart
  <2>1. UNCHANGED <<timers, queues, call, made>> /\ state # "kDisconnected"
    BY <1>1, <1>14 DEF Restart, PhasesOK
  <2> QED BY <1>2, <1>3, <2>1
<1>15. CASE RunStart
  <2>1. StartInLoop /\ UNCHANGED <<timers, functors, call, made>>
    BY <1>15 DEF RunStart
  <2>2. Waiting("start") = Waiting("start")' + 1 /\ Waiting("start")' \in Nat
    BY <1>0, <1>15, <2>1, Turn DEF RunStart, Unit
  <2>3. state = "kDisconnected"
    BY <2>1, Starting
  <2> QED BY <1>0, <2>1, <2>2, <2>3 DEF Bounded, Unit
<1>16. CASE RunStop
  <2>1. UNCHANGED <<call, made>> /\ Waiting("start")' = Waiting("start")
    BY <1>0, <1>16, Stopping
  <2> QED BY <1>0, <1>2, <1>9, <1>16, <2>1, Stopping
<1>17. CASE RunReset \/ RunDestroyed
  <2>1. UNCHANGED <<call, made, functors, state, timers>>
    BY <1>17 DEF RunReset, RunDestroyed
  <2>2. Waiting("start")' = Waiting("start")
    BY <1>0, <1>17, <2>1, Turn DEF RunReset, RunDestroyed, Unit
  <2> QED BY <1>2, <2>1, <2>2
<1>18. ASSUME NEW c \in UserCalls, Begin(c), batch' = batch,
              call'[1] = "connect" => c = "connect"
       PROVE  Bounded'
  <2>1. /\ call = Idle /\ UNCHANGED <<state, timers, functors, batch>>
        /\ Count("connect", made)' = Count("connect", made) + Unit(c = "connect")
    BY <1>0, <1>18, Calling
  <2> QED BY <1>0, <1>3, <1>18, <2>1 DEF Bounded, Unit, queues
<1>19. ASSUME NEW c \in UserCalls, ConnectOrStop(c) PROVE Bounded'
  BY <1>18, <1>19 DEF ConnectOrStop, Begin
<1>20. CASE Disconnect \/ Destroy
  <2>1. \E c \in {"disconnect", "destroy"} : Begin(c) /\ batch' = batch
    BY <1>20 DEF Disconnect, Destroy, Begin
  <2>2. call'[1] # "connect"
    BY <1>20 DEF Disconnect, Destroy, Begin, Idle
  <2> QED BY <1>18, <2>1, <2>2 DEF UserCalls
<1>21. CASE SetFlag
  <2>1. call'[1] = call[1] /\ UNCHANGED <<state, timers, made, queues>>
    BY <1>21 DEF SetFlag, queues
  <2> QED BY <1>0, <1>3, <2>1 DEF Bounded, Unit
<1>22. CASE QueueCall
  <2>1. /\ UNCHANGED <<state, timers, batch, made>> /\ call' = Idle
        /\ functors' = Append(functors, IF call[1] = "connect" THEN "start" ELSE "stop")
    BY <1>22 DEF QueueCall
  <2>2. Waiting("start")' = Waiting("start") + Unit(call[1] = "connect")
    BY <1>0, <1>4, <1>7, <2>1 DEF Unit
  <2> QED BY <1>0, <2>1, <2>2 DEF Bounded, Unit, Idle
<1>23. ASSUME NEW a \in Answers, Answer(a) PROVE Bounded'
  BY <1>2, <1>3, <1>23, Zenon DEF Answer
<1> QED BY <1>5, <1>6, <1>10, <1>11, <1>12, <1>13, <1>14, <1>15, <1>16, <1>17, <1>19,
           <1>20, <1>21, <1>22, <1>23, Zenon
        DEF Next, LoopThread, EventStep, FunctorStep, UserThread

-----------------------------------------------------------------------------
(* The channel.                                                             *)

LEMMA NothingQueued ==
  ASSUME QueuesOK, batch = <<>>, NEW f, f \notin Range(functors) PROVE ~Queued(f)
BY CountEmpty DEF Queued

(* One call of connect() at most is on its way.                              *)
LEMMA OneOnItsWay ==
  ASSUME Types, WhileRunning, OneConnect,
         call[1] = "connect" \/ Queued("start") \/ timers > 0
  PROVE  /\ state = "kDisconnected" /\ Waiting("start") <= 1 /\ timers <= 1
         /\ Queued("start") => call[1] # "connect" /\ timers = 0
         /\ timers > 0 => call[1] # "connect" /\ ~Queued("start")
<1>1. /\ Waiting("start") \in Nat /\ timers \in Nat /\ Count("connect", made) <= 1
      /\ Queued("start") <=> Waiting("start") > 0
      /\ Unit(state # "kDisconnected") + Unit(call[1] = "connect") + timers
           + Waiting("start") <= Count("connect", made)
      /\ Count("connect", made) \in Nat
  BY WaitingType, CountType DEF Types, WhileRunning, Bounded, AttemptOK, QueuesOK, OneConnect
<1> QED BY <1>1 DEF Unit

LEMMA NextChannel == Types /\ WhileRunning /\ Next /\ Running' => ChannelOK'
<1> SUFFICES ASSUME Types, WhileRunning, Next, Running' PROVE ChannelOK'
  OBVIOUS
<1>0. /\ QueuesOK /\ PhasesOK /\ ChannelOK /\ timers \in Nat
      /\ channel \in {"none", "polled", "removed"}
      /\ loop \in {"poll", "events", "restart", "functors"}
  BY DEF Types, WhileRunning, AttemptOK, PlacesOK
<1> USE DEF attempt, eventRest, functorRest, loopSide, userVars
<1> DEFINE Needed == call[1] = "connect" \/ Queued("start") \/ "timer" \in active
<1>1. OneConnect /\ Needed => channel = "none" /\ state = "kDisconnected"
  BY <1>0, OneOnItsWay DEF ChannelOK, PhasesOK
<1>2. Count("connect", made) = 0 => channel = "none" /\ state = "kDisconnected" /\ timers = 0
  <2>1. /\ Waiting("start") \in Nat
        /\ Unit(state # "kDisconnected") + Unit(call[1] = "connect") + timers
             + Waiting("start") <= Count("connect", made)
    BY <1>0, WaitingType DEF WhileRunning, Bounded
  <2> QED BY <1>0, <2>1 DEF ChannelOK, Unit
<1>3. ASSUME UNCHANGED queues PROVE Queued("start")' <=> Queued("start")
  BY <1>3, SameQueues
<1>4. ASSUME NEW f \in Functors, functors' = Append(functors, f), batch' = batch
      PROVE  /\ \A x : Queued(x)' <=> Queued(x) \/ f = x
  BY <1>0, <1>4, Appending
<1>5. "reset" \in Functors /\ "stop" \in Functors /\ "start" \in Functors
      /\ "destroyed" \in Functors
  BY DEF Functors
<1>6. Event("channel") => state = "kConnecting" /\ loop = "events" /\ "closed" \notin active
  BY <1>0 DEF Event, PhasesOK
<1>7. CASE Poll
  <2>1. /\ loop = "poll" /\ loop' = "events" /\ batch = <<>>
        /\ UNCHANGED <<state, channel, timers, queues, call, made>>
        /\ "timer" \in active' => timers > 0 /\ "reset" \notin Range(functors)
    BY <1>0, <1>7 DEF Poll, PhasesOK
  <2>2. Queued("start")' = Queued("start") /\ Queued("reset")' = Queued("reset")
    BY <2>1 DEF queues, Queued
  <2>3. state = "kConnected" => channel # "removed"
    BY <1>0, <2>1 DEF ChannelOK
  <2>4. "timer" \in active' /\ OneConnect => channel = "none"
    <3>1. "timer" \in active' => ~Queued("reset")
      BY <1>0, <2>1, NothingQueued
    <3>2. timers > 0 /\ OneConnect => state = "kDisconnected"
      BY OneOnItsWay
    <3> QED BY <1>0, <2>1, <3>1, <3>2 DEF ChannelOK, PhasesOK
  <2> HIDE DEF Queued
  <2> QED BY <1>0, <2>1, <2>2, <2>3, <2>4 DEF ChannelOK, OneConnect
<1>8. CASE TakeFunctors
  <2>1. /\ loop = "events" /\ loop' = "functors" /\ batch = <<>> /\ batch' = functors
        /\ UNCHANGED <<state, channel, active, call, made>> /\ functors' = <<>>
    BY <1>0, <1>8 DEF TakeFunctors, PhasesOK
  <2>2. \A x : Queued(x)' <=> Queued(x)
    BY <1>0, <2>1, TakingAll
  <2>3. channel = "removed" => "reset" \in Range(functors)
    BY <1>0, <2>1, NothingQueued DEF ChannelOK
  <2> HIDE DEF Queued
  <2> QED BY <1>0, <2>1, <2>2, <2>3 DEF ChannelOK, OneConnect
<1>9. CASE BatchDone
  <2>1. /\ loop = "functors" /\ loop' = "poll" /\ batch = <<>>
        /\ UNCHANGED <<state, channel, active, call, made, queues>>
    BY <1>9 DEF BatchDone
  <2>2. Range(batch) = {}
    BY <2>1, CountEmpty
  <2>3. Queued("start")' = Queued("start") /\ Queued("reset")' = Queued("reset")
    BY <2>1 DEF queues, Queued
  <2> HIDE DEF Queued
  <2> QED BY <1>0, <2>1, <2>2, <2>3 DEF ChannelOK, OneConnect
<1>10. CASE HandleError \/ HandleWrite \/ HandleSelfConnect
  <2>1. /\ functors' = Append(functors, "reset") /\ UNCHANGED <<call, made, batch, loop>>
        /\ channel' = "removed" /\ Event("channel") /\ active' = active \ {"channel"}
    BY <1>10 DEF HandleError, HandleWrite, HandleSelfConnect, RetryLater, QueueReset, Event
  <2>2. \A x : Queued(x)' <=> Queued(x) \/ "reset" = x
    BY <1>4, <1>5, <2>1
  <2>3. ~(OneConnect /\ Needed) /\ Count("connect", made) # 0
    BY <1>1, <1>2, <1>6, <2>1
  <2> HIDE DEF Queued
  <2> QED BY <1>6, <2>1, <2>2, <2>3 DEF ChannelOK, OneConnect
<1>11. CASE HandleTimer
  <2>1. /\ StartInLoop /\ timers > 0 /\ active' = active \ {"timer"}
        /\ UNCHANGED <<loop, call, made, queues>>
    BY <1>0, <1>11 DEF HandleTimer, queues, Event, PhasesOK
  <2>2. /\ state = "kDisconnected" /\ state' # "kConnected"
        /\ channel' = channel \/ channel' = "polled"
    BY <2>1, Starting DEF Refused, Begun
  <2>3. Queued("start")' = Queued("start") /\ Queued("reset")' = Queued("reset")
    BY <2>1 DEF queues, Queued
  <2>4. OneConnect => call[1] # "connect" /\ ~Queued("start")
    BY <2>1, OneOnItsWay
  <2>5. Count("connect", made) # 0
    BY <1>2, <2>1
  <2> HIDE DEF Queued
  <2> QED BY <1>0, <2>1, <2>2, <2>3, <2>4, <2>5 DEF ChannelOK, OneConnect
<1>12. CASE RemoveConnection
  <2>1. /\ UNCHANGED <<state, channel, batch, call, made>> /\ functors' = Append(functors, "destroyed")
        /\ "closed" \in active /\ active' = active \ {"closed"} /\ loop = "events"
    BY <1>12 DEF RemoveConnection, Event
  <2>2. \A x : Queued(x)' <=> Queued(x) \/ "destroyed" = x
    BY <1>4, <1>5, <2>1
  <2>3. ~(state = "kConnected" /\ channel = "removed")
    BY <1>0, <2>1 DEF ChannelOK
  <2> HIDE DEF Queued
  <2> QED BY <1>0, <2>1, <2>2, <2>3 DEF ChannelOK, OneConnect
<1>13. CASE Restart
  <2>1. /\ TryConnect /\ UNCHANGED <<timers, queues, active, call, made>>
        /\ state = "kConnected"
    BY <1>0, <1>13 DEF Restart, Fail, Running, PhasesOK
  <2>2. state' # "kConnected" /\ (channel' = channel \/ channel' = "polled")
    BY <2>1, Trying DEF Refused, Begun
  <2>3. Queued("start")' = Queued("start") /\ Queued("reset")' = Queued("reset")
    BY <2>1 DEF queues, Queued
  <2>4. ~(OneConnect /\ Needed) /\ Count("connect", made) # 0
    BY <1>1, <1>2, <2>1
  <2> HIDE DEF Queued
  <2> QED BY <1>0, <2>1, <2>2, <2>3, <2>4 DEF ChannelOK, OneConnect
<1>14. ASSUME NEW f \in Functors, Functor(f) PROVE loop = "functors" /\ active = {} /\ Queued(f)
       /\ Range(batch) = Range(Tail(batch)) \cup {f}
  BY <1>0, <1>14, CountTail DEF Functor, PhasesOK, QueuesOK, Queued
<1>15. CASE RunStart
  <2>1. StartInLoop /\ Functor("start") /\ UNCHANGED <<timers, functors, loop, active, call, made>>
    BY <1>15 DEF RunStart
  <2>2. /\ \A x : Waiting(x) = Waiting(x)' + Unit("start" = x)
        /\ \A x : Waiting(x)' \in Nat
        /\ \A x : Queued(x) <=> Queued(x)' \/ "start" = x
    BY <1>0, <2>1, Turn
  <2>3. /\ state = "kDisconnected" /\ state' # "kConnected"
        /\ channel' = channel \/ channel' = "polled"
    BY <2>1, Starting DEF Refused, Begun
  <2>4. active = {} /\ Queued("start")
    BY <1>5, <1>14, <2>1
  <2>5. QueuesOK'
    BY NextQueues
  <2>6. OneConnect => call[1] # "connect" /\ ~Queued("start")'
    <3>1. OneConnect => call[1] # "connect" /\ Waiting("start") <= 1
      BY <2>4, OneOnItsWay
    <3>2. OneConnect => Waiting("start")' = 0
      BY <2>2, <3>1 DEF Unit
    <3>3. Queued("start")' <=> Waiting("start")' > 0
      <4>1. functors' \in Seq(Functors) /\ batch' \in Seq(Functors)
        BY <2>5 DEF QueuesOK
      <4>2. /\ Count("start", functors') \in Nat /\ Count("start", batch') \in Nat
            /\ Count("start", functors') = 0 <=> "start" \notin Range(functors')
            /\ Count("start", batch') = 0 <=> "start" \notin Range(batch')
        BY <4>1, CountType
      <4> QED BY <4>2 DEF Waiting, Queued
    <3> QED BY <3>1, <3>2, <3>3
  <2>7. Count("connect", made) # 0
    <3>1. /\ Waiting("start") \in Nat /\ Waiting("start") > 0
      BY <1>0, <2>4, WaitingType
    <3>2. Unit(state # "kDisconnected") + Unit(call[1] = "connect") + timers
             + Waiting("start") <= Count("connect", made)
      BY DEF WhileRunning, Bounded
    <3> QED BY <1>0, <3>1, <3>2 DEF Unit
  <2> HIDE DEF Queued
  <2> QED BY <1>0, <2>1, <2>2, <2>3, <2>4, <2>6, <2>7 DEF ChannelOK, OneConnect
<1>16. CASE RunStop
  <2>1. /\ loop = "functors" /\ UNCHANGED <<loop, active, call, made>>
        /\ \A x : x # "stop" => (Queued(x) => Queued(x)')
        /\ \A x : x # "reset" => (Queued(x)' => Queued(x))
        /\ \/ state # "kConnecting" /\ UNCHANGED <<attempt, timers>>
           \/ state = "kConnecting" /\ RetryLater /\ Queued("reset")'
        /\ Functor("stop")
    BY <1>0, <1>16, Stopping DEF RunStop
  <2>2. "reset" \in Range(batch) => "reset" \in Range(batch')
    <3>1. batch' = Tail(batch) /\ Range(batch) = Range(Tail(batch)) \cup {"stop"}
      BY <1>5, <1>14, <2>1 DEF Functor
    <3> QED BY <3>1
  <2>3. CASE state # "kConnecting" /\ UNCHANGED <<attempt, timers>>
    <3> HIDE DEF Queued
    <3> QED BY <1>0, <2>1, <2>2, <2>3 DEF ChannelOK, OneConnect
  <2>4. CASE state = "kConnecting" /\ RetryLater /\ Queued("reset")'
    <3>1. state' = "kDisconnected"
      BY <2>4 DEF RetryLater
    <3>2. ~(OneConnect /\ Needed) /\ Count("connect", made) # 0
      BY <1>1, <1>2, <2>4
    <3> HIDE DEF Queued
    <3> QED BY <2>1, <2>4, <3>1, <3>2 DEF ChannelOK, OneConnect
  <2> QED BY <2>1, <2>3, <2>4
<1>17. CASE RunReset
  <2>1. channel' = "none"
    BY <1>17 DEF RunReset
  <2> QED BY <2>1 DEF ChannelOK
<1>18. CASE RunDestroyed
  <2>1. /\ Functor("destroyed") /\ UNCHANGED <<state, channel, functors, loop, active, call, made>>
    BY <1>18 DEF RunDestroyed
  <2>2. \A x : Queued(x) <=> Queued(x)' \/ "destroyed" = x
    BY <1>0, <2>1, Turn
  <2>3. "reset" \in Range(batch) => "reset" \in Range(batch')
    <3>1. batch' = Tail(batch) /\ Range(batch) = Range(Tail(batch)) \cup {"destroyed"}
      BY <1>5, <1>14, <2>1 DEF Functor
    <3> QED BY <3>1
  <2> HIDE DEF Queued
  <2> QED BY <1>0, <2>1, <2>2, <2>3 DEF ChannelOK, OneConnect
<1>19. ASSUME NEW c \in UserCalls, Begin(c), call'[1] = "connect" => c = "connect", batch' = batch
       PROVE  ChannelOK'
  <2>1. /\ UNCHANGED <<state, channel, loop, active, functors, batch>>
        /\ Count("connect", made)' = Count("connect", made) + Unit(c = "connect")
    BY <1>0, <1>19, Calling
  <2>2. Count("connect", made) \in Nat
    BY <1>0, CountType DEF QueuesOK
  <2>3. Queued("start")' = Queued("start") /\ Queued("reset")' = Queued("reset")
    BY <2>1 DEF Queued
  <2>4. OneConnect' /\ call'[1] = "connect" => channel = "none"
    BY <1>2, <1>19, <2>1, <2>2 DEF OneConnect, Unit
  <2>5. /\ OneConnect' => OneConnect
        /\ Count("connect", made)' = 0 => Count("connect", made) = 0
    BY <2>1, <2>2 DEF OneConnect, Unit
  <2> HIDE DEF Queued
  <2> QED BY <1>0, <2>1, <2>3, <2>4, <2>5 DEF ChannelOK
<1>20. ASSUME NEW c \in UserCalls, ConnectOrStop(c) PROVE ChannelOK'
  BY <1>19, <1>20 DEF ConnectOrStop, Begin
<1>21. CASE Disconnect \/ Destroy
  <2>1. \E c \in {"disconnect", "destroy"} : Begin(c) /\ batch' = batch
    BY <1>21 DEF Disconnect, Destroy, Begin
  <2>2. call'[1] # "connect"
    BY <1>21 DEF Disconnect, Destroy, Begin, Idle
  <2> QED BY <1>19, <2>1, <2>2 DEF UserCalls
<1>22. CASE SetFlag
  <2>1. call'[1] = call[1] /\ UNCHANGED <<state, channel, loop, active, made, functors, batch>>
    BY <1>22 DEF SetFlag
  <2>2. Queued("start")' = Queued("start") /\ Queued("reset")' = Queued("reset")
    BY <2>1 DEF queues, Queued
  <2> HIDE DEF Queued
  <2> QED BY <1>0, <2>1, <2>2 DEF ChannelOK, OneConnect
<1>23. CASE QueueCall
  <2>1. /\ UNCHANGED <<state, channel, loop, active, batch, made>> /\ call' = Idle
        /\ functors' = Append(functors, IF call[1] = "connect" THEN "start" ELSE "stop")
    BY <1>23 DEF QueueCall
  <2>2. \A x : Queued(x)' <=> Queued(x) \/ (IF call[1] = "connect" THEN "start" ELSE "stop") = x
    BY <1>4, <1>5, <2>1
  <2> HIDE DEF Queued
  <2> QED BY <1>0, <2>1, <2>2 DEF ChannelOK, OneConnect, Idle
<1>24. ASSUME NEW a \in Answers, Answer(a) PROVE ChannelOK'
  <2>1. UNCHANGED <<state, channel, loop, active, batch, functors, made, call>>
    BY <1>24 DEF Answer, queues
  <2> QED BY <1>0, <2>1 DEF ChannelOK, OneConnect, Queued
<1> QED BY <1>7, <1>8, <1>9, <1>10, <1>11, <1>12, <1>13, <1>15, <1>16, <1>17, <1>18,
           <1>20, <1>21, <1>22, <1>23, <1>24, Zenon
        DEF Next, LoopThread, EventStep, FunctorStep, UserThread

-----------------------------------------------------------------------------
(* stop() and the destructor.                                               *)

(* A step of the loop or of the kernel that begins no attempt.              *)
LEMMA NoCall ==
  ASSUME WhileRunning, UNCHANGED <<made, call, connect, wanted, client>>,
         overridden' = overridden,
         state' = "kConnecting" => state = "kConnecting",
         state = "kConnected" => state' = "kConnected",
         state' = "kConnecting" /\ Queued("stop") => Queued("stop")'
  PROVE  StopOK' /\ DestroyOK' /\ CallsOK'
<1> USE DEF WhileRunning, LastCall, OneConnect
<1> HIDE DEF Queued
<1>1. StopOK'
  BY DEF StopOK
<1>2. DestroyOK'
  BY DEF DestroyOK
<1>3. CallsOK'
  BY DEF CallsOK
<1> QED BY <1>1, <1>2, <1>3

LEMMA NextCalls ==
  Types /\ WhileRunning /\ Next /\ Running' => StopOK' /\ DestroyOK' /\ CallsOK'
<1> SUFFICES ASSUME Types, WhileRunning, Next, Running' PROVE StopOK' /\ DestroyOK' /\ CallsOK'
  OBVIOUS
<1> DEFINE Goal == StopOK' /\ DestroyOK' /\ CallsOK'
<1>0. /\ QueuesOK /\ PhasesOK /\ StopOK /\ DestroyOK /\ CallsOK
      /\ connect \in BOOLEAN /\ overridden \in BOOLEAN /\ wanted \in BOOLEAN
  BY DEF Types, WhileRunning, FlagsOK
<1> USE DEF attempt, eventRest, functorRest, loopSide, userVars
<1>1. ASSUME NEW f \in Functors, functors' = Append(functors, f), batch' = batch
      PROVE  \A x : Queued(x)' <=> Queued(x) \/ f = x
  BY <1>0, <1>1, Appending
<1>2. "reset" \in Functors /\ "stop" \in Functors /\ "start" \in Functors
      /\ "destroyed" \in Functors
  BY DEF Functors
<1>3. ASSUME UNCHANGED queues PROVE Queued("stop")' <=> Queued("stop")
  BY <1>3, SameQueues
<1>4. Event("channel") => state = "kConnecting"
  BY <1>0 DEF Event, PhasesOK
<1>5. CASE Poll \/ BatchDone
  BY <1>3, <1>5, NoCall DEF Poll, BatchDone
<1>6. CASE TakeFunctors
  <2>1. UNCHANGED <<state, made, call, connect, wanted, client, overridden>>
    BY <1>6 DEF TakeFunctors
  <2>2. Queued("stop")' <=> Queued("stop")
    BY <1>0, <1>6, TakingAll DEF TakeFunctors, PhasesOK
  <2> QED BY <2>1, <2>2, NoCall
<1>7. CASE HandleError \/ HandleSelfConnect \/ HandleWrite
  <2>1. /\ UNCHANGED <<made, call, connect, wanted, client, overridden>>
        /\ functors' = Append(functors, "reset") /\ batch' = batch /\ state = "kConnecting"
    BY <1>4, <1>7 DEF HandleError, HandleSelfConnect, HandleWrite, RetryLater, QueueReset
  <2>2. Queued("stop") => Queued("stop")'
    BY <1>1, <1>2, <2>1
  <2> QED BY <2>1, <2>2, NoCall
<1>8. ASSUME StartInLoop, UNCHANGED <<made, call, wanted, client, overridden>>,
             Queued("stop") => Queued("stop")'
      PROVE  Goal
  <2>1. /\ state = "kDisconnected" /\ UNCHANGED connect
        /\ \/ ~connect /\ UNCHANGED state
           \/ connect /\ state' = "kDisconnected" /\ client # "gone"
           \/ connect /\ state' = "kConnecting"
    BY <1>8, Starting DEF Refused, Begun
  <2>2. CASE state' = "kDisconnected"
    BY <1>8, <2>1, <2>2, NoCall
  <2>3. CASE connect /\ state' = "kConnecting"
    <3> USE DEF LastCall, OneConnect
    <3>1. StopOK'
      BY <1>0, <1>8, <2>1, <2>3 DEF StopOK, Idle
    <3>2. DestroyOK'
      BY <1>0, <1>8, <2>1, <2>3 DEF DestroyOK
    <3>3. CallsOK'
      BY <1>0, <1>8 DEF CallsOK
    <3> QED BY <3>1, <3>2, <3>3
  <2> QED BY <2>1, <2>2, <2>3
<1>9. CASE HandleTimer
  <2>1. StartInLoop /\ UNCHANGED <<made, call, wanted, client, overridden, queues>>
    BY <1>9 DEF HandleTimer, queues
  <2> QED BY <1>3, <1>8, <2>1
<1>10. CASE RemoveConnection
  <2>1. /\ UNCHANGED <<state, made, call, connect, wanted, client, overridden>>
        /\ functors' = Append(functors, "destroyed") /\ batch' = batch
    BY <1>10 DEF RemoveConnection
  <2>2. Queued("stop") => Queued("stop")'
    BY <1>1, <1>2, <2>1
  <2> QED BY <2>1, <2>2, NoCall
<1>11. CASE Restart
  <2>1. /\ client # "gone" /\ overridden' = (overridden \/ ~wanted)
        /\ UNCHANGED <<made, call, wanted, client>>
    BY <1>11 DEF Restart, Fail, Running
  <2> USE DEF LastCall
  <2>2. StopOK'
    BY <1>0, <2>1, Zenon DEF StopOK
  <2>3. DestroyOK'
    BY <1>0, <2>1 DEF DestroyOK
  <2>4. CallsOK'
    BY <1>0, <2>1 DEF CallsOK
  <2> QED BY <2>2, <2>3, <2>4
<1>12. CASE RunStart
  <2>1. /\ StartInLoop /\ UNCHANGED <<made, call, wanted, client, overridden, functors>>
        /\ Functor("start")
    BY <1>12 DEF RunStart
  <2>2. Queued("stop") => Queued("stop")'
    BY <1>0, <2>1, Turn
  <2> QED BY <1>8, <2>1, <2>2
<1>13. CASE RunStop
  <2>1. /\ UNCHANGED <<made, call, wanted, client, overridden>>
        /\ \/ state # "kConnecting" /\ UNCHANGED <<attempt, timers>>
           \/ state = "kConnecting" /\ RetryLater
    BY <1>0, <1>13, Stopping
  <2>2. /\ UNCHANGED connect /\ state' # "kConnecting"
        /\ state = "kConnected" => state' = "kConnected"
    BY <2>1 DEF RetryLater
  <2> QED BY <2>1, <2>2, NoCall
<1>14. CASE RunReset \/ RunDestroyed
  <2>1. UNCHANGED <<state, made, call, connect, wanted, client, overridden, functors>>
    BY <1>14 DEF RunReset, RunDestroyed
  <2>2. Queued("stop") => Queued("stop")'
    BY <1>0, <1>14, <2>1, Turn DEF RunReset, RunDestroyed
  <2> QED BY <2>1, <2>2, NoCall
<1>15. ASSUME NEW c \in {"connect", "stop"}, ConnectOrStop(c) PROVE Goal
  <2>1. /\ LastCall' = c /\ call' = <<c, "flag">> /\ wanted' = (c = "connect")
    BY <1>0, <1>15, Calling DEF ConnectOrStop, UserCalls
  <2>2. call' # Idle /\ call'[1] = c
    BY <1>15, <2>1 DEF Idle
  <2>3. StopOK' /\ DestroyOK' /\ CallsOK'
    BY <1>15, <2>1, <2>2 DEF StopOK, DestroyOK, CallsOK
  <2> QED BY <2>3
<1>16. CASE Disconnect
  <2>1. /\ LastCall' = "disconnect" /\ call' = Idle
    BY <1>0, <1>16, Calling DEF Disconnect, UserCalls
  <2> QED BY <2>1 DEF StopOK, DestroyOK, CallsOK
<1>17. CASE Destroy
  <2>1. LastCall' = "destroy" /\ call = Idle /\ client' = "gone" /\ state' = state
    BY <1>0, <1>17, Calling DEF Destroy, UserCalls
  <2>2. CallsOK' /\ StopOK'
    BY <1>17, <2>1 DEF Destroy, CallsOK, StopOK
  <2>3. CASE conn
    <3>1. state = "kConnected" /\ call' = Idle
      BY <1>0, <1>17, <2>1, <2>3 DEF PhasesOK, Destroy
    <3> QED BY <2>1, <2>2, <3>1 DEF DestroyOK, Idle
  <2>4. CASE ~conn
    <3>1. call' = <<"destroy", "flag">>
      BY <1>17, <2>4 DEF Destroy
    <3> QED BY <2>1, <2>2, <3>1 DEF DestroyOK, Idle
  <2> QED BY <2>3, <2>4
<1>18. CASE SetFlag
  <2>1. /\ call[2] = "flag" /\ connect' = (call[1] = "connect") /\ call' = <<call[1], "queue">>
        /\ UNCHANGED <<state, wanted, client, made, overridden>>
    BY <1>18 DEF SetFlag
  <2>2. LastCall = call[1] /\ call' # Idle /\ call'[1] = call[1] /\ LastCall' = LastCall
    BY <1>0, <2>1 DEF CallsOK, Idle, LastCall
  <2>3. LastCall = "stop" \/ LastCall = "destroy" => ~connect'
    BY <2>1, <2>2
  <2>4. StopOK'
    BY <1>0, <2>1, <2>2, <2>3 DEF StopOK
  <2>5. DestroyOK'
    BY <1>0, <2>1, <2>2, <2>3 DEF DestroyOK
  <2> QED BY <2>2, <2>4, <2>5 DEF CallsOK
<1>19. CASE QueueCall
  <2>1. /\ call[2] = "queue" /\ call' = Idle /\ batch' = batch
        /\ functors' = Append(functors, IF call[1] = "connect" THEN "start" ELSE "stop")
        /\ UNCHANGED <<state, connect, wanted, client, made, overridden>>
    BY <1>19 DEF QueueCall
  <2>2. LastCall = call[1] /\ LastCall' = LastCall
    BY <1>0, <2>1 DEF CallsOK, Idle, LastCall
  <2>3. call = <<call[1], "queue">>
    BY <1>0, <2>1 DEF QueuesOK, Idle
  <2>4. call[1] # "connect" => Queued("stop")'
    BY <1>1, <1>2, <2>1
  <2>5. call # <<"stop", "flag">>
    BY <2>1
  <2> HIDE DEF Queued
  <2>6. StopOK'
    BY <1>0, <2>1, <2>2, <2>4, <2>5 DEF StopOK, Idle
  <2>7. DestroyOK'
    BY <1>0, <2>1, <2>2, <2>3, <2>4 DEF DestroyOK, OneConnect, Idle
  <2> QED BY <2>1, <2>6, <2>7 DEF CallsOK
<1>20. ASSUME NEW a \in Answers, Answer(a) PROVE Goal
  <2>1. UNCHANGED <<state, queues, made, call, connect, wanted, client, overridden>>
    BY <1>20 DEF Answer
  <2> QED BY <1>3, <2>1, NoCall
<1>21. ASSUME NEW c \in UserCalls, ConnectOrStop(c) PROVE Goal
  BY <1>15, <1>21 DEF ConnectOrStop
<1> QED BY <1>5, <1>6, <1>7, <1>9, <1>10, <1>11, <1>12, <1>13, <1>14, <1>16, <1>17, <1>18, <1>19,
           <1>20, <1>21, Zenon
        DEF Next, LoopThread, EventStep, FunctorStep, UserThread

-----------------------------------------------------------------------------
(* The assertions of the connector.                                         *)
LEMMA NextAssertions ==
  ASSUME Types, WhileRunning, Running, Next, OneConnect' PROVE failed' # "assert"
<1>0. /\ QueuesOK /\ PhasesOK /\ ChannelOK /\ failed = "none"
      /\ channel \in {"none", "polled", "removed"} /\ timers \in Nat
  BY DEF Types, WhileRunning, AttemptOK, Running
<1> USE DEF attempt, eventRest, functorRest, loopSide, userVars
<1>1. UNCHANGED made => OneConnect
  BY DEF OneConnect
<1>2. TryConnect /\ channel = "none" => failed' # "assert"
  BY <1>0 DEF TryConnect, ConnectFails, Connecting, CallsBack
<1>3. StartInLoop /\ state = "kDisconnected" /\ channel = "none" => failed' # "assert"
  BY <1>0, <1>2 DEF StartInLoop
<1>4. CASE Poll \/ TakeFunctors \/ BatchDone
  BY <1>0, <1>4 DEF Poll, TakeFunctors, BatchDone
<1>5. CASE HandleError \/ HandleWrite \/ HandleSelfConnect \/ RemoveConnection
  BY <1>0, <1>5 DEF HandleError, HandleWrite, HandleSelfConnect, RemoveConnection, RetryLater,
                    CallsBack
<1>6. CASE HandleTimer
  <2>1. OneConnect /\ "timer" \in active /\ timers > 0 /\ StartInLoop
    BY <1>0, <1>1, <1>6 DEF HandleTimer, Event, PhasesOK
  <2>2. channel = "none" /\ state = "kDisconnected"
    BY <1>0, <2>1, OneOnItsWay DEF ChannelOK
  <2> QED BY <1>3, <2>1, <2>2
<1>7. CASE Restart
  <2>1. channel = "none"
    BY <1>0, <1>7 DEF Restart, PhasesOK, ChannelOK
  <2> QED BY <1>2, <1>7, <2>1 DEF Restart, Fail
<1>8. CASE RunStart
  <2>1. OneConnect /\ Queued("start") /\ StartInLoop
    BY <1>0, <1>1, <1>8, Turn DEF RunStart
  <2>2. channel = "none" /\ state = "kDisconnected"
    BY <1>0, <2>1, OneOnItsWay DEF ChannelOK
  <2> QED BY <1>3, <2>1, <2>2
<1>9. CASE RunStop \/ RunReset \/ RunDestroyed
  BY <1>0, <1>9 DEF RunStop, RunReset, RunDestroyed, Fail, RetryLater
<1>10. ASSUME NEW c \in UserCalls, ConnectOrStop(c) PROVE failed' # "assert"
  BY <1>0, <1>10 DEF ConnectOrStop
<1>11. CASE Disconnect \/ Destroy \/ SetFlag \/ QueueCall
  BY <1>0, <1>11 DEF Disconnect, Destroy, SetFlag, QueueCall
<1>12. ASSUME NEW a \in Answers, Answer(a) PROVE failed' # "assert"
  BY <1>0, <1>12 DEF Answer
<1> QED BY <1>4, <1>5, <1>6, <1>7, <1>8, <1>9, <1>10, <1>11, <1>12, Zenon
        DEF Next, LoopThread, EventStep, FunctorStep, UserThread

LEMMA NextClientInv == ClientInv /\ [Next]_vars => ClientInv'
<1> SUFFICES ASSUME ClientInv, [Next]_vars PROVE ClientInv'
  OBVIOUS
<1>0. Types /\ (Running => WhileRunning) /\ (OneConnect => failed # "assert")
  BY DEF ClientInv
<1>1. Types'
  BY <1>0, NextFlags, NextAttempt, NextPlaces, NextQueues DEF Types
<1>2. CASE UNCHANGED vars
  <2>1. UNCHANGED <<failed, made, functors, batch, call, timers, state, channel, socket, fds,
                    conn, wanted, client, loop, active, connect, overridden>>
    BY <1>2, Zenon DEF vars, attempt, queues, userVars
  <2>2. Running' => WhileRunning'
    BY <1>0, <2>1 DEF Running, WhileRunning, PhasesOK, Accounted, Bounded, ChannelOK, StopOK,
                      DestroyOK, CallsOK, Waiting, Queued, OneConnect, LastCall
  <2>3. OneConnect' => failed' # "assert"
    BY <1>0, <2>1 DEF OneConnect
  <2> QED BY <1>1, <2>2, <2>3 DEF ClientInv
<1>3. CASE Next /\ Running
  <2>1. Running' => WhileRunning'
    BY <1>0, <1>3, NextPhases, NextAccounted, NextBounded, NextChannel, NextCalls
    DEF WhileRunning
  <2>2. OneConnect' => failed' # "assert"
    BY <1>0, <1>3, NextAssertions
  <2> QED BY <1>1, <2>1, <2>2 DEF ClientInv
<1> QED BY <1>2, <1>3, StepsRun

LEMMA ClientTypes == Types => TypeOK
BY Zenon DEF Types, FlagsOK, AttemptOK, PlacesOK, QueuesOK, TypeOK

LEMMA ClientInvariant == Spec => []ClientInv
BY InitClientInv, NextClientInv, PTL DEF Spec

(* The connector and the client open and close each socket once, however    *)
(* attempts, retries, stop and the destructor cross (connector.cpp:61-205, *)
(* tcp_client.cpp:75-177).                                                 *)
THEOREM SocketsAreAccounted == Spec => []SocketsAccounted
<1>1. ClientInv => SocketsAccounted
  <2> SUFFICES ASSUME ClientInv PROVE SocketsAccounted
    OBVIOUS
  <2>1. TypeOK /\ (Running => Accounted) /\ QueuesOK /\ conn \in BOOLEAN /\ fds \in Nat
    BY ClientTypes DEF ClientInv, WhileRunning, Types, FlagsOK, AttemptOK
  <2>2. Count("destroyed", functors) \in Nat /\ Count("destroyed", batch) \in Nat
    BY <2>1, CountType DEF QueuesOK
  <2> QED BY <2>1, <2>2 DEF SocketsAccounted, Accounted, Waiting, Unit
<1> QED BY <1>1, ClientInvariant, PTL

(* With one call of connect() the assertions of the connector never fail,   *)
(* whatever the kernel answers and however often it retries               *)
(* (connector.cpp:79-87, 135-143).                                          *)
THEOREM OneConnectHolds == Spec => []OneConnectIsSafe
<1>1. ClientInv => OneConnectIsSafe
  BY DEF ClientInv, OneConnect, OneConnectIsSafe
<1> QED BY <1>1, ClientInvariant, PTL

(* Once stop() has run in the loop nothing is attempted and no timer will   *)
(* attempt it, unless restart has undone the stop (tcp_client.cpp:75-122,  *)
(* connector.cpp:66-96).                                                   *)
THEOREM StoppedForGood == Spec => []StopEndsAttempts
<1>1. ClientInv => StopEndsAttempts
  <2> SUFFICES ASSUME ClientInv, Stopped, ~overridden
               PROVE  state # "kConnecting" /\ (timers > 0 => ~connect)
    BY DEF StopEndsAttempts
  <2>1. /\ call = Idle /\ ~Queued("stop") /\ Types /\ WhileRunning
        /\ LastCall = "stop" \/ (LastCall = "destroy" /\ OneConnect)
    BY DEF Stopped, ClientInv, Queued, OneConnect
  <2>2. CASE LastCall = "stop"
    BY <2>1, <2>2 DEF WhileRunning, StopOK, Idle
  <2>3. CASE LastCall = "destroy" /\ OneConnect
    <3>1. state # "kConnecting" /\ (~connect \/ state = "kConnected")
      BY <2>1, <2>3 DEF WhileRunning, DestroyOK
    <3>2. timers > 0 => state = "kDisconnected"
      BY <2>1, <2>3, OneOnItsWay
    <3> QED BY <3>1, <3>2
  <2> QED BY <2>1, <2>2, <2>3
<1> QED BY <1>1, ClientInvariant, PTL
=============================================================================
