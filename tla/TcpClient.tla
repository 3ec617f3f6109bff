----------------------------- MODULE TcpClient -----------------------------
(***************************************************************************)
(* brsdk::net::TcpClient and its Connector: nonblocking connect, retries   *)
(* with a growing delay, a new attempt when the connection ends, and stop  *)
(* and destruction by a user thread while the loop does any of it.  The    *)
(* TcpConnection itself is only there or not (module TcpConnection).       *)
(*                                                                         *)
(* The model stops where an assertion fails, a null channel_ is used, or a *)
(* destroyed client or connector is called.                                *)
(***************************************************************************)
EXTENDS Naturals, FiniteSets, SequencesExt

CONSTANTS Retry,       \* TcpClient::retry_
          InitDelay,   \* kInitRetryDelayMs
          MaxDelay,    \* kMaxRetryDelayMs
          Answers,     \* what the kernel may answer to a connect
          MaxCalls     \* bound on the user's calls

ASSUME TcpClientAssumption ==
  /\ Retry \in BOOLEAN
  /\ InitDelay \in Nat \ {0} /\ MaxDelay \in Nat /\ InitDelay <= MaxDelay
  /\ "ok" \in Answers /\ Answers \subseteq {"ok", "refused", "self"}
  /\ MaxCalls \in Nat

VARIABLES
  state,     \* Connector::state_
  connect,   \* Connector::connect_
  channel,   \* Connector::channel_: "none", "polled", or "removed" from epoll
  delay,     \* Connector::retry_delayms_
  socket,    \* what the kernel has answered to the connecting socket
  fds,       \* sockets open
  timers,    \* StartInLoop calls set by retry
  active,    \* what poll has reported and is not handled yet
  functors,  \* pending_functors_
  batch,     \* those being run
  loop,      \* "poll", "events", "restart" (within RemoveConnection), "functors"
  conn,      \* TcpClient::connection_ is not null
  wanted,    \* TcpClient::connect_
  client,    \* "live" or "gone"
  call,      \* the user's call and what it does next, or Idle
  made,      \* the calls made
  answered,  \* the last attempt has ended in a connection or a failure reported
  overridden,\* restart has set connect_ after stop cleared TcpClient::connect_
  failed     \* "none", "assert", "null" or "freed"

attempt == <<state, connect, channel, delay, socket, fds>>
queues == <<functors, batch>>
userVars == <<wanted, client, call, made>>
vars == <<attempt, timers, active, queues, loop, conn, userVars, answered,
          overridden, failed>>

UserCalls == {"connect", "stop", "disconnect", "destroy"}
Idle == <<"none", "idle">>
Functors == {"start", "stop", "reset", "destroyed"}

TypeOK ==
  /\ state \in {"kDisconnected", "kConnecting", "kConnected"}
  /\ connect \in BOOLEAN
  /\ channel \in {"none", "polled", "removed"}
  /\ delay \in InitDelay..MaxDelay
  /\ socket \in {"none", "pending"} \cup Answers
  /\ fds \in Nat
  /\ timers \in Nat
  /\ active \subseteq {"channel", "timer", "closed"}
  /\ functors \in Seq(Functors) /\ batch \in Seq(Functors)
  /\ loop \in {"poll", "events", "restart", "functors"}
  /\ conn \in BOOLEAN
  /\ wanted \in BOOLEAN
  /\ client \in {"live", "gone"}
  /\ call \in {Idle} \cup (UserCalls \X {"flag", "queue"})
  /\ made \in Seq(UserCalls) /\ Len(made) <= MaxCalls
  /\ answered \in BOOLEAN
  /\ overridden \in BOOLEAN
  /\ failed \in {"none", "assert", "null", "freed"}

Init ==
  /\ state = "kDisconnected"
  /\ connect = FALSE
  /\ channel = "none"
  /\ delay = InitDelay
  /\ socket = "none"
  /\ fds = 0
  /\ timers = 0
  /\ active = {}
  /\ functors = <<>> /\ batch = <<>>
  /\ loop = "poll"
  /\ conn = FALSE
  /\ wanted = TRUE
  /\ client = "live"
  /\ call = Idle
  /\ made = <<>>
  /\ answered = TRUE
  /\ overridden = FALSE
  /\ failed = "none"

Running == failed = "none"
LastCall == IF made = <<>> THEN "none" ELSE Last(made)

-----------------------------------------------------------------------------
(* Parts of the handlers: their effect on the attempt, answered and failed. *)

(* A callback bound with the client's this. *)
CallsBack == failed' = IF client = "gone" THEN "freed" ELSE failed

Fail(why) == failed' = why /\ UNCHANGED <<attempt, answered>>

(* An error that connect(2) returns at once is reported, not tried again. *)
ConnectFails ==
  /\ answered' = TRUE
  /\ CallsBack
  /\ state' = "kDisconnected"
  /\ UNCHANGED <<channel, socket, fds>>

(* Faulty: the channel does not ask for POLLOUT. *)
NotPolled == "removed"

Watched == "polled"

(* connecting asserts that channel_ is null. *)
Connecting ==
  /\ state' = "kConnecting"
  /\ fds' = fds + 1
  /\ IF channel # "none"
     THEN failed' = "assert" /\ UNCHANGED <<channel, socket, answered>>
     ELSE /\ channel' = Watched
          /\ socket' = "pending"
          /\ answered' = FALSE
          /\ UNCHANGED failed

(* Connector::connect *)
TryConnect == ConnectFails \/ Connecting

(* Faulty: the flag that stop clears is not read. *)
StartsAlways == TRUE

MayStart == connect

StartInLoop ==
  IF state # "kDisconnected" THEN Fail("assert")
  ELSE IF MayStart THEN TryConnect /\ UNCHANGED <<connect, delay>>
       ELSE UNCHANGED <<attempt, answered, failed>>

(* Faulty: the socket of the failed attempt stays open. *)
KeepsOpen == fds

Closed == fds - 1

NextDelay == IF 2 * delay < MaxDelay THEN 2 * delay ELSE MaxDelay

(* Faulty: channel_ is not reset. *)
KeepsChannel == functors

QueueReset == Append(functors, "reset")

(* RemoveAndResetChannel and retry *)
RetryLater ==
  /\ channel' = "removed"
  /\ socket' = "none"
  /\ functors' = QueueReset
  /\ fds' = Closed
  /\ state' = "kDisconnected"
  /\ timers' = IF connect THEN timers + 1 ELSE timers
  /\ delay' = IF connect THEN NextDelay ELSE delay
  /\ UNCHANGED <<connect, answered, failed>>

-----------------------------------------------------------------------------
(* The loop. *)

Answered == channel = "polled" /\ socket # "pending"

(* EventLoop::loop; what is ready at this time is handled before the       *)
(* functors.  The retry delay is longer than one iteration: retry has      *)
(* queued ResetChannel, which runs first.                                  *)
Poll ==
  /\ Running /\ loop = "poll"
  /\ \E r \in SUBSET {"channel", "timer", "closed"} :
       /\ ("channel" \in r) = Answered
       /\ "timer" \in r => timers > 0 /\ "reset" \notin Range(functors)
       /\ "closed" \in r => conn
       /\ r # {} \/ functors # <<>>
       /\ active' = r
  /\ loop' = "events"
  /\ UNCHANGED <<attempt, timers, queues, conn, userVars, answered, overridden,
                 failed>>

TakeFunctors ==
  /\ Running /\ loop = "events" /\ active = {}
  /\ loop' = "functors"
  /\ batch' = functors
  /\ functors' = <<>>
  /\ UNCHANGED <<attempt, timers, active, conn, userVars, answered, overridden,
                 failed>>

BatchDone ==
  /\ Running /\ loop = "functors" /\ batch = <<>>
  /\ loop' = "poll"
  /\ UNCHANGED <<attempt, timers, active, queues, conn, userVars, answered,
                 overridden, failed>>

Event(e) ==
  /\ Running /\ loop = "events"
  /\ e \in active
  /\ active' = active \ {e}

eventRest == <<loop, batch, userVars, overridden>>

(* POLLERR comes before POLLOUT. *)
HandleError ==
  /\ Event("channel") /\ socket = "refused"
  /\ RetryLater
  /\ UNCHANGED <<eventRest, conn>>

(* HandleWrite of a connected socket.  NewConnection puts it in             *)
(* connection_; after a stop it is closed and the failure reported.        *)
HandleWrite ==
  /\ Event("channel") /\ socket = "ok"
  /\ channel' = "removed"
  /\ socket' = "none"
  /\ functors' = QueueReset
  /\ state' = "kConnected"
  /\ conn' = connect
  /\ fds' = IF connect THEN fds ELSE Closed
  /\ answered' = TRUE
  /\ CallsBack
  /\ UNCHANGED <<eventRest, connect, delay, timers>>

(* HandleWrite of a socket connected to itself neither closes it nor tries  *)
(* again; it is still called "self".                                       *)
HandleSelfConnect ==
  /\ Event("channel") /\ socket = "self"
  /\ channel' = "removed"
  /\ functors' = QueueReset
  /\ UNCHANGED <<eventRest, state, connect, delay, socket, fds, timers, conn,
                 answered, failed>>

(* The timer that retry has set. *)
HandleTimer ==
  /\ Event("timer")
  /\ StartInLoop
  /\ timers' = timers - 1
  /\ UNCHANGED <<eventRest, functors, conn>>

(* The connection ends: RemoveConnection, or _RemoveConnection once the     *)
(* client is gone.                                                         *)
RemoveConnection ==
  /\ Event("closed")
  /\ conn' = FALSE
  /\ functors' = Append(functors, "destroyed")
  /\ loop' = IF client = "live" /\ Retry /\ wanted THEN "restart" ELSE loop
  /\ UNCHANGED <<attempt, timers, batch, userVars, answered, overridden, failed>>

(* Connector::restart, called by RemoveConnection after its test. *)
Restart ==
  /\ Running /\ loop = "restart"
  /\ loop' = "events"
  /\ IF client = "gone"
     THEN Fail("freed") /\ UNCHANGED overridden
     ELSE /\ delay' = InitDelay
          /\ connect' = TRUE
          /\ TryConnect
          /\ overridden' = (overridden \/ ~wanted)
  /\ UNCHANGED <<timers, active, queues, conn, userVars>>

Functor(f) ==
  /\ Running /\ loop = "functors" /\ batch # <<>>
  /\ Head(batch) = f
  /\ batch' = Tail(batch)

functorRest == <<loop, active, conn, userVars, overridden>>

RunStart ==
  /\ Functor("start")
  /\ StartInLoop
  /\ UNCHANGED <<functorRest, timers, functors>>

(* StopInLoop *)
RunStop ==
  /\ Functor("stop")
  /\ CASE state # "kConnecting" ->
            UNCHANGED <<attempt, timers, functors, answered, failed>>
       [] state = "kConnecting" /\ channel = "none" ->
            Fail("null") /\ UNCHANGED <<timers, functors>>
       [] OTHER -> RetryLater
  /\ UNCHANGED functorRest

(* ResetChannel *)
RunReset ==
  /\ Functor("reset")
  /\ channel' = "none"
  /\ UNCHANGED <<functorRest, state, connect, delay, socket, fds, timers,
                 functors, answered, failed>>

(* TcpConnection::ConnectDestroyed; the connection closes its socket. *)
RunDestroyed ==
  /\ Functor("destroyed")
  /\ fds' = fds - 1
  /\ UNCHANGED <<functorRest, state, connect, channel, delay, socket, timers,
                 functors, answered, failed>>

-----------------------------------------------------------------------------
(* The kernel. *)

Answer(a) ==
  /\ Running
  /\ channel = "polled" /\ socket = "pending"
  /\ socket' = a
  /\ UNCHANGED <<state, connect, channel, delay, fds, timers, active, queues,
                 loop, conn, userVars, answered, overridden, failed>>

-----------------------------------------------------------------------------
(* The user's thread. *)

loopSide == <<state, channel, delay, socket, fds, timers, active, batch, loop,
              conn>>

Begin(c) ==
  /\ Running
  /\ call = Idle /\ client = "live" /\ Len(made) < MaxCalls
  /\ made' = Append(made, c)
  /\ UNCHANGED <<loopSide, connect, functors, answered>>

ConnectOrStop(c) ==
  /\ c \in {"connect", "stop"}
  /\ Begin(c)
  /\ wanted' = (c = "connect")
  /\ call' = <<c, "flag">>
  /\ overridden' = (overridden /\ c # "connect")
  /\ UNCHANGED <<client, failed>>

(* disconnect() also shuts the connection down, which may end anyhow. *)
Disconnect ==
  /\ Begin("disconnect")
  /\ wanted' = FALSE
  /\ UNCHANGED <<client, call, overridden, failed>>

(* Functors bound with the connector's this. *)
ConnectorFunctors == (Range(functors) \cup Range(batch)) \ {"destroyed"}

(* ~TcpClient.  With a connection it frees the connector, unless a timer    *)
(* holds it; without one it stops it and holds it for a second, longer     *)
(* than any functor waits.                                                 *)
Destroy ==
  /\ Begin("destroy")
  /\ client' = "gone"
  /\ IF conn
     THEN /\ failed' = IF timers = 0 /\ ConnectorFunctors # {}
                       THEN "freed" ELSE failed
          /\ UNCHANGED call
     ELSE call' = <<"destroy", "flag">> /\ UNCHANGED failed
  /\ UNCHANGED <<wanted, overridden>>

(* Connector::start and stop: connect_, and then the functor. *)
SetFlag ==
  /\ Running
  /\ call[2] = "flag"
  /\ connect' = (call[1] = "connect")
  /\ call' = <<call[1], "queue">>
  /\ UNCHANGED <<loopSide, functors, wanted, client, made, answered, overridden,
                 failed>>

QueueCall ==
  /\ Running
  /\ call[2] = "queue"
  /\ functors' = Append(functors, IF call[1] = "connect" THEN "start" ELSE "stop")
  /\ answered' = (answered /\ call[1] # "connect")
  /\ call' = Idle
  /\ UNCHANGED <<loopSide, connect, wanted, client, made, overridden, failed>>

-----------------------------------------------------------------------------
EventStep == \/ HandleError \/ HandleWrite \/ HandleSelfConnect \/ HandleTimer
             \/ RemoveConnection
FunctorStep == RunStart \/ RunStop \/ RunReset \/ RunDestroyed
LoopThread == \/ Poll \/ EventStep \/ Restart
              \/ TakeFunctors \/ FunctorStep \/ BatchDone
UserThread == \/ \E c \in UserCalls : ConnectOrStop(c)
              \/ Disconnect \/ Destroy \/ SetFlag \/ QueueCall

Next == LoopThread \/ UserThread \/ \E a \in Answers : Answer(a)

Spec == Init /\ [][Next]_vars

(* Both threads run, the kernel answers, timers fire, and the server is not *)
(* away for ever.                                                          *)
Fairness ==
  /\ WF_vars(LoopThread)
  /\ WF_vars(SetFlag) /\ WF_vars(QueueCall)
  /\ WF_vars(\E a \in Answers : Answer(a))
  /\ SF_vars(Answer("ok"))
  /\ SF_vars(HandleTimer)
  /\ SF_vars(Poll /\ "timer" \in active')

FairSpec == Spec /\ Fairness

-----------------------------------------------------------------------------
Count(x, s) == Cardinality({i \in DOMAIN s : s[i] = x})

(* Every socket is that of the one attempt or of a connection that was      *)
(* handed over and not freed yet, whichever way attempts and stops cross.  *)
SocketsAccounted ==
  TypeOK /\ (Running =>
    fds = (IF state = "kConnecting" THEN 1 ELSE 0) + (IF conn THEN 1 ELSE 0)
            + Count("destroyed", functors) + Count("destroyed", batch))

(* As long as connect() is called once, the assertions of the connector     *)
(* hold: no attempt begins while another, or its channel, is there.        *)
OneConnectIsSafe == Count("connect", made) <= 1 => failed # "assert"

(* The last call was stop(), or the destructor (when connect() was not      *)
(* called twice), and it has run to its end in the loop.                   *)
Stopped ==
  /\ Running
  /\ \/ LastCall = "stop"
     \/ LastCall = "destroy" /\ Count("connect", made) <= 1
  /\ call = Idle
  /\ "stop" \notin Range(functors) \cup Range(batch)
  /\ loop # "restart"

(* After stop() and its StopInLoop nothing is attempted any more, unless    *)
(* the end of a connection restarts the connector in between.              *)
StopEndsAttempts ==
  Stopped /\ ~overridden => state # "kConnecting" /\ (timers > 0 => ~connect)

(* connect(), and the end of a connection that is to be restored, lead to a *)
(* connection or to a reported failure unless the user gives up; a socket  *)
(* connected to itself is stuck.                                           *)
ConnectIsAnswered ==
  ~answered ~> \/ answered \/ ~connect \/ ~Running
               \/ state = "kConnecting" /\ socket = "self"

(* stop() stops the client, restart or not.  It need not: see the findings. *)
StopIsFinal == Stopped => state # "kConnecting" /\ (timers > 0 => ~connect)

=============================================================================
