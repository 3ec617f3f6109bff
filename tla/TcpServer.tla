----------------------------- MODULE TcpServer -----------------------------
(***************************************************************************)
(* brsdk::net::TcpServer with its Acceptor, over the loops of an           *)
(* EventLoopThreadPool.  Of each TcpConnection only what its server        *)
(* depends on is kept: state_, whether its channel is in the poller, and   *)
(* who holds a TcpConnectionPtr.                                           *)
(*                                                                         *)
(* Loop 0 is the base loop.  A step of a loop handles one event or runs    *)
(* one functor: what it decides is in which order the functors that loops  *)
(* send each other are run, not how they are batched.  Connections are     *)
(* numbered as they are created.  Descriptors are counted: those of the    *)
(* live connections, those of the acceptor, and those other threads open.  *)
(***************************************************************************)
EXTENDS EventLoopThreadPool, SequencesExt

CONSTANTS MaxConns,    \* bound on the clients that connect
          MaxFds       \* descriptors the process may open (RLIMIT_NOFILE)

ASSUME ServerAssumption == MaxConns \in Nat \ {0} /\ MaxFds \in Nat \ {0}

VARIABLES
  listening,    \* accept_channel_ is enabled
  arrived,      \* clients that have connected
  backlog,      \* those neither accepted nor refused yet
  accepting,    \* how far Acceptor::HandleRead is with EMFILE
  idleFd,       \* idle_fd_: "spare" is /dev/null, "client" a socket
  acceptorFds,  \* descriptors the acceptor has open, beside its socket
  others,       \* descriptors other threads have open
  stolen,       \* another thread opened one while EMFILE was handled
  made,         \* connections created
  nextConnId,   \* nextConnId_
  connections,  \* connections_: the connection under each name, 0 for none
  conn,         \* the connections
  queue,        \* pending_functors_ of each loop
  server,       \* "up", or "gone" once ~TcpServer has begun
  ended,        \* threads of the pool that have been joined
  used          \* "freed": the destroyed server was used

acceptorVars == <<listening, arrived, backlog, accepting, idleFd, acceptorFds,
                  others, stolen>>
mapVars == <<made, nextConnId, connections>>
serverVars == <<vars, acceptorVars, mapVars, conn, queue, server, ended, used>>

ConnIds == 1..MaxConns
Functors == [what : {"established", "destroyed", "remove"}, conn : ConnIds]

ServerTypeOK ==
  /\ TypeOK
  /\ listening \in BOOLEAN
  /\ arrived \in 0..MaxConns /\ backlog \in 0..MaxConns /\ made \in 0..MaxConns
  /\ accepting \in {"no", "spareClosed", "refused", "reopen"}
  /\ idleFd \in {"spare", "client", "none"}
  /\ acceptorFds \in 0..MaxFds /\ others \in 0..MaxFds
  /\ stolen \in BOOLEAN
  /\ nextConnId \in 1..MaxConns + 1
  /\ connections \in [ConnIds -> 0..MaxConns]
  /\ conn \in [ConnIds ->
       [state : {"kConnecting", "kConnected", "kDisconnected"},
        polled : BOOLEAN, loop : LoopNumbers, name : 0..MaxConns,
        ups : Nat, downs : Nat, ends : Nat]]
  /\ \A l \in LoopNumbers : Range(queue[l]) \subseteq Functors
  /\ server \in {"up", "gone"}
  /\ ended \subseteq LoopNumbers
  /\ used \in {"none", "freed"}

ServerInit ==
  /\ Init
  /\ listening = FALSE
  /\ arrived = 0 /\ backlog = 0
  /\ accepting = "no"
  /\ idleFd = "spare" /\ acceptorFds = 1
  /\ others = 0 /\ stolen = FALSE
  /\ made = 0 /\ nextConnId = 1
  /\ connections = [n \in ConnIds |-> 0]
  /\ conn = [c \in ConnIds |-> [state |-> "kConnecting", polled |-> FALSE,
                                loop |-> 0, name |-> 0,
                                ups |-> 0, downs |-> 0, ends |-> 0]]
  /\ queue = [l \in LoopNumbers |-> <<>>]
  /\ server = "up"
  /\ ended = {}
  /\ used = "none"

(* Somebody has a TcpConnectionPtr: the map, or a functor. *)
Held(c) == \/ \E n \in ConnIds : connections[n] = c
           \/ \E l \in LoopNumbers : \E f \in Range(queue[l]) : f.conn = c

Live == {c \in 1..made : Held(c)}
FreeFds == MaxFds - acceptorFds - others - Cardinality(Live)

Functor(w, c) == [what |-> w, conn |-> c]

(* The base loop's thread is free to run its loop: it is not inside         *)
(* HandleRead, nor joining the threads of the pool.                        *)
BaseRuns == accepting = "no" /\ (server = "up" \/ ended = 1..size)

LoopRuns(l) == used = "none" /\ IF l = 0 THEN BaseRuns ELSE l \notin ended

-----------------------------------------------------------------------------
(* What a loop does to a connection of its own. *)

Established(k) ==
  [k EXCEPT !.state = "kConnected", !.polled = TRUE, !.ups = @ + 1]

Closed(k) == [k EXCEPT !.state = "kDisconnected", !.downs = @ + 1]

Destroyed(k) ==
  LET down == IF k.state = "kConnected" THEN Closed(k) ELSE k IN
  [down EXCEPT !.polled = FALSE, !.ends = @ + 1]

(* TcpServer::start, in the base loop's thread.  started_ is never set: a   *)
(* second start starts the pool again.                                     *)
StartServer ==
  /\ LoopRuns(0) /\ server = "up"
  /\ Start
  /\ listening' = TRUE
  /\ UNCHANGED <<arrived, backlog, accepting, idleFd, acceptorFds, others,
                 stolen, mapVars, conn, queue, server, ended, used>>

SetServerThreads ==
  /\ LoopRuns(0) /\ server = "up"
  /\ \E n \in LoopNumbers : SetThreadnum(n)
  /\ UNCHANGED <<acceptorVars, mapVars, conn, queue, server, ended, used>>

-----------------------------------------------------------------------------
(* Acceptor::HandleRead. *)

(* Faulty: connections get the same name. *)
SameId == nextConnId

NextId == nextConnId + 1

ChosenLoop == IF size = 0 THEN 0 ELSE next + 1

(* TcpServer::NewConnection; RunInLoop runs ConnectEstablished at once if   *)
(* the connection is given the base loop.                                  *)
NewConnection ==
  LET c   == made + 1
      l   == ChosenLoop
      new == [conn[c] EXCEPT !.loop = l, !.name = nextConnId]
  IN /\ GetNextLoop
     /\ made' = c
     /\ nextConnId' = NextId
     /\ connections' = [connections EXCEPT ![nextConnId] = c]
     /\ conn' = [conn EXCEPT ![c] = IF l = 0 THEN Established(new) ELSE new]
     /\ queue' = IF l = 0 THEN queue
                 ELSE [queue EXCEPT ![l] = Append(@, Functor("established", c))]

AcceptClient ==
  /\ LoopRuns(0) /\ server = "up"
  /\ listening /\ backlog > 0 /\ FreeFds > 0
  /\ backlog' = backlog - 1
  /\ NewConnection
  /\ UNCHANGED <<listening, arrived, accepting, idleFd, acceptorFds, others,
                 stolen, server, ended, used>>

acceptorRest == <<vars, listening, arrived, others, stolen, mapVars, conn,
                  queue, server, ended, used>>

(* close on idle_fd_, which may be -1. *)
CloseIdle ==
  /\ idleFd' = "none"
  /\ acceptorFds' = IF idleFd = "none" THEN acceptorFds ELSE acceptorFds - 1

(* Faulty: the socket of the client that is refused stays open. *)
Overwritten == UNCHANGED <<idleFd, acceptorFds>>

CloseRefused == CloseIdle

(* accept fails with EMFILE. *)
CloseSpare ==
  /\ LoopRuns(0) /\ server = "up"
  /\ listening /\ backlog > 0 /\ FreeFds = 0
  /\ accepting' = "spareClosed"
  /\ CloseIdle
  /\ UNCHANGED <<acceptorRest, backlog>>

AcceptRefused ==
  /\ accepting = "spareClosed"
  /\ accepting' = "refused"
  /\ IF FreeFds > 0 /\ backlog > 0
     THEN /\ backlog' = backlog - 1
          /\ idleFd' = "client"
          /\ acceptorFds' = acceptorFds + 1
     ELSE UNCHANGED <<backlog, idleFd, acceptorFds>>
  /\ UNCHANGED acceptorRest

DropRefused ==
  /\ accepting = "refused"
  /\ accepting' = "reopen"
  /\ CloseRefused
  /\ UNCHANGED <<acceptorRest, backlog>>

ReopenSpare ==
  /\ accepting = "reopen"
  /\ accepting' = "no"
  /\ IF FreeFds > 0
     THEN idleFd' = "spare" /\ acceptorFds' = acceptorFds + 1
     ELSE idleFd' = "none" /\ UNCHANGED acceptorFds
  /\ UNCHANGED <<acceptorRest, backlog>>

-----------------------------------------------------------------------------
(* The end of connections, and of the server. *)

(* Faulty: the connection stays in connections_. *)
Kept(n) == connections

Erased(n) == [connections EXCEPT ![n] = 0]

QueueDestroyed(q, c) ==
  [q EXCEPT ![conn[c].loop] = Append(@, Functor("destroyed", c))]

(* TcpServer::RemoveConnectionInLoop, with the queues q. *)
RemoveConnectionInLoop(q, c) ==
  IF server = "gone"
  THEN used' = "freed" /\ queue' = q /\ UNCHANGED connections
  ELSE /\ connections' = Erased(conn[c].name)
       /\ queue' = QueueDestroyed(q, c)
       /\ UNCHANGED used

(* TcpConnection::HandleClose, for whatever reason, in the loop of c; its   *)
(* closeCallback_ is RemoveConnection, which hands c to the base loop.     *)
HandleClose(c) ==
  LET l == conn[c].loop IN
  /\ c \in Live /\ LoopRuns(l)
  /\ conn[c].state = "kConnected" /\ conn[c].polled
  /\ conn' = [conn EXCEPT ![c] = Closed(@)]
  /\ IF server = "gone" THEN used' = "freed" /\ UNCHANGED <<connections, queue>>
     ELSE IF l = 0 THEN RemoveConnectionInLoop(queue, c)
     ELSE /\ queue' = [queue EXCEPT ![0] = Append(@, Functor("remove", c))]
          /\ UNCHANGED <<connections, used>>
  /\ UNCHANGED <<vars, acceptorVars, made, nextConnId, server, ended>>

(* EventLoop::DoPendingFunctors, and ~EventLoop for what is left. *)
RunFunctor(l) ==
  /\ LoopRuns(l)
  /\ queue[l] # <<>>
  /\ LET f    == Head(queue[l])
         left == [queue EXCEPT ![l] = Tail(@)]
     IN \/ /\ f.what = "established"
           /\ conn' = [conn EXCEPT ![f.conn] = Established(@)]
           /\ queue' = left
           /\ UNCHANGED <<connections, used>>
        \/ /\ f.what = "destroyed"
           /\ conn' = [conn EXCEPT ![f.conn] = Destroyed(@)]
           /\ queue' = left
           /\ UNCHANGED <<connections, used>>
        \/ /\ f.what = "remove"
           /\ RemoveConnectionInLoop(left, f.conn)
           /\ UNCHANGED conn
  /\ UNCHANGED <<vars, acceptorVars, made, nextConnId, server, ended>>

InMap == {connections[n] : n \in ConnIds} \ {0}

(* ~TcpServer, in the base loop's thread: RunInLoop(ConnectDestroyed) for   *)
(* what is in the map; then the members go, the acceptor with them.        *)
DestroyServer ==
  /\ LoopRuns(0) /\ server = "up"
  /\ server' = "gone"
  /\ connections' = [n \in ConnIds |-> 0]
  /\ conn' = [c \in ConnIds |-> IF c \in InMap /\ conn[c].loop = 0
                                THEN Destroyed(conn[c]) ELSE conn[c]]
  /\ queue' = [l \in LoopNumbers |->
       queue[l] \o SetToSeq({Functor("destroyed", c) :
                              c \in {d \in InMap : l # 0 /\ conn[d].loop = l}})]
  /\ listening' = FALSE
  /\ backlog' = 0
  /\ idleFd' = "none" /\ acceptorFds' = 0
  /\ UNCHANGED <<vars, arrived, accepting, others, stolen, made, nextConnId,
                 ended, used>>

(* ~EventLoopThread: quit and join; what is queued is run before it ends. *)
JoinLoop(l) ==
  /\ used = "none"
  /\ server = "gone"
  /\ l \in (1..size) \ ended
  /\ queue[l] = <<>>
  /\ ended' = ended \cup {l}
  /\ UNCHANGED <<vars, acceptorVars, mapVars, conn, queue, server, used>>

-----------------------------------------------------------------------------
(* The clients and the other threads of the process. *)

outside == <<vars, mapVars, conn, queue, server, ended, used, listening,
             accepting, idleFd, acceptorFds>>

ClientArrives ==
  /\ listening /\ arrived < MaxConns
  /\ arrived' = arrived + 1
  /\ backlog' = backlog + 1
  /\ UNCHANGED <<outside, others, stolen>>

ClientGivesUp ==
  /\ backlog > 0
  /\ backlog' = backlog - 1
  /\ UNCHANGED <<outside, arrived, others, stolen>>

OthersOpen ==
  /\ FreeFds > 0
  /\ others' = others + 1
  /\ stolen' = (stolen \/ accepting # "no")
  /\ UNCHANGED <<outside, arrived, backlog>>

OthersClose ==
  /\ others > 0
  /\ others' = others - 1
  /\ UNCHANGED <<outside, arrived, backlog, stolen>>

-----------------------------------------------------------------------------
HandleAccept == \/ AcceptClient \/ CloseSpare \/ AcceptRefused \/ DropRefused
                \/ ReopenSpare

ServerNext ==
  \/ SetServerThreads \/ StartServer
  \/ HandleAccept
  \/ \E c \in ConnIds : HandleClose(c)
  \/ \E l \in LoopNumbers : RunFunctor(l) \/ JoinLoop(l)
  \/ DestroyServer
  \/ ClientArrives \/ ClientGivesUp \/ OthersOpen \/ OthersClose

ServerSpec == ServerInit /\ [][ServerNext]_serverVars

(* Every loop goes on; between two events it comes to its functors, so that *)
(* one that is queued does not wait for ever while the loop is in          *)
(* HandleRead again and again.                                             *)
ServerFairness ==
  /\ WF_serverVars(HandleAccept)
  /\ \A l \in LoopNumbers : /\ SF_serverVars(RunFunctor(l))
                            /\ WF_serverVars(JoinLoop(l))

FairServerSpec == ServerSpec /\ ServerFairness

-----------------------------------------------------------------------------
(* Properties. *)

(* Whoever ends a connection, and in whichever order the two loops come to  *)
(* it, ConnectEstablished runs on it first and once, ConnectDestroyed last *)
(* and once, and the user hears of its end once.                           *)
EndsOnce ==
  \A c \in 1..made :
    /\ conn[c].ups <= 1
    /\ conn[c].downs <= conn[c].ups
    /\ conn[c].ends <= conn[c].downs
    /\ conn[c].polled => conn[c].ends = 0

(* A connection is not freed while it is open or in the poller, since it is *)
(* in connections_, under a name of its own, or on its way out; and its    *)
(* name leads to it as long as the server is to know it.                   *)
HeldWhileOpen ==
  ServerTypeOK /\ (used = "none" =>
    \A c \in 1..made :
      /\ c \notin Live => conn[c].state = "kDisconnected" /\ ~conn[c].polled
      /\ server = "up" /\ conn[c].state # "kDisconnected" =>
           connections[conn[c].name] = c)

(* A client that waits is accepted or refused, even when no descriptor is   *)
(* left: unless another thread has taken the one that HandleRead gives up  *)
(* for a moment, which leaves it without a spare one.                      *)
BacklogMoves == backlog > 0 ~> backlog = 0 \/ stolen

(* A closed connection gives its descriptor back. *)
ClosedIsFreed ==
  \A c \in ConnIds :
    conn[c].state = "kDisconnected" ~> c \notin Live \/ used = "freed"
=============================================================================
