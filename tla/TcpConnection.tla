--------------------------- MODULE TcpConnection ---------------------------
(***************************************************************************)
(* brsdk::net::TcpConnection on its own I/O loop, with its EventChannel    *)
(* and the epoll poller below it, the TcpServer that owns it in another    *)
(* loop, and one user thread that holds a TcpConnectionPtr.                *)
(*                                                                         *)
(* The I/O loop alternates between poll, the handlers of the active        *)
(* channel and the functors queued until then (EventLoop).  state_ is a    *)
(* plain field: send, shutdown and the ForceClose family test it, and      *)
(* write it, in the caller's thread.                                       *)
(*                                                                         *)
(* A message is Size units.  POLLERR is left out: HandleError only logs,   *)
(* and reading the error makes the read that follows return 0.  The model  *)
(* stops where an assertion of the code fails or a freed object is used.   *)
(***************************************************************************)
EXTENDS Naturals, SequencesExt

CONSTANTS Size,          \* units in a message
          MaxSends,        \* messages each of the two senders may send
          MaxFunctors,     \* bound on the functors waiting in the I/O loop
          UserCalls,       \* the calls the user thread makes
          ReplyCalls       \* the calls the message callback makes

Senders == {"user", "loop"}
Calls == {"send", "shutdown", "forceClose", "delayedClose", "startRead",
          "stopRead"}

ASSUME TcpConnectionAssumption ==
  /\ Size \in Nat \ {0}
  /\ MaxSends \in [Senders -> Nat]
  /\ MaxFunctors \in Nat \ {0}
  /\ UserCalls \subseteq Calls
  /\ ReplyCalls \subseteq Calls \ {"delayedClose"}

VARIABLES
  state,       \* state_
  events,      \* EventChannel::events_
  index,       \* EventChannel::index_; not "new": added_to_loop_ as well
  reading,     \* reading_
  output,      \* output_buffer_, a sequence of units
  wire,        \* the units the kernel has taken
  wrShut,      \* the write side of the socket is shut down
  peer,        \* what the peer did: "open", "fin" or "reset"
  polled,      \* poll has returned and its events are being handled
  revents,     \* those not handled yet
  functors,    \* pending_functors_ of the I/O loop
  batch,       \* those it is running
  removing,    \* RemoveConnectionInLoop calls queued in the server's loop
  server,      \* "holds" the connection, has "erased" it, or is "gone"
  userRef,     \* the user thread holds a TcpConnectionPtr
  call,        \* the call it is in, after the test of state_
  delayed,     \* the timer of ForceCloseWithDelay is set
  sent,        \* messages each sender has passed to send
  ups, downs,  \* calls of connectionCallback_
  slips,       \* "stale": state_ left kDisconnected; "readded": see Update;
               \* "halfClosed": see ConnectDestroyed
  failed       \* "none", "assert" or "freed"

chan == <<events, index>>
bytes == <<output, wire>>
loopVars == <<polled, revents, functors, batch>>
owners == <<server, userRef>>
vars == <<state, chan, reading, bytes, wrShut, peer, loopVars, removing,
          owners, call, delayed, sent, ups, downs, slips, failed>>

States == {"kConnecting", "kConnected", "kDisconnecting", "kDisconnected"}
Open == {"kConnected", "kDisconnecting"}
Functors == [what : Calls \cup {"established", "destroyed"}, msg : Nat]
Stages == {"idle", "send", "shutdown", "forceClose", "delayedClose",
           "queueShutdown", "queueForceClose"}

TypeOK ==
  /\ state \in States
  /\ events \subseteq {"in", "out"}
  /\ index \in {"new", "added", "deleted"}
  /\ reading \in BOOLEAN
  /\ wrShut \in BOOLEAN
  /\ peer \in {"open", "fin", "reset"}
  /\ polled \in BOOLEAN
  /\ revents \subseteq {"data", "eof", "hup", "out"}
  /\ Range(functors) \cup Range(batch) \subseteq Functors
  /\ Range(output) \cup Range(wire) \subseteq Senders \X Nat \X (1..Size)
  /\ removing \in 0..1
  /\ server \in {"holds", "erased", "gone"}
  /\ userRef \in BOOLEAN
  /\ call \in Stages
  /\ delayed \in BOOLEAN
  /\ \A s \in Senders : sent[s] \in 0..MaxSends[s]
  /\ ups \in 0..1 /\ downs \in 0..1
  /\ slips \subseteq {"stale", "readded", "halfClosed"}
  /\ failed \in {"none", "assert", "freed"}

Running == failed = "none" /\ slips = {}

Functor(w) == [what |-> w, msg |-> 0]
Message(s, k) == [i \in 1..Size |-> <<s, k, i>>]

(* TcpServer::NewConnection has created the connection, put it in           *)
(* connections_ and queued ConnectEstablished.                             *)
Init ==
  /\ state = "kConnecting"
  /\ events = {}
  /\ index = "new"
  /\ reading = TRUE
  /\ output = <<>> /\ wire = <<>>
  /\ wrShut = FALSE
  /\ peer = "open"
  /\ polled = FALSE /\ revents = {}
  /\ functors = <<Functor("established")>>
  /\ batch = <<>>
  /\ removing = 0
  /\ server = "holds"
  /\ userRef = FALSE
  /\ call = "idle"
  /\ delayed = FALSE
  /\ sent = [s \in Senders |-> 0]
  /\ ups = 0 /\ downs = 0
  /\ slips = {}
  /\ failed = "none"

(* Functors bound with shared_from_this() or a TcpConnectionPtr; the others *)
(* are bound with this.                                                    *)
Owning == {"established", "destroyed", "forceClose"}

(* Somebody has a TcpConnectionPtr: the connection is not freed. *)
Owned ==
  \/ server = "holds"
  \/ userRef
  \/ removing > 0
  \/ \E f \in Range(functors) \cup Range(batch) : f.what \in Owning

-----------------------------------------------------------------------------
(* The channel and the poller. *)

IsWriting == "out" \in events

(* EventChannel::update: epoll adds what is not registered, whatever its    *)
(* events, and drops what is registered and has none left.  A channel that  *)
(* is added with no events, or once the connection is closed, is still     *)
(* polled for POLLHUP: the slip "readded".                                 *)
Update(ev) ==
  /\ events' = ev
  /\ index' = IF index = "added" /\ ev = {} THEN "deleted" ELSE "added"
  /\ slips' = IF index # "added" /\ (ev = {} \/ state = "kDisconnected")
              THEN slips \cup {"readded"} ELSE slips

(* What epoll must report of the socket, and what it may. *)
Hangup == peer = "reset" \/ (peer = "fin" /\ wrShut)
Eof == "in" \in events /\ peer # "open"
AlwaysWritable == wrShut \/ peer = "reset"

Ready(r) ==
  /\ index = "added"
  /\ ("eof" \in r) = Eof
  /\ ("hup" \in r) = (Hangup /\ ~Eof)
  /\ "data" \in r => "in" \in events /\ peer = "open"
  /\ "out" \in r => IsWriting
  /\ IsWriting /\ AlwaysWritable => "out" \in r

(* EventLoop::loop polls; functors make the wakeup fd readable, and a timer *)
(* its timerfd.                                                            *)
Poll(r) ==
  /\ Running
  /\ ~polled /\ batch = <<>>
  /\ Owned
  /\ IF index = "added" THEN Ready(r) ELSE r = {}
  /\ r # {} \/ functors # <<>> \/ delayed
  /\ polled' = TRUE
  /\ revents' = r
  /\ UNCHANGED <<state, chan, reading, bytes, wrShut, peer, functors, batch,
                 removing, owners, call, delayed, sent, ups, downs, slips,
                 failed>>

PollReady == \E r \in SUBSET {"data", "eof", "hup", "out"} : Poll(r)
PollWritable == \E r \in SUBSET {"data", "eof", "hup", "out"} :
                  "out" \in r /\ Poll(r)

(* EventLoop::DoPendingFunctors takes the queue. *)
TakeFunctors ==
  /\ Running
  /\ polled /\ revents = {}
  /\ polled' = FALSE
  /\ batch' = functors
  /\ functors' = <<>>
  /\ UNCHANGED <<state, chan, reading, bytes, wrShut, peer, revents, removing,
                 owners, call, delayed, sent, ups, downs, slips, failed>>

-----------------------------------------------------------------------------
(* Parts of the handlers, in the I/O loop. *)

(* Faulty: the message goes past what is still in the buffer. *)
WritesPast == TRUE

(* SendInLoop tries the socket first when nothing is waiting. *)
DirectWrite == ~IsWriting /\ output = <<>>

(* Faulty: the channel does not ask for POLLOUT. *)
NeverWatches(rest) == FALSE

MustWatch(rest) == rest # <<>> /\ ~IsWriting

(* A failed write leaves the message in the buffer as well: fault_error is  *)
(* only set under errno == EWOULDBLOCK, where it cannot be.                *)
SendInLoop(m) ==
  IF state = "kDisconnected"
  THEN UNCHANGED <<chan, slips, bytes>>
  ELSE \E n \in 0..Len(m) :
         LET rest == SubSeq(m, n + 1, Len(m)) IN
         /\ n > 0 => DirectWrite /\ ~wrShut /\ peer # "reset"
         /\ wire' = wire \o SubSeq(m, 1, n)
         /\ output' = output \o rest
         /\ IF MustWatch(rest) THEN Update(events \cup {"out"})
                               ELSE UNCHANGED <<chan, slips>>

(* Faulty: the write side is shut whatever is waiting. *)
ShutsAtOnce == TRUE

MayShut == ~IsWriting

ShutDownInLoop == wrShut' = (wrShut \/ MayShut)

Tells == removing + 1

(* HandleClose asserts that the connection is open; the closeCallback_ is   *)
(* bound with the server's this.                                           *)
HandleClose ==
  IF state \in Open
  THEN /\ state' = "kDisconnected"
       /\ Update({})
       /\ downs' = downs + 1
       /\ removing' = Tells
       /\ failed' = IF server = "gone" THEN "freed" ELSE failed
  ELSE /\ failed' = "assert"
       /\ UNCHANGED <<state, chan, slips, downs, removing>>

StartReadInLoop ==
  IF ~reading \/ "in" \notin events
  THEN Update(events \cup {"in"}) /\ reading' = TRUE
  ELSE UNCHANGED <<chan, slips, reading>>

StopReadInLoop ==
  IF reading \/ "in" \in events
  THEN Update(events \ {"in"}) /\ reading' = FALSE
  ELSE UNCHANGED <<chan, slips, reading>>

-----------------------------------------------------------------------------
(* The event handlers.  EventChannel::HandleEventWithGuard calls, in this   *)
(* order, those of POLLHUP without POLLIN, of POLLIN and of POLLOUT; Owned *)
(* holds while it runs (tie).                                              *)

HandleHangup ==
  /\ Running
  /\ "hup" \in revents
  /\ revents' = revents \ {"hup"}
  /\ HandleClose
  /\ UNCHANGED <<reading, bytes, wrShut, peer, polled, functors, batch, owners,
                 call, delayed, sent, ups>>

(* HandleRead reads 0 bytes. *)
HandleEof ==
  /\ Running
  /\ "eof" \in revents
  /\ revents' = revents \ {"eof"}
  /\ HandleClose
  /\ UNCHANGED <<reading, bytes, wrShut, peer, polled, functors, batch, owners,
                 call, delayed, sent, ups>>

(* What the message callback does, in the I/O loop. *)
ReplySend ==
  /\ state = "kConnected" /\ sent["loop"] < MaxSends["loop"]
  /\ SendInLoop(Message("loop", sent["loop"] + 1))
  /\ sent' = [sent EXCEPT !["loop"] = @ + 1]
  /\ UNCHANGED <<state, wrShut, reading, functors>>

ReplyShutdown ==
  /\ state = "kConnected"
  /\ state' = "kDisconnecting"
  /\ ShutDownInLoop
  /\ UNCHANGED <<chan, slips, bytes, sent, reading, functors>>

ForceClose ==
  /\ state \in Open
  /\ state' = "kDisconnecting"
  /\ functors' = Append(functors, Functor("forceClose"))

Reply(c) ==
  CASE c = "send"       -> ReplySend
    [] c = "shutdown"   -> ReplyShutdown
    [] c = "forceClose" -> ForceClose /\ UNCHANGED <<chan, slips, bytes, sent,
                                                     wrShut, reading>>
    [] c = "startRead"  -> StartReadInLoop /\ UNCHANGED <<state, bytes, sent,
                                                          wrShut, functors>>
    [] c = "stopRead"   -> StopReadInLoop /\ UNCHANGED <<state, bytes, sent,
                                                         wrShut, functors>>
    [] c = "nothing"    -> UNCHANGED <<state, chan, slips, bytes, sent, wrShut,
                                       reading, functors>>

(* HandleRead with data; the callback is free not to reply. *)
HandleData ==
  /\ Running
  /\ "data" \in revents
  /\ revents' = revents \ {"data"}
  /\ \E c \in ReplyCalls \cup {"nothing"} : Reply(c)
  /\ UNCHANGED <<peer, polled, batch, removing, owners, call, delayed, ups,
                 downs, failed>>

(* Faulty: a part of the buffer is written and all of it is dropped. *)
DropsAll(n) == <<>>

Unwritten(n) == SubSeq(output, n + 1, Len(output))

(* Faulty: a half-closed connection is not shut down when it has drained. *)
ForgetsShutdown == wrShut

DrainedShut == wrShut \/ state = "kDisconnecting"

HandleWrite ==
  /\ Running
  /\ "out" \in revents /\ revents \cap {"hup", "eof", "data"} = {}
  /\ revents' = revents \ {"out"}
  /\ IF ~IsWriting \/ AlwaysWritable
     THEN UNCHANGED <<chan, slips, bytes, wrShut>>
     ELSE \E n \in 1..Len(output) :
            /\ wire' = wire \o SubSeq(output, 1, n)
            /\ output' = Unwritten(n)
            /\ IF n = Len(output)
               THEN Update(events \ {"out"}) /\ wrShut' = DrainedShut
               ELSE UNCHANGED <<chan, slips, wrShut>>
  /\ UNCHANGED <<state, reading, peer, polled, functors, batch, removing, owners,
                 call, delayed, sent, ups, downs, failed>>

(* The timer of ForceCloseWithDelay, a weak callback of ForceClose. *)
Expire ==
  /\ Running
  /\ polled /\ delayed
  /\ delayed' = FALSE
  /\ IF Owned /\ state \in Open THEN ForceClose ELSE UNCHANGED <<state, functors>>
  /\ UNCHANGED <<chan, reading, bytes, wrShut, peer, polled, revents, batch,
                 removing, owners, call, sent, ups, downs, slips, failed>>

-----------------------------------------------------------------------------
(* The functors. *)

ConnectEstablished ==
  /\ state' = "kConnected"
  /\ Update(events \cup {"in"})
  /\ ups' = ups + 1
  /\ userRef' = TRUE
  /\ failed' = IF state = "kConnecting" THEN failed ELSE "assert"
  /\ UNCHANGED <<reading, bytes, wrShut, downs, removing>>

(* Faulty: the channel stays in the poller. *)
StaysAdded == index

Removed == "new"

(* Faulty: the user is told of the end although HandleClose has told him. *)
TellsAgain == TRUE

TellsUser == state = "kConnected"

(* channel_->remove() asserts that the channel has no events, but state_    *)
(* and the events of a half-closed connection are left as they are: the    *)
(* slip "halfClosed".                                                      *)
ConnectDestroyed ==
  /\ IF TellsUser
     THEN /\ state' = "kDisconnected"
          /\ events' = {}
          /\ downs' = downs + 1
          /\ UNCHANGED failed
     ELSE /\ failed' = IF events = {} THEN failed ELSE "assert"
          /\ UNCHANGED <<state, events, downs>>
  /\ slips' = IF state = "kDisconnecting" THEN slips \cup {"halfClosed"}
              ELSE slips
  /\ index' = Removed
  /\ UNCHANGED <<reading, bytes, wrShut, ups, userRef, removing>>

(* Faulty: ForceClose has already changed state_. *)
OnlyConnected == state = "kConnected"

StillOpen == state \in Open

ForceCloseInLoop ==
  IF StillOpen THEN HandleClose
  ELSE UNCHANGED <<state, chan, slips, downs, removing, failed>>

Run(f) ==
  CASE f.what = "established" -> ConnectEstablished
    [] f.what = "destroyed" -> ConnectDestroyed
    [] f.what = "send" ->
         /\ SendInLoop(Message("user", f.msg))
         /\ UNCHANGED <<state, reading, wrShut, ups, downs, userRef, removing,
                        failed>>
    [] f.what = "shutdown" ->
         /\ ShutDownInLoop
         /\ UNCHANGED <<state, chan, slips, reading, bytes, ups, downs, userRef,
                        removing, failed>>
    [] f.what = "forceClose" ->
         /\ ForceCloseInLoop
         /\ UNCHANGED <<reading, bytes, wrShut, ups, userRef>>
    [] f.what = "startRead" ->
         /\ StartReadInLoop
         /\ UNCHANGED <<state, bytes, wrShut, ups, downs, userRef, removing,
                        failed>>
    [] f.what = "stopRead" ->
         /\ StopReadInLoop
         /\ UNCHANGED <<state, bytes, wrShut, ups, downs, userRef, removing,
                        failed>>

(* A functor bound with this may find the connection freed. *)
RunFunctor ==
  /\ Running
  /\ ~polled /\ batch # <<>>
  /\ batch' = Tail(batch)
  /\ IF Owned THEN Run(Head(batch))
     ELSE /\ failed' = "freed"
          /\ UNCHANGED <<state, chan, slips, reading, bytes, wrShut, ups, downs,
                         userRef, removing>>
  /\ UNCHANGED <<peer, polled, revents, functors, server, call, delayed, sent>>

-----------------------------------------------------------------------------
(* The user thread. *)

(* What send, shutdown, ForceClose and ForceCloseWithDelay test. *)
Allowed(c) ==
  /\ c \in {"send", "shutdown"} => state = "kConnected"
  /\ c \in {"forceClose", "delayedClose"} => state \in Open

userRest == <<chan, reading, bytes, wrShut, peer, polled, revents, batch,
              removing, owners, ups, downs, failed>>

TestState(c) ==
  /\ Running
  /\ userRef /\ call = "idle"
  /\ c \in UserCalls \cap {"send", "shutdown", "forceClose", "delayedClose"}
  /\ Allowed(c)
  /\ c = "send" => sent["user"] < MaxSends["user"]
  /\ c = "delayedClose" => ~delayed /\ Len(functors) < MaxFunctors
  /\ call' = c
  /\ UNCHANGED <<userRest, state, functors, delayed, sent, slips>>

(* set_state(kDisconnecting), whatever happened since the test.  One stale  *)
(* call is enough.                                                         *)
SetDisconnecting ==
  /\ Running
  /\ call \in {"shutdown", "forceClose", "delayedClose"}
  /\ state \in Open \/ "stale" \notin slips
  /\ state' = "kDisconnecting"
  /\ slips' = IF state \in Open THEN slips ELSE slips \cup {"stale"}
  /\ call' = CASE call = "shutdown" -> "queueShutdown"
               [] call = "forceClose" -> "queueForceClose"
               [] call = "delayedClose" -> "idle"
  /\ delayed' = (delayed \/ call = "delayedClose")
  /\ UNCHANGED <<userRest, functors, sent>>

Queued(f) == Append(functors, f)

(* RunInLoop from another thread. *)
QueueCall ==
  /\ Running
  /\ Len(functors) < MaxFunctors
  /\ \/ /\ call = "send"
        /\ sent' = [sent EXCEPT !["user"] = @ + 1]
        /\ functors' = Queued([what |-> "send", msg |-> sent["user"] + 1])
     \/ /\ call = "queueShutdown"
        /\ functors' = Queued(Functor("shutdown"))
        /\ UNCHANGED sent
     \/ /\ call = "queueForceClose"
        /\ functors' = Queued(Functor("forceClose"))
        /\ UNCHANGED sent
  /\ call' = "idle"
  /\ UNCHANGED <<userRest, state, delayed, slips>>

(* StartRead and StopRead test nothing. *)
QueueRead(c) ==
  /\ Running
  /\ userRef /\ call = "idle"
  /\ c \in UserCalls \cap {"startRead", "stopRead"}
  /\ Len(functors) < MaxFunctors
  /\ functors' = Queued(Functor(c))
  /\ UNCHANGED <<userRest, state, call, delayed, sent, slips>>

DropReference ==
  /\ Running
  /\ userRef /\ call = "idle"
  /\ userRef' = FALSE
  /\ UNCHANGED <<state, chan, reading, bytes, wrShut, peer, loopVars, removing,
                 server, call, delayed, sent, ups, downs, slips, failed>>

-----------------------------------------------------------------------------
(* The server's loop and the peer. *)

serverRest == <<state, chan, reading, bytes, wrShut, peer, polled, revents,
                batch, userRef, call, delayed, sent, ups, downs, slips>>

(* TcpServer::RemoveConnectionInLoop, bound with the server's this. *)
RemoveConnectionInLoop ==
  /\ Running
  /\ removing > 0
  /\ removing' = removing - 1
  /\ IF server = "gone"
     THEN failed' = "freed" /\ UNCHANGED <<server, functors>>
     ELSE /\ server' = "erased"
          /\ functors' = Append(functors, Functor("destroyed"))
          /\ UNCHANGED failed
  /\ UNCHANGED serverRest

(* ~TcpServer *)
DestroyServer ==
  /\ Running
  /\ server # "gone"
  /\ server' = "gone"
  /\ functors' = IF server = "holds"
                 THEN Append(functors, Functor("destroyed")) ELSE functors
  /\ UNCHANGED <<serverRest, removing, failed>>

PeerActs ==
  /\ Running
  /\ Owned
  /\ \/ peer = "open" /\ peer' = "fin"
     \/ peer # "reset" /\ peer' = "reset"
  /\ UNCHANGED <<state, chan, reading, bytes, wrShut, loopVars, removing, owners,
                 call, delayed, sent, ups, downs, slips, failed>>

-----------------------------------------------------------------------------
HandleEvent == HandleHangup \/ HandleEof \/ HandleData \/ HandleWrite
LoopThread == PollReady \/ HandleEvent \/ TakeFunctors \/ RunFunctor
UserThread == \/ \E c \in Calls : TestState(c) \/ QueueRead(c)
              \/ SetDisconnecting \/ QueueCall \/ DropReference
ServerThread == RemoveConnectionInLoop \/ DestroyServer

Next == LoopThread \/ Expire \/ UserThread \/ ServerThread \/ PeerActs

Spec == Init /\ [][Next]_vars

(* The threads run, a timer fires, and the peer reads what it is sent, so   *)
(* that the socket is writable again and again.                            *)
Fairness ==
  /\ WF_vars(LoopThread)
  /\ SF_vars(PollWritable)
  /\ SF_vars(Expire)
  /\ WF_vars(SetDisconnecting)
  /\ SF_vars(QueueCall)
  /\ WF_vars(RemoveConnectionInLoop)

FairSpec == Spec /\ Fairness

-----------------------------------------------------------------------------
MessagesOf(s, stream) == {u[2] : u \in {v \in Range(stream) : v[1] = s}}

(* Unit n of message k of a sender follows unit n - 1, and the first one    *)
(* all earlier messages of that sender.                                    *)
InPlace(stream, i) ==
  LET s == stream[i][1]
      k == stream[i][2]
      n == stream[i][3]
  IN /\ n = 1 => MessagesOf(s, SubSeq(stream, 1, i - 1)) = 1..k - 1
     /\ n > 1 => i > 1 /\ stream[i - 1] = <<s, k, n - 1>>
     /\ n < Size => i < Len(stream) /\ stream[i + 1] = <<s, k, n + 1>>

(* What the peer is sent is whole messages, each sender's in the order of   *)
(* its calls of send and none missing in between, however a message is     *)
(* divided between a direct write and the output buffer.                   *)
StreamInOrder ==
  Running => \A i \in DOMAIN (wire \o output) : InPlace(wire \o output, i)

(* Bytes never wait in the output buffer of an open connection without      *)
(* POLLOUT being watched; nothing else would send them.                    *)
OutputWatched ==
  Running /\ output # <<>> /\ state \in Open => IsWriting /\ index = "added"

(* shutdown() does not cut what the output buffer of an open connection     *)
(* holds.                                                                  *)
ShutdownOnlyWhenDrained ==
  [][~wrShut /\ wrShut' /\ state' # "kDisconnected" => output' = <<>>]_vars

(* The user is told of a connection once, of its end at most once, and of   *)
(* its end before it is freed, whoever ends it: the peer, the user or the  *)
(* server's destruction.                                                   *)
CallbacksPaired ==
  TypeOK /\ (Running =>
    /\ downs <= ups
    /\ ups <= 1
    /\ ~Owned => downs = ups)

(* The assertions of ~TcpConnection and ~EventChannel: when the last        *)
(* reference goes, the connection is closed and out of the poller.         *)
RemovedBeforeFreed ==
  Running /\ ~Owned => state = "kDisconnected" /\ index = "new"

(* A half-closed connection gets its write side shut down once the peer has *)
(* read what was waiting, unless it is closed first.                       *)
ShutdownCompletes ==
  state = "kDisconnecting" ~> wrShut \/ state = "kDisconnected" \/ ~Running

(* ForceClose and ForceCloseWithDelay close the connection, in whatever     *)
(* state the functor or the timer finds it, and a connection closed by      *)
(* anybody leaves the poller, through its server.                           *)
ClosesForGood ==
  /\ call = "queueForceClose" \/ delayed ~> state = "kDisconnected" \/ ~Running
  /\ state = "kDisconnected" ~> index = "new" \/ ~Running

(* No assertion of the connection and its channel ever fails.  It does: see *)
(* the findings.                                                           *)
AssertionsHold == failed # "assert"

=============================================================================
