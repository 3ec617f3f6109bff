------------------------ MODULE TcpConnectionProofs ------------------------
(***************************************************************************)
(* Proofs about TcpConnection for messages of every size, any number of    *)
(* them, and any calls of the user and of the message callback: bytes do   *)
(* not wait unwatched, shutdown does not cut them, the user is told of the *)
(* end once, the connection is out of the poller before it is freed, and   *)
(* the peer gets the messages in order.  The invariant IInv says what each *)
(* value of state_ implies for the channel, the callbacks made, the        *)
(* functors that wait and the owners; StreamOK says it of the messages.    *)
(***************************************************************************)
EXTENDS TcpConnection, SequenceTheorems, TLAPS

Units == Senders \X Nat \X (1 .. Size)

Typed ==
  /\ TypeOK
  /\ functors \in Seq(Functors) /\ batch \in Seq(Functors)
  /\ output \in Seq(Units) /\ wire \in Seq(Units)
  /\ sent \in [Senders -> Nat]

Waiting == Range(functors) \cup Range(batch)

(* ConnectDestroyed is on its way. *)
Destroying == \E f \in Waiting : f.what = "destroyed"

(* index_ says whether the open channel has events, and POLLOUT is one of   *)
(* them while bytes wait; closed, the channel has none and leaves epoll.   *)
ChannelOK ==
  /\ state = "kConnecting" => events = {} /\ index = "new" /\ output = <<>>
  /\ state \in Open =>
       /\ index = IF events = {} THEN "deleted" ELSE "added"
       /\ output # <<>> => IsWriting
  /\ state = "kDisconnected" => events = {} /\ index \in {"new", "deleted"}

CountsOK ==
  /\ state = "kConnecting" => ups = 0 /\ downs = 0 /\ removing = 0
  /\ state \in Open => ups = 1 /\ downs = 0 /\ removing = 0
  /\ state = "kDisconnected" => ups = 1 /\ downs = 1

(* Before the connection callback nobody knows the connection. *)
UnknownOK ==
  state = "kConnecting" => ~userRef /\ call = "idle" /\ ~delayed /\ revents = {}

(* ConnectEstablished is the first functor, and runs once. *)
FirstOK ==
  IF state = "kConnecting"
  THEN LET e == Functor("established")
           d == Functor("destroyed")
           q == IF server = "holds" THEN <<e>> ELSE <<e, d>>
       IN \/ batch = <<>> /\ functors = q
          \/ batch = <<e>> /\ functors = IF server = "holds" THEN <<>> ELSE <<d>>
          \/ batch = q /\ functors = <<>>
  ELSE \A f \in Waiting : f.what # "established"

(* Until the channel is out of the poller somebody has yet to take it out. *)
EndOK ==
  /\ state = "kConnecting" => server # "erased"
  /\ state \in Open => server = "holds" \/ Destroying
  /\ state = "kDisconnected" /\ index # "new" => removing = 1 \/ Destroying

StagesOK ==
  /\ polled => batch = <<>>
  /\ call = "send" => sent["user"] < MaxSends["user"]
  /\ \A f \in Waiting : f.what # "delayedClose" /\ (f.what = "send" => f.msg # 0)

Sound ==
  /\ ChannelOK
  /\ CountsOK
  /\ UnknownOK
  /\ FirstOK
  /\ EndOK
  /\ StagesOK

IInv == Typed /\ (Running => Sound)

-----------------------------------------------------------------------------
(* Queues and buffers. *)

(* What is appended is in the queue, and what was there stays. *)
LEMMA RangeAppended ==
  ASSUME NEW S, NEW q \in Seq(S), NEW e \in S
  PROVE  Append(q, e) \in Seq(S) /\ Range(Append(q, e)) = Range(q) \cup {e}
<1>1. /\ Append(q, e) \in Seq(S) /\ Len(q) \in Nat
      /\ DOMAIN q = 1 .. Len(q) /\ DOMAIN Append(q, e) = 1 .. Len(q) + 1
      /\ \A i \in 1 .. Len(q) : Append(q, e)[i] = q[i]
      /\ Append(q, e)[Len(q) + 1] = e
  OBVIOUS
<1>2. 1 .. Len(q) + 1 = (1 .. Len(q)) \cup {Len(q) + 1}
  BY <1>1
<1> QED BY <1>1, <1>2 DEF Range

(* The functor that is run was the first of the queue. *)
LEMMA RangeRun ==
  ASSUME NEW S, NEW q \in Seq(S), q # <<>>
  PROVE  /\ Tail(q) \in Seq(S) /\ Head(q) \in S
         /\ Range(q) = Range(Tail(q)) \cup {Head(q)}
<1>1. /\ Tail(q) \in Seq(S) /\ Head(q) \in S /\ Head(q) = q[1]
      /\ Len(q) \in Nat \ {0} /\ Len(Tail(q)) = Len(q) - 1
      /\ DOMAIN q = 1 .. Len(q) /\ DOMAIN Tail(q) = 1 .. Len(q) - 1
      /\ \A i \in 1 .. Len(q) - 1 : Tail(q)[i] = q[i + 1]
  OBVIOUS
<1>2. Range(q) = {q[i] : i \in 1 .. Len(q)}
      /\ Range(Tail(q)) = {q[i + 1] : i \in 1 .. Len(q) - 1}
  BY <1>1 DEF Range
<1>3. ASSUME NEW x \in Range(q) PROVE x \in Range(Tail(q)) \cup {Head(q)}
  <2>1. PICK i \in 1 .. Len(q) : x = q[i]
    BY <1>2
  <2>2. i # 1 => i - 1 \in 1 .. Len(q) - 1 /\ (i - 1) + 1 = i
    BY <1>1
  <2>3. i # 1 => x = Tail(q)[i - 1]
    BY <1>1, <2>1, <2>2
  <2> QED BY <1>1, <2>1, <2>2, <2>3 DEF Range
<1>4. ASSUME NEW x \in Range(Tail(q)) \cup {Head(q)} PROVE x \in Range(q)
  <2>1. x = q[1] \/ \E i \in 1 .. Len(q) - 1 : x = q[i + 1]
    BY <1>1, <1>2
  <2> QED BY <1>1, <1>2, <2>1
<1> QED BY <1>1, <1>3, <1>4

(* A sequence over S holds elements of S. *)
LEMMA RangeTyped ==
  ASSUME NEW S, NEW q \in Seq(S)
  PROVE  Range(q) \subseteq S
<1>1. DOMAIN q = 1 .. Len(q) /\ \A i \in 1 .. Len(q) : q[i] \in S
  OBVIOUS
<1> QED BY <1>1 DEF Range

(* An empty queue holds nothing. *)
LEMMA RangeEmpty == Range(<<>>) = {}
BY DEF Range

(* The two queues of a connection that the server drops before it is        *)
(* established.                                                            *)
LEMMA AppendedTo ==
  ASSUME NEW S, NEW a \in S, NEW b \in S
  PROVE  Append(<<a>>, b) = <<a, b>> /\ Append(<<>>, b) = <<b>>
<1>1. <<a>> \in Seq(S) /\ <<>> \in Seq(S) /\ Len(<<a>>) = 1 /\ Len(<<>>) = 0
      /\ <<a>>[1] = a
  OBVIOUS
<1>2. /\ DOMAIN Append(<<a>>, b) = 1 .. 2 /\ DOMAIN Append(<<>>, b) = 1 .. 1
      /\ Append(<<a>>, b)[1] = a /\ Append(<<a>>, b)[2] = b /\ Append(<<>>, b)[1] = b
      /\ Append(<<a>>, b) \in Seq(S) /\ Append(<<>>, b) \in Seq(S)
  BY <1>1
<1>3. /\ DOMAIN <<a, b>> = 1 .. 2 /\ DOMAIN <<b>> = 1 .. 1
      /\ <<a, b>>[1] = a /\ <<a, b>>[2] = b /\ <<b>>[1] = b
      /\ <<a, b>> \in Seq(S) /\ <<b>> \in Seq(S)
  OBVIOUS
<1>4. Append(<<a>>, b) = <<a, b>>
  <2>1. \A i \in 1 .. 2 : Append(<<a>>, b)[i] = <<a, b>>[i]
    BY <1>2, <1>3
  <2>2. /\ Append(<<a>>, b) = [i \in 1 .. 2 |-> Append(<<a>>, b)[i]]
        /\ <<a, b>> = [i \in 1 .. 2 |-> <<a, b>>[i]]
    BY <1>2, <1>3
  <2> QED BY <2>1, <2>2
<1>5. Append(<<>>, b) = <<b>>
  OBVIOUS
<1> QED BY <1>4, <1>5

(* A functor carries the name of its call. *)
LEMMA FunctorTyped ==
  \A w \in Calls \cup {"established", "destroyed"} :
    Functor(w) \in Functors /\ Functor(w).what = w
BY DEF Functor, Functors

(* A message is a sequence of units. *)
LEMMA MessageTyped ==
  ASSUME NEW s \in Senders, NEW k \in Nat \ {0}
  PROVE  Message(s, k) \in Seq(Units)
<1>1. Size \in Nat \ {0}
  BY TcpConnectionAssumption
<1>2. ASSUME NEW i \in 1 .. Size PROVE <<s, k, i>> \in Units
  BY DEF Units
<1>3. Message(s, k) \in [1 .. Size -> Units]
  BY <1>2 DEF Message
<1> QED BY <1>1, <1>3

(* A part of a buffer is a buffer. *)
LEMMA SubSeqTyped ==
  ASSUME NEW m \in Seq(Units), NEW a \in 1 .. Len(m) + 1, NEW b \in 0 .. Len(m)
  PROVE  /\ SubSeq(m, a, b) \in Seq(Units)
         /\ (a > b => SubSeq(m, a, b) = <<>>)
  OBVIOUS

-----------------------------------------------------------------------------
(* The channel. *)

(* What a step does to the channel is typed, keeps ChannelOK unless it is a *)
(* slip, and leaves the channel of a closed connection alone.              *)
ChannelKept ==
  /\ events' \subseteq {"in", "out"}
  /\ index' \in {"new", "added", "deleted"}
  /\ slips' \subseteq {"stale", "readded", "halfClosed"}
  /\ slips' = {} => ChannelOK' /\ (state = "kDisconnected" => index' = index)

(* EventChannel::update, whatever the new events, if bytes that wait keep  *)
(* POLLOUT.                                                                *)
LEMMA UpdateOK ==
  ASSUME Typed, Running, ChannelOK, state # "kConnecting", state' = state,
         NEW ev \in SUBSET {"in", "out"}, Update(ev),
         state \in Open /\ output' # <<>> => "out" \in ev
  PROVE  ChannelKept
<1>1. state \in Open \cup {"kDisconnected"}
  BY DEF Typed, TypeOK, States, Open
<1>2. events' = ev
      /\ index' = (IF index = "added" /\ ev = {} THEN "deleted" ELSE "added")
      /\ slips' = (IF index # "added" /\ (ev = {} \/ state = "kDisconnected")
                   THEN {"readded"} ELSE {})
  BY DEF Update, Running
<1>3. CASE state \in Open
  BY <1>1, <1>2, <1>3 DEF ChannelKept, ChannelOK, IsWriting, Open
<1>4. CASE state = "kDisconnected"
  BY <1>2, <1>4 DEF ChannelKept, ChannelOK
<1> QED BY <1>1, <1>3, <1>4

(* A step between open states that leaves the channel and the buffer       *)
(* alone.                                                                  *)
LEMMA SameChannelOK ==
  ASSUME Typed, Running, ChannelOK, UNCHANGED <<events, index, slips, output>>,
         state' = state \/ (state \in Open /\ state' \in Open)
  PROVE  ChannelKept
BY DEF ChannelKept, ChannelOK, Typed, TypeOK, IsWriting, Open

(* SendInLoop watches for POLLOUT when it leaves bytes in the buffer. *)
LEMMA SendOK ==
  ASSUME Typed, Running, ChannelOK, state # "kConnecting", state' = state,
         NEW m \in Seq(Units), SendInLoop(m)
  PROVE  ChannelKept /\ output' \in Seq(Units) /\ wire' \in Seq(Units)
<1>1. CASE state = "kDisconnected"
  <2>1. UNCHANGED <<state, events, index, slips, output, wire>>
    BY <1>1 DEF SendInLoop, chan, bytes
  <2> QED BY <2>1, SameChannelOK DEF Typed
<1>2. CASE state # "kDisconnected"
  <2>1. PICK n \in 0 .. Len(m) :
          LET rest == SubSeq(m, n + 1, Len(m)) IN
          /\ n > 0 => DirectWrite /\ ~wrShut /\ peer # "reset"
          /\ wire' = wire \o SubSeq(m, 1, n)
          /\ output' = output \o rest
          /\ IF MustWatch(rest) THEN Update(events \cup {"out"})
                                ELSE UNCHANGED <<chan, slips>>
    BY <1>2 DEF SendInLoop
  <2> DEFINE rest == SubSeq(m, n + 1, Len(m))
  <2>2. rest \in Seq(Units) /\ SubSeq(m, 1, n) \in Seq(Units)
    BY SubSeqTyped
  <2> HIDE DEF rest
  <2>3. output' = output \o rest /\ output' \in Seq(Units) /\ wire' \in Seq(Units)
    BY <2>1, <2>2 DEF Typed, rest
  <2>4. CASE MustWatch(rest)
    <3>1. Update(events \cup {"out"}) /\ events \cup {"out"} \in SUBSET {"in", "out"}
      BY <2>1, <2>4 DEF Typed, TypeOK, rest
    <3> QED BY <2>3, <3>1, UpdateOK
  <2>5. CASE ~MustWatch(rest)
    <3>1. UNCHANGED <<events, index, slips>>
      BY <2>1, <2>5 DEF chan, rest
    <3>2. IsWriting \/ rest = <<>>
      BY <2>5 DEF MustWatch
    <3>3. rest = <<>> => output' = output
      BY <2>3 DEF Typed
    <3>4. ChannelOK'
      BY <1>2, <3>1, <3>2, <3>3 DEF ChannelOK, IsWriting
    <3> QED BY <2>3, <3>1, <3>4 DEF ChannelKept, Typed, TypeOK
  <2> QED BY <2>3, <2>4, <2>5
<1> QED BY <1>1, <1>2

(* StartReadInLoop and StopReadInLoop leave POLLOUT as it is. *)
LEMMA ReadOK ==
  ASSUME Typed, Running, ChannelOK, state # "kConnecting", state' = state,
         output' = output, StartReadInLoop \/ StopReadInLoop
  PROVE  ChannelKept /\ reading' \in BOOLEAN
<1>1. CASE Update(events \cup {"in"}) /\ reading' = TRUE
  <2>1. events \cup {"in"} \in SUBSET {"in", "out"}
    BY DEF Typed, TypeOK
  <2>2. state \in Open /\ output' # <<>> => "out" \in events \cup {"in"}
    BY DEF ChannelOK, IsWriting
  <2> QED BY <1>1, <2>1, <2>2, UpdateOK
<1>2. CASE Update(events \ {"in"}) /\ reading' = FALSE
  <2>1. events \ {"in"} \in SUBSET {"in", "out"}
    BY DEF Typed, TypeOK
  <2>2. state \in Open /\ output' # <<>> => "out" \in events \ {"in"}
    BY DEF ChannelOK, IsWriting
  <2> QED BY <1>2, <2>1, <2>2, UpdateOK
<1>3. CASE UNCHANGED <<chan, slips, reading>>
  BY <1>3, SameChannelOK DEF chan, Typed, TypeOK
<1> QED BY <1>1, <1>2, <1>3 DEF StartReadInLoop, StopReadInLoop

(* HandleClose closes an open connection and tells the user and the server, *)
(* or fails its assertion.                                                 *)
LEMMA CloseOK ==
  ASSUME Typed, Running, ChannelOK, CountsOK, state # "kConnecting",
         output' = output, HandleClose
  PROVE  /\ state' = "kDisconnected" /\ ChannelKept
         /\ downs' \in 0 .. 1 /\ removing' \in 0 .. 1
         /\ failed' \in {"none", "assert", "freed"}
         /\ failed' = "none" => state \in Open /\ downs' = 1 /\ removing' = 1
<1>1. state \in Open \cup {"kDisconnected"}
  BY DEF Typed, TypeOK, States, Open
<1>2. CASE state \in Open
  <2>1. /\ state' = "kDisconnected" /\ Update({})
        /\ downs' = downs + 1 /\ removing' = removing + 1
        /\ failed' = IF server = "gone" THEN "freed" ELSE failed
    BY <1>2 DEF HandleClose, Tells
  <2>2. ChannelKept
    BY <1>2, <2>1 DEF Update, ChannelKept, ChannelOK, Running, Typed, TypeOK, Open
  <2>3. downs' = 1 /\ removing' = 1
    BY <1>2, <2>1 DEF CountsOK
  <2> QED BY <1>2, <2>1, <2>2, <2>3 DEF Running
<1>3. CASE state = "kDisconnected"
  <2>1. failed' = "assert" /\ UNCHANGED <<state, events, index, slips, downs, removing>>
    BY <1>3 DEF HandleClose, chan, Open
  <2> QED BY <1>3, <2>1, SameChannelOK DEF Typed, TypeOK
<1> QED BY <1>1, <1>2, <1>3

-----------------------------------------------------------------------------
(* The invariant, action by action. *)

(* What is common to the steps that neither establish nor close. *)
LEMMA StepOK ==
  ASSUME Typed, Running, Sound, state # "kConnecting",
         state' = state \/ (state \in Open /\ state' \in Open),
         ChannelKept, UNCHANGED <<ups, downs, removing, server>>,
         Destroying => Destroying',
         \A f \in Waiting' : f.what # "established",
         StagesOK'
  PROVE  Running' => Sound'
<1> SUFFICES ASSUME Running' PROVE Sound'
  OBVIOUS
<1>1. state' # "kConnecting"
  BY DEF Open
<1>2. ChannelOK' /\ (state = "kDisconnected" => index' = index)
  BY DEF ChannelKept, Running
<1>3. state' = "kDisconnected" => state = "kDisconnected"
  BY DEF Open
<1>4. state' \in Open => state \in Open
  OBVIOUS
<1>5. CountsOK' /\ UnknownOK'
  BY <1>1, <1>3, <1>4 DEF Sound, CountsOK, UnknownOK
<1>6. FirstOK'
  BY <1>1 DEF FirstOK
<1>7. EndOK'
  BY <1>1, <1>2, <1>3, <1>4 DEF Sound, EndOK
<1> QED BY <1>2, <1>5, <1>6, <1>7 DEF Sound

(* The connection that NewConnection has just created. *)
LEMMA InitOK == Init => IInv
<1> SUFFICES ASSUME Init PROVE IInv
  OBVIOUS
<1>1. functors = <<Functor("established")>> /\ functors \in Seq(Functors)
      /\ Range(functors) \subseteq Functors
  <2>1. functors \in Seq(Functors)
    BY FunctorTyped DEF Init
  <2> QED BY <2>1, RangeTyped DEF Init
<1>2. batch \in Seq(Functors) /\ output \in Seq(Units) /\ wire \in Seq(Units)
      /\ Range(batch) = {} /\ Range(output) = {} /\ Range(wire) = {}
  BY RangeEmpty DEF Init
<1>3. sent \in [Senders -> Nat] /\ \A s \in Senders : sent[s] \in 0 .. MaxSends[s]
  BY TcpConnectionAssumption DEF Init
<1>4. Typed
  <2>1. Range(functors) \cup Range(batch) \subseteq Functors
        /\ Range(output) \cup Range(wire) \subseteq Units
    BY <1>1, <1>2
  <2>2. state \in States /\ call \in Stages
    BY DEF Init, States, Stages
  <2>3. /\ events \subseteq {"in", "out"} /\ index \in {"new", "added", "deleted"}
        /\ reading \in BOOLEAN /\ wrShut \in BOOLEAN /\ peer \in {"open", "fin", "reset"}
        /\ polled \in BOOLEAN /\ revents \subseteq {"data", "eof", "hup", "out"}
    BY DEF Init
  <2>4. /\ server \in {"holds", "erased", "gone"}
        /\ userRef \in BOOLEAN /\ delayed \in BOOLEAN
        /\ slips \subseteq {"stale", "readded", "halfClosed"}
        /\ failed \in {"none", "assert", "freed"}
    BY DEF Init
  <2>5. removing \in 0 .. 1 /\ ups \in 0 .. 1 /\ downs \in 0 .. 1
    BY DEF Init
  <2>6. TypeOK
    BY <1>3, <2>1, <2>2, <2>3, <2>4, <2>5 DEF TypeOK, Units
  <2> QED BY <1>1, <1>2, <1>3, <2>6 DEF Typed
<1>5. ChannelOK /\ CountsOK /\ UnknownOK /\ EndOK
  BY DEF Init, ChannelOK, CountsOK, UnknownOK, EndOK, Open
<1>6. FirstOK
  BY DEF Init, FirstOK
<1>7. StagesOK
  <2>1. Waiting = {Functor("established")}
    <3>1. Range(<<Functor("established")>>) = {Functor("established")}
      BY DEF Range
    <3> QED BY <1>2, <3>1 DEF Init, Waiting
  <2> QED BY <2>1, FunctorTyped DEF Init, StagesOK
<1> QED BY <1>4, <1>5, <1>6, <1>7 DEF IInv, Sound

(* Poll reports events of a connection that is established only. *)
LEMMA PollOK ==
  ASSUME IInv, NEW r \in SUBSET {"data", "eof", "hup", "out"}, Poll(r)
  PROVE  IInv'
<1>1. /\ Running /\ ~polled /\ batch = <<>> /\ polled' = TRUE /\ revents' = r
      /\ (index # "added" => r = {})
      /\ UNCHANGED <<state, events, index, reading, output, wire, wrShut, peer,
                     functors, batch, removing, server, userRef, call, delayed,
                     sent, ups, downs, slips, failed>>
  BY DEF Poll, chan, bytes, owners
<1>2. Typed /\ Sound
  BY <1>1 DEF IInv
<1>3. Typed'
  BY <1>1, <1>2 DEF Typed, TypeOK
<1>4. ChannelOK' /\ CountsOK' /\ EndOK' /\ StagesOK'
  BY <1>1, <1>2 DEF Sound, ChannelOK, CountsOK, EndOK, StagesOK, IsWriting, Destroying, Waiting
<1>5. UnknownOK'
  BY <1>1, <1>2 DEF Sound, UnknownOK, ChannelOK
<1>6. FirstOK'
  BY <1>1, <1>2 DEF Sound, FirstOK, Waiting
<1> QED BY <1>3, <1>4, <1>5, <1>6 DEF IInv, Sound

(* The functors that wait are now those that run, in the same order. *)
LEMMA TakeFunctorsOK ==
  ASSUME IInv, TakeFunctors
  PROVE  IInv'
<1>1. /\ Running /\ polled /\ polled' = FALSE /\ batch' = functors /\ functors' = <<>>
      /\ UNCHANGED <<state, events, index, reading, output, wire, wrShut, peer,
                     revents, removing, server, userRef, call, delayed, sent,
                     ups, downs, slips, failed>>
  BY DEF TakeFunctors, chan, bytes, owners
<1>2. Typed /\ Sound /\ batch = <<>>
  BY <1>1 DEF IInv, Sound, StagesOK
<1>3. Waiting' = Waiting
  BY <1>1, <1>2, RangeEmpty DEF Waiting
<1>4. Typed'
  BY <1>1, <1>2, <1>3 DEF Typed, TypeOK, Waiting
<1>5. ChannelOK' /\ CountsOK' /\ UnknownOK' /\ EndOK' /\ StagesOK'
  BY <1>1, <1>2, <1>3 DEF Sound, ChannelOK, CountsOK, UnknownOK, EndOK, StagesOK,
     IsWriting, Destroying
<1>6. FirstOK'
  BY <1>1, <1>2, <1>3 DEF Sound, FirstOK
<1> QED BY <1>4, <1>5, <1>6 DEF IInv, Sound

(* The end of the stream, and POLLHUP. *)
LEMMA HandleCloseOK ==
  ASSUME IInv, HandleHangup \/ HandleEof
  PROVE  IInv'
<1>1. /\ Running /\ revents # {} /\ revents' \subseteq revents /\ HandleClose
      /\ UNCHANGED <<reading, output, wire, wrShut, peer, polled, functors, batch,
                     server, userRef, call, delayed, sent, ups>>
  BY DEF HandleHangup, HandleEof, bytes, owners
<1>2. Typed /\ Sound /\ state # "kConnecting"
  BY <1>1 DEF IInv, Sound, UnknownOK
<1>3. /\ state' = "kDisconnected" /\ ChannelKept
      /\ downs' \in 0 .. 1 /\ removing' \in 0 .. 1
      /\ failed' \in {"none", "assert", "freed"}
      /\ failed' = "none" => state \in Open /\ downs' = 1 /\ removing' = 1
  BY <1>1, <1>2, CloseOK DEF Sound
<1>4. Typed'
  BY <1>1, <1>2, <1>3 DEF Typed, TypeOK, States, ChannelKept
<1>5. ASSUME Running' PROVE Sound'
  <2>1. state \in Open /\ downs' = 1 /\ removing' = 1 /\ ChannelOK'
    BY <1>3, <1>5 DEF Running, ChannelKept
  <2>2. CountsOK' /\ UnknownOK' /\ EndOK'
    BY <1>1, <1>2, <1>3, <2>1 DEF Sound, CountsOK, UnknownOK, EndOK, Open
  <2>3. FirstOK'
    BY <1>1, <1>2, <1>3 DEF Sound, FirstOK, Waiting
  <2>4. StagesOK'
    BY <1>1, <1>2 DEF Sound, StagesOK, Waiting
  <2> QED BY <2>1, <2>2, <2>3, <2>4 DEF Sound
<1> QED BY <1>4, <1>5 DEF IInv

(* A functor is queued behind the others. *)
LEMMA AppendOK ==
  ASSUME Typed, NEW f \in Functors, functors' = Append(functors, f), batch' = batch
  PROVE  /\ functors' \in Seq(Functors) /\ Waiting' = Waiting \cup {f}
         /\ Range(functors') \cup Range(batch') \subseteq Functors
<1>1. functors' \in Seq(Functors) /\ Range(functors') = Range(functors) \cup {f}
  BY RangeAppended DEF Typed
<1> QED BY <1>1 DEF Waiting, Typed, TypeOK

(* ForceClose leaves the connection open and queues its end. *)
LEMMA ForceCloseOK ==
  ASSUME Typed, ForceClose, batch' = batch
  PROVE  /\ state \in Open /\ state' \in Open /\ state' \in States
         /\ functors' \in Seq(Functors)
         /\ Waiting' = Waiting \cup {Functor("forceClose")}
         /\ Range(functors') \cup Range(batch') \subseteq Functors
         /\ Functor("forceClose").what = "forceClose"
<1>1. Functor("forceClose") \in Functors /\ Functor("forceClose").what = "forceClose"
  BY FunctorTyped DEF Calls
<1> QED BY <1>1, AppendOK DEF ForceClose, Open, States

(* HandleRead with data, and whatever the message callback replies. *)
LEMMA HandleDataOK ==
  ASSUME IInv, HandleData
  PROVE  IInv'
<1>1. /\ Running /\ revents # {} /\ revents' \subseteq revents
      /\ UNCHANGED <<peer, polled, batch, removing, server, userRef, call,
                     delayed, ups, downs, failed>>
  BY DEF HandleData, owners
<1>2. Typed /\ Sound /\ state # "kConnecting"
  BY <1>1 DEF IInv, Sound, UnknownOK
<1> DEFINE Replied ==
      /\ ChannelKept
      /\ output' \in Seq(Units) /\ wire' \in Seq(Units)
      /\ state' \in States
      /\ state' = state \/ (state \in Open /\ state' \in Open)
      /\ wrShut' \in BOOLEAN /\ reading' \in BOOLEAN
      /\ sent' \in [Senders -> Nat] /\ \A s \in Senders : sent'[s] \in 0 .. MaxSends[s]
      /\ sent'["user"] = sent["user"]
      /\ functors' \in Seq(Functors) /\ Range(functors') \cup Range(batch') \subseteq Functors
      /\ Waiting' = Waiting \/ Waiting' = Waiting \cup {Functor("forceClose")}
<1>3. Replied
  <2>0. PICK c \in ReplyCalls \cup {"nothing"} : Reply(c)
    BY DEF HandleData
  <2>00. c \in (Calls \ {"delayedClose"}) \cup {"nothing"}
    BY TcpConnectionAssumption
  <2>1. CASE c = "nothing"
    <3>1. UNCHANGED <<state, events, index, slips, output, wire, sent, wrShut, reading, functors>>
      BY <2>0, <2>1 DEF Reply, chan, bytes
    <3> QED BY <1>1, <1>2, <3>1, SameChannelOK DEF Sound, Typed, TypeOK, Waiting
  <2>2. CASE c = "send"
    <3>1. /\ sent["loop"] < MaxSends["loop"]
          /\ SendInLoop(Message("loop", sent["loop"] + 1))
          /\ sent' = [sent EXCEPT !["loop"] = @ + 1]
          /\ UNCHANGED <<state, wrShut, reading, functors>>
      BY <2>0, <2>2 DEF Reply, ReplySend
    <3>2. "loop" \in Senders /\ "user" \in Senders /\ sent["loop"] \in Nat
          /\ sent["loop"] + 1 \in Nat \ {0}
      BY <1>2 DEF Typed, Senders
    <3>3. Message("loop", sent["loop"] + 1) \in Seq(Units)
      BY <3>2, MessageTyped
    <3>4. ChannelKept /\ output' \in Seq(Units) /\ wire' \in Seq(Units)
      BY <1>1, <1>2, <3>1, <3>3, SendOK DEF Sound
    <3>5. sent' \in [Senders -> Nat] /\ \A s \in Senders : sent'[s] \in 0 .. MaxSends[s]
      <4>1. sent' \in [Senders -> Nat]
        BY <1>2, <3>1, <3>2 DEF Typed
      <4>2. sent'["loop"] \in 0 .. MaxSends["loop"]
        <5>1. sent'["loop"] = sent["loop"] + 1
          BY <1>2, <3>1, <3>2 DEF Typed
        <5>2. MaxSends["loop"] \in Nat
          BY <3>2, TcpConnectionAssumption
        <5> QED BY <3>1, <3>2, <5>1, <5>2
      <4>3. \A s \in Senders : s # "loop" => sent'[s] = sent[s]
        BY <1>2, <3>1 DEF Typed
      <4> QED BY <1>2, <4>1, <4>2, <4>3 DEF Typed, TypeOK
    <3>6. sent'["user"] = sent["user"]
      BY <1>2, <3>1, <3>2 DEF Typed
    <3> QED BY <1>1, <1>2, <3>1, <3>4, <3>5, <3>6 DEF Typed, TypeOK, Waiting
  <2>3. CASE c = "shutdown"
    <3>1. /\ state = "kConnected" /\ state' = "kDisconnecting"
          /\ wrShut' = (wrShut \/ MayShut)
          /\ UNCHANGED <<events, index, slips, output, wire, sent, reading, functors>>
      BY <2>0, <2>3 DEF Reply, ReplyShutdown, ShutDownInLoop, chan, bytes
    <3>2. ChannelKept
      BY <1>1, <1>2, <3>1, SameChannelOK DEF Sound, Open
    <3>3. wrShut' \in BOOLEAN
      BY <1>2, <3>1 DEF MayShut, IsWriting, Typed, TypeOK
    <3> QED BY <1>1, <1>2, <3>1, <3>2, <3>3 DEF Typed, TypeOK, Waiting, Open, States
  <2>4. CASE c = "forceClose"
    <3>1. ForceClose /\ UNCHANGED <<events, index, slips, output, wire, sent, wrShut, reading>>
      BY <2>0, <2>4 DEF Reply, chan, bytes
    <3>2. /\ state \in Open /\ state' \in Open /\ state' \in States
          /\ functors' \in Seq(Functors)
          /\ Waiting' = Waiting \cup {Functor("forceClose")}
          /\ Range(functors') \cup Range(batch') \subseteq Functors
      BY <1>1, <1>2, <3>1, ForceCloseOK
    <3>3. ChannelKept
      BY <1>1, <1>2, <3>1, <3>2, SameChannelOK DEF Sound
    <3> QED BY <1>2, <3>1, <3>2, <3>3 DEF Typed, TypeOK
  <2>5. CASE c \in {"startRead", "stopRead"}
    <3>1. (StartReadInLoop \/ StopReadInLoop)
          /\ UNCHANGED <<state, output, wire, sent, wrShut, functors>>
      BY <2>0, <2>5 DEF Reply, bytes
    <3>2. ChannelKept /\ reading' \in BOOLEAN
      BY <1>1, <1>2, <3>1, ReadOK DEF Sound
    <3> QED BY <1>1, <1>2, <3>1, <3>2 DEF Typed, TypeOK, Waiting
  <2> QED BY <2>00, <2>1, <2>2, <2>3, <2>4, <2>5 DEF Calls
<1> HIDE DEF Replied
<1>4. Typed'
  <2>1. Range(output') \cup Range(wire') \subseteq Units
    BY <1>3, RangeTyped DEF Replied
  <2>2. revents' \subseteq {"data", "eof", "hup", "out"}
    BY <1>1, <1>2 DEF Typed, TypeOK
  <2> QED BY <1>1, <1>2, <1>3, <2>1, <2>2 DEF Replied, Typed, TypeOK, Units, ChannelKept
<1>5. \A f \in Waiting' : f.what # "established"
  BY <1>2, <1>3, FunctorTyped DEF Replied, Sound, FirstOK, Calls
<1>6. Destroying => Destroying'
  BY <1>3 DEF Replied, Destroying
<1>7. StagesOK'
  BY <1>1, <1>2, <1>3, FunctorTyped DEF Replied, Sound, StagesOK, Calls
<1>8. Running' => Sound'
  BY <1>1, <1>2, <1>3, <1>5, <1>6, <1>7, StepOK DEF Replied
<1> QED BY <1>4, <1>8 DEF IInv

(* HandleWrite drops POLLOUT only with the last byte. *)
LEMMA HandleWriteOK ==
  ASSUME IInv, HandleWrite
  PROVE  IInv'
<1>1. /\ Running /\ revents # {} /\ revents' \subseteq revents
      /\ UNCHANGED <<state, reading, peer, polled, functors, batch, removing,
                     server, userRef, call, delayed, sent, ups, downs, failed>>
  BY DEF HandleWrite, owners
<1>2. Typed /\ Sound /\ state # "kConnecting"
  BY <1>1 DEF IInv, Sound, UnknownOK
<1>3. ChannelKept /\ output' \in Seq(Units) /\ wire' \in Seq(Units) /\ wrShut' \in BOOLEAN
  <2>1. CASE UNCHANGED <<chan, slips, bytes, wrShut>>
    BY <1>1, <1>2, <2>1, SameChannelOK DEF chan, bytes, Sound, Typed, TypeOK
  <2>2. CASE ~(~IsWriting \/ AlwaysWritable)
    <3>1. PICK n \in 1 .. Len(output) :
            /\ wire' = wire \o SubSeq(output, 1, n)
            /\ output' = SubSeq(output, n + 1, Len(output))
            /\ IF n = Len(output)
               THEN Update(events \ {"out"}) /\ wrShut' = DrainedShut
               ELSE UNCHANGED <<chan, slips, wrShut>>
      BY <2>2 DEF HandleWrite, Unwritten
    <3>2. output \in Seq(Units) /\ wire \in Seq(Units) /\ Len(output) \in Nat
      BY <1>2 DEF Typed
    <3>3. n + 1 \in 1 .. Len(output) + 1 /\ n \in 0 .. Len(output)
          /\ 1 \in 1 .. Len(output) + 1 /\ Len(output) \in 0 .. Len(output)
      BY <3>2
    <3>4. output' \in Seq(Units) /\ (n = Len(output) => output' = <<>>)
      <4>1. n = Len(output) => n + 1 > Len(output)
        BY <3>2
      <4> QED BY <3>1, <3>2, <3>3, <4>1, SubSeqTyped
    <3>5. wire' \in Seq(Units)
      <4>1. SubSeq(output, 1, n) \in Seq(Units)
        BY <3>2, <3>3, SubSeqTyped
      <4> QED BY <3>1, <3>2, <4>1
    <3>6. CASE n = Len(output)
      <4>1. Update(events \ {"out"}) /\ events \ {"out"} \in SUBSET {"in", "out"}
            /\ output' = <<>>
        BY <1>2, <3>1, <3>4, <3>6 DEF Typed, TypeOK
      <4>2. ChannelKept
        BY <1>1, <1>2, <4>1, UpdateOK DEF Sound
      <4>3. wrShut' \in BOOLEAN
        BY <1>2, <3>1, <3>6 DEF DrainedShut, Typed, TypeOK
      <4> QED BY <3>4, <3>5, <4>2, <4>3
    <3>7. CASE n # Len(output)
      <4>1. UNCHANGED <<events, index, slips, wrShut, state>> /\ IsWriting
        BY <1>1, <2>2, <3>1, <3>7 DEF chan
      <4>2. ChannelOK'
        BY <1>2, <4>1 DEF Sound, ChannelOK, IsWriting
      <4> QED BY <1>2, <3>4, <3>5, <4>1, <4>2 DEF ChannelKept, Typed, TypeOK
    <3> QED BY <3>6, <3>7
  <2> QED BY <2>1, <2>2 DEF HandleWrite
<1>4. Typed'
  <2>1. Range(output') \cup Range(wire') \subseteq Units
    BY <1>3, RangeTyped
  <2> QED BY <1>1, <1>2, <1>3, <2>1 DEF Typed, TypeOK, Units, ChannelKept
<1>5. Waiting' = Waiting
  BY <1>1 DEF Waiting
<1>6. /\ \A f \in Waiting' : f.what # "established"
      /\ Destroying => Destroying'
      /\ StagesOK'
  BY <1>1, <1>2, <1>5 DEF Sound, FirstOK, Destroying, StagesOK
<1>7. Running' => Sound'
  BY <1>1, <1>2, <1>3, <1>6, StepOK
<1> QED BY <1>4, <1>7 DEF IInv

(* The timer of ForceCloseWithDelay. *)
LEMMA ExpireOK ==
  ASSUME IInv, Expire
  PROVE  IInv'
<1>1. /\ Running /\ delayed /\ delayed' = FALSE
      /\ UNCHANGED <<events, index, reading, output, wire, wrShut, peer, polled,
                     revents, batch, removing, server, userRef, call, sent, ups,
                     downs, slips, failed>>
      /\ ForceClose \/ UNCHANGED <<state, functors>>
  BY DEF Expire, chan, bytes, owners
<1>2. Typed /\ Sound /\ state # "kConnecting"
  BY <1>1 DEF IInv, Sound, UnknownOK
<1>3. /\ state' \in States /\ (state' = state \/ (state \in Open /\ state' \in Open))
      /\ functors' \in Seq(Functors) /\ Range(functors') \cup Range(batch') \subseteq Functors
      /\ Waiting' = Waiting \/ Waiting' = Waiting \cup {Functor("forceClose")}
  BY <1>1, <1>2, ForceCloseOK DEF Typed, TypeOK, Waiting
<1>4. ChannelKept
  BY <1>1, <1>2, <1>3, SameChannelOK DEF Sound
<1>5. Typed'
  BY <1>1, <1>2, <1>3 DEF Typed, TypeOK
<1>6. /\ \A f \in Waiting' : f.what # "established"
      /\ Destroying => Destroying'
      /\ StagesOK'
  BY <1>1, <1>2, <1>3, FunctorTyped DEF Sound, FirstOK, Destroying, StagesOK, Calls
<1>7. Running' => Sound'
  BY <1>1, <1>2, <1>3, <1>4, <1>6, StepOK
<1> QED BY <1>5, <1>7 DEF IInv

(* ConnectEstablished, the first functor. *)
LEMMA EstablishedOK ==
  ASSUME Typed, Running, Sound, state = "kConnecting", ~polled, batch # <<>>,
         batch' = Tail(batch), ConnectEstablished,
         UNCHANGED <<peer, polled, revents, functors, server, call, delayed, sent>>
  PROVE  IInv'
<1> DEFINE e == Functor("established")
           d == Functor("destroyed")
<1>1. e.what = "established" /\ d.what = "destroyed"
  BY FunctorTyped
<1> HIDE DEF e, d
<1>2. /\ state' = "kConnected" /\ events' = {"in"} /\ index' = "added" /\ slips' = slips
      /\ ups' = 1 /\ downs' = 0 /\ removing' = 0 /\ userRef' = TRUE /\ failed' = "none"
      /\ UNCHANGED <<reading, output, wire, wrShut>> /\ output = <<>>
  BY DEF ConnectEstablished, Update, bytes, Sound, ChannelOK, CountsOK, Running
<1>3. /\ server \in {"holds", "gone"}
      /\ server = "holds" => batch = <<e>> /\ functors = <<>>
      /\ server = "gone" => \/ batch = <<e>> /\ functors = <<d>>
                            \/ batch = <<e, d>> /\ functors = <<>>
  BY DEF Sound, FirstOK, EndOK, Typed, TypeOK, e, d
<1>4. /\ server = "holds" => Waiting' = {}
      /\ server = "gone" => Waiting' = {d}
  <2>1. Range(<<>>) = {} /\ Range(<<d>>) = {d} /\ Tail(<<e>>) = <<>> /\ Tail(<<e, d>>) = <<d>>
    BY RangeEmpty DEF Range
  <2> QED BY <1>3, <2>1 DEF Waiting
<1>5. Typed'
  <2>1. batch' \in Seq(Functors) /\ Range(batch') \subseteq Functors
    <3>1. batch \in Seq(Functors)
      BY DEF Typed
    <3>2. Tail(batch) \in Seq(Functors)
      BY <3>1, RangeRun
    <3> QED BY <3>2, RangeTyped
  <2> QED BY <1>2, <2>1 DEF Typed, TypeOK, States
<1>6. ChannelOK' /\ CountsOK' /\ UnknownOK'
  BY <1>2 DEF ChannelOK, CountsOK, UnknownOK, Open
<1>7. FirstOK' /\ EndOK'
  BY <1>1, <1>2, <1>3, <1>4 DEF FirstOK, EndOK, Destroying, Open
<1>8. StagesOK'
  BY <1>1, <1>2, <1>3, <1>4 DEF Sound, UnknownOK, StagesOK
<1> QED BY <1>5, <1>6, <1>7, <1>8 DEF IInv, Sound

(* ConnectDestroyed is done with the connection, or slips. *)
LEMMA DestroyedOK ==
  ASSUME Typed, Running, Sound, state # "kConnecting", ~polled, batch # <<>>,
         batch' = Tail(batch), ConnectDestroyed,
         UNCHANGED <<peer, polled, revents, functors, server, call, delayed, sent>>
  PROVE  IInv'
<1>1. /\ state \in Open \cup {"kDisconnected"}
      /\ index' = "new" /\ events' \subseteq events
      /\ UNCHANGED <<reading, output, wire, wrShut, ups, userRef, removing>>
  BY DEF ConnectDestroyed, Removed, bytes, Typed, TypeOK, States, Open
<1>2. batch' \in Seq(Functors) /\ Waiting' \subseteq Waiting
  <2>1. batch \in Seq(Functors)
    BY DEF Typed
  <2> QED BY <2>1, RangeRun DEF Waiting
<1>3. CASE state = "kDisconnecting"
  <2>1. slips' = slips \cup {"halfClosed"} /\ UNCHANGED <<state, events, downs>>
        /\ failed' \in {"none", "assert", "freed"}
    BY <1>3 DEF ConnectDestroyed, TellsUser, Typed, TypeOK
  <2>2. Typed'
    BY <1>1, <1>2, <2>1 DEF Typed, TypeOK, Waiting
  <2> QED BY <2>1, <2>2 DEF IInv, Running
<1>4. CASE state # "kDisconnecting"
  <2>1. /\ state' = "kDisconnected" /\ events' = {} /\ ups' = 1 /\ downs' = 1
        /\ slips' = slips /\ failed' = failed
    BY <1>1, <1>4 DEF ConnectDestroyed, TellsUser, Sound, ChannelOK, CountsOK, Open
  <2>2. Typed'
    BY <1>1, <1>2, <2>1 DEF Typed, TypeOK, Waiting, States
  <2>3. ChannelOK' /\ CountsOK' /\ UnknownOK' /\ EndOK'
    BY <1>1, <2>1 DEF ChannelOK, CountsOK, UnknownOK, EndOK, Open
  <2>4. FirstOK' /\ StagesOK'
    BY <1>2, <2>1 DEF Sound, FirstOK, StagesOK
  <2> QED BY <2>2, <2>3, <2>4 DEF IInv, Sound
<1> QED BY <1>3, <1>4

(* A functor, which is ConnectEstablished if nothing is established yet. *)
LEMMA RunFunctorOK ==
  ASSUME IInv, RunFunctor
  PROVE  IInv'
<1> DEFINE f == Head(batch)
<1>1. /\ Running /\ ~polled /\ batch # <<>> /\ batch' = Tail(batch)
      /\ UNCHANGED <<peer, polled, revents, functors, server, call, delayed, sent>>
  BY DEF RunFunctor
<1>2. Typed /\ Sound
  BY <1>1 DEF IInv
<1>3. /\ batch' \in Seq(Functors) /\ f \in Functors
      /\ Range(batch) = Range(batch') \cup {f}
  <2>1. batch \in Seq(Functors)
    BY <1>2 DEF Typed
  <2> QED BY <1>1, <2>1, RangeRun
<1>4. /\ Waiting = Waiting' \cup {f} /\ f \in Waiting
      /\ f.what \in Calls \cup {"established", "destroyed"} /\ f.msg \in Nat
  BY <1>1, <1>3 DEF Waiting, Functors
<1>5. f.what = "established" <=> state = "kConnecting"
  <2>1. ASSUME state = "kConnecting" PROVE f = Functor("established")
    BY <1>1, <1>2, <2>1 DEF Sound, FirstOK
  <2> QED BY <1>2, <1>4, <2>1, FunctorTyped DEF Sound, FirstOK
<1> HIDE DEF f
<1>6. CASE ~Owned
  <2>1. /\ failed' = "freed"
        /\ UNCHANGED <<state, events, index, slips, reading, output, wire, wrShut,
                       ups, downs, userRef, removing>>
    BY <1>6 DEF RunFunctor, chan, bytes
  <2> QED BY <1>1, <1>2, <1>3, <2>1 DEF IInv, Running, Typed, TypeOK
<1>7. ASSUME f.what \notin {"established", "destroyed"},
             ChannelKept, state' = state, failed' = failed,
             output' \in Seq(Units), wire' \in Seq(Units),
             wrShut' \in BOOLEAN, reading' \in BOOLEAN,
             UNCHANGED <<ups, downs, userRef, removing>>
      PROVE  IInv'
  <2>1. Range(output') \cup Range(wire') \subseteq Units
    BY <1>7, RangeTyped
  <2>2. Typed'
    BY <1>1, <1>2, <1>3, <1>7, <2>1 DEF Typed, TypeOK, Units, ChannelKept
  <2>3. /\ \A g \in Waiting' : g.what # "established"
        /\ Destroying => Destroying'
        /\ StagesOK'
    BY <1>1, <1>2, <1>4, <1>5, <1>7 DEF Sound, FirstOK, Destroying, StagesOK
  <2>4. Running' => Sound'
    BY <1>1, <1>2, <1>5, <1>7, <2>3, StepOK
  <2> QED BY <2>2, <2>4 DEF IInv
<1>8. CASE Owned /\ f.what = "established"
  <2>1. ConnectEstablished
    BY <1>8 DEF RunFunctor, Run, f
  <2> QED BY <1>1, <1>2, <1>5, <1>8, <2>1, EstablishedOK
<1>9. CASE Owned /\ f.what = "destroyed"
  <2>1. ConnectDestroyed
    BY <1>9 DEF RunFunctor, Run, f
  <2> QED BY <1>1, <1>2, <1>5, <1>9, <2>1, DestroyedOK
<1>10. CASE Owned /\ f.what = "send"
  <2>1. /\ SendInLoop(Message("user", f.msg))
        /\ UNCHANGED <<state, reading, wrShut, ups, downs, userRef, removing, failed>>
    BY <1>10 DEF RunFunctor, Run, f
  <2>2. f.msg \in Nat \ {0} /\ "user" \in Senders
    BY <1>2, <1>4, <1>10 DEF Sound, StagesOK, Senders
  <2>3. ChannelKept /\ output' \in Seq(Units) /\ wire' \in Seq(Units)
    BY <1>1, <1>2, <1>5, <1>10, <2>1, <2>2, MessageTyped, SendOK DEF Sound
  <2> QED BY <1>2, <1>7, <1>10, <2>1, <2>3 DEF Typed, TypeOK
<1>11. CASE Owned /\ f.what = "shutdown"
  <2>1. /\ wrShut' = (wrShut \/ MayShut)
        /\ UNCHANGED <<state, events, index, slips, reading, output, wire, ups,
                       downs, userRef, removing, failed>>
    BY <1>11 DEF RunFunctor, Run, f, ShutDownInLoop, chan, bytes
  <2>2. ChannelKept
    BY <1>1, <1>2, <2>1, SameChannelOK DEF Sound
  <2>3. wrShut' \in BOOLEAN
    BY <1>2, <2>1 DEF MayShut, IsWriting, Typed, TypeOK
  <2> QED BY <1>2, <1>7, <1>11, <2>1, <2>2, <2>3 DEF Typed, TypeOK
<1>12. CASE Owned /\ f.what \in {"startRead", "stopRead"}
  <2>1. /\ StartReadInLoop \/ StopReadInLoop
        /\ UNCHANGED <<state, output, wire, wrShut, ups, downs, userRef, removing, failed>>
    BY <1>12 DEF RunFunctor, Run, f, bytes
  <2>2. ChannelKept /\ reading' \in BOOLEAN
    BY <1>1, <1>2, <1>5, <1>12, <2>1, ReadOK DEF Sound
  <2> QED BY <1>2, <1>7, <1>12, <2>1, <2>2 DEF Typed, TypeOK
<1>13. CASE Owned /\ f.what = "forceClose"
  <2>1. ForceCloseInLoop /\ UNCHANGED <<reading, output, wire, wrShut, ups, userRef>>
    BY <1>13 DEF RunFunctor, Run, f, bytes
  <2>2. CASE StillOpen
    <3>1. HandleClose
      BY <2>1, <2>2 DEF ForceCloseInLoop
    <3>2. /\ state' = "kDisconnected" /\ ChannelKept
          /\ downs' \in 0 .. 1 /\ removing' \in 0 .. 1
          /\ failed' \in {"none", "assert", "freed"}
          /\ failed' = "none" => state \in Open /\ downs' = 1 /\ removing' = 1
      BY <1>1, <1>2, <1>5, <1>13, <2>1, <3>1, CloseOK DEF Sound
    <3>3. Typed'
      BY <1>1, <1>2, <1>3, <2>1, <3>2 DEF Typed, TypeOK, States, ChannelKept
    <3>4. ASSUME Running' PROVE Sound'
      <4>1. state \in Open /\ downs' = 1 /\ removing' = 1 /\ ChannelOK'
        BY <3>2, <3>4 DEF Running, ChannelKept
      <4>2. CountsOK' /\ UnknownOK' /\ EndOK'
        BY <1>2, <2>1, <3>2, <4>1 DEF Sound, CountsOK, UnknownOK, EndOK, Open
      <4>3. FirstOK' /\ StagesOK'
        BY <1>1, <1>2, <1>4, <1>5, <1>13, <3>2 DEF Sound, FirstOK, StagesOK
      <4> QED BY <4>1, <4>2, <4>3 DEF Sound
    <3> QED BY <3>3, <3>4 DEF IInv
  <2>3. CASE ~StillOpen
    <3>1. UNCHANGED <<state, events, index, slips, downs, removing, failed>>
      BY <2>1, <2>3 DEF ForceCloseInLoop, chan
    <3>2. ChannelKept
      BY <1>1, <1>2, <2>1, <3>1, SameChannelOK DEF Sound
    <3> QED BY <1>2, <1>7, <1>13, <2>1, <3>1, <3>2 DEF Typed, TypeOK
  <2> QED BY <2>2, <2>3
<1>14. f.what # "delayedClose"
  BY <1>2, <1>4 DEF Sound, StagesOK
<1> QED BY <1>4, <1>6, <1>8, <1>9, <1>10, <1>11, <1>12, <1>13, <1>14 DEF Calls

(* The user thread.  It has a reference only after the connection callback. *)
LEMMA TestStateOK ==
  ASSUME IInv, NEW c \in Calls, TestState(c)
  PROVE  IInv'
<1>1. /\ Running /\ userRef /\ call' = c /\ call' \in Stages
      /\ c = "send" => sent["user"] < MaxSends["user"]
      /\ UNCHANGED <<state, events, index, reading, output, wire, wrShut, peer,
                     polled, revents, functors, batch, removing, server, userRef,
                     delayed, sent, ups, downs, slips, failed>>
  BY DEF TestState, userRest, chan, bytes, owners, Stages
<1>2. Typed /\ Sound /\ state # "kConnecting"
  BY <1>1 DEF IInv, Sound, UnknownOK
<1>3. Typed'
  BY <1>1, <1>2 DEF Typed, TypeOK
<1>4. ChannelKept
  BY <1>1, <1>2, SameChannelOK DEF Sound
<1>5. /\ \A f \in Waiting' : f.what # "established"
      /\ Destroying => Destroying'
      /\ StagesOK'
  BY <1>1, <1>2 DEF Sound, FirstOK, Destroying, StagesOK, Waiting
<1>6. Running' => Sound'
  BY <1>1, <1>2, <1>4, <1>5, StepOK
<1> QED BY <1>3, <1>6 DEF IInv

(* set_state(kDisconnecting), or the slip "stale" if the connection is     *)
(* closed.                                                                 *)
LEMMA SetDisconnectingOK ==
  ASSUME IInv, SetDisconnecting
  PROVE  IInv'
<1>1. /\ Running /\ call \in {"shutdown", "forceClose", "delayedClose"}
      /\ state' = "kDisconnecting"
      /\ slips' = IF state \in Open THEN slips ELSE slips \cup {"stale"}
      /\ call' = (CASE call = "shutdown" -> "queueShutdown"
                    [] call = "forceClose" -> "queueForceClose"
                    [] call = "delayedClose" -> "idle")
      /\ delayed' = (delayed \/ call = "delayedClose")
      /\ UNCHANGED <<events, index, reading, output, wire, wrShut, peer, polled,
                     revents, functors, batch, removing, server, userRef, sent,
                     ups, downs, failed>>
  BY DEF SetDisconnecting, userRest, chan, bytes, owners
<1>2. Typed /\ Sound /\ state # "kConnecting"
  BY <1>1 DEF IInv, Sound, UnknownOK
<1>3. call' \in {"queueShutdown", "queueForceClose", "idle"} /\ delayed' \in BOOLEAN
  BY <1>1, <1>2 DEF Typed, TypeOK
<1>4. Typed'
  BY <1>1, <1>2, <1>3 DEF Typed, TypeOK, States, Stages
<1>5. CASE state \notin Open
  BY <1>1, <1>4, <1>5 DEF IInv, Running
<1>6. CASE state \in Open
  <2>1. ChannelKept
    BY <1>1, <1>2, <1>6, SameChannelOK DEF Sound, Open
  <2>2. /\ \A f \in Waiting' : f.what # "established"
        /\ Destroying => Destroying'
        /\ StagesOK'
    BY <1>1, <1>2, <1>3 DEF Sound, FirstOK, Destroying, StagesOK, Waiting
  <2>3. Running' => Sound'
    BY <1>1, <1>2, <1>6, <2>1, <2>2, StepOK DEF Open
  <2> QED BY <1>4, <2>3 DEF IInv
<1> QED BY <1>5, <1>6

(* send, shutdown and ForceClose queue their functor. *)
LEMMA QueueCallOK ==
  ASSUME IInv, QueueCall
  PROVE  IInv'
<1>1. /\ Running /\ call \in {"send", "queueShutdown", "queueForceClose"} /\ call' = "idle"
      /\ UNCHANGED <<state, events, index, reading, output, wire, wrShut, peer,
                     polled, revents, batch, removing, server, userRef, delayed,
                     ups, downs, slips, failed>>
  BY DEF QueueCall, userRest, chan, bytes, owners
<1>2. Typed /\ Sound /\ state # "kConnecting" /\ "user" \in Senders
  BY <1>1 DEF IInv, Sound, UnknownOK, Senders
<1>3. PICK f \in Functors :
        /\ functors' = Append(functors, f)
        /\ f.what \in {"send", "shutdown", "forceClose"} /\ (f.what = "send" => f.msg # 0)
        /\ sent' = sent \/ (call = "send" /\ sent' = [sent EXCEPT !["user"] = @ + 1])
  <2>1. CASE call = "send" /\ sent' = [sent EXCEPT !["user"] = @ + 1]
             /\ functors' = Append(functors, [what |-> "send", msg |-> sent["user"] + 1])
    <3>1. sent["user"] \in Nat
      BY <1>2 DEF Typed
    <3>2. [what |-> "send", msg |-> sent["user"] + 1] \in Functors /\ sent["user"] + 1 # 0
      BY <3>1 DEF Functors, Calls
    <3> QED BY <2>1, <3>2
  <2>2. CASE sent' = sent /\ functors' = Append(functors, Functor("shutdown"))
    BY <2>2, FunctorTyped DEF Calls
  <2>3. CASE sent' = sent /\ functors' = Append(functors, Functor("forceClose"))
    BY <2>3, FunctorTyped DEF Calls
  <2> QED BY <2>1, <2>2, <2>3 DEF QueueCall, Queued
<1>4. /\ functors' \in Seq(Functors) /\ Waiting' = Waiting \cup {f}
      /\ Range(functors') \cup Range(batch') \subseteq Functors
  BY <1>1, <1>2, <1>3, AppendOK
<1>5. sent' \in [Senders -> Nat] /\ \A s \in Senders : sent'[s] \in 0 .. MaxSends[s]
  <2>1. CASE sent' = sent
    BY <1>2, <2>1 DEF Typed, TypeOK
  <2>2. CASE call = "send" /\ sent' = [sent EXCEPT !["user"] = @ + 1]
    <3>1. sent["user"] < MaxSends["user"] /\ sent["user"] \in Nat /\ MaxSends["user"] \in Nat
      BY <1>2, <2>2, TcpConnectionAssumption DEF Sound, StagesOK, Typed
    <3>2. sent'["user"] = sent["user"] + 1 /\ sent' \in [Senders -> Nat]
      BY <1>2, <2>2, <3>1 DEF Typed
    <3>3. sent'["user"] \in 0 .. MaxSends["user"]
      BY <3>1, <3>2
    <3>4. \A s \in Senders : s # "user" => sent'[s] = sent[s]
      BY <1>2, <2>2 DEF Typed
    <3> QED BY <1>2, <3>2, <3>3, <3>4 DEF Typed, TypeOK
  <2> QED BY <1>3, <2>1, <2>2
<1>6. Typed'
  BY <1>1, <1>2, <1>4, <1>5 DEF Typed, TypeOK, Stages
<1>7. ChannelKept
  BY <1>1, <1>2, SameChannelOK DEF Sound
<1>8. /\ \A g \in Waiting' : g.what # "established"
      /\ Destroying => Destroying'
      /\ StagesOK'
  BY <1>1, <1>2, <1>3, <1>4 DEF Sound, FirstOK, Destroying, StagesOK
<1>9. Running' => Sound'
  BY <1>1, <1>2, <1>7, <1>8, StepOK
<1> QED BY <1>6, <1>9 DEF IInv

(* StartRead and StopRead queue theirs. *)
LEMMA QueueReadOK ==
  ASSUME IInv, NEW c \in Calls, QueueRead(c)
  PROVE  IInv'
<1>1. /\ Running /\ userRef /\ functors' = Append(functors, Functor(c))
      /\ c \in {"startRead", "stopRead"}
      /\ UNCHANGED <<state, events, index, reading, output, wire, wrShut, peer,
                     polled, revents, batch, removing, server, userRef, call,
                     delayed, sent, ups, downs, slips, failed>>
  BY DEF QueueRead, Queued, userRest, chan, bytes, owners
<1>2. Typed /\ Sound /\ state # "kConnecting"
  BY <1>1 DEF IInv, Sound, UnknownOK
<1>3. Functor(c) \in Functors /\ Functor(c).what = c
  BY FunctorTyped
<1>4. /\ functors' \in Seq(Functors) /\ Waiting' = Waiting \cup {Functor(c)}
      /\ Range(functors') \cup Range(batch') \subseteq Functors
  BY <1>1, <1>2, <1>3, AppendOK
<1>5. Typed'
  BY <1>1, <1>2, <1>4 DEF Typed, TypeOK
<1>6. ChannelKept
  BY <1>1, <1>2, SameChannelOK DEF Sound
<1>7. /\ \A g \in Waiting' : g.what # "established"
      /\ Destroying => Destroying'
      /\ StagesOK'
  BY <1>1, <1>2, <1>3, <1>4 DEF Sound, FirstOK, Destroying, StagesOK
<1>8. Running' => Sound'
  BY <1>1, <1>2, <1>6, <1>7, StepOK
<1> QED BY <1>5, <1>8 DEF IInv

(* The user lets the connection go. *)
LEMMA DropReferenceOK ==
  ASSUME IInv, DropReference
  PROVE  IInv'
<1>1. /\ Running /\ userRef /\ userRef' = FALSE
      /\ UNCHANGED <<state, events, index, reading, output, wire, wrShut, peer,
                     polled, revents, functors, batch, removing, server, call,
                     delayed, sent, ups, downs, slips, failed>>
  BY DEF DropReference, chan, bytes, loopVars
<1>2. Typed /\ Sound /\ state # "kConnecting"
  BY <1>1 DEF IInv, Sound, UnknownOK
<1>3. Typed'
  BY <1>1, <1>2 DEF Typed, TypeOK
<1>4. ChannelKept
  BY <1>1, <1>2, SameChannelOK DEF Sound
<1>5. /\ \A g \in Waiting' : g.what # "established"
      /\ Destroying => Destroying'
      /\ StagesOK'
  BY <1>1, <1>2 DEF Sound, FirstOK, Destroying, StagesOK, Waiting
<1>6. Running' => Sound'
  BY <1>1, <1>2, <1>4, <1>5, StepOK
<1> QED BY <1>3, <1>6 DEF IInv

(* The server's loop: from now on ConnectDestroyed is on its way. *)
LEMMA RemoveConnectionOK ==
  ASSUME IInv, RemoveConnectionInLoop
  PROVE  IInv'
<1> DEFINE d == Functor("destroyed")
<1>1. /\ Running /\ removing > 0 /\ removing' = removing - 1
      /\ UNCHANGED <<state, events, index, reading, output, wire, wrShut, peer,
                     polled, revents, batch, userRef, call, delayed, sent, ups,
                     downs, slips>>
      /\ \/ failed' = "freed" /\ UNCHANGED <<server, functors>>
         \/ server' = "erased" /\ functors' = Append(functors, d) /\ failed' = failed
  BY DEF RemoveConnectionInLoop, serverRest, chan, bytes
<1>2. Typed /\ Sound /\ removing' \in 0 .. 1
  BY <1>1 DEF IInv, Typed, TypeOK
<1>3. state = "kDisconnected"
  BY <1>1, <1>2 DEF Sound, CountsOK, Typed, TypeOK, States, Open
<1>4. CASE failed' = "freed" /\ UNCHANGED <<server, functors>>
  <2>1. Typed'
    BY <1>1, <1>2, <1>4 DEF Typed, TypeOK
  <2> QED BY <1>4, <2>1 DEF IInv, Running
<1>5. CASE server' = "erased" /\ functors' = Append(functors, d) /\ failed' = failed
  <2>1. d \in Functors /\ d.what = "destroyed"
    BY FunctorTyped
  <2> HIDE DEF d
  <2>2. /\ functors' \in Seq(Functors) /\ Waiting' = Waiting \cup {d}
        /\ Range(functors') \cup Range(batch') \subseteq Functors
    BY <1>1, <1>2, <1>5, <2>1, AppendOK
  <2>3. Typed'
    BY <1>1, <1>2, <1>5, <2>2 DEF Typed, TypeOK
  <2>4. ChannelOK' /\ CountsOK' /\ UnknownOK'
    BY <1>1, <1>2, <1>3 DEF Sound, ChannelOK, CountsOK, UnknownOK, Open
  <2>5. FirstOK' /\ EndOK' /\ StagesOK'
    BY <1>1, <1>2, <1>3, <2>1, <2>2 DEF Sound, FirstOK, EndOK, StagesOK, Destroying, Open
  <2> QED BY <2>3, <2>4, <2>5 DEF IInv, Sound
<1> QED BY <1>1, <1>4, <1>5

(* ~TcpServer queues ConnectDestroyed for the connection it still holds. *)
LEMMA DestroyServerOK ==
  ASSUME IInv, DestroyServer
  PROVE  IInv'
<1> DEFINE d == Functor("destroyed")
<1>1. /\ Running /\ server # "gone" /\ server' = "gone"
      /\ functors' = IF server = "holds" THEN Append(functors, d) ELSE functors
      /\ UNCHANGED <<state, events, index, reading, output, wire, wrShut, peer,
                     polled, revents, batch, userRef, call, delayed, sent, ups,
                     downs, slips, removing, failed>>
  BY DEF DestroyServer, serverRest, chan, bytes
<1>2. Typed /\ Sound
  BY <1>1 DEF IInv
<1>3. d \in Functors /\ d.what = "destroyed"
  BY FunctorTyped
<1> HIDE DEF d
<1>4. /\ functors' \in Seq(Functors)
      /\ Waiting' = IF server = "holds" THEN Waiting \cup {d} ELSE Waiting
      /\ Range(functors') \cup Range(batch') \subseteq Functors
  <2>1. CASE server = "holds"
    BY <1>1, <1>2, <1>3, <2>1, AppendOK
  <2>2. CASE server # "holds"
    BY <1>1, <1>2, <2>2 DEF Waiting, Typed, TypeOK
  <2> QED BY <2>1, <2>2
<1>5. Typed'
  BY <1>1, <1>2, <1>4 DEF Typed, TypeOK
<1>6. ChannelOK' /\ CountsOK' /\ UnknownOK'
  BY <1>1, <1>2 DEF Sound, ChannelOK, CountsOK, UnknownOK, IsWriting
<1>7. EndOK' /\ StagesOK'
  BY <1>1, <1>2, <1>3, <1>4 DEF Sound, EndOK, StagesOK, Destroying
<1>8. FirstOK'
  <2>1. CASE state = "kConnecting"
    <3>1. server = "holds" /\ functors' = Append(functors, d)
      BY <1>1, <1>2, <2>1 DEF Sound, EndOK, Typed, TypeOK
    <3> DEFINE e == Functor("established")
    <3>2. Append(<<e>>, d) = <<e, d>> /\ Append(<<>>, d) = <<d>>
      BY <1>3, FunctorTyped, AppendedTo
    <3>3. \/ batch = <<>> /\ functors = <<e>>
          \/ batch = <<e>> /\ functors = <<>>
      BY <1>2, <2>1, <3>1 DEF Sound, FirstOK
    <3> QED BY <1>1, <2>1, <3>1, <3>2, <3>3 DEF FirstOK, d
  <2>2. CASE state # "kConnecting"
    BY <1>1, <1>2, <1>3, <1>4, <2>2 DEF Sound, FirstOK
  <2> QED BY <2>1, <2>2
<1> QED BY <1>5, <1>6, <1>7, <1>8 DEF IInv, Sound

(* The peer changes nothing of what IInv says. *)
LEMMA PeerActsOK ==
  ASSUME IInv, PeerActs
  PROVE  IInv'
<1>1. /\ Running /\ peer' \in {"open", "fin", "reset"}
      /\ UNCHANGED <<state, events, index, reading, output, wire, wrShut, polled,
                     revents, functors, batch, removing, server, userRef, call,
                     delayed, sent, ups, downs, slips, failed>>
  BY DEF PeerActs, chan, bytes, loopVars, owners
<1>2. Typed /\ Sound
  BY <1>1 DEF IInv
<1>3. Typed'
  BY <1>1, <1>2 DEF Typed, TypeOK
<1>4. Sound'
  BY <1>1, <1>2 DEF Sound, ChannelOK, CountsOK, UnknownOK, FirstOK, EndOK,
     StagesOK, IsWriting, Destroying, Waiting
<1> QED BY <1>3, <1>4 DEF IInv

-----------------------------------------------------------------------------
(* The three steps that shut the write side. *)

(* Until it is closed, a connection without POLLOUT has an empty buffer. *)
LEMMA MayShutDrained ==
  ASSUME Typed, Sound, MayShut, state # "kDisconnected"
  PROVE  output = <<>>
BY DEF Typed, TypeOK, States, Open, Sound, ChannelOK, MayShut

(* shutdown called by the message callback. *)
LEMMA DataShutsDrained ==
  ASSUME IInv, HandleData, ~wrShut, wrShut'
  PROVE  output' = <<>>
<1>1. Typed /\ Sound
  BY DEF HandleData, IInv
<1>2. PICK c \in ReplyCalls \cup {"nothing"} : Reply(c)
  BY DEF HandleData
<1>3. c \in (Calls \ {"delayedClose"}) \cup {"nothing"}
  BY TcpConnectionAssumption
<1>4. c = "shutdown"
  BY <1>2, <1>3 DEF Calls, Reply, ReplySend
<1>5. state = "kConnected" /\ MayShut /\ output' = output
  BY <1>2, <1>4 DEF Reply, ReplyShutdown, ShutDownInLoop, bytes
<1> QED BY <1>1, <1>5, MayShutDrained

(* HandleWrite, which has written all of the buffer. *)
LEMMA WriteShutsDrained ==
  ASSUME IInv, HandleWrite, ~wrShut, wrShut'
  PROVE  output' = <<>>
<1>1. output \in Seq(Units) /\ Len(output) \in Nat
  BY DEF HandleWrite, IInv, Typed
<1>2. PICK n \in 1 .. Len(output) : n = Len(output) /\ output' = SubSeq(output, n + 1, Len(output))
  BY DEF HandleWrite, Unwritten
<1>3. n + 1 \in 1 .. Len(output) + 1 /\ Len(output) \in 0 .. Len(output)
      /\ n + 1 > Len(output)
  BY <1>1, <1>2
<1> QED BY <1>1, <1>2, <1>3, SubSeqTyped

(* ShutDownInLoop, queued by another thread. *)
LEMMA FunctorShutsDrained ==
  ASSUME IInv, RunFunctor, ~wrShut, wrShut', state' # "kDisconnected"
  PROVE  output' = <<>>
<1> DEFINE f == Head(batch)
<1>1. Typed /\ Sound /\ batch # <<>>
  BY DEF RunFunctor, IInv
<1>2. f \in Waiting /\ f \in Functors
  <2>1. batch \in Seq(Functors)
    BY <1>1 DEF Typed
  <2> QED BY <1>1, <2>1, RangeRun DEF Waiting
<1>3. f.what \in (Calls \ {"delayedClose"}) \cup {"established", "destroyed"}
  BY <1>1, <1>2 DEF Functors, Sound, StagesOK
<1> HIDE DEF f
<1>4. Run(f)
  BY DEF RunFunctor, f
<1>5. f.what = "shutdown"
  BY <1>3, <1>4 DEF Calls, Run, ConnectEstablished, ConnectDestroyed
<1>6. MayShut /\ state' = state /\ output' = output
  BY <1>4, <1>5 DEF Run, ShutDownInLoop, bytes
<1> QED BY <1>1, <1>6, MayShutDrained

-----------------------------------------------------------------------------
(* What state_ says of the connection is true as long as the code neither   *)
(* fails nor slips.                                                        *)
LEMMA NextInv == IInv /\ [Next]_vars => IInv'
<1> SUFFICES ASSUME IInv, [Next]_vars PROVE IInv'
  OBVIOUS
<1>1. CASE LoopThread
  BY <1>1, PollOK, HandleCloseOK, HandleDataOK, HandleWriteOK, TakeFunctorsOK,
     RunFunctorOK DEF LoopThread, PollReady, HandleEvent
<1>2. CASE UserThread
  BY <1>2, TestStateOK, QueueReadOK, SetDisconnectingOK, QueueCallOK,
     DropReferenceOK DEF UserThread
<1>3. CASE Expire \/ ServerThread \/ PeerActs
  BY <1>3, ExpireOK, RemoveConnectionOK, DestroyServerOK, PeerActsOK DEF ServerThread
<1>4. CASE UNCHANGED vars
  BY <1>4 DEF vars, chan, bytes, loopVars, owners, IInv, Typed, TypeOK, Running,
     Sound, ChannelOK, CountsOK, UnknownOK, FirstOK, EndOK, StagesOK, IsWriting,
     Destroying, Waiting
<1> QED BY <1>1, <1>2, <1>3, <1>4 DEF Next

THEOREM Invariant == Spec => []IInv
BY InitOK, NextInv, PTL DEF Spec

(* Bytes in the output buffer of an open connection are watched for, in the *)
(* poller: SendInLoop, HandleWrite, StopRead and the rest, in any order    *)
(* (connection.cpp:124-206, 227-335).                                      *)
THEOREM BytesAreWatched == Spec => []OutputWatched
<1>1. IInv => OutputWatched
  BY DEF IInv, OutputWatched, Sound, ChannelOK, IsWriting
<1> QED BY Invariant, <1>1, PTL

(* The user hears of a connection once, and of its end once before it is    *)
(* freed, whoever ends it (connection.cpp:186-205, 237-312).               *)
THEOREM UserIsToldOnce == Spec => []CallbacksPaired
<1>1. IInv => CallbacksPaired
  <2> SUFFICES ASSUME IInv, Running
               PROVE  downs <= ups /\ ups <= 1 /\ (~Owned => downs = ups)
    BY DEF IInv, Typed, CallbacksPaired
  <2>1. state \in Open \/ state \in {"kConnecting", "kDisconnected"}
    BY DEF IInv, Typed, TypeOK, States, Open
  <2>2. downs <= ups /\ ups <= 1
    BY <2>1 DEF IInv, Sound, CountsOK
  <2>3. state \in Open => Owned
    BY DEF IInv, Sound, EndOK, Owned, Destroying, Waiting, Owning
  <2> QED BY <2>1, <2>2, <2>3 DEF IInv, Sound, CountsOK
<1> QED BY Invariant, <1>1, PTL

(* When nobody holds the connection any more it is closed and its channel   *)
(* removed, as the destructors assert (connection.cpp:69-73).              *)
THEOREM RemovedBeforeDestructor == Spec => []RemovedBeforeFreed
<1>1. IInv => RemovedBeforeFreed
  <2> SUFFICES ASSUME IInv, Running, ~Owned
               PROVE  state = "kDisconnected" /\ index = "new"
    BY DEF RemovedBeforeFreed
  <2>1. server # "holds" /\ removing # 1
        /\ \A f \in Waiting : f.what \notin {"established", "destroyed"}
    BY DEF Owned, Owning, Waiting
  <2>2. state # "kConnecting"
    <3> SUFFICES ASSUME state = "kConnecting" PROVE FALSE
      OBVIOUS
    <3> DEFINE e == Functor("established")
               d == Functor("destroyed")
    <3>1. e \in Range(<<e>>) /\ e \in Range(<<e, d>>)
      <4>1. 1 \in DOMAIN <<e>> /\ <<e>>[1] = e /\ 1 \in DOMAIN <<e, d>> /\ <<e, d>>[1] = e
        OBVIOUS
      <4> QED BY <4>1 DEF Range
    <3>2. e \in Waiting
      BY <3>1 DEF IInv, Sound, FirstOK, Waiting
    <3> QED BY <2>1, <3>2, FunctorTyped
  <2>3. state \notin Open /\ (state = "kDisconnected" => index = "new")
    BY <2>1 DEF IInv, Sound, EndOK, Destroying
  <2> QED BY <2>2, <2>3 DEF IInv, Typed, TypeOK, States, Open
<1> QED BY Invariant, <1>1, PTL

(* shutdown, from whichever thread and however it meets a write, shuts the  *)
(* write side of an open connection only when its output buffer is empty   *)
(* (connection.cpp:170-184, 278-300).                                      *)
THEOREM ShutdownWaitsForOutput == Spec => ShutdownOnlyWhenDrained
<1>1. IInv /\ [Next]_vars =>
        [~wrShut /\ wrShut' /\ state' # "kDisconnected" => output' = <<>>]_vars
  <2> SUFFICES ASSUME IInv, Next, ~wrShut, wrShut', state' # "kDisconnected"
               PROVE  output' = <<>>
    OBVIOUS
  <2>1. CASE HandleData
    BY <2>1, DataShutsDrained
  <2>2. CASE HandleWrite
    BY <2>2, WriteShutsDrained
  <2>3. CASE RunFunctor
    BY <2>3, FunctorShutsDrained
  <2>4. CASE PollReady \/ HandleHangup \/ HandleEof \/ TakeFunctors \/ Expire
    BY <2>4 DEF PollReady, Poll, HandleHangup, HandleEof, TakeFunctors, Expire
  <2>5. CASE UserThread
    BY <2>5 DEF UserThread, TestState, QueueRead, SetDisconnecting, QueueCall,
       DropReference, userRest
  <2>6. CASE ServerThread \/ PeerActs
    BY <2>6 DEF ServerThread, RemoveConnectionInLoop, DestroyServer, serverRest,
       PeerActs
  <2> QED BY <2>1, <2>2, <2>3, <2>4, <2>5, <2>6 DEF Next, LoopThread, HandleEvent
<1> QED BY Invariant, <1>1, PTL DEF Spec, ShutdownOnlyWhenDrained

-----------------------------------------------------------------------------
(* The stream.                                                              *)

(* A stream is in order if each unit is in its place. *)
Placed(q) == \A i \in DOMAIN q : InPlace(q, i)

SendsOf(q) == {f.msg : f \in {g \in Range(q) : g.what = "send"}}
SendsInOrder(q) ==
  \A i, j \in DOMAIN q :
    i < j /\ q[i].what = "send" /\ q[j].what = "send" => q[i].msg < q[j].msg

(* The messages of the user after the first p wait in the queues, in order. *)
Pending(p) ==
  /\ SendsInOrder(batch) /\ SendsInOrder(functors)
  /\ \A a \in SendsOf(batch), b \in SendsOf(functors) : a < b
  /\ SendsOf(batch) \cup SendsOf(functors) = p + 1 .. sent["user"]
  /\ p <= sent["user"]

(* The message callback writes at once, the user through the queue; what    *)
(* arrives there after the close is dropped.                               *)
StreamOK ==
  /\ Placed(wire \o output)
  /\ MessagesOf("loop", wire \o output) = 1 .. sent["loop"]
  /\ \E p \in Nat : /\ MessagesOf("user", wire \o output) = 1 .. p
                    /\ state # "kDisconnected" => Pending(p)

LEMMA MessageUnits ==
  ASSUME NEW s \in Senders, NEW k \in Nat \ {0}
  PROVE  /\ Message(s, k) \in Seq(Units) /\ Len(Message(s, k)) = Size
         /\ \A n \in 1 .. Size : Message(s, k)[n] = <<s, k, n>>
<1>1. Size \in Nat \ {0}
  BY TcpConnectionAssumption
<1>2. Message(s, k) = [n \in 1 .. Size |-> <<s, k, n>>]
  BY DEF Message
<1>3. DOMAIN Message(s, k) = 1 .. Size /\ Len(Message(s, k)) \in Nat
      /\ DOMAIN Message(s, k) = 1 .. Len(Message(s, k))
  <2>1. Message(s, k) \in Seq(Units)
    BY MessageTyped
  <2> QED BY <1>2, <2>1, LenProperties
<1>4. Len(Message(s, k)) = Size
  BY <1>1, <1>3
<1> QED BY <1>2, <1>4, MessageTyped

Extends(s, k, q, r) ==
  /\ Placed(r) /\ MessagesOf(s, r) = 1 .. k
  /\ \A t \in Senders : t # s => MessagesOf(t, r) = MessagesOf(t, q)

(* The next message of a sender is put in its place. *)
LEMMA MessageAppended ==
  \A q \in Seq(Units), s \in Senders, k \in Nat \ {0} :
    Placed(q) /\ MessagesOf(s, q) = 1 .. k - 1 => Extends(s, k, q, q \o Message(s, k))
<1> SUFFICES ASSUME NEW q \in Seq(Units), NEW s \in Senders, NEW k \in Nat \ {0},
                    Placed(q), MessagesOf(s, q) = 1 .. k - 1,
                    NEW r, r = q \o Message(s, k)
             PROVE  Extends(s, k, q, r)
  OBVIOUS
<1> DEFINE L == Len(q)
<1>1. Size \in Nat \ {0} /\ L \in Nat /\ DOMAIN q = 1 .. L
  BY TcpConnectionAssumption, LenProperties
<1>2. /\ r \in Seq(Units) /\ Len(r) = L + Size /\ DOMAIN r = 1 .. L + Size
      /\ \A i \in 1 .. L : r[i] = q[i]
      /\ \A n \in 1 .. Size : r[L + n] = <<s, k, n>>
  <2> DEFINE m == Message(s, k)
  <2>1. m \in Seq(Units) /\ Len(m) = Size /\ \A n \in 1 .. Size : m[n] = <<s, k, n>>
    BY MessageUnits
  <2> HIDE DEF m
  <2>2. r \in Seq(Units) /\ Len(r) = L + Size
        /\ \A i \in 1 .. L + Size : r[i] = IF i <= L THEN q[i] ELSE m[i - L]
    <3>1. r = q \o m
      BY DEF m
    <3> QED BY <2>1, <3>1, ConcatProperties
  <2>3. DOMAIN r = 1 .. L + Size
    BY <2>2, LenProperties
  <2>4. \A n \in 1 .. Size : L + n \in 1 .. L + Size /\ ~(L + n <= L) /\ L + n - L = n
    BY <1>1
  <2>5. \A i \in 1 .. L : i \in 1 .. L + Size /\ i <= L
    BY <1>1
  <2>6. ASSUME NEW n \in 1 .. Size PROVE r[L + n] = <<s, k, n>>
    <3>1. L + n \in 1 .. L + Size /\ ~(L + n <= L) /\ L + n - L = n
      BY <2>4
    <3>2. r[L + n] = m[L + n - L]
      BY <2>2, <3>1
    <3> QED BY <2>1, <3>1, <3>2
  <2>7. \A i \in 1 .. L : r[i] = q[i]
    BY <2>2, <2>5
  <2> QED BY <2>2, <2>3, <2>6, <2>7
<1>3. \A i \in 1 .. L + 1 : SubSeq(r, 1, i - 1) = SubSeq(q, 1, i - 1)
  <2> SUFFICES ASSUME NEW i \in 1 .. L + 1 PROVE SubSeq(r, 1, i - 1) = SubSeq(q, 1, i - 1)
    OBVIOUS
  <2>1. i - 1 \in Int /\ \A j \in 1 .. i - 1 : r[j] \in Units /\ q[j] \in Units /\ r[j] = q[j]
    BY <1>1, <1>2, ElementOfSeq
  <2>2. CASE i = 1
    BY <2>1, <2>2, SubSeqEmpty
  <2>3. CASE i # 1
    <3> DEFINE a == SubSeq(r, 1, i - 1)
               b == SubSeq(q, 1, i - 1)
    <3>1. /\ a \in Seq(Units) /\ Len(a) = i - 1
          /\ \A j \in 1 .. i - 1 - 1 + 1 : a[j] = r[1 + j - 1]
      BY <2>1, <2>3, SubSeqProperties
    <3>2. /\ b \in Seq(Units) /\ Len(b) = i - 1
          /\ \A j \in 1 .. i - 1 - 1 + 1 : b[j] = q[1 + j - 1]
      BY <2>1, <2>3, SubSeqProperties
    <3>3. \A j \in 1 .. i - 1 : j \in 1 .. i - 1 - 1 + 1 /\ 1 + j - 1 = j
      BY <2>1
    <3>4. \A j \in 1 .. Len(a) : a[j] = b[j]
      BY <2>1, <3>1, <3>2, <3>3
    <3> HIDE DEF a, b
    <3>5. a = b
      BY <3>1, <3>2, <3>4, SeqEqual
    <3> QED BY <3>5 DEF a, b
  <2> QED BY <2>2, <2>3
<1>4. SubSeq(r, 1, L) = q
  <2>1. L + 1 \in 1 .. L + 1 /\ (L + 1) - 1 = L
    BY <1>1
  <2> QED BY <1>3, <2>1, SubSeqFull
<1>5. Range(r) = Range(q) \cup {<<s, k, n>> : n \in 1 .. Size}
  <2>1. ASSUME NEW i \in 1 .. L + Size
        PROVE  r[i] \in Range(q) \cup {<<s, k, n>> : n \in 1 .. Size}
    <3>1. CASE i <= L
      BY <1>1, <1>2, <3>1 DEF Range
    <3>2. CASE ~(i <= L)
      <4>1. i - L \in 1 .. Size /\ L + (i - L) = i
        BY <1>1, <3>2
      <4> QED BY <1>2, <4>1
    <3> QED BY <3>1, <3>2
  <2>2. \A i \in 1 .. L : i \in DOMAIN r /\ r[i] = q[i]
    BY <1>1, <1>2
  <2>3. \A n \in 1 .. Size : L + n \in DOMAIN r /\ r[L + n] = <<s, k, n>>
    BY <1>1, <1>2
  <2> QED BY <1>1, <1>2, <2>1, <2>2, <2>3 DEF Range
<1>6. MessagesOf(s, r) = MessagesOf(s, q) \cup {k}
  <2>1. 1 \in 1 .. Size
    BY <1>1
  <2>2. \A n \in 1 .. Size : <<s, k, n>>[1] = s /\ <<s, k, n>>[2] = k
    OBVIOUS
  <2>3. {v \in Range(r) : v[1] = s}
          = {v \in Range(q) : v[1] = s} \cup {<<s, k, n>> : n \in 1 .. Size}
    BY <1>5, <2>2
  <2>5. ASSUME NEW u \in {<<s, k, n>> : n \in 1 .. Size} PROVE u[2] = k
    OBVIOUS
  <2>6. <<s, k, 1>> \in {v \in Range(r) : v[1] = s} /\ <<s, k, 1>>[2] = k
    BY <2>1, <2>3
  <2>7. ASSUME NEW u \in {v \in Range(r) : v[1] = s} PROVE u[2] \in MessagesOf(s, q) \cup {k}
    BY <2>3, <2>5 DEF MessagesOf
  <2>8. ASSUME NEW u \in {v \in Range(q) : v[1] = s} PROVE u[2] \in MessagesOf(s, r)
    BY <2>3 DEF MessagesOf
  <2>9. k \in MessagesOf(s, r)
    BY <2>6 DEF MessagesOf
  <2> QED BY <2>7, <2>8, <2>9 DEF MessagesOf
<1>7. MessagesOf(s, r) = 1 .. k
  <2>1. 1 .. k = (1 .. k - 1) \cup {k}
    OBVIOUS
  <2> QED BY <1>6, <2>1
<1>8. ASSUME NEW t \in Senders, t # s PROVE MessagesOf(t, r) = MessagesOf(t, q)
  <2>1. \A n \in 1 .. Size : <<s, k, n>>[1] # t
    BY <1>8
  <2>2. {v \in Range(r) : v[1] = t} = {v \in Range(q) : v[1] = t}
    BY <1>5, <2>1
  <2> QED BY <2>2 DEF MessagesOf
<1>9. ASSUME NEW i \in 1 .. L PROVE InPlace(r, i)
  <2>1. /\ InPlace(q, i) /\ r[i] = q[i] /\ q[i] \in Units
        /\ SubSeq(r, 1, i - 1) = SubSeq(q, 1, i - 1)
        /\ i > 1 => r[i - 1] = q[i - 1]
        /\ i < L => i < Len(r) /\ r[i + 1] = q[i + 1]
    <3>1. i \in 1 .. L + 1 /\ (i > 1 => i - 1 \in 1 .. L) /\ (i < L => i + 1 \in 1 .. L /\ i < L + Size)
      BY <1>1
    <3> QED BY <1>1, <1>2, <1>3, <3>1, ElementOfSeq DEF Placed
  <2> QED BY <2>1 DEF InPlace
<1>10. ASSUME NEW n \in 1 .. Size PROVE InPlace(r, L + n)
  <2>1. /\ r[L + n] = <<s, k, n>>
        /\ n > 1 => L + n > 1 /\ r[(L + n) - 1] = <<s, k, n - 1>>
        /\ n < Size => L + n < Len(r) /\ r[L + n + 1] = <<s, k, n + 1>>
    <3>1. /\ n > 1 => n - 1 \in 1 .. Size /\ L + (n - 1) = (L + n) - 1 /\ L + n > 1
          /\ n < Size => n + 1 \in 1 .. Size /\ L + (n + 1) = L + n + 1 /\ L + n < L + Size
      BY <1>1
    <3> QED BY <1>2, <3>1
  <2>2. n = 1 => MessagesOf(s, SubSeq(r, 1, (L + n) - 1)) = 1 .. k - 1
    <3>1. n = 1 => (L + n) - 1 = L
      BY <1>1
    <3> QED BY <1>4, <3>1
  <2> DEFINE h == L + n
  <2>3. /\ n = 1 => MessagesOf(s, SubSeq(r, 1, h - 1)) = 1 .. k - 1
        /\ n > 1 => h > 1 /\ r[h - 1] = <<s, k, n - 1>>
        /\ n < Size => h < Len(r) /\ r[h + 1] = <<s, k, n + 1>>
    <3>1. n = 1 => MessagesOf(s, SubSeq(r, 1, h - 1)) = 1 .. k - 1
      BY <2>2
    <3>2. n > 1 => h > 1 /\ r[h - 1] = <<s, k, n - 1>>
      BY <2>1
    <3>3. n < Size => h < Len(r) /\ r[h + 1] = <<s, k, n + 1>>
      BY <2>1
    <3> QED BY <3>1, <3>2, <3>3
  <2>4. r[h] = <<s, k, n>>
    BY <2>1
  <2> HIDE DEF h
  <2>5. r[h][1] = s /\ r[h][2] = k /\ r[h][3] = n
    BY <2>4
  <2>6. InPlace(r, h)
    BY <2>3, <2>5 DEF InPlace
  <2> QED BY <2>6 DEF h
<1>11. Placed(r)
  <2> SUFFICES ASSUME NEW i \in 1 .. L + Size PROVE InPlace(r, i)
    BY <1>2 DEF Placed
  <2>1. CASE i <= L
    BY <1>1, <1>9, <2>1
  <2>2. CASE ~(i <= L)
    <3>1. i - L \in 1 .. Size /\ L + (i - L) = i
      BY <1>1, <2>2
    <3> QED BY <1>10, <3>1
  <2> QED BY <2>1, <2>2
<1> QED BY <1>7, <1>8, <1>11 DEF Extends
(* A buffer is the bytes before a place and those after it. *)
LEMMA Divided ==
  ASSUME NEW q \in Seq(Units), NEW n \in 0 .. Len(q)
  PROVE  /\ SubSeq(q, 1, n) \in Seq(Units) /\ SubSeq(q, n + 1, Len(q)) \in Seq(Units)
         /\ SubSeq(q, 1, n) \o SubSeq(q, n + 1, Len(q)) = q
<1>1. /\ Len(q) \in Nat /\ 1 \in 1 .. Len(q) + 1 /\ n + 1 \in 1 .. Len(q) + 1
      /\ Len(q) \in 0 .. Len(q) /\ n \in 1 - 1 .. Len(q) /\ Len(q) \in n .. Len(q)
  BY LenProperties
<1>2. SubSeq(q, 1, n) \in Seq(Units) /\ SubSeq(q, n + 1, Len(q)) \in Seq(Units)
  BY <1>1, SubSeqTyped
<1>3. SubSeq(q, 1, n) \o SubSeq(q, n + 1, Len(q)) = SubSeq(q, 1, Len(q))
  BY <1>1, ConcatAdjacentSubSeq
<1> QED BY <1>2, <1>3, SubSeqFull

LEMMA Joins ==
  \A x, y, z \in Seq(Units) : (x \o y) \o z = x \o (y \o z)
BY ConcatAssociative

(* What is written of a message and what is buffered are the message, and   *)
(* nothing is written past what waits.                                     *)
LEMMA SendStream ==
  ASSUME wire \in Seq(Units), output \in Seq(Units), NEW m \in Seq(Units),
         state # "kDisconnected", SendInLoop(m)
  PROVE  wire' \o output' = (wire \o output) \o m
<1>1. PICK n \in 0 .. Len(m) :
        /\ n > 0 => DirectWrite
        /\ wire' = wire \o SubSeq(m, 1, n)
        /\ output' = output \o SubSeq(m, n + 1, Len(m))
  BY DEF SendInLoop
<1> DEFINE a == SubSeq(m, 1, n)
           b == SubSeq(m, n + 1, Len(m))
<1>2. /\ wire' = wire \o a /\ output' = output \o b
      /\ a \in Seq(Units) /\ b \in Seq(Units) /\ a \o b = m
  BY <1>1, Divided
<1>3. n = 0 => a = <<>>
  BY SubSeqEmpty
<1>4. n # 0 => output = <<>>
  BY <1>1 DEF DirectWrite
<1> HIDE DEF a, b
<1>5. CASE n # 0
  <2>1. wire' \o output' = (wire \o a) \o b
    BY <1>2, <1>4, <1>5, ConcatEmptySeq
  <2>2. (wire \o a) \o b = wire \o (a \o b)
    BY <1>2, Joins
  <2>3. wire \o output = wire
    BY <1>4, <1>5, ConcatEmptySeq
  <2> QED BY <1>2, <2>1, <2>2, <2>3
<1>6. CASE n = 0
  <2>1. wire' = wire /\ b = m
    BY <1>2, <1>3, <1>6, ConcatEmptySeq
  <2>2. (wire \o output) \o m = wire \o (output \o m)
    BY Joins
  <2> QED BY <1>2, <2>1, <2>2
<1> QED BY <1>5, <1>6

(* HandleWrite moves bytes from the buffer to the socket. *)
LEMMA WriteStream ==
  ASSUME wire \in Seq(Units), output \in Seq(Units), HandleWrite
  PROVE  wire' \o output' = wire \o output
<1>1. CASE UNCHANGED bytes
  BY <1>1 DEF bytes
<1>2. ASSUME NEW n \in 1 .. Len(output), wire' = wire \o SubSeq(output, 1, n),
             output' = SubSeq(output, n + 1, Len(output))
      PROVE  wire' \o output' = wire \o output
  <2> DEFINE a == SubSeq(output, 1, n)
             b == SubSeq(output, n + 1, Len(output))
  <2>1. n \in 0 .. Len(output)
    BY LenProperties
  <2>2. a \in Seq(Units) /\ b \in Seq(Units) /\ a \o b = output
    BY <2>1, Divided
  <2>3. wire' \o output' = (wire \o a) \o b
    BY <1>2
  <2> HIDE DEF a, b
  <2> QED BY <2>2, <2>3, Joins
<1> QED BY <1>1, <1>2 DEF HandleWrite, Unwritten

-----------------------------------------------------------------------------
(* Messages in the queues. *)

LEMMA SendsAppended ==
  ASSUME NEW q \in Seq(Functors), NEW e \in Functors
  PROVE  /\ SendsOf(Append(q, e)) = IF e.what = "send" THEN SendsOf(q) \cup {e.msg}
                                    ELSE SendsOf(q)
         /\ SendsInOrder(q) /\ (e.what = "send" => \A a \in SendsOf(q) : a < e.msg)
              => SendsInOrder(Append(q, e))
<1> DEFINE r == Append(q, e)
           L == Len(q)
<1>1. /\ L \in Nat /\ DOMAIN q = 1 .. L /\ DOMAIN r = 1 .. L + 1
      /\ r[L + 1] = e /\ \A i \in 1 .. L : r[i] = q[i]
  OBVIOUS
<1>2. Range(r) = Range(q) \cup {e}
  BY RangeAppended
<1> HIDE DEF r, L
<1>3. SendsOf(r) = IF e.what = "send" THEN SendsOf(q) \cup {e.msg} ELSE SendsOf(q)
  BY <1>2 DEF SendsOf
<1>4. ASSUME SendsInOrder(q), e.what = "send" => \A a \in SendsOf(q) : a < e.msg
      PROVE  SendsInOrder(r)
  <2> SUFFICES ASSUME NEW i \in 1 .. L + 1, NEW j \in 1 .. L + 1, i < j,
                      r[i].what = "send", r[j].what = "send"
               PROVE  r[i].msg < r[j].msg
    BY <1>1 DEF SendsInOrder
  <2>1. i \in 1 .. L /\ r[i] = q[i]
    BY <1>1
  <2>2. CASE j = L + 1
    <3>1. q[i] \in Range(q) /\ q[i].what = "send" /\ r[j] = e
      BY <1>1, <2>1, <2>2 DEF Range
    <3>2. q[i].msg \in SendsOf(q)
      BY <3>1 DEF SendsOf
    <3> QED BY <1>4, <2>1, <3>1, <3>2
  <2>3. CASE j # L + 1
    <3>1. j \in 1 .. L /\ r[j] = q[j]
      BY <1>1, <2>3
    <3> QED BY <1>1, <1>4, <2>1, <3>1 DEF SendsInOrder
  <2> QED BY <2>2, <2>3
<1> QED BY <1>3, <1>4 DEF r

LEMMA SendsTaken ==
  ASSUME NEW q \in Seq(Functors), q # <<>>, SendsInOrder(q),
         NEW h, h = Head(q), NEW t, t = Tail(q)
  PROVE  /\ SendsOf(q) = IF h.what = "send" THEN SendsOf(t) \cup {h.msg} ELSE SendsOf(t)
         /\ SendsInOrder(t)
         /\ h.what = "send" => \A a \in SendsOf(t) : h.msg < a
<1> DEFINE L == Len(q)
<1>1. /\ L \in Nat \ {0} /\ DOMAIN q = 1 .. L /\ DOMAIN t = 1 .. L - 1
      /\ h = q[1] /\ \A i \in 1 .. L - 1 : t[i] = q[i + 1]
  OBVIOUS
<1>2. Range(q) = Range(t) \cup {h}
  BY RangeRun
<1> HIDE DEF L
<1>3. SendsOf(q) = IF h.what = "send" THEN SendsOf(t) \cup {h.msg} ELSE SendsOf(t)
  BY <1>2 DEF SendsOf
<1>4. SendsInOrder(t)
  <2> SUFFICES ASSUME NEW i \in 1 .. L - 1, NEW j \in 1 .. L - 1, i < j,
                      t[i].what = "send", t[j].what = "send"
               PROVE  t[i].msg < t[j].msg
    BY <1>1 DEF SendsInOrder
  <2>1. i + 1 \in DOMAIN q /\ j + 1 \in DOMAIN q /\ i + 1 < j + 1
        /\ t[i] = q[i + 1] /\ t[j] = q[j + 1]
    BY <1>1
  <2> QED BY <2>1 DEF SendsInOrder
<1>5. ASSUME h.what = "send", NEW a \in SendsOf(t) PROVE h.msg < a
  <2>1. PICK g \in Range(t) : g.what = "send" /\ g.msg = a
    BY DEF SendsOf
  <2>2. PICK i \in 1 .. L - 1 : t[i] = g
    BY <1>1 DEF Range
  <2>3. 1 \in DOMAIN q /\ i + 1 \in DOMAIN q /\ 1 < i + 1 /\ q[i + 1] = g /\ q[1] = h
    BY <1>1, <2>2
  <2> QED BY <1>5, <2>1, <2>3 DEF SendsInOrder
<1> QED BY <1>3, <1>4, <1>5

LEMMA NoSends == SendsOf(<<>>) = {} /\ SendsInOrder(<<>>)
<1>1. Range(<<>>) = {} /\ DOMAIN <<>> = {}
  BY RangeEmpty
<1> QED BY <1>1 DEF SendsOf, SendsInOrder

(* A functor that is no send goes to the end of the queue. *)
LEMMA QueuedOther ==
  ASSUME NEW p \in Nat, Pending(p), functors \in Seq(Functors),
         NEW f \in Functors, f.what # "send", functors' = Append(functors, f),
         batch' = batch, sent' = sent
  PROVE  Pending(p)'
<1>1. SendsOf(functors') = SendsOf(functors) /\ SendsInOrder(functors')
  BY SendsAppended DEF Pending
<1> QED BY <1>1 DEF Pending

LEMMA OneMore ==
  \A m, n \in Nat : m <= n => m + 1 .. n + 1 = (m + 1 .. n) \cup {n + 1} /\ m <= n + 1
OBVIOUS

(* The next message of the user. *)
LEMMA QueuedSend ==
  ASSUME NEW p \in Nat, Pending(p), functors \in Seq(Functors), sent["user"] \in Nat,
         NEW f \in Functors, f.what = "send", f.msg = sent["user"] + 1,
         functors' = Append(functors, f), batch' = batch, sent'["user"] = sent["user"] + 1
  PROVE  Pending(p)'
<1>0. /\ SendsOf(batch) \cup SendsOf(functors) = p + 1 .. sent["user"]
      /\ p <= sent["user"]
  BY Zenon DEF Pending
<1>1. \A a \in SendsOf(batch) \cup SendsOf(functors) : a \in p + 1 .. sent["user"] /\ a < f.msg
  BY <1>0
<1>2. SendsOf(functors') = SendsOf(functors) \cup {f.msg} /\ SendsInOrder(functors')
  BY <1>1, SendsAppended DEF Pending
<1>3. p + 1 .. sent'["user"] = (p + 1 .. sent["user"]) \cup {f.msg} /\ p <= sent'["user"]
  BY <1>0, OneMore
<1>4. \A a \in SendsOf(batch'), b \in SendsOf(functors') : a < b
  BY <1>1, <1>2 DEF Pending
<1>5. SendsOf(batch') \cup SendsOf(functors') = p + 1 .. sent'["user"]
  BY <1>0, <1>2, <1>3
<1> QED BY <1>2, <1>3, <1>4, <1>5 DEF Pending

(* The functor that is run: the first message that waits, if it is one. *)
LEMMA RunOne ==
  ASSUME NEW p \in Nat, Pending(p), batch \in Seq(Functors), batch # <<>>,
         functors \in Seq(Functors), sent["user"] \in Nat,
         batch' = Tail(batch), functors' = functors, sent' = sent
  PROVE  IF Head(batch).what = "send"
         THEN Head(batch).msg = p + 1 /\ Pending(p + 1)'
         ELSE Pending(p)'
<1> DEFINE h == Head(batch)
<1>1. /\ SendsOf(batch) = IF h.what = "send" THEN SendsOf(batch') \cup {h.msg}
                          ELSE SendsOf(batch')
      /\ SendsInOrder(batch')
      /\ h.what = "send" => \A a \in SendsOf(batch') : h.msg < a
  BY SendsTaken DEF Pending
<1> HIDE DEF h
<1>2. CASE h.what # "send"
  BY <1>1, <1>2 DEF Pending, h
<1>3. CASE h.what = "send"
  <2>1. h.msg \in p + 1 .. sent["user"]
    BY <1>1, <1>3 DEF Pending
  <2>2. p + 1 \in SendsOf(batch) \cup SendsOf(functors)
    BY <2>1 DEF Pending
  <2>3. h.msg \in SendsOf(batch)
    BY <1>1, <1>3
  <2>4. h.msg = p + 1
    <3>1. CASE p + 1 \in SendsOf(functors)
      <4>1. h.msg < p + 1
        BY <2>3, <3>1 DEF Pending
      <4> QED BY <2>1, <4>1
    <3>2. CASE p + 1 \in SendsOf(batch) /\ h.msg # p + 1
      <4>1. h.msg < p + 1
        BY <1>1, <1>3, <3>2
      <4> QED BY <2>1, <4>1
    <3> QED BY <2>2, <3>1, <3>2
  <2>5. \A a \in SendsOf(batch') \cup SendsOf(functors') : p + 1 < a
    BY <1>1, <1>3, <2>3, <2>4 DEF Pending
  <2>6. SendsOf(batch') \cup SendsOf(functors') = (p + 1) + 1 .. sent'["user"]
    <3>1. \A a \in SendsOf(batch') \cup SendsOf(functors') : a \in (p + 1) + 1 .. sent["user"]
      BY <1>1, <1>3, <2>5 DEF Pending
    <3>2. \A a \in (p + 1) + 1 .. sent["user"] :
            a \in SendsOf(batch) \cup SendsOf(functors) /\ a # h.msg
      BY <2>4 DEF Pending
    <3> QED BY <1>1, <1>3, <3>1, <3>2
  <2>7. \A a \in SendsOf(batch'), b \in SendsOf(functors') : a < b
    BY <1>1, <1>3 DEF Pending
  <2>8. SendsInOrder(functors') /\ p + 1 <= sent'["user"]
    BY <2>1 DEF Pending
  <2> QED BY <1>1, <1>3, <2>4, <2>6, <2>7, <2>8 DEF Pending, h
<1> QED BY <1>2, <1>3

(* DoPendingFunctors takes the whole queue. *)
LEMMA TakeAll ==
  ASSUME NEW p \in Nat, Pending(p), batch = <<>>, batch' = functors,
         functors' = <<>>, sent' = sent
  PROVE  Pending(p)'
BY NoSends DEF Pending
-----------------------------------------------------------------------------
(* The steps. *)

StreamInv == IInv /\ (Running => StreamOK)

LEMMA InitStream == Init => StreamOK
<1> SUFFICES ASSUME Init PROVE StreamOK
  OBVIOUS
<1>1. /\ wire = <<>> /\ output = <<>> /\ batch = <<>>
      /\ functors = <<Functor("established")>>
      /\ sent["loop"] = 0 /\ sent["user"] = 0
  BY DEF Init, Senders
<1>2. wire \o output = <<>>
  <2>1. <<>> \in Seq(Units)
    OBVIOUS
  <2> QED BY <1>1, <2>1, ConcatEmptySeq
<1>3. DOMAIN <<>> = {} /\ Range(<<>>) = {}
  BY RangeEmpty
<1>4. Placed(<<>>) /\ \A s : MessagesOf(s, <<>>) = {}
  BY <1>3 DEF Placed, MessagesOf
<1>5. SendsOf(functors) = {} /\ SendsInOrder(functors)
  <2>1. Functor("established").what = "established"
    BY FunctorTyped
  <2>2. \A i \in DOMAIN functors : functors[i].what # "send"
    BY <1>1, <2>1
  <2> QED BY <2>2 DEF SendsOf, SendsInOrder, Range
<1>6. Pending(0)
  <2>1. 0 + 1 .. 0 = {}
    OBVIOUS
  <2> QED BY <1>1, <1>5, <2>1, NoSends DEF Pending
<1>7. 1 .. 0 = {}
  OBVIOUS
<1> QED BY <1>1, <1>2, <1>4, <1>6, <1>7 DEF StreamOK

(* A step that writes no new message. *)
LEMMA StreamKept ==
  ASSUME StreamOK, wire' \o output' = wire \o output, sent'["loop"] = sent["loop"],
         state' # "kDisconnected" =>
           state # "kDisconnected" /\ \A p \in Nat : Pending(p) => Pending(p)'
  PROVE  StreamOK'
<1>1. PICK p \in Nat : /\ MessagesOf("user", wire \o output) = 1 .. p
                       /\ state # "kDisconnected" => Pending(p)
  BY DEF StreamOK
<1>2. state' # "kDisconnected" => Pending(p)'
  BY <1>1
<1>3. /\ Placed(wire' \o output')
      /\ MessagesOf("loop", wire' \o output') = 1 .. sent'["loop"]
      /\ MessagesOf("user", wire' \o output') = 1 .. p
  BY <1>1 DEF StreamOK
<1> QED BY <1>2, <1>3 DEF StreamOK

(* The queues stay as they are, but for a functor that is no message. *)
QueuesKept ==
  /\ batch' = batch /\ sent' = sent
  /\ \/ functors' = functors
     \/ \E f \in Functors : f.what # "send" /\ functors' = Append(functors, f)

LEMMA KeepsPending ==
  ASSUME Typed, QueuesKept, NEW p \in Nat, Pending(p)
  PROVE  Pending(p)'
<1>1. CASE functors' = functors
  BY <1>1 DEF QueuesKept, Pending
<1>2. CASE functors' # functors
  BY <1>2, QueuedOther DEF QueuesKept, Typed
<1> QED BY <1>1, <1>2

LEMMA QuietStream ==
  ASSUME Typed, StreamOK, UNCHANGED <<wire, output>>, QueuesKept,
         state' # "kDisconnected" => state # "kDisconnected"
  PROVE  StreamOK'
<1>1. \A p \in Nat : Pending(p) => Pending(p)'
  BY KeepsPending
<1>2. sent'["loop"] = sent["loop"] /\ wire' \o output' = wire \o output
  BY DEF QueuesKept
<1> QED BY <1>1, <1>2, StreamKept

(* The functors that the code queues beside those of send. *)
LEMMA NoMessage ==
  \A w \in (Calls \ {"send"}) \cup {"established", "destroyed"} :
    Functor(w) \in Functors /\ Functor(w).what # "send"
BY FunctorTyped

LEMMA PollStream ==
  ASSUME Typed, StreamOK, PollReady \/ PeerActs \/ HandleHangup \/ HandleEof \/ DropReference,
         Running'
  PROVE  StreamOK'
<1>1. UNCHANGED <<wire, output, batch, functors, sent>>
      /\ (state' # "kDisconnected" => state # "kDisconnected")
  BY DEF PollReady, Poll, PeerActs, HandleHangup, HandleEof, DropReference, HandleClose,
         bytes, loopVars, Open, Running
<1> QED BY <1>1, QuietStream DEF QueuesKept

LEMMA ServerStream ==
  ASSUME Typed, StreamOK, RemoveConnectionInLoop \/ DestroyServer
  PROVE  StreamOK'
<1>1. /\ UNCHANGED <<wire, output, batch, sent, state>>
      /\ functors' = functors \/ functors' = Append(functors, Functor("destroyed"))
  BY DEF RemoveConnectionInLoop, DestroyServer, serverRest, bytes
<1> QED BY <1>1, QuietStream, NoMessage DEF QueuesKept

LEMMA UserStream ==
  ASSUME Typed, StreamOK, Running', NEW c \in Calls,
         TestState(c) \/ QueueRead(c) \/ SetDisconnecting \/ Expire
  PROVE  StreamOK'
<1>1. /\ UNCHANGED <<wire, output, batch, sent>>
      /\ \/ functors' = functors
         \/ functors' = Append(functors, Functor("forceClose"))
         \/ c \in {"startRead", "stopRead"} /\ functors' = Append(functors, Functor(c))
      /\ state' # "kDisconnected" => state # "kDisconnected"
  BY DEF TestState, QueueRead, SetDisconnecting, Expire, ForceClose, userRest, bytes,
         Queued, Open, Running
<1>2. \A w \in {"forceClose", "startRead", "stopRead"} :
        Functor(w) \in Functors /\ Functor(w).what # "send"
  BY NoMessage DEF Calls
<1>3. QueuesKept
  BY <1>1, <1>2 DEF QueuesKept
<1> QED BY <1>1, <1>3, QuietStream

LEMMA QueueCallStream ==
  ASSUME Typed, StreamOK, QueueCall
  PROVE  StreamOK'
<1>1. UNCHANGED <<wire, output, batch, state>>
  BY DEF QueueCall, userRest, bytes
<1>2. CASE sent' = sent /\ functors' \in {Append(functors, Functor("shutdown")),
                                          Append(functors, Functor("forceClose"))}
  <2>1. QueuesKept
    BY <1>1, <1>2, NoMessage DEF QueuesKept, Calls
  <2> QED BY <1>1, <2>1, QuietStream
<1>3. CASE /\ sent' = [sent EXCEPT !["user"] = @ + 1]
           /\ functors' = Append(functors, [what |-> "send", msg |-> sent["user"] + 1])
  <2> DEFINE f == [what |-> "send", msg |-> sent["user"] + 1]
  <2>1. /\ sent["user"] \in Nat /\ sent'["user"] = sent["user"] + 1
        /\ sent'["loop"] = sent["loop"]
    BY <1>3 DEF Typed, Senders
  <2>2. f \in Functors /\ f.what = "send" /\ f.msg = sent["user"] + 1
    BY <2>1 DEF Functors, Calls
  <2>3. functors' = Append(functors, f) /\ functors \in Seq(Functors)
    BY <1>3 DEF Typed
  <2> HIDE DEF f
  <2>4. \A p \in Nat : Pending(p) => Pending(p)'
    BY <1>1, <2>1, <2>2, <2>3, QueuedSend
  <2> QED BY <1>1, <2>1, <2>4, StreamKept
<1> QED BY <1>2, <1>3 DEF QueueCall, Queued

LEMMA TakeStream ==
  ASSUME Typed, Sound, StreamOK, TakeFunctors
  PROVE  StreamOK'
<1>1. /\ batch = <<>> /\ batch' = functors /\ functors' = <<>>
      /\ UNCHANGED <<wire, output, sent, state>>
  BY DEF TakeFunctors, Sound, StagesOK, bytes
<1>2. \A p \in Nat : Pending(p) => Pending(p)'
  BY <1>1, TakeAll
<1> QED BY <1>1, <1>2, StreamKept

LEMMA HandleWriteStream ==
  ASSUME Typed, StreamOK, HandleWrite
  PROVE  StreamOK'
<1>1. UNCHANGED <<state, functors, batch, sent>> /\ wire' \o output' = wire \o output
  BY WriteStream DEF HandleWrite, Typed
<1>2. \A p \in Nat : Pending(p) => Pending(p)'
  BY <1>1, KeepsPending DEF QueuesKept
<1> QED BY <1>1, <1>2, StreamKept

(* The message callback sends its next message at once. *)
LEMMA ReplyStream ==
  ASSUME Typed, Sound, StreamOK, HandleData
  PROVE  StreamOK'
<1>1. PICK c \in ReplyCalls \cup {"nothing"} : Reply(c)
  BY DEF HandleData
<1>2. /\ batch' = batch
      /\ c \in {"send", "shutdown", "forceClose", "startRead", "stopRead", "nothing"}
  BY TcpConnectionAssumption DEF HandleData, Calls
<1>3. CASE c # "send"
  <2>1. /\ UNCHANGED <<wire, output, sent>>
        /\ functors' = functors \/ functors' = Append(functors, Functor("forceClose"))
        /\ state' # "kDisconnected" => state # "kDisconnected"
    BY <1>1, <1>2, <1>3 DEF Reply, ReplyShutdown, ForceClose, bytes, Open
  <2>2. QueuesKept
    BY <1>2, <2>1, NoMessage DEF QueuesKept, Calls
  <2> QED BY <2>1, <2>2, QuietStream
<1>4. CASE c = "send"
  <2> DEFINE k == sent["loop"] + 1
             q == wire \o output
             r == wire' \o output'
             m == Message("loop", k)
  <2>1. /\ state = "kConnected" /\ SendInLoop(m)
        /\ sent' = [sent EXCEPT !["loop"] = @ + 1]
        /\ UNCHANGED <<state, functors>>
    BY <1>1, <1>4 DEF Reply, ReplySend
  <2>2. /\ k \in Nat \ {0} /\ k - 1 = sent["loop"] /\ sent'["loop"] = k
        /\ sent'["user"] = sent["user"] /\ "loop" \in Senders /\ "user" \in Senders
    BY <2>1 DEF Typed, Senders
  <2>3. q \in Seq(Units)
    BY ConcatProperties DEF Typed
  <2>4. r = q \o m
    BY <2>1, <2>2, SendStream, MessageTyped DEF Typed
  <2>5. Placed(q) /\ MessagesOf("loop", q) = 1 .. k - 1
    BY <2>2 DEF StreamOK
  <2> HIDE DEF q, r, k
  <2>6. /\ Placed(r) /\ MessagesOf("loop", r) = 1 .. k
        /\ MessagesOf("user", r) = MessagesOf("user", q)
    <3>1. Extends("loop", k, q, r)
      BY <2>2, <2>3, <2>4, <2>5, MessageAppended
    <3> QED BY <2>2, <3>1 DEF Extends
  <2>7. PICK p \in Nat : MessagesOf("user", q) = 1 .. p /\ Pending(p)
    BY <2>1 DEF StreamOK, q
  <2>8. Pending(p)'
    BY <1>2, <2>1, <2>2, <2>7 DEF Pending
  <2> QED BY <2>2, <2>6, <2>7, <2>8 DEF StreamOK, r
<1> QED BY <1>3, <1>4

(* The functors, and the message of one that is a send. *)
LEMMA RunStream ==
  ASSUME Typed, Sound, StreamOK, RunFunctor, Running'
  PROVE  StreamOK'
<1> DEFINE h == Head(batch)
<1>1. /\ batch # <<>> /\ batch' = Tail(batch) /\ functors' = functors /\ sent' = sent
      /\ Owned /\ Run(h)
  BY DEF RunFunctor, Running
<1>2. /\ batch \in Seq(Functors) /\ functors \in Seq(Functors)
      /\ sent["user"] \in Nat /\ "user" \in Senders
  BY DEF Typed, Senders
<1>3. h.what \in Calls \cup {"established", "destroyed"}
  <2>1. h \in Functors
    BY <1>1, <1>2
  <2> QED BY <2>1 DEF Functors
<1>4. \A p \in Nat : Pending(p) =>
        IF h.what = "send" THEN h.msg = p + 1 /\ Pending(p + 1)' ELSE Pending(p)'
  BY <1>1, <1>2, RunOne
<1> HIDE DEF h
<1>5. CASE h.what # "send"
  <2>1. h.what \in {"established", "destroyed", "shutdown", "forceClose", "startRead",
                    "stopRead", "delayedClose"}
    BY <1>3, <1>5 DEF Calls
  <2>2. h.what # "delayedClose"
    <3>1. h \in Waiting
      BY <1>1, <1>2, RangeRun DEF h, Waiting
    <3> QED BY <3>1 DEF Sound, StagesOK
  <2>3. UNCHANGED <<wire, output>> /\ (state' # "kDisconnected" => state # "kDisconnected")
    BY <1>1, <2>1, <2>2 DEF Run, ConnectEstablished, ConnectDestroyed, ForceCloseInLoop,
       HandleClose, bytes, Open, Running
  <2> QED BY <1>1, <1>4, <1>5, <2>3, StreamKept
<1>6. CASE h.what = "send" /\ state = "kDisconnected"
  <2>1. UNCHANGED <<wire, output, state>>
    BY <1>1, <1>6 DEF Run, SendInLoop, bytes
  <2> QED BY <1>1, <1>6, <2>1, StreamKept
<1>7. CASE h.what = "send" /\ state # "kDisconnected"
  <2>1. PICK p \in Nat : MessagesOf("user", wire \o output) = 1 .. p /\ Pending(p)
    BY <1>7 DEF StreamOK
  <2> DEFINE q == wire \o output
             r == wire' \o output'
             k == p + 1
             m == Message("user", k)
  <2>2. h.msg = k /\ Pending(k)'
    BY <1>4, <1>7, <2>1
  <2>3. SendInLoop(m) /\ state' = state
    BY <1>1, <1>7, <2>2 DEF Run
  <2>4. k \in Nat \ {0} /\ k - 1 = p /\ "loop" \in Senders
    BY DEF Senders
  <2>5. q \in Seq(Units)
    BY ConcatProperties DEF Typed
  <2>6. r = q \o m
    BY <1>2, <1>7, <2>3, <2>4, SendStream, MessageTyped DEF Typed
  <2>7. Placed(q) /\ MessagesOf("user", q) = 1 .. k - 1 /\ MessagesOf("loop", q) = 1 .. sent["loop"]
    BY <2>1, <2>4 DEF StreamOK
  <2> HIDE DEF q, r, k
  <2>8. /\ Placed(r) /\ MessagesOf("user", r) = 1 .. k
        /\ MessagesOf("loop", r) = MessagesOf("loop", q)
    <3>1. Extends("user", k, q, r)
      BY <1>2, <2>4, <2>5, <2>6, <2>7, MessageAppended
    <3> QED BY <2>4, <3>1 DEF Extends
  <2> QED BY <1>1, <2>2, <2>4, <2>7, <2>8 DEF StreamOK, r
<1> QED BY <1>5, <1>6, <1>7

LEMMA NextStream == StreamInv /\ [Next]_vars => StreamInv'
<1> SUFFICES ASSUME StreamInv, [Next]_vars, Running' PROVE StreamOK'
  BY NextInv DEF StreamInv
<1>1. CASE UNCHANGED vars
  BY <1>1 DEF vars, loopVars, bytes, StreamInv, StreamOK, Running, Pending
<1>2. CASE Next
  <2>1. Running
    BY <1>2 DEF Next, LoopThread, HandleEvent, UserThread, ServerThread, PollReady, Poll,
       HandleHangup, HandleEof, HandleData, HandleWrite, TakeFunctors, RunFunctor, TestState,
       QueueRead, SetDisconnecting, QueueCall, DropReference, Expire,
       RemoveConnectionInLoop, DestroyServer, PeerActs
  <2>2. Typed /\ Sound /\ StreamOK
    BY <2>1 DEF StreamInv, IInv
  <2>3. CASE PollReady \/ PeerActs \/ HandleHangup \/ HandleEof \/ DropReference
    BY <2>2, <2>3, PollStream
  <2>4. CASE RemoveConnectionInLoop \/ DestroyServer
    BY <2>2, <2>4, ServerStream
  <2>5. CASE SetDisconnecting \/ Expire \/ \E c \in Calls : TestState(c) \/ QueueRead(c)
    BY <2>2, <2>5, UserStream DEF Calls
  <2>6. CASE QueueCall
    BY <2>2, <2>6, QueueCallStream
  <2>7. CASE HandleData \/ HandleWrite
    BY <2>2, <2>7, ReplyStream, HandleWriteStream
  <2>8. CASE TakeFunctors \/ RunFunctor
    BY <2>2, <2>8, TakeStream, RunStream
  <2> QED BY <1>2, <2>3, <2>4, <2>5, <2>6, <2>7, <2>8
          DEF Next, LoopThread, HandleEvent, UserThread, ServerThread
<1> QED BY <1>1, <1>2

(* The peer is sent whole messages in the order of the calls of send, and   *)
(* none is missing, whatever of them the socket takes at once, for any     *)
(* number of messages of any size (connection.cpp:85-168, 278-300).        *)
THEOREM StreamIsInOrder == Spec => []StreamInOrder
<1>1. Init => StreamInv
  BY InitOK, InitStream DEF StreamInv
<1>2. StreamInv => StreamInOrder
  BY DEF StreamInv, StreamOK, StreamInOrder, Placed
<1> QED BY <1>1, <1>2, NextStream, PTL DEF Spec
=============================================================================
