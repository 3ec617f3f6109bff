-------------------------- MODULE ContainersProofs --------------------------
(***************************************************************************)
(* Proofs about three of the components that MCContainers checks, the      *)
(* pollers, the buffer and the slab.                                       *)
(*                                                                         *)
(* Both pollers implement InterestSet, for every set of channels and of    *)
(* events.  For epoll it is enough to know what index_ says of the         *)
(* kernel's set.  For poll the entries of pollfds_ and the channels must   *)
(* be one to one, which is what each change of the array is shown to keep; *)
(* the lemmas on arrays speak of any array, the theorem of pollfds_.       *)
(*                                                                         *)
(* The buffer keeps its bytes, for every size of the headroom, of the      *)
(* first allocation and of the stack buffer, and for calls of any length.  *)
(* One lemma for each operator on buffers says what it leaves readable;    *)
(* the proof that a step keeps BufferSound is then a case for each         *)
(* operation.                                                              *)
(*                                                                         *)
(* The slab is sound, for every number of pages, every set of classes and  *)
(* any number of callers.  What the pages of a list are is not in the      *)
(* state, and a walk computes it: the invariant says that there are such   *)
(* sets, L[h] for each head h, a state of a list being given by what next  *)
(* and prev do to the set (IsList), and that the pages nobody holds are    *)
(* the runs headed by the pages of the free list (Runs), no run ending     *)
(* where another begins (Apart).  One lemma for each operation on lists    *)
(* and for each on runs says what it does to those sets; the steps of      *)
(* returning and of taking pages are put together from them, and then the  *)
(* five actions.                                                           *)
(***************************************************************************)
EXTENDS Pollers, NetBuffer, Slab, SequenceTheorems, FiniteSetTheorems, TLAPS

-----------------------------------------------------------------------------
(* The pollers.                                                             *)

Entry == [fd : Int, events : SUBSET Events]

(* The array f has one entry for each channel that was added: at its index, *)
(* with its events, and under its descriptor, or the negated one while it  *)
(* wants none.                                                             *)
Entries(f, idx, ph, ev) ==
  /\ f \in Seq(Entry)
  /\ idx \in [Channels -> Int]
  /\ \A c \in Channels : ph[c] = "added" =>
       /\ idx[c] + 1 \in 1 .. Len(f)
       /\ f[idx[c] + 1].events = ev[c]
       /\ f[idx[c] + 1].fd \in {c, Negated(c)}
       /\ ev[c] # {} => f[idx[c] + 1].fd = c
  /\ \A i \in 1 .. Len(f) : \E c \in Channels : ph[c] = "added" /\ i = idx[c] + 1

(* The array f keeps for the channels but c what old had for them, wherever *)
(* their entries are now.                                                  *)
OthersKept(c, f, idx, old, oldIdx, ph) ==
  \A d \in Channels \ {c} :
    /\ ph[d] = "added" => f[idx[d] + 1] = old[oldIdx[d] + 1]
    /\ ph[d] # "added" => idx[d] = oldIdx[d]

PhasesOK ==
  /\ phase \in [Channels -> {"fresh", "added", "removed"}]
  /\ events \in [Channels -> SUBSET Events]
  /\ index \in [Channels -> Int]
  /\ channels \subseteq Channels /\ active \subseteq Channels
  /\ \A c \in Channels :
       /\ phase[c] = "fresh" => index[c] = kNew
       /\ phase[c] # "added" => events[c] = {} /\ c \notin channels

(* index_ tells what epoll knows of the channel.                           *)
EpollOK ==
  /\ kernel \in [Channels -> SUBSET SUBSET Events]
  /\ \A c \in Channels :
       /\ phase[c] = "added" => index[c] \in {kAdded, kDeleted}
       /\ phase[c] # "added" => index[c] = kNew
       /\ kernel[c] = IF index[c] = kAdded THEN {events[c]} ELSE {}
       /\ index[c] = kDeleted => events[c] = {}

PollOK == Entries(pollfds, index, phase, events)

IInv ==
  /\ poller \in {"epoll", "poll"}
  /\ PhasesOK
  /\ poller = "epoll" => EpollOK
  /\ poller = "poll" => PollOK

-----------------------------------------------------------------------------
(* Arrays of entries. *)

(* Different channels have different entries: a descriptor is positive, and *)
(* a negated one is not.                                                   *)
LEMMA OneEntryEach ==
  ASSUME NEW f, NEW idx, NEW ph, NEW ev, Entries(f, idx, ph, ev),
         NEW c \in Channels, NEW d \in Channels,
         ph[c] = "added", ph[d] = "added", idx[c] = idx[d]
  PROVE  c = d
<1>1. f[idx[c] + 1].fd \in {c, Negated(c)} /\ f[idx[c] + 1].fd \in {d, Negated(d)}
  BY DEF Entries
<1>2. c \in Nat \ {0} /\ d \in Nat \ {0}
  BY PollersAssumption
<1> QED BY <1>1, <1>2 DEF Negated

(* What poll is asked to watch c for is in c's own entry.                  *)
LEMMA EntryOf ==
  ASSUME NEW f, NEW idx, NEW ph, NEW ev, Entries(f, idx, ph, ev), NEW c \in Channels
  PROVE  {f[i].events : i \in {j \in DOMAIN f : f[j].fd = c}}
           = IF ph[c] = "added" /\ f[idx[c] + 1].fd = c THEN {ev[c]} ELSE {}
<1>1. DOMAIN f = 1 .. Len(f)
  BY DEF Entries
<1>2. ASSUME NEW j \in 1 .. Len(f), f[j].fd = c
      PROVE  ph[c] = "added" /\ j = idx[c] + 1
  <2>1. PICK d \in Channels : ph[d] = "added" /\ j = idx[d] + 1
    BY DEF Entries
  <2>2. f[j].fd \in {d, Negated(d)}
    BY <2>1 DEF Entries
  <2>3. c \in Nat \ {0} /\ d \in Nat \ {0}
    BY PollersAssumption
  <2>4. c = d
    BY <1>2, <2>2, <2>3 DEF Negated
  <2> QED BY <2>1, <2>4
<1>3. CASE ph[c] = "added" /\ f[idx[c] + 1].fd = c
  <2>1. idx[c] + 1 \in 1 .. Len(f) /\ f[idx[c] + 1].events = ev[c]
    BY <1>3 DEF Entries
  <2>2. {j \in DOMAIN f : f[j].fd = c} = {idx[c] + 1}
    BY <1>1, <1>2, <1>3, <2>1
  <2> QED BY <1>3, <2>1, <2>2
<1>4. CASE ~(ph[c] = "added" /\ f[idx[c] + 1].fd = c)
  <2>1. {j \in DOMAIN f : f[j].fd = c} = {}
    BY <1>1, <1>2, <1>4
  <2> QED BY <1>4, <2>1
<1> QED BY <1>3, <1>4

(* PollPoller::UpdateChannel of a new channel.                             *)
LEMMA AppendEntry ==
  ASSUME NEW f, NEW idx, NEW ph, NEW ev, Entries(f, idx, ph, ev),
         ph \in [Channels -> {"fresh", "added", "removed"}],
         ev \in [Channels -> SUBSET Events],
         NEW c \in Channels, ph[c] # "added", NEW E \in SUBSET Events
  PROVE  LET new    == Append(f, [fd |-> c, events |-> E])
             newIdx == [idx EXCEPT ![c] = Len(f)]
         IN /\ Entries(new, newIdx, [ph EXCEPT ![c] = "added"], [ev EXCEPT ![c] = E])
            /\ OthersKept(c, new, newIdx, f, idx, ph)
<1> DEFINE e      == [fd |-> c, events |-> E]
           new    == Append(f, e)
           newIdx == [idx EXCEPT ![c] = Len(f)]
           newPh  == [ph EXCEPT ![c] = "added"]
           newEv  == [ev EXCEPT ![c] = E]
<1>1. c \in Int /\ e \in Entry /\ f \in Seq(Entry) /\ Len(f) \in Nat
  BY PollersAssumption DEF Entries, Entry
<1>2. /\ new \in Seq(Entry) /\ Len(new) = Len(f) + 1 /\ new[Len(f) + 1] = e
      /\ \A i \in 1 .. Len(f) : new[i] = f[i]
  BY <1>1, AppendProperties
<1>3. newIdx \in [Channels -> Int]
  BY <1>1 DEF Entries
<1>4. ASSUME NEW d \in Channels \ {c}
      PROVE  newIdx[d] = idx[d] /\ newPh[d] = ph[d] /\ newEv[d] = ev[d]
  BY DEF Entries
<1>5. newIdx[c] = Len(f) /\ newPh[c] = "added" /\ newEv[c] = E
  BY DEF Entries
<1>6. ASSUME NEW d \in Channels \ {c}, ph[d] = "added"
      PROVE  /\ newIdx[d] + 1 \in 1 .. Len(f)
             /\ new[newIdx[d] + 1] = f[idx[d] + 1]
  BY <1>2, <1>4, <1>6 DEF Entries
<1> HIDE DEF new, newIdx, newPh, newEv
<1>7. ASSUME NEW d \in Channels, newPh[d] = "added"
      PROVE  /\ newIdx[d] + 1 \in 1 .. Len(new)
             /\ new[newIdx[d] + 1].events = newEv[d]
             /\ new[newIdx[d] + 1].fd \in {d, Negated(d)}
             /\ newEv[d] # {} => new[newIdx[d] + 1].fd = d
  <2>1. CASE d = c
    <3>1. e.fd = c /\ e.events = E
      OBVIOUS
    <3> HIDE DEF e
    <3>2. newIdx[d] = Len(f) /\ newEv[d] = E
      BY <1>5, <2>1
    <3>3. new[Len(f) + 1] = e /\ Len(f) + 1 \in 1 .. Len(new)
      <4>1. new[Len(f) + 1] = e /\ Len(new) = Len(f) + 1 /\ Len(f) \in Nat
        BY <1>1, <1>2
      <4> QED BY <4>1
    <3> QED BY <2>1, <3>1, <3>2, <3>3
  <2>2. CASE d # c
    BY <1>1, <1>2, <1>4, <1>6, <1>7, <2>2 DEF Entries
  <2> QED BY <2>1, <2>2
<1>8. ASSUME NEW i \in 1 .. Len(new)
      PROVE  \E d \in Channels : newPh[d] = "added" /\ i = newIdx[d] + 1
  <2>1. CASE i = Len(f) + 1
    BY <1>5, <2>1
  <2>2. CASE i # Len(f) + 1
    <3>1. i \in 1 .. Len(f)
      BY <1>1, <1>2, <2>2
    <3>2. PICK d \in Channels : ph[d] = "added" /\ i = idx[d] + 1
      BY <3>1 DEF Entries
    <3> QED BY <1>4, <3>2
  <2> QED BY <2>1, <2>2
<1>9. Entries(new, newIdx, newPh, newEv)
  BY <1>2, <1>3, <1>7, <1>8 DEF Entries
<1>10. OthersKept(c, new, newIdx, f, idx, ph)
  BY <1>4, <1>6 DEF OthersKept
<1> QED BY <1>9, <1>10 DEF new, newIdx, newPh, newEv

(* PollPoller::UpdateChannel of a channel that has an entry.               *)
LEMMA SetEntry ==
  ASSUME NEW f, NEW idx, NEW ph, NEW ev, Entries(f, idx, ph, ev),
         ph \in [Channels -> {"fresh", "added", "removed"}],
         ev \in [Channels -> SUBSET Events],
         NEW c \in Channels, ph[c] = "added", NEW E \in SUBSET Events
  PROVE  LET new == [f EXCEPT ![idx[c] + 1] =
                       [fd |-> IF E = {} THEN Negated(c) ELSE c, events |-> E]]
         IN /\ Entries(new, idx, [ph EXCEPT ![c] = "added"], [ev EXCEPT ![c] = E])
            /\ OthersKept(c, new, idx, f, idx, ph)
<1> DEFINE e     == [fd |-> IF E = {} THEN Negated(c) ELSE c, events |-> E]
           new   == [f EXCEPT ![idx[c] + 1] = e]
           newEv == [ev EXCEPT ![c] = E]
<1>1. c \in Int /\ e \in Entry /\ f \in Seq(Entry) /\ Len(f) \in Nat
  BY PollersAssumption DEF Entries, Entry, Negated
<1>2. idx[c] + 1 \in 1 .. Len(f)
  BY DEF Entries
<1>3. /\ new \in Seq(Entry) /\ Len(new) = Len(f) /\ new[idx[c] + 1] = e
      /\ \A i \in 1 .. Len(f) : i # idx[c] + 1 => new[i] = f[i]
  BY <1>1, <1>2, ExceptSeq
<1>4. [ph EXCEPT ![c] = "added"] = ph
  OBVIOUS
<1>5. newEv[c] = E /\ \A d \in Channels \ {c} : newEv[d] = ev[d]
  OBVIOUS
<1>6. ASSUME NEW d \in Channels \ {c}, ph[d] = "added"
      PROVE  new[idx[d] + 1] = f[idx[d] + 1]
  <2>1. idx[d] # idx[c]
    BY <1>6, OneEntryEach
  <2>2. idx[d] + 1 \in 1 .. Len(f) /\ idx[d] \in Int /\ idx[c] \in Int
    BY <1>6 DEF Entries
  <2> QED BY <1>3, <2>1, <2>2
<1> HIDE DEF new, newEv
<1>7. ASSUME NEW d \in Channels, ph[d] = "added"
      PROVE  /\ idx[d] + 1 \in 1 .. Len(new)
             /\ new[idx[d] + 1].events = newEv[d]
             /\ new[idx[d] + 1].fd \in {d, Negated(d)}
             /\ newEv[d] # {} => new[idx[d] + 1].fd = d
  <2>1. CASE d = c
    BY <1>2, <1>3, <1>5, <2>1
  <2>2. CASE d # c
    BY <1>3, <1>5, <1>6, <1>7, <2>2 DEF Entries
  <2> QED BY <2>1, <2>2
<1>8. Entries(new, idx, ph, newEv)
  BY <1>3, <1>7 DEF Entries
<1>9. OthersKept(c, new, idx, f, idx, ph)
  BY <1>6 DEF OthersKept
<1> QED BY <1>4, <1>8, <1>9 DEF new, newEv

(* PollPoller::RemoveChannel: the last entry takes the place of the one     *)
(* removed, and its channel is told.                                       *)
LEMMA DropEntry ==
  ASSUME NEW f, NEW idx, NEW ph, NEW ev, Entries(f, idx, ph, ev),
         ph \in [Channels -> {"fresh", "added", "removed"}],
         NEW c \in Channels, ph[c] = "added"
  PROVE  LET fd     == f[Len(f)].fd
             moved  == IF fd < 0 THEN Negated(fd) ELSE fd
             new    == SubSeq([f EXCEPT ![idx[c] + 1] = f[Len(f)]], 1, Len(f) - 1)
             newIdx == IF idx[c] + 1 = Len(f) THEN idx
                       ELSE [idx EXCEPT ![moved] = idx[c]]
         IN /\ Entries(new, newIdx, [ph EXCEPT ![c] = "removed"], ev)
            /\ OthersKept(c, new, newIdx, f, idx, ph)
<1> DEFINE n      == Len(f)
           k      == idx[c] + 1
           fd     == f[n].fd
           moved  == IF fd < 0 THEN Negated(fd) ELSE fd
           full   == [f EXCEPT ![k] = f[n]]
           new    == SubSeq(full, 1, n - 1)
           newIdx == IF k = n THEN idx ELSE [idx EXCEPT ![moved] = idx[c]]
           newPh  == [ph EXCEPT ![c] = "removed"]
<1>1. /\ f \in Seq(Entry) /\ n \in Nat /\ idx \in [Channels -> Int]
      /\ k \in 1 .. n /\ n \in 1 .. n
  BY DEF Entries
<1>2. PICK m \in Channels : ph[m] = "added" /\ n = idx[m] + 1
  BY <1>1 DEF Entries
<1>3. moved = m
  <2>1. fd \in {m, Negated(m)} /\ m \in Nat \ {0}
    BY <1>2, PollersAssumption DEF Entries
  <2> QED BY <2>1 DEF Negated
<1>4. /\ new \in Seq(Entry) /\ Len(new) = n - 1
      /\ \A i \in 1 .. n - 1 : new[i] = IF i = k THEN f[n] ELSE f[i]
  <2>1. f[n] \in Entry
    BY <1>1
  <2>2. /\ full \in Seq(Entry) /\ Len(full) = n
        /\ \A i \in 1 .. n : full[i] = IF i = k THEN f[n] ELSE f[i]
    BY <1>1, <2>1, ExceptSeq
  <2>3. \A i \in 1 .. n - 1 : full[i] \in Entry
    BY <1>1, <2>2
  <2> HIDE DEF full
  <2>4. /\ new \in Seq(Entry)
        /\ Len(new) = IF 1 <= n - 1 THEN n - 1 - 1 + 1 ELSE 0
        /\ \A i \in 1 .. n - 1 - 1 + 1 : new[i] = full[1 + i - 1]
    BY <1>1, <2>3, SubSeqProperties
  <2>5. n - 1 - 1 + 1 = n - 1 /\ Len(new) = n - 1
    <3> HIDE DEF n, new
    <3>1. n \in Nat /\ n >= 1
      BY <1>1
    <3> QED BY <2>4, <3>1
  <2>6. \A i \in 1 .. n - 1 : 1 + i - 1 = i
    OBVIOUS
  <2> QED BY <1>1, <2>2, <2>4, <2>5, <2>6
<1>5. newIdx \in [Channels -> Int]
  BY <1>1
<1>6. /\ m # c => k # n /\ newIdx[m] = idx[c]
      /\ \A d \in Channels : d # m => newIdx[d] = idx[d]
  <2>1. m # c => idx[m] # idx[c]
    BY <1>2, OneEntryEach
  <2> QED BY <1>1, <1>2, <1>3, <2>1
<1>7. newPh[c] = "removed" /\ \A d \in Channels \ {c} : newPh[d] = ph[d]
  OBVIOUS
<1> HIDE DEF n, k, fd, moved, full, new, newIdx, newPh
<1>8. ASSUME NEW d \in Channels \ {c}, ph[d] = "added"
      PROVE  /\ newIdx[d] + 1 \in 1 .. n - 1
             /\ new[newIdx[d] + 1] = f[idx[d] + 1]
  <2>1. CASE d = m
    <3>1. newIdx[d] + 1 = k /\ k \in 1 .. n - 1
      BY <1>1, <1>6, <2>1 DEF k
    <3> QED BY <1>2, <1>4, <2>1, <3>1
  <2>2. CASE d # m
    <3>1. idx[d] # idx[m] /\ idx[d] # idx[c]
      BY <1>2, <1>8, <2>2, OneEntryEach
    <3>2. idx[d] \in Int /\ idx[m] \in Int /\ idx[c] \in Int /\ idx[d] + 1 \in 1 .. n
      BY <1>1, <1>8 DEF Entries, n
    <3>3. idx[d] + 1 \in 1 .. n - 1 /\ idx[d] + 1 # k
      BY <1>1, <1>2, <3>1, <3>2 DEF k
    <3> QED BY <1>4, <1>6, <2>2, <3>3
  <2> QED BY <2>1, <2>2
<1>9. ASSUME NEW d \in Channels, newPh[d] = "added"
      PROVE  /\ newIdx[d] + 1 \in 1 .. Len(new)
             /\ new[newIdx[d] + 1].events = ev[d]
             /\ new[newIdx[d] + 1].fd \in {d, Negated(d)}
             /\ ev[d] # {} => new[newIdx[d] + 1].fd = d
  <2>1. d # c /\ ph[d] = "added"
    BY <1>7, <1>9
  <2> QED BY <1>4, <1>8, <2>1 DEF Entries
<1>10. ASSUME NEW i \in 1 .. Len(new)
       PROVE  \E d \in Channels : newPh[d] = "added" /\ i = newIdx[d] + 1
  <2>1. i \in 1 .. n - 1 /\ i \in 1 .. n /\ i # n
    BY <1>1, <1>4
  <2>2. CASE i = k
    <3>1. m # c
      BY <1>2, <2>1, <2>2 DEF k
    <3> QED BY <1>2, <1>6, <1>7, <2>2, <3>1 DEF k
  <2>3. CASE i # k
    <3>1. PICK d \in Channels : ph[d] = "added" /\ i = idx[d] + 1
      BY <2>1 DEF Entries, n
    <3>2. d # c /\ d # m
      BY <1>2, <2>1, <2>3, <3>1 DEF k
    <3> QED BY <1>6, <1>7, <3>1, <3>2
  <2> QED BY <2>2, <2>3
<1>11. Entries(new, newIdx, newPh, ev)
  BY <1>4, <1>5, <1>9, <1>10 DEF Entries
<1>12. OthersKept(c, new, newIdx, f, idx, ph)
  BY <1>2, <1>6, <1>8 DEF OthersKept
<1> QED BY <1>11, <1>12 DEF new, newIdx, newPh, full, moved, fd, n, k

-----------------------------------------------------------------------------
(* The invariant and the refinement, for each operation of a poller. *)

(* What is asked of the kernel, read from the state of either poller.       *)
LEMMA WhatIsAsked ==
  ASSUME IInv, NEW c \in Channels
  PROVE  Asked(c) = IF poller = "epoll" THEN kernel[c]
                    ELSE IF phase[c] = "added" /\ pollfds[index[c] + 1].fd = c
                    THEN {events[c]} ELSE {}
<1>1. CASE poller = "epoll"
  BY <1>1 DEF Asked
<1>2. CASE poller = "poll"
  <2>1. Entries(pollfds, index, phase, events)
    BY <1>2 DEF IInv, PollOK
  <2>2. Asked(c) = {pollfds[i].events : i \in {j \in DOMAIN pollfds : pollfds[j].fd = c}}
    BY <1>2 DEF Asked
  <2> QED BY <1>2, <2>1, <2>2, EntryOf
<1> QED BY <1>1, <1>2 DEF IInv

(* The invariant holds before any channel was added.                       *)
LEMMA InitOK == PollerInit => IInv
<1> SUFFICES ASSUME PollerInit PROVE IInv
  OBVIOUS
<1>1. PhasesOK
  BY DEF PollerInit, PhasesOK, kNew
<1>2. EpollOK
  BY DEF PollerInit, EpollOK, kNew, kAdded, kDeleted
<1>3. PollOK
  <2>1. pollfds = <<>> /\ pollfds \in Seq(Entry) /\ Len(pollfds) = 0
    BY DEF PollerInit
  <2> QED BY <2>1 DEF PollOK, Entries, PollerInit, kNew
<1> QED BY <1>1, <1>2, <1>3 DEF IInv, PollerInit

(* An update changes what the kernel watches its channel for, and nothing   *)
(* else (EpollPoller::UpdateChannel).                                      *)
LEMMA UpdateEpollOK ==
  ASSUME IInv, NEW c \in Channels, NEW E \in SUBSET Events,
         UpdateChannel(c, E), poller = "epoll"
  PROVE  /\ EpollOK'
         /\ channels' \subseteq Channels
         /\ \A d \in Channels \ {c} : d \in channels' => d \in channels
         /\ index' \in [Channels -> Int]
         /\ \A d \in Channels \ {c} : index'[d] = index[d]
         /\ \E W \in (IF E = {} THEN {{}, {{}}} ELSE {{E}}) :
               kernel' = [kernel EXCEPT ![c] = W]
<1>1. PhasesOK /\ EpollOK /\ UpdateEpoll(c, E)
  BY DEF IInv, UpdateChannel
<1>2. /\ phase' = [phase EXCEPT ![c] = "added"]
      /\ events' = [events EXCEPT ![c] = E]
      /\ phase[c] \in {"fresh", "added"}
  BY DEF UpdateChannel
<1>3. ASSUME NEW k \in {kAdded, kDeleted}, NEW W \in SUBSET SUBSET Events,
             index' = [index EXCEPT ![c] = k], kernel' = [kernel EXCEPT ![c] = W],
             W = IF k = kAdded THEN {E} ELSE {}, k = kDeleted => E = {}
      PROVE  EpollOK' /\ index' \in [Channels -> Int]
  <2>1. /\ index \in [Channels -> Int] /\ kernel \in [Channels -> SUBSET SUBSET Events]
        /\ phase \in [Channels -> {"fresh", "added", "removed"}]
        /\ events \in [Channels -> SUBSET Events]
    BY <1>1 DEF PhasesOK, EpollOK
  <2>2. kernel' \in [Channels -> SUBSET SUBSET Events] /\ index' \in [Channels -> Int]
    BY <1>3, <2>1 DEF kAdded, kDeleted
  <2>3. /\ index'[c] = k /\ kernel'[c] = W /\ phase'[c] = "added" /\ events'[c] = E
        /\ \A d \in Channels \ {c} : /\ index'[d] = index[d] /\ kernel'[d] = kernel[d]
                                     /\ phase'[d] = phase[d] /\ events'[d] = events[d]
    BY <1>2, <1>3, <2>1
  <2>4. ASSUME NEW d \in Channels
        PROVE  /\ phase'[d] = "added" => index'[d] \in {kAdded, kDeleted}
               /\ phase'[d] # "added" => index'[d] = kNew
               /\ kernel'[d] = IF index'[d] = kAdded THEN {events'[d]} ELSE {}
               /\ index'[d] = kDeleted => events'[d] = {}
    <3>1. CASE d = c
      BY <1>3, <2>3, <3>1
    <3>2. CASE d # c
      BY <1>1, <2>3, <3>2 DEF EpollOK
    <3> QED BY <3>1, <3>2
  <2> QED BY <2>2, <2>4 DEF EpollOK
<1>4. kAdded # kDeleted /\ {E} \in SUBSET SUBSET Events /\ {} \in SUBSET SUBSET Events
  BY DEF kAdded, kDeleted
<1>5. CASE index[c] # kAdded
  <2>1. kernel[c] = {}
    BY <1>1, <1>5 DEF EpollOK
  <2>2. /\ kernel' = [kernel EXCEPT ![c] = {E}]
        /\ index' = [index EXCEPT ![c] = kAdded]
        /\ channels' \in {channels, channels \cup {c}}
    BY <1>1, <1>5, <2>1 DEF UpdateEpoll, EpollCtl
  <2>3. EpollOK' /\ index' \in [Channels -> Int]
    BY <1>3, <1>4, <2>2
  <2> QED BY <1>1, <2>2, <2>3 DEF PhasesOK
<1>6. CASE index[c] = kAdded /\ E = {}
  <2>1. /\ kernel' = [kernel EXCEPT ![c] = {}]
        /\ index' = [index EXCEPT ![c] = kDeleted]
        /\ channels' = channels
    BY <1>1, <1>6 DEF UpdateEpoll, EpollCtl
  <2>2. EpollOK' /\ index' \in [Channels -> Int]
    BY <1>3, <1>6, <1>4, <2>1
  <2> QED BY <1>1, <1>6, <2>1, <2>2 DEF PhasesOK
<1>7. CASE index[c] = kAdded /\ E # {}
  <2>1. kernel[c] # {}
    BY <1>1, <1>7 DEF EpollOK
  <2>2. kernel' = [kernel EXCEPT ![c] = {E}] /\ index' = index /\ channels' = channels
    BY <1>1, <1>7, <2>1 DEF UpdateEpoll, EpollCtl
  <2>3. index' = [index EXCEPT ![c] = kAdded]
    BY <1>1, <1>7, <2>2 DEF PhasesOK
  <2>4. EpollOK' /\ index' \in [Channels -> Int]
    BY <1>3, <1>4, <2>2, <2>3
  <2> QED BY <1>1, <1>7, <2>2, <2>4 DEF PhasesOK
<1> QED BY <1>5, <1>6, <1>7

(* The same of PollPoller::UpdateChannel.                                  *)
LEMMA UpdatePollOK ==
  ASSUME IInv, NEW c \in Channels, NEW E \in SUBSET Events,
         UpdateChannel(c, E), poller = "poll"
  PROVE  /\ PollOK'
         /\ channels' \subseteq Channels
         /\ \A d \in Channels \ {c} : d \in channels' => d \in channels
         /\ \A d \in Channels \ {c} : index'[d] = index[d]
         /\ OthersKept(c, pollfds', index', pollfds, index, phase)
<1>1. PhasesOK /\ PollOK /\ UpdatePoll(c, E)
  BY DEF IInv, UpdateChannel
<1>2. /\ phase' = [phase EXCEPT ![c] = "added"]
      /\ events' = [events EXCEPT ![c] = E]
      /\ phase[c] \in {"fresh", "added"}
      /\ phase \in [Channels -> {"fresh", "added", "removed"}]
      /\ events \in [Channels -> SUBSET Events]
      /\ Entries(pollfds, index, phase, events)
  BY <1>1 DEF UpdateChannel, PhasesOK, PollOK
<1>3. CASE phase[c] # "added"
  <2>1. index[c] = kNew
    BY <1>1, <1>2, <1>3 DEF PhasesOK
  <2>2. /\ pollfds' = Append(pollfds, [fd |-> c, events |-> E])
        /\ index' = [index EXCEPT ![c] = Len(pollfds)]
        /\ channels' = channels \cup {c}
    BY <1>1, <2>1 DEF UpdatePoll, kNew
  <2>3. /\ Entries(pollfds', index', phase', events')
        /\ OthersKept(c, pollfds', index', pollfds, index, phase)
    BY <1>2, <1>3, <2>2, AppendEntry
  <2> QED BY <1>1, <2>2, <2>3 DEF PollOK, PhasesOK
<1>4. CASE phase[c] = "added"
  <2>1. index[c] \in Int /\ ~(index[c] < 0)
    BY <1>2, <1>4 DEF Entries
  <2>2. /\ pollfds' = [pollfds EXCEPT ![index[c] + 1] =
                         [fd |-> IF E = {} THEN Negated(c) ELSE c, events |-> E]]
        /\ index' = index /\ channels' = channels
    BY <1>1, <2>1 DEF UpdatePoll
  <2>3. /\ Entries(pollfds', index', phase', events')
        /\ OthersKept(c, pollfds', index', pollfds, index, phase)
    BY <1>2, <1>4, <2>2, SetEntry
  <2> QED BY <1>1, <2>2, <2>3 DEF PollOK, PhasesOK
<1> QED BY <1>3, <1>4

Watched == [c \in Channels |-> Asked(c)]

(* A step that gives c what E asks for, and leaves the other channels what  *)
(* they had, is a Want of the interest set and keeps the invariant.        *)
LEMMA UpdateOK ==
  ASSUME IInv, NEW c \in Channels, NEW E \in SUBSET Events, UpdateChannel(c, E)
  PROVE  IInv' /\ Asking!Want(c, E)
<1>1. /\ phase' = [phase EXCEPT ![c] = "added"]
      /\ events' = [events EXCEPT ![c] = E]
      /\ poller' = poller /\ active' = active
      /\ PhasesOK /\ poller \in {"epoll", "poll"}
  BY DEF UpdateChannel, IInv
<1>2. /\ phase' \in [Channels -> {"fresh", "added", "removed"}]
      /\ events' \in [Channels -> SUBSET Events]
      /\ phase'[c] = "added" /\ events'[c] = E
      /\ \A d \in Channels \ {c} : phase'[d] = phase[d] /\ events'[d] = events[d]
  BY <1>1 DEF PhasesOK
<1>3. /\ channels' \subseteq Channels
      /\ \A d \in Channels \ {c} : d \in channels' => d \in channels
      /\ index' \in [Channels -> Int]
      /\ \A d \in Channels \ {c} : index'[d] = index[d]
      /\ poller = "epoll" => EpollOK'
      /\ poller = "poll" => PollOK'
  <2>1. CASE poller = "epoll"
    BY <2>1, UpdateEpollOK
  <2>2. CASE poller = "poll"
    <3>1. PollOK'
      BY <2>2, UpdatePollOK
    <3>2. index' \in [Channels -> Int]
      BY <3>1 DEF PollOK, Entries
    <3> QED BY <2>2, <3>1, <3>2, UpdatePollOK
  <2> QED BY <1>1, <2>1, <2>2
<1>4. PhasesOK'
  <2>1. ASSUME NEW d \in Channels
        PROVE  /\ phase'[d] = "fresh" => index'[d] = kNew
               /\ phase'[d] # "added" => events'[d] = {} /\ d \notin channels'
    <3>1. CASE d = c
      BY <1>2, <3>1
    <3>2. CASE d # c
      BY <1>1, <1>2, <1>3, <3>2 DEF PhasesOK
    <3> QED BY <3>1, <3>2
  <2> QED BY <1>1, <1>2, <1>3, <2>1 DEF PhasesOK
<1>5. IInv'
  BY <1>1, <1>3, <1>4 DEF IInv
<1>6. \E W \in (IF E = {} THEN {{}, {{}}} ELSE {{E}}) :
         Watched' = [Watched EXCEPT ![c] = W]
  <2>1. CASE poller = "epoll"
    <3>1. PICK W \in (IF E = {} THEN {{}, {{}}} ELSE {{E}}) :
             kernel' = [kernel EXCEPT ![c] = W]
      BY <2>1, UpdateEpollOK
    <3>2. /\ kernel \in [Channels -> SUBSET SUBSET Events]
          /\ kernel'[c] = W /\ \A d \in Channels \ {c} : kernel'[d] = kernel[d]
      BY <2>1, <3>1 DEF IInv, EpollOK
    <3>3. \A d \in Channels : Asked(d) = kernel[d] /\ Asked(d)' = kernel'[d]
      BY <1>1, <2>1 DEF Asked
    <3> QED BY <3>1, <3>2, <3>3 DEF Watched
  <2>2. CASE poller = "poll"
    <3>1. \A d \in Channels :
            Asked(d) = IF phase[d] = "added" /\ pollfds[index[d] + 1].fd = d
                       THEN {events[d]} ELSE {}
      BY <2>2, WhatIsAsked
    <3>2. ASSUME NEW d \in Channels
          PROVE  Asked(d)' = IF phase'[d] = "added" /\ pollfds'[index'[d] + 1].fd = d
                             THEN {events'[d]} ELSE {}
      <4>1. Entries(pollfds', index', phase', events')
        BY <1>3, <2>2 DEF PollOK
      <4>2. Asked(d)' = {pollfds'[i].events :
                           i \in {j \in DOMAIN pollfds' : pollfds'[j].fd = d}}
        BY <1>1, <2>2 DEF Asked
      <4> QED BY <4>1, <4>2, EntryOf
    <3>3. ASSUME NEW d \in Channels \ {c} PROVE Asked(d)' = Asked(d)
      <4>1. phase[d] = "added" => pollfds'[index'[d] + 1] = pollfds[index[d] + 1]
        BY <2>2, UpdatePollOK DEF OthersKept
      <4> QED BY <1>2, <3>1, <3>2, <4>1
    <3>4. Asked(c)' \in (IF E = {} THEN {{}, {{}}} ELSE {{E}})
      <4>1. E # {} => pollfds'[index'[c] + 1].fd = c
        BY <1>2, <1>3, <2>2 DEF PollOK, Entries
      <4> QED BY <1>2, <3>2, <4>1
    <3> QED BY <3>3, <3>4 DEF Watched
  <2> QED BY <1>1, <2>1, <2>2
<1> QED BY <1>1, <1>5, <1>6 DEF Asking!Want, Watched

(* EpollPoller::RemoveChannel and PollPoller::RemoveChannel.                *)
LEMMA RemoveOK ==
  ASSUME IInv, NEW c \in Channels, RemoveChannel(c)
  PROVE  IInv' /\ Asking!Leave(c)
<1>1. /\ phase' = [phase EXCEPT ![c] = "removed"]
      /\ events' = events /\ poller' = poller /\ active' = active
      /\ phase[c] = "added" /\ events[c] = {}
      /\ PhasesOK /\ poller \in {"epoll", "poll"}
  BY DEF RemoveChannel, IInv
<1>2. /\ phase' \in [Channels -> {"fresh", "added", "removed"}]
      /\ phase'[c] = "removed" /\ \A d \in Channels \ {c} : phase'[d] = phase[d]
  BY <1>1 DEF PhasesOK
<1>3. CASE poller = "epoll"
  <2>1. EpollOK /\ RemoveEpoll(c)
    BY <1>3 DEF IInv, RemoveChannel
  <2>2. /\ channels' = channels \ {c}
        /\ index' = [index EXCEPT ![c] = kNew]
        /\ kernel' = [kernel EXCEPT ![c] = {}]
    <3>1. index[c] # kAdded => kernel[c] = {} /\ kernel = [kernel EXCEPT ![c] = {}]
      BY <2>1 DEF EpollOK
    <3> QED BY <2>1, <3>1 DEF RemoveEpoll, EpollCtl
  <2>3. /\ index' \in [Channels -> Int] /\ kernel' \in [Channels -> SUBSET SUBSET Events]
        /\ index'[c] = kNew /\ kernel'[c] = {}
        /\ \A d \in Channels \ {c} : index'[d] = index[d] /\ kernel'[d] = kernel[d]
    BY <1>1, <2>1, <2>2 DEF PhasesOK, EpollOK, kNew
  <2>4. kNew # kAdded /\ kNew # kDeleted
    BY DEF kNew, kAdded, kDeleted
  <2>5. EpollOK'
    <3>1. ASSUME NEW d \in Channels
          PROVE  /\ phase'[d] = "added" => index'[d] \in {kAdded, kDeleted}
                 /\ phase'[d] # "added" => index'[d] = kNew
                 /\ kernel'[d] = IF index'[d] = kAdded THEN {events'[d]} ELSE {}
                 /\ index'[d] = kDeleted => events'[d] = {}
      <4>1. CASE d = c
        BY <1>2, <2>3, <2>4, <4>1
      <4>2. CASE d # c
        BY <1>1, <1>2, <2>1, <2>3, <4>2 DEF EpollOK
      <4> QED BY <4>1, <4>2
    <3> QED BY <2>3, <3>1 DEF EpollOK
  <2>6. PhasesOK'
    <3>1. ASSUME NEW d \in Channels
          PROVE  /\ phase'[d] = "fresh" => index'[d] = kNew
                 /\ phase'[d] # "added" => events'[d] = {} /\ d \notin channels'
      BY <1>1, <1>2, <2>2, <2>3 DEF PhasesOK
    <3> QED BY <1>1, <1>2, <2>2, <2>3, <3>1 DEF PhasesOK
  <2>7. Watched' = [Watched EXCEPT ![c] = {}]
    <3>1. \A d \in Channels : Asked(d) = kernel[d] /\ Asked(d)' = kernel'[d]
      BY <1>1, <1>3 DEF Asked
    <3> QED BY <2>3, <3>1 DEF Watched
  <2> QED BY <1>1, <1>3, <2>5, <2>6, <2>7 DEF IInv, Asking!Leave, Watched
<1>4. CASE poller = "poll"
  <2>1. Entries(pollfds, index, phase, events) /\ RemovePoll(c)
    BY <1>4 DEF IInv, PollOK, RemoveChannel
  <2>2. /\ channels' = channels \ {c}
        /\ Entries(pollfds', index', phase', events')
        /\ OthersKept(c, pollfds', index', pollfds, index, phase)
    <3> DEFINE fd     == pollfds[Len(pollfds)].fd
               moved  == IF fd < 0 THEN Negated(fd) ELSE fd
               newIdx == IF index[c] + 1 = Len(pollfds) THEN index
                         ELSE [index EXCEPT ![moved] = index[c]]
    <3>1. /\ channels' = channels \ {c}
          /\ pollfds' = Without(index[c] + 1) /\ index' = newIdx
      BY <2>1 DEF RemovePoll
    <3>2. /\ Entries(Without(index[c] + 1), newIdx,
                     [phase EXCEPT ![c] = "removed"], events)
          /\ OthersKept(c, Without(index[c] + 1), newIdx, pollfds, index, phase)
      <4>1. phase \in [Channels -> {"fresh", "added", "removed"}]
        BY <1>1 DEF PhasesOK
      <4> QED BY <1>1, <2>1, <4>1, DropEntry DEF Without
    <3> HIDE DEF newIdx
    <3> QED BY <1>1, <3>1, <3>2
  <2>3. index' \in [Channels -> Int]
    BY <2>2 DEF Entries
  <2>4. PhasesOK'
    <3>1. ASSUME NEW d \in Channels
          PROVE  /\ phase'[d] = "fresh" => index'[d] = kNew
                 /\ phase'[d] # "added" => events'[d] = {} /\ d \notin channels'
      <4>1. phase'[d] = "fresh" => phase[d] = "fresh" /\ index'[d] = index[d]
        BY <1>1, <1>2, <2>2 DEF OthersKept
      <4> QED BY <1>1, <1>2, <2>2, <4>1 DEF PhasesOK
    <3> QED BY <1>1, <1>2, <2>2, <2>3, <3>1 DEF PhasesOK
  <2>5. \A d \in Channels :
          Asked(d) = IF phase[d] = "added" /\ pollfds[index[d] + 1].fd = d
                     THEN {events[d]} ELSE {}
    BY <1>4, WhatIsAsked
  <2>6. ASSUME NEW d \in Channels
        PROVE  Asked(d)' = IF phase'[d] = "added" /\ pollfds'[index'[d] + 1].fd = d
                           THEN {events'[d]} ELSE {}
    <3>1. Asked(d)' = {pollfds'[i].events :
                         i \in {j \in DOMAIN pollfds' : pollfds'[j].fd = d}}
      BY <1>1, <1>4 DEF Asked
    <3> QED BY <2>2, <3>1, EntryOf
  <2>7. Watched' = [Watched EXCEPT ![c] = {}]
    <3>1. Asked(c)' = {}
      BY <1>2, <2>6
    <3>2. ASSUME NEW d \in Channels \ {c} PROVE Asked(d)' = Asked(d)
      BY <1>1, <1>2, <2>2, <2>5, <2>6 DEF OthersKept
    <3> QED BY <3>1, <3>2 DEF Watched
  <2> QED BY <1>1, <1>4, <2>2, <2>4, <2>7 DEF IInv, PollOK, Asking!Leave, Watched
<1> QED BY <1>1, <1>3, <1>4

(* A new channel for a descriptor that is not watched changes nothing.      *)
LEMMA RenewOK ==
  ASSUME IInv, NEW c \in Channels, Renew(c)
  PROVE  IInv' /\ UNCHANGED <<events, Watched, active>>
<1>1. /\ phase[c] = "removed"
      /\ phase' = [phase EXCEPT ![c] = "fresh"]
      /\ index' = [index EXCEPT ![c] = kNew]
      /\ UNCHANGED <<poller, events, channels, kernel, pollfds, capacity, active>>
      /\ PhasesOK /\ poller \in {"epoll", "poll"}
  BY DEF Renew, IInv
<1>2. /\ phase' \in [Channels -> {"fresh", "added", "removed"}]
      /\ index' \in [Channels -> Int]
      /\ phase'[c] = "fresh" /\ index'[c] = kNew
      /\ \A d \in Channels \ {c} : phase'[d] = phase[d] /\ index'[d] = index[d]
  BY <1>1 DEF PhasesOK, kNew
<1>3. PhasesOK'
  <2>1. ASSUME NEW d \in Channels
        PROVE  /\ phase'[d] = "fresh" => index'[d] = kNew
               /\ phase'[d] # "added" => events'[d] = {} /\ d \notin channels'
    BY <1>1, <1>2 DEF PhasesOK
  <2> QED BY <1>1, <1>2, <2>1 DEF PhasesOK
<1>4. poller = "epoll" => EpollOK'
  <2>1. SUFFICES ASSUME EpollOK PROVE EpollOK'
    BY DEF IInv
  <2>2. ASSUME NEW d \in Channels PROVE phase'[d] = "added" => phase[d] = "added"
    BY <1>1, <1>2
  <2>3. ASSUME NEW d \in Channels PROVE index'[d] = index[d]
    BY <1>1, <1>2, <2>1 DEF EpollOK
  <2>4. ASSUME NEW d \in Channels
        PROVE  /\ phase'[d] = "added" => index'[d] \in {kAdded, kDeleted}
               /\ phase'[d] # "added" => index'[d] = kNew
               /\ kernel'[d] = IF index'[d] = kAdded THEN {events'[d]} ELSE {}
               /\ index'[d] = kDeleted => events'[d] = {}
    BY <1>1, <1>2, <2>1, <2>3 DEF EpollOK
  <2> QED BY <1>1, <2>1, <2>4 DEF EpollOK
<1>5. poller = "poll" => PollOK'
  <2>1. SUFFICES ASSUME Entries(pollfds, index, phase, events)
                 PROVE  Entries(pollfds, index', phase', events)
    BY <1>1 DEF IInv, PollOK
  <2>2. \A d \in Channels : (phase'[d] = "added") <=> (phase[d] = "added")
    BY <1>1, <1>2
  <2>3. \A d \in Channels : phase[d] = "added" => index'[d] = index[d]
    BY <1>1, <1>2
  <2>4. ASSUME NEW d \in Channels, phase'[d] = "added"
        PROVE  /\ index'[d] + 1 \in 1 .. Len(pollfds)
               /\ pollfds[index'[d] + 1].events = events[d]
               /\ pollfds[index'[d] + 1].fd \in {d, Negated(d)}
               /\ events[d] # {} => pollfds[index'[d] + 1].fd = d
    <3>1. phase[d] = "added" /\ index'[d] = index[d]
      BY <2>2, <2>3, <2>4
    <3> QED BY <2>1, <3>1 DEF Entries
  <2>5. ASSUME NEW i \in 1 .. Len(pollfds)
        PROVE  \E d \in Channels : phase'[d] = "added" /\ i = index'[d] + 1
    <3>1. PICK d \in Channels : phase[d] = "added" /\ i = index[d] + 1
      BY <2>1 DEF Entries
    <3> QED BY <2>2, <2>3, <3>1
  <2> QED BY <1>2, <2>1, <2>4, <2>5 DEF Entries
<1>6. UNCHANGED Watched
  BY <1>1 DEF Watched, Asked
<1> QED BY <1>1, <1>3, <1>4, <1>5, <1>6 DEF IInv

(* poll reports watched channels, and changes none.                         *)
LEMMA PollsOK ==
  ASSUME IInv, PollEpoll \/ PollPoll
  PROVE  IInv' /\ Asking!Report
<1>1. UNCHANGED <<poller, phase, events, index, channels, kernel, pollfds>>
  BY DEF PollEpoll, PollPoll
<1>2. UNCHANGED Watched
  BY <1>1 DEF Watched, Asked
<1>3. active' \in SUBSET {c \in Channels : Watched[c] # {}}
  <2>1. CASE PollEpoll
    BY <2>1 DEF PollEpoll, Watched, Asked
  <2>2. CASE PollPoll
    <3>1. PICK R \in SUBSET {i \in DOMAIN pollfds : pollfds[i].fd >= 0} :
             active' = {pollfds[i].fd : i \in R} \cap channels
      BY <2>2 DEF PollPoll
    <3>2. channels \subseteq Channels /\ poller = "poll"
      BY <2>2 DEF IInv, PhasesOK, PollPoll
    <3>3. ASSUME NEW c \in active' PROVE c \in Channels /\ Asked(c) # {}
      <4>1. PICK i \in R : c = pollfds[i].fd
        BY <3>1
      <4>2. pollfds[i].events \in Asked(c)
        BY <3>2, <4>1 DEF Asked
      <4> QED BY <3>1, <3>2, <4>2
    <3> QED BY <3>3 DEF Watched
  <2> QED BY <2>1, <2>2
<1>4. active' \subseteq Channels
  BY <1>3
<1>5. IInv'
  BY <1>1, <1>4 DEF IInv, PhasesOK, EpollOK, PollOK
<1> QED BY <1>1, <1>2, <1>3, <1>5 DEF Asking!Report, Watched

(* Every operation of a poller is one of the interest set, or a stutter.    *)
LEMMA StepOK ==
  ASSUME IInv, [PollerNext]_pollerVars
  PROVE  IInv' /\ [Asking!Next]_(Asking!interestVars)
<1>1. ASSUME NEW c \in Channels, NEW E \in SUBSET Events, UpdateChannel(c, E)
      PROVE  IInv' /\ Asking!Next
  BY <1>1, UpdateOK DEF Asking!Next
<1>2. ASSUME NEW c \in Channels, NEW e \in Events, Enable(c, e) \/ Disable(c, e)
      PROVE  IInv' /\ Asking!Next
  <2>1. events[c] \cup {e} \in SUBSET Events /\ events[c] \ {e} \in SUBSET Events
    BY DEF IInv, PhasesOK
  <2>2. PICK E \in SUBSET Events : UpdateChannel(c, E)
    BY <1>2, <2>1 DEF Enable, Disable
  <2> QED BY <1>1, <2>2
<1>3. ASSUME NEW c \in Channels, DisableAll(c) PROVE IInv' /\ Asking!Next
  BY <1>1, <1>3 DEF DisableAll
<1>4. ASSUME NEW c \in Channels, RemoveChannel(c) PROVE IInv' /\ Asking!Next
  BY <1>4, RemoveOK DEF Asking!Next
<1>5. ASSUME NEW c \in Channels, Renew(c)
      PROVE  IInv' /\ UNCHANGED Asking!interestVars
  BY <1>5, RenewOK DEF Asking!interestVars, Watched
<1>6. ASSUME PollEpoll \/ PollPoll PROVE IInv' /\ Asking!Next
  BY <1>6, PollsOK DEF Asking!Next
<1>7. ASSUME UNCHANGED pollerVars PROVE IInv' /\ UNCHANGED Asking!interestVars
  BY <1>7 DEF pollerVars, IInv, PhasesOK, EpollOK, PollOK, Asking!interestVars, Asked
<1> QED BY <1>2, <1>3, <1>4, <1>5, <1>6, <1>7 DEF PollerNext

(* Nothing is watched at the beginning.                                     *)
LEMMA InitAsks == PollerInit => Asking!Init
<1> SUFFICES ASSUME PollerInit PROVE Asking!Init
  OBVIOUS
<1>1. pollfds = <<>> /\ DOMAIN pollfds = {}
  BY DEF PollerInit
<1>2. \A c \in Channels : Asked(c) = {}
  BY <1>1 DEF PollerInit, Asked
<1> QED BY <1>2 DEF PollerInit, Asking!Init

(* The invariant has the types in it.                                      *)
LEMMA IInvTypes == IInv => PollerTypeOK
BY DEF IInv, PhasesOK, PollerTypeOK

(* Whichever poller the build has (poller_default.cpp), it watches each     *)
(* channel for what the channel asked for, whatever becomes of the others. *)
THEOREM PollersImplementInterestSet == PollerSpec => PollersWatch
<1>1. PollerSpec => []IInv
  BY InitOK, StepOK, PTL DEF PollerSpec
<1> QED BY <1>1, InitAsks, StepOK, IInvTypes, PTL DEF PollerSpec, PollersWatch, Asking!Spec

-----------------------------------------------------------------------------
(* The buffer.                                                              *)

(* The parts of a buffer whose readable bytes are c.                       *)
Holding(size, cells, reader, writer, c) ==
  /\ size \in Nat /\ reader \in Nat /\ writer \in Nat
  /\ reader <= writer /\ writer <= size /\ CheapPrepend <= size
  /\ cells \in [0 .. size - 1 -> Byte]
  /\ c \in [0 .. writer - reader - 1 -> Byte]
  /\ \A i \in 0 .. writer - reader - 1 : cells[reader + i] = c[i]

Holds(b, c) ==
  /\ b = Buf(b.size, b.cells, b.reader, b.writer)
  /\ Holding(b.size, b.cells, b.reader, b.writer, c)

(* A buffer is known by its parts.                                         *)
LEMMA BufHolds ==
  ASSUME NEW size, NEW cells, NEW reader, NEW writer, NEW c,
         Holding(size, cells, reader, writer, c)
  PROVE  Holds(Buf(size, cells, reader, writer), c)
BY DEF Holds, Buf

(* Growing: new cells behind change nothing.                               *)
LEMMA GrowHolding ==
  ASSUME NEW size, NEW cells, NEW reader, NEW writer, NEW c,
         Holding(size, cells, reader, writer, c),
         NEW n \in Nat, size <= n
  PROVE  Holding(n, [i \in 0 .. n - 1 |-> IF i < size THEN cells[i] ELSE Nul],
                 reader, writer, c)
<1> DEFINE new == [i \in 0 .. n - 1 |-> IF i < size THEN cells[i] ELSE Nul]
<1>1. new \in [0 .. n - 1 -> Byte]
  BY NetBufferAssumption DEF Holding
<1>2. ASSUME NEW i \in 0 .. writer - reader - 1 PROVE new[reader + i] = c[i]
  <2>1. reader + i \in 0 .. n - 1 /\ reader + i < size
    BY DEF Holding
  <2>2. new[reader + i] = cells[reader + i]
    BY <2>1
  <2> QED BY <2>2 DEF Holding
<1> HIDE DEF new
<1> QED BY <1>1, <1>2, NetBufferAssumption DEF Holding, new

(* Moving the bytes to the front.                                          *)
LEMMA ShiftHolding ==
  ASSUME NEW size, NEW cells, NEW reader, NEW writer, NEW c,
         Holding(size, cells, reader, writer, c),
         CheapPrepend <= reader
  PROVE  Holding(size,
           [i \in 0 .. size - 1 |->
              IF i >= CheapPrepend /\ i < CheapPrepend + (writer - reader)
              THEN cells[reader + i - CheapPrepend] ELSE cells[i]],
           CheapPrepend, CheapPrepend + (writer - reader), c)
<1> DEFINE new == [i \in 0 .. size - 1 |->
              IF i >= CheapPrepend /\ i < CheapPrepend + (writer - reader)
              THEN cells[reader + i - CheapPrepend] ELSE cells[i]]
<1>1. ASSUME NEW i \in 0 .. size - 1 PROVE new[i] \in Byte
  BY NetBufferAssumption DEF Holding
<1>2. new \in [0 .. size - 1 -> Byte]
  BY <1>1
<1>3. ASSUME NEW i \in 0 .. writer - reader - 1 PROVE new[CheapPrepend + i] = c[i]
  <2>1. /\ CheapPrepend + i \in 0 .. size - 1
        /\ CheapPrepend + i >= CheapPrepend
        /\ CheapPrepend + i < CheapPrepend + (writer - reader)
        /\ reader + (CheapPrepend + i) - CheapPrepend = reader + i
    BY NetBufferAssumption DEF Holding
  <2>2. new[CheapPrepend + i] = cells[reader + i]
    BY <2>1
  <2> QED BY <2>2 DEF Holding
<1>4. /\ CheapPrepend + (writer - reader) - CheapPrepend = writer - reader
      /\ CheapPrepend + (writer - reader) \in Nat
      /\ CheapPrepend <= CheapPrepend + (writer - reader)
      /\ CheapPrepend + (writer - reader) <= size
  BY NetBufferAssumption DEF Holding
<1> HIDE DEF new
<1> QED BY <1>2, <1>3, <1>4, NetBufferAssumption DEF Holding, new

(* Writing behind the bytes.                                               *)
LEMMA FillHolding ==
  ASSUME NEW size, NEW cells, NEW reader, NEW writer, NEW c,
         Holding(size, cells, reader, writer, c),
         NEW len \in Nat, NEW d \in [0 .. len - 1 -> Byte], writer + len <= size
  PROVE  Holding(size,
           [i \in 0 .. size - 1 |->
              IF i >= writer /\ i < writer + len THEN d[i - writer] ELSE cells[i]],
           reader, writer + len, Concat(writer - reader, c, len, d))
<1> DEFINE new == [i \in 0 .. size - 1 |->
              IF i >= writer /\ i < writer + len THEN d[i - writer] ELSE cells[i]]
           n == writer - reader
           e == Concat(n, c, len, d)
<1>1. n \in Nat /\ n + len \in Nat /\ writer + len - reader = n + len
  BY DEF Holding
<1>2. new \in [0 .. size - 1 -> Byte]
  BY DEF Holding
<1>3. e \in [0 .. n + len - 1 -> Byte]
  BY <1>1 DEF Concat, Holding
<1>4. ASSUME NEW i \in 0 .. n + len - 1 PROVE new[reader + i] = e[i]
  <2>1. reader + i \in 0 .. size - 1
    BY <1>1 DEF Holding
  <2>2. e[i] = IF i < n THEN c[i] ELSE d[i - n]
    BY DEF Concat
  <2>3. CASE i < n
    <3>1. reader + i < writer /\ i \in 0 .. n - 1
      BY <1>1, <2>3 DEF Holding
    <3>2. new[reader + i] = cells[reader + i]
      BY <2>1, <3>1 DEF Holding
    <3> QED BY <2>2, <2>3, <3>1, <3>2 DEF Holding
  <2>4. CASE ~(i < n)
    <3>1. PICK j \in 0 .. size - 1 : j = reader + i
      BY <2>1
    <3>2. j >= writer /\ j < writer + len /\ j - writer = i - n
      BY <1>1, <2>4, <3>1 DEF Holding
    <3>3. new[j] = d[j - writer]
      BY <3>2
    <3> QED BY <2>2, <2>4, <3>1, <3>2, <3>3
  <2> QED BY <2>3, <2>4
<1>5. /\ size \in Nat /\ reader \in Nat /\ CheapPrepend <= size
      /\ writer + len \in Nat /\ reader <= writer + len
  BY DEF Holding
<1> DEFINE last == n + len - 1
           to   == writer + len
<1>6. to - reader - 1 = last /\ to \in Nat /\ reader <= to /\ to <= size
  BY <1>5 DEF Holding
<1>7. e \in [0 .. last -> Byte]
  BY <1>3
<1>8. \A i \in 0 .. last : new[reader + i] = e[i]
  BY <1>4
<1> HIDE DEF new, e, last, to
<1>9. e \in [0 .. to - reader - 1 -> Byte]
  BY <1>6, <1>7, Zenon
<1>10. \A i \in 0 .. to - reader - 1 : new[reader + i] = e[i]
  BY <1>6, <1>8, Zenon
<1>11. Holding(size, new, reader, to, e)
  BY <1>2, <1>5, <1>6, <1>9, <1>10 DEF Holding
<1> QED BY <1>11 DEF new, to, e

(* Writing in front of the bytes.                                          *)
LEMMA PrependHolding ==
  ASSUME NEW size, NEW cells, NEW reader, NEW writer, NEW c,
         Holding(size, cells, reader, writer, c),
         NEW len \in Nat, NEW d \in [0 .. len - 1 -> Byte], len <= reader
  PROVE  Holding(size,
           [i \in 0 .. size - 1 |->
              IF i >= reader - len /\ i < reader THEN d[i - (reader - len)] ELSE cells[i]],
           reader - len, writer, Concat(len, d, writer - reader, c))
<1> DEFINE new == [i \in 0 .. size - 1 |->
              IF i >= reader - len /\ i < reader THEN d[i - (reader - len)] ELSE cells[i]]
           n == writer - reader
           e == Concat(len, d, n, c)
<1>1. n \in Nat /\ writer - (reader - len) = len + n
  BY DEF Holding
<1>2. new \in [0 .. size - 1 -> Byte]
  BY DEF Holding
<1>3. e \in [0 .. len + n - 1 -> Byte]
  BY <1>1 DEF Concat, Holding
<1>4. ASSUME NEW i \in 0 .. len + n - 1 PROVE new[reader - len + i] = e[i]
  <2>1. reader - len + i \in 0 .. size - 1
    BY <1>1 DEF Holding
  <2>2. e[i] = IF i < len THEN d[i] ELSE c[i - len]
    BY DEF Concat
  <2>3. CASE i < len
    <3>1. PICK j \in 0 .. size - 1 : j = reader - len + i
      BY <2>1
    <3>2. j >= reader - len /\ j < reader /\ j - (reader - len) = i
      BY <2>3, <3>1 DEF Holding
    <3>3. new[j] = d[j - (reader - len)]
      BY <3>2
    <3> QED BY <2>2, <2>3, <3>1, <3>2, <3>3
  <2>4. CASE ~(i < len)
    <3>1. /\ ~(reader - len + i < reader) /\ i - len \in 0 .. n - 1
          /\ reader - len + i = reader + (i - len)
      BY <1>1, <2>4 DEF Holding
    <3>2. new[reader - len + i] = cells[reader + (i - len)]
      BY <2>1, <3>1
    <3> QED BY <2>2, <2>4, <3>1, <3>2 DEF Holding
  <2> QED BY <2>3, <2>4
<1>5. /\ size \in Nat /\ writer \in Nat /\ writer <= size /\ CheapPrepend <= size
      /\ reader - len \in Nat /\ reader - len <= writer
  BY DEF Holding
<1> DEFINE last == len + n - 1
           from == reader - len
<1>6. writer - from - 1 = last /\ from \in Nat /\ from <= writer
  BY <1>5 DEF Holding
<1>7. e \in [0 .. last -> Byte]
  BY <1>3
<1>8. \A i \in 0 .. last : new[from + i] = e[i]
  BY <1>4
<1> HIDE DEF new, e, last, from
<1>9. e \in [0 .. writer - from - 1 -> Byte]
  BY <1>6, <1>7, Zenon
<1>10. \A i \in 0 .. writer - from - 1 : new[from + i] = e[i]
  BY <1>6, <1>8, Zenon
<1>11. Holding(size, new, from, writer, e)
  BY <1>2, <1>5, <1>6, <1>9, <1>10 DEF Holding
<1> QED BY <1>11 DEF new, from, e
-----------------------------------------------------------------------------
(* The operators of the code on buffers.  A new buffer is empty.           *)
LEMMA NewHolds == Holds(NewBuffer, [i \in 0 .. -1 |-> Nul])
<1>1. Holding(CheapPrepend + InitialSize,
              [i \in 0 .. CheapPrepend + InitialSize - 1 |-> Nul],
              CheapPrepend, CheapPrepend, [i \in 0 .. -1 |-> Nul])
  BY NetBufferAssumption DEF Holding
<1> QED BY <1>1, BufHolds DEF NewBuffer

(* Making room for len bytes keeps the others.  They are only ever moved   *)
(* towards the front: with too little room behind, enough in all means     *)
(* more than the headroom in front.                                        *)
LEMMA EnsureHolds ==
  ASSUME NEW b, NEW c, NEW len \in Nat, Holds(b, c)
  PROVE  /\ Holds(EnsureWritable(b, len), c)
         /\ len <= Writable(EnsureWritable(b, len))
         /\ Readable(EnsureWritable(b, len)) = Readable(b)
<1>0. b.size \in Nat /\ b.reader \in Nat /\ b.writer \in Nat
      /\ b.reader <= b.writer /\ b.writer <= b.size /\ CheapPrepend <= b.size
  BY DEF Holds, Holding
<1>1. CASE Writable(b) < len /\ FitsShifted(b, len)
  <2>1. CheapPrepend <= b.reader
    BY <1>0, <1>1, NetBufferAssumption DEF FitsShifted, Writable
  <2>2. Holds(Shifted(b), c)
    BY <2>1, ShiftHolding, BufHolds DEF Holds, Shifted, Readable
  <2>3. Shifted(b).size = b.size /\ Shifted(b).reader = CheapPrepend
        /\ Shifted(b).writer = CheapPrepend + Readable(b)
    BY DEF Shifted, Buf
  <2>4. Readable(Shifted(b)) = Readable(b) /\ len <= Writable(Shifted(b))
    BY <1>0, <1>1, <2>3, NetBufferAssumption DEF FitsShifted, Readable, Writable
  <2> QED BY <1>1, <2>2, <2>4 DEF EnsureWritable, MakeSpace
<1>2. CASE Writable(b) < len /\ ~FitsShifted(b, len)
  <2> DEFINE r == Resized(b, b.writer + len)
  <2>1. b.writer + len \in Nat /\ b.size <= b.writer + len
    BY <1>0, <1>2 DEF Writable
  <2>2. Holds(r, c)
    BY <2>1, GrowHolding, BufHolds DEF Holds, Resized
  <2>3. r.size = b.writer + len /\ r.reader = b.reader /\ r.writer = b.writer
    BY DEF Resized, Buf
  <2>4. Readable(r) = Readable(b) /\ len <= Writable(r)
    BY <1>0, <2>3 DEF Readable, Writable
  <2> QED BY <1>2, <2>2, <2>4 DEF EnsureWritable, MakeSpace
<1>3. CASE ~(Writable(b) < len)
  BY <1>0, <1>3 DEF EnsureWritable, Writable
<1> QED BY <1>1, <1>2, <1>3

(* Bytes written behind the others are read after them.                    *)
LEMMA FilledHolds ==
  ASSUME NEW b, NEW c, Holds(b, c),
         NEW len \in Nat, NEW d \in [0 .. len - 1 -> Byte], len <= Writable(b)
  PROVE  /\ Holds(Filled(b, len, d), Concat(Readable(b), c, len, d))
         /\ Readable(Filled(b, len, d)) = Readable(b) + len
<1>1. b.writer + len <= b.size /\ b.reader \in Nat /\ b.writer \in Nat
  BY DEF Holds, Holding, Writable
<1>2. Holds(Filled(b, len, d), Concat(Readable(b), c, len, d))
  BY <1>1, FillHolding, BufHolds DEF Holds, Filled, Readable
<1>3. Filled(b, len, d).reader = b.reader /\ Filled(b, len, d).writer = b.writer + len
  BY DEF Filled, Buf
<1>4. Readable(Filled(b, len, d)) = Readable(b) + len
  BY <1>1, <1>3 DEF Readable
<1> QED BY <1>2, <1>4

(* So are bytes for which room is made first.                              *)
LEMMA AppendedHolds ==
  ASSUME NEW b, NEW c, Holds(b, c), NEW len \in Nat, NEW d \in [0 .. len - 1 -> Byte]
  PROVE  Holds(Appended(b, len, d), Concat(Readable(b), c, len, d))
BY EnsureHolds, FilledHolds DEF Appended

(* What does not fit behind the others arrives after what does.            *)
LEMMA ReadHolds ==
  ASSUME NEW b, NEW c, Holds(b, c), NEW n \in Nat, NEW d \in [0 .. n - 1 -> Byte]
  PROVE  Holds(ReadFd(b, n, d), Concat(Readable(b), c, n, d))
<1>0. Writable(b) \in Nat /\ Readable(b) \in Nat
      /\ c \in [0 .. Readable(b) - 1 -> Byte]
  BY DEF Holds, Holding, Writable, Readable
<1>1. CASE n <= Writable(b)
  BY <1>1, FilledHolds DEF ReadFd
<1>2. CASE ~(n <= Writable(b))
  <2> DEFINE w == Writable(b)
             r == Readable(b)
             head == Sub(d, 0, w)
             tail == Sub(d, w, n - w)
  <2>1. w \in Nat /\ n - w \in Nat /\ r \in Nat
    BY <1>0, <1>2
  <2>2. head \in [0 .. w - 1 -> Byte] /\ tail \in [0 .. n - w - 1 -> Byte]
    BY <2>1 DEF Sub
  <2>3. Filled(b, w, d) = Filled(b, w, head)
    <3>1. ASSUME NEW i \in 0 .. b.size - 1, i >= b.writer, i < b.writer + w
          PROVE  d[i - b.writer] = head[i - b.writer]
      <4>1. b.writer \in Nat
        BY DEF Holds, Holding
      <4>2. i - b.writer \in 0 .. w - 1 /\ 0 + (i - b.writer) = i - b.writer
        <5> HIDE DEF w
        <5> QED BY <2>1, <3>1, <4>1
      <4> HIDE DEF w
      <4> QED BY <4>2 DEF Sub
    <3> HIDE DEF head
    <3> QED BY <3>1 DEF Filled
  <2>4. /\ Holds(Filled(b, w, head), Concat(r, c, w, head))
        /\ Readable(Filled(b, w, head)) = r + w
    <3> HIDE DEF head, w
    <3>1. w <= Writable(b)
      BY <2>1 DEF w
    <3> QED BY <2>1, <2>2, <3>1, FilledHolds
  <2>5. Holds(Appended(Filled(b, w, head), n - w, tail),
              Concat(r + w, Concat(r, c, w, head), n - w, tail))
    BY <2>1, <2>2, <2>4, AppendedHolds
  <2>6. Concat(r + w, Concat(r, c, w, head), n - w, tail) = Concat(r, c, n, d)
    <3>1. r + w + (n - w) = r + n
      BY <2>1
    <3>2. ASSUME NEW i \in 0 .. r + n - 1
          PROVE  (IF i < r + w THEN Concat(r, c, w, head)[i] ELSE tail[i - (r + w)])
                   = IF i < r THEN c[i] ELSE d[i - r]
      <4>1. CASE i < r + w
        <5>1. i \in 0 .. r + w - 1
          BY <2>1, <4>1
        <5>2. Concat(r, c, w, head)[i] = IF i < r THEN c[i] ELSE head[i - r]
          BY <5>1 DEF Concat
        <5>3. ~(i < r) => head[i - r] = d[i - r]
          BY <2>1, <5>1 DEF Sub
        <5> QED BY <4>1, <5>2, <5>3
      <4>2. CASE ~(i < r + w)
        <5>1. i - (r + w) \in 0 .. n - w - 1 /\ w + (i - (r + w)) = i - r /\ ~(i < r)
          BY <2>1, <4>2
        <5>2. tail[i - (r + w)] = d[i - r]
          BY <5>1 DEF Sub
        <5> QED BY <4>2, <5>1, <5>2
      <4> QED BY <4>1, <4>2
    <3> DEFINE mid == Concat(r, c, w, head)
    <3>3. Concat(r + w, mid, n - w, tail)
            = [i \in 0 .. r + n - 1 |-> IF i < r + w THEN mid[i] ELSE tail[i - (r + w)]]
      <4> HIDE DEF mid, tail, r, w
      <4>1. Concat(r + w, mid, n - w, tail)
              = [i \in 0 .. r + w + (n - w) - 1 |->
                   IF i < r + w THEN mid[i] ELSE tail[i - (r + w)]]
        BY Zenon DEF Concat
      <4>2. r + w + (n - w) - 1 = r + n - 1
        BY <2>1, <3>1
      <4> QED BY <4>1, <4>2, Zenon
    <3>4. Concat(r, c, n, d) = [i \in 0 .. r + n - 1 |-> IF i < r THEN c[i] ELSE d[i - r]]
      <4> HIDE DEF r
      <4> QED BY DEF Concat
    <3> HIDE DEF mid, head, tail, r, w
    <3> QED BY <3>2, <3>3, <3>4 DEF mid
  <2>7. ReadFd(b, n, d) = Appended(Filled(b, w, head), n - w, tail)
    BY <1>2, <2>3 DEF ReadFd
  <2> QED BY <2>5, <2>6, <2>7
<1> QED BY <1>1, <1>2

(* retrieve drops bytes at the front, all of them if there are too few.    *)
LEMMA RetrievedHolds ==
  ASSUME NEW b, NEW c, Holds(b, c), NEW len \in Nat
  PROVE  Holds(Retrieved(b, len),
               IF len < Readable(b) THEN Sub(c, len, Readable(b) - len) ELSE Sub(c, 0, 0))
<1>0. b.size \in Nat /\ b.reader \in Nat /\ b.writer \in Nat
      /\ b.reader <= b.writer /\ b.writer <= b.size /\ CheapPrepend <= b.size
  BY DEF Holds, Holding
<1>1. CASE len < Readable(b)
  <2>1. Holding(b.size, b.cells, b.reader + len, b.writer,
                Sub(c, len, Readable(b) - len))
    <3> DEFINE e == Sub(c, len, Readable(b) - len)
               n == b.writer - (b.reader + len)
    <3>1. n = Readable(b) - len /\ n \in Nat
      BY <1>0, <1>1 DEF Readable
    <3>2. ASSUME NEW i \in 0 .. n - 1
          PROVE  e[i] = c[len + i] /\ c[len + i] \in Byte
                 /\ b.cells[b.reader + len + i] = e[i]
      <4>1. len + i \in 0 .. b.writer - b.reader - 1
            /\ b.reader + (len + i) = b.reader + len + i
        BY <1>0, <3>1 DEF Readable
      <4>2. e[i] = c[len + i]
        BY <3>1 DEF Sub
      <4> QED BY <4>1, <4>2 DEF Holds, Holding
    <3>3. e \in [0 .. n - 1 -> Byte]
      BY <3>1, <3>2 DEF Sub
    <3> HIDE DEF e
    <3> QED BY <1>0, <3>1, <3>2, <3>3 DEF Holds, Holding, e
  <2> QED BY <1>1, <2>1, BufHolds DEF Retrieved
<1>2. CASE ~(len < Readable(b))
  <2>1. Holding(b.size, b.cells, CheapPrepend, CheapPrepend, Sub(c, 0, 0))
    BY <1>0, NetBufferAssumption DEF Holds, Holding, Sub
  <2> QED BY <1>2, <2>1, BufHolds DEF Retrieved, RetrievedAll
<1> QED BY <1>1, <1>2

(* unwrite drops bytes at the end.                                         *)
LEMMA UnwrittenHolds ==
  ASSUME NEW b, NEW c, Holds(b, c), NEW len \in Nat, len <= Readable(b)
  PROVE  Holds(Unwritten(b, len), Sub(c, 0, Readable(b) - len))
<1> DEFINE e == Sub(c, 0, Readable(b) - len)
           n == b.writer - len - b.reader
<1>0. b.size \in Nat /\ b.reader \in Nat /\ b.writer \in Nat
      /\ b.reader <= b.writer /\ b.writer <= b.size /\ CheapPrepend <= b.size
  BY DEF Holds, Holding
<1>1. n = Readable(b) - len /\ n \in Nat /\ b.writer - len \in Nat
      /\ b.reader <= b.writer - len /\ b.writer - len <= b.size
  BY <1>0 DEF Readable
<1>2. ASSUME NEW i \in 0 .. n - 1
      PROVE  e[i] \in Byte /\ b.cells[b.reader + i] = e[i]
  <2>1. i \in 0 .. b.writer - b.reader - 1
    BY <1>0
  <2>2. e[i] = c[i]
    BY <1>1 DEF Sub
  <2> QED BY <2>1, <2>2 DEF Holds, Holding
<1>3. e \in [0 .. n - 1 -> Byte]
  BY <1>1, <1>2 DEF Sub
<1>4. Holding(b.size, b.cells, b.reader, b.writer - len, e)
  <2> HIDE DEF e
  <2> QED BY <1>0, <1>1, <1>2, <1>3 DEF Holds, Holding
<1> QED BY <1>4, BufHolds DEF Unwritten

(* Bytes put in front are read before the others.                          *)
LEMMA PrependedHolds ==
  ASSUME NEW b, NEW c, Holds(b, c), NEW len \in Nat, len <= b.reader,
         NEW d \in [0 .. len - 1 -> Byte]
  PROVE  Holds(Prepended(b, len, d), Concat(len, d, Readable(b), c))
BY PrependHolding, BufHolds DEF Holds, Prepended, Readable

(* A shrunk copy holds the same bytes.                                     *)
LEMMA ShrunkHolds ==
  ASSUME NEW b, NEW c, Holds(b, c), NEW reserve \in Nat
  PROVE  Holds(Shrunk(b, reserve), c)
<1> DEFINE n == Readable(b)
           d == Sub(b.cells, b.reader, n)
           new == EnsureWritable(NewBuffer, n + reserve)
           none == [i \in 0 .. -1 |-> Nul]
<1>1. n \in Nat /\ n = b.writer - b.reader
  BY DEF Holds, Holding, Readable
<1>2. ASSUME NEW i \in 0 .. n - 1 PROVE d[i] = c[i] /\ c[i] \in Byte
  BY <1>1 DEF Sub, Holds, Holding
<1>3. d \in [0 .. n - 1 -> Byte] /\ c \in [0 .. n - 1 -> Byte]
  BY <1>1, <1>2 DEF Sub, Holds, Holding
<1>4. d = c
  <2> HIDE DEF d, n
  <2>1. d = [i \in 0 .. n - 1 |-> d[i]] /\ c = [i \in 0 .. n - 1 |-> c[i]]
    BY <1>3
  <2>2. [i \in 0 .. n - 1 |-> d[i]] = [i \in 0 .. n - 1 |-> c[i]]
    BY <1>2
  <2> QED BY <2>1, <2>2
<1>5. Readable(NewBuffer) = 0
  BY NetBufferAssumption DEF Readable, NewBuffer, Buf
<1>6. Holds(new, none) /\ Readable(new) = 0
  <2> HIDE DEF n, none
  <2>1. Holds(NewBuffer, none)
    BY NewHolds DEF none
  <2> QED BY <1>1, <1>5, <2>1, EnsureHolds
<1>7. Holds(Appended(new, n, d), Concat(0, none, n, d))
  <2> HIDE DEF n, none, d, new
  <2> QED BY <1>1, <1>3, <1>6, AppendedHolds
<1>8. Concat(0, none, n, d) = d
  <2>1. Concat(0, none, n, d) = [i \in 0 .. n - 1 |-> d[i]]
    <3> HIDE DEF n, none, d
    <3> QED BY <1>1 DEF Concat
  <2> HIDE DEF n, none, d
  <2> QED BY <1>3, <2>1
<1> QED BY <1>4, <1>7, <1>8 DEF Shrunk
-----------------------------------------------------------------------------
(* What BufferSound says, in the form the lemmas use.                      *)
LEMMA SoundMeans == BufferSound <=> Holds(buffer, content)
<1>1. ASSUME BufferSound PROVE Holds(buffer, content)
  BY <1>1 DEF BufferSound, BufferTypeOK, IndicesInOrder, ContentKept, Holds, Holding,
              Buf, Count, Readable
<1>2. ASSUME Holds(buffer, content) PROVE BufferSound
  BY <1>2 DEF BufferSound, BufferTypeOK, IndicesInOrder, ContentKept, Holds, Holding,
              Buf, Count, Readable
<1> QED BY <1>1, <1>2

(* The buffer gives back the bytes it was given, in their order, for every *)
(* sequence of its operations (buffer.hpp, read_fd in buffer.cpp).         *)
THEOREM BufferKeepsBytes == BufferSpec => []BufferSound
<1>1. BufferInit => BufferSound
  BY NewHolds, SoundMeans DEF BufferInit
<1>2. BufferSound /\ [BufferNext]_bufferVars => BufferSound'
  <2> SUFFICES ASSUME Holds(buffer, content), [BufferNext]_bufferVars
               PROVE  Holds(buffer', content')
    <3>1. BufferSound' <=> Holds(buffer, content)'
      BY SoundMeans, PTL
    <3> QED BY <3>1, SoundMeans
  <2>1. ASSUME NEW len \in 0 .. MaxLen, AppendBytes(len)
        PROVE  Holds(buffer', content')
    BY <2>1, NetBufferAssumption, AppendedHolds DEF AppendBytes, Count, Data
  <2>2. ASSUME NEW len \in 0 .. MaxLen, Ensure(len)
        PROVE  Holds(buffer', content')
    BY <2>2, NetBufferAssumption, EnsureHolds DEF Ensure
  <2>3. ASSUME NEW len \in 0 .. MaxLen, Receive(len)
        PROVE  Holds(buffer', content')
    BY <2>3, NetBufferAssumption, ReadHolds DEF Receive, Count, Data
  <2>4. ASSUME NEW len \in 0 .. MaxLen, WriteInPlace(len)
        PROVE  Holds(buffer', content')
    BY <2>4, NetBufferAssumption, FilledHolds DEF WriteInPlace, Count, Data
  <2>5. ASSUME NEW len \in 0 .. MaxLen, Retrieve(len)
        PROVE  Holds(buffer', content')
    BY <2>5, NetBufferAssumption, RetrievedHolds DEF Retrieve, Count
  <2>6. ASSUME NEW len \in 0 .. MaxLen, Unwrite(len)
        PROVE  Holds(buffer', content')
    BY <2>6, NetBufferAssumption, UnwrittenHolds DEF Unwrite, Count
  <2>7. ASSUME NEW len \in 0 .. MaxLen, Prepend(len)
        PROVE  Holds(buffer', content')
    BY <2>7, NetBufferAssumption, PrependedHolds DEF Prepend, Count, Data
  <2>8. ASSUME NEW len \in 0 .. MaxLen, Shrink(len)
        PROVE  Holds(buffer', content')
    BY <2>8, NetBufferAssumption, ShrunkHolds DEF Shrink
  <2>9. CASE UNCHANGED bufferVars
    BY <2>9 DEF bufferVars
  <2> QED
    BY <2>1, <2>2, <2>3, <2>4, <2>5, <2>6, <2>7, <2>8, <2>9 DEF BufferNext
<1> QED BY <1>1, <1>2, PTL DEF BufferSpec

-----------------------------------------------------------------------------
(* The slab.                                                               *)

(* The pages M are a list with its head, doubly linked; the head's prev is *)
(* not kept up.  From every page the walk back leaves every set of pages   *)
(* of the list, so that it comes to the head in the end.                   *)
IsList(next, prev, head, M) ==
  /\ M \subseteq Pages
  /\ \A x \in M \cup {head} : next[x] \in M \cup {head}
  /\ \A x \in M \cup {head} : next[x] \in M => prev[next[x]] = x
  /\ \A x \in M : prev[x] \in M \cup {head} /\ next[prev[x]] = x
  /\ \E x \in M \cup {head} : next[x] = head
  /\ \A S \in SUBSET M : S # {} => \E x \in S : prev[x] \notin S

LEMMA Codes ==
  /\ NumPages \in Int /\ NumPages >= 1
  /\ Null \in Int /\ Start \in Int /\ Start > 0 /\ Busy \in Int /\ Busy > 0
BY SlabAssumption DEF Null, Start, Busy

LEMMA HeadsNotPages ==
  /\ \A h \in Heads : h \notin Pages /\ h \in Int /\ h # Null
  /\ FreeHead \in Heads /\ Null \notin Pages /\ Null \notin Heads
  /\ \A c \in Classes : Slot(c) \in Heads /\ Slot(c) # FreeHead
  /\ Pages \subseteq Nodes /\ Heads \subseteq Nodes
  /\ Pages \subseteq Int
BY SlabAssumption DEF Heads, Pages, Nodes, FreeHead, Slot, Null, Start

(* A list is what the walk from its head comes by.                          *)
LEMMA ListReached ==
  ASSUME NEW next, NEW prev, NEW head, head \notin Pages, NEW M, IsList(next, prev, head, M)
  PROVE  Reached(next, next[head]) = M
<1>. DEFINE closed == {S \in SUBSET Pages : next[head] \in S /\ \A p \in S : next[p] \in Pages => next[p] \in S}
<1>1. CASE next[head] \notin Pages
  <2>1. M = {}
    <3>1. SUFFICES ASSUME M # {} PROVE FALSE
      OBVIOUS
    <3>2. PICK x \in M : prev[x] \notin M
      BY <3>1 DEF IsList
    <3>3. next[head] = x
      BY <3>2 DEF IsList
    <3>. QED  BY <1>1, <3>3 DEF IsList
  <2>. QED  BY <1>1, <2>1 DEF Reached
<1>2. CASE next[head] \in Pages
  <2>1. M \in closed
    BY <1>2 DEF IsList
  <2>2. ASSUME NEW S \in closed PROVE M \subseteq S
    <3>1. SUFFICES ASSUME M \ S # {} PROVE FALSE
      OBVIOUS
    <3>2. PICK x \in M \ S : prev[x] \notin M \ S
      BY <3>1 DEF IsList
    <3>3. prev[x] \in M \cup {head} /\ next[prev[x]] = x /\ x \in Pages
      BY <3>2 DEF IsList
    <3>. QED  BY <3>2, <3>3, <2>2
  <2>. QED  BY <1>2, <2>1, <2>2 DEF Reached, IsList
<1>. QED  BY <1>1, <1>2

(* The walk back from a page of a list comes to the head of that list.      *)
LEMMA ListBack ==
  ASSUME NEW next, NEW prev, NEW head, head \notin Pages, NEW M, IsList(next, prev, head, M), NEW p \in M
  PROVE  /\ \E q \in Reached(prev, p) : prev[q] = head
         /\ \A q \in Reached(prev, p) : prev[q] \in Pages \cup {head}
<1>. DEFINE closed == {S \in SUBSET Pages : p \in S /\ \A q \in S : prev[q] \in Pages => prev[q] \in S}
            R == {q \in Pages : \A S \in closed : q \in S}
<1>1. p \in Pages /\ Reached(prev, p) = R /\ M \subseteq Pages
  BY DEF Reached, IsList
<1>2. M \in closed
  BY <1>1 DEF IsList
<1>3. R \subseteq M
  BY <1>2
<1>4. p \in R
  BY <1>1
<1>5. \A q \in R : prev[q] \in Pages => prev[q] \in R
  OBVIOUS
<1>6. PICK q \in R : prev[q] \notin R
  BY <1>3, <1>4 DEF IsList
<1>7. \A x \in R : prev[x] \in M \cup {head}
  BY <1>3 DEF IsList
<1>. QED  BY <1>1, <1>5, <1>6, <1>7

LEMMA ListSame ==
  ASSUME NEW next, NEW prev, NEW n2, NEW p2, NEW head, NEW M, IsList(next, prev, head, M),
         \A x \in M \cup {head} : n2[x] = next[x], \A x \in M : p2[x] = prev[x]
  PROVE  IsList(n2, p2, head, M)
BY DEF IsList

LEMMA ListEmpty ==
  ASSUME NEW next, NEW prev, NEW head, head \notin Pages, NEW M, IsList(next, prev, head, M)
  PROVE  M = {} <=> next[head] = head
<1>1. ASSUME M # {} PROVE next[head] \in M
  <2>1. PICK x \in M : prev[x] \notin M
    BY <1>1 DEF IsList
  <2>. QED  BY <2>1 DEF IsList
<1>. QED  BY <1>1 DEF IsList

LEMMA ListPushed ==
  ASSUME NEW next, NEW prev, NEW n2, NEW p2, NEW head, NEW M, IsList(next, prev, head, M), head \notin Pages,
         NEW p \in Pages, p \notin M,
         n2[head] = p, n2[p] = next[head], \A x \in M : n2[x] = next[x],
         p2[p] = head, next[head] \in M => p2[next[head]] = p,
         \A x \in M : x # next[head] => p2[x] = prev[x]
  PROVE  IsList(n2, p2, head, M \cup {p})
<1>. DEFINE N == M \cup {p}
<1>1. N \subseteq Pages /\ \A x \in N \cup {head} : n2[x] \in N \cup {head}
  BY DEF IsList
<1>2. \A x \in N \cup {head} : n2[x] \in N => p2[n2[x]] = x
  <2>1. ASSUME NEW x \in M, n2[x] \in N PROVE p2[n2[x]] = x
    <3>1. next[x] \in M /\ prev[next[x]] = x
      BY <2>1 DEF IsList
    <3>2. next[x] # next[head]
      BY <3>1 DEF IsList
    <3>. QED  BY <3>1, <3>2
  <2>2. n2[head] \in N => p2[n2[head]] = head
    OBVIOUS
  <2>3. n2[p] \in N => p2[n2[p]] = p
    BY DEF IsList
  <2>. QED  BY <2>1, <2>2, <2>3
<1>3. \A x \in N : p2[x] \in N \cup {head} /\ n2[p2[x]] = x
  <2>1. ASSUME NEW x \in M, x # next[head] PROVE p2[x] \in M /\ n2[p2[x]] = x
    <3>1. prev[x] \in M \cup {head} /\ next[prev[x]] = x
      BY DEF IsList
    <3>. QED  BY <2>1, <3>1
  <2>2. p2[p] \in N \cup {head} /\ n2[p2[p]] = p
    OBVIOUS
  <2>3. next[head] \in M => p2[next[head]] = p /\ n2[p] = next[head]
    OBVIOUS
  <2>. QED  BY <2>1, <2>2, <2>3
<1>4. \E x \in N \cup {head} : n2[x] = head
  BY DEF IsList
<1>5. ASSUME NEW S \in SUBSET N, S # {} PROVE \E x \in S : p2[x] \notin S
  <2>1. CASE p \in S
    BY <2>1, <1>1
  <2>2. CASE p \notin S
    <3>1. PICK x \in S : prev[x] \notin S
      BY <2>2, <1>5 DEF IsList
    <3>. QED  BY <3>1, <2>2, <1>5
  <2>. QED  BY <2>1, <2>2
<1>. HIDE DEF N
<1>6. IsList(n2, p2, head, N)
  BY <1>1, <1>2, <1>3, <1>4, <1>5, Zenon DEF IsList
<1>. QED  BY <1>6 DEF N

LEMMA ListUnlinked ==
  ASSUME NEW next, NEW prev, NEW n2, NEW p2, NEW head, NEW M, IsList(next, prev, head, M), head \notin Pages,
         NEW p \in M,
         n2[prev[p]] = next[p], \A x \in (M \cup {head}) \ {p, prev[p]} : n2[x] = next[x],
         next[p] \in M => p2[next[p]] = prev[p],
         \A x \in M \ {p, next[p]} : p2[x] = prev[x]
  PROVE  IsList(n2, p2, head, M \ {p})
<1>. DEFINE N == M \ {p}
<1>0. /\ prev[p] \in M \cup {head} /\ next[prev[p]] = p
      /\ next[p] \in M \cup {head} /\ (next[p] \in M => prev[next[p]] = p)
      /\ p # head
  BY DEF IsList
<1>a. prev[p] # p
  <2>1. \E x \in {p} : prev[x] \notin {p}
    BY DEF IsList
  <2>. QED  BY <2>1
<1>b. next[p] # p
  BY <1>0, <1>a
<1>1. N \subseteq Pages /\ \A x \in N \cup {head} : n2[x] \in N \cup {head}
  <2>1. ASSUME NEW x \in N \cup {head}, x # prev[p] PROVE n2[x] \in N \cup {head}
    <3>1. n2[x] = next[x] /\ next[x] \in M \cup {head} /\ (next[x] \in M => prev[next[x]] = x)
      BY <2>1, <1>0 DEF IsList
    <3>. QED  BY <2>1, <3>1
  <2>. QED  BY <2>1, <1>0, <1>a, <1>b DEF IsList
<1>2. \A x \in N \cup {head} : n2[x] \in N => p2[n2[x]] = x
  <2>1. ASSUME NEW x \in N \cup {head}, x # prev[p], n2[x] \in N PROVE p2[n2[x]] = x
    <3>1. n2[x] = next[x] /\ prev[next[x]] = x
      BY <2>1, <1>0 DEF IsList
    <3>2. next[x] # next[p]
      BY <3>1, <2>1, <1>0
    <3>. QED  BY <3>1, <3>2, <2>1
  <2>. QED  BY <2>1, <1>0, <1>a, <1>b
<1>3. \A x \in N : p2[x] \in N \cup {head} /\ n2[p2[x]] = x
  <2>1. ASSUME NEW x \in N, x # next[p] PROVE p2[x] \in N \cup {head} /\ n2[p2[x]] = x
    <3>1. p2[x] = prev[x] /\ prev[x] \in M \cup {head} /\ next[prev[x]] = x
      BY <2>1, <1>0 DEF IsList
    <3>2. prev[x] # p /\ prev[x] # prev[p]
      BY <3>1, <2>1, <1>0
    <3>. QED  BY <3>1, <3>2, <1>0
  <2>. QED  BY <2>1, <1>0, <1>a
<1>4. \E x \in N \cup {head} : n2[x] = head
  <2>1. CASE next[p] = head
    BY <2>1, <1>0, <1>a
  <2>2. CASE next[p] # head
    <3>1. PICK x \in M \cup {head} : next[x] = head
      BY DEF IsList
    <3>2. x # p /\ x # prev[p]
      BY <3>1, <2>2, <1>0
    <3>. QED  BY <3>1, <3>2, <1>0
  <2>. QED  BY <2>1, <2>2
<1>5. ASSUME NEW S \in SUBSET N, S # {} PROVE \E x \in S : p2[x] \notin S
  <2>1. CASE next[p] \in S /\ prev[p] \in S
    <3>1. PICK x \in S \cup {p} : prev[x] \notin S \cup {p}
      <4>1. S \cup {p} \in SUBSET M /\ S \cup {p} # {}
        OBVIOUS
      <4>. QED  BY <4>1 DEF IsList
    <3>2. x # p /\ x # next[p]
      BY <3>1, <2>1, <1>0
    <3>. QED  BY <3>1, <3>2
  <2>2. CASE ~(next[p] \in S /\ prev[p] \in S)
    <3>1. PICK x \in S : prev[x] \notin S
      <4>1. S \in SUBSET M
        OBVIOUS
      <4>. QED  BY <4>1, <1>5 DEF IsList
    <3>. QED  BY <3>1, <2>2
  <2>. QED  BY <2>1, <2>2
<1>. HIDE DEF N
<1>6. IsList(n2, p2, head, N)
  BY <1>1, <1>2, <1>3, <1>4, <1>5, Zenon DEF IsList
<1>. QED  BY <1>6 DEF N

(* r takes the place of p.                                                  *)
LEMMA ListReplaced ==
  ASSUME NEW next, NEW prev, NEW n2, NEW p2, NEW head, NEW M, IsList(next, prev, head, M), head \notin Pages,
         NEW p \in M, NEW r \in Pages, r \notin M,
         n2[r] = next[p], n2[prev[p]] = r, \A x \in (M \cup {head}) \ {p, prev[p]} : n2[x] = next[x],
         p2[r] = prev[p], next[p] \in M => p2[next[p]] = r,
         \A x \in M \ {p, next[p]} : p2[x] = prev[x]
  PROVE  IsList(n2, p2, head, (M \ {p}) \cup {r})
<1>. DEFINE N == (M \ {p}) \cup {r}
<1>0. /\ prev[p] \in M \cup {head} /\ next[prev[p]] = p
      /\ next[p] \in M \cup {head} /\ (next[p] \in M => prev[next[p]] = p)
      /\ p # head /\ r # head
  BY DEF IsList
<1>a. prev[p] # p
  <2>1. \E x \in {p} : prev[x] \notin {p}
    BY DEF IsList
  <2>. QED  BY <2>1
<1>b. next[p] # p
  BY <1>0, <1>a
<1>c. ASSUME NEW x \in (M \ {p}) \cup {head}, x # prev[p]
      PROVE  /\ n2[x] = next[x] /\ next[x] \in (M \ {p}) \cup {head} /\ next[x] # r
             /\ (next[x] \in M => prev[next[x]] = x /\ next[x] # next[p] /\ p2[next[x]] = x)
  <2>1. n2[x] = next[x] /\ next[x] \in M \cup {head} /\ (next[x] \in M => prev[next[x]] = x)
    BY <1>c, <1>0 DEF IsList
  <2>2. next[x] # p
    BY <2>1, <1>c
  <2>3. next[x] # r
    BY <2>1, <1>0
  <2>4. next[x] \in M => next[x] # next[p]
    BY <2>1, <1>0, <1>c
  <2>. QED  BY <2>1, <2>2, <2>3, <2>4
<1>1. N \subseteq Pages /\ \A x \in N \cup {head} : n2[x] \in N \cup {head}
  <2>1. N \subseteq Pages
    BY DEF IsList
  <2>. QED  BY <2>1, <1>c, <1>0, <1>a, <1>b
<1>2. \A x \in N \cup {head} : n2[x] \in N => p2[n2[x]] = x
  BY <1>c, <1>0, <1>a, <1>b
<1>3. \A x \in N : p2[x] \in N \cup {head} /\ n2[p2[x]] = x
  <2>1. ASSUME NEW x \in M \ {p}, x # next[p] PROVE p2[x] \in N \cup {head} /\ n2[p2[x]] = x
    <3>1. p2[x] = prev[x] /\ prev[x] \in M \cup {head} /\ next[prev[x]] = x
      BY <2>1, <1>0 DEF IsList
    <3>2. prev[x] # p /\ prev[x] # prev[p]
      BY <3>1, <2>1, <1>0
    <3>. QED  BY <3>1, <3>2, <1>0
  <2>. QED  BY <2>1, <1>0, <1>a, <1>b
<1>4. \E x \in N \cup {head} : n2[x] = head
  <2>1. CASE next[p] = head
    BY <2>1
  <2>2. CASE next[p] # head
    <3>1. PICK x \in M \cup {head} : next[x] = head
      BY DEF IsList
    <3>2. x # p /\ x # prev[p]
      BY <3>1, <2>2, <1>0
    <3>. QED  BY <3>1, <3>2, <1>0
  <2>. QED  BY <2>1, <2>2
<1>5. ASSUME NEW S \in SUBSET N, S # {} PROVE \E x \in S : p2[x] \notin S
  <2>. DEFINE T == IF r \in S THEN (S \ {r}) \cup {p} ELSE S
  <2>1. T \in SUBSET M /\ T # {} /\ (p \in T <=> r \in S)
    BY <1>5
  <2>2. \A x \in M \ {p} : x \in T <=> x \in S
    OBVIOUS
  <2>. HIDE DEF T, N
  <2>3. PICK x \in T : prev[x] \notin T
    BY <2>1 DEF IsList
  <2>4. prev[x] \in M \cup {head} /\ x \in M /\ next[prev[x]] = x
    BY <2>3, <2>1 DEF IsList
  <2>5. head \notin S /\ head \notin M
    BY DEF IsList, N
  <2>6. CASE x = p
    BY <2>1, <2>2, <2>3, <2>4, <2>5, <2>6, <1>0, <1>a
  <2>7. CASE x # p /\ x = next[p]
    <3>1. prev[x] = p
      BY <1>0, <2>7, <2>4
    <3>. QED  BY <2>1, <2>2, <2>3, <2>4, <2>7, <3>1
  <2>8. CASE x # p /\ x # next[p]
    <3>1. p2[x] = prev[x] /\ prev[x] # p
      BY <2>4, <2>8
    <3>. QED  BY <2>1, <2>2, <2>3, <2>4, <2>5, <2>8, <3>1
  <2>. QED  BY <2>6, <2>7, <2>8
<1>. HIDE DEF N
<1>6. IsList(n2, p2, head, N)
  BY <1>1, <1>2, <1>3, <1>4, <1>5, Zenon DEF IsList
<1>. QED  BY <1>6 DEF N

(* L[h] are the pages in the list of h, for every head.                     *)
Lists(m, L) ==
  /\ m \in [slab : [Nodes -> Int], next : [Nodes -> Int], prev : [Nodes -> Int]]
  /\ L \in [Heads -> SUBSET Pages]
  /\ \A h \in Heads : IsList(m.next, m.prev, h, L[h])
  /\ \A g, h \in Heads : g # h => L[g] \cap L[h] = {}

IsListed(L, p) == \E h \in Heads : p \in L[h]

LEMMA ListsChanged ==
  ASSUME NEW m, NEW L, Lists(m, L), NEW h \in Heads, NEW M,
         NEW u \in [slab : [Nodes -> Int], next : [Nodes -> Int], prev : [Nodes -> Int]],
         IsList(u.next, u.prev, h, M), \A g \in Heads \ {h} : M \cap L[g] = {},
         \A g \in Heads \ {h} : \A x \in L[g] \cup {g} : u.next[x] = m.next[x],
         \A g \in Heads \ {h} : \A x \in L[g] : u.prev[x] = m.prev[x]
  PROVE  Lists(u, [L EXCEPT ![h] = M])
<1>. DEFINE L2 == [L EXCEPT ![h] = M]
<1>1. L2 \in [Heads -> SUBSET Pages] /\ L2[h] = M /\ \A g \in Heads \ {h} : L2[g] = L[g]
  BY DEF Lists, IsList
<1>2. ASSUME NEW g \in Heads \ {h} PROVE IsList(u.next, u.prev, g, L[g])
  <2>1. IsList(m.next, m.prev, g, L[g])
    BY DEF Lists
  <2>. QED  BY <2>1, ListSame
<1>3. \A g \in Heads : IsList(u.next, u.prev, g, L2[g])
  BY <1>1, <1>2
<1>4. \A f, g \in Heads : f # g => L2[f] \cap L2[g] = {}
  BY <1>1 DEF Lists
<1>. QED  BY <1>1, <1>3, <1>4 DEF Lists

LEMMA ListsKept ==
  ASSUME NEW m, NEW L, Lists(m, L),
         NEW u \in [slab : [Nodes -> Int], next : [Nodes -> Int], prev : [Nodes -> Int]],
         \A g \in Heads : \A x \in L[g] \cup {g} : u.next[x] = m.next[x],
         \A g \in Heads : \A x \in L[g] : u.prev[x] = m.prev[x]
  PROVE  Lists(u, L)
<1>1. ASSUME NEW g \in Heads PROVE IsList(u.next, u.prev, g, L[g])
  <2>1. IsList(m.next, m.prev, g, L[g])
    BY DEF Lists
  <2>. QED  BY <2>1, ListSame
<1>. QED  BY <1>1 DEF Lists

LEMMA UnlinkedLists ==
  ASSUME NEW m, NEW L, Lists(m, L), NEW h \in Heads, NEW p \in L[h]
  PROVE  LET u == Unlinked(m, p) IN
         /\ Lists(u, [L EXCEPT ![h] = L[h] \ {p}])
         /\ u.slab = m.slab
         /\ \A x \in Pages \ L[h] : u.next[x] = m.next[x]
<1>. DEFINE u == Unlinked(m, p)
<1>1. /\ m \in [slab : [Nodes -> Int], next : [Nodes -> Int], prev : [Nodes -> Int]]
      /\ IsList(m.next, m.prev, h, L[h])
      /\ \A g \in Heads : L[g] \subseteq Pages
      /\ \A g \in Heads \ {h} : L[g] \cap L[h] = {}
  BY DEF Lists
<1>2. m.prev[p] \in L[h] \cup {h} /\ m.next[p] \in L[h] \cup {h} /\ p \in Pages
  BY <1>1 DEF IsList
<1>3. /\ u \in [slab : [Nodes -> Int], next : [Nodes -> Int], prev : [Nodes -> Int]]
      /\ u.slab = m.slab
      /\ u.next = [m.next EXCEPT ![m.prev[p]] = m.next[p]]
      /\ u.prev = [m.prev EXCEPT ![m.next[p]] = m.prev[p]]
  BY <1>1, <1>2, HeadsNotPages DEF Unlinked, Nodes
<1>4. /\ \A x \in Nodes : u.next[x] = IF x = m.prev[p] THEN m.next[p] ELSE m.next[x]
      /\ \A x \in Nodes : u.prev[x] = IF x = m.next[p] THEN m.prev[p] ELSE m.prev[x]
  BY <1>1, <1>3
<1>. HIDE DEF u
<1>5. \A g \in Heads : L[g] \cup {g} \subseteq Nodes
  BY <1>1, HeadsNotPages
<1>6. IsList(u.next, u.prev, h, L[h] \ {p})
  <2>1. \A x \in (L[h] \cup {h}) \ {p, m.prev[p]} : u.next[x] = m.next[x]
    BY <1>4, <1>5
  <2>2. u.next[m.prev[p]] = m.next[p] /\ (m.next[p] \in L[h] => u.prev[m.next[p]] = m.prev[p])
    BY <1>2, <1>4, <1>5
  <2>3. \A x \in L[h] \ {p, m.next[p]} : u.prev[x] = m.prev[x]
    BY <1>4, <1>5
  <2>. QED  BY <1>1, <2>1, <2>2, <2>3, ListUnlinked, HeadsNotPages
<1>7. ASSUME NEW g \in Heads \ {h}, NEW x \in L[g] \cup {g}
      PROVE  x # m.prev[p] /\ x # m.next[p] /\ x \in Nodes
  BY <1>1, <1>2, <1>5, HeadsNotPages
<1>8. \A x \in Pages \ L[h] : u.next[x] = m.next[x]
  BY <1>2, <1>4, HeadsNotPages
<1>9. Lists(u, [L EXCEPT ![h] = L[h] \ {p}])
  <2>1. \A g \in Heads \ {h} : (L[h] \ {p}) \cap L[g] = {}
    BY <1>1
  <2>2. \A g \in Heads \ {h} : \A x \in L[g] \cup {g} : u.next[x] = m.next[x]
    BY <1>4, <1>7
  <2>3. \A g \in Heads \ {h} : \A x \in L[g] : u.prev[x] = m.prev[x]
    BY <1>4, <1>7
  <2>. QED  BY <1>3, <1>6, <2>1, <2>2, <2>3, ListsChanged
<1>. QED  BY <1>3, <1>8, <1>9 DEF u

LEMMA PushedLists ==
  ASSUME NEW m, NEW L, Lists(m, L), NEW h \in Heads, NEW p \in Pages, ~IsListed(L, p)
  PROVE  LET u == Pushed(m, h, p) IN
         /\ Lists(u, [L EXCEPT ![h] = L[h] \cup {p}])
         /\ u.slab = m.slab
         /\ \A x \in Pages \ {p} : u.next[x] = m.next[x]
         /\ u.next[h] = p /\ u.prev[p] = h
<1>. DEFINE u == Pushed(m, h, p)
            f == m.next[h]
<1>1. /\ m \in [slab : [Nodes -> Int], next : [Nodes -> Int], prev : [Nodes -> Int]]
      /\ IsList(m.next, m.prev, h, L[h])
      /\ \A g \in Heads : L[g] \subseteq Pages /\ p \notin L[g]
      /\ \A g \in Heads \ {h} : L[g] \cap L[h] = {}
  BY DEF Lists, IsListed
<1>2. f \in L[h] \cup {h} /\ p # h /\ f # p
  BY <1>1, HeadsNotPages DEF IsList
<1>3. /\ u \in [slab : [Nodes -> Int], next : [Nodes -> Int], prev : [Nodes -> Int]]
      /\ u.slab = m.slab
      /\ u.next = [m.next EXCEPT ![h] = p, ![p] = f]
      /\ u.prev = [m.prev EXCEPT ![f] = p, ![p] = h]
  BY <1>1, <1>2, HeadsNotPages DEF Pushed, Nodes
<1>4. /\ \A x \in Nodes : u.next[x] = IF x = p THEN f ELSE IF x = h THEN p ELSE m.next[x]
      /\ \A x \in Nodes : u.prev[x] = IF x = p THEN h ELSE IF x = f THEN p ELSE m.prev[x]
  BY <1>1, <1>2, <1>3
<1>. HIDE DEF u
<1>5. \A g \in Heads : L[g] \cup {g} \subseteq Nodes
  BY <1>1, HeadsNotPages
<1>a. p \in Nodes /\ h \in Nodes /\ f \in Nodes
  BY <1>2, <1>5, HeadsNotPages
<1>6. IsList(u.next, u.prev, h, L[h] \cup {p})
  <2>0. \A x \in L[h] : x \in Nodes /\ x # p /\ x # h
    BY <1>1, <1>5, HeadsNotPages
  <2>1. u.next[h] = p /\ u.next[p] = f /\ \A x \in L[h] : u.next[x] = m.next[x]
    BY <2>0, <1>2, <1>4, <1>a
  <2>2. u.prev[p] = h /\ (f \in L[h] => u.prev[f] = p)
    BY <1>2, <1>4, <1>a
  <2>3. \A x \in L[h] : x # f => u.prev[x] = m.prev[x]
    BY <1>1, <1>4, <1>5
  <2>. QED  BY <1>1, <2>1, <2>2, <2>3, ListPushed, HeadsNotPages
<1>7. ASSUME NEW g \in Heads \ {h}, NEW x \in L[g] \cup {g}
      PROVE  x # p /\ x # h /\ x # f /\ x \in Nodes
  BY <1>1, <1>2, <1>5, HeadsNotPages
<1>8. (\A x \in Pages \ {p} : u.next[x] = m.next[x]) /\ u.next[h] = p /\ u.prev[p] = h
  BY <1>2, <1>4, <1>a, HeadsNotPages
<1>9. Lists(u, [L EXCEPT ![h] = L[h] \cup {p}])
  <2>1. \A g \in Heads \ {h} : (L[h] \cup {p}) \cap L[g] = {}
    BY <1>1
  <2>2. \A g \in Heads \ {h} : \A x \in L[g] \cup {g} : u.next[x] = m.next[x]
    BY <1>4, <1>7
  <2>3. \A g \in Heads \ {h} : \A x \in L[g] : u.prev[x] = m.prev[x]
    BY <1>4, <1>7
  <2>. DEFINE M == L[h] \cup {p}
  <2>4. IsList(u.next, u.prev, h, M) /\ \A g \in Heads \ {h} : M \cap L[g] = {}
    BY <1>6, <2>1
  <2>. HIDE DEF M
  <2>5. Lists(u, [L EXCEPT ![h] = M])
    BY <1>3, <2>4, <2>2, <2>3, ListsChanged
  <2>. QED  BY <2>5 DEF M
<1>. QED  BY <1>3, <1>8, <1>9 DEF u

(* r, with slab v, takes the place of p.                                    *)
Replaced(m, p, r, v) ==
  [m EXCEPT !.slab[r] = v,
            !.next[r] = m.next[p], !.next[m.prev[p]] = r,
            !.prev[r] = m.prev[p], !.prev[m.next[p]] = r]

LEMMA ReplacedLists ==
  ASSUME NEW m, NEW L, Lists(m, L), NEW h \in Heads, NEW p \in L[h], NEW r \in Pages, ~IsListed(L, r),
         NEW v \in Int
  PROVE  LET u == Replaced(m, p, r, v) IN
         /\ Lists(u, [L EXCEPT ![h] = (L[h] \ {p}) \cup {r}])
         /\ u.slab[r] = v /\ \A x \in Pages \ {r} : u.slab[x] = m.slab[x]
         /\ \A x \in Pages \ (L[h] \cup {r}) : u.next[x] = m.next[x]
<1>. DEFINE u == Replaced(m, p, r, v)
            M == (L[h] \ {p}) \cup {r}
<1>1. /\ m \in [slab : [Nodes -> Int], next : [Nodes -> Int], prev : [Nodes -> Int]]
      /\ IsList(m.next, m.prev, h, L[h])
      /\ \A g \in Heads : L[g] \subseteq Pages /\ r \notin L[g]
      /\ \A g \in Heads \ {h} : L[g] \cap L[h] = {}
  BY DEF Lists, IsListed
<1>2. /\ m.prev[p] \in L[h] \cup {h} /\ m.next[p] \in L[h] \cup {h} /\ p \in Pages
      /\ r # m.prev[p] /\ r # m.next[p] /\ r # p /\ r # h
  BY <1>1, HeadsNotPages DEF IsList
<1>3. \A g \in Heads : L[g] \cup {g} \subseteq Nodes
  BY <1>1, HeadsNotPages
<1>3a. \A x \in Nodes : x \in Int
  BY HeadsNotPages DEF Nodes
<1>4. m.prev[p] \in Nodes /\ m.next[p] \in Nodes /\ r \in Nodes /\ r \in Int /\ m.next[p] \in Int /\ m.prev[p] \in Int
  <2>1. m.prev[p] \in Nodes /\ m.next[p] \in Nodes
    BY <1>2, <1>3
  <2>2. r \in Nodes
    BY HeadsNotPages
  <2>. QED  BY <2>1, <2>2, <1>3a
<1>5. /\ u \in [slab : [Nodes -> Int], next : [Nodes -> Int], prev : [Nodes -> Int]]
      /\ u.slab = [m.slab EXCEPT ![r] = v]
      /\ u.next = [m.next EXCEPT ![r] = m.next[p], ![m.prev[p]] = r]
      /\ u.prev = [m.prev EXCEPT ![r] = m.prev[p], ![m.next[p]] = r]
  BY <1>1, <1>4 DEF Replaced
<1>6. /\ \A x \in Nodes : u.slab[x] = IF x = r THEN v ELSE m.slab[x]
      /\ \A x \in Nodes : u.next[x] = IF x = m.prev[p] THEN r ELSE IF x = r THEN m.next[p] ELSE m.next[x]
      /\ \A x \in Nodes : u.prev[x] = IF x = m.next[p] THEN r ELSE IF x = r THEN m.prev[p] ELSE m.prev[x]
  BY <1>1, <1>5
<1>. HIDE DEF u
<1>7. IsList(u.next, u.prev, h, M)
  <2>1. \A x \in L[h] \cup {h} : x \in Nodes /\ x # r
    BY <1>1, <1>2, <1>3
  <2>2. u.next[r] = m.next[p] /\ u.next[m.prev[p]] = r
    BY <1>2, <1>4, <1>6
  <2>3. \A x \in (L[h] \cup {h}) \ {p, m.prev[p]} : u.next[x] = m.next[x]
    BY <2>1, <1>6
  <2>4. u.prev[r] = m.prev[p] /\ (m.next[p] \in L[h] => u.prev[m.next[p]] = r)
    BY <1>2, <1>4, <1>6
  <2>5. \A x \in L[h] \ {p, m.next[p]} : u.prev[x] = m.prev[x]
    BY <2>1, <1>6
  <2>6. r \notin L[h] /\ h \notin Pages /\ IsList(m.next, m.prev, h, L[h])
    BY <1>1, HeadsNotPages
  <2>. QED  BY <2>2, <2>3, <2>4, <2>5, <2>6, ListReplaced
<1>8. ASSUME NEW g \in Heads \ {h}, NEW x \in L[g] \cup {g}
      PROVE  x # m.prev[p] /\ x # m.next[p] /\ x # r /\ x \in Nodes
  BY <1>1, <1>2, <1>3, HeadsNotPages
<1>9. Lists(u, [L EXCEPT ![h] = M])
  <2>1. \A g \in Heads \ {h} : M \cap L[g] = {}
    BY <1>1
  <2>2. \A g \in Heads \ {h} : \A x \in L[g] \cup {g} : u.next[x] = m.next[x]
    BY <1>6, <1>8
  <2>3. \A g \in Heads \ {h} : \A x \in L[g] : u.prev[x] = m.prev[x]
    BY <1>6, <1>8
  <2>. HIDE DEF M
  <2>. QED  BY <1>5, <1>7, <2>1, <2>2, <2>3, ListsChanged
<1>10. /\ u.slab[r] = v /\ \A x \in Pages \ {r} : u.slab[x] = m.slab[x]
       /\ \A x \in Pages \ (L[h] \cup {r}) : u.next[x] = m.next[x]
  BY <1>2, <1>6, HeadsNotPages
<1>. QED  BY <1>9, <1>10 DEF u, M

LEMMA UnlistedLists ==
  ASSUME NEW m, NEW L, Lists(m, L), NEW S \in SUBSET Pages, \A x \in S : ~IsListed(L, x), NEW v \in Int
  PROVE  LET u == Unlisted(m, S, v) IN
         /\ Lists(u, L)
         /\ \A x \in S : u.slab[x] = v /\ u.next[x] = Null
         /\ \A x \in Nodes \ S : u.slab[x] = m.slab[x] /\ u.next[x] = m.next[x] /\ u.prev[x] = m.prev[x]
<1>. DEFINE u == Unlisted(m, S, v)
<1>1. /\ m \in [slab : [Nodes -> Int], next : [Nodes -> Int], prev : [Nodes -> Int]]
      /\ \A g \in Heads : L[g] \subseteq Pages /\ L[g] \cap S = {} /\ g \notin S
  BY HeadsNotPages DEF Lists, IsListed
<1>2. u \in [slab : [Nodes -> Int], next : [Nodes -> Int], prev : [Nodes -> Int]]
  BY <1>1, Codes DEF Unlisted
<1>3. /\ \A x \in S : u.slab[x] = v /\ u.next[x] = Null
      /\ \A x \in Nodes \ S : u.slab[x] = m.slab[x] /\ u.next[x] = m.next[x] /\ u.prev[x] = m.prev[x]
  BY HeadsNotPages DEF Unlisted
<1>. HIDE DEF u
<1>4. Lists(u, L)
  <2>1. \A g \in Heads : \A x \in L[g] \cup {g} : x \in Nodes \ S
    BY <1>1, HeadsNotPages
  <2>. QED  BY <1>2, <1>3, <2>1, ListsKept
<1>. QED  BY <1>3, <1>4 DEF u

LEMMA ZeroedLists ==
  ASSUME NEW m, NEW L, Lists(m, L), NEW S \in SUBSET Pages, \A x \in S : ~IsListed(L, x)
  PROVE  LET u == Zeroed(m, S) IN
         /\ Lists(u, L)
         /\ \A x \in S : u.slab[x] = 0 /\ u.next[x] = Null
         /\ \A x \in Nodes \ S : u.slab[x] = m.slab[x] /\ u.next[x] = m.next[x] /\ u.prev[x] = m.prev[x]
<1>. DEFINE v == 0
<1>1. v \in Int /\ Zeroed(m, S) = Unlisted(m, S, v)
  BY DEF Zeroed
<1>. HIDE DEF v
<1>2. LET u == Unlisted(m, S, v) IN
      /\ Lists(u, L)
      /\ \A x \in S : u.slab[x] = v /\ u.next[x] = Null
      /\ \A x \in Nodes \ S : u.slab[x] = m.slab[x] /\ u.next[x] = m.next[x] /\ u.prev[x] = m.prev[x]
  BY <1>1, UnlistedLists
<1>. QED  BY <1>1, <1>2 DEF v

(* slab is no part of the lists.                                            *)
LEMMA SlabLists ==
  ASSUME NEW m, NEW L, Lists(m, L), NEW p, NEW v \in Int
  PROVE  Lists([m EXCEPT !.slab[p] = v], L)
<1>. DEFINE u == [m EXCEPT !.slab[p] = v]
<1>1. /\ u \in [slab : [Nodes -> Int], next : [Nodes -> Int], prev : [Nodes -> Int]]
      /\ u.next = m.next /\ u.prev = m.prev
  BY DEF Lists
<1>. HIDE DEF u
<1>2. Lists(u, L)
  BY <1>1, ListsKept
<1>. QED  BY <1>2 DEF u

-----------------------------------------------------------------------------
(* Free runs.                                                              *)

InRun(slab, g, p) == g <= p /\ p < g + slab[g]

(* The pages F are the runs that begin at the pages G.                      *)
Runs(slab, F, G) ==
  /\ G \subseteq F /\ F \subseteq Pages
  /\ \A g \in G : slab[g] \in Nat /\ slab[g] >= 1
  /\ \A g \in G : \A p \in Int : InRun(slab, g, p) => p \in F /\ (p \in G => p = g)
  /\ \A p \in F : \E g \in G : InRun(slab, g, p)
  /\ \A p \in F \ G : slab[p] = 0

(* No run is followed by another.                                           *)
Apart(slab, F, G) == \A g \in G : g + slab[g] \notin F

LEMMA OneRun ==
  ASSUME NEW slab, NEW F, NEW G, Runs(slab, F, G), NEW p \in Int, NEW g \in G, NEW h \in G,
         InRun(slab, g, p), InRun(slab, h, p)
  PROVE  g = h
<1>1. g \in Int /\ h \in Int /\ slab[g] \in Int /\ slab[h] \in Int
  BY HeadsNotPages DEF Runs
<1>2. CASE g <= h
  <2>1. InRun(slab, g, h)
    BY <1>1, <1>2 DEF InRun
  <2>. QED  BY <1>1, <2>1 DEF Runs
<1>3. CASE h <= g
  <2>1. InRun(slab, h, g)
    BY <1>1, <1>3 DEF InRun
  <2>. QED  BY <1>1, <2>1 DEF Runs
<1>. QED  BY <1>1, <1>2, <1>3

LEMMA RunsJoined ==
  ASSUME NEW slab, NEW F, NEW G, Runs(slab, F, G), NEW a \in G, NEW b \in G, a + slab[a] = b,
         NEW s2, s2[a] = slab[a] + slab[b], s2[b] = 0, \A x \in F \ {a, b} : s2[x] = slab[x]
  PROVE  Runs(s2, F, G \ {b})
<1>1. /\ a \in Int /\ b \in Int /\ slab[a] \in Nat /\ slab[b] \in Nat /\ slab[a] >= 1 /\ slab[b] >= 1
      /\ G \subseteq F /\ F \subseteq Pages /\ F \subseteq Int /\ a # b
  BY HeadsNotPages DEF Runs
<1>2. \A p \in Int : InRun(s2, a, p) <=> InRun(slab, a, p) \/ InRun(slab, b, p)
  BY <1>1 DEF InRun
<1>3. \A g \in G \ {a, b} : s2[g] = slab[g] /\ \A p \in Int : InRun(s2, g, p) <=> InRun(slab, g, p)
  BY <1>1 DEF InRun
<1>4. \A g \in G \ {b} : s2[g] \in Nat /\ s2[g] >= 1
  BY <1>1, <1>3 DEF Runs
<1>5. ASSUME NEW g \in G \ {b}, NEW p \in Int, InRun(s2, g, p)
      PROVE  p \in F /\ (p \in G \ {b} => p = g)
  <2>1. CASE g # a
    BY <1>3, <1>5, <2>1 DEF Runs
  <2>2. CASE g = a
    BY <1>2, <1>5, <2>2 DEF Runs
  <2>. QED  BY <2>1, <2>2
<1>6. ASSUME NEW p \in F PROVE \E g \in G \ {b} : InRun(s2, g, p)
  <2>1. PICK g \in G : InRun(slab, g, p)
    BY DEF Runs
  <2>. QED  BY <2>1, <1>1, <1>2, <1>3
<1>7. \A p \in F \ (G \ {b}) : s2[p] = 0
  BY <1>1 DEF Runs
<1>. QED  BY <1>1, <1>4, <1>5, <1>6, <1>7 DEF Runs

LEMMA RunAdded ==
  ASSUME NEW slab, NEW F, NEW G, Runs(slab, F, G), NEW page \in Pages, NEW n \in Nat, n >= 1,
         page .. page + n - 1 \subseteq Pages, (page .. page + n - 1) \cap F = {},
         NEW s2, s2[page] = n, \A x \in page + 1 .. page + n - 1 : s2[x] = 0,
         \A x \in F : s2[x] = slab[x]
  PROVE  Runs(s2, F \cup (page .. page + n - 1), G \cup {page})
<1>. DEFINE run == page .. page + n - 1
<1>1. page \in Int /\ G \subseteq F /\ F \subseteq Pages /\ F \subseteq Int
  BY HeadsNotPages DEF Runs
<1>2. \A p \in Int : InRun(s2, page, p) <=> p \in run
  BY <1>1 DEF InRun
<1>3. \A g \in G : s2[g] = slab[g] /\ \A p \in Int : InRun(s2, g, p) <=> InRun(slab, g, p)
  BY <1>1 DEF InRun
<1>4. page \in run
  BY <1>1
<1>5. \A x \in run : x # page => x \in page + 1 .. page + n - 1
  BY <1>1
<1>. HIDE DEF run
<1>6. \A g \in G \cup {page} : s2[g] \in Nat /\ s2[g] >= 1
  BY <1>3 DEF Runs
<1>7. ASSUME NEW g \in G \cup {page}, NEW p \in Int, InRun(s2, g, p)
      PROVE  p \in F \cup run /\ (p \in G \cup {page} => p = g)
  <2>1. CASE g \in G
    <3>1. p \in F /\ (p \in G => p = g)
      BY <1>3, <1>7, <2>1 DEF Runs
    <3>. QED  BY <3>1, <1>4 DEF run
  <2>2. CASE g = page
    BY <1>1, <1>2, <1>7, <2>2 DEF run
  <2>. QED  BY <2>1, <2>2
<1>8. ASSUME NEW p \in F \cup run PROVE \E g \in G \cup {page} : InRun(s2, g, p)
  <2>1. CASE p \in F
    <3>1. PICK g \in G : InRun(slab, g, p)
      BY <2>1 DEF Runs
    <3>. QED  BY <3>1, <2>1, <1>1, <1>3
  <2>2. CASE p \in run
    BY <2>2, <1>2, HeadsNotPages DEF run
  <2>. QED  BY <2>1, <2>2
<1>9. \A p \in (F \cup run) \ (G \cup {page}) : s2[p] = 0
  BY <1>5 DEF Runs
<1>10. F \cup run \subseteq Pages /\ G \cup {page} \subseteq F \cup run
  BY <1>1, <1>4 DEF run
<1>11. Runs(s2, F \cup run, G \cup {page})
  BY <1>6, <1>7, <1>8, <1>9, <1>10 DEF Runs
<1>. QED  BY <1>11 DEF run

LEMMA RunDropped ==
  ASSUME NEW slab, NEW F, NEW G, Runs(slab, F, G), NEW page \in G, NEW n, n = slab[page],
         NEW s2, \A x \in F \ (page .. page + n - 1) : s2[x] = slab[x]
  PROVE  Runs(s2, F \ (page .. page + n - 1), G \ {page})
<1>. DEFINE run == page .. page + n - 1
<1>1. page \in Int /\ n \in Nat /\ n >= 1 /\ G \subseteq F /\ F \subseteq Pages /\ F \subseteq Int
  BY HeadsNotPages DEF Runs
<1>2. \A p \in Int : InRun(slab, page, p) <=> p \in run
  BY <1>1 DEF InRun
<1>3. \A g \in G \ {page} : g \in F \ run
  BY <1>1, <1>2 DEF Runs
<1>4. \A g \in G \ {page} : s2[g] = slab[g] /\ \A p \in Int : InRun(s2, g, p) <=> InRun(slab, g, p)
  BY <1>1, <1>3 DEF InRun, run
<1>4a. \A x \in F \ run : s2[x] = slab[x]
  BY DEF run
<1>4b. page \in run
  BY <1>1
<1>. HIDE DEF run
<1>5. \A g \in G \ {page} : s2[g] \in Nat /\ s2[g] >= 1
  BY <1>4 DEF Runs
<1>6. ASSUME NEW g \in G \ {page}, NEW p \in Int, InRun(s2, g, p)
      PROVE  p \in F \ run /\ (p \in G \ {page} => p = g)
  <2>1. InRun(slab, g, p)
    BY <1>4, <1>6
  <2>2. p \notin run
    BY <2>1, <1>2, OneRun
  <2>. QED  BY <2>1, <2>2 DEF Runs
<1>7. ASSUME NEW p \in F \ run PROVE \E g \in G \ {page} : InRun(s2, g, p)
  <2>1. PICK g \in G : InRun(slab, g, p)
    BY DEF Runs
  <2>. QED  BY <2>1, <1>1, <1>2, <1>4
<1>8. \A p \in (F \ run) \ (G \ {page}) : s2[p] = 0
  BY <1>4a, <1>4b DEF Runs
<1>9. Runs(s2, F \ run, G \ {page})
  BY <1>1, <1>3, <1>5, <1>6, <1>7, <1>8 DEF Runs
<1>. QED  BY <1>9 DEF run

LEMMA RunSplit ==
  ASSUME NEW slab, NEW F, NEW G, Runs(slab, F, G), NEW page \in G, NEW n \in Nat, n >= 1, n < slab[page],
         NEW s2, s2[page + n] = slab[page] - n,
         \A x \in F \ (page .. page + n) : s2[x] = slab[x]
  PROVE  Runs(s2, F \ (page .. page + n - 1), (G \ {page}) \cup {page + n})
<1>. DEFINE run == page .. page + n - 1
            r == page + n
            H == (G \ {page}) \cup {r}
<1>1. /\ page \in Int /\ slab[page] \in Nat /\ G \subseteq F /\ F \subseteq Pages /\ F \subseteq Int /\ r \in Int
  BY HeadsNotPages DEF Runs
<1>2. \A p \in Int : InRun(slab, page, p) <=> p \in run \/ InRun(s2, r, p)
  BY <1>1 DEF InRun
<1>3. InRun(slab, page, r) /\ page \in run /\ r \notin run /\ InRun(s2, r, r)
  BY <1>1 DEF InRun
<1>3a. \A p \in Int : p \in run => ~InRun(s2, r, p)
  BY <1>1 DEF InRun
<1>4. \A x \in F \ run : x # r => s2[x] = slab[x]
  BY <1>1
<1>4a. s2[r] \in Nat /\ s2[r] >= 1
  BY <1>1
<1>. HIDE DEF run, r
<1>5. r \in F /\ r \notin G
  BY <1>1, <1>3 DEF Runs
<1>6. ASSUME NEW g \in G \ {page} PROVE g \in F \ run /\ g # r /\ ~InRun(slab, page, g)
  BY <1>1, <1>2, <1>3, <1>5 DEF Runs
<1>7. ASSUME NEW g \in G \ {page}, NEW p \in Int PROVE InRun(s2, g, p) <=> InRun(slab, g, p)
  <2>1. s2[g] = slab[g]
    BY <1>6, <1>4
  <2>. QED  BY <2>1 DEF InRun
<1>8. \A g \in H : s2[g] \in Nat /\ s2[g] >= 1
  BY <1>4, <1>4a, <1>6 DEF Runs
<1>9. ASSUME NEW g \in H, NEW p \in Int, InRun(s2, g, p)
      PROVE  p \in F \ run /\ (p \in H => p = g)
  <2>1. CASE g # r
    <3>1. InRun(slab, g, p)
      BY <1>7, <1>9, <2>1
    <3>2. ~InRun(slab, page, p)
      BY <3>1, <2>1, OneRun
    <3>. QED  BY <3>1, <3>2, <1>2, <1>3, <2>1 DEF Runs
  <2>2. CASE g = r
    <3>1. InRun(slab, page, p)
      BY <1>2, <1>9, <2>2
    <3>2. p \in F /\ (p \in G => p = page)
      BY <3>1 DEF Runs
    <3>. QED  BY <3>1, <3>2, <1>3a, <1>9, <2>2
  <2>. QED  BY <2>1, <2>2
<1>10. ASSUME NEW p \in F \ run PROVE \E g \in H : InRun(s2, g, p)
  <2>1. PICK g \in G : InRun(slab, g, p)
    BY DEF Runs
  <2>. QED  BY <2>1, <1>1, <1>2, <1>7
<1>11. \A p \in (F \ run) \ H : s2[p] = 0
  BY <1>3, <1>4 DEF Runs
<1>12. H \subseteq F \ run /\ F \ run \subseteq Pages
  BY <1>1, <1>3, <1>5, <1>6
<1>. HIDE DEF H
<1>13. Runs(s2, F \ run, H)
  BY <1>8, <1>9, <1>10, <1>11, <1>12 DEF Runs
<1>. QED  BY <1>13 DEF H, run, r

-----------------------------------------------------------------------------
(* The descriptors, when the pages F are free.                             *)

Sound(m, F, L) ==
  /\ Lists(m, L)
  /\ Runs(m.slab, F, L[FreeHead])
  /\ \A h \in Heads \ {FreeHead} : L[h] \cap F = {}
  /\ \A x \in Pages \ F : m.slab[x] # 0 /\ (m.next[x] = Null \/ IsListed(L, x))

LEMMA ListedNext ==
  ASSUME NEW m, NEW L, Lists(m, L), NEW x, IsListed(L, x)
  PROVE  m.next[x] # Null
<1>1. PICK h \in Heads : x \in L[h]
  BY DEF IsListed
<1>2. IsList(m.next, m.prev, h, L[h])
  BY DEF Lists
<1>3. m.next[x] \in L[h] \cup {h} /\ L[h] \subseteq Pages
  BY <1>1, <1>2 DEF IsList
<1>. QED  BY <1>3, HeadsNotPages

(* slab_empty tells the free pages from the others.                        *)
LEMMA SlabEmptyFree ==
  ASSUME NEW m, NEW F, NEW L, Sound(m, F, L), NEW x \in Pages
  PROVE  SlabEmpty(m, x) <=> x \in F
<1>1. CASE x \in F \ L[FreeHead]
  BY <1>1 DEF Sound, Runs, SlabEmpty
<1>2. CASE x \in L[FreeHead]
  <2>1. IsList(m.next, m.prev, FreeHead, L[FreeHead]) /\ Lists(m, L) /\ IsListed(L, x)
    BY <1>2, HeadsNotPages DEF Sound, Lists, IsListed
  <2>2. \E q \in Reached(m.prev, x) : m.prev[q] = FreeHead
    <3>1. FreeHead \notin Pages
      BY HeadsNotPages
    <3>2. IsList(m.next, m.prev, FreeHead, L[FreeHead])
      BY <2>1
    <3>. QED  BY <1>2, <3>1, <3>2, ListBack
  <2>3. m.next[x] # Null
    BY <2>1, ListedNext
  <2>4. x \in F
    BY <1>2 DEF Sound, Runs
  <2>. QED  BY <2>2, <2>3, <2>4 DEF SlabEmpty
<1>3. CASE x \notin F
  <2>1. m.slab[x] # 0 /\ (m.next[x] = Null \/ IsListed(L, x))
    BY <1>3 DEF Sound
  <2>2. CASE m.next[x] = Null
    BY <1>3, <2>1, <2>2 DEF SlabEmpty
  <2>3. CASE IsListed(L, x)
    <3>1. PICK h \in Heads : x \in L[h]
      BY <2>3 DEF IsListed
    <3>2. h # FreeHead /\ IsList(m.next, m.prev, h, L[h])
      BY <3>1, <1>3 DEF Sound, Runs, Lists
    <3>3. \A q \in Reached(m.prev, x) : m.prev[q] \in Pages \cup {h}
      BY <3>1, <3>2, ListBack, HeadsNotPages
    <3>4. \A q \in Reached(m.prev, x) : m.prev[q] # FreeHead
      BY <3>2, <3>3, HeadsNotPages
    <3>. QED  BY <1>3, <2>1, <3>4 DEF SlabEmpty
  <2>. QED  BY <2>1, <2>2, <2>3
<1>4. L[FreeHead] \subseteq F
  BY DEF Sound, Runs
<1>. QED  BY <1>1, <1>2, <1>3, <1>4

(* The run at b, which follows that at a, joins it.                        *)
Joined(m, a, b) == Zeroed([Unlinked(m, b) EXCEPT !.slab[a] = @ + m.slab[b]], {b})

LEMMA JoinedSound ==
  ASSUME NEW m, NEW F, NEW L, Sound(m, F, L), NEW a \in L[FreeHead], NEW b \in L[FreeHead],
         a + m.slab[a] = b
  PROVE  LET u == Joined(m, a, b) IN
         /\ Sound(u, F, [L EXCEPT ![FreeHead] = L[FreeHead] \ {b}])
         /\ u.slab[a] = m.slab[a] + m.slab[b]
         /\ \A x \in Pages \ {a, b} : u.slab[x] = m.slab[x]
<1>. DEFINE G  == L[FreeHead]
            L2 == [L EXCEPT ![FreeHead] = G \ {b}]
            m1 == Unlinked(m, b)
            m2 == [m1 EXCEPT !.slab[a] = @ + m.slab[b]]
            u  == Zeroed(m2, {b})
<1>1. /\ Lists(m, L) /\ Runs(m.slab, F, G) /\ G \subseteq Pages /\ a # b
      /\ L \in [Heads -> SUBSET Pages] /\ G \subseteq F
      /\ m.slab[a] \in Int /\ m.slab[b] \in Int
  BY HeadsNotPages DEF Sound, Lists, Runs
<1>2. /\ Lists(m1, L2) /\ m1.slab = m.slab
      /\ \A x \in Pages \ G : m1.next[x] = m.next[x]
  <2>1. FreeHead \in Heads
    BY HeadsNotPages
  <2>2. Lists(m, L)
    BY <1>1
  <2>. QED  BY <2>1, <2>2, UnlinkedLists
<1>3. m.slab[a] + m.slab[b] \in Int
  BY <1>1
<1>4. m2 = [m1 EXCEPT !.slab[a] = m.slab[a] + m.slab[b]]
  BY <1>1, <1>2 DEF Lists
<1>5. Lists(m2, L2)
  BY <1>2, <1>3, <1>4, SlabLists
<1>6. /\ m2.next = m1.next
      /\ m2.slab[a] = m.slab[a] + m.slab[b]
      /\ \A x \in Pages \ {a} : m2.slab[x] = m.slab[x]
  BY <1>1, <1>2, <1>4, HeadsNotPages DEF Lists
<1>7. ~IsListed(L2, b)
  <2>1. \A h \in Heads \ {FreeHead} : L2[h] = L[h] /\ b \notin L[h]
    BY <1>1, HeadsNotPages DEF Lists
  <2>2. b \notin L2[FreeHead]
    BY <1>1, HeadsNotPages
  <2>. QED  BY <2>1, <2>2 DEF IsListed
<1>. HIDE DEF m1, m2
<1>8. /\ Lists(u, L2)
      /\ u.slab[b] = 0
      /\ \A x \in Nodes \ {b} : u.slab[x] = m2.slab[x] /\ u.next[x] = m2.next[x]
  <2>. DEFINE S == {b}
  <2>1. S \in SUBSET Pages
    BY <1>1
  <2>1a. \A x \in S : ~IsListed(L2, x)
    BY <1>7
  <2>2. b \in S /\ \A x \in Nodes \ {b} : x \in Nodes \ S
    OBVIOUS
  <2>3. u = Zeroed(m2, S)
    OBVIOUS
  <2>. HIDE DEF u, L2, S
  <2>4. /\ Lists(u, L2)
        /\ \A x \in S : u.slab[x] = 0 /\ u.next[x] = Null
        /\ \A x \in Nodes \ S : u.slab[x] = m2.slab[x] /\ u.next[x] = m2.next[x] /\ u.prev[x] = m2.prev[x]
    BY <1>5, <2>1, <2>1a, <2>3, ZeroedLists
  <2>. QED  BY <2>2, <2>4
<1>. HIDE DEF u
<1>9. u.slab[a] = m.slab[a] + m.slab[b] /\ \A x \in Pages \ {a, b} : u.slab[x] = m.slab[x]
  BY <1>1, <1>6, <1>8, HeadsNotPages
<1>10. Runs(u.slab, F, G \ {b})
  <2>1. \A x \in F \ {a, b} : u.slab[x] = m.slab[x]
    BY <1>1, <1>9 DEF Runs
  <2>. QED  BY <1>1, <1>8, <1>9, <2>1, RunsJoined
<1>11. L2[FreeHead] = G \ {b} /\ \A h \in Heads \ {FreeHead} : L2[h] = L[h]
  BY <1>1, HeadsNotPages
<1>12. ASSUME NEW x \in Pages \ F PROVE u.slab[x] # 0 /\ (u.next[x] = Null \/ IsListed(L2, x))
  <2>1. x \notin G /\ x # a /\ x # b
    BY <1>1
  <2>2. u.slab[x] = m.slab[x] /\ u.next[x] = m.next[x]
    BY <2>1, <1>9, <1>8, <1>6, <1>2, HeadsNotPages
  <2>3. IsListed(L, x) => IsListed(L2, x)
    BY <2>1, <1>11 DEF IsListed
  <2>. QED  BY <2>2, <2>3 DEF Sound
<1>. HIDE DEF L2
<1>13. Sound(u, F, L2)
  BY <1>8, <1>10, <1>11, <1>12 DEF Sound
<1>. QED  BY <1>9, <1>13 DEF u, L2, m2, m1, Joined, G

LEMMA RunBeforeIs ==
  ASSUME NEW m, NEW F, NEW L, Sound(m, F, L), NEW page \in L[FreeHead], page - 1 \in F
  PROVE  /\ RunBefore(m, page) \in L[FreeHead]
         /\ RunBefore(m, page) + m.slab[RunBefore(m, page)] = page
<1>. DEFINE G == L[FreeHead]
            P(q) == m.slab[q] # 0 /\ \A p \in q + 1 .. page - 1 : m.slab[p] = 0
<1>1. Runs(m.slab, F, G) /\ page \in Int /\ F \subseteq Pages /\ G \subseteq F
  BY HeadsNotPages DEF Sound, Runs
<1>2. PICK g \in G : InRun(m.slab, g, page - 1)
  BY <1>1 DEF Runs
<1>3. /\ g \in Int /\ m.slab[g] \in Nat /\ m.slab[g] >= 1 /\ g >= 1
  <2>1. g \in Pages
    BY <1>1, <1>2
  <2>. QED  BY <1>1, <1>2, <2>1, HeadsNotPages DEF Runs, Pages
<1>4. g <= page - 1 /\ page - 1 < g + m.slab[g]
  BY <1>2 DEF InRun
<1>5. g # page
  BY <1>1, <1>3, <1>4
<1>6. ~InRun(m.slab, g, page)
  BY <1>1, <1>2, <1>5 DEF Runs
<1>7. g + m.slab[g] = page
  BY <1>1, <1>3, <1>4, <1>6 DEF InRun
<1>8. ASSUME NEW p \in g + 1 .. page - 1 PROVE m.slab[p] = 0
  <2>1. p \in Int /\ InRun(m.slab, g, p) /\ p # g
    BY <1>1, <1>3, <1>7 DEF InRun
  <2>2. p \in F /\ p \notin G
    BY <1>1, <2>1, <1>2 DEF Runs
  <2>. QED  BY <1>1, <2>2 DEF Runs
<1>9. g \in 1 .. page - 1 /\ P(g)
  BY <1>1, <1>3, <1>4, <1>8
<1>10. ASSUME NEW q \in 1 .. page - 1, P(q) PROVE q = g
  <2>1. CASE q < g
    <3>1. g \in q + 1 .. page - 1
      BY <2>1, <1>9
    <3>. QED  BY <3>1, <1>10, <1>3
  <2>2. CASE q > g
    <3>1. q \in g + 1 .. page - 1
      BY <2>2, <1>3
    <3>. QED  BY <3>1, <1>8, <1>10
  <2>. QED  BY <2>1, <2>2, <1>3
<1>. DEFINE q == CHOOSE q \in 1 .. page - 1 : P(q)
<1>. HIDE DEF P
<1>11. q = g
  BY <1>9, <1>10
<1>12. RunBefore(m, page) = g
  BY <1>11 DEF RunBefore, P
<1>. QED  BY <1>2, <1>7, <1>12

LEMMA MergedBackJoins ==
  ASSUME NEW m, NEW L, Lists(m, L), NEW page, m.prev[page] = FreeHead
  PROVE  MergedBack(m, page) = Joined(m, RunBefore(m, page), page)
<1>. DEFINE q == RunBefore(m, page)
<1>1. m \in [slab : [Nodes -> Int], next : [Nodes -> Int], prev : [Nodes -> Int]]
  BY DEF Lists
<1>. HIDE DEF q
<1>2. [m EXCEPT !.slab[q] = @ + m.slab[page], !.next[FreeHead] = m.next[page],
                !.prev[m.next[page]] = FreeHead]
        = [Unlinked(m, page) EXCEPT !.slab[q] = @ + m.slab[page]]
  BY <1>1 DEF Unlinked
<1>3. MergedBack(m, page) = Joined(m, q, page)
  BY <1>2 DEF MergedBack, Joined, q
<1>. QED  BY <1>3 DEF q

LEMMA MergedForwardJoins ==
  ASSUME NEW m, NEW page
  PROVE  MergedForward(m, page) = Joined(m, page, page + m.slab[page])
BY DEF MergedForward, Joined

(* page, which is in no list but that of a class, is put into that of the  *)
(* free runs: it is the head of one of n pages, which may adjoin others.   *)
Freed(m, page, n) ==
  LET cleared == Zeroed(m, page + 1 .. page + n - 1)
      out == IF cleared.next[page] # Null THEN Unlinked(cleared, page) ELSE cleared
  IN [Pushed(out, FreeHead, page) EXCEPT !.slab[page] = n]

FreedLists(L, page, L1) ==
  /\ L1 \in [Heads -> SUBSET Pages]
  /\ L1[FreeHead] = L[FreeHead] \cup {page}
  /\ \A h \in Heads \ {FreeHead} : L1[h] = L[h] \ {page}

(* A run of n pages that begins at page is out of use.                      *)
Returnable(m, F, L, page, n) ==
  /\ Sound(m, F, L) /\ Apart(m.slab, F, L[FreeHead])
  /\ page \in Pages /\ n \in Nat /\ n >= 1 /\ page .. page + n - 1 \subseteq Pages \ F
  /\ \A x \in page + 1 .. page + n - 1 : ~IsListed(L, x)

FreedTo(m, F, L, page, n, u, L1) ==
  LET run == page .. page + n - 1
  IN /\ Sound(u, F \cup run, L1) /\ FreedLists(L, page, L1)
     /\ u.prev[page] = FreeHead /\ u.slab[page] = n
     /\ \A x \in Pages \ run : u.slab[x] = m.slab[x]
     /\ \A g \in L1[FreeHead] : g + u.slab[g] \in F \cup run => g = page \/ g + u.slab[g] = page

LEMMA FreedSound ==
  ASSUME NEW m, NEW F, NEW L, NEW page, NEW n, Returnable(m, F, L, page, n)
  PROVE  \E L1 : FreedTo(m, F, L, page, n, Freed(m, page, n), L1)
<1>. DEFINE run == page .. page + n - 1
            more == page + 1 .. page + n - 1
            F2 == F \cup run
            G == L[FreeHead]
            cleared == Zeroed(m, more)
            out == IF cleared.next[page] # Null THEN Unlinked(cleared, page) ELSE cleared
            pushed == Pushed(out, FreeHead, page)
            u == [pushed EXCEPT !.slab[page] = n]
<1>. /\ Sound(m, F, L) /\ Apart(m.slab, F, L[FreeHead])
     /\ page \in Pages /\ n \in Nat /\ n >= 1 /\ page .. page + n - 1 \subseteq Pages \ F
     /\ \A x \in page + 1 .. page + n - 1 : ~IsListed(L, x)
  BY DEF Returnable
<1>1. /\ Lists(m, L) /\ Runs(m.slab, F, G) /\ G \subseteq F /\ F \subseteq Pages
      /\ L \in [Heads -> SUBSET Pages]
  BY DEF Sound, Lists, Runs
<1>2. /\ page \in run /\ page \notin more /\ more \subseteq run /\ run \subseteq Pages /\ run \cap F = {}
      /\ \A x \in run : x # page => x \in more
  BY HeadsNotPages
<1>. HIDE DEF run, more
<1>3. /\ Lists(cleared, L)
      /\ \A x \in more : cleared.slab[x] = 0 /\ cleared.next[x] = Null
      /\ \A x \in Nodes \ more : cleared.slab[x] = m.slab[x] /\ cleared.next[x] = m.next[x]
  <2>1. more \in SUBSET Pages
    BY <1>2
  <2>2. \A x \in more : ~IsListed(L, x)
    BY DEF more
  <2>3. Lists(m, L)
    BY <1>1
  <2>. QED  BY <2>1, <2>2, <2>3, ZeroedLists
<1>. HIDE DEF cleared
<1>4. PICK L0 : /\ Lists(out, L0) /\ out.slab = cleared.slab
                /\ L0[FreeHead] = G /\ \A h \in Heads \ {FreeHead} : L0[h] = L[h] \ {page}
                /\ \A x \in Pages \ {page} : out.next[x] = Null <=> cleared.next[x] = Null
  <2>1. CASE ~IsListed(L, page) /\ cleared.next[page] = Null
    <3>1. out = cleared
      BY <2>1
    <3>2. \A h \in Heads \ {FreeHead} : L[h] = L[h] \ {page}
      BY <2>1 DEF IsListed
    <3>. QED  BY <3>1, <3>2, <1>3
  <2>2. CASE IsListed(L, page)
    <3>1. cleared.next[page] # Null
      BY <2>2, <1>3, ListedNext
    <3>2. PICK h \in Heads : page \in L[h]
      BY <2>2 DEF IsListed
    <3>3. h # FreeHead
      BY <3>2, <1>1, <1>2
    <3>. DEFINE L0 == [L EXCEPT ![h] = L[h] \ {page}]
    <3>4. Lists(cleared, L)
      BY <1>3
    <3>5. /\ Lists(out, L0) /\ out.slab = cleared.slab
          /\ \A x \in Pages \ L[h] : out.next[x] = cleared.next[x]
      <4>1. out = Unlinked(cleared, page)
        BY <3>1
      <4>. HIDE DEF out, L0
      <4>2. LET v == Unlinked(cleared, page) IN
            /\ Lists(v, L0)
            /\ v.slab = cleared.slab
            /\ \A x \in Pages \ L[h] : v.next[x] = cleared.next[x]
        BY <3>2, <3>4, UnlinkedLists DEF L0
      <4>. QED  BY <4>1, <4>2
    <3>6. L0[FreeHead] = G
      BY <1>1, <3>3, HeadsNotPages
    <3>7. ASSUME NEW g \in Heads \ {FreeHead} PROVE L0[g] = L[g] \ {page}
      <4>1. CASE g = h
        BY <4>1, <1>1
      <4>2. CASE g # h
        <5>1. L[g] \cap L[h] = {}
          BY <4>2, <1>1 DEF Lists
        <5>. QED  BY <4>2, <5>1, <3>2, <1>1
      <4>. QED  BY <4>1, <4>2
    <3>8. ASSUME NEW x \in Pages \ {page} PROVE out.next[x] = Null <=> cleared.next[x] = Null
      <4>1. CASE x \notin L[h]
        BY <3>5, <4>1
      <4>2. CASE x \in L[h]
        <5>1. L0[h] = L[h] \ {page}
          BY <1>1
        <5>2. IsListed(L0, x) /\ IsListed(L, x)
          BY <4>2, <5>1 DEF IsListed
        <5>. HIDE DEF L0, out
        <5>3. out.next[x] # Null
          BY <5>2, <3>5, ListedNext
        <5>4. cleared.next[x] # Null
          BY <5>2, <3>4, ListedNext
        <5>. QED  BY <5>3, <5>4
      <4>. QED  BY <4>1, <4>2
    <3>. HIDE DEF L0, out
    <3>. QED  BY <3>5, <3>6, <3>7, <3>8
  <2>3. IsListed(L, page) \/ cleared.next[page] = Null
    <3>1. page \in Pages \ F
      BY <1>2
    <3>2. cleared.next[page] = m.next[page]
      BY <1>2, <1>3, HeadsNotPages
    <3>. QED  BY <3>1, <3>2 DEF Sound
  <2>. QED  BY <2>1, <2>2, <2>3
<1>. HIDE DEF out
<1>5. ~IsListed(L0, page)
  BY <1>1, <1>2, <1>4 DEF IsListed
<1>. DEFINE L1 == [L0 EXCEPT ![FreeHead] = L0[FreeHead] \cup {page}]
<1>6. /\ Lists(pushed, L1) /\ pushed.slab = out.slab
      /\ \A x \in Pages \ {page} : pushed.next[x] = out.next[x]
      /\ pushed.prev[page] = FreeHead
  <2>1. Lists(out, L0)
    BY <1>4
  <2>2. FreeHead \in Heads
    BY HeadsNotPages
  <2>. QED  BY <2>1, <2>2, <1>5, PushedLists
<1>7. FreedLists(L, page, L1)
  <2>1. L0 \in [Heads -> SUBSET Pages]
    BY <1>4 DEF Lists
  <2>. QED  BY <2>1, <1>4, HeadsNotPages DEF FreedLists
<1>. HIDE DEF pushed, L1
<1>8. Lists(u, L1)
  <2>1. n \in Int
    OBVIOUS
  <2>. QED  BY <2>1, <1>6, SlabLists
<1>9. /\ u.slab[page] = n /\ u.prev[page] = FreeHead /\ u.next = pushed.next
      /\ \A x \in Pages \ {page} : u.slab[x] = cleared.slab[x]
  <2>1. /\ pushed \in [slab : [Nodes -> Int], next : [Nodes -> Int], prev : [Nodes -> Int]]
    BY <1>6 DEF Lists
  <2>. QED  BY <2>1, <1>4, <1>6, HeadsNotPages
<1>. HIDE DEF u
<1>10. \A x \in Pages \ run : u.slab[x] = m.slab[x]
  BY <1>2, <1>3, <1>9, HeadsNotPages
<1>11. Runs(u.slab, F2, G \cup {page})
  <2>1. \A x \in page + 1 .. page + n - 1 : u.slab[x] = 0
    BY <1>2, <1>3, <1>9 DEF more
  <2>2. \A x \in F : u.slab[x] = m.slab[x]
    BY <1>1, <1>2, <1>10
  <2>3. Runs(m.slab, F, G) /\ u.slab[page] = n
    BY <1>1, <1>9
  <2>4. page .. page + n - 1 \subseteq Pages /\ (page .. page + n - 1) \cap F = {}
    OBVIOUS
  <2>. HIDE DEF G, F2
  <2>5. Runs(u.slab, F \cup (page .. page + n - 1), G \cup {page})
    BY <2>1, <2>2, <2>3, <2>4, RunAdded
  <2>. QED  BY <2>5 DEF run, F2
<1>12. \A h \in Heads \ {FreeHead} : L1[h] \cap F2 = {}
  <2>1. ASSUME NEW h \in Heads \ {FreeHead}, NEW x \in L1[h] PROVE x \notin F2
    <3>1. x \in L[h] /\ x # page
      BY <1>7, <2>1 DEF FreedLists
    <3>2. x \notin F /\ x \notin more
      BY <3>1 DEF Sound, more, IsListed
    <3>. QED  BY <3>1, <3>2, <1>2
  <2>. QED  BY <2>1
<1>13. ASSUME NEW x \in Pages \ F2 PROVE u.slab[x] # 0 /\ (u.next[x] = Null \/ IsListed(L1, x))
  <2>1. x \in Pages \ F /\ x \notin run /\ x # page /\ x \notin more
    BY <1>2
  <2>2. m.slab[x] # 0 /\ (m.next[x] = Null \/ IsListed(L, x))
    BY <2>1 DEF Sound
  <2>3. u.next[x] = Null <=> m.next[x] = Null
    BY <2>1, <1>3, <1>4, <1>6, <1>9, HeadsNotPages
  <2>4. IsListed(L, x) => IsListed(L1, x)
    BY <2>1, <1>7 DEF IsListed, FreedLists
  <2>. QED  BY <2>1, <2>2, <2>3, <2>4, <1>10
<1>14. Sound(u, F2, L1)
  <2>1. L1[FreeHead] = G \cup {page}
    BY <1>7 DEF FreedLists
  <2>. QED  BY <2>1, <1>8, <1>11, <1>12, <1>13 DEF Sound
<1>15. ASSUME NEW g \in L1[FreeHead], g + u.slab[g] \in F2, g # page PROVE g + u.slab[g] = page
  <2>1. g \in G
    BY <1>7, <1>15 DEF FreedLists
  <2>2. u.slab[g] = m.slab[g]
    BY <2>1, <1>1, <1>2, <1>10
  <2>3. g + m.slab[g] \in run /\ g + m.slab[g] \notin F
    BY <2>1, <2>2, <1>15 DEF Apart
  <2>4. /\ g \in Int /\ m.slab[g] \in Nat /\ m.slab[g] >= 1 /\ page \in Int
        /\ g \in F
    BY <2>1, <1>1, HeadsNotPages DEF Runs
  <2>5. g + m.slab[g] - 1 \in F
    <3>1. InRun(m.slab, g, g + m.slab[g] - 1)
      BY <2>4 DEF InRun
    <3>. QED  BY <3>1, <2>1, <2>4, <1>1 DEF Runs
  <2>6. g + m.slab[g] - 1 \notin run
    BY <2>5, <1>2
  <2>7. g + m.slab[g] = page
    BY <2>3, <2>4, <2>6 DEF run
  <2>. QED  BY <2>2, <2>7
<1>16. FreedTo(m, F, L, page, n, u, L1)
  BY <1>14, <1>7, <1>9, <1>10, <1>15 DEF FreedTo, run
<1>17. u = Freed(m, page, n)
  BY DEF u, pushed, out, cleared, more, Freed
<1>. QED  BY <1>16, <1>17

LEMMA RunFollows ==
  ASSUME NEW slab, NEW F, NEW G, Runs(slab, F, G), NEW g \in G
  PROVE  /\ g \in Pages /\ slab[g] \in Nat /\ slab[g] >= 1
         /\ g + slab[g] - 1 \in F /\ InRun(slab, g, g + slab[g] - 1)
         /\ g + slab[g] \in F => g + slab[g] \in G
<1>1. g \in Pages /\ g \in Int /\ slab[g] \in Nat /\ slab[g] >= 1 /\ F \subseteq Int
  BY HeadsNotPages DEF Runs
<1>2. InRun(slab, g, g + slab[g] - 1)
  BY <1>1 DEF InRun
<1>3. g + slab[g] - 1 \in F
  BY <1>1, <1>2 DEF Runs
<1>4. ASSUME g + slab[g] \in F PROVE g + slab[g] \in G
  <2>. DEFINE r == g + slab[g]
  <2>1. PICK h \in G : InRun(slab, h, r)
    BY <1>4 DEF Runs
  <2>2. h \in Int /\ slab[h] \in Nat /\ h <= r /\ r < h + slab[h]
    BY <2>1, HeadsNotPages DEF Runs, InRun
  <2>3. h # g
    BY <2>2, <1>1
  <2>4. ~InRun(slab, h, r - 1)
    BY <1>1, <1>2, <2>3, OneRun
  <2>5. h = r
    BY <1>1, <2>2, <2>4 DEF InRun
  <2>. QED  BY <2>1, <2>5
<1>. QED  BY <1>1, <1>2, <1>3, <1>4

(* Only the run at head may be followed by another.                         *)
ApartBut(slab, F, G, head) == \A g \in G : g + slab[g] \in F => g = head

LEMMA BackSound ==
  ASSUME NEW m, NEW F, NEW L, Sound(m, F, L), NEW page \in L[FreeHead], m.prev[page] = FreeHead,
         \A g \in L[FreeHead] : g + m.slab[g] \in F => g = page \/ g + m.slab[g] = page
  PROVE  LET back == MergesBack(m, page)
             head == IF back THEN RunBefore(m, page) ELSE page
             u == IF back THEN MergedBack(m, page) ELSE m
         IN \E L1 :
              /\ Sound(u, F, L1) /\ head \in L1[FreeHead]
              /\ \A h \in Heads \ {FreeHead} : L1[h] = L[h]
              /\ \A x \in Pages \ F : u.slab[x] = m.slab[x]
              /\ ApartBut(u.slab, F, L1[FreeHead], head)
<1>. DEFINE back == MergesBack(m, page)
            head == IF back THEN RunBefore(m, page) ELSE page
            u == IF back THEN MergedBack(m, page) ELSE m
            G == L[FreeHead]
<1>1. Runs(m.slab, F, G) /\ page \in Int /\ F \subseteq Pages /\ G \subseteq F /\ page \in Pages
  BY HeadsNotPages DEF Sound, Runs
<1>2. back <=> page - 1 \in F
  <2>1. CASE page = 1
    BY <1>1, <2>1 DEF MergesBack, Pages
  <2>2. CASE page # 1
    <3>1. page - 1 \in Pages
      BY <1>1, <2>2, SlabAssumption DEF Pages
    <3>. QED  BY <2>2, <3>1, SlabEmptyFree DEF MergesBack
  <2>. QED  BY <2>1, <2>2
<1>3. CASE back
  <2>1. page - 1 \in F /\ head = RunBefore(m, page) /\ u = MergedBack(m, page)
    BY <1>2, <1>3
  <2>2. head \in G /\ head + m.slab[head] = page
    BY <2>1, RunBeforeIs
  <2>3. u = Joined(m, head, page)
    BY <2>1, MergedBackJoins DEF Sound
  <2>. DEFINE L1 == [L EXCEPT ![FreeHead] = L[FreeHead] \ {page}]
  <2>. HIDE DEF u, head
  <2>4. /\ Sound(u, F, L1)
        /\ \A x \in Pages \ {head, page} : u.slab[x] = m.slab[x]
    BY <2>2, <2>3, JoinedSound
  <2>5. L \in [Heads -> SUBSET Pages]
    BY DEF Sound, Lists
  <2>6. L1[FreeHead] = G \ {page} /\ \A h \in Heads \ {FreeHead} : L1[h] = L[h]
    BY <2>5, HeadsNotPages
  <2>7. head # page
    BY <2>2, <1>1, RunFollows
  <2>8. ASSUME NEW g \in G \ {page}, g + u.slab[g] \in F, g # head PROVE FALSE
    <3>1. g \in Pages /\ u.slab[g] = m.slab[g]
      BY <2>4, <2>8, <1>1
    <3>2. g + m.slab[g] = page
      BY <2>8, <3>1
    <3>3. InRun(m.slab, g, page - 1)
      <4>0. g \in Pages /\ m.slab[g] \in Nat
        BY <1>1, RunFollows
      <4>1. g + m.slab[g] - 1 = page - 1
        BY <4>0, <3>2, HeadsNotPages
      <4>2. InRun(m.slab, g, g + m.slab[g] - 1)
        BY <1>1, RunFollows
      <4>. QED  BY <4>1, <4>2
    <3>4. InRun(m.slab, head, page - 1)
      <4>0. head \in Pages /\ m.slab[head] \in Nat
        BY <1>1, <2>2, RunFollows
      <4>1. head + m.slab[head] - 1 = page - 1
        BY <4>0, <2>2, HeadsNotPages
      <4>2. InRun(m.slab, head, head + m.slab[head] - 1)
        BY <1>1, <2>2, RunFollows
      <4>. QED  BY <4>1, <4>2
    <3>. QED  BY <1>1, <2>2, <2>8, <3>3, <3>4, OneRun
  <2>9. \A x \in Pages \ F : u.slab[x] = m.slab[x]
    BY <2>2, <2>4, <1>1
  <2>10. head \in L1[FreeHead] /\ ApartBut(u.slab, F, L1[FreeHead], head)
    BY <2>2, <2>6, <2>7, <2>8 DEF ApartBut
  <2>. HIDE DEF L1
  <2>11. /\ Sound(u, F, L1) /\ head \in L1[FreeHead]
         /\ \A h \in Heads \ {FreeHead} : L1[h] = L[h]
         /\ \A x \in Pages \ F : u.slab[x] = m.slab[x]
         /\ ApartBut(u.slab, F, L1[FreeHead], head)
    BY <2>4, <2>6, <2>9, <2>10
  <2>. QED  BY <2>11 DEF u, head
<1>4. CASE ~back
  <2>1. head = page /\ u = m /\ page - 1 \notin F
    BY <1>2, <1>4
  <2>2. ASSUME NEW g \in G, g + m.slab[g] \in F, g # page PROVE FALSE
    <3>1. g + m.slab[g] = page
      BY <2>2
    <3>2. g + m.slab[g] - 1 = page - 1
      <4>0. g \in Pages /\ m.slab[g] \in Nat
        BY <1>1, RunFollows
      <4>. QED  BY <4>0, <3>1, HeadsNotPages
    <3>3. g + m.slab[g] - 1 \in F
      BY <1>1, RunFollows
    <3>. QED  BY <3>2, <3>3, <2>1
  <2>3. ApartBut(m.slab, F, G, page)
    BY <2>2 DEF ApartBut
  <2>. QED  BY <2>1, <2>3
<1>. QED  BY <1>3, <1>4

LEMMA ForwardSound ==
  ASSUME NEW m, NEW F, NEW L, Sound(m, F, L), NEW head \in L[FreeHead], ApartBut(m.slab, F, L[FreeHead], head)
  PROVE  LET next == head + m.slab[head]
             u == IF next <= NumPages /\ SlabEmpty(m, next) THEN MergedForward(m, head) ELSE m
         IN \E L1 :
              /\ Sound(u, F, L1)
              /\ \A h \in Heads \ {FreeHead} : L1[h] = L[h]
              /\ \A x \in Pages \ F : u.slab[x] = m.slab[x]
              /\ Apart(u.slab, F, L1[FreeHead])
<1>. DEFINE next == head + m.slab[head]
            joins == next <= NumPages /\ SlabEmpty(m, next)
            u == IF joins THEN MergedForward(m, head) ELSE m
            G == L[FreeHead]
<1>1. Runs(m.slab, F, G) /\ F \subseteq Pages /\ G \subseteq F
  BY DEF Sound, Runs
<1>2a. /\ head \in Pages /\ m.slab[head] \in Nat /\ m.slab[head] >= 1
       /\ next \in F => next \in G
  BY <1>1, RunFollows
<1>2. /\ head \in Pages /\ head \in Int /\ m.slab[head] \in Nat /\ m.slab[head] >= 1 /\ head # next
      /\ next \in F => next \in G
  BY <1>2a, HeadsNotPages
<1>3. joins <=> next \in F
  <2>1. CASE next \in Pages
    <3>1. next <= NumPages
      BY <2>1, SlabAssumption DEF Pages
    <3>. QED  BY <2>1, <3>1, SlabEmptyFree
  <2>2. CASE next \notin Pages
    <3>1. next > NumPages
      BY <1>2, <2>2, SlabAssumption DEF Pages
    <3>. QED  BY <2>2, <3>1, <1>1, <1>2, SlabAssumption
  <2>. QED  BY <2>1, <2>2
<1>4. CASE joins
  <2>1. next \in G /\ u = Joined(m, head, next)
    BY <1>2, <1>3, <1>4, MergedForwardJoins
  <2>. DEFINE L1 == [L EXCEPT ![FreeHead] = L[FreeHead] \ {next}]
              b == next
  <2>1a. head + m.slab[head] = b /\ b \in G /\ u = Joined(m, head, b)
    BY <2>1
  <2>. HIDE DEF u, b
  <2>4. /\ Sound(u, F, [L EXCEPT ![FreeHead] = L[FreeHead] \ {b}])
        /\ u.slab[head] = m.slab[head] + m.slab[b]
        /\ \A x \in Pages \ {head, b} : u.slab[x] = m.slab[x]
    BY <2>1a, JoinedSound
  <2>5. L \in [Heads -> SUBSET Pages] /\ b = next
    BY DEF Sound, Lists, b
  <2>6. L1[FreeHead] = G \ {b} /\ \A h \in Heads \ {FreeHead} : L1[h] = L[h]
    BY <2>5, HeadsNotPages
  <2>7. b \in Pages /\ b \in Int /\ m.slab[b] \in Nat /\ b # head /\ b + m.slab[b] \notin F
    BY <2>1a, <2>5, <1>1, <1>2, RunFollows, HeadsNotPages DEF ApartBut
  <2>8. ASSUME NEW g \in G \ {b} PROVE g + u.slab[g] \notin F
    <3>1. CASE g = head
      <4>1. g + u.slab[g] = b + m.slab[b]
        BY <3>1, <2>1a, <2>4, <2>7, <1>2
      <4>. QED  BY <4>1, <2>7
    <3>2. CASE g # head
      <4>1. u.slab[g] = m.slab[g]
        BY <2>8, <3>2, <2>4, <1>1
      <4>. QED  BY <4>1, <3>2 DEF ApartBut
    <3>. QED  BY <3>1, <3>2
  <2>9. \A x \in Pages \ F : u.slab[x] = m.slab[x]
    BY <2>1a, <2>4, <1>1
  <2>10. Apart(u.slab, F, L1[FreeHead])
    BY <2>6, <2>8 DEF Apart
  <2>. QED  BY <2>4, <2>5, <2>6, <2>9, <2>10 DEF u
<1>5. CASE ~joins
  <2>1. u = m /\ next \notin F
    BY <1>3, <1>5
  <2>2. Apart(m.slab, F, G)
    BY <2>1 DEF Apart, ApartBut
  <2>. QED  BY <2>1, <2>2
<1>. QED  BY <1>4, <1>5

(* free_pages gives the pages back and leaves no two runs side by side.    *)
ReturnedTo(m, F, L, page, n, u, L1) ==
  LET F2 == F \cup (page .. page + n - 1)
  IN /\ Sound(u, F2, L1) /\ Apart(u.slab, F2, L1[FreeHead])
     /\ \A h \in Heads \ {FreeHead} : L1[h] = L[h] \ {page}
     /\ \A x \in Pages \ F2 : u.slab[x] = m.slab[x]

LEMMA ReturnedSound ==
  ASSUME NEW m, NEW F, NEW L, NEW page, NEW n, Returnable(m, F, L, page, n)
  PROVE  \E L1 : ReturnedTo(m, F, L, page, n, ReturnedPages(m, page, n), L1)
<1>. DEFINE F2 == F \cup (page .. page + n - 1)
            free == Freed(m, page, n)
            back == MergesBack(free, page)
            head == IF back THEN RunBefore(free, page) ELSE page
            m1 == IF back THEN MergedBack(free, page) ELSE free
            next == head + m1.slab[head]
            u == IF next <= NumPages /\ SlabEmpty(m1, next) THEN MergedForward(m1, head) ELSE m1
<1>0. PICK L1 : FreedTo(m, F, L, page, n, free, L1)
  BY FreedSound
<1>1. /\ Sound(free, F2, L1) /\ FreedLists(L, page, L1)
      /\ free.prev[page] = FreeHead /\ free.slab[page] = n
      /\ \A x \in Pages \ (page .. page + n - 1) : free.slab[x] = m.slab[x]
      /\ \A g \in L1[FreeHead] : g + free.slab[g] \in F2 => g = page \/ g + free.slab[g] = page
  BY <1>0 DEF FreedTo
<1>2. page \in L1[FreeHead] /\ \A h \in Heads \ {FreeHead} : L1[h] = L[h] \ {page}
  BY <1>1 DEF FreedLists
<1>. HIDE DEF F2, free
<1>3. PICK L2 :
        /\ Sound(m1, F2, L2) /\ head \in L2[FreeHead]
        /\ \A h \in Heads \ {FreeHead} : L2[h] = L1[h]
        /\ \A x \in Pages \ F2 : m1.slab[x] = free.slab[x]
        /\ ApartBut(m1.slab, F2, L2[FreeHead], head)
  BY <1>1, <1>2, BackSound
<1>. HIDE DEF m1, head
<1>4. PICK L3 :
        /\ Sound(u, F2, L3)
        /\ \A h \in Heads \ {FreeHead} : L3[h] = L2[h]
        /\ \A x \in Pages \ F2 : u.slab[x] = m1.slab[x]
        /\ Apart(u.slab, F2, L3[FreeHead])
  BY <1>3, ForwardSound
<1>. HIDE DEF u
<1>5. \A x \in Pages \ F2 : u.slab[x] = m.slab[x]
  BY <1>1, <1>3, <1>4 DEF F2
<1>6. /\ Sound(u, F2, L3) /\ Apart(u.slab, F2, L3[FreeHead])
      /\ \A h \in Heads \ {FreeHead} : L3[h] = L[h] \ {page}
      /\ \A x \in Pages \ F2 : u.slab[x] = m.slab[x]
  BY <1>2, <1>3, <1>4, <1>5
<1>7. u = ReturnedPages(m, page, n)
  BY DEF u, next, m1, head, back, free, Freed, ReturnedPages
<1>. QED  BY <1>6, <1>7 DEF F2, ReturnedTo

TakenTo(m, F, L, page, n, u, L1) ==
  LET F2 == F \ (page .. page + n - 1)
  IN /\ Sound(u, F2, L1) /\ Apart(u.slab, F2, L1[FreeHead])
     /\ \A h \in Heads \ {FreeHead} : L1[h] = L[h]
     /\ \A x \in Pages \ F : u.slab[x] = m.slab[x]
     /\ u.slab[page] = Start + n /\ u.next[page] = Null
     /\ \A x \in page + 1 .. page + n - 1 : u.slab[x] = Busy
     /\ page .. page + n - 1 \subseteq F

(* The run without its first n pages, if it had more, takes its place.     *)
LEMMA CutLists ==
  ASSUME NEW m, NEW F, NEW L, Sound(m, F, L), NEW page \in L[FreeHead],
         NEW n \in Nat, n >= 1, m.slab[page] >= n
  PROVE  LET r == page + n
             rest == m.slab[page] - n
             m1 == IF rest > 0
                   THEN Replaced(m, page, r, rest)
                   ELSE Unlinked(m, page)
             H == IF rest > 0 THEN (L[FreeHead] \ {page}) \cup {r} ELSE L[FreeHead] \ {page}
         IN /\ Lists(m1, [L EXCEPT ![FreeHead] = H])
            /\ rest > 0 => r \in F /\ m1.slab[r] = rest
            /\ \A x \in Pages : (rest > 0 => x # r) => m1.slab[x] = m.slab[x]
            /\ \A x \in Pages \ F : m1.next[x] = m.next[x]
<1>. DEFINE r == page + n
            rest == m.slab[page] - n
            G == L[FreeHead]
<1>1. Runs(m.slab, F, G) /\ Lists(m, L) /\ G \subseteq F /\ F \subseteq Pages
  BY DEF Sound, Runs
<1>2. page \in Int /\ m.slab[page] \in Nat /\ r \in Int /\ rest \in Int
  <2>1. page \in Pages /\ m.slab[page] \in Nat
    BY <1>1, RunFollows
  <2>. QED  BY <2>1, HeadsNotPages
<1>3. CASE rest > 0
  <2>1. InRun(m.slab, page, r) /\ r # page
    BY <1>2, <1>3 DEF InRun
  <2>2. r \in F /\ r \notin G
    BY <1>1, <1>2, <2>1 DEF Runs
  <2>3. ~IsListed(L, r)
    <3>1. \A h \in Heads : r \notin L[h]
      BY <2>2 DEF Sound
    <3>. QED  BY <3>1 DEF IsListed
  <2>4. r \in Pages /\ FreeHead \in Heads
    BY <1>1, <2>2, HeadsNotPages
  <2>. DEFINE m1 == Replaced(m, page, r, rest)
  <2>4a. Lists(m, L) /\ rest \in Int
    BY <1>1, <1>2
  <2>. HIDE DEF r, rest
  <2>5. /\ Lists(m1, [L EXCEPT ![FreeHead] = (L[FreeHead] \ {page}) \cup {r}])
        /\ m1.slab[r] = rest /\ \A x \in Pages \ {r} : m1.slab[x] = m.slab[x]
        /\ \A x \in Pages \ (L[FreeHead] \cup {r}) : m1.next[x] = m.next[x]
    BY <2>3, <2>4, <2>4a, ReplacedLists
  <2>. HIDE DEF m1
  <2>6. \A x \in Pages \ F : m1.next[x] = m.next[x]
    BY <2>2, <2>5, <1>1
  <2>. QED  BY <1>3, <2>2, <2>5, <2>6 DEF m1, r, rest
<1>4. CASE ~(rest > 0)
  <2>1. FreeHead \in Heads
    BY HeadsNotPages
  <2>2. /\ Lists(Unlinked(m, page), [L EXCEPT ![FreeHead] = L[FreeHead] \ {page}])
        /\ Unlinked(m, page).slab = m.slab
        /\ \A x \in Pages \ L[FreeHead] : Unlinked(m, page).next[x] = m.next[x]
    <3>1. Lists(m, L)
      BY <1>1
    <3>. QED  BY <3>1, <2>1, UnlinkedLists
  <2>3. \A x \in Pages \ F : Unlinked(m, page).next[x] = m.next[x]
    BY <2>2, <1>1
  <2>. QED  BY <1>4, <2>2, <2>3
<1>. QED  BY <1>3, <1>4

(* alloc_pages takes the first pages of a run that is long enough.         *)
LEMMA TakenSound ==
  ASSUME NEW m, NEW F, NEW L, Sound(m, F, L), Apart(m.slab, F, L[FreeHead]),
         NEW page \in L[FreeHead], NEW n \in Nat, n >= 1, m.slab[page] >= n
  PROVE  \E L1 : TakenTo(m, F, L, page, n, TakenPages(m, page, n), L1)
<1>. DEFINE r == page + n
            rest == m.slab[page] - n
            G == L[FreeHead]
            run == page .. page + n - 1
            F2 == F \ run
            m1 == IF rest > 0
                  THEN Replaced(m, page, r, rest)
                  ELSE Unlinked(m, page)
            H == IF rest > 0 THEN (G \ {page}) \cup {r} ELSE G \ {page}
            L1 == [L EXCEPT ![FreeHead] = H]
            m2 == Unlisted(m1, run, Busy)
            v == Start + n
            u == [m2 EXCEPT !.slab[page] = v]
<1>1. /\ Lists(m1, L1)
      /\ rest > 0 => r \in F /\ m1.slab[r] = rest
      /\ \A x \in Pages : (rest > 0 => x # r) => m1.slab[x] = m.slab[x]
      /\ \A x \in Pages \ F : m1.next[x] = m.next[x]
  BY CutLists
<1>2. /\ Runs(m.slab, F, G) /\ Lists(m, L) /\ G \subseteq F /\ F \subseteq Pages
      /\ L \in [Heads -> SUBSET Pages]
  BY DEF Sound, Runs, Lists
<1>3. /\ page \in Int /\ m.slab[page] \in Nat /\ r \in Int /\ rest \in Int /\ rest >= 0
      /\ page \in run /\ r \notin run
  BY <1>2, RunFollows, HeadsNotPages
<1>4. \A x \in run : x \in F /\ (x \in G => x = page)
  <2>1. \A x \in run : x \in Int /\ InRun(m.slab, page, x)
    BY <1>3 DEF InRun
  <2>. QED  BY <2>1, <1>2 DEF Runs
<1>4a. \A x \in run : x # page => x \in page + 1 .. page + n - 1
  BY <1>3
<1>4b. \A x \in page + 1 .. page + n - 1 : x \in run /\ x # page
  BY <1>3
<1>. HIDE DEF m1, run
<1>5. L1[FreeHead] = H /\ \A h \in Heads \ {FreeHead} : L1[h] = L[h]
  BY <1>2, HeadsNotPages
<1>6. \A x \in run : ~IsListed(L1, x)
  <2>1. ASSUME NEW x \in run, NEW h \in Heads PROVE x \notin L1[h]
    <3>1. CASE h = FreeHead
      BY <3>1, <1>3, <1>4, <1>5
    <3>2. CASE h # FreeHead
      BY <3>2, <1>4, <1>5 DEF Sound
    <3>. QED  BY <3>1, <3>2
  <2>. QED  BY <2>1 DEF IsListed
<1>. HIDE DEF L1
<1>7. /\ Lists(m2, L1)
      /\ \A x \in run : m2.slab[x] = Busy /\ m2.next[x] = Null
      /\ \A x \in Nodes \ run : m2.slab[x] = m1.slab[x] /\ m2.next[x] = m1.next[x]
  <2>1. run \in SUBSET Pages
    BY <1>2, <1>4
  <2>2. Lists(m1, L1)
    BY <1>1
  <2>. DEFINE b == Busy
  <2>3. b \in Int /\ m2 = Unlisted(m1, run, b)
    BY Codes
  <2>. HIDE DEF b, m2
  <2>4. LET w == Unlisted(m1, run, b) IN
        /\ Lists(w, L1)
        /\ \A x \in run : w.slab[x] = b /\ w.next[x] = Null
        /\ \A x \in Nodes \ run : w.slab[x] = m1.slab[x] /\ w.next[x] = m1.next[x] /\ w.prev[x] = m1.prev[x]
    BY <2>1, <2>2, <2>3, <1>6, UnlistedLists
  <2>. QED  BY <2>3, <2>4 DEF b
<1>. HIDE DEF m2
<1>8. v \in Int /\ v > 0
  BY Codes
<1>. HIDE DEF v
<1>9. Lists(u, L1)
  <2>1. Lists(m2, L1)
    BY <1>7
  <2>. QED  BY <2>1, <1>8, SlabLists
<1>10. /\ u.slab[page] = v /\ u.next = m2.next
       /\ \A x \in Pages \ {page} : u.slab[x] = m2.slab[x]
  BY <1>7, <1>2, <1>3, HeadsNotPages DEF Lists
<1>. HIDE DEF u
<1>11. /\ \A x \in run : u.next[x] = Null
       /\ \A x \in run : x # page => u.slab[x] = Busy
       /\ \A x \in Pages \ run : u.slab[x] = m1.slab[x] /\ u.next[x] = m1.next[x]
  BY <1>2, <1>3, <1>4, <1>7, <1>10, HeadsNotPages
<1>12. Runs(u.slab, F2, H) /\ Apart(u.slab, F2, H)
  <2>1. CASE rest > 0
    <3>1. u.slab[r] = rest /\ \A x \in F2 : x # r => u.slab[x] = m.slab[x]
      BY <2>1, <1>1, <1>2, <1>3, <1>11
    <3>2. \A x \in F \ (page .. page + n) : x \in F2 /\ x # r
      BY <1>3 DEF run
    <3>3. n < m.slab[page]
      BY <1>3, <2>1
    <3>4. H = (G \ {page}) \cup {page + n} /\ u.slab[page + n] = m.slab[page] - n
      BY <2>1, <3>1
    <3>5. \A x \in F \ (page .. page + n) : u.slab[x] = m.slab[x]
      BY <3>1, <3>2
    <3>6. Runs(u.slab, F \ (page .. page + n - 1), (G \ {page}) \cup {page + n})
      BY <1>2, <3>3, <3>4, <3>5, RunSplit
    <3>7. ASSUME NEW g \in H PROVE g + u.slab[g] \notin F2
      <4>1. CASE g = r
        <5>1. g + u.slab[g] = page + m.slab[page]
          BY <4>1, <3>1, <1>3
        <5>. QED  BY <5>1 DEF Apart
      <4>2. CASE g # r
        <5>1. g \in G /\ g # page
          BY <4>2, <2>1, <3>7
        <5>2. u.slab[g] = m.slab[g]
          BY <5>1, <4>2, <1>2, <1>4, <3>1
        <5>. QED  BY <5>1, <5>2 DEF Apart
      <4>. QED  BY <4>1, <4>2
    <3>. QED  BY <3>4, <3>6, <3>7 DEF run, Apart
  <2>2. CASE ~(rest > 0)
    <3>1. n = m.slab[page]
      BY <2>2, <1>3
    <3>2. \A x \in F \ (page .. page + n - 1) : u.slab[x] = m.slab[x]
      BY <2>2, <1>1, <1>2, <1>11 DEF run
    <3>3. Runs(u.slab, F \ (page .. page + n - 1), G \ {page})
      BY <1>2, <3>1, <3>2, RunDropped
    <3>4. ASSUME NEW g \in G \ {page} PROVE g + u.slab[g] \notin F2
      <4>1. g \in F /\ g \notin run
        BY <1>2, <1>4
      <4>2. u.slab[g] = m.slab[g]
        BY <4>1, <3>2 DEF run
      <4>. QED  BY <4>2 DEF Apart
    <3>. QED  BY <2>2, <3>3, <3>4 DEF run, Apart
  <2>. QED  BY <2>1, <2>2
<1>13. ASSUME NEW x \in Pages \ F
       PROVE  /\ u.slab[x] = m.slab[x] /\ u.slab[x] # 0 /\ u.next[x] = m.next[x]
              /\ (IsListed(L, x) => IsListed(L1, x))
  <2>1. x \notin run /\ (rest > 0 => x # r) /\ x \notin G
    BY <1>1, <1>2, <1>4
  <2>2. u.slab[x] = m.slab[x] /\ u.next[x] = m.next[x]
    BY <2>1, <1>1, <1>11
  <2>3. IsListed(L, x) => IsListed(L1, x)
    BY <2>1, <1>5 DEF IsListed
  <2>4. m.slab[x] # 0
    BY DEF Sound
  <2>. QED  BY <2>2, <2>3, <2>4
<1>14. ASSUME NEW x \in Pages \ F2 PROVE u.slab[x] # 0 /\ (u.next[x] = Null \/ IsListed(L1, x))
  <2>1. CASE x \in run
    BY <2>1, <1>8, <1>10, <1>11, Codes
  <2>2. CASE x \notin run
    <3>1. m.next[x] = Null \/ IsListed(L, x)
      BY <2>2 DEF Sound
    <3>. QED  BY <2>2, <3>1, <1>13
  <2>. QED  BY <2>1, <2>2
<1>15. Sound(u, F2, L1)
  <2>1. \A h \in Heads \ {FreeHead} : L1[h] \cap F2 = {}
    BY <1>5 DEF Sound
  <2>. HIDE DEF F2, H
  <2>. QED  BY <2>1, <1>5, <1>9, <1>12, <1>14 DEF Sound
<1>. HIDE DEF H
<1>16. TakenTo(m, F, L, page, n, u, L1)
  BY <1>15, <1>12, <1>5, <1>13, <1>10, <1>11, <1>3, <1>4, <1>4b DEF TakenTo, run, v
<1>17. u = TakenPages(m, page, n)
  BY DEF u, m2, v, run, m1, TakenPages, Replaced
<1>. QED  BY <1>16, <1>17

-----------------------------------------------------------------------------
(* The allocator.                                                          *)

Free == Pages \ Taken

HoldsPages(h) ==
  \E p, n \in Pages : /\ held[h] = <<"pages", p, n>> /\ p + n - 1 \in Pages
                      /\ mem.slab[p] = Start + n
                      /\ \A x \in p + 1 .. p + n - 1 : mem.slab[x] = Busy

HoldsChunk(h) ==
  \E p \in Pages, c \in Classes : \E k \in Reserved[c] .. Chunks[c] - 1 :
     held[h] = <<"chunk", p, k>> /\ mem.slab[p] = Slot(c)

Pointers == {<<>>} \cup ({"pages"} \X Pages \X Pages) \cup ({"chunk"} \X Pages \X Nat)

HeldOK ==
  /\ held \in [Handles -> Pointers]
  /\ \A h \in InUse : HoldsPages(h) \/ HoldsChunk(h)

(* A bitmap has the chunks that are held, and the page is in the list of   *)
(* its class as long as there are others.                                  *)
UsedOK(L) ==
  /\ used \in [Pages -> SUBSET Int]
  /\ \A c \in Classes : \A p \in L[Slot(c)] : mem.slab[p] = Slot(c)
  /\ \A c \in Classes : \A p \in Pages : mem.slab[p] = Slot(c) =>
       /\ used[p] = (0 .. Reserved[c] - 1) \cup ChunksHeld(p)
       /\ p \in L[Slot(c)] <=> used[p] # 0 .. Chunks[c] - 1

SlabOK(L) ==
  /\ Sound(mem, Free, L) /\ Apart(mem.slab, Free, L[FreeHead])
  /\ HeldOK /\ UsedOK(L) /\ Disjoint

SlabInv == \E L : SlabOK(L)

LEMMA SlabInitOK == SlabInit => SlabInv
<1>. SUFFICES ASSUME SlabInit PROVE SlabInv
  OBVIOUS
<1>. DEFINE L == [h \in Heads |-> IF h = FreeHead THEN {1} ELSE {}]
<1>1. NumPages \in Int /\ NumPages >= 1 /\ 1 \in Pages /\ 1 \in Nodes
  BY SlabAssumption DEF Pages, Nodes, Start
<1>2. InUse = {} /\ Taken = {} /\ Free = Pages
  BY DEF SlabInit, InUse, Taken, Free
<1>3. mem \in [slab : [Nodes -> Int], next : [Nodes -> Int], prev : [Nodes -> Int]]
  BY <1>1, HeadsNotPages DEF SlabInit, Null, FreeHead
<1>4. /\ mem.next[FreeHead] = 1 /\ mem.next[1] = FreeHead /\ mem.prev[1] = FreeHead
      /\ \A h \in Heads \ {FreeHead} : mem.next[h] = h
      /\ mem.slab[1] = NumPages /\ \A x \in Pages \ {1} : mem.slab[x] = 0
  <2>1. FreeHead \in Nodes /\ 1 # FreeHead /\ 1 \notin Heads /\ Heads \subseteq Nodes /\ Pages \subseteq Nodes
        /\ \A h \in Heads : h # 1
    BY <1>1, HeadsNotPages
  <2>. QED  BY <1>1, <2>1 DEF SlabInit
<1>5. Lists(mem, L)
  <2>1. IsList(mem.next, mem.prev, FreeHead, {1})
    <3>. DEFINE M == {1}
    <3>1. M \subseteq Pages /\ FreeHead \notin M
      BY <1>1 DEF FreeHead
    <3>2. /\ \A x \in M \cup {FreeHead} : mem.next[x] \in M \cup {FreeHead}
          /\ \A x \in M \cup {FreeHead} : mem.next[x] \in M => mem.prev[mem.next[x]] = x
          /\ \A x \in M : mem.prev[x] \in M \cup {FreeHead} /\ mem.next[mem.prev[x]] = x
          /\ \E x \in M \cup {FreeHead} : mem.next[x] = FreeHead
      BY <1>4, <3>1
    <3>3. \A S \in SUBSET M : S # {} => \E x \in S : mem.prev[x] \notin S
      BY <1>4, <3>1
    <3>. QED  BY <3>1, <3>2, <3>3 DEF IsList
  <2>2. \A h \in Heads \ {FreeHead} : IsList(mem.next, mem.prev, h, {})
    BY <1>4, HeadsNotPages DEF IsList
  <2>3. L \in [Heads -> SUBSET Pages]
    BY <1>1
  <2>4. \A h \in Heads : IsList(mem.next, mem.prev, h, L[h])
    BY <2>1, <2>2
  <2>5. \A g, h \in Heads : g # h => L[g] \cap L[h] = {}
    OBVIOUS
  <2>. HIDE DEF L
  <2>. QED  BY <1>3, <2>3, <2>4, <2>5 DEF Lists
<1>6. L[FreeHead] = {1} /\ \A h \in Heads \ {FreeHead} : L[h] = {}
  BY HeadsNotPages
<1>. HIDE DEF L
<1>7. Runs(mem.slab, Pages, {1})
  <2>1. \A p \in Int : InRun(mem.slab, 1, p) <=> p \in Pages
    BY <1>1, <1>4 DEF InRun, Pages
  <2>2. \A p \in Pages : InRun(mem.slab, 1, p)
    BY <2>1, HeadsNotPages
  <2>. QED  BY <2>1, <2>2, <1>1, <1>4 DEF Runs
<1>8. Apart(mem.slab, Pages, {1})
  BY <1>1, <1>4 DEF Apart, Pages
<1>9. Sound(mem, Free, L)
  BY <1>2, <1>5, <1>6, <1>7 DEF Sound
<1>10. HeldOK /\ Disjoint
  BY <1>2 DEF HeldOK, Disjoint, SlabInit, Pointers
<1>11. UsedOK(L)
  <2>1. \A c \in Classes : \A p \in Pages : mem.slab[p] # Slot(c)
    BY <1>1, <1>4, SlabAssumption DEF Slot, Null
  <2>2. \A c \in Classes : L[Slot(c)] = {}
    BY <1>6, HeadsNotPages
  <2>3. used \in [Pages -> SUBSET Int]
    BY DEF SlabInit
  <2>. QED  BY <2>1, <2>2, <2>3 DEF UsedOK
<1>. QED  BY <1>2, <1>6, <1>8, <1>9, <1>10, <1>11 DEF SlabInv, SlabOK

(* The search stops at a free run that is long enough, if there is one.    *)
LEMMA FitsSound ==
  ASSUME NEW m, NEW F, NEW L, Sound(m, F, L), NEW n
  PROVE  /\ \A page \in Fits(m, n) : page \in L[FreeHead] /\ m.slab[page] >= n
         /\ Fits(m, n) = {} => \A page \in L[FreeHead] : ~(m.slab[page] >= n)
<1>. DEFINE G == L[FreeHead]
            onward == [p \in Pages |-> IF m.slab[p] >= n THEN Null ELSE m.next[p]]
            first == m.next[FreeHead]
            R == Reached(onward, first)
            closed == {S \in SUBSET Pages : first \in S /\ \A p \in S : onward[p] \in Pages => onward[p] \in S}
<1>1. IsList(m.next, m.prev, FreeHead, G) /\ FreeHead \notin Pages /\ Null \notin Pages
  BY HeadsNotPages DEF Sound, Lists
<1>2. Listed(m, FreeHead) = G /\ G \subseteq Pages
  <2>1. IsList(m.next, m.prev, FreeHead, G)
    BY <1>1
  <2>2. FreeHead \notin Pages
    BY <1>1
  <2>3. Reached(m.next, m.next[FreeHead]) = G
    BY <2>1, <2>2, ListReached
  <2>. QED  BY <2>1, <2>3 DEF Listed, IsList
<1>3. Fits(m, n) = {p \in R : m.slab[p] >= n}
  BY DEF Fits
<1>4. R \subseteq G
  <2>1. CASE first \notin Pages
    BY <2>1 DEF Reached
  <2>2. CASE first \in Pages
    <3>1. first \in G /\ \A p \in G : m.next[p] \in Pages => m.next[p] \in G
      BY <1>1, <2>2 DEF IsList
    <3>2. \A p \in G : onward[p] \in Pages => onward[p] \in G
      BY <3>1, <1>1, <1>2
    <3>3. G \in closed
      BY <3>1, <3>2, <1>2
    <3>. HIDE DEF onward
    <3>. QED  BY <2>2, <3>3 DEF Reached
  <2>. QED  BY <2>1, <2>2
<1>5. ASSUME Fits(m, n) = {}, NEW page \in G, m.slab[page] >= n PROVE FALSE
  <2>1. \A p \in R : ~(m.slab[p] >= n)
    BY <1>3, <1>5
  <2>2. G # {}
    BY <1>5
  <2>3. first \in G
    BY <1>1, <2>2, ListEmpty DEF IsList
  <2>4. ASSUME NEW S \in closed PROVE G \cap R \subseteq S
    BY <2>3, <1>2 DEF Reached
  <2>5. first \in R /\ \A p \in R : onward[p] \in Pages => onward[p] \in R
    <3>. HIDE DEF onward
    <3>. QED  BY <2>3, <1>2 DEF Reached
  <2>6. ASSUME NEW p \in R, m.next[p] \in Pages PROVE m.next[p] \in R
    <3>1. onward[p] = m.next[p]
      BY <2>1, <2>6, <1>2, <1>4
    <3>. QED  BY <2>5, <2>6, <3>1
  <2>. HIDE DEF R
  <2>7. R \in {S \in SUBSET Pages : first \in S /\ \A p \in S : m.next[p] \in Pages => m.next[p] \in S}
    BY <2>5, <2>6, <1>2, <1>4
  <2>8. Listed(m, FreeHead) \subseteq R
    BY <2>3, <1>2, <2>7 DEF Listed, Reached
  <2>. QED  BY <1>2, <1>5, <2>1, <2>8
<1>. QED  BY <1>3, <1>4, <1>5

LEMMA FreeSlab ==
  ASSUME NEW m, NEW F, NEW L, Sound(m, F, L), NEW x \in F
  PROVE  m.slab[x] >= 0 /\ x \in Pages
<1>1. CASE x \in L[FreeHead]
  BY <1>1 DEF Sound, Runs
<1>2. CASE x \notin L[FreeHead]
  BY <1>2 DEF Sound, Runs
<1>. QED  BY <1>1, <1>2

LEMMA Slots ==
  /\ \A c \in Classes : Slot(c) \in Int /\ Slot(c) < 0 /\ -Slot(c) = c /\ c \in Int
  /\ \A c, d \in Classes : Slot(c) = Slot(d) => c = d
  /\ \A n \in Nat : Start + n > 0
  /\ Busy > 0
  /\ \A c \in Classes : Reserved[c] \in Nat /\ Chunks[c] \in Nat /\ Reserved[c] + 2 <= Chunks[c]
BY SlabAssumption DEF Slot, Null, Start, Busy

(* h, which held nothing, gets v.                                          *)
LEMMA Gets ==
  ASSUME NEW h \in Handles, HeldOK, held[h] = <<>>, NEW v, v # <<>>, held' = [held EXCEPT ![h] = v]
  PROVE  /\ InUse' = InUse \cup {h} /\ h \notin InUse /\ held'[h] = v
         /\ \A g \in InUse : held'[g] = held[g] /\ Covered(g)' = Covered(g)
         /\ Taken' = Taken \cup Covered(h)'
<1>1. /\ InUse' = InUse \cup {h} /\ h \notin InUse /\ held'[h] = v
      /\ \A g \in InUse : held'[g] = held[g]
  BY DEF HeldOK, InUse
<1>2. \A g \in InUse : Covered(g)' = Covered(g)
  BY <1>1 DEF Covered
<1>. QED  BY <1>1, <1>2 DEF Taken

LEMMA GivesBack ==
  ASSUME NEW h \in InUse, HeldOK, held' = [held EXCEPT ![h] = <<>>]
  PROVE  /\ InUse' = InUse \ {h}
         /\ \A g \in InUse \ {h} : held'[g] = held[g] /\ Covered(g)' = Covered(g)
<1>1. /\ InUse' = InUse \ {h}
      /\ \A g \in InUse \ {h} : held'[g] = held[g]
  BY DEF HeldOK, InUse
<1>2. \A g \in InUse \ {h} : Covered(g)' = Covered(g)
  BY <1>1 DEF Covered
<1>. QED  BY <1>1, <1>2

LEMMA HoldsCovered ==
  ASSUME HeldOK, NEW h \in InUse
  PROVE  /\ h \in Handles /\ Covered(h) \subseteq Pages /\ Covered(h) \subseteq Taken
         /\ \A p, n \in Pages : held[h] = <<"pages", p, n>> => Covered(h) = p .. p + n - 1 /\ p \in Covered(h)
         /\ \A p, k : held[h] = <<"chunk", p, k>> => Covered(h) = {p}
<1>1. h \in Handles /\ Covered(h) \subseteq Taken
  BY DEF InUse, Taken
<1>2. \A p, n \in Pages : p \in p .. p + n - 1
  BY SlabAssumption DEF Pages
<1>3. \A p, n \in Pages : held[h] = <<"pages", p, n>> => Covered(h) = p .. p + n - 1 /\ p \in Covered(h)
  BY <1>2 DEF Covered
<1>4. \A p, k : held[h] = <<"chunk", p, k>> => Covered(h) = {p}
  BY DEF Covered
<1>5. \A p, n \in Pages : p + n - 1 \in Pages => p .. p + n - 1 \subseteq Pages
  BY SlabAssumption DEF Pages
<1>6. CASE HoldsPages(h)
  <2>1. PICK p \in Pages, n \in Pages : held[h] = <<"pages", p, n>> /\ p + n - 1 \in Pages
    BY <1>6 DEF HoldsPages
  <2>2. Covered(h) \subseteq Pages
    BY <2>1, <1>3, <1>5
  <2>. QED  BY <1>1, <1>3, <1>4, <2>2
<1>7. CASE HoldsChunk(h)
  <2>1. PICK p \in Pages : \E k : held[h] = <<"chunk", p, k>>
    BY <1>7 DEF HoldsChunk
  <2>2. Covered(h) \subseteq Pages
    BY <2>1, <1>4
  <2>. QED  BY <1>1, <1>3, <1>4, <2>2
<1>. QED  BY <1>6, <1>7 DEF HeldOK

(* What a caller holds is not disturbed by what happens to other pages.    *)
LEMMA HoldKept ==
  ASSUME HeldOK, NEW g \in InUse, held'[g] = held[g],
         \A x \in Covered(g) : mem'.slab[x] = mem.slab[x]
  PROVE  HoldsPages(g)' \/ HoldsChunk(g)'
<1>1. CASE HoldsPages(g)
  <2>1. PICK p \in Pages, n \in Pages :
          /\ held[g] = <<"pages", p, n>> /\ p + n - 1 \in Pages
          /\ mem.slab[p] = Start + n /\ \A x \in p + 1 .. p + n - 1 : mem.slab[x] = Busy
    BY <1>1 DEF HoldsPages
  <2>2. Covered(g) = p .. p + n - 1 /\ p \in Covered(g)
    BY <2>1, HoldsCovered
  <2>3. p + 1 .. p + n - 1 \subseteq p .. p + n - 1
    BY HeadsNotPages
  <2>4. mem'.slab[p] = Start + n /\ \A x \in p + 1 .. p + n - 1 : mem'.slab[x] = Busy
    BY <2>1, <2>2, <2>3
  <2>. QED  BY <2>1, <2>4 DEF HoldsPages
<1>2. CASE HoldsChunk(g)
  <2>1. PICK p \in Pages, c \in Classes : \E k \in Reserved[c] .. Chunks[c] - 1 :
          held[g] = <<"chunk", p, k>> /\ mem.slab[p] = Slot(c)
    BY <1>2 DEF HoldsChunk
  <2>2. PICK k \in Reserved[c] .. Chunks[c] - 1 : held[g] = <<"chunk", p, k>> /\ mem.slab[p] = Slot(c)
    BY <2>1
  <2>3. Covered(g) = {p}
    BY <2>2, HoldsCovered
  <2>4. held'[g] = <<"chunk", p, k>> /\ mem'.slab[p] = Slot(c)
    BY <2>2, <2>3
  <2>. QED  BY <2>2, <2>4 DEF HoldsChunk
<1>. QED  BY <1>1, <1>2 DEF HeldOK

(* A chunk that is held is not the bitmap's.                               *)
LEMMA ChunkHeld ==
  ASSUME HeldOK, NEW h \in InUse, held[h][1] = "chunk"
  PROVE  \E p \in Pages, c \in Classes : \E k \in Reserved[c] .. Chunks[c] - 1 :
           /\ held[h] = <<"chunk", p, k>> /\ mem.slab[p] = Slot(c) /\ Covered(h) = {p}
           /\ held[h][2] = p /\ held[h][3] = k /\ -mem.slab[held[h][2]] = c
<1>1. ~HoldsPages(h)
  BY DEF HoldsPages
<1>2. HoldsChunk(h)
  BY <1>1 DEF HeldOK
<1>3. PICK p \in Pages, c \in Classes : \E k \in Reserved[c] .. Chunks[c] - 1 :
        held[h] = <<"chunk", p, k>> /\ mem.slab[p] = Slot(c)
  BY <1>2 DEF HoldsChunk
<1>4. PICK k \in Reserved[c] .. Chunks[c] - 1 : held[h] = <<"chunk", p, k>> /\ mem.slab[p] = Slot(c)
  BY <1>3
<1>5. Covered(h) = {p}
  BY <1>4, HoldsCovered
<1>6. held[h][2] = p /\ held[h][3] = k
  BY <1>4
<1>7. -mem.slab[held[h][2]] = c
  BY <1>4, <1>6, Slots
<1>. QED  BY <1>4, <1>5, <1>6, <1>7

Separate ==
  \A g, h \in InUse : g # h /\ Covered(g) \cap Covered(h) # {} =>
     held[g][1] = "chunk" /\ held[h][1] = "chunk" /\ held[g][3] # held[h][3]

LEMMA SeparateDisjoint ==
  ASSUME HeldOK
  PROVE  Disjoint <=> Separate
<1>1. ASSUME NEW h \in InUse, held[h][1] = "chunk"
      PROVE  held[h][3] \in Reserved[-mem.slab[held[h][2]]] .. Chunks[-mem.slab[held[h][2]]] - 1
  <2>1. PICK p \in Pages, c \in Classes : \E k \in Reserved[c] .. Chunks[c] - 1 :
          /\ held[h] = <<"chunk", p, k>> /\ mem.slab[p] = Slot(c) /\ Covered(h) = {p}
          /\ held[h][2] = p /\ held[h][3] = k /\ -mem.slab[held[h][2]] = c
    BY <1>1, ChunkHeld
  <2>. QED  BY <2>1
<1>. QED  BY <1>1 DEF Disjoint, Separate

LEMMA SeparateDisjointNext == HeldOK' => (Disjoint' <=> Separate')
<1>1. HeldOK => (Disjoint <=> Separate)
  BY SeparateDisjoint
<1>. QED  BY <1>1, PTL

(* h, which held nothing, gets pages nobody has, or a chunk nobody has.    *)
LEMMA HeldGets ==
  ASSUME HeldOK, Disjoint, NEW h \in Handles, held[h] = <<>>,
         NEW v \in Pointers, v # <<>>, held' = [held EXCEPT ![h] = v],
         \A x \in Taken : mem'.slab[x] = mem.slab[x],
         HoldsPages(h)' \/ HoldsChunk(h)',
         \A g \in InUse : Covered(g) \cap Covered(h)' # {} =>
           held[g][1] = "chunk" /\ v[1] = "chunk" /\ held[g][3] # v[3]
  PROVE  HeldOK' /\ Disjoint'
<1>1. /\ InUse' = InUse \cup {h} /\ h \notin InUse /\ held'[h] = v
      /\ \A g \in InUse : held'[g] = held[g] /\ Covered(g)' = Covered(g)
  BY Gets
<1>2. held' \in [Handles -> Pointers]
  BY DEF HeldOK
<1>3. ASSUME NEW g \in InUse PROVE HoldsPages(g)' \/ HoldsChunk(g)'
  <2>1. held'[g] = held[g]
    BY <1>1
  <2>2. \A x \in Covered(g) : mem'.slab[x] = mem.slab[x]
    BY HoldsCovered
  <2>. QED  BY <2>1, <2>2, HoldKept
<1>4. HeldOK'
  BY <1>1, <1>2, <1>3 DEF HeldOK
<1>5. Separate
  BY SeparateDisjoint
<1>6. Separate'
  <2>1. ASSUME NEW f \in InUse', NEW g \in InUse', f # g, Covered(f)' \cap Covered(g)' # {}
        PROVE  held'[f][1] = "chunk" /\ held'[g][1] = "chunk" /\ held'[f][3] # held'[g][3]
    <3>1. CASE f \in InUse /\ g \in InUse
      BY <1>1, <1>5, <2>1, <3>1 DEF Separate
    <3>2. CASE f = h
      BY <1>1, <2>1, <3>2
    <3>3. CASE g = h
      BY <1>1, <2>1, <3>3
    <3>. QED  BY <1>1, <3>1, <3>2, <3>3
  <2>. QED  BY <2>1 DEF Separate
<1>. QED  BY <1>4, <1>6, SeparateDisjointNext

LEMMA HeldGivesBack ==
  ASSUME HeldOK, Disjoint, NEW h \in InUse, held' = [held EXCEPT ![h] = <<>>],
         \A g \in InUse \ {h} : \A x \in Covered(g) : mem'.slab[x] = mem.slab[x]
  PROVE  HeldOK' /\ Disjoint'
<1>1. /\ InUse' = InUse \ {h}
      /\ \A g \in InUse \ {h} : held'[g] = held[g] /\ Covered(g)' = Covered(g)
  BY GivesBack
<1>2. held' \in [Handles -> Pointers]
  BY DEF HeldOK, Pointers
<1>3. ASSUME NEW g \in InUse \ {h} PROVE HoldsPages(g)' \/ HoldsChunk(g)'
  <2>1. held'[g] = held[g]
    BY <1>1
  <2>2. \A x \in Covered(g) : mem'.slab[x] = mem.slab[x]
    OBVIOUS
  <2>. QED  BY <2>1, <2>2, HoldKept
<1>4. HeldOK'
  BY <1>1, <1>2, <1>3 DEF HeldOK
<1>5. Separate
  BY SeparateDisjoint
<1>6. Separate'
  BY <1>1, <1>5 DEF Separate
<1>. QED  BY <1>4, <1>6, SeparateDisjointNext

(* The chunks held of a page are those of the callers that hold chunks.    *)
LEMMA ChunksGet ==
  ASSUME HeldOK, NEW h \in Handles, held[h] = <<>>, NEW v, v # <<>>, held' = [held EXCEPT ![h] = v],
         NEW p
  PROVE  /\ ~(v[1] = "chunk" /\ v[2] = p) => ChunksHeld(p)' = ChunksHeld(p)
         /\ v[1] = "chunk" /\ v[2] = p => ChunksHeld(p)' = ChunksHeld(p) \cup {v[3]}
<1>1. /\ InUse' = InUse \cup {h} /\ h \notin InUse /\ held'[h] = v
      /\ \A g \in InUse : held'[g] = held[g]
  BY Gets
<1>. QED  BY <1>1 DEF ChunksHeld

LEMMA ChunksGiveBack ==
  ASSUME HeldOK, Disjoint, NEW h \in InUse, held' = [held EXCEPT ![h] = <<>>], NEW p
  PROVE  /\ ~(held[h][1] = "chunk" /\ held[h][2] = p) => ChunksHeld(p)' = ChunksHeld(p)
         /\ held[h][1] = "chunk" /\ held[h][2] = p => ChunksHeld(p)' = ChunksHeld(p) \ {held[h][3]}
<1>1. /\ InUse' = InUse \ {h}
      /\ \A g \in InUse \ {h} : held'[g] = held[g]
  BY GivesBack
<1>2. ASSUME NEW g \in InUse \ {h}, held[g][1] = "chunk", held[g][2] = p,
             held[h][1] = "chunk", held[h][2] = p
      PROVE  held[g][3] # held[h][3]
  <2>1. Covered(g) = {p} /\ Covered(h) = {p}
    BY <1>2 DEF Covered
  <2>. QED  BY <1>2, <2>1 DEF Disjoint
<1>. QED  BY <1>1, <1>2 DEF ChunksHeld

LEMMA SlabStutterOK ==
  ASSUME NEW L, SlabOK(L), UNCHANGED slabVars
  PROVE  SlabInv'
<1>1. mem' = mem /\ used' = used /\ held' = held
  BY DEF slabVars
<1>2. InUse' = InUse /\ Taken' = Taken /\ Free' = Free
  BY <1>1 DEF InUse, Taken, Covered, Free
<1>3. HeldOK' /\ Disjoint'
  BY <1>1 DEF HeldOK, Disjoint, InUse, Covered, HoldsPages, HoldsChunk, SlabOK
<1>4. UsedOK(L)'
  BY <1>1 DEF UsedOK, ChunksHeld, InUse, SlabOK
<1>5. Sound(mem, Free, L)' /\ Apart(mem.slab, Free, L[FreeHead])'
  BY <1>1, <1>2 DEF SlabOK
<1>. QED  BY <1>3, <1>4, <1>5 DEF SlabOK, SlabInv

(* A page in chunks is not free, and in the list of its class.             *)
LEMMA InChunks ==
  ASSUME NEW m, NEW F, NEW L, Sound(m, F, L), NEW c \in Classes, NEW p \in Pages, m.slab[p] = Slot(c)
  PROVE  p \notin F
BY FreeSlab, Slots

LEMMA SlotList ==
  ASSUME NEW m, NEW F, NEW L, Sound(m, F, L), NEW c \in Classes, NEW p \in L[Slot(c)]
  PROVE  p \in Pages \ F
<1>1. Slot(c) \in Heads /\ Slot(c) # FreeHead
  BY HeadsNotPages
<1>. QED  BY <1>1 DEF Sound, Lists

LEMMA AllocPagesOK ==
  ASSUME NEW L, SlabOK(L), NEW h \in Handles, NEW n \in Pages, AllocPages(h, n)
  PROVE  SlabInv'
<1>1. held[h] = <<>> /\ used' = used
  BY DEF AllocPages, Unheld
<1>2. CASE Fits(mem, n) = {} /\ UNCHANGED <<mem, held>>
  <2>1. UNCHANGED slabVars
    BY <1>1, <1>2 DEF slabVars
  <2>. QED  BY <2>1, SlabStutterOK
<1>3. ASSUME NEW page \in Fits(mem, n), mem' = TakenPages(mem, page, n),
             held' = [held EXCEPT ![h] = <<"pages", page, n>>]
      PROVE  SlabInv'
  <2>. DEFINE run == page .. page + n - 1
              v == <<"pages", page, n>>
  <2>1. Sound(mem, Free, L) /\ Apart(mem.slab, Free, L[FreeHead]) /\ HeldOK /\ UsedOK(L) /\ Disjoint
    BY DEF SlabOK
  <2>2. page \in L[FreeHead] /\ mem.slab[page] >= n
    BY <2>1, FitsSound
  <2>3. page \in Pages
    BY <2>1, <2>2, HeadsNotPages DEF Sound, Lists
  <2>4. n \in Nat /\ n >= 1
    BY DEF Pages
  <2>5. PICK L1 : TakenTo(mem, Free, L, page, n, mem', L1)
    BY <1>3, <2>1, <2>2, <2>4, TakenSound
  <2>6. /\ Sound(mem', Free \ run, L1) /\ Apart(mem'.slab, Free \ run, L1[FreeHead])
        /\ \A g \in Heads \ {FreeHead} : L1[g] = L[g]
        /\ \A x \in Pages \ Free : mem'.slab[x] = mem.slab[x]
        /\ mem'.slab[page] = Start + n
        /\ \A x \in page + 1 .. page + n - 1 : mem'.slab[x] = Busy
        /\ run \subseteq Free
    BY <2>5 DEF TakenTo
  <2>7. /\ InUse' = InUse \cup {h} /\ h \notin InUse /\ held'[h] = v
        /\ \A g \in InUse : held'[g] = held[g] /\ Covered(g)' = Covered(g)
        /\ Taken' = Taken \cup Covered(h)'
    BY <1>1, <1>3, <2>1, Gets
  <2>8. Covered(h)' = run
    BY <2>7 DEF Covered
  <2>9. Free' = Free \ run
    BY <2>7, <2>8 DEF Free
  <2>10. \A g \in InUse : Covered(g) \subseteq Taken /\ Covered(g) \subseteq Pages
    BY <2>1, HoldsCovered
  <2>11. \A x \in Taken : mem'.slab[x] = mem.slab[x]
    BY <2>6, <2>10 DEF Free, Taken
  <2>12. page + n - 1 \in Pages
    <3>1. page + n - 1 \in run
      BY <2>3, <2>4, HeadsNotPages
    <3>. QED  BY <3>1, <2>6 DEF Free
  <2>13. HoldsPages(h)'
    BY <2>3, <2>6, <2>7, <2>12 DEF HoldsPages
  <2>14. HeldOK' /\ Disjoint'
    <3>1. v \in Pointers /\ v # <<>>
      BY <2>3 DEF Pointers
    <3>2. \A g \in InUse : Covered(g) \cap Covered(h)' = {}
      BY <2>6, <2>8, <2>10 DEF Free
    <3>3. \A g \in InUse : Covered(g) \cap Covered(h)' # {} =>
            held[g][1] = "chunk" /\ v[1] = "chunk" /\ held[g][3] # v[3]
      BY <3>2
    <3>4. HoldsPages(h)' \/ HoldsChunk(h)'
      BY <2>13
    <3>5. held' = [held EXCEPT ![h] = v]
      BY <1>3
    <3>. HIDE DEF v
    <3>. QED  BY <1>1, <2>1, <2>11, <3>1, <3>3, <3>4, <3>5, HeldGets
  <2>15. \A p : ChunksHeld(p)' = ChunksHeld(p)
    <3>1. v # <<>> /\ v[1] # "chunk"
      OBVIOUS
    <3>2. held' = [held EXCEPT ![h] = v]
      BY <1>3
    <3>. HIDE DEF v
    <3>. QED  BY <1>1, <2>1, <3>1, <3>2, ChunksGet
  <2>16. \A c \in Classes : L1[Slot(c)] = L[Slot(c)]
    BY <2>6, HeadsNotPages
  <2>17. \A c \in Classes : \A p \in Pages : mem'.slab[p] = Slot(c) => p \notin Free /\ mem.slab[p] = Slot(c)
    <3>1. ASSUME NEW c \in Classes, NEW p \in Pages, mem'.slab[p] = Slot(c) PROVE p \notin Free
      <4>1. p \notin Free \ run
        BY <2>6, <3>1, InChunks
      <4>2. p # page
        BY <2>4, <2>6, <3>1, Slots
      <4>3. p \notin page + 1 .. page + n - 1
        BY <2>6, <3>1, Slots
      <4>4. run = {page} \cup (page + 1 .. page + n - 1)
        BY <2>3, <2>4, HeadsNotPages
      <4>. QED  BY <4>1, <4>2, <4>3, <4>4
    <3>. QED  BY <3>1, <2>6
  <2>18. \A c \in Classes : \A p \in L[Slot(c)] : p \in Pages \ Free
    BY <2>1, SlotList
  <2>19. UsedOK(L1)'
    <3>1. used' \in [Pages -> SUBSET Int]
      BY <1>1, <2>1 DEF UsedOK
    <3>2. \A c \in Classes : \A p \in L1[Slot(c)] : mem'.slab[p] = Slot(c)
      BY <2>1, <2>6, <2>16, <2>18 DEF UsedOK
    <3>3. \A c \in Classes : \A p \in Pages : mem'.slab[p] = Slot(c) =>
            /\ used'[p] = (0 .. Reserved[c] - 1) \cup ChunksHeld(p)'
            /\ p \in L1[Slot(c)] <=> used'[p] # 0 .. Chunks[c] - 1
      BY <1>1, <2>1, <2>15, <2>16, <2>17 DEF UsedOK
    <3>. QED  BY <3>1, <3>2, <3>3 DEF UsedOK
  <2>. HIDE DEF run
  <2>20. Sound(mem', Free', L1) /\ Apart(mem'.slab, Free', L1[FreeHead])
    BY <2>6, <2>9
  <2>. QED  BY <2>14, <2>19, <2>20 DEF SlabOK, SlabInv
<1>. QED  BY <1>2, <1>3 DEF AllocPages

(* Who holds some of a page in chunks holds a chunk of it.                 *)
LEMMA CoveredChunk ==
  ASSUME HeldOK, NEW g \in InUse, NEW p \in Covered(g), NEW c \in Classes, mem.slab[p] = Slot(c)
  PROVE  /\ held[g][1] = "chunk" /\ held[g][2] = p /\ held[g][3] \in ChunksHeld(p) /\ Covered(g) = {p}
         /\ held[g][3] \in Reserved[c] .. Chunks[c] - 1
<1>1. ~HoldsPages(g)
  <2>. SUFFICES ASSUME HoldsPages(g) PROVE FALSE
    OBVIOUS
  <2>1. PICK q \in Pages, n \in Pages :
          /\ held[g] = <<"pages", q, n>>
          /\ mem.slab[q] = Start + n /\ \A x \in q + 1 .. q + n - 1 : mem.slab[x] = Busy
    BY DEF HoldsPages
  <2>2. Covered(g) = q .. q + n - 1
    BY <2>1, HoldsCovered
  <2>3. q \in Int /\ n \in Nat /\ p \in Int
    BY <2>2, HeadsNotPages DEF Pages
  <2>4. p = q \/ p \in q + 1 .. q + n - 1
    BY <2>2, <2>3
  <2>. QED  BY <2>1, <2>3, <2>4, Slots
<1>2. HoldsChunk(g)
  BY <1>1 DEF HeldOK
<1>3. held[g][1] = "chunk"
  BY <1>2 DEF HoldsChunk
<1>4. PICK q \in Pages, d \in Classes : \E k \in Reserved[d] .. Chunks[d] - 1 :
        /\ held[g] = <<"chunk", q, k>> /\ mem.slab[q] = Slot(d) /\ Covered(g) = {q}
        /\ held[g][2] = q /\ held[g][3] = k /\ -mem.slab[held[g][2]] = d
  BY <1>3, ChunkHeld
<1>5. q = p /\ d = c
  BY <1>4, Slots
<1>6. held[g][3] \in ChunksHeld(p)
  BY <1>3, <1>4, <1>5 DEF ChunksHeld
<1>. QED  BY <1>3, <1>4, <1>5, <1>6

LEMMA AllocChunkOK ==
  ASSUME NEW L, SlabOK(L), NEW h \in Handles, NEW c \in Classes, AllocChunk(h, c)
  PROVE  SlabInv'
<1>. DEFINE page == mem.next[Slot(c)]
            s == Slot(c)
            out == Unlinked(mem, page)
            full(k) == used[page] \cup {k} = 0 .. Chunks[c] - 1
<1>1. held[h] = <<>> /\ page # s
  BY DEF AllocChunk, Unheld
<1>2. PICK k \in 0 .. Chunks[c] - 1 \ used[page] :
        /\ used' = [used EXCEPT ![page] = @ \cup {k}]
        /\ mem' = IF full(k) THEN [out EXCEPT !.next[page] = Null, !.prev[page] = Null] ELSE mem
        /\ held' = [held EXCEPT ![h] = <<"chunk", page, k>>]
  BY DEF AllocChunk
<1>. DEFINE v == <<"chunk", page, k>>
            L0 == IF full(k) THEN [L EXCEPT ![s] = L[s] \ {page}] ELSE L
<1>3. Sound(mem, Free, L) /\ Apart(mem.slab, Free, L[FreeHead]) /\ HeldOK /\ UsedOK(L) /\ Disjoint
  BY DEF SlabOK
<1>4. Lists(mem, L) /\ s \in Heads /\ s # FreeHead
  BY <1>3, HeadsNotPages DEF Sound
<1>5. page \in L[s]
  BY <1>1, <1>4 DEF Lists, IsList
<1>6. page \in Pages /\ page \notin Free
  BY <1>3, <1>5, SlotList
<1>7. /\ mem.slab[page] = s
      /\ used[page] = (0 .. Reserved[c] - 1) \cup ChunksHeld(page)
  BY <1>3, <1>5, <1>6 DEF UsedOK
<1>8. k \in Nat /\ k \in Reserved[c] .. Chunks[c] - 1 /\ k \notin ChunksHeld(page)
  BY <1>2, <1>7, Slots
<1>0. PICK L1 : L1 = L0
  OBVIOUS
<1>9. /\ L1 \in [Heads -> SUBSET Pages] /\ L1[FreeHead] = L[FreeHead]
      /\ L1[s] = IF full(k) THEN L[s] \ {page} ELSE L[s]
      /\ \A g \in Heads \ {s} : L1[g] = L[g]
  BY <1>0, <1>4 DEF Lists
<1>10. Lists(mem', L1) /\ mem'.slab = mem.slab
       /\ \A x \in Pages : \/ mem'.next[x] = mem.next[x]
                           \/ x \in L1[s] \/ mem'.next[x] = Null
  <2>1. CASE ~full(k)
    BY <1>0, <1>2, <1>4, <2>1
  <2>2. CASE full(k)
    <3>1. /\ Lists(out, L1) /\ out.slab = mem.slab
          /\ \A x \in Pages \ L[s] : out.next[x] = mem.next[x]
      <4>1. L1 = [L EXCEPT ![s] = L[s] \ {page}]
        BY <1>0, <2>2
      <4>. HIDE DEF full, s, page, L0
      <4>2. /\ Lists(Unlinked(mem, page), [L EXCEPT ![s] = L[s] \ {page}])
            /\ Unlinked(mem, page).slab = mem.slab
            /\ \A x \in Pages \ L[s] : Unlinked(mem, page).next[x] = mem.next[x]
        BY <1>4, <1>5, UnlinkedLists
      <4>. QED  BY <4>1, <4>2
    <3>2. ~IsListed(L1, page)
      BY <1>4, <1>5, <1>9, <2>2 DEF IsListed, Lists
    <3>. DEFINE S == {page}
                w == mem.slab[page]
                gone == Unlisted(out, S, w)
    <3>. HIDE DEF full, out
    <3>3. S \in SUBSET Pages /\ (\A x \in S : ~IsListed(L1, x)) /\ w \in Int
      BY <1>6, <3>2, <1>4, HeadsNotPages DEF Lists
    <3>. HIDE DEF S, w
    <3>4. /\ Lists(gone, L1)
          /\ \A x \in S : gone.slab[x] = w /\ gone.next[x] = Null
          /\ \A x \in Nodes \ S : gone.slab[x] = out.slab[x] /\ gone.next[x] = out.next[x] /\ gone.prev[x] = out.prev[x]
      BY <3>1, <3>3, UnlistedLists
    <3>5. mem' = gone
      <4>1. out \in [slab : [Nodes -> Int], next : [Nodes -> Int], prev : [Nodes -> Int]]
        BY <3>1 DEF Lists
      <4>2. mem' = [slab |-> out.slab, next |-> [out.next EXCEPT ![page] = Null],
                    prev |-> [out.prev EXCEPT ![page] = Null]]
        <5>1. mem' = [out EXCEPT !.next[page] = Null, !.prev[page] = Null]
          BY <1>2, <2>2
        <5>. HIDE DEF page
        <5>. QED  BY <4>1, <5>1
      <4>3. gone = [slab |-> [n \in Nodes |-> IF n \in S THEN w ELSE out.slab[n]],
                    next |-> [n \in Nodes |-> IF n \in S THEN Null ELSE out.next[n]],
                    prev |-> [n \in Nodes |-> IF n \in S THEN Null ELSE out.prev[n]]]
        BY DEF Unlisted
      <4>. HIDE DEF page
      <4>4. [n \in Nodes |-> IF n \in S THEN w ELSE out.slab[n]] = out.slab
        BY <3>1, <4>1 DEF S, w
      <4>5. [n \in Nodes |-> IF n \in S THEN Null ELSE out.next[n]] = [out.next EXCEPT ![page] = Null]
        BY <4>1 DEF S
      <4>6. [n \in Nodes |-> IF n \in S THEN Null ELSE out.prev[n]] = [out.prev EXCEPT ![page] = Null]
        BY <4>1 DEF S
      <4>. QED  BY <4>2, <4>3, <4>4, <4>5, <4>6
    <3>6. mem'.slab = mem.slab
      BY <1>2, <2>2, <3>1
    <3>7. \A x \in Pages : \/ mem'.next[x] = mem.next[x]
                           \/ x \in L1[s] \/ mem'.next[x] = Null
      BY <3>1, <3>4, <3>5, <1>9, <2>2, HeadsNotPages DEF S
    <3>. QED  BY <3>4, <3>5, <3>6, <3>7
  <2>. QED  BY <2>1, <2>2
<1>. HIDE DEF L0
<1>11. Sound(mem', Free, L1) /\ Apart(mem'.slab, Free, L1[FreeHead])
  <2>1. ASSUME NEW g \in Heads \ {FreeHead} PROVE L1[g] \cap Free = {}
    BY <1>3, <1>9 DEF Sound
  <2>2. ASSUME NEW x \in Pages \ Free PROVE mem'.slab[x] # 0 /\ (mem'.next[x] = Null \/ IsListed(L1, x))
    <3>1. mem'.slab[x] # 0
      BY <1>3, <1>10 DEF Sound
    <3>2. CASE x \in L1[s]
      BY <1>4, <3>1, <3>2 DEF IsListed
    <3>3. CASE mem'.next[x] = Null
      BY <3>1, <3>3
    <3>4. CASE x \notin L1[s] /\ mem'.next[x] = mem.next[x] /\ mem'.next[x] # Null
      <4>1. IsListed(L, x)
        BY <1>3, <3>4 DEF Sound
      <4>2. PICK g \in Heads : x \in L[g]
        BY <4>1 DEF IsListed
      <4>3. CASE g # s
        BY <1>9, <3>1, <4>2, <4>3 DEF IsListed
      <4>4. CASE g = s
        <5>1. x = page /\ full(k)
          BY <1>9, <3>4, <4>2, <4>4
        <5>2. mem'.next[x] = Null
          <6>1. out \in [slab : [Nodes -> Int], next : [Nodes -> Int], prev : [Nodes -> Int]]
            BY <1>4, <1>5, UnlinkedLists DEF Lists
          <6>2. mem' = [out EXCEPT !.next[page] = Null, !.prev[page] = Null]
            BY <1>2, <5>1
          <6>. HIDE DEF page, out
          <6>. QED  BY <1>6, <5>1, <6>1, <6>2, HeadsNotPages
        <5>. QED  BY <3>4, <5>2
      <4>. QED  BY <4>3, <4>4
    <3>. QED  BY <1>10, <3>2, <3>3, <3>4
  <2>. QED  BY <1>3, <1>9, <1>10, <2>1, <2>2 DEF Sound
<1>12. /\ InUse' = InUse \cup {h} /\ h \notin InUse /\ held'[h] = v
       /\ \A g \in InUse : held'[g] = held[g] /\ Covered(g)' = Covered(g)
       /\ Taken' = Taken \cup Covered(h)'
  BY <1>1, <1>2, <1>3, Gets
<1>13. Covered(h)' = {page}
  BY <1>12 DEF Covered
<1>14. Free' = Free
  BY <1>6, <1>12, <1>13 DEF Free
<1>15. HoldsChunk(h)'
  BY <1>6, <1>7, <1>8, <1>10, <1>12 DEF HoldsChunk
<1>16. v \in Pointers /\ v # <<>> /\ v[1] = "chunk" /\ v[2] = page /\ v[3] = k
  BY <1>6, <1>8 DEF Pointers
<1>17. held' = [held EXCEPT ![h] = v]
  BY <1>2
<1>. HIDE DEF v
<1>18. HeldOK' /\ Disjoint'
  <2>1. \A g \in InUse : Covered(g) \cap Covered(h)' # {} =>
          held[g][1] = "chunk" /\ v[1] = "chunk" /\ held[g][3] # v[3]
    BY <1>3, <1>7, <1>8, <1>13, <1>16, CoveredChunk
  <2>2. \A x \in Taken : mem'.slab[x] = mem.slab[x]
    BY <1>10
  <2>3. HoldsPages(h)' \/ HoldsChunk(h)'
    BY <1>15
  <2>. QED  BY <1>1, <1>3, <1>16, <1>17, <2>1, <2>2, <2>3, HeldGets
<1>. HIDE DEF page
<1>19. \A p : /\ p # page => ChunksHeld(p)' = ChunksHeld(p)
              /\ p = page => ChunksHeld(p)' = ChunksHeld(p) \cup {k}
  <2>1. ASSUME NEW p
        PROVE  /\ ~(v[1] = "chunk" /\ v[2] = p) => ChunksHeld(p)' = ChunksHeld(p)
               /\ v[1] = "chunk" /\ v[2] = p => ChunksHeld(p)' = ChunksHeld(p) \cup {v[3]}
    BY <1>1, <1>3, <1>16, <1>17, ChunksGet
  <2>. QED  BY <1>16, <2>1
<1>20. UsedOK(L1)'
  <2>1. used' \in [Pages -> SUBSET Int]
    BY <1>2, <1>3, <1>6, <1>8 DEF UsedOK
  <2>2. \A d \in Classes : L1[Slot(d)] \subseteq L[Slot(d)] /\ (d # c => L1[Slot(d)] = L[Slot(d)])
    BY <1>9, Slots, HeadsNotPages
  <2>3. \A d \in Classes : \A p \in L1[Slot(d)] : mem'.slab[p] = Slot(d)
    BY <1>3, <1>10, <2>2 DEF UsedOK
  <2>4. ASSUME NEW d \in Classes, NEW p \in Pages, mem'.slab[p] = Slot(d), p # page
        PROVE  /\ used'[p] = (0 .. Reserved[d] - 1) \cup ChunksHeld(p)'
               /\ p \in L1[Slot(d)] <=> used'[p] # 0 .. Chunks[d] - 1
    <3>1. used'[p] = used[p]
      BY <1>2, <1>3, <2>4 DEF UsedOK
    <3>2. p \in L1[Slot(d)] <=> p \in L[Slot(d)]
      BY <1>9, <2>2, <2>4
    <3>3. mem.slab[p] = Slot(d)
      BY <1>10, <2>4
    <3>. QED  BY <1>3, <1>19, <2>4, <3>1, <3>2, <3>3 DEF UsedOK
  <2>5. ASSUME NEW d \in Classes, NEW p \in Pages, mem'.slab[p] = Slot(d), p = page
        PROVE  /\ used'[p] = (0 .. Reserved[d] - 1) \cup ChunksHeld(p)'
               /\ p \in L1[Slot(d)] <=> used'[p] # 0 .. Chunks[d] - 1
    <3>1. d = c
      BY <1>7, <1>10, <2>5, Slots
    <3>2. used'[p] = used[p] \cup {k}
      BY <1>2, <1>3, <2>5 DEF UsedOK
    <3>3. used[p] = (0 .. Reserved[d] - 1) \cup ChunksHeld(p)
      BY <1>3, <1>10, <2>5 DEF UsedOK
    <3>4. used'[p] = (0 .. Reserved[d] - 1) \cup ChunksHeld(p)'
      BY <1>19, <2>5, <3>2, <3>3
    <3>5. p \in L1[Slot(d)] <=> used'[p] # 0 .. Chunks[d] - 1
      BY <1>5, <1>9, <2>5, <3>1, <3>2
    <3>. QED  BY <3>4, <3>5
  <2>6. \A d \in Classes : \A p \in Pages : mem'.slab[p] = Slot(d) =>
          /\ used'[p] = (0 .. Reserved[d] - 1) \cup ChunksHeld(p)'
          /\ p \in L1[Slot(d)] <=> used'[p] # 0 .. Chunks[d] - 1
    BY <2>4, <2>5
  <2>. QED  BY <2>1, <2>3, <2>6 DEF UsedOK
<1>. QED  BY <1>11, <1>14, <1>18, <1>20 DEF SlabOK, SlabInv

LEMMA RunsSame ==
  ASSUME NEW slab, NEW F, NEW G, Runs(slab, F, G), Apart(slab, F, G),
         NEW slab2, \A x \in F : slab2[x] = slab[x]
  PROVE  Runs(slab2, F, G) /\ Apart(slab2, F, G)
<1>1. \A g \in G : slab2[g] = slab[g]
  BY DEF Runs
<1>2. \A g \in G : \A p \in Int : InRun(slab2, g, p) <=> InRun(slab, g, p)
  BY <1>1 DEF InRun
<1>3. F \subseteq Int
  BY HeadsNotPages DEF Runs
<1>. QED  BY <1>1, <1>2, <1>3 DEF Runs, Apart

(* A page that nobody holds is made the only one in the list of a class.   *)
Only(t, c, page) ==
  [t EXCEPT !.slab[page] = Slot(c), !.next[page] = Slot(c), !.next[Slot(c)] = page, !.prev[page] = Slot(c)]

LEMMA NewPageSound ==
  ASSUME NEW t, NEW F, NEW L, Sound(t, F, L), Apart(t.slab, F, L[FreeHead]),
         NEW c \in Classes, L[Slot(c)] = {}, NEW page \in Pages \ F, t.next[page] = Null,
         NEW u, u = Only(t, c, page),
         NEW L1 \in [Heads -> SUBSET Pages], L1[Slot(c)] = {page}, \A g \in Heads \ {Slot(c)} : L1[g] = L[g]
  PROVE  /\ Sound(u, F, L1) /\ Apart(u.slab, F, L1[FreeHead])
         /\ u.slab[page] = Slot(c) /\ \A x \in Pages \ {page} : u.slab[x] = t.slab[x]
<1>. DEFINE s == Slot(c)
            pushed == Pushed(t, s, page)
<1>1. s \in Heads /\ s # FreeHead /\ s \notin Pages /\ s \in Nodes /\ page \in Nodes /\ s \in Int /\ s # 0
  BY HeadsNotPages, Slots DEF FreeHead
<1>2. Lists(t, L) /\ IsList(t.next, t.prev, s, L[s])
  BY <1>1 DEF Sound, Lists
<1>3. t.next[s] = s
  BY <1>1, <1>2, ListEmpty
<1>4. ~IsListed(L, page)
  BY <1>2, ListedNext
<1>5. L \in [Heads -> SUBSET Pages] /\ t \in [slab : [Nodes -> Int], next : [Nodes -> Int], prev : [Nodes -> Int]]
  BY <1>2 DEF Lists
<1>6. L1 = [L EXCEPT ![s] = L[s] \cup {page}]
  BY <1>1, <1>5
<1>6a. L1[s] = {page} /\ \A g \in Heads \ {s} : L1[g] = L[g]
  OBVIOUS
<1>. HIDE DEF s
<1>7. Lists(pushed, L1)
  <2>1. page \in Pages /\ s \in Heads /\ Lists(t, L)
    BY <1>1, <1>2
  <2>2. Lists(Pushed(t, s, page), [L EXCEPT ![s] = L[s] \cup {page}])
    BY <1>4, <2>1, PushedLists
  <2>. QED  BY <1>6, <2>2
<1>8. /\ u \in [slab : [Nodes -> Int], next : [Nodes -> Int], prev : [Nodes -> Int]]
      /\ u.slab[page] = s /\ \A x \in Pages \ {page} : u.slab[x] = t.slab[x]
      /\ u.next = [t.next EXCEPT ![page] = s, ![s] = page]
      /\ u.prev = [t.prev EXCEPT ![page] = s]
  <2>1. u = [t EXCEPT !.slab[page] = s, !.next[page] = s, !.next[s] = page, !.prev[page] = s]
    BY DEF s, Only
  <2>2. page \in Int
    BY HeadsNotPages
  <2>3. u = [slab |-> [t.slab EXCEPT ![page] = s],
             next |-> [t.next EXCEPT ![page] = s, ![s] = page],
             prev |-> [t.prev EXCEPT ![page] = s]]
    BY <1>5, <2>1
  <2>4. Pages \subseteq Nodes
    BY HeadsNotPages
  <2>5. [t.slab EXCEPT ![page] = s] \in [Nodes -> Int]
    BY <1>1, <1>5
  <2>6. [t.next EXCEPT ![page] = s, ![s] = page] \in [Nodes -> Int]
    BY <1>1, <1>5, <2>2
  <2>7. [t.prev EXCEPT ![page] = s] \in [Nodes -> Int]
    BY <1>1, <1>5
  <2>8. u \in [slab : [Nodes -> Int], next : [Nodes -> Int], prev : [Nodes -> Int]]
    BY <2>3, <2>5, <2>6, <2>7
  <2>9. u.slab[page] = s /\ \A x \in Pages \ {page} : u.slab[x] = t.slab[x]
    BY <1>1, <1>5, <2>3, <2>4
  <2>. QED  BY <2>3, <2>8, <2>9
<1>9. pushed.next = [t.next EXCEPT ![s] = page, ![page] = s] /\ pushed.prev = [t.prev EXCEPT ![s] = page, ![page] = s]
  BY <1>3, <1>5 DEF Pushed
<1>. HIDE DEF pushed
<1>10. Lists(u, L1)
  <2>1. u.next = pushed.next
    BY <1>1, <1>5, <1>8, <1>9
  <2>2. \A x \in Pages : u.prev[x] = pushed.prev[x]
    BY <1>1, <1>5, <1>8, <1>9, HeadsNotPages
  <2>3. \A g \in Heads : L1[g] \subseteq Pages
    BY <1>7 DEF Lists
  <2>4. \A g \in Heads : \A x \in L1[g] : u.prev[x] = pushed.prev[x]
    BY <2>2, <2>3
  <2>5. \A g \in Heads : \A x \in L1[g] \cup {g} : u.next[x] = pushed.next[x]
    BY <2>1
  <2>6. u \in [slab : [Nodes -> Int], next : [Nodes -> Int], prev : [Nodes -> Int]]
    BY <1>8
  <2>. HIDE DEF pushed
  <2>7. \A g \in Heads : \A x \in L1[g] \cup {g} : u.next[x] = pushed.next[x]
    BY <2>5
  <2>. QED  BY <1>7, <2>4, <2>6, <2>7, ListsKept
<1>11. L1[s] = {page} /\ \A g \in Heads \ {s} : L1[g] = L[g]
  BY <1>6a
<1>12. Runs(u.slab, F, L1[FreeHead]) /\ Apart(u.slab, F, L1[FreeHead])
  <2>1. Runs(t.slab, F, L[FreeHead]) /\ F \subseteq Pages
    BY DEF Sound, Runs
  <2>2. \A x \in F : u.slab[x] = t.slab[x]
    BY <1>8, <2>1
  <2>3. Runs(t.slab, F, L[FreeHead])
    BY <2>1
  <2>4. Runs(u.slab, F, L[FreeHead]) /\ Apart(u.slab, F, L[FreeHead])
    BY <2>2, <2>3, RunsSame
  <2>5. L1[FreeHead] = L[FreeHead]
    BY <1>1, <1>11, HeadsNotPages
  <2>. QED  BY <2>4, <2>5
<1>13. \A g \in Heads \ {FreeHead} : L1[g] \cap F = {}
  BY <1>11 DEF Sound
<1>14. ASSUME NEW x \in Pages \ F PROVE u.slab[x] # 0 /\ (u.next[x] = Null \/ IsListed(L1, x))
  <2>1. CASE x = page
    BY <1>1, <1>8, <1>11, <2>1 DEF IsListed
  <2>2. CASE x # page
    <3>1. u.slab[x] = t.slab[x] /\ u.next[x] = t.next[x]
      BY <1>1, <1>5, <1>8, <2>2, HeadsNotPages
    <3>2. IsListed(L, x) => IsListed(L1, x)
      BY <1>11 DEF IsListed, s
    <3>. QED  BY <3>1, <3>2 DEF Sound
  <2>. QED  BY <2>1, <2>2
<1>15. Sound(u, F, L1)
  BY <1>10, <1>12, <1>13, <1>14 DEF Sound
<1>. QED  BY <1>8, <1>12, <1>15 DEF s

LEMMA AllocNewPageOK ==
  ASSUME NEW L, SlabOK(L), NEW h \in Handles, NEW c \in Classes, AllocNewPage(h, c)
  PROVE  SlabInv'
<1>1. held[h] = <<>> /\ mem.next[Slot(c)] = Slot(c)
  BY DEF AllocNewPage, Unheld
<1>2. CASE UNCHANGED slabVars
  BY <1>2, SlabStutterOK
<1>. DEFINE one == 1
<1>0. one \in Nat /\ one >= 1 /\ one = 1
  OBVIOUS
<1>. HIDE DEF one
<1>3. ASSUME NEW page \in Fits(mem, one), mem' = Only(TakenPages(mem, page, one), c, page),
             used' = [used EXCEPT ![page] = 0 .. Reserved[c]],
             held' = [held EXCEPT ![h] = <<"chunk", page, Reserved[c]>>]
      PROVE  SlabInv'
  <2>. DEFINE s == Slot(c)
              k == Reserved[c]
              v == <<"chunk", page, k>>
              t == TakenPages(mem, page, one)
              F == Free \ {page}
  <2>1. Sound(mem, Free, L) /\ Apart(mem.slab, Free, L[FreeHead]) /\ HeldOK /\ UsedOK(L) /\ Disjoint
    BY DEF SlabOK
  <2>2. s \in Heads /\ s # FreeHead /\ s \notin Pages
    BY HeadsNotPages
  <2>3. L[s] = {}
    <3>1. IsList(mem.next, mem.prev, s, L[s])
      BY <2>1, <2>2 DEF Sound, Lists
    <3>2. mem.next[s] = s
      BY <1>1
    <3>. HIDE DEF s
    <3>. QED  BY <2>2, <3>1, <3>2, ListEmpty
  <2>4. page \in L[FreeHead] /\ mem.slab[page] >= one
    BY <2>1, FitsSound
  <2>5. page \in Pages /\ page \in Int
    BY <2>1, <2>4, HeadsNotPages DEF Sound, Lists
  <2>6. PICK L0 : TakenTo(mem, Free, L, page, one, t, L0)
    BY <1>0, <2>1, <2>4, TakenSound
  <2>7. page .. page + one - 1 = {page}
    BY <1>0, <2>5
  <2>8. /\ Sound(t, F, L0) /\ Apart(t.slab, F, L0[FreeHead])
        /\ \A g \in Heads \ {FreeHead} : L0[g] = L[g]
        /\ \A x \in Pages \ Free : t.slab[x] = mem.slab[x]
        /\ t.next[page] = Null
        /\ page \in Free
    BY <2>6, <2>7 DEF TakenTo
  <2>9. L0 \in [Heads -> SUBSET Pages]
    BY <2>8 DEF Sound, Lists
  <2>. DEFINE L1 == [L0 EXCEPT ![s] = {page}]
  <2>10. /\ L1 \in [Heads -> SUBSET Pages] /\ L1[Slot(c)] = {page} /\ L0[Slot(c)] = {}
         /\ \A g \in Heads \ {Slot(c)} : L1[g] = L0[g]
    BY <2>2, <2>3, <2>5, <2>8, <2>9
  <2>. HIDE DEF L1, t, F
  <2>11. /\ Sound(mem', F, L1) /\ Apart(mem'.slab, F, L1[FreeHead])
         /\ mem'.slab[page] = s /\ \A x \in Pages \ {page} : mem'.slab[x] = t.slab[x]
    <3>1. page \in Pages \ F
      BY <2>5 DEF F
    <3>2. mem' = Only(t, c, page)
      BY <1>3 DEF t
    <3>3. L1 \in [Heads -> SUBSET Pages]
      BY <2>10
    <3>4. L1[Slot(c)] = {page}
      BY <2>10
    <3>5. L0[Slot(c)] = {}
      BY <2>10
    <3>6. \A g \in Heads \ {Slot(c)} : L1[g] = L0[g]
      BY <2>10
    <3>7. Sound(t, F, L0) /\ Apart(t.slab, F, L0[FreeHead]) /\ t.next[page] = Null
      BY <2>8
    <3>. QED  BY <3>1, <3>2, <3>3, <3>4, <3>5, <3>6, <3>7, NewPageSound
  <2>12. /\ InUse' = InUse \cup {h} /\ h \notin InUse /\ held'[h] = v
         /\ \A g \in InUse : held'[g] = held[g] /\ Covered(g)' = Covered(g)
         /\ Taken' = Taken \cup Covered(h)'
    BY <1>1, <1>3, <2>1, Gets
  <2>13. Covered(h)' = {page}
    BY <2>12 DEF Covered
  <2>14. Free' = F
    BY <2>12, <2>13 DEF Free, F
  <2>15. \A g \in InUse : Covered(g) \subseteq Taken /\ Covered(g) \subseteq Pages
    BY <2>1, HoldsCovered
  <2>16. \A x \in Taken : mem'.slab[x] = mem.slab[x]
    BY <2>8, <2>11, <2>15 DEF Free, Taken
  <2>17. k \in Nat /\ k \in Reserved[c] .. Chunks[c] - 1
    BY Slots
  <2>18. HoldsChunk(h)'
    BY <2>5, <2>11, <2>12, <2>17 DEF HoldsChunk
  <2>19. v \in Pointers /\ v # <<>> /\ v[1] = "chunk" /\ v[2] = page /\ v[3] = k
    BY <2>5, <2>17 DEF Pointers
  <2>20. held' = [held EXCEPT ![h] = v]
    BY <1>3
  <2>. HIDE DEF v
  <2>21. \A g \in InUse : page \notin Covered(g)
    BY <2>8, <2>15 DEF Free
  <2>22. HeldOK' /\ Disjoint'
    <3>1. \A g \in InUse : Covered(g) \cap Covered(h)' # {} =>
            held[g][1] = "chunk" /\ v[1] = "chunk" /\ held[g][3] # v[3]
      BY <2>13, <2>21
    <3>2. HoldsPages(h)' \/ HoldsChunk(h)'
      BY <2>18
    <3>. QED  BY <1>1, <2>1, <2>16, <2>19, <2>20, <3>1, <3>2, HeldGets
  <2>23. \A p : /\ p # page => ChunksHeld(p)' = ChunksHeld(p)
                /\ p = page => ChunksHeld(p)' = {k}
    <3>1. ASSUME NEW p
          PROVE  /\ ~(v[1] = "chunk" /\ v[2] = p) => ChunksHeld(p)' = ChunksHeld(p)
                 /\ v[1] = "chunk" /\ v[2] = p => ChunksHeld(p)' = ChunksHeld(p) \cup {v[3]}
      BY <1>1, <2>1, <2>19, <2>20, ChunksGet
    <3>2. ASSUME NEW g \in InUse, held[g][1] = "chunk" PROVE held[g][2] # page
      <4>1. Covered(g) = {held[g][2]}
        BY <3>2 DEF Covered
      <4>. QED  BY <2>21, <4>1
    <3>3. \A p : p = page => ChunksHeld(p) = {}
      BY <3>2 DEF ChunksHeld
    <3>. QED  BY <2>19, <3>1, <3>3
  <2>24. \A d \in Classes : Slot(d) \in Heads /\ Slot(d) # FreeHead /\ (d # c => Slot(d) # s)
    BY Slots, HeadsNotPages
  <2>25. \A d \in Classes : L1[Slot(d)] = IF d = c THEN {page} ELSE L[Slot(d)]
    BY <2>8, <2>10, <2>24
  <2>26. UsedOK(L1)'
    <3>1. used' \in [Pages -> SUBSET Int]
      <4>1. 0 .. Reserved[c] \in SUBSET Int
        OBVIOUS
      <4>. QED  BY <1>3, <2>1, <4>1 DEF UsedOK
    <3>2. ASSUME NEW d \in Classes, NEW p \in L1[Slot(d)] PROVE mem'.slab[p] = Slot(d)
      <4>1. CASE d = c
        BY <2>11, <2>25, <3>2, <4>1
      <4>2. CASE d # c
        <5>1. p \in L[Slot(d)]
          BY <2>25, <3>2, <4>2
        <5>2. p \in Pages \ Free
          BY <2>1, <5>1, SlotList
        <5>3. mem.slab[p] = Slot(d)
          BY <2>1, <5>1 DEF UsedOK
        <5>. QED  BY <2>8, <2>11, <5>2, <5>3
      <4>. QED  BY <4>1, <4>2
    <3>3. ASSUME NEW d \in Classes, NEW p \in Pages, mem'.slab[p] = Slot(d), p # page
          PROVE  /\ used'[p] = (0 .. Reserved[d] - 1) \cup ChunksHeld(p)'
                 /\ p \in L1[Slot(d)] <=> used'[p] # 0 .. Chunks[d] - 1
      <4>1. p \notin F
        BY <2>11, <3>3, InChunks
      <4>2. mem.slab[p] = Slot(d)
        BY <2>8, <2>11, <3>3, <4>1 DEF F
      <4>3. p \in L1[Slot(d)] <=> p \in L[Slot(d)]
        BY <2>3, <2>25, <3>3
      <4>4. used'[p] = used[p]
        BY <1>3, <2>1, <3>3 DEF UsedOK
      <4>. QED  BY <2>1, <2>23, <3>3, <4>2, <4>3, <4>4 DEF UsedOK
    <3>4. ASSUME NEW d \in Classes, NEW p \in Pages, mem'.slab[p] = Slot(d), p = page
          PROVE  /\ used'[p] = (0 .. Reserved[d] - 1) \cup ChunksHeld(p)'
                 /\ p \in L1[Slot(d)] <=> used'[p] # 0 .. Chunks[d] - 1
      <4>1. d = c
        BY <2>11, <2>24, <3>4
      <4>2. used'[p] = 0 .. Reserved[c]
        BY <1>3, <2>1, <3>4 DEF UsedOK
      <4>3. 0 .. Reserved[c] = (0 .. Reserved[c] - 1) \cup {Reserved[c]}
        BY Slots
      <4>4. Reserved[c] + 1 \in 0 .. Chunks[c] - 1 /\ Reserved[c] + 1 \notin 0 .. Reserved[c]
        BY Slots
      <4>5. p \in L1[Slot(d)]
        BY <2>25, <3>4, <4>1
      <4>6. ChunksHeld(p)' = {k}
        BY <2>23, <3>4
      <4>. QED  BY <4>1, <4>2, <4>3, <4>4, <4>5, <4>6
    <3>5. \A d \in Classes : \A p \in Pages : mem'.slab[p] = Slot(d) =>
            /\ used'[p] = (0 .. Reserved[d] - 1) \cup ChunksHeld(p)'
            /\ p \in L1[Slot(d)] <=> used'[p] # 0 .. Chunks[d] - 1
      BY <3>3, <3>4
    <3>. QED  BY <3>1, <3>2, <3>5 DEF UsedOK
  <2>. QED  BY <2>11, <2>14, <2>22, <2>26 DEF SlabOK, SlabInv
<1>4. CASE \E page \in Fits(mem, 1) :
             /\ mem' = [TakenPages(mem, page, 1) EXCEPT
                          !.slab[page] = Slot(c), !.next[page] = Slot(c),
                          !.next[Slot(c)] = page, !.prev[page] = Slot(c)]
             /\ used' = [used EXCEPT ![page] = 0 .. Reserved[c]]
             /\ held' = [held EXCEPT ![h] = <<"chunk", page, Reserved[c]>>]
  BY <1>0, <1>3, <1>4 DEF Only
<1>. QED  BY <1>2, <1>4 DEF AllocNewPage

(* A page that somebody holds is in no list but that of its class.         *)
LEMMA ListedInClass ==
  ASSUME NEW L, Sound(mem, Free, L), UsedOK(L), NEW x \in Pages \ Free, IsListed(L, x)
  PROVE  \E c \in Classes : x \in L[Slot(c)] /\ mem.slab[x] = Slot(c)
<1>1. PICK g \in Heads : x \in L[g]
  BY DEF IsListed
<1>2. g # FreeHead
  BY <1>1 DEF Sound, Runs
<1>3. PICK c \in Classes : g = Slot(c)
  BY <1>2 DEF Heads
<1>4. mem.slab[x] = Slot(c)
  BY <1>1, <1>3 DEF UsedOK
<1>. QED  BY <1>1, <1>3, <1>4

LEMMA FreePagesOK ==
  ASSUME NEW L, SlabOK(L), NEW h \in Handles, FreePages(h)
  PROVE  SlabInv'
<1>1. Sound(mem, Free, L) /\ Apart(mem.slab, Free, L[FreeHead]) /\ HeldOK /\ UsedOK(L) /\ Disjoint
  BY DEF SlabOK
<1>2. h \in InUse /\ held[h][1] = "pages" /\ used' = used /\ held' = [held EXCEPT ![h] = <<>>]
  BY DEF FreePages, InUse
<1>3. HoldsPages(h)
  <2>1. ~HoldsChunk(h)
    BY <1>2 DEF HoldsChunk
  <2>. QED  BY <1>1, <1>2, <2>1 DEF HeldOK
<1>4. PICK p \in Pages, n \in Pages :
        /\ held[h] = <<"pages", p, n>> /\ p + n - 1 \in Pages
        /\ mem.slab[p] = Start + n /\ \A x \in p + 1 .. p + n - 1 : mem.slab[x] = Busy
  BY <1>3 DEF HoldsPages
<1>. DEFINE run == p .. p + n - 1
            F == Free \cup run
<1>5. n \in Nat /\ n >= 1 /\ p \in Int /\ mem.slab[p] - Start = n /\ mem.slab[p] > 0 /\ Busy > 0
  BY <1>4, HeadsNotPages, Codes DEF Pages
<1>6. mem' = ReturnedPages(mem, p, n)
  BY <1>4, <1>5 DEF FreePages
<1>7. Covered(h) = run /\ run \subseteq Taken /\ run \subseteq Pages
  <2>1. /\ Covered(h) \subseteq Pages /\ Covered(h) \subseteq Taken
        /\ \A q, k \in Pages : held[h] = <<"pages", q, k>> => Covered(h) = q .. q + k - 1 /\ q \in Covered(h)
    BY <1>1, <1>2, HoldsCovered
  <2>. QED  BY <1>4, <2>1
<1>8. \A x \in run : mem.slab[x] > 0
  <2>1. run = {p} \cup (p + 1 .. p + n - 1)
    BY <1>5
  <2>. QED  BY <1>4, <1>5, <2>1
<1>9. Returnable(mem, Free, L, p, n)
  <2>1. run \subseteq Pages \ Free
    BY <1>7 DEF Free
  <2>2. ASSUME NEW x \in p + 1 .. p + n - 1 PROVE ~IsListed(L, x)
    <3>1. x \in run
      BY <1>5
    <3>. QED  BY <1>1, <1>8, <2>1, <3>1, ListedInClass, Slots
  <2>. QED  BY <1>1, <1>5, <2>1, <2>2 DEF Returnable
<1>10. PICK L1 :
         /\ Sound(mem', F, L1) /\ Apart(mem'.slab, F, L1[FreeHead])
         /\ \A g \in Heads \ {FreeHead} : L1[g] = L[g] \ {p}
         /\ \A x \in Pages \ F : mem'.slab[x] = mem.slab[x]
  <2>1. PICK L1 : ReturnedTo(mem, Free, L, p, n, mem', L1)
    BY <1>6, <1>9, ReturnedSound
  <2>. QED  BY <2>1 DEF ReturnedTo
<1>11. /\ InUse' = InUse \ {h}
       /\ \A g \in InUse \ {h} : held'[g] = held[g] /\ Covered(g)' = Covered(g)
  BY <1>1, <1>2, GivesBack
<1>12. \A g \in InUse \ {h} : Covered(g) \cap run = {}
  BY <1>1, <1>2, <1>7 DEF Disjoint
<1>13. Taken' = Taken \ run
  BY <1>7, <1>11, <1>12 DEF Taken
<1>14. Free' = F
  BY <1>7, <1>13 DEF Free
<1>15. \A g \in InUse : Covered(g) \subseteq Taken /\ Covered(g) \subseteq Pages
  BY <1>1, HoldsCovered
<1>16. \A g \in InUse \ {h} : \A x \in Covered(g) : mem'.slab[x] = mem.slab[x]
  BY <1>10, <1>12, <1>15 DEF Free
<1>17. HeldOK' /\ Disjoint'
  BY <1>1, <1>2, <1>16, HeldGivesBack
<1>18. \A q : ChunksHeld(q)' = ChunksHeld(q)
  <2>1. held[h][1] # "chunk"
    BY <1>2
  <2>2. held' = [held EXCEPT ![h] = <<>>]
    BY <1>2
  <2>. QED  BY <1>1, <1>2, <2>1, <2>2, ChunksGiveBack
<1>19. \A c \in Classes : L1[Slot(c)] = L[Slot(c)]
  <2>1. \A c \in Classes : p \notin L[Slot(c)]
    BY <1>1, <1>5, Slots DEF UsedOK
  <2>. QED  BY <1>10, <2>1, HeadsNotPages
<1>20. UsedOK(L1)'
  <2>1. used' \in [Pages -> SUBSET Int]
    BY <1>1, <1>2 DEF UsedOK
  <2>2. ASSUME NEW c \in Classes, NEW q \in L1[Slot(c)] PROVE mem'.slab[q] = Slot(c)
    <3>1. q \in L[Slot(c)]
      BY <1>19
    <3>2. q \in Pages \ Free /\ mem.slab[q] = Slot(c)
      BY <1>1, <3>1, SlotList DEF UsedOK
    <3>3. q \notin run
      BY <1>8, <3>2, Slots
    <3>. QED  BY <1>10, <3>2, <3>3
  <2>3. ASSUME NEW c \in Classes, NEW q \in Pages, mem'.slab[q] = Slot(c) PROVE mem.slab[q] = Slot(c)
    <3>1. q \notin F
      BY <1>10, <2>3, InChunks
    <3>. QED  BY <1>10, <2>3, <3>1
  <2>4. \A c \in Classes : \A q \in Pages : mem'.slab[q] = Slot(c) =>
          /\ used'[q] = (0 .. Reserved[c] - 1) \cup ChunksHeld(q)'
          /\ q \in L1[Slot(c)] <=> used'[q] # 0 .. Chunks[c] - 1
    BY <1>1, <1>2, <1>18, <1>19, <2>3 DEF UsedOK
  <2>. QED  BY <2>1, <2>2, <2>4 DEF UsedOK
<1>. HIDE DEF F
<1>. QED  BY <1>10, <1>14, <1>17, <1>20 DEF SlabOK, SlabInv

(* After a chunk of it has come back, the page is in the list of its class. *)
LEMMA RelistedSound ==
  ASSUME NEW L, Sound(mem, Free, L), Apart(mem.slab, Free, L[FreeHead]), UsedOK(L),
         NEW c \in Classes, NEW page \in Pages, mem.slab[page] = Slot(c),
         NEW m, m = IF mem.next[page] = Null THEN Pushed(mem, Slot(c), page) ELSE mem
  PROVE  \E L1 : /\ Sound(m, Free, L1) /\ Apart(m.slab, Free, L1[FreeHead])
                 /\ L1[Slot(c)] = L[Slot(c)] \cup {page}
                 /\ \A g \in Heads \ {Slot(c)} : L1[g] = L[g]
                 /\ m.slab = mem.slab
<1>. DEFINE s == Slot(c)
            L1 == [L EXCEPT ![s] = L[s] \cup {page}]
<1>1. page \notin Free
  BY InChunks
<1>2. s \in Heads /\ s # FreeHead /\ Lists(mem, L)
  BY HeadsNotPages DEF Sound
<1>3. L \in [Heads -> SUBSET Pages]
  BY <1>2 DEF Lists
<1>4. L1[s] = L[s] \cup {page} /\ \A g \in Heads \ {s} : L1[g] = L[g]
  BY <1>2, <1>3
<1>5. CASE mem.next[page] # Null
  <2>1. IsListed(L, page)
    BY <1>1, <1>5 DEF Sound
  <2>2. PICK d \in Classes : page \in L[Slot(d)] /\ mem.slab[page] = Slot(d)
    BY <1>1, <2>1, ListedInClass
  <2>3. page \in L[s]
    BY <2>2, Slots
  <2>4. L1 = L
    BY <1>2, <1>3, <2>3
  <2>5. m = mem
    BY <1>5
  <2>. HIDE DEF s, L1
  <2>. QED  BY <1>4, <2>4, <2>5 DEF s
<1>6. CASE mem.next[page] = Null
  <2>1. ~IsListed(L, page)
    BY <1>2, <1>6, ListedNext
  <2>2. m = Pushed(mem, s, page)
    BY <1>6
  <2>3. /\ Lists(m, L1) /\ m.slab = mem.slab
        /\ \A x \in Pages \ {page} : m.next[x] = mem.next[x]
    <3>. HIDE DEF s
    <3>1. /\ Lists(Pushed(mem, s, page), L1) /\ Pushed(mem, s, page).slab = mem.slab
          /\ \A x \in Pages \ {page} : Pushed(mem, s, page).next[x] = mem.next[x]
      BY <1>2, <2>1, PushedLists
    <3>. QED  BY <2>2, <3>1
  <2>. HIDE DEF s, L1
  <2>4. ASSUME NEW x \in Pages \ Free PROVE m.slab[x] # 0 /\ (m.next[x] = Null \/ IsListed(L1, x))
    <3>1. m.slab[x] # 0
      BY <2>3 DEF Sound
    <3>2. CASE x = page
      BY <1>2, <1>4, <3>1, <3>2 DEF IsListed
    <3>3. CASE x # page
      <4>1. IsListed(L, x) => IsListed(L1, x)
        BY <1>4 DEF IsListed
      <4>2. m.next[x] = mem.next[x]
        BY <2>3, <3>3
      <4>. QED  BY <3>1, <4>1, <4>2 DEF Sound
    <3>. QED  BY <3>2, <3>3
  <2>5. \A g \in Heads \ {FreeHead} : L1[g] \cap Free = {}
    BY <1>1, <1>4 DEF Sound
  <2>6. L1[FreeHead] = L[FreeHead]
    BY <1>2, <1>4, HeadsNotPages
  <2>7. Sound(m, Free, L1) /\ Apart(m.slab, Free, L1[FreeHead])
    BY <2>3, <2>4, <2>5, <2>6 DEF Sound
  <2>. QED  BY <1>4, <2>3, <2>7 DEF s
<1>. QED  BY <1>5, <1>6

LEMMA FreeChunkOK ==
  ASSUME NEW L, SlabOK(L), NEW h \in Handles, FreeChunk(h)
  PROVE  SlabInv'
<1>1. Sound(mem, Free, L) /\ Apart(mem.slab, Free, L[FreeHead]) /\ HeldOK /\ UsedOK(L) /\ Disjoint
  BY DEF SlabOK
<1>2. h \in InUse /\ held[h][1] = "chunk" /\ held' = [held EXCEPT ![h] = <<>>]
  BY DEF FreeChunk, InUse
<1>3. PICK page \in Pages, c \in Classes : \E k \in Reserved[c] .. Chunks[c] - 1 :
        /\ held[h] = <<"chunk", page, k>> /\ mem.slab[page] = Slot(c) /\ Covered(h) = {page}
        /\ held[h][2] = page /\ held[h][3] = k /\ -mem.slab[held[h][2]] = c
  BY <1>1, <1>2, ChunkHeld
<1>4. PICK k \in Reserved[c] .. Chunks[c] - 1 :
        /\ mem.slab[page] = Slot(c) /\ Covered(h) = {page}
        /\ held[h][2] = page /\ held[h][3] = k /\ -mem.slab[page] = c
  BY <1>3
<1>. DEFINE s == Slot(c)
            one == 1
            left == used[page] \ {k}
            m == IF mem.next[page] = Null THEN Pushed(mem, s, page) ELSE mem
<1>5. /\ used' = [used EXCEPT ![page] = left]
      /\ mem' = IF left \subseteq 0 .. Reserved[c] - 1 THEN ReturnedPages(m, page, one) ELSE m
  BY <1>4 DEF FreeChunk
<1>6. one \in Nat /\ one >= 1 /\ one = 1
  OBVIOUS
<1>. HIDE DEF one
<1>7. PICK L1 : /\ Sound(m, Free, L1) /\ Apart(m.slab, Free, L1[FreeHead])
                /\ L1[s] = L[s] \cup {page}
                /\ \A g \in Heads \ {s} : L1[g] = L[g]
                /\ m.slab = mem.slab
  <2>. DEFINE u == m
  <2>1. u = IF mem.next[page] = Null THEN Pushed(mem, Slot(c), page) ELSE mem
    OBVIOUS
  <2>. HIDE DEF u, m, s
  <2>2. mem.slab[page] = Slot(c)
    BY <1>4
  <2>. QED  BY <1>1, <2>1, <2>2, RelistedSound DEF u, s
<1>. HIDE DEF m, s
<1>8. /\ used[page] = (0 .. Reserved[c] - 1) \cup ChunksHeld(page)
      /\ k \in ChunksHeld(page) /\ s = Slot(c)
  BY <1>1, <1>2, <1>4 DEF UsedOK, ChunksHeld, s
<1>9. k \in Nat /\ k >= Reserved[c] /\ k \in 0 .. Chunks[c] - 1
  BY Slots
<1>10. /\ InUse' = InUse \ {h}
       /\ \A g \in InUse \ {h} : held'[g] = held[g] /\ Covered(g)' = Covered(g)
  BY <1>1, <1>2, GivesBack
<1>11. \A g \in InUse : Covered(g) \subseteq Taken /\ Covered(g) \subseteq Pages
  BY <1>1, HoldsCovered
<1>12. \A q : /\ q # page => ChunksHeld(q)' = ChunksHeld(q)
              /\ q = page => ChunksHeld(q)' = ChunksHeld(q) \ {k}
  <2>1. ASSUME NEW q
        PROVE  /\ ~(held[h][1] = "chunk" /\ held[h][2] = q) => ChunksHeld(q)' = ChunksHeld(q)
               /\ held[h][1] = "chunk" /\ held[h][2] = q => ChunksHeld(q)' = ChunksHeld(q) \ {held[h][3]}
    BY <1>1, <1>2, ChunksGiveBack
  <2>. QED  BY <1>2, <1>4, <2>1
<1>13. \A d \in Classes : /\ Slot(d) \in Heads /\ Slot(d) # FreeHead /\ (d # c => Slot(d) # s)
                          /\ L1[Slot(d)] = IF d = c THEN L[Slot(d)] \cup {page} ELSE L[Slot(d)]
  BY <1>7, <1>8, Slots, HeadsNotPages
<1>14. \A d \in Classes : \A q \in L1[Slot(d)] : mem.slab[q] = Slot(d) /\ q \in Pages /\ q \notin Free
  <2>1. ASSUME NEW d \in Classes, NEW q \in L1[Slot(d)] PROVE mem.slab[q] = Slot(d)
    BY <1>1, <1>4, <1>13 DEF UsedOK
  <2>2. ASSUME NEW d \in Classes, NEW q \in L1[Slot(d)] PROVE q \in Pages \ Free
    BY <1>7, SlotList
  <2>. QED  BY <2>1, <2>2
<1>15. used' \in [Pages -> SUBSET Int]
  BY <1>1, <1>5 DEF UsedOK
<1>16. \A q \in Pages : used'[q] = IF q = page THEN left ELSE used[q]
  BY <1>1, <1>5 DEF UsedOK
<1>17. \A d \in Classes : \A q \in Pages : mem.slab[q] = Slot(d) /\ q # page =>
         /\ used'[q] = (0 .. Reserved[d] - 1) \cup ChunksHeld(q)'
         /\ q \in L1[Slot(d)] <=> used'[q] # 0 .. Chunks[d] - 1
  <2>1. ASSUME NEW d \in Classes, NEW q \in Pages, mem.slab[q] = Slot(d), q # page
        PROVE  /\ used'[q] = (0 .. Reserved[d] - 1) \cup ChunksHeld(q)'
               /\ q \in L1[Slot(d)] <=> used'[q] # 0 .. Chunks[d] - 1
    <3>1. used'[q] = used[q] /\ ChunksHeld(q)' = ChunksHeld(q)
      BY <1>12, <1>16, <2>1
    <3>2. q \in L1[Slot(d)] <=> q \in L[Slot(d)]
      BY <1>13, <2>1
    <3>3. /\ used[q] = (0 .. Reserved[d] - 1) \cup ChunksHeld(q)
          /\ q \in L[Slot(d)] <=> used[q] # 0 .. Chunks[d] - 1
      BY <1>1, <2>1 DEF UsedOK
    <3>. QED  BY <3>1, <3>2, <3>3
  <2>. QED  BY <2>1
<1>18. CASE left \subseteq 0 .. Reserved[c] - 1
  <2>1. mem' = ReturnedPages(m, page, one)
    BY <1>5, <1>18
  <2>2. page \notin Free
    BY <1>1, <1>4, InChunks
  <2>. DEFINE F == Free \cup {page}
  <2>3. page .. page + one - 1 = {page} /\ page + 1 .. page + one - 1 = {}
    BY <1>6, HeadsNotPages
  <2>4. Returnable(m, Free, L1, page, one)
    BY <1>6, <1>7, <2>2, <2>3 DEF Returnable
  <2>5. PICK L2 : ReturnedTo(m, Free, L1, page, one, mem', L2)
    BY <2>1, <2>4, ReturnedSound
  <2>6. /\ Sound(mem', F, L2) /\ Apart(mem'.slab, F, L2[FreeHead])
        /\ \A g \in Heads \ {FreeHead} : L2[g] = L1[g] \ {page}
        /\ \A x \in Pages \ F : mem'.slab[x] = mem.slab[x]
    BY <1>7, <2>3, <2>5 DEF ReturnedTo
  <2>7. ASSUME NEW g \in InUse \ {h} PROVE page \notin Covered(g)
    <3>. SUFFICES ASSUME page \in Covered(g) PROVE FALSE
      OBVIOUS
    <3>1. held[g][3] \in ChunksHeld(page) /\ held[g][3] \in Reserved[c] .. Chunks[c] - 1
      BY <1>1, <1>4, CoveredChunk
    <3>2. held[g][3] # k
      BY <1>1, <1>2, <1>4 DEF Disjoint
    <3>3. held[g][3] \in 0 .. Reserved[c] - 1
      BY <1>8, <1>18, <3>1, <3>2
    <3>. QED  BY <3>1, <3>3, Slots
  <2>8. Taken' = Taken \ {page}
    BY <1>2, <1>4, <1>10, <2>7 DEF Taken
  <2>9. Free' = F
    BY <2>8 DEF Free
  <2>10. \A g \in InUse \ {h} : \A x \in Covered(g) : mem'.slab[x] = mem.slab[x]
    BY <1>11, <2>6, <2>7 DEF Free
  <2>11. HeldOK' /\ Disjoint'
    BY <1>1, <1>2, <2>10, HeldGivesBack
  <2>12. \A d \in Classes : \A q \in Pages \ {page} : q \in L2[Slot(d)] <=> q \in L1[Slot(d)]
    BY <1>13, <2>6
  <2>13. \A d \in Classes : L2[Slot(d)] \subseteq L1[Slot(d)] \ {page}
    BY <1>13, <2>6
  <2>14. UsedOK(L2)'
    <3>1. ASSUME NEW d \in Classes, NEW q \in L2[Slot(d)] PROVE mem'.slab[q] = Slot(d)
      <4>1. q \in L1[Slot(d)] /\ q # page
        BY <2>13
      <4>. QED  BY <1>14, <2>6, <4>1
    <3>2. ASSUME NEW d \in Classes, NEW q \in Pages, mem'.slab[q] = Slot(d)
          PROVE  q # page /\ mem.slab[q] = Slot(d)
      <4>1. q \notin F
        BY <2>6, <3>2, InChunks
      <4>. QED  BY <2>6, <3>2, <4>1
    <3>3. ASSUME NEW d \in Classes, NEW q \in Pages, mem'.slab[q] = Slot(d)
          PROVE  /\ used'[q] = (0 .. Reserved[d] - 1) \cup ChunksHeld(q)'
                 /\ q \in L2[Slot(d)] <=> used'[q] # 0 .. Chunks[d] - 1
      <4>1. q # page /\ mem.slab[q] = Slot(d)
        BY <3>2, <3>3
      <4>. QED  BY <1>17, <2>12, <4>1
    <3>. QED  BY <1>15, <3>1, <3>3 DEF UsedOK
  <2>. HIDE DEF F
  <2>. QED  BY <2>6, <2>9, <2>11, <2>14 DEF SlabOK, SlabInv
<1>19. CASE ~(left \subseteq 0 .. Reserved[c] - 1)
  <2>1. mem' = m
    BY <1>5, <1>19
  <2>2. PICK g \in InUse : held[g][1] = "chunk" /\ held[g][2] = page /\ held[g][3] # k
    BY <1>8, <1>19 DEF ChunksHeld
  <2>3. g # h /\ Covered(g) = {page}
    BY <1>4, <2>2 DEF Covered
  <2>4. Taken' = Taken
    BY <1>2, <1>4, <1>10, <2>3 DEF Taken
  <2>5. Free' = Free
    BY <2>4 DEF Free
  <2>6. Sound(mem', Free', L1) /\ Apart(mem'.slab, Free', L1[FreeHead]) /\ mem'.slab = mem.slab
    BY <1>7, <2>1, <2>5
  <2>7. HeldOK' /\ Disjoint'
    <3>1. \A f \in InUse \ {h} : \A x \in Covered(f) : mem'.slab[x] = mem.slab[x]
      BY <2>6
    <3>. QED  BY <1>1, <1>2, <3>1, HeldGivesBack
  <2>8. UsedOK(L1)'
    <3>1. ASSUME NEW d \in Classes, NEW q \in L1[Slot(d)] PROVE mem'.slab[q] = Slot(d)
      BY <1>14, <2>6
    <3>2. ASSUME NEW d \in Classes, NEW q \in Pages, mem'.slab[q] = Slot(d), q = page
          PROVE  /\ used'[q] = (0 .. Reserved[d] - 1) \cup ChunksHeld(q)'
                 /\ q \in L1[Slot(d)] <=> used'[q] # 0 .. Chunks[d] - 1
      <4>1. d = c
        BY <1>4, <2>6, <3>2, Slots
      <4>2. used'[q] = left
        BY <1>16, <3>2
      <4>3. used[q] = (0 .. Reserved[c] - 1) \cup ChunksHeld(q)
        BY <1>1, <1>4, <3>2 DEF UsedOK
      <4>4. k \notin 0 .. Reserved[c] - 1
        BY <1>9, Slots
      <4>5. used'[q] = (0 .. Reserved[d] - 1) \cup ChunksHeld(q)'
        BY <1>12, <3>2, <4>1, <4>2, <4>3, <4>4
      <4>6. q \in L1[Slot(d)] /\ used'[q] # 0 .. Chunks[d] - 1
        BY <1>9, <1>13, <3>2, <4>1, <4>2
      <4>. QED  BY <4>5, <4>6
    <3>3. \A d \in Classes : \A q \in Pages : mem'.slab[q] = Slot(d) =>
            /\ used'[q] = (0 .. Reserved[d] - 1) \cup ChunksHeld(q)'
            /\ q \in L1[Slot(d)] <=> used'[q] # 0 .. Chunks[d] - 1
      BY <1>17, <2>6, <3>2
    <3>. QED  BY <1>15, <3>1, <3>3 DEF UsedOK
  <2>. QED  BY <2>6, <2>7, <2>8 DEF SlabOK, SlabInv
<1>. QED  BY <1>18, <1>19

LEMMA SlabNextOK == SlabInv /\ [SlabNext]_slabVars => SlabInv'
<1>. SUFFICES ASSUME SlabInv, [SlabNext]_slabVars PROVE SlabInv'
  OBVIOUS
<1>1. PICK L : SlabOK(L)
  BY DEF SlabInv
<1>2. CASE UNCHANGED slabVars
  BY <1>1, <1>2, SlabStutterOK
<1>3. ASSUME NEW h \in Handles, NEW n \in Pages, AllocPages(h, n) PROVE SlabInv'
  BY <1>1, <1>3, AllocPagesOK
<1>4. ASSUME NEW h \in Handles, NEW c \in Classes, AllocChunk(h, c) PROVE SlabInv'
  BY <1>1, <1>4, AllocChunkOK
<1>5. ASSUME NEW h \in Handles, NEW c \in Classes, AllocNewPage(h, c) PROVE SlabInv'
  BY <1>1, <1>5, AllocNewPageOK
<1>6. ASSUME NEW h \in Handles, FreePages(h) PROVE SlabInv'
  BY <1>1, <1>6, FreePagesOK
<1>7. ASSUME NEW h \in Handles, FreeChunk(h) PROVE SlabInv'
  BY <1>1, <1>7, FreeChunkOK
<1>. QED  BY <1>2, <1>3, <1>4, <1>5, <1>6, <1>7 DEF SlabNext

(* The runs listed are the longest stretches of free pages.                *)
LEMMA RunsLongest ==
  ASSUME NEW slab, NEW F, NEW G, Runs(slab, F, G), Apart(slab, F, G), NEW p \in Pages, NEW n \in Pages
  PROVE  <<p, n>> \in {<<g, slab[g]>> : g \in G} <=>
           /\ p + n - 1 \in Pages /\ p .. p + n - 1 \subseteq F
           /\ p - 1 \notin F /\ p + n \notin F
<1>1. F \subseteq Pages /\ Pages \subseteq Int /\ G \subseteq Int /\ p \in Int /\ n \in Nat /\ n >= 1
  BY HeadsNotPages DEF Runs, Pages
<1>2. ASSUME p \in G, n = slab[p]
      PROVE  /\ p + n - 1 \in Pages /\ p .. p + n - 1 \subseteq F
             /\ p - 1 \notin F /\ p + n \notin F
  <2>1. p + n - 1 \in F
    BY <1>1, <1>2, RunFollows
  <2>2. ASSUME NEW x \in p .. p + n - 1 PROVE x \in F
    <3>1. InRun(slab, p, x)
      BY <1>1, <1>2 DEF InRun
    <3>. QED  BY <1>1, <1>2, <3>1 DEF Runs
  <2>3. p + n \notin F
    BY <1>2 DEF Apart
  <2>4. ASSUME p - 1 \in F PROVE FALSE
    <3>1. PICK g \in G : InRun(slab, g, p - 1)
      BY <2>4 DEF Runs
    <3>2. g \in Int /\ slab[g] \in Nat /\ g <= p - 1 /\ p - 1 < g + slab[g]
      BY <1>1, <3>1 DEF InRun, Runs
    <3>3. g # p /\ g <= p
      BY <1>1, <3>2
    <3>4. ~InRun(slab, g, p)
      BY <1>1, <1>2, <3>3 DEF Runs
    <3>5. g + slab[g] = p
      BY <1>1, <3>2, <3>3, <3>4 DEF InRun
    <3>6. p \in F
      BY <1>2 DEF Runs
    <3>. QED  BY <3>5, <3>6 DEF Apart
  <2>. QED  BY <1>1, <2>1, <2>2, <2>3, <2>4
<1>3. ASSUME p .. p + n - 1 \subseteq F, p - 1 \notin F, p + n \notin F
      PROVE  p \in G /\ n = slab[p]
  <2>1. p \in F
    BY <1>1, <1>3
  <2>2. PICK g \in G : InRun(slab, g, p)
    BY <2>1 DEF Runs
  <2>3. g \in Int /\ slab[g] \in Nat /\ g <= p /\ p < g + slab[g]
    BY <1>1, <2>2 DEF InRun, Runs
  <2>4. g = p
    <3>1. ~InRun(slab, g, p - 1)
      BY <1>1, <1>3 DEF Runs
    <3>. QED  BY <1>1, <2>3, <3>1 DEF InRun
  <2>5. ~(n < slab[g])
    <3>1. ~InRun(slab, g, p + n)
      BY <1>1, <1>3 DEF Runs
    <3>. QED  BY <1>1, <2>3, <2>4, <3>1 DEF InRun
  <2>6. ~(n > slab[g])
    <3>1. g + slab[g] \notin F
      BY DEF Apart
    <3>2. n > slab[g] => g + slab[g] \in p .. p + n - 1
      BY <1>1, <2>3, <2>4
    <3>. QED  BY <1>3, <3>1, <3>2
  <2>. QED  BY <1>1, <2>3, <2>4, <2>5, <2>6
<1>4. <<p, n>> \in {<<g, slab[g]>> : g \in G} <=> p \in G /\ n = slab[p]
  OBVIOUS
<1>. QED  BY <1>2, <1>3, <1>4

LEMMA SlabListed ==
  ASSUME NEW L, Sound(mem, Free, L), NEW h \in Heads
  PROVE  Listed(mem, h) = L[h] /\ ComesBack(mem, h, L[h])
<1>1. IsList(mem.next, mem.prev, h, L[h])
  BY DEF Sound, Lists
<1>2. h \notin Pages
  BY HeadsNotPages
<1>3. Listed(mem, h) = L[h]
  BY <1>1, <1>2, ListReached DEF Listed
<1>. QED  BY <1>1, <1>3 DEF IsList, ComesBack

LEMMA SlabRunsListed ==
  ASSUME NEW L, SlabOK(L)
  PROVE  {<<g, mem.slab[g]>> : g \in L[FreeHead]} = FreeRuns
<1>. DEFINE G == L[FreeHead]
            S == {<<g, mem.slab[g]>> : g \in G}
<1>1. Runs(mem.slab, Free, G) /\ Apart(mem.slab, Free, G) /\ HeldOK
  BY DEF SlabOK, Sound
<1>2. Taken \subseteq Pages
  BY <1>1, HoldsCovered DEF Taken
<1>3. \A p, n \in Pages : <<p, n>> \in FreeRuns <=>
        /\ p + n - 1 \in Pages /\ Taken \cap (p .. p + n - 1) = {}
        /\ p - 1 \in Taken \cup {0} /\ p + n \in Taken \cup {NumPages + 1}
  <2>1. ASSUME NEW p \in Pages, NEW n \in Pages PROVE (p + n) - 1 = p + n - 1
    BY HeadsNotPages
  <2>. QED  BY <2>1 DEF FreeRuns
<1>4. ASSUME NEW p \in Pages, NEW n \in Pages
      PROVE  <<p, n>> \in FreeRuns <=>
               /\ p + n - 1 \in Pages /\ p .. p + n - 1 \subseteq Free
               /\ p - 1 \notin Free /\ p + n \notin Free
  <2>1. /\ p \in Int /\ n \in Int /\ NumPages \in Int /\ p >= 1 /\ n >= 1 /\ p <= NumPages
        /\ 0 \notin Pages /\ NumPages + 1 \notin Pages
        /\ \A x \in Int : x \in Pages <=> 1 <= x /\ x <= NumPages
    BY SlabAssumption DEF Pages
  <2>2. ASSUME p + n - 1 \in Pages
        PROVE  /\ p .. p + n - 1 \subseteq Pages
               /\ p - 1 \in Pages \cup {0} /\ p + n \in Pages \cup {NumPages + 1}
    <3>1. p + n - 1 <= NumPages
      BY <2>1, <2>2
    <3>2. p - 1 \in Pages \cup {0} /\ p + n \in Pages \cup {NumPages + 1}
      BY <2>1, <3>1
    <3>3. p .. p + n - 1 \subseteq Pages
      BY <2>1, <3>1
    <3>. QED  BY <3>2, <3>3
  <2>. QED  BY <1>2, <1>3, <2>1, <2>2 DEF Free
<1>5. \A p, n \in Pages : <<p, n>> \in S <=> <<p, n>> \in FreeRuns
  <2>1. ASSUME NEW p \in Pages, NEW n \in Pages
        PROVE  <<p, n>> \in S <=>
                 /\ p + n - 1 \in Pages /\ p .. p + n - 1 \subseteq Free
                 /\ p - 1 \notin Free /\ p + n \notin Free
    BY <1>1, RunsLongest
  <2>. HIDE DEF S
  <2>. QED  BY <1>4, <2>1
<1>6. FreeRuns \subseteq Pages \X Pages
  BY DEF FreeRuns
<1>7. S \subseteq Pages \X Pages
  <2>1. ASSUME NEW g \in G PROVE g \in Pages /\ mem.slab[g] \in Pages
    <3>1. g \in Pages /\ mem.slab[g] \in Nat /\ mem.slab[g] >= 1 /\ g + mem.slab[g] - 1 \in Pages
      BY <1>1, RunFollows DEF Free
    <3>. QED  BY <3>1, SlabAssumption DEF Pages
  <2>. QED  BY <2>1
<1>. HIDE DEF S
<1>8. S = FreeRuns
  BY <1>5, <1>6, <1>7
<1>. QED  BY <1>8 DEF S

LEMMA SlabClassListed ==
  ASSUME NEW L, SlabOK(L), NEW c \in Classes
  PROVE  L[Slot(c)] = {p \in Pages :
                         /\ mem.slab[p] = Slot(c)
                         /\ Cardinality(ChunksHeld(p)) \in 1 .. Chunks[c] - Reserved[c] - 1}
<1>1. Sound(mem, Free, L) /\ HeldOK /\ UsedOK(L)
  BY DEF SlabOK
<1>2. \A p \in L[Slot(c)] : p \in Pages /\ mem.slab[p] = Slot(c)
  BY <1>1, SlotList DEF UsedOK
<1>3. Reserved[c] \in Nat /\ Chunks[c] \in Nat /\ Reserved[c] + 2 <= Chunks[c]
  BY Slots
<1>4. ASSUME NEW p \in Pages, mem.slab[p] = Slot(c)
      PROVE  p \in L[Slot(c)] <=> Cardinality(ChunksHeld(p)) \in 1 .. Chunks[c] - Reserved[c] - 1
  <2>. DEFINE I == Reserved[c] .. Chunks[c] - 1
              J == ChunksHeld(p)
  <2>1. J # {}
    <3>1. p \in Taken
      BY <1>1, <1>4, InChunks DEF Free
    <3>2. PICK g \in InUse : p \in Covered(g)
      BY <3>1 DEF Taken
    <3>. QED  BY <1>1, <1>4, <3>2, CoveredChunk
  <2>2. J \subseteq I
    <3>1. ASSUME NEW g \in InUse, held[g][1] = "chunk", held[g][2] = p PROVE held[g][3] \in I
      <4>1. p \in Covered(g)
        BY <3>1 DEF Covered
      <4>. QED  BY <1>1, <1>4, <4>1, CoveredChunk
    <3>. QED  BY <3>1 DEF ChunksHeld
  <2>3. used[p] = (0 .. Reserved[c] - 1) \cup J /\ (p \in L[Slot(c)] <=> used[p] # 0 .. Chunks[c] - 1)
    BY <1>1, <1>4 DEF UsedOK
  <2>4. 0 .. Chunks[c] - 1 = (0 .. Reserved[c] - 1) \cup I /\ (0 .. Reserved[c] - 1) \cap I = {}
    BY <1>3
  <2>5. IsFiniteSet(I) /\ Cardinality(I) = Chunks[c] - Reserved[c]
    <3>1. Reserved[c] \in Int /\ Chunks[c] - 1 \in Int /\ Reserved[c] <= Chunks[c] - 1
      BY <1>3
    <3>2. IsFiniteSet(I) /\ Cardinality(I) = (Chunks[c] - 1) - Reserved[c] + 1
      BY <3>1, FS_Interval
    <3>. QED  BY <1>3, <3>2
  <2>. HIDE DEF I, J
  <2>6. p \in L[Slot(c)] <=> J # I
    BY <2>2, <2>3, <2>4
  <2>7. IsFiniteSet(J) /\ Cardinality(J) <= Cardinality(I) /\ (Cardinality(J) = Cardinality(I) => J = I)
    BY <2>2, <2>5, FS_Subset
  <2>8. Cardinality(J) \in Nat /\ Cardinality(J) # 0
    BY <2>1, <2>7, FS_CardinalityType, FS_EmptySet
  <2>9. J # I <=> Cardinality(J) \in 1 .. Chunks[c] - Reserved[c] - 1
    BY <1>3, <2>5, <2>7, <2>8
  <2>. QED  BY <2>6, <2>9 DEF J
<1>. QED  BY <1>2, <1>4

(* MemorySlab hands out no memory twice, keeps no two free runs side by    *)
(* side, and has in the list of a class the pages with a free chunk, each  *)
(* once, after any calls of alloc and free (slab.cpp:242-829).             *)
THEOREM SlabIsSound == SlabSpec => []SlabSound
<1>1. SlabInit => SlabInv
  BY SlabInitOK
<1>2. SlabInv /\ [SlabNext]_slabVars => SlabInv'
  BY SlabNextOK
<1>3. SlabInv => SlabSound
  <2>. SUFFICES ASSUME SlabInv PROVE SlabSound
    OBVIOUS
  <2>1. PICK L : SlabOK(L)
    BY DEF SlabInv
  <2>2. Sound(mem, Free, L) /\ Disjoint
    BY <2>1 DEF SlabOK
  <2>3. \A h \in Heads : Listed(mem, h) = L[h] /\ ComesBack(mem, h, L[h])
    BY <2>2, SlabListed
  <2>4. {<<p, mem.slab[p]>> : p \in Listed(mem, FreeHead)} = FreeRuns
    BY <2>1, <2>3, SlabRunsListed, HeadsNotPages
  <2>5. ASSUME NEW c \in Classes
        PROVE  Listed(mem, Slot(c)) = {p \in Pages :
                 /\ mem.slab[p] = Slot(c)
                 /\ Cardinality(ChunksHeld(p)) \in 1 .. Chunks[c] - Reserved[c] - 1}
    BY <2>1, <2>3, SlabClassListed, HeadsNotPages
  <2>. QED  BY <2>2, <2>3, <2>4, <2>5, HeadsNotPages DEF SlabSound
<1>. QED  BY <1>1, <1>2, <1>3, PTL DEF SlabSpec

(* If the search finds nothing there is nothing to find.                   *)
LEMMA NoFitNoRoom ==
  ASSUME SlabInv, NEW n \in Nat, n >= 1, Fits(mem, n) = {}
  PROVE  ~\E p \in Pages : p .. p + n - 1 \subseteq Free
<1>. SUFFICES ASSUME NEW p \in Pages, p .. p + n - 1 \subseteq Free PROVE FALSE
  OBVIOUS
<1>1. PICK L : SlabOK(L)
  BY DEF SlabInv
<1>. DEFINE G == L[FreeHead]
<1>2. Sound(mem, Free, L) /\ Runs(mem.slab, Free, G) /\ Apart(mem.slab, Free, G)
  BY <1>1 DEF SlabOK, Sound
<1>3. \A g \in G : ~(mem.slab[g] >= n)
  BY <1>2, FitsSound
<1>4. p \in Int /\ p \in p .. p + n - 1
  BY HeadsNotPages
<1>5. PICK g \in G : InRun(mem.slab, g, p)
  BY <1>2, <1>4 DEF Runs
<1>6. g \in Int /\ mem.slab[g] \in Nat /\ g <= p /\ p < g + mem.slab[g]
  BY <1>2, <1>5, HeadsNotPages DEF Runs, InRun
<1>7. g + mem.slab[g] \notin p .. p + n - 1
  BY <1>2 DEF Apart
<1>8. mem.slab[g] >= n
  BY <1>4, <1>6, <1>7
<1>. QED  BY <1>3, <1>8

(* What the search finds is free.                                          *)
LEMMA FitIsFree ==
  ASSUME SlabInv, NEW n \in Nat, n >= 1, NEW page \in Fits(mem, n)
  PROVE  page .. page + n - 1 \subseteq Free
<1>1. PICK L : SlabOK(L)
  BY DEF SlabInv
<1>. DEFINE G == L[FreeHead]
<1>2. Sound(mem, Free, L) /\ Runs(mem.slab, Free, G)
  BY <1>1 DEF SlabOK, Sound
<1>3. page \in G /\ mem.slab[page] >= n
  BY <1>2, FitsSound
<1>4. page \in Int /\ mem.slab[page] \in Nat
  BY <1>2, <1>3, HeadsNotPages DEF Runs
<1>5. ASSUME NEW x \in page .. page + n - 1 PROVE x \in Free
  <2>1. x \in Int /\ page <= x /\ x < page + mem.slab[page]
    BY <1>3, <1>4
  <2>2. InRun(mem.slab, page, x)
    BY <2>1 DEF InRun
  <2>. QED  BY <1>2, <1>3, <2>1, <2>2 DEF Runs
<1>. QED  BY <1>5

LEMMA SearchIsExact == SlabInv => SearchExact
<1>. SUFFICES ASSUME SlabInv, NEW n \in Pages
             PROVE  /\ \A page \in Fits(mem, n) : page .. page + n - 1 \subseteq Free
                    /\ Fits(mem, n) = {} =>
                         ~\E page \in Free : page .. page + n - 1 \subseteq Free
  BY DEF SearchExact, Free
<1>1. n \in Nat /\ n >= 1
  BY DEF Pages
<1>2. Free \subseteq Pages
  BY DEF Free
<1>. QED  BY <1>1, <1>2, FitIsFree, NoFitNoRoom

(* alloc_pages hands out only pages that nobody holds, and alloc returns    *)
(* null only when no stretch of free pages is long enough: it would also   *)
(* if a free run were missing from the list or split in two                *)
(* (slab.cpp:242-254, 394-455, 710-805).                                   *)
THEOREM SlabFindsRoom == SlabSpec => []SearchExact
<1>1. SlabInit => SlabInv
  BY SlabInitOK
<1>2. SlabInv /\ [SlabNext]_slabVars => SlabInv'
  BY SlabNextOK
<1>. QED  BY <1>1, <1>2, SearchIsExact, PTL DEF SlabSpec
=============================================================================
