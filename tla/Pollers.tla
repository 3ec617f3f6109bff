------------------------------ MODULE Pollers ------------------------------
(***************************************************************************)
(* EpollPoller and PollPoller, the two implementations of EventPoller, of  *)
(* which the build takes one (poller_default.cpp), and the EventChannels   *)
(* that register with it.  index_ is the poller's to use: the state of the *)
(* registration under epoll, the place in pollfds_ under poll.             *)
(*                                                                         *)
(* A channel is added by its first update and is not used again after      *)
(* remove, until its owner makes a new one for the same descriptor: that   *)
(* is how every owner in the library uses it, and PollPoller depends on    *)
(* it, because its RemoveChannel leaves index_ as it is.                   *)
(***************************************************************************)
EXTENDS Integers, FiniteSets, Sequences

CONSTANTS Channels,     \* positive numbers: a channel and its descriptor
          Events,
          InitEvents,   \* kInitEventListSize
          MaxEvents     \* bound: how far events_ is let grow

ASSUME PollersAssumption ==
  /\ Channels \subseteq Nat \ {0}
  /\ InitEvents \in Nat \ {0} /\ MaxEvents \in Nat

VARIABLES
  poller,       \* the implementation in use
  phase,        \* "fresh" channels were never updated
  events,       \* EventChannel::events_
  index,        \* EventChannel::index_
  channels,     \* the keys of EventPoller::channels_
  kernel,       \* the mask epoll has for each descriptor: none, or one
  pollfds,      \* PollPoller::pollfds_
  capacity,     \* size of EpollPoller::events_
  active        \* EventLoop::active_channels_

pollerVars == <<poller, phase, events, index, channels, kernel, pollfds,
                capacity, active>>

kNew == -1
kAdded == 1
kDeleted == 2

PollerInit ==
  /\ poller \in {"epoll", "poll"}
  /\ phase = [c \in Channels |-> "fresh"]
  /\ events = [c \in Channels |-> {}]
  /\ index = [c \in Channels |-> kNew]
  /\ channels = {}
  /\ kernel = [c \in Channels |-> {}]
  /\ pollfds = <<>>
  /\ capacity = InitEvents
  /\ active = {}

(***************************************************************************)
(* epoll                                                                   *)
(***************************************************************************)
EpollCtl(op, c, mask) ==
  kernel' = [kernel EXCEPT ![c] =
               CASE op = "ADD" /\ kernel[c] = {} -> {mask}
                 [] op = "MOD" /\ kernel[c] # {} -> {mask}
                 [] op = "DEL" -> {}
                 [] OTHER -> @]

UpdateEpoll(c, mask) ==
  /\ \/ /\ index[c] # kAdded
        /\ index' = [index EXCEPT ![c] = kAdded]
        /\ channels' = IF index[c] = kNew THEN channels \cup {c} ELSE channels
        /\ EpollCtl("ADD", c, mask)
     \/ /\ index[c] = kAdded /\ mask = {}
        /\ index' = [index EXCEPT ![c] = kDeleted]
        /\ EpollCtl("DEL", c, mask)
        /\ UNCHANGED channels
     \/ /\ index[c] = kAdded /\ mask # {}
        /\ EpollCtl("MOD", c, mask)
        /\ UNCHANGED <<index, channels>>
  /\ UNCHANGED pollfds

RemoveEpoll(c) ==
  /\ channels' = channels \ {c}
  /\ IF index[c] = kAdded THEN EpollCtl("DEL", c, {}) ELSE UNCHANGED kernel
  /\ index' = [index EXCEPT ![c] = kNew]
  /\ UNCHANGED pollfds

(***************************************************************************)
(* poll: a descriptor is negated while its channel wants no events.        *)
(***************************************************************************)
Negated(fd) == -fd - 1

UpdatePoll(c, mask) ==
  /\ IF index[c] < 0
     THEN /\ pollfds' = Append(pollfds, [fd |-> c, events |-> mask])
          /\ index' = [index EXCEPT ![c] = Len(pollfds)]
          /\ channels' = channels \cup {c}
     ELSE /\ pollfds' = [pollfds EXCEPT ![index[c] + 1] =
                [fd |-> IF mask = {} THEN Negated(c) ELSE c, events |-> mask]]
          /\ UNCHANGED <<index, channels>>
  /\ UNCHANGED kernel

(* Entry i without the last one, which takes its place.                    *)
Without(i) ==
  SubSeq([pollfds EXCEPT ![i] = pollfds[Len(pollfds)]], 1, Len(pollfds) - 1)

(* Faulty: the channel whose entry was moved is not told.                  *)
RemoveUntold(c) ==
  /\ channels' = channels \ {c}
  /\ pollfds' = Without(index[c] + 1)
  /\ UNCHANGED <<index, kernel>>

(* The channel whose entry was moved is told where it went.                *)
RemovePoll(c) ==
  LET fd == pollfds[Len(pollfds)].fd
      moved == IF fd < 0 THEN Negated(fd) ELSE fd
  IN /\ channels' = channels \ {c}
     /\ pollfds' = Without(index[c] + 1)
     /\ index' = IF index[c] + 1 = Len(pollfds) THEN index
                 ELSE [index EXCEPT ![moved] = index[c]]
     /\ UNCHANGED kernel

(***************************************************************************)
(* EventChannel                                                            *)
(***************************************************************************)
UpdateChannel(c, mask) ==
  /\ phase[c] \in {"fresh", "added"}
  /\ events' = [events EXCEPT ![c] = mask]
  /\ phase' = [phase EXCEPT ![c] = "added"]
  /\ \/ poller = "epoll" /\ UpdateEpoll(c, mask)
     \/ poller = "poll" /\ UpdatePoll(c, mask)
  /\ UNCHANGED <<poller, capacity, active>>

Enable(c, e) == UpdateChannel(c, events[c] \cup {e})

Disable(c, e) == UpdateChannel(c, events[c] \ {e})

DisableAll(c) == UpdateChannel(c, {})

RemoveChannel(c) ==
  /\ phase[c] = "added"
  /\ events[c] = {}
  /\ phase' = [phase EXCEPT ![c] = "removed"]
  /\ \/ poller = "epoll" /\ RemoveEpoll(c)
     \/ poller = "poll" /\ RemovePoll(c)
  /\ UNCHANGED <<poller, events, capacity, active>>

(* The owner destroys the channel and makes a new one for the descriptor.  *)
Renew(c) ==
  /\ phase[c] = "removed"
  /\ phase' = [phase EXCEPT ![c] = "fresh"]
  /\ index' = [index EXCEPT ![c] = kNew]
  /\ UNCHANGED <<poller, events, channels, kernel, pollfds, capacity, active>>

(***************************************************************************)
(* poll(): the channels the kernel reports become active.                  *)
(***************************************************************************)
(* The event sets c is watched for: none, or one.                          *)
Asked(c) ==
  IF poller = "epoll"
  THEN kernel[c]
  ELSE {pollfds[i].events : i \in {j \in DOMAIN pollfds : pollfds[j].fd = c}}

PollEpoll ==
  /\ poller = "epoll"
  /\ active' \in {R \in SUBSET {c \in Channels : kernel[c] # {}} :
                    Cardinality(R) <= capacity}
  /\ capacity' = IF Cardinality(active') = capacity /\ capacity < MaxEvents
                 THEN 2 * capacity ELSE capacity
  /\ UNCHANGED <<poller, phase, events, index, channels, kernel, pollfds>>

(* Entries are looked up in channels_ by their descriptor.                 *)
PollPoll ==
  /\ poller = "poll"
  /\ \E R \in SUBSET {i \in DOMAIN pollfds : pollfds[i].fd >= 0} :
        active' = {pollfds[i].fd : i \in R} \cap channels
  /\ UNCHANGED <<poller, phase, events, index, channels, kernel, pollfds, capacity>>

PollerNext ==
  \/ \E c \in Channels :
        \/ \E e \in Events : Enable(c, e) \/ Disable(c, e)
        \/ DisableAll(c)
        \/ RemoveChannel(c)
        \/ Renew(c)
  \/ PollEpoll
  \/ PollPoll

PollerSpec == PollerInit /\ [][PollerNext]_pollerVars
-----------------------------------------------------------------------------
PollerTypeOK ==
  /\ phase \in [Channels -> {"fresh", "added", "removed"}]
  /\ events \in [Channels -> SUBSET Events]
  /\ index \in [Channels -> Int]
  /\ channels \in SUBSET Channels
  /\ active \in SUBSET Channels

Asking == INSTANCE InterestSet
  WITH wanted <- events, watched <- [c \in Channels |-> Asked(c)]

(* Both pollers implement the interest set: whatever other channels come,  *)
(* go and change, each channel is watched for exactly what it asked for,   *)
(* though PollPoller moves entries when it removes one                     *)
(* (poller_poll.cpp:93-112) and EpollPoller deletes and re-adds            *)
(* descriptors (poller_epoll.cpp:94-120).                                  *)
PollersWatch == Asking!Spec /\ []PollerTypeOK
=============================================================================
