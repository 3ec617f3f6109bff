---------------------------- MODULE InterestSet ----------------------------
(***************************************************************************)
(* What an EventPoller promises the channels of its loop, whichever system *)
(* call is behind it: the kernel watches a channel for exactly the events  *)
(* it last asked for, whatever the other channels do, and only channels    *)
(* that are watched become active.  A channel that asks for no events may  *)
(* still be watched, for the hangups and errors that are always reported.  *)
(***************************************************************************)
EXTENDS FiniteSets

CONSTANTS Channels, Events

VARIABLES wanted,     \* the events each channel asked for
          watched,    \* the event sets the kernel watches each channel for
          active      \* the channels the last poll reported

interestVars == <<wanted, watched, active>>

Init ==
  /\ wanted = [c \in Channels |-> {}]
  /\ watched = [c \in Channels |-> {}]
  /\ active = {}

(* c asks for the events E.                                                *)
Want(c, E) ==
  /\ wanted' = [wanted EXCEPT ![c] = E]
  /\ \E W \in (IF E = {} THEN {{}, {{}}} ELSE {{E}}) :
        watched' = [watched EXCEPT ![c] = W]
  /\ UNCHANGED active

Leave(c) ==
  /\ wanted[c] = {}
  /\ watched' = [watched EXCEPT ![c] = {}]
  /\ UNCHANGED <<wanted, active>>

Report ==
  /\ active' \in SUBSET {c \in Channels : watched[c] # {}}
  /\ UNCHANGED <<wanted, watched>>

Next ==
  \/ \E c \in Channels : (\E E \in SUBSET Events : Want(c, E)) \/ Leave(c)
  \/ Report

Spec == Init /\ [][Next]_interestVars
=============================================================================
