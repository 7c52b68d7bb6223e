----------------------------- MODULE ActorWatch -----------------------------
(***************************************************************************)
(* What the actor proxy promises about the exit signal of one position:    *)
(* the actors behind a position are watched from its entry to its exit;    *)
(* they must be found weak, and still be weak Confirm later, before a      *)
(* signal is given; and a signal that was given is not taken back, not     *)
(* even when the position is watched anew.                                 *)
(***************************************************************************)
EXTENDS Integers

CONSTANTS
  Times,   \* times of events
  Confirm  \* how long the weakness has to last

VARIABLES
  phase,  \* "off", "watched", "weak" or "exited"
  since,  \* when they were found weak, or 0
  answer  \* when the signal was given, or 0

vars == <<phase, since, answer>>

Init == phase = "off" /\ since = 0 /\ answer = 0

Start == phase' = "watched" /\ since' = 0 /\ UNCHANGED answer

Stop == phase' = "off" /\ since' = 0 /\ UNCHANGED answer

Weaken ==
  /\ phase = "watched"
  /\ phase' = "weak" /\ since' \in Times /\ UNCHANGED answer

Recover ==
  /\ phase = "weak"
  /\ phase' = "watched" /\ since' = 0 /\ UNCHANGED answer

Exit ==
  /\ phase = "weak"
  /\ \E t \in Times :
       /\ t - since >= Confirm
       /\ phase' = "exited" /\ answer' = t
  /\ UNCHANGED since

Next == Start \/ Stop \/ Weaken \/ Recover \/ Exit

Spec == Init /\ [][Next]_vars
=============================================================================
