------------------------------ MODULE SlitPair ------------------------------
(***************************************************************************)
(* What the motion server promises about the two slit jaws, whatever the   *)
(* clients, the stop server and restarts do.  Each jaw advances towards    *)
(* the other from its own zero, so the jaws touch when the sum of their    *)
(* positions exceeds Sum (SLITS_SUM_LIMIT in Slit.cpp), and neither may    *)
(* pass Individual (SLITS_INDIVIDUAL_LIMIT).  A jaw is sent off only while *)
(* both stand still, and only to a place the other leaves free; a jaw in   *)
(* flight may be halted anywhere.                                          *)
(***************************************************************************)
EXTENDS Integers

CONSTANTS
  Sum,        \* the jaws crash when their positions add up to more
  Individual  \* the farthest either jaw may advance

VARIABLES
  at1, at2,     \* where the jaws are
  goal1, goal2  \* where they were sent

vars == <<at1, at2, goal1, goal2>>

Free(here, there) == here \in 0..Individual /\ here + there <= Sum

Init ==
  /\ at1 \in 0..Individual /\ Free(at2, at1)
  /\ at2 \in 0..Individual
  /\ goal1 = at1 /\ goal2 = at2

AtRest == at1 = goal1 /\ at2 = goal2

(* A jaw at rest, beside a jaw at rest, is sent to a free place. *)
Send1 ==
  /\ AtRest
  /\ \E g \in 0..Individual : Free(g, at2) /\ goal1' = g
  /\ UNCHANGED <<at1, at2, goal2>>

Send2 ==
  /\ AtRest
  /\ \E g \in 0..Individual : Free(g, at1) /\ goal2' = g
  /\ UNCHANGED <<at1, at2, goal1>>

Toward(here, goal) == IF here < goal THEN here + 1 ELSE here - 1

Step1 ==
  /\ at1 # goal1
  /\ at1' = Toward(at1, goal1)
  /\ UNCHANGED <<at2, goal1, goal2>>

Step2 ==
  /\ at2 # goal2
  /\ at2' = Toward(at2, goal2)
  /\ UNCHANGED <<at1, goal1, goal2>>

(* The emergency stop: a jaw in flight is halted where it is. *)
Halt1 == goal1' = at1 /\ UNCHANGED <<at1, at2, goal2>>

Halt2 == goal2' = at2 /\ UNCHANGED <<at1, at2, goal1>>

(* Both jaws share a controller, and one ^C halts both. *)
HaltBoth == goal1' = at1 /\ goal2' = at2 /\ UNCHANGED <<at1, at2>>

Next == Send1 \/ Send2 \/ Step1 \/ Step2 \/ Halt1 \/ Halt2 \/ HaltBoth

Spec == Init /\ [][Next]_vars
=============================================================================
