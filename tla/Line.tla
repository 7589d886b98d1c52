-------------------------------- MODULE Line --------------------------------
(***************************************************************************)
(* The serial line of one motor controller, which the control server and   *)
(* the stop server have both opened (Interface, Controller).  Each asks    *)
(* for the status until it reads that the controller is idle, and then for *)
(* the positions; what it reads is whatever the controller has said since  *)
(* the last read of either.                                                *)
(*                                                                         *)
(* Motion takes a question and its answer for one step: this module is     *)
(* about when that is right.  It looks at one axis, the controller's       *)
(* first, whose position is the first number of an answer to "pos".  A     *)
(* server reads 50 ms after it has asked, and the answer is there by then. *)
(***************************************************************************)
EXTENDS Integers, Sequences

CONSTANT Far  \* the axis moves between 0 and that

ASSUME LineAssumption == Far \in Nat \ {0}

Servers == {"control", "stop"}

Places == 0..Far

VARIABLES
  step,     \* what each server is at
  asked,    \* has it asked without having read since?
  answers,  \* what the controller has said and nobody has read
  at,       \* where the axis is
  goal,     \* where it was sent
  copy,     \* the control server's Motor::position
  shared    \* was the line used by others during the control server's command?

vars == <<step, asked, answers, at, goal, copy, shared>>

(* ValidateController, ControllerWaitForIdle, debugPositions, and the wait *)
(* that debugPositions ends with.                                          *)
Steps == {"down", "rest", "identify", "wait", "pos", "settle"}

Other(p) == IF p = "control" THEN "stop" ELSE "control"

Busy(p) == step[p] \in {"identify", "wait", "pos", "settle"}

(* So many numbers, the first of which is that; none in its model's name. *)
Answer == [count : {0, 1, 3}, first : Places \cup {1}]

-----------------------------------------------------------------------------
(* The controller *)

(* 0 for idle, 1 for busy. *)
Status == [count |-> 1, first |-> IF at = goal THEN 0 ELSE 1]

Positions == [count |-> 3, first |-> at]

Model == [count |-> 0, first |-> 1]

Drive ==
  /\ at # goal
  /\ at' = IF at < goal THEN at + 1 ELSE at - 1
  /\ UNCHANGED <<step, asked, answers, goal, copy, shared>>

-----------------------------------------------------------------------------
(* What a read yields: all that there is, one answer after the other. *)

(* Without a look at the rest of it; a position of 0 is as good. *)
ControllerIsIdle == Head(answers).first = 0

(* debugPositions wants three numbers, be they three states, and reads on  *)
(* up to what is no number.                                                *)
ThreeNumbers ==
  \E n \in {1, 3} :
    /\ Len(answers) >= n /\ (Len(answers) > n => answers[n + 1].count = 0)
    /\ \A i \in 1..n : n * answers[i].count = 3

(* ValidateController finds the name anywhere in what it has read. *)
Validated == \E i \in 1..Len(answers) : answers[i] = Model

-----------------------------------------------------------------------------
(* The servers, p being one of them *)

(* debugPositions waits anyhow, so why wait before it? *)
FaultyMove(to) ==
  /\ step["control"] = "rest" /\ to # copy
  /\ goal' = to
  /\ step' = [step EXCEPT !["control"] = "pos"]
  /\ shared' = (Busy("stop") \/ answers # << >>)
  /\ UNCHANGED <<asked, answers, at, copy>>

(* moveAbs and the like: "Nothing to move" is not sent. *)
Move(to) ==
  /\ step["control"] = "rest" /\ to # copy
  /\ goal' = to
  /\ step' = [step EXCEPT !["control"] = "wait"]
  /\ shared' = (Busy("stop") \/ answers # << >>)
  /\ UNCHANGED <<asked, answers, at, copy>>

(* The command depos: it does not wait first, so that an axis which a      *)
(* shared command has left under way (at # goal) spoils it as well.        *)
Depos ==
  /\ step["control"] = "rest"
  /\ step' = [step EXCEPT !["control"] = "pos"]
  /\ shared' = (Busy("stop") \/ answers # << >> \/ at # goal)
  /\ UNCHANGED <<asked, answers, at, goal, copy>>

(* Controller::stop, by the stop server. *)
Stop ==
  /\ step["stop"] = "rest"
  /\ goal' = at
  /\ step' = [step EXCEPT !["stop"] = "wait"]
  /\ shared' = (shared \/ Busy("control"))
  /\ UNCHANGED <<asked, answers, at, copy>>

Ask(p) ==
  /\ Busy(p) /\ ~asked[p]
  /\ asked' = [asked EXCEPT ![p] = TRUE]
  /\ answers' = Append(answers, CASE step[p] = "identify" -> Model
                                     [] step[p] = "pos"      -> Positions
                                     [] OTHER                -> Status)
  /\ UNCHANGED <<step, at, goal, copy, shared>>

(* Where a server gets to by what it reads. *)
Got(p) ==
  CASE step[p] = "identify" -> IF Validated THEN "wait" ELSE "down"
    [] step[p] = "wait" /\ ControllerIsIdle   -> "pos"
    [] step[p] = "pos" /\ ThreeNumbers        -> "settle"
    [] step[p] = "settle" /\ ControllerIsIdle -> "rest"
    [] OTHER                                  -> step[p]

Read(p) ==
  /\ asked[p] /\ answers # << >>
  /\ asked' = [asked EXCEPT ![p] = FALSE]
  /\ answers' = << >>
  /\ step' = [step EXCEPT ![p] = Got(p)]
  /\ copy' = IF p = "control" /\ step[p] = "pos" /\ ThreeNumbers
             THEN Head(answers).first ELSE copy
  /\ UNCHANGED <<at, goal, shared>>

(* Reading goes on until there is something to read. *)
FaultyReadNothing(p) ==
  /\ asked[p] /\ answers = << >>
  /\ UNCHANGED vars

(* The other has read the answer: ControllerSend asks again, and only a    *)
(* server that starts, ValidateController's, gives up.                     *)
ReadNothing(p) ==
  /\ asked[p] /\ answers = << >>
  /\ asked' = [asked EXCEPT ![p] = FALSE]
  /\ step' = [step EXCEPT ![p] = IF @ = "identify" THEN "down" ELSE @]
  /\ UNCHANGED <<answers, at, goal, copy, shared>>

(* The controller does not notice; an answer under way is left for anyone. *)
Crash(p) ==
  /\ step[p] # "down"
  /\ step' = [step EXCEPT ![p] = "down"]
  /\ asked' = [asked EXCEPT ![p] = FALSE]
  /\ UNCHANGED <<answers, at, goal, copy, shared>>

(* ControllerInterface discards what there is, whoever asked for it, and   *)
(* the constructor of Initialize ends with debugPositions.                 *)
Start(p) ==
  /\ step[p] = "down"
  /\ step' = [step EXCEPT ![p] = "identify"]
  /\ answers' = << >>
  /\ shared' = IF p = "control" THEN Busy("stop") ELSE shared \/ Busy("control")
  /\ UNCHANGED <<asked, at, goal, copy>>

-----------------------------------------------------------------------------
Init ==
  /\ step = [p \in Servers |-> "down"] /\ asked = [p \in Servers |-> FALSE]
  /\ answers = << >>
  /\ at \in Places /\ goal = at /\ copy = 0 /\ shared = FALSE

Talk(p) == Ask(p) \/ Read(p) \/ ReadNothing(p)

Next ==
  \/ \E to \in Places : Move(to)
  \/ Depos \/ Stop \/ Drive
  \/ \E p \in Servers : Talk(p) \/ Crash(p) \/ Start(p)

Spec == Init /\ [][Next]_vars

(* The axis gets where it is sent, and the servers' loops go on. *)
FairSpec == Spec /\ WF_vars(Drive) /\ \A p \in Servers : WF_vars(Talk(p))

-----------------------------------------------------------------------------
TypeOK ==
  /\ step \in [Servers -> Steps] /\ asked \in [Servers -> BOOLEAN]
  /\ answers \in Seq(Answer)
  /\ at \in Places /\ goal \in Places /\ copy \in Places
  /\ shared \in BOOLEAN

(* A command of the control server that has the line to itself ends with   *)
(* the axis at rest and its position known (Controller.cpp:172-174),       *)
(* whatever the two servers took from each other, and whoever died, before.*)
RightWhenAlone ==
  step["control"] = "rest" /\ ~shared => at = goal /\ copy = at

(* A server whose answers are read by the other, or thrown away, gets what *)
(* it needs when the other one is done.                                    *)
CommandEnds ==
  \A p \in Servers :
    <>[](~Busy(Other(p))) => (Busy(p) ~> ~Busy(p))

-----------------------------------------------------------------------------
(* README.md:87: moveabs "moves motor to absolute position, returns current *)
(* position".                                                               *)
CurrentPosition == step["control"] = "rest" => copy = at
=============================================================================
