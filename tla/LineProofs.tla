------------------------------ MODULE LineProofs ------------------------------
(***************************************************************************)
(* Why a server that has a controller's line to itself can trust what it   *)
(* reads, however long the way from 0 to Far is.                           *)
(***************************************************************************)
EXTENDS Line, TLAPS

(* Only a server in the middle of something waits for an answer.           *)
AskersBusy == \A p \in Servers : asked[p] => Busy(p)

Alone == Busy("control") /\ ~shared

(* The answer that the control server's step calls for.  That it says      *)
(* "idle" is true of now, because nobody sends the axis anywhere.          *)
Fits(a) ==
  /\ step["control"] = "identify" => a = Model
  /\ step["control"] \in {"wait", "settle"} =>
       a.count = 1 /\ (a.first = 0 => at = goal)
  /\ step["control"] = "pos" => a = Positions

(* A control server alone finds the answer to its question and no other.   *)
OwnAnswer ==
  Alone =>
    /\ ~Busy("stop")
    /\ ~asked["control"] => answers = << >>
    /\ asked["control"] => \E a \in Answer : answers = <<a>> /\ Fits(a)

(* It asks for the position of an axis at rest, and then knows it.         *)
AxisAtRest ==
  Alone =>
    /\ step["control"] \in {"pos", "settle"} => at = goal
    /\ step["control"] = "settle" => copy = at

LInv == TypeOK /\ AskersBusy /\ OwnAnswer /\ AxisAtRest /\ RightWhenAlone

(* The ends of the axis are places, and places are whole numbers. *)
LEMMA Constant == 0 \in Places /\ 1 \in Places /\ Places \subseteq Int
BY LineAssumption DEF LineAssumption, Places

(* Answers on the line have their type. *)
LEMMA AnswersTyped ==
  ASSUME TypeOK
  PROVE  Status \in Answer /\ Positions \in Answer /\ Model \in Answer
BY Constant DEF TypeOK, Status, Positions, Model, Answer, Places

(* An answer is a position of the axis or the state of the controller. *)
LEMMA FirstNumber ==
  ASSUME TypeOK, answers # << >>
  PROVE  Head(answers).first \in Places
<1>1. Head(answers) \in Answer
  BY DEF TypeOK
<1> QED
  BY <1>1, Constant DEF Answer

(* The invariant holds at the start. *)
LEMMA InitInv == ASSUME Init PROVE LInv
<1>1. TypeOK
  <2>1. answers \in Seq(Answer)
    BY DEF Init
  <2>2. step \in [Servers -> Steps] /\ asked \in [Servers -> BOOLEAN]
    BY DEF Init, Steps
  <2> QED
    BY <2>1, <2>2, Constant DEF Init, TypeOK
<1>2. step["control"] = "down" /\ \A p \in Servers : ~asked[p]
  BY DEF Init, Servers
<1>3. ~Alone
  BY <1>2 DEF Alone, Busy
<1> QED
  BY <1>1, <1>2, <1>3
     DEF LInv, AskersBusy, OwnAnswer, AxisAtRest, RightWhenAlone

(* Each action keeps the invariant: the axis moves on, *)
LEMMA DriveKeeps == ASSUME LInv, Drive PROVE LInv'
<1>1. TypeOK'
  BY LineAssumption DEF LInv, TypeOK, Drive, Places, LineAssumption
<1>2. AskersBusy'
  BY DEF LInv, AskersBusy, Drive, Busy
<1>3. at # goal /\ (Alone' <=> Alone)
  BY DEF Drive, Alone, Busy
<1>4. OwnAnswer'
  <2>1. Alone => step["control"] \notin {"pos", "settle"}
    BY <1>3 DEF LInv, AxisAtRest
  <2>2. ASSUME NEW a, Alone, Fits(a), answers = <<a>> PROVE Fits(a)'
    BY <1>3, <2>1, <2>2 DEF Fits, Drive, Model
  <2> QED
    BY <1>3, <2>2 DEF LInv, OwnAnswer, Drive, Busy
<1>5. AxisAtRest' /\ RightWhenAlone'
  BY <1>3 DEF LInv, AxisAtRest, RightWhenAlone, Drive, Alone, Busy
<1> QED
  BY <1>1, <1>2, <1>4, <1>5 DEF LInv

(* a move is ordered, *)
LEMMA MoveKeeps == ASSUME LInv, NEW to \in Places, Move(to) PROVE LInv'
<1>1. TypeOK'
  BY DEF LInv, TypeOK, Move, Servers, Steps, Busy
<1>2. AskersBusy'
  BY DEF LInv, TypeOK, AskersBusy, Move, Busy, Servers
<1>3. OwnAnswer'
  BY DEF LInv, TypeOK, AskersBusy, OwnAnswer, Move, Busy, Alone, Servers
<1>4. AxisAtRest' /\ RightWhenAlone'
  BY DEF LInv, TypeOK, AxisAtRest, RightWhenAlone, Move, Servers
<1> QED
  BY <1>1, <1>2, <1>3, <1>4 DEF LInv

(* the control server's copies are refreshed, *)
LEMMA DeposKeeps == ASSUME LInv, Depos PROVE LInv'
<1>1. TypeOK'
  BY DEF LInv, TypeOK, Depos, Servers, Steps, Busy
<1>2. AskersBusy'
  BY DEF LInv, TypeOK, AskersBusy, Depos, Busy, Servers
<1>3. OwnAnswer'
  BY DEF LInv, TypeOK, AskersBusy, OwnAnswer, Depos, Busy, Alone, Servers
<1>4. AxisAtRest' /\ RightWhenAlone'
  BY DEF LInv, TypeOK, AxisAtRest, RightWhenAlone, Depos, Alone, Servers
<1> QED
  BY <1>1, <1>2, <1>3, <1>4 DEF LInv

(* A stop during a command of the control server shares the line; one     *)
(* while it rests finds the axis where it was.                             *)
LEMMA StopKeeps == ASSUME LInv, Stop PROVE LInv'
<1>1. TypeOK'
  BY DEF LInv, TypeOK, Stop, Servers, Steps, Busy
<1>2. AskersBusy'
  BY DEF LInv, TypeOK, AskersBusy, Stop, Busy, Servers
<1>3. ~Alone'
  BY DEF LInv, TypeOK, Stop, Busy, Alone, Servers
<1>4. OwnAnswer' /\ AxisAtRest'
  BY <1>3 DEF OwnAnswer, AxisAtRest
<1>5. RightWhenAlone'
  BY DEF LInv, TypeOK, RightWhenAlone, Stop, Servers
<1> QED
  BY <1>1, <1>2, <1>4, <1>5 DEF LInv

(* a server asks, *)
LEMMA AskKeeps == ASSUME LInv, NEW p \in Servers, Ask(p) PROVE LInv'
<1>1. TypeOK'
  <2>1. answers' \in Seq(Answer)
    BY AnswersTyped DEF LInv, TypeOK, Ask
  <2> QED
    BY <2>1 DEF LInv, TypeOK, Ask
<1>2. AskersBusy'
  BY DEF LInv, TypeOK, AskersBusy, Ask, Busy, Servers
<1>3. OwnAnswer'
  <2> SUFFICES ASSUME Alone' PROVE OwnAnswer'
    BY DEF OwnAnswer
  <2>1. Alone /\ p = "control" /\ ~asked["control"] /\ answers = << >>
    BY DEF LInv, OwnAnswer, Ask, Alone, Busy, Servers
  <2>2. PICK a \in Answer :
          a = CASE step[p] = "identify" -> Model
                [] step[p] = "pos"      -> Positions
                [] OTHER                -> Status
    BY AnswersTyped DEF LInv
  <2>3. answers' = <<a>>
    BY <2>1, <2>2 DEF Ask
  <2>4. Fits(a)'
    BY <2>1, <2>2 DEF Fits, Ask, Model, Positions, Status
  <2>5. ~Busy("stop")' /\ asked'["control"]
    BY <2>1 DEF LInv, TypeOK, OwnAnswer, Ask, Busy, Servers
  <2> QED
    BY <2>3, <2>4, <2>5 DEF OwnAnswer
<1>4. AxisAtRest' /\ RightWhenAlone'
  BY DEF LInv, AxisAtRest, RightWhenAlone, Ask, Alone, Busy
<1> QED
  BY <1>1, <1>2, <1>3, <1>4 DEF LInv

(* reads what there is, *)
LEMMA ReadKeeps == ASSUME LInv, NEW p \in Servers, Read(p) PROVE LInv'
<1>1. TypeOK'
  <2>1. Got(p) \in Steps
    BY DEF LInv, TypeOK, Got, Steps
  <2>2. copy' \in Places
    BY FirstNumber DEF LInv, TypeOK, Read
  <2> QED
    BY <2>1, <2>2 DEF LInv, TypeOK, Read
<1>2. AskersBusy'
  BY DEF LInv, TypeOK, AskersBusy, Read, Busy, Servers
<1>3. CASE ~Alone
  <2>1. p = "control" => shared
    BY <1>3 DEF LInv, AskersBusy, Alone, Read
  <2>2. shared' = shared /\ (p # "control" => step'["control"] = step["control"])
    BY DEF LInv, TypeOK, Read, Servers
  <2>3. ~Alone'
    BY <1>3, <2>1, <2>2 DEF Alone, Busy
  <2>4. RightWhenAlone'
    BY <2>1, <2>2 DEF LInv, RightWhenAlone, Read
  <2> QED
    BY <1>1, <1>2, <2>3, <2>4 DEF LInv, OwnAnswer, AxisAtRest
<1>4. CASE Alone
  <2>1. p = "control"
    BY <1>4 DEF LInv, OwnAnswer, AskersBusy, Read, Servers
  <2>2. PICK a \in Answer : answers = <<a>> /\ Fits(a)
    BY <1>4, <2>1 DEF LInv, OwnAnswer, Read
  <2>3. /\ ~asked'["control"] /\ answers' = << >> /\ ~Busy("stop")'
        /\ step'["control"] = Got("control")
        /\ UNCHANGED <<at, goal, shared>>
    BY <1>4, <2>1 DEF LInv, TypeOK, OwnAnswer, Read, Busy, Servers
  <2>4. Head(answers) = a /\ Len(answers) = 1 /\ answers[1] = a
    BY <2>2
  <2>5. CASE step["control"] = "identify"
    <3>1. step'["control"] = "wait"
      <4>1. Validated
        BY <2>2, <2>4, <2>5 DEF Fits, Validated
      <4> QED
        BY <2>3, <2>5, <4>1 DEF Got
    <3> QED
      BY <1>1, <1>2, <2>3, <3>1 DEF LInv, OwnAnswer, AxisAtRest, RightWhenAlone
  <2>6. CASE step["control"] = "wait"
    <3>1. \/ step'["control"] = "wait"
          \/ step'["control"] = "pos" /\ at = goal
      BY <2>2, <2>3, <2>4, <2>6 DEF Fits, Got, ControllerIsIdle
    <3> QED
      BY <1>1, <1>2, <2>3, <3>1 DEF LInv, OwnAnswer, AxisAtRest, RightWhenAlone
  <2>7. CASE step["control"] = "pos"
    <3>1. at = goal
      BY <1>4, <2>7 DEF LInv, AxisAtRest
    <3>2. a = Positions /\ a.first = at
      BY <2>2, <2>7 DEF Fits, Positions
    <3>3. \/ step'["control"] = "pos"
          \/ step'["control"] = "settle" /\ ThreeNumbers
      BY <2>3, <2>7 DEF Got
    <3>4. ThreeNumbers => copy' = at
      BY <2>1, <2>4, <2>7, <3>2 DEF Read
    <3> QED
      BY <1>1, <1>2, <2>3, <3>1, <3>3, <3>4
         DEF LInv, OwnAnswer, AxisAtRest, RightWhenAlone
  <2>8. CASE step["control"] = "settle"
    <3>1. at = goal /\ copy = at
      BY <1>4, <2>8 DEF LInv, AxisAtRest
    <3>2. copy' = copy
      BY <2>1, <2>8 DEF Read
    <3>3. step'["control"] \in {"settle", "rest"}
      BY <2>3, <2>8 DEF Got
    <3> QED
      BY <1>1, <1>2, <2>3, <3>1, <3>2, <3>3
         DEF LInv, OwnAnswer, AxisAtRest, RightWhenAlone
  <2> QED
    BY <1>4, <2>5, <2>6, <2>7, <2>8 DEF Alone, Busy
<1> QED
  BY <1>3, <1>4

(* gives a read up, *)
LEMMA ReadNothingKeeps ==
  ASSUME LInv, NEW p \in Servers, ReadNothing(p) PROVE LInv'
<1>1. TypeOK'
  BY DEF LInv, TypeOK, ReadNothing, Steps
<1>2. AskersBusy'
  BY DEF LInv, TypeOK, AskersBusy, ReadNothing, Busy, Servers
<1>3. Alone' => Alone
  BY DEF LInv, TypeOK, ReadNothing, Alone, Busy, Servers
<1>4. Alone => p = "stop"
  BY DEF LInv, OwnAnswer, ReadNothing, Servers
<1>5. OwnAnswer'
  BY <1>3, <1>4 DEF LInv, AskersBusy, OwnAnswer, ReadNothing, Servers
<1>6. AxisAtRest' /\ RightWhenAlone'
  BY <1>3 DEF LInv, TypeOK, AxisAtRest, RightWhenAlone, ReadNothing, Servers
<1> QED
  BY <1>1, <1>2, <1>5, <1>6 DEF LInv

(* dies, *)
LEMMA CrashKeeps == ASSUME LInv, NEW p \in Servers, Crash(p) PROVE LInv'
<1>1. TypeOK'
  BY DEF LInv, TypeOK, Crash, Steps
<1>2. AskersBusy'
  BY DEF LInv, TypeOK, AskersBusy, Crash, Busy, Servers
<1>3. Alone' => Alone /\ p = "stop"
  BY DEF LInv, TypeOK, Crash, Alone, Busy, Servers
<1>4. OwnAnswer'
  BY <1>3 DEF LInv, TypeOK, OwnAnswer, Crash, Fits, Busy, Positions, Model, Servers
<1>5. AxisAtRest' /\ RightWhenAlone'
  BY <1>3 DEF LInv, TypeOK, AxisAtRest, RightWhenAlone, Crash, Servers
<1> QED
  BY <1>1, <1>2, <1>4, <1>5 DEF LInv

(* A server that starts throws away what the other is waiting for, and     *)
(* what its predecessor has left.                                          *)
LEMMA StartKeeps == ASSUME LInv, NEW p \in Servers, Start(p) PROVE LInv'
<1>1. TypeOK'
  <2>1. step' \in [Servers -> Steps]
    BY DEF LInv, TypeOK, Start, Steps
  <2>2. shared' \in BOOLEAN
    <3>1. shared' \in {Busy("stop"), shared \/ Busy("control")}
      BY DEF Start
    <3>2. Busy("stop") \in BOOLEAN /\ (shared \/ Busy("control")) \in BOOLEAN
      BY DEF Busy
    <3> QED
      BY <3>1, <3>2
  <2>3. answers' \in Seq(Answer)
    BY DEF Start
  <2> QED
    BY <2>1, <2>2, <2>3 DEF LInv, TypeOK, Start
<1>2. AskersBusy'
  BY DEF LInv, TypeOK, AskersBusy, Start, Busy, Servers
<1>3. CASE p = "control"
  <2>1. Alone' => ~Busy("stop")' /\ ~asked'["control"] /\ answers' = << >>
    BY <1>3 DEF LInv, TypeOK, AskersBusy, Start, Alone, Busy, Servers
  <2>2. step'["control"] = "identify"
    BY <1>3 DEF LInv, TypeOK, Start
  <2>3. OwnAnswer' /\ AxisAtRest' /\ RightWhenAlone'
    BY <2>1, <2>2 DEF OwnAnswer, AxisAtRest, RightWhenAlone
  <2> QED
    BY <1>1, <1>2, <2>3 DEF LInv
<1>4. CASE p = "stop"
  <2>1. ~Alone'
    BY <1>4 DEF LInv, TypeOK, Start, Alone, Busy, Servers
  <2>2. RightWhenAlone'
    BY <1>4 DEF LInv, TypeOK, RightWhenAlone, Start, Servers
  <2> QED
    BY <1>1, <1>2, <2>1, <2>2 DEF LInv, OwnAnswer, AxisAtRest
<1> QED
  BY <1>3, <1>4 DEF Servers

(* or nothing changes. *)
LEMMA StutterKeeps == ASSUME LInv, UNCHANGED vars PROVE LInv'
BY DEF LInv, TypeOK, AskersBusy, OwnAnswer, AxisAtRest, RightWhenAlone, Alone,
       Busy, Fits, Positions, Model, vars

(* The inductive invariant of Line: who asks is busy, and as long as the   *)
(* control server is alone it reads its own answers, about an axis that    *)
(* nobody else sends anywhere.                                             *)
THEOREM LineInvariant == Spec => []LInv
<1>1. ASSUME LInv, Next PROVE LInv'
  BY <1>1, DriveKeeps, MoveKeeps, DeposKeeps, StopKeeps, AskKeeps, ReadKeeps,
     ReadNothingKeeps, CrashKeeps, StartKeeps
     DEF Next, Talk
<1> QED
  BY InitInv, <1>1, StutterKeeps, PTL DEF Spec

(* The variables of Line have their types, for an axis of any length.      *)
THEOREM LineTypeCorrect == Spec => []TypeOK
<1>1. LInv => TypeOK
  BY DEF LInv
<1> QED
  BY LineInvariant, <1>1, PTL

(* A command during which the control server had the controller's line to  *)
(* itself ends with the axis at rest and its position known                *)
(* (Controller.cpp:172-174), whatever happened on the line before.         *)
THEOREM AloneIsRight == Spec => []RightWhenAlone
<1>1. LInv => RightWhenAlone
  BY DEF LInv
<1> QED
  BY LineInvariant, <1>1, PTL
=============================================================================
