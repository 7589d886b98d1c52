---------------------------- MODULE MotionProofs ----------------------------
(***************************************************************************)
(* Proofs about Motion for any motors, controllers, wiring, limits and     *)
(* commands that meet its assumptions.                                     *)
(***************************************************************************)
EXTENDS Motion, TLAPS, SequenceTheorems

(* The inductive invariant, in parts. *)

(* No step of the command in progress drives a jaw unchecked. *)
ChecksAhead ==
  \A i \in 1..Len(todo) : todo[i].kind \in {"range", "raw"} => todo[i].m \notin Slits

(* While a step waits, only its own controller may have axes in motion, and *)
(* a jaw it does not name is still and known.                               *)
OthersStill ==
  pc = "wait" =>
    /\ \A m \in Motors :
         Controller[m] # Controller[Head(todo).m] => pos[m] = target[m]
    /\ \A x \in Slits :
         x # Head(todo).m => pos[x] = target[x] /\ cached[x] = pos[x]

(* A calibration only withdraws the jaw. *)
CalWithdraws ==
  pc = "wait" /\ Head(todo).kind = "cal" =>
    \A x \in Slits :
      x = Head(todo).m => target[x] <= pos[x] /\ pos[x] <= cached[x]

(* The limits leave room for the jaws as the server knows them. *)
LimitsKnown ==
  pc # "down" =>
    /\ lower[X1] = 0 /\ lower[X2] = 0
    /\ upper[X1] \in 0..Individual /\ upper[X2] \in 0..Individual
    /\ upper[X1] + cached[X2] <= Sum /\ upper[X2] + cached[X1] <= Sum

OneJawInFlight == pos[X1] = target[X1] \/ pos[X2] = target[X2]

MInv ==
  /\ TypeOK /\ ChecksAhead
  /\ StillBetweenSteps /\ OthersStill /\ OneJawInFlight
  /\ SlitsNeverCollide /\ GoalsSafe
  /\ JawsKnown /\ LimitsKnown /\ CalWithdraws

-----------------------------------------------------------------------------
(* The first step of a command and the rest of them (todo of Slit.cpp's *)
(* and ReferencePoints.cpp's moves).                                    *)
LEMMA TodoParts ==
  ASSUME todo \in Seq(Step), todo # << >>
  PROVE  /\ Head(todo) \in Step /\ Tail(todo) \in Seq(Step)
         /\ Len(todo) \in Nat /\ Len(todo) >= 1
         /\ Head(todo) = todo[1]
         /\ Len(Tail(todo)) = Len(todo) - 1
         /\ \A i \in 1..Len(Tail(todo)) : Tail(todo)[i] = todo[i + 1]
BY HeadTailProperties, LenProperties

(* The fields of a controller command. *)
LEMMA StepParts ==
  ASSUME NEW s \in Step
  PROVE  s.kind \in Kinds /\ s.m \in Motors /\ s.to \in Int
BY DEF Step

(* What is left of the steps still checks before it drives a jaw. *)
LEMMA ChecksTail ==
  ASSUME todo \in Seq(Step), todo # << >>, ChecksAhead, todo' = Tail(todo)
  PROVE  todo' \in Seq(Step) /\ ChecksAhead'
BY TodoParts DEF ChecksAhead

(* Before the server is first started the invariant holds: nothing moves *)
(* and the jaws do not touch.                                            *)
THEOREM InitMInv == Init => MInv
<1> SUFFICES ASSUME Init PROVE MInv
  OBVIOUS
<1> USE MotorsAssumption, SlitAssumption
<1>1. TypeOK
  <2>1. NoJob \in [cmd : Command, x1 : Int, x2 : Int]
    BY DEF NoJob, Command, Operations
  <2>2. pos \in [Motors -> Int] /\ target \in [Motors -> Int]
    BY DEF Init
  <2>3. todo \in Seq(Step) /\ stopQ \in Seq(Controllers)
    BY EmptySeq DEF Init
  <2> QED
    BY <2>1, <2>2, <2>3 DEF Init, TypeOK
<1>2. ChecksAhead
  BY DEF Init, ChecksAhead
<1>3. SlitsNeverCollide /\ GoalsSafe /\ OneJawInFlight
  <2>1. pos[X1] \in Int /\ pos[X2] \in Int
    BY DEF Init
  <2>2. /\ pos[X1] >= 0 /\ pos[X2] >= 0
        /\ pos[X1] <= Individual /\ pos[X2] <= Individual
        /\ pos[X1] + pos[X2] <= Sum
    BY DEF Init, canBothMove
  <2>3. target[X1] = pos[X1] /\ target[X2] = pos[X2]
    BY DEF Init
  <2> QED
    BY <2>1, <2>2, <2>3 DEF SlitsNeverCollide, GoalsSafe, OneJawInFlight
<1> QED
  BY <1>1, <1>2, <1>3 DEF Init, MInv, StillBetweenSteps, OthersStill, JawsKnown,
    LimitsKnown, CalWithdraws

-----------------------------------------------------------------------------
(* Commands *)

(* The commands a client may send, and what the server notes of one, have *)
(* their types.                                                           *)
LEMMA JobType ==
  ASSUME TypeOK, NEW c \in Commands
  PROVE  /\ c \in Command /\ c.op \in Operations /\ c.m \in Motors /\ c.v \in Int
         /\ Job(c) \in [cmd : Command, x1 : Int, x2 : Int]
BY CommandsAssumption, SlitAssumption DEF Job, TypeOK, Command

(* Accepting a command only fixes its steps. *)
LEMMA StartKeeps ==
  ASSUME MInv, NEW c \in Commands, NEW steps \in Seq(Step), pc = "idle",
         \A i \in 1..Len(steps) :
           steps[i].kind \in {"range", "raw"} => steps[i].m \notin Slits,
         Start(c, steps), UNCHANGED stop
  PROVE  MInv'
<1> USE DEF MInv, Start, axes, limits, stop
<1>1. TypeOK'
  BY JobType DEF TypeOK
<1>2. ChecksAhead'
  BY DEF ChecksAhead
<1>3. StillBetweenSteps' /\ JawsKnown' /\ LimitsKnown'
  BY DEF StillBetweenSteps, JawsKnown, LimitsKnown
<1>4. OthersStill' /\ CalWithdraws'
  BY DEF OthersStill, CalWithdraws
<1>5. OneJawInFlight' /\ SlitsNeverCollide' /\ GoalsSafe'
  BY DEF OneJawInFlight, SlitsNeverCollide, GoalsSafe
<1> QED
  BY <1>1, <1>2, <1>3, <1>4, <1>5

(* A command refused at once (an argument check of Initialize.cpp) leaves *)
(* the invariant.                                                         *)
LEMMA RefuseKeeps ==
  ASSUME MInv, NEW c \in Commands, pc = "idle", Refuse(c), UNCHANGED stop
  PROVE  MInv'
<1> USE DEF MInv, Refuse, Answer, axes, limits, stop
<1>1. TypeOK'
  BY JobType DEF TypeOK
<1>2. ChecksAhead' /\ StillBetweenSteps' /\ JawsKnown' /\ LimitsKnown'
  BY DEF ChecksAhead, StillBetweenSteps, JawsKnown, LimitsKnown
<1>3. OthersStill' /\ CalWithdraws' /\ OneJawInFlight'
      /\ SlitsNeverCollide' /\ GoalsSafe'
  BY DEF OthersStill, CalWithdraws, OneJawInFlight, SlitsNeverCollide, GoalsSafe
<1> QED
  BY <1>1, <1>2, <1>3

(* A plain motor command is one controller command. *)
LEMMA OneStep ==
  ASSUME NEW c \in Command, NEW kind \in Kinds
  PROVE  /\ One(kind, c) \in Seq(Step)
         /\ Len(One(kind, c)) = 1
         /\ One(kind, c)[1] = [kind |-> kind, m |-> c.m, to |-> c.v]
BY DEF One, Step, Command

(* Accepting moveabs, moverel, cal, rangemeasure or sendcontroller keeps *)
(* the invariant: no jaw is driven unchecked.                            *)
LEMMA StartCommands ==
  ASSUME MInv, NEW c \in Commands,
         MoveAbs(c) \/ MoveRel(c) \/ Cal(c) \/ RangeMeasure(c) \/ SendController(c)
  PROVE  MInv'
<1> USE CommandsAssumption DEF Received
<1>0. c \in Command /\ c.m \in Motors
  BY JobType DEF MInv
<1>1. ASSUME NEW kind \in Kinds, pc = "idle", UNCHANGED stop, Start(c, One(kind, c)),
             kind \in {"range", "raw"} => c.m \notin Slits
      PROVE  MInv'
  <2>1. \A i \in 1..Len(One(kind, c)) :
          One(kind, c)[i].kind \in {"range", "raw"} => One(kind, c)[i].m \notin Slits
    <3> TAKE i \in 1..Len(One(kind, c))
    <3>1. Len(One(kind, c)) = 1
      BY <1>0, <1>1, OneStep
    <3>2. i = 1
      BY <3>1
    <3>3. One(kind, c)[1] = [kind |-> kind, m |-> c.m, to |-> c.v]
      BY <1>0, <1>1, OneStep
    <3>4. One(kind, c)[i].kind = kind /\ One(kind, c)[i].m = c.m
      BY <3>2, <3>3
    <3> QED
      BY <1>1, <3>4
  <2> QED
    BY <1>0, <1>1, <2>1, OneStep, StartKeeps
<1>2. CASE MoveAbs(c)
  BY <1>1, <1>2 DEF MoveAbs, Kinds
<1>3. CASE MoveRel(c)
  BY <1>1, <1>3 DEF MoveRel, Kinds
<1>4. CASE Cal(c)
  BY <1>1, <1>4 DEF Cal, Kinds
<1>5. CASE RangeMeasure(c)
  <2>1. CASE c.m \in Restricted
    BY <1>5, <2>1, RefuseKeeps DEF RangeMeasure
  <2>2. CASE c.m \notin Restricted
    BY <1>1, <1>5, <2>2, SlitAssumption DEF RangeMeasure, Kinds
  <2> QED
    BY <2>1, <2>2
<1>6. CASE SendController(c)
  BY <1>1, <1>6 DEF SendController, Kinds
<1> QED
  BY <1>2, <1>3, <1>4, <1>5, <1>6

(* Accepting setref keeps the invariant: reference points never name a *)
(* jaw.                                                                *)
LEMMA SetRefKeeps ==
  ASSUME MInv, NEW c \in Commands, SetRef(c)
  PROVE  MInv'
<1> DEFINE n == Len(RefMotors)
           steps == [i \in 1..n |->
             [kind |-> "ref", m |-> RefMotors[i], to |-> RefPoints[c.v][i]]]
<1>1. c.v \in 1..Len(RefPoints)
  BY CommandsAssumption DEF SetRef, Received
<1>2. RefPoints[c.v] \in [1..n -> Int]
  BY <1>1, ElementOfSeq, MotorsAssumption
<1>3. n \in Nat /\ \A i \in 1..n : RefMotors[i] \in Motors
  BY ElementOfSeq, LenProperties, MotorsAssumption
<1>4. \A i \in 1..n : steps[i] \in Step
  BY <1>2, <1>3 DEF Step, Kinds
<1>5. steps \in Seq(Step) /\ Len(steps) = n
  BY <1>3, <1>4, IsASeq
<1>6. \A i \in 1..Len(steps) : steps[i].kind = "ref"
  BY <1>5
<1> QED
  BY <1>5, <1>6, StartKeeps DEF SetRef, Received

(* Two absolute steps for the jaws, as setslitwidth and setcenter build. *)
LEMMA JawSteps ==
  ASSUME NEW p \in Int, NEW q \in Int, NEW x \in Slits, NEW y \in Slits,
         NEW steps,
         steps = <<[kind |-> "abs", m |-> x, to |-> p],
                   [kind |-> "abs", m |-> y, to |-> q]>>
  PROVE  /\ steps \in Seq(Step)
         /\ \A i \in 1..Len(steps) :
              steps[i].kind \in {"range", "raw"} => steps[i].m \notin Slits
<1>1. x \in Motors /\ y \in Motors
  BY SlitAssumption DEF Slits
<1>2. /\ [kind |-> "abs", m |-> x, to |-> p] \in Step
      /\ [kind |-> "abs", m |-> y, to |-> q] \in Step
  BY <1>1 DEF Step, Kinds
<1>3. steps \in Seq(Step) /\ Len(steps) = 2
  BY <1>2
<1>4. steps[1].kind = "abs" /\ steps[2].kind = "abs"
  OBVIOUS
<1>5. \A i \in 1..Len(steps) : i = 1 \/ i = 2
  BY <1>3
<1> QED
  BY <1>3, <1>4, <1>5

(* A command with nothing left to send has no step that could be wrong. *)
LEMMA NoSteps ==
  /\ << >> \in Seq(Step)
  /\ \A i \in 1..Len(<< >>) : FALSE
BY EmptySeq

(* Accepting setslitwidth or setcenter keeps the invariant: both jaws' *)
(* moves still have their own check before them.                       *)
LEMMA SlitCommands ==
  ASSUME MInv, NEW c \in Commands, SetSlitWidth(c) \/ SetCenter(c)
  PROVE  MInv'
<1> USE DEF Received
<1>1. /\ cached[X1] \in Int /\ cached[X2] \in Int /\ c.v \in Int /\ Sum \in Int
      /\ X1 \in Slits /\ X2 \in Slits
  <2>1. TypeOK
    BY DEF MInv
  <2>2. c.v \in Int
    BY <2>1, JobType
  <2> QED
    BY <2>1, <2>2, SlitAssumption DEF TypeOK, Slits
<1>2. CASE SetSlitWidth(c)
  <2> DEFINE change == getSlitWidth(cached) - c.v
             p == cached[X1] + change \div 2
             q == cached[X2] + change \div 2
             steps == <<[kind |-> "abs", m |-> X1, to |-> p],
                        [kind |-> "abs", m |-> X2, to |-> q]>>
  <2>1. change \in Int
    BY <1>1 DEF getSlitWidth
  <2>2. p \in Int /\ q \in Int
    BY <1>1, <2>1
  <2> HIDE DEF change
  <2>3. pc = "idle" /\ UNCHANGED stop
        /\ (Start(c, << >>) \/ Refuse(c) \/ Start(c, steps))
    BY <1>2 DEF SetSlitWidth, change
  <2> QED
    BY <1>1, <2>2, <2>3, JawSteps, NoSteps, StartKeeps, RefuseKeeps
<1>3. CASE SetCenter(c)
  <2> DEFINE change == c.v - getCenter2(cached)
             p == cached[X1] + change \div 2
             q == cached[X2] - change \div 2
             x1 == [kind |-> "abs", m |-> X1, to |-> p]
             x2 == [kind |-> "abs", m |-> X2, to |-> q]
  <2>1. change \in Int
    BY <1>1 DEF getCenter2
  <2>2. p \in Int /\ q \in Int
    BY <1>1, <2>1
  <2> HIDE DEF change
  <2>3. pc = "idle" /\ UNCHANGED stop
        /\ (\/ Start(c, << >>) \/ Refuse(c)
            \/ Start(c, <<x1, x2>>) \/ Start(c, <<x2, x1>>))
    BY <1>3 DEF SetCenter, change
  <2> QED
    BY <1>1, <2>2, <2>3, JawSteps, NoSteps, StartKeeps, RefuseKeeps
<1> QED
  BY <1>2, <1>3

-----------------------------------------------------------------------------
(* Limits and positions set by hand *)

(* setupper and setlower keep the invariant: they are refused for the *)
(* jaws.                                                              *)
LEMMA SetLimitKeeps ==
  ASSUME MInv, NEW c \in Commands, SetUpper(c) \/ SetLower(c)
  PROVE  MInv'
<1> USE SlitAssumption DEF Received
<1>1. CASE Refuse(c)
  BY <1>1, RefuseKeeps DEF SetUpper, SetLower
<1>2. CASE ~Refuse(c)
  <2>1. /\ pc = "idle" /\ c.m \notin Slits /\ Answer(c, TRUE)
        /\ UNCHANGED <<axes, cached, stop>>
        /\ \/ upper' = [upper EXCEPT ![c.m] = c.v] /\ lower' = lower
           \/ lower' = [lower EXCEPT ![c.m] = c.v] /\ upper' = upper
    BY <1>2 DEF SetUpper, SetLower
  <2> USE DEF MInv, Answer, axes, stop
  <2>2. c.m \in Motors /\ c.v \in Int /\ c.m # X1 /\ c.m # X2
    BY <2>1, JobType DEF Slits
  <2>3. lower' \in [Motors -> Int] /\ upper' \in [Motors -> Int]
    BY <2>1, <2>2 DEF TypeOK
  <2>4. TypeOK'
    BY <2>1, <2>3, JobType DEF TypeOK
  <2>5. /\ upper'[X1] = upper[X1] /\ upper'[X2] = upper[X2]
        /\ lower'[X1] = lower[X1] /\ lower'[X2] = lower[X2]
    BY <2>1, <2>2 DEF TypeOK
  <2>6. LimitsKnown'
    BY <2>1, <2>5 DEF LimitsKnown
  <2>7. ChecksAhead' /\ StillBetweenSteps' /\ JawsKnown'
    BY <2>1 DEF ChecksAhead, StillBetweenSteps, JawsKnown
  <2>8. OthersStill' /\ CalWithdraws' /\ OneJawInFlight'
        /\ SlitsNeverCollide' /\ GoalsSafe'
    BY <2>1 DEF OthersStill, CalWithdraws, OneJawInFlight, SlitsNeverCollide, GoalsSafe
  <2> QED
    BY <2>4, <2>6, <2>7, <2>8
<1> QED
  BY <1>1, <1>2

(* Reading back a controller whose jaws are known changes no jaw's copy. *)
LEMMA ReadBack ==
  ASSUME TypeOK, NEW k, NEW at \in [Motors -> Int]
  PROVE  /\ debugPositions(k, at) \in [Motors -> Int]
         /\ \A m \in Motors :
              debugPositions(k, at)[m] = IF Controller[m] = k THEN at[m] ELSE cached[m]
BY DEF debugPositions, TypeOK

(* setpos keeps the invariant although it renumbers every axis of the *)
(* controller: a jaw on it is renumbered to where it is.              *)
LEMMA SetPosKeeps ==
  ASSUME MInv, NEW c \in Commands, SetPos(c)
  PROVE  MInv'
<1> USE SlitAssumption DEF Received
<1>1. CASE c.m \in Restricted
  BY <1>1, RefuseKeeps DEF SetPos
<1>2. CASE c.m \notin Restricted
  <2> DEFINE k == Controller[c.m]
             renumbered == [m \in Motors |-> IF m = c.m THEN c.v
                              ELSE IF Controller[m] = k THEN cached[m] ELSE pos[m]]
  <2>1. /\ pc = "idle" /\ UNCHANGED stop /\ pos' = renumbered
        /\ target' = [m \in Motors |->
                        IF Controller[m] = k THEN renumbered[m] ELSE target[m]]
        /\ cached' = debugPositions(k, renumbered)
        /\ Answer(c, TRUE) /\ UNCHANGED limits
    BY <1>2 DEF SetPos
  <2>2. c.m \in Motors /\ c.v \in Int /\ c.m # X1 /\ c.m # X2
    BY <1>2, JobType DEF MInv, Slits
  <2>3. renumbered \in [Motors -> Int]
    BY <2>2 DEF MInv, TypeOK
  <2>4. target' \in [Motors -> Int] /\ cached' \in [Motors -> Int]
    BY <2>1, <2>3, ReadBack DEF MInv, TypeOK
  <2>5. \A x \in Slits : pos'[x] = pos[x] /\ target'[x] = target[x]
                         /\ cached'[x] = cached[x]
    BY <2>1, <2>2, <2>3, ReadBack DEF MInv, JawsKnown, StillBetweenSteps, Slits
  <2>6. \A m \in Motors : pos'[m] = target'[m]
    BY <2>1, <2>2 DEF MInv, StillBetweenSteps
  <2> HIDE DEF renumbered
  <2> USE DEF MInv, Answer, limits, stop
  <2>7. TypeOK'
    BY <2>1, <2>3, <2>4, JobType DEF TypeOK
  <2>8. StillBetweenSteps' /\ ChecksAhead' /\ OthersStill' /\ CalWithdraws'
    BY <2>1, <2>6 DEF StillBetweenSteps, ChecksAhead, OthersStill, CalWithdraws
  <2>9. JawsKnown' /\ LimitsKnown'
    BY <2>1, <2>5 DEF JawsKnown, LimitsKnown, Slits
  <2>10. OneJawInFlight' /\ SlitsNeverCollide' /\ GoalsSafe'
    BY <2>1, <2>5 DEF OneJawInFlight, SlitsNeverCollide, GoalsSafe, Slits
  <2> QED
    BY <2>7, <2>8, <2>9, <2>10
<1> QED
  BY <1>1, <1>2

-----------------------------------------------------------------------------
(* The slit limits *)

(* Over jaws within their own limits updateLimits never throws, leaves each *)
(* jaw the room beside the other and touches no other motor.                *)
LEMMA UpdateLimits ==
  ASSUME upper \in [Motors -> Int], lower[X1] = 0, lower[X2] = 0,
         NEW at \in [Motors -> Int],
         at[X1] \in 0..Individual, at[X2] \in 0..Individual
  PROVE  /\ updateAccepted(at)
         /\ updateLimits(at) \in [Motors -> Int]
         /\ updateLimits(at)[X1] \in 0..Individual
         /\ updateLimits(at)[X2] \in 0..Individual
         /\ updateLimits(at)[X1] + at[X2] <= Sum
         /\ updateLimits(at)[X2] + at[X1] <= Sum
<1> USE SlitAssumption
<1>1. ASSUME NEW p \in 0..Individual
      PROVE  Room(p) \in 0..Individual /\ Room(p) + p <= Sum /\ Room(p) \in Int
  BY DEF Room
<1>2. acceptsUpper(X1, Room(at[X2])) /\ acceptsUpper(X2, Room(at[X1]))
  BY <1>1 DEF acceptsUpper
<1>3. updateAccepted(at)
  BY <1>2 DEF updateAccepted
<1>4. updateLimits(at)[X1] = Room(at[X2]) /\ updateLimits(at)[X2] = Room(at[X1])
  BY <1>2, <1>3 DEF updateLimits
<1>5. updateLimits(at) \in [Motors -> Int]
  BY <1>1 DEF updateLimits
<1> QED
  BY <1>1, <1>3, <1>4, <1>5

(* depos keeps the invariant: the limits it computes are those of the *)
(* positions it has just read.                                        *)
LEMMA DeposKeeps ==
  ASSUME MInv, NEW c \in Commands, Depos(c)
  PROVE  MInv'
<1> DEFINE read == debugPositions(Controller[c.m], pos)
<1> USE SlitAssumption DEF Received
<1>1. pc = "idle" /\ UNCHANGED stop /\ cached' = read /\ upper' = updateLimits(read)
      /\ Answer(c, updateAccepted(read)) /\ UNCHANGED <<axes, lower>>
  BY DEF Depos
<1>2. pos \in [Motors -> Int] /\ upper \in [Motors -> Int] /\ TypeOK
  BY DEF MInv, TypeOK
<1>3. read \in [Motors -> Int] /\ \A x \in Slits : read[x] = pos[x]
  BY <1>1, <1>2, ReadBack DEF MInv, JawsKnown, Slits
<1> HIDE DEF read
<1>4. read[X1] = pos[X1] /\ read[X2] = pos[X2]
  BY <1>3 DEF Slits
<1>5. read[X1] \in 0..Individual /\ read[X2] \in 0..Individual
  BY <1>4 DEF MInv, SlitsNeverCollide
<1>6. lower[X1] = 0 /\ lower[X2] = 0
  BY <1>1 DEF MInv, LimitsKnown
<1>7. /\ upper' \in [Motors -> Int]
      /\ upper'[X1] \in 0..Individual /\ upper'[X2] \in 0..Individual
      /\ upper'[X1] + read[X2] <= Sum /\ upper'[X2] + read[X1] <= Sum
  BY <1>1, <1>2, <1>3, <1>5, <1>6, UpdateLimits
<1> USE DEF MInv, Answer, axes, stop
<1>8. TypeOK'
  BY <1>1, <1>3, <1>7, JobType DEF TypeOK
<1>9. JawsKnown' /\ LimitsKnown'
  BY <1>1, <1>3, <1>6, <1>7 DEF JawsKnown, LimitsKnown
<1>10. StillBetweenSteps' /\ ChecksAhead' /\ OthersStill' /\ CalWithdraws'
  BY <1>1 DEF StillBetweenSteps, ChecksAhead, OthersStill, CalWithdraws
<1>11. OneJawInFlight' /\ SlitsNeverCollide' /\ GoalsSafe'
  BY <1>1 DEF OneJawInFlight, SlitsNeverCollide, GoalsSafe
<1> QED
  BY <1>8, <1>9, <1>10, <1>11

(* Whatever command a client sends, receiving it keeps the invariant. *)
LEMMA ReceiveKeeps == MInv /\ Receive => MInv'
BY StartCommands, SetRefKeeps, SlitCommands, SetPosKeeps, SetLimitKeeps, DeposKeeps
   DEF Receive

-----------------------------------------------------------------------------
(* The steps of a command *)

(* The step that is worked on has its type. *)
LEMMA HeadType ==
  ASSUME TypeOK, todo # << >>
  PROVE  /\ Head(todo) \in Step /\ Head(todo).kind \in Kinds
         /\ Head(todo).m \in Motors /\ Head(todo).to \in Int
BY TodoParts, StepParts DEF TypeOK

(* With every axis still and the jaws read back as at, going on is safe.    *)
LEMMA StepDoneKeeps ==
  ASSUME MInv, pc \in {"exec", "wait"}, todo # << >>,
         NEW at \in [Motors -> Int], cached' = at,
         \A x \in Slits : at[x] = pos[x],
         \A m \in Motors : pos[m] = target[m],
         UNCHANGED <<axes, lower, stop>>,
         StepDone(Head(todo).m, at)
  PROVE  MInv'
<1> DEFINE n == Head(todo).m
<1> USE SlitAssumption DEF MInv, axes, stop
<1>1. at[X1] = pos[X1] /\ at[X2] = pos[X2]
  BY DEF Slits
<1>2. at[X1] \in 0..Individual /\ at[X2] \in 0..Individual
  BY <1>1 DEF SlitsNeverCollide
<1>3. lower[X1] = 0 /\ lower[X2] = 0
  BY DEF LimitsKnown
<1>4. /\ pc' = "exec" /\ todo' = Tail(todo) /\ UNCHANGED <<job, reply>>
      /\ upper' \in [Motors -> Int]
      /\ upper'[X1] \in 0..Individual /\ upper'[X2] \in 0..Individual
      /\ upper'[X1] + at[X2] <= Sum /\ upper'[X2] + at[X1] <= Sum
  <2>1. CASE n \in Slits
    <3>1. upper \in [Motors -> Int]
      BY DEF TypeOK
    <3>2. /\ updateAccepted(at)
          /\ updateLimits(at) \in [Motors -> Int]
          /\ updateLimits(at)[X1] \in 0..Individual
          /\ updateLimits(at)[X2] \in 0..Individual
          /\ updateLimits(at)[X1] + at[X2] <= Sum
          /\ updateLimits(at)[X2] + at[X1] <= Sum
      BY <1>2, <1>3, <3>1, UpdateLimits
    <3> QED
      BY <2>1, <3>2 DEF StepDone
  <2>2. CASE n \notin Slits
    <3>1. \A x \in Slits : cached[x] = pos[x]
      BY <2>2 DEF OthersStill, JawsKnown
    <3>2. cached[X1] = at[X1] /\ cached[X2] = at[X2]
      BY <1>1, <3>1 DEF Slits
    <3> QED
      BY <2>2, <3>2 DEF StepDone, LimitsKnown, TypeOK
  <2> QED
    BY <2>1, <2>2
<1>5. todo' \in Seq(Step) /\ ChecksAhead'
  BY <1>4, ChecksTail DEF TypeOK
<1>6. TypeOK'
  BY <1>4, <1>5 DEF TypeOK
<1>7. StillBetweenSteps' /\ OthersStill' /\ CalWithdraws'
  BY <1>4 DEF StillBetweenSteps, OthersStill, CalWithdraws
<1>8. JawsKnown' /\ LimitsKnown'
  BY <1>1, <1>3, <1>4 DEF JawsKnown, LimitsKnown, Slits
<1>9. OneJawInFlight' /\ SlitsNeverCollide' /\ GoalsSafe'
  BY DEF OneJawInFlight, SlitsNeverCollide, GoalsSafe
<1> QED
  BY <1>5, <1>6, <1>7, <1>8, <1>9

(* A step that moves nothing keeps the invariant. *)
LEMMA SkipKeeps == MInv /\ Skip => MInv'
<1> SUFFICES ASSUME MInv, Skip PROVE MInv'
  OBVIOUS
<1>1. cached \in [Motors -> Int] /\ cached' = cached
  BY DEF MInv, TypeOK, Skip
<1>2. \A x \in Slits : cached[x] = pos[x]
  BY DEF Skip, MInv, JawsKnown
<1>3. \A m \in Motors : pos[m] = target[m]
  BY DEF Skip, MInv, StillBetweenSteps
<1> QED
  BY <1>1, <1>2, <1>3, StepDoneKeeps DEF Skip

(* A refused step, the end of a command and the death of the server keep *)
(* the invariant: they move nothing.                                     *)
LEMMA ThrowFinishCrashKeep == MInv /\ (Throw \/ Finish \/ Crash) => MInv'
<1> SUFFICES ASSUME MInv, Throw \/ Finish \/ Crash PROVE MInv'
  OBVIOUS
<1>1. UNCHANGED <<axes, cached, limits, stop, job>>
  BY DEF Throw, Fail, Finish, Crash
<1>2. todo' = << >> /\ pc' \in {"idle", "down"} /\ reply' \in {"none", "ok", "error"}
  BY DEF Throw, Fail, Finish, Crash, MInv, TypeOK
<1>3. pc' = "idle" => pc = "exec"
  BY DEF Throw, Fail, Finish, Crash
<1> USE DEF MInv, axes, limits, stop
<1>4. TypeOK' /\ ChecksAhead'
  BY <1>1, <1>2, NoSteps DEF TypeOK, ChecksAhead
<1>5. StillBetweenSteps' /\ JawsKnown'
  BY <1>1, <1>2, <1>3 DEF StillBetweenSteps, JawsKnown
<1>6. LimitsKnown'
  BY <1>1, <1>2, <1>3 DEF LimitsKnown
<1>7. OthersStill' /\ CalWithdraws' /\ OneJawInFlight'
      /\ SlitsNeverCollide' /\ GoalsSafe'
  BY <1>1, <1>2
     DEF OthersStill, CalWithdraws, OneJawInFlight, SlitsNeverCollide, GoalsSafe
<1> QED
  BY <1>4, <1>5, <1>6, <1>7

(* A step is sent off from rest: the jaw it names, if any, goes to a place  *)
(* within its limit, and no other axis is driven away from where it is.     *)
LEMMA SendKeeps == MInv /\ Send => MInv'
<1> SUFFICES ASSUME MInv, Send PROVE MInv'
  OBVIOUS
<1> DEFINE s == Head(todo)
<1> USE SlitAssumption DEF MInv
<1>1. /\ pc = "exec" /\ pc' = "wait" /\ todo # << >> /\ ~BeyondLimits(s)
      /\ target' = [n \in Motors |-> Driven(s, n)]
      /\ UNCHANGED <<pos, cached, limits, todo, job, reply, stop>>
  BY DEF Send
<1>2. s \in Step /\ s.kind \in Kinds /\ s.m \in Motors /\ s.to \in Int
  BY <1>1, HeadType
<1>3. s.kind \in {"range", "raw"} => s.m \notin Slits
  <2>1. todo \in Seq(Step) /\ ChecksAhead
    BY DEF TypeOK
  <2> HIDE DEF MInv
  <2>2. s = todo[1] /\ Len(todo) \in Nat /\ Len(todo) >= 1
    BY <1>1, <2>1, TodoParts
  <2> QED
    BY <2>1, <2>2 DEF ChecksAhead
<1>4. \A n \in Motors : pos[n] = target[n] /\ pos[n] \in Int /\ cached[n] \in Int
  BY <1>1 DEF StillBetweenSteps, TypeOK
<1>5. \A x \in Slits : cached[x] = pos[x]
  BY <1>1 DEF JawsKnown
<1> HIDE DEF s
<1>6. \A n \in Motors : Driven(s, n) \in Int
  <2> SUFFICES ASSUME NEW n \in Motors PROVE Driven(s, n) \in Int
    OBVIOUS
  <2>1. pos[n] \in Int /\ cached[n] \in Int /\ target[n] \in Int /\ EndSwitch[n] \in Int
    BY <1>4, MotorsAssumption
  <2>2. s.kind \in {"abs", "ref", "raw"} \/ s.kind = "rel" \/ s.kind = "cal"
        \/ s.kind = "range"
    BY <1>2 DEF Kinds
  <2>3. CASE n # s.m
    BY <2>1, <2>3 DEF Driven
  <2>4. CASE n = s.m /\ s.kind \in {"abs", "ref", "raw"}
    BY <1>2, <2>4 DEF Driven
  <2>5. CASE n = s.m /\ s.kind = "rel"
    <3>1. Driven(s, n) = pos[n] + s.to
      BY <2>5 DEF Driven
    <3> QED
      BY <1>2, <2>1, <3>1
  <2>6. CASE n = s.m /\ s.kind \in {"cal", "range"}
    BY <2>1, <2>6 DEF Driven
  <2> QED
    BY <2>2, <2>3, <2>4, <2>5, <2>6
<1>7. \A n \in Motors : Controller[n] # Controller[s.m] => target'[n] = pos[n]
  BY <1>1, <1>4 DEF Driven
<1>8. \A x \in Slits : x # s.m => target'[x] = pos[x]
  BY <1>1, <1>4, <1>5 DEF Driven, Slits
<1>9. \A x \in Slits : x = s.m =>
        /\ target'[x] \in 0..upper[x]
        /\ s.kind = "cal" => target'[x] = 0
  <2> SUFFICES ASSUME NEW x \in Slits, x = s.m
               PROVE  target'[x] \in 0..upper[x] /\ (s.kind = "cal" => target'[x] = 0)
    OBVIOUS
  <2>1. lower[x] = 0 /\ upper[x] \in 0..Individual /\ upper[x] # Unset
    BY <1>1 DEF LimitsKnown, Slits, Unset
  <2>2. s.kind \in {"abs", "ref", "rel", "cal"}
    BY <1>2, <1>3 DEF Kinds
  <2>3. target'[x] = Driven(s, s.m) /\ x \in Motors
    BY <1>1 DEF Slits
  <2>4. CASE s.kind \in {"abs", "ref"}
    <3>1. target'[x] = s.to
      BY <2>3, <2>4 DEF Driven
    <3>2. canMotorMove(x, s.to)
      BY <1>1, <2>4 DEF BeyondLimits
    <3> QED
      BY <1>2, <2>1, <2>4, <3>1, <3>2 DEF canMotorMove, Unset
  <2>5. CASE s.kind = "rel"
    <3>1. target'[x] = cached[x] + s.to
      BY <1>5, <2>3, <2>5 DEF Driven
    <3>2. canMotorMove(x, cached[x] + s.to)
      BY <1>1, <2>5 DEF BeyondLimits
    <3> QED
      BY <1>2, <1>4, <2>1, <2>3, <2>5, <3>1, <3>2 DEF canMotorMove, Unset
  <2>6. CASE s.kind = "cal"
    BY <2>1, <2>3, <2>6 DEF Driven
  <2> QED
    BY <2>2, <2>4, <2>5, <2>6
<1>10. TypeOK'
  BY <1>1, <1>6 DEF TypeOK, limits, stop
<1>11. ChecksAhead' /\ StillBetweenSteps' /\ JawsKnown' /\ LimitsKnown'
  BY <1>1 DEF ChecksAhead, StillBetweenSteps, JawsKnown, LimitsKnown, limits
<1>12. OthersStill'
  BY <1>1, <1>4, <1>5, <1>7, <1>8 DEF OthersStill, s
<1>13. CalWithdraws'
  <2> SUFFICES ASSUME s.kind = "cal", NEW x \in Slits, x = s.m
               PROVE  target'[x] <= pos[x] /\ pos[x] <= cached[x]
    BY <1>1 DEF CalWithdraws, s
  <2> QED
    BY <1>5, <1>9 DEF SlitsNeverCollide, Slits
<1>14. pos' = pos /\ SlitsNeverCollide'
  BY <1>1 DEF SlitsNeverCollide
<1>15. OneJawInFlight' /\ GoalsSafe'
  <2>1. /\ pos[X1] \in 0..Individual /\ pos[X2] \in 0..Individual
        /\ pos[X1] + pos[X2] <= Sum /\ upper[X1] + pos[X2] <= Sum
        /\ upper[X2] + pos[X1] <= Sum
        /\ upper[X1] \in 0..Individual /\ upper[X2] \in 0..Individual
    BY <1>1, <1>5 DEF SlitsNeverCollide, LimitsKnown, Slits
  <2> HIDE DEF MInv
  <2>2. CASE s.m = X1
    <3>1. target'[X1] \in 0..upper[X1] /\ target'[X2] = pos[X2]
      BY <1>8, <1>9, <2>2 DEF Slits
    <3>2. target'[X1] \in 0..Individual /\ target'[X1] + pos[X2] <= Sum
      BY <2>1, <3>1
    <3> QED
      BY <1>14, <2>1, <3>1, <3>2 DEF OneJawInFlight, GoalsSafe
  <2>3. CASE s.m = X2
    <3>1. target'[X2] \in 0..upper[X2] /\ target'[X1] = pos[X1]
      BY <1>8, <1>9, <2>3 DEF Slits
    <3>2. target'[X2] \in 0..Individual /\ pos[X1] + target'[X2] <= Sum
      BY <2>1, <3>1
    <3> QED
      BY <1>14, <2>1, <3>1, <3>2 DEF OneJawInFlight, GoalsSafe
  <2>4. CASE s.m \notin Slits
    BY <1>8, <1>14, <2>1, <2>4 DEF Slits, OneJawInFlight, GoalsSafe
  <2> QED
    BY <2>2, <2>3, <2>4 DEF Slits
<1> QED
  BY <1>10, <1>11, <1>12, <1>13, <1>14, <1>15

(* Reading the positions back after a step keeps the invariant, also after *)
(* a failed calibration.                                                   *)
LEMMA SettleKeeps == MInv /\ Settle => MInv'
<1> SUFFICES ASSUME MInv, Settle PROVE MInv'
  OBVIOUS
<1> DEFINE s == Head(todo)
           read == IF s.kind = "raw" THEN cached ELSE debugPositions(Controller[s.m], pos)
<1> USE SlitAssumption DEF MInv
<1>1. /\ pc = "wait" /\ todo # << >> /\ Still(Controller[s.m]) /\ cached' = read
      /\ UNCHANGED <<axes, lower, stop>>
      /\ \/ Fail /\ UNCHANGED upper /\ s.kind = "cal"
         \/ StepDone(s.m, read)
  BY DEF Settle, TypeOK
<1>2. s.kind \in Kinds /\ s.m \in Motors
  BY <1>1, HeadType
<1>3. s.kind = "raw" => s.m \notin Slits
  BY <1>1, TodoParts DEF TypeOK, ChecksAhead
<1>4. \A m \in Motors : pos[m] = target[m]
  BY <1>1 DEF OthersStill, Still
<1>5. read \in [Motors -> Int]
  BY ReadBack DEF TypeOK
<1>6. \A x \in Slits : read[x] = pos[x]
  <2> SUFFICES ASSUME NEW x \in Slits PROVE read[x] = pos[x]
    OBVIOUS
  <2>0. x \in Motors /\ TypeOK /\ pos \in [Motors -> Int]
    BY DEF TypeOK, Slits
  <2>1. CASE x = s.m
    <3>1. read = debugPositions(Controller[s.m], pos)
      BY <1>3, <2>1
    <3> QED
      BY <2>0, <2>1, <3>1, ReadBack
  <2>2. CASE x # s.m
    <3>1. cached[x] = pos[x]
      BY <1>1, <2>2 DEF OthersStill
    <3>2. debugPositions(Controller[s.m], pos)[x] = pos[x]
      BY <2>0, <3>1, ReadBack
    <3> QED
      BY <3>1, <3>2
  <2> QED
    BY <2>1, <2>2
<1>7. CASE StepDone(s.m, read)
  BY <1>1, <1>4, <1>5, <1>6, <1>7, StepDoneKeeps
<1>8. CASE Fail /\ UNCHANGED upper /\ s.kind = "cal"
  <2>1. pc' = "idle" /\ reply' = "error" /\ todo' = << >> /\ job' = job /\ cached' = read
    BY <1>1, <1>8 DEF Fail
  <2>2. \A x \in Slits : pos[x] <= cached[x]
    BY <1>1, <1>8 DEF OthersStill, CalWithdraws, Slits, SlitsNeverCollide
  <2>3. /\ cached'[X1] = pos[X1] /\ cached'[X2] = pos[X2]
        /\ pos[X1] <= cached[X1] /\ pos[X2] <= cached[X2]
    BY <1>6, <2>1, <2>2 DEF Slits
  <2>4. /\ pos[X1] \in Int /\ pos[X2] \in Int
        /\ cached[X1] \in Int /\ cached[X2] \in Int
    BY DEF TypeOK
  <2> HIDE DEF read, s
  <2>5. TypeOK' /\ ChecksAhead'
    BY <1>1, <1>5, <1>8, <2>1, NoSteps DEF TypeOK, ChecksAhead, axes, stop
  <2>6. StillBetweenSteps' /\ OthersStill' /\ CalWithdraws'
    BY <1>1, <1>4, <2>1 DEF StillBetweenSteps, OthersStill, CalWithdraws, axes
  <2>7. JawsKnown'
    BY <1>1, <1>6, <2>1 DEF JawsKnown, axes
  <2>8. LimitsKnown'
    <3>1. /\ lower[X1] = 0 /\ lower[X2] = 0
          /\ upper[X1] \in 0..Individual /\ upper[X2] \in 0..Individual
          /\ upper[X1] + cached[X2] <= Sum /\ upper[X2] + cached[X1] <= Sum
      BY <1>1 DEF LimitsKnown
    <3> HIDE DEF MInv
    <3>2. upper[X1] \in Int /\ upper[X2] \in Int /\ Sum \in Int
      BY <3>1
    <3>3. upper[X1] + cached'[X2] <= Sum
      BY <2>3, <2>4, <3>1, <3>2
    <3>4. upper[X2] + cached'[X1] <= Sum
      BY <2>3, <2>4, <3>1, <3>2
    <3> QED
      BY <1>1, <1>8, <3>1, <3>3, <3>4 DEF LimitsKnown
  <2>9. OneJawInFlight' /\ SlitsNeverCollide' /\ GoalsSafe'
    BY <1>1 DEF OneJawInFlight, SlitsNeverCollide, GoalsSafe, axes
  <2> QED
    BY <2>5, <2>6, <2>7, <2>8, <2>9
<1> QED
  BY <1>1, <1>7, <1>8

(* A new server takes over safely: it waits for what its predecessor set *)
(* in motion.                                                            *)
LEMMA RestartKeeps == MInv /\ Restart => MInv'
<1> SUFFICES ASSUME MInv, Restart PROVE MInv'
  OBVIOUS
<1> USE SlitAssumption, MotorsAssumption DEF MInv
<1>1. pc' = "idle" /\ cached' = pos /\ lower' = LowerLimit /\ todo = << >>
      /\ UNCHANGED <<axes, todo, job, reply, stop>>
  BY DEF Restart, TypeOK
<1>2. \A m \in Motors : pos[m] = target[m]
  BY DEF Restart, Still
<1>3. ASSUME NEW p \in 0..Individual
      PROVE  Room(p) \in 0..Individual /\ Room(p) + p <= Sum /\ Room(p) \in Int
  BY DEF Room
<1>4. /\ upper'[X1] = Room(pos[X2]) /\ upper'[X2] = Room(pos[X1])
      /\ upper' \in [Motors -> Int]
  <2>1. Room(pos[X1]) \in Int /\ Room(pos[X2]) \in Int
    BY <1>3 DEF SlitsNeverCollide
  <2> QED
    BY <2>1 DEF Restart
<1>5. TypeOK' /\ ChecksAhead'
  BY <1>1, <1>4 DEF TypeOK, ChecksAhead, axes, stop
<1>6. StillBetweenSteps' /\ OthersStill' /\ CalWithdraws' /\ JawsKnown'
  BY <1>1, <1>2 DEF StillBetweenSteps, OthersStill, CalWithdraws, JawsKnown, axes
<1>7. LimitsKnown'
  BY <1>1, <1>3, <1>4 DEF LimitsKnown, SlitsNeverCollide, Slits
<1>8. OneJawInFlight' /\ SlitsNeverCollide' /\ GoalsSafe'
  BY <1>1 DEF OneJawInFlight, SlitsNeverCollide, GoalsSafe, axes
<1> QED
  BY <1>5, <1>6, <1>7, <1>8

-----------------------------------------------------------------------------
(* The stop server and the controllers *)

(* A request to the stop server only fixes the controllers it will halt. *)
LEMMA StopRequestKeeps ==
  MInv /\ (StopAll \/ \E m \in Motors : Stop(m)) => MInv'
<1> SUFFICES ASSUME MInv, StopAll \/ \E m \in Motors : Stop(m) PROVE MInv'
  OBVIOUS
<1> USE DEF MInv, axes, limits, server
<1>1. /\ UNCHANGED <<axes, cached, limits, server>>
      /\ stopPc' = "send" /\ stopQ' \in Seq(Controllers) /\ stopQ' # << >>
  <2>1. CASE StopAll
    BY <2>1, MotorsAssumption DEF StopAll
  <2>2. ASSUME NEW m \in Motors, Stop(m)
        PROVE  /\ UNCHANGED <<axes, cached, limits, server>> /\ stopPc' = "send"
               /\ stopQ' \in Seq(Controllers) /\ stopQ' # << >>
    <3>1. stopQ' = <<Controller[m]>> /\ Controller[m] \in Controllers
      BY <2>2, MotorsAssumption DEF Stop
    <3> QED
      BY <2>2, <3>1 DEF Stop
  <2> QED
    BY <2>1, <2>2
<1>2. TypeOK'
  BY <1>1 DEF TypeOK
<1> QED
  BY <1>1, <1>2 DEF ChecksAhead, StillBetweenSteps, OthersStill, OneJawInFlight,
    SlitsNeverCollide, GoalsSafe, JawsKnown, LimitsKnown, CalWithdraws

(* The stop server going on to its next controller keeps the invariant. *)
LEMMA StoppedKeeps == MInv /\ Stopped => MInv'
<1> SUFFICES ASSUME MInv, Stopped PROVE MInv'
  OBVIOUS
<1> USE DEF MInv, axes, limits, server
<1>1. stopQ \in Seq(Controllers) /\ stopQ # << >>
  BY DEF Stopped, TypeOK
<1>2. Tail(stopQ) \in Seq(Controllers)
  BY <1>1, HeadTailProperties
<1>3. /\ UNCHANGED <<axes, cached, limits, server>> /\ stopQ' = Tail(stopQ)
      /\ stopPc' = IF stopQ' = << >> THEN "idle" ELSE "send"
  BY DEF Stopped
<1>4. TypeOK'
  BY <1>2, <1>3 DEF TypeOK
<1> QED
  BY <1>3, <1>4 DEF ChecksAhead, StillBetweenSteps, OthersStill, OneJawInFlight,
    SlitsNeverCollide, GoalsSafe, JawsKnown, LimitsKnown, CalWithdraws

(* ^C sets some axes at rest where they are and leaves the others alone.    *)
LEMMA SendStopKeeps == MInv /\ SendStop => MInv'
<1> SUFFICES ASSUME MInv, SendStop PROVE MInv'
  OBVIOUS
<1> USE SlitAssumption DEF MInv, limits, server
<1>1. /\ UNCHANGED <<pos, cached, limits, server, stopQ>>
      /\ stopPc = "send" /\ stopPc' = "wait" /\ target' \in [Motors -> Int]
  BY DEF SendStop, TypeOK
<1>2. \A m \in Motors : target'[m] = pos[m] \/ target'[m] = target[m]
  BY DEF SendStop
<1>3. TypeOK'
  BY <1>1 DEF TypeOK
<1>4. ChecksAhead' /\ JawsKnown' /\ LimitsKnown' /\ SlitsNeverCollide'
  BY <1>1 DEF ChecksAhead, JawsKnown, LimitsKnown, SlitsNeverCollide
<1>5. StillBetweenSteps'
  BY <1>1, <1>2 DEF StillBetweenSteps
<1>6. OthersStill'
  BY <1>1, <1>2 DEF OthersStill, Slits
<1>7. CalWithdraws'
  <2>1. \A x \in Slits : pos[x] \in Int /\ cached[x] \in Int
    BY DEF TypeOK, Slits
  <2> QED
    BY <1>1, <1>2, <2>1 DEF CalWithdraws, Slits
<1>8. OneJawInFlight' /\ GoalsSafe'
  <2>1. \A x \in Slits : target'[x] = pos[x] \/ target'[x] = target[x]
    BY <1>2 DEF Slits
  <2> QED
    BY <1>1, <2>1 DEF OneJawInFlight, GoalsSafe, SlitsNeverCollide, Slits
<1> QED
  BY <1>3, <1>4, <1>5, <1>6, <1>7, <1>8

(* A unit towards a safe goal leads from a safe place to a safe place.      *)
LEMMA SafeUnit ==
  ASSUME NEW here \in 0..Individual, NEW goal \in 0..Individual, NEW there,
         NEW other \in 0..Individual,
         here + other <= Sum, goal + other <= Sum,
         \/ there = here
         \/ here < goal /\ there = here + 1
         \/ here > goal /\ there = here - 1
  PROVE  there \in 0..Individual /\ there + other <= Sum
<1>1. Individual \in Nat /\ Sum \in Nat /\ there \in Int
  BY SlitAssumption
<1> QED
  BY <1>1

(* An axis in motion moves one unit towards its goal. *)
LEMMA DriveKeeps == ASSUME NEW n \in Motors PROVE MInv /\ Drive(n) => MInv'
<1> SUFFICES ASSUME MInv, Drive(n) PROVE MInv'
  OBVIOUS
<1> USE SlitAssumption DEF MInv, limits, server, stop
<1>1. pos[n] # target[n] /\ UNCHANGED <<target, cached, limits, server, stop>>
  BY DEF Drive
<1>2. /\ pos' \in [Motors -> Int] /\ pos[n] \in Int /\ target[n] \in Int
      /\ pos'[n] = IF pos[n] < target[n] THEN pos[n] + 1 ELSE pos[n] - 1
      /\ \A m \in Motors : m # n => pos'[m] = pos[m]
  <2>1. pos \in [Motors -> Int] /\ target \in [Motors -> Int]
    BY DEF TypeOK
  <2>2. pos' = [pos EXCEPT ![n] = IF pos[n] < target[n] THEN pos[n] + 1 ELSE pos[n] - 1]
    BY DEF Drive
  <2> DEFINE next == IF pos[n] < target[n] THEN pos[n] + 1 ELSE pos[n] - 1
  <2>3. next \in Int /\ pos[n] \in Int /\ target[n] \in Int
    BY <2>1
  <2> HIDE DEF next
  <2>4. pos' = [pos EXCEPT ![n] = next]
    BY <2>2 DEF next
  <2>5. pos' \in [Motors -> Int] /\ pos'[n] = next
    BY <2>1, <2>3, <2>4
  <2> QED
    BY <2>1, <2>3, <2>4, <2>5 DEF next
<1>3. TypeOK' /\ ChecksAhead' /\ LimitsKnown'
  BY <1>1, <1>2 DEF TypeOK, ChecksAhead, LimitsKnown
<1>4. StillBetweenSteps' /\ JawsKnown'
  BY <1>1 DEF StillBetweenSteps, JawsKnown
<1>5. OthersStill'
  BY <1>1, <1>2 DEF OthersStill, Slits
<1>6. CalWithdraws'
  <2> SUFFICES ASSUME pc = "wait", Head(todo).kind = "cal",
                      NEW x \in Slits, x = Head(todo).m
               PROVE  target[x] <= pos'[x] /\ pos'[x] <= cached[x]
    BY <1>1 DEF CalWithdraws
  <2>1. target[x] <= pos[x] /\ pos[x] <= cached[x]
    BY DEF CalWithdraws
  <2>2. x \in Motors /\ pos[x] \in Int /\ cached[x] \in Int /\ target[x] \in Int
    BY DEF TypeOK, Slits
  <2>3. CASE x = n
    <3>1. pos'[x] = pos[x] - 1 /\ pos[x] # target[x]
      BY <1>1, <1>2, <2>1, <2>2, <2>3
    <3> QED
      BY <2>1, <2>2, <3>1
  <2>4. CASE x # n
    BY <1>2, <2>1, <2>2, <2>4
  <2> QED
    BY <2>3, <2>4
<1>7. OneJawInFlight'
  BY <1>1, <1>2 DEF OneJawInFlight
<1>8. SlitsNeverCollide' /\ GoalsSafe'
  <2>1. /\ pos[X1] \in 0..Individual /\ pos[X2] \in 0..Individual
        /\ target[X1] \in 0..Individual /\ target[X2] \in 0..Individual
        /\ pos[X1] + pos[X2] <= Sum /\ target[X1] + target[X2] <= Sum
        /\ pos[X1] + target[X2] <= Sum /\ target[X1] + pos[X2] <= Sum
    BY DEF SlitsNeverCollide, GoalsSafe
  <2>2. target' = target
    BY <1>1
  <2>3. \A x \in Slits : \/ pos'[x] = pos[x]
                         \/ pos[x] < target[x] /\ pos'[x] = pos[x] + 1
                         \/ pos[x] > target[x] /\ pos'[x] = pos[x] - 1
    BY <1>1, <1>2 DEF Slits
  <2>4. \/ pos'[X1] = pos[X1]
        \/ pos[X1] < target[X1] /\ pos'[X1] = pos[X1] + 1
        \/ pos[X1] > target[X1] /\ pos'[X1] = pos[X1] - 1
    BY <2>3 DEF Slits
  <2>5. \/ pos'[X2] = pos[X2]
        \/ pos[X2] < target[X2] /\ pos'[X2] = pos[X2] + 1
        \/ pos[X2] > target[X2] /\ pos'[X2] = pos[X2] - 1
    BY <2>3 DEF Slits
  <2>6. pos'[X1] = pos[X1] \/ pos'[X2] = pos[X2]
    BY <1>2
  <2> HIDE DEF MInv
  <2>7. CASE pos'[X1] = pos[X1]
    <3>0. pos[X2] + pos[X1] <= Sum /\ target[X2] + pos[X1] <= Sum
          /\ pos[X2] + target[X1] <= Sum /\ target[X2] + target[X1] <= Sum
      BY <2>1
    <3>1. pos'[X2] \in 0..Individual /\ pos'[X2] + pos[X1] <= Sum
      BY <2>1, <2>5, <3>0, SafeUnit
    <3>2. pos'[X2] + target[X1] <= Sum
      BY <2>1, <2>5, <3>0, SafeUnit
    <3>3. SlitsNeverCollide'
      BY <2>1, <2>7, <3>1 DEF SlitsNeverCollide
    <3>4. GoalsSafe'
      BY <2>1, <2>2, <2>7, <3>1, <3>2 DEF GoalsSafe
    <3> QED
      BY <3>3, <3>4
  <2>8. CASE pos'[X2] = pos[X2]
    <3>1. pos'[X1] \in 0..Individual /\ pos'[X1] + pos[X2] <= Sum
      BY <2>1, <2>4, SafeUnit
    <3>2. pos'[X1] + target[X2] <= Sum
      BY <2>1, <2>4, SafeUnit
    <3>3. SlitsNeverCollide'
      BY <2>1, <2>8, <3>1 DEF SlitsNeverCollide
    <3>4. GoalsSafe'
      BY <2>1, <2>2, <2>8, <3>1, <3>2 DEF GoalsSafe
    <3> QED
      BY <3>3, <3>4
  <2> QED
    BY <2>6, <2>7, <2>8
<1> QED
  BY <1>3, <1>4, <1>5, <1>6, <1>7, <1>8

(* The invariant reads only the variables of the specification. *)
LEMMA StutterKeeps == MInv /\ UNCHANGED vars => MInv'
BY DEF vars, axes, limits, server, stop, MInv, TypeOK, ChecksAhead, StillBetweenSteps,
  OthersStill, OneJawInFlight, SlitsNeverCollide, GoalsSafe, JawsKnown, LimitsKnown,
  CalWithdraws

-----------------------------------------------------------------------------
(* Theorems *)

(* Every step keeps the invariant. *)
LEMMA NextMInv == MInv /\ [Next]_vars => MInv'
BY ReceiveKeeps, SkipKeeps, ThrowFinishCrashKeep, SendKeeps, SettleKeeps, RestartKeeps,
   StopRequestKeeps, StoppedKeeps, SendStopKeeps, DriveKeeps, StutterKeeps
   DEF Next, Work, StopWork

(* The invariant holds in every reachable state. *)
THEOREM Invariant == Spec => []MInv
BY InitMInv, NextMInv, PTL DEF Spec

(* Every variable keeps its type, the queues of both servers are empty      *)
(* exactly when they are idle.                                              *)
THEOREM TypeCorrect == Spec => []TypeOK
<1>1. MInv => TypeOK
  BY DEF MInv
<1> QED
  BY <1>1, Invariant, PTL

(* The jaws never touch and never pass their own limits.                    *)
THEOREM NoCollision == Spec => []SlitsNeverCollide
<1>1. MInv => SlitsNeverCollide
  BY DEF MInv
<1> QED
  BY <1>1, Invariant, PTL

(* No jaw is ever driven to a place the other may occupy.                   *)
THEOREM SafeGoals == Spec => []GoalsSafe
<1>1. MInv => GoalsSafe
  BY DEF MInv
<1> QED
  BY <1>1, Invariant, PTL

(* The server decides, and sends, only while every axis is at rest.         *)
THEOREM DecidesAtRest == Spec => []StillBetweenSteps
<1>1. MInv => StillBetweenSteps
  BY DEF MInv
<1> QED
  BY <1>1, Invariant, PTL

(* When it decides, the server knows where the jaws are and its limits      *)
(* leave room for them.                                                     *)
THEOREM LimitsSound == Spec => [](JawsKnown /\ LimitsLeaveRoom)
<1>1. MInv => JawsKnown /\ LimitsLeaveRoom
  <2> SUFFICES ASSUME MInv, pc \in {"idle", "exec"} PROVE LimitsLeaveRoom
    BY DEF MInv, LimitsLeaveRoom
  <2>1. cached[X1] = pos[X1] /\ cached[X2] = pos[X2]
    BY DEF MInv, JawsKnown, Slits
  <2> QED
    BY <2>1 DEF MInv, LimitsKnown, LimitsLeaveRoom
<1> QED
  BY <1>1, Invariant, PTL

-----------------------------------------------------------------------------
(* Motion implements SlitPair *)

(* No command accepted by the idle server touches a jaw by itself. *)
LEMMA ReceiveLeavesJaws ==
  MInv /\ Receive => \A x \in Slits : pos'[x] = pos[x] /\ target'[x] = target[x]
<1> SUFFICES ASSUME MInv, NEW c \in Commands, NEW x \in Slits,
                    \/ MoveAbs(c) \/ MoveRel(c) \/ Cal(c) \/ RangeMeasure(c)
                    \/ SendController(c) \/ SetRef(c) \/ SetSlitWidth(c) \/ SetCenter(c)
                    \/ SetPos(c) \/ SetUpper(c) \/ SetLower(c) \/ Depos(c)
             PROVE  pos'[x] = pos[x] /\ target'[x] = target[x]
  BY DEF Receive
<1>1. CASE SetPos(c)
  <2>1. x \in Motors /\ x \in Restricted /\ pc = "idle"
    BY <1>1, SlitAssumption DEF SetPos, Received, Slits
  <2>2. cached[x] = pos[x] /\ pos[x] = target[x]
    BY <2>1 DEF MInv, JawsKnown, StillBetweenSteps
  <2>3. CASE c.m \in Restricted
    BY <1>1, <2>3 DEF SetPos, Refuse, axes
  <2>4. CASE c.m \notin Restricted
    BY <1>1, <2>1, <2>2, <2>4 DEF SetPos
  <2> QED
    BY <2>3, <2>4
<1>2. CASE UNCHANGED axes
  BY <1>2 DEF axes
<1>3. CASE ~SetPos(c)
  <2>1. CASE \/ MoveAbs(c) \/ MoveRel(c) \/ Cal(c) \/ RangeMeasure(c)
             \/ SendController(c) \/ SetRef(c)
    BY <1>2, <2>1 DEF MoveAbs, MoveRel, Cal, RangeMeasure, SendController, SetRef,
      Start, Refuse
  <2>2. CASE SetSlitWidth(c) \/ SetCenter(c)
    BY <1>2, <2>2 DEF SetSlitWidth, SetCenter, Start, Refuse
  <2>3. CASE SetUpper(c) \/ SetLower(c) \/ Depos(c)
    BY <1>2, <2>3 DEF SetUpper, SetLower, Depos, Refuse
  <2> QED
    BY <1>3, <2>1, <2>2, <2>3
<1> QED
  BY <1>1, <1>3

(* Initially the two jaws are in an initial state of SlitPair. *)
LEMMA JawsInit == Init => Jaws!Init
<1> SUFFICES ASSUME Init PROVE Jaws!Init
  OBVIOUS
<1>1. MInv /\ target = pos
  BY InitMInv DEF Init
<1> QED
  BY <1>1 DEF MInv, SlitsNeverCollide, Jaws!Init, Jaws!Free

(* Every step of the servers and the controllers is a step of SlitPair or *)
(* leaves the jaws alone.                                                 *)
LEMMA JawsNext == MInv /\ [Next]_vars => [Jaws!Next]_(Jaws!vars)
<1> SUFFICES ASSUME MInv, [Next]_vars PROVE [Jaws!Next]_(Jaws!vars)
  OBVIOUS
<1> USE SlitAssumption
<1>0. X1 \in Slits /\ X2 \in Slits /\ MInv'
  BY NextMInv DEF Slits
<1>1. ASSUME \A x \in Slits : pos'[x] = pos[x] /\ target'[x] = target[x]
      PROVE  UNCHANGED Jaws!vars
  BY <1>0, <1>1 DEF Jaws!vars
<1>2. CASE UNCHANGED axes
  BY <1>1, <1>2 DEF axes
<1>3. CASE Receive
  BY <1>1, <1>3, ReceiveLeavesJaws
<1>4. CASE Send
  <2>1. pos' = pos /\ pc = "exec"
    BY <1>4 DEF Send
  <2>2. pos[X1] = target[X1] /\ pos[X2] = target[X2]
    BY <2>1 DEF MInv, StillBetweenSteps
  <2>3. /\ target'[X1] \in 0..Individual /\ target'[X2] \in 0..Individual
        /\ pos[X1] + target'[X2] <= Sum /\ target'[X1] + pos[X2] <= Sum
    BY <1>0, <2>1 DEF MInv, GoalsSafe
  <2>4. target'[X2] + pos[X1] <= Sum
    BY <2>3 DEF MInv, SlitsNeverCollide
  <2>5. CASE target'[X1] = pos[X1]
    <3>1. Jaws!Send2
      BY <2>1, <2>2, <2>3, <2>4, <2>5 DEF Jaws!Send2, Jaws!Free, Jaws!AtRest
    <3> QED
      BY <3>1 DEF Jaws!Next
  <2>6. CASE target'[X2] = pos[X2]
    <3>1. Jaws!Send1
      BY <2>1, <2>2, <2>3, <2>6 DEF Jaws!Send1, Jaws!Free, Jaws!AtRest
    <3> QED
      BY <3>1 DEF Jaws!Next
  <2> QED
    BY <1>0, <2>1, <2>5, <2>6 DEF MInv, OneJawInFlight
<1>5. CASE SendStop
  <2>1. pos' = pos /\ \A x \in Slits : target'[x] = pos[x] \/ target'[x] = target[x]
    BY <1>5 DEF SendStop, Slits
  <2>2. CASE target'[X1] = pos[X1] /\ target'[X2] = pos[X2]
    <3>1. Jaws!HaltBoth
      BY <2>1, <2>2 DEF Jaws!HaltBoth
    <3> QED
      BY <3>1 DEF Jaws!Next
  <2>3. CASE target'[X1] = pos[X1] /\ target'[X2] = target[X2]
    <3>1. Jaws!Halt1
      BY <2>1, <2>3 DEF Jaws!Halt1
    <3> QED
      BY <3>1 DEF Jaws!Next
  <2>4. CASE target'[X1] = target[X1] /\ target'[X2] = pos[X2]
    <3>1. Jaws!Halt2
      BY <2>1, <2>4 DEF Jaws!Halt2
    <3> QED
      BY <3>1 DEF Jaws!Next
  <2>5. CASE target'[X1] = target[X1] /\ target'[X2] = target[X2]
    BY <2>1, <2>5 DEF Jaws!vars
  <2> QED
    BY <1>0, <2>1, <2>2, <2>3, <2>4, <2>5
<1>6. ASSUME NEW n \in Motors, Drive(n)
      PROVE  [Jaws!Next]_(Jaws!vars)
  <2>1. /\ target' = target /\ pos[n] # target[n]
        /\ pos'[n] = IF pos[n] < target[n] THEN pos[n] + 1 ELSE pos[n] - 1
        /\ \A m \in Motors : m # n => pos'[m] = pos[m]
    BY <1>6 DEF Drive, MInv, TypeOK
  <2>2. CASE n = X1
    <3>1. Jaws!Step1
      BY <2>1, <2>2 DEF Jaws!Step1, Jaws!Toward
    <3> QED
      BY <3>1 DEF Jaws!Next
  <2>3. CASE n = X2
    <3>1. Jaws!Step2
      BY <2>1, <2>3 DEF Jaws!Step2, Jaws!Toward
    <3> QED
      BY <3>1 DEF Jaws!Next
  <2>4. CASE n \notin Slits
    BY <1>1, <2>1, <2>4 DEF Slits
  <2> QED
    BY <2>2, <2>3, <2>4 DEF Slits
<1>7. CASE Skip \/ Throw \/ Settle \/ Finish \/ Crash \/ Restart
  BY <1>2, <1>7 DEF Skip, Throw, Settle, Finish, Crash, Restart
<1>8. CASE StopAll \/ (\E m \in Motors : Stop(m)) \/ Stopped
  BY <1>2, <1>8 DEF StopAll, Stop, Stopped
<1>9. CASE UNCHANGED vars
  BY <1>2, <1>9 DEF vars
<1> QED
  BY <1>3, <1>4, <1>5, <1>6, <1>7, <1>8, <1>9 DEF Next, Work, StopWork

(* Whatever clients, stops and restarts do, the jaws move as SlitPair       *)
(* allows: one at a time, and only to places the other leaves free.         *)
THEOREM Refinement == Spec => JawsImplemented
BY JawsInit, JawsNext, Invariant, PTL DEF Spec, JawsImplemented, Jaws!Spec

-----------------------------------------------------------------------------
(* Which axes may move while a command waits *)

(* The motors that clients drive with raw controller text, which the server *)
(* does not look at: its copy of their positions is not refreshed.          *)
RawMotors == {c.m : c \in {d \in Commands : d.op = "sendcontroller"}}

RawNamed(steps) ==
  \A i \in 1..Len(steps) : steps[i].kind = "raw" => steps[i].m \in RawMotors

(* The server knows where all other motors are, but for the one it waits for. *)
OthersKnown ==
  \A m \in Motors \ RawMotors :
    /\ pc \in {"idle", "exec"} => cached[m] = pos[m]
    /\ pc = "wait" /\ m # Head(todo).m => cached[m] = pos[m] /\ pos[m] = target[m]

OInv == RawNamed(todo) /\ OthersKnown

(* Before the first start there is nothing that the server should know. *)
LEMMA InitOInv == Init => OInv
BY NoSteps DEF Init, OInv, RawNamed, OthersKnown

(* A plain motor command is raw text only if it is sendcontroller. *)
LEMMA OneNamed ==
  ASSUME TypeOK, NEW c \in Commands, NEW kind \in Kinds,
         kind = "raw" => c.op = "sendcontroller"
  PROVE  RawNamed(One(kind, c))
<1>1. c \in Command
  BY JobType
<1>2. Len(One(kind, c)) = 1 /\ One(kind, c)[1] = [kind |-> kind, m |-> c.m, to |-> c.v]
  BY <1>1, OneStep
<1>3. kind = "raw" => c.m \in RawMotors
  BY DEF RawMotors
<1>4. One(kind, c)[1].kind = kind /\ One(kind, c)[1].m = c.m
  BY <1>2
<1> QED
  BY <1>2, <1>3, <1>4 DEF RawNamed

(* Whatever steps a command starts with, no axis and no copy changes. *)
LEMMA StartKeepsKnown ==
  ASSUME OInv, pc = "idle", NEW c, NEW steps, Start(c, steps), RawNamed(steps)
  PROVE  OInv'
<1>1. /\ pc' = "exec" /\ todo' = steps /\ cached' = cached /\ pos' = pos
      /\ target' = target
  BY DEF Start, axes
<1>2. OthersKnown'
  BY <1>1 DEF OInv, OthersKnown
<1>3. RawNamed(todo)'
  BY <1>1 DEF RawNamed
<1> QED
  BY <1>2, <1>3 DEF OInv

(* A command that is answered at once leaves the server idle. *)
LEMMA AnswerKeepsKnown ==
  ASSUME OInv, pc = "idle", NEW c, NEW ok, Answer(c, ok),
         \A m \in Motors \ RawMotors : cached'[m] = pos'[m]
  PROVE  OInv'
<1>1. pc' = "idle" /\ todo' = todo
  BY DEF Answer
<1>2. OthersKnown'
  BY <1>1 DEF OthersKnown
<1>3. RawNamed(todo)'
  BY <1>1 DEF OInv, RawNamed
<1> QED
  BY <1>2, <1>3 DEF OInv

(* A refused command changes no axis and no copy. *)
LEMMA RefuseKeepsKnown ==
  ASSUME OInv, pc = "idle", NEW c, Refuse(c)
  PROVE  OInv'
<1>1. cached' = cached /\ pos' = pos /\ Answer(c, FALSE)
  BY DEF Refuse, axes
<1>2. \A m \in Motors \ RawMotors : cached'[m] = pos'[m]
  BY <1>1 DEF OInv, OthersKnown
<1> QED
  BY <1>1, <1>2, AnswerKeepsKnown

(* The commands that become steps. *)
LEMMA StartsKeepKnown ==
  ASSUME MInv, OInv, NEW c \in Commands,
         \/ MoveAbs(c) \/ MoveRel(c) \/ Cal(c) \/ RangeMeasure(c)
         \/ SendController(c) \/ SetRef(c) \/ SetSlitWidth(c) \/ SetCenter(c)
  PROVE  OInv'
<1>0. TypeOK
  BY DEF MInv
<1>1. ASSUME NEW kind \in Kinds, pc = "idle", Start(c, One(kind, c)),
             kind = "raw" => c.op = "sendcontroller"
      PROVE  OInv'
  BY <1>0, <1>1, OneNamed, StartKeepsKnown
<1>2. CASE MoveAbs(c)
  BY <1>1, <1>2 DEF MoveAbs, Received, Kinds
<1>3. CASE MoveRel(c)
  BY <1>1, <1>3 DEF MoveRel, Received, Kinds
<1>4. CASE Cal(c)
  BY <1>1, <1>4 DEF Cal, Received, Kinds
<1>5. CASE RangeMeasure(c)
  <2>1. CASE c.m \in Restricted
    BY <1>5, <2>1, RefuseKeepsKnown DEF RangeMeasure, Received
  <2>2. CASE c.m \notin Restricted
    BY <1>1, <1>5, <2>2 DEF RangeMeasure, Received, Kinds
  <2> QED
    BY <2>1, <2>2
<1>6. CASE SendController(c)
  BY <1>1, <1>6 DEF SendController, Received, Kinds
<1>7. CASE SetRef(c)
  <2> DEFINE steps == [i \in 1..Len(RefMotors) |->
               [kind |-> "ref", m |-> RefMotors[i], to |-> RefPoints[c.v][i]]]
  <2>1. pc = "idle" /\ Start(c, steps)
    BY <1>7 DEF SetRef, Received
  <2>2. Len(RefMotors) \in Nat
    BY LenProperties, MotorsAssumption
  <2>3. Len(steps) = Len(RefMotors)
    BY <2>2
  <2>4. \A i \in 1..Len(steps) : steps[i].kind = "ref"
    BY <2>3
  <2>5. RawNamed(steps)
    BY <2>4 DEF RawNamed
  <2> QED
    BY <2>1, <2>5, StartKeepsKnown
<1>8. ASSUME pc = "idle", NEW s, NEW t, s.kind = "abs", t.kind = "abs",
             Start(c, <<s, t>>)
      PROVE  OInv'
  <2>1. RawNamed(<<s, t>>)
    BY <1>8 DEF RawNamed
  <2> QED
    BY <1>8, <2>1, StartKeepsKnown
<1>9. RawNamed(<< >>)
  BY NoSteps DEF RawNamed
<1>10. CASE SetSlitWidth(c)
  <2> DEFINE change == getSlitWidth(cached) - c.v
             s == [kind |-> "abs", m |-> X1, to |-> cached[X1] + change \div 2]
             t == [kind |-> "abs", m |-> X2, to |-> cached[X2] + change \div 2]
  <2>1. pc = "idle" /\ (Start(c, << >>) \/ Refuse(c) \/ Start(c, <<s, t>>))
    BY <1>10 DEF SetSlitWidth, Received
  <2>2. s.kind = "abs" /\ t.kind = "abs"
    OBVIOUS
  <2> HIDE DEF s, t
  <2> QED
    BY <1>8, <1>9, <2>1, <2>2, StartKeepsKnown, RefuseKeepsKnown
<1>11. CASE SetCenter(c)
  <2> DEFINE change == c.v - getCenter2(cached)
             s == [kind |-> "abs", m |-> X1, to |-> cached[X1] + change \div 2]
             t == [kind |-> "abs", m |-> X2, to |-> cached[X2] - change \div 2]
  <2>1. pc = "idle" /\ (\/ Start(c, << >>) \/ Refuse(c)
                        \/ Start(c, <<s, t>>) \/ Start(c, <<t, s>>))
    BY <1>11 DEF SetCenter, Received
  <2>2. s.kind = "abs" /\ t.kind = "abs"
    OBVIOUS
  <2> HIDE DEF s, t
  <2> QED
    BY <1>8, <1>9, <2>1, <2>2, StartKeepsKnown, RefuseKeepsKnown
<1> QED
  BY <1>2, <1>3, <1>4, <1>5, <1>6, <1>7, <1>10, <1>11

(* The commands that are answered at once: setpos renumbers axes and copies *)
(* alike, depos reads, setupper and setlower touch neither.                 *)
LEMMA AnswersKeepKnown ==
  ASSUME MInv, OInv, NEW c \in Commands,
         SetPos(c) \/ SetUpper(c) \/ SetLower(c) \/ Depos(c)
  PROVE  OInv'
<1>0. pc = "idle" /\ c.m \in Motors /\ \A m \in Motors \ RawMotors : cached[m] = pos[m]
  BY JobType DEF OInv, OthersKnown, SetPos, SetUpper, SetLower, Depos, Received, MInv
<1>1. CASE SetPos(c)
  <2>1. CASE c.m \in Restricted
    BY <1>0, <1>1, <2>1, RefuseKeepsKnown DEF SetPos
  <2>2. CASE c.m \notin Restricted
    <3> DEFINE k == Controller[c.m]
               renumbered == [m \in Motors |-> IF m = c.m THEN c.v
                                ELSE IF Controller[m] = k THEN cached[m] ELSE pos[m]]
    <3>1. /\ pos' = renumbered /\ Answer(c, TRUE)
          /\ cached' = debugPositions(k, renumbered)
      BY <1>1, <2>2 DEF SetPos
    <3>2. \A m \in Motors \ RawMotors : cached'[m] = pos'[m]
      BY <1>0, <3>1 DEF debugPositions
    <3> QED
      BY <1>0, <3>1, <3>2, AnswerKeepsKnown
  <2> QED
    BY <2>1, <2>2
<1>2. CASE SetUpper(c) \/ SetLower(c)
  <2>1. Refuse(c) \/ (Answer(c, TRUE) /\ cached' = cached /\ pos' = pos)
    BY <1>2 DEF SetUpper, SetLower, axes
  <2>2. CASE Answer(c, TRUE) /\ cached' = cached /\ pos' = pos
    BY <1>0, <2>2, AnswerKeepsKnown
  <2> QED
    BY <1>0, <2>1, <2>2, RefuseKeepsKnown
<1>3. CASE Depos(c)
  <2> DEFINE read == debugPositions(Controller[c.m], pos)
  <2>1. cached' = read /\ pos' = pos /\ Answer(c, updateAccepted(read))
    BY <1>3 DEF Depos, axes
  <2>2. \A m \in Motors \ RawMotors : cached'[m] = pos'[m]
    BY <1>0, <2>1 DEF debugPositions
  <2> QED
    BY <1>0, <2>1, <2>2, AnswerKeepsKnown
<1> QED
  BY <1>1, <1>2, <1>3

(* Whatever command is received, the server still knows the axes. *)
LEMMA ReceiveKeepsKnown == MInv /\ OInv /\ Receive => OInv'
BY StartsKeepKnown, AnswersKeepKnown DEF Receive

-----------------------------------------------------------------------------
(* Either way a step ends, the steps left are some of those there were. *)
LEMMA StepEnds ==
  ASSUME TypeOK, todo # << >>, NEW m, NEW at, StepDone(m, at) \/ Fail
  PROVE  /\ pc' \in {"idle", "exec"} /\ job' = job
         /\ \/ pc' = "exec" /\ todo' = Tail(todo) /\ reply' = reply
            \/ pc' = "idle" /\ todo' = << >> /\ reply' = "error"
BY DEF StepDone, Fail

(* The steps that are left name raw text for the same motors. *)
LEMMA RawTail ==
  ASSUME TypeOK, todo # << >>, RawNamed(todo), todo' = Tail(todo) \/ todo' = << >>
  PROVE  RawNamed(todo)'
<1>1. CASE todo' = << >>
  BY <1>1, NoSteps DEF RawNamed
<1>2. CASE todo' = Tail(todo)
  <2>1. /\ Len(todo) \in Nat /\ Len(Tail(todo)) = Len(todo) - 1
        /\ \A i \in 1..Len(Tail(todo)) : Tail(todo)[i] = todo[i + 1]
    BY TodoParts DEF TypeOK
  <2>2. \A i \in 1..Len(Tail(todo)) : i + 1 \in 1..Len(todo)
    BY <2>1
  <2> QED
    BY <1>2, <2>1, <2>2 DEF RawNamed
<1> QED
  BY <1>1, <1>2

(* After a skipped, a refused and a finished step, and after the server's   *)
(* death, the copies are what they were.                                    *)
LEMMA QuietKeepsKnown ==
  MInv /\ OInv /\ (Skip \/ Throw \/ Finish \/ Crash) => OInv'
<1> SUFFICES ASSUME MInv, OInv, Skip \/ Throw \/ Finish \/ Crash PROVE OInv'
  OBVIOUS
<1>0. TypeOK
  BY DEF MInv
<1>1. pos' = pos /\ cached' = cached
  BY DEF Skip, Throw, Finish, Crash, axes
<1>2. /\ pc' = "down" \/ (pc = "exec" /\ pc' \in {"idle", "exec"})
      /\ todo' = << >> \/ (todo # << >> /\ todo' = Tail(todo))
  BY <1>0, StepEnds DEF Skip, Throw, Finish, Crash
<1>3. OthersKnown'
  BY <1>1, <1>2 DEF OInv, OthersKnown
<1>4. RawNamed(todo)'
  <2>1. CASE todo' = << >>
    BY <2>1, NoSteps DEF RawNamed
  <2>2. CASE todo # << >> /\ todo' = Tail(todo)
    BY <1>0, <2>2, RawTail DEF OInv
  <2> QED
    BY <1>2, <2>1, <2>2
<1> QED
  BY <1>3, <1>4 DEF OInv

(* A step is sent off: an absolute move names the other axes of the        *)
(* controller at the server's copy, which is where they are.               *)
LEMMA SendKeepsKnown == MInv /\ OInv /\ Send => OInv'
<1> SUFFICES ASSUME MInv, OInv, Send PROVE OInv'
  OBVIOUS
<1>1. /\ pc = "exec" /\ pc' = "wait" /\ todo' = todo /\ pos' = pos /\ cached' = cached
      /\ target' = [n \in Motors |-> Driven(Head(todo), n)]
  BY DEF Send
<1>2. \A m \in Motors \ RawMotors : cached[m] = pos[m] /\ pos[m] = target[m]
  BY <1>1 DEF MInv, StillBetweenSteps, OInv, OthersKnown
<1>3. \A m \in Motors \ RawMotors : m # Head(todo).m => target'[m] = pos[m]
  BY <1>1, <1>2 DEF Driven
<1>4. OthersKnown'
  BY <1>1, <1>2, <1>3 DEF OthersKnown
<1>5. RawNamed(todo)'
  BY <1>1 DEF OInv, RawNamed
<1> QED
  BY <1>4, <1>5 DEF OInv

(* The motor of a step is read back when the step is done, unless it was    *)
(* raw text that drove it.                                                  *)
LEMMA SettleKeepsKnown == MInv /\ OInv /\ Settle => OInv'
<1> SUFFICES ASSUME MInv, OInv, Settle PROVE OInv'
  OBVIOUS
<1> DEFINE s == Head(todo)
           read == IF s.kind = "raw" THEN cached ELSE debugPositions(Controller[s.m], pos)
<1>0. TypeOK
  BY DEF MInv
<1>1. /\ pc = "wait" /\ cached' = read /\ pos' = pos
      /\ Fail \/ StepDone(s.m, read)
  BY DEF Settle, axes
<1>2. todo # << >>
  BY <1>0, <1>1 DEF TypeOK
<1>3. s.kind = "raw" => s.m \in RawMotors
  <2>1. s = todo[1] /\ Len(todo) \in Nat /\ Len(todo) >= 1
    BY <1>0, <1>2, TodoParts DEF TypeOK
  <2>2. 1 \in 1..Len(todo) /\ RawNamed(todo)
    BY <2>1 DEF OInv
  <2> HIDE DEF s
  <2> QED
    BY <2>1, <2>2 DEF RawNamed
<1>4. \A m \in Motors \ RawMotors : m # s.m => cached[m] = pos[m]
  BY <1>1 DEF OInv, OthersKnown
<1> HIDE DEF s
<1>5. \A m \in Motors \ RawMotors : cached'[m] = pos'[m]
  BY <1>1, <1>3, <1>4 DEF debugPositions
<1>6. pc' \in {"idle", "exec"} /\ (todo' = Tail(todo) \/ todo' = << >>)
  BY <1>0, <1>1, <1>2, StepEnds
<1>7. OthersKnown'
  BY <1>5, <1>6 DEF OthersKnown
<1>8. RawNamed(todo)'
  BY <1>0, <1>2, <1>6, RawTail DEF OInv
<1> QED
  BY <1>7, <1>8 DEF OInv

(* A new server reads every position. *)
LEMMA RestartKeepsKnown == MInv /\ OInv /\ Restart => OInv'
<1> SUFFICES ASSUME OInv, Restart PROVE OInv'
  OBVIOUS
<1>1. pc' = "idle" /\ cached' = pos /\ pos' = pos /\ todo' = todo
  BY DEF Restart, axes
<1>2. OthersKnown'
  BY <1>1 DEF OthersKnown
<1>3. RawNamed(todo)'
  BY <1>1 DEF OInv, RawNamed
<1> QED
  BY <1>2, <1>3 DEF OInv

(* The stop server halts axes where they are, and an axis that moves is the *)
(* one that is waited for.                                                  *)
LEMMA HaltKeepsKnown ==
  MInv /\ OInv /\ (StopAll \/ (\E m \in Motors : Stop(m)) \/ StopWork \/ UNCHANGED vars)
    => OInv'
<1> SUFFICES ASSUME OInv, UNCHANGED <<pc, todo, pos, cached>>,
                    \A m \in Motors : target'[m] = target[m] \/ target'[m] = pos[m]
             PROVE  OInv'
  BY DEF StopAll, Stop, StopWork, SendStop, Stopped, vars, axes, server
<1>1. OthersKnown'
  BY DEF OInv, OthersKnown
<1>2. RawNamed(todo)'
  BY DEF OInv, RawNamed
<1> QED
  BY <1>1, <1>2 DEF OInv

(* An axis that moves is the one that is waited for, or one driven with raw *)
(* text.                                                                    *)
LEMMA DriveKeepsKnown ==
  ASSUME NEW n \in Motors
  PROVE  MInv /\ OInv /\ Drive(n) => OInv'
<1> SUFFICES ASSUME MInv, OInv, Drive(n) PROVE OInv'
  OBVIOUS
<1>1. pos[n] # target[n] /\ UNCHANGED <<target, cached, pc, todo>>
  BY DEF Drive, server
<1>2. \A m \in Motors : m # n => pos'[m] = pos[m]
  BY DEF Drive, MInv, TypeOK
<1>3. pc \notin {"idle", "exec"}
  BY <1>1 DEF MInv, StillBetweenSteps
<1>4. OthersKnown'
  BY <1>1, <1>2, <1>3 DEF OInv, OthersKnown
<1>5. RawNamed(todo)'
  BY <1>1 DEF OInv, RawNamed
<1> QED
  BY <1>4, <1>5 DEF OInv

(* Every step keeps what the server knows. *)
LEMMA NextOInv == MInv /\ OInv /\ [Next]_vars => OInv'
BY ReceiveKeepsKnown, QuietKeepsKnown, SendKeepsKnown, SettleKeepsKnown,
   RestartKeepsKnown, HaltKeepsKnown, DriveKeepsKnown DEF Next, Work

(* While a step waits, an axis that it does not name is at rest, unless     *)
(* clients drive that axis with raw text.                                   *)
THEOREM OthersAtRest ==
  Spec => [](pc = "wait" =>
               \A m \in Motors : pos[m] # target[m] => m = Head(todo).m \/ m \in RawMotors)
<1>1. OInv => (pc = "wait" =>
        \A m \in Motors : pos[m] # target[m] => m = Head(todo).m \/ m \in RawMotors)
  BY DEF OInv, OthersKnown
<1>2. Spec => []OInv
  BY Invariant, InitOInv, NextOInv, PTL DEF Spec
<1> QED
  BY <1>1, <1>2, PTL

(* Where no client uses raw text, nothing but the motor of the step in      *)
(* progress moves (Controller.cpp:162-168).  After raw text the server's    *)
(* copy of that axis is old, and the next absolute move of another motor of *)
(* its controller sends it back there.                                      *)
THEOREM OnlyNamed == RawMotors = {} => (Spec => []OnlyNamedMotorMoves)
<1> SUFFICES ASSUME RawMotors = {} PROVE Spec => []OnlyNamedMotorMoves
  OBVIOUS
<1>1. (pc = "wait" =>
        \A m \in Motors : pos[m] # target[m] => m = Head(todo).m \/ m \in RawMotors)
      => OnlyNamedMotorMoves
  BY DEF OnlyNamedMotorMoves
<1> QED
  BY <1>1, OthersAtRest, PTL

-----------------------------------------------------------------------------
(* What an "ok" to setslitwidth or setcenter means *)

Slitting == job.cmd.op \in {"setslitwidth", "setcenter"}

(* Twice the way that the command in progress has each jaw go. *)
Change1 ==
  IF job.cmd.op = "setslitwidth" THEN Sum - job.x2 - job.x1 - job.cmd.v
  ELSE job.cmd.v - (Sum - job.x2 + job.x1)

Change2 == IF job.cmd.op = "setslitwidth" THEN Change1 ELSE - Change1

(* Is p between x and the place half of change further? *)
OnWay(p, x, change) ==
  \/ 0 <= 2 * (p - x) /\ 2 * (p - x) <= change
  \/ change <= 2 * (p - x) /\ 2 * (p - x) <= 0

(* The jaws are, and are driven to, somewhere on that way.                  *)
JawsOnWay ==
  /\ OnWay(pos[X1], job.x1, Change1) /\ OnWay(target[X1], job.x1, Change1)
  /\ OnWay(pos[X2], job.x2, Change2) /\ OnWay(target[X2], job.x2, Change2)

(* A controller command for one of the jaws, to the end of its way. *)
ToItsEnd(s) ==
  /\ s.kind = "abs"
  /\ \/ s.m = X1 /\ 2 * (s.to - job.x1) = Change1
     \/ s.m = X2 /\ 2 * (s.to - job.x2) = Change2

StepsOnWay == \A i \in 1..Len(todo) : ToItsEnd(todo[i])

NotYet == pc \in {"exec", "wait"} => reply = "none"

Slit == pc \in {"exec", "wait"} /\ Slitting => JawsOnWay /\ StepsOnWay

AtItsEnd(p, x, change) == 2 * (p - x) = change

(* An "ok" holds until the next command, across a restart as well.          *)
OkStands ==
  pc \in {"idle", "down"} /\ reply = "ok" /\ Slitting =>
    /\ pos[X1] = target[X1] /\ pos[X2] = target[X2]
    /\ AtItsEnd(pos[X1], job.x1, Change1) /\ AtItsEnd(pos[X2], job.x2, Change2)

AInv == NotYet /\ Slit /\ OkStands

(* What the way is computed from are integers. *)
LEMMA WayTypes ==
  ASSUME TypeOK
  PROVE  /\ job.x1 \in Int /\ job.x2 \in Int /\ job.cmd.v \in Int
         /\ Change1 \in Int /\ Change2 \in Int
         /\ pos[X1] \in Int /\ pos[X2] \in Int
         /\ target[X1] \in Int /\ target[X2] \in Int
<1>1. job.x1 \in Int /\ job.x2 \in Int /\ job.cmd \in Command
  BY DEF TypeOK
<1>2. job.cmd.v \in Int
  BY <1>1 DEF Command
<1>3. Sum \in Int
  BY SlitAssumption
<1>4. Change1 \in Int /\ Change2 \in Int
  BY <1>1, <1>2, <1>3 DEF Change1, Change2
<1> QED
  BY <1>1, <1>2, <1>4, SlitAssumption DEF TypeOK

(* A jaw is on its way at the start of it, *)
LEMMA WayStarts ==
  ASSUME NEW x \in Int, NEW change \in Int
  PROVE  OnWay(x, x, change)
BY DEF OnWay

(* at the end of it, *)
LEMMA WayEnds ==
  ASSUME NEW p \in Int, NEW x \in Int, NEW change \in Int, 2 * (p - x) = change
  PROVE  OnWay(p, x, change)
BY DEF OnWay

(* and a unit towards any place on it. *)
LEMMA WayGoesOn ==
  ASSUME NEW p \in Int, NEW t \in Int, NEW x \in Int, NEW change \in Int,
         OnWay(p, x, change), OnWay(t, x, change), p # t
  PROVE  OnWay(IF p < t THEN p + 1 ELSE p - 1, x, change)
<1>1. CASE p < t
  BY <1>1 DEF OnWay
<1>2. CASE ~(p < t)
  BY <1>2 DEF OnWay
<1> QED
  BY <1>1, <1>2

(* Before the first start there is no answer. *)
LEMMA InitAInv == Init => AInv
BY DEF Init, AInv, NotYet, Slit, OkStands

(* What the parts of the invariant depend on. *)
LEMMA SameWay ==
  ASSUME UNCHANGED <<job, pos, target>>
  PROVE  /\ Slitting' <=> Slitting
         /\ JawsOnWay' <=> JawsOnWay
         /\ Change1' = Change1 /\ Change2' = Change2
BY DEF Slitting, JawsOnWay, OnWay, Change1, Change2

(* An answer at once to one of the slit commands is an error. *)
LEMMA AnswerKeepsWay ==
  ASSUME MInv, AInv, pc = "idle", NEW c, NEW ok, Answer(c, ok),
         ok => c.op \notin {"setslitwidth", "setcenter"}
  PROVE  AInv'
<1>1. /\ pc' = "idle" /\ job'.cmd = c
      /\ reply' = IF ok THEN "ok" ELSE "error"
  BY DEF Answer, Job
<1>2. NotYet' /\ Slit'
  BY <1>1 DEF NotYet, Slit
<1>3. OkStands'
  BY <1>1 DEF OkStands, Slitting
<1> QED
  BY <1>2, <1>3 DEF AInv

(* Any other command that becomes steps says nothing of the slit. *)
LEMMA OtherStarts ==
  ASSUME NEW c, NEW steps, Start(c, steps), c.op \notin {"setslitwidth", "setcenter"}
  PROVE  AInv'
<1>1. pc' = "exec" /\ reply' = "none" /\ job'.cmd = c
  BY DEF Start, Job
<1>2. NotYet' /\ OkStands'
  BY <1>1 DEF NotYet, OkStands
<1>3. Slit'
  BY <1>1 DEF Slit, Slitting
<1> QED
  BY <1>2, <1>3 DEF AInv

(* setslitwidth and setcenter start with the jaws at the start of their way *)
(* and steps to the end of it.                                              *)
LEMMA SlitStarts ==
  ASSUME MInv, pc = "idle", NEW c \in Commands, NEW steps, Start(c, steps),
         StepsOnWay'
  PROVE  AInv'
<1>1. /\ pc' = "exec" /\ reply' = "none" /\ UNCHANGED <<pos, target>>
      /\ job' = [cmd |-> c, x1 |-> cached[X1], x2 |-> cached[X2]]
  BY DEF Start, Job, axes
<1>2. /\ cached[X1] = pos[X1] /\ cached[X2] = pos[X2]
      /\ target[X1] = pos[X1] /\ target[X2] = pos[X2]
  BY SlitAssumption DEF MInv, JawsKnown, StillBetweenSteps, Slits
<1>3. job' \in [cmd : Command, x1 : Int, x2 : Int]
  BY <1>1, JobType DEF MInv, Job
<1>4. Change1' \in Int /\ Change2' \in Int /\ pos[X1] \in Int /\ pos[X2] \in Int
  <2>1. job'.x1 \in Int /\ job'.x2 \in Int /\ job'.cmd \in Command
    BY <1>3
  <2>2. job'.cmd.v \in Int /\ Sum \in Int
    BY <2>1, SlitAssumption DEF Command
  <2>3. Change1' \in Int
    BY <2>1, <2>2 DEF Change1
  <2>4. Change2' \in Int
    BY <2>3 DEF Change2
  <2>5. pos[X1] \in Int /\ pos[X2] \in Int
    BY WayTypes DEF MInv
  <2> QED
    BY <2>3, <2>4, <2>5
<1>5. job'.x1 = pos[X1] /\ job'.x2 = pos[X2]
  BY <1>1, <1>2
<1>6. OnWay(pos[X1], pos[X1], Change1') /\ OnWay(pos[X2], pos[X2], Change2')
  BY <1>4, WayStarts
<1>7. JawsOnWay'
  <2>1. /\ pos'[X1] = pos[X1] /\ pos'[X2] = pos[X2]
        /\ target'[X1] = pos[X1] /\ target'[X2] = pos[X2]
    BY <1>1, <1>2
  <2> HIDE DEF OnWay
  <2>2. /\ OnWay(pos'[X1], job'.x1, Change1') /\ OnWay(target'[X1], job'.x1, Change1')
        /\ OnWay(pos'[X2], job'.x2, Change2') /\ OnWay(target'[X2], job'.x2, Change2')
    BY <1>5, <1>6, <2>1
  <2> QED
    BY <2>2 DEF JawsOnWay, OnWay
<1>8. NotYet' /\ OkStands' /\ Slit'
  BY <1>1, <1>7 DEF NotYet, OkStands, Slit
<1> QED
  BY <1>8 DEF AInv

(* An even number halved. *)
LEMMA Halved ==
  ASSUME NEW d \in Int, d % 2 = 0
  PROVE  d \div 2 \in Int /\ 2 * (d \div 2) = d
OBVIOUS

(* setslitwidth sends both jaws half of the change (Slit::setSlitWidth); an *)
(* odd change is not modelled.                                              *)
LEMMA SetSlitWidthKeepsWay ==
  ASSUME MInv, AInv, NEW c \in Commands, SetSlitWidth(c)
  PROVE  AInv'
<1> DEFINE change == getSlitWidth(cached) - c.v
           half == change \div 2
           s == [kind |-> "abs", m |-> X1, to |-> cached[X1] + half]
           t == [kind |-> "abs", m |-> X2, to |-> cached[X2] + half]
<1>1. /\ pc = "idle" /\ c.op = "setslitwidth" /\ change % 2 = 0
      /\ Start(c, << >>) \/ Refuse(c) \/ Start(c, <<s, t>>)
  BY DEF SetSlitWidth, Received
<1>2. cached[X1] \in Int /\ cached[X2] \in Int /\ c.v \in Int /\ Sum \in Int
  BY JobType, SlitAssumption DEF MInv, TypeOK
<1>3. change \in Int
  BY <1>2 DEF getSlitWidth
<1>4. half \in Int /\ 2 * half = change
  BY <1>1, <1>3, Halved
<1>5. change = Sum - cached[X2] - cached[X1] - c.v
  BY DEF getSlitWidth
<1> HIDE DEF change, half
<1>6. CASE Refuse(c)
  BY <1>1, <1>6, AnswerKeepsWay DEF Refuse
<1>7. CASE Start(c, << >>)
  <2>1. todo' = << >>
    BY <1>7 DEF Start
  <2>2. StepsOnWay'
    BY <2>1, NoSteps DEF StepsOnWay
  <2> QED
    BY <1>1, <1>7, <2>2, SlitStarts
<1>8. CASE Start(c, <<s, t>>)
  <2>1. /\ todo' = <<s, t>>
        /\ job' = [cmd |-> c, x1 |-> cached[X1], x2 |-> cached[X2]]
    BY <1>8 DEF Start, Job
  <2>2. Change1' = change /\ Change2' = change
    BY <1>1, <1>5, <2>1 DEF Change1, Change2
  <2>3. 2 * ((cached[X1] + half) - cached[X1]) = change
    BY <1>2, <1>4
  <2>4. 2 * ((cached[X2] + half) - cached[X2]) = change
    BY <1>2, <1>4
  <2>5. s.kind = "abs" /\ s.m = X1 /\ 2 * (s.to - job'.x1) = Change1'
    BY <2>1, <2>2, <2>3
  <2>6. t.kind = "abs" /\ t.m = X2 /\ 2 * (t.to - job'.x2) = Change2'
    BY <2>1, <2>2, <2>4
  <2>7. Len(todo') = 2 /\ todo'[1] = s /\ todo'[2] = t
    BY <2>1
  <2> HIDE DEF s, t
  <2>8. StepsOnWay'
    BY <2>5, <2>6, <2>7 DEF StepsOnWay, ToItsEnd
  <2> QED
    BY <1>1, <1>8, <2>8, SlitStarts
<1> QED
  BY <1>1, <1>6, <1>7, <1>8

(* setcenter sends the jaws half of the change in opposite directions, in *)
(* either order (Slit::setCenter).                                        *)
LEMMA SetCenterKeepsWay ==
  ASSUME MInv, AInv, NEW c \in Commands, SetCenter(c)
  PROVE  AInv'
<1> DEFINE change == c.v - getCenter2(cached)
           half == change \div 2
           s == [kind |-> "abs", m |-> X1, to |-> cached[X1] + half]
           t == [kind |-> "abs", m |-> X2, to |-> cached[X2] - half]
<1>1. /\ pc = "idle" /\ c.op = "setcenter" /\ change % 2 = 0
      /\ \/ Start(c, << >>) \/ Refuse(c)
         \/ Start(c, <<s, t>>) \/ Start(c, <<t, s>>)
  BY DEF SetCenter, Received
<1>2. cached[X1] \in Int /\ cached[X2] \in Int /\ c.v \in Int /\ Sum \in Int
  BY JobType, SlitAssumption DEF MInv, TypeOK
<1>3. change \in Int
  BY <1>2 DEF getCenter2
<1>4. half \in Int /\ 2 * half = change
  BY <1>1, <1>3, Halved
<1>5. change = c.v - (Sum - cached[X2] + cached[X1])
  BY DEF getCenter2
<1> HIDE DEF change, half
<1>6. CASE Refuse(c)
  BY <1>1, <1>6, AnswerKeepsWay DEF Refuse
<1>7. CASE Start(c, << >>)
  <2>1. todo' = << >>
    BY <1>7 DEF Start
  <2>2. StepsOnWay'
    BY <2>1, NoSteps DEF StepsOnWay
  <2> QED
    BY <1>1, <1>7, <2>2, SlitStarts
<1>8. ASSUME NEW steps, steps = <<s, t>> \/ steps = <<t, s>>, Start(c, steps)
      PROVE  AInv'
  <2>1. /\ todo' = steps
        /\ job' = [cmd |-> c, x1 |-> cached[X1], x2 |-> cached[X2]]
    BY <1>8 DEF Start, Job
  <2>2. Change1' = change /\ Change2' = - change
    BY <1>1, <1>5, <2>1 DEF Change1, Change2
  <2>3. 2 * ((cached[X1] + half) - cached[X1]) = change
    BY <1>2, <1>4
  <2>4. 2 * ((cached[X2] - half) - cached[X2]) = - change
    BY <1>2, <1>4
  <2>5. s.kind = "abs" /\ s.m = X1 /\ 2 * (s.to - job'.x1) = Change1'
    BY <2>1, <2>2, <2>3
  <2>6. t.kind = "abs" /\ t.m = X2 /\ 2 * (t.to - job'.x2) = Change2'
    BY <2>1, <2>2, <2>4
  <2>7. /\ Len(todo') = 2
        /\ \/ todo'[1] = s /\ todo'[2] = t
           \/ todo'[1] = t /\ todo'[2] = s
    BY <1>8, <2>1
  <2> HIDE DEF s, t
  <2>8. StepsOnWay'
    BY <2>5, <2>6, <2>7 DEF StepsOnWay, ToItsEnd
  <2> QED
    BY <1>1, <1>8, <2>8, SlitStarts
<1> HIDE DEF s, t
<1> QED
  BY <1>1, <1>6, <1>7, <1>8

(* Whatever command is received, an answer given at once is no "ok" to a *)
(* slit command.                                                         *)
LEMMA ReceiveKeepsWay == MInv /\ AInv /\ Receive => AInv'
<1> SUFFICES ASSUME MInv, AInv, NEW c \in Commands,
                    \/ MoveAbs(c) \/ MoveRel(c) \/ Cal(c) \/ RangeMeasure(c)
                    \/ SendController(c) \/ SetRef(c) \/ SetSlitWidth(c) \/ SetCenter(c)
                    \/ SetPos(c) \/ SetUpper(c) \/ SetLower(c) \/ Depos(c)
             PROVE  AInv'
  BY DEF Receive
<1>1. CASE MoveAbs(c) \/ MoveRel(c) \/ Cal(c)
  BY <1>1, OtherStarts DEF MoveAbs, MoveRel, Cal, Received
<1>2. CASE RangeMeasure(c)
  BY <1>2, OtherStarts, AnswerKeepsWay DEF RangeMeasure, Received, Refuse
<1>3. CASE SendController(c) \/ SetRef(c)
  BY <1>3, OtherStarts DEF SendController, SetRef, Received
<1>4. CASE SetSlitWidth(c) \/ SetCenter(c)
  BY <1>4, SetSlitWidthKeepsWay, SetCenterKeepsWay
<1>5. CASE SetPos(c) \/ Depos(c)
  BY <1>5, AnswerKeepsWay DEF SetPos, Depos, Received, Refuse
<1>6. CASE SetUpper(c) \/ SetLower(c)
  BY <1>6, AnswerKeepsWay DEF SetUpper, SetLower, Received, Refuse
<1> QED
  BY <1>1, <1>2, <1>3, <1>4, <1>5, <1>6

-----------------------------------------------------------------------------
(* The jaws on their way *)

(* A step that ends leaves the jaws where they are. *)
LEMMA StepEndKeepsWay ==
  ASSUME MInv, AInv, pc \in {"exec", "wait"}, todo # << >>, UNCHANGED axes,
         NEW m, NEW at, StepDone(m, at) \/ Fail
  PROVE  AInv'
<1>0. TypeOK
  BY DEF MInv
<1>1. /\ job' = job /\ pos' = pos /\ target' = target
      /\ \/ pc' = "exec" /\ todo' = Tail(todo) /\ reply' = reply
         \/ pc' = "idle" /\ todo' = << >> /\ reply' = "error"
  BY <1>0, StepEnds DEF axes
<1>2. NotYet' /\ OkStands'
  BY <1>1 DEF AInv, NotYet, OkStands
<1>3. Slit'
  <2>1. SUFFICES ASSUME pc' = "exec", todo' = Tail(todo), Slitting
                 PROVE  JawsOnWay' /\ StepsOnWay'
    BY <1>1, SameWay DEF Slit
  <2>2. JawsOnWay /\ StepsOnWay
    BY <2>1 DEF AInv, Slit
  <2>3. /\ Len(todo) \in Nat /\ Len(Tail(todo)) = Len(todo) - 1
        /\ \A i \in 1..Len(Tail(todo)) : Tail(todo)[i] = todo[i + 1]
    BY <1>0, TodoParts DEF TypeOK
  <2>4. \A i \in 1..Len(Tail(todo)) : ToItsEnd(Tail(todo)[i])
    <3>1. \A i \in 1..Len(Tail(todo)) : i + 1 \in 1..Len(todo)
      BY <2>3
    <3> QED
      BY <2>2, <2>3, <3>1 DEF StepsOnWay
  <2>5. StepsOnWay'
    BY <1>1, <2>1, <2>4, SameWay DEF StepsOnWay, ToItsEnd
  <2> QED
    BY <1>1, <2>2, <2>5, SameWay
<1> QED
  BY <1>2, <1>3 DEF AInv

(* A step that is skipped, refused or done leaves the jaws on their way. *)
LEMMA SkipThrowSettleKeepWay == MInv /\ AInv /\ (Skip \/ Throw \/ Settle) => AInv'
<1> SUFFICES ASSUME MInv, AInv, Skip \/ Throw \/ Settle PROVE AInv'
  OBVIOUS
<1>1. CASE Skip
  BY <1>1, StepEndKeepsWay DEF Skip
<1>2. CASE Throw
  BY <1>2, StepEndKeepsWay DEF Throw
<1>3. CASE Settle
  <2>1. todo # << >>
    BY <1>3 DEF Settle, MInv, TypeOK
  <2> QED
    BY <1>3, <2>1, StepEndKeepsWay DEF Settle
<1> QED
  BY <1>1, <1>2, <1>3

(* A jaw is sent off to the end of its way, the other one stays. *)
LEMMA SendKeepsWay == MInv /\ AInv /\ Send => AInv'
<1> SUFFICES ASSUME MInv, AInv, Send PROVE AInv'
  OBVIOUS
<1> DEFINE s == Head(todo)
<1>0. TypeOK
  BY DEF MInv
<1>1. /\ pc = "exec" /\ pc' = "wait" /\ todo # << >>
      /\ UNCHANGED <<pos, todo, job, reply>>
      /\ target' = [n \in Motors |-> Driven(s, n)]
  BY DEF Send
<1>2. NotYet' /\ OkStands'
  BY <1>1 DEF AInv, NotYet, OkStands
<1>3. Slit'
  <2>1. SUFFICES ASSUME Slitting PROVE JawsOnWay' /\ StepsOnWay'
    BY <1>1 DEF Slit, Slitting
  <2>2. JawsOnWay /\ StepsOnWay
    BY <1>1, <2>1 DEF AInv, Slit
  <2>3. StepsOnWay'
    BY <1>1, <2>2 DEF StepsOnWay, ToItsEnd, Change1, Change2
  <2>4. ToItsEnd(s)
    <3>1. s = todo[1] /\ Len(todo) \in Nat /\ Len(todo) >= 1
      BY <1>0, <1>1, TodoParts DEF TypeOK
    <3> HIDE DEF s
    <3> QED
      BY <2>2, <3>1 DEF StepsOnWay
  <2>5. s.to \in Int /\ X1 \in Motors /\ X2 \in Motors /\ X1 # X2
    BY <1>0, <1>1, HeadType, SlitAssumption
  <2>6. /\ cached[X1] = pos[X1] /\ cached[X2] = pos[X2]
        /\ target[X1] = pos[X1] /\ target[X2] = pos[X2]
    BY <1>1, SlitAssumption DEF MInv, JawsKnown, StillBetweenSteps, Slits
  <2> HIDE DEF s
  <2>7. /\ target'[X1] = Driven(s, X1) /\ target'[X2] = Driven(s, X2)
        /\ pos' = pos /\ job' = job /\ Change1' = Change1 /\ Change2' = Change2
    BY <1>1, <2>5 DEF Change1, Change2
  <2>8. /\ s.m = X1 => Driven(s, X1) = s.to /\ Driven(s, X2) = pos[X2]
        /\ s.m = X2 => Driven(s, X2) = s.to /\ Driven(s, X1) = pos[X1]
    BY <2>4, <2>5, <2>6 DEF Driven, ToItsEnd
  <2>9. /\ OnWay(pos[X1], job.x1, Change1) /\ OnWay(pos[X2], job.x2, Change2)
    BY <2>2 DEF JawsOnWay
  <2>10. /\ s.m = X1 => OnWay(s.to, job.x1, Change1)
         /\ s.m = X2 => OnWay(s.to, job.x2, Change2)
    BY <1>0, <2>4, <2>5, WayTypes, WayEnds DEF ToItsEnd
  <2>11. s.m = X1 \/ s.m = X2
    BY <2>4 DEF ToItsEnd
  <2>12. /\ OnWay(target'[X1], job.x1, Change1) /\ OnWay(target'[X2], job.x2, Change2)
    BY <2>7, <2>8, <2>9, <2>10, <2>11
  <2>13. JawsOnWay'
    BY <2>7, <2>9, <2>12 DEF JawsOnWay, OnWay
  <2> QED
    BY <2>3, <2>13
<1> QED
  BY <1>2, <1>3 DEF AInv

(* Two jaws on their ways that make up the change asked for are at the ends. *)
LEMMA BothAtTheEnd ==
  ASSUME NEW a \in Int, NEW b \in Int, NEW x \in Int, NEW y \in Int,
         NEW change \in Int, OnWay(a, x, change)
  PROVE  /\ OnWay(b, y, change) /\ (a - x) + (b - y) = change
              => AtItsEnd(a, x, change) /\ AtItsEnd(b, y, change)
         /\ OnWay(b, y, - change) /\ (a - x) - (b - y) = change
              => AtItsEnd(a, x, change) /\ AtItsEnd(b, y, - change)
BY DEF OnWay, AtItsEnd

(* Jaws at the end of their ways have the centre and the width in question. *)
LEMMA Centred ==
  ASSUME NEW a \in Int, NEW b \in Int, NEW x \in Int, NEW y \in Int,
         NEW v \in Int, NEW sum \in Int, NEW change \in Int,
         change = v - (sum - y + x),
         2 * (a - x) = change, 2 * (b - y) = - change
  PROVE  sum - b + a = v /\ a + b = x + y
<1>1. 2 * (a - x) + 2 * (b - y) = 0
  OBVIOUS
<1>2. (a - x) + (b - y) = 0
  BY <1>1
<1>3. 2 * (a - x) - 2 * (b - y) = 2 * change
  OBVIOUS
<1>4. (a - x) - (b - y) = change
  BY <1>3
<1> QED
  BY <1>2, <1>4

(* The one value that is verified at the end decides both. *)
LEMMA FinishKeepsWay == MInv /\ AInv /\ Finish => AInv'
<1> SUFFICES ASSUME MInv, AInv, Finish PROVE AInv'
  OBVIOUS
<1>0. TypeOK
  BY DEF MInv
<1>1. /\ pc = "exec" /\ pc' = "idle" /\ UNCHANGED <<pos, target, job>>
      /\ reply' = IF Arrived THEN "ok" ELSE "error"
  BY DEF Finish, axes
<1>2. NotYet' /\ Slit'
  BY <1>1 DEF NotYet, Slit
<1>3. ASSUME Slitting, Arrived
      PROVE  /\ pos[X1] = target[X1] /\ pos[X2] = target[X2]
             /\ AtItsEnd(pos[X1], job.x1, Change1) /\ AtItsEnd(pos[X2], job.x2, Change2)
  <2>1. /\ cached[X1] = pos[X1] /\ cached[X2] = pos[X2]
        /\ target[X1] = pos[X1] /\ target[X2] = pos[X2]
    BY <1>1, SlitAssumption DEF MInv, JawsKnown, StillBetweenSteps, Slits
  <2>2. OnWay(pos[X1], job.x1, Change1) /\ OnWay(pos[X2], job.x2, Change2)
    BY <1>1, <1>3 DEF AInv, Slit, JawsOnWay
  <2>3. Sum \in Int
    BY SlitAssumption
  <2>4. CASE job.cmd.op = "setslitwidth"
    <3>1. Sum - pos[X2] - pos[X1] = job.cmd.v
      BY <1>3, <2>1, <2>4 DEF Arrived, getSlitWidth
    <3>2. Change1 = Sum - job.x2 - job.x1 - job.cmd.v /\ Change2 = Change1
      BY <2>4 DEF Change1, Change2
    <3>3. (pos[X1] - job.x1) + (pos[X2] - job.x2) = Change1
      BY <1>0, <2>3, <3>1, <3>2, WayTypes
    <3> QED
      BY <1>0, <2>1, <2>2, <3>2, <3>3, WayTypes, BothAtTheEnd
  <2>5. CASE job.cmd.op = "setcenter"
    <3>1. Sum - pos[X2] + pos[X1] = job.cmd.v
      BY <1>3, <2>1, <2>5 DEF Arrived, getCenter2
    <3>2. Change1 = job.cmd.v - (Sum - job.x2 + job.x1) /\ Change2 = - Change1
      BY <2>5 DEF Change1, Change2
    <3>3. (pos[X1] - job.x1) - (pos[X2] - job.x2) = Change1
      BY <1>0, <2>3, <3>1, <3>2, WayTypes
    <3> QED
      BY <1>0, <2>1, <2>2, <3>2, <3>3, WayTypes, BothAtTheEnd
  <2> QED
    BY <1>3, <2>4, <2>5 DEF Slitting
<1>4. OkStands'
  <2>1. SUFFICES ASSUME Slitting, Arrived PROVE OkStands'
    BY <1>1 DEF OkStands, Slitting
  <2>2. /\ pos[X1] = target[X1] /\ pos[X2] = target[X2]
        /\ AtItsEnd(pos[X1], job.x1, Change1) /\ AtItsEnd(pos[X2], job.x2, Change2)
    BY <1>3, <2>1
  <2> QED
    BY <1>1, <2>2 DEF OkStands, Slitting, AtItsEnd, Change1, Change2
<1> QED
  BY <1>2, <1>4 DEF AInv

(* The server dies or comes back, and the stop server only halts axes: an   *)
(* answer given stays true.                                                 *)
LEMMA LifeKeepsWay == MInv /\ AInv /\ (Crash \/ Restart) => AInv'
<1> SUFFICES ASSUME MInv, AInv, Crash \/ Restart PROVE AInv'
  OBVIOUS
<1>1. /\ UNCHANGED <<pos, target, job, reply>> /\ pc' \in {"down", "idle"}
  BY DEF Crash, Restart, axes
<1>2. NotYet' /\ Slit'
  BY <1>1 DEF NotYet, Slit
<1>3. pc \in {"exec", "wait", "idle", "down"} => OkStands'
  <2>1. reply = "ok" => pc \notin {"exec", "wait"}
    BY DEF AInv, NotYet
  <2> QED
    BY <1>1, <2>1 DEF AInv, OkStands, Slitting, AtItsEnd, Change1, Change2
<1>4. pc \in {"exec", "wait", "idle", "down"}
  BY DEF MInv, TypeOK
<1> QED
  BY <1>2, <1>3, <1>4 DEF AInv

(* A jaw that is halted is halted on its way. *)
LEMMA HaltKeepsWay ==
  MInv /\ AInv /\ (StopAll \/ (\E m \in Motors : Stop(m)) \/ StopWork \/ UNCHANGED vars)
    => AInv'
<1> SUFFICES ASSUME MInv, AInv, UNCHANGED <<pc, todo, pos, job, reply>>,
                    \A m \in Motors : target'[m] = target[m] \/ target'[m] = pos[m]
             PROVE  AInv'
  BY DEF StopAll, Stop, StopWork, SendStop, Stopped, vars, axes, server
<1>0. X1 \in Motors /\ X2 \in Motors
  BY SlitAssumption
<1>1. NotYet'
  BY DEF AInv, NotYet
<1>2. /\ target'[X1] = target[X1] \/ target'[X1] = pos[X1]
      /\ target'[X2] = target[X2] \/ target'[X2] = pos[X2]
  BY <1>0
<1>3. Change1' = Change1 /\ Change2' = Change2
  BY DEF Change1, Change2
<1>4. OkStands'
  BY <1>2, <1>3 DEF AInv, OkStands, Slitting, AtItsEnd
<1>5. StepsOnWay => StepsOnWay'
  BY <1>3 DEF StepsOnWay, ToItsEnd
<1>6. JawsOnWay => JawsOnWay'
  BY <1>2, <1>3 DEF JawsOnWay, OnWay
<1>7. Slit'
  BY <1>5, <1>6 DEF AInv, Slit, Slitting
<1> QED
  BY <1>1, <1>4, <1>7 DEF AInv

(* An axis moves a unit towards its goal, which is on its way. *)
LEMMA DriveKeepsWay ==
  ASSUME NEW n \in Motors
  PROVE  MInv /\ AInv /\ Drive(n) => AInv'
<1> SUFFICES ASSUME MInv, AInv, Drive(n) PROVE AInv'
  OBVIOUS
<1>0. TypeOK /\ X1 \in Motors /\ X2 \in Motors
  BY SlitAssumption DEF MInv
<1>1. pos[n] # target[n] /\ UNCHANGED <<target, pc, todo, job, reply>>
  BY DEF Drive, server
<1>2. /\ pos'[n] = IF pos[n] < target[n] THEN pos[n] + 1 ELSE pos[n] - 1
      /\ \A m \in Motors : m # n => pos'[m] = pos[m]
  <2>1. pos \in [Motors -> Int]
    BY <1>0 DEF TypeOK
  <2>2. pos' = [pos EXCEPT ![n] = IF pos[n] < target[n] THEN pos[n] + 1 ELSE pos[n] - 1]
    BY DEF Drive
  <2> DEFINE next == IF pos[n] < target[n] THEN pos[n] + 1 ELSE pos[n] - 1
  <2>3. pos' = [pos EXCEPT ![n] = next]
    BY <2>2
  <2> HIDE DEF next
  <2>4. pos'[n] = next /\ \A m \in Motors : m # n => pos'[m] = pos[m]
    BY <2>1, <2>3
  <2> QED
    BY <2>4 DEF next
<1>3. Change1' = Change1 /\ Change2' = Change2
  BY <1>1 DEF Change1, Change2
<1>4. NotYet'
  BY <1>1 DEF AInv, NotYet
<1>5. OkStands'
  <2>1. SUFFICES ASSUME pos[X1] = target[X1], pos[X2] = target[X2],
                        AtItsEnd(pos[X1], job.x1, Change1),
                        AtItsEnd(pos[X2], job.x2, Change2)
                 PROVE  /\ pos'[X1] = target[X1] /\ pos'[X2] = target[X2]
                        /\ AtItsEnd(pos'[X1], job.x1, Change1)
                        /\ AtItsEnd(pos'[X2], job.x2, Change2)
    BY <1>1, <1>3 DEF AInv, OkStands, Slitting, AtItsEnd
  <2>2. pos'[X1] = pos[X1] /\ pos'[X2] = pos[X2]
    BY <1>0, <1>1, <1>2, <2>1
  <2> QED
    BY <2>1, <2>2
<1>6. Slit'
  <2>1. SUFFICES ASSUME JawsOnWay, StepsOnWay PROVE JawsOnWay' /\ StepsOnWay'
    BY <1>1 DEF AInv, Slit, Slitting
  <2>2. StepsOnWay'
    BY <1>1, <1>3, <2>1 DEF StepsOnWay, ToItsEnd
  <2>3. OnWay(pos'[X1], job.x1, Change1)
    BY <1>0, <1>1, <1>2, <2>1, WayTypes, WayGoesOn DEF JawsOnWay
  <2>4. OnWay(pos'[X2], job.x2, Change2)
    BY <1>0, <1>1, <1>2, <2>1, WayTypes, WayGoesOn DEF JawsOnWay
  <2>5. JawsOnWay'
    BY <1>1, <1>3, <2>1, <2>3, <2>4 DEF JawsOnWay, OnWay
  <2> QED
    BY <2>2, <2>5
<1> QED
  BY <1>4, <1>5, <1>6 DEF AInv

(* Every step keeps the jaws on their way and an "ok" true. *)
LEMMA NextAInv == MInv /\ AInv /\ [Next]_vars => AInv'
BY ReceiveKeepsWay, SkipThrowSettleKeepWay, SendKeepsWay, FinishKeepsWay, LifeKeepsWay,
   HaltKeepsWay, DriveKeepsWay DEF Next, Work

(* An "ok" to setslitwidth or setcenter is true, of what was verified and   *)
(* of what was not (Slit.cpp:78, Slit.cpp:122), whatever the stop server    *)
(* does meanwhile.                                                          *)
THEOREM SlitAnswersTrue == Spec => []SlitIsAsAsked
<1>1. MInv /\ AInv => SlitIsAsAsked
  <2> SUFFICES ASSUME MInv, AInv, pc = "idle", reply = "ok"
               PROVE  /\ job.cmd.op = "setslitwidth" =>
                           /\ getSlitWidth(pos) = job.cmd.v
                           /\ pos[X1] - pos[X2] = job.x1 - job.x2
                      /\ job.cmd.op = "setcenter" =>
                           /\ getCenter2(pos) = job.cmd.v
                           /\ pos[X1] + pos[X2] = job.x1 + job.x2
    BY DEF SlitIsAsAsked
  <2>0. TypeOK /\ Sum \in Int
    BY SlitAssumption DEF MInv
  <2>1. Slitting => 2 * (pos[X1] - job.x1) = Change1 /\ 2 * (pos[X2] - job.x2) = Change2
    BY DEF AInv, OkStands, AtItsEnd
  <2>2. CASE job.cmd.op = "setslitwidth"
    <3>1. Change1 = Sum - job.x2 - job.x1 - job.cmd.v /\ Change2 = Change1
      BY <2>2 DEF Change1, Change2
    <3>2. 2 * (pos[X1] - job.x1) = Change1 /\ 2 * (pos[X2] - job.x2) = Change1
      BY <2>1, <2>2, <3>1 DEF Slitting
    <3>3. /\ Sum - pos[X2] - pos[X1] = job.cmd.v
          /\ pos[X1] - pos[X2] = job.x1 - job.x2
      BY <2>0, <3>1, <3>2, WayTypes
    <3> QED
      BY <2>2, <3>3 DEF getSlitWidth
  <2>3. CASE job.cmd.op = "setcenter"
    <3>1. Change1 = job.cmd.v - (Sum - job.x2 + job.x1) /\ Change2 = - Change1
      BY <2>3 DEF Change1, Change2
    <3>2. 2 * (pos[X1] - job.x1) = Change1 /\ 2 * (pos[X2] - job.x2) = - Change1
      BY <2>1, <2>3, <3>1 DEF Slitting
    <3>3. /\ Sum - pos[X2] + pos[X1] = job.cmd.v
          /\ pos[X1] + pos[X2] = job.x1 + job.x2
      BY <2>0, <3>1, <3>2, WayTypes, Centred
    <3> QED
      BY <2>3, <3>3 DEF getCenter2
  <2> QED
    BY <2>2, <2>3
<1>2. Spec => []AInv
  BY Invariant, InitAInv, NextAInv, PTL DEF Spec
<1> QED
  BY <1>1, <1>2, Invariant, PTL
=============================================================================
