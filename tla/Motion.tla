------------------------------- MODULE Motion -------------------------------
(***************************************************************************)
(* The motors of an X-ray box: the control server that executes the motion *)
(* commands one at a time (Initialize, Controller, Motor, Slit and         *)
(* ReferencePoints), the stop server, a second process that halts the same *)
(* controllers, and the Corvus controllers that really drive the axes.     *)
(*                                                                         *)
(* The server keeps a copy of every position (Motor::position) that it     *)
(* refreshes only when a command of its own ends, and soft limits that it  *)
(* checks against that copy.  The upper limits of the two slit jaws depend *)
(* on the position of the other jaw (Slit::updateLimits).                  *)
(*                                                                         *)
(* Positions are integers; the tolerance of Motor::matches is equality.    *)
(***************************************************************************)
EXTENDS Integers, Sequences

CONSTANTS
  Motors,       \* the motors of the configuration file
  Controllers,  \* the controllers of the configuration file
  Controller,   \* the controller each motor is wired to
  StopOrder,    \* the controllers in the order stopall visits them
  X1, X2,       \* the motors Slit_x1 and Slit_x2
  Restricted,   \* the motors that refuse setpos, rangemeasure and limits
  LowerLimit,   \* configured lower limits
  UpperLimit,   \* configured upper limits
  Sum,          \* SLITS_SUM_LIMIT
  Individual,   \* SLITS_INDIVIDUAL_LIMIT
  EndSwitch,    \* where rangemeasure ends: the far hard switch of a motor
  RefMotors,    \* Detector_x, Detector_y and Detector_z
  RefPoints,    \* the reference points: a position for each of these
  StartAt,      \* where motors may stand when the server first starts
  Commands,     \* the commands that clients may send (bounds the model)
  StopServer    \* whether the stop server was started as well

(* -1 stands for "no limit", and in a reference point for "do not move". *)
Unset == -1

Slits == {X1, X2}

Operations ==
  {"moveabs", "moverel", "cal", "rangemeasure", "setpos", "setupper",
   "setlower", "depos", "setslitwidth", "setcenter", "setref",
   "sendcontroller"}

(* v is the command's number: a position, a limit, a width, twice a centre, *)
(* the place of a reference point in the list.                              *)
Command == [op : Operations, m : Motors, v : Int]

Kinds == {"abs", "rel", "ref", "cal", "range", "raw"}

(* One controller command that a client's command is made of. *)
Step == [kind : Kinds, m : Motors, to : Int]

ASSUME MotorsAssumption ==
  /\ Controller \in [Motors -> Controllers]
  /\ StopOrder \in Seq(Controllers)
  /\ StopOrder # << >>
  /\ StopServer \in BOOLEAN
  /\ RefMotors \in Seq(Motors)
  /\ RefPoints \in Seq([1..Len(RefMotors) -> Int])
  /\ StartAt \subseteq Int
  /\ EndSwitch \in [Motors -> Int]
  /\ LowerLimit \in [Motors -> Int]
  /\ UpperLimit \in [Motors -> Int]

ASSUME SlitAssumption ==
  /\ X1 \in Motors /\ X2 \in Motors /\ X1 # X2
  /\ Slits \subseteq Restricted /\ Restricted \subseteq Motors
  /\ Sum \in Nat /\ Individual \in Nat /\ Individual <= Sum
  /\ \A x \in Slits : LowerLimit[x] = 0   \* as in every configuration file
  /\ \A i \in 1..Len(RefMotors) : RefMotors[i] \notin Slits

(* Whoever drives a slit jaw with raw controller text is on their own. *)
ASSUME CommandsAssumption ==
  /\ Commands \subseteq Command
  /\ \A c \in Commands :
       /\ c.op = "sendcontroller" => c.m \notin Slits
       /\ c.op = "setref" => c.v \in 1..Len(RefPoints)

VARIABLES
  pos,     \* where each axis is, as its controller knows it
  target,  \* where the controller is driving it
  cached,  \* the server's copy, Motor::position
  lower,   \* Motor::lowerLimit
  upper,   \* Motor::upperLimit
  pc,      \* the control server: "down", "idle", "exec" or "wait"
  todo,    \* the controller commands left of the command in progress
  job,     \* the command in progress or last answered, and where the jaws were
  reply,   \* its answer: "none" yet, "ok" or "error"
  stopPc,  \* the stop server: "idle", "send" or "wait"
  stopQ    \* the controllers it still has to stop, the current one first

axes   == <<pos, target>>
limits == <<lower, upper>>
server == <<pc, todo, job, reply>>
stop   == <<stopPc, stopQ>>
vars   == <<axes, cached, limits, server, stop>>

-----------------------------------------------------------------------------
(* A definition followed by a faulty variant of it, named Faulty..., has one *)
(* slip in it that a change to the code could bring; PROJECT.json says which *)
(* property notices.                                                         *)

(* Motor *)

(* Motor::canMotorMove *)
canMotorMove(m, p) ==
  /\ lower[m] # Unset => p >= lower[m]
  /\ upper[m] # Unset => p <= upper[m]

(* What Motor::setUpperLimit and Motor::setLowerLimit accept. *)
acceptsUpper(m, v) == lower[m] = Unset \/ v = Unset \/ v >= lower[m]

acceptsLower(m, v) == v = Unset \/ upper[m] = Unset \/ v <= upper[m]

(* Controller *)

Still(c) == \A m \in Motors : Controller[m] = c => pos[m] = target[m]

(* Controller::debugPositions: every motor of controller c is read back. *)
debugPositions(c, at) ==
  [m \in Motors |-> IF Controller[m] = c THEN at[m] ELSE cached[m]]

(* Slit *)

Room(p) == IF Sum - p > Individual THEN Individual ELSE Sum - p

(* Slit::updateLimits over the positions in at: the limit of one jaw is    *)
(* what the other leaves free.  A limit below the lower one is refused and *)
(* ends the call, with the first jaw's limit set if the second is refused. *)
updateAccepted(at) ==
  acceptsUpper(X1, Room(at[X2])) /\ acceptsUpper(X2, Room(at[X1]))

FaultyUpdateLimits(at) ==   \* the second jaw is forgotten
  [upper EXCEPT ![X1] = Room(at[X2])]

updateLimits(at) ==
  [m \in Motors |->
    IF m = X1 /\ acceptsUpper(X1, Room(at[X2])) THEN Room(at[X2])
    ELSE IF m = X2 /\ updateAccepted(at) THEN Room(at[X1])
    ELSE upper[m]]

(* Slit::canBothMove *)
canBothMove(p1, p2) == p1 <= Individual /\ p2 <= Individual /\ p1 + p2 <= Sum

getSlitWidth(at) == Sum - at[X2] - at[X1]

(* Twice Slit::getCenter, which halves the sum. *)
getCenter2(at) == Sum - at[X2] + at[X1]

-----------------------------------------------------------------------------
(* A client's command reaches the idle control server. *)

Job(c) == [cmd |-> c, x1 |-> cached[X1], x2 |-> cached[X2]]

Start(c, steps) ==
  /\ pc' = "exec" /\ todo' = steps /\ job' = Job(c) /\ reply' = "none"
  /\ UNCHANGED <<axes, cached, limits>>

Answer(c, ok) ==
  /\ reply' = (IF ok THEN "ok" ELSE "error") /\ job' = Job(c)
  /\ UNCHANGED <<pc, todo>>

Refuse(c) == Answer(c, FALSE) /\ UNCHANGED <<axes, cached, limits>>

One(kind, c) == <<[kind |-> kind, m |-> c.m, to |-> c.v]>>

Received(c, op) == pc = "idle" /\ c.op = op /\ UNCHANGED stop

MoveAbs(c) == Received(c, "moveabs") /\ Start(c, One("abs", c))

MoveRel(c) == Received(c, "moverel") /\ Start(c, One("rel", c))

Cal(c) == Received(c, "cal") /\ Start(c, One("cal", c))

RangeMeasure(c) ==
  /\ Received(c, "rangemeasure")
  /\ IF c.m \in Restricted THEN Refuse(c) ELSE Start(c, One("range", c))

SendController(c) == Received(c, "sendcontroller") /\ Start(c, One("raw", c))

(* ReferencePoints::moveTo: x, then y, then z. *)
SetRef(c) ==
  /\ Received(c, "setref")
  /\ Start(c, [i \in 1..Len(RefMotors) |->
       [kind |-> "ref", m |-> RefMotors[i], to |-> RefPoints[c.v][i]]])

(* Slit::setSlitWidth: half the change to each jaw, x1 first. *)
SetSlitWidth(c) ==
  LET change == getSlitWidth(cached) - c.v
      x1 == cached[X1] + change \div 2
      x2 == cached[X2] + change \div 2
  IN  /\ Received(c, "setslitwidth")
      /\ change % 2 = 0
      /\ IF change = 0 THEN Start(c, << >>)
         ELSE IF ~canBothMove(x1, x2) THEN Refuse(c)
         ELSE Start(c, <<[kind |-> "abs", m |-> X1, to |-> x1],
                         [kind |-> "abs", m |-> X2, to |-> x2]>>)

(* Slit::setCenter: the jaw that retreats goes first. *)
SetCenter(c) ==
  LET change == c.v - getCenter2(cached)
      x1 == [kind |-> "abs", m |-> X1, to |-> cached[X1] + change \div 2]
      x2 == [kind |-> "abs", m |-> X2, to |-> cached[X2] - change \div 2]
  IN  /\ Received(c, "setcenter")
      /\ change % 2 = 0
      /\ IF change = 0 THEN Start(c, << >>)
         ELSE IF ~canBothMove(x1.to, x2.to) THEN Refuse(c)
         ELSE Start(c, IF change > 0 THEN <<x2, x1>> ELSE <<x1, x2>>)

(* Controller::resetPosition renumbers every axis of the controller: the    *)
(* others are given the server's copy as their position.                    *)
SetPos(c) ==
  LET renumbered ==
        [m \in Motors |-> IF m = c.m THEN c.v
                          ELSE IF Controller[m] = Controller[c.m] THEN cached[m]
                          ELSE pos[m]]
  IN  /\ Received(c, "setpos")
      /\ IF c.m \in Restricted THEN Refuse(c)
         ELSE /\ pos' = renumbered
              /\ target' = [m \in Motors |->
                   IF Controller[m] = Controller[c.m] THEN renumbered[m]
                   ELSE target[m]]
              /\ cached' = debugPositions(Controller[c.m], renumbered)
              /\ Answer(c, TRUE) /\ UNCHANGED limits

SetUpper(c) ==
  /\ Received(c, "setupper")
  /\ IF c.m \in Restricted \/ ~acceptsUpper(c.m, c.v) THEN Refuse(c)
     ELSE /\ upper' = [upper EXCEPT ![c.m] = c.v]
          /\ Answer(c, TRUE) /\ UNCHANGED <<axes, cached, lower>>

SetLower(c) ==
  /\ Received(c, "setlower")
  /\ IF c.m \in Restricted \/ ~acceptsLower(c.m, c.v) THEN Refuse(c)
     ELSE /\ lower' = [lower EXCEPT ![c.m] = c.v]
          /\ Answer(c, TRUE) /\ UNCHANGED <<axes, cached, upper>>

(* depos names a controller; c.m stands for one of its motors. *)
Depos(c) ==
  LET read == debugPositions(Controller[c.m], pos)
  IN  /\ Received(c, "depos")
      /\ cached' = read /\ upper' = updateLimits(read)
      /\ Answer(c, updateAccepted(read)) /\ UNCHANGED <<axes, lower>>

Receive ==
  \E c \in Commands :
    \/ MoveAbs(c) \/ MoveRel(c) \/ Cal(c) \/ RangeMeasure(c)
    \/ SendController(c) \/ SetRef(c) \/ SetSlitWidth(c) \/ SetCenter(c)
    \/ SetPos(c) \/ SetUpper(c) \/ SetLower(c) \/ Depos(c)

-----------------------------------------------------------------------------
(* The control server works through the steps of its command. *)

(* The steps after the one that threw are left to be sent. *)
FaultyFail == pc' = "idle" /\ reply' = "error" /\ UNCHANGED <<todo, job>>

Fail == pc' = "idle" /\ reply' = "error" /\ todo' = << >> /\ UNCHANGED job

(* The limits are left alone after a relative move. *)
FaultyStepDone(m, at) ==
  /\ pc' = "exec" /\ todo' = Tail(todo)
  /\ upper' = IF m \in Slits /\ Head(todo).kind # "rel"
              THEN updateLimits(at) ELSE upper
  /\ UNCHANGED <<job, reply>>

(* After a step the commands that drive a slit jaw call updateLimits, with *)
(* the positions at as the server now knows them, and go on to the next.   *)
StepDone(m, at) ==
  IF m \in Slits
  THEN /\ upper' = updateLimits(at)
       /\ IF updateAccepted(at)
          THEN pc' = "exec" /\ todo' = Tail(todo) /\ UNCHANGED <<job, reply>>
          ELSE Fail
  ELSE /\ pc' = "exec" /\ todo' = Tail(todo)
       /\ UNCHANGED <<upper, job, reply>>

(* Nothing to move, or a reference point that leaves the motor alone. *)
NothingToMove(s) ==
  \/ s.kind \in {"abs", "ref"} /\ s.to = cached[s.m]
  \/ s.kind = "ref" /\ s.to = Unset
  \/ s.kind = "rel" /\ s.to = 0

BeyondLimits(s) ==
  \/ s.kind \in {"abs", "ref"} /\ ~canMotorMove(s.m, s.to)
  \/ s.kind = "rel" /\ ~canMotorMove(s.m, cached[s.m] + s.to)

(* The other axes are sent to 0, as in moveRel's command. *)
FaultyDriven(s, n) ==
  IF n = s.m THEN IF s.kind = "rel" THEN pos[n] + s.to ELSE s.to
  ELSE IF Controller[n] = Controller[s.m] THEN 0 ELSE target[n]

(* Where the controller drives motor n.  An absolute move names all three   *)
(* axes, the others at the server's copy; a relative one moves them by 0;   *)
(* a calibration ends at the near switch, which becomes 0.                  *)
Driven(s, n) ==
  IF n = s.m
  THEN CASE s.kind \in {"abs", "ref", "raw"} -> s.to
         [] s.kind = "rel"   -> pos[n] + s.to
         [] s.kind = "cal"   -> 0
         [] s.kind = "range" -> EndSwitch[n]
  ELSE IF s.kind \in {"abs", "ref"} /\ Controller[n] = Controller[s.m]
       THEN cached[n]
       ELSE target[n]

(* A motor already there is tried again and again. *)
FaultySkip ==
  /\ pc = "exec" /\ todo # << >> /\ NothingToMove(Head(todo))
  /\ UNCHANGED vars

Skip ==
  /\ pc = "exec" /\ todo # << >> /\ NothingToMove(Head(todo))
  /\ StepDone(Head(todo).m, cached)
  /\ UNCHANGED <<axes, cached, lower, stop>>

Throw ==
  /\ pc = "exec" /\ todo # << >>
  /\ ~NothingToMove(Head(todo)) /\ BeyondLimits(Head(todo))
  /\ Fail /\ UNCHANGED <<axes, cached, limits, stop>>

Send ==
  /\ pc = "exec" /\ todo # << >>
  /\ ~NothingToMove(Head(todo)) /\ ~BeyondLimits(Head(todo))
  /\ target' = [n \in Motors |-> Driven(Head(todo), n)]
  /\ pc' = "wait"
  /\ UNCHANGED <<pos, cached, limits, todo, job, reply, stop>>

(* The controller is not awaited. *)
FaultySettle ==
  /\ pc = "wait"
  /\ cached' = debugPositions(Controller[Head(todo).m], pos)
  /\ StepDone(Head(todo).m, cached')
  /\ UNCHANGED <<axes, lower, stop>>

(* ControllerWaitForIdle returns and the positions are read back, except    *)
(* after raw text.  A calibration that did not end at 0 throws before the   *)
(* slit limits are updated.                                                 *)
Settle ==
  LET s    == Head(todo)
      read == IF s.kind = "raw" THEN cached
              ELSE debugPositions(Controller[s.m], pos)
  IN  /\ pc = "wait" /\ Still(Controller[s.m])
      /\ cached' = read
      /\ IF s.kind = "cal" /\ pos[s.m] # 0
         THEN Fail /\ UNCHANGED upper
         ELSE StepDone(s.m, read)
      /\ UNCHANGED <<axes, lower, stop>>

(* The result is not compared with what was asked for. *)
FaultyArrived == TRUE

(* The width or the centre is checked against what was asked for. *)
Arrived ==
  CASE job.cmd.op = "setslitwidth" -> getSlitWidth(cached) = job.cmd.v
    [] job.cmd.op = "setcenter"    -> getCenter2(cached) = job.cmd.v
    [] OTHER                       -> TRUE

Finish ==
  /\ pc = "exec" /\ todo = << >>
  /\ pc' = "idle" /\ reply' = (IF Arrived THEN "ok" ELSE "error")
  /\ UNCHANGED <<axes, cached, limits, todo, job, stop>>

(* The process dies at any point; the controllers carry on. *)
Crash ==
  /\ pc # "down"
  /\ pc' = "down" /\ todo' = << >> /\ UNCHANGED <<job, reply>>
  /\ UNCHANGED <<axes, cached, limits, stop>>

(* The controllers are not awaited. *)
FaultyRestart ==
  /\ pc = "down" /\ pc' = "idle" /\ cached' = pos
  /\ lower' = LowerLimit
  /\ upper' = [m \in Motors |-> IF m = X1 THEN Room(pos[X2])
                                ELSE IF m = X2 THEN Room(pos[X1])
                                ELSE UpperLimit[m]]
  /\ UNCHANGED <<axes, todo, job, reply, stop>>

(* The constructor of Initialize: each controller is awaited when its port  *)
(* is validated, positions are read, configured limits replace the ones     *)
(* clients had set, and updateLimits throws if the jaws leave no room.      *)
Restart ==
  /\ pc = "down" /\ \A c \in Controllers : Still(c)
  /\ \A x \in Slits : Room(pos[x]) = Unset \/ Room(pos[x]) >= 0
  /\ pc' = "idle" /\ cached' = pos
  /\ lower' = LowerLimit
  /\ upper' = [m \in Motors |-> IF m = X1 THEN Room(pos[X2])
                                ELSE IF m = X2 THEN Room(pos[X1])
                                ELSE UpperLimit[m]]
  /\ UNCHANGED <<axes, todo, job, reply, stop>>

-----------------------------------------------------------------------------
(* The stop server: ^C to each controller in turn, waiting for each. *)

StopAll ==
  /\ StopServer /\ stopPc = "idle" /\ stopPc' = "send" /\ stopQ' = StopOrder
  /\ UNCHANGED <<axes, cached, limits, server>>

Stop(m) ==
  /\ StopServer /\ stopPc = "idle" /\ stopPc' = "send" /\ stopQ' = <<Controller[m]>>
  /\ UNCHANGED <<axes, cached, limits, server>>

SendStop ==
  /\ stopPc = "send" /\ stopPc' = "wait"
  /\ target' = [m \in Motors |->
       IF Controller[m] = Head(stopQ) THEN pos[m] ELSE target[m]]
  /\ UNCHANGED <<pos, cached, limits, server, stopQ>>

(* The controller just stopped is kept as the next one. *)
FaultyStopped ==
  /\ stopPc = "wait" /\ Still(Head(stopQ)) /\ stopPc' = "send"
  /\ UNCHANGED <<axes, cached, limits, server, stopQ>>

Stopped ==
  /\ stopPc = "wait" /\ Still(Head(stopQ))
  /\ stopQ' = Tail(stopQ)
  /\ stopPc' = (IF Tail(stopQ) = << >> THEN "idle" ELSE "send")
  /\ UNCHANGED <<axes, cached, limits, server>>

-----------------------------------------------------------------------------
(* The controllers drive their axes, here one unit at a time. *)

Drive(m) ==
  /\ pos[m] # target[m]
  /\ pos' = [pos EXCEPT ![m] = IF @ < target[m] THEN @ + 1 ELSE @ - 1]
  /\ UNCHANGED <<target, cached, limits, server, stop>>

Work == Skip \/ Throw \/ Send \/ Settle \/ Finish

StopWork == SendStop \/ Stopped

NoJob == [cmd |-> [op |-> "depos", m |-> X1, v |-> 0], x1 |-> 0, x2 |-> 0]

(* The server is not up yet; the jaws are somewhere they do not touch. *)
Init ==
  /\ pos \in [Motors -> StartAt]
  /\ pos[X1] >= 0 /\ pos[X2] >= 0 /\ canBothMove(pos[X1], pos[X2])
  /\ target = pos
  /\ cached = [m \in Motors |-> 0]
  /\ lower = LowerLimit /\ upper = UpperLimit
  /\ pc = "down" /\ todo = << >> /\ job = NoJob /\ reply = "none"
  /\ stopPc = "idle" /\ stopQ = << >>

Next ==
  \/ Receive \/ Work \/ Crash \/ Restart
  \/ StopAll \/ (\E m \in Motors : Stop(m)) \/ StopWork
  \/ \E m \in Motors : Drive(m)

Spec == Init /\ [][Next]_vars

(* A controller that was told to move moves, and neither server process     *)
(* sleeps with work left; nothing makes a client send or the server crash.  *)
Fairness ==
  /\ \A m \in Motors : WF_vars(Drive(m))
  /\ WF_vars(Work) /\ WF_vars(StopWork)

FairSpec == Spec /\ Fairness

-----------------------------------------------------------------------------
(* Properties *)

(* Every variable has its type; the stop server has a controller to stop    *)
(* exactly while it is busy, and the control server a step exactly when it  *)
(* waits for one (Server.cpp's two loops).                                  *)
TypeOK ==
  /\ pos \in [Motors -> Int] /\ target \in [Motors -> Int]
  /\ cached \in [Motors -> Int]
  /\ lower \in [Motors -> Int] /\ upper \in [Motors -> Int]
  /\ pc \in {"down", "idle", "exec", "wait"}
  /\ todo \in Seq(Step)
  /\ job \in [cmd : Command, x1 : Int, x2 : Int]
  /\ reply \in {"none", "ok", "error"}
  /\ stopPc \in {"idle", "send", "wait"}
  /\ stopQ \in Seq(Controllers)
  /\ stopPc = "idle" <=> stopQ = << >>
  /\ pc = "wait" => todo # << >>
  /\ pc \in {"down", "idle"} => todo = << >>

(* The jaws never touch and neither passes its own limit: at every instant  *)
(* of every move, halted between two moves, and across a restart            *)
(* (Slit.cpp:105,109 "else they will crash").                               *)
SlitsNeverCollide ==
  /\ pos[X1] \in 0..Individual /\ pos[X2] \in 0..Individual
  /\ pos[X1] + pos[X2] <= Sum

(* Where the jaws are being driven is as safe as where they are, against    *)
(* every position of the other jaw: no jaw is sent off on the strength of   *)
(* an old reading (Controller::moveAbs checks Motor::position).             *)
GoalsSafe ==
  /\ target[X1] \in 0..Individual /\ target[X2] \in 0..Individual
  /\ target[X1] + target[X2] <= Sum
  /\ pos[X1] + target[X2] <= Sum /\ target[X1] + pos[X2] <= Sum

(* Whenever the control server can take a command or send a step, no axis   *)
(* of any controller is in motion: ControllerWaitForIdle covers each step,  *)
(* and the constructor what a dead predecessor had set in motion.           *)
StillBetweenSteps ==
  pc \in {"idle", "exec"} => \A m \in Motors : pos[m] = target[m]

(* Before a decision the server's copy of a jaw is the jaw's position.      *)
JawsKnown ==
  pc \in {"idle", "exec"} => \A x \in Slits : cached[x] = pos[x]

(* The soft limit of each jaw never promises room that the other jaw        *)
(* occupies, even after a calibration was halted half-way, which throws     *)
(* before Slit::updateLimits (Controller.cpp:210); nor does the room that a *)
(* jaw at its end leaves ever come out as -1, no limit (Motor.cpp:68).      *)
LimitsLeaveRoom ==
  pc \in {"idle", "exec"} =>
    /\ upper[X1] \in 0..Individual /\ upper[X2] \in 0..Individual
    /\ upper[X1] + pos[X2] <= Sum /\ upper[X2] + pos[X1] <= Sum

(* An "ok" to setslitwidth means that the slit has that width and that its  *)
(* centre has not moved, although only the width is verified (Slit.cpp:78); *)
(* an "ok" to setcenter that it has that centre and the width it had,       *)
(* although only the centre is (Slit.cpp:122).                              *)
SlitIsAsAsked ==
  pc = "idle" /\ reply = "ok" =>
    /\ job.cmd.op = "setslitwidth" =>
         getSlitWidth(pos) = job.cmd.v /\ pos[X1] - pos[X2] = job.x1 - job.x2
    /\ job.cmd.op = "setcenter" =>
         getCenter2(pos) = job.cmd.v /\ pos[X1] + pos[X2] = job.x1 + job.x2

(* While a command waits, only the motor of its current step may be moving: *)
(* an absolute move leaves the other axes of the controller alone           *)
(* (Controller.cpp:162-168).                                                *)
OnlyNamedMotorMoves ==
  pc = "wait" => \A m \in Motors : pos[m] # target[m] => m = Head(todo).m

(* A command that was accepted is answered, unless the server dies.         *)
CommandAnswered == pc \in {"exec", "wait"} ~> pc \in {"idle", "down"}

(* Once clients leave the control server alone, a stop is acknowledged:     *)
(* Controller::stop waits for an idle controller, and moves of the control  *)
(* server in between may keep it busy.                                      *)
StopAnswered ==
  <>[](pc \in {"idle", "down"}) => (stopPc # "idle" ~> stopPc = "idle")

(* The two jaws behave as SlitPair promises.                                *)
Jaws == INSTANCE SlitPair WITH
  at1 <- pos[X1], at2 <- pos[X2], goal1 <- target[X1], goal2 <- target[X2]

JawsImplemented == Jaws!Spec
=============================================================================
