------------------------------ MODULE TubeProofs ------------------------------
(***************************************************************************)
(* What the server may conclude from the numbers a tube that answers in    *)
(* time sends it, for any power, limits, shutters and commands.            *)
(***************************************************************************)
EXTENDS Tube, TLAPS, SequenceTheorems

(* The doings of a command from its last to its first: the one that is done *)
(* when so many of them are left.                                           *)
Countdown(op) ==
  CASE op = "istube"  -> <<"standby", "status", "identify">>
    [] op = "hv"      -> <<"hv", "obey", "standby", "status", "identify">>
    [] op = "setv"    -> <<"voltage", "obey", "limit", "standby", "status", "identify">>
    [] op = "setc"    -> <<"current", "obey", "limit", "standby", "status", "identify">>
    [] op = "setvc"   -> <<"both", "obey", "standby", "status", "identify">>
    [] op = "shutter" -> <<"state", "obey", "connected", "standby", "status", "identify">>
    [] op = "warmup"  -> <<"hv", "hv_on", "standby", "obey", "standby", "status", "identify">>
    [] op = "issafe"  -> <<"state", "state", "state", "state", "status", "identify">>

Planned(s, left) ==
  /\ s.do = Countdown(cmd.op)[left]
  /\ s.i = IF cmd.op = "issafe" /\ left <= 4 THEN 5 - left ELSE cmd.i

(* The look at the high voltage that an open shutter brings about. *)
LastLook == cmd.op = "issafe" /\ Len(todo) = 1 /\ todo[1].do = "hv"

(* The inductive invariant, in parts.  What is left to do is the end of *)
(* what the command began with;                                         *)
OnPlan ==
  pc # "idle" =>
    /\ Len(todo) \in 1..Len(Countdown(cmd.op))
    /\ \/ \A n \in 1..Len(todo) : Planned(todo[n], Len(todo) - n + 1)
       \/ LastLook

(* there is no reply before the end; *)
NoReplyYet == pc # "idle" => reply = "none"

(* no order goes out before the values were looked at; *)
Looked ==
  /\ pc # "idle" /\ cmd.op \notin {"istube", "issafe"}
  /\ Len(todo) + 2 < Len(Countdown(cmd.op))
  => Valid(cmd)

(* a shutter that is not there stays shut; *)
Dark == \A i \in Shutters \ Connected : shutter[i] = "off"

(* what an answer on its way says is still so when it is read, whatever has *)
(* settled since; only the key may have been turned;                        *)
Fits(a) ==
  LET s == Head(todo)
  IN  /\ s.do = "identify" => a.first = ModelResponse
      /\ s.do # "identify" => a.first \in Nat
      /\ s.do = "hv" =>
           /\ a.first = 0 => hv = "off"
           /\ a.first = TUBE_HV_ON => hv = "on" \/ turned
      /\ s.do = "state" =>
           /\ status(s.i, a.first) \in {0, SHUTTER_NOT_CONNECTED,
                                        SHUTTER_TRANSITION_VAL, SHUTTER_ON_VALUE}
           /\ status(s.i, a.first) \in {0, SHUTTER_NOT_CONNECTED} => shutter[s.i] = "off"
           /\ status(s.i, a.first) = SHUTTER_ON_VALUE => shutter[s.i] = "on" \/ turned
      /\ s.do \in {"voltage", "both"} => a.first = voltage * 1000
      /\ s.do = "current" => a.first = current * 1000
      /\ s.do = "both" => a.second = current * 1000
      /\ s.do = "limit" =>
           a.first = (IF cmd.op = "setv" THEN current ELSE voltage) * 1000

Silent == outbox = << >> /\ buffer = << >>

(* the line holds the answer to the question that is open and no other; *)
OneAnswer ==
  Prompt =>
    /\ pc # "read" => Silent
    /\ pc = "read" =>
         \/ Silent /\ (turned \/ power = "off")
         \/ Len(outbox) = 1 /\ buffer = << >> /\ Fits(Head(outbox))
         \/ outbox = << >> /\ Len(buffer) = 1 /\ Fits(Head(buffer))

(* the value about to be set is within the power together with the other, *)
(* which nobody else changes;                                             *)
WithinLimit ==
  Prompt /\ pc # "idle" /\ Len(todo) = 2 =>
    /\ cmd.op = "setv" => cmd.v * current <= MaxPower
    /\ cmd.op = "setc" => cmd.c * voltage <= MaxPower

(* and the shutters that issafe has passed stay shut. *)
ShutSoFar ==
  Prompt /\ pc # "idle" /\ cmd.op = "issafe" /\ Head(todo).do = "state" =>
    \A j \in Shutters : j + Len(todo) < 5 => shutter[j] \notin {"opening", "on"}

TInv ==
  /\ TypeOK /\ OnPlan /\ NoReplyYet /\ Looked /\ Dark
  /\ OneAnswer /\ WithinLimit /\ ShutSoFar
  /\ PowerBounded /\ PromptYesMeansSafe /\ OkMeansDone /\ OffMeansOff

-----------------------------------------------------------------------------
(* The commands and their steps. *)

(* The steps of a command are what it does, one by one, for the one shutter *)
(* it names.                                                                *)
LEMMA StepsAre ==
  ASSUME NEW c \in Command, NEW d \in Seq(Doings)
  PROVE  /\ Steps(d, c) \in Seq(Step) /\ Len(Steps(d, c)) = Len(d)
         /\ \A n \in 1..Len(d) : Steps(d, c)[n].do = d[n] /\ Steps(d, c)[n].i = c.i
<1>1. \A n \in 1..Len(d) : [do |-> d[n], i |-> c.i] \in Step
  BY DEF Step, Command
<1>2. Steps(d, c) \in Seq(Step) /\ Len(Steps(d, c)) = Len(d)
  BY <1>1 DEF Steps
<1> QED
  BY <1>2 DEF Steps

(* Every operation begins by asking for the identity and the status. *)
LEMMA CountdownIs ==
  ASSUME NEW op \in Operations
  PROVE  /\ Countdown(op) \in Seq(Doings) /\ Len(Countdown(op)) \in 3..7
         /\ Countdown(op)[Len(Countdown(op))] = "identify"
         /\ Countdown(op)[Len(Countdown(op)) - 1] = "status"
<1>1. CASE op = "istube"
  BY <1>1 DEF Countdown, Doings
<1>2. CASE op = "hv"
  BY <1>2 DEF Countdown, Doings
<1>3. CASE op = "setv"
  BY <1>3 DEF Countdown, Doings
<1>4. CASE op = "setc"
  BY <1>4 DEF Countdown, Doings
<1>5. CASE op = "setvc"
  BY <1>5 DEF Countdown, Doings
<1>6. CASE op = "shutter"
  BY <1>6 DEF Countdown, Doings
<1>7. CASE op = "warmup"
  BY <1>7 DEF Countdown, Doings
<1>8. CASE op = "issafe"
  BY <1>8 DEF Countdown, Doings
<1> QED
  BY <1>1, <1>2, <1>3, <1>4, <1>5, <1>6, <1>7, <1>8 DEF Operations

(* An operation that does what its countdown counts is on plan. *)
LEMMA Mirrored ==
  ASSUME NEW c \in Command, NEW d \in Seq(Doings), Program(c) = Steps(d, c),
         c.op # "issafe", Len(Countdown(c.op)) = Len(d) + 2,
         \A n \in 1..Len(d) : d[n] = Countdown(c.op)[Len(d) - n + 1]
  PROVE  /\ Program(c) \in Seq(Step) /\ Len(Program(c)) = Len(Countdown(c.op)) - 2
         /\ \A n \in 1..Len(Program(c)) :
              /\ Program(c)[n].do = Countdown(c.op)[Len(Program(c)) - n + 1]
              /\ Program(c)[n].i = IF c.op = "issafe" THEN n ELSE c.i
BY StepsAre

(* What a command does, counted from the end. *)
LEMMA ProgramIs ==
  ASSUME NEW c \in Command
  PROVE  /\ Program(c) \in Seq(Step) /\ Len(Program(c)) = Len(Countdown(c.op)) - 2
         /\ \A n \in 1..Len(Program(c)) :
              /\ Program(c)[n].do = Countdown(c.op)[Len(Program(c)) - n + 1]
              /\ Program(c)[n].i = IF c.op = "issafe" THEN n ELSE c.i
<1>1. CASE c.op = "istube"
  <2> DEFINE d == <<"standby">>
  <2>1. d \in Seq(Doings) /\ Program(c) = Steps(d, c)
    BY <1>1 DEF Doings, Program
  <2>2. Len(Countdown(c.op)) = Len(d) + 2
    BY <1>1 DEF Countdown
  <2>3. \A n \in 1..Len(d) : d[n] = Countdown(c.op)[Len(d) - n + 1]
    BY <1>1 DEF Countdown
  <2> HIDE DEF d
  <2> QED
    BY <1>1, <2>1, <2>2, <2>3, Mirrored
<1>2. CASE c.op = "hv"
  <2> DEFINE d == <<"standby", "obey", "hv">>
  <2>1. d \in Seq(Doings) /\ Program(c) = Steps(d, c)
    BY <1>2 DEF Doings, Program
  <2>2. Len(Countdown(c.op)) = Len(d) + 2
    BY <1>2 DEF Countdown
  <2>3. \A n \in 1..Len(d) : d[n] = Countdown(c.op)[Len(d) - n + 1]
    BY <1>2 DEF Countdown
  <2> HIDE DEF d
  <2> QED
    BY <1>2, <2>1, <2>2, <2>3, Mirrored
<1>3. CASE c.op = "setv"
  <2> DEFINE d == <<"standby", "limit", "obey", "voltage">>
  <2>1. d \in Seq(Doings) /\ Program(c) = Steps(d, c)
    BY <1>3 DEF Doings, Program
  <2>2. Len(Countdown(c.op)) = Len(d) + 2
    BY <1>3 DEF Countdown
  <2>3. \A n \in 1..Len(d) : d[n] = Countdown(c.op)[Len(d) - n + 1]
    BY <1>3 DEF Countdown
  <2> HIDE DEF d
  <2> QED
    BY <1>3, <2>1, <2>2, <2>3, Mirrored
<1>4. CASE c.op = "setc"
  <2> DEFINE d == <<"standby", "limit", "obey", "current">>
  <2>1. d \in Seq(Doings) /\ Program(c) = Steps(d, c)
    BY <1>4 DEF Doings, Program
  <2>2. Len(Countdown(c.op)) = Len(d) + 2
    BY <1>4 DEF Countdown
  <2>3. \A n \in 1..Len(d) : d[n] = Countdown(c.op)[Len(d) - n + 1]
    BY <1>4 DEF Countdown
  <2> HIDE DEF d
  <2> QED
    BY <1>4, <2>1, <2>2, <2>3, Mirrored
<1>5. CASE c.op = "setvc"
  <2> DEFINE d == <<"standby", "obey", "both">>
  <2>1. d \in Seq(Doings) /\ Program(c) = Steps(d, c)
    BY <1>5 DEF Doings, Program
  <2>2. Len(Countdown(c.op)) = Len(d) + 2
    BY <1>5 DEF Countdown
  <2>3. \A n \in 1..Len(d) : d[n] = Countdown(c.op)[Len(d) - n + 1]
    BY <1>5 DEF Countdown
  <2> HIDE DEF d
  <2> QED
    BY <1>5, <2>1, <2>2, <2>3, Mirrored
<1>6. CASE c.op = "shutter"
  <2> DEFINE d == <<"standby", "connected", "obey", "state">>
  <2>1. d \in Seq(Doings) /\ Program(c) = Steps(d, c)
    BY <1>6 DEF Doings, Program
  <2>2. Len(Countdown(c.op)) = Len(d) + 2
    BY <1>6 DEF Countdown
  <2>3. \A n \in 1..Len(d) : d[n] = Countdown(c.op)[Len(d) - n + 1]
    BY <1>6 DEF Countdown
  <2> HIDE DEF d
  <2> QED
    BY <1>6, <2>1, <2>2, <2>3, Mirrored
<1>7. CASE c.op = "warmup"
  <2> DEFINE d == <<"standby", "obey", "standby", "hv_on", "hv">>
  <2>1. d \in Seq(Doings) /\ Program(c) = Steps(d, c)
    BY <1>7 DEF Doings, Program
  <2>2. Len(Countdown(c.op)) = Len(d) + 2
    BY <1>7 DEF Countdown
  <2>3. \A n \in 1..Len(d) : d[n] = Countdown(c.op)[Len(d) - n + 1]
    BY <1>7 DEF Countdown
  <2> HIDE DEF d
  <2> QED
    BY <1>7, <2>1, <2>2, <2>3, Mirrored
<1>8. CASE c.op = "issafe"
  <2>1. Program(c) = [i \in 1..4 |-> [do |-> "state", i |-> i]]
    BY <1>8 DEF Program, Shutters
  <2>2. Program(c) \in Seq(Step) /\ Len(Program(c)) = 4
    BY <2>1 DEF Step, Doings, Shutters
  <2>3. Countdown(c.op) = <<"state", "state", "state", "state", "status", "identify">>
    BY <1>8 DEF Countdown
  <2> QED
    BY <1>8, <2>1, <2>2, <2>3
<1> QED
  BY <1>1, <1>2, <1>3, <1>4, <1>5, <1>6, <1>7, <1>8 DEF Command, Operations

(* The doing x of a command op, m of n before its end: the orders come after *)
(* the first look at the status, the look at the limit right before the      *)
(* order, the reading back last.                                             *)
InOrder(op, m, n, x) ==
  /\ x \in {"obey", "hv_on"} => m > 1 /\ m + 2 < n /\ op \notin {"istube", "issafe"}
  /\ x = "standby" => op # "issafe"
  /\ op \notin {"istube", "issafe"} /\ m + 2 = n => x = "standby"
  /\ x = "limit" => op \in {"setv", "setc"}
  /\ op \in {"setv", "setc"} => (x = "obey" <=> m = 2) /\ (x = "limit" <=> m = 3)
  /\ op = "issafe" => (x = "state" <=> m <= 4) /\ x \notin {"hv", "standby"}
  /\ m = 1 /\ op \in {"hv", "warmup"} => x = "hv"
  /\ m = 1 /\ op = "setv" => x = "voltage"
  /\ m = 1 /\ op = "setc" => x = "current"
  /\ m = 1 /\ op = "setvc" => x = "both"
  /\ m = 1 /\ op = "shutter" => x = "state"

(* Each entry of a countdown is followed by the next. *)
LEMMA Sequel ==
  ASSUME NEW op \in Operations, NEW m \in 1..Len(Countdown(op))
  PROVE  InOrder(op, m, Len(Countdown(op)), Countdown(op)[m])
<1>1. CASE op = "istube"
  BY <1>1 DEF Countdown, InOrder
<1>2. CASE op = "hv"
  BY <1>2 DEF Countdown, InOrder
<1>3. CASE op = "setv"
  BY <1>3 DEF Countdown, InOrder
<1>4. CASE op = "setc"
  BY <1>4 DEF Countdown, InOrder
<1>5. CASE op = "setvc"
  BY <1>5 DEF Countdown, InOrder
<1>6. CASE op = "shutter"
  BY <1>6 DEF Countdown, InOrder
<1>7. CASE op = "warmup"
  BY <1>7 DEF Countdown, InOrder
<1>8. CASE op = "issafe"
  BY <1>8 DEF Countdown, InOrder
<1> QED
  BY <1>1, <1>2, <1>3, <1>4, <1>5, <1>6, <1>7, <1>8 DEF Operations

(* What is in hand while a command is in progress. *)
LEMMA HeadIs ==
  ASSUME TypeOK, OnPlan, pc # "idle"
  PROVE  LET s == Head(todo)
         IN  /\ todo # << >> /\ s = todo[1] /\ s \in Step
             /\ Len(todo) \in 1..Len(Countdown(cmd.op))
             /\ Tail(todo) \in Seq(Step) /\ Len(Tail(todo)) = Len(todo) - 1
             /\ \A n \in 1..(Len(todo) - 1) : Tail(todo)[n] = todo[n + 1]
             /\ cmd \in Command /\ cmd.op \in Operations
             /\ \/ /\ Planned(s, Len(todo))
                   /\ InOrder(cmd.op, Len(todo), Len(Countdown(cmd.op)), s.do)
                \/ LastLook /\ s.do = "hv"
<1>1. todo \in Seq(Step) /\ todo # << >> /\ cmd \in Command /\ cmd.op \in Operations
  BY DEF TypeOK, Command
<1>2. /\ Head(todo) = todo[1] /\ Head(todo) \in Step
      /\ Tail(todo) \in Seq(Step) /\ Len(Tail(todo)) = Len(todo) - 1
      /\ \A n \in 1..(Len(todo) - 1) : Tail(todo)[n] = todo[n + 1]
  BY <1>1
<1>3. Len(todo) \in 1..Len(Countdown(cmd.op))
  BY DEF OnPlan
<1>4. Planned(todo[1], Len(todo)) \/ LastLook
  BY <1>1, <1>3, CountdownIs DEF OnPlan
<1>5. ASSUME Planned(todo[1], Len(todo))
      PROVE  InOrder(cmd.op, Len(todo), Len(Countdown(cmd.op)), todo[1].do)
  BY <1>1, <1>3, <1>5, Sequel DEF Planned
<1>6. LastLook => todo[1].do = "hv"
  BY DEF LastLook
<1> QED
  BY <1>1, <1>2, <1>3, <1>4, <1>5, <1>6

(* Going on to the next step keeps to the plan. *)
LEMMA Advance ==
  ASSUME TypeOK, OnPlan, pc # "idle", Tail(todo) # << >>, todo' = Tail(todo), cmd' = cmd
  PROVE  OnPlan'
<1>1. /\ todo \in Seq(Step) /\ Len(todo) \in 1..Len(Countdown(cmd.op))
      /\ Len(todo') = Len(todo) - 1 /\ todo' \in Seq(Step)
      /\ \A n \in 1..(Len(todo) - 1) : todo'[n] = todo[n + 1]
      /\ cmd.op \in Operations
  BY HeadIs DEF TypeOK
<1>2. Len(todo') >= 1
  BY <1>1
<1>3. \A n \in 1..Len(todo) : Planned(todo[n], Len(todo) - n + 1)
  BY <1>1, <1>2 DEF OnPlan, LastLook
<1>4. \A n \in 1..Len(todo') :
        Planned(todo'[n], Len(todo') - n + 1) <=> Planned(todo[n + 1], Len(todo) - (n + 1) + 1)
  BY <1>1
<1>5. \A n \in 1..Len(todo') : Planned(todo'[n], Len(todo') - n + 1)
  BY <1>1, <1>2, <1>3, <1>4
<1>6. \A n \in 1..Len(todo') : Planned(todo[n], Len(todo) - n + 1)'
  BY <1>5 DEF Planned
<1> QED
  BY <1>1, <1>2, <1>6, CountdownIs DEF OnPlan

(* A sequence without a tail has one element. *)
LEMMA LastOne ==
  ASSUME NEW q \in Seq(Step), q # << >>, Tail(q) = << >>
  PROVE  Len(q) = 1
<1> DEFINE n == Len(q)
           m == Len(Tail(q))
<1>1. m = n - 1 /\ n \in Nat
  BY HeadTailProperties
<1>2. m = 0
  BY EmptySeq
<1> HIDE DEF n, m
<1>3. n = 1
  BY <1>1, <1>2
<1> QED
  BY <1>3 DEF n

(* The codes of two shutters share a number and come apart again. *)
LEMMA Halves ==
  ASSUME NEW a \in {0, 5, 8, 12}, NEW b \in {0, 5, 8, 12}
  PROVE  /\ a * 16 + b \in Nat
         /\ ((a * 16 + b) \div 16) % 16 = a /\ (a * 16 + b) % 16 = b
OBVIOUS

(* Volts and kilovolts of the same value. *)
LEMMA Thousands ==
  ASSUME NEW n \in Nat
  PROVE  n * 1000 \in Nat /\ (n * 1000) \div 1000 = n
OBVIOUS

(* The code of a shutter tells whether it is shut, open or in between. *)
LEMMA ShutterCodes ==
  ASSUME TypeOK, Dark, NEW i \in Shutters
  PROVE  /\ shutterCode(i) \in {0, 5, 8, 12}
         /\ shutterCode(i) \in {0, 5} => shutter[i] = "off"
         /\ shutterCode(i) = 12 => shutter[i] = "on"
<1>1. shutter[i] \in {"off", "opening", "on", "closing"}
  BY DEF TypeOK
<1>2. CASE i \notin Connected
  BY <1>1, <1>2 DEF Dark, shutterCode, SHUTTER_NOT_CONNECTED
<1>3. CASE i \in Connected /\ shutter[i] = "off"
  BY <1>3 DEF shutterCode
<1>4. CASE i \in Connected /\ shutter[i] = "on"
  BY <1>4 DEF shutterCode, SHUTTER_ON_VALUE
<1>5. CASE i \in Connected /\ shutter[i] \in {"opening", "closing"}
  BY <1>5 DEF shutterCode, SHUTTER_TRANSITION_VAL
<1> QED
  BY <1>1, <1>2, <1>3, <1>4, <1>5

(* What the status of a shutter says of it. *)
LEMMA StatusIs ==
  ASSUME TypeOK, Dark, NEW i \in Shutters
  PROVE  answer(register(i)).first \in Nat /\ status(i, answer(register(i)).first) = shutterCode(i)
<1>1. /\ shutterCode(1) \in {0, 5, 8, 12} /\ shutterCode(2) \in {0, 5, 8, 12}
      /\ shutterCode(3) \in {0, 5, 8, 12} /\ shutterCode(4) \in {0, 5, 8, 12}
  BY ShutterCodes DEF Shutters
<1>2. answer("sr:3").first = shutterCode(1) * 16 + shutterCode(2)
  BY DEF answer
<1>3. answer("sr:4").first = shutterCode(3) * 16 + shutterCode(4)
  BY DEF answer
<1>4. CASE i = 1
  BY <1>1, <1>2, <1>4, Halves DEF register, status
<1>5. CASE i = 2
  BY <1>1, <1>2, <1>5, Halves DEF register, status
<1>6. CASE i = 3
  BY <1>1, <1>3, <1>6, Halves DEF register, status
<1>7. CASE i = 4
  BY <1>1, <1>3, <1>7, Halves DEF register, status
<1> QED
  BY <1>4, <1>5, <1>6, <1>7 DEF Shutters

(* The server and the tube start with the invariant. *)
LEMMA InitInv == ASSUME Init PROVE TInv
<1>1. /\ MinVoltage \in Nat /\ MinCurrent \in Nat /\ MinVoltage * MinCurrent <= MaxPower
      /\ 0 \in 0..(MaxAttempts - 1)
  BY TubeAssumption DEF TubeAssumption
<1>2. NoCommand \in Command
  BY <1>1 DEF NoCommand, Command, Operations, Shutters
<1>3. TypeOK
  <2>1. todo \in Seq(Step) /\ outbox \in Seq(Answers) /\ buffer \in Seq(Answers)
    BY DEF Init
  <2>2. /\ shutter \in [Shutters -> {"off", "opening", "on", "closing"}]
        /\ case \in Cases /\ cmd \in Command
    BY <1>2 DEF Init
  <2> QED
    BY <1>1, <2>1, <2>2 DEF Init, TypeOK
<1>4. OnPlan /\ NoReplyYet /\ Looked /\ Dark /\ WithinLimit /\ ShutSoFar
  BY DEF Init, OnPlan, NoReplyYet, Looked, Dark, WithinLimit, ShutSoFar
<1>5. OneAnswer
  BY DEF Init, OneAnswer, Silent
<1>6. PowerBounded /\ PromptYesMeansSafe /\ OkMeansDone /\ OffMeansOff
  BY <1>1 DEF Init, PowerBounded, PromptYesMeansSafe, YesMeansSafe, OkMeansDone, OffMeansOff
<1> QED
  BY <1>3, <1>4, <1>5, <1>6 DEF TInv

(* What a command begins with, when the tube has to be found first and when not. *)
LEMMA Begins ==
  ASSUME NEW c \in Command, NEW t,
         t = Program(c) \/ t = Steps(<<"identify", "status">>, c) \o Program(c)
  PROVE  /\ t \in Seq(Step) /\ t # << >>
         /\ Len(t) \in 1..Len(Countdown(c.op)) /\ Len(t) + 2 >= Len(Countdown(c.op))
         /\ Len(Countdown(c.op)) \in 3..7
         /\ c.op \in {"setv", "setc", "issafe"} => Len(t) >= 4
         /\ \A n \in 1..Len(t) :
              /\ t[n].do = Countdown(c.op)[Len(t) - n + 1]
              /\ t[n].i = IF c.op = "issafe" /\ Len(t) - n + 1 <= 4
                          THEN 5 - (Len(t) - n + 1) ELSE c.i
<1> DEFINE first == Steps(<<"identify", "status">>, c)
           p == Program(c)
           d == Countdown(c.op)
<1>1. /\ first \in Seq(Step) /\ Len(first) = 2
      /\ first[1].do = "identify" /\ first[1].i = c.i
      /\ first[2].do = "status" /\ first[2].i = c.i
  BY DEF Steps, Step, Command, Doings
<1>2. /\ p \in Seq(Step) /\ Len(p) = Len(d) - 2
      /\ \A n \in 1..Len(p) :
           /\ p[n].do = d[Len(p) - n + 1]
           /\ p[n].i = IF c.op = "issafe" THEN n ELSE c.i
  BY ProgramIs
<1>3. /\ Len(d) \in 3..7 /\ d[Len(d)] = "identify" /\ d[Len(d) - 1] = "status"
  BY CountdownIs DEF Command
<1>4. c.op \in {"setv", "setc", "issafe"} => Len(d) = 6
  BY DEF Countdown
<1> HIDE DEF first, p, d
<1>5. Len(p) \in 1..5 /\ Len(p) = Len(d) - 2
  <2>1. Len(p) = Len(d) - 2 /\ Len(d) \in 3..7
    BY <1>2, <1>3
  <2> DEFINE a == Len(p)
             b == Len(d)
  <2> HIDE DEF a, b
  <2>2. a = b - 2 /\ b \in 3..7
    BY <2>1 DEF a, b
  <2>3. a \in 1..5
    BY <2>2
  <2> QED
    BY <2>1, <2>3 DEF a
<1>6. c.op \in {"setv", "setc", "issafe"} => Len(p) = 4
  BY <1>3, <1>4, <1>5
<1>65. c.op = "issafe" => Len(p) = 4
  BY <1>6
<1>7. CASE t = p
  <2>1. t \in Seq(Step) /\ Len(t) = Len(p)
    BY <1>2, <1>7
  <2>2. ASSUME NEW n \in 1..Len(t)
        PROVE  /\ t[n].do = d[Len(t) - n + 1]
               /\ t[n].i = IF c.op = "issafe" /\ Len(t) - n + 1 <= 4
                           THEN 5 - (Len(t) - n + 1) ELSE c.i
    <3>1. t[n].do = d[Len(t) - n + 1] /\ t[n].i = IF c.op = "issafe" THEN n ELSE c.i
      BY <1>2, <1>7, <2>1
    <3>2. ASSUME c.op = "issafe" PROVE Len(t) - n + 1 <= 4 /\ 5 - (Len(t) - n + 1) = n
      <4>1. Len(t) = 4
        BY <1>65, <2>1, <3>2
      <4> QED
        BY <4>1
    <3> QED
      BY <3>1, <3>2
  <2>3. /\ Len(t) \in 1..Len(d) /\ Len(t) + 2 >= Len(d)
        /\ c.op \in {"setv", "setc", "issafe"} => Len(t) >= 4
    BY <1>3, <1>5, <1>6, <2>1
  <2>4. t # << >>
    BY <2>1, <2>3
  <2> QED
    BY <1>3, <2>1, <2>2, <2>3, <2>4 DEF d
<1>8. CASE t = first \o p
  <2>1. /\ t \in Seq(Step) /\ Len(t) = Len(p) + 2
        /\ \A n \in 1..Len(t) : t[n] = IF n <= 2 THEN first[n] ELSE p[n - 2]
    <3>1. first \in Seq(Step) /\ p \in Seq(Step) /\ Len(first) = 2
      BY <1>1, <1>2
    <3>2. t \in Seq(Step) /\ Len(t) = Len(first) + Len(p)
      BY <1>8, <3>1, ConcatProperties
    <3>3. \A n \in 1..(Len(first) + Len(p)) :
            t[n] = IF n <= Len(first) THEN first[n] ELSE p[n - Len(first)]
      BY <1>8, <3>1, ConcatProperties
    <3> QED
      BY <1>5, <3>1, <3>2, <3>3
  <2>2. ASSUME NEW n \in 1..Len(t)
        PROVE  /\ t[n].do = d[Len(t) - n + 1]
               /\ t[n].i = IF c.op = "issafe" /\ Len(t) - n + 1 <= 4
                           THEN 5 - (Len(t) - n + 1) ELSE c.i
    <3>1. CASE n = 1
      <4>1. t[n] = first[1] /\ Len(t) - n + 1 = Len(d)
        BY <1>5, <2>1, <3>1
      <4>2. c.op = "issafe" => ~(Len(t) - n + 1 <= 4)
        BY <1>5, <1>65, <2>1, <3>1
      <4> QED
        BY <1>1, <1>3, <4>1, <4>2
    <3>2. CASE n = 2
      <4>1. t[n] = first[2] /\ Len(t) - n + 1 = Len(d) - 1
        BY <1>5, <2>1, <3>2
      <4>2. c.op = "issafe" => ~(Len(t) - n + 1 <= 4)
        BY <1>5, <1>65, <2>1, <3>2
      <4> QED
        BY <1>1, <1>3, <4>1, <4>2
    <3>3. CASE n >= 3
      <4>1. t[n] = p[n - 2] /\ n - 2 \in 1..Len(p) /\ Len(t) - n + 1 = Len(p) - (n - 2) + 1
        BY <1>5, <2>1, <3>3
      <4>2. /\ t[n].do = d[Len(t) - n + 1]
            /\ t[n].i = IF c.op = "issafe" THEN n - 2 ELSE c.i
        BY <1>2, <4>1
      <4>3. ASSUME c.op = "issafe" PROVE Len(t) - n + 1 <= 4 /\ 5 - (Len(t) - n + 1) = n - 2
        <5>1. Len(p) = 4
          BY <1>65, <4>3
        <5>2. Len(t) = 6
          BY <2>1, <5>1
        <5> QED
          BY <3>3, <5>2
      <4> QED
        BY <4>2, <4>3
    <3> QED
      BY <2>1, <3>1, <3>2, <3>3
  <2>3. /\ Len(t) \in 1..Len(d) /\ Len(t) + 2 >= Len(d)
        /\ c.op \in {"setv", "setc", "issafe"} => Len(t) >= 4
    BY <1>3, <1>5, <1>6, <2>1
  <2>4. t # << >>
    BY <2>1, <2>3
  <2> QED
    BY <1>3, <2>1, <2>2, <2>3, <2>4 DEF d
<1> QED
  BY <1>7, <1>8 DEF first, p

(* A command received only fixes its steps. *)
LEMMA ReceiveKeeps == ASSUME TInv, Receive PROVE TInv'
<1>1. /\ pc = "idle" /\ pc' = "write" /\ reply' = "none" /\ turned' = FALSE /\ attempts' = 0
      /\ buffer' = (IF connected THEN buffer ELSE << >>)
      /\ UNCHANGED <<case, power, hv, shutter, voltage, current, cold, outbox, connected>>
  BY DEF Receive, generator
<1>2. cmd' \in Command
  <2>1. case \in Case /\ cmd' \in case.commands
    BY TubeAssumption DEF TubeAssumption, TInv, TypeOK, Receive
  <2> QED
    BY <2>1 DEF Case
<1>3. \/ todo' = Program(cmd')
      \/ todo' = Steps(<<"identify", "status">>, cmd') \o Program(cmd')
  <2>1. Program(cmd') \in Seq(Step)
    BY <1>2, ProgramIs
  <2>2. todo' = (IF connected THEN << >> ELSE Steps(<<"identify", "status">>, cmd'))
                  \o Program(cmd')
    BY DEF Receive
  <2>3. << >> \o Program(cmd') = Program(cmd')
    BY <2>1, ConcatEmptySeq
  <2> QED
    BY <2>2, <2>3
<1>4. /\ todo' \in Seq(Step) /\ todo' # << >>
      /\ Len(todo') \in 1..Len(Countdown(cmd'.op)) /\ Len(todo') + 2 >= Len(Countdown(cmd'.op))
      /\ Len(Countdown(cmd'.op)) \in 3..7
      /\ cmd'.op \in {"setv", "setc", "issafe"} => Len(todo') >= 4
      /\ \A n \in 1..Len(todo') :
           /\ todo'[n].do = Countdown(cmd'.op)[Len(todo') - n + 1]
           /\ todo'[n].i = IF cmd'.op = "issafe" /\ Len(todo') - n + 1 <= 4
                           THEN 5 - (Len(todo') - n + 1) ELSE cmd'.i
  BY <1>2, <1>3, Begins
<1>8. TypeOK'
  <2>1. buffer' \in Seq(Answers) /\ attempts' \in 0..(MaxAttempts - 1)
    BY <1>1, TubeAssumption DEF TubeAssumption, TInv, TypeOK
  <2> QED
    BY <1>1, <1>2, <1>4, <2>1 DEF TInv, TypeOK
<1>9. OnPlan'
  BY <1>4 DEF OnPlan, Planned
<1>10. NoReplyYet' /\ Dark' /\ Looked'
  <2>1. ~(Len(todo') + 2 < Len(Countdown(cmd'.op)))
    BY <1>4
  <2> QED
    BY <1>1, <2>1 DEF TInv, NoReplyYet, Dark, Looked
<1>11. OneAnswer'
  BY <1>1 DEF TInv, OneAnswer, Prompt, Silent
<1>12. WithinLimit'
  <2>1. ASSUME Len(todo') = 2 PROVE cmd'.op \notin {"setv", "setc"}
    BY <1>4, <2>1
  <2> QED
    BY <2>1 DEF WithinLimit
<1>13. ShutSoFar'
  <2>1. ASSUME cmd'.op = "issafe", NEW j \in Shutters PROVE ~(j + Len(todo') < 5)
    BY <1>4, <2>1 DEF Shutters
  <2> QED
    BY <2>1 DEF ShutSoFar
<1>14. PowerBounded' /\ PromptYesMeansSafe' /\ OkMeansDone' /\ OffMeansOff'
  BY <1>1 DEF TInv, PowerBounded, Prompt, PromptYesMeansSafe, YesMeansSafe, OkMeansDone, OffMeansOff
<1> QED
  BY <1>8, <1>9, <1>10, <1>11, <1>12, <1>13, <1>14 DEF TInv

(* Nothing is said of the command before it ends. *)
LEMMA NothingSaid ==
  ASSUME reply' = "none"
  PROVE  PromptYesMeansSafe' /\ OkMeansDone' /\ OffMeansOff'
BY DEF PromptYesMeansSafe, YesMeansSafe, OkMeansDone, OffMeansOff

(* What the tube makes of an order. *)
LEMMA OrderDoes ==
  ASSUME TypeOK, Valid(cmd), Obey(cmd) \/ HvOn
  PROVE  /\ hv' \in {"off", "rising", "on"} /\ cold' \in BOOLEAN /\ power' = power
         /\ shutter' \in [Shutters -> {"off", "opening", "on", "closing"}]
         /\ \A i \in Shutters \ Connected : shutter'[i] = shutter[i]
         /\ \/ voltage' = voltage
            \/ Obey(cmd) /\ cmd.op \in {"setv", "setvc"} /\ voltage' = cmd.v /\ cmd.v \in Nat
         /\ \/ current' = current
            \/ Obey(cmd) /\ cmd.op \in {"setc", "setvc"} /\ current' = cmd.c /\ cmd.c \in Nat
<1>1. cmd.op \in {"setv", "setvc"} => cmd.v \in Nat
  BY TubeAssumption DEF TubeAssumption, Valid
<1>2. cmd.op \in {"setc", "setvc"} => cmd.c \in Nat
  BY TubeAssumption DEF TubeAssumption, Valid
<1>3. CASE HvOn
  BY <1>3 DEF HvOn, TypeOK
<1>4. CASE Obey(cmd)
  <2>1. hv' \in {"off", "rising", "on"} /\ cold' \in BOOLEAN /\ power' = power
    BY <1>4 DEF Obey, TypeOK
  <2>2. /\ shutter' \in [Shutters -> {"off", "opening", "on", "closing"}]
        /\ \A i \in Shutters \ Connected : shutter'[i] = shutter[i]
    BY <1>4 DEF Obey, TypeOK
  <2>3. /\ \/ voltage' = voltage
           \/ cmd.op \in {"setv", "setvc"} /\ voltage' = cmd.v /\ cmd.v \in Nat
        /\ \/ current' = current
           \/ cmd.op \in {"setc", "setvc"} /\ current' = cmd.c /\ cmd.c \in Nat
    BY <1>1, <1>2, <1>4 DEF Obey
  <2> QED
    BY <1>4, <2>1, <2>2, <2>3
<1> QED
  BY <1>3, <1>4

(* An order is sent, which the generator obeys as far as it can. *)
LEMMA OrderKeeps == ASSUME TInv, Order PROVE TInv'
<1> DEFINE s == Head(todo)
           m == Len(todo)
           n == Len(Countdown(cmd.op))
<1>1. /\ TypeOK /\ OnPlan /\ pc = "write" /\ s.do \in {"obey", "hv_on"}
      /\ IF s.do = "obey" THEN Obey(cmd) ELSE HvOn
      /\ todo' = Tail(todo) /\ pc' = pc /\ reply' = reply /\ attempts' = attempts
      /\ UNCHANGED <<case, outbox, buffer, connected, cmd, turned>>
  BY DEF TInv, Order, line
<1>2. /\ m \in 1..n /\ Tail(todo) \in Seq(Step) /\ Len(Tail(todo)) = m - 1
      /\ cmd \in Command /\ InOrder(cmd.op, m, n, s.do)
  BY <1>1, HeadIs
<1>3. /\ m > 1 /\ m + 2 < n /\ cmd.op \notin {"istube", "issafe"}
      /\ cmd.op \in {"setv", "setc"} => m # 3 /\ (s.do = "obey" => m = 2)
  BY <1>1, <1>2 DEF InOrder
<1>4. Tail(todo) # << >>
  <2> DEFINE t == Tail(todo)
  <2>1. Len(t) = m - 1 /\ m \in 1..n /\ m > 1
    BY <1>2, <1>3
  <2> HIDE DEF t, m, n
  <2>2. Len(t) # 0
    BY <2>1
  <2> QED
    BY <2>2, EmptySeq DEF t
<1>5. Valid(cmd)
  BY <1>1, <1>3 DEF TInv, Looked
<1>6. reply' = "none"
  BY <1>1 DEF TInv, NoReplyYet
<1>7. Obey(cmd) \/ HvOn
  BY <1>1
<1>8. TypeOK'
  <2>1. voltage' \in Nat /\ current' \in Nat
    BY <1>1, <1>5, <1>7, OrderDoes DEF TypeOK
  <2>2. /\ hv' \in {"off", "rising", "on"} /\ cold' \in BOOLEAN /\ power' = power
        /\ shutter' \in [Shutters -> {"off", "opening", "on", "closing"}]
    BY <1>1, <1>5, <1>7, OrderDoes
  <2> QED
    BY <1>1, <1>2, <1>4, <2>1, <2>2 DEF TypeOK
<1>9. OnPlan'
  BY <1>1, <1>4, Advance
<1>10. NoReplyYet' /\ Looked'
  BY <1>1, <1>5, <1>6 DEF NoReplyYet, Looked, Valid
<1>11. Dark'
  BY <1>1, <1>5, <1>7, OrderDoes DEF TInv, Dark
<1>12. OneAnswer'
  BY <1>1 DEF TInv, OneAnswer, Prompt, Silent
<1>13. WithinLimit'
  <2>1. Len(todo') = m - 1
    BY <1>1, <1>2
  <2>2. ASSUME Len(todo') = 2, cmd.op \in {"setv", "setc"} PROVE FALSE
    <3>1. m \in Nat
      BY <1>1 DEF TypeOK
    <3>2. m - 1 = 2
      BY <2>1, <2>2
    <3>3. m = 3
      BY <3>1, <3>2
    <3> QED
      BY <1>3, <2>2, <3>3
  <2> QED
    BY <1>1, <2>2 DEF WithinLimit
<1>14. ShutSoFar'
  BY <1>1, <1>3 DEF ShutSoFar
<1>15. PowerBounded'
  <2>1. Prompt' <=> Prompt
    BY <1>1 DEF Prompt
  <2>2. CASE voltage' = voltage /\ current' = current
    BY <2>1, <2>2 DEF TInv, PowerBounded
  <2>3. CASE s.do = "obey" /\ cmd.op = "setv"
    BY <1>1, <1>3, <2>1, <2>3 DEF TInv, PowerBounded, WithinLimit, Obey
  <2>4. CASE s.do = "obey" /\ cmd.op = "setc"
    <3>1. Prompt => cmd.c * voltage <= MaxPower
      BY <1>1, <1>3, <2>4 DEF TInv, WithinLimit
    <3>2. voltage' = voltage /\ (current' = current \/ current' = cmd.c)
      BY <1>1, <2>4 DEF Obey
    <3>3. voltage \in Nat /\ cmd.c \in Int
      BY <1>1 DEF TypeOK, Command
    <3>4. voltage * cmd.c = cmd.c * voltage
      BY <3>3
    <3> QED
      BY <2>1, <3>1, <3>2, <3>4 DEF TInv, PowerBounded
  <2>5. CASE s.do = "obey" /\ cmd.op = "setvc"
    <3>1. \/ voltage' = voltage /\ current' = current
          \/ voltage' = cmd.v /\ current' = cmd.c
      BY <1>1, <2>5 DEF Obey
    <3>2. cmd.v * cmd.c <= MaxPower
      BY <1>5, <2>5 DEF Valid
    <3> QED
      BY <2>1, <3>1, <3>2 DEF TInv, PowerBounded
  <2>6. CASE ~(s.do = "obey" /\ cmd.op \in {"setv", "setc", "setvc"})
    <3>1. voltage' = voltage /\ current' = current
      BY <1>1, <2>6 DEF Obey, HvOn
    <3> QED
      BY <2>2, <3>1
  <2> QED
    BY <2>3, <2>4, <2>5, <2>6
<1> QED
  BY <1>6, <1>8, <1>9, <1>10, <1>11, <1>12, <1>13, <1>14, <1>15, NothingSaid DEF TInv

(* What the tube answers is what is asked for. *)
LEMMA AnswerFits ==
  ASSUME TypeOK, Dark, OnPlan, pc # "idle", Head(todo).do \notin {"obey", "hv_on"}
  PROVE  answer(question(Head(todo))) \in Answers /\ Fits(answer(question(Head(todo))))
<1> DEFINE s == Head(todo)
           a == answer(question(s))
<1>1. /\ s \in Step /\ cmd.op \in Operations
      /\ s.do = "limit" => cmd.op \in {"setv", "setc"}
  BY HeadIs DEF InOrder, LastLook
<1>2. s.do \in Doings \ {"obey", "hv_on"} /\ s.i \in Shutters
  BY <1>1 DEF Step
<1>3. voltage \in Nat /\ current \in Nat /\ voltage * 1000 \in Nat /\ current * 1000 \in Nat
  BY DEF TypeOK
<1>4. CASE s.do = "identify"
  <2>1. question(s) = "id"
    BY <1>4 DEF question
  <2>2. a.first = -1 /\ a \in Answers
    BY <2>1 DEF answer, ModelResponse, Answers
  <2> QED
    BY <1>4, <2>2 DEF Fits, ModelResponse
<1>5. CASE s.do \in {"status", "standby"}
  <2>1. question(s) = "sr:12"
    BY <1>5 DEF question
  <2>2. a = answer("sr:12")
    BY <2>1
  <2>3. \E x \in {0, 76} : answer("sr:12") = [first |-> x, second |-> x]
    BY DEF answer, TUBE_STANDBY_VALUE
  <2>4. a.first \in {0, 76} /\ a \in Answers
    BY <2>2, <2>3 DEF Answers
  <2> QED
    BY <1>5, <2>4 DEF Fits
<1>6. CASE s.do = "hv"
  <2>1. a = [first |-> hvCode, second |-> hvCode]
    BY <1>6 DEF question, answer
  <2>2. /\ hvCode \in {0, 12, 64} /\ (hvCode = 0 => hv = "off") /\ (hvCode = 64 => hv = "on")
    BY DEF hvCode, TUBE_HV_ON, TypeOK
  <2> QED
    BY <1>6, <2>1, <2>2 DEF Fits, Answers, TUBE_HV_ON
<1>7. CASE s.do \in {"state", "connected"}
  <2>1. a = answer(register(s.i))
    BY <1>7 DEF question
  <2>2. a.first \in Nat /\ status(s.i, a.first) = shutterCode(s.i)
    BY <1>2, <2>1, StatusIs
  <2>3. a \in Answers
    <3>1. answer("sr:3") = [first |-> answer("sr:3").first, second |-> answer("sr:3").first]
      BY DEF answer
    <3>2. answer("sr:4") = [first |-> answer("sr:4").first, second |-> answer("sr:4").first]
      BY DEF answer
    <3>3. a = [first |-> a.first, second |-> a.first]
      BY <2>1, <3>1, <3>2 DEF register
    <3> QED
      BY <2>2, <3>3 DEF Answers
  <2>4. /\ shutterCode(s.i) \in {0, 5, 8, 12}
        /\ shutterCode(s.i) \in {0, 5} => shutter[s.i] = "off"
        /\ shutterCode(s.i) = 12 => shutter[s.i] = "on"
    BY <1>2, ShutterCodes
  <2> HIDE DEF a
  <2> QED
    BY <1>7, <2>2, <2>3, <2>4
       DEF Fits, SHUTTER_NOT_CONNECTED, SHUTTER_TRANSITION_VAL, SHUTTER_ON_VALUE, a
<1>8. CASE s.do = "voltage"
  <2>1. question(s) = "vn"
    BY <1>8 DEF question
  <2>2. a = [first |-> voltage * 1000, second |-> voltage * 1000]
    BY <2>1 DEF answer
  <2> QED
    BY <1>3, <1>8, <2>2 DEF Fits, Answers
<1>9. CASE s.do = "current"
  <2>1. question(s) = "cn"
    BY <1>9 DEF question
  <2>2. a = [first |-> current * 1000, second |-> current * 1000]
    BY <2>1 DEF answer
  <2> QED
    BY <1>3, <1>9, <2>2 DEF Fits, Answers
<1>10. CASE s.do = "both"
  <2>1. question(s) = "gn"
    BY <1>10 DEF question
  <2>2. a = [first |-> voltage * 1000, second |-> current * 1000]
    BY <2>1 DEF answer
  <2> QED
    BY <1>3, <1>10, <2>2 DEF Fits, Answers
<1>11. CASE s.do = "limit"
  <2> DEFINE x == IF cmd.op = "setv" THEN current ELSE voltage
  <2>1. question(s) = IF cmd.op = "setv" THEN "cn" ELSE "vn"
    BY <1>11 DEF question
  <2>2. a = [first |-> x * 1000, second |-> x * 1000]
    BY <2>1 DEF answer
  <2>3. x * 1000 \in Nat
    BY <1>3
  <2> QED
    BY <1>11, <2>2, <2>3 DEF Fits, Answers
<1> QED
  BY <1>2, <1>4, <1>5, <1>6, <1>7, <1>8, <1>9, <1>10, <1>11 DEF Doings

(* A question is sent, and answered unless the power is off. *)
LEMMA AskKeeps == ASSUME TInv, Ask PROVE TInv'
<1>1. /\ TypeOK /\ OnPlan /\ Dark /\ pc = "write" /\ pc' = "read"
      /\ Head(todo).do \notin {"obey", "hv_on"}
      /\ outbox' = IF power = "off" THEN outbox
                   ELSE Append(outbox, answer(question(Head(todo))))
      /\ UNCHANGED <<case, power, hv, shutter, voltage, current, cold, buffer, connected,
                     todo, attempts, cmd, reply, turned>>
  BY DEF TInv, Ask, generator
<1>2. answer(question(Head(todo))) \in Answers /\ Fits(answer(question(Head(todo))))
  BY <1>1, AnswerFits
<1>3. TypeOK'
  BY <1>1, <1>2 DEF TypeOK
<1>4. OnPlan' /\ NoReplyYet' /\ Looked' /\ Dark' /\ WithinLimit' /\ ShutSoFar'
  BY <1>1 DEF TInv, OnPlan, Planned, LastLook, NoReplyYet, Looked, Valid, Dark, WithinLimit,
              ShutSoFar, Prompt
<1>5. OneAnswer'
  <2>1. ASSUME Prompt PROVE Silent
    BY <1>1, <2>1 DEF TInv, OneAnswer
  <2>2. CASE power = "off"
    BY <1>1, <2>1, <2>2 DEF OneAnswer, Silent, Prompt
  <2>3. CASE power # "off"
    <3> DEFINE a == answer(question(Head(todo)))
    <3>1. a \in Answers /\ Fits(a)
      BY <1>2
    <3>2. outbox' = Append(outbox, a)
      BY <1>1, <2>3
    <3> HIDE DEF a
    <3>3. Prompt => Len(outbox') = 1 /\ Head(outbox') = a /\ buffer' = << >>
      BY <1>1, <2>1, <3>1, <3>2 DEF Silent
    <3>4. Fits(Head(outbox)) ' <=> Fits(Head(outbox'))
      BY <1>1 DEF Fits
    <3> QED
      BY <1>1, <3>1, <3>3, <3>4 DEF OneAnswer, Prompt
  <2> QED
    BY <2>2, <2>3
<1>6. PowerBounded' /\ PromptYesMeansSafe' /\ OkMeansDone' /\ OffMeansOff'
  BY <1>1 DEF TInv, PowerBounded, Prompt, PromptYesMeansSafe, YesMeansSafe, Radiates,
              OkMeansDone, OffMeansOff
<1> QED
  BY <1>3, <1>4, <1>5, <1>6 DEF TInv

(* The high voltage or a shutter reaches the state it was sent to. *)
LEMMA SettleKeeps == ASSUME TInv, Settle PROVE TInv'
<1>1. /\ TypeOK /\ Dark
      /\ UNCHANGED <<case, power, voltage, current, cold, outbox, buffer, connected, pc, todo,
                     attempts, cmd, reply, turned>>
  BY DEF TInv, Settle, line, server
<1>2. /\ hv' \in {"off", "rising", "on"}
      /\ hv \in {"off", "on"} => hv' = hv
      /\ hv' = "off" => hv = "off"
  BY <1>1 DEF Settle, TypeOK
<1>3. /\ shutter' \in [Shutters -> {"off", "opening", "on", "closing"}]
      /\ \A i \in Shutters :
           /\ shutter[i] \in {"off", "on"} => shutter'[i] = shutter[i]
           /\ shutter'[i] \in {"opening", "on"} => shutter[i] \in {"opening", "on"}
  <2>1. CASE shutter' = shutter
    BY <1>1, <2>1 DEF TypeOK
  <2>2. ASSUME NEW i \in Shutters, shutter[i] \in {"opening", "closing"},
               shutter' = [shutter EXCEPT ![i] = IF @ = "opening" THEN "on" ELSE "off"]
        PROVE  <1>3!:
    BY <1>1, <2>2 DEF TypeOK
  <2> QED
    BY <2>1, <2>2 DEF Settle
<1>4. TypeOK'
  BY <1>1, <1>2, <1>3 DEF TypeOK
<1>5. OnPlan' /\ NoReplyYet' /\ Looked' /\ WithinLimit' /\ PowerBounded' /\ OffMeansOff'
  BY <1>1 DEF TInv, OnPlan, Planned, LastLook, NoReplyYet, Looked, Valid, WithinLimit, Prompt,
              PowerBounded, OffMeansOff
<1>6. Dark' /\ ShutSoFar'
  BY <1>1, <1>3 DEF TInv, Dark, ShutSoFar, Prompt
<1>7. OneAnswer'
  <2>1. ASSUME NEW a, pc = "read", Fits(a) PROVE Fits(a)'
    <3>1. Head(todo) \in Step
      BY <1>1, <2>1, HeadIs DEF TInv
    <3>2. Head(todo).i \in Shutters
      BY <3>1 DEF Step
    <3> QED
      BY <1>1, <1>2, <1>3, <2>1, <3>2 DEF Fits
  <2> QED
    BY <1>1, <2>1 DEF TInv, OneAnswer, Prompt, Silent
<1>8. PromptYesMeansSafe'
  BY <1>1, <1>2, <1>3 DEF TInv, PromptYesMeansSafe, YesMeansSafe, Radiates, Prompt, TypeOK
<1>9. OkMeansDone'
  <2>1. cmd.i \in Shutters
    BY <1>1 DEF TypeOK, Command
  <2> QED
    BY <1>1, <1>2, <1>3, <2>1 DEF TInv, OkMeansDone, Prompt
<1> QED
  BY <1>4, <1>5, <1>6, <1>7, <1>8, <1>9 DEF TInv

(* The key is turned, to or from standby or off. *)
LEMMA TurnKeeps == ASSUME TInv, Turn PROVE TInv'
<1>1. /\ TypeOK /\ hv' = "off" /\ turned' = TRUE /\ cold' \in BOOLEAN
      /\ power' \in {"off", "standby", "on"}
      /\ shutter' = [i \in Shutters |-> "off"]
      /\ outbox' = IF power' = "off" THEN << >> ELSE outbox
      /\ UNCHANGED <<case, voltage, current, buffer, connected, pc, todo, attempts, cmd, reply>>
  BY DEF TInv, Turn
<1>2. TypeOK'
  BY <1>1 DEF TypeOK
<1>3. OnPlan' /\ NoReplyYet' /\ Looked' /\ WithinLimit' /\ PowerBounded'
  BY <1>1 DEF TInv, OnPlan, Planned, LastLook, NoReplyYet, Looked, Valid, WithinLimit, Prompt,
              PowerBounded
<1>4. \A i \in Shutters : shutter'[i] = "off"
  BY <1>1
<1>5. Dark' /\ ShutSoFar'
  BY <1>1, <1>4 DEF Dark, ShutSoFar, Prompt
<1>6. OneAnswer'
  <2>1. ASSUME NEW a, pc = "read", Fits(a) PROVE Fits(a)'
    <3>1. Head(todo) \in Step
      BY <1>1, <2>1, HeadIs DEF TInv
    <3>2. Head(todo).i \in Shutters
      BY <3>1 DEF Step
    <3> QED
      BY <1>1, <1>4, <2>1, <3>2 DEF Fits
  <2> QED
    BY <1>1, <2>1 DEF TInv, OneAnswer, Prompt, Silent
<1>7. PromptYesMeansSafe' /\ OkMeansDone' /\ OffMeansOff'
  BY <1>1 DEF PromptYesMeansSafe, YesMeansSafe, Radiates, OkMeansDone, OffMeansOff
<1> QED
  BY <1>2, <1>3, <1>5, <1>6, <1>7 DEF TInv

(* A reply reaches the port. *)
LEMMA DeliverKeeps == ASSUME TInv, Deliver PROVE TInv'
<1>1. /\ TypeOK /\ outbox # << >>
      /\ buffer' = Append(buffer, Head(outbox)) /\ outbox' = Tail(outbox)
      /\ UNCHANGED <<case, power, hv, shutter, voltage, current, cold, connected, pc, todo,
                     attempts, cmd, reply, turned>>
  BY DEF TInv, Deliver, generator, server
<1>2. TypeOK'
  BY <1>1 DEF TypeOK
<1>3. OnPlan' /\ NoReplyYet' /\ Looked' /\ WithinLimit' /\ PowerBounded' /\ Dark' /\ ShutSoFar'
  BY <1>1 DEF TInv, OnPlan, Planned, LastLook, NoReplyYet, Looked, Valid, WithinLimit, Prompt,
              PowerBounded, Dark, ShutSoFar
<1>4. OneAnswer'
  <2>1. ASSUME Prompt
        PROVE  pc = "read" /\ Len(outbox) = 1 /\ buffer = << >> /\ Fits(Head(outbox))
    BY <1>1, <2>1 DEF TInv, OneAnswer, Silent
  <2>2. ASSUME Prompt PROVE outbox' = << >> /\ Len(buffer') = 1 /\ Head(buffer') = Head(outbox)
    <3>1. Head(outbox) \in Answers
      BY <1>1 DEF TypeOK
    <3> QED
      BY <1>1, <2>1, <2>2, <3>1 DEF TypeOK
  <2>3. ASSUME NEW a, Fits(a) PROVE Fits(a)'
    BY <1>1, <2>3 DEF Fits
  <2> QED
    BY <1>1, <2>1, <2>2, <2>3 DEF OneAnswer, Prompt
<1>5. PromptYesMeansSafe' /\ OkMeansDone' /\ OffMeansOff'
  BY <1>1 DEF TInv, PromptYesMeansSafe, YesMeansSafe, Radiates, OkMeansDone, OffMeansOff, Prompt
<1> QED
  BY <1>2, <1>3, <1>4, <1>5 DEF TInv

(* The ways a read can go on.  What all of them leave alone; *)
Frame ==
  /\ UNCHANGED <<case, power, hv, shutter, voltage, current, cold, cmd, turned>>
  /\ pc = "read" /\ connected' \in BOOLEAN
  /\ attempts' \in 0..(MaxAttempts - 1)
  /\ outbox' \in Seq(Answers) /\ buffer' \in Seq(Answers) /\ (Prompt => Silent')

(* the command ends; *)
LEMMA EndKeeps ==
  ASSUME TInv, Frame, pc' = "idle", todo' = << >>,
         reply' \in {"none", "ok", "yes", "no", "on", "off", "standby", "error", "tube_off"},
         PromptYesMeansSafe', OkMeansDone', OffMeansOff'
  PROVE  TInv'
<1>1. TypeOK'
  BY DEF TInv, TypeOK, Frame
<1>2. OnPlan' /\ NoReplyYet' /\ Looked' /\ WithinLimit' /\ ShutSoFar'
  BY DEF OnPlan, NoReplyYet, Looked, WithinLimit, ShutSoFar
<1>3. Dark' /\ OneAnswer' /\ PowerBounded'
  BY DEF TInv, Frame, Dark, OneAnswer, Prompt, PowerBounded
<1> QED
  BY <1>1, <1>2, <1>3 DEF TInv

(* or it goes on with a step that is in its order. *)
LEMMA WriteKeeps ==
  ASSUME TInv, Frame, pc' = "write", todo' \in Seq(Step), todo' # << >>, reply' = reply,
         OnPlan', Looked', WithinLimit', ShutSoFar'
  PROVE  TInv'
<1>1. TypeOK'
  BY DEF TInv, TypeOK, Frame
<1>2. reply' = "none"
  BY DEF TInv, Frame, NoReplyYet
<1>3. NoReplyYet' /\ Dark' /\ OneAnswer' /\ PowerBounded'
  BY <1>2 DEF TInv, Frame, NoReplyYet, Dark, OneAnswer, Prompt, PowerBounded
<1> QED
  BY <1>1, <1>2, <1>3, NothingSaid DEF TInv

(* The same step is tried again. *)
LEMMA AgainKeeps == ASSUME TInv, Frame, Again PROVE TInv'
<1>1. pc' = "write" /\ todo' = todo /\ reply' = reply /\ cmd' = cmd /\ case' = case
  BY DEF Again, Frame
<1>2. todo' \in Seq(Step) /\ todo' # << >>
  BY <1>1 DEF TInv, TypeOK, Frame
<1>3. OnPlan' /\ Looked' /\ WithinLimit' /\ ShutSoFar'
  BY <1>1 DEF TInv, Frame, OnPlan, Planned, LastLook, Looked, Valid, WithinLimit, Prompt, ShutSoFar
<1> QED
  BY <1>1, <1>2, <1>3, WriteKeeps

(* A tube that does not answer is taken to be off. *)
LEMMA TubeOffKeeps ==
  ASSUME TInv, Frame, TubeOff, Prompt => turned \/ power = "off"
  PROVE  TInv'
<1>1. /\ pc' = "idle" /\ todo' = << >> /\ reply' \in {"off", "tube_off"}
  BY DEF TubeOff, End
<1>2. PromptYesMeansSafe' /\ OkMeansDone'
  BY <1>1 DEF PromptYesMeansSafe, YesMeansSafe, OkMeansDone
<1>3. OffMeansOff'
  BY DEF Frame, OffMeansOff, Prompt
<1> QED
  BY <1>1, <1>2, <1>3, EndKeeps

(* What a wait in vain leads to. *)
LEMMA AttemptDoes ==
  ASSUME TypeOK, Attempt
  PROVE  (TubeOff \/ Again) /\ attempts' \in 0..(MaxAttempts - 1) /\ connected' \in BOOLEAN
<1>1. attempts \in 0..(MaxAttempts - 1) /\ MaxAttempts \in Nat \ {0} /\ connected \in BOOLEAN
  BY TubeAssumption DEF TubeAssumption, TypeOK
<1>2. CASE attempts + 1 = MaxAttempts
  <2>1. TubeOff
    BY <1>2 DEF Attempt
  <2>2. attempts' = 0 /\ connected' = FALSE
    BY <2>1 DEF TubeOff, End
  <2>3. 0 \in 0..(MaxAttempts - 1)
    BY <1>1
  <2> QED
    BY <2>1, <2>2, <2>3
<1>3. CASE attempts + 1 # MaxAttempts
  BY <1>1, <1>3 DEF Attempt, Again
<1> QED
  BY <1>2, <1>3

(* Waiting for a reply that does not come keeps the invariant. *)
LEMMA GiveUpKeeps == ASSUME TInv, GiveUp PROVE TInv'
<1>1. /\ TypeOK /\ pc = "read" /\ buffer = << >> /\ Attempt
      /\ Prompt => outbox = << >>
      /\ UNCHANGED <<case, power, hv, shutter, voltage, current, cold, outbox, buffer, cmd, turned>>
  BY DEF TInv, GiveUp, Prompt, generator, line
<1>2. Frame
  BY <1>1, AttemptDoes DEF Frame, TypeOK, Silent
<1>3. Prompt => turned \/ power = "off"
  BY <1>1 DEF TInv, OneAnswer
<1> QED
  BY <1>1, <1>2, <1>3, AttemptDoes, TubeOffKeeps, AgainKeeps

(* What is read from a prompt tube is the answer. *)
LEMMA ReadFits ==
  ASSUME TInv, pc = "read", buffer # << >>, Prompt
  PROVE  outbox = << >> /\ Fits(Head(buffer))
BY DEF TInv, TypeOK, OneAnswer, Silent

(* What reading a reply leads to: the tube is off, the step again, an *)
(* error, or the next step.                                           *)
LEMMA ReadDoes ==
  ASSUME TInv, Read
  PROVE  LET s == Head(todo)
             r == Head(buffer)
         IN  /\ pc = "read" /\ buffer # << >> /\ Frame
             /\ \/ TubeOff /\ ~Prompt
                \/ Again
                \/ ~NotYet(s, r) /\ Fails(s, r) /\ End("error")
                \/ /\ ~NotYet(s, r) /\ ~Fails(s, r)
                   /\ \/ Rest(s, r) = << >> /\ End(Result(s, r))
                      \/ /\ Rest(s, r) # << >> /\ todo' = Rest(s, r)
                         /\ pc' = "write" /\ reply' = reply
<1> DEFINE s == Head(todo)
           r == Head(buffer)
<1>1. /\ TypeOK /\ pc = "read" /\ buffer # << >> /\ buffer' = << >>
      /\ UNCHANGED <<case, power, hv, shutter, voltage, current, cold, outbox, cmd, turned>>
  BY DEF TInv, Read, generator
<1>2. Prompt => /\ outbox = << >>
                /\ s.do = "identify" => r.first = ModelResponse
                /\ s.do # "identify" => r.first # ModelResponse
  BY <1>1, ReadFits DEF Fits, ModelResponse
<1>3. 0 \in 0..(MaxAttempts - 1)
  BY TubeAssumption DEF TubeAssumption
<1>4. ASSUME connected' \in BOOLEAN, attempts' \in 0..(MaxAttempts - 1) PROVE Frame
  BY <1>1, <1>2, <1>4 DEF Frame, TypeOK, Silent
<1>5. connected \in BOOLEAN
  BY <1>1 DEF TypeOK
<1>6. CASE s.do = "identify" /\ r.first # ModelResponse
  <2>1. TubeOff
    <3>1. ~Unreadable(s, r) /\ ~NotYet(s, r) /\ ~Fails(s, r)
      BY <1>6 DEF Unreadable, NotYet, Fails, OverLimit, Differs
    <3> QED
      BY <1>6, <3>1 DEF Read
  <2>2. Frame
    BY <1>3, <1>4, <2>1 DEF TubeOff, End
  <2>3. ~Prompt
    BY <1>2, <1>6
  <2> QED
    BY <1>1, <2>1, <2>2, <2>3
<1>7. CASE Unreadable(s, r)
  <2>1. ~Prompt /\ (Attempt \/ (Again /\ attempts' = 0))
    BY <1>2, <1>7 DEF Read, Unreadable
  <2>2. Frame
    BY <1>1, <1>3, <1>4, <1>5, <2>1, AttemptDoes DEF Again
  <2> QED
    BY <1>1, <2>1, <2>2, AttemptDoes
<1> DEFINE fits == ~(s.do = "identify" /\ r.first # ModelResponse) /\ ~Unreadable(s, r)
<1>8. CASE fits /\ NotYet(s, r)
  <2>1. Again /\ attempts' = 0
    BY <1>8 DEF Read
  <2>2. Frame
    BY <1>3, <1>4, <1>5, <2>1 DEF Again
  <2> QED
    BY <1>1, <2>1, <2>2
<1>9. CASE fits /\ ~NotYet(s, r) /\ Fails(s, r)
  <2>1. End("error") /\ connected' = connected
    BY <1>9 DEF Read
  <2>2. Frame
    BY <1>3, <1>4, <1>5, <2>1 DEF End
  <2> QED
    BY <1>1, <1>9, <2>1, <2>2
<1>10. CASE fits /\ ~NotYet(s, r) /\ ~Fails(s, r)
  <2>1. /\ connected' = (connected \/ s.do = "status")
        /\ IF Rest(s, r) = << >> THEN End(Result(s, r))
           ELSE /\ pc' = "write" /\ todo' = Rest(s, r) /\ attempts' = 0
                /\ UNCHANGED reply
    BY <1>10 DEF Read
  <2>2. connected' \in BOOLEAN
    BY <2>1
  <2>3. Frame
    BY <1>3, <1>4, <2>1, <2>2 DEF End
  <2> QED
    BY <1>1, <1>10, <2>1, <2>3
<1> QED
  BY <1>6, <1>7, <1>8, <1>9, <1>10

(* issafe says "yes" only when it has seen every shutter shut, or the high *)
(* voltage off.                                                            *)
LEMMA YesIsSafe ==
  ASSUME TInv, pc = "read", Prompt, Fits(Head(buffer)),
         ~NotYet(Head(todo), Head(buffer)), Rest(Head(todo), Head(buffer)) = << >>,
         Result(Head(todo), Head(buffer)) = "yes"
  PROVE  ~Radiates
<1> DEFINE s == Head(todo)
           r == Head(buffer)
<1>1. TypeOK /\ OnPlan /\ pc # "idle"
  BY DEF TInv
<1>2. cmd.op = "issafe" /\ ~(s.do = "hv" /\ r.first # 0)
  BY DEF Result
<1>3. CASE s.do = "hv"
  BY <1>2, <1>3 DEF Fits, Radiates
<1>4. CASE s.do # "hv"
  <2>1. /\ todo # << >> /\ Len(todo) \in 1..Len(Countdown(cmd.op))
        /\ Len(Tail(todo)) = Len(todo) - 1
        /\ Planned(s, Len(todo)) /\ InOrder(cmd.op, Len(todo), Len(Countdown(cmd.op)), s.do)
    BY <1>1, <1>4, HeadIs
  <2>2. Tail(todo) = << >>
    BY DEF Rest
  <2>3. Len(todo) = 1
    BY <1>1, <2>2, LastOne DEF TypeOK
  <2>4. s.do = "state" /\ s.i = 4
    BY <1>2, <2>1, <2>3 DEF InOrder, Planned
  <2>5. status(s.i, r.first) \notin {SHUTTER_ON_VALUE, SHUTTER_TRANSITION_VAL}
    BY <1>2, <2>4 DEF Rest, NotYet
  <2>6. shutter[4] = "off"
    BY <2>4, <2>5 DEF Fits
  <2>7. \A j \in Shutters : j + 1 < 5 => shutter[j] \notin {"opening", "on"}
    BY <1>2, <2>3, <2>4 DEF TInv, ShutSoFar
  <2>8. \A j \in Shutters : j = 4 \/ j + 1 < 5
    BY DEF Shutters
  <2> QED
    BY <2>6, <2>7, <2>8 DEF Radiates
<1> QED
  BY <1>3, <1>4

(* "ok" comes after a last look that agrees with what was asked for. *)
LEMMA OkIsDone ==
  ASSUME TInv, pc = "read", Prompt, ~turned, Fits(Head(buffer)),
         ~NotYet(Head(todo), Head(buffer)), ~Fails(Head(todo), Head(buffer)),
         Rest(Head(todo), Head(buffer)) = << >>
  PROVE  /\ cmd.op = "hv" => hv = (IF cmd.on THEN "on" ELSE "off")
         /\ cmd.op = "shutter" => shutter[cmd.i] = (IF cmd.on THEN "on" ELSE "off")
         /\ cmd.op \in {"setv", "setvc"} => voltage = cmd.v
         /\ cmd.op \in {"setc", "setvc"} => current = cmd.c
<1> DEFINE s == Head(todo)
           r == Head(buffer)
<1>1. TypeOK /\ OnPlan /\ pc # "idle"
  BY DEF TInv
<1>2. voltage \in Nat /\ current \in Nat /\ cmd.on \in BOOLEAN
  BY <1>1 DEF TypeOK, Command
<1>3. ASSUME cmd.op # "issafe"
      PROVE  Planned(s, 1) /\ InOrder(cmd.op, 1, Len(Countdown(cmd.op)), s.do)
  <2>1. /\ Len(todo) \in 1..Len(Countdown(cmd.op)) /\ Len(Tail(todo)) = Len(todo) - 1
        /\ Planned(s, Len(todo)) /\ InOrder(cmd.op, Len(todo), Len(Countdown(cmd.op)), s.do)
    BY <1>1, <1>3, HeadIs DEF LastLook
  <2>2. Tail(todo) = << >>
    BY <1>3 DEF Rest
  <2>3. Len(todo) = 1
    BY <1>1, <2>2, LastOne DEF TypeOK
  <2> QED
    BY <2>1, <2>3
<1>4. ~Differs(s, r)
  BY DEF Fails
<1>5. CASE cmd.op = "hv"
  <2>1. s.do = "hv"
    BY <1>3, <1>5 DEF InOrder
  <2>2. r.first \in {0, TUBE_HV_ON}
    BY <2>1 DEF NotYet
  <2>3. (r.first = TUBE_HV_ON) = cmd.on
    BY <1>4, <1>5, <2>1 DEF Differs
  <2>4. /\ r.first = 0 => hv = "off"
        /\ r.first = TUBE_HV_ON => hv = "on"
    BY <2>1 DEF Fits
  <2>5. CASE cmd.on = TRUE
    BY <1>5, <2>3, <2>4, <2>5
  <2>6. CASE cmd.on = FALSE
    BY <1>5, <2>2, <2>3, <2>4, <2>6
  <2> QED
    BY <1>2, <2>5, <2>6
<1>6. CASE cmd.op = "shutter"
  <2>1. s.do = "state" /\ s.i = cmd.i
    BY <1>3, <1>6 DEF InOrder, Planned
  <2> DEFINE k == status(cmd.i, r.first)
  <2>2. k # SHUTTER_TRANSITION_VAL
    BY <2>1 DEF NotYet
  <2>3. (k = SHUTTER_ON_VALUE) = cmd.on
    BY <1>4, <1>6, <2>1 DEF Differs
  <2>4. /\ k \in {0, SHUTTER_NOT_CONNECTED, SHUTTER_TRANSITION_VAL, SHUTTER_ON_VALUE}
        /\ k \in {0, SHUTTER_NOT_CONNECTED} => shutter[cmd.i] = "off"
        /\ k = SHUTTER_ON_VALUE => shutter[cmd.i] = "on"
    BY <2>1 DEF Fits
  <2> HIDE DEF k
  <2>5. CASE cmd.on = TRUE
    BY <1>6, <2>3, <2>4, <2>5
  <2>6. CASE cmd.on = FALSE
    BY <1>6, <2>2, <2>3, <2>4, <2>6
  <2> QED
    BY <1>2, <2>5, <2>6
<1>7. CASE cmd.op = "setv"
  <2>1. s.do = "voltage"
    BY <1>3, <1>7 DEF InOrder
  <2>2. r.first = voltage * 1000 /\ r.first \div 1000 = cmd.v
    BY <1>4, <2>1 DEF Fits, Differs
  <2> QED
    BY <1>2, <1>7, <2>2, Thousands
<1>8. CASE cmd.op = "setc"
  <2>1. s.do = "current"
    BY <1>3, <1>8 DEF InOrder
  <2>2. r.first = current * 1000 /\ r.first \div 1000 = cmd.c
    BY <1>4, <2>1 DEF Fits, Differs
  <2> QED
    BY <1>2, <1>8, <2>2, Thousands
<1>9. CASE cmd.op = "setvc"
  <2>1. s.do = "both"
    BY <1>3, <1>9 DEF InOrder
  <2>2. /\ r.first = voltage * 1000 /\ r.first \div 1000 = cmd.v
        /\ r.second = current * 1000 /\ r.second \div 1000 = cmd.c
    BY <1>4, <2>1 DEF Fits, Differs
  <2> QED
    BY <1>2, <1>9, <2>2, Thousands
<1> QED
  BY <1>5, <1>6, <1>7, <1>8, <1>9

(* The steps that are left when a read is content are still in their order. *)
LEMMA GoesOn ==
  ASSUME TInv, Frame, buffer # << >>, ~NotYet(Head(todo), Head(buffer)),
         ~Fails(Head(todo), Head(buffer)), pc' = "write", reply' = reply,
         Rest(Head(todo), Head(buffer)) # << >>, todo' = Rest(Head(todo), Head(buffer))
  PROVE  TInv'
<1> DEFINE s == Head(todo)
           r == Head(buffer)
           n == Len(Countdown(cmd.op))
<1>1. TypeOK /\ OnPlan /\ pc = "read" /\ pc # "idle" /\ cmd' = cmd /\ case' = case
  BY DEF TInv, Frame
<1>2. /\ todo # << >> /\ s \in Step /\ Len(todo) \in 1..n /\ Len(todo) \in Nat /\ n \in 3..7
      /\ Tail(todo) \in Seq(Step) /\ Len(Tail(todo)) = Len(todo) - 1
      /\ \/ Planned(s, Len(todo)) /\ InOrder(cmd.op, Len(todo), n, s.do)
         \/ LastLook /\ s.do = "hv"
  BY <1>1, HeadIs, CountdownIs DEF TypeOK
<1>3. Prompt => Fits(r)
  BY <1>1, ReadFits
<1>4. CASE s.do = "state" /\ cmd.op = "issafe" /\ status(s.i, r.first) = SHUTTER_ON_VALUE
  <2> DEFINE h == [s EXCEPT !.do = "hv"]
  <2>1. todo' = <<h>>
    BY <1>4 DEF Rest
  <2>2. h \in Step /\ h.do = "hv"
    BY <1>2 DEF Step, Doings
  <2> HIDE DEF h
  <2>3. todo' \in Seq(Step) /\ todo' # << >> /\ Len(todo') = 1 /\ Head(todo') = h /\ todo'[1] = h
    BY <2>1, <2>2
  <2>4. OnPlan'
    BY <1>1, <1>2, <1>4, <2>2, <2>3 DEF OnPlan, LastLook
  <2>5. Looked' /\ WithinLimit'
    BY <1>1, <1>4 DEF Looked, WithinLimit
  <2>6. ShutSoFar'
    BY <2>2, <2>3 DEF ShutSoFar
  <2> QED
    BY <2>3, <2>4, <2>5, <2>6, WriteKeeps
<1>5. CASE ~(s.do = "state" /\ cmd.op = "issafe" /\ status(s.i, r.first) = SHUTTER_ON_VALUE)
  <2>1. todo' = Tail(todo) /\ Tail(todo) # << >>
    BY <1>5 DEF Rest
  <2>2. /\ todo' \in Seq(Step) /\ todo' # << >> /\ Len(todo') = Len(todo) - 1 /\ Len(todo') >= 1
    <3>1. /\ todo' \in Seq(Step) /\ todo' # << >> /\ Len(todo') = Len(todo) - 1
      BY <1>2, <2>1
    <3>2. Len(todo') \in Nat \ {0}
      BY <3>1, EmptySeq
    <3> QED
      BY <3>1, <3>2
  <2>3. Planned(s, Len(todo)) /\ InOrder(cmd.op, Len(todo), n, s.do)
    <3>1. Len(todo) - 1 >= 1
      BY <2>2
    <3>2. Len(todo) > 1
      <4>1. Len(todo) \in Nat
        BY <1>2
      <4> QED
        BY <3>1, <4>1
    <3> QED
      BY <1>2, <3>2 DEF LastLook
  <2>4. OnPlan'
    BY <1>1, <2>1, Advance
  <2>5. Looked'
    <3>1. ASSUME cmd.op \notin {"istube", "issafe"}, Len(todo') + 2 < n
          PROVE  Valid(cmd)
      <4>1. CASE Len(todo) + 2 < n
        BY <1>1, <3>1, <4>1 DEF TInv, Looked
      <4>2. CASE Len(todo) + 2 = n
        <5>1. s.do = "standby"
          BY <2>3, <3>1, <4>2 DEF InOrder
        <5> QED
          BY <3>1, <5>1 DEF Fails
      <4>3. Len(todo) + 2 < n \/ Len(todo) + 2 = n
        <5>1. Len(todo) - 1 + 2 < n
          BY <2>2, <3>1
        <5> QED
          BY <1>2, <5>1
      <4> QED
        BY <4>1, <4>2, <4>3
    <3>2. Valid(cmd)' <=> Valid(cmd)
      BY <1>1 DEF Valid
    <3> QED
      BY <1>1, <3>1, <3>2 DEF Looked
  <2>6. WithinLimit'
    <3>1. ASSUME Prompt, Len(todo') = 2, cmd.op \in {"setv", "setc"}
          PROVE  /\ cmd.op = "setv" => cmd.v * current <= MaxPower
                 /\ cmd.op = "setc" => cmd.c * voltage <= MaxPower
      <4>1. Len(todo) - 1 = 2
        BY <2>2, <3>1
      <4>2. Len(todo) = 3
        <5>1. Len(todo) \in Nat
          BY <1>2
        <5> QED
          BY <4>1, <5>1
      <4>3. s.do = "limit"
        BY <2>3, <3>1, <4>2 DEF InOrder
      <4>4. ~OverLimit(s, r)
        BY DEF Fails
      <4>5. r.first = (IF cmd.op = "setv" THEN current ELSE voltage) * 1000
        BY <1>3, <3>1, <4>3 DEF Fits
      <4>6. voltage \in Nat /\ current \in Nat /\ cmd.v \in Int /\ cmd.c \in Int /\ MaxPower \in Nat
        BY <1>1, TubeAssumption DEF TypeOK, Command, TubeAssumption
      <4>7. CASE cmd.op = "setv"
        <5>1. r.first \div 1000 = current
          BY <4>5, <4>6, <4>7, Thousands
        <5>2. ~(cmd.v * current > MaxPower)
          BY <4>3, <4>4, <4>7, <5>1 DEF OverLimit
        <5>3. cmd.v * current \in Int
          BY <4>6
        <5> QED
          BY <4>6, <4>7, <5>2, <5>3
      <4>8. CASE cmd.op = "setc"
        <5>1. r.first \div 1000 = voltage
          BY <4>5, <4>6, <4>8, Thousands
        <5>2. ~(cmd.c * voltage > MaxPower)
          BY <4>3, <4>4, <4>8, <5>1 DEF OverLimit
        <5>3. cmd.c * voltage \in Int
          BY <4>6
        <5> QED
          BY <4>6, <4>8, <5>2, <5>3
      <4> QED
        BY <3>1, <4>7, <4>8
    <3>2. voltage' = voltage /\ current' = current
      BY DEF Frame
    <3> QED
      BY <1>1, <3>1, <3>2 DEF WithinLimit, Prompt
  <2>7. ShutSoFar'
    <3>1. ASSUME Prompt, cmd.op = "issafe", NEW j \in Shutters, j + Len(todo') < 5
          PROVE  shutter[j] \notin {"opening", "on"}
      <4>1. j \in 1..4 /\ j + (Len(todo) - 1) < 5
        BY <2>2, <3>1 DEF Shutters
      <4>2. Len(todo) <= 4
        BY <1>2, <4>1
      <4>3. s.do = "state" /\ s.i = 5 - Len(todo)
        BY <2>3, <3>1, <4>2 DEF InOrder, Planned
      <4>4. CASE j + Len(todo) < 5
        BY <1>1, <3>1, <4>3, <4>4 DEF TInv, ShutSoFar
      <4>5. CASE j = 5 - Len(todo)
        <5>1. status(s.i, r.first) \notin {SHUTTER_ON_VALUE, SHUTTER_TRANSITION_VAL}
          BY <1>5, <3>1, <4>3 DEF NotYet
        <5>2. shutter[s.i] = "off"
          BY <1>3, <3>1, <4>3, <5>1 DEF Fits
        <5> QED
          BY <4>3, <4>5, <5>2
      <4> QED
        BY <1>2, <4>1, <4>4, <4>5
    <3>2. shutter' = shutter
      BY DEF Frame
    <3> QED
      BY <1>1, <3>1, <3>2 DEF ShutSoFar, Prompt
  <2> QED
    BY <2>2, <2>4, <2>5, <2>6, <2>7, WriteKeeps
<1> QED
  BY <1>4, <1>5

(* Reading a reply keeps the invariant. *)
LEMMA ReadKeeps == ASSUME TInv, Read PROVE TInv'
<1> DEFINE s == Head(todo)
           r == Head(buffer)
<1>1. pc = "read" /\ buffer # << >> /\ Frame
  BY ReadDoes
<1>2. CASE TubeOff /\ ~Prompt
  BY <1>1, <1>2, TubeOffKeeps
<1>3. CASE Again
  BY <1>1, <1>3, AgainKeeps
<1>4. CASE End("error")
  <2>1. pc' = "idle" /\ todo' = << >> /\ reply' = "error"
    BY <1>4 DEF End
  <2>2. PromptYesMeansSafe' /\ OkMeansDone' /\ OffMeansOff'
    BY <2>1 DEF PromptYesMeansSafe, YesMeansSafe, OkMeansDone, OffMeansOff
  <2> QED
    BY <1>1, <2>1, <2>2, EndKeeps
<1>5. CASE ~NotYet(s, r) /\ ~Fails(s, r) /\ Rest(s, r) = << >> /\ End(Result(s, r))
  <2>1. pc' = "idle" /\ todo' = << >> /\ reply' = Result(s, r)
    BY <1>5 DEF End
  <2>2. Result(s, r) \in {"standby", "on", "no", "yes", "ok"}
    BY DEF Result
  <2>3. Prompt => Fits(r)
    BY <1>1, ReadFits
  <2>4. UNCHANGED <<case, power, hv, shutter, voltage, current, cmd, turned>>
    BY <1>1 DEF Frame
  <2>5. PromptYesMeansSafe'
    <3>1. ASSUME Prompt, Result(s, r) = "yes" PROVE ~Radiates
      BY <1>1, <1>5, <2>3, <3>1, YesIsSafe
    <3> QED
      BY <2>1, <2>4, <3>1 DEF PromptYesMeansSafe, YesMeansSafe, Radiates, Prompt
  <2>6. OkMeansDone'
    <3>1. ASSUME Prompt, ~turned
          PROVE  /\ cmd.op = "hv" => hv = (IF cmd.on THEN "on" ELSE "off")
                 /\ cmd.op = "shutter" => shutter[cmd.i] = (IF cmd.on THEN "on" ELSE "off")
                 /\ cmd.op \in {"setv", "setvc"} => voltage = cmd.v
                 /\ cmd.op \in {"setc", "setvc"} => current = cmd.c
      BY <1>1, <1>5, <2>3, <3>1, OkIsDone
    <3> QED
      BY <2>4, <3>1 DEF OkMeansDone, Prompt
  <2>7. OffMeansOff'
    BY <2>1, <2>2 DEF OffMeansOff
  <2> QED
    BY <1>1, <2>1, <2>2, <2>5, <2>6, <2>7, EndKeeps
<1>6. CASE /\ ~NotYet(s, r) /\ ~Fails(s, r) /\ Rest(s, r) # << >> /\ todo' = Rest(s, r)
           /\ pc' = "write" /\ reply' = reply
  BY <1>1, <1>6, GoesOn
<1> QED
  BY <1>2, <1>3, <1>4, <1>5, <1>6, ReadDoes

-----------------------------------------------------------------------------
(* The invariant holds in every reachable state. *)
LEMMA Inductive == Spec => []TInv
<1>1. Init => TInv
  BY InitInv
<1>2. TInv /\ [Next]_vars => TInv'
  <2> SUFFICES ASSUME TInv, [Next]_vars PROVE TInv'
    OBVIOUS
  <2>1. CASE UNCHANGED vars
    <3>1. UNCHANGED <<case, power, hv, shutter, voltage, current, cold, outbox, buffer, connected,
                      pc, todo, attempts, cmd, reply, turned>>
      BY <2>1 DEF vars, generator, line, server
    <3>2. TypeOK' /\ OnPlan' /\ NoReplyYet' /\ Looked' /\ Dark'
      BY <3>1 DEF TInv, TypeOK, OnPlan, Planned, LastLook, NoReplyYet, Looked, Valid, Dark
    <3>3. OneAnswer'
      BY <3>1 DEF TInv, OneAnswer, Prompt, Silent, Fits
    <3>4. WithinLimit' /\ ShutSoFar' /\ PowerBounded' /\ PromptYesMeansSafe' /\ OkMeansDone'
            /\ OffMeansOff'
      BY <3>1 DEF TInv, WithinLimit, ShutSoFar, Prompt, PowerBounded, PromptYesMeansSafe,
                  YesMeansSafe, Radiates, OkMeansDone, OffMeansOff
    <3> QED
      BY <3>2, <3>3, <3>4 DEF TInv
  <2>2. CASE Receive
    BY <2>2, ReceiveKeeps
  <2>3. CASE Order
    BY <2>3, OrderKeeps
  <2>4. CASE Ask
    BY <2>4, AskKeeps
  <2>5. CASE GiveUp
    BY <2>5, GiveUpKeeps
  <2>6. CASE Read
    BY <2>6, ReadKeeps
  <2>7. CASE Settle
    BY <2>7, SettleKeeps
  <2>8. CASE Turn
    BY <2>8, TurnKeeps
  <2>9. CASE Deliver
    BY <2>9, DeliverKeeps
  <2> QED
    BY <2>1, <2>2, <2>3, <2>4, <2>5, <2>6, <2>7, <2>8, <2>9 DEF Next, ServerStep
<1> QED
  BY <1>1, <1>2, PTL DEF Spec

(* The variables of the tube, its line and the server keep their types, and *)
(* a question is given up before the attempts go past their limit.          *)
THEOREM TypeCorrect == Spec => []TypeOK
<1>1. TInv => TypeOK
  BY DEF TInv
<1> QED
  BY <1>1, Inductive, PTL

(* Whatever setv, setc and setvc are asked for and in whatever order: the  *)
(* tube is never set to more than the configured power.                    *)
THEOREM PowerStaysBounded == Spec => []PowerBounded
<1>1. TInv => PowerBounded
  BY DEF TInv
<1> QED
  BY <1>1, Inductive, PTL

(* After issafe has answered "yes" there is no radiation until the next     *)
(* command, though it looks at the shutters one after the other.            *)
THEOREM YesIsKept == Spec => []PromptYesMeansSafe
<1>1. TInv => PromptYesMeansSafe
  BY DEF TInv
<1> QED
  BY <1>1, Inductive, PTL

(* After "ok" the tube is as the command asked, key aside. *)
THEOREM OkIsKept == Spec => []OkMeansDone
<1>1. TInv => OkMeansDone
  BY DEF TInv
<1> QED
  BY <1>1, Inductive, PTL

(* Only a tube that was off is said to be off. *)
THEOREM OffIsTrue == Spec => []OffMeansOff
<1>1. TInv => OffMeansOff
  BY DEF TInv
<1> QED
  BY <1>1, Inductive, PTL
=============================================================================
