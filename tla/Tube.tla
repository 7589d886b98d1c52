-------------------------------- MODULE Tube --------------------------------
(***************************************************************************)
(* The X-ray tube: the commands of Initialize that drive it (Xray), the    *)
(* serial line to it (Interface::TubeSend) and the generator at its end.   *)
(*                                                                         *)
(* Every question to the tube is a message down the line and a read of     *)
(* what has come back by then.  An answer carries no sign of its question: *)
(* the first integer in the buffer is taken for the answer, the rest is    *)
(* thrown away, and an answer that comes after the read stays for the      *)
(* next.  Somebody may turn the key of the generator at any time.          *)
(***************************************************************************)
EXTENDS Integers, Sequences

CONSTANTS
  Connected,    \* the shutters that are connected
  MaxPower,     \* "power" of the configuration file
  MinVoltage, MaxVoltage, MinCurrent, MaxCurrent,
  MaxAttempts,  \* TUBE_MAX_REPEAT_ATTEMPTS
  MaxLate,      \* bound: answers still on their way when a read is given up
  Cases         \* the tubes and clients looked at

Shutters == 1..4

Operations ==
  {"istube", "issafe", "hv", "setv", "setc", "setvc", "shutter", "warmup"}

(* on: what hv and shutter ask for; i: the shutter; v, c: voltage, current. *)
Command == [op : Operations, on : BOOLEAN, i : Shutters, v : Int, c : Int]

(* slow: may the tube take longer to answer than the server waits?  *)
(* commands: what clients may send (bounds the model).              *)
Case == [slow : BOOLEAN, commands : SUBSET Command]

ASSUME TubeAssumption ==
  /\ Connected \subseteq Shutters
  /\ MinVoltage \in Nat /\ MaxVoltage \in Nat
  /\ MinCurrent \in Nat /\ MaxCurrent \in Nat
  /\ MinVoltage <= MaxVoltage /\ MinCurrent <= MaxCurrent
  /\ MaxPower \in Nat /\ MinVoltage * MinCurrent <= MaxPower
  /\ MaxAttempts \in Nat \ {0} /\ MaxLate \in Nat
  /\ Cases \subseteq Case

VARIABLES
  case,       \* which of them it is
  power,      \* the key of the generator: "off", "standby" or "on"
  hv,         \* its high voltage: "off", "rising" or "on"
  shutter,    \* its shutters: "off", "opening", "on" or "closing"
  voltage, current,
  cold,       \* does it want a warm-up before it switches the voltage on?
  outbox,     \* the answers it has not sent yet
  buffer,     \* the answers the server has not read yet
  connected,  \* xrayTube # NULL
  pc,         \* the server: "idle", "write" or "read"
  todo,       \* what is left of the command in progress
  attempts,   \* reads given up for the question in progress
  cmd,        \* the command in progress or last answered
  reply,      \* "none" yet, "ok", "yes", "no", "on", "off", "standby", "error" or "tube_off"
  turned      \* was the key turned since the command came?

generator == <<power, hv, shutter, voltage, current, cold>>
line      == <<outbox, buffer>>
server    == <<connected, pc, todo, attempts, cmd, reply, turned>>
vars      == <<case, generator, line, server>>

-----------------------------------------------------------------------------
(* The generator answers questions with numbers. *)

TUBE_STANDBY_VALUE     == 76
TUBE_HV_ON             == 64
SHUTTER_TRANSITION_VAL == 8
SHUTTER_ON_VALUE       == 12
SHUTTER_NOT_CONNECTED  == 5

(* Stands for the text TUBE_MODEL_RESPONSE, in which no number is found. *)
ModelResponse == -1

hvCode ==
  CASE hv = "off" -> 0 [] hv = "rising" -> 12 [] hv = "on" -> TUBE_HV_ON

shutterCode(i) ==
  IF i \notin Connected THEN SHUTTER_NOT_CONNECTED
  ELSE CASE shutter[i] = "off" -> 0 [] shutter[i] = "on" -> SHUTTER_ON_VALUE
         [] OTHER -> SHUTTER_TRANSITION_VAL

(* The shutters share two registers, the first of each pair in the high half. *)
Questions == {"id", "sr:12", "sr:1", "sr:3", "sr:4", "cn", "vn", "gn"}

register(i) == IF i \in {1, 2} THEN "sr:3" ELSE "sr:4"

answer(q) ==
  LET one(n) == [first |-> n, second |-> n]
  IN  CASE q = "id"    -> one(ModelResponse)
        [] q = "sr:12" -> one(IF power = "standby" THEN TUBE_STANDBY_VALUE ELSE 0)
        [] q = "sr:1"  -> one(hvCode)
        [] q = "sr:3"  -> one(shutterCode(1) * 16 + shutterCode(2))
        [] q = "sr:4"  -> one(shutterCode(3) * 16 + shutterCode(4))
        [] q = "cn"    -> one(current * 1000)
        [] q = "vn"    -> one(voltage * 1000)
        [] q = "gn"    -> [first |-> voltage * 1000, second |-> current * 1000]

(* Xray::getShutterStatus masks the half of its shutter. *)
status(i, n) == IF i \in {1, 3} THEN (n \div 16) % 16 ELSE n % 16

(* Standing by or cold, the generator ignores what it cannot do. *)
Obey(c) ==
  /\ shutter' =
       IF c.op = "shutter" /\ power = "on" /\ c.i \in Connected
       THEN [shutter EXCEPT ![c.i] =
              IF c.on THEN IF @ = "on" THEN "on" ELSE "opening"
              ELSE IF @ = "off" THEN "off" ELSE "closing"]
       ELSE shutter
  /\ voltage' = IF c.op \in {"setv", "setvc"} /\ power = "on" THEN c.v ELSE voltage
  /\ current' = IF c.op \in {"setc", "setvc"} /\ power = "on" THEN c.c ELSE current
  /\ cold' = (cold /\ ~(c.op = "warmup" /\ power = "on"))
  /\ hv' = IF c.op # "hv" \/ power # "on" THEN hv
           ELSE IF ~c.on THEN "off"
           ELSE IF cold \/ hv = "on" THEN hv ELSE "rising"
  /\ UNCHANGED power

(* "hv:1", the second half of a warm-up. *)
HvOn ==
  /\ hv' = IF power # "on" \/ cold \/ hv = "on" THEN hv ELSE "rising"
  /\ UNCHANGED <<power, shutter, voltage, current, cold>>

Settle ==
  /\ \/ hv = "rising" /\ hv' = "on" /\ UNCHANGED shutter
     \/ \E i \in Shutters :
          /\ shutter[i] \in {"opening", "closing"}
          /\ shutter' = [shutter EXCEPT ![i] = IF @ = "opening" THEN "on" ELSE "off"]
          /\ UNCHANGED hv
  /\ UNCHANGED <<case, power, voltage, current, cold, line, server>>

(* The key: without power, or standing by, there is no radiation. *)
Turn ==
  /\ \E p \in {"off", "standby", "on"} \ {power} : power' = p
  /\ cold' \in BOOLEAN
  /\ hv' = "off" /\ shutter' = [i \in Shutters |-> "off"]
  /\ outbox' = (IF power' = "off" THEN << >> ELSE outbox)
  /\ turned' = TRUE
  /\ UNCHANGED <<case, voltage, current, buffer, connected, pc, todo, attempts, cmd, reply>>

Deliver ==
  /\ outbox # << >>
  /\ buffer' = Append(buffer, Head(outbox)) /\ outbox' = Tail(outbox)
  /\ UNCHANGED <<case, generator, server>>

-----------------------------------------------------------------------------
(* The commands, as the questions and orders they are made of. *)

Doings == {"identify", "status", "standby", "connected", "limit", "obey", "hv_on",
           "hv", "voltage", "current", "both", "state"}

Step == [do : Doings, i : Shutters]

Steps(doings, c) == [n \in 1..Len(doings) |-> [do |-> doings[n], i |-> c.i]]

(* Xray::setHVSwitch, setVoltage, setCurrent, setVoltageAndCurrent, setShutter *)
(* and startWarmup, each with what executeCommand reads back afterwards.       *)
Program(c) ==
  CASE c.op = "istube"  -> Steps(<<"standby">>, c)
    [] c.op = "hv"      -> Steps(<<"standby", "obey", "hv">>, c)
    [] c.op = "setv"    -> Steps(<<"standby", "limit", "obey", "voltage">>, c)
    [] c.op = "setc"    -> Steps(<<"standby", "limit", "obey", "current">>, c)
    [] c.op = "setvc"   -> Steps(<<"standby", "obey", "both">>, c)
    [] c.op = "shutter" -> Steps(<<"standby", "connected", "obey", "state">>, c)
    [] c.op = "warmup"  -> Steps(<<"standby", "obey", "standby", "hv_on", "hv">>, c)
    [] c.op = "issafe"  -> [i \in Shutters |-> [do |-> "state", i |-> i]]

question(s) ==
  CASE s.do = "identify"               -> "id"
    [] s.do \in {"status", "standby"}  -> "sr:12"
    [] s.do \in {"connected", "state"} -> register(s.i)
    [] s.do = "hv"                     -> "sr:1"
    [] s.do = "voltage"                -> "vn"
    [] s.do = "current"                -> "cn"
    [] s.do = "both"                   -> "gn"
    [] s.do = "limit"                  -> IF cmd.op = "setv" THEN "cn" ELSE "vn"

(* validateVoltage, validateCurrent and, for setvc, validatePower. *)
Valid(c) ==
  /\ c.op \in {"setv", "setvc", "warmup"} => c.v \in MinVoltage..MaxVoltage
  /\ c.op \in {"setc", "setvc"} => c.c \in MinCurrent..MaxCurrent
  /\ c.op = "setvc" => c.v * c.c <= MaxPower

(* No number in the answer: asked again, for the status within TubeSend. *)
Unreadable(s, r) == s.do # "identify" /\ r.first = ModelResponse

FaultyNotYet(s, r) == s.do = "hv" /\ r.first \notin {0, TUBE_HV_ON}

(* The loops of getHVSwitch and getShutter. *)
NotYet(s, r) ==
  \/ s.do = "hv" /\ r.first \notin {0, TUBE_HV_ON}
  \/ s.do = "state" /\ status(s.i, r.first) = SHUTTER_TRANSITION_VAL

(* validatePower is left to the generator. *)
FaultyOverLimit(s, r) == FALSE

(* validatePower with the value that is not being set. *)
OverLimit(s, r) ==
  s.do = "limit" /\
    (IF cmd.op = "setv" THEN cmd.v ELSE cmd.c) * (r.first \div 1000) > MaxPower

(* What was read back is not what was asked for. *)
Differs(s, r) ==
  \/ s.do = "hv" /\ cmd.op = "hv" /\ (r.first = TUBE_HV_ON) # cmd.on
  \/ s.do = "voltage" /\ r.first \div 1000 # cmd.v
  \/ s.do = "current" /\ r.first \div 1000 # cmd.c
  \/ s.do = "both" /\ (r.first \div 1000 # cmd.v \/ r.second \div 1000 # cmd.c)
  \/ /\ s.do = "state" /\ cmd.op = "shutter"
     /\ (status(s.i, r.first) = SHUTTER_ON_VALUE) # cmd.on

(* The reading is not compared. *)
FaultyFails(s, r) ==
  \/ s.do = "standby" /\ cmd.op # "istube" /\ (r.first = TUBE_STANDBY_VALUE \/ ~Valid(cmd))
  \/ s.do = "connected" /\ status(s.i, r.first) = SHUTTER_NOT_CONNECTED
  \/ OverLimit(s, r)

Fails(s, r) ==
  \/ s.do = "standby" /\ cmd.op # "istube" /\ (r.first = TUBE_STANDBY_VALUE \/ ~Valid(cmd))
  \/ s.do = "connected" /\ status(s.i, r.first) = SHUTTER_NOT_CONNECTED
  \/ OverLimit(s, r)
  \/ Differs(s, r)

Result(s, r) ==
  CASE cmd.op = "istube" -> IF r.first = TUBE_STANDBY_VALUE THEN "standby" ELSE "on"
    [] cmd.op = "issafe" -> IF s.do = "hv" /\ r.first # 0 THEN "no" ELSE "yes"
    [] OTHER             -> "ok"

(* Xray::isAccessPossible asks for the high voltage once it has found an open *)
(* shutter, without looking at the others.                                    *)
Rest(s, r) ==
  IF s.do = "state" /\ cmd.op = "issafe" /\ status(s.i, r.first) = SHUTTER_ON_VALUE
  THEN <<[s EXCEPT !.do = "hv"]>>
  ELSE Tail(todo)

-----------------------------------------------------------------------------
(* The server at its end of the line. *)

(* OnlyTubeCommand: the line is opened and flushed, and the tube looked for, *)
(* when the last command left it for switched off.                           *)
Receive ==
  /\ pc = "idle"
  /\ \E c \in case.commands :
       /\ cmd' = c
       /\ todo' = (IF connected THEN << >> ELSE Steps(<<"identify", "status">>, c))
                    \o Program(c)
  /\ buffer' = IF connected THEN buffer ELSE << >>
  /\ pc' = "write" /\ attempts' = 0 /\ reply' = "none" /\ turned' = FALSE
  /\ UNCHANGED <<case, generator, outbox, connected>>

Order ==
  /\ pc = "write" /\ Head(todo).do \in {"obey", "hv_on"}
  /\ IF Head(todo).do = "obey" THEN Obey(cmd) ELSE HvOn
  /\ todo' = Tail(todo)
  /\ UNCHANGED <<case, line, connected, pc, attempts, cmd, reply, turned>>

Ask ==
  /\ pc = "write" /\ Head(todo).do \notin {"obey", "hv_on"}
  /\ outbox' = IF power = "off" THEN outbox
               ELSE Append(outbox, answer(question(Head(todo))))
  /\ pc' = "read"
  /\ UNCHANGED <<case, generator, buffer, connected, todo, attempts, cmd, reply, turned>>

Again == pc' = "write" /\ UNCHANGED <<connected, todo, reply>>

End(r) == pc' = "idle" /\ todo' = << >> /\ attempts' = 0 /\ reply' = r

(* TubeOffError: xrayTube is deleted and its port is free again.  istube     *)
(* answers "off" when the tube was not found, and fails like the others when *)
(* it was there before.                                                      *)
TubeOff ==
  /\ End(IF cmd.op = "istube" /\ ~connected THEN "off" ELSE "tube_off")
  /\ connected' = FALSE

(* The attempts are counted past the last. *)
FaultyAttempt ==
  IF attempts = MaxAttempts THEN TubeOff ELSE Again /\ attempts' = attempts + 1

(* A read without an answer is tried for ever. *)
EndlessAttempt == Again /\ UNCHANGED attempts

Attempt ==
  IF attempts + 1 = MaxAttempts THEN TubeOff ELSE Again /\ attempts' = attempts + 1

(* The server does not wait for the answer. *)
FaultyGiveUp ==
  /\ pc = "read" /\ buffer = << >>
  /\ Attempt
  /\ UNCHANGED <<case, generator, line, cmd, turned>>

(* Nothing to read for TUBE_MAX_RX_ATTEMPTS periods. *)
GiveUp ==
  /\ pc = "read" /\ buffer = << >>
  /\ outbox = << >> \/ (case.slow /\ Len(outbox) <= MaxLate)
  /\ Attempt
  /\ UNCHANGED <<case, generator, line, cmd, turned>>

(* One read takes all there is. *)
Read ==
  LET s == Head(todo)
      r == Head(buffer)
  IN  /\ pc = "read" /\ buffer # << >> /\ buffer' = << >>
      /\ CASE s.do = "identify" /\ r.first # ModelResponse -> TubeOff
           [] Unreadable(s, r) ->
                IF question(s) = "sr:12" THEN Attempt ELSE Again /\ attempts' = 0
           [] ~Unreadable(s, r) /\ NotYet(s, r) -> Again /\ attempts' = 0
           [] ~Unreadable(s, r) /\ ~NotYet(s, r) /\ Fails(s, r) ->
                End("error") /\ UNCHANGED connected
           [] OTHER ->
                /\ connected' = (connected \/ s.do = "status")
                /\ IF Rest(s, r) = << >> THEN End(Result(s, r))
                   ELSE /\ pc' = "write" /\ todo' = Rest(s, r) /\ attempts' = 0
                        /\ UNCHANGED reply
      /\ UNCHANGED <<case, generator, outbox, cmd, turned>>

-----------------------------------------------------------------------------
NoCommand ==
  [op |-> "istube", on |-> FALSE, i |-> 1, v |-> MinVoltage, c |-> MinCurrent]

Init ==
  /\ case \in Cases
  /\ power \in {"off", "standby", "on"} /\ hv = "off"
  /\ shutter = [i \in Shutters |-> "off"]
  /\ voltage = MinVoltage /\ current = MinCurrent /\ cold \in BOOLEAN
  /\ outbox = << >> /\ buffer = << >>
  /\ connected = FALSE /\ pc = "idle" /\ todo = << >> /\ attempts = 0
  /\ cmd = NoCommand /\ reply = "none" /\ turned = FALSE

ServerStep == Order \/ Ask \/ GiveUp \/ Read

Next == Receive \/ ServerStep \/ Settle \/ Turn \/ Deliver

Spec == Init /\ [][Next]_vars

(* The server's loops run, what the generator began it ends, and what it *)
(* answers arrives.                                                      *)
FairSpec ==
  Spec /\ WF_vars(ServerStep) /\ WF_vars(Settle) /\ WF_vars(Deliver)

-----------------------------------------------------------------------------
Answers == [first : Int, second : Int]

(* The variables keep their types; attempts stays below the limit. *)
TypeOK ==
  /\ case \in Cases
  /\ power \in {"off", "standby", "on"} /\ hv \in {"off", "rising", "on"}
  /\ shutter \in [Shutters -> {"off", "opening", "on", "closing"}]
  /\ voltage \in Nat /\ current \in Nat /\ cold \in BOOLEAN
  /\ outbox \in Seq(Answers) /\ buffer \in Seq(Answers)
  /\ connected \in BOOLEAN /\ pc \in {"idle", "write", "read"}
  /\ todo \in Seq(Step) /\ (pc # "idle" => todo # << >>)
  /\ attempts \in 0..(MaxAttempts - 1)
  /\ cmd \in Command /\ turned \in BOOLEAN
  /\ reply \in {"none", "ok", "yes", "no", "on", "off", "standby", "error", "tube_off"}

(* An answer that comes late may be taken for another: what follows is      *)
(* claimed of a tube that answers in time.                                  *)
Prompt == ~case.slow

(* The tube is never set to more than the configured power, although setv    *)
(* and setc check against a value they read from the tube two messages       *)
(* before theirs.                                                            *)
PowerBounded == Prompt => voltage * current <= MaxPower

Radiates == hv # "off" /\ \E i \in Shutters : shutter[i] \in {"opening", "on"}

(* When issafe has said "yes" the door can be opened: there is no radiation. *)
(* It is what a user relies on, and fails when answers come late.            *)
YesMeansSafe == reply = "yes" => ~Radiates

(* It holds for a prompt tube, although the shutters and the high voltage    *)
(* are read one after the other, moving or not.                              *)
PromptYesMeansSafe == Prompt => YesMeansSafe

(* A command that answers "ok" has set the tube as it was asked to, unless   *)
(* somebody turned the key.                                                  *)
OkMeansDone ==
  Prompt /\ reply = "ok" /\ ~turned =>
    CASE cmd.op = "hv"      -> hv = (IF cmd.on THEN "on" ELSE "off")
      [] cmd.op = "shutter" -> shutter[cmd.i] = (IF cmd.on THEN "on" ELSE "off")
      [] cmd.op = "setv"    -> voltage = cmd.v
      [] cmd.op = "setc"    -> current = cmd.c
      [] cmd.op = "setvc"   -> voltage = cmd.v /\ current = cmd.c
      [] OTHER              -> TRUE

(* The tube is said to be off, and let go, only when it was off at some time *)
(* since the command came; so it is found again once it is back.             *)
OffMeansOff ==
  Prompt /\ reply \in {"off", "tube_off"} => turned \/ power = "off"

(* Every command of the tube ends, whatever happens to the key. *)
CommandEnds == pc # "idle" ~> pc = "idle"
=============================================================================
