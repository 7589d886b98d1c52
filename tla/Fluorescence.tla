---------------------------- MODULE Fluorescence ----------------------------
(***************************************************************************)
(* The fluorescence targets: the holders the server knows (Fluorescence,   *)
(* TargetHolder), the motor that brings one of the mounted holder's        *)
(* targets into the beam, and one GUI (FluorWidget) that shows holder and  *)
(* target from lists it has read some time ago, while other clients change *)
(* all of it.                                                              *)
(*                                                                         *)
(* The server executes one command at a time, so each is one step here; a  *)
(* drive ends where it was to go or, halted by the stop server, before.    *)
(* The GUI's operations are several commands, and those of other clients   *)
(* come in between.  Indices start at 0 as in the code.                    *)
(***************************************************************************)
EXTENDS Integers, Sequences

CONSTANTS
  Name,           \* the names that targets may have
  Places,         \* MAX_FLUOR_VALUES, the targets of a holder
  Width,          \* the distance between two targets
  Offset,         \* the position of the first
  LaserPosition,  \* LINEAR_LASER_POSITION, or Unset in the boxes without
  Configured,     \* the targets of the configuration file, in its order
  ChangeOrder,    \* does changefl count from the other end (XRAYBOX)?
  NewHolders,     \* the holders that clients may add (bounds the model)
  NewNames,       \* the names they may change targets to (bounds the model)
  MaxHolders      \* bound: no more holders than that

Unset == -1
Laser == "Laser"
None  == "None"

(* What is read past the end of a holder, and a place that has no target. *)
Garbage == "garbage"
Nothing == "-"

(* A list with nothing in it shows nothing. *)
Blank == ""

ASSUME FluorescenceAssumption ==
  /\ Places \in Nat \ {0} /\ Width \in Nat \ {0}
  /\ Offset \in Nat /\ 2 * Offset < Width
  /\ LaserPosition \in {Unset} \cup 0..(Offset + Places * Width)
  /\ \A i \in 0..Places : LaserPosition # Offset + i * Width
  /\ ChangeOrder \in BOOLEAN
  /\ Configured \in Seq(Name) /\ Configured # << >>
  /\ NewHolders \subseteq [0..(Places - 1) -> Name]
  /\ NewNames \subseteq Name /\ MaxHolders \in Nat
  /\ Name \cap {Laser, None, Garbage, Nothing, Blank, "unknown", "refused"} = {}

VARIABLES
  circular, \* is it the wheel (Fluorescence_wheel)?  It stays what it is
  holders,  \* Fluorescence::targetHolder
  current,  \* currentTargetHolder
  pos,      \* the motor's position
  answer,   \* setfl, if it came last: what was asked and answered; was it halted?
  combo,    \* the GUI: the number of holders it lists
  holder,   \* the holder shown, or -1 for none
  list,     \* the targets it lists, None among them
  target,   \* the target shown
  todo,     \* the commands its operation still has to send
  changed,  \* has anybody else done anything that it has not looked at?
  warned    \* has it said that the target is not in its list?

device == <<holders, current, pos>>
view   == <<combo, holder, list, target, warned>>
vars   == <<circular, device, answer, view, todo, changed>>

-----------------------------------------------------------------------------
(* TargetHolder *)

Holder == [name : [0..(Places - 1) -> Name \cup {Nothing}], num : 0..Places]

Targets(h) == {h.name[i] : i \in 0..(h.num - 1)}

(* The first of that name; case is disregarded by the code and the model. *)
getTargetIndex(h, t) ==
  CHOOSE i \in 0..(h.num - 1) :
    h.name[i] = t /\ \A j \in 0..(i - 1) : h.name[j] # t

changeTarget(h, i, t) ==
  [h EXCEPT !.name[IF ChangeOrder THEN Places - 1 - i ELSE i] = t]

(* Fluorescence::addHolder *)
Full(names) == [name |-> names, num |-> Places]

(* addTarget for each line of the file: a new holder when the last is full. *)
Start ==
  LET n == Len(Configured)
      configured(k, i) == (k - 1) * Places + i + 1
  IN  [k \in 1..((n + Places - 1) \div Places) |->
        [name |-> [i \in 0..(Places - 1) |->
                     IF configured(k, i) <= n THEN Configured[configured(k, i)]
                     ELSE Nothing],
         num  |-> IF k * Places <= n THEN Places ELSE n - (k - 1) * Places]]

-----------------------------------------------------------------------------
(* Fluorescence *)

Exists(i) == i \in 0..(Len(holders) - 1)

Mounted == holders[current + 1]

place(i) == Offset + i * Width

(* The limit is that of the place after the last. *)
FaultyUpperLimit == place(Places + 1)

(* The limit of the configuration file is left. *)
FileUpperLimit == place(Places - 1) - 1

(* Set by the constructor over that of the configuration file, and no      *)
(* command may change it: it leaves room for one place more than there is. *)
UpperLimit == place(Places)

(* round((position - offset) / width), halves up. *)
TargetAt(p) == (2 * (p - Offset) + Width) \div (2 * Width)

AtTarget(p) == p = place(TargetAt(p))

AtLaser(p) == LaserPosition # Unset /\ ~circular /\ p = LaserPosition

(* updateAndGetCurrentTargetName, with the motor at p. *)
TargetName(p) ==
  IF AtLaser(p) THEN Laser
  ELSE IF ~AtTarget(p) THEN None
  ELSE IF TargetAt(p) \in 0..(Places - 1) THEN Mounted.name[TargetAt(p)]
  ELSE Garbage

(* A wheel goes to the laser's place as well, where it has none. *)
Known(t) == t \in Targets(Mounted) \/ (LaserPosition # Unset /\ t = Laser)

(* A target's own place comes before the laser's. *)
Destination(t) ==
  IF t \in Targets(Mounted) THEN place(getTargetIndex(Mounted, t))
  ELSE LaserPosition

(* fllist: the wheel of a box with a laser lists it too.  The GUI adds None. *)
Listing(i) ==
  Targets(holders[i + 1]) \cup (IF LaserPosition # Unset THEN {Laser, None} ELSE {None})

FirstListed(i) == IF LaserPosition # Unset THEN Laser ELSE holders[i + 1].name[0]

canMotorMove(p) == 0 <= p /\ p <= UpperLimit

(* On the way to p, for a drive that the stop server may halt. *)
Between(p) == {q \in 0..UpperLimit : (pos <= q /\ q <= p) \/ (p <= q /\ q <= pos)}

-----------------------------------------------------------------------------
(* The commands, as they change the device. *)

setCurrentTargetHolder(i) ==
  /\ Exists(i) /\ current' = i
  /\ UNCHANGED <<holders, pos>>

(* currentTargetHolder is left as it is. *)
FaultyDelete ==
  /\ ~circular /\ Len(holders) > 1
  /\ holders' = SubSeq(holders, 1, Len(holders) - 1)
  /\ UNCHANGED <<current, pos>>

deleteLastTargetHolder ==
  /\ ~circular /\ Len(holders) > 1
  /\ holders' = SubSeq(holders, 1, Len(holders) - 1)
  /\ current' = IF current > Len(holders) - 2 THEN Len(holders) - 2 ELSE current
  /\ UNCHANGED pos

addHolder(names) ==
  /\ Len(holders) < MaxHolders
  /\ holders' = Append(holders, Full(names))
  /\ UNCHANGED <<current, pos>>

changefl(i, j, t) ==
  /\ Exists(i) /\ j \in 0..(Places - 1)
  /\ holders' = [holders EXCEPT ![i + 1] = changeTarget(@, j, t)]
  /\ UNCHANGED <<current, pos>>

(* moveabs, moverel and cal of the motor. *)
Drive(p) ==
  /\ canMotorMove(p)
  /\ pos' \in Between(p)
  /\ UNCHANGED <<holders, current>>

Answered(t, said, halted) ==
  answer' = [asked |-> t, said |-> said, halted |-> halted]

NoAnswer == [asked |-> None, said |-> None, halted |-> FALSE]

(* The other commands forget it. *)
NotAsked == answer' = NoAnswer

(* setfl is moveToTarget and then the question where the motor is. *)
setfl(t) ==
  /\ Known(t) /\ Drive(Destination(t))
  /\ Answered(t, TargetName(pos'), pos' # Destination(t))

setflRefused(t) ==
  /\ \/ ~Known(t) /\ Answered(t, "unknown", FALSE)
     \/ Known(t) /\ ~canMotorMove(Destination(t)) /\ Answered(t, "refused", FALSE)
  /\ UNCHANGED device

(* Another client; a second GUI, and the options window of this one, which *)
(* adds and deletes holders, are no different.                             *)
Others ==
  /\ \/ /\ \/ \E i \in 0..(MaxHolders - 1) : setCurrentTargetHolder(i)
           \/ deleteLastTargetHolder
           \/ \E names \in NewHolders : addHolder(names)
           \/ \E i \in 0..(MaxHolders - 1), j \in 0..(Places - 1), t \in NewNames :
                changefl(i, j, t)
           \/ \E p \in 0..UpperLimit : Drive(p)
        /\ NotAsked
     \/ \E t \in Name \cup {Laser} : setfl(t) \/ setflRefused(t)
  /\ changed' = (changed \/ device' # device)
  /\ UNCHANGED <<view, todo>>

(* The server ends, killed or by what it reads past the end of a holder,   *)
(* and another starts from the configuration file; the motor has not       *)
(* moved.  While there is none clients are Denied.                         *)
Restart ==
  /\ holders' = Start /\ current' = 0 /\ changed' = TRUE
  /\ NotAsked /\ UNCHANGED <<pos, view, todo>>

-----------------------------------------------------------------------------
(* The GUI: what the user does, *)

Idle == todo = << >>

PickHolder ==
  /\ Idle
  /\ \E i \in 0..(combo - 1) : i # holder /\ holder' = i
  /\ todo' = <<"setholder">>
  /\ NotAsked /\ UNCHANGED <<device, combo, list, target, changed, warned>>

(* "None" cannot be picked. *)
PickTarget ==
  /\ Idle
  /\ \E t \in list \ {None} : t # target /\ target' = t
  /\ todo' = <<"setfl">>
  /\ NotAsked /\ UNCHANGED <<device, combo, holder, list, changed, warned>>

(* The motor's page of the widget, whose MotorMovedSignal asks for the     *)
(* target.  A move that was halted is an answer like any other; ...        *)
MoveMotor ==
  /\ \E p \in 0..UpperLimit : Drive(p)
  /\ todo' = <<"getfl">> /\ UNCHANGED changed

(* ... a calibration that was halted is an error, so that no signal is     *)
(* emitted: the stop was somebody else's, and the GUI does not look what   *)
(* it has done to the target.                                              *)
Calibrate ==
  /\ Drive(0)
  /\ IF pos' = 0 THEN todo' = <<"getfl">> /\ UNCHANGED changed
     ELSE todo' = << >> /\ changed' = TRUE

PickPosition ==
  /\ Idle
  /\ MoveMotor \/ Calibrate
  /\ NotAsked /\ UNCHANGED view

Update ==
  /\ Idle /\ todo' = <<"getholder">>
  /\ NotAsked /\ UNCHANGED <<device, view, changed>>

(* The holders of the wheel are not listed again. *)
OptionsClosed ==
  /\ Idle
  /\ todo' = IF circular THEN <<"getholder">> ELSE <<"numflist", "getholder">>
  /\ NotAsked /\ UNCHANGED <<device, view, changed>>

(* ... and the commands that follow, each when the last is answered. *)

Sends(command) == todo # << >> /\ Head(todo) = command

Continue(commands) == todo' = commands \o Tail(todo)

UpdateHolderList ==
  /\ Sends("numflist") /\ Continue(<< >>)
  /\ combo' = Len(holders) /\ holder' = 0
  /\ NotAsked /\ UNCHANGED <<device, list, target, changed, warned>>

(* The list of targets is left as it is. *)
FaultyGetHolder ==
  /\ Sends("getholder") /\ Continue(<< >>)
  /\ holder' = IF current < combo THEN current ELSE -1
  /\ changed' = FALSE
  /\ NotAsked /\ UNCHANGED <<device, combo, list, target, warned>>

(* A combo box asked for an item that it does not have shows none. *)
GetHolder ==
  /\ Sends("getholder") /\ Continue(<<"fllist">>)
  /\ holder' = IF current < combo THEN current ELSE -1
  /\ changed' = FALSE
  /\ NotAsked /\ UNCHANGED <<device, combo, list, target, warned>>

GetTargetList ==
  /\ Sends("fllist") /\ Exists(holder) /\ Continue(<<"getfl">>)
  /\ list' = Listing(holder) /\ target' = FirstListed(holder)
  /\ NotAsked /\ UNCHANGED <<device, combo, holder, changed, warned>>

GetTarget ==
  /\ Sends("getfl") /\ Continue(<< >>)
  /\ IF TargetName(pos) \in list
     THEN target' = TargetName(pos) /\ warned' = FALSE
     ELSE warned' = TRUE /\ UNCHANGED target
  /\ NotAsked /\ UNCHANGED <<device, combo, holder, list, changed>>

SetHolder ==
  /\ Sends("setholder") /\ setCurrentTargetHolder(holder) /\ Continue(<<"fllist">>)
  /\ changed' = FALSE
  /\ NotAsked /\ UNCHANGED view

(* The answer of setfl is not looked at, so a halt goes unnoticed. *)
SetTarget ==
  /\ Sends("setfl") /\ setfl(target) /\ Continue(<< >>)
  /\ changed' = (changed \/ answer'.halted)
  /\ warned' = FALSE
  /\ UNCHANGED <<combo, holder, list, target>>

(* What an operation does when a command brings no answer. *)
Fallback ==
  CASE Head(todo) = "setholder" -> <<"getholder">>
    [] Head(todo) = "setfl"     -> <<"getfl">>
    [] OTHER                    -> << >>

(* Refused by the server for what it is. *)
Refused ==
  /\ \/ /\ Sends("setholder") \/ Sends("fllist")
        /\ ~Exists(holder)
        /\ NotAsked /\ UNCHANGED device
     \/ Sends("setfl") /\ setflRefused(target)
  /\ Continue(Fallback)
  /\ UNCHANGED <<view, changed>>

(* No server, or one that another user holds. *)
Denied ==
  /\ todo # << >> /\ Continue(Fallback) /\ changed' = TRUE
  /\ IF Head(todo) = "numflist" THEN combo' = 0 /\ holder' = -1
     ELSE UNCHANGED <<combo, holder>>
  /\ NotAsked /\ UNCHANGED <<device, list, target, warned>>

User == PickHolder \/ PickTarget \/ PickPosition \/ Update \/ OptionsClosed

GuiStep ==
  \/ UpdateHolderList \/ GetHolder \/ GetTargetList \/ GetTarget
  \/ SetHolder \/ SetTarget \/ Refused \/ Denied

-----------------------------------------------------------------------------
Init ==
  /\ circular \in BOOLEAN
  /\ holders = Start /\ current = 0 /\ pos \in 0..UpperLimit
  /\ answer = NoAnswer
  /\ combo = 0 /\ holder = -1 /\ list = {} /\ target = Blank
  /\ todo = <<"numflist", "getholder">> /\ changed = TRUE /\ warned = FALSE

Next == (Others \/ Restart \/ User \/ GuiStep) /\ UNCHANGED circular

Spec == Init /\ [][Next]_vars

-----------------------------------------------------------------------------
Commands == {"numflist", "getholder", "fllist", "getfl", "setholder", "setfl"}

Words == Name \cup {Laser, None, Garbage, Nothing, Blank, "unknown", "refused"}

(* The types; and the current holder is always one there is, which every   *)
(* access through targetHolder[currentTargetHolder] takes for granted, and *)
(* which deletions, additions and restarts could spoil.                    *)
TypeOK ==
  /\ circular \in BOOLEAN
  /\ holders \in Seq(Holder)
  /\ current \in 0..(Len(holders) - 1)
  /\ pos \in 0..UpperLimit
  /\ answer \in [asked : Words, said : Words, halted : BOOLEAN]
  /\ combo \in Nat /\ holder \in -1..(combo - 1)
  /\ list \subseteq Words /\ target \in Words
  /\ todo \in Seq(Commands)
  /\ changed \in BOOLEAN /\ warned \in BOOLEAN

(* The one thing setfl does not tell: a wheel asked for the laser goes to  *)
(* the laser's place, where it finds no target.                            *)
LaserOnWheel(t) == circular /\ t = Laser

(* setfl ends at the target it was asked for and says so, unless the stop  *)
(* server halted it or the target is unknown: the place computed from the  *)
(* index and the index computed from the position agree, the laser does    *)
(* not come in between and no target is out of the motor's range.  A wheel *)
(* sent to the laser says that it is nowhere.                              *)
TargetReached ==
  \/ answer.halted \/ answer.said = "unknown"
  \/ answer.said = IF LaserOnWheel(answer.asked) THEN None ELSE answer.asked

(* The name is looked up past the end of a holder only when the motor      *)
(* stands exactly at its upper limit.                                      *)
PastEndOnlyAtLimit ==
  AtTarget(pos) => TargetAt(pos) \in 0..(Places - 1) \/ pos = place(Places)

(* A GUI that nobody has interfered with, by a command or by halting its   *)
(* own, shows the holder and the target of the server, or says that it     *)
(* cannot: after each of its operations, with lists read before others     *)
(* added, deleted and changed holders.  Only a wheel that it has sent to   *)
(* the laser is shown there, and not at no target.                         *)
GuiShowsTruth ==
  Idle /\ ~changed =>
    /\ holder = IF current < combo THEN current ELSE -1
    /\ holder # -1 =>
         \/ warned \/ target = TargetName(pos)
         \/ LaserOnWheel(target) /\ pos = LaserPosition
=============================================================================
