# A TLA+ model of the motor control software

This directory is a specification of the programs under `src/`: the server that
drives the motors, the X-ray tube and the other devices of an X-ray, laser or
vacuum box, its twin that only stops motors, and the clients that talk to both.
It holds TLA+ modules, TLC configurations that check them on small instances,
and proofs that TLAPS checks for every instance. `PROJECT.json` maps each
definition to the source lines it stands for.

Paths below are relative to `src/`; `S/` is short for `Server/src/`.

## 1. The system

### How it runs

`S/Server.cpp` is started twice: without an argument it is the *control server*,
with one the *stop server*, on the next port. Each is a loop that accepts a
connection, reads one command, executes it to its end, answers and closes the
connection. Nothing in a server is concurrent, but the two processes share the
serial lines to the motor controllers and share no memory. Each has its own lock
(`lockAttributes`) and its own objects, so that each has its own idea of where
the motors are.

A client (`Client/src/Client.cpp`, and the GUI through `Gui/include/GuiDefs.h`)
opens a connection for each command. A command whose text contains "stop" goes
to the stop server, everything else to the control server.

Behind the control server are devices on serial ports: up to three Corvus motor
controllers with three axes each, the generator of the X-ray tube, filter wheels
and a pressure gauge. They act on their own: an axis that has been told to move
moves on when the server has died, and somebody may turn the generator's key.

### Components

| Component | State | Operations | What makes it correct |
| --- | --- | --- | --- |
| Motion (`Initialize`, `Controller`, `Motor`, `Slit`, `ReferencePoints`) | copies of positions, soft limits, what is left of a command | moveabs, moverel, cal, rangemeasure, setpos, setupper, setlower, depos, setslitwidth, setcenter, setref, sendcontroller, stop, stopall | the slit jaws never touch; the copies and limits a decision rests on are right; the answer tells what happened; a stop is obeyed |
| Corvus controllers (external) | position and goal of each axis | move, calibrate, find the far switch, renumber, ^C | as assumed by the server |
| Servers' locks and sessions (`Server.cpp`, the sockets) | holder, lastCmdUnlock, queue of connections, command in execution | lock by use, unlock, refuse, execute, close | commands are executed for the holder alone; replies are true; nobody waits for ever |
| Clients (`Client.cpp`, `GuiDefs.h`, `Gui.cpp`) | one connection, a question on the screen | send, unlock the previous user or not, close | as above |
| Tube (`Xray`, `Interface::Tube...`) | connected or not, attempts, the commands' steps | hv, setv, setc, setvc, shutter, warmup, issafe, istube, and reading | "yes" to issafe means no radiation; "ok" means done; "off" means off; the power is bounded; every command ends |
| Generator (external) | key, high voltage, shutters, voltage, current, need for a warm-up | obeys, answers, settles | as assumed by the server |
| Ports (`Initialize::UpdateInterface`, `Interface`) | which ports are in use, by which device; their speeds | search, open, validate, close, give back | a port serves one device, the right one, at its speed; a device that was off is found again; the start ends |
| Target holders (`Fluorescence`, `TargetHolder`) | holders, targets, the current one | setholder, addholder, dellastholder, setfl, changefl | the target in the beam is the one named |
| Filter wheels (`Fwheel`) | position read back | set, get | an "ok" means that the wheel is there |
| Pressure gauge (`Pgauge`) | connected or not | pressure, ispressure | given back and found again |
| Configuration (`Initialize::ReadConfigFile`) | none after the start | parse | only sensible constants get through |
| GUI of the targets (`FluorWidget.cpp`) | lists, what is shown | pick a holder, a target or a position, update | it shows what is in the beam |
| GUI of the tube (`TubeWidget.cpp`) | which controls are enabled, two timers | every button, update, warm-up dialog | one question at a time; what is locked is unlocked; the warning is right |
| GUI of the gauge (`PGaugeWidget.cpp`) | a timer, a mutex | update, refresh | no lock-up; the refresh goes on |
| Other windows, Python binding, logging | what is shown | | not considered |

### What is hard here

* **Two processes, one controller.** A stop may halt any axis between any two
  messages of a command of the control server, which goes on with its next step.
* **Copies.** A decision rests on `Motor::position` and on soft limits computed
  from it, which are refreshed at certain points of a command only, and not
  when it throws before it gets there.
* **Two jaws.** Each jaw's upper limit depends on the position of the other; a
  slit command is two moves, the order of which depends on the direction.
* **Death and restart.** The controllers carry on while the next server starts.
* **One command per connection.** The lock belongs to a user and not to a
  connection, anybody may unlock, and the GUI asks a question while the lock and
  its own timers go on.
* **Answers without a name.** What is read from a serial line is taken for the
  answer to the last question, whatever it was the answer to.
* **Retries.** The tube's messages are repeated, within nested loops of which
  some have a bound and some none.
* **Two readers, one line.** What the controller says to the stop server the
  control server may read, and the other way round.
* **Lists read some time ago.** The GUI picks targets and holders by their place
  in lists that others may have changed since.
* **Event loops in event loops.** Each message box of the GUI runs timers and their
  slots while the slot that opened it waits, with a mutex locked or a widget about
  to be deleted.

`PROJECT.json` lists each hazard at its line with the properties that guard it.

## 2. The modules

| Module | Stands for |
| --- | --- |
| `Motion` | the control server's motion commands, the stop server, the controllers |
| `SlitPair` | abstract: what Motion promises about the two jaws |
| `MCMotionSlits`, `MCMotionDetectors` | instances of Motion |
| `MotionProofs` | its theorems |
| `Session` | the locks, queues and replies of the two servers, and their clients |
| `ExclusiveControl` | abstract: what the lock of one server promises |
| `MCSession` | instances of Session |
| `SessionProofs` | its theorems |
| `Tube` | the tube's commands, its serial line, the generator |
| `MCTube` | instances of Tube |
| `TubeProofs` | its theorems |
| `Ports` | the search over the serial ports by one server or two, the pressure gauge, the filter wheels |
| `MCPorts` | instances of Ports |
| `PortsProofs` | its theorems |
| `Fluorescence` | target holders, the motor that moves between targets, a GUI that shows them |
| `MCFluorescence` | an instance of Fluorescence |
| `FluorescenceProofs` | its theorems |
| `Line` | one controller's serial line, as the two servers share it |
| `MCLine` | an instance of Line |
| `LineProofs` | its theorems |
| `Widgets` | the GUI's thread with the widgets of tube and gauge, their timers and dialogs |
| `MCWidgets` | instances of Widgets |
| `WidgetsProofs` | its theorems |

The systems are separate modules because they meet in little: Session leaves out
what a command does; Motion, Tube, Ports and Fluorescence take up a command when
their server is idle, which is what `ExclusiveControl` promises. Motion takes a
question to a controller and its answer for one step, and Line is about when that
is right. Widgets lets the tube answer anything, so nothing of Tube is needed.

Definitions named `Faulty...` (and `EndlessAttempt`) are the definition after
them with a slip in it; nothing uses them in the specifications. They record, for
each property, a change to the code that it would notice.

### Motion and the code

* `pos` and `target` are the controller's; `cached`, `lower` and `upper` are
  `Motor::position`, `lowerLimit` and `upperLimit`. The stop server's own copies
  decide nothing and are left out.
* A client's command becomes a list of steps (`todo`), one for each message that
  moves something: `MoveAbs(c)`, `SetSlitWidth(c)` and so on accept a command
  when `pc = "idle"`, refuse it, or lay out its steps from the positions as they
  are known then - as `Slit::setSlitWidth` does with both jaws' targets.
* Each step is `Skip` ("Nothing to move"), `Throw` ("Beyond limits"), or `Send`
  and later `Settle`, when `ControllerWaitForIdle` has returned and
  `debugPositions` has read back the positions. `StepDone` contains
  `UpdateSlitLimits`. A calibration that did not reach 0 throws between the two.
* `Finish` verifies width or centre, as `setSlitWidth` and `setCenter` do.
* `Driven` gives an absolute move's effect on the other axes of the controller:
  they are sent to the server's copy of their position (`Controller.cpp:162-168`).
* `StopAll`, `Stop`, `SendStop` and `Stopped` are the stop server: ^C to a
  controller, wait for it, the next one.
* `Crash` kills the control server anywhere; `Restart` is the constructor of
  `Initialize`, which waits for each controller, reads positions and limits.
* `Drive` moves an axis one unit towards its target; so two axes, the servers and
  the stop interleave at every position.

Positions are integers and equality stands for the tolerance of `Motor::matches`
(0.000001). The centre is doubled so that it is an integer. `SetSlitWidth` and
`SetCenter` take only changes that are even, because half of the change goes to
each jaw; that is the one restriction on inputs, and with the finer unit it
implies nothing is lost.

### Session and the code

* `Request` is `Client::SendCommand` up to the write: the connection queues at
  the server of `Port(c)`, or fails at once.
* `TooFewArguments`, `Unlock`, `InUse`, `Execute` and `CloseServer` are the ways
  through `DecodeFunction`, in its order; `Executed` is the end of
  `executeCommand`. Users are told apart by name and host (`User`), not by process.
* `AcceptDialog` and `DeclineDialog` are the answers to "Unlock previous user?";
  the GUI's timers send commands (`Send`) while the question is open.
* `Crash` and `Start` are the server's; `Die` is a client's. A dead client's
  connection is served all the same, as it is by the code (SIGPIPE is ignored).

### Tube and the code

* A command is a program of steps (`Program`), most of which are a question:
  `Ask` writes it (`TubeSendCommand`), `Read` takes *all* there is in the buffer
  and looks at the first number, `GiveUp` is a read without an answer. `Attempt`
  counts `TUBE_MAX_REPEAT_ATTEMPTS`; `TubeOff` is the handler of `TubeOffError`.
* `NotYet`, `Unreadable`, `Fails` and `Rest` are what `Xray` does with an answer:
  the unbounded loops on a switching voltage or shutter, the repetition, the
  checks, and the early end of `isAccessPossible`.
* The generator is external and modelled from how the server uses it. `Obey`
  ignores what cannot be done; `Settle` ends what has begun; `Turn` is its key.
* In a case that is `slow`, an answer may come after the read has been given up;
  `MaxLate` bounds how many may be under way then. `Cases` pairs that with the
  commands tried, and `case` is the one looked at.

### Ports and the code

* `ReadLine` is one line of the configuration file; `Search`, `Open`, then
  `Probe`, `ProbeController` with `Serial`, or `ProbeFwheel` are the loop of
  `UpdateInterface`; `NotFound` is its end, with what `TubeMode`, `PressureMode`,
  `ControllerMode` and `FwheelMode` make of it. `Report` is the end of the
  constructor. The same steps serve a command that finds no tube or gauge.
* `opened` counts the `Interface` objects that keep a port open: `Close` is a
  validation that fails, which closes it, `Forget` a serial number that does not
  match, which does not. `Release` is the handler in `executeCommand`.
* `speed` belongs to the port, whoever set it. A device hears only what is sent at
  its speed (`Answers`), and may not be heard when the other server reads the same
  port at the time (`Heard`).
* `SetValue` is one try of `Fwheel::setValue`, in which the order may get lost and
  the reading may be odd.
* `Switch` is somebody at the switch of a device of a kind in `Switchable`;
  `excuse` remembers that, for the properties only.

### Fluorescence and the code

* `holders` and `current` are `Fluorescence::targetHolder` and
  `currentTargetHolder`; a holder is an array with the number of names in it,
  because `fllist` stops at that number and `getCurrentTargetName` does not.
* `Start` is what the configuration file makes of them, `addHolder`,
  `deleteLastTargetHolder`, `changefl`, `setCurrentTargetHolder`, `setfl` are the
  server's commands. `place` and `TargetAt` are the arithmetic of `moveToTarget`
  and `updateCurrentTarget`, with the rounding.
* `UpperLimit` is what the constructor sets (`S/Fluorescence.cpp:43`); a motor at
  that limit is one place past the last target, and the name looked up there is
  `Garbage`.
* The GUI's operations are lists of commands (`todo`), each a step, so that
  `Others` and `Restart` come between any two. `changed` is no state of the code:
  it says that somebody else has done something that the GUI has not looked at: a
  command of another client, a restart, or a stop that halted a drive of its own and
  that it takes no notice of. That is setfl's, whose answer it does not read, and a
  calibration's: halted, that is an error (`S/Controller.cpp:210`), after which
  `MotorMovedSignal` is not emitted (`Gui/src/MotorWidget.cpp:102`) and no getfl
  follows (`Calibrate`). After a halted moveabs or moverel it asks (`MoveMotor`).
* `circular` is the member of that name. `TargetName` looks at it, `Known` does not,
  as in `updateCurrentTarget` and `moveToTarget`: a wheel of a box with a laser goes
  to the laser's place and is then at no target. `LaserOnWheel` names that exception
  in the properties.
* `Refused` and `Denied` are commands without an answer; `Fallback` is what
  FluorWidget's handlers send then.

### Line and the code

* `Move`, `Depos` and `Stop` are what the servers order; each then goes through
  `ValidateController` (at the start), `ControllerWaitForIdle` and
  `debugPositions` as `step` says, an `Ask` and a `Read` at a time.
* `Read` takes all that there is, as `read` on the open line does, and what it is
  taken for depends on the numbers in it: `ControllerIsIdle` looks at the first,
  `ThreeNumbers` counts them.
* `ReadNothing` is a read given up, after which `ControllerSend` asks again; only
  `ValidateController` lets the server end.
* `Start` discards what is unread, the other server's answers too (`tcflush`).
* `shared` is no state of the code: it says whether the stop server used the line
  during the control server's command or had left something on it.

### Widgets and the code

* `todo` is the stack of the one thread. A slot is the list of its steps; a
  `"dialog"` on top is an event loop, in which `CloseDialog` and the timers are
  all that can happen; when it is closed what lies below goes on.
* The fields of `tube` are the enabled frames, the checked buttons and the two
  timers of `TubeWidget`; those of `gauge` the timer, the mutex and the box of
  `PGaugeWidget`. `groupTube` and `groupPressure` are Gui's.
* Each answer may be any, or none; one that reports the tube or gauge off has the
  widget deleted, through Gui's slot, by a signal of the widget's own. What the
  widget's slot does afterwards is undefined behaviour, and `Undefined` has the
  outcomes: nothing, or the end of the GUI.
* `Restart` is the GUI closed, killed or ended, and started again.

## 3. What the runs check

All runs check for deadlock as well.

| Run | Shows | Size |
| --- | --- | --- |
| `MotionSlits` | With stops and crashes anywhere, the jaws never touch, an "ok" to setslitwidth or setcenter is true in width *and* centre, only the named motor moves, the pair implements `SlitPair`; commands and stops are answered | 32 thousand states |
| `MotionDetectors` | With two controllers, reference points, limits set by clients, renumbering, range measurement, calibrations halted half-way and raw text: nothing moves at a decision and limits leave room | 964 thousand |
| `SessionLocks` | Replies are true and each server implements `ExclusiveControl`, every kind of command, deaths and restarts; stops are answered even if the control server never ends its command; if it does, every waiting client hears something | 123 thousand |
| `TubeSafety` | With a prompt tube, "yes" means no radiation, "ok" means done, "off" means off, the power is bounded; with any tube every command ends, late answers included | 80 thousand |
| `PortsSearch` | Ports are accounted for, devices are the right ones, at their speed, searches by command leak nothing, "off" and a failed start have a reason, a wheel said to be set is there, the start ends; two servers side by side | 146 thousand |
| `FluorTargets` | There is always a mounted holder; setfl ends at the target it names; names are looked up within a holder but at the motor's limit; a GUI left alone shows the truth or says that it cannot | 824 thousand |
| `LineTurns` | A command of the control server with the line to itself ends with the axis at rest and its position known; each server's commands end once the other is done, whatever they have taken from each other | 8 thousand |
| `Widgets` | One warm-up question at a time; locked controls have a timer that will unlock them; the shutter warning is right; the thread never waits for its own mutex; the pressure's refresh goes on | 3.0 million |
| `TubeLate` | **refuted**: "yes" means no radiation, when answers may come late | |
| `PortsWheelOff` | **refuted**: the start ends, when a filter wheel is off | |
| `LineShared` | **refuted**: the position a command ends with is the axis's, when the stop server uses the line | |
| `WidgetsWarmup` | **refuted**: shutters are disabled during a warm-up | |

### Bounds, and why they are enough

* `MotionSlits`: both jaws and the fluorescence stage on one controller, as on
  `corvus_2` of `config/config_xrayBox.txt`. `Individual = 4` and `Sum = 5` keep
  the relation of 100 to 105: each limit can be the one that binds. Widths and
  centres from one end to the other make each jaw the first to go, each target
  check fail and each move collide if it were not checked. The jaws start at 0 or
  1, and restart everywhere.
* `MotionDetectors`: two controllers, so that `stopall` takes two turns and a
  stop meets a command on the other controller; an axis with negative positions
  as the Huber motor has; reference points that move both axes, leave one alone
  (-1) and are out of reach. With `Sum = Individual = 2` the calibration of a jaw may
  be halted half-way, at 1, which leaves the other jaw's limit as it was (too small by
  one); and a jaw at its end leaves the other no room at all, so that the room of one
  place further would come out as -1, which means no limit.
* `SessionLocks`: a GUI and a command line of two users. More clients of the
  same users only lengthen the queues; the theorems hold for any number.
* `Tube`: a shutter in each of the two status registers, one not connected, two
  voltages and two currents of which the highest exceed the power together.
  `MaxAttempts = 2` has both a repetition and a last attempt; `MaxLate = 1` is
  the least that is late at all.
* `PortsSearch`: five ports for the ten of the code, and every kind of device, so
  that each search passes ports in use, ports of another kind and free ones; four
  ways of plugging, two of which miss a wheel or the gauge; two controllers, of
  which the first found may be the wrong one. The wheel's adapter does not tell
  its serial number. Two of the five tries of `setValue`: a repetition and a last
  one. Two servers search two smaller boxes, which keeps the interleavings small
  and has them meet on a tube, a controller and a wheel.

* `FluorTargets`: two places to a holder (`Places = 2`) have a first, a last, a
  place past the end and, between them, the laser; three configured targets leave
  the second holder half full, and another holder has one name twice. With
  `MaxHolders = 2` the last holder can be deleted and added under the GUI's
  hands. The places are three units apart, so that rounding goes both ways. The
  stage and the wheel are both initial states.
* `LineTurns`, `LineShared`: one axis with a place between two ends (`Far = 2`),
  because what is wrong is read on the way. The answers unread have no bound: at
  most one for each server, and those of the dead until the next start, so there
  are few.
* `Widgets`: a box with tube and gauge (`Boxes`); `WidgetsWarmup` has the tube
  alone. `MaxSteps = 4` bounds the stack when a timer goes off or a question is
  asked: enough for a slot in the dialog of another one, the case all its
  properties are about.

### Fairness, and why the code justifies it

* Motion, `FairSpec`: axes that were told to move get there, the control server
  goes on with the command it has, the stop server goes on. Nothing makes clients
  send, the server crash or start. `ControllerWaitForIdle` polls without limit and
  ends when the axes rest. `StopAnswered` is stated under the condition that
  clients leave the control server alone in the end: `Controller::stop` waits for
  an idle controller, and a control server that keeps moving it could keep the
  stop server waiting.
* Session, `FairSpec`: the stop server works through its loop. That the control
  server does as well is a premise of `ClientAnswered` only. A client that
  connects also sends: the server reads without a limit (`S/Server.cpp:190`), and
  a client that stays connected and silent would hold it up.
* Tube, `FairSpec`: the server's loops run, the generator settles, the line
  delivers. Nothing is assumed of the key: `CommandEnds` holds whatever is turned.
* Ports, `FairSpec`: the servers' loops run. Reads end, with or without an answer.
  That controllers and filter wheels are on before the server is started, and stay
  so, is part of the model (`Switchable`), and `PortsWheelOff` shows what happens
  otherwise. `StartEnds` is stated for one server: two that start at once may take
  each other's answers for as long as both ask.

* Line, `FairSpec`: the axis gets where it is sent, and each server's loop of
  asking and reading goes on. Nobody needs to order anything, die or start.
  `CommandEnds` is stated for a server whose fellow is done in the end: two that
  ask in turns may take each other's answers for as long as they do, and the code
  has nothing but chance against it.

## 4. What is proved

The seven modules `...Proofs` prove, for all values of the constants that meet the
assumptions:

| Module | Theorem | States |
| --- | --- | --- |
| Motion | `TypeCorrect`, `Invariant` | types; the inductive invariant |
| | `NoCollision` | the jaws never touch |
| | `SafeGoals` | neither jaw is ever driven to where the other is or goes |
| | `DecidesAtRest` | nothing moves when the control server decides |
| | `LimitsSound` | before each decision, the jaws are where the server believes and limits leave room |
| | `Refinement` | Motion implements `SlitPair` |
| | `SlitAnswersTrue` | an "ok" to setslitwidth or setcenter is true of width and centre, until the next command |
| | `OnlyNamed` | without raw text, nothing but the motor of the step in progress moves |
| Session | `SessionTypeCorrect`, `SessionInvariant` | types; the inductive invariant |
| | `TrueReplies` | "ok" only after, and refusals only without, the command |
| | `Exclusive` | each server implements `ExclusiveControl` |
| Tube | `TypeCorrect` | types |
| | `YesIsKept` | with prompt answers, a "yes" to issafe means no radiation, until the next command |
| | `OkIsKept` | with prompt answers and the key left alone, an "ok" means that the tube has obeyed |
| | `OffIsTrue` | with prompt answers, a tube called off was off, or its key was turned |
| | `PowerStaysBounded` | with prompt answers, no sequence of commands exceeds the power |
| Ports | `TypeCorrect` | types |
| | `NoPortTwice` | no port is held by two devices of a server, whatever the adapters tell |
| | `MarksAreTrue` | a port is marked used exactly when one device holds it (*) |
| | `FoundWhereItIs` | a device that has a port is the one plugged in there (*) |
| | `LinesKeepTheirSettings` | alone, a line in use has the settings of its device |
| | `WheelIsSet` | alone, "ok" to setfw means that the wheel is there |
| | `OffHasReason` | alone, a failed start or an "off" has a reason (*) |
| | `NothingLeaksLater` | after the start no further port stays open without a device |
| Fluorescence | `HoldersTyped`, `FluorescenceInvariant` | types, of which one is that the current holder exists; the inductive invariant |
| | `TargetsReached` | setfl ends at the target it was asked for, unless halted; a wheel sent to the laser says that it is at none |
| | `GuiTruthful` | a GUI left alone, by clients and by stops, shows the holder and target there are, or the laser's place for a wheel there |
| | `LookupsBounded` | no name is looked up past the end, but at the motor's limit |
| Line | `LineTypeCorrect`, `LineInvariant` | types; the inductive invariant |
| | `AloneIsRight` | with the line to itself, a command ends at rest with the position known |
| Widgets | `TypeCorrect` | types; a locked mutex has a step that unlocks it |
| | `ControlsComeBack` | locked controls have a timer that unlocks them |
| | `WarningIsTrue` | with nothing pending, the shutter warning is right |
| | `AsksOnce` | at most one question about a warm-up waits for the user |
| | `NoSelfDeadlock` | the thread never waits for a mutex it holds |
| | `RefreshGoesOn` | while the pressure is to be refreshed, its timer runs or will |

(*) under a hypothesis about the box, given below.

**Assumptions.** Of Motion: the jaws are two motors whose lower limit is 0 (as in
every configuration file) and among those that refuse setpos and limits,
`Individual <= Sum`, neither jaw is an axis of the reference points, and nobody drives a *jaw*
with raw controller text (`CommandsAssumption`); raw text to any other motor is
allowed. Initially the jaws do not touch. Of Session: GUIs are clients, each client
has a user. Of Tube: limits are in order and the lowest voltage and current are
within the power together. Of Ports: finitely many servers, no controller
or wheel twice in the configuration file, setfw of a wheel there is. Of Fluorescence: places are at
least one unit apart and start less than half of that from 0 (`Offset`), and the
laser lies within the motor's range at no target's place nor at its end, as
`LINEAR_LASER_POSITION` does for stage and wheel. Of Line: the axis has at least two places. Of Widgets: `NULL` is no widget.

Some theorems have a hypothesis of their own, without which the code does not do
what they say:

* `OnlyNamed` has `RawMotors = {}`: after raw text the server's copy of that axis is
  stale, and the next absolute move of *another* motor of the controller drives the
  axis back to it (section 5).
* `MarksAreTrue` and `FoundWhereItIs` have `Identified(box)`: what an adapter tells
  (or `Fallback` where it tells nothing) is the serial number of a wheel of the
  configuration file only if that wheel is there, and at one port only. That is what
  `FwheelMode` takes for granted. Where two adapters tell nothing, the server may
  take the wrong one for the wheel; and when the setup of a wheel fails during the
  start, the search goes on with that port still marked, so that a second adapter
  of the same name takes the wheel over and leaves a mark on a port without device.
* `OffHasReason` has `Regular(box)`, which adds that the adapters of those wheels do
  tell, and that there is one tube and one gauge; otherwise a wheel that is in the box
  and on is not found, or one of two tubes is. It also wants `"CONTROLLER" \notin
  Switchable`: a controller that is off before the start fails the start while none
  is missing.

All boxes of `PortsSearch` are `Identified` and `Regular`, and nobody switches a
controller there, so that the run checks the same statements.

**Motion.** `NoCollision` is not inductive: from an arbitrary safe state with a jaw
in flight, the next step could send the other one. `MInv` adds what excludes that:
when the server decides, everything is still (`StillBetweenSteps`) and the copies of
the jaws are true (`JawsKnown`); while a step waits, only its own motor and its
controller may be moving (`OthersStill`), so that one jaw at most is in flight
(`OneJawInFlight`); goals are safe against position and goal of the other jaw
(`GoalsSafe`); each limit leaves room for the other jaw *as the server knows it*
(`LimitsKnown`), which needs no update after a failed calibration because a
calibration only withdraws (`CalWithdraws`); no remaining step drives a jaw
unchecked (`ChecksAhead`). The proof has a lemma for each action. That the invariant
survives `Send` is the heart of it: the target passed the jaw's limit, the limit
leaves the other jaw its room, and the other one is still. That it survives a stop
is `SendStopKeeps`: a halted goal is a position, and positions were safe.

`OnlyNamed` and `SlitAnswersTrue` each add an invariant to that. An absolute move
sends every other axis of the controller to the server's copy of its position, so
that they stay where they are only if all copies are true (`OthersKnown`), but for
those of motors driven by raw text and of the one that is waited for. An "ok" to a
slit command rests on a check of the *width* or of the *centre* alone (`Finish`),
which jaws in many other places would pass as well. `AInv` says why it does not:
either jaw is, and is sent to, somewhere on the way from where it was to where it
should be (`JawsOnWay`), half of the change each; both go their whole way or the
check fails, because for setslitwidth both ways have the same sign and for setcenter
opposite ones. The answer stays true until the next command (`OkStands`), crashes
and restarts included.

**Session.** A reply is true because what is executed is what was at the head of a
queue, a client stands in one queue at most, and only once (`QueuedOnce`,
`ServedOnce`), a client that is ready to send stands in none (`ReadyIsFree`), and
nothing of a queued command has been done (`QueuedNotBegun`). `Exclusive` follows
from `ServedIsHolder`.

**Tube.** A command's remaining steps are the end of its program (`OnPlan`, which
counts them down), so that the invariant can speak of what has been looked at by the
number of steps left. With prompt answers, there is on the line the answer to the
open question and no other (`OneAnswer`), and what it says is still so when it is
read, though the tube may have settled in between (`Fits`): a shutter that was shut
does not open by itself, and a voltage that was off stays off until it is ordered.
From there each answer has its own part: `ShutSoFar` for issafe, which looks at the
shutters one after the other and at the high voltage last; `WithinLimit` for setv
and setc, which compare with the value of the other that they have just read;
`Looked` and `Dark` for what is never ordered.

**Ports.** `PInv` is stated server by server, which is possible because servers
share nothing but lines' settings, and those matter only to a server alone. It says
what a server knows of itself by where it is (`Phases`), that a search looks at free
ports only (`Looking`, with `Reached` for the port it has), which wheels have been
read from the configuration file (`Complete`), and for each port that it is held
once, marked and open (`Held`), marked only if held (`Marked`) and by what is
plugged in there (`Matches`). `Marked` is where `Identified` is needed: it has the
search that goes on after a failed setup find nothing. `OffHasReason` needs a second
invariant, `OffInv`, about the search as a whole: the ports it has passed are in use
or do not have what is wanted (`Passed`); what already has a port was named by an
earlier line (`FromLines`), so that a port in use is not the one wanted now; and
what the start has found was on (`FoundOn`).

**Fluorescence.** That setfl is true of the motor needs arithmetic only: the index
computed from a target's place is that target's (`TargetAt` undoes `place`, because
a remainder is less than half a width), the laser is elsewhere, and every place is
within the limit. The laser of a wheel is at no place either (`LaserApart`), so that
setfl to it answers None. Among targets of the same name the *first* is meant, and that
there is a first one is shown by well-foundedness of the order of indices, without
induction. The GUI is right because of what its pending commands are about to read:
`FInv` says, for each list of commands that can be pending, whether the holder shown
is already the mounted one (`HolderAgrees`), and which lists there can be (`Todos`).

**Line.** Where the control server is alone (`Alone`), there is on the line the
answer to its question and nothing else (`OwnAnswer`): the stop server is neither
asking nor has it left anything, or the command would count as shared. An answer
"idle" read then is true still, because nobody sends the axis anywhere in the middle
of the command, so that the axis is at rest when its position is asked for
(`AxisAtRest`). The case that makes the invariant necessary is `Start`, which
discards answers, and `Crash`, which leaves them to others.

**Widgets.** The invariant is about the stack of the thread, at every depth that
`MaxSteps` allows. `Shape` says what can lie below what: the slot that enables the
tube's widget is at the bottom, only one step at a time can lead to the question, a
mutex is locked first and unlocked later. The *debts* say that what is not right now
has somebody to put it right: a locked mutex has its `"unlock"` in the stack
(`GaugeDebts`), locked controls have a timer or the end of a warm-up's beginning, a
warning that is wrong has a check to come (`TubeDebts`). The hard step is
`CloseDialog`, and a timer's slot in a dialog's event loop: each adds and removes
steps on top of a stack that owes something already.

**Only model-checked.** Every safety invariant and action property of the passing
runs is stated by a theorem; for `PortsAccounted`, `RightDevice`, Ports'
`OffMeansOff` and `OnlyNamedMotorMoves` under the hypotheses above. What is left to
TLC is liveness: `CommandAnswered` and `StopAnswered` (Motion), `ClientAnswered` and
`StopAnswered` (Session), `CommandEnds` (Tube, Line) and `StartEnds` (Ports),
because fairness needs `ENABLED`, which is beyond the prover. Induction over data
is, too; the proofs need none. The properties of the four runs that refute them are
false and have no proof.

## 5. Where code and documents disagree

* **Late answers of the tube** (`S/Interface.cpp:355`). One that arrives after
  its read was given up is taken for the answer to the next question, and from
  then on all are shifted. Run `TubeLate`.
* **A filter wheel that is off** (`S/Interface.cpp:622`). Its validation counts one
  attempt against five and never fails, so that the order to go to the start
  position is repeated for ever and the start hangs. Run `PortsWheelOff`.
* **Two servers on a controller's line** (`S/Interface.cpp:220`). A state that the
  stop server asked for before a move is read by the control server after it; the
  wait ends at once, and the answer to moveabs, "current position" by
  `README.md:87`, is a place on the way. Run `LineShared`.
* **A ramp's timer in a warm-up** (`Gui/src/TubeWidget.cpp:579`). The timer that
  follows voltage and current while they ramp enables shutters and controls when it
  ends, although a warm-up has begun since. `README.md:204` enables them with "no
  warm up in progress". Run `WidgetsWarmup`.

Seen while modelling, without a run of their own:

* istube (`S/Initialize.cpp:757`) is answered with an error, where `README.md:78`
  promises on, off or standby, when a known tube has been switched off; its
  `tube off` reply is a step of `Tube`.
* `lastCmdUnlock` (`S/Server.cpp:92`) is reset before it is tested at line 97, so
  that the first command of a GUI after an unlock need not be "list", as
  `S/Server.cpp:95-96` wants it. Session has it as the code does.
* `sendcontroller` (`S/Controller.cpp:240`) does not refresh the copies of
  positions, and the next moveabs on that controller sends the motor that raw text
  has moved back to its old place (`S/Controller.cpp:165`). `OnlyNamedMotorMoves`
  is checked without raw text for that reason.
* A target that is not there. When a calibration by the GUI is halted, the old target
  stays shown, because only an answer leads to getfl (`Gui/src/MotorWidget.cpp:102`);
  the answer of setfl, which says None when it was halted, is not read
  (`Gui/src/FluorWidget.cpp:199-204`). `GuiShowsTruth` counts either as interference.
* In an XRAYBOX build setfl of a wheel to Laser moves to the stage's laser position
  and answers None (`S/Fluorescence.cpp:182-186`, which does not look at `circular`
  as line 149 does). `TargetReached` and `GuiShowsTruth` name that exception.
* The order of a second try of `Fwheel::setValue` is followed by the text of the first
  failure, because `oss.clear()` (`S/Fwheel.cpp:116`) empties nothing. `SetValue` keeps
  no text; that each try's order may be lost and its reading odd covers what a wheel
  makes of it.
* setref goes on to the next axis after a halted one and answers ok
  (`S/ReferencePoints.cpp:72`).
* A GUI that is closed sends unlock, which is executed whoever holds the server
  (`Gui/src/Gui.cpp:514`).

## 6. What is not modelled, and why

* Formatting of replies, logging, the windows' contents, parsing of the
  configuration file: text.
* Readings that change nothing (getv, getc, getp, getlist, ...) and raw text to
  the tube (sendtube, readtube, clear), which may do anything.
* Virtual builds (`#ifdef VIRTUAL`), in which every move is immediate.
* Motion and Line together: Motion takes a question to a controller and its answer
  for one step, as `AloneIsRight` justifies for commands with the line to
  themselves. What Motion's properties become when the stop server's questions are
  in between is shown for one axis only, by `LineShared`.
* A controller that is switched off: ControllerSend asks it for ever.
* The windows of motors, slits, wheels, reference points and options: each sends
  commands and shows their answers, as FluorWidget does with more to get wrong.
* A client that connects and stays silent (see section 3, Session).
* Warm-up time and the tube's error texts.
* In Ports, the motors and the tube's own commands: `tube` and `pressure` stand for
  every command that asks the device. Readings of wheels (getfw, fwvals), and that
  `getPressure` asks again for ever while it cannot scan the numbers.

## 7. Plan

Done: `Motion` with `SlitPair`, `Session` with `ExclusiveControl`, `Tube`, `Ports`,
`Fluorescence`, `Line`, `Widgets`, and the proofs above.

To do, in this order:

1. A composition of Session with Motion: a stop by another user in the middle of
   a command; who is told what.
2. Motion with Line's questions and answers: what keeps the jaws apart when the
   control server's copy is a place on the way.
3. Proofs of what these add; and that a server of `Ports` implements an abstract
   table of devices and ports, for which `MarksAreTrue` and `FoundWhereItIs` have
   the steps.
