------------------------------ MODULE Widgets -------------------------------
(***************************************************************************)
(* The GUI's one thread, with the widgets of the X-ray tube (TubeWidget)   *)
(* and of the pressure gauge (PGaugeWidget) and the part of Gui that makes *)
(* and deletes them.  A slot runs to its end, but each dialog it opens is  *)
(* an event loop of its own: the user can do no more than answer it, while *)
(* timers go off and their slots run inside it.                            *)
(*                                                                         *)
(* "todo" is the thread's stack: what the slot still has to do, and below  *)
(* a dialog what the one that opened it has.  A step is one command to the *)
(* server, with what follows its answer; commands in a row that only fill  *)
(* in displays are one.  Other users change what the tube does, and may    *)
(* switch it off, at any time: each answer may be any.                     *)
(***************************************************************************)
EXTENDS Integers, Sequences

CONSTANTS
  NULL,     \* in the place of a widget: there is none
  Boxes,    \* the boxes to look at: what is in each, of "tube" and "gauge"
  MaxSteps  \* bound: with more to do no timer goes off and no question is asked

VARIABLES
  fitted,       \* what the box has; the rest is never found on
  tube,         \* Gui::tube
  groupTube,    \* is its box checked?
  gauge,        \* Gui::pgauge
  groupPressure,
  todo,         \* the steps to come
  left          \* did getwtime last answer that the warm-up has time left?

boxes   == <<groupTube, groupPressure>>
widgets == <<tube, gauge, boxes>>
vars    == <<fitted, widgets, todo, left>>

(* A new TubeWidget: what is enabled in its form. *)
NewTube ==
  [shutters |-> FALSE,  \* chkShutters has been filled
   button   |-> FALSE,  \* pushHighVoltage is checked
   box      |-> FALSE,  \* the shutter's box is checked
   controls |-> TRUE,   \* frameHighVoltage and frameVoltage
   frame    |-> TRUE,   \* frameShutters
   warning  |-> TRUE,   \* frameWarning
   warmup   |-> FALSE,  \* groupWarmup
   actual   |-> FALSE,  \* timerActual runs
   timer    |-> FALSE]  \* timerWarmup runs

NewGauge == [refresh |-> TRUE, timer |-> FALSE, mutex |-> FALSE]

ASSUME WidgetsAssumption ==
  /\ Boxes \subseteq SUBSET {"tube", "gauge"} /\ MaxSteps \in Nat
  /\ NULL \notin [DOMAIN NewTube -> BOOLEAN]

TubeSteps ==
  {"connected", "values", "display", "gethv", "showhv", "getshutters", "warning",
   "setshutter", "set", "hv_on", "hv_off", "switched", "actual", "frames",
   "remaining", "check_update", "check_set", "check_hv", "question", "warmup",
   "started", "timing", "begin", "tube_off"}

GaugeSteps == {"lock", "pressure", "stop", "again", "gauge_off", "unlock"}

GuiSteps ==
  {"update_gauge", "ispressure", "disable_gauge", "gauge_shown",
   "update_tube", "istube", "disable_tube", "tube_shown"}

Steps == TubeSteps \cup GaugeSteps \cup GuiSteps \cup {"dialog"}

-----------------------------------------------------------------------------
Idle == todo = << >>

At(step) == todo # << >> /\ Head(todo) = step

(* A step that is not undefined: its widget is there. *)
Now(step) ==
  /\ At(step)
  /\ step \in TubeSteps => tube # NULL
  /\ step \in GaugeSteps => gauge # NULL

Then(steps) == todo' = steps \o Tail(todo)

Pending(step) == \E i \in 1..Len(todo) : todo[i] = step

(* SendTubeCommand without an answer: first it says why. *)
NoAnswer(steps) ==
  \/ Then(<<"dialog">> \o steps)
  \/ Then(<<"dialog", "tube_off">> \o steps)

Warns(t) == t.button /\ t.shutters /\ t.box

(* CheckWarning, once the widget is t. *)
CheckWarning(t) == tube' = [t EXCEPT !.warning = Warns(t)]

(* QWidget::isEnabled, which asks the boxes around the widget too. *)
Enabled(part) == part /\ groupTube

-----------------------------------------------------------------------------
(* TubeWidget: what it reads *)

(* GetConnectedShutters, from the constructor. *)
GetConnectedShutters ==
  /\ Now("connected")
  /\ \/ Then(<< >>) /\ tube' = [tube EXCEPT !.shutters = TRUE]
     \/ NoAnswer(<< >>) /\ UNCHANGED tube
  /\ UNCHANGED <<fitted, gauge, boxes, left>>

(* ClearError ends with it. *)
DisplayTubeError ==
  /\ Now("display")
  /\ Then(<< >>) \/ NoAnswer(<< >>)
  /\ UNCHANGED <<fitted, widgets, left>>

(* GetVoltage, GetCurrent, GetActualVoltage and GetActualCurrent. *)
GetValues ==
  /\ Now("values")
  /\ Then(<< >>) \/ NoAnswer(<< >>)
  /\ UNCHANGED <<fitted, widgets, left>>

(* The warning is left to GetShutters. *)
FaultyShown(t) == tube' = [t EXCEPT !.frame = t.button]

(* setEnabled(hv) and CheckWarning at the end of GetHighVoltage. *)
Shown(t) == CheckWarning([t EXCEPT !.frame = t.button])

GetHighVoltage ==
  /\ Now("gethv")
  /\ \/ Then(<< >>) /\ \E on \in BOOLEAN : Shown([tube EXCEPT !.button = on])
     \/ NoAnswer(<<"showhv">>) /\ UNCHANGED tube
  /\ UNCHANGED <<fitted, gauge, boxes, left>>

ShowHighVoltage ==
  /\ Now("showhv") /\ Then(<< >>) /\ Shown(tube)
  /\ UNCHANGED <<fitted, gauge, boxes, left>>

GetShutters ==
  /\ Now("getshutters")
  /\ \/ /\ Then(<< >>)
        /\ \E open \in BOOLEAN :
             CheckWarning([tube EXCEPT !.box = IF tube.shutters THEN open ELSE @])
     \/ NoAnswer(<<"warning">>) /\ UNCHANGED tube
  /\ UNCHANGED <<fitted, gauge, boxes, left>>

ShowWarning ==
  /\ Now("warning") /\ Then(<< >>) /\ CheckWarning(tube)
  /\ UNCHANGED <<fitted, gauge, boxes, left>>

(* Update instead, which asks about the warm-up. *)
FaultyUpdateValues == <<"values", "remaining">>

UpdateValues == <<"display", "gethv", "getshutters", "values", "actual">>

UpdateActualValues == <<"gethv", "values", "frames">>

(* The timer is started by the first look only. *)
FaultyRamping(t) ==
  [t EXCEPT !.actual = Enabled(t.controls), !.controls = @ /\ ~groupTube,
            !.frame = @ /\ ~Enabled(t.controls)]

(* UpdateActualValues once it knows them: if they are not yet those that   *)
(* were set, which is left open, it locks the controls and looks again.    *)
Ramping(t) ==
  [t EXCEPT !.actual = TRUE, !.controls = @ /\ ~groupTube, !.frame = @ /\ ~Enabled(t.controls)]

Ramped(t) == [t EXCEPT !.controls = TRUE, !.frame = TRUE]

Frames ==
  /\ Now("frames") /\ Then(<< >>)
  /\ \/ tube.button /\ tube' = Ramping(tube)
     \/ tube' = Ramped(tube)
  /\ UNCHANGED <<fitted, gauge, boxes, left>>

(* The end of UpdateValues, SetVoltage and SetCurrent, and of SetHighVoltage. *)
Actual ==
  /\ Now("actual") \/ Now("switched")
  /\ IF tube.button THEN Then(UpdateActualValues)
     ELSE Then(IF Now("switched") THEN <<"getshutters", "values">> ELSE <<"values">>)
  /\ UNCHANGED <<fitted, widgets, left>>

-----------------------------------------------------------------------------
(* TubeWidget: what it sets. *)

SetHighVoltage(on) ==
  /\ Now(IF on THEN "hv_on" ELSE "hv_off")
  /\ CheckWarning([tube EXCEPT !.frame = on])
  /\ Then(<<"gethv", "switched">>) \/ NoAnswer(<<"gethv", "check_hv">>)
  /\ UNCHANGED <<fitted, gauge, boxes, left>>

(* SetVoltage and SetCurrent: what is read back is what the other changed. *)
SetValue ==
  /\ Now("set")
  /\ Then(<<"gethv", "values", "actual">>) \/ NoAnswer(<<"check_set">>)
  /\ UNCHANGED <<fitted, widgets, left>>

(* SetShutters, after the click; without an answer the box is set back. *)
SetShutters ==
  /\ Now("setshutter")
  /\ Then(<< >>) \/ NoAnswer(<<"getshutters">>)
  /\ UNCHANGED <<fitted, widgets, left>>

-----------------------------------------------------------------------------
(* TubeWidget: the warm-up *)

(* The caller of CheckWarmup goes on with that if it returns 0. *)
GoesOn ==
  CASE Head(todo) = "check_update" -> UpdateValues
    [] Head(todo) = "check_set"    -> <<"gethv", "values", "actual">>
    [] OTHER                       -> <<"gethv", "switched">>

(* The error code is 0, or 70 and is cleared, or a number that cannot be   *)
(* read, or a required warm-up, or another one.                            *)
CheckWarmup ==
  /\ Now("check_update") \/ Now("check_set") \/ Now("check_hv")
  /\ \/ Then(GoesOn)
     \/ Then(<<"display">> \o GoesOn)
     \/ Then(<<"dialog">> \o GoesOn)
     \/ Len(todo) <= MaxSteps /\ Then(<<"question">>)
     \/ Then(<<"dialog">> \o UpdateValues)
     \/ NoAnswer(<<"dialog", "display">> \o GoesOn)
  /\ UNCHANGED <<fitted, widgets, left>>

AcceptWarmup ==
  /\ Now("question") /\ Then(<<"hv_off", "warmup">>)
  /\ UNCHANGED <<fitted, widgets, left>>

DeclineWarmup ==
  /\ Now("question") /\ Then(<<"dialog", "display">> \o UpdateValues)
  /\ UNCHANGED <<fitted, widgets, left>>

(* The tube switches the high voltage on for it. *)
StartWarmup ==
  /\ Now("warmup")
  /\ Then(<<"started">>) \/ NoAnswer(<<"dialog", "display">>)
  /\ UNCHANGED <<fitted, widgets, left>>

(* GetWarmupTimeRemaining, which asks until it knows, and then: *)
AskAgain == NoAnswer(<<Head(todo)>>)

(* No time remains when the warm-up has failed: the error code is 0, or    *)
(* another one, or cannot be read, or there is no answer.                  *)
Failed ==
  \/ Then(UpdateValues) \/ Then(<<"dialog">> \o UpdateValues)
  \/ Then(<<"dialog">>) \/ NoAnswer(<<"display">>)

Started ==
  /\ Now("started")
  /\ \/ Then(<<"timing">>) /\ left' = TRUE
     \/ Failed /\ left' = FALSE
     \/ AskAgain /\ UNCHANGED left
  /\ UNCHANGED <<fitted, widgets>>

Remaining ==
  /\ Now("remaining")
  /\ \/ Then(<<"timing">>) /\ left' = TRUE
     \/ Then(<<"check_update">>) /\ left' = FALSE
     \/ AskAgain /\ UNCHANGED left
  /\ UNCHANGED <<fitted, widgets>>

(* UpdateWarmupTiming *)
Locked(t) ==
  [t EXCEPT !.warmup = TRUE, !.controls = FALSE, !.frame = FALSE, !.warning = FALSE]

Unlocked(t) ==
  [t EXCEPT !.warmup = FALSE, !.controls = TRUE, !.frame = TRUE,
            !.warning = @ /\ Enabled(t.warmup)]

Timing ==
  /\ Now("timing")
  /\ \/ /\ ~Enabled(tube.warmup) /\ left' = TRUE
        /\ Then(<<"dialog", "begin">>) /\ UNCHANGED tube
     \/ /\ Enabled(tube.warmup) /\ left' = TRUE
        /\ Then(<< >>) /\ tube' = [tube EXCEPT !.timer = TRUE]
     \/ Then(UpdateValues) /\ tube' = Unlocked(tube) /\ left' = FALSE
     \/ AskAgain /\ UNCHANGED <<tube, left>>
  /\ UNCHANGED <<fitted, gauge, boxes>>

(* The dialog that announces the warm-up has been closed. *)
Begin ==
  /\ Now("begin") /\ Then(<< >>)
  /\ tube' = [Locked(tube) EXCEPT !.timer = TRUE]
  /\ UNCHANGED <<fitted, gauge, boxes, left>>

TubeStep ==
  \/ GetConnectedShutters \/ DisplayTubeError \/ GetValues
  \/ GetHighVoltage \/ ShowHighVoltage \/ GetShutters \/ ShowWarning
  \/ Frames \/ Actual \/ SetValue \/ SetShutters
  \/ \E on \in BOOLEAN : SetHighVoltage(on)
  \/ CheckWarmup \/ StartWarmup \/ Started \/ Remaining \/ Timing \/ Begin

-----------------------------------------------------------------------------
(* PGaugeWidget *)

(* The thread would wait for itself. *)
Lock ==
  /\ Now("lock") /\ ~gauge.mutex
  /\ Then(<< >>) /\ gauge' = [gauge EXCEPT !.mutex = TRUE]
  /\ UNCHANGED <<fitted, tube, boxes, left>>

Unlock ==
  /\ Now("unlock")
  /\ Then(<< >>) /\ gauge' = [gauge EXCEPT !.mutex = FALSE]
  /\ UNCHANGED <<fitted, tube, boxes, left>>

(* The timer is stopped while the command is on its way and a dialog open. *)
GetPressure ==
  /\ Now("pressure")
  /\ \/ Then(<< >>) /\ gauge' = [gauge EXCEPT !.timer = gauge.refresh]
     \/ Then(<<"dialog", "again">>) /\ gauge' = [gauge EXCEPT !.timer = FALSE]
     \/ /\ Then(<<"dialog", "gauge_off">>)
        /\ gauge' = [gauge EXCEPT !.timer = FALSE, !.refresh = FALSE]
  /\ UNCHANGED <<fitted, tube, boxes, left>>

(* The timer is restarted after a good answer only. *)
FaultyRestartTimer ==
  /\ Now("again") /\ Then(<< >>)
  /\ UNCHANGED <<fitted, widgets, left>>

RestartTimer ==
  /\ Now("again") /\ Then(<< >>)
  /\ gauge' = [gauge EXCEPT !.timer = @ \/ gauge.refresh]
  /\ UNCHANGED <<fitted, tube, boxes, left>>

(* EnableUpdate(false) *)
StopTimer ==
  /\ Now("stop")
  /\ Then(IF gauge.timer THEN <<"dialog">> ELSE << >>)
  /\ gauge' = [gauge EXCEPT !.timer = FALSE]
  /\ UNCHANGED <<fitted, tube, boxes, left>>

GaugeStep == Lock \/ Unlock \/ GetPressure \/ RestartTimer \/ StopTimer

-----------------------------------------------------------------------------
(* Gui *)

LoadTubeWidget ==
  /\ At("istube")
  /\ \/ /\ "tube" \in fitted /\ tube = NULL /\ tube' = NewTube
        /\ Then(<<"connected", "values", "remaining", "tube_shown">>)
     \/ /\ "tube" \in fitted /\ tube # NULL /\ UNCHANGED tube
        /\ Then(<<"values", "remaining", "tube_shown">>)
     \/ /\ Then(<<"disable_tube">>) \/ Then(<<"dialog", "disable_tube">>) \/ Then(<<"dialog">>)
        /\ UNCHANGED tube
  /\ UNCHANGED <<fitted, gauge, boxes, left>>

(* The rest of EnableTubeWidget(true), after Update: the signal is         *)
(* connected again.                                                        *)
TubeShown ==
  /\ At("tube_shown") /\ Then(<< >>)
  /\ groupTube' = TRUE
  /\ UNCHANGED <<fitted, tube, gauge, groupPressure, left>>

(* EnableTubeWidget(false), from LoadTubeWidget or by SwitchedOffSignal,   *)
(* which nobody receives until EnableTubeWidget(true) is done.             *)
DisableTube ==
  /\ \/ At("disable_tube")
     \/ Now("tube_off") /\ ~Pending("tube_shown")
  /\ Then(<< >>)
  /\ tube' = NULL /\ groupTube' = FALSE
  /\ UNCHANGED <<fitted, gauge, groupPressure, left>>

LoadPressureWidget ==
  /\ At("ispressure")
  /\ \/ /\ "gauge" \in fitted
        /\ gauge' = IF gauge = NULL THEN NewGauge ELSE gauge
        /\ Then(IF gauge'.refresh THEN <<"lock", "pressure", "unlock", "gauge_shown">>
                ELSE <<"gauge_shown">>)
     \/ /\ Then(<<"disable_gauge">>) \/ Then(<<"dialog", "disable_gauge">>) \/ Then(<<"dialog">>)
        /\ UNCHANGED gauge
  /\ UNCHANGED <<fitted, tube, boxes, left>>

GaugeShown ==
  /\ At("gauge_shown") /\ Then(<< >>)
  /\ groupPressure' = TRUE
  /\ UNCHANGED <<fitted, tube, gauge, groupTube, left>>

DisableGauge ==
  /\ \/ At("disable_gauge")
     \/ Now("gauge_off") /\ ~Pending("gauge_shown")
  /\ Then(<< >>)
  /\ gauge' = NULL /\ groupPressure' = FALSE
  /\ UNCHANGED <<fitted, tube, groupTube, left>>

(* A signal that nobody receives. *)
Unheard ==
  /\ \/ Now("tube_off") /\ Pending("tube_shown")
     \/ Now("gauge_off") /\ Pending("gauge_shown")
  /\ Then(<< >>)
  /\ UNCHANGED <<fitted, widgets, left>>

(* Gui::Update, as far as the two are concerned. *)
UpdateChecked ==
  /\ \/ At("update_gauge") /\ Then(IF groupPressure THEN <<"ispressure">> ELSE << >>)
     \/ At("update_tube") /\ Then(IF groupTube THEN <<"istube">> ELSE << >>)
  /\ UNCHANGED <<fitted, widgets, left>>

(* A widget deleted by the signal that its own slot emits: what that slot  *)
(* still does with it has no effect, or the GUI ends (Restart).            *)
Undefined ==
  /\ ~Idle /\ Then(<< >>)
  /\ \/ Head(todo) \in TubeSteps /\ tube = NULL
     \/ Head(todo) \in GaugeSteps /\ gauge = NULL
  /\ UNCHANGED <<fitted, widgets, left>>

GuiStep ==
  \/ LoadTubeWidget \/ TubeShown \/ DisableTube
  \/ LoadPressureWidget \/ GaugeShown \/ DisableGauge
  \/ Unheard \/ UpdateChecked \/ Undefined

-----------------------------------------------------------------------------
(* The events: what the user does, *)

ClickHighVoltage ==
  /\ Idle /\ tube # NULL /\ Enabled(tube.controls)
  /\ tube' = [tube EXCEPT !.button = ~ @]
  /\ todo' = <<IF tube'.button THEN "hv_on" ELSE "hv_off">>
  /\ UNCHANGED <<fitted, gauge, boxes, left>>

(* A box that is not connected does nothing. *)
ClickShutter ==
  /\ Idle /\ tube # NULL /\ Enabled(tube.frame)
  /\ IF tube.shutters
     THEN CheckWarning([tube EXCEPT !.box = ~ @]) /\ todo' = <<"setshutter">>
     ELSE tube' = [tube EXCEPT !.box = ~ @] /\ UNCHANGED todo
  /\ UNCHANGED <<fitted, gauge, boxes, left>>

EnterValue ==
  /\ Idle /\ tube # NULL /\ Enabled(tube.controls)
  /\ todo' = <<"set">>
  /\ UNCHANGED <<fitted, widgets, left>>

(* The buttons that show and clear the error. *)
ClickError ==
  /\ Idle /\ tube # NULL /\ groupTube
  /\ todo' = <<"display">>
  /\ UNCHANGED <<fitted, widgets, left>>

CheckTube ==
  /\ Idle
  /\ groupTube' = ~groupTube /\ todo' = <<"istube">>
  /\ UNCHANGED <<fitted, tube, gauge, groupPressure, left>>

CheckPressure ==
  /\ Idle
  /\ groupPressure' = ~groupPressure /\ todo' = <<"ispressure">>
  /\ UNCHANGED <<fitted, tube, gauge, groupTube, left>>

(* EnableUpdate *)
CheckRefresh ==
  /\ Idle /\ gauge # NULL /\ groupPressure
  /\ gauge' = [gauge EXCEPT !.refresh = ~ @]
  /\ todo' = <<"lock", IF gauge'.refresh THEN "pressure" ELSE "stop", "unlock">>
  /\ UNCHANGED <<fitted, tube, boxes, left>>

(* The other widgets are updated first, and may have something to say. *)
Update ==
  /\ Idle
  /\ \/ todo' = <<"update_gauge", "update_tube">>
     \/ todo' = <<"dialog", "update_gauge", "update_tube">>
  /\ UNCHANGED <<fitted, widgets, left>>

CloseDialog ==
  /\ At("dialog") /\ Then(<< >>)
  /\ UNCHANGED <<fitted, widgets, left>>

User ==
  \/ ClickHighVoltage \/ ClickShutter \/ EnterValue \/ ClickError
  \/ CheckTube \/ CheckPressure \/ CheckRefresh \/ Update

(* ... and the timers. *)

EventLoop == Len(todo) <= MaxSteps /\ (Idle \/ At("dialog") \/ At("question"))

ActualTimeout ==
  /\ EventLoop /\ tube # NULL /\ tube.actual
  /\ tube' = [tube EXCEPT !.actual = FALSE]
  /\ todo' = UpdateActualValues \o todo
  /\ UNCHANGED <<fitted, gauge, boxes, left>>

WarmupTimeout ==
  /\ EventLoop /\ tube # NULL /\ tube.timer
  /\ tube' = [tube EXCEPT !.timer = FALSE]
  /\ todo' = <<"timing">> \o todo
  /\ UNCHANGED <<fitted, gauge, boxes, left>>

(* Nobody unlocks. *)
FaultyTimeoutRefresh ==
  /\ EventLoop /\ gauge # NULL /\ gauge.timer /\ ~gauge.mutex
  /\ gauge' = [gauge EXCEPT !.mutex = TRUE]
  /\ todo' = <<"pressure">> \o todo
  /\ UNCHANGED <<fitted, tube, boxes, left>>

(* TimeoutRefresh; when the mutex is locked it does nothing. *)
TimeoutRefresh ==
  /\ EventLoop /\ gauge # NULL /\ gauge.timer /\ ~gauge.mutex
  /\ gauge' = [gauge EXCEPT !.mutex = TRUE]
  /\ todo' = <<"pressure", "unlock">> \o todo
  /\ UNCHANGED <<fitted, tube, boxes, left>>

-----------------------------------------------------------------------------
(* The constructor of Gui ends with its first Update. *)
Init ==
  /\ fitted \in Boxes
  /\ tube = NULL /\ gauge = NULL /\ groupTube = TRUE /\ groupPressure = FALSE
  /\ todo = <<"update_gauge", "update_tube">> /\ left = FALSE

(* Closed, killed or ended by a deleted widget, and started again. *)
Restart ==
  /\ tube' = NULL /\ gauge' = NULL /\ groupTube' = TRUE /\ groupPressure' = FALSE
  /\ todo' = <<"update_gauge", "update_tube">> /\ left' = FALSE
  /\ UNCHANGED fitted

Timers == ActualTimeout \/ WarmupTimeout \/ TimeoutRefresh

Next ==
  \/ TubeStep \/ AcceptWarmup \/ DeclineWarmup \/ GaugeStep \/ GuiStep
  \/ User \/ CloseDialog \/ Timers \/ Restart

Spec == Init /\ [][Next]_vars

-----------------------------------------------------------------------------
(* The types; and the two promises that a stack makes: a locked mutex will *)
(* be unlocked, and a tube whose signal is not connected is being enabled  *)
(* by the slot at the bottom.                                              *)
TypeOK ==
  /\ fitted \in Boxes
  /\ groupTube \in BOOLEAN /\ groupPressure \in BOOLEAN
  /\ tube = NULL \/ tube \in [DOMAIN NewTube -> BOOLEAN]
  /\ gauge = NULL \/ gauge \in [DOMAIN NewGauge -> BOOLEAN]
  /\ todo \in Seq(Steps) /\ left \in BOOLEAN
  /\ gauge # NULL => (gauge.mutex => Pending("unlock"))
  /\ Pending("tube_shown") => todo[Len(todo)] = "tube_shown" /\ tube # NULL

(* Controls that are locked are unlocked again: a timer runs that will,    *)
(* however the two timers, the dialogs and the tube's failures interleave. *)
LockedIsTimed ==
  Idle /\ tube # NULL =>
    /\ tube.warmup => tube.timer
    /\ ~tube.controls => tube.timer \/ tube.actual

(* The warning against opening the door is shown exactly when the widget   *)
(* shows high voltage and an open shutter, except during a warm-up;        *)
(* whichever came last, a click, a command, a failure or a timer.          *)
WarningIsRight ==
  Idle /\ tube # NULL => tube.warmup \/ tube.warning = Warns(tube)

(* A second question about the warm-up is not asked before the first is    *)
(* answered.                                                               *)
OneQuestion ==
  \A i, j \in 1..Len(todo) : todo[i] = "question" /\ todo[j] = "question" => i = j

(* The GUI's one thread never waits for the mutex that it holds itself,    *)
(* with dialogs open inside the locked part and the timer's slot in them.  *)
GaugeNeverWaits ==
  gauge # NULL /\ At("lock") => ~gauge.mutex

(* The automatic update of the pressure never stops while its box is       *)
(* checked.                                                                *)
PressureRefreshed ==
  Idle /\ gauge # NULL => (gauge.refresh => gauge.timer)

(* src/README.md:204: the shutters are enabled when no warm-up is in       *)
(* progress.                                                               *)
NoShutterInWarmup ==
  Idle /\ tube # NULL => ~(tube.warmup /\ left /\ tube.frame)
=============================================================================
