-------------------------------- MODULE Ports --------------------------------
(***************************************************************************)
(* How a server finds its devices on the serial ports of the box: the      *)
(* search of Initialize::UpdateInterface at the start, line by line of the *)
(* configuration file, and again for the tube and the pressure gauge when  *)
(* a command needs them; how it lets them go when they are switched off;   *)
(* and the filter wheels, which are driven as soon as they are found.      *)
(*                                                                         *)
(* The two servers of a box are two processes that search the same ports   *)
(* without knowing of each other.  The settings of a line belong to the    *)
(* port, not to the process, and an answer goes to whoever reads first.    *)
(***************************************************************************)
EXTENDS Integers, Sequences, FiniteSets

CONSTANTS
  Servers,        \* the processes: the control server, the stop server
  NumPorts,       \* MAX_USB_SERIAL_PORTS
  Serials,        \* the serial numbers of devices and adapters
  Fallback,       \* FWHEEL_SERIAL_NUM_FALLBACK
  Boxes,          \* the boxes looked at
  Switchable,     \* the kinds of device that may be switched off
  NumValues,      \* NUM_FWHEEL_VALUES
  MaxTries        \* how often Fwheel::setValue tries

Ports  == 0..(NumPorts - 1)
NoPort == -1

(* InterfaceIndex *)
InterfaceIndex == {"TUBE", "PRESSURE", "CONTROLLER", "FILTER_WHEEL"}

(* link: what /sys says of the serial number of the adapter, if anything. *)
Device == [kind : InterfaceIndex \union {"nothing"}, serial : Serials,
           link : Serials \union {"unreadable"}]

(* "tube" and "pressure" stand for every command that asks the device.  *)
(* i, v: the wheel and its position, 0 for a value it does not have.   *)
Operations ==
  {"tube", "istube", "pressure", "ispressure", "getpressureinterface", "setfw"}

Command == [op : Operations, i : Nat, v : 0..NumValues]

(* config: the lines of the configuration file that name a device; plugged: *)
(* the device at each port; servers: the processes that run; commands: what *)
(* clients may send (bounds the model).                                     *)
Box == [config : Seq([mode : InterfaceIndex, serial : Serials]),
        plugged : [Ports -> Device], servers : SUBSET Servers,
        commands : SUBSET Command]

Wheels(b) == {n \in DOMAIN b.config : b.config[n].mode = "FILTER_WHEEL"}

(* Two controllers of one serial number are refused by ControllerMode. *)
ASSUME PortsAssumption ==
  /\ IsFiniteSet(Servers)
  /\ NumPorts \in Nat /\ NumValues \in Nat \ {0} /\ MaxTries \in Nat \ {0}
  /\ Boxes \subseteq Box /\ Switchable \subseteq InterfaceIndex
  /\ \A b \in Boxes :
       /\ \A m, n \in DOMAIN b.config :
            b.config[m] = b.config[n]
              /\ b.config[m].mode \in {"CONTROLLER", "FILTER_WHEEL"} => m = n
       /\ \A c \in b.commands : c.op = "setfw" => c.i \in 1..Cardinality(Wheels(b))

VARIABLES
  box,
  on,        \* is the device at the port switched on?
  speed,     \* the settings of each line
  wheelAt,   \* the position of the wheel there
  (* of each server *)
  used,      \* usbSerialPortsUsed
  tube,      \* the port of xrayTube, NoPort for NULL
  gauge,     \* the port of pgauge
  controller, fwheel,  \* serial numbers and ports in the order of their lines
  opened,    \* how many Interface objects keep each port open
  pc,        \* "down", "config", "search", "probe", "serial", "setup", "print", "idle" or "ask"
  line,      \* the line of the configuration file
  port,      \* the port looked at or asked
  tries,     \* of setValue
  cmd, reply,
  excuse     \* since the command, or the start: was a device switched, did a wheel read oddly?

world   == <<box, on, speed, wheelAt>>
objects == <<used, tube, gauge, controller, fwheel, opened>>
doing   == <<pc, line, port, tries, cmd, reply, excuse>>
vars    == <<world, objects, doing>>

Config  == box.config
plugged == box.plugged

-----------------------------------------------------------------------------
(* The devices at the other end. *)

(* Parity and such come with the speed. *)
Settings(kind) ==
  CASE kind = "CONTROLLER"           -> "B57600"
    [] kind \in {"TUBE", "PRESSURE"} -> "B9600"
    [] kind = "FILTER_WHEEL"         -> "B115200"

Answers(p, kind) ==
  plugged[p].kind = kind /\ on[p] /\ speed[p] = Settings(kind)

Asking(s, p) ==
  \/ pc[s] \in {"probe", "serial", "setup", "ask"} /\ port[s] = p
  \/ pc[s] = "print" /\ p \in {tube[s], gauge[s]}

(* Is the device of that kind heard?  It may not be when both servers ask: *)
(* one reads the answer to the other.                                      *)
Heard(s, p, kind) ==
  {a \in BOOLEAN :
     /\ a => Answers(p, kind)
     /\ Answers(p, kind) /\ (\A t \in Servers \ {s} : ~Asking(t, p)) => a}

Switch ==
  \E p \in Ports :
    /\ plugged[p].kind \in Switchable
    /\ on' = [on EXCEPT ![p] = ~@]
    /\ excuse' = [s \in Servers |-> TRUE]
    /\ UNCHANGED <<box, speed, wheelAt, objects, pc, line, port, tries, cmd, reply>>

-----------------------------------------------------------------------------
Last(seq) == seq[Len(seq)]

Starting(s) == pc[s] # "down" /\ (line[s] <= Len(Config) \/ pc[s] \in {"config", "print"})

Index(c) ==
  CASE c.op \in {"tube", "istube"} -> "TUBE"
    [] c.op = "setfw"              -> "FILTER_WHEEL"
    [] OTHER                       -> "PRESSURE"

(* What the search is for. *)
Want(s) == IF line[s] <= Len(Config) THEN Config[line[s]].mode ELSE Index(cmd[s])

Goto(s, w) == pc' = [pc EXCEPT ![s] = w]

(* The ports in use are searched, too. *)
FaultyCandidate(s, p) == plugged[p].kind # "nothing"

(* A port that can be opened and is not in use. *)
Candidate(s, p) == ~used[s][p] /\ plugged[p].kind # "nothing"

(* The first of them from p on, or the end of the loop. *)
SearchFrom(s, p) ==
  LET stops == {q \in p..NumPorts : q \in Ports => Candidate(s, q)}
  IN  /\ Goto(s, "search")
      /\ \E q \in stops :
           /\ \A r \in stops : q <= r
           /\ port' = [port EXCEPT ![s] = q]

Search(s) == SearchFrom(s, 0)

NextPort(s) == SearchFrom(s, port[s] + 1)

NextLine(s) == Goto(s, "config") /\ line' = [line EXCEPT ![s] = @ + 1]

End(s, r) == Goto(s, "idle") /\ reply' = [reply EXCEPT ![s] = r]

(* The process ends, for what its constructor threw or otherwise; its ports *)
(* are closed, and keep their settings.                                     *)
Down(s, r) ==
  /\ Goto(s, "down")
  /\ used' = [used EXCEPT ![s] = [p \in Ports |-> FALSE]]
  /\ opened' = [opened EXCEPT ![s] = [p \in Ports |-> 0]]
  /\ tube' = [tube EXCEPT ![s] = NoPort] /\ gauge' = [gauge EXCEPT ![s] = NoPort]
  /\ controller' = [controller EXCEPT ![s] = << >>]
  /\ fwheel' = [fwheel EXCEPT ![s] = << >>]
  /\ line' = [line EXCEPT ![s] = 1] /\ port' = [port EXCEPT ![s] = 0]
  /\ tries' = [tries EXCEPT ![s] = 0] /\ reply' = [reply EXCEPT ![s] = r]
  /\ UNCHANGED <<world, cmd, excuse>>

Crash(s) == pc[s] # "down" /\ Down(s, "none")

Start(s) ==
  /\ s \in box.servers /\ pc[s] = "down" /\ Goto(s, "config")
  /\ reply' = [reply EXCEPT ![s] = "none"]
  /\ excuse' = [excuse EXCEPT ![s] = FALSE]
  /\ UNCHANGED <<world, objects, line, port, tries, cmd>>

-----------------------------------------------------------------------------
(* The configuration file.  Controllers and filter wheels are made before  *)
(* they are found; the tube and the gauge are looked for once.             *)
ReadLine(s) ==
  LET c   == Config[line[s]]
      new == [serial |-> c.serial, port |-> NoPort]
      add(list, mode) ==
        IF c.mode = mode THEN [list EXCEPT ![s] = Append(@, new)] ELSE list
  IN  /\ pc[s] = "config" /\ line[s] <= Len(Config)
      /\ controller' = add(controller, "CONTROLLER")
      /\ fwheel' = add(fwheel, "FILTER_WHEEL")
      /\ IF \/ c.mode = "TUBE" /\ tube[s] # NoPort
            \/ c.mode = "PRESSURE" /\ gauge[s] # NoPort
         THEN NextLine(s) /\ UNCHANGED port
         ELSE Search(s) /\ UNCHANGED line
      /\ UNCHANGED <<world, used, tube, gauge, opened, tries, cmd, reply, excuse>>

ConfigRead(s) ==
  /\ pc[s] = "config" /\ line[s] > Len(Config) /\ Goto(s, "print")
  /\ UNCHANGED <<world, objects, line, port, tries, cmd, reply, excuse>>

(* Xray::print and Pgauge::print ask their devices; what they throw is *)
(* thrown by the constructor.                                          *)
Report(s) ==
  /\ pc[s] = "print"
  /\ \E t \in IF tube[s] = NoPort THEN {TRUE} ELSE Heard(s, tube[s], "TUBE"),
        g \in IF gauge[s] = NoPort THEN {TRUE} ELSE Heard(s, gauge[s], "PRESSURE") :
       IF t /\ g
       THEN Goto(s, "idle") /\ UNCHANGED <<world, objects, line, port, tries, cmd, reply, excuse>>
       ELSE Down(s, "failed")

-----------------------------------------------------------------------------
(* UpdateInterface. *)

Open(s) ==
  LET p == port[s]
  IN  /\ pc[s] = "search" /\ p \in Ports
      /\ opened' = [opened EXCEPT ![s][p] = @ + 1]
      /\ speed' = [speed EXCEPT ![p] = Settings(Want(s))]
      /\ Goto(s, "probe")
      /\ UNCHANGED <<box, on, wheelAt, used, tube, gauge, controller, fwheel,
                     line, port, tries, cmd, reply, excuse>>

(* Not the device looked for: the port is closed and the search goes on. *)
Close(s) ==
  /\ opened' = [opened EXCEPT ![s][port[s]] = @ - 1]
  /\ NextPort(s)
  /\ UNCHANGED <<used, tube, gauge, controller, fwheel, line, tries, reply>>

(* Another serial number: the Interface is forgotten, its port stays open. *)
Forget(s) == NextPort(s) /\ UNCHANGED <<objects, line, tries, reply>>

Mark(s) == used' = [used EXCEPT ![s][port[s]] = TRUE]

(* The port for the last of the list. *)
SetInterface(list, s) == [list EXCEPT ![s][Len(list[s])].port = port[s]]

(* The tube or the gauge is found. *)
Take(s) ==
  /\ Mark(s)
  /\ tube' = IF Want(s) = "TUBE" THEN [tube EXCEPT ![s] = port[s]] ELSE tube
  /\ gauge' = IF Want(s) = "PRESSURE" THEN [gauge EXCEPT ![s] = port[s]] ELSE gauge
  /\ IF Starting(s) THEN NextLine(s) /\ UNCHANGED reply
     ELSE /\ CASE cmd[s].op = "ispressure"           -> End(s, "on")
               [] cmd[s].op = "getpressureinterface" -> End(s, "ok")
               [] OTHER                              -> Goto(s, "ask") /\ UNCHANGED reply
          /\ UNCHANGED line
  /\ UNCHANGED <<controller, fwheel, opened, port, tries>>

(* The port of a device that does not answer is left open. *)
FaultyProbe(s) ==
  /\ pc[s] = "probe" /\ Want(s) \in {"TUBE", "PRESSURE"}
  /\ \E a \in Heard(s, port[s], Want(s)) :
       IF a THEN Take(s) /\ UNCHANGED port ELSE Forget(s)
  /\ UNCHANGED <<world, cmd, excuse>>

(* ValidateTube, ValidatePressureGauge *)
Probe(s) ==
  /\ pc[s] = "probe" /\ Want(s) \in {"TUBE", "PRESSURE"}
  /\ \E a \in Heard(s, port[s], Want(s)) :
       IF a THEN Take(s) ELSE Close(s)
  /\ UNCHANGED <<world, cmd, excuse>>

(* ValidateController *)
ProbeController(s) ==
  /\ pc[s] = "probe" /\ Want(s) = "CONTROLLER"
  /\ \E a \in Heard(s, port[s], "CONTROLLER") :
       IF a THEN Goto(s, "serial") /\ UNCHANGED <<objects, line, port, tries, reply>>
       ELSE Close(s)
  /\ UNCHANGED <<world, cmd, excuse>>

(* Any controller will do. *)
FaultySerialMatches(s, text) == TRUE

SerialMatches(s, text) ==
  text = Last(IF Want(s) = "CONTROLLER" THEN controller[s] ELSE fwheel[s]).serial

(* Controller::CheckControllerSerialNumber; ControllerSend asks until it is *)
(* answered, but the answer may be one to the other server.                 *)
Serial(s) ==
  /\ pc[s] = "serial"
  /\ \E a \in Heard(s, port[s], "CONTROLLER") :
       IF a /\ SerialMatches(s, plugged[port[s]].serial)
       THEN /\ Mark(s) /\ controller' = SetInterface(controller, s)
            /\ NextLine(s)
            /\ UNCHANGED <<tube, gauge, fwheel, opened, port, tries, reply>>
       ELSE Answers(port[s], "CONTROLLER") /\ Forget(s)
  /\ UNCHANGED <<world, cmd, excuse>>

(* ValidateFilterWheel does not tell a filter wheel from anything else: the *)
(* exception is passed on at the fifth attempt, of which there is one.      *)
(* Fwheel::CheckFWSerialNumber reads the number of the adapter.             *)
ProbeFwheel(s) ==
  LET link == plugged[port[s]].link
  IN  /\ pc[s] = "probe" /\ Want(s) = "FILTER_WHEEL"
      /\ IF SerialMatches(s, IF link = "unreadable" THEN Fallback ELSE link)
         THEN /\ Mark(s) /\ fwheel' = SetInterface(fwheel, s)
              /\ Goto(s, "setup") /\ tries' = [tries EXCEPT ![s] = 0]
              /\ UNCHANGED <<tube, gauge, controller, opened, line, port, reply>>
         ELSE Forget(s)
      /\ UNCHANGED <<world, cmd, excuse>>

(* The server does not start without the tube. *)
FaultyNotFound(s) ==
  /\ pc[s] = "search" /\ port[s] = NumPorts
  /\ IF Starting(s)
     THEN Search(s) /\ UNCHANGED <<world, objects, line, tries, cmd, reply, excuse>>
     ELSE /\ End(s, IF cmd[s].op \in {"istube", "ispressure"} THEN "off"
                    ELSE IF Want(s) = "TUBE" THEN "tube_off" ELSE "pressure_off")
          /\ UNCHANGED <<world, objects, line, port, tries, cmd, excuse>>

(* TubeMode and PressureMode go on without the device, ControllerMode and *)
(* FwheelMode give up; istube and ispressure answer "off".                *)
NotFound(s) ==
  /\ pc[s] = "search" /\ port[s] = NumPorts
  /\ IF Starting(s)
     THEN IF Want(s) \in {"TUBE", "PRESSURE"}
          THEN NextLine(s) /\ UNCHANGED <<world, objects, port, tries, cmd, reply, excuse>>
          ELSE Down(s, "failed")
     ELSE /\ End(s, IF cmd[s].op \in {"istube", "ispressure"} THEN "off"
                    ELSE IF Want(s) = "TUBE" THEN "tube_off" ELSE "pressure_off")
          /\ UNCHANGED <<world, objects, line, port, tries, cmd, excuse>>

-----------------------------------------------------------------------------
(* The filter wheels. *)

(* setStartPosition, or what setfw asks for. *)
Value(s) == IF Starting(s) THEN 1 ELSE cmd[s].v

(* An odd reading is taken for the right one. *)
FaultyIsAt(s, read) == TRUE

IsAt(s, read) == read /\ wheelAt'[port[s]] = Value(s)

(* The tries are counted past the last. *)
FaultyLastTry(s) == tries[s] = MaxTries

LastTry(s) == tries[s] + 1 = MaxTries

(* Fwheel::setValue: the order, which may get lost, and the reading, which *)
(* may be odd.  FilterWheelSend asks until it is answered.  What is thrown  *)
(* during the start is caught by UpdateInterface, which goes on to the next *)
(* port and leaves this one marked.  setfw reads once more for its answer.  *)
(* From the second try on the order is followed by the text of the failure  *)
(* before, which oss.clear() does not remove: whatever a wheel makes of it  *)
(* is a lost order or an odd reading, of every try.                         *)
SetValue(s) ==
  LET p == port[s]
  IN  /\ pc[s] = "setup" /\ Answers(p, "FILTER_WHEEL")
      /\ wheelAt' \in {wheelAt, [wheelAt EXCEPT ![p] = Value(s)]}
      /\ \E read \in BOOLEAN :
           CASE IsAt(s, read) ->
                  /\ tries' = [tries EXCEPT ![s] = 0]
                  /\ IF Starting(s) THEN NextLine(s) /\ UNCHANGED reply
                     ELSE /\ \E r \in {"ok", "error"} : End(s, r)
                          /\ UNCHANGED line
                  /\ UNCHANGED <<port, excuse>>
             [] ~IsAt(s, read) /\ ~LastTry(s) ->
                  /\ tries' = [tries EXCEPT ![s] = @ + 1]
                  /\ UNCHANGED <<pc, line, port, reply, excuse>>
             [] ~IsAt(s, read) /\ LastTry(s) ->
                  /\ tries' = [tries EXCEPT ![s] = 0]
                  /\ excuse' = [excuse EXCEPT ![s] = TRUE]
                  /\ IF Starting(s) THEN NextPort(s) /\ UNCHANGED reply
                     ELSE End(s, "error") /\ UNCHANGED port
                  /\ UNCHANGED line
      /\ UNCHANGED <<box, on, speed, objects, cmd>>

-----------------------------------------------------------------------------
(* The commands. *)

(* What is not there is looked for first; setfw refuses a value the wheel *)
(* does not have.                                                         *)
Receive(s) ==
  /\ pc[s] = "idle"
  /\ \E c \in box.commands :
       LET held == CASE Index(c) = "TUBE"         -> tube[s]
                     [] Index(c) = "PRESSURE"     -> gauge[s]
                     [] Index(c) = "FILTER_WHEEL" -> fwheel[s][c.i].port
       IN  /\ cmd' = [cmd EXCEPT ![s] = c]
           /\ CASE c.op = "setfw" /\ c.v = 0 ->
                     End(s, "error") /\ UNCHANGED port
                [] held = NoPort ->
                     Search(s) /\ reply' = [reply EXCEPT ![s] = "none"]
                [] held # NoPort /\ c.op = "getpressureinterface" ->
                     End(s, "ok") /\ UNCHANGED port
                [] OTHER ->
                     /\ Goto(s, IF c.op = "setfw" THEN "setup" ELSE "ask")
                     /\ port' = [port EXCEPT ![s] = held]
                     /\ reply' = [reply EXCEPT ![s] = "none"]
  /\ excuse' = [excuse EXCEPT ![s] = FALSE]
  /\ UNCHANGED <<world, objects, line, tries>>

(* The port is not free again. *)
FaultyRelease(s) ==
  /\ tube' = [tube EXCEPT ![s] = IF Want(s) = "TUBE" THEN NoPort ELSE @]
  /\ gauge' = [gauge EXCEPT ![s] = IF Want(s) = "PRESSURE" THEN NoPort ELSE @]
  /\ opened' = [opened EXCEPT ![s][port[s]] = @ - 1]
  /\ UNCHANGED <<used, controller, fwheel>>

(* The handlers of TubeOffError and PressureOffError in executeCommand. *)
Release(s) ==
  /\ used' = [used EXCEPT ![s][port[s]] = FALSE]
  /\ tube' = [tube EXCEPT ![s] = IF Want(s) = "TUBE" THEN NoPort ELSE @]
  /\ gauge' = [gauge EXCEPT ![s] = IF Want(s) = "PRESSURE" THEN NoPort ELSE @]
  /\ opened' = [opened EXCEPT ![s][port[s]] = @ - 1]
  /\ UNCHANGED <<controller, fwheel>>

(* ispressure catches the error before the handler does, and keeps the gauge. *)
Ask(s) ==
  /\ pc[s] = "ask"
  /\ \E a \in Heard(s, port[s], Want(s)) :
       IF a
       THEN /\ End(s, IF cmd[s].op \in {"istube", "ispressure"} THEN "on" ELSE "ok")
            /\ UNCHANGED objects
       ELSE IF cmd[s].op = "ispressure" THEN End(s, "off") /\ UNCHANGED objects
       ELSE End(s, IF Want(s) = "TUBE" THEN "tube_off" ELSE "pressure_off") /\ Release(s)
  /\ UNCHANGED <<world, line, port, tries, cmd, excuse>>

-----------------------------------------------------------------------------
NoCommand == [op |-> "istube", i |-> 1, v |-> 1]

(* Controllers and wheels are on before the servers are. *)
Init ==
  /\ box \in Boxes
  /\ on \in {o \in [Ports -> BOOLEAN] :
               \A p \in Ports : plugged[p].kind \notin Switchable => o[p]}
  /\ speed = [p \in Ports |-> "unset"] /\ wheelAt = [p \in Ports |-> NumValues]
  /\ used = [s \in Servers |-> [p \in Ports |-> FALSE]]
  /\ tube = [s \in Servers |-> NoPort] /\ gauge = [s \in Servers |-> NoPort]
  /\ controller = [s \in Servers |-> << >>] /\ fwheel = [s \in Servers |-> << >>]
  /\ opened = [s \in Servers |-> [p \in Ports |-> 0]]
  /\ pc = [s \in Servers |-> "down"]
  /\ line = [s \in Servers |-> 1] /\ port = [s \in Servers |-> 0]
  /\ tries = [s \in Servers |-> 0]
  /\ cmd = [s \in Servers |-> NoCommand] /\ reply = [s \in Servers |-> "none"]
  /\ excuse = [s \in Servers |-> FALSE]

ServerStep(s) ==
  \/ ReadLine(s) \/ ConfigRead(s) \/ Report(s)
  \/ Open(s) \/ Probe(s) \/ ProbeController(s) \/ Serial(s)
  \/ ProbeFwheel(s) \/ NotFound(s) \/ SetValue(s) \/ Ask(s)

Next ==
  \/ Switch
  \/ \E s \in Servers : Start(s) \/ Crash(s) \/ Receive(s) \/ ServerStep(s)

Spec == Init /\ [][Next]_vars

(* The servers' loops run. *)
FairSpec == Spec /\ \A s \in Servers : WF_vars(ServerStep(s))

-----------------------------------------------------------------------------
Replies == {"none", "ok", "on", "off", "tube_off", "pressure_off", "error", "failed"}

Item == [serial : Serials, port : Ports \union {NoPort}]

(* The variables keep their types; tries stays below the limit. *)
TypeOK ==
  /\ box \in Boxes /\ on \in [Ports -> BOOLEAN]
  /\ speed \in [Ports -> {"unset"} \union {Settings(k) : k \in InterfaceIndex}]
  /\ wheelAt \in [Ports -> 1..NumValues]
  /\ used \in [Servers -> [Ports -> BOOLEAN]]
  /\ tube \in [Servers -> Ports \union {NoPort}]
  /\ gauge \in [Servers -> Ports \union {NoPort}]
  /\ controller \in [Servers -> Seq(Item)] /\ fwheel \in [Servers -> Seq(Item)]
  /\ opened \in [Servers -> [Ports -> Nat]]
  /\ pc \in [Servers -> {"down", "config", "search", "probe", "serial", "setup",
                         "print", "idle", "ask"}]
  /\ line \in [Servers -> 1..(Len(Config) + 1)] /\ port \in [Servers -> 0..NumPorts]
  /\ tries \in [Servers -> 0..(MaxTries - 1)]
  /\ cmd \in [Servers -> Command] /\ reply \in [Servers -> Replies]
  /\ excuse \in [Servers -> BOOLEAN]

(* The objects of a server that hold a port: the kind, and the place in its list. *)
Holders(s, p) ==
  {<<"TUBE", 1>> : x \in {tube[s]} \intersect {p}}
    \union {<<"PRESSURE", 1>> : x \in {gauge[s]} \intersect {p}}
    \union {<<"CONTROLLER", i>> : i \in {j \in DOMAIN controller[s] : controller[s][j].port = p}}
    \union {<<"FILTER_WHEEL", i>> : i \in {j \in DOMAIN fwheel[s] : fwheel[s][j].port = p}}

(* usbSerialPortsUsed tells the truth: a port that is marked is held by one  *)
(* device, and one that is not by none, whatever was switched off, found     *)
(* again, or failed while it was set up.                                     *)
PortsAccounted ==
  \A s \in Servers, p \in Ports :
    Cardinality(Holders(s, p)) = (IF used[s][p] THEN 1 ELSE 0)

(* A device that has a port is at that port: the one named, where there are  *)
(* several of a kind.                                                        *)
RightDevice ==
  \A s \in Servers, p \in Ports : \A h \in Holders(s, p) :
    /\ plugged[p].kind = h[1]
    /\ h[1] = "CONTROLLER" => plugged[p].serial = controller[s][h[2]].serial
    /\ h[1] = "FILTER_WHEEL" => plugged[p].serial = fwheel[s][h[2]].serial

Alone == Cardinality(box.servers) = 1

(* Without a second server, a line in use has the settings of its device,   *)
(* although every search programs each port it opens for the device it is   *)
(* looking for.                                                             *)
LineSpeed ==
  Alone => \A s \in Servers, p \in Ports : \A h \in Holders(s, p) : speed[p] = Settings(h[1])

Leaked(s, p) ==
  opened[s][p] - Cardinality(Holders(s, p))
    - (IF pc[s] \in {"probe", "serial"} /\ port[s] = p THEN 1 ELSE 0)

(* A search at the start may leave ports open that it does not hold (those  *)
(* with another serial number); the searches that commands start, which a   *)
(* GUI repeats for as long as it runs, never do.                            *)
LeaksOnlyAtStart ==
  [][\A s \in Servers, p \in Ports :
       pc[s] # "down" /\ ~Starting(s) => Leaked(s, p)' <= Leaked(s, p)]_vars

Off(kind) == \A p \in Ports : plugged[p].kind = kind => ~on[p]

(* A controller or wheel of the configuration file is not in the box. *)
Missing ==
  \E n \in 1..Len(Config) :
    /\ Config[n].mode \in {"CONTROLLER", "FILTER_WHEEL"}
    /\ \A p \in Ports :
         plugged[p].kind # Config[n].mode \/ plugged[p].serial # Config[n].serial

(* Alone, a server that could not start, or calls a device off, has a reason: the  *)
(* device was off or was switched meanwhile, one is missing, or a wheel read *)
(* oddly.  So one that is back is found again, however often it went.       *)
OffMeansOff ==
  Alone => \A s \in Servers :
    reply[s] \in {"failed", "off", "tube_off", "pressure_off"} =>
      excuse[s] \/ (IF reply[s] = "failed" THEN Missing ELSE Off(Index(cmd[s])))

(* Alone, setfw answers ok only with the wheel where it should be, though orders   *)
(* may be lost and readings odd.                                            *)
WheelSet ==
  Alone => \A s \in Servers :
    reply[s] = "ok" /\ cmd[s].op = "setfw" =>
      wheelAt[fwheel[s][cmd[s].i].port] = cmd[s].v

(* Every start ends, with the server ready or with an error, whether the    *)
(* tube and the gauge are there, off, or switched on and off meanwhile.     *)
StartEnds == \A s \in Servers : (Alone /\ Starting(s)) ~> ~Starting(s)
=============================================================================
