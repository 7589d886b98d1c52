------------------------------- MODULE MCPorts -------------------------------
(* A box with every kind of device and one server: two controllers, the      *)
(* tube, the pressure gauge and a filter wheel behind an adapter that does   *)
(* not tell its serial number; and smaller ones with two servers.            *)
EXTENDS Ports

Dev(kind, serial, link) == [kind |-> kind, serial |-> serial, link |-> link]

A == Dev("CONTROLLER", "s1", "other")
B == Dev("CONTROLLER", "s2", "other")
T == Dev("TUBE", "other", "other")
G == Dev("PRESSURE", "other", "other")
W == Dev("FILTER_WHEEL", "fw", "unreadable")
N == Dev("nothing", "other", "other")

MCSerials == {"s1", "s2", "fw", "other"}

Line(mode, serial) == [mode |-> mode, serial |-> serial]

(* "filter wheels have to be placed at the end" (config_laserBox.txt). *)
BigConfig ==
  <<Line("CONTROLLER", "s1"), Line("CONTROLLER", "s2"), Line("TUBE", "other"),
    Line("PRESSURE", "other"), Line("FILTER_WHEEL", "fw")>>

(* With two servers. *)
TubeConfig       == <<Line("TUBE", "other"), Line("FILTER_WHEEL", "fw")>>
ControllerConfig == <<Line("CONTROLLER", "s1"), Line("FILTER_WHEEL", "fw")>>

Cmd(op, v) == [op |-> op, i |-> 1, v |-> v]

AllCommands ==
  {Cmd("tube", 1), Cmd("istube", 1), Cmd("pressure", 1), Cmd("ispressure", 1),
   Cmd("getpressureinterface", 1)} \union {Cmd("setfw", v) : v \in 0..2}

Case(config, seq, servers, commands) ==
  [config |-> config, plugged |-> [p \in Ports |-> seq[p + 1]],
   servers |-> servers, commands |-> commands]

MCBoxes ==
  {Case(BigConfig, seq, {"control"}, AllCommands) :
     seq \in {<<A, B, T, G, W>>, <<W, G, T, B, A>>, <<G, A, N, T, B>>, <<B, T, W, N, A>>}}
    \union {Case(TubeConfig, <<W, N, T, N, N>>, {"control", "stop"}, {Cmd("tube", 1)}),
            Case(ControllerConfig, <<W, N, A, B, N>>, {"control", "stop"}, {Cmd("setfw", 2)})}

MCOneBox == {Case(BigConfig, <<A, B, T, G, W>>, {"control"}, {Cmd("setfw", 2)})}

MCSwitchable == {"TUBE", "PRESSURE"}
=============================================================================
