------------------------------- MODULE MCTube -------------------------------
(* Shutters 1 and 3 are connected, one in each register; two voltages and   *)
(* two currents of which the highest exceed the power together.             *)
EXTENDS Tube

Cmd(op, on, i, v, c) == [op |-> op, on |-> on, i |-> i, v |-> v, c |-> c]

Hv(on)         == Cmd("hv", on, 1, 2, 2)
Shutter(i, on) == Cmd("shutter", on, i, 2, 2)
IsSafe         == Cmd("issafe", FALSE, 1, 2, 2)
IsTube         == Cmd("istube", FALSE, 1, 2, 2)
WarmUp(v)      == Cmd("warmup", FALSE, 1, v, 2)

MCConnected == {1, 3}

(* Shutter 2 is not there. *)
MCRadiation ==
  {Hv(TRUE), Hv(FALSE), IsSafe, IsTube, WarmUp(3)}
    \union {Shutter(i, on) : i \in {1, 3}, on \in BOOLEAN} \union {Shutter(2, TRUE)}

(* 9 kV is out of range. *)
MCPower ==
  {Cmd("setv", FALSE, 1, v, 2) : v \in {2, 3, 9}}
    \union {Cmd("setc", FALSE, 1, 2, c) : c \in {2, 3}}
    \union {Cmd("setvc", FALSE, 1, v, c) : v \in {2, 3}, c \in {2, 3}}

MCLate == {Hv(TRUE), IsSafe, Shutter(1, TRUE), Shutter(3, TRUE)}

(* Every command with a tube that answers in time, some with one that need not. *)
MCCases ==
  {[slow |-> FALSE, commands |-> MCRadiation \union MCPower],
   [slow |-> TRUE, commands |-> MCLate \union {IsTube, Cmd("setv", FALSE, 1, 3, 2)}]}

MCLateCases == {[slow |-> TRUE, commands |-> MCLate]}
=============================================================================
