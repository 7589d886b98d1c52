------------------------------ MODULE MCSession ------------------------------
(* A GUI and a command line, of two users. *)
EXTENDS Session

CONSTANTS gui, c1, alice, bob

Cmd(name, stop) == [name |-> name, stop |-> stop]

MCClients == {gui, c1}
MCGuis    == {gui}
MCUsers   == {alice, bob}
MCUser    == [p \in Clients |-> IF p = gui THEN bob ELSE alice]

MCCliCommands ==
  {Cmd("", FALSE), Cmd("move", FALSE), Cmd("stop", TRUE), Cmd("unlock", FALSE),
   Cmd("unlock", TRUE), Cmd("close", FALSE)}

(* The raw commands of the options window may contain the word stop. *)
MCGuiCommands == {Cmd("move", FALSE), Cmd("stop", TRUE)}
=============================================================================
