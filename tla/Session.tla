------------------------------- MODULE Session -------------------------------
(***************************************************************************)
(* Who may command the box: the control server and the stop server, each   *)
(* with a lock of its own (Server.cpp), and the clients that talk to them  *)
(* over one connection per command: command lines and GUIs (Client.cpp,    *)
(* GuiDefs.h, Gui.cpp).  A server takes its connections in order and works *)
(* on one at a time.  What a command does to the box is left out here: it  *)
(* takes a while and ends well or not.                                     *)
(***************************************************************************)
EXTENDS Integers, Sequences

CONSTANTS
  Clients,      \* the client processes
  Guis,         \* those of them that are GUIs
  Users,        \* a user is a user name on a PC
  User,         \* the user each client process belongs to
  CliCommands,  \* the commands typed on a command line
  GuiCommands,  \* the commands the widgets of a GUI send by themselves
  Nobody

Servers == {"control", "stop"}

(* "" stands for a command line without a command, "move" for every command *)
(* that goes to executeCommand on the control server.                       *)
Names == {"", "move", "list", "stop", "unlock", "close"}

(* stop: whether the text of the command contains the word. *)
Command == [name : Names, stop : BOOLEAN]

unlock == [name |-> "unlock", stop |-> FALSE]

ASSUME ClientsAssumption ==
  /\ Guis \subseteq Clients
  /\ User \in [Clients -> Users]
  /\ Nobody \notin Clients /\ Nobody \notin Users
  /\ CliCommands \subseteq Command /\ GuiCommands \subseteq Command

VARIABLES
  up,        \* is the server running?
  holder,    \* lockAttributes: the user it is locked to, Nobody if unlocked
  lastCmdUnlock,
  backlog,   \* the connections it has not accepted yet, oldest first
  serving,   \* the client whose command it is executing, or Nobody
  state,     \* of a client: "gone", "ready", "sent", or "leaving" when the
             \*   user of a GUI has closed it
  cmd,       \* the last command it sent
  reply,     \* the last reply it got
  dialog,    \* does it ask whether to unlock the previous user?
  carried    \* was its last command carried out: "no", "begun" or "yes"?

(* A definition named Faulty... is the one after it with a slip in it that a *)
(* change to the code could bring; PROJECT.json says which property notices. *)

servers == <<up, holder, lastCmdUnlock, backlog, serving>>
clients == <<state, cmd, reply, dialog, carried>>
vars == <<servers, clients>>

Pending == {"sent", "leaving"}

(* Whatever its text, a command is for the control server. *)
FaultyPort(c) == "control"

(* Client::SendCommand: any text with "stop" in it is for the stop server. *)
Port(c) == IF c.stop THEN "stop" ELSE "control"

Queued(s) == {backlog[s][i] : i \in 1..Len(backlog[s])}

-----------------------------------------------------------------------------
(* Clients *)

(* A name is used again for a new process once the old connection is dealt *)
(* with.                                                                   *)
Launch(p) ==
  /\ state[p] = "gone" /\ \A s \in Servers : p \notin Queued(s) /\ p # serving[s]
  /\ state' = [state EXCEPT ![p] = "ready"]
  /\ reply' = [reply EXCEPT ![p] = "none"]
  /\ carried' = [carried EXCEPT ![p] = "no"]
  /\ UNCHANGED <<servers, cmd, dialog>>

(* The client connects and sends; without a server it fails at once. *)
Request(p, c, waiting, failed) ==
  /\ state[p] = "ready"
  /\ cmd' = [cmd EXCEPT ![p] = c]
  /\ carried' = [carried EXCEPT ![p] = "no"]
  /\ IF up[Port(c)]
     THEN /\ state' = [state EXCEPT ![p] = waiting]
          /\ backlog' = [backlog EXCEPT ![Port(c)] = Append(@, p)]
          /\ UNCHANGED reply
     ELSE /\ state' = [state EXCEPT ![p] = failed]
          /\ reply' = [reply EXCEPT ![p] = "lost"]
          /\ UNCHANGED backlog
  /\ UNCHANGED <<up, holder, lastCmdUnlock, serving>>

(* The timers of a GUI go on while the question below is on the screen. *)
Send(p) ==
  /\ \E c \in IF p \in Guis THEN GuiCommands ELSE CliCommands :
       Request(p, c, "sent", "ready")
  /\ UNCHANGED dialog

(* "Unlock previous user?"  The refused command itself is not sent again. *)
AcceptDialog(p) ==
  /\ dialog[p] /\ dialog' = [dialog EXCEPT ![p] = FALSE]
  /\ Request(p, unlock, "sent", "ready")

(* SendCommand throws: a caller may catch it, or the GUI ends without a word *)
(* to the server.                                                            *)
DeclineDialog(p) ==
  /\ dialog[p] /\ state[p] = "ready"
  /\ dialog' = [dialog EXCEPT ![p] = FALSE]
  /\ \E next \in {"ready", "gone"} : state' = [state EXCEPT ![p] = next]
  /\ UNCHANGED <<servers, cmd, reply, carried>>

(* Gui::closeEvent *)
Close(p) ==
  /\ p \in Guis /\ ~dialog[p]
  /\ Request(p, unlock, "leaving", "gone")
  /\ UNCHANGED dialog

(* A client is killed.  What it sent is already on its way. *)
Die(p) ==
  /\ state[p] # "gone" /\ state' = [state EXCEPT ![p] = "gone"]
  /\ dialog' = [dialog EXCEPT ![p] = FALSE]
  /\ reply' = [reply EXCEPT ![p] = "none"]
  /\ UNCHANGED <<servers, cmd, carried>>

-----------------------------------------------------------------------------
(* A server, in DecodeFunction.  Clients whose process is gone are served   *)
(* like the others; only their reply has nobody to go to.                   *)

(* Who is told what; refused GUIs ask their question. *)
Answer(replies) ==
  LET told == {p \in DOMAIN replies : state[p] \in Pending}
  IN  /\ reply' = [p \in Clients |->
           IF p \notin told THEN reply[p]
           ELSE IF state[p] = "sent" THEN replies[p] ELSE "none"]
      /\ state' = [p \in Clients |->
           IF p \notin told THEN state[p]
           ELSE IF state[p] = "sent" THEN "ready" ELSE "gone"]
      /\ dialog' = [p \in Clients |->
           dialog[p] \/ (p \in told \intersect Guis /\ replies[p] = "in use")]
      /\ UNCHANGED cmd

(* Every connection is worked on as it comes. *)
FaultyAccepted(s, p) ==
  /\ up[s] /\ backlog[s] # << >> /\ p = Head(backlog[s])
  /\ backlog' = [backlog EXCEPT ![s] = Tail(@)]

(* The oldest connection is the one worked on. *)
Accepted(s, p) ==
  /\ up[s] /\ serving[s] = Nobody /\ backlog[s] # << >> /\ p = Head(backlog[s])
  /\ backlog' = [backlog EXCEPT ![s] = Tail(@)]

(* Fewer arguments than the command, the user, the PC, the pid and the date *)
(* make: refused before the lock is looked at.                              *)
TooFewArguments(s, p) ==
  /\ Accepted(s, p) /\ cmd[p].name = ""
  /\ Answer([q \in {p} |-> "error"])
  /\ UNCHANGED <<up, holder, lastCmdUnlock, serving, carried>>

(* Anybody may unlock. *)
Unlock(s, p) ==
  /\ Accepted(s, p) /\ cmd[p].name = "unlock"
  /\ holder' = [holder EXCEPT ![s] = Nobody]
  /\ lastCmdUnlock' = [lastCmdUnlock EXCEPT ![s] = TRUE]
  /\ Answer([q \in {p} |-> "unlocked"])
  /\ UNCHANGED <<up, serving, carried>>

Ordinary(p) == cmd[p].name \notin {"", "unlock"}

(* The phrase the client looks for is missing from the answer. *)
FaultyPhrase(s, p) ==
  /\ Accepted(s, p) /\ Ordinary(p) /\ holder[s] \notin {Nobody, User[p]}
  /\ Answer([q \in {p} |-> holder[s]])
  /\ UNCHANGED <<up, holder, lastCmdUnlock, serving, carried>>

(* The command is refused, and executed. *)
FaultyInUse(s, p) ==
  /\ Accepted(s, p) /\ Ordinary(p) /\ holder[s] \notin {Nobody, User[p]}
  /\ Answer([q \in {p} |-> "in use"])
  /\ carried' = [carried EXCEPT ![p] = "yes"]
  /\ UNCHANGED <<up, holder, lastCmdUnlock, serving>>

(* Users are told apart by user name and PC, not by process. *)
InUse(s, p) ==
  /\ Accepted(s, p) /\ Ordinary(p) /\ holder[s] \notin {Nobody, User[p]}
  /\ Answer([q \in {p} |-> "in use"])
  /\ UNCHANGED <<up, holder, lastCmdUnlock, serving, carried>>

(* The user who finds the server unlocked has it from here on.  lastCmdUnlock *)
(* is reset before the code tests it, so that its demand for a "list" from a  *)
(* GUI is never made.                                                         *)
Entitled(s, p) ==
  /\ Ordinary(p) /\ holder[s] \in {Nobody, User[p]}
  /\ lastCmdUnlock' =
       [lastCmdUnlock EXCEPT ![s] = IF holder[s] = Nobody THEN FALSE ELSE @]

Execute(s, p) ==
  /\ Accepted(s, p) /\ Entitled(s, p) /\ cmd[p].name # "close"
  /\ holder' = [holder EXCEPT ![s] = User[p]]
  /\ serving' = [serving EXCEPT ![s] = p]
  /\ carried' = [carried EXCEPT ![p] = "begun"]
  /\ UNCHANGED <<up, state, cmd, reply, dialog>>

(* executeCommand returns a result or throws. *)
Executed(s) ==
  /\ up[s] /\ serving[s] # Nobody
  /\ serving' = [serving EXCEPT ![s] = Nobody]
  /\ carried' = [carried EXCEPT ![serving[s]] = "yes"]
  /\ \E r \in {"ok", "error"} : Answer([q \in {serving[s]} |-> r])
  /\ UNCHANGED <<up, holder, lastCmdUnlock, backlog>>

(* The process ends: its lock is forgotten, its connections are reset. *)
Ended(s) ==
  /\ up' = [up EXCEPT ![s] = FALSE]
  /\ holder' = [holder EXCEPT ![s] = Nobody]
  /\ lastCmdUnlock' = [lastCmdUnlock EXCEPT ![s] = FALSE]
  /\ backlog' = [backlog EXCEPT ![s] = << >>]
  /\ serving' = [serving EXCEPT ![s] = Nobody]

(* "close": the client that sent it is answered, those behind it are not. *)
CloseServer(s, p) ==
  /\ up[s] /\ serving[s] = Nobody /\ backlog[s] # << >> /\ p = Head(backlog[s])
  /\ Ordinary(p) /\ holder[s] \in {Nobody, User[p]} /\ cmd[p].name = "close"
  /\ Ended(s)
  /\ Answer([q \in Queued(s) |-> IF q = p THEN "closed" ELSE "lost"])
  /\ UNCHANGED carried

(* The connections not accepted yet stay open. *)
FaultyCrash(s) ==
  /\ up[s] /\ Ended(s) /\ Answer([q \in {serving[s]} \ {Nobody} |-> "lost"])
  /\ UNCHANGED carried

Crash(s) ==
  /\ up[s] /\ Ended(s)
  /\ Answer([q \in Queued(s) \union ({serving[s]} \ {Nobody}) |-> "lost"])
  /\ UNCHANGED carried

Start(s) ==
  /\ ~up[s] /\ up' = [up EXCEPT ![s] = TRUE]
  /\ UNCHANGED <<holder, lastCmdUnlock, backlog, serving, clients>>

-----------------------------------------------------------------------------
Init ==
  /\ up = [s \in Servers |-> TRUE]
  /\ holder = [s \in Servers |-> Nobody]
  /\ lastCmdUnlock = [s \in Servers |-> FALSE]
  /\ backlog = [s \in Servers |-> << >>]
  /\ serving = [s \in Servers |-> Nobody]
  /\ state = [p \in Clients |-> "gone"]
  /\ cmd = [p \in Clients |-> unlock]
  /\ reply = [p \in Clients |-> "none"]
  /\ dialog = [p \in Clients |-> FALSE]
  /\ carried = [p \in Clients |-> "no"]

Decode(s) ==
  \E p \in Clients : TooFewArguments(s, p) \/ Unlock(s, p) \/ InUse(s, p)
                      \/ Execute(s, p) \/ CloseServer(s, p)

Serve(s) == Decode(s) \/ Executed(s)

Next ==
  \/ \E p \in Clients : Launch(p) \/ Send(p) \/ AcceptDialog(p)
                         \/ DeclineDialog(p) \/ Close(p) \/ Die(p)
  \/ \E s \in Servers : Serve(s) \/ Crash(s) \/ Start(s)

Spec == Init /\ [][Next]_vars

(* The stop server goes on with its loop.  Nothing is promised of the control *)
(* server, whose commands may take for ever.                                  *)
FairSpec == Spec /\ WF_vars(Serve("stop"))

-----------------------------------------------------------------------------
Replies == {"none", "ok", "error", "unlocked", "in use", "closed", "lost"}

(* The variables keep their types. *)
TypeOK ==
  /\ up \in [Servers -> BOOLEAN]
  /\ holder \in [Servers -> Users \union {Nobody}]
  /\ lastCmdUnlock \in [Servers -> BOOLEAN]
  /\ backlog \in [Servers -> Seq(Clients)]
  /\ serving \in [Servers -> Clients \union {Nobody}]
  /\ state \in [Clients -> {"gone", "ready"} \union Pending]
  /\ cmd \in [Clients -> Command]
  /\ reply \in [Clients -> Replies]
  /\ dialog \in [Clients -> BOOLEAN]
  /\ carried \in [Clients -> {"no", "begun", "yes"}]

(* What a client is told is what happened: "ok" when its command was        *)
(* carried out to the end, and never more than a refusal when nothing was   *)
(* done.  This holds across deaths of clients and servers and the question  *)
(* the GUI asks in between; only a lost connection leaves room for doubt.   *)
RepliesAreTrue ==
  \A p \in Clients : state[p] = "ready" =>
    /\ reply[p] = "ok" => carried[p] = "yes"
    /\ reply[p] \in {"in use", "unlocked"} => carried[p] = "no"

(* Each server keeps the promise of ExclusiveControl: commands are executed *)
(* for its holder alone, and nobody takes over while one is executed.       *)
Running(s) == IF serving[s] = Nobody THEN Nobody ELSE User[serving[s]]

Control == INSTANCE ExclusiveControl
  WITH holder <- holder["control"], running <- Running("control")

StopControl == INSTANCE ExclusiveControl
  WITH holder <- holder["stop"], running <- Running("stop")

ControlIsExclusive == Control!Spec /\ StopControl!Spec

(* If the commands of the control server end, every client that waits is    *)
(* answered, or learns that it never will be: also one whose server died or *)
(* was closed with its command in the queue.                                *)
ClientAnswered ==
  WF_vars(Serve("control")) =>
    \A p \in Clients : state[p] \in Pending ~> state[p] \notin Pending

(* A stop is answered even when the control server never ends its command *)
(* (Client.cpp:15-16: it goes to a server of its own).                    *)
StopAnswered ==
  \A p \in Clients : (state[p] = "sent" /\ cmd[p].stop) ~> state[p] # "sent"

=============================================================================
