----------------------------- MODULE PortsProofs -----------------------------
(***************************************************************************)
(* Proofs about Ports.                                                     *)
(***************************************************************************)
EXTENDS Ports, FiniteSetTheorems, TLAPS

-----------------------------------------------------------------------------
(* The inductive invariant, server by server. *)

Configured(s) == line[s] <= Len(Config)

(* What a server knows of itself by where it is. *)
Phases(s) ==
  /\ s \notin box.servers => pc[s] = "down"
  /\ pc[s] = "down" =>
       /\ line[s] = 1 /\ tube[s] = NoPort /\ gauge[s] = NoPort
       /\ controller[s] = << >> /\ fwheel[s] = << >>
  /\ pc[s] \in {"print", "idle", "ask"} => line[s] = Len(Config) + 1
  /\ pc[s] \in {"search", "probe"} /\ ~Configured(s) => Want(s) \in {"TUBE", "PRESSURE"}
  /\ pc[s] = "serial" => Configured(s) /\ Want(s) = "CONTROLLER"
  /\ pc[s] = "setup" => Want(s) = "FILTER_WHEEL" /\ (~Configured(s) => cmd[s].v # 0)
  /\ pc[s] = "ask" => Want(s) \in {"TUBE", "PRESSURE"}

(* A search is for something without a port, at a port that is free. *)
Looking(s) ==
  pc[s] \in {"search", "probe", "serial"} =>
    /\ port[s] \in Ports => Candidate(s, port[s])
    /\ pc[s] # "search" => port[s] \in Ports
    /\ Want(s) = "TUBE" => tube[s] = NoPort
    /\ Want(s) = "PRESSURE" => gauge[s] = NoPort
    /\ Want(s) = "CONTROLLER" => controller[s] # << >> /\ Last(controller[s]).port = NoPort
    /\ Want(s) = "FILTER_WHEEL" => fwheel[s] # << >>

(* The port driven or asked is that of the device meant. *)
Reached(s) ==
  /\ pc[s] = "setup" =>
       /\ port[s] \in Ports
       /\ IF Configured(s) THEN fwheel[s] # << >> /\ Last(fwheel[s]).port = port[s]
          ELSE cmd[s].i \in DOMAIN fwheel[s] /\ fwheel[s][cmd[s].i].port = port[s]
  /\ pc[s] = "ask" =>
       /\ port[s] \in Ports
       /\ port[s] = IF Want(s) = "TUBE" THEN tube[s] ELSE gauge[s]

(* The lines of wheels a server has read. *)
WheelsRead(s) ==
  {n \in Wheels(box) :
     n < line[s] \/ (n = line[s] /\ pc[s] \notin {"down", "config"})}

(* The wheels read are there, and have their ports but for the one looked for. *)
Complete(s) ==
  /\ Len(fwheel[s]) = Cardinality(WheelsRead(s))
  /\ \A j \in DOMAIN fwheel[s] : fwheel[s][j].port = NoPort =>
       /\ j = Len(fwheel[s]) /\ pc[s] \in {"search", "probe"}
       /\ Configured(s) /\ Want(s) = "FILTER_WHEEL"

(* What CheckFWSerialNumber reads. *)
Text(b, p) == IF b.plugged[p].link = "unreadable" THEN Fallback ELSE b.plugged[p].link

(* What is at the ports taken. *)
Matches(s) ==
  /\ tube[s] # NoPort => plugged[tube[s]].kind = "TUBE"
  /\ gauge[s] # NoPort => plugged[gauge[s]].kind = "PRESSURE"
  /\ \A j \in DOMAIN controller[s] : controller[s][j].port # NoPort =>
       /\ plugged[controller[s][j].port].kind = "CONTROLLER"
       /\ plugged[controller[s][j].port].serial = controller[s][j].serial
  /\ \A j \in DOMAIN fwheel[s] :
       /\ \E n \in Wheels(box) : fwheel[s][j].serial = Config[n].serial
       /\ fwheel[s][j].port # NoPort =>
            /\ plugged[fwheel[s][j].port].kind # "nothing"
            /\ Text(box, fwheel[s][j].port) = fwheel[s][j].serial

(* The serial numbers of the adapters tell the wheels of the configuration *)
(* file from everything else, which FwheelMode takes for granted.          *)
Identified(b) ==
  \A p \in Ports, n \in Wheels(b) :
    b.plugged[p].kind # "nothing" /\ Text(b, p) = b.config[n].serial =>
      /\ b.plugged[p].kind = "FILTER_WHEEL" /\ b.plugged[p].serial = b.config[n].serial
      /\ \A q \in Ports :
           b.plugged[q].kind # "nothing" /\ Text(b, q) = b.config[n].serial => p = q

(* No port is held twice, or unmarked, or closed; the ports open that are  *)
(* neither held nor probed are leaked, and are at least none.              *)
Held(s, p) ==
  /\ \A h \in Holders(s, p) : used[s][p]
  /\ \A g, h \in Holders(s, p) : g = h
  /\ opened[s][p] >= (IF Holders(s, p) = {} THEN 0 ELSE 1)
                       + (IF pc[s] \in {"probe", "serial"} /\ port[s] = p THEN 1 ELSE 0)

(* Where the wheels are told apart, no mark is left without a device. *)
Marked(s, p) == Identified(box) => (used[s][p] => Holders(s, p) # {})

Speeds(s) ==
  Alone =>
    /\ \A p \in Ports : \A h \in Holders(s, p) : speed[p] = Settings(h[1])
    /\ pc[s] \in {"probe", "serial"} => speed[port[s]] = Settings(Want(s))

Replied(s) ==
  /\ pc[s] \notin {"idle", "down"} => reply[s] = "none"
  /\ pc[s] = "down" => reply[s] \in {"none", "failed"}
  /\ reply[s] = "ok" /\ cmd[s].op = "setfw" =>
       /\ cmd[s].i \in DOMAIN fwheel[s]
       /\ Alone => wheelAt[fwheel[s][cmd[s].i].port] = cmd[s].v

ServerInv(s) ==
  /\ Phases(s) /\ Looking(s) /\ Reached(s) /\ Complete(s) /\ Matches(s)
  /\ \A p \in Ports : Held(s, p) /\ Marked(s, p)
  /\ Speeds(s) /\ Replied(s)

PInv == TypeOK /\ \A s \in Servers : ServerInv(s)

-----------------------------------------------------------------------------
(* A server that a step leaves alone. *)

SameFor(s) ==
  /\ used'[s] = used[s] /\ tube'[s] = tube[s] /\ gauge'[s] = gauge[s]
  /\ controller'[s] = controller[s] /\ fwheel'[s] = fwheel[s] /\ opened'[s] = opened[s]
  /\ pc'[s] = pc[s] /\ line'[s] = line[s] /\ port'[s] = port[s] /\ tries'[s] = tries[s]
  /\ cmd'[s] = cmd[s] /\ reply'[s] = reply[s]

(* A server that is down holds no port. *)
LEMMA DownHolds ==
  ASSUME NEW s \in Servers, Phases(s), pc[s] = "down"
  PROVE  \A p \in Ports : Holders(s, p) = {}
  BY DEF Phases, Holders, Ports, NoPort

(* A step of someone else leaves what a server has as it is. *)
LEMMA SameIsSame ==
  ASSUME NEW s \in Servers, ServerInv(s), SameFor(s), box' = box,
         Alone => (speed' = speed /\ wheelAt' = wheelAt) \/ pc[s] = "down"
  PROVE  ServerInv(s)'
<1>1. /\ Want(s)' = Want(s) /\ Configured(s)' = Configured(s) /\ Alone' = Alone
      /\ Identified(box)' = Identified(box) /\ WheelsRead(s)' = WheelsRead(s)
      /\ \A p \in Ports : Holders(s, p)' = Holders(s, p) /\ Candidate(s, p)' = Candidate(s, p)
  <2>1. Config' = Config /\ plugged' = plugged /\ Wheels(box)' = Wheels(box)
    BY DEF Config, plugged, Wheels
  <2>2. Identified(box)' = Identified(box)
    BY DEF Identified, Text, Wheels
  <2>q. QED
    BY <2>1, <2>2 DEF Want, Configured, Alone, WheelsRead, Holders, Candidate, SameFor
<1>2. Phases(s)'
  BY <1>1 DEF ServerInv, Phases, SameFor, Config
<1>3. Looking(s)'
  BY <1>1 DEF ServerInv, Looking, SameFor
<1>4. Reached(s)'
  BY <1>1 DEF ServerInv, Reached, SameFor
<1>5. Complete(s)'
  BY <1>1 DEF ServerInv, Complete, SameFor
<1>6. Matches(s)'
  <2>1. /\ Config' = Config /\ plugged' = plugged /\ Wheels(box)' = Wheels(box)
        /\ \A q : Text(box, q)' = Text(box, q)
    BY DEF Config, plugged, Wheels, Text
  <2>2. /\ tube'[s] = tube[s] /\ gauge'[s] = gauge[s]
        /\ controller'[s] = controller[s] /\ fwheel'[s] = fwheel[s]
    BY DEF SameFor
  <2>q. QED BY <2>1, <2>2 DEF ServerInv, Matches
<1>7. \A p \in Ports : Held(s, p)' /\ Marked(s, p)'
  BY <1>1 DEF ServerInv, Held, Marked, SameFor
<1>8. Speeds(s)'
  <2>1. CASE pc[s] = "down"
    BY <1>1, <2>1, DownHolds DEF ServerInv, Speeds, SameFor
  <2>2. CASE pc[s] # "down"
    BY <1>1, <2>2 DEF ServerInv, Speeds, SameFor
  <2>q. QED BY <2>1, <2>2
<1>9. Replied(s)'
  BY <1>1 DEF ServerInv, Replied, SameFor
<1>q. QED
  BY <1>2, <1>3, <1>4, <1>5, <1>6, <1>7, <1>8, <1>9 DEF ServerInv

(* What becomes of an attempt to set a wheel. *)
SetRight(s) ==
  /\ wheelAt'[port[s]] = Value(s)
  /\ tries' = [tries EXCEPT ![s] = 0]
  /\ IF Starting(s) THEN NextLine(s) /\ UNCHANGED reply
     ELSE (\E r \in {"ok", "error"} : End(s, r)) /\ UNCHANGED line
  /\ UNCHANGED <<port, excuse>>

SetAgain(s) ==
  /\ ~LastTry(s)
  /\ tries' = [tries EXCEPT ![s] = @ + 1]
  /\ UNCHANGED <<pc, line, port, reply, excuse>>

SetWrong(s) ==
  /\ tries' = [tries EXCEPT ![s] = 0]
  /\ excuse' = [excuse EXCEPT ![s] = TRUE]
  /\ IF Starting(s) THEN NextPort(s) /\ UNCHANGED reply
     ELSE End(s, "error") /\ UNCHANGED port
  /\ UNCHANGED line

(* A wheel that was told to turn has turned, is asked again, or is given *)
(* up.                                                                   *)
LEMMA SetValueOutcome ==
  ASSUME NEW s \in Servers, SetValue(s)
  PROVE  /\ pc[s] = "setup" /\ Answers(port[s], "FILTER_WHEEL")
         /\ wheelAt' \in {wheelAt, [wheelAt EXCEPT ![port[s]] = Value(s)]}
         /\ box' = box /\ on' = on /\ speed' = speed /\ cmd' = cmd /\ UNCHANGED objects
         /\ SetRight(s) \/ SetAgain(s) \/ SetWrong(s)
<1>1. PICK read \in BOOLEAN :
        CASE IsAt(s, read) ->
               /\ tries' = [tries EXCEPT ![s] = 0]
               /\ IF Starting(s) THEN NextLine(s) /\ UNCHANGED reply
                  ELSE /\ \E r \in {"ok", "error"} : End(s, r)
                       /\ UNCHANGED line
               /\ UNCHANGED <<port, excuse>>
          [] ~IsAt(s, read) /\ ~LastTry(s) ->
               /\ tries' = [tries EXCEPT ![s] = @ + 1]
               /\ UNCHANGED <<pc, line, port, reply, excuse>>
          [] ~IsAt(s, read) /\ LastTry(s) ->
               /\ tries' = [tries EXCEPT ![s] = 0]
               /\ excuse' = [excuse EXCEPT ![s] = TRUE]
               /\ IF Starting(s) THEN NextPort(s) /\ UNCHANGED reply
                  ELSE End(s, "error") /\ UNCHANGED port
               /\ UNCHANGED line
  BY DEF SetValue
<1>2. ASSUME IsAt(s, read) PROVE SetRight(s)
  BY <1>1, <1>2 DEF IsAt, SetRight
<1>3. ASSUME ~IsAt(s, read), ~LastTry(s) PROVE SetAgain(s)
  BY <1>1, <1>3 DEF SetAgain
<1>4. ASSUME ~IsAt(s, read), LastTry(s) PROVE SetWrong(s)
  BY <1>1, <1>4 DEF SetWrong
<1>5. /\ pc[s] = "setup" /\ Answers(port[s], "FILTER_WHEEL")
      /\ wheelAt' \in {wheelAt, [wheelAt EXCEPT ![port[s]] = Value(s)]}
      /\ box' = box /\ on' = on /\ speed' = speed /\ cmd' = cmd /\ UNCHANGED objects
  BY DEF SetValue
<1>q. QED
  BY <1>2, <1>3, <1>4, <1>5

(* Where a search gets to: the first free port, or the end. *)
LEMMA SearchStops ==
  ASSUME NEW s \in Servers, NEW p \in Nat, TypeOK, SearchFrom(s, p)
  PROVE  /\ pc' = [pc EXCEPT ![s] = "search"]
         /\ \E q \in p..NumPorts :
              /\ port' = [port EXCEPT ![s] = q]
              /\ q \in Ports => Candidate(s, q)
              /\ \A r \in p..NumPorts : r < q => ~Candidate(s, r)
<1> DEFINE stops == {q \in p..NumPorts : q \in Ports => Candidate(s, q)}
<1>1. PICK q \in stops : (\A r \in stops : q <= r) /\ port' = [port EXCEPT ![s] = q]
  BY DEF SearchFrom
<1>2. pc' = [pc EXCEPT ![s] = "search"]
  BY DEF SearchFrom, Goto
<1>3. NumPorts \in Nat
  BY PortsAssumption
<1>4. \A r \in p..NumPorts : r < q => ~Candidate(s, r)
  BY <1>1, <1>3
<1>q. QED
  BY <1>1, <1>2, <1>4

(* The other servers are left alone by a step of one. *)
LEMMA OthersSame ==
  ASSUME TypeOK, NEW s \in Servers,
         Start(s) \/ Crash(s) \/ Receive(s) \/ ServerStep(s),
         NEW t \in Servers, t # s
  PROVE  box' = box /\ SameFor(t)
<1> USE DEF SameFor, world, objects, Goto, Search, NextPort, SearchFrom, NextLine, End
<1>1. CASE Start(s)   BY <1>1 DEF Start, TypeOK
<1>2. CASE Crash(s)   BY <1>2 DEF Crash, Down, TypeOK
<1>3. CASE Receive(s)
  <2>1. /\ box' = box /\ UNCHANGED <<used, tube, gauge, controller, fwheel, opened, line, tries>>
        /\ \E c : cmd' = [cmd EXCEPT ![s] = c]
    BY <1>3 DEF Receive
  <2>2. /\ \E w : pc' = [pc EXCEPT ![s] = w]
        /\ port' = port \/ \E p : port' = [port EXCEPT ![s] = p]
        /\ \E r : reply' = [reply EXCEPT ![s] = r]
    BY <1>3 DEF Receive
  <2>q. QED BY <2>1, <2>2 DEF TypeOK
<1>4. CASE ReadLine(s) BY <1>4 DEF ReadLine, TypeOK
<1>5. CASE ConfigRead(s) BY <1>5 DEF ConfigRead, TypeOK
<1>6. CASE Report(s) BY <1>6 DEF Report, Down, TypeOK
<1>7. CASE Open(s) BY <1>7 DEF Open, TypeOK
<1>8. CASE Probe(s)
  <2>1. CASE Close(s) BY <1>8, <2>1 DEF Probe, Close, TypeOK
  <2>2. CASE Take(s)
    <3>1. UNCHANGED <<box, controller, fwheel, opened, port, tries, cmd>>
      BY <1>8, <2>2 DEF Probe, Take
    <3>2. used'[t] = used[t] /\ tube'[t] = tube[t] /\ gauge'[t] = gauge[t]
      BY <2>2 DEF Take, Mark, TypeOK
    <3>3. pc'[t] = pc[t] /\ line'[t] = line[t] /\ reply'[t] = reply[t]
      BY <2>2 DEF Take, TypeOK
    <3>q. QED BY <3>1, <3>2, <3>3
  <2>q. QED BY <1>8, <2>1, <2>2 DEF Probe
<1>9. CASE ProbeController(s) BY <1>9 DEF ProbeController, Close, TypeOK
<1>10. CASE Serial(s) BY <1>10 DEF Serial, Mark, SetInterface, Forget, TypeOK
<1>11. CASE ProbeFwheel(s) BY <1>11 DEF ProbeFwheel, Mark, SetInterface, Forget, TypeOK
<1>12. CASE NotFound(s) BY <1>12 DEF NotFound, Down, TypeOK
<1>13. CASE SetValue(s)
  <2>1. CASE SetRight(s) BY <1>13, <2>1, SetValueOutcome DEF SetRight, TypeOK
  <2>2. CASE SetAgain(s) BY <1>13, <2>2, SetValueOutcome DEF SetAgain, TypeOK
  <2>3. CASE SetWrong(s)
    <3>1. /\ box' = box /\ UNCHANGED objects /\ cmd' = cmd /\ line' = line
          /\ tries'[t] = tries[t]
      BY <1>13, <2>3, SetValueOutcome DEF SetWrong, TypeOK
    <3>2. pc'[t] = pc[t] /\ port'[t] = port[t] /\ reply'[t] = reply[t]
      BY <2>3 DEF SetWrong, TypeOK
    <3>q. QED BY <3>1, <3>2
  <2>q. QED BY <1>13, <2>1, <2>2, <2>3, SetValueOutcome
<1>14. CASE Ask(s) BY <1>14 DEF Ask, Release, TypeOK
<1>q. QED
  BY <1>1, <1>2, <1>3, <1>4, <1>5, <1>6, <1>7, <1>8, <1>9, <1>10, <1>11, <1>12, <1>13, <1>14
     DEF ServerStep

-----------------------------------------------------------------------------
(* The domain and the elements of a sequence. *)
LEMMA SeqIs ==
  ASSUME NEW S, NEW q \in Seq(S)
  PROVE  /\ Len(q) \in Nat /\ DOMAIN q = 1..Len(q)
         /\ \A n \in 1..Len(q) : q[n] \in S
  OBVIOUS

(* What the types say of one server. *)
LEMMA Types ==
  ASSUME TypeOK, NEW s \in Servers
  PROVE  /\ NumPorts \in Nat /\ Config \in Seq([mode : InterfaceIndex, serial : Serials])
         /\ Len(Config) \in Nat /\ line[s] \in 1..(Len(Config) + 1)
         /\ port[s] \in 0..NumPorts /\ (port[s] \in Ports <=> port[s] # NumPorts)
         /\ controller[s] \in Seq(Item) /\ fwheel[s] \in Seq(Item)
         /\ plugged \in [Ports -> Device] /\ box.commands \subseteq Command
         /\ box.servers \subseteq Servers /\ IsFiniteSet(box.servers)
<1>1. NumPorts \in Nat /\ box \in Box /\ IsFiniteSet(Servers)
  BY PortsAssumption DEF TypeOK
<1>2. /\ Config \in Seq([mode : InterfaceIndex, serial : Serials])
      /\ plugged \in [Ports -> Device] /\ box.commands \subseteq Command
      /\ box.servers \subseteq Servers
  BY <1>1 DEF Box, Config, plugged
<1>3. IsFiniteSet(box.servers)
  BY <1>1, <1>2, FS_Subset
<1>4. line[s] \in 1..(Len(Config) + 1) /\ port[s] \in 0..NumPorts
  BY DEF TypeOK
<1>5. port[s] \in Ports <=> port[s] # NumPorts
  BY <1>1, <1>4 DEF Ports
<1>6. controller[s] \in Seq(Item) /\ fwheel[s] \in Seq(Item)
  BY DEF TypeOK
<1>q. QED
  BY <1>1, <1>2, <1>3, <1>4, <1>5, <1>6

(* The wheels of the configuration file are finitely many. *)
LEMMA WheelsAre ==
  ASSUME TypeOK
  PROVE  /\ IsFiniteSet(Wheels(box))
         /\ \A n : n \in Wheels(box) <=> n \in 1..Len(Config) /\ Config[n].mode = "FILTER_WHEEL"
<1>1. DOMAIN Config = 1..Len(Config) /\ Len(Config) \in Nat
  <2>1. box \in Box
    BY PortsAssumption DEF TypeOK
  <2>q. QED BY <2>1 DEF Box, Config
<1>2. \A n : n \in Wheels(box) <=> n \in 1..Len(Config) /\ Config[n].mode = "FILTER_WHEEL"
  BY <1>1 DEF Wheels, Config
<1>3. IsFiniteSet(1..Len(Config))
  BY <1>1, FS_Interval
<1>4. Wheels(box) \subseteq 1..Len(Config)
  BY <1>2
<1>q. QED
  BY <1>2, <1>3, <1>4, FS_Subset

(* Who holds a port of a server. *)
LEMMA HolderIs ==
  ASSUME NEW s \in Servers, NEW p \in Ports, NEW h
  PROVE  h \in Holders(s, p) <=>
           \/ h = <<"TUBE", 1>> /\ tube[s] = p
           \/ h = <<"PRESSURE", 1>> /\ gauge[s] = p
           \/ \E i \in DOMAIN controller[s] :
                h = <<"CONTROLLER", i>> /\ controller[s][i].port = p
           \/ \E i \in DOMAIN fwheel[s] :
                h = <<"FILTER_WHEEL", i>> /\ fwheel[s][i].port = p
  BY DEF Holders

(* A step that leaves what a server has as it is. *)
LEMMA ObjectsSame ==
  ASSUME NEW s \in Servers, ServerInv(s), box' = box,
         UNCHANGED <<used, tube, gauge, controller, fwheel>>
  PROVE  /\ Matches(s)'
         /\ \A p \in Ports : /\ Holders(s, p)' = Holders(s, p) /\ Marked(s, p)'
                             /\ \A h \in Holders(s, p)' : used'[s][p]
                             /\ \A g, h \in Holders(s, p)' : g = h
<1>1. Config' = Config /\ plugged' = plugged /\ Wheels(box)' = Wheels(box)
      /\ Identified(box)' = Identified(box)
  BY DEF Config, plugged, Wheels, Identified, Text
<1>2. \A p \in Ports : Holders(s, p)' = Holders(s, p)
  BY DEF Holders
<1>3. Matches(s)'
  BY <1>1 DEF ServerInv, Matches, Text, Config, plugged, Wheels
<1>q. QED
  BY <1>1, <1>2, <1>3 DEF ServerInv, Held, Marked

(* What a line in the configuration file, and a command, is about. *)
LEMMA WantIs ==
  ASSUME TypeOK, NEW s \in Servers
  PROVE  /\ Want(s) \in InterfaceIndex
         /\ Want(s) = IF Configured(s) THEN Config[line[s]].mode ELSE Index(cmd[s])
         /\ Configured(s) => line[s] \in DOMAIN Config
         /\ Index(cmd[s]) = "FILTER_WHEEL" <=> cmd[s].op = "setfw"
         /\ Index(cmd[s]) = "TUBE" <=> cmd[s].op \in {"tube", "istube"}
<1>1. line[s] \in 1..(Len(Config) + 1) /\ Len(Config) \in Nat
      /\ Config \in Seq([mode : InterfaceIndex, serial : Serials])
  BY Types
<1>2. Configured(s) => line[s] \in DOMAIN Config /\ Config[line[s]].mode \in InterfaceIndex
  <2>2. \A n \in 1..Len(Config) : Config[n] \in [mode : InterfaceIndex, serial : Serials]
    BY <1>1, SeqIs
  <2>1. DOMAIN Config = 1..Len(Config) /\ \A n \in DOMAIN Config : Config[n].mode \in InterfaceIndex
    BY <1>1, <2>2
  <2>q. QED BY <1>1, <2>1 DEF Configured
<1>3. /\ Index(cmd[s]) \in InterfaceIndex
      /\ Index(cmd[s]) = "FILTER_WHEEL" <=> cmd[s].op = "setfw"
      /\ Index(cmd[s]) = "TUBE" <=> cmd[s].op \in {"tube", "istube"}
  <2>1. cmd[s].op \in Operations
    BY DEF TypeOK, Command
  <2>2. CASE cmd[s].op \in {"tube", "istube"}
    BY <2>2 DEF Index, InterfaceIndex
  <2>3. CASE cmd[s].op = "setfw"
    BY <2>3 DEF Index, InterfaceIndex
  <2>4. CASE cmd[s].op \in Operations \ {"tube", "istube", "setfw"}
    BY <2>4 DEF Index, InterfaceIndex
  <2>q. QED BY <2>1, <2>2, <2>3, <2>4
<1>4. Want(s) = IF Configured(s) THEN Config[line[s]].mode ELSE Index(cmd[s])
  BY DEF Want, Configured
<1>q. QED
  BY <1>2, <1>3, <1>4

(* While it looks for its devices, a server that starts reads its *)
(* configuration file.                                            *)
LEMMA StartingIs ==
  ASSUME NEW s \in Servers, TypeOK, pc[s] \notin {"down", "config", "print"}
  PROVE  Starting(s) <=> Configured(s)
  BY DEF Starting, Configured

(* The wheels read are the same, when a line is done with as before. *)
LEMMA WheelsReadSame ==
  ASSUME TypeOK, NEW s \in Servers, box' = box, pc[s] \notin {"down", "config"},
         \/ line'[s] = line[s] /\ pc'[s] \notin {"down", "config"}
         \/ line'[s] = line[s] + 1 /\ pc'[s] = "config"
  PROVE  WheelsRead(s)' = WheelsRead(s)
<1>1. Wheels(box)' = Wheels(box) /\ \A n \in Wheels(box) : n \in Nat
  BY WheelsAre, Types DEF Wheels
<1>2. line[s] \in Nat
  BY Types
<1>3. CASE line'[s] = line[s] /\ pc'[s] \notin {"down", "config"}
  BY <1>1, <1>2, <1>3 DEF WheelsRead
<1>4. CASE line'[s] = line[s] + 1 /\ pc'[s] = "config"
  <2>1. \A n \in Wheels(box) : n < line[s] + 1 <=> (n < line[s] \/ n = line[s])
    BY <1>1, <1>2
  <2>q. QED BY <1>1, <1>4, <2>1 DEF WheelsRead
<1>q. QED
  BY <1>3, <1>4

-----------------------------------------------------------------------------
(* Each step of a server keeps its invariant. *)

(* A server that starts has nothing yet. *)
LEMMA StartInv ==
  ASSUME PInv, NEW s \in Servers, Start(s)
  PROVE  ServerInv(s)'
<1> USE DEF Start, world, objects, Goto
<1>0. TypeOK /\ ServerInv(s) /\ pc'[s] = "config" /\ box' = box /\ line' = line
      /\ reply'[s] = "none" /\ pc[s] = "down"
  BY DEF PInv, TypeOK
<1>1. /\ Matches(s)'
      /\ \A p \in Ports : /\ Holders(s, p)' = Holders(s, p) /\ Marked(s, p)'
                          /\ \A h \in Holders(s, p)' : used'[s][p]
                          /\ \A g, h \in Holders(s, p)' : g = h
  BY <1>0, ObjectsSame
<1>2. Phases(s)' /\ Looking(s)' /\ Reached(s)'
  BY <1>0 DEF Phases, Looking, Reached
<1>3. Complete(s)'
  <2>1. WheelsRead(s)' = WheelsRead(s)
    BY <1>0 DEF WheelsRead, Wheels
  <2>q. QED BY <1>0, <2>1 DEF ServerInv, Complete, Phases
<1>4. \A p \in Ports : Held(s, p)'
  BY <1>0, <1>1 DEF ServerInv, Held
<1>5. Speeds(s)'
  BY <1>0, <1>1 DEF ServerInv, Speeds, Alone
<1>6. Replied(s)'
  BY <1>0 DEF Replied
<1>q. QED
  BY <1>1, <1>2, <1>3, <1>4, <1>5, <1>6 DEF ServerInv

(* The configuration file has been read to its end. *)
LEMMA ConfigReadInv ==
  ASSUME PInv, NEW s \in Servers, ConfigRead(s)
  PROVE  ServerInv(s)'
<1> USE DEF ConfigRead, world, objects, Goto
<1>0. TypeOK /\ ServerInv(s) /\ pc'[s] = "print" /\ box' = box /\ line' = line
      /\ reply' = reply /\ pc[s] = "config" /\ Config' = Config
  BY DEF PInv, TypeOK, Config
<1>1. /\ Matches(s)'
      /\ \A p \in Ports : /\ Holders(s, p)' = Holders(s, p) /\ Marked(s, p)'
                          /\ \A h \in Holders(s, p)' : used'[s][p]
                          /\ \A g, h \in Holders(s, p)' : g = h
  BY <1>0, ObjectsSame
<1>2. Phases(s)' /\ Looking(s)' /\ Reached(s)'
  <2>1. line[s] = Len(Config) + 1
    BY <1>0, Types
  <2>q. QED BY <1>0, <2>1 DEF ServerInv, Phases, Looking, Reached
<1>3. Complete(s)'
  <2>1. WheelsRead(s)' = WheelsRead(s)
    <3>1. line[s] = Len(Config) + 1 /\ Len(Config) \in Nat
      BY <1>0, Types
    <3>2. \A n \in Wheels(box) : n \in Nat /\ n < line[s]
      BY <1>0, <3>1, WheelsAre
    <3>q. QED BY <1>0, <3>2 DEF WheelsRead
  <2>q. QED BY <1>0, <2>1 DEF ServerInv, Complete
<1>4. \A p \in Ports : Held(s, p)'
  BY <1>0, <1>1 DEF ServerInv, Held
<1>5. Speeds(s)'
  BY <1>0, <1>1 DEF ServerInv, Speeds, Alone
<1>6. Replied(s)'
  BY <1>0 DEF ServerInv, Replied
<1>q. QED
  BY <1>1, <1>2, <1>3, <1>4, <1>5, <1>6 DEF ServerInv

(* A server that goes down has nothing left. *)
LEMMA DownInv ==
  ASSUME PInv, NEW s \in Servers, NEW r \in {"none", "failed"}, Down(s, r)
  PROVE  ServerInv(s)'
<1> USE DEF Down, world, Goto
<1>0. /\ TypeOK /\ ServerInv(s) /\ pc'[s] = "down" /\ box' = box /\ line'[s] = 1
      /\ used'[s] = [p \in Ports |-> FALSE] /\ opened'[s] = [p \in Ports |-> 0]
      /\ tube'[s] = NoPort /\ gauge'[s] = NoPort /\ controller'[s] = << >> /\ fwheel'[s] = << >>
      /\ reply'[s] = r
  BY DEF PInv, TypeOK
<1>1. \A p \in Ports : Holders(s, p)' = {}
  BY <1>0 DEF Holders, Ports, NoPort
<1>2. Phases(s)' /\ Looking(s)' /\ Reached(s)' /\ Matches(s)' /\ Replied(s)'
  BY <1>0 DEF Phases, Looking, Reached, Matches, Replied
<1>3. Complete(s)'
  <2>1. WheelsRead(s)' = {}
    <3>1. \A n \in Wheels(box) : n \in Nat /\ ~ n < 1
      BY <1>0, Types, WheelsAre
    <3>q. QED BY <1>0, <3>1 DEF WheelsRead
  <2>q. QED BY <1>0, <2>1, FS_EmptySet DEF Complete
<1>4. \A p \in Ports : Held(s, p)' /\ Marked(s, p)'
  BY <1>0, <1>1 DEF Held, Marked
<1>5. Speeds(s)'
  BY <1>0, <1>1 DEF Speeds
<1>q. QED
  BY <1>2, <1>3, <1>4, <1>5 DEF ServerInv

(* The search goes on, whatever was at the last port. *)
LEMMA SearchOnInv ==
  ASSUME PInv, NEW s \in Servers, NEW p \in Nat, SearchFrom(s, p),
         box' = box, speed' = speed, UNCHANGED <<used, tube, gauge, controller, fwheel>>,
         line'[s] = line[s], cmd'[s] = cmd[s], reply'[s] = reply[s],
         pc[s] \in {"search", "probe", "serial", "setup"}, pc[s] = "setup" => Configured(s),
         \/ opened'[s] = opened[s]
         \/ /\ pc[s] \in {"probe", "serial"}
            /\ opened'[s] = [opened[s] EXCEPT ![port[s]] = @ - 1]
  PROVE  ServerInv(s)'
<1>0. /\ TypeOK /\ ServerInv(s) /\ Config' = Config
      /\ Configured(s)' = Configured(s) /\ Want(s)' = Want(s)
  BY DEF PInv, Config, Configured, Want
<1>1. /\ Matches(s)'
      /\ \A q \in Ports : /\ Holders(s, q)' = Holders(s, q) /\ Marked(s, q)'
                          /\ \A h \in Holders(s, q)' : used'[s][q]
                          /\ \A g, h \in Holders(s, q)' : g = h
  BY <1>0, ObjectsSame
<1>2. /\ pc'[s] = "search" /\ port'[s] \in 0..NumPorts
      /\ port'[s] \in Ports => Candidate(s, port'[s])
  <2>1. /\ pc' = [pc EXCEPT ![s] = "search"]
        /\ \E q \in p..NumPorts : port' = [port EXCEPT ![s] = q] /\ (q \in Ports => Candidate(s, q))
    BY <1>0, SearchStops
  <2>q. QED BY <1>0, <2>1, Types DEF TypeOK
<1>3. Phases(s)' /\ Reached(s)'
  BY <1>0, <1>2 DEF ServerInv, Phases, Reached
<1>4. Looking(s)'
  <2>1. port'[s] \in Ports => Candidate(s, port[s])'
    BY <1>2 DEF Candidate, plugged
  <2>2. /\ Want(s) = "TUBE" => tube[s] = NoPort
        /\ Want(s) = "PRESSURE" => gauge[s] = NoPort
        /\ Want(s) = "CONTROLLER" => controller[s] # << >> /\ Last(controller[s]).port = NoPort
        /\ Want(s) = "FILTER_WHEEL" => fwheel[s] # << >>
    BY <1>0 DEF ServerInv, Looking, Reached, Phases
  <2>q. QED BY <1>0, <1>2, <2>1, <2>2 DEF Looking
<1>5. Complete(s)'
  <2>1. WheelsRead(s)' = WheelsRead(s)
    BY <1>0, <1>2, WheelsReadSame
  <2>q. QED BY <1>0, <1>2, <2>1 DEF ServerInv, Complete
<1>6. \A q \in Ports : Held(s, q)'
  <2> SUFFICES ASSUME NEW q \in Ports PROVE Held(s, q)'
    OBVIOUS
  <2>1. opened[s] \in [Ports -> Nat] /\ Held(s, q)
    BY <1>0 DEF TypeOK, ServerInv
  <2>2. opened'[s][q] >= IF Holders(s, q) = {} THEN 0 ELSE 1
    BY <2>1 DEF Held
  <2>q. QED BY <1>1, <1>2, <2>2 DEF Held
<1>7. Speeds(s)'
  BY <1>0, <1>1, <1>2 DEF ServerInv, Speeds, Alone
<1>8. Replied(s)'
  BY <1>0, <1>2 DEF ServerInv, Replied
<1>q. QED
  BY <1>1, <1>3, <1>4, <1>5, <1>6, <1>7, <1>8 DEF ServerInv

(* Nothing changes but where the server is. *)
LEMMA OpenInv ==
  ASSUME PInv, NEW s \in Servers, Open(s)
  PROVE  ServerInv(s)'
<1>0. /\ TypeOK /\ ServerInv(s) /\ pc[s] = "search" /\ pc'[s] = "probe" /\ port[s] \in Ports
      /\ box' = box /\ Config' = Config /\ line' = line /\ port' = port /\ cmd' = cmd
      /\ reply' = reply
      /\ Configured(s)' = Configured(s) /\ Want(s)' = Want(s)
      /\ UNCHANGED <<used, tube, gauge, controller, fwheel>>
      /\ opened'[s] = [opened[s] EXCEPT ![port[s]] = @ + 1]
      /\ speed' = [speed EXCEPT ![port[s]] = Settings(Want(s))]
  BY DEF PInv, TypeOK, Open, Goto, Config, Configured, Want
<1>1. /\ Matches(s)'
      /\ \A q \in Ports : /\ Holders(s, q)' = Holders(s, q) /\ Marked(s, q)'
                          /\ \A h \in Holders(s, q)' : used'[s][q]
                          /\ \A g, h \in Holders(s, q)' : g = h
  BY <1>0, ObjectsSame
<1>2. Phases(s)' /\ Reached(s)'
  BY <1>0 DEF ServerInv, Phases, Reached
<1>3. Looking(s)'
  <2>1. Candidate(s, port[s])'
    BY <1>0 DEF ServerInv, Looking, Candidate, plugged
  <2>q. QED BY <1>0, <2>1 DEF ServerInv, Looking
<1>4. Complete(s)'
  <2>1. WheelsRead(s)' = WheelsRead(s)
    BY <1>0, WheelsReadSame
  <2>q. QED BY <1>0, <2>1 DEF ServerInv, Complete
<1>5. \A q \in Ports : Held(s, q)'
  <2> SUFFICES ASSUME NEW q \in Ports PROVE Held(s, q)'
    OBVIOUS
  <2>1. opened[s] \in [Ports -> Nat] /\ Held(s, q)
    BY <1>0 DEF TypeOK, ServerInv
  <2>q. QED BY <1>0, <1>1, <2>1 DEF Held
<1>6. Speeds(s)'
  <2>1. \A q \in Ports : \A h \in Holders(s, q) : q # port[s]
    BY <1>0 DEF ServerInv, Looking, Candidate, Held
  <2>2. speed \in [Ports -> {"unset"} \union {Settings(k) : k \in InterfaceIndex}]
    BY <1>0 DEF TypeOK
  <2>3. speed'[port[s]] = Settings(Want(s)) /\ \A q \in Ports : q # port[s] => speed'[q] = speed[q]
    BY <1>0, <2>2
  <2>q. QED BY <1>0, <1>1, <2>1, <2>3 DEF ServerInv, Speeds, Alone
<1>7. Replied(s)'
  BY <1>0 DEF ServerInv, Replied
<1>q. QED
  BY <1>1, <1>2, <1>3, <1>4, <1>5, <1>6, <1>7 DEF ServerInv

(* The start is reported, or fails because a device does not answer. *)
LEMMA ReportInv ==
  ASSUME PInv, NEW s \in Servers, Report(s)
  PROVE  ServerInv(s)'
<1>1. CASE Down(s, "failed")
  BY <1>1, DownInv
<1>2. CASE Goto(s, "idle") /\ UNCHANGED <<world, objects, line, port, tries, cmd, reply, excuse>>
  <2>0. /\ TypeOK /\ ServerInv(s) /\ pc[s] = "print" /\ pc'[s] = "idle"
        /\ box' = box /\ Config' = Config /\ line' = line /\ reply' = reply /\ speed' = speed
        /\ UNCHANGED <<used, tube, gauge, controller, fwheel, opened>>
    BY <1>2 DEF PInv, TypeOK, Report, Goto, Config, world, objects
  <2>1. /\ Matches(s)'
        /\ \A q \in Ports : /\ Holders(s, q)' = Holders(s, q) /\ Marked(s, q)'
                            /\ \A h \in Holders(s, q)' : used'[s][q]
                            /\ \A g, h \in Holders(s, q)' : g = h
    BY <2>0, ObjectsSame
  <2>2. Phases(s)' /\ Reached(s)' /\ Looking(s)' /\ Replied(s)'
    BY <2>0 DEF ServerInv, Phases, Reached, Looking, Replied
  <2>3. Complete(s)'
    <3>1. WheelsRead(s)' = WheelsRead(s)
      BY <2>0, WheelsReadSame
    <3>q. QED BY <2>0, <3>1 DEF ServerInv, Complete
  <2>4. \A q \in Ports : Held(s, q)'
    BY <2>0, <2>1 DEF ServerInv, Held
  <2>5. Speeds(s)'
    BY <2>0, <2>1 DEF ServerInv, Speeds, Alone
  <2>q. QED BY <2>1, <2>2, <2>3, <2>4, <2>5 DEF ServerInv
<1>q. QED
  BY <1>1, <1>2 DEF Report

(* What a command leads to. *)
Sought(s, c) ==
  /\ c.op # "setfw"
  /\ IF Index(c) = "TUBE" THEN tube[s] = NoPort ELSE gauge[s] = NoPort
  /\ SearchFrom(s, 0) /\ reply' = [reply EXCEPT ![s] = "none"]

Answered(s, c) ==
  /\ \/ c.op = "setfw" /\ End(s, "error")
     \/ c.op = "getpressureinterface" /\ End(s, "ok")
  /\ UNCHANGED port

GoneTo(s, c, w, p) ==
  /\ pc' = [pc EXCEPT ![s] = w] /\ port' = [port EXCEPT ![s] = p]
  /\ reply' = [reply EXCEPT ![s] = "none"] /\ p \in Ports

(* What a command received leads to: a search, an answer, a wheel told to *)
(* turn, or a question to a device.                                       *)
LEMMA ReceiveOutcome ==
  ASSUME PInv, NEW s \in Servers, Receive(s)
  PROVE  /\ pc[s] = "idle" /\ UNCHANGED <<world, objects, line, tries>>
         /\ excuse' = [excuse EXCEPT ![s] = FALSE]
         /\ \E c \in Command :
              /\ cmd' = [cmd EXCEPT ![s] = c]
              /\ c.op = "setfw" => c.i \in DOMAIN fwheel[s]
              /\ \/ Sought(s, c) \/ Answered(s, c)
                 \/ c.op = "setfw" /\ c.v # 0 /\ GoneTo(s, c, "setup", fwheel[s][c.i].port)
                 \/ Index(c) = "TUBE" /\ GoneTo(s, c, "ask", tube[s])
                 \/ Index(c) = "PRESSURE" /\ GoneTo(s, c, "ask", gauge[s])
<1> DEFINE held(c) == CASE Index(c) = "TUBE"         -> tube[s]
                        [] Index(c) = "PRESSURE"     -> gauge[s]
                        [] Index(c) = "FILTER_WHEEL" -> fwheel[s][c.i].port
           then(c) == CASE c.op = "setfw" /\ c.v = 0 ->
                             End(s, "error") /\ UNCHANGED port
                        [] held(c) = NoPort ->
                             Search(s) /\ reply' = [reply EXCEPT ![s] = "none"]
                        [] held(c) # NoPort /\ c.op = "getpressureinterface" ->
                             End(s, "ok") /\ UNCHANGED port
                        [] OTHER ->
                             /\ Goto(s, IF c.op = "setfw" THEN "setup" ELSE "ask")
                             /\ port' = [port EXCEPT ![s] = held(c)]
                             /\ reply' = [reply EXCEPT ![s] = "none"]
<1>1. PICK c \in box.commands : cmd' = [cmd EXCEPT ![s] = c] /\ then(c)
  BY DEF Receive
<1>2. /\ pc[s] = "idle" /\ UNCHANGED <<world, objects, line, tries>>
      /\ excuse' = [excuse EXCEPT ![s] = FALSE]
  BY DEF Receive
<1>3. c \in Command /\ c.op \in Operations /\ TypeOK /\ ServerInv(s)
  <2>1. TypeOK /\ ServerInv(s)
    BY DEF PInv
  <2>2. c \in Command
    BY <1>1, <2>1, Types
  <2>q. QED BY <2>1, <2>2 DEF Command
<1>4. /\ tube[s] \in Ports \union {NoPort} /\ gauge[s] \in Ports \union {NoPort}
      /\ NoPort \notin Ports
  BY <1>3 DEF TypeOK, Ports, NoPort
<1>5. ASSUME c.op = "setfw"
      PROVE  c.i \in DOMAIN fwheel[s] /\ fwheel[s][c.i].port \in Ports
  <2>1. line[s] = Len(Config) + 1 /\ Len(Config) \in Nat
    BY <1>2, <1>3, Types DEF ServerInv, Phases
  <2>2. WheelsRead(s) = Wheels(box)
    <3>1. \A n \in Wheels(box) : n \in Nat /\ n < line[s]
      BY <1>3, <2>1, WheelsAre
    <3>q. QED BY <3>1 DEF WheelsRead
  <2>3. c.i \in 1..Cardinality(Wheels(box))
    BY <1>1, <1>3, <1>5, PortsAssumption DEF TypeOK
  <2>4. c.i \in 1..Len(fwheel[s])
    BY <1>3, <2>2, <2>3 DEF ServerInv, Complete
  <2>5. DOMAIN fwheel[s] = 1..Len(fwheel[s]) /\ fwheel[s][c.i] \in Item
    BY <1>3, <2>4, Types, SeqIs
  <2>6. fwheel[s][c.i].port # NoPort
    BY <1>2, <1>3, <2>4, <2>5 DEF ServerInv, Complete
  <2>q. QED BY <2>4, <2>5, <2>6 DEF Item
<1>6. \/ Sought(s, c) \/ Answered(s, c)
      \/ c.op = "setfw" /\ c.v # 0 /\ GoneTo(s, c, "setup", fwheel[s][c.i].port)
      \/ Index(c) = "TUBE" /\ GoneTo(s, c, "ask", tube[s])
      \/ Index(c) = "PRESSURE" /\ GoneTo(s, c, "ask", gauge[s])
  <2>1. CASE c.op = "setfw"
    <3>1. held(c) = fwheel[s][c.i].port /\ held(c) \in Ports /\ held(c) # NoPort
      BY <1>4, <1>5, <2>1 DEF Index
    <3> HIDE DEF held
    <3>2. CASE c.v = 0
      BY <1>1, <2>1, <3>1, <3>2 DEF Answered
    <3>3. CASE c.v # 0
      BY <1>1, <2>1, <3>1, <3>3 DEF GoneTo, Goto
    <3>q. QED BY <3>2, <3>3
  <2>2. CASE c.op \in {"tube", "istube"}
    <3>1. held(c) = tube[s] /\ Index(c) = "TUBE"
      BY <2>2 DEF Index
    <3> HIDE DEF held
    <3>2. CASE tube[s] = NoPort
      BY <1>1, <2>2, <3>1, <3>2 DEF Sought, Search
    <3>3. CASE tube[s] # NoPort
      BY <1>1, <1>4, <2>2, <3>1, <3>3 DEF GoneTo, Goto
    <3>q. QED BY <3>2, <3>3
  <2>3. CASE c.op \in {"pressure", "ispressure", "getpressureinterface"}
    <3>1. held(c) = gauge[s] /\ Index(c) = "PRESSURE"
      BY <2>3 DEF Index
    <3> HIDE DEF held
    <3>2. CASE gauge[s] = NoPort
      BY <1>1, <2>3, <3>1, <3>2 DEF Sought, Search
    <3>3. CASE gauge[s] # NoPort /\ c.op = "getpressureinterface"
      BY <1>1, <2>3, <3>1, <3>3 DEF Answered
    <3>4. CASE gauge[s] # NoPort /\ c.op # "getpressureinterface"
      BY <1>1, <1>4, <2>3, <3>1, <3>4 DEF GoneTo, Goto
    <3>q. QED BY <3>2, <3>3, <3>4
  <2>q. QED BY <1>3, <2>1, <2>2, <2>3 DEF Operations
<1>q. QED
  BY <1>1, <1>2, <1>3, <1>5, <1>6

(* Receiving a command keeps what is known of the server. *)
LEMMA ReceiveInv ==
  ASSUME PInv, NEW s \in Servers, Receive(s)
  PROVE  ServerInv(s)'
<1>0. /\ TypeOK /\ ServerInv(s) /\ pc[s] = "idle"
      /\ box' = box /\ Config' = Config /\ line' = line /\ speed' = speed /\ wheelAt' = wheelAt
      /\ UNCHANGED <<used, tube, gauge, controller, fwheel, opened>>
  BY ReceiveOutcome DEF PInv, world, objects, Config
<1>1. PICK c \in Command :
        /\ cmd' = [cmd EXCEPT ![s] = c]
        /\ c.op = "setfw" => c.i \in DOMAIN fwheel[s]
        /\ \/ Sought(s, c) \/ Answered(s, c)
           \/ c.op = "setfw" /\ c.v # 0 /\ GoneTo(s, c, "setup", fwheel[s][c.i].port)
           \/ Index(c) = "TUBE" /\ GoneTo(s, c, "ask", tube[s])
           \/ Index(c) = "PRESSURE" /\ GoneTo(s, c, "ask", gauge[s])
  BY ReceiveOutcome
<1>2. /\ cmd'[s] = c /\ line[s] = Len(Config) + 1 /\ Len(Config) \in Nat
      /\ ~Configured(s) /\ ~Configured(s)' /\ Want(s)' = Index(c)
  <2>1. line[s] = Len(Config) + 1 /\ Len(Config) \in Nat
    BY <1>0, Types DEF ServerInv, Phases
  <2>2. cmd'[s] = c
    BY <1>0, <1>1 DEF TypeOK
  <2>q. QED BY <1>0, <2>1, <2>2 DEF Configured, Want
<1>3. /\ Matches(s)'
      /\ \A q \in Ports : /\ Holders(s, q)' = Holders(s, q) /\ Marked(s, q)'
                          /\ \A h \in Holders(s, q)' : used'[s][q]
                          /\ \A g, h \in Holders(s, q)' : g = h
  BY <1>0, ObjectsSame
<1>4. /\ Index(c) \in InterfaceIndex
      /\ Index(c) = "FILTER_WHEEL" <=> c.op = "setfw"
  <2>1. c.op \in Operations
    BY <1>1 DEF Command
  <2>2. CASE c.op \in {"tube", "istube"}
    BY <2>2 DEF Index, InterfaceIndex
  <2>3. CASE c.op = "setfw"
    BY <2>3 DEF Index, InterfaceIndex
  <2>4. CASE c.op \in Operations \ {"tube", "istube", "setfw"}
    BY <2>4 DEF Index, InterfaceIndex
  <2>q. QED BY <2>1, <2>2, <2>3, <2>4
<1>5. pc'[s] \notin {"down", "config", "probe", "serial"}
      /\ (pc'[s] = "search" =>
            /\ Index(c) \in {"TUBE", "PRESSURE"}
            /\ IF Index(c) = "TUBE" THEN tube[s] = NoPort ELSE gauge[s] = NoPort
            /\ port'[s] \in Ports => Candidate(s, port[s])')
      /\ (pc'[s] = "setup" => /\ c.op = "setfw" /\ c.v # 0 /\ port'[s] \in Ports
                              /\ port'[s] = fwheel[s][c.i].port)
      /\ (pc'[s] = "ask" => /\ Index(c) \in {"TUBE", "PRESSURE"} /\ port'[s] \in Ports
                            /\ port'[s] = IF Index(c) = "TUBE" THEN tube[s] ELSE gauge[s])
      /\ (reply'[s] = "none" \/ pc'[s] = "idle")
      /\ (reply'[s] = "ok" => c.op # "setfw")
  <2>1. CASE Sought(s, c)
    <3>1. reply'[s] = "none"
      BY <1>0, <2>1 DEF Sought, TypeOK
    <3>2. /\ pc' = [pc EXCEPT ![s] = "search"]
          /\ \E q \in 0..NumPorts : port' = [port EXCEPT ![s] = q] /\ (q \in Ports => Candidate(s, q))
      BY <1>0, <2>1, SearchStops DEF Sought
    <3>3. pc'[s] = "search" /\ (port'[s] \in Ports => ~used[s][port'[s]] /\ plugged[port'[s]].kind # "nothing")
      BY <1>0, <3>2 DEF TypeOK, Candidate
    <3>4. port'[s] \in Ports => Candidate(s, port[s])'
      BY <1>0, <3>3 DEF Candidate, plugged
    <3>5. Index(c) \in {"TUBE", "PRESSURE"}
      <4>1. c.op \in Operations \ {"setfw"}
        BY <1>1, <2>1 DEF Sought, Command
      <4>2. CASE c.op \in {"tube", "istube"}
        BY <4>2 DEF Index
      <4>3. CASE c.op \in Operations \ {"tube", "istube", "setfw"}
        BY <4>3 DEF Index
      <4>q. QED BY <4>1, <4>2, <4>3
    <3>6. IF Index(c) = "TUBE" THEN tube[s] = NoPort ELSE gauge[s] = NoPort
      BY <2>1 DEF Sought
    <3>q. QED BY <3>1, <3>3, <3>4, <3>5, <3>6
  <2>2. CASE Answered(s, c)
    <3>1. pc'[s] = "idle" /\ (reply'[s] = "ok" => c.op # "setfw")
      BY <1>0, <2>2 DEF Answered, End, Goto, TypeOK
    <3>q. QED BY <3>1
  <2>3. ASSUME NEW w \in {"setup", "ask"}, NEW p, GoneTo(s, c, w, p)
        PROVE  pc'[s] = w /\ port'[s] = p /\ reply'[s] = "none" /\ p \in Ports
    BY <1>0, <2>3 DEF GoneTo, TypeOK
  <2>4. CASE c.op = "setfw" /\ c.v # 0 /\ GoneTo(s, c, "setup", fwheel[s][c.i].port)
    BY <2>3, <2>4
  <2>5. CASE Index(c) = "TUBE" /\ GoneTo(s, c, "ask", tube[s])
    BY <2>3, <2>5
  <2>6. CASE Index(c) = "PRESSURE" /\ GoneTo(s, c, "ask", gauge[s])
    BY <2>3, <2>6
  <2>q. QED BY <1>1, <2>1, <2>2, <2>4, <2>5, <2>6
<1>6. Phases(s)'
  BY <1>0, <1>2, <1>4, <1>5 DEF ServerInv, Phases
<1>7. Looking(s)'
  BY <1>0, <1>2, <1>5 DEF Looking
<1>8. Reached(s)'
  BY <1>0, <1>1, <1>2, <1>5 DEF Reached
<1>9. Complete(s)'
  <2>1. WheelsRead(s)' = WheelsRead(s)
    BY <1>0, <1>5, WheelsReadSame
  <2>q. QED BY <1>0, <2>1 DEF ServerInv, Complete
<1>10. \A q \in Ports : Held(s, q)'
  BY <1>0, <1>3, <1>5 DEF ServerInv, Held
<1>11. Speeds(s)'
  BY <1>0, <1>3, <1>5 DEF ServerInv, Speeds, Alone
<1>12. Replied(s)'
  BY <1>1, <1>2, <1>5 DEF Replied
<1>q. QED
  BY <1>3, <1>6, <1>7, <1>8, <1>9, <1>10, <1>11, <1>12 DEF ServerInv

(* A line of the configuration file: what is added to the lists. *)
Mode(s) == Config[line[s]].mode

NewItem(s) == [serial |-> Config[line[s]].serial, port |-> NoPort]

Had(s) ==
  \/ Mode(s) = "TUBE" /\ tube[s] # NoPort
  \/ Mode(s) = "PRESSURE" /\ gauge[s] # NoPort

(* What reading a line of the configuration file changes. *)
LEMMA ReadLineLists ==
  ASSUME PInv, NEW s \in Servers, ReadLine(s)
  PROVE  /\ controller'[s] = IF Mode(s) = "CONTROLLER" THEN Append(controller[s], NewItem(s))
                             ELSE controller[s]
         /\ fwheel'[s] = IF Mode(s) = "FILTER_WHEEL" THEN Append(fwheel[s], NewItem(s))
                         ELSE fwheel[s]
         /\ UNCHANGED <<world, used, tube, gauge, opened, tries, cmd, reply, excuse>>
         /\ pc[s] = "config" /\ line[s] <= Len(Config)
         /\ Had(s) => NextLine(s) /\ port' = port
         /\ ~Had(s) => SearchFrom(s, 0) /\ line' = line
  BY DEF PInv, TypeOK, ReadLine, Search, Mode, NewItem, Had

(* Reading a line keeps what is known of the server. *)
LEMMA ReadLineInv ==
  ASSUME PInv, NEW s \in Servers, ReadLine(s)
  PROVE  ServerInv(s)'
<1>0. /\ TypeOK /\ ServerInv(s) /\ pc[s] = "config" /\ line[s] <= Len(Config)
      /\ box' = box /\ speed' = speed /\ cmd' = cmd /\ reply' = reply
      /\ Config' = Config /\ plugged' = plugged /\ Wheels(box)' = Wheels(box)
      /\ UNCHANGED <<used, tube, gauge, opened>>
  BY ReadLineLists DEF PInv, world, Config, plugged, Wheels
<1>1. /\ controller[s] \in Seq(Item) /\ fwheel[s] \in Seq(Item)
      /\ Len(controller[s]) \in Nat /\ Len(fwheel[s]) \in Nat
      /\ DOMAIN controller[s] = 1..Len(controller[s]) /\ DOMAIN fwheel[s] = 1..Len(fwheel[s])
      /\ line[s] \in Nat /\ line[s] \in 1..Len(Config) /\ Len(Config) \in Nat
  BY <1>0, Types, SeqIs
<1>2. /\ controller'[s] = IF Mode(s) = "CONTROLLER" THEN Append(controller[s], NewItem(s)) ELSE controller[s]
      /\ fwheel'[s] = IF Mode(s) = "FILTER_WHEEL" THEN Append(fwheel[s], NewItem(s)) ELSE fwheel[s]
      /\ Had(s) => NextLine(s)
      /\ ~Had(s) => SearchFrom(s, 0) /\ line' = line
  BY ReadLineLists
<1>3. /\ Had(s) => pc'[s] = "config" /\ line'[s] = line[s] + 1
      /\ ~Had(s) => /\ pc'[s] = "search" /\ line'[s] = line[s]
                 /\ (port'[s] \in Ports => Candidate(s, port[s])')
  <2>1. CASE Had(s)
    BY <1>0, <1>2, <2>1 DEF NextLine, Goto, TypeOK
  <2>2. CASE ~Had(s)
    <3>1. /\ pc' = [pc EXCEPT ![s] = "search"]
          /\ \E q \in 0..NumPorts : port' = [port EXCEPT ![s] = q] /\ (q \in Ports => Candidate(s, q))
      BY <1>0, <1>2, <2>2, SearchStops
    <3>2. /\ pc'[s] = "search"
          /\ port'[s] \in Ports => ~used[s][port'[s]] /\ plugged[port'[s]].kind # "nothing"
      BY <1>0, <3>1 DEF TypeOK, Candidate
    <3>3. port'[s] \in Ports => Candidate(s, port[s])'
      BY <1>0, <3>2 DEF Candidate, plugged
    <3>q. QED BY <1>2, <2>2, <3>2, <3>3
  <2>q. QED BY <2>1, <2>2
<1>4. Mode(s) \in InterfaceIndex /\ (Had(s) => Mode(s) \in {"TUBE", "PRESSURE"})
  <2>1. Config[line[s]] \in [mode : InterfaceIndex, serial : Serials]
    BY <1>0, <1>1, Types, SeqIs
  <2>q. QED BY <2>1 DEF Mode, Had
<1>5. /\ DOMAIN controller'[s] = 1..Len(controller'[s]) /\ DOMAIN fwheel'[s] = 1..Len(fwheel'[s])
      /\ Mode(s) = "CONTROLLER" => Len(controller'[s]) = Len(controller[s]) + 1
      /\ Mode(s) # "CONTROLLER" => controller'[s] = controller[s]
      /\ Mode(s) = "FILTER_WHEEL" => Len(fwheel'[s]) = Len(fwheel[s]) + 1
      /\ Mode(s) # "FILTER_WHEEL" => fwheel'[s] = fwheel[s]
      /\ \A i \in 1..Len(controller[s]) : controller'[s][i] = controller[s][i]
      /\ \A i \in 1..Len(fwheel[s]) : fwheel'[s][i] = fwheel[s][i]
      /\ Mode(s) = "CONTROLLER" => controller'[s][Len(controller[s]) + 1] = NewItem(s)
      /\ Mode(s) = "FILTER_WHEEL" => fwheel'[s][Len(fwheel[s]) + 1] = NewItem(s)
  <2>1. CASE Mode(s) = "CONTROLLER"
    BY <1>1, <1>2, <2>1
  <2>2. CASE Mode(s) = "FILTER_WHEEL"
    BY <1>1, <1>2, <2>2
  <2>3. CASE Mode(s) \notin {"CONTROLLER", "FILTER_WHEEL"}
    <3>1. controller'[s] = controller[s] /\ fwheel'[s] = fwheel[s]
      BY <1>2, <2>3
    <3>2. Mode(s) # "CONTROLLER" /\ Mode(s) # "FILTER_WHEEL"
      BY <2>3
    <3>3. Len(controller'[s]) = Len(controller[s]) + 0 /\ Len(fwheel'[s]) = Len(fwheel[s]) + 0
      BY <1>1, <3>1
    <3>q. QED BY <1>1, <3>1, <3>2, <3>3
  <2>q. QED BY <2>1, <2>2, <2>3
<1>6. NewItem(s).port = NoPort /\ NewItem(s).serial = Config[line[s]].serial
  BY DEF NewItem
<1>7. \A q \in Ports : Holders(s, q)' = Holders(s, q)
  <2> SUFFICES ASSUME NEW q \in Ports PROVE Holders(s, q)' = Holders(s, q)
    OBVIOUS
  <2>0. q # NoPort
    BY DEF Ports, NoPort
  <2>1. {j \in DOMAIN controller[s] : controller[s][j].port = q}'
          = {j \in DOMAIN controller[s] : controller[s][j].port = q}
    <3>1. CASE Mode(s) = "CONTROLLER"
      <4>1. DOMAIN controller'[s] = 1..(Len(controller[s]) + 1)
        BY <1>5, <3>1
      <4>2. controller'[s][Len(controller[s]) + 1].port # q
        BY <1>5, <1>6, <2>0, <3>1
      <4>3. \A j \in 1..(Len(controller[s]) + 1) :
              j \in 1..Len(controller[s]) \/ j = Len(controller[s]) + 1
        BY <1>1
      <4>4. \A j : j \in DOMAIN controller'[s] /\ controller'[s][j].port = q =>
                   j \in DOMAIN controller[s] /\ controller[s][j].port = q
        BY <1>1, <1>5, <4>1, <4>2, <4>3
      <4>5. \A j \in 1..Len(controller[s]) : j \in DOMAIN controller'[s] /\ controller'[s][j] = controller[s][j]
        BY <1>1, <1>5, <4>1, <4>3
      <4>q. QED BY <1>1, <4>4, <4>5
    <3>2. CASE Mode(s) # "CONTROLLER"
      BY <1>2, <3>2
    <3>q. QED BY <3>1, <3>2
  <2>2. {j \in DOMAIN fwheel[s] : fwheel[s][j].port = q}'
          = {j \in DOMAIN fwheel[s] : fwheel[s][j].port = q}
    <3>1. CASE Mode(s) = "FILTER_WHEEL"
      <4>1. DOMAIN fwheel'[s] = 1..(Len(fwheel[s]) + 1)
        BY <1>5, <3>1
      <4>2. fwheel'[s][Len(fwheel[s]) + 1].port # q
        BY <1>5, <1>6, <2>0, <3>1
      <4>3. \A j \in 1..(Len(fwheel[s]) + 1) :
              j \in 1..Len(fwheel[s]) \/ j = Len(fwheel[s]) + 1
        BY <1>1
      <4>4. \A j : j \in DOMAIN fwheel'[s] /\ fwheel'[s][j].port = q =>
                   j \in DOMAIN fwheel[s] /\ fwheel[s][j].port = q
        BY <1>1, <1>5, <4>1, <4>2, <4>3
      <4>5. \A j \in 1..Len(fwheel[s]) : j \in DOMAIN fwheel'[s] /\ fwheel'[s][j] = fwheel[s][j]
        BY <1>1, <1>5, <4>1, <4>3
      <4>q. QED BY <1>1, <4>4, <4>5
    <3>2. CASE Mode(s) # "FILTER_WHEEL"
      BY <1>2, <3>2
    <3>q. QED BY <3>1, <3>2
  <2>q. QED BY <1>0, <2>1, <2>2 DEF Holders
<1>8. Phases(s)'
  BY <1>0, <1>1, <1>3, <1>4 DEF ServerInv, Phases, Configured, Want
<1>9. Looking(s)' /\ Reached(s)'
  <2> SUFFICES ASSUME ~Had(s) PROVE Looking(s)'
    BY <1>3 DEF Looking, Reached
  <2>1. Want(s)' = Mode(s)
    BY <1>0, <1>1, <1>3 DEF Want, Mode
  <2>2. CASE Mode(s) = "TUBE"
    BY <1>0, <1>3, <2>1, <2>2 DEF Looking, Had
  <2>3. CASE Mode(s) = "PRESSURE"
    BY <1>0, <1>3, <2>1, <2>3 DEF Looking, Had
  <2>4. CASE Mode(s) = "CONTROLLER"
    <3>1. controller'[s] # << >> /\ Last(controller'[s]).port = NoPort
      BY <1>1, <1>5, <1>6, <2>4 DEF Last
    <3>q. QED BY <1>3, <2>1, <2>4, <3>1 DEF Looking, Last
  <2>5. CASE Mode(s) = "FILTER_WHEEL"
    <3>1. fwheel'[s] # << >>
      BY <1>1, <1>5, <2>5
    <3>q. QED BY <1>3, <2>1, <2>5, <3>1 DEF Looking
  <2>q. QED BY <1>4, <2>2, <2>3, <2>4, <2>5 DEF InterfaceIndex
<1>10. Complete(s)'
  <2>1. \A n : n \in Wheels(box) => n \in Nat
    BY <1>0, WheelsAre
  <2>2. IsFiniteSet(WheelsRead(s)) /\ line[s] \notin WheelsRead(s)
    <3>1. WheelsRead(s) \subseteq Wheels(box) /\ line[s] \notin WheelsRead(s)
      BY <1>0, <1>1 DEF WheelsRead
    <3>q. QED BY <1>0, <3>1, WheelsAre, FS_Subset
  <2>3. Len(fwheel'[s]) = Cardinality(WheelsRead(s)')
    <3>1. CASE Mode(s) = "FILTER_WHEEL"
      <4>1. WheelsRead(s)' = WheelsRead(s) \union {line[s]}
        BY <1>0, <1>1, <1>3, <1>4, <2>1, <3>1, WheelsAre DEF WheelsRead, Mode
      <4>2. Cardinality(WheelsRead(s)') = Cardinality(WheelsRead(s)) + 1
        BY <2>2, <4>1, FS_AddElement
      <4>q. QED BY <1>0, <1>5, <3>1, <4>2 DEF ServerInv, Complete
    <3>2. CASE Mode(s) # "FILTER_WHEEL"
      <4>1. line[s] \notin Wheels(box)
        BY <1>0, <3>2, WheelsAre DEF Mode
      <4>2. WheelsRead(s)' = WheelsRead(s)
        <5>1. \A n \in Wheels(box) : n < line[s] + 1 <=> n < line[s]
          BY <1>1, <2>1, <4>1
        <5>q. QED BY <1>0, <1>3, <4>1, <5>1 DEF WheelsRead
      <4>q. QED BY <1>0, <1>1, <1>5, <3>2, <4>2 DEF ServerInv, Complete
    <3>q. QED BY <3>1, <3>2
  <2>4. \A j \in DOMAIN fwheel'[s] : fwheel'[s][j].port = NoPort =>
          j = Len(fwheel'[s]) /\ Mode(s) = "FILTER_WHEEL"
    <3> SUFFICES ASSUME NEW j \in DOMAIN fwheel'[s], fwheel'[s][j].port = NoPort
                 PROVE  j = Len(fwheel'[s]) /\ Mode(s) = "FILTER_WHEEL"
      OBVIOUS
    <3>1. j \notin 1..Len(fwheel[s])
      BY <1>0, <1>1, <1>5 DEF ServerInv, Complete
    <3>2. j \in 1..Len(fwheel'[s])
      BY <1>5
    <3>3. Mode(s) = "FILTER_WHEEL"
      <4>1. fwheel'[s] # fwheel[s]
        BY <1>1, <3>1, <3>2
      <4>q. QED BY <1>5, <4>1
    <3>q. QED BY <1>1, <1>5, <3>1, <3>2, <3>3
  <2>5. Mode(s) = "FILTER_WHEEL" =>
          pc'[s] = "search" /\ Configured(s)' /\ Want(s)' = "FILTER_WHEEL"
    BY <1>0, <1>3, <1>4 DEF Configured, Want, Mode
  <2>q. QED BY <2>3, <2>4, <2>5 DEF Complete
<1>11. Matches(s)'
  <2>1. \A j \in DOMAIN controller'[s] : controller'[s][j].port # NoPort =>
          /\ plugged[controller'[s][j].port].kind = "CONTROLLER"
          /\ plugged[controller'[s][j].port].serial = controller'[s][j].serial
    <3> SUFFICES ASSUME NEW j \in DOMAIN controller'[s], controller'[s][j].port # NoPort
                 PROVE  /\ plugged[controller'[s][j].port].kind = "CONTROLLER"
                        /\ plugged[controller'[s][j].port].serial = controller'[s][j].serial
      OBVIOUS
    <3>1. j \in 1..Len(controller[s])
      <4>1. CASE Mode(s) = "CONTROLLER"
        BY <1>1, <1>5, <1>6, <4>1
      <4>2. CASE Mode(s) # "CONTROLLER"
        BY <1>1, <1>5, <4>2
      <4>q. QED BY <4>1, <4>2
    <3>2. controller'[s][j] = controller[s][j] /\ j \in DOMAIN controller[s]
      BY <1>1, <1>5, <3>1
    <3>q. QED BY <1>0, <3>2 DEF ServerInv, Matches
  <2>2. \A j \in DOMAIN fwheel'[s] :
          /\ \E n \in Wheels(box) : fwheel'[s][j].serial = Config[n].serial
          /\ fwheel'[s][j].port # NoPort =>
               /\ plugged[fwheel'[s][j].port].kind # "nothing"
               /\ Text(box, fwheel'[s][j].port) = fwheel'[s][j].serial
    <3>1. CASE Mode(s) = "FILTER_WHEEL"
      <4>1. line[s] \in Wheels(box)
        BY <1>0, <1>1, <3>1, WheelsAre DEF Mode
      <4> SUFFICES ASSUME NEW j \in DOMAIN fwheel'[s]
                   PROVE  /\ \E n \in Wheels(box) : fwheel'[s][j].serial = Config[n].serial
                          /\ fwheel'[s][j].port # NoPort =>
                               /\ plugged[fwheel'[s][j].port].kind # "nothing"
                               /\ Text(box, fwheel'[s][j].port) = fwheel'[s][j].serial
        OBVIOUS
      <4>2. j \in 1..Len(fwheel[s]) \/ j = Len(fwheel[s]) + 1
        BY <1>1, <1>5, <3>1
      <4>3. CASE j \in 1..Len(fwheel[s])
        BY <1>0, <1>1, <1>5, <4>3 DEF ServerInv, Matches
      <4>4. CASE j = Len(fwheel[s]) + 1
        BY <1>5, <1>6, <3>1, <4>1, <4>4
      <4>q. QED BY <4>2, <4>3, <4>4
    <3>2. CASE Mode(s) # "FILTER_WHEEL"
      BY <1>0, <1>2, <3>2 DEF ServerInv, Matches
    <3>q. QED BY <3>1, <3>2
  <2>3. \A q : Text(box, q)' = Text(box, q)
    BY <1>0 DEF Text
  <2>q. QED BY <1>0, <2>1, <2>2, <2>3 DEF ServerInv, Matches, Text
<1>12. Identified(box)' = Identified(box)
  BY <1>0 DEF Identified, Text, Wheels
<1>13. \A q \in Ports : Held(s, q)' /\ Marked(s, q)'
  BY <1>0, <1>3, <1>7, <1>12 DEF ServerInv, Held, Marked
<1>14. Speeds(s)'
  BY <1>0, <1>3, <1>7 DEF ServerInv, Speeds, Alone
<1>15. Replied(s)'
  BY <1>0, <1>3 DEF ServerInv, Replied
<1>q. QED
  BY <1>8, <1>9, <1>10, <1>11, <1>13, <1>14, <1>15 DEF ServerInv

(* The port looked at is taken for one device. *)
LEMMA PortTaken ==
  ASSUME PInv, NEW s \in Servers, pc[s] \in {"probe", "serial"}, pc'[s] \notin {"probe", "serial"},
         box' = box, speed' = speed, opened' = opened,
         used'[s] = [used[s] EXCEPT ![port[s]] = TRUE],
         NEW h, Holders(s, port[s])' = {h}, h[1] = Want(s), port'[s] = port[s],
         \A q \in Ports \ {port[s]} :
           /\ Holders(s, q)' \subseteq Holders(s, q)
           /\ Identified(box) => Holders(s, q)' = Holders(s, q)
  PROVE  (\A q \in Ports : Held(s, q)' /\ Marked(s, q)') /\ Speeds(s)'
<1>0. TypeOK /\ ServerInv(s) /\ port[s] \in Ports /\ Identified(box)' = Identified(box)
      /\ Holders(s, port[s])' = {h}
  BY DEF PInv, ServerInv, Looking, Identified, Text, Wheels
<1>1. used[s] \in [Ports -> BOOLEAN] /\ opened[s] \in [Ports -> Nat]
  BY <1>0 DEF TypeOK
<1>2. \A q \in Ports : Held(s, q) /\ Marked(s, q)
  BY <1>0 DEF ServerInv
<1>3. opened[s][port[s]] >= 1
  BY <1>0, <1>1, <1>2 DEF Held
<1>4. ASSUME NEW q \in Ports PROVE Held(s, q)' /\ Marked(s, q)'
  <2>1. CASE q = port[s]
    <3>1. used'[s][q] /\ Holders(s, q)' = {h}
      BY <1>0, <1>1, <2>1
    <3>q. QED BY <1>1, <1>3, <2>1, <3>1 DEF Held, Marked
  <2>2. CASE q # port[s]
    <3>1. used'[s][q] = used[s][q] /\ Holders(s, q)' \subseteq Holders(s, q)
          /\ (Identified(box) => Holders(s, q)' = Holders(s, q))
      BY <1>1, <2>2
    <3>q. QED BY <1>0, <1>1, <1>2, <2>2, <3>1 DEF Held, Marked
  <2>q. QED BY <2>1, <2>2
<1>5. Speeds(s)'
  <2> SUFFICES ASSUME Alone, NEW q \in Ports, NEW g, g \in Holders(s, q)'
               PROVE  speed[q] = Settings(g[1])
    BY DEF Speeds, Alone
  <2>1. CASE q = port[s]
    BY <1>0, <2>1 DEF ServerInv, Speeds
  <2>2. CASE q # port[s]
    <3>1. g \in Holders(s, q)
      BY <2>2
    <3>q. QED BY <1>0, <3>1 DEF ServerInv, Speeds
  <2>q. QED BY <2>1, <2>2
<1>q. QED
  BY <1>4, <1>5

(* The device that answers is of the kind asked for. *)
LEMMA HeardIs ==
  ASSUME NEW s \in Servers, NEW p \in Ports, NEW k, NEW a \in Heard(s, p, k), a
  PROVE  Answers(p, k) /\ plugged[p].kind = k /\ speed[p] = Settings(k)
  BY DEF Heard, Answers

(* A port that is taken for the tube or the gauge has that holder and no *)
(* other.                                                                *)
LEMMA Taken ==
  ASSUME PInv, NEW s \in Servers, pc[s] = "probe", Want(s) \in {"TUBE", "PRESSURE"}, Take(s)
  PROVE  /\ Holders(s, port[s]) = {} /\ Holders(s, port[s])' = {<<Want(s), 1>>}
         /\ \A q \in Ports \ {port[s]} : Holders(s, q)' = Holders(s, q)
<1>1. /\ TypeOK /\ ServerInv(s) /\ port[s] \in Ports /\ ~used[s][port[s]]
      /\ controller' = controller /\ fwheel' = fwheel /\ port' = port
  BY DEF PInv, ServerInv, Looking, Candidate, Take
<1>2. /\ tube'[s] = IF Want(s) = "TUBE" THEN port[s] ELSE tube[s]
      /\ gauge'[s] = IF Want(s) = "PRESSURE" THEN port[s] ELSE gauge[s]
  BY <1>1 DEF Take, TypeOK
<1>3. Holders(s, port[s]) = {} /\ port[s] # NoPort
  BY <1>1 DEF ServerInv, Held, Ports, NoPort
<1>4. Holders(s, port[s])' = {<<Want(s), 1>>}
  BY <1>1, <1>2, <1>3 DEF Holders
<1>5. \A q \in Ports \ {port[s]} : Holders(s, q)' = Holders(s, q)
  <2>1. /\ Want(s) = "TUBE" => tube[s] = NoPort
        /\ Want(s) = "PRESSURE" => gauge[s] = NoPort
    BY <1>1 DEF ServerInv, Looking
  <2>2. \A q \in Ports : q # NoPort
    BY DEF Ports, NoPort
  <2>q. QED BY <1>1, <1>2, <2>1, <2>2 DEF Holders
<1>q. QED
  BY <1>3, <1>4, <1>5

(* Taking a port for the tube or the gauge keeps what is known of the *)
(* server.                                                            *)
LEMMA TakeInv ==
  ASSUME PInv, NEW s \in Servers, pc[s] = "probe", Want(s) \in {"TUBE", "PRESSURE"},
         plugged[port[s]].kind = Want(s), Take(s), UNCHANGED <<world, cmd, excuse>>
  PROVE  ServerInv(s)'
<1>0. /\ TypeOK /\ ServerInv(s) /\ port[s] \in Ports /\ ~used[s][port[s]]
      /\ box' = box /\ speed' = speed /\ cmd' = cmd /\ Config' = Config /\ plugged' = plugged
      /\ controller' = controller /\ fwheel' = fwheel /\ opened' = opened /\ port' = port
      /\ Starting(s) <=> Configured(s)
  <2>1. TypeOK /\ ServerInv(s)
    BY DEF PInv
  <2>2. Starting(s) <=> Configured(s)
    BY <2>1, StartingIs
  <2>3. port[s] \in Ports /\ ~used[s][port[s]]
    BY <2>1 DEF ServerInv, Looking, Candidate
  <2>q. QED BY <2>1, <2>2, <2>3 DEF world, Take, Config, plugged
<1>1. /\ used'[s] = [used[s] EXCEPT ![port[s]] = TRUE]
      /\ tube'[s] = IF Want(s) = "TUBE" THEN port[s] ELSE tube[s]
      /\ gauge'[s] = IF Want(s) = "PRESSURE" THEN port[s] ELSE gauge[s]
  BY <1>0 DEF Take, Mark, TypeOK
<1>2. \/ Configured(s) /\ pc'[s] = "config" /\ line'[s] = line[s] + 1 /\ reply'[s] = reply[s]
      \/ ~Configured(s) /\ pc'[s] = "idle" /\ line'[s] = line[s]
      \/ ~Configured(s) /\ pc'[s] = "ask" /\ line'[s] = line[s] /\ reply'[s] = reply[s]
  <2>1. CASE Configured(s)
    BY <1>0, <2>1 DEF Take, NextLine, Goto, TypeOK
  <2>2. CASE ~Configured(s)
    <3>1. line' = line /\ CASE cmd[s].op = "ispressure"           -> End(s, "on")
                            [] cmd[s].op = "getpressureinterface" -> End(s, "ok")
                            [] OTHER                              -> Goto(s, "ask") /\ UNCHANGED reply
      BY <1>0, <2>2 DEF Take
    <3>2. CASE cmd[s].op = "ispressure"
      <4>1. End(s, "on")
        BY <3>1, <3>2
      <4>q. QED BY <1>0, <2>2, <3>1, <4>1 DEF End, Goto, TypeOK
    <3>3. CASE cmd[s].op = "getpressureinterface"
      <4>1. End(s, "ok")
        BY <3>1, <3>3
      <4>q. QED BY <1>0, <2>2, <3>1, <4>1 DEF End, Goto, TypeOK
    <3>4. CASE cmd[s].op # "ispressure" /\ cmd[s].op # "getpressureinterface"
      <4>1. Goto(s, "ask") /\ UNCHANGED reply
        BY <3>1, <3>4
      <4>q. QED BY <1>0, <2>2, <3>1, <4>1 DEF Goto, TypeOK
    <3>q. QED BY <3>2, <3>3, <3>4
  <2>q. QED BY <2>1, <2>2
<1>3. reply[s] = "none" /\ line[s] \in 1..(Len(Config) + 1) /\ Len(Config) \in Nat
  BY <1>0, Types DEF ServerInv, Replied
<1>5. Holders(s, port[s])' = {<<Want(s), 1>>}
  BY Taken
<1>6. \A q \in Ports \ {port[s]} : Holders(s, q)' = Holders(s, q)
  BY Taken
<1>7. (\A q \in Ports : Held(s, q)' /\ Marked(s, q)') /\ Speeds(s)'
  <2> DEFINE h == <<Want(s), 1>>
  <2>1. h[1] = Want(s) /\ Holders(s, port[s])' = {h}
    BY <1>5
  <2> HIDE DEF h
  <2>2. pc'[s] \notin {"probe", "serial"}
    BY <1>2
  <2>q. QED BY <1>0, <1>1, <1>6, <2>1, <2>2, PortTaken
<1>8. Phases(s)' /\ Looking(s)'
  <2>1. Configured(s) => Want(s) = Mode(s)
    BY DEF Want, Configured, Mode
  <2>2. ~Configured(s) => line[s] = Len(Config) + 1 /\ Want(s) = Index(cmd[s])
    BY <1>3 DEF Want, Configured
  <2>q. QED BY <1>0, <1>2, <2>1, <2>2 DEF ServerInv, Phases, Looking, Configured, Want
<1>9. Reached(s)'
  <2>1. pc'[s] = "ask" => Want(s)' = Want(s)
    BY <1>0, <1>2 DEF Want
  <2>q. QED BY <1>0, <1>1, <1>2, <2>1 DEF Reached
<1>10. Complete(s)'
  <2>1. WheelsRead(s)' = WheelsRead(s)
    BY <1>0, <1>2, WheelsReadSame
  <2>2. \A j \in DOMAIN fwheel[s] : fwheel[s][j].port # NoPort
    BY <1>0 DEF ServerInv, Complete
  <2>q. QED BY <1>0, <2>1, <2>2 DEF ServerInv, Complete
<1>11. Matches(s)'
  <2>1. \A q : Text(box, q)' = Text(box, q)
    BY <1>0 DEF Text
  <2>2. Wheels(box)' = Wheels(box)
    BY <1>0 DEF Wheels
  <2>q. QED BY <1>0, <1>1, <2>1, <2>2 DEF ServerInv, Matches
<1>12. Replied(s)'
  <2>1. ~(cmd[s].op = "setfw" /\ ~Configured(s))
    BY <1>0, WantIs
  <2>2. reply'[s] = "ok" => cmd[s].op # "setfw"
    BY <1>2, <1>3, <2>1
  <2>q. QED BY <1>0, <1>2, <1>3, <2>2 DEF Replied
<1>q. QED
  BY <1>7, <1>8, <1>9, <1>10, <1>11, <1>12 DEF ServerInv

(* Closing a port that is not the right one keeps what is known of the *)
(* server.                                                             *)
LEMMA CloseInv ==
  ASSUME PInv, NEW s \in Servers, pc[s] = "probe", Close(s), UNCHANGED <<world, cmd, excuse>>
  PROVE  ServerInv(s)'
<1>1. TypeOK /\ port[s] + 1 \in Nat /\ port[s] \in Ports
  BY Types DEF PInv, ServerInv, Looking
<1>2. opened'[s] = [opened[s] EXCEPT ![port[s]] = @ - 1]
  BY <1>1 DEF Close, TypeOK
<1>3. SearchFrom(s, port[s] + 1)
  BY DEF Close, NextPort
<1>q. QED
  BY <1>1, <1>2, <1>3, SearchOnInv DEF Close, world

(* So does going on without closing it. *)
LEMMA ForgetInv ==
  ASSUME PInv, NEW s \in Servers, pc[s] \in {"probe", "serial"}, Forget(s),
         UNCHANGED <<world, cmd, excuse>>
  PROVE  ServerInv(s)'
<1>1. TypeOK /\ port[s] + 1 \in Nat
  BY Types DEF PInv
<1>2. SearchFrom(s, port[s] + 1)
  BY DEF Forget, NextPort
<1>q. QED
  BY <1>1, <1>2, SearchOnInv DEF Forget, world, objects

(* Probing a port for the tube or the gauge. *)
LEMMA ProbeInv ==
  ASSUME PInv, NEW s \in Servers, Probe(s)
  PROVE  ServerInv(s)'
<1>1. PICK a \in Heard(s, port[s], Want(s)) : IF a THEN Take(s) ELSE Close(s)
  BY DEF Probe
<1>2. pc[s] = "probe" /\ Want(s) \in {"TUBE", "PRESSURE"} /\ UNCHANGED <<world, cmd, excuse>>
  BY DEF Probe
<1>3. CASE a
  <2>1. port[s] \in Ports
    BY <1>2 DEF PInv, ServerInv, Looking
  <2>2. plugged[port[s]].kind = Want(s)
    BY <1>3, <2>1, HeardIs
  <2>q. QED BY <1>1, <1>2, <1>3, <2>2, TakeInv
<1>4. CASE ~a
  BY <1>1, <1>2, <1>4, CloseInv
<1>q. QED
  BY <1>3, <1>4

(* Probing a port for a controller. *)
LEMMA ProbeControllerInv ==
  ASSUME PInv, NEW s \in Servers, ProbeController(s)
  PROVE  ServerInv(s)'
<1>1. PICK a \in Heard(s, port[s], "CONTROLLER") :
        IF a THEN Goto(s, "serial") /\ UNCHANGED <<objects, line, port, tries, reply>> ELSE Close(s)
  BY DEF ProbeController
<1>2. pc[s] = "probe" /\ Want(s) = "CONTROLLER" /\ UNCHANGED <<world, cmd, excuse>>
  BY DEF ProbeController
<1>3. CASE a
  <2>0. /\ TypeOK /\ ServerInv(s) /\ pc'[s] = "serial" /\ port[s] \in Ports
        /\ box' = box /\ Config' = Config /\ plugged' = plugged /\ speed' = speed
        /\ line' = line /\ reply' = reply /\ cmd' = cmd /\ port' = port
        /\ Want(s)' = Want(s) /\ Configured(s)' = Configured(s)
        /\ UNCHANGED <<used, tube, gauge, controller, fwheel, opened>>
    BY <1>1, <1>2, <1>3 DEF PInv, ServerInv, Looking, TypeOK, Goto, Config, plugged, world,
       objects, Want, Configured
  <2>1. /\ Matches(s)'
        /\ \A q \in Ports : /\ Holders(s, q)' = Holders(s, q) /\ Marked(s, q)'
                            /\ \A h \in Holders(s, q)' : used'[s][q]
                            /\ \A g, h \in Holders(s, q)' : g = h
    BY <2>0, ObjectsSame
  <2>2. Configured(s)
    BY <1>2, <2>0 DEF ServerInv, Phases
  <2>3. Phases(s)' /\ Reached(s)' /\ Replied(s)'
    BY <1>2, <2>0, <2>2 DEF ServerInv, Phases, Reached, Replied
  <2>4. Looking(s)'
    BY <1>2, <2>0 DEF ServerInv, Looking, Candidate
  <2>5. Complete(s)'
    <3>1. WheelsRead(s)' = WheelsRead(s)
      BY <1>2, <2>0, WheelsReadSame
    <3>q. QED BY <1>2, <2>0, <3>1 DEF ServerInv, Complete
  <2>6. \A q \in Ports : Held(s, q)'
    BY <1>2, <2>0, <2>1 DEF ServerInv, Held
  <2>7. Speeds(s)'
    BY <1>2, <2>0, <2>1 DEF ServerInv, Speeds, Alone
  <2>q. QED BY <2>1, <2>3, <2>4, <2>5, <2>6, <2>7 DEF ServerInv
<1>4. CASE ~a
  BY <1>1, <1>2, <1>4, CloseInv
<1>q. QED
  BY <1>3, <1>4

(* The last of a list gets the port. *)
LEMMA LastSet ==
  ASSUME NEW q \in Seq(Item), q # << >>, NEW p \in Ports, NEW r, r = [q EXCEPT ![Len(q)].port = p]
  PROVE  /\ Len(q) \in Nat /\ Len(q) \in 1..Len(q) /\ DOMAIN q = 1..Len(q)
         /\ Len(r) = Len(q) /\ DOMAIN r = 1..Len(q) /\ r \in Seq(Item)
         /\ r[Len(q)].port = p /\ r[Len(q)].serial = q[Len(q)].serial
         /\ \A i \in 1..Len(q) : i # Len(q) => r[i] = q[i]
<1>1. Len(q) \in Nat /\ Len(q) > 0 /\ DOMAIN q = 1..Len(q)
  OBVIOUS
<1>2. DOMAIN r = 1..Len(q) /\ \A i \in 1..Len(q) : i # Len(q) => r[i] = q[i]
  BY <1>1
<1>3. r[Len(q)] = [q[Len(q)] EXCEPT !.port = p]
  BY <1>1
<1>4. q[Len(q)] \in Item
  BY <1>1
<1>5. r[Len(q)].port = p /\ r[Len(q)].serial = q[Len(q)].serial /\ r[Len(q)] \in Item
  BY <1>3, <1>4 DEF Item
<1>6. r \in [1..Len(q) -> Item]
  BY <1>1, <1>2, <1>4, <1>5
<1>7. r \in Seq(Item) /\ Len(r) = Len(q)
  BY <1>1, <1>6
<1>q. QED
  BY <1>1, <1>2, <1>5, <1>7

(* Comparing the serial number of the controller on a port. *)
LEMMA SerialInv ==
  ASSUME PInv, NEW s \in Servers, Serial(s)
  PROVE  ServerInv(s)'
<1>1. PICK a \in Heard(s, port[s], "CONTROLLER") :
        IF a /\ SerialMatches(s, plugged[port[s]].serial)
        THEN /\ Mark(s) /\ controller' = SetInterface(controller, s)
             /\ NextLine(s)
             /\ UNCHANGED <<tube, gauge, fwheel, opened, port, tries, reply>>
        ELSE Answers(port[s], "CONTROLLER") /\ Forget(s)
  BY DEF Serial
<1>2. pc[s] = "serial" /\ UNCHANGED <<world, cmd, excuse>>
  BY DEF Serial
<1>3. CASE a /\ SerialMatches(s, plugged[port[s]].serial)
  <2>0. /\ TypeOK /\ ServerInv(s) /\ pc'[s] = "config" /\ port[s] \in Ports
        /\ Configured(s) /\ Want(s) = "CONTROLLER"
        /\ controller[s] # << >> /\ controller[s][Len(controller[s])].port = NoPort
        /\ box' = box /\ Config' = Config /\ plugged' = plugged /\ speed' = speed
        /\ UNCHANGED <<tube, gauge, fwheel, opened, port, reply, cmd>>
        /\ line'[s] = line[s] + 1
        /\ used'[s] = [used[s] EXCEPT ![port[s]] = TRUE]
    <3>1. TypeOK /\ ServerInv(s) /\ port[s] \in Ports /\ Configured(s) /\ Want(s) = "CONTROLLER"
      BY <1>2 DEF PInv, ServerInv, Phases, Looking
    <3>2. controller[s] # << >> /\ controller[s][Len(controller[s])].port = NoPort
      BY <1>2, <3>1 DEF ServerInv, Looking, Last
    <3>3. UNCHANGED <<tube, gauge, fwheel, opened, port, reply>> /\ Mark(s) /\ NextLine(s)
      BY <1>1, <1>3
    <3>4. /\ pc'[s] = "config" /\ line'[s] = line[s] + 1
          /\ used'[s] = [used[s] EXCEPT ![port[s]] = TRUE]
      BY <3>1, <3>3 DEF TypeOK, Mark, NextLine, Goto
    <3>q. QED BY <1>2, <3>1, <3>2, <3>3, <3>4 DEF world, Config, plugged
  <2> DEFINE n == Len(controller[s])
  <2>1. /\ plugged[port[s]].kind = "CONTROLLER"
        /\ plugged[port[s]].serial = controller[s][n].serial
    BY <1>3, <2>0, HeardIs DEF SerialMatches, Last
  <2>2. controller'[s] = [controller[s] EXCEPT ![n].port = port[s]]
    <3>1. controller' = SetInterface(controller, s)
      BY <1>1, <1>3
    <3>q. QED BY <2>0, <3>1 DEF SetInterface, TypeOK
  <2>3. /\ n \in Nat /\ n \in 1..n /\ DOMAIN controller[s] = 1..n
        /\ DOMAIN controller'[s] = 1..n
        /\ controller'[s][n].port = port[s] /\ controller'[s][n].serial = controller[s][n].serial
        /\ \A i \in 1..n : i # n => controller'[s][i] = controller[s][i]
    BY <2>0, <2>2, LastSet DEF TypeOK
  <2>4. controller[s][n].port = NoPort /\ \A q \in Ports : q # NoPort
    BY <2>0 DEF Ports, NoPort
  <2> HIDE DEF n
  <2>5. \A q \in Ports \ {port[s]} : Holders(s, q)' = Holders(s, q)
    <3> SUFFICES ASSUME NEW q \in Ports, q # port[s] PROVE Holders(s, q)' = Holders(s, q)
      OBVIOUS
    <3>1. {i \in DOMAIN controller[s] : controller[s][i].port = q}'
            = {i \in DOMAIN controller[s] : controller[s][i].port = q}
      <4>1. \A i \in 1..n : controller'[s][i].port = q <=> controller[s][i].port = q
        BY <2>3, <2>4
      <4>q. QED BY <2>3, <4>1
    <3>q. QED BY <2>0, <3>1 DEF Holders
  <2>6. Holders(s, port[s])' = {<<"CONTROLLER", n>>}
    <3>1. Holders(s, port[s]) = {}
      BY <1>2, <2>0 DEF ServerInv, Held, Looking, Candidate
    <3>2. /\ tube[s] # port[s] /\ gauge[s] # port[s]
          /\ \A i \in DOMAIN fwheel[s] : fwheel[s][i].port # port[s]
          /\ \A i \in DOMAIN controller[s] : controller[s][i].port # port[s]
      BY <3>1 DEF Holders
    <3>3. {i \in DOMAIN controller[s] : controller[s][i].port = port[s]}' = {n}
      BY <2>0, <2>3, <3>2
    <3>q. QED BY <2>0, <3>2, <3>3 DEF Holders
  <2>7. (\A q \in Ports : Held(s, q)' /\ Marked(s, q)') /\ Speeds(s)'
    <3> DEFINE h == <<"CONTROLLER", n>>
    <3>1. h[1] = Want(s) /\ Holders(s, port[s])' = {h}
      BY <2>0, <2>6
    <3> HIDE DEF h
    <3>2. pc'[s] \notin {"probe", "serial"} /\ pc[s] \in {"probe", "serial"}
      BY <1>2, <2>0
    <3>q. QED BY <2>0, <2>5, <3>1, <3>2, PortTaken
  <2>8. Phases(s)' /\ Looking(s)' /\ Reached(s)' /\ Replied(s)'
    BY <1>2, <2>0 DEF ServerInv, Phases, Looking, Reached, Replied
  <2>9. Complete(s)'
    <3>1. WheelsRead(s)' = WheelsRead(s)
      BY <1>2, <2>0, WheelsReadSame
    <3>q. QED BY <1>2, <2>0, <3>1 DEF ServerInv, Complete
  <2>10. Matches(s)'
    <3>1. \A q : Text(box, q)' = Text(box, q)
      BY <2>0 DEF Text
    <3>2. Wheels(box)' = Wheels(box)
      BY <2>0 DEF Wheels
    <3>3. \A j \in DOMAIN controller'[s] : controller'[s][j].port # NoPort =>
            /\ plugged[controller'[s][j].port].kind = "CONTROLLER"
            /\ plugged[controller'[s][j].port].serial = controller'[s][j].serial
      BY <2>0, <2>1, <2>3 DEF ServerInv, Matches, n
    <3>q. QED BY <2>0, <3>1, <3>2, <3>3 DEF ServerInv, Matches
  <2>q. QED BY <2>7, <2>8, <2>9, <2>10 DEF ServerInv
<1>4. CASE ~(a /\ SerialMatches(s, plugged[port[s]].serial))
  <2>1. Forget(s)
    BY <1>1, <1>4
  <2>q. QED BY <1>2, <2>1, ForgetInv
<1>q. QED
  BY <1>3, <1>4

(* Probing a port for a filter wheel. *)
LEMMA ProbeFwheelInv ==
  ASSUME PInv, NEW s \in Servers, ProbeFwheel(s)
  PROVE  ServerInv(s)'
<1>1. IF SerialMatches(s, Text(box, port[s]))
      THEN /\ Mark(s) /\ fwheel' = SetInterface(fwheel, s)
           /\ Goto(s, "setup") /\ tries' = [tries EXCEPT ![s] = 0]
           /\ UNCHANGED <<tube, gauge, controller, opened, line, port, reply>>
      ELSE Forget(s)
  BY DEF ProbeFwheel, Text, plugged
<1>2. pc[s] = "probe" /\ Want(s) = "FILTER_WHEEL" /\ UNCHANGED <<world, cmd, excuse>>
  BY DEF ProbeFwheel
<1>3. CASE SerialMatches(s, Text(box, port[s]))
  <2>0. /\ TypeOK /\ ServerInv(s) /\ pc'[s] = "setup" /\ port[s] \in Ports
        /\ Configured(s) /\ fwheel[s] # << >> /\ Configured(s)' /\ Want(s)' = Want(s)
        /\ box' = box /\ Config' = Config /\ plugged' = plugged /\ speed' = speed
        /\ UNCHANGED <<tube, gauge, controller, opened, line, port, reply, cmd>>
        /\ used'[s] = [used[s] EXCEPT ![port[s]] = TRUE]
    <3>1. TypeOK /\ ServerInv(s) /\ port[s] \in Ports /\ Configured(s) /\ fwheel[s] # << >>
      BY <1>2 DEF PInv, ServerInv, Phases, Looking
    <3>2. UNCHANGED <<tube, gauge, controller, opened, line, port, reply>> /\ Mark(s) /\ Goto(s, "setup")
      BY <1>1, <1>3
    <3>3. pc'[s] = "setup" /\ used'[s] = [used[s] EXCEPT ![port[s]] = TRUE]
      BY <3>1, <3>2 DEF TypeOK, Mark, Goto
    <3>4. box' = box /\ speed' = speed /\ cmd' = cmd /\ Config' = Config /\ plugged' = plugged
      BY <1>2 DEF world, Config, plugged
    <3>q. QED BY <3>1, <3>2, <3>3, <3>4 DEF Configured, Want
  <2> DEFINE n == Len(fwheel[s])
  <2>1. /\ plugged[port[s]].kind # "nothing" /\ ~used[s][port[s]]
        /\ Text(box, port[s]) = fwheel[s][n].serial
    BY <1>2, <1>3, <2>0 DEF SerialMatches, Last, ServerInv, Looking, Candidate
  <2>2. fwheel'[s] = [fwheel[s] EXCEPT ![n].port = port[s]]
    <3>1. fwheel' = SetInterface(fwheel, s)
      BY <1>1, <1>3
    <3>q. QED BY <2>0, <3>1 DEF SetInterface, TypeOK
  <2>3. /\ n \in Nat /\ n \in 1..n /\ DOMAIN fwheel[s] = 1..n
        /\ DOMAIN fwheel'[s] = 1..n /\ Len(fwheel'[s]) = n
        /\ fwheel'[s][n].port = port[s] /\ fwheel'[s][n].serial = fwheel[s][n].serial
        /\ \A i \in 1..n : i # n => fwheel'[s][i] = fwheel[s][i]
    BY <2>0, <2>2, LastSet DEF TypeOK
  <2>4. \A q \in Ports : q # NoPort
    BY DEF Ports, NoPort
  <2>5. /\ \A j \in DOMAIN fwheel[s] : fwheel[s][j].port = NoPort => j = n
        /\ n = Cardinality(WheelsRead(s))
    BY <2>0 DEF ServerInv, Complete
  <2>6. PICK k \in Wheels(box) : fwheel[s][n].serial = Config[k].serial
    BY <2>0, <2>3 DEF ServerInv, Matches
  <2>7. ASSUME Identified(box) PROVE fwheel[s][n].port = NoPort
    <3>1. SUFFICES ASSUME fwheel[s][n].port # NoPort PROVE FALSE
      OBVIOUS
    <3> DEFINE q == fwheel[s][n].port
    <3>2. q \in Ports
      <4>1. fwheel[s][n] \in Item
        BY <2>0, <2>3, Types, SeqIs
      <4>q. QED BY <3>1, <4>1 DEF Item
    <3>3. plugged[q].kind # "nothing" /\ Text(box, q) = fwheel[s][n].serial
      BY <2>0, <2>3, <3>1 DEF ServerInv, Matches
    <3>4. q = port[s]
      <4> HIDE DEF q
      <4>q. QED BY <2>0, <2>1, <2>6, <2>7, <3>2, <3>3 DEF Identified, plugged, Config
    <3>5. <<"FILTER_WHEEL", n>> \in Holders(s, port[s])
      BY <2>0, <2>3, <3>4, HolderIs
    <3>q. QED BY <2>0, <2>1, <3>5 DEF ServerInv, Held
  <2> HIDE DEF n
  <2>8. ASSUME NEW q \in Ports, q # port[s]
        PROVE  /\ Holders(s, q)' \subseteq Holders(s, q)
               /\ Identified(box) => Holders(s, q)' = Holders(s, q)
    <3> DEFINE H == {i \in DOMAIN fwheel[s] : fwheel[s][i].port = q}
    <3>1. H' \subseteq H
      BY <2>0, <2>3, <2>8
    <3>2. Identified(box) => H' = H
      <4>1. Identified(box) => \A i \in 1..n : fwheel'[s][i].port = q <=> fwheel[s][i].port = q
        BY <2>0, <2>3, <2>4, <2>7, <2>8
      <4>q. QED BY <2>3, <4>1
    <3>3. Holders(s, q)' \subseteq Holders(s, q)
      BY <2>0, <3>1 DEF Holders
    <3>4. ASSUME Identified(box) PROVE Holders(s, q)' = Holders(s, q)
      BY <2>0, <3>2, <3>4 DEF Holders
    <3>q. QED BY <3>3, <3>4
  <2>9. Holders(s, port[s])' = {<<"FILTER_WHEEL", n>>}
    <3>1. Holders(s, port[s]) = {}
      BY <2>0, <2>1 DEF ServerInv, Held
    <3>2. /\ tube[s] # port[s] /\ gauge[s] # port[s]
          /\ \A i \in DOMAIN fwheel[s] : fwheel[s][i].port # port[s]
          /\ \A i \in DOMAIN controller[s] : controller[s][i].port # port[s]
      BY <3>1 DEF Holders
    <3>3. {i \in DOMAIN fwheel[s] : fwheel[s][i].port = port[s]}' = {n}
      BY <2>0, <2>3, <3>2
    <3>q. QED BY <2>0, <3>2, <3>3 DEF Holders
  <2>10. (\A q \in Ports : Held(s, q)' /\ Marked(s, q)') /\ Speeds(s)'
    <3> DEFINE h == <<"FILTER_WHEEL", n>>
    <3>1. h[1] = Want(s) /\ Holders(s, port[s])' = {h}
      BY <1>2, <2>9
    <3> HIDE DEF h
    <3>2. pc'[s] \notin {"probe", "serial"} /\ pc[s] \in {"probe", "serial"}
      BY <1>2, <2>0
    <3>q. QED BY <2>0, <2>8, <3>1, <3>2, PortTaken
  <2>11. Phases(s)' /\ Looking(s)' /\ Replied(s)'
    BY <1>2, <2>0 DEF ServerInv, Phases, Looking, Replied
  <2>12. Reached(s)'
    <3>1. n > 0 /\ fwheel'[s] # << >> /\ Last(fwheel[s])'.port = port[s]
      BY <2>3 DEF Last
    <3>q. QED BY <2>0, <3>1 DEF Reached
  <2>13. Complete(s)'
    <3>1. WheelsRead(s)' = WheelsRead(s)
      BY <1>2, <2>0, WheelsReadSame
    <3>2. \A j \in DOMAIN fwheel'[s] : fwheel'[s][j].port # NoPort
      BY <2>0, <2>3, <2>4, <2>5
    <3>q. QED BY <2>3, <2>5, <3>1, <3>2 DEF Complete
  <2>14. Matches(s)'
    <3>1. \A q : Text(box, q)' = Text(box, q)
      BY <2>0 DEF Text
    <3>2. Wheels(box)' = Wheels(box)
      BY <2>0 DEF Wheels
    <3>3. \A j \in DOMAIN fwheel'[s] :
            /\ \E m \in Wheels(box) : fwheel'[s][j].serial = Config[m].serial
            /\ fwheel'[s][j].port # NoPort =>
                 /\ plugged[fwheel'[s][j].port].kind # "nothing"
                 /\ Text(box, fwheel'[s][j].port) = fwheel'[s][j].serial
      <4> SUFFICES ASSUME NEW j \in 1..n
                   PROVE  /\ \E m \in Wheels(box) : fwheel'[s][j].serial = Config[m].serial
                          /\ fwheel'[s][j].port # NoPort =>
                               /\ plugged[fwheel'[s][j].port].kind # "nothing"
                               /\ Text(box, fwheel'[s][j].port) = fwheel'[s][j].serial
        BY <2>3
      <4>1. CASE j = n
        BY <2>1, <2>3, <2>6, <4>1 DEF n
      <4>2. CASE j # n
        BY <2>0, <2>3, <4>2 DEF ServerInv, Matches
      <4>q. QED BY <4>1, <4>2
    <3>q. QED BY <2>0, <3>1, <3>2, <3>3 DEF ServerInv, Matches
  <2>q. QED BY <2>10, <2>11, <2>12, <2>13, <2>14 DEF ServerInv
<1>4. CASE ~SerialMatches(s, Text(box, port[s]))
  <2>1. Forget(s)
    BY <1>1, <1>4
  <2>q. QED BY <1>2, <2>1, ForgetInv
<1>q. QED
  BY <1>3, <1>4

(* No port has the device. *)
LEMMA NotFoundInv ==
  ASSUME PInv, NEW s \in Servers, NotFound(s)
  PROVE  ServerInv(s)'
<1>0. TypeOK /\ ServerInv(s) /\ pc[s] = "search" /\ port[s] = NumPorts /\ (Starting(s) <=> Configured(s))
  BY StartingIs DEF PInv, NotFound
<1>1. CASE Down(s, "failed")
  BY <1>1, DownInv
<1>2. CASE ~Down(s, "failed")
  <2>0. /\ UNCHANGED <<world, objects, port, tries, cmd, excuse>>
        /\ \/ /\ Configured(s) /\ Want(s) \in {"TUBE", "PRESSURE"}
              /\ pc'[s] = "config" /\ line'[s] = line[s] + 1 /\ reply'[s] = reply[s]
           \/ /\ ~Configured(s) /\ pc'[s] = "idle" /\ line'[s] = line[s]
              /\ reply'[s] \in {"off", "tube_off", "pressure_off"}
    <3>1. CASE Configured(s)
      BY <1>0, <1>2, <3>1 DEF NotFound, NextLine, Goto, TypeOK
    <3>2. CASE ~Configured(s)
      <4> DEFINE r == IF cmd[s].op \in {"istube", "ispressure"} THEN "off"
                      ELSE IF Want(s) = "TUBE" THEN "tube_off" ELSE "pressure_off"
      <4>1. End(s, r) /\ UNCHANGED <<world, objects, line, port, tries, cmd, excuse>>
        BY <1>0, <3>2 DEF NotFound
      <4>2. r \in {"off", "tube_off", "pressure_off"}
        OBVIOUS
      <4> HIDE DEF r
      <4>q. QED BY <1>0, <3>2, <4>1, <4>2 DEF End, Goto, TypeOK
    <3>q. QED BY <3>1, <3>2
  <2>1. /\ box' = box /\ Config' = Config /\ speed' = speed
        /\ UNCHANGED <<used, tube, gauge, controller, fwheel, opened, cmd>>
    BY <2>0 DEF world, objects, Config
  <2>2. /\ Matches(s)'
        /\ \A q \in Ports : /\ Holders(s, q)' = Holders(s, q) /\ Marked(s, q)'
                            /\ \A h \in Holders(s, q)' : used'[s][q]
                            /\ \A g, h \in Holders(s, q)' : g = h
    BY <1>0, <2>1, ObjectsSame
  <2>3. line[s] \in 1..(Len(Config) + 1) /\ Len(Config) \in Nat
    BY <1>0, Types
  <2>4. Phases(s)'
    BY <1>0, <2>0, <2>1, <2>3 DEF ServerInv, Phases, Configured
  <2>5. Looking(s)' /\ Reached(s)' /\ Replied(s)'
    BY <1>0, <2>0, <2>1 DEF ServerInv, Looking, Reached, Replied
  <2>6. Complete(s)'
    <3>1. WheelsRead(s)' = WheelsRead(s)
      BY <1>0, <2>0, <2>1, WheelsReadSame
    <3>2. \A j \in DOMAIN fwheel[s] : fwheel[s][j].port # NoPort
      BY <1>0, <2>0 DEF ServerInv, Complete
    <3>q. QED BY <1>0, <2>1, <3>1, <3>2 DEF ServerInv, Complete
  <2>7. \A q \in Ports : Held(s, q)'
    BY <1>0, <2>0, <2>1, <2>2 DEF ServerInv, Held
  <2>8. Speeds(s)'
    BY <1>0, <2>0, <2>1, <2>2 DEF ServerInv, Speeds, Alone
  <2>q. QED BY <2>2, <2>4, <2>5, <2>6, <2>7, <2>8 DEF ServerInv
<1>q. QED
  BY <1>1, <1>2

(* A wheel is driven where it is, and by no one else. *)
LEMMA SetValueInv ==
  ASSUME PInv, NEW s \in Servers, SetValue(s)
  PROVE  ServerInv(s)'
<1>0. /\ TypeOK /\ ServerInv(s) /\ pc[s] = "setup" /\ (Starting(s) <=> Configured(s))
      /\ box' = box /\ speed' = speed /\ cmd' = cmd /\ UNCHANGED objects
      /\ wheelAt' \in {wheelAt, [wheelAt EXCEPT ![port[s]] = Value(s)]}
  BY SetValueOutcome, StartingIs DEF PInv
<1>1. CASE SetWrong(s) /\ Configured(s)
  <2>1. SearchFrom(s, port[s] + 1) /\ line' = line /\ reply' = reply
    BY <1>0, <1>1 DEF SetWrong, NextPort
  <2>2. port[s] + 1 \in Nat
    BY <1>0, Types
  <2>q. QED BY <1>0, <1>1, <2>1, <2>2, SearchOnInv DEF objects
<1>2. CASE ~(SetWrong(s) /\ Configured(s))
  <2>1. /\ port' = port
        /\ \/ /\ Configured(s) /\ pc'[s] = "config" /\ line'[s] = line[s] + 1 /\ reply'[s] = reply[s]
           \/ /\ ~Configured(s) /\ pc'[s] = "idle" /\ line'[s] = line[s] /\ reply'[s] = "error"
           \/ /\ ~Configured(s) /\ pc'[s] = "idle" /\ line'[s] = line[s] /\ reply'[s] \in {"ok", "error"}
              /\ wheelAt'[port[s]] = cmd[s].v
           \/ /\ pc'[s] = pc[s] /\ line'[s] = line[s] /\ reply'[s] = reply[s]
    <3>1. CASE SetRight(s) /\ Configured(s)
      BY <1>0, <3>1 DEF SetRight, NextLine, Goto, TypeOK
    <3>2. CASE SetRight(s) /\ ~Configured(s)
      <4>1. PICK r \in {"ok", "error"} : End(s, r)
        BY <1>0, <3>2 DEF SetRight
      <4>2. line' = line /\ port' = port /\ wheelAt'[port[s]] = cmd[s].v
        BY <1>0, <3>2 DEF SetRight, Value
      <4>3. pc'[s] = "idle" /\ reply'[s] = r
        BY <1>0, <4>1 DEF End, Goto, TypeOK
      <4>q. QED BY <3>2, <4>2, <4>3
    <3>3. CASE SetAgain(s)
      BY <3>3 DEF SetAgain
    <3>4. CASE SetWrong(s) /\ ~Configured(s)
      BY <1>0, <3>4 DEF SetWrong, End, Goto, TypeOK
    <3>q. QED BY <1>2, <3>1, <3>2, <3>3, <3>4, SetValueOutcome
  <2>2. /\ Config' = Config /\ UNCHANGED <<used, tube, gauge, controller, fwheel, opened>>
    BY <1>0 DEF objects, Config
  <2>3. /\ Matches(s)'
        /\ \A q \in Ports : /\ Holders(s, q)' = Holders(s, q) /\ Marked(s, q)'
                            /\ \A h \in Holders(s, q)' : used'[s][q]
                            /\ \A g, h \in Holders(s, q)' : g = h
    BY <1>0, <2>2, ObjectsSame
  <2>4. line[s] \in 1..(Len(Config) + 1) /\ Len(Config) \in Nat
    BY <1>0, Types
  <2>5. Phases(s)'
    BY <1>0, <2>1, <2>2, <2>4 DEF ServerInv, Phases, Configured, Want
  <2>6. Looking(s)'
    BY <1>0, <2>1 DEF Looking
  <2>7. Reached(s)'
    BY <1>0, <2>1, <2>2 DEF ServerInv, Reached, Configured
  <2>8. Replied(s)'
    <3>1. reply[s] = "none"
      BY <1>0 DEF ServerInv, Replied
    <3>2. CASE ~Configured(s) /\ reply'[s] = "ok"
      <4>1. cmd[s].i \in DOMAIN fwheel[s] /\ fwheel[s][cmd[s].i].port = port[s]
        BY <1>0, <3>2 DEF ServerInv, Reached
      <4>2. pc'[s] = "idle" /\ wheelAt'[port[s]] = cmd[s].v
        BY <2>1, <3>1, <3>2
      <4>q. QED BY <1>0, <2>2, <4>1, <4>2 DEF Replied, Alone
    <3>3. CASE ~(~Configured(s) /\ reply'[s] = "ok")
      BY <1>0, <2>1, <3>1, <3>3 DEF Replied
    <3>q. QED BY <3>2, <3>3
  <2>9. Complete(s)'
    <3>1. WheelsRead(s)' = WheelsRead(s)
      BY <1>0, <2>1, WheelsReadSame
    <3>2. \A j \in DOMAIN fwheel[s] : fwheel[s][j].port # NoPort
      BY <1>0 DEF ServerInv, Complete
    <3>q. QED BY <1>0, <2>2, <3>1, <3>2 DEF ServerInv, Complete
  <2>10. \A q \in Ports : Held(s, q)'
    BY <1>0, <2>1, <2>2, <2>3 DEF ServerInv, Held
  <2>11. Speeds(s)'
    BY <1>0, <2>1, <2>2, <2>3 DEF ServerInv, Speeds, Alone
  <2>q. QED BY <2>3, <2>5, <2>6, <2>7, <2>8, <2>9, <2>10, <2>11 DEF ServerInv
<1>q. QED
  BY <1>1, <1>2

(* What is asked is held, and known by its kind. *)
LEMMA AskedIsHeld ==
  ASSUME PInv, NEW s \in Servers, pc[s] = "ask"
  PROVE  /\ port[s] \in Ports /\ ~Configured(s) /\ Want(s) = Index(cmd[s])
         /\ Want(s) \in {"TUBE", "PRESSURE"} /\ plugged[port[s]].kind = Want(s)
         /\ Want(s) = "TUBE" => tube[s] = port[s]
         /\ Want(s) = "PRESSURE" => gauge[s] = port[s]
         /\ Holders(s, port[s]) = {<<Want(s), 1>>} /\ used[s][port[s]]
         /\ opened[s][port[s]] >= 1
<1>0. TypeOK /\ ServerInv(s) /\ line[s] = Len(Config) + 1 /\ Len(Config) \in Nat
  BY Types DEF PInv, ServerInv, Phases
<1>1. ~Configured(s) /\ Want(s) = Index(cmd[s])
  BY <1>0 DEF Configured, Want
<1>2. /\ port[s] \in Ports /\ Want(s) \in {"TUBE", "PRESSURE"}
      /\ Want(s) = "TUBE" => tube[s] = port[s]
      /\ Want(s) = "PRESSURE" => gauge[s] = port[s]
  BY <1>0 DEF ServerInv, Phases, Reached
<1>3. port[s] # NoPort
  BY <1>2 DEF Ports, NoPort
<1>4. plugged[port[s]].kind = Want(s)
  BY <1>0, <1>2, <1>3 DEF ServerInv, Matches
<1>5. <<Want(s), 1>> \in Holders(s, port[s])
  BY <1>2, HolderIs
<1>6. Holders(s, port[s]) = {<<Want(s), 1>>} /\ used[s][port[s]]
  BY <1>0, <1>2, <1>5 DEF ServerInv, Held
<1>7. opened[s][port[s]] >= 1
  <2>1. Held(s, port[s]) /\ opened[s][port[s]] \in Nat
    BY <1>0, <1>2 DEF ServerInv, TypeOK
  <2>2. Holders(s, port[s]) # {}
    BY <1>6
  <2>q. QED BY <1>0, <2>1, <2>2 DEF Held
<1>q. QED
  BY <1>1, <1>2, <1>4, <1>6, <1>7

(* The port of a device that is off is let go. *)
LEMMA Released ==
  ASSUME PInv, NEW s \in Servers, pc[s] = "ask", Release(s), port' = port
  PROVE  /\ used'[s] = [used[s] EXCEPT ![port[s]] = FALSE]
         /\ opened'[s] = [opened[s] EXCEPT ![port[s]] = @ - 1]
         /\ tube'[s] = IF Want(s) = "TUBE" THEN NoPort ELSE tube[s]
         /\ gauge'[s] = IF Want(s) = "PRESSURE" THEN NoPort ELSE gauge[s]
         /\ UNCHANGED <<controller, fwheel>>
         /\ Holders(s, port[s])' = {}
         /\ \A q \in Ports \ {port[s]} : Holders(s, q)' = Holders(s, q)
<1>0. TypeOK /\ port[s] \in Ports
  BY AskedIsHeld DEF PInv
<1>1. /\ used'[s] = [used[s] EXCEPT ![port[s]] = FALSE]
      /\ opened'[s] = [opened[s] EXCEPT ![port[s]] = @ - 1]
      /\ tube'[s] = IF Want(s) = "TUBE" THEN NoPort ELSE tube[s]
      /\ gauge'[s] = IF Want(s) = "PRESSURE" THEN NoPort ELSE gauge[s]
      /\ UNCHANGED <<controller, fwheel>>
  BY <1>0 DEF Release, TypeOK
<1>2. \A q \in Ports : q # NoPort
  BY DEF Ports, NoPort
<1>3. Holders(s, port[s]) = {<<Want(s), 1>>}
  BY AskedIsHeld
<1>4. /\ Want(s) = "TUBE" => gauge[s] # port[s]
      /\ Want(s) = "PRESSURE" => tube[s] # port[s]
      /\ \A i \in DOMAIN controller[s] : controller[s][i].port # port[s]
      /\ \A i \in DOMAIN fwheel[s] : fwheel[s][i].port # port[s]
  <2>1. \A h \in Holders(s, port[s]) : h[1] = Want(s) /\ h[1] \in {"TUBE", "PRESSURE"}
    BY <1>3, AskedIsHeld
  <2>2. Want(s) = "TUBE" => gauge[s] # port[s]
    <3>1. gauge[s] = port[s] => <<"PRESSURE", 1>> \in Holders(s, port[s])
      BY <1>0, HolderIs
    <3>q. QED BY <2>1, <3>1
  <2>3. Want(s) = "PRESSURE" => tube[s] # port[s]
    <3>1. tube[s] = port[s] => <<"TUBE", 1>> \in Holders(s, port[s])
      BY <1>0, HolderIs
    <3>q. QED BY <2>1, <3>1
  <2>4. \A i \in DOMAIN controller[s] : controller[s][i].port # port[s]
    <3>1. \A i \in DOMAIN controller[s] : controller[s][i].port = port[s] =>
            <<"CONTROLLER", i>> \in Holders(s, port[s])
      BY <1>0, HolderIs
    <3>q. QED BY <2>1, <3>1
  <2>5. \A i \in DOMAIN fwheel[s] : fwheel[s][i].port # port[s]
    <3>1. \A i \in DOMAIN fwheel[s] : fwheel[s][i].port = port[s] =>
            <<"FILTER_WHEEL", i>> \in Holders(s, port[s])
      BY <1>0, HolderIs
    <3>q. QED BY <2>1, <3>1
  <2>q. QED BY <2>2, <2>3, <2>4, <2>5
<1>5. Holders(s, port[s])' = {}
  <2>1. tube'[s] # port[s] /\ gauge'[s] # port[s]
    BY <1>0, <1>1, <1>2, <1>4, AskedIsHeld
  <2>2. {tube'[s]} \intersect {port[s]} = {} /\ {gauge'[s]} \intersect {port[s]} = {}
    BY <2>1
  <2>3. /\ {i \in DOMAIN controller[s] : controller[s][i].port = port[s]} = {}
        /\ {i \in DOMAIN fwheel[s] : fwheel[s][i].port = port[s]} = {}
    BY <1>4
  <2>q. QED BY <1>1, <2>2, <2>3 DEF Holders
<1>6. \A q \in Ports \ {port[s]} : Holders(s, q)' = Holders(s, q)
  <2>1. \A q \in Ports \ {port[s]} : (tube'[s] = q <=> tube[s] = q) /\ (gauge'[s] = q <=> gauge[s] = q)
    BY <1>1, <1>2, AskedIsHeld
  <2>q. QED BY <1>1, <2>1 DEF Holders
<1>q. QED
  BY <1>1, <1>5, <1>6

(* Asking a device that may have been switched off. *)
LEMMA AskInv ==
  ASSUME PInv, NEW s \in Servers, Ask(s)
  PROVE  ServerInv(s)'
<1>0. /\ TypeOK /\ ServerInv(s) /\ pc[s] = "ask"
      /\ UNCHANGED <<world, line, port, tries, cmd, excuse>>
      /\ box' = box /\ speed' = speed /\ Config' = Config /\ plugged' = plugged
  BY DEF PInv, Ask, world, Config, plugged
<1>1. /\ pc'[s] = "idle" /\ reply'[s] \in Replies /\ (reply'[s] = "ok" => cmd[s].op # "setfw")
      /\ UNCHANGED objects \/ Release(s)
  <2>1. cmd[s].op # "setfw"
    <3>1. Index(cmd[s]) # "FILTER_WHEEL"
      BY <1>0, AskedIsHeld
    <3>q. QED BY <1>0, <3>1, WantIs
  <2>2. \E r \in Replies : End(s, r) /\ (UNCHANGED objects \/ Release(s))
    <3>1. PICK a \in Heard(s, port[s], Want(s)) :
            IF a
            THEN /\ End(s, IF cmd[s].op \in {"istube", "ispressure"} THEN "on" ELSE "ok")
                 /\ UNCHANGED objects
            ELSE IF cmd[s].op = "ispressure" THEN End(s, "off") /\ UNCHANGED objects
            ELSE End(s, IF Want(s) = "TUBE" THEN "tube_off" ELSE "pressure_off") /\ Release(s)
      BY DEF Ask
    <3>q. QED BY <3>1 DEF Replies
  <2>q. QED BY <1>0, <2>1, <2>2 DEF End, Goto, TypeOK
<1>2. line[s] = Len(Config) + 1
  BY <1>0 DEF ServerInv, Phases
<1>3. Phases(s)' /\ Looking(s)' /\ Reached(s)' /\ Replied(s)'
  BY <1>0, <1>1, <1>2 DEF ServerInv, Phases, Looking, Reached, Replied
<1>4. WheelsRead(s)' = WheelsRead(s)
  BY <1>0, <1>1, WheelsReadSame
<1>5. fwheel' = fwheel /\ controller' = controller
  BY <1>1 DEF objects, Release
<1>6. Complete(s)'
  BY <1>0, <1>4, <1>5 DEF ServerInv, Complete
<1>7. CASE UNCHANGED objects
  <2>1. /\ Matches(s)'
        /\ \A q \in Ports : /\ Holders(s, q)' = Holders(s, q) /\ Marked(s, q)'
                            /\ \A h \in Holders(s, q)' : used'[s][q]
                            /\ \A g, h \in Holders(s, q)' : g = h
    BY <1>0, <1>7, ObjectsSame DEF objects
  <2>2. \A q \in Ports : Held(s, q)'
    BY <1>0, <1>1, <1>7, <2>1 DEF ServerInv, Held, objects
  <2>3. Speeds(s)'
    BY <1>0, <1>1, <2>1 DEF ServerInv, Speeds, Alone
  <2>q. QED BY <1>3, <1>6, <2>1, <2>2, <2>3 DEF ServerInv
<1>8. CASE Release(s)
  <2>1. /\ port[s] \in Ports
        /\ used'[s] = [used[s] EXCEPT ![port[s]] = FALSE]
        /\ opened'[s] = [opened[s] EXCEPT ![port[s]] = @ - 1]
        /\ tube'[s] = IF Want(s) = "TUBE" THEN NoPort ELSE tube[s]
        /\ gauge'[s] = IF Want(s) = "PRESSURE" THEN NoPort ELSE gauge[s]
        /\ Holders(s, port[s])' = {}
        /\ \A q \in Ports \ {port[s]} : Holders(s, q)' = Holders(s, q)
    BY <1>0, <1>8, Released, AskedIsHeld
  <2>2. used[s] \in [Ports -> BOOLEAN] /\ opened[s] \in [Ports -> Nat]
    BY <1>0 DEF TypeOK
  <2>3. Identified(box)' = Identified(box)
    BY <1>0 DEF Identified, Text, Wheels
  <2>4. ASSUME NEW q \in Ports PROVE Held(s, q)' /\ Marked(s, q)'
    <3>0. Held(s, q) /\ Marked(s, q)
      BY <1>0 DEF ServerInv
    <3>1. CASE q = port[s]
      <4>1. ~used'[s][q] /\ Holders(s, q)' = {} /\ opened'[s][q] >= 0
        BY <2>1, <2>2, <3>1, AskedIsHeld, <1>0
      <4>q. QED BY <1>1, <4>1 DEF Held, Marked
    <3>2. CASE q # port[s]
      <4>1. used'[s][q] = used[s][q] /\ Holders(s, q)' = Holders(s, q) /\ opened'[s][q] = opened[s][q]
        BY <2>1, <2>2, <3>2
      <4>q. QED BY <1>0, <1>1, <2>3, <3>0, <4>1 DEF Held, Marked
    <3>q. QED BY <3>1, <3>2
  <2>5. Speeds(s)'
    <3>1. ASSUME NEW q \in Ports PROVE Holders(s, q)' \subseteq Holders(s, q)
      <4>1. CASE q = port[s]
        BY <1>0, <2>1, <4>1
      <4>2. CASE q # port[s]
        BY <2>1, <4>2
      <4>q. QED BY <4>1, <4>2
    <3>q. QED BY <1>0, <1>1, <3>1 DEF ServerInv, Speeds, Alone
  <2>6. Matches(s)'
    <3>1. \A q : Text(box, q)' = Text(box, q)
      BY <1>0 DEF Text
    <3>2. Wheels(box)' = Wheels(box)
      BY <1>0 DEF Wheels
    <3>q. QED BY <1>0, <1>5, <2>1, <3>1, <3>2 DEF ServerInv, Matches
  <2>q. QED BY <1>3, <1>6, <2>4, <2>5, <2>6 DEF ServerInv
<1>q. QED
  BY <1>1, <1>7, <1>8

-----------------------------------------------------------------------------
(* The types. *)
LEMMA SearchTypes ==
  ASSUME TypeOK, NEW s \in Servers, NEW p \in Nat, SearchFrom(s, p)
  PROVE  /\ pc' \in [Servers -> {"down", "config", "search", "probe", "serial", "setup",
                                 "print", "idle", "ask"}]
         /\ port' \in [Servers -> 0..NumPorts]
<1>1. pc' = [pc EXCEPT ![s] = "search"]
  BY SearchStops
<1>2. PICK q \in p..NumPorts : port' = [port EXCEPT ![s] = q]
  BY SearchStops
<1>3. q \in 0..NumPorts
  BY Types
<1>q. QED
  BY <1>1, <1>2, <1>3 DEF TypeOK

(* Going on to the next line keeps the types. *)
LEMMA LineTypes ==
  ASSUME TypeOK, NEW s \in Servers, NextLine(s), line[s] <= Len(Config)
  PROVE  /\ pc' \in [Servers -> {"down", "config", "search", "probe", "serial", "setup",
                                 "print", "idle", "ask"}]
         /\ line' \in [Servers -> 1..(Len(Config) + 1)]
<1>1. line[s] + 1 \in 1..(Len(Config) + 1)
  BY Types
<1>2. line' = [line EXCEPT ![s] = line[s] + 1] /\ pc' = [pc EXCEPT ![s] = "config"]
  BY DEF NextLine, Goto
<1>q. QED
  BY <1>1, <1>2 DEF TypeOK

(* Going down keeps the types. *)
LEMMA TypeDown ==
  ASSUME TypeOK, NEW s \in Servers, NEW r \in Replies, Down(s, r)
  PROVE  TypeOK'
<1>1. NumPorts \in Nat /\ Len(Config) \in Nat /\ MaxTries \in Nat \ {0}
  BY PortsAssumption, Types
<1>2. << >> \in Seq(Item)
  OBVIOUS
<1>3. box' = box /\ Config' = Config /\ UNCHANGED <<on, speed, wheelAt, cmd, excuse>>
  BY DEF Down, world, Config
<1>4. /\ used' \in [Servers -> [Ports -> BOOLEAN]] /\ opened' \in [Servers -> [Ports -> Nat]]
      /\ tube' \in [Servers -> Ports \union {NoPort}]
      /\ gauge' \in [Servers -> Ports \union {NoPort}]
  BY DEF TypeOK, Down
<1>5. controller' \in [Servers -> Seq(Item)] /\ fwheel' \in [Servers -> Seq(Item)]
  BY <1>2 DEF TypeOK, Down
<1>6. /\ line' \in [Servers -> 1..(Len(Config) + 1)] /\ port' \in [Servers -> 0..NumPorts]
      /\ tries' \in [Servers -> 0..(MaxTries - 1)]
  BY <1>1 DEF TypeOK, Down
<1>7. /\ reply' \in [Servers -> Replies]
      /\ pc' \in [Servers -> {"down", "config", "search", "probe", "serial", "setup",
                              "print", "idle", "ask"}]
  BY DEF TypeOK, Down, Goto
<1>q. QED
  BY <1>3, <1>4, <1>5, <1>6, <1>7 DEF TypeOK

(* The types of what only the search and the lists change. *)
LEMMA TypeReadLine ==
  ASSUME PInv, NEW s \in Servers, ReadLine(s)
  PROVE  TypeOK'
<1>0. TypeOK /\ pc[s] = "config" /\ line[s] <= Len(Config) /\ Len(Config) \in Nat
      /\ UNCHANGED <<world, used, tube, gauge, opened, tries, cmd, reply, excuse>>
      /\ Config' = Config /\ line[s] \in 1..Len(Config)
  BY ReadLineLists, Types DEF PInv, world, Config
<1>1. NewItem(s) \in Item
  <2>1. Config[line[s]] \in [mode : InterfaceIndex, serial : Serials]
    BY <1>0, Types, SeqIs
  <2>q. QED BY <2>1 DEF NewItem, Item
<1>2. /\ controller' \in [Servers -> Seq(Item)] /\ fwheel' \in [Servers -> Seq(Item)]
  <2>1. controller[s] \in Seq(Item) /\ fwheel[s] \in Seq(Item)
    BY <1>0, Types
  <2>2. Append(controller[s], NewItem(s)) \in Seq(Item) /\ Append(fwheel[s], NewItem(s)) \in Seq(Item)
    BY <1>1, <2>1
  <2>3. /\ controller' = [controller EXCEPT ![s] = controller'[s]]
        /\ fwheel' = [fwheel EXCEPT ![s] = fwheel'[s]]
    BY <1>0 DEF ReadLine, TypeOK
  <2>4. controller'[s] \in Seq(Item) /\ fwheel'[s] \in Seq(Item)
    BY <2>1, <2>2, ReadLineLists
  <2>q. QED BY <1>0, <2>3, <2>4 DEF TypeOK
<1>3. /\ pc' \in [Servers -> {"down", "config", "search", "probe", "serial", "setup",
                              "print", "idle", "ask"}]
      /\ port' \in [Servers -> 0..NumPorts] /\ line' \in [Servers -> 1..(Len(Config) + 1)]
  <2>1. CASE Had(s)
    <3>1. NextLine(s) /\ port' = port
      BY <2>1, ReadLineLists
    <3>q. QED BY <1>0, <3>1, LineTypes DEF TypeOK
  <2>2. CASE ~Had(s)
    <3>1. SearchFrom(s, 0) /\ line' = line
      BY <2>2, ReadLineLists
    <3>q. QED BY <1>0, <3>1, SearchTypes DEF TypeOK
  <2>q. QED BY <2>1, <2>2
<1>q. QED
  BY <1>0, <1>2, <1>3 DEF TypeOK, world

(* Leaving a port open keeps the types. *)
LEMMA TypeForget ==
  ASSUME PInv, NEW s \in Servers, Forget(s), UNCHANGED <<world, cmd, excuse>>
  PROVE  TypeOK'
<1>0. TypeOK /\ port[s] + 1 \in Nat /\ Config' = Config
  BY Types DEF PInv, world, Config
<1>1. /\ pc' \in [Servers -> {"down", "config", "search", "probe", "serial", "setup",
                              "print", "idle", "ask"}]
      /\ port' \in [Servers -> 0..NumPorts]
  BY <1>0, SearchTypes DEF Forget, NextPort
<1>q. QED
  BY <1>0, <1>1 DEF Forget, TypeOK, world, objects

(* Closing a port keeps the types. *)
LEMMA TypeClose ==
  ASSUME PInv, NEW s \in Servers, pc[s] = "probe", Close(s), UNCHANGED <<world, cmd, excuse>>
  PROVE  TypeOK'
<1>0. TypeOK /\ port[s] \in Ports /\ port[s] + 1 \in Nat /\ Config' = Config
  BY Types DEF PInv, world, Config, ServerInv, Looking
<1>1. /\ pc' \in [Servers -> {"down", "config", "search", "probe", "serial", "setup",
                              "print", "idle", "ask"}]
      /\ port' \in [Servers -> 0..NumPorts]
  BY <1>0, SearchTypes DEF Close, NextPort
<1>2. opened' \in [Servers -> [Ports -> Nat]]
  <2>1. opened[s][port[s]] \in Nat /\ Held(s, port[s])
    BY <1>0 DEF PInv, ServerInv, TypeOK
  <2>2. opened[s][port[s]] - 1 \in Nat
    BY <2>1 DEF Held
  <2>q. QED BY <1>0, <2>2 DEF Close, TypeOK
<1>q. QED
  BY <1>0, <1>1, <1>2 DEF Close, TypeOK, world

(* Taking a port keeps the types. *)
LEMMA TypeTake ==
  ASSUME PInv, NEW s \in Servers, pc[s] = "probe", Take(s), UNCHANGED <<world, cmd, excuse>>
  PROVE  TypeOK'
<1>0. TypeOK /\ port[s] \in Ports /\ Config' = Config
      /\ line[s] \in 1..(Len(Config) + 1) /\ Len(Config) \in Nat
      /\ (Starting(s) <=> Configured(s))
  BY Types, StartingIs DEF PInv, world, Config, ServerInv, Looking
<1>1. /\ used' \in [Servers -> [Ports -> BOOLEAN]]
      /\ tube' \in [Servers -> Ports \union {NoPort}]
      /\ gauge' \in [Servers -> Ports \union {NoPort}]
  BY <1>0 DEF Take, Mark, TypeOK
<1>2. /\ pc' \in [Servers -> {"down", "config", "search", "probe", "serial", "setup",
                              "print", "idle", "ask"}]
      /\ reply' \in [Servers -> Replies] /\ line' \in [Servers -> 1..(Len(Config) + 1)]
  <2>1. CASE Starting(s)
    <3>1. NextLine(s) /\ reply' = reply /\ line[s] <= Len(Config)
      BY <1>0, <2>1 DEF Take, Configured
    <3>q. QED BY <1>0, <3>1, LineTypes DEF TypeOK
  <2>2. CASE ~Starting(s)
    <3>1. line' = line /\ CASE cmd[s].op = "ispressure"           -> End(s, "on")
                            [] cmd[s].op = "getpressureinterface" -> End(s, "ok")
                            [] OTHER                              -> Goto(s, "ask") /\ UNCHANGED reply
      BY <2>2 DEF Take
    <3>2. End(s, "on") \/ End(s, "ok") \/ (Goto(s, "ask") /\ UNCHANGED reply)
      <4>1. CASE cmd[s].op = "ispressure"
        BY <3>1, <4>1
      <4>2. CASE cmd[s].op = "getpressureinterface"
        BY <3>1, <4>2
      <4>3. CASE cmd[s].op # "ispressure" /\ cmd[s].op # "getpressureinterface"
        BY <3>1, <4>3
      <4>q. QED BY <4>1, <4>2, <4>3
    <3>3. line' = line
      BY <3>1
    <3>q. QED BY <1>0, <3>2, <3>3 DEF End, Goto, TypeOK, Replies
  <2>q. QED BY <2>1, <2>2
<1>q. QED
  BY <1>0, <1>1, <1>2 DEF Take, TypeOK, world

(* Reading a serial number keeps the types. *)
LEMMA TypeSerial ==
  ASSUME PInv, NEW s \in Servers, Serial(s)
  PROVE  TypeOK'
<1>0. /\ TypeOK /\ UNCHANGED <<world, cmd, excuse>> /\ Config' = Config
      /\ port[s] \in Ports /\ controller[s] # << >>
      /\ line[s] \in 1..Len(Config) /\ Len(Config) \in Nat
  BY Types DEF Serial, PInv, ServerInv, Phases, Looking, world, Config, Configured
<1>1. CASE Forget(s)
  BY <1>0, <1>1, TypeForget
<1>2. CASE /\ Mark(s) /\ controller' = SetInterface(controller, s) /\ NextLine(s)
           /\ UNCHANGED <<tube, gauge, fwheel, opened, port, tries, reply>>
  <2>1. [controller[s] EXCEPT ![Len(controller[s])].port = port[s]] \in Seq(Item)
    BY <1>0, Types, LastSet
  <2>2. controller' \in [Servers -> Seq(Item)]
    BY <1>0, <1>2, <2>1 DEF SetInterface, TypeOK
  <2>3. /\ pc' \in [Servers -> {"down", "config", "search", "probe", "serial", "setup",
                                "print", "idle", "ask"}]
        /\ line' \in [Servers -> 1..(Len(Config) + 1)]
    <3>1. line[s] <= Len(Config)
      BY <1>0
    <3>q. QED BY <1>0, <1>2, <3>1, LineTypes
  <2>4. used' \in [Servers -> [Ports -> BOOLEAN]]
    BY <1>0, <1>2 DEF Mark, TypeOK
  <2>q. QED BY <1>0, <1>2, <2>2, <2>3, <2>4 DEF TypeOK, world
<1>q. QED
  BY <1>1, <1>2 DEF Serial

(* Probing for a wheel keeps the types. *)
LEMMA TypeProbeFwheel ==
  ASSUME PInv, NEW s \in Servers, ProbeFwheel(s)
  PROVE  TypeOK'
<1>0. /\ TypeOK /\ UNCHANGED <<world, cmd, excuse>> /\ Config' = Config
      /\ port[s] \in Ports /\ fwheel[s] # << >> /\ MaxTries \in Nat \ {0}
  BY PortsAssumption DEF ProbeFwheel, PInv, ServerInv, Looking, world, Config
<1>1. CASE Forget(s)
  BY <1>0, <1>1, TypeForget
<1>2. CASE /\ Mark(s) /\ fwheel' = SetInterface(fwheel, s)
           /\ Goto(s, "setup") /\ tries' = [tries EXCEPT ![s] = 0]
           /\ UNCHANGED <<tube, gauge, controller, opened, line, port, reply>>
  <2>1. [fwheel[s] EXCEPT ![Len(fwheel[s])].port = port[s]] \in Seq(Item)
    BY <1>0, Types, LastSet
  <2>2. fwheel' \in [Servers -> Seq(Item)]
    BY <1>0, <1>2, <2>1 DEF SetInterface, TypeOK
  <2>3. used' \in [Servers -> [Ports -> BOOLEAN]] /\ tries' \in [Servers -> 0..(MaxTries - 1)]
    BY <1>0, <1>2 DEF Mark, TypeOK
  <2>4. pc' \in [Servers -> {"down", "config", "search", "probe", "serial", "setup",
                            "print", "idle", "ask"}]
    BY <1>0, <1>2 DEF Goto, TypeOK
  <2>q. QED BY <1>0, <1>2, <2>2, <2>3, <2>4 DEF TypeOK, world
<1>q. QED
  BY <1>1, <1>2 DEF ProbeFwheel

(* Turning a wheel keeps the types. *)
LEMMA TypeSetValue ==
  ASSUME PInv, NEW s \in Servers, SetValue(s)
  PROVE  TypeOK'
<1>0. /\ TypeOK /\ pc[s] = "setup" /\ (Starting(s) <=> Configured(s)) /\ Config' = Config
      /\ box' = box /\ on' = on /\ speed' = speed /\ cmd' = cmd /\ UNCHANGED objects
      /\ line[s] \in 1..(Len(Config) + 1) /\ Len(Config) \in Nat
      /\ port[s] + 1 \in Nat
  BY SetValueOutcome, StartingIs, Types DEF PInv, Config
<1>1. MaxTries \in Nat \ {0} /\ NumValues \in Nat \ {0}
  BY PortsAssumption
<1>2. wheelAt' \in [Ports -> 1..NumValues]
  <2>1. Value(s) \in 1..NumValues
    <3>1. CASE Starting(s)
      BY <1>1, <3>1 DEF Value
    <3>2. CASE ~Starting(s)
      <4>1. cmd[s].v \in 0..NumValues /\ cmd[s].v # 0
        BY <1>0, <3>2 DEF PInv, ServerInv, Phases, TypeOK, Command
      <4>q. QED BY <1>1, <3>2, <4>1 DEF Value
    <3>q. QED BY <3>1, <3>2
  <2>2. wheelAt' \in {wheelAt, [wheelAt EXCEPT ![port[s]] = Value(s)]}
    BY SetValueOutcome
  <2>q. QED BY <1>0, <2>1, <2>2 DEF TypeOK
<1>3. tries' \in [Servers -> 0..(MaxTries - 1)]
  <2>1. CASE tries' = [tries EXCEPT ![s] = 0]
    BY <1>0, <1>1, <2>1 DEF TypeOK
  <2>2. CASE SetAgain(s)
    BY <1>0, <1>1, <2>2 DEF SetAgain, LastTry, TypeOK
  <2>q. QED BY <2>1, <2>2, SetValueOutcome DEF SetRight, SetWrong
<1>4. /\ pc' \in [Servers -> {"down", "config", "search", "probe", "serial", "setup",
                              "print", "idle", "ask"}]
      /\ port' \in [Servers -> 0..NumPorts] /\ line' \in [Servers -> 1..(Len(Config) + 1)]
      /\ reply' \in [Servers -> Replies] /\ excuse' \in [Servers -> BOOLEAN]
  <2>1. CASE SetRight(s) /\ Starting(s)
    <3>1. NextLine(s) /\ reply' = reply /\ port' = port /\ excuse' = excuse /\ line[s] <= Len(Config)
      BY <1>0, <2>1 DEF SetRight, Configured
    <3>q. QED BY <1>0, <3>1, LineTypes DEF TypeOK
  <2>2. CASE SetRight(s) /\ ~Starting(s)
    <3>1. PICK r \in {"ok", "error"} : End(s, r)
      BY <2>2 DEF SetRight
    <3>2. line' = line /\ port' = port /\ excuse' = excuse /\ r \in Replies
      BY <2>2 DEF SetRight, Replies
    <3>q. QED BY <1>0, <3>1, <3>2 DEF End, Goto, TypeOK
  <2>3. CASE SetAgain(s)
    BY <1>0, <2>3 DEF SetAgain, TypeOK
  <2>4. CASE SetWrong(s) /\ Starting(s)
    <3>1. SearchFrom(s, port[s] + 1) /\ line' = line /\ reply' = reply
          /\ excuse' = [excuse EXCEPT ![s] = TRUE]
      BY <2>4 DEF SetWrong, NextPort
    <3>2. /\ pc' \in [Servers -> {"down", "config", "search", "probe", "serial", "setup",
                                  "print", "idle", "ask"}]
          /\ port' \in [Servers -> 0..NumPorts]
      BY <1>0, <3>1, SearchTypes
    <3>q. QED BY <1>0, <3>1, <3>2 DEF TypeOK
  <2>5. CASE SetWrong(s) /\ ~Starting(s)
    BY <1>0, <2>5 DEF SetWrong, End, Goto, TypeOK, Replies
  <2>q. QED BY <2>1, <2>2, <2>3, <2>4, <2>5, SetValueOutcome
<1>q. QED
  BY <1>0, <1>2, <1>3, <1>4 DEF TypeOK, objects

(* Receiving a command keeps the types. *)
LEMMA TypeReceive ==
  ASSUME PInv, NEW s \in Servers, Receive(s)
  PROVE  TypeOK'
<1>0. /\ TypeOK /\ UNCHANGED <<world, objects, line, tries>> /\ Config' = Config
      /\ excuse' = [excuse EXCEPT ![s] = FALSE]
  BY ReceiveOutcome DEF PInv, world, Config
<1>1. PICK c \in Command :
        /\ cmd' = [cmd EXCEPT ![s] = c]
        /\ \/ Sought(s, c) \/ Answered(s, c)
           \/ \E w \in {"setup", "ask"} : \E p : GoneTo(s, c, w, p)
  BY ReceiveOutcome
<1>2. /\ pc' \in [Servers -> {"down", "config", "search", "probe", "serial", "setup",
                              "print", "idle", "ask"}]
      /\ port' \in [Servers -> 0..NumPorts] /\ reply' \in [Servers -> Replies]
  <2>1. CASE Sought(s, c)
    <3>1. SearchFrom(s, 0) /\ reply' = [reply EXCEPT ![s] = "none"]
      BY <2>1 DEF Sought
    <3>q. QED BY <1>0, <3>1, SearchTypes DEF TypeOK, Replies
  <2>2. CASE Answered(s, c)
    BY <1>0, <2>2 DEF Answered, End, Goto, TypeOK, Replies
  <2>3. ASSUME NEW w \in {"setup", "ask"}, NEW p, GoneTo(s, c, w, p)
        PROVE  /\ pc' \in [Servers -> {"down", "config", "search", "probe", "serial", "setup",
                                       "print", "idle", "ask"}]
               /\ port' \in [Servers -> 0..NumPorts] /\ reply' \in [Servers -> Replies]
    <3>1. p \in 0..NumPorts
      BY <1>0, <2>3, Types DEF GoneTo, Ports
    <3>q. QED BY <1>0, <2>3, <3>1 DEF GoneTo, TypeOK, Replies
  <2>q. QED BY <1>1, <2>1, <2>2, <2>3
<1>q. QED
  BY <1>0, <1>1, <1>2 DEF TypeOK, world, objects

(* Asking a device keeps the types. *)
LEMMA TypeAsk ==
  ASSUME PInv, NEW s \in Servers, Ask(s)
  PROVE  TypeOK'
<1>0. /\ TypeOK /\ UNCHANGED <<world, line, port, tries, cmd, excuse>> /\ Config' = Config
      /\ pc[s] = "ask" /\ port[s] \in Ports /\ opened[s][port[s]] >= 1
  BY AskedIsHeld DEF Ask, PInv, world, Config
<1>1. \E r \in Replies : End(s, r)
  <2>1. PICK a \in Heard(s, port[s], Want(s)) :
          IF a
          THEN /\ End(s, IF cmd[s].op \in {"istube", "ispressure"} THEN "on" ELSE "ok")
               /\ UNCHANGED objects
          ELSE IF cmd[s].op = "ispressure" THEN End(s, "off") /\ UNCHANGED objects
          ELSE End(s, IF Want(s) = "TUBE" THEN "tube_off" ELSE "pressure_off") /\ Release(s)
    BY DEF Ask
  <2>q. QED BY <2>1 DEF Replies
<1>2. /\ used' \in [Servers -> [Ports -> BOOLEAN]]
      /\ tube' \in [Servers -> Ports \union {NoPort}]
      /\ gauge' \in [Servers -> Ports \union {NoPort}]
      /\ opened' \in [Servers -> [Ports -> Nat]] /\ UNCHANGED <<controller, fwheel>>
  <2>1. CASE UNCHANGED objects
    BY <1>0, <2>1 DEF objects, TypeOK
  <2>2. CASE Release(s)
    <3>1. opened[s][port[s]] - 1 \in Nat
      BY <1>0 DEF TypeOK
    <3>2. opened' \in [Servers -> [Ports -> Nat]]
      BY <1>0, <2>2, <3>1 DEF Release, TypeOK
    <3>q. QED BY <1>0, <2>2, <3>2 DEF Release, TypeOK
  <2>q. QED BY <2>1, <2>2 DEF Ask
<1>3. /\ pc' \in [Servers -> {"down", "config", "search", "probe", "serial", "setup",
                              "print", "idle", "ask"}]
      /\ reply' \in [Servers -> Replies]
  BY <1>0, <1>1 DEF TypeOK, End, Goto
<1>q. QED
  BY <1>0, <1>2, <1>3 DEF TypeOK, world

(* Every step of a server keeps the types. *)
LEMMA TypeStep ==
  ASSUME PInv, NEW s \in Servers,
         Start(s) \/ Crash(s) \/ Receive(s) \/ ServerStep(s)
  PROVE  TypeOK'
<1>0. TypeOK /\ ServerInv(s)
  BY DEF PInv
<1>1. CASE Start(s)
  BY <1>0, <1>1 DEF Start, Goto, TypeOK, world, objects, Replies, Config
<1>2. CASE Crash(s)
  BY <1>0, <1>2, TypeDown DEF Crash, Replies
<1>3. CASE Receive(s)
  BY <1>3, TypeReceive
<1>4. CASE ReadLine(s)
  BY <1>4, TypeReadLine
<1>5. CASE ConfigRead(s)
  BY <1>0, <1>5 DEF ConfigRead, Goto, TypeOK, world, objects, Config
<1>6. CASE Report(s)
  <2>1. CASE Down(s, "failed")
    BY <1>0, <2>1, TypeDown DEF Replies
  <2>2. CASE Goto(s, "idle") /\ UNCHANGED <<world, objects, line, port, tries, cmd, reply, excuse>>
    BY <1>0, <2>2 DEF Goto, TypeOK, world, objects, Config
  <2>q. QED BY <1>6, <2>1, <2>2 DEF Report
<1>7. CASE Open(s)
  <2>1. Want(s) \in InterfaceIndex /\ port[s] \in Ports /\ opened[s][port[s]] + 1 \in Nat
    BY <1>0, <1>7, WantIs DEF Open, TypeOK
  <2>2. speed' \in [Ports -> {"unset"} \union {Settings(k) : k \in InterfaceIndex}]
    BY <1>0, <1>7, <2>1 DEF Open, TypeOK
  <2>q. QED BY <1>0, <1>7, <2>1, <2>2 DEF Open, Goto, TypeOK, Config
<1>8. CASE Probe(s)
  BY <1>8, TypeTake, TypeClose DEF Probe
<1>9. CASE ProbeController(s)
  <2>1. CASE Close(s)
    BY <1>9, <2>1, TypeClose DEF ProbeController
  <2>2. CASE Goto(s, "serial") /\ UNCHANGED <<objects, line, port, tries, reply>>
    BY <1>0, <1>9, <2>2 DEF ProbeController, Goto, TypeOK, world, objects, Config
  <2>q. QED BY <1>9, <2>1, <2>2 DEF ProbeController
<1>10. CASE Serial(s)
  BY <1>10, TypeSerial
<1>11. CASE ProbeFwheel(s)
  BY <1>11, TypeProbeFwheel
<1>12. CASE NotFound(s)
  <2>1. CASE Down(s, "failed")
    BY <1>0, <2>1, TypeDown DEF Replies
  <2>2. CASE Starting(s) /\ NextLine(s) /\ UNCHANGED <<world, objects, port, tries, cmd, reply, excuse>>
    <3>1. line[s] \in 1..Len(Config) /\ Len(Config) \in Nat
      BY <1>0, <1>12, <2>2, StartingIs, Types DEF Configured, NotFound
    <3>2. /\ pc' \in [Servers -> {"down", "config", "search", "probe", "serial", "setup",
                                  "print", "idle", "ask"}]
          /\ line' \in [Servers -> 1..(Len(Config) + 1)]
      BY <1>0, <2>2, <3>1, LineTypes
    <3>3. /\ UNCHANGED <<box, on, speed, wheelAt, used, tube, gauge, controller, fwheel, opened>>
          /\ UNCHANGED <<port, tries, cmd, reply, excuse>> /\ Config' = Config
      BY <2>2 DEF world, objects, Config
    <3>q. QED BY <1>0, <3>2, <3>3 DEF TypeOK
  <2>3. CASE (\E r \in Replies : End(s, r)) /\ UNCHANGED <<world, objects, line, port, tries, cmd, excuse>>
    BY <1>0, <2>3 DEF End, Goto, TypeOK, world, objects, Config
  <2>q. QED BY <1>12, <2>1, <2>2, <2>3 DEF NotFound, Replies
<1>13. CASE SetValue(s)
  BY <1>13, TypeSetValue
<1>14. CASE Ask(s)
  BY <1>14, TypeAsk
<1>q. QED
  BY <1>1, <1>2, <1>3, <1>4, <1>5, <1>6, <1>7, <1>8, <1>9, <1>10, <1>11, <1>12, <1>13, <1>14
     DEF ServerStep

-----------------------------------------------------------------------------
(* The invariant holds at first and is kept. *)
LEMMA InitInv == Init => PInv
<1> SUFFICES ASSUME Init PROVE PInv
  OBVIOUS
<1> USE DEF Init
<1>1. /\ NumPorts \in Nat /\ NumValues \in Nat \ {0} /\ MaxTries \in Nat \ {0} /\ box \in Box
      /\ << >> \in Seq(Item)
  BY PortsAssumption
<1>2. Config \in Seq([mode : InterfaceIndex, serial : Serials]) /\ Len(Config) \in Nat
  BY <1>1 DEF Box, Config
<1>3. TypeOK
  <2>1. NoCommand \in Command
    BY <1>1 DEF NoCommand, Command, Operations
  <2>2. wheelAt \in [Ports -> 1..NumValues]
    BY <1>1
  <2>3. /\ line \in [Servers -> 1..(Len(Config) + 1)] /\ port \in [Servers -> 0..NumPorts]
        /\ tries \in [Servers -> 0..(MaxTries - 1)]
    BY <1>1, <1>2
  <2>4. /\ cmd \in [Servers -> Command] /\ reply \in [Servers -> Replies]
        /\ excuse \in [Servers -> BOOLEAN]
    BY <2>1 DEF Replies
  <2>5. /\ controller \in [Servers -> Seq(Item)] /\ fwheel \in [Servers -> Seq(Item)]
    BY <1>1
  <2>q. QED BY <2>2, <2>3, <2>4, <2>5 DEF TypeOK
<1>4. ASSUME NEW s \in Servers PROVE ServerInv(s)
  <2>0. pc[s] = "down" /\ line[s] = 1 /\ reply[s] = "none" /\ fwheel[s] = << >>
    OBVIOUS
  <2>1. Phases(s) /\ Looking(s) /\ Reached(s) /\ Replied(s)
    BY <2>0 DEF Phases, Looking, Reached, Replied
  <2>2. Complete(s)
    <3>1. \A n \in Wheels(box) : n \in Nat /\ ~ n < 1
      BY <1>3, Types, WheelsAre
    <3>2. WheelsRead(s) = {}
      BY <2>0, <3>1 DEF WheelsRead
    <3>q. QED BY <2>0, <3>2, FS_EmptySet DEF Complete
  <2>3. Matches(s)
    BY <2>0 DEF Matches
  <2>4. \A p \in Ports : Holders(s, p) = {}
    BY <2>1, <2>0, DownHolds
  <2>5. \A p \in Ports : Held(s, p) /\ Marked(s, p)
    BY <2>0, <2>4 DEF Held, Marked
  <2>6. Speeds(s)
    BY <2>0, <2>4 DEF Speeds
  <2>q. QED BY <2>1, <2>2, <2>3, <2>5, <2>6 DEF ServerInv
<1>q. QED
  BY <1>3, <1>4 DEF PInv

(* The server that takes a step. *)
LEMMA OwnInv ==
  ASSUME PInv, NEW s \in Servers,
         Start(s) \/ Crash(s) \/ Receive(s) \/ ServerStep(s)
  PROVE  ServerInv(s)'
<1>1. CASE Start(s)   BY <1>1, StartInv
<1>2. CASE Crash(s)   BY <1>2, DownInv DEF Crash
<1>3. CASE Receive(s) BY <1>3, ReceiveInv
<1>4. CASE ReadLine(s) BY <1>4, ReadLineInv
<1>5. CASE ConfigRead(s) BY <1>5, ConfigReadInv
<1>6. CASE Report(s) BY <1>6, ReportInv
<1>7. CASE Open(s) BY <1>7, OpenInv
<1>8. CASE Probe(s) BY <1>8, ProbeInv
<1>9. CASE ProbeController(s) BY <1>9, ProbeControllerInv
<1>10. CASE Serial(s) BY <1>10, SerialInv
<1>11. CASE ProbeFwheel(s) BY <1>11, ProbeFwheelInv
<1>12. CASE NotFound(s) BY <1>12, NotFoundInv
<1>13. CASE SetValue(s) BY <1>13, SetValueInv
<1>14. CASE Ask(s) BY <1>14, AskInv
<1>q. QED
  BY <1>1, <1>2, <1>3, <1>4, <1>5, <1>6, <1>7, <1>8, <1>9, <1>10, <1>11, <1>12, <1>13, <1>14
     DEF ServerStep

(* Where a server is alone, the others are down. *)
LEMMA AloneIs ==
  ASSUME PInv, Alone, NEW s \in Servers, NEW t \in Servers, s \in box.servers, t # s
  PROVE  pc[t] = "down"
<1>1. IsFiniteSet(box.servers)
  BY Types DEF PInv
<1>2. PICK x : box.servers = {x}
  BY <1>1, FS_Singleton DEF Alone
<1>q. QED
  BY <1>2 DEF PInv, ServerInv, Phases

(* Only the servers of the box take steps. *)
LEMMA Runs ==
  ASSUME PInv, NEW s \in Servers,
         Start(s) \/ Crash(s) \/ Receive(s) \/ ServerStep(s)
  PROVE  s \in box.servers
<1>1. CASE Start(s)
  BY <1>1 DEF Start
<1>2. CASE ~Start(s)
  <2>1. CASE SetValue(s)
    BY <2>1, SetValueOutcome DEF PInv, ServerInv, Phases
  <2>2. CASE Receive(s)
    BY <2>2, ReceiveOutcome DEF PInv, ServerInv, Phases
  <2>3. CASE Crash(s) \/ ReadLine(s) \/ ConfigRead(s) \/ Report(s) \/ Open(s) \/ NotFound(s)
    BY <2>3 DEF Crash, ReadLine, ConfigRead, Report, Open, NotFound, PInv, ServerInv, Phases
  <2>4. CASE Probe(s) \/ ProbeController(s) \/ Serial(s) \/ ProbeFwheel(s) \/ Ask(s)
    <3>1. pc[s] # "down"
      BY <2>4 DEF Probe, ProbeController, Serial, ProbeFwheel, Ask
    <3>q. QED BY <3>1 DEF PInv, ServerInv, Phases
  <2>q. QED BY <1>2, <2>1, <2>2, <2>3, <2>4 DEF ServerStep
<1>q. QED
  BY <1>1, <1>2

(* Every step keeps the invariant. *)
LEMMA StepInv == PInv /\ [Next]_vars => PInv'
<1> SUFFICES ASSUME PInv, [Next]_vars PROVE PInv'
  OBVIOUS
<1>1. CASE Switch
  <2>1. /\ UNCHANGED <<box, speed, wheelAt, objects, pc, line, port, tries, cmd, reply>>
        /\ Config' = Config
    BY <1>1 DEF Switch, Config
  <2>2. TypeOK'
    <3>1. on' \in [Ports -> BOOLEAN] /\ excuse' \in [Servers -> BOOLEAN]
      BY <1>1 DEF Switch, PInv, TypeOK
    <3>q. QED BY <2>1, <3>1 DEF PInv, TypeOK, objects
  <2>3. \A s \in Servers : SameFor(s)
    BY <2>1 DEF SameFor, objects
  <2>q. QED BY <2>1, <2>2, <2>3, SameIsSame DEF PInv
<1>2. ASSUME NEW s \in Servers, Start(s) \/ Crash(s) \/ Receive(s) \/ ServerStep(s)
      PROVE  PInv'
  <2>1. TypeOK' /\ ServerInv(s)'
    BY <1>2, TypeStep, OwnInv
  <2>2. ASSUME NEW t \in Servers, t # s PROVE ServerInv(t)'
    <3>1. box' = box /\ SameFor(t)
      BY <1>2, <2>2, OthersSame DEF PInv
    <3>2. Alone => pc[t] = "down"
      BY <1>2, <2>2, AloneIs, Runs
    <3>q. QED BY <3>1, <3>2, SameIsSame DEF PInv
  <2>q. QED BY <2>1, <2>2 DEF PInv
<1>3. CASE UNCHANGED vars
  <2>1. UNCHANGED <<world, objects, doing>>
    BY <1>3 DEF vars
  <2>2. \A s \in Servers : SameFor(s)
    BY <2>1 DEF SameFor, objects, doing
  <2>3. TypeOK'
    BY <2>1 DEF PInv, TypeOK, world, objects, doing, Config
  <2>q. QED BY <2>1, <2>2, <2>3, SameIsSame DEF PInv, world
<1>q. QED
  BY <1>1, <1>2, <1>3 DEF Next

(* The invariant holds in every reachable state. *)
LEMMA SpecInv == Spec => []PInv
  BY InitInv, StepInv, PTL DEF Spec

-----------------------------------------------------------------------------
(* The variables keep their types. *)
THEOREM TypeCorrect == Spec => []TypeOK
<1>1. PInv => TypeOK
  BY DEF PInv
<1>q. QED
  BY <1>1, SpecInv, PTL

(* A set of at most one element has the size 0 or 1. *)
LEMMA AtMostOne ==
  ASSUME NEW S, \A g, h \in S : g = h
  PROVE  Cardinality(S) = IF S = {} THEN 0 ELSE 1
<1>1. CASE S = {}
  BY <1>1, FS_EmptySet
<1>2. CASE S # {}
  <2>1. PICK g : g \in S
    BY <1>2
  <2>2. S = {g}
    BY <2>1
  <2>q. QED BY <1>2, <2>2, FS_Singleton
<1>q. QED
  BY <1>1, <1>2

(* usbSerialPortsUsed never misses a port that a device holds, and no port is *)
(* held by two devices, whatever the serial numbers of the box.               *)
NeverTwice ==
  \A s \in Servers, p \in Ports :
    Cardinality(Holders(s, p)) <= (IF used[s][p] THEN 1 ELSE 0)

(* No port is used for two devices of one server (Interface::usedPorts, *)
(* Initialize.cpp).                                                     *)
THEOREM NoPortTwice == Spec => []NeverTwice
<1>1. PInv => NeverTwice
  <2> SUFFICES ASSUME PInv, NEW s \in Servers, NEW p \in Ports
               PROVE  Cardinality(Holders(s, p)) <= IF used[s][p] THEN 1 ELSE 0
    BY DEF NeverTwice
  <2>1. Held(s, p)
    BY DEF PInv, ServerInv
  <2>2. Cardinality(Holders(s, p)) = IF Holders(s, p) = {} THEN 0 ELSE 1
    BY <2>1, AtMostOne DEF Held
  <2>q. QED BY <2>1, <2>2 DEF Held
<1>q. QED
  BY <1>1, SpecInv, PTL

(* Where the adapters tell the wheels apart, a port is marked exactly when *)
(* one device holds it.                                                    *)
THEOREM MarksAreTrue == Spec => [](Identified(box) => PortsAccounted)
<1>1. PInv => (Identified(box) => PortsAccounted)
  <2> SUFFICES ASSUME PInv, Identified(box), NEW s \in Servers, NEW p \in Ports
               PROVE  Cardinality(Holders(s, p)) = IF used[s][p] THEN 1 ELSE 0
    BY DEF PortsAccounted
  <2>1. Held(s, p) /\ Marked(s, p)
    BY DEF PInv, ServerInv
  <2>2. Cardinality(Holders(s, p)) = IF Holders(s, p) = {} THEN 0 ELSE 1
    BY <2>1, AtMostOne DEF Held
  <2>q. QED BY <2>1, <2>2 DEF Held, Marked
<1>q. QED
  BY <1>1, SpecInv, PTL

(* Where the adapters tell the wheels apart, what has a port is there. *)
LEMMA RightIs == PInv /\ Identified(box) => RightDevice
<1> SUFFICES ASSUME PInv, Identified(box), NEW s \in Servers, NEW p \in Ports,
                    NEW h \in Holders(s, p)
             PROVE  /\ plugged[p].kind = h[1]
                    /\ h[1] = "CONTROLLER" => plugged[p].serial = controller[s][h[2]].serial
                    /\ h[1] = "FILTER_WHEEL" => plugged[p].serial = fwheel[s][h[2]].serial
  BY DEF RightDevice
<1>0. TypeOK /\ Matches(s) /\ p # NoPort
  BY DEF PInv, ServerInv, Ports, NoPort
<1>1. CASE h = <<"TUBE", 1>> /\ tube[s] = p
  BY <1>0, <1>1 DEF Matches
<1>2. CASE h = <<"PRESSURE", 1>> /\ gauge[s] = p
  BY <1>0, <1>2 DEF Matches
<1>3. ASSUME NEW i \in DOMAIN controller[s], h = <<"CONTROLLER", i>>, controller[s][i].port = p
      PROVE  plugged[p].kind = h[1] /\ h[1] = "CONTROLLER" /\ plugged[p].serial = controller[s][h[2]].serial
  BY <1>0, <1>3 DEF Matches
<1>4. ASSUME NEW i \in DOMAIN fwheel[s], h = <<"FILTER_WHEEL", i>>, fwheel[s][i].port = p
      PROVE  plugged[p].kind = h[1] /\ h[1] = "FILTER_WHEEL" /\ plugged[p].serial = fwheel[s][h[2]].serial
  <2>1. PICK n \in Wheels(box) : fwheel[s][i].serial = Config[n].serial
    BY <1>0 DEF Matches
  <2>2. plugged[p].kind # "nothing" /\ Text(box, p) = Config[n].serial
    BY <1>0, <1>4, <2>1 DEF Matches
  <2>3. plugged[p].kind = "FILTER_WHEEL" /\ plugged[p].serial = Config[n].serial
    BY <2>2 DEF Identified, plugged, Config
  <2>q. QED BY <1>4, <2>1, <2>3
<1>q. QED BY <1>1, <1>2, <1>3, <1>4, HolderIs

(* There, too, a device that has a port is at that port. *)
THEOREM FoundWhereItIs == Spec => [](Identified(box) => RightDevice)
  BY RightIs, SpecInv, PTL

(* Without a second server, a line in use has the settings of its device. *)
THEOREM LinesKeepTheirSettings == Spec => []LineSpeed
<1>1. PInv => LineSpeed
  BY DEF PInv, ServerInv, Speeds, LineSpeed
<1>q. QED
  BY <1>1, SpecInv, PTL

(* Without a second server, setfw answers ok only with the wheel in place. *)
THEOREM WheelIsSet == Spec => []WheelSet
<1>1. PInv => WheelSet
  BY DEF PInv, ServerInv, Replied, WheelSet
<1>q. QED
  BY <1>1, SpecInv, PTL

-----------------------------------------------------------------------------
(* What is leaked. *)
Open1(s, p) == IF pc[s] \in {"probe", "serial"} /\ port[s] = p THEN 1 ELSE 0

Held1(s, p) == IF Holders(s, p) = {} THEN 0 ELSE 1

(* What a server has leaked is what it opened less what it uses and what it *)
(* is just looking at.                                                      *)
LEMMA LeakedIs ==
  ASSUME PInv, NEW s \in Servers, NEW p \in Ports
  PROVE  /\ Leaked(s, p) = opened[s][p] - Held1(s, p) - Open1(s, p)
         /\ opened[s][p] \in Nat /\ Held1(s, p) \in {0, 1} /\ Open1(s, p) \in {0, 1}
         /\ Leaked(s, p) >= 0
<1>1. Held(s, p) /\ opened[s][p] \in Nat
  BY DEF PInv, ServerInv, TypeOK
<1>2. Cardinality(Holders(s, p)) = Held1(s, p)
  BY <1>1, AtMostOne DEF Held, Held1
<1>3. Held1(s, p) \in {0, 1} /\ Open1(s, p) \in {0, 1} /\ opened[s][p] >= Held1(s, p) + Open1(s, p)
  BY <1>1 DEF Held, Held1, Open1
<1>4. Leaked(s, p) = opened[s][p] - Held1(s, p) - Open1(s, p)
  BY <1>2 DEF Leaked, Open1
<1>q. QED
  BY <1>1, <1>3, <1>4

(* The search and the commands of a server that has started. *)
LEMMA OwnLeaks ==
  ASSUME PInv, PInv', NEW s \in Servers,
         Start(s) \/ Crash(s) \/ Receive(s) \/ ServerStep(s),
         pc[s] # "down", ~Starting(s), NEW p \in Ports
  PROVE  Leaked(s, p)' <= Leaked(s, p)
<1>0. /\ TypeOK /\ ServerInv(s) /\ pc[s] \notin {"down", "config", "print"} /\ ~Configured(s)
      /\ opened[s] \in [Ports -> Nat]
  BY DEF PInv, TypeOK, Starting, Configured
<1>1. Leaked(s, p) = opened[s][p] - Held1(s, p) - Open1(s, p)
  BY LeakedIs
<1>2. Leaked(s, p)' = opened'[s][p] - Held1(s, p)' - Open1(s, p)'
  <2>1. Held(s, p)' /\ opened'[s][p] \in Nat
    BY DEF PInv, ServerInv, TypeOK
  <2>2. Cardinality(Holders(s, p)') = IF Holders(s, p)' = {} THEN 0 ELSE 1
    BY <2>1, AtMostOne DEF Held
  <2>q. QED BY <2>2 DEF Leaked, Held1, Open1
<1>3. opened[s][p] \in Nat /\ Held1(s, p) \in {0, 1} /\ Open1(s, p) \in {0, 1} /\ Leaked(s, p) >= 0
  BY LeakedIs
<1>4. Held1(s, p)' \in {0, 1} /\ Open1(s, p)' \in {0, 1}
  BY DEF Held1, Open1
<1>5. ASSUME UNCHANGED <<tube, gauge, controller, fwheel>>
      PROVE  Held1(s, p)' = Held1(s, p)
  BY <1>5 DEF Held1, Holders
<1>6. CASE Crash(s)
  <2>1. opened'[s][p] = 0
    BY <1>0, <1>6 DEF Crash, Down, TypeOK
  <2>2. Leaked(s, p)' = 0 - Held1(s, p)' - Open1(s, p)'
    BY <1>2, <2>1
  <2>3. Leaked(s, p)' <= 0
    BY <2>2, <1>4
  <2>4. Leaked(s, p) \in Int
    BY <1>1, <1>3
  <2>q. QED BY <1>3, <2>2, <2>3, <2>4, <1>4
<1>7. CASE Receive(s)
  <2>1. pc[s] = "idle" /\ UNCHANGED objects
    BY <1>7, ReceiveOutcome
  <2>2. pc'[s] \notin {"probe", "serial"}
    <3>1. PICK c \in Command :
            \/ Sought(s, c) \/ Answered(s, c)
            \/ \E w \in {"setup", "ask"} : \E q : GoneTo(s, c, w, q)
      BY <1>7, ReceiveOutcome
    <3>2. CASE Sought(s, c)
      <4>1. pc' = [pc EXCEPT ![s] = "search"]
        BY <3>2 DEF Sought, SearchFrom, Goto
      <4>q. QED BY <1>0, <4>1 DEF TypeOK
    <3>3. CASE Answered(s, c)
      BY <1>0, <3>3 DEF Answered, End, Goto, TypeOK
    <3>4. CASE \E w \in {"setup", "ask"} : \E q : GoneTo(s, c, w, q)
      BY <1>0, <3>4 DEF GoneTo, TypeOK
    <3>q. QED BY <3>1, <3>2, <3>3, <3>4
  <2>3. Held1(s, p)' = Held1(s, p) /\ opened' = opened
    BY <1>5, <2>1 DEF objects
  <2>4. Open1(s, p) = 0 /\ Open1(s, p)' = 0
    BY <2>1, <2>2 DEF Open1
  <2>q. QED BY <1>1, <1>2, <1>3, <2>3, <2>4
<1>8. CASE Open(s)
  <2>1. /\ pc[s] = "search" /\ pc'[s] = "probe" /\ port' = port /\ port[s] \in Ports
        /\ opened'[s] = [opened[s] EXCEPT ![port[s]] = @ + 1]
        /\ UNCHANGED <<tube, gauge, controller, fwheel>>
    BY <1>0, <1>8 DEF Open, Goto, TypeOK
  <2>2. Held1(s, p)' = Held1(s, p)
    BY <1>5, <2>1
  <2>3. CASE p = port[s]
    <3>1. opened'[s][p] = opened[s][p] + 1 /\ Open1(s, p) = 0 /\ Open1(s, p)' = 1
      BY <1>0, <2>1, <2>3 DEF Open1
    <3>q. QED BY <1>1, <1>2, <1>3, <2>2, <3>1
  <2>4. CASE p # port[s]
    <3>1. opened'[s][p] = opened[s][p] /\ Open1(s, p) = 0 /\ Open1(s, p)' = 0
      BY <1>0, <2>1, <2>4 DEF Open1
    <3>q. QED BY <1>1, <1>2, <1>3, <2>2, <3>1
  <2>q. QED BY <2>3, <2>4
<1>9. CASE Probe(s)
  <2>0. pc[s] = "probe" /\ Want(s) \in {"TUBE", "PRESSURE"} /\ port[s] \in Ports
    BY <1>0, <1>9 DEF Probe, ServerInv, Looking
  <2>1. CASE Take(s)
    <3>1. /\ Holders(s, port[s]) = {} /\ Holders(s, port[s])' = {<<Want(s), 1>>}
          /\ \A q \in Ports \ {port[s]} : Holders(s, q)' = Holders(s, q)
      BY <2>0, <2>1, Taken
    <3>2. port' = port /\ opened' = opened
      BY <2>1 DEF Take
    <3>3. pc'[s] \notin {"probe", "serial"}
      <4>1. CASE cmd[s].op = "ispressure"
        <5>1. End(s, "on")
          BY <2>1, <4>1 DEF Take
        <5>q. QED BY <1>0, <5>1 DEF End, Goto, TypeOK
      <4>2. CASE cmd[s].op = "getpressureinterface"
        <5>1. End(s, "ok")
          BY <2>1, <4>2 DEF Take
        <5>q. QED BY <1>0, <5>1 DEF End, Goto, TypeOK
      <4>3. CASE cmd[s].op # "ispressure" /\ cmd[s].op # "getpressureinterface"
        <5>1. Goto(s, "ask")
          BY <2>1, <4>3 DEF Take
        <5>q. QED BY <1>0, <5>1 DEF Goto, TypeOK
      <4>q. QED BY <4>1, <4>2, <4>3
    <3>4. CASE p = port[s]
      <4>1. Held1(s, p) = 0 /\ Open1(s, p) = 1 /\ Held1(s, p)' = 1 /\ Open1(s, p)' = 0
        BY <2>0, <3>1, <3>2, <3>3, <3>4 DEF Held1, Open1
      <4>q. QED BY <1>1, <1>2, <1>3, <3>2, <4>1
    <3>5. CASE p # port[s]
      <4>1. Held1(s, p)' = Held1(s, p) /\ Open1(s, p)' = 0 /\ Open1(s, p) = 0
        BY <2>0, <3>1, <3>2, <3>3, <3>5 DEF Held1, Open1
      <4>q. QED BY <1>1, <1>2, <1>3, <3>2, <4>1
    <3>q. QED BY <3>4, <3>5
  <2>2. CASE Close(s)
    <3>1. /\ opened'[s] = [opened[s] EXCEPT ![port[s]] = @ - 1]
          /\ UNCHANGED <<tube, gauge, controller, fwheel>>
      BY <1>0, <2>2 DEF Close, TypeOK
    <3>2. pc'[s] = "search"
      <4>1. port[s] + 1 \in Nat /\ SearchFrom(s, port[s] + 1)
        BY <1>0, <2>2, Types DEF Close, NextPort
      <4>q. QED BY <1>0, <4>1, SearchStops DEF TypeOK
    <3>3. Held1(s, p)' = Held1(s, p) /\ Open1(s, p)' = 0
      BY <1>5, <3>1, <3>2 DEF Open1
    <3>4. CASE p = port[s]
      <4>1. opened'[s][p] = opened[s][p] - 1 /\ Open1(s, p) = 1
        BY <1>0, <2>0, <3>1, <3>4 DEF Open1
      <4>q. QED BY <1>1, <1>2, <1>3, <3>3, <4>1
    <3>5. CASE p # port[s]
      <4>1. opened'[s][p] = opened[s][p] /\ Open1(s, p) = 0
        BY <1>0, <3>1, <3>5 DEF Open1
      <4>q. QED BY <1>1, <1>2, <1>3, <3>3, <4>1
    <3>q. QED BY <3>4, <3>5
  <2>q. QED BY <1>9, <2>1, <2>2 DEF Probe
<1>10. CASE NotFound(s)
  <2>1. /\ pc[s] = "search" /\ UNCHANGED objects
        /\ \E r : End(s, r)
    BY <1>10 DEF NotFound
  <2>2. pc'[s] = "idle"
    BY <1>0, <2>1 DEF End, Goto, TypeOK
  <2>3. Held1(s, p)' = Held1(s, p) /\ opened' = opened
    BY <1>5, <2>1 DEF objects
  <2>4. Open1(s, p) = 0 /\ Open1(s, p)' = 0
    BY <2>1, <2>2 DEF Open1
  <2>q. QED BY <1>1, <1>2, <1>3, <2>3, <2>4
<1>11. CASE SetValue(s)
  <2>1. pc[s] = "setup" /\ UNCHANGED objects
    BY <1>11, SetValueOutcome
  <2>2. pc'[s] \in {"idle", "setup"}
    <3>1. SetRight(s) \/ SetAgain(s) \/ SetWrong(s)
      BY <1>11, SetValueOutcome
    <3>2. CASE SetAgain(s)
      BY <2>1, <3>2 DEF SetAgain
    <3>3. CASE SetRight(s) \/ SetWrong(s)
      <4>1. \E r : End(s, r)
        BY <3>3 DEF SetRight, SetWrong
      <4>q. QED BY <1>0, <4>1 DEF End, Goto, TypeOK
    <3>q. QED BY <3>1, <3>2, <3>3
  <2>3. Held1(s, p)' = Held1(s, p) /\ opened' = opened
    BY <1>5, <2>1 DEF objects
  <2>4. Open1(s, p) = 0 /\ Open1(s, p)' = 0
    BY <2>1, <2>2 DEF Open1
  <2>q. QED BY <1>1, <1>2, <1>3, <2>3, <2>4
<1>12. CASE Ask(s)
  <2>1. pc[s] = "ask" /\ port' = port /\ (UNCHANGED objects \/ Release(s)) /\ \E r : End(s, r)
    BY <1>12 DEF Ask
  <2>2. pc'[s] = "idle"
    BY <1>0, <2>1 DEF End, Goto, TypeOK
  <2>3. Open1(s, p) = 0 /\ Open1(s, p)' = 0
    BY <2>1, <2>2 DEF Open1
  <2>4. CASE UNCHANGED objects
    <3>1. Held1(s, p)' = Held1(s, p) /\ opened' = opened
      BY <1>5, <2>4 DEF objects
    <3>q. QED BY <1>1, <1>2, <1>3, <2>3, <3>1
  <2>5. CASE Release(s)
    <3>1. /\ opened'[s] = [opened[s] EXCEPT ![port[s]] = @ - 1]
          /\ Holders(s, port[s])' = {} /\ Holders(s, port[s]) = {<<Want(s), 1>>}
          /\ \A q \in Ports \ {port[s]} : Holders(s, q)' = Holders(s, q)
      BY <2>1, <2>5, Released, AskedIsHeld
    <3>2. CASE p = port[s]
      <4>1. Held1(s, p)' = 0 /\ Held1(s, p) = 1 /\ opened'[s][p] = opened[s][p] - 1
        BY <1>0, <2>1, <3>1, <3>2 DEF Held1
      <4>q. QED BY <1>1, <1>2, <1>3, <2>3, <4>1
    <3>3. CASE p # port[s]
      <4>1. Held1(s, p)' = Held1(s, p) /\ opened'[s][p] = opened[s][p]
        BY <1>0, <3>1, <3>3 DEF Held1
      <4>q. QED BY <1>1, <1>2, <1>3, <2>3, <4>1
    <3>q. QED BY <3>2, <3>3
  <2>q. QED BY <2>1, <2>4, <2>5
<1>13. CASE Start(s) \/ ReadLine(s) \/ ConfigRead(s) \/ Report(s) \/ ProbeController(s)
            \/ Serial(s) \/ ProbeFwheel(s)
  <2>1. CASE Start(s) \/ ReadLine(s) \/ ConfigRead(s) \/ Report(s)
    BY <1>0, <2>1 DEF Start, ReadLine, ConfigRead, Report
  <2>2. CASE ProbeController(s) \/ ProbeFwheel(s)
    BY <1>0, <2>2 DEF ProbeController, ProbeFwheel, ServerInv, Phases
  <2>3. CASE Serial(s)
    BY <1>0, <2>3 DEF Serial, ServerInv, Phases
  <2>q. QED BY <1>13, <2>1, <2>2, <2>3
<1>q. QED
  BY <1>6, <1>7, <1>8, <1>9, <1>10, <1>11, <1>12, <1>13 DEF ServerStep

(* A server that has started leaks no further port with any step. *)
LEMMA LeaksStep ==
  ASSUME PInv, PInv', [Next]_vars, NEW s \in Servers, NEW p \in Ports,
         pc[s] # "down", ~Starting(s)
  PROVE  Leaked(s, p)' <= Leaked(s, p)
<1>1. CASE Start(s) \/ Crash(s) \/ Receive(s) \/ ServerStep(s)
  BY <1>1, OwnLeaks
<1>2. CASE SameFor(s)
  <2>1. Leaked(s, p)' = Leaked(s, p)
    BY <1>2 DEF SameFor, Leaked, Holders
  <2>2. Leaked(s, p) \in Int
    BY LeakedIs
  <2>q. QED BY <2>1, <2>2
<1>3. SameFor(s) \/ Start(s) \/ Crash(s) \/ Receive(s) \/ ServerStep(s)
  <2>1. CASE Switch
    BY <2>1 DEF Switch, SameFor, objects
  <2>2. ASSUME NEW t \in Servers, t # s, Start(t) \/ Crash(t) \/ Receive(t) \/ ServerStep(t)
        PROVE  SameFor(s)
    BY <2>2, OthersSame DEF PInv
  <2>3. CASE UNCHANGED vars
    BY <2>3 DEF vars, SameFor, objects, doing
  <2>q. QED BY <2>1, <2>2, <2>3 DEF Next
<1>q. QED
  BY <1>1, <1>2, <1>3

(* No port is leaked but by a search at the start. *)
THEOREM NothingLeaksLater == Spec => LeaksOnlyAtStart
<1>1. PInv /\ PInv' /\ [Next]_vars =>
        [\A s \in Servers, p \in Ports :
           pc[s] # "down" /\ ~Starting(s) => Leaked(s, p)' <= Leaked(s, p)]_vars
  BY LeaksStep
<1>q. QED
  BY <1>1, SpecInv, PTL DEF Spec, LeaksOnlyAtStart


-----------------------------------------------------------------------------
(* Why a device is called off. *)

(* The wheels of the configuration file are found by their adapters, and    *)
(* there is one tube and one gauge (the server has one object for each).    *)
Regular(b) ==
  /\ Identified(b)
  /\ \A p \in Ports, n \in Wheels(b) :
       b.plugged[p].kind = "FILTER_WHEEL" /\ b.plugged[p].serial = b.config[n].serial =>
         Text(b, p) = b.config[n].serial
  /\ \A p, q \in Ports :
       b.plugged[p].kind = b.plugged[q].kind /\ b.plugged[p].kind \in {"TUBE", "PRESSURE"} =>
         p = q

(* Would the search take what is at port q? *)
Fits(s, q) ==
  \/ Want(s) \in {"TUBE", "PRESSURE"} /\ plugged[q].kind = Want(s) /\ on[q]
  \/ /\ Want(s) = "CONTROLLER" /\ plugged[q].kind = "CONTROLLER"
     /\ plugged[q].serial = Config[line[s]].serial
  \/ /\ Want(s) = "FILTER_WHEEL" /\ plugged[q].kind # "nothing"
     /\ Text(box, q) = Config[line[s]].serial

(* The ports that a search has passed are in use or do not fit. *)
Passed(s) ==
  pc[s] \in {"search", "probe", "serial"} /\ ~excuse[s] =>
    \A q \in Ports : q < port[s] => used[s][q] \/ ~Fits(s, q)

(* What is looked for is what the line names. *)
Named(s) ==
  pc[s] \in {"search", "probe", "serial", "setup"} /\ Configured(s) =>
    /\ Want(s) = "CONTROLLER" => Last(controller[s]).serial = Config[line[s]].serial
    /\ Want(s) = "FILTER_WHEEL" => Last(fwheel[s]).serial = Config[line[s]].serial

NamedBy(m, mode, serial) == Config[m].mode = mode /\ Config[m].serial = serial

(* A wheel of this line has its port: it is being set up, or could not be. *)
Placed(s) == pc[s] = "setup" \/ (pc[s] # "config" /\ excuse[s])

(* What has a port was named by a line before, or is a wheel of this line. *)
FromLines(s) ==
  /\ \A i \in DOMAIN controller[s] : controller[s][i].port # NoPort =>
       \E m \in 1..Len(Config) :
         m < line[s] /\ NamedBy(m, "CONTROLLER", controller[s][i].serial)
  /\ \A i \in DOMAIN fwheel[s] : fwheel[s][i].port # NoPort =>
       \E m \in 1..Len(Config) :
         /\ m < line[s] \/ (m = line[s] /\ Placed(s))
         /\ NamedBy(m, "FILTER_WHEEL", fwheel[s][i].serial)

(* A device found by the start was on. *)
FoundOn(s) ==
  Starting(s) /\ ~excuse[s] =>
    /\ tube[s] # NoPort => on[tube[s]]
    /\ gauge[s] # NoPort => on[gauge[s]]

Reasoned(s) ==
  reply[s] \in {"failed", "off", "tube_off", "pressure_off"} /\ ~excuse[s] =>
    IF reply[s] = "failed" THEN Missing ELSE Off(Index(cmd[s]))

Why(s) == Passed(s) /\ Named(s) /\ FromLines(s) /\ FoundOn(s) /\ Reasoned(s)

(* Controllers stay on. *)
Lit == \A p \in Ports : plugged[p].kind = "CONTROLLER" => on[p]

Plain == "CONTROLLER" \notin Switchable /\ Alone /\ Regular(box)

OffInv == Plain => Lit /\ \A s \in Servers : Why(s)

(* The box stays as it is. *)
LEMMA BoxSame ==
  ASSUME box' = box
  PROVE  /\ Config' = Config /\ plugged' = plugged /\ Alone' = Alone /\ Regular(box)' = Regular(box)
         /\ Plain' = Plain /\ Missing' = Missing /\ \A q : Text(box, q)' = Text(box, q)
<1>1. Config' = Config /\ plugged' = plugged /\ \A q : Text(box, q)' = Text(box, q)
  BY DEF Config, plugged, Text
<1>2. Alone' = Alone /\ Wheels(box)' = Wheels(box)
  BY DEF Alone, Wheels
<1>3. Missing' = Missing
  BY <1>1 DEF Missing
<1>4. Regular(box)' = Regular(box)
  BY DEF Regular, Identified, Text, Wheels
<1>q. QED
  BY <1>1, <1>2, <1>3, <1>4 DEF Plain

(* What is looked for stays the same. *)
LEMMA WantSame ==
  ASSUME NEW s \in Servers, box' = box, on' = on, line'[s] = line[s], cmd'[s] = cmd[s]
  PROVE  Want(s)' = Want(s) /\ Configured(s)' = Configured(s) /\ \A q : Fits(s, q)' = Fits(s, q)
<1>1. Want(s)' = Want(s) /\ Configured(s)' = Configured(s)
  BY BoxSame DEF Want, Configured
<1>q. QED
  BY <1>1, BoxSame DEF Fits

(* A step of someone else, or at a switch. *)
LEMMA SameWhy ==
  ASSUME NEW s \in Servers, TypeOK, Why(s), SameFor(s), box' = box,
         (on' = on /\ excuse'[s] = excuse[s]) \/ excuse'[s] = TRUE
  PROVE  Why(s)'
<1>1. /\ pc'[s] = pc[s] /\ line'[s] = line[s] /\ port'[s] = port[s] /\ used'[s] = used[s]
      /\ cmd'[s] = cmd[s] /\ controller'[s] = controller[s] /\ fwheel'[s] = fwheel[s]
      /\ tube'[s] = tube[s] /\ gauge'[s] = gauge[s] /\ reply'[s] = reply[s]
      /\ Config' = Config /\ Want(s)' = Want(s) /\ Configured(s)' = Configured(s)
      /\ Starting(s)' = Starting(s) /\ Missing' = Missing
      /\ \A m, mode, serial : NamedBy(m, mode, serial)' = NamedBy(m, mode, serial)
  BY BoxSame DEF SameFor, Want, Configured, Starting, NamedBy
<1>2. Named(s)'
  BY <1>1 DEF Why, Named
<1>3. FromLines(s)'
  <2>1. Placed(s) => Placed(s)'
    BY <1>1 DEF Placed
  <2>q. QED BY <1>1, <2>1 DEF Why, FromLines
<1>4. CASE excuse'[s] = TRUE
  BY <1>2, <1>3, <1>4 DEF Why, Passed, FoundOn, Reasoned
<1>5. CASE on' = on /\ excuse'[s] = excuse[s]
  <2>1. /\ \A q : Fits(s, q)' = Fits(s, q)
        /\ Off(Index(cmd[s]))' = Off(Index(cmd[s]))
    BY <1>1, <1>5, WantSame, BoxSame DEF Off, Index
  <2>2. Passed(s)'
    BY <1>1, <1>5, <2>1 DEF Why, Passed
  <2>3. FoundOn(s)' /\ Reasoned(s)'
    BY <1>1, <1>5, <2>1 DEF Why, FoundOn, Reasoned
  <2>q. QED BY <1>2, <1>3, <2>2, <2>3 DEF Why
<1>q. QED
  BY <1>4, <1>5

(* The names of the lines are what they were. *)
LEMMA NamedSame ==
  ASSUME box' = box
  PROVE  \A m, mode, serial : NamedBy(m, mode, serial)' = NamedBy(m, mode, serial)
  BY BoxSame DEF NamedBy

(* The lists of a server stay as they are, and its line does. *)
LEMMA FromLinesSame ==
  ASSUME PInv, NEW s \in Servers, FromLines(s), box' = box, controller'[s] = controller[s],
         fwheel'[s] = fwheel[s],
         \/ line'[s] = line[s] + 1
         \/ line'[s] = line[s] /\ ~Configured(s)
         \/ line'[s] = line[s] /\ pc[s] = "config"
         \/ /\ line'[s] = line[s] /\ pc'[s] # "config"
            /\ \/ pc[s] # "setup" /\ excuse'[s] = excuse[s]
               \/ excuse'[s] = TRUE
               \/ pc'[s] = "setup"
  PROVE  FromLines(s)'
<1>0. /\ Len(Config) \in Nat /\ line[s] \in 1..(Len(Config) + 1) /\ Config' = Config
      /\ \A m, mode, serial : NamedBy(m, mode, serial)' = NamedBy(m, mode, serial)
  BY Types, BoxSame, NamedSame DEF PInv
<1>1. \A m \in 1..Len(Config) : m < line[s] => m < line'[s]
  BY <1>0
<1>2. \A m \in 1..Len(Config) :
        (m < line[s] \/ (m = line[s] /\ Placed(s)))
          => (m < line'[s] \/ (m = line'[s] /\ Placed(s)'))
  <2>1. CASE line'[s] = line[s] + 1 \/ (line'[s] = line[s] /\ ~Configured(s))
    BY <1>0, <2>1 DEF Configured
  <2>2. CASE line'[s] = line[s] /\ pc[s] = "config"
    BY <2>2 DEF Placed
  <2>3. CASE /\ line'[s] = line[s] /\ pc'[s] # "config"
             /\ \/ pc[s] # "setup" /\ excuse'[s] = excuse[s]
                \/ excuse'[s] = TRUE
                \/ pc'[s] = "setup"
    BY <2>3 DEF Placed
  <2>q. QED BY <2>1, <2>2, <2>3
<1>3. ASSUME NEW i \in DOMAIN controller[s], controller[s][i].port # NoPort
      PROVE  \E m \in 1..Len(Config) :
               m < line'[s] /\ NamedBy(m, "CONTROLLER", controller[s][i].serial)
  BY <1>1, <1>3 DEF FromLines
<1>4. ASSUME NEW i \in DOMAIN fwheel[s], fwheel[s][i].port # NoPort
      PROVE  \E m \in 1..Len(Config) :
               /\ m < line'[s] \/ (m = line'[s] /\ Placed(s)')
               /\ NamedBy(m, "FILTER_WHEEL", fwheel[s][i].serial)
  BY <1>2, <1>4 DEF FromLines
<1>q. QED
  BY <1>0, <1>3, <1>4 DEF FromLines

(* A step that changes only where a server is. *)
LEMMA QuietWhy ==
  ASSUME PInv, NEW s \in Servers, Why(s), box' = box, on' = on,
         UNCHANGED <<used, tube, gauge, controller, fwheel>>, line'[s] = line[s],
         cmd'[s] = cmd[s], excuse'[s] = excuse[s], port'[s] = port[s],
         reply'[s] \in {reply[s], "ok", "on", "error"},
         \/ pc[s] = "search" /\ pc'[s] = "probe"
         \/ pc[s] = "probe" /\ pc'[s] = "serial"
         \/ pc[s] = "config" /\ pc'[s] = "print"
         \/ pc[s] \in {"print", "ask"} /\ pc'[s] = "idle"
         \/ pc[s] = "setup" /\ pc'[s] = "setup"
         \/ pc[s] = "setup" /\ pc'[s] = "idle" /\ ~Configured(s)
  PROVE  Why(s)'
<1>0. /\ Config' = Config /\ Want(s)' = Want(s) /\ Configured(s)' = Configured(s)
      /\ Missing' = Missing
      /\ \A q : Fits(s, q)' = Fits(s, q)
      /\ Len(Config) \in Nat /\ line[s] \in 1..(Len(Config) + 1)
  BY Types, BoxSame, WantSame DEF PInv
<1>1. Passed(s)'
  BY <1>0 DEF Why, Passed
<1>2. Named(s)'
  BY <1>0 DEF Why, Named
<1>3. FromLines(s)'
  BY FromLinesSame DEF Why
<1>4. FoundOn(s)'
  <2>1. Phases(s)
    BY DEF PInv, ServerInv
  <2>2. Starting(s)' => Starting(s)
    BY <1>0, <2>1 DEF Starting, Phases, Configured
  <2>q. QED BY <2>2 DEF Why, FoundOn
<1>5. Reasoned(s)'
  <2>1. Off(Index(cmd[s]))' = Off(Index(cmd[s]))
    BY BoxSame DEF Off, Index
  <2>2. Replied(s)
    BY DEF PInv, ServerInv
  <2>q. QED BY <1>0, <2>1, <2>2 DEF Why, Reasoned, Replied
<1>q. QED
  BY <1>1, <1>2, <1>3, <1>4, <1>5 DEF Why

(* The next line, with the devices as they are. *)
LEMMA LineWhy ==
  ASSUME PInv, NEW s \in Servers, Why(s), box' = box, on' = on, NextLine(s), pc[s] # "idle",
         Configured(s), pc[s] # "down",
         UNCHANGED <<tube, gauge, controller, fwheel>>, reply'[s] = reply[s], excuse'[s] = excuse[s]
  PROVE  Why(s)'
<1>0. /\ TypeOK /\ pc'[s] = "config" /\ line'[s] = line[s] + 1 /\ reply[s] = "none"
  BY DEF PInv, ServerInv, Replied, NextLine, Goto, TypeOK
<1>1. Passed(s)' /\ Named(s)' /\ Reasoned(s)'
  BY <1>0 DEF Passed, Named, Reasoned
<1>2. FromLines(s)'
  BY <1>0, FromLinesSame DEF Why
<1>3. FoundOn(s)'
  <2>1. Starting(s)
    BY DEF Starting, Configured
  <2>q. QED BY <2>1 DEF Why, FoundOn
<1>q. QED
  BY <1>1, <1>2, <1>3 DEF Why

(* The ports that a search passes over are in use or empty. *)
LEMMA PassedOver ==
  ASSUME TypeOK, NEW s \in Servers, NEW p \in Nat, SearchFrom(s, p)
  PROVE  /\ pc'[s] = "search" /\ port'[s] \in p..NumPorts
         /\ \A q \in Ports : p <= q /\ q < port'[s] => used[s][q] \/ plugged[q].kind = "nothing"
<1>1. PICK x \in p..NumPorts :
        /\ port' = [port EXCEPT ![s] = x]
        /\ \A r \in p..NumPorts : r < x => ~Candidate(s, r)
  BY SearchStops
<1>2. port'[s] = x /\ pc'[s] = "search"
  BY <1>1, SearchStops DEF TypeOK
<1>3. NumPorts \in Nat
  BY PortsAssumption
<1>4. ASSUME NEW q \in Ports, p <= q, q < port'[s]
      PROVE  used[s][q] \/ plugged[q].kind = "nothing"
  <2>1. q \in p..NumPorts
    BY <1>3, <1>4 DEF Ports
  <2>q. QED BY <1>1, <1>2, <1>4, <2>1 DEF Candidate
<1>q. QED
  BY <1>1, <1>2, <1>4

(* An empty port fits nothing. *)
LEMMA EmptyFitsNot ==
  ASSUME NEW s \in Servers, NEW q, plugged[q].kind = "nothing"
  PROVE  ~Fits(s, q)
  BY DEF Fits

(* The search goes on for the same device. *)
LEMMA SkipWhy ==
  ASSUME PInv, NEW s \in Servers, Why(s), SearchFrom(s, port[s] + 1), box' = box, on' = on,
         UNCHANGED <<used, tube, gauge, controller, fwheel>>, line'[s] = line[s], cmd'[s] = cmd[s],
         reply'[s] = reply[s], pc[s] \in {"probe", "serial"}, excuse'[s] = excuse[s], 
         ~excuse[s] => ~Fits(s, port[s])
  PROVE  Why(s)'
<1>0. /\ Config' = Config /\ Want(s)' = Want(s) /\ Configured(s)' = Configured(s)
      /\ \A q : Fits(s, q)' = Fits(s, q)
      /\ NumPorts \in Nat /\ port[s] \in 0..NumPorts
  BY Types, BoxSame, WantSame DEF PInv
<1>1. /\ pc'[s] = "search" /\ reply[s] = "none"
      /\ \A q \in Ports : port[s] + 1 <= q /\ q < port'[s] => used[s][q] \/ plugged[q].kind = "nothing"
  <2>1. port[s] + 1 \in Nat
    BY <1>0
  <2>q. QED BY <2>1, PassedOver DEF PInv, ServerInv, Replied
<1>2. Passed(s)'
  <2> SUFFICES ASSUME ~excuse[s], NEW q \in Ports, q < port'[s]
               PROVE  used[s][q] \/ ~Fits(s, q)
    BY <1>0 DEF Passed
  <2>1. q < port[s] \/ q = port[s] \/ port[s] + 1 <= q
    BY <1>0 DEF Ports
  <2>q. QED BY <1>1, <2>1, EmptyFitsNot DEF Why, Passed
<1>3. Named(s)'
  BY <1>0, <1>1 DEF Why, Named
<1>4. FromLines(s)'
  BY <1>1, FromLinesSame DEF Why
<1>5. FoundOn(s)' /\ Reasoned(s)'
  BY <1>0, <1>1 DEF Why, FoundOn, Reasoned, Starting
<1>q. QED
  BY <1>2, <1>3, <1>4, <1>5 DEF Why

(* A server that goes down has a reason to. *)
LEMMA DownWhy ==
  ASSUME PInv, NEW s \in Servers, NEW r \in {"none", "failed"}, Down(s, r),
         r = "failed" /\ ~excuse[s] => Missing
  PROVE  Why(s)'
<1>0. /\ pc'[s] = "down" /\ controller'[s] = << >> /\ fwheel'[s] = << >> /\ reply'[s] = r
      /\ box' = box /\ excuse' = excuse
  BY DEF PInv, TypeOK, Down, Goto, world
<1>1. Missing' = Missing
  BY <1>0, BoxSame
<1>q. QED
  BY <1>0, <1>1 DEF Why, Passed, Named, FromLines, FoundOn, Reasoned, Starting

(* A server that starts has found nothing yet. *)
LEMMA StartWhy ==
  ASSUME PInv, NEW s \in Servers, Start(s)
  PROVE  Why(s)'
<1>0. /\ pc'[s] = "config" /\ reply'[s] = "none" /\ controller'[s] = << >> /\ fwheel'[s] = << >>
      /\ tube'[s] = NoPort /\ gauge'[s] = NoPort
  BY DEF PInv, ServerInv, Phases, TypeOK, Start, Goto, objects
<1>q. QED
  BY <1>0 DEF Why, Passed, Named, FromLines, FoundOn, Reasoned

(* Alone, a device that is not heard does not answer. *)
LEMMA UnheardIs ==
  ASSUME PInv, Alone, NEW s \in Servers, s \in box.servers, NEW p \in Ports, NEW k,
         NEW a \in Heard(s, p, k)
  PROVE  a \in BOOLEAN /\ (a <=> Answers(p, k))
<1>1. \A t \in Servers \ {s} : ~Asking(t, p)
  BY AloneIs DEF Asking
<1>q. QED
  BY <1>1 DEF Heard

(* A port in use has another device than the one looked for. *)
LEMMA UsedFitsNot ==
  ASSUME PInv, Plain, NEW s \in Servers, Why(s), pc[s] = "search", ~excuse[s],
         NEW q \in Ports, used[s][q]
  PROVE  ~Fits(s, q)
<1>0. /\ TypeOK /\ ServerInv(s) /\ Identified(box) /\ RightDevice /\ q # NoPort
      /\ Want(s) \in InterfaceIndex /\ line[s] \in 1..(Len(Config) + 1) /\ Len(Config) \in Nat
  BY RightIs, WantIs, Types DEF PInv, Plain, Regular, Ports, NoPort
<1> SUFFICES ASSUME Fits(s, q) PROVE FALSE
  OBVIOUS
<1>1. PICK h \in Holders(s, q) : TRUE
  BY <1>0 DEF ServerInv, Marked
<1>2. /\ plugged[q].kind = h[1]
      /\ h[1] = "CONTROLLER" => plugged[q].serial = controller[s][h[2]].serial
      /\ h[1] = "FILTER_WHEEL" => plugged[q].serial = fwheel[s][h[2]].serial
  BY <1>0 DEF RightDevice
<1>3. CASE Want(s) = "TUBE"
  <2>1. h[1] = "TUBE" /\ tube[s] = NoPort
    BY <1>0, <1>2, <1>3 DEF Fits, ServerInv, Looking
  <2>q. QED BY <1>0, <2>1, HolderIs
<1>4. CASE Want(s) = "PRESSURE"
  <2>1. h[1] = "PRESSURE" /\ gauge[s] = NoPort
    BY <1>0, <1>2, <1>4 DEF Fits, ServerInv, Looking
  <2>q. QED BY <1>0, <2>1, HolderIs
<1>5. ASSUME Want(s) \in {"CONTROLLER", "FILTER_WHEEL"}
      PROVE  Configured(s) /\ line[s] \in 1..Len(Config) /\ Config[line[s]].mode = Want(s)
  <2>1. Configured(s)
    BY <1>0, <1>5 DEF ServerInv, Phases
  <2>q. QED BY <1>0, <2>1 DEF Configured, Want
<1>6. ASSUME NEW m \in 1..Len(Config), m < line[s], Want(s) \in {"CONTROLLER", "FILTER_WHEEL"},
             NamedBy(m, Want(s), Config[line[s]].serial)
      PROVE  FALSE
  <2>1. box \in Boxes /\ DOMAIN Config = 1..Len(Config)
        /\ \A n \in 1..Len(Config) : Config[n] \in [mode : InterfaceIndex, serial : Serials]
    BY <1>0, Types, SeqIs DEF TypeOK
  <2>2. Config[m].mode = Config[line[s]].mode /\ Config[m].serial = Config[line[s]].serial
    BY <1>5, <1>6 DEF NamedBy
  <2>3. Config[m] = Config[line[s]]
    BY <1>5, <1>6, <2>1, <2>2
  <2>4. m = line[s]
    BY <1>5, <1>6, <2>1, <2>2, <2>3, PortsAssumption DEF Config
  <2>q. QED BY <1>0, <1>6, <2>4
<1>7. CASE Want(s) = "CONTROLLER"
  <2>1. h[1] = "CONTROLLER" /\ plugged[q].serial = Config[line[s]].serial
    BY <1>2, <1>7 DEF Fits
  <2>2. PICK i \in DOMAIN controller[s] : h = <<"CONTROLLER", i>> /\ controller[s][i].port = q
    BY <2>1, HolderIs
  <2>3. controller[s][i].serial = Config[line[s]].serial
    BY <1>2, <2>1, <2>2
  <2>4. PICK m \in 1..Len(Config) : m < line[s] /\ NamedBy(m, "CONTROLLER", controller[s][i].serial)
    BY <1>0, <2>2 DEF Why, FromLines
  <2>q. QED BY <1>6, <1>7, <2>3, <2>4
<1>8. CASE Want(s) = "FILTER_WHEEL"
  <2>1. plugged[q].kind # "nothing" /\ Text(box, q) = Config[line[s]].serial
    BY <1>8 DEF Fits
  <2>2. line[s] \in Wheels(box)
    BY <1>0, <1>5, <1>8, WheelsAre
  <2>3. plugged[q].kind = "FILTER_WHEEL" /\ plugged[q].serial = Config[line[s]].serial
    BY <1>0, <2>1, <2>2 DEF Identified, plugged, Config
  <2>4. PICK i \in DOMAIN fwheel[s] : h = <<"FILTER_WHEEL", i>> /\ fwheel[s][i].port = q
    <3>1. h[1] = "FILTER_WHEEL"
      BY <1>2, <2>3
    <3>q. QED BY <3>1, HolderIs
  <2>5. fwheel[s][i].serial = Config[line[s]].serial
    BY <1>2, <2>3, <2>4
  <2>6. ~Placed(s)
    BY DEF Placed
  <2>7. PICK m \in 1..Len(Config) : m < line[s] /\ NamedBy(m, "FILTER_WHEEL", fwheel[s][i].serial)
    BY <1>0, <2>4, <2>6 DEF Why, FromLines
  <2>q. QED BY <1>6, <1>8, <2>5, <2>7
<1>q. QED
  BY <1>0, <1>3, <1>4, <1>7, <1>8 DEF InterfaceIndex

(* At the end of a search nothing fits. *)
LEMMA NothingFits ==
  ASSUME PInv, Plain, NEW s \in Servers, Why(s), pc[s] = "search", port[s] = NumPorts, ~excuse[s],
         NEW q \in Ports
  PROVE  ~Fits(s, q)
<1>1. q < port[s]
  BY PortsAssumption DEF Ports
<1>q. QED
  BY <1>1, UsedFitsNot DEF Why, Passed

(* A tube or gauge not found is off. *)
LEMMA SoughtIsOff ==
  ASSUME PInv, Plain, NEW s \in Servers, Why(s), pc[s] = "search", port[s] = NumPorts, ~excuse[s],
         Want(s) \in {"TUBE", "PRESSURE"}
  PROVE  Off(Want(s))
  BY NothingFits DEF Off, Fits

(* A controller or wheel not found is missing. *)
LEMMA SoughtIsMissing ==
  ASSUME PInv, Plain, NEW s \in Servers, Why(s), pc[s] = "search", port[s] = NumPorts, ~excuse[s],
         Want(s) \notin {"TUBE", "PRESSURE"}
  PROVE  Missing
<1>0. /\ TypeOK /\ ServerInv(s) /\ Regular(box)
      /\ Want(s) \in {"CONTROLLER", "FILTER_WHEEL"}
      /\ line[s] \in 1..(Len(Config) + 1) /\ Len(Config) \in Nat
  BY WantIs, Types DEF PInv, Plain, InterfaceIndex
<1>1. Configured(s)
  BY <1>0 DEF ServerInv, Phases
<1>2. line[s] \in 1..Len(Config) /\ Config[line[s]].mode = Want(s)
  BY <1>0, <1>1 DEF Configured, Want
<1>3. ASSUME NEW p \in Ports, plugged[p].kind = Want(s), plugged[p].serial = Config[line[s]].serial
      PROVE  FALSE
  <2>1. CASE Want(s) = "CONTROLLER"
    BY <1>3, <2>1, NothingFits DEF Fits
  <2>2. CASE Want(s) = "FILTER_WHEEL"
    <3>1. line[s] \in Wheels(box)
      BY <1>0, <1>2, <2>2, WheelsAre
    <3>2. Text(box, p) = Config[line[s]].serial
      BY <1>0, <1>3, <2>2, <3>1 DEF Regular, plugged, Config
    <3>q. QED BY <1>3, <2>2, <3>2, NothingFits DEF Fits
  <2>q. QED BY <1>0, <2>1, <2>2
<1>q. QED
  BY <1>0, <1>2, <1>3 DEF Missing

(* A search that has found nothing. *)
LEMMA NotFoundWhy ==
  ASSUME PInv, Plain, NEW s \in Servers, Why(s), NotFound(s)
  PROVE  Why(s)'
<1>0. TypeOK /\ ServerInv(s) /\ pc[s] = "search" /\ port[s] = NumPorts /\ (Starting(s) <=> Configured(s))
  BY StartingIs DEF PInv, NotFound
<1>1. CASE Configured(s) /\ Want(s) \notin {"TUBE", "PRESSURE"}
  <2>1. Down(s, "failed")
    BY <1>0, <1>1 DEF NotFound
  <2>2. ~excuse[s] => Missing
    BY <1>0, <1>1, SoughtIsMissing
  <2>q. QED BY <2>1, <2>2, DownWhy
<1>2. CASE Configured(s) /\ Want(s) \in {"TUBE", "PRESSURE"}
  <2>1. NextLine(s) /\ UNCHANGED <<world, objects, port, tries, cmd, reply, excuse>>
    BY <1>0, <1>2 DEF NotFound
  <2>2. /\ box' = box /\ on' = on /\ UNCHANGED <<tube, gauge, controller, fwheel>>
        /\ reply'[s] = reply[s] /\ excuse'[s] = excuse[s]
    BY <2>1 DEF world, objects
  <2>q. QED BY <1>0, <1>2, <2>1, <2>2, LineWhy
<1>3. CASE ~Configured(s)
  <2>0. Want(s) \in {"TUBE", "PRESSURE"} /\ Want(s) = Index(cmd[s])
    BY <1>0, <1>3, WantIs DEF ServerInv, Phases
  <2>1. /\ pc' = [pc EXCEPT ![s] = "idle"]
        /\ UNCHANGED <<world, objects, line, port, tries, cmd, excuse>>
        /\ \E r \in {"off", "tube_off", "pressure_off"} : reply' = [reply EXCEPT ![s] = r]
    BY <1>0, <1>3 DEF NotFound, End, Goto
  <2>2. /\ pc'[s] = "idle" /\ reply'[s] \in {"off", "tube_off", "pressure_off"}
        /\ box' = box /\ on' = on /\ line'[s] = line[s] /\ excuse'[s] = excuse[s] /\ cmd' = cmd
        /\ controller'[s] = controller[s] /\ fwheel'[s] = fwheel[s]
    BY <1>0, <2>1 DEF TypeOK, world, objects
  <2>3. Passed(s)' /\ Named(s)'
    BY <2>2 DEF Passed, Named
  <2>4. FromLines(s)'
    BY <1>3, <2>2, FromLinesSame DEF Why
  <2>5. FoundOn(s)'
    <3>1. ~Starting(s)'
      BY <1>3, <2>2, BoxSame DEF Starting, Configured
    <3>q. QED BY <3>1 DEF FoundOn
  <2>6. Reasoned(s)'
    <3>1. ~excuse[s] => Off(Index(cmd[s]))
      BY <1>0, <2>0, SoughtIsOff
    <3>2. Off(Index(cmd[s]))' = Off(Index(cmd[s]))
      BY <2>2, BoxSame DEF Off, Index
    <3>q. QED BY <2>2, <3>1, <3>2 DEF Reasoned
  <2>q. QED BY <2>3, <2>4, <2>5, <2>6 DEF Why
<1>q. QED
  BY <1>1, <1>2, <1>3

(* A device that has a port was heard, or is off. *)
LEMMA HeldIsOff ==
  ASSUME PInv, Plain, NEW s \in Servers, s \in box.servers, NEW p \in Ports,
         NEW k \in {"TUBE", "PRESSURE"}, <<k, 1>> \in Holders(s, p), FALSE \in Heard(s, p, k)
  PROVE  ~on[p] /\ Off(k)
<1>1. RightDevice /\ Alone /\ Speeds(s) /\ ~Answers(p, k)
  BY RightIs, UnheardIs DEF PInv, ServerInv, Plain, Regular
<1>2. plugged[p].kind = k
  BY <1>1 DEF RightDevice
<1>3. speed[p] = Settings(k)
  BY <1>1 DEF Speeds
<1>4. ~on[p]
  BY <1>1, <1>2, <1>3 DEF Answers
<1>5. \A q \in Ports : plugged[q].kind = k => q = p
  BY <1>2 DEF Plain, Regular, plugged
<1>q. QED
  BY <1>4, <1>5 DEF Off

(* The end of the constructor. *)
LEMMA ReportWhy ==
  ASSUME PInv, Plain, NEW s \in Servers, s \in box.servers, Why(s), Report(s)
  PROVE  Why(s)'
<1>0. TypeOK /\ ServerInv(s) /\ pc[s] = "print" /\ Starting(s)
  BY DEF PInv, Report, Starting
<1>1. PICK t \in (IF tube[s] = NoPort THEN {TRUE} ELSE Heard(s, tube[s], "TUBE")),
           g \in (IF gauge[s] = NoPort THEN {TRUE} ELSE Heard(s, gauge[s], "PRESSURE")) :
        IF t /\ g
        THEN Goto(s, "idle") /\ UNCHANGED <<world, objects, line, port, tries, cmd, reply, excuse>>
        ELSE Down(s, "failed")
  BY DEF Report
<1>2. CASE t /\ g
  <2>1. /\ pc'[s] = "idle" /\ box' = box /\ on' = on
        /\ UNCHANGED <<used, tube, gauge, controller, fwheel, line, cmd, excuse, port, reply>>
    BY <1>0, <1>1, <1>2 DEF Goto, TypeOK, world, objects
  <2>q. QED BY <1>0, <2>1, QuietWhy
<1>3. CASE ~(t /\ g)
  <2>1. Down(s, "failed")
    BY <1>1, <1>3
  <2>2. excuse[s]
    <3>1. SUFFICES ASSUME ~excuse[s] PROVE FALSE
      BY <1>0 DEF TypeOK
    <3>2. /\ tube[s] # NoPort => tube[s] \in Ports /\ on[tube[s]]
          /\ gauge[s] # NoPort => gauge[s] \in Ports /\ on[gauge[s]]
      BY <1>0, <3>1 DEF TypeOK, Why, FoundOn
    <3>3. tube[s] # NoPort => FALSE \notin Heard(s, tube[s], "TUBE")
      <4>1. tube[s] # NoPort => <<"TUBE", 1>> \in Holders(s, tube[s])
        BY <3>2, HolderIs
      <4>q. QED BY <3>2, <4>1, HeldIsOff
    <3>4. gauge[s] # NoPort => FALSE \notin Heard(s, gauge[s], "PRESSURE")
      <4>1. gauge[s] # NoPort => <<"PRESSURE", 1>> \in Holders(s, gauge[s])
        BY <3>2, HolderIs
      <4>q. QED BY <3>2, <4>1, HeldIsOff
    <3>5. t = TRUE
      <4>1. t \in BOOLEAN
        BY <1>1 DEF Heard
      <4>q. QED BY <1>1, <3>3, <4>1
    <3>6. g = TRUE
      <4>1. g \in BOOLEAN
        BY <1>1 DEF Heard
      <4>q. QED BY <1>1, <3>4, <4>1
    <3>q. QED BY <1>3, <3>5, <3>6
  <2>q. QED BY <2>1, <2>2, DownWhy
<1>q. QED
  BY <1>2, <1>3

(* A command that asks the tube or the gauge. *)
LEMMA AskWhy ==
  ASSUME PInv, Plain, NEW s \in Servers, s \in box.servers, Why(s), Ask(s)
  PROVE  Why(s)'
<1>0. TypeOK /\ ServerInv(s) /\ pc[s] = "ask" /\ UNCHANGED <<world, line, port, tries, cmd, excuse>>
  BY DEF PInv, Ask
<1>1. PICK a \in Heard(s, port[s], Want(s)) :
        IF a
        THEN /\ End(s, IF cmd[s].op \in {"istube", "ispressure"} THEN "on" ELSE "ok")
             /\ UNCHANGED objects
        ELSE IF cmd[s].op = "ispressure" THEN End(s, "off") /\ UNCHANGED objects
        ELSE End(s, IF Want(s) = "TUBE" THEN "tube_off" ELSE "pressure_off") /\ Release(s)
  BY DEF Ask
<1>2. /\ port[s] \in Ports /\ ~Configured(s) /\ Want(s) = Index(cmd[s])
      /\ Want(s) \in {"TUBE", "PRESSURE"} /\ <<Want(s), 1>> \in Holders(s, port[s])
  BY <1>0, AskedIsHeld
<1>3. /\ pc'[s] = "idle" /\ box' = box /\ on' = on /\ line'[s] = line[s] /\ excuse'[s] = excuse[s]
      /\ cmd' = cmd /\ controller' = controller /\ fwheel' = fwheel
  <2>1. \E r : End(s, r)
    BY <1>1
  <2>2. controller' = controller /\ fwheel' = fwheel
    BY <1>1 DEF objects, Release
  <2>q. QED BY <1>0, <2>1, <2>2 DEF End, Goto, TypeOK, world
<1>4. Passed(s)' /\ Named(s)'
  BY <1>3 DEF Passed, Named
<1>5. FromLines(s)'
  BY <1>2, <1>3, FromLinesSame DEF Why
<1>6. FoundOn(s)'
  <2>1. ~Starting(s)'
    BY <1>2, <1>3, BoxSame DEF Starting, Configured
  <2>q. QED BY <2>1 DEF FoundOn
<1>7. Reasoned(s)'
  <2>1. a \in BOOLEAN
    BY <1>1 DEF Heard
  <2>2. CASE a
    <3>1. \E r \in {"on", "ok"} : End(s, r)
      BY <1>1, <2>2
    <3>2. reply'[s] \in {"on", "ok"}
      BY <1>0, <3>1 DEF End, TypeOK
    <3>q. QED BY <3>2 DEF Reasoned
  <2>3. CASE ~a
    <3>1. Off(Index(cmd[s]))
      <4>1. FALSE \in Heard(s, port[s], Want(s))
        BY <1>1, <2>1, <2>3
      <4>q. QED BY <1>2, <4>1, HeldIsOff
    <3>2. \E r \in {"off", "tube_off", "pressure_off"} : End(s, r)
      BY <1>1, <2>3
    <3>3. reply'[s] # "failed"
      BY <1>0, <3>2 DEF End, TypeOK
    <3>4. Off(Index(cmd[s]))' = Off(Index(cmd[s]))
      BY <1>3, BoxSame DEF Off, Index
    <3>q. QED BY <3>1, <3>3, <3>4 DEF Reasoned
  <2>q. QED BY <2>1, <2>2, <2>3
<1>q. QED
  BY <1>4, <1>5, <1>6, <1>7 DEF Why

(* A tube or gauge that is found is on. *)
LEMMA TakeWhy ==
  ASSUME PInv, NEW s \in Servers, Why(s), pc[s] = "probe", Want(s) \in {"TUBE", "PRESSURE"},
         on[port[s]], Take(s), UNCHANGED <<world, cmd, excuse>>
  PROVE  Why(s)'
<1>0. /\ TypeOK /\ ServerInv(s) /\ (Starting(s) <=> Configured(s)) /\ reply[s] = "none"
      /\ box' = box /\ on' = on /\ excuse' = excuse /\ cmd' = cmd
      /\ controller' = controller /\ fwheel' = fwheel
  BY StartingIs DEF PInv, ServerInv, Replied, Take, world
<1>1. /\ tube'[s] = IF Want(s) = "TUBE" THEN port[s] ELSE tube[s]
      /\ gauge'[s] = IF Want(s) = "PRESSURE" THEN port[s] ELSE gauge[s]
  BY <1>0 DEF Take, TypeOK
<1>2. CASE Configured(s)
  <2>1. NextLine(s) /\ reply' = reply
    BY <1>0, <1>2 DEF Take
  <2>2. pc'[s] = "config" /\ line'[s] = line[s] + 1 /\ reply'[s] = "none"
    BY <1>0, <2>1 DEF NextLine, Goto, TypeOK
  <2>3. FoundOn(s)'
    BY <1>0, <1>1, <1>2 DEF Why, FoundOn
  <2>4. FromLines(s)'
    BY <1>0, <2>2, FromLinesSame DEF Why
  <2>q. QED BY <2>2, <2>3, <2>4 DEF Why, Passed, Named, Reasoned
<1>3. CASE ~Configured(s)
  <2>1. /\ line' = line
        /\ \/ End(s, "on") \/ End(s, "ok")
           \/ Goto(s, "ask") /\ reply' = reply
    BY <1>0, <1>3 DEF Take
  <2>2. line'[s] = line[s] /\ pc'[s] \in {"idle", "ask"} /\ reply'[s] \in {"on", "ok", "none"}
    BY <1>0, <2>1 DEF End, Goto, TypeOK
  <2>3. FoundOn(s)'
    <3>1. ~Starting(s)'
      BY <1>0, <1>3, <2>2, BoxSame DEF Starting, Configured
    <3>q. QED BY <3>1 DEF FoundOn
  <2>4. FromLines(s)'
    BY <1>0, <1>3, <2>2, FromLinesSame DEF Why
  <2>q. QED BY <2>2, <2>3, <2>4 DEF Why, Passed, Named, Reasoned
<1>q. QED
  BY <1>2, <1>3

(* A port that does not fit is closed or forgotten. *)
LEMMA PassWhy ==
  ASSUME PInv, NEW s \in Servers, Why(s), pc[s] \in {"probe", "serial"}, Close(s) \/ Forget(s),
         UNCHANGED <<world, cmd, excuse>>, ~excuse[s] => ~Fits(s, port[s])
  PROVE  Why(s)'
<1>1. /\ SearchFrom(s, port[s] + 1) /\ box' = box /\ on' = on
      /\ UNCHANGED <<used, tube, gauge, controller, fwheel>> /\ line' = line /\ cmd' = cmd
      /\ reply' = reply /\ excuse' = excuse
  BY DEF Close, Forget, NextPort, world, objects
<1>q. QED
  BY <1>1, SkipWhy

(* Probing a port. *)
LEMMA ProbeWhy ==
  ASSUME PInv, Plain, NEW s \in Servers, s \in box.servers, Why(s), Lit,
         Probe(s) \/ ProbeController(s)
  PROVE  Why(s)'
<1> DEFINE k == Want(s)
<1>0. /\ TypeOK /\ pc[s] = "probe" /\ UNCHANGED <<world, cmd, excuse>> /\ Alone
      /\ port[s] \in Ports /\ speed[port[s]] = Settings(k)
      /\ k \in {"TUBE", "PRESSURE", "CONTROLLER"}
  BY DEF PInv, ServerInv, Looking, Speeds, Plain, Probe, ProbeController
<1>1. PICK a \in Heard(s, port[s], k) :
        /\ a => \/ k \in {"TUBE", "PRESSURE"} /\ Take(s)
                \/ Goto(s, "serial") /\ UNCHANGED <<objects, line, port, tries, reply>>
        /\ ~a => Close(s)
  BY DEF Probe, ProbeController
<1>2. a \in BOOLEAN /\ (a <=> Answers(port[s], k))
  BY <1>0, UnheardIs
<1>3. CASE ~a
  <2>1. ~Fits(s, port[s])
    BY <1>0, <1>2, <1>3 DEF Answers, Fits, Lit
  <2>q. QED BY <1>0, <1>1, <1>3, <2>1, PassWhy
<1>4. CASE a /\ k \in {"TUBE", "PRESSURE"} /\ Take(s)
  BY <1>0, <1>2, <1>4, TakeWhy DEF Answers
<1>5. CASE Goto(s, "serial") /\ UNCHANGED <<objects, line, port, tries, reply>>
  <2>1. /\ pc'[s] = "serial" /\ box' = box /\ on' = on
        /\ UNCHANGED <<used, tube, gauge, controller, fwheel, line, cmd, excuse, port, reply>>
    BY <1>0, <1>5 DEF Goto, TypeOK, world, objects
  <2>q. QED BY <1>0, <2>1, QuietWhy
<1>q. QED
  BY <1>1, <1>2, <1>3, <1>4, <1>5

(* Asking a controller for its serial number. *)
LEMMA SerialWhy ==
  ASSUME PInv, Plain, NEW s \in Servers, s \in box.servers, Why(s), Serial(s)
  PROVE  Why(s)'
<1>0. /\ TypeOK /\ ServerInv(s) /\ pc[s] = "serial" /\ UNCHANGED <<world, cmd, excuse>> /\ Alone
      /\ port[s] \in Ports /\ Configured(s) /\ Want(s) = "CONTROLLER" /\ controller[s] # << >>
      /\ Starting(s)
      /\ controller[s] \in Seq(Item) /\ line[s] \in 1..Len(Config) /\ Len(Config) \in Nat
  <2>1. TypeOK /\ ServerInv(s) /\ pc[s] = "serial" /\ UNCHANGED <<world, cmd, excuse>> /\ Alone
    BY DEF PInv, Plain, Serial
  <2>2. port[s] \in Ports /\ Configured(s) /\ Want(s) = "CONTROLLER" /\ controller[s] # << >>
    BY <2>1 DEF ServerInv, Looking, Phases
  <2>3. controller[s] \in Seq(Item) /\ line[s] \in 1..(Len(Config) + 1) /\ Len(Config) \in Nat
    BY <2>1, Types
  <2>q. QED BY <2>1, <2>2, <2>3, StartingIs DEF Configured
<1>1. PICK a \in Heard(s, port[s], "CONTROLLER") :
        IF a /\ SerialMatches(s, plugged[port[s]].serial)
        THEN /\ Mark(s) /\ controller' = SetInterface(controller, s)
             /\ NextLine(s)
             /\ UNCHANGED <<tube, gauge, fwheel, opened, port, tries, reply>>
        ELSE Answers(port[s], "CONTROLLER") /\ Forget(s)
  BY DEF Serial
<1>2. a <=> Answers(port[s], "CONTROLLER")
  BY <1>0, UnheardIs
<1>3. Last(controller[s]).serial = Config[line[s]].serial
  BY <1>0 DEF Why, Named
<1>4. CASE ~(a /\ SerialMatches(s, plugged[port[s]].serial))
  <2>1. Answers(port[s], "CONTROLLER") /\ Forget(s)
    BY <1>1, <1>4
  <2>2. plugged[port[s]].serial # Last(controller[s]).serial
    BY <1>0, <1>2, <1>4, <2>1 DEF SerialMatches
  <2>3. ~Fits(s, port[s])
    BY <1>0, <1>3, <2>2 DEF Fits
  <2>q. QED BY <1>0, <2>1, <2>3, PassWhy
<1>5. CASE a /\ SerialMatches(s, plugged[port[s]].serial)
  <2> DEFINE n == Len(controller[s])
  <2>1. /\ NextLine(s) /\ UNCHANGED <<tube, gauge, fwheel, reply>> /\ box' = box /\ on' = on
        /\ excuse' = excuse /\ controller' = SetInterface(controller, s)
    BY <1>0, <1>1, <1>5 DEF world
  <2>2. /\ pc'[s] = "config" /\ line'[s] = line[s] + 1 /\ reply'[s] = "none"
        /\ controller'[s] = [controller[s] EXCEPT ![n].port = port[s]]
    BY <1>0, <2>1 DEF NextLine, Goto, TypeOK, SetInterface, ServerInv, Replied
  <2>3. /\ n \in 1..n /\ DOMAIN controller[s] = 1..n /\ DOMAIN controller'[s] = 1..n
        /\ controller'[s][n].serial = controller[s][n].serial
        /\ \A i \in 1..n : i # n => controller'[s][i] = controller[s][i]
    BY <1>0, <2>2, LastSet
  <2>4. Config' = Config /\ \A m, mode,
        serial : NamedBy(m, mode, serial)' = NamedBy(m, mode, serial)
    BY <2>1, BoxSame, NamedSame
  <2>5. NamedBy(line[s], "CONTROLLER", controller[s][n].serial)
    BY <1>0, <1>3 DEF NamedBy, Last, Want, Configured
  <2> HIDE DEF n
  <2>6. ASSUME NEW i \in DOMAIN controller'[s], controller'[s][i].port # NoPort
        PROVE  \E m \in 1..Len(Config) :
                 m < line[s] + 1 /\ NamedBy(m, "CONTROLLER", controller'[s][i].serial)
    <3>1. CASE i = n
      BY <1>0, <2>3, <2>5, <3>1
    <3>2. CASE i # n
      <4>1. i \in DOMAIN controller[s] /\ controller'[s][i] = controller[s][i]
        BY <2>3, <2>6, <3>2
      <4>2. PICK m \in 1..Len(Config) : m < line[s] /\ NamedBy(m, "CONTROLLER", controller[s][i].serial)
        BY <2>6, <4>1 DEF Why, FromLines
      <4>3. m < line[s] + 1
        BY <1>0, <4>2
      <4>q. QED BY <4>1, <4>2, <4>3
    <3>q. QED BY <3>1, <3>2
  <2>7. ASSUME NEW i \in DOMAIN fwheel[s], fwheel[s][i].port # NoPort
        PROVE  \E m \in 1..Len(Config) :
                 m < line[s] + 1 /\ NamedBy(m, "FILTER_WHEEL", fwheel[s][i].serial)
    <3>1. PICK m \in 1..Len(Config) : m <= line[s] /\ NamedBy(m, "FILTER_WHEEL", fwheel[s][i].serial)
      <4>1. \A m \in 1..Len(Config) : m < line[s] \/ (m = line[s] /\ Placed(s)) => m <= line[s]
        BY <1>0
      <4>q. QED BY <2>7, <4>1 DEF Why, FromLines
    <3>2. m < line[s] + 1
      BY <1>0, <3>1
    <3>q. QED BY <3>1, <3>2
  <2>8. FromLines(s)'
    BY <2>1, <2>2, <2>4, <2>6, <2>7 DEF FromLines
  <2>9. FoundOn(s)'
    BY <1>0, <2>1 DEF Why, FoundOn
  <2>q. QED BY <2>2, <2>8, <2>9 DEF Why, Passed, Named, Reasoned
<1>q. QED
  BY <1>4, <1>5

(* Looking for a wheel by its adapter. *)
LEMMA ProbeFwheelWhy ==
  ASSUME PInv, NEW s \in Servers, Why(s), ProbeFwheel(s)
  PROVE  Why(s)'
<1>0. /\ TypeOK /\ pc[s] = "probe" /\ UNCHANGED <<world, cmd, excuse>>
      /\ port[s] \in Ports /\ Configured(s) /\ Want(s) = "FILTER_WHEEL" /\ fwheel[s] # << >>
      /\ fwheel[s] \in Seq(Item) /\ line[s] \in 1..Len(Config) /\ Len(Config) \in Nat
      /\ reply[s] = "none"
  <2>1. TypeOK /\ ServerInv(s) /\ pc[s] = "probe" /\ UNCHANGED <<world, cmd, excuse>> /\ Want(s) = "FILTER_WHEEL"
    BY DEF PInv, ProbeFwheel
  <2>2. port[s] \in Ports /\ Configured(s) /\ fwheel[s] # << >> /\ reply[s] = "none"
    BY <2>1 DEF ServerInv, Looking, Phases, Replied
  <2>3. fwheel[s] \in Seq(Item) /\ line[s] \in 1..(Len(Config) + 1) /\ Len(Config) \in Nat
    BY <2>1, Types
  <2>q. QED BY <2>1, <2>2, <2>3 DEF Configured
<1>1. IF SerialMatches(s, Text(box, port[s]))
      THEN /\ Mark(s) /\ fwheel' = SetInterface(fwheel, s)
           /\ Goto(s, "setup") /\ tries' = [tries EXCEPT ![s] = 0]
           /\ UNCHANGED <<tube, gauge, controller, opened, line, port, reply>>
      ELSE Forget(s)
  BY DEF ProbeFwheel, Text, plugged
<1>2. Last(fwheel[s]).serial = Config[line[s]].serial
  BY <1>0 DEF Why, Named
<1>3. CASE ~SerialMatches(s, Text(box, port[s]))
  <2>1. Forget(s)
    BY <1>1, <1>3
  <2>2. Text(box, port[s]) # Last(fwheel[s]).serial
    BY <1>0, <1>3 DEF SerialMatches
  <2>3. ~Fits(s, port[s])
    BY <1>0, <1>2, <2>2 DEF Fits
  <2>q. QED BY <1>0, <2>1, <2>3, PassWhy
<1>4. CASE SerialMatches(s, Text(box, port[s]))
  <2> DEFINE n == Len(fwheel[s])
  <2>1. /\ UNCHANGED <<tube, gauge, controller, line, port, reply, cmd, excuse>> /\ box' = box
        /\ on' = on
        /\ fwheel' = SetInterface(fwheel, s) /\ Goto(s, "setup")
    BY <1>0, <1>1, <1>4 DEF world
  <2>2. /\ pc'[s] = "setup" /\ Want(s)' = Want(s) /\ Configured(s)' = Configured(s)
        /\ fwheel'[s] = [fwheel[s] EXCEPT ![n].port = port[s]]
    BY <1>0, <2>1, WantSame DEF Goto, TypeOK, SetInterface
  <2>3. /\ n \in 1..n /\ DOMAIN fwheel[s] = 1..n /\ DOMAIN fwheel'[s] = 1..n
        /\ fwheel'[s][n].serial = fwheel[s][n].serial /\ Len(fwheel'[s]) = n
        /\ \A i \in 1..n : i # n => fwheel'[s][i] = fwheel[s][i]
    BY <1>0, <2>2, LastSet
  <2>4. Config' = Config /\ \A m, mode,
        serial : NamedBy(m, mode, serial)' = NamedBy(m, mode, serial)
    BY <2>1, BoxSame, NamedSame
  <2>5. NamedBy(line[s], "FILTER_WHEEL", fwheel[s][n].serial)
    BY <1>0, <1>2 DEF NamedBy, Last, Want, Configured
  <2>6. Named(s)'
    BY <1>0, <1>2, <2>1, <2>2, <2>3, <2>4 DEF Named, Last
  <2> HIDE DEF n
  <2>7. Placed(s)'
    BY <2>2 DEF Placed
  <2>8. ASSUME NEW i \in DOMAIN fwheel'[s], fwheel'[s][i].port # NoPort
        PROVE  \E m \in 1..Len(Config) :
                 /\ m < line[s] \/ m = line[s]
                 /\ NamedBy(m, "FILTER_WHEEL", fwheel'[s][i].serial)
    <3>1. CASE i = n
      BY <1>0, <2>3, <2>5, <3>1
    <3>2. CASE i # n
      <4>1. i \in DOMAIN fwheel[s] /\ fwheel'[s][i] = fwheel[s][i]
        BY <2>3, <2>8, <3>2
      <4>q. QED BY <2>8, <4>1 DEF Why, FromLines
    <3>q. QED BY <3>1, <3>2
  <2>9. FromLines(s)'
    BY <2>1, <2>4, <2>7, <2>8 DEF Why, FromLines
  <2>10. FoundOn(s)'
    <3>1. Starting(s)' => Starting(s)
      BY <1>0, <2>1, <2>2, <2>4 DEF Starting, Configured
    <3>q. QED BY <2>1, <3>1 DEF Why, FoundOn
  <2>q. QED BY <1>0, <2>1, <2>2, <2>6, <2>9, <2>10 DEF Why, Passed, Reasoned
<1>q. QED
  BY <1>3, <1>4

(* Driving a wheel. *)
LEMMA SetValueWhy ==
  ASSUME PInv, NEW s \in Servers, Why(s), SetValue(s)
  PROVE  Why(s)'
<1>0. /\ TypeOK /\ ServerInv(s) /\ pc[s] = "setup" /\ (Starting(s) <=> Configured(s)) /\ reply[s] = "none"
      /\ box' = box /\ on' = on /\ cmd' = cmd /\ UNCHANGED <<used, tube, gauge, controller, fwheel>>
  BY SetValueOutcome, StartingIs DEF PInv, ServerInv, Replied, objects
<1>1. CASE SetRight(s) /\ Configured(s)
  <2>1. NextLine(s) /\ reply' = reply /\ excuse' = excuse
    BY <1>0, <1>1 DEF SetRight
  <2>q. QED BY <1>0, <1>1, <2>1, LineWhy
<1>2. CASE SetRight(s) /\ ~Configured(s)
  <2>1. (End(s, "ok") \/ End(s, "error")) /\ line' = line /\ port' = port /\ excuse' = excuse
    BY <1>0, <1>2 DEF SetRight
  <2>2. pc'[s] = "idle" /\ reply'[s] \in {"ok", "error"}
    BY <1>0, <2>1 DEF End, Goto, TypeOK
  <2>q. QED BY <1>0, <1>2, <2>1, <2>2, QuietWhy
<1>3. CASE SetAgain(s)
  BY <1>0, <1>3, QuietWhy DEF SetAgain
<1>4. CASE SetWrong(s)
  <2>1. excuse'[s] = TRUE /\ line' = line
    BY <1>0, <1>4 DEF SetWrong, TypeOK
  <2>2. CASE Configured(s)
    <3>1. SearchFrom(s, port[s] + 1) /\ port[s] + 1 \in Nat
      BY <1>0, <1>4, <2>2, Types DEF SetWrong, NextPort
    <3>2. pc'[s] = "search"
      BY <1>0, <3>1, PassedOver
    <3>3. Named(s)'
      BY <1>0, <2>1, <3>2, BoxSame, WantSame DEF Why, Named
    <3>4. FromLines(s)'
      BY <1>0, <2>1, <3>2, FromLinesSame DEF Why
    <3>q. QED BY <2>1, <3>3, <3>4 DEF Why, Passed, FoundOn, Reasoned
  <2>3. CASE ~Configured(s)
    <3>1. pc'[s] = "idle"
      BY <1>0, <1>4, <2>3 DEF SetWrong, End, Goto, TypeOK
    <3>2. FromLines(s)'
      BY <1>0, <2>1, <2>3, FromLinesSame DEF Why
    <3>q. QED BY <2>1, <3>1, <3>2 DEF Why, Passed, Named, FoundOn, Reasoned
  <2>q. QED BY <2>2, <2>3
<1>q. QED
  BY <1>1, <1>2, <1>3, <1>4, SetValueOutcome

(* Opening a port, and the end of the configuration file. *)
LEMMA OpenWhy ==
  ASSUME PInv, NEW s \in Servers, Why(s), Open(s) \/ ConfigRead(s)
  PROVE  Why(s)'
<1>1. /\ box' = box /\ on' = on
      /\ UNCHANGED <<used, tube, gauge, controller, fwheel, line, cmd, excuse, port, reply>>
  BY DEF Open, ConfigRead, world, objects
<1>2. \/ pc[s] = "search" /\ pc'[s] = "probe"
      \/ pc[s] = "config" /\ pc'[s] = "print"
  BY DEF PInv, TypeOK, Open, ConfigRead, Goto
<1>q. QED
  BY <1>1, <1>2, QuietWhy

(* A command that a server takes. *)
LEMMA ReceiveWhy ==
  ASSUME PInv, NEW s \in Servers, Why(s), Receive(s)
  PROVE  Why(s)'
<1>0. /\ TypeOK /\ ServerInv(s) /\ pc[s] = "idle" /\ ~Configured(s)
      /\ box' = box /\ on' = on /\ UNCHANGED <<used, tube, gauge, controller, fwheel, line>>
      /\ Config' = Config /\ plugged' = plugged
  <2>1. TypeOK /\ ServerInv(s) /\ pc[s] = "idle" /\ UNCHANGED <<world, objects, line>>
    BY ReceiveOutcome DEF PInv
  <2>2. ~Configured(s)
    BY <2>1, Types DEF ServerInv, Phases, Configured
  <2>q. QED BY <2>1, <2>2, BoxSame DEF world, objects
<1>1. PICK c \in Command :
        /\ cmd' = [cmd EXCEPT ![s] = c]
        /\ \/ Sought(s, c) \/ Answered(s, c)
           \/ c.op = "setfw" /\ c.v # 0 /\ GoneTo(s, c, "setup", fwheel[s][c.i].port)
           \/ Index(c) = "TUBE" /\ GoneTo(s, c, "ask", tube[s])
           \/ Index(c) = "PRESSURE" /\ GoneTo(s, c, "ask", gauge[s])
  BY ReceiveOutcome
<1>2. \/ Sought(s, c)
      \/ pc'[s] \in {"idle", "setup", "ask"} /\ reply'[s] \in {"error", "ok", "none"}
  <2>1. CASE Answered(s, c)
    BY <1>0, <2>1 DEF Answered, End, Goto, TypeOK
  <2>2. CASE \E p : GoneTo(s, c, "setup", p) \/ GoneTo(s, c, "ask", p)
    BY <1>0, <2>2 DEF GoneTo, TypeOK
  <2>q. QED BY <1>1, <2>1, <2>2
<1>3. ~Configured(s)' /\ line'[s] = line[s]
  BY <1>0 DEF Configured
<1>4. Named(s)'
  BY <1>3 DEF Named
<1>5. FromLines(s)'
  BY <1>0, <1>3, FromLinesSame DEF Why
<1>6. CASE Sought(s, c)
  <2>1. /\ pc'[s] = "search" /\ reply'[s] = "none"
        /\ \A q \in Ports : 0 <= q /\ q < port'[s] => used[s][q] \/ plugged[q].kind = "nothing"
    BY <1>0, <1>6, PassedOver DEF Sought, TypeOK
  <2>2. \A q \in Ports : q < port'[s] => used'[s][q] \/ ~Fits(s, q)'
    <3>1. \A q \in Ports : 0 <= q
      BY DEF Ports
    <3>2. Want(s)' \in InterfaceIndex /\ "nothing" \notin InterfaceIndex
      BY <1>1, <1>3 DEF Want, Configured, Index, InterfaceIndex
    <3>3. ASSUME NEW q, plugged[q].kind = "nothing" PROVE ~Fits(s, q)'
      BY <1>0, <3>2, <3>3 DEF Fits
    <3>q. QED BY <1>0, <2>1, <3>1, <3>3
  <2>3. ~Starting(s)'
    BY <1>3, <2>1 DEF Starting, Configured
  <2>q. QED BY <1>4, <1>5, <2>1, <2>2, <2>3 DEF Why, Passed, FoundOn, Reasoned
<1>7. CASE pc'[s] \in {"idle", "setup", "ask"} /\ reply'[s] \in {"error", "ok", "none"}
  <2>1. ~Starting(s)'
    BY <1>3, <1>7 DEF Starting, Configured
  <2>q. QED BY <1>4, <1>5, <1>7, <2>1 DEF Why, Passed, FoundOn, Reasoned
<1>q. QED
  BY <1>2, <1>6, <1>7

(* The last of a list that has grown is the new one. *)
LEMMA LastOfAppend ==
  ASSUME NEW q \in Seq(Item), NEW x
  PROVE  Last(Append(q, x)) = x
  BY DEF Last

(* Those of a list that has grown that have a port were in it before. *)
LEMMA OldOfAppend ==
  ASSUME NEW q \in Seq(Item), NEW x, x.port = NoPort, NEW i \in DOMAIN Append(q, x),
         Append(q, x)[i].port # NoPort
  PROVE  i \in DOMAIN q /\ Append(q, x)[i] = q[i]
<1>1. Len(q) \in Nat /\ DOMAIN q = 1..Len(q) /\ i \in 1..(Len(q) + 1)
  BY SeqIs
<1>2. i # Len(q) + 1
  OBVIOUS
<1>q. QED
  BY <1>1, <1>2

(* A line of the configuration file. *)
LEMMA ReadLineWhy ==
  ASSUME PInv, NEW s \in Servers, Why(s), ReadLine(s)
  PROVE  Why(s)'
<1>0. /\ TypeOK /\ ServerInv(s) /\ pc[s] = "config" /\ Configured(s) /\ reply[s] = "none"
      /\ box' = box /\ on' = on /\ UNCHANGED <<used, tube, gauge, cmd, reply, excuse>>
      /\ Config' = Config /\ plugged' = plugged
      /\ controller[s] \in Seq(Item) /\ fwheel[s] \in Seq(Item)
      /\ line[s] \in Nat
  <2>1. TypeOK /\ ServerInv(s) /\ pc[s] = "config" /\ line[s] <= Len(Config)
        /\ UNCHANGED <<world, used, tube, gauge, cmd, reply, excuse>>
    BY ReadLineLists DEF PInv
  <2>2. reply[s] = "none"
    BY <2>1 DEF ServerInv, Replied
  <2>3. controller[s] \in Seq(Item) /\ fwheel[s] \in Seq(Item) /\ line[s] \in Nat
    BY <2>1, Types
  <2>q. QED BY <2>1, <2>2, <2>3, BoxSame DEF world, Configured
<1>1. CASE Had(s)
  <2>1. Mode(s) \in {"TUBE", "PRESSURE"}
    BY <1>1 DEF Had
  <2>2. NextLine(s) /\ controller'[s] = controller[s] /\ fwheel'[s] = fwheel[s]
    BY <1>1, <2>1, ReadLineLists
  <2>3. controller' = controller /\ fwheel' = fwheel
    BY <2>1 DEF ReadLine, Mode
  <2>q. QED BY <1>0, <2>2, <2>3, LineWhy
<1>2. CASE ~Had(s)
  <2>1. /\ controller'[s] = (IF Mode(s) = "CONTROLLER" THEN Append(controller[s], NewItem(s)) ELSE controller[s])
        /\ fwheel'[s] = (IF Mode(s) = "FILTER_WHEEL" THEN Append(fwheel[s], NewItem(s)) ELSE fwheel[s])
        /\ SearchFrom(s, 0) /\ line' = line
    BY <1>2, ReadLineLists
  <2>2. /\ pc'[s] = "search" /\ line'[s] = line[s]
        /\ \A q \in Ports : 0 <= q /\ q < port'[s] => used[s][q] \/ plugged[q].kind = "nothing"
    BY <1>0, <2>1, PassedOver
  <2>3. /\ Want(s)' = Want(s) /\ Want(s) = Mode(s) /\ Configured(s)' /\ \A q : Fits(s, q)' = Fits(s, q)
        /\ \A m, mode, serial : NamedBy(m, mode, serial)' = NamedBy(m, mode, serial)
    BY <1>0, <2>2, WantSame, NamedSame DEF Want, Mode, Configured
  <2>4. Passed(s)'
    <3>1. \A q \in Ports : 0 <= q
      BY DEF Ports
    <3>q. QED BY <1>0, <2>2, <2>3, <3>1, EmptyFitsNot DEF Passed
  <2>5. NewItem(s).serial = Config[line[s]].serial /\ NewItem(s).port = NoPort
    BY DEF NewItem
  <2>6. Named(s)'
    <3>1. Mode(s) = "CONTROLLER" => Last(controller'[s]) = NewItem(s)
      BY <1>0, <2>1, LastOfAppend
    <3>2. Mode(s) = "FILTER_WHEEL" => Last(fwheel'[s]) = NewItem(s)
      BY <1>0, <2>1, LastOfAppend
    <3>q. QED BY <1>0, <2>2, <2>3, <2>5, <3>1, <3>2 DEF Named, Last
  <2>7. ASSUME NEW i \in DOMAIN controller'[s], controller'[s][i].port # NoPort
        PROVE  i \in DOMAIN controller[s] /\ controller'[s][i] = controller[s][i]
    <3>1. CASE Mode(s) = "CONTROLLER"
      BY <1>0, <2>1, <2>5, <2>7, <3>1, OldOfAppend
    <3>2. CASE Mode(s) # "CONTROLLER"
      BY <2>1, <2>7, <3>2
    <3>q. QED BY <3>1, <3>2
  <2>8. ASSUME NEW i \in DOMAIN fwheel'[s], fwheel'[s][i].port # NoPort
        PROVE  i \in DOMAIN fwheel[s] /\ fwheel'[s][i] = fwheel[s][i]
    <3>1. CASE Mode(s) = "FILTER_WHEEL"
      BY <1>0, <2>1, <2>5, <2>8, <3>1, OldOfAppend
    <3>2. CASE Mode(s) # "FILTER_WHEEL"
      BY <2>1, <2>8, <3>2
    <3>q. QED BY <3>1, <3>2
  <2>9. FromLines(s)'
    <3>1. ~Placed(s)
      BY <1>0 DEF Placed
    <3>2. ASSUME NEW i \in DOMAIN controller'[s], controller'[s][i].port # NoPort
          PROVE  \E m \in 1..Len(Config) :
                   m < line[s] /\ NamedBy(m, "CONTROLLER", controller'[s][i].serial)
      BY <2>7, <3>2 DEF Why, FromLines
    <3>3. ASSUME NEW i \in DOMAIN fwheel'[s], fwheel'[s][i].port # NoPort
          PROVE  \E m \in 1..Len(Config) :
                   m < line[s] /\ NamedBy(m, "FILTER_WHEEL", fwheel'[s][i].serial)
      <4>1. i \in DOMAIN fwheel[s] /\ fwheel'[s][i] = fwheel[s][i]
        BY <2>8, <3>3
      <4>q. QED BY <3>1, <3>3, <4>1 DEF Why, FromLines
    <3>q. QED BY <1>0, <2>2, <2>3, <3>2, <3>3 DEF FromLines
  <2>10. FoundOn(s)'
    <3>1. Starting(s)
      BY <1>0 DEF Starting
    <3>q. QED BY <1>0, <3>1 DEF Why, FoundOn
  <2>q. QED BY <1>0, <2>4, <2>6, <2>9, <2>10 DEF Why, Reasoned
<1>q. QED
  BY <1>1, <1>2

(* A step of the server. *)
LEMMA OwnWhy ==
  ASSUME PInv, Plain, NEW s \in Servers, Why(s), Lit,
         Start(s) \/ Crash(s) \/ Receive(s) \/ ServerStep(s)
  PROVE  Why(s)'
<1>1. s \in box.servers
  BY Runs
<1>2. Crash(s) => Why(s)'
  BY DownWhy DEF Crash
<1>q. QED
  BY <1>1, <1>2, StartWhy, ReceiveWhy, ReadLineWhy, OpenWhy, ReportWhy, ProbeWhy, SerialWhy,
     ProbeFwheelWhy, NotFoundWhy, SetValueWhy, AskWhy DEF ServerStep

(* A step of a server leaves alone the switches, and the reasons of the others. *)
LEMMA SwitchesSame ==
  ASSUME PInv, NEW s \in Servers, Start(s) \/ Crash(s) \/ Receive(s) \/ ServerStep(s)
  PROVE  /\ box' = box /\ on' = on
         /\ \A t \in Servers : t # s => excuse'[t] = excuse[t]
<1>1. CASE SetValue(s)
  <2>1. box' = box /\ on' = on
    BY <1>1, SetValueOutcome
  <2>2. excuse' = excuse \/ excuse' = [excuse EXCEPT ![s] = TRUE]
    BY <1>1, SetValueOutcome DEF SetRight, SetAgain, SetWrong
  <2>q. QED BY <2>1, <2>2 DEF PInv, TypeOK
<1>2. CASE Receive(s)
  <2>1. UNCHANGED world /\ excuse' = [excuse EXCEPT ![s] = FALSE]
    BY <1>2, ReceiveOutcome
  <2>q. QED BY <2>1 DEF PInv, TypeOK, world
<1>3. CASE Start(s)
  BY <1>3 DEF Start, PInv, TypeOK, world
<1>4. CASE Crash(s)
  BY <1>4 DEF Crash, Down, world
<1>5. CASE ReadLine(s)
  BY <1>5, ReadLineLists DEF world
<1>6. CASE Report(s)
  BY <1>6 DEF Report, Down, world
<1>7. CASE NotFound(s)
  <2>1. UNCHANGED <<world, excuse>>
    BY <1>7 DEF NotFound, Down
  <2>q. QED BY <2>1 DEF world
<1>8. CASE Open(s) \/ ConfigRead(s)
  BY <1>8 DEF Open, ConfigRead, world
<1>9. CASE Probe(s) \/ ProbeController(s) \/ Serial(s) \/ ProbeFwheel(s) \/ Ask(s)
  <2>1. UNCHANGED <<world, excuse>>
    BY <1>9 DEF Probe, ProbeController, Serial, ProbeFwheel, Ask
  <2>q. QED BY <2>1 DEF world
<1>q. QED
  BY <1>1, <1>2, <1>3, <1>4, <1>5, <1>6, <1>7, <1>8, <1>9 DEF ServerStep

(* At first nothing is called off. *)
LEMMA InitWhy == Init => OffInv
<1> SUFFICES ASSUME Init, Plain PROVE Lit /\ \A s \in Servers : Why(s)
  BY DEF OffInv
<1>1. Lit
  BY DEF Init, Plain, Lit
<1>2. ASSUME NEW s \in Servers PROVE Why(s)
  <2>1. pc[s] = "down" /\ reply[s] = "none" /\ controller[s] = << >> /\ fwheel[s] = << >>
    BY DEF Init
  <2>q. QED BY <2>1 DEF Why, Passed, Named, FromLines, FoundOn, Reasoned, Starting
<1>q. QED
  BY <1>1, <1>2

(* Every step keeps the reasons. *)
LEMMA StepWhy == PInv /\ OffInv /\ [Next]_vars => OffInv'
<1> SUFFICES ASSUME PInv, OffInv, [Next]_vars, Plain' PROVE Lit' /\ \A s \in Servers : Why(s)'
  BY DEF OffInv
<1>1. CASE Switch
  <2>1. /\ UNCHANGED <<box, objects, pc, line, port, tries, cmd, reply>>
        /\ \A t \in Servers : excuse'[t] = TRUE
        /\ \E p \in Ports : plugged[p].kind \in Switchable /\ on' = [on EXCEPT ![p] = ~@]
    BY <1>1 DEF Switch
  <2>2. Plain /\ plugged' = plugged
    BY <2>1, BoxSame
  <2>3. Lit'
    BY <2>1, <2>2 DEF OffInv, Lit, Plain, PInv, TypeOK
  <2>4. ASSUME NEW s \in Servers PROVE Why(s)'
    <3>1. SameFor(s)
      BY <2>1 DEF SameFor, objects
    <3>q. QED BY <2>1, <2>2, <3>1, SameWhy DEF OffInv, PInv
  <2>q. QED BY <2>3, <2>4
<1>2. ASSUME NEW s \in Servers, Start(s) \/ Crash(s) \/ Receive(s) \/ ServerStep(s)
      PROVE  Lit' /\ \A t \in Servers : Why(t)'
  <2>1. box' = box /\ on' = on /\ \A t \in Servers : t # s => excuse'[t] = excuse[t]
    BY <1>2, SwitchesSame
  <2>2. Plain /\ plugged' = plugged
    BY <2>1, BoxSame
  <2>3. Lit'
    BY <2>1, <2>2 DEF OffInv, Lit
  <2>4. Why(s)'
    BY <1>2, <2>2, OwnWhy DEF OffInv
  <2>5. ASSUME NEW t \in Servers, t # s PROVE Why(t)'
    <3>1. SameFor(t)
      BY <1>2, <2>5, OthersSame DEF PInv
    <3>q. QED BY <2>1, <2>2, <2>5, <3>1, SameWhy DEF OffInv, PInv
  <2>q. QED BY <2>3, <2>4, <2>5
<1>3. CASE UNCHANGED vars
  <2>1. UNCHANGED <<world, objects, doing>>
    BY <1>3 DEF vars
  <2>2. box' = box /\ on' = on /\ excuse' = excuse
    BY <2>1 DEF world, doing
  <2>3. Plain /\ plugged' = plugged
    BY <2>2, BoxSame
  <2>4. ASSUME NEW s \in Servers PROVE Why(s)'
    <3>1. SameFor(s)
      BY <2>1 DEF SameFor, objects, doing
    <3>q. QED BY <2>2, <2>3, <3>1, SameWhy DEF OffInv, PInv
  <2>q. QED BY <2>2, <2>3, <2>4 DEF OffInv, Lit
<1>q. QED
  BY <1>1, <1>2, <1>3 DEF Next

(* Where controllers stay on, and the box has one tube and one gauge and    *)
(* its wheels are known by their adapters, a server alone that could not    *)
(* start or calls a device off has a reason.                                *)
THEOREM OffHasReason ==
  "CONTROLLER" \notin Switchable => (Spec => [](Regular(box) => OffMeansOff))
<1> SUFFICES ASSUME "CONTROLLER" \notin Switchable
             PROVE  Spec => [](Regular(box) => OffMeansOff)
  OBVIOUS
<1>1. OffInv => (Regular(box) => OffMeansOff)
  BY DEF OffInv, Plain, Why, Reasoned, OffMeansOff
<1>q. QED
  BY <1>1, InitWhy, StepWhy, SpecInv, PTL DEF Spec
=============================================================================
