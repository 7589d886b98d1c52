---------------------------- MODULE SessionProofs ----------------------------
(***************************************************************************)
(* Proofs about Session, for any number of clients and users.              *)
(***************************************************************************)
EXTENDS Session, TLAPS, SequenceTheorems

(* The inductive invariant, in parts. *)

(* A command is executed for the holder of the server. *)
ServedIsHolder ==
  \A s \in Servers : serving[s] # Nobody => holder[s] = User[serving[s]]

(* A client has one connection at most: it stands once in one queue, *)
QueuedOnce ==
  \A s, t \in Servers : \A i \in 1..Len(backlog[s]), j \in 1..Len(backlog[t]) :
    backlog[s][i] = backlog[t][j] => s = t /\ i = j

(* or it is served by one server; *)
ServedOnce ==
  \A s, t \in Servers :
    /\ serving[s] = serving[t] => s = t \/ serving[s] = Nobody
    /\ \A i \in 1..Len(backlog[s]) : backlog[s][i] # serving[t]

(* and none when it is ready to send. *)
ReadyIsFree ==
  \A p \in Clients, s \in Servers :
    state[p] = "ready" =>
      serving[s] # p /\ \A i \in 1..Len(backlog[s]) : backlog[s][i] # p

(* Nothing of a queued command is carried out. *)
QueuedNotBegun ==
  \A s \in Servers : \A i \in 1..Len(backlog[s]) : carried[backlog[s][i]] = "no"

SInv ==
  /\ TypeOK /\ ServedIsHolder
  /\ QueuedOnce /\ ServedOnce /\ ReadyIsFree /\ QueuedNotBegun
  /\ RepliesAreTrue

-----------------------------------------------------------------------------
(* The initial states satisfy the invariant. *)
LEMMA InitSInv == Init => SInv
<1> SUFFICES ASSUME Init PROVE SInv
  OBVIOUS
<1>1. unlock \in Command
  BY DEF unlock, Command, Names
<1>2. \A s \in Servers : backlog[s] \in Seq(Clients) /\ Len(backlog[s]) = 0
  BY EmptySeq DEF Init
<1> QED
  BY <1>1, <1>2 DEF Init, SInv, TypeOK, Replies, Pending, ServedIsHolder,
    QueuedOnce, ServedOnce, ReadyIsFree, QueuedNotBegun, RepliesAreTrue

(* Answering keeps the types; a client that is ready now was ready before   *)
(* and was told nothing, or has been told its reply.                        *)
LEMMA AnswerFacts ==
  ASSUME TypeOK, NEW replies, \A q \in DOMAIN replies : replies[q] \in Replies,
         Answer(replies)
  PROVE  /\ state' \in [Clients -> {"gone", "ready"} \union Pending]
         /\ reply' \in [Clients -> Replies] /\ dialog' \in [Clients -> BOOLEAN]
         /\ cmd' \in [Clients -> Command]
         /\ \A p \in Clients : state'[p] = "ready" =>
              \/ state[p] = "ready" /\ reply'[p] = reply[p]
              \/ p \in DOMAIN replies /\ reply'[p] = replies[p]
<1> USE DEF TypeOK, Answer, Pending
<1>1. state' \in [Clients -> {"gone", "ready"} \union Pending]
  OBVIOUS
<1>2. reply' \in [Clients -> Replies]
  BY DEF Replies
<1>3. dialog' \in [Clients -> BOOLEAN] /\ cmd' \in [Clients -> Command]
  OBVIOUS
<1>4. ASSUME NEW p \in Clients, state'[p] = "ready"
      PROVE  \/ state[p] = "ready" /\ reply'[p] = reply[p]
             \/ p \in DOMAIN replies /\ reply'[p] = replies[p]
  BY <1>4
<1> QED
  BY <1>1, <1>2, <1>3, <1>4

(* Taking the oldest connection off its queue. *)
LEMMA AcceptedFacts ==
  ASSUME SInv, NEW s \in Servers, NEW p \in Clients, Accepted(s, p)
  PROVE  /\ backlog' \in [Servers -> Seq(Clients)]
         /\ p = backlog[s][1] /\ 1 \in 1..Len(backlog[s])
         /\ \A t \in Servers : \A i \in 1..Len(backlog'[t]) :
              /\ backlog'[t][i] # p
              /\ \E j \in 1..Len(backlog[t]) : backlog'[t][i] = backlog[t][j]
         /\ QueuedOnce'
<1> DEFINE q == backlog[s]
           at(t, i) == IF t = s THEN i + 1 ELSE i
<1>1. q \in Seq(Clients) /\ q # << >> /\ p = Head(q)
  BY DEF SInv, TypeOK, Accepted
<1>2. /\ Head(q) = q[1] /\ Tail(q) \in Seq(Clients) /\ Len(q) \in Nat /\ Len(q) >= 1
      /\ Len(Tail(q)) = Len(q) - 1
      /\ \A i \in 1..Len(Tail(q)) : Tail(q)[i] = q[i + 1]
  BY <1>1, HeadTailProperties, LenProperties
<1>3. /\ backlog' \in [Servers -> Seq(Clients)] /\ backlog'[s] = Tail(q)
      /\ \A t \in Servers : t # s => backlog'[t] = backlog[t]
  BY <1>2 DEF SInv, TypeOK, Accepted
<1>4. p = backlog[s][1] /\ 1 \in 1..Len(backlog[s])
  BY <1>1, <1>2
<1>5. ASSUME NEW t \in Servers, NEW i \in 1..Len(backlog'[t])
      PROVE  /\ at(t, i) \in 1..Len(backlog[t])
             /\ backlog'[t][i] = backlog[t][at(t, i)]
             /\ t = s => at(t, i) # 1
  <2>1. CASE t = s
    BY <2>1, <1>2, <1>3
  <2>2. CASE t # s
    BY <2>2, <1>3
  <2> QED
    BY <2>1, <2>2
<1>6. QueuedOnce
  BY DEF SInv
<1>7. ASSUME NEW t \in Servers, NEW i \in 1..Len(backlog'[t])
      PROVE  backlog'[t][i] # p
  <2>1. /\ at(t, i) \in 1..Len(backlog[t])
        /\ backlog'[t][i] = backlog[t][at(t, i)]
        /\ t = s => at(t, i) # 1
    BY <1>5
  <2> HIDE DEF at
  <2> QED
    BY <2>1, <1>4, <1>6 DEF QueuedOnce
<1>8. QueuedOnce'
  <2> SUFFICES ASSUME NEW t \in Servers, NEW u \in Servers,
                      NEW i \in 1..Len(backlog'[t]), NEW j \in 1..Len(backlog'[u]),
                      backlog'[t][i] = backlog'[u][j]
               PROVE  t = u /\ i = j
    BY DEF QueuedOnce
  <2>1. /\ at(t, i) \in 1..Len(backlog[t]) /\ at(u, j) \in 1..Len(backlog[u])
        /\ backlog[t][at(t, i)] = backlog[u][at(u, j)]
    BY <1>5
  <2>2. t = u /\ at(t, i) = at(u, j)
    <3> HIDE DEF at
    <3> QED
      BY <2>1, <1>6 DEF QueuedOnce
  <2>3. Len(backlog'[t]) \in Nat /\ Len(backlog'[u]) \in Nat
    BY <1>3, LenProperties
  <2> QED
    BY <2>2, <2>3
<1> HIDE DEF q, at
<1> QED
  BY <1>3, <1>4, <1>5, <1>7, <1>8

-----------------------------------------------------------------------------
(* Clients *)

(* A client that sends joins one queue. *)
LEMMA RequestKeeps ==
  ASSUME SInv, NEW p \in Clients, NEW c \in Command,
         NEW waiting \in Pending, NEW failed \in {"ready", "gone"},
         Request(p, c, waiting, failed),
         dialog' \in [Clients -> BOOLEAN]
  PROVE  SInv'
<1>1. TypeOK
  BY DEF SInv
<1>2. state[p] = "ready" /\ Port(c) \in Servers
  BY DEF Request, Port, Servers
<1>3. /\ cmd' \in [Clients -> Command] /\ carried' = [carried EXCEPT ![p] = "no"]
      /\ UNCHANGED <<up, holder, lastCmdUnlock, serving>>
  BY <1>1 DEF Request, TypeOK
<1>4. \A s \in Servers :
        serving[s] # p /\ \A i \in 1..Len(backlog[s]) : backlog[s][i] # p
  BY <1>2 DEF SInv, ReadyIsFree
<1>5. CASE up[Port(c)]
  <2> DEFINE t == Port(c)
  <2>1. /\ state' = [state EXCEPT ![p] = waiting] /\ reply' = reply
        /\ backlog' = [backlog EXCEPT ![t] = Append(backlog[t], p)]
    BY <1>5 DEF Request
  <2>2. t \in Servers /\ backlog[t] \in Seq(Clients)
    BY <1>1, <1>2 DEF TypeOK
  <2>3. /\ Append(backlog[t], p) \in Seq(Clients)
        /\ Len(backlog[t]) \in Nat
        /\ Len(Append(backlog[t], p)) = Len(backlog[t]) + 1
        /\ \A i \in 1..Len(backlog[t]) : Append(backlog[t], p)[i] = backlog[t][i]
        /\ Append(backlog[t], p)[Len(backlog[t]) + 1] = p
    BY <2>2, AppendProperties, LenProperties
  <2> HIDE DEF t
  <2>4. /\ backlog' \in [Servers -> Seq(Clients)]
        /\ backlog'[t] = Append(backlog[t], p)
        /\ \A s \in Servers : s # t => backlog'[s] = backlog[s]
    BY <1>1, <2>1, <2>2, <2>3 DEF TypeOK
  <2>5. TypeOK'
    BY <1>1, <1>3, <2>1, <2>4 DEF TypeOK, Pending
  <2>6. ASSUME NEW s \in Servers, NEW i \in 1..Len(backlog'[s])
        PROVE  \/ i \in 1..Len(backlog[s]) /\ backlog'[s][i] = backlog[s][i]
               \/ s = t /\ i = Len(backlog[t]) + 1 /\ backlog'[s][i] = p
    <3>1. CASE s = t
      BY <3>1, <2>3, <2>4
    <3>2. CASE s # t
      BY <3>2, <2>4
    <3> QED
      BY <3>1, <3>2
  <2>7. QueuedOnce'
    <3>1. QueuedOnce
      BY DEF SInv
    <3>2. ASSUME NEW s \in Servers, NEW r \in Servers,
                 NEW i \in 1..Len(backlog'[s]), NEW j \in 1..Len(backlog'[r]),
                 backlog'[s][i] = backlog'[r][j]
          PROVE  s = r /\ i = j
      <4>1. CASE backlog'[s][i] = p
        <5>1. s = t /\ i = Len(backlog[t]) + 1
          BY <4>1, <1>4, <2>6
        <5>2. r = t /\ j = Len(backlog[t]) + 1
          BY <3>2, <4>1, <1>4, <2>6
        <5> QED
          BY <5>1, <5>2
      <4>2. CASE backlog'[s][i] # p
        <5>1. /\ i \in 1..Len(backlog[s]) /\ backlog'[s][i] = backlog[s][i]
              /\ j \in 1..Len(backlog[r]) /\ backlog'[r][j] = backlog[r][j]
          BY <3>2, <4>2, <2>6
        <5>2. backlog[s][i] = backlog[r][j]
          BY <3>2, <5>1
        <5> QED
          BY <3>1, <5>1, <5>2 DEF QueuedOnce
      <4> QED
        BY <4>1, <4>2
    <3> QED
      BY <3>2 DEF QueuedOnce
  <2>8. ServedOnce'
    BY <1>3, <1>4, <2>6 DEF SInv, ServedOnce
  <2>9. ReadyIsFree'
    <3>1. \A r \in Clients : state'[r] = "ready" => state[r] = "ready" /\ r # p
      BY <1>1, <2>1 DEF TypeOK, Pending
    <3> QED
      BY <3>1, <1>3, <2>6 DEF SInv, ReadyIsFree
  <2>10. QueuedNotBegun'
    <3>1. carried'[p] = "no" /\ \A r \in Clients : r # p => carried'[r] = carried[r]
      BY <1>1, <1>3 DEF TypeOK
    <3>2. \A s \in Servers : \A i \in 1..Len(backlog[s]) : backlog[s][i] \in Clients
      BY <1>1 DEF TypeOK
    <3> QED
      BY <3>1, <3>2, <1>4, <2>6 DEF SInv, QueuedNotBegun
  <2>11. ServedIsHolder' /\ RepliesAreTrue'
    <3>1. \A r \in Clients : state'[r] = "ready" =>
            state[r] = "ready" /\ reply'[r] = reply[r] /\ carried'[r] = carried[r]
      BY <1>1, <1>3, <2>1 DEF TypeOK, Pending
    <3> QED
      BY <3>1, <1>3 DEF SInv, ServedIsHolder, RepliesAreTrue
  <2> QED
    BY <2>5, <2>7, <2>8, <2>9, <2>10, <2>11 DEF SInv
<1>6. CASE ~up[Port(c)]
  <2>1. /\ state' = [state EXCEPT ![p] = failed] /\ reply' = [reply EXCEPT ![p] = "lost"]
        /\ backlog' = backlog
    BY <1>6 DEF Request
  <2>2. TypeOK'
    BY <1>1, <1>3, <2>1 DEF TypeOK, Replies
  <2>3. QueuedOnce' /\ ServedOnce' /\ ServedIsHolder'
    BY <1>3, <2>1 DEF SInv, QueuedOnce, ServedOnce, ServedIsHolder
  <2>4. ReadyIsFree'
    BY <1>1, <1>3, <1>4, <2>1 DEF SInv, TypeOK, ReadyIsFree
  <2>5. QueuedNotBegun'
    <3>1. \A s \in Servers : \A i \in 1..Len(backlog[s]) :
            backlog[s][i] \in Clients /\ backlog[s][i] # p
      BY <1>1, <1>4 DEF TypeOK
    <3>2. \A r \in Clients : r # p => carried'[r] = carried[r]
      BY <1>1, <1>3 DEF TypeOK
    <3> QED
      BY <3>1, <3>2, <2>1 DEF SInv, QueuedNotBegun
  <2>6. RepliesAreTrue'
    <3>1. /\ reply'[p] = "lost"
          /\ \A r \in Clients : r # p =>
               state'[r] = state[r] /\ reply'[r] = reply[r] /\ carried'[r] = carried[r]
      BY <1>1, <1>3, <2>1 DEF TypeOK
    <3> QED
      BY <3>1 DEF SInv, RepliesAreTrue
  <2> QED
    BY <2>2, <2>3, <2>4, <2>5, <2>6 DEF SInv
<1> QED
  BY <1>5, <1>6

(* The unlock that the GUI's dialog sends (GuiDefs.h) is a command. *)
LEMMA UnlockIsCommand == unlock \in Command
BY DEF unlock, Command, Names

(* Every step of a client keeps the invariant. *)
LEMMA ClientKeeps ==
  ASSUME SInv, NEW p \in Clients,
         Launch(p) \/ Send(p) \/ AcceptDialog(p) \/ DeclineDialog(p)
           \/ Close(p) \/ Die(p)
  PROVE  SInv'
<1>1. TypeOK
  BY DEF SInv
<1>2. CASE Send(p)
  <2>1. PICK c \in Command : Request(p, c, "sent", "ready")
    BY <1>2, ClientsAssumption DEF Send
  <2> QED
    BY <1>1, <1>2, <2>1, RequestKeeps DEF Send, Pending, TypeOK
<1>3. CASE AcceptDialog(p)
  <2>1. dialog' \in [Clients -> BOOLEAN]
    BY <1>1, <1>3 DEF AcceptDialog, TypeOK
  <2> QED
    BY <1>3, <2>1, RequestKeeps, UnlockIsCommand DEF AcceptDialog, Pending
<1>4. CASE Close(p)
  BY <1>1, <1>4, RequestKeeps, UnlockIsCommand DEF Close, Pending, TypeOK
<1>5. CASE Launch(p)
  <2>1. /\ state' = [state EXCEPT ![p] = "ready"] /\ reply' = [reply EXCEPT ![p] = "none"]
        /\ carried' = [carried EXCEPT ![p] = "no"]
        /\ UNCHANGED <<servers, cmd, dialog>>
        /\ \A s \in Servers : p # serving[s] /\ \A i \in 1..Len(backlog[s]) : backlog[s][i] # p
    BY <1>5 DEF Launch, Queued
  <2>2. TypeOK'
    BY <1>1, <2>1 DEF TypeOK, servers, Replies
  <2>3. QueuedOnce' /\ ServedOnce' /\ ServedIsHolder'
    BY <2>1 DEF SInv, servers, QueuedOnce, ServedOnce, ServedIsHolder
  <2>4. ReadyIsFree'
    BY <1>1, <2>1 DEF SInv, TypeOK, servers, ReadyIsFree
  <2>5. QueuedNotBegun'
    <3>1. \A s \in Servers : \A i \in 1..Len(backlog[s]) : backlog[s][i] \in Clients
      BY <1>1 DEF TypeOK
    <3> QED
      BY <1>1, <2>1, <3>1 DEF SInv, TypeOK, servers, QueuedNotBegun
  <2>6. RepliesAreTrue'
    BY <1>1, <2>1 DEF SInv, TypeOK, RepliesAreTrue
  <2> QED
    BY <2>2, <2>3, <2>4, <2>5, <2>6 DEF SInv
<1>6. CASE DeclineDialog(p) \/ Die(p)
  <2>1. /\ UNCHANGED <<servers, cmd, carried>>
        /\ dialog' \in [Clients -> BOOLEAN]
        /\ state' \in [Clients -> {"gone", "ready"} \union Pending]
        /\ reply' \in [Clients -> Replies]
        /\ \A r \in Clients :
             state'[r] = "ready" => state[r] = "ready" /\ reply'[r] = reply[r]
    BY <1>1, <1>6 DEF DeclineDialog, Die, TypeOK, Replies, servers
  <2>2. TypeOK'
    BY <1>1, <2>1 DEF TypeOK, servers
  <2>3. QueuedOnce' /\ ServedOnce' /\ ServedIsHolder'
    BY <2>1 DEF SInv, servers, QueuedOnce, ServedOnce, ServedIsHolder
  <2>5. QueuedNotBegun'
    BY <2>1 DEF SInv, servers, QueuedNotBegun
  <2>4. ReadyIsFree'
    BY <2>1 DEF SInv, servers, ReadyIsFree
  <2>6. RepliesAreTrue'
    BY <2>1 DEF SInv, RepliesAreTrue
  <2> QED
    BY <2>2, <2>3, <2>4, <2>5, <2>6 DEF SInv
<1> QED
  BY <1>2, <1>3, <1>4, <1>5, <1>6

-----------------------------------------------------------------------------
(* Servers *)

(* A connection is taken and answered at once. *)
LEMMA AnsweredAtOnce ==
  ASSUME SInv, NEW s \in Servers, NEW p \in Clients, Accepted(s, p),
         NEW r \in Replies \ {"ok"}, Answer([q \in {p} |-> r]),
         UNCHANGED <<up, serving, carried>>,
         holder' \in [Servers -> Users \union {Nobody}],
         lastCmdUnlock' \in [Servers -> BOOLEAN],
         \A t \in Servers : t # s => holder'[t] = holder[t]
  PROVE  SInv'
<1>1. TypeOK
  BY DEF SInv
<1>2. /\ state' \in [Clients -> {"gone", "ready"} \union Pending]
      /\ reply' \in [Clients -> Replies] /\ dialog' \in [Clients -> BOOLEAN]
      /\ cmd' \in [Clients -> Command]
      /\ \A c \in Clients : state'[c] = "ready" =>
           \/ state[c] = "ready" /\ reply'[c] = reply[c]
           \/ c = p /\ reply'[c] = r
  <2> DEFINE replies == [q \in {p} |-> r]
  <2>1. \A q \in DOMAIN replies : replies[q] \in Replies
    OBVIOUS
  <2>2. Answer(replies)
    OBVIOUS
  <2>3. DOMAIN replies = {p} /\ replies[p] = r
    OBVIOUS
  <2> HIDE DEF replies
  <2> QED
    BY <1>1, <2>1, <2>2, <2>3, AnswerFacts
<1>3. /\ backlog' \in [Servers -> Seq(Clients)]
      /\ p = backlog[s][1] /\ 1 \in 1..Len(backlog[s])
      /\ \A t \in Servers : \A i \in 1..Len(backlog'[t]) :
           /\ backlog'[t][i] # p
           /\ \E j \in 1..Len(backlog[t]) : backlog'[t][i] = backlog[t][j]
      /\ QueuedOnce'
  BY AcceptedFacts
<1>4. TypeOK'
  BY <1>1, <1>2, <1>3 DEF TypeOK
<1>5. ServedIsHolder'
  BY DEF SInv, ServedIsHolder, Accepted
<1>6. ServedOnce /\ QueuedNotBegun /\ ReadyIsFree /\ RepliesAreTrue
      /\ serving' = serving /\ carried' = carried
  BY DEF SInv
<1>7. ServedOnce' /\ QueuedNotBegun'
  <2>1. ASSUME NEW t \in Servers, NEW i \in 1..Len(backlog'[t])
        PROVE  /\ carried'[backlog'[t][i]] = "no"
               /\ \A u \in Servers : backlog'[t][i] # serving'[u]
    <3>1. PICK j \in 1..Len(backlog[t]) : backlog'[t][i] = backlog[t][j]
      BY <1>3
    <3> QED
      BY <3>1, <1>6 DEF ServedOnce, QueuedNotBegun
  <2> QED
    BY <2>1, <1>6 DEF ServedOnce, QueuedNotBegun
<1>8. ReadyIsFree'
  <2>1. \A t \in Servers : serving[t] # p
    BY <1>3, <1>6 DEF ServedOnce
  <2>2. ASSUME NEW c \in Clients, NEW t \in Servers, NEW i \in 1..Len(backlog'[t]),
               state'[c] = "ready"
        PROVE  backlog'[t][i] # c
    <3>1. PICK j \in 1..Len(backlog[t]) : backlog'[t][i] = backlog[t][j]
      BY <1>3
    <3> QED
      BY <3>1, <2>2, <1>2, <1>3, <1>6 DEF ReadyIsFree
  <2>3. \A c \in Clients, t \in Servers : state'[c] = "ready" => serving'[t] # c
    BY <2>1, <1>2, <1>6 DEF ReadyIsFree
  <2> QED
    BY <2>2, <2>3 DEF ReadyIsFree
<1>9. RepliesAreTrue'
  <2>1. carried[p] = "no"
    BY <1>3, <1>6 DEF QueuedNotBegun
  <2>2. r # "ok"
    OBVIOUS
  <2> QED
    BY ONLY <2>1, <2>2, <1>2, <1>6 DEF RepliesAreTrue
<1> QED
  BY <1>3, <1>4, <1>5, <1>7, <1>8, <1>9 DEF SInv

(* So do the answers that leave the command undone. *)
LEMMA RefusalsKeep ==
  ASSUME SInv, NEW s \in Servers, NEW p \in Clients,
         TooFewArguments(s, p) \/ Unlock(s, p) \/ InUse(s, p)
  PROVE  SInv'
<1>1. TypeOK
  BY DEF SInv
<1>2. {"error", "unlocked", "in use"} \subseteq Replies \ {"ok"}
  BY DEF Replies
<1>5. CASE TooFewArguments(s, p)
  <2>1. /\ Accepted(s, p) /\ Answer([q \in {p} |-> "error"])
        /\ UNCHANGED <<up, holder, lastCmdUnlock, serving, carried>>
    BY <1>5 DEF TooFewArguments
  <2>2. holder' = holder /\ lastCmdUnlock' = lastCmdUnlock
        /\ holder \in [Servers -> Users \union {Nobody}]
        /\ lastCmdUnlock \in [Servers -> BOOLEAN]
    BY <1>1, <2>1 DEF TypeOK
  <2> QED
    BY <1>2, <2>1, <2>2, AnsweredAtOnce
<1>3. CASE InUse(s, p)
  <2>1. /\ Accepted(s, p) /\ Answer([q \in {p} |-> "in use"])
        /\ UNCHANGED <<up, holder, lastCmdUnlock, serving, carried>>
    BY <1>3 DEF InUse
  <2>2. holder' = holder /\ lastCmdUnlock' = lastCmdUnlock
        /\ holder \in [Servers -> Users \union {Nobody}]
        /\ lastCmdUnlock \in [Servers -> BOOLEAN]
    BY <1>1, <2>1 DEF TypeOK
  <2> QED
    BY <1>2, <2>1, <2>2, AnsweredAtOnce
<1>4. CASE Unlock(s, p)
  <2>1. /\ holder' \in [Servers -> Users \union {Nobody}]
        /\ lastCmdUnlock' \in [Servers -> BOOLEAN]
        /\ \A t \in Servers : t # s => holder'[t] = holder[t]
    BY <1>1, <1>4 DEF Unlock, TypeOK
  <2>2. Accepted(s, p) /\ Answer([q \in {p} |-> "unlocked"])
        /\ UNCHANGED <<up, serving, carried>>
    BY <1>4 DEF Unlock
  <2> QED
    BY <1>2, <2>1, <2>2, AnsweredAtOnce
<1> QED
  BY <1>3, <1>4, <1>5

(* The command taken off the queue is the one carried out. *)
LEMMA ExecuteKeeps ==
  ASSUME SInv, NEW s \in Servers, NEW p \in Clients, Execute(s, p)
  PROVE  SInv'
<1>1. TypeOK /\ Accepted(s, p) /\ User[p] \in Users /\ p # Nobody
  BY ClientsAssumption DEF SInv, Execute
<1>2. /\ holder' = [holder EXCEPT ![s] = User[p]]
      /\ serving' = [serving EXCEPT ![s] = p]
      /\ carried' = [carried EXCEPT ![p] = "begun"]
      /\ UNCHANGED <<up, state, cmd, reply, dialog>>
      /\ lastCmdUnlock' \in [Servers -> BOOLEAN]
  BY <1>1 DEF Execute, Entitled, TypeOK
<1>3. /\ backlog' \in [Servers -> Seq(Clients)]
      /\ p = backlog[s][1] /\ 1 \in 1..Len(backlog[s])
      /\ \A t \in Servers : \A i \in 1..Len(backlog'[t]) :
           /\ backlog'[t][i] # p
           /\ \E j \in 1..Len(backlog[t]) : backlog'[t][i] = backlog[t][j]
      /\ QueuedOnce'
  BY <1>1, AcceptedFacts
<1>4. TypeOK'
  BY <1>1, <1>2, <1>3 DEF TypeOK
<1>5. \A t \in Servers :
        /\ t = s => serving'[t] = p /\ holder'[t] = User[p]
        /\ t # s => serving'[t] = serving[t] /\ holder'[t] = holder[t]
  BY <1>1, <1>2 DEF TypeOK
<1>6. \A t \in Servers : serving[t] # p
  BY <1>3 DEF SInv, ServedOnce
<1>7. ServedIsHolder'
  BY <1>5 DEF SInv, ServedIsHolder
<1>8. ServedOnce'
  <2>1. ASSUME NEW t \in Servers, NEW u \in Servers, serving'[t] = serving'[u]
        PROVE  t = u \/ serving'[t] = Nobody
    BY <2>1, <1>5, <1>6 DEF SInv, ServedOnce
  <2>2. ASSUME NEW t \in Servers, NEW u \in Servers, NEW i \in 1..Len(backlog'[t])
        PROVE  backlog'[t][i] # serving'[u]
    BY <1>3, <1>5 DEF SInv, ServedOnce
  <2> QED
    BY <2>1, <2>2 DEF ServedOnce
<1>9. ReadyIsFree'
  <2>1. state[p] # "ready"
    BY <1>3 DEF SInv, ReadyIsFree
  <2>2. ReadyIsFree /\ state' = state
    BY <1>2 DEF SInv
  <2>3. ASSUME NEW c \in Clients, NEW t \in Servers, NEW i \in 1..Len(backlog'[t]),
               state'[c] = "ready"
        PROVE  backlog'[t][i] # c
    <3>1. PICK j \in 1..Len(backlog[t]) : backlog'[t][i] = backlog[t][j]
      BY <1>3
    <3> QED
      BY <3>1, <2>2, <2>3 DEF ReadyIsFree
  <2>4. \A c \in Clients, t \in Servers : state'[c] = "ready" => serving'[t] # c
    BY <2>1, <2>2, <1>5 DEF ReadyIsFree
  <2> QED
    BY <2>3, <2>4 DEF ReadyIsFree
<1>10. QueuedNotBegun'
  <2>1. \A r \in Clients : r # p => carried'[r] = carried[r]
    BY <1>1, <1>2 DEF TypeOK
  <2>2. \A t \in Servers : \A i \in 1..Len(backlog[t]) : backlog[t][i] \in Clients
    BY <1>1 DEF TypeOK
  <2>3. QueuedNotBegun
    BY DEF SInv
  <2>4. ASSUME NEW t \in Servers, NEW i \in 1..Len(backlog'[t])
        PROVE  carried'[backlog'[t][i]] = "no"
    <3>1. PICK j \in 1..Len(backlog[t]) : backlog'[t][i] = backlog[t][j]
      BY <1>3
    <3>2. carried[backlog[t][j]] = "no" /\ backlog[t][j] \in Clients
      BY <2>2, <2>3 DEF QueuedNotBegun
    <3> QED
      BY <1>3, <2>1, <3>1, <3>2
  <2> QED
    BY <2>4 DEF QueuedNotBegun
<1>11. RepliesAreTrue'
  <2>1. state[p] # "ready"
    BY <1>3 DEF SInv, ReadyIsFree
  <2>2. \A r \in Clients : r # p => carried'[r] = carried[r]
    BY <1>1, <1>2 DEF TypeOK
  <2> QED
    BY <2>1, <2>2, <1>2 DEF SInv, RepliesAreTrue
<1> QED
  BY <1>3, <1>4, <1>7, <1>8, <1>9, <1>10, <1>11 DEF SInv

(* Its end is told to the client it was carried out for. *)
LEMMA ExecutedKeeps ==
  ASSUME SInv, NEW s \in Servers, Executed(s)
  PROVE  SInv'
<1> DEFINE p == serving[s]
<1>1. TypeOK /\ p \in Clients /\ p # Nobody
  BY DEF SInv, TypeOK, Executed
<1>2. /\ serving' = [serving EXCEPT ![s] = Nobody]
      /\ carried' = [carried EXCEPT ![p] = "yes"]
      /\ UNCHANGED <<up, holder, lastCmdUnlock, backlog>>
  BY DEF Executed
<1>3. PICK r \in {"ok", "error"} : Answer([q \in {p} |-> r])
  BY DEF Executed
<1> HIDE DEF p
<1>4. /\ state' \in [Clients -> {"gone", "ready"} \union Pending]
      /\ reply' \in [Clients -> Replies] /\ dialog' \in [Clients -> BOOLEAN]
      /\ cmd' \in [Clients -> Command]
      /\ \A c \in Clients : state'[c] = "ready" =>
           \/ state[c] = "ready" /\ reply'[c] = reply[c]
           \/ c = p /\ reply'[c] = r
  <2> DEFINE replies == [q \in {p} |-> r]
  <2>1. \A q \in DOMAIN replies : replies[q] \in Replies
    BY DEF Replies
  <2>2. Answer(replies)
    BY <1>3
  <2>3. DOMAIN replies = {p} /\ replies[p] = r
    OBVIOUS
  <2> HIDE DEF replies
  <2> QED
    BY <1>1, <2>1, <2>2, <2>3, AnswerFacts
<1>5. TypeOK'
  BY <1>1, <1>2, <1>4 DEF TypeOK
<1>6. \A t \in Servers :
        /\ t = s => serving'[t] = Nobody
        /\ t # s => serving'[t] = serving[t]
  BY <1>1, <1>2 DEF TypeOK
<1>7. ServedIsHolder' /\ QueuedOnce'
  BY <1>2, <1>6 DEF SInv, ServedIsHolder, QueuedOnce
<1>8. ServedOnce'
  <2>1. \A t \in Servers : \A i \in 1..Len(backlog[t]) : backlog[t][i] # Nobody
    BY <1>1, ClientsAssumption DEF TypeOK
  <2> QED
    BY <2>1, <1>2, <1>6 DEF SInv, ServedOnce
<1>9. ReadyIsFree'
  <2>1. ASSUME NEW c \in Clients, NEW t \in Servers, state'[c] = "ready"
        PROVE  serving'[t] # c /\ \A i \in 1..Len(backlog'[t]) : backlog'[t][i] # c
    <3>1. CASE state[c] = "ready"
      BY <3>1, <1>2, <1>6, ClientsAssumption DEF SInv, ReadyIsFree
    <3>2. CASE c = p
      BY <3>2, <1>1, <1>2, <1>6 DEF SInv, ServedOnce, p
    <3> QED
      BY <2>1, <3>1, <3>2, <1>4
  <2> QED
    BY <2>1 DEF ReadyIsFree
<1>10. \A c \in Clients : c # p => carried'[c] = carried[c]
  BY <1>1, <1>2 DEF TypeOK
<1>11. QueuedNotBegun'
  <2>1. \A t \in Servers : \A i \in 1..Len(backlog[t]) : backlog[t][i] \in Clients
    BY <1>1 DEF TypeOK
  <2>2. \A t \in Servers : \A i \in 1..Len(backlog[t]) : backlog[t][i] # p
    BY DEF SInv, ServedOnce, p
  <2> QED
    BY <2>1, <2>2, <1>2, <1>10 DEF SInv, QueuedNotBegun
<1>12. RepliesAreTrue'
  <2>1. state[p] # "ready" /\ carried'[p] = "yes"
    BY <1>1, <1>2 DEF SInv, TypeOK, ReadyIsFree, p
  <2> QED
    BY <2>1, <1>4, <1>10 DEF SInv, RepliesAreTrue
<1> QED
  BY <1>5, <1>7, <1>8, <1>9, <1>11, <1>12 DEF SInv

(* A server that ends takes its queue, its lock and its command with it. *)
LEMMA EndedKeeps ==
  ASSUME SInv, NEW s \in Servers, Ended(s),
         NEW replies, \A q \in DOMAIN replies : replies[q] \in Replies \ {"ok"},
         DOMAIN replies \subseteq Queued(s) \union ({serving[s]} \ {Nobody}),
         \A q \in DOMAIN replies : replies[q] \in {"lost", "closed"},
         Answer(replies), UNCHANGED carried
  PROVE  SInv'
<1>1. TypeOK
  BY DEF SInv
<1>2. /\ state' \in [Clients -> {"gone", "ready"} \union Pending]
      /\ reply' \in [Clients -> Replies] /\ dialog' \in [Clients -> BOOLEAN]
      /\ cmd' \in [Clients -> Command]
      /\ \A c \in Clients : state'[c] = "ready" =>
           \/ state[c] = "ready" /\ reply'[c] = reply[c]
           \/ c \in DOMAIN replies /\ reply'[c] \in {"lost", "closed"}
  BY <1>1, AnswerFacts
<1>3. << >> \in Seq(Clients) /\ Len(<< >>) = 0
  BY EmptySeq
<1>4. TypeOK'
  BY <1>1, <1>2, <1>3 DEF TypeOK, Ended
<1>5. \A t \in Servers :
        /\ t = s => serving'[t] = Nobody /\ Len(backlog'[t]) = 0
        /\ t # s => /\ serving'[t] = serving[t] /\ holder'[t] = holder[t]
                    /\ backlog'[t] = backlog[t]
  BY <1>1, <1>3 DEF TypeOK, Ended
<1>6. ServedIsHolder' /\ QueuedOnce' /\ QueuedNotBegun'
  BY <1>5 DEF SInv, ServedIsHolder, QueuedOnce, QueuedNotBegun
<1>7. \A t \in Servers : \A i \in 1..Len(backlog[t]) : backlog[t][i] # Nobody
  BY <1>1, ClientsAssumption DEF TypeOK
<1>8. ServedOnce'
  <2>1. ASSUME NEW t \in Servers, NEW u \in Servers, serving'[t] = serving'[u]
        PROVE  t = u \/ serving'[t] = Nobody
    BY <2>1, <1>5 DEF SInv, ServedOnce
  <2>2. ASSUME NEW t \in Servers, NEW u \in Servers, NEW i \in 1..Len(backlog'[t])
        PROVE  backlog'[t][i] # serving'[u]
    <3>1. t # s /\ i \in 1..Len(backlog[t]) /\ backlog'[t][i] = backlog[t][i]
      BY <1>5
    <3> QED
      BY <3>1, <1>5, <1>7 DEF SInv, ServedOnce
  <2> QED
    BY <2>1, <2>2 DEF ServedOnce
<1>9. ReadyIsFree'
  <2> SUFFICES ASSUME NEW c \in Clients, NEW t \in Servers, state'[c] = "ready"
               PROVE  serving'[t] # c
                      /\ \A i \in 1..Len(backlog'[t]) : backlog'[t][i] # c
    BY DEF ReadyIsFree
  <2>1. CASE t = s
    BY <2>1, <1>5, ClientsAssumption
  <2>2. CASE t # s /\ state[c] = "ready"
    BY <2>2, <1>5 DEF SInv, ReadyIsFree
  <2>3. CASE t # s /\ c \in DOMAIN replies
    <3>1. CASE c = serving[s] /\ c # Nobody
      <4>1. serving[t] # c
        BY <3>1, <2>3 DEF SInv, ServedOnce
      <4>2. \A i \in 1..Len(backlog[t]) : backlog[t][i] # c
        BY <3>1 DEF SInv, ServedOnce
      <4> QED
        BY <4>1, <4>2, <2>3, <1>5
    <3>2. CASE c \in Queued(s)
      <4>1. PICK j \in 1..Len(backlog[s]) : c = backlog[s][j]
        BY <3>2 DEF Queued
      <4>2. serving[t] # c
        BY <4>1 DEF SInv, ServedOnce
      <4>3. \A i \in 1..Len(backlog[t]) : backlog[t][i] # c
        BY <4>1, <2>3 DEF SInv, QueuedOnce
      <4> QED
        BY <4>2, <4>3, <2>3, <1>5
    <3> QED
      BY <2>3, <3>1, <3>2
  <2> QED
    BY <2>1, <2>2, <2>3, <1>2
<1>10. RepliesAreTrue'
  BY <1>2 DEF SInv, RepliesAreTrue
<1> QED
  BY <1>4, <1>6, <1>8, <1>9, <1>10 DEF SInv

(* The death of a server process, and the client that closes a server, *)
(* keep the invariant.                                                 *)
LEMMA EndsKeep ==
  ASSUME SInv, NEW s \in Servers,
         Crash(s) \/ \E p \in Clients : CloseServer(s, p)
  PROVE  SInv'
<1>1. {"lost", "closed"} \subseteq Replies \ {"ok"}
  BY DEF Replies
<1>2. CASE Crash(s)
  <2> DEFINE replies == [q \in Queued(s) \union ({serving[s]} \ {Nobody}) |-> "lost"]
  <2>1. /\ \A q \in DOMAIN replies : replies[q] = "lost"
        /\ DOMAIN replies \subseteq Queued(s) \union ({serving[s]} \ {Nobody})
    OBVIOUS
  <2>2. Ended(s) /\ Answer(replies) /\ UNCHANGED carried
    BY <1>2 DEF Crash
  <2> HIDE DEF replies
  <2> QED
    BY <1>1, <2>1, <2>2, EndedKeeps
<1>3. ASSUME NEW p \in Clients, CloseServer(s, p)
      PROVE  SInv'
  <2> DEFINE replies == [q \in Queued(s) |-> IF q = p THEN "closed" ELSE "lost"]
  <2>1. /\ \A q \in DOMAIN replies : replies[q] \in {"lost", "closed"}
        /\ DOMAIN replies \subseteq Queued(s) \union ({serving[s]} \ {Nobody})
    OBVIOUS
  <2>2. Ended(s) /\ Answer(replies) /\ UNCHANGED carried
    BY <1>3 DEF CloseServer
  <2> HIDE DEF replies
  <2> QED
    BY <1>1, <2>1, <2>2, EndedKeeps
<1> QED
  BY <1>2, <1>3

(* Every step keeps the invariant. *)
LEMMA NextSInv == SInv /\ [Next]_vars => SInv'
<1> SUFFICES ASSUME SInv, [Next]_vars PROVE SInv'
  OBVIOUS
<1>1. ASSUME UNCHANGED <<holder, lastCmdUnlock, backlog, serving, clients>>,
             up' \in [Servers -> BOOLEAN]
      PROVE  SInv'
  <2>1. TypeOK'
    BY <1>1 DEF SInv, TypeOK, clients
  <2>2. ServedIsHolder' /\ QueuedOnce' /\ ServedOnce'
    BY <1>1 DEF SInv, ServedIsHolder, QueuedOnce, ServedOnce
  <2>3. ReadyIsFree' /\ QueuedNotBegun' /\ RepliesAreTrue'
    BY <1>1 DEF SInv, clients, ReadyIsFree, QueuedNotBegun, RepliesAreTrue
  <2> QED
    BY <2>1, <2>2, <2>3 DEF SInv
<1>2. ASSUME NEW s \in Servers, Serve(s) PROVE SInv'
  BY <1>2, RefusalsKeep, ExecuteKeeps, EndsKeep, ExecutedKeeps DEF Serve, Decode
<1>3. ASSUME NEW s \in Servers, Start(s) PROVE SInv'
  BY <1>1, <1>3 DEF Start, SInv, TypeOK
<1>4. CASE UNCHANGED vars
  BY <1>1, <1>4 DEF vars, servers, SInv, TypeOK
<1> QED
  BY <1>2, <1>3, <1>4, ClientKeeps, EndsKeep DEF Next

(* The invariant holds in every reachable state. *)
THEOREM SessionInvariant == Spec => []SInv
<1> QED
  BY InitSInv, NextSInv, PTL DEF Spec

(* The variables of the servers and the clients keep their types. *)
THEOREM SessionTypeCorrect == Spec => []TypeOK
<1>1. SInv => TypeOK
  BY DEF SInv
<1> QED
  BY <1>1, SessionInvariant, PTL

(* A client told "ok" had its command carried out to the end, one told that *)
(* the box is in use had nothing done, whoever dies meanwhile.              *)
THEOREM TrueReplies == Spec => []RepliesAreTrue
<1>1. SInv => RepliesAreTrue
  BY DEF SInv
<1> QED
  BY <1>1, SessionInvariant, PTL

-----------------------------------------------------------------------------
(* A step seen from one server, in the terms of ExclusiveControl. *)
Exclusively(s) ==
  \/ \E u \in Users : /\ Running(s) = Nobody /\ holder[s] \in {u, Nobody}
                      /\ holder'[s] = u /\ Running(s)' = u
  \/ Running(s) # Nobody /\ Running(s)' = Nobody /\ holder'[s] = holder[s]
  \/ Running(s) = Nobody /\ holder'[s] = Nobody /\ Running(s)' = Running(s)
  \/ holder'[s] = Nobody /\ Running(s)' = Nobody
  \/ holder'[s] = holder[s] /\ Running(s)' = Running(s)

(* Every step of the system is, for the holder and the running command of *)
(* one server, a step of ExclusiveControl.                                *)
LEMMA ExclusiveStep ==
  ASSUME SInv, [Next]_vars, NEW s \in Servers
  PROVE  Exclusively(s)
<1>1. TypeOK
  BY DEF SInv
<1>2. ASSUME UNCHANGED <<holder, serving>> PROVE Exclusively(s)
  BY <1>2 DEF Exclusively, Running
<1>3. ASSUME NEW p \in Clients,
             Launch(p) \/ Send(p) \/ AcceptDialog(p) \/ DeclineDialog(p)
               \/ Close(p) \/ Die(p)
      PROVE  Exclusively(s)
  BY <1>2, <1>3 DEF Launch, Send, AcceptDialog, DeclineDialog, Close, Die, Request,
    servers
<1>4. ASSUME NEW t \in Servers, NEW p \in Clients,
             TooFewArguments(t, p) \/ InUse(t, p)
      PROVE  Exclusively(s)
  BY <1>2, <1>4 DEF TooFewArguments, InUse
<1>5. ASSUME NEW t \in Servers, NEW p \in Clients, Unlock(t, p)
      PROVE  Exclusively(s)
  BY <1>1, <1>5 DEF Unlock, Accepted, Exclusively, Running, TypeOK
<1>6. ASSUME NEW t \in Servers, NEW p \in Clients, Execute(t, p)
      PROVE  Exclusively(s)
  <2>1. User[p] \in Users /\ p # Nobody /\ User[p] # Nobody
    BY ClientsAssumption
  <2>2. /\ holder' = [holder EXCEPT ![t] = User[p]] /\ serving' = [serving EXCEPT ![t] = p]
        /\ serving[t] = Nobody /\ holder[t] \in {Nobody, User[p]}
    BY <1>6 DEF Execute, Accepted, Entitled
  <2>3. CASE s = t
    <3>1. holder'[s] = User[p] /\ serving'[s] = p
      BY <1>1, <2>2, <2>3 DEF TypeOK
    <3>2. Running(s) = Nobody /\ Running(s)' = User[p] /\ holder[s] \in {User[p], Nobody}
      BY <2>1, <2>2, <2>3, <3>1 DEF Running
    <3> QED
      BY <2>1, <3>1, <3>2 DEF Exclusively
  <2>4. CASE s # t
    BY <1>1, <2>2, <2>4 DEF Exclusively, Running, TypeOK
  <2> QED
    BY <2>3, <2>4
<1>7. ASSUME NEW t \in Servers, Executed(t) PROVE Exclusively(s)
  <2>1. /\ serving' = [serving EXCEPT ![t] = Nobody] /\ holder' = holder
        /\ serving[t] \in Clients
    BY <1>1, <1>7 DEF Executed, TypeOK
  <2>2. CASE s = t
    <3>1. serving'[s] = Nobody /\ serving[s] \in Clients
      BY <1>1, <2>1, <2>2 DEF TypeOK
    <3>2. Running(s) # Nobody /\ Running(s)' = Nobody
      BY <3>1, ClientsAssumption DEF Running
    <3> QED
      BY <2>1, <3>2 DEF Exclusively
  <2>3. CASE s # t
    BY <1>1, <2>1, <2>3 DEF Exclusively, Running, TypeOK
  <2> QED
    BY <2>2, <2>3
<1>8. ASSUME NEW t \in Servers, Ended(t) PROVE Exclusively(s)
  BY <1>1, <1>8 DEF Ended, Exclusively, Running, TypeOK
<1>9. ASSUME NEW t \in Servers, Start(t) PROVE Exclusively(s)
  BY <1>2, <1>9 DEF Start
<1>10. CASE UNCHANGED vars
  BY <1>2, <1>10 DEF vars, servers
<1> QED
  BY <1>3, <1>4, <1>5, <1>6, <1>7, <1>8, <1>9, <1>10
    DEF Next, Serve, Decode, Crash, CloseServer

(* Each of the two servers implements ExclusiveControl: commands are carried *)
(* out one at a time, for the holder alone, and the server does not change   *)
(* hands while one is.                                                       *)
THEOREM Exclusive == Spec => ControlIsExclusive
<1>1. Init => Control!Init /\ StopControl!Init
  BY DEF Init, Control!Init, StopControl!Init, Running, Servers
<1>2. SInv /\ [Next]_vars =>
        /\ [Control!Next]_<<holder["control"], Running("control")>>
        /\ [StopControl!Next]_<<holder["stop"], Running("stop")>>
  <2> SUFFICES ASSUME SInv, [Next]_vars
               PROVE  /\ [Control!Next]_<<holder["control"], Running("control")>>
                      /\ [StopControl!Next]_<<holder["stop"], Running("stop")>>
    OBVIOUS
  <2>1. Exclusively("control") /\ Exclusively("stop")
    BY ExclusiveStep DEF Servers
  <2> QED
    BY <2>1 DEF Exclusively, Control!Next, Control!Run, Control!Finish,
      Control!Release, Control!End, StopControl!Next, StopControl!Run,
      StopControl!Finish, StopControl!Release, StopControl!End
<1> QED
  BY <1>1, <1>2, SessionInvariant, PTL DEF Spec, ControlIsExclusive,
    Control!Spec, StopControl!Spec
=============================================================================
