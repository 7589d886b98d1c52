------------------------- MODULE FluorescenceProofs -------------------------
(***************************************************************************)
(* What Fluorescence states, for every number of places, every geometry    *)
(* and every configuration file.                                           *)
(***************************************************************************)
EXTENDS Fluorescence, TLAPS, FiniteSetTheorems, WellFoundedInduction

-----------------------------------------------------------------------------
(* Lengths along the stage *)

(* The quotient is what it should be. *)
LEMMA Quotient ==
  ASSUME NEW a \in Int, NEW b \in Nat \ {0}, NEW q \in Int,
         b * q <= a, a < b * (q + 1)
  PROVE  a \div b = q
  OBVIOUS

(* Places are whole numbers. *)
LEMMA PlaceInt ==
  ASSUME NEW i \in Int
  PROVE  place(i) \in Int
  BY FluorescenceAssumption DEF place

(* The position of target i is taken for target i. *)
LEMMA TargetAtPlace ==
  ASSUME NEW i \in Int
  PROVE  TargetAt(place(i)) = i
<1>1. Width \in Nat \ {0} /\ Offset \in Nat
  BY FluorescenceAssumption
<1> DEFINE w == 2 * Width
           a == 2 * (place(i) - Offset) + Width
<1>2. w \in Nat \ {0} /\ a \in Int
  BY <1>1 DEF place
<1>3. w * i <= a
  BY <1>1 DEF place
<1>4. a < w * (i + 1)
  BY <1>1 DEF place
<1> HIDE DEF w, a
<1>5. a \div w = i
  BY <1>2, <1>3, <1>4, Quotient
<1>6. QED
  BY <1>5 DEF w, a, TargetAt

-----------------------------------------------------------------------------
(* The first of a name *)

(* A set of places, not empty, has a first one. *)
LEMMA Least ==
  ASSUME NEW n \in Nat, NEW I \in SUBSET (0..(n - 1)), I # {}
  PROVE  \E i \in I : \A j \in I : i <= j
<1> DEFINE S == 0..(n - 1)
           before(i) == 0..(i - 1)
           T == {before(i) : i \in I}
<1>1. IsFiniteSet(S)
  BY FS_Interval
<1>2. IsWellFoundedOn(StrictSubsetOrdering(S), SUBSET S)
  BY <1>1, FS_StrictSubsetOrderingWellFounded, FS_FiniteSubsetsOfFinite
<1>3. T \subseteq SUBSET S /\ T # {}
  <2>1. ASSUME NEW i \in I PROVE before(i) \in SUBSET S
    OBVIOUS
  <2> HIDE DEF S, before
  <2> QED
    BY <2>1
<1>4. PICK x \in T : \A y \in T : <<y, x>> \notin StrictSubsetOrdering(S)
  <2> HIDE DEF S, T
  <2> QED
    BY <1>2, <1>3, WFMin
<1>5. PICK i \in I : x = before(i)
  BY <1>4
<1>6. ASSUME NEW j \in I, j < i PROVE FALSE
  <2>1. before(j) \in T
    OBVIOUS
  <2>2. before(j) \subseteq before(i) /\ j \in before(i) /\ j \notin before(j)
    BY <1>6
  <2>3. <<before(j), before(i)>> \in StrictSubsetOrdering(S)
    <3>1. before(j) \in SUBSET S /\ before(i) \in SUBSET S
      OBVIOUS
    <3> HIDE DEF before, S
    <3> QED
      BY <2>2, <3>1 DEF StrictSubsetOrdering
  <2> QED
    BY <1>4, <1>5, <2>1, <2>3
<1> QED
  BY <1>6

(* getTargetIndex finds a place of that name. *)
LEMMA TargetIndex ==
  ASSUME NEW h \in Holder, NEW t \in Targets(h)
  PROVE  getTargetIndex(h, t) \in 0..(Places - 1) /\ h.name[getTargetIndex(h, t)] = t
<1> DEFINE I == {i \in 0..(h.num - 1) : h.name[i] = t}
<1>1. h.num \in Nat /\ h.num <= Places /\ Places \in Nat
  BY FluorescenceAssumption DEF Holder
<1>2. I # {}
  BY DEF Targets
<1>3. PICK i \in I : \A j \in I : i <= j
  BY <1>1, <1>2, Least
<1>4. i \in 0..(h.num - 1) /\ h.name[i] = t /\ \A j \in 0..(i - 1) : h.name[j] # t
  BY <1>1, <1>3
<1>5. /\ getTargetIndex(h, t) \in 0..(h.num - 1)
      /\ h.name[getTargetIndex(h, t)] = t
  BY <1>4 DEF getTargetIndex
<1> QED
  BY <1>1, <1>5

-----------------------------------------------------------------------------
(* The limit of the motor *)
LEMMA LimitNat ==
  /\ UpperLimit \in Nat
  /\ \A i \in 0..(Places - 1) : place(i) \in 0..UpperLimit
<1>1. Width \in Nat \ {0} /\ Offset \in Nat /\ Places \in Nat \ {0}
  BY FluorescenceAssumption
<1>2. UpperLimit \in Nat
  BY <1>1 DEF UpperLimit, place
<1>3. ASSUME NEW i \in 0..(Places - 1) PROVE place(i) \in 0..UpperLimit
  <2>1. i * Width <= Places * Width /\ i * Width >= 0 /\ i * Width \in Int /\ Places * Width \in Int
    BY <1>1
  <2> QED
    BY <1>1, <2>1 DEF UpperLimit, place
<1> QED
  BY <1>2, <1>3

(* Within the range of the motor places are counted from 0 to Places. *)
LEMMA PlacesInRange ==
  ASSUME NEW p \in 0..UpperLimit, AtTarget(p)
  PROVE  TargetAt(p) \in 0..Places /\ p = place(TargetAt(p))
<1>1. /\ Width \in Nat \ {0} /\ Offset \in Nat /\ 2 * Offset < Width
      /\ Places \in Nat \ {0} /\ p \in Int
  BY LimitNat, FluorescenceAssumption
<1> DEFINE i == TargetAt(p)
<1>2. i \in Int
  BY <1>1 DEF TargetAt
<1>3. p = Offset + i * Width
  BY DEF AtTarget, place
<1>4. 0 <= p /\ p <= Offset + Places * Width
  BY <1>1 DEF UpperLimit, place
<1> HIDE DEF i
<1>5. i >= 0
  <2>1. SUFFICES ASSUME i <= -1 PROVE FALSE
    BY <1>2
  <2>2. i * Width <= (-1) * Width
    BY <1>1, <1>2, <2>1
  <2> QED
    BY <1>1, <1>2, <1>3, <1>4, <2>2
<1>6. i <= Places
  <2>1. SUFFICES ASSUME i >= Places + 1 PROVE FALSE
    BY <1>1, <1>2
  <2>2. i * Width >= (Places + 1) * Width /\ (Places + 1) * Width = Places * Width + Width
    BY <1>1, <1>2, <2>1
  <2>3. i * Width \in Int /\ Places * Width \in Int
    BY <1>1, <1>2
  <2> QED
    BY <1>1, <1>3, <1>4, <2>2, <2>3
<1> QED
  BY <1>1, <1>2, <1>3, <1>5, <1>6 DEF i, place

(* The laser is at no target's place: not even at the one past the last. *)
LEMMA LaserApart ==
  ASSUME LaserPosition # Unset
  PROVE  LaserPosition \in 0..UpperLimit /\ ~AtTarget(LaserPosition)
<1>1. LaserPosition \in 0..UpperLimit
  BY FluorescenceAssumption DEF UpperLimit, place
<1>2. ASSUME AtTarget(LaserPosition) PROVE FALSE
  BY <1>1, <1>2, PlacesInRange, FluorescenceAssumption DEF place
<1> QED
  BY <1>1, <1>2

(* A target that is known lies within the range of the motor, and the motor *)
(* there is taken for it: the laser and the rounding do not interfere.  The *)
(* laser of a wheel lies within the range, too, but is taken for nothing.   *)
LEMMA KnownIsReached ==
  ASSUME TypeOK, NEW t \in Words, Known(t)
  PROVE  /\ canMotorMove(Destination(t))
         /\ ~LaserOnWheel(t) => TargetName(Destination(t)) = t
         /\ LaserOnWheel(t) => /\ Destination(t) = LaserPosition
                               /\ TargetName(Destination(t)) = None
<1>1. Mounted \in Holder /\ circular \in BOOLEAN
  BY DEF TypeOK, Mounted
<1>2. UpperLimit \in Nat /\ LaserPosition \in Int /\ Places \in Nat \ {0}
  BY LimitNat, FluorescenceAssumption DEF Unset
<1>3. CASE t \in Targets(Mounted)
  <2> DEFINE i == getTargetIndex(Mounted, t)
  <2>1. i \in 0..(Places - 1) /\ Mounted.name[i] = t
    BY <1>1, <1>3, TargetIndex
  <2> HIDE DEF i
  <2>2. place(i) \in 0..UpperLimit /\ TargetAt(place(i)) = i
    BY <2>1, LimitNat, TargetAtPlace
  <2>3. ~AtLaser(place(i)) /\ AtTarget(place(i))
    BY <2>2, LaserApart DEF AtLaser, AtTarget
  <2>4. Destination(t) = place(i)
    BY <1>3 DEF Destination, i
  <2>5. ~LaserOnWheel(t)
    <3>1. t \in Name \cup {Nothing}
      BY <1>1, <2>1 DEF Holder
    <3> QED
      BY <3>1, FluorescenceAssumption DEF LaserOnWheel, Laser, Nothing
  <2> QED
    BY <1>2, <2>1, <2>2, <2>3, <2>4, <2>5 DEF TargetName, canMotorMove
<1>4. CASE t \notin Targets(Mounted)
  <2>1. t = Laser /\ LaserPosition # Unset /\ Destination(t) = LaserPosition
    BY <1>4 DEF Known, Destination
  <2>2. LaserPosition \in 0..UpperLimit /\ ~AtTarget(LaserPosition)
    BY <2>1, LaserApart
  <2>3. TargetName(LaserPosition) = IF circular THEN None ELSE Laser
    BY <1>1, <2>1, <2>2 DEF TargetName, AtLaser
  <2> QED
    BY <1>1, <1>2, <2>1, <2>2, <2>3 DEF LaserOnWheel, canMotorMove
<1> QED
  BY <1>3, <1>4

-----------------------------------------------------------------------------
(* Types *)

(* addTarget, line by line: a holder for each Places of them, the last with *)
(* what is left over.                                                       *)
LEMMA StartType ==
  Start \in Seq(Holder) /\ Len(Start) \in Nat \ {0}
<1> DEFINE n == Len(Configured)
           d == (n + Places - 1) \div Places
           at(k, i) == (k - 1) * Places + i + 1
           name(k) == [i \in 0..(Places - 1) |->
                         IF at(k, i) <= n THEN Configured[at(k, i)] ELSE Nothing]
           num(k) == IF k * Places <= n THEN Places ELSE n - (k - 1) * Places
<1>1. n \in Nat \ {0} /\ Places \in Nat \ {0} /\ Configured \in Seq(Name)
  BY FluorescenceAssumption
<1>2. d \in Nat \ {0} /\ d * Places <= n + Places - 1
  BY <1>1
<1>3. ASSUME NEW k \in 1..d PROVE num(k) \in 0..Places
  <2>1. k * Places <= d * Places /\ (k - 1) * Places = k * Places - Places
    BY <1>1, <1>2
  <2>2. k * Places \in Int /\ d * Places \in Int
    BY <1>1, <1>2
  <2> QED
    BY <1>1, <1>2, <2>1, <2>2
<1>4. ASSUME NEW k \in 1..d PROVE name(k) \in [0..(Places - 1) -> Name \cup {Nothing}]
  <2>1. ASSUME NEW i \in 0..(Places - 1), at(k, i) <= n
        PROVE  Configured[at(k, i)] \in Name
    <3>1. (k - 1) * Places \in Nat
      BY <1>1, <1>2
    <3>2. at(k, i) \in 1..n
      BY <1>1, <3>1, <2>1
    <3> QED
      BY <1>1, <3>2
  <2> QED
    BY <2>1
<1>5. Start = [k \in 1..d |-> [name |-> name(k), num |-> num(k)]]
  BY DEF Start
<1> HIDE DEF d, n, name, num
<1>6. Start \in [1..d -> Holder]
  BY <1>3, <1>4, <1>5 DEF Holder
<1> QED
  BY <1>2, <1>6

(* What TypeOK says of the server and of the GUI. *)
DeviceOK ==
  /\ holders \in Seq(Holder)
  /\ current \in 0..(Len(holders) - 1)
  /\ pos \in 0..UpperLimit

AnswerOK == answer \in [asked : Words, said : Words, halted : BOOLEAN]

ViewOK ==
  /\ combo \in Nat /\ holder \in -1..(combo - 1)
  /\ list \subseteq Words /\ target \in Words
  /\ warned \in BOOLEAN

(* What the type invariant says, part by part. *)
LEMMA TypeParts ==
  TypeOK <=> /\ circular \in BOOLEAN /\ DeviceOK /\ AnswerOK /\ ViewOK
             /\ todo \in Seq(Commands) /\ changed \in BOOLEAN
  BY DEF TypeOK, DeviceOK, AnswerOK, ViewOK

(* The same of the next state. *)
LEMMA TypePartsNext ==
  ASSUME TypeOK, UNCHANGED circular, DeviceOK', AnswerOK', ViewOK',
         todo' \in Seq(Commands), changed' \in BOOLEAN
  PROVE  TypeOK'
  BY DEF TypeOK, DeviceOK, AnswerOK, ViewOK

(* Whatever names the server gives are words. *)
LEMMA HolderWords ==
  ASSUME NEW h \in Holder
  PROVE  /\ Targets(h) \subseteq Words
         /\ \A i \in 0..(Places - 1) : h.name[i] \in Words
<1>1. /\ h.num \in 0..Places /\ Places \in Nat
      /\ \A i \in 0..(Places - 1) : h.name[i] \in Name \cup {Nothing}
  BY FluorescenceAssumption DEF Holder
<1> QED
  BY <1>1 DEF Targets, Words

(* The current holder is one of the holders, with a target at each of its places. *)
LEMMA MountedHolder ==
  ASSUME DeviceOK
  PROVE  Mounted \in Holder
  BY DEF DeviceOK, Mounted

(* What a look-up gives is a name, the garbage past the end included. *)
LEMMA NameIsWord ==
  ASSUME DeviceOK, NEW p
  PROVE  TargetName(p) \in Words
<1>1. \A i \in 0..(Places - 1) : Mounted.name[i] \in Words
  BY MountedHolder, HolderWords
<1> QED
  BY <1>1 DEF TargetName, Words

-----------------------------------------------------------------------------
(* The commands keep the server's types. *)

(* The operators of the server keep their types: the motor's drive, *)
LEMMA DriveKeeps ==
  ASSUME DeviceOK, NEW p, Drive(p)
  PROVE  DeviceOK'
  BY DEF DeviceOK, Drive, Between, UpperLimit, place

(* the choice of a holder, *)
LEMMA ChooseKeeps ==
  ASSUME DeviceOK, NEW i, setCurrentTargetHolder(i)
  PROVE  DeviceOK'
  BY DEF DeviceOK, setCurrentTargetHolder, Exists, UpperLimit, place

(* its deletion, *)
LEMMA DeleteKeeps ==
  ASSUME DeviceOK, deleteLastTargetHolder
  PROVE  DeviceOK'
<1>1. Len(holders) \in Nat /\ Len(holders) > 1
  BY DEF DeviceOK, deleteLastTargetHolder
<1>2. holders' \in Seq(Holder) /\ Len(holders') = Len(holders) - 1
  BY <1>1 DEF DeviceOK, deleteLastTargetHolder
<1>3. current' \in 0..(Len(holders') - 1)
  BY <1>1, <1>2 DEF DeviceOK, deleteLastTargetHolder
<1> QED
  BY <1>2, <1>3 DEF DeviceOK, deleteLastTargetHolder, UpperLimit, place

(* its addition, *)
LEMMA AddKeeps ==
  ASSUME DeviceOK, NEW names \in NewHolders, addHolder(names)
  PROVE  DeviceOK'
<1>1. Full(names) \in Holder
  BY FluorescenceAssumption DEF Full, Holder
<1>2. holders' \in Seq(Holder) /\ Len(holders') = Len(holders) + 1
  BY <1>1 DEF DeviceOK, addHolder
<1> QED
  BY <1>2 DEF DeviceOK, addHolder, UpperLimit, place

(* the change of a target. *)
LEMMA ChangeKeeps ==
  ASSUME DeviceOK, NEW i, NEW j, NEW t \in NewNames, changefl(i, j, t)
  PROVE  DeviceOK'
<1> DEFINE h == holders[i + 1]
<1>1. i + 1 \in 1..Len(holders) /\ h \in Holder
  BY DEF DeviceOK, changefl, Exists
<1>2. changeTarget(h, j, t) \in Holder
  BY <1>1, FluorescenceAssumption DEF changeTarget, Holder
<1>3. holders' = [holders EXCEPT ![i + 1] = changeTarget(h, j, t)]
  BY DEF changefl
<1> HIDE DEF h
<1>4. holders' \in Seq(Holder) /\ Len(holders') = Len(holders)
  BY <1>1, <1>2, <1>3 DEF DeviceOK
<1> QED
  BY <1>4 DEF DeviceOK, changefl, UpperLimit, place

(* setfl, done or refused, ends where it says. *)
LEMMA SetflKeeps ==
  ASSUME TypeOK, UNCHANGED circular, NEW t \in Words, setfl(t) \/ setflRefused(t)
  PROVE  DeviceOK' /\ AnswerOK' /\ TargetReached'
<1>1. DeviceOK /\ AnswerOK
  BY TypeParts
<1>2. CASE setfl(t)
  <2>1. DeviceOK'
    BY <1>1, <1>2, DriveKeeps DEF setfl
  <2>2. answer' = [asked |-> t, said |-> TargetName(pos'), halted |-> pos' # Destination(t)]
    BY <1>2 DEF setfl, Answered
  <2>3. TargetName(pos') \in Words
    BY <1>1, NameIsWord
  <2>4. pos' = Destination(t) =>
          TargetName(pos') = IF LaserOnWheel(t) THEN None ELSE t
    BY <1>2, KnownIsReached DEF setfl
  <2>5. LaserOnWheel(t)' <=> LaserOnWheel(t)
    BY DEF LaserOnWheel
  <2> QED
    BY <2>1, <2>2, <2>3, <2>4, <2>5 DEF AnswerOK, TargetReached, LaserOnWheel
<1>3. CASE setflRefused(t)
  <2>1. ~Known(t) /\ Answered(t, "unknown", FALSE) /\ UNCHANGED device
    BY <1>3, KnownIsReached DEF setflRefused
  <2> QED
    BY <1>1, <2>1 DEF Answered, AnswerOK, TargetReached, DeviceOK, device, Words,
      UpperLimit, place
<1> QED
  BY <1>2, <1>3

(* The other commands have no such answer. *)
LEMMA NotAskedKeeps ==
  ASSUME NotAsked
  PROVE  AnswerOK' /\ TargetReached'
  BY DEF NotAsked, NoAnswer, AnswerOK, TargetReached, Words

-----------------------------------------------------------------------------
(* The invariant *)

(* What an operation of the GUI may still have to send. *)
Todos ==
  {<< >>, <<"getholder">>, <<"fllist">>, <<"getfl">>, <<"setholder">>, <<"setfl">>,
   <<"numflist", "getholder">>}

(* Once the server's holder has been read, or set, it is the one shown. *)
HolderAgrees ==
  ~changed /\ todo \in {<< >>, <<"fllist">>, <<"getfl">>, <<"setfl">>} =>
    holder = IF current < combo THEN current ELSE -1

FInv == TypeOK /\ todo \in Todos /\ TargetReached /\ HolderAgrees /\ GuiShowsTruth

(* A command that the GUI sends is the last or followed by getholder. *)
LEMMA TodoHead ==
  ASSUME todo \in Todos, NEW c, Sends(c), NEW cs, Continue(cs)
  PROVE  IF c = "numflist" THEN todo' = cs \o <<"getholder">>
         ELSE todo = <<c>> /\ todo' = cs \o << >>
<1>1. todo # << >> /\ Head(todo) = c
  BY DEF Sends
<1>2. CASE todo = <<"numflist", "getholder">>
  <2>1. Head(todo) = "numflist" /\ Tail(todo) = <<"getholder">>
    BY <1>2
  <2> QED
    BY <1>1, <2>1 DEF Continue
<1>3. CASE todo # <<"numflist", "getholder">>
  <2>1. PICK d \in {"getholder", "fllist", "getfl", "setholder", "setfl"} : todo = <<d>>
    BY <1>1, <1>3 DEF Todos
  <2>2. Head(todo) = d /\ Tail(todo) = << >>
    BY <2>1
  <2> QED
    BY <1>1, <2>1, <2>2 DEF Continue
<1> QED
  BY <1>2, <1>3

(* What may be pending is a list of commands. *)
LEMMA TodosType == Todos \subseteq Seq(Commands)
  BY DEF Todos, Commands

(* The configuration file gives a state in which the invariant holds. *)
LEMMA InitFInv == Init => FInv
<1> SUFFICES ASSUME Init PROVE FInv
  OBVIOUS
<1>1. DeviceOK
  BY StartType DEF Init, DeviceOK
<1>2. AnswerOK /\ TargetReached
  BY DEF Init, NoAnswer, AnswerOK, TargetReached, Words
<1>4. ViewOK
  <2>1. combo = 0 /\ holder = -1
    BY DEF Init
  <2>4. warned \in BOOLEAN
    BY DEF Init
  <2>2. list \subseteq Words
    BY DEF Init
  <2>3. target \in Words
    BY DEF Init, Words
  <2> QED
    BY <2>1, <2>2, <2>3, <2>4 DEF ViewOK
<1>3. todo \in Todos /\ todo # << >> /\ todo # <<"fllist">> /\ todo # <<"getfl">> /\ todo # <<"setfl">>
  BY DEF Init, Todos
<1> QED
  BY <1>1, <1>2, <1>3, <1>4, TypeParts, TodosType DEF Init, FInv, HolderAgrees, GuiShowsTruth, Idle

(* What other clients do is either nothing to the device, or a change. *)
LEMMA OthersKeep == FInv /\ Others /\ UNCHANGED circular => FInv'
<1> SUFFICES ASSUME FInv, Others, UNCHANGED circular PROVE FInv'
  OBVIOUS
<1>1. TypeOK /\ DeviceOK /\ AnswerOK /\ ViewOK
  BY TypeParts DEF FInv
<1>2. DeviceOK' /\ AnswerOK' /\ TargetReached'
  <2>1. CASE /\ \/ \E i \in 0..(MaxHolders - 1) : setCurrentTargetHolder(i)
                \/ deleteLastTargetHolder
                \/ \E names \in NewHolders : addHolder(names)
                \/ \E i \in 0..(MaxHolders - 1), j \in 0..(Places - 1), t \in NewNames :
                     changefl(i, j, t)
                \/ \E p \in 0..UpperLimit : Drive(p)
             /\ NotAsked
    BY <1>1, <2>1, ChooseKeeps, DeleteKeeps, AddKeeps, ChangeKeeps, DriveKeeps, NotAskedKeeps
  <2>2. CASE \E t \in Name \cup {Laser} : setfl(t) \/ setflRefused(t)
    <3>1. Name \cup {Laser} \subseteq Words
      BY DEF Words
    <3> QED
      BY <1>1, <2>2, <3>1, SetflKeeps
  <2> QED
    BY <2>1, <2>2 DEF Others
<1>3. /\ UNCHANGED <<combo, holder, list, target, warned, todo>>
      /\ changed' \in BOOLEAN
      /\ changed \/ device' # device => changed'
  BY <1>1 DEF Others, view, FInv, TypeOK
<1>4. TypeOK'
  <2>1. ViewOK' /\ todo' \in Seq(Commands)
    BY <1>1, <1>3, TypeParts DEF ViewOK, FInv
  <2> QED
    BY <1>1, <1>2, <1>3, <2>1, TypePartsNext
<1>5. CASE changed'
  BY <1>2, <1>3, <1>4, <1>5 DEF FInv, HolderAgrees, GuiShowsTruth
<1>6. CASE ~changed'
  <2>1. UNCHANGED <<holders, current, pos>> /\ ~changed
    BY <1>3, <1>6 DEF device
  <2> QED
    BY <1>2, <1>3, <1>4, <2>1 DEF FInv, HolderAgrees, GuiShowsTruth, Idle, LaserOnWheel,
      TargetName, Mounted, AtLaser, AtTarget, TargetAt, place
<1> QED
  BY <1>5, <1>6

(* Each action keeps the invariant: a restart of the server, *)
LEMMA RestartKeeps == FInv /\ Restart /\ UNCHANGED circular => FInv'
<1> SUFFICES ASSUME FInv, Restart, UNCHANGED circular PROVE FInv'
  OBVIOUS
<1>1. DeviceOK /\ ViewOK /\ todo \in Todos
  BY TypeParts DEF FInv
<1>2. DeviceOK'
  BY <1>1, StartType DEF Restart, DeviceOK, UpperLimit, place
<1>3. AnswerOK' /\ TargetReached'
  BY NotAskedKeeps DEF Restart
<1>4. ViewOK' /\ todo' \in Todos /\ changed'
  BY <1>1 DEF Restart, ViewOK, view
<1>5. changed' \in BOOLEAN
  BY DEF Restart
<1>6. (todo \in Seq(Commands))'
  BY <1>4, TodosType DEF Commands
<1>7. TypeOK'
  BY <1>2, <1>3, <1>4, <1>5, <1>6, TypePartsNext DEF FInv
<1> QED
  BY <1>3, <1>4, <1>7 DEF FInv, HolderAgrees, GuiShowsTruth

(* What the user does leaves the device alone, but for a drive, which is    *)
(* followed by a question for the target or counted as a change.           *)
LEMMA UserKeeps == FInv /\ User /\ UNCHANGED circular => FInv'
<1> SUFFICES ASSUME FInv, User, UNCHANGED circular PROVE FInv'
  OBVIOUS
<1>1. TypeOK /\ DeviceOK /\ ViewOK /\ Idle /\ changed \in BOOLEAN
  BY TypeParts DEF FInv, User, PickHolder, PickTarget, PickPosition, Update, OptionsClosed
<1>2. AnswerOK' /\ TargetReached'
  BY NotAskedKeeps DEF User, PickHolder, PickTarget, PickPosition, Update, OptionsClosed
<1>3. \/ todo' = << >> /\ changed' = TRUE
      \/ todo' # << >> /\ changed' = changed
  BY DEF User, PickHolder, PickTarget, PickPosition, MoveMotor, Calibrate, Update, OptionsClosed
<1>4. DeviceOK'
  <2>1. CASE PickPosition
    BY <1>1, <2>1, DriveKeeps DEF PickPosition, MoveMotor, Calibrate
  <2>2. CASE PickHolder \/ PickTarget \/ Update \/ OptionsClosed
    <3>1. UNCHANGED device
      BY <2>2 DEF PickHolder, PickTarget, Update, OptionsClosed
    <3> QED
      BY <1>1, <3>1 DEF device, DeviceOK, UpperLimit, place
  <2> QED
    BY <2>1, <2>2 DEF User
<1>5. ViewOK'
  <2>1. CASE PickHolder
    BY <1>1, <2>1 DEF PickHolder, ViewOK
  <2>2. CASE PickTarget
    BY <1>1, <2>2 DEF PickTarget, ViewOK
  <2>3. CASE PickPosition \/ Update \/ OptionsClosed
    BY <1>1, <2>3 DEF PickPosition, Update, OptionsClosed, view, ViewOK
  <2> QED
    BY <2>1, <2>2, <2>3 DEF User
<1>6. todo' \in Todos
  <2>1. \/ todo' = <<"setholder">> \/ todo' = <<"setfl">> \/ todo' = <<"getfl">>
        \/ todo' = <<"getholder">> \/ todo' = <<"numflist", "getholder">> \/ todo' = << >>
    BY DEF User, PickHolder, PickTarget, PickPosition, MoveMotor, Calibrate, Update, OptionsClosed
  <2> QED
    BY <2>1 DEF Todos
<1>7. TypeOK'
  BY <1>1, <1>2, <1>3, <1>4, <1>5, <1>6, TodosType, TypePartsNext
<1>8. HolderAgrees'
  <2>1. CASE PickTarget \/ PickPosition
    <3>1. UNCHANGED <<holder, current, combo>>
      BY <2>1 DEF PickTarget, PickPosition, MoveMotor, Calibrate, Drive, device, view
    <3> QED
      BY <1>1, <1>3, <3>1 DEF FInv, HolderAgrees, Idle
  <2>2. CASE PickHolder \/ Update \/ OptionsClosed
    <3>1. \/ todo' = <<"setholder">>
          \/ todo' = <<"getholder">> \/ todo' = <<"numflist", "getholder">>
      BY <2>2 DEF PickHolder, Update, OptionsClosed
    <3>2. todo' \notin {<< >>, <<"fllist">>, <<"getfl">>, <<"setfl">>}
      BY <3>1
    <3> QED
      BY <3>2 DEF HolderAgrees
  <2> QED
    BY <2>1, <2>2 DEF User
<1> QED
  BY <1>2, <1>3, <1>6, <1>7, <1>8 DEF FInv, GuiShowsTruth, Idle

-----------------------------------------------------------------------------
(* The commands of the GUI *)

(* the GUI's reading of the holders, *)
LEMMA UpdateHolderListKeeps == FInv /\ UpdateHolderList /\ UNCHANGED circular => FInv'
<1> SUFFICES ASSUME FInv, UpdateHolderList, UNCHANGED circular PROVE FInv'
  OBVIOUS
<1>1. DeviceOK /\ ViewOK /\ changed \in BOOLEAN
  BY TypeParts DEF FInv
<1>2. AnswerOK' /\ TargetReached'
  BY NotAskedKeeps DEF UpdateHolderList
<1>3. todo' = <<"getholder">>
  BY TodoHead DEF FInv, UpdateHolderList
<1>4. DeviceOK' /\ changed' \in BOOLEAN
  BY <1>1 DEF UpdateHolderList, device, DeviceOK, UpperLimit, place
<1>5. ViewOK'
  BY <1>1 DEF UpdateHolderList, ViewOK, DeviceOK
<1>6. todo' \in Todos /\ todo' \notin {<< >>, <<"fllist">>, <<"getfl">>, <<"setfl">>}
  BY <1>3 DEF Todos
<1> QED
  BY <1>2, <1>4, <1>5, <1>6, TodosType, TypePartsNext
    DEF FInv, HolderAgrees, GuiShowsTruth, Idle

(* of the current holder, *)
LEMMA GetHolderKeeps == FInv /\ GetHolder /\ UNCHANGED circular => FInv'
<1> SUFFICES ASSUME FInv, GetHolder, UNCHANGED circular PROVE FInv'
  OBVIOUS
<1>1. DeviceOK /\ ViewOK
  BY TypeParts DEF FInv
<1>2. AnswerOK' /\ TargetReached'
  BY NotAskedKeeps DEF GetHolder
<1>3. todo' = <<"fllist">>
  BY TodoHead DEF FInv, GetHolder
<1>4. DeviceOK' /\ changed' \in BOOLEAN
  BY <1>1 DEF GetHolder, device, DeviceOK, UpperLimit, place
<1>5. ViewOK'
  BY <1>1 DEF GetHolder, ViewOK, DeviceOK
<1>6. todo' \in Todos /\ todo' # << >>
  BY <1>3 DEF Todos
<1>7. HolderAgrees'
  BY DEF GetHolder, device, HolderAgrees
<1> QED
  BY <1>2, <1>4, <1>5, <1>6, <1>7, TodosType, TypePartsNext
    DEF FInv, GuiShowsTruth, Idle

(* of the targets, *)
LEMMA GetTargetListKeeps == FInv /\ GetTargetList /\ UNCHANGED circular => FInv'
<1> SUFFICES ASSUME FInv, GetTargetList, UNCHANGED circular PROVE FInv'
  OBVIOUS
<1>1. DeviceOK /\ ViewOK /\ changed \in BOOLEAN
  BY TypeParts DEF FInv
<1>2. AnswerOK' /\ TargetReached'
  BY NotAskedKeeps DEF GetTargetList
<1>3. todo = <<"fllist">> /\ todo' = <<"getfl">>
  BY TodoHead DEF FInv, GetTargetList
<1>4. DeviceOK' /\ changed' \in BOOLEAN
  BY <1>1 DEF GetTargetList, device, DeviceOK, UpperLimit, place
<1>5. ViewOK'
  <2>1. holders[holder + 1] \in Holder
    BY <1>1 DEF GetTargetList, Exists, DeviceOK
  <2>2. 0 \in 0..(Places - 1)
    BY FluorescenceAssumption
  <2>3. FirstListed(holder) \in Words /\ Listing(holder) \subseteq Words
    BY <2>1, <2>2, HolderWords DEF FirstListed, Listing, Words
  <2> QED
    BY <1>1, <2>3 DEF GetTargetList, ViewOK
<1>6. todo' \in Todos /\ todo' # << >>
  BY <1>3 DEF Todos
<1>7. HolderAgrees'
  BY <1>3 DEF FInv, GetTargetList, device, HolderAgrees
<1> QED
  BY <1>2, <1>4, <1>5, <1>6, <1>7, TodosType, TypePartsNext
    DEF FInv, GuiShowsTruth, Idle

(* of the current target, *)
LEMMA GetTargetKeeps == FInv /\ GetTarget /\ UNCHANGED circular => FInv'
<1> SUFFICES ASSUME FInv, GetTarget, UNCHANGED circular PROVE FInv'
  OBVIOUS
<1>1. DeviceOK /\ ViewOK /\ changed \in BOOLEAN
  BY TypeParts DEF FInv
<1>2. AnswerOK' /\ TargetReached'
  BY NotAskedKeeps DEF GetTarget
<1>3. todo = <<"getfl">> /\ todo' = << >>
  BY TodoHead DEF FInv, GetTarget
<1>4. DeviceOK' /\ changed' \in BOOLEAN
  BY <1>1 DEF GetTarget, device, DeviceOK, UpperLimit, place
<1>5. ViewOK'
  BY <1>1, NameIsWord DEF GetTarget, ViewOK
<1>6. todo' \in Todos
  BY <1>3 DEF Todos
<1>7. HolderAgrees'
  BY <1>3 DEF FInv, GetTarget, device, HolderAgrees
<1>8. GuiShowsTruth'
  <2>1. warned' \/ target' = TargetName(pos)
    BY DEF GetTarget
  <2>2. TargetName(pos)' = TargetName(pos)
    BY DEF GetTarget, device, TargetName, Mounted, AtLaser, AtTarget, TargetAt, place
  <2> QED
    BY <1>3, <1>7, <2>1, <2>2 DEF HolderAgrees, GuiShowsTruth
<1> QED
  BY <1>2, <1>4, <1>5, <1>6, <1>7, <1>8, TodosType, TypePartsNext DEF FInv

(* its choice of a holder, *)
LEMMA SetHolderKeeps == FInv /\ SetHolder /\ UNCHANGED circular => FInv'
<1> SUFFICES ASSUME FInv, SetHolder, UNCHANGED circular PROVE FInv'
  OBVIOUS
<1>1. DeviceOK /\ ViewOK
  BY TypeParts DEF FInv
<1>2. AnswerOK' /\ TargetReached'
  BY NotAskedKeeps DEF SetHolder
<1>3. todo' = <<"fllist">>
  BY TodoHead DEF FInv, SetHolder
<1>4. DeviceOK' /\ changed' \in BOOLEAN
  BY <1>1, ChooseKeeps DEF SetHolder
<1>5. ViewOK'
  BY <1>1 DEF SetHolder, view, ViewOK
<1>6. todo' \in Todos /\ todo' # << >>
  BY <1>3 DEF Todos
<1>7. HolderAgrees'
  BY <1>1 DEF SetHolder, setCurrentTargetHolder, view, ViewOK, HolderAgrees
<1> QED
  BY <1>2, <1>4, <1>5, <1>6, <1>7, TodosType, TypePartsNext
    DEF FInv, GuiShowsTruth, Idle

(* The target that is shown is the one that was asked for, and reached,    *)
(* be it the laser's place.                                                *)
LEMMA SetTargetKeeps == FInv /\ SetTarget /\ UNCHANGED circular => FInv'
<1> SUFFICES ASSUME FInv, SetTarget, UNCHANGED circular PROVE FInv'
  OBVIOUS
<1>1. TypeOK /\ DeviceOK /\ ViewOK /\ changed \in BOOLEAN
  BY TypeParts DEF FInv
<1>2. DeviceOK' /\ AnswerOK' /\ TargetReached'
  BY <1>1, SetflKeeps DEF SetTarget, ViewOK
<1>3. todo = <<"setfl">> /\ todo' = << >>
  BY TodoHead DEF FInv, SetTarget
<1>4. changed' \in BOOLEAN
  BY <1>1, <1>2 DEF SetTarget, AnswerOK
<1>5. ViewOK'
  BY <1>1 DEF SetTarget, ViewOK
<1>6. todo' \in Todos
  BY <1>3 DEF Todos
<1>7. HolderAgrees'
  BY <1>3 DEF FInv, SetTarget, setfl, Drive, HolderAgrees
<1>8. GuiShowsTruth'
  <2>1. ASSUME ~changed'
        PROVE  \/ target' = TargetName(pos)'
               \/ LaserOnWheel(target)' /\ pos' = LaserPosition
    <3>1. pos' = Destination(target)
      BY <2>1 DEF SetTarget, setfl, Answered
    <3>2. \/ TargetName(pos') = target
          \/ LaserOnWheel(target) /\ pos' = LaserPosition
      BY <1>1, <3>1, KnownIsReached DEF SetTarget, setfl, ViewOK
    <3>3. TargetName(pos)' = TargetName(pos')
      BY DEF SetTarget, setfl, Drive, TargetName, Mounted, AtLaser, AtTarget, TargetAt,
        place
    <3> QED
      BY <3>2, <3>3 DEF SetTarget, LaserOnWheel
  <2> QED
    BY <1>3, <1>7, <2>1 DEF HolderAgrees, GuiShowsTruth
<1> QED
  BY <1>2, <1>4, <1>5, <1>6, <1>7, <1>8, TodosType, TypePartsNext DEF FInv

(* A list that is refused is that of no holder, for the current one exists. *)
LEMMA RefusedKeeps == FInv /\ Refused /\ UNCHANGED circular => FInv'
<1> SUFFICES ASSUME FInv, Refused, UNCHANGED circular PROVE FInv'
  OBVIOUS
<1>1. TypeOK /\ DeviceOK /\ ViewOK /\ changed \in BOOLEAN
  BY TypeParts DEF FInv
<1>2. DeviceOK' /\ AnswerOK' /\ TargetReached'
  <2>1. CASE NotAsked /\ UNCHANGED device
    BY <1>1, <2>1, NotAskedKeeps DEF device, DeviceOK, UpperLimit, place
  <2>2. CASE setflRefused(target)
    BY <1>1, <2>2, SetflKeeps DEF ViewOK
  <2> QED
    BY <2>1, <2>2 DEF Refused
<1>3. /\ UNCHANGED <<device, combo, holder, list, target, warned, changed>>
      /\ Continue(Fallback)
  BY DEF Refused, setflRefused, view
<1>4. ViewOK' /\ changed' \in BOOLEAN
  BY <1>1, <1>3 DEF ViewOK
<1>5. CASE Sends("setholder") \/ Sends("setfl")
  <2>1. \/ todo' = <<"getholder">>
        \/ todo = <<"setfl">> /\ todo' = <<"getfl">>
    <3>1. CASE Sends("setholder")
      <4>1. todo' = Fallback \o << >> /\ todo = <<"setholder">>
        BY <1>3, <3>1, TodoHead DEF FInv
      <4>2. Fallback = <<"getholder">>
        BY <3>1 DEF Sends, Fallback
      <4> QED
        BY <4>1, <4>2
    <3>2. CASE Sends("setfl")
      <4>1. todo' = Fallback \o << >>
        BY <1>3, <3>2, TodoHead DEF FInv
      <4>2. todo = <<"setfl">>
        BY <1>3, <3>2, TodoHead DEF FInv
      <4>3. Fallback = <<"getfl">>
        BY <3>2 DEF Sends, Fallback
      <4>4. todo' = <<"getfl">>
        BY <4>1, <4>3
      <4> QED
        BY <4>2, <4>4
    <3> QED
      BY <1>5, <3>1, <3>2
  <2>2. todo' \in Todos /\ todo' # << >>
    BY <2>1 DEF Todos
  <2>3. HolderAgrees'
    BY <1>3, <2>1 DEF FInv, HolderAgrees, device
  <2> QED
    BY <1>2, <1>4, <2>2, <2>3, TodosType, TypePartsNext DEF FInv, GuiShowsTruth, Idle
<1>6. CASE Sends("fllist")
  <2>1. todo' = Fallback \o << >> /\ todo = <<"fllist">>
    BY <1>3, <1>6, TodoHead DEF FInv
  <2>2. Fallback = << >>
    BY <1>6 DEF Sends, Fallback
  <2>3. todo' = << >> /\ todo' \in Todos
    BY <2>1, <2>2 DEF Todos
  <2>4. HolderAgrees'
    BY <1>3, <2>1 DEF FInv, HolderAgrees, device
  <2>5. ~Exists(holder)
    BY <1>6 DEF Refused, Sends
  <2>6. ~changed' => holder' = -1
    BY <1>1, <1>3, <2>1, <2>5 DEF FInv, HolderAgrees, Exists, DeviceOK
  <2>7. GuiShowsTruth'
    BY <2>3, <2>4, <2>6 DEF HolderAgrees, GuiShowsTruth
  <2> QED
    BY <1>2, <1>4, <2>3, <2>4, <2>7, TodosType, TypePartsNext DEF FInv
<1> QED
  BY <1>5, <1>6 DEF Refused

(* a command that is not answered, *)
LEMMA DeniedKeeps == FInv /\ Denied /\ UNCHANGED circular => FInv'
<1> SUFFICES ASSUME FInv, Denied, UNCHANGED circular PROVE FInv'
  OBVIOUS
<1>1. DeviceOK /\ ViewOK
  BY TypeParts DEF FInv
<1>2. AnswerOK' /\ TargetReached'
  BY NotAskedKeeps DEF Denied
<1>3. DeviceOK'
  BY <1>1 DEF Denied, device, DeviceOK, UpperLimit, place
<1>4. changed' \in BOOLEAN /\ changed'
  BY DEF Denied
<1>5. ViewOK'
  <2>1. combo' \in Nat /\ holder' \in -1..(combo' - 1)
    BY <1>1 DEF Denied, ViewOK
  <2> QED
    BY <1>1, <2>1 DEF Denied, ViewOK
<1>6. todo' \in Todos
  <2> DEFINE c == Head(todo)
  <2>1. Sends(c) /\ Continue(Fallback)
    BY DEF Denied, Sends
  <2>2. CASE c = "numflist"
    <3>1. todo' = Fallback \o <<"getholder">>
      BY <2>1, <2>2, TodoHead DEF FInv
    <3>2. Fallback = << >>
      BY <2>2 DEF Fallback
    <3>3. todo' = <<"getholder">>
      BY <3>1, <3>2
    <3> QED
      BY <3>3 DEF Todos
  <2>3. CASE c # "numflist"
    <3>1. todo' = Fallback \o << >>
      BY <2>1, <2>3, TodoHead DEF FInv
    <3>2. Fallback \in {<<"getholder">>, <<"getfl">>, << >>}
      BY DEF Fallback
    <3>3. todo' = Fallback
      BY <3>1, <3>2
    <3> QED
      BY <3>2, <3>3 DEF Todos
  <2> QED
    BY <2>2, <2>3
<1> QED
  BY <1>2, <1>3, <1>4, <1>5, <1>6, TodosType, TypePartsNext
    DEF FInv, HolderAgrees, GuiShowsTruth

(* and a step that changes nothing. *)
LEMMA StutterKeeps == FInv /\ UNCHANGED vars => FInv'
<1> SUFFICES ASSUME FInv, UNCHANGED vars PROVE FInv'
  OBVIOUS
<1>1. UNCHANGED <<circular, holders, current, pos, answer, combo, holder, list, target, warned, todo, changed>>
  BY DEF vars, device, view
<1>2. TypeOK' /\ TargetReached' /\ HolderAgrees'
  BY <1>1 DEF FInv, TypeOK, TargetReached, LaserOnWheel, HolderAgrees, UpperLimit, place
<1>3. GuiShowsTruth'
  BY <1>1 DEF FInv, GuiShowsTruth, Idle, LaserOnWheel, TargetName, Mounted, AtLaser, AtTarget,
    TargetAt, place
<1> QED
  BY <1>1, <1>2, <1>3 DEF FInv

(* So every step keeps the invariant. *)
LEMMA NextFInv == FInv /\ [Next]_vars => FInv'
  BY OthersKeep, RestartKeeps, UserKeeps, UpdateHolderListKeeps, GetHolderKeeps,
    GetTargetListKeeps, GetTargetKeeps, SetHolderKeeps, SetTargetKeeps, RefusedKeeps,
    DeniedKeeps, StutterKeeps DEF Next, GuiStep

-----------------------------------------------------------------------------
(* The invariant that the other theorems are parts of: what an operation   *)
(* of the GUI has still to send, and when the holder shown is the mounted  *)
(* one (FluorWidget.cpp), next to the server's types, the truth of setfl's *)
(* answers and that of what the GUI shows.                                 *)
THEOREM FluorescenceInvariant == Spec => []FInv
  BY InitFInv, NextFInv, PTL DEF Spec

(* There is always a mounted holder, whatever is deleted, added or chosen  *)
(* (Fluorescence.cpp:70-84), and everything has its type.                  *)
THEOREM HoldersTyped == Spec => []TypeOK
<1>1. FInv => TypeOK
  BY DEF FInv
<1> QED
  BY <1>1, FluorescenceInvariant, PTL

(* setfl's answer is the target asked for unless it was halted or there is *)
(* none of that name (Fluorescence::moveToTarget), for every geometry in   *)
(* which the laser is at no target's place.  The laser of a wheel is the   *)
(* exception: its place is gone to, and the answer is that of no target.   *)
THEOREM TargetsReached == Spec => []TargetReached
<1>1. FInv => TargetReached
  BY DEF FInv
<1> QED
  BY <1>1, FluorescenceInvariant, PTL

(* A GUI left alone shows the holder and target there are (FluorWidget's   *)
(* GetHolder, GetTarget and SetTarget), for any number of holders, or the  *)
(* laser where it has sent a wheel to.  To be left alone is not to be      *)
(* halted either: after a halted calibration (MotorWidget.cpp:98-104) or   *)
(* setfl it goes on showing a target that the motor is not at.             *)
THEOREM GuiTruthful == Spec => []GuiShowsTruth
<1>1. FInv => GuiShowsTruth
  BY DEF FInv
<1> QED
  BY <1>1, FluorescenceInvariant, PTL

(* Within the motor's range only its very end is past the last target. *)
LEMMA PastEnd == TypeOK => PastEndOnlyAtLimit
<1> SUFFICES ASSUME TypeOK, AtTarget(pos)
             PROVE  TargetAt(pos) \in 0..(Places - 1) \/ pos = place(Places)
  BY DEF PastEndOnlyAtLimit
<1>1. TargetAt(pos) \in 0..Places /\ pos = place(TargetAt(pos)) /\ Places \in Nat
  BY PlacesInRange, FluorescenceAssumption DEF TypeOK
<1> QED
  BY <1>1

(* No target is looked up past the end of its holder (TargetHolder's       *)
(* vector, Fluorescence.cpp:165), but for that one place.                  *)
THEOREM LookupsBounded == Spec => []PastEndOnlyAtLimit
  BY HoldersTyped, PastEnd, PTL
=============================================================================
