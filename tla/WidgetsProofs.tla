--------------------------- MODULE WidgetsProofs ----------------------------
(***************************************************************************)
(* The GUI's widgets of tube and gauge: nothing of what its slots, dialogs *)
(* and timers do to each other locks a control for good, hangs the GUI's   *)
(* thread, shows a wrong warning, asks twice or stops the update, for      *)
(* every stack of dialogs (MaxSteps) and every box.                        *)
(*                                                                         *)
(* The invariant is about the stack.  Its shape (Shape): what is still to  *)
(* be done at each depth, and what is below it.  Its debts (GaugeDebts,    *)
(* TubeDebts): what is not right now has a step in the stack, at whatever  *)
(* depth, or a timer, that puts it right.                                  *)
(***************************************************************************)
EXTENDS Widgets, SequenceTheorems, TLAPS

(* Is x among the elements of q? *)
In(x, q) == \E i \in 1..Len(q) : q[i] = x

TubeForm == [{"shutters", "button", "box", "controls", "frame", "warning",
              "warmup", "actual", "timer"} -> BOOLEAN]

GaugeForm == [{"refresh", "timer", "mutex"} -> BOOLEAN]

-----------------------------------------------------------------------------
(* The shape of the stack. *)

(* Steps with nothing below them: the slot that enables the tube's widget. *)
Lowest == {"update_tube", "istube", "disable_tube", "tube_shown"}

(* Steps that a question about the warm-up may come from. *)
Asking == {"update_tube", "istube", "remaining", "set", "hv_on", "hv_off",
           "check_update", "check_set", "check_hv", "question"}

LowestLast(q) == \A i \in 1..Len(q) : q[i] \in Lowest => i = Len(q)

AskOnce(q) == \A i, j \in 1..Len(q) : q[i] \in Asking /\ q[j] \in Asking => i = j

(* The mutex is locked as soon as that is to be done, and unlocked later. *)
LockFirst(q) == \A i \in 1..Len(q) : q[i] = "lock" => i = 1 /\ In("unlock", q)

(* A widget of the gauge is made when nothing is left to do for an old one. *)
FreshGauge(q) ==
  \A i, j \in 1..Len(q) :
    i < j /\ q[i] \in {"update_gauge", "ispressure"} => q[j] \notin {"lock", "unlock", "stop"}

(* The constructor is followed by an update. *)
NewIsRead(q) ==
  \A i \in 1..Len(q) : q[i] = "connected" => \E j \in 1..Len(q) : i < j /\ q[j] = "remaining"

Shape(q) ==
  q \in Seq(Steps) /\ LowestLast(q) /\ AskOnce(q) /\ LockFirst(q) /\ FreshGauge(q) /\ NewIsRead(q)

-----------------------------------------------------------------------------
(* The debts. *)

GaugeDebts ==
  gauge # NULL =>
    /\ gauge.mutex => Pending("unlock")
    /\ At("lock") => ~gauge.mutex
    /\ Pending("stop") => ~gauge.refresh
    /\ gauge.refresh => gauge.timer \/ Pending("pressure") \/ Pending("again")

(* What ends with CheckWarning or a warm-up, or leaves that to another step. *)
Checking == {"hv_on", "hv_off", "gethv", "showhv", "getshutters", "warning", "remaining",
             "timing", "begin", "check_update", "check_set", "check_hv", "question"}

Warmup == Pending("timing") \/ Pending("begin")

TubeDebts ==
  tube # NULL =>
    /\ tube.warmup \/ tube.warning = Warns(tube) \/ \E x \in Checking : Pending(x)
    /\ tube.warmup => tube.timer \/ Warmup
    /\ ~tube.controls => tube.timer \/ tube.actual \/ Warmup \/ Pending("frames")

Types ==
  /\ fitted \in Boxes
  /\ groupTube \in BOOLEAN /\ groupPressure \in BOOLEAN /\ left \in BOOLEAN
  /\ tube = NULL \/ tube \in TubeForm
  /\ gauge = NULL \/ gauge \in GaugeForm

WInv ==
  /\ Types /\ Shape(todo) /\ GaugeDebts /\ TubeDebts
  /\ Pending("tube_shown") => tube # NULL

-----------------------------------------------------------------------------
(* CheckWarning makes the warning right. *)
LEMMA Checked ==
  ASSUME NEW t \in TubeForm, CheckWarning(t)
  PROVE  /\ tube' \in TubeForm
         /\ \A f \in {"shutters", "button", "box", "controls", "frame", "warmup", "actual", "timer"} :
              tube'[f] = t[f]
         /\ tube'.warning = Warns(tube')
<1>1. Warns(t) \in BOOLEAN
  BY DEF Warns
<1>2. tube' = [t EXCEPT !["warning"] = Warns(t)]
  BY DEF CheckWarning
<1>3. /\ tube' \in TubeForm
      /\ \A f \in {"shutters", "button", "box", "controls", "frame", "warmup", "actual", "timer"} :
           tube'[f] = t[f]
  BY <1>1, <1>2 DEF TubeForm
<1>4. tube'["warning"] = Warns(t)
  BY <1>1, <1>2 DEF TubeForm
<1>5. Warns(tube') = Warns(t)
  BY <1>3, <1>1 DEF Warns, TubeForm
<1>q. QED BY <1>3, <1>4, <1>5

(* Sequences of steps. *)
LEMMA Joined ==
  ASSUME NEW S, NEW r \in Seq(S), NEW t \in Seq(S)
  PROVE  /\ r \o t \in Seq(S) /\ Len(r \o t) = Len(r) + Len(t)
         /\ \A i \in 1..Len(r) : (r \o t)[i] = r[i]
         /\ \A i \in 1..Len(t) : (r \o t)[Len(r) + i] = t[i]
         /\ \A i \in 1..Len(r \o t) :
              \/ i \in 1..Len(r) /\ (r \o t)[i] = r[i]
              \/ i > Len(r) /\ i - Len(r) \in 1..Len(t) /\ (r \o t)[i] = t[i - Len(r)]
         /\ \A x : In(x, r \o t) <=> In(x, r) \/ In(x, t)
<1>1. /\ r \o t \in Seq(S) /\ Len(r \o t) = Len(r) + Len(t)
      /\ \A i \in 1..Len(r) : (r \o t)[i] = r[i]
      /\ \A i \in 1..Len(t) : (r \o t)[Len(r) + i] = t[i]
      /\ \A i \in 1..Len(r \o t) :
           \/ i \in 1..Len(r) /\ (r \o t)[i] = r[i]
           \/ i > Len(r) /\ i - Len(r) \in 1..Len(t) /\ (r \o t)[i] = t[i - Len(r)]
  OBVIOUS
<1>2. ASSUME NEW x, In(x, r \o t) PROVE In(x, r) \/ In(x, t)
  BY <1>1, <1>2 DEF In
<1>3. ASSUME NEW x, In(x, r) PROVE In(x, r \o t)
  BY <1>1, <1>3 DEF In
<1>4. ASSUME NEW x, In(x, t) PROVE In(x, r \o t)
  <2>1. PICK i \in 1..Len(t) : t[i] = x
    BY <1>4 DEF In
  <2>2. Len(r) + i \in 1..Len(r \o t) /\ (r \o t)[Len(r) + i] = x
    BY <1>1, <2>1
  <2>q. QED BY <2>2 DEF In
<1>q. QED BY <1>1, <1>2, <1>3, <1>4

(* The step in progress and the ones below it. *)
LEMMA Below ==
  ASSUME NEW S, NEW q \in Seq(S), q # << >>
  PROVE  /\ Tail(q) \in Seq(S) /\ Len(Tail(q)) = Len(q) - 1 /\ 1 \in 1..Len(q) /\ Head(q) = q[1]
         /\ Head(q) \in S
         /\ \A i \in 1..Len(Tail(q)) : i + 1 \in 1..Len(q) /\ Tail(q)[i] = q[i + 1]
         /\ \A x : In(x, q) <=> x = Head(q) \/ In(x, Tail(q))
<1>1. /\ Tail(q) \in Seq(S) /\ Len(Tail(q)) = Len(q) - 1 /\ 1 \in 1..Len(q) /\ Head(q) = q[1]
      /\ Head(q) \in S
      /\ \A i \in 1..Len(Tail(q)) : i + 1 \in 1..Len(q) /\ Tail(q)[i] = q[i + 1]
  OBVIOUS
<1>2. ASSUME NEW x, In(x, q) PROVE x = Head(q) \/ In(x, Tail(q))
  <2>1. PICK i \in 1..Len(q) : q[i] = x
    BY <1>2 DEF In
  <2>2. CASE i = 1
    BY <1>1, <2>1, <2>2
  <2>3. CASE i # 1
    <3>1. i - 1 \in 1..Len(Tail(q)) /\ Tail(q)[i - 1] = x
      BY <1>1, <2>1, <2>3
    <3>q. QED BY <3>1 DEF In
  <2>q. QED BY <2>2, <2>3
<1>3. ASSUME NEW x, x = Head(q) \/ In(x, Tail(q)) PROVE In(x, q)
  BY <1>1, <1>3 DEF In
<1>q. QED BY <1>1, <1>2, <1>3

(* What a slot leaves behind has the shape, and is below no lock. *)
LEMMA ShapeBelow ==
  ASSUME NEW q, Shape(q), q # << >>
  PROVE  /\ Shape(Tail(q)) /\ ~In("lock", Tail(q))
         /\ Head(q) \in Lowest => Tail(q) = << >>
         /\ Head(q) \in Asking => \A x \in Asking : ~In(x, Tail(q))
         /\ Head(q) \in {"update_gauge", "ispressure"} =>
              ~In("unlock", Tail(q)) /\ ~In("stop", Tail(q))
         /\ Head(q) = "connected" => In("remaining", Tail(q))
<1> DEFINE t == Tail(q)
<1>0. q \in Seq(Steps) /\ LowestLast(q) /\ AskOnce(q) /\ LockFirst(q) /\ FreshGauge(q) /\ NewIsRead(q)
  BY DEF Shape
<1>1. /\ t \in Seq(Steps) /\ Len(t) = Len(q) - 1 /\ 1 \in 1..Len(q) /\ Head(q) = q[1]
      /\ \A i \in 1..Len(t) : i + 1 \in 1..Len(q) /\ t[i] = q[i + 1]
  BY <1>0, Below
<1>2. Len(q) \in Nat /\ Len(t) \in Nat
  BY <1>0, <1>1
<1> HIDE DEF t
<1>3. LowestLast(t)
  <2> SUFFICES ASSUME NEW i \in 1..Len(t), t[i] \in Lowest PROVE i = Len(t)
    BY DEF LowestLast
  <2>1. i + 1 \in 1..Len(q) /\ q[i + 1] \in Lowest
    BY <1>1
  <2>2. i + 1 = Len(q)
    BY <1>0, <2>1 DEF LowestLast
  <2>q. QED BY <1>1, <1>2, <2>2
<1>4. AskOnce(t)
  <2> SUFFICES ASSUME NEW i \in 1..Len(t), NEW j \in 1..Len(t), t[i] \in Asking, t[j] \in Asking
               PROVE  i = j
    BY DEF AskOnce
  <2>1. /\ i + 1 \in 1..Len(q) /\ j + 1 \in 1..Len(q)
        /\ q[i + 1] \in Asking /\ q[j + 1] \in Asking
    BY <1>1
  <2>2. i + 1 = j + 1
    BY <1>0, <2>1 DEF AskOnce
  <2>q. QED BY <2>2
<1>5. \A i \in 1..Len(t) : t[i] # "lock"
  BY <1>0, <1>1, <1>2 DEF LockFirst
<1>6. LockFirst(t) /\ ~In("lock", t)
  BY <1>5 DEF LockFirst, In
<1>7. FreshGauge(t)
  <2> SUFFICES ASSUME NEW i \in 1..Len(t), NEW j \in 1..Len(t), i < j, t[i] \in {"update_gauge", "ispressure"}
               PROVE  t[j] \notin {"lock", "unlock", "stop"}
    BY DEF FreshGauge
  <2>1. i + 1 \in 1..Len(q) /\ j + 1 \in 1..Len(q) /\ i + 1 < j + 1 /\ t[i] = q[i + 1] /\ t[j] = q[j + 1]
    BY <1>1, <1>2
  <2>q. QED BY <1>0, <2>1 DEF FreshGauge
<1>8. NewIsRead(t)
  <2> SUFFICES ASSUME NEW i \in 1..Len(t), t[i] = "connected"
               PROVE  \E j \in 1..Len(t) : i < j /\ t[j] = "remaining"
    BY DEF NewIsRead
  <2>1. i + 1 \in 1..Len(q) /\ q[i + 1] = "connected"
    BY <1>1
  <2>2. PICK j \in 1..Len(q) : i + 1 < j /\ q[j] = "remaining"
    BY <1>0, <2>1 DEF NewIsRead
  <2>3. j - 1 \in 1..Len(t) /\ (j - 1) + 1 = j /\ i < j - 1
    BY <1>1, <1>2, <2>2
  <2>q. QED BY <1>1, <2>2, <2>3
<1>9. Head(q) \in Lowest => t = << >>
  BY <1>0, <1>1, <1>2 DEF LowestLast
<1>10. Head(q) \in Asking => \A x \in Asking : ~In(x, t)
  <2> SUFFICES ASSUME Head(q) \in Asking, NEW i \in 1..Len(t), t[i] \in Asking PROVE FALSE
    BY DEF In
  <2>1. i + 1 \in 1..Len(q) /\ q[i + 1] \in Asking /\ q[1] \in Asking /\ i + 1 # 1
    BY <1>1
  <2>q. QED BY <1>0, <1>1, <2>1 DEF AskOnce
<1>11. Head(q) \in {"update_gauge", "ispressure"} => ~In("unlock", t) /\ ~In("stop", t)
  <2> SUFFICES ASSUME Head(q) \in {"update_gauge", "ispressure"}, NEW i \in 1..Len(t)
               PROVE  t[i] \notin {"unlock", "stop"}
    BY DEF In
  <2>1. i + 1 \in 1..Len(q) /\ t[i] = q[i + 1] /\ 1 < i + 1
    BY <1>1
  <2>q. QED BY <1>0, <1>1, <2>1 DEF FreshGauge
<1>12. Head(q) = "connected" => In("remaining", t)
  <2> SUFFICES ASSUME Head(q) = "connected" PROVE In("remaining", t)
    OBVIOUS
  <2>1. PICK j \in 1..Len(q) : 1 < j /\ q[j] = "remaining"
    BY <1>0, <1>1 DEF NewIsRead
  <2>2. j - 1 \in 1..Len(t) /\ t[j - 1] = "remaining"
    BY <1>1, <1>2, <2>1
  <2>q. QED BY <2>2 DEF In
<1>q. QED
  BY <1>1, <1>3, <1>4, <1>6, <1>7, <1>8, <1>9, <1>10, <1>11, <1>12 DEF Shape, t

(* Steps that fit on top of any others but a lock. *)
Plain ==
  {"dialog", "values", "display", "gethv", "showhv", "getshutters", "warning", "setshutter",
   "switched", "actual", "frames", "warmup", "started", "timing", "begin", "tube_off",
   "pressure", "again", "gauge_off", "unlock", "disable_gauge", "gauge_shown"}

(* Plain steps and questions are neither locks nor slots at the bottom. *)
LEMMA PlainIs ==
  /\ Plain \cup Asking \subseteq Steps
  /\ \A x \in Plain \cup (Asking \ Lowest) :
       x \notin Lowest /\ x \notin {"lock", "stop", "update_gauge", "ispressure", "connected"}
  /\ \A x \in Plain : x \notin Asking
  BY DEF Plain, Asking, Lowest, Steps, TubeSteps, GaugeSteps, GuiSteps

(* Plain steps and one question on top keep the shape of what is to be *)
(* done.                                                               *)
LEMMA ShapeOnTop ==
  ASSUME NEW t, Shape(t), ~In("lock", t),
         NEW r \in Seq(Plain \cup (Asking \ Lowest)), AskOnce(r),
         r \in Seq(Plain) \/ \A x \in Asking : ~In(x, t)
  PROVE  Shape(r \o t)
<1> DEFINE u == r \o t
<1>0. t \in Seq(Steps) /\ LowestLast(t) /\ AskOnce(t) /\ FreshGauge(t) /\ NewIsRead(t)
  BY DEF Shape
<1>1. r \in Seq(Steps)
  BY PlainIs
<1>2. /\ u \in Seq(Steps) /\ Len(u) = Len(r) + Len(t)
      /\ \A i \in 1..Len(t) : u[Len(r) + i] = t[i]
      /\ \A i \in 1..Len(u) :
           \/ i \in 1..Len(r) /\ u[i] = r[i]
           \/ i > Len(r) /\ i - Len(r) \in 1..Len(t) /\ u[i] = t[i - Len(r)]
  BY <1>0, <1>1, Joined
<1>3. Len(r) \in Nat /\ Len(t) \in Nat
  BY <1>0, <1>1
<1>4. \A i \in 1..Len(r) :
        r[i] \notin Lowest /\ r[i] \notin {"lock", "update_gauge", "ispressure", "connected"}
  BY PlainIs
<1> HIDE DEF u
<1>5. LowestLast(u)
  <2> SUFFICES ASSUME NEW i \in 1..Len(u), u[i] \in Lowest PROVE i = Len(u)
    BY DEF LowestLast
  <2>1. i - Len(r) \in 1..Len(t) /\ t[i - Len(r)] \in Lowest
    BY <1>2, <1>4
  <2>2. i - Len(r) = Len(t)
    BY <1>0, <2>1 DEF LowestLast
  <2>q. QED BY <1>2, <1>3, <2>2
<1>6. AskOnce(u)
  <2> SUFFICES ASSUME NEW i \in 1..Len(u), NEW j \in 1..Len(u), u[i] \in Asking, u[j] \in Asking
               PROVE  i = j
    BY DEF AskOnce
  <2>1. CASE r \in Seq(Plain)
    <3>1. \A k \in 1..Len(r) : r[k] \notin Asking
      BY <2>1, PlainIs
    <3>2. /\ i - Len(r) \in 1..Len(t) /\ u[i] = t[i - Len(r)]
          /\ j - Len(r) \in 1..Len(t) /\ u[j] = t[j - Len(r)]
      BY <1>2, <3>1
    <3>3. i - Len(r) = j - Len(r)
      BY <1>0, <3>2 DEF AskOnce
    <3>q. QED BY <3>3, <1>2, <1>3
  <2>2. CASE \A x \in Asking : ~In(x, t)
    <3>1. \A k \in 1..Len(t) : t[k] \notin Asking
      BY <2>2 DEF In
    <3>2. i \in 1..Len(r) /\ u[i] = r[i] /\ j \in 1..Len(r) /\ u[j] = r[j]
      BY <1>2, <3>1
    <3>q. QED BY <3>2 DEF AskOnce
  <2>q. QED BY <2>1, <2>2
<1>7. LockFirst(u)
  <2>1. \A i \in 1..Len(t) : t[i] # "lock"
    BY DEF In
  <2>q. QED BY <1>2, <1>4, <2>1 DEF LockFirst
<1>8. FreshGauge(u)
  <2> SUFFICES ASSUME NEW i \in 1..Len(u), NEW j \in 1..Len(u), i < j, u[i] \in {"update_gauge", "ispressure"}
               PROVE  u[j] \notin {"lock", "unlock", "stop"}
    BY DEF FreshGauge
  <2>1. i > Len(r) /\ i - Len(r) \in 1..Len(t) /\ u[i] = t[i - Len(r)]
    BY <1>2, <1>4
  <2>2. j - Len(r) \in 1..Len(t) /\ u[j] = t[j - Len(r)] /\ i - Len(r) < j - Len(r)
    BY <1>2, <1>3, <2>1
  <2>q. QED BY <1>0, <2>1, <2>2 DEF FreshGauge
<1>9. NewIsRead(u)
  <2> SUFFICES ASSUME NEW i \in 1..Len(u), u[i] = "connected"
               PROVE  \E j \in 1..Len(u) : i < j /\ u[j] = "remaining"
    BY DEF NewIsRead
  <2>1. i > Len(r) /\ i - Len(r) \in 1..Len(t) /\ t[i - Len(r)] = "connected"
    BY <1>2, <1>4
  <2>2. PICK k \in 1..Len(t) : i - Len(r) < k /\ t[k] = "remaining"
    BY <1>0, <2>1 DEF NewIsRead
  <2>3. Len(r) + k \in 1..Len(u) /\ i < Len(r) + k /\ u[Len(r) + k] = "remaining"
    BY <1>2, <1>3, <2>2
  <2>q. QED BY <2>3
<1>q. QED
  BY <1>2, <1>5, <1>6, <1>7, <1>8, <1>9 DEF Shape, u


(* The elements of short sequences. *)
LEMMA Singles ==
  ASSUME NEW a, NEW b, NEW c, NEW d, NEW e, NEW x
  PROVE  /\ ~In(x, << >>)
         /\ In(x, <<a>>) <=> x = a
         /\ In(x, <<a, b>>) <=> x \in {a, b}
         /\ In(x, <<a, b, c>>) <=> x \in {a, b, c}
         /\ In(x, <<a, b, c, d>>) <=> x \in {a, b, c, d}
         /\ In(x, <<a, b, c, d, e>>) <=> x \in {a, b, c, d, e}
<1>1. ~In(x, << >>)
  BY DEF In
<1>2. In(x, <<a>>) <=> x = a
  BY DEF In
<1>3. In(x, <<a, b>>) <=> x \in {a, b}
  BY DEF In
<1>4. In(x, <<a, b, c>>) <=> x \in {a, b, c}
  BY DEF In
<1>5. In(x, <<a, b, c, d>>) <=> x \in {a, b, c, d}
  BY DEF In
<1>6. In(x, <<a, b, c, d, e>>) <=> x \in {a, b, c, d, e}
  BY DEF In
<1>q. QED BY <1>1, <1>2, <1>3, <1>4, <1>5, <1>6

-----------------------------------------------------------------------------
(* What a step leaves to do. *)

(* What is pending when the step in progress gives way to others. *)
LEMMA Replaced ==
  ASSUME WInv, todo # << >>, NEW r \in Seq(Steps), Then(r)
  PROVE  /\ todo' = r \o Tail(todo) /\ todo' \in Seq(Steps)
         /\ \A x : Pending(x) <=> x = Head(todo) \/ In(x, Tail(todo))
         /\ \A x : Pending(x)' <=> In(x, r) \/ In(x, Tail(todo))
         /\ At("lock")' => In("lock", r)
<1>0. Shape(todo) /\ todo \in Seq(Steps)
  BY DEF WInv, Shape
<1>1. Tail(todo) \in Seq(Steps) /\ \A x : Pending(x) <=> x = Head(todo) \/ In(x, Tail(todo))
  BY <1>0, Below DEF Pending, In
<1>2. todo' = r \o Tail(todo) /\ todo' \in Seq(Steps)
  BY <1>1 DEF Then
<1>3. \A x : In(x, todo') <=> In(x, r) \/ In(x, Tail(todo))
  BY <1>1, <1>2, Joined
<1>4. \A x : Pending(x)' <=> In(x, todo')
  BY DEF Pending, In
<1>5. At("lock")' => In("lock", todo')
  BY <1>2, Below DEF At
<1>6. ~In("lock", Tail(todo))
  BY <1>0, ShapeBelow
<1>q. QED BY <1>1, <1>2, <1>3, <1>4, <1>5, <1>6

(* What a timer's slot puts on top. *)
LEMMA Pushed ==
  ASSUME WInv, NEW r \in Seq(Plain), EventLoop, todo' = r \o todo
  PROVE  /\ Shape(todo')
         /\ \A x : Pending(x)' <=> In(x, r) \/ Pending(x)
         /\ ~At("lock")'
         /\ Pending("tube_shown")' => Pending("tube_shown")
         /\ Pending("stop")' => Pending("stop")
<1>0. Shape(todo) /\ todo \in Seq(Steps) /\ r \in Seq(Steps)
  BY PlainIs DEF WInv, Shape
<1>1. \A x : Pending(x) <=> In(x, todo)
  BY DEF Pending, In
<1>2. ~In("lock", todo)
  <2>1. todo = << >> => ~In("lock", todo)
    BY Singles
  <2>2. todo # << >> => Head(todo) # "lock"
    BY DEF EventLoop, Idle, At
  <2>3. todo # << >> => ~In("lock", Tail(todo))
    BY <1>0, ShapeBelow
  <2>q. QED BY <1>0, <2>1, <2>2, <2>3, Below
<1>3. AskOnce(r)
  <2>1. \A i \in 1..Len(r) : r[i] \notin Asking
    BY PlainIs
  <2>q. QED BY <2>1 DEF AskOnce
<1>4. Shape(todo')
  BY <1>0, <1>2, <1>3, ShapeOnTop
<1>5. \A x : In(x, todo') <=> In(x, r) \/ In(x, todo)
  BY <1>0, Joined
<1>6. \A x : Pending(x)' <=> In(x, todo')
  BY DEF Pending, In
<1>7. \A x \in Lowest \cup {"lock", "stop"} : ~In(x, r)
  BY PlainIs DEF In
<1>8. todo' \in Seq(Steps)
  BY <1>4 DEF Shape
<1>9. ~At("lock")'
  BY <1>2, <1>5, <1>7, <1>8, Below DEF At
<1>10. "tube_shown" \in Lowest
  BY DEF Lowest
<1>q. QED BY <1>1, <1>4, <1>5, <1>6, <1>7, <1>9, <1>10

(* A step of the tube does nothing to the gauge. *)
LEMMA GaugeKept ==
  ASSUME WInv, todo # << >>, NEW r \in Seq(Steps), Then(r), ~In("lock", r), ~In("stop", r),
         UNCHANGED gauge, gauge # NULL => Head(todo) \notin {"unlock", "pressure", "again"}
  PROVE  GaugeDebts'
<1>1. /\ \A x : Pending(x) <=> x = Head(todo) \/ In(x, Tail(todo))
      /\ \A x : Pending(x)' <=> In(x, r) \/ In(x, Tail(todo))
      /\ ~At("lock")'
  BY Replaced
<1>2. GaugeDebts
  BY DEF WInv
<1>3. ASSUME gauge # NULL
      PROVE  /\ Pending("stop")' => Pending("stop")
             /\ \A x \in {"unlock", "pressure", "again"} : Pending(x) => Pending(x)'
  BY <1>1, <1>3
<1>q. QED BY <1>1, <1>2, <1>3 DEF GaugeDebts

SameWarning ==
  \A f \in {"warmup", "warning", "button", "shutters", "box"} : tube'[f] = tube[f]

(* A step may leave its debts to those it puts on the stack. *)
LEMMA DebtsPaid ==
  ASSUME WInv, todo # << >>, NEW r \in Seq(Steps), Then(r), tube # NULL,
         \/ tube'.warmup \/ tube'.warning = Warns(tube')
         \/ \E x \in Checking : In(x, r) \/ In(x, Tail(todo))
         \/ SameWarning /\ Head(todo) \notin Checking,
         \/ tube'.warmup => tube'.timer \/ In("timing", r) \/ In("begin", r)
         \/ /\ tube'.warmup = tube.warmup /\ tube'.timer = tube.timer
            /\ Head(todo) \notin {"timing", "begin"},
         \/ ~tube'.controls => tube'.timer \/ tube'.actual
         \/ tube'.controls = tube.controls /\ In("timing", r)
         \/ tube'.controls = tube.controls /\ In("begin", r)
         \/ tube'.controls = tube.controls /\ In("frames", r)
         \/ /\ tube'.controls = tube.controls /\ tube'.timer = tube.timer /\ tube'.actual = tube.actual
            /\ Head(todo) \notin {"timing", "begin", "frames"}
  PROVE  TubeDebts'
<1>1. /\ \A x : Pending(x) <=> x = Head(todo) \/ In(x, Tail(todo))
      /\ \A x : Pending(x)' <=> In(x, r) \/ In(x, Tail(todo))
  BY Replaced
<1>2. TubeDebts
  BY DEF WInv
<1>3. tube'.warmup \/ tube'.warning = Warns(tube') \/ \E x \in Checking : Pending(x)'
  <2>1. CASE SameWarning /\ Head(todo) \notin Checking
    <3>1. /\ tube'.warmup = tube.warmup /\ tube'.warning = tube.warning
          /\ Warns(tube') = Warns(tube)
      BY <2>1 DEF SameWarning, Warns
    <3>2. \A x \in Checking : Pending(x) => Pending(x)'
      BY <1>1, <2>1
    <3>q. QED BY <1>2, <3>1, <3>2 DEF TubeDebts
  <2>q. QED BY <1>1, <2>1
<1>4. tube'.warmup => tube'.timer \/ Pending("timing")' \/ Pending("begin")'
  <2>1. CASE /\ tube'.warmup = tube.warmup /\ tube'.timer = tube.timer
             /\ Head(todo) \notin {"timing", "begin"}
    <3>1. \A x \in {"timing", "begin"} : Pending(x) => Pending(x)'
      BY <1>1, <2>1
    <3>q. QED BY <1>2, <2>1, <3>1 DEF TubeDebts, Warmup
  <2>q. QED BY <1>1, <2>1
<1>5. ~tube'.controls => tube'.timer \/ tube'.actual
                          \/ Pending("timing")' \/ Pending("begin")' \/ Pending("frames")'
  <2>1. CASE /\ tube'.controls = tube.controls /\ tube'.timer = tube.timer /\ tube'.actual = tube.actual
             /\ Head(todo) \notin {"timing", "begin", "frames"}
    <3>1. \A x \in {"timing", "begin", "frames"} : Pending(x) => Pending(x)'
      BY <1>1, <2>1
    <3>q. QED BY <1>2, <2>1, <3>1 DEF TubeDebts, Warmup
  <2>q. QED BY <1>1, <2>1
<1>q. QED BY <1>3, <1>4, <1>5 DEF TubeDebts, Warmup

(* The debts of the tube's widget are kept when a step leads on to a check. *)
LEMMA TubeKept ==
  ASSUME WInv, todo # << >>, NEW r \in Seq(Steps), Then(r), UNCHANGED tube,
         tube # NULL =>
           \/ Head(todo) \notin Checking \cup {"frames"}
           \/ Head(todo) \in Checking \ {"timing", "begin"} /\ \E x \in Checking : In(x, r)
  PROVE  TubeDebts'
<1>1. CASE tube = NULL
  BY <1>1 DEF TubeDebts
<1>2. CASE tube # NULL
  <2>1. SameWarning
    BY DEF SameWarning
  <2>2. Head(todo) \notin {"timing", "begin", "frames"}
    BY <1>2 DEF Checking
  <2>3. \/ \E x \in Checking : In(x, r)
        \/ Head(todo) \notin Checking
    BY <1>2
  <2>q. QED BY <1>2, <2>1, <2>2, <2>3, DebtsPaid
<1>q. QED BY <1>1, <1>2

-----------------------------------------------------------------------------
(* The tube's steps. *)

(* What replaces a step of the tube. *)
Leaves(r) ==
  /\ r \in Seq(Plain \cup (Asking \ Lowest)) /\ AskOnce(r)
  /\ r \in Seq(Plain) \/ Head(todo) \in Asking
  /\ Then(r)

(* Plain steps are a way for a step to go on. *)
LEMMA PlainLeaves ==
  ASSUME NEW r \in Seq(Plain), Then(r)
  PROVE  Leaves(r)
<1>1. r \in Seq(Plain \cup (Asking \ Lowest))
  OBVIOUS
<1>2. \A i \in 1..Len(r) : r[i] \notin Asking
  BY PlainIs
<1>q. QED BY <1>1, <1>2 DEF Leaves, AskOnce

(* Plain steps before a question add none. *)
LEMMA AskJoined ==
  ASSUME NEW S, NEW r \in Seq(Plain), NEW t \in Seq(S), AskOnce(t)
  PROVE  AskOnce(r \o t)
<1> DEFINE u == r \o t
<1>1. \A i \in 1..Len(r) : r[i] \notin Asking
  BY PlainIs
<1>2. Len(r) \in Nat
  OBVIOUS
<1>3. r \in Seq(Plain \cup S) /\ t \in Seq(Plain \cup S)
  OBVIOUS
<1>4. \A i \in 1..Len(u) :
        \/ i \in 1..Len(r) /\ u[i] = r[i]
        \/ i > Len(r) /\ i - Len(r) \in 1..Len(t) /\ u[i] = t[i - Len(r)]
  BY <1>3, Joined
<1> HIDE DEF u
<1> SUFFICES ASSUME NEW i \in 1..Len(u), NEW j \in 1..Len(u), u[i] \in Asking, u[j] \in Asking
             PROVE  i = j
  BY DEF AskOnce, u
<1>5. /\ i - Len(r) \in 1..Len(t) /\ u[i] = t[i - Len(r)]
      /\ j - Len(r) \in 1..Len(t) /\ u[j] = t[j - Len(r)]
  BY <1>1, <1>4
<1>6. i - Len(r) = j - Len(r)
  BY <1>5 DEF AskOnce
<1>q. QED BY <1>2, <1>5, <1>6

(* After a request that was not answered some way to go on has what was to *)
(* be done.                                                                *)
LEMMA Unanswered ==
  ASSUME NEW t \in Seq(Plain \cup (Asking \ Lowest)), AskOnce(t), NoAnswer(t),
         t \in Seq(Plain) \/ Head(todo) \in Asking
  PROVE  \E r : Leaves(r) /\ \A x : In(x, t) => In(x, r)
<1>1. <<"dialog">> \in Seq(Plain) /\ <<"dialog", "tube_off">> \in Seq(Plain)
  BY DEF Plain
<1>2. PICK d \in Seq(Plain) : Then(d \o t)
  BY <1>1 DEF NoAnswer
<1>3. /\ d \o t \in Seq(Plain \cup (Asking \ Lowest))
      /\ t \in Seq(Plain) => d \o t \in Seq(Plain)
      /\ \A x : In(x, t) => In(x, d \o t)
  <2>1. d \in Seq(Plain \cup (Asking \ Lowest))
    OBVIOUS
  <2>2. d \o t \in Seq(Plain \cup (Asking \ Lowest)) /\ \A x : In(x, t) => In(x, d \o t)
    BY <2>1, Joined
  <2>q. QED BY <2>2, Joined
<1>4. AskOnce(d \o t)
  BY AskJoined
<1>q. QED BY <1>2, <1>3, <1>4 DEF Leaves

(* The same where no question is to be asked. *)
LEMMA PlainUnanswered ==
  ASSUME NEW t \in Seq(Plain), NoAnswer(t)
  PROVE  \E r : Leaves(r) /\ \A x : In(x, t) => In(x, r)
<1>1. t \in Seq(Plain \cup (Asking \ Lowest))
  OBVIOUS
<1>2. \A i \in 1..Len(t) : t[i] \notin Asking
  BY PlainIs
<1>3. AskOnce(t)
  BY <1>2 DEF AskOnce
<1>q. QED BY <1>1, <1>3, Unanswered

(* A way to go on has its type and touches no lock. *)
LEMMA LeavesSteps ==
  ASSUME NEW r, Leaves(r)
  PROVE  r \in Seq(Steps) /\ Then(r)
         /\ \A x \in Lowest \cup {"lock", "stop"} : ~In(x, r)
<1>1. r \in Seq(Plain \cup (Asking \ Lowest)) /\ Then(r)
  BY DEF Leaves
<1>2. r \in Seq(Steps)
  BY <1>1, PlainIs
<1>3. \A i \in 1..Len(r) : r[i] \notin Lowest /\ r[i] \notin {"lock", "stop"}
  BY <1>1, PlainIs
<1>q. QED BY <1>1, <1>2, <1>3 DEF In

(* The form of the tube's widget. *)
LEMMA TubeFormIs ==
  /\ TubeForm = [DOMAIN NewTube -> BOOLEAN] /\ NewTube \in TubeForm
  /\ NULL \notin TubeForm
<1> DEFINE Rec == [shutters : BOOLEAN, button : BOOLEAN, box : BOOLEAN, controls : BOOLEAN,
                   frame : BOOLEAN, warning : BOOLEAN, warmup : BOOLEAN, actual : BOOLEAN,
                   timer : BOOLEAN]
<1>1. TubeForm = [DOMAIN NewTube -> BOOLEAN]
  BY DEF TubeForm, NewTube
<1>2. NewTube \in Rec
  BY DEF NewTube
<1>3. Rec = TubeForm
  BY DEF TubeForm
<1>q. QED BY <1>1, <1>2, <1>3, WidgetsAssumption

(* The form of the gauge's widget. *)
LEMMA GaugeFormIs ==
  GaugeForm = [DOMAIN NewGauge -> BOOLEAN] /\ NewGauge \in GaugeForm
<1> DEFINE Rec == [refresh : BOOLEAN, timer : BOOLEAN, mutex : BOOLEAN]
<1>1. GaugeForm = [DOMAIN NewGauge -> BOOLEAN]
  BY DEF GaugeForm, NewGauge
<1>2. NewGauge \in Rec
  BY DEF NewGauge
<1>3. Rec = GaugeForm
  BY DEF GaugeForm
<1>q. QED BY <1>1, <1>2, <1>3

(* A step that goes on leaves the shape of what is to be done. *)
LEMMA ShapeLeft ==
  ASSUME WInv, todo # << >>, NEW r, Leaves(r)
  PROVE  Shape(todo')
<1>1. Shape(todo)
  BY DEF WInv
<1>2. /\ Shape(Tail(todo)) /\ ~In("lock", Tail(todo))
      /\ Head(todo) \in Asking => \A x \in Asking : ~In(x, Tail(todo))
  BY <1>1, ShapeBelow
<1>3. todo' = r \o Tail(todo)
  BY LeavesSteps DEF Then
<1>q. QED BY <1>2, <1>3, ShapeOnTop DEF Leaves

(* A step of the tube that pays its debts keeps the invariant. *)
LEMMA Served ==
  ASSUME WInv, todo # << >>, Head(todo) \in TubeSteps, tube # NULL, NEW r, Leaves(r),
         UNCHANGED <<fitted, gauge, boxes>>, left' \in BOOLEAN, tube' \in TubeForm, TubeDebts'
  PROVE  WInv'
<1>1. r \in Seq(Steps) /\ Then(r) /\ \A x \in Lowest \cup {"lock", "stop"} : ~In(x, r)
  BY LeavesSteps
<1>2. Shape(todo')
  BY ShapeLeft
<1>3. GaugeDebts'
  <2>1. Head(todo) \notin {"unlock", "pressure", "again"}
    BY DEF TubeSteps
  <2>q. QED BY <1>1, <2>1, GaugeKept
<1>4. Types'
  BY DEF WInv, Types, boxes
<1>5. tube' # NULL
  BY TubeFormIs
<1>q. QED BY <1>2, <1>3, <1>4, <1>5 DEF WInv

(* A step of the tube is done by a widget. *)
LEMMA AtTube ==
  ASSUME WInv, NEW x \in TubeSteps, Now(x)
  PROVE  todo # << >> /\ Head(todo) = x /\ tube # NULL /\ tube \in TubeForm /\ left \in BOOLEAN
  BY DEF Now, At, WInv, Types

(* Updating values asks for the high voltage, and updating the actual ones *)
(* draws the frames as well.                                               *)
LEMMA Values ==
  /\ << >> \in Seq(Plain) /\ UpdateValues \in Seq(Plain) /\ UpdateActualValues \in Seq(Plain)
  /\ In("gethv", UpdateValues) /\ In("gethv", UpdateActualValues)
  /\ In("frames", UpdateActualValues)
<1>1. << >> \in Seq(Plain) /\ UpdateValues \in Seq(Plain) /\ UpdateActualValues \in Seq(Plain)
  BY DEF UpdateValues, UpdateActualValues, Plain
<1>2. 2 \in 1..Len(UpdateValues) /\ UpdateValues[2] = "gethv"
  BY DEF UpdateValues
<1>3. /\ 1 \in 1..Len(UpdateActualValues) /\ UpdateActualValues[1] = "gethv"
      /\ 3 \in 1..Len(UpdateActualValues) /\ UpdateActualValues[3] = "frames"
  BY DEF UpdateActualValues
<1>q. QED BY <1>1, <1>2, <1>3 DEF In

(* The list of connected shutters is read. *)
LEMMA Connected ==
  ASSUME WInv, GetConnectedShutters
  PROVE  WInv'
<1>0. /\ todo # << >> /\ Head(todo) = "connected" /\ tube # NULL /\ tube \in TubeForm
      /\ left \in BOOLEAN /\ Head(todo) \in TubeSteps
  BY AtTube DEF GetConnectedShutters, TubeSteps
<1>1. In("remaining", Tail(todo)) /\ "remaining" \in Checking
  BY <1>0, ShapeBelow DEF WInv, Checking
<1>2. PICK r : Leaves(r)
  BY Values, PlainLeaves, PlainUnanswered DEF GetConnectedShutters
<1>3. /\ tube' \in TubeForm
      /\ \A f \in {"controls", "warmup", "actual", "timer"} : tube'[f] = tube[f]
      /\ UNCHANGED <<fitted, gauge, boxes, left>>
  <2>1. UNCHANGED <<fitted, gauge, boxes, left>>
    BY DEF GetConnectedShutters
  <2>2. CASE tube' = [tube EXCEPT !.shutters = TRUE]
    BY <1>0, <2>1, <2>2 DEF TubeForm
  <2>3. CASE UNCHANGED tube
    BY <1>0, <2>1, <2>3
  <2>q. QED BY <2>2, <2>3 DEF GetConnectedShutters
<1>4. r \in Seq(Steps) /\ Then(r)
  BY <1>2, LeavesSteps
<1>5. TubeDebts'
  BY <1>0, <1>1, <1>3, <1>4, DebtsPaid
<1>q. QED BY <1>0, <1>2, <1>3, <1>5, Served

(* A step that leaves the widget alone. *)
LEMMA Reads ==
  ASSUME WInv, NEW x \in TubeSteps, Now(x), NEW r, Leaves(r),
         x \notin {"timing", "begin", "frames"},
         x \in Checking => \E y \in Checking : In(y, r),
         UNCHANGED <<fitted, widgets>>, left' \in BOOLEAN
  PROVE  WInv'
<1>0. todo # << >> /\ Head(todo) = x /\ tube # NULL /\ tube \in TubeForm
  BY AtTube
<1>1. r \in Seq(Steps) /\ Then(r) /\ UNCHANGED <<fitted, tube, gauge, boxes>>
  BY LeavesSteps DEF widgets
<1>2. TubeDebts'
  BY <1>0, <1>1, TubeKept
<1>q. QED BY <1>0, <1>1, <1>2, Served

(* The error of the tube is shown, values are read, a shutter is switched. *)
LEMMA Displayed ==
  ASSUME WInv, DisplayTubeError \/ GetValues \/ SetShutters
  PROVE  WInv'
<1>1. PICK x \in {"display", "values", "setshutter"} : Now(x) /\ (Then(<< >>) \/ NoAnswer(<< >>) \/ NoAnswer(<<"getshutters">>))
  BY DEF DisplayTubeError, GetValues, SetShutters
<1>2. UNCHANGED <<fitted, widgets, left>> /\ x \in TubeSteps /\ x \notin Checking \cup {"frames"}
  BY DEF DisplayTubeError, GetValues, SetShutters, TubeSteps, Checking
<1>3. PICK r : Leaves(r)
  <2>1. <<"getshutters">> \in Seq(Plain)
    BY DEF Plain
  <2>q. QED BY <1>1, <2>1, Values, PlainLeaves, PlainUnanswered
<1>4. left' \in BOOLEAN
  BY <1>2 DEF WInv, Types
<1>q. QED BY <1>1, <1>2, <1>3, <1>4, Reads DEF Checking

(* What ends with CheckWarning. *)
LEMMA Checks ==
  ASSUME WInv, NEW x \in TubeSteps, Now(x), x \notin {"timing", "begin", "frames"}, NEW r,
         Leaves(r),
         NEW t \in TubeForm, CheckWarning(t),
         \A f \in {"controls", "warmup", "actual", "timer"} : t[f] = tube[f],
         UNCHANGED <<fitted, gauge, boxes, left>>
  PROVE  WInv'
<1>0. todo # << >> /\ Head(todo) = x /\ tube # NULL /\ left \in BOOLEAN
  BY AtTube
<1>1. /\ tube' \in TubeForm /\ tube'.warning = Warns(tube')
      /\ \A f \in {"controls", "warmup", "actual", "timer"} : tube'[f] = tube[f]
  BY Checked
<1>2. r \in Seq(Steps) /\ Then(r)
  BY LeavesSteps
<1>3. TubeDebts'
  BY <1>0, <1>1, <1>2, DebtsPaid
<1>q. QED BY <1>0, <1>1, <1>3, Served

(* The high voltage is read and shown. *)
LEMMA HighVoltageRead ==
  ASSUME WInv, GetHighVoltage \/ ShowHighVoltage
  PROVE  WInv'
<1>0. PICK x \in {"gethv", "showhv"} :
        /\ Now(x)
        /\ \/ Then(<< >>) /\ \E on \in BOOLEAN : Shown([tube EXCEPT !.button = on])
           \/ Then(<< >>) /\ Shown(tube)
           \/ x = "gethv" /\ NoAnswer(<<"showhv">>) /\ UNCHANGED tube
        /\ UNCHANGED <<fitted, gauge, boxes, left>>
  BY DEF GetHighVoltage, ShowHighVoltage
<1>1. x \in TubeSteps /\ x \notin {"timing", "begin", "frames"}
  BY DEF TubeSteps
<1>2. tube \in TubeForm /\ left \in BOOLEAN
  BY <1>0, <1>1, AtTube
<1>3. ASSUME Then(<< >>), NEW t \in TubeForm, Shown(t),
             \A f \in {"controls", "warmup", "actual", "timer"} : t[f] = tube[f]
      PROVE  WInv'
  <2>1. [t EXCEPT !.frame = t.button] \in TubeForm
        /\ \A f \in {"controls", "warmup", "actual", "timer"} : [t EXCEPT !.frame = t.button][f] = tube[f]
    BY <1>3 DEF TubeForm
  <2>2. Leaves(<< >>)
    BY <1>3, Values, PlainLeaves
  <2>q. QED BY <1>0, <1>1, <1>3, <2>1, <2>2, Checks DEF Shown
<1>4. CASE Then(<< >>) /\ \E on \in BOOLEAN : Shown([tube EXCEPT !.button = on])
  <2>1. PICK on \in BOOLEAN : Shown([tube EXCEPT !.button = on])
    BY <1>4
  <2>2. /\ [tube EXCEPT !.button = on] \in TubeForm
        /\ \A f \in {"controls", "warmup", "actual", "timer"} :
             [tube EXCEPT !.button = on][f] = tube[f]
    BY <1>2 DEF TubeForm
  <2>q. QED BY <1>3, <1>4, <2>1, <2>2
<1>5. CASE Then(<< >>) /\ Shown(tube)
  BY <1>2, <1>3, <1>5
<1>6. CASE NoAnswer(<<"showhv">>) /\ UNCHANGED tube
  <2>1. <<"showhv">> \in Seq(Plain) /\ "showhv" \in Checking
    BY DEF Plain, Checking
  <2>2. In("showhv", <<"showhv">>)
    BY DEF In
  <2>4. PICK r : Leaves(r) /\ In("showhv", r)
    BY <1>6, <2>1, <2>2, PlainUnanswered
  <2>3. UNCHANGED <<fitted, widgets>> /\ left' \in BOOLEAN
    BY <1>0, <1>2, <1>6 DEF widgets
  <2>q. QED BY <1>0, <1>1, <2>1, <2>4, <2>3, Reads
<1>q. QED BY <1>0, <1>4, <1>5, <1>6

(* The shutters are read and the warning is shown. *)
LEMMA ShuttersRead ==
  ASSUME WInv, GetShutters \/ ShowWarning
  PROVE  WInv'
<1>0. PICK x \in {"getshutters", "warning"} :
        /\ Now(x)
        /\ \/ /\ Then(<< >>)
              /\ \E open \in BOOLEAN : CheckWarning([tube EXCEPT !.box = IF tube.shutters THEN open ELSE @])
           \/ Then(<< >>) /\ CheckWarning(tube)
           \/ NoAnswer(<<"warning">>) /\ UNCHANGED tube
        /\ UNCHANGED <<fitted, gauge, boxes, left>>
  BY DEF GetShutters, ShowWarning
<1>1. x \in TubeSteps /\ x \notin {"timing", "begin", "frames"}
  BY DEF TubeSteps
<1>2. tube \in TubeForm /\ left \in BOOLEAN
  BY <1>0, <1>1, AtTube
<1>3. ASSUME Then(<< >>), NEW t \in TubeForm, CheckWarning(t),
             \A f \in {"controls", "warmup", "actual", "timer"} : t[f] = tube[f]
      PROVE  WInv'
  <2>1. Leaves(<< >>)
    BY <1>3, Values, PlainLeaves
  <2>q. QED BY <1>0, <1>1, <1>3, <2>1, Checks
<1>4. CASE /\ Then(<< >>)
           /\ \E open \in BOOLEAN : CheckWarning([tube EXCEPT !.box = IF tube.shutters THEN open ELSE @])
  <2>1. PICK open \in BOOLEAN : CheckWarning([tube EXCEPT !.box = IF tube.shutters THEN open ELSE @])
    BY <1>4
  <2>2. PICK t : t = [tube EXCEPT !.box = IF tube.shutters THEN open ELSE @]
    OBVIOUS
  <2>3. t \in TubeForm /\ \A f \in {"controls", "warmup", "actual", "timer"} : t[f] = tube[f]
    BY <1>2, <2>2 DEF TubeForm
  <2>q. QED BY <1>3, <1>4, <2>1, <2>2, <2>3
<1>5. CASE Then(<< >>) /\ CheckWarning(tube)
  BY <1>2, <1>3, <1>5
<1>6. CASE NoAnswer(<<"warning">>) /\ UNCHANGED tube
  <2>1. <<"warning">> \in Seq(Plain) /\ "warning" \in Checking
    BY DEF Plain, Checking
  <2>2. In("warning", <<"warning">>)
    BY DEF In
  <2>4. PICK r : Leaves(r) /\ In("warning", r)
    BY <1>6, <2>1, <2>2, PlainUnanswered
  <2>3. UNCHANGED <<fitted, widgets>> /\ left' \in BOOLEAN
    BY <1>0, <1>2, <1>6 DEF widgets
  <2>q. QED BY <1>0, <1>1, <2>1, <2>4, <2>3, Reads
<1>q. QED BY <1>0, <1>4, <1>5, <1>6

(* The controls that a ramp locks are those a timer unlocks. *)
LEMMA Framed ==
  ASSUME WInv, Frames
  PROVE  WInv'
<1>0. /\ todo # << >> /\ Head(todo) = "frames" /\ tube # NULL /\ tube \in TubeForm
      /\ left \in BOOLEAN /\ Head(todo) \in TubeSteps /\ "frames" \notin Checking
  BY AtTube DEF Frames, TubeSteps, Checking
<1>1. Leaves(<< >>) /\ << >> \in Seq(Steps) /\ Then(<< >>)
  BY Values, PlainLeaves, LeavesSteps DEF Frames
<1>2. UNCHANGED <<fitted, gauge, boxes, left>> /\ groupTube \in BOOLEAN
  BY DEF Frames, WInv, Types
<1>3. /\ tube' \in TubeForm
      /\ ~tube'.controls => tube'.actual
      /\ \A f \in {"warmup", "warning", "button", "shutters", "box", "timer"} : tube'[f] = tube[f]
  <2>1. CASE tube' = Ramping(tube)
    BY <1>0, <1>2, <2>1 DEF Ramping, Enabled, TubeForm
  <2>2. CASE tube' = Ramped(tube)
    BY <1>0, <2>2 DEF Ramped, TubeForm
  <2>q. QED BY <2>1, <2>2 DEF Frames
<1>4. TubeDebts'
  BY <1>0, <1>1, <1>3, DebtsPaid DEF SameWarning
<1>q. QED BY <1>0, <1>1, <1>2, <1>3, <1>4, Served

(* The actual values are read, or the voltage or the current is set. *)
LEMMA Asked ==
  ASSUME WInv, Actual \/ SetValue
  PROVE  WInv'
<1>0. PICK x \in {"actual", "switched", "set"} :
        /\ Now(x)
        /\ \E r : Leaves(r)
  <2>1. CASE Actual
    <3>1. <<"getshutters", "values">> \in Seq(Plain) /\ <<"values">> \in Seq(Plain)
      BY DEF Plain
    <3>2. \E r \in Seq(Plain) : Then(r)
      BY <2>1, <3>1, Values DEF Actual
    <3>q. QED BY <2>1, <3>2, PlainLeaves DEF Actual
  <2>2. CASE SetValue
    <3>1. CASE Then(<<"gethv", "values", "actual">>)
      <4>1. <<"gethv", "values", "actual">> \in Seq(Plain)
        BY DEF Plain
      <4>q. QED BY <2>2, <3>1, <4>1, PlainLeaves DEF SetValue
    <3>2. CASE NoAnswer(<<"check_set">>)
      <4>1. <<"check_set">> \in Seq(Plain \cup (Asking \ Lowest)) /\ AskOnce(<<"check_set">>)
        BY DEF Asking, Lowest, AskOnce
      <4>2. Head(todo) \in Asking
        BY <2>2 DEF SetValue, Now, At, Asking
      <4>q. QED BY <2>2, <3>2, <4>1, <4>2, Unanswered DEF SetValue
    <3>q. QED BY <2>2, <3>1, <3>2 DEF SetValue
  <2>q. QED BY <2>1, <2>2
<1>1. /\ x \in TubeSteps /\ x \notin {"timing", "begin", "frames"} /\ x \notin Checking
      /\ UNCHANGED <<fitted, widgets, left>>
  BY DEF TubeSteps, Checking, Actual, SetValue
<1>2. left' \in BOOLEAN
  BY <1>1 DEF WInv, Types
<1>q. QED BY <1>0, <1>1, <1>2, Reads

(* The high voltage is switched. *)
LEMMA HighVoltageSet ==
  ASSUME WInv, NEW on \in BOOLEAN, SetHighVoltage(on)
  PROVE  WInv'
<1>0. PICK x \in {"hv_on", "hv_off"} : Now(x)
  BY DEF SetHighVoltage
<1>1. /\ x \in TubeSteps /\ x \notin {"timing", "begin", "frames"} /\ x \in Asking
      /\ UNCHANGED <<fitted, gauge, boxes, left>>
  BY DEF TubeSteps, Asking, SetHighVoltage
<1>2. tube \in TubeForm /\ Head(todo) \in Asking
  BY <1>0, <1>1, AtTube
<1>3. [tube EXCEPT !.frame = on] \in TubeForm
      /\ \A f \in {"controls", "warmup", "actual", "timer"} : [tube EXCEPT !.frame = on][f] = tube[f]
  BY <1>2 DEF TubeForm
<1>4. \E r : Leaves(r)
  <2>1. CASE Then(<<"gethv", "switched">>)
    <3>1. <<"gethv", "switched">> \in Seq(Plain)
      BY DEF Plain
    <3>q. QED BY <2>1, <3>1, PlainLeaves
  <2>2. CASE NoAnswer(<<"gethv", "check_hv">>)
    <3>1. <<"gethv", "check_hv">> \in Seq(Plain \cup (Asking \ Lowest)) /\ AskOnce(<<"gethv", "check_hv">>)
      BY DEF Plain, Asking, Lowest, AskOnce
    <3>q. QED BY <1>2, <2>2, <3>1, Unanswered
  <2>q. QED BY <2>1, <2>2 DEF SetHighVoltage
<1>q. QED BY <1>0, <1>1, <1>3, <1>4, Checks DEF SetHighVoltage

-----------------------------------------------------------------------------
(* The warm-up. *)

(* What follows a check are plain steps, and they read the high voltage. *)
LEMMA GoesOnIs ==
  ASSUME Head(todo) \in {"check_update", "check_set", "check_hv"}
  PROVE  GoesOn \in Seq(Plain) /\ In("gethv", GoesOn)
<1>1. CASE Head(todo) = "check_update"
  BY <1>1, Values DEF GoesOn
<1>2. CASE Head(todo) = "check_set"
  <2>1. GoesOn = <<"gethv", "values", "actual">>
    BY <1>2 DEF GoesOn
  <2>2. <<"gethv", "values", "actual">> \in Seq(Plain) /\ In("gethv", <<"gethv", "values", "actual">>)
    BY DEF Plain, In
  <2>q. QED BY <2>1, <2>2
<1>3. CASE Head(todo) = "check_hv"
  <2>1. GoesOn = <<"gethv", "switched">>
    BY <1>3 DEF GoesOn
  <2>2. <<"gethv", "switched">> \in Seq(Plain) /\ In("gethv", <<"gethv", "switched">>)
    BY DEF Plain, In
  <2>q. QED BY <2>1, <2>2
<1>q. QED BY <1>1, <1>2, <1>3

(* With something plain before it. *)
LEMMA Before ==
  ASSUME NEW a \in Seq(Plain), NEW b \in Seq(Plain)
  PROVE  a \o b \in Seq(Plain) /\ \A x : In(x, b) => In(x, a \o b)
  BY Joined

(* Whether the tube needs a warm-up is checked. *)
LEMMA WarmupChecked ==
  ASSUME WInv, CheckWarmup
  PROVE  WInv'
<1>0. PICK x \in {"check_update", "check_set", "check_hv"} : Now(x)
  BY DEF CheckWarmup
<1>1. /\ x \in TubeSteps /\ x \notin {"timing", "begin", "frames"} /\ x \in Asking
      /\ {"gethv", "question"} \subseteq Checking
      /\ UNCHANGED <<fitted, widgets, left>>
  BY DEF TubeSteps, Asking, Checking, CheckWarmup
<1>2. Head(todo) = x /\ left' \in BOOLEAN
  BY <1>0, <1>1, AtTube
<1>3. GoesOn \in Seq(Plain) /\ In("gethv", GoesOn)
  BY <1>0, <1>2, GoesOnIs
<1>4. \E r : Leaves(r) /\ (In("gethv", r) \/ In("question", r))
  <2>1. ASSUME NEW r \in Seq(Plain), Then(r), In("gethv", r)
        PROVE  \E s : Leaves(s) /\ (In("gethv", s) \/ In("question", s))
    BY <2>1, PlainLeaves
  <2>2. <<"display">> \in Seq(Plain) /\ <<"dialog">> \in Seq(Plain) /\ <<"dialog", "display">> \in Seq(Plain)
    BY DEF Plain
  <2>3. CASE Then(GoesOn)
    BY <1>3, <2>1, <2>3
  <2>4. CASE Then(<<"display">> \o GoesOn)
    BY <1>3, <2>1, <2>2, <2>4, Before
  <2>5. CASE Then(<<"dialog">> \o GoesOn)
    BY <1>3, <2>1, <2>2, <2>5, Before
  <2>6. CASE Then(<<"question">>)
    <3>1. <<"question">> \in Seq(Plain \cup (Asking \ Lowest)) /\ AskOnce(<<"question">>)
      BY DEF Asking, Lowest, AskOnce
    <3>2. In("question", <<"question">>)
      BY DEF In
    <3>q. QED BY <1>1, <1>2, <2>6, <3>1, <3>2 DEF Leaves
  <2>7. CASE Then(<<"dialog">> \o UpdateValues)
    BY Values, <2>1, <2>2, <2>7, Before
  <2>8. CASE NoAnswer(<<"dialog", "display">> \o GoesOn)
    <3>1. PICK t \in Seq(Plain) : NoAnswer(t) /\ In("gethv", t)
      BY <1>3, <2>2, <2>8, Before
    <3>q. QED BY <3>1, PlainUnanswered
  <2>q. QED BY <2>3, <2>4, <2>5, <2>6, <2>7, <2>8 DEF CheckWarmup
<1>q. QED BY <1>0, <1>1, <1>2, <1>4, Reads

(* The user accepts or declines the warm-up. *)
LEMMA WarmupAsked ==
  ASSUME WInv, AcceptWarmup \/ DeclineWarmup
  PROVE  WInv'
<1>1. /\ Now("question") /\ "question" \in TubeSteps /\ "question" \in Asking
      /\ {"gethv", "hv_off"} \subseteq Checking
      /\ UNCHANGED <<fitted, widgets, left>>
  BY DEF TubeSteps, Asking, Checking, AcceptWarmup, DeclineWarmup
<1>2. Head(todo) = "question" /\ left' \in BOOLEAN
  BY <1>1, AtTube
<1>3. \E r : Leaves(r) /\ (In("gethv", r) \/ In("hv_off", r))
  <2>1. CASE AcceptWarmup
    <3>1. <<"hv_off", "warmup">> \in Seq(Plain \cup (Asking \ Lowest)) /\ AskOnce(<<"hv_off", "warmup">>)
      BY DEF Plain, Asking, Lowest, AskOnce
    <3>2. In("hv_off", <<"hv_off", "warmup">>)
      BY DEF In
    <3>q. QED BY <1>1, <1>2, <2>1, <3>1, <3>2 DEF AcceptWarmup, Leaves
  <2>2. CASE DeclineWarmup
    <3>1. <<"dialog", "display">> \in Seq(Plain)
      BY DEF Plain
    <3>q. QED BY <2>2, <3>1, Values, Before, PlainLeaves DEF DeclineWarmup
  <2>q. QED BY <2>1, <2>2
<1>q. QED BY <1>1, <1>2, <1>3, Reads

(* The warm-up is started. *)
LEMMA WarmupStarted ==
  ASSUME WInv, StartWarmup \/ Started
  PROVE  WInv'
<1>0. PICK x \in {"warmup", "started"} : Now(x)
  BY DEF StartWarmup, Started
<1>1. /\ x \in TubeSteps /\ x \notin {"timing", "begin", "frames"} /\ x \notin Checking
      /\ UNCHANGED <<fitted, widgets>>
  BY DEF TubeSteps, Checking, StartWarmup, Started
<1>2. Head(todo) = x /\ left \in BOOLEAN
  BY <1>0, <1>1, AtTube
<1>3. left' \in BOOLEAN
  BY <1>2 DEF StartWarmup, Started
<1>4. \E r : Leaves(r)
  <2>1. /\ <<"started">> \in Seq(Plain) /\ <<"dialog", "display">> \in Seq(Plain)
        /\ <<"timing">> \in Seq(Plain) /\ <<"dialog">> \in Seq(Plain)
        /\ <<"display">> \in Seq(Plain)
    BY DEF Plain
  <2>2. CASE StartWarmup
    BY <2>1, <2>2, PlainLeaves, PlainUnanswered DEF StartWarmup
  <2>3. CASE Started
    <3>1. CASE \/ Then(<<"timing">>) \/ Then(UpdateValues)
               \/ Then(<<"dialog">> \o UpdateValues) \/ Then(<<"dialog">>)
      BY <2>1, <3>1, Values, Before, PlainLeaves
    <3>2. CASE NoAnswer(<<"display">>)
      BY <2>1, <3>2, PlainUnanswered
    <3>3. CASE AskAgain
      <4>1. Head(todo) = "started"
        BY <2>3 DEF Started, Now, At
      <4>q. QED BY <2>1, <3>3, <4>1, PlainUnanswered DEF AskAgain
    <3>q. QED BY <2>3, <3>1, <3>2, <3>3 DEF Started, Failed
  <2>q. QED BY <2>2, <2>3
<1>q. QED BY <1>0, <1>1, <1>3, <1>4, Reads

(* The time that remains is asked for. *)
LEMMA WarmupRemains ==
  ASSUME WInv, Remaining
  PROVE  WInv'
<1>1. /\ Now("remaining") /\ "remaining" \in TubeSteps /\ "remaining" \in Asking
      /\ {"timing", "check_update", "remaining"} \subseteq Checking
      /\ UNCHANGED <<fitted, widgets>>
  BY DEF TubeSteps, Asking, Checking, Remaining
<1>2. Head(todo) = "remaining" /\ left \in BOOLEAN
  BY <1>1, AtTube
<1>3. left' \in BOOLEAN
  BY <1>2 DEF Remaining
<1>4. \E r : Leaves(r) /\ \E y \in {"timing", "check_update", "remaining"} : In(y, r)
  <2>1. CASE Then(<<"timing">>)
    <3>1. <<"timing">> \in Seq(Plain)
      BY DEF Plain
    <3>2. In("timing", <<"timing">>)
      BY DEF In
    <3>q. QED BY <2>1, <3>1, <3>2, PlainLeaves
  <2>2. CASE Then(<<"check_update">>)
    <3>1. <<"check_update">> \in Seq(Plain \cup (Asking \ Lowest)) /\ AskOnce(<<"check_update">>)
      BY DEF Asking, Lowest, AskOnce
    <3>2. In("check_update", <<"check_update">>)
      BY DEF In
    <3>q. QED BY <1>1, <1>2, <2>2, <3>1, <3>2 DEF Leaves
  <2>3. CASE AskAgain
    <3>1. <<"remaining">> \in Seq(Plain \cup (Asking \ Lowest)) /\ AskOnce(<<"remaining">>)
      BY DEF Asking, Lowest, AskOnce
    <3>2. In("remaining", <<"remaining">>)
      BY DEF In
    <3>3. NoAnswer(<<"remaining">>)
      BY <1>2, <2>3 DEF AskAgain
    <3>q. QED BY <1>1, <1>2, <3>1, <3>2, <3>3, Unanswered
  <2>q. QED BY <2>1, <2>2, <2>3 DEF Remaining
<1>q. QED BY <1>1, <1>3, <1>4, Reads

(* UpdateWarmupTiming leaves the controls to a timer or to nobody. *)
LEMMA Timed ==
  ASSUME WInv, Timing
  PROVE  WInv'
<1>0. /\ todo # << >> /\ Head(todo) = "timing" /\ tube # NULL /\ tube \in TubeForm
      /\ left \in BOOLEAN /\ Head(todo) \in TubeSteps
      /\ {"timing", "begin", "gethv"} \subseteq Checking
      /\ groupTube \in BOOLEAN /\ UNCHANGED <<fitted, gauge, boxes>>
  BY AtTube DEF Timing, TubeSteps, Checking, WInv, Types
<1>1. ASSUME NEW r, Leaves(r), In("timing", r) \/ In("begin", r), UNCHANGED tube, left' \in BOOLEAN
      PROVE  WInv'
  <2>1. TubeDebts'
    BY <1>0, <1>1, LeavesSteps, DebtsPaid
  <2>q. QED BY <1>0, <1>1, <2>1, Served
<1>2. CASE ~Enabled(tube.warmup) /\ left' = TRUE /\ Then(<<"dialog", "begin">>) /\ UNCHANGED tube
  <2>1. <<"dialog", "begin">> \in Seq(Plain)
    BY DEF Plain
  <2>2. In("begin", <<"dialog", "begin">>)
    BY DEF In
  <2>q. QED BY <1>1, <1>2, <2>1, <2>2, PlainLeaves
<1>3. CASE Enabled(tube.warmup) /\ left' = TRUE /\ Then(<< >>) /\ tube' = [tube EXCEPT !.timer = TRUE]
  <2>1. tube' \in TubeForm /\ tube'.warmup /\ tube'.timer
    BY <1>0, <1>3 DEF TubeForm, Enabled
  <2>2. Leaves(<< >>) /\ << >> \in Seq(Steps)
    BY <1>3, Values, PlainLeaves, LeavesSteps
  <2>3. TubeDebts'
    BY <1>0, <1>3, <2>1, <2>2, DebtsPaid
  <2>q. QED BY <1>0, <1>3, <2>1, <2>2, <2>3, Served
<1>4. CASE Then(UpdateValues) /\ tube' = Unlocked(tube) /\ left' = FALSE
  <2>1. tube' \in TubeForm /\ ~tube'.warmup /\ tube'.controls
    BY <1>0, <1>4 DEF TubeForm, Unlocked, Enabled
  <2>2. Leaves(UpdateValues) /\ UpdateValues \in Seq(Steps) /\ In("gethv", UpdateValues)
    BY <1>4, Values, PlainLeaves, LeavesSteps
  <2>3. TubeDebts'
    BY <1>0, <1>4, <2>1, <2>2, DebtsPaid
  <2>q. QED BY <1>0, <1>4, <2>1, <2>2, <2>3, Served
<1>5. CASE AskAgain /\ UNCHANGED <<tube, left>>
  <2>1. <<"timing">> \in Seq(Plain) /\ NoAnswer(<<"timing">>)
    BY <1>0, <1>5 DEF Plain, AskAgain
  <2>2. In("timing", <<"timing">>)
    BY DEF In
  <2>q. QED BY <1>0, <1>1, <1>5, <2>1, <2>2, PlainUnanswered
<1>q. QED BY <1>2, <1>3, <1>4, <1>5 DEF Timing

(* The dialog that announces the warm-up has been closed. *)
LEMMA Begun ==
  ASSUME WInv, Begin
  PROVE  WInv'
<1>0. /\ todo # << >> /\ Head(todo) = "begin" /\ tube # NULL /\ tube \in TubeForm
      /\ left \in BOOLEAN /\ Head(todo) \in TubeSteps /\ UNCHANGED <<fitted, gauge, boxes, left>>
  BY AtTube DEF Begin, TubeSteps
<1>1. Leaves(<< >>) /\ << >> \in Seq(Steps) /\ Then(<< >>)
  BY Values, PlainLeaves, LeavesSteps DEF Begin
<1>2. tube' \in TubeForm /\ tube'.warmup /\ tube'.timer
  BY <1>0 DEF Begin, Locked, TubeForm
<1>3. TubeDebts'
  BY <1>0, <1>1, <1>2, DebtsPaid
<1>q. QED BY <1>0, <1>1, <1>2, <1>3, Served

(* Every step of the tube's widget keeps the invariant. *)
LEMMA TubeServed ==
  ASSUME WInv, TubeStep \/ AcceptWarmup \/ DeclineWarmup
  PROVE  WInv'
  BY Connected, Displayed, HighVoltageRead, ShuttersRead, Framed, Asked, HighVoltageSet,
     WarmupChecked, WarmupAsked, WarmupStarted, WarmupRemains, Timed, Begun DEF TubeStep

-----------------------------------------------------------------------------
(* The steps of the gauge. *)

(* Every step of the gauge's widget keeps the invariant. *)
LEMMA GaugeServed ==
  ASSUME WInv, GaugeStep
  PROVE  WInv'
<1>0. PICK x \in GaugeSteps, r \in Seq(Plain) :
        /\ Now(x) /\ Then(r)
        /\ \/ x = "lock" /\ gauge' = [gauge EXCEPT !.mutex = TRUE]
           \/ x = "unlock" /\ gauge' = [gauge EXCEPT !.mutex = FALSE]
           \/ x = "pressure" /\ gauge' = [gauge EXCEPT !.timer = gauge.refresh]
           \/ x = "pressure" /\ In("again", r) /\ gauge' = [gauge EXCEPT !.timer = FALSE]
           \/ x = "pressure" /\ gauge' = [gauge EXCEPT !.timer = FALSE, !.refresh = FALSE]
           \/ x = "again" /\ gauge' = [gauge EXCEPT !.timer = @ \/ gauge.refresh]
           \/ x = "stop" /\ gauge' = [gauge EXCEPT !.timer = FALSE]
  <2>1. /\ <<"dialog", "again">> \in Seq(Plain) /\ <<"dialog", "gauge_off">> \in Seq(Plain)
        /\ <<"dialog">> \in Seq(Plain)
    BY DEF Plain
  <2>2. In("again", <<"dialog", "again">>)
    BY DEF In
  <2>3. {"lock", "unlock", "pressure", "again", "stop"} \subseteq GaugeSteps
    BY DEF GaugeSteps
  <2>4. CASE Lock
    BY <2>3, <2>4, Values DEF Lock
  <2>5. CASE Unlock
    BY <2>3, <2>5, Values DEF Unlock
  <2>6. CASE GetPressure
    <3>1. CASE Then(<< >>) /\ gauge' = [gauge EXCEPT !.timer = gauge.refresh]
      BY <2>3, <2>6, <3>1, Values DEF GetPressure
    <3>2. CASE Then(<<"dialog", "again">>) /\ gauge' = [gauge EXCEPT !.timer = FALSE]
      BY <2>1, <2>2, <2>3, <2>6, <3>2 DEF GetPressure
    <3>3. CASE Then(<<"dialog", "gauge_off">>)
               /\ gauge' = [gauge EXCEPT !.timer = FALSE, !.refresh = FALSE]
      BY <2>1, <2>3, <2>6, <3>3 DEF GetPressure
    <3>q. QED BY <2>6, <3>1, <3>2, <3>3 DEF GetPressure
  <2>7. CASE RestartTimer
    BY <2>3, <2>7, Values DEF RestartTimer
  <2>8. CASE StopTimer
    <3>1. \E r \in Seq(Plain) : Then(r)
      BY <2>1, <2>8, Values DEF StopTimer
    <3>q. QED BY <2>3, <2>8, <3>1 DEF StopTimer
  <2>q. QED BY <2>4, <2>5, <2>6, <2>7, <2>8 DEF GaugeStep
<1>1. /\ todo # << >> /\ Head(todo) = x /\ gauge # NULL /\ gauge \in GaugeForm
      /\ Leaves(r) /\ r \in Seq(Steps) /\ \A y \in Lowest \cup {"lock", "stop"} : ~In(y, r)
  BY <1>0, PlainLeaves, LeavesSteps DEF Now, At, WInv, Types
<1>2. UNCHANGED <<fitted, tube, boxes, left>>
  BY DEF GaugeStep, Lock, Unlock, GetPressure, RestartTimer, StopTimer
<1>3. gauge' \in GaugeForm
  BY <1>0, <1>1 DEF GaugeForm
<1>4. /\ \A y : Pending(y) <=> y = Head(todo) \/ In(y, Tail(todo))
      /\ \A y : Pending(y)' <=> In(y, r) \/ In(y, Tail(todo))
      /\ ~At("lock")'
  BY <1>0, <1>1, Replaced
<1>5. GaugeDebts
  BY DEF WInv
<1>6. GaugeDebts'
  <2>1. gauge'.mutex => Pending("unlock")'
    <3>1. CASE x = "lock"
      <4>1. In("unlock", todo)
        BY <1>1, <3>1, Below DEF WInv, Shape, LockFirst
      <4>2. Pending("unlock")
        BY <4>1 DEF In, Pending
      <4>q. QED BY <1>1, <1>4, <3>1, <4>2
    <3>2. CASE x = "unlock"
      BY <1>0, <1>1, <3>2 DEF GaugeForm
    <3>3. CASE x \notin {"lock", "unlock"}
      <4>1. gauge'.mutex = gauge.mutex
        BY <1>0, <1>1, <3>3 DEF GaugeForm
      <4>q. QED BY <1>1, <1>4, <1>5, <3>3, <4>1 DEF GaugeDebts
    <3>q. QED BY <3>1, <3>2, <3>3
  <2>2. Pending("stop")' => ~gauge'.refresh
    <3>1. Pending("stop")' => Pending("stop")
      BY <1>1, <1>4
    <3>2. gauge'.refresh => gauge.refresh
      BY <1>0, <1>1 DEF GaugeForm
    <3>q. QED BY <1>1, <1>5, <3>1, <3>2 DEF GaugeDebts
  <2>3. gauge'.refresh => gauge'.timer \/ Pending("pressure")' \/ Pending("again")'
    <3>1. CASE x \in {"pressure", "again"}
      BY <1>0, <1>1, <1>4, <3>1 DEF GaugeForm
    <3>2. CASE x = "stop"
      BY <1>0, <1>1, <1>4, <1>5, <3>2 DEF GaugeForm, GaugeDebts
    <3>3. CASE x \notin {"pressure", "again", "stop"}
      <4>1. gauge'.refresh = gauge.refresh /\ gauge'.timer = gauge.timer
        BY <1>0, <1>1, <3>3 DEF GaugeForm
      <4>q. QED BY <1>1, <1>4, <1>5, <3>3, <4>1 DEF GaugeDebts
    <3>q. QED BY <3>1, <3>2, <3>3
  <2>q. QED BY <1>4, <2>1, <2>2, <2>3 DEF GaugeDebts
<1>7. TubeDebts'
  <2>1. Head(todo) \notin Checking \cup {"frames"}
    BY <1>1 DEF GaugeSteps, Checking
  <2>q. QED BY <1>0, <1>1, <1>2, <2>1, TubeKept
<1>8. Shape(todo')
  BY <1>1, ShapeLeft
<1>9. Pending("tube_shown")' => Pending("tube_shown")
  BY <1>1, <1>4 DEF Lowest
<1>10. Types'
  BY <1>2, <1>3 DEF WInv, Types, boxes
<1>q. QED BY <1>2, <1>6, <1>7, <1>8, <1>9, <1>10 DEF WInv

-----------------------------------------------------------------------------
(* Gui: widgets are made and deleted. *)

(* A step that ends, or only opens dialogs, without a change in a widget. *)
LEMMA Kept ==
  ASSUME WInv, todo # << >>, NEW r \in Seq(Plain), Then(r),
         gauge # NULL => Head(todo) \notin {"unlock", "pressure", "again"},
         tube # NULL => Head(todo) \notin Checking \cup {"frames"},
         UNCHANGED <<fitted, tube, gauge, left>>,
         groupTube' \in BOOLEAN, groupPressure' \in BOOLEAN
  PROVE  WInv'
<1>1. /\ Leaves(r) /\ r \in Seq(Steps) /\ \A y \in Lowest \cup {"lock", "stop"} : ~In(y, r)
  BY PlainLeaves, LeavesSteps
<1>2. Shape(todo')
  BY <1>1, ShapeLeft
<1>3. GaugeDebts' /\ TubeDebts'
  BY <1>1, GaugeKept, TubeKept
<1>4. Pending("tube_shown")' => Pending("tube_shown")
  BY <1>1, Replaced DEF Lowest
<1>5. Types'
  BY DEF WInv, Types
<1>q. QED BY <1>2, <1>3, <1>4, <1>5 DEF WInv

(* The slot at the bottom leaves its own steps only. *)
LEMMA AtBottom ==
  ASSUME WInv, todo # << >>, Head(todo) \in Lowest, NEW r \in Seq(Steps), Then(r)
  PROVE  todo' = r
<1>1. Tail(todo) = << >>
  BY ShapeBelow DEF WInv
<1>q. QED BY <1>1 DEF Then

(* The tube's widget is created. *)
LEMMA TubeLoaded ==
  ASSUME WInv, LoadTubeWidget
  PROVE  WInv'
<1>0. /\ todo # << >> /\ Head(todo) = "istube" /\ Head(todo) \in Lowest
      /\ "istube" \notin Checking \cup {"frames"} /\ "remaining" \in Checking
      /\ UNCHANGED <<fitted, gauge, boxes, left>>
  BY DEF LoadTubeWidget, At, Lowest, Checking
<1>1. /\ <<"connected", "values", "remaining", "tube_shown">> \in Seq(Steps)
      /\ <<"values", "remaining", "tube_shown">> \in Seq(Steps)
      /\ <<"disable_tube">> \in Seq(Steps) /\ <<"dialog", "disable_tube">> \in Seq(Steps)
      /\ <<"dialog">> \in Seq(Steps)
  BY DEF Steps, TubeSteps, GuiSteps
<1>2. ASSUME NEW r, r = <<"connected", "values", "remaining", "tube_shown">>
      PROVE  Shape(r)
  <2>1. r \in Seq(Steps) /\ Len(r) = 4 /\ r[1] = "connected" /\ r[2] = "values"
        /\ r[3] = "remaining" /\ r[4] = "tube_shown"
    BY <1>1, <1>2
  <2>2. LowestLast(r) /\ AskOnce(r)
    BY <2>1 DEF LowestLast, AskOnce, Lowest, Asking
  <2>3. LockFirst(r) /\ FreshGauge(r) /\ NewIsRead(r)
    BY <2>1 DEF LockFirst, FreshGauge, NewIsRead
  <2>q. QED BY <2>1, <2>2, <2>3 DEF Shape
<1>3. ASSUME NEW r, r = <<"values", "remaining", "tube_shown">>
      PROVE  Shape(r)
  <2>1. r \in Seq(Steps) /\ Len(r) = 3 /\ r[1] = "values" /\ r[2] = "remaining" /\ r[3] = "tube_shown"
    BY <1>1, <1>3
  <2>2. LowestLast(r) /\ AskOnce(r)
    BY <2>1 DEF LowestLast, AskOnce, Lowest, Asking
  <2>3. LockFirst(r) /\ FreshGauge(r) /\ NewIsRead(r)
    BY <2>1 DEF LockFirst, FreshGauge, NewIsRead
  <2>q. QED BY <2>1, <2>2, <2>3 DEF Shape
<1>4. ASSUME NEW r, r \in {<<"disable_tube">>, <<"dialog", "disable_tube">>, <<"dialog">>}
      PROVE  Shape(r) /\ ~In("tube_shown", r) /\ ~In("lock", r) /\ ~In("stop", r)
  <2>1. r \in Seq(Steps)
    BY <1>1, <1>4
  <2>2. \A i \in 1..Len(r) :
          r[i] = "dialog" \/ (r[i] = "disable_tube" /\ i = Len(r))
    <3>1. CASE r = <<"disable_tube">>
      BY <3>1
    <3>2. CASE r = <<"dialog", "disable_tube">>
      <4>1. Len(r) = 2 /\ r[1] = "dialog" /\ r[2] = "disable_tube"
        BY <3>2
      <4>2. \A i \in 1..Len(r) : i = 1 \/ i = 2
        BY <4>1
      <4>q. QED BY <4>1, <4>2
    <3>3. CASE r = <<"dialog">>
      BY <3>3
    <3>q. QED BY <1>4, <3>1, <3>2, <3>3
  <2>3. LowestLast(r) /\ AskOnce(r)
    BY <2>2 DEF LowestLast, AskOnce, Lowest, Asking
  <2>4. LockFirst(r) /\ FreshGauge(r) /\ NewIsRead(r)
    BY <2>2 DEF LockFirst, FreshGauge, NewIsRead
  <2>q. QED BY <2>1, <2>2, <2>3, <2>4 DEF Shape, In
<1>5. CASE tube' = NewTube /\ Then(<<"connected", "values", "remaining", "tube_shown">>)
  <2>1. PICK r : r = <<"connected", "values", "remaining", "tube_shown">>
    OBVIOUS
  <2>2. Shape(r) /\ r \in Seq(Steps) /\ Then(r) /\ todo' = r /\ Shape(todo')
    BY <1>0, <1>1, <1>2, <1>5, <2>1, AtBottom
  <2>3. ~In("lock", r) /\ ~In("stop", r) /\ In("remaining", r)
    BY <2>1 DEF In
  <2>4. GaugeDebts'
    BY <1>0, <2>2, <2>3, GaugeKept
  <2>5. Pending("remaining")'
    BY <2>2, <2>3 DEF In, Pending
  <2>6. ~tube'.warmup /\ tube'.controls
    BY <1>5 DEF NewTube
  <2>7. TubeDebts'
    BY <1>0, <2>5, <2>6 DEF TubeDebts
  <2>8. tube' \in TubeForm /\ tube' # NULL
    BY <1>5, TubeFormIs
  <2>9. Types'
    BY <1>0, <2>8 DEF WInv, Types, boxes
  <2>q. QED BY <2>2, <2>4, <2>7, <2>8, <2>9 DEF WInv
<1>6. CASE tube # NULL /\ UNCHANGED tube /\ Then(<<"values", "remaining", "tube_shown">>)
  <2>1. PICK r : r = <<"values", "remaining", "tube_shown">>
    OBVIOUS
  <2>2. Shape(r) /\ r \in Seq(Steps) /\ Then(r) /\ todo' = r /\ Shape(todo')
    BY <1>0, <1>1, <1>3, <1>6, <2>1, AtBottom
  <2>3. ~In("lock", r) /\ ~In("stop", r)
    BY <2>1 DEF In
  <2>4. GaugeDebts' /\ TubeDebts'
    BY <1>0, <1>6, <2>2, <2>3, GaugeKept, TubeKept
  <2>5. Types'
    BY <1>0, <1>6 DEF WInv, Types, boxes
  <2>q. QED BY <1>6, <2>2, <2>4, <2>5 DEF WInv
<1>7. CASE /\ Then(<<"disable_tube">>) \/ Then(<<"dialog", "disable_tube">>) \/ Then(<<"dialog">>)
           /\ UNCHANGED tube
  <2>1. PICK r \in {<<"disable_tube">>, <<"dialog", "disable_tube">>, <<"dialog">>} : Then(r)
    BY <1>7
  <2>2. /\ r \in Seq(Steps) /\ todo' = r /\ Shape(todo') /\ ~In("lock", r) /\ ~In("stop", r)
        /\ ~In("tube_shown", r)
    BY <1>0, <1>1, <1>4, <2>1, AtBottom
  <2>3. GaugeDebts' /\ TubeDebts'
    BY <1>0, <1>7, <2>1, <2>2, GaugeKept, TubeKept
  <2>4. ~Pending("tube_shown")'
    BY <2>2 DEF Pending, In
  <2>5. Types'
    BY <1>0, <1>7 DEF WInv, Types, boxes
  <2>q. QED BY <2>2, <2>3, <2>4, <2>5 DEF WInv
<1>q. QED BY <1>5, <1>6, <1>7 DEF LoadTubeWidget

(* The tube's widget is deleted. *)
LEMMA TubeDisabled ==
  ASSUME WInv, DisableTube
  PROVE  WInv'
<1>0. /\ todo # << >> /\ Head(todo) \in {"disable_tube", "tube_off"} /\ Then(<< >>)
      /\ tube' = NULL /\ groupTube' = FALSE /\ UNCHANGED <<fitted, gauge, groupPressure, left>>
  BY DEF DisableTube, At, Now
<1>1. Leaves(<< >>) /\ << >> \in Seq(Steps) /\ \A y : ~In(y, << >>)
  <2>1. \A y : ~In(y, << >>)
    BY DEF In
  <2>q. QED BY <1>0, <2>1, Values, PlainLeaves, LeavesSteps
<1>2. Shape(todo') /\ GaugeDebts'
  BY <1>0, <1>1, ShapeLeft, GaugeKept
<1>3. ~Pending("tube_shown")'
  <2>1. CASE Head(todo) = "disable_tube"
    <3>1. todo' = << >>
      BY <1>0, <1>1, <2>1, AtBottom DEF Lowest
    <3>q. QED BY <3>1 DEF Pending
  <2>2. CASE Head(todo) = "tube_off"
    <3>1. ~Pending("tube_shown")
      BY <2>2 DEF DisableTube, At
    <3>q. QED BY <1>0, <1>1, <3>1, Replaced
  <2>q. QED BY <1>0, <2>1, <2>2
<1>4. TubeDebts'
  BY <1>0 DEF TubeDebts
<1>5. Types'
  BY <1>0 DEF WInv, Types
<1>q. QED BY <1>2, <1>3, <1>4, <1>5 DEF WInv

(* The other steps that are put on the stack. *)
LEMMA ShapeOfOne ==
  ASSUME NEW x \in Steps, x \notin {"lock", "connected"}
  PROVE  Shape(<<x>>)
<1>1. LowestLast(<<x>>) /\ AskOnce(<<x>>) /\ LockFirst(<<x>>) /\ FreshGauge(<<x>>) /\ NewIsRead(<<x>>)
  BY DEF LowestLast, AskOnce, LockFirst, FreshGauge, NewIsRead
<1>q. QED BY <1>1 DEF Shape

(* One more step on top of the others. *)
LEMMA OnTop ==
  ASSUME NEW x \in Steps, NEW t \in Seq(Steps)
  PROVE  /\ (<<x>> \o t) \in Seq(Steps) /\ Len(<<x>> \o t) = Len(t) + 1 /\ (<<x>> \o t)[1] = x
         /\ \A i \in 1..Len(t) : i + 1 \in 1..Len(<<x>> \o t) /\ (<<x>> \o t)[i + 1] = t[i]
         /\ \A i \in 1..Len(<<x>> \o t) : i = 1 \/ (i - 1 \in 1..Len(t) /\ (<<x>> \o t)[i] = t[i - 1])
         /\ \A y : In(y, <<x>> \o t) <=> y = x \/ In(y, t)
<1> DEFINE u == <<x>> \o t
<1>1. <<x>> \in Seq(Steps) /\ Len(<<x>>) = 1 /\ <<x>>[1] = x /\ \A y : In(y, <<x>>) <=> y = x
  BY DEF In
<1>2. \A y : In(y, u) <=> y = x \/ In(y, t)
  BY <1>1, Joined
<1>3. u \in Seq(Steps) /\ Len(u) = Len(t) + 1 /\ u[1] = x
  OBVIOUS
<1>4. \A i \in 1..Len(t) : i + 1 \in 1..Len(u) /\ u[i + 1] = t[i]
  OBVIOUS
<1>5. \A i \in 1..Len(u) : i = 1 \/ (i - 1 \in 1..Len(t) /\ u[i] = t[i - 1])
  OBVIOUS
<1>q. QED BY <1>2, <1>3, <1>4, <1>5

(* A step on top that is neither a question nor at the bottom keeps the *)
(* shape.                                                               *)
LEMMA ShapeOfNext ==
  ASSUME NEW t, Shape(t), ~In("lock", t),
         NEW x \in Steps, x \notin Lowest \cup Asking \cup {"connected"},
         x = "lock" => In("unlock", t),
         x \in {"update_gauge", "ispressure"} => ~In("unlock", t) /\ ~In("stop", t)
  PROVE  Shape(<<x>> \o t)
<1>1. PICK u : u = <<x>> \o t
  OBVIOUS
<1>2. t \in Seq(Steps) /\ LowestLast(t) /\ AskOnce(t) /\ FreshGauge(t) /\ NewIsRead(t) /\ Len(t) \in Nat
  BY DEF Shape
<1>3. /\ u \in Seq(Steps) /\ Len(u) = Len(t) + 1 /\ u[1] = x
      /\ \A i \in 1..Len(t) : i + 1 \in 1..Len(u) /\ u[i + 1] = t[i]
      /\ \A i \in 1..Len(u) : i = 1 \/ (i - 1 \in 1..Len(t) /\ u[i] = t[i - 1])
      /\ \A y : In(y, u) <=> y = x \/ In(y, t)
  BY <1>1, <1>2, OnTop
<1>4. LockFirst(u)
  <2>1. \A i \in 1..Len(t) : t[i] # "lock"
    BY DEF In
  <2>q. QED BY <1>3, <2>1 DEF LockFirst
<1>5. LowestLast(u)
  <2> SUFFICES ASSUME NEW i \in 1..Len(u), u[i] \in Lowest PROVE i = Len(u)
    BY DEF LowestLast
  <2>1. i - 1 \in 1..Len(t) /\ t[i - 1] \in Lowest
    BY <1>3
  <2>2. i - 1 = Len(t)
    BY <1>2, <2>1 DEF LowestLast
  <2>q. QED BY <1>2, <1>3, <2>2
<1>6. AskOnce(u)
  <2> SUFFICES ASSUME NEW i \in 1..Len(u), NEW j \in 1..Len(u), u[i] \in Asking, u[j] \in Asking
               PROVE  i = j
    BY DEF AskOnce
  <2>1. /\ i - 1 \in 1..Len(t) /\ t[i - 1] \in Asking
        /\ j - 1 \in 1..Len(t) /\ t[j - 1] \in Asking
    BY <1>3
  <2>2. i - 1 = j - 1
    BY <1>2, <2>1 DEF AskOnce
  <2>q. QED BY <2>2
<1>7. FreshGauge(u)
  <2> SUFFICES ASSUME NEW i \in 1..Len(u), NEW j \in 1..Len(u), i < j, u[i] \in {"update_gauge", "ispressure"}
               PROVE  u[j] \notin {"lock", "unlock", "stop"}
    BY DEF FreshGauge
  <2>1. j - 1 \in 1..Len(t) /\ u[j] = t[j - 1]
    BY <1>3
  <2>2. CASE i = 1
    BY <1>3, <2>1, <2>2 DEF In
  <2>3. CASE i # 1
    <3>1. i - 1 \in 1..Len(t) /\ u[i] = t[i - 1] /\ i - 1 < j - 1
      BY <1>3, <2>3
    <3>q. QED BY <1>2, <2>1, <3>1 DEF FreshGauge
  <2>q. QED BY <2>2, <2>3
<1>8. NewIsRead(u)
  <2> SUFFICES ASSUME NEW i \in 1..Len(u), u[i] = "connected"
               PROVE  \E j \in 1..Len(u) : i < j /\ u[j] = "remaining"
    BY DEF NewIsRead
  <2>1. i - 1 \in 1..Len(t) /\ t[i - 1] = "connected"
    BY <1>3
  <2>2. PICK k \in 1..Len(t) : i - 1 < k /\ t[k] = "remaining"
    BY <1>2, <2>1 DEF NewIsRead
  <2>3. k + 1 \in 1..Len(u) /\ i < k + 1 /\ u[k + 1] = "remaining"
    BY <1>3, <2>2
  <2>q. QED BY <2>3
<1>q. QED BY <1>1, <1>3, <1>4, <1>5, <1>6, <1>7, <1>8 DEF Shape

(* The gauge's widget is created. *)
LEMMA GaugeLoaded ==
  ASSUME WInv, LoadPressureWidget
  PROVE  WInv'
<1>0. /\ todo # << >> /\ Head(todo) = "ispressure"
      /\ "ispressure" \notin Checking \cup {"frames"}
      /\ UNCHANGED <<fitted, tube, boxes, left>> /\ Shape(todo) /\ Types /\ GaugeDebts
  BY DEF LoadPressureWidget, At, Checking, WInv
<1>1. CASE /\ Then(<<"disable_gauge">>) \/ Then(<<"dialog", "disable_gauge">>) \/ Then(<<"dialog">>)
           /\ UNCHANGED gauge
  <2>1. /\ <<"disable_gauge">> \in Seq(Plain) /\ <<"dialog", "disable_gauge">> \in Seq(Plain)
        /\ <<"dialog">> \in Seq(Plain)
    BY DEF Plain
  <2>2. groupTube' \in BOOLEAN /\ groupPressure' \in BOOLEAN
    BY <1>0 DEF Types, boxes
  <2>q. QED BY <1>0, <1>1, <2>1, <2>2, Kept
<1>2. ASSUME NEW r, Then(r),
             gauge' = IF gauge = NULL THEN NewGauge ELSE gauge,
             r = IF gauge'.refresh THEN <<"lock", "pressure", "unlock", "gauge_shown">>
                 ELSE <<"gauge_shown">>
      PROVE  WInv'
  <2>1. /\ Shape(Tail(todo)) /\ ~In("lock", Tail(todo)) /\ ~In("unlock", Tail(todo))
        /\ ~In("stop", Tail(todo))
    BY <1>0, ShapeBelow
  <2>2. <<"pressure", "unlock", "gauge_shown">> \in Seq(Plain) /\ <<"gauge_shown">> \in Seq(Plain)
    BY DEF Plain
  <2>3. Shape(todo')
    <3>1. CASE gauge'.refresh
      <4>1. PICK t : t = <<"pressure", "unlock", "gauge_shown">> \o Tail(todo)
        OBVIOUS
      <4>2. Shape(t) /\ ~In("lock", t) /\ In("unlock", t)
        <5>1. /\ <<"pressure", "unlock", "gauge_shown">> \in Seq(Plain \cup (Asking \ Lowest))
              /\ AskOnce(<<"pressure", "unlock", "gauge_shown">>)
          BY <2>2 DEF AskOnce, Asking
        <5>2. Shape(t)
          BY <2>1, <2>2, <4>1, <5>1, ShapeOnTop
        <5>3. /\ ~In("lock", <<"pressure", "unlock", "gauge_shown">>)
              /\ In("unlock", <<"pressure", "unlock", "gauge_shown">>)
          BY DEF In
        <5>4. <<"pressure", "unlock", "gauge_shown">> \in Seq(Steps) /\ Tail(todo) \in Seq(Steps)
          BY <2>1, <2>2, PlainIs DEF Shape
        <5>q. QED BY <2>1, <4>1, <5>2, <5>3, <5>4, Joined
      <4>3. todo' = <<"lock">> \o t
        <5>1. <<"lock", "pressure", "unlock", "gauge_shown">> =
                <<"lock">> \o <<"pressure", "unlock", "gauge_shown">>
          OBVIOUS
        <5>2. Tail(todo) \in Seq(Steps) /\ <<"lock">> \in Seq(Steps)
              /\ <<"pressure", "unlock", "gauge_shown">> \in Seq(Steps)
          BY <2>1, <2>2, PlainIs DEF Shape, Steps, GaugeSteps
        <5>3. (<<"lock">> \o <<"pressure", "unlock", "gauge_shown">>) \o Tail(todo) =
                <<"lock">> \o (<<"pressure", "unlock", "gauge_shown">> \o Tail(todo))
          BY <5>2, ConcatAssociative
        <5>q. QED BY <1>2, <3>1, <4>1, <5>1, <5>3 DEF Then
      <4>q. QED
        <5>1. "lock" \in Steps /\ "lock" \notin Lowest \cup Asking \cup {"connected"}
          BY DEF Steps, GaugeSteps, Lowest, Asking
        <5>q. QED BY <4>2, <4>3, <5>1, ShapeOfNext
    <3>2. CASE ~gauge'.refresh
      <4>1. Leaves(<<"gauge_shown">>)
        BY <1>2, <2>2, <3>2, PlainLeaves
      <4>q. QED BY <1>0, <4>1, ShapeLeft
    <3>q. QED BY <3>1, <3>2
  <2>4. /\ r \in Seq(Steps) /\ ~In("stop", r) /\ ~In("tube_shown", r)
        /\ gauge'.refresh => In("pressure", r) /\ In("unlock", r)
    <3>1. CASE gauge'.refresh
      <4>1. r = <<"lock", "pressure", "unlock", "gauge_shown">>
        BY <1>2, <3>1
      <4>2. r \in Seq(Steps)
        BY <4>1 DEF Steps, GaugeSteps, GuiSteps
      <4>q. QED BY <3>1, <4>1, <4>2 DEF In
    <3>2. CASE ~gauge'.refresh
      <4>1. r = <<"gauge_shown">>
        BY <1>2, <3>2
      <4>2. r \in Seq(Steps)
        BY <4>1 DEF Steps, GaugeSteps, GuiSteps
      <4>q. QED BY <3>2, <4>1, <4>2 DEF In
    <3>q. QED BY <3>1, <3>2
  <2>5. /\ \A y : Pending(y) <=> y = Head(todo) \/ In(y, Tail(todo))
        /\ \A y : Pending(y)' <=> In(y, r) \/ In(y, Tail(todo))
    BY <1>0, <1>2, <2>4, Replaced
  <2>6. gauge' # NULL => ~gauge'.mutex
    <3>1. CASE gauge = NULL
      BY <1>2, <3>1 DEF NewGauge
    <3>2. CASE gauge # NULL
      <4>1. ~Pending("unlock")
        BY <1>0, <2>1, <2>5
      <4>q. QED BY <1>0, <1>2, <3>2, <4>1 DEF GaugeDebts
    <3>q. QED BY <3>1, <3>2
  <2>7. GaugeDebts'
    <3>1. ~Pending("stop")' /\ (gauge'.refresh => Pending("pressure")')
      BY <2>1, <2>4, <2>5
    <3>q. QED BY <2>6, <3>1 DEF GaugeDebts
  <2>8. TubeDebts'
    BY <1>0, <1>2, <2>4, TubeKept
  <2>9. gauge' = NULL \/ gauge' \in GaugeForm
    BY <1>0, <1>2, GaugeFormIs DEF Types
  <2>10. Pending("tube_shown")' => Pending("tube_shown")
    BY <2>4, <2>5
  <2>11. Types'
    BY <1>0, <2>9 DEF Types, boxes
  <2>q. QED BY <1>0, <2>3, <2>7, <2>8, <2>10, <2>11 DEF WInv
<1>q. QED BY <1>1, <1>2 DEF LoadPressureWidget

(* The gauge's widget is deleted. *)
LEMMA GaugeDisabled ==
  ASSUME WInv, DisableGauge
  PROVE  WInv'
<1>0. /\ todo # << >> /\ Head(todo) \in {"disable_gauge", "gauge_off"} /\ Then(<< >>)
      /\ gauge' = NULL /\ groupPressure' = FALSE /\ UNCHANGED <<fitted, tube, groupTube, left>>
  BY DEF DisableGauge, At, Now
<1>1. Leaves(<< >>) /\ << >> \in Seq(Steps) /\ \A y \in Lowest \cup {"lock", "stop"} : ~In(y, << >>)
  BY <1>0, Values, PlainLeaves, LeavesSteps
<1>2. Shape(todo') /\ TubeDebts'
  <2>1. Head(todo) \notin Checking \cup {"frames"}
    BY <1>0 DEF Checking
  <2>q. QED BY <1>0, <1>1, <2>1, ShapeLeft, TubeKept
<1>3. Pending("tube_shown")' => Pending("tube_shown")
  BY <1>0, <1>1, Replaced DEF Lowest
<1>4. GaugeDebts'
  BY <1>0 DEF GaugeDebts
<1>5. Types'
  BY <1>0 DEF WInv, Types
<1>q. QED BY <1>0, <1>2, <1>3, <1>4, <1>5 DEF WInv

(* A widget is shown, a signal is heard by nobody, a dialog is closed. *)
LEMMA Popped ==
  ASSUME WInv, TubeShown \/ GaugeShown \/ Unheard \/ Undefined \/ CloseDialog
  PROVE  WInv'
<1>1. /\ todo # << >> /\ Then(<< >>) /\ UNCHANGED <<fitted, tube, gauge, left>>
      /\ groupTube' \in BOOLEAN /\ groupPressure' \in BOOLEAN
  BY DEF TubeShown, GaugeShown, Unheard, Undefined, CloseDialog, At, Now, Idle, WInv, Types,
     widgets, boxes
<1>2. /\ gauge # NULL => Head(todo) \notin {"unlock", "pressure", "again"}
      /\ tube # NULL => Head(todo) \notin Checking \cup {"frames"}
  <2>1. CASE Undefined
    <3>1. {"unlock", "pressure", "again"} \subseteq GaugeSteps /\ Checking \cup {"frames"} \subseteq TubeSteps
          /\ \A y \in {"unlock", "pressure", "again"} : y \notin TubeSteps
          /\ \A z \in Checking \cup {"frames"} : z \notin GaugeSteps
      BY DEF GaugeSteps, TubeSteps, Checking
    <3>q. QED BY <2>1, <3>1 DEF Undefined
  <2>2. CASE TubeShown \/ GaugeShown \/ Unheard \/ CloseDialog
    <3>1. Head(todo) \in {"tube_shown", "gauge_shown", "tube_off", "gauge_off", "dialog"}
      BY <2>2 DEF TubeShown, GaugeShown, Unheard, CloseDialog, At, Now
    <3>q. QED BY <3>1 DEF Checking
  <2>q. QED BY <2>1, <2>2
<1>q. QED BY <1>1, <1>2, Values, Kept

(* Update looks at the boxes of the two widgets. *)
LEMMA Updated ==
  ASSUME WInv, UpdateChecked
  PROVE  WInv'
<1>0. /\ todo # << >> /\ Head(todo) \in {"update_gauge", "update_tube"}
      /\ Head(todo) \notin Checking \cup {"frames"}
      /\ UNCHANGED <<fitted, tube, gauge, boxes, left>> /\ Shape(todo) /\ Types
      /\ groupTube' \in BOOLEAN /\ groupPressure' \in BOOLEAN
  BY DEF UpdateChecked, At, Checking, WInv, Types, widgets, boxes
<1>1. CASE Then(<< >>)
  BY <1>0, <1>1, Values, Kept
<1>2. ASSUME NEW x \in {"ispressure", "istube"}, Then(<<x>>), Shape(todo')
      PROVE  WInv'
  <2>1. <<x>> \in Seq(Steps) /\ ~In("lock", <<x>>) /\ ~In("stop", <<x>>) /\ ~In("tube_shown", <<x>>)
    BY DEF Steps, GuiSteps, In
  <2>2. GaugeDebts' /\ TubeDebts'
    BY <1>0, <1>2, <2>1, GaugeKept, TubeKept
  <2>3. Pending("tube_shown")' => Pending("tube_shown")
    BY <1>0, <1>2, <2>1, Replaced
  <2>4. Types'
    BY <1>0 DEF Types
  <2>q. QED BY <1>0, <1>2, <2>2, <2>3, <2>4 DEF WInv
<1>3. CASE Then(<<"ispressure">>) /\ Head(todo) = "update_gauge"
  <2>1. /\ Shape(Tail(todo)) /\ ~In("lock", Tail(todo)) /\ ~In("unlock", Tail(todo))
        /\ ~In("stop", Tail(todo))
    BY <1>0, <1>3, ShapeBelow
  <2>2. Shape(<<"ispressure">> \o Tail(todo))
    <3>1. "ispressure" \in Steps /\ "ispressure" \notin Lowest \cup Asking \cup {"connected"}
      BY DEF Steps, GuiSteps, Lowest, Asking
    <3>q. QED BY <2>1, <3>1, ShapeOfNext
  <2>q. QED BY <1>2, <1>3, <2>2 DEF Then
<1>4. CASE Then(<<"istube">>) /\ Head(todo) = "update_tube"
  <2>1. <<"istube">> \in Seq(Steps) /\ "update_tube" \in Lowest
    BY DEF Steps, GuiSteps, Lowest
  <2>2. todo' = <<"istube">>
    BY <1>0, <1>4, <2>1, AtBottom
  <2>3. Shape(<<"istube">>)
    BY <2>1, ShapeOfOne
  <2>q. QED BY <1>2, <1>4, <2>2, <2>3
<1>q. QED BY <1>1, <1>3, <1>4 DEF UpdateChecked, At

(* Every step of the main window keeps the invariant. *)
LEMMA GuiServed ==
  ASSUME WInv, GuiStep \/ CloseDialog
  PROVE  WInv'
  BY TubeLoaded, TubeDisabled, GaugeLoaded, GaugeDisabled, Popped, Updated DEF GuiStep

-----------------------------------------------------------------------------
(* The user. *)

(* Who clicks finds nothing owed but to timers. *)
LEMMA NothingPending ==
  ASSUME WInv, Idle
  PROVE  /\ \A x : ~Pending(x)
         /\ gauge # NULL => ~gauge.mutex /\ (gauge.refresh => gauge.timer)
         /\ tube # NULL => /\ tube.warmup \/ tube.warning = Warns(tube)
                           /\ tube.warmup => tube.timer
                           /\ ~tube.controls => tube.timer \/ tube.actual
<1>1. \A x : ~Pending(x)
  BY DEF Idle, Pending
<1>q. QED BY <1>1 DEF WInv, GaugeDebts, TubeDebts, Warmup

(* A click leaves the gauge's widget without debts. *)
LEMMA IdleGauge ==
  ASSUME WInv, Idle, UNCHANGED gauge, ~In("stop", todo'), ~At("lock")'
  PROVE  GaugeDebts'
<1>1. ~Pending("stop")'
  BY DEF In, Pending
<1>q. QED BY <1>1, NothingPending DEF GaugeDebts

(* A click leaves the tube's widget without debts. *)
LEMMA IdleTube ==
  ASSUME WInv, Idle, UNCHANGED tube
  PROVE  TubeDebts'
  BY NothingPending DEF TubeDebts, Warmup

(* A click that sends a command. *)
LEMMA OneCommand ==
  ASSUME WInv, Idle, NEW x \in Steps, x \notin {"lock", "connected", "stop", "tube_shown"},
         todo' = <<x>>, UNCHANGED <<fitted, gauge, left>>, TubeDebts', tube' = NULL \/ tube' \in TubeForm,
         groupTube' \in BOOLEAN, groupPressure' \in BOOLEAN
  PROVE  WInv'
<1>1. Shape(todo')
  BY ShapeOfOne
<1>2. \A y : In(y, todo') <=> y = x
  BY DEF In
<1>3. ~At("lock")'
  BY DEF At
<1>4. GaugeDebts'
  BY <1>2, <1>3, IdleGauge
<1>5. ~Pending("tube_shown")'
  BY <1>2 DEF In, Pending
<1>6. Types'
  BY DEF WInv, Types
<1>q. QED BY <1>1, <1>4, <1>5, <1>6 DEF WInv

(* A click in the tube's widget. *)
LEMMA Clicked ==
  ASSUME WInv, ClickHighVoltage \/ ClickShutter \/ EnterValue \/ ClickError
  PROVE  WInv'
<1>0. /\ Idle /\ tube # NULL /\ tube \in TubeForm /\ UNCHANGED <<fitted, gauge, boxes, left>>
      /\ groupTube' \in BOOLEAN /\ groupPressure' \in BOOLEAN
  BY DEF ClickHighVoltage, ClickShutter, EnterValue, ClickError, WInv, Types, boxes, widgets
<1>1. /\ tube.warmup \/ tube.warning = Warns(tube)
      /\ tube.warmup => tube.timer
      /\ ~tube.controls => tube.timer \/ tube.actual
  BY <1>0, NothingPending
<1>2. CASE ClickHighVoltage
  <2>1. PICK x \in {"hv_on", "hv_off"} : todo' = <<x>>
    BY <1>2 DEF ClickHighVoltage
  <2>2. /\ tube' \in TubeForm /\ tube'.warmup = tube.warmup /\ tube'.timer = tube.timer
        /\ tube'.controls = tube.controls /\ tube'.actual = tube.actual
    BY <1>0, <1>2 DEF ClickHighVoltage, TubeForm
  <2>3. Pending(x)' /\ x \in Checking /\ x \in Steps
    BY <2>1 DEF Pending, Checking, Steps, TubeSteps
  <2>4. TubeDebts'
    BY <1>1, <2>2, <2>3 DEF TubeDebts
  <2>q. QED BY <1>0, <2>1, <2>2, <2>3, <2>4, OneCommand
<1>3. CASE ClickShutter /\ tube.shutters
  <2>1. PICK t : t = [tube EXCEPT !.box = ~ @]
    OBVIOUS
  <2>2. /\ t \in TubeForm /\ t.warmup = tube.warmup /\ t.timer = tube.timer
        /\ t.controls = tube.controls /\ t.actual = tube.actual
    BY <1>0, <2>1 DEF TubeForm
  <2>3. CheckWarning(t) /\ todo' = <<"setshutter">>
    BY <1>3, <2>1 DEF ClickShutter
  <2>4. /\ tube' \in TubeForm /\ tube'.warning = Warns(tube') /\ tube'.warmup = tube.warmup
        /\ tube'.timer = tube.timer /\ tube'.controls = tube.controls /\ tube'.actual = tube.actual
    BY <2>2, <2>3, Checked
  <2>5. TubeDebts'
    BY <1>1, <2>4 DEF TubeDebts
  <2>6. "setshutter" \in Steps
    BY DEF Steps, TubeSteps
  <2>q. QED BY <1>0, <2>3, <2>4, <2>5, <2>6, OneCommand
<1>4. CASE ClickShutter /\ ~tube.shutters
  <2>1. UNCHANGED todo /\ tube' = [tube EXCEPT !.box = ~ @]
    BY <1>4 DEF ClickShutter
  <2>2. /\ tube' \in TubeForm
        /\ \A f \in {"shutters", "button", "controls", "frame", "warning", "warmup", "actual", "timer"} :
             tube'[f] = tube[f]
    BY <1>0, <2>1 DEF TubeForm
  <2>3. Warns(tube') = Warns(tube)
    BY <1>4, <2>2 DEF Warns
  <2>4. TubeDebts'
    BY <1>1, <2>2, <2>3 DEF TubeDebts
  <2>5. \A x : Pending(x)' <=> Pending(x)
    BY <2>1 DEF Pending
  <2>6. Shape(todo') /\ GaugeDebts'
    BY <1>0, <2>1, <2>5 DEF WInv, GaugeDebts, At
  <2>7. ~Pending("tube_shown")' /\ Types'
    BY <1>0, <2>2, <2>5, NothingPending DEF WInv, Types
  <2>q. QED BY <2>4, <2>6, <2>7 DEF WInv
<1>5. CASE EnterValue \/ ClickError
  <2>1. PICK x \in {"set", "display"} : todo' = <<x>> /\ UNCHANGED tube
    BY <1>5 DEF EnterValue, ClickError, widgets
  <2>2. TubeDebts' /\ x \in Steps
    BY <1>0, <2>1, IdleTube DEF Steps, TubeSteps
  <2>q. QED BY <1>0, <2>1, <2>2, OneCommand
<1>q. QED BY <1>2, <1>3, <1>4, <1>5

(* A click on the box of the tube or of the gauge. *)
LEMMA BoxChecked ==
  ASSUME WInv, CheckTube \/ CheckPressure
  PROVE  WInv'
<1>1. /\ Idle /\ UNCHANGED <<fitted, tube, gauge, left>> /\ groupTube' \in BOOLEAN
      /\ groupPressure' \in BOOLEAN /\ (tube' = NULL \/ tube' \in TubeForm)
  BY DEF CheckTube, CheckPressure, WInv, Types
<1>2. PICK x \in {"istube", "ispressure"} : todo' = <<x>>
  BY DEF CheckTube, CheckPressure
<1>3. TubeDebts' /\ x \in Steps
  BY <1>1, IdleTube DEF Steps, GuiSteps
<1>q. QED BY <1>1, <1>2, <1>3, OneCommand

(* A click on the refresh of the pressure. *)
LEMMA RefreshChecked ==
  ASSUME WInv, CheckRefresh
  PROVE  WInv'
<1>0. /\ Idle /\ gauge # NULL /\ gauge \in GaugeForm /\ UNCHANGED <<fitted, tube, boxes, left>>
      /\ gauge' = [gauge EXCEPT !.refresh = ~ @]
  BY DEF CheckRefresh, WInv, Types
<1>1. PICK x \in {"pressure", "stop"} :
        todo' = <<"lock", x, "unlock">> /\ (gauge'.refresh <=> x = "pressure")
  BY DEF CheckRefresh
<1>2. gauge' \in GaugeForm /\ ~gauge'.mutex
  <2>1. gauge' \in GaugeForm /\ gauge'.mutex = gauge.mutex
    BY <1>0 DEF GaugeForm
  <2>q. QED BY <1>0, <2>1, NothingPending
<1>3. \A y : In(y, todo') <=> y \in {"lock", x, "unlock"}
  BY <1>1 DEF In
<1>4. \A y : Pending(y)' <=> y \in {"lock", x, "unlock"}
  BY <1>3 DEF In, Pending
<1>5. GaugeDebts'
  BY <1>1, <1>2, <1>4 DEF GaugeDebts
<1>6. TubeDebts'
  BY <1>0, IdleTube
<1>7. Shape(todo')
  <2>1. todo' \in Seq(Steps) /\ Len(todo') = 3 /\ todo'[1] = "lock" /\ todo'[2] = x /\ todo'[3] = "unlock"
    BY <1>1 DEF Steps, GaugeSteps
  <2>2. LowestLast(todo') /\ AskOnce(todo')
    BY <2>1 DEF LowestLast, AskOnce, Lowest, Asking
  <2>3. LockFirst(todo') /\ FreshGauge(todo') /\ NewIsRead(todo')
    BY <1>3, <2>1 DEF LockFirst, FreshGauge, NewIsRead
  <2>q. QED BY <2>1, <2>2, <2>3 DEF Shape
<1>8. ~Pending("tube_shown")' /\ Types'
  BY <1>0, <1>2, <1>4 DEF WInv, Types, boxes
<1>q. QED BY <1>5, <1>6, <1>7, <1>8 DEF WInv

(* What the update button starts has the shape. *)
LEMMA UpdateShape ==
  ASSUME NEW q \in {<<"update_gauge", "update_tube">>, <<"dialog", "update_gauge", "update_tube">>}
  PROVE  Shape(q) /\ q # << >> /\ Head(q) # "lock" /\ ~In("stop", q) /\ ~In("tube_shown", q)
<1>1. CASE q = <<"update_gauge", "update_tube">>
  <2>1. q \in Seq(Steps) /\ Len(q) = 2 /\ q[1] = "update_gauge" /\ q[2] = "update_tube"
    BY <1>1 DEF Steps, GuiSteps
  <2>2. LowestLast(q) /\ AskOnce(q)
    BY <2>1 DEF LowestLast, AskOnce, Lowest, Asking
  <2>3. LockFirst(q) /\ FreshGauge(q) /\ NewIsRead(q)
    BY <2>1 DEF LockFirst, FreshGauge, NewIsRead
  <2>4. ~In("stop", q) /\ ~In("tube_shown", q)
    BY <2>1 DEF In
  <2>5. q # << >> /\ Head(q) # "lock"
    BY <1>1
  <2>q. QED BY <2>1, <2>2, <2>3, <2>4, <2>5 DEF Shape
<1>2. CASE q = <<"dialog", "update_gauge", "update_tube">>
  <2>1. q \in Seq(Steps) /\ Len(q) = 3 /\ q[1] = "dialog" /\ q[2] = "update_gauge" /\ q[3] = "update_tube"
    BY <1>2 DEF Steps, GuiSteps
  <2>2. LowestLast(q) /\ AskOnce(q)
    BY <2>1 DEF LowestLast, AskOnce, Lowest, Asking
  <2>3. LockFirst(q) /\ FreshGauge(q) /\ NewIsRead(q)
    BY <2>1 DEF LockFirst, FreshGauge, NewIsRead
  <2>4. ~In("stop", q) /\ ~In("tube_shown", q)
    BY <2>1 DEF In
  <2>5. q # << >> /\ Head(q) # "lock"
    BY <1>2
  <2>q. QED BY <2>1, <2>2, <2>3, <2>4, <2>5 DEF Shape
<1>q. QED BY <1>1, <1>2

(* A click on the update button. *)
LEMMA UpdateClicked ==
  ASSUME WInv, Update
  PROVE  WInv'
<1>0. /\ Idle /\ UNCHANGED <<fitted, tube, gauge, boxes, left>>
      /\ todo' \in {<<"update_gauge", "update_tube">>, <<"dialog", "update_gauge", "update_tube">>}
  BY DEF Update, widgets
<1>1. /\ Shape(todo') /\ ~At("lock")' /\ ~In("stop", todo') /\ ~In("tube_shown", todo')
  BY <1>0, UpdateShape DEF At
<1>2. GaugeDebts' /\ TubeDebts'
  BY <1>0, <1>1, IdleGauge, IdleTube
<1>3. ~Pending("tube_shown")' /\ Types'
  BY <1>0, <1>1 DEF Pending, In, WInv, Types, boxes
<1>q. QED BY <1>1, <1>2, <1>3 DEF WInv

-----------------------------------------------------------------------------
(* The timers. *)

(* A timer fires. *)
LEMMA TimedOut ==
  ASSUME WInv, Timers
  PROVE  WInv'
<1>0. EventLoop /\ UNCHANGED <<fitted, boxes, left>> /\ GaugeDebts /\ TubeDebts /\ Types
  BY DEF Timers, ActualTimeout, WarmupTimeout, TimeoutRefresh, WInv
<1>1. CASE ActualTimeout \/ WarmupTimeout
  <2>1. PICK r \in Seq(Plain) :
          /\ todo' = r \o todo
          /\ \/ tube' = [tube EXCEPT !.actual = FALSE] /\ In("frames", r)
             \/ tube' = [tube EXCEPT !.timer = FALSE] /\ In("timing", r)
    <3>1. <<"timing">> \in Seq(Plain) /\ In("timing", <<"timing">>)
      BY DEF Plain, In
    <3>q. QED BY <1>1, <3>1, Values DEF ActualTimeout, WarmupTimeout
  <2>2. tube # NULL /\ tube \in TubeForm /\ UNCHANGED gauge
    BY <1>0, <1>1 DEF ActualTimeout, WarmupTimeout, Types
  <2>3. /\ Shape(todo') /\ ~At("lock")'
        /\ \A x : Pending(x)' <=> In(x, r) \/ Pending(x)
        /\ Pending("tube_shown")' => Pending("tube_shown")
        /\ Pending("stop")' => Pending("stop")
    BY <1>0, <2>1, Pushed
  <2>4. GaugeDebts'
    BY <1>0, <2>2, <2>3 DEF GaugeDebts
  <2>5. /\ tube' \in TubeForm /\ tube' # NULL
        /\ \A f \in {"warmup", "warning", "button", "shutters", "box", "controls"} : tube'[f] = tube[f]
        /\ tube'.timer = tube.timer \/ In("timing", r)
        /\ tube'.actual = tube.actual \/ In("frames", r)
    <3>1. tube' \in TubeForm
      BY <2>1, <2>2 DEF TubeForm
    <3>2. \A f \in {"warmup", "warning", "button", "shutters", "box", "controls"} : tube'[f] = tube[f]
      BY <2>1, <2>2 DEF TubeForm
    <3>3. /\ tube'.timer = tube.timer \/ In("timing", r)
          /\ tube'.actual = tube.actual \/ In("frames", r)
      BY <2>1, <2>2 DEF TubeForm
    <3>q. QED BY <3>1, <3>2, <3>3, TubeFormIs
  <2>6. Warns(tube') = Warns(tube)
    BY <2>5 DEF Warns
  <2>7. TubeDebts'
    BY <1>0, <2>2, <2>3, <2>5, <2>6 DEF TubeDebts, Warmup
  <2>8. Types'
    BY <1>0, <2>2, <2>5 DEF Types, boxes
  <2>q. QED BY <2>3, <2>4, <2>5, <2>7, <2>8 DEF WInv
<1>2. CASE TimeoutRefresh
  <2>1. /\ <<"pressure", "unlock">> \in Seq(Plain) /\ In("unlock", <<"pressure", "unlock">>)
        /\ todo' = <<"pressure", "unlock">> \o todo
    BY <1>2 DEF Plain, In, TimeoutRefresh
  <2>2. /\ gauge # NULL /\ gauge \in GaugeForm /\ gauge' = [gauge EXCEPT !.mutex = TRUE]
        /\ UNCHANGED tube
    BY <1>0, <1>2 DEF TimeoutRefresh, Types
  <2>3. /\ Shape(todo') /\ ~At("lock")' /\ Pending("unlock")'
        /\ \A x : Pending(x) => Pending(x)'
        /\ Pending("tube_shown")' => Pending("tube_shown")
        /\ Pending("stop")' => Pending("stop")
    BY <1>0, <2>1, Pushed
  <2>4. gauge' \in GaugeForm /\ gauge'.refresh = gauge.refresh /\ gauge'.timer = gauge.timer
    BY <2>2 DEF GaugeForm
  <2>5. GaugeDebts'
    BY <1>0, <2>2, <2>3, <2>4 DEF GaugeDebts
  <2>6. TubeDebts'
    BY <1>0, <2>2, <2>3 DEF TubeDebts, Warmup
  <2>7. Types'
    BY <1>0, <2>2, <2>4 DEF Types, boxes
  <2>q. QED BY <2>2, <2>3, <2>5, <2>6, <2>7 DEF WInv
<1>q. QED BY <1>1, <1>2 DEF Timers

-----------------------------------------------------------------------------
(* The invariant, and what it says. *)

(* A new GUI, the first one or one that is started again. *)
LEMMA NewGui ==
  /\ Init => WInv
  /\ WInv /\ Restart => WInv'
<1>1. /\ Shape(<<"update_gauge", "update_tube">>)
      /\ ~In("tube_shown", <<"update_gauge", "update_tube">>)
  BY UpdateShape
<1>2. ASSUME Init PROVE WInv
  <2>1. ~Pending("tube_shown")
    BY <1>1, <1>2 DEF Init, Pending, In
  <2>q. QED BY <1>1, <1>2, <2>1 DEF Init, WInv, Types, GaugeDebts, TubeDebts
<1>3. ASSUME WInv, Restart PROVE WInv'
  <2>1. ~Pending("tube_shown")'
    BY <1>1, <1>3 DEF Restart, Pending, In
  <2>q. QED BY <1>1, <1>3, <2>1 DEF Restart, WInv, Types, GaugeDebts, TubeDebts
<1>q. QED BY <1>2, <1>3

(* Every step keeps the invariant. *)
LEMMA StepInv == WInv /\ [Next]_vars => WInv'
<1> SUFFICES ASSUME WInv, [Next]_vars PROVE WInv'
  OBVIOUS
<1>1. CASE TubeStep \/ AcceptWarmup \/ DeclineWarmup
  BY <1>1, TubeServed
<1>2. CASE GaugeStep
  BY <1>2, GaugeServed
<1>3. CASE GuiStep \/ CloseDialog
  BY <1>3, GuiServed
<1>4. CASE User
  BY <1>4, Clicked, BoxChecked, RefreshChecked, UpdateClicked DEF User
<1>5. CASE Timers
  BY <1>5, TimedOut
<1>6. CASE Restart
  BY <1>6, NewGui
<1>7. CASE UNCHANGED vars
  <2>1. UNCHANGED <<fitted, tube, gauge, groupTube, groupPressure, todo, left>>
    BY <1>7 DEF vars, widgets, boxes
  <2>2. \A x : Pending(x)' <=> Pending(x)
    BY <2>1 DEF Pending
  <2>3. Shape(todo') /\ Types' /\ GaugeDebts'
    BY <2>1, <2>2 DEF WInv, Types, GaugeDebts, At
  <2>4. TubeDebts'
    BY <2>1, <2>2 DEF WInv, TubeDebts, Warmup
  <2>q. QED BY <2>1, <2>2, <2>3, <2>4 DEF WInv
<1>q. QED BY <1>1, <1>2, <1>3, <1>4, <1>5, <1>6, <1>7 DEF Next

(* The invariant holds in every reachable state. *)
LEMMA SpecInv == Spec => []WInv
  BY NewGui, StepInv, PTL DEF Spec

(* A locked mutex of the gauge's widget will be unlocked; a tube's widget  *)
(* whose signal is not connected yet exists, and is being enabled by the   *)
(* slot at the bottom.                                                     *)
THEOREM TypeCorrect == Spec => []TypeOK
<1>1. ASSUME WInv PROVE TypeOK
  <2>1. todo \in Seq(Steps) /\ LowestLast(todo)
    BY <1>1 DEF WInv, Shape
  <2>2. Pending("tube_shown") => todo[Len(todo)] = "tube_shown" /\ tube # NULL
    BY <1>1, <2>1 DEF Pending, LowestLast, Lowest, WInv
  <2>q. QED BY <1>1, <2>1, <2>2, TubeFormIs, GaugeFormIs DEF WInv, Types, GaugeDebts, TypeOK
<1>q. QED BY <1>1, SpecInv, PTL

(* TubeWidget: controls that are locked are unlocked by a timer that runs. *)
THEOREM ControlsComeBack == Spec => []LockedIsTimed
<1>1. WInv => LockedIsTimed
  BY NothingPending DEF LockedIsTimed
<1>q. QED BY <1>1, SpecInv, PTL

(* TubeWidget: the warning is shown exactly with high voltage and an open  *)
(* shutter, except in a warm-up.                                           *)
THEOREM WarningIsTrue == Spec => []WarningIsRight
<1>1. WInv => WarningIsRight
  BY NothingPending DEF WarningIsRight
<1>q. QED BY <1>1, SpecInv, PTL

(* TubeWidget: never two questions about the warm-up at a time. *)
THEOREM AsksOnce == Spec => []OneQuestion
<1>1. WInv => OneQuestion
  BY DEF WInv, Shape, AskOnce, Asking, OneQuestion
<1>q. QED BY <1>1, SpecInv, PTL

(* PGaugeWidget: the thread never waits for the mutex that it holds. *)
THEOREM NoSelfDeadlock == Spec => []GaugeNeverWaits
<1>1. WInv => GaugeNeverWaits
  BY DEF WInv, GaugeDebts, GaugeNeverWaits
<1>q. QED BY <1>1, SpecInv, PTL

(* PGaugeWidget: while its box is checked, the update goes on. *)
THEOREM RefreshGoesOn == Spec => []PressureRefreshed
<1>1. WInv => PressureRefreshed
  BY NothingPending DEF PressureRefreshed
<1>q. QED BY <1>1, SpecInv, PTL
=============================================================================
