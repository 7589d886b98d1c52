------------------------- MODULE MCMotionDetectors -------------------------
(***************************************************************************)
(* Two controllers: the slit jaws on one, two detector axes with reference *)
(* points, as in config_laserBox.txt, on the other.  det_y may go negative *)
(* like the Huber motor of config_xrayBox.txt.                             *)
(***************************************************************************)
EXTENDS Motion

CONSTANTS s1, s2, dx, dy, corvus1, corvus2

MCMotors      == {s1, s2, dx, dy}
MCControllers == {corvus1, corvus2}
MCController  == [m \in MCMotors |-> IF m \in {s1, s2} THEN corvus2 ELSE corvus1]
MCStopOrder   == <<corvus1, corvus2>>
MCRestricted  == {s1, s2}
MCLowerLimit  == [m \in MCMotors |-> IF m = dy THEN -2 ELSE 0]
MCUpperLimit  == [m \in MCMotors |-> IF m \in {s1, s2} THEN Unset ELSE 2]
MCEndSwitch   == [m \in MCMotors |-> 3]
MCRefMotors   == <<dx, dy>>

\* The second point leaves det_y alone, the third is out of reach for it.
MCRefPoints == <<<<1, 2>>, <<2, -1>>, <<0, 3>>>>

C(op, m, v) == [op |-> op, m |-> m, v |-> v]

MCCommands ==
  {C("setref", dx, 1), C("setref", dx, 2), C("setref", dx, 3),
   C("setpos", dx, 1), C("setpos", s1, 0), C("setupper", dy, 1),
   C("setupper", dx, -2), C("setlower", dy, 0), C("setlower", s1, 1),
   C("setlower", dx, 3), C("rangemeasure", dx, 0), C("rangemeasure", s2, 0),
   C("cal", dy, 0), C("moverel", dy, -1), C("moveabs", s2, 2), C("moverel", s1, 1), C("cal", s2, 0),
   C("sendcontroller", dy, 1)}

MCRefCommands ==
  {C("setref", dx, 1), C("setref", dx, 2), C("setref", dx, 3),
   C("moveabs", dx, 0), C("moveabs", dy, -2), C("setupper", dy, -1)}
=============================================================================
