--------------------------- MODULE MCMotionSlits ---------------------------
(***************************************************************************)
(* The controller corvus_2 of config_xrayBox.txt: both slit jaws and the   *)
(* fluorescence stage, with the jaws' sum limit between one and two times  *)
(* their individual limit, as 105 is to 100.                               *)
(***************************************************************************)
EXTENDS Motion

CONSTANTS s1, s2, fluor, corvus2

MCMotors      == {s1, s2, fluor}
MCControllers == {corvus2}
MCController  == [m \in MCMotors |-> corvus2]
MCStopOrder   == <<corvus2>>
MCLowerLimit  == [m \in MCMotors |-> 0]
MCUpperLimit  == [m \in MCMotors |-> IF m = fluor THEN 2 ELSE Unset]
MCEndSwitch   == [m \in MCMotors |-> 2]
MCNone        == << >>

C(op, m, v) == [op |-> op, m |-> m, v |-> v]

MCCommands ==
  {C("moveabs", s1, 0), C("moveabs", s1, 4), C("moveabs", s2, 1),
   C("moveabs", s2, 3), C("moverel", s2, 1), C("moverel", s1, -1),
   C("moverel", s1, 0), C("cal", s1, 0), C("moveabs", fluor, 1),
   C("setslitwidth", s1, 0), C("setslitwidth", s1, 3), C("setcenter", s1, 4),
   C("setcenter", s1, 5), C("setcenter", s1, 8), C("depos", s1, 0)}
=============================================================================
