----------------------------- MODULE MCWidgets ------------------------------
(***************************************************************************)
(* The box with a pump has both widgets, the X-ray box that of the tube.   *)
(***************************************************************************)
EXTENDS Widgets

VacuumBox == {{"tube", "gauge"}}
XrayBox   == {{"tube"}}
=============================================================================
