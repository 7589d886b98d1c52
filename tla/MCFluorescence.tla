--------------------------- MODULE MCFluorescence ---------------------------
(***************************************************************************)
(* Holders with two places and a laser between them.  The configuration    *)
(* file has three targets, so that its second holder is not full; clients  *)
(* may add one with a name twice.                                          *)
(***************************************************************************)
EXTENDS Fluorescence

CONSTANTS cu, mo

MCConfigured == <<cu, mo, mo>>
MCNewHolders == {[i \in 0..1 |-> cu]}
=============================================================================
