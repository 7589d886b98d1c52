------------------------------- MODULE MCLine -------------------------------
(* An axis with three places: from one to another, and one in between. *)
EXTENDS Line
=============================================================================
