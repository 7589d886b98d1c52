--------------------------- MODULE ExclusiveControl ---------------------------
(***************************************************************************)
(* What the lock of a server promises: commands are carried out one at a   *)
(* time and only for the user who holds the server; a server nobody holds  *)
(* is taken by the user whose command it carries out next, never without   *)
(* one; and it changes hands only between two commands.                    *)
(***************************************************************************)
CONSTANTS Users, Nobody

VARIABLES
  holder,   \* the user the server is locked to, or Nobody
  running   \* the user whose command it is carrying out, or Nobody

Init == holder = Nobody /\ running = Nobody

Run(u) ==
  /\ running = Nobody /\ holder \in {u, Nobody}
  /\ holder' = u /\ running' = u

Finish == running # Nobody /\ running' = Nobody /\ UNCHANGED holder

Release == running = Nobody /\ holder' = Nobody /\ UNCHANGED running

(* The server ends, and with it what it knew. *)
End == holder' = Nobody /\ running' = Nobody

Next == (\E u \in Users : Run(u)) \/ Finish \/ Release \/ End

Spec == Init /\ [][Next]_<<holder, running>>
=============================================================================
