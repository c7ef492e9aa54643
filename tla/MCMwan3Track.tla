---------------------------- MODULE MCMwan3Track ----------------------------
(***************************************************************************)
(* A tracker with three targets of which two must answer, two strikes to   *)
(* go offline and three good rounds to come back.                          *)
(***************************************************************************)
EXTENDS Mwan3Track
=============================================================================
