---------------------------- MODULE MCStatusGraphs ----------------------------
(***************************************************************************)
(* Three cores and two sensors.  Seven readings fill a buffer of two and a *)
(* window of three more than twice over; four acts are enough to hide,     *)
(* reload, choose again and meet another tab.                              *)
(***************************************************************************)
EXTENDS StatusGraphs

AllPages == {"cpu", "temperature", "cpu table", "temperature table"}
=============================================================================
