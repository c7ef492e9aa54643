------------------------------ MODULE MCMwan3 ------------------------------
(***************************************************************************)
(* Instances of the mwan3 service for TLC.                                 *)
(***************************************************************************)
EXTENDS Mwan3

JustWan == <<"wan">>
WanAndLan == <<"lan", "wan">>
=============================================================================
