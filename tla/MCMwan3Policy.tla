----------------------------- MODULE MCMwan3Policy -----------------------------
(***************************************************************************)
(* Instances of the policy chain for TLC: two interfaces share a family    *)
(* and may be exchanged.                                                   *)
(***************************************************************************)
EXTENDS Mwan3Policy, TLC

CONSTANTS wan, wanb, wan6

TwoAndOne == [i \in {wan, wanb, wan6} |-> IF i = wan6 THEN "v6" ELSE "v4"]
Exchange  == Permutations({wan, wanb})
=============================================================================
