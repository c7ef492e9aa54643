----------------------------- MODULE MCMwan3Mask -----------------------------
(***************************************************************************)
(* Instances of the firewall marks for TLC.                                *)
(***************************************************************************)
EXTENDS Mwan3Mask

\* 0x3F00 (the default), 0xFF00 and six scattered bits.
Usual         == {8..13, 8..15, {0, 3, 7, 12, 30, 31}}
Default0x3F00 == {8..13}
=============================================================================
