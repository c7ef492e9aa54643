------------------------------- MODULE MCQosMon -------------------------------
(***************************************************************************)
(* Instances of qosmon for TLC.                                            *)
(***************************************************************************)
EXTENDS QosMon

\* Auto mode without a limit, manual mode with one, and a limit alone.
CommandLines ==
    {[limit |-> 0, entitle |-> FALSE], [limit |-> 1, entitle |-> TRUE], [limit |-> 1, entitle |-> FALSE]}
=============================================================================
