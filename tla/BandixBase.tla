------------------------------ MODULE BandixBase ------------------------------
(***************************************************************************)
(* What the parts of the bandix pages (view/bandix/*.js) share: the        *)
(* devices of the LAN, the device chosen for the history chart and the     *)
(* table, and the bounds on what the user does and what fails.             *)
(*                                                                         *)
(* Every part talks to the router by ubus calls.  A call is first "sent",  *)
(* is answered by the router at a moment of its own, and its reply is run  *)
(* by the page at a later one, so that replies come in any order.          *)
(***************************************************************************)
EXTENDS Naturals, Sequences, FiniteSets, FiniteSetsExt, SequencesExt

CONSTANTS Devices,      \* MAC addresses
          Scenarios     \* the parts of the page that run, what the user does and how
                        \* often, and how much fails

Parts == {"rules", "history", "ranking", "timeline", "dns", "connections"}
All == "all"
None == "none"
ASSUME BaseAssumption ==
    /\ {All, None} \cap Devices = {} /\ IsFiniteSet(Devices)
    /\ Scenarios \subseteq [parts : SUBSET Parts, does : SUBSET STRING,
                         acts : Nat, fails : Nat]

VARIABLES
    select,     \* history-device-select: a device or All
    budget      \* what the scenario leaves to be done and to fail

Spend(what) == budget[what] > 0 /\ budget' = [budget EXCEPT ![what] = @ - 1]
Does(what) == what \in budget.does /\ Spend("acts")
Runs(part) == part \in budget.parts
Fails(ok) == IF ok THEN UNCHANGED budget ELSE Spend("fails")

BaseInit == select = All /\ budget \in Scenarios
BaseTypeOK ==
    /\ select \in Devices \cup {All}
    /\ budget \in [parts : SUBSET Parts, does : SUBSET STRING,
                   acts : Nat, fails : Nat]
=============================================================================
