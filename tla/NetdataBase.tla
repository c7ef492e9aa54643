----------------------------- MODULE NetdataBase -----------------------------
(***************************************************************************)
(* What the parts of netdata's dashboard page (main.js, dashboard.js)      *)
(* share: which part a scenario runs, what the user does in it and how     *)
(* much fails, and the state of the page as a whole.  The charts and their *)
(* refresher are modelled in NetdataCharts; here the refresher is only     *)
(* paused and let run.                                                     *)
(***************************************************************************)
EXTENDS Naturals, Sequences, FiniteSets, FiniteSetsExt, SequencesExt

CONSTANTS Scenarios     \* the part of the page that runs, what is done there and how
                        \* often, and how much fails

Parts == {"view", "export", "nodes", "goto", "alarms", "scales", "dimensions", "menu"}
ASSUME BaseAssumption ==
    Scenarios \subseteq [part : Parts, does : SUBSET STRING, acts : Nat, fails : Nat]

VARIABLES
    page,       \* where the loading of the page is, whether it shows a snapshot,
                \* what it asks about XSS, whether it is to show the alarms, prints
                \* (with the charts left to print), and has its handlers attached
    budget      \* what the scenario leaves to be done and to fail

Spend(what) == budget[what] > 0 /\ budget' = [budget EXCEPT ![what] = @ - 1]
Does(what) == what \in budget.does /\ Spend("acts")
Runs(part) == budget.part = part
Fails(ok) == IF ok THEN UNCHANGED budget ELSE Spend("fails")

Phases == {"pausing", "asking", "downloading", "decorating", "live", "failed", "printing", "printed"}
NewPage == [phase |-> "pausing", snapshot |-> FALSE, xss |-> "off", showAlarms |-> FALSE,
            print |-> FALSE, left |-> 0, ready |-> FALSE]
=============================================================================
