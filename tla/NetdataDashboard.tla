--------------------------- MODULE NetdataDashboard ---------------------------
(***************************************************************************)
(* netdata's dashboard page: the frame on view, the dialogs and snapshots, *)
(* the nodes of the menu, the alarms, what the charts have in common and   *)
(* the sections of the page.  They share the page; a scenario runs one of  *)
(* them while the others rest.                                             *)
(*                                                                         *)
(* main.js lacks, at this commit, the brace that closes the first block of *)
(* notifyForUpdate(); the modules say what the file does with it in place. *)
(***************************************************************************)
EXTENDS NetdataSnapshot, NetdataNodes, NetdataAlarms, NetdataScales, NetdataDimensions,
        NetdataMenu

dashboardVars == <<page, viewVars, nodesVars, alarmsVars, scalesVars, dimensionsVars, menuVars,
                   budget>>

Init ==
    /\ budget \in Scenarios
    /\ ViewInit /\ NodesInit /\ AlarmsInit /\ ScalesInit /\ DimensionsInit /\ MenuInit

Next ==
    \/ ViewNext /\ UNCHANGED <<nodesVars, alarmsVars, scalesVars, dimensionsVars, menuVars>>
    \/ NodesNext /\ UNCHANGED <<page, viewVars, alarmsVars, scalesVars, dimensionsVars, menuVars>>
    \/ AlarmsNext /\ UNCHANGED <<viewVars, nodesVars, scalesVars, dimensionsVars, menuVars>>
    \/ ScalesNext /\ UNCHANGED <<page, viewVars, nodesVars, alarmsVars, dimensionsVars, menuVars>>
    \/ DimensionsNext /\ UNCHANGED <<page, viewVars, nodesVars, alarmsVars, scalesVars, menuVars>>
    \/ MenuNext /\ UNCHANGED <<page, viewVars, nodesVars, alarmsVars, scalesVars, dimensionsVars>>

Spec == Init /\ [][Next]_dashboardVars /\ ViewFairness /\ NodesFairness /\ AlarmsFairness
=============================================================================
