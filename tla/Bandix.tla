------------------------------ MODULE Bandix --------------------------------
(***************************************************************************)
(* The bandix traffic page: the device table with its dialog, the history  *)
(* chart and the usage panels on one page.  They share the device that is  *)
(* chosen over the chart: it filters the table too, and rendering the      *)
(* table drops it when the device is gone.  The DNS page and the           *)
(* connections page are pages of their own, and share nothing with it but  *)
(* the bounds of a scenario.                                               *)
(***************************************************************************)
EXTENDS BandixRules, BandixHistory, BandixUsage, BandixDns, BandixConnections

vars == <<rulesVars, historyVars, usageVars, dnsVars, connVars, select, budget>>

(* onFilterChange(): another type or device refreshes the chart and, if    *)
(* there is one, the table.                                                *)
FilterChange ==
    LET s == IF table.rendered THEN UpdateDeviceData(Now, "user") ELSE Now IN
    /\ \/ \E type \in Types : ChooseType(type)
       \/ \E device \in Devices \cup {All} : ChooseDevice(device)
    /\ table.rendered => Room(2)
    /\ table' = s.table /\ calls' = s.calls
    /\ UNCHANGED <<router, clock, dialog, list>>

Init == BaseInit /\ RulesInit /\ HistoryInit /\ UsageInit /\ DnsInit /\ ConnInit
Traffic == \/ RulesNext /\ UNCHANGED <<historyVars, usageVars>>
           \/ HistoryNext /\ UNCHANGED <<rulesVars, usageVars>>
           \/ FilterChange /\ UNCHANGED usageVars
           \/ UsageNext /\ UNCHANGED <<rulesVars, historyVars>>
Next == \/ Traffic /\ UNCHANGED <<dnsVars, connVars>>
        \/ DnsNext /\ UNCHANGED <<rulesVars, historyVars, usageVars, connVars>>
        \/ ConnNext /\ UNCHANGED <<rulesVars, historyVars, usageVars, dnsVars>>
Spec == /\ Init /\ [][Next]_vars
        /\ RulesFairness /\ HistoryFairness /\ UsageFairness /\ DnsFairness

(* Nothing on the traffic page stays behind for good: its chart comes to   *)
(* show what is chosen, and its query buttons come back.                   *)
PageCatchesUp == HistoryCatchesUp /\ QueryButtonsComeBack

TypeOK ==
    /\ BaseTypeOK
    /\ router \in [names : [Devices -> Names], rules : SUBSET Rules,
                    listed : SUBSET Devices, online : SUBSET Devices]
    /\ table.all \subseteq Rules /\ table.by \in SortKeys
    /\ dialog.current \in Devices \cup {None} /\ dialog.confirm \subseteq Rules
    /\ choice \in [range : Ranges, type : Types]
    /\ mouse.level \in 0..MaxLevel
    /\ \A p \in Panels : panel[p].span \in Spans
=============================================================================
