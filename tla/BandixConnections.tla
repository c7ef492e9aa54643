-------------------------- MODULE BandixConnections --------------------------
(***************************************************************************)
(* The connections page of bandix (view/bandix/connection.js): totals and  *)
(* a table by device, fetched at once and then by LuCI's poll every second.*)
(* A reply is two writes to the page, and an error replaces the table only.*)
(***************************************************************************)
EXTENDS BandixBase

CONSTANTS Rounds        \* bound: how many states of its connections the router tells

VARIABLES
    round,      \* external: the state the connections of the router are in
    connCalls,  \* calls in flight: of the page and of the poll
    connShown   \* the totals and the table, each with the state it tells

connVars == <<round, connCalls, connShown>>
ASSUME ConnAssumption == Rounds \in Nat

(* updateConnectionData().                                                 *)
AskConnections ==
    /\ Runs("connections") /\ ~connCalls.poll
    /\ connCalls' = [connCalls EXCEPT !.poll = TRUE]
    /\ UNCHANGED <<round, connShown, select, budget>>

(* updateGlobalStats(), updateDeviceTable().                               *)
ConnectionsArrive(who) ==
    /\ connCalls[who]
    /\ connCalls' = [connCalls EXCEPT ![who] = FALSE]
    /\ connShown' = [totals |-> round, table |-> round]
    /\ UNCHANGED <<round, select, budget>>

(* showError().                                                            *)
ConnectionsFail(who) ==
    /\ connCalls[who] /\ Spend("fails")
    /\ connCalls' = [connCalls EXCEPT ![who] = FALSE]
    /\ connShown' = [connShown EXCEPT !.table = 0]
    /\ UNCHANGED <<round, select>>

ConnectionsChange ==
    /\ Runs("connections") /\ round < Rounds /\ Does("connect")
    /\ round' = round + 1
    /\ UNCHANGED <<connCalls, connShown, select>>

ConnInit ==
    /\ round = 1
    /\ connCalls = [page |-> Runs("connections"), poll |-> FALSE]
    /\ connShown = [totals |-> 0, table |-> 0]

ConnNext ==
    \/ AskConnections \/ ConnectionsChange
    \/ \E who \in {"page", "poll"} : ConnectionsArrive(who) \/ ConnectionsFail(who)
=============================================================================
