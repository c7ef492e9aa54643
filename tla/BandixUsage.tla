----------------------------- MODULE BandixUsage -----------------------------
(***************************************************************************)
(* The usage ranking and the traffic timeline of the bandix page: two      *)
(* panels, each with a range of days to query, a query button that is      *)
(* disabled while its query is in flight, and a chart or list of the       *)
(* answer.  Presets and selectors query too, without looking at the        *)
(* button, and answers come in any order.                                  *)
(***************************************************************************)
EXTENDS BandixBase

CONSTANTS Spans,        \* ranges of days
          Queries       \* slots of queries in flight, per panel

Panels == {"ranking", "timeline"}     \* both are parts of BandixBase
Year == CHOOSE w \in Spans : TRUE       \* what is queried at first
ASSUME UsageAssumption == Spans # {} /\ IsFiniteSet(Queries) /\ Queries \subseteq Nat

VARIABLES
    panel,      \* per panel: the range chosen, the button, what is shown
    queries     \* per panel: queries in flight

usageVars == <<panel, queries>>
NoQuery == [state |-> "none", span |-> None, mac |-> None, button |-> FALSE]

(* updateTrafficStatistics(), updateTrafficIncrements(): only the button's *)
(* query has a callback, which enables the button.                         *)
Query(p, span, mac, button) ==
    LET i == CHOOSE i \in Queries : queries[p][i] = NoQuery IN
    /\ \E j \in Queries : queries[p][j] = NoQuery
    /\ queries' = [queries EXCEPT ![p][i] = [state |-> "sent", span |-> span, mac |-> mac,
                                             button |-> button]]

(* queryData(): the button, a preset or the reset button.                  *)
QueryData(p, span, preset) ==
    /\ Runs(p) /\ (preset \/ ~panel[p].busy)
    /\ Does("usage")
    /\ panel' = [panel EXCEPT ![p].span = span, ![p].busy = TRUE]
    /\ Query(p, span, panel[p].mac, TRUE)
    /\ UNCHANGED select

QueryRanking(span, preset) == QueryData("ranking", span, preset)
QueryTimeline(span, preset) == QueryData("timeline", span, preset)

(* The selectors of the timeline: device and aggregation.                  *)
ChooseMac(mac) ==
    /\ Runs("timeline")
    /\ Does("usage")
    /\ panel' = [panel EXCEPT !["timeline"].mac = mac]
    /\ Query("timeline", panel["timeline"].span, mac, FALSE)
    /\ UNCHANGED select

Data(q) == [kind |-> "data", span |-> q.span, mac |-> q.mac]
NoData == [kind |-> "none", span |-> None, mac |-> None]
Error == [kind |-> "error", span |-> None, mac |-> None]
Hows == {"good", "failed", "unreadable"}

Taken(p, i, how) ==
    /\ queries[p][i].state = "sent"
    /\ Fails(how = "good")
    /\ UNCHANGED select

(* The timeline's selector keeps its device if the ranking lists it.       *)
UpdateDeviceSelect(mac, ranked) == IF mac \in ranked THEN mac ELSE All

(* A ranking that cannot be read changes nothing: not even the callback is *)
(* called.                                                                 *)
RankingArrives(i, how) ==
    LET q == queries["ranking"][i] IN
    /\ Taken("ranking", i, how)
    /\ queries' = [queries EXCEPT !["ranking"][i] = NoQuery]
    /\ CASE how = "good" ->
              \E ranked \in SUBSET Devices :
                panel' = [panel EXCEPT
                    !["ranking"].shown = Data(q), !["ranking"].busy = @ /\ ~q.button,
                    !["timeline"].mac = UpdateDeviceSelect(@, ranked)]
         [] how = "failed" ->
              panel' = [panel EXCEPT !["ranking"].shown = Error,
                                     !["ranking"].busy = @ /\ ~q.button]
         [] OTHER -> panel' = [panel EXCEPT !["ranking"].unread = TRUE]

TimelineArrives(i, how) ==
    LET q == queries["timeline"][i] IN
    /\ Taken("timeline", i, how)
    /\ queries' = [queries EXCEPT !["timeline"][i] =
                      IF how = "good" THEN [q EXCEPT !.state = "drawing"] ELSE NoQuery]
    /\ panel' = [panel EXCEPT
           !["timeline"].shown = CASE how = "good" -> Data(q) [] how = "failed" -> Error
                                   [] OTHER -> NoData,
           !["timeline"].busy = @ /\ (how = "good" \/ ~q.button)]

(* The timeline is drawn a moment after its container was filled.          *)
TimelineDrawn(i) ==
    LET q == queries["timeline"][i] IN
    /\ q.state = "drawing"
    /\ queries' = [queries EXCEPT !["timeline"][i] = NoQuery]
    /\ panel' = [panel EXCEPT !["timeline"].busy = @ /\ ~q.button]
    /\ UNCHANGED <<select, budget>>

UsageInit ==
    /\ panel = [p \in Panels |->
                  [span |-> Year, mac |-> All, busy |-> FALSE, unread |-> FALSE,
                   shown |-> NoData]]
    /\ queries = [p \in Panels |-> [i \in Queries |->
                    IF i = Min(Queries) /\ Runs(p)
                    THEN [state |-> "sent", span |-> Year, mac |-> All, button |-> FALSE]
                    ELSE NoQuery]]

UsageAnswer(i) == \E how \in Hows : RankingArrives(i, how) \/ TimelineArrives(i, how)
UsageNext ==
    \/ \E span \in Spans, preset \in BOOLEAN :
          QueryRanking(span, preset) \/ QueryTimeline(span, preset)
    \/ \E mac \in Devices \cup {All} : ChooseMac(mac)
    \/ \E i \in Queries : UsageAnswer(i) \/ TimelineDrawn(i)

UsageFairness ==
    \A i \in Queries :
        /\ WF_<<usageVars, select, budget>>(TimelineDrawn(i))
        /\ WF_<<usageVars, select, budget>>(\E how \in Hows : RankingArrives(i, how))
        /\ WF_<<usageVars, select, budget>>(\E how \in Hows : TimelineArrives(i, how))

(* A query button is enabled again, whichever queries of its panel overlap *)
(* or fail, unless an answer could not be read: then its callback is not   *)
(* called (updateTrafficStatistics(), updateTrafficIncrements()).          *)
QueryButtonsComeBack ==
    \A p \in Panels : panel[p].busy ~> ~panel[p].busy \/ panel[p].unread
=============================================================================
