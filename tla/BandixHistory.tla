---------------------------- MODULE BandixHistory ----------------------------
(***************************************************************************)
(* The history chart of the bandix page: the poll that fetches metrics,    *)
(* the choice of range, type and device, the points left out on a narrow   *)
(* screen, and the mouse on the canvas, which stops the poll and zooms.    *)
(***************************************************************************)
EXTENDS BandixBase

CONSTANTS Ranges,       \* realtime, day, week, month
          Lengths,      \* how many points a reply has
          MaxPoints,    \* points drawn on a narrow screen, 20
          MaxLevel      \* levels of zoom, 0 for none

Realtime == "realtime"
Types == {"total", "lan", "wan"}
ASSUME HistoryAssumption ==
    /\ Realtime \in Ranges /\ Lengths \subseteq Nat
    /\ MaxPoints \in Nat \ {0, 1} /\ MaxLevel \in Nat \ {0}

VARIABLES
    choice,     \* currentTimeRange and history-type-select
    chart,      \* what the canvas shows
    mouse,      \* the mouse over the canvas, historyHover, the zoom
    metrics     \* isHistoryLoading and the call in flight

historyVars == <<choice, chart, mouse, metrics>>

(* Only the realtime metrics tell LAN from WAN.                            *)
TypeKeys(type, range) == IF range = Realtime THEN type ELSE "wan"
(* convertMetricsArrayToObjects(): the rates that are not 0 throughout.    *)
Fields(range) == IF range = Realtime THEN Types ELSE Types \ {"lan"}
(* The type that is left when a range is chosen.                           *)
TypeFor(type, range) == IF range = Realtime THEN type ELSE "wan"

(* Sample() with steps of n / MaxPoints.                                   *)
SampleShort(n) ==
    IF n <= MaxPoints THEN [i \in 1..n |-> i]
    ELSE [i \in 1..MaxPoints |-> 1 + ((i - 1) * n) \div MaxPoints]

(* downsampleForMobile(): MaxPoints of n points, evenly, rounded.          *)
Sample(n) ==
    IF n <= MaxPoints THEN [i \in 1..n |-> i]
    ELSE [i \in 1..MaxPoints |->
            1 + (2 * (i - 1) * (n - 1) + (MaxPoints - 1)) \div (2 * (MaxPoints - 1))]

(* How many a narrow screen has room to draw: the recent ones, which are   *)
(* those of the last 20 s, or if there are none the last MaxPoints.        *)
Recent(n, recent) == IF recent > 0 THEN recent ELSE IF n < MaxPoints THEN n ELSE MaxPoints

(* The points of a reply of n that are drawn, by their place in the reply. *)
Points(n, recent, narrow) ==
    LET k == Recent(n, recent)
        sample == Sample(k) IN
    IF narrow THEN [i \in DOMAIN sample |-> n - k + sample[i]] ELSE [i \in 1..n |-> i]

(* drawHistoryChart(): the part of the labels that the zoom shows.         *)
CeilDiv(a, b) == (a + b - 1) \div b
Visible(n, level) == CeilDiv(n, level + 1)
NoChart == [range |-> None, device |-> None, keys |-> None, points |-> <<>>,
            of |-> [n |-> 0, recent |-> 0, narrow |-> FALSE], from |-> 0, to |-> 0]
Draw(drawn, m) ==
    LET n == Len(drawn.points)
        to == m.offset + Visible(n, m.level) IN
    [drawn EXCEPT !.from = IF m.level = 0 THEN 0 ELSE m.offset,
                  !.to = IF m.level = 0 THEN n ELSE IF to < n THEN to ELSE n]

-----------------------------------------------------------------------------
Idle == [state |-> "idle", range |-> None, device |-> None, type |-> None]

(* refreshHistory(): nothing while the mouse reads a point or a call is in *)
(* flight.                                                                 *)
RefreshHistory(range, device, type) ==
    metrics' = IF mouse.hover \/ metrics # Idle THEN metrics
               ELSE [state |-> "sent", range |-> range, device |-> device, type |-> type]

PollHistory ==
    /\ Runs("history") /\ metrics = Idle /\ ~mouse.hover
    /\ RefreshHistory(choice.range, select, choice.type)
    /\ UNCHANGED <<choice, chart, mouse, select, budget>>

(* A reply of n points, of which the screen, if it is narrow, counts some  *)
(* as recent.  The series are picked by the range chosen when they arrive. *)
MetricsArrive(n, recent) ==
    LET drawn == [range |-> metrics.range, device |-> metrics.device,
                  keys |-> TypeKeys(metrics.type, choice.range),
                  points |-> Points(n, recent, mouse.narrow),
                  of |-> [n |-> n, recent |-> recent, narrow |-> mouse.narrow],
                  from |-> 0, to |-> 0] IN
    /\ metrics # Idle /\ recent \in 0..n /\ (recent # 0 => mouse.narrow)
    /\ chart' = IF n = 0 THEN NoChart ELSE Draw(drawn, mouse)
    /\ mouse' = IF n = 0 THEN mouse
                ELSE [mouse EXCEPT !.wired = TRUE, !.tooltip = @ \/ ~mouse.narrow]
    /\ metrics' = Idle
    /\ Fails(n # 0)
    /\ UNCHANGED <<choice, select>>

MetricsFail ==
    /\ metrics # Idle /\ Spend("fails")
    /\ chart' = NoChart
    /\ metrics' = Idle
    /\ UNCHANGED <<choice, mouse, select>>

-----------------------------------------------------------------------------
(* The controls over the chart.                                            *)

ChooseRange(range) ==
    LET type == TypeFor(choice.type, range) IN
    /\ ~mouse.over /\ ~mouse.narrow /\ Does("history")
    /\ choice' = [range |-> range, type |-> type]
    /\ RefreshHistory(range, select, type)
    /\ UNCHANGED <<chart, mouse, select>>

ChooseType(type) ==
    /\ type = TypeFor(type, choice.range)
    /\ ~mouse.over /\ Does("history")
    /\ choice' = [choice EXCEPT !.type = type]
    /\ RefreshHistory(choice.range, select, type)
    /\ UNCHANGED <<chart, mouse, select>>

ChooseDevice(device) ==
    /\ ~mouse.over /\ Does("history")
    /\ select' = device
    /\ RefreshHistory(choice.range, device, choice.type)
    /\ UNCHANGED <<choice, chart, mouse>>

ResizeWindow ==
    /\ Does("resize")
    /\ mouse' = [mouse EXCEPT !.narrow = ~@]
    /\ RefreshHistory(choice.range, select, choice.type)
    /\ UNCHANGED <<choice, chart, select>>

-----------------------------------------------------------------------------
(* The mouse on the canvas.  Its handlers are there once a chart has been  *)
(* drawn; those of the tooltip once one has been drawn on a wide screen.   *)

Enter ==
    /\ ~mouse.over /\ Does("mouse")
    /\ mouse' = [mouse EXCEPT !.over = TRUE, !.timer = @ \/ mouse.wired]
    /\ UNCHANGED <<choice, chart, metrics, select>>

ZoomTimer ==
    /\ mouse.timer
    /\ mouse' = [mouse EXCEPT !.timer = FALSE, !.zooms = TRUE]
    /\ UNCHANGED <<choice, chart, metrics, select, budget>>

(* onMove(): a point under the mouse is shown, and stops the poll.         *)
Move ==
    /\ mouse.over /\ mouse.tooltip /\ ~mouse.narrow
    /\ mouse' = [mouse EXCEPT !.hover = chart.to > chart.from]
    /\ chart' = Draw(chart, mouse)
    /\ UNCHANGED <<choice, metrics, select, budget>>

(* Leave that stops the zoom and leaves the poll stopped.                  *)
LeaveHovering ==
    /\ mouse.over
    /\ mouse' = [mouse EXCEPT !.over = FALSE, !.zooms = FALSE, !.level = 0, !.offset = 0]
    /\ chart' = Draw(chart, mouse')
    /\ UNCHANGED <<choice, metrics, select, budget>>

Leave ==
    /\ mouse.over
    /\ mouse' = IF mouse.tooltip
                THEN [mouse EXCEPT !.over = FALSE, !.hover = FALSE, !.timer = FALSE,
                                   !.zooms = FALSE, !.level = 0, !.offset = 0]
                ELSE [mouse EXCEPT !.over = FALSE]
    /\ chart' = IF mouse.tooltip THEN Draw(chart, mouse') ELSE chart
    /\ UNCHANGED <<choice, metrics, select, budget>>

(* onwheel: the scale is kept in its limits, and the offset in the data.   *)
Wheel(level, offset) ==
    LET n == Len(chart.points) IN
    /\ mouse.over /\ mouse.wired /\ mouse.zooms /\ n > 0 /\ Does("mouse")
    /\ level \in {mouse.level - 1, mouse.level + 1}
    /\ IF level = 0 THEN offset = 0 ELSE offset + Visible(n, level) <= n
    /\ mouse' = [mouse EXCEPT !.level = level, !.offset = offset]
    /\ chart' = Draw(chart, mouse')
    /\ UNCHANGED <<choice, metrics, select>>

-----------------------------------------------------------------------------
HistoryInit ==
    /\ \E range \in IF Runs("history") THEN Ranges ELSE {Realtime} :
          choice = [range |-> range, type |-> TypeFor("total", range)]
    /\ chart = NoChart
    /\ \E narrow \in BOOLEAN :
          /\ narrow => choice.range = Realtime /\ Runs("history")
          /\ mouse = [over |-> FALSE, hover |-> FALSE, wired |-> FALSE, tooltip |-> FALSE,
                      timer |-> FALSE, zooms |-> FALSE, level |-> 0, offset |-> 0,
                      narrow |-> narrow]
    /\ metrics = Idle

(* The steps that concern the chart alone: Bandix has the others.      *)
HistoryNext ==
    \/ PollHistory \/ MetricsFail \/ ZoomTimer \/ ResizeWindow
    \/ \E n \in Lengths \cup {0} : \E recent \in 0..n : MetricsArrive(n, recent)
    \/ \E range \in Ranges : ChooseRange(range)
    \/ Enter \/ Move \/ Leave
    \/ \E level \in 0..MaxLevel, offset \in 0..(Max(Lengths) - 1) : Wheel(level, offset)

(* The browser polls, and every call is answered or fails.                 *)
HistoryFairness ==
    /\ WF_<<historyVars, select, budget>>(PollHistory)
    /\ WF_<<historyVars, select, budget>>(
          \E n \in Lengths \cup {0} : \E recent \in 0..n : MetricsArrive(n, recent))

(* What is drawn is in the data.  On a wide screen it is every point, in   *)
(* order.  On a narrow one it is at most MaxPoints, each once and in       *)
(* order, from the oldest to the newest of those of the last 20 s; if      *)
(* there are none, the last MaxPoints of the data.  None is left out that  *)
(* there is room for.  And the series is one the metrics of that range     *)
(* have, although it is picked by what is chosen when they arrive          *)
(* (refreshHistory, downsampleForMobile, getTypeKeys).                     *)
Oldest(of) == IF of.narrow /\ of.recent > 0 THEN of.n - of.recent + 1
              ELSE IF of.narrow /\ of.n > MaxPoints THEN of.n - MaxPoints + 1
              ELSE 1
ChartIsTrue ==
    LET p == chart.points
        of == chart.of IN
    p # <<>> =>
        /\ \A i \in 1..(Len(p) - 1) : p[i] < p[i + 1]
        /\ of.n \in Lengths /\ p[1] = Oldest(of) /\ p[Len(p)] = of.n
        /\ of.narrow => Len(p) <= MaxPoints
        /\ ~of.narrow \/ Len(p) < MaxPoints => Len(p) = of.n - Oldest(of) + 1
        /\ chart.keys \in Fields(chart.range)

(* Away from the mouse the chart comes to show the range, device and type  *)
(* chosen, whatever was dropped while a call was in flight or the mouse    *)
(* was reading a point (isHistoryLoading, historyHover).                   *)
ShowsTheChoice ==
    /\ chart.range = choice.range /\ chart.device = select
    /\ chart.keys = TypeKeys(choice.type, choice.range)
HistoryCatchesUp == Runs("history") /\ <>[]~mouse.over => <>[]ShowsTheChoice
=============================================================================
