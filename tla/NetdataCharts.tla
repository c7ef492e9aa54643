--------------------------- MODULE NetdataCharts ---------------------------
(***************************************************************************)
(* The charts engine of the netdata dashboard (webcn/dashboard.js): the    *)
(* refresher loop and its timers, the download of every chart, hiding and  *)
(* showing, the pan and zoom that all charts follow, and the selection     *)
(* (the time under the mouse) that all visible charts share.               *)
(*                                                                         *)
(* JavaScript runs one callback at a time and a callback calls deep into   *)
(* other objects, so a callback is written as a function from the state of *)
(* the page (a record s) to the state it leaves, and an action applies one *)
(* such function.  Timestamps appear as what the code compares them for:   *)
(* chart.due is "last_autorefreshed is old enough", chart.synced is        *)
(* "tm.pan_and_zoom_seq equals globalPanAndZoom.seq", page.held is         *)
(* "auto_refresher_stop_until lies ahead", sel.held is "dontSyncBefore     *)
(* lies ahead".                                                            *)
(***************************************************************************)
EXTENDS Naturals, FiniteSets

CONSTANTS Charts,       \* the chart elements of the page
          Windows,      \* the time ranges a user pans or zooms to
          Slots,        \* requests of one chart that can be in flight
          Retries,      \* options.current.retries_on_data_failures
          MaxLoops,     \* bound: refresher timers pending at once
          Scenarios     \* settings of the page, which charts dygraph draws, what the
                        \* user does, and the bounds on how much is done and fails

None == "none"
Live == "live"
ASSUME ChartsAssumption ==
    /\ None \notin Charts \cup Windows /\ Live \notin Windows
    /\ Slots \subseteq Nat \ {0} /\ Slots # {}
    /\ Retries \in Nat /\ MaxLoops \in Nat \ {0}
    /\ Scenarios \subseteq [async : BOOLEAN, destroy : BOOLEAN, dygraphs : SUBSET Charts,
                             warm : BOOLEAN, does : SUBSET STRING, acts : Nat, fails : Nat]

VARIABLES
    chart,      \* per chart: the chartState object
    reqs,       \* per chart and slot: what is being downloaded
    pan,        \* globalPanAndZoom: its master chart and the range forced
    sel,        \* globalSelectionSync
    page,       \* NETDATA.options and the mouse
    loops,      \* pending timers of chartRefresher
    screen,     \* per chart: is it inside the viewport
    budget      \* what the bounds leave of acts and fails; how often something failed

vars == <<chart, reqs, pan, sel, page, loops, screen, budget>>
Now == [chart |-> chart, reqs |-> reqs, pan |-> pan, sel |-> sel, page |-> page]
Become(next) ==
    \E s \in {next} :
        /\ chart' = s.chart /\ reqs' = s.reqs /\ pan' = s.pan
        /\ sel' = s.sel /\ page' = s.page

Views == {Live} \cup Windows
Request == [kind : {"info", "data"}, view : Views \cup {None}, loop : BOOLEAN]
Idle == [kind |-> "idle", view |-> None, loop |-> FALSE]
Modes == {"auto", "pan", "zoom"}

ChartState ==
    [enabled : BOOLEAN, running : BOOLEAN, fetching : BOOLEAN, mode : Modes,
     forced : {"no", "armed", "due"},           \* current.force_update_at
     want : Windows \cup {None},                \* current.force_after_ms, force_before_ms
     synced : BOOLEAN, paused : BOOLEAN, selected : BOOLEAN,
     hidden : BOOLEAN, created : BOOLEAN, redraw : BOOLEAN,
     updated : BOOLEAN,                         \* updates_since_last_unhide > 0
     due : BOOLEAN, sized : BOOLEAN, info : BOOLEAN,
     retries : 0..Retries, data : Views \cup {None}, xhr : Slots \cup {0},
     queued : BOOLEAN,                          \* a timer will call autoRefresh
     ratio : BOOLEAN, seen : BOOLEAN]           \* __visibilityRatio and ...Old

NewChart ==
    [enabled |-> TRUE, running |-> FALSE, fetching |-> FALSE, mode |-> "auto",
     forced |-> "no", want |-> None, synced |-> FALSE, paused |-> FALSE,
     selected |-> FALSE, hidden |-> FALSE, created |-> FALSE, redraw |-> FALSE,
     updated |-> FALSE, due |-> TRUE, sized |-> TRUE, info |-> FALSE,
     retries |-> 0, data |-> None, xhr |-> 0, queued |-> FALSE,
     ratio |-> FALSE, seen |-> FALSE]

(* The same chart on a page that has been open for a while.                *)
WarmChart ==
    [NewChart EXCEPT !.created = TRUE, !.updated = TRUE, !.info = TRUE, !.data = Live,
                     !.ratio = TRUE, !.seen = TRUE]

-----------------------------------------------------------------------------
(* One chart, without its surroundings.                                    *)

SetMode(r, m) ==
    IF r.mode = m THEN r
    ELSE [r EXCEPT !.mode = m, !.forced = "no", !.want = None]

(* error(): the message takes the place of the chart.                      *)
Broken(r) == [r EXCEPT !.enabled = FALSE, !.mode = "pan", !.forced = "no", !.want = None]

RuntimeInit(r) ==
    [r EXCEPT !.paused = FALSE, !.selected = FALSE, !.created = FALSE,
              !.fetching = FALSE, !.updated = FALSE, !.synced = FALSE,
              !.due = TRUE, !.data = None, !.hidden = FALSE]

(* init('force').  It asks isVisible() on the way, which brings hidden and *)
(* seen up to date with what the intersection observer last reported.      *)
InitChart(r) ==
    IF ~r.enabled THEN r
    ELSE [SetMode(RuntimeInit(r), "auto")
             EXCEPT !.hidden = r.seen /\ ~r.ratio, !.seen = r.ratio, !.sized = TRUE]

NeedsRecreation(r, dygraph) == r.created /\ ~dygraph /\ ~r.sized

ResizeChart(r, dygraph) ==
    IF r.sized \/ ~r.created THEN r
    ELSE [IF NeedsRecreation(r, dygraph) THEN InitChart(r) ELSE r EXCEPT !.sized = TRUE]

(* updateChartWithData() up to the library call: how is "drawn", "empty"   *)
(* (no points), "full" (max_updates_to_recreate) or "broken".              *)
Draw(r, dygraph, view, how) ==
    LET d == [ResizeChart(r, dygraph) EXCEPT !.data = view] IN
    CASE how = "empty"  -> [d EXCEPT !.due = FALSE]
      [] how = "full"   -> InitChart(d)
      [] how = "broken" -> Broken([d EXCEPT !.updated = TRUE])
      [] OTHER          -> [d EXCEPT !.created = TRUE, !.updated = TRUE]

Put(s, c, r) == [s EXCEPT !.chart[c] = r]
Dygraph(s, c) == c \in s.page.dygraphs

-----------------------------------------------------------------------------
(* The shared selection.                                                   *)

(* SelStop() that asks only the slaves to clear their selection.           *)
SelStopSlavesOnly(s) ==
    [s EXCEPT !.chart = [c \in Charts |->
                  IF c \in s.sel.slaves
                  THEN [s.chart[c] EXCEPT !.selected = FALSE] ELSE s.chart[c]],
              !.sel.master = None, !.sel.slaves = {}]

SelStop(s) ==
    [s EXCEPT !.chart = [c \in Charts |->
                  IF c \in s.sel.slaves \cup {s.sel.master}
                  THEN [s.chart[c] EXCEPT !.selected = FALSE] ELSE s.chart[c]],
              !.sel.master = None, !.sel.slaves = {}]

SelDelay(s) == [s EXCEPT !.sel.held = TRUE]

-----------------------------------------------------------------------------
(* Hiding and showing.                                                     *)

HideChart(s, c) ==
    LET r == s.chart[c] IN
    IF r.hidden THEN s
    ELSE Put(s, c, [IF r.created /\ s.page.destroy THEN InitChart(r) ELSE r
                       EXCEPT !.hidden = TRUE])

(* redrawChart(): the data at hand are drawn again.                        *)
RedrawChart(s, c) ==
    LET r == s.chart[c]
        t == IF r.selected THEN SelStop(s) ELSE s IN
    IF r.data = None THEN s
    ELSE Put(t, c, [t.chart[c] EXCEPT !.created = TRUE, !.updated = TRUE,
                                      !.due = (s.pan.master # None)])

UnhideChart(s, c) ==
    LET r == [s.chart[c] EXCEPT !.hidden = FALSE, !.updated = FALSE]
        shown == IF r.created THEN ResizeChart(r, Dygraph(s, c)) ELSE InitChart(r) IN
    IF ~s.chart[c].hidden THEN s
    ELSE IF r.redraw THEN RedrawChart(Put(s, c, [shown EXCEPT !.redraw = FALSE]), c)
    ELSE Put(s, c, shown)

SwitchChartVisibility(s, c) ==
    LET t == IF s.chart[c].ratio THEN UnhideChart(s, c) ELSE HideChart(s, c) IN
    IF s.chart[c].seen = s.chart[c].ratio THEN s
    ELSE Put(t, c, [t.chart[c] EXCEPT !.seen = s.chart[c].ratio])

(* isVisible() of every chart of S: no chart is selected when it is asked  *)
(* of several, so what each does concerns itself only.                     *)
LookAt(s, S) ==
    [s EXCEPT !.chart = [c \in Charts |->
        IF c \in S THEN SwitchChartVisibility(s, c).chart[c] ELSE s.chart[c]]]

(* intersectionObserver.targets()                                          *)
Targets(s) ==
    LET visible == {c \in Charts : s.chart[c].ratio} IN
    IF visible = {} THEN Charts ELSE visible

SelEnabled(s) == ~s.sel.held

Eligible(s, c) == s.chart[c].enabled /\ s.chart[c].ratio /\ s.chart[c].created

SelSetMaster(s, c) ==
    LET t == IF s.sel.master = None THEN s ELSE SelStop(s)
        others == {x \in Targets(t) : x # c /\ t.chart[x].enabled}
        u == LookAt(Put(t, c, [t.chart[c] EXCEPT !.selected = TRUE]), others) IN
    IF ~SelEnabled(s) THEN SelStop(s)
    ELSE IF s.sel.master = c THEN s
    ELSE [u EXCEPT !.sel.master = c, !.sel.slaves = {x \in others : Eligible(u, x)}]

SelSync(s, c) == [SelSetMaster(s, c) EXCEPT !.sel.timer = TRUE]

-----------------------------------------------------------------------------
(* Downloading.                                                            *)

HasSlot(c) == \E i \in Slots : reqs[c][i] = Idle

Send(s, c, kind, view, loop) ==
    LET i == CHOOSE i \in Slots : s.reqs[c][i] = Idle IN
    [s EXCEPT !.reqs[c][i] = [kind |-> kind, view |-> view, loop |-> loop],
              !.chart[c].xhr = IF kind = "data" THEN i ELSE @,
              !.chart[c].fetching = @ \/ kind = "data"]

(* chartURL(): the range to ask for, and what it makes of the sync state.  *)
(* ChartView() that overlooks the range of another chart.                  *)
OwnView(s, c) == IF s.chart[c].want # None THEN s.chart[c].want ELSE Live

ChartView(s, c) ==
    IF s.pan.master = None THEN Live
    ELSE IF s.chart[c].want # None THEN s.chart[c].want ELSE s.pan.view

ChartURL(s, c) ==
    LET follows == s.pan.master # None /\ s.chart[c].want = None
        takes == s.pan.master # None /\ s.chart[c].want # None IN
    Put(s, c, [s.chart[c] EXCEPT !.synced = follows,
                                 !.want = IF takes THEN None ELSE @])

(* The callback autoRefresh() gives to updateChart().                      *)
Finish(s, c, loop) == IF loop THEN [s EXCEPT !.chart[c].running = FALSE] ELSE s

(* canBeRendered(), before it looks at the element itself.                 *)
MayRender(s, c) ==
    (s.page.focus \/ ~s.chart[c].updated) /\ ~s.chart[c].hidden

UpdateChart(s, c, loop) ==
    LET t == IF MayRender(s, c) THEN SwitchChartVisibility(s, c) ELSE s
        r == t.chart[c] IN
    IF s.chart[c].fetching \/ ~s.chart[c].enabled THEN Finish(s, c, loop)
    ELSE IF ~(MayRender(s, c) /\ r.ratio) THEN Finish(t, c, loop)
    ELSE IF ~r.info THEN Send(t, c, "info", None, loop)
    ELSE IF t.page.library = "bad" THEN Finish(Put(t, c, Broken(r)), c, loop)
    ELSE Send(ChartURL(Put(t, c, [r EXCEPT !.selected = FALSE]), c),
              c, "data", ChartView(t, c), loop)

(* resetChart() of a chart that is not the master, without the update.     *)
ResetState(r) ==
    [SetMode(r, "auto") EXCEPT !.selected = FALSE, !.synced = FALSE, !.forced = "no",
                               !.want = None, !.due = TRUE, !.paused = FALSE,
                               !.enabled = TRUE]

ResetChart(s, c) ==
    LET t == SwitchChartVisibility(Put(s, c, ResetState(s.chart[c])), c) IN
    IF t.chart[c].ratio THEN UpdateChart(t, c, FALSE) ELSE t

-----------------------------------------------------------------------------
(* The pan and zoom all charts follow.                                     *)

Unsynced(s) ==
    [s EXCEPT !.chart = [c \in Charts |-> [s.chart[c] EXCEPT !.synced = FALSE]]]

ClearMaster(s) ==
    LET t == [s EXCEPT !.pan.master = None] IN
    [Unsynced(IF s.pan.master = None THEN s ELSE ResetChart(t, s.pan.master))
        EXCEPT !.pan = [master |-> None, view |-> None], !.page.held = FALSE]

PanSetMaster(s, c, view) ==
    LET old == s.pan.master
        t == IF old \in {None, c} THEN s ELSE Put(s, old, ResetState(s.chart[old])) IN
    [Unsynced(t) EXCEPT !.pan = [master |-> c, view |-> view], !.page.held = TRUE]

(* updateChartPanOrZoom(): rejected when the range is hardly another one.  *)
PanOrZoom(s, c, view, accepted) ==
    LET t == SelDelay([s EXCEPT !.page.held = TRUE])
        r == IF t.chart[c].mode = "auto" THEN SetMode(t.chart[c], "pan") ELSE t.chart[c] IN
    IF ~accepted THEN t
    ELSE PanSetMaster(Put(t, c, [r EXCEPT !.forced = "armed", !.want = view]), c, view)

ResetAllCharts(s, c) ==
    LET t == ClearMaster(SelStop(s)) IN
    IF s.pan.master # c /\ (t.chart[c].paused \/ t.chart[c].selected)
    THEN ResetChart(t, c) ELSE t

-----------------------------------------------------------------------------
(* An answer arrives.                                                      *)

(* UpdateChartWithData() that takes the refresh of a live chart for the    *)
(* refresh of a panned one: the time of the last refresh is not kept.      *)
UpdateLiveChartWithData(s, c, view, how) ==
    LET t == SwitchChartVisibility(Put(s, c, Draw(s.chart[c], Dygraph(s, c), view, how)), c)
    IN  IF t.chart[c].selected THEN SelStop(t) ELSE t

UpdateChartWithData(s, c, view, how) ==
    LET drawn == Put(s, c, Draw(s.chart[c], Dygraph(s, c), view, how))
        t == SwitchChartVisibility(drawn, c)
        u == Put(t, c, [t.chart[c] EXCEPT !.redraw = @ \/ ~t.chart[c].ratio])
        v == IF u.chart[c].selected THEN SelStop(u) ELSE u IN
    IF how # "drawn" THEN drawn
    ELSE Put(v, c, [v.chart[c] EXCEPT !.due = (v.pan.master # None)])

(* .fail() of a data request that was not aborted.                         *)
DataFails(s, c) ==
    LET r == s.chart[c] IN
    Put(s, c, IF r.retries + 1 > Retries THEN [Broken(r) EXCEPT !.retries = 0]
              ELSE [r EXCEPT !.retries = @ + 1, !.due = FALSE])

(* DataEnds() without the callback of autoRefresh().                       *)
DataEndsSilently(s, c, loop) == [s EXCEPT !.chart[c].xhr = 0, !.chart[c].fetching = FALSE]

(* .always() of a data request.                                            *)
DataEnds(s, c, loop) ==
    Finish([s EXCEPT !.chart[c].xhr = 0, !.chart[c].fetching = FALSE], c, loop)

Spend(what) == /\ budget[what] > 0
               /\ budget' = [budget EXCEPT ![what] = @ - 1,
                                           !.failed = @ \/ what = "fails"]

Does(what) == what \in budget.does /\ Spend("acts")

Outcomes == {"drawn", "empty", "full", "broken"}

DataArrives(c, i, how) ==
    LET q == reqs[c][i]
        s == [Now EXCEPT !.reqs[c][i] = Idle, !.chart[c].retries = 0, !.chart[c].xhr = 0] IN
    /\ q.kind = "data"
    /\ IF how = "drawn" THEN UNCHANGED budget ELSE Spend("fails")
    /\ Become(DataEnds(UpdateChartWithData(s, c, q.view, how), c, q.loop))
    /\ UNCHANGED <<loops, screen>>

DataRequestFails(c, i) ==
    LET q == reqs[c][i] IN
    /\ q.kind = "data" /\ Spend("fails")
    /\ Become(DataEnds(DataFails([Now EXCEPT !.reqs[c][i] = Idle], c), c, q.loop))
    /\ UNCHANGED <<loops, screen>>

(* getChart(): the description of the chart; either way the update is      *)
(* tried again.                                                            *)
InfoArrives(c, i, ok) ==
    LET q == reqs[c][i]
        s == [Now EXCEPT !.reqs[c][i] = Idle,
                         !.chart[c] = IF ok THEN [@ EXCEPT !.info = TRUE] ELSE Broken(@)] IN
    /\ q.kind = "info"
    /\ IF ok THEN UNCHANGED budget ELSE Spend("fails")
    /\ Become(UpdateChart(s, c, q.loop))
    /\ UNCHANGED <<loops, screen>>

(* abortAllRefreshes(): jQuery runs .fail() and .always() of the request.  *)
AbortAll ==
    LET cut == {c \in Charts : chart[c].fetching /\ chart[c].xhr # 0} IN
    /\ page.pause = "yes" /\ cut # {} /\ "abort" \in budget.does /\ Spend("fails")
    /\ Become([Now EXCEPT
           !.reqs = [c \in Charts |-> IF c \in cut
                        THEN [reqs[c] EXCEPT ![chart[c].xhr] = Idle] ELSE reqs[c]],
           !.chart = [c \in Charts |-> IF c \in cut
                        THEN [chart[c] EXCEPT !.xhr = 0, !.running = FALSE,
                                              !.fetching = FALSE] ELSE chart[c]]])
    /\ UNCHANGED <<loops, screen>>

-----------------------------------------------------------------------------
(* The refresher.                                                          *)

(* One pending timer of chartRefresher fires: the one whose id is kept, or *)
(* one whose id was overwritten.                                           *)
Fired == (IF loops.tracked THEN {[loops EXCEPT !.tracked = FALSE]} ELSE {})
         \cup (IF loops.plain > 0 THEN {[loops EXCEPT !.plain = @ - 1]} ELSE {})

(* NETDATA.chartRefresherTimeoutId = NETDATA.timeout.set(chartRefresher)   *)
Rearm(l) == IF l.tracked THEN [l EXCEPT !.plain = @ + 1] ELSE [l EXCEPT !.tracked = TRUE]

MustWait == page.held \/ page.pause = "yes" \/ (page.async /\ page.scrolled)

RefresherWaits ==
    /\ MustWait
    /\ \E l \in Fired : loops' = Rearm(l)
    /\ UNCHANGED <<chart, reqs, pan, sel, page, screen, budget>>

(* Without the focus the loop may go round without doing anything, on a    *)
(* timer whose id is not kept.                                             *)
RefresherIdles ==
    /\ ~page.focus
    /\ \E l \in Fired : loops' = [l EXCEPT !.plain = @ + 1]
    /\ UNCHANGED <<chart, reqs, pan, sel, page, screen, budget>>

RefresherPauses ==
    /\ ~MustWait /\ page.pause = "asked"
    /\ \E l \in Fired : loops' = Rearm(l)
    /\ page' = [page EXCEPT !.pause = "yes"]
    /\ UNCHANGED <<chart, reqs, pan, sel, screen, budget>>

(* parseDom(): the observer is set up anew and has seen no chart yet, so   *)
(* the round that follows finds none to refresh.                           *)
RefresherParsesDom ==
    /\ ~MustWait /\ page.pause = "no" /\ page.dom_changed
    /\ \E l \in Fired : loops' = Rearm(l)
    /\ page' = [page EXCEPT !.dom_changed = FALSE]
    /\ chart' = [c \in Charts |-> [chart[c] EXCEPT !.ratio = FALSE, !.seen = FALSE]]
    /\ UNCHANGED <<reqs, pan, sel, screen, budget>>

MayDispatch == /\ ~MustWait /\ page.pause = "no" /\ ~page.dom_changed
               /\ sel.master = None
Candidates == {c \in Targets(Now) : ~chart[c].running}

(* A visible chart needs its library: the loop ends here and goes on when  *)
(* the library has been loaded.                                            *)
RefresherLoadsLibrary ==
    /\ MayDispatch /\ page.library = "no" /\ \E c \in Candidates : chart[c].ratio
    /\ \E l \in Fired : loops' = [l EXCEPT !.loading = @ + 1]
    /\ Become(LookAt(Now, Candidates))
    /\ UNCHANGED <<screen, budget>>

RefresherDispatches ==
    LET s == LookAt(Now, Candidates)
        go == {c \in Candidates : s.chart[c].ratio} IN
    /\ MayDispatch /\ (page.library # "no" \/ go = {})
    /\ \E l \in Fired : loops' = Rearm(l)
    /\ Become([s EXCEPT !.chart = [c \in Charts |->
           IF c \notin go THEN s.chart[c]
           ELSE [IF page.library = "bad" THEN Broken(s.chart[c]) ELSE s.chart[c]
                    EXCEPT !.queued = TRUE]]])
    /\ UNCHANGED <<screen, budget>>

(* While a selection is shown no refresh is started.                       *)
RefresherRests ==
    /\ ~MustWait /\ page.pause = "no" /\ ~page.dom_changed /\ sel.master # None
    /\ \E l \in Fired : loops' = Rearm(l)
    /\ UNCHANGED <<chart, reqs, pan, sel, page, screen, budget>>

(* LibraryArrives() that calls the refresher only after a success.         *)
LibraryArrivesOnSuccess(ok) ==
    /\ loops.loading > 0
    /\ IF ok THEN UNCHANGED budget ELSE Spend("fails")
    /\ page' = [page EXCEPT !.library = IF ok THEN "ready" ELSE "bad"]
    /\ loops' = [loops EXCEPT !.loading = @ - 1, !.plain = IF ok THEN @ + 1 ELSE @]
    /\ UNCHANGED <<chart, reqs, pan, sel, screen>>

LibraryArrives(ok) ==
    /\ loops.loading > 0
    /\ IF ok THEN UNCHANGED budget ELSE Spend("fails")
    /\ page' = [page EXCEPT !.library = IF ok THEN "ready" ELSE "bad"]
    /\ loops' = [loops EXCEPT !.loading = @ - 1, !.plain = @ + 1]
    /\ UNCHANGED <<chart, reqs, pan, sel, screen>>

(* canBeAutoRefreshed() once the chart has been looked at.                 *)
CanBeAutoRefreshed(s, c) ==
    LET r == s.chart[c] IN
    /\ r.enabled /\ ~r.running /\ r.ratio /\ s.page.library # "bad"
    /\ \/ r.forced = "due"
       \/ /\ r.mode = "auto"
          /\ s.page.focus \/ ~r.updated
          /\ \/ NeedsRecreation(r, Dygraph(s, c))
             \/ /\ ~s.page.held
                /\ IF s.pan.master # None THEN ~r.synced
                   ELSE ~r.selected /\ ~r.paused /\ r.due

AutoRefresh(c) ==
    LET r == chart[c]
        looks == r.enabled /\ ~r.running
        q == [Now EXCEPT !.chart[c].queued = FALSE]
        s == IF ~looks THEN q
             ELSE IF page.library = "bad" THEN Put(q, c, Broken(q.chart[c]))
             ELSE SwitchChartVisibility(q, c)
        t == [s EXCEPT !.chart[c].running = TRUE,
                       !.chart[c].forced = IF @ = "due" THEN "no" ELSE @] IN
    /\ r.queued /\ HasSlot(c)
    /\ Become(IF CanBeAutoRefreshed(s, c) THEN UpdateChart(t, c, TRUE) ELSE s)
    /\ UNCHANGED <<loops, screen, budget>>

-----------------------------------------------------------------------------
(* Time, the window, and the intersection observer.                        *)

ReportVisibility(c) ==
    /\ chart[c].ratio # screen[c]
    /\ chart' = [chart EXCEPT ![c].ratio = screen[c]]
    /\ UNCHANGED <<reqs, pan, sel, page, loops, screen, budget>>

(* The idle callback asked for by the observer's handler.                  *)
IdleSwitch(c) ==
    /\ ~page.async /\ chart[c].seen # chart[c].ratio
    /\ Become(SwitchChartVisibility(Now, c))
    /\ UNCHANGED <<loops, screen, budget>>

OnscrollUpdater ==
    /\ page.scrolled
    /\ Become([SelStop(Now) EXCEPT !.page.scrolled = FALSE])
    /\ UNCHANGED <<loops, screen, budget>>

SyncSlaves ==
    /\ sel.timer
    /\ \E found \in SUBSET sel.slaves :
         Become([Now EXCEPT !.sel.timer = FALSE,
                            !.chart = IF sel.held THEN @
                                      ELSE [c \in Charts |->
                                              IF c \in sel.slaves
                                              THEN [@[c] EXCEPT !.selected = (c \in found)]
                                              ELSE @[c]]])
    /\ UNCHANGED <<loops, screen, budget>>

TimePasses ==
    /\ \/ /\ page.held /\ page' = [page EXCEPT !.held = FALSE] /\ UNCHANGED sel
       \/ /\ sel.held /\ sel' = [sel EXCEPT !.held = FALSE] /\ UNCHANGED page
    /\ UNCHANGED <<chart, reqs, pan, loops, screen, budget>>

(* Chart c comes to its force_update_at, or has not been refreshed for as  *)
(* long as its data take to change.                                        *)
ComesDue(c) ==
    /\ \/ /\ chart[c].forced = "armed"
          /\ chart' = [chart EXCEPT ![c].forced = "due"]
       \/ /\ ~chart[c].due
          /\ chart' = [chart EXCEPT ![c].due = TRUE]
    /\ UNCHANGED <<reqs, pan, sel, page, loops, screen, budget>>

(* chartRefresherReschedule(), called by onscroll() and the handlers tied  *)
(* to it.                                                                  *)
Reschedule == IF page.async THEN [loops EXCEPT !.tracked = TRUE] ELSE loops
LoopsLeft == loops.plain + loops.loading < MaxLoops

Scroll(c) ==
    /\ LoopsLeft /\ Does("scroll")
    /\ screen' = [screen EXCEPT ![c] = ~@]
    /\ page' = [page EXCEPT !.scrolled = TRUE]
    /\ loops' = Reschedule
    /\ UNCHANGED <<chart, reqs, pan, sel>>

ResizeWindow ==
    /\ LoopsLeft /\ Does("resize")
    /\ chart' = [c \in Charts |-> [chart[c] EXCEPT !.sized = (c \in page.dygraphs)]]
    /\ page' = [page EXCEPT !.scrolled = TRUE]
    /\ loops' = Reschedule
    /\ UNCHANGED <<reqs, pan, sel, screen>>

(* A page that calls NETDATA.pause() and NETDATA.unpause().                *)
Pause == /\ page.pause = "no" /\ page' = [page EXCEPT !.pause = "asked"]
Unpause == /\ page.pause # "no"
           /\ page' = [page EXCEPT !.pause = "no", !.dom_changed = TRUE]
Blur == page.focus /\ page' = [page EXCEPT !.focus = FALSE]
Focus == ~page.focus /\ page' = [page EXCEPT !.focus = TRUE]

PageEvent == /\ Pause \/ Unpause \/ Blur \/ Focus
             /\ Does("page")
             /\ UNCHANGED <<chart, reqs, pan, sel, loops, screen>>

-----------------------------------------------------------------------------
(* The mouse and the finger on a dygraph.                                  *)

Reachable(c) == /\ c \in page.dygraphs /\ chart[c].created /\ chart[c].enabled
                /\ screen[c] /\ ~chart[c].hidden

Quiet(s) == SelDelay(SelStop(s))
ModeOf(s, c, m) == Put(s, c, SetMode(s.chart[c], m))

(* highlightCallback: with the button down only the pausing happens.       *)
Hover(c) ==
    LET s == [Now EXCEPT !.chart[c].paused = TRUE] IN
    /\ Reachable(c) /\ page.down \in {None, c} /\ Does("hover")
    /\ Become(IF page.down = None THEN SelSync(s, c) ELSE s)
    /\ UNCHANGED <<loops, screen>>

(* unhighlightCallback                                                     *)
Unhover(c) ==
    /\ chart[c].paused /\ page.down # c
    /\ Become(SelStop([Now EXCEPT !.chart[c].paused = FALSE]))
    /\ UNCHANGED <<loops, screen, budget>>

(* mousedown with and without modifier keys: pan, zoom by selection, or    *)
(* mark a range.                                                           *)
MouseDown(c, drag) ==
    LET s == [Quiet(Now) EXCEPT !.page.down = c, !.page.drag = drag] IN
    /\ Reachable(c) /\ page.down = None /\ Does("drag")
    /\ Become(IF drag = "mark" THEN s ELSE ModeOf(s, c, drag))
    /\ UNCHANGED <<loops, screen>>

(* mousemove; dygraph redraws a pan at once and drawCallback asks for it.  *)
MouseMove(c, view, accepted) ==
    LET s == ModeOf(Quiet(Now), c, "pan") IN
    /\ page.down = c /\ page.drag = "pan" /\ Does("drag")
    /\ Become(PanOrZoom(s, c, view, accepted))
    /\ UNCHANGED <<loops, screen>>

(* mouseup: zoomCallback runs at the end of a zoom, a marked range makes   *)
(* its chart the master, and "refresh all the charts immediately".         *)
MouseUp(c, view, accepted) ==
    LET s == [Quiet(Now) EXCEPT !.page.down = None, !.page.drag = None]
        t == CASE page.drag = "zoom" -> PanOrZoom(ModeOf(s, c, "zoom"), c, view, accepted)
               [] page.drag = "mark" -> PanSetMaster(s, c, view)
               [] OTHER -> s IN
    /\ page.down = c /\ page.drag \in {"pan", "zoom", "mark"}
    /\ Become([t EXCEPT !.page.held = FALSE])
    /\ UNCHANGED <<loops, screen, budget>>

Wheel(c, view, accepted) ==
    /\ Reachable(c) /\ Does("wheel")
    /\ Become(PanOrZoom(ModeOf(Quiet(Now), c, "zoom"), c, view, accepted))
    /\ UNCHANGED <<loops, screen>>

(* dygraphToolboxPanAndZoom(): the other charts follow even a range that   *)
(* this chart has rejected.                                                *)
Toolbox(c, view, accepted) ==
    /\ Reachable(c) /\ Does("toolbox")
    /\ Become(PanSetMaster(PanOrZoom(ModeOf(Quiet(Now), c, "zoom"), c, view, accepted),
                           c, view))
    /\ UNCHANGED <<loops, screen>>

(* dblclick and the reset button of the toolbox.                           *)
Reset(c) ==
    /\ Reachable(c) /\ Does("reset") /\ \A x \in Charts : HasSlot(x)
    /\ Become(ResetAllCharts(Now, c))
    /\ UNCHANGED <<loops, screen>>

TouchStart(c) ==
    LET s == ModeOf(Now, c, "zoom") IN
    /\ Reachable(c) /\ page.down = None /\ Does("touch")
    /\ Become([Quiet([s EXCEPT !.chart[c].paused = TRUE])
                  EXCEPT !.page.down = c, !.page.drag = "touch"])
    /\ UNCHANGED <<loops, screen>>

TouchMove(c, view, accepted) ==
    /\ page.down = c /\ page.drag = "touch" /\ Does("touch")
    /\ Become(LET s == Quiet(Now) IN
              IF chart[c].mode = "auto" THEN s ELSE PanOrZoom(s, c, view, accepted))
    /\ UNCHANGED <<loops, screen>>

(* touchend: a tap selects, a second tap resets all charts.                *)
TouchEnd(c, tap, again) ==
    LET s == [Quiet(Now) EXCEPT !.page.down = None, !.page.drag = None]
        t == IF tap THEN SelSync([s EXCEPT !.sel.held = FALSE], c) ELSE s
        u == IF tap /\ again THEN ResetAllCharts(t, c) ELSE t IN
    /\ page.down = c /\ page.drag = "touch" /\ \A x \in Charts : HasSlot(x)
    /\ Become([u EXCEPT !.page.held = FALSE])
    /\ UNCHANGED <<loops, screen, budget>>

(* resizeHandler(): a drag of the lower edge, or a double click on it.     *)
ResizeDrag(c, released) ==
    LET r == ResizeChart([chart[c] EXCEPT !.sized = FALSE], c \in page.dygraphs) IN
    /\ Reachable(c) /\ Does("edge")
    /\ Become([Put(Now, c, r) EXCEPT !.page.held = ~released])
    /\ UNCHANGED <<loops, screen>>

-----------------------------------------------------------------------------
Init ==
    /\ reqs = [c \in Charts |-> [i \in Slots |-> Idle]]
    /\ pan = [master |-> None, view |-> None]
    /\ sel = [master |-> None, slaves |-> {}, held |-> FALSE, timer |-> FALSE]
    /\ \E sc \in Scenarios :
         /\ chart = [c \in Charts |-> IF sc.warm THEN WarmChart ELSE NewChart]
         /\ page = [focus |-> TRUE, held |-> FALSE, pause |-> "no", dom_changed |-> FALSE,
                    scrolled |-> FALSE, down |-> None, drag |-> None,
                    library |-> IF sc.warm THEN "ready" ELSE "no",
                    async |-> sc.async, destroy |-> sc.destroy, dygraphs |-> sc.dygraphs]
         /\ budget = [acts |-> sc.acts, fails |-> sc.fails, failed |-> FALSE, does |-> sc.does]
    /\ loops = [tracked |-> TRUE, plain |-> 0, loading |-> 0]
    /\ screen = [c \in Charts |-> TRUE]

Refresher == \/ RefresherWaits \/ RefresherIdles \/ RefresherPauses
             \/ RefresherParsesDom \/ RefresherLoadsLibrary
             \/ RefresherDispatches \/ RefresherRests

Answer(c, i) == \/ \E how \in Outcomes : DataArrives(c, i, how)
                \/ \E ok \in BOOLEAN : InfoArrives(c, i, ok)

Timers == \/ OnscrollUpdater \/ SyncSlaves \/ TimePasses
          \/ \E c \in Charts : 
                AutoRefresh(c) \/ ComesDue(c) \/ ReportVisibility(c) \/ IdleSwitch(c)

Network == \/ \E ok \in BOOLEAN : LibraryArrives(ok)
           \/ \E c \in Charts, i \in Slots : Answer(c, i) \/ DataRequestFails(c, i)

Mouse(c) ==
    \/ Hover(c) \/ Unhover(c) \/ Reset(c) \/ TouchStart(c)
    \/ \E drag \in {"pan", "zoom", "mark"} : MouseDown(c, drag)
    \/ \E view \in Windows, accepted \in BOOLEAN :
          \/ MouseMove(c, view, accepted) \/ MouseUp(c, view, accepted)
          \/ Wheel(c, view, accepted) \/ Toolbox(c, view, accepted)
          \/ TouchMove(c, view, accepted)
    \/ \E tap \in BOOLEAN, again \in BOOLEAN : TouchEnd(c, tap, again)
    \/ \E released \in BOOLEAN : ResizeDrag(c, released)

User == \/ ResizeWindow \/ PageEvent \/ AbortAll
        \/ \E c \in Charts : Scroll(c) \/ Mouse(c)

Next == Refresher \/ Timers \/ Network \/ User

(* The browser runs its timers, reports what is in view, and answers or    *)
(* fails every request; nothing is assumed of the user.                    *)
Fairness ==
    /\ WF_vars(Refresher) /\ WF_vars(OnscrollUpdater \/ SyncSlaves)
    /\ WF_vars(page.held /\ TimePasses) /\ WF_vars(TimePasses)
    /\ WF_vars(\E ok \in BOOLEAN : LibraryArrives(ok))
    /\ \A c \in Charts :
         /\ WF_vars(AutoRefresh(c)) /\ WF_vars(ComesDue(c))
         /\ WF_vars(ReportVisibility(c)) /\ WF_vars(IdleSwitch(c))
         /\ \A i \in Slots : WF_vars(Answer(c, i))

Spec == Init /\ [][Next]_vars /\ Fairness

TypeOK ==
    /\ chart \in [Charts -> ChartState]
    /\ reqs \in [Charts -> [Slots -> Request \cup {Idle}]]
    /\ pan \in [master : Charts \cup {None}, view : Windows \cup {None}]
    /\ sel \in [master : Charts \cup {None}, slaves : SUBSET Charts,
                 held : BOOLEAN, timer : BOOLEAN]
    /\ page \in [focus : BOOLEAN, held : BOOLEAN, pause : {"no", "asked", "yes"},
                  dom_changed : BOOLEAN, scrolled : BOOLEAN, down : Charts \cup {None},
                  drag : {None, "pan", "zoom", "mark", "touch"},
                  library : {"no", "ready", "bad"}, async : BOOLEAN, destroy : BOOLEAN,
                  dygraphs : SUBSET Charts]
    /\ loops \in [tracked : BOOLEAN, plain : Nat, loading : Nat]
    /\ screen \in [Charts -> BOOLEAN]
    /\ budget \in [acts : Nat, fails : Nat, failed : BOOLEAN, does : SUBSET STRING]

(* The refresher never dies: at every moment one of its timers is pending  *)
(* or a chart library is being loaded that will call it (chartRefresher,   *)
(* chartRefresherReschedule, library.initialize).                          *)
RefresherLives == loops.tracked \/ loops.plain > 0 \/ loops.loading > 0

(* A chart marked running has a request on its way whose end clears the    *)
(* mark, and one marked fetching_data has data on their way: no chart is   *)
(* left marked busy, which would stop its refresh for good.                *)
NothingIsStuck ==
    \A c \in Charts :
        /\ chart[c].running => \E i \in Slots : reqs[c][i].loop
        /\ chart[c].fetching => \E i \in Slots : reqs[c][i].kind = "data"

(* A chart that shows a selection belongs to the shared selection, which   *)
(* is what will clear it: no chart keeps a selection, and with it no       *)
(* refresh, after the mouse has left (globalSelectionSync).                *)
SelectionIsShared ==
    \A c \in Charts : chart[c].selected => c \in sel.slaves \cup {sel.master}

(* A chart that is on screen and refreshes by itself.                      *)
Watched(c) == /\ chart[c].enabled /\ chart[c].mode = "auto" /\ screen[c]
              /\ page.focus /\ page.pause = "no" /\ sel.master = None
              /\ page.library = "ready"

(* "When you pan or zoom one, all others are automatically refreshed to    *)
(* the same timespan" (dashboard.js:5350): as long as no download fails    *)
(* and charts are not destroyed when hidden, every watched chart ends up   *)
(* showing the range the user chose on another chart.                      *)
Follows(c, view) == /\ Watched(c) /\ pan.view = view /\ pan.master # c
                    /\ ~budget.failed /\ ~page.destroy /\ c \in page.dygraphs
ChartsFollowTheMaster ==
    \A c \in Charts, view \in Windows :
        <>[]Follows(c, view) => <>[](chart[c].data = view)

(* Once no pan is active, a watched chart that is not under the mouse goes *)
(* back to the live data and is refreshed again and again, whatever        *)
(* failed, was hidden or destroyed before.                                 *)
ChartsReturnToLive ==
    \A c \in Charts :
        <>[](Watched(c) /\ pan.master = None /\ ~chart[c].paused)
            => []<>(chart[c].data = Live /\ chart[c].updated /\ ~chart[c].due)
=============================================================================
