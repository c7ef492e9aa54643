------------------------ MODULE NetdataChartsProofs ------------------------
(***************************************************************************)
(* Proofs about NetdataCharts, for any set of charts, of ranges and of     *)
(* request slots: no chart stays marked busy without the request whose end *)
(* will free it, every selected chart takes part in the shared selection,  *)
(* and the refresher always has a timer pending.                           *)
(*                                                                         *)
(* A callback is a function from the page to the page, so the invariant is *)
(* stated of a page s.  Most functions are tame: they set no mark and move *)
(* no request.  The others owe a chart the end of its refresh until they   *)
(* have sent a request or called the callback; Sound carries that debt.    *)
(***************************************************************************)
EXTENDS NetdataCharts, TLAPS

(* The fields of a chart the invariant reads.                              *)
Marks == {"running", "fetching", "selected", "xhr"}

(* Chart q carries no mark that chart r did not carry.                     *)
Quieter(r, q) ==
    /\ Marks \subseteq DOMAIN q
    /\ q.running => r.running
    /\ q.fetching => r.fetching
    /\ q.selected => r.selected

(* setMode() sets no mark.                                                 *)
LEMMA SetModeQuiet ==
  ASSUME NEW r, Marks \subseteq DOMAIN r, NEW m
  PROVE  Quieter(r, SetMode(r, m))
  BY DEF Quieter, SetMode, Marks

(* error() sets no mark.                                                   *)
LEMMA BrokenQuiet ==
  ASSUME NEW r, Marks \subseteq DOMAIN r
  PROVE  Quieter(r, Broken(r))
  BY DEF Quieter, Broken, Marks

(* runtimeInit() sets no mark.                                             *)
LEMMA RuntimeInitQuiet ==
  ASSUME NEW r, Marks \subseteq DOMAIN r
  PROVE  Quieter(r, RuntimeInit(r))
  BY DEF Quieter, RuntimeInit, Marks

(* init() sets no mark.                                                    *)
LEMMA InitChartQuiet ==
  ASSUME NEW r, Marks \subseteq DOMAIN r
  PROVE  Quieter(r, InitChart(r))
<1>1. Quieter(r, RuntimeInit(r))
  BY RuntimeInitQuiet
<1>2. Quieter(RuntimeInit(r), SetMode(RuntimeInit(r), "auto"))
  BY <1>1, SetModeQuiet DEF Quieter
<1> QED
  BY <1>1, <1>2 DEF Quieter, InitChart, Marks

(* resizeChart() sets no mark, even when it creates the chart anew.        *)
LEMMA ResizeChartQuiet ==
  ASSUME NEW r, Marks \subseteq DOMAIN r, NEW dygraph
  PROVE  Quieter(r, ResizeChart(r, dygraph))
<1>1. Quieter(r, InitChart(r))
  BY InitChartQuiet
<1> QED
  BY <1>1 DEF Quieter, ResizeChart, Marks

(* Drawing an answer, whatever it holds, sets no mark.                     *)
LEMMA DrawQuiet ==
  ASSUME NEW r, Marks \subseteq DOMAIN r, NEW dygraph, NEW view, NEW how
  PROVE  Quieter(r, Draw(r, dygraph, view, how))
<1> DEFINE d == [ResizeChart(r, dygraph) EXCEPT !.data = view]
           b == [d EXCEPT !.updated = TRUE]
<1>1. Quieter(r, d)
  BY ResizeChartQuiet DEF Quieter, Marks
<1>2. Quieter(d, InitChart(d))
  BY <1>1, InitChartQuiet DEF Quieter
<1>3. Quieter(d, b)
  BY <1>1 DEF Quieter, Marks
<1>4. Quieter(b, Broken(b))
  BY <1>3, BrokenQuiet DEF Quieter
<1>5. Quieter(d, [d EXCEPT !.due = FALSE]) /\ Quieter(d, [d EXCEPT !.created = TRUE, !.updated = TRUE])
  BY <1>1 DEF Quieter, Marks
<1>6. Draw(r, dygraph, view, how) \in
        {[d EXCEPT !.due = FALSE], InitChart(d), Broken(b), [d EXCEPT !.created = TRUE, !.updated = TRUE]}
  BY DEF Draw
<1> HIDE DEF d, b
<1> QED
  BY <1>1, <1>2, <1>3, <1>4, <1>5, <1>6 DEF Quieter

(* resetChart() sets no mark before it asks for the update.                *)
LEMMA ResetStateQuiet ==
  ASSUME NEW r, Marks \subseteq DOMAIN r
  PROVE  Quieter(r, ResetState(r))
<1>1. Quieter(r, SetMode(r, "auto"))
  BY SetModeQuiet
<1> QED
  BY <1>1 DEF Quieter, ResetState, Marks

-----------------------------------------------------------------------------
(* What the proofs need of the types: s has its fields, and each of them   *)
(* the shape that Init gives it.                                           *)
Shaped(s) ==
    /\ {"chart", "reqs", "pan", "sel", "page"} \subseteq DOMAIN s
    /\ DOMAIN s.chart = Charts /\ \A c \in Charts : Marks \subseteq DOMAIN s.chart[c]
    /\ DOMAIN s.reqs = Charts /\ \A c \in Charts : DOMAIN s.reqs[c] = Slots
    /\ \A c \in Charts, i \in Slots : s.reqs[c][i].loop \in BOOLEAN
    /\ {"master", "slaves"} \subseteq DOMAIN s.sel
    /\ "master" \in DOMAIN s.pan /\ s.pan.master \in Charts \cup {None}

(* SelectionIsShared of the page s, with what makes it inductive: without a*)
(* master nothing is shared.                                               *)
Shared(s) ==
    /\ \A c \in Charts : s.chart[c].selected => c \in s.sel.slaves \cup {s.sel.master}
    /\ s.sel.master = None => s.sel.slaves = {}

(* From s to t the page has set no mark, moved no request, and kept the    *)
(* selection shared.                                                       *)
Tame(s, t) ==
    /\ Shaped(t) /\ t.reqs = s.reqs
    /\ \A c \in Charts : Quieter(s.chart[c], t.chart[c])
    /\ Shared(s) => Shared(t)

(* A page that does nothing is tame.                                       *)
LEMMA TameSelf == ASSUME NEW s, Shaped(s) PROVE Tame(s, s)
  BY DEF Tame, Shaped, Quieter

(* Two tame steps are a tame one.                                          *)
LEMMA TameThen ==
  ASSUME NEW s, NEW t, NEW u, Tame(s, t), Tame(t, u)
  PROVE  Tame(s, u)
  BY DEF Tame, Quieter

(* Replacing one chart by a quieter one is tame.                           *)
LEMMA PutTame ==
  ASSUME NEW s, Shaped(s), NEW c \in Charts, NEW r, Quieter(s.chart[c], r)
  PROVE  /\ Tame(s, Put(s, c, r)) /\ Put(s, c, r).chart[c] = r
         /\ Put(s, c, r).sel = s.sel /\ Put(s, c, r).pan = s.pan
         /\ \A x \in Charts \ {c} : Put(s, c, r).chart[x] = s.chart[x]
  BY DEF Tame, Put, Shaped, Quieter, Shared

(* setSelection cleared is a mark less.                                    *)
LEMMA UnselectQuiet ==
  ASSUME NEW r, Marks \subseteq DOMAIN r
  PROVE  Quieter(r, [r EXCEPT !.selected = FALSE]) /\ ~[r EXCEPT !.selected = FALSE].selected
  BY DEF Quieter, Marks

(* globalSelectionSync.stop() is tame and, the selection being shared,     *)
(* leaves no chart selected.                                               *)
LEMMA SelStopTame ==
  ASSUME NEW s, Shaped(s)
  PROVE  /\ Tame(s, SelStop(s))
         /\ SelStop(s).sel.master = None
         /\ Shared(s) => \A c \in Charts : ~SelStop(s).chart[c].selected
<1> DEFINE S == s.sel.slaves \cup {s.sel.master}
<1>1. /\ DOMAIN SelStop(s).chart = Charts
      /\ SelStop(s).reqs = s.reqs /\ SelStop(s).pan = s.pan
      /\ SelStop(s).sel.master = None /\ SelStop(s).sel.slaves = {}
      /\ {"chart", "reqs", "pan", "sel", "page"} \subseteq DOMAIN SelStop(s)
      /\ {"master", "slaves"} \subseteq DOMAIN SelStop(s).sel
      /\ \A c \in Charts : SelStop(s).chart[c] =
             IF c \in S THEN [s.chart[c] EXCEPT !.selected = FALSE] ELSE s.chart[c]
  BY DEF SelStop, Shaped
<1>2. \A c \in Charts : /\ Quieter(s.chart[c], SelStop(s).chart[c])
                        /\ SelStop(s).chart[c].selected => c \notin S
  <2> TAKE c \in Charts
  <2>1. Marks \subseteq DOMAIN s.chart[c] /\ Quieter(s.chart[c], s.chart[c])
    BY DEF Shaped, Quieter
  <2>2. CASE c \in S
    <3>1. SelStop(s).chart[c] = [s.chart[c] EXCEPT !.selected = FALSE]
      BY <2>2, <1>1
    <3> QED
      BY <2>1, <3>1, UnselectQuiet
  <2>3. CASE c \notin S
    BY <2>1, <2>3, <1>1
  <2> QED
    BY <2>2, <2>3
<1> QED
  BY <1>1, <1>2 DEF Tame, Shaped, Shared, Quieter

-----------------------------------------------------------------------------
(* The notes the visibility code makes in a chart are no marks.            *)
LEMMA RecordQuiet ==
  ASSUME NEW r, Marks \subseteq DOMAIN r, NEW b
  PROVE  /\ Quieter(r, [r EXCEPT !.hidden = b]) /\ Quieter(r, [r EXCEPT !.seen = b])
         /\ Quieter(r, [r EXCEPT !.redraw = b]) /\ Quieter(r, [r EXCEPT !.due = b])
         /\ Quieter(r, [r EXCEPT !.hidden = FALSE, !.updated = FALSE])
         /\ Quieter(r, [r EXCEPT !.created = TRUE, !.updated = TRUE, !.due = b])
  BY DEF Quieter, Marks

(* Quieter is transitive.                                                  *)
LEMMA QuieterThen ==
  ASSUME NEW r, NEW q, NEW p, Quieter(r, q), Quieter(q, p)
  PROVE  Quieter(r, p)
  BY DEF Quieter

(* hideChart() is tame.                                                    *)
LEMMA HideChartTame ==
  ASSUME NEW s, Shaped(s), NEW c \in Charts
  PROVE  Tame(s, HideChart(s, c))
<1> DEFINE r == s.chart[c]
           q == IF r.created /\ s.page.destroy THEN InitChart(r) ELSE r
<1>1. Marks \subseteq DOMAIN r
  BY DEF Shaped
<1>2. Quieter(r, q)
  BY <1>1, InitChartQuiet DEF Quieter
<1>3. Quieter(r, [q EXCEPT !.hidden = TRUE])
  BY <1>2, RecordQuiet, QuieterThen DEF Quieter
<1>4. HideChart(s, c) = IF r.hidden THEN s ELSE Put(s, c, [q EXCEPT !.hidden = TRUE])
  BY DEF HideChart
<1> HIDE DEF q
<1> QED
  BY <1>3, <1>4, PutTame, TameSelf

(* redrawChart() is tame.                                                  *)
LEMMA RedrawChartTame ==
  ASSUME NEW s, Shaped(s), NEW c \in Charts
  PROVE  Tame(s, RedrawChart(s, c))
<1> DEFINE t == IF s.chart[c].selected THEN SelStop(s) ELSE s
           q == [t.chart[c] EXCEPT !.created = TRUE, !.updated = TRUE,
                                   !.due = (s.pan.master # None)]
<1>1. Tame(s, t)
  BY SelStopTame, TameSelf, SMTT(30)
<1>2. Quieter(t.chart[c], q)
  <2>1. Marks \subseteq DOMAIN t.chart[c]
    BY <1>1 DEF Tame, Shaped
  <2> QED
    BY <2>1, RecordQuiet
<1>3. RedrawChart(s, c) = IF s.chart[c].data = None THEN s ELSE Put(t, c, q)
  BY DEF RedrawChart
<1> HIDE DEF t, q
<1>4. Tame(t, Put(t, c, q))
  BY <1>1, <1>2, PutTame DEF Tame
<1> QED
  BY <1>1, <1>3, <1>4, TameThen, TameSelf

(* unhideChart() is tame.                                                  *)
LEMMA UnhideChartTame ==
  ASSUME NEW s, Shaped(s), NEW c \in Charts
  PROVE  Tame(s, UnhideChart(s, c))
<1> DEFINE r == [s.chart[c] EXCEPT !.hidden = FALSE, !.updated = FALSE]
           shown == IF r.created THEN ResizeChart(r, Dygraph(s, c)) ELSE InitChart(r)
           again == Put(s, c, [shown EXCEPT !.redraw = FALSE])
<1>1. Marks \subseteq DOMAIN s.chart[c]
  BY SMTT(30) DEF Shaped
<1>2. Quieter(s.chart[c], r)
  BY <1>1, RecordQuiet
<1>3. Quieter(r, shown)
  BY <1>2, ResizeChartQuiet, InitChartQuiet DEF Quieter
<1>4. Quieter(s.chart[c], shown)
  BY <1>2, <1>3, QuieterThen
<1>5. Quieter(shown, [shown EXCEPT !.redraw = FALSE])
  BY <1>3, RecordQuiet DEF Quieter
<1>6. UnhideChart(s, c) \in {s, RedrawChart(again, c), Put(s, c, shown)}
  BY DEF UnhideChart
<1> HIDE DEF shown
<1>7. Tame(s, again) /\ Tame(s, Put(s, c, shown))
  BY <1>4, <1>5, PutTame, QuieterThen
<1> HIDE DEF again
<1>8. Tame(again, RedrawChart(again, c))
  BY <1>7, RedrawChartTame DEF Tame
<1> QED
  BY <1>6, <1>7, <1>8, TameThen, TameSelf

(* isVisible() of one chart is tame.                                       *)
LEMMA SwitchTame ==
  ASSUME NEW s, Shaped(s), NEW c \in Charts
  PROVE  Tame(s, SwitchChartVisibility(s, c))
<1> DEFINE t == IF s.chart[c].ratio THEN UnhideChart(s, c) ELSE HideChart(s, c)
           q == [t.chart[c] EXCEPT !.seen = s.chart[c].ratio]
<1>1. Tame(s, t)
  BY UnhideChartTame, HideChartTame, SMTT(30)
<1>2. Quieter(t.chart[c], q)
  <2>1. Marks \subseteq DOMAIN t.chart[c]
    BY <1>1 DEF Tame, Shaped
  <2> QED
    BY <2>1, RecordQuiet
<1>3. SwitchChartVisibility(s, c) \in {s, Put(t, c, q)}
  BY DEF SwitchChartVisibility
<1> HIDE DEF t, q
<1>4. Tame(t, Put(t, c, q))
  BY <1>1, <1>2, PutTame DEF Tame
<1> QED
  BY <1>1, <1>3, <1>4, TameThen, TameSelf

(* isVisible() of several charts is tame and leaves selection and pan      *)
(* alone.                                                                  *)
LEMMA LookAtTame ==
  ASSUME NEW s, Shaped(s), NEW S
  PROVE  Tame(s, LookAt(s, S)) /\ LookAt(s, S).sel = s.sel /\ LookAt(s, S).pan = s.pan
<1>1. /\ DOMAIN LookAt(s, S).chart = Charts /\ LookAt(s, S).reqs = s.reqs
      /\ LookAt(s, S).pan = s.pan /\ LookAt(s, S).sel = s.sel
      /\ {"chart", "reqs", "pan", "sel", "page"} \subseteq DOMAIN LookAt(s, S)
      /\ \A c \in Charts : LookAt(s, S).chart[c] =
             IF c \in S THEN SwitchChartVisibility(s, c).chart[c] ELSE s.chart[c]
  BY DEF LookAt, Shaped
<1>2. \A c \in Charts : Quieter(s.chart[c], LookAt(s, S).chart[c])
  <2> TAKE c \in Charts
  <2>1. Quieter(s.chart[c], SwitchChartVisibility(s, c).chart[c])
    BY SwitchTame DEF Tame
  <2>2. Quieter(s.chart[c], s.chart[c])
    BY DEF Shaped, Quieter
  <2> QED
    BY <1>1, <2>1, <2>2
<1> QED
  BY <1>1, <1>2 DEF Tame, Shaped, Shared, Quieter

(* setMaster() of the selection keeps it shared: the other charts were     *)
(* cleared before, and the new master is the only one it selects.          *)
LEMMA SelSetMasterShared ==
  ASSUME NEW s, Shaped(s), Shared(s), NEW c \in Charts
  PROVE  /\ Shaped(SelSetMaster(s, c)) /\ Shared(SelSetMaster(s, c))
         /\ SelSetMaster(s, c).reqs = s.reqs
         /\ \A x \in Charts : /\ SelSetMaster(s, c).chart[x].running => s.chart[x].running
                              /\ SelSetMaster(s, c).chart[x].fetching => s.chart[x].fetching
<1> DEFINE t == IF s.sel.master = None THEN s ELSE SelStop(s)
           others == {x \in Targets(t) : x # c /\ t.chart[x].enabled}
           m == Put(t, c, [t.chart[c] EXCEPT !.selected = TRUE])
           u == LookAt(m, others)
           e == {x \in others : Eligible(u, x)}
           v == [u EXCEPT !.sel.master = c, !.sel.slaves = e]
<1>0. \A x \in Charts : x # None
  BY ChartsAssumption DEF ChartsAssumption
<1>1. Tame(s, t) /\ \A x \in Charts : ~t.chart[x].selected
  BY <1>0, SelStopTame, TameSelf DEF Shared
<1>2. SelSetMaster(s, c) \in {SelStop(s), s, v}
  BY DEF SelSetMaster
<1> HIDE DEF t
<1>3. /\ Shaped(m) /\ m.reqs = s.reqs
      /\ \A x \in Charts : /\ m.chart[x].running => s.chart[x].running
                           /\ m.chart[x].fetching => s.chart[x].fetching
                           /\ x # c => ~m.chart[x].selected
  BY <1>1 DEF Tame, Put, Shaped, Quieter, Marks
<1> HIDE DEF m, others
<1>4. /\ Shaped(u) /\ u.reqs = s.reqs
      /\ \A x \in Charts : /\ u.chart[x].running => s.chart[x].running
                           /\ u.chart[x].fetching => s.chart[x].fetching
                           /\ x # c => ~u.chart[x].selected
  BY <1>3, LookAtTame DEF Tame, Quieter
<1> HIDE DEF u, e
<1>5. /\ Shaped(v) /\ v.reqs = u.reqs
      /\ \A x \in Charts : v.chart[x] = u.chart[x]
      /\ v.sel.master = c /\ v.sel.slaves = e
  BY <1>4 DEF Shaped
<1> HIDE DEF v
<1>6. ASSUME NEW x \in Charts
      PROVE  /\ v.chart[x].running => s.chart[x].running
             /\ v.chart[x].fetching => s.chart[x].fetching
             /\ x # c => ~v.chart[x].selected
  <2>1. v.chart[x] = u.chart[x]
    BY <1>5
  <2> QED
    BY <1>4, <2>1
<1>7. Shaped(v) /\ Shared(v)
  BY <1>0, <1>5, <1>6 DEF Shared
<1>8. Tame(s, SelStop(s))
  BY SelStopTame
<1> QED
  BY <1>2, <1>4, <1>5, <1>6, <1>7, <1>8 DEF Tame, Quieter

-----------------------------------------------------------------------------
(* The invariant of the page s in the middle of a callback that still owes *)
(* chart c0 the end of a refresh (loop) or of a download (data).           *)
Sound(s, c0, loop, data) ==
    /\ Shaped(s) /\ Shared(s)
    /\ \A c \in Charts :
          /\ s.chart[c].running => (c = c0 /\ loop) \/ \E i \in Slots : s.reqs[c][i].loop
          /\ s.chart[c].fetching =>
                (c = c0 /\ data) \/ \E i \in Slots : s.reqs[c][i].kind = "data"

(* Chart c can have one more request in flight.                            *)
HasIdle(s, c) == \E i \in Slots : s.reqs[c][i] = Idle

(* When nothing is owed it does not matter to which chart.                 *)
LEMMA SoundAnywhere ==
  ASSUME NEW s, NEW c, NEW d, Sound(s, c, FALSE, FALSE)
  PROVE  Sound(s, d, FALSE, FALSE)
  BY DEF Sound

(* A tame step keeps the invariant, and what is owed.                      *)
LEMMA TameSound ==
  ASSUME NEW s, NEW t, NEW c, NEW loop \in BOOLEAN, NEW data \in BOOLEAN,
         Sound(s, c, loop, data), Tame(s, t)
  PROVE  Sound(t, c, loop, data)
  BY DEF Sound, Tame, Quieter

(* Sending a request pays what is owed to the refresh, and a download that *)
(* is marked as such has its request.                                      *)
LEMMA SendSound ==
  ASSUME NEW s, NEW c \in Charts, NEW loop \in BOOLEAN, NEW kind, NEW view,
         Sound(s, c, loop, FALSE), HasIdle(s, c)
  PROVE  Sound(Send(s, c, kind, view, loop), c, FALSE, FALSE)
<1> DEFINE t == Send(s, c, kind, view, loop)
           i == CHOOSE i \in Slots : s.reqs[c][i] = Idle
           q == [kind |-> kind, view |-> view, loop |-> loop]
<1>1. i \in Slots /\ s.reqs[c][i] = Idle
  BY DEF HasIdle
<1> HIDE DEF i
<1>2. t = [s EXCEPT !.reqs[c][i] = q, !.chart[c].xhr = IF kind = "data" THEN i ELSE @,
                    !.chart[c].fetching = @ \/ kind = "data"]
  BY DEF Send, i
<1> HIDE DEF t, q
<1>3. /\ Shaped(t) /\ t.sel = s.sel
      /\ \A x \in Charts \ {c} : t.reqs[x] = s.reqs[x] /\ t.chart[x] = s.chart[x]
      /\ t.reqs[c][i] = q /\ \A j \in Slots \ {i} : t.reqs[c][j] = s.reqs[c][j]
  <2>1. /\ {"chart", "reqs", "pan", "sel", "page"} \subseteq DOMAIN t
        /\ DOMAIN t.chart = Charts /\ DOMAIN t.reqs = Charts /\ t.sel = s.sel /\ t.pan = s.pan
        /\ \A x \in Charts \ {c} : t.reqs[x] = s.reqs[x] /\ t.chart[x] = s.chart[x]
        /\ DOMAIN t.reqs[c] = Slots /\ Marks \subseteq DOMAIN t.chart[c]
        /\ t.reqs[c][i] = q /\ \A j \in Slots \ {i} : t.reqs[c][j] = s.reqs[c][j]
    BY <1>1, <1>2 DEF Sound, Shaped, Marks
  <2>2. q.loop \in BOOLEAN
    BY DEF q
  <2>3. \A x \in Charts, j \in Slots : t.reqs[x][j].loop \in BOOLEAN
    BY <2>1, <2>2 DEF Sound, Shaped
  <2>4. \A x \in Charts : DOMAIN t.reqs[x] = Slots /\ Marks \subseteq DOMAIN t.chart[x]
    BY <2>1 DEF Sound, Shaped
  <2> QED
    BY <2>1, <2>3, <2>4 DEF Sound, Shaped
<1>4. /\ t.chart[c].running = s.chart[c].running /\ t.chart[c].selected = s.chart[c].selected
      /\ t.chart[c].fetching = (s.chart[c].fetching \/ kind = "data")
  BY <1>1, <1>2 DEF Sound, Shaped, Marks
<1>5. Shared(t)
  BY <1>3, <1>4 DEF Sound, Shared
<1>6. ASSUME NEW x \in Charts \ {c}
      PROVE  /\ t.chart[x].running => \E j \in Slots : t.reqs[x][j].loop
             /\ t.chart[x].fetching => \E j \in Slots : t.reqs[x][j].kind = "data"
  BY <1>3 DEF Sound
<1>7. t.chart[c].running => \E j \in Slots : t.reqs[c][j].loop
  <2>1. CASE loop
    BY <2>1, <1>1, <1>3 DEF q
  <2>2. ASSUME ~loop, t.chart[c].running
        PROVE  \E j \in Slots : t.reqs[c][j].loop
    <3>1. PICK j \in Slots : s.reqs[c][j].loop
      BY <2>2, <1>4 DEF Sound
    <3>2. j # i
      BY <1>1, <3>1 DEF Idle
    <3> QED
      BY <1>3, <3>1, <3>2
  <2> QED
    BY <2>1, <2>2
<1>8. t.chart[c].fetching => \E j \in Slots : t.reqs[c][j].kind = "data"
  <2>1. CASE kind = "data"
    BY <2>1, <1>1, <1>3 DEF q
  <2>2. ASSUME kind # "data", t.chart[c].fetching
        PROVE  \E j \in Slots : t.reqs[c][j].kind = "data"
    <3>1. PICK j \in Slots : s.reqs[c][j].kind = "data"
      BY <2>2, <1>4 DEF Sound
    <3>2. j # i
      BY <1>1, <3>1 DEF Idle
    <3> QED
      BY <1>3, <3>1, <3>2
  <2> QED
    BY <2>1, <2>2
<1>9. Sound(t, c, FALSE, FALSE)
  BY <1>3, <1>5, <1>6, <1>7, <1>8 DEF Sound
<1> QED
  BY <1>9 DEF t

(* A request of one chart leaves the slots of the others alone.            *)
LEMMA SendElsewhere ==
  ASSUME NEW s, NEW c \in Charts, NEW loop, NEW kind, NEW view, Shaped(s),
         NEW x \in Charts \ {c}
  PROVE  Send(s, c, kind, view, loop).reqs[x] = s.reqs[x]
  BY DEF Send, Shaped

(* The callback of autoRefresh() pays what is owed.                        *)
LEMMA FinishSound ==
  ASSUME NEW s, NEW c \in Charts, NEW loop \in BOOLEAN, Sound(s, c, loop, FALSE)
  PROVE  Sound(Finish(s, c, loop), c, FALSE, FALSE) /\ Finish(s, c, loop).reqs = s.reqs
<1> DEFINE t == [s EXCEPT !.chart[c].running = FALSE]
<1>1. CASE loop
  <2>1. /\ Shaped(t) /\ t.sel = s.sel /\ t.reqs = s.reqs
        /\ \A x \in Charts \ {c} : t.chart[x] = s.chart[x]
        /\ ~t.chart[c].running /\ t.chart[c].selected = s.chart[c].selected
        /\ t.chart[c].fetching = s.chart[c].fetching
    BY DEF Sound, Shaped, Marks
  <2> HIDE DEF t
  <2>2. Sound(t, c, FALSE, FALSE)
    BY <2>1 DEF Sound, Shared
  <2> QED
    BY <1>1, <2>1, <2>2 DEF Finish, t
<1>2. CASE ~loop
  BY <1>2 DEF Finish, Sound
<1> QED
  BY <1>1, <1>2

(* updateChart() pays what is owed on every one of its ways out.           *)
LEMMA UpdateChartSound ==
  ASSUME NEW s, NEW c \in Charts, NEW loop \in BOOLEAN, Sound(s, c, loop, FALSE), HasIdle(s, c)
  PROVE  /\ Sound(UpdateChart(s, c, loop), c, FALSE, FALSE)
         /\ \A x \in Charts \ {c} : UpdateChart(s, c, loop).reqs[x] = s.reqs[x]
<1> DEFINE t == IF MayRender(s, c) THEN SwitchChartVisibility(s, c) ELSE s
           b == Put(t, c, Broken(t.chart[c]))
           k == Put(t, c, [t.chart[c] EXCEPT !.selected = FALSE])
           d == ChartURL(k, c)
<1>1. Tame(s, t) /\ Sound(t, c, loop, FALSE)
  <2>1. Tame(s, t)
    BY SwitchTame, TameSelf DEF Sound
  <2> QED
    BY <2>1, TameSound
<1>2. UpdateChart(s, c, loop) \in
        {Finish(s, c, loop), Finish(t, c, loop), Send(t, c, "info", None, loop),
         Finish(b, c, loop), Send(d, c, "data", ChartView(t, c), loop)}
  BY DEF UpdateChart
<1> HIDE DEF t
<1>3. Marks \subseteq DOMAIN t.chart[c]
  BY <1>1 DEF Tame, Shaped
<1>4. Tame(t, b) /\ Tame(t, k)
  BY <1>1, <1>3, BrokenQuiet, UnselectQuiet, PutTame DEF Tame
<1> HIDE DEF k, b
<1>5. Tame(k, d)
  <2> DEFINE q == [k.chart[c] EXCEPT
                     !.synced = (k.pan.master # None /\ k.chart[c].want = None),
                     !.want = IF k.pan.master # None /\ k.chart[c].want # None THEN None ELSE @]
  <2>1. Quieter(k.chart[c], q)
    BY <1>4 DEF Quieter, Tame, Shaped, Marks
  <2>2. d = Put(k, c, q)
    BY DEF ChartURL
  <2> HIDE DEF q, d
  <2> QED
    BY <2>1, <2>2, <1>4, PutTame DEF Tame
<1> HIDE DEF d
<1>6. Sound(b, c, loop, FALSE) /\ Sound(d, c, loop, FALSE)
  BY <1>1, <1>4, <1>5, TameSound
<1>7. t.reqs = s.reqs /\ b.reqs = s.reqs /\ d.reqs = s.reqs
  BY <1>1, <1>4, <1>5 DEF Tame
<1>8. HasIdle(t, c) /\ HasIdle(d, c)
  BY <1>7 DEF HasIdle
<1> QED
  <2> DEFINE OK(u) == /\ Sound(u, c, FALSE, FALSE)
                      /\ \A x \in Charts \ {c} : u.reqs[x] = s.reqs[x]
  <2>1. OK(Finish(s, c, loop))
    BY FinishSound
  <2>2. OK(Finish(t, c, loop))
    BY <1>1, <1>7, FinishSound
  <2>3. OK(Finish(b, c, loop))
    BY <1>6, <1>7, FinishSound
  <2>4. OK(Send(t, c, "info", None, loop))
    <3>1. Sound(Send(t, c, "info", None, loop), c, FALSE, FALSE)
      BY <1>1, <1>8, SendSound
    <3>2. \A x \in Charts \ {c} : Send(t, c, "info", None, loop).reqs[x] = t.reqs[x]
      BY <1>1, SendElsewhere DEF Tame
    <3> QED
      BY <1>7, <3>1, <3>2
  <2>5. OK(Send(d, c, "data", ChartView(t, c), loop))
    <3> DEFINE w == ChartView(t, c)
    <3> HIDE DEF w
    <3>1. Sound(Send(d, c, "data", w, loop), c, FALSE, FALSE)
      BY <1>6, <1>8, SendSound
    <3>2. \A x \in Charts \ {c} : Send(d, c, "data", w, loop).reqs[x] = d.reqs[x]
      BY <1>5, SendElsewhere DEF Tame
    <3> QED
      BY <1>7, <3>1, <3>2 DEF w
  <2> HIDE DEF OK
  <2>6. OK(UpdateChart(s, c, loop))
    BY <1>2, <2>1, <2>2, <2>3, <2>4, <2>5
  <2> QED
    BY <2>6 DEF OK
-----------------------------------------------------------------------------
(* setMode() of a chart of the page is tame.                               *)
LEMMA SetModeTame ==
  ASSUME NEW s, Shaped(s), NEW c \in Charts, NEW m
  PROVE  Tame(s, ModeOf(s, c, m))
<1>1. Quieter(s.chart[c], SetMode(s.chart[c], m))
  BY SetModeQuiet DEF Shaped
<1> QED
  BY <1>1, PutTame DEF ModeOf

(* resetChart() keeps the invariant and uses no slot of another chart.     *)
LEMMA ResetChartSound ==
  ASSUME NEW s, NEW c \in Charts, Sound(s, c, FALSE, FALSE), HasIdle(s, c)
  PROVE  /\ Sound(ResetChart(s, c), c, FALSE, FALSE)
         /\ \A x \in Charts \ {c} : ResetChart(s, c).reqs[x] = s.reqs[x]
<1> DEFINE q == Put(s, c, ResetState(s.chart[c]))
           t == SwitchChartVisibility(q, c)
<1>1. Tame(s, q)
  <2>1. Quieter(s.chart[c], ResetState(s.chart[c]))
    BY ResetStateQuiet DEF Sound, Shaped
  <2> QED
    BY <2>1, PutTame DEF Sound
<1>2. ResetChart(s, c) = IF t.chart[c].ratio THEN UpdateChart(t, c, FALSE) ELSE t
  BY DEF ResetChart
<1> HIDE DEF q
<1>3. Tame(s, t)
  BY <1>1, SwitchTame, TameThen DEF Tame
<1> HIDE DEF t
<1>4. Sound(t, c, FALSE, FALSE)
  BY <1>3, TameSound
<1>5. t.reqs = s.reqs /\ HasIdle(t, c)
  BY <1>3 DEF Tame, HasIdle
<1>6. /\ Sound(UpdateChart(t, c, FALSE), c, FALSE, FALSE)
      /\ \A x \in Charts \ {c} : UpdateChart(t, c, FALSE).reqs[x] = t.reqs[x]
  BY <1>4, <1>5, UpdateChartSound
<1> QED
  BY <1>2, <1>4, <1>5, <1>6

(* To forget who follows the pan is tame.                                  *)
LEMMA UnsyncedTame ==
  ASSUME NEW s, Shaped(s)
  PROVE  /\ Tame(s, Unsynced(s))
         /\ \A v, p : Shaped(s) =>
               Tame(s, [Unsynced(s) EXCEPT !.pan = [master |-> None, view |-> v], !.page.held = p])
         /\ \A m \in Charts : \A v, p :
               Tame(s, [Unsynced(s) EXCEPT !.pan = [master |-> m, view |-> v], !.page.held = p])
<1>1. \A c \in Charts : Quieter(s.chart[c], [s.chart[c] EXCEPT !.synced = FALSE])
  BY DEF Quieter, Shaped, Marks
<1>2. /\ DOMAIN Unsynced(s).chart = Charts /\ Unsynced(s).reqs = s.reqs
      /\ Unsynced(s).pan = s.pan /\ Unsynced(s).sel = s.sel
      /\ {"chart", "reqs", "pan", "sel", "page"} \subseteq DOMAIN Unsynced(s)
      /\ \A c \in Charts : Unsynced(s).chart[c] = [s.chart[c] EXCEPT !.synced = FALSE]
  BY DEF Unsynced, Shaped
<1>3. \A c \in Charts : Quieter(s.chart[c], Unsynced(s).chart[c])
  BY <1>1, <1>2
<1>4. Tame(s, Unsynced(s))
  BY <1>2, <1>3 DEF Tame, Shaped, Shared, Quieter
<1> DEFINE u == Unsynced(s)
<1> HIDE DEF u
<1>5. ASSUME NEW m \in Charts \cup {None}, NEW v, NEW p
      PROVE  Tame(u, [u EXCEPT !.pan = [master |-> m, view |-> v], !.page.held = p])
  <2>1. Shaped(u)
    BY <1>4 DEF u, Tame
  <2> QED
    BY <2>1 DEF Tame, Shaped, Shared, Quieter
<1> QED
  BY <1>4, <1>5, TameThen DEF u

(* The flags of the page, the delays and the pan's master are not read by  *)
(* the invariant.                                                          *)
LEMMA FieldsTame ==
  ASSUME NEW s, Shaped(s), NEW b, NEW d
  PROVE  /\ Tame(s, [s EXCEPT !.pan.master = None])
         /\ Tame(s, [s EXCEPT !.page.held = b])
         /\ Tame(s, [s EXCEPT !.page.scrolled = b])
         /\ Tame(s, [s EXCEPT !.page.down = b, !.page.drag = d])
         /\ Tame(s, [s EXCEPT !.sel.held = b])
         /\ Tame(s, [s EXCEPT !.sel.timer = b])
<1>1. Shaped(s) /\ \A c \in Charts : Quieter(s.chart[c], s.chart[c])
  BY DEF Shaped, Quieter
<1>2. /\ Tame(s, [s EXCEPT !.pan.master = None])
      /\ Tame(s, [s EXCEPT !.page.held = b])
      /\ Tame(s, [s EXCEPT !.page.scrolled = b])
  BY <1>1 DEF Tame, Shaped, Shared
<1>3. /\ Tame(s, [s EXCEPT !.page.down = b, !.page.drag = d])
      /\ Tame(s, [s EXCEPT !.sel.held = b])
      /\ Tame(s, [s EXCEPT !.sel.timer = b])
  BY <1>1 DEF Tame, Shaped, Shared
<1> QED
  BY <1>2, <1>3

(* clearMaster() of the pan keeps the invariant.                           *)
LEMMA ClearMasterSound ==
  ASSUME NEW s, NEW c, Sound(s, c, FALSE, FALSE), \A x \in Charts : HasIdle(s, x)
  PROVE  /\ Sound(ClearMaster(s), c, FALSE, FALSE)
         /\ \A x \in Charts \ {s.pan.master} : ClearMaster(s).reqs[x] = s.reqs[x]
<1> DEFINE m == s.pan.master
           t == [s EXCEPT !.pan.master = None]
           u == IF m = None THEN s ELSE ResetChart(t, m)
           v == [Unsynced(u) EXCEPT !.pan = [master |-> None, view |-> None], !.page.held = FALSE]
<1>1. Tame(s, t)
  BY FieldsTame DEF Sound
<1>2. ClearMaster(s) = v
  BY DEF ClearMaster
<1> HIDE DEF t
<1>3. Sound(u, c, FALSE, FALSE) /\ \A x \in Charts \ {m} : u.reqs[x] = s.reqs[x]
  <2>1. CASE m = None
    BY <2>1
  <2>2. CASE m # None
    <3>1. m \in Charts
      BY <2>2 DEF Sound, Shaped
    <3>2. Sound(t, m, FALSE, FALSE)
      BY <1>1, TameSound, SoundAnywhere
    <3>3. t.reqs = s.reqs /\ HasIdle(t, m)
      BY <1>1, <3>1 DEF Tame, HasIdle
    <3> HIDE DEF m
    <3>4. /\ Sound(ResetChart(t, m), m, FALSE, FALSE)
          /\ \A x \in Charts \ {m} : ResetChart(t, m).reqs[x] = t.reqs[x]
      BY <3>1, <3>2, <3>3, ResetChartSound
    <3> QED
      BY <2>2, <3>3, <3>4, SoundAnywhere
  <2> QED
    BY <2>1, <2>2
<1> HIDE DEF u
<1>4. Tame(u, v)
  BY <1>3, UnsyncedTame DEF Sound
<1> HIDE DEF v, m
<1>5. Sound(v, c, FALSE, FALSE) /\ v.reqs = u.reqs
  BY <1>3, <1>4, TameSound DEF Tame
<1> QED
  BY <1>2, <1>3, <1>5 DEF m

(* setMaster() of the pan is tame.                                         *)
LEMMA PanSetMasterTame ==
  ASSUME NEW s, Shaped(s), NEW c \in Charts, NEW view
  PROVE  Tame(s, PanSetMaster(s, c, view))
<1> DEFINE old == s.pan.master
           t == IF old \in {None, c} THEN s ELSE Put(s, old, ResetState(s.chart[old]))
           v == [Unsynced(t) EXCEPT !.pan = [master |-> c, view |-> view], !.page.held = TRUE]
<1>1. Tame(s, t)
  <2>1. CASE old \in {None, c}
    BY <2>1, TameSelf
  <2>2. CASE old \notin {None, c}
    <3>1. old \in Charts
      BY <2>2 DEF Shaped
    <3>2. Quieter(s.chart[old], ResetState(s.chart[old]))
      BY <3>1, ResetStateQuiet DEF Shaped
    <3> QED
      BY <2>2, <3>1, <3>2, PutTame
  <2> QED
    BY <2>1, <2>2
<1>2. PanSetMaster(s, c, view) = v
  BY DEF PanSetMaster
<1> HIDE DEF t
<1>3. Tame(t, v)
  BY <1>1, UnsyncedTame DEF Tame
<1> QED
  BY <1>1, <1>2, <1>3, TameThen

(* updateChartPanOrZoom() is tame.                                         *)
LEMMA PanOrZoomTame ==
  ASSUME NEW s, Shaped(s), NEW c \in Charts, NEW view, NEW accepted
  PROVE  Tame(s, PanOrZoom(s, c, view, accepted))
<1> DEFINE h == [s EXCEPT !.page.held = TRUE]
           t == SelDelay(h)
           r == IF t.chart[c].mode = "auto" THEN SetMode(t.chart[c], "pan") ELSE t.chart[c]
           q == [r EXCEPT !.forced = "armed", !.want = view]
           u == Put(t, c, q)
<1>1. Tame(s, h)
  BY FieldsTame
<1>2. PanOrZoom(s, c, view, accepted) \in {t, PanSetMaster(u, c, view)}
  BY DEF PanOrZoom
<1> HIDE DEF h
<1>3. Tame(h, t)
  BY <1>1, FieldsTame DEF SelDelay, Tame
<1> HIDE DEF t
<1>4. Quieter(t.chart[c], r)
  BY <1>3, SetModeQuiet DEF Tame, Shaped, Quieter
<1> HIDE DEF r
<1>5. Quieter(t.chart[c], q)
  BY <1>4 DEF Quieter, Marks
<1> HIDE DEF q
<1>6. Tame(t, u)
  BY <1>3, <1>5, PutTame DEF Tame
<1> HIDE DEF u
<1>7. Tame(u, PanSetMaster(u, c, view))
  BY <1>6, PanSetMasterTame DEF Tame
<1> QED
  BY <1>1, <1>2, <1>3, <1>6, <1>7, TameThen

(* resetAllCharts() keeps the invariant.                                   *)
LEMMA ResetAllChartsSound ==
  ASSUME NEW s, NEW c \in Charts, Sound(s, c, FALSE, FALSE), \A x \in Charts : HasIdle(s, x)
  PROVE  Sound(ResetAllCharts(s, c), c, FALSE, FALSE)
<1> DEFINE a == SelStop(s)
           t == ClearMaster(a)
<1>1. Tame(s, a) /\ a.pan = s.pan
  <2>1. Tame(s, a)
    BY SelStopTame DEF Sound
  <2>2. a.pan = s.pan
    BY DEF Sound, Shaped, SelStop
  <2> QED
    BY <2>1, <2>2
<1>2. ResetAllCharts(s, c) = IF s.pan.master # c /\ (t.chart[c].paused \/ t.chart[c].selected)
                             THEN ResetChart(t, c) ELSE t
  BY DEF ResetAllCharts
<1> HIDE DEF a
<1>3. Sound(a, c, FALSE, FALSE) /\ \A x \in Charts : HasIdle(a, x)
  BY <1>1, TameSound DEF Tame, HasIdle
<1>4. Sound(t, c, FALSE, FALSE) /\ \A x \in Charts \ {s.pan.master} : t.reqs[x] = a.reqs[x]
  BY <1>1, <1>3, ClearMasterSound
<1> HIDE DEF t
<1>5. s.pan.master # c => HasIdle(t, c)
  BY <1>3, <1>4 DEF HasIdle
<1> QED
  BY <1>2, <1>4, <1>5, ResetChartSound

(* updateChartWithData() is tame.                                          *)
LEMMA UpdateChartWithDataTame ==
  ASSUME NEW s, Shaped(s), NEW c \in Charts, NEW view, NEW how
  PROVE  Tame(s, UpdateChartWithData(s, c, view, how))
<1> DEFINE d == Put(s, c, Draw(s.chart[c], Dygraph(s, c), view, how))
           t == SwitchChartVisibility(d, c)
           q == [t.chart[c] EXCEPT !.redraw = @ \/ ~t.chart[c].ratio]
           u == Put(t, c, q)
           v == IF u.chart[c].selected THEN SelStop(u) ELSE u
           p == [v.chart[c] EXCEPT !.due = (v.pan.master # None)]
<1>1. Tame(s, d)
  <2>1. Quieter(s.chart[c], Draw(s.chart[c], Dygraph(s, c), view, how))
    BY DrawQuiet, SMTT(30) DEF Shaped
  <2> QED
    BY <2>1, PutTame
<1>2. UpdateChartWithData(s, c, view, how) \in {d, Put(v, c, p)}
  BY DEF UpdateChartWithData
<1> HIDE DEF d
<1>3. Tame(d, t)
  BY <1>1, SwitchTame DEF Tame
<1> HIDE DEF t
<1>4. Quieter(t.chart[c], q)
  BY <1>3 DEF Tame, Shaped, Quieter, Marks
<1> HIDE DEF q
<1>5. Tame(t, u)
  BY <1>3, <1>4, PutTame DEF Tame
<1> HIDE DEF u
<1>6. Tame(u, v)
  BY <1>5, SelStopTame, TameSelf DEF Tame
<1> HIDE DEF v
<1>7. Quieter(v.chart[c], p)
  BY <1>6, RecordQuiet DEF Tame, Shaped
<1> HIDE DEF p
<1>8. Tame(v, Put(v, c, p))
  BY <1>6, <1>7, PutTame DEF Tame
<1> QED
  BY <1>1, <1>2, <1>3, <1>5, <1>6, <1>8, TameThen

(* The failure of a download is tame.                                      *)
LEMMA DataFailsTame ==
  ASSUME NEW s, Shaped(s), NEW c \in Charts
  PROVE  Tame(s, DataFails(s, c))
<1> DEFINE r == s.chart[c]
           q == IF r.retries + 1 > Retries THEN [Broken(r) EXCEPT !.retries = 0]
                ELSE [r EXCEPT !.retries = @ + 1, !.due = FALSE]
<1>1. Marks \subseteq DOMAIN r /\ Quieter(r, Broken(r))
  BY BrokenQuiet DEF Shaped
<1>2. Quieter(r, [Broken(r) EXCEPT !.retries = 0])
  BY <1>1 DEF Quieter, Marks
<1>3. Quieter(r, [r EXCEPT !.retries = @ + 1, !.due = FALSE])
  BY <1>1 DEF Quieter, Marks
<1>4. Quieter(r, q)
  BY <1>2, <1>3
<1>5. DataFails(s, c) = Put(s, c, q)
  BY DEF DataFails
<1> HIDE DEF q
<1> QED
  BY <1>4, <1>5, PutTame

(* .always() of a download pays for both marks.                            *)
LEMMA DataEndsSound ==
  ASSUME NEW s, NEW c \in Charts, NEW loop \in BOOLEAN, Sound(s, c, loop, TRUE)
  PROVE  Sound(DataEnds(s, c, loop), c, FALSE, FALSE)
<1> DEFINE t == [s EXCEPT !.chart[c].xhr = 0, !.chart[c].fetching = FALSE]
<1>1. /\ Shaped(t) /\ t.sel = s.sel /\ t.reqs = s.reqs
      /\ \A x \in Charts \ {c} : t.chart[x] = s.chart[x]
      /\ ~t.chart[c].fetching /\ t.chart[c].selected = s.chart[c].selected
      /\ t.chart[c].running = s.chart[c].running
  BY DEF Sound, Shaped, Marks
<1>2. DataEnds(s, c, loop) = Finish(t, c, loop)
  BY DEF DataEnds
<1> HIDE DEF t
<1>3. Sound(t, c, loop, FALSE)
  BY <1>1 DEF Sound, Shared
<1> QED
  BY <1>2, <1>3, FinishSound
-----------------------------------------------------------------------------
(* The invariant: between two callbacks nothing is owed.                   *)
Inv == Sound(Now, None, FALSE, FALSE)

(* The fields of the page are the variables.                               *)
LEMMA NowShaped ==
  /\ Now.chart = chart /\ Now.reqs = reqs /\ Now.pan = pan /\ Now.sel = sel /\ Now.page = page
  /\ {"chart", "reqs", "pan", "sel", "page"} \subseteq DOMAIN Now
  BY DEF Now

(* A callback whose last page is sound takes the system to a sound state.  *)
LEMMA BecomeSound ==
  ASSUME NEW s, NEW c, Sound(s, c, FALSE, FALSE), Become(s)
  PROVE  Inv'
<1>1. /\ chart' = s.chart /\ reqs' = s.reqs /\ pan' = s.pan /\ sel' = s.sel
  BY DEF Become
<1>2. /\ Now'.chart = s.chart /\ Now'.reqs = s.reqs /\ Now'.pan = s.pan /\ Now'.sel = s.sel
      /\ {"chart", "reqs", "pan", "sel", "page"} \subseteq DOMAIN Now'
  BY <1>1 DEF Now
<1>3. Sound(Now', None, FALSE, FALSE)
  BY <1>2 DEF Sound, Shaped, Shared
<1> QED
  BY <1>3 DEF Inv

(* A step that changes nothing the invariant reads.                        *)
LEMMA BecomeTame ==
  ASSUME Inv, NEW s, Tame(Now, s), Become(s)
  PROVE  Inv'
<1>1. Sound(s, None, FALSE, FALSE)
  BY TameSound DEF Inv
<1> QED
  BY <1>1, BecomeSound

(* Init establishes the invariant.                                         *)
LEMMA InitSound == ASSUME Init PROVE Inv
<1>1. /\ \A c \in Charts : /\ Marks \subseteq DOMAIN chart[c]
                           /\ ~chart[c].running /\ ~chart[c].fetching /\ ~chart[c].selected
      /\ DOMAIN chart = Charts
  <2> DEFINE Fresh(r) == Marks \subseteq DOMAIN r /\ ~r.running /\ ~r.fetching /\ ~r.selected
  <2>3. Fresh(NewChart)
    BY DEF NewChart, Marks
  <2>4. Fresh(WarmChart)
    BY <2>3 DEF WarmChart, Marks
  <2>1. \A r \in {NewChart, WarmChart} : Fresh(r)
    BY <2>3, <2>4
  <2>2. PICK r \in {NewChart, WarmChart} : chart = [c \in Charts |-> r]
    BY DEF Init
  <2> QED
    BY <2>1, <2>2
<1>2. /\ DOMAIN reqs = Charts /\ \A c \in Charts : DOMAIN reqs[c] = Slots
      /\ \A c \in Charts, i \in Slots : reqs[c][i].loop \in BOOLEAN
      /\ pan = [master |-> None, view |-> None]
      /\ sel = [master |-> None, slaves |-> {}, held |-> FALSE, timer |-> FALSE]
  BY DEF Init, Idle
<1> QED
  BY <1>1, <1>2, NowShaped DEF Inv, Sound, Shaped, Shared

(* When a request has left its slot, what that request stood for is owed.  *)
LEMMA ArrivalSound ==
  ASSUME Inv, NEW c \in Charts, NEW i \in Slots, NEW s,
         {"chart", "reqs", "pan", "sel", "page"} \subseteq DOMAIN s,
         s.sel = sel, s.pan = pan, DOMAIN s.chart = Charts, DOMAIN s.reqs = Charts,
         \A x \in Charts \ {c} : s.reqs[x] = reqs[x] /\ s.chart[x] = chart[x],
         Quieter(chart[c], s.chart[c]), DOMAIN s.reqs[c] = Slots, s.reqs[c][i] = Idle,
         \A j \in Slots \ {i} : s.reqs[c][j] = reqs[c][j]
  PROVE  /\ Sound(s, c, reqs[c][i].loop, reqs[c][i].kind = "data")
         /\ HasIdle(s, c) /\ reqs[c][i].loop \in BOOLEAN
<1>1. Shaped(s) /\ reqs[c][i].loop \in BOOLEAN
  <2>1. \A x \in Charts, j \in Slots : reqs[x][j].loop \in BOOLEAN
    BY NowShaped DEF Inv, Sound, Shaped
  <2>2. \A x \in Charts, j \in Slots : s.reqs[x][j].loop \in BOOLEAN
    <3>1. Idle.loop \in BOOLEAN
      BY DEF Idle
    <3> QED
      BY <2>1, <3>1
  <2>3. \A x \in Charts : DOMAIN s.reqs[x] = Slots /\ Marks \subseteq DOMAIN s.chart[x]
    BY NowShaped DEF Inv, Sound, Shaped, Quieter
  <2> QED
    BY <2>1, <2>2, <2>3, NowShaped DEF Inv, Sound, Shaped
<1>2. Shared(s)
  BY NowShaped DEF Inv, Sound, Shared, Quieter
<1>3. \A x \in Charts :
         /\ chart[x].running => \E j \in Slots : reqs[x][j].loop
         /\ chart[x].fetching => \E j \in Slots : reqs[x][j].kind = "data"
  BY NowShaped DEF Inv, Sound
<1>4. s.chart[c].running => reqs[c][i].loop \/ \E j \in Slots : s.reqs[c][j].loop
  BY <1>3 DEF Quieter
<1>5. s.chart[c].fetching => reqs[c][i].kind = "data" \/ \E j \in Slots : s.reqs[c][j].kind = "data"
  BY <1>3 DEF Quieter
<1>6. Sound(s, c, reqs[c][i].loop, reqs[c][i].kind = "data")
  BY <1>1, <1>2, <1>3, <1>4, <1>5 DEF Sound
<1> QED
  BY <1>1, <1>6 DEF HasIdle

(* The answer to a download keeps the invariant.                           *)
LEMMA DataArrivesSound ==
  ASSUME Inv, NEW c \in Charts, NEW i \in Slots, NEW how, DataArrives(c, i, how)
  PROVE  Inv'
<1> DEFINE q == reqs[c][i]
           s == [Now EXCEPT !.reqs[c][i] = Idle, !.chart[c].retries = 0, !.chart[c].xhr = 0]
           t == UpdateChartWithData(s, c, q.view, how)
<1>1. Become(DataEnds(t, c, q.loop)) /\ q.kind = "data"
  BY DEF DataArrives
<1>2. Sound(s, c, q.loop, TRUE) /\ q.loop \in BOOLEAN
  <2>1. /\ {"chart", "reqs", "pan", "sel", "page"} \subseteq DOMAIN s
        /\ s.sel = sel /\ s.pan = pan /\ DOMAIN s.chart = Charts /\ DOMAIN s.reqs = Charts
        /\ \A x \in Charts \ {c} : s.reqs[x] = reqs[x] /\ s.chart[x] = chart[x]
        /\ Quieter(chart[c], s.chart[c]) /\ DOMAIN s.reqs[c] = Slots /\ s.reqs[c][i] = Idle
        /\ \A j \in Slots \ {i} : s.reqs[c][j] = reqs[c][j]
    BY NowShaped DEF Inv, Sound, Shaped, Quieter, Marks
  <2> HIDE DEF s
  <2> QED
    BY <1>1, <2>1, ArrivalSound, ZenonT(30)
<1> HIDE DEF s
<1>3. Sound(t, c, q.loop, TRUE)
  <2>1. Tame(s, t)
    BY <1>2, UpdateChartWithDataTame DEF Sound
  <2> HIDE DEF t
  <2> QED
    BY <1>2, <2>1, TameSound
<1> HIDE DEF t
<1>4. Sound(DataEnds(t, c, q.loop), c, FALSE, FALSE)
  BY <1>2, <1>3, DataEndsSound
<1> QED
  BY <1>1, <1>4, BecomeSound

(* The failure of a download keeps the invariant.                          *)
LEMMA DataRequestFailsSound ==
  ASSUME Inv, NEW c \in Charts, NEW i \in Slots, DataRequestFails(c, i)
  PROVE  Inv'
<1> DEFINE q == reqs[c][i]
           s == [Now EXCEPT !.reqs[c][i] = Idle]
           t == DataFails(s, c)
<1>1. Become(DataEnds(t, c, q.loop)) /\ q.kind = "data"
  BY DEF DataRequestFails
<1>2. Sound(s, c, q.loop, TRUE) /\ q.loop \in BOOLEAN
  <2>1. /\ {"chart", "reqs", "pan", "sel", "page"} \subseteq DOMAIN s
        /\ s.sel = sel /\ s.pan = pan /\ DOMAIN s.chart = Charts /\ DOMAIN s.reqs = Charts
        /\ \A x \in Charts \ {c} : s.reqs[x] = reqs[x] /\ s.chart[x] = chart[x]
        /\ Quieter(chart[c], s.chart[c]) /\ DOMAIN s.reqs[c] = Slots /\ s.reqs[c][i] = Idle
        /\ \A j \in Slots \ {i} : s.reqs[c][j] = reqs[c][j]
    BY NowShaped DEF Inv, Sound, Shaped, Quieter, Marks
  <2> HIDE DEF s
  <2> QED
    BY <1>1, <2>1, ArrivalSound, ZenonT(30)
<1> HIDE DEF s
<1>3. Sound(t, c, q.loop, TRUE)
  <2>1. Tame(s, t)
    BY <1>2, DataFailsTame DEF Sound
  <2> HIDE DEF t
  <2> QED
    BY <1>2, <2>1, TameSound
<1> HIDE DEF t
<1>4. Sound(DataEnds(t, c, q.loop), c, FALSE, FALSE)
  BY <1>2, <1>3, DataEndsSound
<1> QED
  BY <1>1, <1>4, BecomeSound

(* The answer to the request for the chart's description keeps the         *)
(* invariant.                                                              *)
LEMMA InfoArrivesSound ==
  ASSUME Inv, NEW c \in Charts, NEW i \in Slots, NEW ok \in BOOLEAN, InfoArrives(c, i, ok)
  PROVE  Inv'
<1> DEFINE q == reqs[c][i]
           r == IF ok THEN [chart[c] EXCEPT !.info = TRUE] ELSE Broken(chart[c])
           s == [Now EXCEPT !.reqs[c][i] = Idle,
                            !.chart[c] = IF ok THEN [@ EXCEPT !.info = TRUE] ELSE Broken(@)]
<1>1. Become(UpdateChart(s, c, q.loop)) /\ q.kind = "info"
  BY DEF InfoArrives
<1>2. Sound(s, c, q.loop, FALSE) /\ HasIdle(s, c) /\ q.loop \in BOOLEAN
  <2>1. Quieter(chart[c], r)
    <3>1. Marks \subseteq DOMAIN chart[c]
      BY NowShaped DEF Inv, Sound, Shaped
    <3>2. Quieter(chart[c], [chart[c] EXCEPT !.info = TRUE])
      BY <3>1 DEF Quieter, Marks
    <3> QED
      BY <3>1, <3>2, BrokenQuiet
  <2>2. /\ {"chart", "reqs", "pan", "sel", "page"} \subseteq DOMAIN s
        /\ s.sel = sel /\ s.pan = pan /\ DOMAIN s.chart = Charts /\ DOMAIN s.reqs = Charts
        /\ \A x \in Charts \ {c} : s.reqs[x] = reqs[x] /\ s.chart[x] = chart[x]
        /\ s.chart[c] = r /\ DOMAIN s.reqs[c] = Slots /\ s.reqs[c][i] = Idle
        /\ \A j \in Slots \ {i} : s.reqs[c][j] = reqs[c][j]
    BY NowShaped DEF Inv, Sound, Shaped
  <2> HIDE DEF s, r
  <2>3. Sound(s, c, q.loop, q.kind = "data") /\ HasIdle(s, c) /\ q.loop \in BOOLEAN
    BY <2>1, <2>2, ArrivalSound
  <2> QED
    BY <1>1, <2>3 DEF Sound
<1> HIDE DEF s
<1>3. Sound(UpdateChart(s, c, q.loop), c, FALSE, FALSE)
  BY <1>2, UpdateChartSound
<1> QED
  BY <1>1, <1>3, BecomeSound

(* autoRefresh() keeps the invariant.                                      *)
LEMMA AutoRefreshSound ==
  ASSUME Inv, NEW c \in Charts, AutoRefresh(c)
  PROVE  Inv'
<1> DEFINE r == [chart[c] EXCEPT !.queued = FALSE]
           q == [Now EXCEPT !.chart[c].queued = FALSE]
           s == IF ~(chart[c].enabled /\ ~chart[c].running) THEN q
                ELSE IF page.library = "bad" THEN Put(q, c, Broken(q.chart[c]))
                ELSE SwitchChartVisibility(q, c)
           t == [s EXCEPT !.chart[c].running = TRUE,
                          !.chart[c].forced = IF @ = "due" THEN "no" ELSE @]
<1>1. Become(IF CanBeAutoRefreshed(s, c) THEN UpdateChart(t, c, TRUE) ELSE s)
  BY DEF AutoRefresh
<1>2. Tame(Now, q)
  <2>1. Quieter(chart[c], r)
    BY NowShaped DEF Inv, Sound, Shaped, Quieter, Marks
  <2>2. q = Put(Now, c, r)
    BY NowShaped DEF Put, Inv, Sound, Shaped
  <2> HIDE DEF r, q
  <2> QED
    BY <2>1, <2>2, NowShaped, PutTame DEF Inv, Sound
<1> HIDE DEF q
<1>3. Tame(q, s)
  <2>1. Quieter(q.chart[c], Broken(q.chart[c]))
    BY <1>2, BrokenQuiet DEF Tame, Shaped
  <2> QED
    BY <1>2, <2>1, PutTame, SwitchTame, TameSelf DEF Tame
<1> HIDE DEF s
<1>4. Tame(Now, s)
  BY <1>2, <1>3, TameThen
<1>5. Sound(s, c, FALSE, FALSE)
  BY <1>4, TameSound, SoundAnywhere DEF Inv
<1>6. /\ Shaped(t) /\ t.sel = s.sel /\ t.reqs = s.reqs
      /\ \A x \in Charts \ {c} : t.chart[x] = s.chart[x]
      /\ t.chart[c].fetching = s.chart[c].fetching /\ t.chart[c].selected = s.chart[c].selected
  BY <1>5 DEF Sound, Shaped, Marks
<1> HIDE DEF t
<1>7. Sound(t, c, TRUE, FALSE)
  BY <1>5, <1>6 DEF Sound, Shared
<1>8. HasIdle(t, c)
  BY <1>4, <1>6, NowShaped DEF AutoRefresh, HasSlot, HasIdle, Tame
<1>9. Sound(UpdateChart(t, c, TRUE), c, FALSE, FALSE)
  BY <1>7, <1>8, UpdateChartSound
<1>10. PICK u : Become(u) /\ u \in {UpdateChart(t, c, TRUE), s}
  BY <1>1
<1>11. Sound(u, c, FALSE, FALSE)
  BY <1>5, <1>9, <1>10
<1> QED
  BY <1>10, <1>11, BecomeSound

(* A step that moves neither requests nor the pan, nor who shares the      *)
(* selection.                                                              *)
LEMMA FrameSound ==
  ASSUME Inv, reqs' = reqs, pan' = pan, DOMAIN chart' = Charts,
         \A c \in Charts : Quieter(chart[c], chart'[c]),
         {"master", "slaves"} \subseteq DOMAIN sel',
         sel'.master = sel.master, sel'.slaves = sel.slaves
  PROVE  Inv'
<1>1. /\ Now'.chart = chart' /\ Now'.reqs = reqs /\ Now'.pan = pan /\ Now'.sel = sel'
      /\ {"chart", "reqs", "pan", "sel", "page"} \subseteq DOMAIN Now'
  BY DEF Now
<1>2. Shaped(Now)' /\ Shared(Now)'
  BY <1>1, NowShaped DEF Inv, Sound, Shaped, Shared, Quieter
<1>3. \A c \in Charts :
         /\ Now'.chart[c].running => \E i \in Slots : Now'.reqs[c][i].loop
         /\ Now'.chart[c].fetching => \E i \in Slots : Now'.reqs[c][i].kind = "data"
  BY <1>1, NowShaped DEF Inv, Sound, Quieter
<1> QED
  BY <1>2, <1>3 DEF Inv, Sound

(* The shape of the variables.                                             *)
LEMMA QuietNow ==
  ASSUME Inv
  PROVE  /\ DOMAIN chart = Charts /\ {"master", "slaves"} \subseteq DOMAIN sel
         /\ \A c \in Charts : Marks \subseteq DOMAIN chart[c] /\ Quieter(chart[c], chart[c])
  BY NowShaped DEF Inv, Sound, Shaped, Quieter

(* A step that leaves the charts, their requests and the shared selection  *)
(* alone keeps the invariant.                                              *)
LEMMA StandsStill ==
  ASSUME Inv, UNCHANGED <<chart, reqs, pan>>,
         sel' = sel \/ sel' = [sel EXCEPT !.held = FALSE]
  PROVE  Inv'
<1>1. /\ {"master", "slaves"} \subseteq DOMAIN sel'
      /\ sel'.master = sel.master /\ sel'.slaves = sel.slaves
  BY QuietNow
<1> QED
  BY <1>1, QuietNow, FrameSound

(* Every round of chartRefresher keeps the invariant.                      *)
LEMMA RefresherSound ==
  ASSUME Inv, Refresher
  PROVE  Inv'
<1>1. CASE RefresherWaits \/ RefresherIdles \/ RefresherPauses \/ RefresherRests
  BY <1>1, StandsStill
     DEF RefresherWaits, RefresherIdles, RefresherPauses, RefresherRests
<1>2. CASE RefresherParsesDom
  <2>1. /\ reqs' = reqs /\ pan' = pan /\ sel' = sel
        /\ chart' = [c \in Charts |-> [chart[c] EXCEPT !.ratio = FALSE, !.seen = FALSE]]
    BY <1>2 DEF RefresherParsesDom
  <2>2. \A c \in Charts : Quieter(chart[c], [chart[c] EXCEPT !.ratio = FALSE, !.seen = FALSE])
    BY QuietNow DEF Quieter, Marks
  <2>3. DOMAIN chart' = Charts /\ \A c \in Charts : Quieter(chart[c], chart'[c])
    BY <2>1, <2>2
  <2> QED
    BY <2>1, <2>3, QuietNow, FrameSound
<1>3. CASE RefresherLoadsLibrary
  <2>1. Become(LookAt(Now, Candidates))
    BY <1>3 DEF RefresherLoadsLibrary
  <2>2. Tame(Now, LookAt(Now, Candidates))
    BY LookAtTame DEF Inv, Sound
  <2> QED
    BY <2>1, <2>2, BecomeTame
<1>4. CASE RefresherDispatches
  <2> DEFINE s == LookAt(Now, Candidates)
             go == {c \in Candidates : s.chart[c].ratio}
             f == [c \in Charts |->
                     IF c \notin go THEN s.chart[c]
                     ELSE [IF page.library = "bad" THEN Broken(s.chart[c]) ELSE s.chart[c]
                              EXCEPT !.queued = TRUE]]
             t == [s EXCEPT !.chart = f]
  <2>1. Become(t)
    BY <1>4 DEF RefresherDispatches
  <2>2. Tame(Now, s)
    BY LookAtTame DEF Inv, Sound
  <2> HIDE DEF s, go
  <2>3. ASSUME NEW c \in Charts
        PROVE  Quieter(s.chart[c], f[c])
    <3> DEFINE b == IF page.library = "bad" THEN Broken(s.chart[c]) ELSE s.chart[c]
    <3>1. Quieter(s.chart[c], b)
      BY <2>2, BrokenQuiet DEF Tame, Shaped, Quieter
    <3> HIDE DEF b
    <3>2. Quieter(s.chart[c], [b EXCEPT !.queued = TRUE])
      BY <3>1 DEF Quieter, Marks
    <3>3. f[c] \in {s.chart[c], [b EXCEPT !.queued = TRUE]}
      BY DEF b
    <3>4. Quieter(s.chart[c], s.chart[c])
      BY <2>2 DEF Tame, Shaped, Quieter
    <3> QED
      BY <3>2, <3>3, <3>4
  <2>4. DOMAIN f = Charts
    OBVIOUS
  <2> HIDE DEF f
  <2>5. Tame(s, t)
    BY <2>2, <2>3, <2>4 DEF Tame, Shaped, Shared, Quieter
  <2> HIDE DEF t
  <2> QED
    BY <2>1, <2>2, <2>5, TameThen, BecomeTame
<1> QED
  BY <1>1, <1>2, <1>3, <1>4 DEF Refresher

(* Every timer keeps the invariant; the slaves select themselves only while*)
(* they share the selection.                                               *)
LEMMA TimersSound ==
  ASSUME Inv, Timers
  PROVE  Inv'
<1>0. Shaped(Now)
  BY DEF Inv, Sound
<1>1. CASE OnscrollUpdater
  <2> DEFINE a == SelStop(Now)
             t == [a EXCEPT !.page.scrolled = FALSE]
  <2>1. Become(t)
    BY <1>1 DEF OnscrollUpdater
  <2>2. Tame(Now, a)
    BY <1>0, SelStopTame
  <2> HIDE DEF a
  <2>3. Tame(a, t)
    BY <2>2, FieldsTame DEF Tame
  <2> HIDE DEF t
  <2> QED
    BY <2>1, <2>2, <2>3, TameThen, BecomeTame
<1>2. CASE SyncSlaves
  <2>1. PICK found \in SUBSET sel.slaves :
           Become([Now EXCEPT !.sel.timer = FALSE,
                              !.chart = IF sel.held THEN @
                                        ELSE [c \in Charts |->
                                                IF c \in sel.slaves
                                                THEN [@[c] EXCEPT !.selected = (c \in found)]
                                                ELSE @[c]]])
    BY <1>2 DEF SyncSlaves
  <2> DEFINE f == [c \in Charts |-> IF c \in sel.slaves
                                    THEN [chart[c] EXCEPT !.selected = (c \in found)]
                                    ELSE chart[c]]
             g == [c \in Charts |->
                      IF c \in sel.slaves
                      THEN [Now.chart[c] EXCEPT !.selected = (c \in found)]
                      ELSE Now.chart[c]]
             t == [Now EXCEPT !.sel.timer = FALSE,
                              !.chart = IF sel.held THEN @
                                        ELSE [c \in Charts |->
                                                IF c \in sel.slaves
                                                THEN [@[c] EXCEPT !.selected = (c \in found)]
                                                ELSE @[c]]]
  <2>a. Become(t)
    BY <2>1
  <2>b. g = f
    BY DEF Now
  <2>c. /\ t.reqs = reqs /\ t.pan = pan /\ t.sel = [sel EXCEPT !.timer = FALSE]
        /\ t.chart \in {chart, g}
    BY DEF Now
  <2> HIDE DEF t, f, g
  <2>d. /\ reqs' = reqs /\ pan' = pan /\ sel' = [sel EXCEPT !.timer = FALSE]
        /\ chart' \in {chart, f}
    BY <2>a, <2>b, <2>c DEF Become
  <2>2. /\ reqs' = reqs /\ pan' = pan /\ sel' = [sel EXCEPT !.timer = FALSE]
        /\ \/ chart' = chart
           \/ chart' = [c \in Charts |-> IF c \in sel.slaves
                                          THEN [chart[c] EXCEPT !.selected = (c \in found)]
                                          ELSE chart[c]]
    BY <2>d DEF f
  <2>3. CASE chart' = chart
    <3>2. /\ {"master", "slaves"} \subseteq DOMAIN sel'
          /\ sel'.master = sel.master /\ sel'.slaves = sel.slaves
      BY <2>2, QuietNow
    <3> QED
      BY <2>2, <2>3, <3>2, QuietNow, FrameSound
  <2>4. CASE chart' = [c \in Charts |-> IF c \in sel.slaves
                                        THEN [chart[c] EXCEPT !.selected = (c \in found)]
                                        ELSE chart[c]]
    <3>1. /\ Now'.chart = chart' /\ Now'.reqs = reqs /\ Now'.pan = pan /\ Now'.sel = sel'
          /\ {"chart", "reqs", "pan", "sel", "page"} \subseteq DOMAIN Now'
      BY <2>2 DEF Now
    <3>2. /\ {"master", "slaves"} \subseteq DOMAIN sel'
          /\ sel'.master = sel.master /\ sel'.slaves = sel.slaves
      BY <2>2, QuietNow
    <3>3. ASSUME NEW c \in Charts
          PROVE  /\ Marks \subseteq DOMAIN chart'[c]
                 /\ chart'[c].running = chart[c].running
                 /\ chart'[c].fetching = chart[c].fetching
                 /\ c \notin sel.slaves => chart'[c] = chart[c]
      <4>1. CASE c \in sel.slaves
        <5>1. chart'[c] = [chart[c] EXCEPT !.selected = (c \in found)]
          BY <2>4, <4>1
        <5> QED
          BY <4>1, <5>1, QuietNow DEF Marks
      <4>2. CASE c \notin sel.slaves
        BY <2>4, <4>2, QuietNow
      <4> QED
        BY <4>1, <4>2
    <3>4. DOMAIN chart' = Charts
      BY <2>4
    <3>5. Shaped(Now)' /\ Shared(Now)'
      BY <3>1, <3>2, <3>3, <3>4, NowShaped DEF Inv, Sound, Shaped, Shared
    <3>6. \A c \in Charts :
             /\ Now'.chart[c].running => \E i \in Slots : Now'.reqs[c][i].loop
             /\ Now'.chart[c].fetching => \E i \in Slots : Now'.reqs[c][i].kind = "data"
      BY <3>1, <3>3, NowShaped DEF Inv, Sound
    <3> QED
      BY <3>5, <3>6 DEF Inv, Sound
  <2> QED
    BY <2>2, <2>3, <2>4
<1>3. CASE TimePasses
  BY <1>3, StandsStill DEF TimePasses
<1>4. ASSUME NEW c \in Charts, AutoRefresh(c) \/ ComesDue(c) \/ ReportVisibility(c) \/ IdleSwitch(c)
      PROVE  Inv'
  <2>1. CASE AutoRefresh(c)
    BY <2>1, AutoRefreshSound
  <2>2. CASE ComesDue(c) \/ ReportVisibility(c)
    <3>1. /\ reqs' = reqs /\ pan' = pan /\ sel' = sel
          /\ \/ chart' = [chart EXCEPT ![c] = [@ EXCEPT !.forced = "due"]]
             \/ chart' = [chart EXCEPT ![c] = [@ EXCEPT !.due = TRUE]]
             \/ chart' = [chart EXCEPT ![c] = [@ EXCEPT !.ratio = screen[c]]]
      BY <2>2 DEF ComesDue, ReportVisibility
    <3>2. \A r \in {[chart[c] EXCEPT !.forced = "due"], [chart[c] EXCEPT !.due = TRUE],
                    [chart[c] EXCEPT !.ratio = screen[c]]} : Quieter(chart[c], r)
      BY QuietNow DEF Quieter, Marks
    <3>3. PICK r : chart' = [chart EXCEPT ![c] = r] /\ Quieter(chart[c], r)
      BY <3>1, <3>2
    <3>4. DOMAIN chart' = Charts /\ \A x \in Charts : Quieter(chart[x], chart'[x])
      BY <3>3, QuietNow
    <3> QED
      BY <3>1, <3>4, QuietNow, FrameSound
  <2>3. CASE IdleSwitch(c)
    <3>1. Become(SwitchChartVisibility(Now, c))
      BY <2>3 DEF IdleSwitch
    <3> QED
      BY <1>0, <3>1, SwitchTame, BecomeTame
  <2> QED
    BY <1>4, <2>1, <2>2, <2>3
<1> QED
  BY <1>1, <1>2, <1>3, <1>4 DEF Timers

(* Everything the network delivers keeps the invariant.                    *)
LEMMA NetworkSound ==
  ASSUME Inv, Network
  PROVE  Inv'
<1>1. ASSUME NEW ok \in BOOLEAN, LibraryArrives(ok)
      PROVE  Inv'
  BY <1>1, StandsStill DEF LibraryArrives
<1>2. ASSUME NEW c \in Charts, NEW i \in Slots, Answer(c, i) \/ DataRequestFails(c, i)
      PROVE  Inv'
  BY <1>2, DataArrivesSound, InfoArrivesSound, DataRequestFailsSound DEF Answer
<1> QED
  BY <1>1, <1>2 DEF Network

-----------------------------------------------------------------------------
(* What every gesture begins with is tame.                                 *)
LEMMA QuietTame ==
  ASSUME NEW s, Shaped(s)
  PROVE  Tame(s, Quiet(s)) /\ Shaped(Quiet(s))
<1> DEFINE a == SelStop(s)
<1>1. Tame(s, a)
  BY SelStopTame
<1>2. Quiet(s) = [a EXCEPT !.sel.held = TRUE]
  BY SMTT(30) DEF Quiet, SelDelay
<1> HIDE DEF a
<1>3. Tame(a, [a EXCEPT !.sel.held = TRUE])
  BY <1>1, FieldsTame DEF Tame
<1>4. Tame(s, Quiet(s))
  BY <1>1, <1>2, <1>3, TameThen
<1> QED
  BY <1>4 DEF Tame

(* Pressing and releasing a button is tame.                                *)
LEMMA PressTame ==
  ASSUME NEW s, Shaped(s), NEW b, NEW d
  PROVE  /\ Tame(s, [Quiet(s) EXCEPT !.page.down = b, !.page.drag = d])
         /\ Shaped([Quiet(s) EXCEPT !.page.down = b, !.page.drag = d])
<1> DEFINE a == Quiet(s)
           t == [a EXCEPT !.page.down = b, !.page.drag = d]
<1>1. Tame(s, a) /\ Shaped(a)
  BY QuietTame
<1> HIDE DEF a
<1>2. Tame(a, t)
  BY <1>1, FieldsTame
<1> HIDE DEF t
<1>3. Tame(s, t)
  BY <1>1, <1>2, TameThen
<1> QED
  BY <1>3 DEF Tame, a, t

(* pauseChart() and its end are tame.                                      *)
LEMMA PauseTame ==
  ASSUME NEW s, Shaped(s), NEW c \in Charts, NEW b
  PROVE  /\ Tame(s, [s EXCEPT !.chart[c].paused = b])
         /\ Shaped([s EXCEPT !.chart[c].paused = b])
<1> DEFINE q == [s.chart[c] EXCEPT !.paused = b]
           t == [s EXCEPT !.chart[c].paused = b]
<1>1. Quieter(s.chart[c], q)
  BY DEF Shaped, Quieter, Marks
<1>2. t = Put(s, c, q)
  BY DEF Put
<1> HIDE DEF q, t
<1>3. Tame(s, t)
  BY <1>1, <1>2, PutTame
<1>4. Shaped(t)
  BY <1>3 DEF Tame
<1> QED
  BY <1>3, <1>4 DEF t

(* sync() of the selection keeps the invariant.                            *)
LEMMA SelSyncSound ==
  ASSUME NEW s, NEW c \in Charts, Sound(s, None, FALSE, FALSE)
  PROVE  Sound(SelSync(s, c), None, FALSE, FALSE) /\ SelSync(s, c).reqs = s.reqs
<1> DEFINE m == SelSetMaster(s, c)
           t == [m EXCEPT !.sel.timer = TRUE]
<1>1. Shaped(m) /\ Shared(m) /\ m.reqs = s.reqs
  BY SelSetMasterShared DEF Sound
<1>2. \A x \in Charts :
         /\ m.chart[x].running => s.chart[x].running
         /\ m.chart[x].fetching => s.chart[x].fetching
  BY SelSetMasterShared DEF Sound
<1>3. SelSync(s, c) = t
  BY DEF SelSync
<1> HIDE DEF m
<1>4. Sound(m, None, FALSE, FALSE)
  <2>1. \A x \in Charts :
           /\ s.chart[x].running => \E i \in Slots : s.reqs[x][i].loop
           /\ s.chart[x].fetching => \E i \in Slots : s.reqs[x][i].kind = "data"
    BY DEF Sound
  <2>2. \A x \in Charts :
           /\ m.chart[x].running => \E i \in Slots : m.reqs[x][i].loop
           /\ m.chart[x].fetching => \E i \in Slots : m.reqs[x][i].kind = "data"
    BY <1>1, <1>2, <2>1
  <2> QED
    BY <1>1, <2>2 DEF Sound
<1>5. Tame(m, t)
  BY <1>1, FieldsTame
<1> HIDE DEF t
<1>6. Sound(t, None, FALSE, FALSE)
  BY <1>4, <1>5, TameSound
<1> QED
  BY <1>1, <1>3, <1>5, <1>6 DEF Tame

(* A change of mode followed by a pan or zoom is tame.                     *)
LEMMA ZoomTame ==
  ASSUME NEW s, Shaped(s), NEW c \in Charts, NEW m, NEW view, NEW accepted
  PROVE  /\ Tame(s, PanOrZoom(ModeOf(s, c, m), c, view, accepted))
         /\ Shaped(PanOrZoom(ModeOf(s, c, m), c, view, accepted))
<1> DEFINE a == ModeOf(s, c, m)
           t == PanOrZoom(a, c, view, accepted)
<1>1. Tame(s, a)
  BY SetModeTame
<1> HIDE DEF a
<1>2. Tame(a, t)
  BY <1>1, PanOrZoomTame DEF Tame
<1> HIDE DEF t
<1>3. Tame(s, t)
  BY <1>1, <1>2, TameThen
<1> QED
  BY <1>3 DEF Tame, a, t

(* highlightCallback keeps the invariant.                                  *)
LEMMA HoverSound ==
  ASSUME Inv, NEW c \in Charts, Hover(c)
  PROVE  Inv'
<1> DEFINE s == [Now EXCEPT !.chart[c].paused = TRUE]
<1>1. Tame(Now, s)
  BY PauseTame DEF Inv, Sound
<1>2. PICK u : Become(u) /\ u \in {SelSync(s, c), s}
  BY DEF Hover
<1> HIDE DEF s
<1>3. Sound(s, None, FALSE, FALSE)
  BY <1>1, TameSound DEF Inv
<1>4. Sound(u, None, FALSE, FALSE)
  BY <1>2, <1>3, SelSyncSound
<1> QED
  BY <1>2, <1>4, BecomeSound

(* unhighlightCallback keeps the invariant.                                *)
LEMMA UnhoverSound ==
  ASSUME Inv, NEW c \in Charts, Unhover(c)
  PROVE  Inv'
<1> DEFINE s == [Now EXCEPT !.chart[c].paused = FALSE]
<1>1. Tame(Now, s) /\ Shaped(s)
  BY PauseTame DEF Inv, Sound
<1>2. Become(SelStop(s))
  BY DEF Unhover
<1> HIDE DEF s
<1>3. Tame(s, SelStop(s))
  BY <1>1, SelStopTame
<1> QED
  BY <1>1, <1>2, <1>3, TameThen, BecomeTame

(* mousedown keeps the invariant.                                          *)
LEMMA MouseDownSound ==
  ASSUME Inv, NEW c \in Charts, NEW drag, MouseDown(c, drag)
  PROVE  Inv'
<1> DEFINE s == [Quiet(Now) EXCEPT !.page.down = c, !.page.drag = drag]
<1>1. Tame(Now, s) /\ Shaped(s)
  BY PressTame DEF Inv, Sound
<1>2. PICK u : Become(u) /\ u \in {s, ModeOf(s, c, drag)}
  BY DEF MouseDown
<1> HIDE DEF s
<1>3. Tame(s, u)
  BY <1>1, <1>2, TameSelf, SetModeTame
<1> QED
  BY <1>1, <1>2, <1>3, TameThen, BecomeTame

(* mousemove and the wheel keep the invariant.                             *)
LEMMA MouseMoveSound ==
  ASSUME Inv, NEW c \in Charts, NEW view, NEW accepted,
         MouseMove(c, view, accepted) \/ Wheel(c, view, accepted)
  PROVE  Inv'
<1> DEFINE s == Quiet(Now)
<1>1. Tame(Now, s) /\ Shaped(s)
  BY QuietTame DEF Inv, Sound
<1>2. PICK m : Become(PanOrZoom(ModeOf(s, c, m), c, view, accepted))
  BY DEF MouseMove, Wheel
<1> HIDE DEF s
<1>3. Tame(s, PanOrZoom(ModeOf(s, c, m), c, view, accepted))
  BY <1>1, ZoomTame
<1> QED
  BY <1>1, <1>2, <1>3, TameThen, BecomeTame

(* The buttons of the toolbox keep the invariant.                          *)
LEMMA ToolboxSound ==
  ASSUME Inv, NEW c \in Charts, NEW view, NEW accepted, Toolbox(c, view, accepted)
  PROVE  Inv'
<1> DEFINE s == Quiet(Now)
           t == PanOrZoom(ModeOf(s, c, "zoom"), c, view, accepted)
<1>1. Tame(Now, s) /\ Shaped(s)
  BY QuietTame DEF Inv, Sound
<1>2. Become(PanSetMaster(t, c, view))
  BY DEF Toolbox
<1> HIDE DEF s
<1>3. Tame(s, t) /\ Shaped(t)
  BY <1>1, ZoomTame
<1> HIDE DEF t
<1>4. Tame(t, PanSetMaster(t, c, view))
  BY <1>3, PanSetMasterTame
<1>5. Tame(Now, t)
  BY <1>1, <1>3, TameThen
<1> QED
  BY <1>2, <1>4, <1>5, TameThen, BecomeTame

(* mouseup keeps the invariant.                                            *)
LEMMA MouseUpSound ==
  ASSUME Inv, NEW c \in Charts, NEW view, NEW accepted, MouseUp(c, view, accepted)
  PROVE  Inv'
<1> DEFINE s == [Quiet(Now) EXCEPT !.page.down = None, !.page.drag = None]
<1>1. Tame(Now, s) /\ Shaped(s)
  BY PressTame DEF Inv, Sound
<1>2. PICK t : /\ Become([t EXCEPT !.page.held = FALSE])
               /\ t \in {PanOrZoom(ModeOf(s, c, "zoom"), c, view, accepted),
                         PanSetMaster(s, c, view), s}
  BY DEF MouseUp
<1> HIDE DEF s
<1>3. Tame(s, t)
  BY <1>1, <1>2, ZoomTame, PanSetMasterTame, TameSelf
<1>4. Tame(t, [t EXCEPT !.page.held = FALSE])
  BY <1>3, FieldsTame DEF Tame
<1>5. Tame(Now, t)
  BY <1>1, <1>3, TameThen
<1> QED
  BY <1>2, <1>4, <1>5, TameThen, BecomeTame

(* touchstart keeps the invariant.                                         *)
LEMMA TouchStartSound ==
  ASSUME Inv, NEW c \in Charts, TouchStart(c)
  PROVE  Inv'
<1> DEFINE s == ModeOf(Now, c, "zoom")
           p == [s EXCEPT !.chart[c].paused = TRUE]
           t == [Quiet(p) EXCEPT !.page.down = c, !.page.drag = "touch"]
<1>1. Tame(Now, s) /\ Become(t)
  BY SetModeTame DEF Inv, Sound, TouchStart
<1> HIDE DEF s
<1>2. Tame(s, p) /\ Shaped(p)
  BY <1>1, PauseTame DEF Tame
<1> HIDE DEF p
<1>3. Tame(p, t)
  BY <1>2, PressTame
<1> HIDE DEF t
<1>4. Tame(Now, p)
  BY <1>1, <1>2, TameThen
<1> QED
  BY <1>1, <1>3, <1>4, TameThen, BecomeTame

(* touchmove keeps the invariant.                                          *)
LEMMA TouchMoveSound ==
  ASSUME Inv, NEW c \in Charts, NEW view, NEW accepted, TouchMove(c, view, accepted)
  PROVE  Inv'
<1> DEFINE s == Quiet(Now)
<1>1. Tame(Now, s) /\ Shaped(s)
  BY QuietTame DEF Inv, Sound
<1>2. PICK u : Become(u) /\ u \in {s, PanOrZoom(s, c, view, accepted)}
  BY DEF TouchMove
<1> HIDE DEF s
<1>3. Tame(s, u)
  BY <1>1, <1>2, TameSelf, PanOrZoomTame
<1> QED
  BY <1>1, <1>2, <1>3, TameThen, BecomeTame

(* The reset button keeps the invariant.                                   *)
LEMMA ResetSound ==
  ASSUME Inv, NEW c \in Charts, Reset(c)
  PROVE  Inv'
<1>1. \A x \in Charts : HasIdle(Now, x)
  BY NowShaped DEF Reset, HasSlot, HasIdle
<1>2. Sound(Now, c, FALSE, FALSE)
  BY SoundAnywhere DEF Inv
<1>3. Sound(ResetAllCharts(Now, c), c, FALSE, FALSE)
  BY <1>1, <1>2, ResetAllChartsSound
<1>4. Become(ResetAllCharts(Now, c))
  BY DEF Reset
<1> QED
  BY <1>3, <1>4, BecomeSound

(* touchend keeps the invariant.                                           *)
LEMMA TouchEndSound ==
  ASSUME Inv, NEW c \in Charts, NEW tap, NEW again, TouchEnd(c, tap, again)
  PROVE  Inv'
<1> DEFINE s == [Quiet(Now) EXCEPT !.page.down = None, !.page.drag = None]
           f == [s EXCEPT !.sel.held = FALSE]
<1>1. Tame(Now, s) /\ Shaped(s)
  BY PressTame DEF Inv, Sound
<1>2. PICK t : t \in {SelSync(f, c), s} /\ \E u : /\ u \in {ResetAllCharts(t, c), t}
                                              /\ Become([u EXCEPT !.page.held = FALSE])
  BY DEF TouchEnd
<1> HIDE DEF s
<1>3. Tame(s, f)
  BY <1>1, FieldsTame
<1> HIDE DEF f
<1>4. Sound(s, None, FALSE, FALSE) /\ s.reqs = reqs
  BY <1>1, TameSound, NowShaped DEF Inv, Tame
<1>5. Sound(f, None, FALSE, FALSE) /\ f.reqs = reqs
  BY <1>3, <1>4, TameSound DEF Tame
<1>6. Sound(t, None, FALSE, FALSE) /\ t.reqs = reqs
  BY <1>2, <1>4, <1>5, SelSyncSound
<1>7. \A x \in Charts : HasIdle(t, x)
  BY <1>6 DEF TouchEnd, HasSlot, HasIdle
<1>8. PICK u : u \in {ResetAllCharts(t, c), t} /\ Become([u EXCEPT !.page.held = FALSE])
  BY <1>2
<1>9. Sound(u, c, FALSE, FALSE)
  <2>1. Sound(t, c, FALSE, FALSE)
    BY <1>6, SoundAnywhere
  <2> QED
    BY <1>7, <1>8, <2>1, ResetAllChartsSound
<1>10. Sound([u EXCEPT !.page.held = FALSE], c, FALSE, FALSE)
  <2>1. Tame(u, [u EXCEPT !.page.held = FALSE])
    BY <1>9, FieldsTame DEF Sound
  <2> QED
    BY <1>9, <2>1, TameSound
<1> QED
  BY <1>8, <1>10, BecomeSound

(* Dragging the lower edge keeps the invariant.                            *)
LEMMA ResizeDragSound ==
  ASSUME Inv, NEW c \in Charts, NEW released, ResizeDrag(c, released)
  PROVE  Inv'
<1> DEFINE q == [chart[c] EXCEPT !.sized = FALSE]
           r == ResizeChart(q, c \in page.dygraphs)
           t == Put(Now, c, r)
           b == ~released
<1>1. Quieter(chart[c], q)
  BY QuietNow DEF Quieter, Marks
<1> HIDE DEF q
<1>2. Quieter(q, r)
  BY <1>1, ResizeChartQuiet DEF Quieter
<1> HIDE DEF r
<1>3. Tame(Now, t)
  BY <1>1, <1>2, QuieterThen, PutTame, NowShaped DEF Inv, Sound
<1>4. Become([t EXCEPT !.page.held = b])
  BY DEF ResizeDrag, r, q
<1> HIDE DEF t, b
<1>5. Tame(t, [t EXCEPT !.page.held = b])
  BY <1>3, FieldsTame DEF Tame
<1> QED
  BY <1>3, <1>4, <1>5, TameThen, BecomeTame

(* abortAllRefreshes() frees the slots of the charts it cuts and clears    *)
(* both of their marks.                                                    *)
LEMMA AbortAllSound ==
  ASSUME Inv, AbortAll
  PROVE  Inv'
<1> DEFINE cut == {c \in Charts : chart[c].fetching /\ chart[c].xhr # 0}
           q == [c \in Charts |-> IF c \in cut
                        THEN [reqs[c] EXCEPT ![chart[c].xhr] = Idle] ELSE reqs[c]]
           f == [c \in Charts |-> IF c \in cut
                        THEN [chart[c] EXCEPT !.xhr = 0, !.running = FALSE,
                                              !.fetching = FALSE] ELSE chart[c]]
           t == [Now EXCEPT !.reqs = q, !.chart = f]
<1>1. Become(t)
  BY DEF AbortAll
<1>2. /\ DOMAIN reqs = Charts /\ \A c \in Charts : DOMAIN reqs[c] = Slots
      /\ \A c \in Charts, i \in Slots : reqs[c][i].loop \in BOOLEAN
  BY NowShaped DEF Inv, Sound, Shaped
<1>3. ASSUME NEW c \in Charts
      PROVE  /\ DOMAIN q[c] = Slots
             /\ \A i \in Slots : q[c][i] \in {Idle, reqs[c][i]}
             /\ Quieter(chart[c], f[c])
             /\ c \in cut => ~f[c].running /\ ~f[c].fetching
             /\ c \notin cut => q[c] = reqs[c] /\ f[c] = chart[c]
  <2>1. CASE c \in cut
    <3>1. /\ q[c] = [reqs[c] EXCEPT ![chart[c].xhr] = Idle]
          /\ f[c] = [chart[c] EXCEPT !.xhr = 0, !.running = FALSE, !.fetching = FALSE]
      BY <2>1
    <3> HIDE DEF cut
    <3> QED
      BY <1>2, <2>1, <3>1, QuietNow DEF Quieter, Marks
  <2>2. CASE c \notin cut
    <3>1. q[c] = reqs[c] /\ f[c] = chart[c]
      BY <2>2
    <3> HIDE DEF cut
    <3> QED
      BY <1>2, <2>2, <3>1, QuietNow
  <2> QED
    BY <2>1, <2>2
<1>4. /\ DOMAIN q = Charts /\ DOMAIN f = Charts
      /\ t.chart = f /\ t.reqs = q /\ t.pan = pan /\ t.sel = sel
      /\ {"chart", "reqs", "pan", "sel", "page"} \subseteq DOMAIN t
  BY DEF Now
<1> HIDE DEF q, f, t, cut
<1>5. \A c \in Charts, i \in Slots : q[c][i].loop \in BOOLEAN
  <2>1. Idle.loop \in BOOLEAN
    BY DEF Idle
  <2> QED
    BY <1>2, <1>3, <2>1
<1>6. Shaped(t) /\ Shared(t)
  BY <1>3, <1>4, <1>5, NowShaped DEF Inv, Sound, Shaped, Shared, Quieter
<1>7. ASSUME NEW c \in Charts
      PROVE  /\ t.chart[c].running => \E i \in Slots : t.reqs[c][i].loop
             /\ t.chart[c].fetching => \E i \in Slots : t.reqs[c][i].kind = "data"
  <2>1. CASE c \in cut
    BY <1>3, <1>4, <2>1
  <2>2. CASE c \notin cut
    <3>1. t.chart[c] = chart[c] /\ t.reqs[c] = reqs[c]
      BY <1>3, <1>4, <2>2
    <3> QED
      BY <3>1, NowShaped DEF Inv, Sound
  <2> QED
    BY <2>1, <2>2
<1>8. Sound(t, None, FALSE, FALSE)
  BY <1>6, <1>7 DEF Sound
<1> QED
  BY <1>1, <1>8, BecomeSound

(* Mouse and finger keep the invariant.                                    *)
LEMMA MouseSound ==
  ASSUME Inv, NEW c \in Charts, Mouse(c)
  PROVE  Inv'
<1>1. CASE \E view \in Windows, accepted \in BOOLEAN :
             \/ MouseMove(c, view, accepted) \/ MouseUp(c, view, accepted)
             \/ Wheel(c, view, accepted) \/ Toolbox(c, view, accepted)
             \/ TouchMove(c, view, accepted)
  BY <1>1, MouseMoveSound, MouseUpSound, ToolboxSound, TouchMoveSound
<1>2. CASE \/ \E drag \in {"pan", "zoom", "mark"} : MouseDown(c, drag)
           \/ \E tap \in BOOLEAN, again \in BOOLEAN : TouchEnd(c, tap, again)
           \/ \E released \in BOOLEAN : ResizeDrag(c, released)
  BY <1>2, MouseDownSound, TouchEndSound, ResizeDragSound
<1> QED
  BY <1>1, <1>2, HoverSound, UnhoverSound, ResetSound, TouchStartSound DEF Mouse

(* The user keeps the invariant.                                           *)
LEMMA UserSound ==
  ASSUME Inv, User
  PROVE  Inv'
<1>1. CASE ResizeWindow
  <2>1. /\ reqs' = reqs /\ pan' = pan /\ sel' = sel
        /\ chart' = [c \in Charts |-> [chart[c] EXCEPT !.sized = (c \in page.dygraphs)]]
    BY <1>1 DEF ResizeWindow
  <2>2. \A c \in Charts : Quieter(chart[c], [chart[c] EXCEPT !.sized = (c \in page.dygraphs)])
    BY QuietNow DEF Quieter, Marks
  <2>3. DOMAIN chart' = Charts /\ \A c \in Charts : Quieter(chart[c], chart'[c])
    BY <2>1, <2>2
  <2> QED
    BY <2>1, <2>3, QuietNow, FrameSound
<1>2. CASE PageEvent \/ \E c \in Charts : Scroll(c)
  BY <1>2, StandsStill DEF PageEvent, Scroll
<1> QED
  BY <1>1, <1>2, AbortAllSound, MouseSound DEF User

(* A step of somebody else keeps the invariant.                            *)
LEMMA StutterSound ==
  ASSUME Inv, UNCHANGED vars
  PROVE  Inv'
  BY StandsStill DEF vars

(* The invariant of the charts engine holds in every reachable state:      *)
(* marks, requests and the shared selection agree.                         *)
THEOREM ChartsInv == Spec => []Inv
<1>1. Inv /\ [Next]_vars => Inv'
  BY RefresherSound, TimersSound, NetworkSound, UserSound, StutterSound DEF Next
<1> QED
  BY <1>1, InitSound, PTL DEF Spec

(* NothingIsStuck: for any number of charts, and whatever is answered,     *)
(* fails, is hidden, panned or aborted in whatever order, a chart marked   *)
(* busy has the request that will free it (running, fetching_data).        *)
THEOREM ChartsNotStuck == Spec => []NothingIsStuck
<1>1. Inv => NothingIsStuck
  BY NowShaped DEF Inv, Sound, NothingIsStuck
<1> QED
  BY <1>1, ChartsInv, PTL

(* SelectionIsShared: a selected chart is always one that                  *)
(* globalSelectionSync knows and will clear.                               *)
THEOREM ChartsShareSelection == Spec => []SelectionIsShared
<1>1. Inv => SelectionIsShared
  BY NowShaped DEF Inv, Sound, Shared, SelectionIsShared
<1> QED
  BY <1>1, ChartsInv, PTL

-----------------------------------------------------------------------------
(* The timers of the refresher that are pending.                           *)
Loops == [tracked : BOOLEAN, plain : Nat, loading : Nat]

(* The invariant of the refresher's timers.                                *)
LoopsInv == loops \in Loops /\ RefresherLives

(* A timer that fires is one less.                                         *)
LEMMA FiredCounts == ASSUME loops \in Loops, NEW l \in Fired PROVE l \in Loops
<1>1. CASE loops.tracked /\ l = [loops EXCEPT !.tracked = FALSE]
  BY <1>1 DEF Loops
<1>2. CASE loops.plain > 0 /\ l = [loops EXCEPT !.plain = @ - 1]
  <2>1. loops.plain \in Nat /\ loops.plain - 1 \in Nat
    BY <1>2 DEF Loops
  <2> QED
    BY <1>2, <2>1 DEF Loops
<1> QED
  BY <1>1, <1>2 DEF Fired

(* Setting the timer again leaves one pending.                             *)
LEMMA RearmLives ==
  ASSUME NEW l \in Loops
  PROVE  /\ Rearm(l) \in Loops
         /\ Rearm(l).tracked \/ Rearm(l).plain > 0 \/ Rearm(l).loading > 0
<1>1. CASE l.tracked
  <2>1. l.plain \in Nat /\ l.plain + 1 \in Nat /\ l.plain + 1 > 0
    BY DEF Loops
  <2> QED
    BY <1>1, <2>1 DEF Loops, Rearm
<1>2. CASE ~l.tracked
  BY <1>2 DEF Loops, Rearm
<1> QED
  BY <1>1, <1>2

(* Every way through chartRefresher sets a timer or hands over to a library*)
(* that will.                                                              *)
LEMMA RefresherLivesOn ==
  ASSUME LoopsInv, Refresher
  PROVE  LoopsInv'
<1>1. PICK l \in Fired : loops' \in {Rearm(l), [l EXCEPT !.plain = @ + 1],
                                    [l EXCEPT !.loading = @ + 1]}
  BY DEF Refresher, RefresherWaits, RefresherIdles, RefresherPauses, RefresherParsesDom,
         RefresherLoadsLibrary, RefresherDispatches, RefresherRests
<1>2. l \in Loops
  BY FiredCounts DEF LoopsInv
<1>3. ASSUME NEW m \in {[l EXCEPT !.plain = @ + 1], [l EXCEPT !.loading = @ + 1]}
      PROVE  m \in Loops /\ (m.tracked \/ m.plain > 0 \/ m.loading > 0)
  <2>1. /\ l.plain \in Nat /\ l.plain + 1 \in Nat /\ l.plain + 1 > 0
        /\ l.loading \in Nat /\ l.loading + 1 \in Nat /\ l.loading + 1 > 0
    BY <1>2 DEF Loops
  <2> QED
    BY <1>2, <1>3, <2>1 DEF Loops
<1>4. loops' \in Loops /\ (loops'.tracked \/ loops'.plain > 0 \/ loops'.loading > 0)
  BY <1>1, <1>2, <1>3, RearmLives
<1> QED
  BY <1>4 DEF LoopsInv, RefresherLives

(* Nobody else takes a timer away without setting one.                     *)
LEMMA OthersKeepLoops ==
  ASSUME LoopsInv, Timers \/ Network \/ User \/ UNCHANGED vars
  PROVE  LoopsInv'
<1>1. CASE loops' = loops
  BY <1>1 DEF LoopsInv, RefresherLives
<1>2. CASE \E ok \in BOOLEAN : LibraryArrives(ok)
  <2>1. loops.loading > 0 /\ loops' = [loops EXCEPT !.loading = @ - 1, !.plain = @ + 1]
    BY <1>2 DEF LibraryArrives
  <2>2. /\ loops.plain + 1 \in Nat /\ loops.plain + 1 > 0 /\ loops.loading - 1 \in Nat
        /\ loops \in Loops
    BY <2>1 DEF LoopsInv, Loops
  <2> QED
    BY <2>1, <2>2 DEF LoopsInv, RefresherLives, Loops
<1>3. CASE loops' = Reschedule
  BY <1>3 DEF LoopsInv, RefresherLives, Loops, Reschedule
<1>4. CASE Timers
  BY <1>1, <1>4 DEF Timers, OnscrollUpdater, SyncSlaves, TimePasses, AutoRefresh, ComesDue,
                    ReportVisibility, IdleSwitch
<1>5. CASE Network
  BY <1>1, <1>2, <1>5, ZenonT(30) DEF Network, Answer, DataArrives, InfoArrives, DataRequestFails
<1>6. CASE User
  <2>1. ASSUME NEW c \in Charts, Mouse(c)
        PROVE  loops' = loops
    BY <2>1 DEF Mouse, Hover, Unhover, Reset, TouchStart, MouseDown, MouseMove, MouseUp,
                Wheel, Toolbox, TouchMove, TouchEnd, ResizeDrag
  <2> QED
    BY <1>1, <1>3, <1>6, <2>1 DEF User, ResizeWindow, PageEvent, AbortAll, Scroll
<1> QED
  BY <1>1, <1>4, <1>5, <1>6 DEF vars

(* RefresherLives: chartRefresher is always pending, for any number of     *)
(* loops in flight.                                                        *)
THEOREM ChartsRefresherLives == Spec => []RefresherLives
<1>1. Init => LoopsInv
  BY DEF Init, LoopsInv, RefresherLives, Loops
<1>2. LoopsInv /\ [Next]_vars => LoopsInv'
  BY RefresherLivesOn, OthersKeepLoops DEF Next
<1>3. LoopsInv => RefresherLives
  BY DEF LoopsInv
<1> QED
  BY <1>1, <1>2, <1>3, PTL DEF Spec
=============================================================================
