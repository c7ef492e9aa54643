----------------------------- MODULE StatusGraphs -----------------------------
(***************************************************************************)
(* The pages of luci-app-cpu-status and luci-app-temp-status: two pages    *)
(* that plot readings against time (cpu.js, temperature.js), and two       *)
(* sections of the status overview that show the latest reading in a table *)
(* the user can arrange (18_cpu.js, 27_temperature.js).  A page is asked   *)
(* for readings by LuCI's poll, which calls it again only when it has      *)
(* finished.  Of a reading the model keeps the time at which it was taken  *)
(* and its number of rows.  The clock of the browser goes forward.         *)
(***************************************************************************)
EXTENDS Naturals, Sequences, FiniteSets, FiniteSetsExt

CONSTANTS Cores,        \* the cores the machine can have online
          Sensors,      \* the temperature sensors, by number
          BufferSize,   \* dataBufferSize, tempBufferSize
          Wanted,       \* data_wanted: the readings a graph has room for
          MaxReads,     \* bound: readings of one page
          MaxActs,      \* bound: clicks, reloads, other tabs, cores coming and going
          Pages         \* the page a behaviour opens

ASSUME GraphsAssumption ==
    /\ IsFiniteSet(Cores) /\ Cores # {} /\ Sensors \subseteq Nat
    /\ BufferSize \in Nat \ {0, 1} /\ Wanted \in Nat \ {0}
    /\ MaxReads \in Nat /\ MaxActs \in Nat
    /\ Pages \subseteq {"cpu", "temperature", "cpu table", "temperature table"}

VARIABLES
    page,       \* the page that is open
    online,     \* the cores that are online
    clock,      \* the number of readings asked for
    last,       \* rows of lastStatArray, 0 for null
    buffer,     \* CPUDevices, tempSources: the readings kept of every device
    graph,      \* graphPolls: the window of values of every device that has a tab
    table,      \* a section of the overview
    stored,     \* localStorage
    acts,       \* what the bound leaves of the user's and the machine's acts
    seen        \* history: every reading a device was given, what the user asked for

vars == <<page, online, clock, last, buffer, graph, table, stored, acts, seen>>

Gap == 0        \* NaN
Modes == 0..3   \* availableViewModes
NoChoice == 4

(* parseProcData(): one row for each core and one for their total, and     *)
(* only that one if there is a single core.                                *)
Rows == IF Cardinality(online) = 1 THEN 1 ELSE Cardinality(online) + 1

Devices == 1..(Cardinality(Cores) + 1) \cup Sensors

(* What a reading of the page has rows for.                                *)
Given == IF page = "cpu" THEN 1..Rows ELSE Sensors

(* calcCPULoad() takes row i from row i of the last reading, and fails if  *)
(* that one had fewer.                                                     *)
Throws == page \in {"cpu", "cpu table"} /\ last # 0 /\ Rows > last

-----------------------------------------------------------------------------
(* The graphs.                                                             *)

LastOf(s, n) == IF Len(s) <= n THEN s ELSE SubSeq(s, Len(s) - n + 1, Len(s))

Keep(b, at) == LastOf(Append(b, at), BufferSize)

Push(b) == [k \in DOMAIN b \cup Given |->
              IF k \notin Given THEN b[k]
              ELSE Keep(IF k \in DOMAIN b THEN b[k] ELSE <<>>, clock + 1)]

(* NewEntries() that takes what has been plotted for new.                  *)
AllEntries(g, b) == SubSeq(b, IF g.timestamp = 0 THEN 2 ELSE 1, Len(b))

(* pollData(): the first reading of all is passed over, and so is every    *)
(* entry that is not newer than the last one plotted.  As the clock goes   *)
(* forward, the newer ones are the last.                                   *)
NewEntries(g, b) ==
    LET newer == { i \in DOMAIN b : b[i] > g.timestamp /\ (g.timestamp = 0 => i > 1) } IN
    IF newer = {} THEN <<>> ELSE SubSeq(b, Min(newer), Len(b))

Plot(g, b) ==
    LET new == NewEntries(g, b) IN
    [values |-> LastOf(g.values \o new, Wanted),
     timestamp |-> IF new = <<>> THEN g.timestamp ELSE new[Len(new)]]

(* updateGraph(): a tab with a window of empty values.                     *)
NewGraph == [values |-> [i \in 1..Wanted |-> Gap], timestamp |-> 0]

PlotAll(b) == [k \in DOMAIN graph |-> IF k \in DOMAIN b THEN Plot(graph[k], b[k]) ELSE graph[k]]

Reading == [k \in DOMAIN seen.readings |->
              IF k \in Given THEN Append(seen.readings[k], clock + 1) ELSE seen.readings[k]]

Reads == page \in {"cpu", "temperature"} /\ clock < MaxReads
Took == clock' = clock + 1

(* load() and render().  Only the temperature page gives up when its first *)
(* reading fails; the CPU page is shown without tabs.                      *)
Load ==
    /\ Reads /\ clock = 0 /\ Took
    /\ buffer' = Push(buffer) /\ graph' = [k \in Given |-> NewGraph]
    /\ last' = IF page = "cpu" THEN Rows ELSE 0
    /\ seen' = [seen EXCEPT !.readings = Reading]
    /\ UNCHANGED <<page, online, table, stored, acts>>

LoadFails ==
    /\ Reads /\ clock = 0 /\ page = "cpu" /\ Took
    /\ UNCHANGED <<page, online, last, buffer, graph, table, stored, acts, seen>>

Poll ==
    /\ Reads /\ clock > 0 /\ ~Throws /\ Took
    /\ buffer' = Push(buffer) /\ graph' = PlotAll(buffer')
    /\ last' = IF page = "cpu" THEN Rows ELSE 0
    /\ seen' = [seen EXCEPT !.readings = Reading]
    /\ UNCHANGED <<page, online, table, stored, acts>>

(* A poll that gets no answer: the CPU page plots what it has.             *)
PollFails ==
    /\ Reads /\ clock > 0 /\ Took
    /\ graph' = IF page = "cpu" THEN PlotAll(buffer) ELSE graph
    /\ UNCHANGED <<page, online, last, buffer, table, stored, acts, seen>>

(* calcCPULoad() throws: nothing is kept of the reading, and lastStatArray *)
(* stays as short as it was.                                               *)
PollThrows ==
    /\ Reads /\ clock > 0 /\ Throws /\ Took
    /\ UNCHANGED <<page, online, last, buffer, graph, table, stored, acts, seen>>

CoresChange ==
    /\ acts > 0 /\ acts' = acts - 1 /\ page \in {"cpu", "cpu table"}
    /\ \E now \in SUBSET Cores : now # {} /\ now # online /\ online' = now
    /\ UNCHANGED <<page, clock, last, buffer, graph, table, stored, seen>>

-----------------------------------------------------------------------------
(* The sections of the overview.                                           *)

NewTable == [asked |-> FALSE, rendered |-> FALSE, sensors |-> FALSE, hidden |-> {},
             rows |-> {}, mode |-> 0, shown |-> 0, modes |-> Modes]

(* restoreSettingsFromLocalStorage(): an empty list counts as none.        *)
Restore(t) ==
    [t EXCEPT !.hidden = IF stored.hidden = {} THEN @ ELSE stored.hidden,
              !.mode = IF stored.mode = NoChoice THEN @ ELSE stored.mode]

(* makeTempTableContent()                                                  *)
MakeTempTable(t) == [t EXCEPT !.rows = Sensors \ t.hidden]

IsTable == page \in {"cpu table", "temperature table"}

AskForTable ==
    /\ IsTable /\ ~table.asked /\ clock < MaxReads /\ Took
    /\ table' = [Restore(table) EXCEPT !.asked = TRUE]
    /\ UNCHANGED <<page, online, last, buffer, graph, stored, acts, seen>>

RenderTemperature(ok) ==
    LET t == [table EXCEPT !.asked = FALSE, !.sensors = @ \/ ok] IN
    /\ page = "temperature table" /\ table.asked
    /\ table' = IF t.sensors THEN [MakeTempTable(t) EXCEPT !.rendered = TRUE] ELSE t
    /\ UNCHANGED <<page, online, clock, last, buffer, graph, stored, acts, seen>>

(* viewModeSelectFunc() fails on a mode that is not available any more.    *)
Unlisted == Rows # 1 /\ table.mode \notin table.modes

(* With a single core the modes for each core are taken away for good.     *)
RenderCPU ==
    LET modes == IF Rows = 1 THEN table.modes \ {2, 3} ELSE table.modes
        mode == IF Rows = 1 /\ table.mode > 1 THEN 0 ELSE table.mode IN
    /\ page = "cpu table" /\ table.asked /\ ~Throws /\ ~Unlisted
    /\ table' = [table EXCEPT !.asked = FALSE, !.rendered = TRUE,
                              !.modes = modes, !.mode = mode, !.shown = mode]
    /\ last' = Rows
    /\ UNCHANGED <<page, online, clock, buffer, graph, stored, acts, seen>>

(* No answer, or render() throws: what is on the page stays.               *)
RenderNothing(ok) ==
    /\ page = "cpu table" /\ table.asked /\ (ok => Throws \/ Unlisted)
    /\ table' = [table EXCEPT !.asked = FALSE]
    /\ UNCHANGED <<page, online, clock, last, buffer, graph, stored, acts, seen>>

(* What was chosen last; a choice that was repeated may hide another.      *)
Lasting == seen.before \cup ({seen.chosen} \ {NoChoice})

Acts == IsTable /\ acts > 0 /\ acts' = acts - 1

(* SaveMode() called once the mode has been set.                           *)
SaveModeLate(v) == stored.mode

(* saveSettingsToLocalStorage(), which must still see the mode before.     *)
SaveMode(v) == IF table.mode # v THEN v ELSE stored.mode

(* viewModeSelectFunc() upon a click.  The history has every click, and    *)
(* what was chosen before a click on the mode that was in force already.   *)
SelectMode(v) ==
    /\ page = "cpu table" /\ table.rendered /\ v \in table.modes /\ Acts
    /\ table' = [table EXCEPT !.mode = v, !.shown = v]
    /\ stored' = [stored EXCEPT !.mode = SaveMode(v)]
    /\ seen' = [seen EXCEPT !.chosen = v, !.before = IF v = table.mode THEN Lasting ELSE {}]
    /\ UNCHANGED <<page, online, clock, last, buffer, graph>>

HideItem(s) ==
    LET hidden == table.hidden \cup {s} IN
    /\ page = "temperature table" /\ table.rendered /\ s \in table.rows /\ Acts
    /\ table' = MakeTempTable([table EXCEPT !.hidden = hidden])
    /\ stored' = [stored EXCEPT !.hidden = hidden]
    /\ seen' = [seen EXCEPT !.hid = @ \cup {s}]
    /\ UNCHANGED <<page, online, clock, last, buffer, graph>>

UnhideAllItems ==
    /\ page = "temperature table" /\ table.rendered /\ Acts
    /\ table' = MakeTempTable([table EXCEPT !.hidden = {}])
    /\ stored' = [stored EXCEPT !.hidden = {}]
    /\ seen' = [seen EXCEPT !.hid = {}]
    /\ UNCHANGED <<page, online, clock, last, buffer, graph>>

(* The overview is opened anew: objects of the page start from nothing.    *)
Reload ==
    /\ Acts /\ table' = NewTable /\ last' = 0
    /\ UNCHANGED <<page, online, clock, buffer, graph, stored, seen>>

(* The overview in another tab stores what was chosen there.               *)
OtherTab ==
    /\ Acts
    /\ \/ /\ page = "cpu table"
          /\ \E v \in Modes :
                /\ stored' = [stored EXCEPT !.mode = v]
                /\ seen' = [seen EXCEPT !.chosen = NoChoice, !.before = {v}]
       \/ /\ page = "temperature table"
          /\ \E h \in SUBSET Sensors : stored' = [stored EXCEPT !.hidden = h]
          /\ seen' = [seen EXCEPT !.hid = {}]
    /\ UNCHANGED <<page, online, clock, last, buffer, graph, table>>

-----------------------------------------------------------------------------
Init ==
    /\ page \in Pages /\ online \in (SUBSET Cores) \ {{}}
    /\ clock = 0 /\ last = 0 /\ acts = MaxActs
    /\ buffer = [k \in {} |-> <<>>] /\ graph = [k \in {} |-> NewGraph]
    /\ table = NewTable /\ stored = [hidden |-> {}, mode |-> NoChoice]
    /\ seen = [readings |-> [k \in Devices |-> <<>>], hid |-> {},
               chosen |-> NoChoice, before |-> {}]

Next ==
    \/ Load \/ LoadFails \/ Poll \/ PollFails \/ PollThrows \/ CoresChange
    \/ AskForTable \/ RenderCPU
    \/ \E ok \in BOOLEAN : RenderTemperature(ok) \/ RenderNothing(ok)
    \/ \E v \in Modes : SelectMode(v)
    \/ \E s \in Sensors : HideItem(s)
    \/ UnhideAllItems \/ Reload \/ OtherTab

Spec == Init /\ [][Next]_vars

(* A graph shows the latest readings its device was given, each of them    *)
(* once and in their order, however many polls failed or threw between     *)
(* them and however cores came and went; only the very first reading,      *)
(* which has nothing to be compared with, is left out.  The window is the  *)
(* end of the empty one and all that came after it (pollData in cpu.js and *)
(* temperature.js).                                                        *)
Window(record) == LastOf(NewGraph.values \o record, Wanted)
WindowIsTheRecord ==
    \A k \in DOMAIN graph :
        seen.readings[k] # <<>> => graph[k].values = Window(Tail(seen.readings[k]))

(* What the user arranged stays arranged, over polls, failures and reloads *)
(* of the overview, until he changes it or another tab stores its own: a   *)
(* sensor he hid does not come back, and the mode he clicked last is the   *)
(* one shown (27_temperature.js, 18_cpu.js).  There are two exceptions.    *)
(* With a single core the first mode stands for one it does not have.  And *)
(* a click on the mode in force is not stored, so that it does not replace *)
(* what another tab has stored meanwhile, nor what the user had chosen     *)
(* before a single core put the first mode in its place: that may return.  *)
ChoicesAreKept ==
    table.rendered /\ IsTable =>
        /\ seen.hid \cap table.rows = {}
        /\ seen.chosen # NoChoice =>
              table.shown \in Lasting \/ (table.shown = 0 /\ ~(Lasting \subseteq table.modes))
=============================================================================
