------------------------------ MODULE LogViewer ------------------------------
(***************************************************************************)
(* The log viewer of luci-app-log: a page that shows the end of a log,     *)
(* filtered and sorted, and follows it by polling a hash.  log-base.js     *)
(* holds the page; log-system.js reads the log of logd or syslog-ng, and   *)
(* dmesg.js the kernel's; log-widget.js fills the table.                   *)
(*                                                                         *)
(* An entry of the log is a record of the words its fields have; a field   *)
(* that its format lacks is None.  An external log only grows.             *)
(***************************************************************************)
EXTENDS Naturals, Sequences, FiniteSets, FiniteSetsExt, SequencesExt

CONSTANTS Entries,      \* what may be logged
          MaxLog,       \* bound: entries of the log
          Increment,    \* fastTailIncrement
          FirstTail,    \* tailValue, before anything is stored
          Forms,        \* what the user may enter into the filter settings
          Polls,        \* slots of automatic refreshes in flight
          Scenarios     \* the view, what the user does, how much of it, and failures

None == "none"
Unset == <<>>
Fields == {"time", "host", "facility", "level", "msg"}
(* What a view is: the format of its log, and whether it is refreshed      *)
(* automatically and may convert timestamps.                               *)
Formats == {"logd", "syslog_ng", "dmesg"}
Views == [format : Formats, auto : BOOLEAN, dates : BOOLEAN]
ASSUME LogAssumption ==
    /\ MaxLog \in Nat /\ Increment \in Nat /\ FirstTail \in Nat
    /\ Entries \subseteq [Fields -> SUBSET STRING \cup {{None}}]
    /\ \A f \in Forms : f.auto \in BOOLEAN /\ f.dates \in BOOLEAN
    /\ IsFiniteSet(Polls) /\ Polls \subseteq Nat \ {0}
    /\ Scenarios \subseteq [view : Views, does : SUBSET STRING, acts : Nat, fails : Nat]

VARIABLES
    log,        \* external: the entries, oldest first
    page,       \* the settings in force, the filters' widgets, lastHash
    form,       \* the values of the form, a sequence of one; Unset unless the modal is open
    stored,     \* localStorage
    shown,      \* the rows of the table, as positions in the log, and the error
    manual,     \* the call of a button
    autos,      \* automatic refreshes in flight
    poller,     \* external: LuCI's poll: on (queued), active (ticking), running
    latest,     \* history: what became of the call for the log that was sent last
    budget

vars == <<log, page, form, stored, shown, manual, autos, poller, latest, budget>>
Does(what) ==
    what \in budget.does /\ budget.acts > 0 /\ budget' = [budget EXCEPT !.acts = @ - 1]
Fails == budget.fails > 0 /\ budget' = [budget EXCEPT !.fails = @ - 1]

-----------------------------------------------------------------------------
(* From the log to the rows.                                               *)

(* The columns a log of a format has, once an entry of it has been read.   *)
Flags(format) == IF format = "syslog_ng" THEN {"time", "host"} ELSE {"time", "facility", "level"}

(* parseLogData(): the last tail of n entries; all of them for 0.          *)
ParseLogData(n, tail, sort) ==
    LET rows == [i \in 1..(IF tail > 0 /\ tail < n THEN tail ELSE n) |->
                    i + (IF tail > 0 /\ tail < n THEN n - tail ELSE 0)] IN
    IF sort = "desc" THEN Reverse(rows) ELSE rows

(* setStringFilter(), setRegexpFilter(): the entries that have, or for a   *)
(* pattern with an exclamation mark do not have, the word.  An entry       *)
(* without the field is dropped; an invalid expression filters nothing.    *)
Passes(e, field, p) ==
    \/ p.word = None \/ (p.re /\ ~p.valid)
    \/ e[field] # {None} /\ (p.word \in e[field]) # p.not

(* setFacilityFilter(), setLevelFilter(): none chosen is all.              *)
Chosen(e, field, values) == values = {} \/ e[field] \cap values # {}

Filter(rows, f, sections) ==
    SelectSeq(rows, LAMBDA i :
        /\ \A field \in {"time", "host", "msg"} : Passes(log[i], field, f[field])
        /\ \A field \in {"level", "facility"} :
              field \in sections => Chosen(log[i], field, f[field]))

(* The rows of reloadLog(), from the settings at the time of the reply.    *)
Rows(n, tail, f, sections) == Filter(ParseLogData(n, tail, f.sort), f, sections)

-----------------------------------------------------------------------------
(* Settings.                                                               *)

Keys == {"tail", "sort", "dates", "auto"}
Absent == [k \in Keys |-> Unset]
NoPattern == [word |-> None, re |-> FALSE, not |-> FALSE, valid |-> TRUE]

(* restoreSettingsFromLocalStorage() and load().  A value is a sequence  *)
(* of one, so that an absent one can be told from it.                      *)
Restore(st, view) ==
    [tail |-> IF st.tail = Unset THEN FirstTail ELSE st.tail[1],
     sort |-> IF st.sort = Unset THEN "asc" ELSE st.sort[1],
     dates |-> view.dates /\ st.dates # Unset /\ st.dates[1],
     auto |-> view.auto /\ (st.auto = Unset \/ st.auto[1])]

(* The settings of a page that has been loaded: no filter is set.          *)
Unfiltered(kept) ==
    [tail |-> kept.tail, sort |-> kept.sort, dates |-> kept.dates, auto |-> kept.auto,
     time |-> NoPattern, host |-> NoPattern, msg |-> NoPattern, level |-> {}, facility |-> {}]

(* saveSettingsToLocalStorage(): what differs from the settings in force.  *)
Save(st, old, new, view) ==
    [k \in Keys |->
        IF new[k] # old[k] /\ (k = "dates" => view.dates) /\ (k = "auto" => view.auto)
        THEN <<new[k]>> ELSE st[k]]

(* setFilterSettings(): the fields that the columns of the log allow.      *)
SetFilterSettings(old, new, sections, view) ==
    [old EXCEPT !.tail = new.tail, !.sort = new.sort, !.auto = new.auto, !.msg = new.msg,
                !.dates = IF view.dates /\ "time" \in sections THEN new.dates ELSE @,
                !.time = IF "time" \in sections THEN new.time ELSE @,
                !.host = IF "host" \in sections THEN new.host ELSE @,
                !.facility = IF "facility" \in sections THEN new.facility ELSE @,
                !.level = IF "level" \in sections THEN new.level ELSE @]

(* updateLog(): the tail of a refresh.                                     *)
UpdateTail ==
    LET tail == page.settings.tail IN
    IF tail = 0 \/ page.fast = 0 THEN 0 ELSE Max({tail, page.fast})

-----------------------------------------------------------------------------
(* Calls and what their replies do.                                        *)

NoCall == [kind |-> "none", state |-> "idle", n |-> 0, tail |-> 0]
Call(kind, tail) == [kind |-> kind, state |-> "sent", n |-> 0, tail |-> tail]
Serve(call) == [call EXCEPT !.n = Len(log), !.state = "served"]

(* A line of another format has no fields but the message: dmesg.js does   *)
(* not take it, log-system.js does, and finds its format by the others.    *)
Raw(i) == log[i].time = {None}
Slice(call) == ToSet(ParseLogData(call.n, call.tail, "asc"))
Readable(call) == budget.view.format = "dmesg" => \A i \in Slice(call) : ~Raw(i)
Throws(call) == call.kind \in {"data", "reload"} /\ call.state = "served" /\ ~Readable(call)
Found(call) == IF \E i \in Slice(call) : ~Raw(i) THEN Flags(budget.view.format) ELSE {}

(* reloadLog(), when the log has come: it is parsed, filtered and shown,   *)
(* and the widgets for columns that have been found are made.              *)
Shown(call) == Rows(call.n, call.tail, page.settings, page.sections)
Reloaded(p, call) == [p EXCEPT !.sections = @ \cup Found(call)]

(* History: the call for the log that was sent last is on its way, has     *)
(* come with a slice of the log, or is missing: it failed, or one sent     *)
(* before it has come with another slice or has emptied the table after    *)
(* it.  0 is the call of a button.                                         *)
Sent(by) == latest' = [latest EXCEPT !.by = by, !.state = "sent", !.slice = {}]
Ended(by, call, as, stopped) ==
    LET came == as = "came"
        last == latest.state = "sent"
        mine == last /\ latest.by = by
        spoils == ~last /\ IF came THEN Slice(call) # latest.slice ELSE shown' # shown IN
    latest' = [by |-> IF mine THEN 0 ELSE latest.by,
               state |-> IF mine THEN as ELSE IF spoils THEN "missing" ELSE latest.state,
               slice |-> IF mine /\ came THEN Slice(call) ELSE latest.slice,
               stopped |-> stopped]

-----------------------------------------------------------------------------
(* Automatic refreshes: pollFunc(), which LuCI does not call again before  *)
(* it has ended.                                                           *)

Released(i) == /\ autos' = [autos EXCEPT ![i] = NoCall]
               /\ poller' = [poller EXCEPT !.running = IF @ = i THEN 0 ELSE @]

PollTick(i) ==
    /\ poller.on /\ poller.active /\ poller.running = 0 /\ autos[i] = NoCall
    /\ autos' = [autos EXCEPT ![i] = Call("hash", 1)]
    /\ poller' = [poller EXCEPT !.running = i]
    /\ UNCHANGED <<log, page, form, stored, shown, manual, latest, budget>>

ServeAuto(i) ==
    /\ autos[i].state = "sent"
    /\ autos' = [autos EXCEPT ![i] = Serve(@)]
    /\ UNCHANGED <<log, page, form, stored, shown, manual, poller, latest, budget>>

HashArrives(i) ==
    /\ autos[i].kind = "hash" /\ autos[i].state = "served"
    /\ IF <<autos[i].n>> = page.hash
       THEN Released(i) /\ UNCHANGED <<page, latest>>
       ELSE /\ page' = [page EXCEPT !.hash = <<autos[i].n>>]
            /\ autos' = [autos EXCEPT ![i] = Call("data", UpdateTail)]
            /\ Sent(i)
            /\ UNCHANGED poller
    /\ UNCHANGED <<log, form, stored, shown, manual, budget>>

DataArrives(i) ==
    /\ autos[i].kind = "data" /\ autos[i].state = "served" /\ Readable(autos[i])
    /\ shown' = Shown(autos[i])
    /\ page' = Reloaded(page, autos[i])
    /\ Released(i) /\ Ended(i, autos[i], "came", latest.stopped)
    /\ UNCHANGED <<log, form, stored, manual, budget>>

(* A call fails, or its log cannot be read, which is found out when the    *)
(* table has been emptied; the hash is kept all the same.                  *)
AutoFails(i) ==
    /\ autos[i] # NoCall
    /\ \/ Throws(autos[i]) /\ shown' = <<>> /\ UNCHANGED budget
       \/ Fails /\ UNCHANGED shown
    /\ Released(i)
    /\ IF autos[i].kind = "data" THEN Ended(i, autos[i], "missing", latest.stopped) ELSE UNCHANGED latest
    /\ UNCHANGED <<log, page, form, stored, manual>>

-----------------------------------------------------------------------------
(* The buttons.  They are disabled, and the poll is stopped, while the     *)
(* call of one is in flight.                                               *)

Ready == ~page.disabled /\ form = Unset
(* poll.stop() does nothing to a poll without functions to call.           *)
Stopped(p) == [p EXCEPT !.active = @ /\ ~p.on]

(* reloadLog() up to the call.                                             *)
Reload(p, tail) ==
    /\ manual' = Call("reload", tail) /\ Sent(0)
    /\ page' = [p EXCEPT !.disabled = TRUE]

Refresh ==
    /\ Ready /\ ~page.settings.auto /\ Does("reload")
    /\ Reload(page, UpdateTail)
    /\ poller' = Stopped(poller)
    /\ UNCHANGED <<log, form, stored, shown, autos>>

MoreEntries ==
    LET fast == IF page.fast > 0 THEN page.fast + Increment ELSE page.fast IN
    /\ Ready /\ page.fast <= MaxLog /\ Does("reload")
    /\ Reload([page EXCEPT !.fast = fast], fast)
    /\ poller' = Stopped(poller)
    /\ UNCHANGED <<log, form, stored, shown, autos>>

AllEntries ==
    /\ Ready /\ Does("reload")
    /\ Reload([page EXCEPT !.fast = 0], 0)
    /\ poller' = Stopped(poller)
    /\ UNCHANGED <<log, form, stored, shown, autos>>

DownloadLog ==
    /\ Ready /\ Does("download")
    /\ manual' = Call("download", 0)
    /\ page' = [page EXCEPT !.disabled = TRUE]
    /\ UNCHANGED <<log, form, stored, shown, autos, poller, latest>>

ServeManual ==
    /\ manual.state = "sent"
    /\ manual' = Serve(manual)
    /\ UNCHANGED <<log, page, form, stored, shown, autos, poller, latest, budget>>

(* ReloadArrives that leaves the poll stopped.                             *)
ReloadArrivesStopped ==
    /\ manual.kind = "reload" /\ manual.state = "served" /\ Readable(manual)
    /\ shown' = Shown(manual)
    /\ page' = [Reloaded(page, manual) EXCEPT !.disabled = FALSE]
    /\ manual' = NoCall /\ form' = Unset /\ Ended(0, manual, "came", FALSE)
    /\ UNCHANGED <<log, stored, autos, budget, poller>>

ReloadArrives ==
    /\ manual.kind = "reload" /\ manual.state = "served" /\ Readable(manual)
    /\ shown' = Shown(manual)
    /\ page' = [Reloaded(page, manual) EXCEPT !.disabled = FALSE]
    /\ manual' = NoCall /\ form' = Unset /\ Ended(0, manual, "came", FALSE)
    /\ poller' = [poller EXCEPT !.active = TRUE]
    /\ UNCHANGED <<log, stored, autos, budget>>

(* ManualFails without the finally.                                        *)
ManualHangs ==
    /\ manual # NoCall /\ Fails
    /\ manual' = NoCall
    /\ UNCHANGED <<log, page, form, stored, shown, autos, poller, latest>>

(* Without an answer the buttons and the modal are cleared up; the poll    *)
(* stays stopped.                                                          *)
ManualFails ==
    /\ manual # NoCall
    /\ \/ Throws(manual) /\ shown' = <<>> /\ UNCHANGED budget
       \/ Fails /\ UNCHANGED shown
    /\ page' = [page EXCEPT !.disabled = FALSE]
    /\ form' = IF manual.kind = "reload" THEN Unset ELSE form
    /\ manual' = NoCall
    /\ IF manual.kind = "reload" THEN Ended(0, manual, "missing", TRUE) ELSE UNCHANGED latest
    /\ UNCHANGED <<log, stored, autos, poller>>

DownloadArrives ==
    /\ manual.kind = "download" /\ manual.state = "served"
    /\ page' = [page EXCEPT !.disabled = FALSE]
    /\ manual' = NoCall
    /\ UNCHANGED <<log, form, stored, shown, autos, poller, latest, budget>>

-----------------------------------------------------------------------------
(* The filter settings: filterSettingsModal().                             *)

OpenModal ==
    /\ Ready /\ Does("modal")
    /\ form' = <<page.settings>>
    /\ UNCHANGED <<log, page, stored, shown, manual, autos, poller, latest>>

(* The user fills the widgets that are there.                              *)
EditForm(f) ==
    /\ form # Unset /\ ~page.disabled
    /\ form' = <<[form[1] EXCEPT
           !.tail = f.tail, !.sort = f.sort, !.msg = f.msg,
           !.auto = IF budget.view.auto THEN f.auto ELSE @,
           !.dates = IF budget.view.dates /\ "time" \in page.sections THEN f.dates ELSE @,
           !.time = IF "time" \in page.sections THEN f.time ELSE @,
           !.host = IF "host" \in page.sections THEN f.host ELSE @,
           !.level = IF "level" \in page.sections THEN f.level ELSE @,
           !.facility = IF "facility" \in page.sections THEN f.facility ELSE @]>>
    /\ form' # form
    /\ UNCHANGED <<log, page, stored, shown, manual, autos, poller, latest, budget>>

Dismiss ==
    /\ form # Unset
    /\ form' = Unset
    /\ UNCHANGED <<log, page, stored, shown, manual, autos, poller, latest, budget>>

(* Apply that takes the settings over before it compares them.             *)
ApplyThenSave ==
    LET settings == SetFilterSettings(page.settings, form[1], page.sections, budget.view) IN
    /\ form # Unset /\ ~page.disabled
    /\ stored' = Save(stored, settings, form[1], budget.view)
    /\ Reload([page EXCEPT !.settings = settings, !.fast = settings.tail], settings.tail)
    /\ UNCHANGED <<log, form, shown, budget, autos, poller>>

(* onSubmitFilter().  poll.add() starts a poll that had nothing to do, so  *)
(* that a refresh may be on its way when reloadLog() stops it.             *)
Apply ==
    LET settings == SetFilterSettings(page.settings, form[1], page.sections, budget.view)
        starts == settings.auto /\ budget.view.auto /\ ~poller.on /\ poller.active IN
    /\ form # Unset /\ ~page.disabled
    /\ stored' = Save(stored, page.settings, form[1], budget.view)
    /\ Reload([page EXCEPT !.settings = settings, !.fast = settings.tail], settings.tail)
    /\ \E i \in Polls :
          /\ autos[i] = NoCall
          /\ autos' = IF starts THEN [autos EXCEPT ![i] = Call("hash", 1)] ELSE autos
          /\ poller' = [on |-> settings.auto, active |-> poller.active /\ ~settings.auto,
                        running |-> IF starts THEN i
                                    ELSE IF settings.auto /\ poller.on THEN poller.running ELSE 0]
    /\ UNCHANGED <<log, form, shown, budget>>

-----------------------------------------------------------------------------
(* History: what a page that has been loaded shows has come.               *)
AsLoaded(call) == [by |-> 0, state |-> "came", slice |-> Slice(call), stopped |-> FALSE]

(* The page is loaded: load() and render(), with no filter set.            *)
Loaded(st, view) ==
    LET kept == Restore(st, view)
        call == Serve(Call("load", kept.tail)) IN
    /\ Readable(call)
    /\ page' = [settings |-> Unfiltered(kept), fast |-> kept.tail, sections |-> Found(call),
                hash |-> Unset, disabled |-> FALSE]
    /\ shown' = ParseLogData(call.n, call.tail, kept.sort)
    /\ poller' = [on |-> kept.auto, active |-> TRUE, running |-> 0]
    /\ latest' = AsLoaded(call)

Visit ==
    /\ Does("visit")
    /\ Loaded(stored, budget.view)
    /\ form' = Unset /\ manual' = NoCall /\ autos' = [i \in Polls |-> NoCall]
    /\ UNCHANGED <<log, stored>>

Logged(e) ==
    /\ Len(log) < MaxLog /\ Does("log")
    /\ log' = Append(log, e)
    /\ UNCHANGED <<page, form, stored, shown, manual, autos, poller, latest>>

-----------------------------------------------------------------------------
Init ==
    /\ budget \in Scenarios
    /\ \E first \in {<<>>} \cup {<<e>> : e \in {f \in Entries : f.time # {None}}} :
          /\ budget.view.format = "dmesg" => first # <<>>
          /\ log = first
    /\ stored = Absent /\ form = Unset /\ manual = NoCall /\ autos = [i \in Polls |-> NoCall]
    /\ page = [settings |-> Unfiltered(Restore(Absent, budget.view)), fast |-> FirstTail,
               sections |-> Found(Serve(Call("load", FirstTail))), hash |-> Unset,
               disabled |-> FALSE]
    /\ shown = ParseLogData(Len(log), FirstTail, "asc")
    /\ poller = [on |-> budget.view.auto, active |-> TRUE, running |-> 0]
    /\ latest = AsLoaded(Serve(Call("load", FirstTail)))

AutoStep(i) == PollTick(i) \/ ServeAuto(i) \/ HashArrives(i) \/ DataArrives(i) \/ AutoFails(i)
Answer == ServeManual \/ ReloadArrives \/ DownloadArrives \/ ManualFails
User == \/ Refresh \/ MoreEntries \/ AllEntries \/ DownloadLog
        \/ OpenModal \/ Dismiss \/ Apply \/ \E f \in Forms : EditForm(f)
Next == \/ \E i \in Polls : AutoStep(i)
        \/ Answer \/ User \/ Visit
        \/ \E e \in Entries : Logged(e)

(* LuCI polls, and every call is answered or fails.                        *)
Fairness == /\ WF_vars(Answer)
            /\ \A i \in Polls : WF_vars(AutoStep(i))
Spec == Init /\ [][Next]_vars /\ Fairness

-----------------------------------------------------------------------------
(* The settings a new visit restores are those in force now, whatever was  *)
(* applied, dismissed or left as it was before (saveSettingsToLocalStorage *)
(* stores only what changes).                                              *)
SettingsAreKept ==
    LET kept == Restore(stored, budget.view) IN \A k \in Keys : kept[k] = page.settings[k]

(* The buttons are enabled again however a call ends (finally in reloadLog *)
(* and downloadLog).                                                       *)
ButtonsComeBack == page.disabled ~> ~page.disabled

(* The view follows the log: with automatic refresh left on, it comes to   *)
(* show those of the last entries asked for that pass the filters, in the  *)
(* order chosen, whatever calls were in flight together and with whatever  *)
(* settings they were sent (pollFunc, reloadLog, updateLog).  The          *)
(* exceptions are the two ways in which nothing tells the page that it     *)
(* must ask again: the call sent last for the log has failed or its log    *)
(* cannot be read, or one sent before it has come after it with another    *)
(* slice of the log; or the call of a button has failed, which leaves the  *)
(* poll stopped.                                                           *)
Followed == page.settings.auto /\ latest.state # "missing" /\ ~latest.stopped
Wanted(i) ==
    LET f == page.settings IN
    /\ UpdateTail > 0 => i > Len(log) - UpdateTail
    /\ \A field \in {"time", "host", "msg"} : Passes(log[i], field, f[field])
    /\ \A field \in {"level", "facility"} \cap page.sections : Chosen(log[i], field, f[field])
UpToDate ==
    /\ ToSet(shown) = {i \in DOMAIN log : Wanted(i)}
    /\ \A m, n \in DOMAIN shown :
          m < n => IF page.settings.sort = "asc" THEN shown[m] < shown[n] ELSE shown[n] < shown[m]
LogIsFollowed == <>[]Followed => <>[]UpToDate
=============================================================================
