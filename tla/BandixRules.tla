----------------------------- MODULE BandixRules -----------------------------
(***************************************************************************)
(* The device table of the bandix page and its settings dialog: the polls  *)
(* that fetch devices and rate-limit rules and render the table, sorting,  *)
(* the dialog of one device with its list of rules, adding and deleting a  *)
(* rule, and naming a device.                                              *)
(*                                                                         *)
(* A handler is a function from the state of the page (the record s) to    *)
(* the state it leaves.  The time of the week is two numbers, its day and  *)
(* its minute; the minutes that matter are 0..LastMinute, and Midnight is  *)
(* the "24:00" that a rule is stored with.                                 *)
(***************************************************************************)
EXTENDS BandixBase

CONSTANTS Names,        \* host names
          Forms,        \* what the user enters into the form of a rule
          Facts,        \* per device: its ip and the amounts it is sorted by
          Calls,        \* slots of calls in flight
          LastMinute    \* "23:59"

Midnight == LastMinute + 1
Days == 1..7
SortKeys == {"online", "lan_speed", "wan_speed", "lan_traffic", "wan_traffic"}
ASSUME RulesAssumption ==
    /\ LastMinute \in Nat /\ IsFiniteSet(Calls) /\ Calls \subseteq Nat \ {0}
    /\ Forms \subseteq [start : 0..LastMinute, end : 0..LastMinute,
                         days : (SUBSET Days) \ {{}}, tx : Nat, rx : Nat]
    /\ Facts \in [Devices -> [{"ip"} \cup SortKeys -> Nat]]

VARIABLES
    router,     \* external: names, rules, the devices it lists and those online
    clock,      \* day of the week and minute, as the browser tells them
    table,      \* what was last rendered, allScheduleRules, the sort order
    dialog,     \* the settings dialog and the dialogs over it
    list,       \* schedule-rules-list
    calls       \* ubus calls in flight

rulesVars == <<router, clock, table, dialog, list, calls>>
Now == [table |-> table, dialog |-> dialog, list |-> list, calls |-> calls, select |-> select]
Become(next) ==
    \E s \in {next} : /\ table' = s.table /\ dialog' = s.dialog /\ list' = s.list
                      /\ calls' = s.calls /\ select' = s.select

(* The form's 23:59 stands for the end of the day.                         *)
Stored(mac, form) ==
    [mac |-> mac, start |-> form.start, days |-> form.days, tx |-> form.tx, rx |-> form.rx,
     end |-> IF form.end = LastMinute THEN Midnight ELSE form.end]
Rules == {Stored(d, f) : d \in Devices, f \in Forms}

RulesOf(rules, mac) == {r \in rules : r.mac = mac}

IsRuleActive(r, day, minute) ==
    LET end == IF r.end = Midnight THEN LastMinute ELSE r.end IN
    /\ day \in r.days
    /\ IF r.start <= end THEN r.start <= minute /\ minute <= end
       ELSE r.start <= minute \/ minute <= end

(* The strictest limit of the rules in force; 0 is no limit.               *)
MergeActiveRulesLimits(active, way) ==
    LET limits == {r[way] : r \in active} \ {0} IN
    IF limits = {} THEN 0 ELSE Min(limits)

-----------------------------------------------------------------------------
(* The table.                                                              *)

Before(a, b, online, by, ascending) ==
    LET x == Facts[a] y == Facts[b] IN
    IF (a \in online) # (b \in online)
    THEN (a \in online) # (by = "online" /\ ascending)
    ELSE IF by # "online" /\ x[by] # y[by]
    THEN (x[by] < y[by]) = ascending
    ELSE x.ip < y.ip

SortDevices(devices, online, by, ascending) ==
    SetToSortSeq(devices, LAMBDA a, b : Before(a, b, online, by, ascending))

(* The cell of a row that counts the rules and tells the limits in force.  *)
RuleCell(own) ==
    LET active == {r \in own : IsRuleActive(r, clock.day, clock.minute)} IN
    [rules |-> own, tx |-> MergeActiveRulesLimits(active, "tx"),
     rx |-> MergeActiveRulesLimits(active, "rx")]

Row(mac, status, rules) ==
    [mac |-> mac, name |-> status.names[mac]] @@ RuleCell(RulesOf(rules, mac))

(* updateDeviceOptions() drops a choice that is no longer listed.          *)
UpdateDeviceOptions(s, listed) ==
    [s EXCEPT !.select = IF @ \in listed THEN @ ELSE All]

Render(s, status) ==
    LET chosen == IF s.select = All THEN status.listed ELSE status.listed \cap {s.select}
        order == SortDevices(chosen, status.online, s.table.by, s.table.ascending)
    IN  UpdateDeviceOptions(
            [s EXCEPT !.table.rows = [i \in DOMAIN order |->
                                        Row(order[i], status, s.table.all)],
                      !.table.rendered = TRUE],
            status.listed)

-----------------------------------------------------------------------------
(* Calls.                                                                  *)

Free == [kind |-> "free"]
Slot(s) == CHOOSE i \in Calls : s.calls[i] = Free
Room(n) == Cardinality({i \in Calls : calls[i] = Free}) >= n
(* Bound: one change is on its way to the router at a time.                *)
NoChange == \A i \in Calls : calls[i].kind \notin {"name", "add", "delete"}
Send(s, call) == [s EXCEPT !.calls[Slot(s)] = call @@ [state |-> "sent"]]
Release(s, i) == [s EXCEPT !.calls[i] = Free]

(* fetchAllScheduleRules(): one at a time.  for is the updateDeviceData()  *)
(* that waits for it, or Poll if the table is to be rendered after it.     *)
Poll == 0
FetchAllScheduleRules(s, for) ==
    IF s.table.loading THEN s
    ELSE Send([s EXCEPT !.table.loading = TRUE], [kind |-> "rules", for |-> for])

(* Promise.all of the status and the rules; the rules that another call is *)
(* fetching are not waited for.                                            *)
UpdateDeviceData(s, by) ==
    LET i == Slot(s) IN
    FetchAllScheduleRules(Send(s, [kind |-> "table", by |-> by, waits |-> ~s.table.loading]), i)

LoadScheduleRules(s) ==
    IF s.dialog.current = None THEN s
    ELSE Send([s EXCEPT !.list = [kind |-> "loading", of |-> None, rules |-> {}]],
              [kind |-> "list", for |-> s.dialog.current])

(* The router answers a call, which it may have changed its state for.     *)
Serve(i) ==
    LET c == calls[i]
        rules == CASE c.kind = "add" -> router.rules \cup {c.rule}
                   [] c.kind = "delete" -> router.rules \ {c.rule}
                   [] OTHER -> router.rules IN
    /\ c # Free /\ c.state = "sent"
    /\ router' = [router EXCEPT !.rules = rules,
                                !.names = IF c.kind = "name"
                                          THEN [@ EXCEPT ![c.mac] = c.name] ELSE @]
    /\ calls' = [calls EXCEPT ![i] =
                    [c EXCEPT !.state = "served"] @@
                    (IF c.kind = "table"
                     THEN [status |-> [names |-> router.names, listed |-> router.listed,
                                       online |-> router.online]]
                     ELSE IF c.kind \in {"rules", "list"} THEN [rules |-> rules]
                     ELSE <<>>)]
    /\ UNCHANGED <<clock, table, dialog, list, select, budget>>

(* The call fails, in the router or on the way to it.                      *)
Lose(i) ==
    /\ calls[i] # Free /\ calls[i].state = "sent" /\ Spend("fails")
    /\ calls' = [calls EXCEPT ![i].state = "failed"]
    /\ UNCHANGED <<router, clock, table, dialog, list, select>>

-----------------------------------------------------------------------------
(* Replies.                                                                *)

(* A table call is over when its status and the rules it waits for are in. *)
(* A status without devices leaves an error in the place of the table.     *)
TableArrives(i, readable) ==
    LET c == calls[i] IN
    /\ c.kind = "table" /\ c.state # "sent"
    /\ c.state = "failed" \/ ~c.waits
    /\ readable \/ c.state = "failed"
    /\ Become(IF c.state = "served" THEN Release(Render(Now, c.status), i)
              ELSE IF readable THEN Release(Now, i)
              ELSE [Release(Now, i) EXCEPT !.table.rows = <<>>])
    /\ UNCHANGED <<router, clock, budget>>

(* RulesArrive() whose failure leaves isScheduleRulesLoading set.          *)
RulesArriveOrHang(i) ==
    LET c == calls[i] IN
    /\ c.kind = "rules" /\ c.state # "sent"
    /\ Become([Release(Now, i) EXCEPT
           !.table.loading = (c.state = "failed"),
           !.table.all = IF c.state = "failed" THEN {} ELSE c.rules,
           !.calls = [j \in Calls |-> IF j = c.for /\ @[j].kind = "table"
                                     THEN [@[j] EXCEPT !.waits = FALSE] ELSE @[j]]])
    /\ UNCHANGED <<router, clock, budget>>

(* The rules of all devices arrive; a failure leaves none.                 *)
RulesArrive(i) ==
    LET c == calls[i]
        s == [Release(Now, i) EXCEPT
                 !.table.loading = FALSE,
                 !.table.all = IF c.state = "failed" THEN {} ELSE c.rules,
                 !.calls = [j \in Calls |->
                              IF j = c.for /\ @[j].kind = "table"
                              THEN [@[j] EXCEPT !.waits = FALSE] ELSE @[j]]] IN
    /\ c.kind = "rules" /\ c.state # "sent"
    /\ c.for # Poll \/ Room(1)
    /\ Become(IF c.for = Poll /\ s.table.rendered THEN UpdateDeviceData(s, "user") ELSE s)
    /\ UNCHANGED <<router, clock, budget>>

(* ListArrives() for the device the list was asked for.                    *)
ListArrivesAsAsked(i) ==
    LET c == calls[i] IN
    /\ c.kind = "list" /\ c.state = "served"
    /\ Become([Release(Now, i) EXCEPT
           !.list = [kind |-> "rules", of |-> c.for, rules |-> RulesOf(c.rules, c.for)]])
    /\ UNCHANGED <<router, clock, budget>>

(* The reply of loadScheduleRules() is for the device the dialog has now.  *)
(* Without one reading currentDevice.mac throws, and .catch says so.       *)
ListArrives(i) ==
    LET c == calls[i]
        mac == dialog.current
        shown == IF c.state = "failed" \/ mac = None
                 THEN [kind |-> "error", of |-> None, rules |-> {}]
                 ELSE [kind |-> "rules", of |-> mac, rules |-> RulesOf(c.rules, mac)] IN
    /\ c.kind = "list" /\ c.state # "sent"
    /\ Become([Release(Now, i) EXCEPT !.list = shown])
    /\ UNCHANGED <<router, clock, budget>>

(* .then and .catch of saving a name: the new name goes to the device the  *)
(* dialog has now; without one this throws and ends up in .catch.          *)
NameArrives(i) ==
    LET c == calls[i]
        s == [Release(Now, i) EXCEPT !.dialog.naming = FALSE] IN
    /\ c.kind = "name" /\ c.state # "sent" /\ Room(1)
    /\ Become(IF c.state = "failed" \/ dialog.current = None THEN s
              ELSE UpdateDeviceData([s EXCEPT !.dialog.known = c.name], "user"))
    /\ UNCHANGED <<router, clock, budget>>

(* .then and .catch of adding a rule.                                      *)
AddArrives(i) ==
    LET c == calls[i]
        s == [Release(Now, i) EXCEPT !.dialog.adding = FALSE] IN
    /\ c.kind = "add" /\ c.state # "sent" /\ Room(2)
    /\ Become(IF c.state = "failed" THEN s
              ELSE UpdateDeviceData(LoadScheduleRules([s EXCEPT !.dialog.form = FALSE]), "user"))
    /\ UNCHANGED <<router, clock, budget>>

DeleteArrives(i) ==
    LET c == calls[i] s == Release(Now, i) IN
    /\ c.kind = "delete" /\ c.state # "sent" /\ Room(2)
    /\ Become(IF c.state = "failed" THEN s
              ELSE UpdateDeviceData(LoadScheduleRules(s), "user"))
    /\ UNCHANGED <<router, clock, budget>>

-----------------------------------------------------------------------------
(* Polls and clicks.                                                       *)

(* A poll entry is not called again while its promise is pending.          *)
PollDevices ==
    /\ Runs("rules")
    /\ \A i \in Calls : calls[i].kind = "table" => calls[i].by # "poll"
    /\ Room(2)
    /\ Become(UpdateDeviceData(Now, "poll"))
    /\ UNCHANGED <<router, clock, budget>>

PollRules ==
    /\ \A i \in Calls : calls[i].kind = "rules" => calls[i].for # Poll
    /\ Does("poll") /\ Room(2)
    /\ Become(IF table.loading
              THEN IF table.rendered THEN UpdateDeviceData(Now, "user") ELSE Now
              ELSE FetchAllScheduleRules(Now, Poll))
    /\ UNCHANGED <<router, clock>>

(* A header: the same one turns the order round, another one sorts         *)
(* downwards.                                                              *)
SortBy(key) ==
    /\ table.rendered /\ Does("sort") /\ Room(2)
    /\ Become(UpdateDeviceData(
                  [Now EXCEPT !.table.by = key,
                              !.table.ascending = (table.by = key /\ ~table.ascending)],
                  "user"))
    /\ UNCHANGED <<router, clock>>

(* showRateLimitModal(): the Settings button of a row.                     *)
OpenDialog(n) ==
    LET row == table.rows[n] IN
    /\ n \in DOMAIN table.rows /\ ~dialog.open /\ Does("dialog") /\ Room(1)
    /\ Become(LoadScheduleRules(
                  [Now EXCEPT !.list = [kind |-> "none", of |-> None, rules |-> {}],
                              !.dialog.open = TRUE, !.dialog.shows = row.mac,
                              !.dialog.current = row.mac, !.dialog.known = row.name]))
    /\ UNCHANGED <<router, clock>>

(* hideRateLimitModal(): the device is forgotten when the dialog has faded *)
(* out, whatever it shows by then.                                         *)
CloseDialog ==
    /\ dialog.open /\ ~dialog.form /\ dialog.confirm = {}
    /\ dialog' = [dialog EXCEPT !.open = FALSE, !.shows = None, !.fading = @ + 1]
    /\ UNCHANGED <<router, clock, table, list, calls, select, budget>>

DialogFaded ==
    /\ dialog.fading > 0
    /\ dialog' = [dialog EXCEPT !.fading = @ - 1, !.current = None, !.known = None]
    /\ UNCHANGED <<router, clock, table, list, calls, select, budget>>

SaveHostname(name) ==
    /\ dialog.open /\ ~dialog.form /\ dialog.confirm = {} /\ ~dialog.naming
    /\ dialog.current # None /\ name # dialog.known
    /\ Does("name") /\ Room(1) /\ NoChange
    /\ Become(Send([Now EXCEPT !.dialog.naming = TRUE],
                   [kind |-> "name", mac |-> dialog.current, name |-> name]))
    /\ UNCHANGED <<router, clock>>

ShowAddRule ==
    /\ dialog.open /\ ~dialog.form /\ dialog.confirm = {} /\ dialog.current # None
    /\ Does("add")
    /\ dialog' = [dialog EXCEPT !.form = TRUE]
    /\ UNCHANGED <<router, clock, table, list, calls, select>>

CancelAddRule ==
    /\ dialog.form
    /\ dialog' = [dialog EXCEPT !.form = FALSE]
    /\ UNCHANGED <<router, clock, table, list, calls, select, budget>>

SaveRule(form) ==
    /\ dialog.form /\ ~dialog.adding /\ dialog.current # None /\ Room(1) /\ NoChange
    /\ Become(Send([Now EXCEPT !.dialog.adding = TRUE],
                   [kind |-> "add", rule |-> Stored(dialog.current, form)]))
    /\ UNCHANGED <<router, clock, budget>>

(* Delete in the list asks first; the list may be loaded again meanwhile.  *)
AskDelete(rule) ==
    /\ dialog.open /\ ~dialog.form /\ dialog.confirm = {}
    /\ list.kind = "rules" /\ rule \in list.rules /\ Does("delete")
    /\ dialog' = [dialog EXCEPT !.confirm = {rule}]
    /\ UNCHANGED <<router, clock, table, list, calls, select>>

Confirm(yes) ==
    LET s == [Now EXCEPT !.dialog.confirm = {}] IN
    /\ dialog.confirm # {} /\ Room(1) /\ NoChange
    /\ Become(IF yes THEN Send(s, [kind |-> "delete",
                                   rule |-> CHOOSE r \in dialog.confirm : TRUE])
              ELSE s)
    /\ UNCHANGED <<router, clock, budget>>

(* Devices come and go, and time passes.                                   *)
RouterChanges ==
    /\ Does("devices")
    /\ \/ \E d \in Devices : router' = [router EXCEPT !.listed = SymDiff(@, {d})]
       \/ \E d \in Devices : router' = [router EXCEPT !.online = SymDiff(@, {d})]
    /\ UNCHANGED <<clock, table, dialog, list, calls, select>>

ClockTicks ==
    /\ Does("time")
    /\ \E day \in Days, minute \in 0..LastMinute : clock' = [day |-> day, minute |-> minute]
    /\ UNCHANGED <<router, table, dialog, list, calls, select>>

-----------------------------------------------------------------------------
RulesInit ==
    /\ router \in [names : {[d \in Devices |-> CHOOSE n \in Names : TRUE]},
                    rules : {{Stored(d, CHOOSE f \in Forms : TRUE)} : d \in Devices},
                    listed : {Devices}, online : {Devices}]
    /\ clock = [day |-> 1, minute |-> 0]
    /\ table = [rows |-> <<>>, rendered |-> FALSE, all |-> {}, loading |-> FALSE,
                by |-> "online", ascending |-> FALSE]
    /\ dialog = [open |-> FALSE, shows |-> None, current |-> None, known |-> None,
                 fading |-> 0, form |-> FALSE, confirm |-> {}, naming |-> FALSE,
                 adding |-> FALSE]
    /\ list = [kind |-> "none", of |-> None, rules |-> {}]
    /\ calls = [i \in Calls |-> Free]

Reply(i) == \/ \E readable \in BOOLEAN : TableArrives(i, readable)
            \/ RulesArrive(i) \/ ListArrives(i)
            \/ NameArrives(i) \/ AddArrives(i) \/ DeleteArrives(i)

RulesUser ==
    \/ \E key \in SortKeys : SortBy(key)
    \/ \E n \in 1..Cardinality(Devices) : OpenDialog(n)
    \/ CloseDialog \/ ShowAddRule \/ CancelAddRule
    \/ \E name \in Names : SaveHostname(name)
    \/ \E form \in Forms : SaveRule(form)
    \/ \E rule \in Rules : AskDelete(rule)
    \/ \E yes \in BOOLEAN : Confirm(yes)

RulesNext ==
    \/ \E i \in Calls : Serve(i) \/ Lose(i) \/ Reply(i)
    \/ PollDevices \/ PollRules \/ DialogFaded \/ RouterChanges \/ ClockTicks \/ RulesUser

(* The browser polls and runs its timers, and every call is answered or    *)
(* fails.                                                                  *)
RulesFairness ==
    /\ WF_<<rulesVars, select, budget>>(PollDevices)
    /\ WF_<<rulesVars, select, budget>>(DialogFaded)
    /\ \A i \in Calls : /\ WF_<<rulesVars, select, budget>>(Serve(i))
                        /\ WF_<<rulesVars, select, budget>>(Reply(i))

(* Whatever is opened, closed and answered in whatever order: the rules    *)
(* listed in the dialog, and the one it asks to delete, are the rules of   *)
(* the device the dialog shows (loadScheduleRules, hideRateLimitModal).    *)
DialogKeepsToItsDevice ==
    dialog.open =>
        /\ dialog.current \in {None, dialog.shows}
        /\ list.kind = "rules" => list.of = dialog.shows
        /\ \A r \in dialog.confirm : r.mac = dialog.shows

(* When nothing fails any more the table comes to show, for the devices    *)
(* chosen, the rules the router has (updateDeviceData, every second).      *)
Current == /\ table.rows # <<>> \/ router.listed = {}
           /\ \A n \in DOMAIN table.rows :
                 table.rows[n].rules = RulesOf(router.rules, table.rows[n].mac)
TableShowsTheRules == Runs("rules") => <>[]Current
=============================================================================
