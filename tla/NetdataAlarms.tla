---------------------------- MODULE NetdataAlarms ----------------------------
(***************************************************************************)
(* Alarms (NETDATA.alarms of dashboard.js, alarmsUpdateModal() of main.js):*)
(* the page polls for those raised, fetches the log of what is new, and    *)
(* shows a notification of every entry that calls for one; the dialog      *)
(* lists all of them in families.  The server (external) raises alarms and *)
(* answers with what it knows at some moment while a request is on its way.*)
(***************************************************************************)
EXTENDS NetdataBase

CONSTANTS Alarms,       \* the alarms a server has: [name, chart, family, priority], the
                        \* chart known to the page by its "id" or "name" only, or not at all
          MaxLog        \* bound: entries of the log

Statuses == {"WARNING", "CRITICAL", "CLEAR", "REMOVED", "UNDEFINED"}
ASSUME AlarmsAssumption ==
    /\ MaxLog \in Nat
    /\ Alarms \subseteq [name : STRING, chart : {"id", "name", "none"},
                         family : STRING, priority : Nat]

VARIABLES
    alarms,     \* NETDATA.alarms: last_notification_id, first_notification_id, the poll and
                \* the log requests on their way, the notifications that wait, are
                \* shown or were lost with the page; what localStorage keeps
    listing,    \* the dialog of alarms, and the badge that counts
    log         \* the log of the server (external)

alarmsVars == <<alarms, listing, log>>

NewAlarms == [last |-> 0, first |-> 0, current |-> 0, poll |-> "timer", logs |-> {},
              waits |-> <<>>, shown |-> {}, lost |-> {}, granted |-> FALSE, kept |-> 0]
NewListing == [phase |-> "closed", badge |-> 0, families |-> <<>>, byName |-> TRUE]

(* An entry is updated when there is a later one of its alarm.             *)
IsUpdated(id, upto) == \E later \in id + 1..upto : log[later].alarm = log[id].alarm

StatusOf(alarm, upto) ==
    LET of == { id \in 1..upto : log[id].alarm = alarm } IN
    IF of = {} THEN "CLEAR" ELSE log[Max(of)].status
IsActive(status) == status \in {"WARNING", "CRITICAL"}

(* alarmsCallback(): the badge.                                            *)
AlarmsCallback(upto) == Cardinality({ a \in Alarms : IsActive(StatusOf(a, upto)) })

-----------------------------------------------------------------------------
(* The poll.                                                               *)

(* check_notifications().                                                  *)
CheckNotifications(a) == a.granted /\ a.current > a.last

(* update_forever(): once over a snapshot, it is not called again.         *)
UpdateForever ==
    /\ alarms.poll = "timer"
    /\ alarms' = [alarms EXCEPT !.poll = IF page.snapshot THEN "ended" ELSE "asked"]
    /\ UNCHANGED <<page, listing, log, budget>>

GetLog(a) == [after |-> a.last, sent |-> Len(log)]

(* get(), and the callback of update_forever(): the answer tells how far   *)
(* the log has come; a server without health checks ends the poll.         *)
ActiveArrives(ok, upto) ==
    /\ alarms.poll = "asked" /\ Fails(ok)
    /\ LET a == [alarms EXCEPT !.first = IF @ = 0 THEN upto ELSE @, !.current = upto] IN
       alarms' = IF ~ok THEN [alarms EXCEPT !.poll = "timer"]
                 ELSE [a EXCEPT !.poll = IF "unhealthy" \in budget.does THEN "ended" ELSE "timer",
                                !.logs = IF CheckNotifications(a) THEN @ \cup {GetLog(a)} ELSE @]
    /\ listing' = IF ok THEN [listing EXCEPT !.badge = AlarmsCallback(upto)] ELSE listing
    /\ UNCHANGED <<page, log>>

-----------------------------------------------------------------------------
(* The log, and the notifications.                                         *)

(* notify(): which entries are shown.  An alarm that is clear again is     *)
(* told only if it was raised in this session.                             *)
Notifies(id, upto) ==
    LET status == log[id].status IN
    /\ ~IsUpdated(id, upto)
    /\ \/ IsActive(status)
       \/ status = "CLEAR" /\ id >= alarms.first /\ log[id].old \notin {"UNDEFINED"}

(* The next log begins where the last poll said the log ends.              *)
LogArrivesFor(c, ok, upto) ==
    /\ c \in alarms.logs /\ Fails(ok)
    /\ LET new   == SetToSortSeq({ id \in c.after + 1..upto : id > alarms.last
                                                              /\ Notifies(id, upto) }, <)
           asked == [alarms EXCEPT !.logs = @ \ {c}]
       IN alarms' = IF ~ok \/ upto <= c.after THEN asked
                    ELSE [asked EXCEPT !.waits = @ \o new,
                                       !.last = alarms.current, !.kept = alarms.current]
    /\ UNCHANGED <<page, listing, log>>

(* notifyAll(): the new entries, oldest first, half a second apart; the    *)
(* last one of the answer is where the next log begins.                    *)
LogArrives(c, ok, upto) ==
    /\ c \in alarms.logs /\ Fails(ok)
    /\ LET new   == SetToSortSeq({ id \in c.after + 1..upto : id > alarms.last
                                                              /\ Notifies(id, upto) }, <)
           asked == [alarms EXCEPT !.logs = @ \ {c}]
       IN alarms' = IF ~ok \/ upto <= c.after THEN asked
                    ELSE [asked EXCEPT !.waits = @ \o new,
                                       !.last = upto, !.kept = upto]
    /\ UNCHANGED <<page, listing, log>>

(* The timer of a notification.                                            *)
NotificationIsShown(i) ==
    /\ i \in DOMAIN alarms.waits
    /\ alarms' = [alarms EXCEPT !.waits = RemoveAt(@, i), !.shown = @ \cup {alarms.waits[i]}]
    /\ UNCHANGED <<page, listing, log, budget>>

(* init(): the last entry shown is kept for the next load of the page;     *)
(* permission to notify is asked for.                                      *)
AlarmsLoadPage ==
    /\ alarms.granted /\ Does("reload")
    /\ alarms' = [NewAlarms EXCEPT !.last = alarms.kept, !.kept = alarms.kept,
                                   !.granted = TRUE, !.shown = alarms.shown,
                                   !.lost = alarms.lost \cup ToSet(alarms.waits)]
    /\ listing' = NewListing
    /\ UNCHANGED <<page, log>>
PermissionIsGranted ==
    /\ ~alarms.granted
    /\ alarms' = [alarms EXCEPT !.granted = TRUE]
    /\ UNCHANGED <<page, listing, log, budget>>

(* The server's side: an alarm changes.                                    *)
AlarmChanges(alarm, status) ==
    /\ Len(log) < MaxLog /\ status # StatusOf(alarm, Len(log)) /\ Does("alarm")
    /\ log' = Append(log, [alarm |-> alarm, status |-> status, old |-> StatusOf(alarm, Len(log))])
    /\ UNCHANGED <<page, alarms, listing>>

-----------------------------------------------------------------------------
(* The dialog.                                                             *)

(* The families of alarmsUpdateModal(): those of the menu for charts that  *)
(* are known, in order of the first chart of each.                         *)
PriorityOf(a) == IF a.chart = "none" THEN 9999999 ELSE a.priority
Families ==
    LET names  == { a.family : a \in Alarms }
        of(n)  == { a \in Alarms : a.family = n }
        least(n) == Min({ PriorityOf(a) : a \in of(n) })
    IN SetToSortSeq({ [name |-> n, arr |-> of(n), priority |-> least(n)] : n \in names },
                    LAMBDA f, g : f.priority < g.priority)

(* The families, and alarm_to_html(), look up the charts: one that is not  *)
(* known by its id is looked up by its name, which throws after an export  *)
(* has dropped the names.                                                  *)
LooksUp(a) == a.chart # "id"
Throws(upto) ==
    ~listing.byName /\ \E a \in Alarms : LooksUp(a)

AlarmsUpdateModal ==
    /\ listing.phase # "asked" /\ Does("list")
    /\ listing' = [listing EXCEPT !.phase = "asked"]
    /\ UNCHANGED <<page, alarms, log>>
AllArrive(ok, upto) ==
    /\ listing.phase = "asked" /\ Fails(ok)
    /\ listing' = IF ~ok THEN [listing EXCEPT !.phase = "threw"]
                  ELSE [listing EXCEPT !.badge = AlarmsCallback(upto),
                                       !.phase = IF Throws(upto) THEN "threw" ELSE "shown",
                                       !.families = IF Throws(upto) THEN @ ELSE Families]
    /\ alarms' = IF ok /\ alarms.first = 0 THEN [alarms EXCEPT !.first = upto] ELSE alarms
    /\ UNCHANGED <<page, log>>

(* saveSnapshot() drops the names of the charts, loadSnapshot() ends polls.*)
AlarmsExport ==
    /\ listing.byName /\ Does("export")
    /\ listing' = [listing EXCEPT !.byName = FALSE]
    /\ UNCHANGED <<page, alarms, log>>
AlarmsImport ==
    /\ ~page.snapshot /\ Does("import")
    /\ page' = [page EXCEPT !.snapshot = TRUE]
    /\ UNCHANGED alarmsVars

-----------------------------------------------------------------------------
AlarmsInit == alarms = NewAlarms /\ listing = NewListing /\ log = <<>>

AlarmsNext ==
    /\ Runs("alarms")
    /\ \/ UpdateForever \/ PermissionIsGranted \/ AlarmsLoadPage
       \/ AlarmsUpdateModal \/ AlarmsExport \/ AlarmsImport
       \/ \E ok \in BOOLEAN, upto \in 0..Len(log) : ActiveArrives(ok, upto) \/ AllArrive(ok, upto)
       \/ \E c \in alarms.logs : \E ok \in BOOLEAN, upto \in c.sent..Len(log) : LogArrives(c, ok, upto)
       \/ \E i \in DOMAIN alarms.waits : NotificationIsShown(i)
       \/ \E a \in Alarms, s \in Statuses : AlarmChanges(a, s)

(* Timers fire, requests end, and an answer is of now in the end.          *)
AlarmsFairness ==
    /\ WF_<<page, alarmsVars, budget>>(Runs("alarms") /\ UpdateForever)
    /\ SF_<<page, alarmsVars, budget>>(Runs("alarms") /\ ActiveArrives(TRUE, Len(log)))
    /\ WF_<<page, alarmsVars, budget>>(\E c \in alarms.logs, ok \in BOOLEAN : LogArrives(c, ok, Len(log)))
    /\ WF_<<page, alarmsVars, budget>>(\E i \in DOMAIN alarms.waits : NotificationIsShown(i))

-----------------------------------------------------------------------------
(* What is raised is told: an alarm that is raised and stays so is shown   *)
(* in a notification, whatever fails, however often the page is loaded,    *)
(* and even if the answers to two requests for the log change places and   *)
(* the id of the last one shown goes back (notifyAll(), dashboard.js), as  *)
(* long as the page polls and may notify.  A notification that waits for   *)
(* its half second when the page goes is lost: its id is kept by then.     *)
RaisedIsNotified ==
    \A id \in 1..MaxLog :
        id <= Len(log) /\ IsActive(log[id].status) ~>
            \/ id \in alarms.shown \cup alarms.lost \/ IsUpdated(id, Len(log))
            \/ ~alarms.granted \/ alarms.poll = "ended"
=============================================================================
