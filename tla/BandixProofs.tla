---------------------------- MODULE BandixProofs ----------------------------
(***************************************************************************)
(* Proofs about the bandix pages, for any devices, rules, filters and      *)
(* numbers of calls in flight: the dialog of a device keeps to the rules   *)
(* of that device, what covers the list of DNS queries is always taken     *)
(* away by a query that is still in flight, and what the history chart     *)
(* shows is in the data that came.                                         *)
(***************************************************************************)
EXTENDS Bandix, TLAPS

(* The dialog, the list of rules in it, and the rule it asks to delete     *)
(* belong together.  A dialog that is closed asks nothing: without that    *)
(* the next one would open on the question of the last.                    *)
Proper(d, l) ==
    /\ {"open", "shows", "current", "known", "form", "confirm", "naming", "adding", "fading"}
          \subseteq DOMAIN d
    /\ {"kind", "of", "rules"} \subseteq DOMAIN l
    /\ l.kind = "rules" => \A r \in l.rules : r.mac = l.of
    /\ ~d.open => d.confirm = {}
    /\ d.open => /\ d.current \in {None, d.shows}
                 /\ l.kind = "rules" => l.of = d.shows
                 /\ \A r \in d.confirm : r.mac = d.shows

(* Page t has the dialog and the list of page s.                           *)
Leaves(s, t) == t.dialog = s.dialog /\ t.list = s.list /\ {"dialog", "list"} \subseteq DOMAIN t

(* A call that is sent or has ended leaves both alone.                     *)
LEMMA CallsLeave ==
  ASSUME NEW s, {"dialog", "list"} \subseteq DOMAIN s, NEW c, NEW i
  PROVE  Leaves(s, Send(s, c)) /\ Leaves(s, Release(s, i))
  BY DEF Leaves, Send, Release

(* Leaving alone is transitive.                                            *)
LEMMA LeavesThen ==
  ASSUME NEW s, NEW t, NEW u, Leaves(s, t), Leaves(t, u)
  PROVE  Leaves(s, u)
  BY DEF Leaves

(* So does asking for all rules.                                           *)
LEMMA FetchLeaves ==
  ASSUME NEW s, {"dialog", "list"} \subseteq DOMAIN s, NEW for
  PROVE  Leaves(s, FetchAllScheduleRules(s, for))
<1> DEFINE t == [s EXCEPT !.table.loading = TRUE]
<1>1. Leaves(s, t) /\ Leaves(s, s)
  BY DEF Leaves
<1>2. FetchAllScheduleRules(s, for) \in {s, Send(t, [kind |-> "rules", for |-> for])}
  BY DEF FetchAllScheduleRules
<1> HIDE DEF t
<1>3. Leaves(t, Send(t, [kind |-> "rules", for |-> for]))
  BY <1>1, CallsLeave DEF Leaves
<1> QED
  BY <1>1, <1>2, <1>3, LeavesThen

(* updateDeviceData() leaves both alone.                                   *)
LEMMA UpdateLeaves ==
  ASSUME NEW s, {"dialog", "list"} \subseteq DOMAIN s, NEW by
  PROVE  Leaves(s, UpdateDeviceData(s, by))
<1> DEFINE t == Send(s, [kind |-> "table", by |-> by, waits |-> ~s.table.loading])
<1>1. Leaves(s, t)
  BY CallsLeave
<1>2. UpdateDeviceData(s, by) = FetchAllScheduleRules(t, Slot(s))
  BY DEF UpdateDeviceData
<1> HIDE DEF t
<1>3. Leaves(t, FetchAllScheduleRules(t, Slot(s)))
  BY <1>1, FetchLeaves DEF Leaves
<1> QED
  BY <1>1, <1>2, <1>3, LeavesThen

(* Rendering the table leaves both alone.                                  *)
LEMMA RenderLeaves ==
  ASSUME NEW s, {"dialog", "list"} \subseteq DOMAIN s, NEW status
  PROVE  Leaves(s, Render(s, status))
  BY DEF Leaves, Render, UpdateDeviceOptions

(* loadScheduleRules() keeps the dialog, and leaves the list as it was or  *)
(* loading.                                                                *)
LEMMA LoadProper ==
  ASSUME NEW s, {"dialog", "list"} \subseteq DOMAIN s, Proper(s.dialog, s.list)
  PROVE  /\ {"dialog", "list"} \subseteq DOMAIN LoadScheduleRules(s)
         /\ Proper(LoadScheduleRules(s).dialog, LoadScheduleRules(s).list)
<1> DEFINE l == [kind |-> "loading", of |-> None, rules |-> {}]
           t == [s EXCEPT !.list = l]
           u == Send(t, [kind |-> "list", for |-> s.dialog.current])
<1>1. t.dialog = s.dialog /\ t.list = l /\ {"dialog", "list"} \subseteq DOMAIN t
  OBVIOUS
<1>2. Proper(s.dialog, l)
  BY DEF Proper
<1>3. LoadScheduleRules(s) \in {s, u}
  BY DEF LoadScheduleRules
<1> HIDE DEF t, l
<1>4. Leaves(t, u)
  BY <1>1, CallsLeave
<1> HIDE DEF u
<1> QED
  BY <1>1, <1>2, <1>3, <1>4 DEF Leaves

(* The page that a handler leaves becomes the state.                       *)
LEMMA BecomesProper ==
  ASSUME NEW s, Become(s), Proper(s.dialog, s.list)
  PROVE  Proper(dialog, list)'
<1>1. dialog' = s.dialog /\ list' = s.list
  BY DEF Become
<1> QED
  BY <1>1

(* A handler that leaves dialog and list alone.                            *)
LEMMA LeftAlone ==
  ASSUME Proper(dialog, list), NEW s, Leaves(Now, s), Become(s)
  PROVE  Proper(dialog, list)'
<1>1. s.dialog = dialog /\ s.list = list
  BY DEF Leaves, Now
<1> QED
  BY <1>1, BecomesProper

(* The fields of the page are the variables.                               *)
LEMMA NowIs ==
  /\ {"dialog", "list"} \subseteq DOMAIN Now /\ Now.dialog = dialog /\ Now.list = list
  /\ Now.table = table /\ Now.calls = calls /\ Leaves(Now, Now)
  BY DEF Now, Leaves

(* The table, and the rules of all devices, arrive.                        *)
LEMMA TableProper ==
  ASSUME Proper(dialog, list), NEW i,
         RulesArrive(i) \/ \E readable \in BOOLEAN : TableArrives(i, readable)
  PROVE  Proper(dialog, list)'
<1> DEFINE q == Release(Now, i)
<1>1. Leaves(Now, q)
  BY NowIs, CallsLeave
<1>2. CASE \E readable \in BOOLEAN : TableArrives(i, readable)
  <2> DEFINE r == Render(Now, calls[i].status)
             e == [q EXCEPT !.table.rows = <<>>]
  <2>1. PICK u : Become(u) /\ u \in {Release(r, i), q, e}
    BY <1>2 DEF TableArrives
  <2>2. Leaves(Now, r)
    BY NowIs, RenderLeaves
  <2> HIDE DEF r
  <2>3. Leaves(r, Release(r, i))
    BY <2>2, CallsLeave DEF Leaves
  <2> HIDE DEF q
  <2>4. Leaves(q, e)
    BY <1>1 DEF Leaves
  <2>5. Leaves(Now, u)
    BY <1>1, <2>1, <2>2, <2>3, <2>4, LeavesThen
  <2> QED
    BY <2>1, <2>5, LeftAlone
<1>3. CASE RulesArrive(i)
  <2> DEFINE c == calls[i]
             s == [q EXCEPT
                     !.table.loading = FALSE,
                     !.table.all = IF c.state = "failed" THEN {} ELSE c.rules,
                     !.calls = [j \in Calls |->
                                  IF j = c.for /\ @[j].kind = "table"
                                  THEN [@[j] EXCEPT !.waits = FALSE] ELSE @[j]]]
  <2>1. PICK u : Become(u) /\ u \in {UpdateDeviceData(s, "user"), s}
    BY <1>3 DEF RulesArrive
  <2> HIDE DEF q, c
  <2>2. Leaves(q, s)
    BY <1>1 DEF Leaves
  <2> HIDE DEF s
  <2>3. Leaves(s, UpdateDeviceData(s, "user"))
    BY <2>2, UpdateLeaves DEF Leaves
  <2>4. Leaves(Now, u)
    BY <1>1, <2>1, <2>2, <2>3, LeavesThen
  <2> QED
    BY <2>1, <2>4, LeftAlone
<1> QED
  BY <1>2, <1>3

(* The rules of the dialog arrive: they are put under the device it has.   *)
LEMMA ListProper ==
  ASSUME Proper(dialog, list), NEW i, ListArrives(i)
  PROVE  Proper(dialog, list)'
<1> DEFINE q == Release(Now, i)
           none == [kind |-> "error", of |-> None, rules |-> {}]
           own == [kind |-> "rules", of |-> dialog.current,
                   rules |-> RulesOf(calls[i].rules, dialog.current)]
           l == IF calls[i].state = "failed" \/ dialog.current = None THEN none ELSE own
<1>1. Become([q EXCEPT !.list = l])
  BY DEF ListArrives
<1>2. Leaves(Now, q)
  BY NowIs, CallsLeave
<1> HIDE DEF q
<1>3. [q EXCEPT !.list = l].dialog = dialog /\ [q EXCEPT !.list = l].list = l
  BY <1>2, NowIs DEF Leaves
<1>4. Proper(dialog, none)
  BY DEF Proper
<1>5. dialog.current # None => Proper(dialog, own)
  BY DEF Proper, RulesOf
<1> HIDE DEF none, own
<1>6. Proper(dialog, l)
  BY <1>4, <1>5
<1> HIDE DEF l
<1> QED
  BY <1>1, <1>3, <1>6, BecomesProper

(* The change of a name or of the rules ends.                              *)
LEMMA ChangeProper ==
  ASSUME Proper(dialog, list), NEW i, NameArrives(i) \/ AddArrives(i) \/ DeleteArrives(i)
  PROVE  Proper(dialog, list)'
<1> DEFINE q == Release(Now, i)
           s == [q EXCEPT !.dialog.naming = FALSE]
           n == [s EXCEPT !.dialog.known = calls[i].name]
           a == [q EXCEPT !.dialog.adding = FALSE]
           f == [a EXCEPT !.dialog.form = FALSE]
           Fine(t) == {"dialog", "list"} \subseteq DOMAIN t /\ Proper(t.dialog, t.list)
<1>1. PICK u : /\ Become(u)
               /\ u \in {s, UpdateDeviceData(n, "user"), a, q,
                         UpdateDeviceData(LoadScheduleRules(f), "user"),
                         UpdateDeviceData(LoadScheduleRules(q), "user")}
  BY DEF NameArrives, AddArrives, DeleteArrives
<1>2. Leaves(Now, q)
  BY NowIs, CallsLeave
<1>3. Fine(q)
  BY <1>2, NowIs DEF Leaves
<1> HIDE DEF q
<1>4. Fine(s) /\ Fine(a)
  BY <1>3 DEF Proper
<1> HIDE DEF s, a
<1>5. Fine(n) /\ Fine(f)
  BY <1>4 DEF Proper
<1> HIDE DEF n, f
<1>6. ASSUME NEW t, Fine(t)
      PROVE  Fine(UpdateDeviceData(t, "user")) /\ Fine(LoadScheduleRules(t))
  <2>1. Leaves(t, UpdateDeviceData(t, "user"))
    BY <1>6, UpdateLeaves
  <2> QED
    BY <1>6, <2>1, LoadProper DEF Leaves
<1>7. Fine(u)
  BY <1>1, <1>3, <1>4, <1>5, <1>6
<1> QED
  BY <1>1, <1>7, BecomesProper

(* Clicks in the dialog.                                                   *)
LEMMA DialogProper ==
  ASSUME Proper(dialog, list),
         \/ CloseDialog \/ DialogFaded \/ ShowAddRule \/ CancelAddRule
         \/ \E rule \in Rules : AskDelete(rule)
  PROVE  Proper(dialog, list)'
<1>1. CASE CloseDialog
  BY <1>1 DEF CloseDialog, Proper
<1>2. CASE DialogFaded
  BY <1>2 DEF DialogFaded, Proper
<1>3. CASE ShowAddRule \/ CancelAddRule
  BY <1>3 DEF ShowAddRule, CancelAddRule, Proper
<1>4. ASSUME NEW rule \in Rules, AskDelete(rule)
      PROVE  Proper(dialog, list)'
  BY <1>4 DEF AskDelete, Proper
<1> QED
  BY <1>1, <1>2, <1>3, <1>4

(* Clicks that send a call.                                                *)
LEMMA SendingProper ==
  ASSUME Proper(dialog, list),
         \/ \E n \in 1..Cardinality(Devices) : OpenDialog(n)
         \/ \E name \in Names : SaveHostname(name)
         \/ \E form \in Forms : SaveRule(form)
         \/ \E yes \in BOOLEAN : Confirm(yes)
  PROVE  Proper(dialog, list)'
<1> DEFINE Fine(t) == {"dialog", "list"} \subseteq DOMAIN t /\ Proper(t.dialog, t.list)
<1>0. Fine(Now)
  BY NowIs
<1>1. ASSUME NEW t, Fine(t), NEW call
      PROVE  Fine(Send(t, call))
  <2>1. Leaves(t, Send(t, call))
    BY <1>1, CallsLeave
  <2> QED
    BY <1>1, <2>1 DEF Leaves
<1>2. ASSUME NEW n, OpenDialog(n)
      PROVE  Proper(dialog, list)'
  <2> DEFINE l == [kind |-> "none", of |-> None, rules |-> {}]
             t == [Now EXCEPT !.list = l,
                              !.dialog.open = TRUE, !.dialog.shows = table.rows[n].mac,
                              !.dialog.current = table.rows[n].mac,
                              !.dialog.known = table.rows[n].name]
  <2>1. Become(LoadScheduleRules(t)) /\ ~dialog.open
    BY <1>2 DEF OpenDialog
  <2>2. /\ {"dialog", "list"} \subseteq DOMAIN t /\ t.list = l
        /\ t.dialog = [dialog EXCEPT !.open = TRUE, !.shows = table.rows[n].mac,
                                     !.current = table.rows[n].mac,
                                     !.known = table.rows[n].name]
    BY DEF Now
  <2> HIDE DEF t
  <2>3. Fine(t)
    BY <2>1, <2>2 DEF Proper
  <2> QED
    BY <2>1, <2>3, LoadProper, BecomesProper
<1>3. ASSUME NEW name, SaveHostname(name)
      PROVE  Proper(dialog, list)'
  <2> DEFINE t == [Now EXCEPT !.dialog.naming = TRUE]
  <2>1. PICK call : Become(Send(t, call))
    BY <1>3 DEF SaveHostname
  <2>2. Fine(t)
    BY <1>0 DEF Proper
  <2> HIDE DEF t
  <2> QED
    BY <1>1, <2>1, <2>2, BecomesProper
<1>4. ASSUME NEW form, SaveRule(form)
      PROVE  Proper(dialog, list)'
  <2> DEFINE t == [Now EXCEPT !.dialog.adding = TRUE]
  <2>1. PICK call : Become(Send(t, call))
    BY <1>4 DEF SaveRule
  <2>2. Fine(t)
    BY <1>0 DEF Proper
  <2> HIDE DEF t
  <2> QED
    BY <1>1, <2>1, <2>2, BecomesProper
<1>5. ASSUME NEW yes, Confirm(yes)
      PROVE  Proper(dialog, list)'
  <2> DEFINE t == [Now EXCEPT !.dialog.confirm = {}]
  <2>1. PICK call : Become(Send(t, call)) \/ Become(t)
    BY <1>5 DEF Confirm
  <2>2. Fine(t)
    BY <1>0 DEF Proper
  <2> HIDE DEF t
  <2> QED
    BY <1>1, <2>1, <2>2, BecomesProper
<1> QED
  BY <1>2, <1>3, <1>4, <1>5

(* Polls and the headers of the table.                                     *)
LEMMA PollsProper ==
  ASSUME Proper(dialog, list), PollDevices \/ PollRules \/ \E key \in SortKeys : SortBy(key)
  PROVE  Proper(dialog, list)'
<1>1. CASE PollDevices \/ PollRules
  <2>1. PICK u : /\ Become(u)
                 /\ \/ \E by : u = UpdateDeviceData(Now, by)
                    \/ u \in {Now, FetchAllScheduleRules(Now, Poll)}
    BY <1>1 DEF PollDevices, PollRules
  <2>2. Leaves(Now, u)
    BY <2>1, NowIs, UpdateLeaves, FetchLeaves
  <2> QED
    BY <2>1, <2>2, LeftAlone
<1>2. ASSUME NEW key, SortBy(key)
      PROVE  Proper(dialog, list)'
  <2> DEFINE t == [Now EXCEPT !.table.by = key,
                              !.table.ascending = (table.by = key /\ ~table.ascending)]
  <2>1. Become(UpdateDeviceData(t, "user"))
    BY <1>2 DEF SortBy
  <2>2. Leaves(Now, t)
    BY NowIs DEF Leaves
  <2> HIDE DEF t
  <2>3. Leaves(t, UpdateDeviceData(t, "user"))
    BY <2>2, UpdateLeaves DEF Leaves
  <2> QED
    BY <2>1, <2>2, <2>3, LeavesThen, LeftAlone
<1> QED
  BY <1>1, <1>2

(* Every step of the traffic page keeps the dialog proper.                 *)
LEMMA RulesProper ==
  ASSUME Proper(dialog, list), RulesNext
  PROVE  Proper(dialog, list)'
<1>1. CASE RouterChanges \/ ClockTicks \/ \E i \in Calls : Serve(i) \/ Lose(i)
  BY <1>1 DEF RouterChanges, ClockTicks, Serve, Lose
<1>2. ASSUME NEW i \in Calls, Reply(i)
      PROVE  Proper(dialog, list)'
  BY <1>2, TableProper, ListProper, ChangeProper DEF Reply
<1> QED
  BY <1>1, <1>2, DialogProper, SendingProper, PollsProper DEF RulesNext, RulesUser

(* DialogKeepsToItsDevice: for any devices and rules, and whatever replies *)
(* overtake each other, are lost, or come when the dialog has been closed  *)
(* or opened for another device.                                           *)
THEOREM DialogKeeps == Spec => []DialogKeepsToItsDevice
<1>1. Init => Proper(dialog, list)
  BY DEF Init, RulesInit, Proper
<1>2. Proper(dialog, list) /\ [Next]_vars => Proper(dialog, list)'
  <2> SUFFICES ASSUME Proper(dialog, list), [Next]_vars
               PROVE  Proper(dialog, list)'
    OBVIOUS
  <2>1. CASE RulesNext
    BY <2>1, RulesProper
  <2>2. CASE dialog' = dialog /\ list' = list
    BY <2>2
  <2>3. (dialog' = dialog /\ list' = list) \/ RulesNext
    BY DEF Next, Traffic, FilterChange, vars, rulesVars
  <2> QED
    BY <2>1, <2>2, <2>3
<1>3. Proper(dialog, list) => DialogKeepsToItsDevice
  BY DEF Proper, DialogKeepsToItsDevice
<1> QED
  BY <1>1, <1>2, <1>3, PTL DEF Spec

-----------------------------------------------------------------------------
(* NothingCoversTheList and the fields it speaks of.                       *)
Uncovered ==
    /\ {"overlay", "mask", "busy"} \subseteq DOMAIN result
    /\ DOMAIN asked = Asks
    /\ \A i \in Asks : {"overlay", "refresh"} \subseteq DOMAIN asked[i]
    /\ NothingCoversTheList

(* A query that is sent covers the list and will uncover it.               *)
LEMMA QuerySent ==
  ASSUME Uncovered, NEW s, NEW refresh \in BOOLEAN, UpdateQueries(s, refresh)
  PROVE  Uncovered'
<1>1. PICK i \in Asks :
         /\ asked[i] = NotAsked
         /\ asked' = [asked EXCEPT ![i] =
                         [filter |-> s.filter, page |-> s.page, size |-> s.size,
                          overlay |-> TRUE, refresh |-> refresh]]
         /\ result' = [result EXCEPT !.overlay = TRUE, !.mask = @ \/ refresh,
                                     !.busy = @ \/ refresh]
  BY DEF UpdateQueries
<1>2. /\ result'.overlay /\ DOMAIN asked' = Asks
      /\ result'.mask = (result.mask \/ refresh) /\ result'.busy = (result.busy \/ refresh)
      /\ {"overlay", "mask", "busy"} \subseteq DOMAIN result'
  BY <1>1 DEF Uncovered
<1>3. /\ asked'[i].overlay /\ asked'[i].refresh = refresh
      /\ {"overlay", "refresh"} \subseteq DOMAIN asked'[i]
      /\ \A j \in Asks \ {i} : asked'[j] = asked[j]
  BY <1>1 DEF Uncovered
<1>4. ~asked[i].refresh
  BY <1>1 DEF NotAsked
<1>5. result'.mask \/ result'.busy => \E j \in Asks : asked'[j].refresh
  BY <1>2, <1>3, <1>4 DEF Uncovered, NothingCoversTheList
<1> QED
  BY <1>2, <1>3, <1>5 DEF Uncovered, NothingCoversTheList

(* A reply takes away its own overlay, every mask, and its own disabled    *)
(* button; what stays belongs to a query that is still in flight.          *)
LEMMA ReplyUncovers ==
  ASSUME Uncovered, NEW i \in Asks, NEW shown, NEW replaces \in BOOLEAN, Told(shown, i, replaces)
  PROVE  Uncovered'
<1>1. /\ result'.overlay = Left(i, replaces) /\ ~result'.mask
      /\ result'.busy = (result.busy /\ ~asked[i].refresh)
      /\ {"overlay", "mask", "busy"} \subseteq DOMAIN result'
  BY DEF Told
<1>2. asked' = IF replaces
               THEN [[j \in Asks |-> [asked[j] EXCEPT !.overlay = FALSE]] EXCEPT ![i] = NotAsked]
               ELSE Hide(i)
  BY DEF Told
<1>3. ASSUME NEW j \in Asks
      PROVE  /\ {"overlay", "refresh"} \subseteq DOMAIN asked'[j]
             /\ j # i => asked'[j].refresh = asked[j].refresh
             /\ j # i /\ ~replaces /\ ~asked[i].overlay /\ asked[j].overlay => asked'[j].overlay
  <2>1. CASE j = i
    <3>1. asked'[j] = NotAsked
      BY <1>2, <2>1 DEF Hide
    <3> QED
      BY <2>1, <3>1 DEF NotAsked
  <2>2. CASE j # i /\ replaces
    <3>1. asked'[j] = [asked[j] EXCEPT !.overlay = FALSE]
      BY <1>2, <2>2
    <3> QED
      BY <2>2, <3>1 DEF Uncovered
  <2>3. CASE j # i /\ ~replaces
    <3>1. asked'[j] = [asked[j] EXCEPT !.overlay = @ /\ ~asked[i].overlay]
      BY <1>2, <2>3 DEF Hide
    <3> QED
      BY <2>3, <3>1 DEF Uncovered
  <2> QED
    BY <2>1, <2>2, <2>3
<1>4. DOMAIN asked' = Asks
  BY <1>2 DEF Hide
<1>5. result'.overlay => \E j \in Asks : asked'[j].overlay
  <2>1. SUFFICES ASSUME result'.overlay
                 PROVE  \E j \in Asks : asked'[j].overlay
    OBVIOUS
  <2>2. result.overlay /\ ~asked[i].overlay /\ ~replaces
    BY <1>1, <2>1 DEF Left
  <2>3. PICK j \in Asks : asked[j].overlay
    BY <2>2 DEF Uncovered, NothingCoversTheList
  <2> QED
    BY <1>3, <2>2, <2>3
<1>6. result'.busy => \E j \in Asks : asked'[j].refresh
  <2>1. SUFFICES ASSUME result'.busy
                 PROVE  \E j \in Asks : asked'[j].refresh
    OBVIOUS
  <2>2. result.busy /\ ~asked[i].refresh
    BY <1>1, <2>1
  <2>3. PICK j \in Asks : asked[j].refresh
    BY <2>2 DEF Uncovered, NothingCoversTheList
  <2> QED
    BY <1>3, <2>2, <2>3
<1> QED
  BY <1>1, <1>3, <1>4, <1>5, <1>6 DEF Uncovered, NothingCoversTheList

(* The page is opened with a query in flight, and then nothing covers the  *)
(* list that no query will take away.                                      *)
LEMMA DnsOpens == ASSUME Init PROVE Uncovered
<1>1. /\ result.overlay = Runs("dns") /\ ~result.mask /\ ~result.busy
      /\ {"overlay", "mask", "busy"} \subseteq DOMAIN result
      /\ asked = [i \in Asks |->
                    IF i = FirstAsk /\ Runs("dns")
                    THEN [filter |-> NoFilter, page |-> 1, size |-> FirstSize, overlay |-> TRUE,
                          refresh |-> FALSE]
                    ELSE NotAsked]
  BY DEF Init, DnsInit
<1>2. FirstAsk \in Asks
  BY DnsAssumption DEF DnsAssumption, FirstAsk
<1>3. Runs("dns") => asked[FirstAsk].overlay
  BY <1>1, <1>2
<1>4. DOMAIN asked = Asks /\ \A i \in Asks : {"overlay", "refresh"} \subseteq DOMAIN asked[i]
  BY <1>1 DEF NotAsked
<1> QED
  BY <1>1, <1>2, <1>3, <1>4 DEF Uncovered, NothingCoversTheList

(* Every step of the DNS page keeps the list uncovered.                    *)
LEMMA DnsUncovers ==
  ASSUME Uncovered, DnsNext
  PROVE  Uncovered'
<1>1. CASE result' = result /\ asked' = asked
  BY <1>1 DEF Uncovered, NothingCoversTheList
<1>2. CASE \E s : UpdateQueries(s, FALSE) \/ UpdateQueries(s, TRUE)
  BY <1>2, QuerySent
<1>3. CASE \E i \in Asks : QueriesArrive(i) \/ QueriesFail(i)
  BY <1>3, ReplyUncovers DEF QueriesArrive, QueriesFail
<1>4. ASSUME NEW f, Type(f) \/ ChooseFilter(f)
      PROVE  Uncovered'
  <2>1. CASE Type(f)
    BY <1>1, <2>1 DEF Type
  <2>2. CASE ChooseFilter(f)
    <3>1. \E s : UpdateQueries(s, FALSE)
      BY <2>2 DEF ChooseFilter, PerformSearch
    <3> QED
      BY <1>2, <3>1
  <2> QED
    BY <1>4, <2>1, <2>2
<1>5. CASE SearchTimer
  <2>1. \E s : UpdateQueries(s, FALSE)
    BY <1>5 DEF SearchTimer, PerformSearch
  <2> QED
    BY <1>2, <2>1
<1>6. CASE PrevPage \/ NextPage
  <2>1. \E s : UpdateQueries(s, FALSE)
    BY <1>6 DEF PrevPage, NextPage
  <2> QED
    BY <1>2, <2>1
<1>7. ASSUME NEW z, PageSize(z)
      PROVE  Uncovered'
  <2>1. \E s : UpdateQueries(s, FALSE)
    BY <1>7 DEF PageSize
  <2> QED
    BY <1>2, <2>1
<1>8. CASE RefreshQueries
  BY <1>2, <1>8 DEF RefreshQueries
<1>9. CASE \/ RecordsChange \/ PollStats
           \/ \E who \in {"page", "poll"}, good \in BOOLEAN : StatsArrive(who, good)
  BY <1>1, <1>9 DEF RecordsChange, PollStats, StatsArrive
<1> QED
  BY <1>3, <1>4, <1>5, <1>6, <1>7, <1>8, <1>9 DEF DnsNext

(* NothingCoversTheList: for any number of queries in flight and any order *)
(* of their replies, what covers the list is there only as long as a query *)
(* that takes it away.                                                     *)
THEOREM ListUncovered == Spec => []NothingCoversTheList
<1>1. Uncovered /\ [Next]_vars => Uncovered'
  <2> SUFFICES ASSUME Uncovered, [Next]_vars
               PROVE  Uncovered'
    OBVIOUS
  <2>1. DnsNext \/ (result' = result /\ asked' = asked)
    BY DEF Next, Traffic, ConnNext, vars, dnsVars
  <2>2. CASE result' = result /\ asked' = asked
    BY <2>2 DEF Uncovered, NothingCoversTheList
  <2> QED
    BY <2>1, <2>2, DnsUncovers
<1>2. Uncovered => NothingCoversTheList
  BY DEF Uncovered
<1> QED
  BY <1>1, <1>2, DnsOpens, PTL DEF Spec

-----------------------------------------------------------------------------
(* Rounding to the nearest multiple, as Math.round() does.                 *)
LEMMA QuotientOf ==
  ASSUME NEW d \in Nat \ {0}, NEW q \in Nat, NEW r \in 0..(d - 1)
  PROVE  (q * d + r) \div d = q
<1> DEFINE x == q * d + r
<1>1. q * d \in Nat
  OBVIOUS
<1>2. x \in Nat
  BY <1>1
<1>3. PICK k \in Int, m \in 0..(d - 1) : x = d * k + m /\ x \div d = k
  BY <1>2, SMT
<1>4. d * (q - k) = m - r
  BY <1>1, <1>3
<1>5. q - k < 1
  BY <1>4, SMT
<1>6. k - q < 1
  BY <1>4, SMT
<1> QED
  BY <1>3, <1>5, <1>6

LEMMA QuotientGrows ==
  ASSUME NEW d \in Nat \ {0}, NEW a \in Nat, NEW b \in Nat, a + d <= b
  PROVE  a \div d < b \div d
  BY SMT

(* The points left out on a narrow screen leave the first and the last,    *)
(* and those between them each once and in order.                          *)
Evenly(p, n) ==
    /\ p \in Seq(Nat) /\ p # <<>>
    /\ \A i \in 1..(Len(p) - 1) : p[i] < p[i + 1]
    /\ p[1] = 1 /\ p[Len(p)] = n

LEMMA AllAreEven ==
  ASSUME NEW n \in Nat \ {0}
  PROVE  Evenly([i \in 1..n |-> i], n)
<1> DEFINE p == [i \in 1..n |-> i]
<1>1. p \in Seq(Nat) /\ Len(p) = n
  OBVIOUS
<1> QED
  BY <1>1 DEF Evenly

LEMMA SampleIsEven ==
  ASSUME NEW n \in Nat \ {0}, n > MaxPoints
  PROVE  Evenly(Sample(n), n)
<1> DEFINE d == 2 * (MaxPoints - 1)
           at(i) == 2 * (i - 1) * (n - 1) + (MaxPoints - 1)
           p == [i \in 1..MaxPoints |-> 1 + at(i) \div d]
<1>1. /\ MaxPoints \in Nat /\ MaxPoints >= 2 /\ d \in Nat \ {0} /\ 1..MaxPoints # {}
      /\ MaxPoints - 1 \in 0..(d - 1)
  BY HistoryAssumption DEF HistoryAssumption
<1>2. Sample(n) = p
  BY <1>1 DEF Sample
<1>3. ASSUME NEW i \in 1..MaxPoints
      PROVE  at(i) \in Nat /\ at(i) \div d \in Nat
  <2>1. (i - 1) * (n - 1) \in Nat
    BY <1>1
  <2>2. 2 * (i - 1) * (n - 1) = 2 * ((i - 1) * (n - 1))
    BY <1>1
  <2>3. at(i) \in Nat
    BY <1>1, <2>1, <2>2
  <2> HIDE DEF at
  <2> QED
    BY <1>1, <2>3
<1>4. p \in Seq(Nat) /\ Len(p) = MaxPoints
  BY <1>1, <1>3
<1>5. p[1] = 1
  <2>1. at(1) = 0 * d + (MaxPoints - 1)
    BY <1>1
  <2>2. at(1) \div d = 0
    BY <1>1, <2>1, QuotientOf
  <2> QED
    BY <1>1, <2>2
<1>6. p[MaxPoints] = n
  <2>1. at(MaxPoints) = (n - 1) * d + (MaxPoints - 1)
    BY <1>1
  <2>2. at(MaxPoints) \div d = n - 1
    BY <1>1, <2>1, QuotientOf
  <2> QED
    BY <1>1, <2>2
<1>7. ASSUME NEW i \in 1..(MaxPoints - 1)
      PROVE  p[i] < p[i + 1]
  <2>1. i \in 1..MaxPoints /\ i + 1 \in 1..MaxPoints
    BY <1>1
  <2>2. at(i + 1) = at(i) + 2 * (n - 1)
    BY <1>1, <2>1
  <2>3. d <= 2 * (n - 1)
    BY <1>1
  <2>4. at(i) \in Nat /\ at(i + 1) \in Nat /\ at(i) \div d \in Nat /\ at(i + 1) \div d \in Nat
    BY <1>3, <2>1
  <2> HIDE DEF at
  <2>5. at(i) + d <= at(i + 1)
    BY <1>1, <2>2, <2>3, <2>4
  <2>6. at(i) \div d < at(i + 1) \div d
    BY <1>1, <2>4, <2>5, QuotientGrows
  <2>7. p[i] = 1 + at(i) \div d /\ p[i + 1] = 1 + at(i + 1) \div d
    BY <2>1
  <2> HIDE DEF d
  <2> QED
    BY <2>4, <2>6, <2>7
<1> HIDE DEF p
<1>8. p # <<>> /\ p[Len(p)] = n
  BY <1>1, <1>4, <1>6
<1> QED
  BY <1>2, <1>4, <1>5, <1>6, <1>7, <1>8 DEF Evenly

(* As many are left as there is room for.                                  *)
LEMMA SampleFits ==
  ASSUME NEW n \in Nat \ {0}
  PROVE  /\ Evenly(Sample(n), n)
         /\ Len(Sample(n)) = IF n <= MaxPoints THEN n ELSE MaxPoints
<1>1. MaxPoints \in Nat
  BY HistoryAssumption DEF HistoryAssumption
<1>2. CASE n > MaxPoints
  BY <1>1, <1>2, SampleIsEven DEF Sample
<1>3. CASE n <= MaxPoints
  <2>1. Sample(n) = [i \in 1..n |-> i]
    BY <1>3 DEF Sample
  <2> QED
    BY <1>3, <2>1, AllAreEven
<1> QED
  BY <1>1, <1>2, <1>3

(* What ChartIsTrue says of the points p drawn of a reply.                 *)
Truly(p, of) ==
    /\ \A i \in 1..(Len(p) - 1) : p[i] < p[i + 1]
    /\ p[1] = Oldest(of) /\ p[Len(p)] = of.n
    /\ of.narrow => Len(p) <= MaxPoints
    /\ ~of.narrow \/ Len(p) < MaxPoints => Len(p) = of.n - Oldest(of) + 1

(* The recent points are the last of the reply, and the sample is theirs.  *)
LEMMA PointsAreTrue ==
  ASSUME NEW n \in Nat \ {0}, NEW recent \in 0..n, NEW narrow \in BOOLEAN
  PROVE  Truly(Points(n, recent, narrow), [n |-> n, recent |-> recent, narrow |-> narrow])
<1> DEFINE of == [n |-> n, recent |-> recent, narrow |-> narrow]
           k == Recent(n, recent)
           p == Points(n, recent, narrow)
<1>1. MaxPoints \in Nat /\ MaxPoints >= 2
  BY HistoryAssumption DEF HistoryAssumption
<1>2. k \in Nat \ {0} /\ k <= n
  BY <1>1 DEF Recent
<1>3. of.n = n /\ of.recent = recent /\ of.narrow = narrow
  OBVIOUS
<1>4. narrow => Oldest(of) = n - k + 1
  BY <1>1, <1>3 DEF Oldest, Recent
<1>5. ~narrow => Oldest(of) = 1
  BY <1>3 DEF Oldest
<1> HIDE DEF of, k
<1>6. CASE narrow
  <2> DEFINE s == Sample(k)
  <2>1. /\ Evenly(s, k) /\ Len(s) = IF k <= MaxPoints THEN k ELSE MaxPoints
    BY <1>2, SampleFits
  <2>2. p = [i \in DOMAIN s |-> n - k + s[i]]
    BY <1>6 DEF Points, k
  <2> HIDE DEF s, p
  <2>3. /\ s \in Seq(Nat) /\ s # <<>> /\ s[1] = 1 /\ s[Len(s)] = k
        /\ \A i \in 1..(Len(s) - 1) : s[i] < s[i + 1]
    BY <2>1 DEF Evenly
  <2>4. /\ DOMAIN s = 1..Len(s) /\ Len(s) \in Nat /\ Len(s) >= 1
    BY <1>1, <1>2, <2>1, <2>3
  <2>5. Len(p) = Len(s) /\ \A i \in 1..Len(s) : p[i] = n - k + s[i]
    BY <2>2, <2>4
  <2>6. \A i \in 1..(Len(p) - 1) : p[i] < p[i + 1]
    BY <1>2, <2>3, <2>4, <2>5
  <2>7. p[1] = n - k + 1 /\ p[Len(p)] = n
    BY <1>2, <2>3, <2>4, <2>5
  <2>8. Len(p) <= MaxPoints /\ (Len(p) < MaxPoints => Len(p) = k)
    BY <1>1, <1>2, <2>1, <2>5
  <2>9. Truly(p, of)
    BY <1>2, <1>3, <1>4, <1>6, <2>6, <2>7, <2>8 DEF Truly
  <2> QED
    BY <2>9 DEF p, of
<1>7. CASE ~narrow
  <2>1. p = [i \in 1..n |-> i]
    BY <1>7 DEF Points
  <2> HIDE DEF p
  <2>2. Len(p) = n /\ \A i \in 1..n : p[i] = i
    BY <2>1
  <2>3. Truly(p, of)
    BY <1>3, <1>5, <1>7, <2>2 DEF Truly
  <2> QED
    BY <2>3 DEF p, of
<1> QED
  BY <1>6, <1>7

(* What the chart shows, as ChartIsTrue has it, with what its series is    *)
(* picked by: away from the realtime range there is only one type.         *)
Sound(c) ==
    /\ {"range", "keys", "points", "of"} \subseteq DOMAIN c
    /\ c.points # <<>> =>
           c.of.n \in Lengths /\ Truly(c.points, c.of) /\ c.keys \in Fields(c.range)
Charted ==
    /\ {"range", "type"} \subseteq DOMAIN choice /\ {"range", "type"} \subseteq DOMAIN metrics
    /\ choice.type \in Fields(choice.range)
    /\ metrics # Idle => metrics.type \in Fields(metrics.range)
    /\ "narrow" \in DOMAIN mouse /\ mouse.narrow \in BOOLEAN
    /\ Sound(chart)

LEMMA DrawKeeps ==
  ASSUME NEW c, {"range", "keys", "points", "of"} \subseteq DOMAIN c, NEW m
  PROVE  /\ {"range", "keys", "points", "of"} \subseteq DOMAIN Draw(c, m)
         /\ Draw(c, m).range = c.range /\ Draw(c, m).keys = c.keys
         /\ Draw(c, m).points = c.points /\ Draw(c, m).of = c.of
  BY DEF Draw

LEMMA NoChartSound == Sound(NoChart)
  BY DEF Sound, NoChart

LEMMA DrawSound ==
  ASSUME NEW c, Sound(c), NEW m
  PROVE  Sound(Draw(c, m))
  BY DrawKeeps DEF Sound

(* A call is sent for what is chosen.                                      *)
LEMMA RefreshCharted ==
  ASSUME Charted, NEW range, NEW device, NEW type \in Fields(range),
         RefreshHistory(range, device, type)
  PROVE  /\ {"range", "type"} \subseteq DOMAIN metrics'
         /\ metrics' # Idle => metrics'.type \in Fields(metrics'.range)
  BY DEF Charted, RefreshHistory

LEMMA MetricsSound ==
  ASSUME Charted, NEW n \in Lengths \cup {0}, NEW recent \in 0..n, MetricsArrive(n, recent)
  PROVE  Charted'
<1> DEFINE drawn == [range |-> metrics.range, device |-> metrics.device,
                  keys |-> TypeKeys(metrics.type, choice.range),
                  points |-> Points(n, recent, mouse.narrow),
                  of |-> [n |-> n, recent |-> recent, narrow |-> mouse.narrow],
                  from |-> 0, to |-> 0]
<1>1. /\ metrics # Idle /\ metrics' = Idle /\ choice' = choice
      /\ chart' = IF n = 0 THEN NoChart ELSE Draw(drawn, mouse)
      /\ mouse' = IF n = 0 THEN mouse
                  ELSE [mouse EXCEPT !.wired = TRUE, !.tooltip = @ \/ ~mouse.narrow]
  BY DEF MetricsArrive
<1>2. ASSUME n # 0
      PROVE  Sound(drawn)
  <2>1. n \in Lengths /\ n \in Nat \ {0} /\ mouse.narrow \in BOOLEAN
    BY <1>2, HistoryAssumption DEF HistoryAssumption, Charted
  <2>2. Truly(drawn.points, drawn.of)
    BY <2>1, PointsAreTrue
  <2>3. drawn.keys \in Fields(drawn.range)
    BY <1>1 DEF Charted, TypeKeys, Fields, Types
  <2>4. drawn.of.n \in Lengths
    BY <2>1
  <2> QED
    BY <2>2, <2>3, <2>4 DEF Sound
<1>3. Sound(chart')
  BY <1>1, <1>2, DrawSound, NoChartSound
<1>4. "narrow" \in DOMAIN mouse' /\ mouse'.narrow \in BOOLEAN
  BY <1>1 DEF Charted
<1> QED
  BY <1>1, <1>3, <1>4 DEF Charted, Idle

LEMMA ChartsSound ==
  ASSUME Charted, HistoryNext \/ FilterChange
  PROVE  Charted'
<1>1. ASSUME NEW n \in Lengths \cup {0}, NEW recent \in 0..n, MetricsArrive(n, recent)
      PROVE  Charted'
  BY <1>1, MetricsSound
<1>2. CASE PollHistory
  <2>1. /\ choice' = choice /\ chart' = chart /\ mouse' = mouse
        /\ RefreshHistory(choice.range, select, choice.type)
    BY <1>2 DEF PollHistory
  <2> QED
    BY <2>1, RefreshCharted DEF Charted
<1>3. CASE ResizeWindow
  <2>1. /\ choice' = choice /\ chart' = chart /\ mouse' = [mouse EXCEPT !.narrow = ~@]
        /\ RefreshHistory(choice.range, select, choice.type)
    BY <1>3 DEF ResizeWindow
  <2>2. "narrow" \in DOMAIN mouse' /\ mouse'.narrow \in BOOLEAN
    BY <2>1 DEF Charted
  <2> QED
    BY <2>1, <2>2, RefreshCharted DEF Charted
<1>4. CASE MetricsFail
  BY <1>4, NoChartSound DEF MetricsFail, Charted, Idle
<1>5. CASE ZoomTimer \/ Enter
  BY <1>5 DEF ZoomTimer, Enter, Charted
<1>6. CASE Move
  BY <1>6, DrawSound DEF Move, Charted
<1>7. CASE Leave
  BY <1>7, DrawSound DEF Leave, Charted
<1>8. ASSUME NEW level, NEW offset, Wheel(level, offset)
      PROVE  Charted'
  BY <1>8, DrawSound DEF Wheel, Charted
<1>9. ASSUME NEW range \in Ranges, ChooseRange(range)
      PROVE  Charted'
  <2> DEFINE type == TypeFor(choice.type, range)
  <2>1. choice' = [range |-> range, type |-> type] /\ chart' = chart
        /\ mouse' = mouse /\ RefreshHistory(range, select, type)
    BY <1>9 DEF ChooseRange
  <2>2. type \in Fields(range)
    BY DEF Charted, TypeFor, Fields, Types
  <2> HIDE DEF type
  <2> QED
    BY <2>1, <2>2, RefreshCharted DEF Charted
<1>10. ASSUME NEW type \in Types, ChooseType(type)
       PROVE  Charted'
  <2>1. choice' = [choice EXCEPT !.type = type] /\ chart' = chart /\ mouse' = mouse
        /\ RefreshHistory(choice.range, select, type) /\ type = TypeFor(type, choice.range)
    BY <1>10 DEF ChooseType
  <2>2. type \in Fields(choice.range)
    BY <2>1 DEF TypeFor, Fields, Types
  <2> QED
    BY <2>1, <2>2, RefreshCharted DEF Charted
<1>11. ASSUME NEW device, ChooseDevice(device)
       PROVE  Charted'
  <2>1. /\ choice' = choice /\ chart' = chart /\ mouse' = mouse
        /\ RefreshHistory(choice.range, device, choice.type)
    BY <1>11 DEF ChooseDevice
  <2> QED
    BY <2>1, RefreshCharted DEF Charted
<1> QED
  BY <1>1, <1>2, <1>3, <1>4, <1>5, <1>6, <1>7, <1>8, <1>9, <1>10, <1>11
     DEF HistoryNext, FilterChange

(* ChartIsTrue: for any lengths of the replies, any number of recent       *)
(* points in them and any number of points a narrow screen has room for.   *)
THEOREM ChartTrue == Spec => []ChartIsTrue
<1>1. Init => Charted
  <2> SUFFICES ASSUME Init
               PROVE  Charted
    OBVIOUS
  <2>1. PICK range : choice = [range |-> range, type |-> TypeFor("total", range)]
    BY DEF Init, HistoryInit
  <2>2. choice.type \in Fields(choice.range)
    BY <2>1 DEF TypeFor, Fields, Types
  <2>3. chart = NoChart /\ metrics = Idle
    BY DEF Init, HistoryInit
  <2>4. "narrow" \in DOMAIN mouse /\ mouse.narrow \in BOOLEAN
    BY DEF Init, HistoryInit
  <2> QED
    BY <2>1, <2>2, <2>3, <2>4, NoChartSound DEF Charted, Idle
<1>2. Charted /\ [Next]_vars => Charted'
  <2> SUFFICES ASSUME Charted, [Next]_vars
               PROVE  Charted'
    OBVIOUS
  <2>1. HistoryNext \/ FilterChange \/ UNCHANGED historyVars
    BY DEF Next, Traffic, vars
  <2>2. CASE UNCHANGED historyVars
    BY <2>2 DEF historyVars, Charted
  <2> QED
    BY <2>1, <2>2, ChartsSound
<1>3. Charted => ChartIsTrue
  <2> SUFFICES ASSUME Charted, chart.points # <<>>
               PROVE  /\ Truly(chart.points, chart.of) /\ chart.of.n \in Lengths
                      /\ chart.keys \in Fields(chart.range)
    BY DEF ChartIsTrue, Truly
  <2> QED
    BY DEF Charted, Sound
<1> QED
  BY <1>1, <1>2, <1>3, PTL DEF Spec
=============================================================================
