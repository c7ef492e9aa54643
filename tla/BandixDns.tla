------------------------------ MODULE BandixDns ------------------------------
(***************************************************************************)
(* The DNS page of bandix (view/bandix/dns.js): the list of DNS queries,   *)
(* filtered and in pages, asked for by whatever is typed, chosen or        *)
(* clicked, and the statistics over it, which are polled.  Replies come in *)
(* any order.  A query puts an overlay over the list, or uses the one that *)
(* is there; the refresh button puts a mask there as well.                 *)
(***************************************************************************)
EXTENDS BandixBase

CONSTANTS Filters,      \* what the filters can say
          MaxPage,      \* bound: pages of a list
          Sizes,        \* page sizes
          Asks          \* slots of queries in flight

NoFilter == CHOOSE f \in Filters : TRUE
FirstSize == CHOOSE z \in Sizes : TRUE
FirstAsk == CHOOSE i \in Asks : TRUE
ASSUME DnsAssumption ==
    /\ Filters # {} /\ Sizes # {} /\ MaxPage \in Nat \ {0}
    /\ IsFiniteSet(Asks) /\ Asks \subseteq Nat \ {0} /\ Asks # {}

VARIABLES
    records,    \* external: the pages that a filter has
    search,     \* the inputs, searchTimer, currentFilters, currentPage, pageSize
    result,     \* dns-queries-container: what it shows, its overlay, mask and button
    asked,      \* queries in flight, with the overlay each will remove
    stats       \* dns-stats-grid and its calls in flight

dnsVars == <<records, search, result, asked, stats>>

NotAsked == [filter |-> None, page |-> 0, size |-> 0, overlay |-> FALSE, refresh |-> FALSE]
(* What is shown: a table or a line in its place.  The pages under a table *)
(* tell the page and size in force when it is shown, not those of the      *)
(* query.                                                                  *)
Table(q, of) == [kind |-> "table", filter |-> q.filter, page |-> q.page, size |-> q.size,
                 told |-> [page |-> search.page, size |-> search.size, of |-> of]]
Untold == [page |-> 0, size |-> 0, of |-> 0]
Line(kind, q) == [kind |-> kind, filter |-> q.filter, page |-> q.page, size |-> q.size,
                  told |-> Untold]

(* updateQueries(): a query of the filters, page and size in force.        *)
UpdateQueries(s, refresh) ==
    \E i \in Asks :
        /\ asked[i] = NotAsked
        /\ asked' = [asked EXCEPT ![i] =
                        [filter |-> s.filter, page |-> s.page, size |-> s.size,
                         overlay |-> TRUE, refresh |-> refresh]]
        /\ search' = s
        /\ result' = [result EXCEPT !.overlay = TRUE, !.mask = @ \/ refresh,
                                    !.busy = @ \/ refresh]

-----------------------------------------------------------------------------
(* performSearch() and debounceSearch(): typing waits, choosing does not.  *)

PerformSearch(s) ==
    UpdateQueries([s EXCEPT !.filter = s.typed, !.page = 1], FALSE)

Type(f) ==
    /\ f # search.typed /\ Runs("dns") /\ Does("search")
    /\ search' = [search EXCEPT !.typed = f, !.timer = TRUE]
    /\ UNCHANGED <<records, result, asked, stats, select>>

(* SearchTimer that searches for what was typed before.                    *)
SearchTimerLate ==
    /\ search.timer
    /\ UpdateQueries([search EXCEPT !.timer = FALSE, !.page = 1], FALSE)
    /\ UNCHANGED <<records, stats, select, budget>>

SearchTimer ==
    /\ search.timer
    /\ PerformSearch([search EXCEPT !.timer = FALSE])
    /\ UNCHANGED <<records, stats, select, budget>>

ChooseFilter(f) ==
    /\ f # search.typed /\ Runs("dns") /\ Does("search")
    /\ PerformSearch([search EXCEPT !.typed = f])
    /\ UNCHANGED <<records, stats, select>>

(* The pages under a table: those buttons know how many pages it had.      *)
PrevPage ==
    /\ result.shown.kind = "table" /\ search.page > 1 /\ result.shown.told.page > 1
    /\ Does("page")
    /\ UpdateQueries([search EXCEPT !.page = @ - 1], FALSE)
    /\ UNCHANGED <<records, stats, select>>

NextPage ==
    /\ result.shown.kind = "table" /\ search.page < result.shown.told.of
    /\ result.shown.told.page < result.shown.told.of
    /\ Does("page")
    /\ UpdateQueries([search EXCEPT !.page = @ + 1], FALSE)
    /\ UNCHANGED <<records, stats, select>>

PageSize(z) ==
    /\ result.shown.kind = "table" /\ z # result.shown.told.size /\ Does("page")
    /\ UpdateQueries([search EXCEPT !.size = z, !.page = 1], FALSE)
    /\ UNCHANGED <<records, stats, select>>

(* The refresh button, disabled until its own query has ended.             *)
RefreshQueries ==
    /\ Runs("dns") /\ ~result.busy /\ Does("refresh")
    /\ UpdateQueries(search, TRUE)
    /\ stats' = [stats EXCEPT !.asked = @ \cup {"page"}]
    /\ UNCHANGED <<records, select>>

-----------------------------------------------------------------------------
(* Replies.                                                                *)

Hide(i) ==
    [j \in Asks |-> IF j = i THEN NotAsked
                    ELSE [asked[j] EXCEPT !.overlay = @ /\ ~asked[i].overlay]]
(* The overlay of a call goes with its reply; what replaces the whole      *)
(* container takes any overlay away.                                       *)
Left(i, replaces) == result.overlay /\ ~asked[i].overlay /\ ~replaces
Told(shown, i, replaces) ==
    /\ result' = [shown |-> shown, overlay |-> Left(i, replaces), mask |-> FALSE,
                  busy |-> result.busy /\ ~asked[i].refresh]
    /\ asked' = IF replaces
                THEN [[j \in Asks |-> [asked[j] EXCEPT !.overlay = FALSE]] EXCEPT ![i] = NotAsked]
                ELSE Hide(i)

QueriesArrive(i) ==
    LET q == asked[i] of == records[q.filter] IN
    /\ q # NotAsked
    /\ IF q.page <= of THEN Told(Table(q, of), i, FALSE) ELSE Told(Line("empty", q), i, TRUE)
    /\ UNCHANGED <<records, search, stats, select, budget>>

(* QueriesFail() with an error that leaves the mask where it is.           *)
QueriesFailMasked(i) ==
    LET q == asked[i] IN
    /\ q # NotAsked /\ Spend("fails")
    /\ result' = [shown |-> Line("error", q), overlay |-> Left(i, TRUE), mask |-> result.mask,
                  busy |-> result.busy /\ ~q.refresh]
    /\ asked' = [[j \in Asks |-> [asked[j] EXCEPT !.overlay = FALSE]] EXCEPT ![i] = NotAsked]
    /\ UNCHANGED <<records, search, stats, select>>

(* Without data, and in .catch, an error replaces the container.           *)
QueriesFail(i) ==
    LET q == asked[i] IN
    /\ q # NotAsked /\ Spend("fails")
    /\ Told(Line("error", q), i, TRUE)
    /\ UNCHANGED <<records, search, stats, select>>

(* updateStats(): polled every second, and called by the refresh button.   *)
PollStats ==
    /\ Runs("dns") /\ "poll" \notin stats.asked
    /\ stats' = [stats EXCEPT !.asked = @ \cup {"poll"}]
    /\ UNCHANGED <<records, search, result, asked, select, budget>>

StatsArrive(who, good) ==
    /\ who \in stats.asked
    /\ IF good THEN UNCHANGED budget ELSE Spend("fails")
    /\ stats' = [asked |-> stats.asked \ {who}, there |-> good]
    /\ UNCHANGED <<records, search, result, asked, select>>

(* DNS queries are recorded and forgotten.                                 *)
RecordsChange ==
    /\ Runs("dns") /\ Does("records")
    /\ \E f \in Filters, n \in 0..MaxPage : records' = [records EXCEPT ![f] = n]
    /\ UNCHANGED <<search, result, asked, stats, select>>

-----------------------------------------------------------------------------
DnsInit ==
    /\ records = [f \in Filters |-> MaxPage]
    /\ search = [typed |-> NoFilter, timer |-> FALSE, filter |-> NoFilter, page |-> 1,
                 size |-> FirstSize]
    /\ result = [shown |-> Line("loading", NotAsked), overlay |-> Runs("dns"),
                 mask |-> FALSE, busy |-> FALSE]
    /\ asked = [i \in Asks |->
                  IF i = FirstAsk /\ Runs("dns")
                  THEN [filter |-> NoFilter, page |-> 1, size |-> FirstSize, overlay |-> TRUE,
                        refresh |-> FALSE]
                  ELSE NotAsked]
    /\ stats = [asked |-> IF Runs("dns") THEN {"page"} ELSE {}, there |-> FALSE]

DnsNext ==
    \/ \E f \in Filters : Type(f) \/ ChooseFilter(f)
    \/ SearchTimer \/ PrevPage \/ NextPage \/ \E z \in Sizes : PageSize(z)
    \/ RefreshQueries \/ RecordsChange \/ PollStats
    \/ \E who \in {"page", "poll"}, good \in BOOLEAN : StatsArrive(who, good)
    \/ \E i \in Asks : QueriesArrive(i) \/ QueriesFail(i)

DnsFairness ==
    /\ WF_<<dnsVars, select, budget>>(SearchTimer)
    /\ \A i \in Asks : WF_<<dnsVars, select, budget>>(QueriesArrive(i) \/ QueriesFail(i))

(* Nothing covers the list for good: its overlay, the mask and the         *)
(* disabled button are there only while a query that takes them away is in *)
(* flight (updateQueries, and the refresh button).                         *)
NothingCoversTheList ==
    /\ result.overlay => \E i \in Asks : asked[i].overlay
    /\ result.mask \/ result.busy => \E i \in Asks : asked[i].refresh

(* Unless two queries overlap, the list comes to be the answer to what the *)
(* inputs say: their filter, and the page and size in force                *)
(* (debounceSearch, performSearch).                                        *)
OneAtATime == \A i, j \in Asks : i # j => NotAsked \in {asked[i], asked[j]}
ListAnswers ==
    /\ result.shown.filter = search.typed
    /\ result.shown.page = search.page /\ result.shown.size = search.size
    /\ result.shown.kind = "table" =>
          result.shown.told.page = search.page /\ result.shown.told.size = search.size
ListFollowsTheInputs == Runs("dns") /\ []OneAtATime => <>[]ListAnswers
=============================================================================
