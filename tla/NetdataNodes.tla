----------------------------- MODULE NetdataNodes -----------------------------
(***************************************************************************)
(* The list of nodes in the my-netdata menu (main.js, NETDATA.registry of  *)
(* dashboard.js): what the registry knows of this browser, what netdata    *)
(* cloud knows of the account, how the two are synchronised, and the       *)
(* search for an address of a node at which it can be reached.             *)
(***************************************************************************)
EXTENDS NetdataBase

CONSTANTS Guids, Urls,  \* nodes, and addresses of nodes
          Masked,       \* what the registry has for an address it was not to know
          Me,           \* this node: [guid, url]
          Lists         \* what the registry and the cloud may hold
Entries == [guid : Guids, url : Urls]
ASSUME NodesAssumption ==
    Me \in Entries /\ Masked \in Urls /\ Lists \subseteq SUBSET Entries
Unmasked(list) == { e \in list : e.url # Masked }

VARIABLES
    nodes,      \* registryAgents, cloudAgents, NETDATA.registry.machines, the menu, the
                \* account, and what localStorage keeps
    calls,      \* the requests on their way, in the order they were sent
    search,     \* the dialog that looks for a node
    world       \* what the registry and the cloud hold (external)

nodesVars == <<nodes, calls, search, world>>

(* A list of agents is the set of their addresses; it is optional where    *)
(* the registry may never have answered.                                   *)
UrlsOf(list, guid) == { e.url : e \in { x \in list : x.guid = guid } }

NewNodes == [registry |-> <<>>, array |-> <<>>, cloud |-> {}, machines |-> {}, menu |-> "empty",
             list |-> {}, kept |-> <<>>, account |-> FALSE, synced |-> FALSE, server |-> "own",
             delete |-> <<>>, threw |-> FALSE]
NewSearch == [answer |-> "none", remaining |-> 0, stop |-> FALSE, runs |-> <<>>, checks |-> {},
              rows |-> {}]

IsSignedIn(n) == n.account
IsRegistryEnabled(n) == n.server # "global" /\ ~IsSignedIn(n)

-----------------------------------------------------------------------------
(* The menu.                                                               *)

(* renderMachines(): a list is kept for the time the registry fails.       *)
RenderMachines(n, list) ==
    IF list # <<>> THEN [n EXCEPT !.list = list[1], !.kept = list]
    ELSE [n EXCEPT !.list = IF n.kept = <<>> THEN {} ELSE n.kept[1]]

ClearMyNetdataMenu(n) == [n EXCEPT !.menu = "loading"]
ErrorMyNetdataMenu(n) == [n EXCEPT !.menu = "error"]

RenderMyNetdataMenu(n, list) ==
    [IF IsSignedIn(n) \/ IsRegistryEnabled(n) THEN RenderMachines(n, list) ELSE n
     EXCEPT !.menu = "rendered"]

(* updateMyNetdataAfterFilterChange(): a filter typed in draws the list of *)
(* the cloud.                                                              *)
FilterChanges ==
    /\ nodes.menu = "rendered" /\ IsSignedIn(nodes) /\ Does("filter")
    /\ nodes' = RenderMachines(nodes, <<nodes.cloud>>)
    /\ UNCHANGED <<calls, search, world>>

-----------------------------------------------------------------------------
(* The registry: a hello to this node tells which one, an access to it     *)
(* tells the nodes, or sends on to another registry.                       *)

Ask(call) == calls' = Append(calls, call)
AskFor(i, call) == calls' = Append(RemoveAt(calls, i), call)
Answered(i) == calls' = RemoveAt(calls, i)

RegistryInit == [kind |-> "hello"]
Access(redirects) == [kind |-> "access", redirects |-> redirects]

HelloArrives(i, ok) ==
    /\ calls[i].kind = "hello" /\ Fails(ok)
    /\ IF ok THEN AskFor(i, Access(2)) ELSE Answered(i)
    /\ UNCHANGED <<nodes, search, world>>

(* parsePersonUrls(): masked addresses are left out before; the last list  *)
(* stays if none comes.                                                    *)
ParsePersonUrls(n, urls) ==
    IF urls = <<>> THEN n
    ELSE [n EXCEPT !.machines = urls[1], !.array = urls]

(* initCloud(): without a cloud, or with another, the account is left.     *)
InitCloud(n) ==
    IF world.enabled THEN n ELSE [n EXCEPT !.account = FALSE, !.synced = FALSE]

(* netdataRegistryCallback(): the nodes of an account are asked for.       *)
NetdataRegistryCallback(n, list) ==
    LET m == [InitCloud(n) EXCEPT !.registry = list] IN
    IF IsSignedIn(m) THEN ClearMyNetdataMenu(m) ELSE RenderMyNetdataMenu(m, list)

GetCloudAccountAgents == [kind |-> "fetch"]
Registered(i, n, list) ==
    \E m \in { NetdataRegistryCallback(n, list) } :
        /\ nodes' = m
        /\ calls' = (IF i = 0 THEN calls ELSE RemoveAt(calls, i))
                    \o (IF IsSignedIn(m) THEN <<GetCloudAccountAgents>> ELSE <<>>)

AccessArrives(i, ok) ==
    /\ calls[i].kind = "access" /\ Fails(ok)
    /\ \E m \in { ParsePersonUrls(nodes, IF ok THEN <<Unmasked(world.registry)>> ELSE <<>>) } :
           Registered(i, m, m.array)
    /\ UNCHANGED <<search, world>>
AccessRedirected(i) ==
    /\ calls[i].kind = "access" /\ calls[i].redirects > 0 /\ Does("redirect")
    /\ AskFor(i, Access(calls[i].redirects - 1))
    /\ nodes' = [nodes EXCEPT !.server = "other"]
    /\ UNCHANGED <<search, world>>

(* notifyForSwitchRegistry(): the registry takes this browser for another  *)
(* person, who knows other nodes.                                          *)
NotifyForSwitchRegistry ==
    /\ nodes.menu = "rendered" /\ ~IsSignedIn(nodes) /\ Does("switch")
    /\ Ask([kind |-> "switch"]) /\ UNCHANGED <<nodes, search, world>>
SwitchArrives(i, ok, urls) ==
    /\ calls[i].kind = "switch" /\ Fails(ok)
    /\ world' = IF ok THEN [world EXCEPT !.registry = urls] ELSE world
    /\ IF ok THEN AskFor(i, RegistryInit) ELSE Answered(i)
    /\ UNCHANGED <<nodes, search>>

-----------------------------------------------------------------------------
(* The cloud account.                                                      *)

(* handleSignInMessage(), handleSignOutMessage(): the page in the iframe   *)
(* tells.                                                                  *)
SignInMessage ==
    /\ nodes.menu # "empty" /\ world.enabled /\ Does("signIn")
    /\ Registered(0, [nodes EXCEPT !.account = TRUE], nodes.registry)
    /\ UNCHANGED <<search, world>>
SignOutMessage ==
    /\ IsSignedIn(nodes) /\ Does("signOut")
    /\ \E n \in { [nodes EXCEPT !.account = FALSE] } :
           nodes' = RenderMyNetdataMenu(n, n.registry)
    /\ UNCHANGED <<calls, search, world>>

(* mergeAgents(): the union, or nothing if the cloud knows it all.         *)
MergeAgents(cloud, local) == IF local \subseteq cloud THEN <<>> ELSE <<cloud \cup local>>

(* postCloudAccountAgents(): what is sent replaces what the cloud has.     *)
PostCloudAccountAgents(agents) ==
    [kind |-> "post", agents |-> Unmasked(agents), done |-> FALSE]

(* The callback of syncAgents().                                           *)
ShowCloud(n) ==
    RenderMyNetdataMenu([n EXCEPT !.machines = n.cloud, !.array = <<n.cloud>>], <<n.cloud>>)

(* syncAgents(): the first time, all that the registry knows goes to the   *)
(* cloud, later this node only.  It throws if the registry never answered, *)
(* and if the account was left meanwhile.                                  *)
SyncAgents(i, n) ==
    LET merged == MergeAgents(n.cloud, IF n.synced THEN {Me} ELSE n.registry[1] \cup {Me})
    IN IF ~n.synced /\ n.registry = <<>>
       THEN nodes' = [n EXCEPT !.threw = TRUE] /\ Answered(i)
       ELSE IF merged = <<>>
       THEN nodes' = ShowCloud([n EXCEPT !.synced = TRUE]) /\ Answered(i)
       ELSE IF IsSignedIn(n)
       THEN /\ nodes' = [n EXCEPT !.synced = TRUE]
            /\ AskFor(i, PostCloudAccountAgents(merged[1]))
       ELSE nodes' = [n EXCEPT !.synced = TRUE, !.threw = TRUE] /\ Answered(i)

(* A cloud that does not answer is passed over.                            *)
CloudFailsSilently(i, ok) ==
    /\ calls[i].kind = "fetch" /\ Fails(ok)
    /\ IF ok THEN SyncAgents(i, [nodes EXCEPT !.cloud = world.cloud])
             ELSE UNCHANGED nodes /\ Answered(i)
    /\ UNCHANGED <<search, world>>

CloudAgentsArrive(i, ok) ==
    /\ calls[i].kind = "fetch" /\ Fails(ok)
    /\ IF ok THEN SyncAgents(i, [nodes EXCEPT !.cloud = world.cloud])
             ELSE nodes' = ErrorMyNetdataMenu(nodes) /\ Answered(i)
    /\ UNCHANGED <<search, world>>

(* The cloud takes a list, and its answer comes; nothing catches a failure.*)
PostIsTaken(i) ==
    /\ calls[i].kind = "post" /\ ~calls[i].done
    /\ world' = [world EXCEPT !.cloud = calls[i].agents]
    /\ calls' = [calls EXCEPT ![i].done = TRUE]
    /\ UNCHANGED <<nodes, search, budget>>
PostArrives(i, ok) ==
    /\ calls[i].kind = "post" /\ (ok => calls[i].done) /\ Fails(ok)
    /\ nodes' = IF ok THEN ShowCloud([nodes EXCEPT !.cloud = calls[i].agents])
                ELSE [nodes EXCEPT !.threw = TRUE]
    /\ Answered(i) /\ UNCHANGED <<search, world>>

(* explicitlySyncAgents(): the next synchronisation is a first one.        *)
ExplicitlySyncAgents ==
    /\ IsSignedIn(nodes) /\ nodes.menu = "rendered" /\ Does("sync")
    /\ nodes' = [nodes EXCEPT !.synced = FALSE]
    /\ Ask(RegistryInit) /\ UNCHANGED <<search, world>>

-----------------------------------------------------------------------------
(* An address is deleted: in the cloud, for an account, and then in the    *)
(* registry whichever the dialog is about by then.                         *)

DeleteRegistryModalHandler(entry) ==
    /\ nodes.menu = "rendered" /\ entry \in nodes.list /\ Does("delete")
    /\ nodes' = [nodes EXCEPT !.delete = <<entry>>]
    /\ UNCHANGED <<calls, search, world>>

NotifyForDeleteRegistry ==
    /\ nodes.delete # <<>> /\ Does("delete")
    /\ Ask([kind |-> IF IsSignedIn(nodes) THEN "cloudDelete" ELSE "registryDelete",
            entry |-> nodes.delete[1]])
    /\ UNCHANGED <<nodes, search, world>>

CloudDeleteArrives(i, ok) ==
    /\ calls[i].kind = "cloudDelete" /\ Fails(ok)
    /\ IF ok
       THEN /\ world' = [world EXCEPT !.cloud = @ \ {calls[i].entry}]
            /\ AskFor(i, [kind |-> "registryDelete",
                          entry |-> IF nodes.delete = <<>> THEN calls[i].entry
                                    ELSE nodes.delete[1]])
       ELSE UNCHANGED world /\ Answered(i)
    /\ UNCHANGED <<nodes, search>>

(* With an account a refusal of the registry is passed over.               *)
RegistryDeleteArrives(i, ok) ==
    /\ calls[i].kind = "registryDelete" /\ Fails(ok)
    /\ world' = IF ok THEN [world EXCEPT !.registry = @ \ {calls[i].entry}] ELSE world
    /\ IF ok \/ IsSignedIn(nodes)
       THEN nodes' = [nodes EXCEPT !.delete = <<>>] /\ AskFor(i, RegistryInit)
       ELSE UNCHANGED nodes /\ Answered(i)
    /\ UNCHANGED search

-----------------------------------------------------------------------------
(* The search: every known address of a node is asked for its hello, and   *)
(* the first that is this node is gone to.                                 *)

(* gotoServerValidateUrl(): one after the other, https later; the row of   *)
(* each in the list has the node and the number of the address for its id. *)
Checks(run, urls, before) ==
    { [run |-> run, url |-> urls[k], id |-> before + k, sent |-> FALSE] : k \in DOMAIN urls }
RowOf(c) == <<search.runs[c.run].guid, c.id>>

(* What a search starts with.                                              *)
Started(guid, urls) ==
    LET run == [guid |-> guid, checked |-> Range(urls),
                later |-> IF IsSignedIn(nodes) THEN "no" ELSE "timer"]
    IN [search EXCEPT !.answer = "none", !.remaining = Len(urls), !.rows = {},
                      !.runs = Append(@, run),
                      !.checks = @ \cup Checks(Len(search.runs) + 1, urls, 0)]

(* A search that was stopped once stays so.                                *)
GotoStopped(guid) ==
    /\ nodes.menu = "rendered" /\ UrlsOf(nodes.machines, guid) # {} /\ Does("goto")
    /\ \E urls \in SetToSeqs(UrlsOf(nodes.machines, guid)) : search' = Started(guid, urls)
    /\ UNCHANGED <<nodes, calls, world>>

(* gotoServerModalHandler(): a search before goes on, but the rows of what *)
(* it asked are gone; it takes what this one starts with for its own.      *)
(* Without an account the registry is asked for more addresses later.      *)
GotoServerModalHandler(guid) ==
    /\ nodes.menu = "rendered" /\ UrlsOf(nodes.machines, guid) # {} /\ Does("goto")
    /\ \E urls \in SetToSeqs(UrlsOf(nodes.machines, guid)) :
           search' = [Started(guid, urls) EXCEPT !.stop = FALSE]
    /\ UNCHANGED <<nodes, calls, world>>

CheckIsSent(c) ==
    /\ c \in search.checks /\ ~c.sent
    /\ search' = [search EXCEPT !.checks = (@ \ {c}) \cup {[c EXCEPT !.sent = TRUE]},
                                !.rows = @ \cup {RowOf(c)}]
    /\ UNCHANGED <<nodes, calls, world, budget>>

(* The node answers, or nobody or another node does.  An answer whose row  *)
(* a later search emptied throws, unless that search made one of the same  *)
(* id since.                                                               *)
CheckSucceeds(s) == IF s.stop THEN s ELSE [s EXCEPT !.stop = TRUE, !.answer = "found"]
CheckFails(s) ==
    LET remaining == s.remaining - 1 IN
    [s EXCEPT !.remaining = remaining, !.answer = IF remaining <= 0 THEN "sorry" ELSE @]
CheckAnswers(c, ok) ==
    /\ c \in search.checks /\ c.sent
    /\ \E s \in { [search EXCEPT !.checks = @ \ {c}] } :
           search' = IF RowOf(c) \notin search.rows THEN s
                     ELSE IF ok THEN CheckSucceeds(s) ELSE CheckFails(s)
    /\ UNCHANGED <<nodes, calls, world, budget>>

(* Two seconds later, the verdict so far is written over.                  *)
LaterComes(r) ==
    /\ r \in DOMAIN search.runs /\ search.runs[r].later = "timer"
    /\ search' = IF search.stop THEN [search EXCEPT !.runs[r].later = "no"]
                 ELSE [search EXCEPT !.runs[r].later = "asked", !.answer = "added"]
    /\ UNCHANGED <<nodes, calls, world, budget>>
SearchArrives(r, ok) ==
    /\ r \in DOMAIN search.runs /\ search.runs[r].later = "asked" /\ Fails(ok)
    /\ \E new \in SetToSeqs(IF ok THEN UrlsOf(world.registry, search.runs[r].guid)
                                         \ search.runs[r].checked ELSE {}) :
           search' = [search EXCEPT !.runs[r].later = "no",
                          !.runs[r].checked = @ \cup Range(new), !.remaining = @ + Len(new),
                          !.checks = @ \cup Checks(r, new, Cardinality(search.runs[r].checked))]
    /\ UNCHANGED <<nodes, calls, world>>

-----------------------------------------------------------------------------
NodesInit ==
    /\ nodes = NewNodes /\ search = NewSearch
    /\ calls = IF Runs("nodes") \/ Runs("goto") THEN <<RegistryInit>> ELSE <<>>
    /\ world \in IF Runs("nodes")
                 THEN [registry : Lists, cloud : Lists, enabled : BOOLEAN]
                 ELSE [registry : IF Runs("goto") THEN Lists ELSE {{}},
                       cloud : {{}}, enabled : {FALSE}]

CallArrives(i, ok) ==
    \/ HelloArrives(i, ok) \/ AccessArrives(i, ok) \/ CloudAgentsArrive(i, ok)
    \/ PostArrives(i, ok) \/ CloudDeleteArrives(i, ok) \/ RegistryDeleteArrives(i, ok)
    \/ \E urls \in Lists : SwitchArrives(i, ok, urls)

NodesNext ==
    /\ Runs("nodes") \/ Runs("goto")
    /\ \/ \E i \in DOMAIN calls : AccessRedirected(i) \/ PostIsTaken(i)
       \/ \E i \in DOMAIN calls, ok \in BOOLEAN : CallArrives(i, ok)
       \/ FilterChanges \/ SignInMessage \/ SignOutMessage \/ ExplicitlySyncAgents
       \/ NotifyForSwitchRegistry \/ NotifyForDeleteRegistry
       \/ \E entry \in Entries : DeleteRegistryModalHandler(entry)
       \/ \E guid \in Guids : GotoServerModalHandler(guid)
       \/ \E c \in search.checks : CheckIsSent(c)
       \/ \E c \in search.checks, ok \in BOOLEAN : CheckAnswers(c, ok)
       \/ \E r \in DOMAIN search.runs : LaterComes(r)
       \/ \E r \in DOMAIN search.runs, ok \in BOOLEAN : SearchArrives(r, ok)

(* Every request ends, and timers fire.                                    *)
NodesFairness ==
    /\ WF_<<nodesVars, budget>>(calls # <<>> /\ (PostIsTaken(1) \/ \E ok \in BOOLEAN : CallArrives(1, ok)))
    /\ WF_<<nodesVars, budget>>(\E c \in search.checks : CheckIsSent(c))
    /\ WF_<<nodesVars, budget>>(\E c \in search.checks, ok \in BOOLEAN : CheckAnswers(c, ok))
    /\ WF_<<nodesVars, budget>>(\E r \in DOMAIN search.runs : LaterComes(r))
    /\ WF_<<nodesVars, budget>>(\E r \in DOMAIN search.runs, ok \in BOOLEAN : SearchArrives(r, ok))

-----------------------------------------------------------------------------
(* The menu does not stay on "Loading": whoever signs in or out meanwhile  *)
(* and whatever fails, it ends up with a list or an error, unless a        *)
(* synchronisation threw (netdataRegistryCallback(), main.js), which       *)
(* nothing catches.                                                        *)
MenuIsRendered == nodes.menu = "loading" ~> nodes.menu # "loading" \/ nodes.threw

(* A search for a node ends with the node or with an apology, or with all  *)
(* its addresses checked and the note of the second round of addresses     *)
(* over the apology (gotoServerModalHandler(), main.js), whatever of       *)
(* another search goes on.                                                 *)
SearchEnds ==
    search.answer = "none" /\ search.runs # <<>> ~>
        \/ search.answer \in {"found", "sorry"}
        \/ search.answer = "added" /\ search.checks = {}

(* What the user asked the registry or the cloud for comes to an end       *)
(* (renderMyNetdataMenu(), gotoServerModalHandler(), main.js).             *)
NodesSettle == MenuIsRendered /\ SearchEnds
=============================================================================
