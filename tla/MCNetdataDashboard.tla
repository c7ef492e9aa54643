-------------------------- MODULE MCNetdataDashboard --------------------------
(***************************************************************************)
(* Instances of the dashboard page: each scenario runs one part of it, and *)
(* says what is done there, how often, and how much fails.                 *)
(***************************************************************************)
EXTENDS NetdataDashboard

Scenario(part, does, acts, fails) ==
    [part |-> part, does |-> does, acts |-> acts, fails |-> fails]

MCScenarios == {
    Scenario("view", {"pan", "highlight", "linked"}, 3, 0),
    Scenario("view", {"pan", "dialog", "options"}, 4, 0),
    Scenario("view", {"pan", "dialog", "alarm", "showAlarms"}, 3, 0),
    Scenario("view", {"dialog", "import", "menu", "remote"}, 4, 1),
    Scenario("view", {"highlight", "print", "linked"}, 2, 1),
    Scenario("export", {"dialog", "export", "pan"}, 4, 1),
    Scenario("nodes", {"signIn", "signOut", "sync"}, 3, 1),
    Scenario("nodes", {"signIn", "redirect", "filter"}, 2, 1),
    Scenario("nodes", {"switch", "delete"}, 3, 1),
    Scenario("nodes", {"signIn", "delete"}, 3, 1),
    Scenario("goto", {"goto"}, 2, 1),
    Scenario("alarms", {"alarm"}, 2, 1),
    Scenario("alarms", {"alarm", "reload"}, 2, 0),
    Scenario("alarms", {"alarm", "unhealthy", "list", "export"}, 3, 0),
    Scenario("alarms", {"alarm", "import"}, 2, 0),
    Scenario("scales", {"data"}, 4, 0),
    Scenario("scales", {"data", "select", "scroll"}, 3, 0),
    Scenario("scales", {"color"}, 3, 0),
    Scenario("dimensions", {"names", "click", "recreate"}, 5, 0),
    Scenario("menu", {"render", "import"}, 2, 0),
    Scenario("menu", {"render", "paper"}, 1, 0) }

(* Two nodes at two addresses, of which the registry hides one.            *)
MCGuids == {"me", "box"}
MCUrls == {"home", "***"}
MCMe == [guid |-> "me", url |-> "home"]
MCLists == {{}, {[guid |-> "box", url |-> "home"]}, [guid : MCGuids, url : MCUrls]}

MCAlarms == { [name |-> "load", chart |-> "id", family |-> "load", priority |-> 1],
              [name |-> "disk", chart |-> "name", family |-> "disk", priority |-> 2] }

MCPalette == <<"blue", "red">>

(* A QoS device in both directions, and menus and submenus whose priority  *)
(* is that of the second chart, or ties.                                   *)
Chart(id, type, family, name, priority) ==
    [id |-> id, type |-> type, family |-> <<family>>, name |-> name, priority |-> priority,
     qos |-> FALSE, ifb |-> FALSE, kvm |-> FALSE, mainheads |-> FALSE, heads |-> FALSE]
MCCatalogue == {
    [Chart("tc.eth0", <<"tc">>, "eth0", <<"lan", "out">>, 7) EXCEPT !.qos = TRUE],
    [Chart("tc.eth0-ifb", <<"tc">>, "eth0", <<"lan", "in">>, 7)
        EXCEPT !.qos = TRUE, !.ifb = TRUE, !.heads = TRUE],
    [Chart("net.eth0", <<"net">>, "eth0", <<"eth0">>, 7) EXCEPT !.mainheads = TRUE],
    Chart("net.lo", <<"net">>, "lo", <<"lo">>, 6),
    Chart("system.ip", <<"system">>, "ip", <<"ip">>, 6),
    Chart("system.io", <<"system">>, "ip", <<"io">>, 8) }
MCAlphabetical == <<<<"net">>, <<"system">>, <<"tc">>, <<"eth0">>, <<"io">>, <<"ip">>,
                    <<"lan", "in">>, <<"lan", "out">>, <<"lo">>>>
=============================================================================
