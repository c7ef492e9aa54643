----------------------------- MODULE NetdataMenu -----------------------------
(***************************************************************************)
(* How the charts of an agent, or of a snapshot, become the page           *)
(* (main.js): renderChartsAndMenu() files them one by one, as the agent    *)
(* lists them, in menus and submenus, and renderPage() lays those out.     *)
(* Names are sequences of the words they are made of.                      *)
(*                                                                         *)
(* Filing changes the charts themselves: the inbound charts of a device    *)
(* are given a lower priority, and so again when a snapshot of the page is *)
(* rendered.                                                               *)
(***************************************************************************)
EXTENDS NetdataBase, Integers

CONSTANTS Catalogue,        \* the charts there may be
          Alphabetical      \* the names of menus, families and charts in natural order

Words == Seq(STRING)
ASSUME MenuAssumption ==
    /\ Catalogue \subseteq [id : STRING, type : Words, family : Words, name : Words,
                            priority : Nat, qos : BOOLEAN, ifb : BOOLEAN, kvm : BOOLEAN,
                            mainheads : BOOLEAN, heads : BOOLEAN]
    /\ Alphabetical \in Seq(Words)

VARIABLES
    filing,     \* the charts that came, those filed, the menus and the names for families
    shown       \* what renderPage() has written, menu by menu

menuVars == <<filing, shown>>
Nothing == <<>>

Put(object, key, value) ==
    [k \in DOMAIN object \cup {key} |-> IF k = key THEN value ELSE object[k]]

-----------------------------------------------------------------------------
(* enrichChartData().                                                      *)

OneMenu == {"ap", "net", "disk", "powersupply", "statsd", "tc"}
Second == [apache |-> "cache", bind |-> "rndc", go |-> "expvar",
           isc |-> "dhcpd", smartd |-> "log", web |-> "log"]

MenuOf(chart) ==
    LET t == chart.type IN
    IF t[1] \in OneMenu THEN <<t[1]>>
    ELSE IF t[1] = "mount" THEN SubSeq(t, 1, IF Len(t) > 2 THEN 2 ELSE 1)
    ELSE t

(* No two charts of a submenu have one name, as all charts of an agent     *)
(* have their own.                                                         *)
ASSUME CatalogueAssumption ==
    \A c \in Catalogue :
        /\ {MenuOf(c), c.family, c.name} \subseteq ToSet(Alphabetical)
        /\ \A d \in Catalogue :
             MenuOf(c) = MenuOf(d) /\ c.family = d.family /\ c.name = d.name => c = d

MenuPattern(chart) ==
    LET t == chart.type IN
    CASE t[1] \in OneMenu \cup {"mount"} -> Nothing
      [] t[1] = "cgroup" -> IF chart.kvm THEN <<"cgqemu">> ELSE <<"cgroup">>
      [] t[1] \in DOMAIN Second /\ Len(t) > 2 /\ t[2] = Second[t[1]] -> SubSeq(t, 1, 2)
      [] t[1] = "ovpn" /\ Len(t) > 3 /\ SubSeq(t, 2, 3) = <<"status", "log">> -> SubSeq(t, 1, 2)
      [] OTHER -> IF Len(t) > 1 THEN <<t[1]>> ELSE Nothing

(* The first QoS chart of a device names it, without the direction.        *)
Undirected(name) ==
    CASE Len(name) > 1 /\ Last(name) \in {"in", "out"} -> Front(name)
      [] Len(name) > 1 /\ Last(name) \notin {"in", "out"} /\ Head(name) \in {"in", "out"} -> Tail(name)
      [] OTHER -> name
Named(names, chart) ==
    LET f == chart.family IN
    IF chart.qos /\ (f \notin DOMAIN names \/ names[f] = f)
    THEN Put(names, f, Undirected(chart.name))
    ELSE names
Enriched(chart) == IF chart.ifb THEN [chart EXCEPT !.priority = @ - 1] ELSE chart

-----------------------------------------------------------------------------
(* renderChartsAndMenu().                                                  *)

MenuTitle(chart) ==
    LET key == MenuPattern(chart) IN
    IF key = Nothing THEN [title |-> MenuOf(chart), of |-> Nothing]
    ELSE [title |-> key, of |-> SubSeq(chart.type, Len(key) + 1, Len(chart.type))]

NewMenu(chart) ==
    [pattern |-> MenuPattern(chart), priority |-> chart.priority,
     title |-> MenuTitle(chart), submenus |-> Nothing]
NewSubmenu(chart) == [priority |-> chart.priority, charts |-> {}]

(* The priority of a menu is that of the chart filed first.                *)
FiledFirst(menus, chart) ==
    LET m    == MenuOf(chart)
        menu == IF m \in DOMAIN menus THEN menus[m] ELSE NewMenu(chart)
        s    == chart.family
        sub  == IF s \in DOMAIN menu.submenus THEN menu.submenus[s] ELSE NewSubmenu(chart)
        into == [sub EXCEPT !.charts = @ \cup {chart}]
    IN Put(menus, m, [menu EXCEPT !.submenus = Put(@, s, into)])

Filed(menus, chart) ==
    LET m    == MenuOf(chart)
        menu == IF m \in DOMAIN menus THEN menus[m] ELSE NewMenu(chart)
        s    == chart.family
        sub  == IF s \in DOMAIN menu.submenus THEN menu.submenus[s] ELSE NewSubmenu(chart)
        into == [priority |-> Min({sub.priority, chart.priority}),
                 charts |-> sub.charts \cup {chart}]
    IN Put(menus, m, [menu EXCEPT !.pattern = IF @ = Nothing THEN MenuPattern(chart) ELSE @,
                                  !.priority = Min({@, chart.priority}),
                                  !.submenus = Put(@, s, into)])

(* The descriptive name is for the submenus of all menus.                  *)
SubmenuTitle(names, s) == IF s \in DOMAIN names THEN <<s, names[s]>> ELSE <<s>>

-----------------------------------------------------------------------------
(* renderPage(), the sections.                                             *)

Rank(name) == CHOOSE i \in DOMAIN Alphabetical : Alphabetical[i] = name
Before(p, a, q, b) == p < q \/ (p = q /\ Rank(a) < Rank(b))

(* The elements of S in the order of a set of pairs.                       *)
Sorted(S, before) ==
    [i \in 1..Cardinality(S) |->
        CHOOSE x \in S : Cardinality({ y \in S : <<y, x>> \in before }) = i - 1]

SortObjectByPriority(object) ==
    LET names == DOMAIN object IN
    Sorted(names, { p \in names \X names :
                      Before(object[p[1]].priority, p[1], object[p[2]].priority, p[2]) })
PrioritySort(charts) ==
    Sorted(charts, { p \in charts \X charts :
                       Before(p[1].priority, p[1].name, p[2].priority, p[2].name) })

(* headMain(): of each group the first chart the agent has.                *)
HeadGroups == <<<<"system.swap">>, <<"system.io", "system.pgpgio">>, <<"system.cpu">>,
                <<"system.net", "system.ip", "system.ipv4", "system.ipv6">>, <<"system.ram">>>>
HeadMain(ids) ==
    LET first(group) == SelectSeq(group, LAMBDA id : id \in ids)
        groups == SelectSeq(HeadGroups, LAMBDA group : first(group) # <<>>)
    IN [i \in DOMAIN groups |-> Head(first(groups[i]))]

(* generateHeadCharts(): those dashboard_info.js has for the chart's       *)
(* context; none when the page is printed, nor in the main head.           *)
GenerateHeadCharts(charts, which) ==
    IF page.print THEN <<>>
    ELSE [i \in 1..Len(SelectSeq(charts, LAMBDA c : c[which])) |->
             SelectSeq(charts, LAMBDA c : c[which])[i].id]

RenderSubmenu(names, s, submenu) ==
    LET charts == PrioritySort(submenu.charts) IN
    [submenu |-> s, title |-> SubmenuTitle(names, s),
     heads |-> GenerateHeadCharts(charts, "heads"),
     mainheads |-> GenerateHeadCharts(charts, "mainheads"), charts |-> charts]
RenderMenu(names, m, menu, mainhead) ==
    LET subs  == SortObjectByPriority(menu.submenus)
        parts == [i \in DOMAIN subs |-> RenderSubmenu(names, subs[i], menu.submenus[subs[i]])]
    IN [menu |-> m, title |-> menu.title, submenus |-> parts,
        mainhead |-> mainhead \o FlattenSeq([i \in DOMAIN parts |-> parts[i].mainheads])]
RenderSections(f) ==
    LET main == SortObjectByPriority(f.menus)
        head == IF page.print THEN <<>> ELSE HeadMain({ c.id : c \in f.filed })
    IN [i \in DOMAIN main |->
           RenderMenu(f.names, main[i], f.menus[main[i]], IF i = 1 THEN head ELSE <<>>)]

-----------------------------------------------------------------------------

Filing(charts) == [charts |-> charts, filed |-> {}, menus |-> Nothing, names |-> Nothing]

MenuDataArrive(charts) ==
    /\ shown = Nothing /\ filing.charts = {} /\ Does("render")
    /\ filing' = Filing(charts) /\ UNCHANGED shown

(* A snapshot of what is on the page is rendered in its place.             *)
SnapshotArrives ==
    /\ shown # Nothing /\ Does("import")
    /\ filing' = Filing(filing.filed) /\ shown' = Nothing

FileChart(c) ==
    /\ c \in filing.charts
    /\ filing' = [filing EXCEPT !.charts = @ \ {c}, !.filed = @ \cup {Enriched(c)},
                                !.menus = Filed(@, Enriched(c)), !.names = Named(@, c)]
    /\ UNCHANGED <<shown, budget>>

WritePage ==
    /\ filing.charts = {} /\ filing.filed # {} /\ shown = Nothing
    /\ shown' = RenderSections(filing)
    /\ UNCHANGED <<filing, budget>>

MenuInit == filing = Filing({}) /\ shown = Nothing
MenuNext ==
    /\ Runs("menu")
    /\ \/ \E charts \in SUBSET Catalogue : MenuDataArrive(charts)
       \/ SnapshotArrives \/ WritePage
       \/ \E c \in filing.charts : FileChart(c)

-----------------------------------------------------------------------------
(* Whatever the order the agent lists the charts in, the page shows each   *)
(* once, in its menu and submenu: menus by the lowest priority of their    *)
(* charts, submenus of a menu likewise, charts by their own, and names     *)
(* where those are equal; and a family has one title in all menus.         *)
ShownCharts == FlattenSeq([i \in DOMAIN shown |->
    FlattenSeq([j \in DOMAIN shown[i].submenus |-> shown[i].submenus[j].charts])])
Lowest(charts) == Min({ c.priority : c \in charts })
InMenu(c) == { d \in filing.filed : MenuOf(d) = MenuOf(c) }
InSubmenu(c) == { d \in InMenu(c) : d.family = c.family }
Precedes(c, d) ==
    IF MenuOf(c) # MenuOf(d)
    THEN Before(Lowest(InMenu(c)), MenuOf(c), Lowest(InMenu(d)), MenuOf(d))
    ELSE IF c.family # d.family
    THEN Before(Lowest(InSubmenu(c)), c.family, Lowest(InSubmenu(d)), d.family)
    ELSE Before(c.priority, c.name, d.priority, d.name)
Titles == UNION { { <<s.submenu, s.title>> : s \in ToSet(m.submenus) } : m \in ToSet(shown) }

ChartsAreInPlace ==
    shown # Nothing =>
        /\ ToSet(ShownCharts) = filing.filed /\ Len(ShownCharts) = Cardinality(filing.filed)
        /\ \A i, j \in DOMAIN ShownCharts : i < j => Precedes(ShownCharts[i], ShownCharts[j])
        /\ \A s, t \in Titles : s[1] = t[1] => s = t
=============================================================================
