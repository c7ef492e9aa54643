# Verification of openwrt-ipk

This directory holds TLA+ models of the programs in this repository that have
state worth arguing about, the TLC configurations that check them on small
instances, and TLAPS proofs of what should hold on every instance. Paths below
are relative to the root of the repository; `W/` stands for `mwan-2021/files/`,
`N/` for `luci-app-netdata/root/usr/share/netdata/webcn/`, `B/` for
`luci-app-bandix/htdocs/luci-static/resources/view/bandix/`, and `L/` for
`luci-app-log/htdocs/luci-static/resources/view/log-viewer/`.

The repository is a feed of OpenWrt packages. Many of them only fetch a program
and install it, or are web forms over a configuration. Those that decide
something at run time are of two kinds. On the router there are the multi-WAN
service mwan3, the congestion controller of qos-gargoyle, the libraries of
Gargoyle, and a few sets of shell scripts that several processes run at once. In
the browser there are pages that live: the netdata dashboard, the traffic, DNS
and connection pages of bandix, the log viewer, and the CPU and temperature
pages. They poll, their replies come in any order or not at all, timers and the
mouse come in between, and the state they keep outlives all of it.

To check a model: `tlc -workers 2 -config MCMwan3Service.cfg MCMwan3`.
To check proofs: `tlapm Mwan3Proofs.tla`.

## 1. The system

### mwan3 (`mwan-2021/`, modelled first)

mwan3 balances traffic over several WAN interfaces and takes an interface out of
use while its targets do not answer. Its parts are processes that share files,
one lock and the firewall.

| Part | Code | State it keeps | Operations |
|---|---|---|---|
| link tracker, one per interface | `W/usr/sbin/mwan3track` | a score, the flag IFDOWN_EVENT, the STATUS file | rounds of probes; runs `hotplug-call iface` with connected, ifdown, ifup, disconnected; traps TERM, INT and USR1 |
| hotplug scripts | `W/etc/hotplug.d/iface/15-mwan3`, `16-mwan3` | `iface_state/<iface>`, ip rules, route tables, iface_in chains, policy chains | run by netifd, by the command and by the trackers, one after the other under `/var/run/mwan3.lock` |
| command | `W/usr/sbin/mwan3` | uci state `globals.enabled` | start, stop, restart, ifup, ifdown |
| route monitor | `W/usr/sbin/mwan3rtmon` | none but its place in the loop | copies routes of the main table into the tables of the interfaces, under the lock |
| policies | `W/lib/mwan3/mwan3.sh:692-827` | one chain for each policy and family | rebuilt from the iface_state files by every ifup and ifdown |
| firewall marks | `W/lib/mwan3/mwan3.sh:125-219`, `:333-349`, `:507-601` | the file `mmx_mask`, uci state `iface_max`, ip rules, route tables | the first script after a stop settles the mask; every id becomes a mark, two rule numbers and a table |
| hook chain, user rules, sticky sets | `W/lib/mwan3/mwan3.sh:351-483`, `:829-1025` | mangle rules, ipsets | rebuilt with the policies |
| status reports | `W/usr/libexec/rpcd/mwan3`, `W/lib/mwan3/mwan3.sh:1040-1173` | none | read rules and files |
| web interface | `luci-app-mwan-2021`, `luci-app-mwan3helper` | the configuration | forms |

How they interact: netifd announces an interface by a hotplug-call, which starts
or signals a tracker and rebuilds the policies. The tracker comes back with a
hotplug-call of its own, waits for it, and, if it was an ifup, is killed and
replaced by the script that it is waiting for. `stop` kills trackers and route
monitor while it holds the lock, and flushes. `restart` is a stop and a start in
one process.

Hard here: any of these may come at any moment; scripts test `enabled` once and
act on it many commands later; processes are looked up by name and killed while
they wait for the lock or for a script; a signal may find the tracker without
its trap; a policy chain is edited while it is read and while the state it is
made from is one pass old. Correct is: two scripts never work at once; after
every script the policies use the interfaces that are online, with their shares,
and nothing else; a link is given up and taken back after as many rounds as
configured, and in the end what the network does is what the firewall does; when
it is stopped nothing is left or comes back.

### qosmon (`qos-gargoyle/src/qosmon.c`, modelled)

A daemon that pings a target and moves the upper limit of the root class of the
download device. State: a state machine (CHECK, INIT, IDLE, ACTIVE, REALTIME), a
filtered ping time, the longest ping time, the ping limit, the limit proposed,
one saved for each mode and the one last sent to the kernel. Inputs: replies,
which may be lost, late or of a ping sent two states ago; SIGUSR1 and SIGTERM;
the class tree, which may be built anew while it runs. Correct is: the limit
stays within its range and is the one in force, a measurement ends, lasting
congestion brings the limit down. `qos_gargoyle.init`, the hotplug script and the
web pages build classes and rules from the configuration in one pass and keep no
state.

### Libraries of Gargoyle

| Part | Code | State | Operations and what is hard |
|---|---|---|---|
| priority queue | `libericstools/src/priority_queue.c`, `list.c` | a map by id, a map by priority of lists of nodes, the first node | push, shift, remove by id, change of priority; three structures to keep in step, ids used twice, ids not there |
| AVL maps | `libericstools/src/tree_map.c` | a balanced tree; the string map keys it by hash | set, get, remove, rotations; balances after removals, two strings with one hash |
| strings and files | `libericstools/src/string_util.c`, `file_util.c`, `safe_malloc.c` | none | splitting, paths, allocation |
| libiptbwctl | `libiptbwctl/src/ipt_bwctl.c` | a System V semaphore shared by programs; buffers exchanged with the kernel module | lock and unlock by programs that time out or die; creation of the semaphore by whoever comes first; rebuilding the history of intervals |
| gargoyle-firewall-util | `gargoyle-firewall-util/src`, `files` | quota files | build rules, save and restore usage |

### Scripts run by several processes at once

| Part | Code | State | What is hard |
|---|---|---|---|
| pppoe-user | `luci-app-pppoe-user/root/etc/ppp/ip-up.d`, `ip-down.d` | session files, nftables rules by address | sessions that come and go at once under a lock that is not waited for |
| eqosplus | `luci-app-eqosplus/root/usr/bin/eqosplusctrl` | the set of limits that are on | windows of time, over midnight too, against start and stop of the service |
| qos-nft | `qos-nft/files` | one nftables file | written anew at each event |

### The netdata dashboard (`luci-app-netdata`, modelled)

A page of charts in one thread of JavaScript, where every callback runs to its
end and the next may be anybody's.

| Part | Code | State it keeps | Operations |
|---|---|---|---|
| charts | `N/dashboard.js` (the chart state, `chartRefresher`, `globalPanAndZoom`, `globalSelectionSync`) | per chart: busy marks, mode, the range it has to show, its data, whether it is hidden or destroyed; the shared pan and the shared selection; timers | refresh one by one or all at once, download, hide, unhide, destroy, pan, zoom, mark, select, resize, pause |
| scales, units, dimensions | `N/dashboard.js` (`commonMin`, `commonMax`, `unitsConversion`, `commonColors`, gauge, easy pie, `dimensionsVisibility`) | values and units all charts of a group share; what the user chose in a legend | data arrive, a chart is panned, selected or created anew; labels are drawn with units that another chart may have switched |
| page | `N/main.js` | the address and its options, dialogs, the menu, the pause they share, options and what storage keeps of them | load, show and hide dialogs, print, import and export a snapshot |
| nodes | `N/main.js`, `NETDATA.registry` | lists of nodes of the registry and of the cloud, the account | sign in and out, synchronise, delete, look for an address of a node that answers |
| menu | `N/main.js` (`renderChartsAndMenu`, `renderPage`) | menus, submenus, priorities | file charts, write the page |
| alarms | `NETDATA.alarms`, `alarmsUpdateModal` | the id of the last alarm told, notifications that wait | poll, fetch the log, notify, list |
| descriptions | `N/dashboard_info.js` | none | a table of texts |

Hard here: the refresher is a chain of callbacks that each have to arm the next
one; busy marks are freed by the end of a download that may fail, be aborted or
answer a chart that was destroyed meanwhile; one pause is used by three
dialogs, a menu and the loading of the page; notifications come half a second
apart, while the id of the last one is already stored.

### bandix (`luci-app-bandix`, modelled)

| Part | Code | State it keeps | Operations |
|---|---|---|---|
| device table and dialog | `B/index.js` | devices, all rules, the order; the dialog with the device it shows and a list of its rules; calls in flight | two polls, sorting, opening and closing the dialog, adding and deleting rules, naming a device |
| history chart | `B/index.js` | range, type, device, the points drawn, zoom, hover | polls that are skipped while a call is in flight or the mouse reads a point |
| usage | `B/index.js` | two panels with a query button each | queries by button, preset and selector |
| DNS page | `B/dns.js` | filters, page, size, overlay, mask | typing with a delay, choosing, paging, refreshing; queries overlap |
| connection page | `B/connection.js` | totals, table | a poll |

Hard here: a reply belongs to the device, filter or page that was chosen when it
was asked for and is applied to the one chosen now.

### The log viewer (`luci-app-log`, modelled)

`L/log-base.js` polls a hash of the log and reloads the end of it when that has
changed; buttons reload more or all of it; a dialog edits filters and settings,
which storage keeps; `log-system.js` and `dmesg.js` read two kinds of log. Hard
here: automatic and manual reloads overlap, the hash is stored before the log has
come, storage keeps only what has changed.

### Status pages (`luci-app-cpu-status`, `luci-app-temp-status`, modelled)

Graphs of loads and temperatures over a buffer and a window, and two sections of
the overview that a user arranges. Hard here: loads are differences of two
readings row by row while cores come and go, polls fail, choices live both in
the page and in the storage another tab writes.

### The rest

nikki prepares files for a proxy that is not in the repository. cpulimit,
gecoosac, homebox, mosdns, netspeedtest, pdnsd-alt, speedtest-cli, v2dat, autocore
and the package of bandix itself are recipes, patches and init scripts of
programs that are fetched when they are built. The other LuCI applications
(smartdns among them) are forms and status pages without state between two
steps. They are listed in `PROJECT.json` and not modelled.

## 2. The modules

```
LinkDebounce            what a tracker promises
  ^ implemented by
Mwan3Track              one tracker process: score, STATUS, signals
  | its verdict
Mwan3                   the processes of the service and the lock
  | which interfaces are online        | which device is behind each
Mwan3Policy             one policy     Mwan3Mask     ids, marks, rules, tables
QosMon                  the congestion controller of the other package

NetdataCharts           the charts engine of the dashboard
NetdataDashboard        the page around it, of which a scenario runs one part:
  NetdataView           loading, dialogs, frame and highlight, options, print
    NetdataSnapshot     export and import, which take over the view
  NetdataNodes  NetdataAlarms  NetdataScales  NetdataDimensions  NetdataMenu
    NetdataBase         what they share: page and bounds
Bandix                  the bandix pages, composed of
  BandixRules  BandixHistory  BandixUsage     one page, one device filter
  BandixDns    BandixConnections              pages of their own
    BandixBase          what they share: the filter, bounds
LogViewer               the log viewer
StatusGraphs            CPU and temperature
```

Each has an `MC` module for its instances (LinkDebounce is checked as a property
of Mwan3Track). The proofs are in eight modules:

```
Mwan3Proofs             Mwan3              NetdataChartsProofs     NetdataCharts
Mwan3RoutingProofs      Mwan3Policy,       NetdataDashboardProofs  the page: dimensions,
                        Mwan3Mask                                  scales, address, menu
MonitorProofs           Mwan3Track,        BandixProofs            Bandix
                        QosMon             LogViewerProofs         LogViewer
                                           StatusGraphsProofs      StatusGraphs
```

Two specifications that are proved about in one module have names of their own for
what both have: `MarksInit`, `MarksSpec`, `QosInit`, `QosSpec`. Definitions keep
the names of the code, and `PROJECT.json` maps each to its lines. In each module some
definitions stand next to the one they resemble and are used nowhere: slips a
programmer could have made, each of which a property of the module catches.

### Mwan3Track and LinkDebounce

`mwan3track` counts good and failed rounds in one integer, score, and compares it
with `-eq`, `-lt` and `-gt` only. The model has one action for each stretch
between two points at which something else can happen: `Probe` one target (or skip
it because the round has enough answers), `RoundFails` and `RoundPasses` with
`Strike` and `Credit`, the two places that touch the score, `CallReturns` for each
of the four hotplug-calls, `Wake`. `Signal` is USR1 (which kills the process before
`SetTraps`), `Terminate` is TERM or KILL, `PathChanges` the network. Latency and
loss are reduced to the verdict of a probe, which on a poor path with
`check_quality` may also be neither. The length of a sleep is left open.

`LinkDebounce` says the same without a score: a link, a run of rounds that
contradict it, alive or not, and whether it was told that the interface went down.
Only that, or the `Down`-th failed round in a row, ends a link; being told ends it
once. The refinement mapping (`Believed`, `Streak`, `Judging`, `Pending`) says what
score, flag and pending call stand for, so a tracker that fires ifdown a round
early, or twice for one signal, does not implement it.

### Mwan3

The service as processes. `call[a]` is the hotplug-call that agent a (netifd, the
command or a tracker) has started, with its place in the scripts 15 and 16;
`tracker` has a slot for each process, `rt` is the route monitor, `cli` the command.
The lock is taken and freed by the actions of the scripts; `Unlock` does not look who
holds it, as `lock -u` does not. `orphan` is a lock process whose shell was killed. The
files are `hstate` (iface_state), `tfile` (STATUS), `route` (the device in the ip rules,
the table and the chain of an interface, which are always written together) and
`policy` (the interfaces that the policy chains use). A tracker is reduced to its
verdict, `up`, which Mwan3Track explains.

`Matching` is `pgrep -f "mwan3track iface device"`. `Track15` kills what it finds and
starts a tracker, `Signal15` signals only if it finds exactly one, because the pids
are are passed as one argument. Both a tracker and the route monitor die of a signal
that comes before they have set their traps (`exec`). `StopKills`, `StopFlushes` and `StopRemoves` are `stop`,
split where a process of its own or a waiter for the lock can get in between.

Left out: `16-mwan3-user`, which takes and gives back the lock; ipsets and the
connection-tracking flush, which no script reads; the third action of a call that
neither 15 nor 16 acts upon. The policies are assumed to be rebuilt to the end (`Abort`
of Mwan3Policy is when they are not).

### Mwan3Policy

`mwan3_set_policy` handles the members of a policy one by one, `next` is the one it
handles next. For both families it keeps the lowest metric and the total weight so
far, and edits the chain: a better member empties it and takes all (`Replace`), an
equal one is put in front with its part of the new total (`Share`), an offline one
leaves an `out` rule while no member is in use (`Bypass`), the rest is passed over.
`Probability` is the number in thousandths that iptables is given, `Taken` what a
rule gets of all connections (`Reaching` is what comes as far as that rule, in
millionths), `Percent` what the report computes from the comments of the rules. With `noIPv6` there is no chain for IPv6, and an online member of that
family ends the script (`Abort`).

### Mwan3Mask

A mask or a mark is a set of bits. `Id2Mask` gives bit k of the id to the k-th bit of
the mask. `Mwan3Init` writes the mask to a file if there is none and computes
`iface_max` from it, `Ifup` writes the general rules and those of the interface,
`Stop` flushes the tables 1 to `iface_max` and the rules 1000 to 2999 and removes the
file, `Configure` edits the mask at any time. Scripts are atomic here, because Mwan3
shows that the lock keeps them apart, and one family is modelled, because the code
treats both alike.

### QosMon

One pass of the main loop is one step; its inputs are the reply that arrived for the
last ping (`Trip`), replies to older ones (`Late`), and what the scan of the classes
found. `Pass` is what every pass does that finds the classes as they were, then there
is one action for what each state does. `limit` holds the limit last asked for
(`dbw_ul`) and the one in force, which differ after `Rebuild`, because `Modify`
(tc_class_modify) sends nothing if the rate did not change. The ping filter and the
control law are reduced to their direction: the filter moves anywhere between the old
value and the new time; a negative error lets the limit rise, up to the link's rate
and not necessarily at all, a positive one lowers it by at least one bit per second
(the result is truncated) until it is at the floor.
A trip of 0 is one under a millisecond, which the code takes for a lost ping.
Left out: more than 30 classes, for which every scan fails and qosmon stays in
CHECK, and the status file.

### The browser modules in general

A handler of the page is an operator from a state of the page, a record, to the
state it leaves; one that calls others is their composition, and an action
applies one of them (`Become`). That keeps each action as large as the callback
it stands for: JavaScript runs a callback to its end. A request is a slot or an
element of a set that is in flight, and its answer is a step of its own: good, or
failed, or unreadable where the code tells these apart. What the server answers
with is chosen when it answers, from what it has then.

A page has many handlers, and all of them at once would have too many states.
`Scenarios` says which of them a behaviour uses (`does`), how often the user acts
(`acts`) and how much fails (`fails`); the initial state picks one (in StatusGraphs
it picks one of `Pages`). Every property
has a scenario for each group of handlers that share the state it is about. The
proofs do not depend on it: they hold for any set of scenarios.

### NetdataCharts

`chart[c]` is the chart state object: marks (`running`, `fetching`), mode, `forced`
(`force_update_at`), the range asked for (`want`), the data it shows, whether it is
`hidden`, `created`, selected. `reqs` are its downloads; `loop` says that the end of
the request calls back into the refresher. `pan` is `globalPanAndZoom`, `sel` is
`globalSelectionSync`, `loops` the timers of the refresher: one in
`timeout.refresh`, which a new one replaces, and those that nobody can cancel.
`RefresherDispatches` is one pass of `chartRefresher` over the charts;
`DataArrives`, `InfoArrives` and `DataRequestFails` are what its requests end
with; `OnscrollUpdater`, `AutoRefresh`, `IdleSwitch`, `SyncSlaves` are the other
timers. The mouse has an action for each handler of dygraph (`Hover`,
`MouseDown`, `MouseMove`, `MouseUp`, `Wheel`, the toolbox and the touch screen).
Time appears as what is compared with it: a chart is `due` or not, the mouse
holds the refresher off or not.

### NetdataDashboard and its parts

`NetdataView` has the loading of the page, the question about XSS, dialogs, the
menu, frame and highlight with the address bar (`HashUpdate`, `ParseHash`), the
options with their copy in storage, and printing; `NetdataSnapshot` extends it by
export and import. `NetdataNodes` has registry and cloud (external, `world`) and
the requests to both in the order they were sent; `SyncAgents` and `MergeAgents` make
one list of the two; `search` is the dialog that looks for a node, with the rows of
its list: an answer to a search before finds its row gone and throws, or finds the
one that a new search of the same node has made. `NetdataAlarms` has the
log of the server (external), polls, the requests for the log, and the
notifications that wait. `NetdataScales` has numbers with the divider they were
drawn with, so that a label in other units than its chart can be seen.
`NetdataDimensions` has the legend and what was clicked there. `NetdataMenu` files
the charts of a catalogue one by one and lays them out. A submenu has a set of
charts there, since they are sorted before anything is written, and `Sorted` says
where an element ends up: behind as many as there are before it. It is what any
sorting leaves if no two compare as equal; `CatalogueAssumption` is that the charts
of a submenu have names of their own, as the charts of an agent have. Names that
differ only in what `naturalSortCompare` overlooks are left out.

`N/main.js`, as it is in the repository, lacks the brace that closes the first
block of `notifyForUpdate()` (line 3047), so that no browser runs it; the modules
say what it does with the brace in place.

### Bandix

`BandixRules`: `router` is what the router has, `table` what was rendered and
`allScheduleRules`, `dialog` the dialog of a device, `list` the list of rules in
it, `calls` the ubus calls. `Serve` is the moment the router looks, `Reply` the
moment the page hears. `BandixHistory` keeps of a chart which points of its data
are drawn, and of the mouse what its handlers remember. On a narrow screen `Recent`
leaves the points of the last 20 seconds, or the last ones if there are none, and
`Sample` thins them out; `chart.of` keeps what the reply had. `TypeKeys` are the
series a type has in a range.
`BandixUsage` has two panels and their queries; `BandixDns` the inputs, the list
with its overlay, mask and button, and the queries in flight; `BandixConnections`
totals and table. `Bandix` composes them: choosing a device over the chart also
filters the table (`FilterChange`).

### LogViewer

An entry is a record of the words its fields have. `Filter` and `ParseLogData`
are the pure part: from a log and settings to rows. `page` holds the settings in
force, the columns found so far, `fastTailValue` and the hash; `form` the open
dialog; `stored` the storage; `manual` the call of a button, which disables the
others; `autos` automatic refreshes, of which a second one can start when the poll
was stopped and started while one was in flight. `poller` is LuCI's `poll`. A line
that dmesg cannot read makes its parser throw (`Throws`), after the table was
emptied. `latest` is there for the property only: which call was sent last for the
log, with which slice of it, and whether its answer was lost or written over.

### StatusGraphs

Every click on a mode and every sensor that was hidden is recorded (`seen`),
whether or not the code stores it; `Lasting` are the modes that may be shown for it.
Of a reading the model keeps the moment it was taken, and `seen.readings` remembers
all that a device was given, whatever of them is still in its buffer: `Window` says
from these what a graph must show. `Poll` pushes it into the
buffer of every device and plots what is newer than the last plotted; `PollFails`,
`PollThrows` are the polls without an answer and those where `calcCPULoad` meets a
row that the reading before did not have. The sections of the overview have
`hidden` and `mode` in the page and `stored` in the storage, which `OtherTab`
writes as well. The clock of the browser is assumed to go forward.

## 3. The runs

`tlc -workers 2 -config <cfg> <module>` for each of them; the module has the name
of its configuration but for `MCMwan3`, which has three.

| Run | Configuration | What it shows |
|---|---|---|
| `track` | `MCMwan3Track.cfg` | `Debounces`: the script implements LinkDebounce; `ChangesAreReported`: a path that stays dead or good is noticed |
| `service` | `MCMwan3Service.cfg` | with every command, tracker and the route monitor in any order: the policies are made of the online interfaces (`PolicyFollowsState`), stop leaves nothing (`StoppedIsClean`), the state of an interface is the verdict of its tracker (`StateFollowsVerdict`) |
| `converge` | `MCMwan3Converge.cfg` | every hotplug-call ends (`CallsReturn`); a link that stays good ends up in the policies and one that stays dead ends up out of them (`GoodLinkIsUsed`, `DeadLinkIsShed`) |
| `policy` | `MCMwan3Policy.cfg` | after each member the chain uses the best online ones (`BestAreInUse`) with their shares (`SharesFollowWeights`), and the report says what the chain does (`ReportIsTruthful`) |
| `marks` | `MCMwan3Mask.cfg` | the mark of an interface leads to its own table, while the mask is edited (`MarksLeadHome`) |
| `congestion` | `MCQosMon.cfg` | a measurement ends (`MeasurementEnds`), lasting congestion brings the limit down (`CongestionIsRelieved`) |
| `charts` | `MCNetdataCharts.cfg` | the refresher always has somebody who will call it (`RefresherLives`), no chart stays marked busy (`NothingIsStuck`) or keeps a selection (`SelectionIsShared`), charts that are watched follow a pan (`ChartsFollowTheMaster`) and come back to live data (`ChartsReturnToLive`) |
| `dashboard` | `MCNetdataDashboard.cfg` | the address tells frame and highlight (`HashTellsTheView`); charts run again after dialogs, menu and loading (`ChartsRunAgain`); the page comes up (`PageComesUp`), an export ends (`ExportEnds`), the menu of nodes and a search settle (`NodesSettle`); what is raised is notified (`RaisedIsNotified`); the common scale is that of all charts (`ScaleHoldsAll`), labels are in the units of their chart (`DataAreInTheUnits`), a legend says what is drawn (`LegendTellsTheChart`); menus, submenus and charts are in their order (`ChartsAreInPlace`) |
| `bandix` | `MCBandix.cfg` | the dialog lists and deletes rules of its device only (`DialogKeepsToItsDevice`); the table comes to show the rules the router has (`TableShowsTheRules`); a chart is its data in order, on a narrow screen at most `MaxPoints` of the last 20 s from the first to the last of them, and of a series its range has (`ChartIsTrue`), and comes to be the one chosen, while query buttons come back (`PageCatchesUp`); overlay and mask have a query that removes them (`NothingCoversTheList`), and the list comes to answer the inputs (`ListFollowsTheInputs`) |
| `logs` | `MCLogViewer.cfg` | storage restores what is in force (`SettingsAreKept`), buttons come back (`ButtonsComeBack`), the rows come to be the end of the log, filtered and sorted, whatever overlapped, unless the last call for the log was lost or overtaken (`LogIsFollowed`) |
| `graphs` | `MCStatusGraphs.cfg` | a graph shows the latest readings, each once and in order (`WindowIsTheRecord`); what the user hid or chose stays so, with two exceptions (`ChoicesAreKept`) |
| `restart` | `MCMwan3Restart.cfg` | must fail: `RestartReloads` is what the help text says, and a restart may never reach its start (section 7) |

### Bounds and why they are enough

* **track**: three targets of which two must answer, `down` 2 and `up` 3, so that
  a streak can be broken in each of its rounds, up and down differ, and a round
  can be decided before, by and without its last target.
* **service, converge**: `Trackers` bounds the tracker processes that exist at
  once. A slot is in use while its tracker lives or while a hotplug-call that a
  killed tracker started goes on. A tracker starts a call only while another slot
  is free and an ifup begins only if it will find one, so the bound can delay a
  script and never leaves it stuck: two slots hold a tracker and what is left of
  its predecessor. `MaxPending`
  bounds the announcements of netifd that wait: one in `service`, two in `converge`.
  One command runs at a time, but any may follow any. There is
  one interface: the scripts of two interfaces meet only at the lock, the route
  monitor and the policies, and all of these it shares already with the command,
  netifd and its own trackers. It has one device: an interface that moves to
  another keeps its old tracker (section 7), which would need three slots.
  The theorems of section 5 hold for any number of interfaces, devices and
  trackers. `InitialOffline` has an interface in `service`, where it makes
  more states, and none in `converge`.
* **policy**: a policy of three members is the shortest in which a better member
  comes after two equal ones, or an offline one between two that are in use.
  Metrics 1 to 3 lie on both sides of `Lowest` = 2 (DEFAULT_LOWEST_METRIC is 256)
  and meet it. Weights 1 and 700 are far enough apart for the thousandths to
  round. The two IPv4 interfaces are interchangeable; the IPv6 one has no partner,
  because the families share no state. `fits` and `noIPv6` take both values.
* **marks**: 0x3F00 is the default, 0xFF00 has the 8 bits that fill the numbers
  of tables, the third mask has six bits in no order. Ids 1 to 3, 31, and 59
  and 60, the last that six bits allow.
* **congestion**: a rate is one of 1 to 5: `Trickle`, `Floor`, one between,
  `Reset` and `Link`, so that the limit can go down twice from where it begins.
  A period is 2, trips 0, 1 and 2, a limit may be given as 0 or 1 and is measured
  as 1 or 2. `Few` and `Enough`, the replies after 10 and 15 seconds, are 2 and 3
  (the least that keeps them apart and above the two replies that CHECK waits
  for); `nreceived` is capped above `Enough`, where the code no longer tells
  values apart. One class tree comes and goes, which includes that it is the same
  tree again. `Rebuild` waits for a scan, since building a tree takes longer than
  a pass of the loop.
* **charts**: two charts, because every shared thing (pan, selection, the pass
  of the refresher) is between one chart and another, and a third meets them in
  the same way; one range besides the live one; two requests at once for each
  chart, since an aborted one and its successor is the most that overlap.
  `Retries` is 1, so that it is used up. `MaxLoops` caps the timers nobody can
  cancel, which the code arms without end. Two gestures and up to two failures in
  each of eight scenarios, which together have every callback, with dygraph charts
  and others, and with charts that are destroyed when hidden.
* **dashboard**: two frames, two charts to print or export, two nodes at two
  addresses of which the registry hides one, two alarms known by id and by name,
  and a log of two; two gauges, a pie and a legend in one group of units, and
  three dividers for them, because with two a chart cannot be switched up and
  have its old range taken for the new one; three dimensions; six charts of three menus with ties and a pair of a QoS device.
  Two of each is what it takes for one to disturb the other. `MaxDepth` caps how
  often a dialog is counted as open.
* **bandix**: two devices; one rule at first and two forms, one over midnight;
  `Calls` and `Queries` are calls in flight at once, so that replies can overtake.
  A minute is one of 0..2 and "24:00" is 3. Replies of 3 and 5 points with room
  for 3: drawn as they are, cut to the recent ones and thinned out. Three DNS queries in flight, two
  pages, two sizes. `Rounds` are the states the connections go through.
* **logs**: a log of at most three entries of three kinds, a tail of one or two
  and all; three forms, one without automatic refresh, one with an expression
  that does not compile; two automatic refreshes in flight.
* **graphs**: seven readings fill a buffer of two and a window of three more
  than twice; three cores come and go; four acts of the user.

The user's acts and the failures of a scenario are used up, so that the page comes
to rest: liveness properties say where. Deadlock is checked where the program may
not stop (`track`, `marks`). Elsewhere it may: a service that is stopped and left
alone, a policy that is complete, a qosmon that has ended, a page nobody uses.

## 4. Fairness

Only programs are fair; nothing forces the network, netifd, the administrator or
the user.

* A script is not suspended for ever, and `flock` serves whoever waits, so a
  script whose next step needs the lock gets it if the lock is free again and
  again: strong fairness for `CallStep`, `RtmonStep`, `CliStep` and
  `OrphanAcquires`. The last is what a killed shell leaves behind; without its
  fairness the failure of `restart` would be a matter of luck.
* A tracker goes through its rounds (`TrackerStep`, and `Step` in Mwan3Track), and
  netifd runs the announcement that is pending (`Dispatch`): weak fairness, since
  nobody else can disable these steps and enable them again for ever.
* The loop of qosmon goes on because `select` times out: weak fairness of `Loop`.
  Which of the outcomes of a pass occurs is never assumed. What the properties
  need of the network and of the load stands in front of their arrow:
  `MeasurementEnds` supposes that a target goes on answering, `CongestionIsRelieved`
  that the ping time stays too long, `GoodLinkIsUsed` and `DeadLinkIsShed` that the
  verdicts no longer change.
* A browser runs its timers and tells what is in view, LuCI's `poll` calls again
  what it has called, and a request is answered or fails: weak fairness of each
  timer, poll and answer (`Fairness` of NetdataCharts and LogViewer,
  `ViewFairness`, `NodesFairness`, `AlarmsFairness`, `RulesFairness`,
  `HistoryFairness`, `UsageFairness`, `DnsFairness`). Nothing says which answer it
  is: failures are bounded by the scenario.
* `AlarmsFairness` has one strong fairness: a server that is polled again and
  again sometimes answers with what it knows now, though it may answer with
  something older as often as it likes.
* Of the user one thing is assumed: nobody leaves a dialog or the menu of the
  dashboard open for ever (`CloseDialog`, `CloseMenu`), since `ChartsRunAgain` says
  what happens when they are closed.

## 5. The proofs

Every invariant that a run checks is proved as well, for all values of the constants,
and so are the action properties; what is left to TLC is liveness.
Each part has the same outline: an inductive invariant with lemmas for its
initial states and its steps, then the theorems, which follow from it. All values
of the constants are meant that satisfy the named assumption of the module
(`TrackAssumption`, `ServiceAssumption`, `PolicyAssumption`, `MaskAssumption`,
`QosAssumption`, `ChartsAssumption`, `LogAssumption`, `GraphsAssumption`, and those
of the parts of Bandix and of the dashboard); TLC evaluates them for the instances.

| Module | Theorem | Inductive invariant and why it is needed |
|---|---|---|
| MonitorProofs | `TypeCorrect`, `StatusIsTruthful`, `TrackerDebounces` (Mwan3Track) | `TypeOK`, `StatusFollowsScore`, `CallScore`. The last says what the score is while a hotplug-call runs; without it the status that is written when the call returns could not be compared with the score. The refinement is one step for each action: it maps to a round of LinkDebounce or to a stutter |
| | `QosTypeCorrect`, `RangeIsKept`, `LimitTakesEffect` (QosMon) | `QosTypeOK`, `Ranges` (what is asked for in each state, in particular what a pending reset will undo), `Forces` (asked and in force agree, or the next pass will see the change of classes that separated them) |
| Mwan3Proofs | `TypeCorrect`, `LockHolds`, `OneTracker`, `PoliciesAreFresh`, `StopIsFinal`, `NothingStarts` | `Typed`, `MutualExclusion`, `Waits` (a tracker or command that works by itself has no hotplug-call running), `OneTrackerPerDevice`, `Tested` (a script past its test of `enabled` holds the lock, so that stop cannot come between), `Disabled` (what is gone while the service is disabled), `Fresh` (the policies are behind the states only in the section that rebuilds them) |
| | `VerdictsHold` | `OwnEvents`, `OwnCalls`, `OwnTrackers` (what is announced, called and tracked for an interface is about its device) and `Agreed`: the state file says what the tracker decided, unless the call that will write it is on its way, or one that will signal the tracker (`Signalling`). The theorem supposes `OwnDevices`, that each interface keeps to one device; without it the property is false (section 7, an interface that moves) |
| Mwan3RoutingProofs | `TypeCorrect`, `BestInUse`, `TotalsAddUp`, `ChainIsTight` | `TypeOK`, `Fresh` (the chain is empty before the first member) and, for each family, `OrderOK` (the rules in use come first, the latest member in front), `TotalOK` (the total in each rule is its weight and the total of the next one), `LowestOK` (the best metric seen), `UsedOK` (whose rules are in use), `ReachOK` (a rule takes all that is left, or there is none and `last_resort` is reached). The rules are put in front of the chain, so every part speaks of all positions of it |
| | `SharesRight`, `ReportRight` | the same and `Certains` (the last rule in use takes all). From `TotalOK` follows, rule by rule from the head of the chain, `Reaches`: what gets as far as rule n is the part that the total of that rule is of the first one, to within a thousandth for each rule before. A share is what its rule takes of that |
| | `MarksTypeCorrect`, `MasksAgree`, `StopIsComplete`, `SystemTablesSpared`, `MarksFindTheirTables` | `MarksTypeOK`, `Settled` (the mask of the file is that of every rule, and the limit belongs to it), `Reached` (rules and tables lie in what a stop flushes), `Homes` (each interface that is up has its rule and its table, under the number of its id). The last four suppose `Fit`: masks have at most 8 bits and the interfaces fit into every one. That no mark is found by the rule of another rests on `MarksDiffer`: ids that differ have marks that differ, which is shown bit by bit for masks of up to 8 bits |
| NetdataChartsProofs | `ChartsNotStuck`, `ChartsShareSelection`, `ChartsRefresherLives` | `Inv` is `Sound(Now, None, FALSE, FALSE)`. Callbacks are compositions of functions, in the middle of which a chart may be marked busy without a request: `Sound(s, c, loop, data)` says that the page s owes chart c the end of a refresh (`loop`) or of a download (`data`), and nothing else. Functions that set no mark and move no request are `Tame` and keep any debt; sending a request takes one on or pays it, the functions that end a request start with a debt and pay it. `Shared` has that without a master nothing is shared, without which `SelectionIsShared` is not inductive. The timers need `LoopsInv` only |
| NetdataDashboardProofs | `LegendTrue` | `DimsInPlace`: a legend that is up to date has the dimensions of the data and marks what is drawn of them |
| | `ScaleTrue` | `ScaleRight`: minimum and maximum tell the least and greatest of what the charts have told. Every handler `Keeps` that; the end of a selection handles the charts one after the other, which is followed by induction |
| | `DataShownInUnits` | `ScaleRight` and `ShowsRight`: a chart is as it was made (`NewDrawn`), or `Standing`: its units are those of its divider (`Level`), every label that a gauge would keep was made with that divider (`Even`), a gauge that shows a value has its minimum too (`Lowered`), and what it shows is the latest of its data or will be made anew (`Informed`). Each function of the code has a lemma on what it leaves alone (`Stays`, `Converts`) and what it establishes for its chart; the other charts keep what they have (`AloneSame`). The theorem rests on each chart having one library, which `ScalesAssumption` says |
| | `HashTrue` | `AddressRight`: the page is a snapshot, or frame and highlight and address agree, or it is coming up (`Coming`) and nobody has been told of a frame yet. The last is the most of the work: what the page waits for, and that no dialog is open then |
| | `PlacesTrue` | `MenuInPlace`: the charts that came are alike to none that was filed (`GenuineIn`), each menu and submenu has its own and the least priority of them (`MenusFiled`), and what is written was sorted from it (`Laid`). `SortedIs` shows that placing each by the number of those before it sorts, `FlattenAscends` that rows that ascend and follow each other make one that does |
| BandixProofs | `DialogKeeps`, `ListUncovered`, `ChartTrue` | `Proper`: a list of rules has the rules of the device it names, and a closed dialog asks nothing; without the second part the next dialog would open on the question of the last. `Uncovered` is `NothingCoversTheList` with the fields it speaks of. Most handlers touch neither (`Leaves`). `Charted`: what is chosen and what is asked for is a type its range has, and a chart is sound; `SampleIsEven` shows that the thinning-out takes points in order, from the first to the last, and it is used of the recent points that a narrow screen has |
| LogViewerProofs | `SettingsKept` | `Inv` adds `FormAgrees`: an open form differs from the settings in force only where `setFilterSettings` will take its value. `Apply` stores what the form holds and takes over what the columns of the log allow, so the proof follows the form from its opening on, while columns are found |
| StatusGraphsProofs | `GraphsTellTheRecord` | `Graphed`: readings are recorded in order (`Recorded`), a buffer has the latest of them (`Buffered`), a graph the latest that were plotted, which are all but the first (`Windowed`). `LastOfLonger` is the step: the latest of what was kept and what is new are the latest of all |
| | `ArrangementsStay` | `Arranged`: what the user hid is hidden in the page and in the storage (`HiddenStays`), what is in force and what is stored are modes that may stand for his last click (`ModeStays`), also between the answer of a poll and its rendering |

Induction over numbers is done from the least of those for which a claim fails
(lemma `UpTo`, from the library's `WFMin`): a recursive function that is defined
inside a handler is first shown to exist (`StoppedExists`, `ReachingExists`,
`JoinedExists`), and then its values are followed one by one.

The theorems about the service, marks, policies and qosmon also state what no run
lists any more because it follows: mutual exclusion (`LockHolds`), one tracker for
each device (`OneTracker`), nothing starts while disabled (`NothingStarts`), one
mask (`MasksAgree`), a complete stop that spares the tables of the system
(`StopIsComplete`, `SystemTablesSpared`), totals and tightness of a chain
(`TotalsAddUp`, `ChainIsTight`), range and effect of the limit (`RangeIsKept`,
`LimitTakesEffect`).

Only model-checked is

* liveness (`ChangesAreReported`, `CallsReturn`, `GoodLinkIsUsed`,
  `DeadLinkIsShed`, `MeasurementEnds`, `CongestionIsRelieved`,
  `ChartsFollowTheMaster`, `ChartsReturnToLive`, `ChartsRunAgain`, `PageComesUp`,
  `ExportEnds`, `NodesSettle`, `RaisedIsNotified`, `TableShowsTheRules`,
  `PageCatchesUp`, `ListFollowsTheInputs`, `ButtonsComeBack`, `LogIsFollowed`): the
  proof system does not reason about fairness and ENABLED.

No module with a theorem uses RECURSIVE.

## 6. What is not modelled

* **mwan3**: ipsets and the flush of connections, which nothing reads; user rules
  and sticky sets; the jumps of the hook chain and the order of iface_in; what
  the route monitor copies (it is a process with its place in the loop).
  `Mwan3Mask` has one family. `mwan3_init` is atomic in it, though two scripts
  outside the lock could run it at once. `Mwan3` supposes that the rebuild of the
  policies comes to its end.
* **Outside the assumptions of the proofs**: with a mask of more than 8 bits stop
  would flush the tables 254 and 255, main and local, and leave rules above 2999;
  with a mask of fewer bits and more interfaces than `iface_max` it leaves tables.
  An interface that is twice in a policy has one rule for each and the report
  counts the first only.
* **qosmon**: more than 30 classes; how far a step of the control law goes. If the
  classes change while the link is throttled for the measurement, `dbw_ul` is
  already the trickle rate, the new tree is not throttled, and the next
  measurement runs on a loaded link: the model has these steps, and the property
  `LimitInForce` excludes the measurement for this reason.
* **netdata**: how charts are drawn, what a label or a tooltip says, colors of a
  theme; sparkline, peity, Google, D3 and C3 charts, which keep no state but that
  every chart has; the texts of `dashboard_info.js`; the update check, which only
  writes a message. The parts of the page are run one at a time, over the page
  that they share. Of the charts engine `NetdataView` has the pause, the frame and
  the highlight as they are told to the page; that it is the engine of
  `NetdataCharts` which tells them is not checked.
* **bandix**: themes, layouts, help texts, colors and scales of the drawings.
  `BandixConnections` has no property of its own: it is there so that its polls
  and failures are written down.
* **log viewer**: the words of an entry are members of small sets; regular
  expressions are words that match or do not compile.
* **status pages**: lines, tooltips, scales of the drawings.
* The components listed as `not_modelled` in `PROJECT.json`, with the reason at
  each.

## 7. Findings

By a run: `restart` can hang (`W/usr/sbin/mwan3:167`). `stop` kills the route
monitor while it holds the lock. If the route monitor was waiting for the lock, its
`lock` process lives on, gets the lock when stop is through, and nobody gives
it back: the start of the restart, and every later script, waits for ever.

Seen while modelling. The models do what the code does, and the properties leave
these cases out or say so.

* `mwan3 ifdown <iface>` does not unload (`W/etc/hotplug.d/iface/15-mwan3:83`),
  as its help says. The functions that would are called from nowhere.
* An interface that moves to another device keeps its old tracker
  (`W/lib/mwan3/mwan3.sh:669`), because the search is for interface and device.
  Its verdict on the old device is applied to the interface.
* A second ifup right after the one that started the route monitor signals it,
  and if it has not set its trap yet (`W/usr/sbin/mwan3rtmon:20`) it dies of the
  signal; the next ifup starts it again (`Rtmon`).
* Without ip6tables an IPv6 member that is online ends the script that builds
  the policies (`W/lib/mwan3/mwan3.sh:750`), with members left out.
* More interfaces than the mask allows get marks that are taken
  (`W/lib/mwan3/mwan3.sh:215`); 60 is the limit of the default mask, the Makefile
  promises 250.
* `qosmon -a` adds each new measurement to a limit that contains the last one
  (`qos-gargoyle/src/qosmon.c:1124`).
* A dashboard page that is loaded with the synchronisation switched off is live
  although its address tells a frame (`HashTellsTheView` has it as its exception);
  a dialog shown by a timer while it is shown already is counted twice and hidden
  once, and the charts stay paused (`ChartsRunAgain`); the my-netdata menu may
  take the place of the callback that the loading of the page waits for
  (`PageComesUp`); a notification that waits when the page goes is lost, since its
  id is kept by then (`RaisedIsNotified`).
* The rules of bandix are polled every 5000 seconds (`B/index.js:6575`) and the
  statistics of its DNS page every second (`B/dns.js:1301`), where the comments
  beside them say every 5 seconds. Two DNS queries that overlap leave the answer
  that came last, which need not be that of the last question
  (`ListFollowsTheInputs`).
* A failed manual reload of the log leaves LuCI's poll stopped
  (`L/log-base.js:824`), and a failed automatic one keeps the hash of the log that
  did not come, so that it comes with the next change only. So does one whose
  log an older call, answered after it, has written over (the exceptions of
  `LogIsFollowed`).
* `calcCPULoad` reads the row of a core that came online from a reading that has
  none, and throws at every poll until that core is gone or the page is reloaded
  (`luci-app-cpu-status/htdocs/luci-static/resources/view/status/cpu.js:107`).
* "Unhide all" stores an empty list, which counts as nothing stored
  (`luci-app-temp-status/htdocs/luci-static/resources/view/status/include/27_temperature.js:107`):
  a page that has something hidden does not take it over from another tab.

## 8. What comes next

Modules still to be written, the most important first:

1. **PriorityQueue**, over **TreeMap**: the three structures of
   `priority_queue.c` in step with each other, as an implementation of an abstract
   map from ids to priorities with a least element; AVL shape and balance after any
   sequence of set and remove, compared with a reference set. Worth proving: that
   the queue implements the map.
2. **BwLock**: the semaphore of `ipt_bwctl.c`, created by whoever comes first,
   taken with a timeout, given back by a program that may have died. Two
   programs never exchange buffers with the kernel at once; nobody is shut out
   for good. **BwHistory**: the intervals that are rebuilt from a history that
   wrapped around, against a direct definition.
3. **Mwan3Rtmon**: `mwan3.sh:42-123` and `mwan3rtmon`, the copying of routes
   while the main table changes and interfaces come and go; composed with the
   lock of Mwan3. A route that goes away from main goes away from every table.
4. **Mwan3Hook**: the order of hook chain, iface_in, user rules and sticky sets;
   which mark a packet ends up with, against the policy that its rule names.
5. **PppoeUser** and **EqosPlus**: session files and nftables rules under a lock
   that is not waited for; windows of time over midnight.
6. Further theorems: that Mwan3 implements an abstract service
   (a set of usable interfaces, rebuilt in one step); that LogViewer without failures
   implements a view that is computed from log and settings in one step.
