-------------------------------- MODULE Mwan3 --------------------------------
(***************************************************************************)
(* The mwan3 service: the hotplug scripts 15-mwan3 and 16-mwan3, whoever   *)
(* runs them (netifd, the mwan3 command, a tracker), the trackers and the  *)
(* route monitor as processes that are spawned, signalled and killed, the  *)
(* commands start, stop, restart, ifup and ifdown, and the one lock,       *)
(* /var/run/mwan3.lock, that is meant to keep them apart.                  *)
(*                                                                         *)
(* A tracker is reduced to its verdict (Mwan3Track models its score); the  *)
(* firewall is reduced to what the scripts decide: the device behind each  *)
(* interface's ip rules, route table and iface_in chain, which are written *)
(* together, and the interfaces that the policy chains use.  The hook      *)
(* 16-mwan3-user takes and gives back the lock without changing anything   *)
(* and is left out.                                                        *)
(***************************************************************************)
EXTENDS Naturals, Sequences, FiniteSets

CONSTANTS
    Ifaces,         \* interfaces of the network configuration
    Enabled,        \* those with enabled '1' in the mwan3 configuration
    Config,         \* the interface sections of that configuration, in order
    Tracked,        \* those with a track_ip
    InitialOffline, \* those with initial_state offline
    Devs,           \* layer-3 devices
    Trackers,       \* process slots for mwan3track: bounds the trackers alive or
                    \* survived by a hotplug-call
    Periodic,       \* rtmon_interval is not 0
    Commands,       \* mwan3 commands the administrator may issue
    MaxPending      \* bound on netifd events waiting for hotplug-call

None == "none"

ASSUME ServiceAssumption ==
    /\ Enabled \subseteq Ifaces /\ Tracked \subseteq Enabled
    /\ InitialOffline \subseteq Enabled
    /\ Config \in Seq(Ifaces)
    /\ None \notin Ifaces \cup Devs
    /\ {"netifd", "cli", "rtmon", "orphan", "free"} \cap Trackers = {}
    /\ MaxPending \in Nat /\ Periodic \in BOOLEAN

\* Whoever can run hotplug-call iface.
Agents == {"netifd", "cli"} \cup Trackers

VARIABLES
    enabled,    \* uci state globals.enabled
    lock,       \* holder of /var/run/mwan3.lock, or "free"
    orphan,     \* a lock process whose shell was killed still waits
    net,        \* [Ifaces -> device of the interface while it is up, or None]
    path,       \* devices over which the track_ip targets answer
    pending,    \* netifd's events that no hotplug-call has been run for yet
    hstate,     \* [Ifaces -> iface_state file; absent reads "offline"]
    tfile,      \* [Ifaces -> STATUS file of the tracker, None if absent]
    route,      \* [Ifaces -> device in its ip rules, table and chain, or None]
    policy,     \* interfaces marked for use by the policy chains
    rt,         \* program counter of mwan3rtmon, "none" if not running
    tracker,    \* [Trackers -> process record]
    call,       \* [Agents -> the hotplug-call the agent has started]
    cli         \* the running mwan3 command

files == <<hstate, tfile, route, policy>>
world == <<net, path, pending>>
vars  == <<enabled, lock, orphan, net, path, pending, hstate, tfile, route, policy,
           rt, tracker, call, cli>>

NoTracker == [pc |-> "free", iface |-> None, dev |-> None, up |-> FALSE, event |-> FALSE]
NoCall    == [pc |-> "idle", action |-> None, iface |-> None, dev |-> None, status |-> None]
NoCommand == [pc |-> "idle", todo |-> <<>>, again |-> FALSE]

Init ==
    /\ enabled \in BOOLEAN        \* boot() of the init script may already have set it
    /\ lock = "free" /\ orphan = FALSE
    /\ net = [i \in Ifaces |-> None] /\ path \in {Devs, {}} /\ pending = <<>>
    /\ hstate = [i \in Ifaces |-> "offline"] /\ tfile = [i \in Ifaces |-> None]
    /\ route = [i \in Ifaces |-> None] /\ policy = {}
    /\ rt = "none"
    /\ tracker = [t \in Trackers |-> NoTracker]
    /\ call = [a \in Agents |-> NoCall]
    /\ cli = NoCommand

-----------------------------------------------------------------------------
(* The lock.  lock -u frees it whoever holds it; that nobody calls it      *)
(* without holding the lock is a property of the callers.                  *)

Acquire(p) == lock = "free" /\ lock' = p
Unlock     == lock' = "free"

\* A lock process outlives the shell that ran it: it takes the lock when it
\* becomes free, and nobody is left to call lock -u.
OrphanAcquires ==
    /\ orphan /\ Acquire("orphan")
    /\ orphan' = FALSE
    /\ UNCHANGED <<enabled, world, files, rt, tracker, call, cli>>

-----------------------------------------------------------------------------
(* hotplug-call iface: 15-mwan3 leaves at once unless the action is ifup   *)
(* or ifdown, then 16-mwan3 runs.                                          *)

HotplugCall(a, action, i, d) ==
    call' = [call EXCEPT ![a] =
        [pc |-> IF action \in {"ifup", "ifdown"} THEN "want15" ELSE "want16",
         action |-> action, iface |-> i, dev |-> d, status |-> None]]

Goto(a, pc) == call' = [call EXCEPT ![a].pc = pc]

\* Processes that pgrep -f "mwan3track iface device" finds; an unknown device
\* leaves a pattern that matches every tracker of the interface.
Matching(i, d) ==
    {t \in Trackers : tracker[t].pc # "free" /\ tracker[t].iface = i /\ d \in {None, tracker[t].dev}}

\* The bound on process slots.  A slot is in use as long as its tracker lives
\* or a hotplug-call of a killed tracker goes on.  A tracker starts a call only
\* while another slot is free, and an ifup begins only if it will find a slot,
\* so the bound can delay a script but never leave it stuck.
FreeSlots          == {t \in Trackers : tracker[t].pc = "free" /\ call[t].pc = "idle"}
SlotsAfter(killed) == {t \in Trackers : (tracker[t].pc = "free" \/ t \in killed) /\ call[t].pc = "idle"}

Lock15(a) ==
    /\ call[a].pc = "want15"
    /\ call[a].action = "ifup" => SlotsAfter(Matching(call[a].iface, call[a].dev)) # {}
    /\ Acquire(a) /\ Goto(a, "in15")
    /\ UNCHANGED <<enabled, orphan, world, files, rt, tracker, cli>>

Skip15KeepsLock(a) ==                   \* exit without mwan3_unlock
    /\ call[a].pc = "in15"
    /\ ~enabled \/ call[a].iface \notin Enabled
    /\ Goto(a, "want16")
    /\ UNCHANGED <<enabled, lock, orphan, world, files, rt, tracker, cli>>

\* The service or the interface is disabled: nothing to do.
Skip15(a) ==
    /\ call[a].pc = "in15"
    /\ ~enabled \/ call[a].iface \notin Enabled
    /\ Unlock /\ Goto(a, "want16")
    /\ UNCHANGED <<enabled, orphan, world, files, rt, tracker, cli>>

\* The status a new tracker starts with.
StartStatus(i) ==
    IF i \in InitialOffline /\ tfile[i] # "online" THEN "offline" ELSE "online"

\* ifup: read the STATUS file, write ip rules, chain and route table.
Routes15(a) ==
    LET c == call[a] IN
    /\ c.pc = "in15" /\ enabled /\ c.iface \in Enabled /\ c.action = "ifup"
    /\ route' = [route EXCEPT ![c.iface] = c.dev]
    /\ call' = [call EXCEPT ![a].pc = "track15", ![a].status = StartStatus(c.iface)]
    /\ UNCHANGED <<enabled, lock, orphan, world, hstate, tfile, policy, rt, tracker, cli>>

\* mwan3_set_iface_hotplug_state and mwan3_track: kill the trackers found and
\* start one, if the interface has targets.
Track15(a) ==
    LET c      == call[a]
        killed == Matching(c.iface, c.dev)
        rest   == [t \in Trackers |-> IF t \in killed THEN NoTracker ELSE tracker[t]]
    IN
    /\ c.pc = "track15"
    /\ c.iface \in Tracked => SlotsAfter(killed) # {}        \* as at Lock15
    /\ hstate' = [hstate EXCEPT ![c.iface] = c.status]
    /\ IF c.iface \in Tracked
       THEN tracker' = [rest EXCEPT ![CHOOSE s \in SlotsAfter(killed) : TRUE] =
                          [pc |-> "exec", iface |-> c.iface, dev |-> c.dev,
                           up |-> c.status = "online", event |-> FALSE]]
       ELSE tracker' = rest
    /\ Goto(a, "policy15")
    /\ UNCHANGED <<enabled, lock, orphan, world, tfile, route, policy, rt, cli>>

Signal15Only(a) ==                      \* mwan3_set_policies_iptables forgotten
    /\ call[a].pc = "in15" /\ enabled /\ call[a].iface \in Enabled /\ call[a].action = "ifdown"
    /\ hstate' = [hstate EXCEPT ![call[a].iface] = "offline"]
    /\ Unlock /\ Goto(a, "want16")
    /\ UNCHANGED <<enabled, orphan, world, tfile, route, policy, rt, tracker, cli>>

Signal15KeepsState(a) ==                \* the iface_state file not written
    /\ call[a].pc = "in15" /\ enabled /\ call[a].iface \in Enabled /\ call[a].action = "ifdown"
    /\ Goto(a, "policy15")
    /\ UNCHANGED <<enabled, lock, orphan, world, files, rt, tracker, cli>>

\* ifdown: mwan3_track_signal reaches a tracker only if pgrep finds exactly
\* one (the pids are quoted as one argument); before its trap it dies of it.
Signal15(a) ==
    LET c     == call[a]
        found == Matching(c.iface, c.dev)
    IN
    /\ c.pc = "in15" /\ enabled /\ c.iface \in Enabled /\ c.action = "ifdown"
    /\ hstate' = [hstate EXCEPT ![c.iface] = "offline"]
    /\ tracker' = [t \in Trackers |->
                     IF found # {t} THEN tracker[t]
                     ELSE IF tracker[t].pc = "exec" THEN NoTracker
                     ELSE [tracker[t] EXCEPT !.event = TRUE]]
    /\ Goto(a, "policy15")
    /\ UNCHANGED <<enabled, lock, orphan, world, tfile, route, policy, rt, cli>>

\* Rebuild the policy chains from the iface_state files and unlock.
Policy15(a) ==
    /\ call[a].pc = "policy15"
    /\ policy' = {i \in Enabled : hstate[i] = "online"}
    /\ Unlock /\ Goto(a, "want16")
    /\ UNCHANGED <<enabled, orphan, world, hstate, tfile, route, rt, tracker, cli>>

Lock16(a) ==
    /\ call[a].pc = "want16"
    /\ Acquire(a) /\ Goto(a, "in16")
    /\ UNCHANGED <<enabled, orphan, world, files, rt, tracker, cli>>

\* mwan3_rtmon: start the route monitor, or send it USR1, of which it dies as
\* long as it has not set its trap.
Rtmon == IF rt = "none" THEN "exec" ELSE IF rt = "exec" THEN "none" ELSE rt

Finish16Unchecked(a) ==                 \* 16-mwan3 without the test of the flag
    /\ call[a].pc = "in16"
    /\ rt' = IF call[a].action = "ifup" THEN Rtmon ELSE rt
    /\ Unlock /\ call' = [call EXCEPT ![a] = NoCall]
    /\ UNCHANGED <<enabled, orphan, world, files, tracker, cli>>

\* 16-mwan3 sees to the route monitor if an interface came up, unlocks, and
\* hotplug-call is over.
Finish16(a) ==
    /\ call[a].pc = "in16"
    /\ rt' = IF enabled /\ call[a].action = "ifup" THEN Rtmon ELSE rt
    /\ Unlock /\ call' = [call EXCEPT ![a] = NoCall]
    /\ UNCHANGED <<enabled, orphan, world, files, tracker, cli>>

CallStep(a) ==
    Lock15(a) \/ Skip15(a) \/ Routes15(a) \/ Track15(a) \/ Signal15(a) \/ Policy15(a)
    \/ Lock16(a) \/ Finish16(a)

-----------------------------------------------------------------------------
(* netifd: interfaces come and go; one hotplug-call at a time, in order.   *)

Announce(action, i, d) ==
    /\ Len(pending) < MaxPending
    /\ pending' = Append(pending, [action |-> action, iface |-> i, dev |-> d])

NetUp(i) ==
    /\ net[i] = None
    /\ \E d \in Devs : net' = [net EXCEPT ![i] = d] /\ Announce("ifup", i, d)
    /\ UNCHANGED <<enabled, lock, orphan, path, files, rt, tracker, call, cli>>

NetDown(i) ==
    /\ net[i] # None
    /\ net' = [net EXCEPT ![i] = None] /\ Announce("ifdown", i, None)
    /\ UNCHANGED <<enabled, lock, orphan, path, files, rt, tracker, call, cli>>

PathChanges ==
    /\ \E d \in Devs : path' = IF d \in path THEN path \ {d} ELSE path \cup {d}
    /\ UNCHANGED <<enabled, lock, orphan, net, pending, files, rt, tracker, call, cli>>

Dispatch ==
    /\ pending # <<>> /\ call["netifd"].pc = "idle"
    /\ LET e == Head(pending) IN HotplugCall("netifd", e.action, e.iface, e.dev)
    /\ pending' = Tail(pending)
    /\ UNCHANGED <<enabled, lock, orphan, net, path, files, rt, tracker, cli>>

-----------------------------------------------------------------------------
(* A tracker process.  up is its verdict, LinkDebounce's link.             *)

\* Installs its traps and writes its first STATUS.
TrackerStarts(t) ==
    LET k == tracker[t] IN
    /\ k.pc = "exec" /\ (k.up => FreeSlots # {})
    /\ tfile' = [tfile EXCEPT ![k.iface] = IF k.up THEN "online" ELSE "offline"]
    /\ tracker' = [tracker EXCEPT ![t].pc = IF k.up THEN "connected" ELSE "run"]
    /\ IF k.up THEN HotplugCall(t, "connected", k.iface, k.dev) ELSE call' = call
    /\ UNCHANGED <<enabled, lock, orphan, world, hstate, route, policy, rt, cli>>

\* Down rounds in a row have failed.
TrackerFails(t) ==
    LET k == tracker[t] IN
    /\ k.pc = "run" /\ k.up /\ k.dev \notin path /\ FreeSlots # {}
    /\ tfile' = [tfile EXCEPT ![k.iface] = "offline"]
    /\ tracker' = [tracker EXCEPT ![t].pc = "ifdown"]
    /\ HotplugCall(t, "ifdown", k.iface, k.dev)
    /\ UNCHANGED <<enabled, lock, orphan, world, hstate, route, policy, rt, cli>>

\* Up rounds in a row have passed.
TrackerPasses(t) ==
    LET k == tracker[t] IN
    /\ k.pc = "run" /\ ~k.up /\ k.dev \in path /\ FreeSlots # {}
    /\ tfile' = [tfile EXCEPT ![k.iface] = "online"]
    /\ tracker' = [tracker EXCEPT ![t].pc = "ifup"]
    /\ HotplugCall(t, "ifup", k.iface, k.dev)
    /\ UNCHANGED <<enabled, lock, orphan, world, hstate, route, policy, rt, cli>>

\* The wait of the main loop ends with IFDOWN_EVENT set.
TrackerUnplugged(t) ==
    LET k == tracker[t] IN
    /\ k.pc = "run" /\ k.event /\ FreeSlots # {}
    /\ tfile' = [tfile EXCEPT ![k.iface] = "offline"]
    /\ tracker' = [tracker EXCEPT ![t].pc = "disconnected"]
    /\ HotplugCall(t, "disconnected", k.iface, k.dev)
    /\ UNCHANGED <<enabled, lock, orphan, world, hstate, route, policy, rt, cli>>

TrackerResumesUp(t) ==                  \* score not reset after ifdown and disconnected
    LET k == tracker[t] IN
    /\ k.pc \in {"connected", "ifdown", "ifup", "disconnected"} /\ call[t].pc = "idle"
    /\ tracker' = [tracker EXCEPT ![t] =
         IF k.pc = "ifup" THEN NoTracker
         ELSE [k EXCEPT !.pc = "run", !.event = @ /\ k.pc # "disconnected"]]
    /\ UNCHANGED <<enabled, lock, orphan, world, files, rt, call, cli>>

\* The hotplug-call the tracker waits for is over; after an ifup it exits.
TrackerResumes(t) ==
    LET k == tracker[t] IN
    /\ k.pc \in {"connected", "ifdown", "ifup", "disconnected"} /\ call[t].pc = "idle"
    /\ tracker' = [tracker EXCEPT ![t] =
         CASE k.pc = "ifup"         -> NoTracker
           [] k.pc = "connected"    -> [k EXCEPT !.pc = "run"]
           [] k.pc = "ifdown"       -> [k EXCEPT !.pc = "run", !.up = FALSE]
           [] k.pc = "disconnected" -> [k EXCEPT !.pc = "run", !.up = FALSE, !.event = FALSE]]
    /\ UNCHANGED <<enabled, lock, orphan, world, files, rt, call, cli>>

TrackerStep(t) ==
    TrackerStarts(t) \/ TrackerFails(t) \/ TrackerPasses(t) \/ TrackerUnplugged(t) \/ TrackerResumes(t)

-----------------------------------------------------------------------------
(* The route monitor, as far as processes and the lock go.                 *)

RtmonTraps ==
    /\ rt = "exec" /\ rt' = "sleep"
    /\ UNCHANGED <<enabled, lock, orphan, world, files, tracker, call, cli>>

RtmonWakes ==
    /\ rt = "sleep" /\ rt' = "want"
    /\ UNCHANGED <<enabled, lock, orphan, world, files, tracker, call, cli>>

RtmonLocks ==
    /\ rt = "want" /\ Acquire("rtmon") /\ rt' = "in"
    /\ UNCHANGED <<enabled, orphan, world, files, tracker, call, cli>>

\* It goes on as long as some interface is enabled and it has an interval.
RtmonUnlocks ==
    /\ rt = "in" /\ Unlock
    /\ rt' = IF Enabled # {} /\ Periodic THEN "sleep" ELSE "none"
    /\ UNCHANGED <<enabled, orphan, world, files, tracker, call, cli>>

RtmonStep == RtmonTraps \/ RtmonWakes \/ RtmonLocks \/ RtmonUnlocks

-----------------------------------------------------------------------------
(* The mwan3 command.                                                      *)

Command(pc) == cli' = [cli EXCEPT !.pc = pc]

IssueStart ==
    /\ cli.pc = "idle" /\ "start" \in Commands
    /\ cli' = [NoCommand EXCEPT !.pc = "wantStart"]
    /\ UNCHANGED <<enabled, lock, orphan, world, files, rt, tracker, call>>

IssueStop ==
    /\ cli.pc = "idle"
    /\ \E again \in BOOLEAN :
         /\ (IF again THEN "restart" ELSE "stop") \in Commands
         /\ cli' = [NoCommand EXCEPT !.pc = "wantStop", !.again = again]
    /\ UNCHANGED <<enabled, lock, orphan, world, files, rt, tracker, call>>

IssueIfup ==
    /\ cli.pc = "idle" /\ "ifup" \in Commands
    /\ \E i \in Ifaces : cli' = [NoCommand EXCEPT !.pc = "next", !.todo = <<i>>]
    /\ UNCHANGED <<enabled, lock, orphan, world, files, rt, tracker, call>>

IssueIfdown ==
    /\ cli.pc = "idle" /\ "ifdown" \in Commands
    /\ \E i \in Ifaces :
         /\ cli' = [NoCommand EXCEPT !.pc = "ifdown", !.todo = <<i>>]
         /\ HotplugCall("cli", "ifdown", i, None)
    /\ UNCHANGED <<enabled, lock, orphan, world, files, rt, tracker>>

LockStart ==
    /\ cli.pc = "wantStart" /\ Acquire("cli") /\ Command("inStart")
    /\ UNCHANGED <<enabled, orphan, world, files, rt, tracker, call>>

\* start: enable, then ifup for every interface of the configuration.
Start ==
    /\ cli.pc = "inStart" /\ enabled' = TRUE /\ Unlock
    /\ cli' = [cli EXCEPT !.pc = "next", !.todo = Config]
    /\ UNCHANGED <<orphan, world, files, rt, tracker, call>>

LockIfup ==
    /\ cli.pc = "next" /\ cli.todo # <<>> /\ call["cli"].pc = "idle"
    /\ Acquire("cli") /\ Command("inIfup")
    /\ UNCHANGED <<enabled, orphan, world, files, rt, tracker, call>>

\* ifup: the whole command ends if the service is disabled.
CheckIfup ==
    /\ cli.pc = "inIfup" /\ Unlock
    /\ cli' = IF enabled THEN [cli EXCEPT !.pc = "query"] ELSE NoCommand
    /\ UNCHANGED <<enabled, orphan, world, files, rt, tracker, call>>

\* Outside the lock: ask netifd, and run the scripts if the interface is up.
QueryIfup ==
    /\ cli.pc = "query"
    /\ LET i == Head(cli.todo) IN
       /\ cli' = [cli EXCEPT !.pc = "next", !.todo = Tail(cli.todo)]
       /\ IF net[i] # None /\ i \in Enabled THEN HotplugCall("cli", "ifup", i, net[i]) ELSE call' = call
    /\ UNCHANGED <<enabled, lock, orphan, world, files, rt, tracker>>

\* ifdown, once its hotplug-call is over: kill the interface's trackers.
KillIfdown ==
    /\ cli.pc = "ifdown" /\ call["cli"].pc = "idle"
    /\ tracker' = [t \in Trackers |->
                     IF t \in Matching(Head(cli.todo), None) THEN NoTracker ELSE tracker[t]]
    /\ cli' = NoCommand
    /\ UNCHANGED <<enabled, lock, orphan, world, files, rt, call>>

Done ==
    /\ cli.pc = "next" /\ cli.todo = <<>> /\ call["cli"].pc = "idle"
    /\ cli' = NoCommand
    /\ UNCHANGED <<enabled, lock, orphan, world, files, rt, tracker, call>>

LockStop ==
    /\ cli.pc = "wantStop" /\ Acquire("cli") /\ Command("inStop")
    /\ UNCHANGED <<enabled, orphan, world, files, rt, tracker, call>>

\* stop: disable, then TERM and KILL the monitor and every tracker.  A
\* hotplug-call or a lock process started by a killed shell lives on.
StopKills ==
    /\ cli.pc = "inStop" /\ enabled' = FALSE
    /\ tracker' = [t \in Trackers |-> NoTracker]
    /\ orphan' = (orphan \/ rt = "want") /\ rt' = "none"
    /\ Command("clean")
    /\ UNCHANGED <<lock, world, files, call>>

\* Flush tables, rules, chains and sets, and unlock.
StopFlushes ==
    /\ cli.pc = "clean"
    /\ route' = [i \in Ifaces |-> None] /\ policy' = {}
    /\ Unlock /\ Command("remove")
    /\ UNCHANGED <<enabled, orphan, world, hstate, tfile, rt, tracker, call>>

\* rm -rf of both status directories, after unlocking; restart goes on.
StopRemoves ==
    /\ cli.pc = "remove"
    /\ hstate' = [i \in Ifaces |-> "offline"] /\ tfile' = [i \in Ifaces |-> None]
    /\ cli' = IF cli.again THEN [NoCommand EXCEPT !.pc = "wantStart"] ELSE NoCommand
    /\ UNCHANGED <<enabled, lock, orphan, world, route, policy, rt, tracker, call>>

Issue == IssueStart \/ IssueStop \/ IssueIfup \/ IssueIfdown

CliStep ==
    \/ LockStart \/ Start \/ LockIfup \/ CheckIfup \/ QueryIfup \/ KillIfdown \/ Done
    \/ LockStop \/ StopKills \/ StopFlushes \/ StopRemoves

-----------------------------------------------------------------------------
Next ==
    \/ \E a \in Agents : CallStep(a)
    \/ \E t \in Trackers : TrackerStep(t)
    \/ RtmonStep \/ OrphanAcquires
    \/ CliStep \/ Issue
    \/ Dispatch \/ PathChanges
    \/ \E i \in Ifaces : NetUp(i) \/ NetDown(i)

Spec == Init /\ [][Next]_vars

(***************************************************************************)
(* Fairness.  Scripts and daemons are never suspended for ever, netifd     *)
(* works off its events, and flock serves its waiters in turn, so whoever  *)
(* waits while the lock becomes free again and again gets it.  Nothing     *)
(* makes the network change or the administrator type.                     *)
(***************************************************************************)
Fairness ==
    /\ \A a \in Agents : SF_vars(CallStep(a))
    /\ \A t \in Trackers : WF_vars(TrackerStep(t))
    /\ WF_vars(Dispatch) /\ SF_vars(RtmonStep) /\ SF_vars(OrphanAcquires) /\ SF_vars(CliStep)

FairSpec == Spec /\ Fairness

-----------------------------------------------------------------------------
CallPCs    == {"idle", "want15", "in15", "track15", "policy15", "want16", "in16"}
TrackerPCs == {"free", "exec", "run", "connected", "ifdown", "ifup", "disconnected"}
CliPCs     == {"idle", "wantStart", "inStart", "next", "inIfup", "query", "ifdown",
               "wantStop", "inStop", "clean", "remove"}
CallActions == {None, "ifup", "ifdown", "connected", "disconnected"}

InHotplug(a) == call[a].pc \in {"in15", "track15", "policy15", "in16"}
InCommand    == cli.pc \in {"inStart", "inIfup", "inStop", "clean"}

(***************************************************************************)
(* The type of every variable of the service.                              *)
(***************************************************************************)
TypeOK ==
    /\ enabled \in BOOLEAN /\ orphan \in BOOLEAN
    /\ lock \in {"free", "rtmon", "orphan"} \cup Agents
    /\ net \in [Ifaces -> Devs \cup {None}] /\ path \subseteq Devs
    /\ pending \in Seq([action : {"ifup", "ifdown"}, iface : Ifaces, dev : Devs \cup {None}])
    /\ Len(pending) <= MaxPending
    /\ hstate \in [Ifaces -> {"online", "offline"}]
    /\ tfile \in [Ifaces -> {"online", "offline", None}]
    /\ route \in [Ifaces -> Devs \cup {None}]
    /\ policy \subseteq Ifaces
    /\ rt \in {"none", "exec", "sleep", "want", "in"}
    /\ tracker \in [Trackers -> [pc : TrackerPCs, iface : Ifaces \cup {None},
                                 dev : Devs \cup {None}, up : BOOLEAN, event : BOOLEAN]]
    /\ call \in [Agents -> [pc : CallPCs, action : CallActions, iface : Ifaces \cup {None},
                            dev : Devs \cup {None}, status : {"online", "offline", None}]]
    /\ cli \in [pc : CliPCs, todo : Seq(Ifaces), again : BOOLEAN]

(***************************************************************************)
(* Between mwan3_lock and mwan3_unlock a script holds the lock: no script  *)
(* unlocks for another, however calls, kills and commands interleave, so   *)
(* no two of them work on the firewall at the same time.                   *)
(***************************************************************************)
MutualExclusion ==
    /\ \A a \in Agents : InHotplug(a) => lock = a
    /\ InCommand => lock = "cli" /\ ~InHotplug("cli")
    /\ rt = "in" => lock = "rtmon"

(***************************************************************************)
(* While the service is enabled and no script is at work, the policy       *)
(* chains use exactly the interfaces whose iface_state file says online.   *)
(***************************************************************************)
PolicyFollowsState ==
    lock = "free" /\ enabled => policy = {i \in Enabled : hstate[i] = "online"}

(***************************************************************************)
(* Once stop has flushed, nothing of mwan3 is left, and hotplug scripts    *)
(* that were waiting for the lock bring nothing back: no tracker, no route *)
(* monitor, no route and no policy until the next start.                   *)
(***************************************************************************)
StoppedIsClean ==
    ~enabled /\ cli.pc # "clean" =>
        /\ \A t \in Trackers : tracker[t].pc = "free"
        /\ rt = "none" /\ policy = {}
        /\ \A i \in Ifaces : route[i] = None

\* No script is at work, none is waiting, and nothing is left to announce.
Quiet ==
    lock = "free" /\ cli.pc = "idle" /\ pending = <<>> /\ \A a \in Agents : call[a].pc = "idle"

(***************************************************************************)
(* An interface "will be deemed down after this many failed ping tests"    *)
(* and up again after as many good ones (LuCI on down and up): when        *)
(* nothing is in flight, a tracker on the interface's own device and the   *)
(* iface_state file agree.                                                 *)
(***************************************************************************)
StateFollowsVerdict ==
    enabled /\ Quiet =>
        \A t \in Trackers :
            LET k == tracker[t] IN
            k.pc = "run" /\ ~k.event /\ k.dev = net[k.iface]
                => (hstate[k.iface] = "online" <=> k.up)

(***************************************************************************)
(* However many scripts start trackers, an interface never has two of them *)
(* on the same device.                                                     *)
(***************************************************************************)
OneTrackerPerDevice ==
    \A s, t \in Trackers :
        /\ tracker[s].pc # "free" /\ tracker[t].pc # "free"
        /\ tracker[s].iface = tracker[t].iface /\ tracker[s].dev = tracker[t].dev
        => s = t

(***************************************************************************)
(* No step of any script starts a tracker or the route monitor, adds a     *)
(* route or puts an interface into a policy while the service is disabled, *)
(* although every script tests the flag long before it acts.               *)
(***************************************************************************)
NothingStartsWhileDisabled ==
    [][~enabled =>
         /\ \A t \in Trackers : tracker[t].pc = "free" => tracker'[t].pc = "free"
         /\ rt = "none" => rt' = "none"
         /\ policy' \subseteq policy
         /\ \A i \in Ifaces : route'[i] \in {route[i], None}]_vars

Tended(i) == \E t \in Trackers : tracker[t].pc # "free" /\ tracker[t].iface = i

(***************************************************************************)
(* Every hotplug-call ends: nobody waits for the lock for ever.            *)
(***************************************************************************)
CallsReturn == \A a \in Agents : call[a].pc # "idle" ~> call[a].pc = "idle"

(***************************************************************************)
(* An interface that is up for good on a device over which its targets     *)
(* answer, and that a tracker looks after, ends up in use for good.        *)
(***************************************************************************)
GoodLinkIsUsed ==
    \A i \in Tracked, d \in Devs :
        <>[](enabled /\ net[i] = d /\ d \in path /\ Tended(i))
            => <>[](i \in policy /\ route[i] = d)

(***************************************************************************)
(* An interface whose targets no longer answer, or that is down, ends up   *)
(* out of the policies for good, whatever was still on its way.            *)
(***************************************************************************)
DeadLinkIsShed ==
    \A i \in Tracked, d \in Devs \cup {None} :
        <>[](enabled /\ path = {} /\ net[i] = d /\ (d = None \/ Tended(i))) => <>[](i \notin policy)

(***************************************************************************)
(* mwan3 restart, which "reloads iptables rules, ip rules and ip routes",  *)
(* gets as far as enabling the service again once it has torn it down.     *)
(***************************************************************************)
RestartReloads == cli.pc = "remove" /\ cli.again ~> cli.pc = "inStart"

=============================================================================
