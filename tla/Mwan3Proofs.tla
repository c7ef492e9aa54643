----------------------------- MODULE Mwan3Proofs -----------------------------
(***************************************************************************)
(* Proofs about the mwan3 service, for any number of interfaces, devices,  *)
(* trackers and queued events and any set of commands.                     *)
(***************************************************************************)
EXTENDS Mwan3, SequenceTheorems, TLAPS

CONSTANT
    OwnDevice       \* [Ifaces -> the one device the interface ever comes up over]; only
                    \* OwnDevices speaks of it

CallRecords == [pc : CallPCs, action : CallActions, iface : Ifaces \cup {None},
                dev : Devs \cup {None}, status : {"online", "offline", None}]
TrackerRecords == [pc : TrackerPCs, iface : Ifaces \cup {None},
                   dev : Devs \cup {None}, up : BOOLEAN, event : BOOLEAN]
EventRecords == [action : {"ifup", "ifdown"}, iface : Ifaces, dev : Devs \cup {None}]
CliRecords == [pc : CliPCs, todo : Seq(Ifaces), again : BOOLEAN]

\* TypeOK without the three process tables.
BaseOK ==
    /\ enabled \in BOOLEAN /\ orphan \in BOOLEAN
    /\ lock \in {"free", "rtmon", "orphan"} \cup Agents
    /\ net \in [Ifaces -> Devs \cup {None}] /\ path \subseteq Devs
    /\ pending \in Seq(EventRecords) /\ Len(pending) <= MaxPending
    /\ hstate \in [Ifaces -> {"online", "offline"}]
    /\ tfile \in [Ifaces -> {"online", "offline", None}]
    /\ route \in [Ifaces -> Devs \cup {None}]
    /\ policy \subseteq Ifaces
    /\ rt \in {"none", "exec", "sleep", "want", "in"}

\* The command asks about an interface only while its list has one.
TodoOK == cli.pc \in {"inIfup", "query"} => cli.todo # <<>>

\* 15-mwan3 has read a proper status by the time it starts a tracker.
CallsOK ==
    /\ call \in [Agents -> CallRecords]
    /\ \A a \in Agents : call[a].pc = "track15" => call[a].status \in {"online", "offline"}

Typed ==
    /\ BaseOK
    /\ tracker \in [Trackers -> TrackerRecords]
    /\ CallsOK
    /\ cli \in CliRecords
    /\ TodoOK

-----------------------------------------------------------------------------
(* Typing.                                                                 *)

LEMMA TypedImpliesTypeOK == Typed => TypeOK
  BY DEF Typed, CallsOK, BaseOK, TypeOK, CallRecords, TrackerRecords, EventRecords, CliRecords

\* How the operators that write the process tables keep their types.
LEMMA GotoTyped ==
    ASSUME CallsOK, NEW a \in Agents, NEW q \in CallPCs \ {"track15"}, Goto(a, q)
    PROVE  CallsOK'
<1>1. [call[a] EXCEPT !.pc = q] \in CallRecords
  BY DEF CallRecords, CallsOK
<1>2. call' \in [Agents -> CallRecords]
  BY <1>1 DEF Goto, CallsOK
<1>3. ASSUME NEW b \in Agents, call'[b].pc = "track15" PROVE call'[b] = call[b]
  BY <1>3 DEF Goto, CallsOK, CallRecords
<1> QED
  BY <1>2, <1>3 DEF CallsOK

LEMMA HotplugCallTyped ==
    ASSUME CallsOK, NEW a \in Agents,
           NEW i \in Ifaces \cup {None}, NEW d \in Devs \cup {None},
           NEW action \in {"ifup", "ifdown", "connected", "disconnected"},
           HotplugCall(a, action, i, d)
    PROVE  CallsOK'
<1> DEFINE r == [pc |-> IF action \in {"ifup", "ifdown"} THEN "want15" ELSE "want16",
                 action |-> action, iface |-> i, dev |-> d, status |-> None]
<1>1. r \in CallRecords /\ r.pc # "track15"
  BY DEF CallRecords, CallPCs, CallActions
<1>2. call' = [call EXCEPT ![a] = r]
  BY DEF HotplugCall
<1> QED
  BY <1>1, <1>2 DEF CallsOK

LEMMA CliTyped ==
    /\ NoCommand \in CliRecords
    /\ \A c \in CliRecords, q \in CliPCs : [c EXCEPT !.pc = q] \in CliRecords
    /\ \A c \in CliRecords, q \in CliPCs, s \in Seq(Ifaces) :
          [c EXCEPT !.pc = q, !.todo = s] \in CliRecords
    /\ \A c \in CliRecords, q \in CliPCs, b \in BOOLEAN :
          [c EXCEPT !.pc = q, !.again = b] \in CliRecords
<1>1. NoCommand \in CliRecords
  BY DEF NoCommand, CliRecords, CliPCs
<1> QED
  BY <1>1 DEF CliRecords

LEMMA CommandTyped ==
    ASSUME cli \in CliRecords, NEW q \in CliPCs, Command(q)
    PROVE  cli' \in CliRecords /\ cli'.pc = q /\ cli'.todo = cli.todo
  BY DEF Command, CliRecords

LEMMA NoTrackerTyped == NoTracker \in TrackerRecords
<1>1. NoTracker.pc \in TrackerPCs /\ NoTracker.iface = None /\ NoTracker.dev = None
  BY DEF NoTracker, TrackerPCs
<1> QED
  BY <1>1 DEF NoTracker, TrackerRecords

LEMMA InitTyped == Init => Typed
<1> SUFFICES ASSUME Init PROVE Typed
  OBVIOUS
<1> USE DEF Init
<1>1. pending \in Seq(EventRecords) /\ Len(pending) <= MaxPending
  BY ServiceAssumption DEF EventRecords
<1>2. tracker \in [Trackers -> TrackerRecords]
  BY NoTrackerTyped
<1>3. CallsOK
  BY DEF CallsOK, NoCall, CallRecords, CallPCs, CallActions
<1>4. cli \in CliRecords
  BY DEF NoCommand, CliPCs, CliRecords
<1>5. TodoOK
  BY DEF TodoOK, NoCommand
<1>6. path \subseteq Devs /\ policy \subseteq Ifaces
  OBVIOUS
<1>7. enabled \in BOOLEAN
  BY Zenon
<1>8. /\ orphan \in BOOLEAN /\ lock \in {"free", "rtmon", "orphan"} \cup Agents
      /\ rt \in {"none", "exec", "sleep", "want", "in"}
  OBVIOUS
<1>9. /\ net \in [Ifaces -> Devs \cup {None}] /\ route \in [Ifaces -> Devs \cup {None}]
      /\ hstate \in [Ifaces -> {"online", "offline"}]
      /\ tfile \in [Ifaces -> {"online", "offline", None}]
  OBVIOUS
<1> QED
  BY <1>1, <1>2, <1>3, <1>4, <1>5, <1>6, <1>7, <1>8, <1>9 DEF Typed, BaseOK

LEMMA NextTyped == Typed /\ [Next]_vars => Typed'
<1> SUFFICES ASSUME Typed, [Next]_vars PROVE Typed'
  OBVIOUS
<1> USE DEF Typed
<1>1. ASSUME NEW a \in Agents, Lock15(a) PROVE Typed'
  <2>1. BaseOK'
    BY <1>1, ServiceAssumption DEF Lock15, files, world, BaseOK, Acquire, Unlock, Agents
  <2>2. CallsOK'
    BY <1>1, GotoTyped DEF Lock15, CallPCs
  <2>3. UNCHANGED <<tracker, cli>>
    BY <1>1 DEF Lock15
  <2> QED
    BY <2>1, <2>2, <2>3 DEF TodoOK
<1>2. ASSUME NEW a \in Agents, Skip15(a) PROVE Typed'
  <2>1. BaseOK'
    BY <1>2, ServiceAssumption DEF Skip15, files, world, BaseOK, Acquire, Unlock
  <2>2. CallsOK'
    BY <1>2, GotoTyped DEF Skip15, CallPCs
  <2>3. UNCHANGED <<tracker, cli>>
    BY <1>2 DEF Skip15
  <2> QED
    BY <2>1, <2>2, <2>3 DEF TodoOK
<1>3. ASSUME NEW a \in Agents, Routes15(a) PROVE Typed'
  <2>1. BaseOK'
    BY <1>3, ServiceAssumption DEF Routes15, files, world, BaseOK, Acquire, Unlock, CallsOK,
       CallRecords
  <2>2. CallsOK'
    <3>1. StartStatus(call[a].iface) \in {"online", "offline", None}
      BY DEF StartStatus
    <3>2. [call[a] EXCEPT !.pc = "track15", !.status = StartStatus(call[a].iface)] \in CallRecords
      BY <3>1 DEF CallsOK, CallRecords, CallPCs
    <3>3. StartStatus(call[a].iface) \in {"online", "offline"}
      BY DEF StartStatus
    <3> QED
      BY <1>3, <3>2, <3>3 DEF Routes15, CallsOK, CallRecords
  <2>3. UNCHANGED <<tracker, cli>>
    BY <1>3 DEF Routes15
  <2> QED
    BY <2>1, <2>2, <2>3 DEF TodoOK
<1>4. ASSUME NEW a \in Agents, Track15(a) PROVE Typed'
  <2>1. BaseOK'
    BY <1>4 DEF Track15, files, world, BaseOK, CallsOK
  <2>2. tracker' \in [Trackers -> TrackerRecords]
    <3> DEFINE killed == Matching(call[a].iface, call[a].dev)
               rest == [t \in Trackers |-> IF t \in killed THEN NoTracker ELSE tracker[t]]
               new  == [pc |-> "exec", iface |-> call[a].iface, dev |-> call[a].dev,
                        up |-> call[a].status = "online", event |-> FALSE]
    <3>1. rest \in [Trackers -> TrackerRecords]
      BY NoTrackerTyped
    <3>2. (call[a].status = "online") \in BOOLEAN
      BY Zenon
    <3>3. new \in TrackerRecords
      BY <3>2 DEF TrackerRecords, TrackerPCs, CallsOK, CallRecords
    <3>4. \A s : [rest EXCEPT ![s] = new] \in [Trackers -> TrackerRecords]
      BY <3>1, <3>3
    <3> QED
      BY <1>4, <3>1, <3>4, ZenonT(30) DEF Track15
  <2>3. CallsOK'
    BY <1>4, GotoTyped DEF Track15, CallPCs
  <2>4. UNCHANGED <<cli>>
    BY <1>4 DEF Track15
  <2> QED
    BY <2>1, <2>2, <2>3, <2>4 DEF TodoOK
<1>5. ASSUME NEW a \in Agents, Signal15(a) PROVE Typed'
  <2>1. BaseOK'
    BY <1>5 DEF Signal15, files, world, BaseOK
  <2>2. tracker' \in [Trackers -> TrackerRecords]
    <3>1. ASSUME NEW t \in Trackers
          PROVE  [tracker[t] EXCEPT !.event = TRUE] \in TrackerRecords
      BY DEF TrackerRecords
    <3> QED
      BY <1>5, <3>1, NoTrackerTyped DEF Signal15
  <2>3. CallsOK'
    BY <1>5, GotoTyped DEF Signal15, CallPCs
  <2>4. UNCHANGED <<cli>>
    BY <1>5 DEF Signal15
  <2> QED
    BY <2>1, <2>2, <2>3, <2>4 DEF TodoOK
<1>6. ASSUME NEW a \in Agents, Policy15(a) PROVE Typed'
  <2>1. BaseOK'
    <3>1. Enabled \subseteq Ifaces
      BY ServiceAssumption
    <3> QED
      BY <1>6, <3>1 DEF Policy15, files, world, BaseOK, Unlock
  <2>2. CallsOK'
    BY <1>6, GotoTyped DEF Policy15, CallPCs
  <2>3. UNCHANGED <<tracker, cli>>
    BY <1>6 DEF Policy15
  <2> QED
    BY <2>1, <2>2, <2>3 DEF TodoOK
<1>7. ASSUME NEW a \in Agents, Lock16(a) PROVE Typed'
  <2>1. BaseOK'
    BY <1>7, ServiceAssumption DEF Lock16, files, world, BaseOK, Acquire, Unlock, Agents
  <2>2. CallsOK'
    BY <1>7, GotoTyped DEF Lock16, CallPCs
  <2>3. UNCHANGED <<tracker, cli>>
    BY <1>7 DEF Lock16
  <2> QED
    BY <2>1, <2>2, <2>3 DEF TodoOK
<1>8. ASSUME NEW a \in Agents, Finish16(a) PROVE Typed'
  <2>1. BaseOK'
    BY <1>8, ServiceAssumption DEF Finish16, Rtmon, files, world, BaseOK, Acquire, Unlock
  <2>2. CallsOK'
    <3>1. NoCall \in CallRecords /\ NoCall.pc # "track15"
      BY DEF NoCall, CallRecords, CallPCs, CallActions
    <3> QED
      BY <1>8, <3>1 DEF Finish16, CallsOK
  <2>3. UNCHANGED <<tracker, cli>>
    BY <1>8 DEF Finish16
  <2> QED
    BY <2>1, <2>2, <2>3 DEF TodoOK
<1>9. ASSUME NEW t \in Trackers, TrackerStarts(t) PROVE Typed'
  <2>1. BaseOK'
    BY <1>9 DEF TrackerStarts, files, world, BaseOK
  <2>2. tracker' \in [Trackers -> TrackerRecords]
    <3>1. /\ [tracker[t] EXCEPT !.pc = "connected"] \in TrackerRecords
          /\ [tracker[t] EXCEPT !.pc = "run"] \in TrackerRecords
      BY DEF TrackerRecords, TrackerPCs
    <3> QED
      BY <1>9, <3>1 DEF TrackerStarts
  <2>3. CallsOK'
    <3>1. CASE call' = call
      BY <3>1 DEF CallsOK
    <3>2. CASE HotplugCall(t, "connected", tracker[t].iface, tracker[t].dev)
      <4>1. /\ t \in Agents /\ tracker[t].iface \in Ifaces \cup {None}
            /\ tracker[t].dev \in Devs \cup {None}
        BY DEF TrackerRecords, Agents
      <4> QED
        BY <3>2, <4>1, HotplugCallTyped
    <3> QED
      BY <1>9, <3>1, <3>2 DEF TrackerStarts
  <2>4. UNCHANGED <<cli>>
    BY <1>9 DEF TrackerStarts
  <2> QED
    BY <2>1, <2>2, <2>3, <2>4 DEF TodoOK
<1>10. ASSUME NEW t \in Trackers, TrackerFails(t) PROVE Typed'
  <2>1. BaseOK'
    BY <1>10 DEF TrackerFails, files, world, BaseOK
  <2>2. tracker' \in [Trackers -> TrackerRecords]
    <3>1. [tracker[t] EXCEPT !.pc = "ifdown"] \in TrackerRecords
      BY DEF TrackerRecords, TrackerPCs
    <3> QED
      BY <1>10, <3>1 DEF TrackerFails
  <2>3. CallsOK'
    <3>1. /\ t \in Agents /\ tracker[t].iface \in Ifaces \cup {None}
          /\ tracker[t].dev \in Devs \cup {None}
      BY DEF TrackerRecords, Agents
    <3> QED
      BY <1>10, <3>1, HotplugCallTyped DEF TrackerFails
  <2>4. UNCHANGED <<cli>>
    BY <1>10 DEF TrackerFails
  <2> QED
    BY <2>1, <2>2, <2>3, <2>4 DEF TodoOK
<1>11. ASSUME NEW t \in Trackers, TrackerPasses(t) PROVE Typed'
  <2>1. BaseOK'
    BY <1>11 DEF TrackerPasses, files, world, BaseOK
  <2>2. tracker' \in [Trackers -> TrackerRecords]
    <3>1. [tracker[t] EXCEPT !.pc = "ifup"] \in TrackerRecords
      BY DEF TrackerRecords, TrackerPCs
    <3> QED
      BY <1>11, <3>1 DEF TrackerPasses
  <2>3. CallsOK'
    <3>1. /\ t \in Agents /\ tracker[t].iface \in Ifaces \cup {None}
          /\ tracker[t].dev \in Devs \cup {None}
      BY DEF TrackerRecords, Agents
    <3> QED
      BY <1>11, <3>1, HotplugCallTyped DEF TrackerPasses
  <2>4. UNCHANGED <<cli>>
    BY <1>11 DEF TrackerPasses
  <2> QED
    BY <2>1, <2>2, <2>3, <2>4 DEF TodoOK
<1>12. ASSUME NEW t \in Trackers, TrackerUnplugged(t) PROVE Typed'
  <2>1. BaseOK'
    BY <1>12 DEF TrackerUnplugged, files, world, BaseOK
  <2>2. tracker' \in [Trackers -> TrackerRecords]
    <3>1. [tracker[t] EXCEPT !.pc = "disconnected"] \in TrackerRecords
      BY DEF TrackerRecords, TrackerPCs
    <3> QED
      BY <1>12, <3>1 DEF TrackerUnplugged
  <2>3. CallsOK'
    <3>1. /\ t \in Agents /\ tracker[t].iface \in Ifaces \cup {None}
          /\ tracker[t].dev \in Devs \cup {None}
      BY DEF TrackerRecords, Agents
    <3> QED
      BY <1>12, <3>1, HotplugCallTyped DEF TrackerUnplugged
  <2>4. UNCHANGED <<cli>>
    BY <1>12 DEF TrackerUnplugged
  <2> QED
    BY <2>1, <2>2, <2>3, <2>4 DEF TodoOK
<1>13. ASSUME NEW t \in Trackers, TrackerResumes(t) PROVE Typed'
  <2>1. tracker' \in [Trackers -> TrackerRecords]
    <3>1. /\ [tracker[t] EXCEPT !.pc = "run"] \in TrackerRecords
          /\ [tracker[t] EXCEPT !.pc = "run", !.up = FALSE] \in TrackerRecords
          /\ [tracker[t] EXCEPT !.pc = "run", !.up = FALSE, !.event = FALSE] \in TrackerRecords
      BY DEF TrackerRecords, TrackerPCs
    <3>2. tracker[t].pc \in {"connected", "ifdown", "ifup", "disconnected"}
      BY <1>13 DEF TrackerResumes
    <3> QED
      BY <1>13, <3>1, <3>2, NoTrackerTyped DEF TrackerResumes
  <2>2. UNCHANGED <<enabled, lock, orphan, world, files, rt, call, cli>>
    BY <1>13 DEF TrackerResumes
  <2> QED
    BY <2>1, <2>2 DEF world, files, BaseOK, CallsOK, TodoOK
<1>14. CASE RtmonTraps \/ RtmonWakes
  <2>1. BaseOK'
    BY <1>14, ServiceAssumption DEF RtmonTraps, RtmonWakes, files, world, BaseOK, Acquire, Unlock
  <2>2. UNCHANGED <<tracker, call, cli>>
    BY <1>14 DEF RtmonTraps, RtmonWakes
  <2> QED
    BY <2>1, <2>2 DEF CallsOK, TodoOK
<1>15. CASE RtmonLocks
  <2>1. BaseOK'
    BY <1>15, ServiceAssumption DEF RtmonLocks, files, world, BaseOK, Acquire, Unlock
  <2>2. UNCHANGED <<tracker, call, cli>>
    BY <1>15 DEF RtmonLocks
  <2> QED
    BY <2>1, <2>2 DEF CallsOK, TodoOK
<1>16. CASE RtmonUnlocks
  <2>1. BaseOK'
    BY <1>16, ServiceAssumption DEF RtmonUnlocks, files, world, BaseOK, Acquire, Unlock
  <2>2. UNCHANGED <<tracker, call, cli>>
    BY <1>16 DEF RtmonUnlocks
  <2> QED
    BY <2>1, <2>2 DEF CallsOK, TodoOK
<1>17. CASE OrphanAcquires
  <2>1. BaseOK'
    BY <1>17, ServiceAssumption DEF OrphanAcquires, files, world, BaseOK, Acquire, Unlock
  <2>2. UNCHANGED <<tracker, call, cli>>
    BY <1>17 DEF OrphanAcquires
  <2> QED
    BY <2>1, <2>2 DEF CallsOK, TodoOK
<1>18. CASE LockStart
  <2>1. BaseOK'
    BY <1>18, ServiceAssumption DEF LockStart, files, world, BaseOK, Acquire, Unlock, Agents
  <2>2. cli' \in CliRecords /\ TodoOK'
    BY <1>18, CommandTyped DEF LockStart, CliPCs, TodoOK
  <2>3. UNCHANGED <<tracker, call>>
    BY <1>18 DEF LockStart
  <2> QED
    BY <2>1, <2>2, <2>3 DEF CallsOK
<1>19. CASE Start
  <2>1. BaseOK'
    BY <1>19, ServiceAssumption DEF Start, files, world, BaseOK, Acquire, Unlock
  <2>2. cli' \in CliRecords /\ TodoOK'
    <3>1. Config \in Seq(Ifaces)
      BY ServiceAssumption
    <3>2. cli' \in CliRecords
      BY <1>19, <3>1 DEF Start, CliRecords, CliPCs
    <3> QED
      BY <1>19, <3>2 DEF Start, CliRecords, TodoOK
  <2>3. UNCHANGED <<tracker, call>>
    BY <1>19 DEF Start
  <2> QED
    BY <2>1, <2>2, <2>3 DEF CallsOK
<1>20. CASE LockIfup
  <2>1. BaseOK'
    BY <1>20, ServiceAssumption DEF LockIfup, files, world, BaseOK, Acquire, Unlock, Agents
  <2>2. cli' \in CliRecords /\ TodoOK'
    BY <1>20, CommandTyped DEF LockIfup, CliPCs, TodoOK
  <2>3. UNCHANGED <<tracker, call>>
    BY <1>20 DEF LockIfup
  <2> QED
    BY <2>1, <2>2, <2>3 DEF CallsOK
<1>21. CASE CheckIfup
  <2>1. BaseOK'
    BY <1>21, ServiceAssumption DEF CheckIfup, files, world, BaseOK, Acquire, Unlock
  <2>2. cli' \in CliRecords /\ TodoOK'
    <3>1. NoCommand \in CliRecords /\ [cli EXCEPT !.pc = "query"] \in CliRecords
      BY DEF NoCommand, CliRecords, CliPCs
    <3>2. cli.todo # <<>>
      BY <1>21 DEF CheckIfup, TodoOK
    <3> QED
      BY <1>21, <3>1, <3>2 DEF CheckIfup, NoCommand, CliRecords, TodoOK
  <2>3. UNCHANGED <<tracker, call>>
    BY <1>21 DEF CheckIfup
  <2> QED
    BY <2>1, <2>2, <2>3 DEF CallsOK
<1>22. CASE QueryIfup
  <2>1. BaseOK'
    BY <1>22 DEF QueryIfup, files, world, BaseOK
  <2>2. CallsOK'
    <3>1. Head(cli.todo) \in Ifaces
      BY <1>22, HeadTailProperties DEF QueryIfup, TodoOK, CliRecords
    <3>2. net[Head(cli.todo)] \in Devs \cup {None} /\ "cli" \in Agents
      BY <3>1 DEF BaseOK, Agents
    <3>3. CASE call' = call
      BY <3>3 DEF CallsOK
    <3>4. CASE HotplugCall("cli", "ifup", Head(cli.todo), net[Head(cli.todo)])
      BY <3>1, <3>2, <3>4, HotplugCallTyped
    <3> QED
      BY <1>22, <3>3, <3>4 DEF QueryIfup
  <2>3. cli' \in CliRecords /\ TodoOK'
    <3>1. Tail(cli.todo) \in Seq(Ifaces)
      BY <1>22, HeadTailProperties DEF QueryIfup, TodoOK, CliRecords
    <3>2. cli' \in CliRecords
      BY <1>22, <3>1 DEF QueryIfup, CliRecords, CliPCs
    <3> QED
      BY <1>22, <3>2 DEF QueryIfup, CliRecords, TodoOK
  <2>4. UNCHANGED <<tracker>>
    BY <1>22 DEF QueryIfup
  <2> QED
    BY <2>1, <2>2, <2>3, <2>4
<1>23. CASE KillIfdown
  <2>1. tracker' \in [Trackers -> TrackerRecords]
    BY <1>23, NoTrackerTyped DEF KillIfdown
  <2>2. cli' \in CliRecords /\ TodoOK'
    BY <1>23, CliTyped DEF KillIfdown, NoCommand, TodoOK
  <2>3. UNCHANGED <<enabled, lock, orphan, world, files, rt, call>>
    BY <1>23 DEF KillIfdown
  <2> QED
    BY <2>1, <2>2, <2>3 DEF world, files, BaseOK, CallsOK
<1>24. CASE Done
  <2>1. cli' \in CliRecords /\ TodoOK'
    BY <1>24, CliTyped DEF Done, NoCommand, TodoOK
  <2>2. UNCHANGED <<enabled, lock, orphan, world, files, rt, tracker, call>>
    BY <1>24 DEF Done
  <2> QED
    BY <2>1, <2>2 DEF world, files, BaseOK, CallsOK
<1>25. CASE LockStop
  <2>1. BaseOK'
    BY <1>25, ServiceAssumption DEF LockStop, files, world, BaseOK, Acquire, Unlock, Agents
  <2>2. cli' \in CliRecords /\ TodoOK'
    BY <1>25, CommandTyped DEF LockStop, CliPCs, TodoOK
  <2>3. UNCHANGED <<tracker, call>>
    BY <1>25 DEF LockStop
  <2> QED
    BY <2>1, <2>2, <2>3 DEF CallsOK
<1>26. CASE StopKills
  <2>1. BaseOK'
    BY <1>26 DEF StopKills, files, world, BaseOK
  <2>2. tracker' \in [Trackers -> TrackerRecords]
    BY <1>26, NoTrackerTyped DEF StopKills
  <2>3. cli' \in CliRecords /\ TodoOK'
    BY <1>26, CommandTyped DEF StopKills, CliPCs, TodoOK
  <2>4. UNCHANGED <<call>>
    BY <1>26 DEF StopKills
  <2> QED
    BY <2>1, <2>2, <2>3, <2>4 DEF CallsOK
<1>27. CASE StopFlushes
  <2>1. BaseOK'
    BY <1>27, ServiceAssumption DEF StopFlushes, files, world, BaseOK, Acquire, Unlock
  <2>2. cli' \in CliRecords /\ TodoOK'
    BY <1>27, CommandTyped DEF StopFlushes, CliPCs, TodoOK
  <2>3. UNCHANGED <<tracker, call>>
    BY <1>27 DEF StopFlushes
  <2> QED
    BY <2>1, <2>2, <2>3 DEF CallsOK
<1>28. CASE StopRemoves
  <2>1. BaseOK'
    BY <1>28, ServiceAssumption DEF StopRemoves, files, world, BaseOK, Acquire, Unlock
  <2>2. cli' \in CliRecords /\ TodoOK'
    <3>1. NoCommand \in CliRecords /\ [NoCommand EXCEPT !.pc = "wantStart"] \in CliRecords
      BY CliTyped DEF CliPCs
    <3> QED
      BY <1>28, <3>1, SMTT(30) DEF StopRemoves, NoCommand, TodoOK
  <2>3. UNCHANGED <<tracker, call>>
    BY <1>28 DEF StopRemoves
  <2> QED
    BY <2>1, <2>2, <2>3 DEF CallsOK
<1>29. CASE IssueStart
  <2>1. cli' \in CliRecords /\ TodoOK'
    <3>1. NoCommand \in CliRecords /\ [NoCommand EXCEPT !.pc = "wantStart"] \in CliRecords
      BY CliTyped DEF CliPCs
    <3> QED
      BY <1>29, <3>1 DEF IssueStart, NoCommand, TodoOK
  <2>2. UNCHANGED <<enabled, lock, orphan, world, files, rt, tracker, call>>
    BY <1>29 DEF IssueStart
  <2> QED
    BY <2>1, <2>2 DEF world, files, BaseOK, CallsOK
<1>30. CASE IssueStop
  <2>1. cli' \in CliRecords /\ TodoOK'
    <3>1. PICK again \in BOOLEAN : cli' = [NoCommand EXCEPT !.pc = "wantStop", !.again = again]
      BY <1>30, ZenonT(30) DEF IssueStop
    <3>2. [NoCommand EXCEPT !.pc = "wantStop", !.again = again] \in CliRecords
      BY CliTyped DEF CliPCs
    <3> QED
      BY <3>1, <3>2 DEF NoCommand, TodoOK
  <2>2. UNCHANGED <<enabled, lock, orphan, world, files, rt, tracker, call>>
    BY <1>30 DEF IssueStop
  <2> QED
    BY <2>1, <2>2 DEF world, files, BaseOK, CallsOK
<1>31. CASE IssueIfup
  <2>1. cli' \in CliRecords /\ TodoOK'
    <3>1. PICK i \in Ifaces : cli' = [NoCommand EXCEPT !.pc = "next", !.todo = <<i>>]
      BY <1>31, ZenonT(30) DEF IssueIfup
    <3>2. [NoCommand EXCEPT !.pc = "next", !.todo = <<i>>] \in CliRecords
      <4>1. <<i>> \in Seq(Ifaces)
        OBVIOUS
      <4> QED
        BY <4>1, CliTyped DEF CliPCs
    <3> QED
      BY <3>1, <3>2 DEF NoCommand, TodoOK
  <2>2. UNCHANGED <<enabled, lock, orphan, world, files, rt, tracker, call>>
    BY <1>31 DEF IssueIfup
  <2> QED
    BY <2>1, <2>2 DEF world, files, BaseOK, CallsOK
<1>32. CASE IssueIfdown
  <2>1. CallsOK'
    <3>1. "cli" \in Agents
      BY DEF Agents
    <3> QED
      BY <1>32, <3>1, HotplugCallTyped DEF IssueIfdown
  <2>2. cli' \in CliRecords /\ TodoOK'
    <3>1. PICK i \in Ifaces : cli' = [NoCommand EXCEPT !.pc = "ifdown", !.todo = <<i>>]
      BY <1>32, ZenonT(30) DEF IssueIfdown
    <3>2. [NoCommand EXCEPT !.pc = "ifdown", !.todo = <<i>>] \in CliRecords
      <4>1. <<i>> \in Seq(Ifaces)
        OBVIOUS
      <4> QED
        BY <4>1, CliTyped DEF CliPCs
    <3> QED
      BY <3>1, <3>2 DEF NoCommand, TodoOK
  <2>3. UNCHANGED <<enabled, lock, orphan, world, files, rt, tracker>>
    BY <1>32 DEF IssueIfdown
  <2> QED
    BY <2>1, <2>2, <2>3 DEF world, files, BaseOK
<1>33. CASE Dispatch
  <2>1. BaseOK'
    <3>1. Tail(pending) \in Seq(EventRecords) /\ Len(Tail(pending)) <= MaxPending
      BY <1>33, HeadTailProperties, ServiceAssumption DEF Dispatch, BaseOK
    <3> QED
      BY <1>33, <3>1 DEF Dispatch, files, world, BaseOK
  <2>2. CallsOK'
    <3>1. Head(pending) \in EventRecords /\ "netifd" \in Agents
      BY <1>33, HeadTailProperties DEF Dispatch, BaseOK, Agents
    <3> QED
      BY <1>33, <3>1, HotplugCallTyped DEF Dispatch, EventRecords
  <2>3. UNCHANGED <<tracker, cli>>
    BY <1>33 DEF Dispatch
  <2> QED
    BY <2>1, <2>2, <2>3 DEF TodoOK
<1>34. CASE PathChanges
  <2>1. BaseOK'
    BY <1>34, ServiceAssumption DEF PathChanges, files, world, BaseOK, Acquire, Unlock
  <2>2. UNCHANGED <<tracker, call, cli>>
    BY <1>34 DEF PathChanges
  <2> QED
    BY <2>1, <2>2 DEF CallsOK, TodoOK
<1>35. ASSUME NEW i \in Ifaces, NetUp(i) PROVE Typed'
  <2>1. BaseOK'
    <3>1. PICK d \in Devs : net' = [net EXCEPT ![i] = d] /\ Announce("ifup", i, d)
      BY <1>35 DEF NetUp
    <3>2. [action |-> "ifup", iface |-> i, dev |-> d] \in EventRecords
      BY DEF EventRecords
    <3> QED
      BY <1>35, <3>1, <3>2, ServiceAssumption DEF NetUp, Announce, files, BaseOK
  <2>2. UNCHANGED <<tracker, call, cli>>
    BY <1>35 DEF NetUp
  <2> QED
    BY <2>1, <2>2 DEF CallsOK, TodoOK
<1>36. ASSUME NEW i \in Ifaces, NetDown(i) PROVE Typed'
  <2>1. BaseOK'
    <3>1. [action |-> "ifdown", iface |-> i, dev |-> None] \in EventRecords
      BY DEF EventRecords
    <3> QED
      BY <1>36, <3>1, ServiceAssumption DEF NetDown, Announce, files, BaseOK
  <2>2. UNCHANGED <<tracker, call, cli>>
    BY <1>36 DEF NetDown
  <2> QED
    BY <2>1, <2>2 DEF CallsOK, TodoOK
<1>37. CASE UNCHANGED vars
  BY <1>37 DEF vars, BaseOK, CallsOK, TodoOK
<1> QED BY <1>1, <1>2, <1>3, <1>4, <1>5, <1>6, <1>7, <1>8, <1>9, <1>10, <1>11, <1>12, <1>13,
           <1>14, <1>15, <1>16, <1>17, <1>18, <1>19, <1>20, <1>21, <1>22, <1>23, <1>24, <1>25,
           <1>26, <1>27, <1>28, <1>29, <1>30, <1>31, <1>32, <1>33, <1>34, <1>35, <1>36, <1>37,
           Zenon DEF Next, CallStep, TrackerStep, RtmonStep, CliStep, Issue
-----------------------------------------------------------------------------
(* The lock.                                                               *)

\* Where the agents are after the operators that move one of them.
LEMMA GotoMoves ==
    ASSUME CallsOK, NEW a \in Agents, NEW q, Goto(a, q)
    PROVE  \A b \in Agents : call'[b].pc = IF b = a THEN q ELSE call[b].pc
  BY DEF CallsOK, CallRecords, Goto

LEMMA HotplugCallMoves ==
    ASSUME CallsOK, NEW a \in Agents, NEW action, NEW i, NEW d, HotplugCall(a, action, i, d)
    PROVE  \A b \in Agents : call'[b].pc = IF b # a THEN call[b].pc
                              ELSE IF action \in {"ifup", "ifdown"} THEN "want15" ELSE "want16"
  BY DEF CallsOK, CallRecords, HotplugCall

LEMMA CommandMoves == ASSUME cli \in CliRecords, NEW q, Command(q) PROVE cli'.pc = q
  BY DEF Command, CliRecords

LEMMA NextMutualExclusion == Typed /\ MutualExclusion /\ [Next]_vars => MutualExclusion'
<1> SUFFICES ASSUME Typed, MutualExclusion, [Next]_vars PROVE MutualExclusion'
  OBVIOUS
<1> USE DEF Typed, MutualExclusion, InHotplug, InCommand
<1>1. ASSUME NEW a \in Agents, Lock15(a) PROVE MutualExclusion'
  BY <1>1, ServiceAssumption, GotoMoves DEF Lock15, Acquire, Unlock, Agents
<1>2. ASSUME NEW a \in Agents, Track15(a) PROVE MutualExclusion'
  BY <1>2, ServiceAssumption, GotoMoves DEF Track15, Acquire, Unlock, Agents
<1>3. ASSUME NEW a \in Agents, Signal15(a) PROVE MutualExclusion'
  BY <1>3, ServiceAssumption, GotoMoves DEF Signal15, Acquire, Unlock, Agents
<1>4. ASSUME NEW a \in Agents, Policy15(a) PROVE MutualExclusion'
  BY <1>4, ServiceAssumption, GotoMoves DEF Policy15, Acquire, Unlock, Agents
<1>5. ASSUME NEW a \in Agents, Lock16(a) PROVE MutualExclusion'
  BY <1>5, ServiceAssumption, GotoMoves DEF Lock16, Acquire, Unlock, Agents
<1>6. ASSUME NEW a \in Agents, Skip15(a) PROVE MutualExclusion'
  <2>1. call[a].pc = "in15" /\ lock' = "free" /\ Goto(a, "want16") /\ UNCHANGED <<rt, cli>>
    BY <1>6 DEF Skip15, Unlock
  <2> QED
    BY <2>1, GotoMoves, ServiceAssumption DEF Agents
<1>7. ASSUME NEW a \in Agents, Routes15(a) PROVE MutualExclusion'
  BY <1>7 DEF Routes15, CallsOK, CallRecords
<1>8. ASSUME NEW a \in Agents, Finish16(a) PROVE MutualExclusion'
  BY <1>8, ServiceAssumption DEF Finish16, Rtmon, NoCall, Unlock, CallsOK, Agents
<1>9. ASSUME NEW t \in Trackers, TrackerStarts(t) PROVE MutualExclusion'
  BY <1>9, ServiceAssumption, HotplugCallMoves DEF TrackerStarts, Agents
<1>10. ASSUME NEW t \in Trackers, TrackerFails(t) PROVE MutualExclusion'
  BY <1>10, ServiceAssumption, HotplugCallMoves DEF TrackerFails, Agents
<1>11. ASSUME NEW t \in Trackers, TrackerPasses(t) PROVE MutualExclusion'
  BY <1>11, ServiceAssumption, HotplugCallMoves DEF TrackerPasses, Agents
<1>12. ASSUME NEW t \in Trackers, TrackerUnplugged(t) PROVE MutualExclusion'
  BY <1>12, ServiceAssumption, HotplugCallMoves DEF TrackerUnplugged, Agents
<1>13. ASSUME NEW t \in Trackers, TrackerResumes(t) PROVE MutualExclusion'
  <2>1. UNCHANGED <<lock, rt, call, cli>>
    BY <1>13 DEF TrackerResumes, files, world
  <2> QED
    BY <2>1
<1>14. ASSUME NEW i \in Ifaces, NetUp(i) \/ NetDown(i) PROVE MutualExclusion'
  <2>1. UNCHANGED <<lock, rt, call, cli>>
    BY <1>14 DEF NetUp, NetDown, files, world
  <2> QED
    BY <2>1
<1>15. CASE PathChanges
  <2>1. UNCHANGED <<lock, rt, call, cli>>
    BY <1>15 DEF PathChanges, files, world
  <2> QED
    BY <2>1
<1>16. CASE RtmonTraps \/ RtmonWakes \/ RtmonLocks \/ RtmonUnlocks \/ OrphanAcquires
  BY <1>16, ServiceAssumption DEF RtmonTraps, RtmonWakes, RtmonLocks, RtmonUnlocks, OrphanAcquires,
     Acquire, Unlock, CliRecords, NoCommand, Agents
<1>17. CASE KillIfdown
  BY <1>17, ServiceAssumption DEF KillIfdown, Acquire, Unlock, CliRecords, NoCommand, Agents
<1>18. CASE Done
  BY <1>18, ServiceAssumption DEF Done, Acquire, Unlock, CliRecords, NoCommand, Agents
<1>19. CASE IssueStart
  BY <1>19, ServiceAssumption DEF IssueStart, Acquire, Unlock, CliRecords, NoCommand, Agents
<1>20. CASE IssueStop
  BY <1>20, ServiceAssumption DEF IssueStop, Acquire, Unlock, CliRecords, NoCommand, Agents
<1>21. CASE IssueIfup
  BY <1>21, ServiceAssumption DEF IssueIfup, Acquire, Unlock, CliRecords, NoCommand, Agents
<1>22. CASE StopRemoves
  BY <1>22, ServiceAssumption DEF StopRemoves, Acquire, Unlock, CliRecords, NoCommand, Agents
<1>23. CASE Start
  BY <1>23, ServiceAssumption DEF Start, Acquire, Unlock, CliRecords, NoCommand, Agents
<1>24. CASE CheckIfup
  BY <1>24, ServiceAssumption DEF CheckIfup, Acquire, Unlock, CliRecords, NoCommand, Agents
<1>25. CASE LockStart \/ LockIfup \/ LockStop
  BY <1>25, ServiceAssumption, CommandMoves DEF LockStart, LockIfup, LockStop, Acquire, Unlock,
     Agents
<1>26. CASE StopKills \/ StopFlushes
  BY <1>26, ServiceAssumption, CommandMoves DEF StopKills, StopFlushes, Acquire, Unlock, Agents
<1>27. CASE QueryIfup
  <2>1. /\ cli.pc = "query" /\ cli'.pc = "next" /\ UNCHANGED <<lock, rt>>
        /\ \/ call' = call
           \/ \E i, d : HotplugCall("cli", "ifup", i, d)
    BY <1>27 DEF QueryIfup, CliRecords
  <2>2. \A b \in Agents : call'[b].pc = call[b].pc \/ call'[b].pc = "want15"
    BY <2>1, HotplugCallMoves DEF Agents
  <2> QED
    BY <2>1, <2>2 DEF Agents
<1>28. CASE IssueIfdown
  <2>1. /\ cli'.pc = "ifdown" /\ UNCHANGED <<lock, rt>>
        /\ \E i, d : HotplugCall("cli", "ifdown", i, d)
    BY <1>28 DEF IssueIfdown, NoCommand
  <2>2. \A b \in Agents : call'[b].pc = call[b].pc \/ call'[b].pc = "want15"
    BY <2>1, HotplugCallMoves, ZenonT(30) DEF Agents
  <2> QED
    BY <2>1, <2>2 DEF Agents
<1>29. CASE Dispatch
  BY <1>29, ServiceAssumption, HotplugCallMoves DEF Dispatch, Agents
<1>30. CASE UNCHANGED vars
  BY <1>30 DEF vars
<1> QED BY <1>1, <1>2, <1>3, <1>4, <1>5, <1>6, <1>7, <1>8, <1>9, <1>10, <1>11, <1>12, <1>13,
           <1>14, <1>15, <1>16, <1>17, <1>18, <1>19, <1>20, <1>21, <1>22, <1>23, <1>24, <1>25,
           <1>26, <1>27, <1>28, <1>29, <1>30, Zenon DEF Next, CallStep, TrackerStep, RtmonStep,
           CliStep, Issue

-----------------------------------------------------------------------------
(* The trackers.                                                           *)

\* What mwan3_track does to the processes: those that pgrep finds end, the
\* others stay, and at most one comes, in a slot that nobody uses.
LEMMA Track15Trackers ==
    ASSUME Typed, NEW a \in Agents, Track15(a)
    PROVE  \E new : \A t \in Trackers :
             IF t = new
             THEN /\ call[t].pc = "idle"
                  /\ tracker'[t].iface = call[a].iface /\ tracker'[t].dev = call[a].dev
             ELSE tracker'[t] = IF t \in Matching(call[a].iface, call[a].dev) THEN NoTracker
                                ELSE tracker[t]
<1> DEFINE killed == Matching(call[a].iface, call[a].dev)
           rest   == [t \in Trackers |-> IF t \in killed THEN NoTracker ELSE tracker[t]]
           k      == [pc |-> "exec", iface |-> call[a].iface, dev |-> call[a].dev,
                      up |-> call[a].status = "online", event |-> FALSE]
<1>1. CASE call[a].iface \in Tracked
  <2>1. PICK new \in SlotsAfter(killed) : tracker' = [rest EXCEPT ![new] = k]
    BY <1>1, Zenon DEF Track15
  <2>2. new \in Trackers /\ call[new].pc = "idle"
    BY <2>1 DEF SlotsAfter
  <2>3. \A t \in Trackers : tracker'[t] = IF t = new THEN k ELSE rest[t]
    BY <2>1
  <2>4. \A t \in Trackers :
          IF t = new
          THEN /\ call[t].pc = "idle"
               /\ tracker'[t].iface = call[a].iface /\ tracker'[t].dev = call[a].dev
          ELSE tracker'[t] = IF t \in killed THEN NoTracker ELSE tracker[t]
    BY <2>2, <2>3
  <2> QED
    BY <2>4, Zenon
<1>2. CASE call[a].iface \notin Tracked
  <2>1. tracker' = rest
    BY <1>2 DEF Track15
  <2>2. "free" \notin Trackers
    BY ServiceAssumption
  <2> QED
    BY <2>1, <2>2
<1> QED
  BY <1>1, <1>2

-----------------------------------------------------------------------------
(* One hotplug-call at a time for each process: those that run it wait for *)
(* it.                                                                     *)

Waits ==
    /\ \A t \in Trackers : tracker[t].pc \in {"exec", "run"} => call[t].pc = "idle"
    /\ cli.pc \notin {"next", "ifdown"} => call["cli"].pc = "idle"

LEMMA NextWaits == Typed /\ Waits /\ [Next]_vars => Waits'
<1> SUFFICES ASSUME Typed, Waits, [Next]_vars PROVE Waits'
  OBVIOUS
<1> USE DEF Typed, CallsOK, Waits
<1>1. ASSUME NEW a \in Agents, Lock15(a) \/ Skip15(a) \/ Policy15(a) \/ Lock16(a) PROVE Waits'
  <2>1. /\ UNCHANGED <<tracker, cli>> /\ call[a].pc # "idle"
        /\ \A b \in Agents : b # a => call'[b].pc = call[b].pc
    BY <1>1, GotoMoves DEF Lock15, Skip15, Policy15, Lock16
  <2> QED
    BY <2>1 DEF Agents
<1>2. ASSUME NEW a \in Agents, Routes15(a) \/ Finish16(a) PROVE Waits'
  <2>1. /\ UNCHANGED <<tracker, cli>> /\ call[a].pc # "idle"
        /\ \A b \in Agents : b # a => call'[b] = call[b]
    BY <1>2 DEF Routes15, Finish16
  <2> QED
    BY <2>1 DEF Agents
<1>3. ASSUME NEW a \in Agents, Track15(a) PROVE Waits'
  <2>1. /\ cli' = cli /\ call[a].pc # "idle"
        /\ \A b \in Agents : b # a => call'[b].pc = call[b].pc
    BY <1>3, GotoMoves DEF Track15
  <2>2. \A t \in Trackers : tracker'[t].pc \in {"free", tracker[t].pc} \/ call[t].pc = "idle"
    BY <1>3, Track15Trackers DEF NoTracker, Typed
  <2> QED
    BY <2>1, <2>2 DEF Agents
<1>4. ASSUME NEW a \in Agents, Signal15(a) PROVE Waits'
  <2>1. /\ cli' = cli /\ call[a].pc # "idle"
        /\ \A t \in Trackers : tracker'[t].pc \in {"free", tracker[t].pc}
    BY <1>4 DEF Signal15, NoTracker, TrackerRecords
  <2>2. \A b \in Agents : b # a => call'[b].pc = call[b].pc
    BY <1>4, GotoMoves DEF Signal15
  <2> QED
    BY <2>1, <2>2 DEF Agents
<1>5. ASSUME NEW t \in Trackers, TrackerStarts(t) \/ TrackerFails(t) \/ TrackerPasses(t) \/
   TrackerUnplugged(t) PROVE Waits'
  <2>1. /\ tracker[t].pc \in {"exec", "run"} /\ cli' = cli
        /\ \A s \in Trackers : s # t => tracker'[s] = tracker[s]
        /\ tracker'[t].pc \in {"exec", "run"} => call' = call
        /\ \A b \in Agents : b # t => call'[b] = call[b]
    BY <1>5 DEF TrackerStarts, TrackerFails, TrackerPasses, TrackerUnplugged, HotplugCall,
       Agents, TrackerRecords
  <2> QED
    BY <2>1, ServiceAssumption DEF Agents
<1>6. ASSUME NEW t \in Trackers, TrackerResumes(t) PROVE Waits'
  <2>1. /\ call[t].pc = "idle" /\ UNCHANGED <<call, cli>>
        /\ \A s \in Trackers : s # t => tracker'[s] = tracker[s]
    BY <1>6 DEF TrackerResumes
  <2> QED
    BY <2>1
<1>7. CASE RtmonTraps \/ RtmonWakes \/ RtmonLocks \/ RtmonUnlocks \/ OrphanAcquires
  <2>1. UNCHANGED <<tracker, call, cli>>
    BY <1>7 DEF RtmonTraps, RtmonWakes, RtmonLocks, RtmonUnlocks, OrphanAcquires, files, world
  <2> QED
    BY <2>1
<1>8. ASSUME NEW i \in Ifaces, NetUp(i) \/ NetDown(i) PROVE Waits'
  <2>1. UNCHANGED <<tracker, call, cli>>
    BY <1>8 DEF NetUp, NetDown, files, world
  <2> QED
    BY <2>1
<1>9. CASE PathChanges
  <2>1. UNCHANGED <<tracker, call, cli>>
    BY <1>9 DEF PathChanges, files, world
  <2> QED
    BY <2>1
<1>10. CASE LockStart \/ CheckIfup \/ LockStop \/ IssueStart \/ IssueStop
  <2>1. /\ UNCHANGED <<tracker, call>>
        /\ cli.pc \notin {"next", "ifdown"}
    BY <1>10, CommandMoves DEF LockStart, CheckIfup, LockStop, IssueStart, IssueStop,
       CliRecords, NoCommand
  <2> QED
    BY <2>1
<1>11. CASE Start \/ IssueIfup
  <2>1. /\ UNCHANGED <<tracker, call>>
        /\ cli'.pc = "next"
    BY <1>11, CommandMoves DEF Start, IssueIfup, CliRecords, NoCommand
  <2> QED
    BY <2>1
<1>12. CASE LockIfup \/ Done
  <2>1. /\ UNCHANGED <<tracker, call>>
        /\ call["cli"].pc = "idle"
    BY <1>12, CommandMoves DEF LockIfup, Done, CliRecords, NoCommand
  <2> QED
    BY <2>1
<1>13. CASE StopFlushes \/ StopRemoves
  <2>1. /\ UNCHANGED <<tracker, call>>
        /\ cli.pc \notin {"next", "ifdown"}
    BY <1>13, CommandMoves DEF StopFlushes, StopRemoves, CliRecords, NoCommand
  <2> QED
    BY <2>1
<1>14. CASE KillIfdown \/ StopKills
  <2>1. /\ call' = call /\ call["cli"].pc = "idle"
        /\ \A t \in Trackers : tracker'[t].pc \in {"free", tracker[t].pc}
    BY <1>14 DEF KillIfdown, StopKills, NoTracker
  <2> QED
    BY <2>1
<1>15. CASE QueryIfup
  <2>1. /\ tracker' = tracker /\ cli'.pc = "next"
        /\ \A b \in Agents : b # "cli" => call'[b] = call[b]
    BY <1>15 DEF QueryIfup, HotplugCall, Agents, NoCommand, CliRecords
  <2> QED
    BY <2>1, ServiceAssumption DEF Agents
<1>16. CASE IssueIfdown
  <2>1. /\ tracker' = tracker /\ cli'.pc = "ifdown"
        /\ \A b \in Agents : b # "cli" => call'[b] = call[b]
    BY <1>16 DEF IssueIfdown, HotplugCall, Agents, NoCommand, CliRecords
  <2> QED
    BY <2>1, ServiceAssumption DEF Agents
<1>17. CASE Dispatch
  <2>1. /\ tracker' = tracker /\ cli' = cli
        /\ \A b \in Agents : b # "netifd" => call'[b] = call[b]
    BY <1>17 DEF Dispatch, HotplugCall, Agents, NoCommand, CliRecords
  <2> QED
    BY <2>1, ServiceAssumption DEF Agents
<1>18. CASE UNCHANGED vars
  BY <1>18 DEF vars
<1> QED BY <1>1, <1>2, <1>3, <1>4, <1>5, <1>6, <1>7, <1>8, <1>9, <1>10, <1>11, <1>12, <1>13,
           <1>14, <1>15, <1>16, <1>17, <1>18, Zenon DEF Next, CallStep, TrackerStep, RtmonStep,
           CliStep, Issue

LEMMA NextOneTracker == Typed /\ OneTrackerPerDevice /\ [Next]_vars => OneTrackerPerDevice'
<1> SUFFICES ASSUME Typed, OneTrackerPerDevice, [Next]_vars PROVE OneTrackerPerDevice'
  OBVIOUS
<1> USE DEF Typed, OneTrackerPerDevice
<1>1. ASSUME NEW a \in Agents, Track15(a) PROVE OneTrackerPerDevice'
  BY <1>1, Track15Trackers DEF Typed, Matching, NoTracker, TrackerRecords
<1>2. ASSUME NEW a \in Agents, Lock15(a) \/ Skip15(a) \/ Routes15(a) \/ Policy15(a) \/
   Lock16(a) \/ Finish16(a) PROVE OneTrackerPerDevice'
  <2>1. tracker' = tracker
    BY <1>2 DEF Lock15, Skip15, Routes15, Policy15, Lock16, Finish16, files, world
  <2> QED
    BY <2>1
<1>3. ASSUME NEW t \in Trackers, TrackerStarts(t) PROVE OneTrackerPerDevice'
  <2>1. /\ \A s \in Trackers : s # t => tracker'[s] = tracker[s]
        /\ tracker[t].pc # "free"
        /\ tracker'[t].pc # "free" =>
             tracker'[t].iface = tracker[t].iface /\ tracker'[t].dev = tracker[t].dev
    BY <1>3 DEF TrackerStarts, NoTracker, TrackerRecords
  <2> QED
    BY <2>1
<1>4. ASSUME NEW t \in Trackers, TrackerFails(t) PROVE OneTrackerPerDevice'
  <2>1. /\ \A s \in Trackers : s # t => tracker'[s] = tracker[s]
        /\ tracker[t].pc # "free"
        /\ tracker'[t].pc # "free" =>
             tracker'[t].iface = tracker[t].iface /\ tracker'[t].dev = tracker[t].dev
    BY <1>4 DEF TrackerFails, NoTracker, TrackerRecords
  <2> QED
    BY <2>1
<1>5. ASSUME NEW t \in Trackers, TrackerPasses(t) PROVE OneTrackerPerDevice'
  <2>1. /\ \A s \in Trackers : s # t => tracker'[s] = tracker[s]
        /\ tracker[t].pc # "free"
        /\ tracker'[t].pc # "free" =>
             tracker'[t].iface = tracker[t].iface /\ tracker'[t].dev = tracker[t].dev
    BY <1>5 DEF TrackerPasses, NoTracker, TrackerRecords
  <2> QED
    BY <2>1
<1>6. ASSUME NEW t \in Trackers, TrackerUnplugged(t) PROVE OneTrackerPerDevice'
  <2>1. /\ \A s \in Trackers : s # t => tracker'[s] = tracker[s]
        /\ tracker[t].pc # "free"
        /\ tracker'[t].pc # "free" =>
             tracker'[t].iface = tracker[t].iface /\ tracker'[t].dev = tracker[t].dev
    BY <1>6 DEF TrackerUnplugged, NoTracker, TrackerRecords
  <2> QED
    BY <2>1
<1>7. ASSUME NEW t \in Trackers, TrackerResumes(t) PROVE OneTrackerPerDevice'
  <2>1. /\ \A s \in Trackers : s # t => tracker'[s] = tracker[s]
        /\ tracker[t].pc # "free"
        /\ tracker'[t].pc # "free" =>
             tracker'[t].iface = tracker[t].iface /\ tracker'[t].dev = tracker[t].dev
    BY <1>7 DEF TrackerResumes, NoTracker, TrackerRecords
  <2> QED
    BY <2>1
<1>8. CASE RtmonTraps \/ RtmonWakes \/ RtmonLocks \/ RtmonUnlocks \/ OrphanAcquires
  <2>1. tracker' = tracker
    BY <1>8 DEF RtmonTraps, RtmonWakes, RtmonLocks, RtmonUnlocks, OrphanAcquires, files, world
  <2> QED
    BY <2>1
<1>9. ASSUME NEW i \in Ifaces, NetUp(i) \/ NetDown(i) PROVE OneTrackerPerDevice'
  <2>1. tracker' = tracker
    BY <1>9 DEF NetUp, NetDown, files, world
  <2> QED
    BY <2>1
<1>10. CASE PathChanges
  <2>1. tracker' = tracker
    BY <1>10 DEF PathChanges, files, world
  <2> QED
    BY <2>1
<1>11. CASE LockStart \/ Start \/ LockIfup \/ CheckIfup \/ QueryIfup \/ Done \/ LockStop \/
   StopFlushes \/ StopRemoves
  <2>1. tracker' = tracker
    BY <1>11 DEF LockStart, Start, LockIfup, CheckIfup, QueryIfup, Done, LockStop, StopFlushes,
       StopRemoves, files, world
  <2> QED
    BY <2>1
<1>12. CASE IssueStart \/ IssueStop \/ IssueIfup \/ IssueIfdown \/ Dispatch
  <2>1. tracker' = tracker
    BY <1>12 DEF IssueStart, IssueStop, IssueIfup, IssueIfdown, Dispatch, files, world
  <2> QED
    BY <2>1
<1>13. ASSUME NEW a \in Agents, Signal15(a) PROVE OneTrackerPerDevice'
  <2>1. \A t \in Trackers : tracker'[t].pc # "free" =>
          /\ tracker[t].pc # "free"
          /\ tracker'[t].iface = tracker[t].iface /\ tracker'[t].dev = tracker[t].dev
    BY <1>13 DEF Signal15, NoTracker, TrackerRecords
  <2> QED
    BY <2>1
<1>14. CASE KillIfdown \/ StopKills
  <2>1. \A t \in Trackers : tracker'[t].pc # "free" =>
          /\ tracker[t].pc # "free"
          /\ tracker'[t].iface = tracker[t].iface /\ tracker'[t].dev = tracker[t].dev
    BY <1>14 DEF KillIfdown, StopKills, NoTracker, TrackerRecords
  <2> QED
    BY <2>1
<1>15. CASE UNCHANGED vars
  BY <1>15 DEF vars
<1> QED BY <1>1, <1>2, <1>3, <1>4, <1>5, <1>6, <1>7, <1>8, <1>9, <1>10, <1>11, <1>12, <1>13,
           <1>14, <1>15, Zenon DEF Next, CallStep, TrackerStep, RtmonStep, CliStep, Issue

-----------------------------------------------------------------------------
(* What the flag enabled guarantees.                                       *)

\* Tests that scripts make once, under the lock, stay true until they unlock.
Tested ==
    /\ \A a \in Agents : call[a].pc \in {"track15", "policy15"} => enabled
    /\ cli.pc \in {"clean", "remove"} => ~enabled

\* While the service is disabled nothing of it runs, and what it leaves behind
\* goes away in the order of stop.
Disabled ==
    ~enabled =>
        /\ \A t \in Trackers : tracker[t].pc = "free"
        /\ rt = "none"
        /\ cli.pc # "clean" => policy = {} /\ \A i \in Ifaces : route[i] = None
        /\ cli.pc \notin {"clean", "remove"} => \A i \in Ifaces : hstate[i] = "offline"

LEMMA NextTested == Typed /\ MutualExclusion /\ Tested /\ [Next]_vars => Tested'
<1> SUFFICES ASSUME Typed, MutualExclusion, Tested, [Next]_vars PROVE Tested'
  OBVIOUS
<1> USE DEF Typed, CallsOK, Tested
<1>1. ASSUME NEW a \in Agents, Lock15(a) \/ Skip15(a) \/ Lock16(a) PROVE Tested'
  BY <1>1, GotoMoves DEF Lock15, Skip15, Lock16
<1>2. ASSUME NEW a \in Agents, Routes15(a) PROVE Tested'
  BY <1>2 DEF Routes15, CallRecords
<1>3. ASSUME NEW a \in Agents, Track15(a) \/ Signal15(a) \/ Policy15(a) PROVE Tested'
  BY <1>3, GotoMoves DEF Track15, Signal15, Policy15
<1>4. ASSUME NEW a \in Agents, Finish16(a) PROVE Tested'
  BY <1>4 DEF Finish16, NoCall
<1>5. ASSUME NEW t \in Trackers, TrackerStarts(t) PROVE Tested'
  <2>1. enabled' = enabled /\ cli' = cli
    BY <1>5 DEF TrackerStarts, NoCommand, CliRecords
  <2>2. \A b \in Agents : call'[b].pc = call[b].pc \/ call'[b].pc \in {"want15", "want16"}
    BY <1>5, HotplugCallMoves DEF TrackerStarts, Agents
  <2> QED
    BY <2>1, <2>2
<1>6. ASSUME NEW t \in Trackers, TrackerFails(t) PROVE Tested'
  <2>1. enabled' = enabled /\ cli' = cli
    BY <1>6 DEF TrackerFails, NoCommand, CliRecords
  <2>2. \A b \in Agents : call'[b].pc = call[b].pc \/ call'[b].pc \in {"want15", "want16"}
    BY <1>6, HotplugCallMoves DEF TrackerFails, Agents
  <2> QED
    BY <2>1, <2>2
<1>7. ASSUME NEW t \in Trackers, TrackerPasses(t) PROVE Tested'
  <2>1. enabled' = enabled /\ cli' = cli
    BY <1>7 DEF TrackerPasses, NoCommand, CliRecords
  <2>2. \A b \in Agents : call'[b].pc = call[b].pc \/ call'[b].pc \in {"want15", "want16"}
    BY <1>7, HotplugCallMoves DEF TrackerPasses, Agents
  <2> QED
    BY <2>1, <2>2
<1>8. ASSUME NEW t \in Trackers, TrackerUnplugged(t) PROVE Tested'
  <2>1. enabled' = enabled /\ cli' = cli
    BY <1>8 DEF TrackerUnplugged, NoCommand, CliRecords
  <2>2. \A b \in Agents : call'[b].pc = call[b].pc \/ call'[b].pc \in {"want15", "want16"}
    BY <1>8, HotplugCallMoves DEF TrackerUnplugged, Agents
  <2> QED
    BY <2>1, <2>2
<1>9. ASSUME NEW t \in Trackers, TrackerResumes(t) PROVE Tested'
  <2>1. UNCHANGED <<enabled, call, cli>>
    BY <1>9 DEF TrackerResumes, files, world
  <2> QED
    BY <2>1
<1>10. CASE RtmonTraps \/ RtmonWakes \/ RtmonLocks \/ RtmonUnlocks \/ OrphanAcquires
  <2>1. UNCHANGED <<enabled, call, cli>>
    BY <1>10 DEF RtmonTraps, RtmonWakes, RtmonLocks, RtmonUnlocks, OrphanAcquires, files, world
  <2> QED
    BY <2>1
<1>11. ASSUME NEW i \in Ifaces, NetUp(i) \/ NetDown(i) PROVE Tested'
  <2>1. UNCHANGED <<enabled, call, cli>>
    BY <1>11 DEF NetUp, NetDown, files, world
  <2> QED
    BY <2>1
<1>12. CASE PathChanges
  <2>1. UNCHANGED <<enabled, call, cli>>
    BY <1>12 DEF PathChanges, files, world
  <2> QED
    BY <2>1
<1>13. CASE LockStart
  <2>1. UNCHANGED <<enabled, call>> /\ cli'.pc \notin {"clean", "remove"}
    BY <1>13, CommandMoves DEF LockStart, CliRecords, NoCommand
  <2> QED
    BY <2>1
<1>14. CASE LockIfup
  <2>1. UNCHANGED <<enabled, call>> /\ cli'.pc \notin {"clean", "remove"}
    BY <1>14, CommandMoves DEF LockIfup, CliRecords, NoCommand
  <2> QED
    BY <2>1
<1>15. CASE CheckIfup
  <2>1. UNCHANGED <<enabled, call>> /\ cli'.pc \notin {"clean", "remove"}
    BY <1>15, CommandMoves DEF CheckIfup, CliRecords, NoCommand
  <2> QED
    BY <2>1
<1>16. CASE KillIfdown
  <2>1. UNCHANGED <<enabled, call>> /\ cli'.pc \notin {"clean", "remove"}
    BY <1>16, CommandMoves DEF KillIfdown, CliRecords, NoCommand
  <2> QED
    BY <2>1
<1>17. CASE Done
  <2>1. UNCHANGED <<enabled, call>> /\ cli'.pc \notin {"clean", "remove"}
    BY <1>17, CommandMoves DEF Done, CliRecords, NoCommand
  <2> QED
    BY <2>1
<1>18. CASE LockStop
  <2>1. UNCHANGED <<enabled, call>> /\ cli'.pc \notin {"clean", "remove"}
    BY <1>18, CommandMoves DEF LockStop, CliRecords, NoCommand
  <2> QED
    BY <2>1
<1>19. CASE IssueStart
  <2>1. UNCHANGED <<enabled, call>> /\ cli'.pc \notin {"clean", "remove"}
    BY <1>19, CommandMoves DEF IssueStart, CliRecords, NoCommand
  <2> QED
    BY <2>1
<1>20. CASE IssueStop
  <2>1. UNCHANGED <<enabled, call>> /\ cli'.pc \notin {"clean", "remove"}
    BY <1>20, CommandMoves DEF IssueStop, CliRecords, NoCommand
  <2> QED
    BY <2>1
<1>21. CASE IssueIfup
  <2>1. UNCHANGED <<enabled, call>> /\ cli'.pc \notin {"clean", "remove"}
    BY <1>21, CommandMoves DEF IssueIfup, CliRecords, NoCommand
  <2> QED
    BY <2>1
<1>22. CASE Start
  <2>1. enabled' /\ call' = call /\ cli'.pc = "next"
    BY <1>22 DEF Start, CliRecords
  <2> QED
    BY <2>1
<1>23. CASE QueryIfup
  <2>1. enabled' = enabled /\ cli'.pc = "next"
    BY <1>23 DEF QueryIfup, NoCommand, CliRecords
  <2>2. \A b \in Agents : call'[b].pc = call[b].pc \/ call'[b].pc \in {"want15", "want16"}
    BY <1>23, HotplugCallMoves DEF QueryIfup, Agents
  <2> QED
    BY <2>1, <2>2
<1>24. CASE IssueIfdown
  <2>1. enabled' = enabled /\ cli'.pc = "ifdown"
    BY <1>24 DEF IssueIfdown, NoCommand, CliRecords
  <2>2. \A b \in Agents : call'[b].pc = call[b].pc \/ call'[b].pc \in {"want15", "want16"}
    BY <1>24, HotplugCallMoves DEF IssueIfdown, Agents
  <2> QED
    BY <2>1, <2>2
<1>25. CASE Dispatch
  <2>1. enabled' = enabled /\ cli' = cli
    BY <1>25 DEF Dispatch, NoCommand, CliRecords
  <2>2. \A b \in Agents : call'[b].pc = call[b].pc \/ call'[b].pc \in {"want15", "want16"}
    BY <1>25, HotplugCallMoves DEF Dispatch, Agents
  <2> QED
    BY <2>1, <2>2
<1>26. CASE StopKills
  <2>1. enabled' = FALSE /\ call' = call /\ cli'.pc = "clean"
    BY <1>26, CommandMoves DEF StopKills
  <2>2. \A a \in Agents : ~InHotplug(a)
    BY <1>26 DEF StopKills, MutualExclusion, InCommand
  <2> QED
    BY <2>1, <2>2 DEF InHotplug
<1>27. CASE StopFlushes
  <2>1. UNCHANGED <<enabled, call>> /\ cli.pc = "clean"
    BY <1>27, CommandMoves DEF StopFlushes, CliRecords, NoCommand
  <2> QED
    BY <2>1
<1>28. CASE StopRemoves
  <2>1. UNCHANGED <<enabled, call>> /\ cli'.pc \notin {"clean", "remove"}
    BY <1>28, CommandMoves DEF StopRemoves, CliRecords, NoCommand
  <2> QED
    BY <2>1
<1>29. CASE UNCHANGED vars
  BY <1>29 DEF vars
<1> QED BY <1>1, <1>2, <1>3, <1>4, <1>5, <1>6, <1>7, <1>8, <1>9, <1>10, <1>11, <1>12, <1>13,
           <1>14, <1>15, <1>16, <1>17, <1>18, <1>19, <1>20, <1>21, <1>22, <1>23, <1>24, <1>25,
           <1>26, <1>27, <1>28, <1>29, Zenon DEF Next, CallStep, TrackerStep, RtmonStep,
           CliStep, Issue

LEMMA NextDisabled == Typed /\ Tested /\ Disabled /\ [Next]_vars => Disabled'
<1> SUFFICES ASSUME Typed, Tested, Disabled, [Next]_vars PROVE Disabled'
  OBVIOUS
<1> USE DEF Typed, Tested, Disabled
<1>1. ASSUME NEW a \in Agents, Lock15(a) \/ Skip15(a) \/ Lock16(a) \/ Policy15(a) PROVE
   Disabled'
  <2>1. /\ cli' = cli /\ (enabled => enabled')
        /\ ~enabled => UNCHANGED <<tracker, rt, policy, route, hstate>>
    BY <1>1 DEF Lock15, Skip15, Lock16, Policy15, files
  <2> QED
    BY <2>1
<1>2. ASSUME NEW a \in Agents, Routes15(a) \/ Track15(a) \/ Signal15(a) PROVE Disabled'
  BY <1>2 DEF Routes15, Track15, Signal15
<1>3. ASSUME NEW a \in Agents, Finish16(a) PROVE Disabled'
  BY <1>3 DEF Finish16, files
<1>4. ASSUME NEW t \in Trackers, TrackerStarts(t) \/ TrackerFails(t) \/ TrackerPasses(t) \/
   TrackerUnplugged(t) \/ TrackerResumes(t) PROVE Disabled'
  BY <1>4 DEF TrackerStarts, TrackerFails, TrackerPasses, TrackerUnplugged, TrackerResumes
<1>5. CASE RtmonTraps \/ RtmonWakes \/ RtmonLocks \/ RtmonUnlocks \/ OrphanAcquires
  BY <1>5 DEF RtmonTraps, RtmonWakes, RtmonLocks, RtmonUnlocks, OrphanAcquires, files
<1>6. ASSUME NEW i \in Ifaces, NetUp(i) \/ NetDown(i) PROVE Disabled'
  <2>1. UNCHANGED <<enabled, tracker, rt, policy, route, hstate, cli>>
    BY <1>6 DEF NetUp, NetDown, files
  <2> QED
    BY <2>1
<1>7. CASE PathChanges
  <2>1. UNCHANGED <<enabled, tracker, rt, policy, route, hstate, cli>>
    BY <1>7 DEF PathChanges, files
  <2> QED
    BY <2>1
<1>8. CASE LockStart \/ LockIfup \/ LockStop
  <2>1. /\ UNCHANGED <<enabled, tracker, rt, policy, route, hstate>>
        /\ cli.pc \notin {"clean", "remove"}
    BY <1>8 DEF LockStart, LockIfup, LockStop, files
  <2> QED
    BY <2>1
<1>9. CASE Start
  BY <1>9 DEF Start
<1>10. CASE CheckIfup \/ QueryIfup \/ Done \/ IssueStart \/ IssueStop \/ IssueIfup \/
   IssueIfdown
  <2>1. /\ UNCHANGED <<enabled, tracker, rt, policy, route, hstate>>
        /\ cli.pc \notin {"clean", "remove"}
    BY <1>10 DEF CheckIfup, QueryIfup, Done, IssueStart, IssueStop, IssueIfup, IssueIfdown,
       files
  <2> QED
    BY <2>1
<1>11. CASE KillIfdown
  <2>1. /\ UNCHANGED <<enabled, rt, policy, route, hstate>>
        /\ cli.pc \notin {"clean", "remove"}
        /\ \A t \in Trackers : tracker[t].pc = "free" => tracker'[t].pc = "free"
    BY <1>11 DEF KillIfdown, NoTracker, files
  <2> QED
    BY <2>1
<1>12. CASE StopKills
  BY <1>12, CommandMoves DEF StopKills, NoTracker
<1>13. CASE StopFlushes
  BY <1>13, CommandMoves DEF StopFlushes
<1>14. CASE StopRemoves
  BY <1>14 DEF StopRemoves
<1>15. CASE Dispatch
  <2>1. UNCHANGED <<enabled, tracker, rt, policy, route, hstate, cli>>
    BY <1>15 DEF Dispatch, files
  <2> QED
    BY <2>1
<1>16. CASE UNCHANGED vars
  BY <1>16 DEF vars
<1> QED BY <1>1, <1>2, <1>3, <1>4, <1>5, <1>6, <1>7, <1>8, <1>9, <1>10, <1>11, <1>12, <1>13,
           <1>14, <1>15, <1>16, Zenon DEF Next, CallStep, TrackerStep, RtmonStep, CliStep,
           Issue

-----------------------------------------------------------------------------
(* The policies.                                                           *)

\* The policy chains match the iface_state files, unless a script has just
\* changed one and is about to rebuild the chains.
Fresh ==
    enabled /\ (\A a \in Agents : call[a].pc # "policy15")
        => policy = {i \in Enabled : hstate[i] = "online"}

LEMMA NextFresh == Typed /\ Tested /\ Disabled /\ Waits /\ Fresh /\ [Next]_vars => Fresh'
<1> SUFFICES ASSUME Typed, Tested, Disabled, Waits, Fresh, [Next]_vars PROVE Fresh'
  OBVIOUS
<1> USE DEF Typed, CallsOK, Fresh
<1>1. ASSUME NEW a \in Agents, Lock15(a) \/ Skip15(a) \/ Lock16(a) PROVE Fresh'
  <2>1. UNCHANGED <<enabled, policy, hstate>> /\ call[a].pc # "policy15"
    BY <1>1 DEF Lock15, Skip15, Lock16, files
  <2>2. \A b \in Agents : b # a => call'[b].pc = call[b].pc
    BY <1>1, GotoMoves DEF Lock15, Skip15, Lock16
  <2> QED
    BY <2>1, <2>2
<1>2. ASSUME NEW a \in Agents, Routes15(a) PROVE Fresh'
  <2>1. UNCHANGED <<enabled, policy, hstate>> /\ call[a].pc # "policy15"
    BY <1>2 DEF Routes15, files
  <2>2. \A b \in Agents : b # a => call'[b].pc = call[b].pc
    BY <1>2 DEF Routes15
  <2> QED
    BY <2>1, <2>2
<1>3. ASSUME NEW a \in Agents, Finish16(a) PROVE Fresh'
  <2>1. UNCHANGED <<enabled, policy, hstate>> /\ call[a].pc # "policy15"
    BY <1>3 DEF Finish16, files
  <2>2. \A b \in Agents : b # a => call'[b].pc = call[b].pc
    BY <1>3 DEF Finish16
  <2> QED
    BY <2>1, <2>2
<1>4. ASSUME NEW a \in Agents, Track15(a) \/ Signal15(a) PROVE Fresh'
  BY <1>4, GotoMoves DEF Track15, Signal15
<1>5. ASSUME NEW a \in Agents, Policy15(a) PROVE Fresh'
  <2>1. hstate' = hstate /\ policy' = {i \in Enabled : hstate[i] = "online"}
    BY <1>5 DEF Policy15
  <2> QED
    BY <2>1
<1>6. ASSUME NEW t \in Trackers, TrackerStarts(t) \/ TrackerFails(t) \/ TrackerPasses(t) \/
   TrackerUnplugged(t) PROVE Fresh'
  <2>1. UNCHANGED <<enabled, policy, hstate>> /\ call[t].pc = "idle"
    BY <1>6 DEF TrackerStarts, TrackerFails, TrackerPasses, TrackerUnplugged, Waits, files
  <2>2. \A b \in Agents : b # t => call'[b] = call[b]
    BY <1>6 DEF TrackerStarts, TrackerFails, TrackerPasses, TrackerUnplugged, HotplugCall,
       Agents
  <2> QED
    BY <2>1, <2>2
<1>7. ASSUME NEW t \in Trackers, TrackerResumes(t) PROVE Fresh'
  <2>1. UNCHANGED <<enabled, policy, hstate, call>>
    BY <1>7 DEF TrackerResumes, files
  <2> QED
    BY <2>1
<1>8. CASE RtmonTraps \/ RtmonWakes \/ RtmonLocks \/ RtmonUnlocks \/ OrphanAcquires
  <2>1. UNCHANGED <<enabled, policy, hstate, call>>
    BY <1>8 DEF RtmonTraps, RtmonWakes, RtmonLocks, RtmonUnlocks, OrphanAcquires, files
  <2> QED
    BY <2>1
<1>9. ASSUME NEW i \in Ifaces, NetUp(i) \/ NetDown(i) PROVE Fresh'
  <2>1. UNCHANGED <<enabled, policy, hstate, call>>
    BY <1>9 DEF NetUp, NetDown, files
  <2> QED
    BY <2>1
<1>10. CASE PathChanges
  <2>1. UNCHANGED <<enabled, policy, hstate, call>>
    BY <1>10 DEF PathChanges, files
  <2> QED
    BY <2>1
<1>11. CASE LockStart \/ LockIfup \/ CheckIfup \/ KillIfdown \/ Done \/ LockStop \/ IssueStart
   \/ IssueStop \/ IssueIfup
  <2>1. UNCHANGED <<enabled, policy, hstate, call>>
    BY <1>11 DEF LockStart, LockIfup, CheckIfup, KillIfdown, Done, LockStop, IssueStart,
       IssueStop, IssueIfup, files
  <2> QED
    BY <2>1
<1>12. CASE Start
  <2>1. UNCHANGED <<policy, hstate, call>> /\ cli.pc = "inStart"
    BY <1>12 DEF Start, files
  <2>2. CASE enabled
    BY <2>1, <2>2
  <2>3. CASE ~enabled
    BY <2>1, <2>3, ServiceAssumption DEF Disabled
  <2> QED
    BY <2>2, <2>3
<1>13. CASE QueryIfup
  <2>1. UNCHANGED <<enabled, policy, hstate>> /\ call["cli"].pc = "idle"
    BY <1>13 DEF QueryIfup, Waits, files
  <2>2. \A b \in Agents : b # "cli" => call'[b] = call[b]
    BY <1>13 DEF QueryIfup, HotplugCall, Agents
  <2> QED
    BY <2>1, <2>2
<1>14. CASE IssueIfdown
  <2>1. UNCHANGED <<enabled, policy, hstate>> /\ call["cli"].pc = "idle"
    BY <1>14 DEF IssueIfdown, Waits, files
  <2>2. \A b \in Agents : b # "cli" => call'[b] = call[b]
    BY <1>14 DEF IssueIfdown, HotplugCall, Agents
  <2> QED
    BY <2>1, <2>2
<1>15. CASE Dispatch
  <2>1. UNCHANGED <<enabled, policy, hstate>> /\ call["netifd"].pc = "idle"
    BY <1>15 DEF Dispatch, Waits, files
  <2>2. \A b \in Agents : b # "netifd" => call'[b] = call[b]
    BY <1>15 DEF Dispatch, HotplugCall, Agents
  <2> QED
    BY <2>1, <2>2
<1>16. CASE StopKills
  BY <1>16 DEF StopKills
<1>17. CASE StopFlushes \/ StopRemoves
  BY <1>17 DEF StopFlushes, StopRemoves, Tested
<1>18. CASE UNCHANGED vars
  BY <1>18 DEF vars
<1> QED BY <1>1, <1>2, <1>3, <1>4, <1>5, <1>6, <1>7, <1>8, <1>9, <1>10, <1>11, <1>12, <1>13,
           <1>14, <1>15, <1>16, <1>17, <1>18, Zenon DEF Next, CallStep, TrackerStep, RtmonStep,
           CliStep, Issue

-----------------------------------------------------------------------------
(* The inductive invariant and what follows from it.                       *)

IInv ==
    /\ Typed /\ MutualExclusion /\ Waits /\ OneTrackerPerDevice
    /\ Tested /\ Disabled /\ Fresh

LEMMA InitIInv == Init => IInv
<1> SUFFICES ASSUME Init PROVE IInv
  OBVIOUS
<1>1. Typed
  BY InitTyped
<1>2. MutualExclusion /\ Waits /\ Tested
  BY DEF Init, MutualExclusion, InHotplug, InCommand, Waits, Tested, NoCall, NoCommand, Agents
<1>3. OneTrackerPerDevice /\ Disabled
  BY DEF Init, OneTrackerPerDevice, Disabled, NoTracker
<1>4. Fresh
  BY ServiceAssumption DEF Init, Fresh
<1> QED
  BY <1>1, <1>2, <1>3, <1>4 DEF IInv

LEMMA NextIInv == IInv /\ [Next]_vars => IInv'
  BY NextTyped, NextMutualExclusion, NextWaits, NextOneTracker, NextTested, NextDisabled,
     NextFresh DEF IInv

LEMMA Invariance == Spec => []IInv
  BY InitIInv, NextIInv, PTL DEF Spec

(***************************************************************************)
(* Types, for every instance of the service.                               *)
(***************************************************************************)
THEOREM TypeCorrect == Spec => []TypeOK
<1>1. IInv => TypeOK
  BY TypedImpliesTypeOK DEF IInv
<1> QED
  BY <1>1, Invariance, PTL

(***************************************************************************)
(* No script ever unlocks for another.                                     *)
(***************************************************************************)
THEOREM LockHolds == Spec => []MutualExclusion
<1>1. IInv => MutualExclusion
  BY DEF IInv
<1> QED
  BY <1>1, Invariance, PTL

(***************************************************************************)
(* Whatever scripts run in whatever order, a device of an interface has    *)
(* one tracker at most.                                                    *)
(***************************************************************************)
THEOREM OneTracker == Spec => []OneTrackerPerDevice
<1>1. IInv => OneTrackerPerDevice
  BY DEF IInv
<1> QED
  BY <1>1, Invariance, PTL

(***************************************************************************)
(* When the lock is free and the service enabled, the policy chains use    *)
(* the interfaces whose iface_state file says online, and no others.       *)
(***************************************************************************)
THEOREM PoliciesAreFresh == Spec => []PolicyFollowsState
<1>1. IInv => PolicyFollowsState
  <2> SUFFICES ASSUME IInv, lock = "free", enabled
               PROVE  policy = {i \in Enabled : hstate[i] = "online"}
    BY DEF PolicyFollowsState
  <2>1. \A a \in Agents : a # "free"
    BY ServiceAssumption DEF Agents
  <2>2. \A a \in Agents : call[a].pc # "policy15"
    BY <2>1 DEF IInv, MutualExclusion, InHotplug
  <2> QED
    BY <2>2 DEF IInv, Fresh
<1> QED
  BY <1>1, Invariance, PTL

(***************************************************************************)
(* After stop has flushed, nothing of mwan3 is left until the next start.  *)
(***************************************************************************)
THEOREM StopIsFinal == Spec => []StoppedIsClean
<1>1. IInv => StoppedIsClean
  BY DEF IInv, Disabled, StoppedIsClean
<1> QED
  BY <1>1, Invariance, PTL

(***************************************************************************)
(* Nothing starts, no route appears and no policy grows while the service  *)
(* is disabled: what a script tested under the lock still holds when it    *)
(* acts on it.                                                             *)
(***************************************************************************)
THEOREM NothingStarts == Spec => NothingStartsWhileDisabled
<1> DEFINE Still == /\ \A t \in Trackers : tracker[t].pc = "free" => tracker'[t].pc = "free"
                    /\ rt = "none" => rt' = "none"
                    /\ policy' \subseteq policy
                    /\ \A i \in Ifaces : route'[i] \in {route[i], None}
<1>1. ASSUME IInv, [Next]_vars, ~enabled PROVE Still
  <2> USE <1>1 DEF IInv, Tested, Disabled
  <2>1. ASSUME NEW a \in Agents, Lock15(a) \/ Skip15(a) \/ Lock16(a) PROVE Still
    <3>1. UNCHANGED <<tracker, rt, policy, route>>
      BY <2>1 DEF Lock15, Skip15, Lock16, files
    <3> QED
      BY <3>1
  <2>2. ASSUME NEW a \in Agents, Routes15(a) \/ Track15(a) \/ Signal15(a) \/ Policy15(a)
        PROVE Still
    BY <2>2 DEF Routes15, Track15, Signal15, Policy15
  <2>3. ASSUME NEW a \in Agents, Finish16(a) PROVE Still
    <3>1. UNCHANGED <<tracker, policy, route>> /\ rt' = rt
      BY <2>3 DEF Finish16, files
    <3> QED
      BY <3>1
  <2>4. ASSUME NEW t \in Trackers, TrackerStep(t) PROVE Still
    BY <2>4 DEF TrackerStep, TrackerStarts, TrackerFails, TrackerPasses, TrackerUnplugged,
       TrackerResumes
  <2>5. CASE RtmonStep \/ OrphanAcquires
    <3>1. UNCHANGED <<tracker, policy, route>> /\ rt' = rt
      BY <2>5 DEF RtmonStep, RtmonTraps, RtmonWakes, RtmonLocks, RtmonUnlocks, OrphanAcquires, files
    <3> QED
      BY <3>1
  <2>6. CASE LockStart \/ Start \/ LockIfup \/ CheckIfup \/ QueryIfup \/ Done \/ LockStop
    <3>1. UNCHANGED <<tracker, rt, policy, route>>
      BY <2>6 DEF LockStart, Start, LockIfup, CheckIfup, QueryIfup, Done, LockStop, files
    <3> QED
      BY <3>1
  <2>7. CASE KillIfdown \/ StopKills
    <3>1. UNCHANGED <<policy, route>> /\ rt' = "none"
      BY <2>7 DEF KillIfdown, StopKills, files
    <3>2. \A t \in Trackers : tracker'[t].pc = "free"
      BY <2>7 DEF KillIfdown, StopKills, NoTracker
    <3> QED
      BY <3>1, <3>2
  <2>8. CASE StopFlushes
    BY <2>8 DEF StopFlushes
  <2>9. CASE StopRemoves \/ Issue
    <3>1. UNCHANGED <<tracker, rt, policy, route>>
      BY <2>9 DEF StopRemoves, Issue, IssueStart, IssueStop, IssueIfup, IssueIfdown, files
    <3> QED
      BY <3>1
  <2>10. CASE Dispatch \/ PathChanges \/ \E i \in Ifaces : NetUp(i) \/ NetDown(i)
    <3>1. UNCHANGED <<tracker, rt, policy, route>>
      BY <2>10 DEF Dispatch, PathChanges, NetUp, NetDown, files
    <3> QED
      BY <3>1
  <2>11. CASE UNCHANGED vars
    BY <2>11 DEF vars
  <2> QED
    BY <2>1, <2>2, <2>3, <2>4, <2>5, <2>6, <2>7, <2>8, <2>9, <2>10, <2>11, Zenon
       DEF Next, CallStep, CliStep
<1>2. IInv /\ [Next]_vars => [~enabled => Still]_vars
  BY <1>1
<1> QED
  BY <1>2, Invariance, PTL DEF Spec, NothingStartsWhileDisabled

-----------------------------------------------------------------------------
(* The state file and the verdicts.                                        *)

\* An interface always comes up over its own device.
OwnDevices == \A i \in Ifaces : net[i] \in {None, OwnDevice[i]}

\* An event or a call names no device but the interface's own; an ifup names it.
Own(e) ==
    /\ e.iface \in Ifaces /\ e.dev \in {None, OwnDevice[e.iface]}
    /\ e.action = "ifup" => e.dev = OwnDevice[e.iface]

OwnEvents == \A n \in 1..Len(pending) : Own(pending[n])

OwnCalls ==
    \A a \in Agents :
        /\ call[a].pc # "idle" => Own(call[a])
        /\ call[a].pc = "track15" => call[a].action = "ifup"

OwnTrackers ==
    \A t \in Trackers :
        tracker[t].pc # "free" =>
            tracker[t].iface \in Tracked /\ tracker[t].dev = OwnDevice[tracker[t].iface]

\* The tracker's own ifdown has not yet reached the state file.
Signalling(t) ==
    /\ call[t].pc \in {"want15", "in15"} /\ call[t].action = "ifdown"
    /\ call[t].iface = tracker[t].iface

\* A tracker and the state file agree, or a call on its way will see to it: once
\* signalled, the tracker is about to give up a link whose file says offline.
Agree(t) ==
    LET k == tracker[t] IN
    /\ k.event => k.pc # "exec" /\ hstate[k.iface] = "offline"
    /\ ~k.event /\ k.pc \in {"exec", "connected", "run"} => (hstate[k.iface] = "online" <=> k.up)
    /\ k.pc = "ifdown" => k.event \/ Signalling(t)
    /\ k.pc = "disconnected" => k.event

Agreed == \A t \in Trackers : tracker[t].pc # "free" => Agree(t)

\* How a call keeps to its interface while its program counter moves.
LEMMA GotoKeeps ==
    ASSUME CallsOK, NEW a \in Agents, NEW q, Goto(a, q)
    PROVE  \A b \in Agents :
             /\ call'[b].pc = IF b = a THEN q ELSE call[b].pc
             /\ call'[b].action = call[b].action /\ call'[b].iface = call[b].iface
             /\ call'[b].dev = call[b].dev
  BY DEF CallsOK, CallRecords, Goto

LEMMA HotplugCallIs ==
    ASSUME CallsOK, NEW a \in Agents, NEW action, NEW i, NEW d, HotplugCall(a, action, i, d)
    PROVE  /\ call'[a].action = action /\ call'[a].iface = i /\ call'[a].dev = d
           /\ call'[a].pc \in {"want15", "want16"}
           /\ action \in {"ifup", "ifdown"} => call'[a].pc = "want15"
           /\ \A b \in Agents \ {a} : call'[b] = call[b]
  BY DEF CallsOK, CallRecords, HotplugCall

LEMMA CallsGoOn ==
    ASSUME OwnCalls,
           \A b \in Agents :
             /\ call'[b].pc # "idle" =>
                  /\ call[b].pc # "idle" /\ call'[b].action = call[b].action
                  /\ call'[b].iface = call[b].iface /\ call'[b].dev = call[b].dev
             /\ call'[b].pc = "track15" => call[b].pc = "track15" \/ call[b].action = "ifup"
    PROVE  OwnCalls'
  BY DEF OwnCalls, Own

LEMMA CallBegins ==
    ASSUME CallsOK, OwnCalls, NEW a \in Agents, NEW action, NEW i \in Ifaces,
           NEW d \in {None, OwnDevice[i]}, action = "ifup" => d = OwnDevice[i],
           HotplugCall(a, action, i, d)
    PROVE  OwnCalls'
<1>1. /\ call'[a].action = action /\ call'[a].iface = i /\ call'[a].dev = d
      /\ call'[a].pc \in {"want15", "want16"}
      /\ \A b \in Agents \ {a} : call'[b] = call[b]
  BY HotplugCallIs
<1> QED
  BY <1>1 DEF OwnCalls, Own

LEMMA TrackersStay ==
    ASSUME OwnTrackers,
           \A t \in Trackers : tracker'[t].pc # "free" =>
             /\ tracker[t].pc # "free"
             /\ tracker'[t].iface = tracker[t].iface /\ tracker'[t].dev = tracker[t].dev
    PROVE  OwnTrackers'
  BY DEF OwnTrackers

\* The processes that pgrep finds for a call are the interface's trackers.
LEMMA MatchesAll ==
    ASSUME OwnTrackers, NEW i \in Ifaces, NEW d \in {None, OwnDevice[i]}, NEW t \in Trackers
    PROVE  t \in Matching(i, d) <=> tracker[t].pc # "free" /\ tracker[t].iface = i
  BY DEF OwnTrackers, Matching

\* What mwan3_track leaves: a new tracker, whose verdict is the status that the
\* state file gets, and those that pgrep did not find.
LEMMA Track15Records ==
    ASSUME Typed, NEW a \in Agents, Track15(a), NEW t \in Trackers, tracker'[t].pc # "free"
    PROVE  \/ /\ tracker'[t] = [pc |-> "exec", iface |-> call[a].iface, dev |-> call[a].dev,
                                up |-> call[a].status = "online", event |-> FALSE]
              /\ call[a].iface \in Tracked /\ call[t].pc = "idle"
           \/ tracker'[t] = tracker[t] /\ t \notin Matching(call[a].iface, call[a].dev)
<1> DEFINE killed == Matching(call[a].iface, call[a].dev)
           rest   == [s \in Trackers |-> IF s \in killed THEN NoTracker ELSE tracker[s]]
           k      == [pc |-> "exec", iface |-> call[a].iface, dev |-> call[a].dev,
                      up |-> call[a].status = "online", event |-> FALSE]
<1>0. NoTracker.pc = "free"
  BY DEF NoTracker
<1>1. CASE call[a].iface \in Tracked
  <2>1. PICK new \in SlotsAfter(killed) : tracker' = [rest EXCEPT ![new] = k]
    BY <1>1, Zenon DEF Track15
  <2>2. new \in Trackers /\ call[new].pc = "idle"
    BY <2>1 DEF SlotsAfter
  <2>3. tracker'[t] = IF t = new THEN k ELSE rest[t]
    BY <2>1
  <2>4. rest[t] = IF t \in killed THEN NoTracker ELSE tracker[t]
    OBVIOUS
  <2> HIDE DEF rest, k, killed
  <2>5. CASE t = new
    <3>1. tracker'[t] = k
      BY <2>3, <2>5
    <3> QED
      BY <3>1, <2>2, <2>5, <1>1 DEF k
  <2>6. CASE t # new
    BY <2>3, <2>4, <2>6, <1>0 DEF killed
  <2> QED
    BY <2>5, <2>6
<1>2. CASE call[a].iface \notin Tracked
  <2>1. tracker'[t] = IF t \in killed THEN NoTracker ELSE tracker[t]
    BY <1>2 DEF Track15
  <2> QED
    BY <2>1, <1>0
<1> QED
  BY <1>1, <1>2

LEMMA NextOwned ==
    Typed /\ OwnEvents /\ OwnCalls /\ OwnTrackers /\ OwnDevices /\ OwnDevices' /\ [Next]_vars
        => (OwnEvents /\ OwnCalls /\ OwnTrackers)'
<1> SUFFICES ASSUME Typed, OwnEvents, OwnCalls, OwnTrackers, OwnDevices, OwnDevices',
                    [Next]_vars
             PROVE  OwnEvents' /\ OwnCalls' /\ OwnTrackers'
  OBVIOUS
<1> DEFINE Goal == OwnEvents' /\ OwnCalls' /\ OwnTrackers'
<1>0. CallsOK
  BY DEF Typed
<1>1. ASSUME NEW a \in Agents, Lock15(a) \/ Skip15(a) \/ Policy15(a) \/ Lock16(a) PROVE Goal
  <2>1. /\ UNCHANGED <<pending, tracker>> /\ call[a].pc # "idle"
        /\ \E q : q \notin {"track15", "idle"} /\ Goto(a, q)
    BY <1>1, Zenon DEF Lock15, Skip15, Policy15, Lock16, world
  <2>2. OwnCalls'
    BY <2>1, <1>0, GotoKeeps, CallsGoOn
  <2> QED
    BY <2>1, <2>2 DEF OwnEvents, OwnTrackers
<1>2. ASSUME NEW a \in Agents, Routes15(a) PROVE Goal
  <2>1. UNCHANGED <<pending, tracker>>
    BY <1>2 DEF Routes15, world
  <2>2. \A b \in Agents :
          /\ call'[b].pc # "idle" =>
               /\ call[b].pc # "idle" /\ call'[b].action = call[b].action
               /\ call'[b].iface = call[b].iface /\ call'[b].dev = call[b].dev
          /\ call'[b].pc = "track15" => call[b].pc = "track15" \/ call[b].action = "ifup"
    BY <1>2, <1>0 DEF Routes15, CallsOK, CallRecords
  <2>3. OwnCalls'
    BY <2>2, CallsGoOn
  <2> QED
    BY <2>1, <2>3 DEF OwnEvents, OwnTrackers
<1>3. ASSUME NEW a \in Agents, Finish16(a) PROVE Goal
  <2>1. UNCHANGED <<pending, tracker>>
    BY <1>3 DEF Finish16, world
  <2>2. \A b \in Agents :
          /\ call'[b].pc # "idle" =>
               /\ call[b].pc # "idle" /\ call'[b].action = call[b].action
               /\ call'[b].iface = call[b].iface /\ call'[b].dev = call[b].dev
          /\ call'[b].pc = "track15" => call[b].pc = "track15" \/ call[b].action = "ifup"
    BY <1>3, <1>0 DEF Finish16, CallsOK, CallRecords, NoCall
  <2>3. OwnCalls'
    BY <2>2, CallsGoOn
  <2> QED
    BY <2>1, <2>3 DEF OwnEvents, OwnTrackers
<1>4. ASSUME NEW a \in Agents, Track15(a) PROVE Goal
  <2>1. /\ pending' = pending /\ call[a].pc = "track15" /\ Goto(a, "policy15")
    BY <1>4 DEF Track15, world
  <2>2. OwnCalls'
    BY <2>1, <1>0, GotoKeeps, CallsGoOn
  <2>3. Own(call[a]) /\ call[a].action = "ifup"
    BY <2>1 DEF OwnCalls
  <2>4. ASSUME NEW t \in Trackers, tracker'[t].pc # "free"
        PROVE  \/ tracker'[t] = tracker[t]
               \/ /\ tracker'[t].iface = call[a].iface /\ tracker'[t].dev = call[a].dev
                  /\ call[a].iface \in Tracked
    <3>1. CASE /\ tracker'[t] = [pc |-> "exec", iface |-> call[a].iface, dev |-> call[a].dev,
                                 up |-> call[a].status = "online", event |-> FALSE]
               /\ call[a].iface \in Tracked
      BY <3>1
    <3>2. CASE tracker'[t] = tracker[t]
      BY <3>2
    <3> QED
      BY <1>4, <2>4, <3>1, <3>2, Track15Records, Zenon
  <2>5. OwnTrackers'
    BY <2>3, <2>4 DEF OwnTrackers, Own
  <2> QED
    BY <2>1, <2>2, <2>5 DEF OwnEvents
<1>5. ASSUME NEW a \in Agents, Signal15(a) PROVE Goal
  <2>1. /\ pending' = pending /\ call[a].pc # "idle" /\ Goto(a, "policy15")
    BY <1>5 DEF Signal15, world
  <2>2. OwnCalls'
    BY <2>1, <1>0, GotoKeeps, CallsGoOn
  <2>3. \A t \in Trackers : tracker'[t].pc # "free" =>
          /\ tracker[t].pc # "free"
          /\ tracker'[t].iface = tracker[t].iface /\ tracker'[t].dev = tracker[t].dev
    BY <1>5 DEF Signal15, NoTracker, TrackerRecords, Typed
  <2>4. OwnTrackers'
    BY <2>3, TrackersStay
  <2> QED
    BY <2>1, <2>2, <2>4 DEF OwnEvents
<1>6. ASSUME NEW t \in Trackers, TrackerStarts(t) PROVE Goal
  <2>1. /\ pending' = pending /\ tracker[t].pc # "free"
        /\ call' = call \/ HotplugCall(t, "connected", tracker[t].iface, tracker[t].dev)
    BY <1>6, Zenon DEF TrackerStarts, world
  <2>2. /\ tracker[t].iface \in Ifaces /\ t \in Agents
        /\ tracker[t].dev = OwnDevice[tracker[t].iface]
    BY <2>1, ServiceAssumption DEF OwnTrackers, Agents
  <2>3. \A s \in Trackers : tracker'[s].pc # "free" =>
          /\ tracker[s].pc # "free"
          /\ tracker'[s].iface = tracker[s].iface /\ tracker'[s].dev = tracker[s].dev
    BY <1>6, <2>1 DEF TrackerStarts, TrackerRecords, Typed
  <2>4. OwnTrackers'
    BY <2>3, TrackersStay
  <2>5. OwnCalls'
    <3>1. CASE call' = call
      BY <3>1 DEF OwnCalls
    <3>2. CASE HotplugCall(t, "connected", tracker[t].iface, tracker[t].dev)
      BY <3>2, <2>2, <1>0, CallBegins
    <3> QED
      BY <2>1, <3>1, <3>2
  <2> QED
    BY <2>1, <2>4, <2>5 DEF OwnEvents
<1>7. ASSUME NEW t \in Trackers, TrackerFails(t) PROVE Goal
  <2>1. /\ pending' = pending /\ tracker[t].pc # "free"
        /\ call' = call \/ HotplugCall(t, "ifdown", tracker[t].iface, tracker[t].dev)
    BY <1>7, Zenon DEF TrackerFails, world
  <2>2. /\ tracker[t].iface \in Ifaces /\ t \in Agents
        /\ tracker[t].dev = OwnDevice[tracker[t].iface]
    BY <2>1, ServiceAssumption DEF OwnTrackers, Agents
  <2>3. \A s \in Trackers : tracker'[s].pc # "free" =>
          /\ tracker[s].pc # "free"
          /\ tracker'[s].iface = tracker[s].iface /\ tracker'[s].dev = tracker[s].dev
    BY <1>7, <2>1 DEF TrackerFails, TrackerRecords, Typed
  <2>4. OwnTrackers'
    BY <2>3, TrackersStay
  <2>5. OwnCalls'
    <3>1. CASE call' = call
      BY <3>1 DEF OwnCalls
    <3>2. CASE HotplugCall(t, "ifdown", tracker[t].iface, tracker[t].dev)
      BY <3>2, <2>2, <1>0, CallBegins
    <3> QED
      BY <2>1, <3>1, <3>2
  <2> QED
    BY <2>1, <2>4, <2>5 DEF OwnEvents
<1>8. ASSUME NEW t \in Trackers, TrackerPasses(t) PROVE Goal
  <2>1. /\ pending' = pending /\ tracker[t].pc # "free"
        /\ call' = call \/ HotplugCall(t, "ifup", tracker[t].iface, tracker[t].dev)
    BY <1>8, Zenon DEF TrackerPasses, world
  <2>2. /\ tracker[t].iface \in Ifaces /\ t \in Agents
        /\ tracker[t].dev = OwnDevice[tracker[t].iface]
    BY <2>1, ServiceAssumption DEF OwnTrackers, Agents
  <2>3. \A s \in Trackers : tracker'[s].pc # "free" =>
          /\ tracker[s].pc # "free"
          /\ tracker'[s].iface = tracker[s].iface /\ tracker'[s].dev = tracker[s].dev
    BY <1>8, <2>1 DEF TrackerPasses, TrackerRecords, Typed
  <2>4. OwnTrackers'
    BY <2>3, TrackersStay
  <2>5. OwnCalls'
    <3>1. CASE call' = call
      BY <3>1 DEF OwnCalls
    <3>2. CASE HotplugCall(t, "ifup", tracker[t].iface, tracker[t].dev)
      BY <3>2, <2>2, <1>0, CallBegins
    <3> QED
      BY <2>1, <3>1, <3>2
  <2> QED
    BY <2>1, <2>4, <2>5 DEF OwnEvents
<1>9. ASSUME NEW t \in Trackers, TrackerUnplugged(t) PROVE Goal
  <2>1. /\ pending' = pending /\ tracker[t].pc # "free"
        /\ call' = call \/ HotplugCall(t, "disconnected", tracker[t].iface, tracker[t].dev)
    BY <1>9, Zenon DEF TrackerUnplugged, world
  <2>2. /\ tracker[t].iface \in Ifaces /\ t \in Agents
        /\ tracker[t].dev = OwnDevice[tracker[t].iface]
    BY <2>1, ServiceAssumption DEF OwnTrackers, Agents
  <2>3. \A s \in Trackers : tracker'[s].pc # "free" =>
          /\ tracker[s].pc # "free"
          /\ tracker'[s].iface = tracker[s].iface /\ tracker'[s].dev = tracker[s].dev
    BY <1>9, <2>1 DEF TrackerUnplugged, TrackerRecords, Typed
  <2>4. OwnTrackers'
    BY <2>3, TrackersStay
  <2>5. OwnCalls'
    <3>1. CASE call' = call
      BY <3>1 DEF OwnCalls
    <3>2. CASE HotplugCall(t, "disconnected", tracker[t].iface, tracker[t].dev)
      BY <3>2, <2>2, <1>0, CallBegins
    <3> QED
      BY <2>1, <3>1, <3>2
  <2> QED
    BY <2>1, <2>4, <2>5 DEF OwnEvents
<1>10. ASSUME NEW t \in Trackers, TrackerResumes(t) PROVE Goal
  <2>1. UNCHANGED <<pending, call>>
    BY <1>10 DEF TrackerResumes, world
  <2>2. \A s \in Trackers : tracker'[s].pc # "free" =>
          /\ tracker[s].pc # "free"
          /\ tracker'[s].iface = tracker[s].iface /\ tracker'[s].dev = tracker[s].dev
    BY <1>10 DEF TrackerResumes, NoTracker, TrackerRecords, Typed
  <2>3. OwnTrackers'
    BY <2>2, TrackersStay
  <2> QED
    BY <2>1, <2>3 DEF OwnEvents, OwnCalls
<1>11. CASE RtmonStep \/ OrphanAcquires \/ PathChanges
  <2>1. UNCHANGED <<pending, tracker, call>>
    BY <1>11 DEF RtmonStep, RtmonTraps, RtmonWakes, RtmonLocks, RtmonUnlocks, OrphanAcquires, PathChanges, world
  <2> QED
    BY <2>1 DEF OwnEvents, OwnCalls, OwnTrackers
<1>12. ASSUME NEW i \in Ifaces, NetUp(i) \/ NetDown(i) PROVE Goal
  <2>1. UNCHANGED <<tracker, call>>
    BY <1>12 DEF NetUp, NetDown
  <2>2. PICK e : pending' = Append(pending, e) /\ Own(e)
    <3>1. CASE NetUp(i)
      <4>1. PICK d \in Devs : net' = [net EXCEPT ![i] = d] /\ Announce("ifup", i, d)
        BY <3>1, Zenon DEF NetUp
      <4>2. net'[i] = d /\ d # None
        BY <4>1, ServiceAssumption DEF Typed, BaseOK
      <4>3. d = OwnDevice[i]
        BY <4>2 DEF OwnDevices
      <4>4. Own([action |-> "ifup", iface |-> i, dev |-> d])
        BY <4>3 DEF Own
      <4> QED
        BY <4>1, <4>4, Zenon DEF Announce
    <3>2. CASE NetDown(i)
      <4>1. Own([action |-> "ifdown", iface |-> i, dev |-> None])
        BY DEF Own
      <4> QED
        BY <3>2, <4>1, Zenon DEF NetDown, Announce
    <3> QED
      BY <1>12, <3>1, <3>2
  <2>3. OwnEvents'
    <3>1. pending \in Seq(EventRecords)
      BY DEF Typed, BaseOK
    <3> QED
      BY <2>2, <3>1 DEF OwnEvents
  <2> QED
    BY <2>1, <2>3 DEF OwnCalls, OwnTrackers
<1>13. CASE LockStart \/ Start \/ LockIfup \/ CheckIfup \/ Done \/ LockStop \/ StopFlushes
            \/ StopRemoves \/ IssueStart \/ IssueStop \/ IssueIfup
  <2>1. UNCHANGED <<pending, tracker, call>>
    BY <1>13 DEF LockStart, Start, LockIfup, CheckIfup, Done, LockStop, StopFlushes, StopRemoves,
       IssueStart, IssueStop, IssueIfup, world
  <2> QED
    BY <2>1 DEF OwnEvents, OwnCalls, OwnTrackers
<1>14. CASE KillIfdown \/ StopKills
  <2>1. UNCHANGED <<pending, call>>
    BY <1>14 DEF KillIfdown, StopKills, world
  <2>2. \A t \in Trackers : tracker'[t].pc # "free" => tracker'[t] = tracker[t]
    BY <1>14 DEF KillIfdown, StopKills, NoTracker
  <2> QED
    BY <2>1, <2>2 DEF OwnEvents, OwnCalls, OwnTrackers
<1>15. CASE QueryIfup
  <2>1. UNCHANGED <<pending, tracker>>
    BY <1>15 DEF QueryIfup, world
  <2>2. CASE call' = call
    BY <2>1, <2>2 DEF OwnEvents, OwnCalls, OwnTrackers
  <2>3. CASE call' # call
    <3> DEFINE i == Head(cli.todo)
    <3>1. net[i] # None /\ i \in Enabled /\ HotplugCall("cli", "ifup", i, net[i])
      BY <1>15, <2>3 DEF QueryIfup
    <3>2. i \in Ifaces /\ "cli" \in Agents
      BY <3>1, ServiceAssumption DEF Agents
    <3>3. net[i] = OwnDevice[i]
      BY <3>1, <3>2 DEF OwnDevices
    <3>4. OwnCalls'
      BY <3>1, <3>2, <3>3, <1>0, CallBegins
    <3> QED
      BY <2>1, <3>4 DEF OwnEvents, OwnTrackers
  <2> QED
    BY <2>2, <2>3
<1>16. CASE IssueIfdown
  <2>1. UNCHANGED <<pending, tracker>>
    BY <1>16 DEF IssueIfdown, world
  <2>2. PICK i \in Ifaces : HotplugCall("cli", "ifdown", i, None)
    BY <1>16, Zenon DEF IssueIfdown
  <2>3. "cli" \in Agents
    BY DEF Agents
  <2>4. OwnCalls'
    BY <2>2, <2>3, <1>0, CallBegins
  <2> QED
    BY <2>1, <2>4 DEF OwnEvents, OwnTrackers
<1>17. CASE Dispatch
  <2>1. /\ tracker' = tracker /\ pending # <<>> /\ pending' = Tail(pending)
        /\ HotplugCall("netifd", Head(pending).action, Head(pending).iface, Head(pending).dev)
    BY <1>17, Zenon DEF Dispatch
  <2>2. pending \in Seq(EventRecords)
    BY DEF Typed, BaseOK
  <2>3. 1 \in 1..Len(pending) /\ Head(pending) = pending[1]
        /\ \A n \in 1..Len(Tail(pending)) :
             n + 1 \in 1..Len(pending) /\ Tail(pending)[n] = pending[n + 1]
    BY <2>1, <2>2
  <2>4. Own(Head(pending))
    BY <2>3 DEF OwnEvents
  <2>5. "netifd" \in Agents
    BY DEF Agents
  <2>6. OwnCalls'
    BY <2>1, <2>4, <2>5, <1>0, CallBegins DEF Own
  <2>7. OwnEvents'
    BY <2>1, <2>3 DEF OwnEvents
  <2> QED
    BY <2>1, <2>6, <2>7 DEF OwnTrackers
<1>18. CASE UNCHANGED vars
  BY <1>18 DEF vars, world, OwnEvents, OwnCalls, OwnTrackers
<1> QED
  BY <1>1, <1>2, <1>3, <1>4, <1>5, <1>6, <1>7, <1>8, <1>9, <1>10, <1>11, <1>12, <1>13, <1>14,
     <1>15, <1>16, <1>17, <1>18, Zenon
     DEF Next, CallStep, TrackerStep, CliStep, Issue

LEMMA InitAgreed == Init => OwnEvents /\ OwnCalls /\ OwnTrackers /\ Agreed
  BY DEF Init, OwnEvents, OwnCalls, OwnTrackers, Agreed, NoCall, NoTracker, Agents

\* A tracker that a step leaves alone still agrees if the step writes neither
\* its interface's state file nor a call by which the tracker reports.
LEMMA AgreeStays ==
    ASSUME NEW t \in Trackers, Agree(t), tracker'[t] = tracker[t],
           hstate'[tracker[t].iface] = hstate[tracker[t].iface],
           Signalling(t) =>
             /\ call'[t].pc \in {"want15", "in15"} /\ call'[t].action = call[t].action
             /\ call'[t].iface = call[t].iface
    PROVE  Agree(t)'
  BY DEF Agree, Signalling

LEMMA NextAgreed ==
    IInv /\ OwnEvents /\ OwnCalls /\ OwnTrackers /\ Agreed /\ [Next]_vars => Agreed'
<1> SUFFICES ASSUME IInv, OwnEvents, OwnCalls, OwnTrackers, Agreed, [Next]_vars,
                    NEW t \in Trackers, tracker'[t].pc # "free"
             PROVE  Agree(t)'
  BY DEF Agreed
<1>0. /\ Typed /\ CallsOK /\ t \in Agents /\ tracker[t] \in TrackerRecords
      /\ \A a \in Agents : call[a] \in CallRecords
  BY DEF IInv, Typed, CallsOK, Agents
<1>a. tracker[t].pc # "free" =>
        /\ Agree(t) /\ enabled
        /\ tracker[t].iface \in Ifaces /\ tracker[t].iface \in Enabled
        /\ tracker[t].dev = OwnDevice[tracker[t].iface]
  BY ServiceAssumption DEF IInv, Disabled, OwnTrackers, Agreed
\* The steps of other agents' calls that leave the tracker and the file alone.
<1>b. ASSUME tracker' = tracker, hstate' = hstate,
             Signalling(t) =>
               /\ call'[t].pc \in {"want15", "in15"} /\ call'[t].action = call[t].action
               /\ call'[t].iface = call[t].iface
      PROVE  Agree(t)'
  BY <1>b, <1>a, AgreeStays
<1>1. ASSUME NEW a \in Agents, Lock15(a) PROVE Agree(t)'
  <2>1. tracker' = tracker /\ hstate' = hstate /\ call[a].pc = "want15" /\ Goto(a, "in15")
    BY <1>1 DEF Lock15, files
  <2> QED
    BY <2>1, <1>0, <1>b, GotoKeeps DEF Signalling
<1>2. ASSUME NEW a \in Agents, Skip15(a) PROVE Agree(t)'
  <2>1. /\ tracker' = tracker /\ hstate' = hstate /\ Goto(a, "want16")
        /\ ~enabled \/ call[a].iface \notin Enabled
    BY <1>2 DEF Skip15, files
  <2>2. Signalling(t) => t # a
    BY <2>1, <1>a DEF Signalling
  <2> QED
    BY <2>1, <2>2, <1>0, <1>b, GotoKeeps DEF Signalling
<1>3. ASSUME NEW a \in Agents, Policy15(a) \/ Lock16(a) PROVE Agree(t)'
  <2>1. /\ tracker' = tracker /\ hstate' = hstate /\ call[a].pc \in {"policy15", "want16"}
        /\ \E q : Goto(a, q)
    BY <1>3, Zenon DEF Policy15, Lock16, files
  <2>2. Signalling(t) => t # a
    BY <2>1 DEF Signalling
  <2> QED
    BY <2>1, <2>2, <1>0, <1>b, GotoKeeps DEF Signalling
<1>4. ASSUME NEW a \in Agents, Routes15(a) \/ Finish16(a) PROVE Agree(t)'
  <2>1. /\ tracker' = tracker /\ hstate' = hstate
        /\ call[a].pc = "in16" \/ call[a].action = "ifup"
    BY <1>4, Zenon DEF Routes15, Finish16, files
  <2>2. \A b \in Agents : b # a => call'[b] = call[b]
    BY <1>4, <1>0 DEF Routes15, Finish16, CallsOK
  <2>3. Signalling(t) => t # a
    BY <2>1 DEF Signalling
  <2> QED
    BY <2>1, <2>3, <2>2, <1>0, <1>b DEF Signalling
<1>5. ASSUME NEW a \in Agents, Track15(a) PROVE Agree(t)'
  <2> DEFINE c == call[a]
  <2>1. /\ c.pc = "track15" /\ Goto(a, "policy15")
        /\ hstate' = [hstate EXCEPT ![c.iface] = c.status]
    BY <1>5 DEF Track15
  <2>2. Own(c) /\ hstate \in [Ifaces -> {"online", "offline"}] /\ c.status \in {"online", "offline"}
    BY <2>1 DEF OwnCalls, IInv, Typed, CallsOK, BaseOK
  <2>3. c.iface \in Ifaces /\ c.dev \in {None, OwnDevice[c.iface]}
    BY <2>2 DEF Own
  <2>4. CASE tracker'[t] = [pc |-> "exec", iface |-> c.iface, dev |-> c.dev,
                            up |-> c.status = "online", event |-> FALSE]
    <3> DEFINE up == c.status = "online"
    <3>1. tracker'[t] = [pc |-> "exec", iface |-> c.iface, dev |-> c.dev, up |-> up,
                         event |-> FALSE]
      BY <2>4, Zenon
    <3> HIDE DEF up
    <3>2. tracker'[t].iface = c.iface /\ tracker'[t].pc = "exec" /\ ~tracker'[t].event
      BY <3>1
    <3>3. tracker'[t].up = up
      BY <3>1
    <3>4. tracker'[t].up <=> c.status = "online"
      BY <3>3 DEF up
    <3>5. hstate'[c.iface] = c.status
      BY <2>1, <2>2, <2>3
    <3> QED
      BY <3>2, <3>5, <3>4 DEF Agree
  <2>5. CASE tracker'[t] = tracker[t] /\ t \notin Matching(c.iface, c.dev)
    <3>1. tracker[t].pc # "free" /\ tracker[t].iface # c.iface
      BY <2>5, <2>3, MatchesAll
    <3>2. hstate'[tracker[t].iface] = hstate[tracker[t].iface]
      BY <3>1, <2>1, <2>2, <1>a
    <3>3. Signalling(t) => t # a
      BY <2>1 DEF Signalling
    <3> QED
      BY <3>1, <3>2, <3>3, <2>1, <2>5, <1>0, <1>a, GotoKeeps, AgreeStays DEF Signalling
  <2> QED
    BY <1>5, <2>4, <2>5, <1>0, Track15Records
<1>6. ASSUME NEW a \in Agents, Signal15(a) PROVE Agree(t)'
  <2> DEFINE c     == call[a]
             found == Matching(c.iface, c.dev)
  <2>1. /\ c.pc = "in15" /\ c.action = "ifdown" /\ Goto(a, "policy15")
        /\ hstate' = [hstate EXCEPT ![c.iface] = "offline"]
        /\ tracker'[t] = IF found # {t} THEN tracker[t]
                         ELSE IF tracker[t].pc = "exec" THEN NoTracker
                         ELSE [tracker[t] EXCEPT !.event = TRUE]
    BY <1>6 DEF Signal15
  <2>2. Own(c) /\ hstate \in [Ifaces -> {"online", "offline"}]
    BY <2>1 DEF OwnCalls, IInv, Typed, BaseOK
  <2>3. c.iface \in Ifaces /\ c.dev \in {None, OwnDevice[c.iface]}
    BY <2>2 DEF Own
  <2>4. tracker[t].pc # "free"
    BY <2>1, <1>0 DEF TrackerRecords
  <2>5. CASE tracker[t].iface = c.iface
    <3>1. \A s \in found : s = t
      <4> SUFFICES ASSUME NEW s \in found PROVE s = t
        OBVIOUS
      <4>1. s \in Trackers
        BY DEF Matching
      <4>2. tracker[s].pc # "free" /\ tracker[s].iface = c.iface
        BY <4>1, <2>3, MatchesAll
      <4>3. tracker[s].dev = tracker[t].dev
        BY <4>1, <4>2, <2>4, <2>5 DEF OwnTrackers
      <4> QED
        BY <4>1, <4>2, <4>3, <2>4, <2>5 DEF IInv, OneTrackerPerDevice
    <3>2. t \in found
      BY <2>3, <2>4, <2>5, MatchesAll
    <3>3. found = {t}
      BY <3>1, <3>2
    <3>4. tracker[t].pc # "exec" /\ tracker'[t] = [tracker[t] EXCEPT !.event = TRUE]
      BY <2>1, <3>3 DEF NoTracker
    <3>5. hstate'[c.iface] = "offline"
      BY <2>1, <2>2, <2>3
    <3> QED
      BY <3>4, <3>5, <2>5, <1>0 DEF Agree, TrackerRecords
  <2>6. CASE tracker[t].iface # c.iface
    <3>1. t \notin found
      BY <2>3, <2>6, MatchesAll
    <3>2. tracker'[t] = tracker[t]
      BY <2>1, <3>1
    <3>3. hstate'[tracker[t].iface] = hstate[tracker[t].iface]
      BY <2>1, <2>2, <2>4, <2>6, <1>a
    <3>4. Signalling(t) => t # a
      BY <2>6 DEF Signalling
    <3> QED
      BY <3>2, <3>3, <3>4, <2>1, <2>4, <1>0, <1>a, GotoKeeps, AgreeStays DEF Signalling
  <2> QED
    BY <2>5, <2>6
<1>7. ASSUME NEW s \in Trackers, TrackerStarts(s) PROVE Agree(t)'
  <2>1. /\ hstate' = hstate /\ tracker[s].pc = "exec" /\ s \in Agents
        /\ call' = call \/ HotplugCall(s, "connected", tracker[s].iface, tracker[s].dev)
    BY <1>7, Zenon DEF TrackerStarts, files, Agents
  <2>2. \A r \in Trackers : r # s => tracker'[r] = tracker[r]
    BY <1>7, <1>0 DEF TrackerStarts, Typed
  <2>3. tracker'[s].pc \in {"connected", "run"} /\ tracker'[s].iface = tracker[s].iface
        /\ tracker'[s].up = tracker[s].up /\ tracker'[s].event = tracker[s].event
    BY <1>7 DEF TrackerStarts, TrackerRecords, IInv, Typed
  <2>4. t # s => call'[t] = call[t]
    BY <2>1, <1>0, HotplugCallIs
  <2>5. CASE t # s
    BY <2>1, <2>2, <2>4, <2>5, <1>a, AgreeStays DEF Signalling
  <2>6. CASE t = s
    BY <2>1, <2>3, <2>6, <1>a DEF Agree
  <2> QED
    BY <2>5, <2>6
<1>8. ASSUME NEW s \in Trackers, TrackerFails(s) PROVE Agree(t)'
  <2>1. /\ hstate' = hstate /\ tracker[s].pc = "run" /\ s \in Agents
        /\ call' = call \/ HotplugCall(s, "ifdown", tracker[s].iface, tracker[s].dev)
    BY <1>8, Zenon DEF TrackerFails, files, Agents
  <2>2. \A r \in Trackers : r # s => tracker'[r] = tracker[r]
    BY <1>8, <1>0 DEF TrackerFails, Typed
  <2>3. tracker'[s].pc = "ifdown" /\ tracker'[s].iface = tracker[s].iface
        /\ tracker'[s].up = tracker[s].up /\ tracker'[s].event = tracker[s].event
    BY <1>8 DEF TrackerFails, TrackerRecords, IInv, Typed
  <2>4. t # s => call'[t] = call[t]
    BY <2>1, <1>0, HotplugCallIs
  <2>5. CASE t # s
    BY <2>1, <2>2, <2>4, <2>5, <1>a, AgreeStays DEF Signalling
  <2>6. CASE t = s
    <3>1. HotplugCall(t, "ifdown", tracker[t].iface, tracker[t].dev)
      BY <1>8, <2>6 DEF TrackerFails
    <3>2. Signalling(t)'
      BY <3>1, <2>3, <2>6, <1>0, HotplugCallIs DEF Signalling
    <3> QED
      BY <2>1, <2>3, <2>6, <3>2, <1>a DEF Agree
  <2> QED
    BY <2>5, <2>6
<1>9. ASSUME NEW s \in Trackers, TrackerPasses(s) PROVE Agree(t)'
  <2>1. /\ hstate' = hstate /\ tracker[s].pc = "run" /\ s \in Agents
        /\ call' = call \/ HotplugCall(s, "ifup", tracker[s].iface, tracker[s].dev)
    BY <1>9, Zenon DEF TrackerPasses, files, Agents
  <2>2. \A r \in Trackers : r # s => tracker'[r] = tracker[r]
    BY <1>9, <1>0 DEF TrackerPasses, Typed
  <2>3. tracker'[s].pc = "ifup" /\ tracker'[s].iface = tracker[s].iface
        /\ tracker'[s].up = tracker[s].up /\ tracker'[s].event = tracker[s].event
    BY <1>9 DEF TrackerPasses, TrackerRecords, IInv, Typed
  <2>4. t # s => call'[t] = call[t]
    BY <2>1, <1>0, HotplugCallIs
  <2>5. CASE t # s
    BY <2>1, <2>2, <2>4, <2>5, <1>a, AgreeStays DEF Signalling
  <2>6. CASE t = s
    BY <2>1, <2>3, <2>6, <1>a DEF Agree
  <2> QED
    BY <2>5, <2>6
<1>10. ASSUME NEW s \in Trackers, TrackerUnplugged(s) PROVE Agree(t)'
  <2>1. /\ hstate' = hstate /\ tracker[s].pc = "run" /\ tracker[s].event /\ s \in Agents
        /\ call' = call \/ HotplugCall(s, "disconnected", tracker[s].iface, tracker[s].dev)
    BY <1>10, Zenon DEF TrackerUnplugged, files, Agents
  <2>2. \A r \in Trackers : r # s => tracker'[r] = tracker[r]
    BY <1>10, <1>0 DEF TrackerUnplugged, Typed
  <2>3. tracker'[s].pc = "disconnected" /\ tracker'[s].iface = tracker[s].iface
        /\ tracker'[s].up = tracker[s].up /\ tracker'[s].event = tracker[s].event
    BY <1>10 DEF TrackerUnplugged, TrackerRecords, IInv, Typed
  <2>4. t # s => call'[t] = call[t]
    BY <2>1, <1>0, HotplugCallIs
  <2>5. CASE t # s
    BY <2>1, <2>2, <2>4, <2>5, <1>a, AgreeStays DEF Signalling
  <2>6. CASE t = s
    BY <2>1, <2>3, <2>6, <1>a DEF Agree
  <2> QED
    BY <2>5, <2>6
<1>11. ASSUME NEW s \in Trackers, TrackerResumes(s) PROVE Agree(t)'
  <2>1. /\ UNCHANGED <<hstate, call>> /\ call[s].pc = "idle"
        /\ \A r \in Trackers : r # s => tracker'[r] = tracker[r]
    BY <1>11 DEF TrackerResumes, files
  <2>2. CASE t # s
    BY <2>1, <2>2, <1>a, AgreeStays DEF Signalling
  <2>3. CASE t = s
    <3>1. ~Signalling(t)
      BY <2>1, <2>3 DEF Signalling
    <3>2. tracker[t].pc \in {"connected", "ifdown", "ifup", "disconnected"}
      BY <1>11, <2>3 DEF TrackerResumes
    <3>3. CASE tracker[t].pc = "ifup"
      BY <1>11, <2>3, <3>3, <1>0 DEF TrackerResumes, NoTracker, Typed
    <3>4. CASE tracker[t].pc = "connected"
      <4>1. tracker'[t] = [tracker[t] EXCEPT !.pc = "run"]
        BY <1>11, <2>3, <3>4, <1>0 DEF TrackerResumes, Typed
      <4> QED
        BY <4>1, <2>1, <3>4, <1>0, <1>a DEF Agree, TrackerRecords
    <3>5. CASE tracker[t].pc = "ifdown"
      <4>1. tracker'[t] = [tracker[t] EXCEPT !.pc = "run", !.up = FALSE]
        BY <1>11, <2>3, <3>5, <1>0 DEF TrackerResumes, Typed
      <4> QED
        BY <4>1, <2>1, <3>1, <3>5, <1>0, <1>a DEF Agree, TrackerRecords
    <3>6. CASE tracker[t].pc = "disconnected"
      <4>1. tracker'[t] = [tracker[t] EXCEPT !.pc = "run", !.up = FALSE, !.event = FALSE]
        BY <1>11, <2>3, <3>6, <1>0 DEF TrackerResumes, Typed
      <4> QED
        BY <4>1, <2>1, <3>6, <1>0, <1>a DEF Agree, TrackerRecords
    <3> QED
      BY <3>2, <3>3, <3>4, <3>5, <3>6
  <2> QED
    BY <2>2, <2>3
<1>12. CASE RtmonStep \/ OrphanAcquires \/ PathChanges
  <2>1. UNCHANGED <<tracker, hstate, call>>
    BY <1>12 DEF RtmonStep, RtmonTraps, RtmonWakes, RtmonLocks, RtmonUnlocks, OrphanAcquires, PathChanges, files
  <2> QED
    BY <2>1, <1>b DEF Signalling
<1>13. ASSUME NEW i \in Ifaces, NetUp(i) \/ NetDown(i) PROVE Agree(t)'
  <2>1. UNCHANGED <<tracker, hstate, call>>
    BY <1>13 DEF NetUp, NetDown, files
  <2> QED
    BY <2>1, <1>b DEF Signalling
<1>14. CASE LockStart \/ Start \/ LockIfup \/ CheckIfup \/ Done \/ LockStop \/ StopFlushes
            \/ IssueStart \/ IssueStop \/ IssueIfup
  <2>1. UNCHANGED <<tracker, hstate, call>>
    BY <1>14 DEF LockStart, Start, LockIfup, CheckIfup, Done, LockStop, StopFlushes,
       IssueStart, IssueStop, IssueIfup, files
  <2> QED
    BY <2>1, <1>b DEF Signalling
<1>15. CASE StopRemoves
  <2>1. tracker' = tracker /\ ~enabled
    BY <1>15 DEF StopRemoves, IInv, Tested
  <2> QED
    BY <2>1, <1>a
<1>16. CASE KillIfdown \/ StopKills
  <2>1. UNCHANGED <<hstate, call>>
    BY <1>16 DEF KillIfdown, StopKills, files
  <2>2. tracker'[t] = tracker[t]
    BY <1>16 DEF KillIfdown, StopKills, NoTracker
  <2> QED
    BY <2>1, <2>2, <1>a, AgreeStays DEF Signalling
<1>17. CASE QueryIfup \/ IssueIfdown \/ Dispatch
  <2>1. UNCHANGED <<tracker, hstate>>
    BY <1>17 DEF QueryIfup, IssueIfdown, Dispatch, files
  <2>2. call'[t] = call[t]
    <3>1. t # "cli" /\ t # "netifd"
      BY ServiceAssumption
    <3> QED
      BY <1>17, <3>1, <1>0 DEF QueryIfup, IssueIfdown, Dispatch, HotplugCall, CallsOK
  <2> QED
    BY <2>1, <2>2, <1>b DEF Signalling
<1>18. CASE UNCHANGED vars
  <2>1. UNCHANGED <<tracker, hstate, call>>
    BY <1>18 DEF vars, files
  <2> QED
    BY <2>1, <1>b DEF Signalling
<1> QED
  BY <1>1, <1>2, <1>3, <1>4, <1>5, <1>6, <1>7, <1>8, <1>9, <1>10, <1>11, <1>12, <1>13, <1>14,
     <1>15, <1>16, <1>17, <1>18, Zenon
     DEF Next, CallStep, TrackerStep, CliStep, Issue

(***************************************************************************)
(* While nothing is in flight the state file says online just when the     *)
(* tracker does, if every interface keeps to one device; without that a    *)
(* tracker of an old device may be left over and fall silent.              *)
(***************************************************************************)
THEOREM VerdictsHold == Spec /\ []OwnDevices => []StateFollowsVerdict
<1> DEFINE AInv == OwnEvents /\ OwnCalls /\ OwnTrackers /\ Agreed
<1>1. Init => AInv
  BY InitAgreed
<1>2. IInv /\ OwnDevices /\ OwnDevices' /\ AInv /\ [Next]_vars => AInv'
  BY NextOwned, NextAgreed DEF IInv
<1>3. AInv => StateFollowsVerdict
  BY DEF Agreed, Agree, StateFollowsVerdict
<1> QED
  BY <1>1, <1>2, <1>3, Invariance, PTL DEF Spec

=============================================================================
