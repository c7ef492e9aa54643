---------------------------- MODULE MonitorProofs ----------------------------
(***************************************************************************)
(* Proofs about the two programs that watch a link by pinging.  About one  *)
(* tracker of mwan3, for every Down, Up, Reliability and Targets: its      *)
(* types, the agreement of the STATUS file with the score, and that the    *)
(* score is a correct encoding of a LinkDebounce.  About qosmon, for any   *)
(* rates, times, command lines and class trees: the limit stays within its *)
(* dynamic range, and the limit that qosmon believes in is the one in      *)
(* force.                                                                  *)
(***************************************************************************)
EXTENDS Mwan3Track, QosMon, TLAPS

-----------------------------------------------------------------------------
(***************************************************************************)
(* The inductive invariant.  StatusFollowsScore speaks of the resting      *)
(* points; to carry it over a hotplug-call one must also know what the     *)
(* score can be while each call is in progress, and that a tracker that    *)
(* has not launched yet has the score its argument asks for.               *)
(***************************************************************************)
CallScore ==
    /\ pc \notin {"call", "gone"} => call = "none"
    /\ pc = "call" => call \in Actions
    /\ pc \in {"exec", "config"} => score = IF arg = "offline" THEN 0 ELSE Down + Up
    /\ call = "connected" => score = Down + Up
    /\ call \in {"ifdown", "ifup"} => score = Up
    /\ call = "disconnected" => score # Up
    /\ pc = "done" => score = Up
    /\ (pc = "gone" /\ call = "none") => score # Up

IInv == TypeOK /\ StatusFollowsScore /\ CallScore

LEMMA InitIInv == Init => IInv
<1> SUFFICES ASSUME Init PROVE IInv
  OBVIOUS
<1> USE TrackAssumption DEF Init
<1>1. score \in 0..(Down + Up)
  OBVIOUS
<1>2. left \in 0..Targets /\ hostUp \in 0..Reliability
  OBVIOUS
<1>3. event \in BOOLEAN
  BY Zenon
<1>4. TypeOK
  BY <1>1, <1>2, <1>3, Zenon DEF TypeOK, PCs, Actions, Paths
<1>5. StatusFollowsScore
  BY DEF StatusFollowsScore
<1>6. CallScore
  BY DEF CallScore
<1> QED
  BY <1>4, <1>5, <1>6 DEF IInv

LEMMA NextIInv == IInv /\ [Next]_vars => IInv'
<1> SUFFICES ASSUME IInv, [Next]_vars PROVE IInv'
  OBVIOUS
<1> USE TrackAssumption DEF IInv, TypeOK, StatusFollowsScore, CallScore, PCs, Actions, Paths
<1>1. CASE SetTraps
  BY <1>1 DEF SetTraps
<1>2. CASE NoMethod
  BY <1>2 DEF NoMethod
<1>3. CASE Launch
  BY <1>3 DEF Launch
<1>4. CASE Probe
  BY <1>4 DEF Probe
<1>5. CASE RoundFails
  <2>1. CASE score - 1 < Up
    BY <1>5, <2>1 DEF RoundFails, Strike
  <2>2. CASE score - 1 = Up
    BY <1>5, <2>2 DEF RoundFails, Strike
  <2>3. CASE score - 1 > Up
    BY <1>5, <2>3 DEF RoundFails, Strike
  <2> QED
    BY <2>1, <2>2, <2>3
<1>6. CASE RoundPasses
  <2>1. CASE score + 1 < Up
    BY <1>6, <2>1 DEF RoundPasses, Credit
  <2>2. CASE score + 1 = Up
    BY <1>6, <2>2 DEF RoundPasses, Credit
  <2>3. CASE score + 1 > Up
    BY <1>6, <2>3 DEF RoundPasses, Credit
  <2> QED
    BY <2>1, <2>2, <2>3
<1>7. CASE CallReturns
  <2>1. event' \in BOOLEAN
    BY <1>7, Zenon DEF CallReturns
  <2>2. CASE call = "connected"
    BY <1>7, <2>1, <2>2 DEF CallReturns
  <2>3. CASE call = "ifdown"
    BY <1>7, <2>1, <2>3 DEF CallReturns
  <2>4. CASE call = "ifup"
    BY <1>7, <2>1, <2>4 DEF CallReturns
  <2>5. CASE call = "disconnected"
    BY <1>7, <2>1, <2>5 DEF CallReturns
  <2> QED
    BY <1>7, <2>2, <2>3, <2>4, <2>5 DEF CallReturns
<1>8. CASE Wake
  BY <1>8 DEF Wake
<1>9. CASE Signal
  <2>1. event' \in BOOLEAN
    BY <1>9, Zenon DEF Signal
  <2> QED
    BY <1>9, <2>1 DEF Signal, Running
<1>10. CASE Terminate
  BY <1>10 DEF Terminate
<1>11. CASE PathChanges
  BY <1>11 DEF PathChanges
<1>12. CASE UNCHANGED vars
  BY <1>12 DEF vars
<1> QED
  BY <1>1, <1>2, <1>3, <1>4, <1>5, <1>6, <1>7, <1>8, <1>9, <1>10, <1>11, <1>12 DEF Next, Step

LEMMA Invariance == Spec => []IInv
<1>1. Init => IInv
  BY InitIInv
<1>2. IInv /\ [Next]_vars => IInv'
  BY NextIInv
<1> QED
  BY <1>1, <1>2, PTL DEF Spec

-----------------------------------------------------------------------------
(***************************************************************************)
(* mwan3track keeps its variables in range; in particular the score never  *)
(* leaves 0..(down+up), however signals and rounds interleave.             *)
(***************************************************************************)
THEOREM TypeCorrect == Spec => []TypeOK
<1>1. IInv => TypeOK
  BY DEF IInv
<1> QED
  BY <1>1, Invariance, PTL

(***************************************************************************)
(* No round of mwan3track passes the threshold unannounced, and the STATUS *)
(* file agrees with the score whenever another process can act on it.      *)
(***************************************************************************)
THEOREM StatusIsTruthful == Spec => []StatusFollowsScore
<1>1. IInv => StatusFollowsScore
  BY DEF IInv
<1> QED
  BY <1>1, Invariance, PTL

-----------------------------------------------------------------------------
\* The refinement: initial states map to initial states, steps to steps or
\* stutters of LinkDebounce under the mapping Believed, Streak, Judging,
\* Pending.

LEMMA InitRefines == Init => D!Init
  BY TrackAssumption DEF Init, D!Init, Believed, Streak, Judging, Pending

LEMMA NextRefines == IInv /\ [Next]_vars => [D!Next]_(D!vars)
<1> SUFFICES ASSUME IInv, [Next]_vars PROVE [D!Next]_(D!vars)
  OBVIOUS
<1> USE TrackAssumption DEF IInv, TypeOK, StatusFollowsScore, CallScore, PCs, Actions, Paths,
        Believed, Streak, Judging, Pending
<1>1. CASE SetTraps
  BY <1>1 DEF SetTraps, D!vars
<1>2. CASE NoMethod
  BY <1>2 DEF NoMethod, D!vars, D!Next, D!Stopped
<1>3. CASE Launch
  BY <1>3 DEF Launch, D!vars
<1>4. CASE Probe
  BY <1>4 DEF Probe, D!vars
<1>5. CASE RoundFails
  <2>1. CASE score - 1 < Up
    BY <1>5, <2>1 DEF RoundFails, Strike, D!Next, D!RoundFailed
  <2>2. CASE score - 1 = Up
    BY <1>5, <2>2 DEF RoundFails, Strike, D!Next, D!RoundFailed
  <2>3. CASE score - 1 > Up
    BY <1>5, <2>3 DEF RoundFails, Strike, D!Next, D!RoundFailed
  <2> QED
    BY <2>1, <2>2, <2>3
<1>6. CASE RoundPasses
  <2>1. CASE score + 1 < Up
    BY <1>6, <2>1 DEF RoundPasses, Credit, D!Next, D!RoundPassed
  <2>2. CASE score + 1 = Up
    BY <1>6, <2>2 DEF RoundPasses, Credit, D!Next, D!RoundPassed
  <2>3. CASE score + 1 > Up
    BY <1>6, <2>3 DEF RoundPasses, Credit, D!Next, D!RoundPassed
  <2> QED
    BY <2>1, <2>2, <2>3
<1>7. CASE CallReturns
  BY <1>7 DEF CallReturns, D!vars
<1>8. CASE Wake
  BY <1>8 DEF Wake, D!vars, D!Next, D!Unplugged
<1>9. CASE Signal
  BY <1>9 DEF Signal, Running, D!vars, D!Next, D!Stopped, D!Told
<1>10. CASE Terminate
  BY <1>10 DEF Terminate, D!vars, D!Next, D!Stopped
<1>11. CASE PathChanges
  BY <1>11 DEF PathChanges, D!vars
<1>12. CASE UNCHANGED vars
  BY <1>12 DEF vars, D!vars
<1> QED
  BY <1>1, <1>2, <1>3, <1>4, <1>5, <1>6, <1>7, <1>8, <1>9, <1>10, <1>11, <1>12 DEF Next, Step

(***************************************************************************)
(* The tracker implements LinkDebounce: down only after Down failed rounds *)
(* in a row or an ifdown signal, up only after Up good rounds in a row.    *)
(***************************************************************************)
THEOREM TrackerDebounces == Spec => Debounces
<1>1. Init => D!Init
  BY InitRefines
<1>2. IInv /\ [Next]_vars => [D!Next]_(D!vars)
  BY NextRefines
<1> QED
  BY <1>1, <1>2, Invariance, PTL DEF Spec, Debounces, D!Spec

-----------------------------------------------------------------------------
(* qosmon.                                                                 *)

\* The constants, as the steps need them.
LEMMA Rates ==
    /\ Trickle \in 1..Link /\ Reset \in Floor..Link /\ Floor \in 1..Link /\ Link \in Nat \ {0}
    /\ Trickle \notin Floor..Link
    /\ \A r \in Floor..Link : r \in 1..Link
BY QosAssumption

LEMMA Times ==
    /\ Period \in Nat /\ \A t \in Trips : t \in 0..Period
    /\ Enough \in Nat /\ Enough >= 3
BY QosAssumption

InControl == qstate \in {"ACTIVE", "REALTIME", "IDLE"}

\* new_dbw_ul and the saved limits, once a pass has set them.
Ranged ==
    /\ new \in Floor..Link
    /\ \A m \in Modes : saved[m] \in Floor..Link

Ranges ==
    /\ ~resetbw => Ranged
    /\ InControl \/ qstate = "INIT" => Ranged /\ ~firstflg
    /\ InControl => limit.asked \in Floor..Link
    /\ qstate = "INIT" => limit.asked = Trickle

\* The one way for a limit not to be in force is that the classes changed.
Forces ==
    classes # Gone =>
        /\ limit.asked = Link => limit.inforce = Link
        /\ InControl /\ classes = known => limit.inforce = limit.asked
        /\ qstate = "DISABLED" => limit.inforce = Link

QInv == QosTypeOK /\ Ranges /\ Forces

-----------------------------------------------------------------------------
(* What the parts of a pass return.                                        *)

\* Replies and times.
LEMMA PingTyped ==
    ASSUME QosTypeOK, NEW trip \in Trip, NEW late \in Late
    PROVE  /\ Received(trip, late) \in 0..Enough + 1
           /\ Longest(trip) \in Nat /\ Time(trip) \in Nat
           /\ \A f \in Filtered(trip) \cup Measured(trip, late) : f \in Nat
<1>1. trip \in Int /\ (trip = Lost \/ trip \in Nat) /\ late \in Nat
  BY Times DEF Trip, Late, Lost
<1>2. Received(trip, late) \in 0..Enough + 1
  BY <1>1, Times DEF QosTypeOK, Received, MinOf
<1>3. Longest(trip) \in Nat
  BY <1>1 DEF QosTypeOK, Longest, MaxOf, Lost
<1>4. Time(trip) \in Nat
  BY <1>1, <1>3 DEF Time, Lost
<1>5. ASSUME NEW f \in Filtered(trip) PROVE f \in Nat
  BY <1>4, <1>5 DEF QosTypeOK, Filtered, MinOf, MaxOf
<1>6. ASSUME NEW f \in Measured(trip, late) PROVE f \in Nat
  BY <1>4, <1>5, <1>6 DEF Measured
<1> QED
  BY <1>2, <1>3, <1>4, <1>5, <1>6

\* The limits that a pass starts from.
LEMMA ResetRanged ==
    ASSUME QosTypeOK, Ranges
    PROVE  /\ New \in Floor..Link /\ New \in 1..Link
           /\ Saved \in [Modes -> 0..Link] /\ \A m \in Modes : Saved[m] \in Floor..Link
<1>2. CASE resetbw
  BY Rates, <1>2 DEF New, Saved
<1>3. CASE ~resetbw
  BY Rates, <1>3 DEF New, Saved, QosTypeOK, Ranges, Ranged
<1> QED
  BY <1>2, <1>3

\* tc_class_modify.
LEMMA ModifyWorks ==
    ASSUME NEW rate \in 1..Link, NEW lim \in [asked : Nat, inforce : 1..Link]
    PROVE  /\ Modify(rate, lim) \in [asked : 1..Link, inforce : 1..Link]
           /\ Modify(rate, lim).asked = rate
           /\ classes # Gone => \/ Modify(rate, lim).inforce = rate
                                \/ Modify(rate, lim).inforce = lim.inforce /\ lim.asked = rate
<1>1. CASE lim.asked = rate
  BY <1>1 DEF Modify
<1>2. CASE lim.asked # rate
  BY <1>2 DEF Modify
<1> QED
  BY <1>1, <1>2

LEMMA LimitTyped == QosTypeOK => limit \in [asked : Nat, inforce : 1..Link]
BY Rates DEF QosTypeOK

\* The control law.
LEMMA LawRanged ==
    ASSUME NEW rate \in Floor..Link, NEW err,
           NEW to \in Higher(rate) \cup Lower(rate, err)
    PROVE  to \in Floor..Link
BY Rates DEF Higher, Lower

LEMMA PassTyped ==
    ASSUME QosTypeOK, NEW state, Pass(state)
    PROVE  /\ qstate = state /\ (firstflg \/ classes = known)
           /\ firstflg' = FALSE /\ resetbw' = FALSE /\ sent' \in BOOLEAN
           /\ args' = args /\ classes' = classes /\ known' = classes
BY DEF Pass, QosTypeOK

\* What the step of a loaded link does to the limits.
LEMMA ControlsLimits ==
    ASSUME QosTypeOK, Ranges, NEW state \in Modes \cup {"IDLE"}, Controls(state)
    PROVE  /\ qstate' \in Modes \cup {"IDLE"}
           /\ new' \in Floor..Link
           /\ saved' \in [Modes -> 0..Link] /\ \A m \in Modes : saved'[m] \in Floor..Link
           /\ limit' \in [asked : 1..Link, inforce : 1..Link] /\ limit'.asked \in Floor..Link
           /\ classes # Gone /\ limit.inforce = limit.asked => limit'.inforce = limit'.asked
<1>1. PICK trip \in Trip, late \in Late, rt \in BOOLEAN, idle \in BOOLEAN, used \in BOOLEAN :
        LET mode == IF ~rt /\ args.entitle THEN "ACTIVE" ELSE "REALTIME"
            from == IF state = mode THEN New ELSE Kept(state)[mode]
            lim  == IF state = mode THEN limit ELSE Modify(from, limit)
            err  == fil' - PLimit(mode)
        IN
        /\ Pass(state)
        /\ qstate' = IF idle THEN "IDLE" ELSE mode
        /\ saved' = Kept(state)
        /\ IF err < 0 /\ ~used
           THEN new' = from /\ limit' = lim
           ELSE /\ new' \in IF err < 0 THEN Higher(from) ELSE Lower(from, err)
                /\ limit' = Modify(new', lim)
  BY DEF Controls
<1> DEFINE mode == IF ~rt /\ args.entitle THEN "ACTIVE" ELSE "REALTIME"
           from == IF state = mode THEN New ELSE Kept(state)[mode]
           lim  == IF state = mode THEN limit ELSE Modify(from, limit)
           err  == fil' - PLimit(mode)
<1>2. mode \in Modes
  BY DEF Modes
<1>3. qstate' \in Modes \cup {"IDLE"} /\ saved' = Kept(state) /\ qstate = state
  BY <1>1, <1>2 DEF Pass
<1>4. Kept(state) \in [Modes -> 0..Link] /\ \A m \in Modes : Kept(state)[m] \in Floor..Link
  BY ResetRanged, Rates DEF Kept
<1>5. from \in Floor..Link
  BY <1>2, <1>4, ResetRanged
<1>6. limit \in [asked : Nat, inforce : 1..Link] /\ limit.asked \in Floor..Link
  BY <1>3, LimitTyped DEF Ranges, InControl, Modes
<1>7. /\ lim \in [asked : Nat, inforce : 1..Link] /\ lim.asked \in Floor..Link
      /\ classes # Gone /\ limit.inforce = limit.asked => lim.inforce = lim.asked
  <2>1. CASE state = mode
    BY <1>6, <2>1
  <2>2. CASE state # mode
    <3>1. lim = Modify(from, limit) /\ from \in 1..Link
      BY <1>5, <2>2, Rates
    <3> HIDE DEF lim, from
    <3>2. /\ Modify(from, limit) \in [asked : 1..Link, inforce : 1..Link]
          /\ Modify(from, limit).asked = from
          /\ classes # Gone => \/ Modify(from, limit).inforce = from
                               \/ Modify(from, limit).inforce = limit.inforce /\ limit.asked = from
      BY <1>6, <3>1, ModifyWorks
    <3> QED
      BY <1>5, <3>1, <3>2, Rates
  <2> QED
    BY <2>1, <2>2
<1>8. \/ new' = from /\ limit' = lim
      \/ new' \in Higher(from) \cup Lower(from, err) /\ limit' = Modify(new', lim)
  BY <1>1
<1>9. new' \in Floor..Link
  BY <1>5, <1>8, LawRanged
<1> HIDE DEF lim, from, err, mode
<1>10. /\ limit' \in [asked : 1..Link, inforce : 1..Link] /\ limit'.asked \in Floor..Link
       /\ classes # Gone /\ limit.inforce = limit.asked => limit'.inforce = limit'.asked
  <2>1. CASE limit' = lim
    BY <1>7, <2>1, Rates
  <2>2. CASE limit' = Modify(new', lim)
    BY <1>7, <1>9, <2>2, Rates, ModifyWorks
  <2> QED
    BY <1>8, <2>1, <2>2
<1> QED
  BY <1>3, <1>4, <1>9, <1>10

-----------------------------------------------------------------------------
(* Typing.                                                                 *)

\* What a pass that leaves the limits to New and Saved does to them.
LEMMA PlainTyped ==
    ASSUME QosTypeOK, Ranges, new' = New, saved' = Saved
    PROVE  /\ new' \in 0..Link /\ saved' \in [Modes -> 0..Link]
           /\ new' \in Floor..Link /\ \A m \in Modes : saved'[m] \in Floor..Link
BY ResetRanged, Rates

LEMMA InitTyped == QosInit => QosTypeOK
<1> SUFFICES ASSUME QosInit PROVE QosTypeOK
  OBVIOUS
<1> USE DEF QosInit
<1>1. /\ args \in Args /\ pinglimit \in Nat /\ rawmax \in Nat /\ fil \in Nat
      /\ nreceived \in 0..Enough + 1 /\ new \in 0..Link
  BY QosAssumption
<1>2. saved \in [Modes -> 0..Link] /\ limit \in [asked : 1..Link, inforce : 1..Link]
  BY Rates
<1> QED
  BY <1>1, <1>2 DEF QosTypeOK, States

LEMMA NextTyped == QosTypeOK /\ Ranges /\ [QosNext]_qosVars => QosTypeOK'
<1> SUFFICES ASSUME QosTypeOK, Ranges, [QosNext]_qosVars PROVE QosTypeOK'
  OBVIOUS
<1>l. limit \in [asked : Nat, inforce : 1..Link]
  BY LimitTyped
<1>1. CASE Rebuild
  <2>1. limit' \in [asked : 1..Link, inforce : 1..Link]
    BY <1>1, Rates DEF Rebuild, QosTypeOK
  <2> QED
    BY <1>1, <2>1 DEF Rebuild, QosTypeOK
<1>2. CASE Resetsig
  BY <1>2 DEF Resetsig, QosTypeOK
<1>3. CASE ClassesChanged
  <2>1. PICK trip \in Trip, late \in Late : nreceived' = Received(trip, late) /\ rawmax' = Longest(trip)
    BY <1>3 DEF ClassesChanged
  <2> QED
    BY <1>3, <2>1, PingTyped DEF ClassesChanged, QosTypeOK, States
<1>4. CASE Waits
  <2>1. PICK trip \in Trip, late \in Late :
           nreceived' = Received(trip, late) /\ rawmax' = Longest(trip) /\ fil' \in Filtered(trip)
    BY <1>4 DEF Waits
  <2> QED
    BY <1>4, <2>1, PingTyped, PassTyped, PlainTyped DEF Waits, QosTypeOK
<1>5. CASE Begins
  <2>1. PICK trip \in Trip, late \in Late :
           nreceived' = Received(trip, late) /\ rawmax' = Longest(trip) /\ fil' = Time(trip)
    BY <1>5 DEF Begins
  <2>2. Forced(limit) \in [asked : Nat, inforce : 1..Link] /\ New \in 1..Link
    BY <1>l, ResetRanged DEF Forced
  <2>3. limit' \in [asked : 1..Link, inforce : 1..Link]
    BY <1>5, <2>2, ModifyWorks DEF Begins
  <2> QED
    BY <1>5, <2>1, <2>3, PingTyped, PassTyped, PlainTyped DEF Begins, QosTypeOK, States
<1>6. CASE Throttles
  <2>1. PICK trip \in Trip, late \in Late : rawmax' = Longest(trip) /\ fil' \in Filtered(trip)
    BY <1>6 DEF Throttles
  <2>2. limit' \in [asked : 1..Link, inforce : 1..Link] /\ nreceived' \in 0..Enough + 1
    BY <1>6, <1>l, ModifyWorks, Rates, Times DEF Throttles
  <2> QED
    BY <1>6, <2>1, <2>2, PingTyped, PassTyped, PlainTyped DEF Throttles, QosTypeOK, States
<1>7. CASE Measures
  <2>1. PICK trip \in Trip, late \in Late :
           nreceived' = Received(trip, late) /\ rawmax' = Longest(trip) /\ fil' \in Measured(trip, late)
    BY <1>7 DEF Measures
  <2> QED
    BY <1>7, <2>1, PingTyped, PassTyped, PlainTyped DEF Measures, QosTypeOK
<1>8. CASE HasMeasured
  <2>1. PICK trip \in Trip, late \in Late :
           nreceived' = Received(trip, late) /\ fil' \in Measured(trip, late)
    BY <1>8 DEF HasMeasured
  <2>2. fil' \in Nat /\ nreceived' \in 0..Enough + 1
    BY <2>1, PingTyped
  <2>3. Entitlement(fil') \in Nat
    <3>1. pinglimit + (11 * fil') \div 10 \in Int /\ 2 * fil' \in Int
      BY <2>2 DEF QosTypeOK
    <3>2. MinLimit \in Nat /\ MaxLimit \in Nat
      BY QosAssumption
    <3> QED
      BY <3>1, <3>2 DEF Entitlement, MinOf, MaxOf
  <2>4. pinglimit' \in Nat /\ rawmax' \in Nat
    BY <1>8, <2>3 DEF HasMeasured
  <2>5. limit' \in [asked : 1..Link, inforce : 1..Link]
    BY <1>8, <1>l, ModifyWorks, ResetRanged DEF HasMeasured
  <2> QED
    BY <1>8, <2>2, <2>4, <2>5, PassTyped, PlainTyped DEF HasMeasured, QosTypeOK, States
<1>9. CASE Idles
  <2>1. PICK trip \in Trip, late \in Late :
           nreceived' = Received(trip, late) /\ rawmax' = Longest(trip) /\ fil' \in Filtered(trip)
    BY <1>9 DEF Idles
  <2> QED
    BY <1>9, <2>1, PingTyped, PassTyped, PlainTyped DEF Idles, QosTypeOK
<1>10. ASSUME NEW state \in Modes \cup {"IDLE"}, Controls(state) PROVE QosTypeOK'
  <2> DEFINE Mode(rt) == IF ~rt /\ args.entitle THEN "ACTIVE" ELSE "REALTIME"
  <2>1. PICK trip \in Trip, late \in Late, rt \in BOOLEAN :
           /\ nreceived' = Received(trip, late) /\ fil' \in Filtered(trip)
           /\ rawmax' = Longest(trip) \/ rawmax' = Refreshed(Longest(trip), PLimit(Mode(rt)))
    BY <1>10 DEF Controls
  <2>2. PLimit(Mode(rt)) \in Nat
    BY QosAssumption DEF PLimit, QosTypeOK
  <2>3. rawmax' \in Nat
    BY <2>1, <2>2, PingTyped DEF Refreshed
  <2>4. qstate' \in States /\ pingon' = TRUE /\ pinglimit' = pinglimit /\ Pass(state) /\ new' \in 0..Link
    BY <1>10, ControlsLimits, Rates DEF Controls, States
  <2> QED
    BY <1>10, <2>1, <2>3, <2>4, PingTyped, PassTyped, ControlsLimits DEF QosTypeOK
<1>11. CASE Finish
  <2>1. limit' \in [asked : 1..Link, inforce : 1..Link]
    BY <1>11, <1>l, ModifyWorks, Rates DEF Finish
  <2> QED
    BY <1>11, <2>1 DEF Finish, QosTypeOK, States
<1>12. CASE UNCHANGED qosVars
  BY <1>12 DEF qosVars, QosTypeOK
<1> QED
  BY <1>1, <1>2, <1>3, <1>4, <1>5, <1>6, <1>7, <1>8, <1>9, <1>10, <1>11, <1>12 DEF QosNext, Loop

-----------------------------------------------------------------------------
(* The ranges of the limits.                                               *)

LEMMA NextRanges == QosTypeOK /\ Ranges /\ [QosNext]_qosVars => Ranges'
<1> SUFFICES ASSUME QosTypeOK, Ranges, [QosNext]_qosVars PROVE Ranges'
  OBVIOUS
<1> USE DEF Ranges, Ranged, InControl
<1>l. limit \in [asked : Nat, inforce : 1..Link]
  BY LimitTyped
<1>1. CASE Rebuild
  <2>1. limit'.asked = limit.asked
    BY <1>1, <1>l DEF Rebuild
  <2> QED
    BY <1>1, <2>1 DEF Rebuild
<1>2. CASE Resetsig
  BY <1>2 DEF Resetsig
<1>3. CASE ClassesChanged
  BY <1>3 DEF ClassesChanged
<1>4. CASE Waits \/ Measures \/ Idles
  <2>1. /\ qstate' = qstate /\ limit' = limit /\ firstflg' = FALSE
        /\ new' = New /\ saved' = Saved
    BY <1>4 DEF Waits, Measures, Idles, Pass
  <2> QED
    BY <2>1, PlainTyped
<1>5. CASE Begins
  <2>1. /\ qstate' = "IDLE" /\ limit' = Modify(New, Forced(limit)) /\ firstflg' = FALSE
        /\ new' = New /\ saved' = Saved
    BY <1>5 DEF Begins, Pass
  <2>2. Forced(limit) \in [asked : Nat, inforce : 1..Link] /\ New \in Floor..Link /\ New \in 1..Link
    BY <1>l, ResetRanged DEF Forced
  <2>3. limit'.asked = New
    BY <2>1, <2>2, ModifyWorks
  <2> QED
    BY <2>1, <2>2, <2>3, PlainTyped
<1>6. CASE Throttles
  <2>1. /\ qstate' = "INIT" /\ limit' = Modify(Trickle, limit) /\ firstflg' = FALSE
        /\ new' = New /\ saved' = Saved
    BY <1>6 DEF Throttles, Pass
  <2>2. limit'.asked = Trickle
    BY <1>l, <2>1, Rates, ModifyWorks
  <2> QED
    BY <2>1, <2>2, PlainTyped
<1>7. CASE HasMeasured
  <2>1. /\ qstate' = "IDLE" /\ limit' = Modify(New, limit) /\ firstflg' = FALSE
        /\ new' = New /\ saved' = Saved
    BY <1>7 DEF HasMeasured, Pass
  <2>2. limit'.asked = New /\ New \in Floor..Link
    BY <1>l, <2>1, ResetRanged, ModifyWorks
  <2> QED
    BY <2>1, <2>2, PlainTyped
<1>8. ASSUME NEW state \in Modes \cup {"IDLE"}, Controls(state) PROVE Ranges'
  <2>1. firstflg' = FALSE /\ qstate' \in {"ACTIVE", "REALTIME", "IDLE"}
    BY <1>8, ControlsLimits DEF Controls, Pass, Modes
  <2> QED
    BY <1>8, <2>1, ControlsLimits
<1>9. CASE Finish
  BY <1>9 DEF Finish
<1>10. CASE UNCHANGED qosVars
  BY <1>10 DEF qosVars
<1> QED
  BY <1>1, <1>2, <1>3, <1>4, <1>5, <1>6, <1>7, <1>8, <1>9, <1>10 DEF QosNext, Loop

-----------------------------------------------------------------------------
(* The limit in force.                                                     *)

LEMMA NextForces == QosTypeOK /\ Ranges /\ Forces /\ [QosNext]_qosVars => Forces'
<1> SUFFICES ASSUME QosTypeOK, Ranges, Forces, [QosNext]_qosVars PROVE Forces'
  OBVIOUS
<1> USE DEF Forces, InControl
<1>l. limit \in [asked : Nat, inforce : 1..Link]
  BY LimitTyped
<1>1. CASE Rebuild
  <2>1. /\ classes' # Gone => limit'.inforce = Link
        /\ qstate' = qstate /\ qstate # "DISABLED" /\ classes' # known'
    BY <1>1, <1>l DEF Rebuild
  <2> QED
    BY <2>1
<1>2. CASE Resetsig
  BY <1>2 DEF Resetsig
<1>3. CASE ClassesChanged
  BY <1>3 DEF ClassesChanged
<1>4. CASE Waits \/ Measures
  BY <1>4 DEF Waits, Measures, Pass
<1>5. CASE Idles
  <2>1. qstate' = "IDLE" /\ qstate = "IDLE" /\ UNCHANGED <<limit, classes>> /\ (firstflg \/ classes = known)
    BY <1>5 DEF Idles, Pass
  <2> QED
    BY <2>1 DEF Ranges
<1>6. CASE Begins
  <2>1. qstate' = "IDLE" /\ limit' = Modify(New, Forced(limit)) /\ classes' = classes
    BY <1>6 DEF Begins, Pass
  <2>2. Forced(limit) \in [asked : Nat, inforce : 1..Link] /\ New \in 1..Link /\ Forced(limit).asked # New
    BY <1>l, ResetRanged DEF Forced
  <2>3. limit'.asked = New /\ (classes # Gone => limit'.inforce = New)
    BY <2>1, <2>2, ModifyWorks
  <2> QED
    BY <2>1, <2>3
<1>7. CASE Throttles
  <2>1. qstate' = "INIT" /\ limit' = Modify(Trickle, limit) /\ classes' = classes
    BY <1>7 DEF Throttles, Pass
  <2>2. limit'.asked # Link
    BY <1>l, <2>1, Rates, QosAssumption, ModifyWorks
  <2> QED
    BY <2>1, <2>2
<1>8. CASE HasMeasured
  <2>1. /\ qstate' = "IDLE" /\ limit' = Modify(New, limit) /\ classes' = classes
        /\ limit.asked = Trickle
    BY <1>8 DEF HasMeasured, Pass, Ranges
  <2>2. New \in 1..Link /\ Trickle # New
    BY ResetRanged, Rates
  <2>3. limit'.asked = New /\ (classes # Gone => limit'.inforce = New)
    BY <1>l, <2>1, <2>2, ModifyWorks
  <2> QED
    BY <2>1, <2>3
<1>9. ASSUME NEW state \in Modes \cup {"IDLE"}, Controls(state) PROVE Forces'
  <2>1. /\ InControl /\ classes = known /\ classes' = classes
        /\ qstate' # "DISABLED"
    BY <1>9, ControlsLimits DEF Controls, Pass, Ranges, Modes
  <2>2. classes # Gone => limit'.inforce = limit'.asked
    BY <1>9, <2>1, ControlsLimits
  <2> QED
    BY <2>1, <2>2
<1>10. CASE Finish
  <2>1. qstate' = "DISABLED" /\ limit' = Modify(Link, limit) /\ classes' = classes
    BY <1>10 DEF Finish
  <2>2. classes # Gone => limit'.inforce = Link
    BY <1>l, <2>1, Rates, ModifyWorks
  <2> QED
    BY <2>1, <2>2
<1>11. CASE UNCHANGED qosVars
  BY <1>11 DEF qosVars
<1> QED
  BY <1>1, <1>2, <1>3, <1>4, <1>5, <1>6, <1>7, <1>8, <1>9, <1>10, <1>11 DEF QosNext, Loop

LEMMA InitQInv == QosInit => QInv
<1> SUFFICES ASSUME QosInit PROVE QInv
  OBVIOUS
<1>1. Ranges
  BY DEF QosInit, Ranges, InControl
<1>2. Forces
  BY DEF QosInit, Forces, InControl
<1> QED
  BY <1>1, <1>2, InitTyped DEF QInv

LEMMA QosInvariance == QosSpec => []QInv
<1>1. QInv /\ [QosNext]_qosVars => QInv'
  BY NextTyped, NextRanges, NextForces DEF QInv
<1> QED
  BY <1>1, InitQInv, PTL DEF QosSpec

(***************************************************************************)
(* Types, for any rates, times, command lines and class trees.             *)
(***************************************************************************)
THEOREM QosTypeCorrect == QosSpec => []QosTypeOK
<1>1. QInv => QosTypeOK
  BY DEF QInv
<1> QED
  BY <1>1, QosInvariance, PTL

(***************************************************************************)
(* Whatever the control law, mode changes and resets do, the limits asked  *)
(* for and saved stay within the dynamic range.                            *)
(***************************************************************************)
THEOREM RangeIsKept == QosSpec => []LimitInRange
<1>1. QInv => LimitInRange
  BY DEF QInv, Ranges, Ranged, InControl, LimitInRange, Modes
<1> QED
  BY <1>1, QosInvariance, PTL

(***************************************************************************)
(* The limit that tc_class_modify takes for set is in force, and after     *)
(* termination the link has its full rate.                                 *)
(***************************************************************************)
THEOREM LimitTakesEffect == QosSpec => []LimitInForce
<1>1. QInv => LimitInForce
  BY DEF QInv, Forces, InControl, LimitInForce, Modes
<1> QED
  BY <1>1, QosInvariance, PTL
=============================================================================
