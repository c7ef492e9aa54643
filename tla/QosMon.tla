--------------------------------- MODULE QosMon ---------------------------------
(***************************************************************************)
(* qosmon, the congestion controller of qos-gargoyle.  Once per period it  *)
(* pings a target, reads the load of the download classes and moves the    *)
(* upper limit of the root class so that the filtered ping time stays      *)
(* below a limit, which it first measures on a link it has throttled.      *)
(*                                                                         *)
(* One pass of the main loop is one step, whose inputs are what arrived    *)
(* during the pass.  All times are in one unit, and the two pieces of      *)
(* floating-point arithmetic, the ping filter and the control law, are     *)
(* reduced to the direction in which they go.                              *)
(***************************************************************************)
EXTENDS Integers

CONSTANTS
    Link,       \* DBW_UL, the download speed given on the command line
    Reset,      \* 90% of it, the limit to begin with
    Floor,      \* 15% of it, the end of the dynamic range
    Trickle,    \* the 1000 bps of the measurement
    Period,     \* ping interval
    Few, Enough,        \* replies after 10 and after 15 seconds
    MinLimit, MaxLimit, \* 10 and 800 milliseconds
    Args,       \* command lines: a ping limit, 0 for none, and whether -a is given
    Trips,      \* round trip times, 0 if shorter than a millisecond
    Structures  \* class trees of the device; one is there when qosmon starts

Lost  == -1             \* no reply to this pass's ping in time
Gone  == "no device"
Modes == {"ACTIVE", "REALTIME"}

ASSUME QosAssumption ==
    /\ Link \in Nat /\ Reset \in Nat /\ Floor \in Nat /\ Trickle \in Nat \ {0}
    /\ Trickle < Floor /\ Floor < Reset /\ Reset < Link
    /\ Period \in Nat \ {0} /\ Trips \subseteq 0..Period
    /\ Few \in Nat /\ Enough \in Nat /\ 2 <= Few /\ Few < Enough
    /\ MinLimit \in Nat \ {0} /\ MaxLimit \in Nat /\ MinLimit <= MaxLimit
    /\ Args \subseteq [limit : Nat, entitle : BOOLEAN] /\ Gone \notin Structures

VARIABLES
    args,       \* pinglimit_cl and the -a of the command line
    qstate,
    pingon,
    firstflg,
    sent,       \* ntransmitted is not 0
    nreceived,  \* replies seen, capped where the code no longer tells them apart
    fil,        \* fil_triptime
    rawmax,     \* rawfltime_max
    pinglimit,
    new,        \* new_dbw_ul
    saved,      \* saved_active_limit and saved_realtime_limit, by state
    limit,      \* dbw_ul, the limit last asked for, and the one in force
    classes,    \* the class tree now
    known,      \* the class tree of the last scan
    resetbw

qosVars == <<args, qstate, pingon, firstflg, sent, nreceived, fil, rawmax, pinglimit, new, saved,
          limit, classes, known, resetbw>>

MaxOf(a, b) == IF a > b THEN a ELSE b
MinOf(a, b) == IF a < b THEN a ELSE b

QosInit ==
    /\ args \in Args /\ pinglimit = args.limit
    /\ qstate = "CHECK" /\ pingon = FALSE /\ firstflg = TRUE
    /\ sent = FALSE /\ nreceived = 0 /\ fil = 0 /\ rawmax = Period
    /\ new = 0 /\ saved = [m \in Modes |-> 0] /\ resetbw = TRUE
    /\ limit = [asked |-> Link, inforce |-> Link]
    /\ classes \in Structures /\ known = classes

-----------------------------------------------------------------------------
(* What surrounds the process.                                             *)

\* Another class tree is built, or the device goes away.  It takes longer
\* than a pass, so the next scan finds out.
Rebuild ==
    /\ qstate # "DISABLED" /\ classes = known
    /\ classes' \in (Structures \cup {Gone}) \ {classes}
    /\ limit' = [limit EXCEPT !.inforce = IF classes' = Gone THEN @ ELSE Link]
    /\ UNCHANGED <<args, qstate, pingon, firstflg, sent, nreceived, fil, rawmax, pinglimit, new,
                   saved, known, resetbw>>

\* SIGUSR1
Resetsig ==
    /\ qstate # "DISABLED" /\ resetbw' = TRUE
    /\ UNCHANGED <<args, qstate, pingon, firstflg, sent, nreceived, fil, rawmax, pinglimit, new,
                   saved, limit, classes, known>>

-----------------------------------------------------------------------------
(* One pass.  trip answers the last ping sent, late counts replies to      *)
(* older ones, load and rt are what class_list finds.                      *)

\* tc_class_modify: nothing to do if the rate was the last asked for.
Modify(rate, lim) ==
    IF lim.asked = rate THEN lim
    ELSE [asked |-> rate, inforce |-> IF classes = Gone THEN lim.inforce ELSE rate]

\* A reply counts as soon as it matches a ping; one to a ping of an earlier
\* pass took a period and more.
Trip == IF pingon THEN Trips \cup {Lost} ELSE IF sent THEN {Period, Lost} ELSE {Lost}
Late == IF sent THEN 0..1 ELSE {0}

\* pr_pack
Received(trip, late) == MinOf(nreceived + late + (IF trip = Lost THEN 0 ELSE 1), Enough + 1)
Longest(trip)        == MaxOf(trip, rawmax)

\* rawfltime: a missing ping time, and one of 0, are taken for the longest.
Time(trip) == IF trip \in {Lost, 0} THEN Longest(trip) ELSE trip

\* The filter moves towards the last ping time and not beyond.
Filtered(trip) ==
    IF pingon THEN MinOf(fil, Time(trip))..MaxOf(fil, Time(trip)) ELSE {fil}

\* The scan finds other classes than the last one.
ClassesChanged ==
    \E trip \in Trip, late \in Late :
    /\ qstate # "DISABLED" /\ ~firstflg /\ classes # known
    /\ nreceived' = Received(trip, late) /\ rawmax' = Longest(trip) /\ sent' = (sent \/ pingon)
    /\ firstflg' = TRUE /\ pingon' = FALSE /\ qstate' = "CHECK" /\ known' = classes
    /\ UNCHANGED <<args, fil, pinglimit, new, saved, limit, classes, resetbw>>

\* What every other pass does: the limit and the limits saved are first set
\* back if SIGUSR1 asked for it, then state has its part.
New   == IF resetbw THEN Reset ELSE new
Saved == IF resetbw THEN [m \in Modes |-> Reset] ELSE saved

Pass(state) ==
    /\ qstate = state /\ (firstflg \/ classes = known)
    /\ firstflg' = FALSE /\ known' = classes /\ resetbw' = FALSE /\ sent' = (sent \/ pingon)
    /\ UNCHANGED <<args, classes>>

WaitsSilently ==                        \* the pinger not switched on
    \E trip \in Trip, late \in Late :
    /\ Pass("CHECK") /\ Received(trip, late) < 2
    /\ nreceived' = Received(trip, late) /\ rawmax' = Longest(trip) /\ fil' \in Filtered(trip)
    /\ new' = New /\ saved' = Saved
    /\ UNCHANGED <<qstate, pingon, pinglimit, limit>>

\* No two replies so far.
Waits ==
    \E trip \in Trip, late \in Late :
    /\ Pass("CHECK") /\ Received(trip, late) < 2
    /\ pingon' = TRUE
    /\ nreceived' = Received(trip, late) /\ rawmax' = Longest(trip) /\ fil' \in Filtered(trip)
    /\ new' = New /\ saved' = Saved
    /\ UNCHANGED <<qstate, pinglimit, limit>>

GivenLimit == pinglimit # 0 /\ ~args.entitle

Forced(lim) == [lim EXCEPT !.asked = 0]

\* The limit is given, or was measured before.
Begins ==
    \E trip \in Trip, late \in Late :
    /\ Pass("CHECK") /\ Received(trip, late) >= 2 /\ GivenLimit
    /\ pingon' = TRUE /\ qstate' = "IDLE"
    /\ nreceived' = Received(trip, late) /\ rawmax' = Longest(trip) /\ fil' = Time(trip)
    /\ new' = New /\ saved' = Saved
    /\ limit' = Modify(New, Forced(limit))
    /\ UNCHANGED pinglimit

\* Unloads the link for the measurement.
Throttles ==
    \E trip \in Trip, late \in Late :
    /\ Pass("CHECK") /\ Received(trip, late) >= 2 /\ ~GivenLimit
    /\ pingon' = TRUE /\ qstate' = "INIT"
    /\ nreceived' = 0 /\ rawmax' = Longest(trip) /\ fil' \in Filtered(trip)
    /\ new' = New /\ saved' = Saved
    /\ limit' = Modify(Trickle, limit)
    /\ UNCHANGED pinglimit

\* While it measures the filter starts late.
Measured(trip, late) == IF Received(trip, late) < Few THEN {Time(trip)} ELSE Filtered(trip)

Measures ==
    \E trip \in Trip, late \in Late :
    /\ Pass("INIT") /\ Received(trip, late) <= Enough
    /\ nreceived' = Received(trip, late) /\ rawmax' = Longest(trip)
    /\ fil' \in Measured(trip, late)
    /\ new' = New /\ saved' = Saved
    /\ UNCHANGED <<qstate, pingon, pinglimit, limit>>

\* The limit for a measured ping time.
Entitlement(time) ==
    MinOf(MaxOf(IF args.entitle THEN pinglimit + (11 * time) \div 10 ELSE 2 * time, MinLimit), MaxLimit)

HasMeasured ==
    \E trip \in Trip, late \in Late :
    /\ Pass("INIT") /\ Received(trip, late) > Enough
    /\ nreceived' = Received(trip, late) /\ fil' \in Measured(trip, late)
    /\ qstate' = "IDLE"
    /\ new' = New /\ saved' = Saved /\ limit' = Modify(New, limit)
    /\ pinglimit' = Entitlement(fil') /\ rawmax' = 2 * pinglimit'
    /\ UNCHANGED pingon

\* The load is below 12% of the link.
Idles ==
    \E trip \in Trip, late \in Late :
    /\ Pass("IDLE")
    /\ pingon' = FALSE
    /\ nreceived' = Received(trip, late) /\ rawmax' = Longest(trip) /\ fil' \in Filtered(trip)
    /\ new' = New /\ saved' = Saved
    /\ UNCHANGED <<qstate, pinglimit, limit>>

\* Ping time that a mode allows.
PLimit(mode) == pinglimit + IF mode = "ACTIVE" THEN (135 * args.limit) \div 100 ELSE 0

\* Where the control law may move a limit, by the sign of the error.
Higher(rate) == rate..Link
Lower(rate, err) ==
    IF err = 0 THEN {rate} ELSE {r \in Floor..rate : r < rate \/ rate = Floor}

Refreshed(max, plimit) == IF max > plimit THEN max - 1 ELSE max

KeptRealtime(state) ==                                      \* only one limit kept
    IF state = "REALTIME" THEN [Saved EXCEPT ![state] = New] ELSE Saved
Kept(state) == IF state \in Modes THEN [Saved EXCEPT ![state] = New] ELSE Saved

\* A loaded link: the state follows the classes that are active, and each of
\* the two modes goes on with the limit that it had last.  The load tells
\* whether qosmon idles from now on and whether a limit is used to 85%.
Controls(state) ==
    \E trip \in Trip, late \in Late, rt \in BOOLEAN, idle \in BOOLEAN, used \in BOOLEAN :
    LET mode == IF ~rt /\ args.entitle THEN "ACTIVE" ELSE "REALTIME"
        from == IF state = mode THEN New ELSE Kept(state)[mode]
        lim  == IF state = mode THEN limit ELSE Modify(from, limit)
        err  == fil' - PLimit(mode)
    IN
    /\ Pass(state) /\ (rt => classes # Gone)
    /\ idle => state # "IDLE" /\ ~used
    /\ qstate' = IF idle THEN "IDLE" ELSE mode
    /\ pingon' = TRUE
    /\ nreceived' = Received(trip, late) /\ fil' \in Filtered(trip)
    /\ saved' = Kept(state)
    /\ IF err < 0 /\ ~used
       THEN new' = from /\ limit' = lim /\ rawmax' = Longest(trip)
       ELSE /\ new' \in IF err < 0 THEN Higher(from) ELSE Lower(from, err)
            /\ limit' = Modify(new', lim)
            /\ rawmax' = Refreshed(Longest(trip), PLimit(mode))
    /\ UNCHANGED pinglimit

\* SIGTERM: the root class gets its limit back.
Finish ==
    /\ qstate # "DISABLED" /\ qstate' = "DISABLED"
    /\ limit' = Modify(Link, limit)
    /\ UNCHANGED <<args, pingon, firstflg, sent, nreceived, fil, rawmax, pinglimit, new, saved,
                   classes, known, resetbw>>

Loop ==
    \/ ClassesChanged
    \/ Waits \/ Begins \/ Throttles
    \/ Measures \/ HasMeasured
    \/ Idles \/ \E state \in Modes \cup {"IDLE"} : Controls(state)

QosNext == Loop \/ Finish \/ Rebuild \/ Resetsig

QosSpec == QosInit /\ [][QosNext]_qosVars

\* select times out: the loop goes on.
QosFairSpec == QosSpec /\ WF_qosVars(Loop)

-----------------------------------------------------------------------------
States == {"CHECK", "INIT", "IDLE", "DISABLED"} \cup Modes

(***************************************************************************)
(* The type of every variable.                                             *)
(***************************************************************************)
QosTypeOK ==
    /\ args \in Args /\ qstate \in States /\ pingon \in BOOLEAN /\ firstflg \in BOOLEAN /\ resetbw \in BOOLEAN
    /\ sent \in BOOLEAN /\ nreceived \in 0..Enough + 1
    /\ fil \in Nat /\ rawmax \in Nat /\ pinglimit \in Nat
    /\ new \in 0..Link /\ saved \in [Modes -> 0..Link]
    /\ limit \in [asked : 1..Link, inforce : 1..Link]
    /\ classes \in Structures \cup {Gone} /\ known \in Structures \cup {Gone}

(***************************************************************************)
(* Once it controls the link, qosmon never asks for more than the link has *)
(* nor for less than its dynamic range goes down to, whatever the ping     *)
(* times and however states, saved limits and resets follow on each other. *)
(***************************************************************************)
LimitInRange ==
    qstate \in Modes \cup {"IDLE"} =>
        {new, limit.asked} \cup {saved[m] : m \in Modes} \subseteq Floor..Link

(***************************************************************************)
(* tc_class_modify skips a rate that it has asked for before; still, the   *)
(* limit last asked for is in force while qosmon controls the link, though *)
(* the class tree was built anew before, and when it ends the link has its *)
(* full rate again.                                                        *)
(***************************************************************************)
LimitInForce ==
    classes # Gone =>
        /\ qstate \in Modes \cup {"IDLE"} /\ classes = known => limit.inforce = limit.asked
        /\ qstate = "DISABLED" => limit.inforce = Link

\* A ping of this pass, or a late one, is answered.
Answered ==
    pingon /\ qstate' = qstate /\ classes' = classes /\ (resetbw' => resetbw)
        => nreceived' > nreceived \/ nreceived > Enough

(***************************************************************************)
(* A target that goes on answering is enough to get through check and      *)
(* measurement for good, unless the classes keep changing: the link does   *)
(* not stay throttled.                                                     *)
(***************************************************************************)
MeasurementEnds ==
    <>[](classes = known) /\ <>[][Answered]_qosVars => <>[](qstate \notin {"CHECK", "INIT"})

(***************************************************************************)
(* While the link is loaded and the filtered ping time stays beyond what   *)
(* either mode allows, the limit goes down to the floor and stays there,   *)
(* although each change of mode brings back a limit saved earlier.         *)
(***************************************************************************)
CongestionIsRelieved ==
    <>[](qstate \in Modes /\ classes # Gone /\ ~resetbw /\ fil > PLimit("ACTIVE"))
        => <>[](limit.inforce = Floor)

=============================================================================
