----------------------------- MODULE Mwan3Track -----------------------------
(***************************************************************************)
(* One mwan3track process: the daemon that probes the track_ip targets of  *)
(* one interface, keeps a score of the rounds, writes the STATUS file and  *)
(* drives the hotplug scripts with ifdown and ifup.                        *)
(*                                                                         *)
(* One action per stretch of the script between two points where another   *)
(* process, a signal or the network can interfere: a probe, the verdict on *)
(* a round, the return of a synchronous hotplug-call, the end of a sleep.  *)
(* The counters LOST and TURN, latencies and log lines are left out: they  *)
(* feed the status page and never a decision; so is the length of a sleep  *)
(* (interval, failure_interval or recovery_interval), since a sleep may    *)
(* take any time here.                                                     *)
(***************************************************************************)
EXTENDS Integers

CONSTANTS
    Down,                \* option down: rounds from online to offline
    Up,                  \* option up: rounds from offline to online
    Reliability,         \* option reliability: targets that must answer
    Targets,             \* number of track_ip entries
    CheckQuality         \* option check_quality (offered with track_method ping)

ASSUME TrackAssumption ==
    /\ Down \in Nat \ {0} /\ Up \in Nat \ {0}
    /\ Targets \in Nat \ {0} /\ Reliability \in 1..Targets
    /\ CheckQuality \in BOOLEAN

VARIABLES
    pc,         \* where the script is
    call,       \* ACTION of the hotplug-call the script waits for, or "none"
    arg,        \* $3, the status the tracker is started with
    status,     \* the STATUS file, read by the hotplug scripts and by rpcd
    score,      \* the script's score
    left,       \* targets still to visit in this round
    hostUp,     \* host_up_count
    event,      \* IFDOWN_EVENT
    path        \* the network between the interface and its targets

vars == <<pc, call, arg, status, score, left, hostUp, event, path>>

\* "done" is the exit after an ifup, "gone" every other end.
PCs     == {"exec", "config", "round", "call", "sleep", "done", "gone"}
Actions == {"connected", "ifdown", "ifup", "disconnected"}
Paths   == {"good", "poor", "dead"}

\* Slips that a run must catch, each beside the definition it replaces.
VerdictsOfNoProbe == {"up"}                                  \* result of the probe never looked at
StrikeTwice(s) == IF s - 1 < Up THEN 0 ELSE IF s - 1 > Up THEN s - 2 ELSE s - 1  \* a round early

\* The score after a failed round, and after a good one.
Strike(s) == IF s - 1 < Up THEN 0 ELSE s - 1
Credit(s) == IF s + 1 > Up THEN Down + Up ELSE s + 1

\* Verdicts a probe of one target can get on each kind of path.  With
\* check_quality a poor path falls between the failure and the recovery
\* thresholds and counts neither way; without it any answer is an answer.
Verdicts ==
    CASE path = "good" -> {"up"}
      [] path = "dead" -> {"down"}
      [] OTHER         -> IF CheckQuality THEN {"up", "down", "skipped"} ELSE {"up", "down"}

Running == pc \in {"config", "round", "call", "sleep"}

Init ==
    /\ pc = "exec" /\ call = "none"
    /\ arg \in {"online", "offline"}
    /\ status \in {"none", "online", "offline"}    \* left behind by an earlier tracker
    /\ score = IF arg = "offline" THEN 0 ELSE Down + Up   \* set before anything reads it
    /\ left = 0 /\ hostUp = 0
    /\ event = FALSE
    /\ path \in Paths

\* The script has started and installed its traps.
SetTraps ==
    /\ pc = "exec"
    /\ pc' = "config"
    /\ UNCHANGED <<call, arg, status, score, left, hostUp, event, path>>

\* Neither the configured track_method nor ping is installed.
NoMethod ==
    /\ pc = "config"
    /\ pc' = "gone"
    /\ UNCHANGED <<call, arg, status, score, left, hostUp, event, path>>

\* First STATUS; a tracker started online also reports "connected".
Launch ==
    /\ pc = "config"
    /\ status' = arg
    /\ \/ /\ arg = "offline"
          /\ pc' = "round" /\ left' = Targets
          /\ call' = call
       \/ /\ arg = "online"
          /\ pc' = "call" /\ call' = "connected"
          /\ left' = left
    /\ UNCHANGED <<arg, score, hostUp, event, path>>

\* Visit the next target: probed only while the round still lacks answers.
Probe ==
    /\ pc = "round" /\ left > 0
    /\ left' = left - 1
    /\ \/ /\ hostUp < Reliability
          /\ \E v \in Verdicts : hostUp' = IF v = "up" THEN hostUp + 1 ELSE hostUp
       \/ hostUp >= Reliability /\ hostUp' = hostUp
    /\ UNCHANGED <<pc, call, arg, status, score, event, path>>

\* Too few targets answered: a strike, and at the threshold an ifdown.
RoundFails ==
    /\ pc = "round" /\ left = 0 /\ hostUp < Reliability
    /\ hostUp' = 0
    /\ score' = Strike(score)
    /\ IF score' = Up
       THEN status' = "offline" /\ pc' = "call" /\ call' = "ifdown"
       ELSE pc' = "sleep" /\ UNCHANGED <<call, status>>
    /\ UNCHANGED <<arg, left, event, path>>

\* Enough targets answered: above the threshold the full score, at it an ifup.
RoundPasses ==
    /\ pc = "round" /\ left = 0 /\ hostUp >= Reliability
    /\ hostUp' = 0
    /\ score' = Credit(score)
    /\ status' = IF score' >= Up THEN "online" ELSE status
    /\ IF score' = Up
       THEN pc' = "call" /\ call' = "ifup"
       ELSE pc' = "sleep" /\ call' = call
    /\ UNCHANGED <<arg, left, event, path>>

\* The hotplug-call the script was waiting for is over.
CallReturns ==
    /\ pc = "call"
    /\ call' = "none"
    /\ \/ /\ call = "connected"
          /\ pc' = "round" /\ left' = Targets
          /\ UNCHANGED <<score, event>>
       \/ /\ call = "ifdown"
          /\ score' = 0 /\ pc' = "sleep"
          /\ UNCHANGED <<left, event>>
       \/ /\ call = "ifup"
          /\ pc' = "done"
          /\ UNCHANGED <<score, left, event>>
       \/ /\ call = "disconnected"
          /\ score' = 0 /\ event' = FALSE /\ pc' = "round" /\ left' = Targets
    /\ UNCHANGED <<arg, status, hostUp, path>>

\* The sleep ends, by itself or because a signal interrupted the wait.
Wake ==
    /\ pc = "sleep"
    /\ \/ /\ event
          /\ status' = "offline" /\ pc' = "call" /\ call' = "disconnected"
          /\ left' = left
       \/ /\ ~event
          /\ pc' = "round" /\ left' = Targets
          /\ UNCHANGED <<status, call>>
    /\ UNCHANGED <<arg, score, hostUp, event, path>>

\* SIGUSR1 from mwan3_track_signal.  Before the trap is installed it kills.
Signal ==
    \/ /\ Running /\ event' = TRUE
       /\ UNCHANGED <<pc, call, arg, status, score, left, hostUp, path>>
    \/ /\ pc = "exec" /\ pc' = "gone"
       /\ UNCHANGED <<call, arg, status, score, left, hostUp, event, path>>

\* SIGTERM or SIGKILL from mwan3_track, mwan3 ifdown or mwan3 stop.  The STATUS
\* file stays as it is.
Terminate ==
    /\ pc \notin {"done", "gone"} /\ pc' = "gone"
    /\ UNCHANGED <<call, arg, status, score, left, hostUp, event, path>>

\* The network changes under the tracker.
PathChanges ==
    /\ path' \in Paths \ {path}
    /\ UNCHANGED <<pc, call, arg, status, score, left, hostUp, event>>

Step == SetTraps \/ Launch \/ Probe \/ RoundFails \/ RoundPasses \/ CallReturns \/ Wake

Next == Step \/ NoMethod \/ Signal \/ Terminate \/ PathChanges

Spec == Init /\ [][Next]_vars

\* The script never blocks for ever: probes and sleeps time out, and the
\* hotplug-call it waits for returns.
FairSpec == Spec /\ WF_vars(Step)

-----------------------------------------------------------------------------
\* The tracker seen as a LinkDebounce: the verdict and the streak that the
\* score stands for.  The score reaches Up only for the length of a
\* hotplug-call, and the call tells which way it was reached.
Believed ==
    IF call # "disconnected" /\ (score > Up \/ call = "ifup" \/ pc = "done")
    THEN "online" ELSE "offline"

Streak ==
    IF call = "disconnected" \/ score = Up THEN 0
    ELSE IF score > Up THEN Down + Up - score
    ELSE score

Judging == pc \notin {"done", "gone"} /\ call # "ifup"

\* A signal is acted upon when its hotplug-call begins; one that comes while
\* that call runs is dropped with it.
Pending == event /\ call # "disconnected"

D == INSTANCE LinkDebounce
     WITH link <- Believed, run <- Streak, alive <- Judging, told <- Pending

(***************************************************************************)
(* Every variable has its type; the bounds of the score are mwan3track's   *)
(* own: it never leaves 0..(down+up).                                      *)
(***************************************************************************)
TypeOK ==
    /\ pc \in PCs
    /\ call \in Actions \cup {"none"}
    /\ arg \in {"online", "offline"}
    /\ status \in {"none", "online", "offline"}
    /\ score \in 0..(Down + Up)
    /\ left \in 0..Targets
    /\ hostUp \in 0..Reliability
    /\ event \in BOOLEAN
    /\ path \in Paths

(***************************************************************************)
(* What the -eq tests of mwan3track rely on: between rounds the score is   *)
(* never exactly up, so no round can pass the threshold unannounced, and   *)
(* the STATUS file that 15-mwan3 and rpcd read says online exactly when    *)
(* the score is above it; while ifdown or ifup runs, the file already      *)
(* holds the new state the hotplug scripts are to see.                     *)
(***************************************************************************)
StatusFollowsScore ==
    /\ pc \in {"round", "sleep"} =>
         score # Up /\ (status = "online" <=> score > Up) /\ status # "none"
    /\ pc = "call" =>
         /\ call \in {"ifdown", "ifup"} => score = Up
         /\ status = IF call \in {"ifup", "connected"} THEN "online" ELSE "offline"

(***************************************************************************)
(* The tracker is a LinkDebounce: it never takes a link down before Down   *)
(* failed rounds in a row, unless a signal has told it that the interface  *)
(* went down, which takes the link down once; and it never takes one back  *)
(* before Up good rounds in a row.                                         *)
(***************************************************************************)
Debounces == D!Spec

(***************************************************************************)
(* If the path to the targets dies for good, the tracker takes the link    *)
(* offline, or has ended.                                                  *)
(***************************************************************************)
DeadPathIsNoticed ==
    <>[](path = "dead") => <>[](status = "offline" \/ pc \in {"done", "gone"})

(***************************************************************************)
(* If the path recovers for good and no ifdown signal is pending, the      *)
(* link comes back online, unless the tracker was stopped.                 *)
(***************************************************************************)
GoodPathComesBack ==
    <>[](path = "good" /\ ~event) => <>[](status = "online" \/ pc = "gone")

(***************************************************************************)
(* A change that lasts is reported, whatever the score was before it and   *)
(* whichever signals arrive (mwan3track, main).                            *)
(***************************************************************************)
ChangesAreReported == DeadPathIsNoticed /\ GoodPathComesBack

=============================================================================
