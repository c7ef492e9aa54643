---------------------------- MODULE LinkDebounce ----------------------------
(***************************************************************************)
(* What a link tracker of mwan3 promises to the rest of the system: it     *)
(* believes a link online or offline, it gives up an online link only      *)
(* after Down failed rounds in a row, or once for each time it is told     *)
(* that the interface went down, and takes an offline one back only after  *)
(* Up good rounds in a row, and when it does take it back its work is over *)
(* (the hotplug scripts start a fresh tracker).  How the program encodes   *)
(* all of that in one integer and a flag is Mwan3Track's business.         *)
(***************************************************************************)
EXTENDS Naturals

CONSTANTS   \* positive integers: Mwan3Track assumes so and instantiates this module
    Down,   \* failed rounds in a row that take an online link down
    Up      \* good rounds in a row that bring an offline link back

VARIABLES
    link,   \* "online" or "offline"
    run,    \* rounds in a row that contradict link
    alive,  \* the tracker still judges rounds
    told    \* it has been told that the interface went down, and has not acted upon it

vars == <<link, run, alive, told>>

Init ==
    /\ link \in {"online", "offline"}
    /\ run = 0
    /\ alive = TRUE
    /\ told = FALSE

\* A failed round: the last straw for an online link, or one more strike
\* against it; it cancels an offline link's recovery.
RoundFailed ==
    /\ alive
    /\ UNCHANGED <<alive, told>>
    /\ \/ link = "online" /\ run + 1 = Down /\ link' = "offline" /\ run' = 0
       \/ link = "online" /\ run + 1 < Down /\ link' = link /\ run' = run + 1
       \/ link = "offline" /\ link' = link /\ run' = 0

\* A good round: clears the strikes of an online link, brings an offline one
\* nearer to recovery, or completes it, which ends the tracker.
RoundPassed ==
    /\ alive
    /\ told' = told
    /\ \/ link = "online" /\ run' = 0 /\ UNCHANGED <<link, alive>>
       \/ link = "offline" /\ run + 1 < Up /\ run' = run + 1 /\ UNCHANGED <<link, alive>>
       \/ link = "offline" /\ run + 1 = Up /\ link' = "online" /\ run' = 0 /\ alive' = FALSE

\* The network tells that the interface went down.
Told ==
    /\ told' = TRUE
    /\ UNCHANGED <<link, run, alive>>

\* What the tracker was told ends the link without counting.
Unplugged ==
    /\ alive
    /\ told /\ told' = FALSE
    /\ link' = "offline"
    /\ run' = 0
    /\ alive' = alive

Stopped ==
    /\ alive
    /\ alive' = FALSE
    /\ UNCHANGED <<link, run, told>>

Next == RoundFailed \/ RoundPassed \/ Told \/ Unplugged \/ Stopped

Spec == Init /\ [][Next]_vars
=============================================================================
