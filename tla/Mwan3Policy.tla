------------------------------ MODULE Mwan3Policy ------------------------------
(***************************************************************************)
(* How mwan3 turns a policy into a firewall chain                          *)
(* (mwan3_create_policies_iptables): it walks the members once, in the     *)
(* order of the configuration, editing the chain as it goes.  A chain is   *)
(* read from its head: a rule marks a new connection with its probability, *)
(* in thousandths, and the first that does decides where it leaves.        *)
(*                                                                         *)
(* The chain is in use while it is rebuilt, so the properties are stated   *)
(* of the members seen so far and hold after every member.                 *)
(***************************************************************************)
EXTENDS Integers, Sequences

CONSTANTS
    Ifaces,     \* interfaces that have a section in the configuration
    Family,     \* [Ifaces -> Families]
    Metrics,    \* metrics and weights that members may have
    Weights,
    MaxMembers, \* bound on the members of the policy
    Lowest      \* DEFAULT_LOWEST_METRIC

Families == {"v4", "v6"}

None == "none"  \* a member whose interface has no section

ASSUME PolicyAssumption ==
    /\ Family \in [Ifaces -> Families] /\ None \notin Ifaces
    /\ Metrics \subseteq Nat /\ Weights \subseteq Nat \ {0}
    /\ MaxMembers \in Nat /\ Lowest \in Nat

VARIABLES
    members,    \* use_member, in order
    state,      \* [Ifaces -> "online", "offline", or "gone": offline without a device]
    fits,       \* the name of the policy has at most 15 characters
    noIPv6,     \* NO_IPV6: ip6tables is not installed
    pc,
    next,       \* member to handle next
    chain,      \* [Families -> rules, head first]
    lowest,     \* [Families -> metric of the members in use]
    total       \* [Families -> sum of their weights]

vars == <<members, state, fits, noIPv6, pc, next, chain, lowest, total>>

Members == [iface : Ifaces \cup {None}, metric : Metrics, weight : Weights]

\* Rules: last_resort, "out" for an offline member, and a member in use.  The
\* member stands for its index; total is the one its probability comes from.
LastResort   == [kind |-> "last", member |-> 0, total |-> 0]
Out(k)       == [kind |-> "out", member |-> k, total |-> 0]
Certain(k)   == [kind |-> "certain", member |-> k, total |-> members[k].weight]
Shared(k, t) == [kind |-> "shared", member |-> k, total |-> t]

InUse == {"certain", "shared"}

Init ==
    /\ \E n \in 0..MaxMembers : members \in [1..n -> Members]
    /\ state \in [Ifaces -> {"online", "offline", "gone"}]
    /\ fits \in BOOLEAN /\ noIPv6 \in BOOLEAN
    /\ pc = "start" /\ next = 1
    /\ chain = [f \in Families |-> <<>>]
    /\ lowest = [f \in Families |-> Lowest]
    /\ total = [f \in Families |-> 0]

\* The chains that this system has.
Managed(f) == f = "v6" => ~noIPv6

Refuse ==
    /\ pc = "start" /\ ~fits
    /\ pc' = "refused"
    /\ UNCHANGED <<members, state, fits, noIPv6, next, chain, lowest, total>>

\* Flush the chains and append last_resort.
Begin ==
    /\ pc = "start" /\ fits
    /\ chain' = [f \in Families |-> IF Managed(f) THEN <<LastResort>> ELSE chain[f]]
    /\ pc' = "members"
    /\ UNCHANGED <<members, state, fits, noIPv6, next, lowest, total>>

-----------------------------------------------------------------------------
(* mwan3_set_policy, once per member.                                      *)

Advance == pc = "members" /\ next <= Len(members) /\ next' = next + 1

\* The member has an interface and an acceptable metric.
Eligible(k) == members[k].iface # None /\ members[k].metric <= Lowest

Online(k, f) == Eligible(k) /\ Family[members[k].iface] = f /\ state[members[k].iface] = "online"

Ignored ==
    /\ Advance
    /\ ~Eligible(next)
    /\ UNCHANGED <<members, state, fits, noIPv6, pc, chain, lowest, total>>

BetterKeepsChain ==                     \* the chain is not flushed
    /\ Advance
    /\ \E f \in Families :
         /\ Online(next, f) /\ Managed(f) /\ members[next].metric < lowest[f]
         /\ chain'  = [chain EXCEPT ![f] = <<Certain(next)>> \o @]
         /\ lowest' = [lowest EXCEPT ![f] = members[next].metric]
         /\ total'  = [total EXCEPT ![f] = members[next].weight]
    /\ UNCHANGED <<members, state, fits, noIPv6, pc>>

\* Online, with a metric below those in use: replaces them all.
Better ==
    /\ Advance
    /\ \E f \in Families :
         /\ Online(next, f) /\ Managed(f) /\ members[next].metric < lowest[f]
         /\ chain'  = [chain EXCEPT ![f] = <<Certain(next)>>]
         /\ lowest' = [lowest EXCEPT ![f] = members[next].metric]
         /\ total'  = [total EXCEPT ![f] = members[next].weight]
    /\ UNCHANGED <<members, state, fits, noIPv6, pc>>

EqualAppends ==                         \* -A instead of -I
    /\ Advance
    /\ \E f \in Families :
         /\ Online(next, f) /\ Managed(f) /\ members[next].metric = lowest[f]
         /\ total' = [total EXCEPT ![f] = @ + members[next].weight]
         /\ chain' = [chain EXCEPT ![f] = @ \o <<Shared(next, total'[f])>>]
    /\ UNCHANGED <<members, state, fits, noIPv6, pc, lowest>>

\* Online, with the metric in use: takes its share in front of the others.
Equal ==
    /\ Advance
    /\ \E f \in Families :
         /\ Online(next, f) /\ Managed(f) /\ members[next].metric = lowest[f]
         /\ total' = [total EXCEPT ![f] = @ + members[next].weight]
         /\ chain' = [chain EXCEPT ![f] = <<Shared(next, total'[f])>> \o @]
    /\ UNCHANGED <<members, state, fits, noIPv6, pc, lowest>>

Worse ==
    /\ Advance
    /\ \E f \in Families : Online(next, f) /\ Managed(f) /\ members[next].metric > lowest[f]
    /\ UNCHANGED <<members, state, fits, noIPv6, pc, chain, lowest, total>>

\* Online in a family without chains: the probability has no total_weight to
\* divide by, and the arithmetic error ends the script.
Abort ==
    /\ Advance
    /\ \E f \in Families : Online(next, f) /\ ~Managed(f)
    /\ pc' = "aborted"
    /\ UNCHANGED <<members, state, fits, noIPv6, chain, lowest, total>>

\* Offline: what leaves by its device is left alone, unless members are in use.
Offline ==
    /\ Advance
    /\ Eligible(next) /\ state[members[next].iface] # "online"
    /\ LET f == Family[members[next].iface] IN
       chain' = IF /\ state[members[next].iface] = "offline" /\ Managed(f)
                   /\ \A r \in 1..Len(chain[f]) : chain[f][r].kind \notin InUse
                THEN [chain EXCEPT ![f] = <<Out(next)>> \o @] ELSE chain
    /\ UNCHANGED <<members, state, fits, noIPv6, pc, lowest, total>>

Finish ==
    /\ pc = "members" /\ next > Len(members)
    /\ pc' = "done"
    /\ UNCHANGED <<members, state, fits, noIPv6, next, chain, lowest, total>>

Next == Refuse \/ Begin \/ Ignored \/ Better \/ Equal \/ Worse \/ Abort \/ Offline \/ Finish

Spec == Init /\ [][Next]_vars

-----------------------------------------------------------------------------
(* What the rules do.                                                      *)

Probability(r) == IF r.kind = "shared" THEN (members[r.member].weight * 1000) \div r.total ELSE 1000

\* In millionths of the new connections: what reaches rule k of chain c, and
\* what the rule takes of it.
Reaching(c, k) ==
    LET reaching[i \in 1..k] ==
          IF i = 1 THEN 1000000
          ELSE reaching[i - 1] - (reaching[i - 1] * Probability(c[i - 1])) \div 1000
    IN reaching[k]
Taken(c, k) == (Reaching(c, k) * Probability(c[k])) \div 1000

PercentOfOwn(c, k) == (members[c[k].member].weight * 100) \div c[k].total     \* not head -1

\* The percentage that mwan3_report_policies prints for rule k: the total is
\* the one of the first rule of a member.
Percent(c, k) == (members[c[k].member].weight * 100) \div c[1].total

-----------------------------------------------------------------------------
Rules == [kind : {"last", "out", "certain", "shared"}, member : Nat, total : Nat]

(***************************************************************************)
(* The type of every variable of the rebuild.                              *)
(***************************************************************************)
TypeOK ==
    /\ members \in Seq(Members) /\ Len(members) <= MaxMembers
    /\ state \in [Ifaces -> {"online", "offline", "gone"}]
    /\ fits \in BOOLEAN /\ noIPv6 \in BOOLEAN
    /\ pc \in {"start", "refused", "members", "done", "aborted"}
    /\ next \in 1..Len(members) + 1
    /\ chain \in [Families -> Seq(Rules)]
    /\ lowest \in [Families -> Nat]
    /\ total \in [Families -> Nat]

Seen == 1..next - 1

\* Members that may be in use, and the best of those in a set.
Candidates(f) ==
    {k \in 1..Len(members) :
       /\ members[k].iface \in Ifaces /\ members[k].metric \in 0..Lowest
       /\ Family[members[k].iface] = f /\ state[members[k].iface] = "online"}
Best(S) == {k \in S : \A j \in S : members[k].metric <= members[j].metric}

InUseOf(f) == {r \in 1..Len(chain[f]) : chain[f][r].kind \in InUse}

(***************************************************************************)
(* After every member, the chain of a family uses exactly the online       *)
(* members of the lowest metric seen so far, each once: none that is       *)
(* offline, none of the other family, none that a better one replaced.     *)
(***************************************************************************)
BestAreInUse ==
    pc \in {"members", "done"} => \A f \in Families : Managed(f) =>
        /\ {chain[f][r].member : r \in InUseOf(f)} = Best(Seen \cap Candidates(f))
        /\ \A r, s \in InUseOf(f) : r < s => chain[f][r].member > chain[f][s].member

(***************************************************************************)
(* A member's probability is its part of the weights from its rule to the  *)
(* end of the chain, so that the shares telescope to weight over total.    *)
(***************************************************************************)
TotalsTelescope ==
    \A f \in Families : \A r \in InUseOf(f) :
        chain[f][r].total = members[chain[f][r].member].weight
                            + IF r + 1 \in InUseOf(f) THEN chain[f][r + 1].total ELSE 0

(***************************************************************************)
(* As soon as a member is in use no connection gets past the members: they *)
(* come first, and one of them takes all it sees, be it that last_resort   *)
(* still stands behind it.  Before that, last_resort ends the chain, and   *)
(* only members that are offline are in front of it.                       *)
(***************************************************************************)
NothingLeaks ==
    pc \in {"members", "done"} => \A f \in Families : Managed(f) =>
        LET c == chain[f] IN
        IF InUseOf(f) # {}
        THEN \E r \in InUseOf(f) : 1..r \subseteq InUseOf(f) /\ Probability(c[r]) = 1000
        ELSE /\ c[Len(c)] = LastResort
             /\ \A r \in 1..Len(c) - 1 : c[r].kind = "out" /\ state[members[c[r].member].iface] = "offline"

Distance(a, b) == IF a > b THEN a - b ELSE b - a

(***************************************************************************)
(* Each member in use gets its weight's share of new connections, rounding *)
(* included to within one thousandth per rule, although every rule sees    *)
(* only what the rules before it left.                                     *)
(***************************************************************************)
SharesFollowWeights ==
    \A f \in Families : \A r \in InUseOf(f) :
        LET c == chain[f] IN
        Distance(Taken(c, r) * c[1].total, members[c[r].member].weight * 1000000)
            <= Len(c) * 1000 * c[1].total

(***************************************************************************)
(* The percentage that mwan3 policies and the rpcd call print is what the  *)
(* chain does, to within one percent and the rounding of the rules, if the *)
(* interface has one member in use (the report looks weights up by name).  *)
(***************************************************************************)
ReportIsTruthful ==
    \A f \in Families : \A r \in InUseOf(f) :
        LET c         == chain[f]
            iface(s)  == members[c[s].member].iface
        IN
        (\A s \in InUseOf(f) : iface(s) = iface(r) => s = r) =>
            Distance(Taken(c, r), Percent(c, r) * 10000) <= 10000 + Len(c) * 1000

=============================================================================
