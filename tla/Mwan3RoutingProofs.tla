-------------------------- MODULE Mwan3RoutingProofs --------------------------
(***************************************************************************)
(* Proofs about where mwan3 sends connections: about the chain of a        *)
(* policy, for any interfaces, metrics, positive weights and number of     *)
(* members, and about the firewall marks that the chain gives and the ip   *)
(* rules look up.                                                          *)
(***************************************************************************)
EXTENDS Mwan3Policy, Mwan3Mask, SequenceTheorems, FiniteSetTheorems,
    WellFoundedInduction, TLAPS

SeenOf(f) == Seen \cap Candidates(f)

Rebuilding(f) == pc \in {"members", "done"} /\ Managed(f)

\* lowest is the best metric seen, or DEFAULT_LOWEST_METRIC.
LowestOK(f) ==
    /\ lowest[f] <= Lowest
    /\ \A k \in SeenOf(f) : lowest[f] <= members[k].metric
    /\ lowest[f] = Lowest \/ \E k \in SeenOf(f) : members[k].metric = lowest[f]

UsedOK(f) == {chain[f][r].member : r \in InUseOf(f)} = {k \in SeenOf(f) : members[k].metric = lowest[f]}

\* Rules of members in use come first, the latest member in front.
OrderOK(f) ==
    /\ \A r \in InUseOf(f) : 1..r \subseteq InUseOf(f) /\ chain[f][r].member \in Seen
    /\ \A r, s \in InUseOf(f) : r < s => chain[f][r].member > chain[f][s].member

\* Each rule's total is its weight and the total of the next rule in use.
TotalOK(f) ==
    /\ \A r \in InUseOf(f) :
         chain[f][r].total = members[chain[f][r].member].weight
                             + IF r + 1 \in InUseOf(f) THEN chain[f][r + 1].total ELSE 0
    /\ total[f] = IF InUseOf(f) = {} THEN 0 ELSE chain[f][1].total

\* A rule in use takes everything, or there is none and last_resort is reached.
ReachOK(f) ==
    IF InUseOf(f) # {}
    THEN \E r \in InUseOf(f) : chain[f][r].total = members[chain[f][r].member].weight
    ELSE /\ Len(chain[f]) > 0 /\ chain[f][Len(chain[f])] = LastResort
         /\ \A r \in 1..Len(chain[f]) - 1 :
              chain[f][r].kind = "out" /\ state[members[chain[f][r].member].iface] = "offline"

FamilyOK(f) ==
    /\ OrderOK(f) /\ TotalOK(f)
    /\ Rebuilding(f) => LowestOK(f) /\ UsedOK(f) /\ ReachOK(f)

\* Nothing has been written before the rebuild begins.
Fresh == pc = "start" => next = 1 /\ \A f \in Families : chain[f] = <<>> /\ lowest[f] = Lowest /\ total[f] = 0

IInv == TypeOK /\ Fresh /\ \A f \in Families : FamilyOK(f)

-----------------------------------------------------------------------------
(* Types.                                                                  *)

LEMMA PrependedRules ==
    ASSUME NEW c \in Seq(Rules), NEW x \in Rules
    PROVE  /\ <<x>> \o c \in Seq(Rules) /\ Len(<<x>> \o c) = Len(c) + 1
           /\ (<<x>> \o c)[1] = x
           /\ \A r \in 2..Len(c) + 1 : (<<x>> \o c)[r] = c[r - 1]
  OBVIOUS

LEMMA RulesTyped ==
    ASSUME TypeOK, NEW k \in 1..Len(members)
    PROVE  /\ members[k] \in Members /\ members[k].metric \in Nat /\ members[k].weight \in Nat \ {0}
           /\ LastResort \in Rules /\ Out(k) \in Rules /\ Certain(k) \in Rules
           /\ \A t \in Nat : Shared(k, t) \in Rules
<1>1. members[k] \in Members
  BY DEF TypeOK
<1>2. members[k].metric \in Nat /\ members[k].weight \in Nat \ {0}
  BY <1>1, PolicyAssumption DEF Members
<1> QED
  BY <1>1, <1>2 DEF LastResort, Out, Certain, Shared, Rules

LEMMA InitTyped == Init => TypeOK
  BY PolicyAssumption DEF Init, TypeOK

LEMMA NextTyped == TypeOK /\ [Next]_vars => TypeOK'
<1> SUFFICES ASSUME TypeOK, [Next]_vars PROVE TypeOK'
  OBVIOUS
<1>1. CASE Refuse
  BY <1>1 DEF Refuse, TypeOK
<1>2. CASE Begin
  <2>1. LastResort \in Rules
    BY DEF LastResort, Rules
  <2>2. <<LastResort>> \in Seq(Rules)
    BY <2>1
  <2> QED
    BY <1>2, <2>2 DEF Begin, TypeOK
<1>3. CASE Ignored \/ Worse \/ Abort
  BY <1>3 DEF Ignored, Worse, Abort, Advance, TypeOK
<1>4. CASE Better
  <2>1. next \in 1..Len(members)
    BY <1>4 DEF Better, Advance, TypeOK
  <2> QED
    BY <1>4, <2>1, RulesTyped DEF Better, Advance, TypeOK
<1>5. CASE Equal
  <2>1. next \in 1..Len(members)
    BY <1>5 DEF Equal, Advance, TypeOK
  <2>2. PICK f \in Families : /\ total' = [total EXCEPT ![f] = @ + members[next].weight]
                              /\ chain' = [chain EXCEPT ![f] = <<Shared(next, total'[f])>> \o @]
    BY <1>5 DEF Equal
  <2>3. total' \in [Families -> Nat]
    BY <2>1, <2>2, RulesTyped DEF TypeOK
  <2>4. Shared(next, total'[f]) \in Rules
    BY <2>1, <2>3, RulesTyped
  <2>5. <<Shared(next, total'[f])>> \o chain[f] \in Seq(Rules)
    BY <2>4, PrependedRules DEF TypeOK
  <2>6. chain' \in [Families -> Seq(Rules)]
    BY <2>2, <2>5 DEF TypeOK
  <2> QED
    BY <1>5, <2>1, <2>3, <2>6, SMTT(30) DEF Equal, Advance, TypeOK
<1>6. CASE Offline
  <2>1. next \in 1..Len(members)
    BY <1>6 DEF Offline, Advance, TypeOK
  <2> DEFINE f == Family[members[next].iface]
  <2>2. f \in Families
    BY <1>6, <2>1, RulesTyped, PolicyAssumption DEF Offline, Eligible, Members
  <2>3. <<Out(next)>> \o chain[f] \in Seq(Rules)
    BY <2>1, <2>2, PrependedRules, RulesTyped DEF TypeOK
  <2>4. chain' \in [Families -> Seq(Rules)]
    BY <1>6, <2>2, <2>3 DEF Offline, TypeOK
  <2> QED
    BY <1>6, <2>1, <2>4, SMTT(30), ZenonT(30) DEF Offline, Advance, TypeOK
<1>7. CASE Finish
  BY <1>7 DEF Finish, TypeOK
<1>8. CASE UNCHANGED vars
  BY <1>8 DEF vars, TypeOK
<1> QED
  BY <1>1, <1>2, <1>3, <1>4, <1>5, <1>6, <1>7, <1>8 DEF Next


-----------------------------------------------------------------------------
(* The chain of one family.                                                *)

\* Members of a family are candidates or not for the whole rebuild.
LEMMA SeenGrows ==
    ASSUME TypeOK, UNCHANGED <<members, state>>, next' = next + 1, NEW f \in Families
    PROVE  /\ Seen' = Seen \cup {next} /\ next \notin Seen
           /\ SeenOf(f)' = IF next \in Candidates(f) THEN SeenOf(f) \cup {next} ELSE SeenOf(f)
  BY DEF TypeOK, Seen, SeenOf, Candidates

\* A family that a step leaves alone.
LEMMA FamilyKept ==
    ASSUME UNCHANGED <<members, state>>, NEW f \in Families, FamilyOK(f),
           chain'[f] = chain[f], lowest'[f] = lowest[f], total'[f] = total[f],
           Seen \subseteq Seen',
           Rebuilding(f)' => Rebuilding(f) /\ SeenOf(f)' = SeenOf(f)
    PROVE  FamilyOK(f)'
<1>1. InUseOf(f)' = InUseOf(f)
  BY DEF InUseOf
<1>2. OrderOK(f)' /\ TotalOK(f)'
  BY <1>1 DEF FamilyOK, OrderOK, TotalOK
<1>3. ASSUME Rebuilding(f)' PROVE LowestOK(f)' /\ UsedOK(f)' /\ ReachOK(f)'
  BY <1>1, <1>3 DEF FamilyOK, LowestOK, UsedOK, ReachOK
<1> QED
  BY <1>2, <1>3 DEF FamilyOK

\* Where the rules are after one has been put in front.
LEMMA PrependInUse ==
    ASSUME TypeOK, NEW f \in Families, NEW x \in Rules, chain'[f] = <<x>> \o chain[f]
    PROVE  /\ chain'[f][1] = x /\ Len(chain'[f]) = Len(chain[f]) + 1
           /\ \A r \in 1..Len(chain[f]) : chain'[f][r + 1] = chain[f][r]
           /\ InUseOf(f)' = {r + 1 : r \in InUseOf(f)} \cup IF x.kind \in InUse THEN {1} ELSE {}
<1>1. chain[f] \in Seq(Rules)
  BY DEF TypeOK
<1>2. /\ chain'[f] \in Seq(Rules) /\ chain'[f][1] = x /\ Len(chain'[f]) = Len(chain[f]) + 1
      /\ \A r \in 2..Len(chain[f]) + 1 : chain'[f][r] = chain[f][r - 1]
  BY <1>1, PrependedRules
<1>3. \A r \in 1..Len(chain[f]) : r + 1 \in 2..Len(chain[f]) + 1 /\ (r + 1) - 1 = r
  BY <1>1
<1>4. \A r \in 1..Len(chain[f]) : chain'[f][r + 1] = chain[f][r]
  BY <1>2, <1>3
<1>5. ASSUME NEW s \in InUseOf(f)' PROVE s \in {r + 1 : r \in InUseOf(f)} \cup IF x.kind \in InUse THEN {1} ELSE {}
  <2>1. s \in 1..Len(chain[f]) + 1 /\ chain'[f][s].kind \in InUse
    BY <1>2, <1>5 DEF InUseOf
  <2>2. CASE s = 1
    BY <1>2, <2>1, <2>2
  <2>3. CASE s # 1
    <3>1. s - 1 \in 1..Len(chain[f]) /\ (s - 1) + 1 = s
      BY <1>1, <2>1, <2>3
    <3>2. s - 1 \in InUseOf(f)
      BY <1>4, <2>1, <3>1 DEF InUseOf
    <3> QED
      BY <3>1, <3>2
  <2> QED
    BY <2>2, <2>3
<1>6. ASSUME NEW r \in InUseOf(f) PROVE r + 1 \in InUseOf(f)'
  BY <1>1, <1>2, <1>4 DEF InUseOf
<1>7. x.kind \in InUse => 1 \in InUseOf(f)'
  BY <1>1, <1>2 DEF InUseOf
<1> QED
  BY <1>2, <1>4, <1>5, <1>6, <1>7

\* Better: the new member alone.
LEMMA FamilyReplaced ==
    ASSUME TypeOK, UNCHANGED <<members, state>>, NEW f \in Families, FamilyOK(f), Rebuilding(f),
           next \in 1..Len(members), next' = next + 1, next \in Candidates(f),
           members[next].metric < lowest[f], chain'[f] = <<Certain(next)>>,
           lowest'[f] = members[next].metric, total'[f] = members[next].weight
    PROVE  FamilyOK(f)'
<1>1. /\ Seen' = Seen \cup {next} /\ next \notin Seen /\ SeenOf(f)' = SeenOf(f) \cup {next}
  BY SeenGrows
<1>2. InUseOf(f)' = {1} /\ chain'[f][1] = Certain(next) /\ Len(chain'[f]) = 1
  BY DEF InUseOf, InUse, Certain
<1>3. OrderOK(f)'
  BY <1>1, <1>2 DEF OrderOK, Certain
<1>4. TotalOK(f)'
  <2>1. chain'[f][1].total = members[next].weight /\ chain'[f][1].member = next
    BY <1>2 DEF Certain
  <2>2. members[next].weight \in Nat
    BY RulesTyped
  <2> QED
    BY <1>2, <2>1, <2>2 DEF TotalOK
<1>5. /\ members[next].metric \in Nat /\ lowest[f] \in Nat /\ Lowest \in Nat
      /\ \A k \in SeenOf(f) : k \in 1..Len(members) /\ members[k].metric \in Nat
  BY RulesTyped, PolicyAssumption DEF TypeOK, SeenOf, Candidates
<1>6. LowestOK(f)'
  BY <1>1, <1>5 DEF LowestOK, FamilyOK
<1>7. {k \in SeenOf(f)' : members[k].metric = members[next].metric} = {next}
  BY <1>1, <1>5 DEF LowestOK, FamilyOK
<1>8. UsedOK(f)'
  BY <1>2, <1>7 DEF UsedOK, Certain
<1>9. ReachOK(f)'
  BY <1>2 DEF ReachOK, Certain
<1> QED
  BY <1>3, <1>4, <1>6, <1>8, <1>9 DEF FamilyOK

\* Equal: the new member in front of the others.
LEMMA FamilyShared ==
    ASSUME TypeOK, UNCHANGED <<members, state>>, NEW f \in Families, FamilyOK(f), Rebuilding(f),
           next \in 1..Len(members), next' = next + 1, next \in Candidates(f),
           members[next].metric = lowest[f], lowest'[f] = lowest[f],
           NEW t, t = total[f] + members[next].weight,
           total'[f] = t, chain'[f] = <<Shared(next, t)>> \o chain[f]
    PROVE  FamilyOK(f)'
<1> DEFINE x == Shared(next, t)
           J == InUseOf(f)
           c == chain[f]
<1>1. /\ Seen' = Seen \cup {next} /\ next \notin Seen /\ SeenOf(f)' = SeenOf(f) \cup {next}
  BY SeenGrows
<1>2. total[f] \in Nat /\ t \in Nat /\ members[next].weight \in Nat \ {0}
  BY RulesTyped, SMTT(30) DEF TypeOK
<1>3. x.kind \in InUse /\ x.member = next /\ x.total = t /\ x \in Rules
  BY <1>2, RulesTyped DEF Shared, InUse
<1>4. /\ chain'[f][1] = x
      /\ \A r \in 1..Len(c) : chain'[f][r + 1] = c[r]
      /\ InUseOf(f)' = {r + 1 : r \in J} \cup {1}
  BY <1>3, PrependInUse
<1>5. J \subseteq 1..Len(c) /\ J \subseteq Nat \ {0}
  BY DEF InUseOf
<1>6. \A r \in J : chain'[f][r + 1] = c[r]
  BY <1>4, <1>5
<1>7. J # {} => 1 \in J
  <2>1. \A r \in J : 1 \in 1..r
    BY <1>5
  <2> QED
    BY <2>1 DEF FamilyOK, OrderOK
<1>8. /\ \A r \in J : r + 1 \in InUseOf(f)' /\ r # 0
      /\ \A s \in InUseOf(f)' : s = 1 \/ \E r \in J : s = r + 1
      /\ \A r \in Nat : r # 0 => (r + 1 \in InUseOf(f)' <=> r \in J)
      /\ 1 \in InUseOf(f)' /\ InUseOf(f)' \subseteq Nat \ {0}
  BY <1>4, <1>5
<1> HIDE DEF x, J, c
<1>9. OrderOK(f)'
  <2>1. ASSUME NEW s \in InUseOf(f)'
        PROVE  1..s \subseteq InUseOf(f)' /\ chain'[f][s].member \in Seen'
    <3>1. CASE s = 1
      BY <3>1, <1>1, <1>3, <1>4, <1>8
    <3>2. ASSUME NEW r \in J, s = r + 1 PROVE 1..s \subseteq InUseOf(f)' /\ chain'[f][s].member \in Seen'
      <4>1. 1..r \subseteq J /\ c[r].member \in Seen
        BY DEF FamilyOK, OrderOK, J, c
      <4>2. \A q \in 1..s : q = 1 \/ \E p \in 1..r : q = p + 1
        <5>1. \A q \in 1..s : q # 1 => q - 1 \in 1..r /\ q = (q - 1) + 1
          BY <3>2, <1>5
        <5> QED
          BY <5>1
      <4> QED
        BY <3>2, <4>1, <4>2, <1>1, <1>6, <1>8, ZenonT(30)
    <3> QED
      BY <3>1, <3>2, <1>8
  <2>2. ASSUME NEW r \in InUseOf(f)', NEW s \in InUseOf(f)', r < s
        PROVE  chain'[f][r].member > chain'[f][s].member
    <3> s # 1
      BY <2>2, <1>8
    <3>1. PICK q \in J : s = q + 1
      BY <1>8
    <3>2. chain'[f][s] = c[q] /\ c[q].member \in Seen
      BY <3>1, <1>6 DEF FamilyOK, OrderOK, J, c
    <3>3. CASE r = 1
      <4>1. chain'[f][r].member = next
        BY <3>3, <1>3, <1>4
      <4>2. next \in Nat /\ \A k \in Seen : next > k
        BY DEF Seen, TypeOK
      <4> QED
        BY <3>2, <4>1, <4>2
    <3>4. ASSUME NEW p \in J, r = p + 1 PROVE chain'[f][r].member > chain'[f][s].member
      <4>1. p < q
        BY <2>2, <3>1, <3>4, <1>5
      <4> QED
        BY <3>2, <3>4, <4>1, <1>6 DEF FamilyOK, OrderOK, J, c
    <3> QED
      BY <3>3, <3>4, <1>8
  <2> QED
    BY <2>1, <2>2 DEF OrderOK
<1>10. TotalOK(f)'
  <2>1. chain'[f][1].total = members[next].weight
                             + IF 1 + 1 \in InUseOf(f)' THEN chain'[f][1 + 1].total ELSE 0
    <3>1. 1 + 1 \in InUseOf(f)' <=> 1 \in J
      BY <1>8
    <3>2. 1 \in J => chain'[f][1 + 1] = c[1]
      BY <1>6, Zenon
    <3>3. total[f] = IF 1 \in J THEN c[1].total ELSE 0
      BY <1>7 DEF FamilyOK, TotalOK, J, c
    <3>4. t = members[next].weight + total[f]
      BY <1>2
    <3> QED
      BY <3>1, <3>2, <3>3, <3>4, <1>3, <1>4
  <2>2. ASSUME NEW q \in J
        PROVE  chain'[f][q + 1].total = members[chain'[f][q + 1].member].weight
                                        + IF (q + 1) + 1 \in InUseOf(f)' THEN chain'[f][(q + 1) + 1].total ELSE 0
    <3>1. q + 1 \in Nat /\ q + 1 # 0
      BY <1>5
    <3>2. (q + 1) + 1 \in InUseOf(f)' <=> q + 1 \in J
      BY <3>1, <1>8
    <3>3. q + 1 \in J => chain'[f][(q + 1) + 1] = c[q + 1]
      BY <1>6
    <3>4. c[q].total = members[c[q].member].weight + IF q + 1 \in J THEN c[q + 1].total ELSE 0
      BY DEF FamilyOK, TotalOK, J, c
    <3> QED
      BY <3>2, <3>3, <3>4, <1>6
  <2>3. ASSUME NEW r \in InUseOf(f)'
        PROVE  chain'[f][r].total = members[chain'[f][r].member].weight
                                    + IF r + 1 \in InUseOf(f)' THEN chain'[f][r + 1].total ELSE 0
    <3>1. CASE r = 1
      BY <3>1, <2>1, <1>3, <1>4
    <3>2. CASE r # 1
      <4>1. PICK q \in J : r = q + 1
        BY <3>2, <1>8
      <4> QED
        BY <4>1, <2>2
    <3> QED
      BY <3>1, <3>2
  <2> QED
    BY <2>3, <1>3, <1>4, <1>8 DEF TotalOK
<1>11. LowestOK(f)'
  BY <1>1 DEF FamilyOK, LowestOK, TypeOK
<1>12. UsedOK(f)'
  <2>1. {chain'[f][r].member : r \in InUseOf(f)'} = {c[r].member : r \in J} \cup {next}
    <3>1. \A s \in InUseOf(f)' : chain'[f][s].member \in {c[r].member : r \in J} \cup {next}
      <4>1. ASSUME NEW s \in InUseOf(f)'
            PROVE  chain'[f][s].member \in {c[r].member : r \in J} \cup {next}
        <5>1. CASE s = 1
          BY <5>1, <1>3, <1>4
        <5>2. CASE s # 1
          <6>1. PICK r \in J : s = r + 1
            BY <5>2, <1>8
          <6> QED
            BY <6>1, <1>6
        <5> QED
          BY <5>1, <5>2
      <4> QED
        BY <4>1
    <3>2. \A r \in J : c[r].member \in {chain'[f][s].member : s \in InUseOf(f)'}
      BY <1>6, <1>8
    <3>3. next \in {chain'[f][s].member : s \in InUseOf(f)'}
      BY <1>3, <1>4, <1>8
    <3> QED
      BY <3>1, <3>2, <3>3
  <2>2. {k \in SeenOf(f)' : members[k].metric = lowest[f]} =
          {k \in SeenOf(f) : members[k].metric = lowest[f]} \cup {next}
    BY <1>1
  <2> QED
    BY <2>1, <2>2 DEF FamilyOK, UsedOK, J, c
<1>13. ReachOK(f)'
  <2>1. CASE J = {}
    <3>1. t = members[next].weight
      BY <2>1, <1>2 DEF FamilyOK, TotalOK, J, c
    <3>2. chain'[f][1].total = members[chain'[f][1].member].weight
      BY <3>1, <1>3, <1>4
    <3> QED
      BY <3>2, <1>8 DEF ReachOK
  <2>2. CASE J # {}
    <3>1. PICK r \in J : c[r].total = members[c[r].member].weight
      BY <2>2 DEF FamilyOK, ReachOK, J, c
    <3>2. r + 1 \in InUseOf(f)' /\ chain'[f][r + 1] = c[r]
      BY <1>6, <1>8
    <3> QED
      BY <3>1, <3>2 DEF ReachOK
  <2> QED
    BY <2>1, <2>2, SMTT(30)
<1> QED
  BY <1>9, <1>10, <1>11, <1>12, <1>13 DEF FamilyOK

\* Offline, while no member is in use: one more rule in front of last_resort.
LEMMA FamilyBypassed ==
    ASSUME TypeOK, UNCHANGED <<members, state>>, NEW f \in Families, FamilyOK(f), Rebuilding(f),
           next \in 1..Len(members), next' = next + 1, next \notin Candidates(f),
           state[members[next].iface] = "offline", InUseOf(f) = {},
           lowest'[f] = lowest[f], total'[f] = total[f], chain'[f] = <<Out(next)>> \o chain[f]
    PROVE  FamilyOK(f)'
<1>1. Seen' = Seen \cup {next} /\ SeenOf(f)' = SeenOf(f)
  BY SeenGrows
<1>2. Out(next) \in Rules /\ Out(next).kind = "out" /\ Out(next).kind \notin InUse /\ Out(next).member = next
  BY RulesTyped DEF Out, InUse
<1>3. /\ chain'[f][1] = Out(next) /\ Len(chain'[f]) = Len(chain[f]) + 1 /\ InUseOf(f)' = {}
      /\ \A r \in 1..Len(chain[f]) : chain'[f][r + 1] = chain[f][r]
  BY <1>2, PrependInUse
<1>4. OrderOK(f)' /\ TotalOK(f)'
  BY <1>3 DEF OrderOK, TotalOK, FamilyOK
<1>5. LowestOK(f)' /\ UsedOK(f)'
  BY <1>1, <1>3 DEF LowestOK, UsedOK, FamilyOK
<1>6. ReachOK(f)'
  <2>1. Len(chain[f]) \in Nat \ {0} /\ chain[f][Len(chain[f])] = LastResort
    BY DEF FamilyOK, ReachOK, TypeOK
  <2>2. chain'[f][Len(chain'[f])] = LastResort
    BY <2>1, <1>3
  <2>3. ASSUME NEW s \in 1..Len(chain'[f]) - 1
        PROVE  chain'[f][s].kind = "out" /\ state[members[chain'[f][s].member].iface] = "offline"
    <3>1. CASE s = 1
      BY <3>1, <1>2, <1>3
    <3>2. CASE s # 1
      <4>1. s - 1 \in 1..Len(chain[f]) - 1 /\ s - 1 \in 1..Len(chain[f]) /\ (s - 1) + 1 = s
        BY <2>1, <3>2, <1>3
      <4>2. chain'[f][s] = chain[f][s - 1]
        BY <4>1, <1>3
      <4> QED
        BY <4>1, <4>2 DEF FamilyOK, ReachOK
    <3> QED
      BY <3>1, <3>2
  <2>4. Len(chain'[f]) > 0
    BY <2>1, <1>3
  <2> QED
    BY <2>2, <2>3, <2>4, <1>3, Zenon DEF ReachOK
<1> QED
  BY <1>4, <1>5, <1>6 DEF FamilyOK

-----------------------------------------------------------------------------
(* The inductive invariant and what follows from it.                       *)

LEMMA InitIInv == Init => IInv
<1> SUFFICES ASSUME Init PROVE IInv
  OBVIOUS
<1>1. TypeOK /\ Fresh
  BY InitTyped DEF Init, Fresh
<1>2. \A f \in Families : InUseOf(f) = {} /\ total[f] = 0 /\ ~Rebuilding(f)
  BY DEF Init, InUseOf, Rebuilding
<1>3. \A f \in Families : FamilyOK(f)
  BY <1>2 DEF FamilyOK, OrderOK, TotalOK
<1> QED
  BY <1>1, <1>3 DEF IInv

LEMMA NextIInv == IInv /\ [Next]_vars => IInv'
<1> SUFFICES ASSUME IInv, [Next]_vars PROVE IInv'
  OBVIOUS
<1>1. TypeOK /\ Fresh /\ TypeOK' /\ \A f \in Families : FamilyOK(f)
  BY NextTyped, SMTT(30) DEF IInv
<1>2. Fresh'
  BY <1>1 DEF Fresh, Next, Refuse, Begin, Ignored, Better, Equal, Worse, Abort, Offline, Finish, Advance, vars
<1> SUFFICES ASSUME NEW f \in Families PROVE FamilyOK(f)'
  BY <1>1, <1>2 DEF IInv
<1> USE <1>1
<1>3. CASE Refuse \/ Finish \/ UNCHANGED vars
  <2>1. UNCHANGED <<members, state, noIPv6, next, chain, lowest, total>> /\ (Rebuilding(f)' => Rebuilding(f))
    BY <1>3 DEF Refuse, Finish, vars, Rebuilding, Managed
  <2> QED
    BY <2>1, FamilyKept DEF Seen, SeenOf, Candidates
<1>4. CASE Begin
  <2>1. /\ UNCHANGED <<members, state, noIPv6, next, lowest, total>> /\ next = 1
        /\ chain'[f] = IF Managed(f) THEN <<LastResort>> ELSE <<>>
        /\ lowest[f] = Lowest /\ total[f] = 0
    BY <1>4 DEF Begin, Fresh, TypeOK
  <2>2. InUseOf(f)' = {} /\ Seen' = {}
    BY <2>1 DEF InUseOf, LastResort, InUse, Seen
  <2>3. OrderOK(f)' /\ TotalOK(f)'
    BY <2>1, <2>2 DEF OrderOK, TotalOK
  <2>4. LowestOK(f)' /\ UsedOK(f)'
    BY <2>1, <2>2, PolicyAssumption DEF LowestOK, UsedOK, SeenOf
  <2>5. Rebuilding(f)' => ReachOK(f)'
    BY <2>1, <2>2 DEF Rebuilding, Managed, ReachOK
  <2> QED
    BY <2>3, <2>4, <2>5 DEF FamilyOK
<1>5. ASSUME Advance, UNCHANGED <<members, state, noIPv6>>
      PROVE  /\ next \in 1..Len(members) /\ next' = next + 1 /\ pc = "members"
             /\ Seen \subseteq Seen' /\ (Managed(f)' <=> Managed(f))
             /\ SeenOf(f)' = IF next \in Candidates(f) THEN SeenOf(f) \cup {next} ELSE SeenOf(f)
             /\ next \in Candidates(f) <=> Online(next, f)
  <2>1. next \in 1..Len(members) /\ next' = next + 1 /\ pc = "members"
    BY <1>5 DEF Advance, TypeOK
  <2>2. members[next].iface \in Ifaces \cup {None} /\ members[next].metric \in Nat
    BY <2>1, RulesTyped DEF Members
  <2>3. next \in Candidates(f) <=> Online(next, f)
    BY <2>1, <2>2, PolicyAssumption DEF Candidates, Online, Eligible
  <2> QED
    BY <1>5, <2>1, <2>3, SeenGrows DEF Managed
<1>6. CASE Ignored
  <2>1. ~Online(next, f) /\ UNCHANGED <<members, state, noIPv6, pc, chain, lowest, total>> /\ Advance
    BY <1>6 DEF Ignored, Online
  <2> QED
    BY <2>1, <1>5, FamilyKept DEF Rebuilding
<1>7. ASSUME NEW g \in Families, Online(next, g)
      PROVE  Online(next, f) <=> f = g
  BY <1>7 DEF Online
<1>8. CASE Better
  <2>1. PICK g \in Families :
          /\ Online(next, g) /\ Managed(g) /\ members[next].metric < lowest[g]
          /\ chain'  = [chain EXCEPT ![g] = <<Certain(next)>>]
          /\ lowest' = [lowest EXCEPT ![g] = members[next].metric]
          /\ total'  = [total EXCEPT ![g] = members[next].weight]
    BY <1>8, Zenon DEF Better
  <2>2. Advance /\ UNCHANGED <<members, state, noIPv6, pc>>
    BY <1>8 DEF Better
  <2>3. CASE f = g
    <3>1. /\ chain'[f] = <<Certain(next)>> /\ lowest'[f] = members[next].metric
          /\ total'[f] = members[next].weight
      BY <2>1, <2>3 DEF TypeOK
    <3>2. next \in Candidates(f) /\ Rebuilding(f)
      BY <2>1, <2>2, <2>3, <1>5 DEF Rebuilding
    <3> QED
      BY <2>1, <2>2, <2>3, <3>1, <3>2, <1>5, FamilyReplaced
  <2>4. CASE f # g
    <3>1. chain'[f] = chain[f] /\ lowest'[f] = lowest[f] /\ total'[f] = total[f]
      BY <2>1, <2>4 DEF TypeOK
    <3>2. next \notin Candidates(f)
      BY <2>1, <2>2, <2>4, <1>5, <1>7
    <3> QED
      BY <2>2, <3>1, <3>2, <1>5, FamilyKept DEF Rebuilding
  <2> QED
    BY <2>3, <2>4
<1>9. CASE Equal
  <2>1. PICK g \in Families :
          /\ Online(next, g) /\ Managed(g) /\ members[next].metric = lowest[g]
          /\ total' = [total EXCEPT ![g] = @ + members[next].weight]
          /\ chain' = [chain EXCEPT ![g] = <<Shared(next, total'[g])>> \o @]
    BY <1>9, Zenon DEF Equal
  <2>2. Advance /\ UNCHANGED <<members, state, noIPv6, pc, lowest>>
    BY <1>9 DEF Equal
  <2>3. CASE f = g
    <3> DEFINE t == total[f] + members[next].weight
    <3>1. total'[f] = t
      BY <2>1, <2>3 DEF TypeOK
    <3>2. chain'[f] = <<Shared(next, t)>> \o chain[f]
      BY <2>1, <2>3, <3>1 DEF TypeOK
    <3>3. next \in Candidates(f) /\ Rebuilding(f) /\ lowest'[f] = lowest[f]
      BY <2>1, <2>2, <2>3, <1>5 DEF Rebuilding
    <3> QED
      BY <2>1, <2>2, <2>3, <3>1, <3>2, <3>3, <1>5, FamilyShared
  <2>4. CASE f # g
    <3>1. chain'[f] = chain[f] /\ lowest'[f] = lowest[f] /\ total'[f] = total[f]
      BY <2>1, <2>2, <2>4 DEF TypeOK
    <3>2. next \notin Candidates(f)
      BY <2>1, <2>2, <2>4, <1>5, <1>7
    <3> QED
      BY <2>2, <3>1, <3>2, <1>5, FamilyKept DEF Rebuilding
  <2> QED
    BY <2>3, <2>4
\* A worse member is seen and stays out.
<1>10. CASE Worse
  <2>1. PICK g \in Families : Online(next, g) /\ Managed(g) /\ members[next].metric > lowest[g]
    BY <1>10 DEF Worse
  <2>2. Advance /\ UNCHANGED <<members, state, noIPv6, pc, chain, lowest, total>>
    BY <1>10 DEF Worse
  <2>3. CASE f = g
    <3>1. /\ InUseOf(f)' = InUseOf(f) /\ Seen \subseteq Seen' /\ SeenOf(f)' = SeenOf(f) \cup {next}
          /\ Rebuilding(f)
      BY <2>1, <2>2, <2>3, <1>5 DEF InUseOf, Rebuilding
    <3>2. OrderOK(f)' /\ TotalOK(f)' /\ ReachOK(f)'
      BY <2>2, <3>1 DEF FamilyOK, OrderOK, TotalOK, ReachOK
    <3>3. members[next].metric \in Nat /\ lowest[f] \in Nat
      BY <2>2, <1>5, RulesTyped DEF TypeOK
    <3>4. LowestOK(f)' /\ UsedOK(f)'
      BY <2>1, <2>2, <2>3, <3>1, <3>3 DEF FamilyOK, LowestOK, UsedOK
    <3> QED
      BY <3>2, <3>4 DEF FamilyOK
  <2>4. CASE f # g
    <3>1. next \notin Candidates(f)
      BY <2>1, <2>2, <2>4, <1>5, <1>7
    <3> QED
      BY <2>2, <3>1, <1>5, FamilyKept DEF Rebuilding
  <2> QED
    BY <2>3, <2>4
<1>11. CASE Abort
  <2>1. Advance /\ UNCHANGED <<members, state, noIPv6, chain, lowest, total>> /\ ~Rebuilding(f)'
    BY <1>11 DEF Abort, Rebuilding
  <2> QED
    BY <2>1, <1>5, FamilyKept
<1>12. CASE Offline
  <2> DEFINE g == Family[members[next].iface]
  <2>1. /\ Advance /\ UNCHANGED <<members, state, noIPv6, pc, lowest, total>>
        /\ ~Online(next, f) /\ members[next].iface # None
    BY <1>12 DEF Offline, Online, Eligible
  <2>2. g \in Families
    BY <2>1, <1>5, RulesTyped, PolicyAssumption DEF Members
  <2>3. CASE chain'[f] = chain[f]
    BY <2>1, <2>3, <1>5, FamilyKept, SMTT(30) DEF Rebuilding
  <2>4. CASE chain'[f] # chain[f]
    <3>1. /\ state[members[next].iface] = "offline" /\ Managed(g)
          /\ \A r \in 1..Len(chain[g]) : chain[g][r].kind \notin InUse
          /\ chain' = [chain EXCEPT ![g] = <<Out(next)>> \o @]
      BY <1>12, <2>4 DEF Offline
    <3>2. f = g
      BY <2>4, <3>1, SMTT(30) DEF TypeOK
    <3>3. InUseOf(f) = {} /\ chain'[f] = <<Out(next)>> \o chain[f]
      BY <2>2, <3>1, <3>2 DEF InUseOf, TypeOK
    <3>4. Rebuilding(f) /\ next \notin Candidates(f)
      BY <2>1, <3>1, <3>2, <1>5 DEF Rebuilding
    <3> QED
      BY <2>1, <3>1, <3>3, <3>4, <1>5, FamilyBypassed
  <2> QED
    BY <2>3, <2>4
<1> QED
  BY <1>3, <1>4, <1>6, <1>8, <1>9, <1>10, <1>11, <1>12 DEF Next

LEMMA Invariance == Spec => []IInv
  BY InitIInv, NextIInv, PTL DEF Spec

(***************************************************************************)
(* Types, for every configuration.                                         *)
(***************************************************************************)
THEOREM TypeCorrect == Spec => []TypeOK
  BY InitTyped, NextTyped, PTL DEF Spec

(***************************************************************************)
(* Whatever members a policy lists in whatever order, the online ones of   *)
(* the lowest metric are in use, each once, and no others.                 *)
(***************************************************************************)
THEOREM BestInUse == Spec => []BestAreInUse
<1>1. IInv => BestAreInUse
  <2> SUFFICES ASSUME IInv, NEW f \in Families, Rebuilding(f)
               PROVE  /\ {chain[f][r].member : r \in InUseOf(f)} = Best(SeenOf(f))
                      /\ \A r, s \in InUseOf(f) : r < s => chain[f][r].member > chain[f][s].member
    BY DEF BestAreInUse, Rebuilding, SeenOf
  <2>1. OrderOK(f) /\ LowestOK(f) /\ UsedOK(f) /\ TypeOK
    BY DEF IInv, FamilyOK
  <2>2. \A k \in SeenOf(f) : members[k].metric \in Nat /\ members[k].metric <= Lowest
    BY <2>1, RulesTyped DEF SeenOf, Candidates
  <2>3. lowest[f] \in Nat /\ Lowest \in Nat
    BY <2>1, PolicyAssumption DEF TypeOK
  <2>4. Best(SeenOf(f)) = {k \in SeenOf(f) : members[k].metric = lowest[f]}
    <3>1. ASSUME NEW k \in SeenOf(f), members[k].metric = lowest[f],
                 NEW j \in SeenOf(f)
          PROVE  members[k].metric <= members[j].metric
      BY <2>1, <3>1 DEF LowestOK
    <3>2. ASSUME NEW k \in SeenOf(f), \A j \in SeenOf(f) : members[k].metric <= members[j].metric
          PROVE  members[k].metric = lowest[f]
      BY <2>1, <2>2, <2>3, <3>2 DEF LowestOK
    <3> QED
      BY <3>1, <3>2 DEF Best
  <2> QED
    BY <2>1, <2>4 DEF OrderOK, UsedOK
<1> QED
  BY <1>1, Invariance, PTL

(***************************************************************************)
(* The totals behind the probabilities telescope.                          *)
(***************************************************************************)
THEOREM TotalsAddUp == Spec => []TotalsTelescope
<1>1. IInv => TotalsTelescope
  BY DEF IInv, FamilyOK, TotalOK, TotalsTelescope
<1> QED
  BY <1>1, Invariance, PTL

(***************************************************************************)
(* No connection gets past the members in use, and without one last_resort *)
(* is reached.                                                             *)
(***************************************************************************)
THEOREM ChainIsTight == Spec => []NothingLeaks
<1>1. IInv => NothingLeaks
  <2> SUFFICES ASSUME IInv, NEW f \in Families, Rebuilding(f)
               PROVE  LET c == chain[f] IN
                      IF InUseOf(f) # {}
                      THEN \E r \in InUseOf(f) : 1..r \subseteq InUseOf(f) /\ Probability(c[r]) = 1000
                      ELSE /\ c[Len(c)] = LastResort
                           /\ \A r \in 1..Len(c) - 1 :
                                c[r].kind = "out" /\ state[members[c[r].member].iface] = "offline"
    BY Zenon DEF NothingLeaks, Rebuilding
  <2>1. OrderOK(f) /\ UsedOK(f) /\ ReachOK(f) /\ TypeOK
    BY DEF IInv, FamilyOK
  <2>2. ASSUME NEW r \in InUseOf(f), chain[f][r].total = members[chain[f][r].member].weight
        PROVE  Probability(chain[f][r]) = 1000
    <3> DEFINE w == members[chain[f][r].member].weight
    <3>1. w \in Nat \ {0}
      BY <2>1, RulesTyped DEF UsedOK, SeenOf, Candidates
    <3>2. (w * 1000) \div w = 1000
      BY <3>1
    <3> QED
      BY <2>2, <3>2 DEF Probability
  <2> QED
    BY <2>1, <2>2 DEF OrderOK, ReachOK
<1> QED
  BY <1>1, Invariance, PTL

-----------------------------------------------------------------------------
(***************************************************************************)
(* The shares.  A rule sees what the rules before it left, rounded at      *)
(* every one of them; along a chain of any length the errors stay within a *)
(* thousandth per rule, because what is left shrinks with them.            *)
(***************************************************************************)
\* Induction over 0..n, from the least number that is left out.
LEMMA UpTo ==
  ASSUME NEW n \in Nat, NEW T, 0 \in T, \A m \in 0..n : m \in T /\ m < n => m + 1 \in T
  PROVE  \A m \in 0..n : m \in T
<1> DEFINE U == { m \in 0..n : m \notin T }
           R == OpToRel(<, Nat)
<1> SUFFICES ASSUME U # {} PROVE FALSE
  OBVIOUS
<1>1. IsWellFoundedOn(R, Nat)
  BY NatLessThanWellFounded
<1>2. U \subseteq Nat
  OBVIOUS
<1>3. PICK x \in U : \A y \in U : <<y, x>> \notin R
  <2> HIDE DEF R, U
  <2> QED
    BY <1>1, <1>2, WFMin
<1>4. x \in 0..n /\ x \notin T /\ x # 0
  OBVIOUS
<1> HIDE DEF R, U
<1>5. x \in 1..n /\ x - 1 \in 0..n /\ x - 1 < n /\ x - 1 \in Nat /\ x \in Nat /\ x - 1 < x
  BY <1>4
<1>6. <<x - 1, x>> \in R
  BY <1>5 DEF OpToRel, R
<1>7. x - 1 \in T
  BY <1>3, <1>5, <1>6 DEF U
<1>8. (x - 1) + 1 \in T
  BY <1>5, <1>7
<1> QED
  BY <1>4, <1>5, <1>8

\* What a division, a product and a common factor do.
LEMMA Quotient ==
    ASSUME NEW a \in Nat, NEW b \in Nat \ {0}
    PROVE  /\ a \div b \in Nat /\ b * (a \div b) <= a /\ a < b * (a \div b) + b
  BY SMT

LEMMA Products ==
    ASSUME NEW a \in Nat, NEW b \in Nat, NEW c \in Nat, a <= b
    PROVE  a * c <= b * c /\ a * c \in Nat /\ b * c \in Nat
  BY SMT

LEMMA Cancel ==
    ASSUME NEW a \in Int, NEW b \in Int, NEW c \in Nat \ {0}, a * c <= b * c
    PROVE  a <= b
  BY SMT

\* A rule with weight w of a total T takes its part of the R millionths that
\* reach it, less rounding: at most a thousandth.
LEMMA ShareTaken ==
    ASSUME NEW R \in Nat, NEW w \in Nat, NEW T \in Nat \ {0}, w <= T,
           R = 1000000 \/ R <= 999000
    PROVE  LET P == (w * 1000) \div T
               k == (R * P) \div 1000
           IN /\ P \in Nat /\ k \in Nat /\ k <= R
              /\ k * T <= R * w /\ R * w <= k * T + 1000 * T
              /\ (R - k = 1000000 \/ R - k <= 999000)
<1> DEFINE P == (w * 1000) \div T
           k == (R * P) \div 1000
<1>1. P \in Nat /\ T * P <= w * 1000 /\ w * 1000 < T * P + T
  <2>1. w * 1000 \in Nat
    BY SMT
  <2> QED
    BY <2>1, Quotient, SMT
<1> HIDE DEF P
<1>2. R * P \in Nat
  BY <1>1, SMT
<1>3. k \in Nat /\ 1000 * k <= R * P /\ R * P < 1000 * k + 1000
  BY <1>2, SMT
<1> HIDE DEF k
<1>4. k * T <= R * w
  <2> DEFINE a == k * T
             b == R * w
             x == (R * P) * T
  <2>0. a \in Nat /\ b \in Nat /\ x \in Nat
    BY <1>2, <1>3, SMT
  <2>1. 1000 * a <= x
    <3>1. (1000 * k) * T <= (R * P) * T
      BY <1>2, <1>3, Products, SMT
    <3>2. (1000 * k) * T = 1000 * (k * T)
      BY <1>3, SMT
    <3> QED
      BY <3>1, <3>2, SMT
  <2>2. x <= 1000 * b
    <3>1. (T * P) * R <= (w * 1000) * R
      <4>1. T * P \in Nat /\ w * 1000 \in Nat
        BY <1>1, SMT
      <4> QED
        BY <1>1, <4>1, Products, SMT
    <3>2. (R * P) * T = (T * P) * R /\ (w * 1000) * R = 1000 * (R * w)
      BY <1>1, SMT
    <3> QED
      BY <3>1, <3>2, SMT
  <2> HIDE DEF a, b, x
  <2>3. a <= b
    BY <2>0, <2>1, <2>2, SMT
  <2> QED
    BY <2>3, SMT DEF a, b
<1>5. R * w <= k * T + 1000 * T
  <2>0. k * T \in Nat /\ R * w \in Nat /\ T * P \in Nat /\ R * T \in Nat
    BY <1>1, <1>3, SMT
  <2>1. CASE R = 1000000
    <3>1. k = 1000 * P
      BY <1>1, <1>3, <2>1, SMT
    <3>2. k * T = 1000 * (T * P)
      BY <1>1, <3>1, SMT
    <3>3. R * w = 1000 * (w * 1000)
      BY <2>1, SMT
    <3> QED
      BY <1>1, <2>0, <3>2, <3>3, SMT
  <2>2. CASE R <= 999000
    <3>1. (w * 1000) * R <= (T * P + T) * R
      <4>1. w * 1000 \in Nat /\ T * P + T \in Nat /\ w * 1000 <= T * P + T
        BY <1>1, <2>0, SMT
      <4> QED
        BY <4>1, Products, SMT
    <3>2. (R * P) * T <= (1000 * k + 1000) * T
      <4>1. 1000 * k + 1000 \in Nat /\ R * P <= 1000 * k + 1000
        BY <1>2, <1>3, SMT
      <4> QED
        BY <1>2, <4>1, Products, SMT
    <3>3. R * T <= 999000 * T
      BY <2>2, Products, SMT
    <3>4. /\ (w * 1000) * R = 1000 * (R * w)
          /\ (T * P + T) * R = (R * P) * T + R * T
          /\ (1000 * k + 1000) * T = 1000 * (k * T) + 1000 * T
      BY <1>1, <1>3, SMT
    <3>5. (R * P) * T \in Nat
      BY <1>2, SMT
    <3> QED
      BY <2>0, <3>1, <3>2, <3>3, <3>4, <3>5, SMT
  <2> QED
    BY <2>1, <2>2, SMT
<1>6. k <= R
  <2>1. w * R <= T * R
    BY Products, SMT
  <2>2. k * T <= R * T
    BY <1>3, <1>4, <2>1, SMT
  <2> QED
    BY <1>3, <2>2, Cancel, SMT
<1>7. R - k = 1000000 \/ R - k <= 999000
  <2>1. CASE R = 1000000
    <3>1. k = 1000 * P
      BY <1>1, <1>3, <2>1, SMT
    <3> QED
      BY <1>1, <2>1, <3>1, SMT
  <2>2. CASE R <= 999000
    BY <1>3, <2>2, SMT
  <2> QED
    BY <2>1, <2>2, SMT
<1> QED
  BY <1>1, <1>3, <1>4, <1>5, <1>6, <1>7, SMT DEF P, k

\* The next rule sees its part of all connections again, and the rounding
\* errors add up, one per rule.
LEMMA ReachedNext ==
    ASSUME NEW R \in Nat, NEW w \in Nat \ {0}, NEW T \in Nat, NEW T1 \in Nat \ {0}, NEW n \in Nat,
           NEW k \in Nat, w <= T, k <= R,
           k * T <= R * w, R * w <= k * T + 1000 * T,
           1000000 * T <= R * T1, R * T1 <= 1000000 * T + (1000 * n) * T1
    PROVE  /\ 1000000 * (T - w) <= (R - k) * T1
           /\ (R - k) * T1 <= 1000000 * (T - w) + (1000 * (n + 1)) * T1
           /\ 1000000 * w <= k * T1 + 1000 * T1
           /\ k * T1 <= 1000000 * w + (1000 * n) * T1
<1> DEFINE U == T - w
           S == R - k
           A == R * T1
           N == (1000 * n) * T1
<1>0. /\ U \in Nat /\ S \in Nat /\ A \in Nat /\ N \in Nat /\ T \in Nat \ {0}
      /\ k * T \in Nat /\ R * w \in Nat /\ R * U \in Nat /\ S * T \in Nat
      /\ R * U = R * T - R * w /\ S * T = R * T - k * T
  BY SMT
<1>1. R * U <= S * T /\ S * T <= R * U + 1000 * T
  BY <1>0, SMT
<1>2. 1000000 * T <= A /\ A <= 1000000 * T + N
  BY SMT
<1>3. (R * U) * T1 = A * U /\ (R * w) * T1 = A * w
  BY <1>0, SMT
<1>4. /\ (S * T) * T1 = (S * T1) * T /\ (k * T) * T1 = (k * T1) * T
      /\ S * T1 \in Nat /\ k * T1 \in Nat
  BY <1>0, SMT
<1> HIDE DEF A, N, U, S
<1>5. 1000000 * U <= S * T1
  <2> DEFINE a == (1000000 * U) * T
             b == (S * T1) * T
             x == A * U
  <2>0. a \in Nat /\ b \in Nat /\ x \in Nat
    BY <1>0, <1>4, SMT
  <2>1. a <= x
    <3>1. (1000000 * T) * U <= A * U
      BY <1>0, <1>2, Products, SMT
    <3>2. (1000000 * T) * U = (1000000 * U) * T
      BY <1>0, SMT
    <3> QED
      BY <3>1, <3>2, SMT
  <2>2. x <= b
    <3>1. (R * U) * T1 <= (S * T) * T1
      BY <1>0, <1>1, Products, SMT
    <3> QED
      BY <1>3, <1>4, <3>1, SMT
  <2>3. a <= b
    <3> HIDE DEF a, b, x
    <3> QED
      BY <2>0, <2>1, <2>2, SMT
  <2>4. 1000000 * U \in Int
    BY <1>0, SMT
  <2> QED
    BY <1>0, <1>4, <2>3, <2>4, Cancel, SMT
<1>6. S * T1 <= 1000000 * U + (N + 1000 * T1)
  <2> DEFINE y == 1000000 * U + (N + 1000 * T1)
             a == (S * T1) * T
             v == A * U
             z == (1000 * T) * T1
             p == (1000000 * U) * T
             q == N * U
             r == N * T
             g == (1000 * T1) * T
  <2>0. /\ y \in Nat /\ a \in Nat /\ v \in Nat /\ z \in Nat /\ p \in Nat /\ q \in Nat
        /\ r \in Nat /\ g \in Nat
    BY <1>0, <1>4, SMT
  <2>1. a <= v + z
    <3>1. (S * T) * T1 <= (R * U + 1000 * T) * T1
      <4>1. R * U + 1000 * T \in Nat
        BY <1>0, SMT
      <4> QED
        BY <1>0, <1>1, <4>1, Products, SMT
    <3>2. (R * U + 1000 * T) * T1 = (R * U) * T1 + (1000 * T) * T1
      BY <1>0, SMT
    <3> QED
      BY <1>3, <1>4, <3>1, <3>2, SMT
  <2>2. v <= p + q
    <3>1. A * U <= (1000000 * T + N) * U
      <4>1. 1000000 * T + N \in Nat
        BY <1>0, SMT
      <4> QED
        BY <1>0, <1>2, <4>1, Products, SMT
    <3>2. (1000000 * T + N) * U = (1000000 * U) * T + N * U
      BY <1>0, SMT
    <3> QED
      BY <3>1, <3>2, SMT
  <2>3. q <= r
    <3>1. U * N <= T * N
      BY <1>0, Products, SMT DEF U
    <3> QED
      BY <1>0, <3>1, SMT
  <2>4. z = g /\ y * T = p + (r + g)
    BY <1>0, SMT
  <2>5. a <= y * T
    <3> HIDE DEF a, v, z, p, q, r, g, y
    <3> QED
      BY <2>0, <2>1, <2>2, <2>3, <2>4, SMT
  <2> HIDE DEF y
  <2> QED
    BY <1>0, <1>4, <2>0, <2>5, Cancel, SMT DEF y
<1>7. 1000000 * w <= k * T1 + 1000 * T1
  <2> DEFINE y == k * T1 + 1000 * T1
             x == 1000000 * w
             v == A * w
  <2>0. y \in Nat /\ x \in Nat /\ v \in Nat /\ x * T \in Nat /\ y * T \in Nat
    BY <1>0, <1>4, SMT
  <2>1. x * T <= v
    <3>1. (1000000 * T) * w <= A * w
      BY <1>0, <1>2, Products, SMT
    <3>2. (1000000 * T) * w = (1000000 * w) * T
      BY <1>0, SMT
    <3> QED
      BY <3>1, <3>2, SMT
  <2>2. v <= y * T
    <3>1. (R * w) * T1 <= (k * T + 1000 * T) * T1
      <4>1. k * T + 1000 * T \in Nat
        BY <1>0, SMT
      <4> QED
        BY <1>0, <4>1, Products, SMT
    <3>2. (k * T + 1000 * T) * T1 = (k * T1 + 1000 * T1) * T
      BY <1>0, SMT
    <3> QED
      BY <1>3, <3>1, <3>2, SMT
  <2>3. x * T <= y * T
    <3> HIDE DEF x, y, v
    <3> DEFINE a == x * T
               b == y * T
    <3>1. a \in Nat /\ b \in Nat /\ v \in Nat /\ a <= v /\ v <= b
      BY <2>0, <2>1, <2>2, SMT
    <3> HIDE DEF a, b
    <3>2. a <= b
      BY <3>1, SMT
    <3> QED
      BY <3>2, SMT DEF a, b
  <2> HIDE DEF x, y
  <2>4. x <= y
    BY <1>0, <2>0, <2>3, Cancel, SMT
  <2> QED
    BY <2>4, SMT DEF x, y
<1>8. k * T1 <= 1000000 * w + N
  <2> DEFINE y == 1000000 * w + N
             x == k * T1
             v == A * w
             p == (1000000 * w) * T
             q == N * w
             r == N * T
  <2>0. /\ y \in Nat /\ x \in Nat /\ v \in Nat /\ x * T \in Nat /\ y * T \in Nat
        /\ p \in Nat /\ q \in Nat /\ r \in Nat
    BY <1>0, <1>4, SMT
  <2>1. x * T <= v
    <3>1. (k * T) * T1 <= (R * w) * T1
      BY <1>0, Products, SMT
    <3> QED
      BY <1>3, <1>4, <3>1, SMT
  <2>2. v <= p + q
    <3>1. A * w <= (1000000 * T + N) * w
      <4>1. 1000000 * T + N \in Nat
        BY <1>0, SMT
      <4> QED
        BY <1>0, <1>2, <4>1, Products, SMT
    <3>2. (1000000 * T + N) * w = (1000000 * w) * T + N * w
      BY <1>0, SMT
    <3> QED
      BY <3>1, <3>2, SMT
  <2>3. q <= r
    <3>1. w * N <= T * N
      BY <1>0, Products, SMT
    <3> QED
      BY <1>0, <3>1, SMT
  <2>4. y * T = p + r
    BY <1>0, SMT
  <2>5. x * T <= y * T
    <3> DEFINE a == x * T
               b == y * T
    <3>1. /\ a \in Nat /\ b \in Nat /\ v \in Nat /\ a <= v /\ v <= p + q /\ q <= r /\ b = p + r
          /\ p \in Nat /\ q \in Nat /\ r \in Nat
      BY <2>0, <2>1, <2>2, <2>3, <2>4, SMT
    <3> HIDE DEF a, b, x, y, v, p, q, r
    <3>2. a <= b
      BY <3>1, SMT
    <3> QED
      BY <3>2, SMT DEF a, b
  <2> HIDE DEF x, y
  <2>6. x <= y
    BY <1>0, <2>0, <2>5, Cancel, SMT
  <2> QED
    BY <2>6, SMT DEF x, y
<1>9. (1000 * (n + 1)) * T1 = N + 1000 * T1
  BY SMT DEF N
<1> QED
  BY <1>5, <1>6, <1>7, <1>8, <1>9, SMT DEF U, S, N

\* A rule with n rules before it takes k, near its part of the weights; the
\* properties allow it that much in a chain of l rules.
Near(k, w, T1, n) == 1000000 * w <= k * T1 + 1000 * T1 /\ k * T1 <= 1000000 * w + (1000 * n) * T1
Told(k, w, T1, l) ==
    /\ Distance(k * T1, w * 1000000) <= (l * 1000) * T1
    /\ Distance(k, ((w * 100) \div T1) * 10000) <= 10000 + l * 1000

\* A share near its part is near the percentage that is printed.
LEMMA ReportedShare ==
    ASSUME NEW k \in Nat, NEW w \in Nat, NEW T1 \in Nat \ {0}, NEW n \in Nat, NEW l \in Nat, n < l,
           Near(k, w, T1, n)
    PROVE  Told(k, w, T1, l)
<1> DEFINE q == (w * 100) \div T1
           x == k * T1
           N == (1000 * n) * T1
           L == (l * 1000) * T1
           v == 1000000 * w
<1>1. q \in Nat /\ T1 * q <= w * 100 /\ w * 100 < T1 * q + T1
  <2>1. w * 100 \in Nat
    BY SMT
  <2> QED
    BY <2>1, Quotient
<1>2. x \in Nat /\ N \in Nat /\ L \in Nat /\ v \in Nat /\ l >= 1
  BY SMT
<1>3. N <= L /\ 1000 * T1 <= L
  <2>1. 1000 * n <= l * 1000 /\ 1000 <= l * 1000
    BY SMT
  <2>2. 1000 * n \in Nat /\ l * 1000 \in Nat
    BY SMT
  <2> QED
    BY <2>1, <2>2, Products, SMT
<1>4. v <= x + 1000 * T1 /\ x <= v + N
  BY SMT DEF Near
<1>5. Distance(x, v) <= L
  <2> HIDE DEF x, v, N, L
  <2> QED
    BY <1>2, <1>3, <1>4, SMT DEF Distance
<1> HIDE DEF q
<1> DEFINE p == T1 * q
<1>6. p \in Nat /\ p <= w * 100 /\ w * 100 < p + T1
  BY <1>1, SMT
<1>7. k <= 10000 * q + 10000 + 1000 * n
  <2> DEFINE y == 10000 * q + 10000 + 1000 * n
  <2>1. y * T1 = 10000 * p + 10000 * T1 + N
    BY <1>1, SMT
  <2>2. x <= 10000 * p + 10000 * T1 + N
    <3>1. v <= 10000 * p + 10000 * T1
      BY <1>6, SMT
    <3> HIDE DEF x, v, N, p
    <3> QED
      BY <1>2, <1>4, <1>6, <3>1, SMT
  <2>3. k * T1 <= y * T1
    BY <2>1, <2>2, SMT
  <2>4. y \in Int
    BY <1>1, SMT
  <2> HIDE DEF y
  <2>5. k <= y
    BY <2>3, <2>4, Cancel, SMT
  <2> QED
    BY <2>5, SMT DEF y
<1>8. 10000 * q <= k + 1000
  <2>1. 10000 * p <= x + 1000 * T1
    <3>1. 10000 * p <= v
      BY <1>6, SMT
    <3> HIDE DEF x, v, p
    <3> QED
      BY <1>2, <1>4, <1>6, <3>1, SMT
  <2>2. (10000 * q) * T1 = 10000 * p /\ (k + 1000) * T1 = x + 1000 * T1
    BY <1>1, SMT
  <2>3. (10000 * q) * T1 <= (k + 1000) * T1
    BY <2>1, <2>2, SMT
  <2>4. 10000 * q \in Int /\ k + 1000 \in Int
    BY <1>1, SMT
  <2> QED
    BY <2>3, <2>4, Cancel, SMT
<1>9. Distance(k, q * 10000) <= 10000 + l * 1000
  BY <1>1, <1>7, <1>8, SMT DEF Distance
<1> QED
  BY <1>5, <1>9, SMT DEF x, v, L, q, Told

Whole == 1000000

\* What reaches the rules up to the k-th of a chain.
Part(x, p) == (x * p) \div 1000
Step(c, i, x) == x - Part(x, Probability(c[i]))
ReachesTo(c, k, g) ==
    /\ g = [i \in 1..k |-> g[i]] /\ g[1] = Whole
    /\ \A i \in 2..k : g[i] = Step(c, i - 1, g[i - 1])

\* The sequence that the recursive function of Reaching describes exists, so
\* that the function is that sequence.
LEMMA ReachingExists ==
    ASSUME NEW c, NEW k \in Nat \ {0}
    PROVE  \E g : ReachesTo(c, k, g)
<1> DEFINE T == { m \in 0..k - 1 : \E g : ReachesTo(c, m + 1, g) }
<1>1. 0 \in T
  <2> DEFINE g == [i \in 1..1 |-> Whole]
  <2>1. ReachesTo(c, 0 + 1, g)
    BY SMT DEF ReachesTo
  <2> HIDE DEF g
  <2>2. \E h : ReachesTo(c, 0 + 1, h)
    BY <2>1, SMT
  <2> QED
    BY <2>2, SMT
<1>2. ASSUME NEW m \in 0..k - 1, m \in T, m < k - 1 PROVE m + 1 \in T
  <2>1. PICK g : ReachesTo(c, m + 1, g)
    BY <1>2
  <2> DEFINE n == m + 2
             h == [i \in 1..n |-> IF i = n THEN Step(c, n - 1, g[n - 1]) ELSE g[i]]
  <2>2. ReachesTo(c, n, h)
    <3>1. h[1] = Whole
      BY <2>1, SMT DEF ReachesTo
    <3>2. ASSUME NEW i \in 2..n PROVE h[i] = Step(c, i - 1, h[i - 1])
      <4>1. CASE i = n
        <5>1. n \in 1..n /\ n - 1 \in 1..n /\ n - 1 # n
          BY SMT
        <5>2. h[n] = Step(c, n - 1, g[n - 1]) /\ h[n - 1] = g[n - 1]
          BY <5>1
        <5> HIDE DEF h, n
        <5> QED
          BY <4>1, <5>2
      <4>2. CASE i # n
        <5>1. i \in 2..m + 1 /\ i \in 1..n /\ i - 1 \in 1..n /\ i - 1 # n
          BY <4>2, SMT
        <5>2. h[i] = g[i] /\ h[i - 1] = g[i - 1]
          BY <4>2, <5>1, SMT
        <5>3. \A j \in 2..m + 1 : g[j] = Step(c, j - 1, g[j - 1])
          BY <2>1 DEF ReachesTo
        <5>4. g[i] = Step(c, i - 1, g[i - 1])
          BY <5>1, <5>3
        <5> HIDE DEF h
        <5> QED
          BY <5>2, <5>4
      <4> QED
        BY <4>1, <4>2
    <3>3. h = [i \in 1..n |-> h[i]]
      BY SMT
    <3> QED
      BY <3>1, <3>2, <3>3 DEF ReachesTo
  <2> HIDE DEF h
  <2>3. (m + 1) + 1 = n
    BY SMT
  <2> HIDE DEF n
  <2>4. \E f : ReachesTo(c, (m + 1) + 1, f)
    BY <2>2, <2>3
  <2> QED
    BY <1>2, <2>4, SMT
<1> HIDE DEF T
<1>3. k - 1 \in Nat /\ k - 1 \in 0..k - 1 /\ (k - 1) + 1 = k
  BY SMT
<1>4. k - 1 \in T
  BY <1>1, <1>2, <1>3, UpTo
<1> QED
  BY <1>3, <1>4 DEF T

LEMMA ReachingIs ==
    ASSUME NEW c, NEW k \in Nat \ {0}
    PROVE  \E g : ReachesTo(c, k, g) /\ Reaching(c, k) = g[k]
<1> DEFINE reaching[i \in 1..k] ==
             IF i = 1 THEN Whole
             ELSE reaching[i - 1] - (reaching[i - 1] * Probability(c[i - 1])) \div 1000
           Def(f) == [i \in 1..k |-> IF i = 1 THEN Whole ELSE Step(c, i - 1, f[i - 1])]
<1>1. Reaching(c, k) = reaching[k]
  BY SMT DEF Reaching, Whole
<1>2. PICK g : ReachesTo(c, k, g)
  BY ReachingExists
<1>3. g = Def(g)
  <2> DEFINE e(i) == IF i = 1 THEN Whole ELSE Step(c, i - 1, g[i - 1])
  <2>1. /\ g = [i \in 1..k |-> g[i]] /\ g[1] = Whole
        /\ \A i \in 2..k : g[i] = Step(c, i - 1, g[i - 1])
    BY <1>2 DEF ReachesTo
  <2>2. ASSUME NEW i \in 1..k PROVE g[i] = e(i)
    <3>1. i = 1 \/ (i \in 2..k /\ i # 1)
      BY SMT
    <3> QED
      BY <2>1, <3>1, Zenon
  <2>3. Def(g) = [i \in 1..k |-> e(i)]
    OBVIOUS
  <2> HIDE DEF e, Def
  <2>4. [i \in 1..k |-> g[i]] = [i \in 1..k |-> e(i)]
    BY <2>2
  <2> QED
    BY <2>1, <2>3, <2>4, Zenon
<1>4. reaching = CHOOSE f : f = Def(f)
  BY SMT DEF reaching, Step, Part, Whole
<1> HIDE DEF reaching, Def
<1>5. reaching = Def(reaching)
  BY <1>3, <1>4, Zenon
<1> USE DEF Def
<1>6. ReachesTo(c, k, reaching)
  <2>1. reaching = [i \in 1..k |-> reaching[i]]
    BY <1>5, SMT
  <2>2. ASSUME NEW i \in 1..k
        PROVE  reaching[i] = IF i = 1 THEN Whole ELSE Step(c, i - 1, reaching[i - 1])
    BY <1>5, SMT
  <2>3. reaching[1] = Whole
    BY <2>2, SMT
  <2>4. ASSUME NEW i \in 2..k PROVE reaching[i] = Step(c, i - 1, reaching[i - 1])
    <3>1. i \in 1..k /\ i # 1
      BY SMT
    <3> QED
      BY <2>2, <3>1, Zenon
  <2> QED
    BY <2>1, <2>3, <2>4 DEF ReachesTo
<1> QED
  BY <1>1, <1>6

\* What reaches a rule whose total is T, n rules behind the first one: its part,
\* and what rounding has left of each rule before it.
Reaches(R, T, T1, n) ==
    /\ R \in Nat /\ (R = 1000000 \/ R <= 999000)
    /\ 1000000 * T <= R * T1 /\ R * T1 <= 1000000 * T + (1000 * n) * T1

\* A certain rule has the weight of its member for a total.
Certains ==
    \A f \in Families : \A r \in 1..Len(chain[f]) :
        chain[f][r].kind = "certain" => chain[f][r].total = members[chain[f][r].member].weight

LEMMA InitCertains == Init => Certains
  BY DEF Init, Certains

LEMMA NextCertains == IInv /\ Certains /\ [Next]_vars => Certains'
<1> SUFFICES ASSUME IInv, Certains, [Next]_vars PROVE Certains'
  BY SMTT(30)
<1>0. TypeOK /\ UNCHANGED members
  BY DEF IInv, Next, vars, Refuse, Begin, Ignored, Better, Equal, Worse, Abort, Offline, Finish
<1>1. ASSUME NEW f \in Families, NEW x \in Rules, x.kind = "certain" => x.total = members[x.member].weight,
             chain' = [chain EXCEPT ![f] = <<x>> \o @]
      PROVE  Certains'
  <2>1. /\ Len(<<x>> \o chain[f]) = Len(chain[f]) + 1 /\ (<<x>> \o chain[f])[1] = x
        /\ \A r \in 2..Len(chain[f]) + 1 : (<<x>> \o chain[f])[r] = chain[f][r - 1]
        /\ Len(chain[f]) \in Nat
    BY <1>0, PrependedRules DEF TypeOK
  <2> DEFINE d == <<x>> \o chain[f]
  <2> HIDE DEF d
  <2>2. chain'[f] = d /\ \A g \in Families : g # f => chain'[g] = chain[g]
    BY <1>0, <1>1 DEF TypeOK, d
  <2>3. ASSUME NEW r \in 1..Len(d), d[r].kind = "certain"
        PROVE  d[r].total = members[d[r].member].weight
    <3>1. r = 1 \/ (r \in 2..Len(chain[f]) + 1 /\ r - 1 \in 1..Len(chain[f]))
      BY <2>1 DEF d
    <3>2. CASE r = 1
      BY <1>1, <2>1, <2>3, <3>2 DEF d
    <3>3. CASE r \in 2..Len(chain[f]) + 1 /\ r - 1 \in 1..Len(chain[f])
      BY <2>1, <2>3, <3>3 DEF d, Certains
    <3> QED
      BY <3>1, <3>2, <3>3
  <2> QED
    BY <1>0, <2>2, <2>3 DEF Certains
<1>2. CASE UNCHANGED chain
  BY <1>0, <1>2 DEF Certains
<1>3. CASE Begin
  BY <1>0, <1>3 DEF Begin, Certains, LastResort
<1>4. CASE Better
  <2>1. PICK f \in Families : chain' = [chain EXCEPT ![f] = <<Certain(next)>>]
    BY <1>4 DEF Better
  <2>2. <<Certain(next)>> \in Seq({Certain(next)})
    OBVIOUS
  <2>3. chain'[f] = <<Certain(next)>> /\ \A g \in Families : g # f => chain'[g] = chain[g]
    BY <1>0, <2>1 DEF TypeOK
  <2>4. ASSUME NEW r \in 1..Len(chain'[f]) PROVE chain'[f][r] = Certain(next)
    BY <2>3
  <2> QED
    BY <1>0, <2>3, <2>4 DEF Certains, Certain
<1>5. CASE Equal
  <2>1. PICK f \in Families : chain' = [chain EXCEPT ![f] = <<Shared(next, total'[f])>> \o @]
    BY <1>5 DEF Equal
  <2>2. total'[f] \in Nat /\ next \in 1..Len(members)
    <3>1. TypeOK'
      BY <1>0, <1>5, NextTyped DEF Next
    <3>2. next \in Nat \ {0} /\ next <= Len(members)
      BY <1>0, <1>5 DEF TypeOK, Equal, Advance
    <3> QED
      BY <3>1, <3>2 DEF TypeOK
  <2>3. Shared(next, total'[f]) \in Rules /\ Shared(next, total'[f]).kind # "certain"
    BY <1>0, <2>2, RulesTyped DEF Shared
  <2> QED
    BY <1>1, <2>1, <2>3
<1>6. CASE Offline
  <2> DEFINE f == Family[members[next].iface]
  <2>1. UNCHANGED chain \/ chain' = [chain EXCEPT ![f] = <<Out(next)>> \o @]
    BY <1>6 DEF Offline
  <2>2. next \in 1..Len(members)
    BY <1>0, <1>6 DEF Offline, Advance, TypeOK
  <2>3. f \in Families
    BY <1>0, <1>6, <2>2, RulesTyped, PolicyAssumption DEF Offline, Eligible, Members
  <2>4. Out(next) \in Rules /\ Out(next).kind # "certain"
    BY <1>0, <2>2, RulesTyped DEF Out
  <2> QED
    BY <1>1, <1>2, <2>1, <2>3, <2>4
<1> QED
  BY <1>2, <1>3, <1>4, <1>5, <1>6 DEF Next, vars, Refuse, Ignored, Worse, Abort, Finish

\* What reaches a rule in use is its part of the weights, to a thousandth for
\* each rule before it.
LEMMA ShareReaches ==
    ASSUME IInv, Certains, NEW f \in Families, NEW r \in InUseOf(f)
    PROVE  LET c  == chain[f]
               w  == members[c[r].member].weight
               T1 == c[1].total
           IN /\ r \in Nat \ {0} /\ w \in Nat \ {0} /\ T1 \in Nat \ {0} /\ Taken(c, r) \in Nat
              /\ 1000000 * w <= Taken(c, r) * T1 + 1000 * T1
              /\ Taken(c, r) * T1 <= 1000000 * w + (1000 * (r - 1)) * T1
<1> DEFINE c == chain[f]
           w(i) == members[c[i].member].weight
           t(i) == c[i].total
<1>1. TypeOK /\ OrderOK(f) /\ TotalOK(f)
  BY DEF IInv, FamilyOK
<1>2. r \in 1..Len(c) /\ Len(c) \in Nat /\ c \in Seq(Rules)
  BY <1>1 DEF TypeOK, InUseOf
<1>3. ASSUME NEW i \in 1..r
      PROVE  /\ i \in InUseOf(f) /\ w(i) \in Nat \ {0} /\ t(i) \in Nat \ {0} /\ w(i) <= t(i)
             /\ Probability(c[i]) = (w(i) * 1000) \div t(i)
             /\ i < r => t(i) - w(i) = t(i + 1)
  <2>1. i \in InUseOf(f) /\ c[i].member \in Seen /\ (i < r => i + 1 \in InUseOf(f))
    <3>1. i + 1 \in 1..r \/ ~(i < r)
      BY <1>2
    <3> QED
      BY <1>1, <1>2, <3>1 DEF OrderOK
  <2>2. c[i].member \in 1..Len(members)
    BY <1>1, <2>1 DEF Seen, TypeOK
  <2>3. w(i) \in Nat \ {0}
    BY <1>1, <2>2, RulesTyped
  <2>4. \A j \in InUseOf(f) : c[j].total \in Nat /\ c[j].kind \in InUse
    <3>1. \A j \in 1..Len(c) : c[j] \in Rules
      BY <1>2
    <3> QED
      BY <1>2, <3>1 DEF InUseOf, Rules
  <2>5. t(i) = w(i) + IF i + 1 \in InUseOf(f) THEN t(i + 1) ELSE 0
    BY <1>1, <2>1 DEF TotalOK
  <2>6. t(i) \in Nat \ {0} /\ w(i) <= t(i) /\ (i < r => t(i) - w(i) = t(i + 1))
    <3>1. CASE i + 1 \in InUseOf(f)
      <4> HIDE DEF w, t
      <4>1. t(i + 1) \in Nat
        BY <2>4, <3>1 DEF t
      <4> QED
        BY <2>3, <2>5, <3>1, <4>1
    <3>2. CASE i + 1 \notin InUseOf(f)
      BY <2>1, <2>3, <2>5, <3>2
    <3> QED
      BY <3>1, <3>2
  <2>7. Probability(c[i]) = (w(i) * 1000) \div t(i)
    <3>1. CASE c[i].kind = "shared"
      BY <3>1, SMT DEF Probability
    <3>2. CASE c[i].kind = "certain"
      <4>1. t(i) = w(i)
        BY <1>2, <2>1, <3>2 DEF Certains, InUseOf
      <4>2. \A n \in Nat \ {0} : (n * 1000) \div n = 1000
        BY SMT
      <4> QED
        BY <2>3, <3>2, <4>1, <4>2, SMT DEF Probability
    <3> QED
      BY <2>1, <2>4, <3>1, <3>2 DEF InUse
  <2> QED
    BY <2>1, <2>3, <2>6, <2>7
<1>4. r \in Nat \ {0} /\ 1 \in 1..r /\ r \in 1..r
  BY <1>2
<1>5. PICK g : ReachesTo(c, r, g) /\ Reaching(c, r) = g[r]
  BY <1>4, ReachingIs
<1> DEFINE T1 == t(1)
           S == { m \in 0..r - 1 : Reaches(g[m + 1], t(m + 1), T1, m) }
<1>6. T1 \in Nat \ {0}
  BY <1>3, <1>4
<1> HIDE DEF c, w, t, T1
<1>7. 0 \in S
  <2>1. Reaches(Whole, t(1), t(1), 0)
    BY <1>6, SMT DEF Reaches, T1, Whole
  <2>2. g[0 + 1] = Whole /\ 0 + 1 = 1
    BY <1>5, SMT DEF ReachesTo
  <2> QED
    BY <1>4, <2>1, <2>2, SMT DEF T1
<1>8. ASSUME NEW m \in 0..r - 1, m \in S, m < r - 1 PROVE m + 1 \in S
  <2> DEFINE i == m + 1
             R == g[i]
             k == Part(R, Probability(c[i]))
  <2>1. i \in 1..r /\ i < r /\ i + 1 \in 2..r /\ (i + 1) - 1 = i
    BY <1>4, <1>8, SMT
  <2>2. Reaches(R, t(i), T1, m)
    BY <1>8, SMT
  <2>3. g[i + 1] = R - k
    <3>1. \A j \in 2..r : g[j] = Step(c, j - 1, g[j - 1])
      BY <1>5, SMT DEF ReachesTo
    <3>2. g[i + 1] = Step(c, i, g[i])
      BY <2>1, <3>1, SMT
    <3> QED
      BY <3>2, SMT DEF Step
  <2>4. /\ w(i) \in Nat \ {0} /\ t(i) \in Nat \ {0} /\ w(i) <= t(i)
        /\ Probability(c[i]) = (w(i) * 1000) \div t(i) /\ t(i) - w(i) = t(i + 1)
    BY <1>3, <2>1
  <2> HIDE DEF i, R
  <2>5. /\ R \in Nat /\ (R = 1000000 \/ R <= 999000)
        /\ 1000000 * t(i) <= R * T1 /\ R * T1 <= 1000000 * t(i) + (1000 * m) * T1
    BY <2>2, SMT DEF Reaches
  <2>6. /\ k \in Nat /\ k <= R /\ k * t(i) <= R * w(i) /\ R * w(i) <= k * t(i) + 1000 * t(i)
        /\ (R - k = 1000000 \/ R - k <= 999000)
    <3> DEFINE P == (w(i) * 1000) \div t(i)
               j == Part(R, P)
    <3>1. j = k
      BY <2>4, ZenonT(30)
    <3>2. /\ j \in Nat /\ j <= R /\ j * t(i) <= R * w(i) /\ R * w(i) <= j * t(i) + 1000 * t(i)
          /\ (R - j = 1000000 \/ R - j <= 999000)
      <4>1. R \in Nat /\ (R = 1000000 \/ R <= 999000)
        BY <2>5, SMT
      <4>2. w(i) \in Nat \ {0} /\ t(i) \in Nat \ {0} /\ w(i) <= t(i)
        BY <2>4
      <4> QED
        BY <4>1, <4>2, ShareTaken, SMT DEF Part
    <3> HIDE DEF j, k
    <3> QED
      BY <3>1, <3>2, SMT
  <2> HIDE DEF k
  <2>7. /\ 1000000 * (t(i) - w(i)) <= (R - k) * T1
        /\ (R - k) * T1 <= 1000000 * (t(i) - w(i)) + (1000 * (m + 1)) * T1
    BY <1>6, <2>4, <2>5, <2>6, ReachedNext, SMTT(30)
  <2>8. R - k \in Nat
    BY <2>5, <2>6, SMT
  <2>9. Reaches(R - k, t(i + 1), T1, m + 1)
    BY <2>4, <2>6, <2>7, <2>8, SMT DEF Reaches
  <2>10. m + 1 \in 0..r - 1
    BY <1>4, <1>8, SMT
  <2> QED
    BY <2>3, <2>9, <2>10, SMT DEF i
<1> HIDE DEF S
<1>9. r - 1 \in S
  <2>1. r - 1 \in Nat /\ r - 1 \in 0..r - 1
    BY <1>4, SMT
  <2> QED
    BY <1>7, <1>8, <2>1, UpTo
<1>10. Reaches(g[r], t(r), T1, r - 1)
  <2>1. (r - 1) + 1 = r
    BY <1>4, SMT
  <2> QED
    BY <1>9, <2>1 DEF S
<1> DEFINE R == g[r]
           k == Part(R, Probability(c[r]))
           n == r - 1
<1>11. Taken(c, r) = k
  BY <1>5, SMT DEF Taken, Part
<1>12. n \in Nat
  BY <1>4, SMT
<1> HIDE DEF R, n
<1>13. /\ R \in Nat /\ (R = 1000000 \/ R <= 999000)
       /\ 1000000 * t(r) <= R * T1 /\ R * T1 <= 1000000 * t(r) + (1000 * n) * T1
  BY <1>10, SMT DEF Reaches, R, n
<1>14. /\ w(r) \in Nat \ {0} /\ t(r) \in Nat \ {0} /\ w(r) <= t(r)
       /\ Probability(c[r]) = (w(r) * 1000) \div t(r)
  BY <1>3, <1>4
<1>15. k \in Nat /\ k <= R /\ k * t(r) <= R * w(r) /\ R * w(r) <= k * t(r) + 1000 * t(r)
  <2> DEFINE P == (w(r) * 1000) \div t(r)
             j == Part(R, P)
  <2>1. j = k
    BY <1>14, ZenonT(30)
  <2>2. j \in Nat /\ j <= R /\ j * t(r) <= R * w(r) /\ R * w(r) <= j * t(r) + 1000 * t(r)
    BY <1>13, <1>14, ShareTaken, SMT DEF Part
  <2> HIDE DEF j, k
  <2> QED
    BY <2>1, <2>2, SMT
<1> HIDE DEF k
<1>16. 1000000 * w(r) <= k * T1 + 1000 * T1 /\ k * T1 <= 1000000 * w(r) + (1000 * n) * T1
  BY <1>6, <1>12, <1>13, <1>14, <1>15, ReachedNext, SMT
<1> QED
  BY <1>4, <1>6, <1>11, <1>14, <1>15, <1>16, SMT DEF c, w, t, T1, n
Weighted == IInv /\ Certains

LEMMA Shares == Spec => []Weighted
<1>1. Init => Weighted
  BY InitIInv, InitCertains DEF Weighted
<1>2. Weighted /\ [Next]_vars => Weighted'
  BY NextIInv, NextCertains DEF Weighted
<1> QED
  BY <1>1, <1>2, PTL DEF Spec

\* The bounds of both properties, for every rule in use.
LEMMA ShareTold ==
    ASSUME Weighted, NEW f \in Families, NEW r \in InUseOf(f)
    PROVE  LET c == chain[f] IN
           /\ Distance(Taken(c, r) * c[1].total, members[c[r].member].weight * 1000000)
                <= Len(c) * 1000 * c[1].total
           /\ Distance(Taken(c, r), Percent(c, r) * 10000) <= 10000 + Len(c) * 1000
<1> DEFINE c  == chain[f]
           w  == members[c[r].member].weight
           T1 == c[1].total
           k  == Taken(c, r)
           n  == r - 1
           l  == Len(c)
<1>1. l \in Nat /\ r \in 1..l
  BY DEF Weighted, IInv, TypeOK, InUseOf
<1>2. /\ r \in Nat \ {0} /\ w \in Nat \ {0} /\ T1 \in Nat \ {0} /\ k \in Nat
      /\ Near(k, w, T1, n)
  BY ShareReaches, SMT DEF Weighted, Near
<1> HIDE DEF c, w, T1, k, l
<1>3. n \in Nat /\ n < l
  BY <1>1, SMT
<1> HIDE DEF n
<1>4. w \in Nat
  BY <1>2, SMT
<1>5. Told(k, w, T1, l)
  BY <1>1, <1>2, <1>3, <1>4, ReportedShare, Zenon
<1> QED
  <2>1. Percent(c, r) = (w * 100) \div T1
    BY SMT DEF w, T1, Percent
  <2>2. /\ Distance(k * T1, w * 1000000) <= l * 1000 * T1
        /\ Distance(k, Percent(c, r) * 10000) <= 10000 + l * 1000
    BY <1>5, <2>1, SMT DEF Told
  <2> QED
    BY <2>2, SMT DEF c, w, T1, k, l

(***************************************************************************)
(* Whatever the weights, every member in use gets its part of the new      *)
(* connections to within a thousandth per rule of the chain.               *)
(***************************************************************************)
THEOREM SharesRight == Spec => []SharesFollowWeights
<1>1. Weighted => SharesFollowWeights
  BY ShareTold, SMT DEF SharesFollowWeights
<1> QED
  BY <1>1, Shares, PTL

(***************************************************************************)
(* The percentage that mwan3 prints for a rule is what the rule takes, to  *)
(* within one percent and the rounding of the chain.                       *)
(***************************************************************************)
THEOREM ReportRight == Spec => []ReportIsTruthful
<1>1. Weighted => ReportIsTruthful
  BY ShareTold, SMT DEF ReportIsTruthful
<1> QED
  BY <1>1, Shares, PTL

-----------------------------------------------------------------------------
(***************************************************************************)
(* The firewall marks.  The first invariant holds whatever mwan3_id2mask   *)
(* returns; that the marks of different numbers differ comes after it.     *)
(***************************************************************************)
USE DEF MainTable

\* The mask is settled exactly as long as a rule depends on it, and the limit
\* belongs to it.
Settled ==
    /\ \A r \in rules : r.mask # NoMask => r.mask = file
    /\ file # NoMask => ifaceMax = MaxIfaces(file)

\* The interfaces fit into every mask, and the masks have at most 8 bits.
Fit ==
    /\ \A m \in Masks : Default(m) <= 255
    /\ \A m \in Masks, i \in Ids : i <= MaxIfaces(m)

\* What stop has to find.
Reached ==
    /\ ~enabled => rules = {} /\ tables = {}
    /\ \A r \in rules : r.pref \in 1000..2999
    /\ \A i \in tables : file # NoMask /\ i <= ifaceMax
    /\ main

LEMMA MaskTyped == MarksTypeOK => Mask \in Masks /\ Mask # NoMask
BY MaskAssumption DEF MarksTypeOK, Mask

(* Rules at the numbers of mwan3 are those that a stop removes.            *)
LEMMA StopClears ==
  ASSUME NEW again, Stop(again), \A r \in rules : r.pref \in 1000..2999
  PROVE  rules' = {}
<1>1. rules' = {r \in rules : r.pref \notin 1000..2999}
  BY DEF Stop
<1>2. \A r \in {x \in rules : x.pref \notin 1000..2999} : FALSE
  OBVIOUS
<1> QED
  BY <1>1, <1>2

LEMMA RulesOfIfup ==
    ASSUME NEW i \in Ids, NEW m \in Masks,
           NEW r \in IfaceRules(i, m, rules \cup General(m))
    PROVE  \/ r \in rules
           \/ /\ r.pref \in {i + 1000, i + 2000, Blackhole(m) + 2000, Unreachable(m) + 2000}
              /\ r.mask \in {m, NoMask}
              /\ r.to \in {Table(i), End("blackhole"), End("unreachable")}
BY DEF IfaceRules, General, Iif, Marked

LEMMA MarksTypeStep == MarksTypeOK /\ [MarksNext]_marksVars => MarksTypeOK'
<1> SUFFICES ASSUME MarksTypeOK, [MarksNext]_marksVars PROVE MarksTypeOK'
  OBVIOUS
<1>m. /\ Mask \in Masks
      /\ (IF file # NoMask THEN ifaceMax ELSE MaxIfaces(config)) \in Nat
  BY MaskTyped, MaskAssumption DEF MarksTypeOK, MaxIfaces
<1>1. ASSUME NEW i \in Ids, Ifup(i) PROVE MarksTypeOK'
  <2>1. enabled' \in BOOLEAN /\ main' \in BOOLEAN /\ config' \in Masks /\ tables' \subseteq Ids
    BY <1>1 DEF Ifup, MarksTypeOK
  <2>2. file' \in Masks \cup {NoMask} /\ ifaceMax' \in Nat
    BY <1>1, <1>m DEF Ifup, Mwan3Init
  <2>3. ASSUME NEW r \in rules' PROVE
          /\ r.pref \in Nat /\ r.mask \in Masks \cup {NoMask}
          /\ r.to \in {Table(j) : j \in Ids} \cup {End("blackhole"), End("unreachable")}
    <3>1. r \in IfaceRules(i, Mask, rules \cup General(Mask))
      BY <1>1, <2>3 DEF Ifup
    <3>2. CASE r \in rules
      BY <3>2 DEF MarksTypeOK
    <3>3. CASE r \notin rules
      <4>1. /\ r.pref \in {i + 1000, i + 2000, Blackhole(Mask) + 2000, Unreachable(Mask) + 2000}
            /\ r.mask \in {Mask, NoMask}
            /\ r.to \in {Table(i), End("blackhole"), End("unreachable")}
        BY <3>1, <3>3, <1>m, RulesOfIfup
      <4>2. {i + 1000, i + 2000, Blackhole(Mask) + 2000, Unreachable(Mask) + 2000} \subseteq Nat
        BY <1>m, MaskAssumption DEF Blackhole, Unreachable
      <4> QED BY <4>1, <4>2, <1>m
    <3> QED BY <3>2, <3>3
  <2> QED BY <2>1, <2>2, <2>3 DEF MarksTypeOK
<1>2. CASE Configure
  BY <1>2 DEF Configure, MarksTypeOK
<1>3. CASE Other
  BY <1>3, <1>m DEF Other, Mwan3Init, MarksTypeOK
<1>4. CASE Start
  BY <1>4, <1>m, SMTT(30) DEF Start, Mwan3Init, MarksTypeOK
<1>5. ASSUME NEW again \in BOOLEAN, Stop(again) PROVE MarksTypeOK'
  <2>1. main' \in BOOLEAN /\ enabled' \in BOOLEAN
    BY <1>5 DEF Stop
  <2> QED BY <1>5, <1>m, <2>1, SMTT(30), ZenonT(30) DEF Stop, MarksTypeOK
<1>6. CASE UNCHANGED marksVars
  BY <1>6 DEF marksVars, MarksTypeOK
<1> QED BY <1>1, <1>2, <1>3, <1>4, <1>5, <1>6 DEF MarksNext

(***************************************************************************)
(* Every variable keeps its type, for all masks and interfaces.            *)
(***************************************************************************)
THEOREM MarksTypeCorrect == MarksSpec => []MarksTypeOK
<1>1. MarksInit => MarksTypeOK
  BY DEF MarksInit, MarksTypeOK
<1> QED BY <1>1, MarksTypeStep, PTL DEF MarksSpec

MInv == MarksTypeOK /\ Settled /\ Reached

LEMMA MarksInitInv == MarksInit => MInv
BY DEF MarksInit, MInv, MarksTypeOK, Settled, Reached, MaxIfaces, Default

\* Every script that settles the mask keeps it and its limit.
LEMMA InitSettles ==
    ASSUME MarksTypeOK, Settled, Mwan3Init
    PROVE  /\ file' = Mask /\ Mask \in Masks /\ Mask # NoMask
           /\ ifaceMax' = MaxIfaces(Mask)
           /\ \A r \in rules : r.mask # NoMask => r.mask = file'
BY MaskTyped DEF Mwan3Init, Mask, Settled

LEMMA SettledStep ==
    ASSUME MarksTypeOK, Settled, Reached, [MarksNext]_marksVars
    PROVE  Settled'
<1>1. ASSUME NEW i \in Ids, Ifup(i) PROVE Settled'
  <2>1. /\ file' = Mask /\ Mask \in Masks /\ Mask # NoMask /\ ifaceMax' = MaxIfaces(Mask)
        /\ \A r \in rules : r.mask # NoMask => r.mask = file'
    BY <1>1, InitSettles DEF Ifup
  <2>2. ASSUME NEW r \in rules', r.mask # NoMask PROVE r.mask = file'
    <3>1. r \in IfaceRules(i, Mask, rules \cup General(Mask))
      BY <1>1, <2>2 DEF Ifup
    <3>2. r \in rules \/ r.mask \in {Mask, NoMask}
      BY <3>1, <2>1, RulesOfIfup
    <3> QED BY <3>2, <2>1, <2>2
  <2> QED BY <2>1, <2>2 DEF Settled
<1>2. CASE Configure
  BY <1>2 DEF Configure, Settled
<1>3. CASE Other
  BY <1>3, InitSettles DEF Other, Settled
<1>4. CASE Start
  BY <1>4, InitSettles DEF Start, Settled
<1>5. ASSUME NEW again \in BOOLEAN, Stop(again) PROVE Settled'
  <2>1. file' = NoMask
    BY <1>5 DEF Stop
  <2>2. rules' = {}
    BY <1>5, StopClears DEF Reached
  <2> QED BY <2>1, <2>2 DEF Settled
<1>6. CASE UNCHANGED marksVars
  BY <1>6 DEF marksVars, Settled
<1> QED BY <1>1, <1>2, <1>3, <1>4, <1>5, <1>6 DEF MarksNext

LEMMA ReachedStep ==
    ASSUME Fit, MarksTypeOK, Settled, Reached, [MarksNext]_marksVars
    PROVE  Reached'
<1>1. ASSUME NEW i \in Ids, Ifup(i) PROVE Reached'
  <2>1. /\ file' = Mask /\ Mask \in Masks /\ Mask # NoMask /\ ifaceMax' = MaxIfaces(Mask)
    BY <1>1, InitSettles DEF Ifup
  <2>2. /\ i \in Nat \ {0} /\ i <= MaxIfaces(Mask)
        /\ Default(Mask) \in Nat /\ Default(Mask) >= 7 /\ Default(Mask) <= 255
    BY <2>1, MaskAssumption DEF Fit
  <2>3. ASSUME NEW r \in rules' PROVE r.pref \in 1000..2999
    <3>1. r \in IfaceRules(i, Mask, rules \cup General(Mask))
      BY <1>1, <2>3 DEF Ifup
    <3>2. r \in rules \/ r.pref \in {i + 1000, i + 2000, Blackhole(Mask) + 2000, Unreachable(Mask) + 2000}
      BY <3>1, <2>1, RulesOfIfup
    <3>3. {i + 1000, i + 2000, Blackhole(Mask) + 2000, Unreachable(Mask) + 2000} \subseteq 1000..2999
      BY <2>2, SMTT(30) DEF MaxIfaces, Blackhole, Unreachable
    <3> QED BY <3>2, <3>3, SMTT(30) DEF Reached
  <2>4. ASSUME NEW j \in tables' PROVE file' # NoMask /\ j <= ifaceMax'
    BY <1>1, <2>1, <2>4 DEF Ifup, MarksTypeOK, Fit
  <2>5. i # 254 /\ i # 255
    BY <2>2 DEF MaxIfaces
  <2>6. enabled /\ enabled' = enabled /\ main /\ main' = (main /\ i \notin {254, 255})
    BY <1>1 DEF Ifup, Reached
  <2>7. enabled' /\ main'
    BY <2>5, <2>6
  <2> QED BY <2>3, <2>4, <2>7 DEF Reached
<1>2. CASE Configure
  BY <1>2 DEF Configure, Reached
<1>3. ASSUME Mwan3Init, UNCHANGED <<rules, tables, main>>, enabled' \in {enabled, TRUE} PROVE Reached'
  <2>1. file' # NoMask /\ (file # NoMask => ifaceMax' = ifaceMax)
    BY <1>3, InitSettles DEF Mwan3Init
  <2>2. ~enabled' => ~enabled
    BY <1>3 DEF MarksTypeOK
  <2> QED BY <1>3, <2>1, <2>2 DEF Reached
<1>4. CASE Other
  BY <1>3, <1>4 DEF Other
<1>5. CASE Start
  BY <1>3, <1>5 DEF Start
<1>6. ASSUME NEW again \in BOOLEAN, Stop(again) PROVE Reached'
  <2> DEFINE limit == IF file # NoMask THEN ifaceMax ELSE MaxIfaces(config)
  <2>1. limit = MaxIfaces(Mask) /\ Mask \in Masks
    BY MaskTyped DEF Mask, Settled
  <2>2. limit \in Nat /\ limit <= 252
    BY <2>1, MaskAssumption DEF Fit, MaxIfaces
  <2>3. rules' = {}
    BY <1>6, StopClears DEF Reached
  <2>4. tables' = {}
    <3>1. tables' = tables \ (1..limit)
      BY <1>6 DEF Stop
    <3>2. \A i \in tables : i \in 1..limit
      BY <2>2, MaskAssumption DEF Reached, MarksTypeOK
    <3> QED BY <3>1, <3>2
  <2>5. main'
    <3>1. 254 \notin 1..limit /\ 255 \notin 1..limit
      BY <2>2
    <3>2. main' = (main /\ {254, 255} \cap 1..limit = {})
      BY <1>6 DEF Stop
    <3>3. {254, 255} \cap 1..limit = {}
      BY <3>1
    <3> QED BY <3>2, <3>3 DEF Reached
  <2> QED BY <2>3, <2>4, <2>5 DEF Reached
<1>7. CASE UNCHANGED marksVars
  BY <1>7 DEF marksVars, Reached
<1> QED BY <1>1, <1>2, <1>4, <1>5, <1>6, <1>7 DEF MarksNext

LEMMA MarksInv == Fit => (MarksSpec => []MInv)
<1> SUFFICES ASSUME Fit PROVE MarksSpec => []MInv
  OBVIOUS
<1>1. MInv /\ [MarksNext]_marksVars => MInv'
  BY MarksTypeStep, SettledStep, ReachedStep DEF MInv
<1> QED BY MarksInitInv, <1>1, PTL DEF MarksSpec

(***************************************************************************)
(* If the interfaces fit into every mask of up to 8 bits, all rules in     *)
(* force are of the mask that the next script will use, however often the  *)
(* configured mask is edited.                                              *)
(***************************************************************************)
THEOREM MasksAgree == Fit => (MarksSpec => []OneMask)
<1>1. MInv => OneMask
  BY DEF MInv, Settled, OneMask, Mask
<1> QED BY MarksInv, <1>1, PTL

(***************************************************************************)
(* Under the same condition stop leaves no rule and no route behind.       *)
(***************************************************************************)
THEOREM StopIsComplete == Fit => (MarksSpec => []StopUnloads)
<1>1. MInv => StopUnloads
  BY DEF MInv, Reached, StopUnloads
<1> QED BY MarksInv, <1>1, PTL

(***************************************************************************)
(* Under the same condition no flush reaches the tables main and local.    *)
(***************************************************************************)
THEOREM SystemTablesSpared == Fit => (MarksSpec => []MainSurvives)
<1>1. MInv => MainSurvives
  BY DEF MInv, Reached, MainSurvives
<1> QED BY MarksInv, <1>1, PTL

-----------------------------------------------------------------------------
(***************************************************************************)
(* Which marks are different.  mwan3_id2mask writes the bits of a number   *)
(* to the bits of the mask in order, so a number that needs no more bits   *)
(* than the mask has can be read back.                                     *)
(***************************************************************************)

\* How many bits a mask has below one of them.
Below(m, t) == Cardinality({x \in m : x < t})

LEMMA MaskBits ==
    ASSUME NEW m \in Masks
    PROVE  /\ IsFiniteSet(m) /\ Cardinality(m) \in Nat /\ m \subseteq 0..31
           /\ \A t \in Nat : IsFiniteSet({x \in m : x < t}) /\ Below(m, t) \in Nat
           /\ Below(m, 0) = 0 /\ Below(m, 32) = Cardinality(m)
           /\ \A t \in 0..31 : Below(m, t + 1) = IF t \in m THEN Below(m, t) + 1 ELSE Below(m, t)
<1>1. m \subseteq 0..31 /\ IsFiniteSet(0..31) /\ \A x \in m : x \in Nat /\ x < 32 /\ ~(x < 0)
  <2>1. 0 \in Int /\ 31 \in Int
    OBVIOUS
  <2>2. IsFiniteSet(0..31)
    BY <2>1, FS_Interval
  <2>3. m \subseteq 0..31
    BY MaskAssumption DEF Bits
  <2> QED
    BY <2>2, <2>3
<1>2. IsFiniteSet(m) /\ Cardinality(m) \in Nat
  <2> DEFINE S == 0..31
  <2>1. IsFiniteSet(S) /\ m \in SUBSET S
    BY <1>1
  <2> HIDE DEF S
  <2> QED
    BY <2>1, FS_Subset, FS_CardinalityType
<1>3. ASSUME NEW t \in Nat PROVE IsFiniteSet({x \in m : x < t}) /\ Below(m, t) \in Nat
  <2> DEFINE B == {x \in m : x < t}
  <2>1. B \in SUBSET m /\ Below(m, t) = Cardinality(B)
    BY DEF Below
  <2> HIDE DEF B
  <2>2. IsFiniteSet(B) /\ Cardinality(B) \in Nat
    BY <1>2, <2>1, FS_Subset, FS_CardinalityType
  <2> QED
    BY <2>1, <2>2 DEF B
<1>4. Below(m, 0) = 0 /\ Below(m, 32) = Cardinality(m)
  <2>1. \A x \in m : x < 32 /\ ~(x < 0)
    BY <1>1
  <2>2. {x \in m : x < 0} = {} /\ {x \in m : x < 32} = m
    BY <2>1
  <2> QED
    BY <2>2, FS_EmptySet DEF Below
<1>5. ASSUME NEW t \in 0..31
      PROVE  Below(m, t + 1) = IF t \in m THEN Below(m, t) + 1 ELSE Below(m, t)
  <2> DEFINE B == {x \in m : x < t}
             A == {x \in m : x < t + 1}
  <2>1. IsFiniteSet(B) /\ Below(m, t) = Cardinality(B) /\ Below(m, t + 1) = Cardinality(A)
    BY <1>3 DEF Below
  <2>0. \A x \in m : x < t + 1 <=> x < t \/ x = t
    <3>1. \A x \in m : x \in Nat
      BY <1>1
    <3> QED
      BY <3>1
  <2>2. CASE t \in m
    <3>1. A = B \cup {t}
      BY <2>0, <2>2, Zenon
    <3>2. t \notin B
      BY SMT
    <3> HIDE DEF A, B
    <3> QED
      BY <2>1, <2>2, <3>1, <3>2, FS_AddElement
  <2>3. CASE t \notin m
    <3>1. ASSUME NEW x \in m PROVE x < t + 1 <=> x < t
      <4>1. x # t /\ (x < t + 1 <=> x < t \/ x = t)
        BY <2>0, <2>3
      <4> QED
        BY <4>1
    <3>2. A = B
      BY <3>1, Zenon
    <3> HIDE DEF A, B
    <3> QED
      BY <2>1, <2>3, <3>2
  <2> QED
    BY <2>2, <2>3
<1> QED
  BY <1>1, <1>2, <1>3, <1>4, <1>5

\* Every place of an id's bits belongs to a bit of the mask.
LEMMA EveryPlace ==
    ASSUME NEW m \in Masks, NEW k \in Nat, k < Cardinality(m)
    PROVE  \E b \in m : Below(m, b) = k
<1> SUFFICES ASSUME \A b \in m : Below(m, b) # k PROVE FALSE
  OBVIOUS
<1> DEFINE T == {t \in 0..32 : Below(m, t) <= k}
<1>1. /\ Cardinality(m) \in Nat /\ Below(m, 0) = 0 /\ Below(m, 32) = Cardinality(m)
      /\ \A t \in Nat : Below(m, t) \in Nat
      /\ \A t \in 0..31 : Below(m, t + 1) = IF t \in m THEN Below(m, t) + 1 ELSE Below(m, t)
  BY MaskBits
<1>2. 0 \in T
  BY <1>1
<1>3. ASSUME NEW t \in 0..32, t \in T, t < 32 PROVE t + 1 \in T
  <2>1. t \in 0..31 /\ t \in Nat /\ t + 1 \in 0..32 /\ t + 1 \in Nat
    BY <1>3
  <2>2. Below(m, t) \in Nat /\ Below(m, t) <= k /\ (t \in m => Below(m, t) # k)
    BY <1>1, <1>3, <2>1
  <2>3. Below(m, t + 1) <= k
    BY <1>1, <2>1, <2>2
  <2> QED
    BY <2>1, <2>3
<1> HIDE DEF T
<1>4. 32 \in T
  BY <1>2, <1>3, UpTo
<1> QED
  BY <1>1, <1>4 DEF T

\* Masks of 3 to 8 bits: two to the number of bits counts the subsets.
LEMMA FewBits ==
    ASSUME Fit, NEW m \in Masks
    PROVE  Cardinality(m) \in 3..8
<1> DEFINE n == Cardinality(m)
<1>1. n \in Nat /\ 2^n - 1 \in Nat /\ 2^n - 1 >= 7 /\ 2^n - 1 <= 255
  BY MaskBits, MaskAssumption DEF Fit, Default
<1>2. ASSUME NEW a \in Nat, NEW b \in Nat, a <= b PROVE 2^a \in Nat /\ 2^b \in Nat /\ 2^a <= 2^b
  <2> DEFINE A == 1..a
             B == 1..b
             SA == SUBSET A
             SB == SUBSET B
  <2>1. IsFiniteSet(A) /\ Cardinality(A) = a
    BY FS_Interval
  <2>2. IsFiniteSet(B) /\ Cardinality(B) = b
    BY FS_Interval
  <2>3. A \subseteq B
    BY <1>2
  <2> HIDE DEF A, B
  <2>4. IsFiniteSet(SA) /\ Cardinality(SA) = 2^a /\ IsFiniteSet(SB) /\ Cardinality(SB) = 2^b
    BY <2>1, <2>2, FS_SUBSET
  <2>5. SA \in SUBSET SB
    BY <2>3
  <2> HIDE DEF SA, SB
  <2> QED
    BY <2>4, <2>5, FS_Subset, FS_CardinalityType
<1> HIDE DEF n
<1>3. 2^2 = 4 /\ 2^9 = 512
  BY SMT
<1>4. n <= 8
  <2>1. CASE n >= 9
    <3>1. 2^9 <= 2^n /\ 2^n \in Nat
      BY <1>1, <1>2, <2>1
    <3> QED
      BY <1>1, <1>3, <3>1
  <2> QED
    BY <1>1, <2>1
<1>5. n >= 3
  <2>1. CASE n <= 2
    <3>1. 2^n <= 2^2 /\ 2^n \in Nat
      BY <1>1, <1>2, <2>1
    <3> QED
      BY <1>1, <1>3, <3>1
  <2> QED
    BY <1>1, <2>1
<1> QED
  BY <1>1, <1>4, <1>5 DEF n

\* Numbers with the same bits are the same.
LEMMA SameNumber ==
    ASSUME NEW n \in 3..8, NEW a \in Nat, NEW b \in Nat, a <= 2^n - 1, b <= 2^n - 1,
           \A k \in 0..n - 1 : Bit(a, k) = Bit(b, k)
    PROVE  a = b
<1>1. n = 3 \/ n = 4 \/ n = 5 \/ n = 6 \/ n = 7 \/ n = 8
  BY SMT
<1>3. CASE n = 3
  <2>1. /\ Bit(a, 0) = Bit(b, 0)
        /\ Bit(a, 1) = Bit(b, 1)
        /\ Bit(a, 2) = Bit(b, 2)
    BY <1>3
  <2>2. 2^3 = 8
    BY SMT
  <2>3. a <= 7 /\ b <= 7
    BY <1>3, <2>2
  <2> QED
    BY <2>1, <2>3, SMT DEF Bit
<1>4. CASE n = 4
  <2>1. /\ Bit(a, 0) = Bit(b, 0)
        /\ Bit(a, 1) = Bit(b, 1)
        /\ Bit(a, 2) = Bit(b, 2)
        /\ Bit(a, 3) = Bit(b, 3)
    BY <1>4
  <2>2. 2^4 = 16
    BY SMT
  <2>3. a <= 15 /\ b <= 15
    BY <1>4, <2>2
  <2> QED
    BY <2>1, <2>3, SMT DEF Bit
<1>5. CASE n = 5
  <2>1. /\ Bit(a, 0) = Bit(b, 0)
        /\ Bit(a, 1) = Bit(b, 1)
        /\ Bit(a, 2) = Bit(b, 2)
        /\ Bit(a, 3) = Bit(b, 3)
        /\ Bit(a, 4) = Bit(b, 4)
    BY <1>5
  <2>2. 2^5 = 32
    BY SMT
  <2>3. a <= 31 /\ b <= 31
    BY <1>5, <2>2
  <2> QED
    BY <2>1, <2>3, SMT DEF Bit
<1>6. CASE n = 6
  <2>1. /\ Bit(a, 0) = Bit(b, 0)
        /\ Bit(a, 1) = Bit(b, 1)
        /\ Bit(a, 2) = Bit(b, 2)
        /\ Bit(a, 3) = Bit(b, 3)
        /\ Bit(a, 4) = Bit(b, 4)
        /\ Bit(a, 5) = Bit(b, 5)
    BY <1>6
  <2>2. 2^6 = 64
    BY SMT
  <2>3. a <= 63 /\ b <= 63
    BY <1>6, <2>2
  <2> QED
    BY <2>1, <2>3, SMT DEF Bit
<1>7. CASE n = 7
  <2>1. /\ Bit(a, 0) = Bit(b, 0)
        /\ Bit(a, 1) = Bit(b, 1)
        /\ Bit(a, 2) = Bit(b, 2)
        /\ Bit(a, 3) = Bit(b, 3)
        /\ Bit(a, 4) = Bit(b, 4)
        /\ Bit(a, 5) = Bit(b, 5)
        /\ Bit(a, 6) = Bit(b, 6)
    BY <1>7
  <2>2. 2^7 = 128
    BY SMT
  <2>3. a <= 127 /\ b <= 127
    BY <1>7, <2>2
  <2> QED
    BY <2>1, <2>3, SMTT(30) DEF Bit
<1>8. CASE n = 8
  <2>1. /\ Bit(a, 0) = Bit(b, 0)
        /\ Bit(a, 1) = Bit(b, 1)
        /\ Bit(a, 2) = Bit(b, 2)
        /\ Bit(a, 3) = Bit(b, 3)
        /\ Bit(a, 4) = Bit(b, 4)
        /\ Bit(a, 5) = Bit(b, 5)
        /\ Bit(a, 6) = Bit(b, 6)
        /\ Bit(a, 7) = Bit(b, 7)
    BY <1>8
  <2>2. 2^8 = 256
    BY SMT
  <2>3. a <= 255 /\ b <= 255
    BY <1>8, <2>2
  <2>4. a \div 16 = b \div 16
    BY <2>1, <2>3, SMT DEF Bit
  <2>5. a \div 8 = b \div 8
    BY <2>1, <2>4, SMT DEF Bit
  <2>6. a \div 4 = b \div 4
    BY <2>1, <2>5, SMT DEF Bit
  <2>7. a \div 2 = b \div 2
    BY <2>1, <2>6, SMT DEF Bit
  <2> QED
    BY <2>1, <2>7, SMT DEF Bit
<1> QED
  BY <1>1, <1>3, <1>4, <1>5, <1>6, <1>7, <1>8

\* Different numbers have different marks.
LEMMA MarksDiffer ==
    ASSUME Fit, NEW m \in Masks, NEW a \in Nat, NEW b \in Nat, a <= Default(m), b <= Default(m),
           Id2Mask(a, m) = Id2Mask(b, m)
    PROVE  a = b
<1> DEFINE n == Cardinality(m)
<1>1. n \in 3..8 /\ a <= 2^n - 1 /\ b <= 2^n - 1
  BY FewBits DEF Default
<1>2. ASSUME NEW k \in 0..n - 1 PROVE Bit(a, k) = Bit(b, k)
  <2>1. k \in Nat /\ k < n
    BY <1>1
  <2>2. PICK x \in m : Below(m, x) = k
    BY <2>1, EveryPlace
  <2>3. /\ x \in Id2Mask(a, m) <=> Bit(a, k) = 1
        /\ x \in Id2Mask(b, m) <=> Bit(b, k) = 1
    BY <2>2 DEF Id2Mask, Below
  <2>4. Bit(a, k) \in {0, 1} /\ Bit(b, k) \in {0, 1}
    <3>1. \A q \in Int : q % 2 \in {0, 1}
      BY SMT
    <3>2. 2^k \in Nat \ {0}
      <4>1. k = 0 \/ k = 1 \/ k = 2 \/ k = 3 \/ k = 4 \/ k = 5 \/ k = 6 \/ k = 7
        BY <1>1, <2>1, SMT
      <4>2. 2^0 = 1 /\ 2^1 = 2 /\ 2^2 = 4 /\ 2^3 = 8 /\ 2^4 = 16 /\ 2^5 = 32 /\ 2^6 = 64 /\ 2^7 = 128
        BY SMT
      <4>3. ASSUME NEW p \in {1, 2, 4, 8, 16, 32, 64, 128} PROVE p \in Nat \ {0}
        BY <4>3
      <4>4. 2^k \in {1, 2, 4, 8, 16, 32, 64, 128}
        <5> HIDE DEF n
        <5>0. CASE k = 0
          BY <4>2, <5>0
        <5>1. CASE k = 1
          BY <4>2, <5>1
        <5>2. CASE k = 2
          BY <4>2, <5>2
        <5>3. CASE k = 3
          BY <4>2, <5>3
        <5>4. CASE k = 4
          BY <4>2, <5>4
        <5>5. CASE k = 5
          BY <4>2, <5>5
        <5>6. CASE k = 6
          BY <4>2, <5>6
        <5>7. CASE k = 7
          BY <4>2, <5>7
        <5> QED
          BY <4>1, <5>0, <5>1, <5>2, <5>3, <5>4, <5>5, <5>6, <5>7
      <4> QED
        BY <4>3, <4>4
    <3>3. \A p \in Nat \ {0} : a \div p \in Int /\ b \div p \in Int
      BY SMT
    <3> QED
      BY <3>1, <3>2, <3>3 DEF Bit
  <2> QED
    BY <2>3, <2>4
<1> QED
  BY <1>1, <1>2, SameNumber

\* The rules that lead marks home, and no other.
Homes ==
    /\ \A i \in tables : Marked(i, Table(i), file) \in rules
    /\ tables # {} => /\ Marked(Blackhole(file), End("blackhole"), file) \in rules
                      /\ Marked(Unreachable(file), End("unreachable"), file) \in rules
    /\ \A r \in rules :
         IF r.mask = NoMask THEN r.pref < 2000
         ELSE \/ \E i \in tables : r = Marked(i, Table(i), file)
              \/ r = Marked(Blackhole(file), End("blackhole"), file)
              \/ r = Marked(Unreachable(file), End("unreachable"), file)

\* An interface that comes up replaces its own rules and no other.
LEMMA HomesStep ==
    ASSUME Fit, MInv, Homes, [MarksNext]_marksVars
    PROVE  Homes'
<1>0. MarksTypeOK /\ Settled /\ Reached
  BY DEF MInv
<1>1. ASSUME NEW i \in Ids, Ifup(i) PROVE Homes'
  <2> DEFINE m == Mask
             bh == Marked(Blackhole(m), End("blackhole"), m)
             un == Marked(Unreachable(m), End("unreachable"), m)
             own == Marked(i, Table(i), m)
  <2>1. /\ file' = m /\ m \in Masks /\ m # NoMask
        /\ rules' = IfaceRules(i, m, rules \cup General(m)) /\ tables' = tables \cup {i}
    BY <1>0, <1>1, InitSettles DEF Ifup
  <2>2. /\ i \in Nat \ {0} /\ i <= Default(m) - 3 /\ Default(m) \in Nat
        /\ \A j \in tables : j \in Nat /\ j <= Default(m) - 3
        /\ Default(m) <= 255
    BY <1>0, <2>1, MaskAssumption DEF Fit, MarksTypeOK, MaxIfaces
  <2>3. \A r \in rules : r.mask # NoMask => file = m
    BY <1>0 DEF Settled, Mask
  <2>4. /\ \A r \in rules : r.pref \in Nat
        /\ bh.pref = Default(m) + 1998 /\ un.pref = Default(m) + 1999 /\ own.pref = i + 2000
        /\ bh.mask = m /\ un.mask = m /\ own.mask = m
        /\ Iif(i).pref = i + 1000 /\ Iif(i).mask = NoMask
        /\ \A j : Marked(j, Table(j), m).pref = j + 2000 /\ Marked(j, Table(j), m).mask = m
    BY <1>0, <2>2 DEF MarksTypeOK, Marked, Iif, Blackhole, Unreachable
  <2>5. \A r \in rules :
          IF r.mask = NoMask THEN r.pref < 2000
          ELSE (\E j \in tables : r = Marked(j, Table(j), m)) \/ r = bh \/ r = un
    BY <2>3 DEF Homes
  <2> HIDE DEF m, bh, un, own
  <2>6. rules' = {r \in rules \cup General(m) : r.pref \notin {i + 1000, i + 2000}} \cup {Iif(i), own}
    BY <2>1 DEF IfaceRules, own
  <2>7. General(m) = {r \in {bh, un} : Absent(r.pref, rules)}
    BY DEF General, bh, un
  <2>8. bh \in rules' /\ un \in rules'
    <3>1. ASSUME NEW r \in {bh, un} PROVE r \in rules'
      <4>1. r \in rules \cup General(m)
        <5>1. CASE Absent(r.pref, rules)
          BY <2>7, <5>1
        <5>2. CASE ~Absent(r.pref, rules)
          <6>1. PICK s \in rules : s.pref = r.pref
            BY <5>2 DEF Absent
          <6>2. s.mask # NoMask
            BY <2>2, <2>4, <2>5, <3>1, <6>1
          <6>3. CASE \E j \in tables : s = Marked(j, Table(j), m)
            BY <2>2, <2>4, <3>1, <6>1, <6>3
          <6>4. CASE s = bh \/ s = un
            BY <2>2, <2>4, <3>1, <6>1, <6>4
          <6> QED
            BY <2>5, <6>2, <6>3, <6>4
        <5> QED
          BY <5>1, <5>2
      <4>2. r.pref \notin {i + 1000, i + 2000}
        BY <2>2, <2>4, <3>1
      <4> QED
        BY <2>6, <4>1, <4>2
    <3> QED
      BY <3>1
  <2>9. ASSUME NEW j \in tables \cup {i} PROVE Marked(j, Table(j), m) \in rules'
    <3>1. CASE j = i
      BY <2>6, <3>1 DEF own
    <3>2. CASE j \in tables /\ j # i
      <4>1. Marked(j, Table(j), m) \in rules
        <5>1. Marked(j, Table(j), file) \in rules
          BY <3>2 DEF Homes
        <5>2. file # NoMask
          BY <1>0, <3>2 DEF Reached
        <5> QED
          BY <5>1, <5>2 DEF m, Mask
      <4>2. Marked(j, Table(j), m).pref \notin {i + 1000, i + 2000}
        BY <2>2, <2>4, <3>2
      <4> QED
        BY <2>6, <4>1, <4>2
    <3> QED
      BY <3>1, <3>2
  <2>10. ASSUME NEW r \in rules'
         PROVE  IF r.mask = NoMask THEN r.pref < 2000
                ELSE (\E j \in tables \cup {i} : r = Marked(j, Table(j), m)) \/ r = bh \/ r = un
    <3>1. r \in rules \/ r = bh \/ r = un \/ r = Iif(i) \/ r = own
      BY <2>6, <2>7
    <3>2. CASE r \in rules
      BY <2>5, <3>2
    <3>3. CASE r = bh \/ r = un
      BY <2>1, <2>4, <3>3
    <3>4. CASE r = Iif(i)
      BY <2>2, <2>4, <3>4
    <3>5. CASE r = own
      BY <2>1, <2>4, <3>5 DEF own
    <3> QED
      BY <3>1, <3>2, <3>3, <3>4, <3>5
  <2>11. /\ bh = Marked(Blackhole(file'), End("blackhole"), file')
         /\ un = Marked(Unreachable(file'), End("unreachable"), file')
    BY <2>1 DEF bh, un
  <2>12. \A j \in tables' : Marked(j, Table(j), file') \in rules'
    BY <2>1, <2>9
  <2>13. \A r \in rules' :
           IF r.mask = NoMask THEN r.pref < 2000
           ELSE (\E j \in tables' : r = Marked(j, Table(j), file')) \/ r = bh \/ r = un
    BY <2>1, <2>10, SMTT(30)
  <2> QED
    BY <2>8, <2>11, <2>12, <2>13 DEF Homes
<1>2. CASE Configure
  BY <1>2 DEF Configure, Homes
<1>3. ASSUME Mwan3Init, UNCHANGED <<rules, tables>> PROVE Homes'
  <2>1. file # NoMask => file' = file
    BY <1>3 DEF Mwan3Init, Mask
  <2>2. CASE file # NoMask
    BY <1>3, <2>1, <2>2 DEF Homes
  <2>3. CASE file = NoMask
    <3>1. tables = {} /\ \A r \in rules : r.mask = NoMask
      BY <1>0, <2>3 DEF Reached, Settled
    <3> QED
      BY <1>3, <3>1 DEF Homes
  <2> QED
    BY <2>2, <2>3
<1>4. CASE Other
  BY <1>3, <1>4 DEF Other
<1>5. CASE Start
  BY <1>3, <1>5 DEF Start
<1>6. ASSUME NEW again \in BOOLEAN, Stop(again) PROVE Homes'
  <2>1. rules' = {}
    BY <1>0, <1>6, StopClears DEF Reached
  <2>2. tables' = {}
    <3> DEFINE limit == IF file # NoMask THEN ifaceMax ELSE MaxIfaces(config)
    <3>1. tables' = tables \ (1..limit)
      BY <1>6 DEF Stop
    <3>2. ASSUME NEW j \in tables PROVE j \in 1..limit
      <4>1. file # NoMask /\ j <= ifaceMax /\ j \in Nat \ {0} /\ ifaceMax \in Nat
        BY <1>0, MaskAssumption DEF Reached, MarksTypeOK
      <4> QED
        BY <4>1
    <3> QED
      BY <3>1, <3>2
  <2> QED
    BY <2>1, <2>2 DEF Homes
<1>7. CASE UNCHANGED marksVars
  BY <1>7 DEF marksVars, Homes
<1> QED
  BY <1>1, <1>2, <1>4, <1>5, <1>6, <1>7 DEF MarksNext

\* One rule of all has the mark of a number.
LEMMA FoundRule ==
    ASSUME NEW n, NEW x \in rules, x.mask # NoMask, x.mark = Id2Mask(n, Mask),
           \A r \in rules : r.mask # NoMask /\ r.mark = Id2Mask(n, Mask) => r = x, x.pref \in Nat
    PROVE  Lookup(n) = x.to
<1> DEFINE hits == {r \in rules : r.mask # NoMask /\ r.mark = Id2Mask(n, Mask)}
           best == CHOOSE r \in hits : \A s \in hits : r.pref <= s.pref
<1>1. hits = {x}
  OBVIOUS
<1>2. Lookup(n) = IF hits = {} THEN Table(MainTable) ELSE best.to
  BY DEF Lookup
<1> HIDE DEF hits
<1>3. \E r \in hits : \A s \in hits : r.pref <= s.pref
  BY <1>1
<1>4. best \in hits
  BY <1>3
<1> HIDE DEF best
<1> QED
  BY <1>1, <1>2, <1>4

MarksHomed == MInv /\ Homes

LEMMA MarksLead == ASSUME Fit PROVE MarksHomed => MarksLeadHome
<1> SUFFICES ASSUME MInv, Homes, tables # {} PROVE
        /\ EachHasItsTable
        /\ Lookup(Blackhole(Mask)) = End("blackhole")
        /\ Lookup(Unreachable(Mask)) = End("unreachable")
        /\ Lookup(Default(Mask)) = Table(MainTable)
  BY DEF MarksLeadHome, MarksHomed
<1> DEFINE m == Mask
           D == Default(m)
           rule(n, e) == Marked(n, e, m)
<1>1. file = m /\ m \in Masks /\ m # NoMask
  BY MaskTyped DEF MInv, Reached, MarksTypeOK, Mask
<1>2. D \in Nat /\ D >= 7 /\ \A i \in tables : i \in Nat \ {0} /\ i <= D - 3
  BY <1>1, MaskAssumption DEF Fit, MInv, MarksTypeOK, MaxIfaces
<1>3. /\ Blackhole(m) = D - 2 /\ Unreachable(m) = D - 1
      /\ \A n, e : /\ rule(n, e).mask = m /\ rule(n, e).mark = Id2Mask(n, m) /\ rule(n, e).to = e
                   /\ rule(n, e).pref = n + 2000
  BY DEF Blackhole, Unreachable, Marked
<1> DEFINE bh == rule(D - 2, End("blackhole"))
           un == rule(D - 1, End("unreachable"))
<1>4. /\ \A i \in tables : rule(i, Table(i)) \in rules
      /\ bh \in rules /\ un \in rules
      /\ \A r \in rules : r.mask # NoMask =>
            (\E i \in tables : r = rule(i, Table(i))) \/ r = bh \/ r = un
  BY <1>1, <1>3 DEF Homes
<1>5. \A a, b \in Nat : a <= D /\ b <= D /\ Id2Mask(a, m) = Id2Mask(b, m) => a = b
  BY <1>1, MarksDiffer
<1> HIDE DEF m, D, rule
<1>6. ASSUME NEW n \in Nat, n <= D, NEW r \in rules, r.mask # NoMask, r.mark = Id2Mask(n, m)
      PROVE  \/ n \in tables /\ r = rule(n, Table(n))
             \/ n = D - 2 /\ r = bh
             \/ n = D - 1 /\ r = un
  <2>1. CASE r = bh
    BY <1>2, <1>3, <1>5, <1>6, <2>1
  <2>2. CASE r = un
    BY <1>2, <1>3, <1>5, <1>6, <2>2
  <2>3. ASSUME NEW i \in tables, r = rule(i, Table(i)) PROVE n = i
    BY <1>2, <1>3, <1>5, <1>6, <2>3
  <2> QED
    BY <1>4, <1>6, <2>1, <2>2, <2>3
<1> HIDE DEF bh, un
<1>7. ASSUME NEW i \in tables PROVE Lookup(i) = Table(i)
  <2> DEFINE x == rule(i, Table(i))
  <2>1. i \in Nat /\ i <= D /\ i # D - 2 /\ i # D - 1
    BY <1>2
  <2>2. x \in rules /\ x.mask # NoMask /\ x.mark = Id2Mask(i, m) /\ x.pref \in Nat /\ x.to = Table(i)
    BY <1>1, <1>3, <1>4, <2>1
  <2>3. \A r \in rules : r.mask # NoMask /\ r.mark = Id2Mask(i, m) => r = x
    BY <1>6, <2>1
  <2> HIDE DEF x
  <2> QED
    BY <2>2, <2>3, FoundRule DEF m
<1>8. Lookup(D - 2) = End("blackhole")
  <2>1. D - 2 \in Nat /\ D - 2 <= D /\ D - 2 \notin tables /\ D - 2 # D - 1
    BY <1>2
  <2>2. bh.mask # NoMask /\ bh.mark = Id2Mask(D - 2, m) /\ bh.pref \in Nat /\ bh.to = End("blackhole")
    BY <1>1, <1>3, <2>1 DEF bh
  <2>3. \A r \in rules : r.mask # NoMask /\ r.mark = Id2Mask(D - 2, m) => r = bh
    BY <1>6, <2>1
  <2> QED
    BY <1>4, <2>2, <2>3, FoundRule DEF m
<1>9. Lookup(D - 1) = End("unreachable")
  <2>1. D - 1 \in Nat /\ D - 1 <= D /\ D - 1 \notin tables /\ D - 2 # D - 1
    BY <1>2
  <2>2. un.mask # NoMask /\ un.mark = Id2Mask(D - 1, m) /\ un.pref \in Nat /\ un.to = End("unreachable")
    BY <1>1, <1>3, <2>1 DEF un
  <2>3. \A r \in rules : r.mask # NoMask /\ r.mark = Id2Mask(D - 1, m) => r = un
    BY <1>6, <2>1
  <2> QED
    BY <1>4, <2>2, <2>3, FoundRule DEF m
<1>10. Lookup(D) = Table(MainTable)
  <2>1. D \notin tables /\ D # D - 2 /\ D # D - 1
    BY <1>2
  <2>2. {r \in rules : r.mask # NoMask /\ r.mark = Id2Mask(D, m)} = {}
    BY <1>2, <1>6, <2>1
  <2> QED
    BY <2>2 DEF Lookup, m
<1> QED
  BY <1>3, <1>7, <1>8, <1>9, <1>10 DEF EachHasItsTable, m, D

(***************************************************************************)
(* If the interfaces fit into every mask of up to 8 bits, every mark leads *)
(* where it should, in whatever order interfaces come up and however often *)
(* the configured mask is edited.                                          *)
(***************************************************************************)
THEOREM MarksFindTheirTables == Fit => (MarksSpec => []MarksLeadHome)
<1> SUFFICES ASSUME Fit PROVE MarksSpec => []MarksLeadHome
  OBVIOUS
<1>1. MarksInit => MarksHomed
  BY MarksInitInv DEF MarksInit, Homes, MarksHomed
<1>2. MarksHomed /\ [MarksNext]_marksVars => MarksHomed'
  BY MarksTypeStep, SettledStep, ReachedStep, HomesStep DEF MInv, MarksHomed
<1>3. MarksHomed => MarksLeadHome
  BY MarksLead
<1> QED
  BY <1>1, <1>2, <1>3, PTL DEF MarksSpec
=============================================================================
