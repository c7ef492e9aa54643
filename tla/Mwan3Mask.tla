------------------------------- MODULE Mwan3Mask -------------------------------
(***************************************************************************)
(* Firewall marks.  An interface is known by its place in the              *)
(* configuration, its id; mwan3_id2mask spreads the id over the bits of    *)
(* mmx_mask, ip rules look the mark up in the routing table of that number *)
(* and the three largest marks are kept for default, unreachable and       *)
(* blackhole.  mwan3_init settles the mask, which stays as it is until     *)
(* stop, whatever is done to the configuration.                            *)
(*                                                                         *)
(* A mask or a mark is the set of its bits.  The two families have ip      *)
(* rules of their own and are treated alike, so one of them is modelled.   *)
(* Scripts and commands are steps here: Mwan3 shows that the lock keeps    *)
(* them apart and that nothing is set up while the service is disabled.    *)
(***************************************************************************)
EXTENDS Integers, FiniteSets

CONSTANTS
    Masks,      \* values that mmx_mask is given
    Ids         \* places of the interfaces that come up

Bits == 0..31
NoMask == {}    \* no file mmx_mask

\* The largest number with one bit for each bit of the mask, mmdefault.
Default(mask) == 2^Cardinality(mask) - 1

MaxIfaces(mask)   == Default(mask) - 3
Blackhole(mask)   == Default(mask) - 2
Unreachable(mask) == Default(mask) - 1

Bit(n, k) == (n \div 2^k) % 2

Id2MaskShifted(id, mask) ==             \* bit_val counted before it is used
    {b \in mask : Bit(id, Cardinality({x \in mask : x <= b})) = 1}

\* mwan3_id2mask: bit_val counts the bits of the mask below bit_msk.
Id2Mask(id, mask) == {b \in mask : Bit(id, Cardinality({x \in mask : x < b})) = 1}

VARIABLES
    enabled,    \* uci state globals.enabled
    config,     \* mmx_mask in the configuration
    file,       \* mmx_mask in the status directory
    ifaceMax,   \* uci state globals.iface_max
    rules,      \* ip rules: a mark and a mask lead to a table or to an end
    tables,     \* routing tables that mwan3 has filled
    main        \* tables main and local are as the system left them

marksVars == <<enabled, config, file, ifaceMax, rules, tables, main>>

ASSUME MaskAssumption ==
    /\ Masks \subseteq SUBSET Bits /\ NoMask \notin Masks
    /\ \A m \in Masks : Default(m) \in Nat /\ Default(m) >= 7   \* "at least 3 bits should be set"
    /\ Ids \subseteq Nat \ {0}

\* What a rule does with a packet.
Table(i) == [type |-> "table", table |-> i]
End(e)   == [type |-> e, table |-> 0]
MainTable == 254    \* and 255 is local

\* An iif rule names the interface's device and no mark.
Iif(i)           == [pref |-> i + 1000, mark |-> {}, mask |-> NoMask, to |-> Table(i)]
Marked(n, to, m) == [pref |-> n + 2000, mark |-> Id2Mask(n, m), mask |-> m, to |-> to]

MarksInit ==
    /\ enabled \in BOOLEAN /\ config \in Masks
    /\ file = NoMask /\ ifaceMax = 0
    /\ rules = {} /\ tables = {} /\ main = TRUE

-----------------------------------------------------------------------------
Mask == IF file # NoMask THEN file ELSE config

\* mwan3_init: the first script after a stop settles mask and limit.
Mwan3Init ==
    /\ file' = Mask
    /\ ifaceMax' = IF file # NoMask THEN ifaceMax ELSE MaxIfaces(config)

Absent(pref, rs) == \A r \in rs : r.pref # pref

\* mwan3_set_general_rules adds what is missing.
General(m) ==
    {r \in {Marked(Blackhole(m), End("blackhole"), m), Marked(Unreachable(m), End("unreachable"), m)} :
        Absent(r.pref, rules)}

\* mwan3_create_iface_rules replaces the rules of the interface's numbers.
IfaceRules(i, m, rs) ==
    {r \in rs : r.pref \notin {i + 1000, i + 2000}} \cup {Iif(i), Marked(i, Table(i), m)}

\* 15-mwan3 for an ifup.
Ifup(i) ==
    /\ enabled /\ Mwan3Init
    /\ rules' = IfaceRules(i, Mask, rules \cup General(Mask))
    /\ tables' = tables \cup {i}
    /\ main' = (main /\ i \notin {MainTable, 255})
    /\ UNCHANGED <<enabled, config>>

\* A reload is a restart of its own, so the file is at first what it was.
Configure ==
    /\ \E m \in Masks : config' = m
    /\ UNCHANGED <<enabled, file, ifaceMax, rules, tables, main>>

\* Every other command, and 15-mwan3 for an ifdown.
Other ==
    /\ Mwan3Init
    /\ UNCHANGED <<enabled, config, rules, tables, main>>

Start ==
    /\ Mwan3Init /\ enabled' = TRUE
    /\ UNCHANGED <<config, rules, tables, main>>

\* stop, and restart (again), which enables the service in the same process:
\* flush the tables up to the limit and the rules numbered 1000 to 2999,
\* remove the status directory.
Stop(again) ==
    LET limit == IF file # NoMask THEN ifaceMax ELSE MaxIfaces(config) IN
    /\ rules' = {r \in rules : r.pref \notin 1000..2999}
    /\ tables' = tables \ (1..limit)
    /\ main' = (main /\ {MainTable, 255} \cap 1..limit = {})
    /\ file' = NoMask /\ ifaceMax' = limit /\ enabled' = again
    /\ UNCHANGED config

MarksNext ==
    \/ \E i \in Ids : Ifup(i)
    \/ Configure \/ Other \/ Start
    \/ \E again \in BOOLEAN : Stop(again)

MarksSpec == MarksInit /\ [][MarksNext]_marksVars

-----------------------------------------------------------------------------
(***************************************************************************)
(* The type of every variable.                                             *)
(***************************************************************************)
MarksTypeOK ==
    /\ enabled \in BOOLEAN /\ main \in BOOLEAN
    /\ config \in Masks /\ file \in Masks \cup {NoMask}
    /\ ifaceMax \in Nat
    /\ \A r \in rules :
         /\ r.pref \in Nat /\ r.mask \in Masks \cup {NoMask}
         /\ r.to \in {Table(i) : i \in Ids} \cup {End("blackhole"), End("unreachable")}
    /\ tables \subseteq Ids

(***************************************************************************)
(* The rules in force were all made with the mask that the next script     *)
(* will use, so that marks set and marks looked up go together, although   *)
(* the mask may be edited at any time.                                     *)
(***************************************************************************)
OneMask == \A r \in rules : r.mask # NoMask => r.mask = Mask

\* Where a packet with mark n is looked up: the rule of the lowest number.
Lookup(n) ==
    LET hits == {r \in rules : r.mask # NoMask /\ r.mark = Id2Mask(n, Mask)} IN
    IF hits = {} THEN Table(MainTable)
    ELSE (CHOOSE r \in hits : \A s \in hits : r.pref <= s.pref).to

(***************************************************************************)
(* "Load balancing/failover support for up to 250 wan interfaces"          *)
(* (Makefile): the traffic that a policy marks for an interface is looked  *)
(* up in the interface's own table.                                        *)
(***************************************************************************)
EachHasItsTable == \A i \in tables : Lookup(i) = Table(i)

(***************************************************************************)
(* As long as there are no more interfaces than iface_max, marks lead      *)
(* where they should, in whatever order interfaces come up: those of the   *)
(* interfaces to their tables, the reserved ones to their own ends.        *)
(***************************************************************************)
MarksLeadHome ==
    tables # {} /\ (\A i \in tables : i <= ifaceMax) =>
        /\ EachHasItsTable
        /\ Lookup(Blackhole(Mask)) = End("blackhole")
        /\ Lookup(Unreachable(Mask)) = End("unreachable")
        /\ Lookup(Default(Mask)) = Table(MainTable)

(***************************************************************************)
(* stop, which "unloads iptables rules, ip rules and ip routes" (mwan3's   *)
(* help), leaves no rule and no route behind.                              *)
(***************************************************************************)
StopUnloads == ~enabled => rules = {} /\ tables = {}

(***************************************************************************)
(* The flush of stop never reaches the system's own tables.                *)
(***************************************************************************)
MainSurvives == main
=============================================================================
