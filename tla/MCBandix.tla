---------------------------- MODULE MCBandix --------------------------------
(***************************************************************************)
(* Two devices with one rate-limit rule at first and two more to add, one  *)
(* of them over midnight.  Each scenario runs some parts of the page and   *)
(* has the user do one or two kinds of things there.                       *)
(***************************************************************************)
EXTENDS Bandix

Sc(parts, does, acts, fails) ==
    [parts |-> parts, does |-> does, acts |-> acts, fails |-> fails]

MCScenarios ==
    { Sc({"rules"}, {"dialog", "add"}, 2, 0),
      Sc({"rules"}, {"dialog", "delete"}, 2, 0),
      Sc({"rules"}, {"dialog", "name"}, 2, 0),
      Sc({"rules"}, {"sort", "poll"}, 2, 0),
      Sc({"rules"}, {"devices"}, 2, 0),
      Sc({"rules"}, {"time"}, 1, 1),
      Sc({"rules"}, {"history"}, 1, 0),
      Sc({"history"}, {"history", "resize"}, 2, 1),
      Sc({"history"}, {"history", "mouse"}, 3, 0),
      Sc({"history"}, {"mouse"}, 2, 1),
      Sc({"ranking", "timeline"}, {"usage"}, 1, 0),
      Sc({"ranking"}, {"usage"}, 2, 1),
      Sc({"timeline"}, {"usage"}, 2, 1),
      Sc({"dns"}, {"search", "page", "refresh"}, 2, 0),
      Sc({"dns"}, {"search", "records"}, 2, 0),
      Sc({"dns"}, {"search", "refresh"}, 1, 1),
      Sc({"connections"}, {"connect"}, 1, 1) }

MCForms ==
    { [start |-> 1, end |-> 0, days |-> {1}, tx |-> 1, rx |-> 0],
      [start |-> 0, end |-> 2, days |-> {1, 7}, tx |-> 2, rx |-> 3] }

MCFacts ==
    [d \in {"a", "b"} |->
        IF d = "a"
        THEN [ip |-> 1, online |-> 0, lan_speed |-> 1, wan_speed |-> 2,
              lan_traffic |-> 1, wan_traffic |-> 1]
        ELSE [ip |-> 2, online |-> 0, lan_speed |-> 2, wan_speed |-> 1,
              lan_traffic |-> 1, wan_traffic |-> 1]]
=============================================================================
