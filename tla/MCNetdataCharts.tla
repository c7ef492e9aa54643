--------------------------- MODULE MCNetdataCharts ---------------------------
(***************************************************************************)
(* Two charts on one page.  Each scenario gives the user two or three      *)
(* kinds of gesture and lets a little fail, so that together they reach    *)
(* every callback: dygraphs and a chart of another library, a page that    *)
(* has just been opened and one that has been open, the synchronous and    *)
(* the asynchronous onscroll handler, charts destroyed when hidden.        *)
(***************************************************************************)
EXTENDS NetdataCharts

Sc(async, destroy, dygraphs, warm, does, acts, fails) ==
    [async |-> async, destroy |-> destroy, dygraphs |-> dygraphs, warm |-> warm,
     does |-> does, acts |-> acts, fails |-> fails]

MCScenarios ==
    { Sc(FALSE, FALSE, {"cpu"}, TRUE, {"hover", "drag"}, 2, 0),
      Sc(FALSE, FALSE, {"cpu", "ram"}, TRUE, {"toolbox", "reset"}, 2, 0),
      Sc(FALSE, TRUE, {"cpu"}, TRUE, {"wheel", "scroll"}, 2, 0),
      Sc(TRUE, TRUE, {"cpu"}, TRUE, {"scroll"}, 2, 1),
      Sc(TRUE, FALSE, {"cpu"}, FALSE, {}, 0, 2),
      Sc(TRUE, FALSE, {"cpu"}, TRUE, {"edge", "resize", "scroll"}, 2, 0),
      Sc(FALSE, FALSE, {"cpu"}, TRUE, {"touch"}, 2, 0),
      Sc(FALSE, FALSE, {"cpu"}, TRUE, {"page", "abort"}, 2, 1) }
=============================================================================
