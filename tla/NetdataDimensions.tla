-------------------------- MODULE NetdataDimensions --------------------------
(***************************************************************************)
(* The dimensions of a dygraph chart that the user has on show             *)
(* (dimensionStatus, dimensionsVisibility of dashboard.js).  The legend    *)
(* has a label for each dimension of the data; clicks on labels choose     *)
(* what is drawn.  What a chart knows of a dimension outlives its label:   *)
(* the agent may leave it out of some data, and have it again later.       *)
(***************************************************************************)
EXTENDS NetdataBase

CONSTANTS Dimensions    \* the names the data may have

VARIABLE
    dims    \* the dimensions of the data that came last and whether those have points;
            \* the names with labels, once there is a legend; of each name, whether it
            \* is enabled, selected, and marked as such; how many were left out of
            \* the last drawing; what is drawn, once the chart is

dimensionsVars == <<dims>>

Unknown == <<>>
DimsBecome(next) == \E s \in {next} : dims' = s

-----------------------------------------------------------------------------
(* dimensionStatus: select() and unselect() reach enabled ones only.       *)
Enabled(s) == { d \in Dimensions : s.status[d] # Unknown /\ s.status[d].enabled }
IsSelected(s) == { d \in Enabled(s) : s.status[d].selected }
Select(s, names, yes) ==
    [s EXCEPT !.status = [d \in Dimensions |->
        IF d \in names \cap Enabled(s)
        THEN [@[d] EXCEPT !.selected = yes, !.marked = yes] ELSE @[d]]]
SelectAll(s) == Select(s, Dimensions, TRUE)
SelectNone(s) == Select(s, Dimensions, FALSE)

(* dimensionAdd(): a name not known yet is selected if all were; one that  *)
(* is known gets a label as it was left.                                   *)
DimensionAdd(s, d) ==
    LET selected == IF s.status[d] = Unknown THEN s.unselected = 0 ELSE s.status[d].selected
    IN [enabled |-> TRUE, selected |-> selected, marked |-> selected]

(* legendUpdateDOM(): the labels are made anew for other names.            *)
LegendUpdateDOM(s) ==
    IF s.legend = <<s.data>> THEN s
    ELSE [s EXCEPT !.legend = <<s.data>>,
                   !.status = [d \in Dimensions |->
                       IF d \in s.data THEN DimensionAdd(s, d)
                       ELSE IF @[d] = Unknown THEN Unknown
                       ELSE [@[d] EXCEPT !.enabled = FALSE]]]

(* What is selected is drawn, if it is nothing at all.                     *)
SelectedOnly(s) ==
    [s EXCEPT !.drawn = <<s.data \cap IsSelected(s)>>,
              !.unselected = Cardinality(s.data \ IsSelected(s))]

(* selected2BooleanArray(): all are drawn if none is selected.             *)
Selected2BooleanArray(s) ==
    IF s.data \cap IsSelected(s) = {} THEN SelectedOnly(SelectAll(s)) ELSE SelectedOnly(s)

(* updateChartWithData().                                                  *)
Redrawn(s) ==
    IF s.points THEN Selected2BooleanArray(LegendUpdateDOM(s)) ELSE LegendUpdateDOM(s)

-----------------------------------------------------------------------------
DimensionsArrive(names, some) ==
    /\ Does("names")
    /\ DimsBecome(Redrawn([dims EXCEPT !.data = names, !.points = some]))

(* A chart is created anew after so many updates: its labels are gone,     *)
(* what it knows of the dimensions is not.                                 *)
Recreate ==
    /\ dims.legend # <<>> /\ Does("recreate")
    /\ DimsBecome([dims EXCEPT !.legend = <<>>, !.drawn = <<>>])

(* A click on a label, and one with shift or control.                      *)
Only(s, d) == Select(SelectNone(s), {d}, TRUE)
Clicked(s, d, key) ==
    LET others == Select(s, {d}, FALSE) IN
    CASE d \in IsSelected(s) /\ key ->
            IF IsSelected(others) = {} THEN SelectAll(others) ELSE others
      [] d \in IsSelected(s) /\ ~key ->
            IF Cardinality(IsSelected(s)) = 1 THEN SelectAll(s) ELSE Only(s, d)
      [] d \notin IsSelected(s) /\ key -> Select(s, {d}, TRUE)
      [] OTHER -> Only(s, d)
Click(d, key) ==
    /\ dims.legend # <<>> /\ d \in dims.legend[1] /\ Does("click")
    /\ DimsBecome(Redrawn(Clicked(dims, d, key)))

DimensionsInit ==
    dims = [data |-> {}, points |-> FALSE, legend |-> <<>>, drawn |-> <<>>, unselected |-> 0,
            status |-> [d \in Dimensions |-> Unknown]]
DimensionsNext ==
    /\ Runs("dimensions")
    /\ \/ \E names \in (SUBSET Dimensions) \ {{}} : \E some \in BOOLEAN : DimensionsArrive(names, some)
       \/ \E d \in Dimensions, key \in BOOLEAN : Click(d, key)
       \/ Recreate

-----------------------------------------------------------------------------
(* A chart with data draws some of it, and what its legend marks: whatever *)
(* came and went of what the user has chosen, a chart is never empty, and  *)
(* never shows a dimension its legend has as left out (dimensionAdd(),     *)
(* selected2BooleanArray(), the clicks).                                   *)
LegendTellsTheChart ==
    dims.points /\ dims.drawn # <<>> =>
        /\ dims.drawn[1] # {}
        /\ dims.drawn[1] = { d \in dims.legend[1] : dims.status[d].marked }
=============================================================================
