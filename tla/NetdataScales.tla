---------------------------- MODULE NetdataScales ----------------------------
(***************************************************************************)
(* What charts of a dashboard have in common (dashboard.js): the least and *)
(* the greatest value, the units their values are scaled to, and the       *)
(* colors of their dimensions; and how gauges, pies and legends show       *)
(* values with them.  Handlers are functions from states to states.        *)
(*                                                                         *)
(* A chart keeps a function that converts its values.  One that shares its *)
(* units looks, at each use, whether another chart has changed them, and   *)
(* then changes its own, which draws the units anew but not the values     *)
(* that are on show already.                                               *)
(***************************************************************************)
EXTENDS NetdataBase, Integers

CONSTANTS Gauges, Pies, Legends,    \* the charts of each library
          Values,                   \* values of a dimension
          Dividers,                 \* the scale of the units, 1 for the original ones
          Labels, Palette           \* dimensions to be colored, and the theme's colors

Drawn == Gauges \cup Pies \cup Legends
ASSUME ScalesAssumption ==
    /\ Gauges \cap Pies = {} /\ Gauges \cap Legends = {} /\ Pies \cap Legends = {}
    /\ IsFiniteSet(Drawn) /\ Values \subseteq Nat /\ Dividers \subseteq Nat \ {0}
    /\ IsFiniteSet(Values) /\ IsFiniteSet(Dividers)
    /\ 1 \in Dividers /\ Palette \in Seq(STRING) /\ Palette # <<>>

VARIABLES
    common,     \* NETDATA.commonMin, .commonMax, .unitsConversion, .commonColors
    drawn       \* of each chart: its data, how it converts and formats, what it shows

scalesVars == <<common, drawn>>

(* A value may be null, or of no chart yet: an optional value is a         *)
(* sequence.  What is shown is a number with the divider it was made with. *)
Null == <<>>
Dash == [number |-> <<>>, divider |-> 0]
Spots == {"value", "min", "max"}

NewExtreme == [keys |-> [c \in Drawn |-> Null], latest |-> Null]
NewCommon == [min |-> NewExtreme, max |-> NewExtreme, units |-> NewExtreme,
              assigned |-> [l \in Labels |-> Null], available |-> <<>>]
NewDrawn ==
    [data |-> Null, created |-> FALSE, live |-> TRUE, selected |-> FALSE,
     shares |-> FALSE, divider |-> 1, set |-> Null,
     decimals |-> Null, unit |-> 0, old |-> [p \in Spots |-> Null],
     label |-> [p \in Spots |-> Dash], needle |-> 0, timer |-> FALSE, event |-> Null]

Scales == [common |-> common, drawn |-> drawn]
ScalesBecome(next) == \E s \in {next} : common' = s.common /\ drawn' = s.drawn

Known(keys) == { keys[c][1] : c \in { x \in DOMAIN keys : keys[x] # Null } }

-----------------------------------------------------------------------------
(* commonMin.get() and commonMax.get(): what is known already answers; a   *)
(* more extreme value is the new one; any other change looks at all.       *)
CommonMinGet(t, c, min) ==
    IF t.keys[c] = <<min>> THEN t
    ELSE IF t.keys[c] # Null /\ min < t.latest[1]
         THEN [keys |-> [t.keys EXCEPT ![c] = <<min>>], latest |-> <<min>>]
         ELSE LET keys == [t.keys EXCEPT ![c] = <<min>>]
              IN [keys |-> keys, latest |-> <<Min(Known(keys))>>]

(* What was the greatest once stays so.                                    *)
CommonMaxStays(t, c, max) ==
    [keys |-> [t.keys EXCEPT ![c] = <<max>>],
     latest |-> IF t.latest = Null \/ max > t.latest[1] THEN <<max>> ELSE t.latest]

CommonMaxGet(t, c, max) ==
    IF t.keys[c] = <<max>> THEN t
    ELSE IF t.keys[c] # Null /\ max > t.latest[1]
         THEN [keys |-> [t.keys EXCEPT ![c] = <<max>>], latest |-> <<max>>]
         ELSE LET keys == [t.keys EXCEPT ![c] = <<max>>]
              IN [keys |-> keys, latest |-> <<Max(Known(keys))>>]

(* The charts here give no limits of their own.                            *)
CommonRange(s, c) ==
    LET data == s.drawn[c].data[1] IN
    [s EXCEPT !.common.min = CommonMinGet(@, c, data.min),
              !.common.max = CommonMaxGet(@, c, data.max)]

-----------------------------------------------------------------------------
(* Units.                                                                  *)

(* The labels are not forgotten when units are switched.                   *)
SwitchUnitsOnly(s, c, divider) ==
    IF c \in Legends \/ s.drawn[c].created THEN [s EXCEPT !.drawn[c].unit = divider] ELSE s

(* The callback when units are switched: legendSetUnitsString() of a gauge *)
(* has its labels drawn anew the next time.  Gauges and pies have one when *)
(* they have been created, and no other place for units before.            *)
SwitchUnits(s, c, divider) ==
    IF s.drawn[c].unit = divider \/ (c \notin Legends /\ ~s.drawn[c].created) THEN s
    ELSE [s EXCEPT !.drawn[c].unit = divider,
                   !.drawn[c].old = IF c \in Gauges THEN [p \in Spots |-> Null] ELSE @]

(* unitsConversion.get() with units to be scaled automatically: the        *)
(* greatest divider of any chart that shares them.                         *)
AutoScale(min, max) == { d \in Dividers : d <= Max({min, max}) }
UnitsConversionGet(s, c, min, max) ==
    IF AutoScale(min, max) = {}
    THEN SwitchUnits([s EXCEPT !.drawn[c].shares = FALSE, !.drawn[c].divider = 1], c, 1)
    ELSE LET keys    == [s.common.units.keys EXCEPT ![c] = <<Max(AutoScale(min, max))>>]
             divider == Max(Known(keys))
         IN SwitchUnits([s EXCEPT !.common.units = [keys |-> keys, latest |-> <<divider>>],
                                  !.drawn[c].shares = TRUE, !.drawn[c].divider = divider],
                        c, divider)

(* The function it returns: first the units of the others, then the value. *)
Switched(s, c) ==
    LET latest == s.common.units.latest IN
    IF ~s.drawn[c].shares \/ <<s.drawn[c].divider>> = latest THEN s
    ELSE SwitchUnits([s EXCEPT !.drawn[c].divider = latest[1]], c, latest[1])

(* unitsConversionSetup() and legendFormatValueDecimalsFromMinMax(): the   *)
(* range that was set up last is compared with, but kept as converted.     *)
Same(converted, raw) ==
    converted # Null /\ converted[1].number = raw * converted[1].divider
UnitsConversionSetup(s, c, min, max) ==
    IF s.drawn[c].set = <<min, max>> THEN s
    ELSE UnitsConversionGet([s EXCEPT !.drawn[c].set = <<min, max>>], c, min, max)
DecimalsFromMinMax(s, c, min, max) ==
    LET last == s.drawn[c].decimals IN
    IF last # Null /\ Same(<<last[1]>>, min) /\ Same(<<last[2]>>, max) THEN s
    ELSE LET t == Switched(UnitsConversionSetup(s, c, min, max), c)
             converted(v) == [number |-> v, divider |-> t.drawn[c].divider]
         IN [t EXCEPT !.drawn[c].decimals = <<converted(min), converted(max)>>]

(* legendFormatValue(), into a label of the chart.                         *)
ShowLabel(s, c, part, v) ==
    IF v = Null THEN [s EXCEPT !.drawn[c].label[part] = Dash]
    ELSE LET t == Switched(s, c) IN
         [t EXCEPT !.drawn[c].label[part] =
              [number |-> v, divider |-> t.drawn[c].divider]]

-----------------------------------------------------------------------------
(* Gauges.                                                                 *)

(* gaugeSet(): the needle, in percent of a range that holds the value.     *)
GaugeSet(s, c, value, min, max) ==
    LET low  == Min({min, value})
        high == IF Max({max, value}) = low THEN low + 1 ELSE Max({max, value})
    IN [DecimalsFromMinMax(s, c, low, high)
        EXCEPT !.drawn[c].needle = ((value - low) * 100) \div (high - low)]

(* gaugeSetLabels(): only those that changed, or that a change of units    *)
(* has cleared.                                                            *)
GaugeSetLabel(s, c, part, v) ==
    IF s.drawn[c].old[part] = v THEN s
    ELSE ShowLabel([s EXCEPT !.drawn[c].old[part] = v], c, part, v)
GaugeSetLabels(s, c, value, min, max) ==
    GaugeSetLabel(GaugeSetLabel(GaugeSetLabel(s, c, "value", value), c, "min", min), c, "max", max)

(* gaugeChartCreate(), gaugeChartUpdate(): an update shows nothing of a    *)
(* chart that is panned.                                                   *)
GaugeDraw(s, c) ==
    LET t     == CommonRange(s, c)
        value == s.drawn[c].data[1].value
        max   == Max({t.common.max.latest[1], value})
    IN GaugeSetLabels(GaugeSet(t, c, value, 0, max), c, <<value>>, <<0>>, <<max>>)
GaugeChartCreate(s, c) == [GaugeDraw(s, c) EXCEPT !.drawn[c].created = TRUE]
GaugeChartUpdate(s, c) ==
    IF s.drawn[c].live THEN GaugeDraw(s, c)
    ELSE [GaugeSetLabels(s, c, Null, Null, Null) EXCEPT !.drawn[c].needle = 0]

(* gaugeClearSelection().                                                  *)
GaugeClearSelection(s, c, force) ==
    LET t == [s EXCEPT !.drawn[c].timer = FALSE] IN
    IF t.drawn[c].live /\ t.drawn[c].data # Null /\ ~force THEN GaugeChartUpdate(t, c)
    ELSE GaugeSet(GaugeSetLabels(t, c, Null, Null, Null), c, 0, 0, 0)

(* gaugeSetSelection(): the labels at once, the needle by a timer.         *)
GaugeSetSelection(s, c, value) ==
    IF value = Null THEN GaugeClearSelection(s, c, TRUE)
    ELSE LET t   == CommonRange(s, c)
             max == t.common.max.latest
         IN [GaugeSetLabels(t, c, value, <<0>>, max)
             EXCEPT !.drawn[c].event = <<[value |-> value[1], max |-> max[1]]>>,
                    !.drawn[c].timer = TRUE]

-----------------------------------------------------------------------------
(* Pies: a label and a percentage.                                         *)

(* easypiechartPercentFromValueMinMax().  An empty range is 0 / 0.         *)
EasypiechartPercent(s, c, value, min, max) ==
    LET low  == Min({min, value})
        high == Max({max, value})
    IN [DecimalsFromMinMax(s, c, low, high)
        EXCEPT !.drawn[c].needle = IF high = 0 THEN 0 ELSE (value * 100) \div high]

(* The update, and the creation, which shows the value before its units    *)
(* are known.                                                              *)
EasypiechartCommon(s, c) ==
    LET t == CommonRange(s, c) IN
    EasypiechartPercent(t, c, s.drawn[c].data[1].value, t.common.min.latest[1],
                        t.common.max.latest[1])
EasypiechartChartCreate(s, c) ==
    [EasypiechartCommon(ShowLabel(s, c, "value", <<s.drawn[c].data[1].value>>), c)
     EXCEPT !.drawn[c].created = TRUE]
EasypiechartChartUpdate(s, c) ==
    IF s.drawn[c].live
    THEN ShowLabel(EasypiechartCommon(s, c), c, "value", <<s.drawn[c].data[1].value>>)
    ELSE [ShowLabel(s, c, "value", Null) EXCEPT !.drawn[c].needle = 0]

EasypiechartClearSelection(s, c, force) ==
    LET t == [s EXCEPT !.drawn[c].timer = FALSE] IN
    IF t.drawn[c].live /\ t.drawn[c].data # Null /\ ~force THEN EasypiechartChartUpdate(t, c)
    ELSE [ShowLabel(t, c, "value", Null) EXCEPT !.drawn[c].needle = 0]

EasypiechartSetSelection(s, c, value) ==
    IF value = Null THEN EasypiechartClearSelection(s, c, TRUE)
    ELSE LET t == CommonRange(s, c)
             u == EasypiechartPercent(t, c, value[1], t.common.min.latest[1],
                                      t.common.max.latest[1])
         IN [ShowLabel(u, c, "value", value)
             EXCEPT !.drawn[c].event = <<[value |-> value[1], max |-> u.drawn[c].needle]>>,
                    !.drawn[c].timer = TRUE, !.drawn[c].needle = s.drawn[c].needle]

-----------------------------------------------------------------------------
(* Legends: the units, and a value for each of two dimensions.             *)

(* legendShowUndefined(), which gauges and pies replace by the end of      *)
(* their selection when they are created.                                  *)
LegendShowUndefined(s, c) ==
    CASE c \in Gauges -> GaugeClearSelection(s, c, FALSE)
      [] c \in Pies -> EasypiechartClearSelection(s, c, FALSE)
      [] OTHER -> ShowLabel(ShowLabel(s, c, "min", Null), c, "max", Null)

(* legendShowLatestValues(): the units of gauges and pies, too.            *)
LegendShowLatestValues(s, c) ==
    IF s.drawn[c].selected THEN s
    ELSE IF ~s.drawn[c].live THEN LegendShowUndefined(s, c)
    ELSE LET t == SwitchUnits(s, c, s.drawn[c].divider) IN
         IF c \notin Legends THEN t
         ELSE ShowLabel(ShowLabel(t, c, "max", <<s.drawn[c].data[1].max>>),
                        c, "min", <<s.drawn[c].data[1].min>>)

(* The axis of a dygraph chart sets the decimals while it is drawn.        *)
DygraphUpdate(s, c) ==
    LET data == s.drawn[c].data[1] IN
    [DecimalsFromMinMax(s, c, data.min, data.max) EXCEPT !.drawn[c].created = TRUE]

(* legendFormatter(), of the row that is selected; a time the data do not  *)
(* have selects nothing.                                                   *)
LegendSetSelection(s, c, value) ==
    IF value = Null THEN [LegendShowUndefined(s, c) EXCEPT !.drawn[c].selected = FALSE]
    ELSE ShowLabel(ShowLabel(s, c, "max", value), c, "min", value)

-----------------------------------------------------------------------------
(* commonColors.get(): a dimension keeps its color; the palette is filled  *)
(* again when it has run out.                                              *)
Refill(s) ==
    IF s.common.available = <<>> THEN [s EXCEPT !.common.available = Palette] ELSE s
CommonColorsGet(s, label) ==
    LET t == Refill(s) IN
    IF t.common.assigned[label] # Null THEN t
    ELSE [t EXCEPT !.common.assigned[label] = <<Head(t.common.available)>>,
                   !.common.available = Tail(@)]

-----------------------------------------------------------------------------
(* What happens to a chart.                                                *)

(* clearSelection(), and globalSelectionSync.stop() for all charts.        *)
ClearSelection(s, c) ==
    LET t == [s EXCEPT !.drawn[c].selected = FALSE] IN
    LegendShowLatestValues(
        CASE c \in Gauges -> GaugeClearSelection(t, c, FALSE)
          [] c \in Pies -> EasypiechartClearSelection(t, c, FALSE)
          [] OTHER -> t, c)
StopSelection(s) ==
    LET slaves == SetToSeq({ c \in Drawn : s.drawn[c].selected })
        stopped[n \in 0..Len(slaves)] ==
            IF n = 0 THEN s ELSE ClearSelection(stopped[n - 1], slaves[n])
    IN stopped[Len(slaves)]

(* updateChartWithData(): the chart is created or updated, and the latest  *)
(* values are shown; new data of a selected chart end the selection.       *)
UpdateOf(s, c) ==
    LET t == LegendShowLatestValues(
                 CASE c \in Gauges /\ s.drawn[c].created -> GaugeChartUpdate(s, c)
                   [] c \in Gauges /\ ~s.drawn[c].created -> GaugeChartCreate(s, c)
                   [] c \in Pies /\ s.drawn[c].created -> EasypiechartChartUpdate(s, c)
                   [] c \in Pies /\ ~s.drawn[c].created -> EasypiechartChartCreate(s, c)
                   [] OTHER -> DygraphUpdate(s, c), c)
    IN IF t.drawn[c].selected THEN StopSelection(t) ELSE t

DataArrives(c, value, max) ==
    /\ Does("data") /\ value <= max
    /\ ScalesBecome(UpdateOf([Scales EXCEPT !.drawn[c].data =
                                  <<[value |-> value, min |-> 0, max |-> max]>>], c))
PanOrReset(c, live) ==
    /\ drawn[c].data # Null /\ drawn[c].live # live /\ Does("scroll")
    /\ ScalesBecome(UpdateOf([Scales EXCEPT !.drawn[c].live = live], c))
(* setSelection(), and its end.                                            *)
SelectValue(c, value) ==
    /\ drawn[c].data # Null /\ Does("select")
    /\ value # Null => value[1] <= drawn[c].data[1].max
    /\ LET s == [Scales EXCEPT !.drawn[c].selected = TRUE] IN
       ScalesBecome(CASE c \in Gauges -> GaugeSetSelection(s, c, value)
                      [] c \in Pies -> EasypiechartSetSelection(s, c, value)
                      [] OTHER -> LegendSetSelection(s, c, value))
Deselect(c) ==
    /\ drawn[c].selected /\ Does("select")
    /\ ScalesBecome(ClearSelection(Scales, c))
SelectionTimer(c) ==
    /\ drawn[c].timer
    /\ LET s == [Scales EXCEPT !.drawn[c].timer = FALSE]
           e == drawn[c].event[1]
       IN ScalesBecome(IF c \in Gauges THEN GaugeSet(s, c, e.value, 0, e.max)
                       ELSE [s EXCEPT !.drawn[c].needle = e.max])
    /\ UNCHANGED budget
LabelIsColored(label) ==
    /\ common.assigned[label] = Null /\ Does("color")
    /\ ScalesBecome(CommonColorsGet(Scales, label))

ScalesInit == common = NewCommon /\ drawn = [c \in Drawn |-> NewDrawn]
ScalesNext ==
    /\ Runs("scales")
    /\ \/ \E c \in Drawn : \E value, max \in Values : DataArrives(c, value, max)
       \/ \E c \in Drawn, live \in BOOLEAN : PanOrReset(c, live)
       \/ \E c \in Drawn : \E value \in {Null} \cup { <<v>> : v \in Values } : SelectValue(c, value)
       \/ \E c \in Drawn : Deselect(c) \/ SelectionTimer(c)
       \/ \E label \in Labels : LabelIsColored(label)

-----------------------------------------------------------------------------
(* The common scale is that of all charts that have one, although it is    *)
(* kept up to date from one chart at a time and mostly without looking at  *)
(* the others (commonMin.get(), commonMax.get()).                          *)
ScaleHoldsAll ==
    /\ Known(common.min.keys) # {} => common.min.latest = <<Min(Known(common.min.keys))>>
    /\ Known(common.max.keys) # {} => common.max.latest = <<Max(Known(common.max.keys))>>

(* After new data of a live chart have been drawn, all its numbers are in  *)
(* the units it shows, whichever chart has switched the common units       *)
(* meanwhile (unitsConversion.get(), legendSetUnitsString(),               *)
(* gaugeSetLabels()).  Not when it is created: a pie shows its first value *)
(* as it is, and learns its units then.  Nor when it is panned: a null is  *)
(* both a label to be drawn anew and one to be emptied, so that one which  *)
(* is to be emptied just after a change of units stays.  Nor by a          *)
(* selection, which may switch the units while it draws the last label;    *)
(* and so do data that leave a gauge its value and whose range is taken    *)
(* for the last one, as one that is equal to the last one converted is.    *)
LabelsAgree(c) ==
    \A spot \in Spots :
        drawn[c].label[spot] # Dash => drawn[c].label[spot].divider = drawn[c].unit
OnlyTheGreatest(c) ==
    /\ c \in Gauges /\ drawn'[c].set = drawn[c].set
    /\ drawn'[c].data[1].value = drawn[c].data[1].value
DataAreInTheUnits ==
    [][\A c \in Drawn : drawn[c].created /\ drawn[c].live /\ drawn'[c].data # drawn[c].data
            => LabelsAgree(c)' \/ OnlyTheGreatest(c)]_scalesVars
=============================================================================
