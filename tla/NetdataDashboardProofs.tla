------------------------ MODULE NetdataDashboardProofs ------------------------
(***************************************************************************)
(* Proofs about netdata's dashboard page, for any charts, dimensions,      *)
(* values and time frames, and scenarios of any length.                    *)
(***************************************************************************)
EXTENDS NetdataDashboard, FiniteSetTheorems, WellFoundedInduction, TLAPS

-----------------------------------------------------------------------------
(* The dimensions on show.                                                 *)

(* What is known of a dimension: it is marked as it is selected.           *)
Statuses0 == [enabled : BOOLEAN, selected : BOOLEAN, marked : BOOLEAN]
Marks(s) ==
    /\ DOMAIN s = {"data", "points", "legend", "drawn", "unselected", "status"}
    /\ s.data \subseteq Dimensions /\ s.points \in BOOLEAN
    /\ s.status \in [Dimensions -> Statuses0 \cup {Unknown}]
    /\ \A d \in Dimensions : s.status[d] # Unknown => s.status[d].marked = s.status[d].selected

(* The legend has the dimensions of the data, which are those enabled, and *)
(* what is drawn are the selected ones of them.                            *)
Legended(s) ==
    /\ s.legend = <<s.data>> /\ s.data # {}
    /\ Enabled(s) = s.data
DrawnRight(s) ==
    s.points /\ s.drawn # <<>> => s.drawn[1] # {} /\ s.drawn[1] = s.data \cap IsSelected(s)
DimsRight(s) ==
    /\ Marks(s) /\ DrawnRight(s)
    /\ s.legend # <<>> => Legended(s)
    /\ s.legend = <<>> => s.drawn = <<>>

LEMMA RecordIsNotUnknown == \A r \in Statuses0 : r # Unknown
  BY DEF Statuses0, Unknown

LEMMA SelectMarks ==
  ASSUME NEW s, Marks(s), NEW names \in SUBSET Dimensions, NEW yes \in BOOLEAN
  PROVE  LET t == Select(s, names, yes) IN
         /\ Marks(t) /\ t.data = s.data /\ t.points = s.points /\ t.legend = s.legend
         /\ t.drawn = s.drawn /\ Enabled(t) = Enabled(s)
         /\ IsSelected(t) = IF yes THEN IsSelected(s) \cup (names \cap Enabled(s))
                            ELSE IsSelected(s) \ names
<1> DEFINE t == Select(s, names, yes)
<1>1. /\ DOMAIN t = DOMAIN s /\ t.data = s.data /\ t.points = s.points /\ t.legend = s.legend
      /\ t.drawn = s.drawn /\ DOMAIN t.status = Dimensions
  BY DEF Select, Marks
<1>2. ASSUME NEW d \in Dimensions
      PROVE  /\ t.status[d] = IF d \in names \cap Enabled(s)
                              THEN [s.status[d] EXCEPT !.selected = yes, !.marked = yes]
                              ELSE s.status[d]
             /\ t.status[d] \in Statuses0 \cup {Unknown}
             /\ t.status[d] = Unknown <=> s.status[d] = Unknown
             /\ s.status[d] # Unknown =>
                   /\ t.status[d].enabled = s.status[d].enabled
                   /\ t.status[d].selected = IF d \in names \cap Enabled(s) THEN yes
                                             ELSE s.status[d].selected
                   /\ t.status[d].marked = t.status[d].selected
  <2>1. s.status[d] \in Statuses0 \cup {Unknown}
        /\ (s.status[d] # Unknown => s.status[d].marked = s.status[d].selected)
    BY DEF Marks
  <2>2. t.status[d] = IF d \in names \cap Enabled(s)
                      THEN [s.status[d] EXCEPT !.selected = yes, !.marked = yes]
                      ELSE s.status[d]
    BY DEF Select, Marks
  <2>3. CASE d \in names \cap Enabled(s)
    <3>1. s.status[d] \in Statuses0
      BY <2>1, <2>3 DEF Enabled
    <3>2. t.status[d] = [s.status[d] EXCEPT !.selected = yes, !.marked = yes]
      BY <2>2, <2>3
    <3>3. t.status[d] \in Statuses0 /\ t.status[d].enabled = s.status[d].enabled
          /\ t.status[d].selected = yes /\ t.status[d].marked = yes
      BY <3>1, <3>2 DEF Statuses0
    <3> QED
      BY <2>2, <2>3, <3>1, <3>3, RecordIsNotUnknown
  <2>4. CASE d \notin names \cap Enabled(s)
    BY <2>1, <2>2, <2>4
  <2> QED
    BY <2>3, <2>4
<1> HIDE DEF t
<1>3. t.status \in [Dimensions -> Statuses0 \cup {Unknown}]
  <2>1. t.status = [d \in Dimensions |-> t.status[d]]
    BY <1>1 DEF t, Select
  <2> QED
    BY <1>2, <2>1
<1>4. Marks(t)
  BY <1>1, <1>2, <1>3, ZenonT(30) DEF Marks
<1>5. Enabled(t) = Enabled(s)
  BY <1>2 DEF Enabled
<1>6. IsSelected(t) = IF yes THEN IsSelected(s) \cup (names \cap Enabled(s))
                      ELSE IsSelected(s) \ names
  <2>1. ASSUME NEW d \in Dimensions
        PROVE  d \in IsSelected(t) <=>
                   d \in IF yes THEN IsSelected(s) \cup (names \cap Enabled(s))
                         ELSE IsSelected(s) \ names
    BY <1>2, <1>5 DEF IsSelected, Enabled
  <2>2. IsSelected(t) \subseteq Dimensions /\ IsSelected(s) \subseteq Dimensions
    BY DEF IsSelected, Enabled
  <2> QED
    BY <2>1, <2>2, SMTT(30)
<1> QED
  BY <1>1, <1>4, <1>5, <1>6 DEF t

(* The legend is made of the data, and has each of them enabled.           *)
LEMMA LegendIsMade ==
  ASSUME NEW s, Marks(s), s.data # {}, s.legend = <<s.data>> => Legended(s)
  PROVE  LET t == LegendUpdateDOM(s) IN
         /\ Marks(t) /\ Legended(t) /\ t.data = s.data /\ t.points = s.points
         /\ t.drawn = s.drawn
<1> DEFINE t == LegendUpdateDOM(s)
<1>1. CASE s.legend = <<s.data>>
  BY <1>1 DEF LegendUpdateDOM
<1>2. CASE s.legend # <<s.data>>
  <2>1. t = [s EXCEPT !.legend = <<s.data>>,
                      !.status = [d \in Dimensions |->
                          IF d \in s.data THEN DimensionAdd(s, d)
                          ELSE IF s.status[d] = Unknown THEN Unknown
                          ELSE [s.status[d] EXCEPT !.enabled = FALSE]]]
    BY <1>2 DEF LegendUpdateDOM, Marks
  <2>2. /\ DOMAIN t = DOMAIN s /\ t.data = s.data /\ t.points = s.points
        /\ t.legend = <<s.data>> /\ t.drawn = s.drawn
        /\ t.status = [d \in Dimensions |->
                          IF d \in s.data THEN DimensionAdd(s, d)
                          ELSE IF s.status[d] = Unknown THEN Unknown
                          ELSE [s.status[d] EXCEPT !.enabled = FALSE]]
    BY <2>1 DEF Marks
  <2> HIDE DEF t
  <2>3. ASSUME NEW d \in Dimensions
        PROVE  /\ t.status[d] \in Statuses0 \cup {Unknown}
               /\ t.status[d] # Unknown => t.status[d].marked = t.status[d].selected
               /\ d \in s.data => t.status[d] # Unknown /\ t.status[d].enabled
               /\ d \notin s.data => t.status[d] = Unknown \/ ~t.status[d].enabled
    <3>1. s.status[d] \in Statuses0 \cup {Unknown}
          /\ (s.status[d] # Unknown => s.status[d].marked = s.status[d].selected)
      BY DEF Marks
    <3>2. CASE d \in s.data
      <4>1. t.status[d] = DimensionAdd(s, d)
        BY <2>2, <3>2
      <4> DEFINE selected == IF s.status[d] = Unknown THEN s.unselected = 0
                             ELSE s.status[d].selected
      <4>2. selected \in BOOLEAN
        BY <3>1 DEF Statuses0
      <4>3. t.status[d] = [enabled |-> TRUE, selected |-> selected, marked |-> selected]
        BY <4>1 DEF DimensionAdd
      <4> HIDE DEF selected
      <4>4. t.status[d] \in Statuses0 /\ t.status[d].enabled
            /\ t.status[d].marked = t.status[d].selected
        BY <4>2, <4>3 DEF Statuses0
      <4> QED
        BY <3>2, <4>4, RecordIsNotUnknown
    <3>3. CASE d \notin s.data /\ s.status[d] = Unknown
      BY <2>2, <3>3
    <3>4. CASE d \notin s.data /\ s.status[d] # Unknown
      <4>1. t.status[d] = [s.status[d] EXCEPT !.enabled = FALSE] /\ s.status[d] \in Statuses0
        BY <2>2, <3>1, <3>4
      <4>2. t.status[d] \in Statuses0 /\ ~t.status[d].enabled
            /\ t.status[d].marked = t.status[d].selected
        BY <3>1, <3>4, <4>1 DEF Statuses0
      <4> QED
        BY <3>4, <4>2
    <3> QED
      BY <3>2, <3>3, <3>4
  <2>4. t.status \in [Dimensions -> Statuses0 \cup {Unknown}]
    BY <2>2, <2>3
  <2>5. Marks(t)
    BY <2>2, <2>3, <2>4 DEF Marks
  <2>6. Enabled(t) = s.data
    BY <2>3 DEF Enabled, Marks
  <2> QED
    BY <2>2, <2>5, <2>6 DEF t, Legended
<1> QED
  BY <1>1, <1>2

(* With points, what is drawn is what is selected, and not nothing.        *)
LEMMA DrawnFromLegend ==
  ASSUME NEW s, Marks(s), Legended(s), s.points
  PROVE  DimsRight(Selected2BooleanArray(s))
<1>1. ASSUME NEW u, Marks(u), Legended(u), u.data \cap IsSelected(u) # {}
      PROVE  DimsRight(SelectedOnly(u))
  <2> DEFINE t == SelectedOnly(u)
  <2>1. /\ DOMAIN t = DOMAIN u /\ t.data = u.data /\ t.points = u.points
        /\ t.legend = u.legend /\ t.status = u.status
        /\ t.drawn = <<u.data \cap IsSelected(u)>>
    BY <1>1 DEF SelectedOnly, Marks
  <2> HIDE DEF t
  <2>2. Enabled(t) = Enabled(u) /\ IsSelected(t) = IsSelected(u)
    BY <2>1 DEF Enabled, IsSelected
  <2>3. Marks(t) /\ Legended(t)
    BY <1>1, <2>1, <2>2 DEF Marks, Legended
  <2> QED
    BY <1>1, <2>1, <2>2, <2>3 DEF t, DimsRight, DrawnRight, Legended
<1>2. CASE s.data \cap IsSelected(s) = {}
  <2> DEFINE u == SelectAll(s)
  <2>1. /\ Marks(u) /\ u.data = s.data /\ u.legend = s.legend
        /\ Enabled(u) = Enabled(s) /\ Enabled(s) \subseteq IsSelected(u)
    <3>1. Enabled(s) \subseteq Dimensions
      BY DEF Enabled
    <3>2. u = Select(s, Dimensions, TRUE) /\ Dimensions \in SUBSET Dimensions
      BY DEF SelectAll
    <3> HIDE DEF u
    <3>3. /\ Marks(u) /\ u.data = s.data /\ u.legend = s.legend /\ Enabled(u) = Enabled(s)
          /\ IsSelected(u) = IsSelected(s) \cup (Dimensions \cap Enabled(s))
      BY <3>2, SelectMarks, ZenonT(30)
    <3> QED
      BY <3>1, <3>3
  <2> HIDE DEF u
  <2>2. Legended(u) /\ u.data \cap IsSelected(u) # {}
    BY <2>1 DEF Legended
  <2> QED
    BY <1>1, <1>2, <2>1, <2>2 DEF Selected2BooleanArray, u
<1> QED
  BY <1>1, <1>2 DEF Selected2BooleanArray

LEMMA RedrawnRight ==
  ASSUME NEW s, Marks(s), s.data # {}, s.legend = <<s.data>> => Legended(s)
  PROVE  DimsRight(Redrawn(s))
<1> DEFINE t == LegendUpdateDOM(s)
<1>1. Marks(t) /\ Legended(t) /\ t.points = s.points
  BY LegendIsMade
<1>2. CASE s.points
  BY <1>1, <1>2, DrawnFromLegend DEF Redrawn
<1>3. CASE ~s.points
  <2>1. Redrawn(s) = t
    BY <1>3 DEF Redrawn
  <2> HIDE DEF t
  <2>2. t.legend # <<>> /\ ~t.points
    BY <1>1, <1>3 DEF Legended
  <2>3. DimsRight(t)
    BY <1>1, <2>2 DEF DimsRight, DrawnRight
  <2> QED
    BY <2>1, <2>3
<1> QED
  BY <1>2, <1>3

LEMMA ClickMarks ==
  ASSUME NEW s, Marks(s), NEW d \in Dimensions, NEW key
  PROVE  LET t == Clicked(s, d, key) IN
         /\ Marks(t) /\ t.data = s.data /\ t.legend = s.legend /\ Enabled(t) = Enabled(s)
<1> DEFINE Like(t) == /\ Marks(t) /\ t.data = s.data /\ t.legend = s.legend
                      /\ Enabled(t) = Enabled(s)
<1>1. ASSUME NEW t, Like(t), NEW names \in SUBSET Dimensions, NEW yes \in BOOLEAN
      PROVE  Like(Select(t, names, yes))
  BY <1>1, SelectMarks
<1> HIDE DEF Like
<1>2. Like(s)
  BY DEF Like
<1>3. ASSUME NEW t, Like(t) PROVE Like(SelectAll(t)) /\ Like(SelectNone(t))
  BY <1>1, <1>3 DEF SelectAll, SelectNone
<1>4. Like(Only(s, d)) /\ Like(Select(s, {d}, FALSE)) /\ Like(Select(s, {d}, TRUE))
  BY <1>1, <1>2, <1>3 DEF Only
<1>5. Clicked(s, d, key) \in
          {SelectAll(Select(s, {d}, FALSE)), Select(s, {d}, FALSE), SelectAll(s), Only(s, d),
           Select(s, {d}, TRUE)}
  BY DEF Clicked
<1>6. Like(Clicked(s, d, key))
  BY <1>2, <1>3, <1>4, <1>5
<1> QED
  BY <1>6 DEF Like

DimsInPlace == DimsRight(dims)
LEMMA NextDims == DimsInPlace /\ [Next]_dashboardVars => DimsInPlace'
<1> USE DEF DimsInPlace
<1> SUFFICES ASSUME DimsRight(dims), [Next]_dashboardVars PROVE DimsRight(dims')
  OBVIOUS
<1>1. ASSUME NEW names \in (SUBSET Dimensions) \ {{}}, NEW some \in BOOLEAN,
             DimensionsArrive(names, some)
      PROVE  DimsRight(dims')
  <2> DEFINE s == [dims EXCEPT !.data = names, !.points = some]
  <2>1. dims' = Redrawn(s)
    BY <1>1 DEF DimensionsArrive, DimsBecome
  <2>2. DOMAIN s = DOMAIN dims /\ s.data = names /\ s.points = some
        /\ s.status = dims.status /\ s.legend = dims.legend /\ s.drawn = dims.drawn
    BY DEF DimsRight, Marks
  <2>3. Marks(s)
    BY <2>2 DEF DimsRight, Marks
  <2>4. s.legend = <<s.data>> => Legended(s)
    <3>1. ASSUME s.legend = <<s.data>> PROVE Legended(s)
      <4>1. dims.legend # <<>> /\ Legended(dims)
        BY <2>2, <3>1 DEF DimsRight
      <4>2. dims.data = names
        BY <2>2, <3>1, <4>1 DEF Legended
      <4>3. Enabled(s) = Enabled(dims)
        BY <2>2 DEF Enabled
      <4> QED
        BY <2>2, <4>1, <4>2, <4>3 DEF Legended
    <3> QED
      BY <3>1
  <2> HIDE DEF s
  <2>5. s.data # {}
    BY <2>2
  <2> QED
    BY <2>1, <2>3, <2>4, <2>5, RedrawnRight
<1>2. ASSUME NEW d \in Dimensions, NEW key \in BOOLEAN, Click(d, key)
      PROVE  DimsRight(dims')
  <2> DEFINE s == Clicked(dims, d, key)
  <2>1. dims' = Redrawn(s) /\ dims.legend # <<>>
    BY <1>2 DEF Click, DimsBecome
  <2>2. Marks(s) /\ s.data = dims.data /\ s.legend = dims.legend /\ Enabled(s) = Enabled(dims)
    BY ClickMarks DEF DimsRight
  <2> HIDE DEF s
  <2>3. Legended(s) /\ s.data # {}
    BY <2>1, <2>2 DEF DimsRight, Legended
  <2> QED
    BY <2>1, <2>2, <2>3, RedrawnRight
<1>3. ASSUME Recreate PROVE DimsRight(dims')
  <2>1. dims' = [dims EXCEPT !.legend = <<>>, !.drawn = <<>>]
    BY <1>3 DEF Recreate, DimsBecome
  <2>2. DOMAIN dims' = DOMAIN dims /\ dims'.data = dims.data /\ dims'.points = dims.points
        /\ dims'.status = dims.status /\ dims'.legend = <<>> /\ dims'.drawn = <<>>
    BY <2>1 DEF DimsRight, Marks
  <2> QED
    BY <2>2 DEF DimsRight, Marks, DrawnRight
<1>4. CASE UNCHANGED dims
  BY <1>4
<1>5. CASE DimensionsNext
  BY <1>1, <1>2, <1>3, <1>5 DEF DimensionsNext
<1>6. UNCHANGED dims \/ DimensionsNext
  BY DEF Next, dashboardVars, dimensionsVars
<1> QED
  BY <1>4, <1>5, <1>6

(* A chart with data draws some of it, and what its legend marks, whatever *)
(* names came and went of those the user has chosen and for any number of  *)
(* dimensions (dimensionAdd(), selected2BooleanArray(), the clicks).       *)
THEOREM LegendTrue == Spec => []LegendTellsTheChart
<1>1. Init => DimsInPlace
  <2> USE DEF DimsInPlace
  <2> SUFFICES ASSUME Init PROVE DimsRight(dims)
    OBVIOUS
  <2>1. dims = [data |-> {}, points |-> FALSE, legend |-> <<>>, drawn |-> <<>>, unselected |-> 0,
                status |-> [d \in Dimensions |-> Unknown]]
    BY DEF Init, DimensionsInit
  <2>2. dims.status \in [Dimensions -> Statuses0 \cup {Unknown}]
        /\ \A d \in Dimensions : dims.status[d] = Unknown
    BY <2>1
  <2> QED
    BY <2>1, <2>2 DEF DimsRight, Marks, DrawnRight
<1>2. DimsInPlace => LegendTellsTheChart
  <2> USE DEF DimsInPlace
  <2> SUFFICES ASSUME DimsRight(dims), dims.points, dims.drawn # <<>>
               PROVE  /\ dims.drawn[1] # {}
                      /\ dims.drawn[1] = { d \in dims.legend[1] : dims.status[d].marked }
    BY DEF LegendTellsTheChart
  <2>1. /\ dims.drawn[1] # {} /\ dims.drawn[1] = dims.data \cap IsSelected(dims)
        /\ dims.legend = <<dims.data>> /\ Enabled(dims) = dims.data
    BY DEF DimsRight, DrawnRight, Legended
  <2>2. ASSUME NEW d \in dims.data
        PROVE  d \in IsSelected(dims) <=> dims.status[d].marked
    <3>1. dims.status[d] # Unknown /\ d \in Enabled(dims)
          /\ dims.status[d].marked = dims.status[d].selected
      BY <2>1 DEF Enabled, DimsRight, Marks
    <3> QED
      BY <3>1 DEF IsSelected
  <2>3. dims.legend[1] = dims.data
    BY <2>1
  <2> QED
    BY <2>1, <2>2, <2>3
<1> QED
  BY <1>1, <1>2, NextDims, PTL DEF Spec

-----------------------------------------------------------------------------
(* Induction, from the least number of a set of them.                      *)
LEMMA UpTo ==
  ASSUME NEW n \in Nat, NEW T, 0 \in T, \A m \in 0..n : m \in T /\ m < n => m + 1 \in T
  PROVE  \A m \in 0..n : m \in T
<1> DEFINE U == { m \in 0..n : m \notin T }
           R == OpToRel(<, Nat)
<1> SUFFICES ASSUME U # {} PROVE FALSE
  OBVIOUS
<1>1. IsWellFoundedOn(R, Nat)
  BY NatLessThanWellFounded
<1>2. U \subseteq Nat
  OBVIOUS
<1>3. PICK x \in U : \A y \in U : <<y, x>> \notin R
  <2> HIDE DEF R, U
  <2> QED
    BY <1>1, <1>2, WFMin
<1>4. x \in 0..n /\ x \notin T /\ x # 0
  OBVIOUS
<1> HIDE DEF R, U
<1>5. x \in 1..n /\ x - 1 \in 0..n /\ x - 1 < n /\ x - 1 \in Nat /\ x \in Nat /\ x - 1 < x
  BY <1>4
<1>6. <<x - 1, x>> \in R
  BY <1>5 DEF OpToRel, R
<1>7. x - 1 \in T
  BY <1>3, <1>5, <1>6 DEF U
<1>8. (x - 1) + 1 \in T
  BY <1>5, <1>7
<1> QED
  BY <1>4, <1>5, <1>8

(* A set of numbers has a least one, and a greatest one if it is finite.   *)
LEMMA MinOfNaturals ==
  ASSUME NEW S \in SUBSET Nat, S # {}
  PROVE  Min(S) \in S /\ \A x \in S : Min(S) <= x
<1> DEFINE R == OpToRel(<, Nat)
<1>1. IsWellFoundedOn(R, Nat)
  BY NatLessThanWellFounded
<1>2. PICK x \in S : \A y \in S : <<y, x>> \notin R
  <2> HIDE DEF R
  <2> QED
    BY <1>1, WFMin
<1>3. ASSUME NEW y \in S PROVE x <= y
  <2>1. x \in Nat /\ y \in Nat /\ <<y, x>> \notin R
    BY <1>2
  <2>2. ~(y < x)
    BY <2>1 DEF OpToRel
  <2> HIDE DEF R
  <2> QED
    BY <2>1, <2>2
<1> HIDE DEF R
<1>4. \E z \in S : \A y \in S : z <= y
  BY <1>3
<1> QED
  BY <1>4 DEF Min

LEMMA FiniteIsBounded ==
  ASSUME NEW S \in SUBSET Nat, IsFiniteSet(S)
  PROVE  \E b \in Nat : \A x \in S : x <= b
<1>0. PICK n \in Nat : ExistsSurjection(1..n, S)
  BY FS_NatSurjection
<1>1. PICK f \in Surjection(1..n, S) : TRUE
  BY <1>0 DEF ExistsSurjection
<1>2. f \in [1..n -> S] /\ \A x \in S : \E i \in 1..n : f[i] = x
  BY DEF Surjection
<1>3. ASSUME NEW k \in 0..n, NEW b \in Nat, k < n, \A i \in 1..k : f[i] <= b
      PROVE  \E m \in Nat : \A i \in 1..(k + 1) : f[i] <= m
  <2>1. k \in Nat /\ k + 1 \in 1..n
    BY <1>3
  <2>2. f[k + 1] \in Nat
    BY <1>2, <2>1
  <2> DEFINE m == IF f[k + 1] <= b THEN b ELSE f[k + 1]
  <2>3. m \in Nat /\ b <= m /\ f[k + 1] <= m
    BY <2>2
  <2> HIDE DEF m
  <2>4. ASSUME NEW i \in 1..(k + 1) PROVE f[i] <= m
    <3>1. CASE i = k + 1
      BY <2>3, <3>1
    <3>2. CASE i # k + 1
      <4>1. i \in 1..k /\ i \in 1..n
        BY <2>1, <3>2
      <4>2. f[i] <= b /\ f[i] \in Nat
        BY <1>2, <1>3, <4>1
      <4> QED
        BY <2>3, <4>2
    <3> QED
      BY <3>1, <3>2
  <2> QED
    BY <2>3, <2>4
<1> DEFINE T == { k \in 0..n : \E b \in Nat : \A i \in 1..k : f[i] <= b }
<1>4. 0 \in T
  OBVIOUS
<1>5. ASSUME NEW k \in 0..n, k \in T, k < n PROVE k + 1 \in T
  <2>1. k + 1 \in 0..n
    <3> HIDE DEF T
    <3> QED
      BY <1>5
  <2>2. PICK b \in Nat : \A i \in 1..k : f[i] <= b
    BY <1>5
  <2>3. \E m \in Nat : \A i \in 1..(k + 1) : f[i] <= m
    <3> HIDE DEF T
    <3> QED
      BY <1>3, <1>5, <2>2
  <2> QED
    BY <2>1, <2>3
<1>6. n \in T
  <2> HIDE DEF T
  <2>1. \A k \in 0..n : k \in T /\ k < n => k + 1 \in T
    BY <1>5
  <2>2. \A k \in 0..n : k \in T
    BY <1>4, <2>1, UpTo, Zenon
  <2> QED
    BY <2>2
<1>7. PICK b \in Nat : \A i \in 1..n : f[i] <= b
  BY <1>6
<1> HIDE DEF T
<1> QED
  BY <1>2, <1>7

LEMMA MaxOfNaturals ==
  ASSUME NEW S \in SUBSET Nat, S # {}, IsFiniteSet(S)
  PROVE  Max(S) \in S /\ \A x \in S : Max(S) >= x
<1> DEFINE B == { n \in Nat : \A x \in S : n >= x }
<1>1. B # {} /\ B \in SUBSET Nat
  <2>1. PICK n \in Nat : \A x \in S : x <= n
    BY FiniteIsBounded
  <2>2. \A x \in S : x \in Nat /\ n >= x
    BY <2>1
  <2> QED
    BY <2>2
<1> HIDE DEF B
<1>2. Min(B) \in B /\ \A b \in B : Min(B) <= b
  BY <1>1, MinOfNaturals
<1> DEFINE m == Min(B)
<1>3. m \in Nat /\ \A x \in S : m >= x
  BY <1>2 DEF B
<1>4. m \in S
  <2> SUFFICES ASSUME m \notin S PROVE FALSE
    OBVIOUS
  <2> HIDE DEF m
  <2>1. ASSUME NEW x \in S PROVE m - 1 >= x /\ m - 1 \in Nat
    <3>1. x \in Nat /\ x # m /\ m >= x /\ m \in Nat
      BY <1>3
    <3> QED
      BY <3>1
  <2>2. m - 1 \in Nat
    BY <2>1
  <2>3. m - 1 \in B
    BY <2>1, <2>2 DEF B
  <2> QED
    BY <1>2, <1>3, <2>3 DEF m
<1> HIDE DEF m
<1>5. \E z \in S : \A y \in S : z >= y
  BY <1>3, <1>4
<1> QED
  BY <1>5 DEF Max

(* It is told by being in the set and before all others.                   *)
LEMMA MinIs ==
  ASSUME NEW S \in SUBSET Nat, NEW m \in S, \A x \in S : m <= x
  PROVE  Min(S) = m
<1>1. Min(S) \in S /\ \A x \in S : Min(S) <= x
  BY MinOfNaturals
<1>2. Min(S) \in Nat /\ m \in Nat /\ m <= Min(S) /\ Min(S) <= m
  BY <1>1
<1> QED
  BY <1>2

LEMMA MaxIs ==
  ASSUME NEW S \in SUBSET Nat, NEW m \in S, \A x \in S : m >= x
  PROVE  Max(S) = m
<1>1. \E z \in S : \A y \in S : z >= y
  OBVIOUS
<1>2. Max(S) \in S /\ \A x \in S : Max(S) >= x
  BY <1>1 DEF Max
<1>3. Max(S) \in Nat /\ m \in Nat /\ m >= Max(S) /\ Max(S) >= m
  BY <1>2
<1> QED
  BY <1>3

-----------------------------------------------------------------------------
(* The common scale.                                                       *)

Optional == {Null} \cup { <<n>> : n \in Nat }

(* An extreme that tells what the charts that have one tell.               *)
Told(keys) == keys \in [Drawn -> Optional]
LowestTold(t) ==
    /\ DOMAIN t = {"keys", "latest"} /\ Told(t.keys)
    /\ Known(t.keys) # {} => t.latest = <<Min(Known(t.keys))>>
HighestTold(t) ==
    /\ DOMAIN t = {"keys", "latest"} /\ Told(t.keys)
    /\ Known(t.keys) # {} => t.latest = <<Max(Known(t.keys))>>

LEMMA KnownAreNumbers ==
  ASSUME NEW keys, Told(keys)
  PROVE  /\ Known(keys) \in SUBSET Nat /\ IsFiniteSet(Known(keys))
         /\ \A c \in Drawn : keys[c] # Null => keys[c][1] \in Known(keys) /\ keys[c] = <<keys[c][1]>>
         /\ \A n \in Known(keys) : \E c \in Drawn : keys[c] = <<n>>
<1> DEFINE D == { x \in DOMAIN keys : keys[x] # Null }
<1>1. DOMAIN keys = Drawn
  BY DEF Told
<1>2. IsFiniteSet(Drawn)
  BY ScalesAssumption, Zenon
<1>3. IsFiniteSet(D)
  BY <1>1, <1>2, FS_Subset
<1>4. Known(keys) = { keys[c][1] : c \in D }
  BY DEF Known
<1>5. IsFiniteSet(Known(keys))
  <2>1. IsFiniteSet({ keys[c][1] : c \in D })
    <3> DEFINE f == [c \in D |-> keys[c][1]]
               K == { keys[c][1] : c \in D }
    <3>1. f \in Surjection(D, K)
      BY DEF Surjection
    <3> HIDE DEF D, f, K
    <3>2. IsFiniteSet(K)
      BY <1>3, <3>1, FS_Surjection
    <3> QED
      BY <3>2 DEF K
  <2> QED
    BY <1>4, <2>1
<1>6. \A c \in Drawn : keys[c] # Null => \E n \in Nat : keys[c] = <<n>> /\ keys[c][1] = n
  BY DEF Told, Optional
<1> QED
  BY <1>1, <1>4, <1>5, <1>6

(* What one chart tells anew, beside what the others tell.                 *)
LEMMA KnownAnew ==
  ASSUME NEW keys, Told(keys), NEW c \in Drawn, NEW n \in Nat
  PROVE  LET k == [keys EXCEPT ![c] = <<n>>] IN
         /\ Told(k) /\ n \in Known(k)
         /\ \A m \in Known(k) : m = n \/ m \in Known(keys)
<1> DEFINE k == [keys EXCEPT ![c] = <<n>>]
<1>1. Told(k) /\ k[c] = <<n>> /\ \A d \in Drawn : d # c => k[d] = keys[d]
  BY DEF Told, Optional
<1> HIDE DEF k
<1>2. n \in Known(k)
  <2>1. k[c] # Null /\ k[c][1] = n
    BY <1>1 DEF Null
  <2> QED
    BY <1>1, <2>1, KnownAreNumbers
<1>3. ASSUME NEW m \in Known(k) PROVE m = n \/ m \in Known(keys)
  <2>1. PICK d \in Drawn : k[d] = <<m>>
    BY <1>1, KnownAreNumbers
  <2>2. CASE d = c
    BY <1>1, <2>1, <2>2
  <2>3. CASE d # c
    <3>1. keys[d] = <<m>> /\ keys[d] # Null /\ keys[d][1] = m
      BY <1>1, <2>1, <2>3 DEF Null
    <3> QED
      BY <3>1, KnownAreNumbers
  <2> QED
    BY <2>2, <2>3
<1> QED
  BY <1>1, <1>2, <1>3 DEF k

LEMMA CommonMinTold ==
  ASSUME NEW t, LowestTold(t), NEW c \in Drawn, NEW min \in Nat
  PROVE  LowestTold(CommonMinGet(t, c, min))
<1> DEFINE k == [t.keys EXCEPT ![c] = <<min>>]
<1>1. Told(t.keys)
  BY DEF LowestTold
<1>2. Told(k) /\ min \in Known(k) /\ \A m \in Known(k) : m = min \/ m \in Known(t.keys)
  BY <1>1, KnownAnew
<1>3. CASE t.keys[c] = <<min>>
  BY <1>3 DEF CommonMinGet
<1>4. CASE t.keys[c] # <<min>> /\ t.keys[c] # Null /\ min < t.latest[1]
  <2>1. CommonMinGet(t, c, min) = [keys |-> k, latest |-> <<min>>]
    BY <1>4 DEF CommonMinGet
  <2> HIDE DEF k
  <2>2. Known(t.keys) \in SUBSET Nat /\ Known(t.keys) # {}
    BY <1>1, <1>4, KnownAreNumbers
  <2>3. t.latest[1] = Min(Known(t.keys))
    BY <2>2 DEF LowestTold
  <2>4. \A m \in Known(t.keys) : min <= m
    BY <1>4, <2>2, <2>3, MinOfNaturals
  <2>5. Known(k) \in SUBSET Nat
    BY <1>2, KnownAreNumbers
  <2>6. Min(Known(k)) = min
    BY <1>2, <2>4, <2>5, MinIs
  <2> QED
    BY <1>2, <2>1, <2>6 DEF LowestTold
<1>5. CASE t.keys[c] # <<min>> /\ ~(t.keys[c] # Null /\ min < t.latest[1])
  <2>1. CommonMinGet(t, c, min) = [keys |-> k, latest |-> <<Min(Known(k))>>]
    BY <1>5 DEF CommonMinGet
  <2> HIDE DEF k
  <2> QED
    BY <1>2, <2>1 DEF LowestTold
<1> QED
  BY <1>3, <1>4, <1>5

LEMMA CommonMaxTold ==
  ASSUME NEW t, HighestTold(t), NEW c \in Drawn, NEW max \in Nat
  PROVE  HighestTold(CommonMaxGet(t, c, max))
<1> DEFINE k == [t.keys EXCEPT ![c] = <<max>>]
<1>1. Told(t.keys)
  BY DEF HighestTold
<1>2. Told(k) /\ max \in Known(k) /\ \A m \in Known(k) : m = max \/ m \in Known(t.keys)
  BY <1>1, KnownAnew
<1>3. CASE t.keys[c] = <<max>>
  BY <1>3 DEF CommonMaxGet
<1>4. CASE t.keys[c] # <<max>> /\ t.keys[c] # Null /\ max > t.latest[1]
  <2>1. CommonMaxGet(t, c, max) = [keys |-> k, latest |-> <<max>>]
    BY <1>4 DEF CommonMaxGet
  <2> HIDE DEF k
  <2>2. Known(t.keys) \in SUBSET Nat /\ Known(t.keys) # {} /\ IsFiniteSet(Known(t.keys))
    BY <1>1, <1>4, KnownAreNumbers
  <2>3. t.latest[1] = Max(Known(t.keys))
    BY <2>2 DEF HighestTold
  <2>4. \A m \in Known(t.keys) : max >= m
    BY <1>4, <2>2, <2>3, MaxOfNaturals
  <2>5. Known(k) \in SUBSET Nat
    BY <1>2, KnownAreNumbers
  <2>6. Max(Known(k)) = max
    BY <1>2, <2>4, <2>5, MaxIs
  <2> QED
    BY <1>2, <2>1, <2>6 DEF HighestTold
<1>5. CASE t.keys[c] # <<max>> /\ ~(t.keys[c] # Null /\ max > t.latest[1])
  <2>1. CommonMaxGet(t, c, max) = [keys |-> k, latest |-> <<Max(Known(k))>>]
    BY <1>5 DEF CommonMaxGet
  <2> HIDE DEF k
  <2> QED
    BY <1>2, <2>1 DEF HighestTold
<1> QED
  BY <1>3, <1>4, <1>5

-----------------------------------------------------------------------------
(* A handler keeps the data of all charts, and what the scale tells.       *)

DataOf == [value : Nat, min : Nat, max : Nat]
Shape(s) ==
    /\ DOMAIN s = {"common", "drawn"}
    /\ DOMAIN s.common = DOMAIN NewCommon
    /\ DOMAIN s.drawn = Drawn
    /\ \A c \in Drawn : DOMAIN s.drawn[c] = DOMAIN NewDrawn
Holds(s) ==
    /\ Shape(s)
    /\ \A c \in Drawn : s.drawn[c].data \in {Null} \cup { <<d>> : d \in DataOf }
    /\ LowestTold(s.common.min) /\ HighestTold(s.common.max)
Keeps(s, t) == Holds(t) /\ \A c \in Drawn : t.drawn[c].data = s.drawn[c].data

LEMMA KeepsTwice ==
  ASSUME NEW s, NEW t, NEW u, Keeps(s, t), Keeps(t, u)
  PROVE  Keeps(s, u)
  BY DEF Keeps

(* One that leaves the scale alone, and touches one chart but its data.    *)
Touches(s, t, c) ==
    /\ DOMAIN t = DOMAIN s /\ DOMAIN t.common = DOMAIN s.common
    /\ t.common.min = s.common.min /\ t.common.max = s.common.max
    /\ DOMAIN t.drawn = DOMAIN s.drawn
    /\ DOMAIN t.drawn[c] = DOMAIN s.drawn[c] /\ t.drawn[c].data = s.drawn[c].data
    /\ \A d \in Drawn : d # c => t.drawn[d] = s.drawn[d]

LEMMA TouchingKeeps ==
  ASSUME NEW s, Holds(s), NEW c \in Drawn, NEW t, Touches(s, t, c)
  PROVE  Keeps(s, t)
<1>1. Shape(t)
  BY DEF Holds, Shape, Touches
<1>2. \A d \in Drawn : t.drawn[d].data = s.drawn[d].data
  BY DEF Touches
<1> QED
  BY <1>1, <1>2 DEF Holds, Touches, Keeps

(* What is set of a chart.                                                 *)
LEMMA Sets ==
  ASSUME NEW s, Holds(s), NEW c \in Drawn, NEW v
  PROVE  /\ Keeps(s, [s EXCEPT !.drawn[c].unit = v]) /\ Keeps(s, [s EXCEPT !.drawn[c].old = v])
         /\ Keeps(s, [s EXCEPT !.drawn[c].divider = v]) /\ Keeps(s, [s EXCEPT !.drawn[c].set = v])
         /\ Keeps(s, [s EXCEPT !.drawn[c].decimals = v])
         /\ Keeps(s, [s EXCEPT !.drawn[c].needle = v])
         /\ Keeps(s, [s EXCEPT !.drawn[c].created = v])
         /\ Keeps(s, [s EXCEPT !.drawn[c].selected = v])
         /\ Keeps(s, [s EXCEPT !.drawn[c].live = v])
         /\ Keeps(s, [s EXCEPT !.drawn[c].timer = v])
<1>1. ASSUME NEW f \in {"unit", "old", "divider", "set", "decimals", "needle", "created",
                        "selected", "live", "timer"}
      PROVE  Keeps(s, [s EXCEPT !.drawn[c][f] = v])
  <2> DEFINE t == [s EXCEPT !.drawn[c][f] = v]
  <2>1. Shape(s)
    BY DEF Holds
  <2>2. Touches(s, t, c)
    BY <1>1, <2>1 DEF Touches, Shape
  <2> HIDE DEF t
  <2>3. Keeps(s, t)
    BY <2>2, TouchingKeeps
  <2> QED
    BY <2>3 DEF t
<1> QED
  BY <1>1

LEMMA KeepsItself ==
  ASSUME NEW s, Holds(s)
  PROVE  Keeps(s, s)
  BY DEF Keeps

(* Units are switched.                                                     *)
LEMMA SwitchUnitsKeeps ==
  ASSUME NEW s, Holds(s), NEW c \in Drawn, NEW divider
  PROVE  Keeps(s, SwitchUnits(s, c, divider))
<1>1. CASE s.drawn[c].unit = divider \/ (c \notin Legends /\ ~s.drawn[c].created)
  BY <1>1, KeepsItself DEF SwitchUnits
<1>2. CASE ~(s.drawn[c].unit = divider \/ (c \notin Legends /\ ~s.drawn[c].created))
  <2> DEFINE old == IF c \in Gauges THEN [p \in Spots |-> Null] ELSE s.drawn[c].old
             t == [s EXCEPT !.drawn[c].unit = divider]
             u == [t EXCEPT !.drawn[c].old = old]
  <2>1. SwitchUnits(s, c, divider) = u
    <3>1. Shape(s)
      BY DEF Holds
    <3>2. t.drawn[c].old = s.drawn[c].old
      BY <3>1 DEF Shape, NewDrawn
    <3> QED
      BY <1>2, <3>1, <3>2 DEF SwitchUnits, Shape, NewDrawn
  <2>2. Keeps(s, t)
    BY Sets
  <2>3. Keeps(t, u)
    <3> HIDE DEF t, old
    <3>1. Holds(t)
      BY <2>2 DEF Keeps
    <3> QED
      BY <3>1, Sets
  <2> QED
    BY <2>1, <2>2, <2>3, KeepsTwice
<1> QED
  BY <1>1, <1>2

LEMMA SwitchedKeeps ==
  ASSUME NEW s, Holds(s), NEW c \in Drawn
  PROVE  Keeps(s, Switched(s, c))
<1> DEFINE latest == s.common.units.latest
           t == [s EXCEPT !.drawn[c].divider = latest[1]]
<1>1. CASE ~s.drawn[c].shares \/ <<s.drawn[c].divider>> = latest
  BY <1>1, KeepsItself DEF Switched
<1>2. CASE ~(~s.drawn[c].shares \/ <<s.drawn[c].divider>> = latest)
  <2>1. Switched(s, c) = SwitchUnits(t, c, latest[1])
    BY <1>2 DEF Switched
  <2>2. Keeps(s, t)
    BY Sets
  <2> HIDE DEF t, latest
  <2>3. Keeps(t, SwitchUnits(t, c, latest[1]))
    BY <2>2, SwitchUnitsKeeps DEF Keeps
  <2> QED
    BY <2>1, <2>2, <2>3, KeepsTwice
<1> QED
  BY <1>1, <1>2

LEMMA UnitsConversionGetKeeps ==
  ASSUME NEW s, Holds(s), NEW c \in Drawn, NEW min, NEW max
  PROVE  Keeps(s, UnitsConversionGet(s, c, min, max))
<1> DEFINE keys == [s.common.units.keys EXCEPT ![c] = <<Max(AutoScale(min, max))>>]
           divider == Max(Known(keys))
           t == [s EXCEPT !.drawn[c].shares = FALSE, !.drawn[c].divider = 1]
           u == [s EXCEPT !.common.units = [keys |-> keys, latest |-> <<divider>>],
                          !.drawn[c].shares = TRUE, !.drawn[c].divider = divider]
<1>0. Shape(s)
  BY DEF Holds
<1>1. Keeps(s, t)
  <2>1. Touches(s, t, c)
    BY <1>0 DEF Touches, Shape, NewDrawn, NewCommon
  <2> HIDE DEF t
  <2> QED
    BY <2>1, TouchingKeeps
<1>2. Keeps(s, u)
  <2> HIDE DEF keys, divider
  <2>1. Touches(s, u, c)
    BY <1>0 DEF Touches, Shape, NewDrawn, NewCommon
  <2> HIDE DEF u
  <2> QED
    BY <2>1, TouchingKeeps
<1>3. \/ UnitsConversionGet(s, c, min, max) = SwitchUnits(t, c, 1)
      \/ UnitsConversionGet(s, c, min, max) = SwitchUnits(u, c, divider)
  BY DEF UnitsConversionGet
<1> HIDE DEF t, u, keys, divider
<1>4. Keeps(t, SwitchUnits(t, c, 1)) /\ Keeps(u, SwitchUnits(u, c, divider))
  BY <1>1, <1>2, SwitchUnitsKeeps DEF Keeps
<1> QED
  BY <1>1, <1>2, <1>3, <1>4, KeepsTwice

LEMMA DecimalsKeep ==
  ASSUME NEW s, Holds(s), NEW c \in Drawn, NEW min, NEW max
  PROVE  Keeps(s, DecimalsFromMinMax(s, c, min, max))
<1> DEFINE set == [s EXCEPT !.drawn[c].set = <<min, max>>]
           t == UnitsConversionSetup(s, c, min, max)
           u == Switched(t, c)
           v == [number |-> min, divider |-> u.drawn[c].divider]
           w == [number |-> max, divider |-> u.drawn[c].divider]
           z == [u EXCEPT !.drawn[c].decimals = <<v, w>>]
<1>1. Keeps(s, set)
  BY Sets
<1>2. t = s \/ t = UnitsConversionGet(set, c, min, max)
  BY DEF UnitsConversionSetup
<1>3. DecimalsFromMinMax(s, c, min, max) \in {s, z}
  BY DEF DecimalsFromMinMax
<1> HIDE DEF set, t
<1>4. Keeps(s, t)
  BY <1>1, <1>2, UnitsConversionGetKeeps, KeepsItself, KeepsTwice DEF Keeps
<1> HIDE DEF u
<1>5. Keeps(t, u)
  BY <1>4, SwitchedKeeps DEF Keeps, u
<1> HIDE DEF v, w
<1>6. Keeps(u, z)
  <2>1. Holds(u)
    BY <1>5 DEF Keeps
  <2> QED
    BY <2>1, Sets
<1> HIDE DEF z
<1>7. Keeps(s, z)
  BY <1>4, <1>5, <1>6, KeepsTwice
<1> QED
  BY <1>3, <1>7, KeepsItself

(* Values are shown.                                                       *)
LEMMA ShowLabelKeeps ==
  ASSUME NEW s, Holds(s), NEW c \in Drawn, NEW part, NEW v
  PROVE  Keeps(s, ShowLabel(s, c, part, v))
<1>1. ASSUME NEW t, Holds(t), NEW said
      PROVE  Keeps(t, [t EXCEPT !.drawn[c].label[part] = said])
  <2>1. Shape(t)
    BY <1>1 DEF Holds
  <2>2. Touches(t, [t EXCEPT !.drawn[c].label[part] = said], c)
    BY <2>1 DEF Touches, Shape, NewDrawn
  <2> QED
    BY <1>1, <2>2, TouchingKeeps
<1>2. CASE v = Null
  BY <1>1, <1>2 DEF ShowLabel
<1>3. CASE v # Null
  <2> DEFINE t == Switched(s, c)
             said == [number |-> v, divider |-> t.drawn[c].divider]
  <2>1. ShowLabel(s, c, part, v) = [t EXCEPT !.drawn[c].label[part] = said]
    BY <1>3 DEF ShowLabel
  <2>2. Keeps(s, t)
    BY SwitchedKeeps
  <2> HIDE DEF t, said
  <2>3. Keeps(t, [t EXCEPT !.drawn[c].label[part] = said])
    BY <1>1, <2>2 DEF Keeps
  <2> HIDE DEF Null
  <2> QED
    BY <2>1, <2>2, <2>3, KeepsTwice
<1> QED
  BY <1>2, <1>3

(* The scale learns of the data of a chart.                                *)
LEMMA CommonRangeKeeps ==
  ASSUME NEW s, Holds(s), NEW c \in Drawn, s.drawn[c].data # Null
  PROVE  Keeps(s, CommonRange(s, c))
<1> DEFINE data == s.drawn[c].data[1]
           least == CommonMinGet(s.common.min, c, data.min)
           greatest == CommonMaxGet(s.common.max, c, data.max)
           t == [s EXCEPT !.common.min = least, !.common.max = greatest]
<1>0. Shape(s) /\ LowestTold(s.common.min) /\ HighestTold(s.common.max)
  BY DEF Holds
<1>1. data.min \in Nat /\ data.max \in Nat
  BY DEF Holds, DataOf
<1>2. CommonRange(s, c) = t
  BY <1>0 DEF CommonRange, Shape, NewCommon
<1> HIDE DEF data
<1>3. LowestTold(least) /\ HighestTold(greatest)
  BY <1>0, <1>1, CommonMinTold, CommonMaxTold
<1> HIDE DEF least, greatest
<1>4. /\ Shape(t) /\ t.drawn = s.drawn
      /\ t.common.min = least /\ t.common.max = greatest
  BY <1>0 DEF Shape, NewCommon
<1> HIDE DEF t
<1> QED
  BY <1>2, <1>3, <1>4 DEF Holds, Keeps

LEMMA KeptHolds ==
  ASSUME NEW s, NEW t, Keeps(s, t)
  PROVE  Holds(t) /\ \A c \in Drawn : t.drawn[c].data = s.drawn[c].data
  BY DEF Keeps

(* Gauges.                                                                 *)
LEMMA GaugeSetKeeps ==
  ASSUME NEW s, Holds(s), NEW c \in Drawn, NEW value, NEW min, NEW max
  PROVE  Keeps(s, GaugeSet(s, c, value, min, max))
<1> DEFINE low == Min({min, value})
           high == IF Max({max, value}) = low THEN low + 1 ELSE Max({max, value})
           t == DecimalsFromMinMax(s, c, low, high)
           needle == ((value - low) * 100) \div (high - low)
<1>1. GaugeSet(s, c, value, min, max) = [t EXCEPT !.drawn[c].needle = needle]
  BY DEF GaugeSet
<1> HIDE DEF low, high, needle
<1>2. Keeps(s, t)
  BY DecimalsKeep
<1> HIDE DEF t
<1>3. Keeps(t, [t EXCEPT !.drawn[c].needle = needle])
  BY <1>2, KeptHolds, Sets
<1> QED
  BY <1>1, <1>2, <1>3, KeepsTwice

LEMMA GaugeSetLabelKeeps ==
  ASSUME NEW s, Holds(s), NEW c \in Drawn, NEW part, NEW v
  PROVE  Keeps(s, GaugeSetLabel(s, c, part, v))
<1> DEFINE t == [s EXCEPT !.drawn[c].old[part] = v]
<1>1. Keeps(s, t)
  <2>1. Shape(s)
    BY DEF Holds
  <2>2. Touches(s, t, c)
    BY <2>1 DEF Touches, Shape, NewDrawn
  <2> QED
    BY <2>2, TouchingKeeps
<1>2. GaugeSetLabel(s, c, part, v) = s \/ GaugeSetLabel(s, c, part, v) = ShowLabel(t, c, part, v)
  BY DEF GaugeSetLabel
<1> HIDE DEF t
<1>3. Keeps(t, ShowLabel(t, c, part, v))
  BY <1>1, KeptHolds, ShowLabelKeeps
<1> QED
  BY <1>1, <1>2, <1>3, KeepsTwice, KeepsItself

LEMMA GaugeSetLabelsKeep ==
  ASSUME NEW s, Holds(s), NEW c \in Drawn, NEW value, NEW min, NEW max
  PROVE  Keeps(s, GaugeSetLabels(s, c, value, min, max))
<1> DEFINE t == GaugeSetLabel(s, c, "value", value)
           u == GaugeSetLabel(t, c, "min", min)
           v == GaugeSetLabel(u, c, "max", max)
<1>1. GaugeSetLabels(s, c, value, min, max) = v
  BY DEF GaugeSetLabels
<1>2. Keeps(s, t)
  BY GaugeSetLabelKeeps
<1> HIDE DEF t
<1>3. Keeps(t, u)
  BY <1>2, KeptHolds, GaugeSetLabelKeeps
<1> HIDE DEF u
<1>4. Keeps(u, v)
  BY <1>3, KeptHolds, GaugeSetLabelKeeps
<1> HIDE DEF v
<1> QED
  BY <1>1, <1>2, <1>3, <1>4, KeepsTwice

LEMMA GaugeDrawKeeps ==
  ASSUME NEW s, Holds(s), NEW c \in Drawn, s.drawn[c].data # Null
  PROVE  Keeps(s, GaugeDraw(s, c))
<1> DEFINE t == CommonRange(s, c)
           value == s.drawn[c].data[1].value
           max == Max({t.common.max.latest[1], value})
           u == GaugeSet(t, c, value, 0, max)
           v == GaugeSetLabels(u, c, <<value>>, <<0>>, <<max>>)
<1>1. GaugeDraw(s, c) = v
  BY DEF GaugeDraw
<1>2. Keeps(s, t)
  BY CommonRangeKeeps
<1> HIDE DEF t, value, max
<1>3. Keeps(t, u)
  BY <1>2, KeptHolds, GaugeSetKeeps
<1> HIDE DEF u
<1>4. Keeps(u, v)
  BY <1>3, KeptHolds, GaugeSetLabelsKeep
<1> HIDE DEF v
<1> QED
  BY <1>1, <1>2, <1>3, <1>4, KeepsTwice

LEMMA GaugeChartKeeps ==
  ASSUME NEW s, Holds(s), NEW c \in Drawn, s.drawn[c].data # Null
  PROVE  Keeps(s, GaugeChartCreate(s, c)) /\ Keeps(s, GaugeChartUpdate(s, c))
<1> DEFINE t == GaugeDraw(s, c)
           u == GaugeSetLabels(s, c, Null, Null, Null)
<1>1. GaugeChartCreate(s, c) = [t EXCEPT !.drawn[c].created = TRUE]
  BY DEF GaugeChartCreate
<1>2. GaugeChartUpdate(s, c) \in {t, [u EXCEPT !.drawn[c].needle = 0]}
  BY DEF GaugeChartUpdate
<1>3. Keeps(s, t) /\ Keeps(s, u)
  BY GaugeDrawKeeps, GaugeSetLabelsKeep
<1> HIDE DEF t, u
<1>4. Keeps(t, [t EXCEPT !.drawn[c].created = TRUE]) /\ Keeps(u, [u EXCEPT !.drawn[c].needle = 0])
  BY <1>3, KeptHolds, Sets
<1> QED
  BY <1>1, <1>2, <1>3, <1>4, KeepsTwice

LEMMA GaugeClearSelectionKeeps ==
  ASSUME NEW s, Holds(s), NEW c \in Drawn, NEW force
  PROVE  Keeps(s, GaugeClearSelection(s, c, force))
<1> DEFINE t == [s EXCEPT !.drawn[c].timer = FALSE]
           u == GaugeSetLabels(t, c, Null, Null, Null)
           v == GaugeSet(u, c, 0, 0, 0)
<1>1. \/ GaugeClearSelection(s, c, force) = GaugeChartUpdate(t, c) /\ t.drawn[c].data # Null
      \/ GaugeClearSelection(s, c, force) = v
  BY DEF GaugeClearSelection
<1>2. Keeps(s, t)
  BY Sets
<1> HIDE DEF t
<1>3. t.drawn[c].data # Null => Keeps(t, GaugeChartUpdate(t, c))
  BY <1>2, KeptHolds, GaugeChartKeeps
<1>4. Keeps(t, u)
  BY <1>2, KeptHolds, GaugeSetLabelsKeep
<1> HIDE DEF u
<1>5. Keeps(u, v)
  BY <1>4, KeptHolds, GaugeSetKeeps
<1> HIDE DEF v
<1> QED
  BY <1>1, <1>2, <1>3, <1>4, <1>5, KeepsTwice

(* A selection waits for its timer.                                        *)
LEMMA Waits ==
  ASSUME NEW s, Holds(s), NEW c \in Drawn, NEW event, NEW needle
  PROVE  /\ Keeps(s, [s EXCEPT !.drawn[c].event = event, !.drawn[c].timer = TRUE])
         /\ Keeps(s, [s EXCEPT !.drawn[c].event = event, !.drawn[c].timer = TRUE,
                               !.drawn[c].needle = needle])
<1> DEFINE t == [s EXCEPT !.drawn[c].event = event, !.drawn[c].timer = TRUE]
           u == [s EXCEPT !.drawn[c].event = event, !.drawn[c].timer = TRUE,
                          !.drawn[c].needle = needle]
<1>1. Shape(s)
  BY DEF Holds
<1>2. Touches(s, t, c) /\ Touches(s, u, c)
  BY <1>1 DEF Touches, Shape, NewDrawn
<1> HIDE DEF t, u
<1>3. Keeps(s, t) /\ Keeps(s, u)
  BY <1>2, TouchingKeeps
<1> QED
  BY <1>3 DEF t, u

LEMMA GaugeSetSelectionKeeps ==
  ASSUME NEW s, Holds(s), NEW c \in Drawn, s.drawn[c].data # Null, NEW value
  PROVE  Keeps(s, GaugeSetSelection(s, c, value))
<1> DEFINE t == CommonRange(s, c)
           max == t.common.max.latest
           u == GaugeSetLabels(t, c, value, <<0>>, max)
           event == <<[value |-> value[1], max |-> max[1]]>>
           v == [u EXCEPT !.drawn[c].event = event, !.drawn[c].timer = TRUE]
<1>1. GaugeSetSelection(s, c, value) \in {GaugeClearSelection(s, c, TRUE), v}
  BY DEF GaugeSetSelection
<1>2. Keeps(s, t)
  BY CommonRangeKeeps
<1> HIDE DEF t
<1>3. Keeps(t, u)
  BY <1>2, KeptHolds, GaugeSetLabelsKeep, SMTT(30)
<1> HIDE DEF u, event, max
<1>4. Keeps(u, v)
  BY <1>3, KeptHolds, Waits
<1> HIDE DEF v
<1>5. Keeps(s, GaugeClearSelection(s, c, TRUE))
  BY GaugeClearSelectionKeeps
<1> QED
  BY <1>1, <1>2, <1>3, <1>4, <1>5, KeepsTwice

(* Pies.                                                                   *)
LEMMA EasypiechartPercentKeeps ==
  ASSUME NEW s, Holds(s), NEW c \in Drawn, NEW value, NEW min, NEW max
  PROVE  Keeps(s, EasypiechartPercent(s, c, value, min, max))
<1> DEFINE low == Min({min, value})
           high == Max({max, value})
           t == DecimalsFromMinMax(s, c, low, high)
           needle == IF high = 0 THEN 0 ELSE (value * 100) \div high
<1>1. EasypiechartPercent(s, c, value, min, max) = [t EXCEPT !.drawn[c].needle = needle]
  BY DEF EasypiechartPercent
<1> HIDE DEF low, high, needle
<1>2. Keeps(s, t)
  BY DecimalsKeep
<1> HIDE DEF t
<1>3. Keeps(t, [t EXCEPT !.drawn[c].needle = needle])
  BY <1>2, KeptHolds, Sets
<1> QED
  BY <1>1, <1>2, <1>3, KeepsTwice

LEMMA EasypiechartCommonKeeps ==
  ASSUME NEW s, Holds(s), NEW c \in Drawn, s.drawn[c].data # Null
  PROVE  Keeps(s, EasypiechartCommon(s, c))
<1> DEFINE t == CommonRange(s, c)
           u == EasypiechartPercent(t, c, s.drawn[c].data[1].value, t.common.min.latest[1],
                                    t.common.max.latest[1])
<1>1. EasypiechartCommon(s, c) = u
  BY DEF EasypiechartCommon
<1>2. Keeps(s, t)
  BY CommonRangeKeeps
<1> HIDE DEF t
<1>3. Keeps(t, u)
  BY <1>2, KeptHolds, EasypiechartPercentKeeps
<1> QED
  BY <1>1, <1>2, <1>3, KeepsTwice

LEMMA EasypiechartChartKeeps ==
  ASSUME NEW s, Holds(s), NEW c \in Drawn, s.drawn[c].data # Null
  PROVE  Keeps(s, EasypiechartChartCreate(s, c)) /\ Keeps(s, EasypiechartChartUpdate(s, c))
<1> DEFINE value == <<s.drawn[c].data[1].value>>
           t == ShowLabel(s, c, "value", value)
           u == EasypiechartCommon(t, c)
           v == EasypiechartCommon(s, c)
           w == ShowLabel(v, c, "value", value)
           x == ShowLabel(s, c, "value", Null)
<1>1. EasypiechartChartCreate(s, c) = [u EXCEPT !.drawn[c].created = TRUE]
  BY DEF EasypiechartChartCreate
<1>2. EasypiechartChartUpdate(s, c) \in {w, [x EXCEPT !.drawn[c].needle = 0]}
  BY DEF EasypiechartChartUpdate
<1>3. Keeps(s, t) /\ Keeps(s, v) /\ Keeps(s, x)
  BY ShowLabelKeeps, EasypiechartCommonKeeps
<1> HIDE DEF t, v, x, value
<1>4. Keeps(t, u)
  BY <1>3, KeptHolds, EasypiechartCommonKeeps
<1> HIDE DEF u
<1>5. Keeps(v, w)
  BY <1>3, KeptHolds, ShowLabelKeeps
<1> HIDE DEF w
<1>6. Keeps(u, [u EXCEPT !.drawn[c].created = TRUE]) /\ Keeps(x, [x EXCEPT !.drawn[c].needle = 0])
  BY <1>3, <1>4, KeptHolds, Sets
<1>7. Keeps(s, u) /\ Keeps(s, w)
  BY <1>3, <1>4, <1>5, KeepsTwice
<1> QED
  BY <1>1, <1>2, <1>3, <1>6, <1>7, KeepsTwice

LEMMA EasypiechartClearSelectionKeeps ==
  ASSUME NEW s, Holds(s), NEW c \in Drawn, NEW force
  PROVE  Keeps(s, EasypiechartClearSelection(s, c, force))
<1> DEFINE t == [s EXCEPT !.drawn[c].timer = FALSE]
           u == ShowLabel(t, c, "value", Null)
           v == [u EXCEPT !.drawn[c].needle = 0]
<1>1. \/ /\ EasypiechartClearSelection(s, c, force) = EasypiechartChartUpdate(t, c)
         /\ t.drawn[c].data # Null
      \/ EasypiechartClearSelection(s, c, force) = v
  BY DEF EasypiechartClearSelection
<1>2. Keeps(s, t)
  BY Sets
<1> HIDE DEF t
<1>3. t.drawn[c].data # Null => Keeps(t, EasypiechartChartUpdate(t, c))
  BY <1>2, KeptHolds, EasypiechartChartKeeps
<1>4. Keeps(t, u)
  BY <1>2, KeptHolds, ShowLabelKeeps
<1> HIDE DEF u
<1>5. Keeps(u, v)
  BY <1>4, KeptHolds, Sets
<1> HIDE DEF v
<1> QED
  BY <1>1, <1>2, <1>3, <1>4, <1>5, KeepsTwice

LEMMA EasypiechartSetSelectionKeeps ==
  ASSUME NEW s, Holds(s), NEW c \in Drawn, s.drawn[c].data # Null, NEW value
  PROVE  Keeps(s, EasypiechartSetSelection(s, c, value))
<1> DEFINE t == CommonRange(s, c)
           u == EasypiechartPercent(t, c, value[1], t.common.min.latest[1],
                                    t.common.max.latest[1])
           v == ShowLabel(u, c, "value", value)
           event == <<[value |-> value[1], max |-> u.drawn[c].needle]>>
           needle == s.drawn[c].needle
           w == [v EXCEPT !.drawn[c].event = event, !.drawn[c].timer = TRUE,
                          !.drawn[c].needle = needle]
<1>1. EasypiechartSetSelection(s, c, value) \in {EasypiechartClearSelection(s, c, TRUE), w}
  BY DEF EasypiechartSetSelection
<1>2. Keeps(s, t)
  BY CommonRangeKeeps
<1> HIDE DEF t
<1>3. Keeps(t, u)
  BY <1>2, KeptHolds, EasypiechartPercentKeeps
<1> HIDE DEF u
<1>4. Keeps(u, v)
  BY <1>3, KeptHolds, ShowLabelKeeps, SMTT(30)
<1> HIDE DEF v, event, needle
<1>5. Keeps(v, w)
  BY <1>4, KeptHolds, Waits
<1> HIDE DEF w
<1>6. Keeps(s, EasypiechartClearSelection(s, c, TRUE))
  BY EasypiechartClearSelectionKeeps
<1>7. Keeps(s, u) /\ Keeps(s, v)
  BY <1>2, <1>3, <1>4, KeepsTwice
<1> QED
  BY <1>1, <1>5, <1>6, <1>7, KeepsTwice

(* Legends.                                                                *)
LEMMA LegendShowUndefinedKeeps ==
  ASSUME NEW s, Holds(s), NEW c \in Drawn
  PROVE  Keeps(s, LegendShowUndefined(s, c))
<1> DEFINE t == ShowLabel(s, c, "min", Null)
           u == ShowLabel(t, c, "max", Null)
<1>1. LegendShowUndefined(s, c) \in
          {GaugeClearSelection(s, c, FALSE), EasypiechartClearSelection(s, c, FALSE), u}
  BY DEF LegendShowUndefined
<1>2. Keeps(s, t)
  BY ShowLabelKeeps
<1> HIDE DEF t
<1>3. Keeps(t, u)
  BY <1>2, KeptHolds, ShowLabelKeeps
<1> HIDE DEF u
<1>4. /\ Keeps(s, GaugeClearSelection(s, c, FALSE))
      /\ Keeps(s, EasypiechartClearSelection(s, c, FALSE))
  BY GaugeClearSelectionKeeps, EasypiechartClearSelectionKeeps
<1>5. Keeps(s, u)
  BY <1>2, <1>3, KeepsTwice
<1> QED
  BY <1>1, <1>4, <1>5

LEMMA TwoLabelsKeep ==
  ASSUME NEW s, Holds(s), NEW c \in Drawn, NEW v, NEW w
  PROVE  Keeps(s, ShowLabel(ShowLabel(s, c, "max", v), c, "min", w))
<1> DEFINE t == ShowLabel(s, c, "max", v)
<1>1. Keeps(s, t)
  BY ShowLabelKeeps
<1> HIDE DEF t
<1>2. Keeps(t, ShowLabel(t, c, "min", w))
  BY <1>1, KeptHolds, ShowLabelKeeps
<1>3. Keeps(s, ShowLabel(t, c, "min", w))
  BY <1>1, <1>2, KeepsTwice
<1> QED
  BY <1>3 DEF t

LEMMA LegendShowLatestValuesKeeps ==
  ASSUME NEW s, Holds(s), NEW c \in Drawn
  PROVE  Keeps(s, LegendShowLatestValues(s, c))
<1> DEFINE t == SwitchUnits(s, c, s.drawn[c].divider)
           v == <<s.drawn[c].data[1].max>>
           w == <<s.drawn[c].data[1].min>>
           u == ShowLabel(ShowLabel(t, c, "max", v), c, "min", w)
<1>1. LegendShowLatestValues(s, c) \in {s, LegendShowUndefined(s, c), t, u}
  BY DEF LegendShowLatestValues
<1>2. Keeps(s, t)
  BY SwitchUnitsKeeps
<1> HIDE DEF t, v, w
<1>3. Keeps(t, u)
  BY <1>2, KeptHolds, TwoLabelsKeep
<1> HIDE DEF u
<1>4. Keeps(s, s) /\ Keeps(s, LegendShowUndefined(s, c))
  BY KeepsItself, LegendShowUndefinedKeeps
<1> QED
  BY <1>1, <1>2, <1>3, <1>4, KeepsTwice

LEMMA DygraphUpdateKeeps ==
  ASSUME NEW s, Holds(s), NEW c \in Drawn
  PROVE  Keeps(s, DygraphUpdate(s, c))
<1> DEFINE data == s.drawn[c].data[1]
           t == DecimalsFromMinMax(s, c, data.min, data.max)
<1>1. DygraphUpdate(s, c) = [t EXCEPT !.drawn[c].created = TRUE]
  BY DEF DygraphUpdate
<1> HIDE DEF data
<1>2. Keeps(s, t)
  BY DecimalsKeep
<1> HIDE DEF t
<1>3. Keeps(t, [t EXCEPT !.drawn[c].created = TRUE])
  BY <1>2, KeptHolds, Sets
<1> QED
  BY <1>1, <1>2, <1>3, KeepsTwice

LEMMA LegendSetSelectionKeeps ==
  ASSUME NEW s, Holds(s), NEW c \in Drawn, NEW value
  PROVE  Keeps(s, LegendSetSelection(s, c, value))
<1> DEFINE t == LegendShowUndefined(s, c)
           u == [t EXCEPT !.drawn[c].selected = FALSE]
           v == ShowLabel(ShowLabel(s, c, "max", value), c, "min", value)
<1>1. LegendSetSelection(s, c, value) \in {u, v}
  BY DEF LegendSetSelection
<1>2. Keeps(s, t) /\ Keeps(s, v)
  BY LegendShowUndefinedKeeps, TwoLabelsKeep
<1> HIDE DEF t, v
<1>3. Keeps(t, u)
  BY <1>2, KeptHolds, Sets
<1> HIDE DEF u
<1> QED
  BY <1>1, <1>2, <1>3, KeepsTwice

(* Selections end.                                                         *)
LEMMA ClearSelectionKeeps ==
  ASSUME NEW s, Holds(s), NEW c \in Drawn
  PROVE  Keeps(s, ClearSelection(s, c))
<1> DEFINE t == [s EXCEPT !.drawn[c].selected = FALSE]
           u == CASE c \in Gauges -> GaugeClearSelection(t, c, FALSE)
                  [] c \in Pies -> EasypiechartClearSelection(t, c, FALSE)
                  [] OTHER -> t
<1>1. ClearSelection(s, c) = LegendShowLatestValues(u, c)
  BY DEF ClearSelection
<1>2. u \in {t, GaugeClearSelection(t, c, FALSE), EasypiechartClearSelection(t, c, FALSE)}
  OBVIOUS
<1>3. Keeps(s, t)
  BY Sets
<1> HIDE DEF t, u
<1>4. /\ Keeps(t, t) /\ Keeps(t, GaugeClearSelection(t, c, FALSE))
      /\ Keeps(t, EasypiechartClearSelection(t, c, FALSE))
  BY <1>3, KeptHolds, KeepsItself, GaugeClearSelectionKeeps, EasypiechartClearSelectionKeeps
<1>5. Keeps(s, u)
  <2>1. Keeps(t, u)
    BY <1>2, <1>4
  <2> QED
    BY <1>3, <2>1, KeepsTwice
<1>6. Keeps(u, LegendShowLatestValues(u, c))
  BY <1>5, KeptHolds, LegendShowLatestValuesKeeps
<1> QED
  BY <1>1, <1>5, <1>6, KeepsTwice

LEMMA SlavesAreCharts ==
  ASSUME NEW S \in SUBSET Drawn
  PROVE  /\ Len(SetToSeq(S)) \in Nat
         /\ \A n \in 1..Len(SetToSeq(S)) : SetToSeq(S)[n] \in Drawn
<1> DEFINE f == SetToSeq(S)
<1>1. IsFiniteSet(S)
  BY ScalesAssumption, FS_Subset
<1>2. Cardinality(S) \in Nat /\ ExistsBijection(1..Cardinality(S), S)
  BY <1>1, FS_NatBijection, FS_CardinalityType
<1>3. PICK g \in Bijection(1..Cardinality(S), S) : TRUE
  BY <1>2 DEF ExistsBijection
<1>4. g \in [1..Cardinality(S) -> S] /\ IsInjective(g)
  BY <1>3 DEF Bijection, Injection, IsInjective
<1>5. f \in [1..Cardinality(S) -> S]
  BY <1>4 DEF SetToSeq
<1> HIDE DEF f
<1>6. f \in Seq(S) /\ Len(f) = Cardinality(S)
  BY <1>2, <1>5
<1> QED
  BY <1>2, <1>5, <1>6 DEF f

(* The charts whose selection ends, one after the other.                   *)
StoppedTo(s, slaves, n, g) ==
    /\ g = [m \in 0..n |-> g[m]] /\ g[0] = s
    /\ \A m \in 1..n : g[m] = ClearSelection(g[m - 1], slaves[m])

LEMMA StoppedExists ==
  ASSUME NEW s, NEW slaves, NEW n \in Nat
  PROVE  \E g : StoppedTo(s, slaves, n, g)
<1> DEFINE T == { m \in 0..n : \E g : StoppedTo(s, slaves, m, g) }
<1>1. 0 \in T
  <2> DEFINE g == [m \in 0..0 |-> s]
  <2>1. StoppedTo(s, slaves, 0, g)
    BY DEF StoppedTo
  <2> QED
    BY <2>1
<1>2. ASSUME NEW m \in 0..n, m \in T, m < n PROVE m + 1 \in T
  <2>1. PICK g : StoppedTo(s, slaves, m, g)
    BY <1>2
  <2> DEFINE h == [k \in 0..(m + 1) |-> IF k = m + 1 THEN ClearSelection(g[m], slaves[m + 1])
                                                     ELSE g[k]]
  <2>2. StoppedTo(s, slaves, m + 1, h)
    <3>1. h[0] = s
      BY <2>1 DEF StoppedTo
    <3>2. ASSUME NEW k \in 1..(m + 1)
          PROVE  h[k] = ClearSelection(h[k - 1], slaves[k])
      <4>1. CASE k = m + 1
        <5>1. h[k] = ClearSelection(g[m], slaves[m + 1])
          BY <4>1
        <5>2. h[k - 1] = g[m]
          BY <4>1
        <5> QED
          BY <4>1, <5>1, <5>2
      <4>2. CASE k # m + 1
        <5>1. k \in 1..m /\ k \in 0..(m + 1) /\ k - 1 \in 0..(m + 1) /\ k - 1 # m + 1
          BY <4>2
        <5>2. h[k] = g[k] /\ h[k - 1] = g[k - 1]
          BY <4>2, <5>1
        <5> HIDE DEF h
        <5> QED
          BY <2>1, <5>1, <5>2 DEF StoppedTo
      <4> QED
        BY <4>1, <4>2
    <3> QED
      BY <3>1, <3>2 DEF StoppedTo
  <2>3. \E f : StoppedTo(s, slaves, m + 1, f)
    BY <2>2
  <2> QED
    BY <1>2, <2>3
<1> HIDE DEF T
<1>3. n \in T
  <2>1. \A m \in 0..n : m \in T /\ m < n => m + 1 \in T
    BY <1>2
  <2>2. \A m \in 0..n : m \in T
    BY <1>1, <2>1, UpTo, Zenon
  <2> QED
    BY <2>2
<1> QED
  BY <1>3 DEF T

LEMMA StoppedKeeps ==
  ASSUME NEW s, Holds(s), NEW slaves, NEW n \in Nat, NEW g, StoppedTo(s, slaves, n, g),
         \A m \in 1..n : slaves[m] \in Drawn
  PROVE  Keeps(s, g[n])
<1> DEFINE T == { m \in 0..n : Keeps(s, g[m]) }
<1>1. 0 \in T
  BY KeepsItself DEF StoppedTo
<1>2. ASSUME NEW m \in 0..n, m \in T, m < n PROVE m + 1 \in T
  <2>1. Keeps(s, g[m])
    BY <1>2
  <2>2. m + 1 \in 1..n /\ (m + 1) - 1 = m
    BY <1>2
  <2>3. g[m + 1] = ClearSelection(g[m], slaves[m + 1]) /\ slaves[m + 1] \in Drawn
    BY <2>2 DEF StoppedTo
  <2>4. Keeps(g[m], ClearSelection(g[m], slaves[m + 1]))
    BY <2>1, <2>3, KeptHolds, ClearSelectionKeeps
  <2>5. Keeps(s, g[m + 1])
    BY <2>1, <2>3, <2>4, KeepsTwice
  <2> QED
    BY <2>2, <2>5
<1> HIDE DEF T
<1>3. n \in T
  <2>1. \A m \in 0..n : m \in T /\ m < n => m + 1 \in T
    BY <1>2
  <2>2. \A m \in 0..n : m \in T
    BY <1>1, <2>1, UpTo, Zenon
  <2> QED
    BY <2>2
<1> QED
  BY <1>3 DEF T

LEMMA StopSelectionStops ==
  ASSUME NEW s
  PROVE  LET slaves == SetToSeq({ c \in Drawn : s.drawn[c].selected })
             n == Len(slaves)
         IN \E g : StoppedTo(s, slaves, n, g) /\ StopSelection(s) = g[n]
<1> DEFINE S == { c \in Drawn : s.drawn[c].selected }
           slaves == SetToSeq(S)
           n == Len(slaves)
           stopped[m \in 0..n] == IF m = 0 THEN s ELSE ClearSelection(stopped[m - 1], slaves[m])
<1>1. n \in Nat
  BY SlavesAreCharts
<1>2. StopSelection(s) = stopped[n]
  BY DEF StopSelection
<1> HIDE DEF slaves, n
<1>3. PICK g : StoppedTo(s, slaves, n, g)
  BY <1>1, StoppedExists
<1> DEFINE Step(f) == [m \in 0..n |-> IF m = 0 THEN s ELSE ClearSelection(f[m - 1], slaves[m])]
<1>4. g = Step(g)
  <2>1. DOMAIN g = 0..n /\ g[0] = s /\ \A m \in 1..n : g[m] = ClearSelection(g[m - 1], slaves[m])
    BY <1>3 DEF StoppedTo
  <2>2. ASSUME NEW m \in 0..n PROVE g[m] = Step(g)[m]
    <3>1. m = 0 \/ m \in 1..n
      BY <1>1
    <3> QED
      BY <2>1, <3>1
  <2>3. g = [m \in 0..n |-> g[m]]
    BY <1>3 DEF StoppedTo
  <2> QED
    BY <2>1, <2>2, <2>3
<1>5. stopped = CHOOSE f : f = Step(f)
  BY DEF stopped
<1> HIDE DEF stopped
<1>6. stopped = Step(stopped)
  BY <1>4, <1>5
<1>7. StoppedTo(s, slaves, n, stopped)
  <2>1. stopped = [m \in 0..n |-> stopped[m]]
    BY <1>6
  <2>2. ASSUME NEW m \in 0..n
        PROVE  stopped[m] = IF m = 0 THEN s ELSE ClearSelection(stopped[m - 1], slaves[m])
    BY <1>6
  <2>3. stopped[0] = s
    BY <1>1, <2>2
  <2>4. ASSUME NEW m \in 1..n PROVE stopped[m] = ClearSelection(stopped[m - 1], slaves[m])
    <3>1. m \in 0..n /\ m # 0
      BY <1>1
    <3> QED
      BY <2>2, <3>1
  <2> QED
    BY <2>1, <2>3, <2>4 DEF StoppedTo
<1> QED
  BY <1>2, <1>7 DEF slaves, n

LEMMA StopSelectionKeeps ==
  ASSUME NEW s, Holds(s)
  PROVE  Keeps(s, StopSelection(s))
<1> DEFINE slaves == SetToSeq({ c \in Drawn : s.drawn[c].selected })
           n == Len(slaves)
<1>1. n \in Nat /\ \A m \in 1..n : slaves[m] \in Drawn
  BY SlavesAreCharts
<1>2. PICK g : StoppedTo(s, slaves, n, g) /\ StopSelection(s) = g[n]
  BY StopSelectionStops
<1> HIDE DEF slaves, n
<1> QED
  BY <1>1, <1>2, StoppedKeeps

LEMMA UpdateKeeps ==
  ASSUME NEW s, Holds(s), NEW c \in Drawn, s.drawn[c].data # Null
  PROVE  Keeps(s, UpdateOf(s, c))
<1> DEFINE t == CASE c \in Gauges /\ s.drawn[c].created -> GaugeChartUpdate(s, c)
                  [] c \in Gauges /\ ~s.drawn[c].created -> GaugeChartCreate(s, c)
                  [] c \in Pies /\ s.drawn[c].created -> EasypiechartChartUpdate(s, c)
                  [] c \in Pies /\ ~s.drawn[c].created -> EasypiechartChartCreate(s, c)
                  [] OTHER -> DygraphUpdate(s, c)
           u == LegendShowLatestValues(t, c)
<1>1. UpdateOf(s, c) \in {u, StopSelection(u)}
  BY DEF UpdateOf
<1>2. t \in {GaugeChartUpdate(s, c), GaugeChartCreate(s, c), EasypiechartChartUpdate(s, c),
             EasypiechartChartCreate(s, c), DygraphUpdate(s, c)}
  OBVIOUS
<1> HIDE DEF t
<1>3. Keeps(s, t)
  BY <1>2, GaugeChartKeeps, EasypiechartChartKeeps, DygraphUpdateKeeps
<1>4. Keeps(t, u)
  BY <1>3, KeptHolds, LegendShowLatestValuesKeeps
<1> HIDE DEF u
<1>5. Keeps(u, StopSelection(u))
  BY <1>4, KeptHolds, StopSelectionKeeps
<1>6. Keeps(s, u)
  BY <1>3, <1>4, KeepsTwice
<1>7. Keeps(s, StopSelection(u))
  BY <1>5, <1>6, KeepsTwice
<1> QED
  BY <1>1, <1>6, <1>7

LEMMA ColorsKeep ==
  ASSUME NEW s, Holds(s), NEW label
  PROVE  Keeps(s, CommonColorsGet(s, label))
<1>1. Shape(s)
  BY DEF Holds
<1>2. ASSUME NEW t, DOMAIN t = DOMAIN s, t.drawn = s.drawn,
             DOMAIN t.common = DOMAIN s.common,
             t.common.min = s.common.min, t.common.max = s.common.max
      PROVE  Keeps(s, t)
  BY <1>1, <1>2 DEF Holds, Shape, Keeps
<1> DEFINE t == Refill(s)
           v == <<Head(t.common.available)>>
           u == [t EXCEPT !.common.assigned[label] = v, !.common.available = Tail(@)]
<1>3. CommonColorsGet(s, label) \in {t, u}
  BY DEF CommonColorsGet
<1>4. /\ DOMAIN t = DOMAIN s /\ t.drawn = s.drawn /\ DOMAIN t.common = DOMAIN s.common
      /\ t.common.min = s.common.min /\ t.common.max = s.common.max
  BY <1>1 DEF Refill, Shape, NewCommon
<1> HIDE DEF t, v
<1>5. /\ DOMAIN u = DOMAIN s /\ u.drawn = s.drawn /\ DOMAIN u.common = DOMAIN s.common
      /\ u.common.min = s.common.min /\ u.common.max = s.common.max
  BY <1>1, <1>4 DEF Shape, NewCommon
<1> HIDE DEF u
<1> QED
  BY <1>2, <1>3, <1>4, <1>5

(* All that the charts do keeps the scale.                                 *)
ScaleRight == Holds(Scales)

LEMMA InitScale == ScalesInit => ScaleRight
<1> SUFFICES ASSUME ScalesInit PROVE ScaleRight
  OBVIOUS
<1>1. Shape(Scales)
  BY DEF ScalesInit, Scales, Shape
<1>2. \A c \in Drawn : drawn[c].data = Null
  BY DEF ScalesInit, NewDrawn
<1>3. Told(NewExtreme.keys) /\ Known(NewExtreme.keys) = {}
  BY DEF NewExtreme, Told, Optional, Known
<1>4. LowestTold(NewExtreme) /\ HighestTold(NewExtreme)
  BY <1>3 DEF LowestTold, HighestTold, NewExtreme
<1>5. common.min = NewExtreme /\ common.max = NewExtreme
  BY DEF ScalesInit, NewCommon
<1> QED
  BY <1>1, <1>2, <1>4, <1>5 DEF ScaleRight, Holds, Scales

LEMMA BecomesRight ==
  ASSUME NEW s, NEW t, Keeps(s, t), ScalesBecome(t)
  PROVE  ScaleRight'
<1>1. Holds(t) /\ Shape(t)
  BY DEF Keeps, Holds
<1>2. common' = t.common /\ drawn' = t.drawn
  BY DEF ScalesBecome
<1>3. Scales' = [common |-> t.common, drawn |-> t.drawn]
  BY <1>2 DEF Scales
<1> QED
  BY <1>1, <1>2, <1>3 DEF ScaleRight, Holds, Shape

LEMMA NextScale ==
  ASSUME ScaleRight, ScalesNext
  PROVE  ScaleRight'
<1>0. Holds(Scales) /\ Shape(Scales) /\ Scales.drawn = drawn
  BY DEF ScaleRight, Holds, Scales
<1>1. ASSUME NEW c \in Drawn, NEW value \in Values, NEW max \in Values, DataArrives(c, value, max)
      PROVE  ScaleRight'
  <2> DEFINE d == [value |-> value, min |-> 0, max |-> max]
             s == [Scales EXCEPT !.drawn[c].data = <<d>>]
  <2>1. d \in DataOf
    BY ScalesAssumption DEF DataOf
  <2>2. ScalesBecome(UpdateOf(s, c))
    BY <1>1 DEF DataArrives
  <2> HIDE DEF d
  <2>3. s.drawn[c].data = <<d>> /\ Holds(s)
    <3>1. Shape(s) /\ s.common = Scales.common
      BY <1>0 DEF Shape, NewDrawn
    <3>2. s.drawn[c].data = <<d>> /\ \A e \in Drawn : e # c => s.drawn[e].data = drawn[e].data
      BY <1>0 DEF Shape, NewDrawn
    <3> HIDE DEF s
    <3>3. \A e \in Drawn : s.drawn[e].data \in {Null} \cup { <<v>> : v \in DataOf }
      BY <1>0, <2>1, <3>2 DEF Holds
    <3> QED
      BY <1>0, <3>1, <3>2, <3>3 DEF Holds
  <2> HIDE DEF s
  <2>4. Keeps(s, UpdateOf(s, c))
    <3>1. s.drawn[c].data # Null
      BY <2>3 DEF Null
    <3> QED
      BY <2>3, <3>1, UpdateKeeps
  <2> QED
    BY <2>2, <2>4, BecomesRight
<1>2. ASSUME NEW c \in Drawn, NEW live \in BOOLEAN, PanOrReset(c, live)
      PROVE  ScaleRight'
  <2> DEFINE s == [Scales EXCEPT !.drawn[c].live = live]
  <2>1. ScalesBecome(UpdateOf(s, c)) /\ drawn[c].data # Null
    BY <1>2 DEF PanOrReset
  <2>2. Keeps(Scales, s)
    BY <1>0, Sets
  <2> HIDE DEF s
  <2>3. Keeps(s, UpdateOf(s, c))
    BY <1>0, <2>1, <2>2, KeptHolds, UpdateKeeps
  <2> QED
    BY <2>1, <2>3, BecomesRight
<1>3. ASSUME NEW c \in Drawn, NEW value, SelectValue(c, value)
      PROVE  ScaleRight'
  <2> DEFINE s == [Scales EXCEPT !.drawn[c].selected = TRUE]
             t == CASE c \in Gauges -> GaugeSetSelection(s, c, value)
                    [] c \in Pies -> EasypiechartSetSelection(s, c, value)
                    [] OTHER -> LegendSetSelection(s, c, value)
  <2>1. ScalesBecome(t) /\ drawn[c].data # Null
    BY <1>3 DEF SelectValue
  <2>2. Keeps(Scales, s)
    BY <1>0, Sets
  <2>3. t \in {GaugeSetSelection(s, c, value), EasypiechartSetSelection(s, c, value),
               LegendSetSelection(s, c, value)}
    OBVIOUS
  <2> HIDE DEF s, t
  <2>4. Holds(s) /\ s.drawn[c].data # Null
    BY <1>0, <2>1, <2>2, KeptHolds
  <2>5. Keeps(s, t)
    BY <2>3, <2>4, GaugeSetSelectionKeeps, EasypiechartSetSelectionKeeps, LegendSetSelectionKeeps
  <2> QED
    BY <2>1, <2>5, BecomesRight
<1>4. ASSUME NEW c \in Drawn, Deselect(c)
      PROVE  ScaleRight'
  <2>1. ScalesBecome(ClearSelection(Scales, c))
    BY <1>4 DEF Deselect
  <2> QED
    BY <1>0, <2>1, ClearSelectionKeeps, BecomesRight
<1>5. ASSUME NEW c \in Drawn, SelectionTimer(c)
      PROVE  ScaleRight'
  <2> DEFINE s == [Scales EXCEPT !.drawn[c].timer = FALSE]
             e == drawn[c].event[1]
             t == GaugeSet(s, c, e.value, 0, e.max)
             u == [s EXCEPT !.drawn[c].needle = e.max]
  <2>1. ScalesBecome(IF c \in Gauges THEN t ELSE u)
    BY <1>5 DEF SelectionTimer
  <2>2. Keeps(Scales, s)
    BY <1>0, Sets
  <2> HIDE DEF s, e
  <2>3. Keeps(s, t) /\ Keeps(s, u)
    BY <2>2, KeptHolds, GaugeSetKeeps, Sets
  <2> HIDE DEF t, u
  <2> QED
    BY <2>1, <2>3, BecomesRight
<1>6. ASSUME NEW label \in Labels, LabelIsColored(label)
      PROVE  ScaleRight'
  <2>1. ScalesBecome(CommonColorsGet(Scales, label))
    BY <1>6 DEF LabelIsColored
  <2> QED
    BY <1>0, <2>1, ColorsKeep, BecomesRight
<1> QED
  BY <1>1, <1>2, <1>3, <1>4, <1>5, <1>6 DEF ScalesNext

(* The common least and greatest value of the charts of a page are those   *)
(* of all charts that have told theirs, although they are kept up to date  *)
(* from one chart at a time and mostly without looking at the others       *)
(* (commonMin.get(), commonMax.get(), which every way to draw or select    *)
(* calls, each time with data).                                            *)
THEOREM ScaleTrue == Spec => []ScaleHoldsAll
<1>1. Init => ScaleRight
  BY InitScale DEF Init
<1>2. ScaleRight /\ [Next]_dashboardVars => ScaleRight'
  <2>1. ASSUME ScaleRight, UNCHANGED scalesVars
        PROVE  ScaleRight'
    BY <2>1 DEF ScaleRight, Scales, scalesVars
  <2> QED
    BY <2>1, NextScale DEF Next, dashboardVars
<1>3. ScaleRight => ScaleHoldsAll
  BY DEF ScaleRight, Holds, Scales, LowestTold, HighestTold, ScaleHoldsAll
<1> QED
  BY <1>1, <1>2, <1>3, PTL DEF Spec

-----------------------------------------------------------------------------
(* Units: what a chart shows was made with its divider, unless it is to be *)
(* made anew.                                                              *)
Nulls == [p \in Spots |-> Null]
Steady(s, c) == s.drawn[c].shares => s.drawn[c].divider = s.common.units.latest[1]
Level(g) == g.created => g.unit = g.divider
Fits(g, p) == g.label[p].divider = g.divider
Even(g) ==
    /\ DOMAIN g.old = Spots /\ DOMAIN g.label = Spots /\ Level(g)
    /\ \A p \in Spots : g.old[p] # Null => Fits(g, p)

(* A step that leaves alone what all charts have in common but the units,  *)
(* the other charts, and how the chart stands.                             *)
Stays(s, t, c) ==
    /\ Keeps(s, t)
    /\ t.common.min = s.common.min /\ t.common.max = s.common.max
    /\ \A d \in Drawn : d # c => t.drawn[d] = s.drawn[d]
    /\ t.drawn[c].created = s.drawn[c].created
    /\ t.drawn[c].live = s.drawn[c].live
    /\ t.drawn[c].selected = s.drawn[c].selected
Converts(s, t, c) == Stays(s, t, c) /\ t.drawn[c].label = s.drawn[c].label

LEMMA StaysTwice ==
  ASSUME NEW s, NEW t, NEW u, NEW c, Stays(s, t, c), Stays(t, u, c)
  PROVE  Stays(s, u, c)
  BY KeepsTwice DEF Stays

LEMMA ConvertsTwice ==
  ASSUME NEW s, NEW t, NEW u, NEW c, Converts(s, t, c), Converts(t, u, c)
  PROVE  Converts(s, u, c)
  BY StaysTwice DEF Converts

LEMMA StaysItself ==
  ASSUME NEW s, Holds(s), NEW c
  PROVE  Converts(s, s, c)
  BY KeepsItself DEF Stays, Converts

LEMMA StayingHolds ==
  ASSUME NEW s, NEW t, NEW c, Stays(s, t, c)
  PROVE  Keeps(s, t) /\ Holds(t) /\ Shape(t)
  BY DEF Stays, Keeps, Holds

(* Units are switched.                                                     *)
LEMMA SwitchUnitsConverts ==
  ASSUME NEW s, Holds(s), NEW c \in Drawn, NEW divider
  PROVE  LET t == SwitchUnits(s, c, divider)
             g == s.drawn[c]
             h == t.drawn[c]
         IN /\ Converts(s, t, c) /\ t.common = s.common
            /\ h.divider = g.divider /\ h.shares = g.shares /\ h.set = g.set
            /\ ~g.created /\ c \notin Legends => t = s
            /\ g.created \/ c \in Legends => h.unit = divider
            /\ g.unit = divider => h.old = g.old
            /\ c \in Gauges /\ g.created /\ g.unit # divider => h.old = Nulls
<1> DEFINE t == SwitchUnits(s, c, divider)
           g == s.drawn[c]
           old == IF c \in Gauges THEN Nulls ELSE g.old
           u == [s EXCEPT !.drawn[c].unit = divider, !.drawn[c].old = old]
<1>0. Shape(s)
  BY DEF Holds
<1>1. Keeps(s, t)
  BY SwitchUnitsKeeps
<1>2. CASE g.unit = divider \/ (c \notin Legends /\ ~g.created)
  <2>1. t = s
    BY <1>2 DEF SwitchUnits
  <2> HIDE DEF t
  <2> QED
    BY <1>2, <2>1, StaysItself DEF t
<1>3. CASE ~(g.unit = divider \/ (c \notin Legends /\ ~g.created))
  <2>1. t = u
    BY <1>0, <1>3 DEF SwitchUnits, Shape, NewDrawn, Nulls
  <2> HIDE DEF old
  <2>2. /\ u.common = s.common /\ \A d \in Drawn : d # c => u.drawn[d] = s.drawn[d]
        /\ u.drawn[c].created = g.created /\ u.drawn[c].live = g.live
        /\ u.drawn[c].selected = g.selected /\ u.drawn[c].label = g.label
        /\ u.drawn[c].divider = g.divider /\ u.drawn[c].shares = g.shares
        /\ u.drawn[c].set = g.set /\ u.drawn[c].unit = divider /\ u.drawn[c].old = old
    BY <1>0 DEF Shape, NewDrawn
  <2> HIDE DEF u, t
  <2>3. Converts(s, t, c)
    BY <1>1, <2>1, <2>2 DEF Converts, Stays
  <2> QED
    BY <1>3, <2>1, <2>2, <2>3 DEF old, t
<1> QED
  BY <1>2, <1>3

(* What switching the units does to a gauge: nothing, or its labels are    *)
(* to be made anew.                                                        *)
AsBefore(g, h) == h.old = g.old /\ h.divider = g.divider
Anew(g, h) == h.old = IF g.created THEN Nulls ELSE g.old

LEMMA SwitchedConverts ==
  ASSUME NEW s, Holds(s), NEW c \in Drawn
  PROVE  LET t == Switched(s, c)
             g == s.drawn[c]
             h == t.drawn[c]
         IN /\ Converts(s, t, c) /\ t.common = s.common /\ h.set = g.set /\ Steady(t, c)
            /\ c \in Gauges /\ Level(g) => Level(h) /\ (AsBefore(g, h) \/ Anew(g, h))
            /\ Steady(s, c) => h.divider = g.divider
            /\ c \in Gauges /\ Level(g) /\ Steady(s, c) => AsBefore(g, h)
            /\ (c \in Legends \/ g.created) /\ g.unit = g.divider => h.unit = h.divider
<1> DEFINE t == Switched(s, c)
           g == s.drawn[c]
           h == t.drawn[c]
           d == s.common.units.latest[1]
           u == [s EXCEPT !.drawn[c].divider = d]
           v == SwitchUnits(u, c, d)
<1>0. Shape(s)
  BY DEF Holds
<1>1. CASE ~g.shares \/ <<g.divider>> = s.common.units.latest
  <2>1. t = s
    BY <1>1 DEF Switched
  <2>2. Steady(s, c)
    BY <1>1 DEF Steady
  <2>3. Converts(s, s, c)
    BY StaysItself
  <2> HIDE DEF t
  <2> QED
    BY <2>1, <2>2, <2>3 DEF t, AsBefore
<1>2. CASE ~(~g.shares \/ <<g.divider>> = s.common.units.latest)
  <2>1. t = v
    BY <1>2 DEF Switched
  <2>2. Keeps(s, u)
    BY Sets
  <2>3. /\ u.common = s.common /\ \A x \in Drawn : x # c => u.drawn[x] = s.drawn[x]
        /\ u.drawn[c].created = g.created /\ u.drawn[c].live = g.live
        /\ u.drawn[c].selected = g.selected /\ u.drawn[c].label = g.label
        /\ u.drawn[c].divider = d /\ u.drawn[c].shares = g.shares
        /\ u.drawn[c].set = g.set /\ u.drawn[c].unit = g.unit /\ u.drawn[c].old = g.old
    BY <1>0 DEF Shape, NewDrawn
  <2> HIDE DEF u, d
  <2>4. Converts(s, u, c)
    BY <2>2, <2>3 DEF Converts, Stays
  <2>5. Holds(u)
    BY <2>2 DEF Keeps
  <2>6. /\ Converts(u, v, c) /\ v.common = u.common
        /\ v.drawn[c].divider = d /\ v.drawn[c].shares = g.shares /\ v.drawn[c].set = g.set
        /\ ~g.created /\ c \notin Legends => v = u
        /\ g.created \/ c \in Legends => v.drawn[c].unit = d
        /\ g.unit = d => v.drawn[c].old = g.old
        /\ c \in Gauges /\ g.created /\ g.unit # d => v.drawn[c].old = Nulls
    BY <2>3, <2>5, SwitchUnitsConverts
  <2>7. Converts(s, v, c)
    BY <2>4, <2>6, ConvertsTwice
  <2> HIDE DEF t, v
  <2>8. Steady(t, c) /\ (Steady(s, c) => d = g.divider)
    BY <1>2, <2>1, <2>3, <2>6 DEF Steady, d
  <2>9. c \in Gauges /\ Level(g) => Level(h) /\ (AsBefore(g, h) \/ Anew(g, h))
    <3>1. CASE g.created
      BY <2>1, <2>3, <2>6, <2>7, <3>1 DEF Level, AsBefore, Anew, Converts, Stays
    <3>2. CASE ~g.created
      BY <2>1, <2>3, <2>6, <2>7, <3>2, ScalesAssumption DEF Level, AsBefore, Anew, Converts, Stays
    <3> QED
      BY <3>1, <3>2
  <2>10. c \in Gauges /\ Level(g) /\ Steady(s, c) => AsBefore(g, h)
    <3>1. CASE g.created
      BY <2>1, <2>3, <2>6, <2>8, <3>1 DEF Level, AsBefore
    <3>2. CASE ~g.created
      <4>1. c \in Gauges => c \notin Legends
        BY ScalesAssumption
      <4> QED
        BY <2>1, <2>3, <2>6, <2>8, <3>2, <4>1 DEF Level, AsBefore
    <3> QED
      BY <3>1, <3>2
  <2> QED
    BY <2>1, <2>3, <2>6, <2>7, <2>8, <2>9, <2>10 DEF t
<1> QED
  BY <1>1, <1>2

LEMMA UnitsConversionGetConverts ==
  ASSUME NEW s, Holds(s), NEW c \in Drawn, NEW min, NEW max
  PROVE  LET t == UnitsConversionGet(s, c, min, max)
             g == s.drawn[c]
             h == t.drawn[c]
         IN /\ Converts(s, t, c) /\ Steady(t, c) /\ h.set = g.set
            /\ c \in Gauges /\ Level(g) => Level(h) /\ (AsBefore(g, h) \/ Anew(g, h))
<1> DEFINE g == s.drawn[c]
           keys == [s.common.units.keys EXCEPT ![c] = <<Max(AutoScale(min, max))>>]
           d == Max(Known(keys))
           x == [s EXCEPT !.drawn[c].shares = FALSE, !.drawn[c].divider = 1]
           y == [s EXCEPT !.common.units = [keys |-> keys, latest |-> <<d>>],
                          !.drawn[c].shares = TRUE, !.drawn[c].divider = d]
<1>0. Shape(s)
  BY DEF Holds
<1> HIDE DEF keys, d
<1> DEFINE Prepared(u, e) ==
             /\ u.common.min = s.common.min /\ u.common.max = s.common.max
             /\ \A z \in Drawn : z # c => u.drawn[z] = s.drawn[z]
             /\ u.drawn[c].created = g.created /\ u.drawn[c].live = g.live
             /\ u.drawn[c].selected = g.selected /\ u.drawn[c].label = g.label
             /\ u.drawn[c].divider = e /\ u.drawn[c].set = g.set
             /\ u.drawn[c].unit = g.unit /\ u.drawn[c].old = g.old
             /\ u.drawn[c].shares => u.common.units.latest[1] = e
<1>1. Prepared(x, 1) /\ Touches(s, x, c)
  BY <1>0 DEF Shape, NewDrawn, NewCommon, Touches
<1>2. Prepared(y, d) /\ Touches(s, y, c)
  BY <1>0 DEF Shape, NewDrawn, NewCommon, Touches
<1>3. \/ UnitsConversionGet(s, c, min, max) = SwitchUnits(x, c, 1)
      \/ UnitsConversionGet(s, c, min, max) = SwitchUnits(y, c, d)
  BY DEF UnitsConversionGet, keys, d
<1> HIDE DEF x, y
<1>4. ASSUME NEW u, NEW e, Prepared(u, e), Touches(s, u, c)
      PROVE  LET t == SwitchUnits(u, c, e)
                 h == t.drawn[c]
             IN /\ Converts(s, t, c) /\ Steady(t, c) /\ h.set = g.set
                /\ c \in Gauges /\ Level(g) => Level(h) /\ (AsBefore(g, h) \/ Anew(g, h))
  <2> DEFINE t == SwitchUnits(u, c, e)
             h == t.drawn[c]
  <2>1. Keeps(s, u) /\ Holds(u)
    BY <1>4, TouchingKeeps DEF Keeps
  <2>2. Converts(s, u, c)
    BY <1>4, <2>1 DEF Converts, Stays
  <2>3. /\ Converts(u, t, c) /\ t.common = u.common
        /\ h.divider = e /\ h.shares = u.drawn[c].shares /\ h.set = g.set
        /\ ~g.created /\ c \notin Legends => t = u
        /\ g.created \/ c \in Legends => h.unit = e
        /\ g.unit = e => h.old = g.old
        /\ c \in Gauges /\ g.created /\ g.unit # e => h.old = Nulls
    BY <1>4, <2>1, SwitchUnitsConverts
  <2>4. Converts(s, t, c)
    BY <2>2, <2>3, ConvertsTwice
  <2> HIDE DEF t
  <2>5. Steady(t, c)
    BY <1>4, <2>3 DEF Steady
  <2>6. ASSUME c \in Gauges, Level(g) PROVE Level(h) /\ (AsBefore(g, h) \/ Anew(g, h))
    <3>1. h.created = g.created
      BY <2>4 DEF Converts, Stays
    <3>2. CASE g.created
      BY <2>3, <2>6, <3>1, <3>2 DEF Level, AsBefore, Anew
    <3>3. CASE ~g.created
      BY <1>4, <2>3, <2>6, <3>1, <3>3, ScalesAssumption DEF Level, Anew
    <3> QED
      BY <3>2, <3>3
  <2> QED
    BY <2>3, <2>4, <2>5, <2>6 DEF t
<1> HIDE DEF Prepared, g
<1>5. CASE UnitsConversionGet(s, c, min, max) = SwitchUnits(x, c, 1)
  BY <1>1, <1>4, <1>5 DEF g
<1>6. CASE UnitsConversionGet(s, c, min, max) = SwitchUnits(y, c, d)
  BY <1>2, <1>4, <1>6 DEF g
<1> QED
  BY <1>3, <1>5, <1>6

(* A range that is not taken for the last one makes the chart steady.      *)
LEMMA DecimalsConvert ==
  ASSUME NEW s, Holds(s), NEW c \in Drawn, NEW min, NEW max
  PROVE  LET t == DecimalsFromMinMax(s, c, min, max)
             g == s.drawn[c]
             h == t.drawn[c]
         IN /\ Converts(s, t, c)
            /\ (t = s /\ g.decimals # Null) \/ Steady(t, c)
            /\ c \in Gauges /\ Level(g) => Level(h) /\ (AsBefore(g, h) \/ Anew(g, h))
<1> DEFINE g == s.drawn[c]
           r == [s EXCEPT !.drawn[c].set = <<min, max>>]
           t == UnitsConversionSetup(s, c, min, max)
           u == Switched(t, c)
           v == [number |-> min, divider |-> u.drawn[c].divider]
           w == [number |-> max, divider |-> u.drawn[c].divider]
           z == [u EXCEPT !.drawn[c].decimals = <<v, w>>]
<1>0. Shape(s)
  BY DEF Holds
<1>1. CASE g.decimals # Null /\ Same(<<g.decimals[1]>>, min) /\ Same(<<g.decimals[2]>>, max)
  <2>1. DecimalsFromMinMax(s, c, min, max) = s
    BY <1>1 DEF DecimalsFromMinMax
  <2> QED
    BY <1>1, <2>1, StaysItself DEF AsBefore
<1>2. CASE ~(g.decimals # Null /\ Same(<<g.decimals[1]>>, min) /\ Same(<<g.decimals[2]>>, max))
  <2>1. DecimalsFromMinMax(s, c, min, max) = z
    BY <1>2 DEF DecimalsFromMinMax
  <2>2. /\ Converts(s, r, c) /\ AsBefore(g, r.drawn[c])
        /\ r.drawn[c].unit = g.unit /\ r.drawn[c].created = g.created
    <3>1. Keeps(s, r)
      BY Sets
    <3> QED
      BY <1>0, <3>1 DEF Shape, NewDrawn, Converts, Stays, AsBefore
  <2>3. t \in {s, UnitsConversionGet(r, c, min, max)}
    BY DEF UnitsConversionSetup
  <2> HIDE DEF r, t
  <2>4. /\ Converts(s, t, c)
        /\ c \in Gauges /\ Level(g) => Level(t.drawn[c]) /\ (AsBefore(g, t.drawn[c]) \/ Anew(g, t.drawn[c]))
    <3>1. CASE t = s
      BY <3>1, StaysItself DEF AsBefore
    <3>2. CASE t = UnitsConversionGet(r, c, min, max)
      <4>1. Holds(r)
        BY <2>2, StayingHolds DEF Converts
      <4>2. /\ Converts(r, t, c)
            /\ c \in Gauges /\ Level(r.drawn[c]) =>
                 Level(t.drawn[c]) /\ (AsBefore(r.drawn[c], t.drawn[c]) \/ Anew(r.drawn[c], t.drawn[c]))
        BY <3>2, <4>1, UnitsConversionGetConverts
      <4>3. Converts(s, t, c)
        BY <2>2, <4>2, ConvertsTwice
      <4> QED
        BY <2>2, <4>2, <4>3 DEF Level, AsBefore, Anew
    <3> QED
      BY <2>3, <3>1, <3>2
  <2>5. Holds(t) /\ t.drawn[c].created = g.created
    BY <2>4, StayingHolds DEF Converts, Stays
  <2>6. /\ Converts(t, u, c) /\ Steady(u, c)
        /\ c \in Gauges /\ Level(t.drawn[c]) =>
             Level(u.drawn[c]) /\ (AsBefore(t.drawn[c], u.drawn[c]) \/ Anew(t.drawn[c], u.drawn[c]))
    BY <2>5, SwitchedConverts
  <2> HIDE DEF u, v, w
  <2>7. Holds(u) /\ Shape(u) /\ u.drawn[c].created = g.created
    BY <2>5, <2>6, StayingHolds, ZenonT(30) DEF Converts, Stays
  <2>8. /\ Converts(u, z, c) /\ z.common = u.common /\ AsBefore(u.drawn[c], z.drawn[c])
        /\ z.drawn[c].unit = u.drawn[c].unit /\ z.drawn[c].shares = u.drawn[c].shares
    <3>1. Keeps(u, z)
      BY <2>7, Sets
    <3> QED
      BY <2>7, <3>1 DEF Shape, NewDrawn, Converts, Stays, AsBefore
  <2> HIDE DEF z
  <2>9. Converts(s, z, c)
    BY <2>4, <2>6, <2>8, ConvertsTwice
  <2>10. Steady(z, c)
    BY <2>6, <2>8 DEF Steady, AsBefore
  <2>11. ASSUME c \in Gauges, Level(g)
         PROVE  Level(z.drawn[c]) /\ (AsBefore(g, z.drawn[c]) \/ Anew(g, z.drawn[c]))
    <3>1. Level(u.drawn[c])
      BY <2>4, <2>6, <2>11
    <3>2. Level(z.drawn[c])
      BY <2>7, <2>8, <2>9, <3>1 DEF Level, AsBefore, Converts, Stays
    <3>3. AsBefore(g, u.drawn[c]) \/ Anew(g, u.drawn[c])
      BY <2>4, <2>5, <2>6, <2>11 DEF AsBefore, Anew
    <3> QED
      BY <2>8, <3>2, <3>3 DEF AsBefore, Anew
  <2> QED
    BY <2>1, <2>9, <2>10, <2>11
<1> QED
  BY <1>1, <1>2

(* Labels that were even stay so.                                          *)
Scaled(g) == g.created \/ g.old = Nulls
LEMMA ConvertsEven ==
  ASSUME NEW s, NEW t, NEW c, Converts(s, t, c), Even(s.drawn[c]), Level(t.drawn[c]),
         AsBefore(s.drawn[c], t.drawn[c]) \/ Anew(s.drawn[c], t.drawn[c]), Scaled(s.drawn[c])
  PROVE  Even(t.drawn[c]) /\ Scaled(t.drawn[c]) /\ t.drawn[c].old \in {s.drawn[c].old, Nulls}
<1> DEFINE g == s.drawn[c]
           h == t.drawn[c]
<1>1. h.label = g.label /\ h.created = g.created
  BY DEF Converts, Stays
<1>2. CASE AsBefore(g, h)
  BY <1>1, <1>2 DEF AsBefore, Even, Scaled, Fits
<1>3. CASE Anew(g, h)
  <2>1. h.old = Nulls
    BY <1>3 DEF Anew, Scaled
  <2>2. DOMAIN Nulls = Spots /\ \A p \in Spots : Nulls[p] = Null
    BY DEF Nulls
  <2> QED
    BY <1>1, <2>1, <2>2 DEF Even, Scaled
<1> QED
  BY <1>2, <1>3

LEMMA GaugeSetConverts ==
  ASSUME NEW s, Holds(s), NEW c \in Gauges, NEW value, NEW min, NEW max,
         Even(s.drawn[c]), Scaled(s.drawn[c])
  PROVE  LET t == GaugeSet(s, c, value, min, max)
             g == s.drawn[c]
             h == t.drawn[c]
         IN /\ Converts(s, t, c) /\ Even(h) /\ Scaled(h) /\ h.old \in {g.old, Nulls}
            /\ (h.set = g.set /\ g.decimals # Null) \/ Steady(t, c)
<1> DEFINE low == Min({min, value})
           high == IF Max({max, value}) = low THEN low + 1 ELSE Max({max, value})
           t == DecimalsFromMinMax(s, c, low, high)
           needle == ((value - low) * 100) \div (high - low)
           u == [t EXCEPT !.drawn[c].needle = needle]
           g == s.drawn[c]
<1>0. c \in Drawn
  BY DEF Drawn
<1>1. GaugeSet(s, c, value, min, max) = u
  BY DEF GaugeSet
<1> HIDE DEF low, high, needle
<1>2. /\ Converts(s, t, c)
      /\ (t = s /\ g.decimals # Null) \/ Steady(t, c)
      /\ Level(t.drawn[c]) /\ (AsBefore(g, t.drawn[c]) \/ Anew(g, t.drawn[c]))
  BY <1>0, DecimalsConvert DEF Even
<1> HIDE DEF t
<1>3. Holds(t) /\ Shape(t)
  BY <1>2, StayingHolds DEF Converts
<1>4. /\ Converts(t, u, c) /\ u.common = t.common
      /\ AsBefore(t.drawn[c], u.drawn[c]) /\ u.drawn[c].unit = t.drawn[c].unit
      /\ u.drawn[c].shares = t.drawn[c].shares /\ u.drawn[c].set = t.drawn[c].set
  <2>1. Keeps(t, u)
    BY <1>0, <1>3, Sets
  <2> QED
    BY <1>0, <1>3, <2>1 DEF Shape, NewDrawn, Converts, Stays, AsBefore
<1> HIDE DEF u
<1>5. Converts(s, u, c)
  BY <1>2, <1>4, ConvertsTwice
<1>6. Level(u.drawn[c]) /\ (AsBefore(g, u.drawn[c]) \/ Anew(g, u.drawn[c]))
  <2>1. u.drawn[c].created = t.drawn[c].created
    BY <1>4 DEF Converts, Stays
  <2> QED
    BY <1>2, <1>4, <2>1 DEF Level, AsBefore, Anew
<1>7. (u.drawn[c].set = g.set /\ g.decimals # Null) \/ Steady(u, c)
  BY <1>2, <1>4 DEF Steady, AsBefore
<1>8. Even(u.drawn[c]) /\ Scaled(u.drawn[c]) /\ u.drawn[c].old \in {g.old, Nulls}
  BY <1>5, <1>6, ConvertsEven
<1> QED
  BY <1>1, <1>5, <1>7, <1>8

(* A label of a gauge.                                                     *)
Puts(g, h, part, v) ==
    h.old[part] = v /\ \A p \in Spots : p # part => h.old[p] = g.old[p]
LEMMA GaugeSetLabelShows ==
  ASSUME NEW s, Holds(s), NEW c \in Gauges, NEW part \in Spots, NEW v,
         Even(s.drawn[c]), s.drawn[c].created \/ Steady(s, c)
  PROVE  LET t == GaugeSetLabel(s, c, part, v)
             g == s.drawn[c]
             h == t.drawn[c]
         IN /\ Stays(s, t, c) /\ h.set = g.set /\ t.common = s.common /\ Even(h)
            /\ h.created \/ Steady(t, c)
            /\ Puts(g, h, part, v) \/ h.old = Nulls
            /\ v = Null => Puts(g, h, part, v)
            /\ v # Null => Fits(h, part)
            /\ v # Null /\ g.old[part] = v => t = s
            /\ v # Null /\ g.old[part] # v => Steady(t, c)
            /\ Steady(s, c) => /\ Steady(t, c)
                               /\ v # Null => \A p \in Spots : Fits(g, p) => Fits(h, p)
<1> DEFINE g == s.drawn[c]
           r == [s EXCEPT !.drawn[c].old[part] = v]
           u == Switched(r, c)
           said == IF v = Null THEN Dash ELSE [number |-> v, divider |-> u.drawn[c].divider]
           base == IF v = Null THEN r ELSE u
           z == [base EXCEPT !.drawn[c].label[part] = said]
<1>0. Shape(s) /\ c \in Drawn /\ DOMAIN g.old = Spots /\ DOMAIN g.label = Spots
  BY DEF Holds, Drawn, Even
<1>1. CASE g.old[part] = v
  <2>1. GaugeSetLabel(s, c, part, v) = s
    BY <1>1 DEF GaugeSetLabel
  <2>2. Puts(g, g, part, v)
    BY <1>1 DEF Puts
  <2>3. v # Null => Fits(g, part)
    BY <1>1 DEF Even
  <2>4. Stays(s, s, c)
    BY StaysItself DEF Converts
  <2> QED
    BY <1>1, <2>1, <2>2, <2>3, <2>4
<1>2. CASE g.old[part] # v
  <2>1. GaugeSetLabel(s, c, part, v) = z
    BY <1>2 DEF GaugeSetLabel, ShowLabel
  <2>2. /\ Converts(s, r, c) /\ r.common = s.common /\ r.drawn[c].set = g.set
        /\ r.drawn[c].divider = g.divider /\ r.drawn[c].shares = g.shares
        /\ r.drawn[c].unit = g.unit /\ r.drawn[c].old = [g.old EXCEPT ![part] = v]
    <3>1. Touches(s, r, c)
      BY <1>0 DEF Touches, Shape, NewDrawn
    <3>2. Keeps(s, r)
      BY <1>0, <3>1, TouchingKeeps
    <3> QED
      BY <1>0, <3>2 DEF Shape, NewDrawn, Converts, Stays
  <2> HIDE DEF r
  <2>3. Holds(r) /\ Level(r.drawn[c]) /\ r.drawn[c].created = g.created
    <3>1. Holds(r)
      BY <2>2, StayingHolds DEF Converts
    <3>2. r.drawn[c].created = g.created
      BY <2>2 DEF Converts, Stays
    <3> QED
      BY <2>2, <3>1, <3>2 DEF Level, Even
  <2>4. /\ Converts(r, u, c) /\ u.common = s.common /\ u.drawn[c].set = g.set /\ Steady(u, c)
        /\ Level(u.drawn[c])
        /\ AsBefore(r.drawn[c], u.drawn[c]) \/ Anew(r.drawn[c], u.drawn[c])
        /\ Steady(r, c) => AsBefore(r.drawn[c], u.drawn[c])
    BY <1>0, <2>2, <2>3, SwitchedConverts
  <2> HIDE DEF u
  <2>5. Steady(s, c) <=> Steady(r, c)
    BY <2>2 DEF Steady
  <2>6. /\ Converts(s, base, c) /\ base.common = s.common /\ base.drawn[c].set = g.set
        /\ Level(base.drawn[c]) /\ (v # Null \/ Steady(s, c) => Steady(base, c))
        /\ base.drawn[c].old \in {r.drawn[c].old, Nulls}
        /\ v = Null \/ Steady(s, c) => AsBefore(r.drawn[c], base.drawn[c])
        /\ AsBefore(r.drawn[c], base.drawn[c]) \/ base.drawn[c].old = Nulls
    <3>1. CASE v = Null
      BY <2>2, <2>3, <2>5, <3>1 DEF AsBefore
    <3>2. CASE v # Null
      <4>1. Converts(s, u, c)
        BY <2>2, <2>4, ConvertsTwice
      <4>2. AsBefore(r.drawn[c], u.drawn[c]) \/ u.drawn[c].old = Nulls
        BY <2>3, <2>4, <2>5 DEF Anew
      <4> QED
        BY <2>4, <2>5, <3>2, <4>1, <4>2 DEF AsBefore
    <3> QED
      BY <3>1, <3>2
  <2>7. v # Null => base = u
    OBVIOUS
  <2> HIDE DEF base
  <2> DEFINE b == base.drawn[c]
             h == z.drawn[c]
  <2>8. Holds(base) /\ Shape(base) /\ b.label = g.label /\ b.created = g.created
    BY <2>6, StayingHolds DEF Converts, Stays
  <2>9. /\ Stays(base, z, c) /\ z.common = base.common /\ h.set = b.set
        /\ h.divider = b.divider /\ h.shares = b.shares /\ h.unit = b.unit /\ h.old = b.old
        /\ h.label = [g.label EXCEPT ![part] = said]
    <3> HIDE DEF said
    <3>1. Touches(base, z, c)
      BY <1>0, <2>8 DEF Touches, Shape, NewDrawn
    <3>2. Keeps(base, z)
      BY <1>0, <2>8, <3>1, TouchingKeeps
    <3> QED
      BY <1>0, <2>8, <3>2 DEF Shape, NewDrawn, Stays
  <2>10. v # Null => said.divider = b.divider
    BY <2>7
  <2> HIDE DEF z, said, h, b
  <2>11. Stays(s, z, c)
    BY <2>6, <2>9, StaysTwice DEF Converts
  <2>12. v # Null => Fits(h, part)
    BY <1>0, <2>9, <2>10 DEF Fits
  <2>13. h.created = g.created /\ Level(h)
    BY <2>6, <2>9, <2>11 DEF Level, Stays, h, b
  <2>14. (v # Null \/ Steady(s, c)) => Steady(z, c)
    BY <2>6, <2>9, SMTT(30) DEF Steady, h, b
  <2>15. /\ h.old \in {[g.old EXCEPT ![part] = v], Nulls}
         /\ v = Null => h.old = [g.old EXCEPT ![part] = v]
    BY <2>2, <2>6, <2>9 DEF AsBefore, b
  <2>22. /\ Puts(g, h, part, v) \/ h.old = Nulls
         /\ v = Null => Puts(g, h, part, v)
    <3>1. h.old = [g.old EXCEPT ![part] = v] => Puts(g, h, part, v)
      BY <1>0 DEF Puts
    <3> QED
      BY <2>15, <3>1
  <2>16. \A p \in Spots : p # part => h.label[p] = g.label[p]
    BY <1>0, <2>9
  <2>17. v = Null \/ Steady(s, c) => h.divider = g.divider
    BY <2>2, <2>6, <2>9 DEF AsBefore, b
  <2>18. Even(h)
    <3>1. DOMAIN h.old = Spots /\ DOMAIN h.label = Spots
      BY <1>0, <2>9, <2>15 DEF Nulls
    <3>2. CASE h.old = Nulls
      BY <2>13, <3>1, <3>2 DEF Even, Nulls
    <3>3. CASE h.old # Nulls
      <4>1. h.divider = g.divider /\ h.old = [g.old EXCEPT ![part] = v]
        BY <2>2, <2>6, <2>9, <2>15, <3>3 DEF AsBefore, b
      <4>2. ASSUME NEW p \in Spots, h.old[p] # Null PROVE Fits(h, p)
        <5>1. CASE p = part
          BY <1>0, <2>12, <4>1, <4>2, <5>1
        <5>2. CASE p # part
          BY <1>0, <2>16, <4>1, <4>2, <5>2 DEF Even, Fits
        <5> QED
          BY <5>1, <5>2
      <4> QED
        BY <2>13, <3>1, <4>2, SMTT(30) DEF Even
    <3> QED
      BY <3>2, <3>3
  <2>19. Steady(s, c) /\ v # Null => \A p \in Spots : Fits(g, p) => Fits(h, p)
    BY <2>12, <2>16, <2>17 DEF Fits
  <2>20. h.created \/ Steady(z, c)
    BY <2>13, <2>14
  <2>21. h.set = g.set /\ z.common = s.common
    BY <2>6, <2>9 DEF b
  <2> QED
    BY <1>2, <2>1, <2>11, <2>12, <2>14, <2>22, <2>18, <2>19, <2>20, <2>21, SMTT(30) DEF h
<1> QED
  BY <1>1, <1>2

(* The three labels of a gauge.  The old value is there only together with *)
(* the old minimum, and, when the labels are complete, the old maximum.    *)
Lowered(g) ==
    g.old["min"] \in {Null, <<0>>} /\ (g.old["min"] = Null => g.old["value"] = Null)
Complete(g, v, max) == g.old["value"] = Null \/ (g.old["value"] = v /\ g.old["max"] = max)
AllFit(g) == \A p \in Spots : Fits(g, p)

LEMMA GaugeSetLabelsShow ==
  ASSUME NEW s, Holds(s), NEW c \in Gauges, NEW v, v # Null, NEW max, max # Null,
         Even(s.drawn[c]), Lowered(s.drawn[c]), s.drawn[c].created \/ Steady(s, c)
  PROVE  LET t == GaugeSetLabels(s, c, v, <<0>>, max)
             g == s.drawn[c]
             h == t.drawn[c]
         IN /\ Stays(s, t, c) /\ h.set = g.set /\ t.common = s.common
            /\ Even(h) /\ Lowered(h) /\ Complete(h, v, max)
            /\ Steady(s, c) \/ g.old["value"] # v \/ Complete(g, v, max) => AllFit(h)
<1> DEFINE t1 == GaugeSetLabel(s, c, "value", v)
           t2 == GaugeSetLabel(t1, c, "min", <<0>>)
           t3 == GaugeSetLabel(t2, c, "max", max)
           g == s.drawn[c]
           h1 == t1.drawn[c]
           h2 == t2.drawn[c]
           h3 == t3.drawn[c]
<1>0. GaugeSetLabels(s, c, v, <<0>>, max) = t3
  BY DEF GaugeSetLabels
<1>n. <<0>> # Null /\ "value" \in Spots /\ "min" \in Spots /\ "max" \in Spots
  BY DEF Null, Spots
<1>1. /\ Stays(s, t1, c) /\ h1.set = g.set /\ t1.common = s.common /\ Even(h1)
      /\ h1.created \/ Steady(t1, c)
      /\ Puts(g, h1, "value", v) \/ h1.old = Nulls
      /\ Fits(h1, "value")
      /\ g.old["value"] = v => t1 = s
      /\ g.old["value"] # v => Steady(t1, c)
      /\ Steady(s, c) => Steady(t1, c) /\ \A p \in Spots : Fits(g, p) => Fits(h1, p)
  BY <1>n, GaugeSetLabelShows
<1> HIDE DEF t1
<1>2. /\ Stays(t1, t2, c) /\ h2.set = h1.set /\ t2.common = t1.common /\ Even(h2)
      /\ h2.created \/ Steady(t2, c)
      /\ Puts(h1, h2, "min", <<0>>) \/ h2.old = Nulls
      /\ Fits(h2, "min")
      /\ h1.old["min"] = <<0>> => t2 = t1
      /\ Steady(t1, c) => Steady(t2, c) /\ \A p \in Spots : Fits(h1, p) => Fits(h2, p)
  <2>1. Holds(t1)
    BY <1>1, StayingHolds
  <2> QED
    BY <1>n, <1>1, <2>1, GaugeSetLabelShows
<1> HIDE DEF t2
<1>3. /\ Stays(t2, t3, c) /\ h3.set = h2.set /\ t3.common = t2.common /\ Even(h3)
      /\ Puts(h2, h3, "max", max) \/ h3.old = Nulls
      /\ Fits(h3, "max")
      /\ h2.old["max"] = max => t3 = t2
      /\ Steady(t2, c) => \A p \in Spots : Fits(h2, p) => Fits(h3, p)
  <2>1. Holds(t2)
    BY <1>2, StayingHolds
  <2> QED
    BY <1>n, <1>2, <2>1, GaugeSetLabelShows
<1> HIDE DEF t3
<1>4. Stays(s, t3, c)
  BY <1>1, <1>2, <1>3, StaysTwice
<1>5. h3.set = g.set /\ t3.common = s.common
  BY <1>1, <1>2, <1>3
<1> HIDE DEF h1, h2, h3, g
<1>6. \A p \in Spots : Nulls[p] = Null
  BY DEF Nulls
<1>7. Lowered(h3) /\ Complete(h3, v, max)
  <2>1. h3.old = Nulls => Lowered(h3) /\ Complete(h3, v, max)
    BY <1>6 DEF Lowered, Complete, Spots
  <2>2. ASSUME Puts(h2, h3, "max", max) PROVE Lowered(h3) /\ Complete(h3, v, max)
    <3>1. /\ h3.old["max"] = max /\ h3.old["min"] = h2.old["min"]
          /\ h3.old["value"] = h2.old["value"]
      BY <2>2 DEF Puts, Spots
    <3>2. CASE h2.old = Nulls
      BY <1>6, <3>1, <3>2 DEF Lowered, Complete, Spots
    <3>3. CASE Puts(h1, h2, "min", <<0>>)
      <4>1. h2.old["min"] = <<0>> /\ h2.old["value"] = h1.old["value"]
        BY <3>3 DEF Puts, Spots
      <4>2. h1.old["value"] \in {v, Null}
        BY <1>1, <1>6 DEF Puts, Spots
      <4> QED
        BY <1>n, <3>1, <4>1, <4>2 DEF Lowered, Complete
    <3> QED
      BY <1>2, <3>2, <3>3
  <2> QED
    BY <1>3, <2>1, <2>2
<1>8. ASSUME Steady(t1, c) PROVE AllFit(h3)
  BY <1>1, <1>2, <1>3, <1>8 DEF AllFit, Spots
<1>9. ASSUME g.old["value"] = v, Complete(g, v, max) PROVE AllFit(h3)
  <2>1. g.old["min"] = <<0>> /\ g.old["max"] = max
    BY <1>9 DEF Lowered, Complete, g
  <2>2. t1 = s
    BY <1>1, <1>9
  <2>3. t2 = t1
    BY <1>2, <2>1, <2>2 DEF h1, g
  <2>4. t3 = t2
    BY <1>3, <2>1, <2>2, <2>3 DEF h2, g
  <2>5. Fits(h3, "value") /\ Fits(h3, "min") /\ Fits(h3, "max")
    BY <1>1, <1>2, <1>3, <2>2, <2>3, <2>4 DEF h1, h2, h3
  <2> QED
    BY <2>5 DEF AllFit, Spots
<1>10. Steady(s, c) \/ g.old["value"] # v \/ Complete(g, v, max) => AllFit(h3)
  BY <1>1, <1>8, <1>9
<1> QED
  BY <1>0, <1>3, <1>4, <1>5, <1>7, <1>10 DEF g, h3

LEMMA GaugeEmptied ==
  ASSUME NEW s, Holds(s), NEW c \in Gauges, Even(s.drawn[c]), s.drawn[c].created
  PROVE  LET t == GaugeSetLabels(s, c, Null, Null, Null)
         IN /\ Stays(s, t, c) /\ t.common = s.common
            /\ Even(t.drawn[c]) /\ Lowered(t.drawn[c]) /\ t.drawn[c].old["value"] = Null
<1> DEFINE t1 == GaugeSetLabel(s, c, "value", Null)
           t2 == GaugeSetLabel(t1, c, "min", Null)
           t3 == GaugeSetLabel(t2, c, "max", Null)
           h1 == t1.drawn[c]
           h2 == t2.drawn[c]
           h3 == t3.drawn[c]
<1>0. GaugeSetLabels(s, c, Null, Null, Null) = t3
  BY DEF GaugeSetLabels
<1>n. "value" \in Spots /\ "min" \in Spots /\ "max" \in Spots
  BY DEF Spots
<1>1. /\ Stays(s, t1, c) /\ t1.common = s.common /\ Even(h1)
      /\ Puts(s.drawn[c], h1, "value", Null)
  BY <1>n, GaugeSetLabelShows
<1> HIDE DEF t1
<1>2. Stays(t1, t2, c) /\ t2.common = t1.common /\ Even(h2) /\ Puts(h1, h2, "min", Null)
  <2>1. Holds(t1) /\ h1.created
    BY <1>1, StayingHolds, ZenonT(30) DEF Stays
  <2> QED
    BY <1>n, <1>1, <2>1, GaugeSetLabelShows
<1> HIDE DEF t2
<1>3. Stays(t2, t3, c) /\ t3.common = t2.common /\ Even(h3) /\ Puts(h2, h3, "max", Null)
  <2>1. Holds(t2)
    BY <1>2, StayingHolds
  <2>2. h2.created
    BY <1>1, <1>2 DEF Stays
  <2> QED
    BY <1>n, <1>2, <2>1, <2>2, GaugeSetLabelShows
<1> HIDE DEF t3
<1>4. Stays(s, t3, c) /\ t3.common = s.common
  BY <1>1, <1>2, <1>3, StaysTwice
<1>5. h3.old["value"] = Null /\ h3.old["min"] = Null
  BY <1>1, <1>2, <1>3 DEF Puts, Spots
<1> QED
  BY <1>0, <1>3, <1>4, <1>5 DEF Lowered

(* A step that leaves the other charts alone, and what is known of them.   *)
Own(s, t, c) ==
    /\ Keeps(s, t)
    /\ \A d \in Drawn : d # c =>
         /\ t.drawn[d] = s.drawn[d]
         /\ t.common.min.keys[d] = s.common.min.keys[d]
         /\ t.common.max.keys[d] = s.common.max.keys[d]
SameRange(s, t) == t.common.min = s.common.min /\ t.common.max = s.common.max
SameStand(g, h) == h.created = g.created /\ h.live = g.live /\ h.selected = g.selected
Knows(s, c) ==
    /\ s.common.min.keys[c] = <<s.drawn[c].data[1].min>>
    /\ s.common.max.keys[c] = <<s.drawn[c].data[1].max>>

LEMMA OwnTwice ==
  ASSUME NEW s, NEW t, NEW u, NEW c, Own(s, t, c), Own(t, u, c)
  PROVE  Own(s, u, c)
<1>1. Keeps(s, u)
  BY KeepsTwice DEF Own
<1> QED
  BY <1>1 DEF Own

LEMMA StayingIsOwn ==
  ASSUME NEW s, NEW t, NEW c \in Drawn, Stays(s, t, c)
  PROVE  /\ Own(s, t, c) /\ SameRange(s, t) /\ SameStand(s.drawn[c], t.drawn[c]) /\ Holds(t)
         /\ t.drawn[c].data = s.drawn[c].data /\ (Knows(s, c) => Knows(t, c))
  BY DEF Stays, Own, SameRange, SameStand, Keeps, Knows

LEMMA RangeKnows ==
  ASSUME NEW s, Holds(s), NEW c \in Drawn, s.drawn[c].data # Null
  PROVE  LET t == CommonRange(s, c)
         IN /\ Own(s, t, c) /\ t.drawn = s.drawn /\ t.common.units = s.common.units
            /\ Knows(t, c) /\ (Knows(s, c) => SameRange(s, t))
<1> DEFINE data == s.drawn[c].data[1]
           least == CommonMinGet(s.common.min, c, data.min)
           greatest == CommonMaxGet(s.common.max, c, data.max)
           t == [s EXCEPT !.common.min = least, !.common.max = greatest]
<1>0. Shape(s) /\ LowestTold(s.common.min) /\ HighestTold(s.common.max)
  BY DEF Holds
<1>1. CommonRange(s, c) = t
  BY <1>0 DEF CommonRange, Shape, NewCommon
<1>2. Keeps(s, t)
  BY <1>1, CommonRangeKeeps
<1> HIDE DEF data
<1>3. /\ least.keys[c] = <<data.min>> /\ greatest.keys[c] = <<data.max>>
      /\ \A d \in Drawn : d # c => least.keys[d] = s.common.min.keys[d]
      /\ \A d \in Drawn : d # c => greatest.keys[d] = s.common.max.keys[d]
  BY <1>0 DEF CommonMinGet, CommonMaxGet, LowestTold, HighestTold, Told
<1>4. Knows(s, c) => least = s.common.min /\ greatest = s.common.max
  BY DEF Knows, CommonMinGet, CommonMaxGet, data
<1> HIDE DEF least, greatest
<1>5. /\ t.drawn = s.drawn /\ t.common.min = least /\ t.common.max = greatest
      /\ t.common.units = s.common.units
  BY <1>0 DEF Shape, NewCommon
<1> HIDE DEF t
<1> QED
  BY <1>1, <1>2, <1>3, <1>4, <1>5 DEF Own, Knows, SameRange, data

(* A gauge is drawn.  Those of its labels that have not changed are left,  *)
(* and may not fit only if the first of them has not changed and they were *)
(* not complete.                                                           *)
Top(s, c) == <<Max({s.common.max.latest[1], s.drawn[c].data[1].value})>>
Worth(s, c) == <<s.drawn[c].data[1].value>>
Unmade(g) == g.old = Nulls /\ g.decimals = Null

LEMMA GaugeDrawShows ==
  ASSUME NEW s, Holds(s), NEW c \in Gauges, s.drawn[c].data # Null,
         Even(s.drawn[c]), Lowered(s.drawn[c]), s.drawn[c].created \/ Unmade(s.drawn[c])
  PROVE  LET t == GaugeDraw(s, c)
             g == s.drawn[c]
             h == t.drawn[c]
         IN /\ Own(s, t, c) /\ SameStand(g, h) /\ Knows(t, c) /\ (Knows(s, c) => SameRange(s, t))
            /\ Even(h) /\ Lowered(h) /\ Complete(h, Worth(s, c), Top(t, c))
            /\ \/ AllFit(h)
               \/ /\ h.set = g.set /\ g.old["value"] = Worth(s, c)
                  /\ ~Complete(g, Worth(s, c), Top(t, c))
               \/ ~g.created
<1> DEFINE g == s.drawn[c]
           r == CommonRange(s, c)
           value == s.drawn[c].data[1].value
           max == Max({r.common.max.latest[1], value})
           u == GaugeSet(r, c, value, 0, max)
           t == GaugeSetLabels(u, c, <<value>>, <<0>>, <<max>>)
           h == t.drawn[c]
<1>0. c \in Drawn
  BY DEF Drawn
<1>1. GaugeDraw(s, c) = t
  BY DEF GaugeDraw
<1>2. /\ Own(s, r, c) /\ r.drawn = s.drawn /\ Knows(r, c) /\ (Knows(s, c) => SameRange(s, r))
      /\ r.common.units = s.common.units
  BY <1>0, RangeKnows
<1> HIDE DEF r
<1>3. Holds(r) /\ r.drawn[c] = g
  BY <1>2 DEF Own, Keeps
<1> DEFINE w == u.drawn[c]
<1>4. /\ Converts(r, u, c) /\ Even(w) /\ w.old \in {g.old, Nulls}
      /\ (w.set = g.set /\ g.decimals # Null) \/ Steady(u, c)
  <2>1. Even(r.drawn[c]) /\ Scaled(r.drawn[c])
    BY <1>3 DEF Scaled, Unmade
  <2> HIDE DEF max, value
  <2> QED
    BY <1>3, <2>1, GaugeSetConverts
<1> HIDE DEF u
<1>5. Holds(u) /\ Stays(r, u, c) /\ w.created = g.created
  BY <1>3, <1>4, StayingHolds, SMTT(30) DEF Converts, Stays
<1>6. \A p \in Spots : Nulls[p] = Null
  BY DEF Nulls
<1>7. /\ Lowered(w)
      /\ Complete(g, <<value>>, <<max>>) => Complete(w, <<value>>, <<max>>)
      /\ ~Complete(w, <<value>>, <<max>>) => w.old = g.old
  <2>1. "value" \in Spots /\ "min" \in Spots
    BY DEF Spots
  <2>2. w.old = Nulls => Lowered(w) /\ Complete(w, <<value>>, <<max>>)
    BY <1>6, <2>1 DEF Lowered, Complete
  <2> QED
    BY <1>4, <2>2 DEF Lowered, Complete
<1>8. w.created \/ Steady(u, c)
  BY <1>4, <1>5 DEF Unmade
<1>9. /\ Stays(u, t, c) /\ h.set = w.set /\ t.common = u.common
      /\ Even(h) /\ Lowered(h) /\ Complete(h, <<value>>, <<max>>)
      /\ Steady(u, c) \/ w.old["value"] # <<value>> \/ Complete(w, <<value>>, <<max>>) => AllFit(h)
  <2>1. <<value>> # Null /\ <<max>> # Null
    BY DEF Null
  <2> HIDE DEF value, max
  <2> QED
    BY <1>4, <1>5, <1>7, <1>8, <2>1, GaugeSetLabelsShow
<1> HIDE DEF t
<1>10. Stays(r, t, c)
  BY <1>5, <1>9, StaysTwice
<1>11. /\ Own(r, t, c) /\ SameRange(r, t) /\ SameStand(g, h) /\ Knows(t, c)
  BY <1>0, <1>2, <1>3, <1>10, StayingIsOwn
<1>12. Own(s, t, c)
  BY <1>2, <1>11, OwnTwice
<1>13. Knows(s, c) => SameRange(s, t)
  BY <1>2, <1>11 DEF SameRange
<1>14. <<value>> = Worth(s, c) /\ <<max>> = Top(t, c)
  <2>1. t.drawn[c].data = s.drawn[c].data
    BY <1>0, <1>12 DEF Own, Keeps
  <2>2. t.common.max = r.common.max
    BY <1>11 DEF SameRange
  <2> QED
    BY <2>1, <2>2 DEF Worth, Top
<1> HIDE DEF value, max
<1>15. \/ AllFit(h)
       \/ /\ h.set = g.set /\ g.old["value"] = <<value>> /\ ~Complete(g, <<value>>, <<max>>)
       \/ ~g.created
  BY <1>4, <1>7, <1>9
<1> QED
  BY <1>1, <1>9, <1>11, <1>12, <1>13, <1>14, <1>15 DEF t

(* What has to do with the needle and the timer changes nothing of this.   *)
Plain(s, t, c) ==
    /\ Stays(s, t, c) /\ t.common = s.common
    /\ \A f \in {"old", "label", "divider", "unit", "shares", "set", "decimals"} :
         t.drawn[c][f] = s.drawn[c][f]

LEMMA PlainTells ==
  ASSUME NEW s, NEW t, NEW c \in Drawn, Plain(s, t, c)
  PROVE  /\ Own(s, t, c) /\ SameRange(s, t) /\ SameStand(s.drawn[c], t.drawn[c]) /\ Holds(t)
         /\ Converts(s, t, c)
         /\ t.common = s.common /\ t.drawn[c].data = s.drawn[c].data
         /\ t.drawn[c].old = s.drawn[c].old /\ t.drawn[c].label = s.drawn[c].label
         /\ t.drawn[c].divider = s.drawn[c].divider /\ t.drawn[c].unit = s.drawn[c].unit
         /\ t.drawn[c].set = s.drawn[c].set /\ t.drawn[c].shares = s.drawn[c].shares
         /\ t.drawn[c].decimals = s.drawn[c].decimals
  BY StayingIsOwn DEF Plain, Converts

LEMMA PlainSets ==
  ASSUME NEW s, Holds(s), NEW c \in Drawn, NEW v, NEW event
  PROVE  /\ Plain(s, [s EXCEPT !.drawn[c].needle = v], c)
         /\ Plain(s, [s EXCEPT !.drawn[c].timer = v], c)
         /\ Plain(s, [s EXCEPT !.drawn[c].event = event, !.drawn[c].timer = TRUE], c)
         /\ Plain(s, [s EXCEPT !.drawn[c].event = event, !.drawn[c].timer = TRUE,
                               !.drawn[c].needle = v], c)
<1>0. Shape(s)
  BY DEF Holds
<1>1. /\ Keeps(s, [s EXCEPT !.drawn[c].needle = v]) /\ Keeps(s, [s EXCEPT !.drawn[c].timer = v])
      /\ Keeps(s, [s EXCEPT !.drawn[c].event = event, !.drawn[c].timer = TRUE])
      /\ Keeps(s, [s EXCEPT !.drawn[c].event = event, !.drawn[c].timer = TRUE,
                            !.drawn[c].needle = v])
  BY Sets, Waits
<1>2. Plain(s, [s EXCEPT !.drawn[c].needle = v], c)
  BY <1>0, <1>1 DEF Plain, Stays, Shape, NewDrawn
<1>3. Plain(s, [s EXCEPT !.drawn[c].timer = v], c)
  BY <1>0, <1>1 DEF Plain, Stays, Shape, NewDrawn
<1>4. Plain(s, [s EXCEPT !.drawn[c].event = event, !.drawn[c].timer = TRUE], c)
  BY <1>0, <1>1 DEF Plain, Stays, Shape, NewDrawn
<1>5. Plain(s, [s EXCEPT !.drawn[c].event = event, !.drawn[c].timer = TRUE,
                         !.drawn[c].needle = v], c)
  BY <1>0, <1>1 DEF Plain, Stays, Shape, NewDrawn
<1> QED
  BY <1>2, <1>3, <1>4, <1>5, SMTT(30)

(* Gauges that are there.                                                  *)
Gauged(s, c) ==
    LET g == s.drawn[c] IN
    /\ g.created /\ g.data # Null /\ Even(g) /\ Lowered(g) /\ (g.live => Knows(s, c))
Renewed(s, t, c) ==
    /\ Knows(t, c) /\ Complete(t.drawn[c], Worth(s, c), Top(t, c))
    /\ \/ AllFit(t.drawn[c])
       \/ /\ t.drawn[c].set = s.drawn[c].set /\ s.drawn[c].old["value"] = Worth(s, c)
          /\ ~Complete(s.drawn[c], Worth(s, c), Top(t, c))

LEMMA GaugeUpdates ==
  ASSUME NEW s, Holds(s), NEW c \in Gauges, s.drawn[c].created, s.drawn[c].data # Null,
         Even(s.drawn[c]), Lowered(s.drawn[c])
  PROVE  LET t == GaugeChartUpdate(s, c)
             g == s.drawn[c]
             h == t.drawn[c]
         IN /\ Own(s, t, c) /\ SameStand(g, h) /\ Gauged(t, c)
            /\ Knows(s, c) \/ ~g.live => SameRange(s, t)
            /\ g.live => Renewed(s, t, c)
            /\ ~g.live => h.old["value"] = Null
<1> DEFINE g == s.drawn[c]
           t == GaugeDraw(s, c)
           u == GaugeSetLabels(s, c, Null, Null, Null)
           v == [u EXCEPT !.drawn[c].needle = 0]
<1>0. c \in Drawn
  BY DEF Drawn
<1>1. CASE g.live
  <2>1. GaugeChartUpdate(s, c) = t
    BY <1>1 DEF GaugeChartUpdate
  <2>2. /\ Own(s, t, c) /\ SameStand(g, t.drawn[c]) /\ Knows(t, c)
        /\ Knows(s, c) => SameRange(s, t)
        /\ Even(t.drawn[c]) /\ Lowered(t.drawn[c])
        /\ Complete(t.drawn[c], Worth(s, c), Top(t, c))
        /\ \/ AllFit(t.drawn[c])
           \/ /\ t.drawn[c].set = g.set /\ g.old["value"] = Worth(s, c)
              /\ ~Complete(g, Worth(s, c), Top(t, c))
           \/ ~g.created
    BY GaugeDrawShows
  <2> HIDE DEF t
  <2>3. t.drawn[c].data = g.data /\ t.drawn[c].created
    BY <1>0, <2>2 DEF Own, Keeps, SameStand
  <2> QED
    BY <1>1, <2>1, <2>2, <2>3 DEF Gauged, Renewed
<1>2. CASE ~g.live
  <2>1. GaugeChartUpdate(s, c) = v
    BY <1>2 DEF GaugeChartUpdate
  <2>2. /\ Stays(s, u, c) /\ u.common = s.common
        /\ Even(u.drawn[c]) /\ Lowered(u.drawn[c]) /\ u.drawn[c].old["value"] = Null
    BY GaugeEmptied
  <2> HIDE DEF u
  <2>3. /\ Own(s, u, c) /\ SameRange(s, u) /\ SameStand(g, u.drawn[c]) /\ Holds(u)
        /\ u.drawn[c].data = g.data
    BY <1>0, <2>2, StayingIsOwn, SMTT(30)
  <2>4. Plain(u, v, c)
    BY <1>0, <2>3, PlainSets
  <2> HIDE DEF v
  <2>5. /\ Own(u, v, c) /\ SameRange(u, v) /\ SameStand(u.drawn[c], v.drawn[c])
        /\ v.drawn[c].data = u.drawn[c].data
        /\ v.drawn[c].old = u.drawn[c].old /\ v.drawn[c].label = u.drawn[c].label
        /\ v.drawn[c].divider = u.drawn[c].divider /\ v.drawn[c].unit = u.drawn[c].unit
    BY <1>0, <2>4, PlainTells
  <2>6. Own(s, v, c)
    BY <2>3, <2>5, OwnTwice
  <2>7. SameRange(s, v) /\ SameStand(g, v.drawn[c])
    BY <2>3, <2>5 DEF SameRange, SameStand
  <2>8. Even(v.drawn[c]) /\ Lowered(v.drawn[c]) /\ v.drawn[c].old["value"] = Null
    BY <2>2, <2>5 DEF Even, Lowered, Level, Fits, SameStand
  <2>9. Gauged(v, c)
    BY <1>2, <2>3, <2>5, <2>7, <2>8 DEF Gauged, SameStand
  <2> QED
    BY <1>2, <2>1, <2>6, <2>7, <2>8, <2>9
<1> QED
  BY <1>1, <1>2

LEMMA GaugeClears ==
  ASSUME NEW s, Holds(s), NEW c \in Gauges, s.drawn[c].created, s.drawn[c].data # Null,
         Even(s.drawn[c]), Lowered(s.drawn[c]), NEW force \in BOOLEAN,
         s.drawn[c].live => Knows(s, c)
  PROVE  LET t == GaugeClearSelection(s, c, force)
             g == s.drawn[c]
             h == t.drawn[c]
         IN /\ Own(s, t, c) /\ SameStand(g, h) /\ Gauged(t, c) /\ SameRange(s, t)
            /\ g.live /\ ~force => Renewed(s, t, c)
            /\ ~(g.live /\ ~force) => h.old["value"] = Null
<1> DEFINE g == s.drawn[c]
           r == [s EXCEPT !.drawn[c].timer = FALSE]
           u == GaugeSetLabels(r, c, Null, Null, Null)
           v == GaugeSet(u, c, 0, 0, 0)
<1>0. c \in Drawn
  BY SMTT(30) DEF Drawn
<1>1. Plain(s, r, c)
  BY <1>0, PlainSets
<1>2. /\ GaugeClearSelection(s, c, force) =
           IF r.drawn[c].live /\ r.drawn[c].data # Null /\ ~force THEN GaugeChartUpdate(r, c) ELSE v
  BY DEF GaugeClearSelection
<1> HIDE DEF r
<1>3. /\ Own(s, r, c) /\ SameRange(s, r) /\ SameStand(g, r.drawn[c]) /\ Holds(r)
      /\ r.common = s.common /\ r.drawn[c].data = g.data
      /\ r.drawn[c].old = g.old /\ r.drawn[c].label = g.label
      /\ r.drawn[c].divider = g.divider /\ r.drawn[c].unit = g.unit
      /\ r.drawn[c].set = g.set
  BY <1>0, <1>1, PlainTells
<1>4. /\ Even(r.drawn[c]) /\ Lowered(r.drawn[c]) /\ r.drawn[c].created /\ r.drawn[c].data # Null
      /\ r.drawn[c].live = g.live /\ (Knows(s, c) <=> Knows(r, c)) /\ Worth(r, c) = Worth(s, c)
  BY <1>3 DEF Even, Lowered, Level, Fits, SameStand, Knows, Worth
<1>5. CASE g.live /\ ~force
  <2> DEFINE t == GaugeChartUpdate(r, c)
  <2>1. GaugeClearSelection(s, c, force) = t
    BY <1>2, <1>4, <1>5
  <2>2. /\ Own(r, t, c) /\ SameStand(r.drawn[c], t.drawn[c]) /\ Gauged(t, c)
        /\ SameRange(r, t) /\ Renewed(r, t, c)
    BY <1>3, <1>4, <1>5, GaugeUpdates
  <2> HIDE DEF t
  <2>3. Own(s, t, c)
    BY <1>3, <2>2, OwnTwice
  <2>4. SameRange(s, t) /\ SameStand(g, t.drawn[c])
    BY <1>3, <2>2 DEF SameRange, SameStand
  <2>5. Renewed(s, t, c)
    BY <1>3, <1>4, <2>2 DEF Renewed, Complete
  <2> QED
    BY <1>5, <2>1, <2>2, <2>3, <2>4, <2>5
<1>6. CASE ~(g.live /\ ~force)
  <2>1. GaugeClearSelection(s, c, force) = v
    BY <1>2, <1>4, <1>6
  <2>2. /\ Stays(r, u, c) /\ u.common = r.common
        /\ Even(u.drawn[c]) /\ Lowered(u.drawn[c]) /\ u.drawn[c].old["value"] = Null
    BY <1>3, <1>4, GaugeEmptied
  <2> HIDE DEF u
  <2>3. Holds(u) /\ Scaled(u.drawn[c])
    BY <1>4, <2>2, StayingHolds, ZenonT(30) DEF Scaled, Stays
  <2>4. /\ Converts(u, v, c) /\ Even(v.drawn[c])
        /\ v.drawn[c].old \in {u.drawn[c].old, Nulls}
    BY <2>2, <2>3, GaugeSetConverts
  <2> HIDE DEF v
  <2>5. Stays(r, v, c)
    BY <2>2, <2>4, StaysTwice DEF Converts
  <2>6. /\ Own(r, v, c) /\ SameRange(r, v) /\ SameStand(r.drawn[c], v.drawn[c])
        /\ v.drawn[c].data = r.drawn[c].data /\ (Knows(r, c) => Knows(v, c))
    BY <1>0, <2>5, StayingIsOwn
  <2>7. Own(s, v, c)
    BY <1>3, <2>6, OwnTwice
  <2>8. SameRange(s, v) /\ SameStand(g, v.drawn[c])
    BY <1>3, <2>6 DEF SameRange, SameStand
  <2>9. Lowered(v.drawn[c]) /\ v.drawn[c].old["value"] = Null
    <3>1. Nulls["value"] = Null /\ Nulls["min"] = Null
      BY DEF Nulls, Spots
    <3> QED
      BY <2>2, <2>4, <3>1 DEF Lowered
  <2>10. Gauged(v, c)
    BY <1>4, <2>4, <2>6, <2>8, <2>9 DEF Gauged, SameStand
  <2> QED
    BY <1>6, <2>1, <2>7, <2>8, <2>9, <2>10
<1> QED
  BY <1>5, <1>6

LEMMA OneLibrary ==
  /\ \A c \in Gauges : c \in Drawn /\ c \notin Pies /\ c \notin Legends
  /\ \A c \in Pies : c \in Drawn /\ c \notin Gauges /\ c \notin Legends
  /\ \A c \in Legends : c \in Drawn /\ c \notin Gauges /\ c \notin Pies
<1>1. Gauges \cap Pies = {} /\ Gauges \cap Legends = {} /\ Pies \cap Legends = {}
  BY ScalesAssumption
<1> QED
  BY <1>1 DEF Drawn

(* The end of a selection of a gauge.                                      *)
LEMMA GaugeLatest ==
  ASSUME NEW s, Holds(s), NEW c \in Gauges, Gauged(s, c)
  PROVE  LET t == LegendShowLatestValues(s, c)
             g == s.drawn[c]
             h == t.drawn[c]
         IN /\ Own(s, t, c) /\ SameStand(g, h) /\ Gauged(t, c) /\ SameRange(s, t)
            /\ g.live \/ g.selected => t = s
<1> DEFINE g == s.drawn[c]
           t == LegendShowLatestValues(s, c)
<1>0. c \in Drawn /\ c \notin Pies /\ c \notin Legends
  BY OneLibrary
<1>1. Own(s, s, c) /\ SameStand(g, g) /\ SameRange(s, s)
  BY KeepsItself DEF Own, SameStand, SameRange
<1>2. CASE g.live \/ g.selected
  <2>1. g.unit = g.divider
    BY DEF Gauged, Even, Level
  <2>2. t = s
    BY <1>0, <1>2, <2>1 DEF LegendShowLatestValues, SwitchUnits
  <2> HIDE DEF t
  <2> QED
    BY <1>1, <2>2 DEF t
<1>3. CASE ~(g.live \/ g.selected)
  <2>1. t = GaugeClearSelection(s, c, FALSE)
    BY <1>0, <1>3 DEF LegendShowLatestValues, LegendShowUndefined
  <2>2. /\ Own(s, t, c) /\ SameStand(g, t.drawn[c]) /\ Gauged(t, c) /\ SameRange(s, t)
    BY <2>1, GaugeClears DEF Gauged
  <2> HIDE DEF t
  <2> QED
    BY <1>3, <2>2 DEF t
<1> QED
  BY <1>2, <1>3

Informed(s, c) ==
    LET g == s.drawn[c] IN g.live /\ ~g.selected => g.old["value"] \in {Null, Worth(s, c)}

LEMMA GaugeCleared ==
  ASSUME NEW s, Holds(s), NEW c \in Gauges, Gauged(s, c)
  PROVE  LET t == ClearSelection(s, c)
             g == s.drawn[c]
             h == t.drawn[c]
         IN /\ Own(s, t, c) /\ SameRange(s, t) /\ Gauged(t, c) /\ Informed(t, c)
            /\ h.live = g.live /\ ~h.selected
            /\ g.live => Renewed(s, t, c)
<1> DEFINE g == s.drawn[c]
           r == [s EXCEPT !.drawn[c].selected = FALSE]
           u == GaugeClearSelection(r, c, FALSE)
           t == LegendShowLatestValues(u, c)
<1>0. c \in Drawn /\ Shape(s)
  BY DEF Drawn, Holds
<1>1. ClearSelection(s, c) = t
  BY OneLibrary DEF ClearSelection
<1>2. /\ Own(s, r, c) /\ SameRange(s, r) /\ Holds(r)
      /\ r.drawn[c].live = g.live /\ ~r.drawn[c].selected /\ r.drawn[c].created = g.created
      /\ r.drawn[c].data = g.data /\ r.drawn[c].old = g.old /\ r.drawn[c].label = g.label
      /\ r.drawn[c].divider = g.divider /\ r.drawn[c].unit = g.unit /\ r.drawn[c].set = g.set
      /\ r.common = s.common
  <2>1. Keeps(s, r)
    BY <1>0, Sets
  <2> QED
    BY <1>0, <2>1 DEF Own, SameRange, Keeps, Shape, NewDrawn
<1> HIDE DEF r
<1>3. /\ r.drawn[c].created /\ r.drawn[c].data # Null /\ Even(r.drawn[c]) /\ Lowered(r.drawn[c])
      /\ (r.drawn[c].live => Knows(r, c)) /\ Worth(r, c) = Worth(s, c)
  BY <1>2 DEF Gauged, Even, Lowered, Level, Fits, Knows, Worth
<1>4. /\ Own(r, u, c) /\ SameStand(r.drawn[c], u.drawn[c]) /\ Gauged(u, c) /\ SameRange(r, u)
      /\ r.drawn[c].live => Renewed(r, u, c)
  BY <1>2, <1>3, GaugeClears
<1> HIDE DEF u
<1>5. Holds(u) /\ u.drawn[c].live = g.live /\ ~u.drawn[c].selected
  BY <1>2, <1>4 DEF Own, Keeps, SameStand
<1>6. /\ Own(u, t, c) /\ SameStand(u.drawn[c], t.drawn[c]) /\ Gauged(t, c) /\ SameRange(u, t)
      /\ u.drawn[c].live => t = u
  BY <1>4, <1>5, GaugeLatest
<1> HIDE DEF t
<1>7. Own(s, t, c)
  <2>1. Own(s, u, c)
    BY <1>2, <1>4, OwnTwice
  <2> QED
    BY <1>6, <2>1, OwnTwice
<1>8. SameRange(s, t) /\ t.drawn[c].live = g.live /\ ~t.drawn[c].selected
  BY <1>2, <1>4, <1>5, <1>6 DEF SameRange, SameStand
<1>9. g.live => Renewed(s, t, c)
  BY <1>2, <1>3, <1>4, <1>5, <1>6 DEF Renewed, Complete
<1>10. Informed(t, c)
  <2>1. Worth(t, c) = Worth(s, c)
    BY <1>0, <1>7 DEF Own, Keeps, Worth
  <2>2. g.live => t.drawn[c].old["value"] \in {Null, Worth(s, c)}
    BY <1>9 DEF Renewed, Complete
  <2> QED
    BY <1>8, <2>1, <2>2 DEF Informed
<1> QED
  BY <1>1, <1>6, <1>7, <1>8, <1>9, <1>10 DEF t

(* A label of any chart.                                                   *)
LEMMA ShowLabelShows ==
  ASSUME NEW s, Holds(s), NEW c \in Drawn, NEW part, NEW v,
         DOMAIN s.drawn[c].label = Spots, part \in Spots
  PROVE  LET t == ShowLabel(s, c, part, v)
             g == s.drawn[c]
             h == t.drawn[c]
         IN /\ Stays(s, t, c) /\ DOMAIN h.label = Spots
            /\ \A p \in Spots : p # part => h.label[p] = g.label[p]
            /\ v = Null => h.label[part] = Dash /\ h.divider = g.divider /\ h.unit = g.unit
            /\ v # Null => Fits(h, part) /\ Steady(t, c)
            /\ Steady(s, c) => Steady(t, c) /\ h.divider = g.divider
            /\ (c \in Legends \/ g.created) /\ g.unit = g.divider => h.unit = h.divider
<1> DEFINE g == s.drawn[c]
           u == Switched(s, c)
           said == IF v = Null THEN Dash ELSE [number |-> v, divider |-> u.drawn[c].divider]
           b == IF v = Null THEN s ELSE u
           z == [b EXCEPT !.drawn[c].label[part] = said]
           h == z.drawn[c]
<1>1. ShowLabel(s, c, part, v) = z
  BY DEF ShowLabel
<1>2. /\ Converts(s, u, c) /\ u.common = s.common /\ Steady(u, c)
      /\ Steady(s, c) => u.drawn[c].divider = g.divider
      /\ (c \in Legends \/ g.created) /\ g.unit = g.divider => u.drawn[c].unit = u.drawn[c].divider
  BY SwitchedConverts
<1> HIDE DEF u
<1>3. /\ Converts(s, b, c)
      /\ v # Null \/ Steady(s, c) => Steady(b, c)
      /\ v = Null \/ Steady(s, c) => b.drawn[c].divider = g.divider
      /\ v = Null => b.drawn[c].unit = g.unit
      /\ (c \in Legends \/ g.created) /\ g.unit = g.divider => b.drawn[c].unit = b.drawn[c].divider
      /\ v # Null => said.divider = b.drawn[c].divider
      /\ v = Null => said = Dash
  <2>1. Converts(s, s, c)
    BY StaysItself
  <2> HIDE DEF Dash
  <2> QED
    BY <1>2, <2>1
<1> HIDE DEF b, said
<1>4. Holds(b) /\ Shape(b) /\ b.drawn[c].label = g.label
  BY <1>3, StayingHolds DEF Converts
<1>5. /\ Stays(b, z, c) /\ z.common = b.common
      /\ h.divider = b.drawn[c].divider /\ h.shares = b.drawn[c].shares
      /\ h.unit = b.drawn[c].unit /\ h.label = [g.label EXCEPT ![part] = said]
  <2>1. Touches(b, z, c)
    BY <1>4 DEF Touches, Shape, NewDrawn
  <2>2. Keeps(b, z)
    BY <1>4, <2>1, TouchingKeeps
  <2> QED
    BY <1>4, <2>2 DEF Shape, NewDrawn, Stays
<1> HIDE DEF z
<1>6. Stays(s, z, c)
  BY <1>3, <1>5, StaysTwice DEF Converts
<1>7. /\ DOMAIN h.label = Spots /\ h.label[part] = said
      /\ \A p \in Spots : p # part => h.label[p] = g.label[p]
  BY <1>5
<1>8. v # Null => Fits(h, part)
  BY <1>3, <1>5, <1>7 DEF Fits
<1>9. v # Null \/ Steady(s, c) => Steady(z, c)
  BY <1>3, <1>5 DEF Steady
<1> QED
  BY <1>1, <1>3, <1>5, <1>6, <1>7, <1>8, <1>9

(* Pies.                                                                   *)
Blank(g, P) == DOMAIN g.label = Spots /\ \A p \in P : g.label[p] = Dash
Pied(s, c) ==
    LET g == s.drawn[c] IN
    /\ g.created /\ g.data # Null /\ Blank(g, {"min", "max"}) /\ (g.live => Knows(s, c))

LEMMA PercentConverts ==
  ASSUME NEW s, Holds(s), NEW c \in Drawn, NEW value, NEW min, NEW max
  PROVE  Converts(s, EasypiechartPercent(s, c, value, min, max), c)
<1> DEFINE low == Min({min, value})
           high == Max({max, value})
           t == DecimalsFromMinMax(s, c, low, high)
           needle == IF high = 0 THEN 0 ELSE (value * 100) \div high
           u == [t EXCEPT !.drawn[c].needle = needle]
<1>1. EasypiechartPercent(s, c, value, min, max) = u
  BY DEF EasypiechartPercent
<1> HIDE DEF low, high, needle
<1>2. Converts(s, t, c)
  BY DecimalsConvert
<1> HIDE DEF t
<1>3. Holds(t)
  BY <1>2, StayingHolds, SMTT(30) DEF Converts
<1>4. Plain(t, u, c)
  BY <1>3, PlainSets
<1> HIDE DEF u
<1>5. Converts(t, u, c)
  BY <1>4, PlainTells
<1> QED
  BY <1>1, <1>2, <1>5, ConvertsTwice

LEMMA CommonShows ==
  ASSUME NEW s, Holds(s), NEW c \in Drawn, s.drawn[c].data # Null
  PROVE  LET t == EasypiechartCommon(s, c)
         IN /\ Own(s, t, c) /\ SameStand(s.drawn[c], t.drawn[c]) /\ Knows(t, c)
            /\ Knows(s, c) => SameRange(s, t)
            /\ t.drawn[c].label = s.drawn[c].label /\ t.drawn[c].data = s.drawn[c].data
<1> DEFINE r == CommonRange(s, c)
           value == s.drawn[c].data[1].value
           min == r.common.min.latest[1]
           max == r.common.max.latest[1]
           t == EasypiechartPercent(r, c, value, min, max)
<1>1. EasypiechartCommon(s, c) = t
  BY DEF EasypiechartCommon
<1> HIDE DEF value, min, max
<1>2. /\ Own(s, r, c) /\ r.drawn = s.drawn /\ Knows(r, c) /\ (Knows(s, c) => SameRange(s, r))
  BY RangeKnows
<1> HIDE DEF r
<1>3. Holds(r)
  BY <1>2 DEF Own, Keeps
<1>4. Converts(r, t, c)
  BY <1>3, PercentConverts
<1> HIDE DEF t
<1>5. /\ Own(r, t, c) /\ SameRange(r, t) /\ SameStand(r.drawn[c], t.drawn[c])
      /\ t.drawn[c].data = r.drawn[c].data /\ Knows(t, c)
      /\ t.drawn[c].label = r.drawn[c].label
  BY <1>2, <1>4, StayingIsOwn DEF Converts
<1>6. Own(s, t, c)
  BY <1>2, <1>5, OwnTwice
<1>7. Knows(s, c) => SameRange(s, t)
  BY <1>2, <1>5, SMTT(30) DEF SameRange
<1> QED
  BY <1>1, <1>2, <1>5, <1>6, <1>7

(* A label that is emptied, and the needle with it.                        *)
LEMMA PieEmptied ==
  ASSUME NEW s, Holds(s), NEW c \in Drawn, DOMAIN s.drawn[c].label = Spots
  PROVE  LET t == [ShowLabel(s, c, "value", Null) EXCEPT !.drawn[c].needle = 0]
             g == s.drawn[c]
             h == t.drawn[c]
         IN /\ Own(s, t, c) /\ SameRange(s, t) /\ SameStand(g, h) /\ h.data = g.data
            /\ Knows(s, c) => Knows(t, c)
            /\ DOMAIN h.label = Spots
            /\ \A p \in Spots : p # "value" => h.label[p] = g.label[p]
<1> DEFINE u == ShowLabel(s, c, "value", Null)
           t == [u EXCEPT !.drawn[c].needle = 0]
<1>1. /\ Stays(s, u, c) /\ DOMAIN u.drawn[c].label = Spots
      /\ \A p \in Spots : p # "value" => u.drawn[c].label[p] = s.drawn[c].label[p]
  BY ShowLabelShows DEF Spots
<1> HIDE DEF u
<1>2. /\ Own(s, u, c) /\ SameRange(s, u) /\ SameStand(s.drawn[c], u.drawn[c]) /\ Holds(u)
      /\ u.drawn[c].data = s.drawn[c].data /\ (Knows(s, c) => Knows(u, c))
  BY <1>1, StayingIsOwn, SMTT(30)
<1>3. Plain(u, t, c)
  BY <1>2, PlainSets
<1> HIDE DEF t
<1>4. /\ Own(u, t, c) /\ SameRange(u, t) /\ SameStand(u.drawn[c], t.drawn[c])
      /\ t.common = u.common /\ t.drawn[c].data = u.drawn[c].data
      /\ t.drawn[c].label = u.drawn[c].label
  BY <1>3, PlainTells
<1>5. Own(s, t, c)
  BY <1>2, <1>4, OwnTwice
<1> QED
  BY <1>1, <1>2, <1>4, <1>5 DEF SameRange, SameStand, Knows, t, u

LEMMA PieUpdates ==
  ASSUME NEW s, Holds(s), NEW c \in Pies, s.drawn[c].created, s.drawn[c].data # Null,
         Blank(s.drawn[c], {"min", "max"})
  PROVE  LET t == EasypiechartChartUpdate(s, c)
             g == s.drawn[c]
             h == t.drawn[c]
         IN /\ Own(s, t, c) /\ SameStand(g, h) /\ Pied(t, c)
            /\ Knows(s, c) \/ ~g.live => SameRange(s, t)
            /\ g.live => Fits(h, "value")
<1> DEFINE g == s.drawn[c]
           v == <<s.drawn[c].data[1].value>>
           u == EasypiechartCommon(s, c)
           t == ShowLabel(u, c, "value", v)
           z == [ShowLabel(s, c, "value", Null) EXCEPT !.drawn[c].needle = 0]
<1>0. c \in Drawn
  BY OneLibrary
<1>s. "value" \in Spots /\ "min" \in Spots /\ "max" \in Spots /\ "value" \notin {"min", "max"}
  BY DEF Spots
<1>1. CASE g.live
  <2>1. EasypiechartChartUpdate(s, c) = t
    BY <1>1 DEF EasypiechartChartUpdate
  <2>2. v # Null
    BY DEF Null
  <2> HIDE DEF v
  <2>3. /\ Own(s, u, c) /\ SameStand(g, u.drawn[c]) /\ Knows(u, c)
        /\ Knows(s, c) => SameRange(s, u)
        /\ u.drawn[c].label = g.label /\ u.drawn[c].data = g.data
    BY <1>0, CommonShows
  <2> HIDE DEF u
  <2>4. Holds(u) /\ DOMAIN u.drawn[c].label = Spots
    BY <2>3 DEF Own, Keeps, Blank
  <2>5. /\ Stays(u, t, c) /\ DOMAIN t.drawn[c].label = Spots
        /\ \A p \in Spots : p # "value" => t.drawn[c].label[p] = u.drawn[c].label[p]
        /\ Fits(t.drawn[c], "value")
    BY <1>0, <1>s, <2>2, <2>4, ShowLabelShows
  <2> HIDE DEF t
  <2>6. /\ Own(u, t, c) /\ SameRange(u, t) /\ SameStand(u.drawn[c], t.drawn[c])
        /\ t.drawn[c].data = u.drawn[c].data /\ Knows(t, c)
    BY <1>0, <2>3, <2>5, StayingIsOwn
  <2>7. Own(s, t, c)
    BY <2>3, <2>6, OwnTwice
  <2>8. SameStand(g, t.drawn[c]) /\ (Knows(s, c) => SameRange(s, t))
    BY <2>3, <2>6 DEF SameStand, SameRange
  <2>9. Blank(t.drawn[c], {"min", "max"})
    BY <1>s, <2>3, <2>5 DEF Blank
  <2>10. Pied(t, c)
    BY <2>3, <2>6, <2>8, <2>9 DEF Pied, SameStand
  <2> QED
    BY <1>1, <2>1, <2>5, <2>7, <2>8, <2>10
<1>2. CASE ~g.live
  <2>1. EasypiechartChartUpdate(s, c) = z
    BY <1>2 DEF EasypiechartChartUpdate
  <2>2. /\ Own(s, z, c) /\ SameRange(s, z) /\ SameStand(g, z.drawn[c])
        /\ z.drawn[c].data = g.data /\ DOMAIN z.drawn[c].label = Spots
        /\ \A p \in Spots : p # "value" => z.drawn[c].label[p] = g.label[p]
    BY <1>0, PieEmptied DEF Blank
  <2> HIDE DEF z
  <2>3. Blank(z.drawn[c], {"min", "max"})
    BY <1>s, <2>2 DEF Blank
  <2>4. Pied(z, c)
    BY <1>2, <2>2, <2>3 DEF Pied, SameStand
  <2> QED
    BY <1>2, <2>1, <2>2, <2>4
<1> QED
  BY <1>1, <1>2

LEMMA PieClears ==
  ASSUME NEW s, Holds(s), NEW c \in Pies, Pied(s, c), NEW force \in BOOLEAN
  PROVE  LET t == EasypiechartClearSelection(s, c, force)
             g == s.drawn[c]
             h == t.drawn[c]
         IN /\ Own(s, t, c) /\ SameStand(g, h) /\ Pied(t, c) /\ SameRange(s, t)
            /\ g.live /\ ~force => Fits(h, "value")
<1> DEFINE g == s.drawn[c]
           r == [s EXCEPT !.drawn[c].timer = FALSE]
           t == EasypiechartChartUpdate(r, c)
           z == [ShowLabel(r, c, "value", Null) EXCEPT !.drawn[c].needle = 0]
<1>0. c \in Drawn
  BY OneLibrary
<1>s. "value" \in Spots /\ "min" \in Spots /\ "max" \in Spots /\ "value" \notin {"min", "max"}
  BY DEF Spots
<1>1. EasypiechartClearSelection(s, c, force) =
          IF r.drawn[c].live /\ r.drawn[c].data # Null /\ ~force THEN t ELSE z
  BY SMTT(30) DEF EasypiechartClearSelection
<1>2. Plain(s, r, c)
  BY <1>0, PlainSets
<1> HIDE DEF r
<1>3. /\ Own(s, r, c) /\ SameRange(s, r) /\ SameStand(g, r.drawn[c]) /\ Holds(r)
      /\ r.common = s.common /\ r.drawn[c].data = g.data /\ r.drawn[c].label = g.label
  BY <1>0, <1>2, PlainTells
<1>4. /\ Blank(r.drawn[c], {"min", "max"}) /\ r.drawn[c].created /\ r.drawn[c].data # Null
      /\ r.drawn[c].live = g.live /\ (Knows(s, c) <=> Knows(r, c))
  BY <1>3 DEF Pied, Blank, SameStand, Knows
<1>5. CASE g.live /\ ~force
  <2>1. EasypiechartClearSelection(s, c, force) = t
    BY <1>1, <1>4, <1>5
  <2>2. /\ Own(r, t, c) /\ SameStand(r.drawn[c], t.drawn[c]) /\ Pied(t, c)
        /\ Knows(r, c) => SameRange(r, t)
        /\ Fits(t.drawn[c], "value")
    BY <1>3, <1>4, <1>5, PieUpdates
  <2> HIDE DEF t
  <2>3. Own(s, t, c)
    BY <1>3, <2>2, OwnTwice
  <2>4. SameRange(s, t) /\ SameStand(g, t.drawn[c])
    BY <1>3, <1>4, <1>5, <2>2 DEF SameRange, SameStand, Pied
  <2> QED
    BY <2>1, <2>2, <2>3, <2>4
<1>6. CASE ~(g.live /\ ~force)
  <2>1. EasypiechartClearSelection(s, c, force) = z
    BY <1>1, <1>4, <1>6
  <2>2. /\ Own(r, z, c) /\ SameRange(r, z) /\ SameStand(r.drawn[c], z.drawn[c])
        /\ z.drawn[c].data = r.drawn[c].data /\ (Knows(r, c) => Knows(z, c))
        /\ DOMAIN z.drawn[c].label = Spots
        /\ \A p \in Spots : p # "value" => z.drawn[c].label[p] = r.drawn[c].label[p]
    BY <1>0, <1>3, <1>4, PieEmptied DEF Blank
  <2> HIDE DEF z
  <2>3. Own(s, z, c)
    BY <1>3, <2>2, OwnTwice
  <2>4. SameRange(s, z) /\ SameStand(g, z.drawn[c])
    BY <1>3, <2>2 DEF SameRange, SameStand
  <2>5. Blank(z.drawn[c], {"min", "max"})
    BY <1>s, <1>4, <2>2 DEF Blank
  <2>6. Pied(z, c)
    BY <1>4, <2>2, <2>4, <2>5 DEF Pied, SameStand
  <2> QED
    BY <1>6, <2>1, <2>3, <2>4, <2>6
<1> QED
  BY <1>5, <1>6

(* All that a chart shows is in the units it shows.                        *)
Agrees(g) == \A p \in Spots : g.label[p] # Dash => g.label[p].divider = g.unit

LEMMA PieLatest ==
  ASSUME NEW s, Holds(s), NEW c \in Pies, Pied(s, c)
  PROVE  LET t == LegendShowLatestValues(s, c)
             g == s.drawn[c]
             h == t.drawn[c]
         IN /\ Own(s, t, c) /\ SameStand(g, h) /\ Pied(t, c) /\ SameRange(s, t)
            /\ g.live /\ ~g.selected /\ Fits(g, "value") => Agrees(h)
            /\ g.selected => t = s
<1> DEFINE g == s.drawn[c]
           t == LegendShowLatestValues(s, c)
           u == SwitchUnits(s, c, g.divider)
<1>0. c \in Drawn /\ c \notin Gauges /\ c \notin Legends
  BY OneLibrary
<1>1. CASE g.selected
  <2>1. t = s
    BY <1>1 DEF LegendShowLatestValues
  <2>2. Own(s, s, c) /\ SameStand(g, g) /\ SameRange(s, s)
    BY KeepsItself DEF Own, SameStand, SameRange
  <2> HIDE DEF t
  <2> QED
    BY <1>1, <2>1, <2>2 DEF t
<1>2. CASE ~g.selected /\ ~g.live
  <2>1. t = EasypiechartClearSelection(s, c, FALSE)
    BY <1>0, <1>2 DEF LegendShowLatestValues, LegendShowUndefined
  <2>2. Own(s, t, c) /\ SameStand(g, t.drawn[c]) /\ Pied(t, c) /\ SameRange(s, t)
    BY <2>1, PieClears
  <2> HIDE DEF t
  <2> QED
    BY <1>2, <2>2 DEF t
<1>3. CASE ~g.selected /\ g.live
  <2>1. t = u
    BY <1>0, <1>3 DEF LegendShowLatestValues
  <2>2. /\ Converts(s, u, c) /\ u.drawn[c].divider = g.divider
        /\ u.drawn[c].unit = g.divider
    BY <1>0, SwitchUnitsConverts DEF Pied
  <2> HIDE DEF u, t
  <2>3. /\ Own(s, u, c) /\ SameRange(s, u) /\ SameStand(g, u.drawn[c])
        /\ u.drawn[c].data = g.data /\ (Knows(s, c) => Knows(u, c))
        /\ u.drawn[c].label = g.label
    BY <1>0, <2>2, StayingIsOwn DEF Converts
  <2>4. Pied(u, c)
    BY <2>3 DEF Pied, SameStand, Blank
  <2>5. Fits(g, "value") => Agrees(u.drawn[c])
    BY <2>2, <2>3 DEF Agrees, Fits, Pied, Blank, Spots
  <2> QED
    BY <1>3, <2>1, <2>3, <2>4, <2>5 DEF t
<1> QED
  BY <1>1, <1>2, <1>3

(* The start of a selection, and of its end.                               *)
LEMMA Selects ==
  ASSUME NEW s, Holds(s), NEW c \in Drawn
  PROVE  LET r == [s EXCEPT !.drawn[c].selected = TRUE]
             g == s.drawn[c]
             h == r.drawn[c]
         IN /\ Own(s, r, c) /\ SameRange(s, r) /\ Holds(r) /\ r.common = s.common
            /\ h.selected
            /\ \A f \in DOMAIN NewDrawn : f # "selected" => h[f] = g[f]
            /\ Knows(r, c) <=> Knows(s, c)
<1> DEFINE r == [s EXCEPT !.drawn[c].selected = TRUE]
<1>0. Shape(s)
  BY DEF Holds
<1>1. Keeps(s, r)
  BY Sets
<1>2. /\ \A d \in Drawn : d # c => r.drawn[d] = s.drawn[d]
      /\ r.common = s.common
      /\ r.drawn[c].selected
      /\ \A f \in DOMAIN NewDrawn : f # "selected" => r.drawn[c][f] = s.drawn[c][f]
  BY <1>0 DEF Shape, NewDrawn
<1> HIDE DEF r
<1>3. r.drawn[c].data = s.drawn[c].data
  BY <1>1 DEF Keeps
<1> QED
  BY <1>1, <1>2, <1>3 DEF Own, SameRange, Keeps, Knows, r

LEMMA Unselects ==
  ASSUME NEW s, Holds(s), NEW c \in Drawn
  PROVE  LET r == [s EXCEPT !.drawn[c].selected = FALSE]
             g == s.drawn[c]
             h == r.drawn[c]
         IN /\ Own(s, r, c) /\ SameRange(s, r) /\ Holds(r) /\ r.common = s.common
            /\ ~h.selected
            /\ \A f \in DOMAIN NewDrawn : f # "selected" => h[f] = g[f]
            /\ Knows(r, c) <=> Knows(s, c)
<1> DEFINE r == [s EXCEPT !.drawn[c].selected = FALSE]
<1>0. Shape(s)
  BY DEF Holds
<1>1. Keeps(s, r)
  BY Sets
<1>2. /\ \A d \in Drawn : d # c => r.drawn[d] = s.drawn[d]
      /\ r.common = s.common
      /\ ~r.drawn[c].selected
      /\ \A f \in DOMAIN NewDrawn : f # "selected" => r.drawn[c][f] = s.drawn[c][f]
  BY <1>0 DEF Shape, NewDrawn
<1> HIDE DEF r
<1>3. r.drawn[c].data = s.drawn[c].data
  BY <1>1 DEF Keeps
<1> QED
  BY <1>1, <1>2, <1>3 DEF Own, SameRange, Keeps, Knows, r

LEMMA PieCleared ==
  ASSUME NEW s, Holds(s), NEW c \in Pies, Pied(s, c)
  PROVE  LET t == ClearSelection(s, c)
             g == s.drawn[c]
             h == t.drawn[c]
         IN /\ Own(s, t, c) /\ SameRange(s, t) /\ Pied(t, c)
            /\ h.live = g.live /\ ~h.selected
            /\ g.live => Agrees(h)
<1> DEFINE g == s.drawn[c]
           r == [s EXCEPT !.drawn[c].selected = FALSE]
           u == EasypiechartClearSelection(r, c, FALSE)
           t == LegendShowLatestValues(u, c)
<1>0. c \in Drawn /\ c \notin Gauges
  BY OneLibrary
<1>1. ClearSelection(s, c) = t
  BY <1>0 DEF ClearSelection
<1>2. /\ Own(s, r, c) /\ SameRange(s, r) /\ Holds(r)
      /\ ~r.drawn[c].selected
      /\ \A f \in DOMAIN NewDrawn : f # "selected" => r.drawn[c][f] = g[f]
      /\ Knows(r, c) <=> Knows(s, c)
  BY <1>0, Unselects
<1> HIDE DEF r
<1>3. /\ r.drawn[c].created = g.created /\ r.drawn[c].data = g.data
      /\ r.drawn[c].label = g.label /\ r.drawn[c].live = g.live
  BY <1>2 DEF NewDrawn
<1>4. Pied(r, c)
  BY <1>2, <1>3 DEF Pied, Blank
<1>5. /\ Own(r, u, c) /\ SameStand(r.drawn[c], u.drawn[c]) /\ Pied(u, c) /\ SameRange(r, u)
      /\ r.drawn[c].live => Fits(u.drawn[c], "value")
  BY <1>2, <1>4, PieClears
<1> HIDE DEF u
<1>6. Holds(u) /\ u.drawn[c].live = g.live /\ ~u.drawn[c].selected
  BY <1>2, <1>3, <1>5 DEF Own, Keeps, SameStand
<1>7. /\ Own(u, t, c) /\ SameStand(u.drawn[c], t.drawn[c]) /\ Pied(t, c) /\ SameRange(u, t)
      /\ u.drawn[c].live /\ ~u.drawn[c].selected /\ Fits(u.drawn[c], "value") => Agrees(t.drawn[c])
  BY <1>5, <1>6, PieLatest
<1> HIDE DEF t
<1>8. Own(s, t, c)
  <2>1. Own(s, u, c)
    BY <1>2, <1>5, OwnTwice
  <2> QED
    BY <1>7, <2>1, OwnTwice
<1>9. SameRange(s, t) /\ t.drawn[c].live = g.live /\ ~t.drawn[c].selected
  BY <1>2, <1>5, <1>6, <1>7 DEF SameRange, SameStand
<1>10. g.live => Agrees(t.drawn[c])
  BY <1>3, <1>5, <1>6, <1>7
<1> QED
  BY <1>1, <1>7, <1>8, <1>9, <1>10 DEF t

(* Legends.                                                                *)
Lone(s, c) ==
    LET g == s.drawn[c] IN g.created /\ g.data # Null /\ Blank(g, {"value"})

LEMMA TwoLabelsShow ==
  ASSUME NEW s, Holds(s), NEW c \in Legends, Blank(s.drawn[c], {"value"}),
         NEW p \in {"min", "max"}, NEW q \in {"min", "max"}, p # q, NEW v, NEW w
  PROVE  LET t == ShowLabel(ShowLabel(s, c, p, v), c, q, w)
             g == s.drawn[c]
             h == t.drawn[c]
         IN /\ Stays(s, t, c) /\ Blank(h, {"value"})
            /\ v # Null /\ w # Null /\ g.unit = g.divider => Agrees(h)
<1> DEFINE g == s.drawn[c]
           u == ShowLabel(s, c, p, v)
           t == ShowLabel(u, c, q, w)
           k == u.drawn[c]
           h == t.drawn[c]
<1>0. c \in Drawn /\ p \in Spots /\ q \in Spots /\ p # "value" /\ q # "value" /\ "value" \in Spots
  BY OneLibrary DEF Spots
<1>1. /\ Stays(s, u, c) /\ DOMAIN k.label = Spots
      /\ \A x \in Spots : x # p => k.label[x] = g.label[x]
      /\ v # Null => Fits(k, p) /\ Steady(u, c)
      /\ g.unit = g.divider => k.unit = k.divider
  BY <1>0, ShowLabelShows DEF Blank
<1> HIDE DEF u
<1>2. Holds(u)
  BY <1>1, StayingHolds
<1>3. /\ Stays(u, t, c) /\ DOMAIN h.label = Spots
      /\ \A x \in Spots : x # q => h.label[x] = k.label[x]
      /\ w # Null => Fits(h, q)
      /\ Steady(u, c) => h.divider = k.divider
      /\ k.unit = k.divider => h.unit = h.divider
  <2>1. DOMAIN u.drawn[c].label = Spots
    BY <1>1
  <2> QED
    BY <1>0, <1>2, <2>1, ShowLabelShows
<1> HIDE DEF t
<1>4. Stays(s, t, c)
  BY <1>1, <1>3, StaysTwice
<1>5. Blank(h, {"value"})
  BY <1>0, <1>1, <1>3 DEF Blank
<1>6. ASSUME v # Null, w # Null, g.unit = g.divider PROVE Agrees(h)
  <2>1. h.unit = h.divider /\ h.divider = k.divider
    BY <1>1, <1>3, <1>6
  <2>2. h.label[q].divider = h.unit
    BY <1>3, <1>6, <2>1 DEF Fits
  <2>3. h.label[p].divider = h.unit
    BY <1>0, <1>1, <1>3, <1>6, <2>1 DEF Fits
  <2>4. h.label["value"] = Dash
    BY <1>5 DEF Blank
  <2>5. \A x \in Spots : x = p \/ x = q \/ x = "value"
    BY DEF Spots
  <2> QED
    BY <2>2, <2>3, <2>4, <2>5 DEF Agrees
<1> QED
  BY <1>4, <1>5, <1>6 DEF t, u

LEMMA LegendUndefined ==
  ASSUME NEW s, Holds(s), NEW c \in Legends, Lone(s, c)
  PROVE  LET t == LegendShowUndefined(s, c)
         IN /\ Own(s, t, c) /\ SameStand(s.drawn[c], t.drawn[c]) /\ Lone(t, c) /\ SameRange(s, t)
<1> DEFINE t == ShowLabel(ShowLabel(s, c, "min", Null), c, "max", Null)
<1>0. c \in Drawn /\ c \notin Gauges /\ c \notin Pies
  BY OneLibrary
<1>1. LegendShowUndefined(s, c) = t
  BY <1>0 DEF LegendShowUndefined
<1>2. Stays(s, t, c) /\ Blank(t.drawn[c], {"value"})
  BY TwoLabelsShow DEF Lone
<1> HIDE DEF t
<1>3. /\ Own(s, t, c) /\ SameRange(s, t) /\ SameStand(s.drawn[c], t.drawn[c])
      /\ t.drawn[c].data = s.drawn[c].data
  BY <1>0, <1>2, StayingIsOwn
<1>4. Lone(t, c)
  BY <1>2, <1>3 DEF Lone, SameStand
<1> QED
  BY <1>1, <1>3, <1>4

LEMMA LegendLatest ==
  ASSUME NEW s, Holds(s), NEW c \in Legends, Lone(s, c)
  PROVE  LET t == LegendShowLatestValues(s, c)
             g == s.drawn[c]
             h == t.drawn[c]
         IN /\ Own(s, t, c) /\ SameStand(g, h) /\ Lone(t, c) /\ SameRange(s, t)
            /\ g.live /\ ~g.selected => Agrees(h)
            /\ g.selected => t = s
<1> DEFINE g == s.drawn[c]
           t == LegendShowLatestValues(s, c)
           v == <<s.drawn[c].data[1].max>>
           w == <<s.drawn[c].data[1].min>>
           u == SwitchUnits(s, c, g.divider)
           z == ShowLabel(ShowLabel(u, c, "max", v), c, "min", w)
<1>0. c \in Drawn
  BY OneLibrary
<1>1. CASE g.selected
  <2>1. t = s
    BY <1>1 DEF LegendShowLatestValues
  <2>2. Own(s, s, c) /\ SameStand(g, g) /\ SameRange(s, s)
    BY KeepsItself DEF Own, SameStand, SameRange
  <2> HIDE DEF t
  <2> QED
    BY <1>1, <2>1, <2>2 DEF t
<1>2. CASE ~g.selected /\ ~g.live
  <2>1. t = LegendShowUndefined(s, c)
    BY <1>2 DEF LegendShowLatestValues
  <2>2. Own(s, t, c) /\ SameStand(g, t.drawn[c]) /\ Lone(t, c) /\ SameRange(s, t)
    BY <2>1, LegendUndefined
  <2> HIDE DEF t
  <2> QED
    BY <1>2, <2>2 DEF t
<1>3. CASE ~g.selected /\ g.live
  <2>1. t = z
    BY <1>3 DEF LegendShowLatestValues
  <2>2. v # Null /\ w # Null
    BY DEF Null
  <2> HIDE DEF t, v, w
  <2>3. /\ Converts(s, u, c) /\ u.drawn[c].divider = g.divider /\ u.drawn[c].unit = g.divider
    BY <1>0, SwitchUnitsConverts
  <2> HIDE DEF u
  <2>4. Holds(u) /\ Blank(u.drawn[c], {"value"})
    BY <2>3, StayingHolds DEF Converts, Lone, Blank
  <2>5. Stays(u, z, c) /\ Blank(z.drawn[c], {"value"}) /\ Agrees(z.drawn[c])
    BY <2>2, <2>3, <2>4, TwoLabelsShow
  <2> HIDE DEF z
  <2>6. Stays(s, z, c)
    BY <2>3, <2>5, StaysTwice DEF Converts
  <2>7. /\ Own(s, z, c) /\ SameRange(s, z) /\ SameStand(g, z.drawn[c])
        /\ z.drawn[c].data = g.data
    BY <1>0, <2>6, StayingIsOwn
  <2>8. Lone(z, c)
    BY <2>5, <2>7 DEF Lone, SameStand
  <2> QED
    BY <1>3, <2>1, <2>5, <2>7, <2>8 DEF t
<1> QED
  BY <1>1, <1>2, <1>3

LEMMA LegendCleared ==
  ASSUME NEW s, Holds(s), NEW c \in Legends, Lone(s, c)
  PROVE  LET t == ClearSelection(s, c)
             g == s.drawn[c]
             h == t.drawn[c]
         IN /\ Own(s, t, c) /\ SameRange(s, t) /\ Lone(t, c)
            /\ h.live = g.live /\ ~h.selected
            /\ g.live => Agrees(h)
<1> DEFINE g == s.drawn[c]
           r == [s EXCEPT !.drawn[c].selected = FALSE]
           t == LegendShowLatestValues(r, c)
<1>0. c \in Drawn /\ c \notin Gauges /\ c \notin Pies
  BY OneLibrary
<1>1. ClearSelection(s, c) = t
  BY <1>0 DEF ClearSelection
<1>2. /\ Own(s, r, c) /\ SameRange(s, r) /\ Holds(r)
      /\ ~r.drawn[c].selected
      /\ \A f \in DOMAIN NewDrawn : f # "selected" => r.drawn[c][f] = g[f]
  BY <1>0, Unselects
<1> HIDE DEF r
<1>3. /\ r.drawn[c].created = g.created /\ r.drawn[c].data = g.data
      /\ r.drawn[c].label = g.label /\ r.drawn[c].live = g.live
  BY <1>2 DEF NewDrawn
<1>4. Lone(r, c)
  BY <1>3 DEF Lone, Blank
<1>5. /\ Own(r, t, c) /\ SameStand(r.drawn[c], t.drawn[c]) /\ Lone(t, c) /\ SameRange(r, t)
      /\ r.drawn[c].live /\ ~r.drawn[c].selected => Agrees(t.drawn[c])
  BY <1>2, <1>4, LegendLatest
<1> HIDE DEF t
<1>6. Own(s, t, c)
  BY <1>2, <1>5, OwnTwice
<1>7. SameRange(s, t) /\ t.drawn[c].live = g.live /\ ~t.drawn[c].selected
  BY <1>2, <1>3, <1>5 DEF SameRange, SameStand
<1> QED
  BY <1>1, <1>2, <1>3, <1>5, <1>6, <1>7 DEF t

(* A chart is created.                                                     *)
Fresh(s, c) ==
    LET g == s.drawn[c] IN
    /\ ~g.created /\ g.data # Null /\ g.live /\ ~g.selected
    /\ Unmade(g) /\ Blank(g, Spots)

LEMMA Creates ==
  ASSUME NEW s, Holds(s), NEW c \in Drawn
  PROVE  LET t == [s EXCEPT !.drawn[c].created = TRUE]
             g == s.drawn[c]
             h == t.drawn[c]
         IN /\ Own(s, t, c) /\ SameRange(s, t) /\ Holds(t) /\ t.common = s.common
            /\ h.created
            /\ \A f \in DOMAIN NewDrawn : f # "created" => h[f] = g[f]
            /\ Knows(t, c) <=> Knows(s, c)
<1> DEFINE t == [s EXCEPT !.drawn[c].created = TRUE]
<1>0. Shape(s)
  BY DEF Holds
<1>1. Keeps(s, t)
  BY Sets
<1>2. /\ \A d \in Drawn : d # c => t.drawn[d] = s.drawn[d]
      /\ t.common = s.common
      /\ t.drawn[c].created
      /\ \A f \in DOMAIN NewDrawn : f # "created" => t.drawn[c][f] = s.drawn[c][f]
  BY <1>0 DEF Shape, NewDrawn
<1> HIDE DEF t
<1>3. t.drawn[c].data = s.drawn[c].data
  BY <1>1 DEF Keeps
<1> QED
  BY <1>1, <1>2, <1>3 DEF Own, SameRange, Keeps, Knows, t

LEMMA GaugeCreates ==
  ASSUME NEW s, Holds(s), NEW c \in Gauges, Fresh(s, c)
  PROVE  LET t == LegendShowLatestValues(GaugeChartCreate(s, c), c)
         IN Own(s, t, c) /\ Gauged(t, c) /\ Informed(t, c) /\ ~t.drawn[c].selected
<1> DEFINE g == s.drawn[c]
           u == GaugeDraw(s, c)
           k == u.drawn[c]
           v == [u EXCEPT !.drawn[c].created = TRUE]
           w == SwitchUnits(v, c, v.drawn[c].divider)
           h == w.drawn[c]
<1>0. c \in Drawn /\ c \notin Pies /\ c \notin Legends
  BY OneLibrary
<1>1. GaugeChartCreate(s, c) = v
  BY DEF GaugeChartCreate
<1>2. Even(g) /\ Lowered(g)
  <2>1. DOMAIN Nulls = Spots /\ (\A p \in Spots : Nulls[p] = Null) /\ "min" \in Spots /\ "value" \in Spots
    BY DEF Nulls, Spots
  <2> QED
    BY <2>1 DEF Fresh, Unmade, Blank, Even, Level, Lowered
<1>3. /\ Own(s, u, c) /\ SameStand(g, k) /\ Knows(u, c)
      /\ Even(k) /\ Lowered(k) /\ Complete(k, Worth(s, c), Top(u, c))
  BY <1>2, GaugeDrawShows DEF Fresh
<1> HIDE DEF u
<1>4. Holds(u) /\ k.data = g.data
  BY <1>0, <1>3 DEF Own, Keeps
<1>5. /\ Own(u, v, c) /\ SameRange(u, v) /\ Holds(v) /\ v.common = u.common
      /\ v.drawn[c].created
      /\ \A f \in DOMAIN NewDrawn : f # "created" => v.drawn[c][f] = k[f]
      /\ Knows(v, c) <=> Knows(u, c)
  BY <1>0, <1>4, Creates
<1> HIDE DEF v
<1>6. /\ v.drawn[c].data = k.data /\ v.drawn[c].live = k.live /\ v.drawn[c].selected = k.selected
      /\ v.drawn[c].old = k.old /\ v.drawn[c].label = k.label /\ v.drawn[c].divider = k.divider
      /\ v.drawn[c].unit = k.unit
  BY <1>5 DEF NewDrawn
<1>7. LegendShowLatestValues(v, c) = w
  BY <1>0, <1>3, <1>6 DEF LegendShowLatestValues, Fresh, SameStand
<1>8. /\ Converts(v, w, c) /\ h.divider = v.drawn[c].divider /\ h.unit = h.divider
      /\ h.old \in {k.old, Nulls}
  BY <1>0, <1>5, <1>6, SwitchUnitsConverts
<1> HIDE DEF w
<1>9. /\ Own(v, w, c) /\ SameRange(v, w) /\ SameStand(v.drawn[c], h)
      /\ h.data = v.drawn[c].data /\ Knows(w, c) /\ h.label = v.drawn[c].label
  BY <1>0, <1>3, <1>5, <1>8, StayingIsOwn DEF Converts
<1>10. Own(s, w, c)
  <2>1. Own(s, v, c)
    BY <1>3, <1>5, OwnTwice
  <2> QED
    BY <1>9, <2>1, OwnTwice
<1>n. DOMAIN Nulls = Spots /\ (\A p \in Spots : Nulls[p] = Null) /\ "min" \in Spots /\ "value" \in Spots
  BY DEF Nulls, Spots
<1>11. Even(h)
  <2>1. DOMAIN h.old = Spots /\ DOMAIN h.label = Spots
    BY <1>3, <1>6, <1>8, <1>9, <1>n DEF Even
  <2>2. \A p \in Spots : h.old[p] # Null => Fits(h, p)
    BY <1>3, <1>6, <1>8, <1>9, <1>n DEF Even, Fits
  <2> QED
    BY <1>8, <2>1, <2>2 DEF Even, Level
<1>12. Lowered(h) /\ Complete(h, Worth(s, c), Top(u, c))
  BY <1>3, <1>8, <1>n DEF Lowered, Complete
<1>13. h.created /\ h.data = g.data /\ h.live /\ ~h.selected /\ g.data # Null
  BY <1>3, <1>4, <1>5, <1>6, <1>9 DEF SameStand, Fresh
<1>14. Gauged(w, c)
  BY <1>9, <1>11, <1>12, <1>13 DEF Gauged
<1>15. Informed(w, c)
  <2>1. Worth(w, c) = Worth(s, c)
    BY <1>13 DEF Worth
  <2> QED
    BY <1>12, <2>1 DEF Informed, Complete
<1> QED
  BY <1>1, <1>7, <1>10, <1>13, <1>14, <1>15

LEMMA PieCreates ==
  ASSUME NEW s, Holds(s), NEW c \in Pies, Fresh(s, c)
  PROVE  LET t == LegendShowLatestValues(EasypiechartChartCreate(s, c), c)
         IN Own(s, t, c) /\ Pied(t, c) /\ ~t.drawn[c].selected
<1> DEFINE g == s.drawn[c]
           a == <<s.drawn[c].data[1].value>>
           r == ShowLabel(s, c, "value", a)
           u == EasypiechartCommon(r, c)
           v == [u EXCEPT !.drawn[c].created = TRUE]
           w == LegendShowLatestValues(v, c)
<1>0. c \in Drawn
  BY OneLibrary
<1>s. "value" \in Spots /\ "min" \in Spots /\ "max" \in Spots /\ "value" \notin {"min", "max"}
  BY DEF Spots
<1>1. EasypiechartChartCreate(s, c) = v
  BY DEF EasypiechartChartCreate
<1> HIDE DEF a
<1>2. /\ Stays(s, r, c) /\ DOMAIN r.drawn[c].label = Spots
      /\ \A p \in Spots : p # "value" => r.drawn[c].label[p] = g.label[p]
  BY <1>0, <1>s, ShowLabelShows DEF Fresh, Blank
<1> HIDE DEF r
<1>3. /\ Own(s, r, c) /\ SameStand(g, r.drawn[c]) /\ Holds(r) /\ r.drawn[c].data = g.data
  BY <1>0, <1>2, StayingIsOwn
<1>4. r.drawn[c].data # Null
  BY <1>3 DEF Fresh
<1>5. /\ Own(r, u, c) /\ SameStand(r.drawn[c], u.drawn[c]) /\ Knows(u, c)
      /\ u.drawn[c].label = r.drawn[c].label /\ u.drawn[c].data = r.drawn[c].data
  BY <1>0, <1>3, <1>4, CommonShows
<1> HIDE DEF u
<1>6. Holds(u)
  BY <1>5 DEF Own, Keeps
<1>7. /\ Own(u, v, c) /\ Holds(v) /\ v.drawn[c].created
      /\ \A f \in DOMAIN NewDrawn : f # "created" => v.drawn[c][f] = u.drawn[c][f]
      /\ Knows(v, c) <=> Knows(u, c)
  BY <1>0, <1>6, Creates
<1> HIDE DEF v
<1>8. /\ v.drawn[c].data = g.data /\ v.drawn[c].label = r.drawn[c].label
      /\ v.drawn[c].selected = g.selected
  BY <1>3, <1>5, <1>7 DEF NewDrawn, SameStand
<1>9. Pied(v, c)
  <2>1. Blank(v.drawn[c], {"min", "max"})
    BY <1>s, <1>2, <1>8 DEF Blank, Fresh
  <2> QED
    BY <1>3, <1>4, <1>5, <1>7, <1>8, <2>1 DEF Pied
<1>10. Own(v, w, c) /\ SameStand(v.drawn[c], w.drawn[c]) /\ Pied(w, c)
  BY <1>7, <1>9, PieLatest
<1> HIDE DEF w
<1>11. Own(s, w, c)
  <2>1. Own(s, u, c)
    BY <1>3, <1>5, OwnTwice
  <2>2. Own(s, v, c)
    BY <1>7, <2>1, OwnTwice
  <2> QED
    BY <1>10, <2>2, OwnTwice
<1>12. ~w.drawn[c].selected
  BY <1>8, <1>10 DEF SameStand, Fresh
<1> QED
  BY <1>1, <1>10, <1>11, <1>12 DEF w

LEMMA DygraphUpdates ==
  ASSUME NEW s, Holds(s), NEW c \in Legends, s.drawn[c].data # Null, Blank(s.drawn[c], {"value"})
  PROVE  LET t == DygraphUpdate(s, c)
             g == s.drawn[c]
             h == t.drawn[c]
         IN /\ Own(s, t, c) /\ SameRange(s, t) /\ Lone(t, c)
            /\ h.live = g.live /\ h.selected = g.selected
<1> DEFINE g == s.drawn[c]
           min == g.data[1].min
           max == g.data[1].max
           u == DecimalsFromMinMax(s, c, min, max)
           t == [u EXCEPT !.drawn[c].created = TRUE]
<1>0. c \in Drawn
  BY OneLibrary
<1>1. DygraphUpdate(s, c) = t
  BY DEF DygraphUpdate
<1> HIDE DEF min, max
<1>2. Converts(s, u, c)
  BY <1>0, DecimalsConvert
<1> HIDE DEF u
<1>3. /\ Own(s, u, c) /\ SameRange(s, u) /\ SameStand(g, u.drawn[c]) /\ Holds(u)
      /\ u.drawn[c].data = g.data /\ u.drawn[c].label = g.label
  BY <1>0, <1>2, StayingIsOwn DEF Converts
<1>4. /\ Own(u, t, c) /\ SameRange(u, t) /\ t.drawn[c].created
      /\ \A f \in DOMAIN NewDrawn : f # "created" => t.drawn[c][f] = u.drawn[c][f]
  BY <1>0, <1>3, Creates
<1> HIDE DEF t
<1>5. /\ t.drawn[c].data = g.data /\ t.drawn[c].label = g.label
      /\ t.drawn[c].live = g.live /\ t.drawn[c].selected = g.selected
  BY <1>3, <1>4 DEF NewDrawn, SameStand
<1>6. Lone(t, c)
  BY <1>4, <1>5 DEF Lone, Blank
<1>7. Own(s, t, c)
  BY <1>3, <1>4, OwnTwice
<1> QED
  BY <1>1, <1>3, <1>4, <1>5, <1>6, <1>7 DEF SameRange

(* A value is selected.                                                    *)
LEMMA GaugeSelects ==
  ASSUME NEW s, Holds(s), NEW c \in Gauges, Gauged(s, c), NEW value
  PROVE  LET t == GaugeSetSelection(s, c, value)
         IN Own(s, t, c) /\ SameStand(s.drawn[c], t.drawn[c]) /\ Gauged(t, c)
<1> DEFINE g == s.drawn[c]
           r == CommonRange(s, c)
           max == r.common.max.latest
           u == GaugeSetLabels(r, c, value, <<0>>, max)
           event == <<[value |-> value[1], max |-> max[1]]>>
           v == [u EXCEPT !.drawn[c].event = event, !.drawn[c].timer = TRUE]
           z == GaugeClearSelection(s, c, TRUE)
<1>0. c \in Drawn
  BY OneLibrary
<1>1. CASE value = Null
  <2>1. GaugeSetSelection(s, c, value) = z
    BY <1>1 DEF GaugeSetSelection
  <2>2. Own(s, z, c) /\ SameStand(g, z.drawn[c]) /\ Gauged(z, c)
    BY GaugeClears DEF Gauged
  <2> QED
    BY <2>1, <2>2
<1>2. CASE value # Null
  <2>1. GaugeSetSelection(s, c, value) = v
    BY <1>2 DEF GaugeSetSelection
  <2> HIDE DEF event
  <2>2. Own(s, r, c) /\ r.drawn = s.drawn /\ Knows(r, c)
    BY <1>0, RangeKnows DEF Gauged
  <2> HIDE DEF r
  <2>3. Holds(r) /\ r.drawn[c] = g
    BY <2>2 DEF Own, Keeps
  <2>4. max # Null
    <3> DEFINE m == g.data[1].max
    <3>1. r.common.max.keys[c] = <<m>>
      BY <2>2 DEF Knows
    <3>2. Told(r.common.max.keys) /\ HighestTold(r.common.max)
      BY <2>3 DEF Holds, HighestTold
    <3> HIDE DEF m
    <3>3. c \in DOMAIN r.common.max.keys
      BY <1>0, <3>2 DEF Told
    <3>4. m \in Known(r.common.max.keys)
      <4>1. <<m>> # Null /\ <<m>>[1] = m
        BY DEF Null
      <4> QED
        BY <3>1, <3>3, <4>1 DEF Known
    <3> DEFINE known == Known(r.common.max.keys)
    <3>5. known # {} => max = <<Max(known)>>
      BY <3>2 DEF HighestTold
    <3>6. known # {}
      BY <3>4
    <3> DEFINE top == Max(known)
    <3>7. max = <<top>>
      BY <3>5, <3>6
    <3> HIDE DEF top, max
    <3> QED
      BY <3>7 DEF Null
  <2> HIDE DEF max
  <2>5. Stays(r, u, c) /\ Even(u.drawn[c]) /\ Lowered(u.drawn[c])
    BY <1>2, <2>3, <2>4, GaugeSetLabelsShow DEF Gauged
  <2> HIDE DEF u
  <2>6. /\ Own(r, u, c) /\ SameStand(g, u.drawn[c]) /\ Holds(u)
        /\ u.drawn[c].data = g.data /\ Knows(u, c)
    BY <1>0, <2>2, <2>3, <2>5, StayingIsOwn, SMTT(30)
  <2>7. Plain(u, v, c)
    BY <1>0, <2>6, PlainSets
  <2> HIDE DEF v
  <2>8. /\ Own(u, v, c) /\ SameStand(u.drawn[c], v.drawn[c])
        /\ v.common = u.common /\ v.drawn[c].data = u.drawn[c].data
        /\ v.drawn[c].old = u.drawn[c].old /\ v.drawn[c].label = u.drawn[c].label
        /\ v.drawn[c].divider = u.drawn[c].divider /\ v.drawn[c].unit = u.drawn[c].unit
    BY <1>0, <2>7, PlainTells
  <2>9. Own(s, v, c)
    <3>1. Own(s, u, c)
      BY <2>2, <2>6, OwnTwice
    <3> QED
      BY <2>8, <3>1, OwnTwice
  <2>10. Even(v.drawn[c]) /\ Lowered(v.drawn[c])
    BY <2>5, <2>8 DEF Even, Lowered, Level, Fits, SameStand
  <2>11. SameStand(g, v.drawn[c]) /\ Knows(v, c)
    BY <2>6, <2>8 DEF SameStand, Knows
  <2>12. Gauged(v, c)
    BY <2>6, <2>8, <2>10, <2>11 DEF Gauged, SameStand
  <2> QED
    BY <2>1, <2>9, <2>11, <2>12
<1> QED
  BY <1>1, <1>2

LEMMA PieSelects ==
  ASSUME NEW s, Holds(s), NEW c \in Pies, Pied(s, c), NEW value
  PROVE  LET t == EasypiechartSetSelection(s, c, value)
         IN Own(s, t, c) /\ SameStand(s.drawn[c], t.drawn[c]) /\ Pied(t, c)
<1> DEFINE g == s.drawn[c]
           r == CommonRange(s, c)
           min == r.common.min.latest[1]
           max == r.common.max.latest[1]
           first == value[1]
           u == EasypiechartPercent(r, c, first, min, max)
           v == ShowLabel(u, c, "value", value)
           event == <<[value |-> value[1], max |-> u.drawn[c].needle]>>
           needle == s.drawn[c].needle
           w == [v EXCEPT !.drawn[c].event = event, !.drawn[c].timer = TRUE,
                          !.drawn[c].needle = needle]
           z == EasypiechartClearSelection(s, c, TRUE)
<1>0. c \in Drawn
  BY OneLibrary
<1>s. "value" \in Spots /\ "min" \in Spots /\ "max" \in Spots /\ "value" \notin {"min", "max"}
  BY DEF Spots
<1>1. CASE value = Null
  <2>1. EasypiechartSetSelection(s, c, value) = z
    BY <1>1 DEF EasypiechartSetSelection
  <2>2. Own(s, z, c) /\ SameStand(g, z.drawn[c]) /\ Pied(z, c)
    BY PieClears
  <2> QED
    BY <2>1, <2>2
<1>2. CASE value # Null
  <2>1. EasypiechartSetSelection(s, c, value) = w
    BY <1>2 DEF EasypiechartSetSelection
  <2> HIDE DEF event, needle, min, max, first
  <2>2. Own(s, r, c) /\ r.drawn = s.drawn /\ Knows(r, c)
    BY <1>0, RangeKnows DEF Pied
  <2> HIDE DEF r
  <2>3. Holds(r) /\ r.drawn[c] = g
    BY <2>2 DEF Own, Keeps
  <2>4. Converts(r, u, c)
    BY <1>0, <2>3, PercentConverts
  <2> HIDE DEF u
  <2>5. Holds(u) /\ u.drawn[c].label = g.label
    BY <2>3, <2>4, StayingHolds DEF Converts
  <2>6. DOMAIN u.drawn[c].label = Spots
    BY <2>5 DEF Pied, Blank
  <2>7. /\ Stays(u, v, c) /\ DOMAIN v.drawn[c].label = Spots
        /\ \A p \in Spots : p # "value" => v.drawn[c].label[p] = u.drawn[c].label[p]
    BY <1>0, <1>s, <2>5, <2>6, ShowLabelShows
  <2> HIDE DEF v
  <2>8. Stays(r, v, c)
    BY <2>4, <2>7, StaysTwice DEF Converts
  <2>9. /\ Own(r, v, c) /\ SameStand(g, v.drawn[c]) /\ Holds(v)
        /\ v.drawn[c].data = g.data /\ Knows(v, c)
    BY <1>0, <2>2, <2>3, <2>8, StayingIsOwn, SMTT(30)
  <2>10. Plain(v, w, c)
    BY <1>0, <2>9, PlainSets
  <2> HIDE DEF w
  <2>11. /\ Own(v, w, c) /\ SameStand(v.drawn[c], w.drawn[c])
         /\ w.common = v.common /\ w.drawn[c].data = v.drawn[c].data
         /\ w.drawn[c].label = v.drawn[c].label
    BY <1>0, <2>10, PlainTells
  <2>12. Own(s, w, c)
    <3>1. Own(s, v, c)
      BY <2>2, <2>9, OwnTwice
    <3> QED
      BY <2>11, <3>1, OwnTwice
  <2>13. Blank(w.drawn[c], {"min", "max"})
    BY <1>s, <2>5, <2>7, <2>11 DEF Pied, Blank
  <2>14. SameStand(g, w.drawn[c]) /\ Knows(w, c)
    BY <2>9, <2>11 DEF SameStand, Knows
  <2>15. Pied(w, c)
    BY <2>9, <2>11, <2>13, <2>14 DEF Pied, SameStand
  <2> QED
    BY <2>1, <2>12, <2>14, <2>15
<1> QED
  BY <1>1, <1>2

LEMMA LegendSelects ==
  ASSUME NEW s, Holds(s), NEW c \in Legends, Lone(s, c), NEW value
  PROVE  LET t == LegendSetSelection(s, c, value)
         IN Own(s, t, c) /\ Lone(t, c)
<1> DEFINE u == LegendShowUndefined(s, c)
           v == [u EXCEPT !.drawn[c].selected = FALSE]
           w == ShowLabel(ShowLabel(s, c, "max", value), c, "min", value)
<1>0. c \in Drawn
  BY OneLibrary
<1>1. CASE value = Null
  <2>1. LegendSetSelection(s, c, value) = v
    BY <1>1 DEF LegendSetSelection
  <2>2. Own(s, u, c) /\ Lone(u, c)
    BY LegendUndefined
  <2> HIDE DEF u
  <2>3. Holds(u)
    BY <2>2 DEF Own, Keeps
  <2>4. /\ Own(u, v, c)
        /\ \A f \in DOMAIN NewDrawn : f # "selected" => v.drawn[c][f] = u.drawn[c][f]
    BY <1>0, <2>3, Unselects
  <2> HIDE DEF v
  <2>5. Lone(v, c)
    <3>1. /\ v.drawn[c].created = u.drawn[c].created /\ v.drawn[c].data = u.drawn[c].data
          /\ v.drawn[c].label = u.drawn[c].label
      BY <2>4 DEF NewDrawn
    <3> QED
      BY <2>2, <3>1 DEF Lone, Blank
  <2> QED
    BY <2>1, <2>2, <2>4, <2>5, OwnTwice
<1>2. CASE value # Null
  <2>1. LegendSetSelection(s, c, value) = w
    BY <1>2 DEF LegendSetSelection
  <2>2. Stays(s, w, c) /\ Blank(w.drawn[c], {"value"})
    BY TwoLabelsShow DEF Lone
  <2> HIDE DEF w
  <2>3. /\ Own(s, w, c) /\ SameStand(s.drawn[c], w.drawn[c]) /\ w.drawn[c].data = s.drawn[c].data
    BY <1>0, <2>2, StayingIsOwn
  <2>4. Lone(w, c)
    BY <2>2, <2>3 DEF Lone, SameStand
  <2> QED
    BY <2>1, <2>3, <2>4
<1> QED
  BY <1>1, <1>2

(* The needle of a gauge moves.                                            *)
LEMMA GaugeTimed ==
  ASSUME NEW s, Holds(s), NEW c \in Gauges, Gauged(s, c), Informed(s, c), NEW value, NEW max
  PROVE  LET t == GaugeSet(s, c, value, 0, max)
         IN Own(s, t, c) /\ Gauged(t, c) /\ Informed(t, c)
<1> DEFINE g == s.drawn[c]
           t == GaugeSet(s, c, value, 0, max)
           h == t.drawn[c]
<1>0. c \in Drawn
  BY OneLibrary
<1>1. Converts(s, t, c) /\ Even(h) /\ h.old \in {g.old, Nulls}
  BY GaugeSetConverts DEF Gauged, Scaled
<1> HIDE DEF t
<1>2. /\ Own(s, t, c) /\ SameStand(g, h) /\ h.data = g.data /\ (Knows(s, c) => Knows(t, c))
  BY <1>0, <1>1, StayingIsOwn DEF Converts
<1>n. (\A p \in Spots : Nulls[p] = Null) /\ "min" \in Spots /\ "value" \in Spots
  BY DEF Nulls, Spots
<1>3. Lowered(h)
  BY <1>1, <1>n DEF Lowered, Gauged
<1>4. Gauged(t, c)
  BY <1>1, <1>2, <1>3, SMTT(30) DEF Gauged, SameStand
<1>5. Informed(t, c)
  BY <1>1, <1>2, <1>n DEF Informed, Worth, SameStand
<1> QED
  BY <1>2, <1>4, <1>5 DEF t

(* A chart that has been created, by its library; and any chart.           *)
Sound(s, c) ==
    /\ c \in Gauges => Gauged(s, c)
    /\ c \in Pies => Pied(s, c)
    /\ c \in Legends => Lone(s, c)
Standing(s, c) == s.drawn[c].created /\ Sound(s, c) /\ (c \in Gauges => Informed(s, c))
Good(s, c) == IF s.drawn[c].created THEN Standing(s, c) ELSE s.drawn[c] = NewDrawn
Promise(s, c) ==
    c \in Gauges /\ s.drawn[c].created /\ s.drawn[c].live
      => Complete(s.drawn[c], Worth(s, c), Top(s, c))

LEMMA AloneSame ==
  ASSUME NEW s, NEW t, NEW c \in Drawn, NEW d \in Drawn, d # c, Own(s, t, c), Good(s, d)
  PROVE  /\ Good(t, d) /\ t.drawn[d] = s.drawn[d]
         /\ SameRange(s, t) /\ Promise(s, d) => Promise(t, d)
<1>1. /\ t.drawn[d] = s.drawn[d] /\ t.common.min.keys[d] = s.common.min.keys[d]
      /\ t.common.max.keys[d] = s.common.max.keys[d]
  BY DEF Own
<1>2. (Knows(t, d) <=> Knows(s, d)) /\ Worth(t, d) = Worth(s, d)
  BY <1>1 DEF Knows, Worth
<1>3. Standing(s, d) => Standing(t, d)
  BY <1>1, <1>2 DEF Standing, Sound, Gauged, Pied, Lone, Informed
<1>4. SameRange(s, t) => Top(t, d) = Top(s, d)
  BY <1>1 DEF SameRange, Top
<1> QED
  BY <1>1, <1>2, <1>3, <1>4 DEF Good, Promise

LEMMA FitsAgree ==
  ASSUME NEW g, Even(g), g.created, AllFit(g)
  PROVE  Agrees(g)
  BY DEF Even, Level, AllFit, Fits, Agrees

LEMMA Cleared ==
  ASSUME NEW s, Holds(s), NEW c \in Drawn, Standing(s, c)
  PROVE  LET t == ClearSelection(s, c)
         IN /\ Own(s, t, c) /\ SameRange(s, t) /\ Standing(t, c)
            /\ t.drawn[c].live = s.drawn[c].live
            /\ Promise(s, c) => Promise(t, c) /\ (s.drawn[c].live => Agrees(t.drawn[c]))
<1> DEFINE t == ClearSelection(s, c)
<1>1. CASE c \in Gauges
  <2>1. /\ Own(s, t, c) /\ SameRange(s, t) /\ Gauged(t, c) /\ Informed(t, c)
        /\ t.drawn[c].live = s.drawn[c].live
        /\ s.drawn[c].live => Renewed(s, t, c)
    BY <1>1, GaugeCleared DEF Standing, Sound
  <2> HIDE DEF t
  <2>2. Worth(t, c) = Worth(s, c) /\ Top(t, c) = Top(s, c)
    BY <2>1 DEF Own, Keeps, Worth, Top, SameRange
  <2>3. Standing(t, c)
    BY <1>1, <2>1, OneLibrary DEF Standing, Sound, Gauged
  <2>4. Promise(t, c)
    BY <2>1, <2>2 DEF Promise, Renewed
  <2>5. Promise(s, c) /\ s.drawn[c].live => Agrees(t.drawn[c])
    <3>1. Promise(s, c) /\ s.drawn[c].live => AllFit(t.drawn[c])
      BY <1>1, <2>1, <2>2 DEF Promise, Renewed, Standing
    <3> QED
      BY <2>1, <3>1, FitsAgree DEF Gauged
  <2> QED
    BY <2>1, <2>3, <2>4, <2>5 DEF t
<1>2. CASE c \in Pies
  <2>1. /\ Own(s, t, c) /\ SameRange(s, t) /\ Pied(t, c)
        /\ t.drawn[c].live = s.drawn[c].live
        /\ s.drawn[c].live => Agrees(t.drawn[c])
    BY <1>2, PieCleared DEF Standing, Sound
  <2> HIDE DEF t
  <2>2. Standing(t, c) /\ Promise(t, c)
    BY <1>2, <2>1, OneLibrary DEF Standing, Sound, Pied, Promise
  <2> QED
    BY <2>1, <2>2 DEF t
<1>3. CASE c \in Legends
  <2>1. /\ Own(s, t, c) /\ SameRange(s, t) /\ Lone(t, c)
        /\ t.drawn[c].live = s.drawn[c].live
        /\ s.drawn[c].live => Agrees(t.drawn[c])
    BY <1>3, LegendCleared DEF Standing, Sound
  <2> HIDE DEF t
  <2>2. Standing(t, c) /\ Promise(t, c)
    BY <1>3, <2>1, OneLibrary DEF Standing, Sound, Lone, Promise
  <2> QED
    BY <2>1, <2>2 DEF t
<1> QED
  BY <1>1, <1>2, <1>3 DEF Drawn

(* The selections end, one after the other; one that ends shows what there *)
(* is in its units.                                                        *)
Through(s, t) ==
    /\ Keeps(s, t) /\ SameRange(s, t)
    /\ \A d \in Drawn : /\ Good(t, d)
                        /\ t.drawn[d].created = s.drawn[d].created
                        /\ t.drawn[d].live = s.drawn[d].live

LEMMA StoppedShows ==
  ASSUME NEW s, Holds(s), \A d \in Drawn : Good(s, d), NEW slaves, NEW n \in Nat, NEW g,
         StoppedTo(s, slaves, n, g),
         \A m \in 1..n : slaves[m] \in Drawn /\ s.drawn[slaves[m]].created,
         NEW c \in Drawn, Promise(s, c)
  PROVE  /\ Through(s, g[n])
         /\ s.drawn[c].live /\ (\E m \in 1..n : slaves[m] = c) => Agrees(g[n].drawn[c])
<1> DEFINE Ended(m) ==
             /\ Through(s, g[m]) /\ Promise(g[m], c)
             /\ s.drawn[c].live /\ (\E k \in 1..m : slaves[k] = c) => Agrees(g[m].drawn[c])
           T == { m \in 0..n : Ended(m) }
<1>1. 0 \in T
  <2>1. g[0] = s
    BY DEF StoppedTo
  <2>2. Through(s, s)
    BY KeepsItself DEF Through, SameRange
  <2>3. ~ \E k \in 1..0 : slaves[k] = c
    OBVIOUS
  <2>4. Ended(0)
    BY <2>1, <2>2, <2>3
  <2> HIDE DEF Ended
  <2> QED
    BY <2>4
<1>2. ASSUME NEW m \in 0..n, m \in T, m < n PROVE m + 1 \in T
  <2> DEFINE u == g[m]
             d == slaves[m + 1]
             v == ClearSelection(u, d)
  <2>1. Ended(m)
    BY <1>2
  <2>2. m + 1 \in 1..n /\ (m + 1) - 1 = m
    BY <1>2
  <2>3. g[m + 1] = v
    BY <2>2 DEF StoppedTo
  <2>4. d \in Drawn /\ s.drawn[d].created
    BY <2>2
  <2>5. Through(s, u) /\ Promise(u, c)
    BY <2>1
  <2>6. s.drawn[c].live /\ (\E k \in 1..m : slaves[k] = c) => Agrees(u.drawn[c])
    BY <2>1
  <2> HIDE DEF u, d, Ended
  <2>7. Holds(u) /\ Standing(u, d)
    BY <2>4, <2>5 DEF Through, Keeps, Good
  <2>8. /\ Own(u, v, d) /\ SameRange(u, v) /\ Standing(v, d)
        /\ v.drawn[d].live = u.drawn[d].live
        /\ Promise(u, d) => Promise(v, d) /\ (u.drawn[d].live => Agrees(v.drawn[d]))
    BY <2>4, <2>7, Cleared
  <2> HIDE DEF v
  <2>9. \A x \in Drawn : x # d => /\ Good(v, x) /\ v.drawn[x] = u.drawn[x]
                                  /\ Promise(u, x) => Promise(v, x)
    BY <2>4, <2>5, <2>8, AloneSame DEF Through
  <2>10. Good(v, d) /\ v.drawn[d].created /\ u.drawn[d].created
    BY <2>7, <2>8 DEF Good, Standing
  <2>11. Keeps(s, v)
    BY <2>5, <2>8, KeepsTwice DEF Own, Through
  <2>12. Through(s, v)
    <3>1. SameRange(s, v)
      BY <2>5, <2>8 DEF SameRange, Through
    <3>2. ASSUME NEW x \in Drawn
          PROVE  Good(v, x) /\ v.drawn[x].created = s.drawn[x].created
                            /\ v.drawn[x].live = s.drawn[x].live
      <4>1. CASE x = d
        BY <2>4, <2>5, <2>8, <2>10, <4>1 DEF Through
      <4>2. CASE x # d
        BY <2>5, <2>9, <4>2 DEF Through
      <4> QED
        BY <4>1, <4>2
    <3> QED
      BY <2>11, <3>1, <3>2 DEF Through
  <2>13. Promise(v, c)
    BY <2>5, <2>8, <2>9
  <2>14. ASSUME s.drawn[c].live, NEW k \in 1..(m + 1), slaves[k] = c PROVE Agrees(v.drawn[c])
    <3>1. CASE c = d
      BY <2>5, <2>8, <2>14, <3>1 DEF Through
    <3>2. CASE c # d
      <4>1. k \in 1..m
        BY <1>2, <2>14, <3>2 DEF d
      <4>2. Agrees(u.drawn[c])
        BY <2>6, <2>14, <4>1
      <4> QED
        BY <2>9, <3>2, <4>2
    <3> QED
      BY <3>1, <3>2
  <2>15. Ended(m + 1)
    BY <2>3, <2>12, <2>13, <2>14 DEF Ended
  <2> QED
    BY <2>2, <2>15
<1> HIDE DEF T
<1>3. n \in T
  <2>1. \A m \in 0..n : m \in T /\ m < n => m + 1 \in T
    BY <1>2
  <2>2. \A m \in 0..n : m \in T
    BY <1>1, <2>1, UpTo, Zenon
  <2> QED
    BY <2>2
<1> QED
  BY <1>3 DEF T

LEMMA SlavesAreAll ==
  ASSUME NEW S \in SUBSET Drawn
  PROVE  /\ \A n \in 1..Len(SetToSeq(S)) : SetToSeq(S)[n] \in S
         /\ \A c \in S : \E n \in 1..Len(SetToSeq(S)) : SetToSeq(S)[n] = c
<1> DEFINE f == SetToSeq(S)
           k == Cardinality(S)
<1>1. IsFiniteSet(S)
  BY ScalesAssumption, FS_Subset
<1>2. k \in Nat /\ ExistsBijection(1..k, S)
  BY <1>1, FS_NatBijection, FS_CardinalityType
<1>3. PICK g \in Bijection(1..k, S) : TRUE
  BY <1>2 DEF ExistsBijection
<1>4. g \in [1..k -> S] /\ IsInjective(g)
  BY <1>3 DEF Bijection, Injection, IsInjective
<1>5. f \in [1..k -> S] /\ IsInjective(f)
  BY <1>4 DEF SetToSeq
<1> HIDE DEF f
<1>6. Len(f) = k
  BY <1>2, <1>5
<1>7. f \in Surjection(1..k, S)
  <2>1. IsFiniteSet(1..k) /\ Cardinality(1..k) = k
    BY <1>2, FS_Interval
  <2>2. f \in Injection(1..k, S)
    BY <1>5 DEF Injection, IsInjective
  <2> HIDE DEF k
  <2> QED
    BY <1>1, <2>1, <2>2, FS_Injection DEF k
<1> HIDE DEF k
<1> QED
  BY <1>5, <1>6, <1>7 DEF f, Surjection

LEMMA StopSelectionShows ==
  ASSUME NEW s, Holds(s), \A d \in Drawn : Good(s, d), NEW c \in Drawn, Promise(s, c)
  PROVE  LET t == StopSelection(s)
         IN /\ Through(s, t)
            /\ s.drawn[c].live /\ s.drawn[c].selected => Agrees(t.drawn[c])
<1> DEFINE S == { d \in Drawn : s.drawn[d].selected }
           slaves == SetToSeq(S)
           n == Len(slaves)
<1>1. PICK g : StoppedTo(s, slaves, n, g) /\ StopSelection(s) = g[n]
  BY StopSelectionStops
<1>2. n \in Nat /\ \A m \in 1..n : slaves[m] \in S
  BY SlavesAreCharts, SlavesAreAll
<1>3. \A d \in S : \E m \in 1..n : slaves[m] = d
  BY SlavesAreAll
<1> HIDE DEF slaves, n
<1>4. \A d \in S : s.drawn[d].created
  BY DEF Good, NewDrawn
<1>5. \A m \in 1..n : slaves[m] \in Drawn /\ s.drawn[slaves[m]].created
  BY <1>2, <1>4
<1>6. /\ Through(s, g[n])
      /\ s.drawn[c].live /\ (\E m \in 1..n : slaves[m] = c) => Agrees(g[n].drawn[c])
  BY <1>1, <1>2, <1>5, StoppedShows
<1> QED
  BY <1>1, <1>3, <1>6

(* A chart is drawn with its data, new ones or those it had.               *)
Ready(s, c) ==
    LET g == s.drawn[c] IN
    \/ Fresh(s, c)
    \/ /\ g.created /\ g.data # Null
       /\ c \in Gauges => Even(g) /\ Lowered(g)
       /\ c \in Pies => Blank(g, {"min", "max"})
       /\ c \in Legends => Blank(g, {"value"})
Redone(s, c) ==
    LegendShowLatestValues(
        CASE c \in Gauges /\ s.drawn[c].created -> GaugeChartUpdate(s, c)
          [] c \in Gauges /\ ~s.drawn[c].created -> GaugeChartCreate(s, c)
          [] c \in Pies /\ s.drawn[c].created -> EasypiechartChartUpdate(s, c)
          [] c \in Pies /\ ~s.drawn[c].created -> EasypiechartChartCreate(s, c)
          [] OTHER -> DygraphUpdate(s, c), c)

(* What a chart that was there and is live shows then.                     *)
Proper(s, t, c) ==
    LET g == s.drawn[c]
        h == t.drawn[c] IN
    \/ Agrees(h)
    \/ c \in Gauges /\ h.set = g.set /\ g.old["value"] = Worth(s, c)

LEMMA GaugeRedone ==
  ASSUME NEW s, Holds(s), NEW c \in Gauges, Ready(s, c)
  PROVE  LET t == Redone(s, c)
             g == s.drawn[c]
             h == t.drawn[c]
         IN /\ Own(s, t, c) /\ Standing(t, c) /\ (h.selected => g.selected)
            /\ g.created => Promise(t, c) /\ h.live = g.live /\ h.selected = g.selected
            /\ g.created /\ g.live /\ ~g.selected => Proper(s, t, c)
<1> DEFINE g == s.drawn[c]
           u == GaugeChartUpdate(s, c)
           v == GaugeChartCreate(s, c)
           t == LegendShowLatestValues(u, c)
           w == LegendShowLatestValues(v, c)
<1>0. c \in Drawn /\ c \notin Pies /\ c \notin Legends
  BY OneLibrary
<1>1. CASE g.created
  <2>1. Redone(s, c) = t
    BY <1>0, <1>1 DEF Redone
  <2>2. /\ g.data # Null /\ Even(g) /\ Lowered(g)
    BY <1>1 DEF Ready, Fresh
  <2>3. /\ Own(s, u, c) /\ SameStand(g, u.drawn[c]) /\ Gauged(u, c)
        /\ g.live => Renewed(s, u, c)
    BY <1>1, <2>2, GaugeUpdates
  <2> HIDE DEF u
  <2>4. Holds(u)
    BY <2>3 DEF Own, Keeps
  <2>5. /\ Own(u, t, c) /\ SameStand(u.drawn[c], t.drawn[c]) /\ Gauged(t, c)
        /\ u.drawn[c].live \/ u.drawn[c].selected => t = u
    BY <2>3, <2>4, GaugeLatest
  <2> HIDE DEF t
  <2>6. Own(s, t, c) /\ SameStand(g, t.drawn[c])
    <3>1. Own(s, t, c)
      BY <2>3, <2>5, OwnTwice
    <3> QED
      BY <2>3, <2>5, <3>1 DEF SameStand
  <2>7. g.live => t = u
    BY <2>3, <2>5 DEF SameStand
  <2>8. g.live => Renewed(s, t, c)
    BY <2>3, <2>7
  <2>9. Worth(t, c) = Worth(s, c)
    BY <1>0, <2>6 DEF Own, Keeps, Worth
  <2>10. Standing(t, c)
    <3>1. Informed(t, c)
      BY <2>6, <2>8, <2>9 DEF Informed, Renewed, Complete, SameStand
    <3> QED
      BY <1>0, <2>5, <3>1 DEF Standing, Sound, Gauged
  <2>11. Promise(t, c)
    BY <2>6, <2>8, <2>9 DEF Promise, Renewed, SameStand
  <2>12. g.live => Proper(s, t, c)
    <3>1. AllFit(t.drawn[c]) => Agrees(t.drawn[c])
      BY <2>5, FitsAgree DEF Gauged
    <3> QED
      BY <2>8, <3>1 DEF Proper, Renewed
  <2> QED
    BY <1>1, <2>1, <2>6, <2>10, <2>11, <2>12 DEF SameStand, t
<1>2. CASE ~g.created
  <2>1. Redone(s, c) = w
    BY <1>0, <1>2 DEF Redone
  <2>2. Fresh(s, c)
    BY <1>2 DEF Ready
  <2>3. Own(s, w, c) /\ Gauged(w, c) /\ Informed(w, c) /\ ~w.drawn[c].selected
    BY <2>2, GaugeCreates
  <2> HIDE DEF w
  <2>4. Standing(w, c)
    BY <1>0, <2>3 DEF Standing, Sound, Gauged
  <2> QED
    BY <1>2, <2>1, <2>2, <2>3, <2>4 DEF Fresh
<1> QED
  BY <1>1, <1>2

LEMMA PieRedone ==
  ASSUME NEW s, Holds(s), NEW c \in Pies, Ready(s, c)
  PROVE  LET t == Redone(s, c)
             g == s.drawn[c]
             h == t.drawn[c]
         IN /\ Own(s, t, c) /\ Standing(t, c) /\ (h.selected => g.selected)
            /\ g.created => h.live = g.live /\ h.selected = g.selected
            /\ g.created /\ g.live /\ ~g.selected => Agrees(h)
<1> DEFINE g == s.drawn[c]
           u == EasypiechartChartUpdate(s, c)
           v == EasypiechartChartCreate(s, c)
           t == LegendShowLatestValues(u, c)
           w == LegendShowLatestValues(v, c)
<1>0. c \in Drawn /\ c \notin Gauges /\ c \notin Legends
  BY OneLibrary
<1>1. CASE g.created
  <2>1. Redone(s, c) = t
    BY <1>0, <1>1 DEF Redone
  <2>2. g.data # Null /\ Blank(g, {"min", "max"})
    BY <1>1 DEF Ready, Fresh
  <2>3. /\ Own(s, u, c) /\ SameStand(g, u.drawn[c]) /\ Pied(u, c)
        /\ g.live => Fits(u.drawn[c], "value")
    BY <1>1, <2>2, PieUpdates
  <2> HIDE DEF u
  <2>4. Holds(u)
    BY <2>3 DEF Own, Keeps
  <2>5. /\ Own(u, t, c) /\ SameStand(u.drawn[c], t.drawn[c]) /\ Pied(t, c)
        /\ u.drawn[c].live /\ ~u.drawn[c].selected /\ Fits(u.drawn[c], "value")
             => Agrees(t.drawn[c])
    BY <2>3, <2>4, PieLatest
  <2> HIDE DEF t
  <2>6. Own(s, t, c)
    BY <2>3, <2>5, OwnTwice
  <2>7. SameStand(g, t.drawn[c])
    BY <2>3, <2>5 DEF SameStand
  <2>8. Standing(t, c)
    BY <1>0, <2>5 DEF Standing, Sound, Pied
  <2>9. g.live /\ ~g.selected => Agrees(t.drawn[c])
    BY <2>3, <2>5 DEF SameStand
  <2> QED
    BY <2>1, <2>6, <2>7, <2>8, <2>9 DEF SameStand
<1>2. CASE ~g.created
  <2>1. Redone(s, c) = w
    BY <1>0, <1>2 DEF Redone
  <2>2. Fresh(s, c)
    BY <1>2 DEF Ready
  <2>3. Own(s, w, c) /\ Pied(w, c) /\ ~w.drawn[c].selected
    BY <2>2, PieCreates
  <2> HIDE DEF w
  <2>4. Standing(w, c)
    BY <1>0, <2>3 DEF Standing, Sound, Pied
  <2> QED
    BY <1>2, <2>1, <2>3, <2>4
<1> QED
  BY <1>1, <1>2

LEMMA LegendRedone ==
  ASSUME NEW s, Holds(s), NEW c \in Legends, Ready(s, c)
  PROVE  LET t == Redone(s, c)
             g == s.drawn[c]
             h == t.drawn[c]
         IN /\ Own(s, t, c) /\ Standing(t, c) /\ (h.selected => g.selected)
            /\ g.created => h.live = g.live /\ h.selected = g.selected
            /\ g.created /\ g.live /\ ~g.selected => Agrees(h)
<1> DEFINE g == s.drawn[c]
           u == DygraphUpdate(s, c)
           t == LegendShowLatestValues(u, c)
<1>0. c \in Drawn /\ c \notin Gauges /\ c \notin Pies
  BY OneLibrary
<1>1. Redone(s, c) = t
  BY <1>0 DEF Redone
<1>2. g.data # Null /\ Blank(g, {"value"})
  BY DEF Ready, Fresh, Blank, Spots
<1>3. /\ Own(s, u, c) /\ Lone(u, c)
      /\ u.drawn[c].live = g.live /\ u.drawn[c].selected = g.selected
  BY <1>2, DygraphUpdates
<1> HIDE DEF u
<1>4. Holds(u)
  BY <1>3 DEF Own, Keeps
<1>5. /\ Own(u, t, c) /\ SameStand(u.drawn[c], t.drawn[c]) /\ Lone(t, c)
      /\ u.drawn[c].live /\ ~u.drawn[c].selected => Agrees(t.drawn[c])
  BY <1>3, <1>4, LegendLatest
<1> HIDE DEF t
<1>6. Own(s, t, c)
  BY <1>3, <1>5, OwnTwice
<1>7. Standing(t, c)
  BY <1>0, <1>5 DEF Standing, Sound, Lone
<1>8. t.drawn[c].live = g.live /\ t.drawn[c].selected = g.selected /\ t.drawn[c].created
  BY <1>3, <1>5 DEF SameStand, Lone
<1> QED
  BY <1>1, <1>3, <1>5, <1>6, <1>7, <1>8

LEMMA SameGood ==
  ASSUME NEW s, NEW t, NEW d, t.drawn[d] = s.drawn[d],
         t.common.min.keys[d] = s.common.min.keys[d],
         t.common.max.keys[d] = s.common.max.keys[d], Good(s, d)
  PROVE  Good(t, d)
<1>1. (Knows(t, d) <=> Knows(s, d)) /\ Worth(t, d) = Worth(s, d)
  BY DEF Knows, Worth
<1>2. Standing(s, d) => Standing(t, d)
  BY <1>1 DEF Standing, Sound, Gauged, Pied, Lone, Informed
<1> QED
  BY <1>2 DEF Good

LEMMA Redoes ==
  ASSUME NEW s, Holds(s), NEW c \in Drawn, Ready(s, c)
  PROVE  LET t == Redone(s, c)
             g == s.drawn[c]
             h == t.drawn[c]
         IN /\ Own(s, t, c) /\ Standing(t, c) /\ (h.selected => g.selected)
            /\ g.created => Promise(t, c) /\ h.live = g.live /\ h.selected = g.selected
            /\ g.created /\ g.live /\ ~g.selected => Proper(s, t, c)
<1>1. CASE c \in Gauges
  BY <1>1, GaugeRedone
<1>2. CASE c \in Pies
  BY <1>2, PieRedone, OneLibrary DEF Promise, Proper
<1>3. CASE c \in Legends
  BY <1>3, LegendRedone, OneLibrary DEF Promise, Proper
<1> QED
  BY <1>1, <1>2, <1>3 DEF Drawn

LEMMA UpdateShows ==
  ASSUME NEW s, Holds(s), NEW c \in Drawn, Ready(s, c), \A d \in Drawn : d # c => Good(s, d)
  PROVE  LET t == UpdateOf(s, c)
             g == s.drawn[c]
         IN /\ Keeps(s, t) /\ \A d \in Drawn : Good(t, d)
            /\ g.created /\ g.live => Agrees(t.drawn[c]) \/ (~g.selected /\ Proper(s, t, c))
<1> DEFINE g == s.drawn[c]
           u == Redone(s, c)
           t == UpdateOf(s, c)
           v == StopSelection(u)
<1>1. t = IF u.drawn[c].selected THEN v ELSE u
  BY DEF UpdateOf, Redone
<1>2. /\ Own(s, u, c) /\ Standing(u, c) /\ (u.drawn[c].selected => g.selected)
      /\ g.created => Promise(u, c) /\ u.drawn[c].live = g.live /\ u.drawn[c].selected = g.selected
      /\ g.created /\ g.live /\ ~g.selected => Proper(s, u, c)
  BY Redoes
<1> HIDE DEF u, t
<1>3. Keeps(s, u) /\ Holds(u)
  BY <1>2 DEF Own, Keeps
<1>4. \A d \in Drawn : Good(u, d)
  <2>1. ASSUME NEW d \in Drawn, d # c PROVE Good(u, d)
    BY <1>2, <2>1, AloneSame
  <2>2. Good(u, c)
    BY <1>2 DEF Good, Standing
  <2> QED
    BY <2>1, <2>2
<1>5. CASE ~u.drawn[c].selected
  <2>1. t = u
    BY <1>1, <1>5
  <2> QED
    BY <1>2, <1>3, <1>4, <1>5, <2>1 DEF t
<1>6. CASE u.drawn[c].selected
  <2>1. t = v
    BY <1>1, <1>6
  <2>2. g.created
    BY <1>2, <1>6 DEF Ready, Fresh
  <2>3. Through(u, v) /\ (u.drawn[c].live /\ u.drawn[c].selected => Agrees(v.drawn[c]))
    BY <1>2, <1>3, <1>4, <2>2, StopSelectionShows
  <2> HIDE DEF v
  <2>4. Keeps(s, v)
    BY <1>3, <2>3, KeepsTwice DEF Through
  <2>5. g.live => Agrees(v.drawn[c])
    BY <1>2, <1>6, <2>2, <2>3
  <2> QED
    BY <2>1, <2>3, <2>4, <2>5 DEF t, Through
<1> QED
  BY <1>5, <1>6

(* Charts that differ in one thing.                                        *)
ButFor(f, g, h) == \A x \in DOMAIN NewDrawn : x # f => h[x] = g[x]

LEMMA NewFields ==
  /\ DOMAIN NewDrawn = {"data", "created", "live", "selected", "shares", "divider", "set",
                        "decimals", "unit", "old", "label", "needle", "timer", "event"}
  /\ NewDrawn.data = Null /\ ~NewDrawn.created /\ NewDrawn.live /\ ~NewDrawn.selected
  /\ NewDrawn.old = Nulls /\ NewDrawn.decimals = Null
  /\ DOMAIN NewDrawn.label = Spots /\ \A p \in Spots : NewDrawn.label[p] = Dash
  BY DEF NewDrawn, Nulls

LEMMA ReadyAnew ==
  ASSUME NEW s, NEW t, NEW c \in Drawn, Good(s, c), t.drawn[c].data # Null,
         ButFor("data", s.drawn[c], t.drawn[c])
  PROVE  Ready(t, c)
<1> DEFINE g == s.drawn[c]
           h == t.drawn[c]
<1>1. /\ h.created = g.created /\ h.live = g.live /\ h.selected = g.selected
      /\ h.old = g.old /\ h.label = g.label /\ h.divider = g.divider /\ h.unit = g.unit
      /\ h.decimals = g.decimals
  BY NewFields DEF ButFor
<1>2. CASE g.created
  <2>1. Standing(s, c)
    BY <1>2 DEF Good
  <2>2. c \in Gauges => Even(h) /\ Lowered(h)
    BY <1>1, <2>1 DEF Standing, Sound, Gauged, Even, Lowered, Level, Fits
  <2>3. /\ c \in Pies => Blank(h, {"min", "max"})
        /\ c \in Legends => Blank(h, {"value"})
    BY <1>1, <2>1 DEF Standing, Sound, Pied, Lone, Blank
  <2> QED
    BY <1>1, <1>2, <2>2, <2>3 DEF Ready
<1>3. CASE ~g.created
  <2>1. g = NewDrawn
    BY <1>3 DEF Good
  <2>2. Fresh(t, c)
    BY <1>1, <2>1, NewFields DEF Fresh, Unmade, Blank
  <2> QED
    BY <2>2 DEF Ready
<1> QED
  BY <1>2, <1>3

LEMMA ReadyLive ==
  ASSUME NEW s, NEW t, NEW c \in Drawn, Good(s, c), s.drawn[c].data # Null,
         ButFor("live", s.drawn[c], t.drawn[c])
  PROVE  Ready(t, c)
<1> DEFINE g == s.drawn[c]
           h == t.drawn[c]
<1>1. /\ h.created = g.created /\ h.data = g.data
      /\ h.old = g.old /\ h.label = g.label /\ h.divider = g.divider /\ h.unit = g.unit
  BY NewFields DEF ButFor
<1>2. g.created /\ Standing(s, c)
  BY NewFields DEF Good
<1>3. c \in Gauges => Even(h) /\ Lowered(h)
  BY <1>1, <1>2 DEF Standing, Sound, Gauged, Even, Lowered, Level, Fits
<1>4. /\ c \in Pies => Blank(h, {"min", "max"})
      /\ c \in Legends => Blank(h, {"value"})
  BY <1>1, <1>2 DEF Standing, Sound, Pied, Lone, Blank
<1> QED
  BY <1>1, <1>2, <1>3, <1>4 DEF Ready

(* All that the charts do keeps their units.                               *)
ShowsRight == \A c \in Drawn : Good(Scales, c)
DataInUnits ==
    \A c \in Drawn : drawn[c].created /\ drawn[c].live /\ drawn'[c].data # drawn[c].data
        => LabelsAgree(c)' \/ OnlyTheGreatest(c)

LEMMA InitShows == ScalesInit => ShowsRight
<1> SUFFICES ASSUME ScalesInit, NEW c \in Drawn PROVE Good(Scales, c)
  BY DEF ShowsRight
<1>1. Scales.drawn[c] = NewDrawn
  BY DEF ScalesInit, Scales
<1> QED
  BY <1>1, NewFields DEF Good

LEMMA BecomesShown ==
  ASSUME NEW t, \A d \in Drawn : Good(t, d), ScalesBecome(t)
  PROVE  ShowsRight'
<1>1. common' = t.common /\ drawn' = t.drawn
  BY DEF ScalesBecome
<1>2. Scales' = [common |-> t.common, drawn |-> t.drawn]
  BY <1>1 DEF Scales
<1>3. ASSUME NEW d \in Drawn PROVE Good(Scales', d)
  <2> DEFINE u == [common |-> t.common, drawn |-> t.drawn]
  <2>1. u.common = t.common /\ u.drawn = t.drawn
    OBVIOUS
  <2> HIDE DEF u
  <2>2. Good(u, d)
    BY <2>1, SameGood
  <2> QED
    BY <1>2, <2>2 DEF u
<1> QED
  BY <1>3 DEF ShowsRight

(* A step that leaves the data alone.                                      *)
LEMMA BecomesQuietly ==
  ASSUME NEW s, NEW t, Keeps(s, t), \A d \in Drawn : s.drawn[d].data = drawn[d].data,
         \A d \in Drawn : Good(t, d), ScalesBecome(t)
  PROVE  ShowsRight' /\ DataInUnits
<1>1. \A d \in Drawn : drawn'[d].data = drawn[d].data
  BY DEF ScalesBecome, Keeps
<1> QED
  BY <1>1, BecomesShown DEF DataInUnits

LEMMA OneBecomes ==
  ASSUME NEW s, NEW t, NEW c \in Drawn, Own(s, t, c), \A d \in Drawn : Good(s, d), Good(t, c)
  PROVE  \A d \in Drawn : Good(t, d)
<1>1. ASSUME NEW d \in Drawn, d # c PROVE Good(t, d)
  BY <1>1, AloneSame
<1> QED
  BY <1>1

LEMMA DataShow ==
  ASSUME ScaleRight, ShowsRight, NEW c \in Drawn, NEW value \in Values, NEW max \in Values,
         DataArrives(c, value, max)
  PROVE  ShowsRight' /\ DataInUnits
<1> DEFINE e == [value |-> value, min |-> 0, max |-> max]
           s == [Scales EXCEPT !.drawn[c].data = <<e>>]
           t == UpdateOf(s, c)
           g == drawn[c]
<1>0. Holds(Scales) /\ Shape(Scales) /\ Scales.drawn = drawn
  BY DEF ScaleRight, Holds, Scales
<1>1. ScalesBecome(t)
  BY DEF DataArrives
<1>2. e \in DataOf /\ <<e>> # Null
  BY ScalesAssumption DEF DataOf, Null
<1> HIDE DEF e
<1>3. /\ Shape(s) /\ s.common = Scales.common /\ s.drawn[c].data = <<e>>
      /\ \A d \in Drawn : d # c => s.drawn[d] = drawn[d]
      /\ ButFor("data", g, s.drawn[c])
  BY <1>0 DEF Shape, NewDrawn, ButFor
<1> HIDE DEF s
<1>4. Holds(s)
  BY <1>0, <1>2, <1>3 DEF Holds
<1>5. \A d \in Drawn : d # c => Good(s, d)
  <2>1. ASSUME NEW d \in Drawn, d # c PROVE Good(s, d)
    <3>1. Good(Scales, d) /\ s.drawn[d] = Scales.drawn[d]
      BY <1>0, <1>3, <2>1 DEF ShowsRight
    <3> QED
      BY <1>3, <3>1, SameGood
  <2> QED
    BY <2>1
<1>6. Ready(s, c)
  BY <1>0, <1>2, <1>3, ReadyAnew DEF ShowsRight
<1>7. /\ Keeps(s, t) /\ \A d \in Drawn : Good(t, d)
      /\ s.drawn[c].created /\ s.drawn[c].live =>
           Agrees(t.drawn[c]) \/ (~s.drawn[c].selected /\ Proper(s, t, c))
  BY <1>4, <1>5, <1>6, UpdateShows
<1> HIDE DEF t
<1>8. ShowsRight'
  BY <1>1, <1>7, BecomesShown
<1>9. ASSUME NEW d \in Drawn, drawn[d].created, drawn[d].live,
             drawn'[d].data # drawn[d].data
      PROVE  LabelsAgree(d)' \/ OnlyTheGreatest(d)
  <2>1. drawn' = t.drawn
    BY <1>1 DEF ScalesBecome
  <2>2. d = c
    BY <1>3, <1>7, <1>9, <2>1 DEF Keeps
  <2>3. /\ s.drawn[c].created = g.created /\ s.drawn[c].live = g.live /\ s.drawn[c].old = g.old
        /\ s.drawn[c].selected = g.selected /\ s.drawn[c].set = g.set
    BY <1>3, NewFields DEF ButFor
  <2>4. CASE Agrees(t.drawn[c])
    BY <2>1, <2>2, <2>4 DEF Agrees, LabelsAgree
  <2>5. CASE ~s.drawn[c].selected /\ Proper(s, t, c) /\ ~Agrees(t.drawn[c])
    <3>1. /\ c \in Gauges /\ t.drawn[c].set = g.set /\ g.old["value"] = Worth(s, c)
      BY <2>3, <2>5 DEF Proper
    <3>2. Good(Scales, c)
      BY DEF ShowsRight
    <3>3. Informed(Scales, c)
      BY <1>0, <1>9, <2>2, <3>1, <3>2 DEF Good, Standing
    <3>4. g.old["value"] \in {Null, Worth(Scales, c)}
      BY <1>0, <1>9, <2>2, <2>3, <2>5, <3>3 DEF Informed
    <3>5. Worth(s, c) # Null /\ Worth(s, c) = <<e.value>> /\ Worth(Scales, c) = <<g.data[1].value>>
      BY <1>0, <1>3 DEF Worth, Null
    <3>6. e.value = g.data[1].value
      BY <3>1, <3>4, <3>5
    <3>7. t.drawn[c].data = <<e>>
      BY <1>3, <1>7 DEF Keeps
    <3>8. t.drawn[c].data[1].value = g.data[1].value
      BY <3>6, <3>7
    <3> QED
      BY <2>1, <2>2, <3>1, <3>8 DEF OnlyTheGreatest
  <2> QED
    BY <1>7, <1>9, <2>2, <2>3, <2>4, <2>5
<1> QED
  BY <1>8, <1>9 DEF DataInUnits

LEMMA PansShow ==
  ASSUME ScaleRight, ShowsRight, NEW c \in Drawn, NEW live \in BOOLEAN, PanOrReset(c, live)
  PROVE  ShowsRight' /\ DataInUnits
<1> DEFINE s == [Scales EXCEPT !.drawn[c].live = live]
           t == UpdateOf(s, c)
<1>0. Holds(Scales) /\ Shape(Scales) /\ Scales.drawn = drawn
  BY DEF ScaleRight, Holds, Scales
<1>1. ScalesBecome(t) /\ drawn[c].data # Null
  BY DEF PanOrReset
<1>2. /\ s.common = Scales.common /\ \A d \in Drawn : d # c => s.drawn[d] = drawn[d]
      /\ ButFor("live", drawn[c], s.drawn[c])
  BY <1>0 DEF Shape, NewDrawn, ButFor
<1>3. Keeps(Scales, s)
  BY <1>0, Sets
<1> HIDE DEF s
<1>4. Holds(s)
  BY <1>3 DEF Keeps
<1>5. \A d \in Drawn : d # c => Good(s, d)
  <2>1. ASSUME NEW d \in Drawn, d # c PROVE Good(s, d)
    <3>1. Good(Scales, d) /\ s.drawn[d] = Scales.drawn[d]
      BY <1>0, <1>2, <2>1 DEF ShowsRight
    <3> QED
      BY <1>2, <3>1, SameGood
  <2> QED
    BY <2>1
<1>6. Ready(s, c)
  BY <1>0, <1>1, <1>2, ReadyLive DEF ShowsRight
<1>7. Keeps(s, t) /\ \A d \in Drawn : Good(t, d)
  BY <1>4, <1>5, <1>6, UpdateShows
<1>8. \A d \in Drawn : s.drawn[d].data = drawn[d].data
  BY <1>0, <1>3 DEF Keeps
<1> HIDE DEF t
<1> QED
  BY <1>1, <1>7, <1>8, BecomesQuietly

LEMMA SelectionsShow ==
  ASSUME ScaleRight, ShowsRight, NEW c \in Drawn, NEW value, SelectValue(c, value)
  PROVE  ShowsRight' /\ DataInUnits
<1> DEFINE s == [Scales EXCEPT !.drawn[c].selected = TRUE]
           t == CASE c \in Gauges -> GaugeSetSelection(s, c, value)
                  [] c \in Pies -> EasypiechartSetSelection(s, c, value)
                  [] OTHER -> LegendSetSelection(s, c, value)
           g == drawn[c]
<1>0. Holds(Scales) /\ Shape(Scales) /\ Scales.drawn = drawn
  BY DEF ScaleRight, Holds, Scales
<1>1. ScalesBecome(t) /\ g.data # Null
  BY DEF SelectValue
<1>2. /\ Own(Scales, s, c) /\ Holds(s) /\ s.common = Scales.common /\ s.drawn[c].selected
      /\ \A f \in DOMAIN NewDrawn : f # "selected" => s.drawn[c][f] = g[f]
      /\ Knows(s, c) <=> Knows(Scales, c)
  <2> HIDE DEF t
  <2>1. /\ Own(Scales, s, c) /\ Holds(s) /\ s.common = Scales.common /\ s.drawn[c].selected
        /\ \A f \in DOMAIN NewDrawn : f # "selected" => s.drawn[c][f] = Scales.drawn[c][f]
        /\ Knows(s, c) <=> Knows(Scales, c)
    BY <1>0, Selects
  <2> QED
    BY <1>0, <2>1
<1>3. /\ c \in Gauges => t = GaugeSetSelection(s, c, value)
      /\ c \in Pies => t = EasypiechartSetSelection(s, c, value)
      /\ c \in Legends => t = LegendSetSelection(s, c, value)
  BY OneLibrary
<1> HIDE DEF s, t
<1>4. Standing(Scales, c)
  <2>1. Good(Scales, c) /\ Scales.drawn[c].data # Null
    BY <1>0, <1>1 DEF ShowsRight
  <2> QED
    BY <2>1, NewFields DEF Good
<1>5. /\ s.drawn[c].created = g.created /\ s.drawn[c].data = g.data /\ s.drawn[c].live = g.live
      /\ s.drawn[c].old = g.old /\ s.drawn[c].label = g.label
      /\ s.drawn[c].divider = g.divider /\ s.drawn[c].unit = g.unit
  BY <1>2, NewFields
<1>6. /\ c \in Gauges => Gauged(s, c)
      /\ c \in Pies => Pied(s, c)
      /\ c \in Legends => Lone(s, c)
  BY <1>0, <1>2, <1>4, <1>5
     DEF Standing, Sound, Gauged, Pied, Lone, Even, Lowered, Level, Fits, Blank
<1>7. Good(s, c)
  BY <1>2, <1>6 DEF Good, Standing, Sound, Informed, Gauged, Pied, Lone, Drawn
<1>8. Own(s, t, c) /\ Good(t, c)
  <2>1. CASE c \in Gauges
    <3>1. Own(s, t, c) /\ SameStand(s.drawn[c], t.drawn[c]) /\ Gauged(t, c)
      BY <1>2, <1>3, <1>6, <2>1, GaugeSelects
    <3>2. Standing(t, c)
      BY <1>2, <2>1, <3>1, OneLibrary DEF SameStand, Standing, Sound, Gauged, Informed
    <3> QED
      BY <3>1, <3>2 DEF Good, Standing
  <2>2. CASE c \in Pies
    <3>1. Own(s, t, c) /\ Pied(t, c)
      BY <1>2, <1>3, <1>6, <2>2, PieSelects
    <3>2. Standing(t, c)
      BY <2>2, <3>1, OneLibrary DEF Standing, Sound, Pied
    <3> QED
      BY <3>1, <3>2 DEF Good, Standing
  <2>3. CASE c \in Legends
    <3>1. Own(s, t, c) /\ Lone(t, c)
      BY <1>2, <1>3, <1>6, <2>3, LegendSelects
    <3>2. Standing(t, c)
      BY <2>3, <3>1, OneLibrary DEF Standing, Sound, Lone
    <3> QED
      BY <3>1, <3>2 DEF Good, Standing
  <2> QED
    BY <2>1, <2>2, <2>3 DEF Drawn
<1>9. \A d \in Drawn : Good(t, d)
  <2>1. \A d \in Drawn : Good(Scales, d)
    BY DEF ShowsRight
  <2>2. \A d \in Drawn : Good(s, d)
    BY <1>2, <1>7, <2>1, OneBecomes
  <2> QED
    BY <1>8, <2>2, OneBecomes
<1>10. Keeps(s, t) /\ \A d \in Drawn : s.drawn[d].data = drawn[d].data
  BY <1>0, <1>2, <1>8 DEF Own, Keeps
<1> QED
  BY <1>1, <1>9, <1>10, BecomesQuietly

LEMMA DeselectionsShow ==
  ASSUME ScaleRight, ShowsRight, NEW c \in Drawn, Deselect(c)
  PROVE  ShowsRight' /\ DataInUnits
<1> DEFINE t == ClearSelection(Scales, c)
<1>0. Holds(Scales) /\ Scales.drawn = drawn
  BY DEF ScaleRight, Scales
<1>1. ScalesBecome(t) /\ drawn[c].selected
  BY DEF Deselect
<1>2. \A d \in Drawn : Good(Scales, d)
  BY DEF ShowsRight
<1>3. Standing(Scales, c)
  <2>1. Good(Scales, c) /\ Scales.drawn[c].selected
    BY <1>0, <1>1, <1>2
  <2> QED
    BY <2>1, NewFields DEF Good
<1>4. Own(Scales, t, c) /\ Standing(t, c)
  BY <1>0, <1>3, Cleared
<1> HIDE DEF t
<1>5. \A d \in Drawn : Good(t, d)
  <2>1. Good(t, c)
    BY <1>4 DEF Good, Standing
  <2> QED
    BY <1>2, <1>4, <2>1, OneBecomes
<1>6. Keeps(Scales, t) /\ \A d \in Drawn : Scales.drawn[d].data = drawn[d].data
  BY <1>0, <1>4 DEF Own
<1> QED
  BY <1>1, <1>5, <1>6, BecomesQuietly

LEMMA PlainStands ==
  ASSUME NEW s, NEW t, NEW c \in Drawn, Plain(s, t, c), Standing(s, c)
  PROVE  Standing(t, c)
<1> DEFINE g == s.drawn[c]
           h == t.drawn[c]
<1>1. /\ SameStand(g, h) /\ t.common = s.common /\ h.data = g.data
      /\ h.old = g.old /\ h.label = g.label /\ h.divider = g.divider /\ h.unit = g.unit
  BY PlainTells
<1>2. (Knows(t, c) <=> Knows(s, c)) /\ Worth(t, c) = Worth(s, c)
  BY <1>1 DEF Knows, Worth
<1>3. /\ c \in Gauges => Gauged(t, c) /\ Informed(t, c)
      /\ c \in Pies => Pied(t, c)
      /\ c \in Legends => Lone(t, c)
  BY <1>1, <1>2 DEF Standing, Sound, Gauged, Pied, Lone, Informed, Even, Lowered, Level, Fits,
                    Blank, SameStand
<1> QED
  BY <1>1, <1>3 DEF Standing, Sound, SameStand

LEMMA TimersShow ==
  ASSUME ScaleRight, ShowsRight, NEW c \in Drawn, SelectionTimer(c)
  PROVE  ShowsRight' /\ DataInUnits
<1> DEFINE s == [Scales EXCEPT !.drawn[c].timer = FALSE]
           value == drawn[c].event[1].value
           max == drawn[c].event[1].max
           t == GaugeSet(s, c, value, 0, max)
           u == [s EXCEPT !.drawn[c].needle = max]
           v == IF c \in Gauges THEN t ELSE u
<1>0. Holds(Scales) /\ Scales.drawn = drawn
  BY DEF ScaleRight, Scales
<1>1. ScalesBecome(v) /\ drawn[c].timer
  BY SMTT(30) DEF SelectionTimer
<1>2. Plain(Scales, s, c)
  BY <1>0, PlainSets
<1> HIDE DEF s, value, max
<1>3. \A d \in Drawn : Good(Scales, d)
  BY DEF ShowsRight
<1>4. Standing(Scales, c)
  <2>1. Good(Scales, c) /\ Scales.drawn[c].timer
    BY <1>0, <1>1, <1>3
  <2>2. ~NewDrawn.timer
    BY DEF NewDrawn
  <2> QED
    BY <2>1, <2>2 DEF Good
<1>5. Own(Scales, s, c) /\ Holds(s) /\ Standing(s, c)
  BY <1>2, <1>4, PlainStands, PlainTells
<1>6. Own(s, v, c) /\ Standing(v, c)
  <2>1. CASE c \in Gauges
    <3>1. Own(s, t, c) /\ Gauged(t, c) /\ Informed(t, c)
      BY <1>5, <2>1, GaugeTimed DEF Standing, Sound
    <3>2. v = t
      BY <2>1
    <3> HIDE DEF t, v
    <3>3. Standing(t, c)
      BY <2>1, <3>1, OneLibrary DEF Standing, Sound, Gauged
    <3> QED
      BY <3>1, <3>2, <3>3
  <2>2. CASE c \notin Gauges
    <3>1. Plain(s, u, c)
      BY <1>5, PlainSets
    <3>2. v = u
      BY <2>2
    <3> HIDE DEF u, v
    <3>3. Own(s, u, c) /\ Standing(u, c)
      BY <1>5, <3>1, PlainStands, PlainTells
    <3> QED
      BY <3>2, <3>3, SMTT(30)
  <2> QED
    BY <2>1, <2>2
<1> HIDE DEF v
<1>7. \A d \in Drawn : Good(v, d)
  <2>1. Good(s, c) /\ Good(v, c)
    BY <1>5, <1>6 DEF Good, Standing
  <2>2. \A d \in Drawn : Good(s, d)
    BY <1>3, <1>5, <2>1, OneBecomes
  <2> QED
    BY <1>6, <2>1, <2>2, OneBecomes
<1>8. Keeps(s, v) /\ \A d \in Drawn : s.drawn[d].data = drawn[d].data
  BY <1>0, <1>5, <1>6 DEF Own, Keeps
<1> QED
  BY <1>1, <1>7, <1>8, BecomesQuietly

LEMMA ColorsShow ==
  ASSUME ScaleRight, ShowsRight, NEW label, LabelIsColored(label)
  PROVE  ShowsRight' /\ DataInUnits
<1> DEFINE t == CommonColorsGet(Scales, label)
           r == Refill(Scales)
           v == <<Head(r.common.available)>>
           u == [r EXCEPT !.common.assigned[label] = v, !.common.available = Tail(@)]
<1>0. Holds(Scales) /\ Shape(Scales) /\ Scales.drawn = drawn
  BY DEF ScaleRight, Holds, Scales
<1>1. ScalesBecome(t)
  BY DEF LabelIsColored
<1>2. t \in {r, u}
  BY DEF CommonColorsGet
<1>3. /\ r.drawn = drawn /\ DOMAIN r = DOMAIN Scales /\ DOMAIN r.common = DOMAIN NewCommon
      /\ r.common.min = Scales.common.min /\ r.common.max = Scales.common.max
  BY <1>0 DEF Refill, Shape, NewCommon
<1> HIDE DEF r, v
<1>4. u.drawn = drawn /\ u.common.min = Scales.common.min /\ u.common.max = Scales.common.max
  BY <1>0, <1>3 DEF Shape, NewCommon
<1>5. t.drawn = drawn /\ t.common.min = Scales.common.min /\ t.common.max = Scales.common.max
  BY <1>2, <1>3, <1>4
<1>6. Keeps(Scales, t)
  BY <1>0, ColorsKeep
<1> HIDE DEF t, u
<1>7. \A d \in Drawn : Good(t, d)
  <2>1. ASSUME NEW d \in Drawn PROVE Good(t, d)
    <3>1. Good(Scales, d) /\ t.drawn[d] = Scales.drawn[d]
      BY <1>0, <1>5 DEF ShowsRight
    <3> QED
      BY <1>5, <3>1, SameGood
  <2> QED
    BY <2>1
<1>8. \A d \in Drawn : Scales.drawn[d].data = drawn[d].data
  BY <1>0
<1> QED
  BY <1>1, <1>6, <1>7, <1>8, BecomesQuietly

LEMMA NextShows ==
  ASSUME ScaleRight, ShowsRight, ScalesNext
  PROVE  ShowsRight' /\ DataInUnits
<1>1. CASE \E c \in Drawn : \E value, max \in Values : DataArrives(c, value, max)
  BY <1>1, DataShow
<1>2. CASE \E c \in Drawn, live \in BOOLEAN : PanOrReset(c, live)
  BY <1>2, PansShow
<1>3. CASE \E c \in Drawn : \E value \in {Null} \cup { <<v>> : v \in Values } : SelectValue(c, value)
  BY <1>3, SelectionsShow
<1>4. CASE \E c \in Drawn : Deselect(c) \/ SelectionTimer(c)
  BY <1>4, DeselectionsShow, TimersShow
<1>5. CASE \E label \in Labels : LabelIsColored(label)
  BY <1>5, ColorsShow
<1> QED
  BY <1>1, <1>2, <1>3, <1>4, <1>5 DEF ScalesNext

(* When new data of a live chart have been drawn, all its numbers are in   *)
(* the units it shows, or it is a gauge whose value has not changed        *)
(* (unitsConversion.get(), legendSetUnitsString(), gaugeSetLabels()): what *)
(* a chart shows was made with its divider or is to be made anew, and its  *)
(* units are those of its divider when it has been drawn.                  *)
THEOREM DataShownInUnits == Spec => DataAreInTheUnits
<1> DEFINE Inv == ScaleRight /\ ShowsRight
<1>1. Init => Inv
  BY InitScale, InitShows DEF Init
<1>2. Inv /\ [Next]_dashboardVars => Inv' /\ [DataInUnits]_scalesVars
  <2>1. ASSUME Inv, UNCHANGED scalesVars
        PROVE  Inv'
    BY <2>1 DEF ScaleRight, ShowsRight, Scales, scalesVars
  <2>2. ASSUME Inv, ScalesNext
        PROVE  Inv' /\ DataInUnits
    BY <2>2, NextScale, NextShows
  <2> HIDE DEF Inv
  <2> QED
    BY <2>1, <2>2 DEF Next, dashboardVars
<1> HIDE DEF Inv
<1>3. DataAreInTheUnits <=> [][DataInUnits]_scalesVars
  BY DEF DataAreInTheUnits, DataInUnits
<1> QED
  BY <1>1, <1>2, <1>3, PTL DEF Spec

-----------------------------------------------------------------------------
(* The address bar.                                                        *)

(* The fields of a state that matter, and what has the form of an address. *)
Hash(h) ==
    DOMAIN h = {"view", "highlight", "always"} /\ (h.view = <<>> \/ h.view = <<h.view[1]>>)
Formed(s) ==
    /\ DOMAIN s = {"page", "pausing", "dialogs", "dropdown", "view", "address", "settings",
                   "import", "export"}
    /\ DOMAIN s.page = {"phase", "snapshot", "xss", "showAlarms", "print", "left", "ready"}
    /\ DOMAIN s.pausing = {"paused", "callback"}
    /\ DOMAIN s.view = {"master", "highlight", "at", "panTold", "underlayTold"}
    /\ DOMAIN s.address = {"memory", "bar"}
    /\ Hash(s.address.memory) /\ Hash(s.address.bar)

(* A snapshot, which keeps out of the address until the page is loaded     *)
(* anew; a page on view, whose frame, and then whose highlight, the        *)
(* address tells; and one that comes up or is printed, before anybody is   *)
(* told.                                                                   *)
Snapped(s) == Formed(s) /\ s.page.snapshot
FrameTold(s) ==
    /\ Formed(s) /\ s.page.phase = "live" /\ s.pausing.callback # "init"
    /\ s.view.panTold /\ s.view.underlayTold /\ s.address.bar = s.address.memory
    /\ s.view.master # <<>> => s.address.memory.view = s.view.master
HighlightTold(s) == s.address.memory.highlight = s.view.highlight
Tells(s) == FrameTold(s) /\ HighlightTold(s)
Loading == {"pausing", "asking", "downloading", "decorating"}
Coming(s) ==
    /\ Formed(s) /\ s.page.phase # "live" /\ ~s.page.ready
    /\ ~s.view.panTold /\ ~s.view.underlayTold /\ s.address.bar = s.address.memory
    /\ s.page.phase \in Loading => s.view.master = <<>>
    /\ s.page.phase # "pausing" => s.pausing.paused
    /\ ~s.dropdown /\ s.dialogs.shown = {} /\ s.dialogs.fading = {} /\ s.export.runs = <<>>
Settled(s) == Snapped(s) \/ Tells(s)

(* What leaves the frame, the highlight and the address alone.             *)
Aside(s, t) ==
    /\ DOMAIN t = DOMAIN s /\ t.page = s.page /\ t.view = s.view /\ t.address = s.address
    /\ DOMAIN t.pausing = DOMAIN s.pausing
    /\ t.pausing.callback = "init" => s.pausing.callback = "init"

LEMMA AsideSettled ==
  ASSUME NEW s, NEW t, Aside(s, t), Settled(s)
  PROVE  Settled(t)
  BY DEF Aside, Settled, Snapped, Tells, FrameTold, HighlightTold, Formed

LEMMA SettledIsFormed ==
  ASSUME NEW s, Settled(s)
  PROVE  Formed(s)
  BY SMTT(30) DEF Settled, Snapped, Tells, FrameTold

(* The frame moves.                                                        *)
LEMMA SetMasterTells ==
  ASSUME NEW s, Formed(s), NEW span
  PROVE  LET t == SetMaster(s, span) IN
         /\ Formed(t) /\ t.page = s.page
         /\ t.view.highlight = s.view.highlight
         /\ t.address.memory.highlight = s.address.memory.highlight
         /\ ~s.page.snapshot /\ FrameTold(s) => FrameTold(t)
  BY DEF SetMaster, NetdataPanAndZoomCallback, HashUpdate, GenHash, Formed, Hash, FrameTold

LEMMA ClearMasterTells ==
  ASSUME NEW s, Formed(s)
  PROVE  LET t == ClearMaster(s) IN
         /\ Formed(t) /\ t.page = s.page
         /\ t.view.highlight = s.view.highlight
         /\ t.address.memory.highlight = s.address.memory.highlight
         /\ ~s.page.snapshot /\ FrameTold(s) => FrameTold(t)
  BY DEF ClearMaster, NetdataPanAndZoomCallback, HashUpdate, GenHash, Formed, Hash, FrameTold

LEMMA SetupUnderlayTells ==
  ASSUME NEW s, Formed(s)
  PROVE  LET t == SetupUnderlay(s) IN
         /\ Formed(t) /\ t.page = s.page
         /\ ~s.page.snapshot /\ FrameTold(s) => Tells(t)
  BY DEF SetupUnderlay, NetdataHighlightCallback, HashUpdate, GenHash, Formed, Hash, FrameTold,
         HighlightTold, Tells

LEMMA MasterSettled ==
  ASSUME NEW s, Settled(s), NEW span
  PROVE  Settled(SetMaster(s, span)) /\ Settled(ClearMaster(s))
<1>1. Formed(s)
  BY SettledIsFormed
<1> DEFINE t == SetMaster(s, span)
           u == ClearMaster(s)
<1>2. /\ Formed(t) /\ t.page = s.page
      /\ t.view.highlight = s.view.highlight
      /\ t.address.memory.highlight = s.address.memory.highlight
      /\ ~s.page.snapshot /\ FrameTold(s) => FrameTold(t)
  BY <1>1, SetMasterTells
<1>3. /\ Formed(u) /\ u.page = s.page
      /\ u.view.highlight = s.view.highlight
      /\ u.address.memory.highlight = s.address.memory.highlight
      /\ ~s.page.snapshot /\ FrameTold(s) => FrameTold(u)
  BY <1>1, ClearMasterTells
<1> HIDE DEF t, u
<1>4. Settled(t) /\ Settled(u)
  BY <1>2, <1>3 DEF Settled, Snapped, Tells, HighlightTold
<1> QED
  BY <1>4 DEF t, u

(* Nearly settled, but for the highlight.                                  *)
LEMMA UnderlaySettled ==
  ASSUME NEW s, Snapped(s) \/ FrameTold(s)
  PROVE  Settled(SetupUnderlay(s))
<1>1. Formed(s)
  BY DEF Snapped, FrameTold
<1> DEFINE t == SetupUnderlay(s)
<1>2. Formed(t) /\ t.page = s.page /\ (~s.page.snapshot /\ FrameTold(s) => Tells(t))
  BY <1>1, SetupUnderlayTells
<1> HIDE DEF t
<1>3. Settled(t)
  BY <1>2 DEF Settled, Snapped
<1> QED
  BY <1>3 DEF t

(* Pauses and dialogs.                                                     *)
LEMMA PausesAside ==
  ASSUME NEW s, Formed(s)
  PROVE  Aside(s, Pause(s, "noop")) /\ Aside(s, Unpause(s))
  BY DEF Pause, Unpause, Aside, Formed

LEMMA AsideTwice ==
  ASSUME NEW s, NEW t, NEW u, Aside(s, t), Aside(t, u)
  PROVE  Aside(s, u)
  BY DEF Aside

LEMMA AsideFormed ==
  ASSUME NEW s, NEW t, Formed(s), Aside(s, t)
  PROVE  Formed(t)
  BY DEF Aside, Formed

LEMMA DialogsAside ==
  ASSUME NEW s, Formed(s), NEW d
  PROVE  Aside(s, ShowDialog(s, d)) /\ Aside(s, HideDialog(s, d))
<1> DEFINE t == Pause(s, "noop")
           ours == s.pausing.callback = "null"
           v == IF s.dialogs.depth > 0 THEN s
                ELSE [(IF ours THEN t ELSE s) EXCEPT !.dialogs.ours = ours]
           h == [s EXCEPT !.dialogs.depth = IF @ = 0 THEN 0 ELSE @ - 1]
           g == Unpause(h)
<1>1. Aside(s, t)
  BY PausesAside
<1>2. Shown(s) = [v EXCEPT !.dialogs.depth = @ + 1]
  BY DEF Shown
<1> HIDE DEF t, ours
<1>3. Aside(s, v)
  BY <1>1 DEF Aside, Formed
<1> HIDE DEF v
<1>4. Aside(s, Shown(s))
  BY <1>2, <1>3 DEF Aside, Formed
<1>5. Hidden(s) \in {h, [g EXCEPT !.dialogs.ours = FALSE]}
  BY DEF Hidden
<1>6. Aside(s, h)
  BY DEF Aside, Formed
<1> HIDE DEF h
<1>7. Aside(h, g)
  BY <1>6, PausesAside, AsideFormed
<1> HIDE DEF g
<1>8. Aside(s, Hidden(s))
  BY <1>5, <1>6, <1>7 DEF Aside, Formed
<1>9. Aside(Shown(s), ShowDialog(s, d))
  BY <1>4 DEF Aside, Formed, ShowDialog
<1>10. Aside(Hidden(s), HideDialog(s, d))
  BY <1>8 DEF Aside, Formed, HideDialog
<1> QED
  BY <1>4, <1>8, <1>9, <1>10, AsideTwice

(* The page comes up.                                                      *)
LEMMA SnapshotComesUp ==
  ASSUME NEW s, Snapped(s)
  PROVE  Snapped(WithData(s)) /\ Snapped(InitializeCharts(s))
<1> DEFINE r == RenderPage(s)
           m == SetMaster(r, s.import.span)
<1>1. ASSUME NEW t, Formed(t), t.page = s.page, NEW u, Formed(u), u.page.snapshot = t.page.snapshot
      PROVE  Snapped(u)
  BY <1>1 DEF Snapped
<1>2. Formed(s)
  BY DEF Snapped
<1>3. Snapped(r)
  <2> DEFINE t == [s EXCEPT !.view.highlight = s.address.memory.highlight,
                            !.view.at = s.address.memory.view]
             c == [s EXCEPT !.view.highlight = <<>>, !.view.at = <<>>]
  <2>1. r \in {t, SetupUnderlay(c)}
    BY DEF RenderPage, ClearUnderlay
  <2>2. Formed(t) /\ t.page = s.page /\ Formed(c) /\ c.page = s.page
    BY <1>2 DEF Formed
  <2> HIDE DEF t, c, r
  <2>3. Formed(SetupUnderlay(c)) /\ SetupUnderlay(c).page = c.page
    BY <2>2, SetupUnderlayTells
  <2> QED
    BY <2>1, <2>2, <2>3 DEF Snapped
<1> HIDE DEF r
<1>4. ASSUME NEW t, Snapped(t)
      PROVE  Snapped(FinalizePage(t)) /\ Snapped(PrintPage(t))
  <2> DEFINE u == SetupUnderlay(t)
             silent == [u EXCEPT !.view.panTold = FALSE, !.view.underlayTold = FALSE]
             v == SetMaster(silent, t.address.memory.view[1])
             framed == IF t.address.memory.view # <<>> THEN v ELSE silent
             w == [framed EXCEPT !.view.panTold = TRUE, !.view.underlayTold = TRUE,
                                 !.page.phase = "live", !.page.ready = TRUE]
             told == Unpause(w)
             x == [u EXCEPT !.page.phase = "printing", !.page.left = Charts,
                            !.settings.now.stop_updates = FALSE]
             span == IF t.address.memory.view # <<>> THEN t.address.memory.view[1] ELSE LastSpan
  <2>0. Formed(t) /\ t.page.snapshot
    BY <1>4 DEF Snapped
  <2>1. FinalizePage(t) \in {SetMaster(told, t.import.span), told}
    BY DEF FinalizePage
  <2>2. PrintPage(t) = SetMaster(x, span)
    BY DEF PrintPage
  <2>3. Formed(u) /\ u.page.snapshot
    BY <2>0, SetupUnderlayTells
  <2> HIDE DEF u
  <2>4. Formed(silent) /\ silent.page.snapshot /\ Formed(x) /\ x.page.snapshot
    BY <2>3 DEF Formed
  <2> HIDE DEF silent, x
  <2>5. Formed(framed) /\ framed.page.snapshot
    BY <2>4, SetMasterTells
  <2> HIDE DEF framed, v, span
  <2>6. Formed(w) /\ w.page.snapshot
    BY <2>5 DEF Formed
  <2> HIDE DEF w
  <2>7. Formed(told) /\ told.page.snapshot
    BY <2>6, PausesAside, AsideFormed DEF Aside
  <2> HIDE DEF told
  <2>8. /\ Formed(SetMaster(told, t.import.span))
        /\ SetMaster(told, t.import.span).page = told.page
        /\ Formed(SetMaster(x, span)) /\ SetMaster(x, span).page = x.page
    BY <2>4, <2>7, SetMasterTells
  <2> QED
    BY <2>1, <2>2, <2>4, <2>7, <2>8 DEF Snapped
<1>5. WithData(s) \in {FinalizePage(r), PrintPage(r)}
  BY DEF WithData, r
<1>6. Snapped(WithData(s))
  BY <1>3, <1>4, <1>5
<1> QED
  BY <1>6 DEF InitializeCharts, Snapped

LEMMA RenderComing ==
  ASSUME NEW s, Coming(s)
  PROVE  LET r == RenderPage(s) IN
         /\ Coming(r) /\ HighlightTold(r) /\ r.page = s.page /\ r.pausing = s.pausing
<1> DEFINE t == [s EXCEPT !.view.highlight = s.address.memory.highlight,
                          !.view.at = s.address.memory.view]
           c == [s EXCEPT !.view.highlight = <<>>, !.view.at = <<>>]
<1>1. SetupUnderlay(c) = c
  BY DEF Coming, Formed, SetupUnderlay
<1>2. CASE s.address.memory.highlight # <<>>
  <2>1. RenderPage(s) = t
    BY <1>2 DEF RenderPage
  <2>2. Coming(t) /\ HighlightTold(t) /\ t.page = s.page /\ t.pausing = s.pausing
    BY DEF Coming, Formed, HighlightTold
  <2> QED
    BY <2>1, <2>2
<1>3. CASE s.address.memory.highlight = <<>>
  <2>1. RenderPage(s) = c
    BY <1>1, <1>3 DEF RenderPage, ClearUnderlay
  <2>2. Coming(c) /\ HighlightTold(c) /\ c.page = s.page /\ c.pausing = s.pausing
    BY <1>3 DEF Coming, Formed, HighlightTold
  <2> QED
    BY <2>1, <2>2
<1> QED
  BY <1>2, <1>3

LEMMA PageComes ==
  ASSUME NEW s, Coming(s), s.page.phase \in Loading, s.pausing.paused
  PROVE  LET t == WithData(s) IN Settled(t) \/ Coming(t)
<1> DEFINE r == RenderPage(s)
<1>1. Coming(r) /\ HighlightTold(r) /\ r.page = s.page /\ r.pausing = s.pausing
  BY RenderComing
<1>2. WithData(s) \in {FinalizePage(r), PrintPage(r)}
  BY DEF WithData
<1> HIDE DEF r
<1>3. SetupUnderlay(r) = r
  BY <1>1 DEF Coming, SetupUnderlay
<1>4. Coming(PrintPage(r))
  <2> DEFINE x == [r EXCEPT !.page.phase = "printing", !.page.left = Charts,
                            !.settings.now.stop_updates = FALSE]
             span == IF r.address.memory.view # <<>> THEN r.address.memory.view[1] ELSE LastSpan
             y == [x EXCEPT !.view.master = <<span>>]
  <2>1. PrintPage(r) = SetMaster(x, span)
    BY <1>3 DEF PrintPage
  <2>2. Coming(x) /\ x.page.phase = "printing"
    BY <1>1 DEF Coming, Formed, Loading
  <2> HIDE DEF x, span
  <2>3. SetMaster(x, span) \in {x, y}
    BY <2>2 DEF SetMaster, Coming
  <2>4. Coming(y)
    BY <2>2 DEF Coming, Formed, Loading
  <2> QED
    BY <2>1, <2>2, <2>3, <2>4
<1>5. Settled(FinalizePage(r))
  <2> DEFINE span == r.address.memory.view[1]
             silent == [r EXCEPT !.view.panTold = FALSE, !.view.underlayTold = FALSE]
             y == [silent EXCEPT !.view.master = <<span>>]
             framed == IF r.address.memory.view # <<>> THEN SetMaster(silent, span) ELSE silent
             w == [framed EXCEPT !.view.panTold = TRUE, !.view.underlayTold = TRUE,
                                 !.page.phase = "live", !.page.ready = TRUE]
             told == Unpause(w)
  <2>1. FinalizePage(r) = IF r.page.snapshot THEN SetMaster(told, r.import.span) ELSE told
    BY <1>3 DEF FinalizePage
  <2>2. /\ Formed(silent) /\ silent.page = r.page /\ silent.address = r.address
        /\ silent.view.master = <<>> /\ HighlightTold(silent)
        /\ ~silent.view.panTold
    BY <1>1 DEF Coming, Formed, HighlightTold
  <2>3. /\ Hash(r.address.memory) /\ r.address.bar = r.address.memory
    BY <1>1 DEF Coming, Formed
  <2> HIDE DEF silent
  <2>4. framed \in {silent, y} /\ (framed = y => r.address.memory.view # <<>>)
    <3>1. SetMaster(silent, span) \in {silent, y}
      BY <2>2 DEF SetMaster
    <3>2. y.view.master # <<>>
      BY <2>2 DEF Formed
    <3>3. y # silent
      BY <2>2, <3>2
    <3> HIDE DEF y
    <3> QED
      BY <3>1, <3>3
  <2>5. /\ Formed(y) /\ y.page = r.page /\ y.address = r.address
        /\ y.view.master = <<span>> /\ HighlightTold(y)
    BY <2>2 DEF Formed, HighlightTold
  <2>6. r.address.memory.view # <<>> => r.address.memory.view = <<span>>
    BY <2>3 DEF Hash
  <2> HIDE DEF y, span
  <2>7. /\ Formed(framed) /\ framed.page = r.page /\ framed.address = r.address
        /\ framed.view.master # <<>> => framed.address.memory.view = framed.view.master
        /\ HighlightTold(framed)
    BY <2>2, <2>4, <2>5, <2>6
  <2> HIDE DEF framed
  <2>8. /\ Formed(w) /\ w.page.phase = "live" /\ w.address = r.address
        /\ w.page.snapshot = r.page.snapshot
        /\ w.view.panTold /\ w.view.underlayTold
        /\ w.view.master # <<>> => w.address.memory.view = w.view.master
        /\ HighlightTold(w)
    BY <2>7 DEF Formed, HighlightTold
  <2> HIDE DEF w
  <2>9. Tells(told) /\ told.page.snapshot = r.page.snapshot
    BY <2>3, <2>8 DEF Unpause, Formed, HighlightTold, Tells, FrameTold
  <2> HIDE DEF told
  <2>10. Settled(told)
    BY <2>9 DEF Settled
  <2>11. Settled(SetMaster(told, r.import.span))
    BY <2>10, MasterSettled
  <2> QED
    BY <2>1, <2>10, <2>11
<1> QED
  BY <1>2, <1>4, <1>5

LEMMA ChartsCome ==
  ASSUME NEW s, Coming(s), s.page.phase \in Loading, s.pausing.paused
  PROVE  LET t == InitializeCharts(s) IN Settled(t) \/ Coming(t)
<1> DEFINE t == [s EXCEPT !.page.phase = "downloading"]
<1>1. InitializeCharts(s) \in {WithData(s), t}
  BY DEF InitializeCharts
<1>2. Coming(t)
  BY DEF Coming, Formed, Loading
<1> HIDE DEF t
<1> QED
  BY <1>1, <1>2, PageComes

LEMMA LoadComes ==
  ASSUME NEW s, NEW bar, Hash(bar), NEW xss, NEW print
  PROVE  Coming(LoadPage(s, bar, xss, print))
<1> DEFINE t == LoadPage(s, bar, xss, print)
<1>1. /\ DOMAIN t = {"page", "pausing", "dialogs", "dropdown", "view", "address", "settings",
                     "import", "export"}
      /\ t.page = [NewPage EXCEPT !.print = print, !.xss = xss]
      /\ t.pausing = [paused |-> FALSE, callback |-> "init"]
      /\ t.dialogs = [shown |-> {}, depth |-> 0, fading |-> {}, ours |-> FALSE, after |-> <<>>]
      /\ t.dropdown = FALSE
      /\ t.view = [master |-> <<>>, highlight |-> <<>>, at |-> <<>>,
                   panTold |-> FALSE, underlayTold |-> FALSE]
      /\ t.address = [memory |-> bar, bar |-> bar]
      /\ t.export = [stop |-> FALSE, enabled |-> TRUE, runs |-> <<>>, saved |-> <<>>]
  BY DEF LoadPage, ParseHash
<1> HIDE DEF t
<1>2. /\ DOMAIN t.page = {"phase", "snapshot", "xss", "showAlarms", "print", "left", "ready"}
      /\ t.page.phase = "pausing" /\ ~t.page.ready
  BY <1>1 DEF NewPage
<1>3. Formed(t)
  BY <1>1, <1>2 DEF Formed
<1>4. Coming(t)
  BY <1>1, <1>2, <1>3 DEF Coming
<1> QED
  BY <1>4 DEF t

(* Snapshots.                                                              *)
LEMMA SaveSettled ==
  ASSUME NEW s, Settled(s)
  PROVE  Settled(SaveSnapshot(s))
<1> DEFINE framed == IF s.view.master = <<>> THEN SetMaster(s, LastSpan) ELSE s
           run == [left |-> Charts, aside |-> s.settings.now.stop_updates,
                   clears |-> s.view.master = <<>>, span |-> framed.view.master,
                   ok |-> 0, failed |-> 0, died |-> FALSE]
           t == [framed EXCEPT !.export.stop = FALSE, !.export.enabled = FALSE,
                               !.export.runs = Append(@, run),
                               !.settings.now.stop_updates = FALSE, !.settings.now.fake = TRUE]
<1>1. SaveSnapshot(s) = t
  BY DEF SaveSnapshot
<1>2. Settled(framed)
  BY MasterSettled
<1> HIDE DEF framed, run
<1>3. Formed(framed)
  BY <1>2, SettledIsFormed
<1>4. Aside(framed, t)
  BY <1>3 DEF Aside, Formed
<1> HIDE DEF t
<1> QED
  BY <1>1, <1>2, <1>4, AsideSettled

LEMMA RestoreSettled ==
  ASSUME NEW s, Settled(s), NEW i
  PROVE  Settled(SaveSnapshotRestore(s, i))
<1> DEFINE run == s.export.runs[i]
           hidden == HideDialog(s, "save")
           back == [hidden EXCEPT !.settings.now.stop_updates = run.aside]
           free == IF run.clears THEN ClearMaster(back) ELSE back
           t == [free EXCEPT !.settings.now.fake = FALSE, !.export.enabled = TRUE,
                             !.export.runs = RemoveAt(@, i)]
<1>1. SaveSnapshotRestore(s, i) = Unpause(t)
  BY DEF SaveSnapshotRestore
<1>2. Formed(s)
  BY SettledIsFormed
<1>3. Settled(hidden)
  BY <1>2, DialogsAside, AsideSettled
<1> HIDE DEF run, hidden
<1>4. Formed(hidden)
  BY <1>3, SettledIsFormed
<1>5. Aside(hidden, back)
  BY <1>4 DEF Aside, Formed
<1> HIDE DEF back
<1>6. Settled(back)
  BY <1>3, <1>5, AsideSettled
<1>7. Settled(free)
  BY <1>6, MasterSettled
<1> HIDE DEF free
<1>8. Formed(free)
  BY <1>7, SettledIsFormed
<1>9. Aside(free, t)
  BY <1>8 DEF Aside, Formed
<1> HIDE DEF t
<1>10. Settled(t)
  BY <1>7, <1>9, AsideSettled
<1> QED
  BY <1>1, <1>10, SettledIsFormed, PausesAside, AsideSettled

LEMMA PackedSettled ==
  ASSUME NEW s, Settled(s), NEW i, NEW ok
  PROVE  Settled(ChartPacked(s, i, ok))
<1> DEFINE run == s.export.runs[i]
           next == [run EXCEPT !.left = @ - 1, !.ok = IF ok THEN @ + 1 ELSE @,
                               !.failed = IF ok THEN @ ELSE @ + 1]
           saved == <<[ok |-> next.ok, failed |-> next.failed, span |-> next.span]>>
           t == [s EXCEPT !.export.runs[i] = next]
           u == [t EXCEPT !.export.saved = saved]
<1>1. ChartPacked(s, i, ok) \in {SaveSnapshotRestore(u, i), SaveSnapshotRestore(t, i), t}
  BY DEF ChartPacked
<1>2. Formed(s)
  BY SettledIsFormed
<1> HIDE DEF saved, next
<1>3. Aside(s, t)
  BY <1>2 DEF Aside, Formed
<1> HIDE DEF t
<1>4. Settled(t)
  BY <1>3, AsideSettled
<1>5. Formed(t)
  BY <1>4, SettledIsFormed
<1>6. Aside(t, u)
  BY <1>5 DEF Aside, Formed
<1> HIDE DEF u
<1>7. Settled(u)
  BY <1>4, <1>6, AsideSettled
<1> QED
  BY <1>1, <1>4, <1>7, RestoreSettled

LEMMA LoadSnapped ==
  ASSUME NEW s, Formed(s)
  PROVE  Snapped(LoadSnapshot(s))
<1> DEFINE file == s.import.file[1]
           h == HideDialog(s, "load")
           c == ClearMaster(h)
           p == [c EXCEPT !.view.panTold = FALSE]
           u == SetupUnderlay(p)
           g == Unpause(u)
           t == [g EXCEPT !.page.snapshot = TRUE, !.page.phase = "pausing", !.page.xss = "off",
                          !.import.span = file.span, !.import.enabled = FALSE,
                          !.address.memory.highlight = file.highlight]
<1>1. LoadSnapshot(s) = Pause(t, "init")
  BY DEF LoadSnapshot, GlobalReset
<1>2. Formed(h)
  BY DialogsAside, AsideFormed
<1> HIDE DEF h, file
<1>3. Formed(c)
  BY <1>2, ClearMasterTells
<1> HIDE DEF c
<1>4. Formed(p)
  BY <1>3 DEF Formed
<1> HIDE DEF p
<1>5. Formed(u)
  BY <1>4, SetupUnderlayTells
<1> HIDE DEF u
<1>6. Formed(g)
  BY <1>5, PausesAside, AsideFormed, SMTT(30)
<1> HIDE DEF g
<1>7. Snapped(t)
  BY <1>6 DEF Formed, Hash, Snapped
<1> HIDE DEF t
<1>8. Snapped(Pause(t, "init"))
  BY <1>7 DEF Pause, Formed, Snapped
<1> QED
  BY <1>1, <1>8

LEMMA OptionSettled ==
  ASSUME NEW s, Settled(s), NEW option, NEW value
  PROVE  Settled(SetOption(s, option, value))
<1> DEFINE t == [s EXCEPT !.settings.now[option] = value, !.settings.kept[option] = value]
<1>1. SetOption(s, option, value) \in {s, t}
  BY DEF SetOption
<1>2. Formed(s)
  BY SettledIsFormed
<1>3. Aside(s, t)
  BY <1>2 DEF Aside, Formed
<1> HIDE DEF t
<1> QED
  BY <1>1, <1>3, AsideSettled

-----------------------------------------------------------------------------
Unasked == libs.pako.waits = "nobody" /\ libs.lz.waits = "nobody"
AddressRight == Settled(Now) \/ (Coming(Now) /\ Unasked)

LEMMA Becomes ==
  ASSUME NEW t, Become(t)
  PROVE  /\ Settled(t) => Settled(Now)'
         /\ Coming(t) => Coming(Now)'
<1>1. /\ page' = t.page /\ pausing' = t.pausing /\ dialogs' = t.dialogs
      /\ dropdown' = t.dropdown /\ view' = t.view /\ address' = t.address
      /\ settings' = t.settings /\ import' = t.import /\ export' = t.export
  BY DEF Become
<1> DEFINE n == [page |-> t.page, pausing |-> t.pausing, dialogs |-> t.dialogs,
                 dropdown |-> t.dropdown, view |-> t.view, address |-> t.address,
                 settings |-> t.settings, import |-> t.import, export |-> t.export]
<1>2. Now' = n
  BY <1>1 DEF Now
<1>3. Settled(t) => Settled(n)
  BY DEF Settled, Snapped, Tells, FrameTold, HighlightTold, Formed
<1>4. Coming(t) => Coming(n)
  BY DEF Coming, Formed
<1> QED
  BY <1>2, <1>3, <1>4

LEMMA NowIs ==
  /\ Now.page = page /\ Now.pausing = pausing /\ Now.dialogs = dialogs
  /\ Now.dropdown = dropdown /\ Now.view = view /\ Now.address = address
  /\ Now.settings = settings /\ Now.import = import /\ Now.export = export
  BY DEF Now

LEMMA NextComesUp ==
  ASSUME AddressRight, ComesUp
  PROVE  AddressRight'
<1>1. ASSUME NEW t, Become(t), UNCHANGED libs,
             Settled(t) \/ (Coming(t) /\ Unasked)
      PROVE  AddressRight'
  BY <1>1, Becomes DEF AddressRight, Unasked
<1>2. ASSUME RefresherPauses PROVE AddressRight'
  <2> DEFINE s == [Now EXCEPT !.pausing.paused = TRUE]
             a == [s EXCEPT !.page.phase = "asking"]
             t == IF pausing.callback # "init" THEN s
                  ELSE IF page.xss = "ask" THEN a ELSE InitializeCharts(s)
  <2>1. Become(t) /\ UNCHANGED libs /\ ~pausing.paused
    BY <1>2 DEF RefresherPauses
  <2>2. CASE Snapped(Now)
    <3>1. Snapped(s)
      BY <2>2 DEF Snapped, Formed
    <3>2. Snapped(a)
      BY <3>1 DEF Snapped, Formed
    <3> HIDE DEF s, a
    <3>3. Snapped(t)
      BY <3>1, <3>2, SnapshotComesUp
    <3> QED
      BY <1>1, <2>1, <3>3 DEF Settled
  <2>3. CASE Tells(Now)
    <3>1. pausing.callback # "init"
      BY <2>3, NowIs DEF Tells, FrameTold
    <3>2. Aside(Now, s)
      BY <2>3 DEF Aside, Tells, FrameTold, Formed
    <3> HIDE DEF s
    <3>3. Settled(t)
      BY <2>3, <3>1, <3>2, AsideSettled DEF Settled
    <3> QED
      BY <1>1, <2>1, <3>3
  <2>4. CASE Coming(Now) /\ Unasked
    <3>1. page.phase = "pausing"
      BY <2>1, <2>4, NowIs DEF Coming
    <3>2. Coming(s) /\ s.page.phase \in Loading /\ s.pausing.paused
      BY <2>4, <3>1, NowIs DEF Coming, Formed, Loading
    <3>3. Coming(a)
      BY <3>2 DEF Coming, Formed, Loading
    <3> HIDE DEF s, a
    <3>4. Settled(t) \/ Coming(t)
      BY <3>2, <3>3, ChartsCome
    <3> QED
      BY <1>1, <2>1, <2>4, <3>4
  <2> QED
    BY <2>2, <2>3, <2>4 DEF AddressRight, Settled
<1>3. ASSUME NEW answer, AnswerXss(answer) PROVE AddressRight'
  <2> DEFINE s == [Now EXCEPT !.page.xss = answer]
             t == InitializeCharts(s)
  <2>1. Become(t) /\ UNCHANGED libs /\ page.phase = "asking"
    BY <1>3 DEF AnswerXss
  <2>2. CASE Snapped(Now)
    <3>1. Snapped(s)
      BY <2>2 DEF Snapped, Formed
    <3> HIDE DEF s
    <3> QED
      BY <1>1, <2>1, <3>1, SnapshotComesUp DEF Settled
  <2>3. CASE Coming(Now) /\ Unasked
    <3>1. Coming(s) /\ s.page.phase \in Loading /\ s.pausing.paused
      BY <2>1, <2>3, NowIs DEF Coming, Formed, Loading
    <3> HIDE DEF s
    <3>2. Settled(t) \/ Coming(t)
      BY <3>1, ChartsCome
    <3> QED
      BY <1>1, <2>1, <2>3, <3>2
  <2>4. ~Tells(Now)
    BY <2>1, NowIs DEF Tells, FrameTold
  <2> QED
    BY <2>2, <2>3, <2>4 DEF AddressRight, Settled
<1>4. ASSUME NEW ok, ChartsArrive(ok) PROVE AddressRight'
  <2> DEFINE f == [Now EXCEPT !.page.phase = "failed"]
             d == [Now EXCEPT !.page.phase = "decorating"]
             t == IF ~ok THEN f ELSE IF page.xss = "keep" THEN WithData(Now) ELSE d
  <2>1. Become(t) /\ UNCHANGED libs /\ page.phase = "downloading"
    BY <1>4 DEF ChartsArrive
  <2>2. CASE Snapped(Now)
    <3>1. Snapped(f) /\ Snapped(d) /\ Snapped(WithData(Now))
      BY <2>2, SnapshotComesUp DEF Snapped, Formed
    <3> HIDE DEF f, d
    <3> QED
      BY <1>1, <2>1, <3>1 DEF Settled
  <2>3. CASE Coming(Now) /\ Unasked
    <3>1. Coming(f) /\ Coming(d) /\ Now.page.phase \in Loading /\ Now.pausing.paused
      BY <2>1, <2>3, NowIs DEF Coming, Formed, Loading
    <3> HIDE DEF f, d
    <3>2. Settled(WithData(Now)) \/ Coming(WithData(Now))
      BY <2>3, <3>1, PageComes
    <3>3. Settled(t) \/ Coming(t)
      BY <3>1, <3>2
    <3> QED
      BY <1>1, <2>1, <2>3, <3>3
  <2>4. ~Tells(Now)
    BY <2>1, NowIs DEF Tells, FrameTold
  <2> QED
    BY <2>2, <2>3, <2>4 DEF AddressRight, Settled
<1>5. ASSUME CustomInfoArrives PROVE AddressRight'
  <2>1. Become(WithData(Now)) /\ UNCHANGED libs /\ page.phase = "decorating"
    BY <1>5 DEF CustomInfoArrives
  <2>2. CASE Snapped(Now)
    BY <1>1, <2>1, <2>2, SnapshotComesUp DEF Settled
  <2>3. CASE Coming(Now) /\ Unasked
    <3>1. Now.page.phase \in Loading /\ Now.pausing.paused
      BY <2>1, <2>3, NowIs DEF Coming, Loading
    <3> QED
      BY <1>1, <2>1, <2>3, <3>1, PageComes
  <2>4. ~Tells(Now)
    BY <2>1, NowIs DEF Tells, FrameTold
  <2> QED
    BY <2>2, <2>3, <2>4 DEF AddressRight, Settled
<1>6. ASSUME PrintChart PROVE AddressRight'
  <2> DEFINE left == page.left - 1
             phase == IF page.left = 1 THEN "printed" ELSE page.phase
             t == [Now EXCEPT !.page.left = left, !.page.phase = phase]
  <2>1. UNCHANGED libs /\ page.phase = "printing"
    BY <1>6 DEF PrintChart
  <2>2. Formed(Now)
    BY SettledIsFormed DEF AddressRight, Coming
  <2>3. Become(t)
    <3>1. Become([Now EXCEPT !.page.left = @ - 1,
                             !.page.phase = IF page.left = 1 THEN "printed" ELSE @])
      BY <1>6 DEF PrintChart
    <3> QED
      BY <2>2, <3>1, NowIs DEF Formed
  <2>4. phase \in {"printing", "printed"}
    BY <2>1
  <2> HIDE DEF left, phase
  <2>5. CASE Snapped(Now)
    <3>1. Snapped(t)
      BY <2>5 DEF Snapped, Formed
    <3> QED
      BY <1>1, <2>1, <2>3, <3>1 DEF Settled
  <2>6. CASE Coming(Now) /\ Unasked
    <3>1. Coming(t)
      BY <2>1, <2>4, <2>6, NowIs DEF Coming, Formed, Loading
    <3> QED
      BY <1>1, <2>1, <2>3, <2>6, <3>1
  <2>7. ~Tells(Now)
    BY <2>1, NowIs DEF Tells, FrameTold
  <2> QED
    BY <2>5, <2>6, <2>7 DEF AddressRight, Settled
<1> QED
  BY <1>2, <1>3, <1>4, <1>5, <1>6 DEF ComesUp

LEMMA ComingRests ==
  ASSUME Coming(Now)
  PROVE  /\ page.phase # "live" /\ ~page.ready /\ ~dropdown
         /\ dialogs.shown = {} /\ dialogs.fading = {} /\ export.runs = <<>>
  BY NowIs DEF Coming

LEMMA NextDialog ==
  ASSUME AddressRight, DialogStep
  PROVE  AddressRight'
<1>1. ASSUME NEW t, Become(t), Settled(t) PROVE AddressRight'
  BY <1>1, Becomes DEF AddressRight
<1>2. ASSUME Settled(Now), NEW d
      PROVE  Settled(ShowDialog(Now, d)) /\ Settled(HideDialog(Now, d))
  BY <1>2, SettledIsFormed, DialogsAside, AsideSettled
<1>3. ASSUME NEW t, Settled(t) PROVE Settled(Pause(t, "noop")) /\ Settled(Unpause(t))
  BY <1>3, SettledIsFormed, PausesAside, AsideSettled
<1>4. ASSUME AlarmsTimer PROVE AddressRight'
  <2> DEFINE s == ShowDialog(Now, "alarms")
             t == [s EXCEPT !.page.showAlarms = FALSE]
  <2>1. Become(t) /\ Settled(Now)
    BY <1>4, ComingRests DEF AlarmsTimer, AddressRight
  <2>2. Settled(s)
    BY <1>2, <2>1
  <2> HIDE DEF s
  <2>3. Settled(t)
    BY <2>2 DEF Settled, Snapped, Tells, FrameTold, HighlightTold, Formed
  <2> QED
    BY <1>1, <2>1, <2>3
<1>5. ASSUME OpenMenu \/ CloseMenu PROVE AddressRight'
  <2> DEFINE o == [Now EXCEPT !.dropdown = TRUE]
             c == [Now EXCEPT !.dropdown = FALSE]
  <2>1. Settled(Now) /\ (Become(Pause(o, "noop")) \/ Become(Unpause(c)))
    BY <1>5, ComingRests DEF OpenMenu, CloseMenu, AddressRight
  <2>2. Aside(Now, o) /\ Aside(Now, c)
    BY <2>1, SettledIsFormed DEF Aside, Formed
  <2> HIDE DEF o, c
  <2>3. Settled(o) /\ Settled(c)
    BY <2>1, <2>2, AsideSettled
  <2>4. Settled(Pause(o, "noop")) /\ Settled(Unpause(c))
    BY <1>3, <2>3
  <2> QED
    BY <1>1, <2>1, <2>4
<1>6. ASSUME NEW d \in Dialogs, OpenDialog(d) PROVE AddressRight'
  <2> DEFINE s == ShowDialog(Now, d)
             c == [s EXCEPT !.dropdown = FALSE]
  <2>1. Settled(Now) /\ (Become(Unpause(c)) \/ Become(s))
    BY <1>6, ComingRests DEF OpenDialog, Usable, AddressRight
  <2>2. Settled(s)
    BY <1>2, <2>1
  <2> HIDE DEF s
  <2>3. Aside(s, c)
    BY <2>2, SettledIsFormed DEF Aside, Formed
  <2> HIDE DEF c
  <2>4. Settled(Unpause(c))
    BY <1>3, <2>2, <2>3, AsideSettled
  <2> QED
    BY <1>1, <2>1, <2>2, <2>4
<1>7. ASSUME NEW d \in Dialogs, CloseDialog(d) PROVE AddressRight'
  <2>1. Settled(Now) /\ Become(HideDialog(Now, d))
    BY <1>7, ComingRests DEF CloseDialog, AddressRight
  <2> QED
    BY <1>1, <1>2, <2>1
<1>8. ASSUME NEW d \in Dialogs, DialogGone(d) PROVE AddressRight'
  <2> DEFINE s == [Now EXCEPT !.dialogs.fading = @ \ {d}, !.dialogs.after = <<>>]
  <2>1. Settled(Now) /\ (Become(s) \/ Become(SetMaster(s, dialogs.after[1])))
    BY <1>8, ComingRests DEF DialogGone, AddressRight
  <2>2. Aside(Now, s)
    BY <2>1, SettledIsFormed DEF Aside, Formed
  <2> HIDE DEF s
  <2>3. Settled(s)
    BY <2>1, <2>2, AsideSettled
  <2> QED
    BY <1>1, <2>1, <2>3, MasterSettled
<1>9. ASSUME NEW span \in Spans, FollowAlarm(span) PROVE AddressRight'
  <2> DEFINE s == [Now EXCEPT !.dialogs.after = <<span>>]
  <2>1. Settled(Now) /\ Become(HideDialog(s, "alarms"))
    BY <1>9, ComingRests DEF FollowAlarm, AddressRight
  <2>2. Aside(Now, s)
    BY <2>1, SettledIsFormed DEF Aside, Formed
  <2> HIDE DEF s
  <2>3. Settled(s)
    BY <2>1, <2>2, AsideSettled
  <2>4. Settled(HideDialog(s, "alarms"))
    BY <2>3, SettledIsFormed, DialogsAside, AsideSettled
  <2> QED
    BY <1>1, <2>1, <2>4
<1> QED
  BY <1>4, <1>5, <1>6, <1>7, <1>8, <1>9 DEF DialogStep

LEMMA NextView ==
  ASSUME AddressRight, ViewStep
  PROVE  AddressRight'
<1>1. ASSUME NEW t, Become(t), Settled(t) PROVE AddressRight'
  BY <1>1, Becomes DEF AddressRight
<1>2. ASSUME Coming(Now) PROVE FALSE
  BY <1>2, ComingRests
     DEF ViewStep, Pan, Highlight, ResetView, ClearHighlight, ShowHighlight, Toggle, Reload,
         ResetOptions, PrintDashboard, Usable
<1>3. Settled(Now) /\ Formed(Now)
  BY <1>2, SettledIsFormed DEF AddressRight
<1>4. ASSUME NEW bar, NEW print, Hash(bar), Become(LoadPage(Now, bar, "off", print)), libs' = NoLibs
      PROVE  AddressRight'
  <2>1. Coming(Now)'
    BY <1>4, LoadComes, Becomes
  <2>2. Unasked'
    BY <1>4 DEF Unasked, NoLibs, NoLib
  <2> QED
    BY <2>1, <2>2 DEF AddressRight
<1>5. ASSUME NEW span \in Spans, Pan(span) PROVE AddressRight'
  BY <1>1, <1>3, <1>5, MasterSettled DEF Pan
<1>6. ASSUME NEW span \in Spans, NEW viewport \in Spans, Highlight(span, viewport)
      PROVE  AddressRight'
  <2> DEFINE h == [Now EXCEPT !.view.highlight = <<span>>, !.view.at = <<viewport>>]
             m == SetMaster(h, viewport)
  <2>1. Become(SetupUnderlay(m))
    BY <1>6 DEF Highlight
  <2>2. /\ Formed(h) /\ h.page = Now.page
        /\ Snapped(Now) => Snapped(h)
        /\ ~Now.page.snapshot => FrameTold(h)
    BY <1>3 DEF Settled, Snapped, Tells, FrameTold, Formed
  <2> HIDE DEF h
  <2>3. /\ Formed(m) /\ m.page = h.page
        /\ ~h.page.snapshot /\ FrameTold(h) => FrameTold(m)
    BY <2>2, SetMasterTells
  <2> HIDE DEF m
  <2>4. Snapped(m) \/ FrameTold(m)
    BY <2>2, <2>3 DEF Snapped
  <2> QED
    BY <1>1, <2>1, <2>4, UnderlaySettled
<1>7. ASSUME ResetView PROVE AddressRight'
  BY <1>1, <1>3, <1>7, MasterSettled DEF ResetView
<1>8. ASSUME ClearHighlight PROVE AddressRight'
  <2> DEFINE h == [Now EXCEPT !.view.highlight = <<>>, !.view.at = <<>>]
             s == ClearUnderlay(Now)
  <2>1. Become(s) \/ Become(ClearMaster(s))
    BY <1>8 DEF ClearHighlight
  <2>2. s = SetupUnderlay(h)
    BY DEF ClearUnderlay
  <2>3. Snapped(h) \/ FrameTold(h)
    BY <1>3 DEF Settled, Snapped, Tells, FrameTold, Formed
  <2> HIDE DEF h, s
  <2>4. Settled(s)
    BY <2>2, <2>3, UnderlaySettled
  <2> QED
    BY <1>1, <2>1, <2>4, MasterSettled
<1>9. ASSUME ShowHighlight PROVE AddressRight'
  <2>0. PICK same \in BOOLEAN :
            Become(SetMaster(IF same /\ view.master # <<>> THEN ClearMaster(Now) ELSE Now,
                             view.at[1]))
    BY <1>9 DEF ShowHighlight
  <2> DEFINE s == IF same /\ view.master # <<>> THEN ClearMaster(Now) ELSE Now
  <2>1. Become(SetMaster(s, view.at[1]))
    BY <2>0
  <2>2. Settled(s)
    BY <1>3, MasterSettled
  <2> HIDE DEF s
  <2> QED
    BY <1>1, <2>1, <2>2, MasterSettled
<1>10. ASSUME NEW option, Toggle(option) PROVE AddressRight'
  <2> DEFINE value == ~settings.now[option]
             a == [Now EXCEPT !.address.memory.always = ~value]
             told == IF option = "stop_updates" THEN HashUpdate(a) ELSE Now
  <2>1. Become(SetOption(told, option, value))
    BY <1>10 DEF Toggle
  <2> HIDE DEF value
  <2>2. Settled(HashUpdate(a))
    BY <1>3 DEF Settled, Snapped, Tells, FrameTold, HighlightTold, Formed, Hash, HashUpdate, GenHash
  <2>3. Settled(told)
    BY <1>3, <2>2
  <2> HIDE DEF told
  <2> QED
    BY <1>1, <2>1, <2>3, OptionSettled
<1>11. ASSUME Reload PROVE AddressRight'
  BY <1>3, <1>4, <1>11, NowIs DEF Reload, Formed
<1>12. ASSUME ResetOptions PROVE AddressRight'
  <2>1. Become(SetOption(SetOption(Now, "stop_updates", TRUE), "sync", TRUE))
    BY <1>12 DEF ResetOptions
  <2> QED
    BY <1>1, <1>3, <2>1, OptionSettled
<1>13. ASSUME PrintDashboard PROVE AddressRight'
  BY <1>3, <1>4, <1>13, NowIs DEF PrintDashboard, Formed, GenHash
<1> QED
  BY <1>5, <1>6, <1>7, <1>8, <1>9, <1>10, <1>11, <1>12, <1>13 DEF ViewStep

LEMMA NextSnapshot ==
  ASSUME AddressRight, SnapshotStep
  PROVE  AddressRight'
<1>1. ASSUME NEW t, Become(t), Settled(t) PROVE AddressRight'
  BY <1>1, Becomes DEF AddressRight
<1>2. ASSUME UNCHANGED <<page, pausing, dialogs, dropdown, view, address, settings, export, libs>>
      PROVE  AddressRight'
  <2> DEFINE t == [Now EXCEPT !.import = import']
  <2>1. Become(t)
    BY <1>2 DEF Become, Now
  <2>2. Settled(Now) => Settled(t)
    BY DEF Settled, Snapped, Tells, FrameTold, HighlightTold, Formed
  <2>3. Coming(Now) => Coming(t)
    BY DEF Coming, Formed
  <2> HIDE DEF t
  <2> QED
    BY <1>2, <2>1, <2>2, <2>3, Becomes DEF AddressRight, Unasked
<1>3. ASSUME Settled(Now), NEW who PROVE Settled(Body(who))
  BY <1>3, SettledIsFormed, LoadSnapped, SaveSettled DEF Body, Settled
<1>4. ASSUME Settled(Now), NEW l, NEW who, LoadLzString(l, who) PROVE AddressRight'
  BY <1>1, <1>3, <1>4 DEF LoadLzString
<1>5. ASSUME Settled(Now), NEW who, LoadPako(who) PROVE AddressRight'
  BY <1>1, <1>4, <1>5 DEF LoadPako
<1>6. ASSUME Import \/ Export PROVE AddressRight'
  BY <1>5, <1>6, ComingRests DEF Import, Export, AddressRight
<1>7. ASSUME PakoArrives PROVE AddressRight'
  BY <1>4, <1>7 DEF PakoArrives, AddressRight, Unasked
<1>8. ASSUME LzStringArrives PROVE AddressRight'
  BY <1>1, <1>3, <1>8 DEF LzStringArrives, AddressRight, Unasked
<1>9. ASSUME NEW i \in DOMAIN export.runs, NEW ok, ExportChart(i, ok) PROVE AddressRight'
  <2> DEFINE d == [Now EXCEPT !.export.runs[i].died = TRUE]
  <2>1. Settled(Now)
    BY ComingRests DEF AddressRight
  <2>2. Become(d) \/ Become(ChartPacked(Now, i, ok))
    BY <1>9 DEF ExportChart
  <2>3. Aside(Now, d)
    BY <2>1, SettledIsFormed DEF Aside, Formed
  <2> HIDE DEF d
  <2> QED
    BY <1>1, <2>1, <2>2, <2>3, AsideSettled, PackedSettled
<1> QED
  BY <1>2, <1>6, <1>7, <1>8, <1>9 DEF SnapshotStep, PickFile, FileRead

LEMMA InitAddress == ViewInit => AddressRight
<1> SUFFICES ASSUME ViewInit PROVE AddressRight
  OBVIOUS
<1> DEFINE old == [settings |-> [kept |-> NewSettings]]
           bar == IF "linked" \in budget.does THEN Linked ELSE NoHash
           xss == IF "remote" \in budget.does THEN "ask" ELSE "off"
           s == LoadPage(old, bar, xss, "paper" \in budget.does)
           alarms0 == "showAlarms" \in budget.does
           t == [s EXCEPT !.page.showAlarms = alarms0]
<1>1. /\ page = [s.page EXCEPT !.showAlarms = alarms0]
      /\ pausing = s.pausing /\ dialogs = s.dialogs /\ dropdown = s.dropdown
      /\ view = s.view /\ address = s.address /\ settings = s.settings
      /\ import = s.import /\ export = s.export /\ libs = NoLibs
  BY DEF ViewInit
<1>2. Hash(bar)
  BY DEF Hash, Linked, NoHash
<1> HIDE DEF bar, old, xss
<1>3. Coming(s)
  BY <1>2, LoadComes
<1> HIDE DEF s, alarms0
<1>4. Now.page = [s.page EXCEPT !.showAlarms = alarms0] /\ Now.pausing = s.pausing
  BY <1>1, NowIs
<1>5. Coming(Now)
  BY <1>1, <1>3, <1>4, NowIs DEF Coming, Formed, Now
<1>6. Unasked
  BY <1>1 DEF Unasked, NoLibs, NoLib
<1> QED
  BY <1>5, <1>6 DEF AddressRight

(* An address that tells what is on view, whatever moved it: a pan, a      *)
(* highlight, an alarm that is followed, an export that sets a frame and   *)
(* takes it back, a library that arrives late (urlOptions.hashUpdate()).   *)
THEOREM HashTrue == Spec => []HashTellsTheView
<1>1. Init => AddressRight
  BY InitAddress DEF Init
<1>2. AddressRight /\ [Next]_dashboardVars => AddressRight'
  <2> SUFFICES ASSUME AddressRight, [Next]_dashboardVars PROVE AddressRight'
    OBVIOUS
  <2>1. ASSUME UNCHANGED <<page, viewVars>> PROVE AddressRight'
    BY <2>1 DEF AddressRight, Now, Unasked, viewVars
  <2>2. ASSUME ViewNext PROVE AddressRight'
    BY <2>2, NextComesUp, NextDialog, NextView, NextSnapshot DEF ViewNext
  <2>3. ASSUME AlarmsNext, UNCHANGED viewVars PROVE AddressRight'
    <3>1. CASE UNCHANGED page
      BY <2>1, <2>3, <3>1
    <3>2. CASE page' = [page EXCEPT !.snapshot = TRUE]
      <4> DEFINE t == [Now EXCEPT !.page = page']
      <4>1. Become(t) /\ UNCHANGED libs
        BY <2>3 DEF Become, Now, viewVars
      <4>2. Settled(Now) => Settled(t)
        <5>1. ASSUME Settled(Now) PROVE Snapped(t)
          BY <3>2, <5>1, SettledIsFormed, NowIs DEF Formed, Snapped
        <5> QED
          BY <5>1 DEF Settled
      <4>3. Coming(Now) => Coming(t)
        BY <3>2, NowIs, SMTT(30) DEF Coming, Formed
      <4> HIDE DEF t
      <4> QED
        BY <4>1, <4>2, <4>3, Becomes DEF AddressRight, Unasked
    <3>3. UNCHANGED page \/ page' = [page EXCEPT !.snapshot = TRUE]
      BY <2>3 DEF AlarmsNext, UpdateForever, PermissionIsGranted, AlarmsLoadPage, AlarmsUpdateModal,
                  AlarmsExport, AlarmsImport, ActiveArrives, AllArrive, LogArrives,
                  NotificationIsShown, AlarmChanges
    <3> QED
      BY <3>1, <3>2, <3>3
  <2> QED
    BY <2>1, <2>2, <2>3 DEF Next, dashboardVars
<1>3. AddressRight => HashTellsTheView
  BY NowIs DEF AddressRight, Settled, Snapped, Tells, FrameTold, HighlightTold, Coming,
               HashTellsTheView
<1> QED
  BY <1>1, <1>2, <1>3, PTL DEF Spec

-----------------------------------------------------------------------------
(* Sorting and flattening.                                                 *)

Ascending(s, before) == \A i, j \in DOMAIN s : i < j => <<s[i], s[j]>> \in before
StrictOrder(S, before) ==
    /\ \A x \in S : <<x, x>> \notin before
    /\ \A x, y, z \in S : <<x, y>> \in before /\ <<y, z>> \in before => <<x, z>> \in before
    /\ \A x, y \in S : x = y \/ <<x, y>> \in before \/ <<y, x>> \in before

(* An element has the place that the number of those before it says.       *)
LEMMA SortedIs ==
  ASSUME NEW S, IsFiniteSet(S), NEW before, StrictOrder(S, before)
  PROVE  /\ Sorted(S, before) \in Seq(S) /\ ToSet(Sorted(S, before)) = S
         /\ Ascending(Sorted(S, before), before)
<1> DEFINE n == Cardinality(S)
           Below(x) == { y \in S : <<y, x>> \in before }
           rank == [x \in S |-> Cardinality(Below(x)) + 1]
           sorted == Sorted(S, before)
<1>1. n \in Nat
  BY FS_CardinalityType
<1>2. ASSUME NEW x \in S
      PROVE  /\ IsFiniteSet(Below(x)) /\ Cardinality(Below(x)) \in Nat
             /\ Cardinality(Below(x)) < n
  <2>1. Below(x) \subseteq S /\ x \notin Below(x)
    BY DEF StrictOrder
  <2> HIDE DEF Below
  <2>2. IsFiniteSet(Below(x)) /\ Cardinality(Below(x)) <= n /\ Cardinality(Below(x)) # n
    BY <2>1, FS_Subset
  <2>3. Cardinality(Below(x)) \in Nat
    BY <2>2, FS_CardinalityType
  <2> HIDE DEF n
  <2> QED
    BY <1>1, <2>2, <2>3
<1>3. ASSUME NEW x \in S, NEW y \in S, <<x, y>> \in before
      PROVE  rank[x] < rank[y]
  <2>1. Below(x) \subseteq Below(y) /\ x \in Below(y) /\ x \notin Below(x)
    BY <1>3 DEF StrictOrder
  <2>2. IsFiniteSet(Below(y)) /\ Cardinality(Below(y)) \in Nat /\ Cardinality(Below(x)) \in Nat
    BY <1>2
  <2>3. rank[x] = Cardinality(Below(x)) + 1 /\ rank[y] = Cardinality(Below(y)) + 1
    OBVIOUS
  <2> HIDE DEF Below, rank
  <2>4. Cardinality(Below(x)) <= Cardinality(Below(y)) /\ Cardinality(Below(x)) # Cardinality(Below(y))
    BY <2>1, <2>2, FS_Subset
  <2> QED
    BY <2>2, <2>3, <2>4
<1>4. ASSUME NEW x \in S PROVE rank[x] \in 1..n /\ rank[x] = Cardinality(Below(x)) + 1
  <2>1. rank[x] = Cardinality(Below(x)) + 1
    OBVIOUS
  <2>2. Cardinality(Below(x)) \in Nat /\ Cardinality(Below(x)) < n
    BY <1>2
  <2> HIDE DEF Below, rank, n
  <2> QED
    BY <1>1, <2>1, <2>2
<1>5. ASSUME NEW x \in S, NEW y \in S, rank[x] = rank[y] PROVE x = y
  <2>1. rank[x] \in Nat /\ rank[y] \in Nat
    BY <1>1, <1>4
  <2> HIDE DEF rank
  <2>2. <<x, y>> \notin before /\ <<y, x>> \notin before
    BY <1>3, <1>5, <2>1
  <2> QED
    BY <2>2 DEF StrictOrder
<1>6. \A i \in 1..n : \E x \in S : rank[x] = i
  <2>1. rank \in [S -> 1..n]
    BY <1>4
  <2>2. rank \in Injection(S, 1..n)
    <3> HIDE DEF rank, n
    <3> QED
      BY <1>5, <2>1 DEF Injection, IsInjective
  <2>3. IsFiniteSet(1..n) /\ Cardinality(1..n) = n
    <3> HIDE DEF n
    <3>1. IsFiniteSet(1..n) /\ Cardinality(1..n) = IF 1 > n THEN 0 ELSE n - 1 + 1
      BY <1>1, FS_Interval
    <3> QED
      BY <1>1, <3>1
  <2> HIDE DEF rank
  <2>4. rank \in Surjection(S, 1..n)
    BY <2>2, <2>3, FS_Injection
  <2> QED
    BY <2>4 DEF Surjection
<1>7. sorted = [i \in 1..n |-> CHOOSE x \in S : Cardinality(Below(x)) = i - 1]
  BY DEF Sorted
<1>8. ASSUME NEW i \in 1..n PROVE sorted[i] \in S /\ rank[sorted[i]] = i
  <2>1. PICK x \in S : rank[x] = i
    BY <1>6
  <2>2. Cardinality(Below(x)) \in Nat /\ rank[x] = Cardinality(Below(x)) + 1
    BY <1>2, <1>4
  <2>3. Cardinality(Below(x)) = i - 1
    <3> HIDE DEF Below, rank
    <3> QED
      BY <2>1, <2>2
  <2>4. sorted[i] \in S /\ Cardinality(Below(sorted[i])) = i - 1
    <3> HIDE DEF Below, sorted
    <3>1. sorted[i] = CHOOSE z \in S : Cardinality(Below(z)) = i - 1
      BY <1>7
    <3> QED
      BY <2>3, <3>1
  <2>5. rank[sorted[i]] = Cardinality(Below(sorted[i])) + 1
    BY <1>4, <2>4
  <2> HIDE DEF Below, rank, sorted
  <2> QED
    BY <2>4, <2>5
<1> HIDE DEF rank, sorted
<1>9. sorted \in Seq(S) /\ DOMAIN sorted = 1..n
  <2>1. DOMAIN sorted = 1..n /\ sorted \in [1..n -> S]
    BY <1>7, <1>8
  <2> HIDE DEF n
  <2> QED
    BY <1>1, <2>1
<1>10. ToSet(sorted) = S
  <2>1. ASSUME NEW x \in S PROVE x \in ToSet(sorted)
    <3>1. rank[x] \in 1..n
      BY <1>4
    <3>2. sorted[rank[x]] = x
      BY <1>5, <1>8, <3>1
    <3> QED
      BY <1>9, <3>1, <3>2 DEF ToSet
  <2> QED
    BY <1>8, <1>9, <2>1 DEF ToSet
<1>11. Ascending(sorted, before)
  <2> SUFFICES ASSUME NEW i \in 1..n, NEW j \in 1..n, i < j
               PROVE  <<sorted[i], sorted[j]>> \in before
    BY <1>9 DEF Ascending
  <2>1. /\ sorted[i] \in S /\ sorted[j] \in S /\ rank[sorted[i]] = i /\ rank[sorted[j]] = j
        /\ ~(j < i) /\ i # j
    BY <1>8
  <2>2. sorted[i] # sorted[j] /\ <<sorted[j], sorted[i]>> \notin before
    BY <1>3, <2>1
  <2> QED
    BY <2>1, <2>2 DEF StrictOrder
<1> QED
  BY <1>9, <1>10, <1>11 DEF sorted

LEMMA JoinedAscend ==
  ASSUME NEW S, NEW before, NEW s \in Seq(S), NEW t \in Seq(S),
         Ascending(s, before), Ascending(t, before),
         \A x \in ToSet(s), y \in ToSet(t) : <<x, y>> \in before
  PROVE  /\ s \o t \in Seq(S) /\ ToSet(s \o t) = ToSet(s) \cup ToSet(t)
         /\ Ascending(s \o t, before)
<1> DEFINE m == Len(s)
           n == Len(t)
           u == s \o t
<1>1. /\ m \in Nat /\ n \in Nat /\ u \in Seq(S)
      /\ DOMAIN s = 1..m /\ DOMAIN t = 1..n /\ DOMAIN u = 1..(m + n)
      /\ \A i \in 1..m : u[i] = s[i]
      /\ \A i \in 1..n : u[m + i] = t[i]
  OBVIOUS
<1> HIDE DEF m, n, u
<1>2. \A i \in 1..(m + n) : i \in 1..m \/ (i - m \in 1..n /\ m + (i - m) = i)
  BY <1>1
<1>3. \A i \in 1..(m + n) : (i \in 1..m /\ u[i] = s[i]) \/ (i - m \in 1..n /\ u[i] = t[i - m])
  BY <1>1, <1>2
<1>4. \A i \in 1..m : i \in 1..(m + n)
  BY <1>1
<1>5. \A i \in 1..n : m + i \in 1..(m + n)
  BY <1>1
<1>6. ToSet(u) = ToSet(s) \cup ToSet(t)
  <2>1. ASSUME NEW x \in ToSet(u) PROVE x \in ToSet(s) \cup ToSet(t)
    <3>1. PICK i \in 1..(m + n) : x = u[i]
      BY <1>1, <2>1 DEF ToSet
    <3> QED
      BY <1>1, <1>3, <3>1 DEF ToSet
  <2>2. ASSUME NEW x \in ToSet(s) PROVE x \in ToSet(u)
    BY <1>1, <1>4, <2>2 DEF ToSet
  <2>3. ASSUME NEW x \in ToSet(t) PROVE x \in ToSet(u)
    <3>1. PICK i \in 1..n : x = t[i]
      BY <1>1, <2>3 DEF ToSet
    <3> QED
      BY <1>1, <1>5, <3>1 DEF ToSet
  <2> QED
    BY <2>1, <2>2, <2>3
<1>7. ASSUME NEW i \in 1..(m + n), NEW j \in 1..(m + n), i < j PROVE <<u[i], u[j]>> \in before
  <2>1. CASE i \in 1..m /\ j \in 1..m
    BY <1>1, <1>7, <2>1 DEF Ascending
  <2>2. CASE i \in 1..m /\ j \notin 1..m
    <3>1. j - m \in 1..n /\ u[j] = t[j - m] /\ u[i] = s[i]
      BY <1>1, <1>3, <2>2
    <3>2. u[i] \in ToSet(s) /\ u[j] \in ToSet(t)
      BY <1>1, <2>2, <3>1 DEF ToSet
    <3> QED
      BY <3>2
  <2>3. CASE i \notin 1..m
    <3>1. j \notin 1..m /\ i - m < j - m
      BY <1>1, <1>7, <2>3
    <3>2. i - m \in 1..n /\ j - m \in 1..n /\ u[i] = t[i - m] /\ u[j] = t[j - m]
      BY <1>3, <2>3, <3>1
    <3> QED
      BY <1>1, <3>1, <3>2 DEF Ascending
  <2> QED
    BY <2>1, <2>2, <2>3
<1> QED
  BY <1>1, <1>6, <1>7 DEF Ascending, u

(* The sequences one behind the other, as FlattenSeq() joins them.         *)
JoinedTo(ss, n, g) ==
    /\ g = [m \in 1..n |-> g[m]] /\ g[1] = ss[1]
    /\ \A m \in 2..n : g[m] = g[m - 1] \o ss[m]

LEMMA JoinedExists ==
  ASSUME NEW ss, NEW n \in Nat \ {0}
  PROVE  \E g : JoinedTo(ss, n, g)
<1> DEFINE T == { m \in 0..n : m = 0 \/ \E g : JoinedTo(ss, m, g) }
<1>1. 0 \in T
  OBVIOUS
<1>2. ASSUME NEW m \in 0..n, m \in T, m < n PROVE m + 1 \in T
  <2>1. CASE m = 0
    <3> DEFINE g == [k \in 1..1 |-> ss[1]]
    <3>1. JoinedTo(ss, 1, g)
      BY DEF JoinedTo
    <3> QED
      BY <1>2, <2>1, <3>1
  <2>2. CASE m # 0
    <3>1. PICK g : JoinedTo(ss, m, g)
      BY <1>2, <2>2
    <3> DEFINE h == [k \in 1..(m + 1) |-> IF k = m + 1 THEN g[m] \o ss[m + 1] ELSE g[k]]
    <3>2. h[1] = ss[1]
      <4>1. 1 \in 1..(m + 1) /\ 1 # m + 1
        BY <2>2
      <4> QED
        BY <3>1, <4>1 DEF JoinedTo
    <3>3. ASSUME NEW k \in 2..(m + 1) PROVE h[k] = h[k - 1] \o ss[k]
      <4>1. CASE k = m + 1
        <5>1. k \in 1..(m + 1) /\ k - 1 \in 1..(m + 1) /\ k - 1 = m /\ m # m + 1
          BY <2>2, <4>1
        <5>2. h[k] = g[m] \o ss[m + 1] /\ h[k - 1] = g[m]
          BY <4>1, <5>1
        <5> HIDE DEF h
        <5> QED
          BY <4>1, <5>2
      <4>2. CASE k # m + 1
        <5>1. k \in 2..m /\ k \in 1..(m + 1) /\ k - 1 \in 1..(m + 1) /\ k - 1 # m + 1
          BY <4>2
        <5>2. h[k] = g[k] /\ h[k - 1] = g[k - 1]
          BY <4>2, <5>1
        <5> HIDE DEF h
        <5> QED
          BY <3>1, <5>1, <5>2 DEF JoinedTo
      <4> QED
        BY <4>1, <4>2
    <3>4. h = [k \in 1..(m + 1) |-> h[k]]
      OBVIOUS
    <3> HIDE DEF h
    <3>5. JoinedTo(ss, m + 1, h)
      BY <3>2, <3>3, <3>4 DEF JoinedTo
    <3> QED
      BY <1>2, <3>5
  <2> QED
    BY <2>1, <2>2
<1> HIDE DEF T
<1>3. n \in T
  <2>1. \A m \in 0..n : m \in T /\ m < n => m + 1 \in T
    BY <1>2
  <2>2. \A m \in 0..n : m \in T
    BY <1>1, <2>1, UpTo, Zenon
  <2> QED
    BY <2>2
<1> QED
  BY <1>3 DEF T

LEMMA FlattenIs ==
  ASSUME NEW ss, NEW n \in Nat \ {0}, Len(ss) = n
  PROVE  \E g : JoinedTo(ss, n, g) /\ FlattenSeq(ss) = g[n]
<1> DEFINE flatten[i \in 1..Len(ss)] == IF i = 1 THEN ss[i] ELSE flatten[i - 1] \o ss[i]
           Step(f) == [i \in 1..n |-> IF i = 1 THEN ss[i] ELSE f[i - 1] \o ss[i]]
<1>1. FlattenSeq(ss) = flatten[n]
  BY DEF FlattenSeq
<1>2. PICK g : JoinedTo(ss, n, g)
  BY JoinedExists
<1>3. g = Step(g)
  <2>1. g = [m \in 1..n |-> g[m]] /\ g[1] = ss[1] /\ \A m \in 2..n : g[m] = g[m - 1] \o ss[m]
    BY <1>2 DEF JoinedTo
  <2>2. ASSUME NEW m \in 1..n PROVE g[m] = Step(g)[m]
    <3>1. m = 1 \/ m \in 2..n
      OBVIOUS
    <3> QED
      BY <2>1, <3>1
  <2> QED
    BY <2>1, <2>2
<1>4. flatten = CHOOSE f : f = Step(f)
  BY DEF flatten
<1> HIDE DEF flatten
<1>5. flatten = Step(flatten)
  BY <1>3, <1>4
<1>6. JoinedTo(ss, n, flatten)
  <2>1. flatten = [i \in 1..n |-> flatten[i]]
    BY <1>5
  <2>2. ASSUME NEW i \in 1..n
        PROVE  flatten[i] = IF i = 1 THEN ss[i] ELSE flatten[i - 1] \o ss[i]
    BY <1>5
  <2>3. 1 \in 1..n /\ \A m \in 2..n : m \in 1..n /\ m # 1
    OBVIOUS
  <2> QED
    BY <2>1, <2>2, <2>3 DEF JoinedTo
<1> QED
  BY <1>1, <1>6

(* If each sequence ascends and all of one is before all of the next ones, *)
(* so it goes on through them all.                                         *)
Rows(ss, n, S, before) ==
    /\ ss = [i \in 1..n |-> ss[i]]
    /\ \A i \in 1..n : ss[i] \in Seq(S) /\ Ascending(ss[i], before)
    /\ \A i, j \in 1..n : i < j =>
         \A x \in ToSet(ss[i]), y \in ToSet(ss[j]) : <<x, y>> \in before

LEMMA FlattenAscends ==
  ASSUME NEW S, NEW before, NEW n \in Nat, NEW ss, Rows(ss, n, S, before)
  PROVE  /\ FlattenSeq(ss) \in Seq(S) /\ Ascending(FlattenSeq(ss), before)
         /\ \A x : x \in ToSet(FlattenSeq(ss)) <=> \E i \in 1..n : x \in ToSet(ss[i])
<1>. /\ ss = [i \in 1..n |-> ss[i]]
     /\ \A i \in 1..n : ss[i] \in Seq(S) /\ Ascending(ss[i], before)
     /\ \A i, j \in 1..n : i < j =>
          \A x \in ToSet(ss[i]), y \in ToSet(ss[j]) : <<x, y>> \in before
  BY DEF Rows
<1>0. DOMAIN ss = 1..n /\ ss \in Seq(Seq(S)) /\ Len(ss) = n
  <2>1. ss \in [1..n -> Seq(S)]
    OBVIOUS
  <2> QED
    BY <2>1
<1>1. CASE n = 0
  <2>1. FlattenSeq(ss) = ss /\ DOMAIN ss = {}
    BY <1>0, <1>1 DEF FlattenSeq
  <2>2. ss = <<>>
    BY <1>0, <1>1
  <2>3. <<>> \in Seq(S)
    OBVIOUS
  <2>5. FlattenSeq(ss) \in Seq(S) /\ DOMAIN FlattenSeq(ss) = {}
    BY <2>1, <2>2, <2>3, Zenon
  <2>4. \A i : i \notin 1..n
    BY <1>1
  <2> QED
    BY <2>4, <2>5 DEF ToSet, Ascending
<1>2. CASE n # 0
  <2>1. PICK g : JoinedTo(ss, n, g) /\ FlattenSeq(ss) = g[n]
    BY <1>0, <1>2, FlattenIs
  <2> DEFINE T == { m \in 0..n : m = 0 \/
                    /\ g[m] \in Seq(S) /\ Ascending(g[m], before)
                    /\ \A x : x \in ToSet(g[m]) <=> \E i \in 1..m : x \in ToSet(ss[i]) }
  <2>2. 0 \in T
    OBVIOUS
  <2>3. ASSUME NEW m \in 0..n, m \in T, m < n PROVE m + 1 \in T
    <3>1. CASE m = 0
      <4>1. g[1] = ss[1] /\ 1 \in 0..n /\ 1 \in 1..n
        BY <1>2, <2>1 DEF JoinedTo
      <4>2. g[1] \in Seq(S) /\ Ascending(g[1], before)
        BY <4>1
      <4>3. \A x : x \in ToSet(g[1]) <=> \E i \in 1..1 : x \in ToSet(ss[i])
        BY <4>1
      <4> QED
        BY <3>1, <4>1, <4>2, <4>3
    <3>2. CASE m # 0
      <4>1. /\ g[m] \in Seq(S) /\ Ascending(g[m], before)
            /\ \A x : x \in ToSet(g[m]) <=> \E i \in 1..m : x \in ToSet(ss[i])
        BY <2>3, <3>2
      <4>2. m + 1 \in 2..n /\ m + 1 \in 1..n /\ (m + 1) - 1 = m /\ m + 1 \in 0..n /\ m + 1 # 0
        BY <2>3, <3>2
      <4>3. g[m + 1] = g[m] \o ss[m + 1]
        BY <2>1, <4>2 DEF JoinedTo
      <4>4. \A i \in 1..m : i \in 1..n /\ i < m + 1
        BY <2>3
      <4>5. \A x \in ToSet(g[m]), y \in ToSet(ss[m + 1]) : <<x, y>> \in before
        BY <4>1, <4>2, <4>4
      <4>6. ss[m + 1] \in Seq(S) /\ Ascending(ss[m + 1], before)
        BY <4>2
      <4>7. /\ g[m + 1] \in Seq(S) /\ ToSet(g[m + 1]) = ToSet(g[m]) \cup ToSet(ss[m + 1])
            /\ Ascending(g[m + 1], before)
        <5> DEFINE s == g[m]
                   t == ss[m + 1]
        <5>1. s \in Seq(S) /\ t \in Seq(S) /\ Ascending(s, before) /\ Ascending(t, before)
          BY <4>1, <4>6
        <5>2. \A x \in ToSet(s), y \in ToSet(t) : <<x, y>> \in before
          BY <4>5
        <5>3. g[m + 1] = s \o t
          BY <4>3
        <5> HIDE DEF s, t
        <5>4. /\ s \o t \in Seq(S) /\ ToSet(s \o t) = ToSet(s) \cup ToSet(t)
              /\ Ascending(s \o t, before)
          BY <5>1, <5>2, JoinedAscend
        <5> QED
          BY <5>3, <5>4 DEF s, t
      <4>8. \A x : x \in ToSet(g[m + 1]) <=> \E i \in 1..(m + 1) : x \in ToSet(ss[i])
        <5>1. \A i \in 1..(m + 1) : i \in 1..m \/ i = m + 1
          BY <2>3
        <5>2. m + 1 \in 1..(m + 1) /\ \A i \in 1..m : i \in 1..(m + 1)
          BY <2>3
        <5> QED
          BY <4>1, <4>7, <5>1, <5>2
      <4> QED
        BY <4>2, <4>7, <4>8
    <3> QED
      BY <3>1, <3>2
  <2> HIDE DEF T
  <2>4. n \in T
    <3>1. \A m \in 0..n : m \in T /\ m < n => m + 1 \in T
      BY <2>3
    <3>2. \A m \in 0..n : m \in T
      BY <2>2, <3>1, UpTo, Zenon
    <3> QED
      BY <3>2
  <2> QED
    BY <1>2, <2>1, <2>4 DEF T
<1> QED
  BY <1>1, <1>2

-----------------------------------------------------------------------------
(* Filing.                                                                 *)

ChartRecords == [id : STRING, type : Words, family : Words, name : Words, priority : Int,
                 qos : BOOLEAN, ifb : BOOLEAN, kvm : BOOLEAN, mainheads : BOOLEAN,
                 heads : BOOLEAN]

(* Charts of one name in one place, and those that come from the agent.    *)
Alike(c, d) == MenuOf(c) = MenuOf(d) /\ c.family = d.family /\ c.name = d.name
Genuine(c) == c \in ChartRecords /\ \E d \in Catalogue : Alike(c, d)
GenuineIn(f) ==
    /\ DOMAIN f = {"charts", "filed", "menus", "names"}
    /\ IsFiniteSet(f.filed)
    /\ \A c \in f.charts \cup f.filed : Genuine(c)
    /\ \A c, d \in f.charts : Alike(c, d) => c = d
    /\ \A c, d \in f.filed : Alike(c, d) => c = d
    /\ \A c \in f.charts, d \in f.filed : ~Alike(c, d)

(* A menu has the charts that belong to it, in their submenus, and menu    *)
(* and submenus the lowest priority of theirs.                             *)
IsLowest(p, charts) ==
    p \in Int /\ (\E c \in charts : c.priority = p) /\ \A c \in charts : p <= c.priority
SubmenuFiled(sub, charts) ==
    DOMAIN sub = {"priority", "charts"} /\ sub.charts = charts /\ IsLowest(sub.priority, charts)
OfFamily(charts, s) == { c \in charts : c.family = s }
OfMenu(charts, m) == { c \in charts : MenuOf(c) = m }
SubmenusFiled(submenus, charts) ==
    /\ DOMAIN submenus = { c.family : c \in charts }
    /\ \A s \in DOMAIN submenus : SubmenuFiled(submenus[s], OfFamily(charts, s))
MenuFiled(menu, charts) ==
    /\ DOMAIN menu = {"pattern", "priority", "title", "submenus"}
    /\ IsLowest(menu.priority, charts)
    /\ SubmenusFiled(menu.submenus, charts)
MenusFiled(menus, charts) ==
    /\ DOMAIN menus = { MenuOf(c) : c \in charts }
    /\ \A m \in DOMAIN menus : MenuFiled(menus[m], OfMenu(charts, m))

LEMMA LowestOfOneMore ==
  ASSUME NEW p \in Int, NEW charts, NEW c, c.priority \in Int,
         \A d \in charts : d.priority \in Int,
         IsLowest(p, charts) \/ (charts = {} /\ p = c.priority)
  PROVE  IsLowest(Min({p, c.priority}), charts \cup {c})
<1> DEFINE q == c.priority
<1>1. q \in Int
  OBVIOUS
<1> HIDE DEF q
<1>2. Min({p, q}) = IF p <= q THEN p ELSE q
  BY <1>1 DEF Min
<1>3. Min({p, q}) \in Int /\ Min({p, q}) <= p /\ Min({p, q}) <= q
  BY <1>1, <1>2
<1>4. \E d \in charts \cup {c} : d.priority = Min({p, q})
  BY <1>2 DEF IsLowest, q
<1>5. ASSUME NEW d \in charts PROVE Min({p, q}) <= d.priority
  <2>1. p <= d.priority /\ d.priority \in Int
    BY <1>5 DEF IsLowest
  <2> QED
    BY <1>3, <2>1
<1> QED
  BY <1>3, <1>4, <1>5 DEF IsLowest, q

LEMMA SubmenusGrow ==
  ASSUME NEW submenus, NEW charts, SubmenusFiled(submenus, charts), NEW c, c.priority \in Int,
         \A d \in charts : d.priority \in Int,
         NEW sub, sub = IF c.family \in DOMAIN submenus THEN submenus[c.family] ELSE NewSubmenu(c),
         NEW into, into = [priority |-> Min({sub.priority, c.priority}),
                           charts |-> sub.charts \cup {c}]
  PROVE  SubmenusFiled(Put(submenus, c.family, into), charts \cup {c})
<1> DEFINE s    == c.family
           mine == OfFamily(charts, s)
           new  == Put(submenus, s, into)
<1>1. /\ sub.charts = mine /\ sub.priority \in Int
      /\ IsLowest(sub.priority, mine) \/ (mine = {} /\ sub.priority = c.priority)
  <2>1. CASE s \in DOMAIN submenus
    BY <2>1 DEF SubmenusFiled, SubmenuFiled, IsLowest
  <2>2. CASE s \notin DOMAIN submenus
    BY <2>2 DEF SubmenusFiled, NewSubmenu, OfFamily
  <2> QED
    BY <2>1, <2>2
<1>2. \A d \in mine : d.priority \in Int
  BY DEF OfFamily
<1>3. SubmenuFiled(into, mine \cup {c})
  <2>1. IsLowest(Min({sub.priority, c.priority}), mine \cup {c})
    <3> HIDE DEF mine
    <3> QED
      BY <1>1, <1>2, LowestOfOneMore
  <2> QED
    BY <1>1, <2>1 DEF SubmenuFiled
<1>4. OfFamily(charts \cup {c}, s) = mine \cup {c}
  BY DEF OfFamily
<1>5. \A r : r # s => OfFamily(charts \cup {c}, r) = OfFamily(charts, r)
  BY DEF OfFamily
<1>6. DOMAIN new = DOMAIN submenus \cup {s} /\ new[s] = into
      /\ \A r \in DOMAIN submenus : r # s => new[r] = submenus[r]
  BY DEF Put
<1> HIDE DEF new, s
<1>7. DOMAIN new = { d.family : d \in charts \cup {c} }
  BY <1>6 DEF SubmenusFiled, s
<1>8. ASSUME NEW r \in DOMAIN new PROVE SubmenuFiled(new[r], OfFamily(charts \cup {c}, r))
  <2>1. CASE r = s
    BY <1>3, <1>4, <1>6, <2>1
  <2>2. CASE r # s
    BY <1>5, <1>6, <2>2 DEF SubmenusFiled
  <2> QED
    BY <2>1, <2>2
<1> QED
  BY <1>7, <1>8 DEF SubmenusFiled, new, s

LEMMA FiledKeeps ==
  ASSUME NEW menus, NEW charts, MenusFiled(menus, charts), NEW c \in ChartRecords,
         \A d \in charts : d \in ChartRecords
  PROVE  MenusFiled(Filed(menus, c), charts \cup {c})
<1> DEFINE m     == MenuOf(c)
           s     == c.family
           mine  == OfMenu(charts, m)
           menu  == IF m \in DOMAIN menus THEN menus[m] ELSE NewMenu(c)
           sub   == IF s \in DOMAIN menu.submenus THEN menu.submenus[s] ELSE NewSubmenu(c)
           into  == [priority |-> Min({sub.priority, c.priority}), charts |-> sub.charts \cup {c}]
           after == [menu EXCEPT !.pattern = IF @ = Nothing THEN MenuPattern(c) ELSE @,
                                 !.priority = Min({@, c.priority}),
                                 !.submenus = Put(@, s, into)]
           new   == Put(menus, m, after)
<1>1. Filed(menus, c) = new
  BY DEF Filed
<1>2. /\ DOMAIN menu = {"pattern", "priority", "title", "submenus"}
      /\ menu.priority \in Int /\ SubmenusFiled(menu.submenus, mine)
      /\ IsLowest(menu.priority, mine) \/ (mine = {} /\ menu.priority = c.priority)
  <2>1. CASE m \in DOMAIN menus
    BY <2>1 DEF MenusFiled, MenuFiled, IsLowest
  <2>2. CASE m \notin DOMAIN menus
    <3>1. mine = {}
      BY <2>2 DEF MenusFiled, OfMenu
    <3>2. menu = NewMenu(c)
      BY <2>2
    <3> HIDE DEF menu, mine
    <3>3. /\ DOMAIN menu = {"pattern", "priority", "title", "submenus"}
          /\ menu.priority = c.priority /\ menu.submenus = Nothing
      BY <3>2 DEF NewMenu
    <3>4. DOMAIN Nothing = {}
      BY DEF Nothing
    <3>5. SubmenusFiled(menu.submenus, mine)
      BY <3>1, <3>3, <3>4 DEF SubmenusFiled
    <3>6. c.priority \in Int
      BY DEF ChartRecords
    <3> QED
      BY <3>1, <3>3, <3>5, <3>6
  <2> QED
    BY <2>1, <2>2
<1>3. c.priority \in Int /\ \A d \in mine : d.priority \in Int
  BY DEF ChartRecords, OfMenu
<1>4. /\ DOMAIN after = {"pattern", "priority", "title", "submenus"}
      /\ after.priority = Min({menu.priority, c.priority})
      /\ after.submenus = Put(menu.submenus, s, into)
  <2> HIDE DEF menu, into
  <2> QED
    BY <1>2
<1>5. MenuFiled(after, mine \cup {c})
  <2> HIDE DEF menu, after, mine
  <2>1. IsLowest(after.priority, mine \cup {c})
    BY <1>2, <1>3, <1>4, LowestOfOneMore
  <2>2. SubmenusFiled(Put(menu.submenus, s, into), mine \cup {c})
    BY <1>2, <1>3, SubmenusGrow
  <2> QED
    BY <1>4, <2>1, <2>2 DEF MenuFiled
<1>6. OfMenu(charts \cup {c}, m) = mine \cup {c}
  BY DEF OfMenu
<1>7. \A r : r # m => OfMenu(charts \cup {c}, r) = OfMenu(charts, r)
  BY DEF OfMenu
<1> HIDE DEF after, menu
<1>8. DOMAIN new = DOMAIN menus \cup {m} /\ new[m] = after
      /\ \A r \in DOMAIN menus : r # m => new[r] = menus[r]
  BY DEF Put
<1> HIDE DEF new, m
<1>9. DOMAIN new = { MenuOf(d) : d \in charts \cup {c} }
  BY <1>8 DEF MenusFiled, m
<1>10. ASSUME NEW r \in DOMAIN new PROVE MenuFiled(new[r], OfMenu(charts \cup {c}, r))
  <2>1. CASE r = m
    BY <1>5, <1>6, <1>8, <2>1
  <2>2. CASE r # m
    BY <1>7, <1>8, <2>2 DEF MenusFiled
  <2> QED
    BY <2>1, <2>2
<1> QED
  BY <1>1, <1>9, <1>10 DEF MenusFiled

LEMMA EnrichedIs ==
  ASSUME NEW c \in ChartRecords
  PROVE  Enriched(c) \in ChartRecords /\ \A d : Alike(Enriched(c), d) <=> Alike(c, d)
<1>1. Enriched(c) \in ChartRecords
  BY DEF Enriched, ChartRecords
<1>2. /\ Enriched(c).type = c.type /\ Enriched(c).family = c.family
      /\ Enriched(c).name = c.name
  BY DEF Enriched, ChartRecords
<1>3. MenuOf(Enriched(c)) = MenuOf(c)
  BY <1>2 DEF MenuOf
<1> QED
  BY <1>1, <1>2, <1>3 DEF Alike

-----------------------------------------------------------------------------
(* Laying out.                                                             *)

LEMMA RankIs ==
  ASSUME NEW name \in ToSet(Alphabetical)
  PROVE  Rank(name) \in Nat /\ Alphabetical[Rank(name)] = name
<1>1. DOMAIN Alphabetical = 1..Len(Alphabetical) /\ Len(Alphabetical) \in Nat
  BY MenuAssumption
<1>2. \E i \in DOMAIN Alphabetical : Alphabetical[i] = name
  BY DEF ToSet
<1>3. Rank(name) \in DOMAIN Alphabetical /\ Alphabetical[Rank(name)] = name
  BY <1>2 DEF Rank
<1> QED
  BY <1>1, <1>3

LEMMA NotBeforeItself ==
  ASSUME NEW p \in Int, NEW a \in ToSet(Alphabetical)
  PROVE  ~Before(p, a, p, a)
<1>1. Rank(a) \in Nat
  BY RankIs
<1> QED
  BY <1>1 DEF Before

(* Things with names of their own are in order by priority and name.       *)
LEMMA BeforeOrders ==
  ASSUME NEW S, NEW pr, NEW nm, NEW before,
         \A x \in S : pr[x] \in Int /\ nm[x] \in ToSet(Alphabetical),
         \A x, y \in S : nm[x] = nm[y] => x = y,
         \A x, y \in S : <<x, y>> \in before <=> Before(pr[x], nm[x], pr[y], nm[y])
  PROVE  StrictOrder(S, before)
<1> DEFINE rk(x) == Rank(nm[x])
<1>1. ASSUME NEW x \in S PROVE rk(x) \in Nat /\ Alphabetical[rk(x)] = nm[x]
  <2>1. nm[x] \in ToSet(Alphabetical)
    OBVIOUS
  <2> QED
    BY <2>1, RankIs
<1>2. ASSUME NEW x \in S, NEW y \in S
      PROVE  <<x, y>> \in before <=> (pr[x] < pr[y] \/ (pr[x] = pr[y] /\ rk(x) < rk(y)))
  BY DEF Before
<1>3. ASSUME NEW x \in S, NEW y \in S, rk(x) = rk(y) PROVE x = y
  <2>1. nm[x] = nm[y]
    <3> HIDE DEF rk
    <3> QED
      BY <1>1, <1>3
  <2> QED
    BY <2>1
<1>4. \A x \in S : pr[x] \in Int
  OBVIOUS
<1> HIDE DEF rk
<1>5. ASSUME NEW x \in S PROVE <<x, x>> \notin before
  BY <1>1, <1>2, <1>4
<1>6. ASSUME NEW x \in S, NEW y \in S, NEW z \in S, <<x, y>> \in before, <<y, z>> \in before
      PROVE  <<x, z>> \in before
  <2>1. /\ pr[x] < pr[y] \/ (pr[x] = pr[y] /\ rk(x) < rk(y))
        /\ pr[y] < pr[z] \/ (pr[y] = pr[z] /\ rk(y) < rk(z))
    BY <1>2, <1>6
  <2>2. pr[x] \in Int /\ pr[y] \in Int /\ pr[z] \in Int /\ rk(x) \in Nat /\ rk(y) \in Nat /\ rk(z) \in Nat
    BY <1>1, <1>4
  <2>3. pr[x] < pr[z] \/ (pr[x] = pr[z] /\ rk(x) < rk(z))
    BY <2>1, <2>2
  <2> QED
    BY <1>2, <2>3
<1>7. ASSUME NEW x \in S, NEW y \in S PROVE x = y \/ <<x, y>> \in before \/ <<y, x>> \in before
  <2>1. pr[x] \in Int /\ pr[y] \in Int /\ rk(x) \in Nat /\ rk(y) \in Nat
    BY <1>1, <1>4
  <2>2. \/ pr[x] < pr[y] \/ (pr[x] = pr[y] /\ rk(x) < rk(y))
        \/ pr[y] < pr[x] \/ (pr[y] = pr[x] /\ rk(y) < rk(x))
        \/ rk(x) = rk(y)
    BY <2>1
  <2> QED
    BY <1>2, <1>3, <2>2
<1> QED
  BY <1>5, <1>6, <1>7 DEF StrictOrder

LEMMA ObjectSorted ==
  ASSUME NEW object, IsFiniteSet(DOMAIN object), DOMAIN object \subseteq ToSet(Alphabetical),
         \A k \in DOMAIN object : object[k].priority \in Int,
         NEW names, names = SortObjectByPriority(object)
  PROVE  /\ names \in Seq(DOMAIN object) /\ ToSet(names) = DOMAIN object
         /\ \A i, j \in DOMAIN names : i < j =>
              /\ Before(object[names[i]].priority, names[i], object[names[j]].priority, names[j])
              /\ names[i] # names[j]
<1> DEFINE S      == DOMAIN object
           before == { p \in S \X S :
                         Before(object[p[1]].priority, p[1], object[p[2]].priority, p[2]) }
           pr     == [k \in S |-> object[k].priority]
           nm     == [k \in S |-> k]
<1>1. \A x, y \in S : <<x, y>> \in before
                        <=> Before(object[x].priority, x, object[y].priority, y)
  OBVIOUS
<1>2. names = Sorted(S, before)
  BY DEF SortObjectByPriority
<1> HIDE DEF before
<1>3. \A x \in S : pr[x] = object[x].priority /\ nm[x] = x
  OBVIOUS
<1> HIDE DEF pr, nm
<1>4. StrictOrder(S, before)
  <2>1. \A x \in S : pr[x] \in Int /\ nm[x] \in ToSet(Alphabetical)
    BY <1>3
  <2>2. \A x, y \in S : nm[x] = nm[y] => x = y
    BY <1>3
  <2>3. \A x, y \in S : <<x, y>> \in before <=> Before(pr[x], nm[x], pr[y], nm[y])
    BY <1>1, <1>3
  <2> HIDE DEF S
  <2> QED
    BY <2>1, <2>2, <2>3, BeforeOrders
<1>5. names \in Seq(S) /\ ToSet(names) = S /\ Ascending(names, before)
  BY <1>2, <1>4, SortedIs
<1>6. \A i \in DOMAIN names : names[i] \in S
  BY <1>5
<1> SUFFICES ASSUME NEW i \in DOMAIN names, NEW j \in DOMAIN names, i < j
             PROVE  /\ Before(object[names[i]].priority, names[i],
                              object[names[j]].priority, names[j])
                    /\ names[i] # names[j]
  BY <1>5
<1>7. <<names[i], names[j]>> \in before
  BY <1>5 DEF Ascending
<1> QED
  BY <1>1, <1>4, <1>6, <1>7 DEF StrictOrder

LEMMA ChartsSorted ==
  ASSUME NEW charts, IsFiniteSet(charts),
         \A c \in charts : c.priority \in Int /\ c.name \in ToSet(Alphabetical),
         \A c, d \in charts : c.name = d.name => c = d,
         NEW s, s = PrioritySort(charts)
  PROVE  /\ s \in Seq(charts) /\ ToSet(s) = charts
         /\ \A i, j \in DOMAIN s : i < j => Before(s[i].priority, s[i].name, s[j].priority, s[j].name)
<1> DEFINE before == { p \in charts \X charts :
                         Before(p[1].priority, p[1].name, p[2].priority, p[2].name) }
           pr     == [c \in charts |-> c.priority]
           nm     == [c \in charts |-> c.name]
<1>1. \A x, y \in charts : <<x, y>> \in before
                             <=> Before(x.priority, x.name, y.priority, y.name)
  OBVIOUS
<1>2. s = Sorted(charts, before)
  BY DEF PrioritySort
<1> HIDE DEF before
<1>3. \A x \in charts : pr[x] = x.priority /\ nm[x] = x.name
  OBVIOUS
<1> HIDE DEF pr, nm
<1>4. StrictOrder(charts, before)
  <2>1. \A x \in charts : pr[x] \in Int /\ nm[x] \in ToSet(Alphabetical)
    BY <1>3
  <2>2. \A x, y \in charts : nm[x] = nm[y] => x = y
    BY <1>3
  <2>3. \A x, y \in charts : <<x, y>> \in before <=> Before(pr[x], nm[x], pr[y], nm[y])
    BY <1>1, <1>3
  <2> QED
    BY <2>1, <2>2, <2>3, BeforeOrders
<1>5. s \in Seq(charts) /\ ToSet(s) = charts /\ Ascending(s, before)
  BY <1>2, <1>4, SortedIs
<1>6. \A i \in DOMAIN s : s[i] \in charts
  BY <1>5
<1> QED
  BY <1>1, <1>5, <1>6 DEF Ascending

LEMMA LowestIs ==
  ASSUME NEW p, NEW charts, IsLowest(p, charts), \A c \in charts : c.priority \in Int
  PROVE  Lowest(charts) = p
<1> DEFINE P == { c.priority : c \in charts }
<1>1. p \in P /\ (\A q \in P : p <= q) /\ P \subseteq Int
  BY DEF IsLowest
<1>2. Lowest(charts) = CHOOSE q \in P : \A r \in P : q <= r
  BY DEF Lowest, Min
<1> HIDE DEF P
<1>3. Lowest(charts) \in P /\ Lowest(charts) <= p /\ p <= Lowest(charts)
  BY <1>1, <1>2
<1>4. Lowest(charts) \in Int /\ p \in Int
  BY <1>1, <1>3
<1> QED
  BY <1>3, <1>4

LEMMA GenuineIs ==
  ASSUME NEW c, Genuine(c)
  PROVE  /\ c.priority \in Int
         /\ {MenuOf(c), c.family, c.name} \subseteq ToSet(Alphabetical)
  BY CatalogueAssumption DEF Genuine, Alike, ChartRecords

(* The keys of an object, where each is that of some chart.                *)
LEMMA KeysAreFinite ==
  ASSUME NEW S, IsFiniteSet(S), NEW key, NEW T, T = { key[c] : c \in S }
  PROVE  IsFiniteSet(T)
<1> DEFINE g == [c \in S |-> key[c]]
<1>1. g \in Surjection(S, T)
  BY DEF Surjection
<1> QED
  BY <1>1, FS_Surjection

-----------------------------------------------------------------------------
(* What is filed is genuine and in its place; the page is laid out from it.*)
FilingRight(f) == GenuineIn(f) /\ MenusFiled(f.menus, f.filed)

Parted(part, names, s, charts) ==
    /\ part.submenu = s /\ part.title = SubmenuTitle(names, s)
    /\ part.charts = PrioritySort(charts)
LaidMenu(section, names, submenus) ==
    LET subs == SortObjectByPriority(submenus) IN
    /\ DOMAIN section.submenus = DOMAIN subs
    /\ \A j \in DOMAIN subs :
         Parted(section.submenus[j], names, subs[j], submenus[subs[j]].charts)
Laid(sections, f) ==
    LET main == SortObjectByPriority(f.menus) IN
    /\ DOMAIN sections = DOMAIN main
    /\ \A i \in DOMAIN main : LaidMenu(sections[i], f.names, f.menus[main[i]].submenus)
MenuInPlace ==
    /\ FilingRight(filing)
    /\ shown # Nothing => filing.charts = {} /\ Laid(shown, filing)

(* Charts of one menu, and of one submenu.                                 *)
LEMMA TogetherIn ==
  ASSUME FilingRight(filing), NEW c \in filing.filed
  PROVE  /\ MenuOf(c) \in DOMAIN filing.menus
         /\ c.family \in DOMAIN filing.menus[MenuOf(c)].submenus
         /\ Lowest(InMenu(c)) = filing.menus[MenuOf(c)].priority
         /\ Lowest(InSubmenu(c)) = filing.menus[MenuOf(c)].submenus[c.family].priority
<1> DEFINE m    == MenuOf(c)
           mine == OfMenu(filing.filed, m)
           subs == filing.menus[m].submenus
<1>1. m \in DOMAIN filing.menus /\ MenuFiled(filing.menus[m], mine)
  BY DEF FilingRight, MenusFiled
<1>2. c \in mine /\ InMenu(c) = mine
  BY DEF OfMenu, InMenu
<1>3. \A d \in mine : d.priority \in Int
  BY GenuineIs DEF FilingRight, GenuineIn, OfMenu
<1> HIDE DEF m, mine
<1>4. c.family \in DOMAIN subs /\ SubmenuFiled(subs[c.family], OfFamily(mine, c.family))
  BY <1>1, <1>2 DEF MenuFiled, SubmenusFiled
<1>5. InSubmenu(c) = OfFamily(mine, c.family)
  BY <1>2 DEF InSubmenu, OfFamily
<1>6. Lowest(InMenu(c)) = filing.menus[m].priority
  BY <1>1, <1>2, <1>3, LowestIs DEF MenuFiled
<1>7. \A d \in OfFamily(mine, c.family) : d.priority \in Int
  BY <1>3 DEF OfFamily
<1>8. Lowest(InSubmenu(c)) = subs[c.family].priority
  BY <1>4, <1>5, <1>7, LowestIs, SMTT(30) DEF SubmenuFiled
<1> QED
  BY <1>1, <1>4, <1>6, <1>8 DEF m

InOrder == { p \in filing.filed \X filing.filed : Precedes(p[1], p[2]) }
Lines(section) == [j \in DOMAIN section.submenus |-> section.submenus[j].charts]

(* A submenu.                                                              *)
LEMMA SubmenuInOrder ==
  ASSUME FilingRight(filing), NEW m \in DOMAIN filing.menus,
         NEW s \in DOMAIN filing.menus[m].submenus,
         NEW line, line = PrioritySort(filing.menus[m].submenus[s].charts)
  PROVE  /\ line \in Seq(filing.filed) /\ Ascending(line, InOrder)
         /\ ToSet(line) = OfFamily(OfMenu(filing.filed, m), s)
<1> DEFINE mine == OfFamily(OfMenu(filing.filed, m), s)
<1>1. filing.menus[m].submenus[s].charts = mine
  BY DEF FilingRight, MenusFiled, MenuFiled, SubmenusFiled, SubmenuFiled
<1>2. \A c \in mine : c \in filing.filed /\ MenuOf(c) = m /\ c.family = s
  BY DEF OfFamily, OfMenu
<1> HIDE DEF mine
<1>3. IsFiniteSet(mine)
  <2>1. mine \in SUBSET filing.filed /\ IsFiniteSet(filing.filed)
    BY <1>2 DEF FilingRight, GenuineIn
  <2> QED
    BY <2>1, FS_Subset
<1>4. \A c \in mine : c.priority \in Int /\ c.name \in ToSet(Alphabetical)
  BY <1>2, GenuineIs DEF FilingRight, GenuineIn
<1>5. \A c, d \in mine : c.name = d.name => c = d
  BY <1>2 DEF FilingRight, GenuineIn, Alike
<1>6. /\ line \in Seq(mine) /\ ToSet(line) = mine
      /\ \A i, j \in DOMAIN line :
           i < j => Before(line[i].priority, line[i].name, line[j].priority, line[j].name)
  BY <1>1, <1>3, <1>4, <1>5, ChartsSorted, SMTT(30)
<1>7. line \in Seq(mine)
  BY <1>6
<1>8. \A c, d \in mine :
        Before(c.priority, c.name, d.priority, d.name) => <<c, d>> \in InOrder
  BY <1>2, SMTT(30) DEF InOrder, Precedes
<1>9. Ascending(line, InOrder)
  <2>1. \A i \in DOMAIN line : line[i] \in mine
    BY <1>7
  <2> QED
    BY <1>6, <1>8, <2>1 DEF Ascending
<1>10. line \in Seq(filing.filed)
  <2>1. mine \subseteq filing.filed
    BY <1>2
  <2> QED
    BY <1>7, <2>1
<1> QED
  BY <1>6, <1>9, <1>10 DEF mine

(* A menu.                                                                 *)
LEMMA MenuInOrder ==
  ASSUME FilingRight(filing), NEW m \in DOMAIN filing.menus, NEW section,
         LaidMenu(section, filing.names, filing.menus[m].submenus),
         NEW row, row = FlattenSeq(Lines(section))
  PROVE  /\ row \in Seq(filing.filed) /\ Ascending(row, InOrder)
         /\ ToSet(row) = OfMenu(filing.filed, m)
<1> DEFINE mine  == OfMenu(filing.filed, m)
           below == filing.menus[m].submenus
           subs  == SortObjectByPriority(below)
           ss    == Lines(section)
           n     == Len(subs)
<1>1. /\ SubmenusFiled(below, mine) /\ mine \subseteq filing.filed
      /\ \A c \in mine : MenuOf(c) = m
  BY DEF FilingRight, MenusFiled, MenuFiled, OfMenu
<1> HIDE DEF mine
<1>2. /\ DOMAIN below = { c.family : c \in mine }
      /\ \A s \in DOMAIN below : SubmenuFiled(below[s], OfFamily(mine, s))
  BY <1>1 DEF SubmenusFiled
<1>3. IsFiniteSet(DOMAIN below)
  <2>1. mine \in SUBSET filing.filed /\ IsFiniteSet(filing.filed)
    BY <1>1 DEF FilingRight, GenuineIn
  <2>2. IsFiniteSet(mine)
    BY <2>1, FS_Subset
  <2> DEFINE key == [c \in mine |-> c.family]
  <2>3. DOMAIN below = { key[c] : c \in mine }
    BY <1>2
  <2> HIDE DEF key, below
  <2> QED
    BY <2>2, <2>3, KeysAreFinite
<1>4. DOMAIN below \subseteq ToSet(Alphabetical)
  BY <1>1, <1>2, GenuineIs DEF FilingRight, GenuineIn
<1>5. \A s \in DOMAIN below : below[s].priority \in Int
  BY <1>2 DEF SubmenuFiled, IsLowest
<1> HIDE DEF below
<1>6. /\ subs \in Seq(DOMAIN below) /\ ToSet(subs) = DOMAIN below
      /\ \A i, j \in DOMAIN subs : i < j =>
           /\ Before(below[subs[i]].priority, subs[i], below[subs[j]].priority, subs[j])
           /\ subs[i] # subs[j]
  BY <1>3, <1>4, <1>5, ObjectSorted
<1>7. LaidMenu(section, filing.names, below)
  BY DEF below
<1>8. /\ DOMAIN section.submenus = DOMAIN subs
      /\ \A j \in DOMAIN subs : section.submenus[j].charts = PrioritySort(below[subs[j]].charts)
  BY <1>7 DEF LaidMenu, Parted
<1> HIDE DEF subs
<1>9. n \in Nat /\ DOMAIN subs = 1..n /\ \A i \in 1..n : subs[i] \in DOMAIN below
  BY <1>6
<1> HIDE DEF n
<1>10. ss = [j \in 1..n |-> section.submenus[j].charts]
  BY <1>8, <1>9 DEF Lines
<1> HIDE DEF ss
<1>11. ASSUME NEW i \in 1..n
       PROVE  /\ ss[i] \in Seq(filing.filed) /\ Ascending(ss[i], InOrder)
              /\ ToSet(ss[i]) = OfFamily(mine, subs[i])
  <2>1. ss[i] = PrioritySort(below[subs[i]].charts) /\ subs[i] \in DOMAIN below
    BY <1>8, <1>9, <1>10
  <2> QED
    BY <2>1, SubmenuInOrder DEF below, mine
<1>12. ASSUME NEW i \in 1..n, NEW j \in 1..n, i < j, NEW x \in ToSet(ss[i]), NEW y \in ToSet(ss[j])
       PROVE  <<x, y>> \in InOrder
  <2>1. /\ x \in mine /\ y \in mine /\ x.family = subs[i] /\ y.family = subs[j]
    BY <1>11, <1>12 DEF OfFamily
  <2>2. /\ MenuOf(x) = m /\ MenuOf(y) = m /\ x \in filing.filed /\ y \in filing.filed
    BY <1>1, <2>1
  <2>3. /\ Lowest(InSubmenu(x)) = below[subs[i]].priority
        /\ Lowest(InSubmenu(y)) = below[subs[j]].priority
    BY <2>1, <2>2, TogetherIn DEF below
  <2>4. /\ Before(below[subs[i]].priority, subs[i], below[subs[j]].priority, subs[j])
        /\ subs[i] # subs[j]
    BY <1>6, <1>9, <1>12
  <2> QED
    BY <2>1, <2>2, <2>3, <2>4 DEF InOrder, Precedes
<1>13. /\ row \in Seq(filing.filed) /\ Ascending(row, InOrder)
       /\ \A x : x \in ToSet(row) <=> \E i \in 1..n : x \in ToSet(ss[i])
  <2>1. ss = [i \in 1..n |-> ss[i]]
    BY <1>10
  <2>2. row = FlattenSeq(ss)
    BY DEF ss
  <2>3. \A i \in 1..n : ss[i] \in Seq(filing.filed) /\ Ascending(ss[i], InOrder)
    BY <1>11
  <2>4. \A i, j \in 1..n : i < j =>
          \A x \in ToSet(ss[i]), y \in ToSet(ss[j]) : <<x, y>> \in InOrder
    BY <1>12
  <2>5. n \in Nat
    BY <1>9
  <2> QED
    <3>1. Rows(ss, n, filing.filed, InOrder)
      BY <2>1, <2>3, <2>4 DEF Rows
    <3> QED
      BY <2>2, <2>5, <3>1, FlattenAscends
<1>14. ToSet(row) = mine
  <2>1. ASSUME NEW x \in mine PROVE x \in ToSet(row)
    <3>1. x.family \in DOMAIN below
      BY <1>2
    <3>2. PICK i \in 1..n : subs[i] = x.family
      BY <1>6, <1>9, <3>1 DEF ToSet
    <3> QED
      BY <1>11, <1>13, <3>2 DEF OfFamily
  <2>2. ASSUME NEW x \in ToSet(row) PROVE x \in mine
    BY <1>11, <1>13, <2>2 DEF OfFamily
  <2> QED
    BY <2>1, <2>2
<1> QED
  BY <1>13, <1>14 DEF mine

(* The page.                                                               *)
LEMMA PageInOrder ==
  ASSUME FilingRight(filing), Laid(shown, filing)
  PROVE  /\ ShownCharts \in Seq(filing.filed) /\ Ascending(ShownCharts, InOrder)
         /\ ToSet(ShownCharts) = filing.filed
<1> DEFINE menus == filing.menus
           main  == SortObjectByPriority(menus)
           n     == Len(main)
           ss    == [i \in DOMAIN shown |-> FlattenSeq(Lines(shown[i]))]
<1>1. /\ DOMAIN menus = { MenuOf(c) : c \in filing.filed }
      /\ \A m \in DOMAIN menus : MenuFiled(menus[m], OfMenu(filing.filed, m))
  BY DEF FilingRight, MenusFiled
<1>2. ShownCharts = FlattenSeq(ss)
  BY DEF ShownCharts, Lines
<1>3. DOMAIN shown = DOMAIN main
      /\ \A i \in DOMAIN main : LaidMenu(shown[i], filing.names, menus[main[i]].submenus)
  BY DEF Laid
<1> HIDE DEF menus
<1>4. IsFiniteSet(DOMAIN menus)
  <2> DEFINE key == [c \in filing.filed |-> MenuOf(c)]
  <2>1. DOMAIN menus = { key[c] : c \in filing.filed }
    BY <1>1
  <2>2. IsFiniteSet(filing.filed)
    BY DEF FilingRight, GenuineIn
  <2> HIDE DEF key
  <2> QED
    BY <2>1, <2>2, KeysAreFinite
<1>5. DOMAIN menus \subseteq ToSet(Alphabetical)
  BY <1>1, GenuineIs DEF FilingRight, GenuineIn
<1>6. \A m \in DOMAIN menus : menus[m].priority \in Int
  BY <1>1 DEF MenuFiled, IsLowest
<1>7. /\ main \in Seq(DOMAIN menus) /\ ToSet(main) = DOMAIN menus
      /\ \A i, j \in DOMAIN main : i < j =>
           /\ Before(menus[main[i]].priority, main[i], menus[main[j]].priority, main[j])
           /\ main[i] # main[j]
  BY <1>4, <1>5, <1>6, ObjectSorted
<1> HIDE DEF main
<1>8. n \in Nat /\ DOMAIN main = 1..n /\ \A i \in 1..n : main[i] \in DOMAIN menus
  BY <1>7
<1> HIDE DEF n
<1>9. ss = [i \in 1..n |-> FlattenSeq(Lines(shown[i]))]
  BY <1>3, <1>8
<1> HIDE DEF ss
<1>10. ASSUME NEW i \in 1..n
       PROVE  /\ ss[i] \in Seq(filing.filed) /\ Ascending(ss[i], InOrder)
              /\ ToSet(ss[i]) = OfMenu(filing.filed, main[i])
  <2>1. /\ main[i] \in DOMAIN menus /\ ss[i] = FlattenSeq(Lines(shown[i]))
        /\ LaidMenu(shown[i], filing.names, menus[main[i]].submenus)
    BY <1>3, <1>8, <1>9
  <2> QED
    BY <2>1, MenuInOrder DEF menus
<1>11. ASSUME NEW i \in 1..n, NEW j \in 1..n, i < j, NEW x \in ToSet(ss[i]), NEW y \in ToSet(ss[j])
       PROVE  <<x, y>> \in InOrder
  <2>1. /\ x \in filing.filed /\ y \in filing.filed
        /\ MenuOf(x) = main[i] /\ MenuOf(y) = main[j]
    BY <1>10, <1>11 DEF OfMenu
  <2>2. /\ Lowest(InMenu(x)) = menus[main[i]].priority
        /\ Lowest(InMenu(y)) = menus[main[j]].priority
    BY <2>1, TogetherIn DEF menus
  <2>3. /\ Before(menus[main[i]].priority, main[i], menus[main[j]].priority, main[j])
        /\ main[i] # main[j]
    BY <1>7, <1>8, <1>11
  <2> QED
    BY <2>1, <2>2, <2>3 DEF InOrder, Precedes
<1>12. /\ ShownCharts \in Seq(filing.filed) /\ Ascending(ShownCharts, InOrder)
       /\ \A x : x \in ToSet(ShownCharts) <=> \E i \in 1..n : x \in ToSet(ss[i])
  <2>1. ss = [i \in 1..n |-> ss[i]]
    BY <1>9
  <2>2. \A i \in 1..n : ss[i] \in Seq(filing.filed) /\ Ascending(ss[i], InOrder)
    BY <1>10
  <2>3. \A i, j \in 1..n : i < j =>
          \A x \in ToSet(ss[i]), y \in ToSet(ss[j]) : <<x, y>> \in InOrder
    BY <1>11
  <2>4. Rows(ss, n, filing.filed, InOrder)
    BY <2>1, <2>2, <2>3 DEF Rows
  <2> QED
    BY <1>2, <1>8, <2>4, FlattenAscends
<1>13. ToSet(ShownCharts) = filing.filed
  <2>1. ASSUME NEW x \in filing.filed PROVE x \in ToSet(ShownCharts)
    <3>1. MenuOf(x) \in DOMAIN menus
      BY <1>1
    <3>2. PICK i \in 1..n : main[i] = MenuOf(x)
      BY <1>7, <1>8, <3>1 DEF ToSet
    <3> QED
      BY <1>10, <1>12, <3>2 DEF OfMenu
  <2>2. ASSUME NEW x \in ToSet(ShownCharts) PROVE x \in filing.filed
    BY <1>10, <1>12, <2>2 DEF OfMenu
  <2> QED
    BY <2>1, <2>2
<1> QED
  BY <1>12, <1>13

(* A sequence in an order has each element once.                           *)
LEMMA EachOnce ==
  ASSUME NEW S, NEW before, \A x \in S : <<x, x>> \notin before,
         NEW s \in Seq(S), Ascending(s, before), ToSet(s) = S
  PROVE  Len(s) = Cardinality(S)
<1> DEFINE n == Len(s)
<1>1. n \in Nat /\ DOMAIN s = 1..n /\ s \in [1..n -> S]
  OBVIOUS
<1>2. ASSUME NEW i \in 1..n, NEW j \in 1..n, s[i] = s[j] PROVE i = j
  <2>1. ~(i < j) /\ ~(j < i)
    BY <1>1, <1>2 DEF Ascending
  <2> QED
    BY <1>1, <2>1
<1> HIDE DEF n
<1>3. s \in Bijection(1..n, S)
  <2>1. \A x \in S : \E i \in 1..n : s[i] = x
    BY <1>1 DEF ToSet
  <2> QED
    BY <1>1, <1>2, <2>1 DEF Bijection, Injection, IsInjective, Surjection
<1>4. IsFiniteSet(1..n) /\ Cardinality(1..n) = n
  <2>1. IsFiniteSet(1..n) /\ Cardinality(1..n) = IF 1 > n THEN 0 ELSE n - 1 + 1
    BY <1>1, FS_Interval
  <2> QED
    BY <1>1, <2>1
<1>5. Cardinality(S) = n
  BY <1>3, <1>4, FS_Bijection DEF ExistsBijection
<1> QED
  BY <1>5 DEF n

LEMMA InPlace == MenuInPlace => ChartsAreInPlace
<1> SUFFICES ASSUME MenuInPlace, shown # Nothing
             PROVE  /\ ToSet(ShownCharts) = filing.filed
                    /\ Len(ShownCharts) = Cardinality(filing.filed)
                    /\ \A i, j \in DOMAIN ShownCharts :
                         i < j => Precedes(ShownCharts[i], ShownCharts[j])
                    /\ \A s, t \in Titles : s[1] = t[1] => s = t
  BY DEF ChartsAreInPlace
<1>1. FilingRight(filing) /\ Laid(shown, filing)
  BY DEF MenuInPlace
<1>2. /\ ShownCharts \in Seq(filing.filed) /\ Ascending(ShownCharts, InOrder)
      /\ ToSet(ShownCharts) = filing.filed
  BY <1>1, PageInOrder
<1>3. \A c \in filing.filed : <<c, c>> \notin InOrder
  <2> TAKE c \in filing.filed
  <2>1. c.priority \in Int /\ c.name \in ToSet(Alphabetical)
    BY <1>1, GenuineIs DEF FilingRight, GenuineIn
  <2>2. ~Before(c.priority, c.name, c.priority, c.name)
    BY <2>1, NotBeforeItself
  <2> QED
    BY <2>2 DEF InOrder, Precedes
<1>4. Len(ShownCharts) = Cardinality(filing.filed)
  BY <1>2, <1>3, EachOnce
<1>5. \A i, j \in DOMAIN ShownCharts : i < j => Precedes(ShownCharts[i], ShownCharts[j])
  BY <1>2 DEF Ascending, InOrder
<1>6. \A s \in Titles : s = <<s[1], SubmenuTitle(filing.names, s[1])>>
  <2> TAKE s \in Titles
  <2>1. PICK m \in ToSet(shown) : \E p \in ToSet(m.submenus) : s = <<p.submenu, p.title>>
    BY DEF Titles
  <2>2. PICK i \in DOMAIN shown : m = shown[i]
    BY DEF ToSet
  <2>3. PICK j \in DOMAIN m.submenus :
          s = <<m.submenus[j].submenu, m.submenus[j].title>>
    BY <2>1 DEF ToSet
  <2>4. m.submenus[j].title = SubmenuTitle(filing.names, m.submenus[j].submenu)
    BY <1>1, <2>2, <2>3 DEF Laid, LaidMenu, Parted
  <2> QED
    BY <2>3, <2>4
<1>7. \A s, t \in Titles : s[1] = t[1] => s = t
  BY <1>6
<1> QED
  BY <1>2, <1>4, <1>5, <1>7

-----------------------------------------------------------------------------
(* Each chart is filed, and the page is written.                           *)
LEMMA NoneFiled ==
  ASSUME NEW charts, \A c \in charts : Genuine(c),
         \A c, d \in charts : Alike(c, d) => c = d
  PROVE  FilingRight(Filing(charts))
<1> DEFINE f == Filing(charts)
<1>1. /\ DOMAIN f = {"charts", "filed", "menus", "names"}
      /\ f.charts = charts /\ f.filed = {} /\ f.menus = Nothing
  BY DEF Filing
<1> HIDE DEF f
<1>2. GenuineIn(f)
  BY <1>1, FS_EmptySet DEF GenuineIn
<1>3. DOMAIN Nothing = {}
  BY DEF Nothing
<1>4. MenusFiled(f.menus, f.filed)
  BY <1>1, <1>3 DEF MenusFiled
<1> QED
  BY <1>2, <1>4 DEF FilingRight, f

LEMMA OneFiled ==
  ASSUME NEW f, FilingRight(f), NEW c \in f.charts,
         NEW g, g = [f EXCEPT !.charts = @ \ {c}, !.filed = @ \cup {Enriched(c)},
                              !.menus = Filed(@, Enriched(c)), !.names = Named(@, c)]
  PROVE  FilingRight(g)
<1> DEFINE e == Enriched(c)
<1>1. /\ DOMAIN f = {"charts", "filed", "menus", "names"} /\ IsFiniteSet(f.filed)
      /\ \A d \in f.charts \cup f.filed : Genuine(d)
      /\ \A b, d \in f.charts : Alike(b, d) => b = d
      /\ \A b, d \in f.filed : Alike(b, d) => b = d
      /\ \A b \in f.charts, d \in f.filed : ~Alike(b, d)
      /\ MenusFiled(f.menus, f.filed)
  BY DEF FilingRight, GenuineIn
<1>2. e \in ChartRecords /\ \A d : (Alike(e, d) <=> Alike(c, d)) /\ (Alike(d, e) <=> Alike(d, c))
  BY <1>1, EnrichedIs DEF Genuine, Alike
<1> HIDE DEF e
<1>3. /\ DOMAIN g = {"charts", "filed", "menus", "names"} /\ g.charts = f.charts \ {c}
      /\ g.filed = f.filed \cup {e} /\ g.menus = Filed(f.menus, e)
  BY <1>1 DEF e
<1>4. Genuine(e)
  BY <1>1, <1>2 DEF Genuine
<1>5. IsFiniteSet(g.filed)
  BY <1>1, <1>3, FS_AddElement
<1>6. \A d \in g.charts \cup g.filed : Genuine(d)
  BY <1>1, <1>3, <1>4
<1>7. \A b, d \in g.charts : Alike(b, d) => b = d
  BY <1>1, <1>3
<1>8. \A d \in f.filed : ~Alike(c, d) /\ ~Alike(d, c)
  BY <1>1 DEF Alike
<1>9. \A b, d \in g.filed : Alike(b, d) => b = d
  BY <1>1, <1>2, <1>3, <1>8
<1>10. \A b \in g.charts, d \in g.filed : ~Alike(b, d)
  BY <1>1, <1>2, <1>3
<1>11. MenusFiled(g.menus, g.filed)
  BY <1>1, <1>2, <1>3, FiledKeeps DEF Genuine
<1> QED
  BY <1>3, <1>5, <1>6, <1>7, <1>9, <1>10, <1>11 DEF FilingRight, GenuineIn

LEMMA SectionsLaid ==
  ASSUME NEW f
  PROVE  Laid(RenderSections(f), f)
<1> DEFINE sections == RenderSections(f)
           main     == SortObjectByPriority(f.menus)
           head(i)  == IF i = 1 THEN IF page.print THEN <<>> ELSE HeadMain({ c.id : c \in f.filed })
                       ELSE <<>>
<1>1. /\ DOMAIN sections = DOMAIN main
      /\ \A i \in DOMAIN main :
           sections[i] = RenderMenu(f.names, main[i], f.menus[main[i]], head(i))
  BY DEF RenderSections
<1> HIDE DEF sections, main, head
<1>2. ASSUME NEW m, NEW menu, NEW top
      PROVE  LaidMenu(RenderMenu(f.names, m, menu, top), f.names, menu.submenus)
  <2> DEFINE subs  == SortObjectByPriority(menu.submenus)
             parts == [i \in DOMAIN subs |-> RenderSubmenu(f.names, subs[i], menu.submenus[subs[i]])]
  <2>1. RenderMenu(f.names, m, menu, top).submenus = parts
    BY DEF RenderMenu
  <2>2. ASSUME NEW s, NEW sub PROVE Parted(RenderSubmenu(f.names, s, sub), f.names, s, sub.charts)
    BY DEF RenderSubmenu, Parted
  <2>3. DOMAIN parts = DOMAIN subs
        /\ \A j \in DOMAIN subs : Parted(parts[j], f.names, subs[j], menu.submenus[subs[j]].charts)
    <3> HIDE DEF subs
    <3> QED
      BY <2>2
  <2> HIDE DEF parts
  <2> QED
    BY <2>1, <2>3 DEF LaidMenu
<1>3. \A i \in DOMAIN main : LaidMenu(sections[i], f.names, f.menus[main[i]].submenus)
  BY <1>1, <1>2
<1> QED
  BY <1>1, <1>3 DEF Laid, sections, main

LEMMA NextInPlace == MenuInPlace /\ MenuNext => MenuInPlace'
<1> SUFFICES ASSUME MenuInPlace, MenuNext PROVE MenuInPlace'
  OBVIOUS
<1>1. ASSUME NEW charts \in SUBSET Catalogue, MenuDataArrive(charts) PROVE MenuInPlace'
  <2>1. \A c \in charts : Genuine(c)
    BY MenuAssumption DEF Genuine, ChartRecords, Alike
  <2>2. \A c, d \in charts : Alike(c, d) => c = d
    BY CatalogueAssumption DEF Alike
  <2>3. FilingRight(Filing(charts))
    BY <2>1, <2>2, NoneFiled
  <2> QED
    BY <1>1, <2>3 DEF MenuDataArrive, MenuInPlace
<1>2. ASSUME SnapshotArrives PROVE MenuInPlace'
  <2>1. FilingRight(Filing(filing.filed))
    BY NoneFiled DEF MenuInPlace, FilingRight, GenuineIn
  <2> QED
    BY <1>2, <2>1 DEF SnapshotArrives, MenuInPlace
<1>3. ASSUME WritePage PROVE MenuInPlace'
  BY <1>3, SectionsLaid DEF WritePage, MenuInPlace
<1>4. ASSUME NEW c \in filing.charts, FileChart(c) PROVE MenuInPlace'
  <2>1. shown = Nothing /\ shown' = Nothing
    BY <1>4 DEF FileChart, MenuInPlace
  <2>2. FilingRight(filing')
    BY <1>4, OneFiled DEF FileChart, MenuInPlace
  <2> QED
    BY <2>1, <2>2 DEF MenuInPlace
<1> QED
  BY <1>1, <1>2, <1>3, <1>4 DEF MenuNext

(* Whatever the order in which the agent's charts are filed, and in every  *)
(* snapshot rendered after them, the page shows each chart once, in its    *)
(* menu and submenu, these and the charts in the order of their lowest     *)
(* priorities and of their names, and a family has one title throughout    *)
(* (renderChartsAndMenu(), sortObjectByPriority(), prioritySort()).        *)
THEOREM PlacesTrue == Spec => []ChartsAreInPlace
<1>1. Init => MenuInPlace
  <2> SUFFICES ASSUME Init PROVE MenuInPlace
    OBVIOUS
  <2>1. FilingRight(Filing({}))
    BY NoneFiled
  <2> QED
    BY <2>1 DEF Init, MenuInit, MenuInPlace
<1>2. MenuInPlace /\ [Next]_dashboardVars => MenuInPlace'
  <2>1. ASSUME MenuInPlace, UNCHANGED menuVars
        PROVE  MenuInPlace'
    BY <2>1 DEF MenuInPlace, menuVars
  <2> QED
    BY <2>1, NextInPlace DEF Next, dashboardVars
<1> QED
  BY <1>1, <1>2, InPlace, PTL DEF Spec
=============================================================================
