-------------------------- MODULE LogViewerProofs --------------------------
(***************************************************************************)
(* Proofs about LogViewer: whatever is logged, entered, applied, dismissed *)
(* or lost, localStorage restores the settings that are in force.  It is   *)
(* not enough that Apply stores what has changed: it stores what the form  *)
(* holds and takes over what the columns of the log allow, so the proof    *)
(* follows the form from its opening on.                                   *)
(***************************************************************************)
EXTENDS LogViewer, TLAPS

(* What the proof needs to know of a set of settings.                      *)
Typed(f) == Keys \subseteq DOMAIN f /\ f.dates \in BOOLEAN /\ f.auto \in BOOLEAN

(* The settings that browser storage restores agree with f.                *)
Keeps(st, f, view) ==
    LET kept == Restore(st, view) IN \A k \in Keys : kept[k] = f[k]

(* The form differs from the settings in force only where setFilterSettings*)
(* will take its value.                                                    *)
FormAgrees ==
    /\ form = <<form[1]>> /\ Typed(form[1])
    /\ ~budget.view.auto => form[1].auto = page.settings.auto
    /\ ~(budget.view.dates /\ "time" \in page.sections) =>
           form[1].dates = page.settings.dates

(* The inductive invariant.                                                *)
Inv ==
    /\ budget.view.auto \in BOOLEAN /\ budget.view.dates \in BOOLEAN
    /\ "view" \in DOMAIN budget /\ {"settings", "sections"} \subseteq DOMAIN page
    /\ Typed(page.settings)
    /\ Keeps(stored, page.settings, budget.view)
    /\ form # Unset => FormAgrees

(* What is restored is settings of the right types.                        *)
LEMMA RestoreTyped ==
  ASSUME NEW st, NEW view, view.auto \in BOOLEAN, view.dates \in BOOLEAN
  PROVE  /\ DOMAIN Restore(st, view) = Keys
         /\ Restore(st, view).dates \in BOOLEAN /\ Restore(st, view).auto \in BOOLEAN
  BY DEF Restore, Keys

(* saveSettingsToLocalStorage() keeps the settings that are taken over.    *)
LEMMA SaveKeeps ==
  ASSUME NEW st, NEW view, NEW old, NEW new,
         view.auto \in BOOLEAN, view.dates \in BOOLEAN, Typed(old), Typed(new),
         Keeps(st, old, view),
         ~view.auto => new.auto = old.auto, ~view.dates => new.dates = old.dates
  PROVE  Keeps(Save(st, old, new, view), new, view)
<1> DEFINE kept == Save(st, old, new, view)
<1>1. /\ Restore(st, view).tail = old.tail /\ Restore(st, view).sort = old.sort
      /\ Restore(st, view).dates = old.dates /\ Restore(st, view).auto = old.auto
  BY DEF Keeps, Keys
<1>2. \A k \in Keys : kept[k] = IF new[k] # old[k] /\ (k = "dates" => view.dates)
                                                  /\ (k = "auto" => view.auto)
                                THEN <<new[k]>> ELSE st[k]
  BY DEF Save
<1>3. \A v : <<v>> # Unset /\ <<v>>[1] = v
  BY DEF Unset
<1> HIDE DEF kept
<1>4. Restore(kept, view).tail = new.tail
  <2>1. CASE new.tail # old.tail
    BY <1>2, <1>3, <2>1 DEF Restore, Keys
  <2>2. CASE new.tail = old.tail
    <3>1. kept.tail = st.tail
      BY <1>2, <2>2 DEF Keys
    <3> QED
      BY <1>1, <2>2, <3>1 DEF Restore
  <2> QED
    BY <2>1, <2>2
<1>5. Restore(kept, view).sort = new.sort
  <2>1. CASE new.sort # old.sort
    BY <1>2, <1>3, <2>1 DEF Restore, Keys
  <2>2. CASE new.sort = old.sort
    <3>1. kept.sort = st.sort
      BY <1>2, <2>2 DEF Keys
    <3> QED
      BY <1>1, <2>2, <3>1 DEF Restore
  <2> QED
    BY <2>1, <2>2
<1>6. Restore(kept, view).dates = new.dates
  <2>1. CASE new.dates # old.dates
    <3>1. view.dates = TRUE /\ kept.dates = <<new.dates>>
      BY <1>2, <2>1 DEF Keys
    <3>2. kept.dates # Unset /\ kept.dates[1] = new.dates
      BY <1>3, <3>1
    <3> QED
      BY <3>1, <3>2 DEF Restore, Typed
  <2>2. CASE new.dates = old.dates
    <3>1. kept.dates = st.dates
      BY <1>2, <2>2 DEF Keys
    <3> QED
      BY <1>1, <2>2, <3>1 DEF Restore
  <2> QED
    BY <2>1, <2>2
<1>7. Restore(kept, view).auto = new.auto
  <2>1. CASE new.auto # old.auto
    <3>1. view.auto = TRUE /\ kept.auto = <<new.auto>>
      BY <1>2, <2>1 DEF Keys
    <3>2. kept.auto # Unset /\ kept.auto[1] = new.auto
      BY <1>3, <3>1
    <3> QED
      BY <3>1, <3>2 DEF Restore, Typed
  <2>2. CASE new.auto = old.auto
    <3>1. kept.auto = st.auto
      BY <1>2, <2>2 DEF Keys
    <3> QED
      BY <1>1, <2>2, <3>1 DEF Restore
  <2> QED
    BY <2>1, <2>2
<1> QED
  BY <1>4, <1>5, <1>6, <1>7 DEF Keeps, Keys, kept

(* Only the keys matter to what is kept.                                   *)
LEMMA KeepsSame ==
  ASSUME NEW st, NEW view, NEW f, NEW g, Keeps(st, f, view), \A k \in Keys : g[k] = f[k]
  PROVE  Keeps(st, g, view)
  BY DEF Keeps

(* setFilterSettings() takes the form over, as far as it matters here.     *)
LEMMA SettingsTaken ==
  ASSUME NEW old, NEW new, NEW sections, NEW view, Typed(old), Typed(new),
         ~(view.dates /\ "time" \in sections) => new.dates = old.dates
  PROVE  /\ Typed(SetFilterSettings(old, new, sections, view))
         /\ \A k \in Keys : SetFilterSettings(old, new, sections, view)[k] = new[k]
<1> DEFINE s == SetFilterSettings(old, new, sections, view)
<1>1. Keys \subseteq DOMAIN s
  BY DEF SetFilterSettings, Typed
<1>2. /\ s.tail = new.tail /\ s.sort = new.sort /\ s.auto = new.auto
      /\ s.dates = IF view.dates /\ "time" \in sections THEN new.dates ELSE old.dates
  BY DEF SetFilterSettings, Typed, Keys
<1> HIDE DEF s
<1>3. s.dates = new.dates
  BY <1>2
<1> QED
  BY <1>1, <1>2, <1>3 DEF Typed, Keys, s

(* A step that leaves settings, storage and view alone, and whose columns  *)
(* only grow.                                                              *)
LEMMA FormAlone ==
  ASSUME Inv, stored' = stored, budget'.view = budget.view, "view" \in DOMAIN budget',
         {"settings", "sections"} \subseteq DOMAIN page', page'.settings = page.settings,
         page.sections \subseteq page'.sections, form' \in {form, Unset}
  PROVE  Inv'
<1>1. CASE form' = Unset
  BY <1>1 DEF Inv, Keeps, Restore
<1>2. CASE form' = form
  BY <1>2 DEF Inv, FormAgrees
<1> QED
  BY <1>1, <1>2

(* Restoring at a visit brings the settings in force before it.            *)
LEMMA VisitKeeps ==
  ASSUME Inv, Visit
  PROVE  Inv'
<1> DEFINE kept == Restore(stored, budget.view)
<1>1. /\ stored' = stored /\ budget'.view = budget.view /\ "view" \in DOMAIN budget'
      /\ form' = Unset
  BY DEF Visit, Does, Inv
<1>2. /\ {"settings", "sections"} \subseteq DOMAIN page'
      /\ page'.settings = Unfiltered(kept)
  BY DEF Visit, Loaded
<1>3. DOMAIN kept = Keys /\ kept.dates \in BOOLEAN /\ kept.auto \in BOOLEAN
  BY RestoreTyped DEF Inv
<1>4. Keys \subseteq DOMAIN page'.settings /\ \A k \in Keys : page'.settings[k] = kept[k]
  BY <1>2 DEF Unfiltered, Keys
<1>5. Typed(page'.settings)
  BY <1>3, <1>4 DEF Typed, Keys
<1>6. Keeps(stored, page'.settings, budget.view)
  BY <1>4 DEF Keeps
<1> QED
  BY <1>1, <1>2, <1>5, <1>6 DEF Inv

(* The page as it is first loaded has nothing stored.                      *)
LEMMA InitInv == ASSUME Init PROVE Inv
<1> DEFINE kept == Restore(Absent, budget.view)
<1>1. PICK sc \in Scenarios : budget = sc
  BY DEF Init
<1>2. /\ budget.view.auto \in BOOLEAN /\ budget.view.dates \in BOOLEAN
      /\ "view" \in DOMAIN budget
  BY <1>1, LogAssumption DEF LogAssumption, Views
<1>3. /\ {"settings", "sections"} \subseteq DOMAIN page /\ stored = Absent /\ form = Unset
      /\ page.settings = Unfiltered(kept)
  BY DEF Init
<1>4. DOMAIN kept = Keys /\ kept.dates \in BOOLEAN /\ kept.auto \in BOOLEAN
  BY <1>2, RestoreTyped
<1>5. Keys \subseteq DOMAIN page.settings /\ \A k \in Keys : page.settings[k] = kept[k]
  BY <1>3 DEF Unfiltered, Keys
<1>6. Typed(page.settings)
  BY <1>4, <1>5 DEF Typed, Keys
<1>7. Keeps(stored, page.settings, budget.view)
  BY <1>3, <1>5 DEF Keeps
<1> QED
  BY <1>2, <1>3, <1>6, <1>7 DEF Inv

(* onSubmitFilter() stores what it takes over.                             *)
LEMMA ApplyKeeps ==
  ASSUME Inv, Apply
  PROVE  Inv'
<1> DEFINE settings == SetFilterSettings(page.settings, form[1], page.sections, budget.view)
<1>1. /\ stored' = Save(stored, page.settings, form[1], budget.view)
      /\ budget' = budget /\ form' = form /\ form # Unset
      /\ {"settings", "sections"} \subseteq DOMAIN page'
      /\ page'.settings = settings /\ page'.sections = page.sections
  BY DEF Apply, Reload, Inv
<1>2. FormAgrees
  BY <1>1 DEF Inv
<1>3. Typed(settings) /\ \A k \in Keys : settings[k] = form[1][k]
  BY <1>2, SettingsTaken DEF Inv, FormAgrees
<1>4. Keeps(stored', form[1], budget.view)
  BY <1>1, <1>2, SaveKeeps DEF Inv, FormAgrees
<1>5. Keeps(stored', settings, budget.view)
  BY <1>3, <1>4, KeepsSame
<1>6. settings.auto = form[1].auto /\ settings.dates = form[1].dates
  BY <1>3 DEF Keys
<1> HIDE DEF settings
<1>7. FormAgrees'
  BY <1>1, <1>2, <1>6 DEF FormAgrees
<1> QED
  BY <1>1, <1>3, <1>5, <1>7 DEF Inv

(* The user edits only what the widgets that are there allow.              *)
LEMMA EditKeeps ==
  ASSUME Inv, NEW f \in Forms, EditForm(f)
  PROVE  Inv'
<1> DEFINE g == form'[1]
<1>1. /\ stored' = stored /\ budget' = budget /\ page' = page /\ form # Unset
  BY DEF EditForm
<1>2. FormAgrees
  BY <1>1 DEF Inv
<1>3. f.auto \in BOOLEAN /\ f.dates \in BOOLEAN
  BY LogAssumption DEF LogAssumption
<1>4. PICK e : /\ form' = <<e>>
               /\ e = [form[1] EXCEPT
                         !.tail = f.tail, !.sort = f.sort, !.msg = f.msg,
                         !.auto = IF budget.view.auto THEN f.auto ELSE @,
                         !.dates = IF budget.view.dates /\ "time" \in page.sections
                                   THEN f.dates ELSE @,
                         !.time = IF "time" \in page.sections THEN f.time ELSE @,
                         !.host = IF "host" \in page.sections THEN f.host ELSE @,
                         !.level = IF "level" \in page.sections THEN f.level ELSE @,
                         !.facility = IF "facility" \in page.sections THEN f.facility ELSE @]
  BY DEF EditForm
<1>5. /\ Keys \subseteq DOMAIN e
      /\ e.auto = IF budget.view.auto THEN f.auto ELSE form[1].auto
      /\ e.dates = IF budget.view.dates /\ "time" \in page.sections
                   THEN f.dates ELSE form[1].dates
  BY <1>2, <1>4 DEF FormAgrees, Typed, Keys
<1>6. form' = <<form'[1]>> /\ form'[1] = e
  BY <1>4
<1>7. Typed(e)
  BY <1>2, <1>3, <1>5 DEF FormAgrees, Typed
<1>8. /\ ~budget.view.auto => e.auto = page.settings.auto
      /\ ~(budget.view.dates /\ "time" \in page.sections) => e.dates = page.settings.dates
  BY <1>2, <1>5 DEF FormAgrees
<1>9. FormAgrees'
  BY <1>1, <1>6, <1>7, <1>8 DEF FormAgrees
<1> QED
  BY <1>1, <1>9 DEF Inv

(* The form opens on the settings in force.                                *)
LEMMA OpenKeeps ==
  ASSUME Inv, OpenModal
  PROVE  Inv'
<1>1. /\ stored' = stored /\ page' = page /\ form' = <<page.settings>>
      /\ budget'.view = budget.view /\ "view" \in DOMAIN budget'
  BY DEF OpenModal, Does, Inv
<1>2. form'[1] = page.settings
  BY <1>1
<1>3. FormAgrees'
  BY <1>1, <1>2 DEF FormAgrees, Inv
<1> QED
  BY <1>1, <1>3 DEF Inv

(* Automatic refreshes leave the settings alone; they may find columns.    *)
LEMMA AutoKeeps ==
  ASSUME Inv, NEW i \in Polls, AutoStep(i)
  PROVE  Inv'
<1>1. CASE PollTick(i) \/ ServeAuto(i)
  BY <1>1, FormAlone DEF PollTick, ServeAuto, Inv
<1>2. CASE HashArrives(i)
  BY <1>2, FormAlone DEF HashArrives, Inv
<1>3. CASE DataArrives(i)
  BY <1>3, FormAlone DEF DataArrives, Reloaded, Inv
<1>4. CASE AutoFails(i)
  <2>1. budget'.view = budget.view /\ "view" \in DOMAIN budget'
    BY <1>4 DEF AutoFails, Fails, Inv
  <2> QED
    BY <1>4, <2>1, FormAlone DEF AutoFails, Inv
<1> QED
  BY <1>1, <1>2, <1>3, <1>4 DEF AutoStep

(* So do the replies to the buttons.                                       *)
LEMMA AnswerKeeps ==
  ASSUME Inv, Answer
  PROVE  Inv'
<1>1. CASE ServeManual \/ DownloadArrives
  BY <1>1, FormAlone DEF ServeManual, DownloadArrives, Inv
<1>2. CASE ReloadArrives
  <2>1. /\ {"settings", "sections"} \subseteq DOMAIN page'
        /\ page'.settings = page.settings /\ page.sections \subseteq page'.sections
    BY <1>2 DEF ReloadArrives, Reloaded, Inv
  <2> QED
    BY <1>2, <2>1, FormAlone DEF ReloadArrives, Inv
<1>3. CASE ManualFails
  <2>1. budget'.view = budget.view /\ "view" \in DOMAIN budget'
    BY <1>3 DEF ManualFails, Fails, Inv
  <2>2. /\ {"settings", "sections"} \subseteq DOMAIN page'
        /\ page'.settings = page.settings /\ page'.sections = page.sections
    BY <1>3 DEF ManualFails, Inv
  <2> QED
    BY <1>3, <2>1, <2>2, FormAlone DEF ManualFails
<1> QED
  BY <1>1, <1>2, <1>3 DEF Answer

(* So do the buttons themselves, and closing the form.                     *)
LEMMA UserKeeps ==
  ASSUME Inv, User
  PROVE  Inv'
<1>1. CASE Refresh \/ MoreEntries \/ AllEntries \/ DownloadLog
  <2>1. /\ stored' = stored /\ form' = form
        /\ budget'.view = budget.view /\ "view" \in DOMAIN budget'
    BY <1>1 DEF Refresh, MoreEntries, AllEntries, DownloadLog, Does, Inv
  <2>2. /\ {"settings", "sections"} \subseteq DOMAIN page'
        /\ page'.settings = page.settings /\ page'.sections = page.sections
    BY <1>1 DEF Refresh, MoreEntries, AllEntries, DownloadLog, Reload, Inv
  <2> QED
    BY <2>1, <2>2, FormAlone
<1>2. CASE Dismiss
  BY <1>2, FormAlone DEF Dismiss, Inv
<1> QED
  BY <1>1, <1>2, OpenKeeps, ApplyKeeps, EditKeeps DEF User

(* SettingsAreKept: after any course of polls, edits, failures and visits, *)
(* a new visit restores the settings that are in force.                    *)
THEOREM SettingsKept == Spec => []SettingsAreKept
<1>1. ASSUME Inv, [Next]_vars
      PROVE  Inv'
  <2>1. CASE UNCHANGED vars \/ \E e \in Entries : Logged(e)
    <3>1. stored' = stored /\ form' = form /\ page' = page
      BY <2>1 DEF vars, Logged
    <3>2. budget'.view = budget.view /\ "view" \in DOMAIN budget'
      BY <2>1, <1>1 DEF vars, Logged, Does, Inv
    <3> QED
      BY <1>1, <3>1, <3>2, FormAlone DEF Inv
  <2> QED
    BY <1>1, <2>1, AutoKeeps, AnswerKeeps, UserKeeps, VisitKeeps DEF Next
<1>2. Inv => SettingsAreKept
  BY DEF Inv, Keeps, SettingsAreKept
<1> QED
  BY <1>1, <1>2, InitInv, PTL DEF Spec
=============================================================================
