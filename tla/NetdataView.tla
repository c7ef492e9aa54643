----------------------------- MODULE NetdataView -----------------------------
(***************************************************************************)
(* The dashboard page: how it comes up and pauses the charts meanwhile,    *)
(* its dialogs and its menu, which pause them as well, the time frame and  *)
(* the highlight on view with the address bar that keeps them, the         *)
(* settings, printing, and the import of a snapshot.                       *)
(*                                                                         *)
(* Handlers are written as functions from states to states, so that one    *)
(* that calls others is their composition.                                 *)
(***************************************************************************)
EXTENDS NetdataBase

CONSTANTS Spans,        \* time frames
          Charts,       \* how many charts the dashboard has
          MaxDepth      \* bound: dialogs counted as open

Dialogs == {"options", "alarms", "save", "load"}
Callbacks == {"null", "init", "noop"}
LastSpan == CHOOSE span \in Spans : TRUE
ASSUME ViewAssumption ==
    Spans # {} /\ IsFiniteSet(Spans) /\ Charts \in Nat \ {0} /\ MaxDepth \in Nat

VARIABLES
    pausing,    \* NETDATA.options.pause and .pauseCallback
    dialogs,    \* the dialogs on the page, modal_depth, netdata_paused_on_modal and
                \* modalHiddenCallback
    dropdown,   \* whether the my-netdata menu is open
    view,       \* globalPanAndZoom and globalChartUnderlay
    address,    \* urlOptions, and the address bar
    settings,   \* NETDATA.options.current, and what localStorage keeps of it
    import,     \* tmpSnapshotData, the readers of files, the Import button
    export,     \* saveSnapshotStop, the Export button, the exports that go on and the
                \* file saved last
    libs        \* the libraries loaded on demand, and who waits for them

viewVars == <<pausing, dialogs, dropdown, view, address, settings, import, export, libs>>

Here == Runs("view") \/ Runs("export")
Now == [page |-> page, pausing |-> pausing, dialogs |-> dialogs, dropdown |-> dropdown,
        view |-> view, address |-> address, settings |-> settings, import |-> import,
        export |-> export]
Become(next) == \E s \in {next} :
    /\ page' = s.page /\ pausing' = s.pausing /\ dialogs' = s.dialogs
    /\ dropdown' = s.dropdown /\ view' = s.view /\ address' = s.address
    /\ settings' = s.settings /\ import' = s.import /\ export' = s.export

-----------------------------------------------------------------------------
(* urlOptions: what the address bar tells of the page.                     *)

GenHash(memory) == memory
HashUpdate(s) == [s EXCEPT !.address.bar = GenHash(s.address.memory)]

(* Without hashUpdate().                                                   *)
PanAndZoomUntold(s, span) ==
    IF s.page.snapshot THEN s ELSE [s EXCEPT !.address.memory.view = span]

NetdataPanAndZoomCallback(s, span) ==
    IF s.page.snapshot THEN s
    ELSE HashUpdate([s EXCEPT !.address.memory.view = span])

NetdataHighlightCallback(s, span) ==
    HashUpdate([s EXCEPT !.address.memory.highlight = IF s.page.snapshot THEN <<>> ELSE span])

(* globalPanAndZoom.setMaster(), clearMaster().                            *)
SetMaster(s, span) ==
    LET t == [s EXCEPT !.view.master = <<span>>] IN
    IF ~s.settings.now.sync THEN s
    ELSE IF s.view.panTold THEN NetdataPanAndZoomCallback(t, <<span>>) ELSE t

ClearMaster(s) ==
    LET t == [s EXCEPT !.view.master = <<>>] IN
    IF s.view.panTold THEN NetdataPanAndZoomCallback(t, <<>>) ELSE t

(* globalChartUnderlay.setup(), clear(): NETDATA.parseDom() calls one.     *)
SetupUnderlay(s) ==
    IF s.view.underlayTold THEN NetdataHighlightCallback(s, s.view.highlight) ELSE s
ClearUnderlay(s) == SetupUnderlay([s EXCEPT !.view.highlight = <<>>, !.view.at = <<>>])

-----------------------------------------------------------------------------
(* The page comes up.                                                      *)

Pause(s, callback) == IF s.pausing.paused THEN s ELSE [s EXCEPT !.pausing.callback = callback]
Unpause(s) == [s EXCEPT !.pausing = [paused |-> FALSE, callback |-> "null"]]

(* renderPage(): a highlight in the address is set up, any other dropped.  *)
RenderPage(s) ==
    IF s.address.memory.highlight # <<>>
    THEN [s EXCEPT !.view.highlight = s.address.memory.highlight,
                   !.view.at = s.address.memory.view]
    ELSE ClearUnderlay(s)

(* finalizePage(): the frame of the address is set while nobody is told,   *)
(* that of a snapshot after the page has been let run.                     *)
FinalizePage(s) ==
    LET silent == [SetupUnderlay(s) EXCEPT !.view.panTold = FALSE, !.view.underlayTold = FALSE]
        framed == IF s.address.memory.view # <<>>
                  THEN SetMaster(silent, s.address.memory.view[1]) ELSE silent
        told   == Unpause([framed EXCEPT !.view.panTold = TRUE, !.view.underlayTold = TRUE,
                                         !.page.phase = "live", !.page.ready = TRUE])
    IN IF s.page.snapshot THEN SetMaster(told, s.import.span) ELSE told

(* printPage(): the settings for paper, the frame, and chart by chart.     *)
PrintPage(s) ==
    SetMaster([SetupUnderlay(s) EXCEPT !.page.phase = "printing", !.page.left = Charts,
                                       !.settings.now.stop_updates = FALSE],
              IF s.address.memory.view # <<>> THEN s.address.memory.view[1] ELSE LastSpan)

(* initializeDynamicDashboardWithData().                                   *)
WithData(s) == IF s.page.print THEN PrintPage(RenderPage(s)) ELSE FinalizePage(RenderPage(s))

(* initializeChartsAndCustomInfo(): a snapshot has its charts with it.     *)
InitializeCharts(s) ==
    IF s.page.snapshot THEN WithData(s) ELSE [s EXCEPT !.page.phase = "downloading"]

(* The refresher finds that it is to pause, and calls back.                *)
RefresherPauses ==
    /\ Here /\ ~pausing.paused /\ pausing.callback # "null"
    /\ LET s == [Now EXCEPT !.pausing.paused = TRUE] IN
       Become(IF pausing.callback # "init" THEN s
              ELSE IF page.xss = "ask" THEN [s EXCEPT !.page.phase = "asking"]
              ELSE InitializeCharts(s))
    /\ UNCHANGED <<libs, budget>>

(* xssModalDisableXss(), xssModalKeepXss(): with the checks kept, the      *)
(* server's own decoration of the page is not run.                         *)
AnswerXss(answer) ==
    /\ page.phase = "asking"
    /\ Become(InitializeCharts([Now EXCEPT !.page.xss = answer]))
    /\ UNCHANGED <<libs, budget>>

(* downloadAll(): without the charts the page stays as it is, paused.      *)
ChartsArrive(ok) ==
    /\ page.phase = "downloading" /\ Fails(ok)
    /\ Become(IF ~ok THEN [Now EXCEPT !.page.phase = "failed"]
              ELSE IF page.xss = "keep" THEN WithData(Now)
              ELSE [Now EXCEPT !.page.phase = "decorating"])
    /\ UNCHANGED libs

(* loadCustomDashboardInfo(): loaded or not, the page goes on.             *)
CustomInfoArrives ==
    /\ page.phase = "decorating"
    /\ Become(WithData(Now))
    /\ UNCHANGED <<libs, budget>>

(* A chart too many is waited for.                                         *)
PrintOneMore ==
    /\ page.phase = "printing" /\ page.left > 0
    /\ Become([Now EXCEPT !.page.left = @ - 1,
                          !.page.phase = IF page.left = 0 THEN "printed" ELSE @])
    /\ UNCHANGED <<libs, budget>>

(* update_chart() of printPage(): the last chart opens the print dialog.   *)
PrintChart ==
    /\ page.phase = "printing"
    /\ Become([Now EXCEPT !.page.left = @ - 1,
                          !.page.phase = IF page.left = 1 THEN "printed" ELSE @])
    /\ UNCHANGED <<libs, budget>>

(* A load of the page: the address is parsed, and what it says of updates  *)
(* without focus wins over the settings kept.                              *)
ParseHash(bar) == bar
FreshSettings(kept, memory) ==
    [kept EXCEPT !.stop_updates = ~memory.always]

LoadPage(s, bar, xss, print) ==
    LET memory == ParseHash(bar) IN
    [page     |-> [NewPage EXCEPT !.print = print, !.xss = xss],
     pausing  |-> [paused |-> FALSE, callback |-> "init"],
     dialogs  |-> [shown |-> {}, depth |-> 0, fading |-> {}, ours |-> FALSE, after |-> <<>>],
     dropdown |-> FALSE,
     view     |-> [master |-> <<>>, highlight |-> <<>>, at |-> <<>>,
                   panTold |-> FALSE, underlayTold |-> FALSE],
     address  |-> [memory |-> memory, bar |-> bar],
     settings |-> [now |-> FreshSettings(s.settings.kept, memory),
                   kept |-> FreshSettings(s.settings.kept, memory)],
     import   |-> [file |-> <<>>, span |-> LastSpan, reading |-> <<>>, enabled |-> FALSE],
     export   |-> [stop |-> FALSE, enabled |-> TRUE, runs |-> <<>>, saved |-> <<>>]]
NoLib == [asked |-> FALSE, here |-> FALSE, waits |-> "nobody"]
NoLibs == [pako |-> NoLib, lz |-> NoLib]

-----------------------------------------------------------------------------
(* The dialogs.  Bootstrap tells of a show before it looks whether the     *)
(* dialog is there already, and of a hide whether it is there or not.      *)

(* Each dialog looks anew who has paused the charts.                       *)
ShownEach(s) ==
    LET ours == s.pausing.callback = "null" IN
    [(IF ours THEN Pause(s, "noop") ELSE s) EXCEPT !.dialogs.ours = ours,
                                                   !.dialogs.depth = @ + 1]

(* show.bs.modal: the first dialog pauses the charts, unless somebody has. *)
Shown(s) ==
    LET ours == s.pausing.callback = "null"
        t == IF s.dialogs.depth > 0 THEN s
             ELSE [(IF ours THEN Pause(s, "noop") ELSE s) EXCEPT !.dialogs.ours = ours]
    IN [t EXCEPT !.dialogs.depth = @ + 1]

(* hide.bs.modal: the last one lets them run.                              *)
Hidden(s) ==
    LET t == [s EXCEPT !.dialogs.depth = IF @ = 0 THEN 0 ELSE @ - 1] IN
    IF t.dialogs.depth > 0 \/ ~s.dialogs.ours THEN t
    ELSE [Unpause(t) EXCEPT !.dialogs.ours = FALSE]

(* saveSnapshotModalInit() enables the Export button, saveSnapshotCancel() *)
(* stops an export whenever its dialog is hidden.                          *)
ShowDialog(s, d) ==
    [Shown(s) EXCEPT !.dialogs.shown = @ \cup {d},
                     !.export.enabled = @ \/ d = "save"]
HideDialog(s, d) ==
    [Hidden(s) EXCEPT !.dialogs.shown = @ \ {d},
                      !.dialogs.fading = IF d \in s.dialogs.shown THEN @ \cup {d} ELSE @,
                      !.export.stop = @ \/ d = "save"]

Usable == Here /\ page.phase = "live" /\ dialogs.shown = {}

(* A click on a button of the page, when no dialog covers it.  The buttons *)
(* for alarms and for export are hidden over a snapshot.  A click closes   *)
(* the menu as well, after the dialog has found the charts paused by it.   *)
OpenDialog(d) ==
    /\ Usable /\ dialogs.depth < MaxDepth /\ Does("dialog")
    /\ d \in {"alarms", "save"} => ~page.snapshot
    /\ Become(IF dropdown THEN Unpause([ShowDialog(Now, d) EXCEPT !.dropdown = FALSE])
              ELSE ShowDialog(Now, d))
    /\ UNCHANGED libs

(* show_alarms in the address opens that dialog a second after the page    *)
(* is up, whatever is open by then.                                        *)
AlarmsTimer ==
    /\ page.phase = "live" /\ page.showAlarms /\ dialogs.depth < MaxDepth
    /\ Become([ShowDialog(Now, "alarms") EXCEPT !.page.showAlarms = FALSE])
    /\ UNCHANGED <<libs, budget>>

(* The close button of a dialog.                                           *)
CloseDialog(d) ==
    /\ d \in dialogs.shown
    /\ Become(HideDialog(Now, d))
    /\ UNCHANGED <<libs, budget>>

(* scrollToChartAfterHidingModal(): a raised alarm of the list takes the   *)
(* page to its chart, and to the time of the alarm, when the dialog has    *)
(* gone.                                                                   *)
FollowAlarm(span) ==
    /\ "alarms" \in dialogs.shown /\ Does("alarm")
    /\ Become(HideDialog([Now EXCEPT !.dialogs.after = <<span>>], "alarms"))
    /\ UNCHANGED libs

(* hidden.bs.modal: the end of the fading of any dialog runs what waits.   *)
DialogGone(d) ==
    /\ d \in dialogs.fading
    /\ LET s == [Now EXCEPT !.dialogs.fading = @ \ {d}, !.dialogs.after = <<>>] IN
       Become(IF dialogs.after = <<>> THEN s ELSE SetMaster(s, dialogs.after[1]))
    /\ UNCHANGED <<libs, budget>>

(* show.bs.dropdown and hidden.bs.dropdown of the my-netdata menu: its     *)
(* pause takes the place of one that waits, its end undoes any.            *)
OpenMenu ==
    /\ page.ready /\ dialogs.shown = {} /\ ~dropdown /\ Does("menu")
    /\ Become(Pause([Now EXCEPT !.dropdown = TRUE], "noop"))
    /\ UNCHANGED libs
CloseMenu ==
    /\ dropdown
    /\ Become(Unpause([Now EXCEPT !.dropdown = FALSE]))
    /\ UNCHANGED <<libs, budget>>

-----------------------------------------------------------------------------
(* The user changes the frame, the highlight and the settings.             *)

Pan(span) ==
    /\ Usable /\ Does("pan") /\ Become(SetMaster(Now, span)) /\ UNCHANGED libs
ResetView ==
    /\ Usable /\ view.master # <<>> /\ Does("pan")
    /\ Become(ClearMaster(Now)) /\ UNCHANGED libs

(* globalChartUnderlay.set(): the charts stay where they are when a part   *)
(* of them is highlighted.                                                 *)
Highlight(span, viewport) ==
    /\ Usable /\ Does("highlight")
    /\ view.master # <<>> => viewport = view.master[1]
    /\ Become(SetupUnderlay(SetMaster([Now EXCEPT !.view.highlight = <<span>>,
                                                  !.view.at = <<viewport>>], viewport)))
    /\ UNCHANGED libs

(* urlOptions.clearHighlight(), showHighlight().  The latter clears a      *)
(* frame only if it is that of the chart that is highlighted.              *)
ClearHighlight ==
    /\ Usable /\ view.highlight # <<>> /\ Does("highlight")
    /\ LET s == ClearUnderlay(Now) IN
       Become(IF view.master # <<>> THEN ClearMaster(s) ELSE s)
    /\ UNCHANGED libs
ShowHighlight ==
    /\ Usable /\ view.highlight # <<>> /\ view.at # <<>> /\ Does("highlight")
    /\ \E same \in BOOLEAN :
          Become(SetMaster(IF same /\ view.master # <<>> THEN ClearMaster(Now) ELSE Now,
                           view.at[1]))
    /\ UNCHANGED libs

(* NETDATA.setOption(): a value that is in force already is not kept.      *)
SetOption(s, option, value) ==
    IF s.settings.now[option] = value THEN s
    ELSE [s EXCEPT !.settings.now[option] = value, !.settings.kept[option] = value]

Toggle(option) ==
    /\ page.phase = "live" /\ "options" \in dialogs.shown /\ Does("options")
    /\ LET value == ~settings.now[option]
           told == IF option = "stop_updates"
                   THEN HashUpdate([Now EXCEPT !.address.memory.always = ~value]) ELSE Now
       IN Become(SetOption(told, option, value))
    /\ UNCHANGED libs

(* The theme and the help bubbles reload the page.                         *)
Reload ==
    /\ page.phase = "live" /\ "options" \in dialogs.shown /\ Does("options")
    /\ Become(LoadPage(Now, address.bar, "off", FALSE)) /\ libs' = NoLibs

(* printPreflight(): the page is opened again, to be printed.              *)
PrintDashboard ==
    /\ Usable /\ ~page.snapshot /\ Does("print")
    /\ Become(LoadPage(Now, GenHash(address.memory), "off", TRUE)) /\ libs' = NoLibs

(* resetDashboardOptions().                                                *)
ResetOptions ==
    /\ page.phase = "live" /\ "options" \in dialogs.shown /\ Does("options")
    /\ Become(SetOption(SetOption(Now, "stop_updates", TRUE), "sync", TRUE))
    /\ UNCHANGED libs
=============================================================================
