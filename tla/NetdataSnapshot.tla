--------------------------- MODULE NetdataSnapshot ---------------------------
(***************************************************************************)
(* Snapshots of the dashboard (main.js): the export, which takes over the  *)
(* settings and the time frame while it fetches chart after chart, and the *)
(* import, which puts a file in place of the dashboard.  Both first load   *)
(* two libraries, if nobody has asked for them.                            *)
(***************************************************************************)
EXTENDS NetdataView

-----------------------------------------------------------------------------
(* Import.                                                                 *)

(* loadSnapshotPreflight(), or a drop: the file is read.                   *)
PickFile(file) ==
    /\ page.phase = "live" /\ "load" \in dialogs.shown /\ Len(import.reading) < 2 /\ Does("import")
    /\ import' = [import EXCEPT !.reading = Append(@, file)]
    /\ UNCHANGED <<page, pausing, dialogs, dropdown, view, address, settings, export, libs>>

(* The file is taken once it is read.  One that is no snapshot disables    *)
(* the button, and leaves the file before it in place.                     *)
FileRead(i, ok) ==
    /\ i \in DOMAIN import.reading /\ Fails(ok)
    /\ import' = [import EXCEPT !.reading = RemoveAt(@, i), !.enabled = ok,
                                !.file = IF ok THEN <<import.reading[i]>> ELSE @]
    /\ UNCHANGED <<page, pausing, dialogs, dropdown, view, address, settings, export, libs>>

(* NETDATA.globalReset().                                                  *)
GlobalReset(s) ==
    Unpause(SetupUnderlay([ClearMaster(s) EXCEPT !.view.panTold = FALSE]))

(* The dashboard is dropped, and set up again from the file.               *)
LoadSnapshot(s) ==
    LET file == s.import.file[1] IN
    Pause([GlobalReset(HideDialog(s, "load")) EXCEPT
               !.page.snapshot = TRUE, !.page.phase = "pausing", !.page.xss = "off",
               !.import.span = file.span, !.import.enabled = FALSE,
               !.address.memory.highlight = file.highlight],
          "init")

-----------------------------------------------------------------------------
(* Export.                                                                 *)

(* The settings of an export take the place of those in force, which are   *)
(* put aside; without a frame the charts are set to the last one, which    *)
(* has no effect with the synchronisation switched off.                    *)
SaveSnapshot(s) ==
    LET free   == s.view.master = <<>>
        framed == IF free THEN SetMaster(s, LastSpan) ELSE s
        run    == [left |-> Charts, aside |-> s.settings.now.stop_updates, clears |-> free,
                   span |-> framed.view.master, ok |-> 0, failed |-> 0, died |-> FALSE]
    IN [framed EXCEPT !.export.stop = FALSE, !.export.enabled = FALSE,
                      !.export.runs = Append(@, run),
                      !.settings.now.stop_updates = FALSE, !.settings.now.fake = TRUE]

(* saveSnapshotRestore(): the dialog goes, the settings put aside and the  *)
(* frame come back, the charts run.                                        *)
SaveSnapshotRestore(s, i) ==
    LET run  == s.export.runs[i]
        back == [HideDialog(s, "save") EXCEPT !.settings.now.stop_updates = run.aside]
        free == IF run.clears THEN ClearMaster(back) ELSE back
    IN Unpause([free EXCEPT !.settings.now.fake = FALSE, !.export.enabled = TRUE,
                            !.export.runs = RemoveAt(@, i)])

(* update_chart(): a chart arrives or fails; the last one ends the export  *)
(* with a file, a cancellation is noticed before the next one.  Packing    *)
(* what arrived throws while the library for it is not there.              *)
ChartPacked(s, i, ok) ==
    LET run  == s.export.runs[i]
        next == [run EXCEPT !.left = @ - 1, !.ok = IF ok THEN @ + 1 ELSE @,
                            !.failed = IF ok THEN @ ELSE @ + 1]
        t    == [s EXCEPT !.export.runs[i] = next]
    IN IF next.left = 0
       THEN SaveSnapshotRestore(
                [t EXCEPT !.export.saved = <<[ok |-> next.ok, failed |-> next.failed,
                                              span |-> next.span]>>], i)
       ELSE IF s.export.stop THEN SaveSnapshotRestore(t, i) ELSE t

(* A cancelled export asks for nothing more.                               *)
ExportUntilStopped(i, ok) ==
    /\ i \in DOMAIN export.runs /\ ~export.runs[i].died /\ ~export.stop /\ Fails(ok)
    /\ Become(IF ok /\ ~libs.pako.here
              THEN [Now EXCEPT !.export.runs[i].died = TRUE]
              ELSE ChartPacked(Now, i, ok))
    /\ UNCHANGED libs

ExportChart(i, ok) ==
    /\ i \in DOMAIN export.runs /\ ~export.runs[i].died /\ Fails(ok)
    /\ Become(IF ok /\ ~libs.pako.here
              THEN [Now EXCEPT !.export.runs[i].died = TRUE]
              ELSE ChartPacked(Now, i, ok))
    /\ UNCHANGED libs

-----------------------------------------------------------------------------
(* loadPako() and loadLzString(): only the first to ask waits, the next    *)
(* goes on at once.                                                        *)

Body(who) == IF who = "import" THEN LoadSnapshot(Now) ELSE SaveSnapshot(Now)

LoadLzString(l, who) ==
    IF l.lz.asked THEN libs' = l /\ Become(Body(who))
    ELSE /\ libs' = [l EXCEPT !.lz = [asked |-> TRUE, here |-> FALSE, waits |-> who]]
         /\ Become(Now)
LoadPako(who) ==
    IF libs.pako.asked THEN LoadLzString(libs, who)
    ELSE /\ libs' = [libs EXCEPT !.pako = [asked |-> TRUE, here |-> FALSE, waits |-> who]]
         /\ Become(Now)

PakoArrives ==
    /\ libs.pako.waits # "nobody"
    /\ LoadLzString([libs EXCEPT !.pako = [asked |-> TRUE, here |-> TRUE, waits |-> "nobody"]],
                    libs.pako.waits)
    /\ UNCHANGED budget
LzStringArrives ==
    /\ libs.lz.waits # "nobody"
    /\ libs' = [libs EXCEPT !.lz = [asked |-> TRUE, here |-> TRUE, waits |-> "nobody"]]
    /\ Become(Body(libs.lz.waits))
    /\ UNCHANGED budget

(* The buttons.  That of an export is there until the export has begun.    *)
Import ==
    /\ page.phase = "live" /\ "load" \in dialogs.shown /\ import.enabled /\ Does("import")
    /\ LoadPako("import")
Export ==
    /\ page.phase = "live" /\ "save" \in dialogs.shown /\ export.enabled
    /\ Len(export.runs) < 2 /\ Does("export")
    /\ LoadPako("export")

-----------------------------------------------------------------------------
(* A page is loaded, with a frame and a highlight in its address or none,  *)
(* from this server or for another one, to be seen or to be printed.       *)
NoHash == [view |-> <<>>, highlight |-> <<>>, always |-> FALSE]
Linked == [view |-> <<LastSpan>>, highlight |-> <<LastSpan>>, always |-> TRUE]
Snapshots == { [span |-> span, highlight |-> h] : span \in Spans, h \in {<<>>, <<LastSpan>>} }

NewSettings == [stop_updates |-> TRUE, sync |-> TRUE, fake |-> FALSE]
ViewInit ==
    \E s \in { LoadPage([settings |-> [kept |-> NewSettings]],
                        IF "linked" \in budget.does THEN Linked ELSE NoHash,
                        IF "remote" \in budget.does THEN "ask" ELSE "off",
                        "paper" \in budget.does) } :
        /\ page = [s.page EXCEPT !.showAlarms = "showAlarms" \in budget.does]
        /\ pausing = s.pausing /\ dialogs = s.dialogs /\ dropdown = s.dropdown
        /\ view = s.view /\ address = s.address /\ settings = s.settings
        /\ import = s.import /\ export = s.export /\ libs = NoLibs

ComesUp ==
    \/ RefresherPauses \/ CustomInfoArrives \/ PrintChart
    \/ \E answer \in {"off", "keep"} : AnswerXss(answer)
    \/ \E ok \in BOOLEAN : ChartsArrive(ok)
DialogStep ==
    \/ AlarmsTimer \/ OpenMenu \/ CloseMenu
    \/ \E d \in Dialogs : OpenDialog(d) \/ CloseDialog(d) \/ DialogGone(d)
    \/ \E span \in Spans : FollowAlarm(span)
ViewStep ==
    \/ \E span \in Spans : Pan(span)
    \/ \E span, viewport \in Spans : Highlight(span, viewport)
    \/ ResetView \/ ClearHighlight \/ ShowHighlight
    \/ \E option \in {"stop_updates", "sync"} : Toggle(option)
    \/ Reload \/ ResetOptions \/ PrintDashboard
SnapshotStep ==
    \/ \E file \in Snapshots : PickFile(file)
    \/ \E i \in DOMAIN import.reading, ok \in BOOLEAN : FileRead(i, ok)
    \/ Import \/ Export \/ PakoArrives \/ LzStringArrives
    \/ \E i \in DOMAIN export.runs, ok \in BOOLEAN : ExportChart(i, ok)

ViewNext ==
    /\ Here
    /\ ComesUp \/ DialogStep \/ ViewStep \/ SnapshotStep

(* The refresher keeps running and requests end, whatever the user does;   *)
(* nobody leaves the menu or a dialog open for good.                       *)
ViewFairness ==
    /\ WF_<<page, viewVars, budget>>(RefresherPauses)
    /\ WF_<<page, viewVars, budget>>(\E ok \in BOOLEAN : ChartsArrive(ok))
    /\ WF_<<page, viewVars, budget>>(CustomInfoArrives)
    /\ WF_<<page, viewVars, budget>>(PrintChart)
    /\ WF_<<page, viewVars, budget>>(PakoArrives)
    /\ WF_<<page, viewVars, budget>>(LzStringArrives)
    /\ WF_<<page, viewVars, budget>>(CloseMenu)
    /\ WF_<<page, viewVars, budget>>(\E d \in Dialogs : CloseDialog(d))
    /\ WF_<<page, viewVars, budget>>(\E i \in DOMAIN export.runs, ok \in BOOLEAN : ExportChart(i, ok))

-----------------------------------------------------------------------------
(* A frame on view is in the address bar, and so is the highlight: a link  *)
(* that is copied, a reload and a print show the same, whatever moved them *)
(* (urlOptions.hashUpdate(), main.js).  A snapshot keeps out of the        *)
(* address.  A page that is loaded with the synchronisation switched off   *)
(* is live although its address tells a frame.                             *)
HashTellsTheView ==
    page.phase = "live" /\ ~page.snapshot =>
        /\ view.master # <<>> => address.bar.view = view.master
        /\ address.bar.highlight = view.highlight

(* The charts are paused for a dialog, the menu or the loading of the page *)
(* and run again when those are over (show.bs.modal ... hide.bs.modal,     *)
(* finalizePage()).  A dialog that is shown while it is there is counted   *)
(* twice and hidden once, so that nobody lets them run: depth tells.       *)
ChartsRunAgain ==
    []<>(\/ ~pausing.paused /\ pausing.callback = "null"
         \/ page.phase # "live" \/ dialogs.depth > Cardinality(dialogs.shown))

(* A page that is loaded, and a snapshot that is imported, come up, are    *)
(* asked about XSS or fail for lack of charts, unless the my-netdata menu  *)
(* takes the place of the callback they wait for (initializeDynamicDashboard*)
(* (), NETDATA.pause()); a page to be printed is printed.                  *)
Displaced == page.phase = "pausing" /\ pausing.callback # "init"
PageComesUp ==
    Here /\ page.phase \in {"pausing", "printing"} ~>
        page.phase \in {"live", "asking", "failed", "printed"} \/ Displaced

(* An export ends, with a file or cancelled, unless it threw for lack of a *)
(* library (saveSnapshot(), main.js).                                      *)
ExportEnds == []<>(\A i \in DOMAIN export.runs : export.runs[i].died)

=============================================================================
