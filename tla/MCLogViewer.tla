---------------------------- MODULE MCLogViewer ----------------------------
(***************************************************************************)
(* Two entries with different levels and messages and a raw line, a log of *)
(* at most three, and a tail of two, so that the tail, more and all differ.*)
(***************************************************************************)
EXTENDS LogViewer

Sc(format, auto, dates, does, acts, fails) ==
    [view |-> [format |-> format, auto |-> auto, dates |-> dates],
     does |-> does, acts |-> acts, fails |-> fails]

MCScenarios ==
    { Sc("logd", TRUE, FALSE, {"log", "reload"}, 2, 0),
      Sc("logd", TRUE, FALSE, {"log", "modal"}, 2, 0),
      Sc("syslog_ng", TRUE, FALSE, {"log", "modal"}, 2, 0),
      Sc("logd", TRUE, FALSE, {"log", "reload"}, 2, 1),
      Sc("logd", TRUE, FALSE, {"log", "modal"}, 2, 1),
      Sc("dmesg", TRUE, TRUE, {"modal", "visit"}, 3, 0),
      Sc("dmesg", TRUE, TRUE, {"log", "reload"}, 2, 0),
      Sc("logd", FALSE, FALSE, {"log", "reload", "modal"}, 2, 1),
      Sc("logd", TRUE, FALSE, {"reload", "download"}, 1, 1) }

Entry(level, msg) ==
    [time |-> {"t"}, host |-> {"h"}, facility |-> {"f"}, level |-> {level}, msg |-> {msg}]
Line(msg) ==
    [f \in {"time", "host", "facility", "level"} |-> {None}] @@ [msg |-> {msg}]
MCEntries == { Entry("err", "x"), Entry("info", "y"), Line("x") }

Form(tail, sort, auto, level, word, re, not, valid) ==
    [tail |-> tail, sort |-> sort, dates |-> auto, auto |-> auto, time |-> NoPattern,
     host |-> NoPattern, facility |-> {}, level |-> level,
     msg |-> [word |-> word, re |-> re, not |-> not, valid |-> valid]]
MCForms ==
    { Form(2, "desc", TRUE, {}, "x", FALSE, FALSE, TRUE),
      Form(0, "asc", TRUE, {"err"}, "x", TRUE, TRUE, TRUE),
      Form(1, "asc", FALSE, {"info"}, "x", TRUE, FALSE, FALSE) }
=============================================================================
