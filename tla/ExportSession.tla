---------------------------- MODULE ExportSession ----------------------------
(***************************************************************************)
(* MainWindow::exportSelected from the moment the progress dialog opens:   *)
(* the UI thread runs the dialog's event loop while the worker of          *)
(* ExportWalk mirrors the ticked roots.  The two share exportCancel_,      *)
(* exportDone_ (here: pc is in Finished) and the counters.  Any interleaving *)
(* of the Cancel button, the 150 ms timer and the worker's steps may occur. *)
(***************************************************************************)
EXTENDS ExportWalk

VARIABLES
  ui,             \* "dialog" (in exec()), "returned", "joining", "report"
  userCancelled,  \* exportUserCancelled_
  report          \* what the two message boxes say

uiVars == <<ui, userCancelled, report>>
sessionVars == <<vars, uiVars>>

NoReport == [files |-> 0, fails |-> 0, cycles |-> 0, cancelled |-> FALSE]

SessionInit ==
  /\ Init
  /\ ui = "dialog" /\ userCancelled = FALSE /\ report = NoReport

(* Cancel, Esc or the window's close button: canceled() sets both flags    *)
(* and the dialog hides itself, which ends exec().                         *)
CancelClick ==
  /\ ui = "dialog"
  /\ userCancelled' = TRUE
  /\ cancel' = TRUE
  /\ ui' = "returned"
  /\ UNCHANGED <<vol, opt, walkVars, pc, cur, dest, counters, report>>

(* Mutant: the timer closes the dialog whenever it fires.                  *)
Tick_always ==
  /\ ui = "dialog"
  /\ ui' = "returned"
  /\ UNCHANGED <<vars, userCancelled, report>>

(* Mutant: it waits for a first file.                                      *)
Tick_afterAFile ==
  /\ ui = "dialog" /\ pc \in Finished /\ files > 0
  /\ ui' = "returned"
  /\ UNCHANGED <<vars, userCancelled, report>>

(* The timer's slot sees exportDone_ and accepts the dialog.               *)
Tick ==
  /\ ui = "dialog" /\ pc \in Finished
  /\ ui' = "returned"
  /\ UNCHANGED <<vars, userCancelled, report>>

(* After exec(): stop the timer and have the worker unwind.                *)
StopWorker ==
  /\ ui = "returned"
  /\ cancel' = TRUE
  /\ ui' = "joining"
  /\ UNCHANGED <<vol, opt, walkVars, pc, cur, dest, counters, userCancelled, report>>

(* worker.join() returns, and the counters are read for the report.        *)
Join ==
  /\ ui = "joining" /\ pc \in Finished
  /\ ui' = "report"
  /\ report' = [files |-> files, fails |-> fails, cycles |-> cycles,
                cancelled |-> userCancelled]
  /\ UNCHANGED <<vars, userCancelled>>

WorkerStep == Worker /\ UNCHANGED uiVars

UiStep == Tick \/ StopWorker \/ Join

Reported == ui = "report" /\ UNCHANGED sessionVars

WorkerThrows == Throw /\ UNCHANGED uiVars

SessionNext == WorkerStep \/ WorkerThrows \/ UiStep \/ CancelClick \/ Reported

(* Two threads the system schedules, and a timer that fires every 150 ms   *)
(* as long as the event loop runs.  Nobody has to click Cancel.            *)
SessionSpec ==
  /\ SessionInit /\ [][SessionNext]_sessionVars
  /\ WF_sessionVars(WorkerStep) /\ WF_sessionVars(UiStep)

-----------------------------------------------------------------------------
(* The message box is shown only when the worker can no longer change what *)
(* it says, and it says what the worker ended with.                        *)
ReportIsFinal ==
  ui = "report" =>
    /\ pc \in Finished
    /\ report = [files |-> files, fails |-> fails, cycles |-> cycles,
                 cancelled |-> userCancelled]

(* A report that mentions neither a cancellation nor a failure is the      *)
(* report of a complete export, however clicks, ticks, stops and           *)
(* exceptions were ordered: setting exportCancel_ after exec() to unwind   *)
(* the worker never cuts an export short that was not cancelled.           *)
SilenceMeansComplete ==
  ui = "report" /\ ~report.cancelled /\ report.fails = 0 =>
    /\ report.files + skipped = Cardinality(FileRoutes)
    /\ report.cycles = Cardinality(RefusedRoutes)

(* Whatever loops are in the directories and whoever throws, the walk ends *)
(* and the dialog does not outlive it; a click on Cancel is answered by a  *)
(* report that says so.                                                    *)
SessionEnds ==
  /\ <>(ui = "report")
  /\ userCancelled ~> ui = "report" /\ report.cancelled

=============================================================================
