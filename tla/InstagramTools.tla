---------------------------- MODULE InstagramTools ----------------------------
(***************************************************************************)
(* The desktop application of apps/instagram_tools/app.py: the window, on  *)
(* the Tk thread, composed with the worker thread of AutomationWorker.     *)
(*                                                                         *)
(* A callback of the window runs to its end before the next one, except    *)
(* that the confirmation box of an unfollow keeps the event loop running:  *)
(* _drain_events may run while it is open (dialog # 0), user input may     *)
(* not.  A drain is a loop of separate steps, because the worker puts      *)
(* events while it runs.                                                   *)
(*                                                                         *)
(* The list of a scan is identified by the number of its operation: the    *)
(* rows shown, and the account they were read for, are kept apart because  *)
(* the code keeps them in different attributes.                            *)
(***************************************************************************)
EXTENDS AutomationWorker

VARIABLES
  ui,             \* the Tk loop: "idle", "draining" or "destroyed"
  drainDue,       \* an _drain_events callback is scheduled
  running,        \* running_kind
  stopRequested,  \* stop_requested_kind
  closing,        \* closing
  candidates,     \* candidates and the tree rows: the scan they came from, or 0
  viewer,         \* scanned_viewer_id: the scan that set it, or 0
  selected,       \* some row of the tree is selected
  dialog,         \* the scan whose rows an open confirmation box names, or 0
  autoStatus,     \* auto_status_var
  cleanerStatus,  \* cleaner_status_var
  lock,           \* the instance lock is held by this process
  stopAsked       \* history: operations for which the user pressed Stop

resultVars == <<candidates, viewer, selected>>
statusVars == <<autoStatus, cleanerStatus>>
loopVars == <<ui, drainDue, closing, lock>>
uiVars == <<loopVars, running, stopRequested, resultVars, dialog, statusVars, stopAsked>>
vars == <<workerVars, uiVars>>

NoKind == "none"

TabStatus == {"idle", "starting", "progress", "stop requested", "stopped by user",
              "error", "done", "cleared"}

WindowTypeOK ==
  /\ ui \in {"idle", "draining", "destroyed"}
  /\ drainDue \in BOOLEAN /\ closing \in BOOLEAN /\ lock \in BOOLEAN
  /\ selected \in BOOLEAN
  /\ running \in OperationKind \cup {NoKind}
  /\ stopRequested \in OperationKind \cup {NoKind}
  /\ candidates \in Nat /\ viewer \in Nat /\ dialog \in Nat
  /\ autoStatus \in TabStatus /\ cleanerStatus \in TabStatus
  /\ stopAsked \in SUBSET Nat

\* The type invariant of the composed application.
TypeOK == WorkerTypeOK /\ WindowTypeOK

Init ==
  /\ WorkerInit
  /\ ui = "idle" /\ drainDue = TRUE /\ closing = FALSE /\ lock = TRUE
  /\ running = NoKind /\ stopRequested = NoKind
  /\ candidates = 0 /\ viewer = 0 /\ selected = FALSE /\ dialog = 0
  /\ autoStatus = "idle" /\ cleanerStatus = "idle"
  /\ stopAsked = {}

-------------------------------------------------------------------------------
(* User input.                                                               *)

UserTurn == ui = "idle" /\ dialog = 0

Idle == running = NoKind

begin_operation(kind) ==
  /\ running' = kind
  /\ stopRequested' = NoKind

stay_idle == UNCHANGED <<running, stopRequested>>

invalidate_results ==
  /\ candidates' = 0 /\ viewer' = 0 /\ selected' = FALSE

StartAutoLike ==
  /\ UserTurn /\ Idle
  /\ autoStatus' = "starting"
  /\ \/ submit("auto_like", 0, 0) /\ begin_operation("auto_like")
     \/ refuse /\ stay_idle
  /\ UNCHANGED <<loopVars, resultVars, dialog, cleanerStatus, stopAsked>>

\* The shown list is dropped before the worker has accepted the scan.
StartScan ==
  /\ UserTurn /\ Idle
  /\ invalidate_results
  /\ cleanerStatus' = "starting"
  /\ \/ submit("scan", 0, 0) /\ begin_operation("scan")
     \/ refuse /\ stay_idle
  /\ UNCHANGED <<loopVars, dialog, autoStatus, stopAsked>>

\* _start_unfollow up to its question: the selection is read here.
AskUnfollow ==
  /\ UserTurn /\ Idle /\ selected
  /\ IF candidates = 0 \/ viewer = 0
       THEN invalidate_results /\ UNCHANGED dialog
       ELSE dialog' = candidates /\ UNCHANGED resultVars
  /\ UNCHANGED <<workerVars, loopVars, running, stopRequested, statusVars, stopAsked>>

\* The answer yes: the expected account is read only now.
ConfirmUnfollow ==
  /\ ui = "idle" /\ dialog # 0
  /\ dialog' = 0
  /\ cleanerStatus' = "starting"
  /\ \/ submit("unfollow", dialog, viewer) /\ begin_operation("unfollow")
     \/ refuse /\ stay_idle
  /\ UNCHANGED <<loopVars, resultVars, autoStatus, stopAsked>>

DeclineUnfollow ==
  /\ ui = "idle" /\ dialog # 0
  /\ dialog' = 0
  /\ UNCHANGED <<workerVars, loopVars, running, stopRequested, resultVars,
                 statusVars, stopAsked>>

ClearBrowserData ==
  /\ UserTurn /\ Idle
  /\ \/ submit("clear_profile", 0, 0) /\ begin_operation("clear_profile")
     \/ refuse /\ stay_idle
  /\ UNCHANGED <<loopVars, resultVars, dialog, statusVars, stopAsked>>

ChangeSelection ==
  /\ UserTurn /\ Idle /\ candidates # 0
  /\ selected' = ~selected
  /\ UNCHANGED <<workerVars, loopVars, running, stopRequested, candidates, viewer,
                 dialog, statusVars, stopAsked>>

\* The stop buttons are disabled while the profile is cleared.
Stop ==
  /\ UserTurn
  /\ running \in {"auto_like", "scan", "unfollow"}
  /\ stop_current
  /\ stopAsked' = stopAsked \cup {ops}
  /\ stopRequested' = running
  /\ IF running = "auto_like"
       THEN autoStatus' = "stop requested" /\ UNCHANGED cleanerStatus
       ELSE cleanerStatus' = "stop requested" /\ UNCHANGED autoStatus
  /\ UNCHANGED <<loopVars, running, resultVars, dialog>>

Close ==
  /\ UserTurn /\ ~closing
  /\ closing' = TRUE
  /\ shut_down
  /\ UNCHANGED <<ui, drainDue, lock, running, stopRequested, resultVars, dialog,
                 statusVars, stopAsked>>

UserInput ==
  \/ StartAutoLike \/ StartScan \/ AskUnfollow \/ ConfirmUnfollow \/ DeclineUnfollow
  \/ ClearBrowserData \/ ChangeSelection \/ Stop \/ Close

-------------------------------------------------------------------------------
(* _drain_events.                                                            *)

DrainBegins ==
  /\ ui = "idle" /\ drainDue
  /\ ui' = "draining" /\ drainDue' = FALSE
  /\ UNCHANGED <<workerVars, closing, lock, running, stopRequested, resultVars,
                 dialog, statusVars, stopAsked>>

\* queue.Empty: the callback ends and schedules itself again unless closing.
DrainEnds ==
  /\ ui = "draining" /\ events = <<>>
  /\ ui' = "idle" /\ drainDue' = ~closing
  /\ UNCHANGED <<workerVars, closing, lock, running, stopRequested, resultVars,
                 dialog, statusVars, stopAsked>>

\* Mutated form: the kind is written instead of the text of the status.
RestoredByKind(kinds, s) == IF stopRequested \in kinds THEN stopRequested ELSE s

\* _restore_pending_stop_status after a status s was written to a tab.
Restored(kinds, s) == IF stopRequested \in kinds THEN "stop requested" ELSE s

AutoRestored(s) == Restored({"auto_like"}, s)
CleanerRestored(s) == Restored({"scan", "unfollow"}, s)

Receive(types) ==
  /\ ui = "draining" /\ events # <<>>
  /\ Head(events).type \in types
  /\ events' = Tail(events)
  /\ UNCHANGED <<sharedVars, threadVars, commands, closing, lock, dialog, stopAsked,
                 drainDue>>

KeepDraining == UNCHANGED <<ui, running, stopRequested>>

OnAutoStatus ==
  /\ Receive({"auto_status"}) /\ KeepDraining
  /\ autoStatus' = AutoRestored("progress")
  /\ cleanerStatus' = CleanerRestored(cleanerStatus)
  /\ UNCHANGED resultVars

OnCleanerProgress ==
  /\ Receive({"cleaner_progress"}) /\ KeepDraining
  /\ autoStatus' = AutoRestored(autoStatus)
  /\ cleanerStatus' = CleanerRestored("progress")
  /\ UNCHANGED resultVars

\* _apply_scan_result: the new rows are all selected.
OnScanResult ==
  /\ Receive({"scan_result"}) /\ KeepDraining
  /\ candidates' = Head(events).op /\ viewer' = Head(events).op
  /\ selected' \in BOOLEAN    \* a scan may find no row to select
  /\ autoStatus' = AutoRestored(autoStatus)
  /\ cleanerStatus' = CleanerRestored("done")

\* _apply_unfollow_result: whatever the summary says, the list is stale.
OnUnfollowResult ==
  /\ Receive({"unfollow_result", "unfollow_stopped"}) /\ KeepDraining
  /\ invalidate_results
  /\ autoStatus' = AutoRestored(autoStatus)
  /\ cleanerStatus' = CleanerRestored(IF Head(events).type = "unfollow_result"
                                        THEN "done" ELSE "stopped by user")

OnUnfollowError ==
  /\ Receive({"unfollow_error"})
  /\ stopRequested' = NoKind
  /\ invalidate_results
  /\ cleanerStatus' = "error"
  /\ UNCHANGED <<ui, running, autoStatus>>

\* Mutated form: the window is idle as soon as the error is shown.
OnErrorGoesIdle ==
  /\ Receive({"error"})
  /\ stopRequested' = NoKind
  /\ running' = NoKind
  /\ UNCHANGED <<ui, resultVars, statusVars>>

OnError ==
  /\ Receive({"error"})
  /\ stopRequested' = NoKind
  /\ autoStatus' = IF running = "auto_like" THEN "error" ELSE autoStatus
  /\ cleanerStatus' = IF running \in {"scan", "unfollow"} THEN "error" ELSE cleanerStatus
  /\ UNCHANGED <<ui, running, resultVars>>

\* Mutated form: the list survives the login it was read with.
OnProfileClearedKeepsList ==
  /\ Receive({"profile_cleared"}) /\ KeepDraining
  /\ autoStatus' = "cleared" /\ cleanerStatus' = "idle"
  /\ UNCHANGED resultVars

OnProfileCleared ==
  /\ Receive({"profile_cleared"}) /\ KeepDraining
  /\ invalidate_results
  /\ autoStatus' = "cleared" /\ cleanerStatus' = "idle"

\* _finalize_finished_tab_status, then the window is idle again.
OnOperationFinished ==
  /\ Receive({"operation_finished"})
  /\ LET stopped == stopRequested = Head(events).kind
         auto == Head(events).kind = "auto_like"
         cleaner == Head(events).kind \in {"scan", "unfollow"}
     IN /\ autoStatus' = IF stopped /\ auto THEN "stopped by user" ELSE autoStatus
        /\ cleanerStatus' = IF stopped /\ cleaner THEN "stopped by user"
                                                  ELSE cleanerStatus
  /\ running' = NoKind /\ stopRequested' = NoKind
  /\ UNCHANGED <<ui, resultVars>>

OnWorkerStopped ==
  /\ Receive({"worker_stopped"})
  /\ ui' = IF closing THEN "destroyed" ELSE ui
  /\ UNCHANGED <<running, stopRequested, resultVars, statusVars>>

\* Mutated form: the first poll destroys the window.
WaitForNobody ==
  /\ closing /\ ui = "idle"
  /\ ui' = "destroyed"
  /\ UNCHANGED <<workerVars, drainDue, closing, lock, running, stopRequested,
                 resultVars, dialog, statusVars, stopAsked>>

\* _wait_for_worker finds the thread dead.
WaitForWorker ==
  /\ closing /\ ui = "idle" /\ pc = "dead"
  /\ ui' = "destroyed"
  /\ UNCHANGED <<workerVars, drainDue, closing, lock, running, stopRequested,
                 resultVars, dialog, statusVars, stopAsked>>

\* main: mainloop returns once the window is destroyed.
ReleaseLock ==
  /\ ui = "destroyed" /\ lock
  /\ lock' = FALSE
  /\ UNCHANGED <<workerVars, ui, drainDue, closing, running, stopRequested,
                 resultVars, dialog, statusVars, stopAsked>>

WindowAdvances ==
  \/ DrainBegins \/ DrainEnds
  \/ OnAutoStatus \/ OnCleanerProgress \/ OnScanResult \/ OnUnfollowResult
  \/ OnUnfollowError \/ OnError \/ OnProfileCleared \/ OnOperationFinished
  \/ OnWorkerStopped \/ WaitForWorker \/ ReleaseLock

-------------------------------------------------------------------------------

\* The process has exited: nothing is left to do.
Exited == ~lock /\ pc = "dead" /\ UNCHANGED vars

Next ==
  \/ UserInput
  \/ WindowAdvances
  \/ (WorkerStep(lock) /\ UNCHANGED uiVars)
  \/ Exited

Spec == Init /\ [][Next]_vars

\* The Tk loop and the worker thread are scheduled; the user, the login and the
\* browser's misfortunes are not owed to anybody.
FairSpec ==
  /\ Spec
  /\ WF_vars(WindowAdvances)
  /\ WF_vars(WorkerAdvances(lock) /\ UNCHANGED uiVars)

-------------------------------------------------------------------------------
(* Properties.                                                               *)

PendingOperations == {i \in DOMAIN commands : commands[i].kind # "shutdown"}
FinishedEvents == {i \in DOMAIN events : events[i].type = "operation_finished"}

\* The commands that some thread will execute or is executing.
LiveCommands ==
  {commands[i] : i \in PendingOperations}
    \cup (IF pc \in Executing \cup {"finally", "announce"} THEN {command} ELSE {})

\* One operation at a time, and none lost: an operation of the window is in
\* exactly one place - the command queue, the worker, or the events as its
\* operation_finished - and while the window runs none, none is anywhere.
\* (submit, _run and _drain_events against running_kind.)
OperationIsConserved ==
  LET inWorker == pc \in Executing \cup {"finally", "announce"}
  IN /\ inWorker => PendingOperations = {} /\ FinishedEvents = {}
     /\ PendingOperations # {} => FinishedEvents = {}
     /\ \A i, j \in PendingOperations : i = j
     /\ \A i, j \in FinishedEvents : i = j
     /\ running # NoKind <=> inWorker \/ PendingOperations # {} \/ FinishedEvents # {}

\* A window that shows itself idle is never refused by the worker unless it is
\* closing: _start_scan may drop the list before it knows that submit accepts.
IdleWindowIsAccepted == Idle /\ ~closing => Accepts

\* What the window shows and what the worker does belong together, although each
\* runs on its own thread and learns of the other from a queue (submit, _run,
\* _drain_events).
WindowAndWorkerAgree == OperationIsConserved /\ IdleWindowIsAccepted

\* A stop request never reaches into another operation: the event the worker
\* polls is set only if the user stopped this very operation or closed the window.
StopHitsOnlyItsOperation ==
  pc \in Executing /\ Stopped => command.op \in stopAsked \/ closing

\* No deletion of the login succeeded after the scan. One that failed is excepted: it
\* may have removed files of the login, and the window keeps its list all the same
\* (clear_browser_profile, the branch "error" of _drain_events).
NotClearedSince(scan) == lastClear.op < scan \/ lastClear.failed

\* The list offered for selection by an idle window is current: no request of an
\* unfollow, and no deletion of the login that succeeded, came after the scan it was
\* read by.
OfferedListIsCurrent ==
  Idle /\ candidates # 0 =>
    viewer = candidates /\ lastWrite < candidates /\ NotClearedSince(candidates)

\* What an unfollow executes is what was reviewed: rows and expected account come
\* from one scan, although they are read on the two sides of the question, and
\* since that scan only this very operation has changed any relationship.
UnfollowActsOnTheReview ==
  \A c \in LiveCommands : c.kind = "unfollow" =>
    /\ c.review # 0 /\ c.review = c.viewer
    /\ lastWrite < c.review \/ lastWrite = c.op
    /\ NotClearedSince(c.review)

\* Late events never hide that a stop is pending: the tab of a stopped operation
\* says so until the operation has finished (_restore_pending_stop_status).
PendingStopIsShown ==
  /\ stopRequested = "auto_like" => autoStatus = "stop requested"
  /\ stopRequested \in {"scan", "unfollow"} => cleanerStatus = "stop requested"

\* Stop events and the notices about them keep to their operation, in the thread
\* (_current_stop) and in the window (_restore_pending_stop_status).
StopKeepsToItsOperation == StopHitsOnlyItsOperation /\ PendingStopIsShown

\* The list on screen and the unfollow made from it belong to one scan that
\* nothing has outdated since (_invalidate_results, _start_unfollow).
ReviewIsCurrent == OfferedListIsCurrent /\ UnfollowActsOnTheReview

\* The window goes away, and the lock on the profile with it, only after the
\* worker has closed Chrome and left its loop.
ExitLeavesNoChrome ==
  ui = "destroyed" \/ ~lock => pc = "dead" /\ browser = "none"

\* A stop request ends the operation (or the window is closed meanwhile).
StopEndsTheOperation ==
  stopRequested # NoKind ~> (running = NoKind \/ ui = "destroyed")

\* Closing the window ends the process, whatever was going on.
CloseEndsTheProcess == closing ~> ~lock

\* Stop and close are never left waiting (stop_current, shutdown, _wait_for_worker).
StopAndCloseAreServed == StopEndsTheOperation /\ CloseEndsTheProcess

===============================================================================
