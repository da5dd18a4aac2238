--------------------------- MODULE AutomationWorker ---------------------------
(***************************************************************************)
(* The worker of apps/instagram_tools/worker.py: one thread owns Chrome    *)
(* and executes, one at a time, the operations that the window submits.    *)
(* The window calls submit, stop_current and shutdown from its own thread; *)
(* the worker answers through the events queue.                            *)
(*                                                                         *)
(* A threading.Event is identified by the number of the submit that        *)
(* created it (0 is the one made by __init__); stopSet holds those set.    *)
(* "log" and "status" events change no state that a property is about and  *)
(* are left out; every other event is here, in the order of its put.       *)
(*                                                                         *)
(* This module has the state and the actions of the worker; the module     *)
(* InstagramTools composes them with the window.                           *)
(***************************************************************************)
EXTENDS Naturals, Sequences

CONSTANTS
  MaxOps,       \* bound: operations submitted in a behaviour
  MaxProgress   \* bound: progress events (or writes) of one operation

ASSUME BoundsAssumption == MaxOps \in Nat /\ MaxProgress \in Nat

VARIABLES
  busy,         \* _busy
  currentStop,  \* _current_stop
  stopSet,      \* the stop events that are set
  shutdown,     \* _shutdown
  commands,     \* the commands queue
  events,       \* the events queue
  pc,           \* where the worker thread is
  command,      \* the command it executes
  stopEvent,    \* the stop event it read for that command
  ticks,        \* progress events emitted for that command
  browser,      \* Chrome: "none", "open", or "crashed" (the user closed it)
  ops,          \* history: operations submitted so far
  lastWrite,    \* history: the last operation that sent an unfollow request
  lastClear     \* history: the last operation that deleted of the profile, and whether it failed

sharedVars == <<busy, currentStop, stopSet, shutdown, ops>>
threadVars == <<pc, command, stopEvent, ticks, browser, lastWrite, lastClear>>
workerVars == <<sharedVars, threadVars, commands, events>>

OperationKind == {"auto_like", "scan", "unfollow", "clear_profile"}

\* A command; review is the scan whose rows were selected and viewer the scan
\* whose account is expected (both 0 for the kinds that carry neither).
Command == [kind : OperationKind \cup {"shutdown"}, op : Nat,
            review : Nat, viewer : Nat]
ShutdownCommand == [kind |-> "shutdown", op |-> 0, review |-> 0, viewer |-> 0]

EventType == {"auto_status", "cleaner_progress", "scan_result",
              "unfollow_result", "unfollow_stopped", "unfollow_error", "error",
              "profile_cleared", "operation_finished", "worker_stopped"}
Event == [type : EventType, kind : OperationKind \cup {"shutdown"}, op : Nat]

\* Between "ensure" and "finally" the thread is inside the try of _run.
Executing == {"ensure", "login", "run", "clear"}
ThreadPlace == Executing \cup {"idle", "finally", "announce", "exit", "bye", "dead"}

WorkerTypeOK ==
  /\ busy \in BOOLEAN /\ shutdown \in BOOLEAN
  /\ currentStop \in Nat /\ stopEvent \in Nat /\ stopSet \in SUBSET Nat
  /\ commands \in Seq(Command) /\ command \in Command
  /\ events \in Seq(Event)
  /\ pc \in ThreadPlace
  /\ ticks \in Nat /\ ops \in Nat /\ lastWrite \in Nat
  /\ lastClear \in [op : Nat, failed : BOOLEAN]
  /\ browser \in {"none", "open", "crashed"}

WorkerInit ==
  /\ busy = FALSE /\ shutdown = FALSE
  /\ currentStop = 0 /\ stopEvent = 0 /\ stopSet = {}
  /\ commands = <<>> /\ command = ShutdownCommand
  /\ events = <<>>
  /\ pc = "idle"
  /\ ticks = 0 /\ ops = 0 /\ lastWrite = 0
  /\ lastClear = [op |-> 0, failed |-> FALSE]
  /\ browser = "none"

-------------------------------------------------------------------------------
(* The methods the window calls.                                             *)

Accepts == ~busy /\ ~shutdown

\* Mutated form: the stop event of the previous operation is kept.
SubmitKeepsEvent(kind, review, viewer) ==
  /\ Accepts
  /\ ops < MaxOps
  /\ busy' = TRUE
  /\ ops' = ops + 1
  /\ commands' = Append(commands, [kind |-> kind, op |-> ops + 1,
                                   review |-> review, viewer |-> viewer])
  /\ UNCHANGED <<currentStop, stopSet, shutdown, threadVars, events>>

\* submit returning True: a fresh stop event, and the command is queued.
submit(kind, review, viewer) ==
  /\ Accepts
  /\ ops < MaxOps
  /\ busy' = TRUE
  /\ ops' = ops + 1
  /\ currentStop' = ops + 1
  /\ commands' = Append(commands, [kind |-> kind, op |-> ops + 1,
                                   review |-> review, viewer |-> viewer])
  /\ UNCHANGED <<stopSet, shutdown, threadVars, events>>

\* submit returning False.
refuse ==
  /\ ~Accepts
  /\ UNCHANGED workerVars

stop_current ==
  /\ stopSet' = stopSet \cup {currentStop}
  /\ UNCHANGED <<busy, currentStop, shutdown, ops, commands, events, threadVars>>

\* The three calls are one step: the thread reads none of what is between them.
shut_down ==
  /\ shutdown' = TRUE
  /\ stopSet' = stopSet \cup {currentStop}
  /\ commands' = Append(commands, ShutdownCommand)
  /\ UNCHANGED <<busy, currentStop, ops, events, threadVars>>

-------------------------------------------------------------------------------
(* The worker thread.                                                        *)

put(type) ==
  events' = Append(events, [type |-> type, kind |-> command.kind, op |-> command.op])

Stopped == stopEvent \in stopSet

Goto(from, to) == pc = from /\ pc' = to

\* Mutated form: the thread clears the stop event before it starts.
GetCommandClearsStop ==
  /\ commands # <<>>
  /\ Head(commands).kind # "shutdown"
  /\ Goto("idle", IF Head(commands).kind = "clear_profile" THEN "clear" ELSE "ensure")
  /\ command' = Head(commands)
  /\ commands' = Tail(commands)
  /\ stopEvent' = currentStop
  /\ stopSet' = stopSet \ {currentStop}
  /\ ticks' = 0
  /\ UNCHANGED <<busy, currentStop, shutdown, ops, events, browser, lastWrite, lastClear>>

GetCommand ==
  /\ commands # <<>>
  /\ Head(commands).kind # "shutdown"
  /\ Goto("idle", IF Head(commands).kind = "clear_profile" THEN "clear" ELSE "ensure")
  /\ command' = Head(commands)
  /\ commands' = Tail(commands)
  /\ stopEvent' = currentStop
  /\ ticks' = 0
  /\ UNCHANGED <<sharedVars, events, browser, lastWrite, lastClear>>

GetShutdown ==
  /\ commands # <<>>
  /\ Head(commands).kind = "shutdown"
  /\ Goto("idle", "exit")
  /\ command' = Head(commands)
  /\ commands' = Tail(commands)
  /\ UNCHANGED <<sharedVars, events, stopEvent, ticks, browser, lastWrite, lastClear>>

\* _ensure_browser: a live Chrome is reused, otherwise one is launched.
EnsureBrowser ==
  /\ Goto("ensure", "login")
  /\ browser' = "open"
  /\ UNCHANGED <<sharedVars, commands, events, command, stopEvent, ticks,
                 lastWrite, lastClear>>

LaunchFails ==
  /\ browser # "open"
  /\ Goto("ensure", "finally")
  /\ put("error")
  /\ browser' \in {browser, "none"}
  /\ UNCHANGED <<sharedVars, commands, command, stopEvent, ticks, lastWrite, lastClear>>

LoggedIn ==
  /\ browser = "open"
  /\ ~Stopped
  /\ Goto("login", "run")
  /\ UNCHANGED <<sharedVars, commands, events, command, stopEvent, ticks, browser,
                 lastWrite, lastClear>>

\* OperationStopped: only a "status" event.
LoginStopped ==
  /\ Stopped
  /\ Goto("login", "finally")
  /\ UNCHANGED <<sharedVars, commands, events, command, stopEvent, ticks, browser,
                 lastWrite, lastClear>>

\* The except clauses: a Chrome that is gone is discarded when the exception
\* says so (BrowserClosedError), kept until the next operation otherwise.
Raise(type) ==
  /\ pc' = "finally"
  /\ put(type)
  /\ browser' \in IF browser = "crashed" THEN {"crashed", "none"} ELSE {browser}
  /\ UNCHANGED <<sharedVars, commands, command, stopEvent, ticks, lastWrite, lastClear>>

LoginFails == pc = "login" /\ Raise("error")

\* A failure before the run of an unfollow has sent anything is an "error"; from
\* the first request on it is an UnfollowRunError with the summary.
RunFails ==
  /\ pc = "run"
  /\ IF command.kind = "unfollow" /\ lastWrite = command.op
       THEN Raise("unfollow_error")
       ELSE Raise("error") \/ (command.kind = "unfollow" /\ Raise("unfollow_error"))

Progress ==
  /\ pc = "run"
  /\ ticks < MaxProgress
  /\ ticks' = ticks + 1
  /\ put(IF command.kind = "auto_like" THEN "auto_status" ELSE "cleaner_progress")
  /\ UNCHANGED <<sharedVars, commands, pc, command, stopEvent, browser,
                 lastWrite, lastClear>>

\* One unfollow request leaves for the server.
UnfollowWrite ==
  /\ pc = "run" /\ command.kind = "unfollow"
  /\ browser = "open"
  /\ ~Stopped
  /\ lastWrite' = command.op
  /\ UNCHANGED <<sharedVars, commands, events, pc, command, stopEvent, ticks, browser,
                 lastClear>>

\* The loop of _run_auto_like ends only with the stop event; the break inside a
\* scan reports a last status, the break during the wait does not.
AutoLikeEnds ==
  /\ command.kind = "auto_like"
  /\ Stopped
  /\ Goto("run", "finally")
  /\ put("auto_status") \/ UNCHANGED events
  /\ UNCHANGED <<sharedVars, commands, command, stopEvent, ticks, browser,
                 lastWrite, lastClear>>

ScanEnds ==
  /\ command.kind = "scan"
  /\ Goto("run", "finally")
  /\ \/ browser = "open" /\ put("scan_result")
     \/ Stopped /\ UNCHANGED events
  /\ UNCHANGED <<sharedVars, commands, command, stopEvent, ticks, browser,
                 lastWrite, lastClear>>

\* A stop before the loop of unfollow_selected raises OperationStopped; from the
\* loop on it only ends the run, whose summary is the result.
UnfollowEnds ==
  /\ command.kind = "unfollow"
  /\ Goto("run", "finally")
  /\ \/ browser = "open" /\ put("unfollow_result")
     \/ Stopped /\ put("unfollow_stopped")
     \/ Stopped /\ lastWrite # command.op /\ UNCHANGED events
  /\ UNCHANGED <<sharedVars, commands, command, stopEvent, ticks, browser,
                 lastWrite, lastClear>>

\* clear_profile: Chrome is closed first, which never raises; the deletion raises
\* without the instance lock, and may raise with it, before or after it has removed
\* files of the login (rmtree and mkdir of clear_browser_profile).
ClearProfile(locked) ==
  /\ Goto("clear", "finally")
  /\ browser' = "none"
  /\ \/ locked /\ put("profile_cleared") /\ lastClear' = [op |-> command.op, failed |-> FALSE]
     \/ locked /\ put("error") /\ lastClear' = [op |-> command.op, failed |-> TRUE]
     \/ put("error") /\ UNCHANGED lastClear
  /\ UNCHANGED <<sharedVars, commands, command, stopEvent, ticks, lastWrite>>

\* Mutated form: the busy flag is not reset.
ReleaseForgetsBusy ==
  /\ Goto("finally", "announce")
  /\ UNCHANGED <<sharedVars, commands, events, command, stopEvent, ticks, browser,
                 lastWrite, lastClear>>

\* The inner finally: not busy first, then operation_finished.
Release ==
  /\ Goto("finally", "announce")
  /\ busy' = FALSE
  /\ UNCHANGED <<currentStop, stopSet, shutdown, ops, commands, events, command,
                 stopEvent, ticks, browser, lastWrite, lastClear>>

Announce ==
  /\ Goto("announce", "idle")
  /\ put("operation_finished")
  /\ UNCHANGED <<sharedVars, commands, command, stopEvent, ticks, browser,
                 lastWrite, lastClear>>

\* The outer finally.
DiscardBrowser ==
  /\ Goto("exit", "bye")
  /\ browser' = "none"
  /\ UNCHANGED <<sharedVars, commands, events, command, stopEvent, ticks,
                 lastWrite, lastClear>>

WorkerStopped ==
  /\ Goto("bye", "dead")
  /\ put("worker_stopped")
  /\ UNCHANGED <<sharedVars, commands, command, stopEvent, ticks, browser,
                 lastWrite, lastClear>>

\* The user closes the Chrome window (or it crashes).
BrowserCloses ==
  /\ browser = "open"
  /\ browser' = "crashed"
  /\ UNCHANGED <<sharedVars, commands, events, pc, command, stopEvent, ticks,
                 lastWrite, lastClear>>

\* What the thread does without waiting for anybody: the steps that the
\* scheduler and the bounded browser calls guarantee.
WorkerAdvances(locked) ==
  \/ GetCommand \/ GetShutdown
  \/ EnsureBrowser \/ LoginStopped
  \/ AutoLikeEnds \/ ScanEnds \/ UnfollowEnds
  \/ (browser = "crashed" /\ (LoginFails \/ RunFails))
  \/ ClearProfile(locked)
  \/ Release \/ Announce \/ DiscardBrowser \/ WorkerStopped

WorkerStep(locked) ==
  \/ WorkerAdvances(locked)
  \/ LaunchFails \/ LoggedIn \/ LoginFails \/ RunFails
  \/ Progress \/ UnfollowWrite
  \/ BrowserCloses

===============================================================================
