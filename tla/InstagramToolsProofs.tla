------------------------- MODULE InstagramToolsProofs -------------------------
(***************************************************************************)
(* Theorems about the composed application, for every bound on operations  *)
(* and progress events.                                                    *)
(***************************************************************************)
EXTENDS InstagramTools, TLAPS

-------------------------------------------------------------------------------
(* Queues.                                                                   *)

LEMMA QueueGet ==
  ASSUME NEW S, NEW q \in Seq(S), q # <<>>
  PROVE  Head(q) \in S /\ Tail(q) \in Seq(S)
OBVIOUS

LEMMA QueueAppend ==
  ASSUME NEW S, NEW q \in Seq(S), NEW e \in S
  PROVE  Append(q, e) \in Seq(S)
OBVIOUS

LEMMA PutTyping ==
  ASSUME events \in Seq(Event), command \in Command, NEW type \in EventType, put(type)
  PROVE  events' \in Seq(Event)
<1>1. [type |-> type, kind |-> command.kind, op |-> command.op] \in Event
  BY DEF Event, Command
<1> QED
  BY <1>1 DEF put

-------------------------------------------------------------------------------
(* Type correctness.                                                         *)

LEMMA ShutdownTyping == ShutdownCommand \in Command
BY DEF ShutdownCommand, Command

LEMMA SubmitTyping ==
  ASSUME NEW kind \in OperationKind, NEW review \in Nat, NEW expected \in Nat, TypeOK,
         submit(kind, review, expected)
  PROVE  WorkerTypeOK'
BY DEF TypeOK, WorkerTypeOK, submit, threadVars, Command

LEMMA ThreadTyping ==
  ASSUME TypeOK, WorkerStep(lock)
  PROVE  WorkerTypeOK'
<1> USE DEF TypeOK, WorkerTypeOK, Goto, ThreadPlace, Executing, sharedVars
<1>0. ASSUME NEW type \in EventType, put(type)
      PROVE  events' \in Seq(Event)
  BY <1>0, PutTyping
<1>1. CASE GetCommand
  <2>1. Head(commands) \in Command /\ Tail(commands) \in Seq(Command)
    BY <1>1, QueueGet DEF GetCommand
  <2> QED
    BY <1>1, <2>1 DEF GetCommand
<1>2. CASE GetShutdown
  <2>1. Head(commands) \in Command /\ Tail(commands) \in Seq(Command)
    BY <1>2, QueueGet DEF GetShutdown
  <2> QED
    BY <1>2, <2>1 DEF GetShutdown
<1>3. CASE EnsureBrowser
  BY <1>3 DEF EnsureBrowser
<1>4. CASE LoginStopped
  BY <1>4 DEF LoginStopped
<1>5. CASE AutoLikeEnds
  <2>1. events' \in Seq(Event)
    BY <1>0, <1>5 DEF AutoLikeEnds, EventType
  <2> QED
    BY <1>5, <2>1 DEF AutoLikeEnds
<1>6. CASE ScanEnds
  <2>1. events' \in Seq(Event)
    BY <1>0, <1>6 DEF ScanEnds, EventType
  <2> QED
    BY <1>6, <2>1 DEF ScanEnds
<1>7. CASE UnfollowEnds
  <2>1. events' \in Seq(Event)
    BY <1>0, <1>7 DEF UnfollowEnds, EventType
  <2> QED
    BY <1>7, <2>1 DEF UnfollowEnds
<1>8. ASSUME NEW type \in {"error", "unfollow_error"}, Raise(type)
      PROVE  WorkerTypeOK'
  <2>1. events' \in Seq(Event)
    BY <1>0, <1>8 DEF Raise, EventType
  <2> QED
    BY <1>8, <2>1 DEF Raise
<1>9. CASE LoginFails
  BY <1>8, <1>9 DEF LoginFails
<1>10. CASE RunFails
  BY <1>8, <1>10 DEF RunFails
<1>11. CASE ClearProfile(lock)
  <2>1. events' \in Seq(Event)
    BY <1>0, <1>11 DEF ClearProfile, EventType
  <2>2. lastClear' \in [op : Nat, failed : BOOLEAN]
    <3>1. command.op \in Nat /\ lastClear \in [op : Nat, failed : BOOLEAN]
      BY DEF Command
    <3>2. \/ lastClear' = lastClear
          \/ \E failed \in BOOLEAN : lastClear' = [op |-> command.op, failed |-> failed]
      BY <1>11 DEF ClearProfile
    <3> QED
      BY <3>1, <3>2
  <2> QED
    BY <1>11, <2>1, <2>2 DEF ClearProfile
<1>12. CASE Release
  BY <1>12 DEF Release
<1>13. CASE Announce
  <2>1. events' \in Seq(Event)
    BY <1>0, <1>13 DEF Announce, EventType
  <2> QED
    BY <1>13, <2>1 DEF Announce
<1>14. CASE DiscardBrowser
  BY <1>14 DEF DiscardBrowser
<1>15. CASE WorkerStopped
  <2>1. events' \in Seq(Event)
    BY <1>0, <1>15 DEF WorkerStopped, EventType
  <2> QED
    BY <1>15, <2>1 DEF WorkerStopped
<1>16. CASE LaunchFails
  <2>1. events' \in Seq(Event)
    BY <1>0, <1>16 DEF LaunchFails, EventType
  <2> QED
    BY <1>16, <2>1 DEF LaunchFails
<1>17. CASE LoggedIn
  BY <1>17 DEF LoggedIn
<1>18. CASE Progress
  <2>1. events' \in Seq(Event)
    BY <1>0, <1>18 DEF Progress, EventType
  <2> QED
    BY <1>18, <2>1 DEF Progress
<1>19. CASE UnfollowWrite
  BY <1>19 DEF UnfollowWrite, Command
<1>20. CASE BrowserCloses
  BY <1>20 DEF BrowserCloses
<1> QED
  BY <1>1, <1>2, <1>3, <1>4, <1>5, <1>6, <1>7, <1>9, <1>10, <1>11, <1>12, <1>13,
     <1>14, <1>15, <1>16, <1>17, <1>18, <1>19, <1>20 DEF WorkerStep, WorkerAdvances

LEMMA UserTyping ==
  ASSUME TypeOK, UserInput
  PROVE  TypeOK'
<1> USE DEF TypeOK, WindowTypeOK, loopVars, resultVars, statusVars, TabStatus,
            begin_operation, stay_idle, invalidate_results, UserTurn, Idle
<1>1. ASSUME refuse \/ UNCHANGED workerVars
      PROVE  WorkerTypeOK'
  BY <1>1 DEF refuse, workerVars, sharedVars, threadVars, WorkerTypeOK
<1>2. CASE StartAutoLike
  <2>1. WorkerTypeOK'
    BY <1>1, <1>2, SubmitTyping DEF StartAutoLike, OperationKind
  <2> QED
    BY <1>2, <2>1 DEF StartAutoLike, OperationKind
<1>3. CASE StartScan
  <2>1. WorkerTypeOK'
    BY <1>1, <1>3, SubmitTyping DEF StartScan, OperationKind
  <2> QED
    BY <1>3, <2>1 DEF StartScan, OperationKind
<1>4. CASE AskUnfollow
  <2>1. WorkerTypeOK'
    BY <1>1, <1>4 DEF AskUnfollow
  <2> QED
    BY <1>4, <2>1 DEF AskUnfollow
<1>5. CASE ConfirmUnfollow
  <2>1. WorkerTypeOK'
    BY <1>1, <1>5, SubmitTyping DEF ConfirmUnfollow, OperationKind
  <2> QED
    BY <1>5, <2>1 DEF ConfirmUnfollow, OperationKind
<1>6. CASE DeclineUnfollow
  BY <1>1, <1>6 DEF DeclineUnfollow
<1>7. CASE ClearBrowserData
  <2>1. WorkerTypeOK'
    BY <1>1, <1>7, SubmitTyping DEF ClearBrowserData, OperationKind
  <2> QED
    <3>1. drainDue' \in BOOLEAN /\ closing' \in BOOLEAN /\ lock' \in BOOLEAN
            /\ selected' \in BOOLEAN
      BY <1>7 DEF ClearBrowserData
    <3> QED
      BY <1>7, <2>1, <3>1 DEF ClearBrowserData, OperationKind
<1>8. CASE ChangeSelection
  BY <1>1, <1>8 DEF ChangeSelection
<1>9. CASE Stop
  <2>1. WorkerTypeOK'
    BY <1>9 DEF Stop, stop_current, threadVars, WorkerTypeOK
  <2> QED
    BY <1>9, <2>1 DEF Stop, WorkerTypeOK
<1>10. CASE Close
  <2>1. WorkerTypeOK'
    <3>1. commands' \in Seq(Command)
      BY <1>10, ShutdownTyping, QueueAppend DEF Close, shut_down, WorkerTypeOK
    <3>2. busy' \in BOOLEAN /\ shutdown' \in BOOLEAN
      BY <1>10 DEF Close, shut_down, WorkerTypeOK
    <3> QED
      BY <1>10, <3>1, <3>2 DEF Close, shut_down, threadVars, WorkerTypeOK
  <2> QED
    BY <1>10, <2>1 DEF Close
<1> QED
  BY <1>2, <1>3, <1>4, <1>5, <1>6, <1>7, <1>8, <1>9, <1>10 DEF UserInput

LEMMA WindowTyping ==
  ASSUME TypeOK, WindowAdvances
  PROVE  TypeOK'
<1> USE DEF TypeOK, WindowTypeOK, resultVars, statusVars, TabStatus,
            invalidate_results, KeepDraining, AutoRestored, CleanerRestored, Restored
<1>1. ASSUME UNCHANGED workerVars
      PROVE  WorkerTypeOK'
  BY <1>1 DEF workerVars, sharedVars, threadVars, WorkerTypeOK
<1>2. ASSUME NEW types, Receive(types)
      PROVE  /\ WorkerTypeOK' /\ Head(events) \in Event
             /\ UNCHANGED <<closing, lock, dialog, stopAsked, drainDue>>
  <2>1. Head(events) \in Event /\ Tail(events) \in Seq(Event)
    BY <1>2, QueueGet DEF Receive, WorkerTypeOK
  <2> QED
    BY <1>2, <2>1 DEF Receive, WorkerTypeOK, sharedVars, threadVars
<1>3. CASE DrainBegins
  BY <1>1, <1>3 DEF DrainBegins
<1>4. CASE DrainEnds
  BY <1>1, <1>4 DEF DrainEnds
<1>5. CASE OnAutoStatus
  <2>1. WorkerTypeOK' /\ Head(events) \in Event /\ UNCHANGED <<closing, lock, dialog, stopAsked, drainDue>>
    BY <1>2, <1>5 DEF OnAutoStatus
  <2> QED
    BY <1>5, <2>1 DEF OnAutoStatus
<1>6. CASE OnCleanerProgress
  <2>1. WorkerTypeOK' /\ Head(events) \in Event /\ UNCHANGED <<closing, lock, dialog, stopAsked, drainDue>>
    BY <1>2, <1>6 DEF OnCleanerProgress
  <2> QED
    BY <1>6, <2>1 DEF OnCleanerProgress
<1>7. CASE OnScanResult
  <2>1. WorkerTypeOK' /\ Head(events) \in Event /\ UNCHANGED <<closing, lock, dialog, stopAsked, drainDue>>
    BY <1>2, <1>7 DEF OnScanResult
  <2> QED
    BY <1>7, <2>1 DEF OnScanResult, Event
<1>8. CASE OnUnfollowResult
  <2>1. WorkerTypeOK' /\ Head(events) \in Event /\ UNCHANGED <<closing, lock, dialog, stopAsked, drainDue>>
    BY <1>2, <1>8 DEF OnUnfollowResult
  <2> QED
    BY <1>8, <2>1 DEF OnUnfollowResult
<1>9. CASE OnUnfollowError
  <2>1. WorkerTypeOK' /\ Head(events) \in Event /\ UNCHANGED <<closing, lock, dialog, stopAsked, drainDue>>
    BY <1>2, <1>9 DEF OnUnfollowError
  <2> QED
    BY <1>9, <2>1 DEF OnUnfollowError
<1>10. CASE OnError
  <2>1. WorkerTypeOK' /\ Head(events) \in Event /\ UNCHANGED <<closing, lock, dialog, stopAsked, drainDue>>
    BY <1>2, <1>10 DEF OnError
  <2> QED
    BY <1>10, <2>1 DEF OnError
<1>11. CASE OnProfileCleared
  <2>1. WorkerTypeOK' /\ Head(events) \in Event /\ UNCHANGED <<closing, lock, dialog, stopAsked, drainDue>>
    BY <1>2, <1>11 DEF OnProfileCleared
  <2> QED
    BY <1>11, <2>1 DEF OnProfileCleared
<1>12. CASE OnOperationFinished
  <2>1. WorkerTypeOK' /\ Head(events) \in Event /\ UNCHANGED <<closing, lock, dialog, stopAsked, drainDue>>
    BY <1>2, <1>12 DEF OnOperationFinished
  <2> QED
    BY <1>12, <2>1 DEF OnOperationFinished
<1>13. CASE OnWorkerStopped
  <2>1. WorkerTypeOK' /\ Head(events) \in Event /\ UNCHANGED <<closing, lock, dialog, stopAsked, drainDue>>
    BY <1>2, <1>13 DEF OnWorkerStopped
  <2> QED
    BY <1>13, <2>1 DEF OnWorkerStopped
<1>14. CASE WaitForWorker
  BY <1>1, <1>14 DEF WaitForWorker
<1>15. CASE ReleaseLock
  BY <1>1, <1>15 DEF ReleaseLock
<1> QED
  BY <1>3, <1>4, <1>5, <1>6, <1>7, <1>8, <1>9, <1>10, <1>11, <1>12, <1>13, <1>14,
     <1>15 DEF WindowAdvances

LEMMA InitTyping == Init => TypeOK
<1>1. Init => WorkerTypeOK
  <2> SUFFICES ASSUME WorkerInit
               PROVE  WorkerTypeOK
    BY DEF Init
  <2>1. busy \in BOOLEAN /\ shutdown \in BOOLEAN
    BY DEF WorkerInit
  <2>2. commands \in Seq(Command) /\ command \in Command /\ events \in Seq(Event)
    BY ShutdownTyping DEF WorkerInit
  <2> QED
    BY <2>1, <2>2 DEF WorkerInit, WorkerTypeOK, ThreadPlace
<1>2. Init => WindowTypeOK
  <2> SUFFICES ASSUME Init
               PROVE  WindowTypeOK
    OBVIOUS
  <2>1. drainDue \in BOOLEAN /\ closing \in BOOLEAN /\ lock \in BOOLEAN
          /\ selected \in BOOLEAN
    BY DEF Init
  <2> QED
    BY <2>1 DEF Init, WindowTypeOK, TabStatus
<1> QED
  BY <1>1, <1>2 DEF TypeOK

LEMMA Typing == TypeOK /\ [Next]_vars => TypeOK'
<1> SUFFICES ASSUME TypeOK, [Next]_vars
             PROVE  TypeOK'
  OBVIOUS
<1>1. CASE UserInput
  BY <1>1, UserTyping
<1>2. CASE WindowAdvances
  BY <1>2, WindowTyping
<1>3. CASE WorkerStep(lock) /\ UNCHANGED uiVars
  <2>1. WorkerTypeOK'
    BY <1>3, ThreadTyping
  <2> QED
    BY <1>3, <2>1 DEF TypeOK, WindowTypeOK, uiVars, loopVars, resultVars, statusVars
<1>4. CASE UNCHANGED vars
  BY <1>4 DEF vars, workerVars, sharedVars, threadVars, uiVars, loopVars, resultVars,
              statusVars, TypeOK, WorkerTypeOK, WindowTypeOK
<1> QED
  BY <1>1, <1>2, <1>3, <1>4 DEF Next, Exited

\* Every variable of the window and of the worker keeps its type, the queues
\* included, however the two threads interleave.
THEOREM TypeCorrect == Spec => []TypeOK
BY InitTyping, Typing, PTL DEF Spec

-------------------------------------------------------------------------------
(* Where a queue holds elements of a set.                                    *)

Where(q, M) == {i \in DOMAIN q : q[i] \in M}
Once(X) == \A i, j \in X : i = j

LEMMA PutOther ==
  ASSUME NEW S, NEW q \in Seq(S), NEW e \in S, NEW M, e \notin M
  PROVE  Where(Append(q, e), M) = Where(q, M)
<1>1. DOMAIN q = 1..Len(q) /\ Len(q) \in Nat
  OBVIOUS
<1>2. DOMAIN Append(q, e) = 1..(Len(q) + 1) /\ Append(q, e)[Len(q) + 1] = e
      /\ \A i \in 1..Len(q) : Append(q, e)[i] = q[i]
  OBVIOUS
<1> QED
  BY <1>1, <1>2 DEF Where

LEMMA PutOne ==
  ASSUME NEW S, NEW q \in Seq(S), NEW e \in S, NEW M, e \in M, Where(q, M) = {}
  PROVE  Where(Append(q, e), M) # {} /\ Once(Where(Append(q, e), M))
<1>1. DOMAIN q = 1..Len(q) /\ Len(q) \in Nat
  OBVIOUS
<1>2. DOMAIN Append(q, e) = 1..(Len(q) + 1) /\ Append(q, e)[Len(q) + 1] = e
      /\ \A i \in 1..Len(q) : Append(q, e)[i] = q[i]
  OBVIOUS
<1>3. Where(Append(q, e), M) = {Len(q) + 1}
  BY <1>1, <1>2 DEF Where
<1> QED
  BY <1>3 DEF Once

LEMMA TailWhere ==
  ASSUME NEW S, NEW q \in Seq(S), q # <<>>, NEW M
  PROVE  \A i \in Nat \ {0} : i \in Where(Tail(q), M) <=> i + 1 \in Where(q, M)
<1>1. DOMAIN q = 1..Len(q) /\ Len(q) \in Nat \ {0}
  OBVIOUS
<1>2. DOMAIN Tail(q) = 1..(Len(q) - 1) /\ \A i \in 1..(Len(q) - 1) : Tail(q)[i] = q[i + 1]
  OBVIOUS
<1> QED
  BY <1>1, <1>2 DEF Where

LEMMA WhereIsPositive ==
  ASSUME NEW S, NEW q \in Seq(S), NEW M
  PROVE  Where(q, M) \subseteq Nat \ {0}
<1>1. DOMAIN q = 1..Len(q) /\ Len(q) \in Nat
  OBVIOUS
<1> QED
  BY <1>1 DEF Where

LEMMA GetOther ==
  ASSUME NEW S, NEW q \in Seq(S), q # <<>>, NEW M, Head(q) \notin M
  PROVE  /\ Where(Tail(q), M) = {} <=> Where(q, M) = {}
         /\ Once(Where(q, M)) => Once(Where(Tail(q), M))
<1>1. Tail(q) \in Seq(S) /\ Head(q) = q[1]
  OBVIOUS
<1>2. Where(Tail(q), M) \subseteq Nat \ {0} /\ Where(q, M) \subseteq Nat \ {0}
  BY <1>1, WhereIsPositive
<1>3. 1 \notin Where(q, M)
  BY <1>1 DEF Where
<1>4. \A i \in Nat \ {0} : i \in Where(Tail(q), M) <=> i + 1 \in Where(q, M)
  BY TailWhere
<1>5. ASSUME NEW i \in Where(q, M)
      PROVE  i - 1 \in Where(Tail(q), M)
  BY <1>2, <1>3, <1>4
<1>6. Where(Tail(q), M) = {} <=> Where(q, M) = {}
  BY <1>2, <1>4, <1>5
<1>7. ASSUME Once(Where(q, M)), NEW i \in Where(Tail(q), M), NEW j \in Where(Tail(q), M)
      PROVE  i = j
  <2>1. i + 1 = j + 1
    BY <1>2, <1>4, <1>7 DEF Once
  <2> QED
    BY <1>2, <2>1
<1> QED
  BY <1>6, <1>7 DEF Once

LEMMA GetOne ==
  ASSUME NEW S, NEW q \in Seq(S), q # <<>>, NEW M, Head(q) \in M, Once(Where(q, M))
  PROVE  Where(q, M) # {} /\ Where(Tail(q), M) = {}
<1>1. Tail(q) \in Seq(S) /\ Head(q) = q[1] /\ 1 \in DOMAIN q
  OBVIOUS
<1>2. Where(Tail(q), M) \subseteq Nat \ {0}
  BY <1>1, WhereIsPositive
<1>3. 1 \in Where(q, M)
  BY <1>1 DEF Where
<1>4. \A i \in Nat \ {0} : i \in Where(Tail(q), M) <=> i + 1 \in Where(q, M)
  BY TailWhere
<1>5. ASSUME NEW i \in Where(Tail(q), M)
      PROVE  FALSE
  <2>1. i \in Nat \ {0} /\ i + 1 \in Where(q, M)
    BY <1>2, <1>4
  <2>2. i + 1 = 1
    BY <1>3, <2>1 DEF Once
  <2> QED
    BY <2>1, <2>2
<1> QED
  BY <1>3, <1>5

-------------------------------------------------------------------------------
(* What a step does to the operations under way.                             *)

Submitted == {c \in Command : c.kind # "shutdown"}
Finished == {e \in Event : e.type = "operation_finished"}
InWorker == pc \in Executing \cup {"finally", "announce"}

LEMMA PendingPlaces ==
  \A q \in Seq(Command) : {i \in DOMAIN q : q[i].kind # "shutdown"} = Where(q, Submitted)
<1> TAKE q \in Seq(Command)
<1>1. \A i \in DOMAIN q : q[i] \in Command
  OBVIOUS
<1> QED
  BY <1>1 DEF Where, Submitted

LEMMA FinishedPlaces ==
  \A q \in Seq(Event) :
    {i \in DOMAIN q : q[i].type = "operation_finished"} = Where(q, Finished)
<1> TAKE q \in Seq(Event)
<1>1. \A i \in DOMAIN q : q[i] \in Event
  OBVIOUS
<1> QED
  BY <1>1 DEF Where, Finished

LEMMA Places ==
  ASSUME TypeOK, TypeOK'
  PROVE  /\ PendingOperations = Where(commands, Submitted)
         /\ PendingOperations' = Where(commands', Submitted)
         /\ FinishedEvents = Where(events, Finished)
         /\ FinishedEvents' = Where(events', Finished)
BY PendingPlaces, FinishedPlaces DEF PendingOperations, FinishedEvents, TypeOK, WorkerTypeOK

LEMMA SubmitPlaces ==
  ASSUME TypeOK, TypeOK', NEW kind \in OperationKind, NEW review \in Nat,
         NEW expected \in Nat, submit(kind, review, expected), PendingOperations = {}
  PROVE  PendingOperations' # {} /\ Once(PendingOperations')
<1> DEFINE c == [kind |-> kind, op |-> ops + 1, review |-> review, viewer |-> expected]
<1>1. c \in Command /\ commands \in Seq(Command) /\ commands' = Append(commands, c)
  BY DEF TypeOK, WorkerTypeOK, submit, Command
<1>2. c \in Submitted
  BY <1>1 DEF Submitted, OperationKind
<1> QED
  BY <1>1, <1>2, Places, PutOne

LEMMA ShutdownPlaces ==
  ASSUME TypeOK, TypeOK', shut_down
  PROVE  PendingOperations' = PendingOperations
<1>1. ShutdownCommand \in Command /\ ShutdownCommand \notin Submitted
  BY ShutdownTyping DEF Submitted, ShutdownCommand
<1>2. commands \in Seq(Command) /\ commands' = Append(commands, ShutdownCommand)
  BY DEF TypeOK, WorkerTypeOK, shut_down
<1> QED
  BY <1>1, <1>2, Places, PutOther

LEMMA GetPlaces ==
  ASSUME TypeOK, TypeOK', commands # <<>>, commands' = Tail(commands),
         Once(PendingOperations)
  PROVE  /\ Head(commands).kind # "shutdown"
              => PendingOperations # {} /\ PendingOperations' = {}
         /\ Head(commands).kind = "shutdown"
              => /\ PendingOperations' = {} <=> PendingOperations = {}
                 /\ Once(PendingOperations')
<1>1. commands \in Seq(Command) /\ Head(commands) \in Command
  BY QueueGet DEF TypeOK, WorkerTypeOK
<1>2. Head(commands) \in Submitted <=> Head(commands).kind # "shutdown"
  BY <1>1 DEF Submitted
<1>3. CASE Head(commands) \in Submitted
  BY <1>1, <1>2, <1>3, Places, GetOne
<1>4. CASE Head(commands) \notin Submitted
  BY <1>1, <1>2, <1>4, Places, GetOther
<1> QED
  BY <1>3, <1>4

LEMMA ReceivePlaces ==
  ASSUME TypeOK, TypeOK', NEW types, Receive(types), Once(FinishedEvents)
  PROVE  /\ Head(events).type \in types
         /\ Head(events).type = "operation_finished"
              => FinishedEvents # {} /\ FinishedEvents' = {}
         /\ Head(events).type # "operation_finished"
              => /\ FinishedEvents' = {} <=> FinishedEvents = {}
                 /\ Once(FinishedEvents')
<1>1. /\ events \in Seq(Event) /\ Head(events) \in Event
      /\ events # <<>> /\ events' = Tail(events)
  BY QueueGet DEF TypeOK, WorkerTypeOK, Receive
<1>2. Head(events) \in Finished <=> Head(events).type = "operation_finished"
  BY <1>1 DEF Finished
<1>3. CASE Head(events) \in Finished
  BY <1>1, <1>2, <1>3, Places, GetOne DEF Receive
<1>4. CASE Head(events) \notin Finished
  BY <1>1, <1>2, <1>4, Places, GetOther DEF Receive
<1> QED
  BY <1>3, <1>4

LEMMA PutPlaces ==
  ASSUME TypeOK, TypeOK', NEW type \in EventType, put(type)
  PROVE  /\ type # "operation_finished" => FinishedEvents' = FinishedEvents
         /\ type = "operation_finished" /\ FinishedEvents = {}
              => FinishedEvents' # {} /\ Once(FinishedEvents')
<1> DEFINE e == [type |-> type, kind |-> command.kind, op |-> command.op]
<1>1. e \in Event /\ events \in Seq(Event) /\ events' = Append(events, e)
  BY DEF TypeOK, WorkerTypeOK, put, Event, Command
<1>2. e \in Finished <=> type = "operation_finished"
  BY <1>1 DEF Finished
<1> QED
  BY <1>1, <1>2, Places, PutOther, PutOne

-------------------------------------------------------------------------------
(* One operation at a time.                                                  *)

\* Who runs what: the operation is in one place, busy tells the places before its
\* end, shutdown follows closing, and a question is only open in an idle window.
Conserved ==
  /\ Once(PendingOperations) /\ Once(FinishedEvents)
  /\ InWorker => PendingOperations = {} /\ FinishedEvents = {}
  /\ PendingOperations # {} => FinishedEvents = {}
  /\ running # NoKind <=> InWorker \/ PendingOperations # {} \/ FinishedEvents # {}

Flags ==
  /\ busy <=> PendingOperations # {} \/ pc \in Executing \cup {"finally"}
  /\ shutdown <=> closing
  /\ dialog # 0 => running = NoKind

AppInv == Conserved /\ Flags

\* A step that moves nothing.
LEMMA NothingMoves ==
  ASSUME AppInv, UNCHANGED <<running, closing, busy, shutdown, pc>>,
         dialog' # 0 => running = NoKind,
         PendingOperations' = PendingOperations, FinishedEvents' = FinishedEvents
  PROVE  AppInv'
BY DEF AppInv, Conserved, Flags, Once, InWorker

LEMMA SubmitConserves ==
  ASSUME TypeOK, TypeOK', AppInv, Idle, NEW kind \in OperationKind, NEW review \in Nat,
         NEW expected \in Nat, submit(kind, review, expected), begin_operation(kind),
         closing' = closing, dialog' = 0
  PROVE  AppInv'
<1>1. /\ PendingOperations = {} /\ FinishedEvents = {} /\ ~InWorker
  BY DEF AppInv, Conserved, Idle
<1>2. PendingOperations' # {} /\ Once(PendingOperations')
  BY <1>1, SubmitPlaces
<1>3. FinishedEvents' = FinishedEvents /\ pc' = pc /\ busy' /\ shutdown' = shutdown
  BY DEF submit, threadVars, FinishedEvents
<1>4. running' # NoKind
  BY DEF begin_operation, OperationKind, NoKind
<1>5. ~InWorker' /\ Once(FinishedEvents')
  BY <1>1, <1>3 DEF InWorker, Once
<1>6. Conserved'
  BY <1>1, <1>2, <1>3, <1>4, <1>5 DEF Conserved
<1>7. Flags'
  BY <1>2, <1>3 DEF AppInv, Flags
<1> QED
  BY <1>6, <1>7 DEF AppInv

LEMMA UserConserves ==
  ASSUME TypeOK, TypeOK', AppInv, UserInput
  PROVE  AppInv'
<1> USE DEF loopVars, resultVars, statusVars, UserTurn, Idle, invalidate_results
<1>1. ASSUME UNCHANGED workerVars, UNCHANGED <<running, closing>>,
             dialog' # 0 => running = NoKind
      PROVE  AppInv'
  <2>1. UNCHANGED <<busy, shutdown, pc, commands, events>>
    BY <1>1 DEF workerVars, sharedVars, threadVars
  <2> QED
    BY <1>1, <2>1, NothingMoves DEF PendingOperations, FinishedEvents
<1>2. dialog # 0 => running = NoKind
  BY DEF AppInv, Flags
<1>3. candidates \in Nat /\ viewer \in Nat /\ dialog \in Nat
  BY DEF TypeOK, WindowTypeOK
<1>4. CASE StartAutoLike
  <2>1. CASE submit("auto_like", 0, 0) /\ begin_operation("auto_like")
    BY <1>4, <2>1, SubmitConserves DEF StartAutoLike, OperationKind
  <2> QED
    BY <1>1, <1>4, <2>1 DEF StartAutoLike, refuse, stay_idle
<1>5. CASE StartScan
  <2>1. CASE submit("scan", 0, 0) /\ begin_operation("scan")
    BY <1>5, <2>1, SubmitConserves DEF StartScan, OperationKind
  <2> QED
    BY <1>1, <1>5, <2>1 DEF StartScan, refuse, stay_idle
<1>6. CASE AskUnfollow
  BY <1>1, <1>6 DEF AskUnfollow
<1>7. CASE ConfirmUnfollow
  <2>1. CASE submit("unfollow", dialog, viewer) /\ begin_operation("unfollow")
    BY <1>2, <1>3, <1>7, <2>1, SubmitConserves DEF ConfirmUnfollow, OperationKind
  <2> QED
    BY <1>1, <1>7, <2>1 DEF ConfirmUnfollow, refuse, stay_idle
<1>8. CASE DeclineUnfollow
  BY <1>1, <1>8 DEF DeclineUnfollow
<1>9. CASE ClearBrowserData
  <2>1. CASE submit("clear_profile", 0, 0) /\ begin_operation("clear_profile")
    BY <1>9, <2>1, SubmitConserves DEF ClearBrowserData, OperationKind
  <2> QED
    BY <1>1, <1>9, <2>1 DEF ClearBrowserData, refuse, stay_idle
<1>10. CASE ChangeSelection
  BY <1>1, <1>2, <1>10 DEF ChangeSelection
<1>11. CASE Stop
  <2>1. UNCHANGED <<running, dialog, closing, busy, shutdown, pc, commands, events>>
    BY <1>11 DEF Stop, stop_current, threadVars
  <2> QED
    BY <1>2, <2>1, NothingMoves DEF PendingOperations, FinishedEvents
<1>12. CASE Close
  <2>1. UNCHANGED <<running, dialog, busy, pc, events>> /\ closing' /\ shutdown'
    BY <1>12 DEF Close, shut_down, threadVars
  <2>2. PendingOperations' = PendingOperations /\ FinishedEvents' = FinishedEvents
    BY <1>12, <2>1, ShutdownPlaces DEF Close, FinishedEvents
  <2>3. Conserved'
    BY <2>1, <2>2 DEF AppInv, Conserved, Once, InWorker
  <2>4. Flags'
    BY <2>1, <2>2 DEF AppInv, Flags
  <2> QED
    BY <2>3, <2>4 DEF AppInv
<1> QED
  BY <1>4, <1>5, <1>6, <1>7, <1>8, <1>9, <1>10, <1>11, <1>12 DEF UserInput

LEMMA WindowConserves ==
  ASSUME TypeOK, TypeOK', AppInv, WindowAdvances
  PROVE  AppInv'
<1>1. ASSUME UNCHANGED workerVars, UNCHANGED <<running, closing, dialog>>
      PROVE  AppInv'
  <2>1. UNCHANGED <<busy, shutdown, pc, commands, events>>
    BY <1>1 DEF workerVars, sharedVars, threadVars
  <2>2. dialog' # 0 => running = NoKind
    BY <1>1 DEF AppInv, Flags
  <2> QED
    BY <1>1, <2>1, <2>2, NothingMoves DEF PendingOperations, FinishedEvents
<1>2. ASSUME NEW types, Receive(types)
      PROVE  /\ UNCHANGED <<closing, dialog, busy, shutdown, pc, commands>>
             /\ PendingOperations' = PendingOperations
  BY <1>2 DEF Receive, sharedVars, threadVars, PendingOperations
<1>3. Once(FinishedEvents)
  BY DEF AppInv, Conserved
<1>4. ASSUME NEW types, Receive(types), "operation_finished" \notin types,
             running' = running
      PROVE  AppInv'
  <2>1. (FinishedEvents' = {} <=> FinishedEvents = {}) /\ Once(FinishedEvents')
    BY <1>3, <1>4, ReceivePlaces
  <2>2. UNCHANGED <<closing, dialog, busy, shutdown, pc>>
        /\ PendingOperations' = PendingOperations
    BY <1>2, <1>4
  <2>3. Conserved'
    BY <1>4, <2>1, <2>2 DEF AppInv, Conserved, Once, InWorker
  <2>4. Flags'
    BY <1>4, <2>2 DEF AppInv, Flags
  <2> QED
    BY <2>3, <2>4 DEF AppInv
<1>5. CASE DrainBegins
  BY <1>1, <1>5 DEF DrainBegins
<1>6. CASE DrainEnds
  BY <1>1, <1>6 DEF DrainEnds
<1>7. CASE OnAutoStatus
  BY <1>4, <1>7 DEF OnAutoStatus, KeepDraining
<1>8. CASE OnCleanerProgress
  BY <1>4, <1>8 DEF OnCleanerProgress, KeepDraining
<1>9. CASE OnScanResult
  BY <1>4, <1>9 DEF OnScanResult, KeepDraining
<1>10. CASE OnUnfollowResult
  BY <1>4, <1>10 DEF OnUnfollowResult, KeepDraining
<1>11. CASE OnUnfollowError
  BY <1>4, <1>11 DEF OnUnfollowError
<1>12. CASE OnError
  BY <1>4, <1>12 DEF OnError
<1>13. CASE OnProfileCleared
  BY <1>4, <1>13 DEF OnProfileCleared, KeepDraining
<1>14. CASE OnOperationFinished
  <2>1. Receive({"operation_finished"}) /\ running' = NoKind
    BY <1>14 DEF OnOperationFinished
  <2>2. FinishedEvents # {} /\ FinishedEvents' = {}
    BY <1>3, <2>1, ReceivePlaces
  <2>3. UNCHANGED <<closing, dialog, busy, shutdown, pc>>
        /\ PendingOperations' = PendingOperations
    BY <1>2, <2>1
  <2>4. ~InWorker /\ PendingOperations = {}
    BY <2>2 DEF AppInv, Conserved
  <2>5. Conserved'
    BY <2>1, <2>2, <2>3, <2>4 DEF Conserved, Once, InWorker
  <2>6. Flags'
    BY <2>1, <2>3 DEF AppInv, Flags
  <2> QED
    BY <2>5, <2>6 DEF AppInv
<1>15. CASE OnWorkerStopped
  BY <1>4, <1>15 DEF OnWorkerStopped
<1>16. CASE WaitForWorker
  BY <1>1, <1>16 DEF WaitForWorker
<1>17. CASE ReleaseLock
  BY <1>1, <1>17 DEF ReleaseLock
<1> QED
  BY <1>5, <1>6, <1>7, <1>8, <1>9, <1>10, <1>11, <1>12, <1>13, <1>14, <1>15, <1>16,
     <1>17 DEF WindowAdvances

\* A step inside the operation, up to its end.
LEMMA InsideConserves ==
  ASSUME AppInv, UNCHANGED <<running, dialog, closing, busy, shutdown, commands>>,
         pc \in Executing, pc' \in Executing \cup {"finally"},
         FinishedEvents' = FinishedEvents
  PROVE  AppInv'
<1>1. PendingOperations' = PendingOperations /\ InWorker /\ InWorker'
  BY DEF PendingOperations, InWorker
<1>2. Conserved'
  BY <1>1 DEF AppInv, Conserved, Once
<1>3. Flags'
  BY <1>1 DEF AppInv, Flags
<1> QED
  BY <1>2, <1>3 DEF AppInv

\* A step outside any operation.
LEMMA OutsideConserves ==
  ASSUME AppInv, UNCHANGED <<running, dialog, closing, busy, shutdown>>,
         pc \notin Executing \cup {"finally", "announce"},
         pc' \notin Executing \cup {"finally", "announce"},
         PendingOperations' = {} <=> PendingOperations = {}, Once(PendingOperations'),
         FinishedEvents' = FinishedEvents
  PROVE  AppInv'
<1>1. ~InWorker /\ ~InWorker'
  BY DEF InWorker
<1>2. Conserved'
  BY <1>1 DEF AppInv, Conserved, Once
<1>3. Flags'
  BY DEF AppInv, Flags
<1> QED
  BY <1>2, <1>3 DEF AppInv

LEMMA ThreadConserves ==
  ASSUME TypeOK, TypeOK', AppInv, WorkerStep(lock), UNCHANGED uiVars
  PROVE  AppInv'
<1> USE DEF Goto, Executing, sharedVars
<1>1. UNCHANGED <<running, dialog, closing>>
  BY DEF uiVars, loopVars
<1>2. ASSUME NEW type \in EventType \ {"operation_finished"}, put(type)
      PROVE  FinishedEvents' = FinishedEvents
  BY <1>2, PutPlaces
<1>3. ASSUME UNCHANGED events
      PROVE  FinishedEvents' = FinishedEvents
  BY <1>3 DEF FinishedEvents
<1>4. ASSUME UNCHANGED commands
      PROVE  PendingOperations' = PendingOperations
  BY <1>4 DEF PendingOperations
<1>5. Once(PendingOperations) /\ Once(FinishedEvents)
  BY DEF AppInv, Conserved
<1>6. CASE GetCommand
  <2>1. /\ pc = "idle" /\ pc' \in Executing /\ UNCHANGED <<busy, shutdown, events>>
        /\ commands # <<>> /\ commands' = Tail(commands) /\ Head(commands).kind # "shutdown"
    BY <1>6 DEF GetCommand
  <2>2. PendingOperations # {} /\ PendingOperations' = {}
    BY <1>5, <2>1, GetPlaces
  <2>3. FinishedEvents = {} /\ FinishedEvents' = {} /\ running' # NoKind
    BY <1>1, <1>3, <2>1, <2>2 DEF AppInv, Conserved
  <2>4. Conserved'
    BY <2>2, <2>3, <2>1 DEF Conserved, Once, InWorker
  <2>5. Flags'
    BY <1>1, <2>1, <2>2 DEF AppInv, Flags
  <2> QED
    BY <2>4, <2>5 DEF AppInv
<1>7. CASE GetShutdown
  <2>1. /\ pc = "idle" /\ pc' = "exit" /\ UNCHANGED <<busy, shutdown, events>>
        /\ commands # <<>> /\ commands' = Tail(commands) /\ Head(commands).kind = "shutdown"
    BY <1>7 DEF GetShutdown
  <2>2. (PendingOperations' = {} <=> PendingOperations = {}) /\ Once(PendingOperations')
    BY <1>5, <2>1, GetPlaces
  <2> QED
    BY <1>1, <1>3, <2>1, <2>2, OutsideConserves
<1>8. CASE EnsureBrowser
  BY <1>1, <1>3, <1>8, InsideConserves DEF EnsureBrowser
<1>9. CASE LoginStopped
  BY <1>1, <1>3, <1>9, InsideConserves DEF LoginStopped
<1>10. CASE AutoLikeEnds
  BY <1>1, <1>2, <1>3, <1>10, InsideConserves DEF AutoLikeEnds, EventType
<1>11. CASE ScanEnds
  BY <1>1, <1>2, <1>3, <1>11, InsideConserves DEF ScanEnds, EventType
<1>12. CASE UnfollowEnds
  BY <1>1, <1>2, <1>3, <1>12, InsideConserves DEF UnfollowEnds, EventType
<1>13. ASSUME NEW type \in {"error", "unfollow_error"}, Raise(type), pc \in Executing
       PROVE  AppInv'
  BY <1>1, <1>2, <1>13, InsideConserves DEF Raise, EventType
<1>14. CASE LoginFails
  BY <1>13, <1>14 DEF LoginFails
<1>15. CASE RunFails
  BY <1>13, <1>15 DEF RunFails
<1>16. CASE ClearProfile(lock)
  BY <1>1, <1>2, <1>16, InsideConserves DEF ClearProfile, EventType
<1>17. CASE Release
  <2>1. /\ pc = "finally" /\ pc' = "announce" /\ ~busy'
        /\ UNCHANGED <<shutdown, commands, events>>
    BY <1>17 DEF Release
  <2>2. /\ PendingOperations' = PendingOperations /\ FinishedEvents' = FinishedEvents
        /\ InWorker /\ InWorker'
    BY <1>3, <1>4, <2>1 DEF InWorker
  <2>3. Conserved'
    BY <1>1, <2>2 DEF AppInv, Conserved, Once
  <2>4. PendingOperations' = {}
    BY <2>2 DEF AppInv, Conserved
  <2>5. Flags'
    BY <1>1, <2>1, <2>4 DEF AppInv, Flags
  <2> QED
    BY <2>3, <2>5 DEF AppInv
<1>18. CASE Announce
  <2>1. /\ pc = "announce" /\ pc' = "idle" /\ UNCHANGED <<busy, shutdown, commands>>
        /\ put("operation_finished")
    BY <1>18 DEF Announce
  <2>2. /\ PendingOperations = {} /\ FinishedEvents = {} /\ running # NoKind
        /\ PendingOperations' = {}
    BY <1>4, <2>1 DEF AppInv, Conserved, InWorker
  <2>3. FinishedEvents' # {} /\ Once(FinishedEvents')
    BY <2>1, <2>2, PutPlaces DEF EventType
  <2>4. ~InWorker'
    BY <2>1 DEF InWorker
  <2>5. Conserved'
    BY <1>1, <2>2, <2>3, <2>4 DEF Conserved, Once
  <2>6. Flags'
    BY <1>1, <2>1, <2>2 DEF AppInv, Flags
  <2> QED
    BY <2>5, <2>6 DEF AppInv
<1>19. CASE DiscardBrowser
  BY <1>1, <1>3, <1>4, <1>5, <1>19, OutsideConserves DEF DiscardBrowser
<1>20. CASE WorkerStopped
  BY <1>1, <1>2, <1>4, <1>5, <1>20, OutsideConserves DEF WorkerStopped, EventType
<1>21. CASE LaunchFails
  BY <1>1, <1>2, <1>21, InsideConserves DEF LaunchFails, EventType
<1>22. CASE LoggedIn
  BY <1>1, <1>3, <1>22, InsideConserves DEF LoggedIn
<1>23. CASE Progress
  BY <1>1, <1>2, <1>23, InsideConserves DEF Progress, EventType
<1>24. CASE UnfollowWrite
  BY <1>1, <1>3, <1>24, InsideConserves DEF UnfollowWrite
<1>25. CASE BrowserCloses
  <2>1. UNCHANGED <<busy, shutdown, pc, commands, events>>
    BY <1>25 DEF BrowserCloses
  <2>2. dialog' # 0 => running = NoKind
    BY <1>1 DEF AppInv, Flags
  <2> QED
    BY <1>1, <1>3, <1>4, <2>1, <2>2, NothingMoves
<1> QED
  BY <1>6, <1>7, <1>8, <1>9, <1>10, <1>11, <1>12, <1>14, <1>15, <1>16, <1>17, <1>18,
     <1>19, <1>20, <1>21, <1>22, <1>23, <1>24, <1>25 DEF WorkerStep, WorkerAdvances

LEMMA AppInvariance == Spec => [](TypeOK /\ AppInv)
<1>1. Init => AppInv
  BY DEF Init, WorkerInit, AppInv, Conserved, Flags, InWorker, Executing, Once,
         PendingOperations, FinishedEvents
<1>2. TypeOK /\ AppInv /\ [Next]_vars => AppInv'
  <2> SUFFICES ASSUME TypeOK, AppInv, [Next]_vars
               PROVE  AppInv'
    OBVIOUS
  <2>1. TypeOK'
    BY Typing
  <2>2. CASE UserInput
    BY <2>1, <2>2, UserConserves
  <2>3. CASE WindowAdvances
    BY <2>1, <2>3, WindowConserves
  <2>4. CASE WorkerStep(lock) /\ UNCHANGED uiVars
    BY <2>1, <2>4, ThreadConserves
  <2>5. CASE UNCHANGED vars
    <3>1. UNCHANGED <<running, dialog, closing, busy, shutdown, pc, commands, events>>
      BY <2>5 DEF vars, workerVars, sharedVars, threadVars, uiVars, loopVars
    <3>2. dialog' # 0 => running = NoKind
      BY <3>1 DEF AppInv, Flags
    <3> QED
      BY <3>1, <3>2, NothingMoves DEF PendingOperations, FinishedEvents
  <2> QED
    BY <2>2, <2>3, <2>4, <2>5 DEF Next, Exited
<1> QED
  BY <1>1, <1>2, InitTyping, Typing, PTL DEF Spec

\* The operation a window runs is in exactly one place, the command queue, the
\* thread or the event queue, however submit, _run and _drain_events interleave.
\* And a window that shows itself idle, and is not closing, finds submit accepting.
THEOREM OneOperation == Spec => []WindowAndWorkerAgree
<1>1. AppInv => OperationIsConserved
  BY DEF AppInv, Conserved, OperationIsConserved, InWorker, Once
<1>2. AppInv => IdleWindowIsAccepted
  BY DEF AppInv, Conserved, Flags, IdleWindowIsAccepted, Idle, Accepts, InWorker
<1>3. AppInv => WindowAndWorkerAgree
  BY <1>1, <1>2 DEF WindowAndWorkerAgree
<1> QED
  BY <1>3, AppInvariance, PTL

-------------------------------------------------------------------------------
(* The way out.                                                              *)

ExitInv ==
  /\ pc \in {"bye", "dead"} => browser = "none"
  /\ \A i \in DOMAIN events : events[i].type = "worker_stopped" => pc = "dead"
  /\ ui = "destroyed" \/ ~lock => pc = "dead"

LEMMA PutQuiet ==
  ASSUME TypeOK, ExitInv, NEW type \in EventType, put(type),
         type = "worker_stopped" \/ pc = "dead" => pc' = "dead"
  PROVE  \A i \in DOMAIN events' : events'[i].type = "worker_stopped" => pc' = "dead"
<1> DEFINE e == [type |-> type, kind |-> command.kind, op |-> command.op]
<1>1. e \in Event /\ events \in Seq(Event) /\ events' = Append(events, e) /\ e.type = type
  BY DEF TypeOK, WorkerTypeOK, put, Event, Command
<1>2. /\ DOMAIN events' = DOMAIN events \cup {Len(events) + 1}
      /\ events'[Len(events) + 1] = e
      /\ \A i \in DOMAIN events : events'[i] = events[i]
  <2>1. DOMAIN events = 1..Len(events) /\ Len(events) \in Nat
    BY <1>1
  <2>2. DOMAIN Append(events, e) = 1..(Len(events) + 1)
        /\ Append(events, e)[Len(events) + 1] = e
        /\ \A i \in 1..Len(events) : Append(events, e)[i] = events[i]
    BY <1>1
  <2> QED
    BY <1>1, <2>1, <2>2
<1> QED
  BY <1>1, <1>2 DEF ExitInv

LEMMA ReceiveQuiet ==
  ASSUME TypeOK, ExitInv, NEW types, Receive(types)
  PROVE  /\ \A i \in DOMAIN events' : events'[i].type = "worker_stopped" => pc' = "dead"
         /\ UNCHANGED <<pc, browser, lock>>
         /\ Head(events).type = "worker_stopped" => pc = "dead"
<1>1. events \in Seq(Event) /\ events # <<>> /\ events' = Tail(events)
      /\ UNCHANGED <<pc, browser, lock>>
  BY DEF TypeOK, WorkerTypeOK, Receive, threadVars
<1>2. /\ Head(events) = events[1] /\ 1 \in DOMAIN events
      /\ DOMAIN Tail(events) = 1..(Len(events) - 1) /\ DOMAIN events = 1..Len(events)
      /\ Len(events) \in Nat
      /\ \A i \in 1..(Len(events) - 1) : Tail(events)[i] = events[i + 1]
  BY <1>1
<1>3. \A i \in 1..(Len(events) - 1) : i + 1 \in DOMAIN events
  BY <1>2
<1> QED
  BY <1>1, <1>2, <1>3 DEF ExitInv

LEMMA ExitStands ==
  ASSUME ExitInv, UNCHANGED <<pc, browser, events, ui, lock>>
  PROVE  ExitInv'
BY DEF ExitInv

LEMMA UserExit ==
  ASSUME TypeOK, ExitInv, UserInput
  PROVE  ExitInv'
<1>1. UNCHANGED <<pc, browser, events, ui, lock>>
  BY DEF UserInput, StartAutoLike, StartScan, AskUnfollow, ConfirmUnfollow,
         DeclineUnfollow, ClearBrowserData, ChangeSelection, Stop, Close, submit, refuse,
         stop_current, shut_down, workerVars, threadVars, loopVars
<1> QED
  BY <1>1, ExitStands

LEMMA WindowExit ==
  ASSUME TypeOK, ExitInv, WindowAdvances
  PROVE  ExitInv'
<1>1. ASSUME UNCHANGED workerVars
      PROVE  UNCHANGED <<pc, browser, events>>
  BY <1>1 DEF workerVars, threadVars
<1>2. ASSUME NEW types, Receive(types), ui' = ui
      PROVE  ExitInv'
  BY <1>2, ReceiveQuiet DEF ExitInv
<1>3. CASE DrainBegins
  BY <1>1, <1>3 DEF DrainBegins, ExitInv
<1>4. CASE DrainEnds
  BY <1>1, <1>4 DEF DrainEnds, ExitInv
<1>5. CASE OnAutoStatus \/ OnCleanerProgress \/ OnScanResult \/ OnUnfollowResult
           \/ OnProfileCleared
  BY <1>2, <1>5 DEF OnAutoStatus, OnCleanerProgress, OnScanResult, OnUnfollowResult,
                    OnProfileCleared, KeepDraining
<1>6. CASE OnUnfollowError \/ OnError \/ OnOperationFinished
  BY <1>2, <1>6 DEF OnUnfollowError, OnError, OnOperationFinished
<1>7. CASE OnWorkerStopped
  <2>1. Receive({"worker_stopped"}) /\ Head(events).type = "worker_stopped"
    BY <1>7 DEF OnWorkerStopped, Receive
  <2> QED
    BY <2>1, ReceiveQuiet DEF ExitInv
<1>8. CASE WaitForWorker
  BY <1>1, <1>8 DEF WaitForWorker, ExitInv
<1>9. CASE ReleaseLock
  BY <1>1, <1>9 DEF ReleaseLock, ExitInv
<1> QED
  BY <1>3, <1>4, <1>5, <1>6, <1>7, <1>8, <1>9 DEF WindowAdvances

LEMMA ThreadExit ==
  ASSUME TypeOK, ExitInv, WorkerStep(lock), UNCHANGED uiVars
  PROVE  ExitInv'
<1> USE DEF Goto
<1>1. UNCHANGED <<ui, lock>>
  BY DEF uiVars, loopVars
<1>2. ASSUME NEW type \in EventType \ {"worker_stopped"}, put(type), pc # "dead",
             pc' \notin {"bye", "dead"}
      PROVE  ExitInv'
  <2>1. \A i \in DOMAIN events' : events'[i].type = "worker_stopped" => pc' = "dead"
    BY <1>2, PutQuiet
  <2> QED
    BY <1>1, <1>2, <2>1 DEF ExitInv
<1>3. ASSUME UNCHANGED events, pc # "dead", pc' \notin {"bye", "dead"}
      PROVE  ExitInv'
  BY <1>1, <1>3 DEF ExitInv
<1>4. ASSUME NEW type \in {"error", "unfollow_error"}, Raise(type), pc \in {"login", "run"}
      PROVE  ExitInv'
  BY <1>2, <1>4 DEF Raise, EventType
<1>5. CASE GetCommand \/ GetShutdown \/ EnsureBrowser \/ LoginStopped \/ LoggedIn
           \/ UnfollowWrite \/ Release
  BY <1>3, <1>5 DEF GetCommand, GetShutdown, EnsureBrowser, LoginStopped, LoggedIn,
                    UnfollowWrite, Release
<1>6. CASE AutoLikeEnds \/ ScanEnds \/ UnfollowEnds \/ ClearProfile(lock) \/ Announce
           \/ LaunchFails \/ Progress
  BY <1>2, <1>3, <1>6 DEF AutoLikeEnds, ScanEnds, UnfollowEnds, ClearProfile, Announce,
                          LaunchFails, Progress, EventType
<1>7. CASE LoginFails \/ RunFails
  BY <1>4, <1>7 DEF LoginFails, RunFails
<1>8. CASE DiscardBrowser
  BY <1>1, <1>8 DEF DiscardBrowser, ExitInv
<1>9. CASE WorkerStopped
  <2>1. put("worker_stopped") /\ pc' = "dead" /\ browser' = browser /\ pc = "bye"
    BY <1>9 DEF WorkerStopped
  <2> QED
    BY <2>1 DEF ExitInv
<1>10. CASE BrowserCloses
  BY <1>1, <1>10 DEF BrowserCloses, ExitInv
<1> QED
  BY <1>5, <1>6, <1>7, <1>8, <1>9, <1>10 DEF WorkerStep, WorkerAdvances

\* When the window is gone, or the lock on the profile given back, the thread has
\* left _run and Chrome is closed, whatever was going on when the user closed it.
THEOREM ExitIsClean == Spec => []ExitLeavesNoChrome
<1>1. Init => ExitInv
  BY DEF Init, WorkerInit, ExitInv
<1>2. TypeOK /\ ExitInv /\ [Next]_vars => ExitInv'
  <2> SUFFICES ASSUME TypeOK, ExitInv, [Next]_vars
               PROVE  ExitInv'
    OBVIOUS
  <2>1. CASE UNCHANGED vars
    BY <2>1, ExitStands DEF vars, workerVars, threadVars, uiVars, loopVars
  <2> QED
    BY <2>1, UserExit, WindowExit, ThreadExit DEF Next, Exited
<1>3. ExitInv => ExitLeavesNoChrome
  BY DEF ExitInv, ExitLeavesNoChrome
<1> QED
  BY <1>1, <1>2, <1>3, TypeCorrect, PTL DEF Spec

-------------------------------------------------------------------------------
(* Whose operation it is.                                                    *)

NoticeKind(type) ==
  CASE type \in {"unfollow_result", "unfollow_stopped", "unfollow_error"} -> {"unfollow"}
    [] type = "scan_result" -> {"scan"}
    [] type = "profile_cleared" -> {"clear_profile"}
    [] OTHER -> OperationKind

\* The command, the stop event and the events of the running operation are its own, and
\* its operation_finished is the last of them.
Own ==
  /\ currentStop = ops
  /\ InWorker => command.kind = running /\ command.op = ops
  /\ \A i \in PendingOperations : commands[i].kind = running /\ commands[i].op = ops
  /\ pc \in Executing => stopEvent = ops
  /\ pc = "clear" => command.kind = "clear_profile"

OwnEvents ==
  /\ \A i \in DOMAIN events : events[i].type # "worker_stopped" =>
       /\ running \in NoticeKind(events[i].type)
       /\ events[i].kind = running /\ events[i].op = ops
  /\ \A i, j \in DOMAIN events :
       i < j /\ events[i].type = "operation_finished" => events[j].type = "worker_stopped"

\* A stop is asked of the running operation, and not while the profile is cleared.
StopInv ==
  /\ stopRequested # NoKind => stopRequested = running /\ running # "clear_profile"
  /\ ~closing => stopSet \subseteq stopAsked
  /\ PendingStopIsShown

\* The list on screen, and the list an unfollow is made from, as long as it is in the
\* queue or in the thread.
UnfollowNotice ==
  \E i \in DOMAIN events :
    events[i].type \in {"unfollow_result", "unfollow_stopped", "unfollow_error"}
ClearNotice == \E i \in DOMAIN events : events[i].type = "profile_cleared"

Reviewed(c) ==
  c.kind = "unfollow" =>
    /\ c.review # 0 /\ c.review = c.viewer
    /\ lastWrite < c.review \/ lastWrite = c.op
    /\ NotClearedSince(c.review)

Shown ==
  /\ viewer = candidates /\ candidates <= ops /\ lastWrite <= ops /\ lastClear.op <= ops
  /\ dialog # 0 => dialog = candidates
  /\ running \notin {NoKind, "unfollow"} => lastWrite < ops
  /\ running \notin {NoKind, "clear_profile"} => NotClearedSince(ops)
  /\ PendingOperations # {} \/ pc \in {"ensure", "login"} => lastWrite < ops
  /\ candidates # 0 => /\ lastWrite < candidates \/ (lastWrite = ops /\ pc = "run") \/ UnfollowNotice
                       /\ NotClearedSince(candidates) \/ ClearNotice

ReviewInv ==
  /\ Shown
  /\ \A i \in PendingOperations : Reviewed(commands[i])
  /\ InWorker => Reviewed(command)

OwnInv == Own /\ OwnEvents /\ StopInv /\ ReviewInv

\* The events after a put, and after a get.
LEMMA PutEvent ==
  ASSUME TypeOK, NEW type \in EventType, put(type)
  PROVE  \E n \in Nat :
           /\ DOMAIN events' = DOMAIN events \cup {n} /\ DOMAIN events \subseteq Nat
           /\ \A i \in DOMAIN events : events'[i] = events[i] /\ i < n
           /\ events'[n].type = type /\ events'[n].kind = command.kind /\ events'[n].op = command.op
<1> DEFINE e == [type |-> type, kind |-> command.kind, op |-> command.op]
<1>1. /\ e \in Event /\ events \in Seq(Event) /\ events' = Append(events, e)
      /\ e.type = type /\ e.kind = command.kind /\ e.op = command.op
  BY DEF TypeOK, WorkerTypeOK, put, Event, Command
<1> HIDE DEF e
<1>2. DOMAIN events = 1..Len(events) /\ Len(events) \in Nat
  BY <1>1
<1>3. DOMAIN Append(events, e) = 1..(Len(events) + 1)
      /\ Append(events, e)[Len(events) + 1] = e
      /\ \A i \in 1..Len(events) : Append(events, e)[i] = events[i]
  BY <1>1
<1>4. /\ DOMAIN events' = DOMAIN events \cup {Len(events) + 1} /\ Len(events) + 1 \in Nat
      /\ DOMAIN events \subseteq Nat /\ events'[Len(events) + 1] = e
      /\ \A i \in DOMAIN events : events'[i] = events[i] /\ i < Len(events) + 1
  BY <1>1, <1>2, <1>3
<1> QED
  BY <1>1, <1>4

LEMMA GetEvent ==
  ASSUME TypeOK, NEW types, Receive(types)
  PROVE  /\ 1 \in DOMAIN events /\ Head(events) = events[1] /\ Head(events).type \in types
         /\ DOMAIN events' \subseteq Nat /\ DOMAIN events \subseteq Nat
         /\ \A i \in DOMAIN events' : i > 0 /\ i + 1 \in DOMAIN events /\ events'[i] = events[i + 1]
         /\ \A i \in DOMAIN events : i = 1 \/ (i - 1 \in DOMAIN events' /\ events'[i - 1] = events[i])
<1>1. events \in Seq(Event) /\ events # <<>> /\ events' = Tail(events) /\ Head(events).type \in types
  BY DEF TypeOK, WorkerTypeOK, Receive
<1>2. /\ Head(events) = events[1] /\ DOMAIN events = 1..Len(events) /\ Len(events) \in Nat \ {0}
      /\ DOMAIN events' = 1..(Len(events) - 1)
      /\ \A i \in 1..(Len(events) - 1) : events'[i] = events[i + 1]
  BY <1>1
<1>3. \A i \in 1..Len(events) : i = 1 \/ (i - 1 \in 1..(Len(events) - 1) /\ (i - 1) + 1 = i)
  BY <1>2
<1> QED
  BY <1>1, <1>2, <1>3

UnfollowNews == {"unfollow_result", "unfollow_stopped", "unfollow_error"}

LEMMA PutOwn ==
  ASSUME TypeOK, Own, OwnEvents, FinishedEvents = {}, InWorker, UNCHANGED <<running, ops>>,
         NEW type \in EventType \ {"worker_stopped"}, running \in NoticeKind(type), put(type)
  PROVE  /\ OwnEvents'
         /\ UnfollowNotice \/ type \in UnfollowNews => UnfollowNotice'
         /\ ClearNotice \/ type = "profile_cleared" => ClearNotice'
<1>1. PICK n \in Nat :
        /\ DOMAIN events' = DOMAIN events \cup {n} /\ DOMAIN events \subseteq Nat
        /\ \A i \in DOMAIN events : events'[i] = events[i] /\ i < n
        /\ events'[n].type = type /\ events'[n].kind = command.kind /\ events'[n].op = command.op
  BY PutEvent
<1>2. command.kind = running /\ command.op = ops
  BY DEF Own
<1>3. \A i \in DOMAIN events : events[i].type # "operation_finished"
  BY DEF FinishedEvents
<1>4. ASSUME NEW i \in DOMAIN events', events'[i].type # "worker_stopped"
      PROVE  running \in NoticeKind(events'[i].type) /\ events'[i].kind = running /\ events'[i].op = ops
  BY <1>1, <1>2, <1>4 DEF OwnEvents
<1>5. ASSUME NEW i \in DOMAIN events', NEW k \in DOMAIN events', i < k,
             events'[i].type = "operation_finished"
      PROVE  events'[k].type = "worker_stopped"
  <2>1. i = n
    BY <1>1, <1>3, <1>5
  <2>2. k \in DOMAIN events \/ k = n
    BY <1>1
  <2>3. ~(i < k)
    BY <1>1, <2>1, <2>2
  <2> QED
    BY <1>5, <2>3
<1>6. OwnEvents'
  <2>1. \A i \in DOMAIN events' : events'[i].type # "worker_stopped" =>
          /\ running' \in NoticeKind(events'[i].type)
          /\ events'[i].kind = running' /\ events'[i].op = ops'
    BY <1>4
  <2> QED
    BY <1>5, <2>1 DEF OwnEvents
<1>7. UnfollowNotice \/ type \in UnfollowNews => UnfollowNotice'
  BY <1>1 DEF UnfollowNotice, UnfollowNews
<1>8. ClearNotice \/ type = "profile_cleared" => ClearNotice'
  BY <1>1 DEF ClearNotice
<1> QED
  BY <1>6, <1>7, <1>8

LEMMA ReceiveOwn ==
  ASSUME TypeOK, OwnEvents, NEW types, Receive(types)
  PROVE  /\ Head(events).type \in types
         /\ Head(events).type # "worker_stopped" =>
              /\ running \in NoticeKind(Head(events).type)
              /\ Head(events).kind = running /\ Head(events).op = ops
         /\ running' = running \/ Head(events).type = "operation_finished" => OwnEvents'
         /\ UnfollowNotice => UnfollowNotice' \/ Head(events).type \in UnfollowNews
         /\ ClearNotice => ClearNotice' \/ Head(events).type = "profile_cleared"
<1>1. /\ 1 \in DOMAIN events /\ Head(events) = events[1] /\ Head(events).type \in types
      /\ DOMAIN events' \subseteq Nat /\ DOMAIN events \subseteq Nat
      /\ \A i \in DOMAIN events' : i > 0 /\ i + 1 \in DOMAIN events /\ events'[i] = events[i + 1]
      /\ \A i \in DOMAIN events : i = 1 \/ (i - 1 \in DOMAIN events' /\ events'[i - 1] = events[i])
  BY GetEvent
<1>2. ops' = ops
  BY DEF Receive, sharedVars
<1>3. ASSUME NEW i \in DOMAIN events', NEW k \in DOMAIN events', i < k,
             events'[i].type = "operation_finished"
      PROVE  events'[k].type = "worker_stopped"
  <2>1. i + 1 < k + 1
    BY <1>1, <1>3
  <2> QED
    BY <1>1, <1>3, <2>1 DEF OwnEvents
<1>4. ASSUME Head(events).type = "operation_finished", NEW i \in DOMAIN events'
      PROVE  events'[i].type = "worker_stopped"
  <2>1. 1 < i + 1
    BY <1>1
  <2> QED
    BY <1>1, <1>4, <2>1 DEF OwnEvents
<1>5. ASSUME running' = running \/ Head(events).type = "operation_finished"
      PROVE  OwnEvents'
  <2>1. \A i \in DOMAIN events' : events'[i].type # "worker_stopped" =>
          /\ running' \in NoticeKind(events'[i].type)
          /\ events'[i].kind = running' /\ events'[i].op = ops'
    BY <1>1, <1>2, <1>4, <1>5 DEF OwnEvents
  <2> QED
    BY <1>3, <2>1 DEF OwnEvents
<1>6. UnfollowNotice => UnfollowNotice' \/ Head(events).type \in UnfollowNews
  BY <1>1 DEF UnfollowNotice, UnfollowNews
<1>7. ClearNotice => ClearNotice' \/ Head(events).type = "profile_cleared"
  BY <1>1 DEF ClearNotice
<1> QED
  BY <1>1, <1>5, <1>6, <1>7 DEF OwnEvents

\* An idle window has only notices of the end of the thread before it.
LEMMA IdleHasNoNews ==
  ASSUME OwnEvents, running = NoKind
  PROVE  /\ \A i \in DOMAIN events : events[i].type = "worker_stopped"
         /\ ~UnfollowNotice /\ ~ClearNotice
<1>1. \A type : NoKind \notin NoticeKind(type)
  BY DEF NoKind, NoticeKind, OperationKind
<1>2. \A i \in DOMAIN events : events[i].type = "worker_stopped"
  BY <1>1 DEF OwnEvents
<1> QED
  BY <1>2 DEF UnfollowNotice, ClearNotice

-------------------------------------------------------------------------------
(* The thread keeps to its operation.                                        *)

\* A step of the thread that reads no command.
LEMMA OwnStands ==
  ASSUME Own, UNCHANGED <<currentStop, ops, command, stopEvent, commands, running>>,
         InWorker' => InWorker, pc' \in Executing => pc \in Executing,
         pc' = "clear" => pc = "clear"
  PROVE  Own'
BY DEF Own, PendingOperations

LEMMA GetCommandOwn ==
  ASSUME TypeOK, TypeOK', AppInv, Own, GetCommand, running' = running
  PROVE  Own' /\ PendingOperations # {} /\ PendingOperations' = {} /\ 1 \in PendingOperations
         /\ command' = commands[1]
<1>1. /\ commands \in Seq(Command) /\ commands # <<>> /\ commands' = Tail(commands)
      /\ Head(commands).kind # "shutdown" /\ command' = Head(commands) /\ stopEvent' = currentStop
      /\ UNCHANGED <<currentStop, ops>>
      /\ pc' = IF Head(commands).kind = "clear_profile" THEN "clear" ELSE "ensure"
  BY DEF GetCommand, TypeOK, WorkerTypeOK, sharedVars, Goto
<1>2. Head(commands) = commands[1] /\ 1 \in DOMAIN commands
  BY <1>1
<1>3. 1 \in PendingOperations
  BY <1>1, <1>2 DEF PendingOperations
<1>4. PendingOperations' = {}
  BY <1>1, GetPlaces DEF AppInv, Conserved
<1>5. command'.kind = running /\ command'.op = ops
  BY <1>1, <1>2, <1>3 DEF Own
<1>6. Own'
  BY <1>1, <1>4, <1>5 DEF Own
<1> QED
  BY <1>1, <1>2, <1>3, <1>4, <1>6

LEMMA GetShutdownOwn ==
  ASSUME TypeOK, Own, GetShutdown, running' = running
  PROVE  Own' /\ ~InWorker' /\ \A i \in PendingOperations' :
                    i + 1 \in PendingOperations /\ commands'[i] = commands[i + 1]
<1>1. /\ commands \in Seq(Command) /\ commands # <<>> /\ commands' = Tail(commands) /\ pc' = "exit"
      /\ UNCHANGED <<currentStop, ops>>
  BY DEF GetShutdown, TypeOK, WorkerTypeOK, sharedVars, Goto
<1>2. \A i \in DOMAIN commands' : i + 1 \in DOMAIN commands /\ commands'[i] = commands[i + 1]
  BY <1>1
<1>3. \A i \in PendingOperations' : i + 1 \in PendingOperations /\ commands'[i] = commands[i + 1]
  BY <1>2 DEF PendingOperations
<1>4. ~InWorker' /\ pc' \notin Executing /\ pc' # "clear"
  BY <1>1 DEF InWorker, Executing
<1> QED
  BY <1>1, <1>3, <1>4 DEF Own

\* The list and the question stay as they are, and no notice is lost.
LEMMA ShownStands ==
  ASSUME Shown, UNCHANGED <<candidates, viewer, dialog, ops, running>>,
         UNCHANGED <<lastWrite, lastClear>>,
         PendingOperations' # {} \/ pc' \in {"ensure", "login"} =>
           PendingOperations # {} \/ pc \in {"ensure", "login"},
         UnfollowNotice => UnfollowNotice', ClearNotice => ClearNotice',
         pc = "run" => pc' = "run" \/ lastWrite # ops \/ UnfollowNotice' \/ candidates = 0
                       \/ lastWrite < candidates
  PROVE  Shown'
BY DEF Shown, NotClearedSince

LEMMA ReviewStands ==
  ASSUME ReviewInv, Shown', UNCHANGED <<lastWrite, lastClear, commands, command>>, InWorker' => InWorker
  PROVE  ReviewInv'
<1>1. PendingOperations' = PendingOperations
  BY DEF PendingOperations
<1> QED
  BY <1>1 DEF ReviewInv, Reviewed, NotClearedSince

LEMMA ThreadOwn ==
  ASSUME TypeOK, TypeOK', AppInv, OwnInv, WorkerStep(lock), UNCHANGED uiVars
  PROVE  OwnInv'
<1> USE DEF Goto, Executing, sharedVars
<1>1. UNCHANGED <<running, dialog, closing, candidates, viewer, stopRequested, stopAsked,
                  autoStatus, cleanerStatus>>
  BY DEF uiVars, loopVars, resultVars, statusVars
<1>2. UNCHANGED <<ops, currentStop, stopSet>>
  BY DEF WorkerStep, WorkerAdvances, GetCommand, GetShutdown, EnsureBrowser, LoginStopped,
         AutoLikeEnds, ScanEnds, UnfollowEnds, LoginFails, RunFails, Raise, ClearProfile, Release,
         Announce, DiscardBrowser, WorkerStopped, LaunchFails, LoggedIn, Progress, UnfollowWrite,
         BrowserCloses
<1>3. StopInv'
  BY <1>1, <1>2 DEF OwnInv, StopInv, PendingStopIsShown
<1>4. Own /\ OwnEvents /\ ReviewInv /\ Shown
  BY DEF OwnInv, ReviewInv
<1>5. InWorker => /\ PendingOperations = {} /\ FinishedEvents = {}
                  /\ running \in OperationKind /\ command.kind = running /\ command.op = ops
  BY DEF AppInv, Conserved, TypeOK, WindowTypeOK, OwnInv, Own
<1>6. ops \in Nat /\ lastWrite \in Nat /\ lastClear.op \in Nat /\ candidates \in Nat
  BY DEF TypeOK, WorkerTypeOK, WindowTypeOK
\* A step inside the operation that puts one event, or none.
<1>7. ASSUME NEW type \in EventType \ {"worker_stopped"}, running \in NoticeKind(type), InWorker,
             put(type) \/ (events' = events /\ type \notin UnfollowNews)
      PROVE  /\ OwnEvents'
             /\ UnfollowNotice => UnfollowNotice'
             /\ ClearNotice => ClearNotice'
             /\ put(type) /\ type \in UnfollowNews => UnfollowNotice'
             /\ put(type) /\ type = "profile_cleared" => ClearNotice'
  <2>1. CASE put(type)
    BY <1>1, <1>2, <1>4, <1>5, <1>7, <2>1, PutOwn
  <2>2. CASE events' = events /\ type \notin UnfollowNews /\ ~put(type)
    BY <1>1, <1>2, <1>4, <2>2 DEF OwnEvents, UnfollowNotice, ClearNotice
  <2> QED
    BY <1>7, <2>1, <2>2
<1>8. ASSUME events' = events
      PROVE  OwnEvents' /\ UnfollowNotice' = UnfollowNotice /\ ClearNotice' = ClearNotice
  BY <1>1, <1>2, <1>4, <1>8 DEF OwnEvents, UnfollowNotice, ClearNotice
\* A step that reads no command, sends no request and deletes no profile.
<1>9. ASSUME UNCHANGED <<command, stopEvent, commands, lastWrite, lastClear>>,
             InWorker' => InWorker, pc' \in Executing => pc \in Executing,
             pc' = "clear" => pc = "clear", pc' \in {"ensure", "login"} => pc \in {"ensure", "login"},
             OwnEvents', UnfollowNotice => UnfollowNotice', ClearNotice => ClearNotice',
             pc = "run" => pc' = "run" \/ lastWrite # ops \/ UnfollowNotice'
      PROVE  OwnInv'
  <2>1. Own'
    BY <1>1, <1>2, <1>4, <1>9, OwnStands
  <2>2. PendingOperations' = PendingOperations
    BY <1>9 DEF PendingOperations
  <2>3. Shown'
    BY <1>1, <1>2, <1>4, <1>9, <2>2, ShownStands
  <2>4. ReviewInv'
    BY <1>4, <1>9, <2>3, ReviewStands
  <2> QED
    BY <1>3, <1>9, <2>1, <2>4 DEF OwnInv
<1>10. ASSUME NEW types, NoticeKind(types) = OperationKind, InWorker
       PROVE  running \in NoticeKind(types)
  BY <1>5, <1>10
<1>11. /\ NoticeKind("error") = OperationKind /\ NoticeKind("auto_status") = OperationKind
       /\ NoticeKind("cleaner_progress") = OperationKind
       /\ NoticeKind("operation_finished") = OperationKind
       /\ NoticeKind("scan_result") = {"scan"} /\ NoticeKind("profile_cleared") = {"clear_profile"}
       /\ \A t \in UnfollowNews : NoticeKind(t) = {"unfollow"}
  BY DEF NoticeKind, UnfollowNews
<1>12. InWorker /\ running # "unfollow" => lastWrite # ops
  BY <1>4, <1>5, <1>6 DEF Shown, OperationKind, NoKind
<1>13. pc \in {"ensure", "login"} => lastWrite # ops
  BY <1>4, <1>6 DEF Shown
<1>14. CASE GetCommand
  <2>1. /\ Own' /\ PendingOperations # {} /\ PendingOperations' = {} /\ 1 \in PendingOperations
        /\ command' = commands[1]
    BY <1>1, <1>4, <1>14, GetCommandOwn
  <2>2. /\ UNCHANGED <<events, lastWrite, lastClear>> /\ pc = "idle"
        /\ pc' \in {"clear", "ensure"} /\ pc' # "run"
    BY <1>14 DEF GetCommand
  <2>3. Shown'
    BY <1>1, <1>2, <1>4, <1>8, <2>1, <2>2, ShownStands
  <2>4. Reviewed(command)'
    BY <1>4, <2>1, <2>2 DEF ReviewInv, Reviewed, NotClearedSince
  <2>5. ReviewInv'
    BY <2>1, <2>3, <2>4 DEF ReviewInv
  <2> QED
    BY <1>3, <1>8, <2>1, <2>2, <2>5 DEF OwnInv
<1>15. CASE GetShutdown
  <2>1. Own' /\ ~InWorker' /\ \A i \in PendingOperations' :
                    i + 1 \in PendingOperations /\ commands'[i] = commands[i + 1]
    BY <1>1, <1>4, <1>15, GetShutdownOwn
  <2>2. UNCHANGED <<events, lastWrite, lastClear>> /\ pc = "idle" /\ pc' = "exit"
    BY <1>15 DEF GetShutdown
  <2>3. Shown'
    BY <1>1, <1>2, <1>4, <1>8, <2>1, <2>2, ShownStands
  <2>4. ReviewInv'
    BY <1>4, <2>1, <2>2, <2>3 DEF ReviewInv, Reviewed, NotClearedSince
  <2> QED
    BY <1>3, <1>8, <2>1, <2>2, <2>4 DEF OwnInv
<1>16. CASE EnsureBrowser \/ LoginStopped \/ LoggedIn
  <2>1. /\ UNCHANGED <<command, stopEvent, commands, lastWrite, lastClear, events>>
        /\ pc \in {"ensure", "login"} /\ pc' \in {"login", "run", "finally"}
    BY <1>16 DEF EnsureBrowser, LoginStopped, LoggedIn
  <2> QED
    BY <1>8, <1>9, <1>13, <2>1 DEF InWorker
<1>17. CASE Release
  <2>1. /\ UNCHANGED <<command, stopEvent, commands, lastWrite, lastClear, events>>
        /\ pc = "finally" /\ pc' = "announce"
    BY <1>17 DEF Release
  <2> QED
    BY <1>8, <1>9, <2>1 DEF InWorker
<1>18. CASE Announce
  <2>1. /\ UNCHANGED <<command, stopEvent, commands, lastWrite, lastClear>>
        /\ pc = "announce" /\ pc' = "idle" /\ put("operation_finished")
    BY <1>18 DEF Announce
  <2>2. InWorker /\ ~InWorker' /\ running \in NoticeKind("operation_finished")
    BY <1>10, <1>11, <2>1 DEF InWorker
  <2>3. OwnEvents' /\ (UnfollowNotice => UnfollowNotice') /\ (ClearNotice => ClearNotice')
    BY <1>7, <2>1, <2>2 DEF EventType
  <2> QED
    BY <1>9, <2>1, <2>2, <2>3
<1>19. CASE DiscardBrowser
  <2>1. /\ UNCHANGED <<command, stopEvent, commands, lastWrite, lastClear, events>>
        /\ pc = "exit" /\ pc' = "bye"
    BY <1>19 DEF DiscardBrowser
  <2> QED
    BY <1>8, <1>9, <2>1 DEF InWorker
<1>20. CASE WorkerStopped
  <2>1. /\ UNCHANGED <<command, stopEvent, commands, lastWrite, lastClear>>
        /\ pc = "bye" /\ pc' = "dead" /\ put("worker_stopped")
    BY <1>20 DEF WorkerStopped
  <2>2. PICK n \in Nat :
          /\ DOMAIN events' = DOMAIN events \cup {n} /\ DOMAIN events \subseteq Nat
          /\ \A i \in DOMAIN events : events'[i] = events[i] /\ i < n
          /\ events'[n].type = "worker_stopped"
    BY <2>1, PutEvent DEF EventType
  <2>3. \A i, k \in DOMAIN events' : i < k /\ events'[i].type = "operation_finished" =>
          events'[k].type = "worker_stopped"
    BY <1>4, <2>2 DEF OwnEvents
  <2>4. \A i \in DOMAIN events' : events'[i].type # "worker_stopped" =>
          /\ running' \in NoticeKind(events'[i].type)
          /\ events'[i].kind = running' /\ events'[i].op = ops'
    BY <1>1, <1>2, <1>4, <2>2 DEF OwnEvents
  <2>5. OwnEvents'
    BY <2>3, <2>4 DEF OwnEvents
  <2>6. (UnfollowNotice => UnfollowNotice') /\ (ClearNotice => ClearNotice')
    BY <2>2 DEF UnfollowNotice, ClearNotice
  <2> QED
    BY <1>9, <2>1, <2>5, <2>6 DEF InWorker
<1>21. CASE BrowserCloses
  <2>1. UNCHANGED <<command, stopEvent, commands, lastWrite, lastClear, events, pc>>
    BY <1>21 DEF BrowserCloses
  <2> QED
    BY <1>8, <1>9, <2>1 DEF InWorker
<1>22. CASE LaunchFails \/ LoginFails
  <2>1. /\ UNCHANGED <<command, stopEvent, commands, lastWrite, lastClear>>
        /\ pc \in {"ensure", "login"} /\ pc' = "finally" /\ put("error")
    BY <1>22 DEF LaunchFails, LoginFails, Raise
  <2>2. InWorker /\ running \in NoticeKind("error")
    BY <1>10, <1>11, <2>1 DEF InWorker
  <2>3. OwnEvents' /\ (UnfollowNotice => UnfollowNotice') /\ (ClearNotice => ClearNotice')
    BY <1>7, <2>1, <2>2 DEF EventType
  <2> QED
    BY <1>9, <2>1, <2>2, <2>3
<1>23. CASE Progress
  <2>1. /\ UNCHANGED <<command, stopEvent, commands, lastWrite, lastClear>>
        /\ pc = "run" /\ pc' = pc
        /\ \E t \in {"auto_status", "cleaner_progress"} : put(t)
    BY <1>23 DEF Progress
  <2>2. InWorker
    BY <2>1 DEF InWorker
  <2>3. OwnEvents' /\ (UnfollowNotice => UnfollowNotice') /\ (ClearNotice => ClearNotice')
    BY <1>7, <1>10, <1>11, <2>1, <2>2 DEF EventType
  <2> QED
    BY <1>9, <2>1, <2>2, <2>3
<1>24. CASE UnfollowWrite
  <2>1. /\ UNCHANGED <<command, stopEvent, commands, lastClear, events, pc>>
        /\ pc = "run" /\ command.kind = "unfollow" /\ lastWrite' = command.op
    BY <1>24 DEF UnfollowWrite
  <2>2. InWorker /\ InWorker'
    BY <2>1 DEF InWorker
  <2>3. Own'
    BY <1>1, <1>2, <1>4, <2>1, <2>2, OwnStands
  <2>4. PendingOperations = {} /\ PendingOperations' = {} /\ running = "unfollow" /\ lastWrite' = ops
    BY <1>5, <2>1, <2>2 DEF PendingOperations
  <2>5. Shown'
    BY <1>1, <1>2, <1>4, <1>6, <1>8, <2>1, <2>4 DEF Shown, NotClearedSince
  <2>6. Reviewed(command)'
    BY <1>4, <2>1, <2>2 DEF ReviewInv, Reviewed, NotClearedSince
  <2>7. ReviewInv'
    BY <2>4, <2>5, <2>6 DEF ReviewInv
  <2> QED
    BY <1>3, <1>8, <2>1, <2>3, <2>7 DEF OwnInv
<1>25. CASE AutoLikeEnds \/ ScanEnds
  <2>1. /\ UNCHANGED <<command, stopEvent, commands, lastWrite, lastClear>>
        /\ pc = "run" /\ pc' = "finally" /\ command.kind \in {"auto_like", "scan"}
        /\ put("auto_status") \/ events' = events \/ (command.kind = "scan" /\ put("scan_result"))
    BY <1>25 DEF AutoLikeEnds, ScanEnds
  <2>2. InWorker /\ running = command.kind /\ lastWrite # ops
    BY <1>5, <1>12, <2>1 DEF InWorker
  <2>3. OwnEvents' /\ (UnfollowNotice => UnfollowNotice') /\ (ClearNotice => ClearNotice')
    <3>1. CASE put("auto_status")
      BY <1>7, <1>10, <1>11, <2>2, <3>1 DEF EventType
    <3>2. CASE events' = events
      BY <1>8, <3>2
    <3>3. CASE command.kind = "scan" /\ put("scan_result")
      BY <1>7, <1>11, <2>2, <3>3 DEF EventType
    <3> QED
      BY <2>1, <3>1, <3>2, <3>3
  <2> QED
    BY <1>9, <2>1, <2>2, <2>3
<1>26. CASE UnfollowEnds \/ RunFails
  <2>1. /\ UNCHANGED <<command, stopEvent, commands, lastWrite, lastClear>>
        /\ pc = "run" /\ pc' = "finally"
        /\ \/ command.kind = "unfollow" /\ \E t \in UnfollowNews : put(t)
           \/ (lastWrite # command.op \/ command.kind # "unfollow") /\ (events' = events \/ put("error"))
    BY <1>26 DEF UnfollowEnds, RunFails, Raise, UnfollowNews
  <2>2. InWorker /\ running = command.kind /\ ops = command.op
    BY <1>5, <2>1 DEF InWorker
  <2>3. CASE command.kind = "unfollow" /\ \E t \in UnfollowNews : put(t)
    <3>1. PICK t \in UnfollowNews : put(t)
      BY <2>3
    <3>2. t \in EventType \ {"worker_stopped"} /\ running \in NoticeKind(t)
      BY <1>11, <2>2, <2>3 DEF UnfollowNews, EventType
    <3>3. OwnEvents' /\ UnfollowNotice' /\ (ClearNotice => ClearNotice')
      BY <1>7, <2>2, <3>1, <3>2
    <3> QED
      BY <1>9, <2>1, <2>2, <3>3
  <2>4. CASE (lastWrite # command.op \/ command.kind # "unfollow") /\ (events' = events \/ put("error"))
    <3>1. lastWrite # ops
      BY <1>12, <2>2, <2>4
    <3>2. OwnEvents' /\ (UnfollowNotice => UnfollowNotice') /\ (ClearNotice => ClearNotice')
      <4>1. CASE events' = events
        BY <1>8, <4>1
      <4>2. CASE put("error")
        BY <1>7, <1>10, <1>11, <2>2, <4>2 DEF EventType
      <4> QED
        BY <2>4, <4>1, <4>2
    <3> QED
      BY <1>9, <2>1, <2>2, <3>1, <3>2
  <2> QED
    BY <2>1, <2>3, <2>4
<1>27. CASE ClearProfile(lock)
  <2>1. /\ UNCHANGED <<command, stopEvent, commands, lastWrite>>
        /\ pc = "clear" /\ pc' = "finally"
        /\ \/ put("profile_cleared") /\ lastClear' = [op |-> command.op, failed |-> FALSE]
           \/ put("error") /\ lastClear' = [op |-> command.op, failed |-> TRUE]
           \/ put("error") /\ lastClear' = lastClear
    BY <1>27 DEF ClearProfile
  <2>2. InWorker /\ InWorker' /\ running = "clear_profile" /\ command.kind = "clear_profile"
    BY <1>4, <1>5, <2>1 DEF InWorker, Own
  <2>3. CASE put("profile_cleared") /\ lastClear' = [op |-> command.op, failed |-> FALSE]
    <3>1. running \in NoticeKind("profile_cleared") /\ "profile_cleared" \in EventType \ {"worker_stopped"}
      BY <1>11, <2>2 DEF EventType
    <3>2. OwnEvents' /\ (UnfollowNotice => UnfollowNotice') /\ ClearNotice'
      BY <1>7, <2>2, <2>3, <3>1
    <3>3. Own'
      BY <1>1, <1>2, <1>4, <2>1, <2>2, OwnStands
    <3>4. PendingOperations' = {} /\ lastClear'.op = ops
      BY <1>5, <2>1, <2>2, <2>3 DEF PendingOperations
    <3>5. Shown'
      BY <1>1, <1>2, <1>4, <1>6, <2>1, <2>2, <3>2, <3>4 DEF Shown
    <3>6. Reviewed(command)'
      BY <2>1, <2>2 DEF Reviewed
    <3>7. ReviewInv'
      BY <3>4, <3>5, <3>6 DEF ReviewInv
    <3> QED
      BY <1>3, <3>2, <3>3, <3>7 DEF OwnInv
  <2>4. CASE put("error") /\ lastClear' = lastClear
    <3>1. OwnEvents' /\ (UnfollowNotice => UnfollowNotice') /\ (ClearNotice => ClearNotice')
      BY <1>7, <1>10, <1>11, <2>2, <2>4 DEF EventType
    <3> QED
      BY <1>9, <2>1, <2>2, <2>4, <3>1
  <2>5. CASE put("error") /\ lastClear' = [op |-> command.op, failed |-> TRUE]
    <3>1. OwnEvents' /\ (UnfollowNotice => UnfollowNotice') /\ (ClearNotice => ClearNotice')
      BY <1>7, <1>10, <1>11, <2>2, <2>5 DEF EventType
    <3>2. Own'
      BY <1>1, <1>2, <1>4, <2>1, <2>2, OwnStands
    <3>3. PendingOperations' = {} /\ lastClear'.op = ops /\ lastClear'.failed
      BY <1>5, <2>1, <2>2, <2>5 DEF PendingOperations
    <3>4. Shown'
      BY <1>1, <1>2, <1>4, <1>6, <2>1, <2>2, <3>1, <3>3 DEF Shown, NotClearedSince
    <3>5. Reviewed(command)'
      BY <2>1, <2>2 DEF Reviewed
    <3>6. ReviewInv'
      BY <3>3, <3>4, <3>5 DEF ReviewInv
    <3> QED
      BY <1>3, <3>1, <3>2, <3>6 DEF OwnInv
  <2> QED
    BY <2>1, <2>3, <2>4, <2>5
<1> QED
  BY <1>14, <1>15, <1>16, <1>17, <1>18, <1>19, <1>20, <1>21, <1>22, <1>23, <1>24, <1>25,
     <1>26, <1>27 DEF WorkerStep, WorkerAdvances

-------------------------------------------------------------------------------
(* The window keeps to the operation it runs and the scan it shows.          *)

ReadyToUnfollow(review, expected) ==
  review # 0 /\ review = expected /\ lastWrite < review /\ NotClearedSince(review)

LEMMA SubmitOwn ==
  ASSUME TypeOK, TypeOK', AppInv, OwnInv, Idle, NEW kind \in OperationKind, NEW review \in Nat,
         NEW expected \in Nat, submit(kind, review, expected), begin_operation(kind),
         kind = "unfollow" => ReadyToUnfollow(review, expected),
         candidates' \in {0, candidates}, candidates' = candidates => viewer' = viewer,
         candidates' = 0 => viewer' = 0, dialog' = 0,
         UNCHANGED <<closing, stopAsked>>
  PROVE  OwnInv'
<1> DEFINE c == [kind |-> kind, op |-> ops + 1, review |-> review, viewer |-> expected]
<1>1. /\ commands' = Append(commands, c) /\ commands \in Seq(Command) /\ c \in Command
      /\ ops' = ops + 1 /\ ops \in Nat /\ currentStop' = ops + 1
      /\ UNCHANGED <<stopSet, events, pc, command, stopEvent, lastWrite, lastClear>>
      /\ lastWrite \in Nat /\ lastClear.op \in Nat /\ candidates \in Nat
      /\ running' = kind /\ stopRequested' = NoKind /\ running = NoKind
      /\ c.kind = kind /\ c.op = ops' /\ c.review = review /\ c.viewer = expected
  BY DEF submit, begin_operation, threadVars, TypeOK, WorkerTypeOK, WindowTypeOK, Command, Idle
<1> HIDE DEF c
<1>2. Own /\ OwnEvents /\ StopInv /\ Shown
  BY DEF OwnInv, ReviewInv
<1>3. PendingOperations = {} /\ ~InWorker /\ ~InWorker' /\ pc \notin Executing /\ pc # "clear"
      /\ pc \notin {"ensure", "login", "run"}
  BY <1>1 DEF AppInv, Conserved, InWorker, Executing
<1>4. \A i \in PendingOperations' : commands'[i] = c
  <2>1. DOMAIN commands = 1..Len(commands) /\ Len(commands) \in Nat
    BY <1>1
  <2>2. DOMAIN commands' = 1..(Len(commands) + 1) /\ commands'[Len(commands) + 1] = c
        /\ \A i \in 1..Len(commands) : commands'[i] = commands[i]
    BY <1>1
  <2> QED
    BY <1>3, <2>1, <2>2 DEF PendingOperations
<1>5. Own'
  BY <1>1, <1>2, <1>3, <1>4 DEF Own
<1>6. (\A i \in DOMAIN events : events[i].type = "worker_stopped") /\ ~UnfollowNotice /\ ~ClearNotice
  BY <1>1, <1>2, IdleHasNoNews
<1>7. OwnEvents'
  BY <1>1, <1>6 DEF OwnEvents
<1>8. StopInv'
  BY <1>1, <1>2 DEF StopInv, PendingStopIsShown, NoKind
<1>9. candidates # 0 => lastWrite < candidates /\ NotClearedSince(candidates)
  BY <1>2, <1>3, <1>6 DEF Shown
<1>10. Shown'
  <2>1. /\ lastWrite <= ops /\ lastClear.op <= ops /\ candidates <= ops /\ viewer = candidates
    BY <1>2 DEF Shown
  <2>2. lastWrite' < ops' /\ NotClearedSince(ops)'
    BY <1>1, <2>1 DEF NotClearedSince
  <2>3. candidates' <= ops' /\ viewer' = candidates'
    BY <1>1, <2>1
  <2>4. candidates' # 0 => lastWrite' < candidates' /\ NotClearedSince(candidates)'
    BY <1>1, <1>9 DEF NotClearedSince
  <2>5. lastWrite' <= ops' /\ lastClear'.op <= ops'
    BY <1>1, <2>1
  <2> QED
    BY <2>2, <2>3, <2>4, <2>5 DEF Shown
<1>11. \A i \in PendingOperations' : Reviewed(commands[i])'
  BY <1>1, <1>4 DEF Reviewed, ReadyToUnfollow, NotClearedSince
<1>12. ReviewInv'
  BY <1>3, <1>10, <1>11 DEF ReviewInv
<1> QED
  BY <1>5, <1>7, <1>8, <1>12 DEF OwnInv

\* The window changes, the thread and the running operation do not.
LEMMA WindowStands ==
  ASSUME OwnInv, UNCHANGED workerVars, UNCHANGED <<running, closing, stopAsked, stopRequested>>,
         PendingStopIsShown',
         candidates' \in {0, candidates}, candidates' = candidates => viewer' = viewer,
         candidates' = 0 => viewer' = 0, dialog' # 0 => dialog' = candidates', ops \in Nat
  PROVE  OwnInv'
<1>1. UNCHANGED <<currentStop, ops, command, stopEvent, commands, events, pc, stopSet, lastWrite, lastClear>>
  BY DEF workerVars, sharedVars, threadVars
<1>2. PendingOperations' = PendingOperations /\ InWorker' = InWorker
  BY <1>1 DEF PendingOperations, InWorker
<1>3. Own'
  BY <1>1, <1>2 DEF OwnInv, Own
<1>4. OwnEvents' /\ UnfollowNotice' = UnfollowNotice /\ ClearNotice' = ClearNotice
  BY <1>1 DEF OwnInv, OwnEvents, UnfollowNotice, ClearNotice
<1>5. StopInv'
  BY <1>1 DEF OwnInv, StopInv
<1>6. Shown'
  BY <1>1, <1>2, <1>4 DEF OwnInv, ReviewInv, Shown, NotClearedSince
<1>7. ReviewInv'
  BY <1>1, <1>2, <1>6 DEF OwnInv, ReviewInv, Reviewed, NotClearedSince
<1> QED
  BY <1>3, <1>4, <1>5, <1>7 DEF OwnInv

LEMMA NoKindIsNone == NoKind \notin {"auto_like", "scan", "unfollow", "clear_profile"}
BY DEF NoKind

LEMMA UserOwn ==
  ASSUME TypeOK, TypeOK', AppInv, OwnInv, UserInput
  PROVE  OwnInv'
<1> USE DEF loopVars, resultVars, statusVars, UserTurn, Idle, invalidate_results
<1>1. /\ ops \in Nat /\ candidates \in Nat /\ viewer \in Nat /\ dialog \in Nat
      /\ lastWrite \in Nat /\ lastClear.op \in Nat
  BY DEF TypeOK, WorkerTypeOK, WindowTypeOK
<1>2. dialog # 0 => running = NoKind /\ dialog = candidates
  BY DEF AppInv, Flags, OwnInv, ReviewInv, Shown
<1>3. viewer = candidates /\ PendingStopIsShown
  BY DEF OwnInv, ReviewInv, Shown, StopInv
<1>4. running = NoKind => stopRequested = NoKind
  BY DEF OwnInv, StopInv
<1>5. stopRequested' = NoKind => PendingStopIsShown'
  BY DEF PendingStopIsShown, NoKind
<1>6. running = NoKind /\ candidates # 0 => lastWrite < candidates /\ NotClearedSince(candidates)
  <2>1. running = NoKind => pc # "run" /\ ~UnfollowNotice /\ ~ClearNotice
    BY IdleHasNoNews DEF AppInv, Conserved, InWorker, Executing, OwnInv
  <2> QED
    BY <2>1 DEF OwnInv, ReviewInv, Shown
<1>7. CASE StartAutoLike
  <2>1. CASE submit("auto_like", 0, 0) /\ begin_operation("auto_like")
    BY <1>3, <1>7, <2>1, SubmitOwn DEF StartAutoLike, OperationKind
  <2>2. CASE refuse /\ stay_idle
    BY <1>1, <1>3, <1>4, <1>5, <1>7, <2>2, WindowStands DEF StartAutoLike, refuse, stay_idle
  <2> QED
    BY <1>7, <2>1, <2>2 DEF StartAutoLike
<1>8. CASE StartScan
  <2>1. CASE submit("scan", 0, 0) /\ begin_operation("scan")
    BY <1>3, <1>8, <2>1, SubmitOwn DEF StartScan, OperationKind
  <2>2. CASE refuse /\ stay_idle
    BY <1>1, <1>3, <1>4, <1>5, <1>8, <2>2, WindowStands DEF StartScan, refuse, stay_idle
  <2> QED
    BY <1>8, <2>1, <2>2 DEF StartScan
<1>9. CASE AskUnfollow
  <2>1. /\ UNCHANGED workerVars /\ UNCHANGED <<running, closing, stopAsked, stopRequested>>
        /\ stopRequested' = NoKind /\ dialog = 0
        /\ \/ candidates' = 0 /\ viewer' = 0 /\ dialog' = dialog
           \/ dialog' = candidates /\ candidates' = candidates /\ viewer' = viewer
    BY <1>4, <1>9 DEF AskUnfollow
  <2> QED
    BY <1>1, <1>3, <1>5, <2>1, WindowStands
<1>10. CASE ConfirmUnfollow
  <2>1. /\ dialog # 0 /\ dialog' = 0 /\ UNCHANGED <<closing, stopAsked, candidates, viewer>>
        /\ running = NoKind
    BY <1>2, <1>10 DEF ConfirmUnfollow
  <2>2. CASE submit("unfollow", dialog, viewer) /\ begin_operation("unfollow")
    <3>1. ReadyToUnfollow(dialog, viewer) /\ "unfollow" \in OperationKind
      BY <1>2, <1>3, <1>6, <2>1 DEF ReadyToUnfollow, OperationKind
    <3>2. viewer' = candidates'
      BY <1>3, <2>1
    <3> QED
      BY <1>1, <2>1, <2>2, <3>1, <3>2, SubmitOwn
  <2>3. CASE refuse /\ stay_idle
    BY <1>1, <1>3, <1>4, <1>5, <2>1, <2>3, WindowStands DEF refuse, stay_idle
  <2> QED
    BY <1>10, <2>2, <2>3 DEF ConfirmUnfollow
<1>11. CASE DeclineUnfollow
  BY <1>1, <1>3, <1>11, WindowStands DEF DeclineUnfollow, PendingStopIsShown
<1>12. CASE ClearBrowserData
  <2>1. CASE submit("clear_profile", 0, 0) /\ begin_operation("clear_profile")
    BY <1>3, <1>12, <2>1, SubmitOwn DEF ClearBrowserData, OperationKind
  <2>2. CASE refuse /\ stay_idle
    BY <1>1, <1>3, <1>4, <1>5, <1>12, <2>2, WindowStands DEF ClearBrowserData, refuse, stay_idle
  <2> QED
    BY <1>12, <2>1, <2>2 DEF ClearBrowserData
<1>13. CASE ChangeSelection
  BY <1>1, <1>3, <1>13, WindowStands DEF ChangeSelection, PendingStopIsShown
<1>14. CASE Stop
  <2>1. /\ UNCHANGED <<currentStop, ops, commands, events, pc, command, stopEvent, lastWrite, lastClear,
                       running, closing, candidates, viewer, dialog>>
        /\ stopSet' = stopSet \cup {currentStop} /\ stopAsked' = stopAsked \cup {ops}
        /\ stopRequested' = running /\ running \in {"auto_like", "scan", "unfollow"}
        /\ running = "auto_like" => autoStatus' = "stop requested"
        /\ running # "auto_like" => cleanerStatus' = "stop requested"
    BY <1>14 DEF Stop, stop_current, threadVars
  <2>2. PendingOperations' = PendingOperations /\ InWorker' = InWorker
    BY <2>1 DEF PendingOperations, InWorker
  <2>3. Own'
    BY <2>1, <2>2 DEF OwnInv, Own
  <2>4. OwnEvents' /\ UnfollowNotice' = UnfollowNotice /\ ClearNotice' = ClearNotice
    BY <2>1 DEF OwnInv, OwnEvents, UnfollowNotice, ClearNotice
  <2>5. StopInv'
    BY <2>1 DEF OwnInv, Own, StopInv, PendingStopIsShown
  <2>6. ReviewInv'
    BY <2>1, <2>2, <2>4 DEF OwnInv, ReviewInv, Shown, Reviewed, NotClearedSince
  <2> QED
    BY <2>3, <2>4, <2>5, <2>6 DEF OwnInv
<1>15. CASE Close
  <2>1. /\ UNCHANGED <<currentStop, ops, events, pc, command, stopEvent, lastWrite, lastClear,
                       running, candidates, viewer, dialog, stopRequested, autoStatus, cleanerStatus>>
        /\ closing' /\ shut_down
    BY <1>15 DEF Close, shut_down, threadVars
  <2>2. PendingOperations' = PendingOperations /\ InWorker' = InWorker
    BY <2>1, ShutdownPlaces DEF InWorker
  <2>3. \A i \in PendingOperations : commands'[i] = commands[i]
    <3>1. commands \in Seq(Command) /\ commands' = Append(commands, ShutdownCommand)
      BY <2>1 DEF TypeOK, WorkerTypeOK, shut_down
    <3>2. \A i \in DOMAIN commands : Append(commands, ShutdownCommand)[i] = commands[i]
      BY <3>1, ShutdownTyping
    <3> QED
      BY <3>1, <3>2 DEF PendingOperations
  <2>4. Own'
    BY <2>1, <2>2, <2>3 DEF OwnInv, Own
  <2>5. OwnEvents' /\ UnfollowNotice' = UnfollowNotice /\ ClearNotice' = ClearNotice
    BY <2>1 DEF OwnInv, OwnEvents, UnfollowNotice, ClearNotice
  <2>6. StopInv'
    BY <2>1 DEF OwnInv, StopInv, PendingStopIsShown
  <2>7. ReviewInv'
    BY <2>1, <2>2, <2>3, <2>5 DEF OwnInv, ReviewInv, Shown, Reviewed, NotClearedSince
  <2> QED
    BY <2>4, <2>5, <2>6, <2>7 DEF OwnInv
<1> QED
  BY <1>7, <1>8, <1>9, <1>10, <1>11, <1>12, <1>13, <1>14, <1>15 DEF UserInput

\* An event of the queue is handled.
LEMMA WindowOwn ==
  ASSUME TypeOK, TypeOK', AppInv, OwnInv, WindowAdvances
  PROVE  OwnInv'
<1> USE DEF loopVars, resultVars, statusVars, invalidate_results
<1>1. /\ ops \in Nat /\ candidates \in Nat /\ viewer \in Nat /\ dialog \in Nat
      /\ lastWrite \in Nat /\ lastClear.op \in Nat
  BY DEF TypeOK, WorkerTypeOK, WindowTypeOK
<1>2. dialog # 0 => running = NoKind /\ dialog = candidates
  BY DEF AppInv, Flags, OwnInv, ReviewInv, Shown
<1>3. /\ viewer = candidates /\ PendingStopIsShown /\ OwnEvents /\ Shown
      /\ stopRequested # NoKind => stopRequested = running /\ running # "clear_profile"
  BY DEF OwnInv, ReviewInv, Shown, StopInv
<1>4. ASSUME UNCHANGED workerVars,
             UNCHANGED <<running, closing, stopAsked, stopRequested, candidates, viewer, dialog,
                         autoStatus, cleanerStatus>>
      PROVE  OwnInv'
  BY <1>1, <1>2, <1>3, <1>4, WindowStands DEF PendingStopIsShown
\* An event is taken off and handled; running' is NoKind after operation_finished only.
<1>5. ASSUME NEW types, Receive(types),
             running' = running \/ (running' = NoKind /\ Head(events).type = "operation_finished"),
             stopRequested' \in {stopRequested, NoKind}, running' = NoKind => stopRequested' = NoKind,
             PendingStopIsShown',
             \/ /\ candidates' = 0 /\ viewer' = 0 /\ running # NoKind
             \/ /\ candidates' = ops /\ viewer' = ops /\ running = "scan"
             \/ /\ UNCHANGED <<candidates, viewer>>
                /\ Head(events).type \notin UnfollowNews \cup {"profile_cleared"}
      PROVE  OwnInv'
  <2>1. /\ UNCHANGED <<currentStop, ops, command, stopEvent, commands, pc, stopSet, lastWrite, lastClear,
                       closing, dialog, stopAsked>>
        /\ PendingOperations' = PendingOperations /\ InWorker' = InWorker
    BY <1>5 DEF Receive, sharedVars, threadVars, PendingOperations, InWorker
  <2>2. /\ Head(events).type # "worker_stopped" =>
             running \in NoticeKind(Head(events).type) /\ Head(events).op = ops
        /\ OwnEvents'
        /\ UnfollowNotice => UnfollowNotice' \/ Head(events).type \in UnfollowNews
        /\ ClearNotice => ClearNotice' \/ Head(events).type = "profile_cleared"
    BY <1>3, <1>5, ReceiveOwn
  <2>3. Head(events).type = "operation_finished" => ~InWorker /\ PendingOperations = {}
    <3>1. Head(events).type = "operation_finished" => FinishedEvents # {}
      BY <1>5, ReceivePlaces DEF AppInv, Conserved
    <3> QED
      BY <3>1 DEF AppInv, Conserved
  <2>4. Own'
    BY <1>5, <2>1, <2>3 DEF OwnInv, Own
  <2>5. StopInv'
    BY <1>3, <1>5, <2>1 DEF OwnInv, StopInv
  <2>6. Shown'
    <3>1. /\ candidates' <= ops /\ viewer' = candidates'
          /\ lastWrite <= ops /\ lastClear.op <= ops /\ ops <= ops
      BY <1>1, <1>3, <1>5 DEF Shown
    <3>2. dialog # 0 => dialog = candidates'
      BY <1>2, <1>5, NoKindIsNone
    <3>3. /\ running' \notin {NoKind, "unfollow"} => lastWrite < ops
          /\ running' \notin {NoKind, "clear_profile"} => NotClearedSince(ops)
          /\ PendingOperations # {} \/ pc \in {"ensure", "login"} => lastWrite < ops
      BY <1>3, <1>5 DEF Shown
    <3>4. candidates' # 0 =>
            /\ lastWrite < candidates' \/ (lastWrite = ops /\ pc = "run") \/ UnfollowNotice'
            /\ NotClearedSince(candidates') \/ ClearNotice'
      <4>1. CASE candidates' = ops /\ running = "scan"
        BY <1>3, <4>1, NoKindIsNone DEF Shown
      <4>2. CASE UNCHANGED candidates /\ Head(events).type \notin UnfollowNews \cup {"profile_cleared"}
        BY <1>3, <2>2, <4>2 DEF Shown
      <4> QED
        BY <1>5, <4>1, <4>2
    <3>5. UNCHANGED <<ops, lastWrite, lastClear, dialog, pc>> /\ PendingOperations' = PendingOperations
      BY <2>1
    <3>6. /\ viewer' = candidates' /\ candidates' <= ops' /\ lastWrite' <= ops' /\ lastClear'.op <= ops'
          /\ dialog' # 0 => dialog' = candidates'
      BY <3>1, <3>2, <3>5
    <3>7. candidates' # 0 =>
            /\ lastWrite' < candidates' \/ (lastWrite' = ops' /\ pc' = "run") \/ UnfollowNotice'
            /\ NotClearedSince(candidates)' \/ ClearNotice'
      BY <3>4, <3>5 DEF NotClearedSince
    <3> QED
      BY <3>3, <3>5, <3>6, <3>7 DEF Shown, NotClearedSince
  <2>7. ReviewInv'
    BY <2>1, <2>6 DEF OwnInv, ReviewInv, Reviewed, NotClearedSince
  <2> QED
    BY <2>2, <2>4, <2>5, <2>7 DEF OwnInv
\* The event that is handled is of the running operation.
<1>6. ASSUME NEW types, Receive(types)
      PROVE  /\ Head(events).type \in types
             /\ Head(events).type # "worker_stopped" =>
                  running \in NoticeKind(Head(events).type) /\ Head(events).op = ops
  BY <1>3, <1>6, ReceiveOwn
<1>7. \A s, t : PendingStopIsShown /\ stopRequested' = stopRequested
                /\ autoStatus' = AutoRestored(s) /\ cleanerStatus' = CleanerRestored(t) => PendingStopIsShown'
  BY DEF PendingStopIsShown, AutoRestored, CleanerRestored, Restored
<1>8. stopRequested' = NoKind => PendingStopIsShown'
  BY DEF PendingStopIsShown, NoKind
<1>9. running = NoKind => stopRequested = NoKind
  BY <1>3
<1>10. CASE DrainBegins \/ DrainEnds \/ WaitForWorker \/ ReleaseLock
  BY <1>4, <1>10 DEF DrainBegins, DrainEnds, WaitForWorker, ReleaseLock
<1>11. CASE OnAutoStatus
  <2>1. Receive({"auto_status"}) /\ UNCHANGED <<running, stopRequested, candidates, viewer>>
        /\ PendingStopIsShown'
    BY <1>3, <1>7, <1>11 DEF OnAutoStatus, KeepDraining
  <2>2. Head(events).type \notin UnfollowNews \cup {"profile_cleared"}
    BY <1>6, <2>1 DEF UnfollowNews
  <2> QED
    BY <1>5, <1>9, <2>1, <2>2
<1>12. CASE OnCleanerProgress
  <2>1. Receive({"cleaner_progress"}) /\ UNCHANGED <<running, stopRequested, candidates, viewer>>
        /\ PendingStopIsShown'
    BY <1>3, <1>7, <1>12 DEF OnCleanerProgress, KeepDraining
  <2>2. Head(events).type \notin UnfollowNews \cup {"profile_cleared"}
    BY <1>6, <2>1 DEF UnfollowNews
  <2> QED
    BY <1>5, <1>9, <2>1, <2>2
<1>13. CASE OnScanResult
  <2>1. Receive({"scan_result"}) /\ UNCHANGED <<running, stopRequested>> /\ PendingStopIsShown'
        /\ candidates' = Head(events).op /\ viewer' = Head(events).op
    BY <1>3, <1>7, <1>13 DEF OnScanResult, KeepDraining
  <2>2. Head(events).op = ops /\ running = "scan"
    BY <1>6, <2>1 DEF NoticeKind
  <2> QED
    BY <1>5, <1>9, <2>1, <2>2
<1>14. CASE OnUnfollowResult
  <2>1. Receive({"unfollow_result", "unfollow_stopped"}) /\ UNCHANGED <<running, stopRequested>>
        /\ PendingStopIsShown' /\ candidates' = 0 /\ viewer' = 0
    BY <1>3, <1>7, <1>14 DEF OnUnfollowResult, KeepDraining
  <2>2. running = "unfollow"
    BY <1>6, <2>1 DEF NoticeKind
  <2> QED
    BY <1>5, <1>9, <2>1, <2>2, NoKindIsNone
<1>15. CASE OnUnfollowError
  <2>1. Receive({"unfollow_error"}) /\ running' = running /\ stopRequested' = NoKind
        /\ candidates' = 0 /\ viewer' = 0
    BY <1>15 DEF OnUnfollowError
  <2>2. running = "unfollow"
    BY <1>6, <2>1 DEF NoticeKind
  <2> QED
    BY <1>5, <1>8, <2>1, <2>2, NoKindIsNone
<1>16. CASE OnError
  <2>1. Receive({"error"}) /\ UNCHANGED <<running, candidates, viewer>> /\ stopRequested' = NoKind
    BY <1>16 DEF OnError
  <2>2. Head(events).type \notin UnfollowNews \cup {"profile_cleared"}
    BY <1>6, <2>1 DEF UnfollowNews
  <2> QED
    BY <1>5, <1>8, <2>1, <2>2
<1>17. CASE OnProfileCleared
  <2>1. Receive({"profile_cleared"}) /\ UNCHANGED <<running, stopRequested>>
        /\ candidates' = 0 /\ viewer' = 0
    BY <1>17 DEF OnProfileCleared, KeepDraining
  <2>2. running = "clear_profile"
    BY <1>6, <2>1 DEF NoticeKind
  <2>3. stopRequested' = NoKind /\ running # NoKind
    BY <1>3, <2>1, <2>2, NoKindIsNone
  <2> QED
    BY <1>5, <1>8, <2>1, <2>3
<1>18. CASE OnOperationFinished
  <2>1. Receive({"operation_finished"}) /\ running' = NoKind /\ stopRequested' = NoKind
        /\ UNCHANGED <<candidates, viewer>>
    BY <1>18 DEF OnOperationFinished
  <2>2. Head(events).type = "operation_finished"
        /\ Head(events).type \notin UnfollowNews \cup {"profile_cleared"}
    BY <1>6, <2>1 DEF UnfollowNews
  <2> QED
    BY <1>5, <1>8, <2>1, <2>2
<1>19. CASE OnWorkerStopped
  <2>1. Receive({"worker_stopped"})
        /\ UNCHANGED <<running, stopRequested, candidates, viewer, autoStatus, cleanerStatus>>
    BY <1>19 DEF OnWorkerStopped
  <2>2. Head(events).type \notin UnfollowNews \cup {"profile_cleared"}
    BY <1>6, <2>1 DEF UnfollowNews
  <2>3. PendingStopIsShown'
    BY <1>3, <2>1 DEF PendingStopIsShown
  <2> QED
    BY <1>5, <1>9, <2>1, <2>2, <2>3
<1> QED
  BY <1>10, <1>11, <1>12, <1>13, <1>14, <1>15, <1>16, <1>17, <1>18, <1>19 DEF WindowAdvances

LEMMA OwnInvariance == Spec => [](TypeOK /\ AppInv /\ OwnInv)
<1>1. Init => OwnInv
  <2> SUFFICES ASSUME Init PROVE OwnInv
    OBVIOUS
  <2>1. PendingOperations = {} /\ ~InWorker /\ DOMAIN events = {}
    BY DEF Init, WorkerInit, PendingOperations, InWorker, Executing
  <2>2. Own /\ OwnEvents
    BY <2>1 DEF Init, WorkerInit, Own, OwnEvents, Executing
  <2>3. StopInv
    BY DEF Init, WorkerInit, StopInv, PendingStopIsShown, NoKind
  <2>4. ReviewInv
    BY <2>1 DEF Init, WorkerInit, ReviewInv, Shown
  <2> QED
    BY <2>2, <2>3, <2>4 DEF OwnInv
<1>2. TypeOK /\ AppInv /\ OwnInv /\ TypeOK' /\ [Next]_vars => OwnInv'
  <2> SUFFICES ASSUME TypeOK, AppInv, OwnInv, TypeOK', [Next]_vars
               PROVE  OwnInv'
    OBVIOUS
  <2>1. CASE UserInput
    BY <2>1, UserOwn
  <2>2. CASE WindowAdvances
    BY <2>2, WindowOwn
  <2>3. CASE WorkerStep(lock) /\ UNCHANGED uiVars
    BY <2>3, ThreadOwn
  <2>4. CASE UNCHANGED vars
    <3>1. /\ UNCHANGED workerVars
          /\ UNCHANGED <<running, closing, stopAsked, stopRequested, candidates, viewer, dialog,
                         autoStatus, cleanerStatus>>
      BY <2>4 DEF vars, uiVars, loopVars, resultVars, statusVars
    <3>2. ops \in Nat /\ candidates \in Nat /\ viewer = candidates
      BY DEF TypeOK, WorkerTypeOK, WindowTypeOK, OwnInv, ReviewInv, Shown
    <3> QED
      BY <3>1, <3>2, WindowStands DEF OwnInv, StopInv, PendingStopIsShown, ReviewInv, Shown
  <2> QED
    BY <2>1, <2>2, <2>3, <2>4 DEF Next, Exited
<1> QED
  BY <1>1, <1>2, AppInvariance, TypeCorrect, PTL DEF Spec

\* A stop reaches the operation the user saw running and no other, and its notice stays
\* on the tab until that operation has finished (stop_current, _stop_auto_like,
\* _restore_pending_stop_status).
THEOREM StopIsItsOperations == Spec => []StopKeepsToItsOperation
<1>1. TypeOK /\ AppInv /\ OwnInv => StopKeepsToItsOperation
  <2> SUFFICES ASSUME TypeOK, AppInv, OwnInv PROVE StopKeepsToItsOperation
    OBVIOUS
  <2>1. pc \in Executing => stopEvent = ops /\ command.op = ops
    BY DEF OwnInv, Own, InWorker
  <2>2. StopHitsOnlyItsOperation
    BY <2>1 DEF StopHitsOnlyItsOperation, Stopped, OwnInv, StopInv
  <2> QED
    BY <2>2 DEF StopKeepsToItsOperation, OwnInv, StopInv
<1> QED
  BY <1>1, OwnInvariance, PTL

\* The rows an idle window offers are those of the last scan, and an unfollow acts on
\* rows and an account that were read by one scan and that nothing has changed since,
\* except a deletion of the login that failed (clear_browser_profile)
\* (_start_unfollow, _invalidate_results, _apply_scan_result).
THEOREM ReviewStaysCurrent == Spec => []ReviewIsCurrent
<1>1. TypeOK /\ AppInv /\ OwnInv => ReviewIsCurrent
  <2> SUFFICES ASSUME TypeOK, AppInv, OwnInv PROVE ReviewIsCurrent
    OBVIOUS
  <2>1. ASSUME Idle, candidates # 0
        PROVE  viewer = candidates /\ lastWrite < candidates /\ NotClearedSince(candidates)
    <3>1. pc # "run" /\ ~UnfollowNotice /\ ~ClearNotice
      BY <2>1, IdleHasNoNews DEF AppInv, Conserved, InWorker, Executing, OwnInv, Idle
    <3> QED
      BY <2>1, <3>1 DEF OwnInv, ReviewInv, Shown
  <2>2. \A c \in LiveCommands : Reviewed(c)
    BY DEF LiveCommands, OwnInv, ReviewInv, InWorker
  <2> QED
    BY <2>1, <2>2 DEF ReviewIsCurrent, OfferedListIsCurrent, UnfollowActsOnTheReview, Reviewed
<1> QED
  BY <1>1, OwnInvariance, PTL

===============================================================================
