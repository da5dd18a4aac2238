--------------------------- MODULE UnfollowRunProofs ---------------------------
(***************************************************************************)
(* Theorems about an unfollow run, for every set of accounts, every        *)
(* selection and every limit.                                              *)
(***************************************************************************)
EXTENDS UnfollowRun, FiniteSetTheorems, TLAPS

-------------------------------------------------------------------------------
(* Sequences as sets of what they hold.                                      *)

LEMMA AppendTyping ==
  ASSUME NEW S, NEW s \in Seq(S), NEW e \in S
  PROVE  /\ Append(s, e) \in Seq(S)
         /\ Len(Append(s, e)) = Len(s) + 1
         /\ DOMAIN Append(s, e) = 1..(Len(s) + 1)
         /\ \A i \in DOMAIN s : Append(s, e)[i] = s[i]
         /\ Append(s, e)[Len(s) + 1] = e
OBVIOUS

LEMMA ElementsAppend ==
  ASSUME NEW S, NEW s \in Seq(S), NEW e \in S
  PROVE  Elements(Append(s, e)) = Elements(s) \cup {e}
<1>1. DOMAIN s = 1..Len(s) /\ Len(s) \in Nat
  OBVIOUS
<1> QED
  BY <1>1, AppendTyping DEF Elements

-------------------------------------------------------------------------------
(* Type correctness.                                                         *)

AtWork == {"wait", "check", "request", "send", "sent", "confirm"}

Summaries == [attempted : Nat, succeeded : Seq(Accounts), failed : SUBSET Accounts,
              deferred : Nat, stopped : BOOLEAN]

TypeInv ==
  /\ TypeOK
  /\ pc \in AtWork => index <= Len(targets)

LEMMA TargetTyping ==
  ASSUME TypeInv, pc \in AtWork
  PROVE  Target \in Accounts
BY DEF TypeInv, TypeOK, Target

LEMMA InitTyping == Init => TypeInv
<1> SUFFICES ASSUME Init PROVE TypeInv
  OBVIOUS
<1>1. selection \in Seq(Accounts)
  BY DEF Init
<1>2. <<>> \in Seq(Accounts) /\ <<>> \in Seq([viewer : Viewers \cup {NoViewer}, account : Accounts])
  OBVIOUS
<1>3. limit \in Nat
  BY RunAssumption DEF Init
<1>4. summary \in Summaries
  BY <1>2 DEF Init, Summaries
<1>5. /\ taken \in 0..Len(selection) /\ index \in 1..(Len(targets) + 1)
      /\ lateStarts \in Nat
  BY <1>1 DEF Init
<1>6. verified \in BOOLEAN /\ stop \in BOOLEAN
  BY DEF Init
<1>7. /\ targets \in Seq(Accounts)
      /\ posts \in Seq([viewer : Viewers \cup {NoViewer}, account : Accounts])
      /\ pc \in Places /\ pc \notin AtWork
      /\ expected \in Viewers /\ viewer \in Viewers \cup {NoViewer}
      /\ attempt \in {1, 2} /\ learned \in {"nothing", "unchanged", "refused"}
      /\ outcome \in {"none", "summary", "run_error", "raised"}
      /\ following \subseteq Relation /\ inFlight \subseteq Relation
  BY <1>2 DEF Init, Places, AtWork
<1> QED
  BY <1>1, <1>3, <1>4, <1>5, <1>6, <1>7 DEF TypeInv, TypeOK, Summaries

LEMMA FailTyping ==
  ASSUME TypeInv, pc \in AtWork, Fail, LoopOnly
  PROVE  TypeInv'
<1>1. Target \in Accounts
  BY TargetTyping
<1>2. summary' \in Summaries
  BY <1>1 DEF Fail, TypeInv, TypeOK, Summaries
<1> QED
  BY <1>1, <1>2 DEF Fail, End, LoopOnly, TypeInv, TypeOK, Summaries, Places, AtWork, inputVars, userVars, serverVars, history

LEMMA SucceedTyping ==
  ASSUME TypeInv, pc \in AtWork, Succeed, LoopOnly
  PROVE  TypeInv'
<1>1. Target \in Accounts
  BY TargetTyping
<1>2. summary' \in Summaries
  <2>1. Append(summary.succeeded, Target) \in Seq(Accounts)
    BY <1>1, AppendTyping DEF TypeInv, TypeOK
  <2> QED
    BY <2>1 DEF Succeed, TypeInv, TypeOK, Summaries
<1> QED
  BY <1>1, <1>2 DEF Succeed, End, LoopOnly, TypeInv, TypeOK, Summaries, Places, AtWork, inputVars, userVars, serverVars, history

LEMMA RetryTyping ==
  ASSUME TypeInv, pc \in AtWork, NEW what \in {"unchanged", "refused"}, Retry(what), LoopOnly
  PROVE  TypeInv'
<1>1. CASE attempt = 1
  BY <1>1 DEF Retry, LoopOnly, TypeInv, TypeOK, Places, AtWork, inputVars, userVars, serverVars, history
<1>2. CASE attempt # 1
  BY <1>2, FailTyping DEF Retry
<1> QED
  BY <1>1, <1>2

\* The steps of the loop and of the backend that only decide where to go on.
LEMMA MoveTyping ==
  ASSUME TypeInv, LoopOnly, NEW place \in Places, pc' = place, index' = index,
         place \in AtWork => index <= Len(targets),
         UNCHANGED <<attempt, learned, summary>>,
         outcome' \in {"none", "summary", "run_error", "raised"}
  PROVE  TypeInv'
BY DEF LoopOnly, TypeInv, TypeOK, inputVars, userVars, serverVars, history

LEMMA RunTyping == TypeInv /\ Run => TypeInv'
<1> SUFFICES ASSUME TypeInv, Run PROVE TypeInv'
  OBVIOUS
<1> USE DEF Places, AtWork, End
<1>1. CASE Normalize
  <2>1. selection[taken + 1] \in Accounts
    BY <1>1 DEF Normalize, TypeInv, TypeOK
  <2>2. targets' \in Seq(Accounts) /\ Len(targets) \in Nat /\ Len(targets') \in Nat
        /\ Len(targets') >= Len(targets)
    BY <1>1, <2>1, AppendTyping DEF Normalize, TypeInv, TypeOK
  <2>3. taken' \in 0..Len(selection)
    BY <1>1 DEF Normalize, TypeInv, TypeOK
  <2>4. index \in 1..(Len(targets') + 1)
    BY <2>2 DEF TypeInv, TypeOK
  <2> QED
    BY <1>1, <2>2, <2>3, <2>4 DEF Normalize, TypeInv, TypeOK, inputVars, userVars, serverVars, history
<1>2. CASE Normalized
  BY <1>2, MoveTyping DEF Normalized, TypeInv, TypeOK
<1>3. CASE FirstCheck
  BY <1>3, MoveTyping DEF FirstCheck, TypeInv, TypeOK
<1>4. CASE NoMoreTargets
  BY <1>4, MoveTyping DEF NoMoreTargets
<1>5. CASE LimitReached
  <2>1. summary \in Summaries
    BY DEF TypeInv, TypeOK, Summaries
  <2>2. Len(targets) - index + 1 \in Nat
    BY <1>5 DEF LimitReached, TypeInv, TypeOK
  <2>3. summary' \in Summaries
    BY <1>5, <2>1, <2>2 DEF LimitReached, Summaries
  <2> QED
    BY <1>5, <2>3 DEF LimitReached, TypeInv, TypeOK, Summaries, LoopOnly, inputVars, userVars, serverVars, history
<1>6. CASE StopSeen
  <2>1. summary' \in Summaries
    BY <1>6 DEF StopSeen, TypeInv, TypeOK, Summaries
  <2> QED
    BY <1>6, <2>1 DEF StopSeen, TypeInv, TypeOK, Summaries, LoopOnly, inputVars, userVars, serverVars, history
<1>7. CASE ChooseDelay
  BY <1>7, MoveTyping DEF ChooseDelay, TypeInv, TypeOK
<1>8. CASE DelayElapsed
  BY <1>8, MoveTyping DEF DelayElapsed, TypeInv, TypeOK
<1>9. CASE CheckViewer
  <2>1. CASE viewer = NoViewer /\ Fail
    BY <1>9, <2>1, FailTyping DEF CheckViewer
  <2>2. CASE End("run_error") /\ UNCHANGED <<index, attempt, learned, summary>>
    BY <1>9, <2>2, MoveTyping DEF CheckViewer, TypeInv, TypeOK
  <2>3. ASSUME summary' = [summary EXCEPT !.attempted = @ + 1],
               pc' = "request", attempt' = 1, learned' = "nothing",
               UNCHANGED <<index, outcome>>
        PROVE  TypeInv'
    <3>1. summary \in Summaries
      BY DEF TypeInv, TypeOK, Summaries
    <3>2. summary.attempted + 1 \in Nat
      BY <3>1 DEF Summaries
    <3>3. summary' \in Summaries
      BY <2>3, <3>1, <3>2 DEF Summaries
    <3> QED
      BY <1>9, <2>3, <3>3 DEF CheckViewer, TypeInv, TypeOK, Summaries, LoopOnly, inputVars, userVars, serverVars, history
  <2> QED
    BY <1>9, <2>1, <2>2, <2>3 DEF CheckViewer
<1>10. CASE Request
  <2>1. CASE Fail
    BY <1>10, <2>1, FailTyping DEF Request
  <2>2. CASE pc' = "send" /\ UNCHANGED <<index, attempt, learned, summary, outcome>>
    BY <1>10, <2>2, MoveTyping DEF Request, TypeInv, TypeOK
  <2> QED
    BY <1>10, <2>1, <2>2 DEF Request
<1>11. CASE Send
  <2>1. Target \in Accounts
    BY <1>11, TargetTyping DEF Send
  <2>2. [viewer |-> viewer, account |-> Target] \in [viewer : Viewers \cup {NoViewer}, account : Accounts]
    BY <2>1 DEF TypeInv, TypeOK
  <2>3. posts' \in Seq([viewer : Viewers \cup {NoViewer}, account : Accounts])
    BY <1>11, <2>2, AppendTyping DEF Send, TypeInv, TypeOK
  <2>4. lateStarts' \in Nat
    BY <1>11 DEF Send, TypeInv, TypeOK
  <2>5. inFlight' \subseteq Relation
    BY <1>11 DEF Send, TypeInv, TypeOK
  <2> QED
    BY <1>11, <2>3, <2>4, <2>5 DEF Send, TypeInv, TypeOK, inputVars, userVars
<1>12. CASE SendFails
  BY <1>12, FailTyping DEF SendFails
<1>13. CASE ReplyConfirms
  BY <1>13, SucceedTyping DEF ReplyConfirms
<1>14. ASSUME pc \in {"sent", "confirm"}, LoopOnly,
              \/ Succeed \/ Fail \/ \E what \in {"unchanged", "refused"} : Retry(what)
              \/ pc' = "confirm" /\ UNCHANGED <<index, attempt, learned, summary, outcome>>
       PROVE  TypeInv'
  <2>1. CASE pc' = "confirm" /\ UNCHANGED <<index, attempt, learned, summary, outcome>>
    BY <1>14, <2>1, MoveTyping DEF TypeInv, TypeOK
  <2> QED
    BY <1>14, <2>1, SucceedTyping, FailTyping, RetryTyping
<1>15. CASE ReplySilent
  BY <1>14, <1>15 DEF ReplySilent
<1>16. CASE ReplyLost
  BY <1>14, <1>16 DEF ReplyLost
<1>17. CASE ReplyRefused
  BY <1>14, <1>17 DEF ReplyRefused
<1>18. CASE ReplyRaises
  BY <1>18, FailTyping DEF ReplyRaises
<1>19. CASE Confirm
  BY <1>14, <1>19 DEF Confirm
<1> QED
  BY <1>1, <1>2, <1>3, <1>4, <1>5, <1>6, <1>7, <1>8, <1>9, <1>10, <1>11, <1>12, <1>13,
     <1>15, <1>16, <1>17, <1>18, <1>19 DEF Run

LEMMA Typing == TypeInv /\ [Next]_vars => TypeInv'
<1> SUFFICES ASSUME TypeInv, [Next]_vars PROVE TypeInv'
  OBVIOUS
<1> USE DEF TypeInv, TypeOK, runVars, inputVars, userVars, serverVars, history
<1>1. CASE Run
  BY <1>1, RunTyping
<1>2. CASE PressStop
  BY <1>2 DEF PressStop
<1>3. CASE SwitchViewer
  BY <1>3 DEF SwitchViewer
<1>4. ASSUME NEW r \in Relation, ServerApplies(r) \/ ServerDrops(r)
      PROVE  TypeInv'
  BY <1>4 DEF ServerApplies, ServerDrops
<1>5. CASE UNCHANGED vars
  BY <1>5 DEF vars
<1> QED
  BY <1>1, <1>2, <1>3, <1>4, <1>5 DEF Next

\* Every step of a run keeps every variable within its range.
THEOREM TypeCorrect == Spec => []TypeOK
<1>1. TypeInv => TypeOK
  BY DEF TypeInv
<1> QED
  BY <1>1, InitTyping, Typing, PTL DEF Spec

-------------------------------------------------------------------------------
(* Requests and reports.                                                     *)

Asking == {"request", "send", "sent", "confirm"}
Between == {"normalize", "start", "next", "wait", "check"}

\* The code compares the logged-in account once per target: a user who switches
\* accounts between that comparison and the last answer is out of its reach.
SwitchAssumption == SwitchPlaces \cap Asking = {}

Done == {targets[i] : i \in 1..(index - 1)}

\* Whatever the place: who was asked for, by whom, and what may still arrive.
Records ==
  /\ WritesAreReviewed
  /\ Elements(targets) \subseteq Elements(selection)
  /\ \A i, j \in DOMAIN targets : targets[i] = targets[j] => i = j
  /\ Reported \subseteq Posted
  /\ \A r \in inFlight : r[1] = expected /\ r[2] \in Posted
  /\ VerifiedReportIsTrue

\* Where the run is: only the target in hand may be asked for and not reported.
Position ==
  /\ pc \in Asking => viewer = expected
  /\ pc # "done" => Reported \subseteq Done
  /\ pc \in Between => Posted = Reported
  /\ pc \in {"request", "send"} => Posted \subseteq Reported \cup {Target}
  /\ pc \in {"sent", "confirm"} => Posted = Reported \cup {Target}

RunInv == TypeInv /\ Records /\ Position

LEMMA InitHolds == Init => RunInv
<1> SUFFICES ASSUME Init PROVE RunInv
  OBVIOUS
<1>1. TypeInv
  BY InitTyping
<1>2. Posted = {} /\ Reported = {} /\ Elements(targets) = {} /\ DOMAIN posts = {}
      /\ DOMAIN targets = {}
  BY DEF Init, Posted, Reported, Elements
<1>3. Records
  BY <1>2 DEF Init, Records, WritesAreReviewed, VerifiedReportIsTrue, ReportedIsUnfollowed
<1>4. Position
  BY <1>2 DEF Init, Position, Asking, Between
<1> QED
  BY <1>1, <1>3, <1>4 DEF RunInv

\* Steps that ask for nothing and report nothing.
LEMMA MoveHolds ==
  ASSUME RunInv, TypeInv', LoopOnly, index' = index, pc # "done",
         summary'.succeeded = summary.succeeded,
         pc' \in Asking => viewer = expected,
         pc' \in Between => pc \in Between,
         pc' \in {"request", "send"} => pc \in Between \cup Asking,
         pc' \in {"sent", "confirm"} => pc \in {"sent", "confirm"}
  PROVE  RunInv'
<1> USE DEF LoopOnly, inputVars, userVars, serverVars, history
<1>1. Reported' = Reported /\ Posted' = Posted /\ Target' = Target /\ Done' = Done
  BY DEF Reported, Posted, Elements, Target, Done
<1>2. Records'
  BY <1>1 DEF RunInv, Records, WritesAreReviewed, VerifiedReportIsTrue, ReportedIsUnfollowed, Elements
<1>3. Position'
  BY <1>1 DEF RunInv, Position, Asking, Between
<1> QED
  BY <1>2, <1>3 DEF RunInv

LEMMA FailHolds ==
  ASSUME RunInv, TypeInv', LoopOnly, pc # "done", Fail
  PROVE  RunInv'
<1>1. summary'.succeeded = summary.succeeded
  BY DEF Fail, RunInv, TypeInv, TypeOK
<1> QED
  BY <1>1, MoveHolds DEF Fail, End, Asking, Between

LEMMA RetryHolds ==
  ASSUME RunInv, TypeInv', LoopOnly, pc \in Asking, NEW what, Retry(what)
  PROVE  RunInv'
<1>1. CASE attempt = 1
  BY <1>1, MoveHolds DEF Retry, RunInv, Position, Asking, Between
<1>2. CASE attempt # 1
  BY <1>2, FailHolds DEF Retry, Asking
<1> QED
  BY <1>1, <1>2

\* What is reported was asked for, and is not followed any more.
LEMMA SucceedHolds ==
  ASSUME RunInv, TypeInv', LoopOnly, pc \in {"sent", "confirm"}, Succeed,
         verified => <<expected, Target>> \notin following
  PROVE  RunInv'
<1> USE DEF LoopOnly, inputVars, userVars, serverVars, history
<1>1. Target \in Accounts /\ index \in 1..Len(targets) /\ Len(targets) \in Nat
      /\ summary.succeeded \in Seq(Accounts)
  BY TargetTyping DEF RunInv, AtWork, TypeInv, TypeOK
<1>2. summary'.succeeded = Append(summary.succeeded, Target)
  BY DEF Succeed, RunInv, TypeInv, TypeOK
<1>3. Reported' = Reported \cup {Target} /\ Posted' = Posted
  BY <1>1, <1>2, ElementsAppend DEF Reported, Posted
<1>4. Records'
  BY <1>3 DEF RunInv, Records, Position, WritesAreReviewed, VerifiedReportIsTrue,
              ReportedIsUnfollowed, Elements
<1>5. Position'
  <2>1. CASE stop
    BY <2>1 DEF Succeed, End, Position, Asking, Between
  <2>2. CASE ~stop
    <3>1. pc' = "next" /\ index' = index + 1 /\ Posted' = Reported'
      BY <1>3, <2>2 DEF Succeed, RunInv, Position
    <3>2. Done' = Done \cup {Target}
      BY <1>1, <3>1 DEF Done, Target
    <3>3. Reported' \subseteq Done'
      BY <1>3, <3>2 DEF RunInv, Position
    <3> QED
      BY <3>1, <3>3 DEF Position, Asking, Between
  <2> QED
    BY <2>1, <2>2
<1> QED
  BY <1>4, <1>5 DEF RunInv

LEMMA NormalizeHolds ==
  ASSUME RunInv, TypeInv', Normalize
  PROVE  RunInv'
<1> USE DEF Normalize, inputVars, userVars, serverVars, history
<1>1. /\ selection[taken + 1] \in Elements(selection)
      /\ selection[taken + 1] \in Accounts
  BY DEF RunInv, TypeInv, TypeOK, Elements
<1>2. targets \in Seq(Accounts) /\ index \in 1..(Len(targets) + 1)
  BY DEF RunInv, TypeInv, TypeOK
<1>3. Reported' = Reported /\ Posted' = Posted
  BY DEF Reported, Posted, Elements
<1>4. /\ Elements(targets') \subseteq Elements(selection)
      /\ \A i, j \in DOMAIN targets' : targets'[i] = targets'[j] => i = j
      /\ Done \subseteq Done'
  <2>1. CASE selection[taken + 1] \in Elements(targets)
    BY <2>1 DEF RunInv, Records, Done
  <2>2. CASE selection[taken + 1] \notin Elements(targets)
    <3>1. targets' = Append(targets, selection[taken + 1])
      BY <2>2
    <3>2. DOMAIN targets = 1..Len(targets) /\ Len(targets) \in Nat
      BY <1>2
    <3>3. Elements(targets') \subseteq Elements(selection)
      BY <1>1, <1>2, <3>1, ElementsAppend DEF RunInv, Records
    <3>4. \A i, j \in DOMAIN targets' : targets'[i] = targets'[j] => i = j
      BY <1>1, <1>2, <2>2, <3>1, <3>2, AppendTyping DEF RunInv, Records, Elements
    <3>5. Done \subseteq Done'
      BY <1>1, <1>2, <3>1, <3>2, AppendTyping DEF Done
    <3> QED
      BY <3>3, <3>4, <3>5
  <2> QED
    BY <2>1, <2>2
<1>5. Records'
  <2>1. WritesAreReviewed' /\ VerifiedReportIsTrue'
    BY <1>3 DEF RunInv, Records, WritesAreReviewed, VerifiedReportIsTrue,
                ReportedIsUnfollowed, Elements
  <2>2. Elements(targets') \subseteq Elements(selection')
    BY <1>4
  <2> QED
    BY <1>3, <1>4, <2>1, <2>2 DEF RunInv, Records
<1>6. Position'
  BY <1>3, <1>4 DEF RunInv, Position, Asking, Between
<1> QED
  BY <1>5, <1>6 DEF RunInv

LEMMA PostedAppend ==
  ASSUME TypeInv, pc \in AtWork, NEW v \in Viewers \cup {NoViewer},
         posts' = Append(posts, [viewer |-> v, account |-> Target])
  PROVE  /\ Posted' = Posted \cup {Target}
         /\ \A i \in DOMAIN posts' : \/ i \in DOMAIN posts /\ posts'[i] = posts[i]
                                     \/ posts'[i] = [viewer |-> v, account |-> Target]
<1> DEFINE Post == [viewer : Viewers \cup {NoViewer}, account : Accounts]
<1>1. [viewer |-> v, account |-> Target] \in Post /\ posts \in Seq(Post)
  BY TargetTyping DEF TypeInv, TypeOK
<1>2. DOMAIN posts = 1..Len(posts) /\ Len(posts) \in Nat
  BY <1>1
<1>3. /\ DOMAIN posts' = 1..(Len(posts) + 1)
      /\ \A i \in DOMAIN posts : posts'[i] = posts[i]
      /\ posts'[Len(posts) + 1] = [viewer |-> v, account |-> Target]
  BY <1>1, AppendTyping
<1> HIDE DEF Post
<1> QED
  BY <1>2, <1>3 DEF Posted

LEMMA SendHolds ==
  ASSUME RunInv, TypeInv', Send
  PROVE  RunInv'
<1> USE DEF Send, inputVars, userVars, serverVars, history
<1>1. viewer = expected /\ Reported' = Reported /\ Target' = Target /\ Done' = Done
  BY DEF RunInv, Position, Asking, Reported, Elements, Target, Done
<1>2. /\ Posted' = Posted \cup {Target}
      /\ \A i \in DOMAIN posts' : \/ i \in DOMAIN posts /\ posts'[i] = posts[i]
                                  \/ posts'[i] = [viewer |-> viewer, account |-> Target]
  BY PostedAppend DEF RunInv, TypeInv, TypeOK, AtWork
<1>3. Target \in Elements(selection)
  <2>1. index \in DOMAIN targets
    BY DEF RunInv, TypeInv, TypeOK, AtWork
  <2>2. Target \in Elements(targets)
    BY <2>1 DEF Elements, Target
  <2> QED
    BY <2>2 DEF RunInv, Records
<1>4. WritesAreReviewed'
  BY <1>1, <1>2, <1>3 DEF RunInv, Records, WritesAreReviewed, Elements
<1>5. \A r \in inFlight' : r[1] = expected /\ r[2] \in Posted'
  <2> SUFFICES ASSUME NEW r \in inFlight' PROVE r[1] = expected /\ r[2] \in Posted'
    OBVIOUS
  <2>1. CASE r \in inFlight
    BY <1>2, <2>1 DEF RunInv, Records
  <2>2. CASE r = <<viewer, Target>>
    BY <1>1, <1>2, <2>2
  <2> QED
    BY <2>1, <2>2
<1>6. Records'
  <2>1. VerifiedReportIsTrue'
    BY <1>1 DEF RunInv, Records, VerifiedReportIsTrue, ReportedIsUnfollowed
  <2>2. Elements(targets') \subseteq Elements(selection')
    BY DEF RunInv, Records
  <2> QED
    BY <1>1, <1>2, <1>4, <1>5, <2>1, <2>2 DEF RunInv, Records
<1>7. Position'
  <2>1. pc = "send" /\ pc' = "sent" /\ Posted \subseteq Reported \cup {Target}
    BY DEF RunInv, Position
  <2>2. Reported \subseteq Posted /\ Reported \subseteq Done
    BY <2>1 DEF RunInv, Records, Position
  <2>3. Posted' = Reported' \cup {Target'}
    BY <1>1, <1>2, <2>1, <2>2
  <2> QED
    BY <1>1, <2>1, <2>2, <2>3 DEF Position, Asking, Between
<1> QED
  BY <1>6, <1>7 DEF RunInv

LEMMA LastPost ==
  ASSUME RunInv, pc = "sent"
  PROVE  posts[Len(posts)].viewer = expected
<1>1. DOMAIN posts = 1..Len(posts) /\ Len(posts) \in Nat
  BY DEF RunInv, TypeInv, TypeOK
<1>2. DOMAIN posts # {}
  BY DEF RunInv, Position, Posted
<1> QED
  BY <1>1, <1>2 DEF RunInv, Records, WritesAreReviewed

LEMMA RunHolds == RunInv /\ Run => RunInv'
<1> SUFFICES ASSUME RunInv, Run PROVE RunInv'
  OBVIOUS
<1>1. TypeInv'
  BY RunTyping DEF RunInv
<1> USE <1>1 DEF End, Asking, Between
<1>2. CASE Normalize
  BY <1>2, NormalizeHolds
<1>3. CASE Normalized \/ FirstCheck \/ NoMoreTargets \/ ChooseDelay \/ DelayElapsed
  BY <1>3, MoveHolds DEF Normalized, FirstCheck, NoMoreTargets, ChooseDelay, DelayElapsed
<1>4. CASE LimitReached \/ StopSeen
  <2>1. summary'.succeeded = summary.succeeded
    BY <1>4 DEF LimitReached, StopSeen, RunInv, TypeInv, TypeOK
  <2> QED
    BY <1>4, <2>1, MoveHolds DEF LimitReached, StopSeen
<1>5. CASE CheckViewer
  <2>1. CASE viewer = NoViewer /\ Fail
    BY <1>5, <2>1, FailHolds DEF CheckViewer
  <2>2. CASE ~ (viewer = NoViewer /\ Fail)
    <3>1. summary'.succeeded = summary.succeeded
      BY <1>5, <2>2 DEF CheckViewer, RunInv, TypeInv, TypeOK
    <3> QED
      BY <1>5, <2>2, <3>1, MoveHolds DEF CheckViewer
  <2> QED
    BY <2>1, <2>2
<1>6. CASE Request
  BY <1>6, MoveHolds, FailHolds DEF Request, RunInv, Position
<1>7. CASE Send
  BY <1>7, SendHolds
<1>8. CASE SendFails \/ ReplyRaises
  BY <1>8, FailHolds DEF SendFails, ReplyRaises
<1>9. CASE ReplyConfirms
  <2>1. posts[Len(posts)].viewer = expected
    BY <1>9, LastPost DEF ReplyConfirms
  <2> QED
    BY <1>9, <2>1, SucceedHolds DEF ReplyConfirms
<1>10. CASE ReplySilent \/ ReplyLost
  <2>1. CASE pc' = "confirm" /\ UNCHANGED <<index, attempt, learned, summary, outcome>>
    BY <1>10, <2>1, MoveHolds DEF ReplySilent, ReplyLost, RunInv, Position
  <2> QED
    BY <1>10, <2>1, SucceedHolds, FailHolds DEF ReplySilent, ReplyLost
<1>11. CASE ReplyRefused
  BY <1>11, RetryHolds, FailHolds DEF ReplyRefused
<1>12. CASE Confirm
  <2>1. viewer = expected
    BY <1>12 DEF Confirm, RunInv, Position
  <2> QED
    BY <1>12, <2>1, SucceedHolds, RetryHolds, FailHolds DEF Confirm
<1> QED
  BY <1>2, <1>3, <1>4, <1>5, <1>6, <1>7, <1>8, <1>9, <1>10, <1>11, <1>12 DEF Run

LEMMA NextHolds ==
  ASSUME SwitchAssumption, RunInv, [Next]_vars
  PROVE  RunInv'
<1>1. TypeInv'
  BY Typing DEF RunInv
<1> USE <1>1 DEF runVars, inputVars, userVars, serverVars, history
<1>2. CASE Run
  BY <1>2, RunHolds
<1>3. CASE PressStop \/ SwitchViewer \/ UNCHANGED vars
  <2>1. /\ UNCHANGED <<inputVars, targets, index, pc, summary, posts, serverVars>>
        /\ pc \in Asking => viewer' = viewer
    BY <1>3 DEF PressStop, SwitchViewer, SwitchAssumption, vars
  <2>2. Reported' = Reported /\ Posted' = Posted /\ Target' = Target /\ Done' = Done
    BY <2>1 DEF Reported, Posted, Elements, Target, Done
  <2>3. Records'
    BY <2>1, <2>2 DEF RunInv, Records, WritesAreReviewed, VerifiedReportIsTrue,
                      ReportedIsUnfollowed, Elements
  <2>4. Position'
    BY <2>1, <2>2 DEF RunInv, Position
  <2> QED
    BY <2>3, <2>4 DEF RunInv
<1>4. ASSUME NEW r \in Relation, ServerApplies(r) \/ ServerDrops(r)
      PROVE  RunInv'
  <2>1. /\ UNCHANGED <<runVars, userVars, posts>>
        /\ following' \subseteq following /\ inFlight' \subseteq inFlight
    BY <1>4 DEF ServerApplies, ServerDrops
  <2>2. Reported' = Reported /\ Posted' = Posted /\ Target' = Target /\ Done' = Done
    BY <2>1 DEF Reported, Posted, Elements, Target, Done
  <2>3. Records'
    BY <2>1, <2>2 DEF RunInv, Records, WritesAreReviewed, VerifiedReportIsTrue,
                      ReportedIsUnfollowed, Elements
  <2>4. Position'
    BY <2>1, <2>2 DEF RunInv, Position
  <2> QED
    BY <2>3, <2>4 DEF RunInv
<1> QED
  BY <1>2, <1>3, <1>4 DEF Next

LEMMA Invariance == SwitchAssumption => (Spec => []RunInv)
<1> SUFFICES ASSUME SwitchAssumption PROVE Spec => []RunInv
  OBVIOUS
<1>1. RunInv /\ [Next]_vars => RunInv'
  BY NextHolds
<1> QED
  BY <1>1, InitHolds, PTL DEF Spec

\* Late, lost, refused and repeated requests included, the verified backend never
\* reports an account as unfollowed that the reviewed account still follows.
THEOREM ReportsAreTrue == SwitchAssumption => (Spec => []VerifiedReportIsTrue)
<1> SUFFICES ASSUME SwitchAssumption PROVE Spec => []VerifiedReportIsTrue
  OBVIOUS
<1>1. RunInv => VerifiedReportIsTrue
  BY DEF RunInv, Records
<1> QED
  BY <1>1, Invariance, PTL

\* Every request leaves under the account whose list was reviewed and names an
\* account that was selected.
THEOREM WritesReviewed == SwitchAssumption => (Spec => []WritesAreReviewed)
<1> SUFFICES ASSUME SwitchAssumption PROVE Spec => []WritesAreReviewed
  OBVIOUS
<1>1. RunInv => WritesAreReviewed
  BY DEF RunInv, Records
<1> QED
  BY <1>1, Invariance, PTL

-------------------------------------------------------------------------------
(* What the run writes and what it reports add up. Nothing here rests on who *)
(* is logged in.                                                             *)

Asked(a) == {i \in DOMAIN posts : posts[i].account = a}

\* Before the end everything reported is behind the loop, and only the target in
\* hand can be asked for and not reported.
Tidy ==
  /\ \A i, j \in DOMAIN targets : targets[i] = targets[j] => i = j
  /\ pc # "done" => /\ Reported = Done /\ outcome = "none"
                    /\ summary.deferred = 0 /\ ~summary.stopped
  /\ Reported \subseteq Posted
  /\ pc \in Between => Posted = Reported
  /\ pc \in Asking => Posted \subseteq Reported \cup {Target}
  /\ pc \in {"sent", "confirm"} => Target \in Posted
  /\ pc \in {"normalize", "start"} => posts = <<>>

\* The attempts at the target in hand are those that were sent, or one more.
Counted ==
  /\ AtMostTwoRequests
  /\ pc \in {"request", "send"} => Cardinality(Asked(Target)) < attempt
  /\ pc \in {"sent", "confirm"} => Cardinality(Asked(Target)) <= attempt
  /\ ~verified /\ pc \in Asking => attempt = 1 /\ pc # "confirm"

\* The loop index counts the reports, the attempts bound the accounts asked for.
Sized ==
  /\ IsFiniteSet(Reported) /\ IsFiniteSet(Posted)
  /\ pc # "done" => Cardinality(Reported) = index - 1
  /\ Cardinality(Posted) <= summary.attempted
  /\ pc \in Asking => index <= summary.attempted
  /\ limit # 0 => summary.attempted <= limit
  /\ pc \in {"wait", "check"} => ~AtLimit

\* No request has left after stop when another one may be about to leave.
Halted == lateStarts <= 1 /\ (~stop \/ pc = "send" => lateStarts = 0)

\* A target that is tried again was seen unchanged or refused; the end accounts
\* for every target.
Settled ==
  /\ pc = "request" /\ Target \in Posted => learned \in {"unchanged", "refused"}
  /\ NoResultIsLost
  /\ outcome = "summary" /\ ~summary.stopped
       => Cardinality(Reported) + summary.deferred = Len(targets)

TallyInv == TypeInv /\ Tidy /\ Counted /\ Sized /\ Halted /\ Settled

LEMMA AddsUp == TallyInv => RunAddsUp
<1> SUFFICES ASSUME TallyInv PROVE RunAddsUp
  OBVIOUS
<1>1. AtMostTwoRequests /\ NoResultIsLost /\ StopLetsOneOut
  BY DEF TallyInv, Counted, Settled, Halted, StopLetsOneOut
<1>2. LimitHolds
  <2>1. Cardinality(Posted) \in Nat /\ summary.attempted \in Nat /\ limit \in Nat
    BY FS_CardinalityType DEF TallyInv, Sized, TypeInv, TypeOK
  <2> QED
    BY <2>1 DEF TallyInv, Sized, Settled, LimitHolds
<1> QED
  BY <1>1, <1>2 DEF RunAddsUp

LEMMA AskedFinite ==
  ASSUME TypeInv, NEW a
  PROVE  IsFiniteSet(Asked(a)) /\ Cardinality(Asked(a)) \in Nat
<1>1. DOMAIN posts = 1..Len(posts) /\ Len(posts) \in Nat
  BY DEF TypeInv, TypeOK
<1>2. IsFiniteSet(1..Len(posts))
  BY <1>1, FS_Interval
<1>3. Asked(a) \in SUBSET (1..Len(posts))
  BY <1>1 DEF Asked
<1>4. IsFiniteSet(Asked(a))
  BY <1>2, <1>3, FS_Subset
<1> QED
  BY <1>4, FS_CardinalityType

LEMMA CountedAs ==
  AtMostTwoRequests <=>
    \A a \in Accounts : Cardinality(Asked(a)) <= IF verified THEN 2 ELSE 1
BY DEF AtMostTwoRequests, Asked

LEMMA TallyInit == Init => TallyInv
<1> SUFFICES ASSUME Init PROVE TallyInv
  OBVIOUS
<1>1. TypeInv
  BY InitTyping
<1>2. /\ Posted = {} /\ Reported = {} /\ DOMAIN targets = {} /\ Done = {}
      /\ \A a : Asked(a) = {}
  BY DEF Init, Posted, Reported, Elements, Done, Asked
<1>3. IsFiniteSet({}) /\ Cardinality({}) = 0
  BY FS_EmptySet
<1>4. Tidy
  BY <1>2 DEF Init, Tidy, Asking, Between
<1>5. Counted
  <2>1. \A a : Cardinality(Asked(a)) = 0
    BY <1>2, <1>3
  <2> QED
    BY <2>1, CountedAs DEF Init, Counted, Asking
<1>6. Sized
  BY <1>2, <1>3, RunAssumption DEF Init, Sized, Asking
<1>7. Halted /\ Settled
  BY DEF Init, Halted, Settled, NoResultIsLost
<1> QED
  BY <1>1, <1>4, <1>5, <1>6, <1>7 DEF TallyInv

\* A step that sends nothing and reports nothing leaves the records alone.
LEMMA Kept ==
  ASSUME TallyInv, LoopOnly, index' = index, summary'.succeeded = summary.succeeded
  PROVE  /\ Reported' = Reported /\ Posted' = Posted /\ Target' = Target /\ Done' = Done
         /\ \A a : Asked(a)' = Asked(a)
         /\ AtMostTwoRequests' = AtMostTwoRequests
         /\ UNCHANGED <<verified, limit, targets, posts, lateStarts, stop>>
BY DEF LoopOnly, inputVars, userVars, serverVars, history, Reported, Posted, Elements,
       Target, Done, Asked, AtMostTwoRequests

\* The targets in hand are beyond what is done, and counting includes them.
LEMMA InHand ==
  ASSUME TallyInv, pc \in AtWork
  PROVE  /\ Target \in Accounts /\ Target \notin Done /\ Target \notin Reported
         /\ index \in Nat \ {0} /\ index <= Len(targets) /\ Len(targets) \in Nat
<1>1. index \in DOMAIN targets /\ DOMAIN targets = 1..Len(targets) /\ Len(targets) \in Nat
  BY DEF TallyInv, TypeInv, TypeOK, AtWork
<1>2. Target \notin Done
  BY <1>1 DEF TallyInv, Tidy, Done, Target
<1> QED
  BY <1>1, <1>2, TargetTyping DEF TallyInv, Tidy, AtWork

LEMMA FailTallies ==
  ASSUME TallyInv, TypeInv', LoopOnly, pc \in AtWork, Fail
  PROVE  TallyInv'
<1>1. /\ summary'.succeeded = summary.succeeded /\ summary'.attempted = summary.attempted
      /\ index' = index /\ pc' = "done" /\ outcome' = "run_error"
  BY DEF Fail, End, TallyInv, TypeInv, TypeOK
<1> QED
  BY <1>1, Kept DEF TallyInv, Tidy, Counted, Sized, Halted, Settled, NoResultIsLost, Asking, Between

LEMMA RetryTallies ==
  ASSUME TallyInv, TypeInv', LoopOnly, pc \in {"sent", "confirm"}, verified,
         NEW what \in {"unchanged", "refused"}, Retry(what)
  PROVE  TallyInv'
<1>1. CASE attempt = 1
  <2>1. /\ pc' = "request" /\ attempt' = 2 /\ learned' = what
        /\ UNCHANGED <<summary, outcome, index>>
    BY <1>1 DEF Retry
  <2>2. Cardinality(Asked(Target)) \in Nat /\ Cardinality(Asked(Target)) <= 1
    BY <1>1, AskedFinite DEF TallyInv, Counted
  <2>3. Tidy' /\ Settled'
    BY <2>1, Kept DEF TallyInv, Tidy, Settled, NoResultIsLost, Asking, Between
  <2>4. Counted'
    <3>1. /\ Cardinality(Asked(Target))' = Cardinality(Asked(Target))
          /\ AtMostTwoRequests' /\ verified'
      BY <2>1, Kept DEF TallyInv, Counted
    <3> QED
      BY <2>1, <2>2, <3>1 DEF TallyInv, Counted, Asking
  <2>5. Sized' /\ Halted'
    BY <2>1, Kept DEF TallyInv, Sized, Halted, Asking, AtLimit
  <2> QED
    BY <2>3, <2>4, <2>5 DEF TallyInv
<1>2. CASE attempt # 1
  BY <1>2, FailTallies DEF Retry, AtWork
<1> QED
  BY <1>1, <1>2

LEMMA SucceedTallies ==
  ASSUME TallyInv, TypeInv', LoopOnly, pc \in {"sent", "confirm"}, Succeed
  PROVE  TallyInv'
<1> USE DEF LoopOnly, inputVars, userVars, serverVars, history
<1>1. /\ Target \in Accounts /\ Target \notin Reported /\ index \in Nat \ {0}
      /\ index <= Len(targets) /\ Len(targets) \in Nat /\ summary.succeeded \in Seq(Accounts)
  BY InHand DEF AtWork, TallyInv, TypeInv, TypeOK
<1>2. /\ summary'.succeeded = Append(summary.succeeded, Target)
      /\ summary'.attempted = summary.attempted /\ summary'.deferred = summary.deferred
      /\ summary'.stopped = stop
  BY DEF Succeed, TallyInv, TypeInv, TypeOK
<1>3. Reported' = Reported \cup {Target} /\ Posted' = Posted /\ Posted = Reported \cup {Target}
  BY <1>1, <1>2, ElementsAppend DEF Reported, Posted, TallyInv, Tidy, Asking
<1>4. /\ IsFiniteSet(Reported') /\ Cardinality(Reported') = index
  BY <1>1, <1>3, FS_AddElement DEF TallyInv, Sized
<1>5. /\ AtMostTwoRequests' /\ posts' = posts
  BY DEF TallyInv, Counted, AtMostTwoRequests
<1>6. CASE stop
  <2>1. pc' = "done" /\ outcome' = "summary" /\ summary'.stopped
    BY <1>2, <1>6 DEF Succeed, End
  <2>2. Posted' = Reported'
    BY <1>3
  <2>3. Tidy' /\ Counted' /\ Sized'
    BY <1>2, <1>3, <1>4, <1>5, <2>1, <2>2 DEF TallyInv, Tidy, Counted, Sized, Asking, Between
  <2>4. Halted' /\ Settled'
    BY <2>1, <2>2 DEF TallyInv, Halted, Settled, NoResultIsLost
  <2> QED
    BY <2>3, <2>4 DEF TallyInv
<1>7. CASE ~stop
  <2>1. pc' = "next" /\ index' = index + 1 /\ outcome' = outcome /\ ~summary'.stopped
    BY <1>2, <1>7 DEF Succeed
  <2>2. Done' = Done \cup {Target} /\ Posted' = Reported'
    BY <1>1, <1>3, <2>1 DEF Done, Target
  <2>3. Tidy'
    BY <1>2, <1>3, <2>1, <2>2 DEF TallyInv, Tidy, Asking, Between
  <2>4. Counted' /\ Sized'
    BY <1>1, <1>2, <1>3, <1>4, <1>5, <2>1 DEF TallyInv, Counted, Sized, Asking
  <2>5. Halted' /\ Settled'
    BY <2>1 DEF TallyInv, Tidy, Halted, Settled, NoResultIsLost
  <2> QED
    BY <2>3, <2>4, <2>5 DEF TallyInv
<1> QED
  BY <1>6, <1>7

LEMMA SendTallies ==
  ASSUME TallyInv, TypeInv', Send
  PROVE  TallyInv'
<1> USE DEF Send, inputVars, userVars, serverVars, history
<1>1. /\ Target \in Accounts /\ Target \notin Reported /\ index \in Nat \ {0}
      /\ index <= Len(targets) /\ Len(targets) \in Nat
  BY InHand DEF AtWork
<1>2. /\ Reported' = Reported /\ Target' = Target /\ Done' = Done
      /\ Posted' = Posted \cup {Target}
  <2>1. Posted' = Posted \cup {Target}
    BY PostedAppend DEF TallyInv, TypeInv, TypeOK, AtWork
  <2> QED
    BY <2>1 DEF Reported, Elements, Target, Done
<1> DEFINE Now == {i \in DOMAIN posts' : posts'[i].account = Target}
<1>3. /\ Now = Asked(Target) \cup {Len(posts) + 1}
      /\ \A a \in Accounts \ {Target} : Asked(a)' = Asked(a)
  <2> DEFINE Post == [viewer : Viewers \cup {NoViewer}, account : Accounts]
  <2>1. [viewer |-> viewer, account |-> Target] \in Post /\ posts \in Seq(Post)
    BY <1>1 DEF TallyInv, TypeInv, TypeOK
  <2>2. DOMAIN posts = 1..Len(posts) /\ Len(posts) \in Nat
    BY <2>1
  <2>3. /\ DOMAIN posts' = 1..(Len(posts) + 1)
        /\ \A i \in DOMAIN posts : posts'[i] = posts[i]
        /\ posts'[Len(posts) + 1] = [viewer |-> viewer, account |-> Target]
    BY <2>1, AppendTyping
  <2> HIDE DEF Post
  <2> QED
    BY <1>2, <2>2, <2>3 DEF Asked
<1> HIDE DEF Now
<1>4. Cardinality(Now) <= Cardinality(Asked(Target)) + 1
      /\ Cardinality(Asked(Target)) \in Nat /\ Cardinality(Now) \in Nat
  <2>1. IsFiniteSet(Asked(Target)) /\ Cardinality(Asked(Target)) \in Nat
    BY AskedFinite DEF TallyInv
  <2>2. Cardinality(Asked(Target) \cup {Len(posts) + 1})
          = IF Len(posts) + 1 \in Asked(Target) THEN Cardinality(Asked(Target))
                                                ELSE Cardinality(Asked(Target)) + 1
    BY <2>1, FS_AddElement
  <2> QED
    BY <1>3, <2>1, <2>2
<1>5. attempt \in {1, 2} /\ Cardinality(Asked(Target)) < attempt /\ (~verified => attempt = 1)
  BY DEF TallyInv, TypeInv, TypeOK, Counted, Asking
<1>6. Tidy'
  BY <1>1, <1>2 DEF TallyInv, Tidy, Asking, Between
<1>7. Counted'
  <2>1. Cardinality(Now) <= attempt
    BY <1>4, <1>5
  <2>2. \A a \in Accounts : Cardinality(Asked(a)') <= IF verified THEN 2 ELSE 1
    <3> SUFFICES ASSUME NEW a \in Accounts
                 PROVE  Cardinality(Asked(a)') <= IF verified THEN 2 ELSE 1
      OBVIOUS
    <3>1. CASE a = Target
      <4>1. Asked(a)' = Now
        BY <3>1 DEF Asked, Now
      <4> QED
        BY <1>4, <1>5, <2>1, <4>1
    <3>2. CASE a # Target
      BY <1>3, <3>2, CountedAs DEF TallyInv, Counted
    <3> QED
      BY <3>1, <3>2
  <2>3. AtMostTwoRequests'
    BY <2>2 DEF AtMostTwoRequests, Asked
  <2>4. Asked(Target)' = Now
    BY <1>2 DEF Asked, Now
  <2> QED
    BY <1>2, <1>5, <2>1, <2>3, <2>4 DEF Counted, Asking
<1>8. Sized'
  <2>1. Posted' \subseteq Reported \cup {Target}
    BY <1>2 DEF TallyInv, Tidy, Asking
  <2>2. /\ IsFiniteSet(Reported \cup {Target})
        /\ Cardinality(Reported \cup {Target}) = index
    BY <1>1, FS_AddElement DEF TallyInv, Sized
  <2>3. IsFiniteSet(Posted') /\ Cardinality(Posted') <= index /\ Cardinality(Posted') \in Nat
    BY <2>1, <2>2, FS_Subset, FS_CardinalityType
  <2>4. index <= summary.attempted /\ summary.attempted \in Nat
    BY DEF TallyInv, Sized, Asking, TypeInv, TypeOK
  <2> QED
    BY <1>1, <1>2, <2>3, <2>4 DEF TallyInv, Sized, Asking
<1>9. Halted' /\ Settled'
  BY <1>2 DEF TallyInv, Tidy, Halted, Settled, NoResultIsLost
<1> QED
  BY <1>6, <1>7, <1>8, <1>9 DEF TallyInv

LEMMA NormalizeTallies ==
  ASSUME TallyInv, TypeInv', Normalize
  PROVE  TallyInv'
<1> USE DEF Normalize, inputVars, userVars, serverVars, history
<1>1. Reported' = Reported /\ Posted' = Posted /\ \A a : Asked(a)' = Asked(a)
  BY DEF Reported, Posted, Elements, Asked
<1>2. targets \in Seq(Accounts) /\ index \in 1..(Len(targets) + 1) /\ selection[taken + 1] \in Accounts
      /\ DOMAIN targets = 1..Len(targets) /\ Len(targets) \in Nat
  BY DEF TallyInv, TypeInv, TypeOK
<1>3. /\ \A i, j \in DOMAIN targets' : targets'[i] = targets'[j] => i = j
      /\ Done' = Done
  <2>1. CASE selection[taken + 1] \in Elements(targets)
    BY <2>1 DEF TallyInv, Tidy, Done
  <2>2. CASE selection[taken + 1] \notin Elements(targets)
    <3>1. targets' = Append(targets, selection[taken + 1])
      BY <2>2
    <3>2. \A i, j \in DOMAIN targets' : targets'[i] = targets'[j] => i = j
      BY <1>2, <2>2, <3>1, AppendTyping DEF TallyInv, Tidy, Elements
    <3>3. Done' = Done
      BY <1>2, <3>1, AppendTyping DEF Done
    <3> QED
      BY <3>2, <3>3
  <2> QED
    BY <2>1, <2>2
<1>4. Tidy' /\ Counted'
  BY <1>1, <1>3, CountedAs DEF TallyInv, Tidy, Counted, Asking, Between, AtMostTwoRequests
<1>5. Sized' /\ Halted' /\ Settled'
  BY <1>1 DEF TallyInv, Tidy, Sized, Halted, Settled, NoResultIsLost, Asking, AtLimit
<1> QED
  BY <1>4, <1>5 DEF TallyInv

\* The ends of the loop that report nothing: no targets, all done, the limit, stop.
LEMMA EndTallies ==
  ASSUME TallyInv, TypeInv', Normalized \/ NoMoreTargets \/ LimitReached \/ StopSeen
  PROVE  TallyInv'
<1>1. /\ summary'.succeeded = summary.succeeded /\ summary'.attempted = summary.attempted
      /\ index' = index /\ LoopOnly
      /\ index \in 1..(Len(targets) + 1) /\ Len(targets) \in Nat
  <2>1. summary \in Summaries /\ index \in 1..(Len(targets) + 1) /\ Len(targets) \in Nat
    <3>1. TypeOK
      BY DEF TallyInv, TypeInv
    <3>2. summary \in Summaries
      BY <3>1 DEF TypeOK, Summaries
    <3> QED
      BY <3>1, <3>2 DEF TypeOK
  <2>2. LoopOnly /\ index' = index
    BY DEF Normalized, NoMoreTargets, LimitReached, StopSeen
  <2>3. CASE Normalized \/ NoMoreTargets
    BY <2>1, <2>2, <2>3 DEF Normalized, NoMoreTargets
  <2>4. CASE LimitReached
    BY <2>1, <2>2, <2>4 DEF LimitReached, Summaries
  <2>5. CASE StopSeen
    BY <2>1, <2>2, <2>5 DEF StopSeen, Summaries
  <2> QED
    BY <2>3, <2>4, <2>5
<1>2. pc # "done" /\ Cardinality(Reported) = index - 1
  BY DEF Normalized, NoMoreTargets, LimitReached, StopSeen, TallyInv, Sized
<1>3. CASE pc' = "done"
  <2>1. outcome' = "summary"
    BY <1>2, <1>3 DEF Normalized, NoMoreTargets, LimitReached, StopSeen, End
  <2>2. Tidy' /\ Counted' /\ Sized' /\ Halted'
    BY <1>1, <1>2, <1>3, Kept DEF TallyInv, Tidy, Counted, Sized, Halted, Asking, Between
  <2>3. ~summary'.stopped => Cardinality(Reported) + summary'.deferred = Len(targets)
    <3>1. CASE Normalized
      <4>1. targets = <<>> /\ summary' = summary
        BY <1>3, <3>1 DEF Normalized
      <4> QED
        BY <1>1, <1>2, <4>1 DEF TallyInv, Tidy
    <3>2. CASE NoMoreTargets
      BY <1>1, <1>2, <3>2 DEF NoMoreTargets, TallyInv, Tidy
    <3>3. CASE LimitReached
      <4>1. summary'.deferred = Len(targets) - index + 1
        BY <3>3 DEF LimitReached, TallyInv, TypeInv, TypeOK
      <4> QED
        BY <1>1, <1>2, <4>1
    <3>4. CASE StopSeen
      BY <3>4 DEF StopSeen, TallyInv, TypeInv, TypeOK
    <3> QED
      BY <3>1, <3>2, <3>3, <3>4
  <2>4. summary'.stopped /\ Posted # Reported => learned \in {"unchanged", "refused"} /\ learned' = learned
    BY <1>2 DEF Normalized, NoMoreTargets, LimitReached, StopSeen, TallyInv, Tidy, Settled, Asking, Between
  <2>5. Settled'
    BY <1>1, <1>3, <2>1, <2>3, <2>4, Kept DEF Settled, NoResultIsLost
  <2> QED
    BY <2>2, <2>5 DEF TallyInv
<1>4. CASE pc' # "done"
  <2>1. pc = "normalize" /\ pc' = "start" /\ UNCHANGED <<outcome, attempt, learned, summary>>
    BY <1>4 DEF Normalized, NoMoreTargets, LimitReached, StopSeen, End
  <2> QED
    BY <1>1, <2>1, Kept DEF TallyInv, Tidy, Counted, Sized, Halted, Settled, NoResultIsLost,
       Asking, Between, AtLimit
<1> QED
  BY <1>3, <1>4

\* The steps to a request, and to the confirmation of one.
LEMMA MoveTallies ==
  ASSUME TallyInv, TypeInv', LoopOnly, UNCHANGED <<index, attempt, learned, summary>>,
         \/ pc = "start" /\ pc' = "next" /\ outcome' = outcome
         \/ pc = "start" /\ pc' = "done" /\ outcome' = "raised"
         \/ pc = "next" /\ pc' = "wait" /\ ~AtLimit /\ outcome' = outcome
         \/ pc = "wait" /\ pc' = "check" /\ outcome' = outcome
         \/ pc = "check" /\ pc' = "done" /\ outcome' = "run_error"
         \/ pc = "request" /\ pc' = "send" /\ ~stop /\ outcome' = outcome
         \/ pc = "sent" /\ pc' = "confirm" /\ verified /\ outcome' = outcome
  PROVE  TallyInv'
<1>1. Tidy'
  BY Kept DEF TallyInv, Tidy, Asking, Between
<1>2. Counted'
  BY Kept DEF TallyInv, Counted, Asking
<1>3. Sized'
  BY Kept DEF TallyInv, Sized, Asking, AtLimit
<1>4. Halted' /\ Settled'
  BY Kept DEF TallyInv, Tidy, Halted, Settled, NoResultIsLost
<1> QED
  BY <1>1, <1>2, <1>3, <1>4 DEF TallyInv

LEMMA CheckTallies ==
  ASSUME TallyInv, TypeInv', CheckViewer
  PROVE  TallyInv'
<1>1. CASE viewer = NoViewer /\ Fail
  BY <1>1, FailTallies DEF CheckViewer, AtWork
<1>2. CASE End("run_error") /\ UNCHANGED <<index, attempt, learned, summary>>
  BY <1>2, MoveTallies DEF CheckViewer, End
<1>3. ASSUME summary' = [summary EXCEPT !.attempted = @ + 1],
             pc' = "request", attempt' = 1, learned' = "nothing",
             UNCHANGED <<index, outcome>>
      PROVE  TallyInv'
  <2>1. LoopOnly /\ pc = "check"
    BY DEF CheckViewer
  <2>2. /\ summary'.succeeded = summary.succeeded /\ summary'.attempted = summary.attempted + 1
        /\ summary'.deferred = summary.deferred /\ summary'.stopped = summary.stopped
        /\ summary.attempted \in Nat /\ limit \in Nat
    BY <1>3 DEF TallyInv, TypeInv, TypeOK
  <2>3. /\ Target \in Accounts /\ Target \notin Reported /\ index \in Nat \ {0}
        /\ Posted = Reported
    BY <2>1, InHand DEF AtWork, TallyInv, Tidy, Between
  <2>4. Asked(Target) = {} /\ Cardinality(Asked(Target)) = 0
    BY <2>3, FS_EmptySet DEF Asked, Posted
  <2>5. Tidy' /\ Halted' /\ Settled'
    BY <1>3, <2>1, <2>2, <2>3, Kept DEF TallyInv, Tidy, Halted, Settled, NoResultIsLost, Asking, Between
  <2>6. Counted'
    BY <1>3, <2>1, <2>2, <2>4, Kept DEF TallyInv, Counted, Asking
  <2>7. Sized'
    <3>1. Cardinality(Posted) = index - 1 /\ index <= summary'.attempted
      BY <2>1, <2>2, <2>3 DEF TallyInv, Sized
    <3>2. limit # 0 => summary'.attempted <= limit
      BY <2>1, <2>2 DEF TallyInv, Sized, AtLimit
    <3> QED
      BY <1>3, <2>1, <2>2, <2>3, <3>1, <3>2, Kept DEF TallyInv, Sized, Asking
  <2> QED
    BY <2>5, <2>6, <2>7 DEF TallyInv
<1> QED
  BY <1>1, <1>2, <1>3 DEF CheckViewer

LEMMA RunTallies == TallyInv /\ Run => TallyInv'
<1> SUFFICES ASSUME TallyInv, Run PROVE TallyInv'
  OBVIOUS
<1>1. TypeInv'
  BY RunTyping DEF TallyInv
<1> USE <1>1 DEF End
<1>2. CASE Normalize
  BY <1>2, NormalizeTallies
<1>3. CASE Normalized \/ NoMoreTargets \/ LimitReached \/ StopSeen
  BY <1>3, EndTallies
<1>4. CASE FirstCheck \/ ChooseDelay \/ DelayElapsed
  BY <1>4, MoveTallies DEF FirstCheck, ChooseDelay, DelayElapsed
<1>5. CASE CheckViewer
  BY <1>5, CheckTallies
<1>6. CASE Request \/ SendFails \/ ReplyRaises
  BY <1>6, MoveTallies, FailTallies DEF Request, SendFails, ReplyRaises, AtWork
<1>7. CASE Send
  BY <1>7, SendTallies
<1>8. CASE ReplyConfirms \/ ReplySilent \/ ReplyLost
  BY <1>8, MoveTallies, SucceedTallies, FailTallies DEF ReplyConfirms, ReplySilent, ReplyLost, AtWork
<1>9. CASE ReplyRefused
  BY <1>9, RetryTallies, FailTallies DEF ReplyRefused, AtWork
<1>10. CASE Confirm
  <2>1. verified
    BY <1>10 DEF Confirm, TallyInv, TypeInv, TypeOK, Counted, Asking
  <2> QED
    BY <1>10, <2>1, SucceedTallies, RetryTallies, FailTallies DEF Confirm, AtWork
<1> QED
  BY <1>2, <1>3, <1>4, <1>5, <1>6, <1>7, <1>8, <1>9, <1>10 DEF Run

\* Whoever is logged in, and whatever the server does: no account is asked for
\* twice by one endpoint, one request at most leaves after stop, no result is lost,
\* and the limit and the summary account for every target.
THEOREM RunIsAccounted == Spec => []RunAddsUp
<1>1. TallyInv /\ [Next]_vars => TallyInv'
  <2> SUFFICES ASSUME TallyInv, [Next]_vars PROVE TallyInv'
    OBVIOUS
  <2>1. TypeInv'
    BY Typing DEF TallyInv
  <2>2. CASE Run
    BY <2>2, RunTallies
  <2>3. CASE PressStop \/ SwitchViewer \/ UNCHANGED vars
            \/ \E r \in Relation : ServerApplies(r) \/ ServerDrops(r)
    <3>1. UNCHANGED <<runVars, history>> /\ (stop => stop')
      BY <2>3 DEF PressStop, SwitchViewer, ServerApplies, ServerDrops, vars, runVars, userVars
    <3>2. /\ UNCHANGED <<verified, limit, targets, index, pc, attempt, learned, summary, outcome,
                         posts, lateStarts>>
      BY <3>1 DEF runVars, inputVars, history
    <3>3. Reported' = Reported /\ Posted' = Posted /\ Target' = Target /\ Done' = Done
          /\ Asked(Target)' = Asked(Target) /\ AtLimit' = AtLimit
      BY <3>2 DEF Reported, Posted, Elements, Target, Done, Asked, AtLimit
    <3>4. Tidy' /\ Counted' /\ Sized'
      BY <3>2, <3>3 DEF TallyInv, Tidy, Counted, Sized, AtMostTwoRequests
    <3>5. Halted' /\ Settled'
      BY <3>1, <3>2, <3>3 DEF TallyInv, Halted, Settled, NoResultIsLost
    <3> QED
      BY <2>1, <3>4, <3>5 DEF TallyInv
  <2> QED
    BY <2>2, <2>3 DEF Next
<1> QED
  BY <1>1, TallyInit, AddsUp, PTL DEF Spec

-------------------------------------------------------------------------------
(* The run keeps the promise of UnfollowLedger.                              *)

\* The targets in hand have not been reported yet.
LEMMA TargetIsOpen ==
  ASSUME RunInv, pc \in AtWork
  PROVE  Target \notin Reported /\ Target \in Accounts /\ Target \in Elements(selection)
<1>1. index \in DOMAIN targets /\ DOMAIN targets = 1..Len(targets) /\ Len(targets) \in Nat
  BY DEF RunInv, TypeInv, TypeOK, AtWork
<1>2. Target \notin Done
  BY <1>1 DEF RunInv, Records, Done, Target
<1>3. Target \notin Reported
  BY <1>2 DEF RunInv, Position, AtWork
<1>4. Target \in Elements(targets)
  BY <1>1 DEF Elements, Target
<1> QED
  BY <1>3, <1>4, TargetTyping DEF RunInv, Records

Unfollowed == {a \in Accounts : <<expected, a>> \in following}

\* A step that asks for nothing, reports nothing and loses nothing.
LEMMA LedgerMoves ==
  ASSUME RunInv, LoopOnly, pc # "done", summary'.succeeded = summary.succeeded
  PROVE  [Ledger!Next]_Ledger!ledgerVars
<1> USE DEF LoopOnly, inputVars, userVars, serverVars, history
<1>1. Reported' = Reported /\ Posted' = Posted /\ Elements(selection') = Elements(selection)
      /\ Unfollowed' = Unfollowed /\ verified' = verified
  BY DEF Reported, Posted, Elements, Unfollowed
<1>2. CASE pc' = "done"
  BY <1>1, <1>2 DEF Ledger!Next, Ledger!Close, Unfollowed
<1>3. CASE pc' # "done"
  BY <1>1, <1>3 DEF Ledger!ledgerVars, Unfollowed
<1> QED
  BY <1>2, <1>3

LEMMA LedgerFail ==
  ASSUME RunInv, LoopOnly, pc # "done", Fail
  PROVE  [Ledger!Next]_Ledger!ledgerVars
<1>1. summary'.succeeded = summary.succeeded
  BY DEF Fail, RunInv, TypeInv, TypeOK
<1> QED
  BY <1>1, LedgerMoves

LEMMA LedgerRetry ==
  ASSUME RunInv, LoopOnly, pc # "done", NEW what, Retry(what)
  PROVE  [Ledger!Next]_Ledger!ledgerVars
BY LedgerMoves, LedgerFail DEF Retry

LEMMA LedgerReport ==
  ASSUME RunInv, LoopOnly, pc \in {"sent", "confirm"}, Succeed,
         verified => <<expected, Target>> \notin following
  PROVE  [Ledger!Next]_Ledger!ledgerVars
<1> USE DEF LoopOnly, inputVars, userVars, serverVars, history
<1>1. Target \notin Reported /\ Target \in Accounts
  BY TargetIsOpen DEF AtWork
<1>2. summary'.succeeded = Append(summary.succeeded, Target)
      /\ summary.succeeded \in Seq(Accounts)
  BY DEF Succeed, RunInv, TypeInv, TypeOK
<1>3. Reported' = Reported \cup {Target} /\ Posted' = Posted
  BY <1>1, <1>2, ElementsAppend DEF Reported, Posted
<1>4. Posted = Reported \cup {Target}
  BY DEF RunInv, Position
<1>5. Posted \ Reported = {Target} /\ (Posted \ Reported)' = {}
  BY <1>1, <1>3, <1>4
<1>6. verified' = verified /\ Elements(selection)' = Elements(selection) /\ Unfollowed' = Unfollowed
      /\ (verified => Target \notin Unfollowed)
  BY DEF Elements, Unfollowed
<1>7. CASE stop
  <2>1. pc # "done" /\ pc' = "done"
    BY <1>7 DEF Succeed, End
  <2> QED
    BY <1>1, <1>3, <1>5, <1>6, <2>1 DEF Ledger!Next, Ledger!ReportAndClose, Unfollowed
<1>8. CASE ~stop
  <2>1. pc # "done" /\ pc' # "done"
    BY <1>8 DEF Succeed
  <2> QED
    BY <1>1, <1>3, <1>5, <1>6, <2>1 DEF Ledger!Next, Ledger!Report, Unfollowed
<1> QED
  BY <1>7, <1>8

LEMMA LedgerSend ==
  ASSUME RunInv, Send
  PROVE  [Ledger!Next]_Ledger!ledgerVars
<1> USE DEF Send, inputVars, userVars
<1>1. Target \notin Reported /\ Target \in Accounts /\ Target \in Elements(selection)
  BY TargetIsOpen DEF AtWork
<1>2. Posted' = Posted \cup {Target} /\ Reported' = Reported
  BY PostedAppend DEF RunInv, TypeInv, TypeOK, AtWork, Reported, Elements
<1>3. Posted \subseteq Reported \cup {Target} /\ Reported \subseteq Posted
  BY DEF RunInv, Records, Position
<1>4. verified' = verified /\ Elements(selection)' = Elements(selection) /\ Unfollowed' = Unfollowed
      /\ pc # "done" /\ pc' # "done"
  BY DEF Elements, Unfollowed
<1>5. CASE Target \in Posted
  <2>1. Posted' = Posted
    BY <1>2, <1>5
  <2> QED
    BY <1>2, <1>4, <2>1 DEF Ledger!ledgerVars, Unfollowed
<1>6. CASE Target \notin Posted
  <2>1. Posted \ Reported = {} /\ (Posted \ Reported)' = {Target}
    BY <1>1, <1>2, <1>3, <1>6
  <2> QED
    BY <1>1, <1>2, <1>4, <2>1 DEF Ledger!Next, Ledger!Ask, Unfollowed
<1> QED
  BY <1>5, <1>6

LEMMA LedgerRun ==
  ASSUME RunInv, Run
  PROVE  [Ledger!Next]_Ledger!ledgerVars
<1> USE DEF End
<1>1. CASE Normalize
  BY <1>1 DEF Normalize, Ledger!ledgerVars, Reported, Posted, Elements,
              inputVars, userVars, serverVars, history
<1>2. CASE Normalized \/ FirstCheck \/ NoMoreTargets \/ ChooseDelay \/ DelayElapsed
  BY <1>2, LedgerMoves DEF Normalized, FirstCheck, NoMoreTargets, ChooseDelay, DelayElapsed
<1>3. CASE LimitReached \/ StopSeen
  <2>1. summary'.succeeded = summary.succeeded
    BY <1>3 DEF LimitReached, StopSeen, RunInv, TypeInv, TypeOK
  <2> QED
    BY <1>3, <2>1, LedgerMoves DEF LimitReached, StopSeen
<1>4. CASE CheckViewer
  <2>1. CASE viewer = NoViewer /\ Fail
    BY <1>4, <2>1, LedgerFail DEF CheckViewer
  <2>2. CASE ~ (viewer = NoViewer /\ Fail)
    <3>1. summary'.succeeded = summary.succeeded
      BY <1>4, <2>2 DEF CheckViewer, RunInv, TypeInv, TypeOK
    <3> QED
      BY <1>4, <3>1, LedgerMoves DEF CheckViewer
  <2> QED
    BY <2>1, <2>2
<1>5. CASE Request \/ SendFails \/ ReplyRaises
  BY <1>5, LedgerMoves, LedgerFail DEF Request, SendFails, ReplyRaises
<1>6. CASE Send
  BY <1>6, LedgerSend
<1>7. CASE ReplyConfirms
  <2>1. posts[Len(posts)].viewer = expected
    BY <1>7, LastPost DEF ReplyConfirms
  <2> QED
    BY <1>7, <2>1, LedgerReport DEF ReplyConfirms
<1>8. CASE ReplySilent \/ ReplyLost
  <2>1. CASE pc' = "confirm" /\ UNCHANGED <<index, attempt, learned, summary, outcome>>
    BY <1>8, <2>1, LedgerMoves DEF ReplySilent, ReplyLost
  <2> QED
    BY <1>8, <2>1, LedgerReport, LedgerFail DEF ReplySilent, ReplyLost
<1>9. CASE ReplyRefused
  BY <1>9, LedgerRetry, LedgerFail DEF ReplyRefused
<1>10. CASE Confirm
  <2>1. viewer = expected
    BY <1>10 DEF Confirm, RunInv, Position, Asking
  <2> QED
    BY <1>10, <2>1, LedgerReport, LedgerRetry, LedgerFail DEF Confirm
<1> QED
  BY <1>1, <1>2, <1>3, <1>4, <1>5, <1>6, <1>7, <1>8, <1>9, <1>10 DEF Run

LEMMA LedgerStep ==
  ASSUME RunInv, [Next]_vars
  PROVE  [Ledger!Next]_Ledger!ledgerVars
<1> USE DEF runVars, inputVars, userVars, serverVars, history
<1>1. CASE Run
  BY <1>1, LedgerRun
<1>2. CASE PressStop \/ SwitchViewer \/ UNCHANGED vars
  BY <1>2 DEF PressStop, SwitchViewer, vars, Ledger!ledgerVars, Reported, Posted, Elements
<1>3. ASSUME NEW r \in Relation, ServerDrops(r)
      PROVE  [Ledger!Next]_Ledger!ledgerVars
  BY <1>3 DEF ServerDrops, Ledger!ledgerVars, Reported, Posted, Elements
<1>4. ASSUME NEW r \in Relation, ServerApplies(r)
      PROVE  [Ledger!Next]_Ledger!ledgerVars
  <2>1. r = <<expected, r[2]>> /\ r[2] \in Accounts /\ r[2] \in Posted
    BY <1>4 DEF ServerApplies, RunInv, Records, Relation
  <2>2. r[2] \in (Posted \ Reported) \cup Reported
    BY <2>1
  <2>3. Unfollowed' = Unfollowed \ {r[2]}
    BY <1>4, <2>1 DEF ServerApplies, Unfollowed
  <2>4. /\ verified' = verified /\ Elements(selection)' = Elements(selection)
        /\ Reported' = Reported /\ Posted' = Posted /\ pc' = pc
    BY <1>4 DEF ServerApplies, Reported, Posted, Elements
  <2> QED
    BY <2>1, <2>2, <2>3, <2>4 DEF Ledger!Next, Ledger!Lose, Unfollowed
<1> QED
  BY <1>1, <1>2, <1>3, <1>4 DEF Next

LEMMA LedgerInit == Init => Ledger!Init
<1> SUFFICES ASSUME Init PROVE Ledger!Init
  OBVIOUS
<1>1. Posted = {} /\ Reported = {}
  BY DEF Init, Posted, Reported, Elements
<1>2. selection \in Seq(Accounts)
  BY DEF Init
<1>3. Elements(selection) \subseteq Accounts
  BY <1>2 DEF Elements
<1>4. verified \in BOOLEAN /\ pc # "done"
  BY DEF Init
<1> QED
  BY <1>1, <1>3, <1>4 DEF Ledger!Init

\* The run keeps the promise of UnfollowLedger: only chosen accounts, one request
\* open at a time, reports that are true, and nothing after the end.
THEOREM LedgerIsKept == SwitchAssumption => (Spec => KeepsTheLedger)
<1> SUFFICES ASSUME SwitchAssumption PROVE Spec => KeepsTheLedger
  OBVIOUS
<1>1. RunInv /\ [Next]_vars => [Ledger!Next]_Ledger!ledgerVars
  BY LedgerStep
<1> QED
  BY <1>1, LedgerInit, Invariance, PTL DEF Spec, KeepsTheLedger, Ledger!Spec

=============================================================================
