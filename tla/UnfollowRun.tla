----------------------------- MODULE UnfollowRun -----------------------------
(***************************************************************************)
(* One call of NonFollowerCleaner.unfollow_selected, down to the requests  *)
(* its backend sends: VerifiedFriendshipBackend of apps/instagram_tools    *)
(* (two endpoints and a confirmation) or PlaywrightFriendshipBackend of    *)
(* apps/non_follower_cleaner, the standalone application (one request).    *)
(*                                                                         *)
(* Around it: the user, who may press stop at any time and log into        *)
(* another account in the same Chrome; and the server, which applies a     *)
(* request before or after it answers, or never.                           *)
(***************************************************************************)
EXTENDS Naturals, Sequences, FiniteSets

CONSTANTS
  Accounts,     \* the accounts of the reviewed list
  Viewers,      \* the Instagram accounts the user can be logged into
  NoViewer,     \* nobody is logged in
  MaxSelected,  \* bound: length of the selection handed to the run
  MaxLimit,     \* bound: max_unfollows_per_run
  SwitchPlaces  \* where the run may be when the user switches accounts

Places == {"normalize", "start", "next", "wait", "check", "request", "send",
           "sent", "confirm", "done"}

ASSUME RunAssumption ==
  /\ NoViewer \notin Viewers
  /\ MaxSelected \in Nat /\ MaxLimit \in Nat
  /\ SwitchPlaces \subseteq Places

VARIABLES
  verified,    \* the backend is the verified one
  limit,       \* max_unfollows_per_run; 0 is no limit
  selection,   \* selected_accounts
  taken,       \* how many of them _normalize_selected_accounts has seen
  targets,     \* the normalized selection
  index,       \* the loop of unfollow_selected
  expected,    \* expected_viewer_id
  pc,
  attempt,     \* the endpoint: 1 destroy, 2 the web alternative
  learned,     \* about the target since its last request left
  summary,     \* UnfollowSummary
  outcome,     \* how the call ended
  stop,        \* the stop event
  viewer,      \* the account logged in in Chrome
  following,   \* the server: who follows whom
  inFlight,    \* the server: requests neither applied nor dropped
  posts,       \* history: the requests sent
  lateStarts   \* history: how many of them left after stop was pressed

userVars == <<stop, viewer>>
serverVars == <<following, inFlight>>
history == <<posts, lateStarts>>
inputVars == <<verified, limit, selection, expected>>
vars == <<inputVars, taken, targets, index, pc, attempt, learned, summary,
          outcome, userVars, serverVars, history>>

Target == targets[index]
Elements(s) == {s[i] : i \in DOMAIN s}
Reported == Elements(summary.succeeded)
Relation == Viewers \X Accounts
Posted == {posts[i].account : i \in DOMAIN posts}

TypeOK ==
  /\ verified \in BOOLEAN /\ limit \in Nat
  /\ selection \in Seq(Accounts) /\ targets \in Seq(Accounts)
  /\ taken \in 0..Len(selection)
  /\ index \in 1..(Len(targets) + 1)
  /\ expected \in Viewers /\ viewer \in Viewers \cup {NoViewer}
  /\ pc \in Places
  /\ attempt \in {1, 2}
  /\ learned \in {"nothing", "unchanged", "refused"}
  /\ summary \in [attempted : Nat, succeeded : Seq(Accounts),
                  failed : SUBSET Accounts, deferred : Nat, stopped : BOOLEAN]
  /\ outcome \in {"none", "summary", "run_error", "raised"}
  /\ stop \in BOOLEAN
  /\ following \subseteq Relation /\ inFlight \subseteq Relation
  /\ posts \in Seq([viewer : Viewers \cup {NoViewer}, account : Accounts])
  /\ lateStarts \in Nat

Init ==
  /\ verified \in BOOLEAN /\ limit \in 0..MaxLimit
  /\ selection \in UNION {[1..n -> Accounts] : n \in 0..MaxSelected}
  /\ taken = 0 /\ targets = <<>> /\ index = 1
  /\ expected \in Viewers /\ viewer \in Viewers \cup {NoViewer}
  /\ pc = "normalize" /\ attempt = 1 /\ learned = "nothing"
  /\ summary = [attempted |-> 0, succeeded |-> <<>>, failed |-> {},
                deferred |-> 0, stopped |-> FALSE]
  /\ outcome = "none" /\ stop = FALSE
  /\ following \in SUBSET Relation /\ inFlight = {}
  /\ posts = <<>> /\ lateStarts = 0

-------------------------------------------------------------------------------
(* How the call ends.                                                        *)

End(how) == pc' = "done" /\ outcome' = how

\* The two except clauses that record the target: UnfollowRunError.
Fail ==
  /\ End("run_error")
  /\ summary' = [summary EXCEPT !.failed = @ \cup {Target}]
  /\ UNCHANGED <<attempt, learned, index>>

\* Recorded, then the stop event is looked at.
Succeed ==
  /\ summary' = [summary EXCEPT !.succeeded = Append(@, Target), !.stopped = stop]
  /\ IF stop THEN End("summary") /\ UNCHANGED index
             ELSE pc' = "next" /\ index' = index + 1 /\ UNCHANGED outcome
  /\ UNCHANGED <<attempt, learned>>

\* Mutated form: the loop over the endpoints has no end.
RetryForever(what) ==
  /\ pc' = "request" /\ attempt' = attempt + 1 /\ learned' = what
  /\ UNCHANGED <<summary, outcome, index>>

\* The loop over the two endpoints.
Retry(what) ==
  IF attempt = 1
    THEN /\ pc' = "request" /\ attempt' = 2 /\ learned' = what
         /\ UNCHANGED <<summary, outcome, index>>
    ELSE Fail

-------------------------------------------------------------------------------
(* unfollow_selected, up to the request.                                     *)

LoopOnly == UNCHANGED <<inputVars, taken, targets, userVars, serverVars, history>>

\* One step of the loop of _normalize_selected_accounts.
Normalize ==
  /\ pc = "normalize"
  /\ taken < Len(selection)
  /\ taken' = taken + 1
  /\ targets' = IF selection[taken + 1] \in Elements(targets)
                  THEN targets ELSE Append(targets, selection[taken + 1])
  /\ UNCHANGED <<inputVars, index, pc, attempt, learned, summary, outcome,
                 userVars, serverVars, history>>

Normalized ==
  /\ pc = "normalize"
  /\ taken = Len(selection)
  /\ IF targets = <<>> THEN End("summary") ELSE pc' = "start" /\ UNCHANGED outcome
  /\ UNCHANGED <<index, attempt, learned, summary>> /\ LoopOnly

\* The identity check before the loop: outside the try, so it raises as it is.
FirstCheck ==
  /\ pc = "start"
  /\ IF ~stop /\ viewer = expected THEN pc' = "next" /\ UNCHANGED outcome
                                   ELSE End("raised")
  /\ UNCHANGED <<index, attempt, learned, summary>> /\ LoopOnly

\* Mutated form: the loop runs past its end.
NoMoreTargetsOffByOne ==
  /\ pc = "next" /\ index > Len(targets) + 1
  /\ End("summary")
  /\ UNCHANGED <<index, attempt, learned, summary>> /\ LoopOnly

NoMoreTargets ==
  /\ pc = "next" /\ index > Len(targets)
  /\ End("summary")
  /\ UNCHANGED <<index, attempt, learned, summary>> /\ LoopOnly

AtLimit == limit # 0 /\ summary.attempted >= limit

LimitReached ==
  /\ pc = "next" /\ index <= Len(targets) /\ AtLimit
  /\ summary' = [summary EXCEPT !.deferred = Len(targets) - index + 1]
  /\ End("summary")
  /\ UNCHANGED <<index, attempt, learned>> /\ LoopOnly

\* The stop event seen before a target, during its delay, by viewer_id, or by
\* the backend before a request: in each case the loop is left with a summary.
StopSeen ==
  /\ stop
  /\ \/ pc \in {"wait", "check", "request"}
     \/ pc = "next" /\ index <= Len(targets) /\ ~AtLimit
  /\ summary' = [summary EXCEPT !.stopped = TRUE]
  /\ End("summary")
  /\ UNCHANGED <<index, attempt, learned>> /\ LoopOnly

ChooseDelay ==
  /\ pc = "next" /\ index <= Len(targets) /\ ~AtLimit /\ ~stop
  /\ pc' = "wait"
  /\ UNCHANGED <<index, attempt, learned, summary, outcome>> /\ LoopOnly

DelayElapsed ==
  /\ pc = "wait" /\ ~stop
  /\ pc' = "check"
  /\ UNCHANGED <<index, attempt, learned, summary, outcome>> /\ LoopOnly

\* Mutated form: the logged-in account is not compared again.
CheckViewerTrusts ==
  /\ pc = "check" /\ ~stop
  /\ summary' = [summary EXCEPT !.attempted = @ + 1]
  /\ pc' = "request" /\ attempt' = 1 /\ learned' = "nothing"
  /\ UNCHANGED <<index, outcome>> /\ LoopOnly

\* The cookie is compared with the account of the scan before every target.
CheckViewer ==
  /\ pc = "check" /\ ~stop
  /\ \/ /\ viewer = expected
        /\ summary' = [summary EXCEPT !.attempted = @ + 1]
        /\ pc' = "request" /\ attempt' = 1 /\ learned' = "nothing"
        /\ UNCHANGED <<index, outcome>>
     \/ /\ viewer \in Viewers \ {expected}
        /\ End("run_error")
        /\ UNCHANGED <<index, attempt, learned, summary>>
     \/ viewer = NoViewer /\ Fail
  /\ LoopOnly

-------------------------------------------------------------------------------
(* The backend: unfollow and its requests.                                   *)

\* The stop event and the page are in order, or an exception is raised: no
\* CSRF cookie, the tab left Instagram, Chrome is gone.
Request ==
  /\ pc = "request" /\ ~stop
  /\ \/ pc' = "send" /\ UNCHANGED <<index, attempt, learned, summary, outcome>>
     \/ Fail
  /\ LoopOnly

\* page.evaluate: the request leaves with whoever is logged in now.
Send ==
  /\ pc = "send"
  /\ pc' = "sent" /\ learned' = "nothing"
  /\ posts' = Append(posts, [viewer |-> viewer, account |-> Target])
  /\ lateStarts' = lateStarts + (IF stop THEN 1 ELSE 0)
  /\ inFlight' = inFlight \cup ({<<viewer, Target>>} \cap Relation)
  /\ UNCHANGED <<inputVars, taken, targets, index, attempt, summary, outcome,
                 userVars, following>>

\* The script finds another origin, or Chrome is gone: nothing left.
SendFails == pc = "send" /\ Fail /\ LoopOnly

\* The server states following=false.
ReplyConfirms ==
  /\ pc = "sent"
  /\ <<posts[Len(posts)].viewer, Target>> \in Relation \ following
  /\ Succeed
  /\ LoopOnly

\* Mutated form: any 2xx completes the request.
ReplySilentTrusted ==
  /\ pc = "sent"
  /\ Succeed
  /\ LoopOnly

\* 2xx whose body says nothing of the relation. The standalone backend takes a
\* body that is not JSON for a success; the engine refuses it when it is JSON.
ReplySilent ==
  /\ pc = "sent"
  /\ IF verified
       THEN pc' = "confirm" /\ UNCHANGED <<index, attempt, learned, summary, outcome>>
       ELSE Succeed \/ Fail
  /\ LoopOnly

\* Timeout, network error, or an HTTP error that is no restriction.
ReplyLost ==
  /\ pc = "sent"
  /\ IF verified
       THEN pc' = "confirm" /\ UNCHANGED <<index, attempt, learned, summary, outcome>>
       ELSE Fail
  /\ LoopOnly

\* 2xx with status=fail: the other endpoint, without a confirmation.
ReplyRefused ==
  /\ pc = "sent"
  /\ IF verified THEN Retry("refused") ELSE Fail
  /\ LoopOnly

\* Login page, restriction, redirect, unreadable result, Chrome gone.
ReplyRaises == pc = "sent" /\ Fail /\ LoopOnly

\* Mutated form: the confirmation stops like any other request.
ConfirmHonorsStop ==
  /\ pc = "confirm"
  /\ \/ /\ stop
        /\ summary' = [summary EXCEPT !.stopped = TRUE]
        /\ End("summary") /\ UNCHANGED <<index, attempt, learned>>
     \/ viewer \in Viewers /\ <<viewer, Target>> \notin following /\ Succeed
     \/ viewer \in Viewers /\ <<viewer, Target>> \in following /\ Retry("unchanged")
     \/ Fail
  /\ LoopOnly

\* Mutated form: only following=true counts as not done.
ConfirmAssumes ==
  /\ pc = "confirm"
  /\ \/ Succeed
     \/ viewer \in Viewers /\ <<viewer, Target>> \in following /\ Retry("unchanged")
  /\ LoopOnly

\* The relation is read again, whatever the stop event says; an answer that is
\* neither true nor false, or an error, raises.
Confirm ==
  /\ pc = "confirm"
  /\ \/ viewer \in Viewers /\ <<viewer, Target>> \notin following /\ Succeed
     \/ viewer \in Viewers /\ <<viewer, Target>> \in following /\ Retry("unchanged")
     \/ Fail
  /\ LoopOnly

-------------------------------------------------------------------------------
(* The user and the server.                                                  *)

runVars == <<inputVars, taken, targets, index, pc, attempt, learned, summary, outcome>>

PressStop ==
  /\ ~stop
  /\ stop' = TRUE
  /\ UNCHANGED <<runVars, viewer, serverVars, history>>

SwitchViewer ==
  /\ pc \in SwitchPlaces
  /\ viewer' \in (Viewers \cup {NoViewer}) \ {viewer}
  /\ UNCHANGED <<runVars, stop, serverVars, history>>

ServerApplies(r) ==
  /\ r \in inFlight
  /\ following' = following \ {r}
  /\ inFlight' = inFlight \ {r}
  /\ UNCHANGED <<runVars, userVars, history>>

ServerDrops(r) ==
  /\ r \in inFlight
  /\ inFlight' = inFlight \ {r}
  /\ UNCHANGED <<runVars, userVars, following, history>>

Run ==
  \/ Normalize \/ Normalized \/ FirstCheck
  \/ NoMoreTargets \/ LimitReached \/ StopSeen
  \/ ChooseDelay \/ DelayElapsed \/ CheckViewer
  \/ Request \/ Send \/ SendFails
  \/ ReplyConfirms \/ ReplySilent \/ ReplyLost \/ ReplyRefused \/ ReplyRaises
  \/ Confirm

Next ==
  \/ Run
  \/ PressStop \/ SwitchViewer
  \/ \E r \in Relation : ServerApplies(r) \/ ServerDrops(r)

Spec == Init /\ [][Next]_vars

\* The worker thread keeps running and every request has a timeout.
FairSpec == Spec /\ WF_vars(Run)

-------------------------------------------------------------------------------
(* Properties.                                                               *)

\* An account is reported as unfollowed only when the account the list was made
\* for does not follow it any more (README of non_follower_cleaner).
ReportedIsUnfollowed ==
  \A a \in Reported : <<expected, a>> \notin following

\* The verified backend keeps to that through late, lost and repeated requests.
VerifiedReportIsTrue == verified => ReportedIsUnfollowed

\* Every request leaves under the account whose list was reviewed and for an
\* account the user selected, although the user may log into another account
\* during any delay (engine.py, the comment on the identity check).
WritesAreReviewed ==
  \A i \in DOMAIN posts : /\ posts[i].viewer = expected
                          /\ posts[i].account \in Elements(selection)

\* No account is asked for more than twice, however often it is selected; the
\* standalone backend has one endpoint and never repeats a request.
AtMostTwoRequests ==
  \A a \in Accounts :
    Cardinality({i \in DOMAIN posts : posts[i].account = a}) <= IF verified THEN 2 ELSE 1

\* Once stop is pressed, at most the request that was just being issued leaves.
StopLetsOneOut == lateStarts <= 1

\* The result of a request that was sent is never lost: such a run does not end
\* with a bare exception, and a stop does not leave the result unread - the account
\* is reported, or seen unchanged, or refused by the server.
NoResultIsLost ==
  /\ outcome = "raised" => posts = <<>>
  /\ outcome = "summary" /\ summary.stopped /\ Posted # Reported
       => learned \in {"unchanged", "refused"}

\* The limit holds for the accounts asked for, and what a run that was not
\* stopped leaves out is exactly what it reports as deferred.
LimitHolds ==
  /\ limit # 0 => Cardinality(Posted) <= limit
  /\ outcome = "summary" /\ ~summary.stopped
       => Cardinality(Reported) + summary.deferred = Len(targets)

\* What the run writes and what it reports add up, through stops, duplicate
\* selections, limits and lost answers (unfollow_selected and its summary).
RunAddsUp == AtMostTwoRequests /\ StopLetsOneOut /\ NoResultIsLost /\ LimitHolds

\* The run is over at some point, with or without a stop.
Terminates == <>(pc = "done")

\* The run keeps the promise of UnfollowLedger to the account that was reviewed.
Ledger == INSTANCE UnfollowLedger WITH
  chosen <- Elements(selection),
  following <- {a \in Accounts : <<expected, a>> \in following},
  doubt <- Posted \ Reported,
  reported <- Reported,
  closed <- pc = "done"

KeepsTheLedger == Ledger!Spec
===============================================================================
