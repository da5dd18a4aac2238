------------------------------ MODULE FeedScanner ------------------------------
(***************************************************************************)
(* FollowingFeedScanner.scan_once of apps/following_auto_liker/engine.py   *)
(* over the feed that PlaywrightFollowingFeed shows it: passes over the    *)
(* articles on the page, scrolling in between, a random delay before each  *)
(* like.                                                                   *)
(*                                                                         *)
(* The page holds the articles dropped+1..loaded of the feed.  A post of a *)
(* pass is a position on the page (Locator.nth), resolved again at every   *)
(* use; its key and its exclusion reason are read once and kept.           *)
(***************************************************************************)
EXTENDS Naturals, Sequences, FiniteSets

CONSTANTS
  Posts,            \* posts, identified by their normalized key
  MaxFeed,          \* bound: articles of the feed
  MaxLimit,         \* bound: max_likes_per_cycle
  MaxScrollRounds,  \* max_scroll_rounds
  UnchangedRounds,  \* unchanged_scroll_rounds
  ShiftPlaces       \* where the scan may be when the page changes by itself

Places == {"open", "pass", "post", "delay", "click", "scroll", "done"}

ASSUME FeedAssumption ==
  /\ MaxFeed \in Nat /\ MaxLimit \in Nat
  /\ MaxScrollRounds \in Nat \ {0} /\ UnchangedRounds \in Nat \ {0}
  /\ ShiftPlaces \subseteq Places

Counter == {"discovered", "liked", "already_liked", "sponsored", "recommended",
            "unknown", "failed"}

VARIABLES
  limit,      \* max_likes_per_cycle; 0 is no limit
  kind,       \* what Instagram shows each post as
  feed,       \* the feed of Instagram, newest article first
  marker,     \* the caught-up marker is shown after this many articles; 0: never
  dropped, loaded,
  likes,      \* the posts the account likes
  restricted, \* Instagram shows a restriction
  stop,       \* the stop event
  pc,
  round,      \* pass_index
  batch,      \* keys read for this pass, by position
  sawMarker,  \* caught_up_visible of this pass
  i,          \* position of the pass
  newly,      \* newly_discovered
  stalled,    \* stalled_rounds
  seen,       \* seen_keys
  summary,    \* the counters of ScanSummary
  outcome,    \* how the scan ended
  clicks,     \* history: the posts clicked, in order
  shifted     \* history: the page changed under the scan

pageVars == <<limit, kind, feed, marker, dropped, loaded>>
worldVars == <<pageVars, likes, restricted, stop>>
passVars == <<round, batch, sawMarker, i, newly, stalled>>
vars == <<worldVars, pc, passVars, seen, summary, outcome, clicks, shifted>>

Excluded == {p \in Posts : kind[p] # "organic"}
Elements(s) == {s[n] : n \in DOMAIN s}
MarkerShown == marker \in (dropped + 1)..loaded
OnPage(position) == dropped + position <= loaded
At(position) == feed[dropped + position]

TypeOK ==
  /\ limit \in Nat /\ kind \in [Posts -> {"organic", "sponsored", "recommended"}]
  /\ feed \in Seq(Posts) /\ marker \in 0..Len(feed)
  /\ loaded \in 0..Len(feed) /\ dropped \in 0..loaded
  /\ likes \subseteq Posts /\ seen \subseteq Posts /\ batch \in Seq(Posts)
  /\ restricted \in BOOLEAN /\ stop \in BOOLEAN /\ shifted \in BOOLEAN
  /\ sawMarker \in BOOLEAN
  /\ pc \in Places
  /\ round \in 0..MaxScrollRounds /\ stalled \in 0..UnchangedRounds
  /\ i \in 1..(Len(batch) + 1) /\ newly \in 0..Len(batch)
  /\ summary \in [Counter -> Nat]
  /\ outcome \in {"none", "stopped", "limit", "caught_up", "rounds", "stalled",
                  "restricted", "raised"}
  /\ clicks \in Seq([post : Posts, late : BOOLEAN, warned : BOOLEAN])

Init ==
  /\ limit \in 0..MaxLimit
  /\ kind \in [Posts -> {"organic", "sponsored", "recommended"}]
  /\ feed \in UNION {[1..n -> Posts] : n \in 0..MaxFeed}
  /\ marker \in 0..Len(feed)
  /\ dropped = 0 /\ loaded \in 0..Len(feed)
  /\ likes \in SUBSET Posts
  /\ restricted = FALSE /\ stop = FALSE
  /\ pc = "open"
  /\ round = 0 /\ batch = <<>> /\ sawMarker = FALSE /\ i = 1 /\ newly = 0
  /\ stalled = 0 /\ seen = {}
  /\ summary = [c \in Counter |-> 0]
  /\ outcome = "none" /\ clicks = <<>> /\ shifted = FALSE

-------------------------------------------------------------------------------
Done(how) == pc' = "done" /\ outcome' = how

Goto(place) == pc' = place /\ UNCHANGED outcome

Count(c) == summary' = [summary EXCEPT ![c] = @ + 1]

Quiet == UNCHANGED <<worldVars, clicks, shifted>>

\* _raise_if_restricted, then on.
UnlessRestricted(place) == IF restricted THEN Done("restricted") ELSE Goto(place)

\* Any call into the page may find Chrome closed, the login lost or the page
\* gone: the exception leaves the scan.
Raises ==
  /\ pc \notin {"done", "delay"}
  /\ Done("raised")
  /\ UNCHANGED <<passVars, seen, summary>> /\ Quiet

Open ==
  /\ pc = "open"
  /\ UnlessRestricted("pass")
  /\ UNCHANGED <<passVars, seen, summary>> /\ Quiet

\* The stop event at the head of a pass and of each post, and in the delay.
StopSeen ==
  /\ stop
  /\ pc \in {"pass", "delay"} \/ (pc = "post" /\ i <= Len(batch))
  /\ Done("stopped")
  /\ UNCHANGED <<passVars, seen, summary>> /\ Quiet

\* posts_before_caught_up.
PassStarts ==
  /\ pc = "pass" /\ ~stop
  /\ batch' = SubSeq(feed, dropped + 1, IF MarkerShown THEN marker ELSE loaded)
  /\ sawMarker' = MarkerShown
  /\ i' = 1 /\ newly' = 0
  /\ Goto("post")
  /\ UNCHANGED <<round, stalled, seen, summary>> /\ Quiet

\* Mutated form: continue before the position is advanced.
SkipSeenStays ==
  /\ pc = "post" /\ ~stop /\ i <= Len(batch)
  /\ batch[i] \in seen
  /\ Goto("post")
  /\ UNCHANGED <<passVars, seen, summary>> /\ Quiet

SkipSeen ==
  /\ pc = "post" /\ ~stop /\ i <= Len(batch)
  /\ batch[i] \in seen
  /\ i' = i + 1 /\ Goto("post")
  /\ UNCHANGED <<round, batch, sawMarker, newly, stalled, seen, summary>> /\ Quiet

Discover(counters) ==
  /\ seen' = seen \cup {batch[i]}
  /\ newly' = newly + 1
  /\ summary' = [c \in Counter |->
                   summary[c] + (IF c \in counters \cup {"discovered"} THEN 1 ELSE 0)]
  /\ UNCHANGED <<round, batch, sawMarker, stalled>> /\ Quiet

Unseen == pc = "post" /\ ~stop /\ i <= Len(batch) /\ batch[i] \notin seen

NewPost == Unseen /\ OnPage(i)

\* The page has no article at the position any more: the locator times out and
\* the exception leaves the scan.
Vanished ==
  /\ Unseen /\ ~OnPage(i)
  /\ Done("raised")
  /\ UNCHANGED <<passVars, seen, summary>> /\ Quiet

\* Advertisement, recommendation, liked already, or no like control to be seen.
Exclude ==
  /\ NewPost
  /\ \/ At(i) \in Excluded /\ Discover({kind[At(i)]})
     \/ At(i) \in likes \ Excluded /\ Discover({"already_liked"})
     \/ At(i) \notin Excluded /\ Discover({"unknown"})
  /\ i' = i + 1 /\ Goto("post")

AtLimit == limit # 0 /\ summary["liked"] >= limit

\* An organic post that is not liked: the limit, then the delay.
Take ==
  /\ NewPost
  /\ At(i) \notin Excluded \cup likes
  /\ Discover({})
  /\ IF AtLimit THEN Done("limit") ELSE Goto("delay")
  /\ UNCHANGED i

DelayElapsed ==
  /\ pc = "delay" /\ ~stop
  /\ Goto("click")
  /\ UNCHANGED <<passVars, seen, summary>> /\ Quiet

\* What a click on the article at the position does: nothing when it has no like
\* control any more, otherwise Instagram takes it or not.
Clicked(effect) ==
  IF OnPage(i) /\ At(i) \notin likes
    THEN /\ likes' = IF effect THEN likes \cup {At(i)} ELSE likes
         /\ clicks' = Append(clicks, [post |-> At(i), late |-> stop, warned |-> restricted])
    ELSE UNCHANGED <<likes, clicks>>

AfterClick == UNCHANGED <<pageVars, restricted, stop, shifted, round, batch, sawMarker,
                          newly, stalled, seen>>

\* click_like sees the liked state: counted, on_like.
LikeSucceeds ==
  /\ pc = "click" /\ OnPage(i)
  /\ Clicked(TRUE)
  /\ Count("liked")
  /\ i' = i + 1 /\ UnlessRestricted("post")
  /\ AfterClick

\* Mutated form: a failed like does not look at the restriction.
LikeFailsUnwarned ==
  /\ pc = "click"
  /\ \E effect \in BOOLEAN : Clicked(effect)
  /\ Count("failed") /\ Goto("post") /\ i' = i + 1
  /\ AfterClick

\* Mutated form: a like that fails is not counted.
LikeFailsUncounted ==
  /\ pc = "click"
  /\ \E effect \in BOOLEAN : Clicked(effect)
  /\ UnlessRestricted("post") /\ i' = i + 1
  /\ UNCHANGED summary
  /\ AfterClick

\* The click times out, or the liked state does not show within three seconds:
\* the restriction is looked at first, then the failure is counted.
LikeFails ==
  /\ pc = "click"
  /\ \E effect \in BOOLEAN : Clicked(effect)
  /\ IF restricted THEN UNCHANGED summary ELSE Count("failed")
  /\ UnlessRestricted("post") /\ i' = i + 1
  /\ AfterClick

\* Mutated form: one pass more than there are scrolls.
LastPassLate == round > MaxScrollRounds

LastPass == round >= MaxScrollRounds

\* The for loop over the batch is over: caught up, the last pass, or scroll.
PassEnds ==
  /\ pc = "post" /\ i > Len(batch)
  /\ IF sawMarker \/ MarkerShown THEN Done("caught_up")
     ELSE IF LastPass THEN Done("rounds")
     ELSE Goto("scroll")
  /\ UNCHANGED <<passVars, seen, summary>> /\ Quiet

NextStalled(moved) == IF newly = 0 /\ ~moved THEN stalled + 1 ELSE 0

\* scroll_for_more: older articles are loaded and the oldest ones shown may be
\* dropped; then stalled_rounds and the restriction.
Scroll ==
  /\ pc = "scroll"
  /\ \E more \in loaded..Len(feed), gone \in dropped..loaded, moved \in BOOLEAN :
       /\ more > loaded => moved
       /\ loaded' = more /\ dropped' = gone
       /\ stalled' = NextStalled(moved)
       /\ IF stalled' >= UnchangedRounds THEN Done("stalled")
          ELSE UnlessRestricted("pass")
  /\ round' = round + 1
  /\ UNCHANGED <<limit, kind, feed, marker, likes, restricted, stop, batch, sawMarker, i, newly,
                 seen, summary, clicks, shifted>>

-------------------------------------------------------------------------------
(* The page and the user, until the scan is over.                            *)

scanVars == <<pc, passVars, seen, summary, outcome, clicks>>

PressStop ==
  /\ pc # "done" /\ ~stop /\ stop' = TRUE
  /\ UNCHANGED <<pageVars, likes, restricted, scanVars, shifted>>

RestrictionShows ==
  /\ pc # "done" /\ ~restricted /\ restricted' = TRUE
  /\ UNCHANGED <<pageVars, likes, stop, scanVars, shifted>>

\* Instagram re-renders its list, once in a scan (a bound): articles above or
\* below come and go.
PageShifts ==
  /\ pc \in ShiftPlaces /\ ~shifted
  /\ \E more \in 0..Len(feed), gone \in 0..Len(feed) :
       /\ gone <= more /\ <<gone, more>> # <<dropped, loaded>>
       /\ loaded' = more /\ dropped' = gone
  /\ shifted' = TRUE
  /\ UNCHANGED <<limit, kind, feed, marker, likes, restricted, stop, scanVars>>

Scan ==
  \/ Open \/ StopSeen \/ PassStarts
  \/ SkipSeen \/ Vanished \/ Exclude \/ Take \/ DelayElapsed
  \/ LikeSucceeds \/ LikeFails
  \/ PassEnds \/ Scroll

Next == Scan \/ Raises \/ PressStop \/ RestrictionShows \/ PageShifts

Spec == Init /\ [][Next]_vars

\* The worker thread keeps running; the delay and every call into the page end
\* (nothing says that one of them raises).
FairSpec == Spec /\ WF_vars(Scan)

-------------------------------------------------------------------------------
(* Properties.                                                               *)

\* Advertisements and recommendations are never liked (README of
\* following_auto_liker, step 4).
OnlyOrganicIsClicked ==
  \A n \in DOMAIN clicks : clicks[n].post \notin Excluded

\* As long as the page holds still during the delays, that is so, nothing below
\* the caught-up marker is liked either, and no post is clicked twice, whether
\* its click failed or it is on the page again in a later pass.
ClicksAreRight ==
  ~shifted =>
    /\ OnlyOrganicIsClicked
    /\ \A n \in DOMAIN clicks :
         marker # 0 => clicks[n].post \in Elements(SubSeq(feed, 1, marker))
    /\ \A m, n \in DOMAIN clicks : clicks[m].post = clicks[n].post => m = n

\* Once the restriction shows, and once stop is pressed, at most the click that
\* was already on its way happens.
NoClickAfterWarning ==
  /\ Cardinality({n \in DOMAIN clicks : clicks[n].warned}) <= 1
  /\ Cardinality({n \in DOMAIN clicks : clicks[n].late}) <= 1

\* Every click is one that should have been made, at the moment it was made.
EveryClickIsDue == ClicksAreRight /\ NoClickAfterWarning

\* Every discovered post is accounted for, apart from the one in hand, and the
\* limit holds for the likes counted.
SummaryAddsUp ==
  LET sorted == summary["liked"] + summary["already_liked"] + summary["sponsored"]
                + summary["recommended"] + summary["unknown"] + summary["failed"]
  IN /\ summary["discovered"] = Cardinality(seen)
     /\ summary["discovered"] - sorted \in {0, 1}
     /\ outcome \in {"caught_up", "rounds", "stalled"} => summary["discovered"] = sorted
     /\ limit # 0 => summary["liked"] <= limit

\* A scan that reports to be caught up, with nothing failed or unknown, has
\* liked every organic post that was on the page above the marker.
CaughtUpMeansLiked ==
  outcome = "caught_up" /\ ~shifted /\ summary["failed"] + summary["unknown"] = 0
    => \A n \in (dropped + 1)..marker : feed[n] \in likes \cup Excluded

\* The summary of a scan tells what has happened on the page.
SummaryIsTrue == SummaryAddsUp /\ CaughtUpMeansLiked

\* A feed that never ends, moves or catches up still ends the scan.
Terminates == <>(pc = "done")
===============================================================================
