--------------------------- MODULE FeedScannerProofs ---------------------------
(***************************************************************************)
(* Theorems about a scan of the following feed, for feeds and limits of    *)
(* any size, any number of scrolls, and a page that changes anywhere.      *)
(***************************************************************************)
EXTENDS FeedScanner, FiniteSetTheorems, SequenceTheorems, TLAPS

-------------------------------------------------------------------------------
(* Positions of the page, and the counters.                                  *)

Click == [post : Posts, late : BOOLEAN, warned : BOOLEAN]

\* The articles a pass reads: down to the caught-up marker, or to the last one.
LastRead == IF MarkerShown THEN marker ELSE loaded

LEMMA PlaceFacts ==
  ASSUME TypeOK
  PROVE  /\ dropped \in Nat /\ loaded \in Nat /\ marker \in Nat /\ Len(feed) \in Nat
         /\ Len(batch) \in Nat /\ i \in Nat /\ i >= 1 /\ i <= Len(batch) + 1
         /\ LastRead \in Nat /\ LastRead <= loaded
         /\ loaded <= Len(feed) /\ dropped <= loaded
         /\ \A n \in 1..Len(batch) : batch[n] \in Posts
         /\ \A n \in 1..Len(feed) : feed[n] \in Posts
<1>1. /\ loaded \in 0..Len(feed) /\ dropped \in 0..loaded
      /\ feed \in Seq(Posts) /\ batch \in Seq(Posts) /\ marker \in 0..Len(feed)
      /\ i \in 1..(Len(batch) + 1)
  BY DEF TypeOK
<1>2. Len(feed) \in Nat /\ Len(batch) \in Nat
  BY <1>1
<1> QED
  BY <1>1, <1>2, ElementOfSeq DEF LastRead, MarkerShown

\* A position of the page that still has an article has a post.
LEMMA AtIsAPost ==
  ASSUME TypeOK, OnPage(i)
  PROVE  At(i) \in Posts
<1>1. dropped + i \in 1..Len(feed)
  BY PlaceFacts DEF OnPage
<1> QED
  BY <1>1, PlaceFacts DEF At

\* What a pass reads are the articles of the page, in their order.
LEMMA BatchFacts ==
  ASSUME TypeOK, NEW s, s = SubSeq(feed, dropped + 1, LastRead)
  PROVE  /\ s \in Seq(Posts)
         /\ \A n \in 1..Len(s) : s[n] = feed[dropped + n] /\ dropped + n <= LastRead
         /\ \A n \in (dropped + 1)..LastRead : n - dropped \in 1..Len(s) /\ s[n - dropped] = feed[n]
<1>1. dropped + 1 \in Int /\ LastRead \in Int /\ \A n \in (dropped + 1)..LastRead : feed[n] \in Posts
  BY PlaceFacts
<1>2. /\ s \in Seq(Posts)
      /\ Len(s) = (IF dropped + 1 <= LastRead THEN LastRead - (dropped + 1) + 1 ELSE 0)
      /\ \A n \in 1..(LastRead - (dropped + 1) + 1) : s[n] = feed[(dropped + 1) + n - 1]
  BY <1>1, SubSeqProperties
<1>3. dropped \in Nat /\ LastRead \in Nat
  BY PlaceFacts
<1>4. ASSUME NEW n \in 1..Len(s)
      PROVE  s[n] = feed[dropped + n] /\ dropped + n <= LastRead
  <2>1. n \in 1..(LastRead - (dropped + 1) + 1) /\ (dropped + 1) + n - 1 = dropped + n
    BY <1>2, <1>3
  <2> QED
    BY <1>2, <1>3, <2>1
<1>5. ASSUME NEW n \in (dropped + 1)..LastRead
      PROVE  n - dropped \in 1..Len(s) /\ s[n - dropped] = feed[n]
  <2>1. n - dropped \in 1..Len(s)
    BY <1>2, <1>3
  <2>2. dropped + (n - dropped) = n
    BY <1>3
  <2> QED
    BY <1>4, <2>1, <2>2
<1> QED
  BY <1>2, <1>4, <1>5

\* The counters a discovered post ends in, at once or after its like.
Sorted == summary["liked"] + summary["already_liked"] + summary["sponsored"]
          + summary["recommended"] + summary["unknown"] + summary["failed"]

LEMMA CounterFacts ==
  ASSUME summary \in [Counter -> Nat]
  PROVE  /\ \A c \in Counter : summary[c] \in Nat
         /\ Sorted \in Nat
BY DEF Counter, Sorted

LEMMA DiscoverCounts ==
  ASSUME TypeOK, NEW S \in SUBSET Counter, Discover(S)
  PROVE  /\ summary' \in [Counter -> Nat]
         /\ \A c \in Counter : summary'[c] = summary[c] + (IF c \in S \cup {"discovered"} THEN 1 ELSE 0)
<1>1. \A c \in Counter : summary[c] \in Nat
  BY CounterFacts DEF TypeOK
<1> QED
  BY <1>1 DEF Discover

\* Discovered, and nothing else yet: a post in hand.
LEMMA TakenInHand ==
  ASSUME TypeOK, Discover({})
  PROVE  /\ Sorted' = Sorted /\ summary'["discovered"] = summary["discovered"] + 1
         /\ \A c \in Counter \ {"discovered"} : summary'[c] = summary[c]
<1>1. \A d \in Counter : summary'[d] = summary[d] + (IF d \in {} \cup {"discovered"} THEN 1 ELSE 0)
  BY DiscoverCounts
<1>2. \A d \in Counter : summary[d] \in Nat
  BY CounterFacts DEF TypeOK
<1> QED
  BY <1>1, <1>2 DEF Sorted, Counter

\* Discovered and sorted at once.
LEMMA SortedAtOnce ==
  ASSUME TypeOK, NEW c \in {"already_liked", "sponsored", "recommended", "unknown"}, Discover({c})
  PROVE  /\ Sorted' = Sorted + 1 /\ summary'["discovered"] = summary["discovered"] + 1
         /\ \A d \in Counter \ {"discovered", c} : summary'[d] = summary[d]
         /\ summary'[c] = summary[c] + 1
<1>1. \A d \in Counter : summary'[d] = summary[d] + (IF d \in {c, "discovered"} THEN 1 ELSE 0)
  BY DiscoverCounts DEF Counter
<1>2. \A d \in Counter : summary[d] \in Nat
  BY CounterFacts DEF TypeOK
<1> QED
  BY <1>1, <1>2 DEF Sorted, Counter

\* The post in hand is liked, or its like has failed.
LEMMA SortedInTheEnd ==
  ASSUME TypeOK, NEW c \in {"liked", "failed"}, Count(c)
  PROVE  /\ summary' \in [Counter -> Nat]
         /\ Sorted' = Sorted + 1 /\ summary'[c] = summary[c] + 1
         /\ \A d \in Counter \ {c} : summary'[d] = summary[d]
<1>1. \A d \in Counter : summary[d] \in Nat
  BY CounterFacts DEF TypeOK
<1>2. c \in Counter /\ summary' = [summary EXCEPT ![c] = @ + 1] /\ summary \in [Counter -> Nat]
  BY DEF Counter, Count, TypeOK
<1>3. \A d \in Counter : summary'[d] = IF d = c THEN summary[d] + 1 ELSE summary[d]
  BY <1>2
<1>4. summary' \in [Counter -> Nat]
  BY <1>1, <1>2
<1> QED
  BY <1>1, <1>3, <1>4 DEF Sorted, Counter

-------------------------------------------------------------------------------
(* Where a scan stands.                                                      *)

InHand == pc \in {"delay", "click"}
Outcomes == {"none", "stopped", "limit", "caught_up", "rounds", "stalled", "restricted", "raised"}

WorldOK ==
  /\ limit \in Nat /\ kind \in [Posts -> {"organic", "sponsored", "recommended"}]
  /\ feed \in Seq(Posts) /\ marker \in 0..Len(feed)
  /\ loaded \in 0..Len(feed) /\ dropped \in 0..loaded
  /\ likes \subseteq Posts /\ restricted \in BOOLEAN /\ stop \in BOOLEAN /\ shifted \in BOOLEAN

PassOK ==
  /\ batch \in Seq(Posts) /\ sawMarker \in BOOLEAN
  /\ round \in 0..MaxScrollRounds /\ stalled \in 0..UnchangedRounds
  /\ i \in 1..(Len(batch) + 1) /\ newly \in 0..Len(batch)

RecordOK ==
  /\ pc \in Places /\ outcome \in Outcomes
  /\ seen \subseteq Posts /\ summary \in [Counter -> Nat] /\ clicks \in Seq(Click)

\* The post in hand is one of the pass, what the pass discovered lies behind it, and a
\* scan scrolls only while it has rounds left and is not stalled.
Standing ==
  /\ pc = "done" <=> outcome # "none"
  /\ InHand => i <= Len(batch)
  /\ pc # "done" => newly < i + (IF InHand THEN 1 ELSE 0)
  /\ pc = "scroll" => round < MaxScrollRounds
  /\ pc # "done" => stalled < UnchangedRounds

PlaceInv == TypeOK /\ Standing

LEMMA TypeParts == TypeOK <=> WorldOK /\ PassOK /\ RecordOK
BY DEF TypeOK, WorldOK, PassOK, RecordOK, Click, Outcomes

LEMMA BoundFacts ==
  /\ MaxScrollRounds \in Nat /\ MaxScrollRounds >= 1
  /\ UnchangedRounds \in Nat /\ UnchangedRounds >= 1
  /\ ShiftPlaces \subseteq Places
BY FeedAssumption

LEMMA PlaceInit == Init => PlaceInv
<1> SUFFICES ASSUME Init PROVE PlaceInv
  OBVIOUS
<1>1. <<>> \in Seq(Posts) /\ <<>> \in Seq(Click) /\ Len(<<>>) = 0
  OBVIOUS
<1>2. feed \in Seq(Posts)
  <2>1. PICK n \in 0..MaxFeed : feed \in [1..n -> Posts]
    BY DEF Init
  <2>2. n \in Nat
    BY <2>1, FeedAssumption
  <2> QED
    BY <2>1, <2>2, SeqDef
<1>3. Len(feed) \in Nat
  BY <1>2
<1>4. WorldOK
  <2>1. limit \in Nat
    BY FeedAssumption DEF Init
  <2>2. loaded \in 0..Len(feed) /\ dropped \in 0..loaded
    BY <1>3 DEF Init
  <2> QED
    BY <1>2, <2>1, <2>2 DEF Init, WorldOK
<1>5. PassOK
  <2>1. 0 \in 0..MaxScrollRounds /\ 0 \in 0..UnchangedRounds
    BY BoundFacts
  <2>2. batch = <<>> /\ i = 1 /\ newly = 0
    BY DEF Init
  <2>3. batch \in Seq(Posts) /\ i \in 1..(Len(batch) + 1) /\ newly \in 0..Len(batch)
    BY <1>1, <2>2
  <2> QED
    BY <2>1, <2>3 DEF Init, PassOK
<1>6. RecordOK
  BY <1>1 DEF Init, RecordOK, Places, Outcomes
<1>7. Standing
  BY BoundFacts DEF Init, Standing, InHand
<1> QED
  BY <1>4, <1>5, <1>6, <1>7, TypeParts DEF PlaceInv

\* A click that is recorded is one of the page.
LEMMA ClickedTyped ==
  ASSUME TypeOK, NEW effect \in BOOLEAN, Clicked(effect)
  PROVE  likes' \subseteq Posts /\ likes \subseteq likes' /\ clicks' \in Seq(Click)
<1>1. CASE OnPage(i) /\ At(i) \notin likes
  <2>1. At(i) \in Posts
    BY <1>1, AtIsAPost
  <2>2. [post |-> At(i), late |-> stop, warned |-> restricted] \in Click
    BY <2>1 DEF TypeOK, Click
  <2>3. clicks \in Seq(Click)
    BY DEF TypeOK, Click
  <2>4. clicks' \in Seq(Click)
    BY <1>1, <2>2, <2>3 DEF Clicked
  <2> QED
    BY <1>1, <2>1, <2>4 DEF Clicked, TypeOK
<1>2. CASE ~(OnPage(i) /\ At(i) \notin likes)
  BY <1>2 DEF Clicked, TypeOK, Click
<1> QED
  BY <1>1, <1>2

LEMMA DiscoverTyped ==
  ASSUME PlaceInv, NewPost, NEW S \in SUBSET Counter, Discover(S)
  PROVE  /\ WorldOK' /\ seen' \subseteq Posts /\ summary' \in [Counter -> Nat] /\ clicks' = clicks
         /\ newly' = newly + 1 /\ newly' <= i /\ newly' \in 0..Len(batch)
<1>1. TypeOK /\ Standing /\ WorldOK /\ PassOK
  BY TypeParts DEF PlaceInv
<1>2. pc = "post" /\ i <= Len(batch) /\ batch[i] \in Posts
  BY <1>1, PlaceFacts DEF NewPost, Unseen
<1>3. newly' = newly + 1 /\ newly < i /\ newly \in Nat /\ i \in Nat /\ Len(batch) \in Nat
  BY <1>1, <1>2, PlaceFacts DEF Discover, Standing, InHand, PassOK
<1>4. summary' \in [Counter -> Nat]
  BY <1>1, DiscoverCounts
<1>5. WorldOK'
  BY <1>1 DEF Discover, Quiet, worldVars, pageVars, WorldOK
<1> QED
  BY <1>1, <1>2, <1>3, <1>4, <1>5 DEF Discover, Quiet, TypeOK

\* A step that ends the scan, or moves it on, and does nothing else.
LEMMA OnlyMoves ==
  ASSUME PlaceInv, UNCHANGED <<passVars, seen, summary>>, Quiet
  PROVE  /\ WorldOK' /\ PassOK'
         /\ pc' \in Places /\ outcome' \in Outcomes => RecordOK'
BY TypeParts DEF PlaceInv, Quiet, worldVars, pageVars, passVars, WorldOK, PassOK, RecordOK

LEMMA PlaceKept == PlaceInv /\ [Next]_vars => PlaceInv'
<1> SUFFICES ASSUME PlaceInv, [Next]_vars PROVE (WorldOK /\ PassOK /\ RecordOK /\ Standing)'
  BY TypeParts, PTL DEF PlaceInv
<1>t. TypeOK /\ WorldOK /\ PassOK /\ RecordOK /\ Standing
  BY TypeParts DEF PlaceInv
<1>n. /\ newly \in Nat /\ i \in Nat /\ i >= 1 /\ Len(batch) \in Nat /\ i <= Len(batch) + 1
      /\ round \in Nat /\ stalled \in Nat /\ newly <= Len(batch)
  BY <1>t, PlaceFacts DEF PassOK
<1> USE DEF worldVars, pageVars, passVars, Goto, Done, UnlessRestricted
<1>1. CASE Raises
  BY <1>1, <1>t, OnlyMoves DEF Raises, RecordOK, Outcomes, Places, Standing, InHand
<1>2. CASE Open
  BY <1>2, <1>t, OnlyMoves DEF Open, RecordOK, Outcomes, Places, Standing, InHand
<1>3. CASE StopSeen
  BY <1>3, <1>t, OnlyMoves DEF StopSeen, RecordOK, Outcomes, Places, Standing, InHand
<1>4. CASE PassStarts
  <2>1. batch' \in Seq(Posts) /\ Len(batch') \in Nat
    <3>1. batch' = SubSeq(feed, dropped + 1, LastRead)
      BY <1>4 DEF PassStarts, LastRead
    <3>2. batch' \in Seq(Posts)
      BY <1>t, <3>1, BatchFacts
    <3> QED
      BY <3>2
  <2>2. WorldOK'
    BY <1>4, <1>t DEF PassStarts, Quiet, WorldOK
  <2>3. PassOK'
    BY <1>4, <1>t, <2>1 DEF PassStarts, PassOK, MarkerShown
  <2>4. RecordOK' /\ Standing'
    BY <1>4, <1>t DEF PassStarts, Quiet, RecordOK, Outcomes, Places, Standing, InHand
  <2> QED
    BY <2>2, <2>3, <2>4
<1>5. CASE SkipSeen
  <2>1. WorldOK' /\ RecordOK'
    BY <1>5, <1>t DEF SkipSeen, Quiet, WorldOK, RecordOK
  <2>2. PassOK'
    BY <1>5, <1>t, <1>n DEF SkipSeen, PassOK
  <2>3. Standing'
    BY <1>5, <1>t, <1>n DEF SkipSeen, Standing, InHand
  <2> QED
    BY <2>1, <2>2, <2>3
<1>6. CASE Vanished
  BY <1>6, <1>t, OnlyMoves DEF Vanished, Unseen, RecordOK, Outcomes, Places, Standing, InHand
<1>7. CASE Exclude
  <2>1. PICK S \in SUBSET Counter : Discover(S)
    <3>1. CASE At(i) \in Excluded /\ Discover({kind[At(i)]})
      <4>1. kind[At(i)] \in Counter
        BY <1>t, <3>1 DEF WorldOK, Excluded, Counter
      <4> QED
        BY <3>1, <4>1
    <3> QED
      BY <1>7, <3>1 DEF Exclude, Counter
  <2>2. NewPost /\ pc = "post" /\ i <= Len(batch)
    BY <1>7 DEF Exclude, NewPost, Unseen
  <2>3. /\ WorldOK' /\ seen' \subseteq Posts /\ summary' \in [Counter -> Nat] /\ clicks' = clicks
        /\ newly' <= i /\ newly' \in 0..Len(batch)
    BY <2>1, <2>2, DiscoverTyped
  <2>4. UNCHANGED <<round, batch, sawMarker, stalled, outcome>> /\ i' = i + 1 /\ pc' = "post"
    BY <1>7, <2>1 DEF Exclude, Discover
  <2>5. RecordOK'
    BY <1>t, <2>3, <2>4 DEF RecordOK, Places
  <2>6. PassOK'
    BY <1>t, <1>n, <2>2, <2>3, <2>4 DEF PassOK
  <2>7. Standing'
    BY <1>t, <1>n, <2>2, <2>3, <2>4 DEF Standing, InHand
  <2> QED
    BY <2>3, <2>5, <2>6, <2>7
<1>8. CASE Take
  <2>1. Discover({}) /\ {} \in SUBSET Counter
    BY <1>8 DEF Take
  <2>2. NewPost /\ pc = "post" /\ i <= Len(batch)
    BY <1>8 DEF Take, NewPost, Unseen
  <2>3. /\ WorldOK' /\ seen' \subseteq Posts /\ summary' \in [Counter -> Nat] /\ clicks' = clicks
        /\ newly' <= i /\ newly' \in 0..Len(batch)
    BY <2>1, <2>2, DiscoverTyped
  <2>4. UNCHANGED <<round, batch, sawMarker, stalled, i>>
    BY <1>8, <2>1 DEF Take, Discover
  <2>5. RecordOK'
    BY <1>8, <1>t, <2>3 DEF Take, RecordOK, Places, Outcomes
  <2>6. PassOK'
    BY <1>t, <2>3, <2>4 DEF PassOK
  <2>7. Standing'
    BY <1>8, <1>t, <1>n, <2>2, <2>3, <2>4 DEF Take, Standing, InHand
  <2> QED
    BY <2>3, <2>5, <2>6, <2>7
<1>9. CASE DelayElapsed
  <2>1. Standing'
    BY <1>9, <1>t, <1>n DEF DelayElapsed, Standing, InHand
  <2> QED
    BY <1>9, <1>t, <2>1, OnlyMoves DEF DelayElapsed, RecordOK, Outcomes, Places
<1>10. CASE LikeSucceeds \/ LikeFails
  <2>1. PICK effect \in BOOLEAN : Clicked(effect)
    BY <1>10 DEF LikeSucceeds, LikeFails
  <2>2. summary' \in [Counter -> Nat]
    BY <1>10, <1>t, SortedInTheEnd DEF LikeSucceeds, LikeFails, RecordOK
  <2>3. /\ UNCHANGED <<pageVars, restricted, stop, shifted, round, batch, sawMarker, newly, stalled, seen>>
        /\ i' = i + 1 /\ pc = "click" /\ i <= Len(batch)
    BY <1>10, <1>t DEF LikeSucceeds, LikeFails, AfterClick, Standing, InHand
  <2>4. \/ pc' = "done" /\ outcome' = "restricted"
        \/ pc' = "post" /\ outcome' = outcome
    BY <1>10 DEF LikeSucceeds, LikeFails
  <2>5. WorldOK'
    BY <1>t, <2>1, <2>3, ClickedTyped DEF WorldOK
  <2>6. PassOK'
    BY <1>t, <1>n, <2>3 DEF PassOK
  <2>7. RecordOK'
    BY <1>t, <2>1, <2>2, <2>3, <2>4, ClickedTyped DEF RecordOK, Places, Outcomes
  <2>8. Standing'
    BY <1>t, <1>n, <2>3, <2>4 DEF Standing, InHand
  <2> QED
    BY <2>5, <2>6, <2>7, <2>8
<1>11. CASE PassEnds
  <2>1. Standing'
    BY <1>11, <1>t, <1>n, BoundFacts DEF PassEnds, LastPass, Standing, InHand
  <2> QED
    BY <1>11, <1>t, <2>1, OnlyMoves DEF PassEnds, RecordOK, Outcomes, Places
<1>12. CASE Scroll
  <2>1. PICK more \in loaded..Len(feed), gone \in dropped..loaded, moved \in BOOLEAN :
          /\ loaded' = more /\ dropped' = gone
          /\ stalled' = NextStalled(moved)
    BY <1>12 DEF Scroll
  <2>2. /\ stalled' \in 0..UnchangedRounds /\ round' \in 0..MaxScrollRounds
        /\ (pc' # "done" => stalled' < UnchangedRounds)
    BY <1>12, <1>t, <1>n, <2>1, BoundFacts DEF Scroll, NextStalled, Standing
  <2>3. WorldOK'
    BY <1>12, <1>t, <2>1, PlaceFacts DEF Scroll, WorldOK
  <2>4. PassOK'
    BY <1>12, <1>t, <2>2 DEF Scroll, PassOK
  <2>5. RecordOK' /\ Standing'
    BY <1>12, <1>t, <2>2 DEF Scroll, RecordOK, Outcomes, Places, Standing, InHand
  <2> QED
    BY <2>3, <2>4, <2>5
<1>13. CASE PressStop \/ RestrictionShows
  <2>1. UNCHANGED <<pageVars, likes, scanVars, shifted>> /\ stop' \in BOOLEAN /\ restricted' \in BOOLEAN
    BY <1>13, <1>t DEF PressStop, RestrictionShows, WorldOK
  <2>2. WorldOK'
    BY <1>t, <2>1 DEF WorldOK
  <2>3. PassOK' /\ RecordOK'
    BY <1>t, <2>1 DEF scanVars, PassOK, RecordOK
  <2>4. Standing'
    BY <1>t, <2>1 DEF scanVars, Standing, InHand
  <2> QED
    BY <2>2, <2>3, <2>4
<1>14. CASE PageShifts
  <2>1. WorldOK'
    BY <1>14, <1>t, PlaceFacts DEF PageShifts, WorldOK
  <2> QED
    BY <1>14, <1>t, <2>1 DEF PageShifts, scanVars, PassOK, RecordOK, Standing, InHand
<1>15. CASE UNCHANGED vars
  BY <1>15, <1>t DEF vars, WorldOK, PassOK, RecordOK, Standing, InHand
<1> HIDE DEF worldVars, pageVars, passVars, Goto, Done, UnlessRestricted
<1> QED
  BY <1>1, <1>2, <1>3, <1>4, <1>5, <1>6, <1>7, <1>8, <1>9, <1>10, <1>11, <1>12, <1>13, <1>14, <1>15
  DEF Next, Scan

LEMMA PlaceHolds == Spec => []PlaceInv
BY PlaceInit, PlaceKept, PTL DEF Spec

\* A scan is type correct, over feeds of any length, whatever the page does.
THEOREM TypeCorrect == Spec => []TypeOK
<1>1. PlaceInv => TypeOK
  BY DEF PlaceInv
<1> QED
  BY PlaceHolds, <1>1, PTL

-------------------------------------------------------------------------------
(* What a scan knows.                                                        *)

InPass == pc \in {"post", "delay", "click"}

\* A click with the restriction on the page ends the scan, and one behind the stop
\* event is followed by no post that is taken in hand.
WarnedOnce ==
  /\ pc # "done" => \A n \in DOMAIN clicks : ~clicks[n].warned
  /\ \A m, n \in DOMAIN clicks : clicks[m].warned /\ clicks[n].warned => m = n
LateOnce ==
  /\ (\E n \in DOMAIN clicks : clicks[n].late) => stop /\ ~InHand
  /\ \A m, n \in DOMAIN clicks : clicks[m].late /\ clicks[n].late => m = n

\* On a page that holds still during the delays a position means the post that was
\* read there, and the marker is on the page, below it or nowhere: a scroll drops
\* nothing a pass has not read.
PageHolds ==
  ~shifted =>
    /\ marker = 0 \/ marker > dropped
    /\ pc = "scroll" => ~MarkerShown
    /\ InPass => batch = SubSeq(feed, dropped + 1, LastRead) /\ sawMarker = MarkerShown

\* The posts of the pass up to the position are seen, the one in hand included.
SeenSoFar ==
  InPass => /\ \A n \in 1..(i - 1) : batch[n] \in seen
            /\ InHand => batch[i] \in seen

\* What was clicked is seen, organic, and above the marker; the post in hand is
\* organic and not yet clicked.
AreSeen ==
  \A n \in DOMAIN clicks :
    /\ clicks[n].post \in seen \ Excluded
    /\ marker # 0 => \E k \in 1..marker : clicks[n].post = feed[k]
AreOnce == \A m, n \in DOMAIN clicks : clicks[m].post = clicks[n].post => m = n
HandIsFresh ==
  InHand => /\ batch[i] \notin Excluded
            /\ \A n \in DOMAIN clicks : clicks[n].post # batch[i]
ClicksAreSeen == ~shifted => AreSeen /\ AreOnce /\ HandIsFresh

\* Every post seen is counted once as discovered, and once as what became of it,
\* except the one in hand; one is taken in hand only below the limit.
Tallied ==
  /\ IsFiniteSet(seen) /\ summary["discovered"] = Cardinality(seen)
  /\ summary["discovered"] \in {Sorted, Sorted + 1}
  /\ pc # "done" => summary["discovered"] = Sorted + (IF InHand THEN 1 ELSE 0)
  /\ outcome \in {"caught_up", "rounds", "stalled"} => summary["discovered"] = Sorted
  /\ limit # 0 => summary["liked"] <= limit /\ (InHand => summary["liked"] < limit)

\* Unless a like has failed or a post could not be told, every organic post seen is
\* liked, except the one in hand; a scan that is caught up has seen them all.
Untroubled == outcome \in {"none", "caught_up"} /\ summary["failed"] = 0 /\ summary["unknown"] = 0
AreLiked == \A p \in seen : p \in likes \cup Excluded \/ (InHand /\ p = batch[i])
SawAll == \A n \in (dropped + 1)..marker : feed[n] \in seen
SeenAreLiked == ~shifted => (Untroubled => AreLiked) /\ (outcome = "caught_up" => SawAll)

ScanInv ==
  /\ PlaceInv
  /\ WarnedOnce /\ LateOnce /\ PageHolds /\ SeenSoFar /\ ClicksAreSeen /\ Tallied /\ SeenAreLiked

\* A click that Instagram may take is recorded behind the others.
LEMMA ClickRecorded ==
  ASSUME TypeOK, NEW effect \in BOOLEAN, Clicked(effect), OnPage(i), At(i) \notin likes
  PROVE  /\ DOMAIN clicks' = DOMAIN clicks \cup {Len(clicks) + 1}
         /\ Len(clicks) + 1 \notin DOMAIN clicks
         /\ \A n \in DOMAIN clicks : clicks'[n] = clicks[n]
         /\ clicks'[Len(clicks) + 1].post = At(i)
         /\ clicks'[Len(clicks) + 1].late = stop
         /\ clicks'[Len(clicks) + 1].warned = restricted
<1>1. clicks \in Seq(Click) /\ Len(clicks) \in Nat /\ DOMAIN clicks = 1..Len(clicks)
  BY DEF TypeOK, Click
<1>2. clicks' = Append(clicks, [post |-> At(i), late |-> stop, warned |-> restricted])
  BY DEF Clicked
<1>3. At(i) \in Posts /\ stop \in BOOLEAN /\ restricted \in BOOLEAN
  BY AtIsAPost DEF TypeOK
<1>4. [post |-> At(i), late |-> stop, warned |-> restricted] \in Click
  BY <1>3 DEF Click
<1>5. /\ Len(clicks') = Len(clicks) + 1 /\ DOMAIN clicks' = 1..(Len(clicks) + 1)
      /\ \A n \in 1..Len(clicks) : clicks'[n] = clicks[n]
      /\ clicks'[Len(clicks) + 1] = [post |-> At(i), late |-> stop, warned |-> restricted]
  BY <1>1, <1>2, <1>4
<1> QED
  BY <1>1, <1>5

LEMMA NothingRecorded ==
  ASSUME NEW effect, Clicked(effect), ~(OnPage(i) /\ At(i) \notin likes)
  PROVE  clicks' = clicks /\ likes' = likes
BY DEF Clicked

\* What the steps do that make no click.
LEMMA NoClickMade ==
  ASSUME [Next]_vars, ~LikeSucceeds, ~LikeFails
  PROVE  clicks' = clicks /\ likes' = likes /\ (stop => stop') /\ (InHand' => InHand \/ ~stop \/ pc' = pc)
<1>1. CASE Raises \/ Open \/ StopSeen \/ PassStarts \/ SkipSeen \/ Vanished \/ DelayElapsed \/ PassEnds
  BY <1>1 DEF Raises, Open, StopSeen, PassStarts, SkipSeen, Vanished, DelayElapsed, PassEnds, Quiet,
     worldVars, InHand, Done, Goto, UnlessRestricted
<1>2. CASE Exclude \/ Take
  BY <1>2 DEF Exclude, Take, NewPost, Unseen, Discover, Quiet, worldVars, InHand, Done, Goto
<1>3. CASE Scroll
  BY <1>3 DEF Scroll, InHand, Done, Goto, UnlessRestricted
<1>4. CASE PressStop \/ RestrictionShows \/ PageShifts
  BY <1>4 DEF PressStop, RestrictionShows, PageShifts, scanVars, InHand
<1>5. CASE UNCHANGED vars
  BY <1>5 DEF vars, worldVars, InHand
<1> QED
  BY <1>1, <1>2, <1>3, <1>4, <1>5 DEF Next, Scan

LEMMA DoneIsDone ==
  ASSUME [Next]_vars, pc = "done"
  PROVE  pc' = "done" /\ outcome' = outcome
BY DEF Next, Scan, Raises, Open, StopSeen, PassStarts, SkipSeen, Vanished, Exclude, Take, NewPost, Unseen,
   DelayElapsed, LikeSucceeds, LikeFails, PassEnds, Scroll, PressStop, RestrictionShows, PageShifts,
   scanVars, vars

\* A like leaves the page and the pass alone, and moves on or ends.
LEMMA LikeFacts ==
  ASSUME PlaceInv, LikeSucceeds \/ LikeFails
  PROVE  /\ pc = "click" /\ i' = i + 1 /\ i <= Len(batch) /\ i \in Nat
         /\ UNCHANGED <<limit, kind, feed, marker, dropped, loaded, restricted, stop, shifted,
                        round, batch, sawMarker, newly, stalled, seen>>
         /\ IF restricted THEN pc' = "done" /\ outcome' = "restricted"
                          ELSE pc' = "post" /\ outcome' = outcome
         /\ \E effect \in BOOLEAN : Clicked(effect)
<1>1. i <= Len(batch) /\ i \in Nat
  BY PlaceFacts DEF PlaceInv, Standing, InHand, LikeSucceeds, LikeFails
<1> QED
  BY <1>1 DEF LikeSucceeds, LikeFails, AfterClick, pageVars, UnlessRestricted, Done, Goto

LEMMA WarnedKept == PlaceInv /\ WarnedOnce /\ [Next]_vars => WarnedOnce'
<1> SUFFICES ASSUME PlaceInv, WarnedOnce, [Next]_vars PROVE WarnedOnce'
  OBVIOUS
<1>1. CASE ~LikeSucceeds /\ ~LikeFails
  BY <1>1, NoClickMade, DoneIsDone DEF WarnedOnce
<1>2. CASE LikeSucceeds \/ LikeFails
  <2>1. PICK effect \in BOOLEAN : Clicked(effect)
    BY <1>2, LikeFacts
  <2>2. TypeOK /\ pc = "click" /\ (pc' # "done" => ~restricted)
    BY <1>2, LikeFacts DEF PlaceInv
  <2>3. CASE OnPage(i) /\ At(i) \notin likes
    BY <2>1, <2>2, <2>3, ClickRecorded DEF WarnedOnce
  <2>4. CASE ~(OnPage(i) /\ At(i) \notin likes)
    BY <2>1, <2>2, <2>4, NothingRecorded DEF WarnedOnce
  <2> QED
    BY <2>3, <2>4
<1> QED
  BY <1>1, <1>2

LEMMA LateKept == PlaceInv /\ LateOnce /\ [Next]_vars => LateOnce'
<1> SUFFICES ASSUME PlaceInv, LateOnce, [Next]_vars PROVE LateOnce'
  OBVIOUS
<1>1. CASE ~LikeSucceeds /\ ~LikeFails
  BY <1>1, NoClickMade DEF LateOnce, InHand
<1>2. CASE LikeSucceeds \/ LikeFails
  <2>1. PICK effect \in BOOLEAN : Clicked(effect)
    BY <1>2, LikeFacts
  <2>2. TypeOK /\ InHand /\ ~InHand' /\ stop' = stop
    BY <1>2, LikeFacts DEF PlaceInv, InHand
  <2>3. CASE OnPage(i) /\ At(i) \notin likes
    BY <2>1, <2>2, <2>3, ClickRecorded DEF LateOnce
  <2>4. CASE ~(OnPage(i) /\ At(i) \notin likes)
    BY <2>1, <2>2, <2>4, NothingRecorded DEF LateOnce
  <2> QED
    BY <2>3, <2>4
<1> QED
  BY <1>1, <1>2

LEMMA PageKept == PlaceInv /\ PageHolds /\ [Next]_vars => PageHolds'
<1> SUFFICES ASSUME PlaceInv, PageHolds, [Next]_vars PROVE PageHolds'
  OBVIOUS
<1> USE DEF pageVars, worldVars, passVars, Goto, Done, UnlessRestricted, InPass
<1>1. CASE Raises \/ Open \/ StopSeen \/ SkipSeen \/ Vanished \/ DelayElapsed
  BY <1>1 DEF Raises, Open, StopSeen, SkipSeen, Vanished, DelayElapsed, Quiet, PageHolds, LastRead, MarkerShown, Unseen
<1>2. CASE PassStarts
  BY <1>2 DEF PassStarts, Quiet, PageHolds, LastRead, MarkerShown
<1>3. CASE Exclude \/ Take
  BY <1>3 DEF Exclude, Take, NewPost, Unseen, Discover, Quiet, PageHolds, LastRead, MarkerShown
<1>4. CASE LikeSucceeds \/ LikeFails
  BY <1>4, LikeFacts DEF PageHolds, LastRead, MarkerShown
<1>5. CASE PassEnds
  BY <1>5 DEF PassEnds, Quiet, PageHolds, LastRead, MarkerShown
<1>6. CASE Scroll
  <2>1. PICK more \in loaded..Len(feed), gone \in dropped..loaded : loaded' = more /\ dropped' = gone
    BY <1>6 DEF Scroll
  <2>2. /\ pc = "scroll" /\ marker' = marker /\ shifted' = shifted /\ ~InPass' /\ pc' # "scroll"
    BY <1>6 DEF Scroll
  <2>3. /\ dropped \in Nat /\ loaded \in Nat /\ marker \in Nat
    BY PlaceFacts DEF PlaceInv
  <2>4. ~shifted => marker = 0 \/ marker > dropped'
    BY <2>1, <2>2, <2>3 DEF PageHolds, MarkerShown
  <2> QED
    BY <2>2, <2>4 DEF PageHolds
<1>7. CASE PressStop \/ RestrictionShows
  BY <1>7 DEF PressStop, RestrictionShows, scanVars, PageHolds, LastRead, MarkerShown
<1>8. CASE PageShifts
  BY <1>8 DEF PageShifts, PageHolds
<1>9. CASE UNCHANGED vars
  BY <1>9 DEF vars, PageHolds, LastRead, MarkerShown
<1> HIDE DEF pageVars, worldVars, passVars, Goto, Done, UnlessRestricted, InPass
<1> QED
  BY <1>1, <1>2, <1>3, <1>4, <1>5, <1>6, <1>7, <1>8, <1>9 DEF Next, Scan

LEMMA SeenKept == PlaceInv /\ SeenSoFar /\ [Next]_vars => SeenSoFar'
<1> SUFFICES ASSUME PlaceInv, SeenSoFar, [Next]_vars PROVE SeenSoFar'
  OBVIOUS
<1>n. i \in Nat /\ i >= 1 /\ Len(batch) \in Nat
  BY PlaceFacts DEF PlaceInv
<1>m. \A n \in 1..((i + 1) - 1) : n \in 1..(i - 1) \/ n = i
  BY <1>n
<1> USE DEF pageVars, worldVars, passVars, Goto, Done, UnlessRestricted, InPass, InHand
<1>1. CASE Raises \/ Open \/ StopSeen \/ Vanished \/ DelayElapsed \/ PassEnds
  BY <1>1 DEF Raises, Open, StopSeen, Vanished, DelayElapsed, PassEnds, Quiet, SeenSoFar, Unseen
<1>2. CASE PassStarts
  BY <1>2 DEF PassStarts, SeenSoFar
<1>3. CASE SkipSeen
  BY <1>3, <1>m DEF SkipSeen, SeenSoFar
<1>4. CASE Exclude
  <2>1. seen' = seen \cup {batch[i]} /\ batch' = batch /\ i' = i + 1 /\ pc = "post" /\ pc' = "post"
    BY <1>4 DEF Exclude, NewPost, Unseen, Discover
  <2> QED
    BY <2>1, <1>m DEF SeenSoFar
<1>5. CASE Take
  <2>1. seen' = seen \cup {batch[i]} /\ batch' = batch /\ i' = i /\ pc = "post"
    BY <1>5 DEF Take, NewPost, Unseen, Discover
  <2> QED
    BY <2>1 DEF SeenSoFar
<1>6. CASE LikeSucceeds \/ LikeFails
  <2>1. pc = "click" /\ i' = i + 1 /\ UNCHANGED <<batch, seen>> /\ pc' \in {"post", "done"}
    BY <1>6, LikeFacts
  <2> QED
    BY <2>1, <1>m DEF SeenSoFar
<1>7. CASE Scroll
  BY <1>7 DEF Scroll, SeenSoFar
<1>8. CASE PressStop \/ RestrictionShows \/ PageShifts
  BY <1>8 DEF PressStop, RestrictionShows, PageShifts, scanVars, SeenSoFar
<1>9. CASE UNCHANGED vars
  BY <1>9 DEF vars, SeenSoFar
<1> HIDE DEF pageVars, worldVars, passVars, Goto, Done, UnlessRestricted, InPass, InHand
<1> QED
  BY <1>1, <1>2, <1>3, <1>4, <1>5, <1>6, <1>7, <1>8, <1>9 DEF Next, Scan

\* On a page that holds still a position of the pass is the article that was read.
LEMMA PositionsHold ==
  ASSUME PlaceInv, PageHolds, ~shifted, InPass, i <= Len(batch)
  PROVE  /\ OnPage(i) /\ At(i) = batch[i] /\ batch[i] \in Posts
         /\ marker # 0 => \E k \in 1..marker : batch[i] = feed[k]
<1>1. batch = SubSeq(feed, dropped + 1, LastRead) /\ (marker = 0 \/ marker > dropped)
  BY DEF PageHolds
<1>2. TypeOK
  BY DEF PlaceInv
<1>3. \A n \in 1..Len(batch) : batch[n] = feed[dropped + n] /\ dropped + n <= LastRead
  BY <1>1, <1>2, BatchFacts
<1>4. /\ i \in 1..Len(batch) /\ dropped \in Nat /\ loaded \in Nat /\ marker \in Nat /\ LastRead <= loaded
      /\ batch[i] \in Posts /\ LastRead \in Nat /\ i \in Nat
  BY <1>2, PlaceFacts
<1>5. batch[i] = feed[dropped + i] /\ dropped + i <= LastRead
  BY <1>3, <1>4
<1>6. marker # 0 => dropped + i \in 1..marker
  BY <1>1, <1>4, <1>5 DEF LastRead, MarkerShown
<1> QED
  BY <1>4, <1>5, <1>6 DEF OnPage, At

LEMMA ClicksKept ==
  PlaceInv /\ PageHolds /\ SeenSoFar /\ ClicksAreSeen /\ [Next]_vars => ClicksAreSeen'
<1> SUFFICES ASSUME PlaceInv, PageHolds, SeenSoFar, ClicksAreSeen, [Next]_vars, ~shifted'
             PROVE  ClicksAreSeen'
  BY DEF ClicksAreSeen
<1> USE DEF pageVars, worldVars, passVars, Goto, Done, UnlessRestricted, InHand
<1>1. CASE Raises \/ Open \/ StopSeen \/ Vanished \/ DelayElapsed \/ PassEnds
  BY <1>1 DEF Raises, Open, StopSeen, Vanished, DelayElapsed, PassEnds, Quiet, ClicksAreSeen, AreSeen, AreOnce, HandIsFresh, Unseen, Excluded
<1>2. CASE PassStarts \/ SkipSeen
  BY <1>2 DEF PassStarts, SkipSeen, Quiet, ClicksAreSeen, AreSeen, AreOnce, HandIsFresh, Excluded
<1>3. CASE Exclude
  <2>1. seen' = seen \cup {batch[i]} /\ UNCHANGED <<clicks, kind, marker, feed, shifted>> /\ pc' = "post"
    BY <1>3 DEF Exclude, Discover, Quiet
  <2> QED
    BY <2>1 DEF ClicksAreSeen, AreSeen, AreOnce, HandIsFresh, Excluded
<1>4. CASE Take
  <2>1. /\ seen' = seen \cup {batch[i]} /\ UNCHANGED <<clicks, kind, marker, feed, shifted, batch, i>>
        /\ pc = "post" /\ i <= Len(batch) /\ batch[i] \notin seen /\ At(i) \notin Excluded
    BY <1>4 DEF Take, NewPost, Unseen, Discover, Quiet
  <2>2. batch[i] \notin Excluded
    BY <2>1, PositionsHold DEF InPass
  <2> QED
    BY <2>1, <2>2 DEF ClicksAreSeen, AreSeen, AreOnce, HandIsFresh, Excluded
<1>5. CASE LikeSucceeds \/ LikeFails
  <2>1. PICK effect \in BOOLEAN : Clicked(effect)
    BY <1>5, LikeFacts
  <2>2. /\ pc = "click" /\ i <= Len(batch) /\ ~InHand' /\ ~shifted
        /\ UNCHANGED <<kind, marker, feed, seen>>
    BY <1>5, LikeFacts
  <2>3. /\ OnPage(i) /\ At(i) = batch[i] /\ batch[i] \in seen \ Excluded
        /\ marker # 0 => \E k \in 1..marker : batch[i] = feed[k]
    BY <2>2, PositionsHold DEF InPass, SeenSoFar, ClicksAreSeen, HandIsFresh
  <2>4. CASE At(i) \notin likes
    <3> DEFINE last == Len(clicks) + 1
    <3>1. /\ DOMAIN clicks' = DOMAIN clicks \cup {last} /\ last \notin DOMAIN clicks
          /\ \A n \in DOMAIN clicks : clicks'[n] = clicks[n]
          /\ clicks'[last].post = batch[i]
      BY <2>1, <2>3, <2>4, ClickRecorded DEF PlaceInv
    <3> HIDE DEF last
    <3>2. \A n \in DOMAIN clicks : clicks[n].post # batch[i]
      BY <2>2 DEF ClicksAreSeen, HandIsFresh
    <3>3. AreOnce'
      BY <2>2, <3>1, <3>2 DEF ClicksAreSeen, AreOnce
    <3>4. AreSeen'
      BY <2>2, <2>3, <3>1 DEF ClicksAreSeen, AreSeen, Excluded
    <3> QED
      BY <2>2, <3>3, <3>4 DEF ClicksAreSeen, HandIsFresh
  <2>5. CASE At(i) \in likes
    BY <2>1, <2>2, <2>5, NothingRecorded DEF ClicksAreSeen, AreSeen, AreOnce, HandIsFresh, Excluded
  <2> QED
    BY <2>4, <2>5
<1>6. CASE Scroll
  BY <1>6 DEF Scroll, ClicksAreSeen, AreSeen, AreOnce, HandIsFresh, Excluded
<1>7. CASE PressStop \/ RestrictionShows
  BY <1>7 DEF PressStop, RestrictionShows, scanVars, ClicksAreSeen, AreSeen, AreOnce, HandIsFresh, Excluded
<1>8. CASE PageShifts
  BY <1>8 DEF PageShifts
<1>9. CASE UNCHANGED vars
  BY <1>9 DEF vars, ClicksAreSeen, AreSeen, AreOnce, HandIsFresh, Excluded
<1> HIDE DEF pageVars, worldVars, passVars, Goto, Done, UnlessRestricted, InHand
<1> QED
  BY <1>1, <1>2, <1>3, <1>4, <1>5, <1>6, <1>7, <1>8, <1>9 DEF Next, Scan

LEMMA TalliedKept == PlaceInv /\ Tallied /\ [Next]_vars => Tallied'
<1> SUFFICES ASSUME PlaceInv, Tallied, [Next]_vars PROVE Tallied'
  OBVIOUS
<1>t. TypeOK /\ limit \in Nat /\ Sorted \in Nat /\ \A c \in Counter : summary[c] \in Nat
  BY CounterFacts DEF PlaceInv, TypeOK
<1>o. pc = "done" <=> outcome # "none"
  BY DEF PlaceInv, Standing
<1> USE DEF pageVars, worldVars, passVars, Goto, Done, UnlessRestricted, InHand
<1>1. CASE Raises \/ Open \/ StopSeen \/ Vanished \/ DelayElapsed \/ PassEnds
  <2>1. UNCHANGED <<seen, summary, limit>> /\ Sorted' = Sorted
    BY <1>1 DEF Raises, Open, StopSeen, Vanished, DelayElapsed, PassEnds, Quiet, Sorted
  <2>2. outcome' \in {"caught_up", "rounds", "stalled"} => pc = "post"
    BY <1>1, <1>o DEF Raises, Open, StopSeen, Vanished, DelayElapsed, PassEnds, Unseen
  <2>3. /\ pc' = "done" \/ (InHand' <=> InHand)
        /\ (InHand' => InHand) /\ pc # "done"
    BY <1>1 DEF Raises, Open, StopSeen, Vanished, DelayElapsed, PassEnds, Unseen
  <2> QED
    BY <1>t, <2>1, <2>2, <2>3 DEF Tallied
<1>2. CASE PassStarts \/ SkipSeen
  <2>1. UNCHANGED <<seen, summary, limit, outcome>> /\ Sorted' = Sorted /\ ~InHand' /\ ~InHand /\ pc # "done" /\ pc' # "done"
    BY <1>2 DEF PassStarts, SkipSeen, Quiet, Sorted
  <2> QED
    BY <2>1 DEF Tallied
<1>3. CASE Exclude \/ Take
  <2>1. /\ seen' = seen \cup {batch[i]} /\ batch[i] \notin seen /\ limit' = limit /\ pc = "post"
    BY <1>3 DEF Exclude, Take, NewPost, Unseen, Discover, Quiet
  <2>2. IsFiniteSet(seen') /\ Cardinality(seen') = Cardinality(seen) + 1
    <3>1. IsFiniteSet(seen \cup {batch[i]}) /\ Cardinality(seen \cup {batch[i]}) = Cardinality(seen) + 1
      BY <2>1, FS_AddElement DEF Tallied
    <3> QED
      BY <2>1, <3>1
  <2>3. summary["discovered"] = Sorted /\ summary["discovered"] = Cardinality(seen)
    BY <1>t, <2>1 DEF Tallied
  <2>4. CASE Take
    <3>1. /\ Sorted' = Sorted /\ summary'["discovered"] = summary["discovered"] + 1
          /\ summary'["liked"] = summary["liked"]
      BY <1>t, <2>4, TakenInHand DEF Take, Counter
    <3>2. \/ pc' = "done" /\ outcome' = "limit"
          \/ pc' = "delay" /\ outcome' = "none" /\ ~AtLimit
      BY <1>o, <2>1, <2>4 DEF Take
    <3>3. limit # 0 => summary'["liked"] <= limit /\ (InHand' => summary'["liked"] < limit)
      BY <1>t, <3>1, <3>2 DEF AtLimit, Tallied, Counter
    <3> QED
      BY <1>t, <2>1, <2>2, <2>3, <3>1, <3>2, <3>3 DEF Tallied
  <2>5. CASE Exclude
    <3>1. PICK c \in {"already_liked", "sponsored", "recommended", "unknown"} : Discover({c})
      <4>1. CASE At(i) \in Excluded /\ Discover({kind[At(i)]})
        BY <1>t, <4>1 DEF TypeOK, Excluded
      <4> QED
        BY <2>5, <4>1 DEF Exclude
    <3>2. /\ Sorted' = Sorted + 1 /\ summary'["discovered"] = summary["discovered"] + 1
          /\ summary'["liked"] = summary["liked"]
      BY <1>t, <3>1, SortedAtOnce DEF Counter
    <3>3. pc' = "post" /\ outcome' = "none"
      BY <1>o, <2>1, <2>5 DEF Exclude
    <3> QED
      <4>1. summary'["discovered"] = Sorted' /\ summary'["discovered"] = Cardinality(seen')
        BY <2>2, <2>3, <3>2
      <4>2. Sorted' \in Nat /\ (limit # 0 => summary'["liked"] <= limit)
        BY <1>t, <3>2 DEF Tallied
      <4> QED
        BY <2>1, <2>2, <3>3, <4>1, <4>2 DEF Tallied
  <2> QED
    BY <1>3, <2>4, <2>5
<1>4. CASE LikeSucceeds \/ LikeFails
  <2>1. /\ UNCHANGED <<seen, limit>> /\ pc = "click" /\ ~InHand'
        /\ IF restricted THEN pc' = "done" /\ outcome' = "restricted" ELSE pc' = "post" /\ outcome' = "none"
    BY <1>4, <1>o, LikeFacts
  <2>2. /\ summary["discovered"] = Sorted + 1
        /\ limit # 0 => summary["liked"] < limit
    BY <2>1 DEF Tallied
  <2>3. CASE \E c \in {"liked", "failed"} : Count(c)
    <3>1. PICK c \in {"liked", "failed"} : Count(c)
      BY <2>3
    <3>2. /\ Sorted' = Sorted + 1 /\ summary'["discovered"] = summary["discovered"]
          /\ summary'["liked"] \in {summary["liked"], summary["liked"] + 1}
      BY <1>t, <3>1, SortedInTheEnd DEF Counter
    <3>3. limit # 0 => summary'["liked"] <= limit
      BY <1>t, <2>2, <3>2 DEF Counter
    <3> QED
      BY <1>t, <2>1, <2>2, <3>2, <3>3 DEF Tallied
  <2>4. CASE summary' = summary /\ restricted
    <3>1. Sorted' = Sorted
      BY <2>4 DEF Sorted
    <3> QED
      BY <1>t, <2>1, <2>2, <2>4, <3>1 DEF Tallied
  <2> QED
    BY <1>4, <2>3, <2>4 DEF LikeSucceeds, LikeFails
<1>5. CASE Scroll
  <2>1. UNCHANGED <<seen, summary, limit>> /\ Sorted' = Sorted /\ pc = "scroll" /\ ~InHand'
    BY <1>5 DEF Scroll, Sorted
  <2> QED
    BY <1>t, <2>1 DEF Tallied
<1>6. CASE PressStop \/ RestrictionShows \/ PageShifts
  BY <1>6 DEF PressStop, RestrictionShows, PageShifts, scanVars, Tallied, Sorted
<1>7. CASE UNCHANGED vars
  BY <1>7 DEF vars, Tallied, Sorted
<1> HIDE DEF pageVars, worldVars, passVars, Goto, Done, UnlessRestricted, InHand
<1> QED
  BY <1>1, <1>2, <1>3, <1>4, <1>5, <1>6, <1>7 DEF Next, Scan
LEMMA LikedKept == PlaceInv /\ PageHolds /\ SeenAreLiked /\ [Next]_vars => (~shifted' /\ Untroubled' => AreLiked')
<1> SUFFICES ASSUME PlaceInv, PageHolds, SeenAreLiked, [Next]_vars, ~shifted', Untroubled'
             PROVE  AreLiked'
  OBVIOUS
<1>o. (pc = "done" <=> outcome # "none") /\ TypeOK
  BY DEF PlaceInv, Standing
<1>c. summary["failed"] \in Nat /\ summary["unknown"] \in Nat
  BY CounterFacts, <1>o DEF TypeOK, Counter
<1> USE DEF pageVars, worldVars, passVars, Goto, Done, UnlessRestricted, InHand
<1>1. CASE Raises \/ StopSeen \/ Vanished
  BY <1>1 DEF Raises, StopSeen, Vanished, Untroubled
<1>2. CASE Open \/ PassEnds \/ DelayElapsed
  BY <1>2, <1>o DEF Open, PassEnds, DelayElapsed, Quiet, Untroubled, SeenAreLiked, AreLiked, Excluded
<1>3. CASE PassStarts \/ SkipSeen
  BY <1>3, <1>o DEF PassStarts, SkipSeen, Quiet, Untroubled, SeenAreLiked, AreLiked, Excluded
<1>4. CASE Exclude \/ Take
  <2>1. /\ seen' = seen \cup {batch[i]} /\ UNCHANGED <<batch, likes, kind, shifted>>
        /\ pc = "post" /\ i <= Len(batch)
    BY <1>4 DEF Exclude, Take, NewPost, Unseen, Discover, Quiet
  <2>2. At(i) = batch[i]
    BY <2>1, PositionsHold DEF InPass
  <2>3. CASE Take
    <3>1. /\ summary'["failed"] = summary["failed"] /\ summary'["unknown"] = summary["unknown"]
      BY <1>o, <2>3, TakenInHand DEF Take, Counter
    <3>2. InHand' /\ i' = i
      BY <2>3 DEF Take, Untroubled
    <3>3. AreLiked
      BY <1>o, <2>1, <3>1 DEF Untroubled, SeenAreLiked
    <3> QED
      BY <2>1, <3>2, <3>3 DEF AreLiked, Excluded
  <2>4. CASE Exclude
    <3>1. CASE At(i) \in Excluded /\ Discover({kind[At(i)]})
      <4>1. kind[At(i)] \in {"sponsored", "recommended"}
        BY <1>o, <3>1 DEF TypeOK, Excluded
      <4>2. summary'["failed"] = summary["failed"] /\ summary'["unknown"] = summary["unknown"]
        BY <1>o, <3>1, <4>1, SortedAtOnce DEF Counter
      <4>3. AreLiked
        BY <1>o, <2>1, <4>2 DEF Untroubled, SeenAreLiked
      <4> QED
        BY <2>1, <2>2, <3>1, <4>3 DEF AreLiked, Excluded
    <3>2. CASE At(i) \in likes \ Excluded /\ Discover({"already_liked"})
      <4>1. summary'["failed"] = summary["failed"] /\ summary'["unknown"] = summary["unknown"]
        BY <1>o, <3>2, SortedAtOnce DEF Counter
      <4>2. AreLiked
        BY <1>o, <2>1, <4>1 DEF Untroubled, SeenAreLiked
      <4> QED
        BY <2>1, <2>2, <3>2, <4>2 DEF AreLiked, Excluded
    <3>3. CASE Discover({"unknown"})
      <4>1. summary'["unknown"] = summary["unknown"] + 1
        BY <1>o, <3>3, SortedAtOnce
      <4> QED
        BY <1>c, <4>1 DEF Untroubled
    <3> QED
      BY <2>4, <3>1, <3>2, <3>3 DEF Exclude
  <2> QED
    BY <1>4, <2>3, <2>4
<1>5. CASE LikeSucceeds
  <2>1. /\ pc = "click" /\ i <= Len(batch) /\ ~shifted /\ UNCHANGED <<seen, batch, kind>>
    BY <1>5, LikeFacts
  <2>2. Clicked(TRUE) /\ Count("liked")
    BY <1>5 DEF LikeSucceeds
  <2>3. summary'["failed"] = summary["failed"] /\ summary'["unknown"] = summary["unknown"]
    BY <1>o, <2>2, SortedInTheEnd DEF Counter
  <2>4. AreLiked
    BY <1>o, <2>1, <2>3 DEF Untroubled, SeenAreLiked
  <2>5. OnPage(i) /\ At(i) = batch[i]
    BY <2>1, PositionsHold DEF InPass
  <2>6. likes \subseteq likes' /\ batch[i] \in likes'
    BY <2>2, <2>5 DEF Clicked
  <2> QED
    BY <2>1, <2>4, <2>6 DEF AreLiked, Excluded
<1>6. CASE LikeFails
  <2>1. ~restricted
    BY <1>6, LikeFacts DEF Untroubled
  <2>2. Count("failed")
    BY <1>6, <2>1 DEF LikeFails
  <2>3. summary'["failed"] = summary["failed"] + 1
    BY <1>o, <2>2, SortedInTheEnd
  <2> QED
    BY <1>c, <2>3 DEF Untroubled
<1>7. CASE Scroll
  BY <1>7, <1>o DEF Scroll, Untroubled, SeenAreLiked, AreLiked, Excluded
<1>8. CASE PressStop \/ RestrictionShows
  BY <1>8 DEF PressStop, RestrictionShows, scanVars, Untroubled, SeenAreLiked, AreLiked, Excluded
<1>9. CASE PageShifts
  BY <1>9 DEF PageShifts
<1>10. CASE UNCHANGED vars
  BY <1>10 DEF vars, Untroubled, SeenAreLiked, AreLiked, Excluded
<1> HIDE DEF pageVars, worldVars, passVars, Goto, Done, UnlessRestricted, InHand
<1> QED
  BY <1>1, <1>2, <1>3, <1>4, <1>5, <1>6, <1>7, <1>8, <1>9, <1>10 DEF Next, Scan

\* A scan is caught up by the end of a pass that read down to the marker.
LEMMA CaughtUpKept ==
  PlaceInv /\ PageHolds /\ SeenSoFar /\ SeenAreLiked /\ [Next]_vars =>
    (~shifted' /\ outcome' = "caught_up" => SawAll')
<1> SUFFICES ASSUME PlaceInv, PageHolds, SeenSoFar, SeenAreLiked, [Next]_vars, ~shifted', outcome' = "caught_up"
             PROVE  SawAll'
  OBVIOUS
<1>o. (pc = "done" <=> outcome # "none") /\ TypeOK
  BY DEF PlaceInv, Standing
<1>1. CASE PassEnds
  <2>1. /\ pc = "post" /\ i > Len(batch) /\ UNCHANGED <<feed, marker, dropped, loaded, seen, shifted>>
        /\ (sawMarker \/ MarkerShown \/ outcome = "caught_up")
    BY <1>1 DEF PassEnds, Quiet, worldVars, pageVars, Done, Goto
  <2>2. batch = SubSeq(feed, dropped + 1, LastRead) /\ LastRead = marker
    BY <1>o, <2>1 DEF PageHolds, InPass, LastRead
  <2>3. \A n \in (dropped + 1)..marker : n - dropped \in 1..Len(batch) /\ batch[n - dropped] = feed[n]
    BY <1>o, <2>2, BatchFacts
  <2>4. \A n \in 1..Len(batch) : batch[n] \in seen
    BY <1>o, <2>1, PlaceFacts DEF SeenSoFar, InPass
  <2> QED
    BY <2>1, <2>3, <2>4 DEF SawAll
<1>2. CASE pc = "done" /\ ~PassEnds
  <2>1. outcome = "caught_up"
    BY <1>2, DoneIsDone
  <2>2. UNCHANGED <<feed, marker, dropped, seen, shifted>>
    BY <1>2 DEF Next, Scan, Raises, Open, StopSeen, PassStarts, SkipSeen, Vanished, Exclude, Take, NewPost,
       Unseen, DelayElapsed, LikeSucceeds, LikeFails, Scroll, PressStop, RestrictionShows, PageShifts,
       vars, worldVars, pageVars
  <2> QED
    BY <2>1, <2>2 DEF SeenAreLiked, SawAll
<1>3. CASE pc # "done" /\ ~PassEnds
  <2>1. outcome = "none"
    BY <1>3, <1>o
  <2>2. CASE LikeSucceeds \/ LikeFails
    BY <2>1, <2>2, LikeFacts
  <2> QED
    BY <1>3, <2>1, <2>2
    DEF Next, Scan, Raises, Open, StopSeen, PassStarts, SkipSeen, Vanished, Exclude, Take, DelayElapsed,
        Scroll, PressStop, RestrictionShows, PageShifts, scanVars, vars, Done, Goto, UnlessRestricted
<1> QED
  BY <1>1, <1>2, <1>3

LEMMA ScanInit == Init => ScanInv
<1> SUFFICES ASSUME Init PROVE ScanInv
  OBVIOUS
<1>1. PlaceInv
  BY PlaceInit
<1>2. DOMAIN clicks = {} /\ pc = "open" /\ dropped = 0 /\ marker \in Nat /\ outcome = "none" /\ seen = {}
  <2>1. marker \in Nat
    BY <1>1, PlaceFacts DEF PlaceInv
  <2> QED
    BY <2>1 DEF Init
<1>3. Tallied
  <2>1. Sorted = 0 /\ summary["discovered"] = 0 /\ summary["liked"] = 0
    BY DEF Init, Sorted, Counter
  <2>2. IsFiniteSet(seen) /\ Cardinality(seen) = 0
    BY <1>2, FS_EmptySet
  <2>3. limit \in Nat
    BY <1>1 DEF PlaceInv, TypeOK
  <2> QED
    BY <1>2, <2>1, <2>2, <2>3 DEF Tallied, InHand
<1> QED
  BY <1>1, <1>2, <1>3
  DEF ScanInv, WarnedOnce, LateOnce, PageHolds, SeenSoFar, ClicksAreSeen, AreSeen, AreOnce, HandIsFresh,
      SeenAreLiked, AreLiked, InHand, InPass

LEMMA ScanHolds == Spec => []ScanInv
<1>1. ScanInv /\ [Next]_vars => ScanInv'
  <2> SUFFICES ASSUME ScanInv, [Next]_vars PROVE ScanInv'
    OBVIOUS
  <2> QED
    BY PlaceKept, WarnedKept, LateKept, PageKept, SeenKept, ClicksKept, TalliedKept, LikedKept, CaughtUpKept
    DEF ScanInv, SeenAreLiked
<1> QED
  BY ScanInit, <1>1, PTL DEF Spec

\* At most one: a set whose elements are all the same.
LEMMA AtMostOne ==
  ASSUME NEW S, \A x, y \in S : x = y
  PROVE  Cardinality(S) \in Nat /\ Cardinality(S) <= 1
<1>1. CASE S = {}
  BY <1>1, FS_EmptySet
<1>2. CASE S # {}
  <2>1. PICK x : S = {x}
    BY <1>2
  <2> QED
    BY <2>1, FS_Singleton
<1> QED
  BY <1>1, <1>2

\* Every click is due: at most one behind the restriction and at most one behind the
\* stop event, wherever the page changes; and where it holds still in the delays only
\* organic posts above the marker, each of them once.
THEOREM ClicksAreDue == Spec => []EveryClickIsDue
<1>1. ScanInv => EveryClickIsDue
  <2> SUFFICES ASSUME ScanInv PROVE ClicksAreRight /\ NoClickAfterWarning
    BY DEF EveryClickIsDue
  <2>1. NoClickAfterWarning
    <3>1. Cardinality({n \in DOMAIN clicks : clicks[n].warned}) <= 1
      BY AtMostOne DEF ScanInv, WarnedOnce
    <3>2. Cardinality({n \in DOMAIN clicks : clicks[n].late}) <= 1
      BY AtMostOne DEF ScanInv, LateOnce
    <3> QED
      BY <3>1, <3>2 DEF NoClickAfterWarning
  <2>2. ClicksAreRight
    <3> SUFFICES ASSUME ~shifted
                 PROVE  /\ OnlyOrganicIsClicked
                        /\ \A n \in DOMAIN clicks :
                             marker # 0 => clicks[n].post \in Elements(SubSeq(feed, 1, marker))
                        /\ \A m, n \in DOMAIN clicks : clicks[m].post = clicks[n].post => m = n
      BY DEF ClicksAreRight
    <3>1. AreSeen /\ AreOnce
      BY DEF ScanInv, ClicksAreSeen
    <3>2. \A k \in 1..marker : feed[k] \in Elements(SubSeq(feed, 1, marker))
      <4> DEFINE top == SubSeq(feed, 1, marker)
      <4>1. marker \in Nat /\ marker <= Len(feed) /\ \A k \in 1..marker : feed[k] \in Posts
        <5>1. TypeOK
          BY DEF ScanInv, PlaceInv
        <5>2. marker <= Len(feed) /\ marker \in Nat /\ Len(feed) \in Nat
          BY <5>1, PlaceFacts DEF TypeOK
        <5> QED
          BY <5>1, <5>2, PlaceFacts
      <4>2. /\ top \in Seq(Posts) /\ Len(top) = (IF 1 <= marker THEN marker - 1 + 1 ELSE 0)
            /\ \A k \in 1..(marker - 1 + 1) : top[k] = feed[1 + k - 1]
        BY <4>1, SubSeqProperties
      <4> HIDE DEF top
      <4>3. \A k \in 1..marker : k \in DOMAIN top /\ top[k] = feed[k]
        BY <4>1, <4>2
      <4>4. \A k \in 1..marker : feed[k] \in Elements(top)
        BY <4>3 DEF Elements
      <4> QED
        BY <4>4 DEF top
    <3> QED
      BY <3>1, <3>2 DEF AreSeen, AreOnce, OnlyOrganicIsClicked
  <2> QED
    BY <2>1, <2>2
<1> QED
  BY ScanHolds, <1>1, PTL

\* The summary is true: every discovered post is in one counter or in hand, the limit
\* holds, and a scan that is caught up without a failure has liked every organic post
\* above the marker.
THEOREM SummaryTrue == Spec => []SummaryIsTrue
<1>1. ScanInv => SummaryIsTrue
  <2> SUFFICES ASSUME ScanInv PROVE SummaryAddsUp /\ CaughtUpMeansLiked
    BY DEF SummaryIsTrue
  <2>t. TypeOK /\ Sorted \in Nat /\ \A c \in Counter : summary[c] \in Nat
    BY CounterFacts DEF ScanInv, PlaceInv, TypeOK
  <2>1. SummaryAddsUp
    BY <2>t DEF ScanInv, Tallied, SummaryAddsUp, Sorted, Counter
  <2>2. CaughtUpMeansLiked
    <3> SUFFICES ASSUME outcome = "caught_up", ~shifted, summary["failed"] + summary["unknown"] = 0,
                        NEW n \in (dropped + 1)..marker
                 PROVE  feed[n] \in likes \cup Excluded
      BY DEF CaughtUpMeansLiked
    <3>1. summary["failed"] = 0 /\ summary["unknown"] = 0
      BY <2>t DEF Counter
    <3>2. ~InHand
      BY DEF ScanInv, PlaceInv, Standing, InHand
    <3> QED
      BY <3>1, <3>2 DEF ScanInv, SeenAreLiked, Untroubled, AreLiked, SawAll
  <2> QED
    BY <2>1, <2>2
<1> QED
  BY ScanHolds, <1>1, PTL
===============================================================================
