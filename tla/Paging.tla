------------------------------- MODULE Paging -------------------------------
(***************************************************************************)
(* The loops of the library that collect a list from pages: followers,     *)
(* medias, comments, threads, hashtags, stories, ...  Every method is a    *)
(* record of a table; one machine runs the record against a server that    *)
(* serves the list 1..Listing.                                             *)
(*                                                                         *)
(* A method has at most two loops.  A PAGE is one request, or a chunk that *)
(* loops by itself; the LOOP of the method asks for page after page, and   *)
(* is a single call for a method that only trims what a chunk returned.    *)
(***************************************************************************)
EXTENDS Integers, Sequences, FiniteSets

CONSTANTS Methods,      \* names of the methods examined, a subset of DOMAIN Calls
          Listing,      \* number of items of the list on the server
          PageMax,      \* items of the longest page
          Amounts,      \* the amounts callers give; 0 stands for all
          PageSizes,    \* the page sizes given to iterators; 0 is the default
          Known,        \* last_media_pk given by the caller; 0 for none
          MaxFaults,    \* bound on irregular answers
          MaxRequests   \* bound on requests, never reached when a method ends

ASSUME PagingAssumption ==
    /\ {Listing, PageMax, MaxRequests} \subseteq Nat \ {0}
    /\ Amounts \cup PageSizes \cup Known \cup {MaxFaults} \subseteq Nat

VARIABLES call,     \* the method the caller called
          method,   \* the method that runs: call, or what it falls back to
          amount, size, known,  \* arguments
          pc,       \* "asking", "done", "raised"
          alt,      \* which of the method's alternative pages is asked
          inner,    \* the chunk: items so far, cursor
          outer,    \* the method: items so far, cursor, the page that issued it
          faults,   \* history: what the server did, a sequence
          requests  \* history: number of requests
vars == <<call, method, amount, size, known, pc, alt, inner, outer, faults, requests>>

(***************************************************************************)
(* Stages.                                                                 *)
(*   asks   how many items a request names: "left" what is missing,        *)
(*          "limit" the limit again, "free" a number of its own or none    *)
(*   keeps  "all" of a page, "new" items only, "cut" at the limit          *)
(*   stops  what ends the loop: no more flag, no cursor, an empty page,    *)
(*          the limit, the limit from the second page on ("later"), more   *)
(*          than the limit, the cursor asked for; {} is a single request   *)
(*   cursor where the next request starts: the cursor of the answer, only  *)
(*          together with the more flag ("flagged"), the last item         *)
(*          ("item"), or always the start ("none")                         *)
(*   trims  the result is cut at the limit: "no", "always", "unlessLast"   *)
(*   keepsOn  errors that end the loop with what it has                    *)
(*   fallsOn  errors upon which the next alternative page is asked         *)
(*   tied   a cursor of this page is recognised, and its API is kept       *)
(*   known  the loop ends before the item of last_media_pk                 *)
(***************************************************************************)
Single == [asks |-> "free", keeps |-> "all", stops |-> {}, cursor |-> "answer",
           trims |-> "no", keepsOn |-> {}, fallsOn |-> {}, tied |-> FALSE, known |-> FALSE]
Errors == {"private", "client"}     \* PrivateError and what it covers, any other

\* -- pages and chunks ----------------------------------------------------
UserFollowingGqlChunk == [Single EXCEPT !.stops = {"flag", "cursor", "amount"}]
UserFollowersGqlChunk == [Single EXCEPT !.stops = {"flag", "cursor", "amount"}]
\* Mutant: the amount does not end the loop.
FollowingWholeChunk == [Single EXCEPT !.asks = "left", !.keeps = "new", !.stops = {"cursor"}]
UserFollowingV1Chunk ==
    [Single EXCEPT !.asks = "left", !.keeps = "new", !.stops = {"cursor", "amount"}]
\* Mutant: the chunk cuts its page at the limit and hands on the cursor behind it.
FollowersCutChunk == [Single EXCEPT !.keeps = "cut", !.stops = {"cursor", "amount"}]
UserFollowersV1Chunk ==
    [Single EXCEPT !.asks = "left", !.keeps = "new", !.stops = {"cursor", "amount"}]
\* Mutant: only the amount ends the loop.
RequestsWithoutCursorChunk == [Single EXCEPT !.asks = "limit", !.keeps = "new", !.stops = {"amount"}]
FollowRequestsChunk ==
    [Single EXCEPT !.asks = "limit", !.keeps = "new", !.stops = {"cursor", "amount"}]
FollowersPrivateGqlChunk == [Single EXCEPT !.keeps = "cut"]
UserMediasAppGql ==
    [Single EXCEPT !.asks = "limit", !.cursor = "flagged", !.trims = "always", !.fallsOn = Errors]
UserMediasPublicGql == [Single EXCEPT !.asks = "limit", !.trims = "always"]
UserMediasPageV1 == [Single EXCEPT !.asks = "limit", !.trims = "always", !.keepsOn = {"client"},
                                   !.fallsOn = {"client"}, !.tied = TRUE]
UserClipsPageV1 == [Single EXCEPT !.keepsOn = {"client"}]
UserVideosPageV1 == [Single EXCEPT !.cursor = "none", !.trims = "always", !.keepsOn = {"client"}]
ArchiveMediasPageV1 == [Single EXCEPT !.trims = "always"]
UsertagPageV1 == [Single EXCEPT !.trims = "always", !.fallsOn = Errors]
UsertagPageGql == [Single EXCEPT !.asks = "limit", !.trims = "always"]
HashtagMediasV1Chunk == [Single EXCEPT !.keeps = "cut", !.cursor = "flagged",
                                       !.fallsOn = {"client"}, !.tied = TRUE]
HashtagMediasPageGql == [Single EXCEPT !.asks = "limit", !.cursor = "flagged", !.trims = "always",
                                       !.fallsOn = {"client"}]
LocationMediasV1Chunk == Single
CollectionMediasV1Chunk == Single
ThreadedCommentsGqlChunk == [Single EXCEPT !.cursor = "flagged"]
CommentsGqlChunk == [Single EXCEPT !.cursor = "flagged"]
CommentLikersGqlChunk == [Single EXCEPT !.cursor = "flagged"]
CommentsV1Chunk == Single
CommentsChunk == [Single EXCEPT !.stops = {"flag", "cursor", "later"}]
CommentRepliesPage == [Single EXCEPT !.stops = {"flag", "cursor", "amount"}]
DirectThreadsChunk == Single
DirectPendingChunk == Single
DirectSpamChunk == Single
DirectThreadPage == [Single EXCEPT !.stops = {"cursor", "amount"}]
DirectMediaPage == [Single EXCEPT !.stops = {"flag", "amount"}, !.cursor = "item"]
MediaSearchPage == [Single EXCEPT !.keeps = "cut", !.stops = {"flag", "cursor", "amount"}]
InsightsPage == [Single EXCEPT !.stops = {"flag", "amount"}]
ReelsPage == [Single EXCEPT !.stops = {"flag", "amount"}, !.keepsOn = Errors,
                            !.trims = "unlessLast", !.known = TRUE]
CollectionsPage == [Single EXCEPT !.stops = {"flag"}, !.keepsOn = Errors]
ArchiveDaysPageV1 == [Single EXCEPT !.trims = "always"]
ArchiveStoriesBatch == [Single EXCEPT !.keeps = "cut", !.stops = {"flag", "amount"}]
StoryViewersChunk == [Single EXCEPT !.keeps = "new", !.stops = {"cursor", "amount"}]
StoryLikersChunk == [Single EXCEPT !.keeps = "new", !.stops = {"cursor", "amount"}]
UsertagMediasGqlPage == [Single EXCEPT !.stops = {"flag", "cursor", "empty", "amount"}]
UsertagMediasV1Page == [Single EXCEPT !.stops = {"flag", "amount"}, !.keepsOn = {"client"}]

\* -- the loop of a method ------------------------------------------------
Trimmed == [Single EXCEPT !.trims = "always"]                    \* users[:amount]
CursorLoop == [Trimmed EXCEPT !.stops = {"cursor", "amount"}]
PageLoop == [Trimmed EXCEPT !.stops = {"cursor", "empty", "amount"}]
IterPaginated == [Single EXCEPT !.keeps = "cut", !.stops = {"empty", "cursor", "same", "amount"}]

\* A method: its alternative pages, the limit it gives them ("whole", "rest",
\* "page" or "none"), its loop, and the method it falls back to upon which errors.
Method(pages, gives, loop) ==
    [pages |-> pages, gives |-> gives, loop |-> loop, then |-> "", upon |-> {}, zero |-> "all"]
Else(m, then, upon) == [m EXCEPT !.then = then, !.upon = upon]

UserFollowingGql == Method(<<UserFollowingGqlChunk>>, "whole", Trimmed)
UserFollowingV1 == Method(<<UserFollowingV1Chunk>>, "whole", Trimmed)
UserFollowing == Else(UserFollowingV1, "user_following_gql", Errors)
UserFollowingPublic == Else(UserFollowingGql, "user_following_v1", Errors)
UserFollowersGql == Method(<<UserFollowersGqlChunk>>, "whole", Trimmed)
UserFollowersV1 == Method(<<UserFollowersV1Chunk>>, "whole", Trimmed)
UserFollowersPrivateGql == Method(<<FollowersPrivateGqlChunk>>, "rest", PageLoop)
IterUserFollowing == Method(<<UserFollowingV1Chunk>>, "page", IterPaginated)
IterUserFollowers == Method(<<UserFollowersV1Chunk>>, "page", IterPaginated)
FollowRequests == Method(<<FollowRequestsChunk>>, "whole", Trimmed)
UserMediasGql == Method(<<UserMediasAppGql, UserMediasPublicGql>>, "whole", PageLoop)
UserMediasV1 == Method(<<UserMediasPageV1>>, "whole", CursorLoop)
UserVideosV1 == Method(<<UserVideosPageV1>>, "whole", CursorLoop)
UserMedias == Else(UserMediasV1, "user_medias_gql", {"client"})
UserMediasPublic == Else(UserMediasGql, "user_medias_v1", {"client"})
IterUserMedias ==
    Method(<<UserMediasPageV1, UserMediasAppGql, UserMediasPublicGql>>, "page", IterPaginated)
UserClipsV1 == Method(<<UserClipsPageV1>>, "none", CursorLoop)
ArchiveMediasV1 == Method(<<ArchiveMediasPageV1>>, "whole", CursorLoop)
UsertagMediasGql == Method(<<UsertagMediasGqlPage>>, "whole", Trimmed)
UsertagMediasV1 == Method(<<UsertagMediasV1Page>>, "whole", Trimmed)
UsertagMedias == Else(UsertagMediasV1, "usertag_medias_gql", Errors)
UsertagMediasPaginated == Method(<<UsertagPageV1, UsertagPageGql>>, "whole", Single)
HashtagMediasPaginated ==
    Method(<<HashtagMediasV1Chunk, HashtagMediasPageGql>>, "whole", Single)
HashtagMediasPublic ==
    Method(<<HashtagMediasPageGql, HashtagMediasV1Chunk>>, "whole", Single)
IterHashtagMedias ==
    Method(<<HashtagMediasV1Chunk, HashtagMediasPageGql>>, "page", IterPaginated)
HashtagMediasV1 == Method(<<HashtagMediasV1Chunk>>, "whole", CursorLoop)
LocationMediasV1 == Method(<<LocationMediasV1Chunk>>, "none", CursorLoop)
Collections == Method(<<CollectionsPage>>, "none", Single)
CollectionMediasV1 ==
    Method(<<CollectionMediasV1Chunk>>, "none", [PageLoop EXCEPT !.known = TRUE])
ThreadedCommentsGql == Method(<<ThreadedCommentsGqlChunk>>, "none", PageLoop)
CommentsGql == Method(<<CommentsGqlChunk>>, "none", PageLoop)
CommentLikersGql == Method(<<CommentLikersGqlChunk>>, "none", PageLoop)
CommentsV1 == Method(<<CommentsV1Chunk>>, "none", [Trimmed EXCEPT !.stops = {"empty", "over"}])
Comments == Method(<<CommentsChunk>>, "whole", Trimmed)
CommentReplies == Method(<<CommentRepliesPage>>, "whole", Trimmed)
DirectThreads == Method(<<DirectThreadsChunk>>, "none", CursorLoop)
DirectPendingInbox == Method(<<DirectPendingChunk>>, "none", CursorLoop)
DirectSpamInbox == Method(<<DirectSpamChunk>>, "none", CursorLoop)
DirectThread == Method(<<DirectThreadPage>>, "whole", Trimmed)
DirectMedia == Method(<<DirectMediaPage>>, "whole", Trimmed)
MediaSearch == Method(<<MediaSearchPage>>, "whole", Trimmed)
InsightsMediaFeedAll == Method(<<InsightsPage>>, "whole", Trimmed)
ReelsTimelineMedia == [Method(<<ReelsPage>>, "whole", Single) EXCEPT !.zero = "none"]
ArchiveStoryDaysV1 == Method(<<ArchiveDaysPageV1>>, "whole", CursorLoop)
ArchiveStoriesV1 == Method(<<ArchiveStoriesBatch>>, "whole", Single)
StoryViewers == Method(<<StoryViewersChunk>>, "whole", Trimmed)
StoryLikers == Method(<<StoryLikersChunk>>, "whole", Trimmed)

Calls == [
    user_following |-> UserFollowing, user_following_public |-> UserFollowingPublic,
    user_following_gql |-> UserFollowingGql, user_following_v1 |-> UserFollowingV1,
    user_followers_gql |-> UserFollowersGql, user_followers_v1 |-> UserFollowersV1,
    user_followers_private_gql |-> UserFollowersPrivateGql,
    iter_user_following_v1 |-> IterUserFollowing, iter_user_followers_v1 |-> IterUserFollowers,
    user_follow_requests |-> FollowRequests,
    user_medias |-> UserMedias, user_medias_public |-> UserMediasPublic,
    user_medias_gql |-> UserMediasGql, user_medias_v1 |-> UserMediasV1,
    iter_user_medias |-> IterUserMedias, user_videos_v1 |-> UserVideosV1,
    user_clips_v1 |-> UserClipsV1, archive_medias_v1 |-> ArchiveMediasV1,
    usertag_medias |-> UsertagMedias, usertag_medias_gql |-> UsertagMediasGql,
    usertag_medias_paginated |-> UsertagMediasPaginated,
    hashtag_medias_paginated |-> HashtagMediasPaginated,
    hashtag_medias_public |-> HashtagMediasPublic,
    iter_hashtag_medias |-> IterHashtagMedias, hashtag_medias_v1 |-> HashtagMediasV1,
    location_medias_v1 |-> LocationMediasV1, collections |-> Collections,
    collection_medias_v1 |-> CollectionMediasV1,
    media_comments_threaded_gql |-> ThreadedCommentsGql, media_comments_gql |-> CommentsGql,
    comment_likers_gql |-> CommentLikersGql, media_comments_v1 |-> CommentsV1,
    media_comments |-> Comments, media_comment_replies |-> CommentReplies,
    direct_threads |-> DirectThreads, direct_pending_inbox |-> DirectPendingInbox,
    direct_spam_inbox |-> DirectSpamInbox, direct_thread |-> DirectThread,
    direct_media |-> DirectMedia, media_search |-> MediaSearch,
    insights_media_feed_all |-> InsightsMediaFeedAll,
    reels_timeline_media |-> ReelsTimelineMedia,
    archive_story_days_v1 |-> ArchiveStoryDaysV1, archive_stories_v1 |-> ArchiveStoriesV1,
    story_viewers |-> StoryViewers, story_likers |-> StoryLikers]

ASSUME MethodsAssumption == Methods \subseteq DOMAIN Calls

\* The methods whose lists are whole.  Of the others, user_videos_v1 and media_comments_v1 ask for
\* the same page again and again, and iter_hashtag_medias loses what is behind its page size.
Dependable == DOMAIN Calls \ {"user_videos_v1", "media_comments_v1", "iter_hashtag_medias"}

\* -- the machine ---------------------------------------------------------
Lesser(a, b) == IF a < b THEN a ELSE b
First(s, n) == SubSeq(s, 1, Lesser(n, Len(s)))
ItemsOf(s) == {s[i] : i \in 1..Len(s)}
Interval(a, b) == [i \in 1..(b - a + 1) |-> a + i - 1]

M == Calls[method]
P == M.pages[alt]
Start == [items |-> <<>>, cursor |-> 0]

\* The limit a page is given; 0 stands for none.
Limit ==
    LET left == IF amount = 0 THEN 0 ELSE amount - Len(outer.items)
    IN  CASE M.gives = "whole" -> amount
          [] M.gives = "rest" -> left
          [] M.gives = "page" -> IF 0 \in {left, size} THEN left + size ELSE Lesser(size, left)
          [] M.gives = "none" -> 0

\* What a request names, 0 for nothing.
Asked == CASE P.asks = "left" /\ Limit > 0 -> Limit - Len(inner.items)
           [] P.asks = "limit" -> Limit
           [] OTHER -> 0

\* The items of a page before the one the caller knows already.
Before(stage, page) ==
    IF stage.known /\ known \in ItemsOf(page)
    THEN First(page, (CHOOSE i \in 1..Len(page) : page[i] = known) - 1) ELSE page
\* One item of the page after the other, those that are there already left out.
WithNew(items, page) ==
    LET kept[i \in 0..Len(page)] ==
            IF i = 0 THEN items
            ELSE IF page[i] \in ItemsOf(kept[i - 1]) THEN kept[i - 1]
            ELSE Append(kept[i - 1], page[i])
    IN  kept[Len(page)]
Gathered(stage, items, page, limit) ==
    CASE stage.keeps = "new" -> WithNew(items, page)
      [] stage.keeps = "cut" /\ limit > 0 -> First(items \o page, limit)
      [] OTHER -> items \o Before(stage, page)

\* Does the loop end after this page?
Ends(stage, page, more, next, asked, items, limit) ==
    \/ stage.stops = {}
    \/ "flag" \in stage.stops /\ ~more
    \/ "cursor" \in stage.stops /\ next = 0
    \/ "empty" \in stage.stops /\ page = <<>>
    \/ "same" \in stage.stops /\ next = asked
    \/ "amount" \in stage.stops /\ limit > 0 /\ Len(items) >= limit
    \/ "later" \in stage.stops /\ limit > 0 /\ asked # 0 /\ Len(items) >= limit
    \/ "over" \in stage.stops /\ limit > 0 /\ Len(items) > limit
    \/ stage.known /\ known \in ItemsOf(page)
Trim(stage, items, limit, more) ==
    IF limit > 0 /\ stage.trims \in (IF more THEN {"always", "unlessLast"} ELSE {"always"})
    THEN First(items, limit) ELSE items

\* The page was returned to the loop of the method: another one, or the end.
Returned(page, next) ==
    LET got == Gathered(M.loop, outer.items, page, amount)
        ends == Ends(M.loop, page, TRUE, next, outer.cursor, got, amount)
    IN  /\ outer' = [items |-> IF ends THEN Trim(M.loop, got, amount, TRUE) ELSE got,
                     cursor |-> next, from |-> alt]
        /\ pc' = IF ends THEN "done" ELSE "asking"
        /\ alt' = IF P.tied THEN alt ELSE 1
        /\ inner' = [items |-> <<>>, cursor |-> next]
        /\ UNCHANGED method

\* An answer reached the page.
Handled(page, more, cursor) ==
    LET got == Gathered(P, inner.items, page, Limit)
        next == CASE P.cursor = "flagged" /\ ~more -> 0
                  [] P.cursor = "item" -> IF page = <<>> THEN inner.cursor ELSE page[Len(page)]
                  [] OTHER -> cursor
    IN  IF Ends(P, page, more, next, inner.cursor, got, Limit)
        THEN Returned(Trim(P, got, Limit, more), next)
        ELSE /\ inner' = [items |-> got, cursor |-> next]
             /\ UNCHANGED <<outer, pc, alt, method>>

\* Mutant: what was collected before the error stays when the call falls back.
RaisedJoined(kind) ==
    IF kind \in P.keepsOn
    THEN Returned(inner.items, 0)
    ELSE IF kind \in P.fallsOn /\ alt < Len(M.pages) /\ ~(P.tied /\ outer.cursor # 0)
    THEN /\ alt' = alt + 1 /\ inner' = [items |-> <<>>, cursor |-> outer.cursor]
         /\ UNCHANGED <<outer, pc, method>>
    ELSE IF kind \in M.upon
    THEN /\ method' = M.then /\ alt' = 1 /\ inner' = [items |-> inner.items, cursor |-> 0]
         /\ outer' = [outer EXCEPT !.cursor = 0, !.from = 1]
         /\ UNCHANGED pc
    ELSE pc' = "raised" /\ inner' = Start /\ UNCHANGED <<outer, alt, method>>
\* An error was raised in the page.
Raised(kind) ==
    IF kind \in P.keepsOn
    THEN Returned(inner.items, 0)
    ELSE IF kind \in P.fallsOn /\ alt < Len(M.pages) /\ ~(P.tied /\ outer.cursor # 0)
    THEN /\ alt' = alt + 1 /\ inner' = [items |-> <<>>, cursor |-> outer.cursor]
         /\ UNCHANGED <<outer, pc, method>>
    ELSE IF kind \in M.upon
    THEN /\ method' = M.then /\ alt' = 1 /\ inner' = Start
         /\ outer' = [items |-> <<>>, cursor |-> 0, from |-> 1]
         /\ UNCHANGED pc
    ELSE pc' = "raised" /\ inner' = Start /\ UNCHANGED <<outer, alt, method>>

\* A cursor of one API that is given to another is refused.
Foreign == inner.cursor # 0 /\ inner.items = <<>> /\ outer.from # alt

Request == /\ pc = "asking" /\ requests < MaxRequests
           /\ requests' = requests + 1
           /\ UNCHANGED <<call, amount, size, known>>
At == IF P.cursor = "none" THEN 0 ELSE inner.cursor
Irregular(f) == Len(faults) < MaxFaults /\ faults' = Append(faults, f)

\* The next items, with the cursor that follows them; after the last one
\* there is no cursor, or one that leads to an empty page.
Serves ==
    /\ Request /\ ~Foreign
    /\ \E n \in 0..PageMax :
          LET page == Interval(At + 1, At + n)
              last == At + n = Listing
          IN  /\ n = 0 => last
              /\ At + n <= Listing /\ (Asked > 0 => n <= Asked)
              /\ \E next \in (IF ~last THEN {At + n} ELSE IF n = 0 THEN {0} ELSE {0, Listing}) :
                    Handled(page, ~last, next)
    /\ UNCHANGED faults

\* An empty page in the middle of the list.
ServesNothing ==
    /\ Request /\ ~Foreign /\ At \in 1..(Listing - 1)
    /\ Irregular("empty")
    /\ Handled(<<>>, TRUE, At)

\* A page whose cursor leads back, or is missing though there is more.
LeadsBack ==
    /\ Request /\ ~Foreign /\ At < Listing
    /\ \E next \in 0..At :
          /\ Irregular("back")
          /\ Handled(<<At + 1>>, TRUE, next)

Fails ==
    /\ Request
    /\ \E kind \in Errors :
          /\ IF Foreign THEN UNCHANGED faults /\ kind = "client" ELSE Irregular(kind)
          /\ Raised(kind)

Init ==
    /\ call \in Methods /\ method = call
    /\ amount \in (IF call = "collections" THEN {0} ELSE Amounts)
    /\ known \in (IF \E stage \in {Calls[call].pages[1], Calls[call].loop} : stage.known
                  THEN Known ELSE {0})
    /\ size \in (IF Calls[call].gives = "page" THEN PageSizes ELSE {0})
    /\ pc = IF Calls[call].zero = "none" /\ amount = 0 THEN "done" ELSE "asking"
    /\ alt = 1 /\ inner = Start /\ outer = [items |-> <<>>, cursor |-> 0, from |-> 1]
    /\ faults = <<>> /\ requests = 0

Next == Serves \/ ServesNothing \/ LeadsBack \/ Fails
Spec == Init /\ [][Next]_vars
FairSpec == Spec /\ WF_vars(Next)

(***************************************************************************)
(* Properties.                                                             *)
(***************************************************************************)
Happened == ItemsOf(faults)
Stages == ItemsOf(M.pages) \cup {M.loop}
Quiet == \E stage \in Stages : stage.keepsOn # {}
OnePage == M.loop.stops = {} /\ P.stops = {}
Available ==
    IF known \in 1..Listing /\ \E stage \in Stages : stage.known THEN known - 1 ELSE Listing
Complete == CASE amount = 0 /\ M.zero = "none" -> 0
              [] amount = 0 /\ M.zero = "all" -> Available
              [] amount > 0 -> Lesser(amount, Available)

TypeOK ==
    /\ call \in Methods /\ method \in DOMAIN Calls
    /\ amount \in Amounts \cup {0} /\ size \in PageSizes \cup {0} /\ known \in Known \cup {0}
    /\ pc \in {"asking", "done", "raised"}
    /\ alt \in 1..Len(M.pages)
    /\ inner.cursor \in 0..Listing /\ outer.cursor \in 0..Listing
    /\ ItemsOf(inner.items) \cup ItemsOf(outer.items) \subseteq 1..Listing
    /\ pc = "asking" => Limit \in Nat /\ Asked \in Nat
    /\ Len(faults) <= MaxFaults /\ requests <= MaxRequests

\* A method that returns has the whole list, or as much of it as was asked for,
\* in the order of the server: an error on the way is raised, or the list is
\* collected anew by the method it falls back to (user_following,
\* usertag_medias), never joined to the part before the error.  Exempt are one
\* page at a time, the methods that by their code take an error for the end,
\* and the surplus of reels_timeline_media.
DoneMeansComplete ==
    pc = "done" /\ Happened \subseteq Errors /\ ~OnePage /\ ~(Quiet /\ faults # <<>>)
    /\ call # "reels_timeline_media"
        => outer.items = Interval(1, Complete)

\* No page boundary loses or repeats an item, whatever the amounts and page
\* sizes given to chunks and iterators, at any moment, as long as cursors lead
\* to the next item.
NothingSkipped ==
    Happened \subseteq Errors \cup {"empty"}
        => LET all == outer.items \o inner.items IN all = Interval(1, Len(all))

\* Chunks that collect unique users return none twice, wherever cursors lead.
Unique == {"user_following_v1", "user_followers_v1", "user_follow_requests",
           "story_viewers", "story_likers"}
NoneTwice ==
    call \in Unique
        => \A i, j \in 1..Len(outer.items) : outer.items[i] = outer.items[j] => i = j

\* Whatever is collected is collected without a gap and without a repetition.
CollectedOnce == NothingSkipped /\ NoneTwice

\* No more than the amount is returned, and a request on the way never names
\* the number 0, which stands for no limit.
AmountIsKept ==
    amount > 0 /\ call # "reels_timeline_media" =>
        /\ pc = "done" => Len(outer.items) <= amount
        /\ pc = "asking" /\ M.gives # "none" => Limit > 0
        /\ pc = "asking" /\ P.asks = "left" => Asked > 0

\* A list that is returned is the one that was asked for, in length and contents.
AnswerIsTheList == DoneMeansComplete /\ AmountIsKept

\* A method ends as soon as the server's answers are in order again.
Terminates == <>(pc # "asking")

=============================================================================
