---------------------------- MODULE AccountCaches ----------------------------
(***************************************************************************)
(* The caches of UserMixin, MediaMixin and StoryMixin: users, short users, *)
(* names, the two follow lists, medias and stories.  They are attributes   *)
(* of the classes, so that every client of a process uses the same ones:   *)
(* a client with a session and one without take turns here.  Calls do not  *)
(* overlap; names, lists and medias change on the server between any two   *)
(* requests.                                                               *)
(*                                                                         *)
(* The caches fall into four areas that share no state.  A behaviour       *)
(* examines one of them, chosen at the start.                              *)
(***************************************************************************)
EXTENDS Integers, Sequences, FiniteSets, SequencesExt

CONSTANTS Users,        \* accounts other than the client's own
          Names,        \* usernames
          Amounts,      \* the amounts callers give; 0 stands for all
          Limited,      \* followers shown when Instagram limits the list
          NULL,
          MaxChanges,   \* bound on what others change on the server
          MaxFaults     \* bound on failing requests

ASSUME CachesAssumption ==
    /\ IsFiniteSet(Users) /\ IsFiniteSet(Names) /\ Cardinality(Names) > Cardinality(Users)
    /\ NULL \notin Users \cup Names
    /\ Amounts \subseteq Nat /\ {Limited, MaxChanges, MaxFaults} \subseteq Nat

VARIABLES area,       \* "names", "following", "followers" or "medias"
          \* the server
          name,       \* the name every account bears
          served,     \* the own account's two lists, the newest entry first
          requested,  \* accounts that were asked and have not accepted yet
          media,      \* the version of the own media, Gone when deleted
          story,      \* the own story is up
          \* the caches
          users, shorts, names, lists, medias, stories,
          \* the client
          call,       \* the call that runs
          answer,     \* what the last call returned
          \* history
          bore,       \* who bore which name
          mine,       \* accounts this process followed since it cached the list
          own,        \* the last own edit of the media; whether this process deleted
                      \* it, or the story
          changes, faults
server == <<name, served, requested, media, story>>
nameCaches == <<users, shorts, names>>
mediaCaches == <<medias, stories>>
history == <<bore, mine, own>>
vars == <<area, server, nameCaches, lists, mediaCaches, call, answer, history, changes, faults>>

Gone == -1
User == [pk : Users, name : Names]
Kinds == {"following", "followers"}
Spellings == {"pk", "id"}   \* of a story: "1" and "1_2", both names of one story
Idle == [op |-> "none", user |-> NULL, name |-> NULL, kind |-> NULL, amount |-> 0,
         cached |-> TRUE, private |-> TRUE, at |-> "idle"]
Nothing == [op |-> "none", user |-> NULL, name |-> NULL, amount |-> 0, cached |-> TRUE,
            kind |-> NULL, whole |-> FALSE, who |-> NULL, list |-> <<>>, verdict |-> "none",
            seen |-> <<>>]

Free(n) == \A u \in Users : name[u] # n
Cut(list, amount) == IF amount = 0 \/ Len(list) <= amount THEN list ELSE SubSeq(list, 1, amount)
OnceEach(list) == \A i, j \in 1..Len(list) : list[i] = list[j] => i = j
ListsOf(S) == {s \in BoundedSeq(S, Cardinality(S)) : OnceEach(s)}

Init ==
    /\ area \in {"names", "medias"} \cup Kinds
    /\ name \in [Users -> Names] /\ \A u, v \in Users : name[u] = name[v] => u = v
    /\ \E list \in ListsOf(Users) :
          served = [k \in Kinds |-> IF k = area THEN list ELSE <<>>]
    /\ requested = {} /\ media = 0 /\ story = TRUE
    /\ users = [u \in Users |-> NULL] /\ shorts = [u \in Users |-> NULL]
    /\ names = [n \in Names |-> NULL]
    /\ lists = [k \in Kinds |-> NULL]
    /\ medias = NULL /\ stories = [key \in Spellings |-> NULL]
    /\ call = Idle /\ answer = Nothing
    /\ bore = {<<name[u], u>> : u \in Users} /\ mine = {}
    /\ own = [media |-> 0, deleted |-> "no", story |-> 0]
    /\ changes = 0 /\ faults = 0

(***************************************************************************)
(* Calls.  A call asks one source after the other: the private API first   *)
(* when the client has a session, the public one first when it has none.   *)
(***************************************************************************)
Fault == faults < MaxFaults /\ faults' = faults + 1
NoFault == UNCHANGED faults

PublicStep(op) == IF op = "by_username" THEN "web" ELSE "public"
First(c) == IF c.private THEN "private" ELSE PublicStep(c.op)

Ask(c) == call' = [c EXCEPT !.at = First(c)] /\ answer' = Nothing
\* With the answer (as history) the names the accounts bear when it comes.
Return(c, r) ==
    /\ answer' = [f \in DOMAIN Nothing |->
                     IF f = "seen" THEN name
                     ELSE IF f \in DOMAIN r THEN r[f] ELSE IF f \in DOMAIN c THEN c[f] ELSE Nothing[f]]
    /\ call' = Idle
Raise == Return(call, [verdict |-> "raised"])
GoTo(step) == call' = [call EXCEPT !.at = step] /\ UNCHANGED answer

\* A source failed: the other one is asked, or the failure is raised.
FallBack ==
    IF call.op # "short" /\ call.private = (call.at = "private")
    THEN GoTo(IF call.at = "private" THEN PublicStep(call.op) ELSE "private")
    ELSE Raise

(***************************************************************************)
(* Names.                                                                  *)
(***************************************************************************)
NamesOnly == /\ area = "names"
             /\ UNCHANGED <<area, served, requested, media, story, lists, mediaCaches, mine, own>>

\* user_info, user_info_by_username: the cache, or the first source.
AskUserInfo ==
    /\ NamesOnly /\ call = Idle /\ NoFault
    /\ \E u \in Users, cached, private \in BOOLEAN :
          LET c == [Idle EXCEPT !.op = "user_info", !.user = u, !.cached = cached, !.private = private]
          IN  IF cached /\ users[u] # NULL THEN Return(c, [who |-> users[u]]) ELSE Ask(c)
    /\ UNCHANGED <<name, nameCaches, bore, changes>>

AskUserInfoByUsername ==
    /\ NamesOnly /\ call = Idle /\ NoFault
    /\ \E n \in Names, cached, private \in BOOLEAN :
          LET c == [Idle EXCEPT !.op = "by_username", !.name = n, !.cached = cached, !.private = private]
              known == [c EXCEPT !.op = "user_info", !.user = names[n], !.name = NULL]
          IN  IF ~cached \/ names[n] = NULL THEN Ask(c)
              ELSE IF users[names[n]] # NULL THEN Return(c, [who |-> users[names[n]]])
              ELSE Ask(known)
    /\ UNCHANGED <<name, nameCaches, bore, changes>>

\* username_from_user_id and user_short_gql.
AskUsername ==
    /\ NamesOnly /\ call = Idle /\ NoFault
    /\ \E u \in Users, private \in BOOLEAN :
          Ask([Idle EXCEPT !.op = "username", !.user = u, !.private = private])
    /\ UNCHANGED <<name, nameCaches, bore, changes>>

AskUserShort ==
    /\ NamesOnly /\ call = Idle /\ NoFault
    /\ \E u \in Users, cached, private \in BOOLEAN :
          /\ call' = [Idle EXCEPT !.op = "short", !.user = u, !.cached = cached,
                                  !.private = private, !.at = "public"]
          /\ answer' = Nothing
    /\ UNCHANGED <<name, nameCaches, bore, changes>>

\* What a source found is cached under the id that was asked for, and its name
\* under the id that came back; by name, both under the id that came back.
\* Mutant: a name that is cached already keeps its account.
StoreFirst(user) ==
    /\ users' = [users EXCEPT ![IF call.op = "user_info" THEN call.user ELSE user.pk] = user]
    /\ names' = [names EXCEPT ![user.name] = IF @ = NULL THEN user.pk ELSE @]
Store(user) ==
    /\ users' = [users EXCEPT ![IF call.op = "user_info" THEN call.user ELSE user.pk] = user]
    /\ names' = [names EXCEPT ![user.name] = user.pk]

\* user_info_by_username reads the user back through both caches.
Found(user) ==
    /\ IF call.op = "username" THEN UNCHANGED <<users, names>> ELSE Store(user)
    /\ Return(call, [who |-> IF call.op = "by_username" THEN users'[names'[call.name]] ELSE user])

UserInfoV1 ==
    /\ NamesOnly /\ call.at = "private" /\ call.op \in {"user_info", "username"}
    /\ \/ NoFault /\ Found([pk |-> call.user, name |-> name[call.user]])
       \/ Fault /\ FallBack /\ UNCHANGED <<users, names>>
    /\ UNCHANGED <<name, shorts, bore, changes>>

\* By name, from either source: the account that bears the name now, if any does.
ByName ==
    \/ NoFault /\ \E u \in Users : name[u] = call.name /\ Found([pk |-> u, name |-> call.name])
    \/ NoFault /\ Free(call.name) /\ FallBack /\ UNCHANGED <<users, names>>
    \/ Fault /\ FallBack /\ UNCHANGED <<users, names>>
UserInfoByUsernameV1 ==
    /\ NamesOnly /\ call.at = "private" /\ call.op = "by_username"
    /\ ByName /\ UNCHANGED <<name, shorts, bore, changes>>
UserInfoByUsernameGql ==
    /\ NamesOnly /\ call.at = "web"
    /\ ByName /\ UNCHANGED <<name, shorts, bore, changes>>

\* user_short_gql: from its cache, or from the web profile, which needs a session.
\* user_info_gql looks the user up by the name it returns.
Short(n) ==
    IF call.op = "user_info"
    THEN call' = [call EXCEPT !.at = "web", !.name = n] /\ UNCHANGED answer
    ELSE Return(call, [who |-> [pk |-> call.user, name |-> n]])
\* user_web_profile_info_gql, which needs a session.
WebProfile == /\ call.private /\ NoFault
              /\ shorts' = [shorts EXCEPT ![call.user] = name[call.user]]
              /\ Short(name[call.user])
ShortIsCached == shorts[call.user] # NULL /\ (call.op = "short" => call.cached)
UserShortGql ==
    /\ NamesOnly /\ call.at = "public"
    /\ \/ ShortIsCached /\ NoFault /\ Short(shorts[call.user]) /\ UNCHANGED shorts
       \/ ~ShortIsCached /\ WebProfile
       \/ ~ShortIsCached /\ call.private /\ Fault /\ FallBack /\ UNCHANGED shorts
       \/ ~ShortIsCached /\ ~call.private /\ NoFault /\ FallBack /\ UNCHANGED shorts
    /\ UNCHANGED <<name, users, names, bore, changes>>

\* External: an account takes another name.
Rename ==
    /\ NamesOnly /\ changes < MaxChanges
    /\ \E u \in Users, n \in Names :
          /\ Free(n)
          /\ name' = [name EXCEPT ![u] = n]
          /\ bore' = bore \cup {<<n, u>>}
    /\ changes' = changes + 1
    /\ UNCHANGED <<nameCaches, call, answer, faults>>

(***************************************************************************)
(* The follow lists of the own account.                                    *)
(***************************************************************************)
ListsOnly == /\ area \in Kinds
             /\ UNCHANGED <<area, name, media, story, nameCaches, mediaCaches, bore, own>>

\* user_following and user_followers.
CacheServes(c) == /\ c.cached /\ lists[c.kind] # NULL /\ lists[c.kind] # <<>>
                  /\ c.amount = 0 \/ Len(lists[c.kind]) >= c.amount
AskList ==
    /\ ListsOnly /\ call = Idle /\ NoFault
    /\ \E amount \in Amounts, cached, private \in BOOLEAN :
          LET c == [Idle EXCEPT !.op = "list", !.kind = area, !.amount = amount,
                                !.cached = cached, !.private = private]
          IN  IF CacheServes(c) THEN Return(c, [list |-> Cut(lists[area], amount)]) ELSE Ask(c)
    /\ UNCHANGED <<served, requested, lists, mine, changes>>

\* Mutant: what is fetched comes after what was cached.
StoreAfter(list) ==
    /\ lists' = [lists EXCEPT ![call.kind] = IF @ = NULL THEN list ELSE @ \o list]
    /\ mine' = IF call.kind = "following" THEN {} ELSE mine
    /\ Return(call, [list |-> Cut(list, call.amount), whole |-> list = served[call.kind]])
StoreList(list) ==
    /\ lists' = [lists EXCEPT ![call.kind] = list]
    /\ mine' = IF call.kind = "following" THEN {} ELSE mine
    /\ Return(call, [list |-> Cut(list, call.amount), whole |-> list = served[call.kind]])

\* user_following_v1 and user_followers_v1 as Paging has them, and the public ones.
\* A list of followers that Instagram limits is asked for again, publicly, unless it
\* holds the amount; when that fails, once more.
PrivateList ==
    /\ ListsOnly /\ call.at = "private" /\ call.op = "list"
    /\ LET list == Cut(served[call.kind], call.amount)
           short == Cut(list, Limited)
       IN  \/ NoFault /\ StoreList(list)
           \/ /\ call.private /\ call.kind = "followers" /\ NoFault
              /\ IF call.amount = 0 \/ Len(short) < call.amount
                 THEN GoTo("limited") /\ UNCHANGED <<lists, mine>>
                 ELSE StoreList(short)
           \/ Fault /\ FallBack /\ UNCHANGED <<lists, mine>>
    /\ UNCHANGED <<served, requested, changes>>
PublicList ==
    /\ ListsOnly /\ call.at \in {"public", "limited"} /\ call.op = "list"
    /\ \/ NoFault /\ StoreList(Cut(served[call.kind], call.amount))
       \/ /\ Fault /\ UNCHANGED <<lists, mine>>
          /\ IF call.at = "limited" THEN GoTo("public") ELSE FallBack
    /\ UNCHANGED <<served, requested, changes>>

\* user_follow: the cached list, the relation, the request.
AskFollow ==
    /\ ListsOnly /\ area = "following" /\ call = Idle /\ NoFault
    /\ \E u \in Users :
          LET c == [Idle EXCEPT !.op = "follow", !.user = u]
          IN  IF lists["following"] # NULL /\ u \in ToSet(lists["following"])
              THEN Return(c, [verdict |-> "already followed"])
              ELSE call' = [c EXCEPT !.at = "show"] /\ answer' = Nothing
    /\ UNCHANGED <<served, requested, lists, mine, changes>>

UserFriendshipV1 ==
    /\ ListsOnly /\ call.at = "show"
    /\ \/ /\ NoFault
          /\ IF call.user \in ToSet(served["following"]) \cup requested
             THEN Return(call, [verdict |-> "false"])
             ELSE GoTo("create")
       \/ Fault /\ GoTo("create")
    /\ UNCHANGED <<served, requested, lists, mine, changes>>

Remember ==
    IF lists["following"] = NULL THEN UNCHANGED lists
    ELSE lists' = [lists EXCEPT !["following"] =
                      IF call.user \in ToSet(@) THEN @ ELSE Append(@, call.user)]

\* friendships/create: followed, asked a private account, or turned down.
NowFollowed == served' = [served EXCEPT !["following"] = IF call.user \in ToSet(@) THEN @ ELSE <<call.user>> \o @]
UserFollow ==
    /\ ListsOnly /\ call.at = "create"
    /\ \/ /\ NoFault
          /\ \/ NowFollowed /\ requested' = requested \ {call.user}
             \/ /\ call.user \notin ToSet(served["following"])
                /\ requested' = requested \cup {call.user} /\ UNCHANGED served
          /\ Remember
          /\ mine' = mine \cup {call.user}
          /\ Return(call, [verdict |-> "true"])
       \/ /\ NoFault /\ Return(call, [verdict |-> "false"])
          /\ UNCHANGED <<served, requested, lists, mine>>
       \/ /\ Fault /\ Raise
          /\ NowFollowed \/ UNCHANGED served      \* the answer is lost, or the request
          /\ UNCHANGED <<requested, lists, mine>>
    /\ UNCHANGED changes

\* user_unfollow and user_remove_follower look the cached list up under the int
\* user_id, while the lists are kept under str: nothing is removed.
DropFrom(kind) == served' = [served EXCEPT ![kind] = RemoveFirst(@, call.user)]
AskRemoval ==
    /\ ListsOnly /\ call = Idle /\ NoFault
    /\ \E u \in Users :
          call' = [Idle EXCEPT !.op = IF area = "following" THEN "unfollow" ELSE "remove_follower",
                               !.user = u, !.at = "destroy"]
    /\ answer' = Nothing
    /\ UNCHANGED <<served, requested, lists, mine, changes>>
UserUnfollow ==
    /\ ListsOnly /\ call.at = "destroy" /\ call.op = "unfollow"
    /\ \/ NoFault /\ DropFrom("following") /\ requested' = requested \ {call.user}
          /\ mine' = mine \ {call.user} /\ Return(call, [verdict |-> "true"])
       \/ NoFault /\ UNCHANGED <<served, requested, mine>> /\ Return(call, [verdict |-> "false"])
       \/ Fault /\ Raise /\ (DropFrom("following") \/ UNCHANGED served) /\ UNCHANGED <<requested, mine>>
    /\ UNCHANGED <<lists, changes>>
UserRemoveFollower ==
    /\ ListsOnly /\ call.at = "destroy" /\ call.op = "remove_follower"
    /\ \/ NoFault /\ DropFrom("followers") /\ Return(call, [verdict |-> "true"])
       \/ NoFault /\ UNCHANGED served /\ Return(call, [verdict |-> "false"])
       \/ Fault /\ Raise /\ (DropFrom("followers") \/ UNCHANGED served)
    /\ UNCHANGED <<requested, lists, mine, changes>>

\* External: an account starts or stops following; a request is accepted; the own
\* account follows or unfollows from another device.
ListsChange ==
    /\ ListsOnly /\ changes < MaxChanges
    /\ \E u \in Users :
          /\ served' = [served EXCEPT ![area] =
                            IF u \in ToSet(@) THEN RemoveFirst(@, u) ELSE <<u>> \o @]
          /\ requested' = IF area = "following" THEN requested \ {u} ELSE requested
    /\ changes' = changes + 1
    /\ UNCHANGED <<lists, call, answer, mine, faults>>

(***************************************************************************)
(* The own media and the own story.                                        *)
(***************************************************************************)
MediasOnly == /\ area = "medias"
              /\ UNCHANGED <<area, name, served, requested, nameCaches, lists, bore, mine>>

\* media_info, and media_edit, which looks the media up first.
AskMediaInfo ==
    /\ MediasOnly /\ call = Idle /\ NoFault
    /\ \E cached, private \in BOOLEAN :
          LET c == [Idle EXCEPT !.op = "media_info", !.cached = cached, !.private = private]
          IN  IF cached /\ medias # NULL THEN Return(c, [verdict |-> "true"]) ELSE Ask(c)
    /\ UNCHANGED <<media, story, mediaCaches, own, changes>>
AskMediaEdit ==
    /\ MediasOnly /\ call = Idle /\ NoFault
    /\ \E private \in BOOLEAN :
          LET c == [Idle EXCEPT !.op = "edit", !.private = private]
          IN  IF medias # NULL
              THEN call' = [c EXCEPT !.at = "edit"] /\ answer' = Nothing
              ELSE Ask(c)
    /\ UNCHANGED <<media, story, mediaCaches, own, changes>>
Start(op, step) ==
    /\ MediasOnly /\ call = Idle /\ NoFault
    /\ call' = [Idle EXCEPT !.op = op, !.at = step]
    /\ answer' = Nothing
    /\ UNCHANGED <<media, story, mediaCaches, own, changes>>
AskMediaLinkReel == Start("link", "edit")
AskMediaDelete == Start("delete", "delete")
AskStoryDelete == Start("story_delete", "story_delete")

MediaFrom(source) ==
    /\ MediasOnly /\ call.at = source /\ call.op \in {"media_info", "edit"}
    /\ \/ /\ media # Gone /\ NoFault
          /\ medias' = media
          /\ IF call.op = "edit" THEN GoTo("edit") ELSE Return(call, [verdict |-> "true"])
       \/ media = Gone /\ NoFault /\ FallBack /\ UNCHANGED medias
       \/ Fault /\ FallBack /\ UNCHANGED medias
    /\ UNCHANGED <<media, story, stories, own, changes>>
MediaInfoV1 == MediaFrom("private")
MediaInfoGql == MediaFrom("public")

\* The last step of media_edit and media_link_reel: the cache forgets the media
\* before the request leaves, so that a lost answer leaves nothing old behind.
\* Mutant: after the answer, as media_delete does.
Edited == /\ media # Gone /\ media < MaxChanges
          /\ media' = media + 1 /\ own' = [own EXCEPT !.media = media + 1]
MediaEditForgetsLate ==
    /\ MediasOnly /\ call.at = "edit"
    /\ \/ Edited /\ NoFault /\ medias' = NULL /\ Return(call, [verdict |-> "true"])
       \/ Fault /\ Raise /\ (Edited \/ UNCHANGED <<media, own>>) /\ UNCHANGED medias
       \/ UNCHANGED <<media, own>> /\ NoFault /\ medias' = NULL /\ Raise
    /\ UNCHANGED <<story, stories, changes>>
MediaEdit ==
    /\ MediasOnly /\ call.at = "edit"
    /\ medias' = NULL
    /\ \/ Edited /\ NoFault /\ Return(call, [verdict |-> "true"])
       \/ UNCHANGED <<media, own>> /\ NoFault /\ Raise
       \/ Fault /\ Raise /\ (Edited \/ UNCHANGED <<media, own>>)
    /\ UNCHANGED <<story, stories, changes>>

\* media_delete: the cache forgets the media once the answer is there.
MediaDelete ==
    /\ MediasOnly /\ call.at = "delete"
    /\ \/ /\ NoFault /\ medias' = NULL
          /\ \/ /\ media # Gone /\ media' = Gone /\ own' = [own EXCEPT !.deleted = "answered"]
                /\ Return(call, [verdict |-> "true"])
             \/ UNCHANGED <<media, own>> /\ Return(call, [verdict |-> "false"])
       \/ /\ Fault /\ Raise /\ UNCHANGED medias
          /\ \/ UNCHANGED <<media, own>>
             \/ media # Gone /\ media' = Gone /\ own' = [own EXCEPT !.deleted = "lost"]
    /\ UNCHANGED <<story, stories, changes>>

\* story_info_v1 caches what the owner shows now under its pk and reads that entry,
\* where a story that expired may still be.
Shown == IF story THEN [stories EXCEPT !["pk"] = "up"] ELSE stories
StoryInfoV1(c, key) ==
    \/ /\ NoFault /\ Shown["pk"] # NULL
       /\ stories' = [Shown EXCEPT ![key] = "up"]
       /\ Return(c, [verdict |-> "true"])
    \/ NoFault /\ Shown["pk"] = NULL /\ UNCHANGED stories /\ Return(c, [verdict |-> "raised"])
    \/ Fault /\ UNCHANGED stories /\ Return(c, [verdict |-> "raised"])

\* story_info caches under the key as the caller spells it: the pk or the full id.
StoryInfo ==
    /\ MediasOnly /\ call = Idle
    /\ \E cached \in BOOLEAN, key \in Spellings :
          LET c == [Idle EXCEPT !.op = "story_info", !.cached = cached]
          IN  \/ cached /\ stories[key] # NULL /\ NoFault /\ UNCHANGED stories
                /\ Return(c, [verdict |-> "true"])
              \/ (~cached \/ stories[key] = NULL) /\ StoryInfoV1(c, key)
    /\ UNCHANGED <<media, story, medias, own, changes>>

\* story_delete: the cache forgets the entry under the pk first, and no other.
StoryDelete ==
    /\ MediasOnly /\ call.at = "story_delete"
    /\ stories' = [stories EXCEPT !["pk"] = NULL]
    /\ \/ NoFault /\ story' = FALSE /\ own' = [own EXCEPT !.story = Gone]
          /\ Return(call, [verdict |-> "true"])
       \/ NoFault /\ UNCHANGED <<story, own>> /\ Return(call, [verdict |-> "false"])
       \/ Fault /\ Raise /\ story' \in {story, FALSE}
          /\ own' = IF story' THEN own ELSE [own EXCEPT !.story = Gone]
    /\ UNCHANGED <<media, medias, changes>>

\* External: the media is edited elsewhere, the story expires.
MediasChange ==
    /\ MediasOnly /\ changes < MaxChanges
    /\ \/ media # Gone /\ media < MaxChanges /\ media' = media + 1 /\ UNCHANGED story
       \/ story /\ story' = FALSE /\ UNCHANGED media
    /\ changes' = changes + 1
    /\ UNCHANGED <<mediaCaches, call, answer, own, faults>>

Next ==
    \/ AskUserInfo \/ AskUserInfoByUsername \/ AskUsername \/ AskUserShort
    \/ UserInfoV1 \/ UserInfoByUsernameV1 \/ UserInfoByUsernameGql \/ UserShortGql \/ Rename
    \/ AskList \/ PrivateList \/ PublicList \/ ListsChange
    \/ AskFollow \/ UserFriendshipV1 \/ UserFollow
    \/ AskRemoval \/ UserUnfollow \/ UserRemoveFollower
    \/ AskMediaInfo \/ AskMediaEdit \/ AskMediaLinkReel \/ AskMediaDelete \/ AskStoryDelete
    \/ MediaInfoV1 \/ MediaInfoGql \/ MediaEdit \/ MediaDelete
    \/ StoryInfo \/ StoryDelete \/ MediasChange

Spec == Init /\ [][Next]_vars

(***************************************************************************)
(* Properties.                                                             *)
(***************************************************************************)

\* Everything stays in its set; the server's lists and the cached ones name an
\* account once.
TypeOK ==
    /\ name \in [Users -> Names] /\ \A u, v \in Users : name[u] = name[v] => u = v
    /\ users \in [Users -> User \cup {NULL}]
    /\ shorts \in [Users -> Names \cup {NULL}] /\ names \in [Names -> Users \cup {NULL}]
    /\ \A k \in Kinds : /\ served[k] \in ListsOf(Users)
                        /\ lists[k] = NULL \/ lists[k] \in ListsOf(Users)
    /\ requested \subseteq Users /\ mine \subseteq Users
    /\ media \in Gone..MaxChanges /\ medias \in {NULL} \cup 0..MaxChanges
    /\ stories \in [Spellings -> {NULL, "up"}]
    /\ DOMAIN answer = DOMAIN Nothing /\ DOMAIN call = DOMAIN Idle

\* The name cache never ties a name to an account that did not bear it.  A lookup by
\* name that passes the cache by returns the account that bears the name when it
\* answers, although it reads the user back through two caches.  A lookup by id that
\* passes the cache by returns the user with that id, unless user_info_gql went by a
\* cached short user whose name the account bears no longer: then it may return, and
\* cache under that id, whoever bears the name now.
NamesLeadToTheirBearers ==
    /\ \A n \in Names : names[n] # NULL => <<n, names[n]>> \in bore
    /\ (answer.op = "by_username" /\ ~answer.cached /\ answer.verdict # "raised") =>
          answer.who.name = answer.name /\ answer.seen[answer.who.pk] = answer.name
    /\ (answer.op = "user_info" /\ ~answer.cached /\ answer.verdict # "raised") =>
          answer.who.pk = answer.user \/ shorts[answer.user] \notin {NULL, answer.seen[answer.user]}

\* A list asked for with an amount holds that many entries, or all there were when it
\* was fetched, and all of them when no amount was given and the cache was passed by:
\* neither a shorter list cached by an earlier call nor one Instagram limits will do.
ListsHoldTheAmount ==
    (answer.op = "list" /\ answer.verdict # "raised") =>
        \/ answer.whole
        \/ answer.amount > 0 /\ Len(answer.list) = answer.amount
        \/ answer.amount = 0 /\ answer.cached

\* Once the own list is cached, an account this process followed and did not unfollow
\* is in it: user_follow would otherwise ask Instagram to follow it again.
FollowsAreRemembered == lists["following"] # NULL => mine \subseteq ToSet(lists["following"])

\* What the process itself wrote is not hidden by the cache: no caption older than its
\* last edit, even if the answer to that edit was lost; no media whose deletion was
\* answered (media_delete keeps the entry when the answer is lost); under its pk, no
\* story it deleted, answered or not (story_delete leaves an entry under the full id).
OwnWritesShow ==
    /\ medias # NULL => medias >= own.media /\ own.deleted # "answered"
    /\ own.story = Gone => stories["pk"] = NULL

\* What the caches answer is what the call asked for.
CachesAnswerTheCall == NamesLeadToTheirBearers /\ ListsHoldTheAmount

\* The process reads its own writes, in lists and in medias.
ReadsOwnWrites == FollowsAreRemembered /\ OwnWritesShow

\* user_follow answers "already followed" only for an account that is followed, unless
\* somebody else changed the list.
AlreadyFollowedIsFollowed ==
    (answer.verdict = "already followed" /\ changes = 0) =>
        answer.user \in ToSet(served["following"]) \cup requested
=============================================================================
