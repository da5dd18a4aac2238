---------------------------- MODULE FriendshipScan ----------------------------
(***************************************************************************)
(* NonFollowerCleaner.scan of apps/non_follower_cleaner/engine.py: the     *)
(* following list and then the followers list are read page by page, and   *)
(* the accounts that do not follow back are offered for review.  A page    *)
(* missed in the followers list would offer real followers, so everything  *)
(* suspicious ends the scan.                                               *)
(*                                                                         *)
(* The server has each list cut into pages, page c under cursor c (0 is    *)
(* the first page, asked for without a cursor).  It answers with the page, *)
(* or with part of it and a sign that something is missing, or sends the   *)
(* client back to an earlier cursor, or with something unreadable.         *)
(***************************************************************************)
EXTENDS Naturals, Sequences, FiniteSets

CONSTANTS
  Accounts,
  Viewer,     \* the logged-in account
  LastPage    \* bound: pages of each list are 0..LastPage

ASSUME ScanAssumption == IsFiniteSet(Accounts) /\ Viewer \in Accounts /\ LastPage \in Nat

VARIABLES
  pages,        \* the server: the content of every page of both lists
  place,
  list,         \* the list being collected
  cursor,
  seenCursors,
  accounts,     \* collected of this list
  followingList,\* the finished following list
  offered,      \* non_followers of the result, as positions in followingList
  stop,         \* the stop event
  honest        \* history: every answer so far was the page itself

inputVars == <<pages, stop>>
scanVars == <<inputVars, place, list, cursor, seenCursors, accounts, followingList,
          offered, honest>>

Lists == {"following", "followers"}
Page == 0..LastPage
NoCursor == LastPage + 1
Elements(s) == {s[i] : i \in DOMAIN s}
Truth(l) == UNION {pages[l][c] : c \in Page}
Next1(c) == IF c = LastPage THEN NoCursor ELSE c + 1

ScanTypeOK ==
  /\ pages \in [Lists -> [Page -> SUBSET Accounts]]
  /\ place \in {"start", "fetch", "answer", "delay", "result", "failed", "stopped"}
  /\ list \in Lists /\ cursor \in Page /\ seenCursors \subseteq Page
  /\ accounts \in Seq(Accounts) /\ followingList \in Seq(Accounts)
  /\ offered \subseteq DOMAIN followingList
  /\ stop \in BOOLEAN /\ honest \in BOOLEAN

ScanInit ==
  /\ pages \in [Lists -> [Page -> SUBSET Accounts]]
  /\ place = "start" /\ list = "following" /\ cursor = 0 /\ seenCursors = {}
  /\ accounts = <<>> /\ followingList = <<>> /\ offered = {}
  /\ stop = FALSE /\ honest = TRUE

-------------------------------------------------------------------------------
(* The server.                                                               *)

Answer == [users : SUBSET Accounts, next : Page \cup {NoCursor},
           more : BOOLEAN, limited : BOOLEAN]

ThePage == [users |-> pages[list][cursor], next |-> Next1(cursor),
            more |-> cursor # LastPage, limited |-> FALSE]

\* A page cut short says so, by should_limit_list_of_followers or by a flag for
\* more without a cursor; a cursor may lead back.
LimitedPages ==
  {a \in Answer : /\ a.users \subseteq ThePage.users
                  /\ a.limited /\ a.more = ThePage.more}
CutPages ==
  {[ThePage EXCEPT !.users = part, !.next = NoCursor, !.more = TRUE]
     : part \in SUBSET pages[list][cursor]}
PagesLeadingBack == {[ThePage EXCEPT !.next = back] : back \in 1..cursor}
BadAnswers == LimitedPages \cup CutPages \cup PagesLeadingBack

-------------------------------------------------------------------------------
(* The scan.                                                                 *)

Leave(how) ==
  /\ place' = how
  /\ UNCHANGED <<inputVars, list, cursor, seenCursors, accounts, followingList, offered>>

\* viewer_id: no login, no list.
ScanStart ==
  /\ place = "start"
  /\ \/ ~stop /\ Leave("fetch") /\ UNCHANGED honest
     \/ stop /\ Leave("stopped") /\ UNCHANGED honest
     \/ Leave("failed") /\ honest' = FALSE

StopSeen ==
  /\ stop /\ place \in {"fetch", "answer", "delay"}
  /\ Leave("stopped")
  /\ UNCHANGED honest

Fetch ==
  /\ place = "fetch" /\ ~stop
  /\ Leave("answer")
  /\ UNCHANGED honest

\* HTTP and network errors, login, restriction, status=fail, a payload or an
\* entry that is not what it should be.
Unreadable ==
  /\ place = "answer" /\ ~stop
  /\ Leave("failed")
  /\ honest' = FALSE

NoRepeats(s) == \A i, j \in DOMAIN s : s[i] = s[j] => i = j
Orders(S) == {s \in [1..Cardinality(S) -> S] : Elements(s) = S /\ NoRepeats(s)}

\* from_payload of those not seen before, in the order of the page.
Collected(known, users) == {known \o s : s \in Orders(users \ Elements(known))}

\* Mutated form: the loop goes on without a cursor.
NeverTheLast(a) == FALSE

IsTheLast(a) == a.next = NoCursor

\* Mutated form: only an immediate repetition of the cursor is noticed.
SuspiciousOnlySame(a) ==
  \/ a.limited
  \/ a.more /\ a.next = NoCursor
  \/ a.next # NoCursor /\ a.next = cursor

\* Mutated form: a list that Instagram limits is read like any other.
SuspiciousNotLimited(a) ==
  \/ a.more /\ a.next = NoCursor
  \/ a.next # NoCursor /\ (a.next = cursor \/ a.next \in seenCursors)

\* The checks of _validate_page and _collect.
Suspicious(a) ==
  \/ a.limited
  \/ a.more /\ a.next = NoCursor
  \/ a.next # NoCursor /\ (a.next = cursor \/ a.next \in seenCursors)

\* _collect returns: the other list, or the difference of both.
ListDone(all) ==
  /\ list' = "followers" /\ cursor' = 0 /\ seenCursors' = {} /\ accounts' = <<>>
  /\ IF list = "following"
       THEN place' = "fetch" /\ followingList' = all /\ UNCHANGED offered
       ELSE /\ place' = "result"
            /\ offered' = {i \in DOMAIN followingList :
                             followingList[i] \notin Elements(all) \cup {Viewer}}
            /\ UNCHANGED followingList

PageRead(a) ==
  /\ place = "answer" /\ ~stop
  /\ IF Suspicious(a)
       THEN /\ place' = "failed"
            /\ UNCHANGED <<list, cursor, seenCursors, accounts, followingList, offered>>
       ELSE \E all \in Collected(accounts, a.users) :
              IF IsTheLast(a) THEN ListDone(all)
              ELSE /\ place' = "delay" /\ accounts' = all
                   /\ cursor' = a.next /\ seenCursors' = seenCursors \cup {a.next}
                   /\ UNCHANGED <<list, followingList, offered>>
  /\ honest' = (honest /\ a = ThePage)
  /\ UNCHANGED inputVars

DelayElapsed ==
  /\ place = "delay" /\ ~stop
  /\ Leave("fetch")
  /\ UNCHANGED honest

PressStop ==
  /\ ~stop /\ stop' = TRUE
  /\ UNCHANGED <<pages, place, list, cursor, seenCursors, accounts, followingList,
                 offered, honest>>

Scan ==
  \/ ScanStart \/ StopSeen \/ Fetch \/ Unreadable \/ DelayElapsed
  \/ \E a \in {ThePage} \cup BadAnswers : PageRead(a)

ScanNext == Scan \/ PressStop

ScanSpec == ScanInit /\ [][ScanNext]_scanVars

\* The worker thread keeps running and every request has a timeout.
ScanFairSpec == ScanSpec /\ WF_scanVars(Scan)

-------------------------------------------------------------------------------
(* Properties.                                                               *)

\* Whatever the server answers, the offered list is exactly the accounts that
\* are followed and do not follow back, each once, and never the viewer itself.
OfferIsTheDifference ==
  place = "result" =>
    /\ {followingList[i] : i \in offered} = (Truth("following") \ Truth("followers")) \ {Viewer}
    /\ \A i, j \in offered : followingList[i] = followingList[j] => i = j

\* The fail-closed checks have no false alarm: a server that sends its pages,
\* empty ones among them, always gets the scan to its end unless it is stopped.
HonestScanSucceeds == place = "failed" => ~honest

\* The checks of _validate_page are neither too weak nor too strong.
ScanIsExact == OfferIsTheDifference /\ HonestScanSucceeds

\* The scan ends, even with a server that sends the client in circles.
ScanTerminates == <>(place \in {"result", "failed", "stopped"})
===============================================================================
