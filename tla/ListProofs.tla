-------------------------- MODULE ListProofs -----------------------------
(***************************************************************************)
(* Theorems about the collection of lists from pages: the scan of the      *)
(* cleaner, for every finite set of accounts and lists of any number of    *)
(* pages, and the methods of the library, for every length of the list and *)
(* of its pages, every amount, page size and known item, and any number of *)
(* irregular answers.                                                      *)
(***************************************************************************)
EXTENDS Paging, FriendshipScan, FiniteSetTheorems, WellFoundedInduction, TLAPS

-------------------------------------------------------------------------------
(* What a page adds.                                                         *)

LEMMA OrdersTyping ==
  ASSUME NEW S \in SUBSET Accounts, NEW s \in Orders(S)
  PROVE  s \in Seq(Accounts) /\ Elements(s) = S /\ NoRepeats(s)
<1>1. Cardinality(S) \in Nat
  BY ScanAssumption, FS_Subset, FS_CardinalityType
<1> QED
  BY <1>1 DEF Orders

LEMMA ConcatElements ==
  ASSUME NEW s \in Seq(Accounts), NEW t \in Seq(Accounts)
  PROVE  Elements(s \o t) = Elements(s) \cup Elements(t)
<1>1. /\ DOMAIN s = 1..Len(s) /\ DOMAIN t = 1..Len(t) /\ Len(s) \in Nat /\ Len(t) \in Nat
      /\ DOMAIN (s \o t) = 1..(Len(s) + Len(t))
      /\ \A i \in DOMAIN s : (s \o t)[i] = s[i]
      /\ \A j \in DOMAIN t : (s \o t)[Len(s) + j] = t[j]
  OBVIOUS
<1>2. Elements(s \o t) \subseteq Elements(s) \cup Elements(t)
  <2> SUFFICES ASSUME NEW n \in DOMAIN (s \o t)
               PROVE  (s \o t)[n] \in Elements(s) \cup Elements(t)
    BY DEF Elements
  <2>1. CASE n \in DOMAIN s
    BY <1>1, <2>1 DEF Elements
  <2>2. CASE n \notin DOMAIN s
    <3>1. n - Len(s) \in DOMAIN t /\ Len(s) + (n - Len(s)) = n
      BY <1>1, <2>2
    <3> QED
      BY <1>1, <3>1 DEF Elements
  <2> QED
    BY <2>1, <2>2
<1>3. Elements(s) \subseteq Elements(s \o t)
  BY <1>1 DEF Elements
<1>4. Elements(t) \subseteq Elements(s \o t)
  <2> SUFFICES ASSUME NEW j \in DOMAIN t PROVE t[j] \in Elements(s \o t)
    BY DEF Elements
  <2>1. Len(s) + j \in DOMAIN (s \o t)
    BY <1>1
  <2> QED
    BY <1>1, <2>1 DEF Elements
<1> QED
  BY <1>2, <1>3, <1>4

LEMMA CollectedFacts ==
  ASSUME NEW kept \in Seq(Accounts), NoRepeats(kept), NEW users \in SUBSET Accounts,
         NEW all \in Collected(kept, users)
  PROVE  all \in Seq(Accounts) /\ Elements(all) = Elements(kept) \cup users /\ NoRepeats(all)
<1>1. PICK s \in Orders(users \ Elements(kept)) : all = kept \o s
  BY DEF Collected
<1>2. s \in Seq(Accounts) /\ Elements(s) = users \ Elements(kept) /\ NoRepeats(s)
  BY <1>1, OrdersTyping
<1>3. all \in Seq(Accounts) /\ Elements(all) = Elements(kept) \cup users
  BY <1>1, <1>2, ConcatElements
<1>4. NoRepeats(all)
  <2>1. /\ DOMAIN kept = 1..Len(kept) /\ DOMAIN s = 1..Len(s) /\ Len(kept) \in Nat /\ Len(s) \in Nat
        /\ DOMAIN all = 1..(Len(kept) + Len(s))
        /\ \A i \in DOMAIN kept : all[i] = kept[i]
        /\ \A i \in DOMAIN all : i \notin DOMAIN kept =>
             i - Len(kept) \in DOMAIN s /\ all[i] = s[i - Len(kept)]
    BY <1>1, <1>2
  <2> SUFFICES ASSUME NEW i \in DOMAIN all, NEW j \in DOMAIN all, all[i] = all[j]
               PROVE  i = j
    BY DEF NoRepeats
  <2>2. CASE i \in DOMAIN kept /\ j \in DOMAIN kept
    BY <2>1, <2>2 DEF NoRepeats
  <2>3. CASE i \notin DOMAIN kept /\ j \notin DOMAIN kept
    <3>1. i - Len(kept) = j - Len(kept)
      BY <1>2, <2>1, <2>3 DEF NoRepeats
    <3> QED
      BY <2>1, <3>1
  <2>4. CASE ~ (i \in DOMAIN kept <=> j \in DOMAIN kept)
    BY <1>2, <2>1, <2>4 DEF Elements
  <2> QED
    BY <2>2, <2>3, <2>4
<1> QED
  BY <1>3, <1>4

-------------------------------------------------------------------------------
(* The invariant: what is collected are the pages before the cursor.         *)

PagesBefore(l, c) == UNION {pages[l][d] : d \in {e \in Page : e < c}}

ScanInv ==
  /\ ScanTypeOK
  /\ seenCursors = 1..cursor
  /\ Elements(accounts) = PagesBefore(list, cursor) /\ NoRepeats(accounts)
  /\ list = "following" => offered = {} /\ place # "result"
  /\ list = "followers" => Elements(followingList) = Truth("following") /\ NoRepeats(followingList)
  /\ OfferIsTheDifference /\ HonestScanSucceeds

LEMMA ThePageFacts ==
  ASSUME ScanInv
  PROVE  /\ ThePage.users = pages[list][cursor] /\ ThePage.users \in SUBSET Accounts
         /\ ThePage.next = Next1(cursor) /\ ThePage.limited = FALSE
         /\ ThePage.more = (cursor # LastPage)
BY DEF ScanInv, ScanTypeOK, ThePage

\* The checks let a page through exactly when it is the page asked for.
LEMMA SuspicionIsExact ==
  ASSUME ScanInv, NEW a \in {ThePage} \cup BadAnswers
  PROVE  Suspicious(a) <=> a # ThePage
<1>1. /\ cursor \in Nat /\ cursor <= LastPage /\ LastPage \in Nat /\ seenCursors = 1..cursor
      /\ NoCursor = LastPage + 1
  BY ScanAssumption DEF ScanInv, ScanTypeOK, Page, NoCursor
<1>2. ~ Suspicious(ThePage)
  <2>1. Next1(cursor) # NoCursor => Next1(cursor) = cursor + 1 /\ cursor + 1 \notin seenCursors
    BY <1>1 DEF Next1
  <2>2. cursor # LastPage => Next1(cursor) # NoCursor
    BY <1>1 DEF Next1
  <2>3. ~ ThePage.limited /\ ~ (ThePage.more /\ ThePage.next = NoCursor)
    BY <2>2, ThePageFacts, Zenon
  <2>4. ThePage.next # NoCursor => ThePage.next # cursor /\ ThePage.next \notin seenCursors
    BY <1>1, <2>1, ThePageFacts
  <2> QED
    BY <2>3, <2>4, Zenon DEF Suspicious
<1>3. ASSUME a \in BadAnswers
      PROVE  Suspicious(a)
  <2>1. CASE a \in LimitedPages
    BY <2>1 DEF LimitedPages, Suspicious
  <2>2. CASE a \in CutPages
    <3>1. a.more = TRUE /\ a.next = NoCursor
      BY <2>2 DEF CutPages, ThePage
    <3> QED
      BY <3>1, Zenon DEF Suspicious
  <2>3. CASE a \in PagesLeadingBack
    <3>1. PICK back \in 1..cursor : a = [ThePage EXCEPT !.next = back]
      BY <2>3 DEF PagesLeadingBack
    <3>2. a.next = back
      BY <3>1 DEF ThePage
    <3> QED
      BY <1>1, <3>1, <3>2 DEF Suspicious
  <2> QED
    BY <1>3, <2>1, <2>2, <2>3 DEF BadAnswers
<1> QED
  BY <1>2, <1>3

LEMMA BeforeNext ==
  ASSUME ScanInv
  PROVE  /\ PagesBefore(list, cursor) \cup pages[list][cursor] = PagesBefore(list, cursor + 1)
         /\ cursor = LastPage => PagesBefore(list, cursor + 1) = Truth(list)
         /\ \A l : PagesBefore(l, 0) = {}
<1>1. cursor \in Nat /\ LastPage \in Nat /\ cursor <= LastPage /\ cursor \in Page
  BY ScanAssumption DEF ScanInv, ScanTypeOK, Page
<1>2. {e \in Page : e < cursor + 1} = {e \in Page : e < cursor} \cup {cursor}
  BY <1>1 DEF Page
<1>3. cursor = LastPage => {e \in Page : e < cursor + 1} = Page
  BY <1>1 DEF Page
<1>4. {e \in Page : e < 0} = {}
  BY <1>1 DEF Page
<1> QED
  BY <1>2, <1>3, <1>4 DEF PagesBefore, Truth

-------------------------------------------------------------------------------
(* The steps.                                                                *)

LEMMA InitStep == ScanInit => ScanInv
<1> SUFFICES ASSUME ScanInit PROVE ScanInv
  OBVIOUS
<1>1. 0 \in Page /\ {e \in Page : e < 0} = {}
  BY ScanAssumption DEF Page
<1>2. PagesBefore(list, cursor) = {} /\ Elements(accounts) = {} /\ NoRepeats(accounts)
  BY <1>1 DEF ScanInit, PagesBefore, Elements, NoRepeats
<1>3. ScanTypeOK
  BY <1>1 DEF ScanInit, ScanTypeOK, Lists
<1>4. OfferIsTheDifference /\ HonestScanSucceeds
  BY DEF ScanInit, OfferIsTheDifference, HonestScanSucceeds
<1>5. seenCursors = 1..cursor /\ cursor = 0 /\ list = "following" /\ place = "start"
      /\ offered = {}
  BY DEF ScanInit
<1> QED
  BY <1>2, <1>3, <1>4, <1>5, ScanAssumption DEF ScanInv

\* Steps that only change the place of the scan.
LEMMA LeaveStep ==
  ASSUME ScanInv, NEW how \in {"fetch", "answer", "delay", "failed", "stopped"}, Leave(how),
         honest' \in BOOLEAN, how = "failed" => ~honest'
  PROVE  ScanInv'
<1>1. ScanTypeOK'
  BY DEF Leave, ScanInv, ScanTypeOK, inputVars
<1>2. UNCHANGED <<pages, list, cursor, seenCursors, accounts, followingList, offered>> /\ place' = how
  BY DEF Leave, inputVars
<1>3. PagesBefore(list, cursor)' = PagesBefore(list, cursor) /\ Truth("following")' = Truth("following")
  BY <1>2 DEF PagesBefore, Truth
<1>4. OfferIsTheDifference' /\ HonestScanSucceeds'
  BY <1>2 DEF OfferIsTheDifference, HonestScanSucceeds
<1> QED
  BY <1>1, <1>2, <1>3, <1>4 DEF ScanInv, Elements, NoRepeats

\* The difference of two complete lists, the first without repetitions.
LEMMA DifferenceIsExact ==
  ASSUME ScanInv, list = "followers", NEW all, Elements(all) = Truth("followers"),
         ListDone(all), UNCHANGED pages
  PROVE  OfferIsTheDifference'
<1>1. Truth("followers")' = Truth("followers") /\ Truth("following")' = Truth("following")
  BY DEF Truth
<1>2. /\ followingList' = followingList
      /\ offered' = {i \in DOMAIN followingList :
                      followingList[i] \notin Elements(all) \cup {Viewer}}
  BY DEF ListDone
<1>3. Elements(followingList) = Truth("following") /\ NoRepeats(followingList)
  BY DEF ScanInv
<1>4. {followingList[i] : i \in offered'} = (Truth("following") \ Truth("followers")) \ {Viewer}
  BY <1>2, <1>3 DEF Elements
<1>5. \A i, j \in offered' : followingList[i] = followingList[j] => i = j
  BY <1>2, <1>3 DEF NoRepeats
<1> QED
  BY <1>1, <1>2, <1>4, <1>5 DEF OfferIsTheDifference

LEMMA PageReadStep ==
  ASSUME ScanInv, NEW a \in {ThePage} \cup BadAnswers, PageRead(a)
  PROVE  ScanInv'
<1>1. /\ cursor \in Nat /\ cursor <= LastPage /\ LastPage \in Nat /\ cursor \in Page
      /\ NoCursor = LastPage + 1 /\ place = "answer" /\ honest \in BOOLEAN
      /\ list \in Lists /\ accounts \in Seq(Accounts) /\ NoRepeats(accounts)
  BY ScanAssumption DEF ScanInv, ScanTypeOK, Page, NoCursor, PageRead
<1>2. UNCHANGED <<pages, stop>> /\ honest' = (honest /\ a = ThePage)
  BY DEF PageRead, inputVars
<1>3. CASE Suspicious(a)
  <2>1. honest' = FALSE
    BY <1>2, <1>3, SuspicionIsExact, Zenon
  <2>2. Leave("failed")
    BY <1>2, <1>3 DEF PageRead, Leave, inputVars
  <2> QED
    BY <2>1, <2>2, LeaveStep
<1>4. CASE ~Suspicious(a)
  <2>1. a = ThePage
    BY <1>4, SuspicionIsExact, Zenon
  <2>2. PICK all \in Collected(accounts, a.users) :
          IF IsTheLast(a) THEN ListDone(all)
          ELSE /\ place' = "delay" /\ accounts' = all
               /\ cursor' = a.next /\ seenCursors' = seenCursors \cup {a.next}
               /\ UNCHANGED <<list, followingList, offered>>
    BY <1>4 DEF PageRead
  <2>3. all \in Seq(Accounts) /\ NoRepeats(all) /\ Elements(all) = PagesBefore(list, cursor + 1)
    <3>1. a.users = pages[list][cursor] /\ a.users \in SUBSET Accounts
      BY <2>1, ThePageFacts
    <3> QED
      BY <1>1, <2>2, <3>1, CollectedFacts, BeforeNext DEF ScanInv
  <2>4. CASE ~IsTheLast(a)
    <3>1. a.next = cursor + 1 /\ cursor + 1 \in Page
      BY <1>1, <2>1, <2>4, ThePageFacts DEF IsTheLast, Next1, Page
    <3>2. /\ place' = "delay" /\ accounts' = all /\ cursor' = cursor + 1
          /\ seenCursors' = seenCursors \cup {cursor + 1}
          /\ UNCHANGED <<list, followingList, offered>>
      BY <2>2, <2>4, <3>1
    <3>3. seenCursors' = 1..cursor'
      BY <1>1, <3>2 DEF ScanInv
    <3>4. ScanTypeOK'
      BY <1>1, <1>2, <2>3, <3>1, <3>2 DEF ScanInv, ScanTypeOK
    <3>5. PagesBefore(list, cursor)' = PagesBefore(list, cursor + 1) /\ Truth("following")' = Truth("following")
      BY <1>2, <3>2 DEF PagesBefore, Truth
    <3>6. OfferIsTheDifference' /\ HonestScanSucceeds'
      BY <3>2 DEF OfferIsTheDifference, HonestScanSucceeds
    <3> QED
      BY <1>1, <2>3, <3>2, <3>3, <3>4, <3>5, <3>6 DEF ScanInv, Lists, Elements, NoRepeats
  <2>5. CASE IsTheLast(a)
    <3>1. cursor = LastPage
      BY <1>1, <2>1, <2>5, ThePageFacts DEF IsTheLast, Next1
    <3>2. Elements(all) = Truth(list) /\ PagesBefore("followers", 0) = {}
      BY <2>3, <3>1, BeforeNext
    <3>3. ListDone(all)
      BY <2>2, <2>5
    <3>4. /\ list' = "followers" /\ cursor' = 0 /\ seenCursors' = {} /\ accounts' = <<>>
          /\ seenCursors' = 1..cursor' /\ 0 \in Page
      BY <1>1, <3>3 DEF ListDone, Page
    <3>5. PagesBefore(list, cursor)' = {} /\ Elements(accounts)' = {} /\ NoRepeats(accounts)'
      BY <1>2, <3>2, <3>4 DEF PagesBefore, Elements, NoRepeats
    <3>6. \A l : Truth(l)' = Truth(l)
      BY <1>2 DEF Truth
    <3>7. CASE list = "following"
      <4>1. place' = "fetch" /\ followingList' = all /\ offered' = {}
        BY <3>3, <3>7 DEF ListDone, ScanInv
      <4>2. ScanTypeOK'
        BY <1>1, <1>2, <2>3, <3>4, <4>1 DEF ScanInv, ScanTypeOK, Lists
      <4>3. OfferIsTheDifference' /\ HonestScanSucceeds'
        BY <4>1 DEF OfferIsTheDifference, HonestScanSucceeds
      <4> QED
        BY <2>3, <3>2, <3>4, <3>5, <3>6, <3>7, <4>1, <4>2, <4>3 DEF ScanInv
    <3>8. CASE list = "followers"
      <4>1. place' = "result" /\ followingList' = followingList /\ offered' \subseteq DOMAIN followingList
        BY <3>3, <3>8 DEF ListDone
      <4>2. ScanTypeOK'
        BY <1>1, <1>2, <3>4, <4>1 DEF ScanInv, ScanTypeOK, Lists
      <4>3. OfferIsTheDifference'
        BY <1>2, <3>2, <3>3, <3>8, DifferenceIsExact
      <4>4. HonestScanSucceeds'
        BY <4>1 DEF HonestScanSucceeds
      <4> QED
        BY <3>4, <3>5, <3>6, <3>8, <4>1, <4>2, <4>3, <4>4 DEF ScanInv, Elements, NoRepeats
    <3> QED
      BY <1>1, <3>7, <3>8 DEF Lists
  <2> QED
    BY <2>4, <2>5
<1> QED
  BY <1>3, <1>4

LEMMA NextStep == ScanInv /\ [ScanNext]_scanVars => ScanInv'
<1> SUFFICES ASSUME ScanInv, [ScanNext]_scanVars PROVE ScanInv'
  OBVIOUS
<1>1. honest \in BOOLEAN
  BY DEF ScanInv, ScanTypeOK
<1>2. CASE ScanStart
  BY <1>1, <1>2, LeaveStep DEF ScanStart
<1>3. CASE StopSeen \/ Fetch \/ DelayElapsed \/ Unreadable
  BY <1>1, <1>3, LeaveStep DEF StopSeen, Fetch, DelayElapsed, Unreadable
<1>4. CASE \E a \in {ThePage} \cup BadAnswers : PageRead(a)
  BY <1>4, PageReadStep
<1>5. CASE PressStop \/ UNCHANGED scanVars
  <2>1. UNCHANGED <<pages, place, list, cursor, seenCursors, accounts, followingList, offered, honest>>
        /\ stop' \in BOOLEAN
    BY <1>5 DEF PressStop, scanVars, inputVars, ScanInv, ScanTypeOK
  <2>2. ScanTypeOK'
    BY <2>1 DEF ScanInv, ScanTypeOK
  <2>3. PagesBefore(list, cursor)' = PagesBefore(list, cursor) /\ \A l : Truth(l)' = Truth(l)
    BY <2>1 DEF PagesBefore, Truth
  <2>4. OfferIsTheDifference' /\ HonestScanSucceeds'
    BY <2>1, <2>3 DEF ScanInv, OfferIsTheDifference, HonestScanSucceeds
  <2> QED
    BY <2>1, <2>2, <2>3, <2>4 DEF ScanInv, Elements, NoRepeats
<1> QED
  BY <1>2, <1>3, <1>4, <1>5 DEF ScanNext, Scan

LEMMA ScanInvariant == ScanSpec => []ScanInv
BY InitStep, NextStep, PTL DEF ScanSpec

\* The list in hand, the cursors seen and the positions offered have their types.
THEOREM ScanTypeCorrect == ScanSpec => []ScanTypeOK
<1>1. ScanInv => ScanTypeOK
  BY DEF ScanInv
<1> QED
  BY <1>1, ScanInvariant, PTL

\* Whatever the server answers, the offer is the exact difference of the two lists,
\* and a server that sends its pages never fails a scan.
THEOREM ScanExact == ScanSpec => []ScanIsExact
<1>1. ScanInv => ScanIsExact
  BY DEF ScanInv, ScanIsExact
<1> QED
  BY <1>1, ScanInvariant, PTL

-------------------------------------------------------------------------------
(* Lists.                                                                    *)

\* The items of a list are the ones that follow the first a, without a gap.
Follows(s, a) == \A i \in 1..Len(s) : s[i] = a + i
\* No item twice.
Different(s) == \A i, j \in 1..Len(s) : s[i] = s[j] => i = j

LEMMA SmallestMember ==
  ASSUME NEW S \in SUBSET Nat, S # {}
  PROVE  \E n \in S : \A k \in S : n <= k
<1> DEFINE less == {p \in Nat \X Nat : p[1] < p[2]}
<1>1. OpToRel(<, Nat) = less
  BY Zenon DEF OpToRel
<1>2. IsWellFoundedOn(less, Nat)
  BY <1>1, NatLessThanWellFounded
<1>3. PICK n \in S : \A k \in S : <<k, n>> \notin less
  <2> HIDE DEF less
  <2> QED
    BY <1>2, WFMin
<1>4. \A k \in S : ~(k < n)
  BY <1>3
<1> QED
  BY <1>4

LEMMA IntervalFacts ==
  ASSUME NEW a \in Nat, NEW n \in Nat
  PROVE  LET s == Interval(a + 1, a + n)
         IN  Len(s) = n /\ Follows(s, a) /\ \A b \in Nat : a + n <= b => s \in Seq(1..b)
<1> DEFINE s == Interval(a + 1, a + n)
<1>1. s = [i \in 1..n |-> a + i]
  BY DEF Interval
<1>2. Len(s) = n
  BY <1>1
<1>3. \A i \in 1..n : s[i] = a + i
  BY <1>1
<1>4. ASSUME NEW b \in Nat, a + n <= b
      PROVE  s \in Seq(1..b)
  BY <1>1, <1>4
<1> QED
  BY <1>2, <1>3, <1>4 DEF Follows

LEMMA FollowsIsInterval ==
  ASSUME NEW S, NEW s \in Seq(S), NEW a \in Nat, Follows(s, a)
  PROVE  s = Interval(a + 1, a + Len(s))
<1>1. Interval(a + 1, a + Len(s)) = [i \in 1..Len(s) |-> a + i]
  BY DEF Interval
<1>2. s = [i \in 1..Len(s) |-> s[i]]
  OBVIOUS
<1> QED
  BY <1>1, <1>2 DEF Follows

LEMMA Joined ==
  ASSUME NEW S, NEW s \in Seq(S), NEW t \in Seq(S), NEW a \in Nat
  PROVE  /\ s \o t \in Seq(S) /\ Len(s \o t) = Len(s) + Len(t)
         /\ Follows(s, a) /\ Follows(t, a + Len(s)) => Follows(s \o t, a)
<1>1. /\ s \o t \in Seq(S) /\ Len(s \o t) = Len(s) + Len(t)
      /\ \A i \in 1..Len(s \o t) : (s \o t)[i] = IF i <= Len(s) THEN s[i] ELSE t[i - Len(s)]
  OBVIOUS
<1>2. ASSUME Follows(s, a), Follows(t, a + Len(s)), NEW i \in 1..Len(s \o t)
      PROVE  (s \o t)[i] = a + i
  <2>1. CASE i <= Len(s)
    BY <1>1, <1>2, <2>1 DEF Follows
  <2>2. CASE i > Len(s)
    <3>1. i - Len(s) \in 1..Len(t)
      BY <1>1, <2>2
    <3> QED
      BY <1>1, <1>2, <2>2, <3>1 DEF Follows
  <2> QED
    BY <1>1, <2>1, <2>2
<1> QED
  BY <1>1, <1>2 DEF Follows

LEMMA FirstFacts ==
  ASSUME NEW S, NEW s \in Seq(S), NEW n \in Nat
  PROVE  /\ First(s, n) \in Seq(S)
         /\ Len(First(s, n)) = Lesser(n, Len(s))
         /\ \A i \in 1..Len(First(s, n)) : i \in 1..Len(s) /\ First(s, n)[i] = s[i]
         /\ Len(s) <= n => First(s, n) = s
         /\ \A a \in Nat : Follows(s, a) => Follows(First(s, n), a)
         /\ Different(s) => Different(First(s, n))
<1> DEFINE u == First(s, n)
           k == Lesser(n, Len(s))
<1>1. k \in 0..Len(s) /\ (Len(s) <= n => k = Len(s)) /\ k <= n
  BY DEF Lesser
<1>2. u = SubSeq(s, 1, k)
  BY DEF First
<1>3. u \in Seq(S) /\ Len(u) = k
  <2> HIDE DEF k
  <2> QED
    BY <1>1, <1>2
<1>4. \A i \in 1..k : u[i] = s[i]
  <2> HIDE DEF k
  <2> QED
    BY <1>1, <1>2
<1>5. Len(s) <= n => u = s
  <2> HIDE DEF k, u
  <2> QED
    BY <1>1, <1>2
<1> HIDE DEF u, k
<1>6. \A i \in 1..Len(u) : i \in 1..Len(s) /\ u[i] = s[i]
  BY <1>1, <1>3, <1>4
<1>7. (\A a \in Nat : Follows(s, a) => Follows(u, a)) /\ (Different(s) => Different(u))
  BY <1>6 DEF Follows, Different
<1> QED
  BY <1>3, <1>5, <1>6, <1>7 DEF u, k

LEMMA ItemsFollowing ==
  ASSUME NEW S, NEW s \in Seq(S), NEW a \in Nat, Follows(s, a)
  PROVE  \A x : x \in ItemsOf(s) <=> x \in (a + 1)..(a + Len(s))
<1>1. ASSUME NEW x \in ItemsOf(s) PROVE x \in (a + 1)..(a + Len(s))
  BY <1>1 DEF ItemsOf, Follows
<1>2. ASSUME NEW x \in (a + 1)..(a + Len(s)) PROVE x \in ItemsOf(s)
  <2>1. x - a \in 1..Len(s) /\ s[x - a] = x
    BY <1>2 DEF Follows
  <2> QED
    BY <2>1 DEF ItemsOf
<1> QED
  BY <1>1, <1>2

\* The items before the known one: all of the page, or those up to it.
LEMMA BeforeFacts ==
  ASSUME NEW S, NEW page \in Seq(S), NEW stage, known \in Nat
  PROVE  /\ Before(stage, page) \in Seq(S) /\ Len(Before(stage, page)) <= Len(page)
         /\ ~stage.known => Before(stage, page) = page
         /\ Before(stage, page) = page <=> ~(stage.known /\ known \in ItemsOf(page))
         /\ \A a \in Nat : Follows(page, a) =>
              /\ Follows(Before(stage, page), a)
              /\ Before(stage, page) # page => a + Len(Before(stage, page)) = known - 1
<1> DEFINE k == CHOOSE i \in 1..Len(page) : page[i] = known
<1>1. CASE ~(stage.known /\ known \in ItemsOf(page))
  BY <1>1 DEF Before
<1>2. CASE stage.known /\ known \in ItemsOf(page)
  <2>1. k \in 1..Len(page) /\ page[k] = known
    <3>1. \E i \in 1..Len(page) : page[i] = known
      BY <1>2 DEF ItemsOf
    <3> QED
      BY <3>1
  <2>2. Before(stage, page) = First(page, k - 1)
    BY <1>2 DEF Before
  <2> HIDE DEF k
  <2>3. /\ First(page, k - 1) \in Seq(S) /\ Len(First(page, k - 1)) = k - 1
        /\ \A a \in Nat : Follows(page, a) => Follows(First(page, k - 1), a)
    BY <2>1, FirstFacts DEF Lesser
  <2>4. \A a \in Nat : Follows(page, a) => known = a + k
    BY <2>1 DEF Follows
  <2>5. First(page, k - 1) # page
    BY <2>1, <2>3
  <2> QED
    BY <1>2, <2>1, <2>2, <2>3, <2>4, <2>5
<1> QED
  BY <1>1, <1>2

\* What is kept after the first i items of a page.
Step(items, page, kept, i) ==
    IF i = 0 THEN items
    ELSE IF page[i] \in ItemsOf(kept[i - 1]) THEN kept[i - 1]
    ELSE Append(kept[i - 1], page[i])
IsKept(items, page, n, kept) == kept = [i \in 0..n |-> Step(items, page, kept, i)]

LEMMA KeptExists ==
  ASSUME NEW S, NEW items, NEW page \in Seq(S)
  PROVE  \E kept : IsKept(items, page, Len(page), kept)
<1> DEFINE Bad == {n \in 0..Len(page) : ~ \E kept : IsKept(items, page, n, kept)}
<1>1. SUFFICES ASSUME Bad # {} PROVE FALSE
  <2>1. Bad = {} => ~(Len(page) \in 0..Len(page) /\ ~ \E kept : IsKept(items, page, Len(page), kept))
    BY Zenon
  <2>2. Len(page) \in 0..Len(page)
    OBVIOUS
  <2> QED
    BY <2>1, <2>2, Zenon
<1>2. PICK n \in Bad : \A k \in Bad : n <= k
  <2>1. Bad \in SUBSET Nat
    OBVIOUS
  <2> HIDE DEF Bad
  <2> QED
    BY <1>1, <2>1, SmallestMember
<1>3. n \in 0..Len(page) /\ ~ \E kept : IsKept(items, page, n, kept)
  BY <1>2
<1>4. CASE n = 0
  <2>1. IsKept(items, page, 0, [i \in 0..0 |-> items])
    BY DEF IsKept, Step
  <2> QED
    BY <1>3, <1>4, <2>1
<1>5. CASE n # 0
  <2>1. n - 1 \in 0..Len(page) /\ n - 1 \notin Bad
    BY <1>2, <1>3, <1>5
  <2>2. PICK kept : IsKept(items, page, n - 1, kept)
    BY <2>1
  <2> DEFINE more == [i \in 0..n |-> IF i < n THEN kept[i] ELSE Step(items, page, kept, i)]
  <2>a. \A i \in 0..(n - 1) : kept[i] = Step(items, page, kept, i)
    BY <2>2 DEF IsKept
  <2>b. \A i \in 0..(n - 1) : more[i] = kept[i]
    BY <1>3
  <2>c. more[n] = Step(items, page, kept, n)
    BY <1>3
  <2>3. \A i \in 0..(n - 1) : more[i] = kept[i] /\ kept[i] = Step(items, page, kept, i)
    BY <2>a, <2>b
  <2>4. \A i \in 0..n : more[i] = Step(items, page, kept, i)
    <3> HIDE DEF more
    <3> QED
      BY <1>3, <2>3, <2>c
  <2>5. \A i \in 0..n : Step(items, page, more, i) = Step(items, page, kept, i)
    <3> SUFFICES ASSUME NEW i \in 0..n, i # 0
                 PROVE  more[i - 1] = kept[i - 1]
      BY DEF Step
    <3>1. i - 1 \in 0..(n - 1)
      BY <1>3
    <3> QED
      BY <2>3, <3>1
  <2>6. more = [i \in 0..n |-> more[i]]
    OBVIOUS
  <2> HIDE DEF more
  <2>7. IsKept(items, page, n, more)
    BY <2>4, <2>5, <2>6 DEF IsKept
  <2> QED
    BY <1>3, <2>7
<1> QED
  BY <1>4, <1>5

LEMMA WithNewIsKept ==
  ASSUME NEW S, NEW items, NEW page \in Seq(S)
  PROVE  \E kept : /\ WithNew(items, page) = kept[Len(page)]
                   /\ kept[0] = items
                   /\ \A i \in 1..Len(page) : kept[i] = Step(items, page, kept, i)
<1> DEFINE kept == CHOOSE f : f = [i \in 0..Len(page) |->
                                    IF i = 0 THEN items
                                    ELSE IF page[i] \in ItemsOf(f[i - 1]) THEN f[i - 1]
                                    ELSE Append(f[i - 1], page[i])]
<1>1. WithNew(items, page) = kept[Len(page)]
  BY Zenon DEF WithNew
<1>2. kept = CHOOSE f : IsKept(items, page, Len(page), f)
  BY Zenon DEF IsKept, Step
<1> HIDE DEF kept
<1>3. IsKept(items, page, Len(page), kept)
  BY <1>2, KeptExists, Zenon
<1>4. \A i \in 0..Len(page) : kept[i] = Step(items, page, kept, i)
  BY <1>3 DEF IsKept
<1>5. kept[0] = items
  BY <1>4 DEF Step
<1> QED
  BY <1>1, <1>4, <1>5

LEMMA AppendedIsDifferent ==
  ASSUME NEW S, NEW s \in Seq(S), NEW x \in S, x \notin ItemsOf(s), Different(s)
  PROVE  Different(Append(s, x))
<1>1. /\ Len(Append(s, x)) = Len(s) + 1
      /\ \A i \in 1..Len(s) : Append(s, x)[i] = s[i] /\ s[i] # x
      /\ Append(s, x)[Len(s) + 1] = x
  BY DEF ItemsOf
<1> QED
  BY <1>1 DEF Different

LEMMA AppendedFollows ==
  ASSUME NEW S, NEW s \in Seq(S), NEW x \in S, NEW a \in Nat, x = a + Len(s) + 1, Follows(s, a)
  PROVE  Follows(Append(s, x), a)
<1>1. /\ Len(Append(s, x)) = Len(s) + 1
      /\ \A i \in 1..Len(s) : Append(s, x)[i] = s[i]
      /\ Append(s, x)[Len(s) + 1] = x
  OBVIOUS
<1>2. \A i \in 1..(Len(s) + 1) : i \in 1..Len(s) \/ i = Len(s) + 1
  OBVIOUS
<1> QED
  BY <1>1, <1>2 DEF Follows

LEMMA WithNewFacts ==
  ASSUME NEW S, NEW items \in Seq(S), NEW page \in Seq(S)
  PROVE  /\ WithNew(items, page) \in Seq(S)
         /\ Different(items) => Different(WithNew(items, page))
<1>1. PICK kept : /\ WithNew(items, page) = kept[Len(page)]
                  /\ kept[0] = items
                  /\ \A i \in 1..Len(page) : kept[i] = Step(items, page, kept, i)
  BY WithNewIsKept
<1> DEFINE Good(i) == kept[i] \in Seq(S) /\ (Different(items) => Different(kept[i]))
           Bad == {n \in 0..Len(page) : ~Good(n)}
<1>2. SUFFICES ASSUME Bad # {} PROVE FALSE
  BY <1>1
<1>3. PICK n \in Bad : \A k \in Bad : n <= k
  <2>1. Bad \in SUBSET Nat
    OBVIOUS
  <2> HIDE DEF Bad
  <2> QED
    BY <1>2, <2>1, SmallestMember
<1>4. n \in 1..Len(page) /\ ~Good(n)
  BY <1>1, <1>3
<1>5. Good(n - 1)
  BY <1>3, <1>4
<1>6. kept[n] = Step(items, page, kept, n) /\ n # 0
  BY <1>1, <1>4
<1>7. CASE page[n] \in ItemsOf(kept[n - 1])
  BY <1>4, <1>5, <1>6, <1>7 DEF Step
<1>8. CASE page[n] \notin ItemsOf(kept[n - 1])
  <2>1. kept[n] = Append(kept[n - 1], page[n]) /\ page[n] \in S
    BY <1>4, <1>6, <1>8 DEF Step
  <2>2. Different(items) => Different(kept[n])
    BY <1>5, <1>8, <2>1, AppendedIsDifferent
  <2> QED
    BY <1>4, <1>5, <2>1, <2>2
<1> QED
  BY <1>7, <1>8

LEMMA WithNewFollows ==
  ASSUME NEW S, NEW items \in Seq(S), NEW page \in Seq(S), NEW a \in Nat,
         Follows(items, a), Follows(page, a + Len(items))
  PROVE  /\ Follows(WithNew(items, page), a)
         /\ Len(WithNew(items, page)) = Len(items) + Len(page)
<1>1. PICK kept : /\ WithNew(items, page) = kept[Len(page)]
                  /\ kept[0] = items
                  /\ \A i \in 1..Len(page) : kept[i] = Step(items, page, kept, i)
  BY WithNewIsKept
<1> DEFINE Good(i) == /\ kept[i] \in Seq(S) /\ Follows(kept[i], a)
                      /\ Len(kept[i]) = Len(items) + i
           Bad == {n \in 0..Len(page) : ~Good(n)}
<1>2. SUFFICES ASSUME Bad # {} PROVE FALSE
  BY <1>1
<1>3. PICK n \in Bad : \A k \in Bad : n <= k
  <2>1. Bad \in SUBSET Nat
    OBVIOUS
  <2> HIDE DEF Bad
  <2> QED
    BY <1>2, <2>1, SmallestMember
<1>4. n \in 1..Len(page) /\ ~Good(n)
  BY <1>1, <1>3
<1>5. Good(n - 1)
  <2>1. n - 1 \in 0..Len(page) /\ n - 1 \notin Bad
    <3> HIDE DEF Good
    <3> QED
      BY <1>3, <1>4
  <2> QED
    BY <2>1
<1>6. page[n] = a + Len(items) + n /\ page[n] \in S
  BY <1>4 DEF Follows
<1>7. page[n] \notin ItemsOf(kept[n - 1])
  BY <1>4, <1>5, <1>6, ItemsFollowing
<1>8. kept[n] = Append(kept[n - 1], page[n])
  <2>1. kept[n] = Step(items, page, kept, n) /\ n # 0
    BY <1>1, <1>4
  <2> QED
    BY <1>7, <2>1 DEF Step
<1>9. kept[n] \in Seq(S) /\ Len(kept[n]) = Len(kept[n - 1]) + 1
  BY <1>5, <1>6, <1>8
<1>10. Len(kept[n]) = Len(items) + n
  BY <1>4, <1>5, <1>9
<1>11. page[n] = a + Len(kept[n - 1]) + 1
  BY <1>4, <1>5, <1>6
<1>12. Follows(kept[n], a)
  BY <1>5, <1>6, <1>8, <1>11, AppendedFollows
<1> QED
  BY <1>4, <1>9, <1>10, <1>12

-------------------------------------------------------------------------------
(* What the machine needs of the table.                                      *)

Fallbacks == {"user_following_gql", "user_following_v1", "user_medias_gql", "user_medias_v1",
              "usertag_medias_gql"}
\* collections takes no amount, and reels_timeline_media returns the surplus of its last page.
Exempt == {"collections", "reels_timeline_media"}
Reasons == {"flag", "cursor", "empty", "same", "amount", "later", "over"}
Stage == [asks : {"left", "limit", "free"}, keeps : {"all", "new", "cut"}, stops : SUBSET Reasons,
          cursor : {"answer", "flagged", "item", "none"}, trims : {"no", "always", "unlessLast"},
          keepsOn : SUBSET Errors, fallsOn : SUBSET Errors, tied : BOOLEAN, known : BOOLEAN]

\* A loop that asks for what is missing ends as soon as nothing is missing.
Fits(p, g, l) ==
    /\ p \in Stage /\ l \in Stage /\ g \in {"whole", "rest", "page", "none"}
    /\ g \in {"rest", "page"} => "amount" \in l.stops
    /\ p.asks = "left" => "amount" \in p.stops /\ g # "none"

\* The result is cut at the amount, by the loop or by its only page.
Cuts(p, g, l) ==
    \/ l.trims = "always"
    \/ l.keeps = "cut"
    \/ /\ l.stops = {} /\ l.keeps = "all" /\ ~l.known /\ g = "whole"
       /\ p.keepsOn = {} /\ (p.keeps = "cut" \/ p.trims = "always")

\* A loop that does not stop goes on behind the last item, and what a page cuts off is not missed.
Orderly(p, g, l) ==
    /\ p.cursor # "none"
    /\ p.stops = {} \/ "cursor" \in p.stops \/ "flag" \in p.stops
    /\ p.keeps = "cut" \/ p.trims # "no" =>
          \/ /\ g \in {"whole", "rest"} /\ (l.stops = {} \/ "amount" \in l.stops)
             /\ p.keeps = "cut" => p.stops = {} \/ "amount" \in p.stops
          \/ p.keeps # "cut" /\ p.asks = "limit" /\ p.stops = {}
    /\ p.known => l.stops = {} /\ p.keeps = "all"
    /\ l.stops = {} => /\ p.stops \subseteq {"flag", "cursor", "empty", "amount", "later"}
                       /\ p.stops = {} \/ g \in {"whole", "none"}
    /\ l.keeps # "new" /\ (l.known => l.keeps = "all" /\ p.stops = {})
    /\ l.keeps = "cut" => "amount" \in l.stops
    /\ \/ l.stops = {}
       \/ "cursor" \in l.stops /\ l.stops \subseteq {"cursor", "empty", "same", "amount"}

Sound(m) ==
    /\ m.pages \in Seq(Stage) /\ m.pages # <<>>
    /\ m.upon # {} => m.then \in Fallbacks
    /\ \A i \in 1..Len(m.pages) : Fits(m.pages[i], m.gives, m.loop)
KeepsAmount(m) == \A i \in 1..Len(m.pages) : Cuts(m.pages[i], m.gives, m.loop)
InOrder(m) ==
    /\ \A i \in 1..Len(m.pages) : Orderly(m.pages[i], m.gives, m.loop)
    /\ m.loop.stops = {} /\ Len(m.pages) > 1 => \A i \in 1..Len(m.pages) : m.pages[i].stops = {}
Whole(m) == m.zero = "all" /\ \A i \in 1..Len(m.pages) : ~m.pages[i].known
CollectsUnique(m) ==
    /\ Len(m.pages) = 1 /\ m.pages[1].keeps = "new" /\ m.pages[1].keepsOn = {} /\ ~m.pages[1].known
    /\ m.upon = {} /\ m.loop.keeps = "all" /\ ~m.loop.known /\ m.loop.stops = {}

\* The four that most of the methods meet.
Suits(p, g, l) == Fits(p, g, l) /\ Cuts(p, g, l) /\ Orderly(p, g, l) /\ ~p.known
Regular(m) == Sound(m) /\ KeepsAmount(m) /\ InOrder(m) /\ Whole(m)

Shape(s, asks, keeps, stops, mark, trims, keepsOn, fallsOn, tied, knows) ==
    /\ s \in Stage /\ s.asks = asks /\ s.keeps = keeps /\ s.stops = stops /\ s.cursor = mark
    /\ s.trims = trims /\ s.keepsOn = keepsOn /\ s.fallsOn = fallsOn /\ s.tied = tied
    /\ s.known = knows
LEMMA SingleShape == Shape(Single, "free", "all", {}, "answer", "no", {}, {}, FALSE, FALSE)
  BY DEF Shape, Single, Stage

LEMMA LoopShapes ==
  /\ Shape(Trimmed, "free", "all", {}, "answer", "always", {}, {}, FALSE, FALSE)
  /\ Shape(CursorLoop, "free", "all", {"cursor", "amount"}, "answer", "always", {}, {}, FALSE,
    FALSE)
  /\ Shape(PageLoop, "free", "all", {"cursor", "empty", "amount"}, "answer", "always", {}, {},
    FALSE, FALSE)
  /\ Shape(IterPaginated, "free", "cut", {"empty", "cursor", "same", "amount"}, "answer", "no",
    {}, {}, FALSE, FALSE)
<1>1. Shape(Trimmed, "free", "all", {}, "answer", "always", {}, {}, FALSE, FALSE)
  BY SingleShape DEF Shape, Stage, Reasons, Errors, Trimmed
<1>2. Shape(CursorLoop, "free", "all", {"cursor", "amount"}, "answer", "always", {}, {}, FALSE,
  FALSE)
  BY SingleShape DEF Shape, Stage, Reasons, Errors, CursorLoop, Trimmed
<1>3. Shape(PageLoop, "free", "all", {"cursor", "empty", "amount"}, "answer", "always", {}, {},
  FALSE, FALSE)
  BY SingleShape DEF Shape, Stage, Reasons, Errors, PageLoop, Trimmed
<1>4. Shape(IterPaginated, "free", "cut", {"empty", "cursor", "same", "amount"}, "answer", "no",
  {}, {}, FALSE, FALSE)
  BY SingleShape DEF Shape, Stage, Reasons, Errors, IterPaginated
<1> QED
  BY <1>1, <1>2, <1>3, <1>4


LEMMA OfOnePage ==
  ASSUME NEW p, NEW g, NEW l, Suits(p, g, l)
  PROVE  Regular(Method(<<p>>, g, l))
<1> DEFINE m == Method(<<p>>, g, l)
<1>1. /\ m.pages = <<p>> /\ Len(m.pages) = 1 /\ m.pages[1] = p
      /\ m.gives = g /\ m.loop = l /\ m.upon = {} /\ m.zero = "all"
  BY DEF Method
<1>2. p \in Stage
  BY DEF Suits, Fits
<1> HIDE DEF m
<1>3. Sound(m) /\ KeepsAmount(m)
  BY <1>1, <1>2 DEF Suits, Fits, Sound, KeepsAmount
<1>4. InOrder(m) /\ Whole(m)
  BY <1>1 DEF Suits, InOrder, Whole
<1> QED
  BY <1>3, <1>4 DEF m, Regular

LEMMA OfTwoPages ==
  ASSUME NEW p, NEW q, NEW g, NEW l, Suits(p, g, l), Suits(q, g, l), p.stops = {}, q.stops = {}
  PROVE  Regular(Method(<<p, q>>, g, l))
<1> DEFINE m == Method(<<p, q>>, g, l)
<1>1. /\ m.pages = <<p, q>> /\ Len(m.pages) = 2 /\ m.pages[1] = p /\ m.pages[2] = q
      /\ m.gives = g /\ m.loop = l /\ m.upon = {} /\ m.zero = "all"
  BY DEF Method
<1>2. p \in Stage /\ q \in Stage
  BY DEF Suits, Fits
<1> HIDE DEF m
<1>3. Sound(m) /\ KeepsAmount(m)
  BY <1>1, <1>2 DEF Suits, Fits, Sound, KeepsAmount
<1>4. InOrder(m) /\ Whole(m)
  BY <1>1 DEF Suits, InOrder, Whole
<1> QED
  BY <1>3, <1>4 DEF m, Regular

LEMMA OfThreePages ==
  ASSUME NEW p, NEW q, NEW r, NEW g, NEW l, Suits(p, g, l), Suits(q, g, l), Suits(r, g, l),
         l.stops # {}
  PROVE  Regular(Method(<<p, q, r>>, g, l))
<1> DEFINE m == Method(<<p, q, r>>, g, l)
<1>1. /\ m.pages = <<p, q, r>> /\ Len(m.pages) = 3
      /\ m.pages[1] = p /\ m.pages[2] = q /\ m.pages[3] = r
      /\ m.gives = g /\ m.loop = l /\ m.upon = {} /\ m.zero = "all"
  BY DEF Method
<1>2. p \in Stage /\ q \in Stage /\ r \in Stage
  BY DEF Suits, Fits
<1> HIDE DEF m
<1>3. Sound(m) /\ KeepsAmount(m)
  BY <1>1, <1>2 DEF Suits, Fits, Sound, KeepsAmount
<1>4. InOrder(m) /\ Whole(m)
  BY <1>1 DEF Suits, InOrder, Whole
<1> QED
  BY <1>3, <1>4 DEF m, Regular

\* Where a method falls back to changes nothing but that.
LEMMA ElseRegular ==
  ASSUME NEW alternatives, NEW g, NEW l, NEW then \in Fallbacks, NEW upon,
         Regular(Method(alternatives, g, l))
  PROVE  Regular(Else(Method(alternatives, g, l), then, upon))
<1> DEFINE m == Method(alternatives, g, l)
           e == Else(m, then, upon)
<1>1. /\ e.pages = alternatives /\ e.gives = g /\ e.loop = l /\ e.then = then /\ e.zero = "all"
      /\ m.pages = alternatives /\ m.gives = g /\ m.loop = l /\ m.zero = "all"
  BY DEF Method, Else
<1> HIDE DEF m, e
<1>2. Regular(m)
  BY DEF m
<1>3. Regular(e)
  BY <1>1, <1>2 DEF Regular, Sound, KeepsAmount, InOrder, Whole
<1> QED
  BY <1>3 DEF e, m

LEMMA RegularMethods ==
  /\ Regular(UserFollowingGql) /\ Regular(UserFollowingV1) /\ Regular(UserFollowing)
  /\ Regular(UserFollowingPublic) /\ Regular(UserFollowersGql) /\ Regular(UserFollowersV1)
  /\ Regular(UserFollowersPrivateGql) /\ Regular(IterUserFollowing) /\ Regular(IterUserFollowers)
  /\ Regular(FollowRequests) /\ Regular(UserMediasGql) /\ Regular(UserMediasV1)
  /\ Regular(UserMedias) /\ Regular(UserMediasPublic) /\ Regular(IterUserMedias)
  /\ Regular(UserClipsV1) /\ Regular(ArchiveMediasV1) /\ Regular(UsertagMediasGql)
  /\ Regular(UsertagMediasV1) /\ Regular(UsertagMedias) /\ Regular(UsertagMediasPaginated)
  /\ Regular(HashtagMediasPaginated) /\ Regular(HashtagMediasPublic) /\ Regular(HashtagMediasV1)
  /\ Regular(LocationMediasV1) /\ Regular(CollectionMediasV1) /\ Regular(ThreadedCommentsGql)
  /\ Regular(CommentsGql) /\ Regular(CommentLikersGql) /\ Regular(Comments)
  /\ Regular(CommentReplies) /\ Regular(DirectThreads) /\ Regular(DirectPendingInbox)
  /\ Regular(DirectSpamInbox) /\ Regular(DirectThread) /\ Regular(DirectMedia)
  /\ Regular(MediaSearch) /\ Regular(InsightsMediaFeedAll) /\ Regular(ArchiveStoryDaysV1)
  /\ Regular(ArchiveStoriesV1) /\ Regular(StoryViewers) /\ Regular(StoryLikers)
<1>1. Regular(UserFollowingGql)
  BY OfOnePage, SingleShape, LoopShapes, ZenonT(40) DEF Suits, Fits, Cuts, Orderly, Shape,
    Stage, Reasons, Errors, UserFollowingGql, UserFollowingGqlChunk
<1>2. Regular(UserFollowingV1)
  BY OfOnePage, SingleShape, LoopShapes, ZenonT(40) DEF Suits, Fits, Cuts, Orderly, Shape,
    Stage, Reasons, Errors, UserFollowingV1, UserFollowingV1Chunk
<1>3. Regular(UserFollowing)
  BY <1>2, ElseRegular DEF UserFollowing, UserFollowingV1, Fallbacks
<1>4. Regular(UserFollowingPublic)
  BY <1>1, ElseRegular DEF UserFollowingPublic, UserFollowingGql, Fallbacks
<1>5. Regular(UserFollowersGql)
  BY OfOnePage, SingleShape, LoopShapes, ZenonT(40) DEF Suits, Fits, Cuts, Orderly, Shape,
    Stage, Reasons, Errors, UserFollowersGql, UserFollowersGqlChunk
<1>6. Regular(UserFollowersV1)
  BY OfOnePage, SingleShape, LoopShapes, ZenonT(40) DEF Suits, Fits, Cuts, Orderly, Shape,
    Stage, Reasons, Errors, UserFollowersV1, UserFollowersV1Chunk
<1>7. Regular(UserFollowersPrivateGql)
  BY OfOnePage, SingleShape, LoopShapes, ZenonT(40) DEF Suits, Fits, Cuts, Orderly, Shape,
    Stage, Reasons, Errors, UserFollowersPrivateGql, FollowersPrivateGqlChunk
<1>8. Regular(IterUserFollowing)
  BY OfOnePage, SingleShape, LoopShapes, ZenonT(40) DEF Suits, Fits, Cuts, Orderly, Shape,
    Stage, Reasons, Errors, IterUserFollowing, UserFollowingV1Chunk
<1>9. Regular(IterUserFollowers)
  BY OfOnePage, SingleShape, LoopShapes, ZenonT(40) DEF Suits, Fits, Cuts, Orderly, Shape,
    Stage, Reasons, Errors, IterUserFollowers, UserFollowersV1Chunk
<1>10. Regular(FollowRequests)
  BY OfOnePage, SingleShape, LoopShapes, ZenonT(40) DEF Suits, Fits, Cuts, Orderly, Shape,
    Stage, Reasons, Errors, FollowRequests, FollowRequestsChunk
<1>11. Regular(UserMediasGql)
  <2>1. Suits(UserMediasAppGql, "whole", PageLoop) /\ UserMediasAppGql.stops = {}
    BY SingleShape, LoopShapes, ZenonT(40) DEF Suits, Fits, Cuts, Orderly, Shape, Stage,
      Reasons, Errors, UserMediasAppGql
  <2>2. Suits(UserMediasPublicGql, "whole", PageLoop) /\ UserMediasPublicGql.stops = {}
    BY SingleShape, LoopShapes, ZenonT(40) DEF Suits, Fits, Cuts, Orderly, Shape, Stage,
      Reasons, Errors, UserMediasPublicGql
  <2> QED
    BY <2>1, <2>2, OfTwoPages DEF UserMediasGql
<1>12. Regular(UserMediasV1)
  BY OfOnePage, SingleShape, LoopShapes, ZenonT(40) DEF Suits, Fits, Cuts, Orderly, Shape,
    Stage, Reasons, Errors, UserMediasV1, UserMediasPageV1
<1>13. Regular(UserMedias)
  BY <1>12, ElseRegular DEF UserMedias, UserMediasV1, Fallbacks
<1>14. Regular(UserMediasPublic)
  BY <1>11, ElseRegular DEF UserMediasPublic, UserMediasGql, Fallbacks
<1>15. Regular(IterUserMedias)
  <2>1. Suits(UserMediasPageV1, "page", IterPaginated)
    BY SingleShape, LoopShapes, ZenonT(40) DEF Suits, Fits, Cuts, Orderly, Shape, Stage,
      Reasons, Errors, UserMediasPageV1
  <2>2. Suits(UserMediasAppGql, "page", IterPaginated)
    BY SingleShape, LoopShapes, ZenonT(40) DEF Suits, Fits, Cuts, Orderly, Shape, Stage,
      Reasons, Errors, UserMediasAppGql
  <2>3. Suits(UserMediasPublicGql, "page", IterPaginated)
    BY SingleShape, LoopShapes, ZenonT(40) DEF Suits, Fits, Cuts, Orderly, Shape, Stage,
      Reasons, Errors, UserMediasPublicGql
  <2> QED
    BY <2>1, <2>2, <2>3, OfThreePages, LoopShapes DEF IterUserMedias, Shape
<1>16. Regular(UserClipsV1)
  BY OfOnePage, SingleShape, LoopShapes, ZenonT(40) DEF Suits, Fits, Cuts, Orderly, Shape,
    Stage, Reasons, Errors, UserClipsV1, UserClipsPageV1
<1>17. Regular(ArchiveMediasV1)
  BY OfOnePage, SingleShape, LoopShapes, ZenonT(40) DEF Suits, Fits, Cuts, Orderly, Shape,
    Stage, Reasons, Errors, ArchiveMediasV1, ArchiveMediasPageV1
<1>18. Regular(UsertagMediasGql)
  BY OfOnePage, SingleShape, LoopShapes, ZenonT(40) DEF Suits, Fits, Cuts, Orderly, Shape,
    Stage, Reasons, Errors, UsertagMediasGql, UsertagMediasGqlPage
<1>19. Regular(UsertagMediasV1)
  BY OfOnePage, SingleShape, LoopShapes, ZenonT(40) DEF Suits, Fits, Cuts, Orderly, Shape,
    Stage, Reasons, Errors, UsertagMediasV1, UsertagMediasV1Page
<1>20. Regular(UsertagMedias)
  BY <1>19, ElseRegular DEF UsertagMedias, UsertagMediasV1, Fallbacks
<1>21. Regular(UsertagMediasPaginated)
  <2>1. Suits(UsertagPageV1, "whole", Single) /\ UsertagPageV1.stops = {}
    BY SingleShape, LoopShapes, ZenonT(40) DEF Suits, Fits, Cuts, Orderly, Shape, Stage,
      Reasons, Errors, UsertagPageV1
  <2>2. Suits(UsertagPageGql, "whole", Single) /\ UsertagPageGql.stops = {}
    BY SingleShape, LoopShapes, ZenonT(40) DEF Suits, Fits, Cuts, Orderly, Shape, Stage,
      Reasons, Errors, UsertagPageGql
  <2> QED
    BY <2>1, <2>2, OfTwoPages DEF UsertagMediasPaginated
<1>22. Regular(HashtagMediasPaginated)
  <2>1. Suits(HashtagMediasV1Chunk, "whole", Single) /\ HashtagMediasV1Chunk.stops = {}
    BY SingleShape, LoopShapes, ZenonT(40) DEF Suits, Fits, Cuts, Orderly, Shape, Stage,
      Reasons, Errors, HashtagMediasV1Chunk
  <2>2. Suits(HashtagMediasPageGql, "whole", Single) /\ HashtagMediasPageGql.stops = {}
    BY SingleShape, LoopShapes, ZenonT(40) DEF Suits, Fits, Cuts, Orderly, Shape, Stage,
      Reasons, Errors, HashtagMediasPageGql
  <2> QED
    BY <2>1, <2>2, OfTwoPages DEF HashtagMediasPaginated
<1>23. Regular(HashtagMediasPublic)
  <2>1. Suits(HashtagMediasPageGql, "whole", Single) /\ HashtagMediasPageGql.stops = {}
    BY SingleShape, LoopShapes, ZenonT(40) DEF Suits, Fits, Cuts, Orderly, Shape, Stage,
      Reasons, Errors, HashtagMediasPageGql
  <2>2. Suits(HashtagMediasV1Chunk, "whole", Single) /\ HashtagMediasV1Chunk.stops = {}
    BY SingleShape, LoopShapes, ZenonT(40) DEF Suits, Fits, Cuts, Orderly, Shape, Stage,
      Reasons, Errors, HashtagMediasV1Chunk
  <2> QED
    BY <2>1, <2>2, OfTwoPages DEF HashtagMediasPublic
<1>24. Regular(HashtagMediasV1)
  BY OfOnePage, SingleShape, LoopShapes, ZenonT(40) DEF Suits, Fits, Cuts, Orderly, Shape,
    Stage, Reasons, Errors, HashtagMediasV1, HashtagMediasV1Chunk
<1>25. Regular(LocationMediasV1)
  BY OfOnePage, SingleShape, LoopShapes, ZenonT(40) DEF Suits, Fits, Cuts, Orderly, Shape,
    Stage, Reasons, Errors, LocationMediasV1, LocationMediasV1Chunk
<1>26. Regular(CollectionMediasV1)
  BY OfOnePage, SingleShape, LoopShapes, ZenonT(40) DEF Suits, Fits, Cuts, Orderly, Shape,
    Stage, Reasons, Errors, CollectionMediasV1, CollectionMediasV1Chunk, PageLoop
<1>27. Regular(ThreadedCommentsGql)
  BY OfOnePage, SingleShape, LoopShapes, ZenonT(40) DEF Suits, Fits, Cuts, Orderly, Shape,
    Stage, Reasons, Errors, ThreadedCommentsGql, ThreadedCommentsGqlChunk
<1>28. Regular(CommentsGql)
  BY OfOnePage, SingleShape, LoopShapes, ZenonT(40) DEF Suits, Fits, Cuts, Orderly, Shape,
    Stage, Reasons, Errors, CommentsGql, CommentsGqlChunk
<1>29. Regular(CommentLikersGql)
  BY OfOnePage, SingleShape, LoopShapes, ZenonT(40) DEF Suits, Fits, Cuts, Orderly, Shape,
    Stage, Reasons, Errors, CommentLikersGql, CommentLikersGqlChunk
<1>30. Regular(Comments)
  BY OfOnePage, SingleShape, LoopShapes, ZenonT(40) DEF Suits, Fits, Cuts, Orderly, Shape,
    Stage, Reasons, Errors, Comments, CommentsChunk
<1>31. Regular(CommentReplies)
  BY OfOnePage, SingleShape, LoopShapes, ZenonT(40) DEF Suits, Fits, Cuts, Orderly, Shape,
    Stage, Reasons, Errors, CommentReplies, CommentRepliesPage
<1>32. Regular(DirectThreads)
  BY OfOnePage, SingleShape, LoopShapes, ZenonT(40) DEF Suits, Fits, Cuts, Orderly, Shape,
    Stage, Reasons, Errors, DirectThreads, DirectThreadsChunk
<1>33. Regular(DirectPendingInbox)
  BY OfOnePage, SingleShape, LoopShapes, ZenonT(40) DEF Suits, Fits, Cuts, Orderly, Shape,
    Stage, Reasons, Errors, DirectPendingInbox, DirectPendingChunk
<1>34. Regular(DirectSpamInbox)
  BY OfOnePage, SingleShape, LoopShapes, ZenonT(40) DEF Suits, Fits, Cuts, Orderly, Shape,
    Stage, Reasons, Errors, DirectSpamInbox, DirectSpamChunk
<1>35. Regular(DirectThread)
  BY OfOnePage, SingleShape, LoopShapes, ZenonT(40) DEF Suits, Fits, Cuts, Orderly, Shape,
    Stage, Reasons, Errors, DirectThread, DirectThreadPage
<1>36. Regular(DirectMedia)
  BY OfOnePage, SingleShape, LoopShapes, ZenonT(40) DEF Suits, Fits, Cuts, Orderly, Shape,
    Stage, Reasons, Errors, DirectMedia, DirectMediaPage
<1>37. Regular(MediaSearch)
  BY OfOnePage, SingleShape, LoopShapes, ZenonT(40) DEF Suits, Fits, Cuts, Orderly, Shape,
    Stage, Reasons, Errors, MediaSearch, MediaSearchPage
<1>38. Regular(InsightsMediaFeedAll)
  BY OfOnePage, SingleShape, LoopShapes, ZenonT(40) DEF Suits, Fits, Cuts, Orderly, Shape,
    Stage, Reasons, Errors, InsightsMediaFeedAll, InsightsPage
<1>39. Regular(ArchiveStoryDaysV1)
  BY OfOnePage, SingleShape, LoopShapes, ZenonT(40) DEF Suits, Fits, Cuts, Orderly, Shape,
    Stage, Reasons, Errors, ArchiveStoryDaysV1, ArchiveDaysPageV1
<1>40. Regular(ArchiveStoriesV1)
  BY OfOnePage, SingleShape, LoopShapes, ZenonT(40) DEF Suits, Fits, Cuts, Orderly, Shape,
    Stage, Reasons, Errors, ArchiveStoriesV1, ArchiveStoriesBatch
<1>41. Regular(StoryViewers)
  BY OfOnePage, SingleShape, LoopShapes, ZenonT(40) DEF Suits, Fits, Cuts, Orderly, Shape,
    Stage, Reasons, Errors, StoryViewers, StoryViewersChunk
<1>42. Regular(StoryLikers)
  BY OfOnePage, SingleShape, LoopShapes, ZenonT(40) DEF Suits, Fits, Cuts, Orderly, Shape,
    Stage, Reasons, Errors, StoryLikers, StoryLikersChunk
<1> QED
  BY <1>1, <1>2, <1>3, <1>4, <1>5, <1>6, <1>7, <1>8, <1>9, <1>10, <1>11, <1>12, <1>13, <1>14,
    <1>15, <1>16, <1>17, <1>18, <1>19, <1>20, <1>21, <1>22, <1>23, <1>24, <1>25, <1>26, <1>27,
    <1>28, <1>29, <1>30, <1>31, <1>32, <1>33, <1>34, <1>35, <1>36, <1>37, <1>38, <1>39, <1>40,
    <1>41, <1>42

\* The methods that are not regular.
LEMMA OtherMethods ==
  /\ \A m \in {UserVideosV1, IterHashtagMedias} : Sound(m) /\ KeepsAmount(m) /\ Whole(m)
  /\ Sound(CommentsV1) /\ KeepsAmount(CommentsV1) /\ Whole(CommentsV1)
  /\ Sound(Collections) /\ InOrder(Collections) /\ Whole(Collections)
  /\ Sound(ReelsTimelineMedia) /\ InOrder(ReelsTimelineMedia)
<1>1. Sound(UserVideosV1) /\ KeepsAmount(UserVideosV1) /\ Whole(UserVideosV1)
  <2>1. Fits(UserVideosPageV1, "whole", CursorLoop) /\ Cuts(UserVideosPageV1, "whole", CursorLoop)
        /\ ~UserVideosPageV1.known
    BY SingleShape, LoopShapes DEF Fits, Cuts, Shape, Stage, Reasons, Errors, UserVideosPageV1
  <2>2. /\ UserVideosV1.pages = <<UserVideosPageV1>> /\ UserVideosV1.gives = "whole"
        /\ UserVideosV1.loop = CursorLoop /\ UserVideosV1.upon = {} /\ UserVideosV1.zero = "all"
    BY DEF UserVideosV1, Method
  <2> QED
    BY <2>1, <2>2 DEF Sound, KeepsAmount, Whole, Fits
<1>2. Sound(IterHashtagMedias) /\ KeepsAmount(IterHashtagMedias) /\ Whole(IterHashtagMedias)
  <2> DEFINE p == HashtagMediasV1Chunk
             q == HashtagMediasPageGql
  <2>1. Fits(p, "page", IterPaginated) /\ Cuts(p, "page", IterPaginated) /\ ~p.known
    BY SingleShape, LoopShapes DEF Fits, Cuts, Shape, Stage, Reasons, Errors, HashtagMediasV1Chunk
  <2>2. Fits(q, "page", IterPaginated) /\ Cuts(q, "page", IterPaginated) /\ ~q.known
    BY SingleShape, LoopShapes DEF Fits, Cuts, Shape, Stage, Reasons, Errors, HashtagMediasPageGql
  <2>3. /\ IterHashtagMedias.pages = <<p, q>> /\ IterHashtagMedias.gives = "page"
        /\ IterHashtagMedias.loop = IterPaginated
        /\ IterHashtagMedias.upon = {} /\ IterHashtagMedias.zero = "all"
    BY DEF IterHashtagMedias, Method
  <2> HIDE DEF p, q
  <2> QED
    BY <2>1, <2>2, <2>3 DEF Sound, KeepsAmount, Whole, Fits
<1>3. Sound(CommentsV1) /\ KeepsAmount(CommentsV1) /\ Whole(CommentsV1)
  <2> DEFINE l == [Trimmed EXCEPT !.stops = {"empty", "over"}]
  <2>1. Fits(CommentsV1Chunk, "none", l) /\ Cuts(CommentsV1Chunk, "none", l)
        /\ ~CommentsV1Chunk.known
    BY SingleShape, LoopShapes DEF Fits, Cuts, Shape, Stage, Reasons, Errors, CommentsV1Chunk
  <2>2. /\ CommentsV1.pages = <<CommentsV1Chunk>> /\ CommentsV1.gives = "none"
        /\ CommentsV1.loop = l /\ CommentsV1.upon = {} /\ CommentsV1.zero = "all"
    BY DEF CommentsV1, Method
  <2> HIDE DEF l
  <2> QED
    BY <2>1, <2>2 DEF Sound, KeepsAmount, Whole, Fits
<1>4. Sound(Collections) /\ InOrder(Collections) /\ Whole(Collections)
  <2>1. Fits(CollectionsPage, "none", Single) /\ Orderly(CollectionsPage, "none", Single)
        /\ ~CollectionsPage.known
    BY SingleShape DEF Fits, Orderly, Shape, Stage, Reasons, Errors, CollectionsPage
  <2>2. /\ Collections.pages = <<CollectionsPage>> /\ Collections.gives = "none"
        /\ Collections.loop = Single /\ Collections.upon = {} /\ Collections.zero = "all"
    BY DEF Collections, Method
  <2> QED
    BY <2>1, <2>2 DEF Sound, InOrder, Whole, Fits
<1>5. Sound(ReelsTimelineMedia) /\ InOrder(ReelsTimelineMedia)
  <2>1. Fits(ReelsPage, "whole", Single) /\ Orderly(ReelsPage, "whole", Single)
    BY SingleShape DEF Fits, Orderly, Shape, Stage, Reasons, Errors, ReelsPage
  <2>2. /\ ReelsTimelineMedia.pages = <<ReelsPage>> /\ ReelsTimelineMedia.gives = "whole"
        /\ ReelsTimelineMedia.loop = Single /\ ReelsTimelineMedia.upon = {}
    BY DEF ReelsTimelineMedia, Method
  <2> QED
    BY <2>1, <2>2 DEF Sound, InOrder, Fits
<1> QED
  BY <1>1, <1>2, <1>3, <1>4, <1>5

LEMMA UniqueMethods ==
  \A m \in {UserFollowingV1, UserFollowersV1, FollowRequests, StoryViewers, StoryLikers} :
     CollectsUnique(m)
<1>1. ASSUME NEW p, p.keeps = "new", p.keepsOn = {}, ~p.known
      PROVE  CollectsUnique(Method(<<p>>, "whole", Trimmed))
  <2> DEFINE m == Method(<<p>>, "whole", Trimmed)
  <2>1. m.pages = <<p>> /\ Len(m.pages) = 1 /\ m.pages[1] = p /\ m.loop = Trimmed /\ m.upon = {}
    BY DEF Method
  <2> HIDE DEF m
  <2>2. CollectsUnique(m)
    BY <1>1, <2>1, LoopShapes DEF CollectsUnique, Shape
  <2> QED
    BY <2>2 DEF m
<1>2. CollectsUnique(UserFollowingV1) /\ CollectsUnique(UserFollowersV1)
  <2>1. UserFollowingV1Chunk.keeps = "new" /\ UserFollowingV1Chunk.keepsOn = {} /\ ~UserFollowingV1Chunk.known
    BY SingleShape DEF Shape, UserFollowingV1Chunk
  <2>2. UserFollowersV1Chunk.keeps = "new" /\ UserFollowersV1Chunk.keepsOn = {} /\ ~UserFollowersV1Chunk.known
    BY SingleShape DEF Shape, UserFollowersV1Chunk
  <2> QED
    BY <1>1, <2>1, <2>2 DEF UserFollowingV1, UserFollowersV1
<1>3. CollectsUnique(FollowRequests)
  <2>1. FollowRequestsChunk.keeps = "new" /\ FollowRequestsChunk.keepsOn = {} /\ ~FollowRequestsChunk.known
    BY SingleShape DEF Shape, FollowRequestsChunk
  <2> QED
    BY <1>1, <2>1 DEF FollowRequests
<1>4. CollectsUnique(StoryViewers) /\ CollectsUnique(StoryLikers)
  <2>1. StoryViewersChunk.keeps = "new" /\ StoryViewersChunk.keepsOn = {} /\ ~StoryViewersChunk.known
    BY SingleShape DEF Shape, StoryViewersChunk
  <2>2. StoryLikersChunk.keeps = "new" /\ StoryLikersChunk.keepsOn = {} /\ ~StoryLikersChunk.known
    BY SingleShape DEF Shape, StoryLikersChunk
  <2> QED
    BY <1>1, <2>1, <2>2 DEF StoryViewers, StoryLikers
<1> QED
  BY <1>2, <1>3, <1>4

\* What every method meets.
Fine(name) ==
    /\ Sound(Calls[name])
    /\ name \notin Exempt => KeepsAmount(Calls[name])
    /\ name \in Dependable => InOrder(Calls[name])
    /\ name # "reels_timeline_media" => Whole(Calls[name])
    /\ name \in Unique => CollectsUnique(Calls[name])

LEMMA TableIsSound == \A name \in DOMAIN Calls : Fine(name)
<1>1. DOMAIN Calls = 
        {"user_following", "user_following_public", "user_following_gql", "user_following_v1",
          "user_followers_gql", "user_followers_v1", "user_followers_private_gql",
          "iter_user_following_v1", "iter_user_followers_v1", "user_follow_requests",
          "user_medias", "user_medias_public", "user_medias_gql", "user_medias_v1",
          "iter_user_medias", "user_videos_v1", "user_clips_v1", "archive_medias_v1",
          "usertag_medias", "usertag_medias_gql", "usertag_medias_paginated",
          "hashtag_medias_paginated", "hashtag_medias_public", "iter_hashtag_medias",
          "hashtag_medias_v1", "location_medias_v1", "collections", "collection_medias_v1",
          "media_comments_threaded_gql", "media_comments_gql", "comment_likers_gql",
          "media_comments_v1", "media_comments", "media_comment_replies", "direct_threads",
          "direct_pending_inbox", "direct_spam_inbox", "direct_thread", "direct_media",
          "media_search", "insights_media_feed_all", "reels_timeline_media",
          "archive_story_days_v1", "archive_stories_v1", "story_viewers", "story_likers"}
  BY DEF Calls
<1>2. \A name \in {"user_following_gql", "user_following_v1", "user_following",
  "user_following_public", "user_followers_gql", "user_followers_v1",
  "user_followers_private_gql", "iter_user_following_v1", "iter_user_followers_v1",
  "user_follow_requests", "user_medias_gql"} : Regular(Calls[name])
  BY RegularMethods, SMTT(30) DEF Calls
<1>3. \A name \in {"user_medias_v1", "user_medias", "user_medias_public", "iter_user_medias",
  "user_clips_v1", "archive_medias_v1", "usertag_medias_gql", "usertag_medias",
  "usertag_medias_paginated", "hashtag_medias_paginated", "hashtag_medias_public"} :
  Regular(Calls[name])
  BY RegularMethods, SMTT(30) DEF Calls
<1>4. \A name \in {"hashtag_medias_v1", "location_medias_v1", "collection_medias_v1",
  "media_comments_threaded_gql", "media_comments_gql", "comment_likers_gql", "media_comments",
  "media_comment_replies", "direct_threads", "direct_pending_inbox", "direct_spam_inbox"} :
  Regular(Calls[name])
  BY RegularMethods, SMTT(30) DEF Calls
<1>5. \A name \in {"direct_thread", "direct_media", "media_search", "insights_media_feed_all",
  "archive_story_days_v1", "archive_stories_v1", "story_viewers", "story_likers"} :
  Regular(Calls[name])
  BY RegularMethods, SMTT(30) DEF Calls
<1>6. /\ Calls["user_videos_v1"] = UserVideosV1 /\ Calls["media_comments_v1"] = CommentsV1
      /\ Calls["iter_hashtag_medias"] = IterHashtagMedias /\ Calls["collections"] = Collections
      /\ Calls["reels_timeline_media"] = ReelsTimelineMedia
  BY DEF Calls
<1>7. \A name \in Unique : CollectsUnique(Calls[name])
  BY UniqueMethods, SMTT(30) DEF Unique, Calls
<1>8. \A name \in DOMAIN Calls : Regular(Calls[name])
         \/ name \in {"user_videos_v1", "media_comments_v1", "iter_hashtag_medias", "collections",
                      "reels_timeline_media"}
  BY <1>1, <1>2, <1>3, <1>4, <1>5
<1> QED
  BY <1>6, <1>7, <1>8, OtherMethods DEF Fine, Regular, Exempt, Dependable

-------------------------------------------------------------------------------
(* The inductive invariant.                                                  *)

Items == Seq(1..Listing)
Asking == pc = "asking"

Given ==
    /\ call \in Methods /\ (method = call \/ method \in Fallbacks)
    /\ amount \in Amounts \cup {0} /\ size \in PageSizes \cup {0} /\ known \in Known \cup {0}
    /\ call = "collections" => amount = 0
Placed ==
    /\ pc \in {"asking", "done", "raised"} /\ alt \in 1..Len(M.pages)
    /\ inner \in [items : Items, cursor : 0..Listing]
    /\ outer \in [items : Items, cursor : 0..Listing, from : Nat]
Counted ==
    /\ faults \in Seq(Errors \cup {"empty", "back"}) /\ Len(faults) <= MaxFaults
    /\ requests \in 0..MaxRequests
Typed == Given /\ Placed /\ Counted

\* While a method asks, it has not got what it was asked for.
Room ==
    /\ Asking /\ M.loop.stops = {} => outer.items = <<>>
    /\ Asking /\ P.stops = {} => inner.items = <<>>
    /\ ~Asking => inner.items = <<>>
    /\ Asking /\ M.gives \in {"rest", "page"} /\ amount > 0 => Len(outer.items) < amount
    /\ Asking /\ P.asks = "left" /\ Limit > 0 => Len(inner.items) < Limit

\* What is returned is cut at the amount.
Kept == pc = "done" /\ amount > 0 /\ call # "reels_timeline_media" => Len(outer.items) <= amount

\* The chunks of unique users repeat none, and nothing was there before the chunk.
Unequal == call \in Unique => method = call /\ Different(inner.items) /\ Different(outer.items)

\* Before the first fault the method called asks its first page.
Unharmed == faults = <<>> => alt = 1 /\ outer.from = 1 /\ method = call

\* What is collected is the beginning of the list, the cursor is behind it, and the known item is
\* not reached.
Chained ==
    /\ Follows(outer.items, 0)
    /\ Asking => /\ Follows(inner.items, Len(outer.items))
                 /\ inner.cursor = Len(outer.items) + Len(inner.items)
                 /\ outer.cursor = Len(outer.items)
    /\ Asking /\ M.loop.known /\ known > 0 => Len(outer.items) + Len(inner.items) < known

\* So it is as long as cursors lead to the next item.
InStep == "back" \notin Happened => Chained

\* All of it, or as much of it as was asked for.
WholeAtEnd == DoneMeansComplete

\* The first five of every method, the last two of the methods whose lists are whole.
PagingInv == /\ Typed /\ Room /\ Kept /\ Unequal /\ Unharmed
             /\ Methods \subseteq Dependable => InStep /\ WholeAtEnd

-------------------------------------------------------------------------------
(* The parts of the method that runs.                                        *)

LEMMA Ranges ==
  ASSUME Typed
  PROVE  /\ amount \in Nat /\ size \in Nat /\ known \in Nat /\ Listing \in Nat \ {0}
         /\ method \in DOMAIN Calls /\ Fallbacks \subseteq DOMAIN Calls
         /\ inner.items \in Items /\ inner.cursor \in 0..Listing
         /\ outer.items \in Items /\ outer.cursor \in 0..Listing /\ outer.from \in Nat
         /\ Len(inner.items) \in Nat /\ Len(outer.items) \in Nat
         /\ alt \in 1..Len(M.pages) /\ P = M.pages[alt]
<1>1. Fallbacks \subseteq DOMAIN Calls
  BY SMTT(30) DEF Fallbacks, Calls
<1>2. /\ inner.items \in Items /\ inner.cursor \in 0..Listing
      /\ outer.items \in Items /\ outer.cursor \in 0..Listing /\ outer.from \in Nat
  BY DEF Typed, Given, Placed
<1>3. amount \in Nat /\ size \in Nat /\ known \in Nat /\ Listing \in Nat \ {0}
  BY PagingAssumption DEF Typed, Given
<1>4. method \in DOMAIN Calls /\ alt \in 1..Len(M.pages)
  BY <1>1, MethodsAssumption DEF Typed, Given, Placed
<1> QED
  BY <1>1, <1>2, <1>3, <1>4 DEF P, Items

LEMMA Parts ==
  ASSUME Typed, NEW i \in 1..Len(M.pages)
  PROVE  LET p == M.pages[i]
         IN  /\ p \in Stage /\ M.loop \in Stage /\ Fits(p, M.gives, M.loop)
             /\ amount > 0 /\ call # "reels_timeline_media" => Cuts(p, M.gives, M.loop)
             /\ call # "reels_timeline_media" => M.zero = "all" /\ ~p.known
             /\ call # "reels_timeline_media" => \A j \in 1..Len(M.pages) : ~M.pages[j].known
             /\ Methods \subseteq Dependable =>
                   /\ Orderly(p, M.gives, M.loop)
                   /\ M.loop.stops = {} /\ Len(M.pages) > 1 => p.stops = {}
<1>1. M = Calls[method] /\ Fine(method)
  BY Ranges, TableIsSound DEF M
<1>2. Fits(M.pages[i], M.gives, M.loop)
  BY <1>1 DEF Fine, Sound
<1>3. M.pages[i] \in Stage /\ M.loop \in Stage
  BY <1>2 DEF Fits
<1>4. method \in Fallbacks => method \notin Exempt /\ method \in Dependable
  <2>1. Fallbacks \cap Exempt = {} /\ Fallbacks \cap (DOMAIN Calls \ Dependable) = {}
    BY DEF Fallbacks, Exempt, Dependable
  <2> QED
    BY <2>1, Ranges
<1>5. amount > 0 /\ call # "reels_timeline_media" => method \notin Exempt
  BY <1>4, Ranges DEF Typed, Given, Exempt
<1>6. call # "reels_timeline_media" => method # "reels_timeline_media"
  BY <1>4 DEF Typed, Given, Exempt
<1>7. Methods \subseteq Dependable => method \in Dependable
  BY <1>4 DEF Typed, Given
<1>8. call # "reels_timeline_media" =>
         M.zero = "all" /\ \A j \in 1..Len(M.pages) : ~M.pages[j].known
  BY <1>1, <1>6 DEF Fine, Whole
<1>9. amount > 0 /\ call # "reels_timeline_media" => Cuts(M.pages[i], M.gives, M.loop)
  BY <1>1, <1>5 DEF Fine, KeepsAmount
<1>10. Methods \subseteq Dependable =>
         /\ Orderly(M.pages[i], M.gives, M.loop)
         /\ M.loop.stops = {} /\ Len(M.pages) > 1 => M.pages[i].stops = {}
  BY <1>1, <1>7 DEF Fine, InOrder
<1> QED
  BY <1>2, <1>3, <1>8, <1>9, <1>10

LEMMA PageParts ==
  ASSUME Typed
  PROVE  /\ P \in Stage /\ M.loop \in Stage /\ Fits(P, M.gives, M.loop)
         /\ amount > 0 /\ call # "reels_timeline_media" => Cuts(P, M.gives, M.loop)
         /\ call # "reels_timeline_media" => M.zero = "all" /\ ~P.known
         /\ Methods \subseteq Dependable =>
               /\ Orderly(P, M.gives, M.loop)
               /\ M.loop.stops = {} /\ Len(M.pages) > 1 => P.stops = {}
<1>1. alt \in 1..Len(M.pages) /\ P = M.pages[alt]
  BY Ranges
<1> QED
  BY <1>1, Parts

LEMMA UniqueParts ==
  ASSUME Typed, call \in Unique, method = call
  PROVE  /\ alt = 1 /\ Len(M.pages) = 1 /\ P.keeps = "new" /\ P.keepsOn = {} /\ ~P.known
         /\ M.upon = {} /\ M.loop.keeps = "all" /\ ~M.loop.known /\ M.loop.stops = {}
<1>1. M = Calls[method] /\ CollectsUnique(M)
  BY Ranges, TableIsSound DEF M, Fine
<1>2. Len(M.pages) = 1 /\ alt = 1 /\ P = M.pages[1]
  BY <1>1, Ranges DEF CollectsUnique
<1> QED
  BY <1>1, <1>2 DEF CollectsUnique

LEMMA LimitFacts ==
  ASSUME Typed, Room, Asking
  PROVE  /\ Limit \in Nat /\ Asked \in Nat
         /\ M.gives = "whole" => Limit = amount
         /\ M.gives = "none" => Limit = 0
         /\ M.gives = "rest" /\ amount > 0 => Limit = amount - Len(outer.items)
         /\ amount > 0 /\ M.gives # "none" => Limit > 0
         /\ M.gives \in {"whole", "rest", "none"} /\ amount = 0 => Limit = 0
         /\ P.asks = "left" /\ Limit > 0 => Asked > 0 /\ Asked = Limit - Len(inner.items)
         /\ P.asks = "limit" => Asked = Limit
<1> DEFINE left == IF amount = 0 THEN 0 ELSE amount - Len(outer.items)
<1>1. /\ amount \in Nat /\ size \in Nat /\ Len(outer.items) \in Nat /\ Len(inner.items) \in Nat
      /\ M.gives \in {"whole", "rest", "page", "none"}
  BY Ranges, PageParts DEF Fits
<1>2. M.gives \in {"rest", "page"} => left \in Nat /\ (amount > 0 => left > 0)
  BY <1>1 DEF Room
<1>3. /\ Limit \in Nat
      /\ M.gives = "whole" => Limit = amount
      /\ M.gives = "none" => Limit = 0
      /\ M.gives = "rest" /\ amount > 0 => Limit = amount - Len(outer.items)
      /\ amount > 0 /\ M.gives # "none" => Limit > 0
      /\ M.gives \in {"whole", "rest", "none"} /\ amount = 0 => Limit = 0
  <2>1. CASE M.gives = "whole"
    <3>1. Limit = amount
      BY <2>1 DEF Limit
    <3> QED
      BY <1>1, <2>1, <3>1
  <2>2. CASE M.gives = "rest"
    <3>1. Limit = left
      BY <2>2 DEF Limit
    <3>2. (amount # 0 => left = amount - Len(outer.items)) /\ (amount = 0 => left = 0)
      BY Zenon
    <3>3. left \in Nat /\ (amount > 0 => left > 0)
      BY <1>2, <2>2
    <3> HIDE DEF left
    <3>4. Limit \in Nat /\ (amount > 0 => Limit > 0)
      BY <3>1, <3>3
    <3>5. (amount > 0 => Limit = amount - Len(outer.items)) /\ (amount = 0 => Limit = 0)
      BY <1>1, <3>1, <3>2
    <3> QED
      BY <2>2, <3>4, <3>5
  <2>3. CASE M.gives = "page"
    <3>1. Limit = IF 0 \in {left, size} THEN left + size ELSE Lesser(size, left)
      BY <2>3 DEF Limit
    <3> HIDE DEF left
    <3> QED
      BY <1>1, <1>2, <2>3, <3>1 DEF Lesser
  <2>4. CASE M.gives = "none"
    <3>1. Limit = 0
      BY <2>4 DEF Limit
    <3> QED
      BY <2>4, <3>1
  <2> QED
    BY <1>1, <2>1, <2>2, <2>3, <2>4
<1>4. P.asks = "left" /\ Limit > 0 => Len(inner.items) < Limit
  BY DEF Room
<1> QED
  BY <1>1, <1>3, <1>4 DEF Asked

-------------------------------------------------------------------------------
(* What a page adds to a list.                                               *)

LEMMA GatheredFacts ==
  ASSUME NEW stage \in Stage, NEW items \in Items, NEW page \in Items, NEW limit \in Nat,
         known \in Nat
  PROVE  LET got == Gathered(stage, items, page, limit)
         IN  /\ got \in Items
             /\ stage.keeps = "cut" /\ limit > 0 => Len(got) <= limit
             /\ stage.keeps = "new" /\ Different(items) => Different(got)
             /\ stage.keeps = "all" /\ ~stage.known => got = items \o page
<1> DEFINE got == Gathered(stage, items, page, limit)
<1>1. CASE stage.keeps = "new"
  <2>1. got = WithNew(items, page)
    BY <1>1 DEF Gathered
  <2> HIDE DEF got
  <2> QED
    BY <1>1, <2>1, WithNewFacts DEF Items, got
<1>2. CASE stage.keeps = "cut" /\ limit > 0
  <2>1. got = First(items \o page, limit)
    BY <1>2 DEF Gathered
  <2>2. items \o page \in Items
    BY Joined DEF Items
  <2>3. /\ First(items \o page, limit) \in Items
        /\ Len(First(items \o page, limit)) = Lesser(limit, Len(items \o page))
    BY <2>2, FirstFacts DEF Items
  <2>4. Len(items \o page) \in Nat
    BY <2>2 DEF Items
  <2>5. Lesser(limit, Len(items \o page)) <= limit
    BY <2>4 DEF Lesser
  <2> QED
    BY <1>2, <2>1, <2>3, <2>5
<1>3. CASE stage.keeps # "new" /\ ~(stage.keeps = "cut" /\ limit > 0)
  <2>1. got = items \o Before(stage, page)
    BY <1>3 DEF Gathered
  <2>2. Before(stage, page) \in Items /\ (~stage.known => Before(stage, page) = page)
    BY BeforeFacts DEF Items
  <2>3. items \o Before(stage, page) \in Items
    BY <2>2, Joined DEF Items
  <2> QED
    BY <1>3, <2>1, <2>2, <2>3
<1> QED
  BY <1>1, <1>2, <1>3

LEMMA GatheredFollows ==
  ASSUME NEW stage \in Stage, NEW items \in Items, NEW page \in Items, NEW limit \in Nat,
         known \in Nat, NEW a \in Nat, Follows(items, a), Follows(page, a + Len(items))
  PROVE  LET got == Gathered(stage, items, page, limit)
             all == Len(items) + Len(page)
         IN  /\ Follows(got, a) /\ Len(got) <= all
             /\ \/ Len(got) = all
                \/ stage.keeps = "cut" /\ limit > 0 /\ Len(got) = limit
                \/ stage.known /\ known \in ItemsOf(page) /\ a + Len(got) = known - 1
             /\ stage.keeps = "all" /\ stage.known /\ known \in ItemsOf(page)
                  => a + Len(got) = known - 1
<1> DEFINE got == Gathered(stage, items, page, limit)
           all == Len(items) + Len(page)
<1>1. /\ items \o page \in Items /\ Len(items \o page) = all /\ Follows(items \o page, a)
      /\ Len(items) \in Nat /\ Len(page) \in Nat
  BY Joined DEF Items
<1>2. CASE stage.keeps = "new"
  <2>1. got = WithNew(items, page)
    BY <1>2 DEF Gathered
  <2>2. Follows(WithNew(items, page), a) /\ Len(WithNew(items, page)) = all
    BY WithNewFollows DEF Items
  <2> QED
    BY <1>1, <1>2, <2>1, <2>2
<1>3. CASE stage.keeps = "cut" /\ limit > 0
  <2>1. got = First(items \o page, limit)
    BY <1>3 DEF Gathered
  <2>2. Follows(First(items \o page, limit), a)
        /\ Len(First(items \o page, limit)) = Lesser(limit, all)
    BY <1>1, FirstFacts DEF Items
  <2> QED
    BY <1>1, <1>3, <2>1, <2>2 DEF Lesser
<1>4. CASE stage.keeps # "new" /\ ~(stage.keeps = "cut" /\ limit > 0)
  <2> DEFINE part == Before(stage, page)
  <2>1. got = items \o part
    BY <1>4 DEF Gathered
  <2>2. /\ part \in Items /\ Len(part) <= Len(page) /\ Follows(part, a + Len(items))
        /\ part # page <=> stage.known /\ known \in ItemsOf(page)
        /\ part # page => a + Len(items) + Len(part) = known - 1
    <3> DEFINE b == a + Len(items)
    <3>1. b \in Nat /\ Follows(page, b)
      BY <1>1
    <3> HIDE DEF b
    <3>2. /\ part \in Items /\ Len(part) <= Len(page) /\ Follows(part, b)
          /\ part # page <=> stage.known /\ known \in ItemsOf(page)
          /\ part # page => b + Len(part) = known - 1
      BY <3>1, BeforeFacts DEF Items
    <3> QED
      BY <3>2 DEF b
  <2> HIDE DEF part
  <2>4. Len(items \o part) = Len(items) + Len(part) /\ Follows(items \o part, a)
    BY <2>2, Joined DEF Items
  <2>5. Len(part) \in Nat
    BY <2>2 DEF Items
  <2>6. Follows(got, a) /\ Len(got) = Len(items) + Len(part)
    BY <2>1, <2>4
  <2>7. Len(got) <= all
    BY <1>1, <2>2, <2>5, <2>6
  <2>8. \/ Len(got) = all /\ ~(stage.known /\ known \in ItemsOf(page))
        \/ stage.known /\ known \in ItemsOf(page) /\ a + Len(got) = known - 1
    BY <1>1, <2>2, <2>5, <2>6
  <2> QED
    BY <2>6, <2>7, <2>8
<1> QED
  BY <1>2, <1>3, <1>4

LEMMA TrimFacts ==
  ASSUME NEW stage \in Stage, NEW items \in Items, NEW limit \in Nat, NEW more \in BOOLEAN
  PROVE  LET cut == Trim(stage, items, limit, more)
         IN  /\ cut \in Items /\ Len(cut) <= Len(items)
             /\ Different(items) => Different(cut)
             /\ \A a \in Nat : Follows(items, a) => Follows(cut, a)
             /\ stage.trims = "always" /\ limit > 0 => Len(cut) <= limit
             /\ cut = items \/ (stage.trims # "no" /\ limit > 0 /\ Len(cut) = limit)
<1> DEFINE cut == Trim(stage, items, limit, more)
<1>1. Len(items) \in Nat
  BY DEF Items
<1>2. /\ First(items, limit) \in Items /\ Len(First(items, limit)) = Lesser(limit, Len(items))
      /\ Len(items) <= limit => First(items, limit) = items
      /\ \A a \in Nat : Follows(items, a) => Follows(First(items, limit), a)
      /\ Different(items) => Different(First(items, limit))
  BY FirstFacts DEF Items
<1>3. \/ cut = items /\ ~(limit > 0 /\ stage.trims = "always")
      \/ cut = First(items, limit) /\ limit > 0 /\ stage.trims # "no"
  BY DEF Trim
<1> HIDE DEF cut
<1>4. CASE cut = items /\ ~(limit > 0 /\ stage.trims = "always")
  BY <1>1, <1>4 DEF cut
<1>5. CASE cut = First(items, limit) /\ limit > 0 /\ stage.trims # "no"
  BY <1>1, <1>2, <1>5 DEF cut, Lesser
<1> QED
  BY <1>3, <1>4, <1>5

-------------------------------------------------------------------------------
(* A page that is returned to the loop.                                      *)

Arguments == <<call, amount, size, known>>
Got(page) == Gathered(M.loop, outer.items, page, amount)
Cut(items) == Trim(M.loop, items, amount, TRUE)
Over(page, next) == Ends(M.loop, page, TRUE, next, outer.cursor, Got(page), amount)

LEMMA CutFacts ==
  ASSUME Typed, NEW items \in Items
  PROVE  /\ Cut(items) \in Items /\ Len(Cut(items)) \in Nat /\ Len(items) \in Nat
         /\ Len(Cut(items)) <= Len(items)
         /\ Different(items) => Different(Cut(items))
         /\ \A a \in Nat : Follows(items, a) => Follows(Cut(items), a)
         /\ M.loop.trims = "always" /\ amount > 0 => Len(Cut(items)) <= amount
         /\ Cut(items) = items \/ (amount > 0 /\ Len(Cut(items)) = amount)
<1>1. PICK more \in BOOLEAN : more
  OBVIOUS
<1>2. Cut(items) = Trim(M.loop, items, amount, more)
  BY <1>1, Zenon DEF Cut
<1>3. M.loop \in Stage /\ amount \in Nat
  BY Ranges, PageParts
<1> DEFINE cut == Trim(M.loop, items, amount, more)
<1>4. /\ cut \in Items /\ Len(cut) <= Len(items)
      /\ Different(items) => Different(cut)
      /\ \A a \in Nat : Follows(items, a) => Follows(cut, a)
      /\ M.loop.trims = "always" /\ amount > 0 => Len(cut) <= amount
      /\ cut = items \/ (amount > 0 /\ Len(cut) = amount)
  BY <1>3, TrimFacts
<1> HIDE DEF cut
<1>5. Cut(items) = cut
  BY <1>2 DEF cut
<1>6. Len(cut) \in Nat /\ Len(items) \in Nat
  BY <1>4 DEF Items
<1> QED
  BY <1>4, <1>5, <1>6

LEMMA ReturnedIs ==
  ASSUME Typed, Asking, NEW page \in Items, NEW next \in 0..Listing, Returned(page, next)
  PROVE  /\ Got(page) \in Items /\ outer'.items \in Items
         /\ outer' = [items |-> outer'.items, cursor |-> next, from |-> alt]
         /\ outer'.cursor = next /\ outer'.from = alt
         /\ Over(page, next) => /\ outer'.items = Cut(Got(page))
                                /\ pc' = "done"
         /\ ~Over(page, next) => outer'.items = Got(page) /\ pc' = "asking"
         /\ inner' = [items |-> <<>>, cursor |-> next]
         /\ inner'.items = <<>> /\ inner'.cursor = next
         /\ method' = method /\ M' = M
         /\ alt' \in {1, alt} /\ alt' \in 1..Len(M.pages)
<1>1. Got(page) \in Items
  BY Ranges, PageParts, GatheredFacts DEF Got
<1>2. Cut(Got(page)) \in Items
  BY <1>1, CutFacts
<1>3. /\ outer' = [items |-> IF Over(page, next) THEN Cut(Got(page))
                             ELSE Got(page),
                   cursor |-> next, from |-> alt]
      /\ pc' = IF Over(page, next) THEN "done" ELSE "asking"
      /\ alt' = IF P.tied THEN alt ELSE 1
      /\ inner' = [items |-> <<>>, cursor |-> next]
      /\ method' = method
  BY DEF Returned, Got, Over, Cut
<1>4. M' = M
  BY <1>3 DEF M
<1>5. alt' \in {1, alt} /\ alt' \in 1..Len(M.pages)
  <2>1. alt \in 1..Len(M.pages)
    BY Ranges
  <2>2. M = Calls[method] /\ M.pages \in Seq(Stage)
    BY Ranges, TableIsSound DEF M, Fine, Sound
  <2>3. 1 \in 1..Len(M.pages)
    BY <2>1, <2>2
  <2> QED
    BY <1>3, <2>1, <2>3
<1> QED
  BY <1>1, <1>2, <1>3, <1>4, <1>5

LEMMA ReturnedTyped ==
  ASSUME Typed, Asking, NEW page \in Items, NEW next \in 0..Listing, Returned(page, next),
         UNCHANGED Arguments
  PROVE  Given' /\ Placed' /\ Room'
<1>2. Given'
  BY ReturnedIs DEF Typed, Given, Arguments
<1>3. Placed'
  <2>1. inner' \in [items : Items, cursor : 0..Listing]
    <3>1. <<>> \in Items
      BY DEF Items
    <3>2. inner' = [items |-> <<>>, cursor |-> next]
      BY ReturnedIs
    <3> QED
      BY <3>1, <3>2
  <2>2. outer' \in [items : Items, cursor : 0..Listing, from : Nat]
    <3>1. alt \in Nat
      BY Ranges
    <3> QED
      BY <3>1, ReturnedIs
  <2>3. pc' \in {"asking", "done", "raised"} /\ alt' \in 1..Len(M'.pages)
    BY ReturnedIs
  <2> QED
    BY <2>1, <2>2, <2>3 DEF Placed
<1>4. Room'
  <2>1. Asking' => ~Over(page, next) /\ outer'.items = Got(page)
    BY ReturnedIs DEF Asking
  <2>2. Asking' => M.loop.stops # {}
    BY <2>1 DEF Over, Ends
  <2>3. Asking' /\ "amount" \in M.loop.stops /\ amount > 0 => Len(outer'.items) < amount
    <3>1. Len(Got(page)) \in Nat /\ amount \in Nat
      BY ReturnedIs, Ranges DEF Items
    <3>2. "amount" \in M.loop.stops /\ amount > 0 /\ Len(Got(page)) >= amount => Over(page, next)
      BY DEF Over, Ends
    <3> QED
      BY <2>1, <3>1, <3>2
  <2>4. M.gives \in {"rest", "page"} => "amount" \in M.loop.stops
    BY PageParts DEF Fits
  <2>5. M' = M /\ inner'.items = <<>> /\ amount' = amount
    BY ReturnedIs DEF Arguments
  <2>6. Len(inner'.items) = 0
    BY <2>5
  <2> QED
    BY <2>2, <2>3, <2>4, <2>5, <2>6 DEF Room
<1> QED
  BY <1>2, <1>3, <1>4

\* The result is cut by the loop, unless its only page has cut it.
LEMMA ReturnedKept ==
  ASSUME Typed, Room, Asking, NEW page \in Items, NEW next \in 0..Listing, Returned(page, next),
         UNCHANGED Arguments,
         amount > 0 /\ M.gives = "whole" /\ P.keepsOn = {}
           /\ (P.keeps = "cut" \/ P.trims = "always") => Len(page) <= amount
  PROVE  Kept'
<1> SUFFICES ASSUME amount > 0, call # "reels_timeline_media", pc' = "done"
             PROVE  Len(outer'.items) <= amount
  BY DEF Kept, Arguments
<1>1. /\ Over(page, next) /\ outer'.items = Cut(Got(page))
      /\ Got(page) \in Items /\ amount \in Nat /\ M.loop \in Stage
  BY ReturnedIs, Ranges, PageParts
<1>2. /\ Len(outer'.items) <= Len(Got(page)) /\ Len(outer'.items) \in Nat
      /\ Len(Got(page)) \in Nat
      /\ M.loop.trims = "always" => Len(outer'.items) <= amount
  BY <1>1, CutFacts
<1>3. CASE M.loop.trims = "always"
  BY <1>2, <1>3
<1>4. CASE M.loop.keeps = "cut"
  <2>1. Len(Got(page)) <= amount
    BY <1>1, <1>4, Ranges, GatheredFacts DEF Got
  <2>2. Len(outer'.items) <= Len(Got(page)) /\ Len(outer'.items) \in Nat /\ Len(Got(page)) \in Nat
    BY <1>2
  <2> QED
    BY <1>1, <2>1, <2>2
<1>5. CASE /\ M.loop.stops = {} /\ M.loop.keeps = "all" /\ ~M.loop.known /\ M.gives = "whole"
           /\ P.keepsOn = {} /\ (P.keeps = "cut" \/ P.trims = "always")
  <2>1. Got(page) = outer.items \o page
    <3>1. /\ M.loop \in Stage /\ outer.items \in Items /\ amount \in Nat /\ known \in Nat
          /\ M.loop.keeps = "all" /\ ~M.loop.known
      BY <1>5, Ranges, PageParts
    <3> QED
      BY <3>1, GatheredFacts DEF Got
  <2>2. outer.items = <<>>
    BY <1>5 DEF Room
  <2>3. Len(Got(page)) = Len(page)
    BY <2>1, <2>2 DEF Items
  <2>4. Len(page) <= amount
    BY <1>5
  <2>5. Len(outer'.items) <= Len(Got(page)) /\ Len(outer'.items) \in Nat
    BY <1>2
  <2>6. Len(page) \in Nat
    BY DEF Items
  <2> QED
    BY <1>1, <2>3, <2>4, <2>5, <2>6
<1> QED
  BY <1>3, <1>4, <1>5, PageParts DEF Cuts

LEMMA ReturnedUnequal ==
  ASSUME Typed, Room, Asking, NEW page \in Items, NEW next \in 0..Listing, Returned(page, next),
         UNCHANGED Arguments, Unequal, Different(page)
  PROVE  Unequal'
<1> SUFFICES ASSUME call \in Unique
             PROVE  method' = call' /\ Different(inner'.items) /\ Different(outer'.items)
  BY DEF Unequal, Arguments
<1>1. method = call
  BY DEF Unequal
<1>2. M.loop.keeps = "all" /\ ~M.loop.known /\ M.loop.stops = {}
  BY <1>1, UniqueParts
<1>3. Got(page) = outer.items \o page
  <2>1. M.loop \in Stage /\ outer.items \in Items /\ amount \in Nat /\ known \in Nat
    BY Ranges, PageParts
  <2> QED
    BY <1>2, <2>1, GatheredFacts DEF Got
<1>4. outer.items = <<>>
  BY <1>2 DEF Room
<1>5. Got(page) = page
  BY <1>3, <1>4 DEF Items
<1>6. Different(Cut(page))
  BY CutFacts
<1>7. Different(outer'.items)
  <2>1. outer'.items \in {page, Cut(page)}
    BY <1>5, ReturnedIs
  <2> QED
    BY <1>6, <2>1
<1>8. Different(inner'.items)
  <2>1. inner'.items = <<>>
    BY ReturnedIs
  <2> QED
    BY <2>1 DEF Different
<1> QED
  BY <1>1, <1>7, <1>8, ReturnedIs DEF Arguments

-------------------------------------------------------------------------------
(* A page that is returned to the loop, in the order of the list.            *)

\* The number of items collected with this page.
Total(page) == Len(outer.items) + Len(page)
\* No more is needed after n items.
Enough(n) == n = Listing \/ (amount > 0 /\ n >= amount)

LEMMA GotFollows ==
  ASSUME Typed, Chained, NEW page \in Items, Follows(page, Len(outer.items))
  PROVE  /\ Got(page) \in Items /\ Follows(Got(page), 0) /\ Len(Got(page)) <= Total(page)
         /\ Len(Got(page)) \in Nat /\ Total(page) \in Nat
         /\ \/ Len(Got(page)) = Total(page)
            \/ M.loop.keeps = "cut" /\ amount > 0 /\ Len(Got(page)) = amount
            \/ M.loop.known /\ known \in ItemsOf(page) /\ Len(Got(page)) = known - 1
         /\ M.loop.keeps = "all" /\ M.loop.known /\ known \in ItemsOf(page)
               => Len(Got(page)) = known - 1
<1>1. /\ M.loop \in Stage /\ outer.items \in Items /\ amount \in Nat /\ known \in Nat
      /\ Len(outer.items) \in Nat /\ Len(page) \in Nat
  BY Ranges, PageParts DEF Items
<1>2. Got(page) \in Items
  BY <1>1, GatheredFacts DEF Got
<1>3. Len(Got(page)) \in Nat
  BY <1>2 DEF Items
<1>4. PICK a \in Nat : a = 0
  OBVIOUS
<1>5. Follows(outer.items, a) /\ Follows(page, a + Len(outer.items))
  <2>1. a + Len(outer.items) = Len(outer.items)
    BY <1>1, <1>4
  <2> QED
    BY <1>4, <2>1 DEF Chained
<1>6. /\ Follows(Got(page), a) /\ Len(Got(page)) <= Total(page)
      /\ \/ Len(Got(page)) = Total(page)
         \/ M.loop.keeps = "cut" /\ amount > 0 /\ Len(Got(page)) = amount
         \/ M.loop.known /\ known \in ItemsOf(page) /\ a + Len(Got(page)) = known - 1
      /\ M.loop.keeps = "all" /\ M.loop.known /\ known \in ItemsOf(page)
            => a + Len(Got(page)) = known - 1
  BY <1>1, <1>5, GatheredFollows, ZenonT(40) DEF Got, Total
<1>7. a + Len(Got(page)) = Len(Got(page)) /\ Total(page) \in Nat
  BY <1>1, <1>3, <1>4 DEF Total
<1>8. Follows(Got(page), 0)
  BY <1>4, <1>6
<1> QED
  BY <1>2, <1>3, <1>6, <1>7, <1>8

LEMMA KnownIsBehind ==
  ASSUME Typed, Chained, Asking, M.loop.known, known > 0, NEW page \in Items,
         Follows(page, Len(outer.items))
  PROVE  known \notin ItemsOf(page) => Total(page) < known
<1>1. /\ Len(outer.items) \in Nat /\ Len(page) \in Nat /\ known \in Nat
      /\ Len(inner.items) \in Nat
  BY Ranges DEF Items
<1>3. Len(outer.items) + Len(inner.items) < known
  BY DEF Chained
<1>4. Len(outer.items) < known
  <2>1. \A a, b, c \in Nat : a + b < c => a < c
    OBVIOUS
  <2> QED
    BY <1>1, <1>3, <2>1, Zenon
<1>2. known \in (Len(outer.items) + 1)..(Len(outer.items) + Len(page)) => known \in ItemsOf(page)
  BY <1>1, ItemsFollowing DEF Items
<1> QED
  BY <1>1, <1>2, <1>4 DEF Total

LEMMA ReturnedInStep ==
  ASSUME Typed, Room, Chained, Asking, NEW page \in Items, NEW next \in 0..Listing,
         Returned(page, next), UNCHANGED Arguments, Methods \subseteq Dependable,
         Follows(page, Len(outer.items)),
         next \in {0, Total(page)} \/ Over(page, next)
  PROVE  Chained'
<1>1. /\ Follows(Got(page), 0) /\ Got(page) \in Items
      /\ Len(Got(page)) \in Nat /\ Total(page) \in Nat
  BY GotFollows
<1>2. CASE Over(page, next)
  <2>1. outer'.items = Cut(Got(page)) /\ pc' = "done"
    BY <1>2, ReturnedIs
  <2>2. Follows(Cut(Got(page)), 0)
    BY <1>1, CutFacts
  <2> QED
    BY <2>1, <2>2 DEF Chained, Asking
<1>3. CASE ~Over(page, next)
  <2>1. /\ M.loop.stops # {} /\ ("cursor" \in M.loop.stops => next # 0)
        /\ "amount" \in M.loop.stops /\ amount > 0 => ~(Len(Got(page)) >= amount)
        /\ ~(M.loop.known /\ known \in ItemsOf(page))
    BY <1>3 DEF Over, Ends
  <2>2. "cursor" \in M.loop.stops /\ (M.loop.keeps = "cut" => "amount" \in M.loop.stops)
    BY <2>1, PageParts DEF Orderly
  <2>3. next = Total(page)
    BY <1>3, <2>1, <2>2
  <2>4. Len(Got(page)) = Total(page)
    <3>1. amount \in Nat
      BY Ranges
    <3> QED
      BY <1>1, <2>1, <2>2, <3>1, GotFollows
  <2>5. /\ outer'.items = Got(page) /\ outer'.cursor = next
        /\ inner'.items = <<>> /\ inner'.cursor = next /\ M' = M
    BY <1>3, ReturnedIs
  <2>6. Follows(inner'.items, Len(outer'.items)) /\ Len(inner'.items) = 0
    BY <2>5 DEF Follows
  <2>7. M.loop.known /\ known > 0 => Total(page) < known
    BY <2>1, KnownIsBehind
  <2> QED
    BY <1>1, <2>3, <2>4, <2>5, <2>6, <2>7 DEF Chained, Arguments
<1> QED
  BY <1>2, <1>3

-------------------------------------------------------------------------------
(* The list that is returned is the whole one.                               *)

\* The number of items there are to collect.
Reachable == IF M.loop.known /\ known \in 1..Listing THEN known - 1 ELSE Listing

LEMMA CompleteIs ==
  ASSUME Typed, call # "reels_timeline_media"
  PROVE  /\ Complete = IF amount = 0 THEN Reachable ELSE Lesser(amount, Reachable)
         /\ Reachable \in Nat
<1>1. /\ amount \in Nat /\ known \in Nat /\ Listing \in Nat /\ alt \in 1..Len(M.pages)
  BY Ranges
<1>2. M.zero = "all" /\ \A j \in 1..Len(M.pages) : ~M.pages[j].known
  BY <1>1, Parts
<1>3. (\E stage \in Stages : stage.known) <=> M.loop.known
  BY <1>2 DEF Stages, ItemsOf
<1>4. Available = Reachable
  BY <1>3 DEF Available, Reachable
<1>5. Reachable \in Nat
  BY <1>1 DEF Reachable
<1>6. CASE amount = 0
  <2>1. Complete = Available
    BY <1>2, <1>6 DEF Complete
  <2> QED
    BY <1>4, <1>5, <1>6, <2>1
<1>7. CASE amount > 0
  <2>1. Complete = Lesser(amount, Available)
    BY <1>7 DEF Complete
  <2> QED
    BY <1>4, <1>5, <1>7, <2>1
<1> QED
  BY <1>1, <1>6, <1>7

LEMMA ItemIsOne ==
  ASSUME NEW s \in Items, NEW i \in 1..Len(s)
  PROVE  s[i] \in 1..Listing
<1> DEFINE S == 1..Listing
<1>1. s \in Seq(S)
  BY DEF Items
<1> HIDE DEF S
<1>2. s[i] \in S
  BY <1>1
<1> QED
  BY <1>2 DEF S

LEMMA LengthOfFirst ==
  ASSUME NEW s \in Items, Follows(s, 0), Listing \in Nat
  PROVE  Len(s) \in 0..Listing
<1>1. Len(s) \in Nat /\ \A i \in 1..Len(s) : s[i] \in 1..Listing
  BY DEF Items
<1>2. Len(s) # 0 => s[Len(s)] = 0 + Len(s) /\ s[Len(s)] \in 1..Listing
  BY <1>1 DEF Follows
<1> QED
  BY <1>1, <1>2

\* A list of n items of which f are left, that holds all there are or as many as were asked for.
LEMMA Lengths ==
  ASSUME NEW f \in Nat, NEW n \in Nat, NEW r \in Nat, NEW a \in Nat,
         f = n \/ (a > 0 /\ f = a), f <= n, n <= r, a > 0 => f <= a,
         n = r \/ (a > 0 /\ n >= a)
  PROVE  f = IF a = 0 THEN r ELSE Lesser(a, r)
  BY DEF Lesser

LEMMA ReturnedWhole ==
  ASSUME Typed, Room, Chained, Asking, NEW page \in Items, NEW next \in 0..Listing,
         Returned(page, next), UNCHANGED Arguments, Methods \subseteq Dependable,
         call # "reels_timeline_media", Follows(page, Len(outer.items)), Kept', pc' = "done",
         M.loop.stops = {} \/ next = 0 \/ page = <<>> \/ next = outer.cursor
            => Enough(Total(page))
  PROVE  outer'.items = Interval(1, Complete')
<1> DEFINE got == Got(page)
           n == Len(got)
           f == Len(outer'.items)
           reached == M.loop.known /\ known \in ItemsOf(page)
<1>1. /\ amount \in Nat /\ known \in Nat /\ Listing \in Nat /\ Listing # 0
      /\ Reachable \in Nat
  BY Ranges, CompleteIs
<1>2. /\ Over(page, next) /\ outer'.items = Cut(got) /\ outer'.items \in Items /\ M' = M
  BY ReturnedIs
<1>3. /\ got \in Items /\ Follows(got, 0) /\ n \in Nat /\ n <= Total(page) /\ Total(page) \in Nat
      /\ n = Total(page) \/ (amount > 0 /\ n = amount) \/ reached
      /\ M.loop.keeps = "all" /\ reached => n = known - 1
  BY GotFollows
<1>4. /\ Follows(outer'.items, 0) /\ f \in Nat /\ f <= n
      /\ f = n \/ (amount > 0 /\ f = amount)
  <2>1. /\ Follows(Cut(got), 0) /\ Len(Cut(got)) \in Nat /\ Len(Cut(got)) <= n
        /\ Cut(got) = got \/ (amount > 0 /\ Len(Cut(got)) = amount)
    BY <1>3, CutFacts
  <2> QED
    BY <1>2, <2>1
<1>5. amount > 0 => f <= amount
  BY DEF Kept, Arguments
<1>6. n <= Listing
  BY <1>1, <1>3, LengthOfFirst
<1>7. n <= Reachable /\ (n = Reachable \/ (amount > 0 /\ n >= amount))
  <2>1. CASE reached
    <3>1. M.loop.keeps = "all"
      BY <2>1, PageParts DEF Orderly
    <3>2. known \in 1..Listing
      <4>1. PICK i \in 1..Len(page) : page[i] = known
        BY <2>1 DEF ItemsOf
      <4>2. page[i] \in 1..Listing
        BY <4>1, ItemIsOne
      <4> QED
        BY <4>1, <4>2
    <3>3. Reachable = known - 1
      BY <2>1, <3>2 DEF Reachable
    <3>4. n = known - 1
      BY <1>3, <2>1, <3>1
    <3> QED
      BY <1>1, <1>3, <3>3, <3>4
  <2>2. CASE ~reached
    <3>1. n = Total(page) \/ (amount > 0 /\ n = amount)
      BY <1>3, <2>2
    <3>2. M.loop.known /\ known > 0 => Total(page) < known
      BY <2>2, KnownIsBehind
    <3>3. M.loop.known /\ known \in 1..Listing => n <= known - 1 /\ known - 1 < Listing
      <4> SUFFICES ASSUME M.loop.known, known \in 1..Listing
                   PROVE  n <= known - 1 /\ known - 1 < Listing
        OBVIOUS
      <4>1. Total(page) < known
        BY <1>1, <3>2
      <4> HIDE DEF n
      <4> QED
        BY <1>1, <1>3, <4>1
    <3>4. Enough(Total(page)) \/ (amount > 0 /\ n >= amount)
      <4>1. \/ M.loop.stops = {} \/ next = 0 \/ page = <<>> \/ next = outer.cursor
            \/ amount > 0 /\ n >= amount
            \/ M.loop.stops \cap {"flag", "later", "over"} # {}
        BY <1>2, <2>2 DEF Over, Ends
      <4>2. M.loop.stops = {} \/ M.loop.stops \subseteq {"cursor", "empty", "same", "amount"}
        BY PageParts DEF Orderly
      <4> QED
        BY <4>1, <4>2
    <3>5. n = Listing \/ (amount > 0 /\ n >= amount)
      <4> HIDE DEF n
      <4> QED
        BY <1>1, <1>3, <1>6, <3>1, <3>4 DEF Enough
    <3>6. CASE M.loop.known /\ known \in 1..Listing
      <4>1. Reachable = known - 1
        BY <3>6 DEF Reachable
      <4> HIDE DEF n
      <4> QED
        BY <1>1, <1>3, <3>3, <3>5, <3>6, <4>1
    <3>7. CASE ~(M.loop.known /\ known \in 1..Listing)
      <4>1. Reachable = Listing
        BY <3>7 DEF Reachable
      <4> HIDE DEF n
      <4> QED
        BY <1>1, <1>3, <1>6, <3>5, <4>1
    <3> QED
      BY <3>6, <3>7
  <2> QED
    BY <2>1, <2>2
<1>8. Complete' = Complete
  <2>1. Stages' = Stages
    BY <1>2 DEF Stages
  <2>2. amount' = amount /\ known' = known
    BY DEF Arguments
  <2>3. Available' = Available
    BY <2>1, <2>2 DEF Available
  <2> QED
    BY <1>2, <2>2, <2>3 DEF Complete
<1> HIDE DEF n, f, got
<1>9. f = IF amount = 0 THEN Reachable ELSE Lesser(amount, Reachable)
  BY <1>1, <1>3, <1>4, <1>5, <1>7, Lengths, SMTT(20)
<1>10. f = Complete'
  BY <1>8, <1>9, CompleteIs
<1>11. outer'.items = Interval(0 + 1, 0 + f)
  BY <1>2, <1>4, FollowsIsInterval DEF Items, f
<1> QED
  BY <1>4, <1>10, <1>11

-------------------------------------------------------------------------------
(* An answer that reaches a page.                                            *)

Leads(page, more, mark) ==
    CASE P.cursor = "flagged" /\ ~more -> 0
      [] P.cursor = "item" -> IF page = <<>> THEN inner.cursor ELSE page[Len(page)]
      [] OTHER -> mark
PageGot(page) == Gathered(P, inner.items, page, Limit)
PageOver(page, more, next) == Ends(P, page, more, next, inner.cursor, PageGot(page), Limit)
Full(page, more) == Trim(P, PageGot(page), Limit, more)

LEMMA NextIs ==
  ASSUME Typed, NEW page \in Items, NEW more \in BOOLEAN, NEW mark \in 0..Listing
  PROVE  Leads(page, more, mark) \in 0..Listing
<1>1. inner.cursor \in 0..Listing /\ Listing \in Nat
  BY Ranges
<1>2. page # <<>> => page[Len(page)] \in 0..Listing
  <2>1. page # <<>> => Len(page) \in 1..Len(page)
    BY DEF Items
  <2> QED
    BY <1>1, <2>1, ItemIsOne
<1> QED
  BY <1>1, <1>2 DEF Leads

LEMMA HandledIs ==
  ASSUME Typed, Room, Asking, NEW page \in Items, NEW more \in BOOLEAN, NEW mark \in 0..Listing,
         Handled(page, more, mark), NEW next, next = Leads(page, more, mark)
  PROVE  /\ PageGot(page) \in Items /\ Full(page, more) \in Items
         /\ PageOver(page, more, next) => Returned(Full(page, more), next)
         /\ ~PageOver(page, more, next) =>
               /\ inner' = [items |-> PageGot(page), cursor |-> next]
               /\ inner'.items = PageGot(page) /\ inner'.cursor = next
               /\ UNCHANGED <<outer, pc, alt, method>> /\ M' = M /\ P' = P /\ P.stops # {}
<1>1. PageGot(page) \in Items
  BY Ranges, PageParts, LimitFacts, GatheredFacts DEF PageGot
<1>2. Full(page, more) \in Items
  BY <1>1, PageParts, LimitFacts, TrimFacts DEF Full
<1>3. IF PageOver(page, more, next)
      THEN Returned(Full(page, more), next)
      ELSE /\ inner' = [items |-> PageGot(page), cursor |-> next]
           /\ UNCHANGED <<outer, pc, alt, method>>
  BY Zenon DEF Handled, PageOver, PageGot, Full, Leads
<1>4. ~PageOver(page, more, next) => UNCHANGED <<outer, pc, alt, method>> /\ P.stops # {}
  BY <1>3 DEF PageOver, Ends
<1>5. ~PageOver(page, more, next) => M' = M /\ P' = P
  BY <1>4 DEF M, P
<1> QED
  BY <1>1, <1>2, <1>3, <1>4, <1>5

LEMMA LimitStays ==
  ASSUME UNCHANGED Arguments, UNCHANGED <<outer, pc, alt, method>>, M' = M
  PROVE  Limit' = Limit
<1>1. amount' = amount /\ size' = size /\ outer' = outer
  BY DEF Arguments
<1> QED
  BY <1>1 DEF Limit

LEMMA HandledTyped ==
  ASSUME Typed, Room, Asking, NEW page \in Items, NEW more \in BOOLEAN, NEW mark \in 0..Listing,
         Handled(page, more, mark), UNCHANGED Arguments
  PROVE  Given' /\ Placed' /\ Room'
<1> DEFINE next == Leads(page, more, mark)
<1>1. next \in 0..Listing
  BY NextIs
<1>2. CASE PageOver(page, more, next)
  <2>1. Returned(Full(page, more), next) /\ Full(page, more) \in Items
    BY <1>2, HandledIs
  <2> HIDE DEF next
  <2> QED
    BY <1>1, <2>1, ReturnedTyped
<1>3. CASE ~PageOver(page, more, next)
  <2>1. /\ PageGot(page) \in Items /\ inner' = [items |-> PageGot(page), cursor |-> next]
        /\ inner'.items = PageGot(page) /\ inner'.cursor = next
        /\ UNCHANGED <<outer, pc, alt, method>> /\ M' = M /\ P' = P /\ P.stops # {}
    BY <1>3, HandledIs
  <2>2. Given'
    BY <2>1 DEF Typed, Given, Arguments
  <2> HIDE DEF next
  <2>3. Placed'
    BY <1>1, <2>1 DEF Typed, Placed
  <2>4. P.asks = "left" /\ Limit > 0 => Len(inner'.items) < Limit
    <3>1. P.asks = "left" => "amount" \in P.stops
      BY PageParts DEF Fits
    <3>2. Len(PageGot(page)) \in Nat /\ Limit \in Nat
      BY <2>1, LimitFacts DEF Items
    <3>3. "amount" \in P.stops /\ Limit > 0 => ~(Len(PageGot(page)) >= Limit)
      BY <1>3 DEF PageOver, Ends
    <3> QED
      BY <2>1, <3>1, <3>2, <3>3
  <2>5. Limit' = Limit
    BY <2>1, LimitStays
  <2>6. Room'
    BY <2>1, <2>4, <2>5 DEF Room, Asking, Arguments
  <2> QED
    BY <2>2, <2>3, <2>6
<1> QED
  BY <1>2, <1>3

LEMMA HandledKept ==
  ASSUME Typed, Room, Asking, NEW page \in Items, NEW more \in BOOLEAN, NEW mark \in 0..Listing,
         Handled(page, more, mark), UNCHANGED Arguments
  PROVE  Kept'
<1> DEFINE next == Leads(page, more, mark)
<1>1. next \in 0..Listing
  BY NextIs
<1>2. CASE PageOver(page, more, next)
  <2>1. Returned(Full(page, more), next) /\ Full(page, more) \in Items
    BY <1>2, HandledIs
  <2>2. amount > 0 /\ M.gives = "whole" /\ (P.keeps = "cut" \/ P.trims = "always")
           => Len(Full(page, more)) <= amount
    <3> SUFFICES ASSUME amount > 0, M.gives = "whole", P.keeps = "cut" \/ P.trims = "always"
                 PROVE  Len(Full(page, more)) <= amount
      OBVIOUS
    <3>1. Limit = amount /\ amount \in Nat /\ P \in Stage /\ known \in Nat /\ inner.items \in Items
      BY Ranges, PageParts, LimitFacts
    <3>2. PageGot(page) \in Items /\ (P.keeps = "cut" => Len(PageGot(page)) <= amount)
      BY <3>1, GatheredFacts DEF PageGot
    <3>3. /\ Len(Full(page, more)) <= Len(PageGot(page))
          /\ P.trims = "always" => Len(Full(page, more)) <= amount
      BY <3>1, <3>2, TrimFacts DEF Full
    <3>4. Len(PageGot(page)) \in Nat /\ Len(Full(page, more)) \in Nat
      BY <2>1, <3>2 DEF Items
    <3> QED
      BY <3>1, <3>2, <3>3, <3>4
  <2> HIDE DEF next
  <2> QED
    BY <1>1, <2>1, <2>2, ReturnedKept
<1>3. CASE ~PageOver(page, more, next)
  <2>1. pc' = pc
    BY <1>3, HandledIs
  <2> QED
    BY <2>1 DEF Kept, Asking
<1> QED
  BY <1>2, <1>3

LEMMA HandledUnequal ==
  ASSUME Typed, Room, Asking, NEW page \in Items, NEW more \in BOOLEAN, NEW mark \in 0..Listing,
         Handled(page, more, mark), UNCHANGED Arguments, Unequal
  PROVE  Unequal'
<1> SUFFICES ASSUME call \in Unique
             PROVE  Unequal'
  BY DEF Unequal, Arguments
<1> DEFINE next == Leads(page, more, mark)
<1>1. next \in 0..Listing
  BY NextIs
<1>2. method = call /\ Different(inner.items) /\ Different(outer.items)
  BY DEF Unequal
<1>3. PageGot(page) \in Items /\ Different(PageGot(page))
  <2>1. P.keeps = "new" /\ P \in Stage /\ inner.items \in Items /\ known \in Nat /\ Limit \in Nat
    BY <1>2, UniqueParts, PageParts, Ranges, LimitFacts
  <2> QED
    BY <1>2, <2>1, GatheredFacts DEF PageGot
<1>4. CASE PageOver(page, more, next)
  <2>1. Returned(Full(page, more), next) /\ Full(page, more) \in Items
    BY <1>4, HandledIs
  <2>2. Different(Full(page, more))
    BY <1>3, PageParts, LimitFacts, TrimFacts DEF Full
  <2> HIDE DEF next
  <2> QED
    BY <1>1, <2>1, <2>2, ReturnedUnequal
<1>5. CASE ~PageOver(page, more, next)
  <2>1. inner'.items = PageGot(page) /\ outer' = outer /\ method' = method
    BY <1>5, HandledIs
  <2> QED
    BY <1>2, <1>3, <2>1 DEF Unequal, Arguments
<1> QED
  BY <1>4, <1>5

LEMMA HandledUnharmed ==
  ASSUME Typed, Room, Asking, NEW page \in Items, NEW more \in BOOLEAN, NEW mark \in 0..Listing,
         Handled(page, more, mark), alt = 1, outer.from = 1, method = call, UNCHANGED Arguments
  PROVE  alt' = 1 /\ outer'.from = 1 /\ method' = call'
<1> DEFINE next == Leads(page, more, mark)
<1>1. next \in 0..Listing
  BY NextIs
<1>2. CASE PageOver(page, more, next)
  <2>1. Returned(Full(page, more), next) /\ Full(page, more) \in Items
    BY <1>2, HandledIs
  <2> HIDE DEF next
  <2> QED
    BY <1>1, <2>1, ReturnedIs DEF Arguments
<1>3. CASE ~PageOver(page, more, next)
  BY <1>3, HandledIs DEF Arguments
<1> QED
  BY <1>2, <1>3

-------------------------------------------------------------------------------
(* An answer in the order of the list.                                       *)

\* The number of items up to the end of the page.
Behind(page) == inner.cursor + Len(page)
\* The next items, as many as were asked for, with the cursor behind them.
Ordered(page, more, mark) ==
    /\ Follows(page, inner.cursor)
    /\ Behind(page) <= Listing /\ (~more => Behind(page) = Listing)
    /\ mark = Behind(page) \/ (mark = 0 /\ Behind(page) = Listing /\ ~more)
    /\ Asked > 0 => Len(page) <= Asked

LEMMA Places ==
  ASSUME Typed, Chained, Asking, NEW page \in Items
  PROVE  /\ inner.cursor = Len(outer.items) + Len(inner.items) /\ outer.cursor = Len(outer.items)
         /\ Len(outer.items) \in Nat /\ Len(inner.items) \in Nat /\ Len(page) \in Nat
         /\ inner.cursor \in Nat /\ Listing \in Nat \ {0} /\ Behind(page) \in Nat
         /\ Behind(page) = Len(outer.items) + (Len(inner.items) + Len(page))
<1>1. /\ inner.cursor = Len(outer.items) + Len(inner.items) /\ outer.cursor = Len(outer.items)
  BY DEF Chained
<1>2. /\ Len(outer.items) \in Nat /\ Len(inner.items) \in Nat /\ Len(page) \in Nat
      /\ inner.cursor \in Nat /\ Listing \in Nat \ {0}
  BY Ranges DEF Items
<1> DEFINE a == Len(outer.items)
           b == Len(inner.items)
           c == Len(page)
<1>3. /\ inner.cursor = a + b /\ a \in Nat /\ b \in Nat /\ c \in Nat
      /\ Behind(page) = inner.cursor + c
  BY <1>1, <1>2 DEF Behind
<1> HIDE DEF a, b, c
<1>4. Behind(page) \in Nat /\ Behind(page) = a + (b + c)
  BY <1>3
<1> QED
  BY <1>1, <1>2, <1>4 DEF a, b, c

LEMMA NextOrdered ==
  ASSUME Typed, Chained, Asking, NEW page \in Items, NEW more \in BOOLEAN,
         NEW mark \in 0..Listing, Ordered(page, more, mark)
  PROVE  LET next == Leads(page, more, mark)
         IN  next = Behind(page) \/ (next = 0 /\ Behind(page) = Listing /\ ~more)
<1>1. Len(page) \in Nat /\ inner.cursor \in Nat
  BY Places
<1>2. P.cursor = "item" => Leads(page, more, mark) = Behind(page)
  <2>1. page = <<>> => Behind(page) = inner.cursor
    BY <1>1 DEF Behind
  <2>2. page # <<>> => page[Len(page)] = Behind(page)
    <3>1. page # <<>> => Len(page) \in 1..Len(page)
      BY DEF Items
    <3> QED
      BY <3>1 DEF Ordered, Follows, Behind
  <2> QED
    BY <2>1, <2>2 DEF Leads
<1>3. P.cursor = "flagged" => /\ Leads(page, more, mark) \in {0, mark}
                              /\ more => Leads(page, more, mark) = mark
  BY DEF Leads
<1>4. P.cursor \notin {"flagged", "item"} => Leads(page, more, mark) = mark
  BY DEF Leads
<1>5. \/ mark = Behind(page)
      \/ mark = 0 /\ Behind(page) = Listing /\ ~more
  BY DEF Ordered
<1>6. ~more => Behind(page) = Listing
  BY DEF Ordered
<1> QED
  BY <1>2, <1>3, <1>4, <1>5, <1>6

\* What a page has after an answer, and what it returns.
LEMMA PageFollows ==
  ASSUME Typed, Room, Chained, Asking, NEW page \in Items, NEW more \in BOOLEAN,
         NEW mark \in 0..Listing, Ordered(page, more, mark), Methods \subseteq Dependable
  PROVE  LET got == PageGot(page)
             all == Len(inner.items) + Len(page)
         IN  /\ got \in Items /\ Follows(got, Len(outer.items)) /\ Len(got) <= all
             /\ \/ Len(got) = all
                \/ P.keeps = "cut" /\ Limit > 0 /\ Len(got) = Limit
                \/ P.known /\ known \in ItemsOf(page)
             /\ Full(page, more) \in Items /\ Follows(Full(page, more), Len(outer.items))
             /\ Len(Full(page, more)) <= Len(got)
             /\ \/ Len(Full(page, more)) = Len(got)
                \/ P.trims # "no" /\ Limit > 0 /\ Len(Full(page, more)) = Limit
             /\ Len(got) \in Nat /\ Len(Full(page, more)) \in Nat
<1>1. /\ P \in Stage /\ inner.items \in Items /\ known \in Nat /\ Limit \in Nat
      /\ Len(outer.items) \in Nat
  BY Ranges, PageParts, LimitFacts
<1> DEFINE a == Len(outer.items)
<1>2. Follows(inner.items, a) /\ Follows(page, a + Len(inner.items))
  BY DEF Chained, Ordered
<1>3. a \in Nat
  BY <1>1
<1> HIDE DEF a
<1>4. /\ Follows(PageGot(page), a) /\ Len(PageGot(page)) <= Len(inner.items) + Len(page)
      /\ \/ Len(PageGot(page)) = Len(inner.items) + Len(page)
         \/ P.keeps = "cut" /\ Limit > 0 /\ Len(PageGot(page)) = Limit
         \/ P.known /\ known \in ItemsOf(page)
  BY <1>1, <1>2, <1>3, GatheredFollows DEF PageGot
<1>5. PageGot(page) \in Items
  BY <1>1, GatheredFacts DEF PageGot
<1>6. /\ Full(page, more) \in Items /\ Follows(Full(page, more), a)
      /\ Len(Full(page, more)) <= Len(PageGot(page))
      /\ \/ Full(page, more) = PageGot(page)
         \/ P.trims # "no" /\ Limit > 0 /\ Len(Full(page, more)) = Limit
  BY <1>1, <1>3, <1>4, <1>5, TrimFacts DEF Full
<1>7. Len(PageGot(page)) \in Nat /\ Len(Full(page, more)) \in Nat
  BY <1>5, <1>6 DEF Items
<1> QED
  BY <1>4, <1>5, <1>6, <1>7 DEF a

\* Nothing is missing before the end of the page, unless there is enough.
LEMMA FullFacts ==
  ASSUME Typed, Room, Chained, Asking, NEW page \in Items, NEW more \in BOOLEAN,
         NEW mark \in 0..Listing, Ordered(page, more, mark), Methods \subseteq Dependable
  PROVE  \/ Total(Full(page, more)) = Behind(page)
         \/ /\ amount > 0 /\ Total(Full(page, more)) >= amount
            /\ M.loop.stops = {} \/ "amount" \in M.loop.stops
         \/ P.known /\ M.loop.stops = {}
<1> DEFINE f == Len(Full(page, more))
           g == Len(PageGot(page))
           b == Len(inner.items)
           n == Len(page)
           o == Len(outer.items)
<1>1. /\ f \in Nat /\ g \in Nat /\ b \in Nat /\ n \in Nat /\ o \in Nat /\ Limit \in Nat
      /\ amount \in Nat /\ Behind(page) = o + (b + n) /\ Total(Full(page, more)) = o + f
  BY PageFollows, Places, LimitFacts, Ranges DEF Total
<1>2. /\ f <= g /\ g <= b + n
      /\ g = b + n \/ (P.keeps = "cut" /\ Limit > 0 /\ g = Limit) \/ P.known
      /\ f = g \/ (P.trims # "no" /\ Limit > 0 /\ f = Limit)
  BY PageFollows
<1>3. Orderly(P, M.gives, M.loop)
  BY PageParts
<1> HIDE DEF f, g, b, n, o
<1>4. CASE P.known
  BY <1>3, <1>4 DEF Orderly
<1>5. CASE ~P.known /\ f = b + n
  BY <1>1, <1>5
<1>6. CASE ~P.known /\ f # b + n
  <2>1. Limit > 0 /\ f = Limit /\ (P.keeps = "cut" \/ P.trims # "no")
    BY <1>1, <1>2, <1>6
  <2>2. CASE M.gives \in {"whole", "rest"} /\ (M.loop.stops = {} \/ "amount" \in M.loop.stops)
    <3>1. amount > 0
      BY <1>1, <2>1, <2>2, LimitFacts
    <3>2. Limit = amount \/ Limit = amount - o
      BY <2>2, <3>1, LimitFacts DEF o
    <3>3. o + f >= amount
      BY <1>1, <2>1, <3>2
    <3> QED
      BY <1>1, <2>2, <3>1, <3>3
  <2>3. CASE P.keeps # "cut" /\ P.asks = "limit" /\ P.stops = {}
    <3>1. Asked = Limit
      BY <2>3, LimitFacts
    <3>2. n <= Limit
      BY <2>1, <3>1 DEF Ordered, n
    <3>3. b = 0
      BY <2>3 DEF Room, b
    <3>4. g = b + n
      BY <1>2, <1>6, <2>3
    <3> QED
      BY <1>1, <1>2, <1>6, <2>1, <3>2, <3>3, <3>4
  <2> QED
    BY <1>3, <2>1, <2>2, <2>3 DEF Orderly
<1> QED
  BY <1>4, <1>5, <1>6

-------------------------------------------------------------------------------
(* Such an answer keeps the order, and a method it ends has the whole list.  *)

LEMMA HandledInStep ==
  ASSUME Typed, Room, Chained, Asking, NEW page \in Items, NEW more \in BOOLEAN,
         NEW mark \in 0..Listing, Ordered(page, more, mark), Methods \subseteq Dependable,
         Handled(page, more, mark), UNCHANGED Arguments
  PROVE  Chained'
<1> DEFINE next == Leads(page, more, mark)
<1>1. next \in 0..Listing
  BY NextIs
<1>2. next = Behind(page) \/ (next = 0 /\ Behind(page) = Listing /\ ~more)
  BY NextOrdered
<1>3. CASE PageOver(page, more, next)
  <2>1. Returned(Full(page, more), next) /\ Full(page, more) \in Items
    BY <1>3, HandledIs
  <2>2. Follows(Full(page, more), Len(outer.items))
    BY PageFollows
  <2>3. next \in {0, Total(Full(page, more))} \/ Over(Full(page, more), next)
    <3>1. M.loop.stops = {} => Over(Full(page, more), next)
      BY DEF Over, Ends
    <3>2. CASE Total(Full(page, more)) = Behind(page)
      BY <1>2, <3>2
    <3>3. CASE amount > 0 /\ Total(Full(page, more)) >= amount /\ "amount" \in M.loop.stops
      <4> DEFINE n == Len(Got(Full(page, more)))
      <4>1. /\ n = Total(Full(page, more)) \/ n = amount
               \/ (M.loop.known /\ known \in ItemsOf(Full(page, more)))
            /\ n \in Nat /\ amount \in Nat
        BY <2>1, <2>2, GotFollows, Ranges
      <4>2. "amount" \in M.loop.stops /\ amount > 0 /\ n >= amount => Over(Full(page, more), next)
        BY DEF Over, Ends
      <4>3. M.loop.known /\ known \in ItemsOf(Full(page, more)) => Over(Full(page, more), next)
        BY DEF Over, Ends
      <4> HIDE DEF n, next
      <4>4. n >= amount \/ (M.loop.known /\ known \in ItemsOf(Full(page, more)))
        BY <3>3, <4>1
      <4> QED
        BY <3>3, <4>2, <4>3, <4>4
    <3> QED
      BY <3>1, <3>2, <3>3, FullFacts
  <2> HIDE DEF next
  <2> QED
    BY <1>1, <2>1, <2>2, <2>3, ReturnedInStep
<1>4. CASE ~PageOver(page, more, next)
  <2>1. /\ PageGot(page) \in Items /\ inner'.items = PageGot(page) /\ inner'.cursor = next
        /\ UNCHANGED <<outer, pc, alt, method>> /\ M' = M /\ P.stops # {}
    BY <1>4, HandledIs
  <2>2. /\ "cursor" \in P.stops => next # 0
        /\ "flag" \in P.stops => more
        /\ "amount" \in P.stops /\ Limit > 0 => ~(Len(PageGot(page)) >= Limit)
        /\ ~(P.known /\ known \in ItemsOf(page))
    BY <1>4 DEF PageOver, Ends
  <2>3. /\ "cursor" \in P.stops \/ "flag" \in P.stops
        /\ P.keeps = "cut" => "amount" \in P.stops
        /\ ~M.loop.known
    BY <2>1, PageParts DEF Orderly
  <2>4. next = Behind(page)
    BY <1>2, <2>2, <2>3
  <2>5. Len(PageGot(page)) = Len(inner.items) + Len(page)
    <3>1. Len(PageGot(page)) \in Nat /\ Limit \in Nat
      BY PageFollows, LimitFacts
    <3>2. \/ Len(PageGot(page)) = Len(inner.items) + Len(page)
          \/ P.keeps = "cut" /\ Limit > 0 /\ Len(PageGot(page)) = Limit
          \/ P.known /\ known \in ItemsOf(page)
      BY PageFollows
    <3> QED
      BY <2>2, <2>3, <3>1, <3>2
  <2>6. Follows(PageGot(page), Len(outer.items))
    BY PageFollows
  <2>7. inner'.cursor = Len(outer'.items) + Len(inner'.items)
    BY <2>1, <2>4, <2>5, Places, Zenon
  <2> HIDE DEF next
  <2> QED
    BY <2>1, <2>3, <2>6, <2>7 DEF Chained, Asking
<1> QED
  BY <1>3, <1>4

\* The one page of a method without a loop.
LEMMA OnlyPage ==
  ASSUME Typed, Methods \subseteq Dependable, M' = M, alt' \in {1, alt}, M.loop.stops = {},
         ~OnePage'
  PROVE  P.stops # {}
<1>1. alt \in 1..Len(M.pages) /\ P = M.pages[alt]
  BY Ranges
<1>2. 1 \in 1..Len(M.pages) /\ alt' \in 1..Len(M.pages)
  BY <1>1
<1>3. P' = M.pages[alt']
  BY DEF P
<1>4. P'.stops # {}
  BY DEF OnePage
<1>5. Len(M.pages) > 1 => M.pages[alt'].stops = {}
  BY <1>2, Parts
<1>6. alt' = alt
  BY <1>1, <1>2, <1>3, <1>4, <1>5
<1> QED
  BY <1>1, <1>3, <1>4, <1>6

LEMMA HandledWhole ==
  ASSUME Typed, Room, Chained, Asking, NEW page \in Items, NEW more \in BOOLEAN,
         NEW mark \in 0..Listing, Ordered(page, more, mark), Methods \subseteq Dependable,
         Handled(page, more, mark), UNCHANGED Arguments, page = <<>> => Behind(page) = Listing,
         pc' = "done", ~OnePage', call # "reels_timeline_media"
  PROVE  outer'.items = Interval(1, Complete')
<1> DEFINE next == Leads(page, more, mark)
           full == Full(page, more)
<1>1. next \in 0..Listing
  BY NextIs
<1>2. next = Behind(page) \/ (next = 0 /\ Behind(page) = Listing /\ ~more)
  BY NextOrdered
<1>3. PageOver(page, more, next)
  BY HandledIs DEF Asking
<1>4. Returned(full, next) /\ full \in Items
  BY <1>3, HandledIs
<1>5. Follows(full, Len(outer.items))
  BY PageFollows
<1>6. Kept'
  BY HandledKept
<1>7. M' = M /\ alt' \in {1, alt}
  BY <1>1, <1>4, ReturnedIs
<1>8. ~P.known
  BY PageParts
<1>9. Total(full) = Behind(page) \/ (amount > 0 /\ Total(full) >= amount)
  BY <1>8, FullFacts
<1>10. Behind(page) = Listing => Enough(Total(full))
  BY <1>9 DEF Enough
<1>11. Behind(page) = Len(outer.items) => Enough(Total(full))
  <2> DEFINE a == Len(outer.items)
             b == Len(inner.items)
             n == Len(page)
  <2>1. Behind(page) = a + (b + n) /\ a \in Nat /\ b \in Nat /\ n \in Nat
    BY Places
  <2> HIDE DEF a, b, n
  <2>2. Behind(page) = a => n = 0
    BY <2>1
  <2>3. n = 0 => page = <<>>
    BY DEF Items, n
  <2> QED
    BY <1>10, <2>2, <2>3 DEF a
<1>12. next = 0 => Enough(Total(full))
  <2> DEFINE a == Len(outer.items)
             b == Len(inner.items)
             n == Len(page)
  <2>1. Behind(page) = a + (b + n) /\ a \in Nat /\ b \in Nat /\ n \in Nat
    BY Places
  <2> HIDE DEF a, b, n
  <2>2. Behind(page) = 0 => Behind(page) = a
    BY <2>1
  <2> QED
    BY <1>2, <1>10, <1>11, <2>2 DEF a
<1>13. next = outer.cursor => Enough(Total(full))
  <2>1. outer.cursor = Len(outer.items)
    BY Places
  <2> QED
    BY <1>2, <1>10, <1>11, <2>1
<1>14. full = <<>> => Enough(Total(full))
  <2>1. full = <<>> => Total(full) = Len(outer.items)
    <3>1. full = <<>> => Len(full) = 0
      OBVIOUS
    <3> QED
      BY <3>1, Places DEF Total
  <2> QED
    BY <1>9, <1>11, <2>1 DEF Enough
<1>15. M.loop.stops = {} => Enough(Total(full))
  <2> SUFFICES ASSUME M.loop.stops = {}
               PROVE  Behind(page) # Listing => Enough(Total(full))
    BY <1>10
  <2>1. P.stops # {}
    BY <1>7, OnlyPage
  <2>2. P.stops \subseteq {"flag", "cursor", "empty", "amount", "later"}
        /\ M.gives \in {"whole", "none"}
    BY <2>1, PageParts DEF Orderly
  <2>3. \/ ~more \/ next = 0 \/ page = <<>>
        \/ Limit > 0 /\ Len(PageGot(page)) >= Limit
    BY <1>3, <1>8, <2>1, <2>2 DEF PageOver, Ends
  <2>4. ~more \/ page = <<>> => Behind(page) = Listing
    BY DEF Ordered
  <2>5. CASE Limit > 0 /\ Len(PageGot(page)) >= Limit
    <3>1. Limit = amount
      BY <2>2, <2>5, LimitFacts
    <3>2. Total(full) = Len(full)
      <4>1. Len(outer.items) = 0 /\ Len(full) \in Nat
        BY PageFollows DEF Room
      <4> QED
        BY <4>1 DEF Total
    <3>3. Len(full) \in Nat /\ Len(PageGot(page)) \in Nat /\ Limit \in Nat
          /\ (Len(full) = Len(PageGot(page)) \/ Len(full) = Limit)
      BY PageFollows, LimitFacts
    <3> HIDE DEF full
    <3> QED
      BY <2>5, <3>1, <3>2, <3>3 DEF Enough
  <2> QED
    BY <1>12, <2>3, <2>4, <2>5
<1> HIDE DEF next, full
<1> QED
  BY <1>1, <1>4, <1>5, <1>6, <1>12, <1>13, <1>14, <1>15, ReturnedWhole

-------------------------------------------------------------------------------
(* An error that is raised in a page.                                        *)

\* The next alternative is asked, the method falls back, or the error is raised.
NextPage ==
    /\ alt < Len(M.pages) /\ alt' = alt + 1 /\ inner' = [items |-> <<>>, cursor |-> outer.cursor]
    /\ UNCHANGED <<outer, pc, method>>
FallsBack ==
    /\ M.upon # {} /\ method' = M.then /\ alt' = 1 /\ inner' = Start
    /\ outer' = [items |-> <<>>, cursor |-> 0, from |-> 1]
    /\ UNCHANGED pc
GivesUp == pc' = "raised" /\ inner' = Start /\ UNCHANGED <<outer, alt, method>>

LEMMA RaisedIs ==
  ASSUME NEW kind, Raised(kind)
  PROVE  (P.keepsOn # {} /\ Returned(inner.items, 0)) \/ NextPage \/ FallsBack \/ GivesUp
BY DEF Raised, NextPage, FallsBack, GivesUp

LEMMA EmptyRoom ==
  ASSUME Given', Placed', inner'.items = <<>>,
         pc' = "asking" /\ M.loop.stops' = {} => outer'.items = <<>>,
         pc' = "asking" /\ M.gives' \in {"rest", "page"} /\ amount' > 0
             => Len(outer'.items) < amount'
  PROVE  Room'
<1>1. Len(inner'.items) = 0
  OBVIOUS
<1>2. P.asks' = "left" /\ Limit' > 0 => Len(inner'.items) < Limit'
  BY <1>1
<1> QED
  BY <1>2 DEF Room, Asking

LEMMA NextPageIs ==
  ASSUME Typed, Room, Asking, NextPage, UNCHANGED Arguments
  PROVE  /\ Given' /\ Placed' /\ Room' /\ Kept' /\ pc' = "asking"
         /\ Unequal => Unequal'
         /\ Chained => Chained'
<1>1. /\ inner'.items = <<>> /\ inner'.cursor = outer.cursor /\ outer' = outer /\ pc' = pc
      /\ method' = method /\ M' = M /\ alt < Len(M.pages) /\ alt' = alt + 1
      /\ call' = call /\ amount' = amount /\ known' = known
      /\ inner' = [items |-> <<>>, cursor |-> outer.cursor] /\ pc' = "asking"
  BY DEF NextPage, M, Arguments, Asking
<1>2. Given'
  BY <1>1 DEF Typed, Given, Arguments
<1>3. Placed'
  <2>1. alt' \in 1..Len(M'.pages)
    <3>1. alt \in 1..Len(M.pages)
      BY Ranges
    <3> QED
      BY <1>1, <3>1
  <2>2. inner' \in [items : Items, cursor : 0..Listing]
    <3>1. <<>> \in Items /\ outer.cursor \in 0..Listing
      BY Ranges DEF Items
    <3> QED
      BY <1>1, <3>1
  <2> QED
    BY <1>1, <2>1, <2>2 DEF Typed, Placed
<1>4. Room'
  BY <1>1, <1>2, <1>3, EmptyRoom DEF Room
<1>5. Unequal => Unequal'
  <2> SUFFICES ASSUME Unequal, call \in Unique
               PROVE  FALSE
    BY <1>1 DEF Unequal
  <2>1. Len(M.pages) = 1 /\ alt = 1
    BY UniqueParts DEF Unequal
  <2> QED
    BY <1>1, <2>1
<1>6. Chained => Chained'
  <2> SUFFICES ASSUME Chained
               PROVE  Chained'
    OBVIOUS
  <2> DEFINE a == Len(outer.items)
             b == Len(inner.items)
  <2>1. a \in Nat /\ b \in Nat /\ known \in Nat
    BY Ranges
  <2>2. Follows(outer.items, 0) /\ outer.cursor = a
        /\ (M.loop.known /\ known > 0 => a + b < known)
    BY DEF Chained
  <2>3. Len(inner'.items) = 0 /\ Follows(inner'.items, a)
    BY <1>1 DEF Follows
  <2> HIDE DEF b
  <2>4. M.loop.known /\ known > 0 => a + 0 < known
    <3> HIDE DEF a
    <3> QED
      BY <2>1, <2>2
  <2>5. a + 0 = a
    BY <2>1
  <2> QED
    BY <1>1, <2>2, <2>3, <2>4, <2>5 DEF Chained
<1> QED
  BY <1>1, <1>2, <1>3, <1>4, <1>5, <1>6 DEF Kept

LEMMA FallsBackIs ==
  ASSUME Typed, Asking, FallsBack, UNCHANGED Arguments
  PROVE  /\ Given' /\ Placed' /\ Room' /\ Kept' /\ pc' = "asking" /\ Chained'
         /\ Unequal => Unequal'
<1>1. /\ inner' = Start /\ inner'.items = <<>> /\ inner'.cursor = 0
      /\ outer' = [items |-> <<>>, cursor |-> 0, from |-> 1]
      /\ outer'.items = <<>> /\ outer'.cursor = 0
      /\ method' = M.then /\ M.upon # {} /\ alt' = 1 /\ pc' = "asking"
      /\ call' = call /\ amount' = amount /\ known' = known /\ size' = size
  BY DEF FallsBack, Arguments, Asking, Start
<1>2. method' \in Fallbacks
  <2>1. M = Calls[method] /\ Sound(M)
    BY Ranges, TableIsSound DEF M, Fine
  <2> QED
    BY <1>1, <2>1 DEF Sound
<1>3. Given'
  BY <1>1, <1>2 DEF Typed, Given
<1>4. Placed'
  <2>1. <<>> \in Items /\ Listing \in Nat
    BY Ranges DEF Items
  <2>2. alt' \in 1..Len(M'.pages)
    <3>1. method' \in DOMAIN Calls
      BY <1>2, Ranges
    <3>2. Sound(Calls[method'])
      BY <3>1, TableIsSound DEF Fine
    <3>3. M'.pages \in Seq(Stage) /\ M'.pages # <<>>
      BY <3>2 DEF Sound, M
    <3> QED
      BY <1>1, <3>3
  <2> QED
    BY <1>1, <2>1, <2>2 DEF Placed, Start
<1>5. Room'
  <2>1. Len(outer'.items) = 0
    BY <1>1
  <2> QED
    BY <1>1, <1>3, <1>4, <2>1, EmptyRoom
<1>6. Unequal => Unequal'
  <2> SUFFICES ASSUME Unequal, call \in Unique
               PROVE  FALSE
    BY <1>1 DEF Unequal
  <2> QED
    BY <1>1, UniqueParts DEF Unequal
<1>7. Chained'
  <2>1. Follows(outer'.items, 0) /\ Len(outer'.items) = 0 /\ Len(inner'.items) = 0
        /\ Follows(inner'.items, 0)
    BY <1>1 DEF Follows
  <2>2. 0 + 0 = 0
    OBVIOUS
  <2> QED
    BY <1>1, <2>1, <2>2 DEF Chained
<1> QED
  BY <1>1, <1>3, <1>4, <1>5, <1>6, <1>7 DEF Kept

LEMMA GivesUpIs ==
  ASSUME Typed, GivesUp, UNCHANGED Arguments
  PROVE  /\ Given' /\ Placed' /\ Room' /\ Kept' /\ pc' = "raised"
         /\ Unequal => Unequal'
         /\ Chained => Chained'
<1>1. /\ inner' = Start /\ inner'.items = <<>> /\ outer' = outer /\ alt' = alt
      /\ method' = method /\ M' = M /\ pc' = "raised"
      /\ call' = call /\ amount' = amount /\ known' = known /\ size' = size
  BY DEF GivesUp, Arguments, Start, M
<1>2. Given'
  BY <1>1 DEF Typed, Given
<1>3. Placed'
  <2>1. <<>> \in Items /\ Listing \in Nat
    BY Ranges DEF Items
  <2> QED
    BY <1>1, <2>1 DEF Typed, Placed, Start
<1>4. Room'
  BY <1>1, <1>2, <1>3, EmptyRoom
<1>5. Unequal => Unequal'
  <2>1. Different(inner'.items)
    BY <1>1 DEF Different
  <2> QED
    BY <1>1, <2>1 DEF Unequal
<1> QED
  BY <1>1, <1>2, <1>3, <1>4, <1>5 DEF Kept, Chained, Asking

-------------------------------------------------------------------------------
(* The steps of the method and its server.                                   *)

AfterStep == Given' /\ Placed' /\ Room' /\ Kept'

LEMMA RaisedKeeps ==
  ASSUME Typed, Room, Unequal, Asking, NEW kind, Raised(kind), UNCHANGED Arguments
  PROVE  /\ AfterStep /\ Unequal'
         /\ Chained /\ Methods \subseteq Dependable => Chained'
         /\ pc' = "done" => P.keepsOn # {} /\ M' = M
<1>1. CASE P.keepsOn # {} /\ Returned(inner.items, 0)
  <2>1. inner.items \in Items /\ 0 \in 0..Listing
    BY Ranges
  <2>2. PICK next \in 0..Listing : next = 0
    BY <2>1
  <2>3. PICK page \in Items : page = inner.items
    BY <2>1
  <2>4. Returned(page, next)
    BY <1>1, <2>2, <2>3
  <2>5. Given' /\ Placed' /\ Room'
    BY <2>4, ReturnedTyped
  <2>6. Kept'
    BY <1>1, <2>4, ReturnedKept
  <2>7. Unequal'
    <3>1. call \notin Unique
      BY <1>1, UniqueParts DEF Unequal
    <3> QED
      BY <3>1 DEF Unequal, Arguments
  <2>8. Chained /\ Methods \subseteq Dependable => Chained'
    <3>1. Chained => Follows(page, Len(outer.items))
      BY <2>3 DEF Chained
    <3> QED
      BY <2>2, <2>4, <3>1, ReturnedInStep
  <2>9. M' = M
    BY <2>4, ReturnedIs
  <2> QED
    BY <1>1, <2>5, <2>6, <2>7, <2>8, <2>9 DEF AfterStep
<1>2. CASE NextPage
  BY <1>2, NextPageIs DEF AfterStep
<1>3. CASE FallsBack
  BY <1>3, FallsBackIs DEF AfterStep
<1>4. CASE GivesUp
  BY <1>4, GivesUpIs DEF AfterStep
<1> QED
  BY <1>1, <1>2, <1>3, <1>4, RaisedIs

LEMMA CountedWith ==
  ASSUME Typed, NEW f \in Errors \cup {"empty", "back"}, Irregular(f), requests' \in 0..MaxRequests
  PROVE  Counted' /\ faults' # <<>> /\ Happened' = Happened \cup {f}
<1>1. /\ faults \in Seq(Errors \cup {"empty", "back"}) /\ Len(faults) < MaxFaults
      /\ faults' = Append(faults, f) /\ MaxFaults \in Nat
  BY PagingAssumption DEF Irregular, Typed, Counted
<1>2. /\ faults' \in Seq(Errors \cup {"empty", "back"}) /\ Len(faults') = Len(faults) + 1
      /\ \A i \in 1..Len(faults) : faults'[i] = faults[i]
      /\ faults'[Len(faults) + 1] = f /\ Len(faults) \in Nat
  BY <1>1
<1>3. Happened' = Happened \cup {f}
  <2>1. ASSUME NEW x \in ItemsOf(faults')
        PROVE  x \in ItemsOf(faults) \cup {f}
    <3>1. PICK i \in 1..Len(faults') : faults'[i] = x
      BY <2>1 DEF ItemsOf
    <3>2. i \in 1..Len(faults) \/ i = Len(faults) + 1
      BY <1>2, <3>1
    <3> QED
      BY <1>2, <3>1, <3>2 DEF ItemsOf
  <2>2. ASSUME NEW x \in ItemsOf(faults) \cup {f}
        PROVE  x \in ItemsOf(faults')
    <3>1. CASE x = f
      <4>1. Len(faults) + 1 \in 1..Len(faults')
        BY <1>2
      <4> QED
        BY <1>2, <3>1, <4>1 DEF ItemsOf
    <3>2. CASE x \in ItemsOf(faults)
      <4>1. PICK i \in 1..Len(faults) : faults[i] = x
        BY <3>2 DEF ItemsOf
      <4>2. i \in 1..Len(faults')
        BY <1>2, <4>1
      <4> QED
        BY <1>2, <4>1, <4>2 DEF ItemsOf
    <3> QED
      BY <2>2, <3>1, <3>2
  <2> QED
    BY <2>1, <2>2 DEF Happened
<1> QED
  BY <1>1, <1>2, <1>3 DEF Counted

LEMMA RequestIs ==
  ASSUME Typed, Request
  PROVE  Asking /\ requests' \in 0..MaxRequests /\ UNCHANGED Arguments
<1>1. MaxRequests \in Nat /\ requests \in 0..MaxRequests
  BY PagingAssumption DEF Typed, Counted
<1> QED
  BY <1>1 DEF Request, Asking, Arguments

LEMMA AtIs == ASSUME Typed PROVE At \in 0..Listing /\ (P.cursor # "none" => At = inner.cursor)
BY Ranges DEF At

\* A regular answer.
LEMMA ServesIs ==
  ASSUME Typed, Serves
  PROVE  /\ Asking /\ requests' \in 0..MaxRequests /\ UNCHANGED Arguments /\ faults' = faults
         /\ \E page \in Items, more \in BOOLEAN, mark \in 0..Listing :
               /\ Handled(page, more, mark)
               /\ P.cursor # "none" => /\ Ordered(page, more, mark)
                                       /\ page = <<>> => Behind(page) = Listing
<1>1. Asking /\ requests' \in 0..MaxRequests /\ UNCHANGED Arguments /\ faults' = faults
  BY RequestIs DEF Serves
<1>2. PICK n \in 0..PageMax :
          /\ n = 0 => At + n = Listing
          /\ At + n <= Listing /\ (Asked > 0 => n <= Asked)
          /\ \E next \in (IF ~(At + n = Listing) THEN {At + n}
                          ELSE IF n = 0 THEN {0} ELSE {0, Listing}) :
                Handled(Interval(At + 1, At + n), ~(At + n = Listing), next)
  BY Zenon DEF Serves
<1>3. PICK next \in (IF ~(At + n = Listing) THEN {At + n}
                     ELSE IF n = 0 THEN {0} ELSE {0, Listing}) :
          Handled(Interval(At + 1, At + n), ~(At + n = Listing), next)
  BY <1>2
<1>4. PICK more \in BOOLEAN : more = ~(At + n = Listing)
  OBVIOUS
<1> DEFINE page == Interval(At + 1, At + n)
<1>5. Handled(page, more, next)
  BY <1>3, <1>4, Zenon
<1>6. At \in Nat /\ n \in Nat /\ Listing \in Nat /\ At \in 0..Listing
  BY AtIs, PagingAssumption
<1>7. Len(page) = n /\ Follows(page, At) /\ page \in Items
  BY <1>2, <1>6, IntervalFacts DEF Items
<1>8. next \in 0..Listing
  BY <1>2, <1>3, <1>6
<1>9. SUFFICES ASSUME P.cursor # "none"
               PROVE  Ordered(page, more, next) /\ (page = <<>> => Behind(page) = Listing)
  BY <1>1, <1>5, <1>7, <1>8
<1>10. At = inner.cursor
  BY <1>9, AtIs
<1>11. Behind(page) = At + n
  BY <1>7, <1>10 DEF Behind
<1>12. page = <<>> => n = 0
  BY <1>7
<1> HIDE DEF page
<1>13. next = At + n \/ (next = 0 /\ At + n = Listing /\ ~more)
  BY <1>3, <1>4, <1>6
<1>14. ~more => At + n = Listing
  BY <1>4
<1>15. Follows(page, inner.cursor) /\ Behind(page) <= Listing /\ (Asked > 0 => Len(page) <= Asked)
  BY <1>2, <1>7, <1>10, <1>11
<1>16. next = Behind(page) \/ (next = 0 /\ Behind(page) = Listing /\ ~more)
  BY <1>11, <1>13
<1>17. Ordered(page, more, next)
  BY <1>11, <1>14, <1>15, <1>16 DEF Ordered
<1>18. page = <<>> => Behind(page) = Listing
  BY <1>2, <1>11, <1>12
<1> QED
  BY <1>17, <1>18

\* An empty page in the middle.
LEMMA ServesNothingIs ==
  ASSUME Typed, Room, ServesNothing
  PROVE  /\ Asking /\ requests' \in 0..MaxRequests /\ UNCHANGED Arguments /\ Irregular("empty")
         /\ \E page \in Items, more \in BOOLEAN, mark \in 0..Listing :
               /\ Handled(page, more, mark)
               /\ P.cursor # "none" => Ordered(page, more, mark)
<1>1. /\ Asking /\ requests' \in 0..MaxRequests /\ UNCHANGED Arguments /\ Irregular("empty")
      /\ At \in 1..(Listing - 1) /\ Handled(<<>>, TRUE, At)
  BY RequestIs DEF ServesNothing
<1>2. PICK more \in BOOLEAN : more
  OBVIOUS
<1>3. Handled(<<>>, more, At)
  BY <1>1, <1>2, Zenon
<1>4. PICK page \in Items : page = <<>>
  <2>1. <<>> \in Items
    BY DEF Items
  <2> QED
    BY <2>1
<1>5. Len(page) = 0 /\ Listing \in Nat /\ At \in 0..Listing
  BY <1>4, AtIs, PagingAssumption
<1>6. Handled(page, more, At)
  BY <1>3, <1>4
<1>7. P.cursor # "none" => Ordered(page, more, At)
  <2> SUFFICES ASSUME P.cursor # "none"
               PROVE  Ordered(page, more, At)
    OBVIOUS
  <2>1. At = inner.cursor
    BY AtIs
  <2>2. Behind(page) = At
    BY <1>5, <2>1 DEF Behind
  <2>3. Follows(page, inner.cursor)
    BY <1>5 DEF Follows
  <2>4. Asked > 0 => Len(page) <= Asked
    BY <1>1, <1>5, LimitFacts
  <2> QED
    BY <1>1, <1>2, <1>5, <2>2, <2>3, <2>4 DEF Ordered
<1> QED
  BY <1>1, <1>5, <1>6, <1>7

LEMMA LeadsBackIs ==
  ASSUME Typed, LeadsBack
  PROVE  /\ Asking /\ requests' \in 0..MaxRequests /\ UNCHANGED Arguments /\ Irregular("back")
         /\ \E page \in Items, more \in BOOLEAN, mark \in 0..Listing : Handled(page, more, mark)
<1>1. Asking /\ requests' \in 0..MaxRequests /\ UNCHANGED Arguments /\ At < Listing
  BY RequestIs DEF LeadsBack
<1>2. PICK next \in 0..At : Irregular("back") /\ Handled(<<At + 1>>, TRUE, next)
  BY DEF LeadsBack
<1>3. PICK more \in BOOLEAN : more
  OBVIOUS
<1>4. Handled(<<At + 1>>, more, next)
  BY <1>2, <1>3, Zenon
<1>5. At \in 0..Listing /\ Listing \in Nat
  BY AtIs, PagingAssumption
<1>6. next \in 0..Listing /\ <<At + 1>> \in Items
  BY <1>1, <1>5 DEF Items
<1> QED
  BY <1>1, <1>2, <1>4, <1>6

-------------------------------------------------------------------------------
(* Every step keeps the invariant.                                           *)

\* An answer, of whatever kind.
LEMMA AnswerKeeps ==
  ASSUME Typed, Room, Unequal, Asking, UNCHANGED Arguments,
         NEW page \in Items, NEW more \in BOOLEAN, NEW mark \in 0..Listing,
         Handled(page, more, mark)
  PROVE  AfterStep /\ Unequal'
BY HandledTyped, HandledKept, HandledUnequal DEF AfterStep

LEMMA ServesKeeps == ASSUME PagingInv, Serves PROVE PagingInv'
<1>1. /\ Typed /\ Room /\ Unequal /\ Unharmed
      /\ Methods \subseteq Dependable => InStep
  BY DEF PagingInv
<1>2. Asking /\ requests' \in 0..MaxRequests /\ UNCHANGED Arguments /\ faults' = faults
  BY <1>1, ServesIs
<1>3. PICK page \in Items, more \in BOOLEAN, mark \in 0..Listing :
         /\ Handled(page, more, mark)
         /\ P.cursor # "none" => /\ Ordered(page, more, mark)
                                 /\ page = <<>> => Behind(page) = Listing
  BY <1>1, ServesIs
<1>4. AfterStep /\ Unequal'
  BY <1>1, <1>2, <1>3, AnswerKeeps
<1>5. Counted'
  BY <1>1, <1>2 DEF Typed, Counted
<1>6. Unharmed'
  BY <1>1, <1>2, <1>3, HandledUnharmed DEF Unharmed
<1>7. SUFFICES ASSUME Methods \subseteq Dependable
               PROVE  InStep' /\ WholeAtEnd'
  BY <1>4, <1>5, <1>6 DEF PagingInv, AfterStep, Typed
<1>8. Ordered(page, more, mark) /\ (page = <<>> => Behind(page) = Listing)
  <2>1. P.cursor # "none"
    BY <1>1, <1>7, PageParts DEF Orderly
  <2> QED
    BY <1>3, <2>1
<1>9. Happened' = Happened
  BY <1>2 DEF Happened
<1>10. "back" \notin Happened => Chained
  BY <1>1, <1>7 DEF InStep
<1>11. InStep'
  BY <1>1, <1>2, <1>3, <1>7, <1>8, <1>9, <1>10, HandledInStep DEF InStep
<1>12. WholeAtEnd'
  <2> SUFFICES ASSUME pc' = "done", Happened' \subseteq Errors, ~OnePage',
                      call' # "reels_timeline_media"
               PROVE  outer'.items = Interval(1, Complete')
    BY DEF WholeAtEnd, DoneMeansComplete
  <2>1. Chained
    BY <1>9, <1>10 DEF Errors
  <2>2. call # "reels_timeline_media"
    BY <1>2 DEF Arguments
  <2> QED
    BY <1>1, <1>2, <1>3, <1>7, <1>8, <2>1, <2>2, HandledWhole
<1> QED
  BY <1>11, <1>12

LEMMA ServesNothingKeeps == ASSUME PagingInv, ServesNothing PROVE PagingInv'
<1>1. /\ Typed /\ Room /\ Unequal /\ Unharmed
      /\ Methods \subseteq Dependable => InStep
  BY DEF PagingInv
<1>2. Asking /\ requests' \in 0..MaxRequests /\ UNCHANGED Arguments /\ Irregular("empty")
  BY <1>1, ServesNothingIs
<1>3. PICK page \in Items, more \in BOOLEAN, mark \in 0..Listing :
         /\ Handled(page, more, mark)
         /\ P.cursor # "none" => Ordered(page, more, mark)
  BY <1>1, ServesNothingIs
<1>4. AfterStep /\ Unequal'
  BY <1>1, <1>2, <1>3, AnswerKeeps
<1>5. Counted' /\ faults' # <<>> /\ Happened' = Happened \cup {"empty"}
  BY <1>1, <1>2, CountedWith
<1>6. Unharmed'
  BY <1>5 DEF Unharmed
<1>7. SUFFICES ASSUME Methods \subseteq Dependable
               PROVE  InStep' /\ WholeAtEnd'
  BY <1>4, <1>5, <1>6 DEF PagingInv, AfterStep, Typed
<1>8. Ordered(page, more, mark)
  <2>1. P.cursor # "none"
    BY <1>1, <1>7, PageParts DEF Orderly
  <2> QED
    BY <1>3, <2>1
<1>9. "back" \notin Happened' => Chained
  BY <1>1, <1>5, <1>7 DEF InStep
<1>10. InStep'
  BY <1>1, <1>2, <1>3, <1>7, <1>8, <1>9, HandledInStep DEF InStep
<1>11. WholeAtEnd'
  BY <1>5 DEF WholeAtEnd, DoneMeansComplete, Errors
<1> QED
  BY <1>10, <1>11

LEMMA LeadsBackKeeps == ASSUME PagingInv, LeadsBack PROVE PagingInv'
<1>1. Typed /\ Room /\ Unequal
  BY DEF PagingInv
<1>2. Asking /\ requests' \in 0..MaxRequests /\ UNCHANGED Arguments /\ Irregular("back")
  BY <1>1, LeadsBackIs
<1>3. PICK page \in Items, more \in BOOLEAN, mark \in 0..Listing : Handled(page, more, mark)
  BY <1>1, LeadsBackIs
<1>4. AfterStep /\ Unequal'
  BY <1>1, <1>2, <1>3, AnswerKeeps
<1>5. Counted' /\ faults' # <<>> /\ Happened' = Happened \cup {"back"}
  BY <1>1, <1>2, CountedWith
<1>6. Unharmed' /\ InStep'
  BY <1>5 DEF Unharmed, InStep
<1>7. WholeAtEnd'
  BY <1>5 DEF WholeAtEnd, DoneMeansComplete, Errors
<1> QED
  BY <1>4, <1>5, <1>6, <1>7 DEF PagingInv, AfterStep, Typed

\* What a method takes for the end is exempt, so that an error never makes a list whole.
LEMMA FailsKeeps == ASSUME PagingInv, Fails PROVE PagingInv'
<1>1. /\ Typed /\ Room /\ Unequal /\ Unharmed
      /\ Methods \subseteq Dependable => InStep
  BY DEF PagingInv
<1>2. Asking /\ requests' \in 0..MaxRequests /\ UNCHANGED Arguments
  BY <1>1, RequestIs DEF Fails
<1>3. PICK kind \in Errors :
         /\ IF Foreign THEN UNCHANGED faults /\ kind = "client" ELSE Irregular(kind)
         /\ Raised(kind)
  BY DEF Fails
<1>4. /\ AfterStep /\ Unequal'
      /\ Chained /\ Methods \subseteq Dependable => Chained'
      /\ pc' = "done" => P.keepsOn # {} /\ M' = M
  BY <1>1, <1>2, <1>3, RaisedKeeps
<1>5. Counted' /\ faults' # <<>> /\ Happened \subseteq Happened'
  <2>1. CASE Foreign
    <3>1. faults' = faults
      BY <1>3, <2>1
    <3>2. faults # <<>>
      BY <1>1, <2>1 DEF Foreign, Unharmed
    <3> QED
      BY <1>1, <1>2, <3>1, <3>2 DEF Typed, Counted, Happened
  <2>2. CASE ~Foreign
    BY <1>1, <1>2, <1>3, <2>2, CountedWith
  <2> QED
    BY <2>1, <2>2
<1>6. Unharmed'
  BY <1>5 DEF Unharmed
<1>7. Methods \subseteq Dependable => InStep'
  BY <1>1, <1>4, <1>5 DEF InStep
<1>8. WholeAtEnd'
  <2>1. pc' = "done" => Quiet'
    <3> SUFFICES ASSUME pc' = "done"
                 PROVE  Quiet'
      OBVIOUS
    <3>1. P.keepsOn # {} /\ M' = M
      BY <1>4
    <3>2. P \in ItemsOf(M.pages)
      BY <1>1, Ranges DEF ItemsOf
    <3>3. P \in Stages'
      BY <3>1, <3>2 DEF Stages
    <3> QED
      BY <3>1, <3>3 DEF Quiet
  <2> QED
    BY <1>5, <2>1 DEF WholeAtEnd, DoneMeansComplete
<1> QED
  BY <1>4, <1>5, <1>6, <1>7, <1>8 DEF PagingInv, AfterStep, Typed

LEMMA StutterKeeps == ASSUME PagingInv, UNCHANGED vars PROVE PagingInv'
<1>1. /\ UNCHANGED <<call, method, amount, size, known, pc, alt, inner, outer, faults, requests>>
      /\ M' = M /\ P' = P /\ Limit' = Limit
  BY DEF vars, M, P, Limit
<1>2. Typed'
  BY <1>1 DEF PagingInv, Typed, Given, Placed, Counted
<1>3. Room' /\ Kept' /\ Unequal' /\ Unharmed'
  BY <1>1 DEF PagingInv, Room, Kept, Unequal, Unharmed, Asking
<1>4. InStep <=> InStep'
  BY <1>1 DEF InStep, Chained, Asking, Happened
<1>5. WholeAtEnd <=> WholeAtEnd'
  BY <1>1 DEF WholeAtEnd, DoneMeansComplete, Happened, OnePage, Quiet, Stages, Complete, Available
<1> QED
  BY <1>2, <1>3, <1>4, <1>5 DEF PagingInv

LEMMA InitHolds == ASSUME Init PROVE PagingInv
<1>1. /\ call \in Methods /\ method = call /\ amount \in Amounts \cup {0}
      /\ call = "collections" => amount = 0
      /\ known \in Known \cup {0} /\ size \in PageSizes \cup {0}
      /\ pc \in {"asking", "done"} /\ alt = 1 /\ faults = <<>> /\ requests = 0
      /\ inner = Start /\ outer = [items |-> <<>>, cursor |-> 0, from |-> 1]
  BY DEF Init
<1>2. /\ inner.items = <<>> /\ inner.cursor = 0
      /\ outer.items = <<>> /\ outer.cursor = 0 /\ outer.from = 1
  BY <1>1 DEF Start
<1>3. Given
  BY <1>1 DEF Given
<1>4. Placed
  <2>1. <<>> \in Items /\ Listing \in Nat
    BY PagingAssumption DEF Items
  <2>2. alt \in 1..Len(M.pages)
    <3>1. method \in DOMAIN Calls
      BY <1>1, MethodsAssumption
    <3>2. Sound(Calls[method])
      BY <3>1, TableIsSound DEF Fine
    <3>3. M.pages \in Seq(Stage) /\ M.pages # <<>>
      BY <3>2 DEF Sound, M
    <3> QED
      BY <1>1, <3>3
  <2> QED
    BY <1>1, <2>1, <2>2 DEF Placed, Start
<1>5. Counted
  <2>1. faults \in Seq(Errors \cup {"empty", "back"}) /\ Len(faults) = 0
    BY <1>1
  <2>2. MaxFaults \in Nat /\ MaxRequests \in Nat
    BY PagingAssumption
  <2> QED
    BY <1>1, <2>1, <2>2 DEF Counted
<1>6. Typed
  BY <1>3, <1>4, <1>5 DEF Typed
<1>7. Len(inner.items) = 0 /\ Len(outer.items) = 0
  BY <1>2
<1>8. Room
  BY <1>2, <1>7 DEF Room
<1>9. Kept
  <2>1. amount \in Nat
    BY <1>6, Ranges
  <2> QED
    BY <1>7, <2>1 DEF Kept
<1>10. Unequal /\ Unharmed
  BY <1>1, <1>2 DEF Unequal, Unharmed, Different
<1>11. InStep
  <2>1. Follows(outer.items, 0) /\ Follows(inner.items, 0) /\ 0 + 0 = 0
    BY <1>2 DEF Follows
  <2> QED
    BY <1>2, <1>7, <2>1 DEF InStep, Chained
<1>12. WholeAtEnd
  <2>1. pc = "done" => M.zero = "none"
    BY <1>1 DEF Init, M
  <2>2. call # "reels_timeline_media" => M.zero = "all"
    BY <1>6, PageParts
  <2> QED
    BY <2>1, <2>2 DEF WholeAtEnd, DoneMeansComplete
<1> QED
  BY <1>6, <1>8, <1>9, <1>10, <1>11, <1>12 DEF PagingInv

LEMMA PagingInvariant == Spec => []PagingInv
<1>1. Init => PagingInv
  BY InitHolds
<1>2. PagingInv /\ [Next]_vars => PagingInv'
  <2> SUFFICES ASSUME PagingInv, [Next]_vars
               PROVE  PagingInv'
    OBVIOUS
  <2>1. CASE Serves
    BY <2>1, ServesKeeps
  <2>2. CASE ServesNothing
    BY <2>2, ServesNothingKeeps
  <2>3. CASE LeadsBack
    BY <2>3, LeadsBackKeeps
  <2>4. CASE Fails
    BY <2>4, FailsKeeps
  <2>5. CASE UNCHANGED vars
    BY <2>5, StutterKeeps
  <2> QED
    BY <2>1, <2>2, <2>3, <2>4, <2>5 DEF Next
<1> QED
  BY <1>1, <1>2, PTL DEF Spec

\* The machine of Paging stays in its types, for every subset of the methods.
THEOREM TypeCorrect == Spec => []TypeOK
<1>1. PagingInv => TypeOK
  <2> SUFFICES ASSUME PagingInv
               PROVE  TypeOK
    OBVIOUS
  <2>1. Typed /\ Room
    BY DEF PagingInv
  <2>2. pc = "asking" => Limit \in Nat /\ Asked \in Nat
    BY <2>1, LimitFacts DEF Asking
  <2>3. ItemsOf(inner.items) \cup ItemsOf(outer.items) \subseteq 1..Listing
    BY <2>1, Ranges, ItemIsOne DEF ItemsOf
  <2>4. MaxRequests \in Nat
    BY PagingAssumption
  <2> QED
    BY <2>1, <2>2, <2>3, <2>4, Ranges DEF TypeOK, Typed, Given, Placed, Counted
<1> QED
  BY <1>1, PagingInvariant, PTL

\* Chunks of unique users return none twice, wherever cursors lead, and no list is longer than the
\* amount: of every method, whatever the server answers.
THEOREM NoneTwiceNorTooMany == Spec => [](NoneTwice /\ AmountIsKept)
<1>1. PagingInv => NoneTwice /\ AmountIsKept
  <2> SUFFICES ASSUME PagingInv
               PROVE  NoneTwice /\ AmountIsKept
    OBVIOUS
  <2>1. Typed /\ Room /\ Kept /\ Unequal
    BY DEF PagingInv
  <2>2. NoneTwice
    BY <2>1 DEF NoneTwice, Unequal, Different
  <2>3. AmountIsKept
    <3>1. pc = "asking" /\ amount > 0 /\ M.gives # "none" => Limit > 0
      BY <2>1, LimitFacts DEF Asking
    <3>2. P.asks = "left" => M.gives # "none"
      BY <2>1, PageParts DEF Fits
    <3>3. pc = "asking" /\ P.asks = "left" /\ Limit > 0 => Asked > 0
      BY <2>1, LimitFacts DEF Asking
    <3> QED
      BY <2>1, <3>1, <3>2, <3>3 DEF AmountIsKept, Kept
  <2> QED
    BY <2>2, <2>3
<1> QED
  BY <1>1, PagingInvariant, PTL

\* As long as cursors lead to the next item, what a method whose lists are whole has collected, at
\* any moment, is the beginning of the server's list, without a gap and without a repetition.
THEOREM ListsCollectedOnce ==
  ASSUME Methods \subseteq Dependable
  PROVE  Spec => []CollectedOnce
<1>1. PagingInv => NothingSkipped
  <2> SUFFICES ASSUME PagingInv, Happened \subseteq Errors \cup {"empty"}
               PROVE  LET all == outer.items \o inner.items IN all = Interval(1, Len(all))
    BY DEF NothingSkipped
  <2> DEFINE all == outer.items \o inner.items
  <2>1. Typed /\ Room /\ Chained
    BY DEF PagingInv, InStep, Errors
  <2>2. PICK a \in Nat : a = 0
    OBVIOUS
  <2>3. /\ outer.items \in Items /\ inner.items \in Items
        /\ Len(outer.items) \in Nat /\ a + Len(outer.items) = Len(outer.items)
    BY <2>1, <2>2, Ranges
  <2>4. Follows(outer.items, a) /\ Follows(inner.items, a + Len(outer.items))
    <3>1. ~Asking => Follows(inner.items, Len(outer.items))
      BY <2>1 DEF Room, Follows
    <3> QED
      BY <2>1, <2>2, <2>3, <3>1 DEF Chained
  <2>5. all \in Items /\ Follows(all, a)
    BY <2>3, <2>4, Joined DEF Items
  <2>6. all = Interval(a + 1, a + Len(all))
    BY <2>5, FollowsIsInterval DEF Items
  <2> HIDE DEF all
  <2>7. Len(all) \in Nat
    BY <2>5 DEF Items
  <2>8. a + 1 = 1 /\ a + Len(all) = Len(all)
    BY <2>2, <2>7
  <2>9. all = Interval(1, Len(all))
    BY <2>6, <2>8
  <2> QED
    BY <2>9 DEF all
<1> QED
  BY <1>1, PagingInvariant, NoneTwiceNorTooMany, PTL DEF CollectedOnce

\* A list that such a method returns is the whole one, or as much of it as was asked for, in the
\* order of the server: an error on the way is raised or the list is collected anew.
THEOREM AnswersWhole ==
  ASSUME Methods \subseteq Dependable
  PROVE  Spec => []AnswerIsTheList
<1>1. PagingInv => DoneMeansComplete
  BY DEF PagingInv, WholeAtEnd
<1> QED
  BY <1>1, PagingInvariant, NoneTwiceNorTooMany, PTL DEF AnswerIsTheList

=============================================================================
