-------------------------- MODULE AccountCachesProofs --------------------------
(***************************************************************************)
(* Theorems about the caches, for any finite sets of accounts and of       *)
(* names, all amounts, and any number of changes and failing requests.     *)
(***************************************************************************)
EXTENDS AccountCaches, FiniteSetTheorems, TLAPS

-------------------------------------------------------------------------------
(* Lists that name an account once.                                          *)

Lists == ListsOf(Users)

\* Such a list is never longer than there are accounts.
LEMMA OnceEachIsShort ==
  ASSUME NEW s \in Seq(Users), OnceEach(s)
  PROVE  Len(s) <= Cardinality(Users) /\ Cardinality(Users) \in Nat
<1>1. IsFiniteSet(Users) /\ Cardinality(Users) \in Nat
  BY CachesAssumption, FS_CardinalityType
<1>2. Len(s) \in Nat /\ s \in [1..Len(s) -> Users]
  OBVIOUS
<1>3. IsFiniteSet(1..Len(s)) /\ Cardinality(1..Len(s)) = Len(s)
  BY <1>2, FS_Interval
<1>4. ASSUME Cardinality(Users) < Len(s)
      PROVE  FALSE
  <2>1. \E x, y \in 1..Len(s) : x # y /\ s[x] = s[y]
    BY <1>1, <1>2, <1>3, <1>4, FS_PigeonHole
  <2> QED
    BY <2>1 DEF OnceEach
<1> QED
  BY <1>1, <1>2, <1>4

LEMMA ListsAre ==
  /\ \A s \in Lists : s \in Seq(Users) /\ OnceEach(s) /\ Len(s) \in Nat
  /\ \A s \in Seq(Users) : OnceEach(s) => s \in Lists
<1>1. ASSUME NEW s \in Lists
      PROVE  s \in Seq(Users) /\ OnceEach(s) /\ Len(s) \in Nat
  <2>1. Cardinality(Users) \in Nat
    BY CachesAssumption, FS_CardinalityType
  <2>2. PICK m \in 0..Cardinality(Users) : s \in [1..m -> Users]
    BY DEF Lists, ListsOf, BoundedSeq, SeqOf
  <2>3. m \in Nat
    BY <2>1, <2>2
  <2>4. s \in Seq(Users)
    BY <2>2, <2>3
  <2> QED
    BY <2>4 DEF Lists, ListsOf
<1>2. ASSUME NEW s \in Seq(Users), OnceEach(s)
      PROVE  s \in Lists
  <2>1. Len(s) \in 0..Cardinality(Users) /\ s \in [1..Len(s) -> Users]
    BY <1>2, OnceEachIsShort
  <2> QED
    BY <1>2, <2>1 DEF Lists, ListsOf, BoundedSeq, SeqOf
<1> QED
  BY <1>1, <1>2

LEMMA EmptyIsAList == <<>> \in Lists
<1>1. <<>> \in Seq(Users) /\ Len(<<>>) = 0
  OBVIOUS
<1>2. OnceEach(<<>>)
  BY <1>1 DEF OnceEach
<1> QED
  BY <1>1, <1>2, ListsAre

\* Cut keeps the first entries of a list, the amount of them at most.
LEMMA CutFacts ==
  ASSUME NEW s \in Lists, NEW amount \in Nat
  PROVE  /\ Cut(s, amount) \in Lists /\ Len(Cut(s, amount)) <= Len(s)
         /\ amount = 0 \/ Len(s) <= amount => Cut(s, amount) = s
         /\ amount # 0 /\ Len(s) > amount => Len(Cut(s, amount)) = amount
<1>1. s \in Seq(Users) /\ OnceEach(s) /\ Len(s) \in Nat
  BY ListsAre
<1>2. CASE amount = 0 \/ Len(s) <= amount
  BY <1>1, <1>2 DEF Cut
<1>3. CASE amount # 0 /\ Len(s) > amount
  <2> DEFINE t == SubSeq(s, 1, amount)
  <2>1. /\ t \in Seq(Users) /\ Len(t) = amount
        /\ \A i \in 1..amount : t[i] = s[i]
    BY <1>1, <1>3
  <2> HIDE DEF t
  <2>2. t \in Lists
    BY <1>1, <1>3, <2>1, ListsAre DEF OnceEach
  <2>3. Cut(s, amount) = t
    BY <1>3 DEF Cut, t
  <2> QED
    BY <1>1, <1>3, <2>1, <2>2, <2>3
<1> QED
  BY <1>1, <1>2, <1>3

\* A new follow at the head of the server's list, or at the end of the cached one.
LEMMA PrependFacts ==
  ASSUME NEW s \in Lists, NEW u \in Users, u \notin ToSet(s)
  PROVE  <<u>> \o s \in Lists
<1>1. s \in Seq(Users) /\ OnceEach(s) /\ Len(s) \in Nat
  BY ListsAre
<1> DEFINE t == <<u>> \o s
<1>2. /\ t \in Seq(Users) /\ Len(t) = Len(s) + 1 /\ t[1] = u
      /\ \A i \in 2..(Len(s) + 1) : t[i] = s[i - 1] /\ i - 1 \in 1..Len(s)
  BY <1>1
<1> HIDE DEF t
<1>3. \A i \in 1..Len(s) : s[i] # u
  BY <1>1 DEF ToSet
<1>4. OnceEach(t)
  <2> SUFFICES ASSUME NEW i \in 1..Len(t), NEW j \in 1..Len(t), t[i] = t[j] PROVE i = j
    BY DEF OnceEach
  <2>1. CASE i = 1 \/ j = 1
    BY <1>1, <1>2, <1>3, <2>1
  <2>2. CASE i # 1 /\ j # 1
    <3>1. i \in 2..(Len(s) + 1) /\ j \in 2..(Len(s) + 1)
      BY <1>1, <1>2, <2>2
    <3>2. i - 1 = j - 1
      BY <1>1, <1>2, <3>1 DEF OnceEach
    <3> QED
      BY <1>1, <3>1, <3>2
  <2> QED
    BY <2>1, <2>2
<1> QED
  BY <1>2, <1>4, ListsAre DEF t

LEMMA AppendFacts ==
  ASSUME NEW s \in Lists, NEW u \in Users, u \notin ToSet(s)
  PROVE  Append(s, u) \in Lists /\ ToSet(Append(s, u)) = ToSet(s) \cup {u}
<1>1. s \in Seq(Users) /\ OnceEach(s) /\ Len(s) \in Nat /\ DOMAIN s = 1..Len(s)
  BY ListsAre
<1> DEFINE t == Append(s, u)
<1>2. /\ t \in Seq(Users) /\ Len(t) = Len(s) + 1 /\ t[Len(s) + 1] = u /\ DOMAIN t = 1..(Len(s) + 1)
      /\ \A i \in 1..Len(s) : t[i] = s[i]
  BY <1>1
<1> HIDE DEF t
<1>3. \A i \in 1..Len(s) : s[i] # u
  BY <1>1 DEF ToSet
<1>4. OnceEach(t)
  BY <1>1, <1>2, <1>3 DEF OnceEach
<1>5. ToSet(t) = ToSet(s) \cup {u}
  BY <1>1, <1>2 DEF ToSet
<1> QED
  BY <1>2, <1>4, <1>5, ListsAre DEF t

\* What is left when an account is taken off names an account once.
LEMMA RemoveFacts ==
  ASSUME NEW s \in Lists, NEW u
  PROVE  RemoveFirst(s, u) \in Lists
<1>1. s \in Seq(Users) /\ OnceEach(s) /\ Len(s) \in Nat
  BY ListsAre
<1>2. CASE \E i \in 1..Len(s) : s[i] = u
  <2>1. PICK k \in 1..Len(s) : s[k] = u
    BY <1>2
  <2>2. {i \in 1..Len(s) : s[i] = u} = {k}
    BY <1>1, <2>1 DEF OnceEach
  <2>3. k <= k
    BY <1>1
  <2>4. Min({k}) = k
    BY <2>3 DEF Min
  <2>5. SelectInSeq(s, LAMBDA v : v = u) = k
    BY <2>2, <2>4 DEF SelectInSeq
  <2> DEFINE t == SubSeq(s, 1, k - 1) \o SubSeq(s, k + 1, Len(s))
  <2>6. RemoveFirst(s, u) = t
    BY <1>2, <2>5 DEF RemoveFirst, RemoveAt
  <2>7. /\ SubSeq(s, 1, k - 1) \in Seq(Users) /\ Len(SubSeq(s, 1, k - 1)) = k - 1
        /\ \A i \in 1..(k - 1) : SubSeq(s, 1, k - 1)[i] = s[i]
    BY <1>1, <2>1
  <2>8. /\ SubSeq(s, k + 1, Len(s)) \in Seq(Users) /\ Len(SubSeq(s, k + 1, Len(s))) = Len(s) - k
        /\ \A i \in 1..(Len(s) - k) : SubSeq(s, k + 1, Len(s))[i] = s[k + i]
    BY <1>1, <2>1
  <2>9. /\ t \in Seq(Users) /\ Len(t) = Len(s) - 1
        /\ \A i \in 1..(Len(s) - 1) : t[i] = IF i < k THEN s[i] ELSE s[i + 1]
    <3> DEFINE x == SubSeq(s, 1, k - 1)
               y == SubSeq(s, k + 1, Len(s))
    <3>1. k \in Nat /\ k >= 1 /\ k <= Len(s)
      BY <1>1, <2>1
    <3>2. /\ x \in Seq(Users) /\ Len(x) = k - 1 /\ \A i \in 1..(k - 1) : x[i] = s[i]
      BY <2>7
    <3>3. /\ y \in Seq(Users) /\ Len(y) = Len(s) - k /\ \A i \in 1..(Len(s) - k) : y[i] = s[k + i]
      BY <2>8
    <3> HIDE DEF x, y
    <3>4. /\ x \o y \in Seq(Users) /\ Len(x \o y) = Len(s) - 1
      <4>1. x \in Seq(Users) /\ y \in Seq(Users)
        BY <3>2, <3>3
      <4>2. x \o y \in Seq(Users) /\ Len(x \o y) = Len(x) + Len(y)
        BY <4>1
      <4> QED
        BY <1>1, <3>1, <3>2, <3>3, <4>2
    <3>5. ASSUME NEW i \in 1..(Len(s) - 1)
          PROVE  (x \o y)[i] = IF i < k THEN s[i] ELSE s[i + 1]
      <4>1. CASE i < k
        BY <1>1, <3>1, <3>2, <3>3, <4>1
      <4>2. CASE ~(i < k)
        <5>1. (x \o y)[i] = y[i - (k - 1)] /\ i - (k - 1) \in 1..(Len(s) - k)
          BY <1>1, <3>1, <3>2, <3>3, <4>2
        <5>2. k + (i - (k - 1)) = i + 1
          BY <1>1, <3>1
        <5> QED
          BY <3>3, <4>2, <5>1, <5>2
      <4> QED
        BY <4>1, <4>2
    <3> QED
      BY <3>4, <3>5 DEF x, y
  <2> HIDE DEF t
  <2>10. OnceEach(t)
    <3> SUFFICES ASSUME NEW i \in 1..Len(t), NEW j \in 1..Len(t), t[i] = t[j] PROVE i = j
      BY DEF OnceEach
    <3>1. /\ i \in 1..(Len(s) - 1) /\ j \in 1..(Len(s) - 1)
          /\ i \in 1..Len(s) /\ j \in 1..Len(s) /\ i + 1 \in 1..Len(s) /\ j + 1 \in 1..Len(s)
      BY <1>1, <2>9
    <3>2. (IF i < k THEN i ELSE i + 1) = (IF j < k THEN j ELSE j + 1)
      BY <1>1, <2>9, <3>1 DEF OnceEach
    <3> QED
      BY <2>1, <3>1, <3>2
  <2> QED
    BY <2>6, <2>9, <2>10, ListsAre
<1>3. CASE ~\E i \in 1..Len(s) : s[i] = u
  BY <1>3 DEF RemoveFirst
<1> QED
  BY <1>2, <1>3

-------------------------------------------------------------------------------
(* Calls and their answers.                                                  *)

Ops == {"none", "user_info", "by_username", "username", "short", "list", "follow", "unfollow",
        "remove_follower", "media_info", "edit", "link", "delete", "story_delete", "story_info"}
Ats == {"idle", "private", "public", "web", "limited", "show", "create", "destroy", "edit",
        "delete", "story_delete"}
ByIdOps == {"user_info", "username", "short"}
Writes == {"show", "create", "destroy", "edit", "delete", "story_delete"}

Call == [op : Ops, user : Users \cup {NULL}, name : Names \cup {NULL}, kind : Kinds \cup {NULL},
         amount : Nat, cached : BOOLEAN, private : BOOLEAN, at : Ats]

\* What a call carries by the time a step reads it: a lookup by id the account, one by
\* name (and user_info_gql, once it knows the name) the name, a list its kind.
Carries(c) ==
  /\ c.op \in ByIdOps => c.user \in Users
  /\ area = "names" /\ c.at = "public" => c.op \in ByIdOps
  /\ c.at = "web" => c.op \in ByIdOps \cup {"by_username"}
  /\ c.op = "by_username" \/ c.at = "web" => c.name \in Names
  /\ c.op = "list" => c.kind \in Kinds
  /\ c.at \in {"show", "create", "destroy"} => c.user \in Users
  /\ c.at \in Writes => c.op \notin {"user_info", "by_username", "list"}

CallOK == call \in Call /\ Carries(call)

\* What an answer says of the call it answers; there is none while a call runs.
AnswersTheName ==
  (answer.op = "by_username" /\ ~answer.cached /\ answer.verdict # "raised") =>
    answer.who.name = answer.name /\ answer.seen[answer.who.pk] = answer.name
AnswersTheId ==
  (answer.op = "user_info" /\ ~answer.cached /\ answer.verdict # "raised") =>
    answer.who.pk = answer.user \/ shorts[answer.user] \notin {NULL, answer.seen[answer.user]}
Promised == AnswersTheName /\ AnswersTheId /\ ListsHoldTheAmount
AnswerOK ==
  /\ DOMAIN answer = DOMAIN Nothing /\ Promised
  /\ call.at # "idle" => answer.op = "none"

LEMMA IdleIsACall == Idle \in Call /\ Carries(Idle)
BY DEF Idle, Call, Carries, Ops, Ats, ByIdOps, Writes

LEMMA NothingAnswers == answer' = Nothing => AnswerOK'
BY DEF Nothing, AnswerOK, Promised, AnswersTheName, AnswersTheId, ListsHoldTheAmount

LEMMA SameAnswer ==
  ASSUME AnswerOK, answer' = answer, call'.at # "idle" => call.at # "idle",
         shorts' = shorts \/ call.at # "idle"
  PROVE  AnswerOK'
BY DEF AnswerOK, Promised, AnswersTheName, AnswersTheId, ListsHoldTheAmount

\* An answer holds what the call carried and what the step adds.
LEMMA ReturnFacts ==
  ASSUME NEW c, DOMAIN c = DOMAIN Idle, NEW r, DOMAIN r \subseteq {"who", "list", "whole", "verdict"},
         Return(c, r)
  PROVE  /\ call' = Idle /\ DOMAIN answer' = DOMAIN Nothing
         /\ answer'.op = c.op /\ answer'.name = c.name /\ answer'.amount = c.amount
         /\ answer'.cached = c.cached /\ answer'.user = c.user /\ answer'.seen = name
         /\ \A f \in DOMAIN r : answer'[f] = r[f]
         /\ "verdict" \notin DOMAIN r => answer'.verdict = "none"
         /\ "whole" \notin DOMAIN r => answer'.whole = FALSE
<1>1. /\ DOMAIN Nothing = {"op", "user", "name", "amount", "cached", "kind", "whole", "who", "list", "verdict",
                           "seen"}
      /\ DOMAIN c = {"op", "user", "name", "kind", "amount", "cached", "private", "at"}
      /\ Nothing.verdict = "none" /\ Nothing.whole = FALSE
  BY DEF Nothing, Idle
<1>2. /\ call' = Idle
      /\ answer' = [f \in DOMAIN Nothing |->
                      IF f = "seen" THEN name
                      ELSE IF f \in DOMAIN r THEN r[f] ELSE IF f \in DOMAIN c THEN c[f] ELSE Nothing[f]]
  BY DEF Return
<1>3. \A f \in DOMAIN r : answer'[f] = r[f]
  BY <1>1, <1>2
<1>4. answer'.seen = name /\ \A f \in {"op", "user", "name", "amount", "cached"} : answer'[f] = c[f]
  BY <1>1, <1>2
<1>5. \A f \in {"verdict", "whole"} : f \notin DOMAIN r => answer'[f] = Nothing[f]
  BY <1>1, <1>2
<1> QED
  BY <1>1, <1>2, <1>3, <1>4, <1>5

LEMMA Idles ==
  ASSUME call' = Idle, area' = area
  PROVE  CallOK' /\ call'.at = "idle"
BY IdleIsACall DEF CallOK, Carries, Idle, ByIdOps

\* A call that starts: it asks its first source.
LEMMA Asked ==
  ASSUME NEW c \in Call, Carries([c EXCEPT !.at = First(c)]), Ask(c), area' = area
  PROVE  CallOK' /\ AnswerOK'
<1>1. First(c) \in Ats
  BY DEF First, PublicStep, Ats
<1>2. [c EXCEPT !.at = First(c)] \in Call
  BY <1>1 DEF Call
<1> QED
  BY <1>2, NothingAnswers DEF Ask, CallOK, Carries

LEMMA Moved ==
  ASSUME CallOK, AnswerOK, NEW step \in Ats, Carries([call EXCEPT !.at = step]), GoTo(step),
         area' = area, call.at # "idle"
  PROVE  CallOK' /\ AnswerOK'
<1>1. [call EXCEPT !.at = step] \in Call
  BY DEF CallOK, Call
<1> QED
  BY <1>1, SameAnswer DEF GoTo, CallOK, Carries

\* A list is answered.
LEMMA ListReturned ==
  ASSUME NEW c, DOMAIN c = DOMAIN Idle, NEW r, DOMAIN r = {"list"}, Return(c, r)
  PROVE  /\ call' = Idle /\ DOMAIN answer' = DOMAIN Nothing
         /\ answer'.op = c.op /\ answer'.amount = c.amount /\ answer'.cached = c.cached
         /\ answer'["list"] = r["list"]
<1>1. DOMAIN r \subseteq {"who", "list", "whole", "verdict"} /\ "list" \in DOMAIN r
  OBVIOUS
<1>2. call' = Idle /\ DOMAIN answer' = DOMAIN Nothing /\ answer'.op = c.op
  BY <1>1, ReturnFacts
<1>3. answer'.amount = c.amount
  BY <1>1, ReturnFacts
<1>4. answer'.cached = c.cached
  BY <1>1, ReturnFacts
<1>5. answer'["list"] = r["list"]
  <2>1. "list" \in DOMAIN Nothing
    BY DEF Nothing
  <2> QED
    BY <1>1, <2>1 DEF Return
<1> QED
  BY <1>2, <1>3, <1>4, <1>5

\* A call that ends with an answer of which nothing is promised.
LEMMA Answered ==
  ASSUME NEW c \in Call, c.op \notin {"user_info", "by_username", "list"},
         NEW r, DOMAIN r \subseteq {"who", "list", "whole", "verdict"}, Return(c, r), area' = area
  PROVE  CallOK' /\ AnswerOK'
<1>1. DOMAIN c = DOMAIN Idle
  BY DEF Call, Idle
<1>2. call' = Idle /\ DOMAIN answer' = DOMAIN Nothing /\ answer'.op = c.op
  BY <1>1, ReturnFacts
<1>3. Promised'
  BY <1>2 DEF Promised, AnswersTheName, AnswersTheId, ListsHoldTheAmount
<1> QED
  BY <1>2, <1>3, Idles DEF AnswerOK, Nothing

LEMMA Raised ==
  ASSUME CallOK, Raise, area' = area
  PROVE  CallOK' /\ AnswerOK'
<1>1. DOMAIN call = DOMAIN Idle
  BY DEF CallOK, Call, Idle
<1> DEFINE r == [verdict |-> "raised"]
<1>2. DOMAIN r = {"verdict"} /\ r["verdict"] = "raised" /\ Return(call, r)
  BY DEF Raise
<1> HIDE DEF r
<1>3. call' = Idle /\ DOMAIN answer' = DOMAIN Nothing /\ answer'["verdict"] = "raised"
  BY <1>1, <1>2, ReturnFacts
<1>4. Promised'
  BY <1>3 DEF Promised, AnswersTheName, AnswersTheId, ListsHoldTheAmount
<1> QED
  BY <1>3, <1>4, Idles DEF AnswerOK, Nothing

\* The other source is asked, or the failure is raised.
LEMMA FellBack ==
  ASSUME CallOK, AnswerOK, FallBack, area' = area, call.at # "idle",
         area = "names" => call.op \in ByIdOps \cup {"by_username"}
  PROVE  CallOK' /\ AnswerOK' /\ (call'.at = "web" => call'.op # "user_info")
<1>1. CASE Raise
  BY <1>1, Raised DEF Raise, Return, Idle
<1>2. CASE GoTo(IF call.at = "private" THEN PublicStep(call.op) ELSE "private")
  <2> DEFINE step == IF call.at = "private" THEN PublicStep(call.op) ELSE "private"
  <2>1. step \in Ats /\ (step = "web" => call.op = "by_username") /\ step \in {"web", "public", "private"}
        /\ (call.op = "by_username" => step # "public")
    BY DEF PublicStep, Ats
  <2> HIDE DEF step
  <2>2. Carries([call EXCEPT !.at = step])
    BY <2>1 DEF CallOK, Call, Carries, ByIdOps, Writes
  <2>3. GoTo(step)
    BY <1>2 DEF step
  <2>4. call'.at = "web" => call'.op # "user_info"
    BY <2>1, <2>3 DEF GoTo, CallOK, Call
  <2> QED
    BY <2>1, <2>2, <2>3, <2>4, Moved
<1> QED
  BY <1>1, <1>2 DEF FallBack

-------------------------------------------------------------------------------
(* Names.                                                                    *)

NamesOK ==
  /\ name \in [Users -> Names] /\ \A u, v \in Users : name[u] = name[v] => u = v
  /\ users \in [Users -> User \cup {NULL}]
  /\ shorts \in [Users -> Names \cup {NULL}] /\ names \in [Names -> Users \cup {NULL}]

\* Who bears a name bore it, and so did whom the cache ties it to.
BearersOK ==
  /\ \A u \in Users : <<name[u], u>> \in bore
  /\ \A n \in Names : names[n] # NULL => <<n, names[n]>> \in bore

\* user_info_gql goes by the name in the cached short user.
WebKnows ==
  area = "names" /\ call.at = "web" /\ call.op = "user_info" => shorts[call.user] = call.name

NamesInv == NamesOK /\ BearersOK /\ CallOK /\ AnswerOK /\ WebKnows

LEMMA NotOnTheWeb ==
  ASSUME call' = Idle \/ (call'.at = "web" => call'.op # "user_info")
  PROVE  WebKnows'
BY DEF WebKnows, Idle

\* What a source finds is stored and answered: it is the account that bears the name.
LEMMA FoundFacts ==
  ASSUME NamesInv, area' = area, bore' = bore, name' = name, NEW u \in Users, Found([pk |-> u, name |-> name[u]]),
         call.op \in ByIdOps \cup {"by_username"}, call.op = "by_username" => call.name = name[u],
         call.op = "user_info" => u = call.user \/ shorts[call.user] \notin {NULL, name[call.user]},
         shorts' = shorts
  PROVE  NamesInv'
<1> DEFINE user == [pk |-> u, name |-> name[u]]
<1>1. /\ user \in User /\ user.pk = u /\ user.name = name[u] /\ name[u] \in Names
      /\ <<name[u], u>> \in bore
  BY DEF NamesInv, NamesOK, BearersOK, User
<1>2. Found(user) /\ call \in Call /\ (call.op \in ByIdOps => call.user \in Users)
  BY DEF NamesInv, CallOK, Carries
<1> HIDE DEF user
<1>3. (users \in [Users -> User \cup {NULL}])' /\ (names \in [Names -> Users \cup {NULL}])'
  <2>1. CASE call.op = "username"
    BY <1>2, <2>1 DEF Found, NamesInv, NamesOK
  <2>2. CASE call.op # "username"
    <3>1. (IF call.op = "user_info" THEN call.user ELSE user.pk) \in Users
      BY <1>1, <1>2 DEF ByIdOps
    <3> QED
      BY <1>1, <1>2, <2>2, <3>1 DEF Found, Store, NamesInv, NamesOK
  <2> QED
    BY <2>1, <2>2
<1>4. NamesOK'
  BY <1>3 DEF NamesInv, NamesOK
<1>5. BearersOK'
  <2>1. \A n \in Names : names'[n] = names[n] \/ (n = name[u] /\ names'[n] = u)
    BY <1>1, <1>2 DEF Found, Store, NamesInv, NamesOK
  <2> QED
    BY <1>1, <2>1 DEF NamesInv, BearersOK
<1>6. CASE call.op # "by_username"
  <2> DEFINE r == [who |-> user]
  <2>1. Return(call, r) /\ DOMAIN r = {"who"} /\ r["who"] = user
    BY <1>2, <1>6 DEF Found
  <2> HIDE DEF r
  <2>2. call.op # "list"
    BY DEF ByIdOps
  <2>3. CASE call.op # "user_info"
    <3>1. CallOK' /\ AnswerOK' /\ WebKnows'
      BY <1>2, <1>6, <2>1, <2>2, <2>3, Answered, NotOnTheWeb DEF Return
    <3> QED
      BY <1>4, <1>5, <3>1 DEF NamesInv
  <2>4. CASE call.op = "user_info"
    <3>1. DOMAIN call = DOMAIN Idle
      BY <1>2 DEF Call, Idle
    <3>2. call' = Idle /\ DOMAIN answer' = DOMAIN Nothing /\ answer'["who"] = user
          /\ answer'.user = call.user /\ answer'.op = "user_info" /\ answer'.seen = name
      <4>1. /\ call' = Idle /\ DOMAIN answer' = DOMAIN Nothing /\ answer'.user = call.user
            /\ answer'.op = call.op /\ answer'.seen = name
            /\ \A g \in DOMAIN r : answer'[g] = r[g]
        BY <2>1, <3>1, ReturnFacts
      <4> QED
        BY <2>1, <2>4, <4>1
    <3>3. answer'.who.pk = answer'.user \/ shorts'[answer'.user] \notin {NULL, answer'.seen[answer'.user]}
      BY <1>1, <2>4, <3>2
    <3>4. Promised'
      BY <3>2, <3>3 DEF Promised, AnswersTheName, AnswersTheId, ListsHoldTheAmount
    <3>5. CallOK' /\ AnswerOK' /\ WebKnows'
      BY <3>2, <3>4, Idles, NotOnTheWeb DEF AnswerOK
    <3> QED
      BY <1>4, <1>5, <3>5 DEF NamesInv
  <2> QED
    BY <2>3, <2>4
<1>7. CASE call.op = "by_username"
  <2>1. Store(user) /\ Return(call, [who |-> users'[names'[call.name]]])
    BY <1>2, <1>7 DEF Found
  <2>2. names'[name[u]] = u /\ users'[u] = user
    BY <1>1, <1>7, <2>1 DEF Store, NamesInv, NamesOK
  <2> DEFINE r == [who |-> users'[names'[call.name]]]
  <2>3. r["who"] = user /\ DOMAIN r = {"who"} /\ Return(call, r)
    BY <1>7, <2>1, <2>2
  <2> HIDE DEF r
  <2>4. DOMAIN call = DOMAIN Idle
    BY <1>2 DEF Call, Idle
  <2>5. call' = Idle /\ DOMAIN answer' = DOMAIN Nothing /\ answer'["who"] = user
        /\ answer'.name = call.name /\ answer'.op = "by_username" /\ answer'.seen = name
    <3>1. DOMAIN r \subseteq {"who", "list", "whole", "verdict"} /\ "who" \in DOMAIN r
      BY <2>3
    <3>2. /\ call' = Idle /\ DOMAIN answer' = DOMAIN Nothing
          /\ answer'.op = call.op /\ answer'.name = call.name /\ answer'.seen = name
          /\ \A f \in DOMAIN r : answer'[f] = r[f]
      BY <2>3, <2>4, <3>1, ReturnFacts, ZenonT(60)
    <3> QED
      BY <1>7, <2>3, <3>1, <3>2
  <2>6. Promised'
    BY <1>1, <1>7, <2>5 DEF Promised, AnswersTheName, AnswersTheId, ListsHoldTheAmount
  <2>7. CallOK' /\ AnswerOK' /\ WebKnows'
    BY <2>5, <2>6, Idles, NotOnTheWeb DEF AnswerOK, Nothing
  <2> QED
    BY <1>4, <1>5, <2>7 DEF NamesInv
<1> QED
  BY <1>6, <1>7

LEMMA SameNames ==
  ASSUME NamesOK, BearersOK, UNCHANGED <<name, nameCaches, bore>>
  PROVE  NamesOK' /\ BearersOK'
BY DEF NamesOK, BearersOK, nameCaches

\* Nothing is promised of a user that the cache answers.
LEMMA FromTheCache ==
  ASSUME NEW c, DOMAIN c = DOMAIN Idle, c.cached, c.op \in {"user_info", "by_username"},
         NEW r, DOMAIN r = {"who"}, Return(c, r), area' = area
  PROVE  CallOK' /\ AnswerOK' /\ WebKnows'
<1>1. /\ call' = Idle /\ DOMAIN answer' = DOMAIN Nothing /\ answer'.op = c.op
      /\ answer'.cached
  BY ReturnFacts
<1>2. Promised'
  BY <1>1 DEF Promised, AnswersTheName, AnswersTheId, ListsHoldTheAmount
<1> QED
  BY <1>1, <1>2, Idles, NotOnTheWeb DEF AnswerOK

LEMMA AskUserInfoKeeps ==
  ASSUME NamesInv, AskUserInfo
  PROVE  NamesInv'
<1>1. area = "names" /\ area' = area /\ UNCHANGED <<name, nameCaches, bore>>
  BY DEF AskUserInfo, NamesOnly
<1>2. NamesOK' /\ BearersOK'
  BY <1>1, SameNames DEF NamesInv
<1>3. PICK u \in Users, cached \in BOOLEAN, private \in BOOLEAN :
        LET c == [Idle EXCEPT !.op = "user_info", !.user = u, !.cached = cached, !.private = private]
        IN  IF cached /\ users[u] # NULL THEN Return(c, [who |-> users[u]]) ELSE Ask(c)
  BY DEF AskUserInfo
<1> DEFINE c == [Idle EXCEPT !.op = "user_info", !.user = u, !.cached = cached, !.private = private]
           r == [who |-> users[u]]
<1>4. /\ c \in Call /\ c.op = "user_info" /\ c.cached = cached /\ DOMAIN c = DOMAIN Idle
      /\ Carries([c EXCEPT !.at = First(c)]) /\ First(c) # "web"
  BY DEF Idle, Call, Carries, Ops, Ats, ByIdOps, Writes, First, PublicStep
<1>5. (cached /\ Return(c, r)) \/ Ask(c)
  BY <1>3
<1>6. DOMAIN r = {"who"}
  OBVIOUS
<1> HIDE DEF c, r
<1>7. CASE Ask(c)
  <2>1. WebKnows'
    BY <1>4, <1>7, NotOnTheWeb DEF Ask, Call
  <2> QED
    BY <1>1, <1>2, <1>4, <1>7, <2>1, Asked DEF NamesInv
<1>8. CASE cached /\ Return(c, r)
  BY <1>1, <1>2, <1>4, <1>6, <1>8, FromTheCache DEF NamesInv
<1> QED
  BY <1>5, <1>7, <1>8

\* What the cache answers by name is not what NamesLeadToTheirBearers speaks of.
LEMMA AskUserInfoByUsernameKeeps ==
  ASSUME NamesInv, AskUserInfoByUsername
  PROVE  NamesInv'
<1>1. area = "names" /\ area' = area /\ UNCHANGED <<name, nameCaches, bore>>
  BY DEF AskUserInfoByUsername, NamesOnly
<1>2. NamesOK' /\ BearersOK'
  BY <1>1, SameNames DEF NamesInv
<1>3. PICK n \in Names, cached \in BOOLEAN, private \in BOOLEAN :
        LET c == [Idle EXCEPT !.op = "by_username", !.name = n, !.cached = cached, !.private = private]
            known == [c EXCEPT !.op = "user_info", !.user = names[n], !.name = NULL]
        IN  IF ~cached \/ names[n] = NULL THEN Ask(c)
            ELSE IF users[names[n]] # NULL THEN Return(c, [who |-> users[names[n]]])
            ELSE Ask(known)
  BY DEF AskUserInfoByUsername
<1> DEFINE c == [Idle EXCEPT !.op = "by_username", !.name = n, !.cached = cached, !.private = private]
           known == [c EXCEPT !.op = "user_info", !.user = names[n], !.name = NULL]
           r == [who |-> users[names[n]]]
<1>4. c \in Call /\ c.op = "by_username" /\ c.cached = cached /\ Carries([c EXCEPT !.at = First(c)])
  BY DEF Idle, Call, Carries, Ops, Ats, ByIdOps, Writes, First, PublicStep
<1>5. names[n] # NULL => /\ known \in Call /\ Carries([known EXCEPT !.at = First(known)])
                         /\ known.op = "user_info" /\ First(known) # "web"
  BY DEF Idle, Call, Carries, Ops, Ats, ByIdOps, Writes, First, PublicStep, NamesInv, NamesOK
<1>6. Ask(c) \/ (names[n] # NULL /\ Ask(known)) \/ (cached /\ Return(c, r))
  BY <1>3
<1>7. DOMAIN r = {"who"} /\ DOMAIN c = DOMAIN Idle
  BY DEF Idle
<1> HIDE DEF c, known, r
<1>8. CASE Ask(c) \/ (names[n] # NULL /\ Ask(known))
  <2>1. WebKnows'
    BY <1>4, <1>5, <1>8, NotOnTheWeb DEF Ask, Call
  <2> QED
    BY <1>1, <1>2, <1>4, <1>5, <1>8, <2>1, Asked DEF NamesInv
<1>9. CASE cached /\ Return(c, r)
  BY <1>1, <1>2, <1>4, <1>7, <1>9, FromTheCache DEF NamesInv
<1> QED
  BY <1>6, <1>8, <1>9

LEMMA AskUsernameKeeps ==
  ASSUME NamesInv, AskUsername \/ AskUserShort
  PROVE  NamesInv'
<1>1. area = "names" /\ area' = area /\ UNCHANGED <<name, nameCaches, bore>>
  BY DEF AskUsername, AskUserShort, NamesOnly
<1>2. NamesOK' /\ BearersOK'
  BY <1>1, SameNames DEF NamesInv
<1>3. CASE AskUsername
  <2>1. PICK u \in Users, private \in BOOLEAN :
          Ask([Idle EXCEPT !.op = "username", !.user = u, !.private = private])
    BY <1>3 DEF AskUsername
  <2> DEFINE c == [Idle EXCEPT !.op = "username", !.user = u, !.private = private]
  <2>2. c \in Call /\ Carries([c EXCEPT !.at = First(c)]) /\ Ask(c) /\ First(c) # "web"
    BY <2>1 DEF Idle, Call, Carries, Ops, Ats, ByIdOps, Writes, First, PublicStep
  <2> HIDE DEF c
  <2>3. WebKnows'
    BY <2>2, NotOnTheWeb DEF Ask, Call
  <2> QED
    BY <1>1, <1>2, <2>2, <2>3, Asked DEF NamesInv
<1>4. CASE AskUserShort
  <2>1. CallOK'
    <3>1. PICK u \in Users, cached \in BOOLEAN, private \in BOOLEAN :
            call' = [Idle EXCEPT !.op = "short", !.user = u, !.cached = cached,
                                 !.private = private, !.at = "public"]
      BY <1>4 DEF AskUserShort
    <3>2. call' \in Call
      BY <3>1 DEF Idle, Call, Ops, Ats
    <3>3. Carries(call')
      BY <3>1 DEF Idle, Carries, ByIdOps, Writes
    <3> QED
      BY <1>1, <3>2, <3>3 DEF CallOK, Carries
  <2>2. AnswerOK'
    BY <1>4, NothingAnswers DEF AskUserShort
  <2>3. WebKnows'
    BY <1>4, NotOnTheWeb DEF AskUserShort, Idle
  <2> QED
    BY <1>2, <2>1, <2>2, <2>3 DEF NamesInv
<1> QED
  BY <1>3, <1>4

LEMMA UserInfoV1Keeps ==
  ASSUME NamesInv, UserInfoV1
  PROVE  NamesInv'
<1>1. /\ area = "names" /\ UNCHANGED <<area, name, shorts, bore>>
      /\ call.op \in ByIdOps /\ call.op # "by_username" /\ call.user \in Users /\ call.at # "idle"
  BY DEF UserInfoV1, NamesOnly, NamesInv, CallOK, Carries, ByIdOps, Writes
<1>2. CASE Found([pk |-> call.user, name |-> name[call.user]])
  BY <1>1, <1>2, FoundFacts
<1>3. CASE FallBack /\ UNCHANGED <<users, names>>
  BY <1>1, <1>3, FellBack, SameNames, NotOnTheWeb DEF NamesInv, nameCaches
<1> QED
  BY <1>2, <1>3 DEF UserInfoV1

LEMMA ByNameKeeps ==
  ASSUME NamesInv, UserInfoByUsernameV1 \/ UserInfoByUsernameGql
  PROVE  NamesInv'
<1>1. /\ area = "names" /\ UNCHANGED <<area, name, shorts, bore>>
      /\ call.op \in ByIdOps \cup {"by_username"} /\ ByName /\ call.at # "idle"
  BY DEF UserInfoByUsernameV1, UserInfoByUsernameGql, NamesOnly, NamesInv, CallOK, Carries
<1>2. ASSUME NEW u \in Users, name[u] = call.name, Found([pk |-> u, name |-> call.name])
      PROVE  NamesInv'
  <2>1. ASSUME call.op = "user_info", u # call.user
        PROVE  shorts[call.user] \notin {NULL, name[call.user]}
    <3>1. call.at = "web" /\ call.user \in Users
      BY <1>1, <2>1 DEF UserInfoByUsernameV1, UserInfoByUsernameGql, NamesInv, CallOK, Carries, ByIdOps
    <3>2. shorts[call.user] = name[u]
      BY <1>1, <1>2, <2>1, <3>1 DEF NamesInv, WebKnows
    <3>3. name[u] \in Names /\ name[u] # name[call.user]
      BY <2>1, <3>1 DEF NamesInv, NamesOK
    <3> QED
      BY <3>2, <3>3, CachesAssumption
  <2> QED
    BY <1>1, <1>2, <2>1, FoundFacts
<1>3. CASE FallBack /\ UNCHANGED <<users, names>>
  BY <1>1, <1>3, FellBack, SameNames, NotOnTheWeb DEF NamesInv, nameCaches
<1> QED
  BY <1>1, <1>2, <1>3 DEF ByName

\* A short user is answered, or the lookup goes on by its name.
LEMMA ShortFacts ==
  ASSUME NamesInv, area = "names", area' = area, call.at = "public",
         NEW n \in Names, Short(n), shorts'[call.user] = n
  PROVE  CallOK' /\ AnswerOK' /\ WebKnows'
<1>1. call \in Call /\ call.op \in ByIdOps /\ call.user \in Users
  BY DEF NamesInv, CallOK, Carries
<1>2. CASE call.op = "user_info"
  <2>1. call' = [call EXCEPT !.at = "web", !.name = n] /\ answer' = answer
    BY <1>2 DEF Short
  <2>2. CallOK'
    BY <1>1, <1>2, <2>1 DEF CallOK, Call, Carries, Ats, ByIdOps, Writes
  <2>3. WebKnows'
    BY <1>1, <2>1 DEF WebKnows, Call
  <2> QED
    BY <2>1, <2>2, <2>3, SameAnswer DEF NamesInv
<1>3. CASE call.op # "user_info"
  <2> DEFINE r == [who |-> [pk |-> call.user, name |-> n]]
  <2>1. Return(call, r) /\ DOMAIN r = {"who"}
    BY <1>3 DEF Short
  <2> HIDE DEF r
  <2>2. call.op \notin {"user_info", "by_username", "list"}
    BY <1>1, <1>3 DEF ByIdOps
  <2>3. WebKnows'
    BY <2>1, NotOnTheWeb DEF Return
  <2> QED
    BY <1>1, <2>1, <2>2, <2>3, Answered
<1> QED
  BY <1>2, <1>3

LEMMA UserShortGqlKeeps ==
  ASSUME NamesInv, UserShortGql
  PROVE  NamesInv'
<1>1. /\ area = "names" /\ UNCHANGED <<area, name, users, names, bore>> /\ call.at = "public"
      /\ call.op \in ByIdOps /\ call.user \in Users /\ call.at # "idle"
  BY DEF UserShortGql, NamesOnly, NamesInv, CallOK, Carries
<1>2. CASE ShortIsCached /\ Short(shorts[call.user]) /\ UNCHANGED shorts
  <2>1. shorts[call.user] \in Names
    BY <1>1, <1>2 DEF ShortIsCached, NamesInv, NamesOK
  <2> QED
    BY <1>1, <1>2, <2>1, ShortFacts, SameNames DEF NamesInv, nameCaches
<1>3. CASE WebProfile
  <2>1. name[call.user] \in Names
    BY <1>1 DEF NamesInv, NamesOK
  <2>2. CallOK' /\ AnswerOK' /\ WebKnows'
    <3>1. shorts'[call.user] = name[call.user]
      BY <1>1, <1>3 DEF WebProfile, NamesInv, NamesOK
    <3> QED
      BY <1>1, <1>3, <2>1, <3>1, ShortFacts DEF WebProfile
  <2>3. NamesOK' /\ BearersOK'
    BY <1>1, <1>3, <2>1 DEF WebProfile, NamesInv, NamesOK, BearersOK
  <2> QED
    BY <2>2, <2>3 DEF NamesInv
<1>4. CASE FallBack /\ UNCHANGED shorts
  BY <1>1, <1>4, FellBack, SameNames, NotOnTheWeb DEF NamesInv, nameCaches
<1> QED
  BY <1>2, <1>3, <1>4 DEF UserShortGql

LEMMA RenameKeeps ==
  ASSUME NamesInv, Rename
  PROVE  NamesInv'
<1>1. PICK u \in Users, n \in Names :
        Free(n) /\ name' = [name EXCEPT ![u] = n] /\ bore' = bore \cup {<<n, u>>}
  BY DEF Rename
<1>2. area' = area /\ UNCHANGED <<users, shorts, names, call, answer>>
  BY DEF Rename, NamesOnly, nameCaches
<1>3. NamesOK'
  BY <1>1, <1>2 DEF NamesInv, NamesOK, Free
<1>4. BearersOK'
  BY <1>1, <1>2 DEF NamesInv, NamesOK, BearersOK
<1>5. CallOK' /\ AnswerOK' /\ WebKnows'
  BY <1>1, <1>2, SameAnswer DEF NamesInv, CallOK, Carries, WebKnows
<1> QED
  BY <1>3, <1>4, <1>5 DEF NamesInv

NamesNext ==
  \/ AskUserInfo \/ AskUserInfoByUsername \/ AskUsername \/ AskUserShort
  \/ UserInfoV1 \/ UserInfoByUsernameV1 \/ UserInfoByUsernameGql \/ UserShortGql \/ Rename

LEMMA NamesKeep == NamesInv /\ NamesNext => NamesInv'
BY AskUserInfoKeeps, AskUserInfoByUsernameKeeps, AskUsernameKeeps, UserInfoV1Keeps, ByNameKeeps,
   UserShortGqlKeeps, RenameKeeps DEF NamesNext

-------------------------------------------------------------------------------
(* The follow lists.                                                         *)

ListsOK ==
  /\ served \in [Kinds -> Lists] /\ lists \in [Kinds -> Lists \cup {NULL}]
  /\ requested \subseteq Users /\ mine \subseteq Users

ListsInv == ListsOK /\ FollowsAreRemembered /\ CallOK /\ AnswerOK

LEMMA NotNames ==
  ASSUME area \in Kinds
  PROVE  area # "names"
BY DEF Kinds

LEMMA SameLists ==
  ASSUME ListsOK, FollowsAreRemembered, UNCHANGED <<served, requested, lists, mine>>
  PROVE  ListsOK' /\ FollowsAreRemembered'
BY DEF ListsOK, FollowsAreRemembered

\* What the cache answers holds the amount.
LEMMA AskListKeeps ==
  ASSUME ListsInv, AskList
  PROVE  ListsInv'
<1>1. area \in Kinds /\ area' = area /\ UNCHANGED <<served, requested, lists, mine>>
  BY DEF AskList, ListsOnly
<1>2. ListsOK' /\ FollowsAreRemembered'
  BY <1>1, SameLists DEF ListsInv
<1>3. PICK amount \in Amounts, cached \in BOOLEAN, private \in BOOLEAN :
        LET c == [Idle EXCEPT !.op = "list", !.kind = area, !.amount = amount,
                              !.cached = cached, !.private = private]
        IN  IF CacheServes(c) THEN Return(c, [list |-> Cut(lists[area], amount)]) ELSE Ask(c)
  BY DEF AskList
<1> DEFINE c == [Idle EXCEPT !.op = "list", !.kind = area, !.amount = amount,
                             !.cached = cached, !.private = private]
           r == [list |-> Cut(lists[area], amount)]
<1>4. amount \in Nat
  BY CachesAssumption
<1>5. c \in Call /\ c.op = "list" /\ c.kind = area /\ c.amount = amount /\ c.cached = cached
  BY <1>1, <1>4 DEF Idle, Call, Ops, Ats
<1>6. Carries([c EXCEPT !.at = First(c)])
  BY <1>1, NotNames DEF Idle, Carries, Ats, ByIdOps, Writes, First, PublicStep
<1>7. (CacheServes(c) /\ Return(c, r)) \/ Ask(c)
  BY <1>3
<1>8. DOMAIN r = {"list"} /\ r["list"] = Cut(lists[area], amount) /\ DOMAIN c = DOMAIN Idle
  BY DEF Idle
<1> HIDE DEF c, r
<1>9. CASE Ask(c)
  BY <1>1, <1>2, <1>5, <1>6, <1>9, Asked DEF ListsInv
<1>10. CASE CacheServes(c) /\ Return(c, r)
  <2>1. /\ lists[area] \in Lists
        /\ cached /\ (amount = 0 \/ Len(lists[area]) >= amount)
    BY <1>1, <1>5, <1>10 DEF CacheServes, ListsInv, ListsOK
  <2>2. /\ call' = Idle /\ DOMAIN answer' = DOMAIN Nothing /\ answer'.op = "list"
        /\ answer'.amount = amount /\ answer'.cached /\ answer'["list"] = Cut(lists[area], amount)
    <3>1. Return(c, r) /\ DOMAIN c = DOMAIN Idle /\ DOMAIN r = {"list"}
      BY <1>8, <1>10
    <3>2. /\ call' = Idle /\ DOMAIN answer' = DOMAIN Nothing /\ answer'.op = c.op
          /\ answer'.amount = c.amount /\ answer'.cached = c.cached
          /\ answer'["list"] = r["list"]
      BY <3>1, ListReturned
    <3> QED
      BY <1>5, <1>8, <2>1, <3>2
  <2>3. amount = 0 \/ Len(Cut(lists[area], amount)) = amount
    BY <1>4, <2>1, CutFacts, ListsAre
  <2>4. Promised'
    BY <1>4, <2>2, <2>3 DEF Promised, AnswersTheName, AnswersTheId, ListsHoldTheAmount
  <2> QED
    BY <1>1, <1>2, <2>2, <2>4, Idles DEF ListsInv, AnswerOK, Nothing
<1> QED
  BY <1>7, <1>9, <1>10

\* A fetched list that is whole, or long enough, is stored and answered.
LEMMA StoreListFacts ==
  ASSUME ListsInv, UNCHANGED <<area, served, requested>>, call.op = "list",
         NEW list \in Lists, StoreList(list),
         \/ list = served[call.kind]
         \/ call.amount > 0 /\ Len(list) >= call.amount
  PROVE  ListsInv'
<1>1. call \in Call /\ call.kind \in Kinds /\ call.amount \in Nat /\ DOMAIN call = DOMAIN Idle
  BY DEF ListsInv, CallOK, Carries, Call, Idle
<1>2. ListsOK'
  BY <1>1 DEF StoreList, ListsInv, ListsOK
<1>3. FollowsAreRemembered'
  BY <1>1 DEF StoreList, ListsInv, ListsOK, FollowsAreRemembered, Kinds
<1> DEFINE r == [list |-> Cut(list, call.amount), whole |-> list = served[call.kind]]
<1>4. /\ DOMAIN r = {"list", "whole"} /\ Return(call, r)
      /\ r["list"] = Cut(list, call.amount) /\ r["whole"] = (list = served[call.kind])
  BY DEF StoreList
<1> HIDE DEF r
<1>5. /\ call' = Idle /\ DOMAIN answer' = DOMAIN Nothing /\ answer'.op = "list"
      /\ answer'.amount = call.amount /\ answer'["list"] = Cut(list, call.amount)
      /\ list = served[call.kind] => answer'["whole"]
  <2>1. /\ call' = Idle /\ DOMAIN answer' = DOMAIN Nothing /\ answer'.op = call.op
        /\ answer'.amount = call.amount
        /\ \A f \in DOMAIN r : answer'[f] = r[f]
    BY <1>1, <1>4, ReturnFacts
  <2>2. answer'["list"] = r["list"] /\ answer'["whole"] = r["whole"]
    BY <1>4, <2>1
  <2> QED
    BY <1>4, <2>1, <2>2
<1>6. call.amount > 0 /\ Len(list) >= call.amount => Len(Cut(list, call.amount)) = call.amount
  <2>1. Len(list) \in Nat
    BY ListsAre
  <2>2. /\ Len(list) <= call.amount => Cut(list, call.amount) = list
        /\ call.amount # 0 /\ Len(list) > call.amount => Len(Cut(list, call.amount)) = call.amount
    BY <1>1, CutFacts
  <2> QED
    BY <1>1, <2>1, <2>2
<1>7. Promised'
  BY <1>5, <1>6 DEF Promised, AnswersTheName, AnswersTheId, ListsHoldTheAmount
<1> QED
  BY <1>2, <1>3, <1>5, <1>7, Idles DEF ListsInv, AnswerOK, Nothing

\* What a source shows is whole, or as long as was asked.
LEMMA ShownIsEnough ==
  ASSUME ListsInv, call.op = "list"
  PROVE  LET list == Cut(served[call.kind], call.amount)
         IN  list \in Lists /\ (list = served[call.kind] \/ (call.amount > 0 /\ Len(list) >= call.amount))
<1> DEFINE s == served[call.kind]
<1>1. call.amount \in Nat /\ s \in Lists
  BY DEF ListsInv, ListsOK, CallOK, Call, Carries
<1> HIDE DEF s
<1>2. /\ Cut(s, call.amount) \in Lists
      /\ call.amount = 0 \/ Len(s) <= call.amount => Cut(s, call.amount) = s
      /\ call.amount # 0 /\ Len(s) > call.amount => Len(Cut(s, call.amount)) = call.amount
  BY <1>1, CutFacts
<1>3. Len(s) \in Nat
  BY <1>1, ListsAre
<1>4. Cut(s, call.amount) = s \/ (call.amount > 0 /\ Len(Cut(s, call.amount)) >= call.amount)
  <2>1. CASE call.amount = 0 \/ Len(s) <= call.amount
    BY <1>2, <2>1
  <2>2. CASE call.amount > 0 /\ Len(s) > call.amount
    <3>1. Len(Cut(s, call.amount)) = call.amount
      BY <1>2, <2>2
    <3>2. call.amount >= call.amount
      BY <1>1
    <3> QED
      BY <2>2, <3>1, <3>2
  <2> QED
    BY <1>1, <1>3, <2>1, <2>2
<1> QED
  BY <1>2, <1>4 DEF s

LEMMA PrivateListKeeps ==
  ASSUME ListsInv, PrivateList
  PROVE  ListsInv'
<1>1. /\ area \in Kinds /\ area # "names" /\ UNCHANGED <<area, served, requested>>
      /\ call.op = "list" /\ call.at # "idle" /\ call \in Call /\ call.amount \in Nat /\ Limited \in Nat
  BY NotNames, CachesAssumption DEF PrivateList, ListsOnly, ListsInv, CallOK, Call
<1> DEFINE list == Cut(served[call.kind], call.amount)
           short == Cut(list, Limited)
<1>2. list \in Lists /\ (list = served[call.kind] \/ (call.amount > 0 /\ Len(list) >= call.amount))
  BY <1>1, ShownIsEnough
<1>3. short \in Lists
  BY <1>1, <1>2, CutFacts
<1>4. \/ StoreList(list)
      \/ GoTo("limited") /\ UNCHANGED <<lists, mine>>
      \/ ~(call.amount = 0 \/ Len(short) < call.amount) /\ StoreList(short)
      \/ FallBack /\ UNCHANGED <<lists, mine>>
  BY DEF PrivateList
<1> HIDE DEF list, short
<1>5. CASE StoreList(list)
  BY <1>1, <1>2, <1>5, StoreListFacts
<1>6. CASE GoTo("limited") /\ UNCHANGED <<lists, mine>>
  <2>1. Carries([call EXCEPT !.at = "limited"])
    BY <1>1 DEF ListsInv, CallOK, Carries, Call, ByIdOps, Writes
  <2>2. "limited" \in Ats
    BY DEF Ats
  <2> QED
    BY <1>1, <1>6, <2>1, <2>2, Moved, SameLists DEF ListsInv
<1>7. CASE ~(call.amount = 0 \/ Len(short) < call.amount) /\ StoreList(short)
  <2>1. call.amount > 0 /\ Len(short) >= call.amount
    BY <1>1, <1>3, <1>7, ListsAre
  <2> QED
    BY <1>1, <1>3, <1>7, <2>1, StoreListFacts
<1>8. CASE FallBack /\ UNCHANGED <<lists, mine>>
  BY <1>1, <1>8, FellBack, SameLists DEF ListsInv
<1> QED
  BY <1>4, <1>5, <1>6, <1>7, <1>8

LEMMA PublicListKeeps ==
  ASSUME ListsInv, PublicList
  PROVE  ListsInv'
<1>1. /\ area \in Kinds /\ area # "names" /\ UNCHANGED <<area, served, requested>>
      /\ call.op = "list" /\ call.at # "idle" /\ call \in Call
  BY NotNames DEF PublicList, ListsOnly, ListsInv, CallOK
<1>2. CASE StoreList(Cut(served[call.kind], call.amount))
  BY <1>1, <1>2, ShownIsEnough, StoreListFacts
<1>3. CASE GoTo("public") /\ UNCHANGED <<lists, mine>>
  <2>1. Carries([call EXCEPT !.at = "public"])
    BY <1>1 DEF ListsInv, CallOK, Carries, Call, ByIdOps, Writes
  <2>2. "public" \in Ats
    BY DEF Ats
  <2> QED
    BY <1>1, <1>3, <2>1, <2>2, Moved, SameLists DEF ListsInv
<1>4. CASE FallBack /\ UNCHANGED <<lists, mine>>
  BY <1>1, <1>4, FellBack, SameLists DEF ListsInv
<1> QED
  BY <1>2, <1>3, <1>4 DEF PublicList

LEMMA AskFollowKeeps ==
  ASSUME ListsInv, AskFollow
  PROVE  ListsInv'
<1>1. /\ area \in Kinds /\ area # "names" /\ UNCHANGED <<area, served, requested, lists, mine>>
  BY NotNames DEF AskFollow, ListsOnly
<1>2. ListsOK' /\ FollowsAreRemembered'
  BY <1>1, SameLists DEF ListsInv
<1>3. PICK u \in Users :
        LET c == [Idle EXCEPT !.op = "follow", !.user = u]
        IN  IF lists["following"] # NULL /\ u \in ToSet(lists["following"])
            THEN Return(c, [verdict |-> "already followed"])
            ELSE call' = [c EXCEPT !.at = "show"] /\ answer' = Nothing
  BY DEF AskFollow
<1> DEFINE c == [Idle EXCEPT !.op = "follow", !.user = u]
           r == [verdict |-> "already followed"]
<1>4. c \in Call /\ c.op = "follow"
  BY DEF Idle, Call, Ops, Ats
<1>5. [c EXCEPT !.at = "show"] \in Call /\ Carries([c EXCEPT !.at = "show"])
  BY <1>1 DEF Idle, Call, Carries, Ops, Ats, ByIdOps, Writes
<1>6. DOMAIN r = {"verdict"}
  OBVIOUS
<1>7. Return(c, r) \/ (call' = [c EXCEPT !.at = "show"] /\ answer' = Nothing)
  BY <1>3
<1> HIDE DEF c, r
<1>8. CASE Return(c, r)
  BY <1>1, <1>2, <1>4, <1>6, <1>8, Answered DEF ListsInv
<1>9. CASE call' = [c EXCEPT !.at = "show"] /\ answer' = Nothing
  BY <1>1, <1>2, <1>5, <1>9, NothingAnswers DEF ListsInv, CallOK, Carries
<1> QED
  BY <1>7, <1>8, <1>9

\* A write ends, whatever Instagram's answer says.
LEMMA WriteEnds ==
  ASSUME CallOK, call.at \in Writes, NEW verdict, Return(call, [verdict |-> verdict]), area' = area
  PROVE  CallOK' /\ AnswerOK'
<1> DEFINE r == [verdict |-> verdict]
<1>1. DOMAIN r = {"verdict"} /\ Return(call, r)
  OBVIOUS
<1> HIDE DEF r
<1> QED
  BY <1>1, Answered DEF CallOK, Carries

LEMMA UserFriendshipV1Keeps ==
  ASSUME ListsInv, UserFriendshipV1
  PROVE  ListsInv'
<1>1. /\ area \in Kinds /\ area # "names" /\ UNCHANGED <<area, served, requested, lists, mine>>
      /\ call.at = "show" /\ call.at \in Writes
  BY NotNames DEF UserFriendshipV1, ListsOnly, Writes
<1>2. ListsOK' /\ FollowsAreRemembered'
  BY <1>1, SameLists DEF ListsInv
<1>3. CASE Return(call, [verdict |-> "false"])
  BY <1>1, <1>2, <1>3, WriteEnds DEF ListsInv
<1>4. CASE GoTo("create")
  <2>1. Carries([call EXCEPT !.at = "create"]) /\ "create" \in Ats
    BY <1>1 DEF ListsInv, CallOK, Carries, Call, Ats, ByIdOps, Writes
  <2> QED
    BY <1>1, <1>2, <1>4, <2>1, Moved DEF ListsInv
<1> QED
  BY <1>3, <1>4 DEF UserFriendshipV1

\* The server's lists after a follow, and after an account is taken off.
LEMMA FollowedFacts ==
  ASSUME ListsOK, call.user \in Users, NowFollowed
  PROVE  (served \in [Kinds -> Lists])'
<1>1. served["following"] \in Lists /\ "following" \in Kinds
  BY DEF ListsOK, Kinds
<1>2. CASE call.user \in ToSet(served["following"])
  BY <1>1, <1>2 DEF NowFollowed, ListsOK
<1>3. CASE call.user \notin ToSet(served["following"])
  BY <1>1, <1>3, PrependFacts DEF NowFollowed, ListsOK
<1> QED
  BY <1>2, <1>3

LEMMA DroppedFacts ==
  ASSUME ListsOK, NEW kind \in Kinds, DropFrom(kind)
  PROVE  (served \in [Kinds -> Lists])'
BY RemoveFacts DEF DropFrom, ListsOK

\* What is remembered of a follow is in the cached list.
LEMMA RememberFacts ==
  ASSUME ListsOK, FollowsAreRemembered, call.user \in Users, Remember, mine' = mine \cup {call.user}
  PROVE  /\ (lists \in [Kinds -> Lists \cup {NULL}])' /\ (mine \subseteq Users)'
         /\ FollowsAreRemembered'
<1>1. CASE lists["following"] = NULL
  BY <1>1 DEF Remember, ListsOK, FollowsAreRemembered
<1>2. CASE lists["following"] # NULL
  <2> DEFINE s == lists["following"]
  <2>1. s \in Lists /\ "following" \in Kinds /\ mine \subseteq ToSet(s)
    BY <1>2 DEF ListsOK, Kinds, FollowsAreRemembered
  <2>2. lists' = [lists EXCEPT !["following"] = IF call.user \in ToSet(s) THEN s ELSE Append(s, call.user)]
    BY <1>2 DEF Remember
  <2> HIDE DEF s
  <2>3. CASE call.user \in ToSet(s)
    BY <2>1, <2>2, <2>3 DEF ListsOK, FollowsAreRemembered
  <2>4. CASE call.user \notin ToSet(s)
    <3>1. Append(s, call.user) \in Lists /\ ToSet(Append(s, call.user)) = ToSet(s) \cup {call.user}
      BY <2>1, <2>4, AppendFacts
    <3> QED
      BY <2>1, <2>2, <2>4, <3>1 DEF ListsOK, FollowsAreRemembered
  <2> QED
    BY <2>3, <2>4
<1> QED
  BY <1>1, <1>2

LEMMA UserFollowKeeps ==
  ASSUME ListsInv, UserFollow
  PROVE  ListsInv'
<1>1. /\ area \in Kinds /\ UNCHANGED <<area>> /\ call.at = "create" /\ call.at \in Writes
      /\ call.user \in Users
  BY DEF UserFollow, ListsOnly, ListsInv, CallOK, Carries, Writes
<1>2. /\ \E v \in {"true", "false", "raised"} : Return(call, [verdict |-> v])
      /\ \/ /\ (NowFollowed /\ requested' = requested \ {call.user}) \/
              (requested' = requested \cup {call.user} /\ UNCHANGED served)
            /\ Remember /\ mine' = mine \cup {call.user}
         \/ UNCHANGED <<served, requested, lists, mine>>
         \/ NowFollowed /\ UNCHANGED <<requested, lists, mine>>
  BY DEF UserFollow, Raise
<1>3. CallOK' /\ AnswerOK'
  BY <1>1, <1>2, WriteEnds DEF ListsInv
<1>4. (served \in [Kinds -> Lists])' /\ (requested \subseteq Users)'
  BY <1>1, <1>2, FollowedFacts DEF ListsInv, ListsOK
<1>5. /\ (lists \in [Kinds -> Lists \cup {NULL}])' /\ (mine \subseteq Users)'
      /\ FollowsAreRemembered'
  BY <1>1, <1>2, RememberFacts DEF ListsInv, ListsOK, FollowsAreRemembered
<1> QED
  BY <1>3, <1>4, <1>5 DEF ListsInv, ListsOK

LEMMA AskRemovalKeeps ==
  ASSUME ListsInv, AskRemoval
  PROVE  ListsInv'
<1>1. /\ area \in Kinds /\ area # "names" /\ UNCHANGED <<area, served, requested, lists, mine>>
  BY NotNames DEF AskRemoval, ListsOnly
<1>2. ListsOK' /\ FollowsAreRemembered'
  BY <1>1, SameLists DEF ListsInv
<1>3. PICK u \in Users :
        call' = [Idle EXCEPT !.op = IF area = "following" THEN "unfollow" ELSE "remove_follower",
                             !.user = u, !.at = "destroy"]
  BY DEF AskRemoval
<1>4. call' \in Call
  BY <1>3 DEF Idle, Call, Ops, Ats
<1>5. Carries(call')
  BY <1>1, <1>3 DEF Idle, Carries, ByIdOps, Writes
<1>6. AnswerOK'
  BY NothingAnswers DEF AskRemoval
<1> QED
  BY <1>1, <1>2, <1>4, <1>5, <1>6 DEF ListsInv, CallOK, Carries

LEMMA RemovalKeeps ==
  ASSUME ListsInv, UserUnfollow \/ UserRemoveFollower
  PROVE  ListsInv'
<1>1. /\ area \in Kinds /\ UNCHANGED <<area, lists>> /\ call.at \in Writes
  BY DEF UserUnfollow, UserRemoveFollower, ListsOnly, Writes
<1>2. /\ \E v \in {"true", "false", "raised"} : Return(call, [verdict |-> v])
      /\ served' = served \/ (\E kind \in Kinds : DropFrom(kind))
      /\ requested' \subseteq requested /\ mine' \subseteq mine
  BY DEF UserUnfollow, UserRemoveFollower, Raise, Kinds
<1>3. CallOK' /\ AnswerOK'
  BY <1>1, <1>2, WriteEnds DEF ListsInv
<1>4. ListsOK'
  BY <1>1, <1>2, DroppedFacts DEF ListsInv, ListsOK
<1>5. FollowsAreRemembered'
  BY <1>1, <1>2 DEF ListsInv, FollowsAreRemembered
<1> QED
  BY <1>3, <1>4, <1>5 DEF ListsInv

LEMMA ListsChangeKeeps ==
  ASSUME ListsInv, ListsChange
  PROVE  ListsInv'
<1>1. /\ area \in Kinds /\ UNCHANGED <<area, lists, call, answer, mine, shorts>>
  BY DEF ListsChange, ListsOnly, nameCaches
<1>2. PICK u \in Users :
        /\ served' = [served EXCEPT ![area] = IF u \in ToSet(@) THEN RemoveFirst(@, u) ELSE <<u>> \o @]
        /\ requested' = IF area = "following" THEN requested \ {u} ELSE requested
  BY DEF ListsChange
<1>3. served[area] \in Lists
  BY <1>1 DEF ListsInv, ListsOK
<1>4. (IF u \in ToSet(served[area]) THEN RemoveFirst(served[area], u) ELSE <<u>> \o served[area]) \in Lists
  BY <1>3, RemoveFacts, PrependFacts
<1>5. (served \in [Kinds -> Lists])' /\ (requested \subseteq Users)'
  BY <1>1, <1>2, <1>4 DEF ListsInv, ListsOK
<1>6. CallOK' /\ AnswerOK'
  BY <1>1, SameAnswer DEF ListsInv, CallOK, Carries
<1> QED
  BY <1>1, <1>5, <1>6 DEF ListsInv, ListsOK, FollowsAreRemembered

ListsNext ==
  \/ AskList \/ PrivateList \/ PublicList \/ ListsChange
  \/ AskFollow \/ UserFriendshipV1 \/ UserFollow
  \/ AskRemoval \/ UserUnfollow \/ UserRemoveFollower

LEMMA ListsKeep == ListsInv /\ ListsNext => ListsInv'
BY AskListKeeps, PrivateListKeeps, PublicListKeeps, ListsChangeKeeps, AskFollowKeeps,
   UserFriendshipV1Keeps, UserFollowKeeps, AskRemovalKeeps, RemovalKeeps DEF ListsNext

-------------------------------------------------------------------------------
(* The own media and the own story.                                          *)

MediasOK ==
  /\ media \in Gone..MaxChanges /\ medias \in {NULL} \cup 0..MaxChanges
  /\ story \in BOOLEAN /\ stories \in [Spellings -> {NULL, "up"}]
  /\ own \in [media : 0..MaxChanges, deleted : {"no", "answered", "lost"}, story : {Gone, 0}]

\* What this process deleted is gone, and no edit of its own is undone.
OwnStands ==
  /\ own.deleted # "no" => media = Gone
  /\ media # Gone => media >= own.media
  /\ own.story = Gone => ~story

MediasInv == MediasOK /\ OwnStands /\ OwnWritesShow /\ CallOK /\ AnswerOK

LEMMA SameMedias ==
  ASSUME MediasOK, OwnStands, OwnWritesShow, UNCHANGED <<media, story, mediaCaches, own>>
  PROVE  MediasOK' /\ OwnStands' /\ OwnWritesShow'
BY DEF MediasOK, OwnStands, OwnWritesShow, mediaCaches

MediaOps == {"media_info", "edit"}

LEMMA AskMediaKeeps ==
  ASSUME MediasInv, AskMediaInfo \/ AskMediaEdit
  PROVE  MediasInv'
<1>1. area # "names" /\ UNCHANGED <<area, media, story, mediaCaches, own>>
  BY DEF AskMediaInfo, AskMediaEdit, MediasOnly
<1>2. MediasOK' /\ OwnStands' /\ OwnWritesShow'
  BY <1>1, SameMedias DEF MediasInv
<1>3. CASE AskMediaInfo
  <2>1. PICK cached \in BOOLEAN, private \in BOOLEAN :
          LET c == [Idle EXCEPT !.op = "media_info", !.cached = cached, !.private = private]
          IN  IF cached /\ medias # NULL THEN Return(c, [verdict |-> "true"]) ELSE Ask(c)
    BY <1>3 DEF AskMediaInfo
  <2> DEFINE c == [Idle EXCEPT !.op = "media_info", !.cached = cached, !.private = private]
             r == [verdict |-> "true"]
  <2>2. c \in Call /\ c.op = "media_info" /\ Carries([c EXCEPT !.at = First(c)])
    BY <1>1 DEF Idle, Call, Carries, Ops, Ats, ByIdOps, Writes, First, PublicStep
  <2>3. (Return(c, r) \/ Ask(c)) /\ DOMAIN r = {"verdict"}
    BY <2>1
  <2> HIDE DEF c, r
  <2> QED
    BY <1>1, <1>2, <2>2, <2>3, Asked, Answered DEF MediasInv
<1>4. CASE AskMediaEdit
  <2>1. PICK private \in BOOLEAN :
          LET c == [Idle EXCEPT !.op = "edit", !.private = private]
          IN  IF medias # NULL
              THEN call' = [c EXCEPT !.at = "edit"] /\ answer' = Nothing
              ELSE Ask(c)
    BY <1>4 DEF AskMediaEdit
  <2> DEFINE c == [Idle EXCEPT !.op = "edit", !.private = private]
  <2>2. c \in Call /\ Carries([c EXCEPT !.at = First(c)])
    BY <1>1 DEF Idle, Call, Carries, Ops, Ats, ByIdOps, Writes, First, PublicStep
  <2>3. [c EXCEPT !.at = "edit"] \in Call /\ Carries([c EXCEPT !.at = "edit"])
    BY <1>1 DEF Idle, Call, Carries, Ops, Ats, ByIdOps, Writes
  <2>4. Ask(c) \/ (call' = [c EXCEPT !.at = "edit"] /\ answer' = Nothing)
    BY <2>1
  <2> HIDE DEF c
  <2> QED
    BY <1>1, <1>2, <2>2, <2>3, <2>4, Asked, NothingAnswers DEF MediasInv, CallOK, Carries
<1> QED
  BY <1>3, <1>4

LEMMA StartKeeps ==
  ASSUME MediasInv, NEW op \in {"link", "delete", "story_delete"},
         NEW step \in {"edit", "delete", "story_delete"}, Start(op, step)
  PROVE  MediasInv'
<1>1. /\ area # "names" /\ UNCHANGED <<area, media, story, mediaCaches, own>>
      /\ call' = [Idle EXCEPT !.op = op, !.at = step] /\ answer' = Nothing
  BY DEF Start, MediasOnly
<1>2. MediasOK' /\ OwnStands' /\ OwnWritesShow'
  BY <1>1, SameMedias DEF MediasInv
<1>3. call' \in Call
  BY <1>1 DEF Idle, Call, Ops, Ats
<1>4. Carries(call')
  BY <1>1 DEF Idle, Carries, ByIdOps, Writes
<1> QED
  BY <1>1, <1>2, <1>3, <1>4, NothingAnswers DEF MediasInv, CallOK, Carries

\* What is fetched is no older than the last own edit, and there is nothing to fetch
\* of what this process deleted.
LEMMA MediaFromKeeps ==
  ASSUME MediasInv, NEW source \in {"private", "public"}, MediaFrom(source)
  PROVE  MediasInv'
<1>1. /\ area # "names" /\ UNCHANGED <<area, media, story, stories, own>>
      /\ call.at # "idle" /\ call.op \in MediaOps /\ call \in Call /\ Carries(call)
  BY DEF MediaFrom, MediasOnly, MediasInv, CallOK, MediaOps
<1>2. CASE FallBack /\ UNCHANGED medias
  BY <1>1, <1>2, FellBack, SameMedias DEF MediasInv, mediaCaches
<1>3. CASE /\ media # Gone /\ medias' = media
           /\ IF call.op = "edit" THEN GoTo("edit") ELSE Return(call, [verdict |-> "true"])
  <2>1. MediasOK' /\ OwnStands' /\ OwnWritesShow'
    <3>1. media \in 0..MaxChanges
      BY <1>3, CachesAssumption DEF MediasInv, MediasOK, Gone
    <3>2. own.deleted = "no" /\ media >= own.media
      BY <1>3 DEF MediasInv, OwnStands
    <3>3. MediasOK'
      BY <1>1, <1>3, <3>1 DEF MediasInv, MediasOK
    <3>4. OwnStands'
      BY <1>1 DEF MediasInv, OwnStands
    <3>5. OwnWritesShow'
      BY <1>1, <1>3, <3>2 DEF MediasInv, OwnWritesShow
    <3> QED
      BY <3>3, <3>4, <3>5
  <2>2. CASE GoTo("edit")
    <3>1. Carries([call EXCEPT !.at = "edit"]) /\ "edit" \in Ats
      BY <1>1 DEF Carries, Call, Ats, ByIdOps, Writes, MediaOps
    <3> QED
      BY <1>1, <2>1, <2>2, <3>1, Moved DEF MediasInv
  <2>3. CASE Return(call, [verdict |-> "true"])
    <3> DEFINE r == [verdict |-> "true"]
    <3>1. DOMAIN r = {"verdict"} /\ Return(call, r) /\ call.op \notin {"user_info", "by_username", "list"}
      BY <1>1, <2>3 DEF MediaOps
    <3> HIDE DEF r
    <3> QED
      BY <1>1, <2>1, <3>1, Answered DEF MediasInv
  <2> QED
    BY <1>3, <2>2, <2>3
<1> QED
  BY <1>2, <1>3 DEF MediaFrom

\* The cache holds no media while an edit is under way.
LEMMA MediaEditKeeps ==
  ASSUME MediasInv, MediaEdit
  PROVE  MediasInv'
<1>1. /\ UNCHANGED <<area, story, stories>> /\ call.at \in Writes /\ medias' = NULL
      /\ \E v \in {"true", "raised"} : Return(call, [verdict |-> v])
      /\ Edited \/ UNCHANGED <<media, own>>
  BY DEF MediaEdit, MediasOnly, Writes, Raise
<1>2. CallOK' /\ AnswerOK'
  BY <1>1, WriteEnds DEF MediasInv
<1>3. CASE UNCHANGED <<media, own>>
  <2>1. MediasOK' /\ OwnStands' /\ OwnWritesShow'
    BY <1>1, <1>3 DEF MediasInv, MediasOK, OwnStands, OwnWritesShow
  <2> QED
    BY <1>2, <2>1 DEF MediasInv
<1>4. CASE Edited
  <2>1. media \in 0..MaxChanges /\ media + 1 \in 0..MaxChanges /\ media + 1 >= media + 1 /\ media + 1 # Gone
    BY <1>4, CachesAssumption DEF Edited, MediasInv, MediasOK, Gone
  <2>2. media' = media + 1 /\ own' = [own EXCEPT !.media = media + 1]
    BY <1>4 DEF Edited
  <2>3. /\ own' \in [media : 0..MaxChanges, deleted : {"no", "answered", "lost"}, story : {Gone, 0}]
        /\ own'.media = media + 1 /\ own'.story = own.story /\ own'.deleted = "no"
    <3>1. own.deleted = "no"
      BY <1>4 DEF Edited, MediasInv, OwnStands
    <3> QED
      BY <2>1, <2>2, <3>1 DEF MediasInv, MediasOK
  <2>4. 0..MaxChanges \subseteq Gone..MaxChanges
    BY CachesAssumption DEF Gone
  <2>5. MediasOK'
    BY <1>1, <2>1, <2>2, <2>3, <2>4 DEF MediasInv, MediasOK
  <2>6. OwnStands' /\ OwnWritesShow'
    BY <1>1, <2>1, <2>2, <2>3 DEF MediasInv, MediasOK, OwnStands, OwnWritesShow
  <2> QED
    BY <1>2, <2>5, <2>6 DEF MediasInv
<1> QED
  BY <1>1, <1>3, <1>4

LEMMA MediaDeleteKeeps ==
  ASSUME MediasInv, MediaDelete
  PROVE  MediasInv'
<1>1. /\ UNCHANGED <<area, story, stories>> /\ call.at \in Writes
      /\ \E v \in {"true", "false", "raised"} : Return(call, [verdict |-> v])
      /\ \/ medias' = NULL /\ media' = Gone /\ own' = [own EXCEPT !.deleted = "answered"]
         \/ medias' = NULL /\ UNCHANGED <<media, own>>
         \/ UNCHANGED <<media, medias, own>>
         \/ /\ media # Gone /\ media' = Gone /\ own' = [own EXCEPT !.deleted = "lost"]
            /\ UNCHANGED medias
  BY DEF MediaDelete, MediasOnly, Writes, Raise
<1>2. CallOK' /\ AnswerOK'
  BY <1>1, WriteEnds DEF MediasInv
<1>3. Gone \in Gone..MaxChanges
  BY CachesAssumption DEF Gone
<1>4. MediasOK'
  BY <1>1, <1>3 DEF MediasInv, MediasOK
<1>5. OwnStands' /\ OwnWritesShow'
  BY <1>1 DEF MediasInv, MediasOK, OwnStands, OwnWritesShow
<1> QED
  BY <1>2, <1>4, <1>5 DEF MediasInv

\* A story under its pk is there only as long as this process did not delete it.
LEMMA StoryInfoKeeps ==
  ASSUME MediasInv, StoryInfo
  PROVE  MediasInv'
<1>1. UNCHANGED <<area, media, story, medias, own>>
  BY DEF StoryInfo, MediasOnly
<1>2. PICK cached \in BOOLEAN, key \in Spellings :
        LET c == [Idle EXCEPT !.op = "story_info", !.cached = cached]
        IN  \/ UNCHANGED stories /\ Return(c, [verdict |-> "true"])
            \/ StoryInfoV1(c, key)
  BY DEF StoryInfo
<1> DEFINE c == [Idle EXCEPT !.op = "story_info", !.cached = cached]
<1>3. c \in Call /\ c.op \notin {"user_info", "by_username", "list"}
  BY DEF Idle, Call, Ops, Ats
<1> HIDE DEF c
<1>4. /\ \E v \in {"true", "raised"} : Return(c, [verdict |-> v])
      /\ stories' = stories \/ (Shown["pk"] # NULL /\ stories' = [Shown EXCEPT ![key] = "up"])
  BY <1>2 DEF StoryInfoV1, c
<1>5. PICK v \in {"true", "raised"} : Return(c, [verdict |-> v])
  BY <1>4
<1> DEFINE r == [verdict |-> v]
<1>6. DOMAIN r = {"verdict"} /\ Return(c, r)
  BY <1>5
<1> HIDE DEF r
<1>7. CallOK' /\ AnswerOK'
  BY <1>1, <1>3, <1>6, Answered
<1>8. /\ stories' \in [Spellings -> {NULL, "up"}]
      /\ own.story = Gone => stories'["pk"] = NULL
  <2>1. CASE stories' = stories
    BY <2>1 DEF MediasInv, MediasOK, OwnWritesShow
  <2>2. CASE Shown["pk"] # NULL /\ stories' = [Shown EXCEPT ![key] = "up"]
    <3>1. Shown \in [Spellings -> {NULL, "up"}] /\ (story \/ stories["pk"] # NULL)
      BY <2>2 DEF Shown, MediasInv, MediasOK
    <3>2. own.story # Gone
      BY <3>1 DEF MediasInv, OwnStands, OwnWritesShow
    <3> QED
      BY <2>2, <3>1, <3>2
  <2> QED
    BY <1>4, <2>1, <2>2
<1>9. MediasOK' /\ OwnStands' /\ OwnWritesShow'
  BY <1>1, <1>8 DEF MediasInv, MediasOK, OwnStands, OwnWritesShow
<1> QED
  BY <1>7, <1>9 DEF MediasInv

LEMMA StoryDeleteKeeps ==
  ASSUME MediasInv, StoryDelete
  PROVE  MediasInv'
<1>1. /\ UNCHANGED <<area, media, medias>> /\ call.at \in Writes
      /\ stories' = [stories EXCEPT !["pk"] = NULL]
      /\ \E v \in {"true", "false", "raised"} : Return(call, [verdict |-> v])
      /\ \/ story' = FALSE /\ own' = [own EXCEPT !.story = Gone]
         \/ story' = story /\ own' = own
         \/ story' \in {story, FALSE} /\ own' = IF story' THEN own ELSE [own EXCEPT !.story = Gone]
  BY DEF StoryDelete, MediasOnly, Writes, Raise
<1>2. CallOK' /\ AnswerOK'
  BY <1>1, WriteEnds DEF MediasInv
<1>3. /\ \/ ~story' /\ own' = [own EXCEPT !.story = Gone]
         \/ story' = story /\ own' = own
      /\ story' \in BOOLEAN
  BY <1>1 DEF MediasInv, MediasOK
<1>4. MediasOK'
  BY <1>1, <1>3 DEF MediasInv, MediasOK
<1>5. OwnStands' /\ OwnWritesShow'
  <2>1. stories'["pk"] = NULL /\ Gone # 0
    BY <1>1 DEF MediasInv, MediasOK, Spellings, Gone
  <2>2. /\ own'.media = own.media /\ own'.deleted = own.deleted
        /\ own'.story = Gone => ~story'
    BY <1>3 DEF MediasInv, MediasOK, OwnStands
  <2>3. OwnStands'
    BY <1>1, <2>2 DEF MediasInv, OwnStands
  <2>4. OwnWritesShow'
    BY <1>1, <2>1, <2>2 DEF MediasInv, OwnWritesShow
  <2> QED
    BY <2>3, <2>4
<1> QED
  BY <1>2, <1>4, <1>5 DEF MediasInv

LEMMA MediasChangeKeeps ==
  ASSUME MediasInv, MediasChange
  PROVE  MediasInv'
<1>1. UNCHANGED <<area, medias, stories, call, answer, own, shorts>>
  BY DEF MediasChange, MediasOnly, mediaCaches, nameCaches
<1>2. CallOK' /\ AnswerOK'
  BY <1>1, SameAnswer DEF MediasInv, CallOK, Carries
<1>3. CASE media # Gone /\ media < MaxChanges /\ media' = media + 1 /\ UNCHANGED story
  <2>1. /\ media \in Int /\ own.media \in Int /\ media + 1 \in Gone..MaxChanges
        /\ (media >= own.media => media + 1 >= own.media)
    BY <1>3, CachesAssumption DEF MediasInv, MediasOK, Gone
  <2>2. MediasOK' /\ OwnStands' /\ OwnWritesShow'
    BY <1>1, <1>3, <2>1 DEF MediasInv, MediasOK, OwnStands, OwnWritesShow
  <2> QED
    BY <1>2, <2>2 DEF MediasInv
<1>4. CASE story' = FALSE /\ UNCHANGED media
  <2>1. MediasOK' /\ OwnStands' /\ OwnWritesShow'
    BY <1>1, <1>4 DEF MediasInv, MediasOK, OwnStands, OwnWritesShow
  <2> QED
    BY <1>2, <2>1 DEF MediasInv
<1> QED
  BY <1>3, <1>4 DEF MediasChange

MediasNext ==
  \/ AskMediaInfo \/ AskMediaEdit \/ AskMediaLinkReel \/ AskMediaDelete \/ AskStoryDelete
  \/ MediaInfoV1 \/ MediaInfoGql \/ MediaEdit \/ MediaDelete
  \/ StoryInfo \/ StoryDelete \/ MediasChange

LEMMA MediasKeep == MediasInv /\ MediasNext => MediasInv'
BY AskMediaKeeps, StartKeeps, MediaFromKeeps, MediaEditKeeps, MediaDeleteKeeps,
   StoryInfoKeeps, StoryDeleteKeeps, MediasChangeKeeps
DEF MediasNext, AskMediaLinkReel, AskMediaDelete, AskStoryDelete, MediaInfoV1, MediaInfoGql

-------------------------------------------------------------------------------
(* The invariant.                                                            *)

CachesInv ==
  /\ area \in {"names", "medias"} \cup Kinds
  /\ NamesOK /\ BearersOK
  /\ ListsOK /\ FollowsAreRemembered
  /\ MediasOK /\ OwnStands /\ OwnWritesShow
  /\ CallOK /\ AnswerOK /\ WebKnows

\* An action of one area leaves the state of the others alone.
LEMMA OneArea ==
  /\ NamesNext => UNCHANGED <<area, served, requested, lists, mine, media, story, mediaCaches, own>>
  /\ ListsNext \/ MediasNext => area # "names"
  /\ ListsNext => UNCHANGED <<area, name, nameCaches, bore, media, story, mediaCaches, own>>
  /\ MediasNext => UNCHANGED <<area, name, nameCaches, bore, served, requested, lists, mine>>
<1>1. NamesNext => NamesOnly
  BY DEF NamesNext, AskUserInfo, AskUserInfoByUsername, AskUsername, AskUserShort, UserInfoV1,
         UserInfoByUsernameV1, UserInfoByUsernameGql, UserShortGql, Rename
<1>2. ListsNext => ListsOnly
  BY DEF ListsNext, AskList, PrivateList, PublicList, ListsChange, AskFollow, UserFriendshipV1,
         UserFollow, AskRemoval, UserUnfollow, UserRemoveFollower
<1>3. MediasNext => MediasOnly
  BY DEF MediasNext, AskMediaInfo, AskMediaEdit, AskMediaLinkReel, AskMediaDelete, AskStoryDelete,
         Start, MediaInfoV1, MediaInfoGql, MediaFrom, MediaEdit, MediaDelete, StoryInfo, StoryDelete,
         MediasChange
<1> QED
  BY <1>1, <1>2, <1>3, NotNames DEF NamesOnly, ListsOnly, MediasOnly

LEMMA NextHasAreas == Next <=> NamesNext \/ ListsNext \/ MediasNext
BY DEF Next, NamesNext, ListsNext, MediasNext

LEMMA CachesInvInit == Init => CachesInv
<1> SUFFICES ASSUME Init PROVE CachesInv
  OBVIOUS
<1>1. NamesOK /\ BearersOK
  BY DEF Init, NamesOK, BearersOK
<1>2. served \in [Kinds -> Lists]
  BY EmptyIsAList DEF Init, Lists
<1>3. ListsOK /\ FollowsAreRemembered
  BY <1>2 DEF Init, ListsOK, FollowsAreRemembered, Kinds
<1>4. MediasOK /\ OwnStands /\ OwnWritesShow
  BY CachesAssumption DEF Init, MediasOK, OwnStands, OwnWritesShow, Gone, Spellings
<1>5. CallOK /\ WebKnows
  BY IdleIsACall DEF Init, CallOK, WebKnows, Idle
<1>6. AnswerOK
  BY DEF Init, AnswerOK, Promised, AnswersTheName, AnswersTheId, ListsHoldTheAmount, Idle, Nothing
<1> QED
  BY <1>1, <1>3, <1>4, <1>5, <1>6 DEF Init, CachesInv

LEMMA CachesInvStep == CachesInv /\ [Next]_vars => CachesInv'
<1> SUFFICES ASSUME CachesInv, [Next]_vars PROVE CachesInv'
  OBVIOUS
<1>1. NamesInv /\ ListsInv /\ MediasInv
  BY DEF CachesInv, NamesInv, ListsInv, MediasInv
<1>2. CASE NamesNext
  <2>1. NamesInv' /\ UNCHANGED <<area, served, requested, lists, mine, media, story, mediaCaches, own>>
    BY <1>1, <1>2, NamesKeep, OneArea
  <2> QED
    BY <2>1, SameLists, SameMedias DEF CachesInv, NamesInv
<1>3. CASE ListsNext
  <2>1. ListsInv' /\ UNCHANGED <<area, name, nameCaches, bore, media, story, mediaCaches, own>>
    BY <1>1, <1>3, ListsKeep, OneArea
  <2>2. WebKnows'
    BY <1>3, <2>1, OneArea DEF WebKnows
  <2> QED
    BY <2>1, <2>2, SameNames, SameMedias DEF CachesInv, ListsInv
<1>4. CASE MediasNext
  <2>1. MediasInv' /\ UNCHANGED <<area, name, nameCaches, bore, served, requested, lists, mine>>
    BY <1>1, <1>4, MediasKeep, OneArea
  <2>2. WebKnows'
    BY <1>4, <2>1, OneArea DEF WebKnows
  <2> QED
    BY <2>1, <2>2, SameNames, SameLists DEF CachesInv, MediasInv
<1>5. CASE UNCHANGED vars
  <2>1. UNCHANGED <<area, name, nameCaches, bore, served, requested, lists, mine, media, story,
                    mediaCaches, own, call, answer>>
    BY <1>5 DEF vars, server, history
  <2>2. CallOK' /\ AnswerOK' /\ WebKnows'
    BY <2>1, SameAnswer DEF CachesInv, CallOK, Carries, WebKnows, nameCaches
  <2> QED
    BY <2>1, <2>2, SameNames, SameLists, SameMedias DEF CachesInv
<1> QED
  BY <1>2, <1>3, <1>4, <1>5, NextHasAreas

THEOREM CachesAreSound == Spec => []CachesInv
BY CachesInvInit, CachesInvStep, PTL DEF Spec

-------------------------------------------------------------------------------
(* The theorems.                                                             *)

\* Every cache holds what it is a cache of, and every list names an account once.
THEOREM TypeCorrect == Spec => []TypeOK
<1>1. CachesInv => TypeOK
  BY DEF CachesInv, NamesOK, ListsOK, MediasOK, CallOK, AnswerOK, Call, Idle, TypeOK, Lists
<1> QED
  BY <1>1, CachesAreSound, PTL

\* What user_info, user_info_by_username, user_following and user_followers answer is
\* what was asked for: the name cache ties a name to nobody that never bore it, a
\* lookup by name that passes the cache by returns the account that bears the name when
\* it answers, one by id the account of that id unless a cached short user has another
\* name than the account by then, and a list holds the amount, whatever was cached
\* before and however the sources failed.
THEOREM CachesAnswer == Spec => []CachesAnswerTheCall
<1>1. CachesInv => CachesAnswerTheCall
  BY DEF CachesInv, BearersOK, AnswerOK, Promised, AnswersTheName, AnswersTheId,
         CachesAnswerTheCall, NamesLeadToTheirBearers
<1> QED
  BY <1>1, CachesAreSound, PTL

\* No cache hides what the process itself wrote: a follow, an edit, the deletion of a
\* media that was answered, and under its pk the deletion of a story.
THEOREM OwnWritesAreRead == Spec => []ReadsOwnWrites
<1>1. CachesInv => ReadsOwnWrites
  BY DEF CachesInv, ReadsOwnWrites
<1> QED
  BY <1>1, CachesAreSound, PTL
===============================================================================
