--------------------------- MODULE ProceduresProofs ---------------------------
(***************************************************************************)
(* Theorems about the writing calls of the library, for every set of       *)
(* methods and every number of attempts, retransmissions, faults and posts.*)
(***************************************************************************)
EXTENDS Procedures, FiniteSetTheorems, TLAPS

-------------------------------------------------------------------------------
(* What the machine needs of the table of methods.                           *)

Requests ==
    [does : {"read", "remember", "look", "bytes", "publish", "set", "edit", "expose"},
     via : {"private", "session", "plain"}, id : {"same", "call", "attempt", "once", "none"},
     tries : 0..(PhotoTries + VideoTries + LookTries),
     again : SUBSET {"empty", "notYet", "graphql", "bare", "full"}, back : 0..1, skips : 0..4,
     needs : BOOLEAN, flag : BOOLEAN, ignores : BOOLEAN, hides : BOOLEAN, optional : BOOLEAN]

\* The requests of a method before its publication, or of one that publishes nothing.
Leading ==
    {r \in Requests :
        /\ r.does \in {"read", "remember", "bytes", "set"} /\ r.id \in {"same", "once"}
        /\ r.back = 0 /\ r.tries > 0
        /\ r.does # "read" => r.skips = 0
        /\ r.does = "set" => r.tries = 1 /\ r.again = {}
        /\ r.flag => r.does = "set"
        /\ r.ignores => r.does \in {"read", "remember"}
        /\ r.does = "remember" => r.ignores
        /\ r.again \cap {"bare", "full"} = {}}
\* Those that say nothing of what follows.
Plain == {r \in Leading : ~r.flag /\ r.skips = 0}
\* A request that a repeated publication may begin with.
Repeatable ==
    {r \in Leading : r.does \in {"read", "bytes"} /\ r.tries = 1 /\ r.skips = 0}
Publishing ==
    {r \in Requests :
        /\ r.does = "publish" /\ r.id \in {"call", "attempt", "none"} /\ r.tries > 0
        /\ r.id = "attempt" => r.tries = VideoTries
        /\ r.id = "none" => r.tries = 1 /\ r.again = {} /\ r.back = 0
        /\ r.skips = 0 /\ ~r.flag /\ ~r.ignores /\ ~r.optional}
\* The requests after it.
Trailing ==
    {r \in Requests :
        /\ r.does \in {"expose", "look", "edit", "read"} /\ r.id = "same" /\ r.back = 0
        /\ r.again = {} /\ r.skips = 0 /\ ~r.flag /\ ~r.needs
        /\ r.does # "look" => r.tries = 1
        /\ r.does \in {"edit", "read"} => r.ignores
        /\ r.does \in {"expose", "look"} => ~r.ignores /\ ~r.optional}

\* What is edited was looked for.
Endings ==
    {t \in Seq(Trailing) :
        \A i \in 1..Len(t) : t[i].does = "edit" => \E j \in 1..(i - 1) : t[j].does = "look"}

Publishes(s, p) == s[p].does = "publish"
\* All copies of a publication share an id.
OneId(s) == \A i \in 1..Len(s) : Publishes(s, i) => s[i].id = "call"
SoundSteps(s) ==
    /\ s \in Seq(Requests) /\ s # <<>>
    /\ \A i \in 1..Len(s) :
          \/ s[i] \in Leading /\ \A p \in 1..Len(s) : Publishes(s, p) => i < p
          \/ s[i] \in Publishing
          \/ s[i] \in Trailing /\ \E p \in 1..(i - 1) : Publishes(s, p)
    /\ \A i, j \in 1..Len(s) : Publishes(s, i) /\ Publishes(s, j) => i = j
    /\ \A i \in 1..Len(s) : s[i].back = 1 => i > 1 /\ s[i - 1] \in Repeatable
    /\ \A i, j \in 1..Len(s) : i < j /\ j <= i + s[i].skips => s[j].does = "read"
    /\ \A i \in 1..Len(s) : s[i].flag => i = Len(s)
    /\ \A i \in 1..Len(s) : s[i].id = "none" => Len(s) = 1
    /\ \A i \in 1..Len(s) : s[i].does = "look" /\ s[i].tries > 0 => OneId(s)
    /\ \A i \in 1..Len(s) : s[i].does = "edit" => \E j \in 1..(i - 1) : s[j].does = "look"
Sound(m) ==
    /\ m.login \in BOOLEAN /\ m.swallows \in BOOLEAN
    /\ SoundSteps(m.steps)
    /\ m.swallows => \A i \in 1..Len(m.steps) :
          m.steps[i] \in Leading /\ (m.steps[i].does = "set" => ~m.steps[i].needs)

\* Requests that leave it open what follows them.
Opening(s) ==
    /\ s \in Seq(Leading)
    /\ \A i \in 1..Len(s) : ~s[i].flag /\ i + s[i].skips <= Len(s)
    /\ \A i, j \in 1..Len(s) : i < j /\ j <= i + s[i].skips => s[j].does = "read"

LEMMA Joined ==
  ASSUME NEW S, NEW s \in Seq(S), NEW t \in Seq(S)
  PROVE  /\ s \o t \in Seq(S)
         /\ Len(s \o t) = Len(s) + Len(t)
         /\ \A i \in 1..Len(s) : (s \o t)[i] = s[i]
         /\ \A i \in (Len(s) + 1)..(Len(s) + Len(t)) : (s \o t)[i] = t[i - Len(s)]
OBVIOUS

LEMMA LeadingRequests ==
  /\ Leading \subseteq Requests /\ Seq(Leading) \subseteq Seq(Requests)
  /\ \A r \in Requests : r.skips \in 0..4
<1>1. Leading \subseteq Requests
  BY DEF Leading
<1>2. \A r \in Requests : r.skips \in 0..4
  BY DEF Requests
<1>3. QED
  BY <1>1, <1>2

LEMMA OpeningJoined ==
  ASSUME NEW s, NEW t, Opening(s), Opening(t)
  PROVE  Opening(s \o t)
<1> DEFINE u == s \o t
<1>1. s \in Seq(Leading) /\ t \in Seq(Leading) /\ Len(s) \in Nat /\ Len(t) \in Nat
  BY DEF Opening
<1>2. /\ u \in Seq(Leading) /\ Len(u) = Len(s) + Len(t)
      /\ \A i \in 1..Len(s) : u[i] = s[i]
      /\ \A i \in (Len(s) + 1)..(Len(s) + Len(t)) : u[i] = t[i - Len(s)]
  BY <1>1, Joined
<1>3. /\ \A i \in 1..Len(s) : s[i].skips \in 0..4
      /\ \A i \in 1..Len(t) : t[i].skips \in 0..4
      /\ \A i \in 1..Len(u) : u[i].skips \in 0..4
  <2>1. /\ \A i \in 1..Len(s) : s[i] \in Leading
        /\ \A i \in 1..Len(t) : t[i] \in Leading
        /\ \A i \in 1..Len(u) : u[i] \in Leading
    BY <1>1, <1>2
  <2>2. QED
    BY <2>1, LeadingRequests
<1> HIDE DEF u
<1>4. ASSUME NEW i \in 1..Len(u) PROVE ~u[i].flag /\ i + u[i].skips <= Len(u)
  <2>1. CASE i \in 1..Len(s)
    <3>1. u[i] = s[i] /\ ~s[i].flag /\ i + s[i].skips <= Len(s)
      BY <2>1, <1>2 DEF Opening
    <3>2. s[i].skips \in 0..4 /\ i \in Nat /\ Len(u) = Len(s) + Len(t)
      BY <2>1, <1>2, <1>3
    <3> DEFINE n == s[i].skips
    <3>3. n \in 0..4 /\ i + n <= Len(s)
      BY <3>1, <3>2
    <3>4. u[i].skips = n /\ ~u[i].flag
      BY <3>1
    <3> HIDE DEF n
    <3>5. i + n <= Len(u)
      BY <3>2, <3>3, <1>1
    <3>6. QED
      BY <3>4, <3>5
  <2>2. CASE i \in (Len(s) + 1)..(Len(s) + Len(t))
    <3>1. i - Len(s) \in 1..Len(t) /\ u[i] = t[i - Len(s)]
      BY <2>2, <1>1, <1>2
    <3> DEFINE h == i - Len(s)
    <3>2. ~t[h].flag /\ h + t[h].skips <= Len(t)
      BY <3>1 DEF Opening
    <3>3. t[h].skips \in 0..4
      BY <3>1, <1>3
    <3>4. i = h + Len(s) /\ h \in Int /\ Len(u) = Len(s) + Len(t) /\ u[i] = t[h]
      BY <3>1, <1>1, <1>2
    <3> HIDE DEF h
    <3>5. i + t[h].skips <= Len(u)
      BY <3>2, <3>3, <3>4, <1>1
    <3>6. QED
      BY <3>2, <3>4, <3>5
  <2>3. QED
    BY <2>1, <2>2, <1>1, <1>2
<1>5. ASSUME NEW i \in 1..Len(u), NEW j \in 1..Len(u), i < j, j <= i + u[i].skips
      PROVE  u[j].does = "read"
  <2>1. CASE i \in 1..Len(s)
    <3>1. u[i] = s[i] /\ i + s[i].skips <= Len(s) /\ s[i].skips \in 0..4
      BY <2>1, <1>2, <1>3 DEF Opening
    <3>2. j \in 1..Len(s) /\ j <= i + s[i].skips
      BY <2>1, <3>1, <1>1, <1>2, <1>5
    <3>3. s[j].does = "read"
      BY <2>1, <3>2, <1>5 DEF Opening
    <3>4. QED
      BY <3>2, <3>3, <1>2
  <2>2. CASE i \in (Len(s) + 1)..(Len(s) + Len(t))
    <3>0. j \in (Len(s) + 1)..(Len(s) + Len(t))
      BY <2>2, <1>1, <1>2, <1>5
    <3>1. /\ i - Len(s) \in 1..Len(t) /\ u[i] = t[i - Len(s)]
          /\ j - Len(s) \in 1..Len(t) /\ u[j] = t[j - Len(s)]
      BY <2>2, <3>0, <1>1, <1>2
    <3>2. t[i - Len(s)].skips \in 0..4
      BY <3>1, <1>3
    <3>3. j <= i + t[i - Len(s)].skips
      BY <3>1, <1>5
    <3>4. i - Len(s) < j - Len(s) /\ j - Len(s) <= (i - Len(s)) + t[i - Len(s)].skips
      <4>1. i \in Int /\ j \in Int /\ Len(s) \in Int /\ t[i - Len(s)].skips \in Int /\ i < j
        BY <3>2, <1>1, <1>2, <1>5
      <4>2. QED
        BY <4>1, <3>3
    <3>5. QED
      BY <3>1, <3>4 DEF Opening
  <2>3. QED
    BY <2>1, <2>2, <1>1, <1>2
<1>6. QED
  BY <1>2, <1>4, <1>5 DEF Opening, u

LEMMA PlainOpens ==
  ASSUME NEW s \in Seq(Plain)
  PROVE  Opening(s)
<1>1. s \in Seq(Leading)
  BY DEF Plain
<1>2. \A i \in 1..Len(s) : ~s[i].flag /\ s[i].skips = 0
  BY DEF Plain
<1>3. QED
  BY <1>1, <1>2 DEF Opening

\* Configurations that are asked for one after the other.
LEMMA FallingOpens ==
  ASSUME NEW s \in Seq(Leading),
         \A i \in 1..Len(s) : s[i].does = "read" /\ s[i].skips = Len(s) - i
  PROVE  Opening(s)
<1>1. \A i \in 1..Len(s) : s[i] \in Leading
  OBVIOUS
<1>2. \A r \in Leading : r.does = "read" => ~r.flag
  BY DEF Leading
<1>3. QED
  BY <1>1, <1>2 DEF Opening

\* A method that publishes nothing.
LEMMA ChangesAreSound ==
  ASSUME NEW s, s \in Seq(Leading), s # <<>>,
         \A i \in 1..Len(s) : s[i].flag => i = Len(s),
         \A i, j \in 1..Len(s) : i < j /\ j <= i + s[i].skips => s[j].does = "read"
  PROVE  SoundSteps(s) /\ OneId(s)
<1>1. \A r \in Leading : r.does # "publish" /\ r.back # 1 /\ r.id # "none" /\ r.does \notin {"look", "edit"}
  BY DEF Leading
<1>2. \A i \in 1..Len(s) : s[i] \in Leading
  OBVIOUS
<1>3. QED
  BY <1>1, <1>2, LeadingRequests DEF SoundSteps, OneId, Publishes

LEMMA OpeningIsSound ==
  ASSUME NEW s, Opening(s), s # <<>>
  PROVE  SoundSteps(s) /\ OneId(s)
BY ChangesAreSound DEF Opening

LEMMA LastIsSound ==
  ASSUME NEW r \in Leading, r.skips = 0
  PROVE  SoundSteps(<<r>>) /\ OneId(<<r>>)
<1> DEFINE s == <<r>>
<1>1. s \in Seq(Leading) /\ s # <<>> /\ Len(s) = 1 /\ \A i \in 1..Len(s) : i = Len(s)
  OBVIOUS
<1> HIDE DEF s
<1>2. \A i, j \in 1..Len(s) : ~(i < j)
  BY <1>1
<1>3. SoundSteps(s) /\ OneId(s)
  BY <1>1, <1>2, ChangesAreSound
<1>4. QED
  BY <1>3 DEF s

\* A method in whose publication the server sees an id stays sound with more requests before it.
Extensible(s) == SoundSteps(s) /\ \A i \in 1..Len(s) : s[i].id # "none"

LEMMA Prefixed ==
  ASSUME NEW s, NEW t, Opening(s), Extensible(t)
  PROVE  Extensible(s \o t) /\ (OneId(t) => OneId(s \o t))
<1> DEFINE u == s \o t
           k == Len(s)
<1>1. s \in Seq(Leading) /\ s \in Seq(Requests) /\ t \in Seq(Requests) /\ t # <<>>
      /\ k \in Nat /\ Len(t) \in Nat
  BY LeadingRequests DEF Opening, SoundSteps, Extensible
<1>2. /\ u \in Seq(Requests) /\ Len(u) = k + Len(t) /\ u # <<>>
      /\ \A i \in 1..k : u[i] = s[i]
      /\ \A i \in (k + 1)..(k + Len(t)) : u[i] = t[i - k]
  BY <1>1, Joined
<1>3. \A i \in 1..k : s[i] \in Leading /\ s[i].skips \in 0..4 /\ ~s[i].flag /\ i + s[i].skips <= k
                       /\ s[i].does \notin {"publish", "look", "edit"} /\ s[i].back # 1
                       /\ s[i].id # "none"
  <2>1. \A i \in 1..k : s[i] \in Leading
    BY <1>1
  <2>2. QED
    BY <2>1, LeadingRequests DEF Opening, Leading
<1> HIDE DEF u, k
<1>4. ASSUME NEW i \in 1..Len(u)
      PROVE  \/ i \in 1..k /\ u[i] = s[i]
             \/ i - k \in 1..Len(t) /\ u[i] = t[i - k] /\ i > k
  BY <1>1, <1>2
<1>5. \A i \in 1..Len(u) : Publishes(u, i) => i - k \in 1..Len(t) /\ i > k /\ Publishes(t, i - k)
  BY <1>3, <1>4 DEF Publishes
<1>6. \A i \in 1..Len(t) : i + k \in 1..Len(u) /\ i + k > k /\ u[i + k] = t[i]
  <2>1. \A i \in 1..Len(t) : i + k \in (k + 1)..(k + Len(t)) /\ (i + k) - k = i
    BY <1>1
  <2>2. QED
    BY <2>1, <1>1, <1>2
<1>7. ASSUME NEW i \in 1..Len(u)
      PROVE  \/ u[i] \in Leading /\ \A p \in 1..Len(u) : Publishes(u, p) => i < p
             \/ u[i] \in Publishing
             \/ u[i] \in Trailing /\ \E p \in 1..(i - 1) : Publishes(u, p)
  <2>1. CASE i \in 1..k /\ u[i] = s[i]
    <3>1. \A p \in 1..Len(u) : Publishes(u, p) => i < p
      BY <2>1, <1>1, <1>2, <1>5
    <3>2. QED
      BY <2>1, <3>1, <1>3
  <2>2. CASE i - k \in 1..Len(t) /\ u[i] = t[i - k] /\ i > k
    <3>1. CASE t[i - k] \in Leading /\ \A p \in 1..Len(t) : Publishes(t, p) => i - k < p
      <4>1. ASSUME NEW p \in 1..Len(u), Publishes(u, p) PROVE i < p
        <5>1. p - k \in 1..Len(t) /\ Publishes(t, p - k)
          BY <4>1, <1>5
        <5>2. i - k < p - k
          BY <5>1, <3>1
        <5>3. QED
          BY <5>2, <1>1, <1>2
      <4>2. QED
        BY <4>1, <2>2, <3>1
    <3>2. CASE t[i - k] \in Publishing
      BY <2>2, <3>2
    <3>3. CASE t[i - k] \in Trailing /\ \E p \in 1..(i - k - 1) : Publishes(t, p)
      <4>1. PICK p \in 1..(i - k - 1) : Publishes(t, p)
        BY <3>3
      <4>2. p \in 1..Len(t)
        BY <4>1, <2>2, <1>1, <1>2
      <4>3. p + k \in 1..(i - 1) /\ Publishes(u, p + k)
        BY <4>1, <4>2, <1>1, <1>2, <1>6 DEF Publishes
      <4>4. QED
        BY <4>3, <2>2, <3>3
    <3>4. QED
      BY <2>2, <3>1, <3>2, <3>3 DEF SoundSteps, Extensible
  <2>3. QED
    BY <1>4, <2>1, <2>2
<1>8. ASSUME NEW i \in 1..Len(u), NEW j \in 1..Len(u), Publishes(u, i), Publishes(u, j) PROVE i = j
  <2>1. i - k = j - k
    BY <1>5, <1>8 DEF SoundSteps, Extensible
  <2>2. QED
    BY <2>1, <1>1, <1>2
<1>9. ASSUME NEW i \in 1..Len(u), u[i].back = 1 PROVE i > 1 /\ u[i - 1] \in Repeatable
  <2>1. i - k \in 1..Len(t) /\ t[i - k].back = 1
    BY <1>3, <1>4, <1>9
  <2>2. i - k > 1 /\ t[i - k - 1] \in Repeatable
    BY <2>1 DEF SoundSteps, Extensible
  <2>3. i \in Int /\ i - k \in 1..Len(t) /\ i - k > 1
    BY <2>1, <2>2, <1>1, <1>2
  <2>4. i - k - 1 \in 1..Len(t) /\ (i - k - 1) + k = i - 1 /\ i > 1
    BY <2>3, <1>1
  <2>5. QED
    BY <2>2, <2>4, <1>6
<1>10. ASSUME NEW i \in 1..Len(u), NEW j \in 1..Len(u), i < j, j <= i + u[i].skips
       PROVE  u[j].does = "read"
  <2>1. CASE i \in 1..k /\ u[i] = s[i]
    <3>1. j <= i + s[i].skips /\ s[i].skips \in 0..4 /\ i + s[i].skips <= k
      BY <2>1, <1>3, <1>10
    <3>2. j \in 1..k
      BY <3>1, <2>1, <1>1, <1>2
    <3>3. u[j] = s[j] /\ s[j].does = "read"
      BY <2>1, <3>1, <3>2, <1>2, <1>10 DEF Opening, k
    <3>4. QED
      BY <3>3
  <2>2. CASE i - k \in 1..Len(t) /\ u[i] = t[i - k] /\ i > k
    <3>1. j - k \in 1..Len(t) /\ u[j] = t[j - k]
      BY <2>2, <1>1, <1>2, <1>4, <1>10
    <3>2. t[i - k].skips \in 0..4 /\ j <= i + t[i - k].skips
      <4>1. t[i - k] \in Requests
        BY <2>2, <1>1
      <4>2. QED
        BY <4>1, <2>2, <1>10, LeadingRequests
    <3>3. i - k < j - k /\ j - k <= (i - k) + t[i - k].skips
      <4>1. i \in Int /\ j \in Int /\ k \in Int /\ t[i - k].skips \in Int /\ i < j
        BY <3>2, <1>1, <1>2, <1>10
      <4>2. QED
        BY <4>1, <3>2
    <3>4. QED
      BY <2>2, <3>1, <3>3 DEF SoundSteps, Extensible
  <2>3. QED
    BY <1>4, <2>1, <2>2
<1>11. ASSUME NEW i \in 1..Len(u), u[i].flag PROVE i = Len(u)
  <2>1. i - k \in 1..Len(t) /\ t[i - k].flag
    BY <1>3, <1>4, <1>11
  <2>2. i - k = Len(t)
    BY <2>1 DEF SoundSteps, Extensible
  <2>3. QED
    BY <2>2, <1>1, <1>2
<1>12. \A i \in 1..Len(u) : u[i].id # "none"
  BY <1>3, <1>4 DEF Extensible
<1>13. OneId(t) => OneId(u)
  BY <1>3, <1>4 DEF OneId, Publishes
<1>14. ASSUME NEW i \in 1..Len(u), u[i].does = "look", u[i].tries > 0 PROVE OneId(u)
  <2>1. i - k \in 1..Len(t) /\ t[i - k].does = "look" /\ t[i - k].tries > 0
    BY <1>3, <1>4, <1>14
  <2>2. QED
    BY <2>1, <1>13 DEF SoundSteps, Extensible
<1>15. ASSUME NEW i \in 1..Len(u), u[i].does = "edit"
       PROVE  \E j \in 1..(i - 1) : u[j].does = "look"
  <2>1. i - k \in 1..Len(t) /\ t[i - k].does = "edit"
    BY <1>3, <1>4, <1>15
  <2>2. PICK j \in 1..(i - k - 1) : t[j].does = "look"
    BY <2>1 DEF SoundSteps, Extensible
  <2>3. j \in 1..Len(t) /\ j + k \in 1..(i - 1)
    <3>1. i \in Int /\ k \in Nat /\ Len(t) \in Nat /\ i - k \in 1..Len(t)
      BY <2>1, <1>1, <1>2
    <3>2. QED
      BY <2>2, <3>1
  <2>4. QED
    BY <2>2, <2>3, <1>6
<1>16. SoundSteps(u)
  BY <1>2, <1>7, <1>8, <1>9, <1>10, <1>11, <1>12, <1>14, <1>15 DEF SoundSteps, Extensible
<1>17. QED
  BY <1>12, <1>13, <1>16 DEF u, Extensible

\* A publication, what follows it, and where it begins when it is repeated.
LEMMA TrailingIsQuiet ==
  \A r \in Trailing : /\ ~Publishes(<<r>>, 1) /\ r.does # "publish" /\ r.back = 0 /\ r.skips = 0 /\ ~r.flag
                      /\ r.id # "none" /\ r \in Requests
BY DEF Trailing, Publishes

LEMMA PublicationIsSound ==
  ASSUME NEW p \in Publishing, NEW t \in Endings, p.back = 0,
         p.id = "none" => t = <<>>,
         p.id # "call" => \A i \in 1..Len(t) : t[i].does = "look" => t[i].tries = 0
  PROVE  /\ SoundSteps(<<p>> \o t)
         /\ p.id # "none" => Extensible(<<p>> \o t)
         /\ p.id = "call" => OneId(<<p>> \o t)
<1> DEFINE s == <<p>> \o t
<1>1. p \in Requests /\ p.does = "publish" /\ p.skips = 0 /\ ~p.flag
  BY DEF Publishing
<1>2. t \in Seq(Requests) /\ Len(t) \in Nat
  <2>1. Trailing \subseteq Requests
    BY DEF Trailing
  <2>2. QED
    BY <2>1 DEF Endings
<1>3. /\ s \in Seq(Requests) /\ s # <<>> /\ Len(s) = Len(t) + 1 /\ s[1] = p
      /\ \A i \in 2..Len(s) : s[i] = t[i - 1] /\ i - 1 \in 1..Len(t)
      /\ \A i \in 1..Len(t) : s[i + 1] = t[i]
  BY <1>1, <1>2
<1> HIDE DEF s
<1>4. \A i \in 2..Len(s) : s[i] \in Trailing
  BY <1>3 DEF Endings
<1>5. \A i \in 1..Len(s) : Publishes(s, i) <=> i = 1
  BY <1>1, <1>2, <1>3, <1>4, TrailingIsQuiet DEF Publishes
<1>6. \A i \in 1..Len(s) : i = 1 \/ (i \in 2..Len(s) /\ 1 \in 1..(i - 1))
  BY <1>2, <1>3
<1>7. \A i \in 1..Len(s) : ~s[i].flag /\ s[i].skips = 0 /\ s[i].back = 0
  BY <1>1, <1>3, <1>4, <1>6, TrailingIsQuiet
<1>8. \A i \in 1..Len(s) :
          \/ s[i] \in Publishing
          \/ s[i] \in Trailing /\ \E q \in 1..(i - 1) : Publishes(s, q)
  <2>1. Publishes(s, 1) /\ s[1] \in Publishing
    BY <1>2, <1>3, <1>5
  <2>2. QED
    BY <2>1, <1>4, <1>6
<1>9. p.id = "call" => OneId(s)
  BY <1>2, <1>3, <1>5 DEF OneId
<1>10. ASSUME NEW i \in 1..Len(s), s[i].does = "look", s[i].tries > 0 PROVE OneId(s)
  <2>1. i \in 2..Len(s)
    BY <1>1, <1>3, <1>6, <1>10
  <2>2. i - 1 \in 1..Len(t) /\ t[i - 1].does = "look" /\ t[i - 1].tries # 0
    BY <2>1, <1>3, <1>10
  <2>3. QED
    BY <2>2, <1>9
<1>11. \A i \in 1..Len(s) : s[i].id = "none" => Len(s) = 1
  <2>1. \A i \in 1..Len(s) : s[i].id = "none" => i = 1
    BY <1>3, <1>4, <1>6, TrailingIsQuiet
  <2>2. p.id = "none" => Len(s) = 1
    BY <1>3
  <2>3. QED
    BY <2>1, <2>2, <1>3
<1>12. p.id # "none" => \A i \in 1..Len(s) : s[i].id # "none"
  BY <1>3, <1>4, <1>6, TrailingIsQuiet
<1>13. \A i, j \in 1..Len(s) : i < j => ~(j <= i + s[i].skips)
  <2>1. Len(s) \in Nat
    BY <1>2, <1>3
  <2>2. QED
    BY <2>1, <1>7
<1>14. ASSUME NEW i \in 1..Len(s), s[i].does = "edit"
       PROVE  \E j \in 1..(i - 1) : s[j].does = "look"
  <2>1. i \in 2..Len(s) /\ i - 1 \in 1..Len(t) /\ t[i - 1].does = "edit"
    BY <1>1, <1>3, <1>6, <1>14
  <2>2. PICK j \in 1..(i - 1 - 1) : t[j].does = "look"
    BY <2>1 DEF Endings
  <2>3. j \in 1..Len(t) /\ j + 1 \in 1..(i - 1)
    BY <2>1, <2>2, <1>2
  <2>4. QED
    BY <2>2, <2>3, <1>3
<1>15. SoundSteps(s)
  <2>1. /\ \A i, j \in 1..Len(s) : Publishes(s, i) /\ Publishes(s, j) => i = j
        /\ \A i \in 1..Len(s) : s[i].back # 1 /\ ~s[i].flag
    BY <1>5, <1>7
  <2>2. QED
    BY <2>1, <1>14, <1>3, <1>8, <1>10, <1>11, <1>13 DEF SoundSteps
<1>16. QED
  BY <1>9, <1>12, <1>15 DEF s, Extensible

LEMMA RepeatedIsSound ==
  ASSUME NEW r \in Repeatable, NEW p \in Publishing, NEW t \in Endings, p.id # "none",
         p.id # "call" => \A i \in 1..Len(t) : t[i].does = "look" => t[i].tries = 0
  PROVE  /\ Extensible(<<r, p>> \o t)
         /\ p.id = "call" => OneId(<<r, p>> \o t)
<1> DEFINE s == <<r, p>> \o t
<1>1. /\ p \in Requests /\ p.does = "publish" /\ p.skips = 0 /\ ~p.flag
      /\ r \in Leading /\ r \in Requests /\ r.does \in {"read", "bytes"} /\ r.skips = 0
      /\ r.back = 0
      /\ ~r.flag /\ r.id # "none"
  BY DEF Publishing, Repeatable, Leading
<1>2. t \in Seq(Requests) /\ Len(t) \in Nat
  <2>1. Trailing \subseteq Requests
    BY DEF Trailing
  <2>2. QED
    BY <2>1 DEF Endings
<1>3. /\ s \in Seq(Requests) /\ s # <<>> /\ Len(s) = Len(t) + 2 /\ s[1] = r /\ s[2] = p
      /\ \A i \in 3..Len(s) : s[i] = t[i - 2] /\ i - 2 \in 1..Len(t)
      /\ \A i \in 1..Len(t) : s[i + 2] = t[i]
  BY <1>1, <1>2
<1> HIDE DEF s
<1>4. \A i \in 3..Len(s) : s[i] \in Trailing
  BY <1>3 DEF Endings
<1>5. \A i \in 1..Len(s) : i = 1 \/ i = 2 \/ (i \in 3..Len(s) /\ 2 \in 1..(i - 1))
  BY <1>2, <1>3
<1>6. \A i \in 1..Len(s) : Publishes(s, i) <=> i = 2
  BY <1>1, <1>3, <1>4, <1>5, TrailingIsQuiet DEF Publishes
<1>7. \A i \in 1..Len(s) : ~s[i].flag /\ s[i].skips = 0 /\ s[i].id # "none"
  BY <1>1, <1>3, <1>4, <1>5, TrailingIsQuiet
<1>8. \A i \in 1..Len(s) : s[i].back = 1 => i > 1 /\ s[i - 1] \in Repeatable
  <2>1. \A i \in 1..Len(s) : s[i].back = 1 => i = 2
    BY <1>1, <1>3, <1>4, <1>5, TrailingIsQuiet
  <2>2. QED
    BY <2>1, <1>3
<1>9. ASSUME NEW i \in 1..Len(s)
      PROVE  \/ s[i] \in Leading /\ \A q \in 1..Len(s) : Publishes(s, q) => i < q
             \/ s[i] \in Publishing
             \/ s[i] \in Trailing /\ \E q \in 1..(i - 1) : Publishes(s, q)
  <2>1. CASE i = 1
    <3>1. \A q \in 1..Len(s) : Publishes(s, q) => i < q
      BY <2>1, <1>6
    <3>2. QED
      BY <3>1, <2>1, <1>1, <1>3
  <2>2. CASE i = 2
    BY <2>2, <1>3
  <2>3. CASE i \in 3..Len(s) /\ 2 \in 1..(i - 1)
    <3>1. Publishes(s, 2)
      BY <1>2, <1>3, <1>6
    <3>2. QED
      BY <3>1, <2>3, <1>4
  <2>4. QED
    BY <1>5, <2>1, <2>2, <2>3
<1>10. p.id = "call" => OneId(s)
  BY <1>3, <1>6 DEF OneId
<1>11. ASSUME NEW i \in 1..Len(s), s[i].does = "look", s[i].tries > 0 PROVE OneId(s)
  <2>1. i \in 3..Len(s)
    BY <1>1, <1>3, <1>5, <1>11
  <2>2. i - 2 \in 1..Len(t) /\ t[i - 2].does = "look" /\ t[i - 2].tries # 0
    BY <2>1, <1>3, <1>11
  <2>3. QED
    BY <2>2, <1>10
<1>12. \A i, j \in 1..Len(s) : i < j => ~(j <= i + s[i].skips)
  <2>1. Len(s) \in Nat
    BY <1>2, <1>3
  <2>2. QED
    BY <2>1, <1>7
<1>13. ASSUME NEW i \in 1..Len(s), s[i].does = "edit"
       PROVE  \E j \in 1..(i - 1) : s[j].does = "look"
  <2>1. i \in 3..Len(s) /\ i - 2 \in 1..Len(t) /\ t[i - 2].does = "edit"
    BY <1>1, <1>3, <1>5, <1>13
  <2>2. PICK j \in 1..(i - 2 - 1) : t[j].does = "look"
    BY <2>1 DEF Endings
  <2>3. j \in 1..Len(t) /\ j + 2 \in 1..(i - 1)
    BY <2>1, <2>2, <1>2
  <2>4. QED
    BY <2>2, <2>3, <1>3
<1>14. SoundSteps(s)
  <2>1. \A i, j \in 1..Len(s) : Publishes(s, i) /\ Publishes(s, j) => i = j
    BY <1>6
  <2>2. QED
    BY <2>1, <1>13, <1>3, <1>7, <1>8, <1>9, <1>11, <1>12 DEF SoundSteps
<1>15. QED
  BY <1>7, <1>10, <1>14 DEF s, Extensible

-------------------------------------------------------------------------------
(* The requests of the table.                                                *)

\* A request by what the machine does with it.
Is(r, does, id, tries, again, back, skips) ==
    /\ r \in Requests
    /\ r.does = does /\ r.id = id /\ r.tries = tries /\ r.again = again
    /\ r.back = back /\ r.skips = skips
Ways(r, needs, flag, ignores, optional) ==
    r.needs = needs /\ r.flag = flag /\ r.ignores = ignores /\ r.optional = optional

LEMMA Numbers ==
  /\ PhotoTries \in Nat \ {0} /\ VideoTries \in Nat \ {0}
  /\ LookTries \in Nat \ {0} /\ Window \in Nat \ {0}
  /\ Retries \in Nat /\ Older \in Nat /\ MaxFaults \in Nat /\ MaxForeign \in Nat
<1>1. /\ PhotoTries \in {PhotoTries, VideoTries, LookTries, Window}
      /\ VideoTries \in {PhotoTries, VideoTries, LookTries, Window}
      /\ LookTries \in {PhotoTries, VideoTries, LookTries, Window}
      /\ Window \in {PhotoTries, VideoTries, LookTries, Window}
  OBVIOUS
<1>2. /\ Retries \in {Retries, Older, MaxFaults, MaxForeign}
      /\ Older \in {Retries, Older, MaxFaults, MaxForeign}
      /\ MaxFaults \in {Retries, Older, MaxFaults, MaxForeign}
      /\ MaxForeign \in {Retries, Older, MaxFaults, MaxForeign}
  OBVIOUS
<1>3. QED
  BY <1>1, <1>2, ProceduresAssumption

LEMMA Ranges ==
  ASSUME TypeOK
  PROVE  /\ attempt \in Nat \ {0} /\ attempt <= VideoTries + PhotoTries + LookTries
         /\ faults \in 0..MaxFaults /\ faults \in Nat
         /\ wire \in 0..Retries /\ sends \in 1..2 /\ foreign \in 0..MaxForeign
<1>1. /\ attempt \in 1..VideoTries + PhotoTries + LookTries
      /\ wire \in 0..Retries /\ sends \in 1..2
      /\ faults \in 0..MaxFaults /\ foreign \in 0..MaxForeign
  BY DEF TypeOK
<1>2. QED
  BY <1>1, Numbers

\* What an action may do to the count of faults.
LEMMA Faults ==
  ASSUME TypeOK, Fault \/ UNCHANGED faults
  PROVE  faults' \in {faults, faults + 1} /\ faults' <= MaxFaults
BY Ranges, Numbers DEF Fault

LEMMA TriesTyped ==
  /\ {0, 1, 2, PhotoTries, VideoTries, LookTries} \subseteq 0..(PhotoTries + VideoTries + LookTries)
  /\ {PhotoTries, VideoTries} \subseteq Nat \ {0}
BY Numbers

LEMMA RequestIs ==
  /\ Is(Request, "read", "same", 1, {}, 0, 0)
  /\ Ways(Request, FALSE, FALSE, FALSE, FALSE)
BY Numbers DEF Request, Requests, Is, Ways

LEMMA NeedingIs ==
  /\ Is(Needing(Request), "read", "same", 1, {}, 0, 0)
  /\ Ways(Needing(Request), TRUE, FALSE, FALSE, FALSE)
BY RequestIs, TriesTyped DEF Needing, Is, Ways, Requests

LEMMA OptionalIs ==
  /\ Is(Optional(Request), "read", "same", 1, {}, 0, 0)
  /\ Ways(Optional(Request), FALSE, FALSE, FALSE, TRUE)
BY RequestIs, TriesTyped DEF Optional, Is, Ways, Requests

LEMMA LookupIs ==
  /\ Is(Lookup, "read", "same", 1, {}, 0, 0)
  /\ Ways(Lookup, TRUE, FALSE, FALSE, TRUE)
BY RequestIs, TriesTyped DEF Lookup, Optional, Needing, Is, Ways, Requests

LEMMA DownloadIs ==
  /\ Is(Download, "read", "same", 1, {}, 0, 0)
  /\ Ways(Download, FALSE, FALSE, FALSE, FALSE)
BY RequestIs, TriesTyped DEF Download, Is, Ways, Requests

LEMMA NeededDownloadIs ==
  /\ Is(Needing(Download), "read", "same", 1, {}, 0, 0)
  /\ Ways(Needing(Download), TRUE, FALSE, FALSE, FALSE)
BY DownloadIs, TriesTyped DEF Needing, Is, Ways, Requests

LEMMA PlainlyIs ==
  /\ Is([Request EXCEPT !.via = "plain"], "read", "same", 1, {}, 0, 0)
  /\ Ways([Request EXCEPT !.via = "plain"], FALSE, FALSE, FALSE, FALSE)
BY RequestIs, TriesTyped DEF Is, Ways, Requests

LEMMA RuploadOffsetIs ==
  /\ Is(RuploadOffset, "read", "same", 1, {}, 0, 0)
  /\ Ways(RuploadOffset, FALSE, FALSE, FALSE, FALSE)
BY RequestIs, TriesTyped DEF RuploadOffset, Is, Ways, Requests

LEMMA ShareToThreadsIs ==
  /\ Is(ShareToThreads, "read", "same", 2, {"graphql"}, 0, 0)
  /\ Ways(ShareToThreads, TRUE, FALSE, FALSE, TRUE)
BY LookupIs, TriesTyped DEF ShareToThreads, Is, Ways, Requests

LEMMA PhotoRuploadIs ==
  /\ Is(PhotoRupload, "bytes", "same", 1, {}, 0, 0)
  /\ Ways(PhotoRupload, FALSE, FALSE, FALSE, FALSE)
BY RequestIs, TriesTyped DEF PhotoRupload, Uploaded, Is, Ways, Requests

LEMMA UploadedIs ==
  /\ Is(Uploaded("plain", TRUE), "bytes", "same", 1, {}, 0, 0)
  /\ Ways(Uploaded("plain", TRUE), TRUE, FALSE, FALSE, FALSE)
BY RequestIs, TriesTyped DEF Uploaded, Is, Ways, Requests

LEMMA CurrentMediaIdsIs ==
  /\ Is(CurrentMediaIds, "remember", "same", 1, {}, 0, 0)
  /\ Ways(CurrentMediaIds, FALSE, FALSE, TRUE, FALSE)
BY RequestIs, TriesTyped DEF CurrentMediaIds, Is, Ways, Requests

LEMMA CurrentStoryIdsIs ==
  /\ Is(CurrentStoryIds, "remember", "same", 1, {}, 0, 0)
  /\ Ways(CurrentStoryIds, FALSE, FALSE, TRUE, FALSE)
BY RequestIs, TriesTyped DEF CurrentStoryIds, Is, Ways, Requests

LEMMA SettingIs ==
  /\ Is(Setting, "set", "same", 1, {}, 0, 0)
  /\ Ways(Setting, FALSE, FALSE, FALSE, FALSE)
BY RequestIs, TriesTyped DEF Setting, Is, Ways, Requests

LEMMA OptionalSettingIs ==
  /\ Is(Optional(Setting), "set", "same", 1, {}, 0, 0)
  /\ Ways(Optional(Setting), FALSE, FALSE, FALSE, TRUE)
BY SettingIs, TriesTyped DEF Optional, Is, Ways, Requests

LEMMA TakenIs ==
  /\ Is(Taken, "set", "once", 1, {}, 0, 0)
  /\ Ways(Taken, FALSE, FALSE, FALSE, FALSE)
BY SettingIs, TriesTyped DEF Taken, Is, Ways, Requests

LEMMA TakenNeedsIs ==
  /\ Is([Taken EXCEPT !.needs = TRUE], "set", "once", 1, {}, 0, 0)
  /\ Ways([Taken EXCEPT !.needs = TRUE], TRUE, FALSE, FALSE, FALSE)
BY TakenIs, TriesTyped DEF Is, Ways, Requests

LEMMA DescribedIs ==
  /\ Is(Described, "set", "same", 1, {}, 0, 0)
  /\ Ways(Described, TRUE, FALSE, FALSE, FALSE)
BY SettingIs, TriesTyped DEF Described, Is, Ways, Requests

LEMMA FlaggedIs ==
  /\ Is(Flagged, "set", "same", 1, {}, 0, 0)
  /\ Ways(Flagged, FALSE, TRUE, FALSE, FALSE)
BY SettingIs, TriesTyped DEF Flagged, Is, Ways, Requests

LEMMA FlaggedNeedsIs ==
  /\ Is(Needing(Flagged), "set", "same", 1, {}, 0, 0)
  /\ Ways(Needing(Flagged), TRUE, TRUE, FALSE, FALSE)
BY FlaggedIs, TriesTyped DEF Needing, Is, Ways, Requests

LEMMA FlaggedOnceIs ==
  /\ Is([Flagged EXCEPT !.id = "once"], "set", "once", 1, {}, 0, 0)
  /\ Ways([Flagged EXCEPT !.id = "once"], FALSE, TRUE, FALSE, FALSE)
BY FlaggedIs, TriesTyped DEF Is, Ways, Requests

LEMMA Skipping1Is ==
  /\ Is(Skipping(1), "read", "same", 1, {}, 0, 1)
  /\ Ways(Skipping(1), FALSE, FALSE, FALSE, FALSE)
BY RequestIs, TriesTyped DEF Skipping, Is, Ways, Requests

LEMMA Skipping2Is ==
  /\ Is(Skipping(2), "read", "same", 1, {}, 0, 2)
  /\ Ways(Skipping(2), FALSE, FALSE, FALSE, FALSE)
BY RequestIs, TriesTyped DEF Skipping, Is, Ways, Requests

LEMMA Skipping3Is ==
  /\ Is(Skipping(3), "read", "same", 1, {}, 0, 3)
  /\ Ways(Skipping(3), FALSE, FALSE, FALSE, FALSE)
BY RequestIs, TriesTyped DEF Skipping, Is, Ways, Requests

LEMMA Skipping4Is ==
  /\ Is(Skipping(4), "read", "same", 1, {}, 0, 4)
  /\ Ways(Skipping(4), FALSE, FALSE, FALSE, FALSE)
BY RequestIs, TriesTyped DEF Skipping, Is, Ways, Requests

LEMMA OptionalSkipping2Is ==
  /\ Is(Optional(Skipping(2)), "read", "same", 1, {}, 0, 2)
  /\ Ways(Optional(Skipping(2)), FALSE, FALSE, FALSE, TRUE)
BY Skipping2Is, TriesTyped DEF Optional, Is, Ways, Requests

LEMMA OptionalSkipping4Is ==
  /\ Is(Optional(Skipping(4)), "read", "same", 1, {}, 0, 4)
  /\ Ways(Optional(Skipping(4)), FALSE, FALSE, FALSE, TRUE)
BY Skipping4Is, TriesTyped DEF Optional, Is, Ways, Requests

LEMMA CreatedIs ==
  /\ Is(Created, "publish", "call", 1, {}, 0, 0)
  /\ Ways(Created, TRUE, FALSE, FALSE, FALSE)
BY RequestIs, TriesTyped DEF Created, Is, Ways, Requests

LEMMA CreatedFreeIs ==
  /\ Is([Created EXCEPT !.needs = FALSE], "publish", "call", 1, {}, 0, 0)
  /\ Ways([Created EXCEPT !.needs = FALSE], FALSE, FALSE, FALSE, FALSE)
BY CreatedIs, TriesTyped DEF Is, Ways, Requests

LEMMA UnmarkedIs ==
  /\ Is(Unmarked, "publish", "none", 1, {}, 0, 0)
  /\ Ways(Unmarked, TRUE, FALSE, FALSE, FALSE)
BY CreatedIs, TriesTyped DEF Unmarked, Is, Ways, Requests

LEMMA UnmarkedFreeIs ==
  /\ Is([Unmarked EXCEPT !.needs = FALSE], "publish", "none", 1, {}, 0, 0)
  /\ Ways([Unmarked EXCEPT !.needs = FALSE], FALSE, FALSE, FALSE, FALSE)
BY UnmarkedIs, TriesTyped DEF Is, Ways, Requests

LEMMA PhotoConfigureIs ==
  /\ Is(PhotoConfigure, "publish", "call", PhotoTries, {"empty"}, 0, 0)
  /\ Ways(PhotoConfigure, FALSE, FALSE, FALSE, FALSE)
BY RequestIs, TriesTyped DEF PhotoConfigure, Is, Ways, Requests

LEMMA PhotoConfigureToStoryIs ==
  /\ Is(PhotoConfigureToStory, "publish", "call", PhotoTries, {"empty"}, 1, 0)
  /\ Ways(PhotoConfigureToStory, FALSE, FALSE, FALSE, FALSE)
BY PhotoConfigureIs, TriesTyped DEF PhotoConfigureToStory, Is, Ways, Requests

LEMMA DrawnIs ==
  /\ Is([Request EXCEPT !.does = "publish", !.id = "call"], "publish", "call", 1, {}, 0, 0)
  /\ Ways([Request EXCEPT !.does = "publish", !.id = "call"], FALSE, FALSE, FALSE, FALSE)
BY RequestIs, TriesTyped DEF Is, Ways, Requests

LEMMA ConfiguredCallIs ==
  /\ Is(Configured([Request EXCEPT !.does = "publish", !.id = "call"]), "publish", "call", VideoTries, {"empty", "notYet"}, 0, 0)
  /\ Ways(Configured([Request EXCEPT !.does = "publish", !.id = "call"]), FALSE, FALSE, FALSE, FALSE)
BY DrawnIs, TriesTyped DEF Configured, Is, Ways, Requests

LEMMA VideoConfigureIs ==
  /\ Is(VideoConfigure, "publish", "call", VideoTries, {"empty", "notYet"}, 1, 0)
  /\ Ways(VideoConfigure, FALSE, FALSE, FALSE, FALSE)
BY ConfiguredCallIs, TriesTyped DEF VideoConfigure, Is, Ways, Requests

LEMMA DrawnAnewIs ==
  /\ Is([Request EXCEPT !.does = "publish", !.id = "attempt"], "publish", "attempt", 1, {}, 0, 0)
  /\ Ways([Request EXCEPT !.does = "publish", !.id = "attempt"], FALSE, FALSE, FALSE, FALSE)
BY RequestIs, TriesTyped DEF Is, Ways, Requests

LEMMA AlbumConfigureIs ==
  /\ Is(AlbumConfigure, "publish", "attempt", VideoTries, {"empty", "notYet"}, 0, 0)
  /\ Ways(AlbumConfigure, FALSE, FALSE, FALSE, FALSE)
BY DrawnAnewIs, TriesTyped DEF AlbumConfigure, Configured, Is, Ways, Requests

LEMMA AlbumAgainIs ==
  /\ Is([AlbumConfigure EXCEPT !.back = 1], "publish", "attempt", VideoTries, {"empty", "notYet"}, 1, 0)
  /\ Ways([AlbumConfigure EXCEPT !.back = 1], FALSE, FALSE, FALSE, FALSE)
BY AlbumConfigureIs, TriesTyped DEF Is, Ways, Requests

LEMMA ConfigureToThreadsIs ==
  /\ Is(ConfigureToThreads, "publish", "attempt", VideoTries, {"empty", "notYet"}, 1, 0)
  /\ Ways(ConfigureToThreads, TRUE, FALSE, FALSE, FALSE)
BY AlbumAgainIs, TriesTyped DEF ConfigureToThreads, Is, Ways, Requests

LEMMA ConfigureToNobodyIs ==
  /\ Is(ConfigureToNobody, "publish", "call", VideoTries, {"empty", "notYet", "bare", "full"}, 1, 0)
  /\ Ways(ConfigureToNobody, FALSE, FALSE, FALSE, FALSE)
BY VideoConfigureIs, TriesTyped DEF ConfigureToNobody, Is, Ways, Requests

LEMMA ExposeIs ==
  /\ Is(Expose, "expose", "same", 1, {}, 0, 0)
  /\ Ways(Expose, FALSE, FALSE, FALSE, FALSE)
BY RequestIs, TriesTyped DEF Expose, Is, Ways, Requests

LEMMA ExtractIs ==
  /\ Is(ExtractConfiguredMedia, "look", "same", 0, {}, 0, 0)
  /\ Ways(ExtractConfiguredMedia, FALSE, FALSE, FALSE, FALSE)
BY RequestIs, TriesTyped DEF ExtractConfiguredMedia, Is, Ways, Requests

LEMMA NewMediaIs ==
  /\ Is(NewMediaAfterUpload, "look", "same", LookTries, {}, 0, 0)
  /\ Ways(NewMediaAfterUpload, FALSE, FALSE, FALSE, FALSE)
BY RequestIs, TriesTyped DEF NewMediaAfterUpload, Is, Ways, Requests

LEMMA ApplyUsertagsIs ==
  /\ Is(ApplyUsertags, "edit", "same", 1, {}, 0, 0)
  /\ Ways(ApplyUsertags, FALSE, FALSE, TRUE, TRUE)
BY RequestIs, TriesTyped DEF ApplyUsertags, Is, Ways, Requests

LEMMA MediaInfoIs ==
  /\ Is(MediaInfo, "read", "same", 1, {}, 0, 0)
  /\ Ways(MediaInfo, FALSE, FALSE, TRUE, TRUE)
BY RequestIs, TriesTyped DEF MediaInfo, Is, Ways, Requests

-------------------------------------------------------------------------------

LEMMA PlainRequests ==
  /\ Request \in Plain
  /\ Needing(Request) \in Plain
  /\ Optional(Request) \in Plain
  /\ Lookup \in Plain
  /\ Download \in Plain
  /\ Needing(Download) \in Plain
  /\ [Request EXCEPT !.via = "plain"] \in Plain
  /\ RuploadOffset \in Plain
  /\ ShareToThreads \in Plain
  /\ PhotoRupload \in Plain
  /\ Uploaded("plain", TRUE) \in Plain
  /\ CurrentMediaIds \in Plain
  /\ CurrentStoryIds \in Plain
  /\ Setting \in Plain
  /\ Optional(Setting) \in Plain
  /\ Taken \in Plain
  /\ [Taken EXCEPT !.needs = TRUE] \in Plain
  /\ Described \in Plain
<1>1. Request \in Plain
  BY RequestIs, TriesTyped DEF Is, Ways, Plain, Leading
<1>2. Needing(Request) \in Plain
  BY NeedingIs, TriesTyped DEF Is, Ways, Plain, Leading
<1>3. Optional(Request) \in Plain
  BY OptionalIs, TriesTyped DEF Is, Ways, Plain, Leading
<1>4. Lookup \in Plain
  BY LookupIs, TriesTyped DEF Is, Ways, Plain, Leading
<1>5. Download \in Plain
  BY DownloadIs, TriesTyped DEF Is, Ways, Plain, Leading
<1>6. Needing(Download) \in Plain
  <2> DEFINE r == Needing(Download)
  <2>1. /\ Is(r, "read", "same", 1, {}, 0, 0)
        /\ Ways(r, TRUE, FALSE, FALSE, FALSE)
    BY NeededDownloadIs
  <2> HIDE DEF r
  <2>2. r \in Plain
    BY <2>1, TriesTyped DEF Is, Ways, Plain, Leading
  <2>3. QED
    BY <2>2 DEF r
<1>7. [Request EXCEPT !.via = "plain"] \in Plain
  <2> DEFINE r == [Request EXCEPT !.via = "plain"]
  <2>1. /\ Is(r, "read", "same", 1, {}, 0, 0)
        /\ Ways(r, FALSE, FALSE, FALSE, FALSE)
    BY PlainlyIs
  <2> HIDE DEF r
  <2>2. r \in Plain
    BY <2>1, TriesTyped DEF Is, Ways, Plain, Leading
  <2>3. QED
    BY <2>2 DEF r
<1>8. RuploadOffset \in Plain
  BY RuploadOffsetIs, TriesTyped DEF Is, Ways, Plain, Leading
<1>9. ShareToThreads \in Plain
  BY ShareToThreadsIs, TriesTyped DEF Is, Ways, Plain, Leading
<1>10. PhotoRupload \in Plain
  BY PhotoRuploadIs, TriesTyped DEF Is, Ways, Plain, Leading
<1>11. Uploaded("plain", TRUE) \in Plain
  <2> DEFINE r == Uploaded("plain", TRUE)
  <2>1. /\ Is(r, "bytes", "same", 1, {}, 0, 0)
        /\ Ways(r, TRUE, FALSE, FALSE, FALSE)
    BY UploadedIs
  <2> HIDE DEF r
  <2>2. r \in Plain
    BY <2>1, TriesTyped DEF Is, Ways, Plain, Leading
  <2>3. QED
    BY <2>2 DEF r
<1>12. CurrentMediaIds \in Plain
  BY CurrentMediaIdsIs, TriesTyped DEF Is, Ways, Plain, Leading
<1>13. CurrentStoryIds \in Plain
  BY CurrentStoryIdsIs, TriesTyped DEF Is, Ways, Plain, Leading
<1>14. Setting \in Plain
  BY SettingIs, TriesTyped DEF Is, Ways, Plain, Leading
<1>15. Optional(Setting) \in Plain
  BY OptionalSettingIs, TriesTyped DEF Is, Ways, Plain, Leading
<1>16. Taken \in Plain
  BY TakenIs, TriesTyped DEF Is, Ways, Plain, Leading
<1>17. [Taken EXCEPT !.needs = TRUE] \in Plain
  <2> DEFINE r == [Taken EXCEPT !.needs = TRUE]
  <2>1. /\ Is(r, "set", "once", 1, {}, 0, 0)
        /\ Ways(r, TRUE, FALSE, FALSE, FALSE)
    BY TakenNeedsIs
  <2> HIDE DEF r
  <2>2. r \in Plain
    BY <2>1, TriesTyped DEF Is, Ways, Plain, Leading
  <2>3. QED
    BY <2>2 DEF r
<1>18. Described \in Plain
  BY DescribedIs, TriesTyped DEF Is, Ways, Plain, Leading
<1>19. QED
  BY <1>1, <1>2, <1>3, <1>4, <1>5, <1>6, <1>7, <1>8, <1>9, <1>10, <1>11, <1>12, <1>13, <1>14,
     <1>15, <1>16, <1>17, <1>18

LEMMA LeadingKinds ==
  /\ Flagged \in Leading
  /\ Needing(Flagged) \in Leading
  /\ [Flagged EXCEPT !.id = "once"] \in Leading
  /\ Skipping(1) \in Leading
  /\ Skipping(2) \in Leading
  /\ Skipping(3) \in Leading
  /\ Skipping(4) \in Leading
  /\ Optional(Skipping(2)) \in Leading
  /\ Optional(Skipping(4)) \in Leading
<1>1. Flagged \in Leading
  BY FlaggedIs, TriesTyped DEF Is, Ways, Leading
<1>2. Needing(Flagged) \in Leading
  BY FlaggedNeedsIs, TriesTyped DEF Is, Ways, Leading
<1>3. [Flagged EXCEPT !.id = "once"] \in Leading
  <2> DEFINE r == [Flagged EXCEPT !.id = "once"]
  <2>1. /\ Is(r, "set", "once", 1, {}, 0, 0)
        /\ Ways(r, FALSE, TRUE, FALSE, FALSE)
    BY FlaggedOnceIs
  <2> HIDE DEF r
  <2>2. r \in Leading
    BY <2>1, TriesTyped DEF Is, Ways, Leading
  <2>3. QED
    BY <2>2 DEF r
<1>4. Skipping(1) \in Leading
  BY Skipping1Is, TriesTyped DEF Is, Ways, Leading
<1>5. Skipping(2) \in Leading
  BY Skipping2Is, TriesTyped DEF Is, Ways, Leading
<1>6. Skipping(3) \in Leading
  BY Skipping3Is, TriesTyped DEF Is, Ways, Leading
<1>7. Skipping(4) \in Leading
  BY Skipping4Is, TriesTyped DEF Is, Ways, Leading
<1>8. Optional(Skipping(2)) \in Leading
  BY OptionalSkipping2Is, TriesTyped DEF Is, Ways, Leading
<1>9. Optional(Skipping(4)) \in Leading
  BY OptionalSkipping4Is, TriesTyped DEF Is, Ways, Leading
<1>10. QED
  BY <1>1, <1>2, <1>3, <1>4, <1>5, <1>6, <1>7, <1>8, <1>9

LEMMA PublishingRequests ==
  /\ Created \in Publishing
  /\ [Created EXCEPT !.needs = FALSE] \in Publishing
  /\ Unmarked \in Publishing
  /\ [Unmarked EXCEPT !.needs = FALSE] \in Publishing
  /\ PhotoConfigure \in Publishing
  /\ PhotoConfigureToStory \in Publishing
  /\ VideoConfigure \in Publishing
  /\ AlbumConfigure \in Publishing
  /\ ConfigureToThreads \in Publishing
  /\ ConfigureToNobody \in Publishing
<1>1. Created \in Publishing
  BY CreatedIs, TriesTyped DEF Is, Ways, Publishing
<1>2. [Created EXCEPT !.needs = FALSE] \in Publishing
  <2> DEFINE r == [Created EXCEPT !.needs = FALSE]
  <2>1. /\ Is(r, "publish", "call", 1, {}, 0, 0)
        /\ Ways(r, FALSE, FALSE, FALSE, FALSE)
    BY CreatedFreeIs
  <2> HIDE DEF r
  <2>2. r \in Publishing
    BY <2>1, TriesTyped DEF Is, Ways, Publishing
  <2>3. QED
    BY <2>2 DEF r
<1>3. Unmarked \in Publishing
  BY UnmarkedIs, TriesTyped DEF Is, Ways, Publishing
<1>4. [Unmarked EXCEPT !.needs = FALSE] \in Publishing
  <2> DEFINE r == [Unmarked EXCEPT !.needs = FALSE]
  <2>1. /\ Is(r, "publish", "none", 1, {}, 0, 0)
        /\ Ways(r, FALSE, FALSE, FALSE, FALSE)
    BY UnmarkedFreeIs
  <2> HIDE DEF r
  <2>2. r \in Publishing
    BY <2>1, TriesTyped DEF Is, Ways, Publishing
  <2>3. QED
    BY <2>2 DEF r
<1>5. PhotoConfigure \in Publishing
  BY PhotoConfigureIs, TriesTyped DEF Is, Ways, Publishing
<1>6. PhotoConfigureToStory \in Publishing
  BY PhotoConfigureToStoryIs, TriesTyped DEF Is, Ways, Publishing
<1>7. VideoConfigure \in Publishing
  BY VideoConfigureIs, TriesTyped DEF Is, Ways, Publishing
<1>8. AlbumConfigure \in Publishing
  BY AlbumConfigureIs, TriesTyped DEF Is, Ways, Publishing
<1>9. ConfigureToThreads \in Publishing
  BY ConfigureToThreadsIs, TriesTyped DEF Is, Ways, Publishing
<1>10. ConfigureToNobody \in Publishing
  BY ConfigureToNobodyIs, TriesTyped DEF Is, Ways, Publishing
<1>11. QED
  BY <1>1, <1>2, <1>3, <1>4, <1>5, <1>6, <1>7, <1>8, <1>9, <1>10

LEMMA TrailingRequests ==
  /\ Expose \in Trailing
  /\ ExtractConfiguredMedia \in Trailing
  /\ NewMediaAfterUpload \in Trailing
  /\ ApplyUsertags \in Trailing
  /\ MediaInfo \in Trailing
<1>1. Expose \in Trailing
  BY ExposeIs, TriesTyped DEF Is, Ways, Trailing
<1>2. ExtractConfiguredMedia \in Trailing
  BY ExtractIs, TriesTyped DEF Is, Ways, Trailing
<1>3. NewMediaAfterUpload \in Trailing
  BY NewMediaIs, TriesTyped DEF Is, Ways, Trailing
<1>4. ApplyUsertags \in Trailing
  BY ApplyUsertagsIs, TriesTyped DEF Is, Ways, Trailing
<1>5. MediaInfo \in Trailing
  BY MediaInfoIs, TriesTyped DEF Is, Ways, Trailing
<1>6. QED
  BY <1>1, <1>2, <1>3, <1>4, <1>5

LEMMA RepeatableRequests ==
  /\ Optional(Request) \in Repeatable
  /\ PhotoRupload \in Repeatable
<1>1. Optional(Request) \in Repeatable
  BY OptionalIs, TriesTyped DEF Is, Ways, Repeatable, Leading
<1>2. PhotoRupload \in Repeatable
  BY PhotoRuploadIs, TriesTyped DEF Is, Ways, Repeatable, Leading
<1>3. QED
  BY <1>1, <1>2

LEMMA TuplesJoined ==
  /\ \A a, b \in Requests : <<a>> \o <<b>> = <<a, b>>
  /\ \A a, b, c \in Requests : <<a>> \o <<b, c>> = <<a, b, c>>
  /\ \A a, b, c, d \in Requests : <<a>> \o <<b, c, d>> = <<a, b, c, d>>
  /\ \A a, b, c, d \in Requests : <<a, b>> \o <<c, d>> = <<a, b, c, d>>
  /\ \A a, b, c, d \in Requests : <<a, b, c>> \o <<d>> = <<a, b, c, d>>
  /\ \A a, b, c, d, e \in Requests : <<a>> \o <<b, c, d, e>> = <<a, b, c, d, e>>
<1>1. ASSUME NEW a \in Requests, NEW b \in Requests
     PROVE  <<a>> \o <<b>> = <<a, b>>
  <2> DEFINE u == <<a>> \o <<b>>
  <2>1. /\ u \in Seq(Requests) /\ Len(u) = 2
        /\ u[1] = a /\ u[2] = b
    OBVIOUS
  <2> HIDE DEF u
  <2>2. u = <<a, b>>
    BY <2>1
  <2>3. QED
    BY <2>2 DEF u
<1>2. ASSUME NEW a \in Requests, NEW b \in Requests, NEW c \in Requests
     PROVE  <<a>> \o <<b, c>> = <<a, b, c>>
  <2> DEFINE u == <<a>> \o <<b, c>>
  <2>1. /\ u \in Seq(Requests) /\ Len(u) = 3
        /\ u[1] = a /\ u[2] = b /\ u[3] = c
    OBVIOUS
  <2> HIDE DEF u
  <2>2. u = <<a, b, c>>
    BY <2>1
  <2>3. QED
    BY <2>2 DEF u
<1>3. ASSUME NEW a \in Requests, NEW b \in Requests, NEW c \in Requests, NEW d \in Requests
     PROVE  <<a>> \o <<b, c, d>> = <<a, b, c, d>>
  <2> DEFINE u == <<a>> \o <<b, c, d>>
  <2>1. /\ u \in Seq(Requests) /\ Len(u) = 4
        /\ u[1] = a /\ u[2] = b /\ u[3] = c /\ u[4] = d
    OBVIOUS
  <2> HIDE DEF u
  <2>2. u = <<a, b, c, d>>
    BY <2>1
  <2>3. QED
    BY <2>2 DEF u
<1>4. ASSUME NEW a \in Requests, NEW b \in Requests, NEW c \in Requests, NEW d \in Requests
     PROVE  <<a, b>> \o <<c, d>> = <<a, b, c, d>>
  <2> DEFINE u == <<a, b>> \o <<c, d>>
  <2>1. /\ u \in Seq(Requests) /\ Len(u) = 4
        /\ u[1] = a /\ u[2] = b /\ u[3] = c /\ u[4] = d
    OBVIOUS
  <2> HIDE DEF u
  <2>2. u = <<a, b, c, d>>
    BY <2>1
  <2>3. QED
    BY <2>2 DEF u
<1>5. ASSUME NEW a \in Requests, NEW b \in Requests, NEW c \in Requests, NEW d \in Requests
     PROVE  <<a, b, c>> \o <<d>> = <<a, b, c, d>>
  <2> DEFINE u == <<a, b, c>> \o <<d>>
  <2>1. /\ u \in Seq(Requests) /\ Len(u) = 4
        /\ u[1] = a /\ u[2] = b /\ u[3] = c /\ u[4] = d
    OBVIOUS
  <2> HIDE DEF u
  <2>2. u = <<a, b, c, d>>
    BY <2>1
  <2>3. QED
    BY <2>2 DEF u
<1>6. ASSUME NEW a \in Requests, NEW b \in Requests, NEW c \in Requests, NEW d \in Requests, NEW e \in Requests
     PROVE  <<a>> \o <<b, c, d, e>> = <<a, b, c, d, e>>
  <2> DEFINE u == <<a>> \o <<b, c, d, e>>
  <2>1. /\ u \in Seq(Requests) /\ Len(u) = 5
        /\ u[1] = a /\ u[2] = b /\ u[3] = c /\ u[4] = d /\ u[5] = e
    OBVIOUS
  <2> HIDE DEF u
  <2>2. u = <<a, b, c, d, e>>
    BY <2>1
  <2>3. QED
    BY <2>2 DEF u
<1>7. QED
  BY <1>1, <1>2, <1>3, <1>4, <1>5, <1>6

-------------------------------------------------------------------------------
(* The methods.                                                              *)

SoundMethod(m) == Sound(m) /\ OneId(m.steps)

LEMMA MethodIsSound ==
  ASSUME NEW s, SoundSteps(s)
  PROVE  /\ Sound(Sends(s)) /\ Sound(LoggedIn(s))
         /\ OneId(s) => SoundMethod(Sends(s)) /\ SoundMethod(LoggedIn(s))
<1>1. /\ Sends(s).steps = s /\ Sends(s).login = FALSE /\ Sends(s).swallows = FALSE
      /\ LoggedIn(s).steps = s /\ LoggedIn(s).login = TRUE /\ LoggedIn(s).swallows = FALSE
  BY DEF Sends, LoggedIn
<1>2. QED
  BY <1>1 DEF Sound, SoundMethod

LEMMA PlainMethodIsSound ==
  ASSUME NEW s \in Seq(Plain), s # <<>>
  PROVE  SoundMethod(Sends(s)) /\ SoundMethod(LoggedIn(s))
BY PlainOpens, OpeningIsSound, MethodIsSound

LEMMA SwallowingMethodIsSound ==
  ASSUME NEW s \in Seq(Plain), s # <<>>,
         \A i \in 1..Len(s) : s[i].does = "set" => ~s[i].needs
  PROVE  SoundMethod(Swallows(s))
<1>1. SoundSteps(s) /\ OneId(s)
  BY PlainOpens, OpeningIsSound
<1>2. Swallows(s).steps = s /\ Swallows(s).login = FALSE /\ Swallows(s).swallows = TRUE
  BY DEF Swallows
<1>3. \A i \in 1..Len(s) : s[i] \in Leading
  BY DEF Plain
<1>4. QED
  BY <1>1, <1>2, <1>3 DEF Sound, SoundMethod

\* A method whose last request is a publication.
LEMMA LastPublicationIsSound ==
  ASSUME NEW p \in Publishing, p.back = 0, p.id = "call"
  PROVE  Extensible(<<p>>) /\ OneId(<<p>>)
<1>1. <<>> \in Endings /\ <<p>> \o <<>> = <<p>> /\ Len(<<>>) = 0
  BY DEF Endings
<1>2. Extensible(<<p>> \o <<>>) /\ OneId(<<p>> \o <<>>)
  BY <1>1, PublicationIsSound
<1>3. QED
  BY <1>1, <1>2

LEMMA SendingMethodIsSound ==
  ASSUME NEW s \in Seq(Plain), NEW p \in Publishing, p.back = 0, p.id = "call"
  PROVE  SoundMethod(Sends(s \o <<p>>)) /\ SoundMethod(LoggedIn(s \o <<p>>))
<1>1. Extensible(s \o <<p>>) /\ OneId(s \o <<p>>)
  BY PlainOpens, LastPublicationIsSound, Prefixed
<1>2. QED
  BY <1>1, MethodIsSound DEF Extensible

\* Methods of one request.
LEMMA OneRequestIsSound ==
  /\ \A r \in {Setting, Described, Flagged, [Flagged EXCEPT !.id = "once"], Taken,
               [Taken EXCEPT !.needs = TRUE]} :
        SoundMethod(Sends(<<r>>)) /\ SoundMethod(LoggedIn(<<r>>))
  /\ \A r \in {Created, [Created EXCEPT !.needs = FALSE]} :
        SoundMethod(Sends(<<r>>)) /\ SoundMethod(LoggedIn(<<r>>))
<1>1. ASSUME NEW r \in Leading, r.skips = 0
      PROVE  SoundMethod(Sends(<<r>>)) /\ SoundMethod(LoggedIn(<<r>>))
  BY <1>1, LastIsSound, MethodIsSound
<1>2. ASSUME NEW r \in Publishing, r.back = 0, r.id = "call"
      PROVE  SoundMethod(Sends(<<r>>)) /\ SoundMethod(LoggedIn(<<r>>))
  BY <1>2, LastPublicationIsSound, MethodIsSound DEF Extensible
<1>3. \A r \in {Setting, Described, Flagged, [Flagged EXCEPT !.id = "once"], Taken,
                [Taken EXCEPT !.needs = TRUE]} : r \in Leading /\ r.skips = 0
  BY PlainRequests, LeadingKinds, FlaggedIs, FlaggedOnceIs DEF Plain, Is
<1>4. \A r \in {Created, [Created EXCEPT !.needs = FALSE]} :
          r \in Publishing /\ r.back = 0 /\ r.id = "call"
  BY PublishingRequests, CreatedIs, CreatedFreeIs DEF Is
<1>5. QED
  BY <1>1, <1>2, <1>3, <1>4

LEMMA OneRequestMethods ==
  /\ SoundMethod(DirectSend) /\ SoundMethod(DirectReaction) /\ SoundMethod(DirectThreadCreate)
  /\ SoundMethod(DirectMessageSeen) /\ SoundMethod(DirectThreadChanges)
  /\ SoundMethod(DirectPendingApprove)
  /\ SoundMethod(DirectThreadMarks) /\ SoundMethod(CommentLike) /\ SoundMethod(CommentPin)
  /\ SoundMethod(MediaLike) /\ SoundMethod(MediaSave) /\ SoundMethod(MediaNotes)
  /\ SoundMethod(MediaPin) /\ SoundMethod(ClipPin) /\ SoundMethod(ClipSeen)
  /\ SoundMethod(HashtagFollow) /\ SoundMethod(HighlightCreate) /\ SoundMethod(HighlightEdit)
  /\ SoundMethod(HighlightDelete) /\ SoundMethod(NoteChanges) /\ SoundMethod(CreateNote)
  /\ SoundMethod(QuicksnapDelete) /\ SoundMethod(MusicBookmark) /\ SoundMethod(FollowRequests)
  /\ SoundMethod(UserBlock) /\ SoundMethod(MuteFromFollow) /\ SoundMethod(EnableNotifications)
  /\ SoundMethod(CloseFriend) /\ SoundMethod(AccountLinks) /\ SoundMethod(AccountSetPrivate)
  /\ SoundMethod(AccountSetBiography) /\ SoundMethod(Confirm) /\ SoundMethod(NotificationSettings)
  /\ SoundMethod(TotpGenerateSeed) /\ SoundMethod(TotpEnable) /\ SoundMethod(TotpDisable)
  /\ SoundMethod(DirectSendCutoutSticker) /\ SoundMethod(DirectProfileShare)
<1>1. /\ SoundMethod(DirectSend) /\ SoundMethod(DirectReaction) /\ SoundMethod(DirectThreadCreate)
      /\ SoundMethod(DirectMessageSeen) /\ SoundMethod(DirectThreadChanges)
      /\ SoundMethod(DirectPendingApprove)
      /\ SoundMethod(DirectThreadMarks) /\ SoundMethod(CommentLike) /\ SoundMethod(CommentPin)
      /\ SoundMethod(MediaLike) /\ SoundMethod(MediaSave) /\ SoundMethod(MediaNotes)
      /\ SoundMethod(MediaPin)
  BY OneRequestIsSound DEF DirectSend, DirectReaction, DirectThreadCreate,
    DirectMessageSeen, DirectThreadChanges, DirectPendingApprove, DirectThreadMarks,
    CommentLike, CommentPin, MediaLike, MediaSave, MediaNotes, MediaPin
<1>2. /\ SoundMethod(ClipPin) /\ SoundMethod(ClipSeen) /\ SoundMethod(HashtagFollow)
      /\ SoundMethod(HighlightCreate) /\ SoundMethod(HighlightEdit) /\ SoundMethod(HighlightDelete)
      /\ SoundMethod(NoteChanges) /\ SoundMethod(CreateNote) /\ SoundMethod(QuicksnapDelete)
      /\ SoundMethod(MusicBookmark) /\ SoundMethod(FollowRequests) /\ SoundMethod(UserBlock)
      /\ SoundMethod(MuteFromFollow)
  BY OneRequestIsSound DEF ClipPin, ClipSeen, HashtagFollow, HighlightCreate, HighlightEdit,
    HighlightDelete, NoteChanges, CreateNote, QuicksnapDelete, MusicBookmark,
    FollowRequests, UserBlock, MuteFromFollow
<1>3. /\ SoundMethod(EnableNotifications) /\ SoundMethod(CloseFriend) /\ SoundMethod(AccountLinks)
      /\ SoundMethod(AccountSetPrivate) /\ SoundMethod(AccountSetBiography) /\ SoundMethod(Confirm)
      /\ SoundMethod(NotificationSettings) /\ SoundMethod(TotpGenerateSeed)
      /\ SoundMethod(TotpEnable)
      /\ SoundMethod(TotpDisable) /\ SoundMethod(DirectSendCutoutSticker)
      /\ SoundMethod(DirectProfileShare)
  BY OneRequestIsSound DEF EnableNotifications, CloseFriend, AccountLinks,
    AccountSetPrivate, AccountSetBiography, Confirm, NotificationSettings, TotpGenerateSeed,
    TotpEnable, TotpDisable, DirectSendCutoutSticker, DirectProfileShare, DirectSend
<1>4. QED
  BY <1>1, <1>2, <1>3

LEMMA PlainMethods ==
  /\ SoundMethod(QuicksnapSend) /\ SoundMethod(ClipChangeCover) /\ SoundMethod(AccountChangePicture)
  /\ SoundMethod(HighlightChangeCover) /\ SoundMethod(DirectSendSeen)
  /\ SoundMethod(CommentBulkDelete)
  /\ SoundMethod(MediaArchive) /\ SoundMethod(MediaSeen) /\ SoundMethod(StorySeen)
  /\ SoundMethod(StoryLike) /\ SoundMethod(StoryPollVote) /\ SoundMethod(CreateMusicNote)
  /\ SoundMethod(AccountSetAiInfo) /\ SoundMethod(AccountConvert)
<1>1. /\ <<PhotoRupload, Setting>> \in Seq(Plain) /\ <<PhotoRupload, Described>> \in Seq(Plain)
      /\ <<Needing(Request), Setting>> \in Seq(Plain)
      /\ <<MediaId, Setting>> \in Seq(Plain) /\ <<Lookup, Described>> \in Seq(Plain)
      /\ <<Setting, AccountInfo>> \in Seq(Plain)
      /\ <<MediaId, MediaId, Optional(Setting), Setting>> \in Seq(Plain)
  BY PlainRequests DEF MediaId, AccountInfo
<1>2. \A s \in Seq(Plain) : s # <<>> => SoundMethod(Sends(s)) /\ SoundMethod(LoggedIn(s))
  BY PlainMethodIsSound
<1>3. /\ SoundMethod(QuicksnapSend) /\ SoundMethod(ClipChangeCover)
      /\ SoundMethod(AccountChangePicture)
      /\ SoundMethod(HighlightChangeCover) /\ SoundMethod(DirectSendSeen)
  BY <1>1, <1>2 DEF QuicksnapSend, ClipChangeCover, AccountChangePicture,
    HighlightChangeCover, DirectSendSeen
<1>4. /\ SoundMethod(CommentBulkDelete) /\ SoundMethod(MediaArchive) /\ SoundMethod(MediaSeen)
      /\ SoundMethod(StorySeen) /\ SoundMethod(StoryLike) /\ SoundMethod(StoryPollVote)
      /\ SoundMethod(CreateMusicNote) /\ SoundMethod(AccountSetAiInfo)
      /\ SoundMethod(AccountConvert)
  BY <1>1, <1>2 DEF CommentBulkDelete, MediaArchive, MediaSeen, StorySeen, StoryLike,
    StoryPollVote, CreateMusicNote, AccountSetAiInfo, AccountConvert
<1>5. QED
  BY <1>3, <1>4

LEMMA ManyRequestMethods ==
  /\ SoundMethod(NotificationDisable) /\ SoundMethod(UserReport)
  /\ SoundMethod(MediaStartLivestream) /\ SoundMethod(MediaEndLivestream)
  /\ SoundMethod(ChangePassword)
<1>1. SoundMethod(NotificationDisable)
  <2> DEFINE s == [i \in 1..24 |-> Setting]
  <2>1. s \in Seq(Plain) /\ s # <<>>
    BY PlainRequests
  <2>2. QED
    BY <2>1, PlainMethodIsSound DEF NotificationDisable
<1>2. SoundMethod(UserReport)
  <2> DEFINE s == <<Needing(Request), Needing(Request), Needing(Request)>>
             t == <<Needing(Flagged)>>
  <2>1. Opening(s)
    <3>1. s \in Seq(Plain)
      BY PlainRequests
    <3>2. QED
      BY <3>1, PlainOpens
  <2>2. SoundSteps(t) /\ OneId(t)
    BY LeadingKinds, FlaggedNeedsIs, LastIsSound DEF Is
  <2>3. t[1].id # "none" /\ Len(t) = 1
    BY FlaggedNeedsIs DEF Is
  <2>4. SoundSteps(s \o t) /\ OneId(s \o t)
    BY <2>1, <2>2, <2>3, Prefixed DEF Extensible
  <2>5. s \o t = <<Needing(Request), Needing(Request), Needing(Request), Needing(Flagged)>>
    <3>1. Needing(Request) \in Requests /\ Needing(Flagged) \in Requests
      BY NeedingIs, FlaggedNeedsIs DEF Is
    <3>2. QED
      BY <3>1, TuplesJoined
  <2>6. QED
    BY <2>4, <2>5, MethodIsSound DEF UserReport
<1>3. SoundMethod(MediaStartLivestream) /\ SoundMethod(MediaEndLivestream)
  <2> DEFINE s == <<Setting>>
  <2>1. s \in Seq(Plain) /\ s # <<>> /\ Len(s) = 1 /\ s[1] = Setting
    BY PlainRequests
  <2>2. ~Setting.needs
    BY SettingIs DEF Ways
  <2> HIDE DEF s
  <2>3. \A i \in 1..Len(s) : s[i].does = "set" => ~s[i].needs
    BY <2>1, <2>2
  <2>4. SoundMethod(Swallows(s))
    BY <2>1, <2>3, SwallowingMethodIsSound
  <2>5. QED
    BY <2>4 DEF MediaStartLivestream, MediaEndLivestream, s
<1>4. SoundMethod(ChangePassword)
  <2> DEFINE s == <<Needing(Download), Needing(Download), Taken>>
  <2>1. /\ s \in Seq(Plain) /\ s # <<>> /\ Len(s) = 3
        /\ s[1] = Needing(Download) /\ s[2] = Needing(Download) /\ s[3] = Taken
    BY PlainRequests
  <2>2. Needing(Download).does = "read" /\ ~Taken.needs
    BY NeededDownloadIs, TakenIs DEF Is, Ways
  <2> HIDE DEF s
  <2>3. \A i \in 1..Len(s) : s[i].does = "set" => ~s[i].needs
    BY <2>1, <2>2
  <2>4. SoundMethod(Swallows(s))
    BY <2>1, <2>3, SwallowingMethodIsSound
  <2>5. QED
    BY <2>4 DEF ChangePassword, s
<1>5. QED
  BY <1>1, <1>2, <1>3, <1>4

\* Destinations, and the bytes of videos.
LEMMA UploadsOpen ==
  /\ Opening(MediaCrossposting)
  /\ Opening(ClipShareToFb \o <<ShareToThreads, UploadSettings>>)
  /\ VideoRupload \in Seq(Plain) /\ Opening(VideoRupload)
<1>1. Opening(ShareToFacebook)
  <2>1. /\ ShareToFacebook \in Seq(Leading) /\ Len(ShareToFacebook) = 3
        /\ ShareToFacebook[1] = Optional(Skipping(2)) /\ ShareToFacebook[2] = Skipping(1)
        /\ ShareToFacebook[3] = Needing(Request)
    BY LeadingKinds, PlainRequests DEF ShareToFacebook, Plain
  <2>2. \A i \in 1..3 : ShareToFacebook[i].does = "read" /\ ShareToFacebook[i].skips = 3 - i
    BY <2>1, OptionalSkipping2Is, Skipping1Is, NeedingIs DEF Is
  <2>3. QED
    BY <2>1, <2>2, FallingOpens
<1>2. Opening(ClipShareToFb)
  <2>1. /\ ClipUnifiedDestination \in Seq(Leading) /\ Len(ClipUnifiedDestination) = 4
        /\ ClipUnifiedDestination[1] = Skipping(3) /\ ClipUnifiedDestination[2] = Skipping(2)
        /\ ClipUnifiedDestination[3] = Skipping(1) /\ ClipUnifiedDestination[4] = Needing(Request)
    BY LeadingKinds, PlainRequests DEF ClipUnifiedDestination, Plain
  <2>2. /\ ClipShareToFb \in Seq(Leading) /\ Len(ClipShareToFb) = 5
        /\ ClipShareToFb[1] = Optional(Skipping(4))
        /\ \A i \in 2..5 : ClipShareToFb[i] = ClipUnifiedDestination[i - 1]
    <3> DEFINE r == Optional(Skipping(4))
    <3>1. /\ <<r>> \in Seq(Leading) /\ Len(<<r>>) = 1 /\ <<r>>[1] = r
          /\ ClipShareToFb = <<r>> \o ClipUnifiedDestination
      BY LeadingKinds DEF ClipShareToFb
    <3> HIDE DEF r
    <3>2. /\ ClipShareToFb \in Seq(Leading) /\ Len(ClipShareToFb) = 5
          /\ \A i \in 1..1 : ClipShareToFb[i] = <<r>>[i]
          /\ \A i \in 2..5 : ClipShareToFb[i] = ClipUnifiedDestination[i - 1]
      <4>1. (1 + 1)..(1 + 4) = 2..5 /\ 1 + 4 = 5
        OBVIOUS
      <4> DEFINE a == <<r>>
                 b == ClipUnifiedDestination
      <4>2. a \in Seq(Leading) /\ b \in Seq(Leading) /\ Len(a) = 1 /\ Len(b) = 4
        BY <2>1, <3>1
      <4>3. ClipShareToFb = a \o b
        BY <3>1
      <4> HIDE DEF a, b
      <4>4. /\ a \o b \in Seq(Leading) /\ Len(a \o b) = Len(a) + Len(b)
            /\ \A i \in 1..Len(a) : (a \o b)[i] = a[i]
            /\ \A i \in (Len(a) + 1)..(Len(a) + Len(b)) : (a \o b)[i] = b[i - Len(a)]
        BY <4>2, Joined
      <4>5. /\ ClipShareToFb \in Seq(Leading) /\ Len(ClipShareToFb) = 5
            /\ \A i \in 1..1 : ClipShareToFb[i] = a[i]
            /\ \A i \in 2..5 : ClipShareToFb[i] = b[i - 1]
        BY <4>1, <4>2, <4>3, <4>4
      <4>6. QED
        BY <4>5 DEF a, b
    <3>3. QED
      BY <3>1, <3>2 DEF r
  <2>3. /\ ClipShareToFb[2] = Skipping(3) /\ ClipShareToFb[3] = Skipping(2)
        /\ ClipShareToFb[4] = Skipping(1) /\ ClipShareToFb[5] = Needing(Request)
    BY <2>1, <2>2
  <2>4. \A i \in 1..5 : ClipShareToFb[i].does = "read" /\ ClipShareToFb[i].skips = 5 - i
    BY <2>2, <2>3, OptionalSkipping4Is, Skipping3Is, Skipping2Is, Skipping1Is, NeedingIs DEF Is
  <2>5. QED
    BY <2>2, <2>4, FallingOpens
<1>3. <<ShareToThreads>> \in Seq(Plain) /\ <<ShareToThreads, UploadSettings>> \in Seq(Plain)
      /\ VideoRupload \in Seq(Plain)
  <2>1. ShareToThreads \in Plain /\ RuploadOffset \in Plain /\ PhotoRupload \in Plain
    BY PlainRequests
  <2>2. UploadSettings = PhotoRupload /\ VideoRupload = <<RuploadOffset, PhotoRupload>>
    BY DEF UploadSettings, VideoRupload, PhotoRupload
  <2>3. QED
    BY <2>1, <2>2
<1>4. QED
  BY <1>1, <1>2, <1>3, PlainOpens, OpeningJoined DEF MediaCrossposting

\* Direct messages, comments.
LEMMA SendingMethods ==
  /\ SoundMethod(DirectSendPhoto) /\ SoundMethod(DirectSendVideo) /\ SoundMethod(DirectSendVoice)
  /\ SoundMethod(DirectSendFile) /\ SoundMethod(DirectMediaShare) /\ SoundMethod(DirectStoryShare)
  /\ SoundMethod(MediaComment) /\ SoundMethod(PhotoUploadToCutoutSticker)
  /\ SoundMethod(VideoUploadToCutoutSticker)
<1>1. /\ <<MediaId>> \in Seq(Plain) /\ <<PhotoRupload>> \in Seq(Plain)
      /\ VideoRupload \in Seq(Plain)
      /\ ThreadIdFromUserIds \o PhotoRuploadToMessenger \in Seq(Plain)
      /\ ThreadIdFromUserIds \o VideoRuploadToMessenger \in Seq(Plain)
  <2>1. VideoRupload \in Seq(Plain)
    BY UploadsOpen
  <2>2. /\ ThreadIdFromUserIds \in Seq(Plain) /\ PhotoRuploadToMessenger \in Seq(Plain)
        /\ VideoRuploadToMessenger \in Seq(Plain)
    <3>1. /\ Lookup \in Plain /\ Uploaded("plain", TRUE) \in Plain
          /\ [Request EXCEPT !.via = "plain"] \in Plain
      BY PlainRequests
    <3>2. \A a, b \in Plain : <<a>> \in Seq(Plain) /\ <<a, b>> \in Seq(Plain)
      OBVIOUS
    <3>3. QED
      BY <3>1, <3>2
         DEF ThreadIdFromUserIds, PhotoRuploadToMessenger, VideoRuploadToMessenger
  <2>3. <<MediaId>> \in Seq(Plain) /\ <<PhotoRupload>> \in Seq(Plain)
    BY PlainRequests DEF MediaId
  <2>4. QED
    BY <2>1, <2>2, <2>3, Joined
<1>2. \A s \in Seq(Plain) : /\ SoundMethod(Sends(s \o <<Created>>))
                            /\ SoundMethod(LoggedIn(s \o <<Created>>))
  BY PublishingRequests, CreatedIs, SendingMethodIsSound DEF Is
<1>3. /\ <<MediaId>> \o <<Created>> = <<MediaId, Created>>
      /\ <<PhotoRupload>> \o <<Created>> = <<PhotoRupload, Created>>
  <2>1. Lookup \in Requests /\ PhotoRupload \in Requests /\ Created \in Requests
    BY LookupIs, PhotoRuploadIs, CreatedIs DEF Is
  <2>2. QED
    BY <2>1, TuplesJoined DEF MediaId
<1>4. /\ SoundMethod(DirectSendPhoto) /\ SoundMethod(DirectSendVideo)
      /\ SoundMethod(DirectSendVoice) /\ SoundMethod(DirectSendFile)
  BY <1>1, <1>2 DEF DirectSendPhoto, DirectSendVideo, DirectSendVoice, DirectSendFile, VoiceRupload
<1>5. SoundMethod(DirectMediaShare) /\ SoundMethod(DirectStoryShare) /\ SoundMethod(MediaComment)
  BY <1>1, <1>2, <1>3 DEF DirectMediaShare, DirectStoryShare, MediaComment
<1>6. SoundMethod(PhotoUploadToCutoutSticker) /\ SoundMethod(VideoUploadToCutoutSticker)
  BY <1>1, <1>2, <1>3 DEF PhotoUploadToCutoutSticker, VideoUploadToCutoutSticker, CutoutSticker
<1>7. QED
  BY <1>4, <1>5, <1>6

\* Uploads.
\* From the publication on, or from the request a repetition begins with.
LEMMA UploadsEnd ==
  /\ LET s == <<CurrentMediaIds, PhotoRupload, PhotoConfigure, Expose, NewMediaAfterUpload,
                ApplyUsertags, MediaInfo>>
     IN  Extensible(s) /\ OneId(s)
  /\ LET s == <<Thumbnail, VideoConfigure, Expose, ExtractConfiguredMedia>>
     IN  Extensible(s) /\ OneId(s)
  /\ LET s == <<PhotoRupload, CurrentStoryIds, ValidateReelUrl, PhotoConfigureToStory, Expose,
                NewMediaAfterUpload>>
     IN  Extensible(s) /\ OneId(s)
  /\ LET s == <<CurrentStoryIds, ValidateReelUrl, VideoConfigure, Expose, NewMediaAfterUpload>>
     IN  Extensible(s) /\ OneId(s)
  /\ LET s == <<ValidateReelUrl, ConfigureToNobody>> IN Extensible(s) /\ OneId(s)
  /\ Extensible(<<ValidateReelUrl, ConfigureToThreads>>)
  /\ Extensible(<<Thumbnail, AlbumConfigure, Expose, ExtractConfiguredMedia>>)
<1>1. /\ {CurrentMediaIds, CurrentStoryIds, PhotoRupload, Thumbnail, ValidateReelUrl} \subseteq Plain
      /\ {Thumbnail, ValidateReelUrl} \subseteq Repeatable
  BY PlainRequests, RepeatableRequests DEF Thumbnail, ValidateReelUrl
<1>2. /\ <<Expose, NewMediaAfterUpload>> \in Endings
      /\ <<Expose, ExtractConfiguredMedia>> \in Endings
      /\ <<Expose, NewMediaAfterUpload, ApplyUsertags, MediaInfo>> \in Endings
      /\ <<>> \in Endings
  <2>1. /\ Expose.does # "edit" /\ ExtractConfiguredMedia.does # "edit" /\ MediaInfo.does # "edit"
        /\ NewMediaAfterUpload.does = "look"
    BY ExposeIs, ExtractIs, MediaInfoIs, NewMediaIs DEF Is
  <2>2. <<Expose, NewMediaAfterUpload>> \in Endings
    <3>1. <<Expose, NewMediaAfterUpload>> \in Seq(Trailing)
      BY TrailingRequests
    <3>2. QED
      BY <2>1, <3>1 DEF Endings
  <2>3. <<Expose, ExtractConfiguredMedia>> \in Endings
    <3>1. <<Expose, ExtractConfiguredMedia>> \in Seq(Trailing)
      BY TrailingRequests
    <3>2. QED
      BY <2>1, <3>1 DEF Endings
  <2>4. <<Expose, NewMediaAfterUpload, ApplyUsertags, MediaInfo>> \in Endings
    <3> DEFINE t == <<Expose, NewMediaAfterUpload, ApplyUsertags, MediaInfo>>
    <3>1. /\ t \in Seq(Trailing) /\ Len(t) = 4
          /\ t[1] = Expose /\ t[2] = NewMediaAfterUpload /\ t[4] = MediaInfo
      BY TrailingRequests
    <3> HIDE DEF t
    <3>2. \A i \in 1..Len(t) : t[i].does = "edit" => i = 3
      BY <2>1, <3>1
    <3>3. 2 \in 1..(3 - 1) /\ t[2].does = "look"
      BY <2>1, <3>1
    <3>4. t \in Endings
      BY <3>1, <3>2, <3>3 DEF Endings
    <3>5. QED
      BY <3>4 DEF t
  <2>5. <<>> \in Endings
    BY DEF Endings
  <2>6. QED
    BY <2>2, <2>3, <2>4, <2>5
<1>3. /\ PhotoConfigure.id = "call" /\ PhotoConfigure.back = 0
      /\ PhotoConfigureToStory.id = "call" /\ VideoConfigure.id = "call"
      /\ ConfigureToNobody.id = "call"
      /\ AlbumConfigure.id = "attempt" /\ AlbumConfigure.back = 0
      /\ ConfigureToThreads.id = "attempt"
  BY PhotoConfigureIs, PhotoConfigureToStoryIs, VideoConfigureIs, ConfigureToNobodyIs,
     AlbumConfigureIs, ConfigureToThreadsIs DEF Is
<1>4. /\ {CurrentMediaIds, CurrentStoryIds, PhotoRupload, Thumbnail, ValidateReelUrl} \subseteq Requests
      /\ {PhotoConfigure, PhotoConfigureToStory, VideoConfigure, AlbumConfigure} \subseteq Requests
      /\ {Expose, NewMediaAfterUpload, ExtractConfiguredMedia, ApplyUsertags, MediaInfo}
            \subseteq Requests
  BY <1>1, PublishingRequests, TrailingRequests DEF Plain, Leading, Publishing, Trailing
<1>5. LET s == <<CurrentMediaIds, PhotoRupload, PhotoConfigure, Expose, NewMediaAfterUpload,
                 ApplyUsertags, MediaInfo>>
      IN  Extensible(s) /\ OneId(s)
  <2> DEFINE b == <<CurrentMediaIds, PhotoRupload>>
             t == <<Expose, NewMediaAfterUpload, ApplyUsertags, MediaInfo>>
             u == <<PhotoConfigure, Expose, NewMediaAfterUpload, ApplyUsertags, MediaInfo>>
             v == <<CurrentMediaIds, PhotoRupload, PhotoConfigure, Expose, NewMediaAfterUpload,
                    ApplyUsertags, MediaInfo>>
  <2>1. <<PhotoConfigure>> \o t = u /\ b \o u = v
    <3>1. <<PhotoConfigure>> \o t = u
      BY <1>4, TuplesJoined
    <3>2. b \o u = v
      <4> DEFINE w == b \o u
      <4>1. /\ w \in Seq(Requests) /\ Len(w) = 7
            /\ w[1] = CurrentMediaIds /\ w[2] = PhotoRupload /\ w[3] = PhotoConfigure
            /\ w[4] = Expose /\ w[5] = NewMediaAfterUpload /\ w[6] = ApplyUsertags
            /\ w[7] = MediaInfo
        BY <1>4
      <4> HIDE DEF w
      <4>2. w = v
        BY <4>1
      <4>3. QED
        BY <4>2 DEF w
    <3>3. QED
      BY <3>1, <3>2
  <2>2. b \in Seq(Plain)
    BY <1>1
  <2>3. t \in Endings
    BY <1>2
  <2> HIDE DEF b, t, u, v
  <2>4. Extensible(u) /\ OneId(u)
    BY <2>1, <2>3, <1>3, PublishingRequests, PublicationIsSound
  <2>5. Extensible(v) /\ OneId(v)
    BY <2>1, <2>2, <2>4, PlainOpens, Prefixed
  <2>6. QED
    BY <2>5 DEF v
<1>6. LET s == <<Thumbnail, VideoConfigure, Expose, ExtractConfiguredMedia>>
      IN  Extensible(s) /\ OneId(s)
  <2> DEFINE t == <<Expose, ExtractConfiguredMedia>>
             u == <<Thumbnail, VideoConfigure, Expose, ExtractConfiguredMedia>>
  <2>1. <<Thumbnail, VideoConfigure>> \o t = u
    BY <1>4, TuplesJoined
  <2>2. t \in Endings
    BY <1>2
  <2> HIDE DEF t, u
  <2>3. Extensible(u) /\ OneId(u)
    BY <2>1, <2>2, <1>1, <1>3, PublishingRequests, RepeatedIsSound
  <2>4. QED
    BY <2>3 DEF u
<1>7. LET s == <<PhotoRupload, CurrentStoryIds, ValidateReelUrl, PhotoConfigureToStory, Expose,
                 NewMediaAfterUpload>>
      IN  Extensible(s) /\ OneId(s)
  <2> DEFINE b == <<PhotoRupload, CurrentStoryIds>>
             t == <<Expose, NewMediaAfterUpload>>
             u == <<ValidateReelUrl, PhotoConfigureToStory, Expose, NewMediaAfterUpload>>
             v == <<PhotoRupload, CurrentStoryIds, ValidateReelUrl, PhotoConfigureToStory, Expose,
                    NewMediaAfterUpload>>
  <2>1. <<ValidateReelUrl, PhotoConfigureToStory>> \o t = u /\ b \o u = v
    <3>1. <<ValidateReelUrl, PhotoConfigureToStory>> \o t = u
      BY <1>4, TuplesJoined
    <3>2. b \o u = v
      <4> DEFINE w == b \o u
      <4>1. /\ w \in Seq(Requests) /\ Len(w) = 6
            /\ w[1] = PhotoRupload /\ w[2] = CurrentStoryIds /\ w[3] = ValidateReelUrl
            /\ w[4] = PhotoConfigureToStory /\ w[5] = Expose /\ w[6] = NewMediaAfterUpload
        BY <1>4
      <4> HIDE DEF w
      <4>2. w = v
        BY <4>1
      <4>3. QED
        BY <4>2 DEF w
    <3>3. QED
      BY <3>1, <3>2
  <2>2. b \in Seq(Plain)
    BY <1>1
  <2>3. t \in Endings
    BY <1>2
  <2> HIDE DEF b, t, u, v
  <2>4. Extensible(u) /\ OneId(u)
    BY <2>1, <2>3, <1>1, <1>3, PublishingRequests, RepeatedIsSound
  <2>5. Extensible(v) /\ OneId(v)
    BY <2>1, <2>2, <2>4, PlainOpens, Prefixed
  <2>6. QED
    BY <2>5 DEF v
<1>8. LET s == <<CurrentStoryIds, ValidateReelUrl, VideoConfigure, Expose, NewMediaAfterUpload>>
      IN  Extensible(s) /\ OneId(s)
  <2> DEFINE b == <<CurrentStoryIds>>
             t == <<Expose, NewMediaAfterUpload>>
             u == <<ValidateReelUrl, VideoConfigure, Expose, NewMediaAfterUpload>>
             v == <<CurrentStoryIds, ValidateReelUrl, VideoConfigure, Expose, NewMediaAfterUpload>>
  <2>1. <<ValidateReelUrl, VideoConfigure>> \o t = u /\ b \o u = v
    <3>1. <<ValidateReelUrl, VideoConfigure>> \o t = u
      BY <1>4, TuplesJoined
    <3>2. b \o u = v
      BY <1>4, TuplesJoined
    <3>3. QED
      BY <3>1, <3>2
  <2>2. b \in Seq(Plain)
    BY <1>1
  <2>3. t \in Endings
    BY <1>2
  <2> HIDE DEF b, t, u, v
  <2>4. Extensible(u) /\ OneId(u)
    BY <2>1, <2>3, <1>1, <1>3, PublishingRequests, RepeatedIsSound
  <2>5. Extensible(v) /\ OneId(v)
    BY <2>1, <2>2, <2>4, PlainOpens, Prefixed
  <2>6. QED
    BY <2>5 DEF v
<1>9. ASSUME NEW r \in Repeatable, NEW p \in Publishing, p.id # "none"
      PROVE  Extensible(<<r, p>>) /\ (p.id = "call" => OneId(<<r, p>>))
  <2>1. <<r, p>> \o <<>> = <<r, p>> /\ Len(<<>>) = 0
    OBVIOUS
  <2>2. \A i \in 1..Len(<<>>) : FALSE
    BY <2>1
  <2>3. /\ Extensible(<<r, p>> \o <<>>)
        /\ p.id = "call" => OneId(<<r, p>> \o <<>>)
    BY <2>2, <1>2, <1>9, RepeatedIsSound
  <2>4. QED
    BY <2>1, <2>3
<1>10. /\ LET s == <<ValidateReelUrl, ConfigureToNobody>> IN Extensible(s) /\ OneId(s)
       /\ Extensible(<<ValidateReelUrl, ConfigureToThreads>>)
  BY <1>1, <1>3, <1>9, PublishingRequests
<1>11. Extensible(<<Thumbnail, AlbumConfigure, Expose, ExtractConfiguredMedia>>)
  <2> DEFINE b == <<Thumbnail>>
             t == <<Expose, ExtractConfiguredMedia>>
             u == <<AlbumConfigure, Expose, ExtractConfiguredMedia>>
             v == <<Thumbnail, AlbumConfigure, Expose, ExtractConfiguredMedia>>
  <2>1. <<AlbumConfigure>> \o t = u /\ b \o u = v
    <3>1. <<AlbumConfigure>> \o t = u
      BY <1>4, TuplesJoined
    <3>2. b \o u = v
      BY <1>4, TuplesJoined
    <3>3. QED
      BY <3>1, <3>2
  <2>2. b \in Seq(Plain)
    BY <1>1
  <2>3. /\ t \in Endings
        /\ \A i \in 1..Len(t) : t[i].does = "look" => t[i].tries = 0
    <3>1. Len(t) = 2 /\ t[1] = Expose /\ t[2] = ExtractConfiguredMedia
      OBVIOUS
    <3>2. t[1].does # "look" /\ t[2].tries = 0
      BY <3>1, ExposeIs, ExtractIs DEF Is
    <3> HIDE DEF t
    <3>3. \A i \in 1..Len(t) : t[i].does = "look" => t[i].tries = 0
      BY <3>1, <3>2
    <3>4. QED
      BY <3>3, <1>2 DEF t
  <2> HIDE DEF b, t, u, v
  <2>4. Extensible(u)
    BY <2>1, <2>3, <1>3, PublishingRequests, PublicationIsSound
  <2>5. Extensible(v)
    BY <2>1, <2>2, <2>4, PlainOpens, Prefixed
  <2>6. QED
    BY <2>5 DEF v
<1>12. QED
  BY <1>5, <1>6, <1>7, <1>8, <1>10, <1>11

LEMMA UploadMethods ==
  /\ SoundMethod(PhotoUpload) /\ SoundMethod(PhotoUploadWithMusic)
  /\ SoundMethod(PhotoUploadToStory) /\ SoundMethod(VideoUpload)
  /\ SoundMethod(VideoUploadToStory) /\ SoundMethod(StoryWithMusic)
  /\ SoundMethod(VideoUploadToNobody) /\ SoundMethod(IgtvUpload)
  /\ SoundMethod(ClipUpload) /\ SoundMethod(ClipUploadWithMusic)
  /\ SoundMethod(ClipUploadAsReelWithMusic)
<1>1. ASSUME NEW s, NEW t, Opening(s), Extensible(t), OneId(t)
      PROVE  /\ SoundMethod(Sends(s \o t)) /\ Sends(s \o t).steps = s \o t
             /\ Extensible(s \o t) /\ OneId(s \o t)
  <2>1. Extensible(s \o t) /\ OneId(s \o t)
    BY <1>1, Prefixed
  <2>2. QED
    BY <2>1, MethodIsSound DEF Extensible, Sends
<1>2. Opening(<<Lookup>>) /\ Opening(<<Download>>)
  <2>1. <<Lookup>> \in Seq(Plain) /\ <<Download>> \in Seq(Plain)
    BY PlainRequests
  <2>2. QED
    BY <2>1, PlainOpens
<1>3. /\ SoundMethod(PhotoUpload) /\ Extensible(PhotoUpload.steps) /\ OneId(PhotoUpload.steps)
  BY <1>1, UploadsOpen, UploadsEnd DEF PhotoUpload
<1>4. SoundMethod(PhotoUploadWithMusic)
  BY <1>1, <1>2, <1>3 DEF PhotoUploadWithMusic
<1>5. SoundMethod(PhotoUploadToStory)
  BY UploadsEnd, MethodIsSound DEF PhotoUploadToStory, Extensible
<1>6. SoundMethod(VideoUpload)
  <2>1. Opening(MediaCrossposting \o VideoRupload)
    BY UploadsOpen, OpeningJoined
  <2>2. QED
    BY <2>1, <1>1, UploadsEnd DEF VideoUpload
<1>7. /\ SoundMethod(VideoUploadToStory) /\ Extensible(VideoUploadToStory.steps)
      /\ OneId(VideoUploadToStory.steps)
  BY <1>1, UploadsOpen, UploadsEnd DEF VideoUploadToStory, VideoConfigureToStory
<1>8. SoundMethod(StoryWithMusic)
  BY <1>1, <1>2, <1>7 DEF StoryWithMusic
<1>9. SoundMethod(VideoUploadToNobody)
  BY <1>1, UploadsOpen, UploadsEnd DEF VideoUploadToNobody
<1>10. SoundMethod(IgtvUpload)
  BY <1>1, UploadsOpen, UploadsEnd DEF IgtvUpload, IgtvConfigure
<1>11. /\ SoundMethod(ClipUpload) /\ Extensible(ClipUpload.steps) /\ OneId(ClipUpload.steps)
  <2>1. Opening(ClipShareToFb \o <<ShareToThreads, UploadSettings>> \o VideoRupload)
    BY UploadsOpen, OpeningJoined
  <2>2. QED
    BY <2>1, <1>1, UploadsEnd DEF ClipUpload, ClipConfigure
<1>12. SoundMethod(ClipUploadWithMusic)
  BY <1>11 DEF ClipUploadWithMusic
<1>13. SoundMethod(ClipUploadAsReelWithMusic)
  BY <1>1, <1>2, <1>11 DEF ClipUploadAsReelWithMusic
<1>14. QED
  BY <1>3, <1>4, <1>5, <1>6, <1>7, <1>8, <1>9, <1>10, <1>11, <1>12, <1>13

\* The methods whose publications carry a new id in every attempt, or none.
LEMMA MethodsWithoutOneId ==
  /\ Sound(AlbumUpload) /\ Sound(AlbumUploadWithMusic) /\ Sound(VideoUploadToDirect)
  /\ Sound(MediaCreateLivestream) /\ Sound(SendConfirm)
<1>1. ASSUME NEW s, NEW t, Opening(s), Extensible(t)
      PROVE  /\ Sound(Sends(s \o t)) /\ Sends(s \o t).steps = s \o t /\ Extensible(s \o t)
  <2>1. Extensible(s \o t)
    BY <1>1, Prefixed
  <2>2. QED
    BY <2>1, MethodIsSound DEF Extensible, Sends
<1>2. Opening(<<Lookup>>) /\ Opening(<<PhotoRupload>>)
  <2>1. <<Lookup>> \in Seq(Plain) /\ <<PhotoRupload>> \in Seq(Plain)
    BY PlainRequests
  <2>2. QED
    BY <2>1, PlainOpens
<1>3. Sound(AlbumUpload) /\ Extensible(AlbumUpload.steps)
  <2>1. Opening(MediaCrossposting \o <<PhotoRupload>> \o VideoRupload)
    BY <1>2, UploadsOpen, OpeningJoined
  <2>2. QED
    BY <2>1, <1>1, UploadsEnd DEF AlbumUpload
<1>4. Sound(AlbumUploadWithMusic)
  BY <1>1, <1>2, <1>3 DEF AlbumUploadWithMusic
<1>5. Sound(VideoUploadToDirect)
  BY <1>1, UploadsOpen, UploadsEnd DEF VideoUploadToDirect
<1>6. ASSUME NEW p \in Publishing, p.back = 0 PROVE Sound(Sends(<<p>>))
  <2>1. <<>> \in Endings /\ <<p>> \o <<>> = <<p>> /\ Len(<<>>) = 0
    BY DEF Endings
  <2>2. \A i \in 1..Len(<<>>) : FALSE
    BY <2>1
  <2>3. SoundSteps(<<p>> \o <<>>)
    BY <2>1, <2>2, <1>6, PublicationIsSound
  <2>4. QED
    BY <2>1, <2>3, MethodIsSound
<1>7. Sound(MediaCreateLivestream) /\ Sound(SendConfirm)
  BY <1>6, PublishingRequests, UnmarkedIs, UnmarkedFreeIs DEF MediaCreateLivestream, SendConfirm, Is
<1>8. QED
  BY <1>3, <1>4, <1>5, <1>7

\* The table, in two parts.
LEMMA TableIsSound ==
  \A name \in DOMAIN Calls :
      Sound(Calls[name]) /\ (name \notin WithoutOneId => OneId(Calls[name].steps))
<1>1. DOMAIN Calls = {"photo_upload", "photo_upload_with_music", "photo_upload_to_story",
        "photo_upload_to_cutout_sticker", "video_upload", "video_upload_to_story",
        "story_with_music", "video_upload_to_cutout_sticker", "video_upload_to_direct",
        "video_upload_to_nobody", "album_upload", "album_upload_with_music", "clip_upload",
        "clip_upload_with_music", "clip_upload_as_reel_with_music", "igtv_upload",
        "quicksnap_send", "clip_change_cover", "account_change_picture",
        "highlight_change_cover", "direct_send", "direct_reaction", "direct_send_photo",
        "direct_send_video", "direct_send_voice", "direct_send_file",
        "direct_send_cutout_sticker", "direct_media_share", "direct_story_share",
        "direct_profile_share", "direct_thread_create", "direct_message_seen",
        "direct_send_seen", "direct_thread_changes", "direct_pending_approve",
        "direct_thread_marks", "media_comment", "comment_like", "comment_pin",
        "comment_bulk_delete", "media_like", "media_save", "media_notes", "media_archive",
        "media_pin", "clip_pin", "clip_seen", "media_seen", "story_seen", "story_like",
        "story_poll_vote", "hashtag_follow", "media_create_livestream",
        "media_start_livestream", "media_end_livestream", "highlight_create",
        "highlight_edit", "highlight_delete", "note_changes", "create_note",
        "create_music_note", "quicksnap_delete", "music_bookmark", "follow_requests",
        "user_block", "user_report", "mute_from_follow", "enable_notifications",
        "close_friend", "account_set_ai_info", "account_convert", "change_password",
        "account_links", "account_set_private", "account_set_biography", "send_confirm",
        "confirm", "notification_settings", "notification_disable", "totp_generate_seed",
        "totp_enable", "totp_disable"}
  BY DEF Calls
<1>2. /\ SoundMethod(Calls.direct_send) /\ SoundMethod(Calls.direct_reaction)
      /\ SoundMethod(Calls.direct_send_cutout_sticker) /\ SoundMethod(Calls.direct_profile_share)
      /\ SoundMethod(Calls.direct_thread_create) /\ SoundMethod(Calls.direct_message_seen)
      /\ SoundMethod(Calls.direct_thread_changes) /\ SoundMethod(Calls.direct_pending_approve)
      /\ SoundMethod(Calls.direct_thread_marks) /\ SoundMethod(Calls.comment_like)
      /\ SoundMethod(Calls.comment_pin) /\ SoundMethod(Calls.media_like)
      /\ SoundMethod(Calls.media_save) /\ SoundMethod(Calls.media_notes)
      /\ SoundMethod(Calls.media_pin) /\ SoundMethod(Calls.clip_pin)
      /\ SoundMethod(Calls.clip_seen) /\ SoundMethod(Calls.hashtag_follow)
      /\ SoundMethod(Calls.highlight_create) /\ SoundMethod(Calls.highlight_edit)
  BY OneRequestMethods, SMTT(30) DEF Calls
<1>3. /\ SoundMethod(Calls.highlight_delete) /\ SoundMethod(Calls.note_changes)
      /\ SoundMethod(Calls.create_note) /\ SoundMethod(Calls.quicksnap_delete)
      /\ SoundMethod(Calls.music_bookmark) /\ SoundMethod(Calls.follow_requests)
      /\ SoundMethod(Calls.user_block) /\ SoundMethod(Calls.mute_from_follow)
      /\ SoundMethod(Calls.enable_notifications) /\ SoundMethod(Calls.close_friend)
      /\ SoundMethod(Calls.account_links) /\ SoundMethod(Calls.account_set_private)
      /\ SoundMethod(Calls.account_set_biography) /\ SoundMethod(Calls.confirm)
      /\ SoundMethod(Calls.notification_settings) /\ SoundMethod(Calls.totp_generate_seed)
      /\ SoundMethod(Calls.totp_enable) /\ SoundMethod(Calls.totp_disable)
  BY OneRequestMethods, SMTT(30) DEF Calls
<1>4. /\ SoundMethod(Calls.quicksnap_send) /\ SoundMethod(Calls.clip_change_cover)
      /\ SoundMethod(Calls.account_change_picture) /\ SoundMethod(Calls.highlight_change_cover)
      /\ SoundMethod(Calls.direct_send_seen) /\ SoundMethod(Calls.comment_bulk_delete)
      /\ SoundMethod(Calls.media_archive) /\ SoundMethod(Calls.media_seen)
      /\ SoundMethod(Calls.story_seen) /\ SoundMethod(Calls.story_like)
      /\ SoundMethod(Calls.story_poll_vote) /\ SoundMethod(Calls.create_music_note)
      /\ SoundMethod(Calls.account_set_ai_info) /\ SoundMethod(Calls.account_convert)
  BY PlainMethods DEF Calls
<1>5. /\ SoundMethod(Calls.media_start_livestream) /\ SoundMethod(Calls.media_end_livestream)
      /\ SoundMethod(Calls.user_report) /\ SoundMethod(Calls.change_password)
      /\ SoundMethod(Calls.notification_disable)
  BY ManyRequestMethods DEF Calls
<1>6. /\ SoundMethod(Calls.photo_upload_to_cutout_sticker)
      /\ SoundMethod(Calls.video_upload_to_cutout_sticker)
      /\ SoundMethod(Calls.direct_send_photo) /\ SoundMethod(Calls.direct_send_video)
      /\ SoundMethod(Calls.direct_send_voice) /\ SoundMethod(Calls.direct_send_file)
      /\ SoundMethod(Calls.direct_media_share) /\ SoundMethod(Calls.direct_story_share)
      /\ SoundMethod(Calls.media_comment)
  BY SendingMethods DEF Calls
<1>7. /\ SoundMethod(Calls.photo_upload) /\ SoundMethod(Calls.photo_upload_with_music)
      /\ SoundMethod(Calls.photo_upload_to_story) /\ SoundMethod(Calls.video_upload)
      /\ SoundMethod(Calls.video_upload_to_story) /\ SoundMethod(Calls.story_with_music)
      /\ SoundMethod(Calls.video_upload_to_nobody) /\ SoundMethod(Calls.clip_upload)
      /\ SoundMethod(Calls.clip_upload_with_music)
      /\ SoundMethod(Calls.clip_upload_as_reel_with_music)
      /\ SoundMethod(Calls.igtv_upload)
  BY UploadMethods DEF Calls
<1>8. /\ Sound(Calls.video_upload_to_direct)
      /\ Sound(Calls.album_upload)
      /\ Sound(Calls.album_upload_with_music)
      /\ Sound(Calls.media_create_livestream)
      /\ Sound(Calls.send_confirm)
  BY MethodsWithoutOneId DEF Calls
<1>9. \A name \in DOMAIN Calls \ WithoutOneId : SoundMethod(Calls[name])
  BY <1>1, <1>2, <1>3, <1>4, <1>5, <1>6, <1>7 DEF WithoutOneId
<1>10. \A name \in WithoutOneId : Sound(Calls[name])
  BY <1>8 DEF WithoutOneId
<1>11. QED
  BY <1>9, <1>10 DEF SoundMethod

-------------------------------------------------------------------------------
(* The invariant.                                                            *)

\* An attempt is one at the request that is due, or at the next one, which begins with it.
AttemptOK ==
    \/ attempt = 1
    \/ attempt <= Req.tries
    \/ step < Len(Steps) /\ Steps[step + 1].back = 1 /\ attempt <= Steps[step + 1].tries
MarksOK == \A m \in accepted : Steps[m[1]].id # "attempt" => m[2] = 0
\* A publication without an id adds a post whenever it arrives.
PostsCounted ==
    Req.id = "none" => Cardinality(Owned(feed)) <= IF Running THEN faults ELSE faults + 1
\* Where all copies of a publication share an id there is one post, of this publication.
OnePost ==
    OneId(Steps) =>
        /\ \A i, j \in Owned(feed) : i = j
        /\ Owned(feed) # {} => \E m \in accepted : Publishes(Steps, m[1])
FoundWhenPublished ==
    found # Nothing \/ edited # {} =>
        \E p \in 1..step : Publishes(Steps, p) /\ (p = step => pc = "done")
VerdictOK == pc # "done" => verdict
\* Without a fault no setting is changed before the request for it is over.
ChangesAnswered ==
    Running /\ faults = 0 => \A m \in accepted : Steps[m[1]].does = "set" => m[1] < step
ChangesInOrder ==
    \A i \in 1..Len(Steps) :
        Owed(i) /\ (\/ Running /\ i < step
                    \/ pc = "done" /\ verdict
                    \/ \E m \in accepted : m[1] > i)
            => \E m \in accepted : m[1] = i
LookedFor ==
    pc # "raised" =>
        \A i \in 1..Len(Steps) :
            Steps[i].does = "look" /\ (i < step \/ pc = "done") => found # Nothing
RememberedBefore ==
    Owned(feed) # {} => \A i \in 1..Len(Steps) : Steps[i].does = "remember" => i < step
\* As long as no other device interferes the account has the posts from before the call and the
\* one of the call, and the former were remembered, or taken for none.
Olds(n) == [i \in 1..n |-> Old(n + 1 - i)]
PostsOf(n) ==
    /\ feed \in {Olds(n), <<Own(0)>> \o Olds(n)}
    /\ before.known => before.ids \in {{}, Shown(Olds(n))}
    /\ OwnPosts({found} \cup edited) \/ (before.known /\ before.ids = {} /\ n > 0)
Undisturbed ==
    /\ ~Looks => OwnPosts({found} \cup edited) /\ foreign = 0
    /\ Looks /\ foreign = 0 => \E n \in 0..Older : PostsOf(n)

ProceduresInv ==
    /\ TypeOK /\ AttemptOK /\ MarksOK /\ PostsCounted /\ OnePost /\ FoundWhenPublished /\ VerdictOK
    /\ ChangesAnswered /\ FailureIsHonest /\ ChangesInOrder /\ LookedFor /\ RememberedBefore
    /\ Undisturbed

\* What the rest of the proof uses of a step of the call.
Fails ==
    /\ pc' = IF Calls[call].swallows THEN "done" ELSE "raised"
    /\ verdict' = IF Calls[call].swallows THEN FALSE ELSE verdict
    /\ UNCHANGED <<step, attempt, found>>
    /\ found # Nothing => Req.does = "expose"
    /\ faults' = 0 /\ Req.does = "set" /\ Calls[call].swallows => Mark \notin accepted'
Repeats ==
    /\ pc' = "running" /\ step' = step - Req.back
    /\ attempt < Req.tries /\ attempt' = attempt + 1
    /\ UNCHANGED <<verdict, found>>
    /\ Req.does # "set"
Stays ==
    /\ UNCHANGED <<pc, step, attempt, verdict, found, before>>
    /\ faults' = faults + 1
Uncovers ==
    /\ Req.does = "look" /\ Req.tries > 0 /\ found = Nothing /\ before.known
    /\ \E list \in {feed} \cup {Without(feed, i) : i \in Owned(feed)} :
          \E i \in 1..Lesser(Window, Len(list)) :
              /\ list[i] \notin before.ids
              /\ \A j \in 1..Lesser(Window, Len(list)) : list[j] \notin before.ids => i <= j
              /\ found' = list[i]
Proceeds ==
    /\ \E k \in {0, Req.skips} :
          /\ GoOn(k)
    /\ Owed(step) /\ verdict' => \E m \in accepted' : m[1] = step
    /\ Req.does = "look" => found' # Nothing
    /\ verdict' = verdict \/ (Req.flag /\ Mark \notin accepted /\ DoNothing /\ verdict' = FALSE)
    /\ \/ found' = found
       \/ Req.does = "publish" /\ found' = Post
       \/ Uncovers
Moves ==
    /\ Running /\ UNCHANGED <<call, foreign>>
    /\ faults' \in {faults, faults + 1} /\ faults' <= MaxFaults
    /\ sends' \in 1..2 /\ wire' \in 0..Retries
    /\ DoNothing \/ (Act /\ Req.does # "look" /\ ~Gone)
    /\ \/ before' = before
       \/ /\ Req.does = "remember" /\ Proceeds
          /\ before' \in {Unread, [known |-> TRUE, ids |-> {}], [known |-> TRUE, ids |-> Shown(feed)]}
    /\ Stays \/ Fails \/ Repeats \/ Proceeds
-------------------------------------------------------------------------------
(* The posts of the account.                                                 *)

\* Lists of posts without one of them.
LEMMA WithoutIsAList ==
  ASSUME NEW S, NEW s \in Seq(S), NEW i \in 1..Len(s)
  PROVE  /\ Without(s, i) \in Seq(S) /\ Len(Without(s, i)) = Len(s) - 1
         /\ \A j \in 1..(Len(s) - 1) : Without(s, i)[j] = IF j < i THEN s[j] ELSE s[j + 1]
<1> DEFINE a == SubSeq(s, 1, i - 1)
           b == SubSeq(s, i + 1, Len(s))
<1>1. Len(s) \in Nat /\ i \in 1..Len(s)
  OBVIOUS
<1>2. a \in Seq(S) /\ Len(a) = i - 1 /\ \A j \in 1..(i - 1) : a[j] = s[j]
  BY <1>1
<1>3. b \in Seq(S) /\ Len(b) = Len(s) - i /\ \A j \in 1..(Len(s) - i) : b[j] = s[i + j]
  BY <1>1
<1> HIDE DEF a, b
<1>4. /\ a \o b \in Seq(S) /\ Len(a \o b) = Len(a) + Len(b)
      /\ \A j \in 1..Len(a) : (a \o b)[j] = a[j]
      /\ \A j \in (Len(a) + 1)..(Len(a) + Len(b)) : (a \o b)[j] = b[j - Len(a)]
  <2>1. a \in Seq(S) /\ b \in Seq(S)
    BY <1>2, <1>3
  <2>2. QED
    BY <2>1, Joined
<1>5. ASSUME NEW j \in 1..(Len(s) - 1)
      PROVE  (a \o b)[j] = IF j < i THEN s[j] ELSE s[j + 1]
  <2>1. CASE j < i
    <3>1. j \in 1..(i - 1)
      BY <1>1, <2>1
    <3>2. QED
      BY <2>1, <3>1, <1>2, <1>4
  <2>2. CASE ~(j < i)
    <3>1. j \in (Len(a) + 1)..(Len(a) + Len(b)) /\ j - Len(a) \in 1..(Len(s) - i)
      BY <2>2, <1>1, <1>2, <1>3
    <3>2. b[j - Len(a)] = s[i + (j - Len(a))] /\ i + (j - Len(a)) = j + 1
      BY <3>1, <1>1, <1>2, <1>3
    <3>3. QED
      BY <2>2, <3>1, <3>2, <1>4
  <2>3. QED
    BY <2>1, <2>2
<1>6. Without(s, i) = a \o b
  BY DEF Without, a, b
<1>7. Len(a \o b) = Len(s) - 1
  BY <1>1, <1>2, <1>3, <1>4
<1>8. a \o b \in Seq(S)
  BY <1>4
<1>9. QED
  BY <1>5, <1>6, <1>7, <1>8

LEMMA FoundIsAPost ==
  ASSUME TypeOK, Uncovers
  PROVE  found' \in Items /\ found' # Nothing
<1>1. PICK list \in {feed} \cup {Without(feed, i) : i \in Owned(feed)} :
         \E i \in 1..Lesser(Window, Len(list)) : found' = list[i]
  BY DEF Uncovers
<1>2. feed \in Seq(Items) /\ Owned(feed) \subseteq 1..Len(feed)
  BY DEF TypeOK, Owned
<1>3. list \in Seq(Items)
  BY <1>1, <1>2, WithoutIsAList
<1>4. PICK i \in 1..Lesser(Window, Len(list)) : found' = list[i]
  BY <1>1
<1>5. i \in 1..Len(list)
  BY <1>3, <1>4, Numbers DEF Lesser
<1>6. found' \in Items
  BY <1>3, <1>4, <1>5
<1>7. QED
  BY <1>6 DEF Items, Nothing, Own, Old, Theirs


\* A post that is added.
LEMMA PostAdded ==
  ASSUME NEW S, NEW s \in Seq(S), NEW x \in S
  PROVE  LET u == <<x>> \o s IN
         /\ u \in Seq(S) /\ Len(u) = Len(s) + 1 /\ u[1] = x /\ \A j \in 1..Len(s) : u[j + 1] = s[j]
         /\ \A i \in Owned(u) : i = 1 \/ i - 1 \in Owned(s)
         /\ 1 \in Owned(u) <=> x[1] = "own"
<1> DEFINE u == <<x>> \o s
<1>1. /\ u \in Seq(S) /\ Len(u) = Len(s) + 1 /\ u[1] = x /\ Len(s) \in Nat
      /\ \A j \in 1..Len(s) : u[j + 1] = s[j]
      /\ \A i \in 2..Len(u) : u[i] = s[i - 1] /\ i - 1 \in 1..Len(s)
  OBVIOUS
<1> HIDE DEF u
<1>2. \A i \in Owned(u) : i = 1 \/ i - 1 \in Owned(s)
  BY <1>1 DEF Owned
<1>3. 1 \in Owned(u) <=> x[1] = "own"
  BY <1>1 DEF Owned
<1>4. QED
  BY <1>1, <1>2, <1>3 DEF u

LEMMA OwnedFinite ==
  ASSUME NEW S, NEW s \in Seq(S)
  PROVE  IsFiniteSet(Owned(s)) /\ Cardinality(Owned(s)) \in Nat
<1>1. Len(s) \in Nat
  OBVIOUS
<1>2. IsFiniteSet(1..Len(s)) /\ Owned(s) \subseteq 1..Len(s)
  BY <1>1, FS_Interval DEF Owned
<1>3. QED
  BY <1>2, FS_Subset, FS_CardinalityType

LEMMA OwnedCounted ==
  ASSUME NEW S, NEW s \in Seq(S), NEW x \in S
  PROVE  /\ Cardinality(Owned(<<x>> \o s)) \in Nat
         /\ Cardinality(Owned(<<x>> \o s)) <= Cardinality(Owned(s)) + 1
<1> DEFINE u == <<x>> \o s
           T == {i + 1 : i \in Owned(s)}
           f == [i \in Owned(s) |-> i + 1]
<1>2. IsFiniteSet(Owned(s)) /\ Cardinality(Owned(s)) \in Nat
  BY OwnedFinite
<1>3. f \in Surjection(Owned(s), T)
  BY DEF Surjection
<1>4. IsFiniteSet(T) /\ Cardinality(T) <= Cardinality(Owned(s)) /\ Cardinality(T) \in Nat
  BY <1>2, <1>3, FS_Surjection, FS_CardinalityType
<1>5. /\ IsFiniteSet(T \cup {1}) /\ Cardinality(T \cup {1}) \in Nat
      /\ Cardinality(T \cup {1}) <= Cardinality(T) + 1
  <2> HIDE DEF T
  <2>1. /\ IsFiniteSet(T \cup {1})
        /\ Cardinality(T \cup {1}) = IF 1 \in T THEN Cardinality(T) ELSE Cardinality(T) + 1
    BY <1>4, FS_AddElement
  <2>2. QED
    BY <1>4, <2>1
<1>6. Owned(u) \subseteq T \cup {1}
  <2>1. \A i \in Owned(u) : i = 1 \/ i - 1 \in Owned(s)
    BY PostAdded
  <2>2. \A i \in Owned(u) : i \in Nat
    BY DEF Owned
  <2>3. ASSUME NEW i \in Owned(u), i # 1 PROVE i \in T
    <3>1. i - 1 \in Owned(s) /\ i = (i - 1) + 1
      BY <2>1, <2>2, <2>3
    <3>2. QED
      BY <3>1
  <2>4. QED
    BY <2>3
<1> HIDE DEF u, T, f
<1>7. /\ IsFiniteSet(Owned(u)) /\ Cardinality(Owned(u)) \in Nat
      /\ Cardinality(Owned(u)) <= Cardinality(T \cup {1})
  BY <1>5, <1>6, FS_Subset, FS_CardinalityType
<1>8. Cardinality(Owned(u)) <= Cardinality(Owned(s)) + 1
  BY <1>2, <1>4, <1>5, <1>7
<1>9. QED
  BY <1>2, <1>7, <1>8 DEF u

\* The list after a post was taken out shows no other posts.
LEMMA PostRemoved ==
  ASSUME NEW S, NEW s \in Seq(S), NEW i \in 1..Len(s)
  PROVE  /\ \A j \in Owned(Without(s, i)) : j \in Owned(s) \/ j + 1 \in Owned(s)
         /\ (\A j, k \in Owned(s) : j = k) =>
               \A j, k \in Owned(Without(s, i)) : j = k
<1> DEFINE w == Without(s, i)
<1>1. /\ w \in Seq(S) /\ Len(w) = Len(s) - 1 /\ Len(s) \in Nat
      /\ \A j \in 1..(Len(s) - 1) : w[j] = IF j < i THEN s[j] ELSE s[j + 1]
  <2>1. Len(s) \in Nat
    OBVIOUS
  <2>2. /\ w \in Seq(S) /\ Len(w) = Len(s) - 1
        /\ \A j \in 1..(Len(s) - 1) : w[j] = IF j < i THEN s[j] ELSE s[j + 1]
    BY WithoutIsAList
  <2>3. QED
    BY <2>1, <2>2
<1> HIDE DEF w
<1>2. ASSUME NEW j \in Owned(w)
      PROVE  \/ j < i /\ j \in Owned(s)
             \/ ~(j < i) /\ j + 1 \in Owned(s)
  <2>1. j \in 1..(Len(s) - 1) /\ w[j][1] = "own" /\ j \in 1..Len(s) /\ j + 1 \in 1..Len(s)
    BY <1>1 DEF Owned
  <2>2. CASE j < i
    BY <2>1, <2>2, <1>1 DEF Owned
  <2>3. CASE ~(j < i)
    BY <2>1, <2>3, <1>1 DEF Owned
  <2>4. QED
    BY <2>2, <2>3
<1>3. ASSUME \A j, k \in Owned(s) : j = k, NEW j \in Owned(w), NEW k \in Owned(w) PROVE j = k
  <2>1. i \in Int /\ j \in Int /\ k \in Int
    BY <1>1 DEF Owned
  <2>2. CASE j < i /\ j \in Owned(s)
    <3>1. CASE k < i /\ k \in Owned(s)
      BY <2>2, <3>1, <1>3
    <3>2. CASE ~(k < i) /\ k + 1 \in Owned(s)
      <4>1. j = k + 1
        BY <2>2, <3>2, <1>3
      <4>2. QED
        BY <4>1, <2>1, <2>2, <3>2
    <3>3. QED
      BY <3>1, <3>2, <1>2
  <2>3. CASE ~(j < i) /\ j + 1 \in Owned(s)
    <3>1. CASE k < i /\ k \in Owned(s)
      <4>1. k = j + 1
        BY <2>3, <3>1, <1>3
      <4>2. QED
        BY <4>1, <2>1, <2>3, <3>1
    <3>2. CASE ~(k < i) /\ k + 1 \in Owned(s)
      <4>1. j + 1 = k + 1
        BY <2>3, <3>2, <1>3
      <4>2. QED
        BY <4>1, <2>1
    <3>3. QED
      BY <3>1, <3>2, <1>2
  <2>4. QED
    BY <2>2, <2>3, <1>2
<1>4. QED
  BY <1>2, <1>3 DEF w

-------------------------------------------------------------------------------
(* The steps of a call.                                                      *)

LEMMA StepFacts ==
  ASSUME TypeOK
  PROVE  /\ Steps \in Seq(Requests) /\ Len(Steps) \in Nat /\ DOMAIN Steps = 1..Len(Steps)
         /\ SoundSteps(Steps) /\ (call \notin WithoutOneId => OneId(Steps))
         /\ Calls[call].swallows \in BOOLEAN
         /\ Calls[call].swallows => \A i \in 1..Len(Steps) :
               Steps[i] \in Leading /\ (Steps[i].does = "set" => ~Steps[i].needs)
<1>1. Sound(Calls[call]) /\ (call \notin WithoutOneId => OneId(Calls[call].steps))
  BY TableIsSound, MethodsAssumption DEF TypeOK
<1>2. QED
  BY <1>1 DEF Sound, SoundSteps, Steps

LEMMA ReqFacts ==
  ASSUME TypeOK
  PROVE  /\ Req \in Requests /\ step \in 1..Len(Steps) /\ Steps[step] = Req
         /\ \/ Req \in Leading /\ \A p \in 1..Len(Steps) : Publishes(Steps, p) => step < p
            \/ Req \in Publishing /\ \A p \in 1..Len(Steps) : Publishes(Steps, p) => p = step
            \/ Req \in Trailing /\ \E p \in 1..(step - 1) : Publishes(Steps, p)
<1>1. step \in 1..Len(Steps) /\ Steps[step] = Req
  BY DEF TypeOK, Req
<1>2. Req \in Requests
  BY <1>1, StepFacts
<1>3. Req \in Publishing => Publishes(Steps, step)
  BY <1>1 DEF Publishing, Publishes
<1>4. QED
  BY <1>1, <1>2, <1>3, StepFacts DEF SoundSteps

\* What is found was published before.
LEMMA FoundTrails ==
  ASSUME TypeOK, FoundWhenPublished, Running, found # Nothing \/ edited # {}
  PROVE  Req \in Trailing /\ \E p \in 1..(step - 1) : Publishes(Steps, p)
<1>1. PICK p \in 1..step : Publishes(Steps, p) /\ p # step
  BY DEF FoundWhenPublished, Running
<1>2. p \in 1..Len(Steps) /\ p < step /\ p \in 1..(step - 1)
  BY <1>1, ReqFacts, StepFacts
<1>3. QED
  BY <1>1, <1>2, ReqFacts, StepFacts

LEMMA RaiseFails ==
  ASSUME TypeOK, Raise, UNCHANGED found, found # Nothing => Req.does = "expose",
         faults' = 0 /\ Req.does = "set" /\ Calls[call].swallows => Mark \notin accepted'
  PROVE  Fails /\ sends' \in 1..2 /\ wire' \in 0..Retries
<1>1. CASE Calls[call].swallows
  <2>1. /\ pc' = "done" /\ UNCHANGED <<step, attempt>> /\ sends' = 2 /\ wire' = Retries
        /\ verdict' = FALSE
    BY <1>1 DEF Raise, Ends
  <2>2. Fails
    BY <1>1, <2>1 DEF Fails
  <2>3. QED
    BY <2>1, <2>2, Numbers
<1>2. CASE ~Calls[call].swallows
  BY <1>2, Numbers DEF Raise, Fails, Ends
<1>3. QED
  BY <1>1, <1>2

LEMMA GoOnTyped ==
  ASSUME NEW k, GoOn(k)
  PROVE  sends' \in 1..2 /\ wire' \in 0..Retries
BY Numbers DEF GoOn, Due, Ends

LEMMA TryAgainMoves ==
  ASSUME TypeOK, TryAgain, UNCHANGED found, found # Nothing => Req.does = "expose",
         Req.does # "set"
  PROVE  (Fails \/ Repeats) /\ sends' \in 1..2 /\ wire' \in 0..Retries
<1>1. CASE attempt < Req.tries
  BY <1>1, Numbers DEF TryAgain, Due, Repeats
<1>2. CASE ~(attempt < Req.tries)
  BY <1>2, RaiseFails DEF TryAgain
<1>3. QED
  BY <1>1, <1>2

LEMMA ErrorMoves ==
  ASSUME TypeOK, FoundWhenPublished, ChangesAnswered, Running, Error,
         Req.does = "look" => found = Nothing,
         \/ faults' = faults + 1
         \/ faults' = faults /\ DoNothing
  PROVE  /\ Fails \/ Repeats \/ Proceeds
         /\ sends' \in 1..2 /\ wire' \in 0..Retries
         /\ \/ before' = before
            \/ /\ Req.does = "remember" /\ Proceeds
               /\ before' \in {Unread, [known |-> TRUE, ids |-> {}]}
<1>1. UNCHANGED found
  BY DEF Error
<1>2. \/ before' = before
      \/ Req.does = "remember" /\ before' \in {Unread, [known |-> TRUE, ids |-> {}]}
  BY DEF Error, Unread
<1>3. CASE Req.does = "look"
  <2>1. TryAgain
    BY <1>3 DEF Error
  <2>2. QED
    BY <2>1, <1>1, <1>2, <1>3, TryAgainMoves
<1>4. CASE Req.does # "look" /\ Req.ignores
  <2>1. GoOn(0) /\ UNCHANGED verdict
    BY <1>4 DEF Error
  <2>2. ~Owed(step)
    BY <1>4, ReqFacts DEF Owed, Leading, Publishing, Trailing
  <2>3. Proceeds
    BY <2>1, <2>2, <1>1, <1>4 DEF Proceeds
  <2>4. QED
    BY <2>1, <2>3, <1>2, GoOnTyped
<1>5. CASE Req.does # "look" /\ ~Req.ignores
  <2>1. Raise
    BY <1>5 DEF Error
  <2>2. found # Nothing => Req.does = "expose"
    BY <1>5, FoundTrails DEF Trailing
  <2>3. ASSUME faults' = 0, Req.does = "set" PROVE Mark \notin accepted'
    <3>1. faults = 0 /\ accepted' = accepted
      BY <2>3 DEF DoNothing, TypeOK
    <3>2. \A m \in accepted : Steps[m[1]].does = "set" => m[1] < step
      BY <3>1 DEF ChangesAnswered
    <3>3. Mark[1] = step /\ Steps[step].does = "set" /\ ~(step < step)
      BY <2>3, ReqFacts DEF Mark
    <3>4. QED
      BY <3>1, <3>2, <3>3
  <2>4. Fails /\ sends' \in 1..2 /\ wire' \in 0..Retries
    BY <2>1, <2>2, <2>3, <1>1, RaiseFails
  <2>5. Req.does # "remember"
    BY <1>5, ReqFacts DEF Leading, Publishing, Trailing
  <2>6. QED
    BY <2>4, <2>5, <1>2
<1>6. QED
  BY <1>3, <1>4, <1>5, ReqFacts DEF Requests

LEMMA ExchangeMoves ==
  ASSUME TypeOK, FoundWhenPublished, ChangesAnswered, VerdictOK, Exchange
  PROVE  Moves
<1>1. Running /\ Req.does # "look" /\ UNCHANGED <<call, faults, foreign>> /\ verdict = TRUE
  BY DEF Exchange, VerdictOK, Running, TypeOK
<1>2. faults' \in {faults, faults + 1} /\ faults' <= MaxFaults
  BY <1>1, Faults
<1>3. PICK answer \in Answers : \E acts \in Acts(answer) :
         (IF acts THEN Act ELSE DoNothing) /\ Take(answer)
  BY DEF Exchange
<1>4. PICK acts \in Acts(answer) : (IF acts THEN Act ELSE DoNothing) /\ Take(answer)
  BY <1>3
<1>5. acts \in BOOLEAN /\ (acts => answer # "refused")
  BY <1>4 DEF Acts
<1>6. DoNothing \/ (Act /\ Req.does # "look" /\ ~Gone)
  BY <1>1, <1>3, <1>4, <1>5 DEF Answers
<1>7. "refused" \notin Req.again
  <2>1. Req \in Requests
    BY ReqFacts
  <2>2. QED
    BY <2>1 DEF Requests
<1>8. CASE answer = "refused"
  <2>1. DoNothing
    BY <1>8, <1>4, <1>5
  <2>2. Error
    BY <1>7, <1>8, <1>4 DEF Take, Lacking
  <2>3. QED
    BY <2>1, <2>2, <1>1, <1>2, <1>6, ErrorMoves DEF Moves
<1>9. CASE answer # "refused" /\ answer \in Req.again
  <2>1. TryAgain /\ UNCHANGED <<before, found>>
    BY <1>9, <1>4 DEF Take
  <2>2. Req.does # "set" /\ Req \notin Trailing
    BY <1>9, ReqFacts DEF Leading, Publishing, Trailing
  <2>3. found # Nothing => Req.does = "expose"
    BY <2>2, <1>1, FoundTrails
  <2>4. QED
    BY <2>1, <2>2, <2>3, <1>1, <1>2, <1>6, TryAgainMoves DEF Moves
<1>10. CASE answer \notin Req.again /\ answer = "bare" /\ Req.needs
  <2>1. Raise /\ UNCHANGED <<before, found>>
    BY <1>10, <1>4 DEF Take, Lacking
  <2>2. Req \notin Trailing
    BY <1>10 DEF Trailing
  <2>3. found # Nothing => Req.does = "expose"
    BY <2>2, <1>1, FoundTrails
  <2>4. ~(Req.does = "set" /\ Calls[call].swallows)
    BY <1>10, ReqFacts, StepFacts
  <2>5. QED
    BY <2>1, <2>3, <2>4, <1>1, <1>2, <1>6, RaiseFails DEF Moves
<1>11. CASE answer # "refused" /\ answer \notin Req.again /\ ~(answer = "bare" /\ Req.needs)
  <2>1. /\ GoOn(IF answer = "full" THEN Req.skips ELSE 0)
        /\ verdict' = IF Req.flag THEN answer = "full" ELSE verdict
        /\ found' = IF Req.does = "publish" /\ answer = "full" THEN Post ELSE found
        /\ before' = IF Req.does = "remember" THEN [known |-> TRUE, ids |-> Shown(feed)]
                                              ELSE before
    BY <1>11, <1>4 DEF Take, Lacking
  <2>2. \/ answer = "full"
        \/ answer = "bare" /\ answer \in Partial
        \/ answer = "declined" /\ Req.flag /\ Mark \notin accepted
    BY <1>3, <1>11 DEF Answers, Partial
  <2>3. answer \in {"full", "bare"} => Act
    BY <1>4 DEF Acts
  <2>4. answer = "declined" => DoNothing
    BY <1>4 DEF Acts
  <2>5. answer = "bare" => ~Req.flag
    BY <2>2, <1>11, ReqFacts DEF Partial, Leading, Publishing, Trailing
  <2>6. Act => \E m \in accepted' : m[1] = step
    <3>1. Mark[1] = step
      BY DEF Mark
    <3>2. QED
      BY <3>1 DEF Act
  <2>7. Owed(step) /\ verdict' => \E m \in accepted' : m[1] = step
    BY <2>1, <2>2, <2>3, <2>6
  <2>8. verdict' = verdict \/ (Req.flag /\ Mark \notin accepted /\ DoNothing /\ verdict' = FALSE)
    BY <2>1, <2>2, <2>4, <2>5, <1>1
  <2>9. \E k \in {0, Req.skips} : GoOn(k)
    BY <2>1
  <2>10. found' = found \/ (Req.does = "publish" /\ found' = Post)
    BY <2>1
  <2>11. Proceeds
    BY <2>7, <2>8, <2>9, <2>10, <1>1 DEF Proceeds
  <2>12. QED
    BY <2>1, <2>9, <2>11, <1>1, <1>2, <1>6, GoOnTyped DEF Moves
<1>12. QED
  BY <1>8, <1>9, <1>10, <1>11
LEMMA FaultMoves ==
  ASSUME TypeOK, FoundWhenPublished, ChangesAnswered, Asks, Fault, Loses,
         \/ UNCHANGED <<pc, step, attempt, before, found, verdict>>
            /\ sends' \in 1..2 /\ wire' \in 0..Retries
         \/ Error
  PROVE  Moves
<1>1. /\ Running /\ UNCHANGED <<call, foreign>> /\ faults' = faults + 1 /\ faults' <= MaxFaults
      /\ DoNothing \/ (Act /\ Req.does # "look" /\ ~Gone)
      /\ Req.does = "look" => found = Nothing
  <2>1. /\ Running /\ UNCHANGED <<call, foreign>> /\ faults' = faults + 1 /\ faults < MaxFaults
        /\ DoNothing \/ (Act /\ Req.does # "look" /\ ~Gone)
        /\ Req.does = "look" => found = Nothing
    BY DEF Asks, Fault, Loses
  <2>2. QED
    <3>1. faults \in Nat /\ MaxFaults \in Nat
      BY Ranges, Numbers
    <3>2. faults < MaxFaults => faults + 1 <= MaxFaults
      BY <3>1
    <3>3. QED
      BY <2>1, <3>2
<1>2. CASE UNCHANGED <<pc, step, attempt, before, found, verdict>>
           /\ sends' \in 1..2 /\ wire' \in 0..Retries
  <2>1. Stays
    BY <1>1, <1>2 DEF Stays
  <2>2. QED
    BY <1>1, <1>2, <2>1 DEF Moves
<1>3. CASE Error
  BY <1>1, <1>3, ErrorMoves DEF Moves
<1>4. QED
  BY <1>2, <1>3

LEMMA BreakMoves ==
  ASSUME TypeOK, FoundWhenPublished, ChangesAnswered, Break
  PROVE  Moves
<1>1. Asks /\ Fault /\ Loses
  BY DEF Break
<1>2. CASE wire > 0 /\ Req.via # "plain"
  <2>1. wire' = wire - 1 /\ UNCHANGED <<pc, step, attempt, sends, before, found, verdict>>
    BY <1>2 DEF Break
  <2>2. sends' \in 1..2 /\ wire' \in 0..Retries
    <3>1. wire \in 0..Retries /\ Retries \in Nat /\ sends \in 1..2
      BY Ranges, Numbers
    <3>2. wire > 0 /\ wire' = wire - 1 /\ sends' = sends
      BY <1>2, <2>1
    <3>3. QED
      BY <3>1, <3>2
  <2>3. QED
    BY <1>1, <2>1, <2>2, FaultMoves
<1>3. CASE ~(wire > 0 /\ Req.via # "plain")
  BY <1>1, <1>3, FaultMoves DEF Break
<1>4. QED
  BY <1>2, <1>3

LEMMA ComeLateMoves ==
  ASSUME TypeOK, FoundWhenPublished, ChangesAnswered, ComeLate
  PROVE  Moves
<1>1. Asks /\ Fault /\ Loses
  BY DEF ComeLate
<1>2. CASE sends = 2 /\ Req.via = "private"
  <2>1. sends' = 1 /\ wire' = Retries /\ UNCHANGED <<pc, step, attempt, before, found, verdict>>
    BY <1>2 DEF ComeLate
  <2>2. QED
    BY <1>1, <2>1, FaultMoves, Numbers
<1>3. CASE ~(sends = 2 /\ Req.via = "private")
  BY <1>1, <1>3, FaultMoves DEF ComeLate
<1>4. QED
  BY <1>2, <1>3

LEMMA SkipMoves ==
  ASSUME TypeOK, Skip
  PROVE  Moves
<1>1. /\ Running /\ Req.optional /\ GoOn(Req.skips) /\ DoNothing
      /\ UNCHANGED <<call, before, found, verdict, faults, foreign>>
  BY DEF Skip, DoNothing
<1>2. ~Owed(step)
  BY <1>1, ReqFacts DEF Owed
<1>3. Req.does # "look"
  BY <1>1, ReqFacts DEF Leading, Publishing, Trailing
<1>4. Proceeds
  BY <1>1, <1>2, <1>3 DEF Proceeds
<1>5. faults' \in {faults, faults + 1} /\ faults' <= MaxFaults
  BY <1>1, Faults
<1>6. QED
  BY <1>1, <1>4, <1>5, GoOnTyped DEF Moves

LEMMA ExtractMediaMoves ==
  ASSUME TypeOK, ExtractMedia
  PROVE  Moves
<1>1. /\ Running /\ Req.does = "look" /\ DoNothing
      /\ UNCHANGED <<call, before, found, faults, foreign>>
  BY DEF ExtractMedia, DoNothing
<1>2. faults' \in {faults, faults + 1} /\ faults' <= MaxFaults
  BY <1>1, Faults
<1>3. CASE found # Nothing /\ GoOn(0) /\ UNCHANGED verdict
  <2>1. ~Owed(step)
    BY <1>1, ReqFacts DEF Owed
  <2>2. Proceeds
    BY <1>1, <1>3, <2>1 DEF Proceeds
  <2>3. QED
    BY <1>1, <1>2, <1>3, <2>2, GoOnTyped DEF Moves
<1>4. CASE found = Nothing /\ Raise
  BY <1>1, <1>2, <1>4, RaiseFails DEF Moves
<1>5. QED
  BY <1>3, <1>4 DEF ExtractMedia

LEMMA FindNewMediaMoves ==
  ASSUME TypeOK, FindNewMedia
  PROVE  Moves
<1>1. /\ Running /\ Req.does = "look" /\ DoNothing /\ found = Nothing
      /\ Req.tries > 0 /\ before.known
      /\ UNCHANGED <<call, before, faults, foreign>>
  BY DEF FindNewMedia, DoNothing, MayLook
<1>2. faults' \in {faults, faults + 1} /\ faults' <= MaxFaults
  BY <1>1, Faults
<1>3. CASE TryAgain /\ UNCHANGED found
  BY <1>1, <1>2, <1>3, TryAgainMoves DEF Moves
<1>4. CASE /\ GoOn(0) /\ UNCHANGED verdict
           /\ \E list \in {feed} \cup {Without(feed, i) : i \in Owned(feed)} :
                \E i \in {i \in 1..Lesser(Window, Len(list)) : list[i] \notin before.ids} :
                    /\ \A j \in {j \in 1..Lesser(Window, Len(list)) : list[j] \notin before.ids} :
                           i <= j
                    /\ found' = list[i]
  <2>1. Uncovers
    BY <1>1, <1>4 DEF Uncovers
  <2>2. ~Owed(step)
    BY <1>1, ReqFacts DEF Owed
  <2>3. found' # Nothing
    BY <2>1, <1>1, FoundIsAPost
  <2>4. Proceeds
    BY <1>1, <1>4, <2>1, <2>2, <2>3 DEF Proceeds
  <2>5. QED
    BY <1>1, <1>2, <1>4, <2>4, GoOnTyped DEF Moves
<1>5. QED
  BY <1>3, <1>4 DEF FindNewMedia

LEMMA RunMoves ==
  ASSUME TypeOK, FoundWhenPublished, ChangesAnswered, VerdictOK, Run
  PROVE  Moves
BY ExchangeMoves, BreakMoves, ComeLateMoves, SkipMoves, ExtractMediaMoves, FindNewMediaMoves
   DEF Run

-------------------------------------------------------------------------------
(* The steps keep the invariant.                                             *)

LEMMA MoveFacts ==
  ASSUME TypeOK, Moves
  PROVE  /\ Running /\ call' = call /\ Steps' = Steps /\ Looks' = Looks /\ foreign' = foreign
         /\ faults' \in {faults, faults + 1}
         /\ DoNothing \/ (Act /\ Req.does # "look" /\ ~Gone)
         /\ accepted \subseteq accepted' /\ accepted' \subseteq accepted \cup {Mark}
         /\ Mark[1] = step
<1>1. Running /\ UNCHANGED <<call, foreign>> /\ faults' \in {faults, faults + 1}
      /\ (DoNothing \/ (Act /\ Req.does # "look" /\ ~Gone))
  BY DEF Moves
<1>2. Steps' = Steps /\ Looks' = Looks
  BY <1>1 DEF Steps, Looks
<1>3. accepted \subseteq accepted' /\ accepted' \subseteq accepted \cup {Mark}
  BY <1>1 DEF DoNothing, Act
<1>4. Mark[1] = step
  BY DEF Mark
<1>5. QED
  BY <1>1, <1>2, <1>3, <1>4

\* Where a request that was answered leads.
LEMMA ProceedsTo ==
  ASSUME TypeOK, Proceeds
  PROVE  \E k \in 0..4 :
            /\ k \in {0, Req.skips}
            /\ \/ /\ step + k < Len(Steps) /\ pc' = "running" /\ step' = step + k + 1
                  /\ attempt' = IF Req.tries > 1 THEN 1 ELSE attempt
               \/ ~(step + k < Len(Steps)) /\ pc' = "done" /\ UNCHANGED <<step, attempt>>
            /\ \A j \in 1..Len(Steps) : step < j /\ j <= step + k => Steps[j].does = "read"
<1>1. PICK k \in {0, Req.skips} : GoOn(k)
  BY DEF Proceeds
<1>2. Req \in Requests /\ Req.skips \in 0..4 /\ step \in 1..Len(Steps) /\ Steps[step] = Req
  BY ReqFacts, LeadingRequests
<1>3. k \in 0..4
  BY <1>1, <1>2
<1>4. \A j \in 1..Len(Steps) : step < j /\ j <= step + k => Steps[j].does = "read"
  <2>1. \A j \in 1..Len(Steps) : step < j /\ j <= step + Req.skips => Steps[j].does = "read"
    BY <1>2, StepFacts DEF SoundSteps
  <2>2. \A j \in 1..Len(Steps) : step < j => ~(j <= step + 0)
    BY <1>2
  <2>3. QED
    BY <1>1, <2>1, <2>2
<1>5. \/ /\ step + k < Len(Steps) /\ pc' = "running" /\ step' = step + k + 1
         /\ attempt' = IF Req.tries > 1 THEN 1 ELSE attempt
      \/ ~(step + k < Len(Steps)) /\ pc' = "done" /\ UNCHANGED <<step, attempt>>
  <2>1. CASE step + k < Len(Steps)
    BY <1>1, <2>1 DEF GoOn, Due
  <2>2. CASE ~(step + k < Len(Steps))
    BY <1>1, <2>2 DEF GoOn, Ends
  <2>3. QED
    BY <2>1, <2>2
<1>6. QED
  BY <1>1, <1>3, <1>4, <1>5

\* The four outcomes of a step.
LEMMA Outcomes ==
  ASSUME TypeOK, Moves
  PROVE  /\ step' \in 1..Len(Steps) /\ pc' \in {"running", "done", "raised"}
         /\ Fails => pc' # "running" /\ step' = step
         /\ Repeats => /\ pc' = "running" /\ step' <= step
                       /\ \/ Req.back = 0 /\ step' = step
                          \/ /\ Req.back = 1 /\ step' = step - 1 /\ Steps[step'] \in Repeatable
                             /\ Req \in Publishing
         /\ Stays => pc' = "running" /\ step' = step
         /\ Proceeds => \/ pc' = "running" /\ step < step'
                        \/ pc' = "done" /\ step' = step
         /\ Stays \/ Fails \/ Repeats \/ Proceeds
<1>1. step \in 1..Len(Steps) /\ Len(Steps) \in Nat /\ Running /\ (Stays \/ Fails \/ Repeats \/ Proceeds)
  BY ReqFacts, StepFacts DEF Moves
<1>2. Fails => pc' \in {"done", "raised"} /\ step' = step
  BY DEF Fails
<1>3. ASSUME Repeats
      PROVE  /\ pc' = "running" /\ step' <= step /\ step' \in 1..Len(Steps)
             /\ \/ Req.back = 0 /\ step' = step
                \/ /\ Req.back = 1 /\ step' = step - 1 /\ Steps[step'] \in Repeatable
                   /\ Req \in Publishing
  <2>1. pc' = "running" /\ step' = step - Req.back
    BY <1>3 DEF Repeats
  <2>2. Req \in Requests /\ Steps[step] = Req
    BY ReqFacts
  <2>3. Req.back \in 0..1
    BY <2>2 DEF Requests
  <2>4. Req.back = 1 => step > 1 /\ Steps[step - 1] \in Repeatable
    BY <1>1, <2>2, StepFacts DEF SoundSteps
  <2>5. Req.back = 1 => Req \in Publishing
    BY ReqFacts DEF Leading, Trailing
  <2>6. QED
    BY <1>1, <2>1, <2>3, <2>4, <2>5
<1>4. Stays => pc' = "running" /\ step' = step
  BY <1>1 DEF Stays, Running
<1>5. ASSUME Proceeds
      PROVE  /\ \/ pc' = "running" /\ step < step'
                \/ pc' = "done" /\ step' = step
             /\ step' \in 1..Len(Steps)
  <2>1. PICK k \in 0..4 :
            \/ step + k < Len(Steps) /\ pc' = "running" /\ step' = step + k + 1
            \/ pc' = "done" /\ UNCHANGED step
    BY <1>5, ProceedsTo
  <2>2. QED
    BY <1>1, <2>1
<1>6. QED
  BY <1>1, <1>2, <1>3, <1>4, <1>5

LEMMA AttemptStays ==
  ASSUME TypeOK, AttemptOK, Moves
  PROVE  AttemptOK'
<1>1. /\ Steps' = Steps /\ step \in 1..Len(Steps) /\ Steps[step] = Req /\ Len(Steps) \in Nat
      /\ Req' = Steps[step'] /\ attempt \in Nat \ {0}
  <2>1. Req' = Steps[step'] \/ Steps' # Steps
    BY DEF Req
  <2>2. QED
    BY <2>1, MoveFacts, ReqFacts, StepFacts, Ranges
<1>2. ASSUME NEW i \in 1..Len(Steps) PROVE Steps[i].tries \in Nat
  <2>1. Steps[i] \in Requests
    BY StepFacts
  <2>2. QED
    BY <2>1, Numbers DEF Requests
<1>3. CASE UNCHANGED <<step, attempt>>
  BY <1>1, <1>3 DEF AttemptOK
<1>4. CASE Repeats
  <2>1. attempt' <= Req.tries
    BY <1>1, <1>2, <1>4 DEF Repeats
  <2>2. CASE Req.back = 0 /\ step' = step
    BY <2>1, <2>2, <1>1 DEF AttemptOK
  <2>3. CASE Req.back = 1 /\ step' = step - 1
    <3>1. step' < Len(Steps') /\ Steps'[step' + 1] = Req
      BY <2>3, <1>1
    <3>2. QED
      BY <2>1, <2>3, <3>1 DEF AttemptOK
  <2>4. QED
    BY <1>4, <2>2, <2>3, Outcomes
<1>5. CASE Proceeds /\ step' # step
  <2>1. PICK k \in 0..4 : /\ k \in {0, Req.skips} /\ step + k < Len(Steps)
                          /\ step' = step + k + 1 /\ attempt' = IF Req.tries > 1 THEN 1 ELSE attempt
    BY <1>5, ProceedsTo
  <2>2. CASE attempt' = 1
    BY <2>2 DEF AttemptOK
  <2>3. CASE attempt' # 1
    <3>1. ~(Req.tries > 1) /\ attempt' = attempt /\ attempt # 1
      BY <2>1, <2>3
    <3>2. ~(attempt <= Req.tries)
      BY <3>1, <1>1, <1>2
    <3>3. step < Len(Steps) /\ Steps[step + 1].back = 1 /\ attempt <= Steps[step + 1].tries
      BY <3>1, <3>2 DEF AttemptOK
    <3>4. Req \in Repeatable
      <4>1. step + 1 \in 1..Len(Steps) /\ (step + 1) - 1 = step
        BY <3>3, <1>1
      <4>2. \A i \in 1..Len(Steps) : Steps[i].back = 1 => Steps[i - 1] \in Repeatable
        BY StepFacts DEF SoundSteps
      <4>3. Steps[(step + 1) - 1] \in Repeatable
        BY <4>1, <4>2, <3>3
      <4>4. QED
        BY <4>1, <4>3, <1>1
    <3>5. k = 0
      BY <2>1, <3>4, <1>1 DEF Repeatable
    <3>6. step' = step + 1
      BY <2>1, <3>5, <1>1
    <3>7. QED
      BY <3>1, <3>3, <3>6, <1>1 DEF AttemptOK
  <2>4. QED
    BY <2>2, <2>3
<1>6. CASE Proceeds /\ step' = step
  <2>1. attempt' = attempt
    <3>1. PICK k \in 0..4 : step' = step + k + 1 \/ attempt' = attempt
      BY <1>6, ProceedsTo
    <3>2. QED
      BY <3>1, <1>6, <1>1
  <2>2. QED
    BY <2>1, <1>3, <1>6
<1>7. QED
  BY <1>3, <1>4, <1>5, <1>6, Outcomes DEF Stays, Fails

LEMMA MarksStay ==
  ASSUME TypeOK, MarksOK, Moves
  PROVE  MarksOK'
<1>1. Steps' = Steps /\ accepted' \subseteq accepted \cup {Mark} /\ Steps[step] = Req
  BY MoveFacts, ReqFacts
<1>2. Mark[1] = step /\ (Req.id # "attempt" => Mark[2] = 0)
  BY DEF Mark
<1>3. QED
  BY <1>1, <1>2 DEF MarksOK

LEMMA VerdictStays ==
  ASSUME TypeOK, VerdictOK, Moves
  PROVE  VerdictOK'
<1>1. verdict = TRUE /\ Running
  BY MoveFacts DEF VerdictOK, Running, TypeOK
<1>2. CASE Stays \/ Fails \/ Repeats
  BY <1>1, <1>2 DEF Stays, Fails, Repeats, VerdictOK
<1>3. CASE Proceeds
  <2>1. CASE ~Req.flag
    BY <1>1, <1>3, <2>1 DEF Proceeds, VerdictOK
  <2>2. CASE Req.flag
    <3>1. step = Len(Steps) /\ step \in Nat
      BY <2>2, ReqFacts, StepFacts DEF SoundSteps
    <3>2. pc' = "done"
      <4>1. PICK k \in 0..4 : step + k < Len(Steps) \/ pc' = "done"
        BY <1>3, ProceedsTo
      <4>2. QED
        BY <3>1, <4>1
    <3>3. QED
      BY <3>2 DEF VerdictOK
  <2>3. QED
    BY <2>1, <2>2
<1>4. QED
  BY <1>2, <1>3, Outcomes

LEMMA FoundStays ==
  ASSUME TypeOK, FoundWhenPublished, Moves
  PROVE  FoundWhenPublished'
<1>1. /\ Steps' = Steps /\ Running /\ step \in 1..Len(Steps) /\ Steps[step] = Req
      /\ step' \in 1..Len(Steps) /\ Len(Steps) \in Nat
  BY MoveFacts, Outcomes, ReqFacts, StepFacts
<1>2. SUFFICES ASSUME found' # Nothing \/ edited' # {}
               PROVE  \E p \in 1..step' : Publishes(Steps', p) /\ (p = step' => pc' = "done")
  BY DEF FoundWhenPublished
<1>3. CASE Req.does = "publish"
  <2>1. found = Nothing /\ edited = {}
    BY <1>1, <1>3, FoundTrails DEF Trailing
  <2>2. edited' = edited
    BY <1>3, MoveFacts DEF Act, DoNothing
  <2>3. Proceeds
    BY <1>2, <2>1, <2>2, Outcomes DEF Stays, Fails, Repeats
  <2>4. Publishes(Steps', step) /\ step \in 1..step' /\ (step = step' => pc' = "done")
    BY <1>1, <1>3, <2>3, Outcomes DEF Publishes
  <2>5. QED
    BY <2>4
<1>4. CASE Req.does # "publish"
  <2>1. Req \in Trailing /\ \E p \in 1..(step - 1) : Publishes(Steps, p)
    <3>1. CASE found # Nothing \/ edited # {}
      BY <3>1, <1>1, FoundTrails
    <3>2. CASE found = Nothing /\ edited = {}
      <4>1. Req.does \in {"look", "edit"}
        <5>1. CASE edited' # {}
          BY <3>2, <5>1, MoveFacts DEF Act, DoNothing
        <5>2. CASE found' # Nothing
          BY <1>4, <3>2, <5>2, Outcomes DEF Stays, Fails, Repeats, Proceeds, Uncovers
        <5>3. QED
          BY <1>2, <5>1, <5>2
      <4>2. QED
        BY <4>1, ReqFacts DEF Leading, Publishing
    <3>3. QED
      BY <3>1, <3>2
  <2>2. PICK p \in 1..(step - 1) : Publishes(Steps, p)
    BY <2>1
  <2>3. step <= step'
    BY <2>1, <1>1, Outcomes DEF Trailing
  <2>4. p \in 1..step' /\ p # step'
    BY <2>2, <2>3, <1>1
  <2>5. QED
    BY <2>2, <2>4, <1>1
<1>5. QED
  BY <1>3, <1>4

LEMMA AnsweredStays ==
  ASSUME TypeOK, ChangesAnswered, Moves
  PROVE  ChangesAnswered'
<1>1. /\ Steps' = Steps /\ Running /\ step \in 1..Len(Steps) /\ Steps[step] = Req
      /\ step' \in 1..Len(Steps) /\ Len(Steps) \in Nat
      /\ accepted' \subseteq accepted \cup {Mark} /\ Mark[1] = step
      /\ faults' \in {faults, faults + 1} /\ faults \in Nat
  <2>1. faults \in Nat
    BY Ranges
  <2>2. QED
    BY <2>1, MoveFacts, Outcomes, ReqFacts, StepFacts
<1>2. SUFFICES ASSUME pc' = "running", faults' = 0, NEW m \in accepted', Steps[m[1]].does = "set"
               PROVE  m[1] < step'
  BY <1>1 DEF ChangesAnswered, Running
<1>3. faults = 0 /\ ~Stays /\ ~Fails
  BY <1>1, <1>2, Outcomes DEF Stays
<1>4. CASE m \in accepted
  <2>1. m[1] < step /\ m[1] \in 1..Len(Steps)
    BY <1>1, <1>2, <1>3, <1>4 DEF ChangesAnswered, TypeOK
  <2>2. CASE step <= step'
    BY <2>1, <2>2, <1>1
  <2>3. CASE step' = step - 1 /\ Steps[step'] \in Repeatable
    <3>1. m[1] # step'
      BY <2>3, <1>2 DEF Repeatable
    <3>2. QED
      BY <2>1, <2>3, <3>1, <1>1
  <2>4. QED
    BY <2>2, <2>3, <1>1, <1>3, Outcomes
<1>5. CASE m = Mark
  <2>1. Proceeds
    BY <1>1, <1>2, <1>3, <1>5, Outcomes DEF Repeats
  <2>2. QED
    BY <2>1, <1>1, <1>2, <1>5, Outcomes
<1>6. QED
  BY <1>1, <1>4, <1>5

LEMMA HonestyStays ==
  ASSUME TypeOK, VerdictOK, ChangesAnswered, Moves
  PROVE  FailureIsHonest'
<1>1. /\ Steps' = Steps /\ Running /\ Req' = Steps'[step'] /\ Steps[step] = Req
      /\ verdict = TRUE
  BY MoveFacts, ReqFacts DEF Req, VerdictOK, Running, TypeOK
<1>2. ASSUME pc' = "raised", found' # Nothing PROVE Req'.does = "expose"
  <2>1. Fails
    BY <1>2, Outcomes
  <2>2. QED
    BY <2>1, <1>1, <1>2 DEF Fails
<1>3. ASSUME pc' = "done", verdict' = FALSE, faults' = 0, Req'.does = "set"
      PROVE  Mark' \notin accepted'
  <2>1. UNCHANGED <<step, attempt>> /\ (Fails \/ Proceeds)
    <3>1. Fails \/ Proceeds
      BY <1>3, Outcomes
    <3>2. ASSUME Proceeds PROVE UNCHANGED <<step, attempt>>
      <4>1. PICK k \in 0..4 : pc' = "running" \/ UNCHANGED <<step, attempt>>
        BY <3>2, ProceedsTo
      <4>2. QED
        BY <4>1, <1>3
    <3>3. QED
      BY <3>1, <3>2 DEF Fails
  <2>2. Req' = Req /\ Mark' = Mark
    BY <2>1, <1>1 DEF Mark
  <2>3. CASE Fails
    <3>1. Calls[call].swallows
      BY <2>3, <1>3, StepFacts DEF Fails
    <3>2. QED
      BY <2>2, <2>3, <3>1, <1>3 DEF Fails
  <2>4. CASE Proceeds
    <3>1. Mark \notin accepted /\ DoNothing
      BY <2>4, <1>1, <1>3 DEF Proceeds
    <3>2. QED
      BY <3>1, <2>2 DEF DoNothing
  <2>5. QED
    BY <2>1, <2>3, <2>4
<1>4. verdict' \in BOOLEAN
  BY <1>1, Outcomes DEF Stays, Fails, Repeats, Proceeds
<1>5. QED
  BY <1>2, <1>3, <1>4 DEF FailureIsHonest

LEMMA OrderStays ==
  ASSUME TypeOK, VerdictOK, ChangesInOrder, Moves
  PROVE  ChangesInOrder'
<1>1. /\ Steps' = Steps /\ Running /\ step \in 1..Len(Steps) /\ Steps[step] = Req
      /\ step' \in 1..Len(Steps) /\ Len(Steps) \in Nat
      /\ accepted \subseteq accepted' /\ accepted' \subseteq accepted \cup {Mark} /\ Mark[1] = step
      /\ \A i : Owed(i)' <=> Owed(i)
  <2>1. Steps' = Steps
    BY MoveFacts
  <2>2. \A i : Owed(i)' <=> Owed(i)
    BY <2>1 DEF Owed
  <2>3. QED
    BY <2>2, MoveFacts, Outcomes, ReqFacts, StepFacts
<1>2. SUFFICES ASSUME NEW i \in 1..Len(Steps), Owed(i),
                      \/ pc' = "running" /\ i < step'
                      \/ pc' = "done" /\ verdict'
                      \/ \E m \in accepted' : m[1] > i
               PROVE  \E m \in accepted' : m[1] = i
  BY <1>1 DEF ChangesInOrder, Running
<1>3. ASSUME \E m \in accepted : m[1] = i PROVE \E m \in accepted' : m[1] = i
  BY <1>1, <1>3
<1>4. ASSUME i < step \/ \E m \in accepted : m[1] > i PROVE \E m \in accepted' : m[1] = i
  <2>1. \E m \in accepted : m[1] = i
    BY <1>1, <1>2, <1>4 DEF ChangesInOrder
  <2>2. QED
    BY <2>1, <1>3
<1>5. CASE i >= step /\ ~\E m \in accepted : m[1] > i
  <2>1. ~\E m \in accepted' : m[1] > i
    BY <1>1, <1>5
  <2>2. verdict'
    <3>1. VerdictOK'
      BY VerdictStays
    <3>2. QED
      BY <3>1, <1>2, <2>1 DEF VerdictOK
  <2>3. Proceeds
    <3>1. ~Fails
      BY <1>2, <2>1, <2>2, Outcomes DEF Fails
    <3>2. ~Stays /\ ~Repeats
      BY <1>1, <1>2, <1>5, <2>1, Outcomes
    <3>3. QED
      BY <3>1, <3>2, Outcomes
  <2>4. CASE i = step
    BY <2>2, <2>3, <2>4, <1>2 DEF Proceeds
  <2>5. CASE i > step
    <3>1. PICK k \in 0..4 :
            /\ \/ step + k < Len(Steps) /\ pc' = "running" /\ step' = step + k + 1
               \/ ~(step + k < Len(Steps)) /\ pc' = "done"
            /\ \A j \in 1..Len(Steps) : step < j /\ j <= step + k => Steps[j].does = "read"
      BY <2>3, ProceedsTo
    <3>2. i <= step + k
      BY <1>1, <1>2, <2>1, <3>1
    <3>3. Steps[i].does = "read"
      BY <2>5, <3>1, <3>2, <1>1
    <3>4. QED
      BY <3>3, <1>2 DEF Owed
  <2>6. QED
    BY <1>1, <1>5, <2>4, <2>5
<1>6. QED
  BY <1>1, <1>4, <1>5

LEMMA LookedStays ==
  ASSUME TypeOK, LookedFor, Moves
  PROVE  LookedFor'
<1>1. /\ Steps' = Steps /\ Running /\ pc = "running" /\ step \in 1..Len(Steps) /\ Steps[step] = Req
      /\ step' \in 1..Len(Steps) /\ Len(Steps) \in Nat
  BY MoveFacts, Outcomes, ReqFacts, StepFacts DEF Running
<1>2. SUFFICES ASSUME pc' # "raised", NEW i \in 1..Len(Steps), Steps[i].does = "look",
                      i < step' \/ pc' = "done"
               PROVE  found' # Nothing
  BY <1>1 DEF LookedFor
<1>3. ASSUME found # Nothing PROVE found' # Nothing
  <2>1. found' = found \/ found' = Post
    BY <1>3, Outcomes DEF Stays, Fails, Repeats, Proceeds, Uncovers
  <2>2. Post # Nothing
    BY DEF Post, Own, Nothing
  <2>3. QED
    BY <1>3, <2>1, <2>2
<1>4. CASE i < step
  BY <1>1, <1>2, <1>3, <1>4 DEF LookedFor
<1>5. CASE ~(i < step)
  <2>1. Proceeds
    <3>1. ~Fails
      <4>1. Fails => Calls[call].swallows
        BY <1>2, StepFacts DEF Fails
      <4>2. ~Calls[call].swallows
        BY <1>2, StepFacts DEF Leading
      <4>3. QED
        BY <4>1, <4>2
    <3>2. ~Stays /\ ~Repeats
      BY <1>1, <1>2, <1>5, Outcomes
    <3>3. QED
      BY <3>1, <3>2, Outcomes
  <2>2. CASE i = step
    BY <2>1, <2>2, <1>1, <1>2 DEF Proceeds
  <2>3. CASE i > step
    <3>1. PICK k \in 0..4 :
            /\ \/ step + k < Len(Steps) /\ pc' = "running" /\ step' = step + k + 1
               \/ ~(step + k < Len(Steps)) /\ pc' = "done"
            /\ \A j \in 1..Len(Steps) : step < j /\ j <= step + k => Steps[j].does = "read"
      BY <2>1, ProceedsTo
    <3>2. i <= step + k
      BY <1>1, <1>2, <3>1
    <3>3. QED
      BY <2>3, <3>1, <3>2, <1>1, <1>2
  <2>4. QED
    BY <1>1, <1>5, <2>2, <2>3
<1>6. QED
  BY <1>4, <1>5

LEMMA MarkIs ==
  ASSUME TypeOK, AttemptOK
  PROVE  /\ Mark \in (1..Len(Steps)) \X (0..VideoTries)
         /\ Req.id # "attempt" => Mark = <<step, 0>>
<1>1. step \in 1..Len(Steps) /\ Len(Steps) \in Nat /\ Steps[step] = Req /\ attempt \in Nat \ {0}
      /\ VideoTries \in Nat \ {0}
  <2>1. VideoTries \in Nat \ {0} /\ attempt \in Nat \ {0}
    BY Numbers, Ranges
  <2>2. QED
    BY <2>1, ReqFacts, StepFacts
<1>2. Req.id # "attempt" => Mark = <<step, 0>>
  BY DEF Mark
<1>3. CASE Req.id = "attempt"
  <2>1. Req \in Publishing /\ Req.tries = VideoTries
    BY <1>3, ReqFacts DEF Leading, Publishing, Trailing
  <2>2. attempt <= VideoTries
    <3>1. CASE attempt = 1
      BY <3>1, <1>1
    <3>2. CASE attempt <= Req.tries
      BY <3>2, <2>1
    <3>3. CASE step < Len(Steps) /\ Steps[step + 1].back = 1
      <4>1. step + 1 \in 1..Len(Steps) /\ (step + 1) - 1 = step
        BY <3>3, <1>1
      <4>2. \A i \in 1..Len(Steps) : Steps[i].back = 1 => Steps[i - 1] \in Repeatable
        BY StepFacts DEF SoundSteps
      <4>3. Steps[(step + 1) - 1] \in Repeatable
        BY <4>1, <4>2, <3>3
      <4>4. Req \in Repeatable
        BY <4>1, <4>3, <1>1
      <4>5. QED
        BY <4>4, <2>1 DEF Repeatable, Publishing
    <3>4. QED
      BY <3>1, <3>2, <3>3 DEF AttemptOK
  <2>3. Mark = <<step, attempt>> /\ attempt \in 0..VideoTries
    BY <1>1, <1>3, <2>2 DEF Mark
  <2>4. QED
    BY <2>3, <1>1, <1>2
<1>4. CASE Req.id # "attempt"
  BY <1>1, <1>2, <1>4
<1>5. QED
  BY <1>2, <1>3, <1>4

\* A publication whose copies share an id finds no post of the call.
LEMMA NothingPosted ==
  ASSUME TypeOK, AttemptOK, MarksOK, OnePost, OneId(Steps), Req.does = "publish",
         Req.id = "none" \/ Mark \notin accepted
  PROVE  Owned(feed) = {}
<1>1. /\ step \in 1..Len(Steps) /\ Steps[step] = Req /\ Publishes(Steps, step)
  BY ReqFacts DEF Publishes
<1>2. Req.id = "call"
  BY <1>1 DEF OneId
<1>3. Mark = <<step, 0>> /\ Mark \notin accepted
  BY <1>2, MarkIs
<1>4. SUFFICES ASSUME NEW m \in accepted, Publishes(Steps, m[1])
               PROVE  FALSE
  BY DEF OnePost
<1>5. m \in (1..Len(Steps)) \X (0..VideoTries)
  BY DEF TypeOK
<1>6. m[1] = step
  BY <1>1, <1>4, <1>5, StepFacts DEF SoundSteps
<1>7. m[2] = 0
  BY <1>1, <1>2, <1>6 DEF MarksOK
<1>8. m = <<step, 0>>
  BY <1>5, <1>6, <1>7
<1>9. QED
  BY <1>3, <1>8

LEMMA PostIs ==
  ASSUME TypeOK, AttemptOK, PostsCounted, Running
  PROVE  /\ Post \in Items /\ Post[1] = "own"
         /\ Req.id \notin {"attempt", "none"} => Post = Own(0)
<1>1. Mark[2] \in 0..VideoTries /\ (Req.id # "attempt" => Mark[2] = 0)
  BY MarkIs DEF Mark
<1>2. VideoTries \in Nat /\ PhotoTries \in Nat \ {0} /\ MaxFaults \in Nat
  BY Numbers
<1>3. CASE Req.id = "none"
  <2>1. Cardinality(Owned(feed)) <= faults
    BY <1>3 DEF PostsCounted
  <2>2. Cardinality(Owned(feed)) \in Nat
    BY OwnedFinite DEF TypeOK
  <2>3. Cardinality(Owned(feed)) + 1 \in 0..VideoTries + PhotoTries + MaxFaults
    BY <2>1, <2>2, <1>2 DEF TypeOK
  <2>4. Post = Own(Cardinality(Owned(feed)) + 1)
    BY <1>3 DEF Post
  <2>5. QED
    BY <1>3, <2>3, <2>4 DEF Items, Own
<1>4. CASE Req.id # "none"
  <2>1. Mark[2] \in 0..VideoTries + PhotoTries + MaxFaults
    BY <1>1, <1>2
  <2>2. Post = Own(Mark[2])
    BY <1>4 DEF Post
  <2>3. QED
    BY <1>1, <2>1, <2>2 DEF Items, Own
<1>5. QED
  BY <1>3, <1>4

LEMMA FeedMoves ==
  ASSUME TypeOK, Moves
  PROVE  \/ feed' = feed
         \/ /\ Req.does = "publish" /\ (Req.id = "none" \/ Mark \notin accepted)
            /\ feed' = <<Post>> \o feed /\ accepted' = accepted \cup {Mark}
<1>1. DoNothing \/ Act
  BY DEF Moves
<1>2. QED
  BY <1>1 DEF DoNothing, Act

LEMMA RememberedStays ==
  ASSUME TypeOK, AttemptOK, PostsCounted, RememberedBefore, Moves
  PROVE  RememberedBefore'
<1>1. /\ Steps' = Steps /\ Running /\ step \in 1..Len(Steps) /\ Steps[step] = Req
      /\ step' \in 1..Len(Steps) /\ Len(Steps) \in Nat
  BY MoveFacts, Outcomes, ReqFacts, StepFacts
<1>2. SUFFICES ASSUME Owned(feed') # {}, NEW i \in 1..Len(Steps), Steps[i].does = "remember"
               PROVE  i < step'
  BY <1>1 DEF RememberedBefore
<1>3. i < step
  <2>1. CASE feed' = feed
    BY <2>1, <1>2 DEF RememberedBefore
  <2>2. CASE Req.does = "publish"
    <3>1. Publishes(Steps, step)
      BY <2>2, <1>1 DEF Publishes
    <3>2. Steps[i] \notin Publishing /\ Steps[i] \notin Trailing
      BY <1>2 DEF Publishing, Trailing
    <3>3. QED
      BY <3>1, <3>2, <1>1, StepFacts DEF SoundSteps
  <2>3. QED
    BY <2>1, <2>2, FeedMoves
<1>4. CASE step <= step'
  BY <1>1, <1>3, <1>4
<1>5. CASE step' = step - 1 /\ Steps[step'] \in Repeatable
  <2>1. i # step'
    BY <1>2, <1>5 DEF Repeatable
  <2>2. QED
    BY <1>1, <1>3, <1>5, <2>1
<1>6. QED
  BY <1>1, <1>4, <1>5, Outcomes

LEMMA CountStays ==
  ASSUME TypeOK, AttemptOK, PostsCounted, Moves
  PROVE  PostsCounted'
<1>1. /\ Steps' = Steps /\ Running /\ step \in 1..Len(Steps) /\ Steps[step] = Req
      /\ step' \in 1..Len(Steps) /\ Len(Steps) \in Nat /\ Req' = Steps'[step']
  BY MoveFacts, Outcomes, ReqFacts, StepFacts DEF Req
<1>2. SUFFICES ASSUME Req'.id = "none"
               PROVE  Cardinality(Owned(feed')) <= IF pc' = "running" THEN faults' ELSE faults' + 1
  BY DEF PostsCounted, Running
<1>3. Len(Steps) = 1 /\ step = 1 /\ step' = 1 /\ Req.id = "none"
  <2>1. Len(Steps) = 1
    BY <1>1, <1>2, StepFacts DEF SoundSteps
  <2>2. step = 1 /\ step' = 1
    BY <1>1, <2>1
  <2>3. QED
    BY <2>1, <2>2, <1>1, <1>2
<1>4. Cardinality(Owned(feed)) <= faults /\ Cardinality(Owned(feed)) \in Nat
  <2>1. Cardinality(Owned(feed)) \in Nat
    BY OwnedFinite DEF TypeOK
  <2>2. QED
    BY <2>1, <1>1, <1>3 DEF PostsCounted
<1>5. Cardinality(Owned(feed')) <= Cardinality(Owned(feed)) + 1 /\ Cardinality(Owned(feed')) \in Nat
  <2>1. Post \in Items /\ feed \in Seq(Items)
    BY <1>1, PostIs DEF TypeOK
  <2>2. CASE feed' = feed
    BY <2>2, <1>4
  <2>3. CASE feed' = <<Post>> \o feed
    BY <2>1, <2>3, OwnedCounted
  <2>4. QED
    BY <2>2, <2>3, FeedMoves
<1>6. faults \in Nat /\ faults' \in {faults, faults + 1}
  BY MoveFacts, Ranges
<1>7. CASE pc' # "running" \/ Stays
  BY <1>4, <1>5, <1>6, <1>7, Outcomes DEF Stays
<1>8. CASE pc' = "running" /\ ~Stays
  <2>1. Repeats
    BY <1>1, <1>3, <1>8, Outcomes
  <2>2. Req.tries = 1
    BY <1>3, ReqFacts DEF Leading, Publishing, Trailing
  <2>3. attempt < 1 /\ attempt \in Nat \ {0}
    BY <2>1, <2>2, Ranges DEF Repeats
  <2>4. QED
    BY <2>3
<1>9. QED
  BY <1>7, <1>8

LEMMA OnePostStays ==
  ASSUME TypeOK, AttemptOK, PostsCounted, MarksOK, OnePost, Moves
  PROVE  OnePost'
<1>1. /\ Steps' = Steps /\ Running /\ step \in 1..Len(Steps) /\ Steps[step] = Req
      /\ accepted \subseteq accepted' /\ Mark[1] = step
  BY MoveFacts, ReqFacts
<1>2. SUFFICES ASSUME OneId(Steps)
               PROVE  /\ \A i, j \in Owned(feed') : i = j
                      /\ Owned(feed') # {} => \E m \in accepted' : Publishes(Steps, m[1])
  BY <1>1 DEF OnePost
<1>3. CASE feed' = feed
  BY <1>1, <1>2, <1>3 DEF OnePost
<1>4. CASE /\ Req.does = "publish" /\ (Req.id = "none" \/ Mark \notin accepted)
           /\ feed' = <<Post>> \o feed /\ accepted' = accepted \cup {Mark}
  <2>1. Publishes(Steps, step)
    BY <1>1, <1>4 DEF Publishes
  <2>2. Owned(feed) = {}
    BY <2>1, <1>1, <1>2, <1>4, NothingPosted
  <2>3. \A i \in Owned(feed') : i = 1
    <3>1. Post \in Items /\ feed \in Seq(Items)
      BY <1>1, PostIs DEF TypeOK
    <3>2. QED
      BY <3>1, <2>2, <1>4, PostAdded
  <2>4. QED
    BY <2>1, <2>3, <1>1, <1>4
<1>5. QED
  BY <1>3, <1>4, FeedMoves

LEMMA TypeStays ==
  ASSUME TypeOK, AttemptOK, PostsCounted, LookedFor, Moves
  PROVE  TypeOK'
<1>1. /\ call' \in Methods /\ foreign' \in 0..MaxForeign /\ faults' \in 0..MaxFaults
      /\ sends' \in 1..2 /\ wire' \in 0..Retries
  <2>1. call \in Methods /\ foreign \in 0..MaxForeign /\ faults \in 0..MaxFaults
        /\ MaxFaults \in Nat
    BY Numbers DEF TypeOK
  <2>2. /\ call' = call /\ foreign' = foreign /\ faults' \in {faults, faults + 1}
        /\ faults' <= MaxFaults /\ sends' \in 1..2 /\ wire' \in 0..Retries
    BY DEF Moves
  <2>3. faults' \in 0..MaxFaults
    BY <2>1, <2>2
  <2>4. QED
    BY <2>1, <2>2, <2>3
<1>2. /\ Steps' = Steps /\ step \in 1..Len(Steps) /\ Steps[step] = Req /\ Running
      /\ step' \in 1..Len(Steps) /\ pc' \in {"running", "done", "raised"} /\ Req \in Requests
  BY MoveFacts, Outcomes, ReqFacts
<1>3. attempt' \in 1..VideoTries + PhotoTries + LookTries
  <2>1. attempt \in 1..VideoTries + PhotoTries + LookTries /\ VideoTries \in Nat \ {0}
        /\ PhotoTries \in Nat /\ LookTries \in Nat
    BY Numbers DEF TypeOK
  <2>2. CASE Repeats
    <3>1. Req.tries \in 0..(PhotoTries + VideoTries + LookTries)
      BY <1>2 DEF Requests
    <3>2. attempt' = attempt + 1 /\ attempt < Req.tries
      BY <2>2 DEF Repeats
    <3>3. QED
      BY <2>1, <3>1, <3>2
  <2>3. CASE Stays \/ Fails
    BY <2>1, <2>3 DEF Stays, Fails
  <2>4. CASE Proceeds
    <3>1. PICK k \in 0..4 : attempt' = (IF Req.tries > 1 THEN 1 ELSE attempt) \/ attempt' = attempt
      BY <2>4, ProceedsTo
    <3>2. QED
      BY <2>1, <3>1
  <2>5. QED
    BY <2>2, <2>3, <2>4, Outcomes
<1>4. feed \in Seq(Items) /\ before \in [known : BOOLEAN, ids : SUBSET Items]
      /\ found \in Items \cup {Nothing} /\ verdict \in BOOLEAN /\ edited \subseteq Items
      /\ accepted \subseteq (1..Len(Steps)) \X (0..VideoTries)
  BY DEF TypeOK
<1>5. before' \in [known : BOOLEAN, ids : SUBSET Items]
  <2>1. Shown(feed) \subseteq Items
    <3>1. \A i \in 1..Lesser(Window, Len(feed)) : i \in 1..Len(feed)
      BY <1>4, Numbers DEF Lesser
    <3>2. QED
      BY <3>1, <1>4 DEF Shown
  <2>2. \/ before' = before
        \/ before' \in {Unread, [known |-> TRUE, ids |-> {}], [known |-> TRUE, ids |-> Shown(feed)]}
    BY DEF Moves
  <2>3. /\ Unread \in [known : BOOLEAN, ids : SUBSET Items]
        /\ [known |-> TRUE, ids |-> {}] \in [known : BOOLEAN, ids : SUBSET Items]
        /\ [known |-> TRUE, ids |-> Shown(feed)] \in [known : BOOLEAN, ids : SUBSET Items]
    BY <2>1 DEF Unread
  <2>4. QED
    BY <2>2, <2>3, <1>4
<1>6. found' \in Items \cup {Nothing}
  <2>1. \/ found' = found
        \/ found' = Post
        \/ Uncovers
    BY Outcomes DEF Stays, Fails, Repeats, Proceeds
  <2>2. QED
    BY <2>1, <1>2, <1>4, PostIs, FoundIsAPost
<1>7. verdict' \in BOOLEAN
  BY <1>4, Outcomes DEF Stays, Fails, Repeats, Proceeds
<1>8. feed' \in Seq(Items)
  <2>1. Post \in Items
    BY <1>2, PostIs
  <2>2. QED
    BY <2>1, <1>4, FeedMoves
<1>9. accepted' \subseteq (1..Len(Steps')) \X (0..VideoTries)
  BY <1>2, <1>4, MarkIs, MoveFacts
<1>10. edited' \subseteq Items
  <2>1. Req.does = "edit" => found # Nothing
    <3>1. ASSUME Req.does = "edit"
          PROVE  \E j \in 1..(step - 1) : Steps[j].does = "look"
      BY <1>2, <3>1, StepFacts DEF SoundSteps
    <3>2. \A j \in 1..(step - 1) : j \in 1..Len(Steps) /\ j < step
      BY <1>2, StepFacts
    <3>3. QED
      BY <3>1, <3>2, <1>2 DEF LookedFor, Running
  <2>2. QED
    BY <2>1, <1>4, MoveFacts DEF Act, DoNothing
<1>11. QED
  BY <1>1, <1>2, <1>3, <1>5, <1>6, <1>7, <1>8, <1>9, <1>10 DEF TypeOK

\* The posts from before the call.
LEMMA OldPosts ==
  ASSUME NEW n \in Nat
  PROVE  /\ Olds(n) \in Seq({Old(k) : k \in 1..n}) /\ Len(Olds(n)) = n
         /\ Owned(Olds(n)) = {}
         /\ \A j \in 1..n : Olds(n)[j] = Old(n + 1 - j)
         /\ \A j \in 1..Lesser(Window, n) : Olds(n)[j] \in Shown(Olds(n))
         /\ Own(0) \notin Shown(Olds(n))
<1>1. \A j \in 1..n : n + 1 - j \in 1..n
  OBVIOUS
<1>2. /\ Olds(n) \in Seq({Old(k) : k \in 1..n}) /\ Len(Olds(n)) = n
      /\ \A j \in 1..n : Olds(n)[j] = Old(n + 1 - j)
  BY <1>1 DEF Olds
<1>3. Owned(Olds(n)) = {}
  BY <1>2 DEF Owned, Old
<1>4. \A j \in 1..Lesser(Window, n) : j \in 1..n
  BY Numbers DEF Lesser
<1>5. \A j \in 1..Lesser(Window, n) : Olds(n)[j] \in Shown(Olds(n))
  BY <1>2 DEF Shown
<1>6. Own(0) \notin Shown(Olds(n))
  <2>1. \A j \in 1..n : Olds(n)[j] # Own(0)
    BY <1>2 DEF Old, Own
  <2>2. QED
    BY <1>2, <1>4, <2>1 DEF Shown
<1>7. QED
  BY <1>2, <1>3, <1>5, <1>6

LEMMA WiderSequence ==
  ASSUME NEW S, NEW T \in SUBSET S, NEW s \in Seq(T)
  PROVE  s \in Seq(S)
OBVIOUS

LEMMA OwnPost ==
  ASSUME NEW n \in Nat
  PROVE  LET u == <<Own(0)>> \o Olds(n) IN
         /\ Len(u) = n + 1 /\ u[1] = Own(0) /\ \A j \in 1..n : u[j + 1] = Old(n + 1 - j)
         /\ Owned(u) = {1} /\ Without(u, 1) = Olds(n)
<1> DEFINE u == <<Own(0)>> \o Olds(n)
           S == {Own(0)} \cup {Old(k) : k \in 1..n}
<1>1. Olds(n) \in Seq(S) /\ Len(Olds(n)) = n /\ Owned(Olds(n)) = {}
      /\ \A j \in 1..n : Olds(n)[j] = Old(n + 1 - j)
  <2>1. {Old(k) : k \in 1..n} \subseteq S
    OBVIOUS
  <2> HIDE DEF S
  <2>2. Olds(n) \in Seq(S)
    BY <2>1, OldPosts, WiderSequence
  <2>3. QED
    BY <2>2, OldPosts
<1>2. /\ u \in Seq(S) /\ Len(u) = n + 1 /\ u[1] = Own(0) /\ \A j \in 1..n : u[j + 1] = Olds(n)[j]
      /\ \A i \in Owned(u) : i = 1 \/ i - 1 \in Owned(Olds(n))
      /\ 1 \in Owned(u)
  <2>1. Own(0) \in S /\ Own(0)[1] = "own"
    BY DEF Own
  <2> HIDE DEF S
  <2>2. QED
    BY <1>1, <2>1, PostAdded
<1> HIDE DEF u, S
<1>3. Owned(u) = {1}
  BY <1>1, <1>2
<1>4. Without(u, 1) = Olds(n)
  <2>1. /\ Without(u, 1) \in Seq(S) /\ Len(Without(u, 1)) = n
        /\ \A j \in 1..n : Without(u, 1)[j] = IF j < 1 THEN u[j] ELSE u[j + 1]
    <3>1. 1 \in 1..Len(u) /\ Len(u) - 1 = n
      BY <1>2
    <3>2. QED
      BY <3>1, <1>2, WithoutIsAList
  <2>2. \A j \in 1..n : Without(u, 1)[j] = Olds(n)[j]
    BY <1>2, <2>1
  <2>3. QED
    BY <1>1, <2>1, <2>2
<1>5. QED
  BY <1>1, <1>2, <1>3, <1>4 DEF u

\* What is found in a list that nobody else changed.
LEMMA FoundIsOwn ==
  ASSUME NEW n \in Nat, Uncovers,
         feed \in {Olds(n), <<Own(0)>> \o Olds(n)}, before.ids \in {{}, Shown(Olds(n))}
  PROVE  found'[1] = "own" \/ (before.ids = {} /\ n > 0)
<1> DEFINE u == <<Own(0)>> \o Olds(n)
<1>1. PICK list \in {feed} \cup {Without(feed, i) : i \in Owned(feed)} :
        \E i \in 1..Lesser(Window, Len(list)) :
              /\ list[i] \notin before.ids
              /\ \A j \in 1..Lesser(Window, Len(list)) : list[j] \notin before.ids => i <= j
              /\ found' = list[i]
  BY DEF Uncovers
<1>2. PICK i \in 1..Lesser(Window, Len(list)) :
              /\ list[i] \notin before.ids
              /\ \A j \in 1..Lesser(Window, Len(list)) : list[j] \notin before.ids => i <= j
              /\ found' = list[i]
  BY <1>1
<1>3. list \in {Olds(n), u}
  <2>1. Owned(Olds(n)) = {} /\ Owned(u) = {1} /\ Without(u, 1) = Olds(n)
    BY OldPosts, OwnPost
  <2> HIDE DEF u
  <2>2. CASE feed = Olds(n)
    BY <2>1, <2>2, <1>1
  <2>3. CASE feed = u
    BY <2>1, <2>3, <1>1
  <2>4. QED
    BY <2>2, <2>3 DEF u
<1>4. Len(Olds(n)) = n /\ Len(u) = n + 1 /\ u[1] = Own(0)
  BY OldPosts, OwnPost
<1> HIDE DEF u
<1>5. CASE list = Olds(n)
  <2>1. list[i] \in Shown(Olds(n))
    BY <1>2, <1>4, <1>5, OldPosts
  <2>2. before.ids = {}
    BY <2>1, <1>2
  <2>3. n > 0
    BY <1>2, <1>4, <1>5, Numbers DEF Lesser
  <2>4. QED
    BY <2>2, <2>3
<1>6. CASE list = u
  <2>1. 1 \in 1..Lesser(Window, Len(list)) /\ i \in Nat \ {0}
    BY <1>2, <1>4, <1>6, Numbers DEF Lesser
  <2>2. list[1] \notin before.ids
    BY <1>4, <1>6, OldPosts
  <2>3. i = 1
    BY <2>1, <2>2, <1>2
  <2>4. QED
    BY <2>3, <1>2, <1>4, <1>6 DEF Own
<1>7. QED
  BY <1>3, <1>5, <1>6

LEMMA OwnPostsKept ==
  ASSUME OwnPosts({found} \cup edited), edited' \subseteq edited \cup {found},
         found' = found \/ found' = Nothing \/ found'[1] = "own"
  PROVE  OwnPosts({found'} \cup edited')
BY DEF OwnPosts

LEMMA FoundMoves ==
  ASSUME TypeOK, AttemptOK, PostsCounted, Moves
  PROVE  /\ edited' \subseteq edited \cup {found}
         /\ \/ found' = found
            \/ found'[1] = "own"
            \/ Uncovers /\ Looks
<1>1. edited' \subseteq edited \cup {found}
  BY MoveFacts DEF Act, DoNothing
<1>2. found' = found \/ found' = Post \/ Uncovers
  BY Outcomes DEF Stays, Fails, Repeats, Proceeds
<1>3. Post[1] = "own"
  BY PostIs DEF Moves
<1>4. Uncovers => Looks
  BY ReqFacts, StepFacts DEF Uncovers, Looks
<1>5. QED
  BY <1>1, <1>2, <1>3, <1>4

LEMMA UndisturbedStays ==
  ASSUME TypeOK, AttemptOK, PostsCounted, MarksOK, OnePost, FoundWhenPublished,
         RememberedBefore, Undisturbed, Moves
  PROVE  Undisturbed'
<1>1. /\ Steps' = Steps /\ Looks' = Looks /\ foreign' = foreign /\ Running
      /\ step \in 1..Len(Steps) /\ Steps[step] = Req
  BY MoveFacts, ReqFacts
<1>2. ASSUME ~Looks PROVE OwnPosts({found'} \cup edited') /\ foreign' = 0
  <2>1. OwnPosts({found} \cup edited) /\ foreign = 0
    BY <1>2 DEF Undisturbed
  <2>2. QED
    BY <2>1, <1>1, <1>2, FoundMoves, OwnPostsKept
<1>3. ASSUME Looks, foreign = 0 PROVE \E n \in 0..Older : PostsOf(n)'
  <2>1. PICK n \in 0..Older : PostsOf(n)
    BY <1>3 DEF Undisturbed
  <2>2. n \in Nat
    BY Numbers
  <2>3. OneId(Steps)
    BY <1>3, StepFacts DEF SoundSteps, Looks
  <2>4. feed \in {Olds(n), <<Own(0)>> \o Olds(n)}
    BY <2>1 DEF PostsOf
  <2>5. Owned(feed) = {} => feed = Olds(n)
    BY <2>2, <2>4, OwnPost
  <2>6. feed' \in {Olds(n), <<Own(0)>> \o Olds(n)}
    <3>1. CASE feed' = feed
      BY <3>1, <2>4
    <3>2. CASE /\ Req.does = "publish" /\ (Req.id = "none" \/ Mark \notin accepted)
               /\ feed' = <<Post>> \o feed
      <4>1. feed = Olds(n)
        BY <2>3, <2>5, <3>2, NothingPosted
      <4>2. Req.id = "call"
        BY <2>3, <3>2, <1>1 DEF OneId, Publishes
      <4>3. Post = Own(0)
        BY <4>2, <1>1, PostIs
      <4>4. QED
        BY <4>1, <4>3, <3>2
    <3>3. QED
      BY <3>1, <3>2, FeedMoves
  <2>7. CASE before' = before
    <3>1. before.known => before.ids \in {{}, Shown(Olds(n))}
      BY <2>1 DEF PostsOf
    <3>2. OwnPosts({found'} \cup edited') \/ (before.known /\ before.ids = {} /\ n > 0)
      <4>1. CASE OwnPosts({found} \cup edited)
        <5>1. Uncovers => found'[1] = "own" \/ (before.known /\ before.ids = {} /\ n > 0)
          <6>1. Uncovers => before.known
            BY DEF Uncovers
          <6>2. QED
            BY <6>1, <3>1, <2>2, <2>4, FoundIsOwn
        <5>2. QED
          BY <4>1, <5>1, FoundMoves, OwnPostsKept
      <4>2. QED
        BY <4>1, <2>1 DEF PostsOf
    <3>3. PostsOf(n)'
      BY <3>1, <3>2, <2>6, <2>7 DEF PostsOf
    <3>4. QED
      BY <3>3
  <2>8. CASE /\ Req.does = "remember" /\ Proceeds
             /\ before' \in {Unread, [known |-> TRUE, ids |-> {}],
                             [known |-> TRUE, ids |-> Shown(feed)]}
    <3>1. feed = Olds(n)
      <4>1. Owned(feed) = {}
        BY <2>8, <1>1 DEF RememberedBefore
      <4>2. QED
        BY <4>1, <2>5
    <3>2. before'.known => before'.ids \in {{}, Shown(Olds(n))}
      BY <3>1, <2>8 DEF Unread
    <3>3. found = Nothing /\ edited = {}
      BY <2>8, <1>1, FoundTrails DEF Trailing
    <3>4. OwnPosts({found'} \cup edited')
      <4>1. found' = found
        BY <2>8 DEF Proceeds, Uncovers
      <4>2. edited' = edited
        BY <2>8, MoveFacts DEF Act, DoNothing
      <4>3. QED
        BY <4>1, <4>2, <3>3 DEF OwnPosts
    <3>5. PostsOf(n)'
      BY <3>2, <3>4, <2>6 DEF PostsOf
    <3>6. QED
      BY <3>5
  <2>9. QED
    BY <2>7, <2>8 DEF Moves
<1>4. QED
  BY <1>1, <1>2, <1>3 DEF Undisturbed

LEMMA RunKeeps ==
  ASSUME ProceduresInv, Run
  PROVE  ProceduresInv'
<1>1. Moves
  BY RunMoves DEF ProceduresInv
<1>2. /\ TypeOK' /\ AttemptOK' /\ MarksOK' /\ PostsCounted' /\ OnePost' /\ FoundWhenPublished'
      /\ VerdictOK'
  BY <1>1, TypeStays, AttemptStays, MarksStay, CountStays, OnePostStays, FoundStays, VerdictStays
     DEF ProceduresInv
<1>3. /\ ChangesAnswered' /\ FailureIsHonest' /\ ChangesInOrder' /\ LookedFor' /\ RememberedBefore'
      /\ Undisturbed'
  BY <1>1, AnsweredStays, HonestyStays, OrderStays, LookedStays, RememberedStays, UndisturbedStays
     DEF ProceduresInv
<1>4. QED
  BY <1>2, <1>3 DEF ProceduresInv

\* Another device changes the posts and nothing else.
LEMMA OtherDeviceKeeps ==
  ASSUME ProceduresInv, OtherDevice
  PROVE  ProceduresInv'
<1>1. /\ Running /\ Looks /\ foreign' = foreign + 1 /\ foreign < MaxForeign
      /\ UNCHANGED <<call, pc, step, attempt, sends, wire, before, found, verdict, accepted, edited,
                     faults>>
  BY DEF OtherDevice
<1>2. /\ Steps' = Steps /\ Req' = Req /\ Mark' = Mark /\ Looks' = Looks
      /\ (\A i : Owed(i)' <=> Owed(i))
  BY <1>1 DEF Steps, Req, Mark, Looks, Owed
<1>3. TypeOK
  BY DEF ProceduresInv
<1>4. feed \in Seq(Items) /\ foreign \in 0..MaxForeign /\ MaxForeign \in Nat
  <2>1. feed \in Seq(Items)
    BY <1>3 DEF TypeOK
  <2>2. QED
    BY <2>1, <1>3, Ranges, Numbers
<1>5. feed' \in Seq(Items) /\ foreign' \in 1..MaxForeign
      /\ (Owned(feed') # {} => Owned(feed) # {})
      /\ ((\A i, j \in Owned(feed) : i = j) => \A i, j \in Owned(feed') : i = j)
  <2>1. foreign' \in 1..MaxForeign
    BY <1>1, <1>4
  <2>2. CASE feed' = <<Theirs(foreign')>> \o feed
    <3>1. Theirs(foreign') \in Items /\ Theirs(foreign')[1] # "own"
      BY <2>1 DEF Items, Theirs
    <3>2. feed' \in Seq(Items) /\ \A i \in Owned(feed') : i - 1 \in Owned(feed) /\ i \in Nat
      <4>1. /\ feed' \in Seq(Items) /\ 1 \notin Owned(feed')
            /\ \A i \in Owned(feed') : i = 1 \/ i - 1 \in Owned(feed)
        BY <2>2, <3>1, <1>4, PostAdded
      <4>2. \A i \in Owned(feed') : i \in Nat
        BY DEF Owned
      <4>3. QED
        BY <4>1, <4>2
    <3>3. ASSUME \A i, j \in Owned(feed) : i = j, NEW i \in Owned(feed'), NEW j \in Owned(feed')
          PROVE  i = j
      <4>1. i - 1 = j - 1
        BY <3>2, <3>3
      <4>2. QED
        BY <4>1, <3>2
    <3>4. QED
      BY <2>1, <3>2, <3>3
  <2>3. CASE \E i \in 1..Len(feed) : feed' = Without(feed, i)
    BY <2>1, <2>3, <1>4, WithoutIsAList, PostRemoved
  <2>4. QED
    BY <2>2, <2>3 DEF OtherDevice
<1>6. TypeOK' /\ AttemptOK'
  <2>1. foreign' \in 0..MaxForeign
    BY <1>4, <1>5
  <2>2. TypeOK'
    BY <1>1, <1>2, <1>3, <1>5, <2>1 DEF TypeOK
  <2>3. AttemptOK
    BY DEF ProceduresInv
  <2>4. AttemptOK'
    BY <1>1, <1>2, <2>3 DEF AttemptOK
  <2>5. QED
    BY <2>2, <2>4
<1>7. /\ MarksOK' /\ FoundWhenPublished' /\ VerdictOK' /\ ChangesAnswered' /\ FailureIsHonest'
      /\ ChangesInOrder' /\ LookedFor'
  BY <1>1, <1>2 DEF ProceduresInv, MarksOK, FoundWhenPublished, VerdictOK, ChangesAnswered,
    FailureIsHonest, ChangesInOrder, LookedFor, Running
<1>8. RememberedBefore'
  BY <1>1, <1>2, <1>5 DEF ProceduresInv, RememberedBefore
<1>9. OnePost'
  BY <1>1, <1>2, <1>5 DEF ProceduresInv, OnePost
<1>10. PostsCounted'
  <2>1. Req.id # "none"
    <3>1. OneId(Steps) /\ \E i \in 1..Len(Steps) : Steps[i].does = "look"
      BY <1>1, <1>3, StepFacts DEF SoundSteps, Looks
    <3>2. PICK i \in 1..Len(Steps) : Steps[i].does = "look"
      BY <3>1
    <3>3. Steps[i] \in Trailing /\ \E p \in 1..(i - 1) : Publishes(Steps, p)
      BY <3>2, <1>3, StepFacts DEF SoundSteps, Leading, Publishing
    <3>4. Len(Steps) # 1
      BY <3>3, <1>3, StepFacts
    <3>5. QED
      BY <3>4, <1>3, ReqFacts, StepFacts DEF SoundSteps
  <2>2. QED
    BY <2>1, <1>2 DEF PostsCounted
<1>11. Undisturbed'
  <2>1. foreign' # 0
    BY <1>5
  <2>2. QED
    BY <2>1, <1>1, <1>2 DEF Undisturbed
<1>12. QED
  BY <1>6, <1>7, <1>8, <1>9, <1>10, <1>11 DEF ProceduresInv

LEMMA StutterKeeps ==
  ASSUME ProceduresInv, UNCHANGED vars
  PROVE  ProceduresInv'
<1>1. UNCHANGED <<call, pc, step, attempt, sends, wire, before, found, verdict, feed, accepted,
                  edited, faults, foreign>>
  BY DEF vars
<1>2. /\ Steps' = Steps /\ Req' = Req /\ Mark' = Mark /\ Looks' = Looks
      /\ (\A i : Owed(i)' <=> Owed(i))
  BY <1>1 DEF Steps, Req, Mark, Looks, Owed
<1>3. /\ TypeOK' /\ AttemptOK' /\ MarksOK' /\ PostsCounted' /\ OnePost' /\ FoundWhenPublished'
      /\ VerdictOK'
  BY <1>1, <1>2 DEF ProceduresInv, TypeOK, AttemptOK, MarksOK, PostsCounted, OnePost,
    FoundWhenPublished, VerdictOK, Running
<1>4. /\ ChangesAnswered' /\ FailureIsHonest' /\ ChangesInOrder' /\ LookedFor' /\ RememberedBefore'
  BY <1>1, <1>2 DEF ProceduresInv, ChangesAnswered, FailureIsHonest, ChangesInOrder, LookedFor,
    RememberedBefore, Running
<1>5. Undisturbed'
  BY <1>1, <1>2 DEF ProceduresInv, Undisturbed, PostsOf
<1>6. QED
  BY <1>3, <1>4, <1>5 DEF ProceduresInv

LEMMA InitInv ==
  ASSUME Init
  PROVE  ProceduresInv
<1>1. /\ call \in Methods /\ pc \in {"running", "raised"} /\ step = 1 /\ attempt = 1 /\ sends = 2
      /\ wire = Retries /\ before = Unread /\ found = Nothing /\ verdict = TRUE
      /\ accepted = {} /\ edited = {} /\ faults = 0 /\ foreign = 0
  BY DEF Init
<1>2. PICK n \in (IF Looks THEN 0..Older ELSE {0}) : feed = Olds(n)
  BY DEF Init, Olds
<1>3. n \in 0..Older /\ n \in Nat
  BY Numbers
<1>4. feed \in Seq(Items) /\ Owned(feed) = {}
  <2>1. \A k \in 1..n : Old(k) \in Items
    BY <1>3, Numbers DEF Items
  <2>2. {Old(k) : k \in 1..n} \in SUBSET Items
    BY <2>1
  <2>3. feed \in Seq({Old(k) : k \in 1..n}) /\ Owned(feed) = {}
    BY <1>2, <1>3, OldPosts
  <2>4. QED
    BY <2>2, <2>3, WiderSequence
<1>5. 1 \in 1..Len(Steps) /\ Len(Steps) \in Nat
  <2>1. Sound(Calls[call])
    BY <1>1, TableIsSound, MethodsAssumption
  <2>2. QED
    BY <2>1 DEF Sound, SoundSteps, Steps
<1>6. TypeOK
  BY <1>1, <1>4, <1>5, Numbers DEF TypeOK, Unread
<1>7. /\ AttemptOK /\ MarksOK /\ OnePost /\ FoundWhenPublished /\ VerdictOK
      /\ ChangesAnswered /\ FailureIsHonest
  BY <1>1, <1>4 DEF AttemptOK, MarksOK, OnePost, FoundWhenPublished, VerdictOK, ChangesAnswered,
    FailureIsHonest
<1>8. PostsCounted
  BY <1>1, <1>4, FS_EmptySet DEF PostsCounted
<1>9. ChangesInOrder /\ LookedFor /\ RememberedBefore
  BY <1>1, <1>4, <1>5 DEF ChangesInOrder, LookedFor, RememberedBefore
<1>10. Undisturbed
  BY <1>1, <1>2, <1>3 DEF Undisturbed, PostsOf, OwnPosts, Unread
<1>11. QED
  BY <1>6, <1>7, <1>8, <1>9, <1>10 DEF ProceduresInv

LEMMA InvariantHolds == Spec => []ProceduresInv
<1>1. Init => ProceduresInv
  BY InitInv
<1>2. ProceduresInv /\ [Next]_vars => ProceduresInv'
  BY RunKeeps, OtherDeviceKeeps, StutterKeeps DEF Next
<1>3. QED
  BY <1>1, <1>2, PTL DEF Spec

-------------------------------------------------------------------------------
(* Theorems.                                                                 *)

\* The variables of a call have their types, and what it remembers, finds and edits are posts.
THEOREM TypeCorrect == Spec => []TypeOK
<1>1. ProceduresInv => TypeOK
  BY DEF ProceduresInv
<1>2. QED
  BY <1>1, InvariantHolds, PTL

\* Every change a call makes is made once, however often its requests are sent again, and none
\* before those it rests on; a call that succeeds has made all of them.
THEOREM WritesWhole == Spec => []WritesAreWhole
<1>1. ASSUME ProceduresInv PROVE WritesAreWhole
  <2>1. TypeOK /\ OnePost /\ ChangesInOrder
    BY <1>1 DEF ProceduresInv
  <2>2. OnceOnly
    <3>1. SUFFICES ASSUME call \notin WithoutOneId PROVE Cardinality(Owned(feed)) <= 1
      BY DEF OnceOnly
    <3>2. \A i, j \in Owned(feed) : i = j
      BY <2>1, <3>1, StepFacts DEF OnePost
    <3>3. CASE Owned(feed) = {}
      BY <3>3, FS_EmptySet
    <3>4. CASE Owned(feed) # {}
      <4>1. PICK i \in Owned(feed) : TRUE
        BY <3>4
      <4>2. Owned(feed) = {i}
        BY <3>2, <4>1
      <4>3. Cardinality({i}) = 1
        BY FS_Singleton
      <4>4. QED
        BY <4>2, <4>3
    <3>5. QED
      BY <3>3, <3>4
  <2>3. NoStepIsSkipped
    BY <2>1, StepFacts DEF NoStepIsSkipped, ChangesInOrder
  <2>4. QED
    BY <2>2, <2>3 DEF WritesAreWhole
<1>2. QED
  BY <1>1, InvariantHolds, PTL

\* What a call answers is what has happened: the post it returns or edits is the one it uploaded,
\* an error does not hide a post, and a False without a fault changed nothing.
THEOREM AnswersTrue == Spec => []AnswersAreTrue
<1>1. ASSUME ProceduresInv PROVE AnswersAreTrue
  <2>1. TypeOK /\ LookedFor /\ Undisturbed /\ FailureIsHonest
    BY <1>1 DEF ProceduresInv
  <2>2. ASSUME foreign = 0, ~MistakenForEmpty PROVE OwnPosts({found} \cup edited)
    <3>1. CASE ~Looks
      BY <3>1, <2>1 DEF Undisturbed
    <3>2. CASE Looks
      <4>1. PICK n \in 0..Older : PostsOf(n)
        BY <3>2, <2>1, <2>2 DEF Undisturbed
      <4>2. n \in Nat
        BY Numbers
      <4>3. n > 0 => \E i \in 1..Len(feed) : feed[i][1] = "old"
        <5>1. CASE feed = Olds(n)
          <6>1. Len(feed) = n /\ \A j \in 1..n : feed[j] = Old(n + 1 - j)
            BY <5>1, <4>2, OldPosts
          <6>2. n > 0 => n \in 1..Len(feed) /\ n \in 1..n
            BY <6>1, <4>2
          <6>3. QED
            BY <6>1, <6>2 DEF Old
        <5>2. CASE feed = <<Own(0)>> \o Olds(n)
          <6>1. Len(feed) = n + 1 /\ \A j \in 1..n : feed[j + 1] = Old(n + 1 - j)
            BY <5>2, <4>2, OwnPost
          <6>2. n > 0 => n + 1 \in 1..Len(feed) /\ n \in 1..n
            BY <6>1, <4>2
          <6>3. QED
            BY <6>1, <6>2 DEF Old
        <5>3. QED
          BY <5>1, <5>2, <4>1 DEF PostsOf
      <4>4. QED
        BY <4>1, <4>3, <2>2 DEF PostsOf, MistakenForEmpty
    <3>3. QED
      BY <3>1, <3>2
  <2>3. pc = "done" /\ Looks => found # Nothing
    BY <2>1, StepFacts DEF LookedFor, Looks
  <2>4. QED
    BY <2>1, <2>2, <2>3 DEF AnswersAreTrue, AnswerIsTheUpload
<1>2. QED
  BY <1>1, InvariantHolds, PTL
=============================================================================
