-------------------------- MODULE ClientSessionProofs --------------------------
(***************************************************************************)
(* Theorems about the session of a client, for every number of sessions,   *)
(* calls and code rounds, and for a call stack of any depth.               *)
(***************************************************************************)
EXTENDS ClientSession, TLAPS

-------------------------------------------------------------------------------
(* The stack.                                                                *)

Frame == RequestFrame \cup LoginFrame \cup ChallengeFrame \cup CallFrame \cup SessionidFrame

LEMMA PushTyping ==
  ASSUME NEW S, NEW s \in Seq(S), s # <<>>, NEW f \in S, NEW t \in S
  PROVE  /\ <<f, t>> \o Tail(s) \in Seq(S)
         /\ DOMAIN (<<f, t>> \o Tail(s)) = 1..(Len(s) + 1)
         /\ (<<f, t>> \o Tail(s))[1] = f
         /\ (<<f, t>> \o Tail(s))[2] = t
         /\ \A n \in 3..(Len(s) + 1) : (<<f, t>> \o Tail(s))[n] = s[n - 1]
OBVIOUS

LEMMA ReplaceTyping ==
  ASSUME NEW S, NEW s \in Seq(S), s # <<>>, NEW t \in S
  PROVE  <<t>> \o Tail(s) = [s EXCEPT ![1] = t]
<1> DEFINE u == <<t>> \o Tail(s)
           v == [s EXCEPT ![1] = t]
<1>1. u \in Seq(S) /\ Len(u) = Len(s) /\ u[1] = t /\ \A n \in 2..Len(s) : u[n] = s[n]
  OBVIOUS
<1>2. v \in Seq(S) /\ Len(v) = Len(s) /\ v[1] = t /\ \A n \in 2..Len(s) : v[n] = s[n]
  OBVIOUS
<1>3. \A n \in 1..Len(s) : u[n] = v[n]
  BY <1>1, <1>2
<1> HIDE DEF u, v
<1> QED
  BY <1>1, <1>2, <1>3

LEMMA PopTyping ==
  ASSUME NEW S, NEW s \in Seq(S), s # <<>>
  PROVE  /\ Tail(s) \in Seq(S)
         /\ DOMAIN Tail(s) = 1..(Len(s) - 1)
         /\ \A n \in DOMAIN Tail(s) : Tail(s)[n] = s[n + 1]
OBVIOUS

Results == Raised \cup {"none", "ok"}

\* Where a frame of each kind may go on.
Places(o) ==
  CASE o = "request" -> {"send", "handle", "handled", "again"}
    [] o = "login" -> {"start", "validate", "pre", "ask", "two", "tray", "timeline"}
    [] o = "challenge" -> {"open", "step", "passed", "answer", "taken", "form", "code"}
    [] o = "sessionid" -> {"sent", "stream"}
    [] OTHER -> {"sent"}

\* The programs' calls are at the bottom, and a challenge is taken for a challenge.
Bottom == {"work", "logout", "sessionid"}
Takes(f) == f.op = "request" /\ f.call = "take"
WellNested ==
  \A n \in DOMAIN stack :
    /\ Takes(stack[n]) => n < Len(stack) /\ stack[n + 1].op = "challenge"
    /\ stack[n].op \in Bottom => n = Len(stack)

\* A relogin that has cleared the session, and the sessions the server had issued
\* when the logins on the stack were called.
Begun(f) == f.op = "login" /\ f.relogin /\ f.pc # "start"
Starting(f) == f.op = "login" /\ f.relogin /\ f.pc = "start"
Starts == {stack[n].since : n \in {m \in DOMAIN stack : stack[m].op = "login"}}
Bounds == {stack[n].since : n \in {m \in DOMAIN stack : Begun(stack[m])}}

StackOK == stack \in Seq(Frame) /\ ret \in Results /\ WellNested
ServerOK ==
  /\ owner \in Seq(Accounts) /\ Len(owner) <= MaxSessions
  /\ live \subseteq Session /\ revocations \in 0..MaxRevocations
TokensOK ==
  /\ auth \in Credential /\ cookie \in Credential /\ public \in Credential
  /\ header \in Credential /\ granted \in Credential
InputsOK == handler \in {"none", "docs"} /\ setsCookies \in BOOLEAN /\ saved \in Credential
ProgramOK ==
  /\ username \in Accounts /\ refused \subseteq Session
  /\ op \in {"none", "login", "work", "logout", "sessionid"} /\ calls \in 0..MaxCalls

\* The parts of TypeOK, as the steps disturb them.
LEMMA TypeParts ==
  TypeOK /\ WellNested <=>
             /\ StackOK /\ ServerOK /\ TokensOK /\ InputsOK /\ ProgramOK
             /\ attempts \in 0..2
BY DEF TypeOK, StackOK, ServerOK, TokensOK, InputsOK, ProgramOK, Frame, Results

LEMMA TopTyping ==
  ASSUME StackOK, stack # <<>>
  PROVE  Top \in Frame /\ stack[1] = Top
BY DEF StackOK, Top

LEMMA RequestTyping ==
  ASSUME NEW c \in Endpoint, NEW t \in Credential
  PROVE  Request(c, t) \in Frame
BY DEF Request, RequestFrame, Frame

LEMMA LoginTyping ==
  ASSUME ServerOK, NEW r \in BOOLEAN, NEW c \in BOOLEAN
  PROVE  LoginCall(r, c) \in Frame
<1>1. Len(owner) \in 0..MaxSessions
  BY SessionAssumption DEF ServerOK
<1> QED
  BY <1>1 DEF LoginCall, LoginFrame, Frame

LEMMA ChallengeTyping ==
  ASSUME NEW l \in BOOLEAN, NEW place \in {"open", "step"}
  PROVE  [op |-> "challenge", login |-> l, round |-> 1, pc |-> place] \in Frame
BY SessionAssumption DEF ChallengeFrame, Frame

LEMMA MovedTyping ==
  ASSUME NEW f \in Frame, NEW place \in Places(f.op)
  PROVE  [f EXCEPT !.pc = place] \in Frame
<1>1. CASE f \in RequestFrame
  BY <1>1 DEF Places, RequestFrame, Frame
<1>2. CASE f \in LoginFrame
  BY <1>2 DEF Places, LoginFrame, Frame
<1>3. CASE f \in ChallengeFrame
  BY <1>3 DEF Places, ChallengeFrame, Frame
<1>4. CASE f \in CallFrame
  BY <1>4 DEF Places, CallFrame, Frame
<1>5. CASE f \in SessionidFrame
  BY <1>5 DEF Places, SessionidFrame, Frame
<1> QED
  BY <1>1, <1>2, <1>3, <1>4, <1>5 DEF Frame

\* A step of the stack that begins no relogin.
StackStep ==
  StackOK' /\ Starts' \subseteq Starts \cup {Len(owner)} /\ Bounds' \subseteq Bounds

LEMMA ReturnStep ==
  ASSUME StackOK, stack # <<>>, NEW r \in Results, Return(r)
  PROVE  StackStep
<1>1. /\ stack' \in Seq(Frame) /\ Len(stack) \in Nat /\ Len(stack') = Len(stack) - 1
      /\ DOMAIN stack = 1..Len(stack) /\ DOMAIN stack' = 1..(Len(stack) - 1)
      /\ \A n \in DOMAIN stack' : stack'[n] = stack[n + 1] /\ n + 1 \in DOMAIN stack
  BY PopTyping DEF StackOK, Return
<1>2. WellNested'
  BY <1>1 DEF StackOK, WellNested, Takes
<1>3. Starts' \subseteq Starts /\ Bounds' \subseteq Bounds
  BY <1>1 DEF Starts, Bounds, Begun
<1> QED
  BY <1>1, <1>2, <1>3 DEF StackOK, StackStep, Return

\* The frame on top moves; all others stay.
LEMMA TopMoves ==
  ASSUME StackOK, stack # <<>>, NEW t \in Frame, stack' = [stack EXCEPT ![1] = t],
         ret' \in Results, t.op = Top.op, Takes(t) => Takes(Top),
         t.op = "login" => t.since \in {Top.since, Len(owner)},
         Begun(t) => Begun(Top) /\ t.since = Top.since
  PROVE  StackStep
<1>1. /\ stack' \in Seq(Frame) /\ Len(stack) \in Nat /\ Len(stack') = Len(stack)
      /\ DOMAIN stack = 1..Len(stack) /\ DOMAIN stack' = DOMAIN stack
      /\ 1 \in DOMAIN stack /\ stack'[1] = t /\ stack[1] = Top
      /\ \A n \in DOMAIN stack : n # 1 => stack'[n] = stack[n]
  BY DEF StackOK, Top
<1>2. \A n \in DOMAIN stack :
        /\ stack'[n].op = stack[n].op
        /\ Takes(stack'[n]) => Takes(stack[n])
        /\ Begun(stack'[n]) => Begun(stack[n]) /\ stack'[n].since = stack[n].since
        /\ stack'[n].op = "login" => stack'[n].since \in {stack[n].since, Len(owner)}
  BY <1>1
<1>3. WellNested'
  BY <1>1, <1>2 DEF StackOK, WellNested
<1>4. Starts' \subseteq Starts \cup {Len(owner)}
  BY <1>1, <1>2 DEF Starts
<1>5. Bounds' \subseteq Bounds
  BY <1>1, <1>2 DEF Bounds, Begun
<1> QED
  BY <1>1, <1>3, <1>4, <1>5 DEF StackOK, StackStep

LEMMA MovedFacts ==
  ASSUME NEW f \in Frame, NEW place \in Places(f.op)
  PROVE  LET t == [f EXCEPT !.pc = place]
         IN /\ t \in Frame /\ t.op = f.op
            /\ Takes(t) => Takes(f)
            /\ t.op = "login" => t.since = f.since
            /\ Begun(t) /\ ~Starting(f) => Begun(f)
<1>1. CASE f \in LoginFrame
  BY <1>1, MovedTyping DEF LoginFrame, Takes, Begun, Starting
<1>2. CASE f \in RequestFrame
  BY <1>2, MovedTyping DEF RequestFrame, Takes, Begun, Starting
<1>3. CASE f \in ChallengeFrame \cup CallFrame \cup SessionidFrame
  BY <1>3, MovedTyping DEF ChallengeFrame, CallFrame, SessionidFrame, Takes, Begun, Starting
<1> QED
  BY <1>1, <1>2, <1>3 DEF Frame

LEMMA GotoStep ==
  ASSUME StackOK, stack # <<>>, NEW place \in Places(Top.op), Goto(place), ret' \in Results,
         ~Starting(Top)
  PROVE  StackStep
<1> DEFINE t == [Top EXCEPT !.pc = place]
<1>1. stack' = [stack EXCEPT ![1] = t]
  BY TopTyping DEF Goto
<1>2. /\ t \in Frame /\ t.op = Top.op /\ (Takes(t) => Takes(Top)) /\ (Begun(t) => Begun(Top))
      /\ t.op = "login" => t.since = Top.since
  BY TopTyping, MovedFacts
<1> HIDE DEF t
<1> QED
  BY <1>1, <1>2, TopMoves DEF Begun

\* What may be called by the frame on top.
Callable(f) ==
  /\ f \in Frame /\ f.op \notin Bottom /\ ~Begun(f)
  /\ Takes(f) => Top.op = "challenge"
  /\ f.op = "login" => f.since = Len(owner)

LEMMA CallStep ==
  ASSUME StackOK, stack # <<>>, NEW f, Callable(f), NEW place \in Places(Top.op), Call(place, f)
  PROVE  /\ StackOK'
         /\ Starts' \subseteq Starts \cup {Len(owner)}
         /\ ~Starting(Top) => Bounds' \subseteq Bounds
<1> DEFINE t == [Top EXCEPT !.pc = place]
<1>1. /\ t \in Frame /\ t.op = Top.op /\ (Takes(t) => Takes(Top))
      /\ (Begun(t) /\ ~Starting(Top) => Begun(Top))
      /\ t.op = "login" => t.since = Top.since
  BY TopTyping, MovedFacts
<1>2. stack' = <<f, t>> \o Tail(stack) /\ ret' = "none"
  BY DEF Call
<1> HIDE DEF t
<1>3. /\ stack' \in Seq(Frame) /\ Len(stack) \in Nat /\ Len(stack') = Len(stack) + 1
      /\ DOMAIN stack = 1..Len(stack) /\ DOMAIN stack' = 1..(Len(stack) + 1)
      /\ 1 \in DOMAIN stack /\ stack'[1] = f /\ stack'[2] = t /\ stack[1] = Top
      /\ \A n \in 3..(Len(stack) + 1) : stack'[n] = stack[n - 1] /\ n - 1 \in DOMAIN stack
  BY <1>1, <1>2, PushTyping DEF StackOK, Callable, Top
<1>4. WellNested'
  <2> SUFFICES ASSUME NEW n \in DOMAIN stack'
               PROVE  /\ Takes(stack'[n]) => n < Len(stack') /\ stack'[n + 1].op = "challenge"
                      /\ stack'[n].op \in Bottom => n = Len(stack')
    BY DEF WellNested, Takes, Bottom
  <2>1. CASE n = 1
    BY <2>1, <1>1, <1>3 DEF Callable
  <2>2. CASE n = 2
    BY <2>2, <1>1, <1>3 DEF StackOK, WellNested
  <2>3. CASE n \in 3..(Len(stack) + 1)
    BY <2>3, <1>3 DEF StackOK, WellNested
  <2> QED
    BY <2>1, <2>2, <2>3, <1>3
<1>5. \A n \in DOMAIN stack' : stack'[n].op = "login" =>
        stack'[n].since = Len(owner) \/ \E m \in DOMAIN stack : stack[m].op = "login" /\ stack[m].since = stack'[n].since
  <2> SUFFICES ASSUME NEW n \in DOMAIN stack', stack'[n].op = "login"
               PROVE  stack'[n].since = Len(owner) \/ \E m \in DOMAIN stack : stack[m].op = "login" /\ stack[m].since = stack'[n].since
    OBVIOUS
  <2>1. CASE n = 1
    BY <2>1, <1>3 DEF Callable
  <2>2. CASE n = 2
    BY <2>2, <1>1, <1>3
  <2>3. CASE n \in 3..(Len(stack) + 1)
    BY <2>3, <1>3
  <2> QED
    BY <2>1, <2>2, <2>3, <1>3
<1>6. ASSUME ~Starting(Top)
      PROVE  \A n \in DOMAIN stack' : Begun(stack'[n]) =>
               \E m \in DOMAIN stack : Begun(stack[m]) /\ stack[m].since = stack'[n].since
  <2> SUFFICES ASSUME NEW n \in DOMAIN stack', Begun(stack'[n])
               PROVE  \E m \in DOMAIN stack : Begun(stack[m]) /\ stack[m].since = stack'[n].since
    OBVIOUS
  <2>1. CASE n = 1
    BY <2>1, <1>3 DEF Callable
  <2>2. CASE n = 2
    BY <2>2, <1>1, <1>3, <1>6 DEF Begun
  <2>3. CASE n \in 3..(Len(stack) + 1)
    BY <2>3, <1>3
  <2> QED
    BY <2>1, <2>2, <2>3, <1>3
<1>7. Starts' \subseteq Starts \cup {Len(owner)}
  BY <1>5 DEF Starts
<1>8. ~Starting(Top) => Bounds' \subseteq Bounds
  BY <1>6 DEF Bounds, Begun
<1>9. ret' \in Results
  BY <1>2 DEF Results
<1> QED
  BY <1>3, <1>4, <1>7, <1>8, <1>9 DEF StackOK

LEMMA CallChallengeStep ==
  ASSUME StackOK, stack # <<>>, NEW place \in Places(Top.op), NEW l \in BOOLEAN,
         NEW first \in {"open", "step"}, CallChallenge(place, l, first), ~Starting(Top)
  PROVE  StackStep
<1>1. CASE Len(stack) >= MaxDepth
  BY <1>1, ReturnStep DEF CallChallenge, Results, Raised, PrivateErrors
<1>2. CASE ~ (Len(stack) >= MaxDepth)
  <2> DEFINE f == [op |-> "challenge", login |-> l, round |-> 1, pc |-> first]
  <2>1. Callable(f)
    BY ChallengeTyping DEF Callable, Bottom, Takes, Begun
  <2>2. Call(place, f)
    BY <1>2 DEF CallChallenge
  <2> HIDE DEF f
  <2> QED
    BY <2>1, <2>2, CallStep DEF StackStep
<1> QED
  BY <1>1, <1>2

LEMMA GrantsTyping ==
  ASSUME ServerOK, username \in Accounts, NEW s \in Credential, Grants(s)
  PROVE  ServerOK' /\ s[2] = Len(owner) + 1
<1>1. s[2] = Len(owner) + 1 /\ s[2] \in Session
  BY SessionAssumption DEF ServerOK, Grants, Session
<1>2. owner' \in Seq(Accounts) /\ Len(owner') = Len(owner) + 1
  BY DEF ServerOK, Grants
<1>3. Len(owner') <= MaxSessions
  BY <1>2, SessionAssumption DEF ServerOK, Grants
<1>4. live' \subseteq Session
  BY <1>1 DEF ServerOK, Grants
<1> QED
  BY <1>1, <1>2, <1>3, <1>4 DEF ServerOK, Grants

-------------------------------------------------------------------------------
(* The invariant.                                                            *)

\* A credential newer than every relogin under way.
Fresh(c) == c # NoSession => \A b \in Bounds : c[2] > b

\* A relogin has just begun; what the last answer granted is about to be dropped.
Launching == At("request", "send") /\ Top.call = "launcher"

SessionInv ==
  /\ TypeOK /\ WellNested
  /\ \A b \in Starts : b <= Len(owner)
  /\ Fresh(auth) /\ Fresh(cookie) /\ Fresh(public) /\ Fresh(header)
  /\ Launching \/ Fresh(granted)

InvParts == StackOK /\ ServerOK /\ TokensOK /\ InputsOK /\ ProgramOK /\ attempts \in 0..2

LEMMA InvTyping == SessionInv => InvParts
BY TypeParts DEF SessionInv, InvParts

LEMMA StartsTyping == StackOK => Starts \subseteq Nat /\ Bounds \subseteq Starts
<1> SUFFICES ASSUME StackOK PROVE Starts \subseteq Nat /\ Bounds \subseteq Starts
  OBVIOUS
<1>1. \A f \in Frame : f.op = "login" => f.since \in Nat
  BY SessionAssumption DEF Frame, RequestFrame, LoginFrame, ChallengeFrame, CallFrame, SessionidFrame
<1> QED
  BY <1>1 DEF StackOK, Starts, Bounds, Begun

\* What the client holds after the step, it held before, or the server has just issued.
Known(c) == c \in {auth, cookie, public, header, NoSession} \/ (c = granted /\ ~Launching)
Issued(c) == c \in Credential /\ c # NoSession /\ c[2] > Len(owner)

Grown == Len(owner') >= Len(owner)

\* No step that begins no relogin makes anything old.
LEMMA FreshStep ==
  ASSUME SessionInv, StackStep, ServerOK', Grown, InputsOK', ProgramOK', attempts' \in 0..2,
         \A c \in {auth', cookie', public', header', granted'} : Known(c) \/ Issued(c)
  PROVE  SessionInv'
<1>1. Starts \subseteq Nat /\ Bounds \subseteq Starts /\ Len(owner) \in Nat /\ Len(owner') \in Nat
  BY StartsTyping, InvTyping DEF InvParts, ServerOK
<1>2. \A b \in Starts' : b <= Len(owner')
  BY <1>1 DEF SessionInv, StackStep, Grown
<1>3. \A c \in {auth', cookie', public', header', granted'} :
        c # NoSession => \A b \in Bounds : c[2] > b
  <2> SUFFICES ASSUME NEW c \in {auth', cookie', public', header', granted'}, c # NoSession,
                      NEW b \in Bounds
               PROVE  c[2] > b
    OBVIOUS
  <2>1. CASE Known(c)
    BY <2>1 DEF Known, SessionInv, Fresh
  <2>2. CASE Issued(c)
    <3>1. c[2] \in Nat
      BY <2>2, SessionAssumption DEF Issued, Credential
    <3> QED
      BY <2>2, <3>1, <1>1 DEF Issued, SessionInv
  <2> QED
    BY <2>1, <2>2
<1>4. /\ Fresh(auth)' /\ Fresh(cookie)' /\ Fresh(public)' /\ Fresh(header)' /\ Fresh(granted)'
  BY <1>3 DEF StackStep, Fresh
<1>5. TokensOK'
  BY InvTyping DEF InvParts, TokensOK, Known, Issued, Credential
<1>6. InvParts'
  BY <1>5 DEF InvParts, StackStep
<1>7. TypeOK' /\ WellNested'
  BY <1>6, TypeParts, PTL DEF InvParts
<1> QED
  BY <1>2, <1>4, <1>7 DEF SessionInv

\* The steps that only move the stack.
LEMMA QuietStep ==
  ASSUME SessionInv, StackStep, UNCHANGED <<inputs, server, program, tokens, attempts>>,
         granted' = NoSession \/ (granted' = granted /\ ~Launching)
  PROVE  SessionInv'
<1>1. InvParts /\ Len(owner) \in Nat
  BY InvTyping DEF InvParts, ServerOK
<1>2. ServerOK' /\ Grown /\ InputsOK' /\ ProgramOK' /\ attempts' \in 0..2
  BY <1>1 DEF InvParts, ServerOK, InputsOK, ProgramOK, Grown, inputs, server, program
<1>3. \A c \in {auth', cookie', public', header', granted'} : Known(c) \/ Issued(c)
  BY DEF Known, tokens
<1> QED
  BY <1>2, <1>3, FreshStep

\* The server opens a session.
LEMMA OpensStep ==
  ASSUME SessionInv, Opens
  PROVE  /\ ServerOK' /\ Grown
         /\ Known(cookie') \/ Issued(cookie')
         /\ Issued(granted')
<1>1. PICK s \in Credential : Grants(s) /\ granted' = s /\ cookie' = IF setsCookies THEN s ELSE cookie
  BY DEF Opens
<1>2. ServerOK /\ username \in Accounts /\ Len(owner) \in Nat
  BY InvTyping DEF InvParts, ServerOK, ProgramOK
<1>3. ServerOK' /\ s[2] = Len(owner) + 1
  BY <1>1, <1>2, GrantsTyping
<1>4. Len(owner') = Len(owner) + 1
  BY <1>1, <1>2 DEF Grants, ServerOK
<1>5. s # NoSession
  BY <1>1, <1>2, SessionAssumption DEF Grants
<1> QED
  BY <1>1, <1>2, <1>3, <1>4, <1>5 DEF Issued, Known, Grown

\* A step of private_request is one of a request: no relogin is about to start.
LEMMA AtFacts ==
  ASSUME SessionInv, NEW o, NEW place, At(o, place)
  PROVE  /\ StackOK /\ stack # <<>> /\ Top.op = o /\ Top.pc = place /\ Top \in Frame
         /\ o # "request" \/ place # "send" => ~Launching
         /\ o # "login" \/ place # "start" => ~Starting(Top)
BY InvTyping, TopTyping DEF InvParts, At, Launching, Starting

-------------------------------------------------------------------------------
(* private_request.                                                          *)

LEMMA SucceedsStep == SessionInv /\ Succeeds => SessionInv'
<1> SUFFICES ASSUME SessionInv, Succeeds PROVE SessionInv'
  OBVIOUS
<1>1. StackOK /\ stack # <<>>
  BY AtFacts DEF Succeeds, Sending
<1>2. StackStep
  BY <1>1, ReturnStep DEF Succeeds, Results
<1>3. InvParts /\ Len(owner) \in Nat
  BY InvTyping DEF InvParts, ServerOK
<1>4. InputsOK' /\ ProgramOK' /\ attempts' \in 0..2
  BY <1>3 DEF Succeeds, InvParts, InputsOK, ProgramOK, inputs, program
<1>5. UNCHANGED <<auth, public, header>>
  BY DEF Succeeds
<1>6. CASE Opens
  BY <1>2, <1>4, <1>5, <1>6, OpensStep, FreshStep DEF Known
<1>7. CASE /\ live' = IF Top.call = "logout" THEN live \ {Carried[2]} ELSE live
           /\ granted' = NoSession /\ UNCHANGED <<cookie, owner, revocations>>
  <2>1. ServerOK' /\ Grown
    BY <1>3, <1>7 DEF InvParts, ServerOK, Grown
  <2> QED
    BY <1>2, <1>4, <1>5, <1>7, <2>1, FreshStep DEF Known
<1> QED
  BY <1>6, <1>7 DEF Succeeds

LEMMA FailsStep == SessionInv /\ Fails => SessionInv'
<1> SUFFICES ASSUME SessionInv, Fails PROVE SessionInv'
  OBVIOUS
<1>1. /\ StackOK /\ stack # <<>> /\ Top.op = "request" /\ ~Starting(Top)
  BY AtFacts DEF Fails, Sending
<1>2. PICK e \in IF Accepted(Top.call) THEN Answers(Top.call)
                 ELSE Lost \cup {"login_required", "other"} :
        IF Top.pc = "again" THEN Return(e)
        ELSE IF e \in Lost THEN Goto("again") /\ UNCHANGED ret
        ELSE Goto("handle") /\ ret' = e
  BY DEF Fails
<1>3. e \in Results
  BY <1>2 DEF Answers, Lost, Results, Raised, PrivateErrors
<1>4. {"again", "handle"} \subseteq Places(Top.op)
  BY <1>1 DEF Places
<1>5. CASE Top.pc = "again"
  <2>1. StackStep
    BY <1>1, <1>2, <1>3, <1>5, ReturnStep
  <2> QED
    BY <2>1, QuietStep DEF Fails
<1>6. CASE Top.pc # "again"
  <2>1. StackStep
    BY <1>1, <1>2, <1>3, <1>4, <1>6, GotoStep DEF StackOK
  <2> QED
    BY <2>1, QuietStep DEF Fails
<1> QED
  BY <1>5, <1>6

LEMMA HandlerLogsInStep == SessionInv /\ HandlerLogsIn => SessionInv'
<1> SUFFICES ASSUME SessionInv, HandlerLogsIn PROVE SessionInv'
  OBVIOUS
<1>1. StackOK /\ stack # <<>> /\ Top.op = "request" /\ ~Launching /\ ~Starting(Top)
  BY AtFacts DEF HandlerLogsIn
<1>2. Callable(LoginCall(TRUE, FALSE))
  <2>1. LoginCall(TRUE, FALSE) \in Frame
    BY InvTyping, LoginTyping DEF InvParts
  <2> QED
    BY <2>1 DEF LoginCall, Callable, Bottom, Takes, Begun
<1>3. StackStep
  BY <1>1, <1>2, CallStep DEF HandlerLogsIn, Places, StackStep
<1> QED
  BY <1>1, <1>3, QuietStep DEF HandlerLogsIn

\* What a request takes a challenge for is known from the stack.
LEMMA ForLoginTyping ==
  ASSUME StackOK, stack # <<>>, Top.op = "request"
  PROVE  ForLogin \in BOOLEAN
<1>1. CASE Top.call = "take"
  <2>1. 1 \in DOMAIN stack /\ 2 \in DOMAIN stack /\ stack[2].op = "challenge" /\ stack[2] \in Frame
    BY <1>1, TopTyping DEF StackOK, WellNested, Takes
  <2>2. stack[2].login \in BOOLEAN
    BY <2>1 DEF Frame, RequestFrame, LoginFrame, ChallengeFrame, CallFrame, SessionidFrame
  <2> QED
    BY <1>1, <2>2 DEF ForLogin
<1>2. CASE Top.call # "take"
  BY <1>2 DEF ForLogin
<1> QED
  BY <1>1, <1>2

LEMMA ResolveChallengeStep == SessionInv /\ ResolveChallenge => SessionInv'
<1> SUFFICES ASSUME SessionInv, ResolveChallenge PROVE SessionInv'
  OBVIOUS
<1>1. StackOK /\ stack # <<>> /\ Top.op = "request" /\ ~Launching /\ ~Starting(Top)
  BY AtFacts DEF ResolveChallenge
<1>2. "handled" \in Places(Top.op) /\ {"ok", "challenge"} \subseteq Results
  BY <1>1 DEF Places, Results, Raised, PrivateErrors
<1>3. StackStep
  <2>1. CASE Goto("handled") /\ ret' = "ok"
    BY <1>1, <1>2, <2>1, GotoStep
  <2>2. CASE Return("challenge")
    BY <1>1, <1>2, <2>2, ReturnStep
  <2>3. CASE CallChallenge("handled", ForLogin, "open")
    BY <1>1, <1>2, <2>3, ForLoginTyping, CallChallengeStep
  <2> QED
    BY <2>1, <2>2, <2>3 DEF ResolveChallenge
<1> QED
  BY <1>1, <1>3, QuietStep DEF ResolveChallenge

LEMMA RaiseOnStep == SessionInv /\ (ResolveMasked \/ RaiseOn) => SessionInv'
<1> SUFFICES ASSUME SessionInv, ResolveMasked \/ RaiseOn PROVE SessionInv'
  OBVIOUS
<1>1. StackOK /\ stack # <<>> /\ ~Launching
  BY AtFacts DEF ResolveMasked, RaiseOn
<1>2. ret \in Results /\ {"relogin_exceeded", "key_error"} \subseteq Results
  BY <1>1 DEF StackOK, Results, Raised
<1>3. StackStep
  BY <1>1, <1>2, ReturnStep DEF ResolveMasked, RaiseOn
<1> QED
  BY <1>1, <1>3, QuietStep DEF ResolveMasked, RaiseOn

LEMMA HandledStep == SessionInv /\ Handled => SessionInv'
<1> SUFFICES ASSUME SessionInv, Handled PROVE SessionInv'
  OBVIOUS
<1>1. StackOK /\ stack # <<>> /\ Top.op = "request" /\ ~Launching /\ ~Starting(Top)
  BY AtFacts DEF Handled
<1>2. ret \in Results /\ {"none", "ok"} \subseteq Results /\ "again" \in Places(Top.op)
  BY <1>1 DEF StackOK, Results, Places
<1>3. StackStep
  BY <1>1, <1>2, ReturnStep, GotoStep DEF Handled
<1> QED
  BY <1>1, <1>3, QuietStep DEF Handled

-------------------------------------------------------------------------------
(* challenge_resolve.                                                        *)

Resolving ==
  /\ StackStep /\ ServerOK' /\ Grown
  /\ \A c \in {cookie', granted'} : Known(c) \/ Issued(c)

LEMMA StaysStep ==
  ASSUME SessionInv, ~Launching, StackStep, granted' \in {granted, NoSession},
         UNCHANGED <<server, cookie>>
  PROVE  Resolving
<1>1. ServerOK /\ Len(owner) \in Nat
  BY InvTyping DEF InvParts, ServerOK
<1>2. ServerOK' /\ Grown
  BY <1>1 DEF ServerOK, Grown, server
<1> QED
  BY <1>2 DEF Resolving, Known

\* What each place of the resolver may do with its frame.
LEMMA ChallengeMoves ==
  ASSUME SessionInv, NEW from, At("challenge", from)
  PROVE  /\ \A results \in SUBSET Results : Ends(results) => Resolving
         /\ \A place \in {"step", "form", "answer", "code"} : Proceeds(place) => Resolving
         /\ Closes => Resolving
         /\ Deeper => Resolving
<1>1. /\ StackOK /\ stack # <<>> /\ Top.op = "challenge" /\ Top \in Frame
      /\ ~Launching /\ ~Starting(Top)
  BY AtFacts
<1>2. \A results \in SUBSET Results : Ends(results) => Resolving
  <2> SUFFICES ASSUME NEW results \in SUBSET Results, Ends(results) PROVE Resolving
    OBVIOUS
  <2>1. StackStep
    BY <1>1, ReturnStep DEF Ends
  <2> QED
    BY <1>1, <2>1, StaysStep DEF Ends
<1>3. \A place \in {"step", "form", "answer", "code"} : Proceeds(place) => Resolving
  <2> SUFFICES ASSUME NEW place \in {"step", "form", "answer", "code"}, Proceeds(place)
               PROVE  Resolving
    OBVIOUS
  <2>1. place \in Places(Top.op) /\ ret' \in Results
    BY <1>1 DEF Places, Proceeds, StackOK
  <2>2. StackStep
    BY <1>1, <2>1, GotoStep DEF Proceeds
  <2> QED
    BY <1>1, <2>2, StaysStep DEF Proceeds
<1>4. Closes => Resolving
  <2> SUFFICES ASSUME Closes PROVE Resolving
    OBVIOUS
  <2>1. StackStep
    BY <1>1, ReturnStep DEF Closes, Results
  <2>2. CASE granted' = NoSession /\ UNCHANGED <<server, cookie>>
    BY <1>1, <2>1, <2>2, StaysStep
  <2>3. CASE Opens
    BY <2>1, <2>3, OpensStep DEF Resolving
  <2> QED
    BY <2>2, <2>3 DEF Closes
<1>5. Deeper => Resolving
  <2> SUFFICES ASSUME Deeper PROVE Resolving
    OBVIOUS
  <2>1. Top.login \in BOOLEAN
    BY <1>1 DEF Frame, RequestFrame, LoginFrame, ChallengeFrame, CallFrame, SessionidFrame
  <2>2. "passed" \in Places(Top.op)
    BY <1>1 DEF Places
  <2>3. StackStep
    BY <1>1, <2>1, <2>2, CallChallengeStep DEF Deeper
  <2> QED
    BY <1>1, <2>3, StaysStep DEF Deeper
<1> QED
  BY <1>2, <1>3, <1>4, <1>5

LEMMA TakeStepStep ==
  ASSUME SessionInv, At("challenge", "step"), TakeStep
  PROVE  Resolving
<1>1. StackOK /\ stack # <<>> /\ Top.op = "challenge" /\ ~Launching /\ ~Starting(Top)
  BY AtFacts
<1>2. CASE Ends({"challenge"})
  BY <1>2, ChallengeMoves DEF Results, Raised, PrivateErrors
<1>3. CASE /\ \E place \in {"taken", "passed"} : Call(place, Request("take", auth))
           /\ UNCHANGED <<server, cookie, granted>>
  <2>1. Callable(Request("take", auth))
    <3>1. Request("take", auth) \in Frame
      BY InvTyping, RequestTyping DEF InvParts, TokensOK, Endpoint
    <3> QED
      BY <1>1, <3>1 DEF Request, Callable, Bottom, Takes, Begun
  <2>2. {"taken", "passed"} \subseteq Places(Top.op)
    BY <1>1 DEF Places
  <2>3. StackStep
    BY <1>1, <1>3, <2>1, <2>2, CallStep DEF StackStep
  <2> QED
    BY <1>1, <1>3, <2>3, StaysStep
<1> QED
  BY <1>2, <1>3 DEF TakeStep

LEMMA CodeAgainStep ==
  ASSUME SessionInv, At("challenge", "code"), Top.round < CodeRounds,
         stack' = [stack EXCEPT ![1].round = @ + 1], UNCHANGED <<ret, granted, server, cookie>>
  PROVE  Resolving
<1> DEFINE t == [Top EXCEPT !.round = @ + 1]
<1>1. StackOK /\ stack # <<>> /\ Top.op = "challenge" /\ Top \in Frame /\ ~Launching
  BY AtFacts
<1>2. Top \in ChallengeFrame
  BY <1>1 DEF Frame, RequestFrame, LoginFrame, ChallengeFrame, CallFrame, SessionidFrame
<1>3. Top.round + 1 \in 1..CodeRounds
  BY <1>2, SessionAssumption DEF ChallengeFrame
<1>4. t \in ChallengeFrame /\ t.op = "challenge"
  BY <1>2, <1>3 DEF ChallengeFrame
<1>5. stack' = [stack EXCEPT ![1] = t]
  BY <1>1, TopTyping
<1> HIDE DEF t
<1>6. StackStep
  BY <1>1, <1>4, <1>5, TopMoves DEF Frame, Takes, Begun, StackOK
<1> QED
  BY <1>1, <1>6, StaysStep

LEMMA ResolvesQuietly == SessionInv /\ ResolvesChallenge => Resolving
<1> SUFFICES ASSUME SessionInv, ResolvesChallenge PROVE Resolving
  OBVIOUS
<1> USE DEF AtChallenge
<1>1. /\ ChallengeErrors \subseteq Results /\ {"ok", "challenge", "other"} \subseteq Results
  BY DEF ChallengeErrors, Results, Raised, PrivateErrors
<1>2. CASE OpenChallenge
  BY <1>1, <1>2, ChallengeMoves DEF OpenChallenge
<1>3. CASE ChallengeStep
  <2>1. CASE ReviewStep
    BY <1>1, <1>3, <2>1, ChallengeMoves DEF ChallengeStep, ReviewStep
  <2>2. CASE CodeStep
    BY <1>1, <1>3, <2>2, ChallengeMoves DEF ChallengeStep, CodeStep
  <2>3. CASE PhoneStep
    BY <1>1, <1>3, <2>3, ChallengeMoves DEF ChallengeStep, PhoneStep
  <2>4. CASE TakeStep
    BY <1>3, <2>4, TakeStepStep DEF ChallengeStep
  <2> QED
    BY <1>3, <2>1, <2>2, <2>3, <2>4 DEF ChallengeStep
<1>4. CASE CodeSent
  BY <1>1, <1>4, ChallengeMoves DEF CodeSent
<1>5. CASE Passed
  <2>1. StackOK /\ stack # <<>> /\ ~Launching /\ ret \in Results
    BY <1>5, AtFacts DEF Passed, StackOK
  <2>2. StackStep
    BY <1>5, <2>1, ReturnStep DEF Passed
  <2> QED
    BY <1>5, <2>1, <2>2, StaysStep DEF Passed
<1>6. CASE Redirected
  <2>1. CASE \E r \in {"ok", "challenge"} : Return(r) /\ UNCHANGED <<server, cookie, granted>>
    <3>1. StackOK /\ stack # <<>> /\ ~Launching
      BY <1>6, AtFacts DEF Redirected
    <3>2. StackStep
      BY <1>1, <2>1, <3>1, ReturnStep
    <3> QED
      BY <2>1, <3>1, <3>2, StaysStep
  <2>2. CASE Deeper
    BY <1>6, <2>2, ChallengeMoves DEF Redirected
  <2> QED
    BY <1>6, <2>1, <2>2 DEF Redirected
<1>7. CASE ContactForm
  BY <1>1, <1>7, ChallengeMoves DEF ContactForm
<1>8. CASE ContactCode
  BY <1>1, <1>8, ChallengeMoves, CodeAgainStep DEF ContactCode
<1> QED
  BY <1>2, <1>3, <1>4, <1>5, <1>6, <1>7, <1>8 DEF ResolvesChallenge

LEMMA ResolvesStep == SessionInv /\ ResolvesChallenge => SessionInv'
<1> SUFFICES ASSUME SessionInv, ResolvesChallenge PROVE SessionInv'
  OBVIOUS
<1>1. UNCHANGED <<inputs, program, auth, public, header, attempts>>
  BY DEF ResolvesChallenge
<1>2. InputsOK' /\ ProgramOK' /\ attempts' \in 0..2
  BY <1>1, InvTyping DEF InvParts, InputsOK, ProgramOK, inputs, program
<1> QED
  BY <1>1, <1>2, ResolvesQuietly, FreshStep DEF Resolving, Known

-------------------------------------------------------------------------------
(* login, logout and login_by_sessionid.                                     *)

LEMMA LoginStartsStep == SessionInv /\ LoginStarts => SessionInv'
<1> SUFFICES ASSUME SessionInv, LoginStarts PROVE SessionInv'
  OBVIOUS
<1>1. StackOK /\ stack # <<>> /\ Top.op = "login" /\ ~Launching
  BY AtFacts DEF LoginStarts
<1>2. ~Starting(Top) /\ {"validate", "pre"} \subseteq Places(Top.op)
  BY <1>1 DEF LoginStarts, Starting, Places
<1>3. Callable(Request("validate", auth)) /\ Callable(Request("launcher", auth))
  <2>1. Request("validate", auth) \in Frame /\ Request("launcher", auth) \in Frame
    BY InvTyping, RequestTyping DEF InvParts, TokensOK, Endpoint, PreLogin
  <2> QED
    BY <2>1 DEF Request, Callable, Bottom, Takes, Begun
<1>4. StackStep
  BY <1>1, <1>2, <1>3, CallStep DEF LoginStarts, StackStep
<1> QED
  BY <1>1, <1>4, QuietStep DEF LoginStarts

\* The request a login or a sessionid lookup goes on with.
LEMMA NextRequest ==
  ASSUME SessionInv, NEW c \in Endpoint \ {"take"}, NEW t \in Credential, NEW o, NEW from,
         At(o, from), ~Starting(Top), NEW place \in Places(o), Call(place, Request(c, t))
  PROVE  StackStep
<1>1. StackOK /\ stack # <<>> /\ Top.op = o
  BY AtFacts
<1>2. Callable(Request(c, t))
  BY RequestTyping DEF Request, Callable, Bottom, Takes, Begun
<1> QED
  BY <1>1, <1>2, CallStep DEF StackStep

LEMMA ReloginStartsStep == SessionInv /\ ReloginStarts => SessionInv'
<1> SUFFICES ASSUME SessionInv, ReloginStarts PROVE SessionInv'
  OBVIOUS
<1>1. StackOK /\ stack # <<>> /\ Top.op = "login" /\ ~Launching
  BY AtFacts DEF ReloginStarts
<1>2. InvParts /\ Len(owner) \in Nat
  BY InvTyping DEF InvParts, ServerOK
<1>3. ServerOK' /\ Grown /\ InputsOK' /\ ProgramOK' /\ attempts' \in 0..2
  BY <1>2 DEF ReloginStarts, InvParts, ServerOK, InputsOK, ProgramOK, Grown, inputs, server, program
<1>4. \A c \in {auth', cookie', public', header'} : c = NoSession
  BY DEF ReloginStarts, ClearSession
<1>5. CASE Return("relogin_exceeded")
  <2>1. StackStep
    BY <1>1, <1>5, ReturnStep DEF Results, Raised
  <2>2. \A c \in {auth', cookie', public', header', granted'} : Known(c) \/ Issued(c)
    BY <1>1, <1>4 DEF ReloginStarts, Known
  <2> QED
    BY <1>3, <2>1, <2>2, FreshStep
<1>6. CASE Call("pre", Request("launcher", NoSession))
  <2>1. Callable(Request("launcher", NoSession))
    <3>1. Request("launcher", NoSession) \in Frame
      BY RequestTyping DEF Endpoint, PreLogin, Credential
    <3> QED
      BY <3>1 DEF Request, Callable, Bottom, Takes, Begun
  <2>2. "pre" \in Places(Top.op)
    BY <1>1 DEF Places
  <2>3. StackOK' /\ Starts' \subseteq Starts \cup {Len(owner)}
    BY <1>1, <1>6, <2>1, <2>2, CallStep
  <2>4. \A b \in Starts' : b <= Len(owner')
    BY <1>2, <2>3 DEF SessionInv, ReloginStarts, server
  <2>5. Launching'
    BY <1>6 DEF Launching, At, Top, Call, Request
  <2>6. InvParts'
    BY <1>2, <1>3, <1>4, <2>3 DEF InvParts, TokensOK, Credential, ReloginStarts
  <2>7. TypeOK' /\ WellNested'
    BY <2>6, TypeParts, PTL DEF InvParts
  <2> QED
    BY <1>4, <2>4, <2>5, <2>7 DEF SessionInv, Fresh
<1> QED
  BY <1>5, <1>6 DEF ReloginStarts

LEMMA ValidatedStep == SessionInv /\ Validated => SessionInv'
<1> SUFFICES ASSUME SessionInv, Validated PROVE SessionInv'
  OBVIOUS
<1>1. StackOK /\ stack # <<>> /\ Top.op = "login" /\ Top \in Frame /\ ~Launching /\ ret \in Results
  BY AtFacts DEF Validated, AtLogin, StackOK
<1>2. CASE ret = "login_required"
  <2> DEFINE t == LoginCall(TRUE, Top.code)
  <2>1. Top.code \in BOOLEAN
    BY <1>1 DEF Frame, RequestFrame, LoginFrame, ChallengeFrame, CallFrame, SessionidFrame
  <2>2. t \in Frame
    BY <2>1, InvTyping, LoginTyping DEF InvParts
  <2>3. t.op = "login" /\ t.since = Len(owner) /\ t.pc = "start"
    BY DEF LoginCall
  <2>4. stack' = <<t>> \o Tail(stack) /\ ret' = "none"
    BY <1>2 DEF Validated
  <2> HIDE DEF t
  <2>5. stack' = [stack EXCEPT ![1] = t]
    BY <1>1, <2>2, <2>4, ReplaceTyping DEF StackOK
  <2>6. StackStep
    BY <1>1, <2>2, <2>3, <2>4, <2>5, TopMoves DEF Takes, Begun, Results
  <2> QED
    BY <1>1, <2>6, QuietStep DEF Validated
<1>3. CASE ret # "login_required"
  <2>1. StackStep
    BY <1>1, <1>3, ReturnStep DEF Validated
  <2> QED
    BY <1>1, <2>1, QuietStep DEF Validated
<1> QED
  BY <1>2, <1>3

LEMMA FlowStep == SessionInv /\ (PreLoginDone \/ NeedsCode \/ TrayDone) => SessionInv'
<1> SUFFICES ASSUME SessionInv, PreLoginDone \/ NeedsCode \/ TrayDone PROVE SessionInv'
  OBVIOUS
<1>1. /\ StackOK /\ stack # <<>> /\ Top.op = "login" /\ ~Launching /\ ~Starting(Top)
      /\ ret \in Results
  BY AtFacts DEF PreLoginDone, NeedsCode, TrayDone, AtLogin, StackOK
<1>2. auth \in Credential /\ {"login", "two_factor", "timeline"} \subseteq Endpoint \ {"take"}
  BY InvTyping DEF InvParts, TokensOK, Endpoint, PreLogin
<1>3. {"ask", "two", "timeline"} \subseteq Places("login")
  BY DEF Places
<1>4. StackStep
  <2>1. CASE PreLoginDone
    BY <1>1, <1>2, <1>3, <2>1, NextRequest, ReturnStep DEF PreLoginDone, AtLogin
  <2>2. CASE NeedsCode
    BY <1>1, <1>2, <1>3, <2>2, NextRequest DEF NeedsCode, AtLogin
  <2>3. CASE TrayDone
    BY <1>1, <1>2, <1>3, <2>3, NextRequest DEF TrayDone, AtLogin
  <2> QED
    BY <2>1, <2>2, <2>3
<1> QED
  BY <1>1, <1>4, QuietStep DEF PreLoginDone, NeedsCode, TrayDone

LEMMA LoggedStep == SessionInv /\ Logged => SessionInv'
<1> SUFFICES ASSUME SessionInv, Logged PROVE SessionInv'
  OBVIOUS
<1>1. StackOK /\ stack # <<>> /\ Top.op = "login" /\ ~Launching /\ ~Starting(Top)
  BY AtFacts DEF Logged, AtLogin
<1>2. InvParts /\ Len(owner) \in Nat
  BY InvTyping DEF InvParts, ServerOK
<1>3. StackStep
  <2>1. granted \in Credential /\ "tray" \in Endpoint \ {"take"} /\ "tray" \in Places("login")
    BY <1>2 DEF InvParts, TokensOK, Endpoint, Places
  <2> QED
    BY <1>1, <2>1, NextRequest DEF Logged, AtLogin
<1>4. ServerOK' /\ Grown /\ InputsOK' /\ ProgramOK' /\ attempts' \in 0..2
  BY <1>2 DEF Logged, InvParts, ServerOK, InputsOK, ProgramOK, Grown, inputs, server, program
<1>5. \A c \in {auth', cookie', public', header', granted'} : Known(c) \/ Issued(c)
  BY <1>1 DEF Logged, Known
<1> QED
  BY <1>3, <1>4, <1>5, FreshStep

LEMMA BloksLoginStep == SessionInv /\ BloksLogin => SessionInv'
<1> SUFFICES ASSUME SessionInv, BloksLogin PROVE SessionInv'
  OBVIOUS
<1>1. /\ StackOK /\ stack # <<>> /\ Top.op = "login" /\ ~Launching /\ ~Starting(Top)
      /\ At("login", "ask") \/ At("login", "two")
  BY AtFacts DEF BloksLogin, BloksTried, AtLogin
<1>2. InvParts /\ Len(owner) \in Nat
  BY InvTyping DEF InvParts, ServerOK
<1>3. PICK s \in Credential :
        /\ Grants(s)
        /\ auth' = s /\ header' = s
        /\ cookie' = IF setsCookies THEN s ELSE cookie
        /\ public' = IF setsCookies THEN s ELSE public
        /\ Call("tray", Request("tray", s))
  BY DEF BloksLogin
<1>4. StackStep
  <2>1. "tray" \in Endpoint \ {"take"} /\ "tray" \in Places("login")
    BY DEF Endpoint, Places
  <2> QED
    BY <1>1, <1>3, <2>1, NextRequest
<1>5. ServerOK' /\ s[2] = Len(owner) + 1
  BY <1>2, <1>3, GrantsTyping DEF InvParts, ProgramOK
<1>6. Len(owner') = Len(owner) + 1
  BY <1>2, <1>3 DEF Grants, InvParts, ServerOK
<1>7. Issued(s)
  BY <1>2, <1>3, <1>5, SessionAssumption DEF Grants, Issued, InvParts, ProgramOK
<1>8. \A c \in {auth', cookie', public', header', granted'} : Known(c) \/ Issued(c)
  BY <1>3, <1>7 DEF BloksLogin, Known
<1>9. InputsOK' /\ ProgramOK' /\ attempts' \in 0..2 /\ Grown
  BY <1>2, <1>6 DEF BloksLogin, InvParts, InputsOK, ProgramOK, Grown, inputs, program
<1> QED
  BY <1>4, <1>5, <1>8, <1>9, FreshStep

LEMMA LoginRaisesStep == SessionInv /\ LoginRaises => SessionInv'
<1> SUFFICES ASSUME SessionInv, LoginRaises PROVE SessionInv'
  OBVIOUS
<1>1. StackOK /\ stack # <<>> /\ ~Launching
  BY AtFacts DEF LoginRaises, BloksTried, AtLogin
<1>2. ret \in Results /\ {"two_factor", "challenge", "other"} \subseteq Results
  BY <1>1 DEF StackOK, Results, Raised, PrivateErrors
<1>3. StackStep
  BY <1>1, <1>2, ReturnStep DEF LoginRaises
<1> QED
  BY <1>1, <1>3, QuietStep DEF LoginRaises

LEMMA EndStep == SessionInv /\ (LoginDone \/ LoggedOut) => SessionInv'
<1> SUFFICES ASSUME SessionInv, LoginDone \/ LoggedOut PROVE SessionInv'
  OBVIOUS
<1>1. StackOK /\ stack # <<>> /\ ~Launching /\ ret \in Results /\ "ok" \in Results
  BY AtFacts DEF LoginDone, LoggedOut, AtLogin, StackOK, Results
<1>2. InvParts /\ Len(owner) \in Nat
  BY InvTyping DEF InvParts, ServerOK
<1>3. StackStep
  BY <1>1, ReturnStep DEF LoginDone, LoggedOut
<1>4. ServerOK' /\ Grown /\ InputsOK' /\ ProgramOK' /\ attempts' \in 0..2
  BY <1>2 DEF LoginDone, LoggedOut, InvParts, ServerOK, InputsOK, ProgramOK, Grown, inputs, server, program
<1>5. \A c \in {auth', cookie', public', header', granted'} : Known(c) \/ Issued(c)
  BY <1>1 DEF LoginDone, LoggedOut, ClearSession, Known, tokens
<1> QED
  BY <1>3, <1>4, <1>5, FreshStep

LEMMA SessionidStep ==
  SessionInv /\ (SessionidFails \/ SessionidAsksStream \/ WorkDone) => SessionInv'
<1> SUFFICES ASSUME SessionInv, SessionidFails \/ SessionidAsksStream \/ WorkDone
             PROVE  SessionInv'
  OBVIOUS
<1>1. StackOK /\ stack # <<>> /\ ~Launching /\ ~Starting(Top) /\ ret \in Results /\ "other" \in Results
  BY AtFacts DEF SessionidFails, SessionidAsksStream, WorkDone, StackOK, Results, Raised, PrivateErrors
<1>2. StackStep
  <2>1. CASE SessionidFails \/ WorkDone
    BY <1>1, <2>1, ReturnStep DEF SessionidFails, WorkDone
  <2>2. CASE SessionidAsksStream
    <3>1. auth \in Credential /\ "stream" \in Endpoint \ {"take"} /\ "stream" \in Places("sessionid")
      BY InvTyping DEF InvParts, TokensOK, Endpoint, Places
    <3> QED
      BY <1>1, <2>2, <3>1, NextRequest DEF SessionidAsksStream
  <2> QED
    BY <2>1, <2>2
<1> QED
  BY <1>1, <1>2, QuietStep DEF SessionidFails, SessionidAsksStream, WorkDone

-------------------------------------------------------------------------------
(* The program and the server.                                               *)

\* Where no relogin is under way, nothing can be too old.
LEMMA NoRelogin ==
  ASSUME InvParts', Bounds' = {}, \A b \in Starts' : b <= Len(owner')
  PROVE  SessionInv'
<1>1. TypeOK' /\ WellNested'
  BY TypeParts, PTL DEF InvParts
<1> QED
  BY <1>1 DEF SessionInv, Fresh

LEMMA SessionidTakenStep == SessionInv /\ SessionidTaken => SessionInv'
<1> SUFFICES ASSUME SessionInv, SessionidTaken PROVE SessionInv'
  OBVIOUS
<1>1. /\ StackOK /\ stack # <<>> /\ Top.op = "sessionid" /\ Top \in Frame /\ "ok" \in Results
  BY AtFacts DEF SessionidTaken, Results
<1>2. InvParts
  BY InvTyping
<1>3. stack' = <<>>
  <2>1. Len(stack) \in Nat /\ 1 \in DOMAIN stack /\ stack[1].op \in Bottom
    BY <1>1, TopTyping DEF StackOK, Bottom
  <2>2. Len(stack) = 1
    BY <1>1, <2>1 DEF StackOK, WellNested
  <2> QED
    BY <1>1, <2>2 DEF SessionidTaken, Return, StackOK
<1>4. Top.user \in Accounts
  BY <1>1 DEF Frame, RequestFrame, LoginFrame, ChallengeFrame, CallFrame, SessionidFrame
<1>5. TokensOK'
  BY <1>2, <1>4, SessionAssumption DEF SessionidTaken, InvParts, TokensOK, Credential
<1>6. StackOK' /\ Bounds' = {} /\ Starts' = {}
  BY <1>3, <1>1 DEF SessionidTaken, Return, StackOK, WellNested, Bounds, Starts
<1>7. InvParts'
  BY <1>2, <1>4, <1>5, <1>6 DEF SessionidTaken, InvParts, ServerOK, InputsOK, ProgramOK, inputs, server
<1> QED
  BY <1>6, <1>7, NoRelogin

LEMMA BeginLogin ==
  ASSUME NEW f \in Frame, f.op = "login", f.pc = "start", f.since = Len(owner),
         stack' = <<f>>, ret' = "none"
  PROVE  StackOK' /\ Bounds' = {} /\ Starts' = {Len(owner)}
<1>1. stack' \in Seq(Frame) /\ DOMAIN stack' = {1} /\ stack'[1] = f
  OBVIOUS
<1>2. WellNested'
  BY <1>1 DEF WellNested, Takes, Bottom
<1> QED
  BY <1>1, <1>2 DEF StackOK, Results, Bounds, Starts, Begun

LEMMA BeginCall ==
  ASSUME NEW f \in Frame, f.op = "request", f.call # "take",
         NEW g \in Frame, g.op \in Bottom, stack' = <<f, g>>, ret' = "none"
  PROVE  StackOK' /\ Bounds' = {} /\ Starts' = {}
<1>1. /\ stack' \in Seq(Frame) /\ DOMAIN stack' = {1, 2} /\ Len(stack') = 2
      /\ stack'[1] = f /\ stack'[2] = g
  OBVIOUS
<1>2. WellNested'
  BY <1>1 DEF WellNested, Takes, Bottom
<1>3. \A n \in DOMAIN stack' : stack'[n].op # "login"
  BY <1>1 DEF Bottom
<1> QED
  BY <1>1, <1>2, <1>3 DEF StackOK, Results, Bounds, Starts, Begun

LEMMA BeginTyping ==
  ASSUME InvParts, NEW o \in {"login", "work", "logout", "sessionid"}, NEW frames, Begin(o, frames),
         username' \in Accounts
  PROVE  ProgramOK' /\ stack' = frames /\ ret' = "none"
<1>1. calls + 1 \in 0..MaxCalls
  BY SessionAssumption DEF InvParts, ProgramOK, Begin
<1>2. refused' \subseteq Session
  BY SessionAssumption DEF InvParts, ServerOK, Begin, Refused, Session
<1> QED
  BY <1>1, <1>2 DEF ProgramOK, Begin

LEMMA UserLoginStep == SessionInv /\ (UserLogsIn \/ UserRelogs) => SessionInv'
<1> SUFFICES ASSUME SessionInv, UserLogsIn \/ UserRelogs PROVE SessionInv'
  OBVIOUS
<1>1. InvParts /\ Len(owner) \in Nat
  BY InvTyping DEF InvParts, ServerOK
<1>2. PICK relogin \in BOOLEAN, code \in BOOLEAN :
        Begin("login", <<LoginCall(relogin, code)>>) /\ username' \in Accounts
  BY <1>1 DEF UserLogsIn, UserRelogs, InvParts, ProgramOK
<1>3. ProgramOK' /\ stack' = <<LoginCall(relogin, code)>> /\ ret' = "none"
  BY <1>1, <1>2, BeginTyping
<1>4. StackOK' /\ Bounds' = {} /\ Starts' = {Len(owner)}
  <2> DEFINE f == LoginCall(relogin, code)
  <2>1. f \in Frame /\ f.op = "login" /\ f.pc = "start" /\ f.since = Len(owner)
    BY <1>1, LoginTyping DEF InvParts, LoginCall
  <2>2. stack' = <<f>>
    BY <1>3
  <2> HIDE DEF f
  <2> QED
    BY <1>3, <2>1, <2>2, BeginLogin
<1>5. InvParts' /\ owner' = owner
  BY <1>1, <1>3, <1>4 DEF UserLogsIn, UserRelogs, InvParts, ServerOK, TokensOK, InputsOK, inputs, server, tokens
<1> QED
  BY <1>1, <1>4, <1>5, NoRelogin

LEMMA UserCallsStep == SessionInv /\ UserCalls => SessionInv'
<1> SUFFICES ASSUME SessionInv, UserCalls PROVE SessionInv'
  OBVIOUS
<1>1. InvParts
  BY InvTyping
<1>2. PICK o \in {"work", "logout"} : Begin(o, <<Request(o, auth), [op |-> o, pc |-> "sent"]>>)
  BY DEF UserCalls
<1>3. /\ ProgramOK' /\ ret' = "none"
      /\ stack' = <<Request(o, auth), [op |-> o, pc |-> "sent"]>>
  BY <1>1, <1>2, BeginTyping DEF UserCalls, InvParts, ProgramOK
<1>4. StackOK' /\ Bounds' = {} /\ Starts' = {}
  <2> DEFINE f == Request(o, auth)
             g == [op |-> o, pc |-> "sent"]
  <2>1. f \in Frame /\ f.op = "request" /\ f.call # "take"
    BY <1>1, RequestTyping DEF InvParts, TokensOK, Endpoint, Request
  <2>2. g \in Frame /\ g.op \in Bottom
    BY DEF Frame, CallFrame, Bottom
  <2>3. stack' = <<f, g>>
    BY <1>3
  <2> HIDE DEF f, g
  <2> QED
    BY <1>3, <2>1, <2>2, <2>3, BeginCall
<1>5. InvParts'
  BY <1>1, <1>3, <1>4 DEF UserCalls, InvParts, ServerOK, TokensOK, InputsOK, inputs, server, tokens
<1> QED
  BY <1>4, <1>5, NoRelogin

LEMMA UserGivesSessionidStep == SessionInv /\ UserGivesSessionid => SessionInv'
<1> SUFFICES ASSUME SessionInv, UserGivesSessionid PROVE SessionInv'
  OBVIOUS
<1>1. InvParts
  BY InvTyping
<1> DEFINE s(u) == <<u, Len(owner) + 1>>
<1>2. PICK u \in Accounts, accepted \in BOOLEAN :
        /\ auth' = s(u) /\ cookie' = s(u) /\ header' = saved
        /\ owner' = Append(owner, u)
        /\ live' = IF accepted THEN live \cup {s(u)[2]} ELSE live
        /\ Begin("sessionid", <<Request("profile", s(u)),
                                [op |-> "sessionid", user |-> u, pc |-> "sent"]>>)
  BY DEF UserGivesSessionid
<1>3. Len(owner) + 1 \in Session /\ s(u) \in Credential /\ s(u)[2] \in Session
  BY <1>1, SessionAssumption DEF UserGivesSessionid, InvParts, ServerOK, Session, Credential
<1>4. /\ ProgramOK' /\ ret' = "none"
      /\ stack' = <<Request("profile", s(u)), [op |-> "sessionid", user |-> u, pc |-> "sent"]>>
  BY <1>1, <1>2, BeginTyping DEF UserGivesSessionid, InvParts, ProgramOK
<1>5. StackOK' /\ Bounds' = {} /\ Starts' = {}
  <2> DEFINE f == Request("profile", s(u))
             g == [op |-> "sessionid", user |-> u, pc |-> "sent"]
  <2>1. f \in Frame /\ f.op = "request" /\ f.call # "take"
    BY <1>3, RequestTyping DEF Endpoint, Request
  <2>2. g \in Frame /\ g.op \in Bottom
    BY DEF Frame, SessionidFrame, Bottom
  <2>3. stack' = <<f, g>>
    BY <1>4
  <2> HIDE DEF f, g
  <2> QED
    BY <1>4, <2>1, <2>2, <2>3, BeginCall
<1>6. ServerOK'
  <2>1. owner' \in Seq(Accounts) /\ Len(owner') = Len(owner) + 1
    BY <1>1, <1>2 DEF InvParts, ServerOK
  <2>2. Len(owner') <= MaxSessions
    BY <1>1, <1>3, <2>1 DEF Session
  <2> HIDE DEF s
  <2> QED
    BY <1>1, <1>2, <1>3, <2>1, <2>2 DEF UserGivesSessionid, InvParts, ServerOK
<1>7. InvParts'
  <2> HIDE DEF s
  <2> QED
    BY <1>1, <1>2, <1>3, <1>4, <1>5, <1>6 DEF UserGivesSessionid, InvParts, TokensOK, InputsOK, inputs
<1> QED
  BY <1>5, <1>7, NoRelogin

LEMMA InjectStep == SessionInv /\ Inject => SessionInv'
<1> SUFFICES ASSUME SessionInv, Inject PROVE SessionInv'
  OBVIOUS
<1>1. InvParts /\ Len(owner) \in Nat
  BY InvTyping DEF InvParts, ServerOK
<1>2. StackOK' /\ Bounds' = {} /\ Starts' = {}
  BY <1>1 DEF Inject, InvParts, StackOK, WellNested, Bounds, Starts
<1>3. InvParts'
  BY <1>1, <1>2 DEF Inject, UserId, InvParts, ServerOK, TokensOK, InputsOK, ProgramOK, inputs, server, program
<1> QED
  BY <1>2, <1>3, NoRelogin

\* The server and the environment leave the stack and the credentials alone.
LEMMA RevokeStep == SessionInv /\ (Revoke \/ UNCHANGED vars) => SessionInv'
<1> SUFFICES ASSUME SessionInv, Revoke \/ UNCHANGED vars PROVE SessionInv'
  OBVIOUS
<1>1. InvParts
  BY InvTyping
<1>2. UNCHANGED <<stack, ret, owner, inputs, program, tokens, granted, attempts>>
  BY DEF Revoke, vars, server
<1>3. StackOK' /\ Bounds' = Bounds /\ Starts' = Starts /\ Launching' = Launching
  BY <1>1, <1>2 DEF InvParts, StackOK, WellNested, Bounds, Starts, Launching, At, Top
<1>4. ServerOK'
  BY <1>1, <1>2, SessionAssumption DEF Revoke, vars, server, InvParts, ServerOK
<1>5. InvParts'
  BY <1>1, <1>2, <1>3, <1>4 DEF InvParts, TokensOK, InputsOK, ProgramOK, inputs, program, tokens
<1>6. TypeOK' /\ WellNested'
  BY <1>5, TypeParts, PTL DEF InvParts
<1> QED
  BY <1>2, <1>3, <1>6 DEF SessionInv, Fresh, tokens

LEMMA InitStep == Init => SessionInv
<1> SUFFICES ASSUME Init PROVE SessionInv
  OBVIOUS
<1>1. username \in Accounts
  BY SessionAssumption DEF Init
<1>2. saved \in Credential /\ NoSession \in Credential
  BY <1>1, SessionAssumption DEF Init, Credential
<1>3. StackOK /\ Bounds = {} /\ Starts = {}
  BY DEF Init, StackOK, Results, WellNested, Bounds, Starts
<1>4. ServerOK
  <2>1. owner \in Seq(Accounts) /\ Len(owner) <= MaxSessions
    BY <1>1, SessionAssumption DEF Init
  <2>2. DOMAIN owner \subseteq Session
    BY <2>1, SessionAssumption DEF Session
  <2> QED
    BY <2>1, <2>2, SessionAssumption DEF Init, ServerOK
<1>5. TokensOK /\ InputsOK /\ ProgramOK /\ attempts \in 0..2
  BY <1>1, <1>2, SessionAssumption DEF Init, TokensOK, InputsOK, ProgramOK
<1> QED
  BY <1>3, <1>4, <1>5, TypeParts DEF SessionInv, Fresh

LEMMA NextStep == SessionInv /\ [Next]_vars => SessionInv'
<1> SUFFICES ASSUME SessionInv, [Next]_vars PROVE SessionInv'
  OBVIOUS
<1>1. CASE Private
  BY <1>1, SucceedsStep, FailsStep, HandlerLogsInStep, ResolveChallengeStep, RaiseOnStep,
     HandledStep, ResolvesStep DEF Private
<1>2. CASE Auth
  BY <1>2, LoginStartsStep, ReloginStartsStep, ValidatedStep, FlowStep, LoggedStep,
     BloksLoginStep, LoginRaisesStep, EndStep, SessionidStep, SessionidTakenStep DEF Auth
<1>3. CASE User
  BY <1>3, UserLoginStep, UserCallsStep, UserGivesSessionidStep, InjectStep DEF User
<1>4. CASE Revoke \/ UNCHANGED vars
  BY <1>4, RevokeStep
<1> QED
  BY <1>1, <1>2, <1>3, <1>4 DEF Next

LEMMA SessionInvariant == Spec => []SessionInv
BY InitStep, NextStep, PTL DEF Spec

\* Every call returns or raises what the code knows, and the frames, the credentials
\* and the counter of relogins have their types at any depth of the stack.
THEOREM TypeCorrect == Spec => []TypeOK
<1>1. SessionInv => TypeOK
  BY DEF SessionInv
<1> QED
  BY <1>1, SessionInvariant, PTL

\* "Re-login with clean cookies": no credential the client holds is older than a relogin
\* that has begun, however the handler, the logins and the challenges nest.
THEOREM ReloginIsClean == Spec => []NothingOldSurvivesRelogin
<1>1. SessionInv => NothingOldSurvivesRelogin
  <2> SUFFICES ASSUME SessionInv, NEW n \in DOMAIN stack, Begun(stack[n]), NEW s \in Held
               PROVE  s[2] > stack[n].since
    BY DEF NothingOldSurvivesRelogin, Begun
  <2>1. stack[n].since \in Bounds
    BY DEF Bounds
  <2> QED
    BY <2>1 DEF SessionInv, Fresh, Held
<1> QED
  BY <1>1, SessionInvariant, PTL

-------------------------------------------------------------------------------
(* The shape of the stack, as far as a login needs it.                       *)

Early == {"pre", "ask", "two"}
Later == {"validate", "tray", "timeline"}

\* The place at which a login waits for a request of its own.
Waits(call) ==
  CASE call = "launcher" -> "pre" [] call = "login" -> "ask" [] call = "two_factor" -> "two"
    [] OTHER -> call

\* Frame f was called by frame g: a handler, the only one to call a login from within a
\* request, does so for requests that need a session.
CalledBy(f, g) ==
  /\ f.op = "request" =>
       /\ f.call \in PreLogin \cup Later => g.op = "login" /\ g.pc = Waits(f.call)
       /\ f.call = "take" => g.op = "challenge"
       /\ f.call \notin PreLogin \cup Later \cup {"take"} => g.op \in Bottom
  /\ f.op = "login" => g.op = "request" /\ g.pc = "handled" /\ g.call \notin PreLogin \cup {"take"}
  /\ f.op = "challenge" => g.op = "challenge" \/ (g.op = "request" /\ g.pc = "handled")

\* A login with a login above it waits for a request that needs its session, and what
\* is not a relogin is what the program called.
Stacked ==
  /\ \A n \in 1..(Len(stack) - 1) : CalledBy(stack[n], stack[n + 1])
  /\ stack # <<>> => stack[Len(stack)].op \notin {"request", "challenge"}
  /\ \A m, n \in DOMAIN stack :
       m < n /\ stack[m].op = "login" /\ stack[n].op = "login" => stack[n].pc \in Later
  /\ \A n \in DOMAIN stack : stack[n].op = "login" /\ ~stack[n].relogin => n = Len(stack)

\* Where the logins are, where the innermost one is, and the tokens of the requests
\* that validate a session and of those that end a login.
Logins == {n \in DOMAIN stack : stack[n].op = "login"}
LoginPlaces == {stack[n].pc : n \in Logins}
InnerPlace == {stack[n].pc : n \in {m \in Logins : \A k \in Logins : m <= k}}
Requests(kinds) == {n \in DOMAIN stack : stack[n].op = "request" /\ stack[n].call \in kinds}
Shown == {stack[n].auth : n \in Requests({"validate"})}
Sent == {stack[n].auth : n \in Requests({"tray", "timeline"})}

LEMMA PopShape ==
  ASSUME StackOK, Stacked, stack # <<>>, NEW r, Return(r)
  PROVE  /\ Stacked' /\ LoginPlaces' \subseteq LoginPlaces /\ Shown' \subseteq Shown /\ Sent' \subseteq Sent
         /\ Top.op # "login" => InnerPlace' = InnerPlace
         /\ Top.op = "login" => InnerPlace' \subseteq Later
         /\ stack' # <<>> => stack'[1] = stack[2] /\ CalledBy(Top, Top') /\ Top' = stack[2]
         /\ stack' = <<>> => Top.op \notin {"request", "challenge"} /\ InnerPlace' = {}
         /\ {n \in DOMAIN stack : stack[n].op \in Bottom} = {} =>
              {n \in DOMAIN stack' : stack'[n].op \in Bottom} = {}
<1>1. /\ stack' \in Seq(Frame) /\ Len(stack) \in Nat /\ Len(stack) >= 1 /\ Len(stack') = Len(stack) - 1
      /\ DOMAIN stack = 1..Len(stack) /\ DOMAIN stack' = 1..(Len(stack) - 1)
      /\ \A n \in DOMAIN stack' : stack'[n] = stack[n + 1] /\ n + 1 \in DOMAIN stack
      /\ stack[1] = Top
  BY PopTyping, TopTyping DEF StackOK, Return
<1>2. Stacked'
  <2>1. \A n \in 1..(Len(stack') - 1) : CalledBy(stack'[n], stack'[n + 1])
    BY <1>1 DEF Stacked
  <2>2. stack' # <<>> => stack'[Len(stack')].op \notin {"request", "challenge"}
    BY <1>1 DEF Stacked
  <2>3. \A m, n \in DOMAIN stack' :
          m < n /\ stack'[m].op = "login" /\ stack'[n].op = "login" => stack'[n].pc \in Later
    BY <1>1 DEF Stacked
  <2>4. \A n \in DOMAIN stack' : stack'[n].op = "login" /\ ~stack'[n].relogin => n = Len(stack')
    BY <1>1 DEF Stacked
  <2> QED
    BY <2>1, <2>2, <2>3, <2>4 DEF Stacked
<1>3. LoginPlaces' \subseteq LoginPlaces /\ Shown' \subseteq Shown /\ Sent' \subseteq Sent
  BY <1>1 DEF LoginPlaces, Logins, Shown, Sent, Requests
<1>4. ASSUME Top.op # "login" PROVE InnerPlace' = InnerPlace
  <2>1. Logins' \subseteq Nat /\ \A n \in Nat : n \in Logins' => n + 1 \in Logins
    BY <1>1 DEF Logins
  <2>2. \A n \in Logins : n \in Nat /\ n - 1 \in Logins' /\ n - 1 \in Nat /\ n - 1 + 1 = n
    BY <1>1, <1>4 DEF Logins
  <2>3. \A n \in Logins' : (\A k \in Logins' : n <= k) <=> (\A k \in Logins : n + 1 <= k)
    BY <2>1, <2>2
  <2>4. \A n \in Logins' : stack'[n].pc = stack[n + 1].pc
    BY <1>1 DEF Logins
  <2> HIDE DEF Logins
  <2>5. InnerPlace' \subseteq InnerPlace
    BY <2>1, <2>3, <2>4 DEF InnerPlace
  <2>6. InnerPlace \subseteq InnerPlace'
    BY <2>2, <2>3, <2>4 DEF InnerPlace
  <2> QED
    BY <2>5, <2>6
<1>5. ASSUME Top.op = "login" PROVE InnerPlace' \subseteq Later
  <2>1. \A n \in DOMAIN stack' : stack'[n].op = "login" => stack'[n].pc \in Later
    BY <1>1, <1>5 DEF Stacked
  <2> QED
    BY <2>1 DEF InnerPlace, Logins
<1>6. stack' # <<>> => stack'[1] = stack[2] /\ CalledBy(Top, Top') /\ Top' = stack[2]
  BY <1>1 DEF Stacked, Top
<1>7. stack' = <<>> => Top.op \notin {"request", "challenge"} /\ InnerPlace' = {}
  BY <1>1 DEF Stacked, InnerPlace, Logins
<1> QED
  BY <1>1, <1>2, <1>3, <1>4, <1>5, <1>6, <1>7

\* The frame on top, which is no login, moves.
LEMMA MoveShape ==
  ASSUME StackOK, Stacked, stack # <<>>, NEW t \in Frame, stack' = [stack EXCEPT ![1] = t],
         t.op = Top.op, Top.op # "login",
         t.op = "request" => t.call = Top.call /\ t.auth = Top.auth
  PROVE  /\ Stacked' /\ LoginPlaces' = LoginPlaces /\ InnerPlace' = InnerPlace /\ Shown' = Shown /\ Sent' = Sent
         /\ Top' = t
         /\ {n \in DOMAIN stack : stack[n].op \in Bottom} = {n \in DOMAIN stack' : stack'[n].op \in Bottom}
<1>1. /\ stack' \in Seq(Frame) /\ Len(stack) \in Nat /\ Len(stack) >= 1 /\ Len(stack') = Len(stack)
      /\ DOMAIN stack = 1..Len(stack) /\ DOMAIN stack' = DOMAIN stack /\ stack # <<>>
      /\ stack[1] = Top /\ stack'[1] = t /\ Top' = t
      /\ \A n \in DOMAIN stack : n # 1 => stack'[n] = stack[n]
  BY TopTyping DEF StackOK, Top
<1>2. \A n \in DOMAIN stack :
        /\ stack'[n].op = stack[n].op
        /\ stack[n].op = "login" => stack'[n] = stack[n]
        /\ stack[n].op = "request" => stack'[n].call = stack[n].call /\ stack'[n].auth = stack[n].auth
  BY <1>1
<1>3. Stacked'
  <2>1. \A n \in 1..(Len(stack') - 1) : CalledBy(stack'[n], stack'[n + 1])
    <3> SUFFICES ASSUME NEW n \in 1..(Len(stack) - 1) PROVE CalledBy(stack'[n], stack'[n + 1])
      BY <1>1
    <3>1. CalledBy(stack[n], stack[n + 1]) /\ stack'[n + 1] = stack[n + 1] /\ n \in DOMAIN stack
      BY <1>1 DEF Stacked
    <3> QED
      BY <3>1, <1>2 DEF CalledBy
  <2>2. stack' # <<>> => stack'[Len(stack')].op \notin {"request", "challenge"}
    BY <1>1, <1>2 DEF Stacked
  <2>3. \A m, n \in DOMAIN stack' :
          m < n /\ stack'[m].op = "login" /\ stack'[n].op = "login" => stack'[n].pc \in Later
    BY <1>1, <1>2 DEF Stacked
  <2>4. \A n \in DOMAIN stack' : stack'[n].op = "login" /\ ~stack'[n].relogin => n = Len(stack')
    BY <1>1, <1>2 DEF Stacked
  <2> QED
    BY <2>1, <2>2, <2>3, <2>4 DEF Stacked
<1>4. Logins' = Logins /\ \A n \in Logins : stack'[n] = stack[n]
  BY <1>1, <1>2 DEF Logins
<1>5. LoginPlaces' = LoginPlaces /\ InnerPlace' = InnerPlace
  BY <1>4 DEF LoginPlaces, InnerPlace
<1>6. Shown' = Shown /\ Sent' = Sent
  BY <1>1, <1>2 DEF Shown, Sent, Requests
<1> QED
  BY <1>1, <1>2, <1>3, <1>5, <1>6

LEMMA InnerTop ==
  ASSUME StackOK, stack # <<>>, Top.op = "login"
  PROVE  InnerPlace = {Top.pc} /\ Top.pc \in LoginPlaces
<1>1. DOMAIN stack = 1..Len(stack) /\ 1 \in Logins /\ stack[1] = Top /\ \A n \in Logins : n \in Nat /\ 1 <= n
  BY TopTyping DEF StackOK, Logins
<1> QED
  BY <1>1 DEF InnerPlace, LoginPlaces

LEMMA InnerSecond ==
  ASSUME StackOK, stack # <<>>, Top.op # "login", Len(stack) >= 2, stack[2].op = "login"
  PROVE  InnerPlace = {stack[2].pc} /\ stack[2].pc \in LoginPlaces
<1>1. /\ DOMAIN stack = 1..Len(stack) /\ 2 \in Logins /\ 1 \notin Logins
      /\ \A n \in Logins : n \in Nat /\ 2 <= n
  BY TopTyping DEF StackOK, Logins
<1> QED
  BY <1>1 DEF InnerPlace, LoginPlaces

LEMMA MovedFields ==
  ASSUME NEW f \in Frame, NEW place \in Places(f.op)
  PROVE  LET t == [f EXCEPT !.pc = place]
         IN /\ t \in Frame /\ t.op = f.op /\ t.pc = place
            /\ f.op = "login" => t.relogin = f.relogin
            /\ f.op = "request" => t.call = f.call /\ t.auth = f.auth
<1>1. CASE f \in LoginFrame
  BY <1>1, MovedTyping DEF LoginFrame
<1>2. CASE f \in RequestFrame
  BY <1>2, MovedTyping DEF RequestFrame
<1>3. CASE f \in ChallengeFrame \cup CallFrame \cup SessionidFrame
  BY <1>3, MovedTyping DEF ChallengeFrame, CallFrame, SessionidFrame
<1> QED
  BY <1>1, <1>2, <1>3 DEF Frame

\* A call: f on top of the frame that made it, which goes on at place.
LEMMA PushFacts ==
  ASSUME StackOK, stack # <<>>, NEW f \in Frame, NEW place \in Places(Top.op), Call(place, f)
  PROVE  \E t \in Frame :
           /\ t = [Top EXCEPT !.pc = place]
           /\ t.op = Top.op /\ t.pc = place
           /\ Top.op = "login" => t.relogin = Top.relogin
           /\ Top.op = "request" => t.call = Top.call /\ t.auth = Top.auth
           /\ stack' \in Seq(Frame) /\ Len(stack) \in Nat /\ Len(stack) >= 1 /\ Len(stack') = Len(stack) + 1
           /\ DOMAIN stack = 1..Len(stack) /\ DOMAIN stack' = 1..(Len(stack) + 1) /\ stack' # <<>>
           /\ stack[1] = Top /\ stack'[1] = f /\ Top' = f /\ stack'[2] = t
           /\ \A n \in 3..(Len(stack) + 1) : stack'[n] = stack[n - 1] /\ n - 1 \in DOMAIN stack /\ n - 1 >= 2
           /\ \A n \in 2..Len(stack) : stack'[n + 1] = stack[n] /\ n + 1 \in DOMAIN stack'
<1> DEFINE t == [Top EXCEPT !.pc = place]
<1>1. /\ t \in Frame /\ t.op = Top.op /\ t.pc = place /\ Top \in Frame /\ stack[1] = Top
      /\ Top.op = "login" => t.relogin = Top.relogin
      /\ Top.op = "request" => t.call = Top.call /\ t.auth = Top.auth
  BY TopTyping, MovedFields
<1>2. stack' = <<f, t>> \o Tail(stack)
  BY DEF Call
<1>3. t = [Top EXCEPT !.pc = place]
  OBVIOUS
<1> HIDE DEF t
<1>4. /\ stack' \in Seq(Frame) /\ Len(stack) \in Nat /\ Len(stack) >= 1 /\ Len(stack') = Len(stack) + 1
      /\ DOMAIN stack = 1..Len(stack) /\ DOMAIN stack' = 1..(Len(stack) + 1) /\ stack' # <<>>
      /\ stack'[1] = f /\ stack'[2] = t
      /\ \A n \in 3..(Len(stack) + 1) : stack'[n] = stack[n - 1] /\ n - 1 \in DOMAIN stack /\ n - 1 >= 2
  BY <1>1, <1>2, PushTyping DEF StackOK
<1>5. \A n \in 2..Len(stack) : stack'[n + 1] = stack[n] /\ n + 1 \in DOMAIN stack'
  <2> SUFFICES ASSUME NEW n \in 2..Len(stack) PROVE stack'[n + 1] = stack[n] /\ n + 1 \in DOMAIN stack'
    OBVIOUS
  <2>1. n + 1 \in 3..(Len(stack) + 1) /\ n + 1 - 1 = n
    BY <1>4
  <2> QED
    BY <1>4, <2>1
<1>6. Top' = f
  BY <1>4 DEF Top
<1> QED
  BY <1>1, <1>3, <1>4, <1>5, <1>6

LEMMA PushCalled ==
  ASSUME StackOK, Stacked, stack # <<>>, NEW f \in Frame, NEW place \in Places(Top.op), Call(place, f),
         CalledBy(f, [Top EXCEPT !.pc = place])
  PROVE  /\ \A n \in 1..(Len(stack') - 1) : CalledBy(stack'[n], stack'[n + 1])
         /\ stack'[Len(stack')].op \notin {"request", "challenge"}
<1> PICK t \in Frame :
           /\ t = [Top EXCEPT !.pc = place]
           /\ t.op = Top.op
           /\ Top.op = "request" => t.call = Top.call
           /\ Len(stack) \in Nat /\ Len(stack) >= 1 /\ Len(stack') = Len(stack) + 1
           /\ DOMAIN stack = 1..Len(stack)
           /\ stack[1] = Top /\ stack'[1] = f /\ stack'[2] = t
           /\ \A n \in 3..(Len(stack) + 1) : stack'[n] = stack[n - 1] /\ n - 1 \in DOMAIN stack /\ n - 1 >= 2
  BY PushFacts
<1>1. ASSUME NEW n \in 1..Len(stack) PROVE CalledBy(stack'[n], stack'[n + 1])
  <2>1. CASE n = 1
    BY <2>1
  <2>2. CASE n = 2
    <3>1. 1 \in 1..(Len(stack) - 1) /\ 3 \in 3..(Len(stack) + 1) /\ 1 + 1 = 2 /\ 3 - 1 = 2 /\ n + 1 = 3
      BY <2>2
    <3>2. CalledBy(Top, stack[2])
      BY <3>1 DEF Stacked
    <3>3. stack'[n] = t /\ stack'[n + 1] = stack[2]
      BY <2>2, <3>1
    <3> QED
      BY <3>2, <3>3 DEF CalledBy
  <2>3. CASE n >= 3
    <3>1. n - 1 \in 1..(Len(stack) - 1) /\ n \in 3..(Len(stack) + 1) /\ n + 1 \in 3..(Len(stack) + 1)
          /\ n + 1 - 1 = n /\ n - 1 + 1 = n
      BY <2>3
    <3>2. CalledBy(stack[n - 1], stack[n]) /\ stack'[n] = stack[n - 1] /\ stack'[n + 1] = stack[n]
      BY <3>1 DEF Stacked
    <3> QED
      BY <3>2
  <2> QED
    BY <2>1, <2>2, <2>3
<1>2. stack'[Len(stack) + 1].op \notin {"request", "challenge"}
  <2>1. CASE Len(stack) = 1
    <3>1. Top.op \notin {"request", "challenge"} /\ stack'[Len(stack) + 1] = t
      BY <2>1 DEF Stacked
    <3> QED
      BY <3>1
  <2>2. CASE Len(stack) >= 2
    <3>1. Len(stack) + 1 \in 3..(Len(stack) + 1) /\ Len(stack) + 1 - 1 = Len(stack)
      BY <2>2
    <3>2. stack'[Len(stack) + 1] = stack[Len(stack)]
      BY <3>1
    <3> QED
      BY <3>2 DEF Stacked
  <2> QED
    BY <2>1, <2>2
<1> QED
  BY <1>1, <1>2

\* A request, or the resolver of a challenge, is called.
LEMMA PushShape ==
  ASSUME StackOK, Stacked, stack # <<>>, NEW f \in Frame, NEW place \in Places(Top.op), Call(place, f),
         CalledBy(f, [Top EXCEPT !.pc = place]), f.op \in {"request", "challenge"}
  PROVE  /\ Stacked' /\ Top' = f /\ stack' # <<>>
         /\ Top.op # "login" => LoginPlaces' = LoginPlaces /\ InnerPlace' = InnerPlace
         /\ Top.op = "login" => LoginPlaces' \subseteq LoginPlaces \cup {place} /\ InnerPlace' = {place}
         /\ Shown' \subseteq Shown \cup (IF f.op = "request" /\ f.call = "validate" THEN {f.auth} ELSE {})
         /\ Sent' \subseteq Sent \cup (IF f.op = "request" /\ f.call \in {"tray", "timeline"} THEN {f.auth} ELSE {})
         /\ {n \in DOMAIN stack : stack[n].op \in Bottom} = {} =>
              {n \in DOMAIN stack' : stack'[n].op \in Bottom} = {}
<1> PICK t \in Frame :
           /\ t.op = Top.op /\ t.pc = place
           /\ Top.op = "login" => t.relogin = Top.relogin
           /\ Top.op = "request" => t.call = Top.call /\ t.auth = Top.auth
           /\ stack' \in Seq(Frame) /\ Len(stack) \in Nat /\ Len(stack) >= 1 /\ Len(stack') = Len(stack) + 1
           /\ DOMAIN stack = 1..Len(stack) /\ DOMAIN stack' = 1..(Len(stack) + 1) /\ stack' # <<>>
           /\ stack[1] = Top /\ stack'[1] = f /\ Top' = f /\ stack'[2] = t
           /\ \A n \in 3..(Len(stack) + 1) : stack'[n] = stack[n - 1] /\ n - 1 \in DOMAIN stack /\ n - 1 >= 2
           /\ \A n \in 2..Len(stack) : stack'[n + 1] = stack[n] /\ n + 1 \in DOMAIN stack'
  BY PushFacts
<1>1. \A n \in DOMAIN stack' : stack'[n].op = "login" =>
        /\ n >= 2 /\ n - 1 \in DOMAIN stack /\ stack[n - 1].op = "login"
        /\ stack'[n].relogin = stack[n - 1].relogin
        /\ stack'[n].pc = IF n = 2 THEN place ELSE stack[n - 1].pc
  OBVIOUS
<1>2. Stacked'
  <2>1. \A m, n \in DOMAIN stack' :
          m < n /\ stack'[m].op = "login" /\ stack'[n].op = "login" => stack'[n].pc \in Later
    <3> SUFFICES ASSUME NEW m \in DOMAIN stack', NEW n \in DOMAIN stack', m < n,
                        stack'[m].op = "login", stack'[n].op = "login"
                 PROVE  stack'[n].pc \in Later
      OBVIOUS
    <3>1. m - 1 \in DOMAIN stack /\ n - 1 \in DOMAIN stack /\ m - 1 < n - 1 /\ n # 2
          /\ stack[m - 1].op = "login" /\ stack[n - 1].op = "login" /\ stack'[n].pc = stack[n - 1].pc
      BY <1>1
    <3> QED
      BY <3>1 DEF Stacked
  <2>2. \A n \in DOMAIN stack' : stack'[n].op = "login" /\ ~stack'[n].relogin => n = Len(stack')
    <3> SUFFICES ASSUME NEW n \in DOMAIN stack', stack'[n].op = "login", ~stack'[n].relogin
                 PROVE  n = Len(stack')
      OBVIOUS
    <3>1. n - 1 = Len(stack)
      BY <1>1 DEF Stacked
    <3> QED
      BY <3>1
  <2> QED
    BY <2>1, <2>2, PushCalled DEF Stacked
<1>3. ASSUME Top.op # "login"
      PROVE  LoginPlaces' = LoginPlaces /\ InnerPlace' = InnerPlace
  <2>1. \A n \in Logins' : n \in Nat /\ n - 1 \in Logins /\ n - 1 \in Nat /\ n - 1 + 1 = n /\ stack'[n].pc = stack[n - 1].pc
    <3> SUFFICES ASSUME NEW n \in DOMAIN stack', stack'[n].op = "login"
                 PROVE  /\ n - 1 \in DOMAIN stack /\ stack[n - 1].op = "login" /\ n \in Nat
                        /\ n - 1 \in Nat /\ n - 1 + 1 = n /\ stack'[n].pc = stack[n - 1].pc
      BY DEF Logins
    <3>1. n # 2
      BY <1>3
    <3> QED
      BY <1>1, <3>1
  <2>2. \A n \in Logins : n \in Nat /\ n + 1 \in Logins' /\ stack'[n + 1].pc = stack[n].pc
    BY <1>3 DEF Logins
  <2> HIDE DEF Logins
  <2>3. LoginPlaces' = LoginPlaces
    BY <2>1, <2>2 DEF LoginPlaces
  <2>4. \A n \in Logins : (\A k \in Logins : n <= k) <=> (\A k \in Logins' : n + 1 <= k)
    BY <2>1, <2>2
  <2>5. InnerPlace \subseteq InnerPlace'
    BY <2>2, <2>4 DEF InnerPlace
  <2>6. InnerPlace' \subseteq InnerPlace
    <3> SUFFICES ASSUME NEW n \in Logins', \A k \in Logins' : n <= k
                 PROVE  stack'[n].pc \in InnerPlace
      BY DEF InnerPlace
    <3>1. n - 1 \in Logins /\ n - 1 + 1 = n /\ stack'[n].pc = stack[n - 1].pc
      BY <2>1
    <3>2. \A k \in Logins : n - 1 <= k
      BY <2>4, <3>1
    <3> QED
      BY <3>1, <3>2 DEF InnerPlace
  <2> QED
    BY <2>3, <2>5, <2>6
<1>4. ASSUME Top.op = "login"
      PROVE  LoginPlaces' \subseteq LoginPlaces \cup {place} /\ InnerPlace' = {place}
  <2>1. LoginPlaces' \subseteq LoginPlaces \cup {place}
    BY <1>1 DEF LoginPlaces, Logins
  <2>2. 2 \in Logins' /\ \A n \in Logins' : n \in Nat /\ 2 <= n
    BY <1>1, <1>4 DEF Logins
  <2> QED
    BY <2>1, <2>2 DEF InnerPlace
<1>5. ASSUME NEW n \in DOMAIN stack', stack'[n].op = "request"
      PROVE  n = 1 \/ (n - 1 \in DOMAIN stack /\ stack[n - 1].op = "request"
                       /\ stack'[n].call = stack[n - 1].call /\ stack'[n].auth = stack[n - 1].auth)
  BY <1>5
<1>6. Shown' \subseteq Shown \cup (IF f.op = "request" /\ f.call = "validate" THEN {f.auth} ELSE {})
  BY <1>5 DEF Shown, Requests
<1>7. Sent' \subseteq Sent \cup (IF f.op = "request" /\ f.call \in {"tray", "timeline"} THEN {f.auth} ELSE {})
  <2> SUFFICES ASSUME NEW n \in DOMAIN stack', stack'[n].op = "request",
                      stack'[n].call \in {"tray", "timeline"}
               PROVE  \/ stack'[n].auth \in Sent
                      \/ f.op = "request" /\ f.call \in {"tray", "timeline"} /\ stack'[n].auth = f.auth
    BY DEF Sent, Requests
  <2> QED
    BY <1>5 DEF Sent, Requests
<1>8. \A n \in DOMAIN stack' : stack'[n].op \in Bottom => n - 1 \in DOMAIN stack /\ stack[n - 1].op \in Bottom
  BY DEF Bottom
<1> QED
  BY <1>2, <1>3, <1>4, <1>6, <1>7, <1>8

\* The handler of a request that needs a session calls a login.
LEMMA PushLogin ==
  ASSUME StackOK, Stacked, stack # <<>>, NEW f \in Frame, Call("handled", f),
         f.op = "login", f.pc = "start", f.relogin,
         Top.op = "request", Top.call \notin PreLogin \cup {"take"}
  PROVE  /\ Stacked' /\ Top' = f /\ stack' # <<>>
         /\ LoginPlaces' \subseteq LoginPlaces \cup {"start"} /\ InnerPlace' = {"start"}
         /\ Shown' \subseteq Shown /\ Sent' \subseteq Sent
         /\ {n \in DOMAIN stack : stack[n].op \in Bottom} = {} =>
              {n \in DOMAIN stack' : stack'[n].op \in Bottom} = {}
<1>0. "handled" \in Places(Top.op) /\ CalledBy(f, [Top EXCEPT !.pc = "handled"])
  <2>1. "handled" \in Places(Top.op)
    BY DEF Places
  <2> QED
    BY <2>1, TopTyping, MovedFields DEF CalledBy
<1> PICK t \in Frame :
           /\ t.op = Top.op
           /\ Top.op = "request" => t.call = Top.call /\ t.auth = Top.auth
           /\ stack' \in Seq(Frame) /\ Len(stack) \in Nat /\ Len(stack) >= 1 /\ Len(stack') = Len(stack) + 1
           /\ DOMAIN stack = 1..Len(stack) /\ DOMAIN stack' = 1..(Len(stack) + 1) /\ stack' # <<>>
           /\ stack[1] = Top /\ stack'[1] = f /\ Top' = f /\ stack'[2] = t
           /\ \A n \in 3..(Len(stack) + 1) : stack'[n] = stack[n - 1] /\ n - 1 \in DOMAIN stack /\ n - 1 >= 2
  BY <1>0, PushFacts
<1>1. \A n \in DOMAIN stack : stack[n].op = "login" => stack[n].pc \in Later
  <2> SUFFICES ASSUME NEW n \in DOMAIN stack, stack[n].op = "login" PROVE stack[n].pc \in Later
    OBVIOUS
  <2>1. n >= 2 /\ 2 \in DOMAIN stack /\ CalledBy(stack[1], stack[2])
    BY DEF Stacked
  <2>2. CASE Top.call \in Later
    <3>1. stack[2].op = "login" /\ stack[2].pc \in Later
      BY <2>1, <2>2 DEF CalledBy, Waits, Later
    <3>2. \A k \in DOMAIN stack : 2 < k /\ stack[k].op = "login" => stack[k].pc \in Later
      BY <2>1, <3>1 DEF Stacked
    <3> QED
      BY <2>1, <3>1, <3>2
  <2>3. CASE Top.call \notin Later
    <3>1. stack[2].op \in Bottom
      BY <2>1, <2>3 DEF CalledBy
    <3>2. Len(stack) = 2
      BY <2>1, <3>1 DEF StackOK, WellNested
    <3> QED
      BY <2>1, <3>1, <3>2 DEF Bottom
  <2> QED
    BY <2>2, <2>3
<1>2. \A n \in DOMAIN stack' : stack'[n].op = "login" =>
        n = 1 \/ (/\ n - 1 \in DOMAIN stack /\ stack[n - 1].op = "login" /\ n >= 3 /\ stack'[n] = stack[n - 1])
  OBVIOUS
<1>3. Stacked'
  <2>1. \A m, n \in DOMAIN stack' :
          m < n /\ stack'[m].op = "login" /\ stack'[n].op = "login" => stack'[n].pc \in Later
    BY <1>1, <1>2
  <2>2. \A n \in DOMAIN stack' : stack'[n].op = "login" /\ ~stack'[n].relogin => n = Len(stack')
    <3> SUFFICES ASSUME NEW n \in DOMAIN stack', stack'[n].op = "login", ~stack'[n].relogin
                 PROVE  n = Len(stack')
      OBVIOUS
    <3>1. n - 1 = Len(stack)
      BY <1>2 DEF Stacked
    <3> QED
      BY <3>1
  <2> QED
    BY <1>0, <2>1, <2>2, PushCalled DEF Stacked
<1>4. LoginPlaces' \subseteq LoginPlaces \cup {"start"}
  BY <1>2 DEF LoginPlaces, Logins
<1>5. InnerPlace' = {"start"}
  <2>1. 1 \in Logins' /\ \A n \in Logins' : n \in Nat /\ 1 <= n
    BY DEF Logins
  <2> QED
    BY <2>1 DEF InnerPlace
<1>6. ASSUME NEW n \in DOMAIN stack', stack'[n].op = "request"
      PROVE  n - 1 \in DOMAIN stack /\ stack[n - 1].op = "request"
             /\ stack'[n].call = stack[n - 1].call /\ stack'[n].auth = stack[n - 1].auth
  BY <1>6
<1>7. Shown' \subseteq Shown /\ Sent' \subseteq Sent
  BY <1>6 DEF Shown, Sent, Requests
<1>8. \A n \in DOMAIN stack' : stack'[n].op \in Bottom => n - 1 \in DOMAIN stack /\ stack[n - 1].op \in Bottom
  BY DEF Bottom
<1> QED
  BY <1>3, <1>4, <1>5, <1>7, <1>8

-------------------------------------------------------------------------------
(* What a login knows of its session.                                        *)

\* A session the server has issued, and had not refused when the login was called.
Sound(t) == t # NoSession /\ t[2] \in DOMAIN owner \ refused
HasSession == UserId # NoSession /\ (IF auth # NoSession THEN auth ELSE cookie)[2] \notin refused

\* The server has ended a session since.
SessionLost == \E s \in Refused : s \notin refused
RefusedStays == refused \subseteq DOMAIN owner \ live
Bottomless == {n \in DOMAIN stack : stack[n].op \in Bottom} = {}

\* The handler is given what was raised, and LoginRequired only of a request that
\* needs a session.
Handling ==
  At("request", "handle") =>
    /\ ret \notin {"none", "ok"}
    /\ ret = "login_required" => Top.call \notin PreLogin \cup {"take"}

\* A client without authorization_data has no header either; a login that asks for a
\* session has none.
Cleared ==
  /\ header # NoSession => auth # NoSession
  /\ InnerPlace \cap Early # {} => auth = NoSession

\* From the first request of a login on, every token is one of this call, and cookies
\* and authorization_data go together if the server sends cookies.
Clean ==
  /\ \A t \in {auth, header, cookie} : t = NoSession \/ Sound(t)
  /\ cookie # NoSession => setsCookies
  /\ auth # NoSession /\ setsCookies => cookie # NoSession
Renewed == LoginPlaces \cap (Early \cup {"tray", "timeline"}) # {} => Clean
Carriers == \A t \in Sent : Sound(t) \/ (t = NoSession /\ setsCookies)

\* An exception passes through the logins, out of one called by the handler.
Unwinding ==
  /\ stack # <<>> /\ ret \notin {"none", "ok"}
  /\ \/ Top.op = "login"
     \/ Top.op = "request" /\ Top.pc = "handled" /\ Top.call \notin PreLogin \cup {"take"}

GrantSound == granted # NoSession => Sound(granted) /\ (setsCookies => cookie # NoSession)
AboutToAsk == At("request", "send") /\ ret = "none"

\* What the innermost login has, by the request it waits for: what an answer grants is
\* a session of this call; there is a session; there is one to be validated.
Claims ==
  /\ InnerPlace \cap Early # {} => GrantSound \/ AboutToAsk
  /\ InnerPlace \cap {"tray", "timeline"} # {} => HasSession \/ Unwinding
  /\ "validate" \in InnerPlace =>
       HasSession \/ Unwinding \/ (UserId # NoSession /\ Shown \subseteq {auth})

Answered ==
  /\ (At("login", "ask") \/ At("login", "two")) /\ ret = "ok" => granted # NoSession \/ cookie # NoSession
  /\ At("login", "validate") /\ ret = "ok" => HasSession
  /\ stack = <<>> /\ ret = "ok" => HasSession

\* LoginRequired comes from a session that has ended, or from the validation of one,
\* where a relogin follows.
Rejected ==
  ret = "login_required" =>
    SessionLost \/ (At("request", "handle") /\ Top.call = "validate") \/ At("login", "validate")

Serving == RefusedStays /\ Bottomless /\ Renewed /\ Carriers /\ Claims /\ Answered /\ Rejected

LoginInv == Stacked /\ Handling /\ Cleared /\ (op = "login" => Serving)

-------------------------------------------------------------------------------
(* What the steps keep.                                                      *)

Kept ==
  /\ op' = op /\ setsCookies' = setsCookies /\ auth' = auth /\ header' = header
  /\ RefusedStays' /\ DOMAIN owner \subseteq DOMAIN owner' /\ refused' = refused
  /\ Clean => Clean'
  /\ HasSession => HasSession'
  /\ SessionLost => SessionLost'
  /\ UserId # NoSession => (UserId # NoSession)'

LEMMA OwnerDomain ==
  ASSUME ServerOK
  PROVE  DOMAIN owner = 1..Len(owner) /\ Len(owner) \in Nat
BY DEF ServerOK

LEMMA QuietKept ==
  ASSUME RefusedStays, UNCHANGED <<op, refused, setsCookies, server, cookie, auth, header>>
  PROVE  /\ Kept
         /\ GrantSound /\ granted' = granted => GrantSound'
         /\ granted' = NoSession => GrantSound'
<1>1. owner' = owner /\ live' = live
  BY DEF server
<1>2. RefusedStays' /\ (SessionLost => SessionLost')
  BY <1>1 DEF RefusedStays, SessionLost, Refused
<1>3. (Clean => Clean') /\ (HasSession => HasSession') /\ (UserId # NoSession => (UserId # NoSession)')
  BY <1>1 DEF Clean, Sound, HasSession, UserId
<1> QED
  BY <1>1, <1>2, <1>3 DEF Kept, GrantSound, Sound

LEMMA RevokeKept ==
  ASSUME RefusedStays, UNCHANGED <<op, refused, setsCookies, owner, cookie, auth, header>>,
         live' \subseteq live
  PROVE  Kept /\ (granted' = granted => GrantSound' = GrantSound) /\ (granted' = NoSession => GrantSound')
<1>1. RefusedStays' /\ (SessionLost => SessionLost')
  BY DEF RefusedStays, SessionLost, Refused
<1>2. (Clean => Clean') /\ (HasSession => HasSession') /\ (UserId # NoSession => (UserId # NoSession)')
  BY DEF Clean, Sound, HasSession, UserId
<1> QED
  BY <1>1, <1>2 DEF Kept, GrantSound, Sound

\* A session the server opens is one of this call.
LEMMA GrantsSound ==
  ASSUME SessionInv, RefusedStays, refused' = refused, NEW s \in Credential, Grants(s)
  PROVE  /\ s # NoSession /\ s[2] \in DOMAIN owner' \ refused
         /\ DOMAIN owner \subseteq DOMAIN owner' /\ RefusedStays' /\ (SessionLost => SessionLost')
<1>1. ServerOK /\ username \in Accounts
  BY InvTyping DEF InvParts, ProgramOK
<1>2. DOMAIN owner = 1..Len(owner) /\ Len(owner) \in Nat
  BY <1>1, OwnerDomain
<1>3. /\ DOMAIN owner' = 1..(Len(owner) + 1) /\ s[2] = Len(owner) + 1 /\ live' = live \cup {s[2]}
      /\ s = <<username, Len(owner) + 1>>
  BY <1>1 DEF Grants, ServerOK
<1>4. s # NoSession
  BY <1>1, <1>2, <1>3, SessionAssumption
<1>5. s[2] \notin refused /\ s[2] \notin DOMAIN owner
  BY <1>2, <1>3 DEF RefusedStays
<1>6. DOMAIN owner \subseteq DOMAIN owner'
  BY <1>2, <1>3
<1>7. RefusedStays' /\ (SessionLost => SessionLost')
  BY <1>3, <1>5, <1>6 DEF RefusedStays, SessionLost, Refused
<1> QED
  BY <1>2, <1>3, <1>4, <1>5, <1>6, <1>7

LEMMA OpensKept ==
  ASSUME SessionInv, RefusedStays, UNCHANGED <<op, refused, setsCookies, auth, header>>, Opens
  PROVE  Kept /\ GrantSound' /\ granted' # NoSession
<1>1. PICK s \in Credential : Grants(s) /\ granted' = s /\ cookie' = IF setsCookies THEN s ELSE cookie
  BY DEF Opens
<1>2. /\ s # NoSession /\ s[2] \in DOMAIN owner' \ refused
      /\ DOMAIN owner \subseteq DOMAIN owner' /\ RefusedStays' /\ (SessionLost => SessionLost')
  BY <1>1, GrantsSound
<1>3. \A t \in {auth, header, cookie} : t = NoSession \/ Sound(t) => t = NoSession \/ t[2] \in DOMAIN owner' \ refused
  BY <1>2 DEF Sound
<1>4. Clean => Clean'
  BY <1>1, <1>2, <1>3 DEF Clean, Sound
<1>5. HasSession => HasSession'
  BY <1>1, <1>2 DEF HasSession, UserId
<1>6. UserId # NoSession => (UserId # NoSession)'
  BY <1>1, <1>2 DEF UserId
<1> QED
  BY <1>1, <1>2, <1>4, <1>5, <1>6 DEF Kept, GrantSound, Sound

LEMMA CarriersKept ==
  ASSUME Carriers, refused' = refused, setsCookies' = setsCookies, DOMAIN owner \subseteq DOMAIN owner',
         \A t \in Sent' : t \in Sent \/ Sound(t)' \/ (t = NoSession /\ setsCookies)
  PROVE  Carriers'
BY DEF Carriers, Sound

\* A step that moves no login.
LEMMA Stays ==
  ASSUME Serving, Kept, Bottomless', LoginPlaces' \subseteq LoginPlaces, InnerPlace' = InnerPlace,
         Shown' \subseteq Shown, Sent' \subseteq Sent, Unwinding => Unwinding',
         InnerPlace \cap Early # {} => (GrantSound \/ AboutToAsk => GrantSound' \/ AboutToAsk'),
         Answered', Rejected'
  PROVE  Serving'
<1>1. RefusedStays' /\ setsCookies' = setsCookies /\ auth' = auth
  BY DEF Kept
<1>2. Renewed'
  BY DEF Serving, Renewed, Kept
<1>3. Carriers'
  BY CarriersKept DEF Serving, Kept
<1>4. Claims'
  <2>1. InnerPlace' \cap Early # {} => GrantSound' \/ AboutToAsk'
    BY DEF Serving, Claims
  <2>2. InnerPlace' \cap {"tray", "timeline"} # {} => HasSession' \/ Unwinding'
    BY DEF Serving, Claims, Kept
  <2>3. "validate" \in InnerPlace' =>
          HasSession' \/ Unwinding' \/ ((UserId # NoSession)' /\ Shown' \subseteq {auth'})
    BY <1>1 DEF Serving, Claims, Kept
  <2> QED
    BY <2>1, <2>2, <2>3 DEF Claims
<1> QED
  BY <1>1, <1>2, <1>3, <1>4 DEF Serving

\* A call returns, or raises: its caller does not stand where a handler is to be asked,
\* nor where a request is sent.
LEMMA Popped ==
  ASSUME SessionInv, LoginInv, stack # <<>>, NEW r, Return(r),
         UNCHANGED <<auth, header>> \/ ClearSession
  PROVE  Stacked' /\ Handling' /\ Cleared' /\ ~AboutToAsk'
<1>1. StackOK /\ Stacked
  BY InvTyping DEF InvParts, LoginInv
<1>2. /\ Stacked'
      /\ Top.op # "login" => InnerPlace' = InnerPlace
      /\ Top.op = "login" => InnerPlace' \subseteq Later
      /\ stack' # <<>> => CalledBy(Top, Top')
  BY <1>1, PopShape
<1>3. stack' # <<>> => Top'.op # "request" \/ Top'.pc = "handled"
  <2> SUFFICES ASSUME stack' # <<>>, Top'.op = "request" PROVE Top'.pc = "handled"
    OBVIOUS
  <2>1. CalledBy(Top, Top')
    BY <1>2
  <2>2. Top.op \notin Bottom
    <3>1. Len(stack) # 1
      BY <1>1 DEF Return, StackOK
    <3>2. 1 \in DOMAIN stack /\ stack[1] = Top
      BY <1>1, TopTyping DEF StackOK
    <3> QED
      BY <1>1, <3>1, <3>2 DEF StackOK, WellNested
  <2>3. Top.op \in {"request", "login", "challenge"}
    BY <1>1, <2>2, TopTyping DEF Frame, RequestFrame, LoginFrame, ChallengeFrame, CallFrame, SessionidFrame, Bottom
  <2>4. Top.op # "request"
    BY <2>1 DEF CalledBy, Bottom
  <2> QED
    BY <2>1, <2>3, <2>4 DEF CalledBy
<1>4. Handling' /\ ~AboutToAsk'
  BY <1>3 DEF Handling, AboutToAsk, At
<1>5. Cleared'
  <2>1. Later \cap Early = {}
    BY DEF Later, Early
  <2> QED
    BY <1>2, <2>1 DEF LoginInv, Cleared, ClearSession
<1> QED
  BY <1>2, <1>4, <1>5

\* A login returns with a session, or raises.
LEMMA PopLogin ==
  ASSUME SessionInv, LoginInv, stack # <<>>, NEW r \in Results \ {"none"}, Return(r), op = "login",
         Top.op = "login", RefusedStays', Renewed', Carriers',
         r = "ok" => HasSession', r = "login_required" => SessionLost'
  PROVE  Serving'
<1>1. StackOK /\ Stacked
  BY InvTyping DEF InvParts, LoginInv
<1>2. /\ InnerPlace' \subseteq Later
      /\ stack' # <<>> => CalledBy(Top, Top')
      /\ stack' = <<>> => InnerPlace' = {}
      /\ Bottomless => Bottomless'
      /\ ret' = r
  BY <1>1, PopShape DEF Bottomless, Return
<1>3. Bottomless'
  BY <1>2 DEF LoginInv, Serving
<1>4. r # "ok" /\ stack' # <<>> => Unwinding'
  BY <1>2 DEF CalledBy, Unwinding
<1>5. Claims'
  <2>1. Later \cap Early = {}
    BY DEF Later, Early
  <2>2. InnerPlace' # {} => HasSession' \/ Unwinding'
    BY <1>2, <1>4
  <2> QED
    BY <1>2, <2>1, <2>2 DEF Claims
<1>6. Answered'
  BY <1>2 DEF Answered, At, CalledBy
<1>7. Rejected'
  BY <1>2 DEF Rejected
<1> QED
  BY <1>3, <1>5, <1>6, <1>7 DEF Serving

\* A request, or the resolver of a challenge, returns or raises.
LEMMA PopOther ==
  ASSUME SessionInv, LoginInv, stack # <<>>, NEW r, Return(r), op = "login",
         Top.op \in {"request", "challenge"}, Kept, Unwinding => Unwinding',
         InnerPlace \cap Early # {} => (GrantSound \/ AboutToAsk => GrantSound' \/ AboutToAsk'),
         Answered', Rejected'
  PROVE  Serving'
<1>1. StackOK /\ Stacked /\ Serving
  BY InvTyping DEF InvParts, LoginInv
<1>2. /\ LoginPlaces' \subseteq LoginPlaces /\ Shown' \subseteq Shown /\ Sent' \subseteq Sent
      /\ InnerPlace' = InnerPlace
      /\ Bottomless => Bottomless'
  BY <1>1, PopShape DEF Bottomless
<1> QED
  BY <1>1, <1>2, Stays DEF Serving

LEMMA LoginFacts ==
  ASSUME SessionInv, LoginInv, NEW o, NEW place, At(o, place)
  PROVE  /\ StackOK /\ Stacked /\ stack # <<>> /\ Top.op = o /\ Top.pc = place /\ Top \in Frame
         /\ ret \in Results /\ Handling /\ Cleared
         /\ o # "request" \/ place # "send" => ~AboutToAsk
         /\ o \in {"request", "challenge"} /\ place # "handled" => ~Unwinding
         /\ o = "challenge" => ~Unwinding
BY AtFacts DEF LoginInv, At, AboutToAsk, Unwinding, StackOK

\* Whom a request returns to.
LEMMA Caller ==
  ASSUME StackOK, Stacked, stack # <<>>, Top.op = "request"
  PROVE  /\ Len(stack) >= 2 /\ CalledBy(Top, stack[2])
         /\ Bottomless => Top.call \in PreLogin \cup Later \cup {"take"}
         /\ Top.call \in PreLogin \cup Later => stack[2].op = "login"
         /\ stack[2].op = "login" =>
              /\ Top.call \in PreLogin \cup Later /\ stack[2].pc = Waits(Top.call)
              /\ InnerPlace = {stack[2].pc} /\ stack[2].pc \in LoginPlaces
         /\ \A r : Return(r) => stack' # <<>> /\ Top' = stack[2] /\ ret' = r
<1>1. Len(stack) \in Nat /\ 1 \in DOMAIN stack /\ DOMAIN stack = 1..Len(stack) /\ stack[1] = Top
  BY TopTyping DEF StackOK
<1>2. Len(stack) >= 2
  BY <1>1 DEF Stacked
<1>3. CalledBy(Top, stack[2]) /\ 2 \in DOMAIN stack
  BY <1>1, <1>2 DEF Stacked
<1>4. Bottomless => Top.call \in PreLogin \cup Later \cup {"take"}
  BY <1>3 DEF Bottomless, CalledBy
<1>5. Top.call \in PreLogin \cup Later => stack[2].op = "login"
  BY <1>3 DEF CalledBy
<1>6. stack[2].op = "login" => Top.call \in PreLogin \cup Later /\ stack[2].pc = Waits(Top.call)
  BY <1>3 DEF CalledBy, Bottom
<1>7. stack[2].op = "login" => InnerPlace = {stack[2].pc} /\ stack[2].pc \in LoginPlaces
  BY <1>2, InnerSecond
<1>8. \A r : Return(r) => stack' # <<>> /\ Top' = stack[2] /\ ret' = r
  <2> SUFFICES ASSUME NEW r, Return(r) PROVE stack' # <<>> /\ Top' = stack[2] /\ ret' = r
    OBVIOUS
  <2>1. stack' = Tail(stack) /\ stack \in Seq(Frame) /\ ret' = r
    BY DEF Return, StackOK
  <2>2. stack' \in Seq(Frame) /\ DOMAIN stack' = 1..(Len(stack) - 1) /\ stack'[1] = stack[2]
    BY <1>2, <2>1, PopTyping
  <2> QED
    BY <1>1, <1>2, <2>1, <2>2 DEF Top
<1> QED
  BY <1>2, <1>3, <1>4, <1>5, <1>6, <1>7, <1>8

\* The frame on top, a request or the resolver, moves.
LEMMA MovedOther ==
  ASSUME SessionInv, LoginInv, stack # <<>>, Top.op \in {"request", "challenge"}, ~Unwinding,
         NEW t \in Frame, stack' = [stack EXCEPT ![1] = t], t.op = Top.op,
         t.op = "request" => t.call = Top.call /\ t.auth = Top.auth,
         UNCHANGED <<inputs, server, program, tokens>>,
         granted' = NoSession \/ (granted' = granted /\ ~AboutToAsk),
         Handling', op = "login" => Rejected'
  PROVE  LoginInv'
<1>1. StackOK /\ Stacked /\ UNCHANGED <<op, refused, setsCookies, server, cookie, auth, header>>
  BY InvTyping DEF InvParts, LoginInv, inputs, program, tokens
<1>2. /\ Stacked' /\ LoginPlaces' = LoginPlaces /\ InnerPlace' = InnerPlace /\ Shown' = Shown /\ Sent' = Sent
      /\ Top' = t /\ (Bottomless => Bottomless') /\ stack' # <<>>
  <2>1. Top.op # "login" /\ stack' # <<>>
    BY <1>1 DEF StackOK
  <2> QED
    BY <1>1, <2>1, MoveShape DEF Bottomless
<1>3. Cleared'
  BY <1>1, <1>2 DEF LoginInv, Cleared
<1>4. ASSUME op = "login" PROVE Serving'
  <2>1. Kept /\ (GrantSound \/ AboutToAsk => GrantSound')
    BY <1>1, <1>4, QuietKept DEF LoginInv, Serving
  <2>2. Answered'
    BY <1>2 DEF Answered, At
  <2> QED
    BY <1>2, <1>4, <2>1, <2>2, Stays DEF LoginInv, Serving
<1> QED
  BY <1>1, <1>2, <1>3, <1>4 DEF LoginInv

\* A request or the resolver calls: the resolver, or the request that takes a challenge.
LEMMA PushedOther ==
  ASSUME SessionInv, LoginInv, stack # <<>>, Top.op \in {"request", "challenge"}, ~Unwinding, ~AboutToAsk,
         NEW f \in Frame, NEW place \in Places(Top.op), Call(place, f), CalledBy(f, [Top EXCEPT !.pc = place]),
         f.op = "challenge" \/ (f.op = "request" /\ f.call = "take" /\ f.pc = "send"),
         UNCHANGED <<inputs, server, program, tokens>>,
         granted' \in {granted, NoSession}
  PROVE  LoginInv'
<1>1. StackOK /\ Stacked /\ UNCHANGED <<op, refused, setsCookies, server, cookie, auth, header>>
  BY InvTyping DEF InvParts, LoginInv, inputs, program, tokens
<1>2. /\ Stacked' /\ LoginPlaces' = LoginPlaces /\ InnerPlace' = InnerPlace
      /\ Shown' \subseteq Shown /\ Sent' \subseteq Sent
      /\ Top' = f /\ (Bottomless => Bottomless') /\ stack' # <<>> /\ ret' = "none"
  BY <1>1, PushShape DEF Bottomless, Call
<1>3. Cleared' /\ Handling'
  BY <1>1, <1>2 DEF LoginInv, Cleared, Handling, At
<1>4. ASSUME op = "login" PROVE Serving'
  <2>1. Kept /\ (GrantSound \/ AboutToAsk => GrantSound')
    BY <1>1, <1>4, QuietKept DEF LoginInv, Serving
  <2>2. Answered' /\ Rejected'
    BY <1>2 DEF Answered, Rejected, At
  <2> QED
    BY <1>2, <1>4, <2>1, <2>2, Stays DEF LoginInv, Serving
<1> QED
  BY <1>1, <1>2, <1>3, <1>4 DEF LoginInv

\* A request or the resolver returns.
LEMMA PoppedOther ==
  ASSUME SessionInv, LoginInv, stack # <<>>, Top.op \in {"request", "challenge"},
         NEW r, Return(r), UNCHANGED <<inputs, program, auth, header>>,
         op = "login" => Kept /\ (Unwinding => Unwinding') /\ Answered' /\ Rejected'
                         /\ (GrantSound' \/ ((GrantSound => GrantSound') /\ ~AboutToAsk))
  PROVE  LoginInv'
<1>1. Stacked' /\ Handling' /\ Cleared' /\ op' = op
  BY Popped DEF program
<1>2. ASSUME op = "login" PROVE Serving'
  BY <1>2, PopOther
<1> QED
  BY <1>1, <1>2 DEF LoginInv

-------------------------------------------------------------------------------
(* private_request, in a login.                                              *)

\* A request of a login that needs a session fails for want of one only where the
\* server has ended it, or to have the session validated.
LEMMA RefusedWhy ==
  ASSUME SessionInv, LoginInv, op = "login", stack # <<>>, Top.op = "request", ~Unwinding,
         ~Accepted(Top.call)
  PROVE  SessionLost \/ Top.call = "validate"
<1>1. StackOK /\ Stacked /\ Serving
  BY InvTyping DEF InvParts, LoginInv
<1>2. Top.call \in Later /\ stack[2].op = "login"
  BY <1>1, Caller DEF Serving, Accepted
<1>3. SUFFICES ASSUME Top.call # "validate" PROVE SessionLost
  OBVIOUS
<1>4. Top.call \in {"tray", "timeline"} /\ stack[2].pc = Top.call
  BY <1>1, <1>2, <1>3, Caller DEF Later, Waits
<1>5. Clean /\ HasSession
  <2>1. InnerPlace = {Top.call} /\ Top.call \in LoginPlaces
    BY <1>1, <1>2, <1>4, Caller
  <2> QED
    BY <1>1, <1>4, <2>1 DEF Serving, Renewed, Claims
<1>6. Sound(Top.auth) \/ (Top.auth = NoSession /\ setsCookies)
  <2>1. 1 \in DOMAIN stack /\ stack[1] = Top
    BY <1>1, TopTyping DEF StackOK
  <2>2. Top.auth \in Sent
    BY <1>4, <2>1 DEF Sent, Requests
  <2> QED
    BY <1>1, <2>2 DEF Serving, Carriers
<1>7. Sound(Carried)
  <2>1. CASE Top.auth # NoSession
    BY <1>6, <2>1 DEF Carried
  <2>2. CASE Top.auth = NoSession /\ header # NoSession
    BY <1>5, <2>2 DEF Carried, Clean
  <2>3. CASE Top.auth = NoSession /\ header = NoSession
    <3>1. cookie # NoSession
      BY <1>5, <1>6, <2>3 DEF Clean, HasSession, UserId, Sound
    <3> QED
      BY <1>5, <2>3, <3>1 DEF Carried, Clean
  <2> QED
    BY <2>1, <2>2, <2>3
<1>8. Carried[2] \notin live
  BY <1>7 DEF Accepted, Sound
<1> QED
  BY <1>7, <1>8 DEF Sound, SessionLost, Refused

LEMMA SucceedsLogin == SessionInv /\ LoginInv /\ Succeeds => LoginInv'
<1> SUFFICES ASSUME SessionInv, LoginInv, Succeeds PROVE LoginInv'
  OBVIOUS
<1>1. /\ stack # <<>> /\ Top.op = "request" /\ ret = "none" /\ Return("ok") /\ ~Unwinding
      /\ StackOK /\ Stacked /\ Cleared /\ Accepted(Top.call)
  BY LoginFacts DEF Succeeds, Sending, Unwinding
<1>2. UNCHANGED <<inputs, program, auth, header>> /\ UNCHANGED <<op, refused, setsCookies>>
  BY DEF Succeeds, inputs, program
<1>3. SUFFICES ASSUME op = "login" PROVE Kept /\ GrantSound' /\ Answered' /\ Rejected'
  BY <1>1, <1>2, PoppedOther
<1>4. Serving
  BY <1>3 DEF LoginInv
<1>5. /\ Kept /\ GrantSound'
      /\ Top.call \in {"login", "two_factor"} => granted' # NoSession
  <2>1. CASE Opens
    BY <1>2, <1>4, <2>1, OpensKept DEF Serving
  <2>2. CASE /\ Top.call \notin {"login", "two_factor"}
             /\ live' = IF Top.call = "logout" THEN live \ {Carried[2]} ELSE live
             /\ granted' = NoSession /\ UNCHANGED <<cookie, owner, revocations>>
    BY <1>2, <1>4, <2>2, RevokeKept DEF Serving
  <2> QED
    BY <2>1, <2>2 DEF Succeeds
<1>6. stack' # <<>> /\ Top' = stack[2] /\ ret' = "ok"
  BY <1>1, Caller
<1>7. ASSUME stack[2].op = "login", stack[2].pc = "validate" PROVE HasSession
  <2>1. Top.call = "validate" /\ InnerPlace = {"validate"}
    BY <1>1, <1>7, Caller DEF Waits, PreLogin, Later
  <2>2. Top.auth \in Shown
    <3>1. 1 \in DOMAIN stack /\ stack[1] = Top
      BY <1>1, TopTyping DEF StackOK
    <3> QED
      BY <1>1, <2>1, <3>1 DEF Shown, Requests
  <2>3. SUFFICES ASSUME UserId # NoSession, Top.auth = auth PROVE HasSession
    BY <1>1, <1>4, <2>1, <2>2 DEF Serving, Claims
  <2>4. Carried = (IF auth # NoSession THEN auth ELSE cookie) /\ Carried[2] \in live
    BY <1>1, <2>1, <2>3 DEF Cleared, Carried, Accepted, PreLogin
  <2> QED
    BY <1>4, <2>3, <2>4 DEF Serving, RefusedStays, HasSession
<1>8. ASSUME stack[2].op = "login", stack[2].pc \in {"ask", "two"} PROVE granted' # NoSession
  BY <1>1, <1>5, <1>8, Caller DEF Waits, PreLogin, Later
<1>9. Answered'
  BY <1>5, <1>6, <1>7, <1>8 DEF Answered, At, Kept
<1>10. Rejected'
  BY <1>6 DEF Rejected
<1> QED
  BY <1>5, <1>9, <1>10

LEMMA FailsLogin == SessionInv /\ LoginInv /\ Fails => LoginInv'
<1> SUFFICES ASSUME SessionInv, LoginInv, Fails PROVE LoginInv'
  OBVIOUS
<1>1. /\ stack # <<>> /\ Top.op = "request" /\ Top.pc \in {"send", "again"} /\ ret = "none" /\ ~Unwinding
      /\ StackOK /\ Stacked /\ Top \in Frame
  BY LoginFacts DEF Fails, Sending, Unwinding, At
<1>2. PICK e \in IF Accepted(Top.call) THEN Answers(Top.call)
                 ELSE Lost \cup {"login_required", "other"} :
        IF Top.pc = "again" THEN Return(e)
        ELSE IF e \in Lost THEN Goto("again") /\ UNCHANGED ret
        ELSE Goto("handle") /\ ret' = e
  BY DEF Fails
<1>3. e \notin {"none", "ok"} /\ (e = "login_required" => ~Accepted(Top.call))
  BY <1>2 DEF Answers, Lost
<1>4. ~Accepted(Top.call) => Top.call \notin PreLogin \cup {"take"}
  BY DEF Accepted
<1>5. op = "login" /\ e = "login_required" => SessionLost \/ Top.call = "validate"
  BY <1>1, <1>3, RefusedWhy
<1>6. UNCHANGED <<inputs, server, program, tokens>> /\ granted' = NoSession
  BY DEF Fails
<1>7. op = "login" => Kept /\ GrantSound'
  BY <1>6, QuietKept DEF LoginInv, Serving, inputs, program, tokens
<1>8. CASE Top.pc = "again"
  <2>1. Return(e) /\ stack' # <<>> /\ Top' = stack[2] /\ ret' = e
    BY <1>1, <1>2, <1>8, Caller
  <2>2. Answered'
    BY <1>3, <2>1 DEF Answered
  <2>3. op = "login" => Rejected'
    <3>1. op = "login" /\ Top.call = "validate" => At("login", "validate")'
      BY <1>1, <2>1, Caller DEF Later, Waits, At
    <3> QED
      BY <1>5, <1>7, <2>1, <3>1 DEF Rejected, Kept
  <2> QED
    BY <1>1, <1>6, <1>7, <2>1, <2>2, <2>3, PoppedOther DEF tokens
<1>9. CASE Top.pc # "again"
  <2> DEFINE place == IF e \in Lost THEN "again" ELSE "handle"
             t == [Top EXCEPT !.pc = place]
  <2>1. Goto(place) /\ ret' = IF e \in Lost THEN ret ELSE e
    BY <1>2, <1>9
  <2>2. place \in Places(Top.op)
    BY <1>1 DEF Places
  <2>3. t \in Frame /\ t.op = Top.op /\ t.pc = place /\ t.call = Top.call /\ t.auth = Top.auth
    BY <1>1, <2>2, MovedFields
  <2>4. stack' = [stack EXCEPT ![1] = t] /\ Top' = t /\ stack' # <<>>
    <3>1. stack' = [stack EXCEPT ![1] = t]
      BY <1>1, <2>1, TopTyping DEF Goto
    <3> QED
      BY <1>1, <3>1 DEF StackOK, Top
  <2> HIDE DEF t
  <2>5. Handling'
    BY <1>3, <1>4, <2>1, <2>3, <2>4 DEF Handling, At
  <2>6. op = "login" => Rejected'
    BY <1>1, <1>5, <1>7, <2>1, <2>3, <2>4 DEF Rejected, At, Kept
  <2> QED
    BY <1>1, <1>6, <2>3, <2>4, <2>5, <2>6, MovedOther
<1> QED
  BY <1>8, <1>9

LEMMA HandlerLogsInLogin == SessionInv /\ LoginInv /\ HandlerLogsIn => LoginInv'
<1> SUFFICES ASSUME SessionInv, LoginInv, HandlerLogsIn PROVE LoginInv'
  OBVIOUS
<1>1. /\ stack # <<>> /\ Top.op = "request" /\ StackOK /\ Stacked
      /\ Top.call \notin PreLogin \cup {"take"}
  BY LoginFacts DEF HandlerLogsIn, Handling
<1>2. UNCHANGED <<op, refused, setsCookies, server, cookie, auth, header>>
  BY DEF HandlerLogsIn, inputs, program, tokens
<1> DEFINE f == LoginCall(TRUE, FALSE)
<1>3. f \in Frame /\ f.op = "login" /\ f.pc = "start" /\ f.relogin /\ Call("handled", f)
  BY InvTyping, LoginTyping DEF InvParts, LoginCall, HandlerLogsIn
<1> HIDE DEF f
<1>4. /\ Stacked' /\ Top' = f /\ stack' # <<>> /\ ret' = "none"
      /\ LoginPlaces' \subseteq LoginPlaces \cup {"start"} /\ InnerPlace' = {"start"}
      /\ Shown' \subseteq Shown /\ Sent' \subseteq Sent
      /\ Bottomless => Bottomless'
  BY <1>1, <1>3, PushLogin DEF Bottomless, Call
<1>5. "start" \notin Early /\ "start" \notin Later
  BY DEF Early, Later
<1>6. Handling' /\ Cleared'
  BY <1>2, <1>3, <1>4, <1>5 DEF LoginInv, Handling, At, Cleared
<1>7. ASSUME op = "login" PROVE Serving'
  <2>1. Kept /\ Serving
    BY <1>2, <1>7, QuietKept DEF LoginInv, Serving
  <2>2. Renewed'
    BY <1>4, <1>5, <2>1 DEF Serving, Renewed, Kept
  <2>3. Carriers'
    BY <1>4, <2>1, CarriersKept DEF Serving, Kept
  <2>4. Claims' /\ Answered' /\ Rejected'
    BY <1>3, <1>4, <1>5 DEF Claims, Answered, Rejected, At
  <2> QED
    BY <1>4, <2>1, <2>2, <2>3, <2>4 DEF Serving, Kept
<1> QED
  BY <1>2, <1>4, <1>6, <1>7 DEF LoginInv

\* The resolver is called, or Python raises.
LEMMA CallChallengeLogin ==
  ASSUME SessionInv, LoginInv, stack # <<>>, Top.op \in {"request", "challenge"}, ~Unwinding, ~AboutToAsk,
         NEW place \in Places(Top.op), Top.op = "request" => place = "handled",
         NEW l \in BOOLEAN, NEW first \in {"open", "step"}, CallChallenge(place, l, first),
         UNCHANGED <<inputs, server, program, tokens>>, granted' \in {granted, NoSession}
  PROVE  LoginInv'
<1>1. CASE Len(stack) >= MaxDepth
  <2>1. Return("other") /\ ret' = "other"
    BY <1>1 DEF CallChallenge, Return
  <2>2. UNCHANGED <<inputs, program, auth, header>>
    BY DEF tokens
  <2>3. ASSUME op = "login"
        PROVE  Kept /\ Answered' /\ Rejected' /\ (GrantSound' \/ ((GrantSound => GrantSound') /\ ~AboutToAsk))
    <3>1. UNCHANGED <<op, refused, setsCookies, server, cookie, auth, header>> /\ RefusedStays
      BY <2>3 DEF inputs, program, tokens, LoginInv, Serving
    <3> QED
      BY <2>1, <3>1, QuietKept DEF Answered, Rejected
  <2> QED
    BY <2>1, <2>2, <2>3, PoppedOther
<1>2. CASE ~ (Len(stack) >= MaxDepth)
  <2> DEFINE f == [op |-> "challenge", login |-> l, round |-> 1, pc |-> first]
  <2>1. f \in Frame /\ f.op = "challenge"
    BY ChallengeTyping
  <2>2. Call(place, f)
    BY <1>2 DEF CallChallenge
  <2>3. CalledBy(f, [Top EXCEPT !.pc = place])
    <3>1. Top \in Frame
      BY InvTyping, TopTyping DEF InvParts
    <3> QED
      BY <2>1, <3>1, MovedFields DEF CalledBy
  <2> HIDE DEF f
  <2> QED
    BY <2>1, <2>2, <2>3, PushedOther
<1> QED
  BY <1>1, <1>2

LEMMA ResolveChallengeLogin == SessionInv /\ LoginInv /\ ResolveChallenge => LoginInv'
<1> SUFFICES ASSUME SessionInv, LoginInv, ResolveChallenge PROVE LoginInv'
  OBVIOUS
<1>1. /\ stack # <<>> /\ Top.op = "request" /\ ~Unwinding /\ ~AboutToAsk /\ StackOK /\ Stacked /\ Top \in Frame
  BY LoginFacts DEF ResolveChallenge
<1>2. UNCHANGED <<inputs, server, program, tokens>> /\ granted' = granted
  BY DEF ResolveChallenge
<1>3. "handled" \in Places(Top.op)
  BY <1>1 DEF Places
<1>4. CASE Goto("handled") /\ ret' = "ok"
  <2> DEFINE t == [Top EXCEPT !.pc = "handled"]
  <2>1. t \in Frame /\ t.op = Top.op /\ t.pc = "handled" /\ t.call = Top.call /\ t.auth = Top.auth
    BY <1>1, <1>3, MovedFields
  <2>2. stack' = [stack EXCEPT ![1] = t] /\ Top' = t
    <3>1. stack' = [stack EXCEPT ![1] = t]
      BY <1>1, <1>4, TopTyping DEF Goto
    <3> QED
      BY <1>1, <3>1 DEF StackOK, Top
  <2> HIDE DEF t
  <2>3. Handling' /\ Rejected'
    BY <1>4, <2>1, <2>2 DEF Handling, At, Rejected
  <2> QED
    BY <1>1, <1>2, <2>1, <2>2, <2>3, MovedOther
<1>5. CASE Return("challenge")
  <2>1. ret' = "challenge"
    BY <1>5 DEF Return
  <2>2. UNCHANGED <<inputs, program, auth, header>>
    BY <1>2 DEF tokens
  <2>3. ASSUME op = "login"
        PROVE  Kept /\ Answered' /\ Rejected' /\ (GrantSound => GrantSound')
    <3>1. UNCHANGED <<op, refused, setsCookies, server, cookie, auth, header>> /\ RefusedStays
      BY <1>2, <2>3 DEF inputs, program, tokens, LoginInv, Serving
    <3> QED
      BY <1>2, <2>1, <3>1, QuietKept DEF Answered, Rejected
  <2> QED
    BY <1>1, <1>5, <2>2, <2>3, PoppedOther
<1>6. CASE CallChallenge("handled", ForLogin, "open")
  BY <1>1, <1>2, <1>3, <1>6, ForLoginTyping, CallChallengeLogin
<1> QED
  BY <1>4, <1>5, <1>6 DEF ResolveChallenge

\* What was raised goes to the caller.
LEMMA RaiseOnLogin == SessionInv /\ LoginInv /\ (ResolveMasked \/ RaiseOn) => LoginInv'
<1> SUFFICES ASSUME SessionInv, LoginInv, ResolveMasked \/ RaiseOn PROVE LoginInv'
  OBVIOUS
<1>1. /\ stack # <<>> /\ Top.op = "request" /\ Top.pc = "handle" /\ ~Unwinding /\ ~AboutToAsk
      /\ StackOK /\ Stacked /\ At("request", "handle") /\ ret \notin {"none", "ok"}
  BY LoginFacts DEF ResolveMasked, RaiseOn, Handling
<1>2. UNCHANGED <<inputs, server, program, tokens>> /\ granted' = granted
  BY DEF ResolveMasked, RaiseOn
<1>3. PICK r \in {ret, "key_error", "relogin_exceeded"} : Return(r)
  BY DEF ResolveMasked, RaiseOn
<1>4. stack' # <<>> /\ Top' = stack[2] /\ ret' = r
  BY <1>1, <1>3, Caller
<1>5. UNCHANGED <<inputs, program, auth, header>>
  BY <1>2 DEF tokens
<1>6. ASSUME op = "login"
      PROVE  Kept /\ Answered' /\ Rejected' /\ (GrantSound => GrantSound')
  <2>1. UNCHANGED <<op, refused, setsCookies, server, cookie, auth, header>> /\ Serving
    BY <1>2, <1>6 DEF inputs, program, tokens, LoginInv
  <2>2. Kept /\ (GrantSound => GrantSound')
    BY <1>2, <2>1, QuietKept DEF Serving
  <2>3. Top.call = "validate" => At("login", "validate")'
    BY <1>1, <1>4, Caller DEF Later, Waits, At
  <2>4. Answered' /\ Rejected'
    BY <1>1, <1>3, <1>4, <2>1, <2>2, <2>3 DEF Serving, Answered, Rejected, Kept, At
  <2> QED
    BY <2>2, <2>4
<1> QED
  BY <1>1, <1>3, <1>5, <1>6, PoppedOther

LEMMA HandledLogin == SessionInv /\ LoginInv /\ Handled => LoginInv'
<1> SUFFICES ASSUME SessionInv, LoginInv, Handled PROVE LoginInv'
  OBVIOUS
<1>1. /\ stack # <<>> /\ Top.op = "request" /\ Top.pc = "handled" /\ ~AboutToAsk /\ Top \in Frame
      /\ StackOK /\ Stacked /\ Cleared /\ ret # "none"
  BY LoginFacts DEF Handled
<1>2. UNCHANGED <<inputs, server, program, tokens>> /\ granted' = granted
  BY DEF Handled
<1>3. UNCHANGED <<inputs, program, auth, header>>
  BY <1>2 DEF tokens
<1>4. ASSUME op = "login"
      PROVE  Serving /\ Kept /\ (GrantSound => GrantSound') /\ UNCHANGED <<cookie, auth>>
  <2>1. UNCHANGED <<op, refused, setsCookies, server, cookie, auth, header>> /\ Serving
    BY <1>2, <1>4 DEF inputs, program, tokens, LoginInv
  <2> QED
    BY <1>2, <2>1, QuietKept DEF Serving
<1>5. CASE ret # "ok"
  <2>1. Return(ret) /\ stack' # <<>> /\ Top' = stack[2] /\ ret' = ret
    BY <1>1, <1>5, Caller DEF Handled
  <2>2. op = "login" /\ Unwinding => Unwinding'
    BY <1>1, <1>4, <2>1, Caller DEF Unwinding, Serving
  <2>3. op = "login" => Answered' /\ Rejected'
    BY <1>1, <1>4, <1>5, <2>1 DEF Serving, Answered, Rejected, At, Kept
  <2> QED
    BY <1>1, <1>3, <1>4, <2>1, <2>2, <2>3, PoppedOther
<1>6. CASE ret = "ok" /\ Top.call \in PreLogin /\ UserId # NoSession
  <2>1. Return("ok") /\ stack' # <<>> /\ Top' = stack[2] /\ ret' = "ok" /\ ~Unwinding
    BY <1>1, <1>6, Caller DEF Handled, Unwinding
  <2>2. InnerPlace \cap Early # {} /\ stack[2].op = "login" /\ stack[2].pc # "validate"
    <3>1. /\ stack[2].op = "login" /\ stack[2].pc = Waits(Top.call) /\ InnerPlace = {stack[2].pc}
      BY <1>1, <1>6, Caller
    <3>2. Waits(Top.call) \in {"pre", "ask", "two"}
      BY <1>6 DEF PreLogin, Waits
    <3> QED
      BY <3>1, <3>2 DEF Early
  <2>3. cookie # NoSession
    BY <1>1, <1>6, <2>2 DEF Cleared, UserId
  <2>4. op = "login" => Answered' /\ Rejected'
    BY <1>4, <2>1, <2>2, <2>3 DEF Answered, Rejected, At
  <2> QED
    BY <1>1, <1>3, <1>4, <2>1, <2>4, PoppedOther
<1>7. CASE ret = "ok" /\ ~ (Top.call \in PreLogin /\ UserId # NoSession)
  <2> DEFINE t == [Top EXCEPT !.pc = "again"]
  <2>1. Goto("again") /\ ret' = "none" /\ ~Unwinding
    BY <1>7 DEF Handled, Unwinding
  <2>2. t \in Frame /\ t.op = Top.op /\ t.pc = "again" /\ t.call = Top.call /\ t.auth = Top.auth
    BY <1>1, MovedFields DEF Places
  <2>3. stack' = [stack EXCEPT ![1] = t] /\ Top' = t
    <3>1. stack' = [stack EXCEPT ![1] = t]
      BY <1>1, <2>1, TopTyping DEF Goto
    <3> QED
      BY <1>1, <3>1 DEF StackOK, Top
  <2> HIDE DEF t
  <2>4. Handling' /\ Rejected'
    BY <2>1, <2>2, <2>3 DEF Handling, At, Rejected
  <2> QED
    BY <1>1, <1>2, <2>1, <2>2, <2>3, <2>4, MovedOther
<1> QED
  BY <1>5, <1>6, <1>7

-------------------------------------------------------------------------------
(* challenge_resolve, in a login.                                            *)

\* The resolver returns: nothing but a request, or another resolver, has called it.
LEMMA ResolverReturns ==
  ASSUME SessionInv, LoginInv, stack # <<>>, Top.op = "challenge", NEW r, Return(r),
         r = "login_required" => ret = "login_required",
         UNCHANGED <<inputs, program, auth, header>>,
         \/ UNCHANGED <<server, cookie>> /\ granted' \in {granted, NoSession}
         \/ Opens
  PROVE  LoginInv'
<1>1. StackOK /\ Stacked /\ ret' = r /\ UNCHANGED <<op, refused, setsCookies, auth, header>>
  BY InvTyping DEF InvParts, LoginInv, inputs, program, Return
<1>2. stack' # <<>> /\ Top'.op \in {"request", "challenge"}
  BY <1>1, PopShape DEF CalledBy
<1>3. ASSUME op = "login"
      PROVE  Kept /\ Answered' /\ Rejected' /\ (GrantSound' \/ ((GrantSound => GrantSound') /\ ~AboutToAsk))
  <2>1. Serving
    BY <1>3 DEF LoginInv
  <2>2. Kept /\ (GrantSound => GrantSound')
    <3>1. CASE Opens
      BY <1>1, <2>1, <3>1, OpensKept DEF Serving
    <3>2. CASE UNCHANGED <<server, cookie>> /\ granted' \in {granted, NoSession}
      BY <1>1, <2>1, <3>2, QuietKept DEF Serving
    <3> QED
      BY <3>1, <3>2
  <2>3. Answered'
    BY <1>2 DEF Answered, At
  <2>4. Rejected'
    BY <1>1, <2>1, <2>2 DEF Serving, Rejected, At, Kept
  <2> QED
    BY <2>2, <2>3, <2>4 DEF AboutToAsk, At
<1>4. ~Unwinding
  BY DEF Unwinding
<1> QED
  BY <1>3, <1>4, PoppedOther

\* What each place of the resolver may do.
LEMMA ChallengeMovesLogin ==
  ASSUME SessionInv, LoginInv, NEW from, At("challenge", from),
         UNCHANGED <<inputs, program, auth, public, header, attempts>>
  PROVE  /\ \A results : "login_required" \notin results /\ Ends(results) => LoginInv'
         /\ \A place \in {"step", "form", "answer", "code"} : Proceeds(place) => LoginInv'
         /\ Closes => LoginInv'
         /\ Deeper => LoginInv'
<1>1. /\ StackOK /\ Stacked /\ stack # <<>> /\ Top.op = "challenge" /\ Top \in Frame
      /\ ~Unwinding /\ ~AboutToAsk
  BY LoginFacts
<1>2. UNCHANGED <<inputs, program, auth, header>>
  OBVIOUS
<1>3. ASSUME NEW results, "login_required" \notin results, Ends(results) PROVE LoginInv'
  <2>1. PICK r \in results : Return(r)
    BY <1>3 DEF Ends
  <2>2. UNCHANGED <<server, cookie>> /\ granted' \in {granted, NoSession} /\ r # "login_required"
    BY <1>3 DEF Ends
  <2> QED
    BY <1>1, <1>2, <2>1, <2>2, ResolverReturns
<1>4. ASSUME NEW place \in {"step", "form", "answer", "code"}, Proceeds(place) PROVE LoginInv'
  <2> DEFINE t == [Top EXCEPT !.pc = place]
  <2>1. /\ Goto(place) /\ granted' = NoSession /\ ret' = ret
        /\ UNCHANGED <<inputs, server, program, tokens>>
    BY <1>4 DEF Proceeds, tokens
  <2>2. t \in Frame /\ t.op = Top.op
    BY <1>1, MovedFields DEF Places
  <2>3. stack' = [stack EXCEPT ![1] = t] /\ Top' = t
    <3>1. stack' = [stack EXCEPT ![1] = t]
      BY <1>1, <2>1, TopTyping DEF Goto
    <3> QED
      BY <1>1, <3>1 DEF StackOK, Top
  <2> HIDE DEF t
  <2>4. Handling'
    BY <1>1, <2>2, <2>3 DEF Handling, At
  <2>5. op = "login" => Rejected'
    <3>1. ASSUME op = "login" PROVE RefusedStays /\ UNCHANGED <<op, refused, setsCookies, server, cookie, auth, header>>
      BY <2>1, <3>1 DEF LoginInv, Serving, inputs, program, tokens
    <3>2. op = "login" => Kept
      BY <3>1, QuietKept
    <3> QED
      BY <1>1, <2>1, <3>2 DEF LoginInv, Serving, Rejected, At, Kept
  <2> QED
    BY <1>1, <2>1, <2>2, <2>3, <2>4, <2>5, MovedOther
<1>5. ASSUME Closes PROVE LoginInv'
  BY <1>1, <1>2, <1>5, ResolverReturns DEF Closes
<1>6. ASSUME Deeper PROVE LoginInv'
  <2>1. Top.login \in BOOLEAN
    BY <1>1 DEF Frame, RequestFrame, LoginFrame, ChallengeFrame, CallFrame, SessionidFrame
  <2>2. "passed" \in Places(Top.op) /\ Top.op # "request"
    BY <1>1 DEF Places
  <2>3. UNCHANGED <<inputs, server, program, tokens>>
    BY <1>6 DEF Deeper, tokens
  <2> QED
    BY <1>1, <1>6, <2>1, <2>2, <2>3, CallChallengeLogin DEF Deeper
<1> QED
  BY <1>3, <1>4, <1>5, <1>6

LEMMA TakeStepLogin ==
  ASSUME SessionInv, LoginInv, At("challenge", "step"), TakeStep,
         UNCHANGED <<inputs, program, auth, public, header, attempts>>
  PROVE  LoginInv'
<1>1. /\ stack # <<>> /\ Top.op = "challenge" /\ Top \in Frame /\ ~Unwinding /\ ~AboutToAsk
  BY LoginFacts
<1>2. CASE Ends({"challenge"})
  BY <1>2, ChallengeMovesLogin
<1>3. CASE /\ \E place \in {"taken", "passed"} : Call(place, Request("take", auth))
           /\ UNCHANGED <<server, cookie, granted>>
  <2> DEFINE f == Request("take", auth)
  <2>1. PICK place \in {"taken", "passed"} : Call(place, f)
    BY <1>3
  <2>2. f \in Frame /\ f.op = "request" /\ f.call = "take" /\ f.pc = "send"
    BY InvTyping, RequestTyping DEF InvParts, TokensOK, Endpoint, Request
  <2>3. place \in Places(Top.op)
    BY <1>1 DEF Places
  <2>4. CalledBy(f, [Top EXCEPT !.pc = place])
    <3>1. [Top EXCEPT !.pc = place].op = "challenge"
      BY <1>1, <2>3, MovedFields
    <3> QED
      BY <2>2, <3>1 DEF CalledBy, PreLogin, Later
  <2> HIDE DEF f
  <2>5. UNCHANGED <<inputs, server, program, tokens>> /\ granted' \in {granted, NoSession}
    BY <1>3 DEF tokens
  <2> QED
    BY <1>1, <2>1, <2>2, <2>3, <2>4, <2>5, PushedOther
<1> QED
  BY <1>2, <1>3 DEF TakeStep

LEMMA CodeAgainLogin ==
  ASSUME SessionInv, LoginInv, At("challenge", "code"), Top.round < CodeRounds,
         stack' = [stack EXCEPT ![1].round = @ + 1], UNCHANGED <<ret, granted, server, cookie>>,
         UNCHANGED <<inputs, program, auth, public, header, attempts>>
  PROVE  LoginInv'
<1> DEFINE t == [Top EXCEPT !.round = @ + 1]
<1>1. /\ StackOK /\ stack # <<>> /\ Top.op = "challenge" /\ Top \in Frame /\ ~Unwinding /\ ~AboutToAsk
  BY LoginFacts
<1>2. Top \in ChallengeFrame
  BY <1>1 DEF Frame, RequestFrame, LoginFrame, ChallengeFrame, CallFrame, SessionidFrame
<1>3. Top.round + 1 \in 1..CodeRounds
  BY <1>2, SessionAssumption DEF ChallengeFrame
<1>4. t \in Frame /\ t.op = "challenge"
  BY <1>2, <1>3 DEF ChallengeFrame, Frame
<1>5. stack' = [stack EXCEPT ![1] = t]
  BY <1>1, TopTyping
<1> HIDE DEF t
<1>6. Top' = t
  BY <1>1, <1>5 DEF StackOK, Top
<1>7. UNCHANGED <<inputs, server, program, tokens>>
  BY DEF tokens
<1>8. Handling'
  BY <1>4, <1>6 DEF Handling, At
<1>9. op = "login" => Rejected'
  <2>1. ASSUME op = "login" PROVE RefusedStays /\ UNCHANGED <<op, refused, setsCookies, server, cookie, auth, header>>
    BY <1>7, <2>1 DEF LoginInv, Serving, inputs, program, tokens
  <2>2. op = "login" => Kept
    BY <2>1, QuietKept
  <2> QED
    BY <1>1, <2>2 DEF LoginInv, Serving, Rejected, At, Kept
<1> QED
  BY <1>1, <1>4, <1>5, <1>7, <1>8, <1>9, MovedOther

LEMMA ResolvesLogin == SessionInv /\ LoginInv /\ ResolvesChallenge => LoginInv'
<1> SUFFICES ASSUME SessionInv, LoginInv, ResolvesChallenge PROVE LoginInv'
  OBVIOUS
<1> USE DEF AtChallenge
<1>0. UNCHANGED <<inputs, program, auth, public, header, attempts>>
  BY DEF ResolvesChallenge
<1>1. "login_required" \notin ChallengeErrors
  BY DEF ChallengeErrors, Lost
<1>2. CASE OpenChallenge
  BY <1>0, <1>1, <1>2, ChallengeMovesLogin DEF OpenChallenge
<1>3. CASE ChallengeStep
  <2>1. CASE ReviewStep
    BY <1>0, <1>1, <1>3, <2>1, ChallengeMovesLogin DEF ChallengeStep, ReviewStep
  <2>2. CASE CodeStep
    BY <1>0, <1>1, <1>3, <2>2, ChallengeMovesLogin DEF ChallengeStep, CodeStep
  <2>3. CASE PhoneStep
    BY <1>0, <1>1, <1>3, <2>3, ChallengeMovesLogin DEF ChallengeStep, PhoneStep
  <2>4. CASE TakeStep
    BY <1>0, <1>3, <2>4, TakeStepLogin DEF ChallengeStep
  <2> QED
    BY <1>3, <2>1, <2>2, <2>3, <2>4 DEF ChallengeStep
<1>4. CASE CodeSent
  BY <1>0, <1>1, <1>4, ChallengeMovesLogin DEF CodeSent
<1>5. CASE Passed
  <2>1. stack # <<>> /\ Top.op = "challenge" /\ UNCHANGED <<inputs, program, auth, header>>
    BY <1>0, <1>5 DEF Passed, At
  <2> QED
    BY <1>5, <2>1, ResolverReturns DEF Passed
<1>6. CASE Redirected
  <2>1. CASE \E r \in {"ok", "challenge"} : Return(r) /\ UNCHANGED <<server, cookie, granted>>
    <3>1. stack # <<>> /\ Top.op = "challenge" /\ UNCHANGED <<inputs, program, auth, header>>
      BY <1>0, <1>6 DEF Redirected, At
    <3> QED
      BY <2>1, <3>1, ResolverReturns
  <2>2. CASE Deeper
    BY <1>0, <1>6, <2>2, ChallengeMovesLogin DEF Redirected
  <2> QED
    BY <1>6, <2>1, <2>2 DEF Redirected
<1>7. CASE ContactForm
  BY <1>0, <1>7, ChallengeMovesLogin DEF ContactForm
<1>8. CASE ContactCode
  BY <1>0, <1>8, ChallengeMovesLogin, CodeAgainLogin DEF ContactCode
<1> QED
  BY <1>2, <1>3, <1>4, <1>5, <1>6, <1>7, <1>8 DEF ResolvesChallenge

-------------------------------------------------------------------------------
(* login.                                                                    *)

\* A login sends a request, and waits for it at a place of its own.
LEMMA LoginAsks ==
  ASSUME SessionInv, LoginInv, stack # <<>>, Top.op = "login",
         NEW c \in PreLogin \cup Later, NEW token \in Credential,
         NEW place, place = Waits(c), Call(place, Request(c, token))
  PROVE  /\ Stacked' /\ Handling' /\ AboutToAsk' /\ Answered' /\ Rejected'
         /\ LoginPlaces' \subseteq LoginPlaces \cup {place} /\ InnerPlace' = {place}
         /\ Shown' \subseteq Shown \cup (IF c = "validate" THEN {token} ELSE {})
         /\ Sent' \subseteq Sent \cup (IF c \in {"tray", "timeline"} THEN {token} ELSE {})
         /\ Bottomless => Bottomless'
<1> DEFINE f == Request(c, token)
<1>1. StackOK /\ Stacked /\ Top \in Frame
  BY InvTyping, TopTyping DEF InvParts, LoginInv
<1>2. f \in Frame /\ f.op = "request" /\ f.call = c /\ f.auth = token /\ f.pc = "send"
  BY RequestTyping DEF PreLogin, Later, Endpoint, Request
<1>3. place \in Places("login")
  BY DEF PreLogin, Later, Waits, Places
<1>4. CalledBy(f, [Top EXCEPT !.pc = place])
  <2>1. [Top EXCEPT !.pc = place].op = "login" /\ [Top EXCEPT !.pc = place].pc = place
    BY <1>1, <1>3, MovedFields
  <2>2. c # "take"
    BY DEF PreLogin, Later
  <2> QED
    BY <1>2, <2>1, <2>2 DEF CalledBy
<1>5. Call(place, f) /\ ret' = "none"
  BY DEF Call
<1> HIDE DEF f
<1>6. /\ Stacked' /\ Top' = f /\ stack' # <<>>
      /\ LoginPlaces' \subseteq LoginPlaces \cup {place} /\ InnerPlace' = {place}
      /\ Shown' \subseteq Shown \cup (IF c = "validate" THEN {token} ELSE {})
      /\ Sent' \subseteq Sent \cup (IF c \in {"tray", "timeline"} THEN {token} ELSE {})
      /\ Bottomless => Bottomless'
  BY <1>1, <1>2, <1>3, <1>4, <1>5, PushShape DEF Bottomless
<1>7. Handling' /\ AboutToAsk' /\ Answered' /\ Rejected'
  BY <1>2, <1>5, <1>6 DEF Handling, AboutToAsk, Answered, Rejected, At
<1> QED
  BY <1>6, <1>7

\* A login returns with what it has, or raises what it was given.
LEMMA LoginReturns ==
  ASSUME SessionInv, LoginInv, stack # <<>>, Top.op = "login",
         NEW r \in Results \ {"none"}, Return(r),
         UNCHANGED <<inputs, server, program, tokens>>,
         op = "login" /\ r = "ok" => HasSession,
         op = "login" /\ r = "login_required" => SessionLost
  PROVE  LoginInv'
<1>1. StackOK /\ Stacked /\ UNCHANGED <<op, refused, setsCookies, server, cookie, auth, header>>
  BY InvTyping DEF InvParts, LoginInv, inputs, program, tokens
<1>2. Stacked' /\ Handling' /\ Cleared'
  BY <1>1, Popped
<1>3. LoginPlaces' \subseteq LoginPlaces /\ Sent' \subseteq Sent
  BY <1>1, PopShape
<1>4. ASSUME op = "login" PROVE Serving'
  <2>1. Serving /\ Kept
    BY <1>1, <1>4, QuietKept DEF LoginInv, Serving
  <2>2. RefusedStays' /\ Renewed'
    BY <1>3, <2>1 DEF Serving, Renewed, Kept
  <2>3. Carriers'
    BY <1>3, <2>1, CarriersKept DEF Serving, Kept
  <2>4. (r = "ok" => HasSession') /\ (r = "login_required" => SessionLost')
    BY <1>4, <2>1 DEF Kept
  <2> QED
    BY <1>4, <2>2, <2>3, <2>4, PopLogin
<1> QED
  BY <1>1, <1>2, <1>4 DEF LoginInv

\* Where the innermost login stands, if it is on top.
LEMMA LoginAt ==
  ASSUME SessionInv, LoginInv, NEW place, At("login", place)
  PROVE  /\ StackOK /\ Stacked /\ stack # <<>> /\ Top.op = "login" /\ Top.pc = place /\ Top \in Frame
         /\ InnerPlace = {place} /\ place \in LoginPlaces /\ ~AboutToAsk
         /\ Handling /\ Cleared /\ (op = "login" => Serving) /\ ret \in Results
         /\ auth \in Credential /\ granted \in Credential
<1>1. /\ StackOK /\ Stacked /\ stack # <<>> /\ Top.op = "login" /\ Top.pc = place /\ Top \in Frame
      /\ ~AboutToAsk /\ ret \in Results
  BY LoginFacts
<1>2. InnerPlace = {place} /\ place \in LoginPlaces
  BY <1>1, InnerTop
<1> QED
  BY <1>1, <1>2, InvTyping DEF LoginInv, InvParts, TokensOK

LEMMA LoginStartsLogin == SessionInv /\ LoginInv /\ LoginStarts => LoginInv'
<1> SUFFICES ASSUME SessionInv, LoginInv, LoginStarts PROVE LoginInv'
  OBVIOUS
<1>1. /\ StackOK /\ Stacked /\ stack # <<>> /\ Top.op = "login" /\ ~Top.relogin /\ auth \in Credential
      /\ Cleared
  BY LoginAt DEF LoginStarts
<1>2. UNCHANGED <<op, refused, setsCookies, server, cookie, auth, header>> /\ granted' = granted
  BY DEF LoginStarts, inputs, program, tokens
<1>3. LoginPlaces = {"start"} /\ Shown = {} /\ Sent = {}
  <2>1. Len(stack) \in Nat /\ DOMAIN stack = 1..Len(stack) /\ 1 \in DOMAIN stack /\ stack[1] = Top
    BY <1>1, TopTyping DEF StackOK
  <2>2. DOMAIN stack = {1}
    BY <1>1, <2>1 DEF Stacked
  <2> QED
    BY <1>1, <2>1, <2>2 DEF LoginStarts, At, LoginPlaces, Logins, Shown, Sent, Requests
<1>4. op = "login" => Serving /\ Kept
  BY <1>2, QuietKept DEF LoginInv, Serving
<1>5. CASE UserId # NoSession
  <2>1. Call("validate", Request("validate", auth)) /\ "validate" \in PreLogin \cup Later
        /\ "validate" = Waits("validate")
    BY <1>5 DEF LoginStarts, Later, Waits
  <2>2. /\ Stacked' /\ Handling' /\ Answered' /\ Rejected' /\ (Bottomless => Bottomless')
        /\ LoginPlaces' \subseteq {"start", "validate"} /\ InnerPlace' = {"validate"}
        /\ Shown' \subseteq {auth} /\ Sent' = {}
    BY <1>1, <1>3, <2>1, LoginAsks
  <2>3. Cleared'
    BY <1>1, <1>2, <2>2 DEF Cleared, Early
  <2>4. op = "login" => Renewed' /\ Carriers' /\ Claims'
    BY <1>2, <1>4, <1>5, <2>2 DEF Renewed, Early, Carriers, Claims, Kept
  <2> QED
    BY <1>2, <1>4, <2>2, <2>3, <2>4 DEF LoginInv, Serving, Kept
<1>6. CASE UserId = NoSession
  <2>1. Call("pre", Request("launcher", auth)) /\ "launcher" \in PreLogin \cup Later
        /\ "pre" = Waits("launcher")
    BY <1>6 DEF LoginStarts, PreLogin, Waits
  <2>2. /\ Stacked' /\ Handling' /\ Answered' /\ Rejected' /\ (Bottomless => Bottomless') /\ AboutToAsk'
        /\ InnerPlace' = {"pre"} /\ Sent' = {}
    BY <1>1, <1>3, <2>1, LoginAsks
  <2>3. auth' = NoSession /\ header' = NoSession /\ cookie' = NoSession
    BY <1>1, <1>2, <1>6 DEF UserId, Cleared
  <2>4. Cleared'
    BY <2>3 DEF Cleared
  <2>5. op = "login" => Renewed' /\ Carriers' /\ Claims'
    BY <2>2, <2>3 DEF Renewed, Clean, Carriers, Claims, Early
  <2> QED
    BY <1>2, <1>4, <2>2, <2>4, <2>5 DEF LoginInv, Serving, Kept
<1> QED
  BY <1>5, <1>6

LEMMA ReloginStartsLogin == SessionInv /\ LoginInv /\ ReloginStarts => LoginInv'
<1> SUFFICES ASSUME SessionInv, LoginInv, ReloginStarts PROVE LoginInv'
  OBVIOUS
<1>1. /\ StackOK /\ Stacked /\ stack # <<>> /\ Top.op = "login" /\ NoSession \in Credential
  BY LoginAt DEF ReloginStarts, Credential
<1>2. /\ UNCHANGED <<op, refused, setsCookies, server>> /\ granted' = granted /\ ClearSession
      /\ auth' = NoSession /\ header' = NoSession /\ cookie' = NoSession
  BY DEF ReloginStarts, ClearSession, inputs, program
<1>3. Clean' /\ (op = "login" => Serving /\ RefusedStays' /\ owner' = owner)
  BY <1>2 DEF Clean, LoginInv, Serving, RefusedStays, server
<1>4. CASE attempts > 1
  <2>1. Return("relogin_exceeded") /\ "relogin_exceeded" \in Results \ {"none"}
    BY <1>4 DEF ReloginStarts, Results, Raised
  <2>2. Stacked' /\ Handling' /\ Cleared'
    BY <1>1, <1>2, <2>1, Popped
  <2>3. Sent' \subseteq Sent
    BY <1>1, <2>1, PopShape
  <2>4. op = "login" => Carriers' /\ Renewed'
    BY <1>2, <1>3, <2>3, CarriersKept DEF Serving, Renewed
  <2>5. op = "login" => Serving'
    BY <1>1, <1>3, <2>1, <2>4, PopLogin
  <2> QED
    BY <1>2, <2>2, <2>5 DEF LoginInv
<1>5. CASE ~ (attempts > 1)
  <2>1. Call("pre", Request("launcher", NoSession)) /\ "launcher" \in PreLogin \cup Later
        /\ "pre" = Waits("launcher")
    BY <1>5 DEF ReloginStarts, PreLogin, Waits
  <2>2. /\ Stacked' /\ Handling' /\ Answered' /\ Rejected' /\ (Bottomless => Bottomless') /\ AboutToAsk'
        /\ InnerPlace' = {"pre"} /\ Sent' \subseteq Sent
    BY <1>1, <2>1, LoginAsks
  <2>3. Cleared'
    BY <1>2 DEF Cleared
  <2>4. op = "login" => Carriers'
    BY <1>2, <1>3, <2>2, CarriersKept DEF Serving
  <2>5. Renewed' /\ Claims'
    BY <1>3, <2>2 DEF Renewed, Claims
  <2> QED
    BY <1>2, <1>3, <2>2, <2>3, <2>4, <2>5 DEF LoginInv, Serving
<1> QED
  BY <1>4, <1>5

\* A login that was called begins again, as a relogin.
LEMMA RestartShape ==
  ASSUME StackOK, Stacked, stack # <<>>, Top.op = "login", NEW f \in Frame,
         f.op = "login", f.pc = "start", f.relogin, stack' = <<f>> \o Tail(stack)
  PROVE  /\ Stacked' /\ Top' = f /\ stack' # <<>>
         /\ LoginPlaces' \subseteq LoginPlaces \cup {"start"} /\ InnerPlace' = {"start"}
         /\ Sent' \subseteq Sent
         /\ Bottomless => Bottomless'
<1>0. stack' = [stack EXCEPT ![1] = f]
  BY ReplaceTyping DEF StackOK
<1>1. /\ stack' \in Seq(Frame) /\ Len(stack) \in Nat /\ Len(stack) >= 1 /\ Len(stack') = Len(stack)
      /\ DOMAIN stack = 1..Len(stack) /\ DOMAIN stack' = DOMAIN stack /\ stack' # <<>>
      /\ stack[1] = Top /\ stack'[1] = f /\ Top' = f
      /\ \A n \in DOMAIN stack : n # 1 => stack'[n] = stack[n]
  BY <1>0, TopTyping DEF StackOK, Top
<1>2. \A n \in DOMAIN stack : stack'[n].op = stack[n].op
  BY <1>1
<1>3. Stacked'
  <2>1. \A n \in 1..(Len(stack') - 1) : CalledBy(stack'[n], stack'[n + 1])
    <3> SUFFICES ASSUME NEW n \in 1..(Len(stack) - 1) PROVE CalledBy(stack'[n], stack'[n + 1])
      BY <1>1
    <3>1. CalledBy(stack[n], stack[n + 1]) /\ stack'[n + 1] = stack[n + 1] /\ n \in DOMAIN stack
      BY <1>1 DEF Stacked
    <3>2. CASE n = 1
      <4>1. stack[n] = Top /\ stack'[n] = f
        BY <1>1, <3>2
      <4> QED
        BY <3>1, <4>1 DEF CalledBy
    <3>3. CASE n # 1
      BY <1>1, <3>1, <3>3
    <3> QED
      BY <3>2, <3>3
  <2>2. stack' # <<>> => stack'[Len(stack')].op \notin {"request", "challenge"}
    BY <1>1, <1>2 DEF Stacked
  <2>3. \A m, n \in DOMAIN stack' :
          m < n /\ stack'[m].op = "login" /\ stack'[n].op = "login" => stack'[n].pc \in Later
    BY <1>1, <1>2 DEF Stacked
  <2>4. \A n \in DOMAIN stack' : stack'[n].op = "login" /\ ~stack'[n].relogin => n = Len(stack')
    BY <1>1, <1>2 DEF Stacked
  <2> QED
    BY <2>1, <2>2, <2>3, <2>4 DEF Stacked
<1>4. LoginPlaces' \subseteq LoginPlaces \cup {"start"}
  BY <1>1 DEF LoginPlaces, Logins
<1>5. InnerPlace' = {"start"}
  <2>1. 1 \in Logins' /\ \A n \in Logins' : n \in Nat /\ 1 <= n
    BY <1>1 DEF Logins
  <2> QED
    BY <1>1, <2>1 DEF InnerPlace
<1>6. Sent' \subseteq Sent
  BY <1>1 DEF Sent, Requests
<1>7. Bottomless => Bottomless'
  BY <1>1, <1>2 DEF Bottomless
<1> QED
  BY <1>1, <1>3, <1>4, <1>5, <1>6, <1>7

LEMMA ValidatedLogin == SessionInv /\ LoginInv /\ Validated => LoginInv'
<1> SUFFICES ASSUME SessionInv, LoginInv, Validated PROVE LoginInv'
  OBVIOUS
<1>1. /\ StackOK /\ Stacked /\ stack # <<>> /\ Top.op = "login" /\ Top \in Frame /\ ret \in Results /\ ret # "none"
      /\ At("login", "validate") /\ (op = "login" => Serving) /\ Cleared
  BY LoginAt DEF Validated, AtLogin
<1>2. UNCHANGED <<inputs, server, program, tokens>>
  BY DEF Validated
<1>3. CASE ret = "login_required"
  <2> DEFINE f == LoginCall(TRUE, Top.code)
  <2>1. f \in Frame /\ f.op = "login" /\ f.pc = "start" /\ f.relogin
    <3>1. Top.code \in BOOLEAN
      BY <1>1 DEF Frame, RequestFrame, LoginFrame, ChallengeFrame, CallFrame, SessionidFrame
    <3> QED
      BY <3>1, InvTyping, LoginTyping DEF InvParts, LoginCall
  <2>2. stack' = <<f>> \o Tail(stack) /\ ret' = "none"
    BY <1>3 DEF Validated
  <2> HIDE DEF f
  <2>3. /\ Stacked' /\ Top' = f /\ stack' # <<>>
        /\ LoginPlaces' \subseteq LoginPlaces \cup {"start"} /\ InnerPlace' = {"start"}
        /\ Sent' \subseteq Sent
        /\ Bottomless => Bottomless'
    BY <1>1, <2>1, <2>2, RestartShape
  <2>4. UNCHANGED <<op, refused, setsCookies, server, cookie, auth, header>>
    BY <1>2 DEF inputs, program, tokens
  <2>5. Handling' /\ Cleared'
    BY <1>1, <2>1, <2>3, <2>4 DEF Handling, At, Cleared, Early
  <2>6. ASSUME op = "login" PROVE Serving'
    <3>1. Kept /\ Serving
      BY <1>1, <2>4, <2>6, QuietKept DEF Serving
    <3>2. Renewed'
      BY <2>3, <3>1 DEF Serving, Renewed, Kept, Early
    <3>3. Carriers'
      BY <2>3, <3>1, CarriersKept DEF Serving, Kept
    <3>4. Claims' /\ Answered' /\ Rejected'
      BY <2>1, <2>2, <2>3 DEF Claims, Answered, Rejected, At, Early
    <3> QED
      BY <2>3, <3>1, <3>2, <3>3, <3>4 DEF Serving, Kept
  <2> QED
    BY <2>3, <2>4, <2>5, <2>6 DEF LoginInv
<1>4. CASE ret # "login_required"
  <2>1. Return(ret)
    BY <1>4 DEF Validated
  <2>2. op = "login" /\ ret = "ok" => HasSession
    BY <1>1 DEF Serving, Answered
  <2> QED
    BY <1>1, <1>2, <1>4, <2>1, <2>2, LoginReturns
<1> QED
  BY <1>3, <1>4

\* A request for a session, by a login that has none yet.
LEMMA LoginAsksForSession ==
  ASSUME SessionInv, LoginInv, NEW from \in {"pre", "ask"}, At("login", from),
         NEW c \in PreLogin, NEW place \in Early, place = Waits(c), Call(place, Request(c, auth)),
         UNCHANGED <<inputs, server, program, tokens>>
  PROVE  LoginInv'
<1>1. /\ stack # <<>> /\ Top.op = "login" /\ InnerPlace = {from} /\ from \in LoginPlaces
      /\ Cleared /\ (op = "login" => Serving) /\ auth \in Credential
  BY LoginAt
<1>2. UNCHANGED <<op, refused, setsCookies, server, cookie, auth, header>>
  BY DEF inputs, program, tokens
<1>3. /\ Stacked' /\ Handling' /\ Answered' /\ Rejected' /\ AboutToAsk' /\ (Bottomless => Bottomless')
      /\ LoginPlaces' \subseteq LoginPlaces \cup {place} /\ InnerPlace' = {place} /\ Sent' \subseteq Sent
  <2>1. c \in PreLogin \cup Later /\ c \notin {"tray", "timeline"}
    BY DEF PreLogin
  <2> QED
    BY <1>1, <2>1, LoginAsks
<1>4. Cleared'
  BY <1>1, <1>2 DEF Cleared, Early
<1>5. ASSUME op = "login" PROVE Serving'
  <2>1. Kept /\ Serving
    BY <1>1, <1>2, <1>5, QuietKept DEF Serving
  <2>2. Clean
    BY <1>1, <2>1 DEF Serving, Renewed, Early
  <2>3. Renewed'
    BY <2>1, <2>2 DEF Renewed, Kept
  <2>4. Carriers'
    BY <1>3, <2>1, CarriersKept DEF Serving, Kept
  <2>5. Claims'
    BY <1>3 DEF Claims, Early
  <2> QED
    BY <1>3, <2>1, <2>3, <2>4, <2>5 DEF Serving, Kept
<1> QED
  BY <1>2, <1>3, <1>4, <1>5 DEF LoginInv

\* Any other LoginRequired than that of the validation comes of a session that has ended.
LEMMA LoginRaisesOn ==
  ASSUME SessionInv, LoginInv, NEW from, At("login", from), from # "validate", ret # "ok",
         NEW r \in Results \ {"none", "ok"}, r = "login_required" => ret = "login_required", Return(r),
         UNCHANGED <<inputs, server, program, tokens>>
  PROVE  LoginInv'
<1>1. stack # <<>> /\ Top.op = "login" /\ Top.pc = from /\ (op = "login" => Serving)
  BY LoginAt
<1>2. op = "login" /\ r = "login_required" => SessionLost
  BY <1>1 DEF Serving, Rejected, At
<1> QED
  BY <1>1, <1>2, LoginReturns

LEMMA PreLoginDoneLogin == SessionInv /\ LoginInv /\ PreLoginDone => LoginInv'
<1> SUFFICES ASSUME SessionInv, LoginInv, PreLoginDone PROVE LoginInv'
  OBVIOUS
<1>1. At("login", "pre") /\ ret # "none" /\ ret \in Results
  BY LoginAt DEF PreLoginDone, AtLogin
<1>2. UNCHANGED <<inputs, server, program, tokens>>
  BY DEF PreLoginDone
<1>3. CASE ret \in {"ok", "throttled"}
  <2>1. Call("ask", Request("login", auth)) /\ "login" \in PreLogin /\ "ask" = Waits("login") /\ "ask" \in Early
    BY <1>3 DEF PreLoginDone, PreLogin, Waits, Early
  <2> QED
    BY <1>1, <1>2, <2>1, LoginAsksForSession
<1>4. CASE ret \notin {"ok", "throttled"}
  <2>1. Return(ret)
    BY <1>4 DEF PreLoginDone
  <2> QED
    BY <1>1, <1>2, <1>4, <2>1, LoginRaisesOn
<1> QED
  BY <1>3, <1>4

LEMMA NeedsCodeLogin == SessionInv /\ LoginInv /\ NeedsCode => LoginInv'
<1> SUFFICES ASSUME SessionInv, LoginInv, NeedsCode PROVE LoginInv'
  OBVIOUS
<1>1. /\ At("login", "ask") /\ Call("two", Request("two_factor", auth))
      /\ "two_factor" \in PreLogin /\ "two" = Waits("two_factor") /\ "two" \in Early
      /\ UNCHANGED <<inputs, server, program, tokens>>
  BY DEF NeedsCode, AtLogin, PreLogin, Waits, Early
<1> QED
  BY <1>1, LoginAsksForSession

LEMMA LoginRaisesLogin == SessionInv /\ LoginInv /\ LoginRaises => LoginInv'
<1> SUFFICES ASSUME SessionInv, LoginInv, LoginRaises PROVE LoginInv'
  OBVIOUS
<1>1. PICK from \in {"ask", "two", "tray", "timeline"} : At("login", from) /\ ret # "none"
  BY DEF LoginRaises, BloksTried, AtLogin
<1>2. /\ ret \in Results \ {"none", "ok"}
      /\ {"two_factor", "challenge", "other"} \subseteq Results \ {"none", "ok"}
      /\ UNCHANGED <<inputs, server, program, tokens>>
  BY <1>1, LoginAt DEF LoginRaises, Results, Raised, PrivateErrors
<1>3. PICK r \in {ret, "two_factor", "challenge", "other"} : Return(r)
  BY DEF LoginRaises
<1> QED
  BY <1>1, <1>2, <1>3, LoginRaisesOn

LEMMA LoginDoneLogin == SessionInv /\ LoginInv /\ LoginDone => LoginInv'
<1> SUFFICES ASSUME SessionInv, LoginInv, LoginDone PROVE LoginInv'
  OBVIOUS
<1>1. /\ stack # <<>> /\ Top.op = "login" /\ InnerPlace = {"timeline"} /\ (op = "login" => Serving)
      /\ ret = "ok" /\ Return("ok") /\ "ok" \in Results \ {"none"}
      /\ UNCHANGED <<inputs, server, program, tokens>>
  BY LoginAt DEF LoginDone, AtLogin, Results
<1>2. op = "login" => HasSession
  BY <1>1 DEF Serving, Claims, Unwinding
<1> QED
  BY <1>1, <1>2, LoginReturns

\* A login with a session goes on with the requests of login_flow.
LEMMA LoginGoesOn ==
  ASSUME SessionInv, LoginInv, NEW from, At("login", from), NEW c \in {"tray", "timeline"},
         NEW token \in Credential, Call(c, Request(c, token)),
         UNCHANGED <<op, refused, setsCookies>>, (header # NoSession)' => (auth # NoSession)',
         op = "login" =>
           /\ RefusedStays' /\ DOMAIN owner \subseteq DOMAIN owner' /\ Clean' /\ HasSession'
           /\ Sound(token)' \/ (token = NoSession /\ setsCookies)
  PROVE  LoginInv'
<1>1. /\ stack # <<>> /\ Top.op = "login" /\ InnerPlace = {from} /\ (op = "login" => Serving)
  BY LoginAt
<1>2. /\ Stacked' /\ Handling' /\ Answered' /\ Rejected' /\ (Bottomless => Bottomless')
      /\ InnerPlace' = {c} /\ Sent' \subseteq Sent \cup {token}
  <2>1. c \in PreLogin \cup Later /\ c = Waits(c)
    BY DEF Later, Waits
  <2> QED
    BY <1>1, <2>1, LoginAsks
<1>3. Cleared'
  BY <1>2 DEF Cleared, Early
<1>4. ASSUME op = "login" PROVE Serving'
  <2>1. Renewed' /\ Claims'
    BY <1>2, <1>4 DEF Renewed, Claims, Early
  <2>2. Carriers'
    BY <1>1, <1>2, <1>4, CarriersKept DEF Serving
  <2> QED
    BY <1>1, <1>2, <1>4, <2>1, <2>2 DEF Serving
<1> QED
  BY <1>2, <1>3, <1>4 DEF LoginInv

LEMMA LoggedLogin == SessionInv /\ LoginInv /\ Logged => LoginInv'
<1> SUFFICES ASSUME SessionInv, LoginInv, Logged PROVE LoginInv'
  OBVIOUS
<1>1. PICK from \in {"ask", "two"} : At("login", from)
  BY DEF Logged, AtLogin
<1>2. /\ InnerPlace = {from} /\ from \in LoginPlaces /\ Cleared /\ ~AboutToAsk /\ (op = "login" => Serving)
      /\ granted \in Credential /\ ret = "ok"
  BY <1>1, LoginAt DEF Logged
<1> PICK s \in Credential : s = granted
  BY <1>2
<1>3. /\ auth' = s /\ UNCHANGED <<cookie, header, op, refused, setsCookies, owner, live>>
      /\ "tray" \in {"tray", "timeline"} /\ Call("tray", Request("tray", s))
  BY DEF Logged, inputs, program, server
<1>4. header = NoSession
  BY <1>2 DEF Cleared, Early
<1>5. ASSUME op = "login"
      PROVE  /\ RefusedStays' /\ DOMAIN owner \subseteq DOMAIN owner' /\ Clean' /\ HasSession'
             /\ Sound(s)' \/ (s = NoSession /\ setsCookies)
  <2>1. Clean /\ GrantSound /\ (granted # NoSession \/ cookie # NoSession) /\ RefusedStays
    BY <1>1, <1>2, <1>5 DEF Serving, Renewed, Claims, Answered, Early
  <2>2. RefusedStays' /\ DOMAIN owner \subseteq DOMAIN owner'
    BY <1>3, <2>1 DEF RefusedStays
  <2>3. Sound(s) \/ (s = NoSession /\ cookie # NoSession /\ setsCookies)
    BY <2>1 DEF GrantSound, Clean
  <2>4. Clean'
    BY <1>3, <2>1 DEF Clean, GrantSound, Sound
  <2>5. HasSession'
    BY <1>3, <2>1, <2>3 DEF HasSession, UserId, Clean, Sound
  <2>6. Sound(s)' = Sound(s)
    BY <1>3 DEF Sound
  <2> QED
    BY <2>2, <2>3, <2>4, <2>5, <2>6
<1> QED
  BY <1>1, <1>2, <1>3, <1>4, <1>5, LoginGoesOn

LEMMA BloksLoginLogin == SessionInv /\ LoginInv /\ BloksLogin => LoginInv'
<1> SUFFICES ASSUME SessionInv, LoginInv, BloksLogin PROVE LoginInv'
  OBVIOUS
<1>1. PICK from \in {"ask", "two"} : At("login", from)
  BY DEF BloksLogin, BloksTried, AtLogin
<1>2. from \in LoginPlaces /\ (op = "login" => Serving)
  BY <1>1, LoginAt
<1>3. PICK s \in Credential :
        /\ Grants(s)
        /\ auth' = s /\ header' = s
        /\ cookie' = IF setsCookies THEN s ELSE cookie
        /\ Call("tray", Request("tray", s))
  BY DEF BloksLogin
<1>4. UNCHANGED <<op, refused, setsCookies>>
  BY DEF BloksLogin, inputs, program
<1>5. s # NoSession
  BY <1>3, InvTyping, SessionAssumption DEF Grants, InvParts, ProgramOK, ServerOK
<1>6. ASSUME op = "login"
      PROVE  /\ RefusedStays' /\ DOMAIN owner \subseteq DOMAIN owner' /\ Clean' /\ HasSession'
             /\ Sound(s)'
  <2>1. Clean /\ RefusedStays
    BY <1>2, <1>6 DEF Serving, Renewed, Early
  <2>2. s[2] \in DOMAIN owner' \ refused /\ DOMAIN owner \subseteq DOMAIN owner' /\ RefusedStays'
    BY <1>3, <1>4, <2>1, GrantsSound
  <2>3. Sound(s)'
    BY <1>4, <1>5, <2>2 DEF Sound
  <2>4. Clean'
    BY <1>3, <1>4, <1>5, <2>1, <2>2 DEF Clean, Sound
  <2>5. HasSession'
    BY <1>3, <1>4, <1>5, <2>2 DEF HasSession, UserId
  <2> QED
    BY <2>2, <2>3, <2>4, <2>5
<1> QED
  BY <1>1, <1>3, <1>4, <1>5, <1>6, LoginGoesOn

LEMMA TrayDoneLogin == SessionInv /\ LoginInv /\ TrayDone => LoginInv'
<1> SUFFICES ASSUME SessionInv, LoginInv, TrayDone PROVE LoginInv'
  OBVIOUS
<1>1. At("login", "tray") /\ ret = "ok"
  BY DEF TrayDone, AtLogin
<1>2. /\ InnerPlace = {"tray"} /\ "tray" \in LoginPlaces /\ Cleared /\ (op = "login" => Serving)
      /\ auth \in Credential
  BY <1>1, LoginAt
<1> PICK s \in Credential : s = auth
  BY <1>2
<1>3. /\ UNCHANGED <<op, refused, setsCookies, server, cookie, auth, header>>
      /\ "timeline" \in {"tray", "timeline"} /\ Call("timeline", Request("timeline", s))
  BY DEF TrayDone, inputs, program, tokens
<1>4. ASSUME op = "login"
      PROVE  /\ RefusedStays' /\ DOMAIN owner \subseteq DOMAIN owner' /\ Clean' /\ HasSession'
             /\ Sound(s)' \/ (s = NoSession /\ setsCookies)
  <2>1. Kept /\ Clean /\ HasSession
    BY <1>1, <1>2, <1>3, <1>4, QuietKept DEF Serving, Renewed, Claims, Unwinding
  <2>2. Sound(s)' \/ (s = NoSession /\ setsCookies)
    BY <1>3, <2>1 DEF Clean, HasSession, UserId, Sound, Kept
  <2> QED
    BY <2>1, <2>2 DEF Kept
<1> QED
  BY <1>1, <1>2, <1>3, <1>4, LoginGoesOn DEF Cleared

-------------------------------------------------------------------------------
(* The other calls of the program, and the server.                           *)

LEMMA AtBottom ==
  ASSUME SessionInv, LoginInv, stack # <<>>, Top.op \in Bottom
  PROVE  /\ op # "login" /\ Len(stack) = 1
         /\ \A r : Return(r) => stack' = <<>>
<1>1. StackOK /\ 1 \in DOMAIN stack /\ stack[1] = Top /\ Len(stack) \in Nat
  BY InvTyping, TopTyping DEF InvParts, StackOK
<1>2. Len(stack) = 1
  BY <1>1 DEF StackOK, WellNested
<1>3. op # "login"
  BY <1>1 DEF LoginInv, Serving, Bottomless
<1>4. \A r : Return(r) => stack' = <<>>
  BY <1>1, <1>2 DEF StackOK, Return
<1> QED
  BY <1>2, <1>3, <1>4

\* What holds of an empty stack.
LEMMA NoLoginRuns ==
  ASSUME stack' = <<>>, op' # "login", (header # NoSession)' => (auth # NoSession)'
  PROVE  LoginInv'
<1>1. Stacked' /\ Handling' /\ InnerPlace' = {}
  BY DEF Stacked, Handling, At, InnerPlace, Logins
<1>2. Cleared'
  BY <1>1 DEF Cleared
<1> QED
  BY <1>1, <1>2 DEF LoginInv

LEMMA EndsLogin ==
  SessionInv /\ LoginInv /\ (LoggedOut \/ SessionidFails \/ SessionidTaken \/ WorkDone) => LoginInv'
<1> SUFFICES ASSUME SessionInv, LoginInv, LoggedOut \/ SessionidFails \/ SessionidTaken \/ WorkDone
             PROVE  LoginInv'
  OBVIOUS
<1>1. stack # <<>> /\ Top.op \in Bottom /\ Top \in Frame /\ Cleared
  BY LoginFacts DEF LoggedOut, SessionidFails, SessionidTaken, WorkDone, Bottom
<1>2. stack' = <<>> /\ op' # "login"
  BY <1>1, AtBottom DEF LoggedOut, SessionidFails, SessionidTaken, WorkDone, program
<1>3. (header # NoSession)' => (auth # NoSession)'
  <2>1. CASE LoggedOut \/ SessionidFails \/ WorkDone
    BY <1>1, <2>1 DEF LoggedOut, SessionidFails, WorkDone, ClearSession, tokens, Cleared
  <2>2. CASE SessionidTaken
    <3>1. Top.user \in Accounts
      BY <1>1, <2>2 DEF SessionidTaken, At, Frame, RequestFrame, LoginFrame, ChallengeFrame, CallFrame, SessionidFrame
    <3>2. (IF auth = NoSession THEN 0 ELSE auth[2]) \in Nat
      BY InvTyping, SessionAssumption DEF InvParts, TokensOK, Credential
    <3>3. auth' # NoSession
      BY <2>2, <3>1, <3>2, SessionAssumption DEF SessionidTaken
    <3> QED
      BY <3>3
  <2> QED
    BY <2>1, <2>2
<1> QED
  BY <1>2, <1>3, NoLoginRuns

LEMMA SessionidAsksLogin == SessionInv /\ LoginInv /\ SessionidAsksStream => LoginInv'
<1> SUFFICES ASSUME SessionInv, LoginInv, SessionidAsksStream PROVE LoginInv'
  OBVIOUS
<1>1. /\ StackOK /\ Stacked /\ stack # <<>> /\ Top.op = "sessionid" /\ Top \in Frame /\ Cleared
  BY LoginFacts DEF SessionidAsksStream
<1>2. op' # "login" /\ UNCHANGED <<auth, header>>
  BY <1>1, AtBottom DEF SessionidAsksStream, program, tokens, Bottom
<1> DEFINE f == Request("stream", auth)
<1>3. /\ f \in Frame /\ f.op = "request" /\ f.call = "stream" /\ f.pc = "send" /\ Call("stream", f)
      /\ "stream" \in Places(Top.op)
  BY <1>1, InvTyping, RequestTyping DEF InvParts, TokensOK, Endpoint, Request, SessionidAsksStream, Places
<1>4. CalledBy(f, [Top EXCEPT !.pc = "stream"])
  BY <1>1, <1>3, MovedFields DEF CalledBy, PreLogin, Later, Bottom
<1> HIDE DEF f
<1>5. Stacked' /\ Top' = f /\ InnerPlace' = InnerPlace
  BY <1>1, <1>3, <1>4, PushShape
<1>6. Handling' /\ Cleared'
  BY <1>1, <1>2, <1>3, <1>5 DEF Handling, At, Cleared
<1> QED
  BY <1>2, <1>5, <1>6 DEF LoginInv

LEMMA UserLoginLogin == SessionInv /\ LoginInv /\ (UserLogsIn \/ UserRelogs) => LoginInv'
<1> SUFFICES ASSUME SessionInv, LoginInv, UserLogsIn \/ UserRelogs PROVE LoginInv'
  OBVIOUS
<1>1. PICK relogin \in BOOLEAN, code \in BOOLEAN : Begin("login", <<LoginCall(relogin, code)>>)
  BY DEF UserLogsIn, UserRelogs
<1> DEFINE f == LoginCall(relogin, code)
<1>2. f.op = "login" /\ f.pc = "start" /\ stack' = <<f>> /\ ret' = "none" /\ refused' = Refused
  BY <1>1 DEF LoginCall, Begin
<1> HIDE DEF f
<1>3. UNCHANGED <<server, auth, header>>
  BY DEF UserLogsIn, UserRelogs, tokens
<1>4. DOMAIN stack' = {1} /\ Len(stack') = 1 /\ stack'[1] = f /\ Top' = f /\ stack' # <<>>
  BY <1>2 DEF Top
<1>5. Stacked' /\ Handling'
  BY <1>2, <1>4 DEF Stacked, Handling, At
<1>6. LoginPlaces' = {"start"} /\ InnerPlace' = {"start"} /\ Sent' = {}
  BY <1>2, <1>4 DEF LoginPlaces, InnerPlace, Logins, Sent, Requests
<1>7. Cleared'
  BY <1>3, <1>6 DEF LoginInv, Cleared, Early
<1>8. RefusedStays' /\ Bottomless'
  BY <1>2, <1>3, <1>4 DEF RefusedStays, Refused, server, Bottomless, Bottom
<1>9. Renewed' /\ Carriers' /\ Claims'
  BY <1>6 DEF Renewed, Carriers, Claims, Early
<1>10. Answered' /\ Rejected'
  BY <1>2, <1>4 DEF Answered, Rejected, At
<1> QED
  BY <1>5, <1>7, <1>8, <1>9, <1>10 DEF LoginInv, Serving

\* A call of the program that is no login.
LEMMA CallBegins ==
  ASSUME NEW f, f.op = "request", f.call \notin PreLogin \cup Later \cup {"take"}, f.pc = "send",
         NEW g, g.op \in Bottom, stack' = <<f, g>>, op' # "login",
         (header # NoSession)' => (auth # NoSession)'
  PROVE  LoginInv'
<1>1. DOMAIN stack' = {1, 2} /\ Len(stack') = 2 /\ stack'[1] = f /\ stack'[2] = g /\ Top' = f /\ stack' # <<>>
  BY DEF Top
<1>2. \A n \in DOMAIN stack' : stack'[n].op # "login"
  BY <1>1 DEF Bottom
<1>3. Stacked'
  <2>1. CalledBy(f, g)
    BY DEF CalledBy
  <2>2. \A n \in 1..(Len(stack') - 1) : CalledBy(stack'[n], stack'[n + 1])
    BY <1>1, <2>1
  <2>3. stack'[Len(stack')].op \notin {"request", "challenge"}
    BY <1>1 DEF Bottom
  <2> QED
    BY <1>2, <2>2, <2>3 DEF Stacked
<1>4. InnerPlace' = {}
  BY <1>2 DEF InnerPlace, Logins
<1>5. Handling' /\ Cleared'
  BY <1>1, <1>4 DEF Handling, At, Cleared
<1> QED
  BY <1>3, <1>5 DEF LoginInv

LEMMA UserCallsLogin == SessionInv /\ LoginInv /\ (UserCalls \/ UserGivesSessionid) => LoginInv'
<1> SUFFICES ASSUME SessionInv, LoginInv, UserCalls \/ UserGivesSessionid PROVE LoginInv'
  OBVIOUS
<1>1. CASE UserCalls
  <2>1. PICK o \in {"work", "logout"} : Begin(o, <<Request(o, auth), [op |-> o, pc |-> "sent"]>>)
    BY <1>1 DEF UserCalls
  <2> DEFINE f == Request(o, auth)
             g == [op |-> o, pc |-> "sent"]
  <2>2. f.op = "request" /\ f.call \notin PreLogin \cup Later \cup {"take"} /\ f.pc = "send"
    BY DEF Request, PreLogin, Later
  <2>3. g.op \in Bottom
    BY DEF Bottom
  <2>4. stack' = <<f, g>> /\ op' # "login"
    BY <2>1 DEF Begin
  <2>5. (header # NoSession)' => (auth # NoSession)'
    BY <1>1 DEF UserCalls, tokens, LoginInv, Cleared
  <2> HIDE DEF f, g
  <2> QED
    BY <2>2, <2>3, <2>4, <2>5, CallBegins
<1>2. CASE UserGivesSessionid
  <2> DEFINE s(u) == <<u, Len(owner) + 1>>
  <2>1. PICK u \in Accounts :
          /\ auth' = s(u)
          /\ Begin("sessionid", <<Request("profile", s(u)), [op |-> "sessionid", user |-> u, pc |-> "sent"]>>)
    BY <1>2 DEF UserGivesSessionid
  <2> DEFINE f == Request("profile", s(u))
             g == [op |-> "sessionid", user |-> u, pc |-> "sent"]
  <2>2. f.op = "request" /\ f.call \notin PreLogin \cup Later \cup {"take"} /\ f.pc = "send"
    BY DEF Request, PreLogin, Later
  <2>3. g.op \in Bottom
    BY DEF Bottom
  <2>4. stack' = <<f, g>> /\ op' # "login"
    BY <2>1 DEF Begin
  <2>5. auth' # NoSession
    BY <2>1, InvTyping, SessionAssumption DEF InvParts, ServerOK
  <2> HIDE DEF f, g
  <2> QED
    BY <2>2, <2>3, <2>4, <2>5, CallBegins
<1> QED
  BY <1>1, <1>2

LEMMA RevokeLogin == SessionInv /\ LoginInv /\ (Inject \/ Revoke \/ UNCHANGED vars) => LoginInv'
<1> SUFFICES ASSUME SessionInv, LoginInv, Inject \/ Revoke \/ UNCHANGED vars PROVE LoginInv'
  OBVIOUS
<1>1. /\ UNCHANGED <<op, refused, setsCookies, owner, cookie, auth, header, granted, stack, ret>>
      /\ live' \subseteq live
  BY DEF Inject, Revoke, vars, inputs, server, program, tokens
<1>2. /\ Stacked' /\ Bottomless' = Bottomless
      /\ LoginPlaces' = LoginPlaces /\ InnerPlace' = InnerPlace /\ Shown' = Shown /\ Sent' = Sent
  BY <1>1 DEF LoginInv, Stacked, Bottomless, LoginPlaces, InnerPlace, Logins, Shown, Sent, Requests
<1>3. Handling' /\ Cleared' /\ Unwinding' = Unwinding /\ AboutToAsk' = AboutToAsk
  BY <1>1, <1>2 DEF LoginInv, Handling, Cleared, Unwinding, AboutToAsk, At, Top
<1>4. ASSUME op = "login" PROVE Serving'
  <2>1. Serving /\ Kept /\ GrantSound' = GrantSound
    BY <1>1, <1>4, RevokeKept DEF LoginInv, Serving
  <2>2. Answered'
    BY <1>1, <2>1 DEF Serving, Answered, At, Top, Kept
  <2>3. Rejected'
    BY <1>1, <2>1 DEF Serving, Rejected, At, Top, Kept
  <2> QED
    BY <1>2, <1>3, <2>1, <2>2, <2>3, Stays DEF Serving
<1> QED
  BY <1>1, <1>2, <1>3, <1>4 DEF LoginInv

LEMMA InitLogin == Init => LoginInv
<1> SUFFICES ASSUME Init PROVE LoginInv
  OBVIOUS
<1>1. Stacked /\ Handling /\ InnerPlace = {}
  BY DEF Init, Stacked, Handling, At, InnerPlace, Logins
<1>2. Cleared
  BY <1>1 DEF Init, Cleared
<1> QED
  BY <1>1, <1>2 DEF Init, LoginInv

LEMMA NextLogin == SessionInv /\ LoginInv /\ [Next]_vars => LoginInv'
<1> SUFFICES ASSUME SessionInv, LoginInv, [Next]_vars PROVE LoginInv'
  OBVIOUS
<1>1. CASE Private
  BY <1>1, SucceedsLogin, FailsLogin, HandlerLogsInLogin, ResolveChallengeLogin, RaiseOnLogin,
     HandledLogin, ResolvesLogin DEF Private
<1>2. CASE Auth
  BY <1>2, LoginStartsLogin, ReloginStartsLogin, ValidatedLogin, PreLoginDoneLogin, LoggedLogin,
     NeedsCodeLogin, BloksLoginLogin, LoginRaisesLogin, TrayDoneLogin, LoginDoneLogin,
     EndsLogin, SessionidAsksLogin DEF Auth
<1>3. CASE User
  BY <1>3, UserLoginLogin, UserCallsLogin, RevokeLogin DEF User
<1>4. CASE Revoke \/ UNCHANGED vars
  BY <1>4, RevokeLogin
<1> QED
  BY <1>1, <1>2, <1>3, <1>4 DEF Next

\* A login that returned True has a user and a session the server had not refused when
\* it was called, and one that raised LoginRequired met a session that the server ended
\* meanwhile: whatever the handler, the challenges and the relogins under it did.
THEOREM LoginIsValid == Spec => []LoginValidates
<1>1. SessionInv /\ LoginInv => LoginValidates
  <2> SUFFICES ASSUME LoginInv PROVE LoginValidates
    OBVIOUS
  <2>1. LoginIsServed
    BY DEF LoginIsServed, Idle, LoginInv, Serving, Answered, HasSession
  <2>2. RejectedSessionIsReplaced
    BY DEF RejectedSessionIsReplaced, Idle, LoginInv, Serving, Rejected, SessionLost, At
  <2> QED
    BY <2>1, <2>2 DEF LoginValidates
<1>2. Spec => []LoginInv
  BY InitLogin, NextLogin, SessionInvariant, PTL DEF Spec
<1> QED
  BY <1>1, <1>2, SessionInvariant, PTL
===============================================================================
