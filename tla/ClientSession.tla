----------------------------- MODULE ClientSession -----------------------------
(***************************************************************************)
(* The session of an instagrapi Client: private_request of                 *)
(* mixins/private.py; login, relogin, login_by_sessionid and logout of     *)
(* mixins/auth.py, which call it and which the exception handler may call  *)
(* from within it; challenge_resolve of mixins/challenge.py, which it      *)
(* calls and which calls it.  Python's call stack is the variable stack,   *)
(* its head the running call; ret is what the call that just ended         *)
(* returned ("ok") or raised.                                              *)
(*                                                                         *)
(* A credential is a pair <<ds_user_id, session of the server>>; 0 stands  *)
(* for a missing sessionid.                                                *)
(***************************************************************************)
EXTENDS Naturals, Sequences, FiniteSets

CONSTANTS
  Accounts,
  NoSession,
  MaxSessions,     \* bound: sessions the server issues
  MaxRevocations,  \* bound: sessions the server ends by itself
  MaxCalls,        \* bound: calls of the program
  MaxDepth,        \* frames beyond which Python raises RecursionError (about 1000)
  Challenged,      \* bound: endpoints the server challenges
  CodeRounds       \* codes a contact form is sent, 5 in the code

ASSUME SessionAssumption ==
  /\ Accounts # {} /\ MaxSessions \in Nat \ {0} /\ MaxRevocations \in Nat /\ MaxCalls \in Nat
  /\ MaxDepth \in Nat /\ CodeRounds \in Nat \ {0}
  /\ NoSession \notin Accounts \X Nat

Session == 1..MaxSessions
Credential == (Accounts \X (0..MaxSessions)) \cup {NoSession}

VARIABLES
  handler,     \* "none", or "docs": the one of docs/usage-guide/handle_exception.md
  setsCookies, \* Instagram also sends its sessions as cookies
  saved,       \* settings["authorization_data"]
  owner,       \* the accounts of the sessions issued so far
  live,        \* sessions the server accepts
  revocations,
  username,
  auth,        \* authorization_data
  cookie,      \* private.cookies
  public,      \* public.cookies
  header,      \* private.headers["Authorization"]
  attempts,    \* relogin_attempt
  granted,     \* ig-set-authorization of last_response, until it is read
  stack, ret,
  op,          \* the last call of the program
  calls,
  refused      \* history: sessions not accepted any more when the login began

server == <<owner, live, revocations>>
tokens == <<auth, cookie, public, header>>
inputs == <<handler, setsCookies, saved>>
program == <<username, op, calls, refused>>
vars == <<inputs, server, program, tokens, attempts, granted, stack, ret>>

PreLogin == {"launcher", "login", "two_factor"}   \* private_request(..., login=True)
Endpoint == PreLogin \cup {"validate", "tray", "timeline", "work", "logout",
                           "profile", "stream", "take"}
Lost == {"lost"}                         \* ClientRequestTimeout, ClientIncompleteReadError
PrivateErrors == {"login_required", "challenge", "masked", "bad_password", "two_factor",
                  "invalid_parameters", "throttled", "other"}
Raised == PrivateErrors \cup Lost \cup {"key_error", "relogin_exceeded"}

RequestFrame == [op : {"request"}, call : Endpoint, auth : Credential,
                 pc : {"send", "handle", "handled", "again"}]
LoginFrame == [op : {"login"}, relogin : BOOLEAN, code : BOOLEAN, since : 0..MaxSessions,
               pc : {"start", "validate", "pre", "ask", "two", "tray", "timeline"}]
CallFrame == [op : {"work", "logout"}, pc : {"sent"}]
ChallengeFrame == [op : {"challenge"}, login : BOOLEAN, round : 1..CodeRounds,
                   pc : {"open", "step", "passed", "answer", "taken", "form", "code"}]
SessionidFrame == [op : {"sessionid"}, user : Accounts, pc : {"sent", "stream"}]

TypeOK ==
  /\ handler \in {"none", "docs"} /\ setsCookies \in BOOLEAN /\ saved \in Credential
  /\ owner \in Seq(Accounts) /\ Len(owner) <= MaxSessions /\ live \subseteq Session /\ revocations \in 0..MaxRevocations
  /\ username \in Accounts
  /\ auth \in Credential /\ cookie \in Credential
  /\ public \in Credential /\ header \in Credential /\ granted \in Credential
  /\ attempts \in 0..2
  /\ stack \in Seq(RequestFrame \cup LoginFrame \cup ChallengeFrame \cup CallFrame \cup SessionidFrame)
  /\ ret \in Raised \cup {"none", "ok"}
  /\ op \in {"none", "login", "work", "logout", "sessionid"} /\ calls \in 0..MaxCalls
  /\ refused \subseteq Session

\* cookie_dict before authorization_data.
UserId == IF cookie # NoSession THEN cookie ELSE auth

\* init, with saved settings or none: cookies, authorization_data and the header.
\* No account is different from another: the first username is any one of them.
Init ==
  /\ handler \in {"none", "docs"} /\ setsCookies \in BOOLEAN
  /\ username = CHOOSE u \in Accounts : TRUE
  /\ saved \in {NoSession, <<username, 1>>}
  /\ auth = saved /\ header = saved /\ cookie \in {saved, NoSession}
  /\ owner = IF saved = NoSession THEN <<>> ELSE <<username>>
  /\ live \in SUBSET DOMAIN owner
  /\ public = NoSession /\ granted = NoSession
  /\ revocations = 0 /\ attempts = 0
  /\ stack = <<>> /\ ret = "none" /\ op = "none" /\ calls = 0
  /\ refused = {}

-------------------------------------------------------------------------------
(* The call stack.                                                           *)

Top == Head(stack)
At(o, place) == stack # <<>> /\ Top.op = o /\ Top.pc = place
Goto(place) == stack' = [stack EXCEPT ![1].pc = place]

\* Call f; the running call goes on at place.
Call(place, f) ==
  /\ stack' = <<f, [Top EXCEPT !.pc = place]>> \o Tail(stack)
  /\ ret' = "none"

Return(r) == stack' = Tail(stack) /\ ret' = r

\* private_request builds the Authorization header of the request at its start.
Request(call, token) == [op |-> "request", call |-> call, auth |-> token, pc |-> "send"]

LoginCall(relogin, code) ==
  [op |-> "login", relogin |-> relogin, code |-> code, since |-> Len(owner), pc |-> "start"]

\* Deeper than Python allows, a call raises.
CallChallenge(place, login, first) ==
  IF Len(stack) >= MaxDepth THEN Return("other")
  ELSE Call(place, [op |-> "challenge", login |-> login, round |-> 1, pc |-> first])

\* The request that was challenged, by the outermost challenge, is that of the login.
ForLogin == IF Top.call = "take" THEN stack[2].login ELSE Top.call = "login"

-------------------------------------------------------------------------------
(* private_request.                                                          *)

\* The header of the request goes before that of the session, and
\* should_use_header_over_cookies before the cookies.
Carried == IF Top.auth # NoSession THEN Top.auth
           ELSE IF header # NoSession THEN header ELSE cookie

\* What the server or the network may make of the request.
Answers(call) ==
  Lost \cup {"masked", "other"} \cup (IF call \in Challenged THEN {"challenge"} ELSE {}) \cup
  CASE call = "launcher" -> {"throttled"}
    [] call = "login" -> {"bad_password", "two_factor"}
    [] call = "two_factor" -> {"invalid_parameters"}
    [] OTHER -> {}

Accepted(call) == call \in PreLogin \cup {"take"} \/ (Carried # NoSession /\ Carried[2] \in live)

\* The server opens a session for the user and sends it with the answer.
Grants(s) ==
  /\ Len(owner) < MaxSessions
  /\ s = <<username, Len(owner) + 1>>
  /\ owner' = Append(owner, username) /\ live' = live \cup {s[2]}
  /\ UNCHANGED revocations

Opens ==
  \E s \in Credential : Grants(s) /\ granted' = s /\ cookie' = IF setsCookies THEN s ELSE cookie

Sending == (At("request", "send") \/ At("request", "again")) /\ ret = "none"

Succeeds ==
  /\ Sending /\ Accepted(Top.call)
  /\ \/ Top.call \in {"login", "two_factor"} /\ Opens
     \/ Top.call = "take" /\ ForLogin /\ Opens
     \/ /\ Top.call \notin {"login", "two_factor"}
        /\ live' = IF Top.call = "logout" THEN live \ {Carried[2]} ELSE live
        /\ granted' = NoSession /\ UNCHANGED <<cookie, owner, revocations>>
  /\ Return("ok")
  /\ UNCHANGED <<inputs, program, auth, public, header, attempts>>

\* Mutated form: a lost answer is asked for as often as it is lost.
FailsForever ==
  /\ Sending
  /\ \E e \in IF Accepted(Top.call) THEN Answers(Top.call)
              ELSE Lost \cup {"login_required", "other"} :
       IF e \in Lost THEN Goto(IF Top.pc = "send" THEN "again" ELSE "send") /\ UNCHANGED ret
       ELSE IF Top.pc = "again" THEN Return(e)
       ELSE Goto("handle") /\ ret' = e
  /\ granted' = NoSession
  /\ UNCHANGED <<inputs, server, program, tokens, attempts>>

\* A lost answer is asked for once more; any other error of the first attempt
\* goes to the handler, any error of the second one to the caller.
Fails ==
  /\ Sending
  /\ \E e \in IF Accepted(Top.call) THEN Answers(Top.call)
              ELSE Lost \cup {"login_required", "other"} :
       IF Top.pc = "again" THEN Return(e)
       ELSE IF e \in Lost THEN Goto("again") /\ UNCHANGED ret
       ELSE Goto("handle") /\ ret' = e
  /\ granted' = NoSession
  /\ UNCHANGED <<inputs, server, program, tokens, attempts>>

\* handle_exception of the documentation logs in again when the login is asked
\* for.
HandlerLogsIn ==
  /\ At("request", "handle") /\ handler = "docs" /\ ret = "login_required"
  /\ Call("handled", LoginCall(TRUE, FALSE))
  /\ UNCHANGED <<inputs, server, program, tokens, attempts, granted>>

\* Without a handler, and with that of the documentation, a challenge is
\* resolved, or cannot be: some need the app or a browser.  The handler leaves the
\* generic "/challenge/" alone.
ResolveChallenge ==
  /\ At("request", "handle") /\ ret = "challenge"
  /\ \/ handler = "docs" /\ Goto("handled") /\ ret' = "ok"
     \/ Return("challenge")
     \/ CallChallenge("handled", ForLogin, "open")
  /\ UNCHANGED <<inputs, server, program, tokens, attempts, granted>>

\* challenge_resolve({}): the 404 of a masked challenge has no JSON.
ResolveMasked ==
  /\ At("request", "handle") /\ ret = "masked"
  /\ Return("key_error")
  /\ UNCHANGED <<inputs, server, program, tokens, attempts, granted>>

RaiseOn ==
  /\ At("request", "handle")
  /\ ret \notin {"challenge", "masked"} \cup (IF handler = "docs" THEN {"login_required"} ELSE {})
  /\ Return(IF handler = "docs" /\ ret = "bad_password" /\ attempts > 0
              THEN "relogin_exceeded" ELSE ret)
  /\ UNCHANGED <<inputs, server, program, tokens, attempts, granted>>

\* The handler has returned: last_json during a login, the request once more
\* otherwise.  What it raised goes to the caller.
Handled ==
  /\ At("request", "handled") /\ ret # "none"
  /\ IF ret # "ok" THEN Return(ret)
     ELSE IF Top.call \in PreLogin /\ UserId # NoSession THEN Return("ok")
     ELSE Goto("again") /\ ret' = "none"
  /\ UNCHANGED <<inputs, server, program, tokens, attempts, granted>>

-------------------------------------------------------------------------------
(* challenge_resolve.  Its own requests are sent without a handler; its pages *)
(* ask for no session.                                                       *)

ChallengeErrors == {"challenge", "throttled", "other"} \cup Lost
AtChallenge(place) == At("challenge", place) /\ (place \in {"passed", "taken"} => ret # "none")
Ends(results) ==
  /\ \E r \in results : Return(r)
  /\ granted' = NoSession /\ UNCHANGED <<server, cookie>>
Proceeds(place) == Goto(place) /\ granted' = NoSession /\ UNCHANGED <<server, cookie, ret>>

\* The last page is answered; that of a login may open the session.
Closes ==
  /\ Return("ok")
  /\ \/ granted' = NoSession /\ UNCHANGED <<server, cookie>>
     \/ Top.login /\ Opens

\* The page of the challenge; another challenge_required leads to the contact form.
OpenChallenge ==
  /\ AtChallenge("open")
  /\ Proceeds("step") \/ Proceeds("form") \/ Ends(ChallengeErrors \ {"challenge"})

\* challenge_resolve_simple: the server names the step.
Deeper == CallChallenge("passed", Top.login, "step") /\ granted' = NoSession /\ UNCHANGED <<server, cookie>>

\* A review, a birthday, a step already closed, or one that needs the app.
ReviewStep == Closes \/ Ends(ChallengeErrors)
\* The way of the code is chosen, where there is a choice; challenge_code_or_raised.
CodeStep == Proceeds("answer") \/ Ends(ChallengeErrors)
\* submit_phone: the same step again is an error, another one is resolved in turn.
PhoneStep == Deeper \/ Ends(ChallengeErrors)
\* The Bloks redirect and the change of the password go through private_request.  A
\* change that is refused passes as one that is done.
TakeStep ==
  \/ Ends({"challenge"})
  \/ /\ \E place \in {"taken", "passed"} : Call(place, Request("take", auth))
     /\ UNCHANGED <<server, cookie, granted>>
ChallengeStep == AtChallenge("step") /\ (ReviewStep \/ CodeStep \/ PhoneStep \/ TakeStep)

\* The code, and in a recovery the agreement to the contact data behind it.
CodeSent == AtChallenge("answer") /\ (Closes \/ Ends(ChallengeErrors))

Passed ==
  /\ AtChallenge("passed") \/ (AtChallenge("taken") /\ ret # "ok")
  /\ Return(ret) /\ UNCHANGED <<server, cookie, granted>>

\* The redirect is closed, still there, or followed by a step.
Redirected ==
  /\ AtChallenge("taken") /\ ret = "ok"
  /\ \/ \E r \in {"ok", "challenge"} : Return(r) /\ UNCHANGED <<server, cookie, granted>>
     \/ Deeper

\* The contact form has a session of its own.  The code goes by email, else by text
\* message; when the form is still there after both, its exception is raised.
ContactForm == AtChallenge("form") /\ (Proceeds("code") \/ Ends({"ok", "other"}))

\* A code that is wrong is asked for again; after the right one the contact data is
\* agreed to.
ContactCode ==
  /\ AtChallenge("code")
  /\ \/ /\ Top.round < CodeRounds /\ stack' = [stack EXCEPT ![1].round = @ + 1]
        /\ UNCHANGED <<ret, granted, server, cookie>>
     \/ Ends({"ok", "challenge", "other"})

ResolvesChallenge ==
  /\ OpenChallenge \/ ChallengeStep \/ CodeSent \/ Passed \/ Redirected \/ ContactForm \/ ContactCode
  /\ UNCHANGED <<inputs, program, auth, public, header, attempts>>

-------------------------------------------------------------------------------
(* login.                                                                    *)

AtLogin(place) == At("login", place) /\ ret # "none"

\* Mutated form: the header of the session is kept.
ClearKeepsHeader ==
  auth' = NoSession /\ cookie' = NoSession /\ public' = NoSession /\ UNCHANGED header

\* _clear_session_state, as relogin and logout use it.
ClearSession ==
  auth' = NoSession /\ header' = NoSession /\ cookie' = NoSession /\ public' = NoSession

\* Mutated form: a session at hand is taken for valid.
LoginTrusts ==
  /\ At("login", "start") /\ ~Top.relogin
  /\ IF UserId # NoSession THEN Return("ok") ELSE Call("pre", Request("launcher", auth))
  /\ UNCHANGED <<inputs, server, program, tokens, attempts, granted>>

\* A session at hand is validated, else the flow begins.
LoginStarts ==
  /\ At("login", "start") /\ ~Top.relogin
  /\ IF UserId # NoSession THEN Call("validate", Request("validate", auth))
                           ELSE Call("pre", Request("launcher", auth))
  /\ UNCHANGED <<inputs, server, program, tokens, attempts, granted>>

\* Mutated form: one relogin more.
ReloginStartsOnceMore ==
  /\ At("login", "start") /\ Top.relogin
  /\ ClearSession
  /\ IF attempts > 2
       THEN Return("relogin_exceeded") /\ UNCHANGED attempts
       ELSE Call("pre", Request("launcher", NoSession)) /\ attempts' = attempts + 1
  /\ UNCHANGED <<inputs, server, program, granted>>

ReloginStarts ==
  /\ At("login", "start") /\ Top.relogin
  /\ ClearSession
  /\ IF attempts > 1
       THEN Return("relogin_exceeded") /\ UNCHANGED attempts
       ELSE Call("pre", Request("launcher", NoSession)) /\ attempts' = attempts + 1
  /\ UNCHANGED <<inputs, server, program, granted>>

\* account_info: LoginRequired turns the call into a relogin.
Validated ==
  /\ AtLogin("validate")
  /\ IF ret = "login_required"
       THEN /\ stack' = <<LoginCall(TRUE, Top.code)>> \o Tail(stack)
            /\ ret' = "none"
       ELSE Return(ret)
  /\ UNCHANGED <<inputs, server, program, tokens, attempts, granted>>

\* pre_login_flow: 429 is ignored.
PreLoginDone ==
  /\ AtLogin("pre")
  /\ IF ret \in {"ok", "throttled"} THEN Call("ask", Request("login", auth)) ELSE Return(ret)
  /\ UNCHANGED <<inputs, server, program, tokens, attempts, granted>>

\* accounts/login/ or accounts/two_factor_login/ has answered: what last_response
\* grants is the session, and login_flow begins.
Logged ==
  /\ (AtLogin("ask") \/ AtLogin("two")) /\ ret = "ok"
  /\ auth' = granted
  /\ granted' = NoSession
  /\ Call("tray", Request("tray", granted))
  /\ UNCHANGED <<inputs, server, program, cookie, public, header, attempts>>

NeedsCode ==
  /\ AtLogin("ask") /\ ret = "two_factor" /\ Top.code
  /\ Call("two", Request("two_factor", auth))
  /\ UNCHANGED <<inputs, server, program, tokens, attempts, granted>>

\* Where the current login screens may still do: after bad_password (with a code
\* where the server asks for one), and for a code the old endpoint refuses.
BloksTried ==
  \/ AtLogin("ask") /\ (ret = "bad_password" \/ (ret = "two_factor" /\ Top.code))
  \/ AtLogin("two") /\ ret = "invalid_parameters"

\* bloks_apply_login_response.
BloksLogin ==
  /\ BloksTried
  /\ \E s \in Credential :
       /\ Grants(s)
       /\ auth' = s /\ header' = s
       /\ cookie' = IF setsCookies THEN s ELSE cookie
       /\ public' = IF setsCookies THEN s ELSE public
       /\ Call("tray", Request("tray", s))
  /\ granted' = NoSession
  /\ UNCHANGED <<inputs, program, attempts>>

LoginRaises ==
  /\ \/ AtLogin("ask") /\ ~(ret = "two_factor" /\ Top.code)
     \/ AtLogin("two") \/ AtLogin("tray") \/ AtLogin("timeline") \/ BloksTried
  /\ ret # "ok"
  /\ \E e \in IF BloksTried THEN {ret, "two_factor", "challenge", "other"} ELSE {ret} : Return(e)
  /\ UNCHANGED <<inputs, server, program, tokens, attempts, granted>>

TrayDone ==
  /\ AtLogin("tray") /\ ret = "ok"
  /\ Call("timeline", Request("timeline", auth))
  /\ UNCHANGED <<inputs, server, program, tokens, attempts, granted>>

LoginDone ==
  /\ AtLogin("timeline") /\ ret = "ok"
  /\ attempts' = 0
  /\ Return("ok")
  /\ UNCHANGED <<inputs, server, program, tokens, granted>>

-------------------------------------------------------------------------------
(* logout and login_by_sessionid.                                            *)

LoggedOut ==
  /\ At("logout", "sent") /\ ret # "none"
  /\ IF ret = "ok" THEN ClearSession /\ attempts' = 0 ELSE UNCHANGED <<tokens, attempts>>
  /\ Return(ret)
  /\ UNCHANGED <<inputs, server, program, granted>>

\* user_info_v1, then the private stream, then GraphQL, tell whose the sessionid is.
SessionidFails ==
  /\ \/ At("sessionid", "sent") /\ ret \notin PrivateErrors \cup {"none", "ok"} /\ Return(ret)
     \/ At("sessionid", "stream") /\ ret \notin {"none", "ok"} /\ Return("other")
  /\ UNCHANGED <<inputs, server, program, tokens, attempts, granted>>

SessionidAsksStream ==
  /\ At("sessionid", "sent") /\ ret \in PrivateErrors
  /\ Call("stream", Request("stream", auth))
  /\ UNCHANGED <<inputs, server, program, tokens, attempts, granted>>

SessionidTaken ==
  /\ \/ At("sessionid", "sent") /\ ret = "ok"
     \/ At("sessionid", "stream") /\ ret # "none"
  /\ username' = Top.user
  /\ auth' = <<Top.user, IF auth = NoSession THEN 0 ELSE auth[2]>>
  /\ cookie' = <<Top.user, IF cookie = NoSession THEN 0 ELSE cookie[2]>>
  /\ header' = auth'
  /\ Return("ok")
  /\ UNCHANGED <<inputs, server, op, calls, refused, public, attempts, granted>>

WorkDone ==
  /\ At("work", "sent") /\ ret # "none"
  /\ Return(ret)
  /\ UNCHANGED <<inputs, server, program, tokens, attempts, granted>>

-------------------------------------------------------------------------------
(* The program, one call at a time, and the server.                          *)

Refused == DOMAIN owner \ live

Begin(o, frames) ==
  /\ stack = <<>> /\ calls < MaxCalls
  /\ calls' = calls + 1 /\ op' = o
  /\ refused' = IF o = "login" THEN Refused ELSE {}
  /\ stack' = frames /\ ret' = "none"

UserLogsIn ==
  /\ \E u \in Accounts, code \in BOOLEAN :
       username' = u /\ Begin("login", <<LoginCall(FALSE, code)>>)
  /\ UNCHANGED <<inputs, server, tokens, attempts, granted>>

UserRelogs ==
  /\ Begin("login", <<LoginCall(TRUE, FALSE)>>)
  /\ UNCHANGED <<inputs, server, username, tokens, attempts, granted>>

UserCalls ==
  /\ \E o \in {"work", "logout"} :
       Begin(o, <<Request(o, auth), [op |-> o, pc |-> "sent"]>>)
  /\ UNCHANGED <<inputs, server, username, tokens, attempts, granted>>

\* login_by_sessionid with a session from a browser: init replaces the cookies,
\* and takes the header from the settings.
UserGivesSessionid ==
  /\ Len(owner) < MaxSessions
  /\ \E u \in Accounts, accepted \in BOOLEAN :
       LET s == <<u, Len(owner) + 1>>
       IN /\ auth' = s /\ cookie' = s /\ header' = saved
          /\ owner' = Append(owner, u)
          /\ live' = IF accepted THEN live \cup {s[2]} ELSE live
          /\ Begin("sessionid", <<Request("profile", s),
                                  [op |-> "sessionid", user |-> u, pc |-> "sent"]>>)
  /\ UNCHANGED <<inputs, revocations, username, public, attempts, granted>>

\* inject_sessionid_to_public, by the calls that use the web pages.
Inject ==
  /\ stack = <<>> /\ calls < MaxCalls
  /\ UserId # NoSession /\ public # UserId
  /\ public' = UserId
  /\ UNCHANGED <<inputs, server, program, auth, cookie, header, attempts, granted, stack, ret>>

Revoke ==
  /\ revocations < MaxRevocations /\ (stack # <<>> \/ calls < MaxCalls)
  /\ \E s \in live : live' = live \ {s}
  /\ revocations' = revocations + 1
  /\ UNCHANGED <<inputs, owner, program, tokens, attempts, granted, stack, ret>>

Private ==
  \/ Succeeds \/ Fails \/ HandlerLogsIn \/ ResolveChallenge \/ ResolveMasked \/ RaiseOn \/ Handled
  \/ ResolvesChallenge

Auth ==
  \/ LoginStarts \/ ReloginStarts \/ Validated \/ PreLoginDone \/ Logged \/ NeedsCode
  \/ BloksLogin \/ LoginRaises \/ TrayDone \/ LoginDone
  \/ LoggedOut \/ SessionidFails \/ SessionidAsksStream \/ SessionidTaken \/ WorkDone

User == UserLogsIn \/ UserRelogs \/ UserCalls \/ UserGivesSessionid \/ Inject

Next == Private \/ Auth \/ User \/ Revoke

Spec == Init /\ [][Next]_vars

\* Every request is answered or fails, and every sleep ends.
FairSpec == Spec /\ WF_vars(Private \/ Auth)

-------------------------------------------------------------------------------
(* Properties.                                                               *)

Held == {auth, cookie, public, header} \ {NoSession}

\* "Re-login with clean cookies": from the moment a relogin has begun, at any
\* depth of calls, the client holds no credential that is older than it.
NothingOldSurvivesRelogin ==
  \A n \in DOMAIN stack :
    stack[n].op = "login" /\ stack[n].pc # "start" /\ stack[n].relogin
      => \A s \in Held : s[2] > stack[n].since

Idle(o, r) == stack = <<>> /\ op = o /\ ret = r

\* A login that returned True has a user, and a session the server did not
\* already refuse when login was called.
LoginIsServed ==
  Idle("login", "ok") =>
    /\ UserId # NoSession
    /\ (IF auth # NoSession THEN auth ELSE cookie)[2] \notin refused

\* "If Instagram rejects it, ... the supplied credentials are used to log in
\* again": a login raises LoginRequired only if the server ended a session while
\* it ran.
RejectedSessionIsReplaced ==
  Idle("login", "login_required") => ~ (Refused \subseteq refused)

\* A login ends with a session the server accepts, or says why not.
LoginValidates == LoginIsServed /\ RejectedSessionIsReplaced

\* Every call returns, whatever errors the server answers with, and however
\* deep the handler's relogins nest.
Terminates == []<>(stack = <<>>)

\* The documented handler logs in again and returns; the request is then sent
\* once more.  It should go out with the session the login has opened.
ResendCarriesTheSession ==
  At("request", "again") /\ NoSession \notin {auth, Top.auth} => Top.auth = auth

===============================================================================
