# Verification of instagrapi and its desktop applications

This directory holds TLA+ models of the parts of this repository whose
correctness depends on order: the desktop applications under `apps/`, where a
window, a worker thread, a browser and Instagram interleave, and the
`instagrapi` client, where one call may log in again in the middle of another,
where lists are collected from pages, where a write is many requests over a
connection that loses some of them, where caches are shared by every client of a
process, and where a push connection is kept open. TLC checks each model on a small instance; TLAPS proves the
theorems listed below for every value of the constants.

`PROJECT.json` lists the components, the runs, which source lines each
definition stands for, the hazards and the findings.

## 1. Inventory

### The desktop applications (`apps/`)

| Component | State it keeps | Operations | Hard behaviour | What makes it correct |
|---|---|---|---|---|
| Instagram Tools window (`instagram_tools/app.py`) | `running_kind`, `stop_requested_kind`, `closing`, the scanned rows, `scanned_viewer_id`, status lines | start, stop, clear profile, close, drain events | its state lags behind the worker's; a confirmation box keeps the event loop running; late events | one operation at a time; the list on screen is current; what is confirmed is what is written; closing ends the process |
| Automation worker (`instagram_tools/worker.py`) | `busy`, `accepting`, command queue, stop event, the Chrome session | `submit`, `stop_current`, `shutdown`, `_run` | races of submit, stop and shutdown with the thread | a stop reaches its operation and no other; every end of an operation is announced |
| Non-follower cleaner, scan (`non_follower_cleaner/engine.py`) | cursors seen, accounts collected | `scan` | partial pages, cursors that lead back, empty pages, stop | the offer is the difference of two complete lists or there is none |
| Non-follower cleaner, unfollow (`non_follower_cleaner/engine.py`) | `UnfollowSummary` | `unfollow_selected` | answers that are late, lost or wrong; a second endpoint; account switches; stop between check and request | only reviewed accounts, under the reviewed viewer, at most two requests each, and a report that is true |
| Friendship backends (`instagram_tools/browser.py`, `non_follower_cleaner/browser.py`) | none | `unfollow`, `viewer_id`, pages of lists | what a 2xx answer proves | as above |
| Following feed scanner (`following_auto_liker/engine.py`, `browser.py`) | `seen_keys`, `ScanSummary` | `scan_once` | the page changes under positions that are resolved again; restrictions; clicks that time out | only organic posts, above the marker, each once, within the limit |
| Shared Chrome session (`following_auto_liker/browser.py`) | Playwright, context, page | start, wait for login, close | the user closes Chrome | closed before the lock is given back |
| Storage and lock (`following_auto_liker/storage.py`) | files, lock, profile directory | save and load the configuration, lock, clear profile | two processes, a crash, an orphaned Chrome | one process per profile |
| Standalone windows (`following_auto_liker/app.py`, `non_follower_cleaner/app.py`) | as Instagram Tools, one thread per operation | | | superseded by Instagram Tools |

Interaction: the window puts commands into the worker's queue and sets its stop
event; the worker puts events into the queue that `_drain_events` polls every
100 ms. The worker runs the engines, which call a backend; a backend runs
JavaScript in the page of Chrome. The stop event and the two queues are the only
shared state; `busy` and `accepting` are guarded by the worker's lock.

### The library (`instagrapi/`)

| Component | State it keeps | Hard behaviour | What makes it correct |
|---|---|---|---|
| Requests and session (`mixins/private.py`, `mixins/auth.py`) | `authorization_data`, cookies of two HTTP sessions, the Authorization header, `relogin_attempt`, `last_json`, settings | the exception handler logs in from within a failing request; a saved session that the server has ended; four places for one credential | nothing old survives a relogin; login ends with a live session; the recursion is bounded |
| Challenge resolver (`mixins/challenge.py`) | `last_json`, `challenge_code` | loops of forms and codes, server-driven steps | ends; raises what the caller can handle |
| Public and GraphQL requests (`mixins/public.py`, `mixins/graphql.py`) | the public session | retry against statuses that must not be retried | bounded retries, the right exception |
| Realtime and FBNS (`realtime/client.py`, `fbns.py`, `mqttot.py`, `mixins/realtime.py`) | socket, `connected`, `_packet_id`, handlers, one client per mixin | handlers that raise or publish between a message and its acknowledgement; a connection that breaks under a call, a disconnect between two steps of one; packets that come byte by byte | a message is acknowledged after its handlers; what `connected` says is so; every call ends |
| MQTToT codec (`realtime/mqttot.py`) | none | fields as distances, skipped fields; packets without a mark between them, lengths that grow by a byte | what is written is what is read, by readers that know fewer fields too; the stream stays in step |
| Uploads (`photo.py`, `video.py`, `album.py`, `clip.py`, `igtv.py`) | none beyond a call | lost answers, repeated requests, configure while the server transcodes, another device of the account | published once and whole; the answer is the post that was uploaded |
| Calls that write (`direct.py`, `comment.py`, `account.py`, `note.py`, ...) | none beyond a call | the same connection | sent once, no step left out, a failure reported as one |
| Paging (`user.py`, `media.py`, `hashtag.py`, `location.py`, `direct.py`, ..., `utils/iterators.py`) | cursors, items so far | amounts, page sizes, cursors that are missing or lead back, errors halfway, fallback to another API | nothing lost or repeated, the amount kept, loops end |
| Caches (`user.py`, `media.py`, `story.py`) | users, short users, names, follow lists, medias, stories; class attributes, so one for all clients | names that change hands, lists cached with an amount or truncated, own writes whose answer is lost | an answer is what was asked for; own writes are seen |
| Attestation, password, TOTP | keys | cryptography | outside TLC's reach |
| Signup, Bloks, captcha | one flow per call | polling, server-driven screens | |
| Extractors, types, helpers, reads that are one request | none | none | data conversion |

The mixins are one object, `Client`: they call each other directly and share its
attributes. Every method ends in `private_request`, `public_request` or a GraphQL
request; `ClientSession` models what happens inside one of those, the other
modules take it as one step that succeeds, fails or is sent again.

## 2. Modules

| Module | Models |
|---|---|
| `AutomationWorker` | the worker thread and the calls the window makes into it |
| `InstagramTools` | the window, composed with the worker (`EXTENDS AutomationWorker`) |
| `UnfollowLedger` | abstract: what an unfollow run promises to the account that was reviewed |
| `UnfollowRun` | one `unfollow_selected` with either backend, the user and the server; implements `UnfollowLedger` |
| `FriendshipScan` | one `scan`, with the server that serves or cuts the pages |
| `FeedScanner` | one `scan_once` over a feed that moves |
| `ClientSession` | `private_request`, `login`, `relogin`, `login_by_sessionid`, `logout` on one call stack |
| `Paging` | the loops that collect a list: 46 methods as records of a table, one machine, one server |
| `AccountCaches` | the shared caches, the lookups that go through them, the writes that must clear them |
| `Procedures` | the calls that write: 82 methods as records of a table, one machine, a lossy connection |
| `RealtimeClient` | `RealtimeClient`, `FbnsClient`, their transport and mixin, with a broker and a second thread |
| `MQTToT` | the thrift codec of `realtime/mqttot.py` |
| `PacketCodec` | its packets: the writers, `recv_packet`, `decode_packet` |
| `InstagramToolsProofs`, `UnfollowRunProofs`, `FeedScannerProofs`, `ClientSessionProofs`, `AccountCachesProofs`, `ProceduresProofs` | the theorems about the module of the same name |
| `ListProofs` | the theorems about `FriendshipScan` and `Paging` |
| `RealtimeClientProofs` | the theorems about `RealtimeClient` and `PacketCodec` |
| `MC...` | constants for TLC |

### AutomationWorker and InstagramTools

`pc` is the place of the thread in `_run`; `commands` and `events` are the two
queues; `busy`, `accepting` and the stop event are the attributes of the same
names. Each action is the code between two points at which the other thread can
observe a difference: the lock regions, the queue operations, the looks at the
stop event. An operation inside the engine is reduced to what the window and
the worker can tell apart: progress events, its first write, how it ends.

On the side of the window every Tk callback is one action, because Tk runs a
callback to its end. `_drain_events` is the exception: it is a loop over a queue
the worker is filling, so that taking one event is one action, with everything
`_drain_events` does for that event including `_restore_pending_stop_status`. The
confirmation box of an unfollow splits its callback in two (`AskUnfollow`,
`ConfirmUnfollow`): while it is open, drains run and user input does not. The
boxes that `_drain_events` itself opens are part of the drain.

`candidates` and `viewer` both hold the number of the scan they come from; the
code keeps them in two attributes that are written at different moments, and
`UnfollowActsOnTheReview` says that they agree when it matters.

### UnfollowRun and UnfollowLedger

`pc` walks through `_normalize_selected_accounts`, the loop of
`unfollow_selected` (`next`, `wait`, `check`) and one call of the backend
(`request`, `send`, `sent`, `confirm`). The server applies a request before it
answers, after it, or never (`inFlight`); the answers are classified as in
`browser.py`: confirmed, 2xx without proof, `status=fail`, refused, throttled,
time-out. `verified` is chosen in `Init`: TRUE is `VerifiedFriendshipBackend`
(two endpoints and a reading of the relation), FALSE the standalone
`PlaywrightFriendshipBackend`.

`UnfollowLedger` knows only accounts: which were chosen, which the reviewed
viewer follows, for which a result is open (`doubt`), which are reported. It
allows one open request at a time, a report only after a request, a report by the
verified backend only if the relation is gone, and no change of a relation
nobody asked to change. `UnfollowRun` implements it under the mapping `Ledger`
at the end of the module: `doubt` is what was posted and not reported.

What the model of the environment excludes, and why:

- The user never follows an account again while the run lasts, and a reading of
  the relation is honest. Without that no report could be true.
- The user may log into another account in the same Chrome at `SwitchPlaces`.
  The run allows it during the delays, which is where the code defends itself
  (`engine.py:227`). A switch in the moment between that check and the request,
  or before the second endpoint is tried, is not detected by the code; the
  theorems name this as their assumption (`SwitchAssumption`).

### FriendshipScan

A list is cut into pages, and the server serves each page whole, or a part of it
with one of the signs that `engine.py` recognises (the limited-list flag, `more`
without a cursor), or a cursor that leads back, or something unreadable. A
list cut short without any sign is excluded: no client could notice it. The order of
the accounts within a page is any. `offered` holds the positions that
`non_followers` takes from the following list. Its definitions bear the prefix `Scan`, so
that one module can extend it together with `Paging`.

### FeedScanner

The page shows a window of the feed. A post of a pass is a position, resolved
again at every use as `Locator.nth` does; key and exclusion reason are read once
when the pass begins. The page may move by itself once, at `ShiftPlaces`; labels
that change without a move and selectors that match nothing are outside the model.

### ClientSession

`stack` is Python's call stack, with one frame per call of `private_request`,
`login`/`relogin`, `login_by_sessionid`, `logout`, `challenge_resolve` or any other
request; `ret` is
what the call that just ended returned or raised. The exception handler is the
one of `docs/usage-guide/handle_exception.md` or none. A credential is an account and
the number of the session the server opened for it; `auth`, `cookie`, `public`
and `header` are the four places the code keeps it in. The server answers each
request with success or any of the errors the code tells apart, may end a
session at any moment (`MaxRevocations`), and refuses a request whose
Authorization header names an ended session.

`challenge_resolve` is a frame too: the server may challenge the requests of
`Challenged`, the resolver opens the page, follows the step the server names (`ReviewStep`,
`CodeStep`, `PhoneStep`, `TakeStep`) or the contact form, and the last page of a
challenged login may open the session. A Bloks redirect and a change of the password
go through `private_request` again, whose challenge is resolved in turn; `submit_phone`
and the redirect also call the resolver themselves. `MaxDepth` is the depth at which
Python raises `RecursionError`.

The caller is assumed to have given a user name and a password. The Bloks login is an
answer of a request here.

### Paging

A method is a record of `Calls`. It has at most two stages: a *page*, which is one
request or a chunk that loops by itself (`user_followers_v1_chunk`), and the *loop*
of the method that asks for page after page (`iter_user_followers_v1`, or
`utils/iterators.py`). A stage says how many items a request names (`asks`),
what it keeps of a page (`keeps`), what ends it (`stops`), whether an item
known to the caller ends it (`known`) and which errors it takes for the end (`keepsOn`). A
method further says what it does with amount 0, whether it trims, and to which method it
falls back after which error. `inner` and `outer` are the local variables of the two
stages, `requests` and `faults` are history. Each action is one request together with
everything the code does with the answer: `Serves` (any cut of the list that the request
allows), `ServesNothing` (an empty page), `LeadsBack` (a cursor to something
already served), `Fails` (one of the error classes the code tells apart). `Handled` and
`Raised` are the code behind the answer.

### AccountCaches

`users`, `shorts`, `names`, `lists`, `medias` and `stories` are `_users_cache`,
`_userhorts_cache`, `_usernames_cache`, `_users_following`/`_users_followers`,
`_medias_cache` and `_stories_cache`. They are attributes of the mixin classes, hence one for all
clients; `Ask...` actions choose a client with a session or one without by choosing the
path. A call is held in `call` between its requests, because the server may
change between them (`Rename`, `ListsChange`, `MediasChange`). The four areas that share no
state are examined one at a time; `Init` chooses.

`lists` has the two spellings of its key in it: reads and `user_follow` use the text, the
two removals the number, so that they find nothing (finding 2).

### Procedures

A method is the sequence of its requests, in code order, with what is conditional in
the code: skipped by an argument (`optional`), skipped by an answer (`skips`), repeated on
an answer up to `tries` times (`again`) from an earlier request on (`back`), needing
something of the answer (`needs`), turning an answer into the result (`flag`), swallowing
an error (`ignores`, `hides`). `id` says whether a request carries an id the server can tell
a repetition by: one for the whole call, one for each attempt, or none. `via` says which
layers repeat it: `private_request` once after a 408 or a broken-off answer
(`private.py:689`), the adapter of its session on a broken connection
(`instagrapi/__init__.py`), or none. The machine runs the record: `Exchange`
(request and answer arrive), `Break`, `ComeLate`, `Skip`, `ExtractMedia` and
`FindNewMedia` (the search for the post a configure did not return), `OtherDevice`.

Assumed of the server: a request that repeats an id is answered and not acted upon; a
setting set twice is set; a request that may succeed once is refused when repeated.

### RealtimeClient, MQTToT and PacketCodec

`kind` says which of the two clients it is, `call` and `pc` where its one running call
stands: `recv` (a read), `emit` (a handler), `ack`, and the steps of connect and
registration. `wire` is what the broker has sent; `owes`, `unacked` and `ours` are what it still
has to answer, to see acknowledged and to acknowledge. `UserConnects`,
`UserReads`, `UserPings`, `UserPublishes`, `UserRegisters` begin a call; `HandlerPublishes`
is a publish from within a handler. `Reads`, `RecvFails` and `Ack` are the code after a read
returned, timed out or failed, per call. `cut` says that a read gave up inside
a packet, after which the stream is out of step. `Trickle` is a byte that does not end its
packet: each has the socket's time-out to itself (`mqttot.py:595-602`).

A disconnect may begin at any moment, in a handler or in another thread, and has four
steps, with those of the call between them: `DisconnectBegins` (DISCONNECT is sent, or
fails to), `TransportDisconnects` (the socket is gone), `DisconnectNotes` (`connected` is
FALSE) and `MixinForgets` (the mixin drops the client, unless `disconnect` was called on
the client itself); `closing` is the next of them. `session` is a history of what became of
FbnsClient's last CONNECT: not answered yet, on a client that was connected before
(`again`) or was not (`new`); `accepted`; accepted and its socket closed before `connect`
ended (`undercut`); or seen to fail by a call (`broken`).

`MQTToT` and `PacketCodec` work on bytes; their functions are the writers and readers.
The state of `MQTToT` is a dict that grows by one entry at a time, with the descriptors
of CONNECT and FOREGROUND_STATE as in the code; integers have their width, as a constant.
That of `PacketCodec` is a stream, to which `SendPacket` adds the bytes of a packet the
clients write or the broker answers with (any but PUBACK and SUBACK), and from which `ReceivePacket` takes what
`recv_packet` takes; `sent` is the packets that were not read, what the stream should be.
The `codec` run composes the two: a behaviour fills a dict or uses a stream.

## 3. Runs

Every run uses two workers and ends within five minutes.

| Run | Module | Distinct states | Shows |
|---|---|---|---|
| `tools` | `MCInstagramTools` | 492 708 | `WindowAndWorkerAgree`, `StopKeepsToItsOperation`, `ReviewIsCurrent`, `ExitLeavesNoChrome`, `StopAndCloseAreServed` |
| `unfollow` | `MCUnfollowRun` | 278 592 | `VerifiedReportIsTrue`, `WritesAreReviewed`, `RunAddsUp`, `KeepsTheLedger`, `Terminates` with both backends |
| `scan` | `MCFriendshipScan` | 305 748 | `ScanIsExact`: the offer is exact or absent, without false alarms; `ScanTerminates` |
| `feed` | `MCFeedScanner` | 1 669 736 | `EveryClickIsDue`, `SummaryIsTrue`, `Terminates` |
| `session` | `MCClientSession` | 1 524 817 | `NothingOldSurvivesRelogin`, `LoginValidates`, `Terminates` |
| `paging` | `MCPaging` | 101 521 | `CollectedOnce`, `AnswerIsTheList`, `Terminates` |
| `caches` | `MCAccountCaches` | 104 313 | `CachesAnswerTheCall`, `ReadsOwnWrites` |
| `procedures` | `MCProcedures` | 484 160 | `WritesAreWhole`, `AnswersAreTrue`, `Terminates` |
| `realtime` | `MCRealtimeClient` | 1 667 694 | `ConnectionIsKnown`, `AcksFollowHandlers`, `Terminates` |
| `codec` | `MCMQTToT` | 25 698 | `ReadersAgree`, `StreamStaysInStep` |
| `session_stale`, `caches_follow_again` | | | findings, see section 6 |

Every run but `codec`, which has no state worth a type, also checks its `TypeOK` (`ScanTypeOK`).
Properties that are a conjunction, and their parts (each is commented where it is
defined):

- `WindowAndWorkerAgree` = `OperationIsConserved`, `IdleWindowIsAccepted`: an operation of the window is
  in exactly one of queue, thread and event queue, so a window that shows itself
  idle is never refused. This rests on the order of `busy = False` and
  `operation_finished` in `worker.py`.
- `StopKeepsToItsOperation` = `StopHitsOnlyItsOperation`, `PendingStopIsShown`.
- `ReviewIsCurrent` = `OfferedListIsCurrent`, `UnfollowActsOnTheReview`: no write
  and no deletion of the login that succeeded lies between the scan and the list
  offered, or confirmed. A deletion that fails is excepted (section 6).
- `StopAndCloseAreServed` = `StopEndsTheOperation`, `CloseEndsTheProcess`.
- `RunAddsUp` = `AtMostTwoRequests`, `StopLetsOneOut`, `NoResultIsLost`, `LimitHolds`.
- `ScanIsExact` = `OfferIsTheDifference`, `HonestScanSucceeds`.
- `EveryClickIsDue` = `ClicksAreRight`, `NoClickAfterWarning`; `SummaryIsTrue` =
  `SummaryAddsUp`, `CaughtUpMeansLiked`.
- `LoginValidates` = `LoginIsServed`, `RejectedSessionIsReplaced`.
- `CollectedOnce` = `NothingSkipped`, `NoneTwice`; `AnswerIsTheList` =
  `DoneMeansComplete`, `AmountIsKept`.
- `CachesAnswerTheCall` = `NamesLeadToTheirBearers`, `ListsHoldTheAmount`;
  `ReadsOwnWrites` = `FollowsAreRemembered`, `OwnWritesShow`. Who bears a name is judged at
  the moment of the answer (`answer.seen`, which no action reads). Three things the code
  does are excepted by name: an answer by id that went by an outdated short user, a media whose
  deletion was not answered, a story cached under its full id (section 6).
- `WritesAreWhole` = `OnceOnly` (however often a request is repeated, the server acts
  once), `NoStepIsSkipped`; `AnswersAreTrue` = `AnswerIsTheUpload`, `FailureIsHonest`.
- `ConnectionIsKnown` = `FbnsKnowsItIsClosed`, `NoIdTwice`. FbnsClient says it is connected
  only while it has a socket that was accepted and on which nothing has failed. Excepted are
  the time a disconnect is under way, and by name (`ConnectSlipped`) the two ways in which
  `connect` leaves it connected without one (section 6).
- `Terminates` of `realtime` is said of behaviours in which no packet trickles for ever:
  `recv_packet` has no limit of its own (section 6).

### Bounds

| Constant | Value | Why it is enough |
|---|---|---|
| `MaxOps` (tools) | 3 | scan, unfollow and one operation before, between or after them; the relations between operations that the properties speak of involve two |
| `MaxProgress` | 1 | one late event is enough to be late |
| `Accounts` / `MaxSelected` (unfollow) | 2 / 3 | a target before and after the one that fails, and a selection that repeats one |
| `Viewers` | 2 and nobody | the reviewed account, another one, logged out |
| `MaxLimit` | 1 | 0 (no limit), and a limit below, at and above the selection |
| `LastPage` (scan) | 2 | first, middle and last page of both lists, with cursors that skip or repeat |
| `Posts`, `MaxFeed` | 2, 2 | an organic post and one excluded, in both orders, or a post shown twice |
| `MaxScrollRounds`, `UnchangedRounds` | 2, 2 | both ways to give up, each at its boundary |
| `Accounts` (session) | 1 | no step compares accounts: a second one would only rename states |
| `MaxSessions`, `MaxRevocations`, `MaxCalls` | 3, 1, 2 | a saved session, its replacement and one more; a relogin nested in a call, after a call that left its state behind |
| `MaxDepth` | 5 (about 1000) | a call, its request, a challenge, the request of that challenge and one level more; with the limit at any depth the frames below see an exception |
| `Challenged` | the login, its validation, any other request, `take_challenge` | one endpoint of each kind the resolver tells apart |
| `CodeRounds` | 2 (5) | a code that is repeated and the last one |
| `Listing`, `PageMax` (paging) | 5, 3 | first, middle and last page; pages of any size up to the longest, so that amounts fall on, before and behind a page boundary |
| `Amounts`, `PageSizes`, `Known` | {0, 1, 3}, {0, 2}, {0, 3} | all, less than a page, more than one page; the default page and one that divides nothing |
| `MaxFaults` (paging) | 2 | a fault in a method and one in the method it falls back to |
| `MaxRequests` | 30 | above what any method needs; a method that reached it would be stuck and violate `Terminates` |
| `Users`, `Names` (caches) | 2, 3 | a name that passes from one account to the other by way of a third; both sets are symmetric |
| `Amounts`, `Limited`, `MaxChanges`, `MaxFaults` | {0, 1, 2}, 1, 2, 2 | less than the list, all of it; a list Instagram cuts; a change between any two of three requests |
| `PhotoTries`, `VideoTries`, `LookTries` (procedures) | 2, 3, 2 for 10, 50, 5 | first, middle and last attempt; the loops do the same at every attempt between |
| `Retries`, `MaxFaults`, `MaxForeign` | 1 (3), 2, 1 | a repetition by each of the two layers in one request; one change from elsewhere |
| `Window`, `Older` | 2 (20), 3 | more posts than one reading shows, so that old ones can move into it |
| `PingPackets`, `RegisterPackets` (realtime) | 2 (5), 2 (10) | another packet before the expected one, and one too many |
| `MaxWire` | 1 | one packet in hand and one on the way: one is sent again while it is handled |
| `MaxId`, `BrokerIds`, `MaxHandlers` | 2 (65535), one, 1 | the end of the id range is reached in three publishes; an id the broker uses again |
| `Int16`, `Int32`, `Int64`, `MaxEntries` (codec, thrift) | 8, 12, 16; 3 | values at both ends of their width; a field skipped between two that are read |
| `Payloads`, `Topics`, `MaxPackets` (codec, packets) | up to 16380 bytes, up to 2; 2 | lengths of one, two and three bytes, and 128 itself; a packet that begins where one ended |

The methods left out of `MCPaging` are named there: two that a server in order
keeps busy, and one that loses items by its code (section 6).

`CHECK_DEADLOCK FALSE` is used where one run of an engine, or the program that
calls the client, really ends, or where the bound on a stream is reached
(`codec`). The `tools`, `caches` and `realtime` runs check for deadlock; the end
of the process of `tools` is the explicit step `Exited`.

### Fairness

- `tools`: weak fairness of the Tk loop (`WindowAdvances`) and of the worker
  thread (`WorkerAdvances`), which the operating system schedules. The user, the
  login in Chrome and the loss of Chrome owe nothing: the waits of the code are
  what has to end by itself.
- `unfollow`, `scan`, `feed`: weak fairness of the steps of the run. A request is
  answered or times out, and a delay elapses. The user and the server's late
  application of a request are not fair.
- `session`: weak fairness of the client's steps. Each request is answered or
  fails: `requests` has a time-out.
- `paging`: weak fairness of the next request; the faults are bounded, so that the
  property says that a method ends once the server is in order again.
- `procedures`: weak fairness of the call's own steps; none of the other device.
- `realtime`: weak fairness of `Progress`, the steps of a call that runs: handlers
  return or raise, and every wait for bytes ends with some or with the socket's time-out.
  `Trickle` is one of them, so that a read may go on for ever. Neither broker nor user owes
  anything, nor does a disconnect that has begun; a broker that floods is not excluded.

## 4. Proofs

All theorems hold for every value of the constants that satisfies the named
assumptions (`BoundsAssumption`, `RunAssumption`, `ScanAssumption`, `SessionAssumption`,
`FeedAssumption`, `CachesAssumption`, `RealtimeAssumption`, `PagingAssumption`,
`ProceduresAssumption`, `MethodsAssumption`, `PacketAssumption`):
the bounds are natural numbers, `NoSession` and nobody differ from every session and
every viewer, there is an account to log in with, and the accounts of a scan are
finitely many and include the viewer; a scan of the feed makes at least one pass;
the users and names of the caches are finitely many, with a name to spare; a push client
reads at least one packet; a writing call makes at least one attempt at everything and is one of the
methods of its table, and so is a list method; a list has an item and a page room for one; payloads are bytes, and
topics and numbers fit the two bytes the format gives them. Eight
modules hold them. Every inductive invariant was checked by
TLC, on the constants of its run, before it was proved.

`InstagramToolsProofs`, about the composed application:

| Theorem | States | Argument |
|---|---|---|
| `TypeCorrect` | `Spec => []TypeOK` | `TypeOK` is inductive; one lemma for each of the user, the window and the thread |
| `OneOperation` | `Spec => []WindowAndWorkerAgree` | `AppInv`, see below |
| `ExitIsClean` | `Spec => []ExitLeavesNoChrome` | `ExitInv` |
| `StopIsItsOperations` | `Spec => []StopKeepsToItsOperation` | `OwnInv` |
| `ReviewStaysCurrent` | `Spec => []ReviewIsCurrent` | `OwnInv` |

`OperationIsConserved` alone is not inductive: that a submit does not find an
operation under way follows from `busy`, of which it says nothing. `AppInv` adds
`Flags`: `busy` is true exactly from the submit to the inner `finally`, `shutdown`
follows `closing`, and a question is open only in an idle window (otherwise its
answer could submit a second operation). Queues enter through `Where(q, M)`, the
positions of q that hold an element of M; the lemmas `PutOther`, `PutOne`,
`GetOther` and `GetOne` say what `Append` and `Tail` do to it, and `SubmitPlaces`,
`GetPlaces`, `PutPlaces` and `ReceivePlaces` carry that to the two queues.

`ExitInv` follows the thread to its end: Chrome is closed from `bye` on, a
`worker_stopped` event is only queued by a dead thread, and the window goes only
after that.

`OwnInv` says whose everything under way is. `Own`: the command in the queue or in the
thread, and the stop event, bear the kind and the number of the running operation.
`OwnEvents`: so does every event in the queue, its kind is the tab the window would show
it on, and nothing but `worker_stopped` comes behind `operation_finished`; that is why no
event outlives its operation and overwrites the status of a stop (`StopInv`). `ReviewInv`
follows a scan from the list it filled to the unfollow made from it: a list that a write or
a deletion of the login has outdated may stay on screen only while the write still runs
or the notice that empties the list is in the queue (`Shown`).

`UnfollowRunProofs`, about one unfollow run with either backend:

| Theorem | States | Argument |
|---|---|---|
| `TypeCorrect` | `Spec => []TypeOK` | `TypeInv`: at work, the index is inside the targets |
| `ReportsAreTrue` | `SwitchAssumption => (Spec => []VerifiedReportIsTrue)` | `RunInv` |
| `WritesReviewed` | `SwitchAssumption => (Spec => []WritesAreReviewed)` | `RunInv` |
| `LedgerIsKept` | `SwitchAssumption => (Spec => KeepsTheLedger)` | refinement of `UnfollowLedger` |
| `RunIsAccounted` | `Spec => []RunAddsUp` | `TallyInv` |

`SwitchAssumption` says that the user does not switch accounts while a request is
prepared, under way or confirmed (see section 2). `RunInv` has two parts:
`Records` relates what was posted, what may still arrive at the server and what is
reported, at any place; `Position` says, per place, that only the target in hand
can be posted and not reported, and that the viewer was compared with the expected one since
the last delay. Both are needed: a report is true because the relation was read
under the reviewed viewer (`Position`) and because nothing in flight can add
a relation (`Records`). For the refinement each step of the run maps to
one step of the ledger or to none: a request to `Ask`, a server's application to
`Lose`, a recorded success to `Report` or, when it ends the run, `ReportAndClose`.

`RunAddsUp` needs no assumption on the user. It counts, so that `TallyInv` says at
every place what is there to be counted: everything reported is behind the loop and only
the target in hand is asked for and not reported (`Tidy`), how many requests that
target has had (`Counted`), that the index counts the reports (`Sized`), that no request has
left after the stop while another may still leave (`Halted`), and that a target tried again was seen
unchanged or refused (`Settled`).

`ListProofs`, about one scan of lists of any length:

| Theorem | States | Argument |
|---|---|---|
| `ScanTypeCorrect` | `ScanSpec => []ScanTypeOK` | `ScanInv` |
| `ScanExact` | `ScanSpec => []ScanIsExact` | `ScanInv` |

`ScanIsExact` speaks of the result and says nothing of the way there. `ScanInv`
adds that the cursors seen are exactly those up to the one in hand, that what is
collected are the accounts of the pages before it, each once, and that the
following list is whole as soon as the followers are read. The lemma
`SuspicionIsExact` is the core: in such a state the checks of `_validate_page`
and `_collect` let an answer through if and only if it is the page asked for.
"Only if" makes the offer exact, "if" makes an honest scan succeed.

`ListProofs` also, about the list methods of the library, for lists, pages, amounts and page
sizes of any length and any number of irregular answers:

| Theorem | States | Argument |
|---|---|---|
| `TypeCorrect` | `Spec => []TypeOK` | `PagingInv` |
| `NoneTwiceNorTooMany` | `Spec => [](NoneTwice /\ AmountIsKept)` | `PagingInv` |
| `ListsCollectedOnce` | `Methods \subseteq Dependable` gives `Spec => []CollectedOnce` | `PagingInv` |
| `AnswersWhole` | `Methods \subseteq Dependable` gives `Spec => []AnswerIsTheList` | `PagingInv` |

The first two hold of all 46 methods, whatever the server answers; the others of the
43 methods of `Dependable`, those of the run (section 6 has the other three).

The proof goes from the data to the table to the machine. About lists: `Follows(s, a)` says
that `s` holds the items behind the first `a` of the server's list, without a gap; joining,
cutting, leaving out what is there already (`WithNew`) and stopping before a known item keep
it. `WithNew` is a recursive function; its lemmas speak of the last
value of any function that satisfies its equations, with the smallest place that violates
the claim in the place of an induction.

About the table: `Fits`, `Cuts` and `Orderly` say what the machine needs of a page
and of the loop around it. A loop that asks for what is missing must end when nothing is
(`Fits`): otherwise it would ask for 0, which means all. Somebody must cut at the amount
(`Cuts`). What a page cuts off may not be missed (`Orderly`): a chunk that cuts its page and hands
on the cursor behind it is right only under a loop that has enough as soon as the chunk
cuts, or if it asked for no more than it keeps. `TableIsSound` proves them of every
method, page by page; `Dependable` is where `Orderly` holds, and it is this
line that `iter_hashtag_medias` breaks.

About the machine: `PagingInv` has seven parts. `Typed`. `Room`: while a method asks, it has
not got what it was asked for, and what runs only once has nothing yet. `Kept` and `Unequal`: the
amount and the unique users. `Unharmed`: before the first fault the method that was called
asks its first page, so that a cursor that belongs to another page means a fault. `InStep`:
as long as no cursor leads back, `Chained` - what the loop has, then what the chunk has,
is the beginning of the list, both cursors are where those end, and the item the
caller knows is still ahead. `WholeAtEnd` is the property itself. `FullFacts` is the core:
what a page returns ends where its cursor points, or is as much as was asked for and the
loop ends. `Lengths` and `ReturnedWhole` then count what is returned against what there is.
An error never makes a list whole: it is raised, or everything is empty again (`FallsBackIs`), or the
method takes it for the end, which `DoneMeansComplete` exempts by name.

`FeedScannerProofs`, about one scan of a feed of any length:

| Theorem | States | Argument |
|---|---|---|
| `TypeCorrect` | `Spec => []TypeOK` | `PlaceInv`: in the hand is a post of the batch, and no counter of rounds has passed its limit |
| `ClicksAreDue` | `Spec => []EveryClickIsDue` | `ScanInv` |
| `SummaryTrue` | `Spec => []SummaryIsTrue` | `ScanInv` |

A post is clicked once because it is `seen` before it is clicked and a seen post is skipped;
`ScanInv` therefore ties the clicks to the posts seen (`ClicksAreSeen`), and those to the
positions the pass has been through (`SeenSoFar`). `PageHolds` says that the positions of
a pass still lead to its posts, as long as the page has not shifted. `WarnedOnce` and
`LateOnce` say where the scan may be when the one click under way has happened.
`Tallied` and `SeenAreLiked` are the summary's half: every number counts posts seen, and a
post seen without trouble is liked, or excluded, or in hand.

`ClientSessionProofs`, about the session with a call stack of any depth:

| Theorem | States | Argument |
|---|---|---|
| `TypeCorrect` | `Spec => []TypeOK` | `SessionInv` |
| `ReloginIsClean` | `Spec => []NothingOldSurvivesRelogin` | `SessionInv` |
| `LoginIsValid` | `Spec => []LoginValidates` | `SessionInv` and `LoginInv` |

`NothingOldSurvivesRelogin` compares the credentials held with the relogins under way,
and a credential may come from an answer that is still being read. `SessionInv`
therefore adds that `granted`, the credential such an answer carries, is as fresh
as the others, except while a relogin is called (`Launching`): what was granted before is
never stored then. `Starts` says that no relogin counts sessions the server has not
opened, so that every session opened later is fresh for all of them. `WellNested`
says where a frame may lie on the stack, which is needed for the frames that store
a credential after a call below them has returned.

`LoginValidates` speaks of a login that has ended; `LoginInv` says what it knows on the
way. `Stacked` is the shape of the stack: every request of a login lies on that login, at
the place that waits for it; a login lies on another only where the outer one waits for a
request that needs its session, since the handler logs in for LoginRequired alone and no
request of the way to a session raises it (`Handling`). So at most the innermost login is
on that way, and while it is, the client holds neither `authorization_data` nor a header
(`Cleared`). The rest holds in a call of login only. `Renewed`: from its first request of
its own on, every credential is one of this call (`Sound`), and cookies and
`authorization_data` go together where the server sends cookies; this is why a request
that carries none of its own finds one in the client. `Claims` says what the innermost
login has by the request it waits for: what an answer grants is of this call, there is a
session, or the session at hand is the one being validated; `Unwinding` is the exception
to it, an error that passes through the logins, which may have cleared the session.
`Rejected` is the second half of the property at any depth.

`AccountCachesProofs`, about any sequence of lookups, writes and foreign changes:

| Theorem | States | Argument |
|---|---|---|
| `TypeCorrect` | `Spec => []TypeOK` | `CachesInv` |
| `CachesAnswer` | `Spec => []CachesAnswerTheCall` | `CachesInv` |
| `OwnWritesAreRead` | `Spec => []ReadsOwnWrites` | `CachesInv` |

`CachesInv` is proved area by area (names, lists, medias), since no step touches two. It adds
to the properties what a call carries from one request to the next (`CallOK`): the account a
lookup by name has found is the bearer of that name, what a lookup of a list was asked
for; that who bears a name is recorded as its bearer (`BearersOK`); that a lookup by id on its
way to the web goes by the name in the cached short user (`WebKnows`); and that the
server is not behind a write of this process (`OwnStands`), without which a
media fetched after the write could be older than it. The lemmas about
sequences (`RemoveFirst` of a list without repetitions, the first entries of one) are at the
beginning of the module.

`RealtimeClientProofs`, about a connection of any length:

| Theorem | States | Argument |
|---|---|---|
| `TypeCorrect` | `Spec => []TypeOK` | `TypeOK` is inductive |
| `ConnectionKnown` | `Spec => []ConnectionIsKnown` | `ConnectionInv` |
| `AcksAreEarned` | `Spec => AcksFollowHandlers` | `ConnectionInv` |
| `PacketsStayInStep` | `PacketSpec => []StreamStaysInStep` | `StreamInv` |

`ConnectionInv` says of `connect`, which sets `connected` well after it read the CONNACK,
on what connection it stands in each of its places (`ConnectsRightly`), and extends the
statement to a disconnect that has taken the socket or has to
(`BelievesRightly`): there nothing can be said until it has noted it.
The ids on the wire are at most the last one given, and a dropped client leaves no
connection behind (`IdsAscend`), so that none is given twice. `AckIsEarned` is the step before an
acknowledgement: its id has been handled or is not waited for.

`StreamInv` says where the packets of the stream end: behind each other, each with all its
bytes, the last at the end. What a reader does with the head of such a stream, whatever
follows it, is said by lemmas about the code's functions: `EncodingFacts` and `EndFound`
(all bytes of a length but the last are from 128 on, so a reader stops at the right one),
`LengthRead` (it then has the number that was written, however large), `FramedReceived`
(it takes exactly the packet), `FramedDecoded` and, for each kind of packet,
`ConnectRead`, `PublishRead` and their siblings. The two recursive functions of the
lengths exist (`EncodingExists`, `ValueExists`) and do what is said by the argument of the
smallest counterexample.

`ProceduresProofs`, about the calls that write, any of the 82 methods, however often the
connection breaks:

| Theorem | States | Argument |
|---|---|---|
| `TypeCorrect` | `Spec => []TypeOK` | `ProceduresInv` |
| `WritesWhole` | `Spec => []WritesAreWhole` | `ProceduresInv` |
| `AnswersTrue` | `Spec => []AnswersAreTrue` | `ProceduresInv` |

The proof has three parts. First the table: `SoundSteps` says what the machine needs of a
method's requests, whatever the numbers of attempts. There is one publication at most, with
what prepares it before it and nothing but reads, the search, the edit and `expose` after
it; a repetition begins at the publication or at one read or transfer before it; an answer
only makes reads unnecessary; what is edited was looked for. `TableIsSound` proves
it of every method, and that all copies of a publication bear one id except in the five methods
of `WithoutOneId`. The methods are put together as the module writes them:
`Prefixed` says that a sound method stays sound with such requests before it.

Second the steps: every action of the call is one of four `Moves` (it stays where it
is, it fails, it repeats, it proceeds), which is `RunMoves`. The lemmas of the third part know
only these, so that the invariant need not be proved for each action anew.

Third `ProceduresInv`. `WritesAreWhole` needs that a publication the server has acted upon is
marked as such (`OnePost`) under a mark that all its copies share (`MarksOK`), and that
whatever lies before the request in hand is done (`ChangesInOrder`). `AnswersAreTrue` needs
what the account's posts can look like while no other device changes them
(`Undisturbed`): those from before the call, behind at most one of the call, and that the
former were remembered before the latter came (`RememberedBefore`). Therefore the first
post that was not there before, in a list that shows the new one or does not, is the new
one or, if the reading before the upload mistook an error for an empty list, an old one. That a
post is found only after its publication (`FoundWhenPublished`) is why an error after
it can only be that of `expose`.

Only model-checked: everything about liveness, which TLAPS does
not prove under fairness here; and `MQTToT`, whose structs within structs take
recursive operators and whose zigzag takes bit operations.

## 5. Not modelled

`PROJECT.json` gives the reason for each component.

- Reads that are one request, extractors and types: no state and no order. What a
  parser makes of a field does not reach the properties.
- Page selectors and labels, image and video preparation, story composition:
  knowledge about pages and files.
- Attestation, password encryption, TOTP codes: cryptography.
- Signup and the Bloks screens: the server dictates the order of the screens, the loops
  are bounded by constants and nothing is kept for a later call. The outcome of the Bloks
  login is an answer of a request in `ClientSession`. Of a challenge, what its pages say,
  and `challenge_bloks_redirect_dismiss`, which the program calls after an
  approval in the app: one more request.
- The retries of `public_request` (`public.py:176-230`): it repeats reads, at most ten
  times. GraphQL requests are single reads.
- The configuration file and the search for an orphaned Chrome (`storage.py`): file
  system and process table. The standalone windows: superseded by Instagram Tools.
- `account_edit` and the bulk methods for follow requests in `Procedures`: loops over
  calls that are modelled.

## 6. Findings and deviations

Each finding is a run that TLC finds violated:

1. `session_stale`: after the handler has logged in again, `private_request`
   sends the request once more with the Authorization header from before
   (`private.py:666-671, 706`).
2. `caches_follow_again`: `user_unfollow` looks for its own list under a number, where
   it is kept under a text (`user.py:1453`). The list keeps the account, and a later
   `user_follow` answers "already followed" without a request.

Further deviations were met while modelling. They are part of the models, where a
property excepts them by name, and have no run of their own:

- Applications. A deletion of the login that fails may have removed a part of it, or all
  (`rmtree`, `mkdir`: `following_auto_liker/storage.py:185-187`). The window shows the
  error and keeps its list on offer (`instagram_tools/app.py:629-637`). A post is a position that is resolved again at the click, so a page that
  moves during the delay makes the click land on another article
  (`following_auto_liker/browser.py:659`). The standalone unfollow backend takes a 2xx
  answer without JSON as proof (`non_follower_cleaner/browser.py:305-322`). After
  `status=fail` the second endpoint is tried without reading the relation
  (`instagram_tools/browser.py:313-316`, against its README:29-30).
- Session. A masked challenge is raised "so callers can resolve it"
  (`private.py:603-607`), and the resolver ends in `KeyError` (`challenge.py:151`).
  Only Python's recursion limit ends a challenge whose `take_challenge` is challenged
  again, or a redirect or phone step that is always followed by another step
  (`challenge.py:576, 596`). The contact form is tried eight times, but its second
  attempt returns or raises (`challenge.py:280-286`). The code handler is announced 24
  attempts and raises after the first empty answer (`challenge.py:64`). A refused change
  of the password counts as resolved: nobody reads the result of `challenge_resolve`.
- Uploads. A failed reading of the profile before the upload passes for an empty profile
  (`media.py:243-247` with `1183-1187`); an old post is then taken for the new one and
  usertags are edited into it (`photo.py:365-376`). A post published from another device
  meanwhile, or an old one that a deletion moves into the window, is taken in the same way.
  An error of `expose` after the publication is raised (`photo.py:341`). An album draws
  its own id anew in every attempt (`album.py:393`), a direct story its token
  (`video.py:1150`), and a livestream has none, so that a repetition may publish twice.
  `video_upload_to_direct` without threads publishes to the own story and raises after
  all attempts.
- Account. `change_password` drops the result of `with_action_data` and returns a dict; a
  repetition after a lost answer is refused and reported as a failure.
- Paging. `user_videos_paginated_v1` ignores its cursor and `media_comments_v1`
  starts again after the last page. `iter_hashtag_medias` loses what a chunk
  cut off (`hashtag.py:170-191`). `reels_timeline_media` may return more than the
  amount (`timeline.py:112-113`), `user_highlights_v1` ignores it,
  `users_stories_gql` keeps the last fifty only (`story.py:141-147`). `user_medias` has no
  fallback (`media.py:1183-1185`), which `docs/usage-guide/media.md` promises.
  Some methods take an error for the end of the list; the table names them (`keepsOn`).
- Caches. The fallback of `user_info` goes by a cached name, which somebody else may
  bear by now (`user.py:391-410`): another account is answered and cached under the id.
  `story_info` caches under the id as the caller spells it, `1` or `1_2`
  (`story.py:91-94`), and `story_delete` forgets the first spelling only
  (`story.py:111-112`), so a story deleted by the process is still answered under the
  second; `media_delete` of a story forgets neither. `story_info` without cache returns an expired story
  (`story.py:67-73`). `user_remove_follower` has the fault of finding 2. A
  truncated list is served for amount 0 (`user.py:876-896`). `media_delete` leaves the
  media cached when its answer is lost (`media.py:727-728`).
- Push. A disconnect that runs between the CONNACK and `self.connected = True`, in a
  handler of `auth` or in another thread, leaves FbnsClient connected without a socket
  (`fbns.py:127-128`). A reconnect that is refused or not answered leaves `connected` TRUE
  (`fbns.py:123-124`). A `connect` made between `connected = False` and the moment the
  mixin forgets its client (`mixins/realtime.py:54-58`) has its open connection
  forgotten with it. `recv_packet` reads bytes of a length without limit
  (`mqttot.py:301-305`), and the time-out is that of one `recv` (`mqttot.py:595-602`):
  bytes that trickle in hold a call for ever. `RealtimeClient.ping` returns False on any other packet, although it is to wait for
  the answer. A read that times out inside a packet leaves the stream out of
  step (`mqttot.py:299-307`). The packet id is counted up for ever and cannot be packed
  beyond 65535. A `REG_RESPONSE` is acknowledged before its handlers.

## 7. Plan

The modules of the plan exist: the applications, the session, paging, caches, writing
calls and push. What would add most next: the lock and the configuration file with a crash
between their steps.
