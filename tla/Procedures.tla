----------------------------- MODULE Procedures -----------------------------
(***************************************************************************)
(* The calls of the library that write: uploads, stories, direct messages, *)
(* comments, follows, settings, ...  Every method is a record of a table,  *)
(* its requests in the order in which it sends them; one machine runs the  *)
(* record over a connection that loses requests and answers and against a  *)
(* server whose account may be changed from another device meanwhile.      *)
(***************************************************************************)
EXTENDS Integers, Sequences, FiniteSets

CONSTANTS Methods,      \* names of the methods examined, a subset of DOMAIN Calls
          PhotoTries,   \* attempts to configure a photo (10)
          VideoTries,   \* attempts to configure a video, clip or album (50)
          LookTries,    \* attempts to find a new post (5)
          Retries,      \* retransmissions of the session's adapter (3)
          Window,       \* posts read when looking for a new one (20)
          Older,        \* posts of the account before the call
          MaxFaults,    \* bound on lost requests and answers
          MaxForeign    \* bound on changes from another device

ASSUME ProceduresAssumption ==
    /\ {PhotoTries, VideoTries, LookTries, Window} \subseteq Nat \ {0}
    /\ {Retries, Older, MaxFaults, MaxForeign} \subseteq Nat

VARIABLES call,      \* the method called
          pc,        \* "running", "done", "raised"
          step,      \* the request of the method that is due
          attempt,   \* attempt at it
          sends,     \* times private_request may still send it
          wire,      \* retransmissions left to the adapter
          before,    \* ids read before the upload: a set, or Nothing
          found,     \* the post the call is about to return, or Nothing
          verdict,   \* FALSE once an answer said that nothing was changed
          feed,      \* the account's posts or the thread's messages, newest first
          accepted,  \* history: the requests the server has acted upon
          edited,    \* history: the posts the call has edited
          faults, foreign   \* history: numbers of faults, of foreign changes
vars == <<call, pc, step, attempt, sends, wire, before, found, verdict, feed, accepted,
          edited, faults, foreign>>

Nothing == <<"none", 0>>
Own(k) == <<"own", k>>
Old(k) == <<"old", k>>
Theirs(k) == <<"theirs", k>>
Lesser(a, b) == IF a < b THEN a ELSE b
Owned(s) == {i \in 1..Len(s) : s[i][1] = "own"}
Without(s, i) == SubSeq(s, 1, i - 1) \o SubSeq(s, i + 1, Len(s))

(***************************************************************************)
(* Requests.                                                               *)
(*   does   "read"; "remember", a read of the posts before the upload;     *)
(*          "look", reads for a post that was not there before; "bytes";   *)
(*          "publish" and "set", writes; "edit", a write to what was found;*)
(*          "expose"                                                       *)
(*   via    "private" is private_request, "session" the session's adapter  *)
(*          alone, "plain" a connection of its own                         *)
(*   id     how the server tells a repeated request: an id drawn once a    *)
(*          "call" or in every "attempt", "none"; "same" is a setting, of  *)
(*          which a repetition changes nothing, "once" one that a second   *)
(*          request finds gone                                             *)
(*   tries, again, back   attempts, the answers upon which there is        *)
(*          another one, and how many requests earlier it begins           *)
(*   skips  requests that a full answer makes unnecessary                  *)
(*   needs  the call raises when the answer lacks its payload              *)
(*   flag   the answer says whether the change was made                    *)
(*   ignores   an error is logged and forgotten                            *)
(*   hides  some errors are read as an empty list                          *)
(*   optional  whether it is sent, with those it skips, depends on the     *)
(*          arguments                                                      *)
(***************************************************************************)
Request == [does |-> "read", via |-> "private", id |-> "same", tries |-> 1, again |-> {},
            back |-> 0, skips |-> 0, needs |-> FALSE, flag |-> FALSE, ignores |-> FALSE,
            hides |-> FALSE, optional |-> FALSE]
Optional(r) == [r EXCEPT !.optional = TRUE]
Needing(r) == [r EXCEPT !.needs = TRUE]
Skipping(n) == [Request EXCEPT !.skips = n]

Setting == [Request EXCEPT !.does = "set"]                  \* verdict: status "ok"
Flagged == [Setting EXCEPT !.flag = TRUE]
Taken == [Setting EXCEPT !.id = "once"]
Described == [Setting EXCEPT !.needs = TRUE]                \* returns what the answer describes
Created == [Request EXCEPT !.does = "publish", !.id = "call", !.needs = TRUE]
Unmarked == [Created EXCEPT !.id = "none"]

Lookup == Optional(Needing(Request))                        \* unless the argument is complete
MediaId == Lookup
AccountInfo == Needing(Request)
Download == [Request EXCEPT !.via = "plain"]

Uploaded(via, needs) == [Request EXCEPT !.does = "bytes", !.via = via, !.needs = needs]
PhotoRupload == Uploaded("session", FALSE)
UploadSettings == Uploaded("session", FALSE)
RuploadOffset == [Request EXCEPT !.via = "session"]
VideoRupload == <<RuploadOffset, Uploaded("session", FALSE)>>
PhotoRuploadToMessenger == <<Uploaded("plain", TRUE)>>
VideoRuploadToMessenger == <<[Request EXCEPT !.via = "plain"], Uploaded("plain", TRUE)>>
VoiceRupload == VideoRuploadToMessenger

CurrentMediaIds == [Request EXCEPT !.does = "remember", !.ignores = TRUE, !.hides = TRUE]
CurrentStoryIds == [Request EXCEPT !.does = "remember", !.ignores = TRUE]
PhotoConfigure == [Request EXCEPT !.does = "publish", !.id = "call", !.tries = PhotoTries,
                                  !.again = {"empty"}]
\* Mutant: the id of the upload is drawn in every attempt.
ConfiguredAnew(r) == [r EXCEPT !.id = "attempt", !.tries = VideoTries,
                               !.again = {"empty", "notYet"}]
Configured(r) == [r EXCEPT !.tries = VideoTries, !.again = {"empty", "notYet"}]
VideoConfigure == [Configured([Request EXCEPT !.does = "publish", !.id = "call"]) EXCEPT !.back = 1]
AlbumConfigure == Configured([Request EXCEPT !.does = "publish", !.id = "attempt"])
PhotoConfigureToStory == [PhotoConfigure EXCEPT !.back = 1]
VideoConfigureToStory == VideoConfigure
ClipConfigure == VideoConfigure
IgtvConfigure == VideoConfigure
ConfigureToThreads == [AlbumConfigure EXCEPT !.back = 1, !.needs = TRUE]
\* Without threads the id is that of the upload, and no answer is ever taken.
ConfigureToNobody == [VideoConfigure EXCEPT !.again = @ \cup {"bare", "full"}]
CutoutSticker == Created
Thumbnail == PhotoRupload
ValidateReelUrl == Optional(Request)
Expose == [Request EXCEPT !.does = "expose"]
ExtractConfiguredMedia == [Request EXCEPT !.does = "look", !.tries = 0]
NewMediaAfterUpload == [Request EXCEPT !.does = "look", !.tries = LookTries]
ApplyUsertags == [Request EXCEPT !.does = "edit", !.ignores = TRUE, !.optional = TRUE]
MediaInfo == [Request EXCEPT !.ignores = TRUE, !.optional = TRUE]

\* The destination on Facebook or Threads, when the arguments do not name it: configurations are
\* read until one has an eligible destination.
ShareToFacebook == <<Optional(Skipping(2)), Skipping(1), Needing(Request)>>
ShareToThreads == [Lookup EXCEPT !.tries = 2, !.again = {"graphql"}]
MediaCrossposting == ShareToFacebook \o <<ShareToThreads>>
ClipUnifiedDestination == <<Skipping(3), Skipping(2), Skipping(1), Needing(Request)>>
ClipShareToFb == <<Optional(Skipping(4))>> \o ClipUnifiedDestination

-----------------------------------------------------------------------------
(***************************************************************************)
(* Methods: their requests, whether they assert that the client is logged  *)
(* in, whether they turn every error into False.                           *)
(***************************************************************************)
Sends(requests) == [steps |-> requests, login |-> FALSE, swallows |-> FALSE]
LoggedIn(requests) == [steps |-> requests, login |-> TRUE, swallows |-> FALSE]
Swallows(requests) == [steps |-> requests, login |-> FALSE, swallows |-> TRUE]

\* Uploads.
PhotoUpload == Sends(MediaCrossposting \o <<CurrentMediaIds, PhotoRupload, PhotoConfigure, Expose,
                       NewMediaAfterUpload, ApplyUsertags, MediaInfo>>)
PhotoUploadWithMusic == Sends(<<Lookup>> \o PhotoUpload.steps)
PhotoUploadToStory == Sends(<<PhotoRupload, CurrentStoryIds, ValidateReelUrl,
                              PhotoConfigureToStory, Expose, NewMediaAfterUpload>>)
PhotoUploadToCutoutSticker == Sends(<<PhotoRupload, CutoutSticker>>)
VideoUpload == Sends(MediaCrossposting \o VideoRupload
                       \o <<Thumbnail, VideoConfigure, Expose, ExtractConfiguredMedia>>)
VideoUploadToStory == Sends(VideoRupload \o <<CurrentStoryIds, ValidateReelUrl,
                              VideoConfigureToStory, Expose, NewMediaAfterUpload>>)
StoryWithMusic == Sends(<<Download>> \o VideoUploadToStory.steps)
VideoUploadToCutoutSticker == Sends(VideoRupload \o <<CutoutSticker>>)
VideoUploadToDirect == Sends(VideoRupload \o <<ValidateReelUrl, ConfigureToThreads>>)
VideoUploadToNobody == Sends(VideoRupload \o <<ValidateReelUrl, ConfigureToNobody>>)
\* An album of a photo and a video.
AlbumUpload == Sends(MediaCrossposting \o <<PhotoRupload>> \o VideoRupload
                       \o <<Thumbnail, AlbumConfigure, Expose, ExtractConfiguredMedia>>)
AlbumUploadWithMusic == Sends(<<Lookup>> \o AlbumUpload.steps)
ClipUpload == Sends(ClipShareToFb \o <<ShareToThreads, UploadSettings>> \o VideoRupload
                      \o <<Thumbnail, ClipConfigure, Expose, ExtractConfiguredMedia>>)
ClipUploadWithMusic == ClipUpload
ClipUploadAsReelWithMusic == Sends(<<Download>> \o ClipUpload.steps)
IgtvUpload == Sends(VideoRupload \o <<Thumbnail, IgtvConfigure, Expose, ExtractConfiguredMedia>>)
QuicksnapSend == LoggedIn(<<PhotoRupload, Setting>>)
\* Covers and pictures.
ClipChangeCover == Sends(<<PhotoRupload, Setting>>)
AccountChangePicture == Sends(<<PhotoRupload, Described>>)
HighlightChangeCover == Sends(<<PhotoRupload, Described>>)

\* Direct messages.
DirectSend == LoggedIn(<<Created>>)
DirectReaction == LoggedIn(<<[Created EXCEPT !.needs = FALSE]>>)
ThreadIdFromUserIds == <<Lookup>>
DirectSendPhoto == LoggedIn(ThreadIdFromUserIds \o PhotoRuploadToMessenger \o <<Created>>)
DirectSendVideo == LoggedIn(ThreadIdFromUserIds \o VideoRuploadToMessenger \o <<Created>>)
DirectSendVoice == LoggedIn(ThreadIdFromUserIds \o VoiceRupload \o <<Created>>)
DirectSendFile == DirectSendPhoto
DirectSendCutoutSticker == DirectSend
DirectMediaShare == LoggedIn(<<MediaId, Created>>)
DirectStoryShare == DirectMediaShare
DirectProfileShare == DirectSend
DirectThreadCreate == LoggedIn(<<Created>>)
DirectMessageSeen == Sends(<<Setting>>)
DirectSendSeen == Sends(<<Needing(Request), Setting>>)
DirectThreadChanges == LoggedIn(<<Setting>>)
DirectPendingApprove == LoggedIn(<<Setting>>)
DirectThreadMarks == Sends(<<Setting>>)

\* Comments, likes, saves, media.
MediaComment == LoggedIn(<<MediaId, Created>>)
CommentLike == LoggedIn(<<Setting>>)
CommentPin == Sends(<<Setting>>)
CommentBulkDelete == Sends(<<MediaId, Setting>>)
MediaLike == LoggedIn(<<Setting>>)
MediaSave == LoggedIn(<<Setting>>)
MediaNotes == LoggedIn(<<Setting>>)
MediaArchive == Sends(<<MediaId, Setting>>)
MediaPin == Sends(<<Setting>>)
ClipPin == Sends(<<Setting>>)
ClipSeen == LoggedIn(<<Setting>>)
MediaSeen == Sends(<<MediaId, Setting>>)
StorySeen == MediaSeen
StoryLike == LoggedIn(<<MediaId, MediaId, Optional(Setting), Setting>>)
StoryPollVote == LoggedIn(<<MediaId, Setting>>)
HashtagFollow == LoggedIn(<<Setting>>)
MediaCreateLivestream == Sends(<<Unmarked>>)
MediaStartLivestream == Swallows(<<Setting>>)
MediaEndLivestream == Swallows(<<Setting>>)
HighlightCreate == Sends(<<Created>>)
HighlightEdit == Sends(<<Described>>)
HighlightDelete == Sends(<<Setting>>)
NoteChanges == Sends(<<Setting>>)
CreateNote == LoggedIn(<<Described>>)
CreateMusicNote == LoggedIn(<<Lookup, Described>>)
QuicksnapDelete == LoggedIn(<<Flagged>>)
MusicBookmark == Sends(<<Setting>>)

\* People and the account.
FollowRequests == LoggedIn(<<[Flagged EXCEPT !.id = "once"]>>)
UserBlock == Sends(<<Flagged>>)
UserReport == Sends(<<Needing(Request), Needing(Request), Needing(Request), Needing(Flagged)>>)
MuteFromFollow == Sends(<<Setting>>)
EnableNotifications == LoggedIn(<<Setting>>)
CloseFriend == LoggedIn(<<Flagged>>)
AccountSetAiInfo == Sends(<<Setting, AccountInfo>>)
AccountConvert == Sends(<<Setting, AccountInfo>>)
ChangePassword == Swallows(<<Needing(Download), Needing(Download), Taken>>)
AccountLinks == Sends(<<Setting>>)
AccountSetPrivate == LoggedIn(<<Setting>>)
AccountSetBiography == Sends(<<Setting>>)
SendConfirm == Sends(<<[Unmarked EXCEPT !.needs = FALSE]>>)
Confirm == Sends(<<Taken>>)
NotificationSettings == Sends(<<Setting>>)
NotificationDisable == Sends([i \in 1..24 |-> Setting])
TotpGenerateSeed == Sends(<<Described>>)
TotpEnable == Sends(<<[Taken EXCEPT !.needs = TRUE]>>)
TotpDisable == Sends(<<Setting>>)

Calls == [
    photo_upload |-> PhotoUpload, photo_upload_with_music |-> PhotoUploadWithMusic,
    photo_upload_to_story |-> PhotoUploadToStory,
    photo_upload_to_cutout_sticker |-> PhotoUploadToCutoutSticker, video_upload |-> VideoUpload,
    video_upload_to_story |-> VideoUploadToStory, story_with_music |-> StoryWithMusic,
    video_upload_to_cutout_sticker |-> VideoUploadToCutoutSticker,
    video_upload_to_direct |-> VideoUploadToDirect, video_upload_to_nobody |-> VideoUploadToNobody,
    album_upload |-> AlbumUpload, album_upload_with_music |-> AlbumUploadWithMusic,
    clip_upload |-> ClipUpload, clip_upload_with_music |-> ClipUploadWithMusic,
    clip_upload_as_reel_with_music |-> ClipUploadAsReelWithMusic, igtv_upload |-> IgtvUpload,
    quicksnap_send |-> QuicksnapSend, clip_change_cover |-> ClipChangeCover,
    account_change_picture |-> AccountChangePicture,
    highlight_change_cover |-> HighlightChangeCover, direct_send |-> DirectSend,
    direct_reaction |-> DirectReaction, direct_send_photo |-> DirectSendPhoto,
    direct_send_video |-> DirectSendVideo, direct_send_voice |-> DirectSendVoice,
    direct_send_file |-> DirectSendFile, direct_send_cutout_sticker |-> DirectSendCutoutSticker,
    direct_media_share |-> DirectMediaShare, direct_story_share |-> DirectStoryShare,
    direct_profile_share |-> DirectProfileShare, direct_thread_create |-> DirectThreadCreate,
    direct_message_seen |-> DirectMessageSeen, direct_send_seen |-> DirectSendSeen,
    direct_thread_changes |-> DirectThreadChanges, direct_pending_approve |-> DirectPendingApprove,
    direct_thread_marks |-> DirectThreadMarks, media_comment |-> MediaComment,
    comment_like |-> CommentLike, comment_pin |-> CommentPin,
    comment_bulk_delete |-> CommentBulkDelete, media_like |-> MediaLike, media_save |-> MediaSave,
    media_notes |-> MediaNotes, media_archive |-> MediaArchive, media_pin |-> MediaPin,
    clip_pin |-> ClipPin, clip_seen |-> ClipSeen, media_seen |-> MediaSeen,
    story_seen |-> StorySeen, story_like |-> StoryLike, story_poll_vote |-> StoryPollVote,
    hashtag_follow |-> HashtagFollow, media_create_livestream |-> MediaCreateLivestream,
    media_start_livestream |-> MediaStartLivestream, media_end_livestream |-> MediaEndLivestream,
    highlight_create |-> HighlightCreate, highlight_edit |-> HighlightEdit,
    highlight_delete |-> HighlightDelete, note_changes |-> NoteChanges, create_note |-> CreateNote,
    create_music_note |-> CreateMusicNote, quicksnap_delete |-> QuicksnapDelete,
    music_bookmark |-> MusicBookmark, follow_requests |-> FollowRequests, user_block |-> UserBlock,
    user_report |-> UserReport, mute_from_follow |-> MuteFromFollow,
    enable_notifications |-> EnableNotifications, close_friend |-> CloseFriend,
    account_set_ai_info |-> AccountSetAiInfo, account_convert |-> AccountConvert,
    change_password |-> ChangePassword, account_links |-> AccountLinks,
    account_set_private |-> AccountSetPrivate, account_set_biography |-> AccountSetBiography,
    send_confirm |-> SendConfirm, confirm |-> Confirm,
    notification_settings |-> NotificationSettings, notification_disable |-> NotificationDisable,
    totp_generate_seed |-> TotpGenerateSeed, totp_enable |-> TotpEnable,
    totp_disable |-> TotpDisable]
ASSUME MethodsAssumption == Methods \subseteq DOMAIN Calls

-----------------------------------------------------------------------------
(***************************************************************************)
(* The machine.                                                            *)
(***************************************************************************)
Steps == Calls[call].steps
Req == Steps[step]
Looks == \E i \in DOMAIN Steps : Steps[i].does = "look" /\ Steps[i].tries > 0
Running == pc = "running"
Unread == [known |-> FALSE, ids |-> {}]
Shown(s) == {s[i] : i \in 1..Lesser(Window, Len(s))}

Init ==
    /\ call \in Methods
    /\ pc \in IF Calls[call].login THEN {"running", "raised"} ELSE {"running"}
    /\ step = 1 /\ attempt = 1 /\ sends = 2 /\ wire = Retries
    /\ before = Unread /\ found = Nothing /\ verdict = TRUE
    /\ \E n \in IF Looks THEN 0..Older ELSE {0} : feed = [i \in 1..n |-> Old(n + 1 - i)]
    /\ accepted = {} /\ edited = {} /\ faults = 0 /\ foreign = 0

\* What comes after a request.
Due(s, a) == pc' = "running" /\ step' = s /\ attempt' = a /\ sends' = 2 /\ wire' = Retries
Ends(p) == pc' = p /\ UNCHANGED <<step, attempt>> /\ sends' = 2 /\ wire' = Retries
\* Mutant: the last request is not known as such.
GoOnAnyhow(skipped) == Due(step + skipped + 1, IF Req.tries > 1 THEN 1 ELSE attempt)
GoOn(skipped) ==
    IF step + skipped < Len(Steps)
    THEN Due(step + skipped + 1, IF Req.tries > 1 THEN 1 ELSE attempt)
    ELSE Ends("done")
Raise == IF Calls[call].swallows THEN Ends("done") /\ verdict' = FALSE
                                 ELSE Ends("raised") /\ UNCHANGED verdict
\* Mutant: the attempts are not counted.
TryForever == Due(step - Req.back, attempt) /\ UNCHANGED verdict
TryAgain == IF attempt < Req.tries THEN Due(step - Req.back, attempt + 1) /\ UNCHANGED verdict
                                   ELSE Raise
Error ==
    /\ UNCHANGED found
    /\ before' \in IF Req.does = "remember" /\ Req.hides
                   THEN {Unread, [Unread EXCEPT !.known = TRUE]} ELSE {before}
    /\ \/ Req.does = "look" /\ TryAgain
       \/ Req.does # "look" /\ Req.ignores /\ GoOn(0) /\ UNCHANGED verdict
       \/ Req.does # "look" /\ ~Req.ignores /\ Raise

\* What the server does with a request.
Mark == <<step, IF Req.id = "attempt" THEN attempt ELSE 0>>
Gone == Req.id = "once" /\ Mark \in accepted
Post == Own(IF Req.id = "none" THEN Cardinality(Owned(feed)) + 1 ELSE Mark[2])
Act ==
    /\ accepted' = accepted \cup {Mark}
    /\ feed' = IF Req.does = "publish" /\ (Req.id = "none" \/ Mark \notin accepted)
               THEN <<Post>> \o feed ELSE feed
    /\ edited' = IF Req.does = "edit" THEN edited \cup {found} ELSE edited
DoNothing == UNCHANGED <<accepted, feed, edited>>

\* The answers: "full"; "bare" lacks what the caller needs; "empty" is {}; "notYet" and "graphql"
\* are refusals upon which there is another attempt; "declined" says that nothing was changed.
Partial == IF Req.needs \/ Req.does = "publish" \/ Req.skips > 0 THEN {"bare"} ELSE {}
Answers ==
    IF Gone THEN {"refused"}
    ELSE {"refused", "full"} \cup Partial \cup Req.again
            \cup (IF Req.flag /\ Mark \notin accepted THEN {"declined"} ELSE {})
Acts(answer) ==
    CASE answer \in {"full", "bare"} -> {TRUE}
      [] answer = "empty"            -> BOOLEAN
      [] OTHER                       -> {FALSE}

Lacking(answer) == answer = "bare" /\ Req.needs
Take(answer) ==
    \/ answer = "refused" /\ Error
    \/ answer \in Req.again /\ TryAgain /\ UNCHANGED <<before, found>>
    \/ answer \notin Req.again /\ Lacking(answer) /\ Raise /\ UNCHANGED <<before, found>>
    \/ /\ answer # "refused" /\ answer \notin Req.again /\ ~Lacking(answer)
       /\ GoOn(IF answer = "full" THEN Req.skips ELSE 0)
       /\ verdict' = IF Req.flag THEN answer = "full" ELSE verdict
       /\ found' = IF Req.does = "publish" /\ answer = "full" THEN Post ELSE found
       /\ before' = IF Req.does = "remember" THEN [known |-> TRUE, ids |-> Shown(feed)]
                                             ELSE before

\* The request arrives, and so does its answer.
Exchange ==
    /\ Running /\ Req.does # "look"
    /\ \E answer \in Answers : \E acts \in Acts(answer) :
          (IF acts THEN Act ELSE DoNothing) /\ Take(answer)
    /\ UNCHANGED <<call, faults, foreign>>

Asks == Running /\ (Req.does = "look" => Req.tries > 0 /\ found = Nothing /\ before.known)
Fault == faults < MaxFaults /\ faults' = faults + 1 /\ UNCHANGED <<call, foreign>>
Loses == DoNothing \/ (Req.does # "look" /\ ~Gone /\ Act)

\* The connection breaks: the adapter of the session sends the request again.
Break ==
    /\ Asks /\ Fault /\ Loses
    /\ IF wire > 0 /\ Req.via # "plain"
       THEN wire' = wire - 1 /\ UNCHANGED <<pc, step, attempt, sends, before, found, verdict>>
       ELSE Error

\* The answer comes too late (408), or breaks off: private_request sends the request once more.
ComeLate ==
    /\ Asks /\ Fault /\ Loses
    /\ IF sends = 2 /\ Req.via = "private"
       THEN /\ sends' = 1 /\ wire' = Retries
            /\ UNCHANGED <<pc, step, attempt, before, found, verdict>>
       ELSE Error

\* The arguments make a request unnecessary.
Skip ==
    /\ Running /\ Req.optional /\ sends = 2 /\ wire = Retries
    /\ GoOn(Req.skips)
    /\ UNCHANGED <<call, before, found, verdict, feed, accepted, edited, faults, foreign>>

\* The post of the answer is taken; without one it is looked for, if the posts before are known,
\* in a list that may not show the new post yet.
\* Mutant: unknown posts are no posts.
MayLookAnyhow(r) == r.tries > 0
MayLook(r) == r.tries > 0 /\ before.known
ExtractMedia ==
    /\ Running /\ Req.does = "look"
    /\ \/ found # Nothing /\ GoOn(0) /\ UNCHANGED verdict
       \/ found = Nothing /\ ~MayLook(Req) /\ Raise
    /\ UNCHANGED <<call, before, found, feed, accepted, edited, faults, foreign>>
FindNewMedia ==
    /\ Running /\ Req.does = "look" /\ found = Nothing /\ MayLook(Req)
    /\ \/ \E list \in {feed} \cup {Without(feed, i) : i \in Owned(feed)} :
            LET new == {i \in 1..Lesser(Window, Len(list)) : list[i] \notin before.ids} IN
            \/ new = {} /\ TryAgain /\ UNCHANGED found
            \/ \E i \in new :
                  /\ \A j \in new : i <= j
                  /\ found' = list[i] /\ GoOn(0) /\ UNCHANGED verdict
       \/ TryAgain /\ UNCHANGED found
    /\ UNCHANGED <<call, before, feed, accepted, edited, faults, foreign>>

\* Another device of the account posts or deletes meanwhile.
OtherDevice ==
    /\ Running /\ Looks /\ foreign < MaxForeign
    /\ foreign' = foreign + 1
    /\ \/ feed' = <<Theirs(foreign')>> \o feed
       \/ \E i \in 1..Len(feed) : feed' = Without(feed, i)
    /\ UNCHANGED <<call, pc, step, attempt, sends, wire, before, found, verdict, accepted, edited,
                   faults>>

Run == Exchange \/ Break \/ ComeLate \/ Skip \/ ExtractMedia \/ FindNewMedia
Next == Run \/ OtherDevice
Spec == Init /\ [][Next]_vars
FairSpec == Spec /\ WF_vars(Run)

-----------------------------------------------------------------------------
Items == {Own(k) : k \in 0..VideoTries + PhotoTries + MaxFaults} \cup {Old(k) : k \in 1..Older}
            \cup {Theirs(k) : k \in 1..MaxForeign}
TypeOK ==
    /\ call \in Methods /\ pc \in {"running", "done", "raised"}
    /\ step \in 1..Len(Steps) /\ attempt \in 1..VideoTries + PhotoTries + LookTries
    /\ sends \in 1..2 /\ wire \in 0..Retries
    /\ before \in [known : BOOLEAN, ids : SUBSET Items]
    /\ found \in Items \cup {Nothing} /\ verdict \in BOOLEAN /\ feed \in Seq(Items)
    /\ accepted \subseteq (1..Len(Steps)) \X (0..VideoTries) /\ edited \subseteq Items
    /\ faults \in 0..MaxFaults /\ foreign \in 0..MaxForeign

\* A call publishes once, however often its requests are sent again.  The configure requests of an
\* album and of a direct video draw a new id in every attempt, and two calls send none.
WithoutOneId == {"album_upload", "album_upload_with_music", "video_upload_to_direct",
                 "media_create_livestream", "send_confirm"}
OnceOnly == call \notin WithoutOneId => Cardinality(Owned(feed)) <= 1

\* A post that was found instead of taken from the answer is the one just uploaded, and only this
\* one is edited (_extract_configured_media_or_recent), unless another device changed the posts or
\* the reading before the upload met an error that it took for an empty list.
MistakenForEmpty == before.known /\ before.ids = {} /\ \E i \in 1..Len(feed) : feed[i][1] = "old"
OwnPosts(s) == \A x \in s \ {Nothing} : x[1] = "own"
AnswerIsTheUpload ==
    /\ foreign = 0 /\ ~MistakenForEmpty => OwnPosts({found} \cup edited)
    /\ pc = "done" /\ Looks => found # Nothing

\* A call whose post is known raises only because expose failed; a call that answers False without
\* a lost request or answer has changed nothing.
FailureIsHonest ==
    /\ pc = "raised" /\ found # Nothing => Req.does = "expose"
    /\ pc = "done" /\ ~verdict /\ faults = 0 /\ Req.does = "set" => Mark \notin accepted

\* Nothing is published or set before everything it rests on has reached the server, and a call
\* that succeeds has made all its changes.
Owed(i) == Steps[i].does \in {"bytes", "publish", "set"} /\ ~Steps[i].optional
NoStepIsSkipped ==
    \A i \in {j \in DOMAIN Steps : Owed(j)} :
        (pc = "done" /\ verdict) \/ (\E m \in accepted : m[1] > i) => \E m \in accepted : m[1] = i

\* Every change a call makes is made once, and none without those before it.
WritesAreWhole == OnceOnly /\ NoStepIsSkipped

\* What a call answers, a post, a failure or an error, is what has happened.
AnswersAreTrue == AnswerIsTheUpload /\ FailureIsHonest

\* Every call ends: it returns or raises.
Terminates == <>(pc # "running")

=============================================================================
