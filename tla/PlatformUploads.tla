---------------------------- MODULE PlatformUploads ----------------------------
(***************************************************************************)
(* One connected account of a platform and the calls that use it: signing  *)
(* in (api/v1/social_scheduler.py), renewing its token                     *)
(* (services/social/connections.py) and publishing a post on it            *)
(* (worker/tasks/social_scheduler_tasks.py, services/social/*.py).  A      *)
(* publish call must tell the worker what became of the post: the worker   *)
(* counts on it when it decides what a retry may publish again.            *)
(***************************************************************************)
EXTENDS Integers, FiniteSets

CONSTANTS
    PublishCalls, Listings, SignIns,   \* uploads, playlist requests, callbacks
    LostReplies,   \* the reply to a publish that is not repeated may be lost
    MaxTokens, MaxUploadCalls

\* A call uploads, lists playlists or signs in.
ASSUME UploadsAssumption ==
    /\ MaxTokens \in Nat
    /\ PublishCalls \cap (Listings \cup SignIns) = {}
    /\ Listings \cap SignIns = {}

VARIABLES
    host,      \* the platform of the account
    account,   \* its row: [row, ref, age]; row 0 when there is none
    granted,   \* refresh tokens the platform accepts
    minted,    \* refresh tokens issued so far
    stored,    \* the uploaded video or photo is on the server
    public,    \* its URL can be reached by the platform
    call,      \* what each call does
    remote,    \* copies of the call's post, and what TikTok makes of it
    lost,      \* a renewed token was lost before it was stored
    uploadCalls

uploadVars == <<host, account, granted, minted, stored, public, call, remote,
                lost, uploadCalls>>

Hosts == {"youtube", "tiktok", "instagram", "facebook"}
Calls == PublishCalls \cup Listings \cup SignIns
\* Meta hands out no refresh tokens: 0.
HasRefresh == host \in {"youtube", "tiktok"}
NoAccountRow == [row |-> 0, ref |-> 0, age |-> "fresh"]
NoCall == [pc |-> "idle", row |-> 0, ref |-> 0, route |-> "none", tries |-> 0,
           told |-> "none"]
NoRemote == [copies |-> 0, state |-> "none"]

Routes == {"none", "direct", "url", "photo", "session", "tiktok", "page"}
UploadTypeOK ==
    /\ host \in Hosts
    /\ account \in [row: 0..MaxTokens, ref: 0..MaxTokens,
                    age: {"fresh", "near", "dead"}]
    /\ granted \subseteq 1..MaxTokens /\ minted \in 0..MaxTokens
    /\ call \in [Calls ->
         [pc: {"idle", "renew", "persist", "route", "container", "bytes",
               "poll", "publish", "send", "extras", "exchange", "info",
               "upsert", "commit"},
          row: 0..MaxTokens, ref: 0..MaxTokens, route: Routes, tries: 0..4,
          told: {"none", "ok", "failed"}]]
    /\ remote \in [PublishCalls -> [copies: Nat,
                               state: {"none", "processing", "rejected"}]]

UploadsInit ==
    /\ host \in Hosts /\ stored = TRUE /\ public \in BOOLEAN
    /\ account = NoAccountRow /\ granted = {} /\ minted = 0
    /\ call = [c \in Calls |-> NoCall]
    /\ remote = [u \in PublishCalls |-> NoRemote]
    /\ lost = FALSE /\ uploadCalls = 0

At(c, pc)    == call[c].pc = pc
Moves(c, pc) == call' = [call EXCEPT ![c].pc = pc]
Tells(c, t)  == call' = [call EXCEPT ![c] = [NoCall EXCEPT !.told = t]]
Ends(c)      == call' = [call EXCEPT ![c] = NoCall]
AccountStays == UNCHANGED <<account, granted, minted, lost>>
UploadFrame  == UNCHANGED <<host, public, uploadCalls>>

-----------------------------------------------------------------------------
(* Signing in.  The callback exchanges its code, looks the account up and  *)
(* commits: an update of the row it found, or an insert.                   *)

SignIn(c) ==
    /\ At(c, "idle") /\ Moves(c, "exchange")
    /\ AccountStays /\ UNCHANGED <<stored, remote>> /\ UploadFrame

\* An expired or foreign state, a user who refuses, a refused code.
SignInFails(c) ==
    /\ At(c, "exchange") /\ Ends(c)
    /\ AccountStays /\ UNCHANGED <<stored, remote>> /\ UploadFrame

Grants(c, h, ref) ==
    /\ At(c, "exchange") /\ host = h /\ minted < MaxTokens
    /\ minted' = minted + 1
    /\ granted' = IF ref = 0 THEN granted ELSE granted \cup {ref}
    /\ call' = [call EXCEPT ![c].pc = "info", ![c].ref = ref]
    /\ UNCHANGED <<account, lost, stored, remote>> /\ UploadFrame
YouTubeGrants(c)   == Grants(c, "youtube", minted + 1)
TikTokGrants(c)    == Grants(c, "tiktok", minted + 1)
InstagramGrants(c) == Grants(c, "instagram", 0)
FacebookGrants(c)  == Grants(c, "facebook", 0)

\* The platform names the channel or the Page that signed in, or has none.
Introduces(c) ==
    /\ At(c, "info") /\ Moves(c, "upsert")
    /\ AccountStays /\ UNCHANGED <<stored, remote>> /\ UploadFrame

NoChannel(c) ==
    /\ At(c, "info") /\ Ends(c)
    /\ AccountStays /\ UNCHANGED <<stored, remote>> /\ UploadFrame

LooksUp(c) ==
    /\ At(c, "upsert")
    /\ call' = [call EXCEPT ![c].pc = "commit", ![c].row = account.row]
    /\ AccountStays /\ UNCHANGED <<stored, remote>> /\ UploadFrame

\* A renewal that names no refresh token keeps the one that is stored.
MutApplied(ref) == account.ref
Applied(ref) == IF ref = 0 THEN account.ref ELSE ref

\* A new row is numbered after the newest grant.
Connects(c) ==
    /\ At(c, "commit") /\ call[c].row = account.row
    /\ account' = IF account.row = 0
                  THEN [row |-> minted, ref |-> call[c].ref, age |-> "fresh"]
                  ELSE [account EXCEPT !.ref = Applied(call[c].ref),
                                       !.age = "fresh"]
    /\ Ends(c)
    /\ UNCHANGED <<granted, minted, lost, stored, remote>> /\ UploadFrame

\* The other tab was first, which counts as connected; or the row that was
\* found has been deleted, and the request fails.
ConnectsTooLate(c) ==
    /\ At(c, "commit") /\ call[c].row # account.row
    /\ Ends(c)
    /\ AccountStays /\ UNCHANGED <<stored, remote>> /\ UploadFrame

Disconnects ==
    /\ account.row # 0 /\ account' = NoAccountRow
    /\ UNCHANGED <<granted, minted, lost, stored, call, remote>> /\ UploadFrame

-----------------------------------------------------------------------------
(* Tokens.  One within five minutes of its end counts as expired.          *)

Expired == account.age # "fresh"

TokenAges ==
    /\ account.row # 0 /\ account.age # "dead"
    /\ account' = [account EXCEPT !.age = IF @ = "fresh" THEN "near"
                                          ELSE "dead"]
    /\ UNCHANGED <<granted, minted, lost, stored, call, remote>> /\ UploadFrame

\* The calls that read the token: an upload, and the playlist picker.
Reads(c, pc) ==
    call' = [call EXCEPT ![c] = [NoCall EXCEPT !.row = account.row,
               !.ref = account.ref, !.pc = IF Expired THEN "renew" ELSE pc]]

StartUpload(u) ==
    /\ At(u, "idle") /\ uploadCalls < MaxUploadCalls
    /\ uploadCalls' = uploadCalls + 1
    /\ remote' = [remote EXCEPT ![u] = NoRemote]
    /\ IF account.row = 0 THEN Tells(u, "failed") ELSE Reads(u, "route")
    /\ AccountStays /\ UNCHANGED <<stored, host, public>>

ListPlaylists(c) ==
    /\ At(c, "idle") /\ host = "youtube" /\ account.row # 0
    /\ Expired /\ Reads(c, "idle")
    /\ AccountStays /\ UNCHANGED <<stored, remote>> /\ UploadFrame

GivesUp(c) == IF c \in PublishCalls THEN Tells(c, "failed") ELSE Ends(c)

\* Google keeps the refresh token, TikTok may replace it, Instagram renews a
\* token that is still good, Facebook none.
YouTubeRenews(c) ==
    /\ At(c, "renew") /\ host = "youtube" /\ call[c].ref \in granted
    /\ Moves(c, "persist") /\ UNCHANGED <<granted, minted>>

TikTokRenews(c) ==
    /\ At(c, "renew") /\ host = "tiktok" /\ call[c].ref \in granted
    /\ minted < MaxTokens /\ minted' = minted + 1
    /\ granted' = (granted \ {call[c].ref}) \cup {minted'}
    /\ call' = [call EXCEPT ![c].pc = "persist", ![c].ref = minted']

InstagramRenews(c) ==
    /\ At(c, "renew") /\ host = "instagram" /\ account.age # "dead"
    /\ Moves(c, "persist") /\ UNCHANGED <<granted, minted>>

Renews(c) ==
    /\ YouTubeRenews(c) \/ TikTokRenews(c) \/ InstagramRenews(c)
    /\ UNCHANGED <<account, lost, stored, remote>> /\ UploadFrame

\* Refused, no reply, or always with Facebook.
RenewalFails(c) ==
    /\ At(c, "renew") /\ GivesUp(c)
    /\ AccountStays /\ UNCHANGED <<stored, remote>> /\ UploadFrame

Persists(c) ==
    /\ At(c, "persist")
    /\ IF call[c].row = account.row
       THEN /\ account' = [account EXCEPT !.ref = Applied(call[c].ref),
                                          !.age = "fresh"]
            /\ IF c \in PublishCalls THEN Moves(c, "route") ELSE Ends(c)
       ELSE UNCHANGED account /\ GivesUp(c)
    /\ UNCHANGED <<granted, minted, lost, stored, remote>> /\ UploadFrame

\* The process dies, or the commit fails, with the new token in its hands.
PersistDies(c) ==
    /\ At(c, "persist") /\ lost' = TRUE
    /\ GivesUp(c)
    /\ UNCHANGED <<account, granted, minted, stored, remote>> /\ UploadFrame

-----------------------------------------------------------------------------
(* Publishing.  Every route is a list of requests to the platform.         *)

After(route, pc) ==
    CASE pc = "container" /\ route \in {"direct", "tiktok"} -> "bytes"
      [] pc = "container" /\ route \in {"url", "photo"}     -> "poll"
      [] pc = "bytes"                                       -> "poll"
      [] pc = "poll"                                        -> "publish"
Begins(u, route, pc) ==
    call' = [call EXCEPT ![u].route = route, ![u].pc = pc, ![u].tries = 0]

Publishing == AccountStays /\ UNCHANGED stored /\ UploadFrame

UploadShort(u)    == host = "youtube" /\ stored /\ Begins(u, "session", "send")
UploadTikTok(u)   == host = "tiktok" /\ stored
                     /\ Begins(u, "tiktok", "container")
UploadFacebook(u) == host = "facebook" /\ stored /\ Begins(u, "page", "publish")
\* A Reel goes to Meta directly, or by its URL when that is switched off or
\* the file does not survive its conversion.
PublishReel(u) ==
    /\ host = "instagram"
    /\ \/ stored /\ Begins(u, "direct", "container")
       \/ public /\ Begins(u, "url", "container")
PublishImage(u)   == host = "instagram" /\ public
                     /\ Begins(u, "photo", "container")

TakeRoute(u) ==
    /\ At(u, "route")
    /\ \/ UploadShort(u) \/ UploadTikTok(u) \/ UploadFacebook(u)
       \/ PublishReel(u) \/ PublishImage(u)
    /\ UNCHANGED remote /\ Publishing

\* A photo for YouTube or TikTok, a missing or empty file, nowhere to send
\* it from.
NoRoute(u) ==
    /\ At(u, "route") /\ Tells(u, "failed")
    /\ UNCHANGED remote /\ Publishing

\* Only the direct upload and YouTube's session repeat a request.
MayRepeat(u) == \/ call[u].route = "direct" /\ call[u].tries < 2
                   /\ call[u].pc \in {"container", "bytes", "poll"}
                \/ call[u].route = "session" /\ call[u].tries < 3

StepDone(u) ==
    /\ call[u].pc \in {"container", "bytes", "poll"}
    /\ call[u].route = "tiktok" => call[u].pc # "poll"
    /\ Begins(u, call[u].route, After(call[u].route, call[u].pc))
    /\ remote' = IF call[u].route = "tiktok" /\ call[u].pc = "bytes"
                 THEN [remote EXCEPT ![u].state = "processing"] ELSE remote
    /\ Publishing

StepRepeats(u) ==
    /\ call[u].pc \in {"container", "bytes", "poll"} /\ MayRepeat(u)
    /\ call' = [call EXCEPT ![u].tries = @ + 1]
    /\ UNCHANGED remote /\ Publishing

\* The direct upload hands over to the URL when there is one; a photo is
\* published whatever its status says.
Fails(u) ==
    CASE call[u].route = "direct" /\ public -> Begins(u, "url", "container")
      [] call[u].route = "photo" /\ At(u, "poll")
                                            -> Begins(u, "photo", "publish")
      [] OTHER                              -> Tells(u, "failed")
StepFails(u) ==
    /\ call[u].pc \in {"container", "bytes", "poll", "publish"}
    /\ Fails(u)
    /\ UNCHANGED remote /\ Publishing

Copies(u, n) == remote' = [remote EXCEPT ![u].copies = n]

\* The permalink is asked for afterwards, and its failure ignored.
MutPublishes(u) ==
    /\ At(u, "publish")
    /\ Copies(u, remote[u].copies + 1)
    /\ \/ Tells(u, "ok")
       \/ Fails(u)
    /\ Publishing
Publishes(u) ==
    /\ At(u, "publish")
    /\ Copies(u, remote[u].copies + 1)
    /\ \/ Tells(u, "ok")
       \/ LostReplies /\ Fails(u)
    /\ Publishing

\* YouTube: a repeated request asks its own session how far it came, so that
\* a video that arrived is not sent again.
Sends(u) ==
    /\ At(u, "send")
    /\ Copies(u, 1) /\ Moves(u, "extras")
    /\ Publishing

SendLosesReply(u) ==
    /\ At(u, "send") /\ (MayRepeat(u) \/ LostReplies)
    /\ Copies(u, 1)
    /\ IF MayRepeat(u) THEN call' = [call EXCEPT ![u].tries = @ + 1]
       ELSE Tells(u, "failed")
    /\ Publishing

\* A server or transport error is tried again, a refusal is final.
SendFails(u) ==
    /\ At(u, "send")
    /\ \/ MayRepeat(u) /\ call' = [call EXCEPT ![u].tries = @ + 1]
       \/ remote[u].copies = 0 /\ Tells(u, "failed")
    /\ UNCHANGED remote /\ Publishing

\* The thumbnail and the playlists end in a note.
Extras(u) ==
    /\ At(u, "extras") /\ Tells(u, "ok")
    /\ UNCHANGED remote /\ Publishing

\* TikTok publishes in its own time, for five minutes of which it is asked.
TikTokDecides(u) ==
    /\ remote[u].state = "processing"
    /\ \/ remote' = [remote EXCEPT ![u] = [copies |-> 1, state |-> "none"]]
       \/ remote' = [remote EXCEPT ![u].state = "rejected"]
    /\ UNCHANGED call /\ Publishing

TikTokPolls(u) ==
    /\ At(u, "poll") /\ call[u].route = "tiktok"
    /\ remote[u].copies = 1
    /\ Tells(u, "ok")
    /\ UNCHANGED remote /\ Publishing

\* Another post's clean-up removes a file they share.
FileGoes ==
    /\ stored /\ stored' = FALSE
    /\ UNCHANGED <<call, remote>> /\ AccountStays /\ UploadFrame

-----------------------------------------------------------------------------
UploadStep(u) ==
    \/ StartUpload(u) \/ TakeRoute(u) \/ NoRoute(u)
    \/ StepDone(u) \/ StepRepeats(u) \/ StepFails(u) \/ Publishes(u)
    \/ Sends(u) \/ SendLosesReply(u) \/ SendFails(u) \/ Extras(u)
    \/ TikTokDecides(u) \/ TikTokPolls(u)

UploadsNext ==
    \/ \E u \in PublishCalls : UploadStep(u)
    \/ \E c \in Listings : ListPlaylists(c)
    \/ \E c \in PublishCalls \cup Listings :
         Renews(c) \/ RenewalFails(c) \/ Persists(c) \/ PersistDies(c)
    \/ \E c \in SignIns : \/ SignIn(c) \/ SignInFails(c) \/ YouTubeGrants(c)
                            \/ TikTokGrants(c) \/ InstagramGrants(c)
                            \/ FacebookGrants(c) \/ Introduces(c)
                            \/ NoChannel(c) \/ LooksUp(c) \/ Connects(c) \/ ConnectsTooLate(c)
    \/ Disconnects \/ TokenAges \/ FileGoes

UploadsSpec == UploadsInit /\ [][UploadsNext]_uploadVars

-----------------------------------------------------------------------------
(* Properties *)

\* A call that reports success has published one copy, through retries and
\* the hand-over from the direct upload to the URL; one that reports failure
\* has published none, so that a retry does not post twice.  TikTok may
\* still publish what it was too slow to confirm.
UploadOutcomeIsTrue ==
    \A u \in PublishCalls :
       /\ remote[u].copies <= 1
       /\ call[u].told = "ok" => remote[u].copies = 1
       /\ call[u].told = "failed" /\ host # "tiktok" => remote[u].copies = 0

\* The stored refresh token is one the platform accepts, or a call holds its
\* successor and is about to store it, although uploads, the playlist picker
\* and sign-ins renew and replace it at once - unless a process died with
\* the new token in its hands.
StoredTokenRenews ==
    account.row # 0 /\ HasRefresh /\ ~lost
       => \/ account.ref \in granted
          \/ \E c \in PublishCalls : At(c, "persist") /\ call[c].row = account.row
                                  /\ call[c].ref \in granted
=============================================================================
