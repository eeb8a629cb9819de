----------------------------- MODULE UploadProofs -----------------------------
(* Theorems about PlatformUploads, for every number of uploads, playlist     *)
(* requests and sign-ins and every bound.                                    *)
EXTENDS PlatformUploads, TLAPS

-----------------------------------------------------------------------------
(* Types, and what a step does to a call.                                    *)

Pcs == {"idle", "renew", "persist", "route", "container", "bytes", "poll",
        "publish", "send", "extras", "exchange", "info", "upsert", "commit"}
CallState == [pc: Pcs, row: 0..MaxTokens, ref: 0..MaxTokens, route: Routes,
              tries: 0..4, told: {"none", "ok", "failed"}]

Rest(c)     == \A d \in Calls \ {c} : call'[d] = call[d]
CallsTyped  == call' \in [Calls -> CallState]

LEMMA Bounds == MaxTokens \in Nat /\ 0 \in 0..MaxTokens /\ 0 \in 0..4
BY UploadsAssumption

LEMMA NoCallTyped ==
    /\ NoCall \in CallState /\ NoCall.pc = "idle" /\ NoCall.told = "none"
    /\ NoCall.row = 0 /\ NoCall.ref = 0
<1>1. "idle" \in Pcs /\ "none" \in Routes
  BY DEF Pcs, Routes
<1> QED
  BY <1>1, Bounds DEF NoCall, CallState

\* A step of a call writes that call only.
LEMMA SetCall ==
    ASSUME UploadTypeOK, NEW c \in Calls, NEW x \in CallState,
           call' = [call EXCEPT ![c] = x]
    PROVE  CallsTyped /\ call'[c] = x /\ Rest(c)
BY DEF UploadTypeOK, CallsTyped, CallState, Pcs, Rest

LEMMA CallTyped ==
    ASSUME UploadTypeOK, NEW c \in Calls
    PROVE  call[c] \in CallState
BY DEF UploadTypeOK, CallState, Pcs

LEMMA MovesEffect ==
    ASSUME UploadTypeOK, NEW c \in Calls, NEW pc \in Pcs, Moves(c, pc)
    PROVE  /\ CallsTyped /\ Rest(c)
           /\ call'[c].pc = pc /\ call'[c].row = call[c].row
           /\ call'[c].ref = call[c].ref /\ call'[c].route = call[c].route
           /\ call'[c].told = call[c].told
<1> DEFINE x == [call[c] EXCEPT !.pc = pc]
<1>1. call[c] \in CallState
  BY CallTyped
<1>2. x \in CallState /\ x.pc = pc /\ x.row = call[c].row
      /\ x.ref = call[c].ref /\ x.route = call[c].route
      /\ x.told = call[c].told
  BY <1>1 DEF CallState
<1>3. call' = [call EXCEPT ![c] = x]
  BY DEF Moves
<1> HIDE DEF x
<1> QED
  BY <1>2, <1>3, SetCall

LEMMA TellsEffect ==
    ASSUME UploadTypeOK, NEW c \in Calls, NEW t \in {"none", "ok", "failed"},
           call' = [call EXCEPT ![c] = [NoCall EXCEPT !.told = t]]
    PROVE  /\ CallsTyped /\ Rest(c)
           /\ call'[c].pc = "idle" /\ call'[c].told = t
           /\ call'[c].ref = 0
<1> DEFINE x == [NoCall EXCEPT !.told = t]
<1>1. x \in CallState /\ x.pc = "idle" /\ x.told = t /\ x.ref = 0
  BY NoCallTyped DEF CallState
<1> HIDE DEF x
<1> QED
  BY <1>1, SetCall DEF x

LEMMA EndsEffect ==
    ASSUME UploadTypeOK, NEW c \in Calls, Ends(c)
    PROVE  /\ CallsTyped /\ Rest(c)
           /\ call'[c].pc = "idle" /\ call'[c].told = "none"
           /\ call'[c].ref = 0
BY NoCallTyped, SetCall DEF Ends

LEMMA GivesUpEffect ==
    ASSUME UploadTypeOK, NEW c \in Calls, GivesUp(c)
    PROVE  /\ CallsTyped /\ Rest(c)
           /\ call'[c].pc = "idle" /\ call'[c].told \in {"none", "failed"}
           /\ call'[c].ref = 0
BY TellsEffect, EndsEffect DEF GivesUp, Tells

LEMMA ReadsEffect ==
    ASSUME UploadTypeOK, NEW c \in Calls, NEW pc \in Pcs, Reads(c, pc)
    PROVE  /\ CallsTyped /\ Rest(c)
           /\ call'[c].pc = (IF Expired THEN "renew" ELSE pc)
           /\ call'[c].row = account.row /\ call'[c].ref = account.ref
           /\ call'[c].told = "none"
<1> DEFINE x == [NoCall EXCEPT !.row = account.row, !.ref = account.ref,
                               !.pc = IF Expired THEN "renew" ELSE pc]
<1>1. account.row \in 0..MaxTokens /\ account.ref \in 0..MaxTokens
  BY DEF UploadTypeOK
<1>2. (IF Expired THEN "renew" ELSE pc) \in Pcs
  BY DEF Pcs
<1>3. x \in CallState /\ x.row = account.row /\ x.ref = account.ref
      /\ x.pc = (IF Expired THEN "renew" ELSE pc) /\ x.told = "none"
  BY <1>1, <1>2, NoCallTyped DEF CallState
<1> HIDE DEF x
<1> QED
  BY <1>3, SetCall DEF Reads, x

LEMMA BeginsEffect ==
    ASSUME UploadTypeOK, NEW c \in Calls, NEW route \in Routes, NEW pc \in Pcs,
           Begins(c, route, pc)
    PROVE  /\ CallsTyped /\ Rest(c)
           /\ call'[c].pc = pc /\ call'[c].route = route
           /\ call'[c].told = call[c].told /\ call'[c].ref = call[c].ref
<1> DEFINE x == [call[c] EXCEPT !.route = route, !.pc = pc, !.tries = 0]
<1>1. call[c] \in CallState
  BY CallTyped
<1>2. x \in CallState /\ x.pc = pc /\ x.route = route /\ x.told = call[c].told
      /\ x.ref = call[c].ref
  BY <1>1, Bounds DEF CallState
<1>3. call' = [call EXCEPT ![c] = x]
  BY DEF Begins
<1> HIDE DEF x
<1> QED
  BY <1>2, <1>3, SetCall

LEMMA RepeatEffect ==
    ASSUME UploadTypeOK, NEW c \in Calls, MayRepeat(c),
           call' = [call EXCEPT ![c].tries = @ + 1]
    PROVE  /\ CallsTyped /\ Rest(c)
           /\ call'[c].pc = call[c].pc /\ call'[c].route = call[c].route
           /\ call'[c].told = call[c].told /\ call'[c].ref = call[c].ref
<1> DEFINE x == [call[c] EXCEPT !.tries = call[c].tries + 1]
<1>1. call[c] \in CallState
  BY CallTyped
<1>2. call[c].tries + 1 \in 0..4
  BY <1>1 DEF MayRepeat, CallState
<1>3. x \in CallState /\ x.pc = call[c].pc /\ x.route = call[c].route
      /\ x.told = call[c].told /\ x.ref = call[c].ref
  BY <1>1, <1>2 DEF CallState
<1>4. call' = [call EXCEPT ![c] = x]
  OBVIOUS
<1> HIDE DEF x
<1> QED
  BY <1>3, <1>4, SetCall

LEMMA RemoteEffect ==
    ASSUME UploadTypeOK, NEW u \in PublishCalls, NEW n \in Nat,
           NEW st \in {"none", "processing", "rejected"}
    PROVE  /\ [remote EXCEPT ![u].copies = n]
                = [remote EXCEPT ![u] = [copies |-> n, state |-> remote[u].state]]
           /\ [remote EXCEPT ![u].state = st]
                = [remote EXCEPT ![u] = [copies |-> remote[u].copies, state |-> st]]
           /\ remote[u].copies \in Nat
           /\ remote[u].state \in {"none", "processing", "rejected"}
<1> DEFINE x == [remote[u] EXCEPT !.copies = n]
           y == [remote[u] EXCEPT !.state = st]
<1>1. remote[u] \in [copies: Nat, state: {"none", "processing", "rejected"}]
  BY DEF UploadTypeOK
<1>2. x = [copies |-> n, state |-> remote[u].state]
  BY <1>1
<1>3. y = [copies |-> remote[u].copies, state |-> st]
  BY <1>1
<1>4. /\ [remote EXCEPT ![u].copies = n] = [remote EXCEPT ![u] = x]
      /\ [remote EXCEPT ![u].state = st] = [remote EXCEPT ![u] = y]
  OBVIOUS
<1> HIDE DEF x, y
<1> QED
  BY <1>1, <1>2, <1>3, <1>4

RemoteRest(u) == \A v \in PublishCalls \ {u} : remote'[v] = remote[v]
RemoteTyped == remote' \in [PublishCalls -> [copies: Nat,
                               state: {"none", "processing", "rejected"}]]

LEMMA SetRemote ==
    ASSUME UploadTypeOK, NEW u \in PublishCalls, NEW n \in Nat,
           NEW st \in {"none", "processing", "rejected"},
           remote' = [remote EXCEPT ![u] = [copies |-> n, state |-> st]]
    PROVE  /\ RemoteTyped /\ RemoteRest(u)
           /\ remote'[u].copies = n /\ remote'[u].state = st
BY DEF UploadTypeOK, RemoteTyped, RemoteRest

-----------------------------------------------------------------------------
(* Where an upload is.                                                       *)

UploadPcs == {"idle", "renew", "persist", "route", "container", "bytes",
              "poll", "publish", "send", "extras"}

\* An upload has told nothing before its end, and takes a route of its host.
OnRoute(u) ==
    /\ call[u].pc \in UploadPcs
    /\ call[u].pc # "idle" => call[u].told = "none"
    /\ call[u].pc \in {"container", "bytes", "poll"} =>
          /\ call[u].route \in {"direct", "tiktok", "url", "photo"}
          /\ call[u].route = "tiktok" <=> host = "tiktok"
    /\ call[u].pc = "publish" => host # "tiktok" /\ call[u].route # "tiktok"
    /\ call[u].pc = "send" => call[u].route = "session" /\ host = "youtube"
    /\ call[u].pc = "extras" => host = "youtube"

\* What the platform has of the post, by how far the upload is.
Outcome(u) ==
    /\ remote[u].copies \in {0, 1}
    /\ remote[u].state = "processing" =>
          /\ host = "tiktok" /\ remote[u].copies = 0
          /\ call[u].pc \in {"poll", "idle"} /\ call[u].told # "ok"
    /\ call[u].pc \in {"renew", "persist", "route", "container", "bytes",
                       "publish"} => remote[u].copies = 0
    /\ call[u].pc = "poll" /\ host # "tiktok" => remote[u].copies = 0
    /\ call[u].pc = "extras" => remote[u].copies = 1
    /\ call[u].told = "ok" => remote[u].copies = 1
    /\ call[u].told = "failed" /\ host # "tiktok" => remote[u].copies = 0

\* A step of upload u keeps all this.
Kept(u) ==
    /\ CallsTyped /\ RemoteTyped /\ Rest(u) /\ RemoteRest(u) /\ host' = host
    /\ OnRoute(u)'
    /\ ~LostReplies /\ Outcome(u) => Outcome(u)'

LEMMA PcsTyped == UploadPcs \subseteq Pcs /\ PublishCalls \subseteq Calls
BY DEF UploadPcs, Pcs, Calls

\* An upload that ends as "failed" with nothing on the platform.
LEMMA EndsUnpublished ==
    ASSUME UploadTypeOK, NEW u \in PublishCalls, Tells(u, "failed"),
           UNCHANGED <<remote, host>>,
           ~LostReplies /\ Outcome(u)
              => host = "tiktok" \/ remote[u].copies = 0
    PROVE  Kept(u)
<1>1. /\ CallsTyped /\ Rest(u)
      /\ call'[u].pc = "idle" /\ call'[u].told = "failed"
  BY PcsTyped, TellsEffect DEF Tells
<1>2. RemoteTyped /\ RemoteRest(u)
  BY DEF RemoteTyped, RemoteRest, UploadTypeOK
<1>3. OnRoute(u)'
  BY <1>1 DEF OnRoute, UploadPcs
<1>4. ~LostReplies /\ Outcome(u) => Outcome(u)'
  BY <1>1 DEF Outcome
<1> QED
  BY <1>1, <1>2, <1>3, <1>4 DEF Kept

LEMMA StartUploadKept ==
    ASSUME UploadTypeOK, NEW u \in PublishCalls, OnRoute(u), StartUpload(u)
    PROVE  Kept(u)
<1>1. remote' = [remote EXCEPT ![u] = [copies |-> 0, state |-> "none"]]
      /\ host' = host
  BY DEF StartUpload, NoRemote
<1>2. /\ RemoteTyped /\ RemoteRest(u)
      /\ remote'[u].copies = 0 /\ remote'[u].state = "none"
  BY <1>1, SetRemote
<1>3. /\ CallsTyped /\ Rest(u)
      /\ \/ call'[u].pc = "idle" /\ call'[u].told = "failed"
         \/ call'[u].pc \in {"renew", "route"} /\ call'[u].told = "none"
  <2>1. CASE account.row = 0
    BY <2>1, PcsTyped, TellsEffect DEF StartUpload, Tells
  <2>2. CASE account.row # 0
    <3>1. Reads(u, "route")
      BY <2>2 DEF StartUpload
    <3> QED
      BY <3>1, PcsTyped, ReadsEffect DEF UploadPcs
  <2> QED
    BY <2>1, <2>2
<1>4. OnRoute(u)'
  BY <1>3 DEF OnRoute, UploadPcs
<1>5. Outcome(u)'
  BY <1>2, <1>3 DEF Outcome
<1> QED
  BY <1>1, <1>2, <1>3, <1>4, <1>5 DEF Kept

\* The platform has what it had before.
LEMMA SameRemote ==
    ASSUME UploadTypeOK, NEW u \in PublishCalls, UNCHANGED <<remote, host>>,
           CallsTyped, Rest(u), OnRoute(u)',
           call'[u].told # "ok" \/ call'[u].told = call[u].told,
           call'[u].told = "failed" => call[u].told = "failed",
           ~LostReplies /\ Outcome(u) =>
              /\ remote[u].state = "processing" => call'[u].pc \in {"poll", "idle"}
              /\ call'[u].pc \in {"renew", "persist", "route", "container",
                                  "bytes", "publish"}
                   => remote[u].copies = 0
              /\ call'[u].pc = "poll" /\ host # "tiktok" => remote[u].copies = 0
              /\ call'[u].pc = "extras" => remote[u].copies = 1
    PROVE  Kept(u)
<1>1. RemoteTyped /\ RemoteRest(u)
  BY DEF RemoteTyped, RemoteRest, UploadTypeOK
<1>2. ~LostReplies /\ Outcome(u) => Outcome(u)'
  BY DEF Outcome
<1> QED
  BY <1>1, <1>2 DEF Kept

LEMMA TakeRouteKept ==
    ASSUME UploadTypeOK, NEW u \in PublishCalls, OnRoute(u), TakeRoute(u)
    PROVE  Kept(u)
<1>1. call[u].pc = "route" /\ call[u].told = "none" /\ UNCHANGED <<remote, host>>
  BY DEF TakeRoute, At, OnRoute, Publishing, UploadFrame
<1>2. PICK route \in Routes, pc \in {"send", "container", "publish"} :
         /\ Begins(u, route, pc)
         /\ pc = "send" => route = "session" /\ host = "youtube"
         /\ pc = "publish" => route = "page" /\ host = "facebook"
         /\ pc = "container" =>
               /\ route \in {"direct", "tiktok", "url", "photo"}
               /\ route = "tiktok" <=> host = "tiktok"
  <2>1. {"session", "tiktok", "page", "direct", "url", "photo"} \subseteq Routes
    BY DEF Routes
  <2> QED
    BY <2>1 DEF TakeRoute, UploadShort, UploadTikTok, UploadFacebook,
       PublishReel, PublishImage
<1>3. /\ CallsTyped /\ Rest(u)
      /\ call'[u].pc = pc /\ call'[u].route = route
      /\ call'[u].told = "none"
  BY <1>1, <1>2, PcsTyped, BeginsEffect DEF UploadPcs
<1>4. OnRoute(u)'
  BY <1>1, <1>2, <1>3 DEF OnRoute, UploadPcs
<1>5. Outcome(u) => remote[u].copies = 0 /\ remote[u].state # "processing"
  BY <1>1 DEF Outcome
<1> QED
  BY <1>1, <1>2, <1>3, <1>4, <1>5, SameRemote

LEMMA StepDoneKept ==
    ASSUME UploadTypeOK, NEW u \in PublishCalls, OnRoute(u), StepDone(u)
    PROVE  Kept(u)
<1> DEFINE pc == call[u].pc
           route == call[u].route
<1>1. /\ pc \in {"container", "bytes", "poll"} /\ call[u].told = "none"
      /\ route \in {"direct", "tiktok", "url", "photo"}
      /\ route = "tiktok" <=> host = "tiktok"
      /\ route = "tiktok" => pc # "poll"
      /\ host' = host
  BY DEF StepDone, OnRoute, Publishing, UploadFrame
<1>2. PICK next : next = After(route, pc)
  OBVIOUS
<1>3. /\ pc = "container" /\ route \in {"direct", "tiktok"} => next = "bytes"
      /\ pc = "container" /\ route \in {"url", "photo"} => next = "poll"
      /\ pc = "bytes" => next = "poll"
      /\ pc = "poll" => next = "publish"
  BY <1>1, <1>2 DEF After
<1>4. /\ CallsTyped /\ Rest(u)
      /\ call'[u].pc = next /\ call'[u].route = route
      /\ call'[u].told = "none"
  <2>1. next \in Pcs /\ route \in Routes
    BY <1>1, <1>3 DEF Pcs, Routes
  <2>2. Begins(u, route, next)
    BY <1>2 DEF StepDone
  <2> QED
    BY <1>1, <2>1, <2>2, PcsTyped, BeginsEffect
<1>5. OnRoute(u)'
  BY <1>1, <1>3, <1>4 DEF OnRoute, UploadPcs
<1>6. CASE route = "tiktok" /\ pc = "bytes"
  <2>1. remote' = [remote EXCEPT ![u] = [copies |-> remote[u].copies,
                                         state |-> "processing"]]
    BY <1>6, RemoteEffect DEF StepDone
  <2>2. /\ RemoteTyped /\ RemoteRest(u)
        /\ remote'[u].copies = remote[u].copies
        /\ remote'[u].state = "processing"
    BY <2>1, RemoteEffect, SetRemote
  <2>3. Outcome(u) => Outcome(u)'
    BY <1>1, <1>3, <1>4, <1>6, <2>2 DEF Outcome
  <2> QED
    BY <1>1, <1>4, <1>5, <2>2, <2>3 DEF Kept
<1>7. CASE ~(route = "tiktok" /\ pc = "bytes")
  <2>1. UNCHANGED <<remote, host>>
    BY <1>1, <1>7 DEF StepDone
  <2>2. Outcome(u) => remote[u].copies = 0 /\ remote[u].state # "processing"
    BY <1>1 DEF Outcome
  <2>3. next # "extras"
    BY <1>1, <1>3
  <2> QED
    BY <1>4, <1>5, <2>1, <2>2, <2>3, SameRemote
<1> QED
  BY <1>6, <1>7

LEMMA StepRepeatsKept ==
    ASSUME UploadTypeOK, NEW u \in PublishCalls, OnRoute(u), StepRepeats(u)
    PROVE  Kept(u)
<1>1. /\ CallsTyped /\ Rest(u) /\ UNCHANGED <<remote, host>>
      /\ call'[u].pc = call[u].pc /\ call'[u].route = call[u].route
      /\ call'[u].told = call[u].told
  BY PcsTyped, RepeatEffect DEF StepRepeats, Publishing, UploadFrame
<1>2. OnRoute(u)'
  BY <1>1 DEF OnRoute
<1>3. /\ Outcome(u) /\ remote[u].state = "processing"
            => call[u].pc \in {"poll", "idle"}
      /\ Outcome(u) /\ call[u].pc \in {"container", "bytes"}
            => remote[u].copies = 0
      /\ Outcome(u) /\ call[u].pc = "poll" /\ host # "tiktok"
            => remote[u].copies = 0
  BY DEF Outcome
<1>4. call[u].pc \in {"container", "bytes", "poll"}
  BY DEF StepRepeats
<1>5. call[u].told = "none"
  BY <1>4 DEF OnRoute
<1> QED
  BY <1>1, <1>2, <1>3, <1>4, <1>5, SameRemote

\* The hand-over, the photo that is published unseen, or the end.
LEMMA FailsEffect ==
    ASSUME UploadTypeOK, NEW u \in PublishCalls, OnRoute(u), Fails(u),
           call[u].pc \in {"container", "bytes", "poll", "publish"}
    PROVE  /\ CallsTyped /\ Rest(u)
           /\ \/ /\ call[u].route = "direct" /\ call'[u].route = "url"
                 /\ call'[u].pc = "container" /\ call'[u].told = "none"
              \/ /\ call[u].route = "photo" /\ call'[u].route = "photo"
                 /\ call[u].pc = "poll"
                 /\ call'[u].pc = "publish" /\ call'[u].told = "none"
              \/ Tells(u, "failed")
<1>0. call[u].told = "none"
  BY DEF OnRoute
<1>1. \/ call[u].route = "direct" /\ Begins(u, "url", "container")
      \/ /\ call[u].route = "photo" /\ call[u].pc = "poll"
         /\ Begins(u, "photo", "publish")
      \/ Tells(u, "failed")
  BY DEF Fails, At
<1>2. /\ "url" \in Routes /\ "photo" \in Routes
      /\ "container" \in Pcs /\ "publish" \in Pcs
  BY DEF Routes, Pcs
<1>3. CASE Begins(u, "url", "container") /\ call[u].route = "direct"
  BY <1>0, <1>2, <1>3, PcsTyped, BeginsEffect
<1>4. CASE /\ Begins(u, "photo", "publish")
           /\ call[u].route = "photo" /\ call[u].pc = "poll"
  BY <1>0, <1>2, <1>4, PcsTyped, BeginsEffect
<1>5. CASE Tells(u, "failed")
  BY <1>5, PcsTyped, TellsEffect DEF Tells
<1> QED
  BY <1>1, <1>3, <1>4, <1>5

LEMMA StepFailsKept ==
    ASSUME UploadTypeOK, NEW u \in PublishCalls, OnRoute(u), StepFails(u)
    PROVE  Kept(u)
<1>1. /\ call[u].pc \in {"container", "bytes", "poll", "publish"}
      /\ Fails(u) /\ UNCHANGED <<remote, host>>
  BY DEF StepFails, Publishing, UploadFrame
<1>2. /\ CallsTyped /\ Rest(u)
      /\ \/ /\ call[u].route = "direct" /\ call'[u].route = "url"
            /\ call'[u].pc = "container" /\ call'[u].told = "none"
         \/ /\ call[u].route = "photo" /\ call'[u].route = "photo"
            /\ call[u].pc = "poll"
            /\ call'[u].pc = "publish" /\ call'[u].told = "none"
         \/ Tells(u, "failed")
  BY <1>1, FailsEffect
<1>3. Outcome(u) => host = "tiktok" \/ remote[u].copies = 0
  BY <1>1 DEF Outcome
<1>4. CASE Tells(u, "failed")
  BY <1>1, <1>3, <1>4, EndsUnpublished
<1>5. CASE ~Tells(u, "failed")
  <2>1. host # "tiktok"
    BY <1>1, <1>2, <1>5 DEF OnRoute
  <2>2. OnRoute(u)'
    BY <1>1, <1>2, <1>5, <2>1 DEF OnRoute, UploadPcs
  <2>3. Outcome(u) => remote[u].state # "processing"
    BY <2>1 DEF Outcome
  <2> QED
    BY <1>1, <1>2, <1>3, <1>5, <2>1, <2>2, <2>3, SameRemote
<1> QED
  BY <1>4, <1>5

LEMMA PublishesKept ==
    ASSUME UploadTypeOK, NEW u \in PublishCalls, OnRoute(u), Publishes(u)
    PROVE  Kept(u)
<1>0. /\ call[u].pc = "publish" /\ host # "tiktok" /\ host' = host
      /\ call[u].told = "none" /\ call[u].route # "tiktok"
  BY DEF Publishes, At, OnRoute, Publishing, UploadFrame
<1>1. remote[u].copies \in Nat /\ remote[u].copies + 1 \in Nat
      /\ remote[u].state \in {"none", "processing", "rejected"}
  BY DEF UploadTypeOK
<1>2. remote' = [remote EXCEPT ![u] = [copies |-> remote[u].copies + 1,
                                       state |-> remote[u].state]]
  BY <1>1, RemoteEffect DEF Publishes, Copies
<1>3. /\ RemoteTyped /\ RemoteRest(u)
      /\ remote'[u].copies = remote[u].copies + 1
      /\ remote'[u].state = remote[u].state
  BY <1>1, <1>2, SetRemote
<1>4. CASE Tells(u, "ok")
  <2>1. /\ CallsTyped /\ Rest(u)
        /\ call'[u].pc = "idle" /\ call'[u].told = "ok"
    BY <1>4, PcsTyped, TellsEffect DEF Tells
  <2>2. OnRoute(u)'
    BY <2>1 DEF OnRoute, UploadPcs
  <2>3. Outcome(u) => Outcome(u)'
    BY <1>0, <1>3, <2>1 DEF Outcome
  <2> QED
    BY <1>0, <1>3, <2>1, <2>2, <2>3 DEF Kept
<1>5. CASE LostReplies /\ Fails(u)
  <2>1. /\ CallsTyped /\ Rest(u)
        /\ \/ /\ call[u].route = "direct" /\ call'[u].route = "url"
              /\ call'[u].pc = "container" /\ call'[u].told = "none"
           \/ Tells(u, "failed")
    BY <1>0, <1>5, FailsEffect
  <2>2. OnRoute(u)'
    <3>1. CASE Tells(u, "failed")
      <4>1. call'[u].pc = "idle"
        BY <3>1, PcsTyped, TellsEffect DEF Tells
      <4> QED
        BY <4>1 DEF OnRoute, UploadPcs
    <3>2. CASE ~Tells(u, "failed")
      BY <1>0, <2>1, <3>2 DEF OnRoute, UploadPcs
    <3> QED
      BY <3>1, <3>2
  <2> QED
    BY <1>0, <1>3, <1>5, <2>1, <2>2 DEF Kept
<1> QED
  BY <1>4, <1>5 DEF Publishes

LEMMA CopyEffect ==
    ASSUME UploadTypeOK, NEW u \in PublishCalls, Copies(u, 1)
    PROVE  /\ RemoteTyped /\ RemoteRest(u)
           /\ remote'[u].copies = 1 /\ remote'[u].state = remote[u].state
<1>1. remote' = [remote EXCEPT ![u] = [copies |-> 1, state |-> remote[u].state]]
      /\ remote[u].state \in {"none", "processing", "rejected"}
  <2>1. 1 \in Nat
    OBVIOUS
  <2> QED
    BY <2>1, RemoteEffect DEF Copies
<1> QED
  BY <1>1, SetRemote

LEMMA SendsKept ==
    ASSUME UploadTypeOK, NEW u \in PublishCalls, OnRoute(u),
           Sends(u) \/ SendLosesReply(u)
    PROVE  Kept(u)
<1>0. /\ call[u].pc = "send" /\ host = "youtube" /\ host' = host
      /\ call[u].told = "none" /\ call[u].route = "session"
  BY DEF Sends, SendLosesReply, At, OnRoute, Publishing, UploadFrame
<1>1. /\ RemoteTyped /\ RemoteRest(u)
      /\ remote'[u].copies = 1 /\ remote'[u].state = remote[u].state
  BY CopyEffect DEF Sends, SendLosesReply
<1>2. Outcome(u) => remote[u].state # "processing"
  BY <1>0 DEF Outcome
<1>3. CASE Sends(u)
  <2>1. /\ CallsTyped /\ Rest(u)
        /\ call'[u].pc = "extras" /\ call'[u].told = "none"
    <3>1. "extras" \in Pcs
      BY DEF Pcs
    <3> QED
      BY <1>0, <1>3, <3>1, PcsTyped, MovesEffect DEF Sends
  <2>2. OnRoute(u)'
    BY <1>0, <2>1 DEF OnRoute, UploadPcs
  <2>3. Outcome(u) => Outcome(u)'
    BY <1>0, <1>1, <1>2, <2>1 DEF Outcome
  <2> QED
    BY <1>0, <1>1, <2>1, <2>2, <2>3 DEF Kept
<1>4. CASE SendLosesReply(u) /\ MayRepeat(u)
  <2>1. /\ CallsTyped /\ Rest(u)
        /\ call'[u].pc = "send" /\ call'[u].told = "none"
        /\ call'[u].route = "session"
    BY <1>0, <1>4, PcsTyped, RepeatEffect DEF SendLosesReply
  <2>2. OnRoute(u)'
    BY <1>0, <2>1 DEF OnRoute, UploadPcs
  <2>3. Outcome(u) => Outcome(u)'
    BY <1>0, <1>1, <1>2, <2>1 DEF Outcome
  <2> QED
    BY <1>0, <1>1, <2>1, <2>2, <2>3 DEF Kept
<1>5. CASE SendLosesReply(u) /\ ~MayRepeat(u)
  <2>1. LostReplies /\ Tells(u, "failed")
    BY <1>5 DEF SendLosesReply
  <2>2. CallsTyped /\ Rest(u) /\ call'[u].pc = "idle"
    BY <2>1, PcsTyped, TellsEffect DEF Tells
  <2>3. OnRoute(u)'
    BY <2>2 DEF OnRoute, UploadPcs
  <2> QED
    BY <1>0, <1>1, <2>1, <2>2, <2>3 DEF Kept
<1> QED
  BY <1>3, <1>4, <1>5

LEMMA SendFailsKept ==
    ASSUME UploadTypeOK, NEW u \in PublishCalls, OnRoute(u), SendFails(u)
    PROVE  Kept(u)
<1>0. /\ call[u].pc = "send" /\ host = "youtube" /\ UNCHANGED <<remote, host>>
      /\ call[u].told = "none" /\ call[u].route = "session"
  BY DEF SendFails, At, OnRoute, Publishing, UploadFrame
<1>1. CASE MayRepeat(u) /\ call' = [call EXCEPT ![u].tries = @ + 1]
  <2>1. /\ CallsTyped /\ Rest(u)
        /\ call'[u].pc = "send" /\ call'[u].told = "none"
        /\ call'[u].route = "session"
    BY <1>0, <1>1, PcsTyped, RepeatEffect
  <2>2. OnRoute(u)'
    BY <1>0, <2>1 DEF OnRoute, UploadPcs
  <2>3. Outcome(u) => remote[u].state # "processing"
    BY <1>0 DEF Outcome
  <2> QED
    BY <1>0, <2>1, <2>2, <2>3, SameRemote
<1>2. CASE remote[u].copies = 0 /\ Tells(u, "failed")
  BY <1>0, <1>2, EndsUnpublished
<1> QED
  BY <1>1, <1>2 DEF SendFails

LEMMA EndsPublished ==
    ASSUME UploadTypeOK, NEW u \in PublishCalls, OnRoute(u),
           Extras(u) \/ TikTokPolls(u)
    PROVE  Kept(u)
<1>1. /\ CallsTyped /\ Rest(u) /\ UNCHANGED <<remote, host>>
      /\ call'[u].pc = "idle" /\ call'[u].told = "ok"
  BY PcsTyped, TellsEffect
  DEF Extras, TikTokPolls, Tells, Publishing, UploadFrame
<1>2. RemoteTyped /\ RemoteRest(u)
  BY <1>1 DEF RemoteTyped, RemoteRest, UploadTypeOK
<1>3. OnRoute(u)'
  BY <1>1 DEF OnRoute, UploadPcs
<1>4. Outcome(u) => remote[u].copies = 1 /\ remote[u].state # "processing"
  BY DEF Outcome, Extras, TikTokPolls, At
<1>5. Outcome(u) => Outcome(u)'
  BY <1>1, <1>4 DEF Outcome
<1> QED
  BY <1>1, <1>2, <1>3, <1>5 DEF Kept

LEMMA TikTokDecidesKept ==
    ASSUME UploadTypeOK, NEW u \in PublishCalls, OnRoute(u), TikTokDecides(u)
    PROVE  Kept(u)
<1>1. UNCHANGED <<call, host>> /\ remote[u].state = "processing"
  BY DEF TikTokDecides, Publishing, UploadFrame
<1>2. CallsTyped /\ Rest(u) /\ OnRoute(u)'
  BY <1>1 DEF UploadTypeOK, CallsTyped, CallState, Pcs, Rest, OnRoute
<1>3. PICK n \in Nat, st \in {"none", "rejected"} :
         /\ remote' = [remote EXCEPT ![u] = [copies |-> n, state |-> st]]
         /\ n = 1 \/ n = remote[u].copies
  <2>1. 1 \in Nat /\ remote[u].copies \in Nat
    BY RemoteEffect
  <2>2. [remote EXCEPT ![u].state = "rejected"]
           = [remote EXCEPT ![u] = [copies |-> remote[u].copies,
                                    state |-> "rejected"]]
    BY <2>1, RemoteEffect
  <2> QED
    BY <2>1, <2>2 DEF TikTokDecides
<1>4. /\ RemoteTyped /\ RemoteRest(u)
      /\ remote'[u].copies = n /\ remote'[u].state = st
  BY <1>3, SetRemote
<1>5. Outcome(u) => Outcome(u)'
  BY <1>1, <1>3, <1>4 DEF Outcome
<1> QED
  BY <1>1, <1>2, <1>4, <1>5 DEF Kept

LEMMA UploadStepKept ==
    ASSUME UploadTypeOK, NEW u \in PublishCalls, OnRoute(u), UploadStep(u)
    PROVE  Kept(u)
<1>1. CASE NoRoute(u)
  <2>1. Outcome(u) => remote[u].copies = 0
    BY <1>1 DEF Outcome, NoRoute, At
  <2> QED
    BY <1>1, <2>1, EndsUnpublished DEF NoRoute, Publishing, UploadFrame
<1> QED
  BY <1>1, StartUploadKept, TakeRouteKept, StepDoneKept, StepRepeatsKept,
     StepFailsKept, PublishesKept, SendsKept, SendFailsKept, EndsPublished,
     TikTokDecidesKept DEF UploadStep

-----------------------------------------------------------------------------
(* Who holds which refresh token.                                            *)

\* A call that was given a token and has not stored it yet.
Held(c) == call[c].pc \in {"persist", "info", "upsert", "commit"}

\* Tokens are numbered as they are issued.
Numbered ==
    /\ granted \subseteq 1..minted /\ account.ref \in 0..minted
    /\ \A c \in Calls : call[c].ref \in 0..minted

\* The playlist picker is YouTube's, and a sign-in renews nothing.
Places ==
    /\ \A c \in Listings : /\ call[c].pc \in {"idle", "renew", "persist"}
                           /\ call[c].pc # "idle" => host = "youtube"
    /\ \A c \in SignIns : call[c].pc \in {"idle", "exchange", "info",
                                          "upsert", "commit"}

\* A token in the hands of a call is good, and YouTube's are never replaced.
HeldIsGood ==
    /\ HasRefresh => \A c \in Calls : Held(c) => call[c].ref \in granted
    /\ host = "youtube" /\ account.row # 0 => account.ref \in granted

\* With TikTok a token is in the hands of one call, and stored by none yet.
HeldByOne ==
    host = "tiktok" =>
       \A c \in Calls : Held(c) =>
          /\ account.row # 0 => call[c].ref # account.ref
          /\ \A d \in Calls \ {c} : Held(d) \/ call[d].pc = "renew"
                                       => call[d].ref # call[c].ref

\* The call that renews the stored token read it from the row that is there.
RenewsThisRow ==
    host = "tiktok" /\ account.row # 0 =>
       \A c \in Calls : call[c].pc = "renew" /\ call[c].ref = account.ref
                          => call[c].row = account.row


\* Everything but the places of the calls.
Tokens == Numbered /\ HeldIsGood /\ HeldByOne /\ RenewsThisRow
          /\ StoredTokenRenews

LEMMA RefsTyped ==
    ASSUME UploadTypeOK
    PROVE  /\ minted \in Nat /\ account.row \in Nat /\ account.ref \in Nat
           /\ \A c \in Calls : call[c].ref \in Nat /\ call[c].row \in Nat
                               /\ call[c].pc \in Pcs
<1>1. \A n \in 0..MaxTokens : n \in Nat
  BY UploadsAssumption
<1>2. account.row \in 0..MaxTokens /\ account.ref \in 0..MaxTokens
  BY DEF UploadTypeOK
<1>3. \A c \in Calls : call[c] \in CallState
  BY CallTyped
<1> QED
  BY <1>1, <1>2, <1>3 DEF UploadTypeOK, CallState

\* A step of another call leaves the one that is about to store the token.
LEMMA SuccessorStays ==
    ASSUME StoredTokenRenews, NEW c \in Calls,
           \A d \in Calls \ {c} : call'[d] = call[d],
           UNCHANGED <<host, account, granted>>, lost' \/ ~lost,
           call[c].pc # "persist" \/ call[c].row # account.row \/ lost'
    PROVE  StoredTokenRenews'
<1>1. SUFFICES ASSUME account.row # 0, HasRefresh, ~lost', ~lost,
                      account.ref \notin granted
               PROVE  \E d \in PublishCalls : /\ call'[d].pc = "persist"
                                              /\ call'[d].row = account.row
                                              /\ call'[d].ref \in granted
  BY DEF StoredTokenRenews, HasRefresh, At
<1>2. PICK d \in PublishCalls : /\ call[d].pc = "persist"
                                /\ call[d].row = account.row
                                /\ call[d].ref \in granted
  BY <1>1 DEF StoredTokenRenews, At
<1>3. d # c /\ d \in Calls
  BY <1>1, <1>2 DEF Calls
<1> QED
  BY <1>2, <1>3

\* A call comes to a place where it has no token to renew or to store.
LEMMA DropsKept ==
    ASSUME Tokens, NEW c \in Calls, Rest(c), host' = host,
           UNCHANGED <<account, granted, minted>>,
           call'[c].pc \notin {"renew", "persist", "info", "upsert", "commit"},
           call'[c].ref \in 0..minted, lost' \/ ~lost,
           call[c].pc # "persist" \/ call[c].row # account.row \/ lost'
    PROVE  Tokens'
<1>1. \A d \in Calls \ {c} : call'[d] = call[d]
  BY DEF Rest
<1>2. Numbered'
  BY <1>1 DEF Tokens, Numbered
<1>3. HeldIsGood'
  BY <1>1 DEF Tokens, HeldIsGood, HasRefresh, Held
<1>4. HeldByOne'
  BY <1>1 DEF Tokens, HeldByOne, Held
<1>5. RenewsThisRow'
  BY <1>1 DEF Tokens, RenewsThisRow
<1>6. StoredTokenRenews'
  BY <1>1, SuccessorStays DEF Tokens
<1> QED
  BY <1>2, <1>3, <1>4, <1>5, <1>6 DEF Tokens

\* A call goes on with the token it has.
LEMMA CarriesKept ==
    ASSUME Tokens, NEW c \in Calls, Rest(c), host' = host,
           UNCHANGED <<account, granted, minted, lost>>,
           Held(c) \/ host # "tiktok",
           host = "youtube" => call[c].ref \in granted,
           call[c].pc # "persist", call'[c].pc # "renew",
           call'[c].ref = call[c].ref
    PROVE  Tokens'
<1>1. \A d \in Calls \ {c} : call'[d] = call[d]
  BY DEF Rest
<1>2. Numbered'
  BY <1>1 DEF Tokens, Numbered
<1>3. HeldIsGood'
  BY <1>1 DEF Tokens, HeldIsGood, HasRefresh, Held
<1>4. HeldByOne'
  BY <1>1 DEF Tokens, HeldByOne, Held
<1>5. RenewsThisRow'
  BY <1>1 DEF Tokens, RenewsThisRow
<1>6. StoredTokenRenews'
  BY <1>1, SuccessorStays DEF Tokens
<1> QED
  BY <1>2, <1>3, <1>4, <1>5, <1>6 DEF Tokens

\* A call reads the stored token, to renew it.
LEMMA ReadsKept ==
    ASSUME Tokens, NEW c \in Calls, Rest(c), host' = host,
           UNCHANGED <<account, granted, minted, lost>>,
           call[c].pc # "persist", account.row # 0, call'[c].pc = "renew",
           call'[c].row = account.row, call'[c].ref = account.ref
    PROVE  Tokens'
<1>1. \A d \in Calls \ {c} : call'[d] = call[d]
  BY DEF Rest
<1>2. Numbered'
  BY <1>1 DEF Tokens, Numbered
<1>3. HeldIsGood'
  BY <1>1 DEF Tokens, HeldIsGood, HasRefresh, Held
<1>4. HeldByOne'
  BY <1>1 DEF Tokens, HeldByOne, Held
<1>5. RenewsThisRow'
  BY <1>1 DEF Tokens, RenewsThisRow
<1>6. StoredTokenRenews'
  BY <1>1, SuccessorStays DEF Tokens
<1> QED
  BY <1>2, <1>3, <1>4, <1>5, <1>6 DEF Tokens

\* No call moves; the row stays, but for its age, or goes.
LEMMA RowKept ==
    ASSUME Tokens, UNCHANGED <<host, call, granted, minted, lost>>,
           \/ account'.row = account.row /\ account'.ref = account.ref
           \/ account'.row = 0 /\ account'.ref = 0,
           UploadTypeOK
    PROVE  Tokens'
<1>0. 0 \in 0..minted
  BY RefsTyped
<1>2. Numbered'
  BY <1>0 DEF Tokens, Numbered
<1>3. HeldIsGood'
  BY DEF Tokens, HeldIsGood, HasRefresh, Held
<1>4. HeldByOne'
  BY DEF Tokens, HeldByOne, Held
<1>5. RenewsThisRow'
  BY DEF Tokens, RenewsThisRow
<1>6. StoredTokenRenews'
  BY DEF Tokens, StoredTokenRenews, HasRefresh, At
<1> QED
  BY <1>2, <1>3, <1>4, <1>5, <1>6 DEF Tokens

\* A call is given a new token: the first of a sign-in, or what TikTok puts in
\* the place of the one the call renews.
LEMMA MintsKept ==
    ASSUME UploadTypeOK, Tokens, NEW c \in Calls, Rest(c), host' = host,
           UNCHANGED <<account, lost>>, minted' = minted + 1,
           call'[c].ref \in {0, minted + 1},
           call'[c].pc # "renew", call[c].pc # "persist",
           \/ /\ granted' = granted \/ granted' = granted \cup {minted + 1}
              /\ HasRefresh => /\ call'[c].ref = minted + 1
                               /\ granted' = granted \cup {minted + 1}
           \/ /\ host = "tiktok" /\ call[c].pc = "renew" /\ c \in PublishCalls
              /\ call'[c].pc = "persist" /\ call'[c].row = call[c].row
              /\ call'[c].ref = minted + 1
              /\ granted' = (granted \ {call[c].ref}) \cup {minted + 1}
    PROVE  Tokens'
<1>1. \A d \in Calls \ {c} : call'[d] = call[d]
  BY DEF Rest
<1>0. /\ minted \in Nat
      /\ \A n \in 0..minted : n # minted + 1 /\ n \in 0..(minted + 1)
      /\ \A n \in 1..minted : n \in 1..(minted + 1)
      /\ minted + 1 \in 1..(minted + 1) /\ minted + 1 \in 0..(minted + 1)
      /\ 0 \in 0..(minted + 1)
  BY RefsTyped
<1>9. /\ account.ref # minted + 1
      /\ \A d \in Calls \ {c} : call[d].ref # minted + 1
  BY <1>0 DEF Tokens, Numbered
<1>2. Numbered'
  <2>1. granted' \subseteq 1..minted'
    BY <1>0 DEF Tokens, Numbered
  <2>2. account'.ref \in 0..minted'
    BY <1>0 DEF Tokens, Numbered
  <2>3. \A d \in Calls : call'[d].ref \in 0..minted'
    BY <1>0, <1>1 DEF Tokens, Numbered
  <2> QED
    BY <2>1, <2>2, <2>3 DEF Numbered
<1>3. HeldIsGood'
  <2>1. ASSUME HasRefresh, NEW d \in Calls, Held(d)'
        PROVE  call'[d].ref \in granted'
    <3>1. CASE d = c
      BY <2>1, <3>1
    <3>2. CASE d # c
      <4>1. call[d].ref \in granted /\ Held(d)
        BY <1>1, <2>1, <3>2 DEF Tokens, HeldIsGood, Held
      <4>2. host = "tiktok" /\ call[c].pc = "renew" => call[c].ref # call[d].ref
        BY <3>2, <4>1 DEF Tokens, HeldByOne
      <4> QED
        BY <1>1, <3>2, <4>1, <4>2
    <3> QED
      BY <3>1, <3>2
  <2>2. host = "youtube" /\ account.row # 0 => account.ref \in granted'
    BY DEF Tokens, HeldIsGood
  <2> QED
    BY <2>1, <2>2 DEF HeldIsGood, HasRefresh
<1>4. HeldByOne'
  <2>1. SUFFICES ASSUME host = "tiktok", NEW d \in Calls, Held(d)'
                 PROVE  /\ account.row # 0 => call'[d].ref # account.ref
                        /\ \A e \in Calls \ {d} :
                              Held(e)' \/ call'[e].pc = "renew"
                                 => call'[e].ref # call'[d].ref
    BY DEF HeldByOne
  <2>2. call'[c].ref = minted + 1
    BY <2>1 DEF HasRefresh
  <2>3. CASE d = c
    BY <1>1, <1>9, <2>2, <2>3
  <2>4. CASE d # c
    <3>1. Held(d) /\ call'[d] = call[d]
      BY <1>1, <2>1, <2>4 DEF Held
    <3>2. account.row # 0 => call[d].ref # account.ref
      BY <2>1, <3>1 DEF Tokens, HeldByOne
    <3>3. ASSUME NEW e \in Calls \ {d}, Held(e)' \/ call'[e].pc = "renew"
          PROVE  call'[e].ref # call'[d].ref
      <4>1. CASE e = c
        BY <1>9, <2>2, <2>4, <3>1, <4>1
      <4>2. CASE e # c
        BY <1>1, <2>1, <3>1, <3>3, <4>2 DEF Tokens, HeldByOne, Held
      <4> QED
        BY <4>1, <4>2
    <3> QED
      BY <3>1, <3>2, <3>3
  <2> QED
    BY <2>3, <2>4
<1>5. RenewsThisRow'
  BY <1>1 DEF Tokens, RenewsThisRow
<1>6. StoredTokenRenews'
  <2>1. SUFFICES ASSUME account.row # 0, HasRefresh, ~lost
                 PROVE  \/ account.ref \in granted'
                        \/ \E d \in PublishCalls :
                              /\ call'[d].pc = "persist"
                              /\ call'[d].row = account.row
                              /\ call'[d].ref \in granted'
    BY DEF StoredTokenRenews, HasRefresh, At
  <2>2. CASE account.ref \in granted
    <3>1. CASE account.ref \in granted'
      BY <3>1
    <3>2. CASE account.ref \notin granted'
      <4>1. /\ host = "tiktok" /\ call[c].pc = "renew" /\ c \in PublishCalls
            /\ call'[c].pc = "persist" /\ call'[c].row = call[c].row
            /\ call'[c].ref = minted + 1 /\ call[c].ref = account.ref
            /\ minted + 1 \in granted'
        BY <2>2, <3>2
      <4>2. call[c].row = account.row
        BY <2>1, <4>1 DEF Tokens, RenewsThisRow
      <4> QED
        BY <4>1, <4>2
    <3> QED
      BY <3>1, <3>2
  <2>3. CASE account.ref \notin granted
    <3>1. PICK d \in PublishCalls : /\ call[d].pc = "persist"
                                    /\ call[d].row = account.row
                                    /\ call[d].ref \in granted
      BY <2>1, <2>3 DEF Tokens, StoredTokenRenews, At
    <3>2. d # c /\ d \in Calls /\ call'[d] = call[d] /\ Held(d)
      BY <1>1, <3>1 DEF Calls, Held
    <3>3. host = "tiktok" /\ call[c].pc = "renew" => call[c].ref # call[d].ref
      BY <3>2 DEF Tokens, HeldByOne
    <3>4. call[d].ref \in granted'
      BY <3>1, <3>3
    <3> QED
      BY <3>1, <3>2, <3>4
  <2> QED
    BY <2>2, <2>3
<1> QED
  BY <1>2, <1>3, <1>4, <1>5, <1>6 DEF Tokens

\* A call stores the token it was given.
LEMMA StoresKept ==
    ASSUME Tokens, NEW c \in Calls, Rest(c), host' = host, Held(c),
           UNCHANGED <<granted, minted, lost>>,
           account'.ref \in 0..minted, call'[c].ref \in 0..minted,
           HasRefresh => account'.ref = call[c].ref,
           call'[c].pc \notin {"renew", "persist", "info", "upsert", "commit"}
    PROVE  Tokens'
<1>1. \A d \in Calls \ {c} : call'[d] = call[d]
  BY DEF Rest
<1>2. Numbered'
  BY <1>1 DEF Tokens, Numbered
<1>3. HeldIsGood'
  BY <1>1 DEF Tokens, HeldIsGood, HasRefresh, Held
<1>4. HeldByOne'
  <2>1. SUFFICES ASSUME host = "tiktok", NEW d \in Calls, Held(d)'
                 PROVE  /\ call'[d].ref # account'.ref
                        /\ \A e \in Calls \ {d} :
                              Held(e)' \/ call'[e].pc = "renew"
                                 => call'[e].ref # call'[d].ref
    BY DEF HeldByOne
  <2>2. d # c /\ call'[d] = call[d] /\ Held(d) /\ account'.ref = call[c].ref
    BY <1>1, <2>1 DEF Held, HasRefresh
  <2>3. call[d].ref # call[c].ref
    BY <2>1, <2>2 DEF Tokens, HeldByOne
  <2>4. \A e \in Calls \ {d} : Held(e)' \/ call'[e].pc = "renew"
                                 => e # c /\ call'[e] = call[e]
    BY <1>1 DEF Held
  <2>5. \A e \in Calls \ {d} : Held(e) \/ call[e].pc = "renew"
                                 => call[e].ref # call[d].ref
    BY <2>1, <2>2 DEF Tokens, HeldByOne
  <2> QED
    BY <2>2, <2>3, <2>4, <2>5 DEF Held
<1>5. RenewsThisRow'
  <2>1. \A d \in Calls \ {c} : host = "tiktok" /\ call[d].pc = "renew"
                                  => call[d].ref # call[c].ref
    BY DEF Tokens, HeldByOne
  <2> QED
    BY <1>1, <2>1 DEF RenewsThisRow, HasRefresh
<1>6. StoredTokenRenews'
  BY DEF Tokens, HeldIsGood, StoredTokenRenews, HasRefresh
<1> QED
  BY <1>2, <1>3, <1>4, <1>5, <1>6 DEF Tokens

-----------------------------------------------------------------------------
(* The steps of the other calls.                                             *)

Routed     == \A u \in PublishCalls : OnRoute(u)
Outcomes   == \A u \in PublishCalls : Outcome(u)
UploadInv  == UploadTypeOK /\ Routed /\ Places

SignInPcs == {"idle", "exchange", "info", "upsert", "commit"}

\* What every step does to the calls and to what they have published.
StepKept == /\ CallsTyped /\ RemoteTyped /\ host' = host
            /\ Routed' /\ Places'
            /\ ~LostReplies /\ Outcomes => Outcomes'

LEMMA PlacesKept ==
    ASSUME Places, NEW c \in Calls, Rest(c), host' = host,
           c \in Listings => /\ call'[c].pc \in {"idle", "renew", "persist"}
                             /\ call'[c].pc # "idle" => host = "youtube",
           c \in SignIns => call'[c].pc \in SignInPcs
    PROVE  Places'
BY DEF Places, Rest, Calls, SignInPcs

LEMMA KeptStep ==
    ASSUME Routed, Places, NEW u \in PublishCalls, Kept(u)
    PROVE  StepKept
<1>1. \A v \in PublishCalls \ {u} :
         call'[v] = call[v] /\ remote'[v] = remote[v]
  BY PcsTyped DEF Kept, Rest, RemoteRest
<1>2. host' = host /\ OnRoute(u)'
  BY DEF Kept
<1>3. Routed'
  BY <1>1, <1>2 DEF Routed, OnRoute
<1>4. ASSUME ~LostReplies, Outcomes
      PROVE  Outcomes'
  <2>1. Outcome(u)'
    BY <1>4 DEF Kept, Outcomes
  <2>2. ASSUME NEW v \in PublishCalls \ {u}
        PROVE  Outcome(v)'
    <3>1. Outcome(v)
      BY <1>4 DEF Outcomes
    <3> QED
      BY <1>1, <1>2, <3>1 DEF Outcome
  <2> QED
    BY <2>1, <2>2 DEF Outcomes
<1>5. u \in Calls /\ u \notin Listings /\ u \notin SignIns
  BY UploadsAssumption DEF Calls
<1>6. Places'
  BY <1>2, <1>5, PlacesKept DEF Kept
<1> QED
  BY <1>2, <1>3, <1>4, <1>6 DEF StepKept, Kept

\* A call that is no upload writes its own state only.
LEMMA OtherKept ==
    ASSUME UploadInv, NEW c \in Listings \cup SignIns, CallsTyped, Rest(c),
           UNCHANGED <<remote, host>>,
           c \in Listings => /\ call'[c].pc \in {"idle", "renew", "persist"}
                             /\ call'[c].pc # "idle" => host = "youtube",
           c \in SignIns => call'[c].pc \in SignInPcs
    PROVE  StepKept
<1>1. \A u \in PublishCalls : call'[u] = call[u]
  BY PcsTyped, UploadsAssumption DEF Rest
<1>2. Routed'
  BY <1>1 DEF UploadInv, Routed, OnRoute
<1>3. Outcomes => Outcomes'
  BY <1>1 DEF Outcomes, Outcome
<1>4. Places'
  BY PlacesKept DEF UploadInv, Calls
<1>5. RemoteTyped
  BY DEF UploadInv, UploadTypeOK, RemoteTyped
<1> QED
  BY <1>2, <1>3, <1>4, <1>5 DEF StepKept

LEMMA CallsStay ==
    ASSUME UploadInv, UNCHANGED <<call, remote, host>>
    PROVE  StepKept
<1>1. CallsTyped /\ RemoteTyped
  BY DEF UploadInv, UploadTypeOK, CallsTyped, RemoteTyped, CallState, Pcs
<1>2. Routed'
  BY DEF UploadInv, Routed, OnRoute
<1>3. Outcomes => Outcomes'
  BY DEF Outcomes, Outcome
<1>4. Places'
  BY DEF UploadInv, Places
<1> QED
  BY <1>1, <1>2, <1>3, <1>4 DEF StepKept

LEMMA RenewsEffect ==
    ASSUME UploadTypeOK, NEW c \in Calls, Renews(c)
    PROVE  /\ CallsTyped /\ Rest(c) /\ UNCHANGED <<remote, host, account, lost>>
           /\ call[c].pc = "renew" /\ call'[c].pc = "persist"
           /\ call'[c].row = call[c].row /\ call'[c].told = call[c].told
           /\ \/ /\ call'[c].ref = call[c].ref /\ UNCHANGED <<granted, minted>>
                 /\ \/ host = "youtube" /\ call[c].ref \in granted
                    \/ host = "instagram"
              \/ /\ host = "tiktok" /\ minted < MaxTokens
                 /\ minted' = minted + 1 /\ call'[c].ref = minted + 1
                 /\ granted' = (granted \ {call[c].ref}) \cup {minted + 1}
<1>1. UNCHANGED <<remote, host, account, lost>> /\ call[c].pc = "renew"
  BY DEF Renews, YouTubeRenews, TikTokRenews, InstagramRenews, At, UploadFrame
<1>2. CASE YouTubeRenews(c) \/ InstagramRenews(c)
  <2>1. Moves(c, "persist") /\ "persist" \in Pcs
    BY <1>2 DEF YouTubeRenews, InstagramRenews, Pcs
  <2> QED
    BY <1>1, <1>2, <2>1, MovesEffect DEF YouTubeRenews, InstagramRenews
<1>3. CASE TikTokRenews(c)
  <2> DEFINE x == [call[c] EXCEPT !.pc = "persist", !.ref = minted + 1]
  <2>1. call[c] \in CallState /\ "persist" \in Pcs
    BY CallTyped DEF Pcs
  <2>2. minted + 1 \in 0..MaxTokens
    BY <1>3, UploadsAssumption DEF TikTokRenews, UploadTypeOK
  <2>3. x \in CallState /\ x.pc = "persist" /\ x.ref = minted + 1
        /\ x.row = call[c].row /\ x.told = call[c].told
    BY <2>1, <2>2 DEF CallState
  <2>4. call' = [call EXCEPT ![c] = x]
    BY <1>3 DEF TikTokRenews
  <2> HIDE DEF x
  <2>5. CallsTyped /\ Rest(c) /\ call'[c] = x
    BY <2>3, <2>4, SetCall
  <2> QED
    BY <1>1, <1>3, <2>3, <2>5 DEF TikTokRenews
<1> QED
  BY <1>2, <1>3 DEF Renews

LEMMA PersistsEffect ==
    ASSUME UploadTypeOK, NEW c \in Calls, Persists(c)
    PROVE  /\ CallsTyped /\ Rest(c)
           /\ UNCHANGED <<remote, host, granted, minted, lost>>
           /\ call[c].pc = "persist"
           /\ \/ /\ call'[c].pc = "idle" /\ call'[c].ref = 0
                 /\ call'[c].told \in {"none", "failed"}
              \/ /\ call'[c].pc = "route" /\ c \in PublishCalls
                 /\ call'[c].told = call[c].told /\ call'[c].ref = call[c].ref
           /\ \/ /\ call[c].row = account.row /\ account'.row = account.row
                 /\ account'.ref = Applied(call[c].ref)
                 /\ account'.age = "fresh"
                 /\ account' \in [row: 0..MaxTokens, ref: 0..MaxTokens,
                                  age: {"fresh", "near", "dead"}]
              \/ call[c].row # account.row /\ account' = account
<1>1. UNCHANGED <<remote, host, granted, minted, lost>> /\ call[c].pc = "persist"
  BY DEF Persists, At, UploadFrame
<1>2. CASE call[c].row = account.row
  <2>1. account' = [account EXCEPT !.ref = Applied(call[c].ref),
                                   !.age = "fresh"]
    BY <1>2 DEF Persists
  <2>2. account \in [row: 0..MaxTokens, ref: 0..MaxTokens,
                     age: {"fresh", "near", "dead"}]
    BY DEF UploadTypeOK
  <2>3. Applied(call[c].ref) \in 0..MaxTokens
    BY <2>2, CallTyped DEF Applied, CallState
  <2>4. /\ account'.row = account.row /\ account'.ref = Applied(call[c].ref)
        /\ account'.age = "fresh"
        /\ account' \in [row: 0..MaxTokens, ref: 0..MaxTokens,
                         age: {"fresh", "near", "dead"}]
    BY <2>1, <2>2, <2>3
  <2>5. CASE c \in PublishCalls
    <3>1. Moves(c, "route") /\ "route" \in Pcs
      BY <1>2, <2>5 DEF Persists, Pcs
    <3> QED
      BY <1>1, <1>2, <2>4, <2>5, <3>1, MovesEffect
  <2>6. CASE c \notin PublishCalls
    <3>1. Ends(c)
      BY <1>2, <2>6 DEF Persists
    <3> QED
      BY <1>1, <1>2, <2>4, <3>1, EndsEffect
  <2> QED
    BY <2>5, <2>6
<1>3. CASE call[c].row # account.row
  <2>1. account' = account /\ GivesUp(c)
    BY <1>3 DEF Persists
  <2> QED
    BY <1>1, <1>3, <2>1, GivesUpEffect
<1> QED
  BY <1>2, <1>3

Renewal(c) == Renews(c) \/ RenewalFails(c) \/ Persists(c) \/ PersistDies(c)

LEMMA RenewalEffect ==
    ASSUME UploadTypeOK, NEW c \in Calls, Renewal(c)
    PROVE  /\ CallsTyped /\ Rest(c) /\ UNCHANGED <<remote, host>>
           /\ call[c].pc \in {"renew", "persist"}
           /\ \/ call'[c].pc = "persist" /\ call'[c].told = call[c].told
              \/ /\ call'[c].pc = "route" /\ c \in PublishCalls
                 /\ call'[c].told = call[c].told
              \/ call'[c].pc = "idle" /\ call'[c].told \in {"none", "failed"}
<1>1. CASE Renews(c)
  BY <1>1, RenewsEffect
<1>2. CASE Persists(c)
  BY <1>2, PersistsEffect
<1>3. CASE RenewalFails(c) \/ PersistDies(c)
  <2>1. /\ call[c].pc \in {"renew", "persist"} /\ GivesUp(c)
        /\ UNCHANGED <<remote, host>>
    BY <1>3 DEF RenewalFails, PersistDies, At, UploadFrame
  <2> QED
    BY <2>1, GivesUpEffect
<1> QED
  BY <1>1, <1>2, <1>3 DEF Renewal

LEMMA RenewalKept ==
    ASSUME UploadInv, NEW c \in PublishCalls \cup Listings, Renewal(c)
    PROVE  StepKept
<1>1. c \in Calls /\ UploadTypeOK
  BY DEF Calls, UploadInv
<1>2. /\ CallsTyped /\ Rest(c) /\ UNCHANGED <<remote, host>>
      /\ call[c].pc \in {"renew", "persist"}
      /\ \/ call'[c].pc = "persist" /\ call'[c].told = call[c].told
         \/ /\ call'[c].pc = "route" /\ c \in PublishCalls
            /\ call'[c].told = call[c].told
         \/ call'[c].pc = "idle" /\ call'[c].told \in {"none", "failed"}
  BY <1>1, RenewalEffect
<1>3. CASE c \in PublishCalls
  <2>1. OnRoute(c)
    BY <1>3 DEF UploadInv, Routed
  <2>2. call[c].told = "none"
    BY <1>2, <2>1 DEF OnRoute
  <2>3. OnRoute(c)'
    BY <1>2, <2>2 DEF OnRoute, UploadPcs
  <2>4. Outcome(c) => remote[c].copies = 0 /\ remote[c].state # "processing"
    BY <1>2 DEF Outcome
  <2>5. RemoteTyped /\ RemoteRest(c)
    BY <1>1, <1>2 DEF RemoteTyped, RemoteRest, UploadTypeOK
  <2>6. Outcome(c) => Outcome(c)'
    BY <1>2, <2>2, <2>4 DEF Outcome
  <2>7. Kept(c)
    BY <1>2, <2>3, <2>5, <2>6 DEF Kept
  <2> QED
    BY <1>3, <2>7, KeptStep DEF UploadInv
<1>4. CASE c \in Listings
  <2>1. c \notin PublishCalls /\ c \notin SignIns
    BY <1>4, UploadsAssumption
  <2>2. host = "youtube"
    BY <1>2, <1>4 DEF UploadInv, Places
  <2> QED
    BY <1>2, <1>4, <2>1, <2>2, OtherKept
<1> QED
  BY <1>3, <1>4

SignInStep(c) == \/ SignIn(c) \/ SignInFails(c) \/ YouTubeGrants(c)
                 \/ TikTokGrants(c) \/ InstagramGrants(c)
                 \/ FacebookGrants(c) \/ Introduces(c)
                 \/ NoChannel(c) \/ LooksUp(c) \/ Connects(c)
                 \/ ConnectsTooLate(c)

Granting(c) == \/ YouTubeGrants(c) \/ TikTokGrants(c)
               \/ InstagramGrants(c) \/ FacebookGrants(c)

LEMMA GrantsEffect ==
    ASSUME UploadTypeOK, NEW c \in Calls, Granting(c)
    PROVE  /\ CallsTyped /\ Rest(c) /\ UNCHANGED <<remote, host, account, lost>>
           /\ call[c].pc = "exchange" /\ call'[c].pc = "info"
           /\ minted < MaxTokens /\ minted' = minted + 1
           /\ call'[c].ref \in {0, minted + 1}
           /\ granted' = granted \/ granted' = granted \cup {minted + 1}
           /\ HasRefresh => /\ call'[c].ref = minted + 1
                            /\ granted' = granted \cup {minted + 1}
<1>1. minted \in 0..MaxTokens /\ minted + 1 # 0
  BY UploadsAssumption DEF UploadTypeOK
<1>2. PICK h \in Hosts, ref \in {0, minted + 1} :
         Grants(c, h, ref) /\ (ref = 0 => h \in {"instagram", "facebook"})
  BY <1>1 DEF Granting, YouTubeGrants, TikTokGrants, InstagramGrants,
         FacebookGrants, Hosts
<1> DEFINE x == [call[c] EXCEPT !.pc = "info", !.ref = ref]
<1>3. ref \in 0..MaxTokens
  BY <1>1, <1>2, UploadsAssumption DEF Grants
<1>4. call[c] \in CallState /\ "info" \in Pcs
  BY CallTyped DEF Pcs
<1>5. x \in CallState /\ x.pc = "info" /\ x.ref = ref
  BY <1>3, <1>4 DEF CallState
<1>6. call' = [call EXCEPT ![c] = x]
  BY <1>2 DEF Grants
<1> HIDE DEF x
<1>7. CallsTyped /\ Rest(c) /\ call'[c] = x
  BY <1>5, <1>6, SetCall
<1> QED
  BY <1>1, <1>2, <1>5, <1>7 DEF Grants, At, UploadFrame, HasRefresh

LEMMA LooksUpEffect ==
    ASSUME UploadTypeOK, NEW c \in Calls, LooksUp(c)
    PROVE  /\ CallsTyped /\ Rest(c)
           /\ call'[c].pc = "commit" /\ call'[c].ref = call[c].ref
<1> DEFINE x == [call[c] EXCEPT !.pc = "commit", !.row = account.row]
<1>1. call[c] \in CallState /\ "commit" \in Pcs /\ account.row \in 0..MaxTokens
  BY CallTyped DEF Pcs, UploadTypeOK
<1>2. x \in CallState /\ x.pc = "commit" /\ x.ref = call[c].ref
  BY <1>1 DEF CallState
<1>3. call' = [call EXCEPT ![c] = x]
  BY DEF LooksUp
<1> HIDE DEF x
<1> QED
  BY <1>2, <1>3, SetCall

LEMMA ConnectsEffect ==
    ASSUME UploadTypeOK, NEW c \in Calls, Connects(c)
    PROVE  /\ CallsTyped /\ Rest(c) /\ call'[c].pc = "idle" /\ call'[c].ref = 0
           /\ account'.ref \in {call[c].ref, Applied(call[c].ref)}
           /\ account' \in [row: 0..MaxTokens, ref: 0..MaxTokens,
                            age: {"fresh", "near", "dead"}]
<1>1. Ends(c)
  BY DEF Connects
<1>2. account \in [row: 0..MaxTokens, ref: 0..MaxTokens,
                   age: {"fresh", "near", "dead"}]
      /\ minted \in 0..MaxTokens
  BY DEF UploadTypeOK
<1>3. call[c].ref \in 0..MaxTokens /\ Applied(call[c].ref) \in 0..MaxTokens
  BY <1>2, CallTyped DEF Applied, CallState
<1> QED
  BY <1>1, <1>2, <1>3, EndsEffect DEF Connects

LEMMA SignInKept ==
    ASSUME UploadInv, NEW c \in SignIns, SignInStep(c)
    PROVE  StepKept
<1>1. c \in Calls /\ UploadTypeOK /\ c \notin Listings
  BY UploadsAssumption DEF Calls, UploadInv
<1>2. UNCHANGED <<remote, host>>
  BY DEF SignInStep, SignIn, SignInFails, YouTubeGrants, TikTokGrants,
         InstagramGrants, FacebookGrants, Grants, Introduces, NoChannel,
         LooksUp, Connects, ConnectsTooLate, UploadFrame
<1>3. {"exchange", "upsert"} \subseteq Pcs
  BY DEF Pcs
<1>4. CallsTyped /\ Rest(c) /\ call'[c].pc \in SignInPcs
  <2>1. CASE SignIn(c)
    BY <1>1, <1>3, <2>1, MovesEffect DEF SignIn, SignInPcs
  <2>2. CASE Introduces(c)
    BY <1>1, <1>3, <2>2, MovesEffect DEF Introduces, SignInPcs
  <2>3. CASE SignInFails(c) \/ NoChannel(c) \/ ConnectsTooLate(c)
    BY <1>1, <2>3, EndsEffect
    DEF SignInFails, NoChannel, ConnectsTooLate, SignInPcs
  <2>4. CASE Granting(c)
    BY <1>1, <2>4, GrantsEffect DEF SignInPcs
  <2>5. CASE LooksUp(c)
    BY <1>1, <2>5, LooksUpEffect DEF SignInPcs
  <2>6. CASE Connects(c)
    BY <1>1, <2>6, ConnectsEffect DEF SignInPcs
  <2> QED
    BY <2>1, <2>2, <2>3, <2>4, <2>5, <2>6 DEF SignInStep, Granting
<1> QED
  BY <1>1, <1>2, <1>4, OtherKept

LEMMA ListPlaylistsKept ==
    ASSUME UploadInv, NEW c \in Listings, ListPlaylists(c)
    PROVE  StepKept
<1>1. c \in Calls /\ UploadTypeOK /\ c \notin SignIns /\ "idle" \in Pcs
  BY UploadsAssumption DEF Calls, UploadInv, Pcs
<1>2. UNCHANGED <<remote, host>> /\ host = "youtube" /\ Reads(c, "idle")
  BY DEF ListPlaylists, UploadFrame
<1>3. CallsTyped /\ Rest(c) /\ call'[c].pc \in {"idle", "renew"}
  BY <1>1, <1>2, ReadsEffect
<1> QED
  BY <1>1, <1>2, <1>3, OtherKept

LEMMA NextKept ==
    ASSUME UploadInv, UploadsNext
    PROVE  StepKept
<1>1. ASSUME NEW u \in PublishCalls, UploadStep(u)
      PROVE  StepKept
  <2>1. Kept(u)
    BY <1>1, UploadStepKept DEF UploadInv, Routed
  <2> QED
    BY <2>1, KeptStep DEF UploadInv
<1>2. ASSUME NEW c \in PublishCalls \cup Listings, Renewal(c)
      PROVE  StepKept
  BY <1>2, RenewalKept
<1>3. ASSUME NEW c \in SignIns, SignInStep(c)
      PROVE  StepKept
  BY <1>3, SignInKept
<1>4. CASE Disconnects \/ TokenAges \/ FileGoes
  BY <1>4, CallsStay DEF Disconnects, TokenAges, FileGoes, UploadFrame
<1> QED
  BY <1>1, <1>2, <1>3, <1>4, ListPlaylistsKept
  DEF UploadsNext, Renewal, SignInStep

-----------------------------------------------------------------------------
(* Types, and the outcome of an upload.                                      *)

AccountTyped == /\ account' \in [row: 0..MaxTokens, ref: 0..MaxTokens,
                                 age: {"fresh", "near", "dead"}]
                /\ granted' \subseteq 1..MaxTokens /\ minted' \in 0..MaxTokens

LEMMA UploadsStayTyped ==
    ASSUME UploadTypeOK, NEW u \in PublishCalls, UploadStep(u)
    PROVE  AccountTyped
<1>1. UNCHANGED <<account, granted, minted>>
  BY DEF UploadStep, StartUpload, TakeRoute, NoRoute, StepDone, StepRepeats,
         StepFails, Publishes, Sends, SendLosesReply, SendFails, Extras,
         TikTokDecides, TikTokPolls, Publishing, AccountStays
<1> QED
  BY <1>1 DEF AccountTyped, UploadTypeOK

LEMMA MintedTyped ==
    ASSUME UploadTypeOK, minted < MaxTokens, minted' = minted + 1,
           granted' \subseteq granted \cup {minted + 1}
    PROVE  minted' \in 0..MaxTokens /\ granted' \subseteq 1..MaxTokens
<1>1. minted + 1 \in 0..MaxTokens /\ minted + 1 \in 1..MaxTokens
  BY UploadsAssumption DEF UploadTypeOK
<1> QED
  BY <1>1 DEF UploadTypeOK

LEMMA RenewalTyped ==
    ASSUME UploadTypeOK, NEW c \in Calls, Renewal(c)
    PROVE  AccountTyped
<1>1. CASE Renews(c)
  <2>1. CASE UNCHANGED <<account, granted, minted>>
    BY <2>1 DEF AccountTyped, UploadTypeOK
  <2>2. CASE ~UNCHANGED <<account, granted, minted>>
    <3>1. /\ minted < MaxTokens /\ minted' = minted + 1 /\ account' = account
          /\ granted' = (granted \ {call[c].ref}) \cup {minted + 1}
      BY <1>1, <2>2, RenewsEffect
    <3>2. granted' \subseteq granted \cup {minted + 1}
      BY <3>1
    <3> QED
      BY <3>1, <3>2, MintedTyped DEF AccountTyped, UploadTypeOK
  <2> QED
    BY <2>1, <2>2
<1>2. CASE Persists(c)
  BY <1>2, PersistsEffect DEF AccountTyped, UploadTypeOK
<1>3. CASE RenewalFails(c) \/ PersistDies(c)
  BY <1>3
  DEF RenewalFails, PersistDies, AccountStays, AccountTyped, UploadTypeOK
<1> QED
  BY <1>1, <1>2, <1>3 DEF Renewal

LEMMA SignInTyped ==
    ASSUME UploadTypeOK, NEW c \in Calls, SignInStep(c)
    PROVE  AccountTyped
<1>1. CASE Granting(c)
  <2>1. /\ minted < MaxTokens /\ minted' = minted + 1 /\ account' = account
        /\ granted' = granted \/ granted' = granted \cup {minted + 1}
    BY <1>1, GrantsEffect
  <2>2. granted' \subseteq granted \cup {minted + 1}
    BY <2>1
  <2> QED
    BY <2>1, <2>2, MintedTyped DEF AccountTyped, UploadTypeOK
<1>2. CASE Connects(c)
  BY <1>2, ConnectsEffect DEF Connects, AccountTyped, UploadTypeOK
<1>3. CASE ~Granting(c) /\ ~Connects(c)
  <2>1. UNCHANGED <<account, granted, minted>>
    BY <1>3 DEF SignInStep, Granting, SignIn, SignInFails, Introduces,
       NoChannel, LooksUp, ConnectsTooLate, AccountStays
  <2> QED
    BY <2>1 DEF AccountTyped, UploadTypeOK
<1> QED
  BY <1>1, <1>2, <1>3

LEMMA RowTyped ==
    ASSUME UploadTypeOK, Disconnects \/ TokenAges
    PROVE  /\ AccountTyped
           /\ UNCHANGED <<host, call, granted, minted, lost>>
           /\ \/ account'.row = account.row /\ account'.ref = account.ref
              \/ account'.row = 0 /\ account'.ref = 0
<1>1. account \in [row: 0..MaxTokens, ref: 0..MaxTokens,
                   age: {"fresh", "near", "dead"}]
  BY DEF UploadTypeOK
<1>2. CASE Disconnects
  BY <1>2, Bounds
  DEF Disconnects, NoAccountRow, AccountTyped, UploadTypeOK, UploadFrame
<1>3. CASE TokenAges
  <2> DEFINE age == IF account.age = "fresh" THEN "near" ELSE "dead"
  <2>1. account' = [account EXCEPT !.age = age] /\ age \in {"near", "dead"}
    BY <1>3 DEF TokenAges
  <2>2. UNCHANGED <<host, call, granted, minted, lost>>
    BY <1>3 DEF TokenAges, UploadFrame
  <2> HIDE DEF age
  <2> QED
    BY <1>1, <2>1, <2>2 DEF AccountTyped, UploadTypeOK
<1> QED
  BY <1>2, <1>3

LEMMA NextTyped ==
    ASSUME UploadInv, UploadsNext
    PROVE  UploadInv'
<1>0. UploadTypeOK /\ PublishCalls \cup Listings \cup SignIns = Calls
  BY DEF UploadInv, Calls
<1>1. StepKept
  BY NextKept
<1>2. AccountTyped
  <2>1. ASSUME NEW c \in PublishCalls \cup Listings, Renewal(c)
        PROVE  AccountTyped
    BY <1>0, <2>1, RenewalTyped
  <2>2. ASSUME NEW c \in SignIns, SignInStep(c)
        PROVE  AccountTyped
    BY <1>0, <2>2, SignInTyped
  <2>3. CASE FileGoes
    BY <1>0, <2>3 DEF FileGoes, AccountStays, AccountTyped, UploadTypeOK
  <2>4. ASSUME NEW c \in Listings, ListPlaylists(c)
        PROVE  AccountTyped
    BY <1>0, <2>4 DEF ListPlaylists, AccountStays, AccountTyped, UploadTypeOK
  <2> QED
    BY <1>0, <2>1, <2>2, <2>3, <2>4, UploadsStayTyped, RowTyped
    DEF UploadsNext, Renewal, SignInStep
<1>3. UploadTypeOK'
  BY <1>0, <1>1, <1>2
  DEF StepKept, CallsTyped, CallState, Pcs, RemoteTyped, AccountTyped,
      UploadTypeOK
<1> QED
  BY <1>1, <1>3 DEF UploadInv, StepKept

LEMMA UploadInit ==
    ASSUME UploadsInit
    PROVE  UploadInv /\ Outcomes
<1>1. call \in [Calls -> CallState] /\ \A c \in Calls : call[c] = NoCall
  BY NoCallTyped DEF UploadsInit
<1>2. /\ remote \in [PublishCalls -> [copies: Nat,
                              state: {"none", "processing", "rejected"}]]
      /\ \A u \in PublishCalls : remote[u].copies = 0 /\ remote[u].state = "none"
  BY DEF UploadsInit, NoRemote
<1>3. UploadTypeOK
  BY <1>1, <1>2, Bounds
  DEF UploadsInit, UploadTypeOK, CallState, Pcs, NoAccountRow
<1>4. Routed
  BY <1>1, NoCallTyped, PcsTyped DEF Routed, OnRoute, UploadPcs
<1>5. Places
  BY <1>1, NoCallTyped DEF Places, Calls
<1>6. Outcomes
  BY <1>1, <1>2, NoCallTyped, PcsTyped DEF Outcomes, Outcome
<1> QED
  BY <1>3, <1>4, <1>5, <1>6 DEF UploadInv

LEMMA UploadStutter ==
    ASSUME UNCHANGED uploadVars
    PROVE  /\ UploadInv => UploadInv'
           /\ Outcomes => Outcomes'
           /\ UploadTypeOK /\ Tokens => Tokens'
<1>1. UploadInv => UploadInv'
  BY DEF uploadVars, UploadInv, UploadTypeOK, Routed, OnRoute, Places
<1>2. Outcomes => Outcomes'
  BY DEF uploadVars, Outcomes, Outcome
<1>3. UploadTypeOK /\ Tokens => Tokens'
  BY RowKept DEF uploadVars
<1> QED
  BY <1>1, <1>2, <1>3

\* The state of the account and of its calls has its types in every state.
THEOREM UploadTypeCorrect == UploadsSpec => []UploadTypeOK
<1>1. UploadInv /\ [UploadsNext]_uploadVars => UploadInv'
  BY NextTyped, UploadStutter
<1>2. UploadInv => UploadTypeOK
  BY DEF UploadInv
<1> QED
  BY <1>1, <1>2, UploadInit, PTL DEF UploadsSpec

\* Provided that no reply of the platform is lost, an upload that reports
\* success has published exactly one copy and one that reports failure has
\* published none, through every retry and the hand-over of the direct upload
\* to the URL (services/social/*.py); TikTok may still publish what it was too
\* slow to confirm.
THEOREM UploadOutcomeCorrect ==
    ASSUME ~LostReplies
    PROVE  UploadsSpec => []UploadOutcomeIsTrue
<1> DEFINE OutcomeInv == UploadInv /\ Outcomes
<1>1. UploadsInit => OutcomeInv
  BY UploadInit
<1>2. OutcomeInv /\ [UploadsNext]_uploadVars => OutcomeInv'
  BY NextTyped, NextKept, UploadStutter DEF StepKept
<1>3. OutcomeInv => UploadOutcomeIsTrue
  BY DEF Outcomes, Outcome, UploadOutcomeIsTrue
<1> HIDE DEF OutcomeInv
<1> QED
  BY <1>1, <1>2, <1>3, PTL DEF UploadsSpec

-----------------------------------------------------------------------------
(* Every step keeps the tokens where they belong.                            *)

\* The requests of an upload have nothing to do with its token.
LEMMA UploadDrops ==
    ASSUME UploadTypeOK, NEW u \in PublishCalls, OnRoute(u), UploadStep(u),
           ~StartUpload(u), ~TikTokDecides(u)
    PROVE  /\ Rest(u) /\ UNCHANGED <<host, account, granted, minted, lost>>
           /\ call[u].pc # "persist"
           /\ call'[u].pc \notin {"renew", "persist", "info", "upsert", "commit"}
           /\ call'[u].ref \in {0, call[u].ref}
<1>0. u \in Calls /\ UploadPcs \subseteq Pcs
  BY PcsTyped
<1>1. UNCHANGED <<host, account, granted, minted, lost>>
      /\ call[u].pc # "persist"
  BY DEF UploadStep, TakeRoute, NoRoute, StepDone, StepRepeats,
         StepFails, Publishes, Sends, SendLosesReply, SendFails, Extras,
         TikTokPolls, Publishing, AccountStays, At, UploadFrame
<1>2. \/ Tells(u, "ok") \/ Tells(u, "failed") \/ Moves(u, "extras")
      \/ MayRepeat(u) /\ call' = [call EXCEPT ![u].tries = @ + 1]
         /\ call[u].pc \in {"container", "bytes", "poll", "send"}
      \/ \E r \in Routes, pc \in {"container", "bytes", "poll", "publish",
                                  "send"} : Begins(u, r, pc)
  <2>1. CASE TakeRoute(u)
    BY <2>1 DEF TakeRoute, UploadShort, UploadTikTok, UploadFacebook,
                PublishReel, PublishImage, Routes
  <2>2. CASE StepDone(u)
    <3>1. call[u].pc \in {"container", "bytes", "poll"}
          /\ call[u].route \in {"direct", "tiktok", "url", "photo"}
      BY <2>2 DEF StepDone, OnRoute
    <3>2. PICK next : next = After(call[u].route, call[u].pc)
      OBVIOUS
    <3>3. next \in {"bytes", "poll", "publish"}
      BY <3>1, <3>2 DEF After
    <3>4. Begins(u, call[u].route, next)
      BY <2>2, <3>2 DEF StepDone
    <3> QED
      BY <3>1, <3>3, <3>4 DEF Routes
  <2>3. CASE StepFails(u) \/ Publishes(u)
    BY <2>3 DEF StepFails, Publishes, Fails, Routes
  <2>4. CASE ~TakeRoute(u) /\ ~StepDone(u) /\ ~StepFails(u) /\ ~Publishes(u)
    BY <2>4 DEF UploadStep, NoRoute, StepRepeats, Sends, SendLosesReply,
                SendFails, Extras, TikTokPolls, At
  <2> QED
    BY <2>1, <2>2, <2>3, <2>4
<1>3. CASE Tells(u, "ok") \/ Tells(u, "failed")
  BY <1>0, <1>1, <1>3, TellsEffect DEF Tells
<1>4. CASE Moves(u, "extras")
  BY <1>0, <1>1, <1>4, MovesEffect DEF Pcs
<1>5. CASE MayRepeat(u) /\ call' = [call EXCEPT ![u].tries = @ + 1]
           /\ call[u].pc \in {"container", "bytes", "poll", "send"}
  BY <1>0, <1>1, <1>5, RepeatEffect
<1>6. ASSUME NEW r \in Routes,
             NEW pc \in {"container", "bytes", "poll", "publish", "send"},
             Begins(u, r, pc)
      PROVE  /\ Rest(u) /\ call'[u].ref = call[u].ref /\ call'[u].pc = pc
  <2>1. pc \in Pcs
    BY DEF Pcs
  <2> QED
    BY <1>0, <1>6, <2>1, BeginsEffect
<1> QED
  BY <1>1, <1>2, <1>3, <1>4, <1>5, <1>6

LEMMA UploadTokens ==
    ASSUME UploadInv, Tokens, NEW u \in PublishCalls, UploadStep(u)
    PROVE  Tokens'
<1>0. u \in Calls /\ UploadTypeOK /\ OnRoute(u) /\ UploadPcs \subseteq Pcs
  BY PcsTyped DEF UploadInv, Routed
<1>1. /\ 0 \in 0..minted /\ call[u].ref \in 0..minted
      /\ account.ref \in 0..minted
  BY <1>0, RefsTyped DEF Tokens, Numbered
<1>2. CASE StartUpload(u)
  <2>0. UNCHANGED <<account, granted, minted, lost, host>>
        /\ call[u].pc = "idle"
    BY <1>2 DEF StartUpload, AccountStays, At
  <2>1. CASE account.row = 0
    <3>1. /\ Rest(u) /\ call'[u].pc = "idle" /\ call'[u].ref = 0
      BY <1>0, <1>2, <2>1, TellsEffect DEF StartUpload, Tells
    <3> QED
      BY <1>0, <1>1, <2>0, <3>1, DropsKept
  <2>2. CASE account.row # 0
    <3>1. Reads(u, "route") /\ "route" \in Pcs
      BY <1>2, <2>2 DEF StartUpload, Pcs
    <3>2. /\ Rest(u) /\ call'[u].pc \in {"renew", "route"}
          /\ call'[u].row = account.row /\ call'[u].ref = account.ref
      BY <1>0, <3>1, ReadsEffect
    <3>3. CASE call'[u].pc = "renew"
      BY <1>0, <2>0, <2>2, <3>2, <3>3, ReadsKept
    <3>4. CASE call'[u].pc = "route"
      BY <1>0, <1>1, <2>0, <3>2, <3>4, DropsKept
    <3> QED
      BY <3>2, <3>3, <3>4
  <2> QED
    BY <2>1, <2>2
<1>3. CASE TikTokDecides(u)
  BY <1>0, <1>3, RowKept
  DEF TikTokDecides, Publishing, AccountStays, UploadFrame
<1>4. CASE ~StartUpload(u) /\ ~TikTokDecides(u)
  BY <1>0, <1>1, <1>4, UploadDrops, DropsKept
<1> QED
  BY <1>2, <1>3, <1>4

LEMMA RenewalTokens ==
    ASSUME UploadInv, Tokens, NEW c \in PublishCalls \cup Listings, Renewal(c)
    PROVE  Tokens'
<1>0. c \in Calls /\ UploadTypeOK
  BY DEF UploadInv, Calls
<1>1. 0 \in 0..minted /\ call[c].ref \in 0..minted /\ account.ref \in 0..minted
  BY <1>0, RefsTyped DEF Tokens, Numbered
<1>2. CASE Renews(c)
  <2>1. /\ Rest(c) /\ UNCHANGED <<host, account, lost>>
        /\ call[c].pc = "renew" /\ call'[c].pc = "persist"
        /\ call'[c].row = call[c].row
        /\ \/ /\ call'[c].ref = call[c].ref /\ UNCHANGED <<granted, minted>>
              /\ \/ host = "youtube" /\ call[c].ref \in granted
                 \/ host = "instagram"
           \/ /\ host = "tiktok"
              /\ minted' = minted + 1 /\ call'[c].ref = minted + 1
              /\ granted' = (granted \ {call[c].ref}) \cup {minted + 1}
    BY <1>0, <1>2, RenewsEffect
  <2>2. CASE UNCHANGED <<granted, minted>> /\ host \in {"youtube", "instagram"}
    <3>1. /\ host # "tiktok" /\ call'[c].ref = call[c].ref
          /\ host = "youtube" => call[c].ref \in granted
      BY <2>1, <2>2
    <3> QED
      BY <1>0, <2>1, <2>2, <3>1, CarriesKept
  <2>3. CASE /\ host = "tiktok"
             /\ minted' = minted + 1 /\ call'[c].ref = minted + 1
             /\ granted' = (granted \ {call[c].ref}) \cup {minted + 1}
    <3>1. c \in PublishCalls
      BY <2>1, <2>3 DEF UploadInv, Places
    <3> QED
      BY <1>0, <2>1, <2>3, <3>1, MintsKept
  <2> QED
    BY <2>1, <2>2, <2>3
<1>3. CASE Persists(c)
  <2>1. /\ Rest(c) /\ UNCHANGED <<host, granted, minted, lost>>
        /\ call[c].pc = "persist" /\ call'[c].pc \in {"idle", "route"}
        /\ call'[c].ref \in {0, call[c].ref}
        /\ \/ /\ call[c].row = account.row
              /\ account'.ref = Applied(call[c].ref)
           \/ call[c].row # account.row /\ account' = account
    BY <1>0, <1>3, PersistsEffect
  <2>2. CASE call[c].row # account.row
    BY <1>0, <1>1, <2>1, <2>2, DropsKept
  <2>3. CASE call[c].row = account.row
    <3>1. Held(c)
      BY <2>1 DEF Held
    <3>2. HasRefresh => call[c].ref \in granted
      BY <1>0, <3>1 DEF Tokens, HeldIsGood
    <3>3. HasRefresh => call[c].ref # 0
      BY <3>2, <1>0 DEF UploadTypeOK
    <3>4. /\ account'.ref \in 0..minted
          /\ HasRefresh => account'.ref = call[c].ref
      BY <1>1, <2>1, <2>3, <3>3 DEF Applied
    <3> QED
      BY <1>0, <1>1, <2>1, <3>1, <3>4, StoresKept
  <2> QED
    BY <2>2, <2>3
<1>4. CASE RenewalFails(c) \/ PersistDies(c)
  <2>1. /\ GivesUp(c) /\ UNCHANGED <<host, account, granted, minted>>
        /\ lost' \/ ~lost
        /\ call[c].pc # "persist" \/ lost'
    BY <1>4 DEF RenewalFails, PersistDies, AccountStays, UploadFrame, At
  <2>2. Rest(c) /\ call'[c].pc = "idle" /\ call'[c].ref = 0
    BY <1>0, <2>1, GivesUpEffect
  <2> QED
    BY <1>0, <1>1, <2>1, <2>2, DropsKept
<1> QED
  BY <1>2, <1>3, <1>4 DEF Renewal

LEMMA SignInTokens ==
    ASSUME UploadInv, Tokens, NEW c \in SignIns, SignInStep(c)
    PROVE  Tokens'
<1>0. c \in Calls /\ UploadTypeOK
      /\ {"exchange", "upsert", "commit"} \subseteq Pcs
  BY DEF UploadInv, Calls, Pcs
<1>1. 0 \in 0..minted /\ call[c].ref \in 0..minted /\ account.ref \in 0..minted
  BY <1>0, RefsTyped DEF Tokens, Numbered
<1>2. CASE Granting(c)
  BY <1>0, <1>2, GrantsEffect, MintsKept DEF Granting, Grants,
     YouTubeGrants, TikTokGrants, InstagramGrants, FacebookGrants, UploadFrame
<1>3. CASE SignIn(c)
  <2>1. /\ Rest(c) /\ call'[c].pc = "exchange" /\ call'[c].ref = call[c].ref
        /\ UNCHANGED <<host, account, granted, minted, lost>>
        /\ call[c].pc = "idle"
    BY <1>0, <1>3, MovesEffect DEF SignIn, AccountStays, UploadFrame, At
  <2> QED
    BY <1>0, <1>1, <2>1, DropsKept
<1>4. CASE SignInFails(c) \/ NoChannel(c) \/ ConnectsTooLate(c)
  <2>1. /\ Rest(c) /\ call'[c].pc = "idle" /\ call'[c].ref = 0
        /\ UNCHANGED <<host, account, granted, minted, lost>>
        /\ call[c].pc # "persist"
    BY <1>0, <1>4, EndsEffect
    DEF SignInFails, NoChannel, ConnectsTooLate, AccountStays, UploadFrame, At
  <2> QED
    BY <1>0, <1>1, <2>1, DropsKept
<1>5. CASE Introduces(c) \/ LooksUp(c)
  <2>1. /\ Rest(c) /\ call'[c].pc \in {"upsert", "commit"}
        /\ call'[c].ref = call[c].ref
    BY <1>0, <1>5, MovesEffect, LooksUpEffect DEF Introduces
  <2>2. UNCHANGED <<host, account, granted, minted, lost>>
        /\ Held(c) /\ call[c].pc # "persist"
    BY <1>5 DEF Introduces, LooksUp, AccountStays, UploadFrame, At, Held
  <2>3. host = "youtube" => call[c].ref \in granted
    BY <1>0, <2>2 DEF Tokens, HeldIsGood, HasRefresh
  <2> QED
    BY <1>0, <2>1, <2>2, <2>3, CarriesKept
<1>6. CASE Connects(c)
  <2>1. /\ Rest(c) /\ call'[c].pc = "idle" /\ call'[c].ref = 0
        /\ account'.ref \in {call[c].ref, Applied(call[c].ref)}
    BY <1>0, <1>6, ConnectsEffect
  <2>2. UNCHANGED <<host, granted, minted, lost>> /\ Held(c)
    BY <1>6 DEF Connects, UploadFrame, At, Held
  <2>3. HasRefresh => call[c].ref # 0
    BY <1>0, <2>2 DEF Tokens, HeldIsGood, UploadTypeOK
  <2>4. /\ account'.ref \in 0..minted
        /\ HasRefresh => account'.ref = call[c].ref
    BY <1>1, <2>1, <2>3 DEF Applied
  <2> QED
    BY <1>0, <1>1, <2>1, <2>2, <2>4, StoresKept
<1> QED
  BY <1>2, <1>3, <1>4, <1>5, <1>6 DEF SignInStep, Granting

LEMMA NextTokens ==
    ASSUME UploadInv, Tokens, UploadsNext
    PROVE  Tokens'
<1>0. UploadTypeOK
  BY DEF UploadInv
<1>1. ASSUME NEW c \in PublishCalls \cup Listings, Renewal(c)
      PROVE  Tokens'
  BY <1>1, RenewalTokens
<1>2. ASSUME NEW c \in SignIns, SignInStep(c)
      PROVE  Tokens'
  BY <1>2, SignInTokens
<1>3. ASSUME NEW c \in Listings, ListPlaylists(c)
      PROVE  Tokens'
  <2>1. /\ UNCHANGED <<host, account, granted, minted, lost>>
        /\ call[c].pc = "idle" /\ account.row # 0 /\ Expired
        /\ Reads(c, "idle") /\ "idle" \in Pcs /\ c \in Calls
    BY <1>3 DEF ListPlaylists, AccountStays, UploadFrame, At, Pcs, Calls
  <2>2. /\ Rest(c) /\ call'[c].pc = "renew"
        /\ call'[c].row = account.row /\ call'[c].ref = account.ref
    BY <1>0, <2>1, ReadsEffect
  <2> QED
    BY <1>0, <2>1, <2>2, ReadsKept
<1>4. CASE FileGoes
  BY <1>0, <1>4, RowKept DEF FileGoes, AccountStays, UploadFrame
<1>5. CASE Disconnects \/ TokenAges
  BY <1>0, <1>5, RowTyped, RowKept
<1> QED
  BY <1>1, <1>2, <1>3, <1>4, <1>5, UploadTokens
  DEF UploadsNext, Renewal, SignInStep

\* The refresh token in the database is one the platform accepts, or an upload
\* is about to store its successor, whichever uploads, playlist requests and
\* sign-ins renew and replace it at the same time
\* (services/social/connections.py), as long as no process has died between
\* the renewal and the commit.
THEOREM StoredTokenRenewsCorrect == UploadsSpec => []StoredTokenRenews
<1> DEFINE TokenInv == UploadInv /\ Tokens
<1>1. UploadsInit => TokenInv
  <2>1. SUFFICES ASSUME UploadsInit PROVE Tokens
    BY UploadInit
  <2>2. \A c \in Calls : call[c].pc = "idle" /\ call[c].ref = 0
    BY <2>1, NoCallTyped DEF UploadsInit
  <2>3. granted = {} /\ minted = 0 /\ account.row = 0 /\ account.ref = 0
    BY <2>1 DEF UploadsInit, NoAccountRow
  <2> QED
    BY <2>2, <2>3 DEF Tokens, Numbered, HeldIsGood, HeldByOne, Held,
       RenewsThisRow, StoredTokenRenews
<1>2. TokenInv /\ [UploadsNext]_uploadVars => TokenInv'
  BY NextTyped, NextTokens, UploadStutter DEF UploadInv
<1>3. TokenInv => StoredTokenRenews
  BY DEF Tokens
<1> HIDE DEF TokenInv
<1> QED
  BY <1>1, <1>2, <1>3, PTL DEF UploadsSpec
=============================================================================
