---------------------------- MODULE LinkedInActions ----------------------------
(***************************************************************************)
(* The actions of a campaign session on one lead's pages: visit and like   *)
(* (automation/actions/visit_profile.py), connect (connect.py), message    *)
(* (message.py), and the recovery of a page that stays blank (utils.py).   *)
(* LinkedIn is the environment: it may answer a click late, refuse it,     *)
(* swallow it or drop the submission, and end the session at any time.     *)
(*                                                                         *)
(* A text stands for the messages that end alike: the last 40 characters   *)
(* are what is looked for in the conversation.  A tab is a composer on the *)
(* page, the oldest first.                                                 *)
(***************************************************************************)
EXTENDS Integers, Sequences, FiniteSets

CONSTANTS
    Texts, NoText,
    LostClicks,     \* a click on Message may open nothing
    MaxActions

VARIABLES
    bond,       \* "none", "pending" or "connected", in LinkedIn
    offer,      \* where the profile offers Connect
    thread,     \* messages delivered to the lead, by text
    astray,     \* messages delivered to somebody else
    liked,      \* the newest post carries the account's reaction
    alive,      \* the session is signed in
    tabs,       \* composers: [to, ready], ready once LinkedIn enables Send
    dialog,     \* the invitation dialog
    action,     \* the call under way
    told,       \* what the last call returned
    actions

actionVars == <<bond, offer, thread, astray, liked, alive, tabs, dialog,
                action, told, actions>>

ActionKinds == {"visit", "like", "visit_like", "connect", "message"}
Ends == {"ok", "already", "skipped", "error", "restricted", "retry", "stale",
         "raised"}
IdleAction == [pc |-> "idle", kind |-> "visit", text |-> NoText, seen |-> 0,
               dead |-> FALSE]
NothingTold == [kind |-> "visit", text |-> NoText, dead |-> FALSE,
                end |-> "error"]

ActionTypeOK ==
    /\ bond \in {"none", "pending", "connected"}
    /\ offer \in {"card", "menu", "follow", "following", "nowhere"}
    /\ thread \in [Texts -> Nat] /\ astray \in Nat
    /\ liked \in BOOLEAN /\ alive \in BOOLEAN
    /\ tabs \in Seq([to: {"lead", "other", "nobody"}, ready: BOOLEAN])
    /\ dialog \in {"closed", "open", "gated", "refused"}
    /\ action \in [pc: {"idle", "load", "feed", "find", "check", "again",
                        "connect", "submit", "sent",
                        "button", "direct", "type", "send", "confirm", "verify"},
                   kind: ActionKinds, text: Texts \cup {NoText}, seen: Nat,
                   dead: BOOLEAN]
    /\ told \in [kind: ActionKinds, text: Texts \cup {NoText}, dead: BOOLEAN,
                 end: Ends]

ActionsInit ==
    /\ bond \in {"none", "connected"}
    /\ offer \in {"card", "menu", "follow", "nowhere"}
    /\ thread = [t \in Texts |-> 0] /\ astray = 0
    /\ liked = FALSE /\ alive = TRUE
    /\ tabs = <<>> /\ dialog = "closed"
    /\ action = IdleAction /\ told = NothingTold /\ actions = 0

-----------------------------------------------------------------------------
(* Loading a page: what recover_blank_page makes of what it sees, at each  *)
(* look a wall (login, checkpoint), a blank page or the target.            *)

Look == {"wall", "blank", "shown"}
Loads == [first: Look, waited: Look, reload: Look, rewaited: Look,
          feed: {"ok", "stale", "unreachable"}, again: Look, last: Look]

MutRecover(e) ==
    IF e.waited = "shown" \/ e.rewaited = "shown" THEN "ok"
    ELSE IF e.feed = "stale" THEN "stale"
    ELSE IF e.last = "shown" THEN "ok"
    ELSE "retry"
Recover(e) ==
    IF "wall" \in {e.first, e.waited} THEN "stale"
    ELSE IF e.waited = "shown" THEN "ok"
    ELSE IF "wall" \in {e.reload, e.rewaited} THEN "stale"
    ELSE IF e.rewaited = "shown" THEN "ok"
    ELSE IF e.feed # "ok" \/ "wall" \in {e.again, e.last} THEN "stale"
    ELSE IF e.last = "shown" THEN "ok"
    ELSE "retry"

\* A dead session never shows the page, a live one never a wall; a feed that
\* cannot be reached says nothing of either.
Looks(e) == {e.first, e.waited, e.reload, e.rewaited, e.again, e.last}
LiveLoads == {Recover(e) : e \in {d \in Loads : "wall" \notin Looks(d)
                                                /\ d.feed # "stale"}}
DeadLoads == {Recover(e) : e \in {d \in Loads : "shown" \notin Looks(d)
                                                /\ d.feed # "ok"}}
LoadResults == IF alive THEN LiveLoads ELSE DeadLoads

-----------------------------------------------------------------------------
Goes(pc)  == action' = [action EXCEPT !.pc = pc] /\ UNCHANGED told

\* visit_profile_and_like_post copies the error of its two parts and drops
\* their flags.
Flagged(k, end) == IF k = "visit_like" /\ end \in {"retry", "stale"}
                   THEN "error" ELSE end
Returns(end) ==
    /\ told' = [kind |-> action.kind, text |-> action.text,
                dead |-> action.dead, end |-> Flagged(action.kind, end)]
    /\ action' = IdleAction

LinkedInStays == UNCHANGED <<bond, offer, thread, astray, liked>>
PageStays     == UNCHANGED <<tabs, dialog>>
ActionFrame   == UNCHANGED <<alive, actions>>
Reads         == LinkedInStays /\ PageStays /\ ActionFrame

StartAction(k, t) ==
    /\ action.pc = "idle" /\ actions < MaxActions
    /\ k # "message" => t = NoText
    /\ k = "message" => t \in Texts
    /\ actions' = actions + 1
    /\ action' = [pc |-> "load", kind |-> k, seen |-> 0, dead |-> ~alive,
                  text |-> t]
    /\ UNCHANGED <<alive, told>> /\ LinkedInStays /\ PageStays

\* The page is there, and with it a conversation that was left open.
AfterLoad(pc, k) ==
    CASE pc = "feed" \/ k = "like"         -> "find"
      [] pc = "load" /\ k = "visit_like"   -> "feed"
      [] pc = "load" /\ k = "connect"      -> "connect"
      [] pc = "load" /\ k = "message"      -> "button"
LoadPage ==
    /\ action.pc \in {"load", "feed"} /\ "ok" \in LoadResults
    /\ tabs' \in {<<>>, <<[to |-> "other", ready |-> TRUE]>>}
    /\ dialog' = "closed"
    /\ IF action.kind = "visit" THEN Returns("ok")
       ELSE Goes(AfterLoad(action.pc, action.kind))
    /\ LinkedInStays /\ ActionFrame

LoadFails(l) ==
    /\ action.pc \in {"load", "feed", "direct"} /\ l \in LoadResults \ {"ok"}
    /\ Returns(l) /\ Reads

\* Another page than the one asked for, a removed profile, an exception.
ActionRaises ==
    /\ action.pc # "idle"
    /\ Returns("raised") /\ Reads

-----------------------------------------------------------------------------
(* Liking the newest post: a click on the coordinates, then on the element. *)

NothingToLike ==
    /\ action.pc = "find"
    /\ \/ liked /\ Returns("skipped")    \* everything is liked already
       \/ ~liked /\ Returns("skipped")   \* no posts
       \/ ~liked /\ Returns("error")     \* no button
    /\ Reads

ClickLike ==
    /\ action.pc \in {"find", "check"}
    /\ action.pc = "find" => ~liked
    /\ liked' \in IF alive THEN BOOLEAN ELSE {liked}
    /\ Goes(IF action.pc = "find" THEN "check" ELSE "again")
    /\ UNCHANGED <<bond, offer, thread, astray>> /\ PageStays /\ ActionFrame

\* Pressed, or replaced by LinkedIn, which it does once it has registered.
MutLikeShown == {TRUE, FALSE}
LikeShown == {liked, FALSE}
LikeVerified ==
    /\ action.pc \in {"check", "again"} /\ TRUE \in LikeShown
    /\ Returns("ok") /\ Reads

LikeUnverified ==
    /\ action.pc = "again" /\ FALSE \in LikeShown
    /\ Returns("error") /\ Reads

-----------------------------------------------------------------------------
(* The invitation. *)

\* The badge, or the words anywhere in the profile's text.
InvitePending ==
    /\ action.pc = "connect"
    /\ Returns("already") /\ Reads

\* Connect in the card or in the menu; a member who offers only Follow is
\* followed first.
FindConnect ==
    /\ action.pc = "connect" /\ bond = "none"
    /\ \/ offer \in {"card", "menu"} /\ UNCHANGED offer
       \/ offer = "follow" /\ offer' \in {"card", "menu"}
    /\ dialog' \in {"open", "gated", "refused"}
    /\ Goes("submit")
    /\ UNCHANGED <<bond, thread, astray, liked, tabs>> /\ ActionFrame

\* Connected, pending or Following on a button: an earlier follow counts.
ConnectMissing ==
    /\ action.pc = "connect"
    /\ \/ (bond # "none" \/ offer = "following") /\ UNCHANGED offer
          /\ Returns("already")
       \/ bond # "none" /\ UNCHANGED offer /\ Returns("error")
       \/ offer = "nowhere" /\ UNCHANGED offer /\ Returns("error")
       \/ bond = "none" /\ offer = "follow" /\ offer' = "following"
          /\ Returns("error")
    /\ UNCHANGED <<bond, thread, astray, liked>> /\ PageStays /\ ActionFrame

\* The weekly limit, a member who asks for an e-mail address, or no button.
NotSubmitted ==
    /\ action.pc = "submit"
    /\ \/ dialog = "gated" /\ Returns("restricted")
       \/ dialog # "gated" /\ Returns("error")
    /\ Reads

\* With or without its note, the invitation is sent; LinkedIn takes it,
\* refuses it, drops it, or has not noticed the click.
SubmitInvite ==
    /\ action.pc = "submit" /\ dialog = "open"
    /\ \/ alive /\ bond' = "pending" /\ dialog' \in {"open", "closed"}
       \/ bond' = bond /\ dialog' \in {"open", "closed", "refused"}
    /\ Goes("sent")
    /\ UNCHANGED <<offer, thread, astray, liked, tabs>> /\ ActionFrame

\* No rejection, and the profile says so or the dialog has gone.
MutInviteConfirmed == dialog # "refused"
InviteConfirmed == dialog # "refused" /\ (bond = "pending" \/ dialog = "closed")
InviteSent ==
    /\ action.pc = "sent" /\ InviteConfirmed
    /\ Returns("ok") /\ Reads

InviteUnconfirmed ==
    /\ action.pc = "sent" /\ dialog # "closed"
    /\ Returns("error") /\ Reads

-----------------------------------------------------------------------------
(* The message. *)

\* The newest composer on the page that has no recipient picker.
Addressed == {i \in DOMAIN tabs : tabs[i].to # "nobody"}
Box == CHOOSE i \in Addressed : \A j \in Addressed : j <= i

OpenOnProfile ==
    /\ action.pc = "button"
    /\ tabs' = Append(tabs, [to |-> "lead", ready |-> FALSE])
    /\ Goes("type")
    /\ LinkedInStays /\ UNCHANGED dialog /\ ActionFrame

\* The click opened nothing; any composer that is there will do.
OpenLost ==
    /\ action.pc = "button"
    /\ LostClicks \/ Addressed = {}
    /\ Goes(IF Addressed = {} THEN "direct" ELSE "type")
    /\ Reads

\* No Message button: the lead is no connection, or the page is slow.
NoMessageButton ==
    /\ action.pc = "button"
    /\ Goes("direct") /\ Reads

\* The messaging page with the recipient in its address.
OpenDirect ==
    /\ action.pc = "direct" /\ "ok" \in LoadResults
    /\ \E who \in {"lead", "nobody"} :
          /\ tabs' = <<[to |-> who, ready |-> FALSE]>>
          /\ IF who = "lead" THEN Goes("type") ELSE Returns("error")
    /\ LinkedInStays /\ UNCHANGED dialog /\ ActionFrame

\* Typed, read back, and the baseline taken: some bubbles may not be rendered.
TypeDraft ==
    /\ action.pc = "type" /\ Addressed # {}
    /\ \E n \in 0..thread[action.text] :
          action' = [action EXCEPT !.pc = "send", !.seen = n]
    /\ tabs' \in {tabs, [tabs EXCEPT ![Box].ready = TRUE]}
    /\ UNCHANGED <<told, dialog>> /\ LinkedInStays /\ ActionFrame

\* No addressed composer, or nothing of the draft in it.
DraftLost ==
    /\ action.pc = "type"
    /\ Returns("error") /\ Reads

\* The enabled Send of the composer that was typed into.
MutSendButtons == {i \in DOMAIN tabs : tabs[i].ready}
SendButtons == {Box} \cap {i \in DOMAIN tabs : tabs[i].ready}
NoSendButton ==
    /\ action.pc = "send" /\ SendButtons = {}
    /\ Returns("error") /\ Reads

\* The draft is delivered, or refused, dropped or left where it is.
Submit ==
    /\ action.pc = "send"
    /\ \E i \in SendButtons :
          \/ /\ alive /\ tabs[i].to = "lead" /\ UNCHANGED astray
             /\ thread' = [thread EXCEPT ![action.text] = @ + 1]
          \/ /\ alive /\ tabs[i].to # "lead" /\ UNCHANGED thread
             /\ astray' = astray + 1
          \/ UNCHANGED <<thread, astray>>
    /\ Goes("confirm")
    /\ UNCHANGED <<bond, offer, liked>> /\ PageStays /\ ActionFrame

\* More bubbles than before.
BubbleAppears ==
    /\ action.pc = "confirm" /\ thread[action.text] > action.seen
    /\ Returns("ok") /\ Reads

\* A banner, or a draft that stays in the composer.
SendRefused ==
    /\ action.pc = "confirm"
    /\ Returns("error") /\ Reads

\* The composer is empty or gone: the thread is opened and has to show it.
ComposerCleared ==
    /\ action.pc = "confirm"
    /\ tabs' = <<>>
    /\ Goes("verify")
    /\ LinkedInStays /\ UNCHANGED dialog /\ ActionFrame

MutThreadShows == TRUE
ThreadShows == thread[action.text] > 0
VerifyInThread ==
    /\ action.pc = "verify"
    /\ \/ ThreadShows /\ Returns("ok")
       \/ Returns("error")    \* or the events have not been rendered
    /\ Reads

-----------------------------------------------------------------------------
SessionDies ==
    /\ alive
    /\ alive' = FALSE
    /\ UNCHANGED <<action, told, actions>> /\ LinkedInStays /\ PageStays

\* The account is connected again between two calls.
SessionRenewed ==
    /\ ~alive /\ action.pc = "idle"
    /\ alive' = TRUE
    /\ UNCHANGED <<action, told, actions>> /\ LinkedInStays /\ PageStays

LeadAnswers ==
    /\ bond = "pending"
    /\ bond' \in {"connected", "none"}
    /\ UNCHANGED <<offer, thread, astray, liked, told, action>>
    /\ PageStays /\ ActionFrame

ActionStep ==
    \/ LoadPage \/ (\E l \in Ends : LoadFails(l)) \/ ActionRaises
    \/ NothingToLike \/ ClickLike \/ LikeVerified \/ LikeUnverified
    \/ InvitePending \/ FindConnect \/ ConnectMissing \/ NotSubmitted
    \/ SubmitInvite \/ InviteSent \/ InviteUnconfirmed
    \/ OpenOnProfile \/ OpenLost \/ NoMessageButton \/ OpenDirect
    \/ TypeDraft \/ DraftLost \/ NoSendButton \/ Submit \/ BubbleAppears
    \/ SendRefused \/ ComposerCleared \/ VerifyInThread

ActionsNext ==
    \/ \E k \in ActionKinds, t \in Texts \cup {NoText} : StartAction(k, t)
    \/ ActionStep
    \/ SessionDies \/ SessionRenewed \/ LeadAnswers

ActionsSpec == ActionsInit /\ [][ActionsNext]_actionVars

-----------------------------------------------------------------------------
(* Properties *)

\* What the campaign is told to have happened has happened: a message is in
\* the lead's conversation, a reaction on the post, an invitation with
\* LinkedIn or at least out of its dialog - and no message ever reaches
\* anybody but the lead.
ReportedIsDone ==
    [][/\ astray' = astray
       /\ action.pc # "idle" /\ action'.pc = "idle" /\ told'.end = "ok" =>
            CASE told'.kind = "message" -> thread'[told'.text] > 0
              [] told'.kind = "connect" -> bond' # "none" \/ dialog' = "closed"
              [] told'.kind = "visit"   -> TRUE
              [] OTHER                  -> liked']_actionVars

\* An action that begins with a dead session says so, whatever LinkedIn shows
\* instead of the page: the session must be suspended and not the lead
\* failed.  Only visiting and liking in one call drops the flag.
DeadSessionIsReported ==
    told.dead /\ told.end # "raised" /\ told.kind # "visit_like"
       => told.end = "stale"
=============================================================================
