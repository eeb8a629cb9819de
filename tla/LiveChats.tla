------------------------------- MODULE LiveChats -------------------------------
(***************************************************************************)
(* A live-chat browser and the requests that share its page: the LinkedIn  *)
(* one of the process, which serves one user at a time                     *)
(* (services/linkedin_live_browser.py, api/v1/linkedin_live.py,            *)
(* linkedin_profile.py), or the one of a WhatsApp session                  *)
(* (services/whatsapp_live_browser.py, api/v1/whatsapp_live.py).  Every    *)
(* lock is an asyncio.Lock: a queue of coroutines, the head holds it.      *)
(***************************************************************************)
EXTENDS Naturals, Sequences

CONSTANTS
    Users, DeviceUser,   \* DeviceUser owns the WhatsApp session
    Asks, MaxAsks,       \* coroutines of the API; calls made
    Threads, Nobody, NoChat, Elsewhere,
    Impatient,     \* users switch chats while a text of theirs waits
    PageFaults     \* the page may not follow a click or a navigation

ASSUME ChatsAssumption == Elsewhere \notin Threads \cup {NoChat}

VARIABLES
    site,          \* "linkedin" or "whatsapp"
    host,          \* the manager: [st, owner, active]; active is its chat
    shown,         \* the chat on the screen
    life, pageQ, sendQ,   \* _lifecycle_lock, _operation_lock, _send_lock
    ask,           \* what each coroutine does
    asked

liveVars == <<site, host, shown, life, pageQ, sendQ, ask, asked>>

NoAsk  == [pc |-> "idle", user |-> Nobody, op |-> "none", chat |-> NoChat,
           mine |-> FALSE]
Idle   == [st |-> "idle", owner |-> Nobody, active |-> NoChat]
LinkedIn == site = "linkedin"

LiveTypeOK ==
    /\ host \in [st: {"idle", "starting", "running", "stopping", "error"},
                 owner: Users \cup {Nobody}, active: Threads \cup {NoChat}]
    /\ shown \in Threads \cup {NoChat, Elsewhere}
    /\ life \in Seq(Asks) /\ pageQ \in Seq(Asks) /\ sendQ \in Seq(Asks)
    /\ ask \in [Asks -> [pc: {"idle", "life", "launch", "closing", "throttle",
                              "page", "visiting", "tick"},
                         user: Users \cup {Nobody},
                         op: {"none", "start", "stop", "scan", "list", "open",
                              "close", "read", "send", "stream"},
                         chat: Threads \cup {NoChat}, mine: BOOLEAN]]

LiveInit ==
    /\ site \in {"linkedin", "whatsapp"} /\ host = Idle /\ shown = NoChat
    /\ life = <<>> /\ pageQ = <<>> /\ sendQ = <<>>
    /\ ask = [r \in Asks |-> NoAsk] /\ asked = 0

Holds(q, r)  == q # <<>> /\ Head(q) = r
Does(r, pc)  == ask[r].pc = pc
Goes(r, pc)  == ask' = [ask EXCEPT ![r].pc = pc]
Answers(r)   == ask' = [ask EXCEPT ![r] = NoAsk]
OwnedBy(u)   == LinkedIn => host.owner = u
LocksStay    == UNCHANGED <<life, pageQ, sendQ>>
LiveFrame    == UNCHANGED <<site, asked>>

Busy(u, ops) == \E r \in Asks : ask[r].user = u /\ ask[r].op \in ops

\* A new call of user u, which goes on at pc.
Asking(r, u, op, c, pc) ==
    /\ Does(r, "idle") /\ asked < MaxAsks
    /\ ~LinkedIn => u = DeviceUser
    /\ asked' = asked + 1 /\ UNCHANGED site
    /\ ask' = [ask EXCEPT ![r] = [pc |-> pc, user |-> u, op |-> op,
                                  chat |-> c, mine |-> FALSE]]

-----------------------------------------------------------------------------
(* Starting and stopping.                                                  *)

AskStart(r, u) ==
    /\ Asking(r, u, "start", NoChat, "life") /\ life' = Append(life, r)
    /\ UNCHANGED <<host, shown, pageQ, sendQ>>

\* A profile scan brings a browser up when none runs.
AskScan(r, u) ==
    /\ LinkedIn /\ host.st # "running"
    /\ Asking(r, u, "scan", NoChat, "life") /\ life' = Append(life, r)
    /\ UNCHANGED <<host, shown, pageQ, sendQ>>

\* What a request does once start has returned: a scan goes on to the page.
Started(r) ==
    /\ life' = Tail(life)
    /\ IF ask[r].op = "scan"
       THEN /\ ask' = [ask EXCEPT ![r].pc = "page", ![r].mine = TRUE]
            /\ pageQ' = Append(pageQ, r)
       ELSE Answers(r) /\ UNCHANGED pageQ
NotStarted(r) == Answers(r) /\ life' = Tail(life) /\ UNCHANGED pageQ

AlreadyRuns(r) ==
    /\ Does(r, "life") /\ Holds(life, r) /\ ask[r].op # "stop"
    /\ host.st = "running"
    /\ IF OwnedBy(ask[r].user) THEN Started(r) ELSE NotStarted(r)
    /\ UNCHANGED <<host, shown, sendQ>> /\ LiveFrame

\* The owner is claimed before the first await.
Claims(r) ==
    /\ Does(r, "life") /\ Holds(life, r) /\ ask[r].op # "stop"
    /\ host.st # "running"
    /\ host' = [host EXCEPT !.st = "starting", !.owner = ask[r].user]
    /\ Goes(r, "launch") /\ UNCHANGED shown /\ LocksStay /\ LiveFrame

Launches(r) ==
    /\ Does(r, "launch")
    /\ host' = [host EXCEPT !.st = "running", !.active = NoChat]
    /\ shown' \in IF LinkedIn THEN Threads \cup {NoChat} ELSE {NoChat}
    /\ Started(r) /\ UNCHANGED sendQ /\ LiveFrame

\* No active account, a profile in use, a browser that does not get there.
BrowserFails(r) ==
    /\ Does(r, "launch")
    /\ host' = [Idle EXCEPT !.st = "error"] /\ shown' = NoChat
    /\ NotStarted(r) /\ UNCHANGED sendQ /\ LiveFrame

AskStop(r, u) ==
    /\ host.owner # Nobody => OwnedBy(u)
    /\ Impatient \/ ~Busy(u, {"send"})
    /\ Asking(r, u, "stop", NoChat, "life") /\ life' = Append(life, r)
    /\ UNCHANGED <<host, shown, pageQ, sendQ>>

\* LinkedIn's manager says so before it waits for the page.
MutStopping == host.st
Stopping == IF LinkedIn THEN "stopping" ELSE host.st

StopBegins(r) ==
    /\ Does(r, "life") /\ Holds(life, r) /\ ask[r].op = "stop"
    /\ host' = [host EXCEPT !.st = Stopping]
    /\ Goes(r, "closing") /\ pageQ' = Append(pageQ, r)
    /\ UNCHANGED <<shown, life, sendQ>> /\ LiveFrame

StopEnds(r) ==
    /\ Does(r, "closing") /\ Holds(pageQ, r)
    /\ host' = Idle /\ shown' = NoChat
    /\ life' = Tail(life) /\ pageQ' = Tail(pageQ)
    /\ Answers(r) /\ UNCHANGED sendQ /\ LiveFrame

-----------------------------------------------------------------------------
(* Calls that use the page: checked, queued, and checked again only for a  *)
(* browser that runs.                                                      *)

EnsureRunning(u) == host.st = "running" /\ OwnedBy(u)

AskPage(r, u, op, c) ==
    /\ EnsureRunning(u)
    /\ Asking(r, u, op, c, "page") /\ pageQ' = Append(pageQ, r)
    /\ UNCHANGED <<host, shown, life, sendQ>>

AskList(r, u)  == AskPage(r, u, "list", NoChat)
AskRead(r, u)  == host.active # NoChat /\ AskPage(r, u, "read", NoChat)
AskClose(r, u) == (Impatient \/ ~Busy(u, {"send"}))
                  /\ AskPage(r, u, "close", NoChat)
AskOpen(r, u)  == (Impatient \/ ~Busy(u, {"send"}))
                  /\ \E c \in Threads : AskPage(r, u, "open", c)
AskVisit(r, u) == LinkedIn /\ AskPage(r, u, "scan", NoChat)

\* A text is for the chat that is open when the request is checked.
\* LinkedIn's waits its turn with the page in hand, WhatsApp's before it.
AskSend(r, u) ==
    /\ EnsureRunning(u) /\ host.active # NoChat
    /\ Impatient \/ ~Busy(u, {"open", "close", "stop"})
    /\ IF LinkedIn
       THEN /\ Asking(r, u, "send", host.active, "page")
            /\ pageQ' = Append(pageQ, r) /\ UNCHANGED sendQ
       ELSE /\ Asking(r, u, "send", host.active, "throttle")
            /\ sendQ' = Append(sendQ, r) /\ UNCHANGED pageQ
    /\ UNCHANGED <<host, shown, life>>

\* The pause since the last text is over.
Throttled(r) ==
    /\ Does(r, "throttle") /\ Holds(sendQ, r)
    /\ Goes(r, "page") /\ pageQ' = Append(pageQ, r)
    /\ UNCHANGED <<host, shown, life, sendQ>> /\ LiveFrame

\* The head of the queue, in a browser that runs, is done with op.
Using(r, op) ==
    Does(r, "page") /\ Holds(pageQ, r) /\ ask[r].op = op /\ host.st = "running"
Leaves(r) ==
    /\ pageQ' = Tail(pageQ)
    /\ sendQ' = IF Holds(sendQ, r) THEN Tail(sendQ) ELSE sendQ
    /\ IF ask[r].op = "stream" THEN Goes(r, "tick") ELSE Answers(r)
    /\ UNCHANGED life /\ LiveFrame

\* A profile that was not left is replaced by the inbox, which may open a
\* thread of its own.
Listed == IF shown = Elsewhere THEN Threads \cup {NoChat} ELSE {shown}

ListChats(r) ==
    /\ Using(r, "list")
    /\ shown' \in Listed
    /\ UNCHANGED host /\ Leaves(r)

OpenChat(r) ==
    /\ Using(r, "open")
    /\ host' = [host EXCEPT !.active = ask[r].chat]
    /\ shown' = ask[r].chat /\ Leaves(r)

RowGone(r) ==
    /\ Using(r, "open")
    /\ UNCHANGED <<host, shown>> /\ Leaves(r)

\* The click fails; or it works and what should follow is late.
OpenFails(r) ==
    /\ Using(r, "open")
    /\ shown' \in {shown} \cup (IF PageFaults THEN {ask[r].chat} ELSE {})
    /\ UNCHANGED host /\ Leaves(r)

CloseChat(r) ==
    /\ Using(r, "close")
    /\ host' = [host EXCEPT !.active = NoChat]
    /\ UNCHANGED shown /\ Leaves(r)

ReadMessages(r) ==
    /\ Using(r, "read")
    /\ UNCHANGED <<host, shown>> /\ Leaves(r)

ReadForStream(r) ==
    /\ Using(r, "stream")
    /\ UNCHANGED <<host, shown>> /\ Leaves(r)

\* The text is typed into the chat on the screen.
SendMessage(r) ==
    /\ Using(r, "send") /\ host.active # NoChat /\ shown \in Threads
    /\ UNCHANGED <<host, shown>> /\ Leaves(r)

\* No chat is open, or no composer is visible.
SendFails(r) ==
    /\ Using(r, "send")
    /\ UNCHANGED <<host, shown>> /\ Leaves(r)

\* _require_page: the browser has gone meanwhile.
NoPage(r) ==
    /\ Does(r, "page") /\ Holds(pageQ, r) /\ host.st # "running"
    /\ UNCHANGED <<host, shown>>
    /\ IF ask[r].mine
       THEN /\ ask' = [ask EXCEPT ![r] = [NoAsk EXCEPT !.pc = "life",
                                    !.user = ask[r].user, !.op = "stop"]]
            /\ pageQ' = Tail(pageQ) /\ life' = Append(life, r)
            /\ UNCHANGED sendQ /\ LiveFrame
       ELSE Leaves(r)

\* A profile scan leaves the thread and comes back to it by its URL, then
\* stops the browser it has started.
VisitProfile(r) ==
    /\ Using(r, "scan") /\ Goes(r, "visiting")
    /\ ask[r].chat = NoChat
    /\ UNCHANGED <<host, shown>> /\ LocksStay /\ LiveFrame

MutRestored == Threads \cup {NoChat}
Restored == {shown} \cup (IF PageFaults THEN {Elsewhere} ELSE {})

RestorePage(r) ==
    /\ Does(r, "visiting") /\ pageQ' = Tail(pageQ)
    /\ shown' \in Restored
    /\ IF ask[r].mine
       THEN /\ ask' = [ask EXCEPT ![r] = [NoAsk EXCEPT !.pc = "life",
                                    !.user = ask[r].user, !.op = "stop"]]
            /\ life' = Append(life, r)
       ELSE Answers(r) /\ UNCHANGED life
    /\ UNCHANGED <<host, sendQ>> /\ LiveFrame

-----------------------------------------------------------------------------
(* Streams: a snapshot of the open chat, then what is new, every second.   *)
(* The response begins as soon as its request has been checked.            *)

AskStream(r, u) ==
    /\ EnsureRunning(u) /\ host.active # NoChat
    /\ Asking(r, u, "stream", host.active, "page")
    /\ pageQ' = Append(pageQ, r)
    /\ UNCHANGED <<host, shown, life, sendQ>>

\* A tick: the same chat is read again, another one gets a new snapshot.
StreamTicks(r) ==
    /\ Does(r, "tick") /\ EnsureRunning(ask[r].user)
    /\ host.active # NoChat
    /\ ask' = [ask EXCEPT ![r].pc = "page", ![r].chat = host.active]
    /\ pageQ' = Append(pageQ, r)
    /\ UNCHANGED <<host, shown, life, sendQ>> /\ LiveFrame

\* The browser stopped or changed hands, the chat was closed, or the client
\* went away.
StreamEnds(r) ==
    /\ Does(r, "tick") /\ Answers(r)
    /\ UNCHANGED <<host, shown>> /\ LocksStay /\ LiveFrame

-----------------------------------------------------------------------------
LiveNext ==
    \E r \in Asks :
       \/ \E u \in Users :
             \/ AskStart(r, u) \/ AskScan(r, u) \/ AskStop(r, u)
             \/ AskList(r, u) \/ AskRead(r, u) \/ AskClose(r, u)
             \/ AskOpen(r, u) \/ AskVisit(r, u) \/ AskSend(r, u)
             \/ AskStream(r, u)
       \/ AlreadyRuns(r) \/ Claims(r) \/ Launches(r) \/ BrowserFails(r)
       \/ StopBegins(r) \/ StopEnds(r)
       \/ Throttled(r) \/ ListChats(r) \/ OpenChat(r) \/ RowGone(r)
       \/ OpenFails(r) \/ CloseChat(r) \/ ReadMessages(r) \/ ReadForStream(r)
       \/ SendMessage(r) \/ SendFails(r)
       \/ NoPage(r) \/ VisitProfile(r) \/ RestorePage(r)
       \/ StreamTicks(r) \/ StreamEnds(r)

LiveSpec == LiveInit /\ [][LiveNext]_liveVars

-----------------------------------------------------------------------------
(* Properties *)

\* The one LinkedIn browser of the process changes hands while calls wait
\* for its page; a call is served only in the browser of the user who made
\* it, so that nobody reads or writes in another one's account.
OwnBrowserOnly ==
    [][\A r \in Asks :
          ask'[r] # ask[r] /\ Using(r, ask[r].op) => OwnedBy(ask[r].user)]_liveVars

\* A text lands in the chat that was open when its user sent it, although
\* lists, streams and profile scans use the same page and the browser may be
\* stopped and started while it waits.
TextStaysInChat ==
    [][\A r \in Asks : SendMessage(r) => shown = ask[r].chat]_liveVars

\* linkedin_live_browser.py: "status/stop requests from another
\* authenticated account cannot observe or cancel this account's in-progress
\* launch".
StopsOwnBrowserOnly ==
    [][\A r \in Asks : StopEnds(r) /\ host.owner # Nobody
                          => OwnedBy(ask[r].user)]_liveVars

\* A stream's event carries the messages of the chat it names.
EventsNameTheirChat ==
    [][\A r \in Asks : ReadForStream(r) /\ host.active # NoChat => shown = ask[r].chat]_liveVars
=============================================================================
