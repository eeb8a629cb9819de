---------------------------- MODULE LiveChatsProofs ----------------------------
(* Theorems about LiveChats, for every number of users, calls and chats: who *)
(* is served in the LinkedIn browser, with impatient users and pages that do *)
(* not follow; and, without these, where a text lands.                       *)
EXTENDS LiveChats, SequenceTheorems, TLAPS

-----------------------------------------------------------------------------
(* Queues: who waits in them, each once.                                    *)

Members(q)  == {q[i] : i \in 1..Len(q)}
Distinct(q) == \A i, j \in 1..Len(q) : q[i] = q[j] => i = j
EndsWith(q, x) == q # <<>> /\ q[Len(q)] = x

LEMMA EmptyQueue ==
    ASSUME NEW S
    PROVE  <<>> \in Seq(S) /\ Members(<<>>) = {} /\ Distinct(<<>>)
BY DEF Members, Distinct

LEMMA EnterQueue ==
    ASSUME NEW S, NEW q \in Seq(S), NEW x \in S
    PROVE  /\ Append(q, x) \in Seq(S)
           /\ Members(Append(q, x)) = Members(q) \cup {x}
           /\ Distinct(q) /\ x \notin Members(q) => Distinct(Append(q, x))
           /\ EndsWith(Append(q, x), x)
           /\ \A y : Holds(q, y) => Holds(Append(q, x), y)
           /\ q = <<>> => Holds(Append(q, x), x)
<1> DEFINE p == Append(q, x)
<1>1. /\ p \in Seq(S) /\ Len(q) \in Nat /\ Len(p) = Len(q) + 1
      /\ \A i \in 1..Len(q) : p[i] = q[i]
      /\ p[Len(q) + 1] = x
  OBVIOUS
<1>2. Members(p) = Members(q) \cup {x}
  BY <1>1 DEF Members
<1>3. Distinct(q) /\ x \notin Members(q) => Distinct(p)
  BY <1>1 DEF Distinct, Members
<1>4. EndsWith(p, x)
  BY <1>1 DEF EndsWith
<1>5. \A y : Holds(q, y) => Holds(p, y)
  BY <1>1 DEF Holds
<1>6. q = <<>> => Holds(p, x)
  BY <1>1 DEF Holds
<1> QED
  BY <1>1, <1>2, <1>3, <1>4, <1>5, <1>6

LEMMA LeaveQueue ==
    ASSUME NEW S, NEW q \in Seq(S), NEW x, Holds(q, x), Distinct(q)
    PROVE  /\ Tail(q) \in Seq(S)
           /\ x \in Members(q) /\ x \in S
           /\ Members(Tail(q)) = Members(q) \ {x}
           /\ Distinct(Tail(q))
           /\ \A y : EndsWith(q, y) /\ y # x => EndsWith(Tail(q), y)
           /\ EndsWith(q, x) => Tail(q) = <<>>
<1>1. /\ Len(q) \in Nat \ {0} /\ q[1] = x /\ x \in S
      /\ Tail(q) \in Seq(S) /\ Len(Tail(q)) = Len(q) - 1
      /\ \A i \in 1..(Len(q) - 1) : Tail(q)[i] = q[i + 1]
  BY DEF Holds
<1>2. x \in Members(q)
  BY <1>1 DEF Members
<1>3. Members(Tail(q)) = Members(q) \ {x}
  <2>1. ASSUME NEW y \in Members(Tail(q))  PROVE y \in Members(q) \ {x}
    <3>1. PICK i \in 1..(Len(q) - 1) : y = q[i + 1]
      BY <1>1, <2>1 DEF Members
    <3> QED
      BY <1>1, <3>1 DEF Members, Distinct
  <2>2. ASSUME NEW y \in Members(q) \ {x}  PROVE y \in Members(Tail(q))
    <3>1. PICK i \in 1..Len(q) : y = q[i]
      BY <2>2 DEF Members
    <3>2. i - 1 \in 1..(Len(q) - 1) /\ Tail(q)[i - 1] = y
      BY <1>1, <2>2, <3>1
    <3> QED
      BY <1>1, <3>2 DEF Members
  <2> QED
    BY <2>1, <2>2
<1>4. Distinct(Tail(q))
  BY <1>1 DEF Distinct
<1>5. \A y : EndsWith(q, y) /\ y # x => EndsWith(Tail(q), y)
  <2> SUFFICES ASSUME NEW y, EndsWith(q, y), y # x  PROVE EndsWith(Tail(q), y)
    OBVIOUS
  <2>1. q[Len(q)] = y /\ Len(q) # 1
    BY <1>1 DEF EndsWith
  <2>2. Len(Tail(q)) # 0 /\ Tail(q)[Len(Tail(q))] = y
    BY <1>1, <2>1
  <2>3. Tail(q) # <<>>
    BY <2>2, EmptySeq
  <2> QED
    BY <2>2, <2>3 DEF EndsWith
<1>6. EndsWith(q, x) => Tail(q) = <<>>
  <2> SUFFICES ASSUME EndsWith(q, x)  PROVE Tail(q) = <<>>
    OBVIOUS
  <2>1. Len(q) = 1
    BY <1>1 DEF EndsWith, Distinct
  <2>2. Len(Tail(q)) = 0
    BY <1>1, <2>1
  <2> QED
    BY <1>1, <2>2, EmptySeq
<1> QED
  BY <1>1, <1>2, <1>3, <1>4, <1>5, <1>6

-----------------------------------------------------------------------------
(* The LinkedIn browser, its owner and who waits for it.                    *)

Pc == {"idle", "life", "launch", "closing", "page", "visiting", "tick"}
AskRecord == [pc: Pc, user: Users \cup {Nobody},
              op: {"none", "start", "stop", "scan", "list", "open", "close",
                   "read", "send", "stream"},
              chat: Threads \cup {NoChat}, mine: BOOLEAN]
HostRecord == [st: {"idle", "starting", "running", "stopping", "error"},
               owner: Users \cup {Nobody}, active: Threads \cup {NoChat}]

QueueTypes ==
    /\ ask \in [Asks -> AskRecord] /\ host \in HostRecord
    /\ life \in Seq(Asks) /\ pageQ \in Seq(Asks)

\* Each coroutine waits once; only the holder of the life-cycle lock starts
\* or stops the browser, only the holder of the page leaves it for a profile.
Waiting ==
    /\ Distinct(pageQ) /\ Distinct(life)
    /\ \A r \in Members(pageQ) : ask[r].pc \in {"page", "visiting", "closing"}
    /\ \A r \in Members(life) : ask[r].pc \in {"life", "launch", "closing"}
    /\ \A r \in Asks : ask[r].pc \in {"launch", "closing"} => Holds(life, r)
    /\ \A r \in Asks : ask[r].pc = "visiting" => Holds(pageQ, r)

\* Who launches owns what comes; who stops is the last to get the page.
Changing ==
    \A r \in Asks :
       /\ ask[r].pc = "launch" => host.st = "starting" /\ host.owner = ask[r].user
       /\ ask[r].pc = "closing" => host.st = "stopping" /\ EndsWith(pageQ, r)

\* Nobody waits for the page of a browser that does not run yet, and only its
\* owner's calls for the one that runs.
Serving ==
    /\ host.st = "stopping" => \E r \in Asks : ask[r].pc = "closing"
    /\ host.st \in {"idle", "error", "starting"} => pageQ = <<>>
    /\ host.st = "running" =>
          \A r \in Members(pageQ) : ask[r].user = host.owner

QueueInv == QueueTypes /\ Waiting /\ Changing /\ Serving

-----------------------------------------------------------------------------
(* What one coroutine does to the queues.                                   *)

LEMMA Writes ==
    ASSUME QueueInv, NEW r \in Asks, NEW x \in AskRecord,
           ask' = [ask EXCEPT ![r] = x]
    PROVE  /\ ask' \in [Asks -> AskRecord] /\ ask'[r] = x
           /\ \A q \in Asks \ {r} : ask'[q] = ask[q]
BY DEF QueueInv, QueueTypes

LEMMA MembersAsk ==
    ASSUME QueueInv
    PROVE  Members(pageQ) \subseteq Asks /\ Members(life) \subseteq Asks
BY DEF QueueInv, QueueTypes, Members

\* It begins to wait for the life-cycle lock.
LEMMA EntersLife ==
    ASSUME QueueInv, NEW r \in Asks, NEW x \in AskRecord, ask[r].pc = "idle",
           x.pc = "life", ask' = [ask EXCEPT ![r] = x],
           life' = Append(life, r), UNCHANGED <<host, pageQ>>
    PROVE  QueueInv'
<1>1. /\ ask' \in [Asks -> AskRecord] /\ ask'[r] = x
      /\ \A q \in Asks \ {r} : ask'[q] = ask[q]
  BY Writes
<1>2. r \notin Members(life) /\ r \notin Members(pageQ)
  BY DEF QueueInv, Waiting
<1>3. /\ life' \in Seq(Asks) /\ Members(life') = Members(life) \cup {r}
      /\ Distinct(life') /\ \A q : Holds(life, q) => Holds(life', q)
  BY <1>2, EnterQueue DEF QueueInv, QueueTypes, Waiting
<1>4. QueueTypes'
  BY <1>1, <1>3 DEF QueueInv, QueueTypes
<1>5. Waiting'
  BY <1>1, <1>2, <1>3, MembersAsk DEF QueueInv, Waiting
<1>6. Changing'
  BY <1>1 DEF QueueInv, Changing
<1>7. Serving'
  BY <1>1, <1>2, MembersAsk DEF QueueInv, Serving
<1> QED
  BY <1>4, <1>5, <1>6, <1>7 DEF QueueInv

\* The owner's call begins to wait for the page of a browser that runs.
LEMMA EntersPage ==
    ASSUME QueueInv, NEW r \in Asks, NEW x \in AskRecord,
           ask[r].pc \in {"idle", "tick"}, x.pc = "page", x.user = host.owner,
           host.st = "running", ask' = [ask EXCEPT ![r] = x],
           pageQ' = Append(pageQ, r), UNCHANGED <<host, life>>
    PROVE  QueueInv'
<1>1. /\ ask' \in [Asks -> AskRecord] /\ ask'[r] = x
      /\ \A q \in Asks \ {r} : ask'[q] = ask[q]
  BY Writes
<1>2. r \notin Members(life) /\ r \notin Members(pageQ)
  BY DEF QueueInv, Waiting
<1>3. /\ pageQ' \in Seq(Asks) /\ Members(pageQ') = Members(pageQ) \cup {r}
      /\ Distinct(pageQ') /\ \A q : Holds(pageQ, q) => Holds(pageQ', q)
  BY <1>2, EnterQueue DEF QueueInv, QueueTypes, Waiting
<1>4. QueueTypes'
  BY <1>1, <1>3 DEF QueueInv, QueueTypes
<1>5. Waiting'
  BY <1>1, <1>2, <1>3, MembersAsk DEF QueueInv, Waiting
<1>6. Changing'
  BY <1>1 DEF QueueInv, Changing
<1>7. Serving'
  BY <1>1, <1>2, <1>3, MembersAsk DEF QueueInv, Serving
<1> QED
  BY <1>4, <1>5, <1>6, <1>7 DEF QueueInv

\* The holder of the page leaves it, perhaps to stop the browser.
LEMMA LeavesPage ==
    ASSUME QueueInv, NEW r \in Asks, NEW x \in AskRecord,
           ask[r].pc \in {"page", "visiting"}, Holds(pageQ, r),
           ask' = [ask EXCEPT ![r] = x], pageQ' = Tail(pageQ),
           host' \in HostRecord, host'.st = host.st, host'.owner = host.owner,
           \/ x.pc \in {"idle", "tick"} /\ UNCHANGED life
           \/ x.pc = "life" /\ life' = Append(life, r)
    PROVE  QueueInv'
<1>1. /\ ask' \in [Asks -> AskRecord] /\ ask'[r] = x
      /\ \A q \in Asks \ {r} : ask'[q] = ask[q]
  BY Writes
<1>2. r \notin Members(life)
  BY DEF QueueInv, Waiting
<1>3. /\ pageQ' \in Seq(Asks) /\ Members(pageQ') = Members(pageQ) \ {r}
      /\ Distinct(pageQ')
      /\ \A q : EndsWith(pageQ, q) /\ q # r => EndsWith(pageQ', q)
      /\ pageQ # <<>>
  BY LeaveQueue DEF QueueInv, QueueTypes, Waiting, Holds
<1>4. /\ life' \in Seq(Asks) /\ Distinct(life')
      /\ \A q : Holds(life, q) => Holds(life', q)
      /\ Members(life') = IF x.pc = "life" THEN Members(life) \cup {r}
                                           ELSE Members(life)
  <2>1. CASE x.pc \in {"idle", "tick"} /\ UNCHANGED life
    BY <2>1 DEF QueueInv, QueueTypes, Waiting
  <2>2. CASE x.pc = "life" /\ life' = Append(life, r)
    BY <1>2, <2>2, EnterQueue DEF QueueInv, QueueTypes, Waiting
  <2> QED
    BY <2>1, <2>2
<1>5. QueueTypes'
  BY <1>1, <1>3, <1>4 DEF QueueInv, QueueTypes
<1>6. Waiting'
  <2>1. \A q \in Asks : ask'[q].pc # "visiting"
    BY <1>1 DEF QueueInv, Waiting, Holds
  <2> QED
    BY <1>1, <1>2, <1>3, <1>4, <2>1, MembersAsk DEF QueueInv, Waiting
<1>7. Changing'
  BY <1>1, <1>3 DEF QueueInv, Changing
<1>8. Serving'
  <2>1. host.st = "stopping" => \E q \in Asks : ask'[q].pc = "closing"
    BY <1>1 DEF QueueInv, Serving
  <2>2. host.st \notin {"idle", "error", "starting"}
    BY <1>3 DEF QueueInv, Serving
  <2> QED
    BY <1>1, <1>3, <2>1, <2>2, MembersAsk DEF QueueInv, Serving
<1> QED
  BY <1>5, <1>6, <1>7, <1>8 DEF QueueInv

\* It goes on where it is, between two pauses or from the page to a profile.
LEMMA GoesOn ==
    ASSUME QueueInv, NEW r \in Asks, NEW x \in AskRecord,
           x.user = ask[r].user \/ ask[r].pc = "tick",
           \/ ask[r].pc = "tick" /\ x.pc = "idle"
           \/ ask[r].pc = "page" /\ Holds(pageQ, r) /\ x.pc = "visiting",
           ask' = [ask EXCEPT ![r] = x], UNCHANGED <<host, life, pageQ>>
    PROVE  QueueInv'
<1>1. /\ ask' \in [Asks -> AskRecord] /\ ask'[r] = x
      /\ \A q \in Asks \ {r} : ask'[q] = ask[q]
  BY Writes
<1>2. r \notin Members(life) /\ (ask[r].pc = "tick" => r \notin Members(pageQ))
  BY DEF QueueInv, Waiting
<1>3. QueueTypes'
  BY <1>1 DEF QueueInv, QueueTypes
<1>4. Waiting'
  BY <1>1, <1>2, MembersAsk DEF QueueInv, Waiting
<1>5. Changing'
  BY <1>1 DEF QueueInv, Changing
<1>6. Serving'
  BY <1>1, <1>2, MembersAsk DEF QueueInv, Serving
<1> QED
  BY <1>3, <1>4, <1>5, <1>6 DEF QueueInv

\* Starting has ended at once: the browser runs already.
LEMMA LeavesLife ==
    ASSUME QueueInv, NEW r \in Asks, NEW x \in AskRecord,
           ask[r].pc = "life", Holds(life, r), host.st = "running",
           ask' = [ask EXCEPT ![r] = x], life' = Tail(life), UNCHANGED host,
           \/ x.pc = "idle" /\ UNCHANGED pageQ
           \/ x.pc = "page" /\ x.user = host.owner /\ pageQ' = Append(pageQ, r)
    PROVE  QueueInv'
<1>1. /\ ask' \in [Asks -> AskRecord] /\ ask'[r] = x
      /\ \A q \in Asks \ {r} : ask'[q] = ask[q]
  BY Writes
<1>2. r \notin Members(pageQ)
  BY DEF QueueInv, Waiting
<1>3. /\ life' \in Seq(Asks) /\ Distinct(life')
      /\ Members(life') = Members(life) \ {r}
  BY LeaveQueue DEF QueueInv, QueueTypes, Waiting
<1>4. /\ pageQ' \in Seq(Asks) /\ Distinct(pageQ')
      /\ \A q : Holds(pageQ, q) => Holds(pageQ', q)
      /\ Members(pageQ') = IF x.pc = "page" THEN Members(pageQ) \cup {r}
                                            ELSE Members(pageQ)
  <2>1. CASE x.pc = "idle" /\ UNCHANGED pageQ
    BY <2>1 DEF QueueInv, QueueTypes, Waiting
  <2>2. CASE x.pc = "page" /\ pageQ' = Append(pageQ, r)
    BY <1>2, <2>2, EnterQueue DEF QueueInv, QueueTypes, Waiting
  <2> QED
    BY <2>1, <2>2
<1>5. \A q \in Asks : ask'[q].pc \notin {"launch", "closing"}
  BY <1>1 DEF QueueInv, Waiting, Holds
<1>6. QueueTypes'
  BY <1>1, <1>3, <1>4 DEF QueueInv, QueueTypes
<1>7. Waiting'
  BY <1>1, <1>2, <1>3, <1>4, <1>5, MembersAsk DEF QueueInv, Waiting
<1>8. Changing'
  BY <1>5 DEF Changing
<1>9. Serving'
  BY <1>1, <1>2, <1>4, MembersAsk DEF QueueInv, Serving
<1> QED
  BY <1>6, <1>7, <1>8, <1>9 DEF QueueInv

\* The holder of the life-cycle lock sets out to start or to stop.
LEMMA NobodyChanges ==
    ASSUME QueueInv, NEW r \in Asks, ask[r].pc = "life", Holds(life, r)
    PROVE  /\ \A q \in Asks : ask[q].pc \notin {"launch", "closing"}
           /\ host.st # "stopping"
           /\ r \notin Members(pageQ)
<1>1. \A q \in Asks : ask[q].pc \notin {"launch", "closing"}
  BY DEF QueueInv, Waiting, Holds
<1> QED
  BY <1>1 DEF QueueInv, Waiting, Serving

LEMMA ClaimsKeeps ==
    ASSUME QueueInv, NEW r \in Asks, Claims(r)
    PROVE  QueueInv'
<1> DEFINE x == [ask[r] EXCEPT !.pc = "launch"]
<1>1. x \in AskRecord /\ x.pc = "launch" /\ x.user = ask[r].user
      /\ ask' = [ask EXCEPT ![r] = x]
  BY DEF Claims, Goes, QueueInv, QueueTypes, AskRecord, Pc
<1>2. /\ ask' \in [Asks -> AskRecord] /\ ask'[r] = x
      /\ \A q \in Asks \ {r} : ask'[q] = ask[q]
  BY <1>1, Writes
<1>3. /\ Holds(life, r) /\ UNCHANGED <<life, pageQ>> /\ ask[r].pc = "life"
  BY DEF Claims, LocksStay, Does
<1>4. /\ host' \in HostRecord /\ host'.st = "starting"
      /\ host'.owner = ask[r].user
  BY DEF Claims, QueueInv, QueueTypes, HostRecord, AskRecord
<1>5. /\ \A q \in Asks : ask[q].pc \notin {"launch", "closing"}
      /\ r \notin Members(pageQ) /\ host.st # "stopping"
  BY <1>3, NobodyChanges
<1>6. pageQ = <<>>
  BY <1>5 DEF Claims, QueueInv, QueueTypes, HostRecord, Serving
<1>7. QueueTypes'
  BY <1>2, <1>3, <1>4 DEF QueueInv, QueueTypes
<1>8. Waiting'
  BY <1>1, <1>2, <1>3, <1>5, MembersAsk DEF QueueInv, Waiting
<1>9. Changing'
  BY <1>1, <1>2, <1>4, <1>5 DEF Changing
<1>10. Serving'
  BY <1>3, <1>4, <1>6 DEF Serving
<1> QED
  BY <1>7, <1>8, <1>9, <1>10 DEF QueueInv

\* A launch has ended, well or not.
LEMMA LaunchEnds ==
    ASSUME QueueInv, NEW r \in Asks, NEW x \in AskRecord, ask[r].pc = "launch",
           ask' = [ask EXCEPT ![r] = x], life' = Tail(life),
           host' \in HostRecord,
           \/ /\ x.pc = "idle" /\ UNCHANGED pageQ
              /\ host'.st \in {"running", "error"}
           \/ /\ x.pc = "page" /\ x.user = ask[r].user
              /\ pageQ' = Append(pageQ, r)
              /\ host'.st = "running" /\ host'.owner = host.owner
    PROVE  QueueInv'
<1>1. /\ ask' \in [Asks -> AskRecord] /\ ask'[r] = x
      /\ \A q \in Asks \ {r} : ask'[q] = ask[q]
  BY Writes
<1>2. Holds(life, r) /\ host.st = "starting" /\ host.owner = ask[r].user
  BY DEF QueueInv, Waiting, Changing
<1>3. pageQ = <<>> /\ Members(pageQ) = {}
  BY <1>2, EmptyQueue DEF QueueInv, Serving
<1>4. /\ life' \in Seq(Asks) /\ Distinct(life')
      /\ Members(life') = Members(life) \ {r}
  BY <1>2, LeaveQueue DEF QueueInv, QueueTypes, Waiting
<1>5. /\ pageQ' \in Seq(Asks) /\ Distinct(pageQ')
      /\ Members(pageQ') = IF x.pc = "page" THEN {r} ELSE {}
  <2>1. CASE x.pc = "idle" /\ UNCHANGED pageQ
    BY <1>3, <2>1 DEF QueueInv, QueueTypes, Waiting
  <2>2. CASE x.pc = "page" /\ pageQ' = Append(pageQ, r)
    <3>1. pageQ \in Seq(Asks) /\ Distinct(pageQ) /\ r \notin Members(pageQ)
      BY <1>3 DEF QueueInv, QueueTypes, Waiting
    <3>2. /\ Append(pageQ, r) \in Seq(Asks) /\ Distinct(Append(pageQ, r))
          /\ Members(Append(pageQ, r)) = Members(pageQ) \cup {r}
      BY <3>1, EnterQueue
    <3> QED
      BY <1>3, <2>2, <3>2
  <2> QED
    BY <2>1, <2>2
<1>6. \A q \in Asks : ask'[q].pc \notin {"launch", "closing", "visiting"}
  BY <1>1, <1>2, <1>3 DEF QueueInv, Waiting, Holds
<1>7. QueueTypes'
  BY <1>1, <1>4, <1>5 DEF QueueTypes
<1>8. Waiting'
  BY <1>1, <1>4, <1>5, <1>6, MembersAsk DEF QueueInv, Waiting
<1>9. Changing'
  BY <1>6 DEF Changing
<1>10. Serving'
  BY <1>1, <1>2, <1>3, <1>5 DEF Serving
<1> QED
  BY <1>7, <1>8, <1>9, <1>10 DEF QueueInv

LEMMA StopBeginsKeeps ==
    ASSUME QueueInv, LinkedIn, NEW r \in Asks, StopBegins(r)
    PROVE  QueueInv'
<1> DEFINE x == [ask[r] EXCEPT !.pc = "closing"]
<1>1. x \in AskRecord /\ x.pc = "closing" /\ ask' = [ask EXCEPT ![r] = x]
  BY DEF StopBegins, Goes, QueueInv, QueueTypes, AskRecord, Pc
<1>2. /\ ask' \in [Asks -> AskRecord] /\ ask'[r] = x
      /\ \A q \in Asks \ {r} : ask'[q] = ask[q]
  BY <1>1, Writes
<1>3. /\ Holds(life, r) /\ UNCHANGED life /\ ask[r].pc = "life"
      /\ pageQ' = Append(pageQ, r)
  BY DEF StopBegins, Does
<1>4. host' \in HostRecord /\ host'.st = "stopping"
  BY DEF StopBegins, Stopping, QueueInv, QueueTypes, HostRecord
<1>5. /\ \A q \in Asks : ask[q].pc \notin {"launch", "closing"}
      /\ r \notin Members(pageQ)
  BY <1>3, NobodyChanges
<1>6. /\ pageQ' \in Seq(Asks) /\ Members(pageQ') = Members(pageQ) \cup {r}
      /\ Distinct(pageQ') /\ \A q : Holds(pageQ, q) => Holds(pageQ', q)
      /\ EndsWith(pageQ', r)
  BY <1>3, <1>5, EnterQueue DEF QueueInv, QueueTypes, Waiting
<1>7. QueueTypes'
  BY <1>2, <1>3, <1>4, <1>6 DEF QueueInv, QueueTypes
<1>8. Waiting'
  BY <1>1, <1>2, <1>3, <1>5, <1>6, MembersAsk DEF QueueInv, Waiting
<1>9. Changing'
  BY <1>1, <1>2, <1>4, <1>5, <1>6 DEF Changing
<1>10. Serving'
  BY <1>1, <1>2, <1>4 DEF Serving
<1> QED
  BY <1>7, <1>8, <1>9, <1>10 DEF QueueInv

LEMMA StopEndsKeeps ==
    ASSUME QueueInv, NEW r \in Asks, StopEnds(r)
    PROVE  QueueInv'
<1>1. NoAsk \in AskRecord /\ NoAsk.pc = "idle" /\ ask' = [ask EXCEPT ![r] = NoAsk]
  BY DEF NoAsk, AskRecord, Pc, StopEnds, Answers
<1>2. /\ ask' \in [Asks -> AskRecord] /\ ask'[r] = NoAsk
      /\ \A q \in Asks \ {r} : ask'[q] = ask[q]
  BY <1>1, Writes
<1>3. /\ Holds(pageQ, r) /\ pageQ' = Tail(pageQ) /\ life' = Tail(life)
      /\ ask[r].pc = "closing"
  BY DEF StopEnds, Does
<1>4. host' \in HostRecord /\ host'.st = "idle"
  BY DEF StopEnds, Idle, HostRecord
<1>5. Holds(life, r) /\ EndsWith(pageQ, r)
  BY <1>3 DEF QueueInv, Waiting, Changing
<1>6. /\ life' \in Seq(Asks) /\ Distinct(life')
      /\ Members(life') = Members(life) \ {r}
  BY <1>3, <1>5, LeaveQueue DEF QueueInv, QueueTypes, Waiting
<1>7. pageQ' = <<>> /\ pageQ' \in Seq(Asks)
  BY <1>3, <1>5, LeaveQueue DEF QueueInv, QueueTypes, Waiting
<1>8. \A q \in Asks : ask'[q].pc \notin {"launch", "closing", "visiting"}
  BY <1>1, <1>2, <1>3, <1>5 DEF QueueInv, Waiting, Holds
<1>9. QueueTypes'
  BY <1>2, <1>4, <1>6, <1>7 DEF QueueTypes
<1>10. Waiting'
  BY <1>2, <1>6, <1>7, <1>8, EmptyQueue, MembersAsk DEF QueueInv, Waiting
<1>11. Changing'
  BY <1>8 DEF Changing
<1>12. Serving'
  BY <1>4, <1>7 DEF Serving
<1> QED
  BY <1>9, <1>10, <1>11, <1>12 DEF QueueInv

-----------------------------------------------------------------------------
(* Every step of the LinkedIn browser keeps the invariant.                  *)

LEMMA AnswersForm ==
    ASSUME NEW r \in Asks, Answers(r)
    PROVE  NoAsk \in AskRecord /\ NoAsk.pc = "idle"
           /\ ask' = [ask EXCEPT ![r] = NoAsk]
BY DEF Answers, NoAsk, AskRecord, Pc

LEMMA GoesForm ==
    ASSUME QueueInv, NEW r \in Asks, NEW pc \in Pc, Goes(r, pc)
    PROVE  LET x == [ask[r] EXCEPT !.pc = pc]
           IN  /\ x \in AskRecord /\ x.pc = pc /\ x.user = ask[r].user
               /\ ask' = [ask EXCEPT ![r] = x]
BY DEF Goes, QueueInv, QueueTypes, AskRecord

LEMMA AskingForm ==
    ASSUME NEW r \in Asks, NEW u \in Users, NEW op, NEW c, NEW pc \in Pc,
           op \in {"start", "stop", "scan", "list", "open", "close", "read",
                  "send", "stream"},
           c \in Threads \cup {NoChat}, Asking(r, u, op, c, pc)
    PROVE  LET x == [pc |-> pc, user |-> u, op |-> op, chat |-> c, mine |-> FALSE]
           IN  /\ x \in AskRecord /\ x.pc = pc /\ x.user = u
               /\ ask' = [ask EXCEPT ![r] = x] /\ ask[r].pc = "idle"
BY DEF Asking, AskRecord, Does

LEMMA LifeCallKeeps ==
    ASSUME QueueInv, NEW r \in Asks, NEW u \in Users, NEW op,
           op \in {"start", "stop", "scan"}, Asking(r, u, op, NoChat, "life"),
           life' = Append(life, r), UNCHANGED <<host, pageQ>>
    PROVE  QueueInv'
<1> DEFINE x == [pc |-> "life", user |-> u, op |-> op, chat |-> NoChat,
                 mine |-> FALSE]
<1>1. /\ op \in {"start", "stop", "scan", "list", "open", "close", "read",
                "send", "stream"}
      /\ NoChat \in Threads \cup {NoChat} /\ "life" \in Pc
  BY DEF Pc
<1>2. /\ x \in AskRecord /\ x.pc = "life"
      /\ ask' = [ask EXCEPT ![r] = x] /\ ask[r].pc = "idle"
  BY <1>1, AskingForm
<1> QED
  BY <1>2, EntersLife

LEMMA AskLifeKeeps ==
    ASSUME QueueInv, NEW r \in Asks, NEW u \in Users,
           AskStart(r, u) \/ AskScan(r, u) \/ AskStop(r, u)
    PROVE  QueueInv'
<1>1. PICK op \in {"start", "stop", "scan"} : Asking(r, u, op, NoChat, "life")
  BY DEF AskStart, AskScan, AskStop
<1>2. life' = Append(life, r) /\ UNCHANGED <<host, pageQ>>
  BY DEF AskStart, AskScan, AskStop
<1> QED
  BY <1>1, <1>2, LifeCallKeeps

LEMMA CallKeeps ==
    ASSUME QueueInv, LinkedIn, NEW r \in Asks, NEW u \in Users, NEW op, NEW c,
           op \in {"scan", "list", "open", "close", "read", "send", "stream"},
           c \in Threads \cup {NoChat}, EnsureRunning(u),
           Asking(r, u, op, c, "page"), pageQ' = Append(pageQ, r),
           UNCHANGED <<host, life>>
    PROVE  QueueInv'
<1> DEFINE x == [pc |-> "page", user |-> u, op |-> op, chat |-> c, mine |-> FALSE]
<1>1. /\ x \in AskRecord /\ x.pc = "page" /\ x.user = u
      /\ ask' = [ask EXCEPT ![r] = x] /\ ask[r].pc = "idle"
  BY AskingForm DEF Pc
<1>2. host.st = "running" /\ host.owner = u
  BY DEF EnsureRunning, OwnedBy
<1> QED
  BY <1>1, <1>2, EntersPage

LEMMA AskPageKeeps ==
    ASSUME QueueInv, LinkedIn, NEW r \in Asks, NEW u \in Users,
           \/ AskList(r, u) \/ AskRead(r, u) \/ AskClose(r, u) \/ AskOpen(r, u)
           \/ AskVisit(r, u) \/ AskSend(r, u) \/ AskStream(r, u)
    PROVE  QueueInv'
<1>1. host.active \in Threads \cup {NoChat}
  BY DEF QueueInv, QueueTypes, HostRecord
<1>2. PICK op \in {"scan", "list", "open", "close", "read", "send", "stream"},
           c \in Threads \cup {NoChat} :
              EnsureRunning(u) /\ Asking(r, u, op, c, "page")
  BY <1>1 DEF AskList, AskRead, AskClose, AskOpen, AskVisit, AskSend, AskStream,
              AskPage
<1>3. pageQ' = Append(pageQ, r) /\ UNCHANGED <<host, life>>
  BY DEF AskList, AskRead, AskClose, AskOpen, AskVisit, AskSend, AskStream,
         AskPage
<1> QED
  BY <1>2, <1>3, CallKeeps

LEMMA AlreadyRunsKeeps ==
    ASSUME QueueInv, LinkedIn, NEW r \in Asks, AlreadyRuns(r)
    PROVE  QueueInv'
<1>1. /\ ask[r].pc = "life" /\ Holds(life, r) /\ host.st = "running"
      /\ UNCHANGED host /\ life' = Tail(life)
  BY DEF AlreadyRuns, Does, Started, NotStarted
<1>2. CASE Answers(r) /\ UNCHANGED pageQ
  BY <1>1, <1>2, AnswersForm, LeavesLife
<1>3. CASE OwnedBy(ask[r].user) /\ ask[r].op = "scan" /\ Started(r)
  <2> DEFINE x == [ask[r] EXCEPT !.pc = "page", !.mine = TRUE]
  <2>1. x \in AskRecord /\ x.pc = "page" /\ x.user = host.owner
        /\ ask' = [ask EXCEPT ![r] = x] /\ pageQ' = Append(pageQ, r)
    BY <1>3 DEF Started, OwnedBy, QueueInv, QueueTypes, AskRecord, Pc
  <2> QED
    BY <1>1, <2>1, LeavesLife
<1> QED
  BY <1>2, <1>3 DEF AlreadyRuns, Started, NotStarted

LEMMA LaunchKeeps ==
    ASSUME QueueInv, NEW r \in Asks, Launches(r) \/ BrowserFails(r)
    PROVE  QueueInv'
<1>1. ask[r].pc = "launch" /\ life' = Tail(life)
  BY DEF Launches, BrowserFails, Does, Started, NotStarted
<1>2. /\ host' \in HostRecord
      /\ Launches(r) => host'.st = "running" /\ host'.owner = host.owner
      /\ BrowserFails(r) => host'.st = "error"
  BY DEF Launches, BrowserFails, QueueInv, QueueTypes, HostRecord, Idle
<1>3. CASE /\ Answers(r) /\ UNCHANGED pageQ
           /\ host'.st \in {"running", "error"}
  BY <1>1, <1>2, <1>3, AnswersForm, LaunchEnds
<1>4. CASE Launches(r) /\ ask[r].op = "scan"
  <2> DEFINE x == [ask[r] EXCEPT !.pc = "page", !.mine = TRUE]
  <2>1. x \in AskRecord /\ x.pc = "page" /\ x.user = ask[r].user
        /\ ask' = [ask EXCEPT ![r] = x] /\ pageQ' = Append(pageQ, r)
    BY <1>4 DEF Launches, Started, QueueInv, QueueTypes, AskRecord, Pc
  <2> QED
    BY <1>1, <1>2, <1>4, <2>1, LaunchEnds
<1> QED
  BY <1>2, <1>3, <1>4 DEF Launches, BrowserFails, Started, NotStarted

LEMMA UseKeeps ==
    ASSUME QueueInv, NEW r \in Asks,
           \/ ListChats(r) \/ OpenChat(r) \/ RowGone(r) \/ OpenFails(r)
           \/ CloseChat(r) \/ ReadMessages(r) \/ ReadForStream(r)
           \/ SendMessage(r) \/ SendFails(r)
           \/ NoPage(r) /\ ~ask[r].mine
    PROVE  QueueInv'
<1>1. /\ ask[r].pc = "page" /\ Holds(pageQ, r) /\ Leaves(r)
  BY DEF ListChats, OpenChat, RowGone, OpenFails, CloseChat, ReadMessages,
         ReadForStream, SendMessage, SendFails, NoPage, Using, Does
<1>2. /\ host' \in HostRecord /\ host'.st = host.st /\ host'.owner = host.owner
  BY DEF ListChats, OpenChat, RowGone, OpenFails, CloseChat, ReadMessages,
         ReadForStream, SendMessage, SendFails, NoPage, QueueInv, QueueTypes,
         HostRecord, AskRecord
<1>3. pageQ' = Tail(pageQ) /\ UNCHANGED life
  BY <1>1 DEF Leaves
<1>4. CASE Answers(r)
  BY <1>1, <1>2, <1>3, <1>4, AnswersForm, LeavesPage
<1>5. CASE Goes(r, "tick")
  <2> DEFINE x == [ask[r] EXCEPT !.pc = "tick"]
  <2>1. "tick" \in Pc
    BY DEF Pc
  <2>2. x \in AskRecord /\ x.pc = "tick" /\ ask' = [ask EXCEPT ![r] = x]
    BY <1>5, <2>1, GoesForm
  <2> QED
    BY <1>1, <1>2, <1>3, <2>2, LeavesPage
<1> QED
  BY <1>1, <1>4, <1>5 DEF Leaves

LEMMA ProfileKeeps ==
    ASSUME QueueInv, NEW r \in Asks,
           VisitProfile(r) \/ RestorePage(r) \/ (NoPage(r) /\ ask[r].mine)
    PROVE  QueueInv'
<1>1. CASE VisitProfile(r)
  <2>1. "visiting" \in Pc
    BY DEF Pc
  <2> QED
    BY <1>1, <2>1, GoesForm, GoesOn DEF VisitProfile, Using, Does, LocksStay
<1>2. ASSUME RestorePage(r) \/ (NoPage(r) /\ ask[r].mine)  PROVE QueueInv'
  <2>1. /\ ask[r].pc \in {"page", "visiting"} /\ Holds(pageQ, r)
        /\ pageQ' = Tail(pageQ)
    BY <1>2 DEF RestorePage, NoPage, Does, QueueInv, Waiting
  <2>2. /\ host' \in HostRecord /\ host'.st = host.st
        /\ host'.owner = host.owner
    BY <1>2 DEF RestorePage, NoPage, QueueInv, QueueTypes
  <2>3. CASE Answers(r) /\ UNCHANGED life
    BY <2>1, <2>2, <2>3, AnswersForm, LeavesPage
  <2>4. CASE ask[r].mine
    <3> DEFINE x == [NoAsk EXCEPT !.pc = "life", !.user = ask[r].user, !.op = "stop"]
    <3>1. x \in AskRecord /\ x.pc = "life"
      BY DEF NoAsk, AskRecord, Pc, QueueInv, QueueTypes
    <3>2. ask' = [ask EXCEPT ![r] = x] /\ life' = Append(life, r)
      BY <1>2, <2>4 DEF RestorePage, NoPage
    <3> QED
      BY <2>1, <2>2, <3>1, <3>2, LeavesPage
  <2> QED
    BY <1>2, <2>3, <2>4 DEF RestorePage
<1> QED
  BY <1>1, <1>2

LEMMA StreamKeeps ==
    ASSUME QueueInv, LinkedIn, NEW r \in Asks, StreamTicks(r) \/ StreamEnds(r)
    PROVE  QueueInv'
<1>1. CASE StreamTicks(r)
  <2> DEFINE x == [ask[r] EXCEPT !.pc = "page", !.chat = host.active]
  <2>1. x \in AskRecord /\ x.pc = "page" /\ x.user = host.owner
        /\ ask' = [ask EXCEPT ![r] = x]
    BY <1>1 DEF StreamTicks, EnsureRunning, OwnedBy, QueueInv, QueueTypes,
                AskRecord, HostRecord, Pc
  <2> QED
    BY <1>1, <2>1, EntersPage DEF StreamTicks, EnsureRunning, Does
<1>2. CASE StreamEnds(r)
  BY <1>2, AnswersForm, GoesOn DEF StreamEnds, Does, LocksStay
<1> QED
  BY <1>1, <1>2

\* No text waits apart from the page in the LinkedIn browser.
LEMMA NothingThrottled == QueueInv => \A r \in Asks : ask[r].pc # "throttle"
BY DEF QueueInv, QueueTypes, AskRecord, Pc

LEMMA QueueStep ==
    ASSUME QueueInv, LinkedIn, [LiveNext]_liveVars
    PROVE  QueueInv'
<1>1. ASSUME NEW r \in Asks, NEW u \in Users,
             AskStart(r, u) \/ AskScan(r, u) \/ AskStop(r, u)
      PROVE  QueueInv'
  BY <1>1, AskLifeKeeps
<1>2. ASSUME NEW r \in Asks, NEW u \in Users,
             \/ AskList(r, u) \/ AskRead(r, u) \/ AskClose(r, u)
             \/ AskOpen(r, u) \/ AskVisit(r, u) \/ AskSend(r, u)
             \/ AskStream(r, u)
      PROVE  QueueInv'
  BY <1>2, AskPageKeeps
<1>3. ASSUME NEW r \in Asks,
             \/ AlreadyRuns(r) \/ Claims(r) \/ Launches(r) \/ BrowserFails(r)
             \/ StopBegins(r) \/ StopEnds(r)
      PROVE  QueueInv'
  BY <1>3, AlreadyRunsKeeps, ClaimsKeeps, LaunchKeeps, StopBeginsKeeps,
     StopEndsKeeps
<1>4. ASSUME NEW r \in Asks, Throttled(r)  PROVE QueueInv'
  BY <1>4, NothingThrottled DEF Throttled, Does
<1>5. ASSUME NEW r \in Asks,
             \/ ListChats(r) \/ OpenChat(r) \/ RowGone(r) \/ OpenFails(r)
             \/ CloseChat(r) \/ ReadMessages(r) \/ ReadForStream(r)
             \/ SendMessage(r) \/ SendFails(r) \/ NoPage(r)
             \/ VisitProfile(r) \/ RestorePage(r)
      PROVE  QueueInv'
  <2>1. CASE VisitProfile(r) \/ RestorePage(r) \/ (NoPage(r) /\ ask[r].mine)
    BY <2>1, ProfileKeeps
  <2>2. CASE ~(VisitProfile(r) \/ RestorePage(r) \/ (NoPage(r) /\ ask[r].mine))
    BY <1>5, <2>2, UseKeeps
  <2> QED
    BY <2>1, <2>2
<1>6. ASSUME NEW r \in Asks, StreamTicks(r) \/ StreamEnds(r)  PROVE QueueInv'
  BY <1>6, StreamKeeps
<1>7. CASE UNCHANGED liveVars
  BY <1>7 DEF liveVars, QueueInv, QueueTypes, Waiting, Changing, Serving
<1> QED
  BY <1>1, <1>2, <1>3, <1>4, <1>5, <1>6, <1>7 DEF LiveNext

\* A site keeps its kind.
LEMMA SameSite == [LiveNext]_liveVars => UNCHANGED site
<1> SUFFICES ASSUME [LiveNext]_liveVars  PROVE UNCHANGED site
  OBVIOUS
<1>1. ASSUME NEW r \in Asks, NEW u \in Users,
             \/ AskStart(r, u) \/ AskScan(r, u) \/ AskStop(r, u)
             \/ AskList(r, u) \/ AskRead(r, u) \/ AskClose(r, u)
             \/ AskOpen(r, u) \/ AskVisit(r, u) \/ AskSend(r, u)
             \/ AskStream(r, u)
      PROVE  UNCHANGED site
  BY <1>1 DEF AskStart, AskScan, AskStop, AskList, AskRead, AskClose, AskOpen,
              AskVisit, AskSend, AskStream, AskPage, Asking
<1>2. ASSUME NEW r \in Asks,
             \/ AlreadyRuns(r) \/ Claims(r) \/ Launches(r) \/ BrowserFails(r)
             \/ StopBegins(r) \/ StopEnds(r) \/ Throttled(r)
             \/ StreamTicks(r) \/ StreamEnds(r)
      PROVE  UNCHANGED site
  BY <1>2 DEF AlreadyRuns, Claims, Launches, BrowserFails, StopBegins, StopEnds,
              Throttled, StreamTicks, StreamEnds, LiveFrame
<1>3. ASSUME NEW r \in Asks,
             \/ ListChats(r) \/ OpenChat(r) \/ RowGone(r) \/ OpenFails(r)
             \/ CloseChat(r) \/ ReadMessages(r) \/ ReadForStream(r)
             \/ SendMessage(r) \/ SendFails(r) \/ NoPage(r)
             \/ VisitProfile(r) \/ RestorePage(r)
      PROVE  UNCHANGED site
  BY <1>3 DEF ListChats, OpenChat, RowGone, OpenFails, CloseChat, ReadMessages,
              ReadForStream, SendMessage, SendFails, NoPage, VisitProfile,
              RestorePage, Leaves, LiveFrame
<1>4. CASE UNCHANGED liveVars
  BY <1>4 DEF liveVars
<1> QED
  BY <1>1, <1>2, <1>3, <1>4 DEF LiveNext

\* Who holds the page of a browser that runs is its owner.
ServedIsOwner ==
    \A r \in Asks : Using(r, ask[r].op) => OwnedBy(ask[r].user)

LEMMA QueueMeansOwner == (LinkedIn => QueueInv) => ServedIsOwner
<1> SUFFICES ASSUME LinkedIn, QueueInv, NEW r \in Asks, Using(r, ask[r].op)
             PROVE  host.owner = ask[r].user
  BY DEF ServedIsOwner, OwnedBy
<1>1. Holds(pageQ, r) /\ host.st = "running"
  BY DEF Using
<1>2. r \in Members(pageQ)
  BY <1>1, LeaveQueue DEF QueueInv, QueueTypes, Waiting
<1> QED
  BY <1>1, <1>2 DEF QueueInv, Serving

\* Whatever calls wait while the LinkedIn browser stops, starts and changes
\* hands, nobody's call is served in another user's browser.
THEOREM OwnBrowserOnlyCorrect == LiveSpec => OwnBrowserOnly
<1>1. LiveInit => (LinkedIn => QueueInv)
  BY EmptyQueue
     DEF LiveInit, QueueInv, QueueTypes, Waiting, Changing, Serving, Idle,
         NoAsk, AskRecord, HostRecord, Pc
<1>2. (LinkedIn => QueueInv) /\ [LiveNext]_liveVars => (LinkedIn => QueueInv)'
  BY QueueStep, SameSite DEF LinkedIn
<1>3. ServedIsOwner =>
        \A r \in Asks : ask'[r] # ask[r] /\ Using(r, ask[r].op)
                          => OwnedBy(ask[r].user)
  BY DEF ServedIsOwner
<1>4. LiveSpec => []ServedIsOwner
  BY <1>1, <1>2, QueueMeansOwner, PTL DEF LiveSpec
<1> QED
  BY <1>3, <1>4, PTL DEF OwnBrowserOnly

-----------------------------------------------------------------------------
(* What is on the screen, and for whom a text waits.                        *)

AnyPc == Pc \cup {"throttle"}
AnyCall == [pc: AnyPc, user: Users \cup {Nobody},
            op: {"none", "start", "stop", "scan", "list", "open", "close",
                 "read", "send", "stream"},
            chat: Threads \cup {NoChat}, mine: BOOLEAN]

Sends(r) == ask[r].op = "send"
NoSends  == \A r \in Asks : ~Sends(r)

\* The chat that is open is on the screen, a text in a browser that runs is
\* for it, and no call that would change it waits with a text of its user.
Screen == shown # Elsewhere /\ (host.active # NoChat => shown = host.active)
Apart ==
    \A r, q \in Asks : Sends(r) /\ ask[q].op \in {"open", "close"} =>
       ask[r].user # ask[q].user
ChatInv ==
    /\ ask \in [Asks -> AnyCall] /\ host \in HostRecord
    /\ Screen /\ Apart
    /\ \A r \in Asks : Sends(r) /\ host.st = "running" =>
          ask[r].chat = host.active

\* The LinkedIn browser: a text waits with its page.
Paged == /\ \A r \in Asks : ask[r].pc = "page" => r \in Members(pageQ)
         /\ \A r \in Asks : Sends(r) => ask[r].pc = "page"

\* A WhatsApp browser: one user, who does not stop it under a text.
DeviceInv ==
    /\ life \in Seq(Asks)
    /\ \A r \in Asks :
          /\ ask[r].op # "none" => ask[r].user = DeviceUser
          /\ ask[r].op # "scan" /\ ~ask[r].mine /\ ask[r].pc # "visiting"
          /\ ask[r].pc \in {"launch", "closing"} => Holds(life, r)
          /\ ask[r].pc = "launch" => host.st = "starting"
          /\ ask[r].pc = "closing" => ask[r].op = "stop"
          /\ Sends(r) => host.st = "running"
    /\ \A r, q \in Asks : Sends(r) => ask[q].op # "stop"

TextInv == /\ ChatInv
           /\ LinkedIn => QueueInv /\ Paged
           /\ ~LinkedIn => DeviceInv

\* No text waits while a browser comes up, and the chat that is open changes
\* by a call of the user whose texts might wait.
Fresh == \A r \in Asks : ask[r].pc = "launch" => NoSends
Alone == \A r \in Asks : Using(r, "open") \/ Using(r, "close") => NoSends

LEMMA TextIsSafe == TextInv => Fresh /\ Alone
<1> SUFFICES ASSUME TextInv  PROVE Fresh /\ Alone
  OBVIOUS
<1>1. CASE LinkedIn
  <2>1. QueueInv /\ Paged /\ Apart
    BY <1>1 DEF TextInv, ChatInv
  <2>2. Fresh
    <3> SUFFICES ASSUME NEW r \in Asks, ask[r].pc = "launch"  PROVE NoSends
      BY DEF Fresh
    <3>1. pageQ = <<>>
      BY <2>1 DEF QueueInv, Changing, Serving
    <3>2. Members(pageQ) = {}
      BY <3>1, EmptyQueue
    <3> QED
      BY <2>1, <3>2 DEF Paged, NoSends
  <2>3. Alone
    <3> SUFFICES ASSUME NEW r \in Asks, Using(r, "open") \/ Using(r, "close"),
                        NEW q \in Asks, Sends(q)
                 PROVE  FALSE
      BY DEF Alone, NoSends
    <3>1. ask[r].pc = "page" /\ host.st = "running"
          /\ ask[r].op \in {"open", "close"}
      BY DEF Using, Does
    <3>2. r \in Members(pageQ) /\ q \in Members(pageQ)
      BY <2>1, <3>1 DEF Paged
    <3>3. ask[r].user = ask[q].user
      BY <2>1, <3>1, <3>2 DEF QueueInv, Serving
    <3> QED
      BY <2>1, <3>1, <3>3 DEF Apart
  <2> QED
    BY <2>2, <2>3
<1>2. CASE ~LinkedIn
  <2>1. DeviceInv /\ Apart
    BY <1>2 DEF TextInv, ChatInv
  <2>2. Fresh
    BY <2>1 DEF DeviceInv, Fresh, NoSends
  <2>3. Alone
    BY <2>1 DEF DeviceInv, Alone, NoSends, Using, Apart, Sends
  <2> QED
    BY <2>2, <2>3
<1> QED
  BY <1>1, <1>2

-----------------------------------------------------------------------------
(* What one call does to the texts.                                         *)

LEMMA WritesAny ==
    ASSUME ChatInv, NEW r \in Asks, NEW x \in AnyCall,
           ask' = [ask EXCEPT ![r] = x]
    PROVE  /\ ask' \in [Asks -> AnyCall] /\ ask'[r] = x
           /\ \A q \in Asks \ {r} : ask'[q] = ask[q]
BY DEF ChatInv

\* A call that goes on as what it is.
Same(r, x) == /\ x.op = ask[r].op /\ x.user = ask[r].user
              /\ x.op = "send" => x.chat = ask[r].chat

\* Going on or being over disturbs no text, if the chat that is open stays, if
\* the browser stops, or if there is none.
LEMMA GoingOnKeeps ==
    ASSUME ChatInv, NEW r \in Asks, NEW x \in AnyCall,
           ask' = [ask EXCEPT ![r] = x],
           x.op \in {"none", "stop"} \/ Same(r, x),
           host' \in HostRecord, Screen',
           \/ host'.st = host.st /\ host'.active = host.active
           \/ host'.st # "running"
           \/ NoSends
    PROVE  ChatInv'
<1>1. /\ ask' \in [Asks -> AnyCall] /\ ask'[r] = x
      /\ \A q \in Asks \ {r} : ask'[q] = ask[q]
  BY WritesAny
<1>2. \A q \in Asks : Sends(q)' => /\ Sends(q) /\ ask'[q].chat = ask[q].chat
                                  /\ ask'[q].user = ask[q].user
  BY <1>1 DEF Same, Sends
<1>3. \A q \in Asks : ask'[q].op \in {"open", "close"} =>
         ask[q].op = ask'[q].op /\ ask'[q].user = ask[q].user
  BY <1>1 DEF Same
<1>4. Apart'
  BY <1>2, <1>3 DEF Apart, ChatInv, Sends
<1>5. \A q \in Asks : Sends(q)' /\ host'.st = "running" =>
         ask'[q].chat = host'.active
  BY <1>2 DEF ChatInv, NoSends
<1> QED
  BY <1>1, <1>4, <1>5 DEF ChatInv

\* A new call that waits for no text of its user, or a text for the chat that
\* is open.
LEMMA NewCallKeeps ==
    ASSUME ChatInv, NEW r \in Asks, NEW x \in AnyCall,
           ask' = [ask EXCEPT ![r] = x], UNCHANGED <<host, shown>>,
           x.op = "send" => x.chat = host.active
                            /\ ~Busy(x.user, {"open", "close", "stop"}),
           x.op \in {"open", "close"} => ~Busy(x.user, {"send"})
    PROVE  ChatInv'
<1>1. /\ ask' \in [Asks -> AnyCall] /\ ask'[r] = x
      /\ \A q \in Asks \ {r} : ask'[q] = ask[q]
  BY WritesAny
<1>2. Apart'
  BY <1>1 DEF Apart, ChatInv, Sends, Busy
<1>3. Screen'
  BY DEF ChatInv, Screen
<1> QED
  BY <1>1, <1>2, <1>3 DEF ChatInv, Sends

\* The LinkedIn browser.
LEMMA PagedKeeps ==
    ASSUME ChatInv, Paged, NEW r \in Asks, NEW x \in AnyCall,
           ask' = [ask EXCEPT ![r] = x],
           Members(pageQ) \ {r} \subseteq Members(pageQ'),
           x.pc = "page" => r \in Members(pageQ'),
           x.op = "send" => x.pc = "page"
    PROVE  Paged'
<1>1. /\ ask'[r] = x /\ \A q \in Asks \ {r} : ask'[q] = ask[q]
  BY WritesAny
<1> QED
  BY <1>1 DEF Paged, Sends

\* The WhatsApp browser, when it neither starts nor stops.
LEMMA DeviceKeeps ==
    ASSUME ChatInv, DeviceInv, NEW r \in Asks, NEW x \in AnyCall,
           ask' = [ask EXCEPT ![r] = x], host'.st = host.st,
           x.pc \notin {"launch", "closing", "visiting"},
           ask[r].pc \notin {"launch", "closing"},
           x.op # "scan" /\ ~x.mine,
           x.op # "none" => x.user = DeviceUser,
           x.op = "send" => \/ Sends(r)
                            \/ host.st = "running"
                               /\ ~Busy(DeviceUser, {"open", "close", "stop"}),
           x.op = "stop" => ask[r].op = "stop" \/ NoSends,
           life' \in Seq(Asks),
           \A q \in Asks \ {r} : Holds(life, q) => Holds(life', q)
    PROVE  DeviceInv'
<1>1. /\ ask'[r] = x /\ \A q \in Asks \ {r} : ask'[q] = ask[q]
  BY WritesAny
<1>2. \A q \in Asks : ask[q].op = "stop" => ask[q].user = DeviceUser
  BY DEF DeviceInv
<1>3. \A q, p \in Asks : Sends(q)' => ask'[p].op # "stop"
  BY <1>1, <1>2 DEF DeviceInv, Sends, NoSends, Busy
<1> QED
  BY <1>1, <1>3 DEF DeviceInv, Sends

-----------------------------------------------------------------------------
(* What the steps do to the call that takes them.                           *)

LEMMA AnyFields ==
    ASSUME ChatInv, NEW r \in Asks
    PROVE  /\ ask[r] \in AnyCall /\ ask[r].user \in Users \cup {Nobody}
           /\ ask[r].chat \in Threads \cup {NoChat}
           /\ host.active \in Threads \cup {NoChat}
BY DEF ChatInv, AnyCall, HostRecord

LEMMA AnswersAny ==
    ASSUME NEW r \in Asks, Answers(r)
    PROVE  /\ NoAsk \in AnyCall /\ NoAsk.pc = "idle" /\ NoAsk.op = "none"
           /\ ~NoAsk.mine /\ ask' = [ask EXCEPT ![r] = NoAsk]
BY DEF Answers, NoAsk, AnyCall, AnyPc, Pc

LEMMA GoesAny ==
    ASSUME ChatInv, NEW r \in Asks, NEW pc \in AnyPc, Goes(r, pc)
    PROVE  LET x == [ask[r] EXCEPT !.pc = pc]
           IN  /\ x \in AnyCall /\ x.pc = pc /\ Same(r, x)
               /\ x.mine = ask[r].mine /\ ask' = [ask EXCEPT ![r] = x]
BY AnyFields DEF Goes, AnyCall, Same

\* A scan that has started the browser goes on to the page.
ToPage(r) == [ask[r] EXCEPT !.pc = "page", !.mine = TRUE]
LEMMA ToPageAny ==
    ASSUME ChatInv, NEW r \in Asks
    PROVE  ToPage(r) \in AnyCall /\ ToPage(r).pc = "page" /\ Same(r, ToPage(r))
BY AnyFields DEF ToPage, AnyCall, AnyPc, Pc, Same

\* A scan that stops the browser it has started.
ToStop(r) == [NoAsk EXCEPT !.pc = "life", !.user = ask[r].user, !.op = "stop"]
LEMMA ToStopAny ==
    ASSUME ChatInv, NEW r \in Asks
    PROVE  ToStop(r) \in AnyCall /\ ToStop(r).pc = "life"
           /\ ToStop(r).op = "stop"
BY AnyFields DEF ToStop, NoAsk, AnyCall, AnyPc, Pc

\* A stream that reads the chat that is open.
ToRead(r) == [ask[r] EXCEPT !.pc = "page", !.chat = host.active]
LEMMA ToReadAny ==
    ASSUME ChatInv, NEW r \in Asks
    PROVE  /\ ToRead(r) \in AnyCall /\ ToRead(r).pc = "page"
           /\ ToRead(r).op = ask[r].op /\ ToRead(r).user = ask[r].user
           /\ ToRead(r).chat = host.active /\ ToRead(r).mine = ask[r].mine
BY AnyFields DEF ToRead, AnyCall, AnyPc, Pc

Call(r, u, op, c, pc) ==
    [pc |-> pc, user |-> u, op |-> op, chat |-> c, mine |-> FALSE]
CallOps == {"start", "stop", "scan", "list", "open", "close", "read", "send",
            "stream"}

LEMMA CallAny ==
    ASSUME NEW r \in Asks, NEW u \in Users, NEW op \in CallOps,
           NEW c \in Threads \cup {NoChat}, NEW pc \in AnyPc,
           Asking(r, u, op, c, pc)
    PROVE  LET x == Call(r, u, op, c, pc)
           IN  /\ x \in AnyCall /\ x.pc = pc /\ x.op = op /\ x.user = u
               /\ x.chat = c /\ ~x.mine
               /\ ask' = [ask EXCEPT ![r] = x] /\ ask[r].pc = "idle"
               /\ ~LinkedIn => u = DeviceUser
BY DEF Asking, Call, CallOps, AnyCall, Does

IsAsk(r, u) == \/ AskStart(r, u) \/ AskScan(r, u) \/ AskStop(r, u)
               \/ AskList(r, u) \/ AskRead(r, u) \/ AskClose(r, u)
               \/ AskOpen(r, u) \/ AskVisit(r, u) \/ AskSend(r, u)
               \/ AskStream(r, u)

\* What the guards of a call say, and where it waits.
Guarded(u, op, c, pc) ==
    /\ op \in {"stop", "open", "close"} => ~Busy(u, {"send"})
    /\ op = "send" => /\ c = host.active /\ EnsureRunning(u)
                      /\ ~Busy(u, {"open", "close", "stop"})
    /\ op = "scan" => LinkedIn
    /\ LinkedIn /\ op = "send" => pc = "page"
Enters(r, pc) ==
    /\ pc = "life" => life' = Append(life, r) /\ UNCHANGED pageQ
    /\ pc = "page" => pageQ' = Append(pageQ, r) /\ UNCHANGED life
    /\ pc = "throttle" => UNCHANGED <<life, pageQ>>

LEMMA AskGuards ==
    ASSUME ChatInv, NEW r \in Asks, NEW u \in Users, IsAsk(r, u), ~Impatient
    PROVE  /\ UNCHANGED <<host, shown>>
           /\ \E op \in CallOps, c \in Threads \cup {NoChat},
                 pc \in {"life", "page", "throttle"} :
                 Asking(r, u, op, c, pc) /\ Guarded(u, op, c, pc)
                 /\ Enters(r, pc)
<1>1. host.active \in Threads \cup {NoChat}
  BY AnyFields
<1> DEFINE Some == \E op \in CallOps, c \in Threads \cup {NoChat},
                      pc \in {"life", "page", "throttle"} :
                      Asking(r, u, op, c, pc) /\ Guarded(u, op, c, pc)
                      /\ Enters(r, pc)
<1>2. ASSUME NEW op \in CallOps, NEW c \in Threads \cup {NoChat},
             NEW pc \in {"life", "page", "throttle"},
             Asking(r, u, op, c, pc), Guarded(u, op, c, pc), Enters(r, pc)
      PROVE  Some
  BY <1>2
<1> HIDE DEF Some
<1>3. CASE AskStart(r, u)
  <2>1. Asking(r, u, "start", NoChat, "life") /\ UNCHANGED <<host, shown>>
        /\ Enters(r, "life") /\ Guarded(u, "start", NoChat, "life")
    BY <1>3 DEF AskStart, Enters, Guarded
  <2> QED
    BY <1>2, <2>1 DEF CallOps, Some
<1>4. CASE AskScan(r, u)
  <2>1. Asking(r, u, "scan", NoChat, "life") /\ UNCHANGED <<host, shown>>
        /\ Enters(r, "life") /\ Guarded(u, "scan", NoChat, "life")
    BY <1>4 DEF AskScan, Enters, Guarded
  <2> QED
    BY <1>2, <2>1 DEF CallOps, Some
<1>5. CASE AskStop(r, u)
  <2>1. Asking(r, u, "stop", NoChat, "life") /\ UNCHANGED <<host, shown>>
        /\ Enters(r, "life") /\ Guarded(u, "stop", NoChat, "life")
    BY <1>5 DEF AskStop, Enters, Guarded
  <2> QED
    BY <1>2, <2>1 DEF CallOps, Some
<1>6. ASSUME NEW op \in {"list", "read", "close", "open", "scan"},
             NEW c \in Threads \cup {NoChat}, AskPage(r, u, op, c),
             op \in {"open", "close"} => ~Busy(u, {"send"}),
             op = "scan" => LinkedIn
      PROVE  UNCHANGED <<host, shown>> /\ Some
  <2>1. Asking(r, u, op, c, "page") /\ UNCHANGED <<host, shown>>
        /\ Enters(r, "page") /\ Guarded(u, op, c, "page")
    BY <1>6 DEF AskPage, Enters, Guarded
  <2> QED
    BY <1>2, <2>1 DEF CallOps, Some
<1>7. ASSUME \/ AskList(r, u) \/ AskRead(r, u) \/ AskClose(r, u)
             \/ AskOpen(r, u) \/ AskVisit(r, u)
      PROVE  UNCHANGED <<host, shown>> /\ Some
  <2>1. CASE AskList(r, u) \/ AskRead(r, u)
    BY <1>6, <2>1 DEF AskList, AskRead
  <2>2. CASE AskClose(r, u)
    BY <1>6, <2>2 DEF AskClose
  <2>3. CASE AskOpen(r, u)
    <3>1. PICK c \in Threads : AskPage(r, u, "open", c)
      BY <2>3 DEF AskOpen
    <3>2. ~Busy(u, {"send"})
      BY <2>3 DEF AskOpen
    <3> QED
      BY <1>6, <3>1, <3>2
  <2>4. CASE AskVisit(r, u)
    BY <1>6, <2>4 DEF AskVisit
  <2> QED
    BY <1>7, <2>1, <2>2, <2>3, <2>4
<1>8. CASE AskSend(r, u)
  <2>1. CASE LinkedIn
    <3>1. /\ Asking(r, u, "send", host.active, "page")
          /\ UNCHANGED <<host, shown>> /\ Enters(r, "page")
          /\ Guarded(u, "send", host.active, "page")
      BY <1>8, <2>1 DEF AskSend, Enters, Guarded
    <3> QED
      BY <1>1, <1>2, <3>1 DEF CallOps, Some
  <2>2. CASE ~LinkedIn
    <3>1. /\ Asking(r, u, "send", host.active, "throttle")
          /\ UNCHANGED <<host, shown>> /\ Enters(r, "throttle")
          /\ Guarded(u, "send", host.active, "throttle")
      BY <1>8, <2>2 DEF AskSend, Enters, Guarded
    <3> QED
      BY <1>1, <1>2, <3>1 DEF CallOps, Some
  <2> QED
    BY <2>1, <2>2
<1>9. CASE AskStream(r, u)
  <2>1. /\ Asking(r, u, "stream", host.active, "page")
        /\ UNCHANGED <<host, shown>> /\ Enters(r, "page")
        /\ Guarded(u, "stream", host.active, "page")
    BY <1>9 DEF AskStream, Enters, Guarded
  <2> QED
    BY <1>1, <1>2, <2>1 DEF CallOps, Some
<1> QED
  BY <1>3, <1>4, <1>5, <1>7, <1>8, <1>9 DEF IsAsk, Some

-----------------------------------------------------------------------------
(* What the steps do to the texts.                                          *)

TextKeeps == /\ ChatInv'
             /\ LinkedIn /\ QueueInv /\ Paged => Paged'
             /\ ~LinkedIn /\ DeviceInv => DeviceInv'

LEMMA PageRoom ==
    ASSUME QueueInv, NEW r \in Asks
    PROVE  /\ pageQ' = Append(pageQ, r) =>
                 Members(pageQ') = Members(pageQ) \cup {r}
           /\ Holds(pageQ, r) /\ pageQ' = Tail(pageQ) =>
                 Members(pageQ') = Members(pageQ) \ {r}
           /\ UNCHANGED pageQ => Members(pageQ') = Members(pageQ)
<1>1. pageQ \in Seq(Asks) /\ Distinct(pageQ)
  BY DEF QueueInv, QueueTypes, Waiting
<1>2. Members(Append(pageQ, r)) = Members(pageQ) \cup {r}
  BY <1>1, EnterQueue
<1>3. Holds(pageQ, r) => Members(Tail(pageQ)) = Members(pageQ) \ {r}
  BY <1>1, LeaveQueue
<1> QED
  BY <1>2, <1>3

LEMMA LifeRoom ==
    ASSUME life \in Seq(Asks), NEW r \in Asks
    PROVE  /\ life' = Append(life, r) =>
                 /\ life' \in Seq(Asks)
                 /\ \A q \in Asks : Holds(life, q) => Holds(life', q)
           /\ Holds(life, r) => /\ Tail(life) \in Seq(Asks)
                                /\ \A q \in Asks \ {r} : ~Holds(life, q)
<1>1. ASSUME life' = Append(life, r)
      PROVE  /\ life' \in Seq(Asks)
             /\ \A q \in Asks : Holds(life, q) => Holds(life', q)
  BY <1>1, EnterQueue
<1>2. ASSUME Holds(life, r)
      PROVE  /\ Tail(life) \in Seq(Asks)
             /\ \A q \in Asks \ {r} : ~Holds(life, q)
  BY <1>2 DEF Holds
<1> QED
  BY <1>1, <1>2

\* What leaves room for the others in the queues.
PageRuns(r) == QueueInv => Members(pageQ) \ {r} \subseteq Members(pageQ')
LifeRuns(r) ==
    life \in Seq(Asks) =>
       /\ life' \in Seq(Asks)
       /\ \A q \in Asks \ {r} : Holds(life, q) => Holds(life', q)

\* A call goes on or is over.
LEMMA MoveKeeps ==
    ASSUME ChatInv, NEW r \in Asks, NEW x \in AnyCall,
           ask' = [ask EXCEPT ![r] = x], x.op = "none" \/ Same(r, x),
           ask[r].pc \notin {"launch", "closing"},
           x.pc \notin {"launch", "closing"},
           ~LinkedIn /\ DeviceInv => x.pc # "visiting" /\ ~x.mine,
           host' \in HostRecord, host'.st = host.st, Screen',
           host'.active = host.active \/ NoSends,
           PageRuns(r), LifeRuns(r),
           QueueInv /\ x.pc = "page" => r \in Members(pageQ'),
           LinkedIn /\ Paged /\ x.op = "send" => x.pc = "page"
    PROVE  TextKeeps
<1>1. ChatInv'
  BY GoingOnKeeps
<1>2. LinkedIn /\ QueueInv /\ Paged => Paged'
  BY PagedKeeps DEF PageRuns
<1>3. ~LinkedIn /\ DeviceInv => DeviceInv'
  <2> SUFFICES ASSUME ~LinkedIn, DeviceInv  PROVE DeviceInv'
    OBVIOUS
  <2>1. /\ life' \in Seq(Asks)
        /\ \A q \in Asks \ {r} : Holds(life, q) => Holds(life', q)
    BY DEF DeviceInv, LifeRuns
  <2>2. /\ x.op # "scan" /\ (x.op # "none" => x.user = DeviceUser)
        /\ x.op = "send" => Sends(r)
        /\ x.op = "stop" => ask[r].op = "stop"
    BY DEF DeviceInv, Same, Sends
  <2> QED
    BY <2>1, <2>2, DeviceKeeps
<1> QED
  BY <1>1, <1>2, <1>3 DEF TextKeeps

LEMMA ScreenStays ==
    ASSUME ChatInv, UNCHANGED <<host, shown>>
    PROVE  host' \in HostRecord /\ Screen' /\ UNCHANGED host
BY DEF ChatInv, Screen

LEMMA CallTextKeeps ==
    ASSUME ChatInv, NEW r \in Asks, NEW u \in Users, IsAsk(r, u), ~Impatient
    PROVE  TextKeeps
<1>1. /\ UNCHANGED <<host, shown>>
      /\ \E op \in CallOps, c \in Threads \cup {NoChat},
            pc \in {"life", "page", "throttle"} :
            Asking(r, u, op, c, pc) /\ Guarded(u, op, c, pc) /\ Enters(r, pc)
  BY AskGuards
<1>2. PICK op \in CallOps, c \in Threads \cup {NoChat},
           pc \in {"life", "page", "throttle"} :
           Asking(r, u, op, c, pc) /\ Guarded(u, op, c, pc) /\ Enters(r, pc)
  BY <1>1
<1> DEFINE x == Call(r, u, op, c, pc)
<1>3. /\ x \in AnyCall /\ x.pc = pc /\ x.op = op /\ x.user = u
      /\ x.chat = c /\ ~x.mine
      /\ ask' = [ask EXCEPT ![r] = x] /\ ask[r].pc = "idle"
      /\ ~LinkedIn => u = DeviceUser
  <2>1. pc \in AnyPc
    BY DEF AnyPc, Pc
  <2> QED
    BY <1>2, <2>1, CallAny
<1> HIDE DEF x
<1>4. ChatInv'
  BY <1>1, <1>2, <1>3, NewCallKeeps DEF Guarded
<1>5. LinkedIn /\ QueueInv /\ Paged => Paged'
  BY <1>2, <1>3, PageRoom, PagedKeeps DEF Guarded, Enters
<1>6. ~LinkedIn /\ DeviceInv => DeviceInv'
  <2> SUFFICES ASSUME ~LinkedIn, DeviceInv  PROVE DeviceInv'
    OBVIOUS
  <2>1. /\ life' \in Seq(Asks)
        /\ \A q \in Asks \ {r} : Holds(life, q) => Holds(life', q)
    BY <1>2, LifeRoom DEF DeviceInv, Enters
  <2>2. u = DeviceUser /\ op # "scan" /\ op # "none"
    BY <1>2, <1>3 DEF Guarded, CallOps
  <2>3. op = "send" => /\ host.st = "running"
                       /\ ~Busy(DeviceUser, {"open", "close", "stop"})
    BY <1>2, <2>2 DEF Guarded, EnsureRunning
  <2>4. op = "stop" => NoSends
    BY <1>2, <2>2 DEF Guarded, Busy, NoSends, Sends, DeviceInv
  <2> QED
    BY <1>1, <1>3, <2>1, <2>2, <2>3, <2>4, DeviceKeeps
<1> QED
  BY <1>4, <1>5, <1>6 DEF TextKeeps

\* The holder of the page is done with it.
LEMMA LeavesTextKeeps ==
    ASSUME ChatInv, NEW r \in Asks, Leaves(r), ask[r].pc = "page",
           Holds(pageQ, r), host' \in HostRecord, host'.st = host.st, Screen',
           host'.active = host.active \/ NoSends
    PROVE  TextKeeps
<1>1. pageQ' = Tail(pageQ) /\ UNCHANGED life
  BY DEF Leaves
<1>2. PageRuns(r) /\ LifeRuns(r)
  BY <1>1, PageRoom DEF PageRuns, LifeRuns
<1>3. CASE Answers(r)
  BY <1>2, <1>3, AnswersAny, MoveKeeps
<1>4. CASE ask[r].op = "stream" /\ Goes(r, "tick")
  <2> DEFINE x == [ask[r] EXCEPT !.pc = "tick"]
  <2>1. /\ x \in AnyCall /\ x.pc = "tick" /\ Same(r, x)
        /\ x.mine = ask[r].mine /\ ask' = [ask EXCEPT ![r] = x]
    BY <1>4, GoesAny DEF AnyPc, Pc
  <2>2. x.op # "send"
    BY <1>4, <2>1 DEF Same
  <2> HIDE DEF x
  <2>3. DeviceInv => ~x.mine
    BY <2>1 DEF DeviceInv
  <2> QED
    BY <1>2, <2>1, <2>2, <2>3, MoveKeeps
<1> QED
  BY <1>3, <1>4 DEF Leaves

LEMMA UseTextKeeps ==
    ASSUME ChatInv, Alone, NEW r \in Asks, ~PageFaults,
           \/ ListChats(r) \/ OpenChat(r) \/ RowGone(r) \/ OpenFails(r)
           \/ CloseChat(r) \/ ReadMessages(r) \/ ReadForStream(r)
           \/ SendMessage(r) \/ SendFails(r)
           \/ NoPage(r) /\ ~ask[r].mine
    PROVE  TextKeeps
<1>1. ask[r].pc = "page" /\ Holds(pageQ, r) /\ Leaves(r)
  BY DEF ListChats, OpenChat, RowGone, OpenFails, CloseChat, ReadMessages,
         ReadForStream, SendMessage, SendFails, NoPage, Using, Does
<1>2. CASE OpenChat(r)
  <2>1. NoSends
    BY <1>2 DEF OpenChat, Alone
  <2>2. /\ host' \in HostRecord /\ host'.st = host.st
        /\ host'.active = ask[r].chat /\ shown' = ask[r].chat
    BY <1>2, AnyFields DEF OpenChat, HostRecord, ChatInv
  <2>3. Screen'
    BY <2>2, AnyFields, ChatsAssumption DEF Screen
  <2> QED
    BY <1>1, <2>1, <2>2, <2>3, LeavesTextKeeps
<1>3. CASE CloseChat(r)
  <2>1. NoSends
    BY <1>3 DEF CloseChat, Alone
  <2>2. /\ host' \in HostRecord /\ host'.st = host.st
        /\ host'.active = NoChat /\ shown' = shown
    BY <1>3, AnyFields DEF CloseChat, HostRecord, ChatInv
  <2>3. Screen'
    BY <2>2 DEF Screen, ChatInv
  <2> QED
    BY <1>1, <2>1, <2>2, <2>3, LeavesTextKeeps
<1>4. CASE ~OpenChat(r) /\ ~CloseChat(r)
  <2>1. UNCHANGED <<host, shown>>
    BY <1>4 DEF ListChats, Listed, RowGone, OpenFails, ReadMessages,
       ReadForStream, SendMessage, SendFails, NoPage, ChatInv, Screen
  <2> QED
    BY <1>1, <2>1, ScreenStays, LeavesTextKeeps
<1> QED
  BY <1>2, <1>3, <1>4

LEMMA ProfileTextKeeps ==
    ASSUME ChatInv, NEW r \in Asks, ~PageFaults,
           VisitProfile(r) \/ RestorePage(r) \/ (NoPage(r) /\ ask[r].mine)
    PROVE  TextKeeps
<1>1. UNCHANGED <<host, shown>>
  BY DEF VisitProfile, RestorePage, Restored, NoPage
<1>2. host' \in HostRecord /\ Screen' /\ UNCHANGED host
  BY <1>1, ScreenStays
<1>3. CASE VisitProfile(r)
  <2> DEFINE x == [ask[r] EXCEPT !.pc = "visiting"]
  <2>1. /\ x \in AnyCall /\ x.pc = "visiting" /\ Same(r, x)
        /\ ask' = [ask EXCEPT ![r] = x]
    BY <1>3, GoesAny DEF AnyPc, Pc, VisitProfile
  <2>2. ask[r].op = "scan" /\ ask[r].pc = "page"
    BY <1>3 DEF VisitProfile, Using, Does
  <2>3. x.op # "send" /\ ~DeviceInv
    BY <2>1, <2>2 DEF Same, DeviceInv
  <2> HIDE DEF x
  <2>4. PageRuns(r) /\ LifeRuns(r)
    BY <1>3, PageRoom DEF VisitProfile, LocksStay, PageRuns, LifeRuns
  <2> QED
    BY <1>2, <2>1, <2>2, <2>3, <2>4, MoveKeeps
<1>4. ASSUME RestorePage(r) \/ (NoPage(r) /\ ask[r].mine)  PROVE TextKeeps
  <2>1. /\ ask[r].pc \in {"page", "visiting"} /\ pageQ' = Tail(pageQ)
        /\ QueueInv => Holds(pageQ, r)
    BY <1>4 DEF RestorePage, NoPage, Does, QueueInv, Waiting
  <2>2. PageRuns(r)
    BY <2>1, PageRoom DEF PageRuns
  <2>3. CASE Answers(r) /\ UNCHANGED life
    BY <1>2, <2>1, <2>2, <2>3, AnswersAny, MoveKeeps DEF LifeRuns
  <2>4. CASE ask[r].mine /\ ask' = [ask EXCEPT ![r] = ToStop(r)]
    <3>1. ToStop(r) \in AnyCall /\ ToStop(r).pc = "life"
          /\ ToStop(r).op = "stop"
      BY ToStopAny
    <3>2. ChatInv'
      BY <1>2, <2>4, <3>1, GoingOnKeeps
    <3>3. LinkedIn /\ QueueInv /\ Paged => Paged'
      BY <2>2, <2>4, <3>1, PagedKeeps DEF PageRuns
    <3>4. ~DeviceInv
      BY <2>4 DEF DeviceInv
    <3> QED
      BY <3>2, <3>3, <3>4 DEF TextKeeps
  <2> QED
    BY <1>4, <2>3, <2>4 DEF RestorePage, NoPage, ToStop
<1> QED
  BY <1>3, <1>4

LEMMA WaitTextKeeps ==
    ASSUME ChatInv, NEW r \in Asks,
           Throttled(r) \/ StreamTicks(r) \/ StreamEnds(r)
    PROVE  TextKeeps
<1>1. host' \in HostRecord /\ Screen' /\ UNCHANGED <<host, life>>
  BY ScreenStays DEF Throttled, StreamTicks, StreamEnds, LocksStay
<1>2. LifeRuns(r)
  BY <1>1 DEF LifeRuns
<1>3. CASE Throttled(r)
  <2> DEFINE x == [ask[r] EXCEPT !.pc = "page"]
  <2>1. /\ x \in AnyCall /\ x.pc = "page" /\ Same(r, x)
        /\ x.mine = ask[r].mine /\ ask' = [ask EXCEPT ![r] = x]
    BY <1>3, GoesAny DEF AnyPc, Pc, Throttled
  <2> HIDE DEF x
  <2>2. ask[r].pc = "throttle" /\ pageQ' = Append(pageQ, r)
    BY <1>3 DEF Throttled, Does
  <2>3. PageRuns(r) /\ (QueueInv => r \in Members(pageQ'))
    BY <2>2, PageRoom DEF PageRuns
  <2>4. DeviceInv => ~x.mine
    BY <2>1 DEF DeviceInv
  <2> QED
    BY <1>1, <1>2, <2>1, <2>2, <2>3, <2>4, MoveKeeps
<1>4. CASE StreamTicks(r)
  <2>1. /\ ask[r].pc = "tick" /\ pageQ' = Append(pageQ, r)
        /\ host.st = "running" /\ ask' = [ask EXCEPT ![r] = ToRead(r)]
    BY <1>4 DEF StreamTicks, EnsureRunning, Does, ToRead
  <2>2. /\ ToRead(r) \in AnyCall /\ ToRead(r).pc = "page"
        /\ ToRead(r).mine = ask[r].mine /\ Same(r, ToRead(r))
    BY <2>1, ToReadAny DEF Same, ChatInv, Sends
  <2>3. PageRuns(r) /\ (QueueInv => r \in Members(pageQ'))
    BY <2>1, PageRoom DEF PageRuns
  <2>4. DeviceInv => ~ToRead(r).mine
    BY <2>2 DEF DeviceInv
  <2> QED
    BY <1>1, <1>2, <2>1, <2>2, <2>3, <2>4, MoveKeeps
<1>5. CASE StreamEnds(r)
  <2>1. ask[r].pc = "tick" /\ UNCHANGED pageQ /\ Answers(r)
    BY <1>5 DEF StreamEnds, Does, LocksStay
  <2>2. PageRuns(r)
    BY <2>1, PageRoom DEF PageRuns
  <2> QED
    BY <1>1, <1>2, <2>1, <2>2, AnswersAny, MoveKeeps
<1> QED
  BY <1>3, <1>4, <1>5

\* Starting and stopping.
LEMMA AlreadyTextKeeps ==
    ASSUME ChatInv, NEW r \in Asks, AlreadyRuns(r)
    PROVE  TextKeeps
<1>1. /\ ask[r].pc = "life" /\ Holds(life, r) /\ life' = Tail(life)
      /\ UNCHANGED <<host, shown>>
  BY DEF AlreadyRuns, Does, Started, NotStarted
<1>2. LifeRuns(r)
  BY <1>1, LifeRoom DEF LifeRuns
<1>3. host' \in HostRecord /\ Screen' /\ UNCHANGED host
  BY <1>1, ScreenStays
<1>4. CASE Answers(r) /\ UNCHANGED pageQ
  <2>1. PageRuns(r)
    BY <1>4, PageRoom DEF PageRuns
  <2> QED
    BY <1>1, <1>2, <1>3, <1>4, <2>1, AnswersAny, MoveKeeps
<1>5. CASE /\ ask[r].op = "scan" /\ ask' = [ask EXCEPT ![r] = ToPage(r)]
           /\ pageQ' = Append(pageQ, r)
  <2>1. PageRuns(r) /\ (QueueInv => r \in Members(pageQ'))
    BY <1>5, PageRoom DEF PageRuns
  <2>2. ~DeviceInv
    BY <1>5 DEF DeviceInv
  <2> QED
    BY <1>1, <1>2, <1>3, <1>5, <2>1, <2>2, ToPageAny, MoveKeeps
<1> QED
  BY <1>4, <1>5 DEF AlreadyRuns, Started, NotStarted, ToPage

LEMMA ClaimsTextKeeps ==
    ASSUME ChatInv, NEW r \in Asks, Claims(r) \/ StopBegins(r)
    PROVE  TextKeeps
<1> DEFINE pc == IF Claims(r) THEN "launch" ELSE "closing"
           x == [ask[r] EXCEPT !.pc = pc]
<1>1. Goes(r, pc) /\ ask[r].pc = "life" /\ Holds(life, r) /\ UNCHANGED life
  BY DEF Claims, StopBegins, LocksStay, Does
<1>2. pc \in AnyPc /\ pc \in {"launch", "closing"}
  BY DEF AnyPc, Pc
<1>3. pc = "launch" => Claims(r)
  OBVIOUS
<1>4. pc = "closing" => StopBegins(r)
  OBVIOUS
<1> HIDE DEF pc
<1>5. /\ x \in AnyCall /\ x.pc = pc /\ Same(r, x) /\ x.mine = ask[r].mine
      /\ ask' = [ask EXCEPT ![r] = x]
  BY <1>1, <1>2, GoesAny
<1> HIDE DEF x
<1>6. /\ host' \in HostRecord /\ host'.active = host.active
      /\ UNCHANGED shown
      /\ host'.st # "running" \/ host'.st = host.st
      /\ pc = "launch" => host'.st = "starting" /\ host.st # "running"
      /\ pc = "closing" => ask[r].op = "stop"
                           /\ (~LinkedIn => host'.st = host.st)
  BY <1>2, <1>3, <1>4, AnyFields
  DEF Claims, StopBegins, Stopping, ChatInv, HostRecord
<1>7. Screen'
  BY <1>6 DEF Screen, ChatInv
<1>8. ChatInv'
  BY <1>5, <1>6, <1>7, GoingOnKeeps
<1>9. QueueInv => Members(pageQ) \subseteq Members(pageQ')
  BY <1>2, <1>3, <1>4, PageRoom DEF Claims, StopBegins, LocksStay
<1>10. LinkedIn /\ QueueInv /\ Paged => Paged'
  <2>1. Paged => x.op # "send" /\ x.pc # "page"
    BY <1>1, <1>2, <1>5 DEF Paged, Same, Sends
  <2> QED
    BY <1>5, <1>9, <2>1, PagedKeeps
<1>11. ~LinkedIn /\ DeviceInv => DeviceInv'
  <2> SUFFICES ASSUME ~LinkedIn, DeviceInv  PROVE DeviceInv'
    OBVIOUS
  <2>1. /\ ask'[r] = x /\ \A q \in Asks \ {r} : ask'[q] = ask[q]
    BY <1>5, WritesAny
  <2>2. \A q \in Asks \ {r} : ask[q].pc \notin {"launch", "closing"}
    BY <1>1, LifeRoom DEF DeviceInv
  <2>3. /\ x.op # "none" => x.user = DeviceUser
        /\ x.op # "scan" /\ ~x.mine
        /\ x.op = "send" <=> Sends(r)
    BY <1>5 DEF DeviceInv, Same, Sends
  <2>4. \A q \in Asks : Sends(q)' => /\ Sends(q) /\ host'.st = "running"
    BY <1>2, <1>6, <2>1, <2>3 DEF DeviceInv, Sends
  <2>5. \A q \in Asks : ask'[q].op = ask[q].op
    BY <1>5, <2>1 DEF Same
  <2>6. x.pc = "closing" => x.op = "stop"
    BY <1>5, <1>6 DEF Same
  <2>7. x.pc = "launch" => host'.st = "starting"
    BY <1>5, <1>6
  <2>8. x.pc # "visiting" /\ Holds(life', r)
    BY <1>1, <1>2, <1>5
  <2> QED
    BY <1>1, <2>1, <2>2, <2>3, <2>4, <2>5, <2>6, <2>7, <2>8 DEF DeviceInv
<1> QED
  BY <1>8, <1>10, <1>11 DEF TextKeeps

LEMMA DeviceEnds ==
    ASSUME ChatInv, DeviceInv, NEW r \in Asks, Answers(r),
           ask[r].pc \in {"launch", "closing"}, life' = Tail(life), NoSends
    PROVE  DeviceInv'
<1>1. /\ NoAsk.pc = "idle" /\ NoAsk.op = "none" /\ ~NoAsk.mine
      /\ ask'[r] = NoAsk /\ \A q \in Asks \ {r} : ask'[q] = ask[q]
  BY AnswersAny, WritesAny
<1>2. Holds(life, r) /\ life \in Seq(Asks)
  BY DEF DeviceInv
<1>3. /\ life' \in Seq(Asks)
      /\ \A q \in Asks \ {r} : ask[q].pc \notin {"launch", "closing"}
  BY <1>2, LifeRoom DEF DeviceInv
<1>4. \A q \in Asks : ~Sends(q)'
  BY <1>1 DEF NoSends, Sends
<1> QED
  BY <1>1, <1>3, <1>4 DEF DeviceInv

LEMMA LaunchTextKeeps ==
    ASSUME ChatInv, Fresh, NEW r \in Asks, Launches(r) \/ BrowserFails(r)
    PROVE  TextKeeps
<1>1. ask[r].pc = "launch" /\ life' = Tail(life) /\ NoSends
  BY DEF Launches, BrowserFails, Does, Started, NotStarted, Fresh
<1>2. host' \in HostRecord /\ host'.active = NoChat
  BY DEF Launches, BrowserFails, ChatInv, HostRecord, Idle
<1>3. shown' \in Threads \cup {NoChat}
  BY DEF Launches, BrowserFails
<1>4. Screen'
  BY <1>2, <1>3, ChatsAssumption DEF Screen
<1>5. CASE Answers(r) /\ UNCHANGED pageQ
  <2>1. NoAsk \in AnyCall /\ NoAsk.op = "none" /\ NoAsk.pc = "idle"
        /\ ask' = [ask EXCEPT ![r] = NoAsk]
    BY <1>5, AnswersAny
  <2>2. ChatInv'
    BY <1>1, <1>2, <1>4, <2>1, GoingOnKeeps
  <2>3. LinkedIn /\ QueueInv /\ Paged => Paged'
    BY <1>5, <2>1, PageRoom, PagedKeeps
  <2> QED
    BY <1>1, <1>5, <2>2, <2>3, DeviceEnds DEF TextKeeps
<1>6. CASE /\ ask[r].op = "scan" /\ ask' = [ask EXCEPT ![r] = ToPage(r)]
           /\ pageQ' = Append(pageQ, r)
  <2>1. ToPage(r) \in AnyCall /\ ToPage(r).pc = "page" /\ Same(r, ToPage(r))
    BY ToPageAny
  <2>2. ChatInv'
    BY <1>1, <1>2, <1>4, <1>6, <2>1, GoingOnKeeps
  <2>3. LinkedIn /\ QueueInv /\ Paged => Paged'
    BY <1>6, <2>1, PageRoom, PagedKeeps
  <2>4. ~DeviceInv
    BY <1>6 DEF DeviceInv
  <2> QED
    BY <2>2, <2>3, <2>4 DEF TextKeeps
<1> QED
  BY <1>5, <1>6 DEF Launches, BrowserFails, Started, NotStarted, ToPage

LEMMA StopEndsTextKeeps ==
    ASSUME ChatInv, NEW r \in Asks, StopEnds(r)
    PROVE  TextKeeps
<1>1. /\ ask[r].pc = "closing" /\ Holds(pageQ, r) /\ Answers(r)
      /\ pageQ' = Tail(pageQ) /\ life' = Tail(life)
  BY DEF StopEnds, Does
<1>2. /\ host' \in HostRecord /\ host'.active = NoChat /\ shown' = NoChat
      /\ host'.st # "running"
  BY DEF StopEnds, Idle, HostRecord
<1>3. Screen'
  BY <1>2, ChatsAssumption DEF Screen
<1>4. NoAsk \in AnyCall /\ NoAsk.op = "none" /\ NoAsk.pc = "idle"
      /\ ask' = [ask EXCEPT ![r] = NoAsk]
  BY <1>1, AnswersAny
<1>5. ChatInv'
  BY <1>2, <1>3, <1>4, GoingOnKeeps
<1>6. LinkedIn /\ QueueInv /\ Paged => Paged'
  BY <1>1, <1>4, PageRoom, PagedKeeps
<1>7. DeviceInv => NoSends
  BY <1>1 DEF DeviceInv, NoSends
<1> QED
  BY <1>1, <1>5, <1>6, <1>7, DeviceEnds DEF TextKeeps

LEMMA TextStep ==
    ASSUME TextInv, [LiveNext]_liveVars, ~Impatient, ~PageFaults
    PROVE  TextInv'
<1>1. ChatInv /\ Fresh /\ Alone
  BY TextIsSafe DEF TextInv
<1>2. ASSUME NEW r \in Asks, NEW u \in Users, IsAsk(r, u)  PROVE TextKeeps
  BY <1>1, <1>2, CallTextKeeps
<1>3. ASSUME NEW r \in Asks,
             \/ AlreadyRuns(r) \/ Claims(r) \/ Launches(r) \/ BrowserFails(r)
             \/ StopBegins(r) \/ StopEnds(r)
      PROVE  TextKeeps
  BY <1>1, <1>3, AlreadyTextKeeps, ClaimsTextKeeps, LaunchTextKeeps,
     StopEndsTextKeeps
<1>4. ASSUME NEW r \in Asks,
             \/ ListChats(r) \/ OpenChat(r) \/ RowGone(r) \/ OpenFails(r)
             \/ CloseChat(r) \/ ReadMessages(r) \/ ReadForStream(r)
             \/ SendMessage(r) \/ SendFails(r) \/ NoPage(r)
             \/ VisitProfile(r) \/ RestorePage(r)
      PROVE  TextKeeps
  <2>1. CASE VisitProfile(r) \/ RestorePage(r) \/ (NoPage(r) /\ ask[r].mine)
    BY <1>1, <2>1, ProfileTextKeeps
  <2>2. CASE ~(VisitProfile(r) \/ RestorePage(r) \/ (NoPage(r) /\ ask[r].mine))
    BY <1>1, <1>4, <2>2, UseTextKeeps
  <2> QED
    BY <2>1, <2>2
<1>5. ASSUME NEW r \in Asks, Throttled(r) \/ StreamTicks(r) \/ StreamEnds(r)
      PROVE  TextKeeps
  BY <1>1, <1>5, WaitTextKeeps
<1>6. CASE UNCHANGED liveVars
  BY <1>6 DEF liveVars, TextInv, ChatInv, Screen, Apart, Sends, QueueInv,
     QueueTypes, Waiting, Changing, Serving, Paged, DeviceInv, LinkedIn
<1>7. ASSUME TextKeeps  PROVE TextInv'
  BY <1>7, QueueStep, SameSite DEF TextKeeps, TextInv, LinkedIn
<1> QED
  BY <1>2, <1>3, <1>4, <1>5, <1>6, <1>7 DEF LiveNext, IsAsk

LEMMA TextStart == LiveInit => TextInv
<1> SUFFICES ASSUME LiveInit  PROVE TextInv
  OBVIOUS
<1>1. /\ NoAsk \in AnyCall /\ Idle \in HostRecord /\ NoAsk.op = "none"
      /\ NoAsk.pc = "idle" /\ ~NoAsk.mine
  BY DEF NoAsk, AnyCall, AnyPc, Pc, Idle, HostRecord
<1>2. \A r \in Asks : ask[r] = NoAsk
  BY DEF LiveInit
<1>3. ChatInv
  BY <1>1, <1>2, ChatsAssumption
  DEF LiveInit, ChatInv, Screen, Apart, Sends, Idle
<1>4. QueueInv
  BY EmptyQueue
     DEF LiveInit, QueueInv, QueueTypes, Waiting, Changing, Serving, Idle,
         NoAsk, AskRecord, HostRecord, Pc
<1>5. Paged
  BY <1>1, <1>2 DEF Paged, Sends
<1>6. DeviceInv
  BY <1>1, <1>2, EmptyQueue DEF LiveInit, DeviceInv, Sends
<1> QED
  BY <1>3, <1>4, <1>5, <1>6 DEF TextInv

\* A text lands in the chat that was open when its user sent it, for any
\* number of users, calls and chats: a LinkedIn text waits in a queue that is
\* empty before another browser comes up, a WhatsApp text in one that nobody
\* stops.  The user must not switch chats meanwhile (~Impatient), and the page
\* must follow its clicks (~PageFaults).
THEOREM TextStaysInChatCorrect ==
    ASSUME ~Impatient, ~PageFaults
    PROVE  LiveSpec => TextStaysInChat
<1>1. TextInv /\ [LiveNext]_liveVars => TextInv'
  BY TextStep
<1>2. TextInv => \A r \in Asks : SendMessage(r) => shown = ask[r].chat
  BY DEF TextInv, ChatInv, SendMessage, Using, Sends, Screen
<1> QED
  BY <1>1, <1>2, TextStart, PTL DEF LiveSpec, TextStaysInChat
=============================================================================
