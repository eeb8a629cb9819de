---------------------------- MODULE AccountErasure ----------------------------
(***************************************************************************)
(* The erasure of a user's account (api/v1/user_data.py): a mailed link    *)
(* starts one transaction that deletes some twenty tables statement by     *)
(* statement, while the user's other requests and the workers go on        *)
(* inserting rows; and the administrator's deletion (api/v1/users.py).     *)
(* Foreign keys are those of models/: a row's deletion takes its rows      *)
(* along ("cascade") or is refused while they are there ("restrict").      *)
(***************************************************************************)
EXTENDS Integers, FiniteSets, Sequences

CONSTANTS Links,          \* ids of mailed links
          MaxInserts,     \* bound: rows inserted while the erasure runs
          MaxUsers        \* bound: times the address is registered

ASSUME ErasureAssumption == MaxInserts \in Nat /\ MaxUsers \in Nat

Owned == {"account", "device", "filter", "post", "connection", "role", "chat",
          "mailbox", "target"}
Tables == Owned \cup {"user", "campaign", "step", "lead", "job", "feedjob",
                      "result", "feedlead", "applied", "message", "group",
                      "forward", "outcome", "turn"}

\* The foreign keys, a table and the one it refers to.
CascadeKeys ==
    ((Owned \cup {"feedjob", "outcome"}) \X {"user"})
        \cup ({"step", "lead"} \X {"campaign"})
        \cup ({"result", "feedlead", "applied"} \X {"feedjob"})
        \cup ({"message", "group", "forward"} \X {"filter"})
        \cup {<<"outcome", "post">>, <<"turn", "chat">>}
RestrictKeys ==
    {<<"campaign", "account">>, <<"feedjob", "account">>, <<"job", "campaign">>,
     <<"job", "lead">>}
Parents(t) == {p \in Tables : <<t, p>> \in CascadeKeys \cup RestrictKeys}

VARIABLES records,   \* the rows of the current user: an early one per table,
                     \* and those inserted under an erasure
          videos,    \* the posts whose video is on disk
          profiles,  \* the browser profiles on disk, by the user they serve
          mailed,    \* the links mailed, by the user who asked for them
          valid,     \* links with a row in their table
          users,     \* how often the address was registered
          wipe,      \* the erasure under way
          inserts,
          lapses     \* what has happened that the erasure does not provide
                     \* for: "admin", "commit" or "link"; bound: one of them
erasureVars ==
    <<records, videos, profiles, mailed, valid, users, wipe, inserts, lapses>>

\* A row is named by its table and whether it came late; "of" are its parents.
ErasedRow(t, late, of) == [t |-> t, late |-> late, of |-> of]
Name(r) == <<r.t, r.late>>
Early(t) == ErasedRow(t, FALSE, Parents(t) \X {FALSE})
NoWipe == [pc |-> 0, link |-> CHOOSE l \in Links : TRUE, found |-> {},
           files |-> {}, gone |-> {}, links |-> {}]

ErasureInit ==
    /\ records = {Early(t) : t \in Tables}
    /\ videos = {<<"post", FALSE>>}
    /\ profiles = {1} \X {"account", "device"}
    /\ mailed = [l \in Links |-> 0]
    /\ valid = {}
    /\ users = 1
    /\ wipe = NoWipe
    /\ inserts = 0 /\ lapses = {}

In(t)  == {r \in records : r.t = t}
Here   == In("user") # {}
Names(S) == {Name(r) : r \in S}

-----------------------------------------------------------------------------
(* What a DELETE does.                                                     *)

Children(S, keys) ==
    {r \in records : \E p \in Names(S) \cap r.of : <<r.t, p[1]>> \in keys}
Taken(S) == LET A == S \cup Children(S, CascadeKeys)
            IN A \cup Children(A, CascadeKeys)
Refused(S) == Children(Taken(S), RestrictKeys) \ Taken(S) # {}

-----------------------------------------------------------------------------
(* Requests and workers.                                                   *)

\* register: the address is free again once the user is gone.
Registers ==
    /\ ~Here /\ wipe.pc = 0 /\ users < MaxUsers
    /\ users' = users + 1
    /\ records' = {Early(t) : t \in {"user", "account", "device", "post"}}
    /\ videos' = {<<"post", FALSE>>}
    /\ profiles' = profiles \cup ({users'} \X {"account", "device"})
    /\ UNCHANGED <<mailed, valid, wipe, inserts, lapses>>

\* forgot_password and request_account_deletion: neither row has a foreign
\* key.
RequestLink(l) ==
    /\ mailed[l] = 0
    /\ Here \/ wipe.gone # {}
    /\ mailed' = [mailed EXCEPT ![l] = users]
    /\ valid' = valid \cup {l}
    /\ wipe.pc = 0 \/ lapses \subseteq {"link"}
    /\ lapses' = IF wipe.pc = 0 THEN lapses ELSE {"link"}
    /\ UNCHANGED <<records, videos, profiles, users, wipe, inserts>>

LinkExpires(l) ==
    /\ l \in valid /\ wipe.pc = 0
    /\ valid' = valid \ {l}
    /\ UNCHANGED <<records, videos, profiles, mailed, users, wipe, inserts,
                   lapses>>

\* Rows come in under an erasure as long as their parents are there: the
\* deleted ones are locked, and a row for them waits and is refused.
Insert(t) ==
    /\ wipe.pc # 0 /\ inserts < MaxInserts
    /\ t # "user" /\ <<t, TRUE>> \notin Names(records \cup wipe.gone)
    /\ \E of \in SUBSET (Names(records) \cap (Parents(t) \X BOOLEAN)) :
         /\ \A p \in Parents(t) : Cardinality({n \in of : n[1] = p}) = 1
         /\ records' = records \cup {ErasedRow(t, TRUE, of)}
    /\ videos' = IF t = "post" THEN videos \cup {<<t, TRUE>>} ELSE videos
    /\ inserts' = inserts + 1
    /\ UNCHANGED <<profiles, mailed, valid, users, wipe, lapses>>

-----------------------------------------------------------------------------
(* confirm_account_deletion and _delete_user_and_data.                     *)

Find(kind) == <<"find", kind>>
Del(t)  == <<"owner", t>>     \* all rows of the owner
DelBy(t) == <<"found", t>>    \* the rows under what was found

Statements ==
    <<Find("jobs"), DelBy("job"), DelBy("step"), DelBy("lead"),
      DelBy("campaign"), DelBy("result"), Del("feedlead"), Del("applied"),
      DelBy("feedjob"), Del("account"), Find("filters"), DelBy("message"),
      DelBy("group"), DelBy("forward"), DelBy("filter"), Del("device"),
      Find("videos"), Del("outcome"), Del("post"), Del("connection"),
      Del("role"), Find("links"), Del("user"), Find("files")>>
LastStatement == Len(Statements)

ErasureFrame == UNCHANGED <<profiles, mailed, users, inserts>>

ConfirmErasure(l) ==
    /\ wipe.pc = 0 /\ l \in valid
    /\ wipe' = [NoWipe EXCEPT !.pc = 1, !.link = l]
    /\ UNCHANGED <<records, videos, valid, lapses>> /\ ErasureFrame

Statement == Statements[wipe.pc]
Runs(op, what) == wipe.pc \in 1..LastStatement /\ Statement = <<op, what>>
Advance(w) == wipe' = [w EXCEPT !.pc = @ + 1]

FindsRows ==
    \E kind \in {"jobs", "filters", "videos"} :
      /\ Runs("find", kind)
      /\ Advance(CASE kind = "jobs" ->
                     [wipe EXCEPT !.found =
                         Names(In("campaign") \cup In("feedjob"))]
                   [] kind = "filters" ->
                     [wipe EXCEPT !.found = @ \cup Names(In("filter"))]
                   [] kind = "videos" ->
                     [wipe EXCEPT !.files = Names(In("post"))])
      /\ UNCHANGED <<records, videos, valid, lapses>> /\ ErasureFrame

\* Everything is rolled back; a file that was removed stays removed.
Rollback ==
    /\ records' = records \cup wipe.gone
    /\ valid' = valid \cup wipe.links
    /\ wipe' = NoWipe
    /\ UNCHANGED videos /\ ErasureFrame

Targets ==
    LET t == Statement[2] IN
    IF Statement[1] = "owner" THEN In(t)
    ELSE {r \in In(t) : Name(r) \in wipe.found \/ r.of \cap wipe.found # {}}

DeletesRows ==
    /\ wipe.pc \in 1..LastStatement /\ Statement[1] # "find"
    /\ IF Refused(Targets) THEN Rollback /\ UNCHANGED lapses
       ELSE /\ records' = records \ Taken(Targets)
            /\ Advance([wipe EXCEPT !.gone = @ \cup Taken(Targets)])
            /\ UNCHANGED <<videos, valid, lapses>> /\ ErasureFrame

\* The one-time links of the address, reset and erasure alike.
MutSpentLinks == valid \cap {wipe.link}
SpentLinks == valid

DeletesLinks ==
    /\ Runs("find", "links")
    /\ valid' = valid \ SpentLinks
    /\ Advance([wipe EXCEPT !.links = SpentLinks])
    /\ UNCHANGED <<records, videos, lapses>> /\ ErasureFrame

\* The files go before the commit.  Browser profiles stay on disk.
RemovesFiles ==
    /\ Runs("find", "files")
    /\ videos' = videos \ wipe.files
    /\ Advance(wipe)
    /\ UNCHANGED <<records, valid, lapses>> /\ ErasureFrame

CommitsErasure ==
    /\ wipe.pc = LastStatement + 1
    /\ wipe' = NoWipe
    /\ UNCHANGED <<records, videos, valid, lapses>> /\ ErasureFrame

ErasureCommitFails ==
    /\ wipe.pc = LastStatement + 1
    /\ lapses = {} /\ lapses' = {"commit"}
    /\ Rollback

\* delete_user: one DELETE, which a campaign or feed job of his refuses.
AdminDeletesUser ==
    /\ wipe.pc = 0 /\ Here
    /\ ~Refused(In("user"))
    /\ records' = records \ Taken(In("user"))
    /\ lapses = {} /\ lapses' = {"admin"}
    /\ UNCHANGED <<videos, profiles, mailed, valid, users, wipe, inserts>>

ErasureNext ==
    \/ Registers \/ FindsRows \/ DeletesRows \/ DeletesLinks \/ RemovesFiles
    \/ CommitsErasure \/ ErasureCommitFails \/ AdminDeletesUser
    \/ \E l \in Links : RequestLink(l) \/ LinkExpires(l) \/ ConfirmErasure(l)
    \/ \E t \in Tables : Insert(t)

ErasureSpec == ErasureInit /\ [][ErasureNext]_erasureVars

-----------------------------------------------------------------------------
(* Properties *)

ErasureTypeOK ==
    /\ \A r \in records : r.t \in Tables /\ r.late \in BOOLEAN
    /\ valid \subseteq Links /\ mailed \in [Links -> 0..MaxUsers]
    /\ wipe.pc \in 0..(LastStatement + 1)

\* "The caller commits once so the whole wipe is atomic": between erasures
\* there is the account with the video of every post, or nothing of it, not a
\* row, not the video of a post the erasure found, not a link that could reset
\* or erase the account that is registered next; whatever was inserted while
\* the statements ran.  The rows need no proviso.  A commit that fails has
\* lost the videos, the administrator's deletion leaves videos and links, and
\* a link requested under an erasure outlives it.
ErasedMeansAll ==
    wipe.pc = 0 =>
        /\ ~Here => records = {}
        /\ lapses \cap {"commit", "admin"} = {} =>
               /\ ~Here => <<"post", FALSE>> \notin videos
               /\ Names(In("post")) \subseteq videos
        /\ lapses \cap {"link", "admin"} = {} =>
               \A l \in valid : Here /\ mailed[l] = users

\* "Your account and all associated data have been deleted."  Not so: the
\* browser profiles, which hold signed-in sessions, stay on disk.
EverythingErased == wipe.pc = 0 => \A p \in profiles : Here /\ p[1] = users
=============================================================================
