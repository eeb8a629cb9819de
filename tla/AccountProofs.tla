----------------------------- MODULE AccountProofs -----------------------------
(* Theorems about UserSessions, for every length of a session, of a token   *)
(* and of a code, and about AccountErasure, for any number of links,        *)
(* inserted rows and registrations.                                         *)
EXTENDS UserSessions, AccountErasure, FiniteSetTheorems, TLAPS

-----------------------------------------------------------------------------
(* How long a session lives.                                               *)

\* A token carries the deadline of its login and dies no later; a refresh
\* token dies earlier than that only by its own length, counted from the
\* login or a later renewal.
Carries(t) ==
    /\ t.kind \in {"access", "refresh"}
    /\ t.login \in Nat /\ t.dies \in Nat
    /\ t.deadline = t.login + Session
    /\ t.dies <= t.deadline
    /\ t.kind = "refresh" => t.login + EarlierOf(Session, Refresh) <= t.dies

\* ... and was made before now.
SessionInv ==
    now \in Nat /\ \A t \in tokens : Carries(t) /\ t.login <= now

LEMMA MintedCarries ==
    ASSUME now \in Nat, NEW login \in Nat, login <= now,
           NEW t \in Minted(login + Session, login)
    PROVE  Carries(t) /\ t.login <= now
<1>1. Session \in Nat /\ Access \in Nat /\ Refresh \in Nat
  BY SessionAssumption
<1>2. CASE t = [kind |-> "access", dies |-> EarlierOf(now + Access, login + Session),
                deadline |-> login + Session, login |-> login]
  BY <1>1, <1>2 DEF Carries, EarlierOf
<1>3. CASE t = [kind |-> "refresh", dies |-> EarlierOf(now + Refresh, login + Session),
                deadline |-> login + Session, login |-> login]
  BY <1>1, <1>3 DEF Carries, EarlierOf
<1> QED
  BY <1>2, <1>3 DEF Minted

LEMMA SessionStep == SessionInv /\ [AuthNext]_authVars => SessionInv'
<1> SUFFICES ASSUME SessionInv, [AuthNext]_authVars  PROVE SessionInv'
  OBVIOUS
<1>1. ASSUME UNCHANGED <<tokens, now>>  PROVE SessionInv'
  BY <1>1 DEF SessionInv
<1>2. CASE Register \/ ResendVerification \/ PatchUser \/ ForgotPassword
           \/ ResetPassword \/ ResetExpires \/ MemberGoes
  BY <1>1, <1>2
     DEF Register, ResendVerification, PatchUser, ForgotPassword,
         ResetPassword, ResetExpires, MemberGoes
<1>3. ASSUME NEW code \in Codes, VerifyEmail(code)  PROVE SessionInv'
  BY <1>1, <1>3 DEF VerifyEmail
<1>4. ASSUME NEW password \in 0..MaxAuthCalls, Login(password)
      PROVE  SessionInv'
  <2>1. tokens' = tokens \cup Minted(now + Session, now) /\ UNCHANGED now
    BY <1>4 DEF Login
  <2>2. now \in Nat /\ now <= now
    BY DEF SessionInv
  <2> QED
    BY <2>1, <2>2, MintedCarries DEF SessionInv
<1>5. ASSUME NEW t \in tokens, RefreshToken(t)  PROVE SessionInv'
  <2>1. tokens' = tokens \cup Minted(t.login + Session, t.login)
        /\ UNCHANGED now
    BY <1>5 DEF RefreshToken, DeadlineOf, SessionInv, Carries
  <2>2. now \in Nat /\ t.login \in Nat /\ t.login <= now
    BY DEF SessionInv, Carries
  <2> QED
    BY <2>1, <2>2, MintedCarries DEF SessionInv
<1>6. CASE AuthTicks
  BY <1>6 DEF AuthTicks, SessionInv, Carries
<1>7. CASE UNCHANGED authVars
  BY <1>1, <1>7 DEF authVars
<1> QED
  BY <1>2, <1>3, <1>4, <1>5, <1>6, <1>7 DEF AuthNext

LEMMA SessionMeansOnTime == SessionInv => SessionsEndOnTime
<1> SUFFICES ASSUME SessionInv, NEW t \in tokens
             PROVE  /\ Serves(t) => now < t.login + Session
                    /\ now < t.login + EarlierOf(Session, Refresh)
                         /\ t.kind = "refresh" => Live(t)
  BY DEF SessionsEndOnTime
<1>1. Carries(t) /\ now \in Nat /\ Session \in Nat /\ Refresh \in Nat
  BY SessionAssumption DEF SessionInv
<1>2. Serves(t) => now < t.login + Session
  BY <1>1 DEF Serves, Live, Carries
<1>3. EarlierOf(Session, Refresh) \in Nat
  BY <1>1 DEF EarlierOf
<1>4. now < t.login + EarlierOf(Session, Refresh) /\ t.kind = "refresh" => Live(t)
  BY <1>1, <1>3 DEF Live, Carries
<1> QED
  BY <1>2, <1>4

\* However often a session is renewed, and whoever's password, address or
\* account changes meanwhile, it ends when Session has passed since the login,
\* and no earlier than its own tokens make it.
THEOREM SessionsEndOnTimeCorrect == AuthSpec => []SessionsEndOnTime
<1>1. AuthInit => SessionInv
  BY DEF AuthInit, SessionInv
<1> QED
  BY <1>1, SessionStep, SessionMeansOnTime, PTL DEF AuthSpec

-----------------------------------------------------------------------------
(* The rows of an account under its erasure.                               *)


RowNames == Tables \X BOOLEAN
RowSet == [t : Tables, late : BOOLEAN, of : SUBSET RowNames]
WipeSet == [pc : 0..25, link : Links \cup {NoWipe.link},
            found : SUBSET RowNames, files : SUBSET RowNames,
            gone : SUBSET RowSet, links : SUBSET Links]

ErasureTyped ==
    /\ records \in SUBSET RowSet /\ wipe \in WipeSet
    /\ valid \in SUBSET Links /\ mailed \in [Links -> Nat] /\ users \in Nat
    /\ lapses \subseteq {"admin", "commit", "link"}

\* Every row's parents are there, one of each table it refers to.
Integrity(R) ==
    \A r \in R : /\ r.of \subseteq Names(R) /\ r.of \subseteq Parents(r.t) \X BOOLEAN
                 /\ \A p \in Parents(r.t) : \E late \in BOOLEAN : <<p, late>> \in r.of

LEMMA KeyFacts ==
    /\ \A t \in Owned \cup {"feedjob", "outcome"} : "user" \in Parents(t)
    /\ "account" \in Parents("campaign") /\ "campaign" \in Parents("job")
    /\ \A t \in {"step", "lead"} : "campaign" \in Parents(t)
    /\ \A t \in {"result", "feedlead", "applied"} : "feedjob" \in Parents(t)
    /\ \A t \in {"message", "group", "forward"} : "filter" \in Parents(t)
    /\ "chat" \in Parents("turn")
BY DEF Parents, CascadeKeys, RestrictKeys, Tables, Owned

LEMMA UserCascades ==
    \A p : <<"user", p>> \notin CascadeKeys
BY DEF CascadeKeys, Owned

\* Cascades reach two tables far.
LEMMA ShortCascades ==
    ~ \E a, b, c, d : <<a, b>> \in CascadeKeys /\ <<b, c>> \in CascadeKeys
                      /\ <<c, d>> \in CascadeKeys
<1>1. ASSUME NEW a, NEW b, <<a, b>> \in CascadeKeys
      PROVE  b \in {"user", "campaign", "feedjob", "filter", "post", "chat"}
  BY <1>1 DEF CascadeKeys
<1>2. ASSUME NEW b \in {"user", "campaign", "feedjob", "filter", "post", "chat"},
             NEW c, <<b, c>> \in CascadeKeys
      PROVE  c = "user"
  BY <1>2 DEF CascadeKeys, Owned
<1> QED
  BY <1>1, <1>2, UserCascades

\* A post goes with its user only.
LEMMA PostCascades ==
    \A p : <<"post", p>> \in CascadeKeys => p = "user"
BY DEF CascadeKeys, Owned

LEMMA StatementFacts ==
    /\ LastStatement = 24
    /\ \A n \in 1..24 : Statements[n][1] = "find" <=> n \in {1, 11, 17, 22, 24}
    /\ Statements[1] = <<"find", "jobs">> /\ Statements[11] = <<"find", "filters">>
    /\ Statements[17] = <<"find", "videos">> /\ Statements[22] = <<"find", "links">>
    /\ Statements[24] = <<"find", "files">> /\ Statements[23] = <<"owner", "user">>
    /\ \A n \in 1..16 : Statements[n][2] \notin {"post", "user"}
<1>1. LastStatement = 24
  BY DEF Statements, LastStatement
<1>2. ASSUME NEW n \in 1..24
      PROVE Statements[n][1] = "find" <=> n \in {1, 11, 17, 22, 24}
  BY DEF Statements, Find, Del, DelBy
<1>3. /\ Statements[1] = <<"find", "jobs">> /\ Statements[11] = <<"find", "filters">>
    /\ Statements[17] = <<"find", "videos">> /\ Statements[22] = <<"find", "links">>
    /\ Statements[24] = <<"find", "files">> /\ Statements[23] = <<"owner", "user">>
  BY DEF Statements, Find, Del, DelBy
<1>4. ASSUME NEW n \in 1..16  PROVE Statements[n][2] \notin {"post", "user"}
  BY DEF Statements, Find, Del, DelBy
<1> QED
  BY <1>1, <1>2, <1>3, <1>4

\* Nothing is left of an account without its user's row.
LEMMA NothingWithoutUser ==
    ASSUME NEW R \in SUBSET RowSet, Integrity(R), ~ \E r \in R : r.t = "user"
    PROVE  R = {}
<1> DEFINE Has(t) == \E r \in R : r.t = t
<1>1. ASSUME NEW t \in Tables, NEW p \in Parents(t), Has(t)  PROVE Has(p)
  <2>1. PICK r \in R : r.t = t
    BY <1>1
  <2>2. PICK late \in BOOLEAN : <<p, late>> \in r.of
    BY <2>1, <1>1 DEF Integrity
  <2>3. <<p, late>> \in Names(R)
    BY <2>1, <2>2 DEF Integrity
  <2>4. PICK q \in R : <<p, late>> = <<q.t, q.late>>
    BY <2>3 DEF Names, Name
  <2> QED
    BY <2>4
<1>2. \A t \in Tables : \A p \in Parents(t) : Has(t) => Has(p)
  BY <1>1
<1>3. ~ Has("user")
  OBVIOUS
<1> HIDE DEF Has
<1>4. \A t \in Owned \cup {"feedjob", "outcome"} : ~ Has(t)
  BY <1>2, <1>3, KeyFacts DEF Tables, Owned
<1>5. ~ Has("campaign")
  BY <1>2, <1>4, KeyFacts DEF Tables, Owned
<1>6. \A t \in Tables : ~ Has(t)
  BY <1>2, <1>3, <1>4, <1>5, KeyFacts DEF Tables, Owned
<1> QED
  <2>1. \A r \in R : r.t \in Tables
    BY DEF RowSet
  <2> QED
    BY <1>6, <2>1 DEF Has

\* A row that outlives a DELETE has lost no parent: cascades take it along or
\* the DELETE is refused.
LEMMA DeleteKeepsIntegrity ==
    ASSUME ErasureTyped, Integrity(records), NEW S \in SUBSET records, ~Refused(S)
    PROVE  Integrity(records \ Taken(S))
<1> DEFINE A == S \cup Children(S, CascadeKeys)
           T == A \cup Children(A, CascadeKeys)
<1>1. Taken(S) = T
  BY DEF Taken
<1>2. Children(T, RestrictKeys) \subseteq T
  BY <1>1 DEF Refused
<1>3. T \subseteq records
  BY DEF Children
<1>4. ASSUME NEW r \in records \ T, NEW n \in r.of, n \in Names(T)  PROVE FALSE
  <2>1. <<r.t, n[1]>> \in CascadeKeys \cup RestrictKeys
    <3>1. n[1] \in Parents(r.t)
      BY <1>4 DEF Integrity
    <3> QED
      BY <3>1 DEF Parents
  <2>2. CASE <<r.t, n[1]>> \in RestrictKeys
    <3>1. r \in Children(T, RestrictKeys)
      BY <1>4, <2>2 DEF Children
    <3> QED
      BY <1>2, <1>4, <3>1
  <2>3. CASE <<r.t, n[1]>> \in CascadeKeys
    <3>1. PICK q \in T : n = <<q.t, q.late>>
      BY <1>4 DEF Names, Name
    <3>2. q \notin A
      <4>1. q \in A => n \in Names(A)
        BY <3>1 DEF Names, Name
      <4>2. n \in Names(A) => r \in Children(A, CascadeKeys)
        BY <1>4, <2>3 DEF Children
      <4> QED
        BY <1>4, <4>1, <4>2
    <3>3. q \in Children(A, CascadeKeys)
      BY <3>2
    <3>4. PICK m \in Names(A) \cap q.of : <<q.t, m[1]>> \in CascadeKeys
      BY <3>3 DEF Children
    <3>5. PICK x \in A : m = <<x.t, x.late>>
      BY <3>4 DEF Names, Name
    <3>6. x \notin S
      <4>1. x \in S => m \in Names(S)
        BY <3>5 DEF Names, Name
      <4>2. m \in Names(S) => q \in Children(S, CascadeKeys)
        BY <3>1, <3>4, <1>3 DEF Children
      <4> QED
        BY <3>2, <4>1, <4>2
    <3>7. x \in Children(S, CascadeKeys)
      BY <3>5, <3>6
    <3>8. PICK k \in Names(S) \cap x.of : <<x.t, k[1]>> \in CascadeKeys
      BY <3>7 DEF Children
    <3>9. n[1] = q.t /\ m[1] = x.t
      BY <3>1, <3>5
    <3> QED
      BY <2>3, <3>4, <3>8, <3>9, ShortCascades
  <2> QED
    BY <2>1, <2>2, <2>3
<1>5. ASSUME NEW r \in records \ T  PROVE r.of \subseteq Names(records \ T)
  <2>1. SUFFICES ASSUME NEW n \in r.of  PROVE n \in Names(records \ T)
    OBVIOUS
  <2>2. n \in Names(records)
    BY DEF Integrity
  <2>3. PICK q \in records : n = Name(q)
    BY <2>2 DEF Names
  <2>4. q \notin T
    BY <1>4, <2>3 DEF Names
  <2> QED
    BY <2>3, <2>4 DEF Names
<1> QED
  BY <1>1, <1>5 DEF Integrity

\* A DELETE of other rows takes no post and no user.
LEMMA PostTaken ==
    ASSUME NEW S \in SUBSET records, \A r \in S : r.t \notin {"post", "user"}
    PROVE  \A r \in Taken(S) : r.t \notin {"post", "user"}
<1> DEFINE A == S \cup Children(S, CascadeKeys)
<1>1. ASSUME NEW B, \A r \in B : r.t \notin {"post", "user"},
             NEW r \in Children(B, CascadeKeys)
      PROVE  r.t \notin {"post", "user"}
  <2>1. PICK n \in Names(B) : <<r.t, n[1]>> \in CascadeKeys
    BY <1>1 DEF Children
  <2>2. PICK q \in B : n = <<q.t, q.late>>
    BY <2>1 DEF Names, Name
  <2>3. n[1] = q.t /\ q.t \notin {"post", "user"}
    BY <1>1, <2>2
  <2> QED
    BY <2>1, <2>3, PostCascades, UserCascades
<1>2. \A r \in A : r.t \notin {"post", "user"}
  BY <1>1
<1> HIDE DEF A
<1>3. \A r \in A \cup Children(A, CascadeKeys) : r.t \notin {"post", "user"}
  BY <1>1, <1>2
<1> QED
  BY <1>3 DEF Taken, A

\* What is true of the rows, whatever lapses.
RowsInv ==
    /\ ErasureTyped
    /\ Integrity(records) /\ Integrity(records \cup wipe.gone)
    /\ wipe.pc = 0 => wipe.gone = {} /\ wipe.links = {}
    /\ wipe.pc >= 24 => ~Here

\* The two outcomes of a DELETE.
LEMMA DeleteOutcome ==
    ASSUME RowsInv, DeletesRows, NEW S, S = Targets
    PROVE  /\ wipe.pc \in 1..24 /\ S \in SUBSET records
           /\ \/ Rollback /\ UNCHANGED lapses
              \/ /\ ~Refused(S) /\ Taken(S) \in SUBSET records
                 /\ records' = records \ Taken(S)
                 /\ wipe' = [wipe EXCEPT !.gone = @ \cup Taken(S), !.pc = @ + 1]
                 /\ UNCHANGED <<videos, valid, lapses>> /\ ErasureFrame
<1>1. wipe.pc \in 1..24
  BY StatementFacts DEF DeletesRows
<1>2. S \in SUBSET records
  BY DEF Targets, In
<1>3. Taken(S) \in SUBSET records
  BY <1>2 DEF Taken, Children
<1>4. wipe \in WipeSet
  BY DEF RowsInv, ErasureTyped
<1>5. CASE Refused(S)
  BY <1>1, <1>2, <1>5 DEF DeletesRows
<1>6. CASE ~Refused(S)
  <2>1. /\ records' = records \ Taken(S)
        /\ Advance([wipe EXCEPT !.gone = @ \cup Taken(S)])
        /\ UNCHANGED <<videos, valid, lapses>> /\ ErasureFrame
    BY <1>6 DEF DeletesRows
  <2>2. wipe' = [wipe EXCEPT !.gone = @ \cup Taken(S), !.pc = @ + 1]
    BY <2>1, <1>4 DEF Advance, WipeSet
  <2> QED
    BY <1>1, <1>2, <1>3, <1>6, <2>1, <2>2
<1> QED
  BY <1>5, <1>6

LEMMA IdleWipe ==
    /\ NoWipe \in WipeSet /\ NoWipe.pc = 0 /\ NoWipe.gone = {}
    /\ NoWipe.links = {} /\ NoWipe.files = {} /\ NoWipe.found = {}
BY DEF NoWipe, WipeSet

LEMMA RollbackKeepsRows ==
    ASSUME RowsInv, Rollback, lapses' \subseteq {"admin", "commit", "link"}
    PROVE  RowsInv'
<1>1. /\ records' = records \cup wipe.gone /\ valid' = valid \cup wipe.links
      /\ wipe' = NoWipe /\ UNCHANGED <<mailed, users>>
  BY DEF Rollback, ErasureFrame
<1>2. wipe \in WipeSet /\ ErasureTyped
  BY DEF RowsInv, ErasureTyped
<1>3. wipe.gone \in SUBSET RowSet /\ wipe.links \in SUBSET Links
  BY <1>2 DEF WipeSet
<1>4. ErasureTyped'
  BY <1>1, <1>2, <1>3, IdleWipe DEF ErasureTyped
<1>5. Integrity(records)' /\ Integrity(records \cup wipe.gone)'
  <2>1. records' \cup wipe'.gone = records \cup wipe.gone
    BY <1>1, IdleWipe
  <2> QED
    BY <1>1, <2>1 DEF RowsInv, Integrity
<1> QED
  BY <1>1, <1>4, <1>5, IdleWipe DEF RowsInv

LEMMA DeleteKeepsRows == RowsInv /\ DeletesRows => RowsInv'
<1> SUFFICES ASSUME RowsInv, DeletesRows  PROVE RowsInv'
  OBVIOUS
<1> DEFINE S == Targets
           T == Taken(S)
<1>1. /\ wipe.pc \in 1..24 /\ S \in SUBSET records
      /\ \/ Rollback /\ UNCHANGED lapses
         \/ /\ ~Refused(S) /\ T \in SUBSET records
            /\ records' = records \ T
            /\ wipe' = [wipe EXCEPT !.gone = @ \cup T, !.pc = @ + 1]
            /\ UNCHANGED <<videos, valid, lapses>> /\ ErasureFrame
  BY DeleteOutcome
<1>2. ErasureTyped /\ wipe \in WipeSet
  BY DEF RowsInv, ErasureTyped
<1>3. CASE Rollback /\ UNCHANGED lapses
  BY <1>2, <1>3, RollbackKeepsRows DEF ErasureTyped
<1>4. ASSUME /\ ~Refused(S) /\ T \in SUBSET records
             /\ records' = records \ T
             /\ wipe' = [wipe EXCEPT !.gone = @ \cup T, !.pc = @ + 1]
             /\ UNCHANGED <<videos, valid, lapses>> /\ ErasureFrame
      PROVE RowsInv'
  <2>1. Integrity(records \ T)
    BY <1>1, <1>2, <1>4, DeleteKeepsIntegrity DEF RowsInv
  <2>2. S = Targets /\ S \subseteq T
    BY DEF Taken
  <2> HIDE DEF T, S
  <2>3. /\ wipe'.pc = wipe.pc + 1 /\ wipe'.gone = wipe.gone \cup T
        /\ wipe'.links = wipe.links /\ wipe' \in WipeSet
    <3>1. T \in SUBSET RowSet
      BY <1>2, <1>4 DEF ErasureTyped
    <3>2. wipe.gone \in SUBSET RowSet /\ wipe.pc + 1 \in 0..25
      BY <1>1, <1>2 DEF WipeSet
    <3> DEFINE gone2 == wipe.gone \cup T
               pc2 == wipe.pc + 1
    <3>3. gone2 \in SUBSET RowSet /\ pc2 \in 0..25
      BY <3>1, <3>2
    <3>4. wipe' = [wipe EXCEPT !.gone = gone2, !.pc = pc2]
      BY <1>4
    <3>5. wipe'.pc = pc2 /\ wipe'.gone = gone2 /\ wipe'.links = wipe.links
      BY <1>2, <3>4 DEF WipeSet
    <3> HIDE DEF gone2, pc2
    <3>6. wipe' \in WipeSet
      BY <1>2, <3>3, <3>4 DEF WipeSet
    <3> QED
      BY <3>5, <3>6 DEF gone2, pc2
  <2>4. ErasureTyped'
    BY <1>2, <1>4, <2>3 DEF ErasureTyped, ErasureFrame
  <2>5. records' \cup wipe'.gone = records \cup wipe.gone
    BY <1>4, <2>3
  <2>6. Integrity(records)' /\ Integrity(records \cup wipe.gone)'
    BY <1>4, <2>1, <2>5 DEF RowsInv, Integrity
  <2>7. wipe'.pc # 0
    BY <1>1, <2>3
  <2>8. wipe'.pc >= 24 => ~Here'
    <3> SUFFICES ASSUME wipe'.pc >= 24  PROVE ~Here'
      OBVIOUS
    <3>1. wipe.pc = 23 \/ wipe.pc = 24
      BY <1>1, <2>3
    <3>2. wipe.pc = 23
      BY <3>1, StatementFacts DEF DeletesRows, Statement
    <3>3. S = In("user")
      BY <2>2, <3>2, StatementFacts DEF Targets, Statement
    <3> QED
      BY <1>4, <2>2, <3>3 DEF Here, In
  <2> QED
    BY <2>4, <2>6, <2>7, <2>8 DEF RowsInv
<1> QED
  BY <1>1, <1>3, <1>4

LEMMA InsertKeepsRows ==
    ASSUME RowsInv, NEW t \in Tables, Insert(t)  PROVE RowsInv'
<1>1. PICK of \in SUBSET (Names(records) \cap (Parents(t) \X BOOLEAN)) :
         /\ \A p \in Parents(t) : Cardinality({n \in of : n[1] = p}) = 1
         /\ records' = records \cup {ErasedRow(t, TRUE, of)}
  BY DEF Insert
<1> DEFINE r == ErasedRow(t, TRUE, of)
<1>2. /\ wipe.pc # 0 /\ t # "user"
      /\ UNCHANGED <<mailed, valid, users, wipe, lapses>>
  BY DEF Insert
<1>3. r \in RowSet /\ r.t = t /\ r.of = of
  <2>1. Parents(t) \subseteq Tables
    BY DEF Parents
  <2> QED
    BY <2>1 DEF ErasedRow, RowSet, RowNames
<1>4. ASSUME NEW p \in Parents(t)  PROVE \E late \in BOOLEAN : <<p, late>> \in of
  <2>1. {n \in of : n[1] = p} # {}
    BY <1>1, FS_EmptySet
  <2> QED
    BY <2>1
<1> HIDE DEF r
<1>5. records' = records \cup {r}
  BY <1>1 DEF r
<1>6. ErasureTyped'
  BY <1>2, <1>3, <1>5 DEF ErasureTyped, RowsInv
<1>7. \A R : Integrity(R) /\ records \subseteq R => Integrity(R \cup {r})
  <2> SUFFICES ASSUME NEW R, Integrity(R), records \subseteq R
               PROVE  Integrity(R \cup {r})
    OBVIOUS
  <2>1. Names(R) \subseteq Names(R \cup {r}) /\ Names(records) \subseteq Names(R)
    BY DEF Names
  <2>2. r.of \subseteq Names(R) /\ r.of \subseteq Parents(r.t) \X BOOLEAN
    BY <1>3, <2>1
  <2>3. \A p \in Parents(r.t) : \E late \in BOOLEAN : <<p, late>> \in r.of
    BY <1>3, <1>4
  <2> QED
    BY <2>1, <2>2, <2>3 DEF Integrity
<1>8. Integrity(records)' /\ Integrity(records \cup wipe.gone)'
  <2>1. Integrity(records \cup {r}) /\ Integrity((records \cup wipe.gone) \cup {r})
    BY <1>7 DEF RowsInv
  <2>2. records' = records \cup {r}
        /\ records' \cup wipe'.gone = (records \cup wipe.gone) \cup {r}
    BY <1>2, <1>5
  <2> QED
    BY <2>1, <2>2 DEF Integrity
<1>9. Here' => Here
  BY <1>2, <1>3, <1>5 DEF Here, In
<1> QED
  BY <1>2, <1>6, <1>8, <1>9 DEF RowsInv

LEMMA Pairs ==
    ASSUME NEW P, NEW B, NEW b \in B, NEW n \in P \X {b}
    PROVE  n \in P \X B /\ \E p \in P : n = <<p, b>>
OBVIOUS

LEMMA EarlyNames ==
    ASSUME NEW P, NEW n \in P \X {FALSE}
    PROVE  n \in P \X BOOLEAN /\ \E p \in P : n = <<p, FALSE>>
<1> DEFINE b == FALSE
           B == BOOLEAN
<1>1. b \in B /\ n \in P \X {b}
  OBVIOUS
<1> HIDE DEF b, B
<1>2. n \in P \X B /\ \E p \in P : n = <<p, b>>
  BY <1>1, Pairs
<1> QED
  BY <1>2 DEF b, B

LEMMA RegistersKeepsRows == RowsInv /\ Registers => RowsInv'
<1> SUFFICES ASSUME RowsInv, Registers  PROVE RowsInv'
  OBVIOUS
<1> DEFINE Four == {"user", "account", "device", "post"}
<1>1. /\ wipe.pc = 0 /\ users' = users + 1 /\ UNCHANGED <<mailed, valid, wipe, lapses>>
      /\ records' = {Early(t) : t \in Four}
  BY DEF Registers
<1>2. \A t \in Four : Parents(t) = IF t = "user" THEN {} ELSE {"user"}
  BY DEF Parents, CascadeKeys, RestrictKeys, Tables, Owned
<1>3. \A t \in Four : /\ Early(t) \in RowSet /\ Early(t).t = t
                      /\ Early(t).of = Parents(t) \X {FALSE}
                      /\ Name(Early(t)) = <<t, FALSE>>
  BY <1>2 DEF Early, ErasedRow, RowSet, RowNames, Name, Tables, Owned
<1>4. <<"user", FALSE>> \in Names(records')
  BY <1>1, <1>3 DEF Names
<1>5. Integrity(records')
  <2>1. SUFFICES ASSUME NEW t \in Four
                 PROVE  /\ Early(t).of \subseteq Names(records')
                        /\ Early(t).of \subseteq Parents(Early(t).t) \X BOOLEAN
                        /\ \A p \in Parents(Early(t).t) :
                             \E late \in BOOLEAN : <<p, late>> \in Early(t).of
    BY <1>1 DEF Integrity
  <2>2. /\ Early(t).of = Parents(t) \X {FALSE} /\ Early(t).t = t
        /\ Parents(t) \subseteq {"user"}
    BY <1>2, <1>3
  <2>3. \A n \in Early(t).of : /\ n \in Parents(t) \X BOOLEAN
                              /\ \E p \in Parents(t) : n = <<p, FALSE>>
    BY <2>2, EarlyNames, Zenon
  <2>4. \A p \in Parents(t) : <<p, FALSE>> \in Early(t).of
    BY <2>2
  <2>5. Early(t).of \subseteq Names(records')
    BY <1>4, <2>2, <2>3
  <2>6. Early(t).of \subseteq Parents(t) \X BOOLEAN
    BY <2>3
  <2> QED
    BY <2>2, <2>4, <2>5, <2>6
<1>6. ErasureTyped'
  BY <1>1, <1>3 DEF RowsInv, ErasureTyped
<1>7. wipe'.gone = {} /\ records' \cup wipe'.gone = records'
  BY <1>1 DEF RowsInv
<1>8. Integrity(records)' /\ Integrity(records \cup wipe.gone)'
  BY <1>5, <1>7 DEF Integrity
<1> QED
  BY <1>1, <1>6, <1>7, <1>8 DEF RowsInv

LEMMA EarlyRows ==
    \A t \in Tables : /\ Early(t) \in RowSet /\ Early(t).t = t
                      /\ Early(t).of = Parents(t) \X {FALSE}
                      /\ Name(Early(t)) = <<t, FALSE>>
<1>1. \A t \in Tables : Parents(t) \subseteq Tables
  BY DEF Parents
<1> QED
  BY <1>1 DEF Early, ErasedRow, RowSet, RowNames, Name

LEMMA RowsInit == ErasureInit => RowsInv
<1> SUFFICES ASSUME ErasureInit  PROVE RowsInv
  OBVIOUS
<1>1. /\ records = {Early(t) : t \in Tables} /\ wipe = NoWipe
      /\ mailed = [l \in Links |-> 0] /\ valid = {} /\ users = 1 /\ lapses = {}
  BY DEF ErasureInit
<1>2. \A t \in Tables : <<t, FALSE>> \in Names(records)
  BY <1>1, EarlyRows DEF Names
<1>3. Integrity(records)
  <2>1. SUFFICES ASSUME NEW t \in Tables
                 PROVE  /\ Early(t).of \subseteq Names(records)
                        /\ Early(t).of \subseteq Parents(Early(t).t) \X BOOLEAN
                        /\ \A p \in Parents(Early(t).t) :
                             \E late \in BOOLEAN : <<p, late>> \in Early(t).of
    BY <1>1 DEF Integrity
  <2>2. Parents(t) \subseteq Tables
    BY DEF Parents
  <2>3. /\ Early(t).of = Parents(t) \X {FALSE} /\ Early(t).t = t
    BY EarlyRows
  <2> HIDE DEF Early
  <2>4. \A n \in Early(t).of : /\ n \in Parents(t) \X BOOLEAN
                              /\ \E p \in Parents(t) : n = <<p, FALSE>>
    BY <2>3, EarlyNames, Zenon
  <2>5. \A p \in Parents(t) : <<p, FALSE>> \in Early(t).of
    BY <2>3
  <2>6. Early(t).of \subseteq Names(records)
    BY <1>2, <2>2, <2>4
  <2>7. Early(t).of \subseteq Parents(t) \X BOOLEAN
    BY <2>4
  <2> QED
    BY <2>3, <2>5, <2>6, <2>7
<1>4. ErasureTyped
  BY <1>1, EarlyRows, IdleWipe DEF ErasureTyped
<1>5. records \cup wipe.gone = records /\ wipe.pc = 0 /\ wipe.links = {}
      /\ wipe.gone = {}
  BY <1>1, IdleWipe
<1> QED
  BY <1>3, <1>4, <1>5 DEF RowsInv

\* A statement that finds.
LEMMA FindOutcome ==
    ASSUME RowsInv, FindsRows
    PROVE  /\ wipe.pc \in {1, 11, 17} /\ wipe' \in WipeSet
           /\ wipe'.pc = wipe.pc + 1 /\ wipe'.gone = wipe.gone
           /\ wipe'.links = wipe.links
           /\ wipe.pc = 17 => wipe'.files = Names(In("post"))
           /\ UNCHANGED <<records, videos, valid, lapses>> /\ ErasureFrame
<1>1. wipe \in WipeSet /\ records \in SUBSET RowSet
  BY DEF RowsInv, ErasureTyped
<1>2. \A t : Names(In(t)) \subseteq RowNames
  BY <1>1 DEF Names, In, Name, RowSet, RowNames
<1>3. UNCHANGED <<records, videos, valid, lapses>> /\ ErasureFrame
  BY DEF FindsRows
<1>4. PICK kind \in {"jobs", "filters", "videos"} :
        /\ Runs("find", kind)
        /\ Advance(CASE kind = "jobs" ->
                     [wipe EXCEPT !.found =
                         Names(In("campaign") \cup In("feedjob"))]
                   [] kind = "filters" ->
                     [wipe EXCEPT !.found = @ \cup Names(In("filter"))]
                   [] kind = "videos" ->
                     [wipe EXCEPT !.files = Names(In("post"))])
  BY DEF FindsRows
<1>5. /\ wipe.pc \in 1..24 /\ Statements[wipe.pc] = <<"find", kind>>
      /\ Statements[wipe.pc][1] = "find" /\ Statements[wipe.pc][2] = kind
  BY <1>4, StatementFacts DEF Runs, Statement
<1>6. /\ wipe.pc \in {1, 11, 17}
      /\ wipe.pc = 17 <=> kind = "videos"
  BY <1>4, <1>5, StatementFacts
<1>7. CASE kind = "jobs"
  <2> DEFINE f == Names(In("campaign") \cup In("feedjob"))
             pc2 == wipe.pc + 1
  <2>1. f \in SUBSET RowNames /\ pc2 \in 0..25
    BY <1>1, <1>5 DEF Names, In, Name, RowSet, RowNames
  <2>2. wipe' = [[wipe EXCEPT !.found = f] EXCEPT !.pc = pc2]
    BY <1>1, <1>4, <1>7 DEF Advance, WipeSet
  <2> HIDE DEF f
  <2>3. wipe'.pc = pc2 /\ wipe'.gone = wipe.gone /\ wipe'.links = wipe.links
    BY <1>1, <2>2 DEF WipeSet
  <2> HIDE DEF pc2
  <2>4. wipe' \in WipeSet
    BY <1>1, <2>1, <2>2 DEF WipeSet
  <2> QED
    BY <1>3, <1>6, <1>7, <2>3, <2>4 DEF pc2
<1>8. CASE kind = "filters"
  <2> DEFINE f == wipe.found \cup Names(In("filter"))
             pc2 == wipe.pc + 1
  <2>1. f \in SUBSET RowNames /\ pc2 \in 0..25
    BY <1>1, <1>2, <1>5 DEF WipeSet
  <2>2. wipe' = [[wipe EXCEPT !.found = f] EXCEPT !.pc = pc2]
    BY <1>1, <1>4, <1>8 DEF Advance, WipeSet
  <2> HIDE DEF f
  <2>3. wipe'.pc = pc2 /\ wipe'.gone = wipe.gone /\ wipe'.links = wipe.links
    BY <1>1, <2>2 DEF WipeSet
  <2> HIDE DEF pc2
  <2>4. wipe' \in WipeSet
    BY <1>1, <2>1, <2>2 DEF WipeSet
  <2> QED
    BY <1>3, <1>6, <1>8, <2>3, <2>4 DEF pc2
<1>9. CASE kind = "videos"
  <2> DEFINE f == Names(In("post"))
             pc2 == wipe.pc + 1
  <2>1. f \in SUBSET RowNames /\ pc2 \in 0..25
    BY <1>1, <1>2, <1>5 DEF WipeSet
  <2>2. wipe' = [[wipe EXCEPT !.files = f] EXCEPT !.pc = pc2]
    BY <1>1, <1>4, <1>9 DEF Advance, WipeSet
  <2> HIDE DEF f
  <2>3. wipe'.pc = pc2 /\ wipe'.gone = wipe.gone /\ wipe'.links = wipe.links
        /\ wipe'.files = f
    BY <1>1, <2>2 DEF WipeSet
  <2> HIDE DEF pc2
  <2>4. wipe' \in WipeSet
    BY <1>1, <2>1, <2>2 DEF WipeSet
  <2> QED
    BY <1>3, <1>6, <1>9, <2>3, <2>4 DEF pc2, f
<1> QED
  BY <1>7, <1>8, <1>9

LEMMA LinksOutcome ==
    ASSUME RowsInv, DeletesLinks
    PROVE  /\ wipe.pc = 22 /\ wipe' \in WipeSet /\ wipe'.pc = 23
           /\ wipe'.gone = wipe.gone /\ wipe'.files = wipe.files
           /\ wipe'.links = valid /\ valid' = {}
           /\ UNCHANGED <<records, videos, lapses>> /\ ErasureFrame
<1>1. wipe \in WipeSet /\ valid \in SUBSET Links
  BY DEF RowsInv, ErasureTyped
<1>2. wipe.pc = 22
  <2>1. wipe.pc \in 1..24 /\ Statements[wipe.pc] = <<"find", "links">>
        /\ Statements[wipe.pc][1] = "find"
    BY StatementFacts DEF DeletesLinks, Runs, Statement
  <2> QED
    BY <2>1, StatementFacts
<1> DEFINE pc2 == wipe.pc + 1
<1>3. wipe' = [[wipe EXCEPT !.links = valid] EXCEPT !.pc = pc2]
  BY <1>1 DEF DeletesLinks, SpentLinks, Advance, WipeSet
<1>4. pc2 = 23
  BY <1>2
<1> HIDE DEF pc2
<1>5. wipe' \in WipeSet
  <2> DEFINE w == [wipe EXCEPT !.links = valid]
  <2>1. w \in WipeSet
    BY <1>1 DEF WipeSet
  <2>2. wipe' = [w EXCEPT !.pc = pc2] /\ pc2 \in 0..25
    BY <1>3, <1>4
  <2> HIDE DEF w
  <2> QED
    BY <2>1, <2>2 DEF WipeSet
<1>6. wipe'.pc = 23 /\ wipe'.gone = wipe.gone /\ wipe'.files = wipe.files
      /\ wipe'.links = valid
  BY <1>1, <1>3, <1>4 DEF WipeSet
<1> QED
  BY <1>2, <1>5, <1>6 DEF DeletesLinks, SpentLinks

LEMMA FilesOutcome ==
    ASSUME RowsInv, RemovesFiles
    PROVE  /\ wipe.pc = 24 /\ wipe' \in WipeSet /\ wipe'.pc = 25
           /\ wipe'.gone = wipe.gone /\ wipe'.links = wipe.links
           /\ videos' = videos \ wipe.files
           /\ UNCHANGED <<records, valid, lapses>> /\ ErasureFrame
<1>1. wipe \in WipeSet
  BY DEF RowsInv, ErasureTyped
<1>2. wipe.pc = 24
  <2>1. wipe.pc \in 1..24 /\ Statements[wipe.pc] = <<"find", "files">>
        /\ Statements[wipe.pc][1] = "find"
    BY StatementFacts DEF RemovesFiles, Runs, Statement
  <2> QED
    BY <2>1, StatementFacts
<1> DEFINE pc2 == wipe.pc + 1
<1>3. wipe' = [wipe EXCEPT !.pc = pc2]
  BY <1>1 DEF RemovesFiles, Advance, WipeSet
<1>4. pc2 = 25
  BY <1>2
<1> HIDE DEF pc2
<1>5. wipe' \in WipeSet
  BY <1>1, <1>3, <1>4 DEF WipeSet
<1>6. wipe'.pc = 25 /\ wipe'.gone = wipe.gone /\ wipe'.links = wipe.links
  BY <1>1, <1>3, <1>4 DEF WipeSet
<1> QED
  BY <1>2, <1>5, <1>6 DEF RemovesFiles

LEMMA ConfirmOutcome ==
    ASSUME RowsInv, NEW l \in Links, ConfirmErasure(l)
    PROVE  /\ wipe.pc = 0 /\ wipe' \in WipeSet /\ wipe'.pc = 1
           /\ wipe'.gone = {} /\ wipe'.links = {}
           /\ UNCHANGED <<records, videos, valid, lapses>> /\ ErasureFrame
<1>1. wipe' = [NoWipe EXCEPT !.pc = 1, !.link = l]
  BY DEF ConfirmErasure
<1>2. wipe' \in WipeSet
  <2>1. 1 \in 0..25 /\ l \in Links \cup {NoWipe.link}
    OBVIOUS
  <2> HIDE DEF NoWipe
  <2>2. NoWipe \in WipeSet
    BY IdleWipe
  <2> QED
    BY <1>1, <2>1, <2>2 DEF WipeSet
<1>3. wipe'.pc = 1 /\ wipe'.gone = {} /\ wipe'.links = {}
  BY <1>1, IdleWipe DEF WipeSet
<1> QED
  BY <1>2, <1>3 DEF ConfirmErasure

LEMMA SameRows ==
    ASSUME RowsInv, ErasureTyped', records' = records,
           wipe'.gone \in {{}, wipe.gone},
           wipe'.pc = 0 => wipe'.gone = {} /\ wipe'.links = {},
           wipe'.pc >= 24 => ~Here
    PROVE  RowsInv'
<1>1. Integrity(records') /\ Integrity(records' \cup wipe'.gone)
  <2>1. records' \cup wipe'.gone \in {records, records \cup wipe.gone}
    OBVIOUS
  <2> QED
    BY <2>1 DEF RowsInv
<1>2. Integrity(records)' /\ Integrity(records \cup wipe.gone)'
  BY <1>1 DEF Integrity
<1>3. Here' <=> Here
  BY DEF Here, In
<1> QED
  BY <1>2, <1>3 DEF RowsInv

LEMMA RowsStep == RowsInv /\ [ErasureNext]_erasureVars => RowsInv'
<1> SUFFICES ASSUME RowsInv, [ErasureNext]_erasureVars  PROVE RowsInv'
  OBVIOUS
<1> USE DEF ErasureTyped, ErasureFrame
<1>1. CASE Registers
  BY <1>1, RegistersKeepsRows
<1>2. CASE FindsRows
  <2>1. /\ wipe.pc \in {1, 11, 17} /\ wipe' \in WipeSet
        /\ wipe'.pc = wipe.pc + 1 /\ wipe'.gone = wipe.gone
        /\ UNCHANGED <<records, valid, lapses, mailed, users>>
    BY <1>2, FindOutcome
  <2>2. ErasureTyped'
    BY <2>1 DEF RowsInv
  <2> QED
    BY <2>1, <2>2, SameRows
<1>3. CASE DeletesRows
  BY <1>3, DeleteKeepsRows
<1>4. CASE DeletesLinks
  <2>1. ErasureTyped' /\ wipe'.pc = 23 /\ records' = records
        /\ wipe'.gone = wipe.gone
    BY <1>4, LinksOutcome DEF RowsInv
  <2> QED
    BY <2>1, SameRows
<1>5. CASE RemovesFiles
  <2>1. /\ wipe.pc = 24 /\ wipe' \in WipeSet /\ wipe'.pc = 25
        /\ wipe'.gone = wipe.gone
        /\ UNCHANGED <<records, valid, lapses, mailed, users>>
    BY <1>5, FilesOutcome
  <2>2. ErasureTyped' /\ ~Here
    BY <2>1 DEF RowsInv
  <2> QED
    BY <2>1, <2>2, SameRows
<1>6. CASE CommitsErasure
  <2>1. ErasureTyped' /\ wipe' = NoWipe /\ records' = records
    BY <1>6, IdleWipe DEF CommitsErasure, RowsInv
  <2> QED
    BY <2>1, SameRows, IdleWipe
<1>7. CASE ErasureCommitFails
  BY <1>7, RollbackKeepsRows DEF ErasureCommitFails
<1>8. CASE AdminDeletesUser
  <2>1. /\ wipe.pc = 0 /\ ~Refused(In("user")) /\ lapses' = {"admin"}
        /\ records' = records \ Taken(In("user"))
        /\ UNCHANGED <<mailed, valid, users, wipe>>
    BY <1>8 DEF AdminDeletesUser
  <2>2. Integrity(records')
    <3>1. In("user") \in SUBSET records /\ ErasureTyped
      BY DEF In, RowsInv
    <3> QED
      BY <2>1, <3>1, DeleteKeepsIntegrity DEF RowsInv
  <2>3. records' \cup wipe'.gone = records'
    BY <2>1 DEF RowsInv
  <2>4. Integrity(records)' /\ Integrity(records \cup wipe.gone)'
    BY <2>2, <2>3 DEF Integrity
  <2>5. ErasureTyped'
    BY <2>1 DEF RowsInv
  <2> QED
    BY <2>1, <2>4, <2>5 DEF RowsInv
<1>9. ASSUME NEW l \in Links, RequestLink(l) \/ LinkExpires(l)  PROVE RowsInv'
  <2>1. records' = records /\ wipe' = wipe /\ ErasureTyped'
    BY <1>9 DEF RowsInv, RequestLink, LinkExpires
  <2> QED
    BY <2>1, SameRows DEF RowsInv
<1>10. ASSUME NEW l \in Links, ConfirmErasure(l)  PROVE RowsInv'
  <2>1. ErasureTyped' /\ wipe'.pc = 1 /\ records' = records /\ wipe'.gone = {}
    BY <1>10, ConfirmOutcome DEF RowsInv
  <2> QED
    BY <2>1, SameRows
<1>11. ASSUME NEW t \in Tables, Insert(t)  PROVE RowsInv'
  BY <1>11, InsertKeepsRows
<1>12. CASE UNCHANGED erasureVars
  <2>1. records' = records /\ wipe' = wipe /\ ErasureTyped'
    BY <1>12 DEF RowsInv, erasureVars
  <2> QED
    BY <2>1, SameRows DEF RowsInv
<1> QED
  BY <1>1, <1>2, <1>3, <1>4, <1>5, <1>6, <1>7, <1>8, <1>9, <1>10, <1>11, <1>12
     DEF ErasureNext

-----------------------------------------------------------------------------
(* Videos and links.                                                       *)

TheVideo == <<"post", FALSE>>

\* A post that may come back has its video; the video is to be found by the
\* erasure and is then among its files, until they go.
VideoInv ==
    lapses \cap {"commit", "admin"} = {} =>
        /\ wipe.pc <= 24 => \A r \in records \cup wipe.gone :
                                r.t = "post" => Name(r) \in videos
        /\ TheVideo \in videos =>
             /\ wipe.pc <= 24 /\ TheVideo \in Names(records \cup wipe.gone)
             /\ wipe.pc \in 1..17 => TheVideo \in Names(records)
             /\ wipe.pc >= 18 => TheVideo \in wipe.files

\* A link leads to the user who is there or may come back.
LinkInv ==
    lapses \cap {"link", "admin"} = {} =>
        /\ \A l \in valid \cup wipe.links : mailed[l] = users
        /\ valid \cup wipe.links # {} =>
               \E r \in records \cup wipe.gone : r.t = "user"
        /\ wipe.pc >= 23 => valid = {}

LEMMA VideoDelete ==
    ASSUME RowsInv, VideoInv, DeletesRows,
           lapses \cap {"commit", "admin"} = {}
    PROVE  VideoInv'
<1> DEFINE S == Targets
           T == Taken(S)
<1>1. /\ wipe.pc \in 1..24 /\ S \in SUBSET records
      /\ \/ Rollback /\ UNCHANGED lapses
         \/ /\ ~Refused(S) /\ T \in SUBSET records
            /\ records' = records \ T
            /\ wipe' = [wipe EXCEPT !.gone = @ \cup T, !.pc = @ + 1]
            /\ UNCHANGED <<videos, valid, lapses>> /\ ErasureFrame
  BY DeleteOutcome
<1>2. wipe \in WipeSet
  BY DEF RowsInv, ErasureTyped
<1>3. wipe.pc # 24 /\ wipe.pc # 17
  <2>1. Statements[wipe.pc][1] # "find"
    BY DEF DeletesRows, Statement
  <2> QED
    BY <1>1, <2>1, StatementFacts
<1>4. CASE Rollback /\ UNCHANGED lapses
  <2>1. /\ records' = records \cup wipe.gone /\ wipe' = NoWipe
        /\ videos' = videos
    BY <1>4 DEF Rollback
  <2>2. wipe'.pc = 0 /\ records' \cup wipe'.gone = records \cup wipe.gone
    BY <2>1, IdleWipe
  <2>3. wipe.pc <= 24
    BY <1>1
  <2>4. /\ \A r \in records' \cup wipe'.gone : r.t = "post" => Name(r) \in videos'
        /\ TheVideo \in videos' => TheVideo \in Names(records' \cup wipe'.gone)
    BY <2>1, <2>2, <2>3 DEF VideoInv
  <2> QED
    BY <2>2, <2>4 DEF VideoInv, Name, Names
<1>5. ASSUME /\ T \in SUBSET records
             /\ records' = records \ T
             /\ wipe' = [wipe EXCEPT !.gone = @ \cup T, !.pc = @ + 1]
             /\ UNCHANGED <<videos, lapses>>
      PROVE  VideoInv'
  <2>1. wipe.pc <= 16 => \A r \in T : r.t \notin {"post", "user"}
    <3> SUFFICES ASSUME wipe.pc <= 16  PROVE \A r \in T : r.t \notin {"post", "user"}
      OBVIOUS
    <3>1. Statement[2] \notin {"post", "user"}
      BY <1>1, StatementFacts DEF Statement
    <3>2. \A r \in S : r.t = Statement[2]
      BY DEF Targets, In
    <3> QED
      BY <1>1, <3>1, <3>2, PostTaken
  <2> HIDE DEF T, S
  <2>2. /\ wipe'.pc = wipe.pc + 1 /\ wipe'.gone = wipe.gone \cup T
        /\ wipe'.files = wipe.files
    BY <1>2, <1>5 DEF WipeSet
  <2>3. records' \cup wipe'.gone = records \cup wipe.gone
    BY <1>5, <2>2
  <2>4. wipe.pc <= 16 /\ TheVideo \in Names(records) => TheVideo \in Names(records')
    BY <1>5, <2>1 DEF Names, Name, TheVideo
  <2>5. wipe.pc \in 1..16 \cup 18..23
    BY <1>1, <1>3
  <2>6. /\ \A r \in records' \cup wipe'.gone : r.t = "post" => Name(r) \in videos'
        /\ TheVideo \in videos' => TheVideo \in Names(records' \cup wipe'.gone)
    <3>1. wipe.pc <= 24
      BY <2>5
    <3>2. /\ \A r \in records \cup wipe.gone : r.t = "post" => Name(r) \in videos
          /\ TheVideo \in videos => TheVideo \in Names(records \cup wipe.gone)
      BY <3>1 DEF VideoInv
    <3> QED
      BY <1>5, <2>3, <3>2
  <2>7. TheVideo \in videos' /\ wipe'.pc \in 1..17 => TheVideo \in Names(records')
    BY <1>5, <2>2, <2>4, <2>5 DEF VideoInv
  <2>8. TheVideo \in videos' /\ wipe'.pc >= 18 => TheVideo \in wipe'.files
    BY <1>5, <2>2, <2>5 DEF VideoInv
  <2>9. wipe'.pc <= 24
    BY <2>2, <2>5
  <2> QED
    BY <2>6, <2>7, <2>8, <2>9 DEF VideoInv, Name, Names
<1> QED
  BY <1>1, <1>4, <1>5

LEMMA VideoStep ==
    RowsInv /\ VideoInv /\ [ErasureNext]_erasureVars => VideoInv'
<1> SUFFICES ASSUME RowsInv, VideoInv, [ErasureNext]_erasureVars,
                    lapses' \cap {"commit", "admin"} = {}
             PROVE  VideoInv'
  BY DEF VideoInv
<1>0. wipe \in WipeSet /\ wipe.pc \in 0..25
  BY DEF RowsInv, ErasureTyped, WipeSet
<1>1. ASSUME /\ lapses \cap {"commit", "admin"} = {} /\ videos' = videos
             /\ records' = records /\ wipe'.gone = wipe.gone
             /\ wipe'.pc <= 24 /\ wipe.pc <= 24
             /\ TheVideo \in videos =>
                  /\ wipe'.pc \in 1..17 => TheVideo \in Names(records)
                  /\ wipe'.pc >= 18 => TheVideo \in wipe'.files
      PROVE  VideoInv'
  BY <1>1 DEF VideoInv, Name, Names
<1>2. CASE Registers
  <2>1. /\ records' = {Early(t) : t \in {"user", "account", "device", "post"}}
        /\ wipe.pc = 0 /\ wipe' = wipe /\ videos' = {TheVideo}
    BY <1>2 DEF Registers, TheVideo
  <2>2. wipe'.gone = {} /\ wipe'.pc = 0
    BY <2>1 DEF RowsInv
  <2>3. /\ \A r \in records' \cup wipe'.gone : r.t = "post" => Name(r) = TheVideo
        /\ TheVideo \in Names(records' \cup wipe'.gone)
    <3>1. {"user", "account", "device", "post"} \subseteq Tables
      BY DEF Tables, Owned
    <3>2. \A r \in records' : r.t = "post" => Name(r) = TheVideo
      BY <2>1, <3>1, EarlyRows DEF TheVideo
    <3>3. Early("post") \in records' /\ Name(Early("post")) = TheVideo
      BY <2>1, <3>1, EarlyRows DEF TheVideo
    <3> QED
      BY <2>2, <3>2, <3>3 DEF Names
  <2> QED
    BY <2>1, <2>2, <2>3 DEF VideoInv, Name, Names
<1>3. CASE FindsRows
  <2>1. /\ wipe.pc \in {1, 11, 17} /\ wipe'.pc = wipe.pc + 1
        /\ wipe'.gone = wipe.gone /\ UNCHANGED <<records, videos, lapses>>
        /\ wipe.pc = 17 => wipe'.files = Names(In("post"))
    BY <1>3, FindOutcome
  <2>2. TheVideo \in Names(records) => TheVideo \in Names(In("post"))
    BY DEF Names, Name, In, TheVideo
  <2>3. TheVideo \in videos => TheVideo \in Names(records)
    BY <2>1 DEF VideoInv
  <2>4. wipe'.pc \in {2, 12, 18} /\ (wipe'.pc = 18 => wipe.pc = 17)
    BY <2>1
  <2> QED
    <3>1. wipe.pc <= 24 /\ wipe'.pc <= 24 /\ (wipe'.pc \in 1..17 => wipe.pc # 17)
      BY <2>1
    <3>2. TheVideo \in videos =>
            /\ wipe'.pc \in 1..17 => TheVideo \in Names(records)
            /\ wipe'.pc >= 18 => TheVideo \in wipe'.files
      BY <2>1, <2>2, <2>3, <2>4
    <3> QED
      BY <1>1, <2>1, <3>1, <3>2
<1>4. CASE DeletesRows
  <2>1. lapses' = lapses
    BY <1>4, DeleteOutcome
  <2> QED
    BY <1>4, <2>1, VideoDelete
<1>5. CASE DeletesLinks
  <2>1. /\ wipe.pc = 22 /\ wipe'.pc = 23
        /\ wipe'.gone = wipe.gone /\ wipe'.files = wipe.files
        /\ UNCHANGED <<records, videos, lapses>>
    BY <1>5, LinksOutcome
  <2>2. TheVideo \in videos => TheVideo \in wipe.files
    BY <2>1 DEF VideoInv
  <2> QED
    BY <1>1, <2>1, <2>2
<1>6. CASE RemovesFiles
  <2>1. /\ wipe.pc = 24 /\ wipe'.pc = 25
        /\ videos' = videos \ wipe.files
        /\ UNCHANGED <<records, valid, lapses>>
    BY <1>6, FilesOutcome
  <2>2. TheVideo \notin videos'
    BY <2>1 DEF VideoInv
  <2> QED
    BY <2>1, <2>2 DEF VideoInv
<1>7. CASE CommitsErasure
  <2>1. wipe.pc = 25 /\ wipe' = NoWipe /\ UNCHANGED <<records, videos, lapses>>
    BY <1>7, StatementFacts DEF CommitsErasure
  <2>2. records = {}
    <3>1. ~ \E r \in records : r.t = "user"
      BY <2>1 DEF RowsInv, Here, In
    <3> QED
      BY <3>1, NothingWithoutUser DEF RowsInv, ErasureTyped
  <2>3. TheVideo \notin videos'
    BY <2>1 DEF VideoInv
  <2>4. records' \cup wipe'.gone = {}
    BY <2>1, <2>2, IdleWipe
  <2> QED
    BY <2>3, <2>4 DEF VideoInv
<1>8. CASE ErasureCommitFails \/ AdminDeletesUser
  BY <1>8 DEF ErasureCommitFails, AdminDeletesUser
<1>9. ASSUME NEW l \in Links, RequestLink(l) \/ LinkExpires(l)  PROVE VideoInv'
  <2>1. /\ UNCHANGED <<records, videos, wipe>>
        /\ lapses \cap {"commit", "admin"} = {}
    BY <1>9 DEF RequestLink, LinkExpires
  <2> QED
    BY <2>1 DEF VideoInv, Name, Names
<1>10. ASSUME NEW l \in Links, ConfirmErasure(l)  PROVE VideoInv'
  <2>1. /\ wipe.pc = 0 /\ wipe'.pc = 1 /\ wipe'.gone = {} /\ wipe.gone = {}
        /\ UNCHANGED <<records, videos, lapses>>
    BY <1>10, ConfirmOutcome DEF RowsInv
  <2>2. records \cup wipe.gone = records
    BY <2>1
  <2>3. TheVideo \in videos => TheVideo \in Names(records)
    BY <2>1, <2>2 DEF VideoInv
  <2> QED
    BY <1>1, <2>1, <2>3
<1>11. ASSUME NEW t \in Tables, Insert(t)  PROVE VideoInv'
  <2>1. PICK of : records' = records \cup {ErasedRow(t, TRUE, of)}
    BY <1>11 DEF Insert
  <2>2. /\ UNCHANGED <<wipe, lapses>> /\ wipe.pc # 0
        /\ videos' = IF t = "post" THEN videos \cup {<<t, TRUE>>} ELSE videos
    BY <1>11 DEF Insert
  <2>3. Name(ErasedRow(t, TRUE, of)) = <<t, TRUE>> /\ ErasedRow(t, TRUE, of).t = t
    BY DEF Name, ErasedRow
  <2>4. TheVideo \in videos' => TheVideo \in videos
    BY <2>2 DEF TheVideo
  <2>5. Names(records) \subseteq Names(records')
        /\ Names(records \cup wipe.gone) \subseteq Names(records' \cup wipe.gone)
    BY <2>1 DEF Names
  <2>6. wipe.pc <= 24 => \A r \in records' \cup wipe'.gone :
                             r.t = "post" => Name(r) \in videos'
    BY <2>1, <2>2, <2>3 DEF VideoInv
  <2>7. TheVideo \in videos' =>
             /\ wipe'.pc <= 24 /\ TheVideo \in Names(records' \cup wipe'.gone)
             /\ wipe'.pc \in 1..17 => TheVideo \in Names(records')
             /\ wipe'.pc >= 18 => TheVideo \in wipe'.files
    BY <2>2, <2>4, <2>5 DEF VideoInv
  <2> QED
    BY <2>2, <2>6, <2>7 DEF VideoInv, Name, Names
<1>12. CASE UNCHANGED erasureVars
  BY <1>12 DEF VideoInv, erasureVars, Name, Names
<1> QED
  BY <1>2, <1>3, <1>4, <1>5, <1>6, <1>7, <1>8, <1>9, <1>10, <1>11, <1>12
     DEF ErasureNext

LEMMA LinkStep ==
    RowsInv /\ LinkInv /\ [ErasureNext]_erasureVars => LinkInv'
<1> SUFFICES ASSUME RowsInv, LinkInv, [ErasureNext]_erasureVars,
                    lapses' \cap {"link", "admin"} = {}
             PROVE  LinkInv'
  BY DEF LinkInv
<1>0. wipe \in WipeSet /\ wipe.pc \in 0..25 /\ mailed \in [Links -> Nat]
  BY DEF RowsInv, ErasureTyped, WipeSet
<1>1. ASSUME /\ lapses \cap {"link", "admin"} = {}
             /\ records' \cup wipe'.gone = records \cup wipe.gone
             /\ mailed' = mailed /\ users' = users
             /\ valid' \cup wipe'.links \subseteq valid \cup wipe.links
             /\ wipe'.pc >= 23 => valid' = {}
      PROVE  LinkInv'
  BY <1>1 DEF LinkInv
<1>2. CASE Registers
  <2>1. ~Here /\ wipe.pc = 0 /\ UNCHANGED <<mailed, valid, wipe, lapses>>
    BY <1>2 DEF Registers
  <2>2. wipe.gone = {} /\ wipe.links = {}
    BY <2>1 DEF RowsInv
  <2>3. valid = {}
    BY <2>1, <2>2 DEF LinkInv, Here, In
  <2> QED
    BY <2>1, <2>2, <2>3 DEF LinkInv
<1>3. CASE FindsRows
  <2>1. /\ wipe.pc \in {1, 11, 17} /\ wipe'.pc = wipe.pc + 1
        /\ wipe'.gone = wipe.gone /\ wipe'.links = wipe.links
        /\ UNCHANGED <<records, valid, lapses, mailed, users>>
    BY <1>3, FindOutcome DEF ErasureFrame
  <2> QED
    BY <1>1, <2>1
<1>4. CASE DeletesRows
  <2> DEFINE S == Targets
             T == Taken(S)
  <2>1. /\ wipe.pc \in 1..24
        /\ \/ Rollback /\ UNCHANGED lapses
           \/ /\ ~Refused(S) /\ T \in SUBSET records
              /\ records' = records \ T
              /\ wipe' = [wipe EXCEPT !.gone = @ \cup T, !.pc = @ + 1]
              /\ UNCHANGED <<videos, valid, lapses>> /\ ErasureFrame
    BY <1>4, DeleteOutcome
  <2>2. CASE Rollback /\ UNCHANGED lapses
    <3>1. /\ records' = records \cup wipe.gone /\ valid' = valid \cup wipe.links
          /\ wipe' = NoWipe /\ UNCHANGED <<mailed, users>>
      BY <2>2 DEF Rollback, ErasureFrame
    <3>2. wipe'.pc = 0 /\ wipe'.gone = {} /\ wipe'.links = {}
      BY <3>1, IdleWipe
    <3> QED
      BY <1>1, <2>2, <3>1, <3>2
  <2>3. ASSUME /\ T \in SUBSET records /\ records' = records \ T
               /\ wipe' = [wipe EXCEPT !.gone = @ \cup T, !.pc = @ + 1]
               /\ UNCHANGED <<valid, lapses, mailed, users>>
        PROVE  LinkInv'
    <3> HIDE DEF T, S
    <3>1. /\ wipe'.pc = wipe.pc + 1 /\ wipe'.gone = wipe.gone \cup T
          /\ wipe'.links = wipe.links
      BY <1>0, <2>3 DEF WipeSet
    <3>2. wipe.pc # 22
      <4>1. Statements[wipe.pc][1] # "find"
        BY <1>4 DEF DeletesRows, Statement
      <4> QED
        BY <2>1, <4>1, StatementFacts
    <3>3. wipe'.pc >= 23 => valid' = {}
      BY <1>0, <2>3, <3>1, <3>2 DEF LinkInv
    <3> QED
      BY <1>1, <2>3, <3>1, <3>3
  <2> QED
    BY <2>1, <2>2, <2>3 DEF ErasureFrame
<1>5. CASE DeletesLinks
  <2>1. /\ wipe'.gone = wipe.gone /\ wipe'.links = valid /\ valid' = {}
        /\ UNCHANGED <<records, lapses, mailed, users>>
    BY <1>5, LinksOutcome DEF ErasureFrame
  <2> QED
    BY <1>1, <2>1
<1>6. CASE RemovesFiles
  <2>1. /\ wipe.pc = 24 /\ wipe'.pc = 25
        /\ wipe'.gone = wipe.gone /\ wipe'.links = wipe.links
        /\ UNCHANGED <<records, valid, lapses, mailed, users>>
    BY <1>6, FilesOutcome DEF ErasureFrame
  <2>2. valid = {}
    BY <2>1 DEF LinkInv
  <2> QED
    BY <1>1, <2>1, <2>2
<1>7. CASE CommitsErasure
  <2>1. wipe.pc = 25 /\ wipe' = NoWipe /\ UNCHANGED <<valid, lapses>>
    BY <1>7, StatementFacts DEF CommitsErasure
  <2>2. valid' = {} /\ wipe'.links = {}
    BY <2>1, IdleWipe DEF LinkInv
  <2> QED
    BY <2>2 DEF LinkInv
<1>8. CASE ErasureCommitFails
  <2>1. /\ records' = records \cup wipe.gone /\ valid' = valid \cup wipe.links
        /\ wipe' = NoWipe /\ UNCHANGED <<mailed, users>> /\ lapses = {}
    BY <1>8 DEF ErasureCommitFails, Rollback, ErasureFrame
  <2>2. wipe'.pc = 0 /\ wipe'.gone = {} /\ wipe'.links = {}
    BY <2>1, IdleWipe
  <2> QED
    BY <1>1, <2>1, <2>2
<1>9. CASE AdminDeletesUser
  BY <1>9 DEF AdminDeletesUser
<1>10. ASSUME NEW l \in Links, RequestLink(l)  PROVE LinkInv'
  <2>1. /\ mailed' = [mailed EXCEPT ![l] = users] /\ valid' = valid \cup {l}
        /\ UNCHANGED <<records, users, wipe>> /\ (Here \/ wipe.gone # {})
        /\ lapses' = IF wipe.pc = 0 THEN lapses ELSE {"link"}
    BY <1>10 DEF RequestLink
  <2>2. wipe.pc = 0 /\ lapses' = lapses
    BY <2>1
  <2>3. Here /\ wipe.gone = {} /\ wipe.links = {}
    BY <2>1, <2>2 DEF RowsInv
  <2>4. \E r \in records' \cup wipe'.gone : r.t = "user"
    BY <2>1, <2>3 DEF Here, In
  <2>5. \A k \in valid' \cup wipe'.links : mailed'[k] = users'
    BY <1>0, <2>1, <2>2, <2>3 DEF LinkInv, RowsInv, ErasureTyped
  <2> QED
    BY <2>1, <2>2, <2>4, <2>5 DEF LinkInv
<1>11. ASSUME NEW l \in Links, LinkExpires(l)  PROVE LinkInv'
  BY <1>1, <1>11 DEF LinkExpires
<1>12. ASSUME NEW l \in Links, ConfirmErasure(l)  PROVE LinkInv'
  <2>1. /\ wipe.pc = 0 /\ wipe'.pc = 1 /\ wipe'.gone = {} /\ wipe'.links = {}
        /\ wipe.gone = {} /\ UNCHANGED <<records, valid, lapses, mailed, users>>
    BY <1>12, ConfirmOutcome DEF RowsInv, ErasureFrame
  <2> QED
    BY <1>1, <2>1
<1>13. ASSUME NEW t \in Tables, Insert(t)  PROVE LinkInv'
  <2>1. records \subseteq records'
        /\ UNCHANGED <<mailed, valid, users, wipe, lapses>>
    BY <1>13 DEF Insert
  <2> QED
    BY <2>1 DEF LinkInv
<1>14. CASE UNCHANGED erasureVars
  BY <1>14 DEF LinkInv, erasureVars
<1> QED
  BY <1>2, <1>3, <1>4, <1>5, <1>6, <1>7, <1>8, <1>9, <1>10, <1>11, <1>12, <1>13,
     <1>14
     DEF ErasureNext

LEMMA WholeOrNothing == RowsInv /\ VideoInv /\ LinkInv => ErasedMeansAll
<1> SUFFICES ASSUME RowsInv, VideoInv, LinkInv, wipe.pc = 0
             PROVE  /\ ~Here => records = {}
                    /\ lapses \cap {"commit", "admin"} = {} =>
                           /\ ~Here => TheVideo \notin videos
                           /\ Names(In("post")) \subseteq videos
                    /\ lapses \cap {"link", "admin"} = {} =>
                           \A l \in valid : Here /\ mailed[l] = users
  BY DEF ErasedMeansAll, TheVideo
<1>1. ~Here => records = {}
  BY NothingWithoutUser DEF RowsInv, ErasureTyped, Here, In
<1>2. wipe.gone = {} /\ records \cup wipe.gone = records
  BY DEF RowsInv
<1>3. ASSUME lapses \cap {"commit", "admin"} = {}
      PROVE  (~Here => TheVideo \notin videos) /\ Names(In("post")) \subseteq videos
  <2>1. TheVideo \in videos => TheVideo \in Names(records)
    BY <1>2, <1>3 DEF VideoInv
  <2>2. records = {} => TheVideo \notin Names(records)
    BY DEF Names
  <2>3. \A r \in records : r.t = "post" => Name(r) \in videos
    BY <1>2, <1>3 DEF VideoInv
  <2> QED
    BY <1>1, <2>1, <2>2, <2>3 DEF Names, In
<1>4. lapses \cap {"link", "admin"} = {} =>
          \A l \in valid : Here /\ mailed[l] = users
  BY <1>2 DEF LinkInv, Here, In
<1> QED
  BY <1>1, <1>3, <1>4

\* Whatever is inserted, mailed, rolled back and registered while the
\* statements of _delete_user_and_data run: between erasures an account is
\* there with the video of every post, or nothing of it is, not a row, not the
\* video of a post that was found, not a link that leads to the account that is
\* registered next.
THEOREM ErasedMeansAllCorrect == ErasureSpec => []ErasedMeansAll
<1>1. ErasureInit => RowsInv /\ VideoInv /\ LinkInv
  <2> SUFFICES ASSUME ErasureInit  PROVE VideoInv /\ LinkInv
    BY RowsInit
  <2>1. /\ records = {Early(t) : t \in Tables} /\ wipe = NoWipe
        /\ videos = {TheVideo} /\ valid = {}
    BY DEF ErasureInit, TheVideo
  <2>2. wipe.pc = 0 /\ wipe.gone = {} /\ wipe.links = {}
    BY <2>1, IdleWipe
  <2>3. /\ \A r \in records : r.t = "post" => Name(r) = TheVideo
        /\ TheVideo \in Names(records \cup wipe.gone)
    <3>1. "post" \in Tables
      BY DEF Tables, Owned
    <3>2. Early("post") \in records /\ Name(Early("post")) = TheVideo
      BY <2>1, <3>1, EarlyRows DEF TheVideo
    <3>3. \A r \in records : r.t = "post" => Name(r) = TheVideo
      <4>1. SUFFICES ASSUME NEW t \in Tables, Early(t).t = "post"
                     PROVE  Name(Early(t)) = TheVideo
        BY <2>1
      <4> QED
        BY <4>1, EarlyRows DEF TheVideo
    <3> QED
      BY <3>2, <3>3 DEF Names
  <2> QED
    BY <2>1, <2>2, <2>3 DEF VideoInv, LinkInv
<1> QED
  BY <1>1, RowsStep, VideoStep, LinkStep, WholeOrNothing, PTL DEF ErasureSpec
================================================================================
