----------------------------- MODULE UserSessions -----------------------------
(***************************************************************************)
(* Registration, verification, login, refresh and password reset of one    *)
(* user (api/v1/auth.py, core/security.py, api/dependencies.py).  Time is  *)
(* counted in ticks; tokens are signed and kept by the client, the server  *)
(* remembers none of them.                                                 *)
(***************************************************************************)
EXTENDS Integers, FiniteSets

CONSTANTS Session,      \* SESSION_EXPIRE_MINUTES
          Access,       \* ACCESS_TOKEN_EXPIRE_MINUTES
          Refresh,      \* REFRESH_TOKEN_EXPIRE_DAYS
          CodeLife,     \* VERIFICATION_CODE_TTL and _ATTEMPT_WINDOW_MINUTES
          TryLimit,     \* VERIFICATION_ATTEMPT_LIMIT
          MaxTime,      \* bound: the last tick
          MaxAuthCalls, \* bound: calls
          MaxTokenPairs \* bound: sessions opened or refreshed

ASSUME SessionAssumption ==
    {Session, Access, Refresh, CodeLife, TryLimit} \subseteq Nat \ {0}

VARIABLES member,   \* the row of the user
          tokens,   \* the tokens in the client's hands
          resets,   \* the reset links that are good
          now, authCalls
authVars == <<member, tokens, resets, now, authCalls>>

NoMember == [here |-> FALSE, verified |-> FALSE, code |-> 0, codeDies |-> 0,
             tries |-> 0, windowEnds |-> 0, password |-> 0]

AuthInit ==
    /\ member = NoMember
    /\ tokens = {}
    /\ resets = 0
    /\ now = 0 /\ authCalls = 0

Called == authCalls < MaxAuthCalls /\ authCalls' = authCalls + 1
Codes == 1..MaxAuthCalls
EarlierOf(a, b) == IF a < b THEN a ELSE b

-----------------------------------------------------------------------------
(* Registration and verification.                                          *)

\* A new code and a new window of tries begin together.
WithCode(m) == [m EXCEPT !.code = authCalls + 1, !.codeDies = now + CodeLife,
                         !.tries = 0, !.windowEnds = now + CodeLife]

Register ==
    /\ Called
    /\ IF member.here THEN UNCHANGED member
       ELSE member' = WithCode([NoMember EXCEPT !.here = TRUE])
    /\ UNCHANGED <<tokens, resets, now>>

\* The mail is sent before the commit: when it fails nothing is stored.
ResendVerification ==
    /\ member.here /\ ~member.verified /\ Called
    /\ member' \in {member, WithCode(member)}
    /\ UNCHANGED <<tokens, resets, now>>

Windowed(m) == IF m.windowEnds <= now
               THEN [m EXCEPT !.tries = 0, !.windowEnds = now + CodeLife]
               ELSE m

VerifyEmail(code) ==
    /\ member.here /\ Called
    /\ LET m == Windowed(member)
           tried == [m EXCEPT !.tries = @ + 1] IN
       member' =
         IF m.tries >= TryLimit THEN m
         ELSE IF m.code # code \/ m.codeDies <= now THEN tried
         ELSE [m EXCEPT !.verified = TRUE, !.code = 0, !.codeDies = 0,
                        !.tries = 0, !.windowEnds = 0]
    /\ UNCHANGED <<tokens, resets, now>>

\* update_user, an administrator's page: what is given is set.
PatchUser ==
    /\ member.here /\ Called
    /\ \E verified \in BOOLEAN, password \in {member.password, authCalls + 1} :
         member' = [member EXCEPT !.verified = verified, !.password = password]
    /\ UNCHANGED <<tokens, resets, now>>

-----------------------------------------------------------------------------
(* Sessions.                                                               *)

\* Both tokens carry the deadline of the login; "login" is when it was, which
\* no token says.
Minted(deadline, login) ==
    {[kind |-> "access", dies |-> EarlierOf(now + Access, deadline),
      deadline |-> deadline, login |-> login],
     [kind |-> "refresh", dies |-> EarlierOf(now + Refresh, deadline),
      deadline |-> deadline, login |-> login]}

Login(password) ==
    /\ member.here /\ member.verified /\ Called
    /\ password = member.password
    /\ Cardinality(tokens) < 2 * MaxTokenPairs
    /\ tokens' = tokens \cup Minted(now + Session, now)
    /\ UNCHANGED <<member, resets, now>>

MutDeadlineOf(t) == now + Session
DeadlineOf(t) == t.deadline

Live(t) == now < t.dies /\ now < t.deadline

RefreshToken(t) ==
    /\ t.kind = "refresh" /\ Live(t) /\ Called
    /\ member.here /\ member.verified
    /\ Cardinality(tokens) < 2 * MaxTokenPairs
    /\ tokens' = tokens \cup Minted(DeadlineOf(t), t.login)
    /\ UNCHANGED <<member, resets, now>>

\* get_current_user_from_token
Serves(t) == t.kind = "access" /\ Live(t) /\ member.here

-----------------------------------------------------------------------------
(* Forgotten passwords and the end of an account.                          *)

ForgotPassword ==
    /\ member.here /\ Called
    /\ resets' = resets + 1
    /\ UNCHANGED <<member, tokens, now>>

ResetPassword ==
    /\ resets > 0 /\ member.here /\ Called
    /\ resets' = resets - 1
    /\ member' = [member EXCEPT !.password = authCalls + 1]
    /\ UNCHANGED <<tokens, now>>

ResetExpires ==
    /\ resets > 0 /\ resets' = resets - 1
    /\ UNCHANGED <<member, tokens, now, authCalls>>

\* An erasure; the address may register again.  Tokens name the address: those
\* of the earlier account serve the next one until they die.
MemberGoes ==
    /\ member.here /\ Called
    /\ member' = NoMember
    /\ resets' = 0
    /\ UNCHANGED <<tokens, now>>

AuthTicks ==
    /\ now < MaxTime
    /\ now' = now + 1
    /\ UNCHANGED <<member, tokens, resets, authCalls>>

AuthNext ==
    \/ Register \/ ResendVerification \/ PatchUser
    \/ \E code \in Codes : VerifyEmail(code)
    \/ \E password \in 0..MaxAuthCalls : Login(password)
    \/ \E t \in tokens : RefreshToken(t)
    \/ ForgotPassword \/ ResetPassword \/ ResetExpires
    \/ MemberGoes \/ AuthTicks

AuthSpec == AuthInit /\ [][AuthNext]_authVars

-----------------------------------------------------------------------------
(* Properties *)

AuthTypeOK ==
    /\ \A t \in tokens : t.kind \in {"access", "refresh"} /\ t.login \in 0..now
    /\ member.code \in 0..MaxAuthCalls /\ member.tries \in 0..TryLimit
    /\ resets \in 0..MaxAuthCalls

\* "Refreshing the access token must never start a new two-hour session
\* window" (auth.py): however often a session is refreshed, no call is served
\* on it once Session has passed since the login; and no token of a session
\* that can still be refreshed is refused by it before that.
SessionsEndOnTime ==
    \A t \in tokens :
        /\ Serves(t) => now < t.login + Session
        /\ now < t.login + EarlierOf(Session, Refresh) /\ t.kind = "refresh"
               => Live(t)
=============================================================================
