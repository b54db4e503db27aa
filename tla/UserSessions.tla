---------------------------- MODULE UserSessions ----------------------------
(***************************************************************************)
(* The sessions of one user: user_sessions and refresh_tokens.  A session  *)
(* lives as long as one of its refresh tokens can be exchanged for the     *)
(* next (rotation); an access token is not a row and is left out.          *)
(*                                                                         *)
(* refresh and logout lock the token's row and its session's before they   *)
(* decide, and keep both to the commit: one action each.  login reads      *)
(* users without a lock, compares a bcrypt hash, and only then UPDATEs     *)
(* users, whose row lock keeps the rest of it apart from the commands that *)
(* set a password: two actions.  The super user's revocation is one        *)
(* UPDATE, but the rows it will revoke are those its snapshot saw: two     *)
(* actions again.                                                          *)
(***************************************************************************)
EXTENDS Naturals

CONSTANTS
    Sessions,       \* the sessions that can be opened
    Tokens,         \* the refresh tokens that can be issued
    NoSession,
    Requests,       \* the requests that are handled at a time
    TokenDays,      \* a refresh token expires after them
    IdleDays,       \* a session not used for longer is deleted
    MaxPasswords,   \* bound on how often a password is set
    MaxDay          \* bound on the clock

ASSUME NoSessionAssumption == NoSession \notin Sessions
ASSUME DaysAssumption == TokenDays \in Nat /\ IdleDays \in Nat /\ TokenDays <= IdleDays

VARIABLES
    today,          \* NOW(), in days
    password,       \* how often users.password_hash was set, 0: never
    session,        \* "open", "revoked" (revoked_at), "none", "deleted"
    lastUsed,       \* user_sessions.last_used_at
    knownBy,        \* history: the password in force when the session's user proved who they are
    late,           \* history: the sessions of logins that a new password overtook
    token,          \* "live", "revoked" (revoked_at), "none", "deleted"
    tokenOf,        \* refresh_tokens.session_id
    issued,         \* the day the token was issued, expires_at - TokenDays
    replayed,       \* history: the tokens presented again after they were revoked
    calls           \* what each request has read

sessionVars == <<session, lastUsed, knownBy, late>>
tokenVars == <<token, tokenOf, issued>>
userVars == <<today, password, sessionVars, tokenVars, replayed, calls>>

Idle == [op |-> "idle"]
Call == {Idle}
    \cup [op : {"login"}, password : Nat]
    \cup [op : {"revoke"}, seen : SUBSET Tokens]

Rows == {"open", "revoked", "none", "deleted"}

\* refresh_tokens.session_id is a foreign key that deletes with the session.
TokensBelong ==
    \A t \in Tokens :
        token[t] \in {"live", "revoked"} =>
            tokenOf[t] \in Sessions /\ session[tokenOf[t]] \in {"open", "revoked"}

UserTypeOK ==
    /\ today \in Nat
    /\ password \in Nat
    /\ session \in [Sessions -> Rows]
    /\ lastUsed \in [Sessions -> Nat]
    /\ knownBy \in [Sessions -> Nat]
    /\ late \subseteq Sessions
    /\ token \in [Tokens -> {"live", "revoked", "none", "deleted"}]
    /\ tokenOf \in [Tokens -> Sessions \cup {NoSession}]
    /\ issued \in [Tokens -> Nat]
    /\ replayed \subseteq Tokens
    /\ calls \in [Requests -> Call]
    /\ TokensBelong

\* A user who registered with a password, or with Google.
UserInit ==
    /\ today = 0
    /\ password \in {0, 1}
    /\ session = [s \in Sessions |-> "none"]
    /\ lastUsed = [s \in Sessions |-> 0]
    /\ knownBy = [s \in Sessions |-> 0]
    /\ late = {}
    /\ token = [t \in Tokens |-> "none"]
    /\ tokenOf = [t \in Tokens |-> NoSession]
    /\ issued = [t \in Tokens |-> 0]
    /\ replayed = {}
    /\ calls = [w \in Requests |-> Idle]

-----------------------------------------------------------------------------
(* Issuing and revoking.                                                   *)

\* issueRefreshToken; others is what becomes of the other tokens.
IssueToken(s, others) ==
    \E t \in Tokens :
        /\ token[t] = "none"
        /\ token' = [others EXCEPT ![t] = "live"]
        /\ tokenOf' = [tokenOf EXCEPT ![t] = s]
        /\ issued' = [issued EXCEPT ![t] = today]

\* issueAuthTokens: a new session with its first token.
IssueAuthTokens(known, sessions, tokens) ==
    \E s \in Sessions :
        /\ session[s] = "none"
        /\ session' = [sessions EXCEPT ![s] = "open"]
        /\ lastUsed' = [lastUsed EXCEPT ![s] = today]
        /\ knownBy' = [knownBy EXCEPT ![s] = known]
        /\ late' = IF known < password THEN late \cup {s} ELSE late
        /\ IssueToken(s, tokens)

\* revokeAllUserSessions and revokeAllUserRefreshTokens.
SessionsRevoked == [s \in Sessions |-> IF session[s] = "open" THEN "revoked" ELSE session[s]]

TokensRevoked(T) == [t \in Tokens |-> IF t \in T /\ token[t] = "live" THEN "revoked" ELSE token[t]]

-----------------------------------------------------------------------------
(* login, googleLogin, refresh, logout.                                    *)

\* The user is read and the password compared.
StartLogin(w) ==
    /\ calls[w] = Idle
    /\ password > 0
    /\ calls' = [calls EXCEPT ![w] = [op |-> "login", password |-> password]]
    /\ UNCHANGED <<today, password, sessionVars, tokenVars, replayed>>

\* updateLastLoginAt waits for whoever holds the user's row; nothing is read
\* again.
FinishLogin(w) ==
    /\ calls[w].op = "login"
    /\ IssueAuthTokens(calls[w].password, session, token)
    /\ calls' = [calls EXCEPT ![w] = Idle]
    /\ UNCHANGED <<today, password, replayed>>

GoogleLogin ==
    /\ IssueAuthTokens(password, session, token)
    /\ UNCHANGED <<today, password, replayed, calls>>

Expired(t) == issued[t] + TokenDays < today

\* Slip: expires_at is not looked at.
RefreshableExpired(t) == token[t] = "live" /\ session[tokenOf[t]] = "open"

\* refresh, past its checks.
Refreshable(t) == token[t] = "live" /\ ~Expired(t) /\ session[tokenOf[t]] = "open"

\* Slips: the old token is not revoked; updateSessionLastUsedAt is forgotten.
RotateWithoutRevoking(t) ==
    /\ IssueToken(tokenOf[t], token)
    /\ lastUsed' = [lastUsed EXCEPT ![tokenOf[t]] = today]

RotateUnused(t) ==
    /\ IssueToken(tokenOf[t], TokensRevoked({t}))
    /\ UNCHANGED lastUsed

Rotate(t) ==
    /\ IssueToken(tokenOf[t], TokensRevoked({t}))
    /\ lastUsed' = [lastUsed EXCEPT ![tokenOf[t]] = today]

Refresh(t) ==
    /\ Refreshable(t)
    /\ Rotate(t)
    /\ UNCHANGED <<today, password, session, knownBy, late, replayed, calls>>

\* Slip: the error is thrown inside the transaction, which rolls back.
EndSessionRolledBack(s) == UNCHANGED <<session, token>>

\* revokeSession and revokeSessionRefreshTokens.
EndSession(s) ==
    /\ session' = [session EXCEPT ![s] = IF @ = "open" THEN "revoked" ELSE @]
    /\ token' = TokensRevoked({t \in Tokens : tokenOf[t] = s})

\* refresh with a token that was revoked: it is answered as a result, so that
\* the transaction commits, and becomes an error after it.
DetectReuse(t) ==
    /\ token[t] = "revoked"
    /\ EndSession(tokenOf[t])
    /\ replayed' = replayed \cup {t}
    /\ UNCHANGED <<today, password, lastUsed, knownBy, late, tokenOf, issued, calls>>

\* logout: the token is revoked, its session is left open.
Logout(t) ==
    /\ token[t] = "live"
    /\ token' = TokensRevoked({t})
    /\ UNCHANGED <<today, password, sessionVars, tokenOf, issued, replayed, calls>>

-----------------------------------------------------------------------------
(* changePassword, setPassword, resetPassword, confirmEmailChange.         *)

NewPassword == password < MaxPasswords /\ password' = password + 1

\* changePassword, and setPassword for a user without one: the password is
\* looked at before the user's row is locked and not again, so whoever knew it
\* at some time may get here.  The session that asked goes with the others, and
\* a new one is opened.
ChangePassword ==
    /\ NewPassword
    /\ IssueAuthTokens(password', SessionsRevoked, TokensRevoked(Tokens))
    /\ UNCHANGED <<today, replayed, calls>>

\* Slip: nobody is logged out.
ResetPasswordOnly ==
    /\ NewPassword
    /\ UNCHANGED <<today, sessionVars, tokenVars, replayed, calls>>

\* By a link sent to the user's address; no session is opened.
ResetPassword ==
    /\ NewPassword
    /\ session' = SessionsRevoked
    /\ token' = TokensRevoked(Tokens)
    /\ UNCHANGED <<today, lastUsed, knownBy, late, tokenOf, issued, replayed, calls>>

ConfirmEmailChange ==
    /\ IssueAuthTokens(password, SessionsRevoked, TokensRevoked(Tokens))
    /\ UNCHANGED <<today, password, replayed, calls>>

-----------------------------------------------------------------------------
(* The super user, time and the cleanup.                                   *)

\* UserSuperRepo.revokeUserSessions takes its snapshot: a token issued after it
\* is not seen, however long the UPDATE waits for the rows it has seen.
StartRevoke(w) ==
    /\ calls[w] = Idle
    /\ calls' = [calls EXCEPT ![w] =
                    [op |-> "revoke", seen |-> {t \in Tokens : token[t] = "live"}]]
    /\ UNCHANGED <<today, password, sessionVars, tokenVars, replayed>>

FinishRevoke(w) ==
    /\ calls[w].op = "revoke"
    /\ token' = TokensRevoked(calls[w].seen)
    /\ calls' = [calls EXCEPT ![w] = Idle]
    /\ UNCHANGED <<today, password, sessionVars, tokenOf, issued, replayed>>

\* A request that fails before it writes.
FailRequest(w) ==
    /\ calls[w] # Idle
    /\ calls' = [calls EXCEPT ![w] = Idle]
    /\ UNCHANGED <<today, password, sessionVars, tokenVars, replayed>>

NextDay ==
    /\ today < MaxDay
    /\ today' = today + 1
    /\ UNCHANGED <<password, sessionVars, tokenVars, replayed, calls>>

\* Unused for too long, or revoked (the seven days are left to chance).
IdleSession(s) == session[s] \in {"open", "revoked"} /\ lastUsed[s] + IdleDays < today
Removable(s) == session[s] = "revoked" \/ IdleSession(s)

DeleteSessions(S) ==
    LET gone == {t \in Tokens : tokenOf[t] \in S}
    IN  /\ session' = [s \in Sessions |-> IF s \in S THEN "deleted" ELSE session[s]]
        /\ token' = [t \in Tokens |-> IF t \in gone THEN "deleted" ELSE token[t]]
        /\ replayed' = replayed \ gone
        /\ UNCHANGED <<tokenOf, issued>>

\* 500 at a time.
CleanupExpiredUserSessions(S) ==
    /\ S # {}
    /\ \A s \in S : Removable(s)
    /\ DeleteSessions(S)
    /\ UNCHANGED <<today, password, lastUsed, knownBy, late, calls>>

-----------------------------------------------------------------------------
User ==
    \/ GoogleLogin
    \/ \E t \in Tokens : Refresh(t) \/ DetectReuse(t) \/ Logout(t)
    \/ ChangePassword \/ ResetPassword \/ ConfirmEmailChange

Request(w) ==
    \/ StartLogin(w) \/ FinishLogin(w)
    \/ StartRevoke(w) \/ FinishRevoke(w)
    \/ FailRequest(w)

UserNext ==
    \/ User
    \/ \E w \in Requests : Request(w)
    \/ NextDay
    \/ \E S \in SUBSET Sessions : CleanupExpiredUserSessions(S)

UserSpec == UserInit /\ [][UserNext]_userVars

-----------------------------------------------------------------------------
(* Properties.                                                             *)

\* Somebody holds what it takes to go on with the session.
Usable(s) ==
    /\ session[s] = "open"
    /\ \E t \in Tokens : tokenOf[t] = s /\ token[t] = "live" /\ ~Expired(t)

\* A session has one live token at most: whoever refreshes takes the session
\* from every other holder of its tokens, which is what makes reuse show.
OneLiveToken ==
    \A t, u \in Tokens :
        token[t] = "live" /\ token[u] = "live" /\ tokenOf[t] = tokenOf[u] => t = u

\* refresh with a revoked token ends the session for every holder of one of its
\* tokens, for good: whoever copied a token cannot outlive the detection.
ReplayEndsSession == \A t \in replayed : ~Usable(tokenOf[t])

\* A session that a logout, an expiry, a reuse, a new password or a super user
\* ended is never used again, whatever requests were in flight.
EndedStaysEnded ==
    [][\A s \in Sessions : session[s] # "none" /\ ~Usable(s) => ~Usable(s)']_userVars

\* After changePassword, setPassword or resetPassword only who has proved who
\* they are since then is logged in; but for a login that compared the old
\* password and was overtaken before it opened its session.
NewPasswordEndsOthers ==
    \A s \in Sessions \ late : Usable(s) => knownBy[s] = password

\* The cleanup deletes no session that somebody can go on with: 90 days without
\* use are more than the life of a token, and refresh moves both.
IdleAreUseless == \A s \in Sessions : IdleSession(s) => ~Usable(s)

\* Nobody but the last who refreshed goes on with a session, and the cleanup
\* takes it from nobody who could.
TokensHold == OneLiveToken /\ IdleAreUseless

=============================================================================
