------------------------ MODULE UserSessions_proofs ------------------------
(***************************************************************************)
(* Proofs about UserSessions, for any number of sessions, tokens and       *)
(* requests, and any days with TokenDays <= IdleDays; and, below, about    *)
(* the browser of BrowserLogin, for any number of tabs.                    *)
(***************************************************************************)
EXTENDS BrowserLogin, TLAPS

\* A token that was presented again belongs to a session that is revoked, and
\* nothing opens a revoked session.
ReplayedRevoked ==
    \A t \in replayed : token[t] = "revoked" /\ session[tokenOf[t]] = "revoked"

\* Who is in an open session has proved who they are under the password in
\* force, or finished a login that was overtaken.
OpenKnow == \A s \in Sessions \ late : session[s] = "open" => knownBy[s] = password

\* What a login in flight compared is the password, or an earlier one.
LoginsPast == \A w \in Requests : calls[w].op = "login" => calls[w].password <= password

\* A session was last used when its newest token was issued, or later.
IssuedBeforeUse ==
    /\ \A t \in Tokens : token[t] = "live" => issued[t] <= lastUsed[tokenOf[t]]
    /\ \A s \in Sessions : lastUsed[s] <= today

UserInv ==
    /\ UserTypeOK
    /\ OneLiveToken
    /\ ReplayedRevoked
    /\ OpenKnow
    /\ LoginsPast
    /\ IssuedBeforeUse

-----------------------------------------------------------------------------

\* What issuing a token to a session does, apart from the tokens it revokes.
LEMMA TokenIssued ==
    ASSUME UserTypeOK, NEW s \in Sessions, NEW T \in SUBSET Tokens,
           IssueToken(s, TokensRevoked(T))
    PROVE  \E t \in Tokens :
              /\ token[t] = "none" /\ token'[t] = "live" /\ tokenOf'[t] = s /\ issued'[t] = today
              /\ \A u \in Tokens \ {t} :
                    /\ token'[u] = IF u \in T /\ token[u] = "live" THEN "revoked" ELSE token[u]
                    /\ tokenOf'[u] = tokenOf[u] /\ issued'[u] = issued[u]
              /\ token' \in [Tokens -> {"live", "revoked", "none", "deleted"}]
              /\ tokenOf' \in [Tokens -> Sessions \cup {NoSession}]
              /\ issued' \in [Tokens -> Nat]
PROOF
<1>1. PICK t \in Tokens :
        /\ token[t] = "none"
        /\ token' = [TokensRevoked(T) EXCEPT ![t] = "live"]
        /\ tokenOf' = [tokenOf EXCEPT ![t] = s]
        /\ issued' = [issued EXCEPT ![t] = today]
  BY DEF IssueToken
<1> QED BY <1>1 DEF UserTypeOK, TokensRevoked

\* Issuing without revoking is issuing with nothing to revoke.
LEMMA NothingRevoked ==
    ASSUME UserTypeOK
    PROVE  token = TokensRevoked({})
PROOF
BY DEF UserTypeOK, TokensRevoked

\* A request in flight is of one of the kinds.
LEMMA Calls ==
    ASSUME UserTypeOK, NEW w \in Requests
    PROVE  /\ calls[w] # Idle /\ calls[w].op = "login" => calls[w].password \in Nat
           /\ calls[w] # Idle /\ calls[w].op = "revoke" => calls[w].seen \in SUBSET Tokens
           /\ Idle.op = "idle"
           /\ calls[w].op # "idle" => calls[w] # Idle
PROOF
BY DEF UserTypeOK, Call, Idle

\* A step that leaves calls alone keeps their type and what logins know,
\* whatever becomes of the password as long as it grows.
LEMMA CallsStay ==
    ASSUME UserTypeOK, LoginsPast, password' \in Nat, password' >= password, calls' = calls
    PROVE  calls' \in [Requests -> Call] /\ LoginsPast'
PROOF
<1>1. calls' \in [Requests -> Call]
  BY DEF UserTypeOK
<1>2. ASSUME NEW w \in Requests, calls'[w].op = "login" PROVE calls'[w].password <= password'
  <2>1. calls[w].password \in Nat
    BY <1>2, Calls DEF Idle
  <2> QED BY <1>2, <2>1 DEF LoginsPast, UserTypeOK
<1> QED BY <1>1, <1>2 DEF LoginsPast

\* So does one that ends a request.
LEMMA CallEnds ==
    ASSUME UserTypeOK, LoginsPast, password' = password,
           NEW w \in Requests, calls' = [calls EXCEPT ![w] = Idle]
    PROVE  calls' \in [Requests -> Call] /\ LoginsPast'
PROOF
<1>1. calls' \in [Requests -> Call]
  BY DEF UserTypeOK, Call
<1>2. ASSUME NEW x \in Requests, calls'[x].op = "login" PROVE calls'[x].password <= password'
  <2>1. x # w
    BY <1>2 DEF UserTypeOK, Idle
  <2> QED BY <1>2, <2>1 DEF LoginsPast, UserTypeOK
<1> QED BY <1>1, <1>2 DEF LoginsPast

-----------------------------------------------------------------------------

\* UserInv without what requests in flight know.
RowsInv ==
    /\ today \in Nat /\ password \in Nat
    /\ session \in [Sessions -> Rows]
    /\ lastUsed \in [Sessions -> Nat]
    /\ knownBy \in [Sessions -> Nat]
    /\ late \subseteq Sessions
    /\ token \in [Tokens -> {"live", "revoked", "none", "deleted"}]
    /\ tokenOf \in [Tokens -> Sessions \cup {NoSession}]
    /\ issued \in [Tokens -> Nat]
    /\ replayed \subseteq Tokens
    /\ TokensBelong
    /\ OneLiveToken
    /\ ReplayedRevoked
    /\ OpenKnow
    /\ IssuedBeforeUse

LEMMA TwoHalves ==
    UserInv <=> RowsInv /\ calls \in [Requests -> Call] /\ LoginsPast
PROOF
BY DEF UserInv, RowsInv, UserTypeOK

LEMMA TwoHalvesPrimed ==
    RowsInv' /\ calls' \in [Requests -> Call] /\ LoginsPast' => UserInv'
PROOF
BY DEF UserInv, RowsInv, UserTypeOK

\* A new session, opened by who knew a password that is the one in force after
\* the step or was already overtaken before it.
LEMMA AuthTokensIssued ==
    ASSUME UserInv, NEW known \in Nat, NEW S, NEW T \in SUBSET Tokens,
           IssueAuthTokens(known, S, TokensRevoked(T)),
           \/ S = session /\ password' = password
           \/ S = SessionsRevoked,
           today' = today, password' \in Nat, replayed' = replayed,
           known = password' \/ known < password
    PROVE  RowsInv'
PROOF
<1>1. PICK s \in Sessions :
        /\ session[s] = "none"
        /\ session' = [S EXCEPT ![s] = "open"]
        /\ lastUsed' = [lastUsed EXCEPT ![s] = today]
        /\ knownBy' = [knownBy EXCEPT ![s] = known]
        /\ late' = IF known < password THEN late \cup {s} ELSE late
        /\ IssueToken(s, TokensRevoked(T))
  BY DEF IssueAuthTokens
<1>2. UserTypeOK
  BY DEF UserInv
<1>3. PICK t \in Tokens :
        /\ token[t] = "none" /\ token'[t] = "live" /\ tokenOf'[t] = s /\ issued'[t] = today
        /\ \A u \in Tokens \ {t} :
              /\ token'[u] = IF u \in T /\ token[u] = "live" THEN "revoked" ELSE token[u]
              /\ tokenOf'[u] = tokenOf[u] /\ issued'[u] = issued[u]
        /\ token' \in [Tokens -> {"live", "revoked", "none", "deleted"}]
        /\ tokenOf' \in [Tokens -> Sessions \cup {NoSession}]
        /\ issued' \in [Tokens -> Nat]
  BY <1>1, <1>2, TokenIssued
<1>4. /\ session' \in [Sessions -> Rows]
      /\ session'[s] = "open"
      /\ \A x \in Sessions \ {s} :
            \/ session'[x] = session[x] /\ password' = password
            \/ session'[x] = IF session[x] = "open" THEN "revoked" ELSE session[x]
  BY <1>1, <1>2 DEF UserTypeOK, SessionsRevoked, Rows
<1>5. /\ today' \in Nat /\ password' \in Nat /\ late' \subseteq Sessions
      /\ lastUsed' \in [Sessions -> Nat] /\ knownBy' \in [Sessions -> Nat]
      /\ replayed' \subseteq Tokens
  BY <1>1, <1>2 DEF UserTypeOK
<1>6. \A u \in Tokens : token[u] \in {"live", "revoked"} => tokenOf[u] # s
  BY <1>1, <1>2 DEF UserTypeOK, TokensBelong
<1>7. TokensBelong'
  BY <1>2, <1>3, <1>4, <1>6 DEF UserTypeOK, TokensBelong
<1>8. OneLiveToken'
  BY <1>2, <1>3, <1>6 DEF UserInv, OneLiveToken
<1>9. ReplayedRevoked'
  <2> SUFFICES ASSUME NEW u \in replayed
               PROVE  token'[u] = "revoked" /\ session'[tokenOf'[u]] = "revoked"
    BY DEF ReplayedRevoked
  <2>1. token[u] = "revoked" /\ session[tokenOf[u]] = "revoked" /\ u \in Tokens
    BY <1>2 DEF UserInv, ReplayedRevoked, UserTypeOK
  <2>2. u # t /\ token'[u] = "revoked" /\ tokenOf'[u] = tokenOf[u] /\ tokenOf[u] \in Sessions \ {s}
    BY <1>2, <1>3, <1>6, <2>1 DEF UserTypeOK, TokensBelong
  <2> QED BY <1>4, <2>1, <2>2
<1>10. OpenKnow'
  <2> SUFFICES ASSUME NEW x \in Sessions, x \notin late', session'[x] = "open"
               PROVE  knownBy'[x] = password'
    BY DEF OpenKnow
  <2>1. CASE x = s
    BY <1>1, <1>2, <2>1 DEF UserTypeOK
  <2>2. CASE x # s
    <3>1. session[x] = "open" /\ password' = password
      BY <1>2, <1>4, <2>2 DEF UserTypeOK, Rows
    <3>2. knownBy'[x] = knownBy[x] /\ x \notin late
      BY <1>1, <1>2, <2>2 DEF UserTypeOK
    <3> QED BY <3>1, <3>2 DEF UserInv, OpenKnow
  <2> QED BY <2>1, <2>2
<1>11. IssuedBeforeUse'
  BY <1>1, <1>2, <1>3, <1>6 DEF UserInv, IssuedBeforeUse, UserTypeOK, TokensBelong
<1> QED BY <1>3, <1>4, <1>5, <1>7, <1>8, <1>9, <1>10, <1>11 DEF RowsInv

\* A step that revokes some of the tokens in T and some sessions; every session
\* that stays open does so under the same password, and a token it adds to
\* replayed was revoked and is of a session that is.
OnlyRevokes(T) ==
    /\ token' = TokensRevoked(T)
    /\ session' \in [Sessions -> Rows]
    /\ \A s \in Sessions :
          session'[s] = session[s] \/ (session[s] = "open" /\ session'[s] = "revoked")
    /\ password' \in Nat
    /\ \A s \in Sessions : session'[s] = "open" => password' = password
    /\ UNCHANGED <<today, lastUsed, knownBy, late, tokenOf, issued>>
    /\ \A t \in replayed' :
          \/ t \in replayed
          \/ t \in Tokens /\ token[t] = "revoked" /\ session'[tokenOf[t]] = "revoked"

LEMMA RowsRevoked ==
    ASSUME UserInv, NEW T \in SUBSET Tokens, OnlyRevokes(T)
    PROVE  RowsInv'
PROOF
<1>1. UserTypeOK
  BY DEF UserInv
<1>2. /\ token' \in [Tokens -> {"live", "revoked", "none", "deleted"}]
      /\ \A u \in Tokens : token'[u] = IF u \in T /\ token[u] = "live" THEN "revoked" ELSE token[u]
  BY <1>1 DEF OnlyRevokes, TokensRevoked, UserTypeOK
<1>3. UNCHANGED <<today, lastUsed, knownBy, late, tokenOf, issued>> /\ password' \in Nat
  BY DEF OnlyRevokes
<1>4. \A s \in Sessions :
         /\ session'[s] = session[s] \/ (session[s] = "open" /\ session'[s] = "revoked")
         /\ session'[s] = "open" => password' = password
  BY DEF OnlyRevokes
<1>5. TokensBelong'
  BY <1>1, <1>2, <1>3, <1>4 DEF UserTypeOK, TokensBelong
<1>6. OneLiveToken'
  BY <1>2, <1>3 DEF UserInv, OneLiveToken
<1>7. ASSUME NEW u \in replayed'
      PROVE  u \in Tokens /\ token'[u] = "revoked" /\ session'[tokenOf'[u]] = "revoked"
  <2>1. /\ u \in Tokens /\ token[u] = "revoked"
        /\ session[tokenOf[u]] = "revoked" \/ session'[tokenOf[u]] = "revoked"
    BY <1>1 DEF UserInv, ReplayedRevoked, UserTypeOK, OnlyRevokes
  <2>2. tokenOf[u] \in Sessions
    BY <1>1, <2>1 DEF UserTypeOK, TokensBelong
  <2> QED BY <1>2, <1>3, <1>4, <2>1, <2>2
<1>8. ReplayedRevoked' /\ replayed' \subseteq Tokens
  BY <1>7 DEF ReplayedRevoked
<1>9. OpenKnow'
  BY <1>1, <1>3, <1>4 DEF UserInv, OpenKnow, UserTypeOK
<1>10. IssuedBeforeUse'
  BY <1>1, <1>2, <1>3 DEF UserInv, IssuedBeforeUse, UserTypeOK
<1>11. session' \in [Sessions -> Rows]
  BY DEF OnlyRevokes
<1> QED BY <1>1, <1>2, <1>3, <1>5, <1>6, <1>8, <1>9, <1>10, <1>11 DEF RowsInv, UserTypeOK

-----------------------------------------------------------------------------

LEMMA InitKeeps == UserInit => UserInv
PROOF
<1> SUFFICES ASSUME UserInit PROVE UserInv
  OBVIOUS
<1>1. calls \in [Requests -> Call] /\ LoginsPast
  BY DEF UserInit, Call, LoginsPast, Idle
<1>2. RowsInv
  BY DEF UserInit, RowsInv, Rows, TokensBelong, OneLiveToken, ReplayedRevoked, OpenKnow,
         IssuedBeforeUse
<1> QED BY <1>1, <1>2, TwoHalves

\* Opening a session, by whichever proof of who the user is.
LEMMA OpeningKeeps ==
    ASSUME UserInv,
           \/ \E w \in Requests : FinishLogin(w)
           \/ GoogleLogin \/ ChangePassword \/ ConfirmEmailChange
    PROVE  UserInv'
PROOF
<1>1. UserTypeOK /\ LoginsPast /\ password \in Nat
  BY DEF UserInv, UserTypeOK
<1>2. token = TokensRevoked({})
  BY <1>1, NothingRevoked
<1>3. ASSUME NEW w \in Requests, FinishLogin(w) PROVE UserInv'
  <2>1. calls[w].password \in Nat /\ calls[w].password <= password
    BY <1>1, <1>3, Calls DEF FinishLogin, LoginsPast
  <2>2. RowsInv'
    BY <1>1, <1>2, <1>3, <2>1, AuthTokensIssued DEF FinishLogin
  <2>3. calls' = [calls EXCEPT ![w] = Idle] /\ password' = password
    BY <1>3 DEF FinishLogin
  <2>4. calls' \in [Requests -> Call] /\ LoginsPast'
    BY <1>1, <2>3, CallEnds
  <2> QED BY <2>2, <2>4, TwoHalvesPrimed
<1>4. CASE GoogleLogin
  <2>1. RowsInv'
    BY <1>1, <1>2, <1>4, AuthTokensIssued DEF GoogleLogin
  <2> QED BY <1>1, <1>4, <2>1, CallsStay, TwoHalvesPrimed DEF GoogleLogin
<1>5. CASE ChangePassword
  <2>1. password' = password + 1 /\ password' \in Nat
    BY <1>1, <1>5 DEF ChangePassword, NewPassword
  <2>2. RowsInv'
    BY <1>1, <1>5, <2>1, AuthTokensIssued DEF ChangePassword
  <2> QED BY <1>1, <1>5, <2>1, <2>2, CallsStay, TwoHalvesPrimed DEF ChangePassword
<1>6. CASE ConfirmEmailChange
  <2>1. RowsInv'
    BY <1>1, <1>6, AuthTokensIssued DEF ConfirmEmailChange
  <2> QED BY <1>1, <1>6, <2>1, CallsStay, TwoHalvesPrimed DEF ConfirmEmailChange
<1> QED BY <1>3, <1>4, <1>5, <1>6

\* Rotation: the one live token of a session gives way to the next.
LEMMA RefreshKeeps ==
    ASSUME UserInv, NEW r \in Tokens, Refresh(r)
    PROVE  UserInv'
PROOF
<1> DEFINE s == tokenOf[r]
<1>1. UserTypeOK /\ LoginsPast
  BY DEF UserInv
<1>2. s \in Sessions /\ token[r] = "live" /\ session[s] = "open"
  BY <1>1 DEF Refresh, Refreshable, UserTypeOK, TokensBelong
<1>3. lastUsed' = [lastUsed EXCEPT ![s] = today]
  BY DEF Refresh, Rotate
<1>4. IssueToken(s, TokensRevoked({r}))
  BY DEF Refresh, Rotate
<1>5. PICK t \in Tokens :
        /\ token[t] = "none" /\ token'[t] = "live" /\ tokenOf'[t] = s /\ issued'[t] = today
        /\ \A u \in Tokens \ {t} :
              /\ token'[u] = IF u \in {r} /\ token[u] = "live" THEN "revoked" ELSE token[u]
              /\ tokenOf'[u] = tokenOf[u] /\ issued'[u] = issued[u]
        /\ token' \in [Tokens -> {"live", "revoked", "none", "deleted"}]
        /\ tokenOf' \in [Tokens -> Sessions \cup {NoSession}]
        /\ issued' \in [Tokens -> Nat]
  BY <1>1, <1>2, <1>4, TokenIssued
<1>6. UNCHANGED <<today, password, session, knownBy, late, replayed, calls>>
  BY DEF Refresh
<1>7. t # r /\ token'[r] = "revoked"
  BY <1>2, <1>5
<1>8. TokensBelong'
  BY <1>1, <1>2, <1>5, <1>6 DEF UserTypeOK, TokensBelong
<1>9. OneLiveToken'
  <2> SUFFICES ASSUME NEW u \in Tokens, token'[u] = "live", u # t, tokenOf'[u] = s PROVE FALSE
    BY <1>5 DEF UserInv, OneLiveToken
  <2>1. u # r /\ token[u] = "live" /\ tokenOf[u] = s
    BY <1>5, <1>7
  <2> QED BY <1>2, <2>1 DEF UserInv, OneLiveToken
<1>10. ReplayedRevoked'
  <2> SUFFICES ASSUME NEW u \in replayed
               PROVE  token'[u] = "revoked" /\ session[tokenOf'[u]] = "revoked"
    BY <1>6 DEF ReplayedRevoked
  <2>1. u \in Tokens /\ token[u] = "revoked" /\ session[tokenOf[u]] = "revoked"
    BY <1>1 DEF UserInv, ReplayedRevoked, UserTypeOK
  <2> QED BY <1>5, <2>1
<1>11. OpenKnow'
  BY <1>6 DEF UserInv, OpenKnow
<1>12. IssuedBeforeUse'
  BY <1>1, <1>2, <1>3, <1>5, <1>6 DEF UserInv, IssuedBeforeUse, UserTypeOK, TokensBelong
<1>13. lastUsed' \in [Sessions -> Nat]
  BY <1>1, <1>3 DEF UserTypeOK
<1>14. RowsInv'
  BY <1>1, <1>5, <1>6, <1>8, <1>9, <1>10, <1>11, <1>12, <1>13 DEF RowsInv, UserTypeOK
<1> QED BY <1>1, <1>6, <1>14, CallsStay, TwoHalvesPrimed DEF UserTypeOK

\* Logging out, a reuse, a reset password, the super user.
LEMMA RevokingKeeps ==
    ASSUME UserInv,
           \/ \E t \in Tokens : DetectReuse(t) \/ Logout(t)
           \/ ResetPassword
           \/ \E w \in Requests : FinishRevoke(w)
    PROVE  UserInv'
PROOF
<1>1. UserTypeOK /\ LoginsPast /\ password \in Nat
  BY DEF UserInv, UserTypeOK
<1>2. \A T \in SUBSET Tokens : OnlyRevokes(T) => RowsInv'
  BY RowsRevoked
<1>3. ASSUME NEW t \in Tokens, DetectReuse(t) PROVE UserInv'
  <2> DEFINE s == tokenOf[t]
             T == {u \in Tokens : tokenOf[u] = s}
  <2>1. s \in Sessions /\ token[t] = "revoked" /\ session[s] \in {"open", "revoked"}
    BY <1>1, <1>3 DEF DetectReuse, UserTypeOK, TokensBelong
  <2>2. session' = [session EXCEPT ![s] = IF @ = "open" THEN "revoked" ELSE @]
    BY <1>3 DEF DetectReuse, EndSession
  <2>3. token' = TokensRevoked(T) /\ T \in SUBSET Tokens
    BY <1>3 DEF DetectReuse, EndSession
  <2>4. /\ replayed' = replayed \cup {t}
        /\ UNCHANGED <<today, password, lastUsed, knownBy, late, tokenOf, issued, calls>>
    BY <1>3 DEF DetectReuse
  <2>5. session' \in [Sessions -> Rows] /\ session'[s] = "revoked"
    BY <1>1, <2>1, <2>2 DEF UserTypeOK, Rows
  <2>6. \A x \in Sessions : session'[x] = session[x] \/ (session[x] = "open" /\ session'[x] = "revoked")
    BY <1>1, <2>2 DEF UserTypeOK
  <2>7. \A u \in replayed' :
           \/ u \in replayed
           \/ u \in Tokens /\ token[u] = "revoked" /\ session'[tokenOf[u]] = "revoked"
    BY <2>1, <2>4, <2>5
  <2>8. OnlyRevokes(T)
    <3> HIDE DEF T
    <3> QED BY <1>1, <2>3, <2>4, <2>5, <2>6, <2>7 DEF OnlyRevokes
  <2> QED BY <1>1, <1>2, <2>3, <2>4, <2>8, CallsStay, TwoHalvesPrimed
<1>4. ASSUME NEW t \in Tokens, Logout(t) PROVE UserInv'
  <2>1. OnlyRevokes({t})
    BY <1>1, <1>4 DEF Logout, sessionVars, OnlyRevokes, UserTypeOK
  <2> QED BY <1>1, <1>2, <1>4, <2>1, CallsStay, TwoHalvesPrimed DEF Logout
<1>5. CASE ResetPassword
  <2>1. session' = SessionsRevoked /\ token' = TokensRevoked(Tokens) /\ password' = password + 1
    BY <1>5 DEF ResetPassword, NewPassword
  <2>2. UNCHANGED <<today, lastUsed, knownBy, late, tokenOf, issued, replayed, calls>>
    BY <1>5 DEF ResetPassword
  <2>3. /\ session' \in [Sessions -> Rows]
        /\ \A s \in Sessions :
              /\ session'[s] # "open"
              /\ session'[s] = session[s] \/ (session[s] = "open" /\ session'[s] = "revoked")
    BY <1>1, <2>1 DEF SessionsRevoked, UserTypeOK, Rows
  <2>4. OnlyRevokes(Tokens)
    BY <1>1, <2>1, <2>2, <2>3 DEF OnlyRevokes
  <2> QED BY <1>1, <1>2, <2>1, <2>2, <2>4, CallsStay, TwoHalvesPrimed
<1>6. ASSUME NEW w \in Requests, FinishRevoke(w) PROVE UserInv'
  <2>1. calls[w].seen \in SUBSET Tokens
    BY <1>1, <1>6, Calls DEF FinishRevoke
  <2>2. OnlyRevokes(calls[w].seen)
    BY <1>1, <1>6 DEF FinishRevoke, sessionVars, OnlyRevokes, UserTypeOK
  <2>3. calls' = [calls EXCEPT ![w] = Idle] /\ password' = password
    BY <1>6 DEF FinishRevoke
  <2>4. calls' \in [Requests -> Call] /\ LoginsPast'
    BY <1>1, <2>3, CallEnds
  <2> QED BY <1>2, <2>1, <2>2, <2>4, TwoHalvesPrimed
<1> QED BY <1>3, <1>4, <1>5, <1>6

\* The steps that touch no row, and the cleanup.
LEMMA TheRestKeeps ==
    ASSUME UserInv,
           \/ \E w \in Requests : StartLogin(w) \/ StartRevoke(w) \/ FailRequest(w)
           \/ NextDay
           \/ \E S \in SUBSET Sessions : CleanupExpiredUserSessions(S)
           \/ UNCHANGED userVars
    PROVE  UserInv'
PROOF
<1>1. UserTypeOK /\ LoginsPast /\ RowsInv
  BY TwoHalves DEF UserInv
<1>2. ASSUME UNCHANGED <<today, password, sessionVars, tokenVars, replayed>> PROVE RowsInv'
  BY <1>1, <1>2 DEF RowsInv, sessionVars, tokenVars, TokensBelong, OneLiveToken, ReplayedRevoked,
                    OpenKnow, IssuedBeforeUse
<1>3. ASSUME NEW w \in Requests, StartLogin(w) PROVE UserInv'
  <2>1. RowsInv'
    BY <1>2, <1>3 DEF StartLogin
  <2>2. calls' \in [Requests -> Call]
    BY <1>1, <1>3 DEF StartLogin, UserTypeOK, Call
  <2>3. LoginsPast'
    <3>1. calls' = [calls EXCEPT ![w] = [op |-> "login", password |-> password]] /\ password' = password
      BY <1>3 DEF StartLogin
    <3>2. calls'[w].password <= password'
      BY <1>1, <3>1 DEF UserTypeOK
    <3>3. \A x \in Requests \ {w} : calls'[x] = calls[x]
      BY <1>1, <3>1 DEF UserTypeOK
    <3> QED BY <1>1, <3>1, <3>2, <3>3 DEF LoginsPast
  <2> QED BY <2>1, <2>2, <2>3, TwoHalvesPrimed
<1>4. ASSUME NEW w \in Requests, StartRevoke(w) PROVE UserInv'
  <2> DEFINE live == {t \in Tokens : token[t] = "live"}
  <2>1. RowsInv'
    BY <1>2, <1>4 DEF StartRevoke
  <2>2. calls' = [calls EXCEPT ![w] = [op |-> "revoke", seen |-> live]] /\ password' = password
    BY <1>4 DEF StartRevoke
  <2>3. calls' \in [Requests -> Call]
    <3>1. live \in SUBSET Tokens
      OBVIOUS
    <3> HIDE DEF live
    <3> QED BY <1>1, <2>2, <3>1 DEF UserTypeOK, Call
  <2>4. LoginsPast'
    <3> HIDE DEF live
    <3>1. calls'[w].op = "revoke" /\ \A x \in Requests \ {w} : calls'[x] = calls[x]
      BY <1>1, <2>2 DEF UserTypeOK
    <3> QED BY <1>1, <2>2, <3>1 DEF LoginsPast
  <2> QED BY <2>1, <2>3, <2>4, TwoHalvesPrimed
<1>5. ASSUME NEW w \in Requests, FailRequest(w) PROVE UserInv'
  <2>1. RowsInv'
    BY <1>2, <1>5 DEF FailRequest
  <2>2. calls' = [calls EXCEPT ![w] = Idle] /\ password' = password
    BY <1>5 DEF FailRequest
  <2>3. calls' \in [Requests -> Call] /\ LoginsPast'
    BY <1>1, <2>2, CallEnds
  <2> QED BY <2>1, <2>3, TwoHalvesPrimed
<1>6. CASE NextDay
  <2>1. today' = today + 1 /\ UNCHANGED <<password, sessionVars, tokenVars, replayed, calls>>
    BY <1>6 DEF NextDay
  <2>2. RowsInv'
    BY <1>1, <2>1 DEF RowsInv, sessionVars, tokenVars, TokensBelong, OneLiveToken, ReplayedRevoked,
                      OpenKnow, IssuedBeforeUse
  <2>3. calls' \in [Requests -> Call] /\ LoginsPast'
    BY <1>1, <2>1, CallsStay DEF UserTypeOK
  <2> QED BY <2>2, <2>3, TwoHalvesPrimed
<1>7. ASSUME NEW S \in SUBSET Sessions, CleanupExpiredUserSessions(S) PROVE UserInv'
  <2> DEFINE gone == {t \in Tokens : tokenOf[t] \in S}
  <2>1. /\ session' = [s \in Sessions |-> IF s \in S THEN "deleted" ELSE session[s]]
        /\ token' = [t \in Tokens |-> IF t \in gone THEN "deleted" ELSE token[t]]
        /\ replayed' = replayed \ gone
        /\ UNCHANGED <<today, password, lastUsed, knownBy, late, tokenOf, issued, calls>>
    BY <1>7 DEF CleanupExpiredUserSessions, DeleteSessions
  <2>2. /\ session' \in [Sessions -> Rows]
        /\ token' \in [Tokens -> {"live", "revoked", "none", "deleted"}]
    BY <1>1, <2>1 DEF UserTypeOK, Rows
  <2>3. TokensBelong' /\ OneLiveToken' /\ OpenKnow' /\ IssuedBeforeUse'
    BY <1>1, <2>1 DEF RowsInv, TokensBelong, OneLiveToken, OpenKnow, IssuedBeforeUse
  <2>4. ReplayedRevoked' /\ replayed' \subseteq Tokens
    BY <1>1, <2>1 DEF RowsInv, ReplayedRevoked, TokensBelong
  <2>5. RowsInv'
    BY <1>1, <2>1, <2>2, <2>3, <2>4 DEF RowsInv
  <2>6. calls' \in [Requests -> Call] /\ LoginsPast'
    BY <1>1, <2>1, CallsStay DEF UserTypeOK
  <2> QED BY <2>5, <2>6, TwoHalvesPrimed
<1>8. CASE UNCHANGED userVars
  <2>1. RowsInv'
    BY <1>2, <1>8 DEF userVars
  <2>2. calls' \in [Requests -> Call] /\ LoginsPast'
    BY <1>1, <1>8, CallsStay DEF UserTypeOK, userVars
  <2> QED BY <2>1, <2>2, TwoHalvesPrimed
<1> QED BY <1>3, <1>4, <1>5, <1>6, <1>7, <1>8

LEMMA StepKeeps == UserInv /\ [UserNext]_userVars => UserInv'
PROOF
BY OpeningKeeps, RefreshKeeps, RevokingKeeps, TheRestKeeps DEF UserNext, User, Request

LEMMA UserInvariant == UserSpec => []UserInv
PROOF
BY InitKeeps, StepKeeps, PTL DEF UserSpec

-----------------------------------------------------------------------------

\* Sessions, tokens and requests keep their types, and every token that is left
\* belongs to a session that is left (the foreign key).
THEOREM UserTypeCorrect == UserSpec => []UserTypeOK
PROOF
<1>1. UserInv => UserTypeOK
  BY DEF UserInv
<1> QED BY <1>1, UserInvariant, PTL

\* A session has one live token at most.
THEOREM OneHolder == UserSpec => []OneLiveToken
PROOF
<1>1. UserInv => OneLiveToken
  BY DEF UserInv
<1> QED BY <1>1, UserInvariant, PTL

\* A token presented twice ends its session for good.
THEOREM ReplayIsTheEnd == UserSpec => []ReplayEndsSession
PROOF
<1>1. UserInv => ReplayEndsSession
  <2> SUFFICES ASSUME UserInv, NEW t \in replayed, Usable(tokenOf[t]) PROVE FALSE
    BY DEF ReplayEndsSession
  <2>1. session[tokenOf[t]] = "revoked"
    BY DEF UserInv, ReplayedRevoked
  <2> QED BY <2>1 DEF Usable
<1> QED BY <1>1, UserInvariant, PTL

\* A new password ends every session but those of overtaken logins.
THEOREM NewPasswordRules == UserSpec => []NewPasswordEndsOthers
PROOF
<1>1. UserInv => NewPasswordEndsOthers
  BY DEF UserInv, OpenKnow, NewPasswordEndsOthers, Usable
<1> QED BY <1>1, UserInvariant, PTL

\* The cleanup deletes only what nobody can use, whatever TokenDays <= IdleDays.
THEOREM CleanupIsHarmless == UserSpec => []IdleAreUseless
PROOF
<1>1. UserInv => IdleAreUseless
  <2> SUFFICES ASSUME UserInv, NEW s \in Sessions, IdleSession(s),
                      NEW t \in Tokens, tokenOf[t] = s, token[t] = "live", ~Expired(t)
               PROVE  FALSE
    BY DEF IdleAreUseless, Usable
  <2>1. issued[t] <= lastUsed[s]
    BY DEF UserInv, IssuedBeforeUse
  <2>2. ~(issued[t] + TokenDays < today) /\ lastUsed[s] + IdleDays < today
    BY DEF Expired, IdleSession
  <2>3. issued[t] \in Nat /\ lastUsed[s] \in Nat /\ today \in Nat
    BY DEF UserInv, UserTypeOK
  <2> QED BY <2>1, <2>2, <2>3, DaysAssumption
<1> QED BY <1>1, UserInvariant, PTL

\* Both.
THEOREM TokensAreHeld == UserSpec => []TokensHold
PROOF
<1>1. OneLiveToken /\ IdleAreUseless => TokensHold
  BY DEF TokensHold
<1> QED BY <1>1, OneHolder, CleanupIsHarmless, PTL

-----------------------------------------------------------------------------

\* A token that is live after the step was live before it, or is the first of a
\* new session, or follows one that could still be refreshed; and sessions open
\* from nothing only.
StaysEnded ==
    /\ today' \in Nat /\ today' >= today
    /\ \A s \in Sessions : session'[s] = "open" => session[s] \in {"open", "none"}
    /\ \A t \in Tokens : token'[t] = "live" =>
          /\ tokenOf'[t] \in Sessions
          /\ \/ token[t] = "live" /\ tokenOf'[t] = tokenOf[t] /\ issued'[t] = issued[t]
             \/ session[tokenOf'[t]] = "none"
             \/ Usable(tokenOf'[t])

LEMMA EndedIfStaysEnded ==
    ASSUME UserTypeOK, StaysEnded, NEW s \in Sessions, session[s] # "none", Usable(s)'
    PROVE  Usable(s)
PROOF
<1>1. PICK t \in Tokens : tokenOf'[t] = s /\ token'[t] = "live" /\ ~Expired(t)'
  BY DEF Usable
<1>2. token'[t] = "live" /\ ~(issued'[t] + TokenDays < today') /\ session'[s] = "open"
  BY <1>1 DEF Expired, Usable
<1>3. CASE Usable(tokenOf'[t])
  BY <1>1, <1>3
<1>4. CASE token[t] = "live" /\ tokenOf'[t] = tokenOf[t] /\ issued'[t] = issued[t]
  <2>1. ~(issued[t] + TokenDays < today)
    <3>1. issued[t] \in Nat /\ today \in Nat /\ today' \in Nat /\ today' >= today
      BY DEF UserTypeOK, StaysEnded
    <3> QED BY <1>2, <1>4, <3>1, DaysAssumption
  <2>2. session[s] = "open"
    BY <1>2 DEF StaysEnded
  <2> QED BY <1>1, <1>4, <2>1, <2>2 DEF Usable, Expired
<1> QED BY <1>1, <1>2, <1>3, <1>4 DEF StaysEnded

LEMMA OpeningLetsEnd ==
    ASSUME UserTypeOK, NEW known, NEW S, NEW T \in SUBSET Tokens,
           IssueAuthTokens(known, S, TokensRevoked(T)),
           S \in {session, SessionsRevoked}, today' = today
    PROVE  StaysEnded
PROOF
<1>1. PICK s \in Sessions :
        /\ session[s] = "none"
        /\ session' = [S EXCEPT ![s] = "open"]
        /\ IssueToken(s, TokensRevoked(T))
  BY DEF IssueAuthTokens
<1>2. PICK t \in Tokens :
        /\ token[t] = "none" /\ token'[t] = "live" /\ tokenOf'[t] = s /\ issued'[t] = today
        /\ \A u \in Tokens \ {t} :
              /\ token'[u] = IF u \in T /\ token[u] = "live" THEN "revoked" ELSE token[u]
              /\ tokenOf'[u] = tokenOf[u] /\ issued'[u] = issued[u]
        /\ token' \in [Tokens -> {"live", "revoked", "none", "deleted"}]
        /\ tokenOf' \in [Tokens -> Sessions \cup {NoSession}]
        /\ issued' \in [Tokens -> Nat]
  BY <1>1, TokenIssued
<1>3. \A x \in Sessions : session'[x] = "open" => session[x] \in {"open", "none"}
  BY <1>1 DEF UserTypeOK, SessionsRevoked
<1>4. ASSUME NEW u \in Tokens, token'[u] = "live"
      PROVE  /\ tokenOf'[u] \in Sessions
             /\ \/ token[u] = "live" /\ tokenOf'[u] = tokenOf[u] /\ issued'[u] = issued[u]
                \/ session[tokenOf'[u]] = "none"
  <2>1. CASE u = t
    BY <1>1, <1>2, <2>1
  <2>2. CASE u # t
    BY <1>2, <1>4, <2>2 DEF UserTypeOK, TokensBelong
  <2> QED BY <2>1, <2>2
<1>5. today' \in Nat /\ today' >= today
  BY DEF UserTypeOK
<1> QED BY <1>3, <1>4, <1>5 DEF StaysEnded

LEMMA RefreshLetsEnd ==
    ASSUME UserTypeOK, NEW r \in Tokens, Refresh(r)
    PROVE  StaysEnded
PROOF
<1> DEFINE s == tokenOf[r]
<1>1. s \in Sessions /\ Usable(s)
  BY DEF Refresh, Refreshable, UserTypeOK, TokensBelong, Usable
<1>2. IssueToken(s, TokensRevoked({r})) /\ UNCHANGED <<today, session>>
  BY DEF Refresh, Rotate
<1>3. PICK t \in Tokens :
        /\ token[t] = "none" /\ token'[t] = "live" /\ tokenOf'[t] = s /\ issued'[t] = today
        /\ \A u \in Tokens \ {t} :
              /\ token'[u] = IF u \in {r} /\ token[u] = "live" THEN "revoked" ELSE token[u]
              /\ tokenOf'[u] = tokenOf[u] /\ issued'[u] = issued[u]
        /\ token' \in [Tokens -> {"live", "revoked", "none", "deleted"}]
        /\ tokenOf' \in [Tokens -> Sessions \cup {NoSession}]
        /\ issued' \in [Tokens -> Nat]
  BY <1>1, <1>2, TokenIssued
<1>4. ASSUME NEW u \in Tokens, token'[u] = "live"
      PROVE  /\ tokenOf'[u] \in Sessions
             /\ \/ token[u] = "live" /\ tokenOf'[u] = tokenOf[u] /\ issued'[u] = issued[u]
                \/ Usable(tokenOf'[u])
  <2>1. CASE u = t
    <3> HIDE DEF s
    <3> QED BY <1>1, <1>3, <2>1
  <2>2. CASE u # t
    BY <1>3, <1>4, <2>2 DEF UserTypeOK, TokensBelong
  <2> QED BY <2>1, <2>2
<1>5. today' \in Nat /\ today' >= today
  BY <1>2 DEF UserTypeOK
<1> QED BY <1>2, <1>4, <1>5 DEF StaysEnded

\* The steps that issue nothing.
LEMMA TheRestLetsEnd ==
    ASSUME UserTypeOK,
           \/ \E t \in Tokens : DetectReuse(t) \/ Logout(t)
           \/ ResetPassword
           \/ \E w \in Requests :
                 StartLogin(w) \/ StartRevoke(w) \/ FinishRevoke(w) \/ FailRequest(w)
           \/ NextDay
           \/ \E S \in SUBSET Sessions : CleanupExpiredUserSessions(S)
           \/ UNCHANGED userVars
    PROVE  StaysEnded
PROOF
<1>1. SUFFICES /\ today' \in {today, today + 1} /\ UNCHANGED <<tokenOf, issued>>
               /\ \A s \in Sessions : session'[s] = "open" => session[s] = "open"
               /\ \A t \in Tokens : token'[t] = "live" => token[t] = "live"
  BY DEF StaysEnded, UserTypeOK, TokensBelong
<1>2. \A T : \A t \in Tokens : TokensRevoked(T)[t] = "live" => token[t] = "live"
  BY DEF TokensRevoked
<1>3. ASSUME NEW t \in Tokens, DetectReuse(t)
      PROVE  /\ UNCHANGED <<today, tokenOf, issued>> /\ \E T : token' = TokensRevoked(T)
             /\ \A s \in Sessions : session'[s] = "open" => session[s] = "open"
  BY <1>3 DEF DetectReuse, EndSession, UserTypeOK
<1>4. CASE ResetPassword
  BY <1>2, <1>4 DEF ResetPassword, SessionsRevoked
<1>5. CASE \E t \in Tokens : DetectReuse(t) \/ Logout(t)
  BY <1>2, <1>3, <1>5 DEF Logout, sessionVars
<1>6. ASSUME NEW w \in Requests,
             StartLogin(w) \/ StartRevoke(w) \/ FinishRevoke(w) \/ FailRequest(w)
      PROVE  /\ UNCHANGED <<today, tokenOf, issued, session>>
             /\ token' = token \/ token' = TokensRevoked(calls[w].seen)
  BY <1>6 DEF StartLogin, StartRevoke, FinishRevoke, FailRequest, sessionVars, tokenVars
<1>7. CASE NextDay
  BY <1>7 DEF NextDay, sessionVars, tokenVars
<1>8. ASSUME NEW S \in SUBSET Sessions, CleanupExpiredUserSessions(S)
      PROVE  /\ UNCHANGED <<today, tokenOf, issued>>
             /\ \A s \in Sessions : session'[s] = "open" => session[s] = "open"
             /\ \A t \in Tokens : token'[t] = "live" => token[t] = "live"
  BY <1>8 DEF CleanupExpiredUserSessions, DeleteSessions
<1>9. CASE UNCHANGED userVars
  BY <1>9 DEF userVars, sessionVars, tokenVars
<1> QED BY <1>2, <1>4, <1>5, <1>6, <1>7, <1>8, <1>9

\* What a logout, an expiry, a reuse, a new password or a super user ended is
\* never used again.
THEOREM TheEndedStayEnded == UserSpec => EndedStaysEnded
PROOF
<1>1. ASSUME UserTypeOK, [UserNext]_userVars PROVE StaysEnded
  <2>1. token = TokensRevoked({})
    BY <1>1, NothingRevoked
  <2>2. ASSUME NEW w \in Requests, FinishLogin(w) PROVE StaysEnded
    BY <1>1, <2>1, <2>2, OpeningLetsEnd DEF FinishLogin
  <2>3. CASE GoogleLogin
    BY <1>1, <2>1, <2>3, OpeningLetsEnd DEF GoogleLogin
  <2>4. CASE ChangePassword
    BY <1>1, <2>4, OpeningLetsEnd DEF ChangePassword
  <2>5. CASE ConfirmEmailChange
    BY <1>1, <2>5, OpeningLetsEnd DEF ConfirmEmailChange
  <2> QED BY <1>1, <2>2, <2>3, <2>4, <2>5, RefreshLetsEnd, TheRestLetsEnd
          DEF UserNext, User, Request
<1>2. UserTypeOK /\ [UserNext]_userVars =>
        [\A s \in Sessions : session[s] # "none" /\ ~Usable(s) => ~Usable(s)']_userVars
  BY <1>1, EndedIfStaysEnded
<1> QED BY <1>2, UserTypeCorrect, PTL DEF UserSpec, EndedStaysEnded

-----------------------------------------------------------------------------
(* The browser.                                                            *)
-----------------------------------------------------------------------------

BrowserOps == {"login", "refresh", "logout", "changePassword", "acceptAdminInvite"}

Cookies == [access : BOOLEAN, refresh : Tokens \cup {NoToken}]

TabStates ==
    {Resting}
    \cup [op : BrowserOps, client : Clients, carried : Tokens \cup {NoToken}, stage : {"sent"}]
    \cup [op : BrowserOps, client : Clients, carried : Tokens \cup {NoToken}, stage : {"answered"},
          cookies : [set : SUBSET Clients, to : Cookies]]

BrowserTypeOK ==
    /\ jar \in [Clients -> Cookies]
    /\ tabs \in [Tabs -> TabStates]
    /\ disturbed \subseteq Sessions /\ endedFor \subseteq Sessions /\ left \subseteq Sessions

Busy(w) == tabs[w] # Resting
Answered(w) == tabs[w].stage = "answered"
Brought(w) == tabs[w].cookies.to.refresh
Issued(t) == t \in Tokens /\ token[t] \in {"live", "revoked"}

\* What is in the cookies of a client, under way from them, or on its way to
\* them.
Held(c) ==
    ({jar[c].refresh}
     \cup {tabs[w].carried : w \in {v \in Tabs : Busy(v) /\ tabs[v].client = c}}
     \cup {Brought(w) : w \in {v \in Tabs : Answered(v) /\ c \in tabs[v].cookies.set}}) \ {NoToken}

HeldAreIssued ==
    /\ \A c \in Clients : jar[c].refresh # NoToken => Issued(jar[c].refresh)
    /\ \A w \in Tabs : Busy(w) /\ tabs[w].carried # NoToken => Issued(tabs[w].carried)
    /\ \A w \in Tabs : Busy(w) /\ tabs[w].op = "refresh" => tabs[w].carried # NoToken
    /\ \A w \in Tabs : Answered(w) /\ Brought(w) # NoToken => Issued(Brought(w))

\* No session is used by both clients.
KeptApart == \A t \in Held("store"), u \in Held("admin") : tokenOf[t] # tokenOf[u]

Histories ==
    /\ \A s \in endedFor : session[s] = "revoked"
    /\ \A s \in Sessions : session[s] = "revoked" => s \in disturbed \cup endedFor
    /\ \A s \in left : session[s] # "none"
    /\ today = 0

Of(t, s) == t # NoToken /\ tokenOf[t] = s
Takes(w, s) == Busy(w) /\ Of(tabs[w].carried, s)
Brings(w, s) == Answered(w) /\ Of(Brought(w), s)
Has(c, s) == Of(jar[c].refresh, s)
NoneLive(s) == \A t \in Tokens : tokenOf[t] = s => token[t] # "live"

\* A session of which no two requests carried a token at a time, none was lost,
\* and that no new password ended.  One request at most takes a token of it
\* along, the one in the cookies; an answer that brings one is alone with it;
\* and a token that was spent is replaced when the answer arrives.
Quiet == Sessions \ (disturbed \cup endedFor)

OneTaker(s) == \A v, w \in Tabs : Takes(v, s) /\ Takes(w, s) => v = w

TakenFromJar(s) ==
    \A w \in Tabs, c \in Clients : Takes(w, s) /\ Has(c, s) => jar[c].refresh = tabs[w].carried

BroughtIsGood(s) ==
    \A w \in Tabs : Brings(w, s) =>
        /\ token[Brought(w)] = "live"
        /\ \A v \in Tabs : Takes(v, s) \/ Brings(v, s) => v = w
        /\ \A c \in Clients : Has(c, s) => jar[c].refresh = tabs[w].carried

SpentIsAnswered(s) ==
    \A w \in Tabs : Takes(w, s) /\ token[tabs[w].carried] # "live" =>
        Answered(w) /\ tabs[w].cookies.set = {tabs[w].client}

LeftIsDead(s) ==
    /\ s \in left => NoneLive(s)
    /\ \A w \in Tabs : Answered(w) /\ tabs[w].op = "logout" /\ Takes(w, s) => NoneLive(s)

QuietHold(s) == OneTaker(s) /\ TakenFromJar(s) /\ BroughtIsGood(s) /\ SpentIsAnswered(s) /\ LeftIsDead(s)

BrowserInv ==
    /\ BrowserTypeOK
    /\ HeldAreIssued
    /\ KeptApart
    /\ Histories
    /\ \A s \in Quiet : QuietHold(s)
    /\ CookieIsGood

-----------------------------------------------------------------------------

\* What the types say of a tab.
LEMMA TabFacts ==
    ASSUME BrowserTypeOK, NEW w \in Tabs
    PROVE  /\ Busy(w) => /\ tabs[w].op \in BrowserOps /\ tabs[w].client \in Clients
                         /\ tabs[w].carried \in Tokens \cup {NoToken}
                         /\ tabs[w].stage \in {"sent", "answered"}
           /\ Answered(w) => /\ Busy(w) /\ tabs[w].cookies.set \in SUBSET Clients
                             /\ tabs[w].cookies.to \in Cookies /\ Brought(w) \in Tokens \cup {NoToken}
           /\ tabs[w].stage = "sent" => Busy(w) /\ ~Answered(w)
           /\ Answered(w) \/ tabs[w].stage = "sent" \/ tabs[w] = Resting
PROOF
<1>1. CASE tabs[w] = Resting
  BY <1>1 DEF Busy, Answered, Resting
<1>2. CASE tabs[w] \in [op : BrowserOps, client : Clients, carried : Tokens \cup {NoToken}, stage : {"sent"}]
  BY <1>2 DEF Busy, Answered, Resting
<1>3. CASE tabs[w] \in [op : BrowserOps, client : Clients, carried : Tokens \cup {NoToken}, stage : {"answered"},
          cookies : [set : SUBSET Clients, to : Cookies]]
  BY <1>3 DEF Busy, Answered, Resting, Brought, Cookies
<1> QED BY <1>1, <1>2, <1>3 DEF BrowserTypeOK, TabStates

\* What an answer changes.
LEMMA AnswerFacts ==
    ASSUME BrowserTypeOK, NEW w \in Tabs, tabs[w].stage = "sent",
           NEW set \in SUBSET Clients, NEW to \in Cookies,
           Answer(w, [set |-> set, to |-> to])
    PROVE  /\ tabs' \in [Tabs -> TabStates]
           /\ Answered(w)' /\ tabs'[w].cookies.set = set /\ Brought(w)' = to.refresh
           /\ \A v \in Tabs \ {w} : tabs'[v] = tabs[v]
           /\ \A v \in Tabs : Busy(v)' = Busy(v)
           /\ \A v \in Tabs : Busy(v) => /\ tabs'[v].op = tabs[v].op
                                         /\ tabs'[v].client = tabs[v].client
                                         /\ tabs'[v].carried = tabs[v].carried
PROOF
<1> DEFINE r == [op |-> tabs[w].op, client |-> tabs[w].client, carried |-> tabs[w].carried,
                 stage |-> "answered", cookies |-> [set |-> set, to |-> to]]
<1>1. tabs' = [tabs EXCEPT ![w] = r]
  BY DEF Answer
<1>2. Busy(w) /\ tabs[w].op \in BrowserOps /\ tabs[w].client \in Clients /\ tabs[w].carried \in Tokens \cup {NoToken}
  BY TabFacts
<1>3. /\ r \in TabStates /\ r # Resting
      /\ r.stage = "answered" /\ r.cookies.set = set /\ r.cookies.to.refresh = to.refresh
      /\ r.op = tabs[w].op /\ r.client = tabs[w].client /\ r.carried = tabs[w].carried
  BY <1>2 DEF TabStates, Resting
<1> HIDE DEF r
<1>4. tabs'[w] = r /\ \A v \in Tabs \ {w} : tabs'[v] = tabs[v]
  BY <1>1 DEF BrowserTypeOK
<1>5. tabs' \in [Tabs -> TabStates]
  BY <1>1, <1>3 DEF BrowserTypeOK
<1> QED BY <1>2, <1>3, <1>4, <1>5 DEF Busy, Answered, Brought


\* An answer of the server.  It keeps what the browser may rely on if every token
\* that it revokes is the one that was carried, and is replaced in the cookies,
\* or belongs to a session that was disturbed or ended; if a token that it brings
\* is of a new session or of the one that asked; and if it wakes no session that
\* was left.
LEMMA ServeStep ==
    ASSUME BrowserInv, UserInv, UserInv', NEW w \in Tabs, tabs[w].stage = "sent",
           NEW set \in SUBSET Clients, NEW to \in Cookies,
           Answer(w, [set |-> set, to |-> to]),
           UNCHANGED <<jar, disturbed, left>>, endedFor \subseteq endedFor', endedFor' \subseteq Sessions,
           Histories',
           \A t \in Tokens : Issued(t) => Issued(t)' /\ tokenOf'[t] = tokenOf[t],
           \A t \in Tokens : token[t] = "live" /\ token'[t] # "live" /\ tokenOf[t] \in Quiet' =>
               t = tabs[w].carried /\ set = {tabs[w].client},
           to.refresh # NoToken =>
               /\ token'[to.refresh] = "live" /\ ~Issued(to.refresh)
               /\ \E c \in Clients : set = {c}
               /\ \/ \A t \in Tokens : Issued(t) => tokenOf[t] # tokenOf'[to.refresh]
                  \/ /\ Of(tabs[w].carried, tokenOf'[to.refresh])
                     /\ set = {tabs[w].client},
           \A s \in Quiet' : session[s] # "none" /\ NoneLive(s) => NoneLive(s)',
           \A s \in Quiet' : tabs[w].op = "logout" /\ Of(tabs[w].carried, s) => NoneLive(s)'
    PROVE  BrowserInv'
PROOF
<1>1. /\ tabs' \in [Tabs -> TabStates]
      /\ Answered(w)' /\ tabs'[w].cookies.set = set /\ Brought(w)' = to.refresh
      /\ \A v \in Tabs \ {w} : tabs'[v] = tabs[v]
      /\ \A v \in Tabs : Busy(v)' = Busy(v)
      /\ \A v \in Tabs : Busy(v) => /\ tabs'[v].op = tabs[v].op
                                    /\ tabs'[v].client = tabs[v].client
                                    /\ tabs'[v].carried = tabs[v].carried
  BY AnswerFacts DEF BrowserInv
<1>2. /\ BrowserTypeOK /\ HeldAreIssued /\ KeptApart /\ Histories /\ CookieIsGood
      /\ \A s \in Quiet : QuietHold(s)
      /\ Quiet' \subseteq Quiet
  BY DEF BrowserInv, Quiet
<1>3. Busy(w) /\ ~Answered(w) /\ tabs[w].client \in Clients /\ tabs[w].carried \in Tokens \cup {NoToken}
  BY <1>2, TabFacts
<1>4. \A v \in Tabs : Answered(v) => Busy(v)
  BY <1>2, TabFacts
<1>5. /\ \A v \in Tabs \ {w} : Answered(v)' = Answered(v) /\ Brought(v)' = Brought(v)
      /\ to.refresh \in Tokens \cup {NoToken}
  BY <1>1 DEF Answered, Brought, Cookies
<1>6. BrowserTypeOK'
  BY <1>1, <1>2 DEF BrowserTypeOK
<1>7. HeldAreIssued'
  <2>1. \A c \in Clients : jar'[c].refresh # NoToken => Issued(jar[c].refresh)'
    BY <1>2 DEF HeldAreIssued, Issued
  <2>2. \A v \in Tabs : Busy(v)' /\ tabs'[v].carried # NoToken => Issued(tabs[v].carried)'
    BY <1>1, <1>2 DEF HeldAreIssued, Issued
  <2>3. \A v \in Tabs : Answered(v)' /\ Brought(v)' # NoToken => Issued(Brought(v))'
    BY <1>1, <1>2, <1>5 DEF HeldAreIssued, Issued
  <2>4. \A v \in Tabs : Busy(v)' /\ tabs'[v].op = "refresh" => tabs'[v].carried # NoToken
    BY <1>1, <1>2 DEF HeldAreIssued
  <2> QED BY <2>1, <2>2, <2>3, <2>4 DEF HeldAreIssued
<1>8. \A s : /\ \A v \in Tabs : Takes(v, s)' = Takes(v, s)
             /\ \A v \in Tabs \ {w} : Brings(v, s)' = Brings(v, s)
             /\ \A c \in Clients : Has(c, s)' = Has(c, s)
  <2>1. \A s : \A v \in Tabs : Takes(v, s)' = Takes(v, s)
    BY <1>1, <1>2 DEF Takes, Of, HeldAreIssued, Issued
  <2>2. \A s : \A v \in Tabs \ {w} : Brings(v, s)' = Brings(v, s)
    BY <1>2, <1>5 DEF Brings, Of, HeldAreIssued, Issued
  <2>3. \A s : \A c \in Clients : Has(c, s)' = Has(c, s)
    BY <1>2 DEF Has, Of, HeldAreIssued, Issued
  <2> QED BY <2>1, <2>2, <2>3
<1>9. KeptApart'
  <2>1. \A c \in Clients : Held(c)' \subseteq Held(c) \cup (IF c \in set THEN {to.refresh} ELSE {})
    BY <1>1, <1>2, <1>4, <1>5 DEF Held
  <2>2. \A c \in Clients : \A t \in Held(c) : Issued(t)
    BY <1>2 DEF HeldAreIssued, Held
  <2>3. tabs[w].carried # NoToken => tabs[w].carried \in Held(tabs[w].client)
    BY <1>3 DEF Held
  <2>4. \A c \in Clients : NoToken \notin Held(c)'
    BY DEF Held
  <2>5. \A c \in Clients : \A t \in Held(c) : t \in Tokens /\ tokenOf'[t] = tokenOf[t]
    BY <2>2 DEF Issued
  <2>6. ASSUME NEW t \in Held("store")', NEW u \in Held("admin")', tokenOf'[t] = tokenOf'[u]
        PROVE  FALSE
    <3>1. CASE t \in Held("store") /\ u \in Held("admin")
      BY <1>2, <2>5, <2>6, <3>1 DEF KeptApart, Clients
    <3>2. CASE t = to.refresh /\ u \in Held("admin") /\ set = {"store"}
      BY <1>2, <2>2, <2>3, <2>4, <2>5, <2>6, <3>2 DEF KeptApart, Clients, Of
    <3>3. CASE u = to.refresh /\ t \in Held("store") /\ set = {"admin"}
      BY <1>2, <2>2, <2>3, <2>4, <2>5, <2>6, <3>3 DEF KeptApart, Clients, Of
    <3>4. \/ t \in Held("store") \/ ("store" \in set /\ t = to.refresh)
      BY <2>1, <2>6 DEF Clients
    <3>5. \/ u \in Held("admin") \/ ("admin" \in set /\ u = to.refresh)
      BY <2>1, <2>6 DEF Clients
    <3>6. to.refresh \in {t, u} => to.refresh # NoToken
      BY <2>4, <2>6 DEF Clients
    <3> QED BY <3>1, <3>2, <3>3, <3>4, <3>5, <3>6 DEF Clients
  <2> QED BY <2>6 DEF KeptApart
<1>10. ASSUME NEW s \in Quiet' PROVE QuietHold(s)'
  <2>1. OneTaker(s) /\ TakenFromJar(s) /\ BroughtIsGood(s) /\ SpentIsAnswered(s) /\ LeftIsDead(s) /\ s \in Quiet
    BY <1>2, <1>10 DEF QuietHold
  <2>2. OneTaker(s)'
    BY <1>8, <2>1 DEF OneTaker
  <2>3. TakenFromJar(s)'
    BY <1>1, <1>8, <2>1 DEF TakenFromJar, Takes
  <2>4. BroughtIsGood(s)'
    <3>1. ASSUME NEW v \in Tabs \ {w}, Brings(v, s)
          PROVE  /\ token'[Brought(v)] = "live" /\ ~Brings(w, s)'
                 /\ \A x \in Tabs : Takes(x, s) \/ Brings(x, s) => x = v
      <4>1. token[Brought(v)] = "live" /\ Issued(Brought(v)) /\ Of(Brought(v), s)
        BY <1>2, <2>1, <3>1 DEF BroughtIsGood, Brings, Of, HeldAreIssued
      <4>2. \A x \in Tabs : Takes(x, s) \/ Brings(x, s) => x = v
        BY <2>1, <3>1 DEF BroughtIsGood
      <4>3. ~Of(tabs[w].carried, s)
        BY <1>3, <4>2 DEF Takes
      <4>4. token'[Brought(v)] = "live"
        <5>1. Brought(v) \in Tokens /\ tokenOf[Brought(v)] = s
          BY <4>1 DEF Issued, Of
        <5>2. Brought(v) # tabs[w].carried
          BY <4>1, <4>3
        <5> QED BY <1>10, <4>1, <5>1, <5>2
      <4>5. ~Brings(w, s)'
        <5>1. Brought(v) \in Tokens /\ tokenOf[Brought(v)] = s
          BY <4>1 DEF Issued, Of
        <5>2. SUFFICES ASSUME to.refresh # NoToken, tokenOf'[to.refresh] = s PROVE FALSE
          BY <1>1 DEF Brings, Of
        <5> QED BY <4>1, <4>3, <5>1, <5>2
      <4> QED BY <4>2, <4>4, <4>5
    <3>2. ASSUME NEW v \in Tabs \ {w}, Brings(v, s)'
          PROVE  /\ (token[Brought(v)])' = "live"
                 /\ \A x \in Tabs : Takes(x, s)' \/ Brings(x, s)' => x = v
                 /\ \A c \in Clients : Has(c, s)' => jar'[c].refresh = tabs'[v].carried
      <4>1. Brings(v, s) /\ Brought(v)' = Brought(v)
        BY <1>5, <1>8, <3>2
      <4> QED BY <1>1, <1>8, <2>1, <3>1, <4>1 DEF BroughtIsGood
    <3>3. ASSUME Brings(w, s)'
          PROVE  /\ (token[Brought(w)])' = "live"
                 /\ \A x \in Tabs : Takes(x, s)' \/ Brings(x, s)' => x = w
                 /\ \A c \in Clients : Has(c, s)' => jar'[c].refresh = tabs'[w].carried
      <4>1. to.refresh # NoToken /\ tokenOf'[to.refresh] = s /\ Brought(w)' = to.refresh
        BY <1>1, <3>3 DEF Brings, Of
      <4>2. CASE \A t \in Tokens : Issued(t) => tokenOf[t] # s
        <5>1. /\ \A x \in Tabs : ~Takes(x, s) /\ ~Brings(x, s)
              /\ \A c \in Clients : ~Has(c, s)
          BY <1>2, <4>2 DEF HeldAreIssued, Takes, Brings, Has, Of, Issued
        <5> QED BY <1>8, <4>1, <5>1
      <4>3. CASE Of(tabs[w].carried, s)
        <5>1. Takes(w, s)
          BY <1>3, <4>3 DEF Takes
        <5>2. \A x \in Tabs : Takes(x, s) => x = w
          BY <2>1, <5>1 DEF OneTaker
        <5>3. \A x \in Tabs : ~Brings(x, s)
          BY <1>3, <2>1, <5>1 DEF BroughtIsGood, Brings
        <5>4. \A c \in Clients : Has(c, s) => jar[c].refresh = tabs[w].carried
          BY <2>1, <5>1 DEF TakenFromJar
        <5> QED BY <1>1, <1>3, <1>8, <4>1, <5>2, <5>3, <5>4
      <4> QED BY <4>1, <4>2, <4>3
    <3> QED BY <3>2, <3>3 DEF BroughtIsGood
  <2>5. SpentIsAnswered(s)'
    <3> SUFFICES ASSUME NEW v \in Tabs, Takes(v, s)', token'[tabs'[v].carried] # "live"
                 PROVE  Answered(v)' /\ tabs'[v].cookies.set = {tabs'[v].client}
      BY DEF SpentIsAnswered
    <3>1. Takes(v, s) /\ tabs'[v].carried = tabs[v].carried /\ tabs'[v].client = tabs[v].client
      BY <1>1, <1>8 DEF Takes
    <3>2. CASE token[tabs[v].carried] # "live"
      <4>1. Answered(v) /\ tabs[v].cookies.set = {tabs[v].client}
        BY <2>1, <3>1, <3>2 DEF SpentIsAnswered
      <4> QED BY <1>1, <1>3, <4>1 DEF Answered
    <3>3. CASE token[tabs[v].carried] = "live"
      <4>1. tabs[v].carried \in Tokens /\ tokenOf[tabs[v].carried] = s
        BY <1>2, <3>1 DEF Takes, Of, HeldAreIssued, Issued
      <4>2. tabs[v].carried = tabs[w].carried /\ set = {tabs[w].client}
        BY <1>10, <3>1, <3>3, <4>1
      <4>3. v = w
        BY <1>3, <2>1, <3>1, <4>2 DEF OneTaker, Takes
      <4> QED BY <1>1, <1>3, <4>2, <4>3
    <3> QED BY <3>2, <3>3
  <2>6. LeftIsDead(s)'
    <3>1. s \in left => NoneLive(s)'
      BY <1>2, <1>10, <2>1 DEF LeftIsDead, Histories
    <3>2. ASSUME NEW v \in Tabs, Answered(v)', tabs'[v].op = "logout", Takes(v, s)'
          PROVE  NoneLive(s)'
      <4>1. Takes(v, s) /\ tabs[v].op = "logout" /\ s \in Sessions
        BY <1>1, <1>8, <1>10, <3>2 DEF Takes, Quiet
      <4>2. session[s] # "none"
        BY <1>2, <4>1 DEF Takes, Of, HeldAreIssued, Issued, UserInv, UserTypeOK, TokensBelong
      <4>3. CASE v = w
        BY <1>10, <4>1, <4>3 DEF Takes
      <4>4. CASE v # w
        <5>1. NoneLive(s)
          BY <1>5, <2>1, <3>2, <4>1, <4>4 DEF LeftIsDead
        <5> QED BY <1>10, <4>2, <5>1
      <4> QED BY <4>3, <4>4
    <3> QED BY <3>1, <3>2 DEF LeftIsDead
  <2> QED BY <2>2, <2>3, <2>4, <2>5, <2>6 DEF QuietHold
<1>11. CookieIsGood'
  <2> SUFFICES ASSUME NEW c \in Clients, jar[c].refresh # NoToken, jar[c].refresh \notin InFlight',
                      token'[jar[c].refresh] # "live"
               PROVE  tokenOf'[jar[c].refresh] \in (disturbed \cup endedFor)'
    BY DEF CookieIsGood
  <2> DEFINE t == jar[c].refresh
  <2>1. Issued(t) /\ t \in Tokens /\ tokenOf'[t] = tokenOf[t]
    BY <1>2 DEF HeldAreIssued, Issued
  <2>2. t \notin InFlight /\ t # tabs[w].carried
    BY <1>1, <1>3 DEF InFlight, Busy
  <2>3. CASE token[t] # "live"
    BY <1>2, <2>1, <2>2, <2>3 DEF CookieIsGood
  <2>4. CASE token[t] = "live"
    <3>1. tokenOf[t] \notin Quiet'
      BY <2>1, <2>2, <2>4
    <3>2. tokenOf[t] \in Sessions
      BY <2>1, <2>4 DEF UserInv, UserTypeOK, TokensBelong
    <3> QED BY <2>1, <3>1, <3>2 DEF Quiet
  <2> QED BY <2>3, <2>4
<1> QED BY <1>6, <1>7, <1>9, <1>10, <1>11 DEF BrowserInv


\* An issued token belongs to a session that was opened.
LEMMA IssuedBelong ==
    ASSUME UserInv, NEW t, Issued(t)
    PROVE  t \in Tokens /\ tokenOf[t] \in Sessions /\ session[tokenOf[t]] \in {"open", "revoked"}
PROOF
BY DEF UserInv, UserTypeOK, TokensBelong, Issued

\* A new session for the client d, beside the others or in their place.
LEMMA NewSessionServed ==
    ASSUME BrowserInv, UserInv, UserInv', NEW w \in Tabs, tabs[w].stage = "sent", tabs[w].op # "logout",
           NEW d \in Clients, NEW known, NEW S, NEW T \in SUBSET Tokens,
           IssueAuthTokens(known, S, TokensRevoked(T)), SetAuth(w, d),
           UNCHANGED <<today, jar, disturbed, left>>,
           \/ S = session /\ T = {} /\ endedFor' = endedFor
           \/ S = SessionsRevoked /\ T = Tokens /\ endedFor' = endedFor \cup {s \in Sessions : session[s] = "open"}
    PROVE  BrowserInv'
PROOF
<1>1. UserTypeOK /\ Histories /\ BrowserTypeOK
  BY DEF UserInv, BrowserInv
<1>2. PICK s \in Sessions :
        session[s] = "none" /\ session' = [S EXCEPT ![s] = "open"] /\ IssueToken(s, TokensRevoked(T))
  BY DEF IssueAuthTokens
<1>3. PICK t \in Tokens :
        /\ token[t] = "none" /\ token'[t] = "live" /\ tokenOf'[t] = s
        /\ \A u \in Tokens \ {t} :
              /\ token'[u] = IF u \in T /\ token[u] = "live" THEN "revoked" ELSE token[u]
              /\ tokenOf'[u] = tokenOf[u]
  BY <1>1, <1>2, TokenIssued
<1>4. PICK r \in Tokens :
        /\ token[r] = "none" /\ token'[r] = "live"
        /\ Answer(w, [set |-> {d}, to |-> [access |-> TRUE, refresh |-> r]])
  BY DEF SetAuth
<1>5. r = t
  BY <1>3, <1>4
<1> DEFINE to == [access |-> TRUE, refresh |-> t]
<1>6. to \in Cookies /\ to.refresh = t /\ t # NoToken
  BY NoTokenAssumption DEF Cookies
<1>7. /\ \/ /\ endedFor' = endedFor
            /\ \A x \in Sessions \ {s} : session'[x] = session[x]
         \/ /\ endedFor' = endedFor \cup {x \in Sessions : session[x] = "open"}
            /\ \A x \in Sessions \ {s} : session'[x] = IF session[x] = "open" THEN "revoked" ELSE session[x]
      /\ session'[s] = "open"
  BY <1>1, <1>2 DEF SessionsRevoked, UserTypeOK
<1>8. \A u \in Tokens : Issued(u) => Issued(u)' /\ tokenOf'[u] = tokenOf[u] /\ u # t
  BY <1>3 DEF Issued
<1>9. \A u \in Tokens : Issued(u) => tokenOf[u] \in Sessions \ {s} /\ session[tokenOf[u]] \in {"open", "revoked"}
  BY <1>2, IssuedBelong
<1>10. Histories' /\ endedFor \subseteq endedFor' /\ endedFor' \subseteq Sessions
  <2>1. session[s] = "none" /\ session \in [Sessions -> Rows]
    BY <1>1, <1>2 DEF UserTypeOK
  <2>2. \A x \in endedFor' : x \in Sessions /\ session'[x] = "revoked"
    BY <1>1, <1>7, <2>1 DEF Histories, BrowserTypeOK
  <2>3. \A x \in Sessions : session'[x] = "revoked" => x \in disturbed \cup endedFor'
    BY <1>1, <1>7, <2>1 DEF Histories
  <2>4. \A x \in left : session'[x] # "none"
    BY <1>1, <1>7, <2>1 DEF Histories, BrowserTypeOK
  <2> QED BY <1>1, <2>2, <2>3, <2>4 DEF Histories
<1>11. \A u \in Tokens : token[u] = "live" /\ token'[u] # "live" => tokenOf[u] \notin Quiet'
  BY <1>1, <1>3, <1>9 DEF Issued, Quiet, Histories
<1>12. \A x \in Quiet' : session[x] # "none" /\ NoneLive(x) => NoneLive(x)'
  BY <1>2, <1>3 DEF NoneLive
<1>13. token'[to.refresh] = "live" /\ ~Issued(to.refresh)
  BY <1>3, <1>6 DEF Issued
<1>14. \A u \in Tokens : Issued(u) => tokenOf[u] # tokenOf'[to.refresh]
  BY <1>3, <1>6, <1>9
<1>15. Answer(w, [set |-> {d}, to |-> to])
  BY <1>4, <1>5
<1> HIDE DEF to
<1> QED BY <1>6, <1>8, <1>10, <1>11, <1>12, <1>13, <1>14, <1>15, ServeStep

\* A refresh: the next token for the client that asked.
LEMMA RefreshServed ==
    ASSUME BrowserInv, UserInv, UserInv', NEW w \in Tabs, tabs[w].stage = "sent", tabs[w].op = "refresh",
           Refresh(tabs[w].carried), SetAuth(w, tabs[w].client),
           UNCHANGED <<jar, disturbed, left, endedFor>>
    PROVE  BrowserInv'
PROOF
<1> DEFINE c == tabs[w].carried
           s == tokenOf[c]
<1>1. UserTypeOK /\ Histories /\ BrowserTypeOK /\ OneLiveToken
  BY DEF UserInv, BrowserInv
<1>2. Busy(w) /\ tabs[w].client \in Clients /\ c # NoToken /\ Issued(c)
  BY <1>1, TabFacts DEF BrowserInv, HeldAreIssued
<1>3. c \in Tokens /\ s \in Sessions /\ token[c] = "live"
  BY <1>2, IssuedBelong DEF Refresh, Refreshable
<1>4. IssueToken(s, TokensRevoked({c})) /\ session' = session /\ today' = today
  BY DEF Refresh, Rotate
<1>5. PICK t \in Tokens :
        /\ token[t] = "none" /\ token'[t] = "live" /\ tokenOf'[t] = s
        /\ \A u \in Tokens \ {t} :
              /\ token'[u] = IF u \in {c} /\ token[u] = "live" THEN "revoked" ELSE token[u]
              /\ tokenOf'[u] = tokenOf[u]
  <2> HIDE DEF s, c
  <2> QED BY <1>1, <1>3, <1>4, TokenIssued
<1>6. PICK r \in Tokens :
        /\ token[r] = "none" /\ token'[r] = "live"
        /\ Answer(w, [set |-> {tabs[w].client}, to |-> [access |-> TRUE, refresh |-> r]])
  BY DEF SetAuth
<1>7. r = t
  BY <1>5, <1>6
<1> DEFINE to == [access |-> TRUE, refresh |-> t]
<1>8. to \in Cookies /\ to.refresh = t /\ t # NoToken
  BY NoTokenAssumption DEF Cookies
<1>9. \A u \in Tokens : Issued(u) => Issued(u)' /\ tokenOf'[u] = tokenOf[u] /\ u # t
  BY <1>5 DEF Issued
<1>10. Histories'
  BY <1>1, <1>4 DEF Histories
<1>11. \A u \in Tokens : token[u] = "live" /\ token'[u] # "live" => u = c
  BY <1>5
<1>12. \A x \in Quiet' : session[x] # "none" /\ NoneLive(x) => NoneLive(x)'
  BY <1>3, <1>5 DEF NoneLive
<1>13. token'[to.refresh] = "live" /\ ~Issued(to.refresh) /\ Of(c, tokenOf'[to.refresh])
  BY <1>2, <1>5, <1>8 DEF Issued, Of
<1>14. Answer(w, [set |-> {tabs[w].client}, to |-> to])
  BY <1>6, <1>7
<1>15. endedFor' \subseteq Sessions
  BY <1>1 DEF BrowserTypeOK
<1> HIDE DEF to
<1> QED BY <1>2, <1>8, <1>9, <1>10, <1>11, <1>12, <1>13, <1>14, <1>15, ServeStep


\* A token that was spent is seen again: whoever presents it, its session was
\* disturbed or ended before.
LEMMA ReuseServed ==
    ASSUME BrowserInv, UserInv, UserInv', NEW w \in Tabs, tabs[w].stage = "sent", tabs[w].op = "refresh",
           DetectReuse(tabs[w].carried), Refuse(w),
           UNCHANGED <<jar, disturbed, left, endedFor>>
    PROVE  BrowserInv'
PROOF
<1> DEFINE c == tabs[w].carried
           s == tokenOf[c]
<1>1. UserTypeOK /\ Histories /\ BrowserTypeOK /\ \A x \in Quiet : SpentIsAnswered(x)
  BY DEF UserInv, BrowserInv, QuietHold
<1>2. Busy(w) /\ ~Answered(w) /\ c # NoToken /\ Issued(c) /\ c \in Tokens /\ s \in Sessions /\ token[c] # "live"
  BY <1>1, TabFacts, IssuedBelong DEF BrowserInv, HeldAreIssued, DetectReuse
<1>3. s \notin Quiet
  BY <1>1, <1>2 DEF SpentIsAnswered, Takes, Of
<1>4. /\ session' = [session EXCEPT ![s] = IF @ = "open" THEN "revoked" ELSE @]
      /\ token' = TokensRevoked({t \in Tokens : tokenOf[t] = s})
      /\ tokenOf' = tokenOf /\ today' = today
  BY DEF DetectReuse, EndSession
<1>5. \A x \in Sessions : session'[x] = IF x = s /\ session[x] = "open" THEN "revoked" ELSE session[x]
  BY <1>1, <1>4 DEF UserTypeOK
<1>6. \A u \in Tokens : token'[u] = IF tokenOf[u] = s /\ token[u] = "live" THEN "revoked" ELSE token[u]
  BY <1>4 DEF TokensRevoked
<1>7. NoCookies \in Cookies /\ NoCookies.refresh = NoToken
  BY DEF NoCookies, Cookies
<1>8. Quiet' = Quiet
  BY DEF Quiet
<1>9. \A u \in Tokens : Issued(u) => Issued(u)' /\ tokenOf'[u] = tokenOf[u]
  BY <1>4, <1>6 DEF Issued
<1>10. Histories'
  BY <1>1, <1>2, <1>3, <1>4, <1>5 DEF Histories, Quiet, BrowserTypeOK
<1>11. \A u \in Tokens : token[u] = "live" /\ token'[u] # "live" => tokenOf[u] \notin Quiet'
  BY <1>3, <1>6, <1>8
<1>12. \A x \in Quiet' : NoneLive(x) => NoneLive(x)'
  BY <1>4, <1>6 DEF NoneLive
<1>13. Answer(w, [set |-> {}, to |-> NoCookies])
  BY DEF Refuse
<1>14. endedFor' \subseteq Sessions
  BY <1>1 DEF BrowserTypeOK
<1> QED BY <1>7, <1>9, <1>10, <1>11, <1>12, <1>13, <1>14, ServeStep

\* A request that is answered and changes no row.
LEMMA NothingServed ==
    ASSUME BrowserInv, UserInv, UserInv', NEW w \in Tabs, tabs[w].stage = "sent",
           NEW set \in SUBSET Clients, Answer(w, [set |-> set, to |-> NoCookies]),
           tabs[w].op = "logout" => ~(tabs[w].carried \in Tokens /\ token[tabs[w].carried] = "live"),
           UNCHANGED <<userVars, jar, disturbed, left, endedFor>>
    PROVE  BrowserInv'
PROOF
<1>1. Histories /\ BrowserTypeOK /\ \A x \in Quiet : SpentIsAnswered(x)
  BY DEF BrowserInv, QuietHold
<1>2. UNCHANGED <<session, token, tokenOf, today>> /\ Quiet' = Quiet
  BY DEF userVars, sessionVars, tokenVars, Quiet
<1>3. NoCookies \in Cookies /\ NoCookies.refresh = NoToken
  BY DEF NoCookies, Cookies
<1>4. \A u \in Tokens : Issued(u) => Issued(u)' /\ tokenOf'[u] = tokenOf[u]
  BY <1>2 DEF Issued
<1>5. Histories' /\ endedFor' \subseteq Sessions
  BY <1>1, <1>2 DEF Histories, BrowserTypeOK
<1>6. \A x \in Quiet' : NoneLive(x) => NoneLive(x)'
  BY <1>2 DEF NoneLive
<1>7. \A s \in Quiet' : ~(tabs[w].op = "logout" /\ Of(tabs[w].carried, s))
  <2> SUFFICES ASSUME NEW s \in Quiet, tabs[w].op = "logout", Of(tabs[w].carried, s) PROVE FALSE
    BY <1>2
  <2>1. Busy(w) /\ ~Answered(w)
    BY <1>1, TabFacts
  <2>2. tabs[w].carried \in Tokens
    BY <2>1 DEF BrowserInv, HeldAreIssued, Issued, Of
  <2> QED BY <1>1, <2>1, <2>2 DEF SpentIsAnswered, Takes
<1> QED BY <1>2, <1>3, <1>4, <1>5, <1>6, <1>7, ServeStep

\* A logout revokes the one live token of its session.
LEMMA LogoutServed ==
    ASSUME BrowserInv, UserInv, UserInv', NEW w \in Tabs, tabs[w].stage = "sent", tabs[w].op = "logout",
           tabs[w].carried \in Tokens, Logout(tabs[w].carried), ClearAuth(w, tabs[w].client),
           UNCHANGED <<jar, disturbed, left, endedFor>>
    PROVE  BrowserInv'
PROOF
<1> DEFINE c == tabs[w].carried
<1>1. Histories /\ BrowserTypeOK /\ OneLiveToken
  BY DEF BrowserInv, UserInv
<1>2. tabs[w].client \in Clients /\ token[c] = "live"
  BY <1>1, TabFacts DEF Logout
<1>3. /\ UNCHANGED <<session, tokenOf, today>>
      /\ \A u \in Tokens : token'[u] = IF u = c /\ token[u] = "live" THEN "revoked" ELSE token[u]
  BY DEF Logout, sessionVars, TokensRevoked
<1>4. NoCookies \in Cookies /\ NoCookies.refresh = NoToken
  BY DEF NoCookies, Cookies
<1>5. \A u \in Tokens : Issued(u) => Issued(u)' /\ tokenOf'[u] = tokenOf[u]
  BY <1>3 DEF Issued
<1>6. Histories' /\ endedFor' \subseteq Sessions
  BY <1>1, <1>3 DEF Histories, BrowserTypeOK
<1>7. \A x : NoneLive(x) => NoneLive(x)'
  BY <1>3 DEF NoneLive
<1>8. \A x : Of(c, x) => NoneLive(x)'
  BY <1>1, <1>2, <1>3 DEF NoneLive, Of, OneLiveToken
<1>9. \A u \in Tokens : token[u] = "live" /\ token'[u] # "live" => u = c
  BY <1>3
<1>10. Answer(w, [set |-> {tabs[w].client}, to |-> NoCookies])
  BY DEF ClearAuth
<1> QED BY <1>2, <1>4, <1>5, <1>6, <1>7, <1>8, <1>9, <1>10, ServeStep

\* Whatever the server answers.
LEMMA ServeKeeps ==
    ASSUME BrowserInv, UserInv, UserInv', NEW w \in Tabs, Serve(w)
    PROVE  BrowserInv'
PROOF
<1>1. BrowserTypeOK /\ UserTypeOK /\ \A x \in Quiet : SpentIsAnswered(x)
  BY DEF BrowserInv, UserInv, QuietHold
<1>2. tabs[w].stage = "sent" /\ UNCHANGED <<jar, disturbed, left>>
  BY DEF Serve, ServeLogin, ServeRefresh, ServeLogout, ServePassword, ServeInvite, Served
<1>3. tabs[w].client \in Clients /\ {tabs[w].client} \in SUBSET Clients
  BY <1>1, <1>2, TabFacts
<1>4. token = TokensRevoked({})
  BY <1>1, NothingRevoked
<1>5. CASE ServeLogin(w)
  BY <1>2, <1>3, <1>4, <1>5, NewSessionServed DEF ServeLogin, Served, GoogleLogin
<1>6. CASE ServeInvite(w)
  <2>1. "admin" \in Clients
    BY DEF Clients
  <2> QED BY <1>2, <1>4, <1>6, <2>1, NewSessionServed DEF ServeInvite, Served, GoogleLogin
<1>7. CASE ServePassword(w)
  BY <1>2, <1>3, <1>7, NewSessionServed DEF ServePassword, Served, ChangePassword
<1>8. CASE ServeRefresh(w)
  <2>1. tabs[w].op = "refresh" /\ endedFor' = endedFor
    BY <1>8 DEF ServeRefresh, Served
  <2>2. CASE Refresh(tabs[w].carried) /\ SetAuth(w, tabs[w].client)
    BY <1>2, <2>1, <2>2, RefreshServed
  <2>3. CASE DetectReuse(tabs[w].carried) /\ Refuse(w)
    BY <1>2, <2>1, <2>3, ReuseServed
  <2>4. CASE Refuse(w) /\ UNCHANGED userVars
    BY <1>2, <2>1, <2>4, NothingServed DEF Refuse
  <2> QED BY <1>8, <2>2, <2>3, <2>4 DEF ServeRefresh
<1>9. CASE ServeLogout(w)
  <2>1. tabs[w].op = "logout" /\ endedFor' = endedFor /\ ClearAuth(w, tabs[w].client)
    BY <1>9 DEF ServeLogout, Served
  <2>2. CASE tabs[w].carried \in Tokens /\ token[tabs[w].carried] = "live"
    BY <1>2, <1>9, <2>1, <2>2, LogoutServed DEF ServeLogout
  <2>3. CASE ~(tabs[w].carried \in Tokens /\ token[tabs[w].carried] = "live")
    BY <1>2, <1>3, <1>9, <2>1, <2>3, NothingServed DEF ServeLogout, ClearAuth
  <2> QED BY <2>2, <2>3
<1> QED BY <1>5, <1>6, <1>7, <1>8, <1>9 DEF Serve

-----------------------------------------------------------------------------

\* What the browser does changes no row.
LEMMA RowsStay ==
    ASSUME UNCHANGED userVars
    PROVE  /\ UNCHANGED <<today, session, token, tokenOf>>
           /\ \A t : Issued(t)' = Issued(t)
           /\ \A s : NoneLive(s)' = NoneLive(s)
           /\ \A t, s : Of(t, s)' = Of(t, s)
PROOF
BY DEF userVars, sessionVars, tokenVars, Issued, NoneLive, Of

\* A request takes along what is in the cookies.
LEMMA SendKeeps ==
    ASSUME BrowserInv, UserInv, NEW w \in Tabs, NEW c \in Clients, NEW op \in BrowserOps, Send(w, c, op),
           op = "refresh" => jar[c].refresh # NoToken
    PROVE  BrowserInv'
PROOF
<1> DEFINE t == jar[c].refresh
           r == [op |-> op, client |-> c, carried |-> t, stage |-> "sent"]
<1>1. /\ BrowserTypeOK /\ HeldAreIssued /\ KeptApart /\ Histories /\ CookieIsGood
      /\ \A s \in Quiet : QuietHold(s)
  BY DEF BrowserInv
<1>2. /\ tabs[w] = Resting /\ tabs' = [tabs EXCEPT ![w] = r]
      /\ disturbed' = IF t \in InFlight THEN disturbed \cup SessionOf(t) ELSE disturbed
      /\ UNCHANGED <<userVars, jar, endedFor, left>>
  BY DEF Send, Carried
<1>3. t \in Tokens \cup {NoToken} /\ (t # NoToken => Issued(t) /\ tokenOf[t] \in Sessions)
  BY <1>1, IssuedBelong DEF BrowserTypeOK, Cookies, HeldAreIssued
<1>4. /\ r \in TabStates /\ r # Resting /\ r.stage = "sent"
      /\ r.op = op /\ r.client = c /\ r.carried = t
  BY <1>3 DEF TabStates, Resting
<1> HIDE DEF r
<1>5. /\ tabs' \in [Tabs -> TabStates] /\ tabs'[w] = r
      /\ \A v \in Tabs \ {w} : tabs'[v] = tabs[v]
  BY <1>1, <1>2, <1>4 DEF BrowserTypeOK
<1>6. /\ ~Busy(w) /\ ~Answered(w) /\ Busy(w)' /\ ~Answered(w)'
      /\ \A v \in Tabs \ {w} : Busy(v)' = Busy(v) /\ Answered(v)' = Answered(v) /\ Brought(v)' = Brought(v)
  BY <1>2, <1>4, <1>5 DEF Busy, Answered, Brought, Resting
<1>7. /\ UNCHANGED <<today, session, token, tokenOf>>
      /\ \A u : Issued(u)' = Issued(u)
      /\ \A s : NoneLive(s)' = NoneLive(s)
      /\ \A u, s : Of(u, s)' = Of(u, s)
  BY <1>2, RowsStay
<1>8. /\ \A s : Takes(w, s)' = Of(t, s)
      /\ \A s : \A v \in Tabs \ {w} : Takes(v, s)' = Takes(v, s) /\ Brings(v, s)' = Brings(v, s)
      /\ \A s : ~Brings(w, s)' /\ ~Brings(w, s)
      /\ \A s : \A d \in Clients : Has(d, s)' = Has(d, s)
  BY <1>2, <1>4, <1>5, <1>6, <1>7 DEF Takes, Brings, Has, Of
<1>9. /\ Quiet' \subseteq Quiet /\ disturbed \subseteq disturbed' /\ disturbed' \subseteq Sessions
      /\ \A s \in Quiet' : Of(t, s) => t \notin InFlight
  BY <1>1, <1>2, <1>3 DEF Quiet, SessionOf, Of, BrowserTypeOK, InFlight
<1>10. BrowserTypeOK'
  BY <1>1, <1>2, <1>5, <1>9 DEF BrowserTypeOK
<1>11. HeldAreIssued'
  <2>1. \A d \in Clients : jar'[d].refresh # NoToken => Issued(jar[d].refresh)'
    BY <1>1, <1>2, <1>7 DEF HeldAreIssued
  <2>2. \A v \in Tabs : Busy(v)' /\ tabs'[v].carried # NoToken => Issued(tabs[v].carried)'
    BY <1>1, <1>3, <1>4, <1>5, <1>6, <1>7 DEF HeldAreIssued
  <2>3. \A v \in Tabs : Answered(v)' /\ Brought(v)' # NoToken => Issued(Brought(v))'
    BY <1>1, <1>6, <1>7 DEF HeldAreIssued
  <2>4. \A v \in Tabs : Busy(v)' /\ tabs'[v].op = "refresh" => tabs'[v].carried # NoToken
    BY <1>1, <1>4, <1>5, <1>6 DEF HeldAreIssued
  <2> QED BY <2>1, <2>2, <2>3, <2>4 DEF HeldAreIssued
<1>12. KeptApart'
  <2>1. \A d \in Clients : Held(d)' \subseteq Held(d)
    BY <1>2, <1>4, <1>5, <1>6 DEF Held
  <2> QED BY <1>1, <1>7, <2>1 DEF KeptApart, Clients
<1>13. Histories'
  BY <1>1, <1>2, <1>7, <1>9 DEF Histories
<1>14. ASSUME NEW s \in Quiet' PROVE QuietHold(s)'
  <2>1. OneTaker(s) /\ TakenFromJar(s) /\ BroughtIsGood(s) /\ SpentIsAnswered(s) /\ LeftIsDead(s) /\ s \in Sessions
    BY <1>1, <1>9, <1>14 DEF QuietHold, Quiet
  <2>2. ASSUME Of(t, s)
        PROVE  /\ token[t] = "live"
               /\ \A v \in Tabs \ {w} : ~Takes(v, s) /\ ~Brings(v, s)
               /\ \A d \in Clients : Has(d, s) => d = c
    <3>1. Has(c, s) /\ t # NoToken /\ t \notin InFlight /\ tokenOf[t] = s
      BY <1>9, <1>14, <2>2 DEF Has, Of
    <3>2. token[t] = "live"
      BY <1>1, <1>9, <1>14, <3>1 DEF CookieIsGood, Quiet
    <3>3. \A v \in Tabs : Busy(v) => tabs[v].carried # t
      BY <3>1 DEF InFlight, Busy
    <3>4. \A v \in Tabs : ~Takes(v, s)
      BY <2>1, <3>1, <3>3 DEF TakenFromJar, Takes
    <3>5. \A v \in Tabs : Answered(v) => Busy(v)
      BY <1>1, TabFacts
    <3>6. \A v \in Tabs : ~Brings(v, s)
      BY <2>1, <3>1, <3>3, <3>5 DEF BroughtIsGood, Brings
    <3>7. \A d \in Clients : Has(d, s) => d = c
      <4>1. \A d \in Clients : Has(d, s) => jar[d].refresh \in Held(d)
        BY DEF Has, Of, Held
      <4> QED BY <1>1, <3>1, <4>1 DEF KeptApart, Clients, Has, Of
    <3> QED BY <3>2, <3>4, <3>6, <3>7
  <2>3. OneTaker(s)'
    BY <1>8, <2>1, <2>2 DEF OneTaker
  <2>4. TakenFromJar(s)'
    BY <1>2, <1>4, <1>5, <1>8, <2>1, <2>2 DEF TakenFromJar
  <2>5. BroughtIsGood(s)'
    <3> SUFFICES ASSUME NEW v \in Tabs \ {w}, Brings(v, s)
                 PROVE  /\ (token[Brought(v)])' = "live"
                        /\ \A x \in Tabs : Takes(x, s)' \/ Brings(x, s)' => x = v
                        /\ \A d \in Clients : Has(d, s)' => jar'[d].refresh = tabs'[v].carried
      BY <1>8 DEF BroughtIsGood
    <3>1. ~Of(t, s)
      BY <2>2
    <3> QED BY <1>2, <1>5, <1>6, <1>7, <1>8, <2>1, <3>1 DEF BroughtIsGood
  <2>6. SpentIsAnswered(s)'
    <3> SUFFICES ASSUME NEW v \in Tabs, Takes(v, s)', token'[tabs'[v].carried] # "live"
                 PROVE  Answered(v)' /\ tabs'[v].cookies.set = {tabs'[v].client}
      BY DEF SpentIsAnswered
    <3>1. v # w
      BY <1>4, <1>5, <1>7, <1>8, <2>2
    <3> QED BY <1>5, <1>6, <1>7, <1>8, <2>1, <3>1 DEF SpentIsAnswered
  <2>7. LeftIsDead(s)'
    BY <1>2, <1>5, <1>6, <1>7, <1>8, <2>1 DEF LeftIsDead
  <2> QED BY <2>3, <2>4, <2>5, <2>6, <2>7 DEF QuietHold
<1>15. CookieIsGood'
  <2>1. InFlight \subseteq InFlight'
    BY <1>2, <1>5 DEF InFlight
  <2> QED BY <1>1, <1>2, <1>7, <1>9, <2>1 DEF CookieIsGood
<1> QED BY <1>10, <1>11, <1>12, <1>13, <1>14, <1>15 DEF BrowserInv

\* A tab that is done, answered or not, leaves fewer requests in flight.
LEMMA TabEnds ==
    ASSUME BrowserTypeOK, NEW w \in Tabs, tabs' = [tabs EXCEPT ![w] = Resting], UNCHANGED userVars
    PROVE  /\ tabs' \in [Tabs -> TabStates]
           /\ ~Busy(w)' /\ ~Answered(w)'
           /\ \A v \in Tabs \ {w} : /\ tabs'[v] = tabs[v] /\ Busy(v)' = Busy(v)
                                    /\ Answered(v)' = Answered(v) /\ Brought(v)' = Brought(v)
           /\ \A s : ~Takes(w, s)' /\ ~Brings(w, s)'
           /\ \A s : \A v \in Tabs \ {w} : Takes(v, s)' = Takes(v, s) /\ Brings(v, s)' = Brings(v, s)
           /\ \A t \in InFlight : t \in InFlight' \/ t = tabs[w].carried
PROOF
<1>1. /\ tabs' \in [Tabs -> TabStates] /\ tabs'[w] = Resting
      /\ \A v \in Tabs \ {w} : tabs'[v] = tabs[v]
  BY DEF BrowserTypeOK, TabStates
<1>2. /\ ~Busy(w)' /\ ~Answered(w)'
      /\ \A v \in Tabs \ {w} : /\ Busy(v)' = Busy(v)
                               /\ Answered(v)' = Answered(v) /\ Brought(v)' = Brought(v)
  BY <1>1 DEF Busy, Answered, Brought, Resting
<1>3. \A t, s : Of(t, s)' = Of(t, s)
  BY RowsStay
<1>4. /\ \A s : ~Takes(w, s)' /\ ~Brings(w, s)'
      /\ \A s : \A v \in Tabs \ {w} : Takes(v, s)' = Takes(v, s) /\ Brings(v, s)' = Brings(v, s)
  BY <1>1, <1>2, <1>3 DEF Takes, Brings, Of, userVars, tokenVars
<1>5. \A t \in InFlight : t \in InFlight' \/ t = tabs[w].carried
  BY <1>1 DEF InFlight
<1> QED BY <1>1, <1>2, <1>4, <1>5

\* An answer changes the cookies of the client it is for.
LEMMA TakeKeeps ==
    ASSUME BrowserInv, UserInv, NEW w \in Tabs, TakeAnswer(w)
    PROVE  BrowserInv'
PROOF
<1> DEFINE set == tabs[w].cookies.set
           to == tabs[w].cookies.to
<1>1. /\ BrowserTypeOK /\ HeldAreIssued /\ KeptApart /\ Histories /\ CookieIsGood
      /\ \A s \in Quiet : QuietHold(s)
  BY DEF BrowserInv
<1>2. /\ Answered(w) /\ tabs' = [tabs EXCEPT ![w] = Resting]
      /\ jar' = [c \in Clients |-> IF c \in set THEN to ELSE jar[c]]
      /\ left' = IF tabs[w].op = "logout" THEN left \cup SessionOf(tabs[w].carried) ELSE left
      /\ UNCHANGED <<userVars, disturbed, endedFor>>
  BY DEF TakeAnswer, Answered
<1>3. /\ Busy(w) /\ set \in SUBSET Clients /\ to \in Cookies /\ to.refresh = Brought(w)
      /\ tabs[w].client \in Clients
  BY <1>1, <1>2, TabFacts DEF Brought
<1>4. /\ tabs' \in [Tabs -> TabStates]
      /\ ~Busy(w)' /\ ~Answered(w)'
      /\ \A v \in Tabs \ {w} : /\ tabs'[v] = tabs[v] /\ Busy(v)' = Busy(v)
                               /\ Answered(v)' = Answered(v) /\ Brought(v)' = Brought(v)
      /\ \A s : ~Takes(w, s)' /\ ~Brings(w, s)'
      /\ \A s : \A v \in Tabs \ {w} : Takes(v, s)' = Takes(v, s) /\ Brings(v, s)' = Brings(v, s)
      /\ \A t \in InFlight : t \in InFlight' \/ t = tabs[w].carried
  BY <1>1, <1>2, TabEnds
<1>5. /\ UNCHANGED <<today, session, token, tokenOf>>
      /\ \A u : Issued(u)' = Issued(u)
      /\ \A s : NoneLive(s)' = NoneLive(s)
      /\ \A u, s : Of(u, s)' = Of(u, s)
  BY <1>2, RowsStay
<1> HIDE DEF set, to
<1>6. \A c \in Clients : jar'[c].refresh = IF c \in set THEN Brought(w) ELSE jar[c].refresh
  BY <1>2, <1>3
<1>7. \A s : \A c \in Clients : Has(c, s)' = IF c \in set THEN Of(Brought(w), s) ELSE Has(c, s)
  BY <1>5, <1>6 DEF Has, Of
<1>8. tabs[w].carried # NoToken =>
          /\ Issued(tabs[w].carried) /\ tokenOf[tabs[w].carried] \in Sessions
          /\ session[tokenOf[tabs[w].carried]] # "none"
  BY <1>1, <1>3, IssuedBelong DEF HeldAreIssued
<1>9. BrowserTypeOK'
  BY <1>1, <1>2, <1>3, <1>4, <1>8 DEF BrowserTypeOK, SessionOf
<1>10. HeldAreIssued'
  <2>1. \A c \in Clients : jar'[c].refresh # NoToken => Issued(jar'[c].refresh)
    BY <1>1, <1>2, <1>6 DEF HeldAreIssued
  <2>2. \A c \in Clients : jar'[c].refresh # NoToken => Issued(jar[c].refresh)'
    BY <1>5, <2>1 DEF Issued
  <2>3. \A v \in Tabs : Busy(v)' /\ tabs'[v].carried # NoToken => Issued(tabs[v].carried)'
    BY <1>1, <1>4, <1>5 DEF HeldAreIssued, Issued
  <2>4. \A v \in Tabs : Answered(v)' /\ Brought(v)' # NoToken => Issued(Brought(v))'
    BY <1>1, <1>4, <1>5 DEF HeldAreIssued, Issued
  <2>5. \A v \in Tabs : Busy(v)' /\ tabs'[v].op = "refresh" => tabs'[v].carried # NoToken
    BY <1>1, <1>4 DEF HeldAreIssued
  <2> QED BY <2>2, <2>3, <2>4, <2>5 DEF HeldAreIssued
<1>11. KeptApart'
  <2>1. \A c \in Clients : Held(c)' \subseteq Held(c)
    BY <1>2, <1>4, <1>6 DEF Held, set
  <2> QED BY <1>1, <1>5, <2>1 DEF KeptApart, Clients
<1>12. Histories'
  BY <1>1, <1>2, <1>5, <1>8 DEF Histories, SessionOf
<1>13. Quiet' = Quiet
  BY <1>2 DEF Quiet
<1>14. \A s \in Quiet : Brings(w, s) <=> Of(Brought(w), s)
  BY <1>2 DEF Brings
<1>15. ASSUME NEW s \in Quiet PROVE QuietHold(s)'
  <2>1. OneTaker(s) /\ TakenFromJar(s) /\ BroughtIsGood(s) /\ SpentIsAnswered(s) /\ LeftIsDead(s) /\ s \in Sessions
    BY <1>1, <1>15 DEF QuietHold, Quiet
  <2>2. \A v \in Tabs \ {w} : Takes(v, s) \/ Brings(v, s) => ~Of(Brought(w), s)
    BY <1>14, <2>1 DEF BroughtIsGood
  <2>3. OneTaker(s)'
    BY <1>4, <2>1 DEF OneTaker
  <2>4. TakenFromJar(s)'
    BY <1>4, <1>6, <1>7, <2>1, <2>2 DEF TakenFromJar
  <2>5. BroughtIsGood(s)'
    <3> SUFFICES ASSUME NEW v \in Tabs \ {w}, Brings(v, s)
                 PROVE  /\ (token[Brought(v)])' = "live"
                        /\ \A x \in Tabs : Takes(x, s)' \/ Brings(x, s)' => x = v
                        /\ \A d \in Clients : Has(d, s)' => jar'[d].refresh = tabs'[v].carried
      BY <1>4 DEF BroughtIsGood
    <3>1. /\ token[Brought(v)] = "live"
          /\ \A x \in Tabs : Takes(x, s) \/ Brings(x, s) => x = v
          /\ \A d \in Clients : Has(d, s) => jar[d].refresh = tabs[v].carried
      BY <2>1 DEF BroughtIsGood
    <3> QED BY <1>4, <1>5, <1>6, <1>7, <2>2, <3>1
  <2>6. SpentIsAnswered(s)'
    BY <1>4, <1>5, <2>1 DEF SpentIsAnswered
  <2>7. LeftIsDead(s)'
    <3>1. s \in left' => NoneLive(s)
      <4>1. CASE s \in left
        BY <2>1, <4>1 DEF LeftIsDead
      <4>2. CASE s \notin left /\ s \in left'
        <5>1. tabs[w].op = "logout" /\ Takes(w, s)
          BY <1>2, <1>3, <4>2 DEF SessionOf, Takes, Of
        <5> QED BY <1>2, <2>1, <5>1 DEF LeftIsDead
      <4> QED BY <4>1, <4>2
    <3> QED BY <1>4, <1>5, <2>1, <3>1 DEF LeftIsDead
  <2> QED BY <2>3, <2>4, <2>5, <2>6, <2>7 DEF QuietHold
<1>16. CookieIsGood'
  <2> SUFFICES ASSUME NEW c \in Clients, jar'[c].refresh # NoToken, jar'[c].refresh \notin InFlight',
                      token[jar'[c].refresh] # "live"
               PROVE  tokenOf[jar'[c].refresh] \in disturbed \cup endedFor
    BY <1>2, <1>5 DEF CookieIsGood
  <2> DEFINE t == jar'[c].refresh
             s == tokenOf[t]
  <2>1. Issued(t) /\ s \in Sessions
    BY <1>1, <1>2, <1>6, IssuedBelong DEF HeldAreIssued
  <2>2. CASE c \in set
    <3>1. t = Brought(w) /\ Of(t, s)
      BY <1>6, <2>2 DEF Of
    <3>2. Brings(w, s)
      BY <1>2, <3>1 DEF Brings
    <3>3. s \notin Quiet
      BY <1>1, <3>1, <3>2 DEF QuietHold, BroughtIsGood
    <3> QED BY <2>1, <3>3 DEF Quiet
  <2>3. CASE c \notin set /\ t \notin InFlight
    BY <1>1, <1>6, <2>3 DEF CookieIsGood
  <2>4. CASE c \notin set /\ t = tabs[w].carried
    <3>1. t = jar[c].refresh /\ Takes(w, s) /\ t \in Held(c) /\ t \in Held(tabs[w].client)
      BY <1>3, <1>6, <2>4 DEF Takes, Of, Held
    <3>2. c = tabs[w].client
      BY <1>1, <1>3, <3>1 DEF KeptApart, Clients
    <3>3. s \notin Quiet
      BY <1>1, <2>4, <3>1, <3>2 DEF QuietHold, SpentIsAnswered, set
    <3> QED BY <2>1, <3>3 DEF Quiet
  <2> QED BY <1>4, <2>2, <2>3, <2>4
<1> QED BY <1>9, <1>10, <1>11, <1>12, <1>13, <1>15, <1>16 DEF BrowserInv

\* A request that is lost disturbs the session whose token it carried.
LEMMA LoseKeeps ==
    ASSUME BrowserInv, UserInv, NEW w \in Tabs, LoseRequest(w)
    PROVE  BrowserInv'
PROOF
<1>1. /\ BrowserTypeOK /\ HeldAreIssued /\ KeptApart /\ Histories /\ CookieIsGood
      /\ \A s \in Quiet : QuietHold(s)
  BY DEF BrowserInv
<1>2. /\ Busy(w) /\ tabs' = [tabs EXCEPT ![w] = Resting]
      /\ disturbed' = disturbed \cup SessionOf(tabs[w].carried)
      /\ UNCHANGED <<userVars, jar, endedFor, left>>
  BY DEF LoseRequest, Busy
<1>3. /\ tabs' \in [Tabs -> TabStates]
      /\ ~Busy(w)' /\ ~Answered(w)'
      /\ \A v \in Tabs \ {w} : /\ tabs'[v] = tabs[v] /\ Busy(v)' = Busy(v)
                               /\ Answered(v)' = Answered(v) /\ Brought(v)' = Brought(v)
      /\ \A s : ~Takes(w, s)' /\ ~Brings(w, s)'
      /\ \A s : \A v \in Tabs \ {w} : Takes(v, s)' = Takes(v, s) /\ Brings(v, s)' = Brings(v, s)
      /\ \A t \in InFlight : t \in InFlight' \/ t = tabs[w].carried
  BY <1>1, <1>2, TabEnds
<1>4. /\ UNCHANGED <<today, session, token, tokenOf>>
      /\ \A u : Issued(u)' = Issued(u)
      /\ \A s : NoneLive(s)' = NoneLive(s)
      /\ \A u, s : Of(u, s)' = Of(u, s)
  BY <1>2, RowsStay
<1>5. tabs[w].carried # NoToken => tokenOf[tabs[w].carried] \in Sessions
  BY <1>1, <1>2, IssuedBelong DEF HeldAreIssued
<1>6. /\ Quiet' \subseteq Quiet /\ disturbed' \subseteq Sessions
  BY <1>1, <1>2, <1>5 DEF Quiet, SessionOf, BrowserTypeOK
<1>7. BrowserTypeOK' /\ Histories'
  BY <1>1, <1>2, <1>3, <1>4, <1>6 DEF BrowserTypeOK, Histories
<1>8. HeldAreIssued'
  BY <1>1, <1>2, <1>3, <1>4 DEF HeldAreIssued, Issued
<1>9. KeptApart'
  <2>1. \A c \in Clients : Held(c)' \subseteq Held(c)
    BY <1>2, <1>3 DEF Held
  <2> QED BY <1>1, <1>4, <2>1 DEF KeptApart, Clients
<1>10. ASSUME NEW s \in Quiet' PROVE QuietHold(s)'
  <2>1. OneTaker(s) /\ TakenFromJar(s) /\ BroughtIsGood(s) /\ SpentIsAnswered(s) /\ LeftIsDead(s)
    BY <1>1, <1>6, <1>10 DEF QuietHold
  <2>2. \A c \in Clients : Has(c, s)' = Has(c, s)
    BY <1>2, <1>4 DEF Has, Of
  <2>3. OneTaker(s)' /\ TakenFromJar(s)'
    BY <1>2, <1>3, <2>1, <2>2 DEF OneTaker, TakenFromJar
  <2>4. BroughtIsGood(s)'
    BY <1>2, <1>3, <1>4, <2>1, <2>2 DEF BroughtIsGood
  <2>5. SpentIsAnswered(s)' /\ LeftIsDead(s)'
    BY <1>2, <1>3, <1>4, <2>1 DEF SpentIsAnswered, LeftIsDead
  <2> QED BY <2>3, <2>4, <2>5 DEF QuietHold
<1>11. CookieIsGood'
  BY <1>1, <1>2, <1>3, <1>4 DEF CookieIsGood, SessionOf
<1> QED BY <1>7, <1>8, <1>9, <1>10, <1>11 DEF BrowserInv

\* The access token ages alone.
LEMMA AgeKeeps ==
    ASSUME BrowserInv, NEW c \in Clients, AccessAges(c)
    PROVE  BrowserInv'
PROOF
<1>1. /\ BrowserTypeOK /\ HeldAreIssued /\ KeptApart /\ Histories /\ CookieIsGood
      /\ \A s \in Quiet : QuietHold(s)
  BY DEF BrowserInv
<1>2. UNCHANGED <<userVars, tabs, disturbed, endedFor, left>> /\ jar' = [jar EXCEPT ![c].access = FALSE]
  BY DEF AccessAges
<1>3. jar' \in [Clients -> Cookies] /\ \A d \in Clients : jar'[d].refresh = jar[d].refresh
  BY <1>1, <1>2 DEF BrowserTypeOK, Cookies
<1>4. /\ UNCHANGED <<today, session, token, tokenOf>>
      /\ \A u : Issued(u)' = Issued(u)
      /\ \A s : NoneLive(s)' = NoneLive(s)
      /\ \A u, s : Of(u, s)' = Of(u, s)
  BY <1>2, RowsStay
<1>5. /\ \A s : \A v \in Tabs : Takes(v, s)' = Takes(v, s) /\ Brings(v, s)' = Brings(v, s)
      /\ \A s : \A d \in Clients : Has(d, s)' = Has(d, s)
      /\ Quiet' = Quiet /\ InFlight' = InFlight
      /\ \A v \in Tabs : Busy(v)' = Busy(v) /\ Answered(v)' = Answered(v) /\ Brought(v)' = Brought(v)
  BY <1>2, <1>3, <1>4 DEF Takes, Brings, Has, Of, Quiet, InFlight, Busy, Answered, Brought
<1>6. BrowserTypeOK' /\ Histories' /\ CookieIsGood'
  BY <1>1, <1>2, <1>3, <1>4, <1>5 DEF BrowserTypeOK, Histories, CookieIsGood
<1>7. HeldAreIssued'
  BY <1>1, <1>2, <1>3, <1>4, <1>5 DEF HeldAreIssued, Issued
<1>8. KeptApart'
  <2>1. \A d \in Clients : Held(d)' \subseteq Held(d)
    BY <1>2, <1>3, <1>5 DEF Held
  <2> QED BY <1>1, <1>4, <2>1 DEF KeptApart, Clients
<1>9. ASSUME NEW s \in Quiet PROVE QuietHold(s)'
  <2>1. OneTaker(s) /\ TakenFromJar(s) /\ BroughtIsGood(s) /\ SpentIsAnswered(s) /\ LeftIsDead(s)
    BY <1>1, <1>9 DEF QuietHold
  <2>2. OneTaker(s)' /\ TakenFromJar(s)'
    BY <1>2, <1>3, <1>5, <2>1 DEF OneTaker, TakenFromJar
  <2>3. BroughtIsGood(s)'
    BY <1>2, <1>3, <1>4, <1>5, <2>1 DEF BroughtIsGood
  <2>4. SpentIsAnswered(s)' /\ LeftIsDead(s)'
    BY <1>2, <1>4, <1>5, <2>1 DEF SpentIsAnswered, LeftIsDead
  <2> QED BY <2>2, <2>3, <2>4 DEF QuietHold
<1> QED BY <1>5, <1>6, <1>7, <1>8, <1>9 DEF BrowserInv

\* A new password by a link ends every session; what is left quiet was never
\* opened.
LEMMA ResetKeeps ==
    ASSUME BrowserInv, UserInv, UserInv', ResetElsewhere
    PROVE  BrowserInv'
PROOF
<1>1. /\ BrowserTypeOK /\ HeldAreIssued /\ KeptApart /\ Histories /\ CookieIsGood
      /\ \A s \in Quiet : QuietHold(s)
  BY DEF BrowserInv
<1>2. /\ UNCHANGED <<today, tokenOf, jar, tabs, disturbed, left>>
      /\ session' = SessionsRevoked /\ token' = TokensRevoked(Tokens)
      /\ endedFor' = endedFor \cup {s \in Sessions : session[s] = "open"}
  BY DEF ResetElsewhere, ResetPassword
<1>3. \A s \in Sessions : session'[s] = IF session[s] = "open" THEN "revoked" ELSE session[s]
  BY <1>2 DEF SessionsRevoked
<1>4. \A t \in Tokens : token'[t] = IF token[t] = "live" THEN "revoked" ELSE token[t]
  BY <1>2 DEF TokensRevoked
<1>5. \A t : Issued(t)' = Issued(t)
  BY <1>4 DEF Issued
<1>6. \A t : Issued(t) => tokenOf[t] \in Sessions /\ tokenOf[t] \in disturbed \cup endedFor'
  <2> SUFFICES ASSUME NEW t, Issued(t) PROVE tokenOf[t] \in Sessions /\ tokenOf[t] \in disturbed \cup endedFor'
    OBVIOUS
  <2>1. tokenOf[t] \in Sessions /\ session[tokenOf[t]] \in {"open", "revoked"}
    BY IssuedBelong
  <2> QED BY <1>1, <1>2, <2>1 DEF Histories
<1>7. BrowserTypeOK'
  BY <1>1, <1>2 DEF BrowserTypeOK
<1>8. HeldAreIssued'
  <2>1. HeldAreIssued
    BY <1>1
  <2> QED BY <1>2, <1>5, <2>1 DEF HeldAreIssued, Busy, Answered, Brought, Issued
<1>9. KeptApart'
  BY <1>1, <1>2 DEF KeptApart, Held, Busy, Answered, Brought
<1>10. Histories'
  BY <1>1, <1>2, <1>3 DEF Histories, BrowserTypeOK
<1>11. ASSUME NEW s \in Quiet' PROVE QuietHold(s)'
  <2>1. s \in Quiet
    BY <1>2, <1>11 DEF Quiet
  <2>2. \A t : Issued(t) => tokenOf'[t] # s
    BY <1>2, <1>6, <1>11 DEF Quiet
  <2>3. /\ \A v \in Tabs : ~Takes(v, s)' /\ ~Brings(v, s)'
        /\ \A c \in Clients : ~Has(c, s)'
    BY <1>5, <1>8, <2>2 DEF HeldAreIssued, Takes, Brings, Has, Of
  <2>4. NoneLive(s)'
    BY <1>4 DEF NoneLive
  <2> QED BY <2>3, <2>4 DEF QuietHold, OneTaker, TakenFromJar, BroughtIsGood, SpentIsAnswered, LeftIsDead
<1>12. CookieIsGood'
  BY <1>1, <1>2, <1>6 DEF CookieIsGood, HeldAreIssued
<1> QED BY <1>7, <1>8, <1>9, <1>10, <1>11, <1>12 DEF BrowserInv

LEMMA BrowserInitKeeps == BrowserInit => BrowserInv
PROOF
<1> SUFFICES ASSUME BrowserInit PROVE BrowserInv
  OBVIOUS
<1>1. /\ \A c \in Clients : jar[c] = NoCookies
      /\ \A w \in Tabs : tabs[w] = Resting
      /\ disturbed = {} /\ endedFor = {} /\ left = {} /\ today = 0
      /\ \A s \in Sessions : session[s] = "none"
      /\ NoCookies \in Cookies /\ NoCookies.refresh = NoToken
  BY DEF BrowserInit, UserInit, NoCookies, Cookies
<1>2. \A w \in Tabs : ~Busy(w) /\ ~Answered(w)
  BY <1>1 DEF Busy, Answered, Resting
<1>3. BrowserTypeOK
  BY <1>1 DEF BrowserInit, BrowserTypeOK, TabStates
<1>4. HeldAreIssued /\ Histories /\ CookieIsGood
  BY <1>1, <1>2 DEF HeldAreIssued, Histories, CookieIsGood
<1>5. KeptApart
  BY <1>1, <1>2 DEF KeptApart, Held, Clients
<1>6. \A s \in Quiet : QuietHold(s)
  BY <1>1, <1>2 DEF QuietHold, OneTaker, TakenFromJar, BroughtIsGood, SpentIsAnswered, LeftIsDead, Takes, Brings
<1> QED BY <1>3, <1>4, <1>5, <1>6 DEF BrowserInv

-----------------------------------------------------------------------------

\* What a browser causes on the server is a step of UserSessions.
LEMMA BrowserStepIsUserStep ==
    ASSUME BrowserInv, [BrowserNext]_<<userVars, browserVars>>
    PROVE  [UserNext]_userVars
PROOF
<1>1. ASSUME NEW w \in Tabs, Serve(w) PROVE [UserNext]_userVars
  <2>1. BrowserTypeOK /\ HeldAreIssued
    BY DEF BrowserInv
  <2>2. CASE ServeRefresh(w)
    <3>1. tabs[w].carried \in Tokens
      BY <2>1, <2>2, TabFacts DEF ServeRefresh, Served, HeldAreIssued, Issued
    <3> QED BY <2>2, <3>1 DEF ServeRefresh, UserNext, User
  <2>3. CASE ServeLogin(w) \/ ServeLogout(w) \/ ServePassword(w) \/ ServeInvite(w)
    BY <2>3 DEF ServeLogin, ServeLogout, ServePassword, ServeInvite, UserNext, User
  <2> QED BY <1>1, <2>2, <2>3 DEF Serve
<1>2. ASSUME NEW w \in Tabs, \/ \E c \in Clients : SendRequest(w, c)
                             \/ TakeAnswer(w) \/ LoseRequest(w)
      PROVE  UNCHANGED userVars
  BY <1>2 DEF SendRequest, Send, TakeAnswer, LoseRequest
<1>3. ASSUME NEW c \in Clients, AccessAges(c) PROVE UNCHANGED userVars
  BY <1>3 DEF AccessAges
<1>4. CASE ResetElsewhere
  BY <1>4 DEF ResetElsewhere, UserNext, User
<1>5. CASE UNCHANGED <<userVars, browserVars>>
  BY <1>5
<1> QED BY <1>1, <1>2, <1>3, <1>4, <1>5 DEF BrowserNext

LEMMA BrowserStep ==
    ASSUME UserInv, BrowserInv, [BrowserNext]_<<userVars, browserVars>>
    PROVE  UserInv' /\ BrowserInv'
PROOF
<1>1. UserInv'
  BY BrowserStepIsUserStep, StepKeeps
<1>2. ASSUME NEW w \in Tabs, NEW c \in Clients, SendRequest(w, c) PROVE BrowserInv'
  BY <1>2, SendKeeps DEF SendRequest, BrowserOps, Carried
<1>3. CASE UNCHANGED <<userVars, browserVars>>
  <2>1. /\ UNCHANGED <<today, session, token, tokenOf>>
        /\ \A u : Issued(u)' = Issued(u)
        /\ \A s : NoneLive(s)' = NoneLive(s)
        /\ \A u, s : Of(u, s)' = Of(u, s)
    BY <1>3, RowsStay
  <2>2. UNCHANGED <<jar, tabs, disturbed, endedFor, left>>
    BY <1>3 DEF browserVars
  <2>3. /\ \A w : Busy(w)' = Busy(w) /\ Answered(w)' = Answered(w) /\ Brought(w)' = Brought(w)
        /\ Quiet' = Quiet /\ InFlight' = InFlight
        /\ \A c : Held(c)' = Held(c)
    BY <2>2 DEF Busy, Answered, Brought, Quiet, InFlight, Held
  <2>4. BrowserTypeOK' /\ Histories' /\ CookieIsGood' /\ KeptApart'
    BY <2>1, <2>2, <2>3 DEF BrowserInv, BrowserTypeOK, Histories, CookieIsGood, KeptApart
  <2>5. HeldAreIssued'
    BY <2>1, <2>2, <2>3 DEF BrowserInv, HeldAreIssued, Issued
  <2>6. /\ \A s : \A w \in Tabs : Takes(w, s)' = Takes(w, s) /\ Brings(w, s)' = Brings(w, s)
        /\ \A s : \A c \in Clients : Has(c, s)' = Has(c, s)
    BY <2>1, <2>2, <2>3 DEF Takes, Brings, Has, Of
  <2>7. ASSUME NEW s \in Quiet PROVE QuietHold(s)'
    <3>1. QuietHold(s)
      BY DEF BrowserInv
    <3> QED BY <2>1, <2>2, <2>3, <2>6, <3>1
            DEF QuietHold, OneTaker, TakenFromJar, BroughtIsGood, SpentIsAnswered, LeftIsDead
  <2>8. \A s \in Quiet' : QuietHold(s)'
    BY <2>3, <2>7
  <2> QED BY <1>1, <2>1, <2>4, <2>5, <2>8 DEF BrowserInv
<1>4. CASE BrowserNext
  BY <1>1, <1>2, <1>4, ServeKeeps, TakeKeeps, LoseKeeps, AgeKeeps, ResetKeeps DEF BrowserNext
<1> QED BY <1>1, <1>3, <1>4

LEMMA BrowserInvariant == BrowserSpec => [](UserInv /\ BrowserInv)
PROOF
<1>1. BrowserInit => UserInv /\ BrowserInv
  BY InitKeeps, BrowserInitKeeps DEF BrowserInit
<1>2. UserInv /\ BrowserInv /\ [BrowserNext]_<<userVars, browserVars>> => (UserInv /\ BrowserInv)'
  BY BrowserStep
<1> QED BY <1>1, <1>2, PTL DEF BrowserSpec

\* Whatever a browser sends, repeats or loses, the rows of the server change as
\* UserSessions says: all that is proved of them holds beside a browser.
THEOREM BrowserKeepsRows == BrowserSpec => UserSpec
PROOF
<1>1. BrowserInit => UserInit
  BY DEF BrowserInit
<1>2. BrowserInv /\ [BrowserNext]_<<userVars, browserVars>> => [UserNext]_userVars
  BY BrowserStepIsUserStep
<1> QED BY <1>1, <1>2, BrowserInvariant, PTL DEF BrowserSpec, UserSpec

\* A browser whose requests come one after the other, and are answered, has a
\* cookie that it can exchange; one that was told it is logged out is; and the
\* clients keep their sessions apart.
THEOREM BrowserIsServed == BrowserSpec => []BrowserHolds
PROOF
<1>1. ASSUME UserInv, BrowserInv PROVE BrowserHolds
  <2>1. CookieIsGood
    BY <1>1 DEF BrowserInv
  <2>2. LoggedOutIsOut
    <3> SUFFICES ASSUME NEW s \in left, Usable(s), s \notin disturbed PROVE FALSE
      BY DEF LoggedOutIsOut
    <3>1. s \in Sessions /\ session[s] = "open"
      BY <1>1 DEF BrowserInv, BrowserTypeOK, Usable
    <3>2. s \in Quiet
      BY <1>1, <3>1 DEF BrowserInv, Histories, Quiet
    <3>3. NoneLive(s)
      BY <1>1, <3>2 DEF BrowserInv, QuietHold, LeftIsDead
    <3> QED BY <3>3 DEF NoneLive, Usable
  <2>3. ClientsApart
    <3> SUFFICES ASSUME NEW t \in Tokens, jar["store"].refresh = t, jar["admin"].refresh # NoToken,
                        tokenOf[jar["admin"].refresh] = tokenOf[t]
                 PROVE  FALSE
      BY DEF ClientsApart
    <3>1. t \in Held("store") /\ jar["admin"].refresh \in Held("admin")
      BY NoTokenAssumption DEF Held
    <3> QED BY <1>1, <3>1 DEF BrowserInv, KeptApart
  <2> QED BY <2>1, <2>2, <2>3 DEF BrowserHolds
<1> QED BY <1>1, BrowserInvariant, PTL

=============================================================================
