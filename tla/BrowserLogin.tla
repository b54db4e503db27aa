---------------------------- MODULE BrowserLogin ----------------------------
(***************************************************************************)
(* The browser's side of a login: the cookies that carry the tokens of     *)
(* UserSessions.  A browser keeps a pair of cookies for the shop and a     *)
(* pair for the administration, which all its tabs share; a request takes  *)
(* along what is there when it is sent, and its answer changes what is     *)
(* there when it arrives.  The server's part of a request is the step of   *)
(* UserSessions that it causes.                                            *)
(***************************************************************************)
EXTENDS UserSessions

CONSTANTS
    Tabs,           \* the requests of the browser in flight
    NoToken,        \* no cookie
    MaxSent         \* bound on the requests that are sent

ASSUME NoTokenAssumption == NoToken \notin Tokens

VARIABLES
    jar,            \* the cookies of each client: is there an access token, and which refresh token
    tabs,           \* the requests in flight and their answers
    disturbed,      \* history: the sessions of which two requests carried a token at a time, or one was lost
    endedFor,       \* history: the sessions ended by a new password
    left,           \* history: the sessions that were logged out of
    sent            \* how many requests were sent

browserVars == <<jar, tabs, disturbed, endedFor, left, sent>>

Clients == {"store", "admin"}
Resting == [op |-> "resting", stage |-> "resting"]
NoCookies == [access |-> FALSE, refresh |-> NoToken]

BrowserInit ==
    /\ UserInit
    /\ jar = [c \in Clients |-> NoCookies]
    /\ tabs = [w \in Tabs |-> Resting]
    /\ disturbed = {} /\ endedFor = {} /\ left = {}
    /\ sent = 0

-----------------------------------------------------------------------------
(* Requests.  A client names itself in a header; its cookies have names of *)
(* their own.                                                              *)

InFlight == {tabs[w].carried : w \in {v \in Tabs : tabs[v] # Resting}} \ {NoToken}

\* Slip: the cookies of the shop are sent for either client.
CarriedByStore(c) == jar["store"]

\* getCookieNames, and what the browser has under these names.
Carried(c) == jar[c]

SessionOf(t) == IF t = NoToken THEN {} ELSE {tokenOf[t]}

Send(w, c, op) ==
    /\ tabs[w] = Resting
    /\ sent < MaxSent
    /\ sent' = sent + 1
    /\ tabs' = [tabs EXCEPT ![w] = [op |-> op, client |-> c, carried |-> Carried(c).refresh, stage |-> "sent"]]
    /\ disturbed' = IF Carried(c).refresh \in InFlight THEN disturbed \cup SessionOf(Carried(c).refresh) ELSE disturbed
    /\ UNCHANGED <<userVars, jar, endedFor, left>>

\* requireAuth: a token that is there and valid; no row is asked.
requireAuth(c) == Carried(c).access

\* refresh without a cookie, and new passwords without access, are refused at once.
SendRequest(w, c) ==
    \/ Send(w, c, "login")
    \/ Carried(c).refresh # NoToken /\ Send(w, c, "refresh")
    \/ Send(w, c, "logout")
    \/ requireAuth(c) /\ Send(w, c, "changePassword")
    \/ Send(w, c, "acceptAdminInvite")

-----------------------------------------------------------------------------
(* Answers.                                                                *)

Answer(w, answer) == tabs' = [tabs EXCEPT ![w] =
    [op |-> @.op, client |-> @.client, carried |-> @.carried, stage |-> "answered", cookies |-> answer]]

\* setAuthCookies, for the client that asked or the one that the handler names.
SetAuth(w, client) ==
    \E t \in Tokens :
        /\ token[t] = "none" /\ token'[t] = "live"
        /\ Answer(w, [set |-> {client}, to |-> [access |-> TRUE, refresh |-> t]])

\* Slip: clearAuthCookies takes the names of the shop's cookies.
ClearAuthStore(w, client) == Answer(w, [set |-> {"store"}, to |-> NoCookies])

ClearAuth(w, client) == Answer(w, [set |-> {client}, to |-> NoCookies])

\* An error has no cookies, and leaves those that the browser has.
Refuse(w) == Answer(w, [set |-> {}, to |-> NoCookies])

Served(w, op) ==
    /\ tabs[w].op = op /\ tabs[w].stage = "sent"
    /\ UNCHANGED <<jar, disturbed, left, sent>>

\* login and googleLogin.
ServeLogin(w) ==
    /\ Served(w, "login")
    /\ GoogleLogin
    /\ SetAuth(w, tabs[w].client)
    /\ UNCHANGED endedFor

ServeRefresh(w) ==
    LET t == tabs[w].carried
    IN  /\ Served(w, "refresh")
        /\ \/ Refresh(t) /\ SetAuth(w, tabs[w].client)
           \/ DetectReuse(t) /\ Refuse(w)
           \/ token[t] # "revoked" /\ ~Refreshable(t) /\ Refuse(w) /\ UNCHANGED userVars
        /\ UNCHANGED endedFor

\* Slip: the cookies are cleared, the token stays good.
ServeLogoutCookiesOnly(w) ==
    /\ Served(w, "logout")
    /\ ClearAuth(w, tabs[w].client)
    /\ UNCHANGED <<userVars, endedFor>>

\* Idempotent: the cookies are cleared, whatever they were.
ServeLogout(w) ==
    LET t == tabs[w].carried
    IN  /\ Served(w, "logout")
        /\ ClearAuth(w, tabs[w].client)
        /\ IF t \in Tokens /\ token[t] = "live" THEN Logout(t) ELSE UNCHANGED userVars
        /\ UNCHANGED endedFor

\* changePassword and setPassword: every session ends, the one that asks gets a
\* new one.
ServePassword(w) ==
    /\ Served(w, "changePassword")
    /\ ChangePassword
    /\ SetAuth(w, tabs[w].client)
    /\ endedFor' = endedFor \cup {s \in Sessions : session[s] = "open"}

\* The administration's cookies, whoever the client says it is.
ServeInvite(w) ==
    /\ Served(w, "acceptAdminInvite")
    /\ GoogleLogin
    /\ SetAuth(w, "admin")
    /\ UNCHANGED endedFor

-----------------------------------------------------------------------------
(* The browser, and the rest of the world.                                 *)

TakeAnswer(w) ==
    LET a == tabs[w].cookies
    IN  /\ tabs[w].stage = "answered"
        /\ jar' = [c \in Clients |-> IF c \in a.set THEN a.to ELSE jar[c]]
        /\ tabs' = [tabs EXCEPT ![w] = Resting]
        /\ left' = IF tabs[w].op = "logout" THEN left \cup SessionOf(tabs[w].carried) ELSE left
        /\ UNCHANGED <<userVars, disturbed, endedFor, sent>>

\* The request or its answer is lost; who sent it cannot tell which.
LoseRequest(w) ==
    /\ tabs[w] # Resting
    /\ tabs' = [tabs EXCEPT ![w] = Resting]
    /\ disturbed' = disturbed \cup SessionOf(tabs[w].carried)
    /\ UNCHANGED <<userVars, jar, endedFor, left, sent>>

\* Fifteen minutes, for the access token and its cookie.
AccessAges(c) ==
    /\ jar[c].access
    /\ jar' = [jar EXCEPT ![c].access = FALSE]
    /\ UNCHANGED <<userVars, tabs, disturbed, endedFor, left, sent>>

\* A new password by a link, on another device.
ResetElsewhere ==
    /\ ResetPassword
    /\ endedFor' = endedFor \cup {s \in Sessions : session[s] = "open"}
    /\ UNCHANGED <<jar, tabs, disturbed, left, sent>>

Serve(w) == ServeLogin(w) \/ ServeRefresh(w) \/ ServeLogout(w) \/ ServePassword(w) \/ ServeInvite(w)

BrowserNext ==
    \/ \E w \in Tabs :
          \/ \E c \in Clients : SendRequest(w, c)
          \/ Serve(w) \/ TakeAnswer(w) \/ LoseRequest(w)
    \/ \E c \in Clients : AccessAges(c)
    \/ ResetElsewhere

BrowserSpec == BrowserInit /\ [][BrowserNext]_<<userVars, browserVars>>

-----------------------------------------------------------------------------
(* Properties.                                                             *)

\* A browser whose requests with a token come one after the other, and are
\* answered, can refresh: its cookie is exchanged for the next or taken away,
\* never left behind.  Two tabs that refresh at once, or a lost answer, and the
\* next refresh looks like a theft; a new password ends what it should.
CookieIsGood ==
    \A c \in Clients :
        LET t == jar[c].refresh
        IN  t # NoToken /\ t \notin InFlight /\ token[t] # "live" =>
                tokenOf[t] \in disturbed \cup endedFor

\* Once the browser was told that it is logged out, nobody can go on with the
\* session, but for a refresh that crossed the logout or was not heard of: its
\* token lives on, perhaps in the browser.
LoggedOutIsOut == \A s \in left : Usable(s) => s \in disturbed

\* A client's cookies are never exchanged for those of the other: what a session
\* was begun for is what it is used for.
ClientsApart ==
    \A t \in Tokens : jar["store"].refresh = t /\ jar["admin"].refresh # NoToken =>
        tokenOf[jar["admin"].refresh] # tokenOf[t]

BrowserHolds == CookieIsGood /\ LoggedOutIsOut /\ ClientsApart
=============================================================================
