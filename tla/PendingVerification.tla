------------------------ MODULE PendingVerification ------------------------
(***************************************************************************)
(* The links that are made out for an address, pending_verifications, and  *)
(* the accounts they create and change; three kinds are mailed, the link   *)
(* of changeEmail is only logged yet.  A command that makes one looks at   *)
(* the account, deletes the links it replaces and inserts the new one in a *)
(* transaction without a lock on the account; a command that redeems one   *)
(* locks the link's row, looks at the account, hashes a password, and      *)
(* writes.  The sessions that some of them end are UserSessions's.         *)
(***************************************************************************)
EXTENDS Integers, Sequences, FiniteSets

CONSTANTS
    Mailboxes,      \* the addresses
    GoogleMailboxes, \* those with a Google account
    LinkCalls,      \* requests that are handled at a time
    MaxLinks        \* bound: links made

ASSUME LinkAssumption == GoogleMailboxes \subseteq Mailboxes /\ MaxLinks \in Nat

NoUser == 0         \* user_id IS NULL

VARIABLES
    account,        \* users and user_providers, by id
    link,           \* pending_verifications, by id; acted and after are history
    errand          \* what each request has read

linkVars == <<account, link, errand>>

NoErrand == [at |-> "idle"]

InitLinks ==
    /\ account = <<>>
    /\ link = <<>>
    /\ errand = [w \in LinkCalls |-> NoErrand]

\* findUserByEmailOrNull: users.email is unique.
ByEmail(e) ==
    IF \E u \in DOMAIN account : account[u].email = e
    THEN CHOOSE u \in DOMAIN account : account[u].email = e
    ELSE NoUser

EmailFree(e) == ByEmail(e) = NoUser

\* insertUserWithRole
NewAccount(e, admin, password, google) ==
    account' = Append(account, [email |-> e, admin |-> admin, password |-> password, google |-> google])

Live(i) == link[i].at = "live"

\* The row locks of other transactions.
OpenedByOthers(i, w) == \E v \in LinkCalls \ {w} : errand[v].at = "opened" /\ errand[v].link = i

-----------------------------------------------------------------------------
(* register, inviteAdmin, requestPasswordReset, changeEmail.               *)

\* The account is looked at; a mailbox without one asks for no reset.
Allowed(type, e, u) ==
    CASE type = "REGISTER" -> EmailFree(e) /\ u = NoUser
      [] type = "INVITE" -> u = ByEmail(e) /\ (u # NoUser => ~account[u].admin)
      [] type = "RESET_PASSWORD" -> u = ByEmail(e) /\ u # NoUser
      [] type = "CHANGE_EMAIL" -> u # NoUser /\ EmailFree(e)

LookAtAccount(w) ==
    /\ errand[w] = NoErrand
    /\ \E type \in {"REGISTER", "INVITE", "RESET_PASSWORD", "CHANGE_EMAIL"}, e \in Mailboxes,
          u \in DOMAIN account \cup {NoUser} :
        /\ Allowed(type, e, u)
        /\ errand' = [errand EXCEPT ![w] = [at |-> "looked", type |-> type, email |-> e, user |-> u]]
    /\ UNCHANGED <<account, link>>

\* deletePendingByEmailAndType, and deletePendingByUserAndType for a new email.
Replaced(new, old) ==
    /\ old.type = new.type
    /\ IF new.type = "CHANGE_EMAIL" THEN old.user = new.user ELSE old.email = new.email

\* The DELETE takes its snapshot: what is inserted later it does not see.
AimAtOld(w) ==
    /\ errand[w].at = "looked"
    /\ errand' = [errand EXCEPT ![w] =
            [at |-> "aimed", type |-> errand[w].type, email |-> errand[w].email, user |-> errand[w].user,
             after |-> Len(link),
             old |-> {i \in DOMAIN link : Live(i) /\ Replaced(errand[w], link[i])}]]
    /\ UNCHANGED <<account, link>>

\* It waits for those that redeem one of them, looks at it again, and goes on to
\* the INSERT.  The mail is sent after the commit, or is lost: nobody notices.
IssueLink(w) ==
    LET ask == errand[w] IN
    /\ ask.at = "aimed"
    /\ Len(link) < MaxLinks
    /\ \A i \in ask.old : ~OpenedByOthers(i, w)
    /\ link' = Append([i \in DOMAIN link |->
                    IF i \in ask.old /\ Live(i) THEN [link[i] EXCEPT !.at = "gone"] ELSE link[i]],
                [type |-> ask.type, email |-> ask.email, user |-> ask.user,
                 at |-> "live", expired |-> FALSE, acted |-> 0, after |-> ask.after])
    /\ errand' = [errand EXCEPT ![w] = NoErrand]
    /\ UNCHANGED account

-----------------------------------------------------------------------------
(* verifyEmail, acceptAdminInvite, resetPassword, confirmEmailChange.      *)

\* Slip: the row is not locked.
OpenUnlocked(w) ==
    /\ errand[w] = NoErrand
    /\ \E i \in DOMAIN link :
        /\ Live(i) /\ ~link[i].expired
        /\ errand' = [errand EXCEPT ![w] = [at |-> "opened", link |-> i, user |-> link[i].user]]
    /\ UNCHANGED <<account, link>>

\* The row is locked and validated; then the account is looked for, by its id
\* or, for an invitation without one, by the address.
OpenLink(w) ==
    /\ errand[w] = NoErrand
    /\ \E i \in DOMAIN link :
        LET it == link[i]
            u == IF it.type = "INVITE" /\ it.user = NoUser THEN ByEmail(it.email) ELSE it.user
        IN
        /\ Live(i) /\ ~it.expired /\ ~OpenedByOthers(i, w)
        /\ it.type = "INVITE" /\ u # NoUser => ~account[u].admin
        /\ errand' = [errand EXCEPT ![w] = [at |-> "opened", link |-> i, user |-> u]]
    /\ UNCHANGED <<account, link>>

\* markPendingVerificationUsed, and the commit.
Use(w) ==
    /\ link' = [link EXCEPT ![errand[w].link].at = "used", ![errand[w].link].acted = @ + 1]
    /\ errand' = [errand EXCEPT ![w] = NoErrand]

Redeems(w, type) == errand[w].at = "opened" /\ link[errand[w].link].type = type

RedeemRegistration(w) ==
    /\ Redeems(w, "REGISTER")
    /\ EmailFree(link[errand[w].link].email)
    /\ NewAccount(link[errand[w].link].email, FALSE, TRUE, {})
    /\ Use(w)

\* Who has no password sends one, which COALESCE does not put over another.
RedeemInvite(w) ==
    LET u == errand[w].user IN
    /\ Redeems(w, "INVITE")
    /\ IF u = NoUser
       THEN EmailFree(link[errand[w].link].email) /\ NewAccount(link[errand[w].link].email, TRUE, TRUE, {})
       ELSE account' = [account EXCEPT ![u].admin = TRUE, ![u].password = TRUE]
    /\ Use(w)

\* The link's address may be one that the account has left.
RedeemReset(w) ==
    /\ Redeems(w, "RESET_PASSWORD")
    /\ account' = [account EXCEPT ![errand[w].user].password = TRUE]
    /\ Use(w)

RedeemEmailChange(w) ==
    LET e == link[errand[w].link].email IN
    /\ Redeems(w, "CHANGE_EMAIL")
    /\ ByEmail(e) \in {NoUser, errand[w].user}
    /\ account' = [account EXCEPT ![errand[w].user].email = e]
    /\ Use(w)

-----------------------------------------------------------------------------
(* googleLogin, time, failures.                                            *)

\* By the provider's id, or else by the address, or else a new account; one
\* Google account for a user, or the INSERT fails.  Those that sign in at once
\* meet at the unique indexes.
GoogleSignIn(e) ==
    LET linked == {u \in DOMAIN account : e \in account[u].google} IN
    /\ linked = {}
    /\ IF EmailFree(e)
       THEN NewAccount(e, FALSE, FALSE, {e})
       ELSE /\ account[ByEmail(e)].google = {}
            /\ account' = [account EXCEPT ![ByEmail(e)].google = {e}]
    /\ UNCHANGED <<link, errand>>

\* Fifteen minutes; whoever has opened it goes on.
ExpireLink(i) ==
    /\ Live(i) /\ ~link[i].expired
    /\ link' = [link EXCEPT ![i].expired = TRUE]
    /\ UNCHANGED <<account, errand>>

\* Slip: whether it was used is not asked.
CleanupUsedToo(i) ==
    /\ link[i].expired \/ link[i].at = "used"
    /\ link' = [link EXCEPT ![i].at = "gone"]
    /\ UNCHANGED <<account, errand>>

\* used_at IS NULL AND expires_at < NOW(), in batches.
CleanupPendingVerifications(i) ==
    /\ Live(i) /\ link[i].expired
    /\ \A w \in LinkCalls : errand[w].at = "opened" => errand[w].link # i
    /\ link' = [link EXCEPT ![i].at = "gone"]
    /\ UNCHANGED <<account, errand>>

\* A unique index refuses, or the transaction breaks.
FailErrand(w) ==
    /\ errand[w] # NoErrand
    /\ errand' = [errand EXCEPT ![w] = NoErrand]
    /\ UNCHANGED <<account, link>>

NextLinks ==
    \/ \E w \in LinkCalls :
        \/ LookAtAccount(w) \/ AimAtOld(w) \/ IssueLink(w)
        \/ OpenLink(w) \/ RedeemRegistration(w) \/ RedeemInvite(w) \/ RedeemReset(w) \/ RedeemEmailChange(w)
        \/ FailErrand(w)
    \/ \E e \in GoogleMailboxes : GoogleSignIn(e)
    \/ \E i \in DOMAIN link : ExpireLink(i) \/ CleanupPendingVerifications(i)

LinkSpec == InitLinks /\ [][NextLinks]_linkVars

-----------------------------------------------------------------------------
(* Properties.                                                             *)

\* Two requests with one link change the account once, and the link says so.
ActsOnce == \A i \in DOMAIN link : link[i].acted = IF link[i].at = "used" THEN 1 ELSE 0

\* A new link takes the one before it: two that do the same are live only
\* when the older was inserted after the younger's DELETE had looked.
NewestLinkOnly ==
    \A i, j \in DOMAIN link :
        /\ i < j /\ Live(i) /\ Live(j) /\ link[i].type = link[j].type
        /\ IF link[i].type = "CHANGE_EMAIL" THEN link[i].user = link[j].user ELSE link[i].email = link[j].email
        => link[j].after < i

\* No account answers to an address nobody has shown to own: a link made out for
\* it is marked as used, and kept, or Google has said so; two accounts
\* never share one; and an administrator can log in with a password.
AddressesProved ==
    /\ \A u, v \in DOMAIN account : account[u].email = account[v].email => u = v
    /\ \A u \in DOMAIN account :
        /\ \/ account[u].email \in account[u].google
           \/ \E i \in DOMAIN link :
                /\ link[i].at = "used" /\ link[i].email = account[u].email
                /\ \/ link[i].type \in {"REGISTER", "INVITE"}
                   \/ link[i].type = "CHANGE_EMAIL" /\ link[i].user = u
        /\ account[u].admin => account[u].password

\* A link works once, the newest alone, and an account's address rests on one.
LinksHold == ActsOnce /\ NewestLinkOnly /\ AddressesProved
=============================================================================
