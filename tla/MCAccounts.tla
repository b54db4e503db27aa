----------------------------- MODULE MCAccounts -----------------------------
(* The parts of a user's account for TLC.  Sessions, addresses and links   *)
(* share no row that one reads for the other, so each is explored alone:   *)
(* focus says which.  Sessions are explored once under all that happens to *)
(* them, and once as a browser with two tabs uses them.                    *)
EXTENDS BrowserLogin, UserAddresses, PendingVerification, TLC

VARIABLE focus

\* Any session and any token may come next, and every property treats them
\* alike: it is enough to follow those that take them in order.
TakenInOrder ==
    /\ \A s, r \in Sessions : s < r /\ session[r] # "none" => session[s] # "none"
    /\ \A t, u \in Tokens : t < u /\ token[u] # "none" => token[t] # "none"

\* Requests overlap in the first two days, and as long as no link has expired:
\* after that one at a time is enough, for which a day or a link may still pass.
OverlapEarly ==
    /\ \A w, v \in Requests : calls[w] # Idle /\ calls[v] # Idle /\ today > 1 => w = v
    /\ \A w, v \in LinkCalls :
          errand[w] # NoErrand /\ errand[v] # NoErrand /\ (\E i \in DOMAIN link : Live(i) /\ link[i].expired) => w = v

Followed == TakenInOrder /\ OverlapEarly

AccountsInit ==
    /\ BrowserInit
    /\ InitAddresses
    /\ InitLinks
    /\ focus \in {"sessions", "browser", "addresses", "links"}
    /\ focus \in {"addresses", "links"} => password = 0

AccountsNext ==
    /\ UNCHANGED focus
    /\ \/ focus = "sessions" /\ UserNext /\ UNCHANGED <<browserVars, addressVars, linkVars>>
       \/ focus = "browser" /\ BrowserNext /\ UNCHANGED <<addressVars, linkVars>>
       \/ focus = "addresses" /\ NextAddresses /\ UNCHANGED <<userVars, browserVars, linkVars>>
       \/ focus = "links" /\ NextLinks /\ UNCHANGED <<userVars, browserVars, addressVars>>

\* Nothing tells two requests apart.
EitherRequest == Permutations(Requests)

AccountsSpec == AccountsInit /\ [][AccountsNext]_<<userVars, browserVars, addressVars, linkVars, focus>>
=============================================================================
