------------------------- MODULE MCCheckoutHistory -------------------------
(* What is read without a lock and written later, for TLC: the requests on *)
(* the instances of MCCheckoutSession, with their history, or the cron     *)
(* jobs beside the commands on two orders.  The two share no row that      *)
(* either decides on here; focus says what is explored.                    *)
EXTENDS MCCheckoutSession, CheckoutHistory, CronJobs

CONSTANTS o1, o2, t1, t2

VARIABLE focus

\* Stock enough for both orders at once, and one transaction for each.
OneTxnEach == t1 :> o1 @@ t2 :> o2
OrderQty == o1 :> (v1 :> 2) @@ o2 :> (v1 :> 1)
EnoughStock == v1 :> 3

Calling(w, services) ==
    /\ calls[w] # Idle /\ calls[w].op # "saveAddress" => calls[w].service \in services
    /\ calls[w] # Idle /\ calls[w].op = "saveAddress" => focus = "requests" \/ calls[w].address # a2

\* Two sessions, one request in flight and one destination; or one session, two
\* requests and two destinations, of which one is left when an item goes off
\* sale; or one session, one request and services that are quoted without a
\* delivery time, or at no charge.
InFocus ==
    /\ focus # "sessions" => state[s2] = "NONE"
    /\ focus # "requests" => calls[2] = Idle /\ \A s \in Sessions : address[s] # a2
    /\ focus = "requests" => onSale = CartVariants \/ calls[2] = Idle
    /\ focus = "sessions" => onSale = CartVariants
    /\ \A w \in Workers : Calling(w, IF focus = "services" THEN Services ELSE {reg})

FocusInit == HistInit /\ CronInit /\ focus \in {"requests", "sessions", "services", "jobs"}

FocusNext ==
    /\ UNCHANGED focus
    /\ \/ focus # "jobs" /\ HistNext /\ InFocus' /\ UNCHANGED cronVars
       \/ focus = "jobs" /\ CronNext /\ UNCHANGED histVars

FocusSpec == FocusInit /\ [][FocusNext]_<<histVars, cronVars, focus>>
=============================================================================
