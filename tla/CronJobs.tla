------------------------------ MODULE CronJobs ------------------------------
(***************************************************************************)
(* The two cron jobs that write orders, beside the commands and the HTTP   *)
(* worker of OrderLifecycle.  Both SELECT their orders without FOR UPDATE, *)
(* so each is two steps: the SELECT, and the UPDATEs with the commit, with *)
(* any committed command in between.  (The UPDATEs of one transaction can  *)
(* be one step: the first takes row locks that keep out the commands that  *)
(* would tell them apart, and no command reads what is not committed.)     *)
(*                                                                         *)
(* A process runs one instance of a job at a time (runningJobs in          *)
(* cron.ts); several processes may run, and nothing keeps their selections *)
(* apart, nor from what the HTTP worker takes.                             *)
(***************************************************************************)
EXTENDS OrderLifecycle

CONSTANTS
    ExpireWorkers,      \* processes that run the expire-orders job
    CompleteWorkers     \* processes that run the auto-complete job

VARIABLES
    expiring,           \* the orders each expire-orders job has selected
    completing,         \* the orders each auto-complete job has selected
    rivals              \* history: the expire-orders jobs that still held an
                        \* order when its stock was first given back

jobVars == <<expiring, completing, rivals>>
cronVars == <<vars, jobVars>>

CronInit ==
    /\ Init
    /\ expiring = [w \in ExpireWorkers |-> {}]
    /\ completing = [w \in CompleteWorkers |-> {}]
    /\ rivals = [o \in Orders |-> {}]

\* The expire-orders jobs that have selected o and not committed yet.
HeldBy(o) == {w \in ExpireWorkers : o \in expiring[w]}

\* Who else will give back an order of S, given back now for the first time.
NoteRivals(S) ==
    rivals' = [o \in Orders |-> IF o \in S /\ released[o] = 0 THEN HeldBy(o)' ELSE rivals[o]]

-----------------------------------------------------------------------------
(* expire-orders.job.ts                                                    *)

SelectExpired(w) ==
    LET expired == {o \in Orders : Placed(o) /\ Expirable(status[o], payment[o], overdue[o])}
    IN  /\ expiring[w] = {}
        /\ expired # {}
        /\ expiring' = [expiring EXCEPT ![w] = expired]
        /\ UNCHANGED <<vars, completing, rivals>>

\* The UPDATEs go by the selected ids: nothing of the SELECT is checked again.
CommitExpired(w) ==
    /\ expiring[w] # {}
    /\ ReleaseAndCancel(expiring[w])
    /\ expiring' = [expiring EXCEPT ![w] = {}]
    /\ NoteRivals(expiring[w])
    /\ UNCHANGED <<overdue, snapToken, shipment, payments, sold, gatewayVars, completing>>

\* The HTTP worker looks at the rows it locks, not at what a job has selected.
ExpireBesideJobs(S) ==
    /\ ExpireOrders(S)
    /\ UNCHANGED <<expiring, completing>>
    /\ NoteRivals(S)

-----------------------------------------------------------------------------
(* auto-complete-delivered-orders.job.ts                                   *)

\* Some of the shipments under way were sent more than 14 days ago.
SelectDelivered(w) ==
    /\ completing[w] = {}
    /\ \E S \in SUBSET {o \in Orders : AutoCompletable(status[o], payment[o], shipment[o])} :
          /\ S # {}
          /\ completing' = [completing EXCEPT ![w] = S]
    /\ UNCHANGED <<vars, expiring, rivals>>

\* Here each UPDATE repeats its condition on the old status.
CommitDelivered(w) ==
    LET S == completing[w]
    IN  /\ S # {}
        /\ shipment' = [o \in Orders |->
              IF o \in S /\ shipment[o] = "SHIPPED" THEN "DELIVERED" ELSE shipment[o]]
        /\ status' = [o \in Orders |->
              IF o \in S /\ status[o] \notin {"COMPLETED", "CANCELLED"}
              THEN "COMPLETED" ELSE status[o]]
        /\ completing' = [completing EXCEPT ![w] = {}]
        /\ UNCHANGED <<payment, overdue, snapToken, payments, stock, sold, gatewayVars,
                       released, expiring, rivals>>

-----------------------------------------------------------------------------
\* A job that fails (a deadlock, a lost connection, the process killed) rolls
\* back; its next run selects anew.
AbortJobs ==
    /\ \/ \E w \in ExpireWorkers : expiring[w] # {} /\ expiring' = [expiring EXCEPT ![w] = {}]
                                   /\ UNCHANGED completing
       \/ \E w \in CompleteWorkers : completing[w] # {} /\ completing' = [completing EXCEPT ![w] = {}]
                                   /\ UNCHANGED expiring
    /\ UNCHANGED <<vars, rivals>>

CronNext ==
    \/ Commands /\ UNCHANGED jobVars
    \/ \E S \in SUBSET Orders : ExpireBesideJobs(S)
    \/ \E w \in ExpireWorkers : SelectExpired(w) \/ CommitExpired(w)
    \/ \E w \in CompleteWorkers : SelectDelivered(w) \/ CommitDelivered(w)
    \/ AbortJobs

CronSpec == CronInit /\ [][CronNext]_cronVars

-----------------------------------------------------------------------------
(* Properties.                                                             *)

\* However long before its commit a job has selected an order, the order's stock
\* is given back once, and once more at most for each other job that still held
\* the order then: an order that was given back is CANCELLED for good, and none
\* selects it anew.  (A job that does hold it gives the stock back again, which
\* the UPDATEs by id let it do.)
ReleasedOncePerHolder ==
    \A o \in Orders : released[o] > 0 =>
        status[o] = "CANCELLED" /\ released[o] <= 1 + Cardinality(rivals[o])

\* An order that was not expired keeps its rows in step, though the jobs that
\* complete it work on old selections, two at a time, while the customer or the
\* administrator delivers it: goods left only for money, and COMPLETED is
\* DELIVERED.
UnexpiredInStep ==
    \A o \in Orders : released[o] = 0 =>
        /\ shipment[o] # "PENDING" => payment[o] = "PAID" /\ status[o] \in {"PROCESSING", "COMPLETED"}
        /\ status[o] = "COMPLETED" <=> shipment[o] = "DELIVERED"

\* What the comment on both SELECTs says, "with row-level lock": the orders a
\* job holds stay what it selected, so a payment that comes meanwhile is kept.
PaidSurvivesJobs == [][\A o \in Orders : payment[o] = "PAID" => payment'[o] = "PAID"]_cronVars
=============================================================================
