----------------------------- MODULE Dashboard -----------------------------
(***************************************************************************)
(* The administrator's dashboard: how many orders of a window of time are  *)
(* paid, by day, by month and in all.  Three queries run side by side.     *)
(* The database groups by the days of Jakarta; the server lists the days   *)
(* of the chart by its own clock (UTC), a day at a time from the moment    *)
(* the window begins.  Orders are paid meanwhile, and the job that expires *)
(* orders takes payments back.                                             *)
(***************************************************************************)
EXTENDS Naturals, FiniteSets, Functions

CONSTANTS
    PaidOrders,     \* orders that can be paid
    DayLength,      \* units of time in a day
    MonthDays,      \* days in a month
    Ahead,          \* what Jakarta's clock is ahead of the server's
    Horizon         \* bound on the time

ASSUME DashboardAssumption ==
    /\ {DayLength, MonthDays} \subseteq Nat \ {0}
    /\ Ahead \in 0 .. DayLength - 1
    /\ Horizon \in Nat

Unplaced == 0
NotAsked == [asked |-> FALSE]

VARIABLES
    instant,        \* Date.now()
    createdAt,      \* orders.created_at
    paidOrders,     \* orders with payment_status PAID
    expiring,       \* ids that the job has read and not yet written
    report          \* the dashboard that is being made, or was made last

dashboardVars == <<instant, createdAt, paidOrders, expiring, report>>

InitDashboard ==
    /\ instant = 1
    /\ createdAt = [o \in PaidOrders |-> Unplaced]
    /\ paidOrders = {}
    /\ expiring = {}
    /\ report = NotAsked

PlaceAt(o) ==
    /\ createdAt[o] = Unplaced
    /\ createdAt' = [createdAt EXCEPT ![o] = instant]
    /\ UNCHANGED <<instant, paidOrders, expiring, report>>

\* steady and ever are history: what was paid when the report was asked for and ever
\* since, and what was paid then or at any time since.
NotePaid ==
    report' = IF report.asked THEN [report EXCEPT !.steady = @ \cap paidOrders', !.ever = @ \cup paidOrders']
              ELSE report

PayLater(o) ==
    /\ createdAt[o] # Unplaced
    /\ paidOrders' = paidOrders \cup {o}
    /\ NotePaid
    /\ UNCHANGED <<instant, createdAt, expiring>>

\* The job reads, without a lock, orders that are not paid and whose time is over (that
\* it may read one again which it expired before adds nothing to what is paid).
SelectExpired(orders) ==
    /\ expiring = {} /\ orders # {}
    /\ \A o \in orders : o \notin paidOrders /\ createdAt[o] # Unplaced /\ createdAt[o] < instant
    /\ expiring' = orders
    /\ UNCHANGED <<instant, createdAt, paidOrders, report>>

\* And writes them by id, their payment too, whatever it has become.
WriteExpired ==
    /\ expiring # {}
    /\ paidOrders' = paidOrders \ expiring
    /\ expiring' = {}
    /\ NotePaid
    /\ UNCHANGED <<instant, createdAt>>

TimePasses ==
    /\ instant < Horizon
    /\ instant' = instant + 1
    /\ UNCHANGED <<createdAt, paidOrders, expiring, report>>

-----------------------------------------------------------------------------
(* The queries and the charts made of them.                                *)

Window(orders, from, to) == {o \in orders : from <= createdAt[o] /\ createdAt[o] < to}

JakartaDay(o) == (createdAt[o] + Ahead) \div DayLength
JakartaMonth(o) == JakartaDay(o) \div MonthDays

ServerDay(t) == t \div DayLength
ServerMonth(t) == ServerDay(t) \div MonthDays

getSummary(from, to) == Cardinality(Window(paidOrders, from, to))

getOrdersChart(from, to) ==
    LET orders == Window(paidOrders, from, to)
    IN  [d \in {JakartaDay(o) : o \in orders} |-> Cardinality({o \in orders : JakartaDay(o) = d})]

\* Every order costs one unit.
getRevenueChart(from, to) ==
    LET orders == Window(paidOrders, from, to)
    IN  [m \in {JakartaMonth(o) : o \in orders} |-> Cardinality({o \in orders : JakartaMonth(o) = m})]

\* map.get(...) ?? 0, for every day or month that is listed.
OrZero(data, listed) == [d \in listed |-> IF d \in DOMAIN data THEN data[d] ELSE 0]

\* Slip: the walk begins with the second day.
fillMissingDaysLate(data, from, to) ==
    OrZero(data, {ServerDay(t) : t \in {from + k * DayLength : k \in 1 .. to} \cap from .. to - 1})

\* A day further each time, at the hour at which the window begins.
fillMissingDays(data, from, to) ==
    OrZero(data, {ServerDay(t) : t \in {from + k * DayLength : k \in 0 .. to} \cap from .. to - 1})

\* Slip: the walk begins with the first month that begins in the window.
fillMissingMonthsLate(data, from, to) ==
    LET first(m) == m * MonthDays * DayLength + (from % DayLength)
    IN  OrZero(data, {m \in ServerMonth(from) .. ServerMonth(to) : from <= first(m) /\ first(m) < to})

\* The first of a month at that hour, and the firsts after it.
fillMissingMonths(data, from, to) ==
    LET first(m) == m * MonthDays * DayLength + (from % DayLength)
    IN  OrZero(data, {m \in ServerMonth(from) .. ServerMonth(to) : first(m) < to})

-----------------------------------------------------------------------------
(* getDashboard.                                                           *)

Pending == {"summary", "days", "months"}

AskDashboard(from, to) ==
    /\ report = NotAsked
    /\ report' = [asked |-> TRUE, pending |-> Pending, from |-> from, to |-> to, steady |-> paidOrders,
                  ever |-> paidOrders, summary |-> 0, days |-> <<>>, months |-> <<>>]
    /\ UNCHANGED <<instant, createdAt, paidOrders, expiring>>

Answer(query, answer) ==
    /\ report.asked /\ query \in report.pending
    /\ report' = [report EXCEPT !.pending = @ \ {query}, ![query] = answer]
    /\ UNCHANGED <<instant, createdAt, paidOrders, expiring>>

AnswerSummary == report.asked /\ Answer("summary", getSummary(report.from, report.to))

AnswerDays ==
    /\ report.asked
    /\ LET from == report.from
           to == report.to
       IN  Answer("days", fillMissingDays(getOrdersChart(from, to), from, to))

AnswerMonths ==
    /\ report.asked
    /\ LET from == report.from
           to == report.to
       IN  Answer("months", fillMissingMonths(getRevenueChart(from, to), from, to))

NextDashboard ==
    \/ \E o \in PaidOrders : PlaceAt(o) \/ PayLater(o)
    \/ \E orders \in SUBSET PaidOrders : SelectExpired(orders)
    \/ WriteExpired
    \/ TimePasses
    \/ \E from, to \in 1 .. Horizon : from < to /\ AskDashboard(from, to)
    \/ AnswerSummary \/ AnswerDays \/ AnswerMonths

DashboardSpec == InitDashboard /\ [][NextDashboard]_dashboardVars

-----------------------------------------------------------------------------
(* Properties.                                                             *)

\* The orders of the window, and those whose day, or month, is over where it ends.
InWindow(orders) == Window(orders, report.from, report.to)
DayOver(orders) == {o \in InWindow(orders) : JakartaDay(o) < ServerDay(report.to)}
MonthOver(orders) == {o \in InWindow(orders) : JakartaMonth(o) < ServerMonth(report.to)}

\* A chart without its last column.
ColumnsBefore(chart, last) == [d \in {d \in DOMAIN chart : d < last} |-> chart[d]]

\* A count that was made between the asking and now.
CountedMeanwhile(n, steady, ever) == Cardinality(steady) <= n /\ n <= Cardinality(ever)

\* The three parts of a dashboard tell of the same orders, those apart that were paid
\* meanwhile or lost their payment to the job that expires orders: the number in all,
\* and the charts without the orders of the day, or month, in which the window ends,
\* which may be missing, because the server's walk may end before Jakarta's day
\* begins or is over.
ChartsTell ==
    report.asked =>
        /\ "summary" \notin report.pending =>
               CountedMeanwhile(report.summary, InWindow(report.steady), InWindow(report.ever))
        /\ "days" \notin report.pending =>
               /\ CountedMeanwhile(SumFunction(ColumnsBefore(report.days, ServerDay(report.to))),
                                   DayOver(report.steady), DayOver(report.ever))
               /\ SumFunction(report.days) <= Cardinality(InWindow(report.ever))
        /\ "months" \notin report.pending =>
               /\ CountedMeanwhile(SumFunction(ColumnsBefore(report.months, ServerMonth(report.to))),
                                   MonthOver(report.steady), MonthOver(report.ever))
               /\ SumFunction(report.months) <= Cardinality(InWindow(report.ever))
=============================================================================
