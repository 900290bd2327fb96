------------------------------ MODULE Spending ------------------------------
(***************************************************************************)
(* What the reports say of the purchase orders of one tenant while orders  *)
(* are created, move through their states and cross the ends of months:    *)
(* the spend by supplier, the comparison of suppliers, the projection of   *)
(* payments (rpt.aggregations.ts), the budget of a month (rpt.service.ts), *)
(* the two pipelines of po.aggregations.ts and the scores of suppliers     *)
(* (supplier.aggregations.ts).  A report is an operator over the stored    *)
(* orders; the states of an order are those of module PurchaseOrder, here  *)
(* without requests that overlap.                                          *)
(***************************************************************************)
EXTENDS Integers, Sequences, FiniteSetsExt, Sums

CONSTANTS
    Orders, Suppliers, Items,
    Deals,          \* what an order may ask for
    Day, Month, Week, \* their lengths by the clock, which is finer than days
    Horizon,        \* how far a projection looks ahead: a number of days
    Limits,         \* monthly limits of a budget
    Warning,        \* percentage at which a budget warns
    MinSample,      \* finished orders that a score rests on
    MaxTime         \* bound of the model: the clock

Currencies == {"BDT", "USD"}

CalendarAssumption ==
    /\ {Day, Month, Week} \subseteq Nat \ {0} /\ {Horizon, MaxTime} \subseteq Nat
    /\ MinSample \in Nat \ {0}
    /\ IsFiniteSet(Orders) /\ IsFiniteSet(Suppliers)
    /\ Limits \subseteq Nat /\ Warning \in 0..100
    /\ \A d \in Deals :
         /\ d.currency \in Currencies /\ {d.tax, d.lead, d.terms} \subseteq Nat
         /\ d.lines \in Seq([item: Items, quantity: Nat, price: Nat]) /\ d.lines # <<>>

VARIABLES
    order,      \* the purchase orders
    budget,     \* the budget of each month
    now         \* the clock

vars == <<order, budget, now>>

States == {"none", "draft", "pending_approval", "approved", "sent", "partially_received",
           "fully_received", "closed", "cancelled", "rejected"}

(* The transitions of purchaseOrder.model.ts. *)
Transitions ==
    [draft |-> {"pending_approval", "cancelled"},
     pending_approval |-> {"approved", "rejected", "cancelled"},
     approved |-> {"sent", "cancelled"},
     sent |-> {"partially_received", "fully_received", "cancelled"},
     partially_received |-> {"fully_received", "cancelled"},
     fully_received |-> {"closed"},
     rejected |-> {"draft"}]

Never == MaxTime + 1
NoOrder == [state |-> "none"]
NoBudget == [limit |-> -1, currency |-> "BDT"]
Months == 0..(MaxTime \div Month)

Init ==
    /\ order = [o \in Orders |-> NoOrder]
    /\ budget = [m \in Months |-> NoBudget]
    /\ now = 0

Stored == {o \in Orders : order[o].state # "none"}

Create(o, s, d) ==
    /\ o \notin Stored
    /\ order' = [order EXCEPT ![o] =
         [state |-> "draft", supplier |-> s, deal |-> d, created |-> now,
          closed |-> Never]]
    /\ UNCHANGED <<budget, now>>

Move(o, state) ==
    /\ o \in Stored
    /\ order[o].state \in DOMAIN Transitions
    /\ state \in Transitions[order[o].state]
    /\ order' = [order EXCEPT ![o].state = state,
                              ![o].closed = IF state = "closed" THEN now ELSE @]
    /\ UNCHANGED <<budget, now>>

UpsertBudget(m, limit, currency) ==
    /\ budget' = [budget EXCEPT ![m] = [limit |-> limit, currency |-> currency]]
    /\ UNCHANGED <<order, now>>

Tick ==
    /\ now < MaxTime
    /\ now' = now + 1
    /\ UNCHANGED <<order, budget>>

Next ==
    \/ \E o \in Orders, s \in Suppliers, d \in Deals : Create(o, s, d)
    \/ \E o \in Orders, state \in States : Move(o, state)
    \/ \E limit \in Limits, currency \in Currencies :
         UpsertBudget(now \div Month, limit, currency)
    \/ Tick

Spec == Init /\ [][Next]_vars

(***************************************************************************)
(* The stored order: its lines and its totals.                             *)
(***************************************************************************)
Lines(o) == {<<o, i>> : i \in DOMAIN order[o].deal.lines}
Line(l) == order[l[1]].deal.lines[l[2]]
Amount(lines) == Sum([l \in lines |-> Line(l).quantity * Line(l).price])
Subtotal(o) == Amount(Lines(o))
Total(o) == Subtotal(o) + order[o].deal.tax
Value(set) == Sum([o \in set |-> Total(o)])
Expected(o) == order[o].created + order[o].deal.lead
MonthOf(o) == order[o].created \div Month
In(currency, set) == {o \in set : order[o].deal.currency = currency}

(***************************************************************************)
(* Spend.                                                                  *)
(***************************************************************************)
(* Mutant: a closed order is forgotten. *)
CommittedOpen(from, to) ==
    {o \in Stored : /\ order[o].state \in {"approved", "sent", "partially_received",
                                           "fully_received"}
                    /\ from <= order[o].created /\ order[o].created < to}

(* The orders that sumPurchaseOrderSpend counts. *)
Committed(from, to) ==
    {o \in Stored : /\ order[o].state \in {"approved", "sent", "partially_received",
                                           "fully_received", "closed"}
                    /\ from <= order[o].created /\ order[o].created < to}

SumSpend(from, to, currency) == Value(In(currency, Committed(from, to)))

(* Mutant: both ends of the range belong to it. *)
BoughtToTheEnd(from, to) ==
    {o \in Stored : /\ order[o].state \in {"approved", "sent", "partially_received",
                                           "fully_received", "closed"}
                    /\ from <= order[o].created /\ order[o].created <= to}

(* The orders of the pipelines of rpt.aggregations.ts. *)
Bought(from, to) ==
    {o \in Stored : /\ order[o].state \in {"approved", "sent", "partially_received",
                                           "fully_received", "closed"}
                    /\ from <= order[o].created /\ order[o].created < to}

(* spendBySupplier: a row for each supplier and month. *)
SpendRows(from, to) ==
    LET counted == Bought(from, to) IN
    {[supplier |-> s, month |-> m,
      spend |-> Value({o \in counted : order[o].supplier = s /\ MonthOf(o) = m})] :
        s \in {order[o].supplier : o \in counted}, m \in {MonthOf(o) : o \in counted}}

SpendOf(rows) == Sum([r \in rows |-> r.spend])

(* procurementSpend by supplier adds up lines, and its range is closed. *)
ProcurementSpend(from, to, s) ==
    LET counted == {o \in Stored :
                      /\ order[o].state \in {"approved", "sent", "partially_received",
                                             "fully_received", "closed"}
                      /\ from <= order[o].created /\ order[o].created <= to
                      /\ order[o].supplier = s} IN
    Amount(UNION {Lines(o) : o \in counted})

(* The weekly report values every order of its range, in whatever state. *)
WeeklyValue(from, to) ==
    Value({o \in Stored : from <= order[o].created /\ order[o].created <= to})

(***************************************************************************)
(* The budget of a month, in the currency it was set in.                   *)
(***************************************************************************)
(* committed / limit in hundredths of a percent, rounded (round2). *)
Used(committed, limit) == (2 * 10000 * committed + limit) \div (2 * limit)

BudgetStatus(m) ==
    LET limit == budget[m].limit
        committed == SumSpend(m * Month, (m + 1) * Month, budget[m].currency) IN
    IF budget[m] = NoBudget THEN "no_budget"
    ELSE IF limit = 0 \/ committed >= limit THEN "overrun"
    ELSE IF Used(committed, limit) >= 100 * Warning THEN "warning" ELSE "ok"

Severity == [no_budget |-> 0, ok |-> 0, warning |-> 1, overrun |-> 2]

(***************************************************************************)
(* Payments to come.                                                       *)
(***************************************************************************)
(* cashFlowProjectionPipeline: the window is laid over the deliveries and  *)
(* begins now.                                                             *)
Projected ==
    {o \in Stored : /\ order[o].state \in {"sent", "partially_received"}
                    /\ Expected(o) \in now..(now + Horizon)}

PayAt(o) == Expected(o) + order[o].deal.terms

CashFlow ==
    {LET due == {o \in Projected : PayAt(o) \div Week = w} IN
       [week |-> w, bdt |-> Value(In("BDT", due)), usd |-> Value(In("USD", due))] :
     w \in {PayAt(o) \div Week : o \in Projected}}

(* cashFlowProjection of po.aggregations.ts, by the day of payment: its    *)
(* window is laid over the payments and begins at midnight.                *)
Today == now - (now % Day)

Payable ==
    {o \in Stored : /\ order[o].state \in {"approved", "sent", "partially_received"}
                    /\ Expected(o) <= Today + Horizon
                    /\ PayAt(o) \in Today..(Today + Horizon)}

(***************************************************************************)
(* The same item bought from several suppliers.                            *)
(***************************************************************************)
(* The unit prices of an item at a supplier: their mean is sum / lines. *)
Prices(item, s) ==
    LET lines == {l \in UNION {Lines(o) : o \in Bought(0, MaxTime + 1)} :
                    Line(l).item = item /\ order[l[1]].supplier = s} IN
    [sum |-> Sum([l \in lines |-> Line(l).price]),
     lines |-> Cardinality(lines)]

Sellers(item) == {s \in Suppliers : Prices(item, s).lines > 0}

(* The pairs of suppliers, the first of which is cheaper on average, in    *)
(* whatever currency.                                                      *)
Savings(item) ==
    {pair \in Sellers(item) \X Sellers(item) :
        LET a == Prices(item, pair[1])
            b == Prices(item, pair[2]) IN a.sum * b.lines < b.sum * a.lines}

(***************************************************************************)
(* supplierPerformanceScores.  A finished order was received in full, and  *)
(* nothing is rejected: fill and quality always have their fifty points.   *)
(* An order that is not closed yet has no date, which is before any other. *)
(***************************************************************************)
Finished(s) ==
    {o \in Stored : order[o].supplier = s /\ order[o].state \in {"fully_received", "closed"}}
FinishedLines(s) == UNION {Lines(o) : o \in Finished(s)}

Scored == {s \in Suppliers : Cardinality(Finished(s)) >= MinSample}

OnTime(o) == order[o].closed = Never \/ order[o].closed <= Expected(o)

(* The average prices, brought to one denominator: the product of the      *)
(* numbers of lines, which is how many ways there are to choose a line     *)
(* of each supplier.                                                       *)
Averages ==
    LET lines == [s \in Scored |-> FinishedLines(s)]
        scale == Cardinality({f \in [Scored -> UNION {lines[s] : s \in Scored}] :
                                \A s \in Scored : f[s] \in lines[s]}) IN
    [scale |-> scale,
     of |-> [s \in Scored |-> (Sum([l \in lines[s] |-> Line(l).price]) * scale)
                                \div Cardinality(lines[s])]]

(* The share of the ten points for the price, and all hundred of them, as  *)
(* quotients.                                                              *)
Performance(s, average) ==
    LET positive == {average.of[t] : t \in Scored} \ {0}
        spread == IF positive = {} THEN 0 ELSE Max(positive) - Min(positive)
        own == FinishedLines(s)
        lines == Cardinality(own)
        onTime == Cardinality({l \in own : OnTime(l[1])})
        den == IF spread < average.scale THEN average.scale ELSE spread
        price == IF average.of[s] = 0 THEN 0 ELSE den - (average.of[s] - Min(positive)) IN
    [onTime |-> onTime, lines |-> lines,
     overall |-> [num |-> 40 * onTime * den + 50 * lines * den + 10 * price * lines,
                  den |-> lines * den]]

(***************************************************************************)
(* Properties.                                                             *)
(***************************************************************************)
(* An order that is stored has its parts; months and days are in range.    *)
TypeOK ==
    /\ order \in [Orders -> {NoOrder} \cup
                   [state: States \ {"none"}, supplier: Suppliers, deal: Deals,
                    created: 0..now, closed: (0..now) \cup {Never}]]
    /\ budget \in [Months -> {NoBudget} \cup [limit: Limits, currency: Currencies]]
    /\ now \in 0..MaxTime

(* The reports agree: over a range the spend by supplier is what the       *)
(* budgets of the two currencies count, an order at the end of one month   *)
(* is counted in that month alone, the lines add up to the same less the   *)
(* taxes, and the weekly report never values less.                         *)
SpendAgrees ==
    LET all == Committed(0, MaxTime + 1) IN
    /\ \A from \in {0, now}, to \in {now, now + 1} :
         SpendOf(SpendRows(from, to)) = SumSpend(from, to, "BDT") + SumSpend(from, to, "USD")
    /\ Sum([m \in Months |-> SumSpend(m * Month, (m + 1) * Month, "BDT")
                                + SumSpend(m * Month, (m + 1) * Month, "USD")]) = Value(all)
    /\ Sum([s \in Suppliers |-> ProcurementSpend(0, MaxTime, s)]) = Sum([o \in all |-> Subtotal(o)])
    /\ \A from \in {0, now} : WeeklyValue(from, now) >= SpendOf(SpendRows(from, now))

(* As long as nobody sets the budget anew or cancels an order, the status  *)
(* of a month's budget never gets better: no state of an order that was    *)
(* once approved takes its money out of the month.                         *)
BudgetStep ==
    \A m \in Months :
      /\ budget'[m] = budget[m]
      /\ \A o \in Stored : order'[o].state = order[o].state \/ order'[o].state # "cancelled"
      => Severity[BudgetStatus(m)'] >= Severity[BudgetStatus(m)]
BudgetOnlyWorsens == [][BudgetStep]_vars

(* A supplier's score lies between 50 and 100, is 100 exactly if none of   *)
(* its orders was closed after its date, it has a price, and no other one  *)
(* with a price is cheaper on average; among suppliers that are equally on *)
(* time the cheaper one scores more, except one that asked for nothing:    *)
(* the code gives it none of the points for the price.                     *)
ScoresFair ==
    LET average == Averages
        mean == average.of
        row == [s \in Scored |-> Performance(s, average)]
        late(o) == order[o].closed \in (Expected(o) + 1)..MaxTime IN
    \A s \in Scored :
      LET score == row[s].overall IN
      /\ 50 * score.den <= score.num /\ score.num <= 100 * score.den
      /\ (score.num = 100 * score.den)
           = /\ \A o \in Finished(s) : ~late(o)
             /\ mean[s] > 0
             /\ \A t \in Scored : mean[t] > 0 => mean[s] <= mean[t]
      /\ mean[s] = 0 => score.num <= 90 * score.den
      /\ \A t \in Scored :
           /\ row[s].onTime * row[t].lines = row[t].onTime * row[s].lines
           /\ 0 < mean[s] /\ mean[s] < mean[t]
           => score.num * row[t].overall.den > row[t].overall.num * score.den

(* The projection of payments counts every order that is out and whose     *)
(* delivery is still to come within the horizon, in one week and one       *)
(* currency, and all of it is committed spend.  The two projections agree  *)
(* on what falls due before the horizon of today's midnight, but for what  *)
(* only the one by days counts: orders not sent yet, and those whose       *)
(* delivery is late.                                                       *)
CashFlowOnce ==
    LET out == {o \in Committed(0, MaxTime + 1) :
                  order[o].state \in {"sent", "partially_received"}}
        due == {o \in out : now <= Expected(o) /\ Expected(o) - now <= Horizon} IN
    /\ Sum([r \in CashFlow |-> r.bdt + r.usd]) = Value(due)
    /\ {o \in Projected : PayAt(o) <= Today + Horizon}
         = {o \in Payable : order[o].state # "approved" /\ now <= Expected(o)}

(* A saving is only reported where two suppliers with committed orders of  *)
(* the item were given different unit prices, however large the orders, or *)
(* where the item was bought in two currencies: their prices are compared  *)
(* as if they were in one.                                                 *)
SavingsReal ==
    \A item \in Items :
      Savings(item) # {} =>
        \E l, k \in UNION {Lines(o) : o \in Committed(0, MaxTime + 1)} :
          /\ Line(l).item = item /\ Line(k).item = item
          /\ \/ order[l[1]].deal.currency # order[k[1]].deal.currency
             \/ order[l[1]].supplier # order[k[1]].supplier /\ Line(l).price < Line(k).price
=============================================================================
