---------------------------- MODULE StockReports ----------------------------
(***************************************************************************)
(* What the reports say of the stock of one tenant while it is received,   *)
(* adjusted and transferred: the demand a forecast is made from            *)
(* (dataPreparation.ts), the turnover, dead stock and ABC classes of the   *)
(* reporting module, the turnover and reconciliation of the inventory      *)
(* module and the stock figures of the weekly report.  The operations on   *)
(* stock are those of module Inventory, here one after the other.          *)
(***************************************************************************)
EXTENDS Sums

CONSTANTS
    Items,          \* numbers, so that sorting has a tie-break
    Warehouses,
    Places,         \* the item and warehouse of every balance
    Damaged,        \* bound of the model: places adjusted but for production
    Torn,           \* balances whose import row may have been cut off
    Cost,           \* moving average cost of an item
    Category,       \* category of an item
    Opening,        \* opening stock of every balance
    Day,            \* instants in a day
    Month,          \* days in a month
    Window,         \* days a forecast looks back
    MaxRows,        \* rows of dead stock that are reported
    MaxTime,        \* bound of the model: the clock
    MaxMovements    \* bound of the model: movements after the opening, and
                    \* rows cut off

CalendarAssumption ==
    /\ Items \subseteq Nat /\ IsFiniteSet(Items) /\ IsFiniteSet(Places)
    /\ Places \subseteq Items \X Warehouses
    /\ Torn \subseteq Places /\ Damaged \subseteq Places
    /\ {Day, Month, Window, MaxRows} \subseteq Nat \ {0}
    /\ {Opening, MaxTime, MaxMovements} \subseteq Nat
    /\ \A i \in Items : Cost[i] \in Nat

VARIABLES
    ledger,     \* the stock movements after the opening
    opened,     \* the balances whose opening row was imported to the end
    stored,     \* the places that have a balance row
    balance,    \* the quantity of each balance row, 0 where there is none
    now,        \* Date.now()
    used        \* history: what production took of an item on a day

vars == <<ledger, opened, stored, balance, now, used>>

(* What an adjustment may be: its sign and its reason are independent. *)
Adjustments(p) ==
    {<<-1, "production_consume">>}
    \cup IF p \in Damaged THEN {<<-1, "damage">>, <<1, "production_consume">>} ELSE {}

Days == 0..(MaxTime \div Day)

(* Every place has an opening movement; an import row may have been cut    *)
(* off between its movement and the increment, which makes the row of the  *)
(* new item.                                                               *)
Init ==
    /\ opened \in {Places \ cut : cut \in SUBSET Torn}
    /\ stored = opened
    /\ balance = [p \in Places |-> IF p \in opened THEN Opening ELSE 0]
    /\ ledger = {}
    /\ now = 0
    /\ used = [i \in Items |-> [d \in Days |-> 0]]

(* What the operations below write; a movement of stock that is opened, and *)
(* one that goes out by hand, are not written by any.                      *)
Types == {"in", "transfer_in", "transfer_out", "adjustment"}
Reasons == {"po_receipt", "transfer", "production_consume", "damage"}

(* A movement; copy tells apart those that agree in everything else.       *)
Movement(type, p, quantity, reason) ==
    LET same == {m \in ledger : /\ <<m.type, m.item, m.warehouse>> = <<type, p[1], p[2]>>
                                /\ <<m.quantity, m.reason, m.at>> = <<quantity, reason, now>>} IN
    [type |-> type, item |-> p[1], warehouse |-> p[2], quantity |-> quantity,
     reason |-> reason, at |-> now, copy |-> Cardinality(same)]

Room(n) == Cardinality(ledger) + Cardinality(Places \ opened) + n <= MaxMovements

(* incrementBalance: an upsert. *)
Upsert(places) == stored' = stored \cup places

Receive(p) ==
    /\ Room(1)
    /\ Upsert({p})
    /\ ledger' = ledger \cup {Movement("in", p, 1, "po_receipt")}
    /\ balance' = [balance EXCEPT ![p] = @ + 1]
    /\ UNCHANGED <<opened, now, used>>

AdjustStock(p, delta, reason) ==
    /\ Room(1) /\ balance[p] + delta >= 0
    /\ Upsert({p})
    /\ ledger' = ledger \cup {Movement("adjustment", p, delta, reason)}
    /\ balance' = [balance EXCEPT ![p] = @ + delta]
    /\ used' = IF delta < 0 /\ reason = "production_consume"
               THEN [used EXCEPT ![p[1]][now \div Day] = @ - delta] ELSE used
    /\ UNCHANGED <<opened, now>>

TransferStock(i, from, to) ==
    /\ from # to /\ {<<i, from>>, <<i, to>>} \subseteq Places /\ Room(2) /\ balance[<<i, from>>] > 0
    /\ Upsert({<<i, to>>})
    /\ ledger' = ledger \cup {Movement("transfer_out", <<i, from>>, -1, "transfer"),
                               Movement("transfer_in", <<i, to>>, 1, "transfer")}
    /\ balance' = [balance EXCEPT ![<<i, from>>] = @ - 1, ![<<i, to>>] = @ + 1]
    /\ UNCHANGED <<opened, now, used>>

Tick ==
    /\ now < MaxTime
    /\ now' = now + 1
    /\ UNCHANGED <<ledger, opened, stored, balance, used>>

Next ==
    \/ \E p \in Places : Receive(p)
    \/ \E p \in Places : \E a \in Adjustments(p) : AdjustStock(p, a[1], a[2])
    \/ \E i \in Items, from, to \in Warehouses : TransferStock(i, from, to)
    \/ Tick

Spec == Init /\ [][Next]_vars

(***************************************************************************)
(* Movements that a report selects, and what they add up to.               *)
(***************************************************************************)
(* Math.round of a quotient that is not negative. *)
Rounded(x, y) == (2 * x + y) \div (2 * y)
Abs(x) == IF x < 0 THEN -x ELSE x
Since(from, to) == {n \in ledger : from <= n.at /\ n.at < to}
OfType(types, set) == {n \in set : n.type \in types}
Of(i, set) == {n \in set : n.item = i}
In(w, set) == {n \in set : n.warehouse = w}
Moved(set) == Sum([n \in set |-> Abs(n.quantity)])
Net(set) == Moved({n \in set : n.quantity > 0}) - Moved({n \in set : n.quantity < 0})
Lost(set) == {n \in OfType({"adjustment"}, set) : n.quantity < 0}

Issues == {"out", "transfer_out"}

(***************************************************************************)
(* Demand.                                                                 *)
(***************************************************************************)
(* Production's adjustments and outflows; damage and corrections are not.  *)
Demand(n) ==
    IF \/ n.type = "out"
       \/ /\ n.type = "adjustment" /\ n.quantity < 0
          /\ n.reason = "production_consume"
    THEN Abs(n.quantity) ELSE 0

(* fetchMovementHistoryInRange *)
History(i, from, to) == OfType({"out", "adjustment"}, Of(i, Since(from, to)))

SumConsumed(set) == Sum([n \in set |-> Demand(n)])

WindowDays == (now \div Day - Window + 1)..(now \div Day)

(* What is fetched begins Window days before this instant, in the middle   *)
(* of a day; the days of the series are whole, and what lies before them   *)
(* is skipped.                                                             *)
DailySeries(i) ==
    [d \in WindowDays |->
       SumConsumed({n \in History(i, now - Window * Day, now) : n.at \div Day = d})]

MonthlySeries(daily) ==
    [m \in {d \div Month : d \in DOMAIN daily} |->
       Sum([d \in {d \in DOMAIN daily : d \div Month = m} |-> daily[d]])]

(***************************************************************************)
(* Turnover and dead stock.                                                *)
(***************************************************************************)
(* inventoryTurnoverByCategory: what was issued, and the items it was.     *)
CategoryTurnover(from, to) ==
    LET issued == OfType(Issues, Since(from, to))
        categories == {Category[n.item] : n \in issued} IN
    {LET mine == {n \in issued : Category[n.item] = c} IN
       [category |-> c, issued |-> Moved(mine), movements |-> Cardinality(mine),
        skus |-> Cardinality({n.item : n \in mine})] : c \in categories}

(* inventoryTurnover of the inventory module: by balance, the range is     *)
(* closed; turnover is 0 of an empty balance; cover is in days, a quotient *)
(* as well.                                                                *)
PlaceTurnover(from, to) ==
    LET issued == OfType(Issues, Since(from, to + 1))
        days == IF Rounded(to - from, Day) < 1 THEN 1 ELSE Rounded(to - from, Day)
        row(p, consumed) ==
          [place |-> p, consumed |-> consumed, days |-> days,
           turnover |-> IF balance[p] > 0 THEN [num |-> consumed, den |-> balance[p]]
                        ELSE [num |-> 0, den |-> 1],
           cover |-> [num |-> balance[p] * days, den |-> consumed],
           slow |-> consumed = 0] IN
    {row(p, Moved(Of(p[1], In(p[2], issued)))) :
        p \in {<<n.item, n.warehouse>> : n \in issued}}

(* Balances with stock of which nothing was issued, the most valuable      *)
(* ones if there are many: the reports there may be, as ties are broken    *)
(* anyhow.                                                                 *)
DeadStock(from, to) ==
    LET dead == {p \in stored : /\ balance[p] > 0
                                /\ Moved(OfType(Issues, Of(p[1], In(p[2], Since(from, to))))) = 0}
        value == [p \in dead |-> balance[p] * Cost[p[1]]] IN
    {rows \in SUBSET dead :
       /\ Cardinality(rows) <= MaxRows
       /\ rows # dead => Cardinality(rows) = MaxRows
       /\ \A p \in rows, q \in dead \ rows : value[q] <= value[p]}

(***************************************************************************)
(* ABC classes.                                                            *)
(***************************************************************************)
Consumption(i, from, to) ==
    LET mine == Of(i, Since(from, to)) IN Moved(OfType(Issues, mine)) + Moved(Lost(mine))

(* The rows of the analysis: the items consumed, with their value. *)
Worth(from, to) ==
    [i \in {j \in Items : Consumption(j, from, to) > 0} |-> Consumption(i, from, to) * Cost[i]]

(* Rows sorted by falling value; a stable sort keeps ties in order. *)
Before(i, j, worth) == worth[i] > worth[j] \/ (worth[i] = worth[j] /\ i < j)

(* The class of a row is decided by the share of all rows up to and        *)
(* including itself; nothing of any value has no share at all.             *)
Class(i, worth) ==
    LET total == Sum(worth)
        sofar == Sum([j \in {j \in DOMAIN worth : j = i \/ Before(j, i, worth)} |-> worth[j]]) IN
    IF sofar * 100 <= 80 * total THEN "A" ELSE IF sofar * 100 <= 95 * total THEN "B" ELSE "C"

(***************************************************************************)
(* The economic order quantity.  The holding rate is in tenths of the      *)
(* cost; the clock of the model stays within the year it looks back.       *)
(***************************************************************************)
(* eoq: ratio is the square of the quantity before it is rounded. *)
EconomicOrder(i, ordering, tenths, lead) ==
    LET demand == SumConsumed(History(i, 0, now))
        ratio == [num |-> 20 * demand * ordering, den |-> Cost[i] * tenths]
        reaches(q) == (2 * q + 1) * (2 * q + 1) * ratio.den > 4 * ratio.num IN
    [demand |-> demand, ratio |-> ratio,
     quantity |-> IF ratio.num = 0 \/ ratio.den = 0 THEN 0
                  ELSE CHOOSE q \in 0..ratio.num :
                         reaches(q) /\ \A r \in 0..(q - 1) : ~reaches(r),
     reorderPoint |-> Rounded(demand * lead, 365),
     stock |-> Sum([p \in {p \in Places : p[1] = i} |-> balance[p]])]

(***************************************************************************)
(* The weekly report and the reconciliation.                               *)
(***************************************************************************)
(* Mutant: goods that arrive by transfer are not received. *)
WeeklyStockOfReceipts(from, to) ==
    LET week == Since(from, to + 1) IN
    [consumed |-> Moved(OfType(Issues, week)) + Moved(Lost(week)),
     received |-> Net(OfType({"in"}, week))]

(* aggregateWeeklyMetrics: both ends of the week belong to it. *)
WeeklyStock(from, to) ==
    LET week == Since(from, to + 1) IN
    [consumed |-> Moved(OfType(Issues, week)) + Moved(Lost(week)),
     received |-> Net(OfType({"in", "transfer_in"}, week))]

(* reconcileStockBalances: the balance rows that differ from their ledger. *)
Drift ==
    {r \in {[place |-> p, drift |-> balance[p] - Opening
               - Net(Of(p[1], In(p[2], ledger)))] : p \in stored} : r.drift # 0}

(***************************************************************************)
(* Properties.                                                             *)
(***************************************************************************)
TypeOK ==
    /\ ledger \subseteq [type: Types, item: Items, warehouse: Warehouses, quantity: {-1, 1},
                        reason: Reasons, at: 0..now, copy: Nat]
    /\ \A n \in ledger : <<n.item, n.warehouse>> \in Places
    /\ Cardinality(ledger) <= MaxMovements
    /\ opened \subseteq Places /\ stored \subseteq Places
    /\ balance \in [Places -> Nat]
    /\ now \in 0..MaxTime
    /\ used \in [Items -> [Days -> Nat]]

(* The series a forecast is made from holds what production took on each   *)
(* of its days, today so far included, and neither the damage, the         *)
(* corrections and the transfers nor the part of a day before the window;  *)
(* its months add up to its days.  The annual demand of the order quantity *)
(* is what was taken in its range.                                         *)
DemandIsUse ==
    \A i \in Items :
      LET today == SumConsumed({n \in Of(i, ledger) : n.at = now})
          daily == DailySeries(i)
          monthly == MonthlySeries(daily) IN
      /\ \A d \in WindowDays \cap Days :
           daily[d] = used[i][d] - IF d = now \div Day THEN today ELSE 0
      /\ Sum(monthly) = Sum(daily)
      /\ EconomicOrder(i, 1, 1, 1).demand + today = Sum(used[i])

(* Two turnovers and the dead stock count the same issues: the categories  *)
(* add up to the balances, and a balance with stock is dead exactly if the *)
(* turnover by balance has no row for it, so none of its rows is a slow    *)
(* mover; a full report of dead stock leaves out what is worth no more.    *)
(* Turned over as often as it covers, stock lasts the period.              *)
IssuesAgree ==
    \A from \in {0, now} : \A to \in {from, now} :
      LET places == PlaceTurnover(from, to)
          categories == CategoryTurnover(from, to + 1)
          quiet == {p \in Places : balance[p] > 0} \ {r.place : r \in places} IN
      /\ Sum([r \in categories |-> r.issued]) = Sum([r \in places |-> r.consumed])
      /\ \A dead \in DeadStock(from, to + 1) :
           /\ dead \subseteq quiet
           /\ dead # quiet => /\ Cardinality(dead) = MaxRows
                              /\ \A p \in dead, q \in quiet \ dead :
                                   balance[q] * Cost[q[1]] <= balance[p] * Cost[p[1]]
      /\ \A r \in places :
           /\ ~r.slow
           /\ balance[r.place] > 0 =>
                r.turnover.num * r.cover.num = r.days * r.turnover.den * r.cover.den

(* What it costs in a year to order and to keep the quantity advised is no *)
(* more than with any other quantity, but perhaps its neighbour, which the *)
(* rounding decides; and stock at the reorder point of a lead time that is *)
(* part of the year is no more than the year's demand.                     *)
OrdersCheapest ==
    \A i \in Items, ordering \in {1, 5}, tenths \in {1, 10}, lead \in {14, 365} :
      LET o == EconomicOrder(i, ordering, tenths, lead)
          cost(q) == o.ratio.num + o.ratio.den * q * q IN     \* times q
      /\ o.quantity > 0 =>
           \A q \in 1..(2 * o.quantity + 2) :
             Abs(q - o.quantity) >= 2 => cost(o.quantity) * q <= cost(q) * o.quantity
      /\ o.reorderPoint <= o.demand

(* No item of a better class is worth less than one of a worse class, the  *)
(* items of class A are worth at most 80 % of everything consumed and      *)
(* those of A and B 95 %, and every item that was consumed has a class.    *)
ClassesFollowValue ==
    LET worth == Worth(0, now + 1)
        rows == DOMAIN worth
        class == [i \in rows |-> Class(i, worth)]
        rank == [A |-> 1, B |-> 2, C |-> 3]
        sum(classes) == Sum([i \in {i \in rows : class[i] \in classes} |-> worth[i]]) IN
    /\ \A i, j \in rows : rank[class[i]] < rank[class[j]] => worth[i] >= worth[j]
    /\ sum({"A"}) * 100 <= 80 * sum({"A", "B", "C"})
    /\ sum({"A", "B"}) * 100 <= 95 * sum({"A", "B", "C"})

(* The weekly report closes on the stock: the opening, what was received   *)
(* and what was found, less what was consumed, is what the balances hold,  *)
(* except for the opening of an import row that was cut off.  It consumes  *)
(* what the ABC analysis consumes.                                         *)
StockEquation ==
    LET week == WeeklyStock(0, now)
        found == Net({n \in OfType({"adjustment"}, ledger) : n.quantity > 0}) IN
    /\ Sum(balance)
         = Opening * Cardinality(opened) + week.received + found - week.consumed
    /\ Sum([i \in Items |-> Consumption(i, 0, now + 1)]) = week.consumed

(* The reconciliation reports, of the balances whose import row was cut    *)
(* off, those that were moved since, each with the quantity it lacks, and  *)
(* no others: before its first movement such a balance has no row, which   *)
(* is where the reconciliation looks.                                      *)
DriftFound ==
    Drift = {[place |-> p, drift |-> -Opening] :
               p \in {q \in Places \ opened : Opening > 0 /\ Of(q[1], In(q[2], ledger)) # {}}}
=============================================================================
