------------------------------- MODULE Records -------------------------------
(***************************************************************************)
(* Six parts in which people are told of what happens, or share what they  *)
(* write: the monitor of low stock, whose module this one extends, the     *)
(* suppliers, the notices of an order, its delivery, and what is reported  *)
(* of the spending and of the stock.  They share no state and are checked  *)
(* in one run: a behaviour is one of one part, and the variables of the    *)
(* others are off.                                                         *)
(***************************************************************************)
EXTENDS LowStockMonitor

CONSTANTS
    Firms, Calls, TaxIds, Fields, Entries, MaxContacts, MaxDocuments, \* see Suppliers
    Approvers, Others, Rounds, Limit, MaxFaults,                      \* see Notices
    Managers, Ordered, DueDays, Grace, MaxDay, Stalls,                \* see Deliveries
    Goods, Deals, Month, Week, Horizon, Limits, Warning, MinSample,   \* see Spending
    MaxClock,                                                         \* see Spending
    Items, Warehouses, Places, Damaged, Torn, Cost, Category,         \* see StockReports
    Opening, Day, Window, MaxTime, MaxMovements, MaxRows              \* see StockReports

VARIABLES
    part,       \* the part a behaviour is about
    firm, call, listFocus, wanted, astray, listCut,
    approval, active, telling, posting, inbox, mails, made, pass, due, lost, faults, focus,
    deciding, taken,
    sending, request, check, letters, editing, today, untold, alive,
    order, budget, clock,
    ledger, opening, balance, stored, stockNow, usage

Sup == INSTANCE Suppliers WITH focus <- listFocus, cut <- listCut
Ntc == INSTANCE Notices WITH order <- approval, feed <- inbox
Del == INSTANCE Deliveries WITH
         Expected <- DueDays, order <- sending, call <- request, mails <- letters, day <- today,
         lost <- untold
Spe == INSTANCE Spending WITH
         Orders <- Calls, Suppliers <- Firms, Items <- Goods, now <- clock, MaxTime <- MaxClock
Sto == INSTANCE StockReports WITH opened <- opening, now <- stockNow, used <- usage

ASSUME RecordsAssumption ==
    /\ Sup!LimitsAssumption /\ Ntc!PagesAssumption /\ Del!DaysAssumption
    /\ Spe!CalendarAssumption /\ Sto!CalendarAssumption

LowOff == /\ row = "off" /\ opened = "off" /\ feed = "off" /\ txn = "off" /\ plain = "off"
          /\ missed = "off" /\ run = "off" /\ failures = "off" /\ job = "off"
          /\ delivered = "off" /\ sent = "off" /\ unrecorded = "off"
SupOff == /\ firm = "off" /\ call = "off" /\ listFocus = "off" /\ wanted = "off"
          /\ astray = "off" /\ listCut = "off"
NtcOff == /\ approval = "off" /\ active = "off" /\ telling = "off" /\ posting = "off"
          /\ inbox = "off" /\ mails = "off" /\ made = "off" /\ pass = "off" /\ due = "off"
          /\ lost = "off" /\ faults = "off" /\ focus = "off" /\ deciding = "off" /\ taken = "off"
DelOff == /\ sending = "off" /\ request = "off" /\ check = "off" /\ letters = "off"
          /\ editing = "off" /\ today = "off" /\ untold = "off" /\ alive = "off"
SpeOff == order = "off" /\ budget = "off" /\ clock = "off"
StoOff == /\ ledger = "off" /\ opening = "off" /\ balance = "off" /\ stored = "off"
          /\ stockNow = "off" /\ usage = "off"

sup == <<firm, call, listFocus, wanted, astray, listCut>>
ntc == <<approval, active, telling, posting, inbox, mails, made, pass, due, lost, faults, focus,
         deciding, taken>>
del == <<sending, request, check, letters, editing, today, untold, alive>>
spe == <<order, budget, clock>>
sto == <<ledger, opening, balance, stored, stockNow, usage>>
records == <<part, vars, sup, ntc, del, spe, sto>>

RecordsInit ==
    \/ /\ part = "monitor" /\ Init
       /\ SupOff /\ NtcOff /\ DelOff /\ SpeOff /\ StoOff
    \/ /\ part = "suppliers" /\ Sup!Init
       /\ LowOff /\ NtcOff /\ DelOff /\ SpeOff /\ StoOff
    \/ /\ part = "notices" /\ Ntc!Init
       /\ LowOff /\ SupOff /\ DelOff /\ SpeOff /\ StoOff
    \/ /\ part = "deliveries" /\ Del!Init
       /\ LowOff /\ SupOff /\ NtcOff /\ SpeOff /\ StoOff
    \/ /\ part = "spending" /\ Spe!Init
       /\ LowOff /\ SupOff /\ NtcOff /\ DelOff /\ StoOff
    \/ /\ part = "stock" /\ Sto!Init
       /\ LowOff /\ SupOff /\ NtcOff /\ DelOff /\ SpeOff

RecordsNext ==
    \/ part = "monitor" /\ Next /\ UNCHANGED <<part, sup, ntc, del, spe, sto>>
    \/ part = "suppliers" /\ Sup!Next /\ UNCHANGED <<part, vars, ntc, del, spe, sto>>
    \/ part = "notices" /\ Ntc!Next /\ UNCHANGED <<part, vars, sup, del, spe, sto>>
    \/ part = "deliveries" /\ Del!Next /\ UNCHANGED <<part, vars, sup, ntc, spe, sto>>
    \/ part = "spending" /\ Spe!Next /\ UNCHANGED <<part, vars, sup, ntc, del, sto>>
    \/ part = "stock" /\ Sto!Next /\ UNCHANGED <<part, vars, sup, ntc, del, spe>>

RecordsSpec == RecordsInit /\ [][RecordsNext]_records

(***************************************************************************)
(* The properties of the parts, each stated in full in its module, with    *)
(* the types of its state.                                                 *)
(***************************************************************************)
(* Suppliers: one tax identifier has one supplier; a list of contacts or   *)
(* documents holds what was asked for, its limit is passed by calls in     *)
(* progress only, and a hole in it is filled by the removal that made it   *)
(* (supplier.service.ts).                                                  *)
SupplierListsKept ==
    part = "suppliers" =>
      /\ Sup!TypeOK
      /\ Sup!TaxIdHeldOnce
      /\ Sup!ListsKept
      /\ Sup!LimitNearlyHeld
      /\ Sup!HolesEnd

(* Notices, deliveries and the monitor: whoever an event concerns is told  *)
(* of it, once, although clients, workers and runs of the monitor overlap, *)
(* and a pass through the pages shows what was there (po.notifications.ts, *)
(* scheduled.worker.ts, lowStock.automation.ts, pagination.ts).            *)
EverybodyTold ==
    /\ part = "notices" => Ntc!TypeOK /\ Ntc!ToldOfTheirOrders /\ Ntc!PassComplete
    /\ part = "deliveries" =>
         Del!TypeOK /\ Del!SupplierToldOnce /\ Del!CreatorToldOnce /\ Del!OverdueAlerted
    /\ part = "monitor" => TypeOK /\ AlertsKept

(* Spending: the reports agree on the spend; each projection counts the    *)
(* payments of its own horizon once, and the two differ only by what the   *)
(* daily one leaves out, by what is paid between the two ends of their     *)
(* days, and by orders that are approved or late; a saving is reported     *)
(* only where prices or currencies differ; suppliers are scored by their   *)
(* dates and prices (rpt.aggregations.ts, po.aggregations.ts,              *)
(* supplier.aggregations.ts).                                              *)
SpendingReported ==
    part = "spending" =>
      /\ Spe!TypeOK
      /\ Spe!SpendAgrees
      /\ Spe!CashFlowOnce
      /\ Spe!SavingsReal
      /\ Spe!ScoresFair

(* Spending: the status of a budget never gets better by itself            *)
(* (rpt.service.ts, budgets).                                              *)
BudgetOnlyWorsens == [][part = "spending" => Spe!BudgetStep]_records

(* Stock reports: the demand is what production took, the quantity advised *)
(* is the cheapest, turnover and dead stock count the same issues, the ABC *)
(* classes follow the value, the weekly report closes on the stock, and    *)
(* the reconciliation finds, of the balances an import left cut off, those *)
(* that a later movement has given a row (rpt.service.ts,                  *)
(* rpt.aggregations.ts, inventory.aggregations.ts).                        *)
StockReported ==
    part = "stock" =>
      /\ Sto!TypeOK
      /\ Sto!DemandIsUse
      /\ Sto!OrdersCheapest
      /\ Sto!IssuesAgree
      /\ Sto!ClassesFollowValue
      /\ Sto!StockEquation
      /\ Sto!DriftFound
=============================================================================
