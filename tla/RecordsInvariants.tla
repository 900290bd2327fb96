------------------------- MODULE RecordsInvariants -------------------------
(***************************************************************************)
(* The inductive invariants of the parts of Records, and what they are     *)
(* stated with. Each says of a state of its part what every step relies on *)
(* and keeps; the properties of the part follow from it (Records_proofs).  *)
(***************************************************************************)
EXTENDS Records, Integers, Sequences, FiniteSets

-----------------------------------------------------------------------------
(* The monitor of low stock.                                               *)

(* A run has made the alerts of its episode for the users it has passed,   *)
(* and goes on to the forecast only when the row is marked or is another   *)
(* episode's.                                                              *)
RunOK(s) ==
    s # Idle =>
      /\ s.seen.episode \in 1..opened
      /\ s.stage \in {"feed", "mail"} => s.user <= Users
      /\ s.stage = "mark" => s.user > Users
      /\ s.stage # "forecast" =>
           /\ \A u \in InApp : u < s.user => feed[<<s.seen.episode, u>>] # "none"
           /\ \A u \in ByMail : u < s.user => job[<<s.seen.episode, u>>].stage # "none"
      /\ s.stage = "mail" /\ s.user \in InApp => feed[<<s.seen.episode, s.user>>] # "none"
      /\ s.stage = "forecast" /\ row.episode = s.seen.episode => row.notified

RunsOK == \A r \in Runs : RunOK(run[r])

(* A job that can still be tried has an attempt left; every attempt sends  *)
(* one mail, and none does once the delivery is on record.                 *)
JobOK(m) ==
    /\ job[m].stage \notin {"failed"} => job[m].attempts < Attempts
    /\ sent[m] <= job[m].attempts
                    + (IF job[m].stage \in {"sent", "recorded", "done"} THEN 1 ELSE 0)
    /\ unrecorded[m] <= job[m].attempts
    /\ m \notin delivered => sent[m] <= unrecorded[m] + (IF job[m].stage = "sent" THEN 1 ELSE 0)
    /\ m \in delivered => /\ job[m].stage \notin {"sending", "sent"}
                          /\ sent[m] <= unrecorded[m] + 1

JobsOK == \A m \in Episodes \X ByMail : JobOK(m)

(* Nobody has written the row since a transaction read it.                 *)
TxnOK == txn = NoTxn \/ txn.seen = row.episode

InductiveInv ==
    /\ TypeOK
    /\ TxnOK
    /\ row.episode <= opened
    /\ RunsOK
    /\ JobsOK
    /\ EpisodeServed
    /\ ResolvedUnlessMissed

-----------------------------------------------------------------------------
(* Suppliers.                                                              *)

(* What the steps of a call have found out and still hold.                 *)
Creating == [stage : {"creating", "retaxing"}, firm : Firms, list : {"none"}, taxId : TaxIds \cup {Sup!NoTax}]

Archiving == [stage : {"archiving", "emptying"}, firm : Firms, list : {"none"}]
Adding == [stage : {"adding", "replacing"}, firm : Firms, list : Sup!Lists, entry : Entries]

Editing == [stage : {"editing"}, firm : Firms, list : {"contacts"}, at : 1..MaxContacts,
            seen : Sup!Entry, field : Fields]

Removing == [stage : {"removing", "holed"}, firm : Firms, list : Sup!Lists, at : Nat \ {0}, seen : Sup!Entry]
CallStates == {Sup!Idle} \cup Creating \cup Archiving \cup Adding \cup Editing \cup Removing
Slots == Seq(Sup!Entry \cup {Sup!Hole})

ListsTyped ==
    /\ firm \in [Firms -> Sup!Firm]
    /\ call \in [Calls -> CallStates]
    /\ wanted \in [Firms -> [Sup!Lists -> SUBSET Sup!Entry]]
    /\ astray \in [Firms -> [Sup!Lists -> BOOLEAN]]
    /\ listCut \in [Firms -> [Sup!Lists -> BOOLEAN]]

(* A call is about a supplier that exists, or creates one.                 *)
FirmsOK ==
    /\ \A s \in Firms : firm[s].status = "none" => firm[s] = Sup!NoFirm
    /\ \A c \in Calls : call[c].stage \notin {"idle", "creating"} => firm[call[c].firm].status # "none"

(* A list holds what is wanted of it, and no two entries of one origin.    *)
Good(list, want) ==
    /\ \A i \in DOMAIN list : list[i] # Sup!Hole => list[i] \in want
    /\ \A x \in want : \E i \in DOMAIN list : list[i] = x
    /\ \A i, j \in DOMAIN list :
         list[i] # Sup!Hole /\ list[j] # Sup!Hole /\ list[i].of = list[j].of => i = j

GoodOK == \A s \in Firms, l \in Sup!Lists : ~astray[s][l] => Good(firm[s][l], wanted[s][l])
Without(list, e) == \A i \in DOMAIN list : list[i].of # e

(* What is being added is in no list yet.                                  *)
AddingOK ==
    \A c \in Calls : call[c].stage \in {"adding", "replacing"} =>
        /\ \A d \in Calls : call[d].stage \in {"adding", "replacing"} /\ call[d].entry = call[c].entry => c = d
        /\ \A s \in Firms, l \in Sup!Lists : ~astray[s][l] => Without(firm[s][l], call[c].entry)

HoleFree(list) == \A i \in DOMAIN list : list[i] # Sup!Hole

ListsInv ==
    /\ ListsTyped /\ FirmsOK /\ Sup!TaxIdHeldOnce /\ GoodOK /\ AddingOK
    /\ Sup!LimitNearlyHeld /\ Sup!HolesEnd

(* A finite set of numbers in ascending order, each once: the i-th has i-1  *)
(* others below it.                                                        *)
Ranked(ids) ==
    [i \in 1..Cardinality(ids) |-> CHOOSE n \in ids : Cardinality({m \in ids : m < n}) = i - 1]

(***************************************************************************)
(* The calls.                                                              *)
(***************************************************************************)
Busy(calls, stage, s, l) ==
    {c \in Calls : calls[c].stage = stage /\ calls[c].firm = s /\ calls[c].list = l}

-----------------------------------------------------------------------------
(* The notices of an order.                                                *)

OrderStates == {"draft", "pending_approval", "approved", "rejected"}
Tellings == [event : Ntc!Events, by : Ntc!People, stage : {"begun", "telling"}, left : SUBSET Ntc!People]
Made == [id : Nat \ {0}, user : Ntc!People, event : Ntc!Events]
Kept == [id : Nat \ {0}, user : Ntc!People, event : Ntc!Events, read : BOOLEAN]

Passes == [stage : {"reading", "done"}, user : Ntc!People, unreadOnly : BOOLEAN, after : Nat,
           shown : Seq(Nat), begun : SUBSET Nat]

NoticesTyped ==
    /\ approval \in [state : OrderStates, by : Seq(Ntc!People)]
    /\ deciding \in [Approvers -> Nat] /\ taken \in [1..Rounds -> Nat]
    /\ active \subseteq Ntc!People
    /\ telling \subseteq Tellings
    /\ posting \subseteq Made /\ IsFiniteSet(posting)
    /\ inbox \subseteq Kept /\ IsFiniteSet(inbox)
    /\ mails \subseteq Ntc!People \X Ntc!Events /\ due \subseteq Ntc!People \X Ntc!Events
    /\ made \in Nat
    /\ pass \in {Ntc!NoPass} \cup Passes

Submitted == approval.state = "pending_approval" => Ntc!Round \in 1..Rounds

(* A decision is taken on the last submission or an earlier one, and ends   *)
(* the waiting for one: a submission gets one decision, and every one      *)
(* before the last has it.                                                 *)
DecisionsOK ==
    /\ \A p \in Approvers : deciding[p] <= Ntc!Round
    /\ \A r \in 1..Rounds : /\ taken[r] <= r
                            /\ r > Ntc!Round => taken[r] = 0
                            /\ r < Ntc!Round => taken[r] # 0
    /\ Ntc!Round \in 1..Rounds => (approval.state = "pending_approval" <=> taken[Ntc!Round] = 0)

(* An event of the order as it is, and whom the decider of one had seen.   *)
Past(event) == event[2] <= Ntc!Round /\ (event[1] # "submitted" => taken[event[2]] # 0)

By(event) == approval.by[IF event[1] = "submitted" THEN event[2] ELSE taken[event[2]]]

(* One call tells of an event; the people it tells are read once.          *)
TellingOK ==
    /\ \A t \in telling : Past(t.event) /\ t.by = By(t.event)
    /\ \A d \in due : Past(d[2]) /\ (d[2][1] # "submitted" => d[1] = By(d[2]))
    /\ \A t \in telling : t.stage = "begun" => t.left = {} /\ \A d \in due : d[2] # t.event
    /\ \A t, u \in telling : t.event = u.event => t = u

About(n, p, event) == n.user = p /\ n.event = event

(* Who is left in a call was not told by it yet.                           *)
LeftOK ==
    \A t \in telling : \A p \in t.left :
        /\ <<p, t.event>> \in due
        /\ \A n \in posting : ~About(n, p, t.event)
        /\ \A n \in inbox : ~About(n, p, t.event)

ToldOK ==
    /\ \A d \in due :
         \/ d \in lost
         \/ \E t \in telling : t.event = d[2] /\ d[1] \in t.left
         \/ d \in mails /\ \E n \in posting : About(n, d[1], d[2])
         \/ d \in mails /\ \E n \in inbox : About(n, d[1], d[2])
    /\ mails \subseteq due
    /\ \A n \in posting : <<n.user, n.event>> \in due
    /\ \A n \in inbox : <<n.user, n.event>> \in due

(* No two notices tell the same person of the same event.                  *)
OnceOK ==
    /\ \A n, m \in posting : About(n, m.user, m.event) => n = m
    /\ \A n, m \in inbox : About(n, m.user, m.event) => n = m
    /\ \A n \in posting, m \in inbox : ~About(n, m.user, m.event)

(* What a pass has still to show lies before its cursor, and in the feed.  *)
PassOK ==
    /\ pass # Ntc!NoPass => \A i, j \in DOMAIN pass.shown : i < j => pass.shown[i] < pass.shown[j]
    /\ pass.stage = "reading" =>
         /\ \A i \in DOMAIN pass.shown : pass.shown[i] <= pass.after
         /\ \A id \in pass.begun :
              \/ \E i \in DOMAIN pass.shown : pass.shown[i] = id
              \/ id > pass.after
                 /\ \E n \in inbox : n.id = id /\ Ntc!Matches(n, pass.user, pass.unreadOnly)
    /\ pass.stage = "done" =>
         \A id \in pass.begun : \E i \in DOMAIN pass.shown : pass.shown[i] = id

NoticesInv == NoticesTyped /\ Submitted /\ DecisionsOK /\ TellingOK /\ LeftOK /\ ToldOK /\ OnceOK /\ PassOK

-----------------------------------------------------------------------------
(* The delivery of an order.                                               *)

Sending == [state: {"approved", "sent", "partially_received", "fully_received", "cancelled"},
            expected: DueDays, left: 0..Ordered, sentAt: 0..Del!Never, settled: 0..Del!Never,
            moved: BOOLEAN]

Request == [stage: {"idle", "rendering", "telling_supplier", "telling_creator"}]
           \cup [stage: {"sending"}, pdf: BOOLEAN] \cup [stage: {"received"}, full: BOOLEAN]

DeliveryCheck == {Del!NoCheck} \cup [stage: {"scheduling", "queued", "reading", "done"}, due: Nat, stalled: 0..Stalls]
                 \cup [stage: {"alerting", "done"}, due: Nat, stalled: 0..Stalls, left: SUBSET Managers]

DeliveryTyped ==
    /\ sending \in Sending
    /\ request \in [Calls -> Request]
    /\ check \in DeliveryCheck
    /\ letters \in [supplier: {0, 1}, creator: {0, 1}, manager: [Managers -> Nat]]
    /\ editing \in BOOLEAN /\ alive \in BOOLEAN
    /\ today \in 0..MaxDay
    /\ untold \subseteq {"supplier", "creator", "check"}

(* The dates of an order follow its state; an edit is let in once.         *)
OrderOK ==
    /\ sending.state = "approved" => sending.sentAt = Del!Never
    /\ sending.state \in Del!Awaited \cup {"fully_received"} => sending.sentAt # Del!Never
    /\ sending.state \in {"approved"} \cup Del!Awaited => sending.settled = Del!Never
    /\ editing => ~sending.moved

(* Nobody else tells the supplier, and the supplier was not told yet.      *)
Telling(q) == q.stage = "telling_supplier"

SupplierOK ==
    /\ \A c \in Calls : Telling(request[c]) =>
         /\ letters.supplier = 0 /\ sending.sentAt # Del!Never
         /\ \A d \in Calls \ {c} : ~Telling(request[d])
    /\ letters.supplier = 1 => sending.sentAt # Del!Never
    /\ sending.sentAt # Del!Never =>
         letters.supplier = 1 \/ (\E c \in Calls : Telling(request[c])) \/ "supplier" \in untold

Completing(q) == q.stage = "telling_creator" \/ (q.stage = "received" /\ q.full)

CreatorOK ==
    /\ \A c \in Calls : Completing(request[c]) =>
         /\ letters.creator = 0 /\ sending.state = "fully_received"
         /\ \A d \in Calls \ {c} : ~Completing(request[d])
    /\ letters.creator = 1 => sending.state = "fully_received"
    /\ sending.state = "fully_received" =>
         letters.creator = 1 \/ (\E c \in Calls : Completing(request[c])) \/ "creator" \in untold

(* How many mails a manager may have had, by the stage of the check.       *)
LettersOK ==
    \A m \in Managers :
      /\ check.stage \in {"none", "scheduling"} => letters.manager[m] = 0
      /\ check.stage \in {"queued", "reading"} => letters.manager[m] <= check.stalled
      /\ check.stage = "alerting" =>
           IF m \in check.left THEN letters.manager[m] <= check.stalled
           ELSE letters.manager[m] \in 1..(check.stalled + 1)
      /\ check.stage = "done" => letters.manager[m] <= check.stalled + 1

(* When the check runs, and what it found when it read the order.          *)
CheckOK ==
    /\ check.stage # "none" => /\ sending.sentAt # Del!Never
                               /\ sending.moved \/ check.due = sending.expected + Grace
    /\ check.stage \in {"reading", "alerting"} => check.due <= today
    /\ check.stage = "alerting" \/ (\E m \in Managers : letters.manager[m] >= 1) =>
         sending.moved \/ (sending.settled >= sending.expected + Grace /\ Del!Late)

(* An order that is awaited is looked after, or is not for a reason.       *)
LookedAfter ==
    sending.state \in Del!Awaited /\ ~sending.moved =>
      \/ check.stage \in {"scheduling", "queued", "reading", "alerting"}
      \/ \A m \in Managers : letters.manager[m] >= 1
      \/ "check" \in untold
      \/ sending.sentAt >= sending.expected + Grace

DeliveryInv ==
    DeliveryTyped /\ OrderOK /\ SupplierOK /\ CreatorOK /\ LettersOK /\ CheckOK /\ LookedAfter

-----------------------------------------------------------------------------
(* The spending.                                                           *)

AllLines(S) == UNION {Spe!Lines(o) : o \in S}

BoughtLines(item) ==
    {l \in AllLines(Spe!Committed(0, MaxClock + 1)) : Spe!Line(l).item = item}

BoughtFrom(item, s) == {l \in BoughtLines(item) : order[l[1]].supplier = s}

(* The averages that give points, and what the code makes of them.         *)
Priced == {Spe!Averages.of[t] : t \in Spe!Scored} \ {0}

Spread == IF Priced = {} THEN 0 ELSE Spe!Max(Priced) - Spe!Min(Priced)
Denominator == IF Spread < Spe!Averages.scale THEN Spe!Averages.scale ELSE Spread
LinesOnTime(s) == {l \in Spe!FinishedLines(s) : Spe!OnTime(l[1])}
Share(s) == IF Spe!Averages.of[s] = 0 THEN 0 ELSE Denominator - (Spe!Averages.of[s] - Spe!Min(Priced))

(* The arithmetic of the scores: k of n lines on time, p of d for price.   *)
Points(k, n, d, p) == 40 * k * d + 50 * n * d + 10 * p * n

OutOf(n, d) == n * d

Order == [state: Spe!States \ {"none"}, supplier: Firms, deal: Deals,
          created: 0..clock, closed: (0..clock) \cup {Spe!Never}]

(* Of an order that is stored only the state and the time of its end       *)
(* change, and the state along the transitions.                            *)
OrdersMove ==
    \A o \in Spe!Stored :
      /\ order'[o].supplier = order[o].supplier /\ order'[o].deal = order[o].deal
      /\ order'[o].created = order[o].created
      /\ order'[o].state # "none"
      /\ \/ order'[o].state = order[o].state
         \/ /\ order[o].state \in DOMAIN Spe!Transitions
            /\ order'[o].state \in Spe!Transitions[order[o].state]

(* What holds of every state holds of the next one.                        *)
TotalsNat == \A o \in Spe!Stored : Spe!Total(o) \in Nat

(* The status of a budget, of which only the committed spend is worked out.*)
StatusOf(limit, committed) ==
    IF limit = 0 \/ committed >= limit THEN "overrun"
    ELSE IF Spe!Used(committed, limit) >= 100 * Warning THEN "warning" ELSE "ok"

StatusKnown ==
    \A m : \A currency : budget[m].currency = currency =>
      Spe!BudgetStatus(m) = IF budget[m] = Spe!NoBudget THEN "no_budget"
                            ELSE StatusOf(budget[m].limit,
                                          Spe!SumSpend(m * Month, (m + 1) * Month, currency))

-----------------------------------------------------------------------------
(* The reports of stock.                                                   *)

Recorded ==
    [type: Sto!Types, item: Items, warehouse: Warehouses, quantity: {-1, 1}, reason: Sto!Reasons,
     at: Nat, copy: Nat]

(* Movements that agree in everything but their number. *)
Alike(m, n) ==
    /\ m.type = n.type /\ m.item = n.item /\ m.warehouse = n.warehouse
    /\ m.quantity = n.quantity /\ m.reason = n.reason /\ m.at = n.at

AlikeIn(L, n) == {m \in L : Alike(m, n)}

(* Copies are numbered from 0: a number is less than how many there are.   *)
Numbered(L) == \A n \in L : n.copy < Cardinality(AlikeIn(L, n))

At(n, p) == n.item = p[1] /\ n.warehouse = p[2]
BroughtTo(L, p) == {n \in L : At(n, p) /\ n.quantity > 0}
TakenFrom(L, p) == {n \in L : At(n, p) /\ n.quantity < 0}
IsUse(n) == n.type = "adjustment" /\ n.quantity < 0 /\ n.reason = "production_consume"
UsedOn(L, i, d) == {n \in L : n.item = i /\ n.at \div Day = d /\ IsUse(n)}

(* Goods come in by movements of three types and go by two.                *)
Signed(n) ==
    /\ n.type \in {"in", "transfer_in"} => n.quantity = 1
    /\ n.type = "transfer_out" => n.quantity = -1

Given(O, p) == IF p \in O THEN Opening ELSE 0

(* The balance of a place is its opening, if that was posted, with what    *)
(* was brought there, less what was taken; and what production used of an  *)
(* item on a day is in the ledger.                                         *)
Ledger(O, L, bal, use) ==
    /\ L \subseteq Recorded /\ IsFiniteSet(L) /\ Numbered(L)
    /\ \A n \in L : Signed(n)
    /\ \A p \in Places :
         bal[p] + Cardinality(TakenFrom(L, p)) = Given(O, p) + Cardinality(BroughtTo(L, p))
    /\ \A i \in Items, d \in Sto!Days : use[i][d] = Cardinality(UsedOn(L, i, d))

(* A place has a row if its opening was posted or it was moved since.      *)
RowsOf(S, O, L) == \A p \in Places : p \in S <=> p \in O \/ \E n \in L : At(n, p)

LedgerInv ==
    /\ Sto!TypeOK /\ Ledger(opening, ledger, balance, usage)
    /\ RowsOf(stored, opening, ledger)

Neg == {n \in ledger : n.quantity < 0}
Pos == {n \in ledger : n.quantity > 0}

(* What was issued in a time.                                              *)
Issued(from, to) == Sto!OfType(Sto!Issues, Sto!Since(from, to))

IssuedIn(from, to, c) == {n \in Issued(from, to) : Category[n.item] = c}
IssuedFrom(from, to, p) == Sto!Of(p[1], Sto!In(p[2], Issued(from, to)))
Days1(from, to) == IF Sto!Rounded(to - from, Day) < 1 THEN 1 ELSE Sto!Rounded(to - from, Day)

PlaceRow(from, to, p) ==
    LET consumed == Sto!Moved(IssuedFrom(from, to + 1, p)) IN
    [place |-> p, consumed |-> consumed, days |-> Days1(from, to),
     turnover |-> IF balance[p] > 0 THEN [num |-> consumed, den |-> balance[p]]
                  ELSE [num |-> 0, den |-> 1],
     cover |-> [num |-> balance[p] * Days1(from, to), den |-> consumed],
     slow |-> consumed = 0]

PlaceOf(n) == <<n.item, n.warehouse>>

(* What is quiet: no row of the turnover is about it.                      *)
Quiet(from, to) == {p \in Places : balance[p] > 0} \ {r.place : r \in Sto!PlaceTurnover(from, to)}

Uses(T) == {n \in T : IsUse(n)}

(* What was used at this instant.                                          *)
UsedNow(i) == {n \in ledger : n.item = i /\ n.at = stockNow /\ IsUse(n)}

(* The quantity is the least that reaches the square root of the ratio.    *)
Reaches(q, N, D) == (2 * q + 1) * (2 * q + 1) * D > 4 * N

IsOrder(o, lead) ==
    /\ o.demand \in Nat /\ o.ratio.num \in Nat /\ o.ratio.den \in Nat /\ o.quantity \in Nat
    /\ o.reorderPoint = Sto!Rounded(o.demand * lead, 365)
    /\ o.quantity > 0 =>
         /\ Reaches(o.quantity, o.ratio.num, o.ratio.den)
         /\ ~ Reaches(o.quantity - 1, o.ratio.num, o.ratio.den)

(* The rows up to and including one, sorted by falling value.              *)
UpTo(i, w) == {j \in DOMAIN w : j = i \/ Sto!Before(j, i, w)}

StockShare(i, w) == Sto!Sum([j \in UpTo(i, w) |-> w[j]])

(* A value of each row.                                                    *)
IsWorth(w) ==
    /\ DOMAIN w \subseteq Items /\ \A i \in DOMAIN w : w[i] \in Nat
    /\ w = [i \in DOMAIN w |-> w[i]]

-----------------------------------------------------------------------------
(***************************************************************************)
(* The types of the parts.  What the invariants do not say of them: which  *)
(* list a behaviour of the suppliers is about, that notices have the       *)
(* identifiers that were given out, and that an order is submitted, and    *)
(* notices are lost, no more than the bounds allow.                        *)
(***************************************************************************)
OneList == listFocus \in Firms \X (Sup!Lists \cup {"taxId"})

LostOK ==
    /\ Ntc!Round <= Rounds
    /\ lost \subseteq Ntc!People \X Ntc!Events
    /\ faults \in 0..MaxFaults

IdsGiven == (\A n \in posting : n.id <= made) /\ \A n \in inbox : n.id <= made

(* The parts together: each keeps its own invariant while it runs.         *)
RecordsInv ==
    /\ part = "monitor" => InductiveInv
    /\ part = "suppliers" => ListsInv /\ OneList
    /\ part = "notices" => NoticesInv /\ LostOK /\ IdsGiven
    /\ part = "deliveries" => DeliveryInv
    /\ part = "spending" => Spe!TypeOK
    /\ part = "stock" => LedgerInv
=============================================================================
