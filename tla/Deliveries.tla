------------------------------ MODULE Deliveries -----------------------------
(***************************************************************************)
(* What is told, and to whom, while an approved order is sent to its       *)
(* supplier, waits for its goods and receives them (po.service.ts,         *)
(* po.notifications.ts), and the check for late deliveries that is put on  *)
(* the queue when it is sent (scheduled.worker.ts).  No request waits for  *)
(* what it tells: that goes on when it has been answered, and fails or     *)
(* dies by itself.  The queue never tries the check again after a failure; *)
(* when the worker died with it, it starts it over once.                   *)
(***************************************************************************)
EXTENDS Naturals, FiniteSets

CONSTANTS
    Calls,      \* requests that may overlap
    Managers,   \* the active owners and managers
    Ordered,    \* pieces that were ordered
    Expected,   \* days a delivery may be expected on
    Grace,      \* OVERDUE_FOLLOWUP_DAYS
    Stalls,     \* times the queue starts a job over
    MaxDay      \* bound of the model: the clock

DaysAssumption ==
    /\ Ordered \in Nat /\ Expected \subseteq Nat /\ Grace \in Nat
    /\ Stalls \in Nat /\ MaxDay \in Nat

VARIABLES
    order,      \* the purchase order
    call,       \* the requests
    check,      \* the job that looks for a late delivery
    mails,      \* mails put on the queue: to the supplier, to the creator, to managers
    editing,    \* an edit that was let in while the order was a draft
    day,        \* today
    lost,       \* history: what was not told
    alive       \* bound of the model: the server dies once

vars == <<order, call, check, mails, editing, day, lost, alive>>

Never == MaxDay + 1
Idle == [stage |-> "idle"]
NoCheck == [stage |-> "none"]
Awaited == {"sent", "partially_received"}

Init ==
    /\ order \in [state: {"approved"}, expected: Expected, left: {Ordered},
                  sentAt: {Never}, settled: {Never}, moved: {FALSE}]
    /\ call = [c \in Calls |-> Idle]
    /\ check = NoCheck
    /\ mails = [supplier |-> 0, creator |-> 0, manager |-> [m \in Managers |-> 0]]
    /\ editing \in BOOLEAN
    /\ day = 0
    /\ lost = {}
    /\ alive = TRUE

Go(c, next) == call' = [call EXCEPT ![c] = next]

(***************************************************************************)
(* Sending an order.                                                       *)
(***************************************************************************)
BeginSend(c) ==
    /\ call[c] = Idle /\ order.state = "approved"
    /\ Go(c, [stage |-> "rendering"])
    /\ UNCHANGED <<order, check, mails, editing, day, lost, alive>>

(* generateAndStorePdf never throws; without a PDF there is nothing to mail. *)
Render(c, rendered) ==
    /\ call[c].stage = "rendering"
    /\ Go(c, [stage |-> "sending", pdf |-> rendered])
    /\ UNCHANGED <<order, check, mails, editing, day, lost, alive>>

(* The job is due Grace days after the delivery, unless that has passed.   *)
Scheduled == IF order.expected + Grace > day
             THEN [stage |-> "scheduling", due |-> order.expected + Grace, stalled |-> 0]
             ELSE NoCheck

(* Mutant: the supplier is told whoever moved the order. *)
SendUnchecked(c) ==
    /\ call[c].stage = "sending"
    /\ IF order.state = "approved"
       THEN /\ order' = [order EXCEPT !.state = "sent", !.sentAt = day]
            /\ check' = Scheduled
       ELSE UNCHANGED <<order, check>>
    /\ Go(c, IF call[c].pdf THEN [stage |-> "telling_supplier"] ELSE Idle)
    /\ lost' = IF call[c].pdf THEN lost ELSE lost \cup {"supplier"}
    /\ UNCHANGED <<mails, editing, day, alive>>

(* The order is sent, or somebody else moved it meanwhile.                 *)
Send(c) ==
    /\ call[c].stage = "sending"
    /\ IF order.state = "approved"
       THEN /\ order' = [order EXCEPT !.state = "sent", !.sentAt = day]
            /\ check' = Scheduled
            /\ Go(c, IF call[c].pdf THEN [stage |-> "telling_supplier"] ELSE Idle)
            /\ lost' = IF call[c].pdf THEN lost ELSE lost \cup {"supplier"}
       ELSE Go(c, Idle) /\ UNCHANGED <<order, check, lost>>
    /\ UNCHANGED <<mails, editing, day, alive>>

(* notifyPoSentToSupplier: a failure is only logged. *)
TellSupplier(c, queued) ==
    /\ call[c].stage = "telling_supplier"
    /\ IF queued THEN mails' = [mails EXCEPT !.supplier = @ + 1] /\ UNCHANGED lost
                 ELSE lost' = lost \cup {"supplier"} /\ UNCHANGED mails
    /\ Go(c, Idle)
    /\ UNCHANGED <<order, check, editing, day, alive>>

(* enqueueScheduled: a failure is only logged. *)
Schedule(queued) ==
    /\ check.stage = "scheduling"
    /\ IF queued THEN check' = [check EXCEPT !.stage = "queued"] /\ UNCHANGED lost
                 ELSE check' = NoCheck /\ lost' = lost \cup {"check"}
    /\ UNCHANGED <<order, call, mails, editing, day, alive>>

(* The edit writes its date by the id of the order alone (module           *)
(* PurchaseOrder has the whole of it).                                     *)
LateEdit(expected) ==
    /\ editing
    /\ editing' = FALSE
    /\ order' = [order EXCEPT !.expected = expected,
                              !.moved = order.sentAt # Never /\ expected # order.expected]
    /\ UNCHANGED <<call, check, mails, day, lost, alive>>

(***************************************************************************)
(* Receiving the goods.                                                    *)
(***************************************************************************)
(* The transaction of a receipt; those that overlap on one order exclude   *)
(* each other (module PurchaseOrder).                                      *)
Receive(c, quantity) ==
    /\ call[c] = Idle /\ order.state \in Awaited /\ quantity <= order.left
    /\ LET full == order.left = quantity IN
       /\ order' = [order EXCEPT !.left = @ - quantity,
                      !.state = IF full THEN "fully_received" ELSE "partially_received",
                      !.settled = IF full THEN day ELSE Never]
       /\ Go(c, [stage |-> "received", full |-> full])
    /\ UNCHANGED <<check, mails, editing, day, lost, alive>>

(* receive reads the order again and starts the side effects.              *)
Reread(c) ==
    /\ call[c].stage = "received"
    /\ Go(c, IF call[c].full THEN [stage |-> "telling_creator"] ELSE Idle)
    /\ UNCHANGED <<order, check, mails, editing, day, lost, alive>>

(* notifyPoFullyReceived: a failure is only logged. *)
TellCreator(c, queued) ==
    /\ call[c].stage = "telling_creator"
    /\ IF queued THEN mails' = [mails EXCEPT !.creator = @ + 1] /\ UNCHANGED lost
                 ELSE lost' = lost \cup {"creator"} /\ UNCHANGED mails
    /\ Go(c, Idle)
    /\ UNCHANGED <<order, check, editing, day, alive>>

Cancel ==
    /\ order.state \in {"approved"} \cup Awaited
    /\ order' = [order EXCEPT !.state = "cancelled", !.settled = day]
    /\ UNCHANGED <<call, check, mails, editing, day, lost, alive>>

(***************************************************************************)
(* The check for a late delivery.                                          *)
(***************************************************************************)
NextDay ==
    /\ day < MaxDay
    /\ day' = day + 1
    /\ UNCHANGED <<order, call, check, mails, editing, lost, alive>>

PickUp ==
    /\ check.stage = "queued" /\ check.due <= day
    /\ check' = [check EXCEPT !.stage = "reading"]
    /\ UNCHANGED <<order, call, mails, editing, day, lost, alive>>

Late == order.expected + Grace <= day

(* handlePoOverdue: an order that is not awaited, or not late, is passed over. *)
ReadOrder ==
    /\ check.stage = "reading"
    /\ check' = IF order.state \in Awaited /\ Late
                THEN [stage |-> "alerting", due |-> check.due, stalled |-> check.stalled,
                      left |-> Managers]
                ELSE [check EXCEPT !.stage = "done"]
    /\ UNCHANGED <<order, call, mails, editing, day, lost, alive>>

(* notifyDeliveryOverdue: one mail after another; the first that cannot be *)
(* put on the queue ends it, and that is only logged.                      *)
AlertOne(m, queued) ==
    /\ check.stage = "alerting" /\ m \in check.left
    /\ IF queued
       THEN /\ mails' = [mails EXCEPT !.manager[m] = @ + 1]
            /\ check' = [check EXCEPT !.left = @ \ {m},
                                      !.stage = IF check.left = {m} THEN "done" ELSE @]
            /\ UNCHANGED lost
       ELSE /\ check' = [check EXCEPT !.stage = "done"]
            /\ lost' = lost \cup {"check"}
            /\ UNCHANGED mails
    /\ UNCHANGED <<order, call, editing, day, alive>>

(* The order cannot be read: the job has no second attempt. *)
CheckFails ==
    /\ check.stage = "reading"
    /\ check' = [check EXCEPT !.stage = "done"]
    /\ lost' = lost \cup {"check"}
    /\ UNCHANGED <<order, call, mails, editing, day, alive>>

(* The worker dies: the queue has the job run again, from its beginning.   *)
Stall ==
    /\ check.stage \in {"reading", "alerting"}
    /\ IF check.stalled < Stalls
       THEN /\ check' = [stage |-> "queued", due |-> check.due, stalled |-> check.stalled + 1]
            /\ UNCHANGED lost
       ELSE /\ check' = [check EXCEPT !.stage = "done"]
            /\ lost' = lost \cup {"check"}
    /\ UNCHANGED <<order, call, mails, editing, day, alive>>

(* The server dies, with everything it still had to tell or to put on a    *)
(* queue.                                                                  *)
Die ==
    /\ alive /\ alive' = FALSE
    /\ lost' = lost
         \cup {"supplier" : c \in {c \in Calls : call[c].stage = "telling_supplier"}}
         \cup {"creator" : c \in {c \in Calls : \/ call[c].stage = "telling_creator"
                                                \/ call[c].stage = "received" /\ call[c].full}}
         \cup {"check" : s \in {check.stage} \cap {"scheduling"}}
    /\ call' = [c \in Calls |-> Idle]
    /\ check' = IF check.stage = "scheduling" THEN NoCheck ELSE check
    /\ editing' = FALSE
    /\ UNCHANGED <<order, mails, day>>

Next ==
    \/ \E c \in Calls : BeginSend(c) \/ Send(c) \/ Reread(c)
    \/ \E c \in Calls, done \in BOOLEAN : Render(c, done) \/ TellSupplier(c, done) \/ TellCreator(c, done)
    \/ \E c \in Calls, quantity \in 1..Ordered : Receive(c, quantity)
    \/ \E queued \in BOOLEAN : Schedule(queued)
    \/ \E expected \in Expected : LateEdit(expected)
    \/ \E m \in Managers, queued \in BOOLEAN : AlertOne(m, queued)
    \/ Cancel \/ NextDay \/ PickUp \/ ReadOrder \/ CheckFails \/ Stall \/ Die

Spec == Init /\ [][Next]_vars

(***************************************************************************)
(* Properties.                                                             *)
(***************************************************************************)
TypeOK ==
    /\ order.state \in {"approved", "sent", "partially_received", "fully_received", "cancelled"}
    /\ order.expected \in Expected /\ order.left \in 0..Ordered
    /\ {order.sentAt, order.settled} \subseteq 0..Never /\ order.moved \in BOOLEAN
    /\ \A c \in Calls : call[c].stage \in {"idle", "rendering", "sending", "telling_supplier",
                                           "received", "telling_creator"}
    /\ check.stage \in {"none", "scheduling", "queued", "reading", "alerting", "done"}
    /\ check # NoCheck => check.stalled \in 0..Stalls
    /\ {mails.supplier, mails.creator} \subseteq Nat /\ mails.manager \in [Managers -> Nat]
    /\ {editing, alive} \subseteq BOOLEAN /\ day \in 0..MaxDay
    /\ lost \subseteq {"supplier", "creator", "check"}

Busy(stages) == \E c \in Calls : call[c].stage \in stages

(* Of two clients that send an order, or one that sends and one that       *)
(* cancels, the supplier hears once at most, and only of an order that was *)
(* sent; of one that was sent it hears, or is about to, or the telling was *)
(* lost.                                                                   *)
SupplierToldOnce ==
    /\ mails.supplier <= 1
    /\ mails.supplier = 1 \/ Busy({"telling_supplier"}) => order.sentAt # Never
    /\ order.sentAt # Never =>
         mails.supplier = 1 \/ Busy({"telling_supplier"}) \/ "supplier" \in lost

(* The creator is told once that all has arrived, though the receipts that *)
(* complete the order overlap and read it again after their transactions.  *)
CreatorToldOnce ==
    /\ mails.creator <= 1
    /\ mails.creator = 1 => order.state = "fully_received"
    /\ order.state = "fully_received" =>
         \/ mails.creator = 1 \/ "creator" \in lost
         \/ \E c \in Calls : \/ call[c].stage = "telling_creator"
                             \/ call[c].stage = "received" /\ call[c].full

(* An order that is still awaited Grace days after its date has every      *)
(* manager alerted, or the check is still to come; unless it was lost, the *)
(* order was sent too late for a check, or an edit moved the date of the   *)
(* order that had been sent.  Nobody is alerted of an order that was       *)
(* settled before that day, and twice only for a worker that died.         *)
OverdueAlerted ==
    /\ order.state \in Awaited /\ Late /\ ~order.moved =>
         \/ check.stage \in {"scheduling", "queued", "reading", "alerting"}
         \/ \A m \in Managers : mails.manager[m] >= 1
         \/ "check" \in lost
         \/ order.sentAt >= order.expected + Grace
    /\ \A m \in Managers :
         /\ mails.manager[m] >= 1 => order.moved \/ order.settled >= order.expected + Grace
         /\ mails.manager[m] <= 1 + (IF check = NoCheck THEN 0 ELSE check.stalled)
=============================================================================
