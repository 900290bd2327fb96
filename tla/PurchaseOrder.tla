--------------------------- MODULE PurchaseOrder ---------------------------
(***************************************************************************)
(* One purchase order and the requests that work on it concurrently:       *)
(* modules/po/po.service.ts, po.repository.ts and purchaseOrder.model.ts.  *)
(*                                                                         *)
(* A handler first READS the document and checks the state it read against *)
(* the transition table; its write comes later, and other requests run in  *)
(* between.  There are three kinds of writes.                              *)
(*                                                                         *)
(*  - transitionState is a compare-and-swap on the state alone.            *)
(*  - update, for an edit and for the key of the rendered PDF, is          *)
(*    unconditional.                                                       *)
(*  - a receipt runs in a transaction, which aborts if the document it     *)
(*    writes was written by anybody else since its snapshot.               *)
(***************************************************************************)
EXTENDS Integers

CONSTANTS
    Lines,       \* the items the order may have a line for
    Quantities,  \* quantities a request may name
    Clients,     \* concurrent requests
    MaxEdits     \* bound of the model: how often the order is edited

ASSUME QuantitiesAssumption == Quantities \subseteq Nat \ {0}
ASSUME EditsAssumption == MaxEdits \in Nat

VARIABLES
    po,         \* the document
    receipts,   \* per line item, the sum of all PoReceipt lines
    request,    \* what every client is in the middle of
    rendering,  \* the approved order's PDF is being rendered in the background
    overtaken   \* history: an edit was written after the order was submitted

vars == <<po, receipts, request, rendering, overtaken>>

State == {"absent", "draft", "pending_approval", "approved", "sent",
          "partially_received", "fully_received", "closed", "cancelled", "rejected"}

(* PURCHASE_ORDER_TRANSITIONS.                                             *)
Transitions ==
    [absent             |-> {},
     draft              |-> {"pending_approval", "cancelled"},
     pending_approval   |-> {"approved", "rejected", "cancelled"},
     approved           |-> {"sent", "cancelled"},
     sent               |-> {"partially_received", "fully_received", "cancelled"},
     partially_received |-> {"partially_received", "fully_received", "cancelled"},
     fully_received     |-> {"closed"},
     closed             |-> {},
     cancelled          |-> {},
     rejected           |-> {"draft"}]

(* A line the order does not have is one with nothing ordered.             *)
Order == {o \in [Lines -> Quantities \cup {0}] : \E l \in Lines : o[l] # 0}

(* submission stands for approval.submittedAt and submittedBy: which of    *)
(* the order's submissions the approval block belongs to.                  *)
Po == [state: State, edition: Nat,
       ordered: [Lines -> Nat], received: [Lines -> Nat],
       submission: Nat, decision: {"none", "approved", "rejected"},
       pdf: BOOLEAN]

None == [l \in Lines |-> 0]

NoPo == [state |-> "absent", edition |-> 0, ordered |-> None, received |-> None,
         submission |-> 0, decision |-> "none", pdf |-> FALSE]

(* The requests that end in transitionState, and where they lead.          *)
Target == [submit |-> "pending_approval", approve |-> "approved",
           reject |-> "rejected", send |-> "sent", cancel |-> "cancelled",
           close |-> "closed", reopen |-> "draft"]

IsRequest(r) ==
    \/ r \in [op: {"idle", "edit", "download"}]
    \/ r \in [op: DOMAIN Target \cup {"render"}, from: State,
              submission: Nat, pdf: BOOLEAN]
    \/ r \in [op: {"receive"}, base: Po, goods: [Lines -> Nat]]

TypeOK ==
    /\ po \in Po
    /\ receipts \in [Lines -> Nat]
    /\ DOMAIN request = Clients
    /\ \A c \in Clients : IsRequest(request[c])
    /\ rendering \in BOOLEAN
    /\ overtaken \in BOOLEAN

Idle == [op |-> "idle"]

Init ==
    /\ po = NoPo
    /\ receipts = None
    /\ request = [c \in Clients |-> Idle]
    /\ rendering = FALSE
    /\ overtaken = FALSE

Goto(c, r) == request' = [request EXCEPT ![c] = r]

CanTransition(to) == to \in Transitions[po.state]

-----------------------------------------------------------------------------
(* create, createFromForecast and an accepted quotation make a draft.      *)
Create(order) ==
    /\ po.state = "absent"
    /\ po' = [NoPo EXCEPT !.state = "draft", !.ordered = order]
    /\ UNCHANGED <<receipts, request, rendering, overtaken>>

(* submit, approve, reject, sendToSupplier, cancel and close: read the     *)
(* document and check the state.  A dispatch goes on to render its PDF.    *)
Read(c, op) ==
    /\ request[c] = Idle
    /\ CanTransition(Target[op])
    /\ Goto(c, [op         |-> IF op = "send" THEN "render" ELSE op,
                from       |-> po.state,
                submission |-> po.submission,
                pdf        |-> po.pdf])
    /\ UNCHANGED <<po, receipts, rendering, overtaken>>

(* generateAndStorePdf: the upload may fail, and then nothing is stored.   *)
StorePdf == po' = [po EXCEPT !.pdf = TRUE]

RenderBeforeSend(c) ==
    /\ request[c].op = "render"
    /\ StorePdf \/ UNCHANGED po
    /\ Goto(c, [request[c] EXCEPT !.op = "send"])
    /\ UNCHANGED <<receipts, rendering, overtaken>>

(* Mutant: the state is written whatever it has become.                    *)
TransitionUnchecked(c, op, written) ==
    /\ request[c].op = op
    /\ po' = [written EXCEPT !.state = Target[op]]
    /\ Goto(c, Idle)
    /\ UNCHANGED <<receipts, overtaken>>

(* transitionState: the write applies if the state is the one that was     *)
(* read, and is PO_STATE_RACE otherwise.                                   *)
Transition(c, op, written) ==
    /\ request[c].op = op
    /\ po' = IF po.state = request[c].from
             THEN [written EXCEPT !.state = Target[op]] ELSE po
    /\ Goto(c, Idle)
    /\ UNCHANGED <<receipts, overtaken>>

(* Mutant: the decision on the previous submission is kept.                *)
SubmitKeepingDecision(c) ==
    /\ Transition(c, "submit", [po EXCEPT !.submission = @ + 1])
    /\ UNCHANGED rendering

(* A new approval block, of a new submission.                              *)
Submit(c) ==
    /\ Transition(c, "submit", [po EXCEPT !.submission = @ + 1, !.decision = "none"])
    /\ UNCHANGED rendering

(* The decision is written into the approval block that was read; the PDF  *)
(* is rendered after the response.                                         *)
Approve(c) ==
    /\ Transition(c, "approve", [po EXCEPT !.submission = request[c].submission,
                                           !.decision = "approved"])
    /\ rendering' = (rendering \/ po.state = request[c].from)

Reject(c) ==
    /\ Transition(c, "reject", [po EXCEPT !.submission = request[c].submission,
                                          !.decision = "rejected"])
    /\ UNCHANGED rendering

(* sendToSupplier writes back the PDF key of the document it read.         *)
Send(c) ==
    /\ Transition(c, "send", [po EXCEPT !.pdf = request[c].pdf])
    /\ UNCHANGED rendering

Cancel(c) == Transition(c, "cancel", po) /\ UNCHANGED rendering

Close(c) == Transition(c, "close", po) /\ UNCHANGED rendering

RenderApproved ==
    /\ rendering
    /\ rendering' = FALSE
    /\ StorePdf \/ UNCHANGED po
    /\ UNCHANGED <<receipts, request, overtaken>>

(* getPdfDownloadUrl renders an order that has no PDF yet.                 *)
ReadForDownload(c) ==
    /\ request[c] = Idle
    /\ po.state # "absent"
    /\ ~po.pdf
    /\ Goto(c, [op |-> "download"])
    /\ UNCHANGED <<po, receipts, rendering, overtaken>>

RenderDownload(c) ==
    /\ request[c].op = "download"
    /\ StorePdf \/ UNCHANGED po
    /\ Goto(c, Idle)
    /\ UNCHANGED <<receipts, rendering, overtaken>>

-----------------------------------------------------------------------------
(* update: the state is checked on the document that was read...           *)
Editable == {"draft", "rejected"}

ReadForEdit(c) ==
    /\ request[c] = Idle
    /\ po.state \in Editable
    /\ po.edition < MaxEdits
    /\ Goto(c, [op |-> "edit"])
    /\ UNCHANGED <<po, receipts, rendering, overtaken>>

(* ...and the write is unconditional.  A patch with lines replaces them    *)
(* all, with nothing received; one without leaves them.  A document that   *)
(* is rejected when it is written is then moved back to draft.             *)
Edited(order) ==
    [po EXCEPT !.edition = @ + 1, !.ordered = order, !.received = None]

Amended == [po EXCEPT !.edition = @ + 1]

WriteEdit(c) ==
    /\ request[c].op = "edit"
    /\ po.edition < MaxEdits
    /\ \/ \E order \in Order : po' = Edited(order)
       \/ po' = Amended
    /\ overtaken' = (overtaken \/ po.state \notin Editable)
    /\ Goto(c, IF po.state = "rejected"
               THEN [op |-> "reopen", from |-> "rejected",
                     submission |-> po.submission, pdf |-> po.pdf]
               ELSE Idle)
    /\ UNCHANGED <<receipts, rendering>>

Reopen(c) == Transition(c, "reopen", po) /\ UNCHANGED rendering

-----------------------------------------------------------------------------
(* receive: guards, quantities and the resulting state all come from the   *)
(* transaction's snapshot.                                                 *)
Receivable == {"sent", "partially_received"}

(* Mutants: goods taken off the line; an order complete when one line is;  *)
(* a receipt that is not isolated from other writers.                      *)
ReceivedNegated(base, goods) == [l \in Lines |-> base.received[l] - goods[l]]

CompleteInPart(ordered, received) == \E l \in Lines : received[l] >= ordered[l]

Received(base, goods) == [l \in Lines |-> base.received[l] + goods[l]]

Complete(ordered, received) == \A l \in Lines : received[l] >= ordered[l]

BeginReceive(c, goods) ==
    /\ request[c] = Idle
    /\ po.state \in Receivable
    /\ \A l \in Lines : goods[l] <= po.ordered[l] - po.received[l]
    /\ Goto(c, [op |-> "receive", base |-> po, goods |-> goods])
    /\ UNCHANGED <<po, receipts, rendering, overtaken>>

CommitReceiveUnisolated(c) ==
    LET base  == request[c].base
        goods == request[c].goods
        after == Received(base, goods)
    IN  /\ request[c].op = "receive"
        /\ po' = [po EXCEPT !.received = after,
                            !.state = IF Complete(base.ordered, after)
                                      THEN "fully_received" ELSE "partially_received"]
        /\ receipts' = [l \in Lines |-> receipts[l] + goods[l]]
        /\ Goto(c, Idle)
        /\ UNCHANGED <<rendering, overtaken>>

CommitReceive(c) ==
    LET base  == request[c].base
        goods == request[c].goods
        after == Received(base, goods)
    IN  /\ request[c].op = "receive"
        /\ po = base
        /\ po' = [base EXCEPT !.received = after,
                              !.state = IF Complete(base.ordered, after)
                                        THEN "fully_received" ELSE "partially_received"]
        /\ receipts' = [l \in Lines |-> receipts[l] + goods[l]]
        /\ Goto(c, Idle)
        /\ UNCHANGED <<rendering, overtaken>>

(* A request that dies, a transaction that conflicts.                      *)
GiveUp(c) ==
    /\ request[c] # Idle
    /\ Goto(c, Idle)
    /\ UNCHANGED <<po, receipts, rendering, overtaken>>

-----------------------------------------------------------------------------
Requests == DOMAIN Target \ {"reopen"}

ClientStep(c) ==
    \/ \E op \in Requests : Read(c, op)
    \/ RenderBeforeSend(c)
    \/ Submit(c) \/ Approve(c) \/ Reject(c) \/ Send(c) \/ Cancel(c) \/ Close(c)
    \/ ReadForDownload(c) \/ RenderDownload(c)
    \/ ReadForEdit(c) \/ WriteEdit(c) \/ Reopen(c)
    \/ \E goods \in Order : BeginReceive(c, goods)
    \/ CommitReceive(c)
    \/ GiveUp(c)

Next ==
    \/ \E order \in Order : Create(order)
    \/ \E c \in Clients : ClientStep(c)
    \/ RenderApproved

Spec == Init /\ [][Next]_vars

-----------------------------------------------------------------------------
(* Safety.                                                                 *)

(* However reads and writes overlap, the state only moves along            *)
(* PURCHASE_ORDER_TRANSITIONS: the state is never written on the strength  *)
(* of a stale read (po.repository.ts transitionState).                     *)
TransitionsFollowTable ==
    [][po'.state # po.state =>
         \/ po.state = "absent" /\ po'.state = "draft"
         \/ po'.state \in Transitions[po.state]]_vars

(* An order past approval carries the decision that let it through, and a  *)
(* rejected one the decision that stopped it (approve and reject write     *)
(* state and approval block together).                                     *)
Approved == {"approved", "sent", "partially_received", "fully_received", "closed"}

DecisionMatchesState ==
    /\ po.state \in Approved => po.decision = "approved"
    /\ po.state = "rejected" => po.decision = "rejected"
    /\ po.state = "pending_approval" => po.decision = "none"

(* Overlapping receipts never receive more of a line than was ordered, and *)
(* the lines agree with the receipts posted, unless an edit that overtook  *)
(* a submission has reset them (receiveInTransaction's remaining check).   *)
ReceiptsWithinOrder ==
    \A l \in Lines :
        /\ po.received[l] <= po.ordered[l]
        /\ po.received[l] <= receipts[l]
        /\ ~overtaken => po.received[l] = receipts[l]

(* The state says how much has arrived, unless an edit overtook a          *)
(* submission: nothing before the dispatch, part of it or all of it after  *)
(* (receiveInTransaction's resultingState).                                *)
BeforeDispatch == {"absent", "draft", "pending_approval", "approved", "sent", "rejected"}

AllArrived == \A l \in Lines : receipts[l] = po.ordered[l]

StateMatchesReceipts ==
    ~overtaken =>
        /\ po.state \in BeforeDispatch => receipts = None
        /\ po.state = "partially_received" => receipts # None /\ ~AllArrived
        /\ po.state \in {"fully_received", "closed"} => AllArrived

(* Goods are posted only while the order is out for delivery: a receipt    *)
(* that races a cancellation or a close never lands after it.              *)
ReceiptsOnlyWhileSent ==
    [][receipts' # receipts => po.state \in Receivable]_vars

(* None of them is inductive by itself: what a request will write was      *)
(* decided when it read.  The move it is about to make leads along the     *)
(* table from the state it read, and a receipt fits the order it read.     *)
Destination(r) == IF r.op = "render" THEN "sent" ELSE Target[r.op]

RequestOK(r) ==
    /\ r.op \in DOMAIN Target \cup {"render"} =>
         Destination(r) \in Transitions[r.from]
    /\ r.op = "receive" =>
         /\ r.base.state \in Receivable
         /\ \E l \in Lines : r.goods[l] > 0
         /\ \A l \in Lines : r.goods[l] <= r.base.ordered[l] - r.base.received[l]

InductiveInv ==
    /\ TypeOK
    /\ \A c \in Clients : RequestOK(request[c])
    /\ DecisionMatchesState
    /\ ReceiptsWithinOrder
    /\ StateMatchesReceipts

(* What the documentation says, and the code does not do.                  *)

(* po.service.ts, update: "Only draft or rejected POs can be edited".      *)
EditsOnlyInDraftOrRejected ==
    [][po'.edition # po.edition => po.state \in Editable]_vars

(* ARCHITECTURE.md: "No race condition is silently absorbed": a decision   *)
(* is about the submission it was read from, which is the current one.     *)
DecisionOnCurrentSubmission ==
    [][(po.state = "pending_approval" /\ po'.decision # po.decision)
         => po'.submission = po.submission]_vars
=============================================================================
