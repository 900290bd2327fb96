----------------------------- MODULE Quotation -----------------------------
(***************************************************************************)
(* One request for quotation: modules/supplier/quotation.service.ts,       *)
(* quotation.repository.ts and the expiry job of scheduled.worker.ts.      *)
(*                                                                         *)
(* Suppliers answer over a public link, buyers accept or cancel, a delayed *)
(* job closes the request at its deadline.  Every handler reads the        *)
(* document first; every write is one conditional update whose filter      *)
(* names the state it needs.  The order that an acceptance leads to is     *)
(* drafted in a later step, from the invitation that was read before.      *)
(***************************************************************************)
EXTENDS Naturals, Sequences, FiniteSets

CONSTANTS
    Items,       \* what may be asked for
    Suppliers,   \* who may be invited
    NoSupplier,  \* acceptedSupplierId = null
    Quantities,  \* quantities a line may ask for
    Prices,      \* unit prices a supplier may name
    MaxLines,    \* bound of the model: lines of the request
    Clients      \* requests of buyers and of suppliers

ASSUME NoSupplierAssumption == NoSupplier \notin Suppliers
ASSUME QuantitiesAssumption == Quantities \subseteq Nat \ {0}
ASSUME PricesAssumption == Prices \subseteq Nat
ASSUME LinesAssumption == MaxLines \in Nat \ {0}

VARIABLES
    quote,    \* the document
    past,     \* validUntil is over
    job,      \* the delayed expiry job
    request,  \* what every client is in the middle of
    orders    \* the purchase orders drafted from this quotation

vars == <<quote, past, job, request, orders>>

(* Nothing keeps a request from asking for an item on two lines; a         *)
(* response names every item at most once.                                 *)
Lines == UNION {[1..n -> [item: Items, quantity: Quantities]] : n \in 1..MaxLines}
Response == UNION {[D -> Prices] : D \in (SUBSET Items) \ {{}}}
NoResponse == [i \in {} |-> 0]

Requested == {quote.lines[n].item : n \in DOMAIN quote.lines}

Quote == [status: {"absent", "open", "closed", "cancelled"},
          lines: Lines \cup {<<>>}, invited: SUBSET Suppliers,
          response: [Suppliers -> Response \cup {NoResponse}],
          accepted: Suppliers \cup {NoSupplier}]

NoQuote == [status |-> "absent", lines |-> <<>>, invited |-> {},
            response |-> [s \in Suppliers |-> NoResponse], accepted |-> NoSupplier]

Idle == [op |-> "idle"]
Request == {Idle} \cup [op: {"respond", "accept", "draft"},
                        supplier: Suppliers, response: Response]

(* Mutant: a line without a price is ordered for nothing.                  *)
OrderLinesUnpriced(lines, response) ==
    [n \in DOMAIN lines |->
       [item |-> lines[n].item, quantity |-> lines[n].quantity,
        price |-> IF lines[n].item \in DOMAIN response
                  THEN response[lines[n].item] ELSE 0]]

(* The lines of the draft, by their place in the request: those the        *)
(* supplier named a price for.                                             *)
OrderLines(lines, response) ==
    [n \in {m \in DOMAIN lines : lines[m].item \in DOMAIN response} |->
       [item |-> lines[n].item, quantity |-> lines[n].quantity,
        price |-> response[lines[n].item]]]

OrderLine == [item: Items, quantity: Quantities, price: Prices]
Order == [supplier: Suppliers,
          lines: UNION {[D -> OrderLine] : D \in SUBSET (1..MaxLines)}]

TypeOK ==
    /\ quote \in Quote
    /\ past \in BOOLEAN
    /\ job \in {"none", "delayed", "fired", "lost"}
    /\ request \in [Clients -> Request]
    /\ orders \in Seq(Order)

Init ==
    /\ quote = NoQuote
    /\ past = FALSE
    /\ job = "none"
    /\ request = [c \in Clients |-> Idle]
    /\ orders = <<>>

Goto(c, r) == request' = [request EXCEPT ![c] = r]

-----------------------------------------------------------------------------
(* create: validUntil is in the future; the expiry job is enqueued with a  *)
(* delay, and a queue that does not take it is only logged.                *)
Create(lines, invited) ==
    /\ quote.status = "absent"
    /\ invited # {}
    /\ quote' = [NoQuote EXCEPT !.status = "open", !.lines = lines, !.invited = invited]
    /\ job' \in {"delayed", "none"}
    /\ UNCHANGED <<past, request, orders>>

DeadlinePasses ==
    /\ quote.status # "absent"
    /\ ~past
    /\ past' = TRUE
    /\ UNCHANGED <<quote, job, request, orders>>

(* submitResponse checks all of this on the document it read...            *)
ReadInvitation(c, s, response) ==
    /\ request[c] = Idle
    /\ quote.status = "open"
    /\ s \in quote.invited
    /\ quote.response[s] = NoResponse
    /\ ~past
    /\ DOMAIN response \subseteq Requested
    /\ Goto(c, [op |-> "respond", supplier |-> s, response |-> response])
    /\ UNCHANGED <<quote, past, job, orders>>

(* Mutant: the filter does not ask for an empty response.                  *)
RecordAgain(c) ==
    LET s == request[c].supplier IN
    /\ request[c].op = "respond"
    /\ quote' = IF quote.status = "open"
                THEN [quote EXCEPT !.response[s] = request[c].response]
                ELSE quote
    /\ Goto(c, Idle)
    /\ UNCHANGED <<past, job, orders>>

(* ...and setInvitationResponse asks again for an open request and an      *)
(* empty response, but not for the deadline.                               *)
RecordResponse(c) ==
    LET s == request[c].supplier IN
    /\ request[c].op = "respond"
    /\ quote' = IF quote.status = "open" /\ quote.response[s] = NoResponse
                THEN [quote EXCEPT !.response[s] = request[c].response]
                ELSE quote
    /\ Goto(c, Idle)
    /\ UNCHANGED <<past, job, orders>>

ReadForAccept(c, s) ==
    /\ request[c] = Idle
    /\ quote.status = "open"
    /\ s \in quote.invited
    /\ quote.response[s] # NoResponse
    /\ Goto(c, [op |-> "accept", supplier |-> s, response |-> quote.response[s]])
    /\ UNCHANGED <<quote, past, job, orders>>

(* Mutant: the filter does not ask for an open request.                    *)
AcceptUnchecked(c) ==
    /\ request[c].op = "accept"
    /\ quote' = [quote EXCEPT !.status = "closed", !.accepted = request[c].supplier]
    /\ Goto(c, [request[c] EXCEPT !.op = "draft"])
    /\ UNCHANGED <<past, job, orders>>

(* The winner goes on to draft the order, everybody else is told of the    *)
(* race.                                                                   *)
Accept(c) ==
    /\ request[c].op = "accept"
    /\ IF quote.status = "open" /\ quote.accepted = NoSupplier
       THEN /\ quote' = [quote EXCEPT !.status = "closed", !.accepted = request[c].supplier]
            /\ Goto(c, [request[c] EXCEPT !.op = "draft"])
       ELSE /\ Goto(c, Idle)
            /\ UNCHANGED quote
    /\ UNCHANGED <<past, job, orders>>

(* buildPoFromAcceptedQuote.  No warehouse, no supplier or no item any     *)
(* more, or any other error: the acceptance stays without a draft, which   *)
(* is GiveUp.                                                              *)
DraftOrder(c) ==
    /\ request[c].op = "draft"
    /\ orders' = Append(orders, [supplier |-> request[c].supplier,
                                 lines    |-> OrderLines(quote.lines, request[c].response)])
    /\ Goto(c, Idle)
    /\ UNCHANGED <<quote, past, job>>

(* Mutant: the filter does not ask for an open request.                    *)
CancelUnchecked ==
    /\ quote.status # "absent"
    /\ quote' = [quote EXCEPT !.status = "cancelled"]
    /\ UNCHANGED <<past, job, request, orders>>

Cancel ==
    /\ quote.status = "open"
    /\ quote' = [quote EXCEPT !.status = "cancelled"]
    /\ UNCHANGED <<past, job, request, orders>>

(* Mutant: the job is enqueued without its delay.                          *)
FireAtOnce ==
    /\ job = "delayed"
    /\ job' = "fired"
    /\ quote' = IF quote.status = "open" /\ past
                THEN [quote EXCEPT !.status = "closed"] ELSE quote
    /\ UNCHANGED <<past, request, orders>>

(* The queue keeps the job until the deadline; handleQuotationExpiry       *)
(* closes what is still open.                                              *)
FireExpiry ==
    /\ job = "delayed"
    /\ past
    /\ job' = "fired"
    /\ quote' = IF quote.status = "open"
                THEN [quote EXCEPT !.status = "closed"] ELSE quote
    /\ UNCHANGED <<past, request, orders>>

(* The scheduled queue makes one attempt: a job that fails is not run      *)
(* again.                                                                  *)
LoseExpiry ==
    /\ job = "delayed"
    /\ past
    /\ job' = "lost"
    /\ UNCHANGED <<quote, past, request, orders>>

GiveUp(c) ==
    /\ request[c] # Idle
    /\ Goto(c, Idle)
    /\ UNCHANGED <<quote, past, job, orders>>

ClientStep(c) ==
    \/ \E s \in Suppliers, r \in Response : ReadInvitation(c, s, r)
    \/ \E s \in Suppliers : ReadForAccept(c, s)
    \/ RecordResponse(c) \/ Accept(c) \/ DraftOrder(c)
    \/ GiveUp(c)

Next ==
    \/ \E l \in Lines, i \in SUBSET Suppliers : Create(l, i)
    \/ \E c \in Clients : ClientStep(c)
    \/ Cancel
    \/ DeadlinePasses \/ FireExpiry \/ LoseExpiry

Spec == Init /\ [][Next]_vars

(* A worker that is up takes a job that is due; nobody has to answer, to   *)
(* accept or to cancel.                                                    *)
FairSpec == Spec /\ WF_vars(FireExpiry)

-----------------------------------------------------------------------------
(* However many buyers accept at once, and whatever the deadline job and   *)
(* the suppliers do in between, at most one order is drafted, to the       *)
(* accepted supplier and at the prices that are on record for it: the      *)
(* invitation accept() read before its update is not stale when it is used *)
(* (quotation.service.ts accept, buildPoFromAcceptedQuote).                *)
OrderFollowsAcceptance ==
    /\ Len(orders) <= 1
    /\ \A n \in DOMAIN orders :
         /\ quote.status = "closed"
         /\ quote.accepted = orders[n].supplier
         /\ orders[n].lines = OrderLines(quote.lines, quote.response[quote.accepted])
         /\ DOMAIN orders[n].lines # {}

(* It is not inductive: a client that accepts or drafts holds the response *)
(* that is on record, and there is one that drafts, if any, between the    *)
(* acceptance and the order.                                               *)
RequestsOK ==
    \A c \in Clients :
        LET r == request[c] IN
        /\ r.op # "idle" => DOMAIN r.response \subseteq Requested
        /\ r.op \in {"accept", "draft"} => r.response = quote.response[r.supplier]
        /\ r.op = "draft" =>
             /\ quote.status = "closed"
             /\ quote.accepted = r.supplier
             /\ orders = <<>>
             /\ \A d \in Clients \ {c} : request[d].op # "draft"

ResponsesOK == \A s \in Suppliers : DOMAIN quote.response[s] \subseteq Requested

UnsettledIsClean ==
    /\ quote.status = "absent" => quote = NoQuote /\ \A c \in Clients : request[c] = Idle
    /\ quote.status \in {"absent", "open"} => quote.accepted = NoSupplier /\ orders = <<>>

InductiveInv ==
    /\ TypeOK
    /\ OrderFollowsAcceptance
    /\ RequestsOK
    /\ ResponsesOK
    /\ UnsettledIsClean

(* A response is recorded once, on an open request, and never replaced: a  *)
(* supplier's double submission, or one that races an acceptance, changes  *)
(* no price a buyer may have seen (quotation.repository.ts                 *)
(* setInvitationResponse).                                                 *)
AnswersAreFinal ==
    [][\A s \in Suppliers : quote'.response[s] # quote.response[s] =>
         /\ quote.response[s] = NoResponse
         /\ quote.status = "absent" \/ quote.status = "open"]_vars

(* A request that was accepted, cancelled or expired is settled: no late   *)
(* accept, cancel or expiry job settles it a second time (accept, cancel,  *)
(* handleQuotationExpiry).                                                 *)
SettledOnce ==
    [][quote.status \in {"closed", "cancelled"} =>
         quote'.status = quote.status /\ quote'.accepted = quote.accepted]_vars

(* An open request whose deadline is over is settled in the end, unless    *)
(* its job was never enqueued or was lost (create, handleQuotationExpiry). *)
Overdue == quote.status = "open" /\ past

ExpiresUnlessLost == Overdue ~> (~Overdue \/ job \in {"none", "lost"})
=============================================================================
