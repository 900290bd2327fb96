-------------------------- MODULE Quotation_proofs --------------------------
(***************************************************************************)
(* Proofs about Quotation: InductiveInv, and with it the type invariant,   *)
(* the safety invariant and the two action properties, for every number of *)
(* suppliers, items, lines and clients; and that what the comparison       *)
(* recommends costs what it says.                                          *)
(***************************************************************************)
EXTENDS QuotationComparison, FiniteSetTheorems, TLAPS

-----------------------------------------------------------------------------
(* The data.                                                               *)

LEMMA ResponseType ==
    ASSUME NEW r \in Response
    PROVE  /\ DOMAIN r \subseteq Items
           /\ DOMAIN r # {}
           /\ \A i \in DOMAIN r : r[i] \in Prices
           /\ r # NoResponse
<1>1. PICK D \in (SUBSET Items) \ {{}} : r \in [D -> Prices]
  BY DEF Response
<1>2. DOMAIN r = D /\ \A i \in D : r[i] \in Prices
  BY <1>1
<1>3. DOMAIN NoResponse = {}
  BY DEF NoResponse
<1> QED
  BY <1>1, <1>2, <1>3

LEMMA LinesType ==
    ASSUME NEW l \in Lines \cup {<<>>}
    PROVE  /\ DOMAIN l \subseteq 1..MaxLines
           /\ \A n \in DOMAIN l : l[n] \in [item: Items, quantity: Quantities]
<1>1. CASE l = <<>>
  BY <1>1
<1>2. CASE l \in Lines
  <2>1. PICK n \in 1..MaxLines : l \in [1..n -> [item: Items, quantity: Quantities]]
    BY <1>2 DEF Lines
  <2>2. DOMAIN l = 1..n /\ \A m \in 1..n : l[m] \in [item: Items, quantity: Quantities]
    BY <2>1
  <2>3. 1..n \subseteq 1..MaxLines
    BY <2>1, LinesAssumption
  <2> QED
    BY <2>2, <2>3
<1> QED
  BY <1>1, <1>2

(* The lines of an order are lines of the request with the prices of the   *)
(* response.                                                               *)
LEMMA OrderLinesType ==
    ASSUME NEW l \in Lines \cup {<<>>}, NEW r \in Response
    PROVE  OrderLines(l, r) \in UNION {[D -> OrderLine] : D \in SUBSET (1..MaxLines)}
<1> DEFINE D == {m \in DOMAIN l : l[m].item \in DOMAIN r}
           Line(n) == [item |-> l[n].item, quantity |-> l[n].quantity, price |-> r[l[n].item]]
<1>1. \A n \in D : Line(n) \in OrderLine
  BY LinesType, ResponseType DEF OrderLine
<1>2. D \in SUBSET (1..MaxLines)
  BY LinesType
<1>3. OrderLines(l, r) = [n \in D |-> Line(n)]
  BY DEF OrderLines
<1> HIDE DEF D, Line
<1>4. OrderLines(l, r) \in [D -> OrderLine]
  BY <1>1, <1>3
<1> QED
  BY <1>2, <1>4

(* A response that prices a requested item leads to an order of at least   *)
(* one line.                                                               *)
LEMMA OrderLinesNonEmpty ==
    ASSUME NEW r \in Response, DOMAIN r \subseteq Requested
    PROVE  DOMAIN OrderLines(quote.lines, r) # {}
<1>1. PICK i \in DOMAIN r : TRUE
  BY ResponseType
<1>2. PICK n \in DOMAIN quote.lines : quote.lines[n].item = i
  BY <1>1 DEF Requested
<1>3. n \in DOMAIN OrderLines(quote.lines, r)
  BY <1>1, <1>2 DEF OrderLines
<1> QED
  BY <1>3

LEMMA RequestCases ==
    ASSUME TypeOK, NEW c \in Clients
    PROVE  \/ request[c] = Idle
           \/ request[c] \in [op: {"respond", "accept", "draft"},
                              supplier: Suppliers, response: Response]
BY DEF TypeOK, Request

(* A client that is not idle.                                              *)
LEMMA BusyRequest ==
    ASSUME TypeOK, NEW c \in Clients, request[c].op # "idle"
    PROVE  /\ request[c] \in [op: {"respond", "accept", "draft"},
                              supplier: Suppliers, response: Response]
           /\ request[c].supplier \in Suppliers
           /\ request[c].response \in Response
           /\ request[c].op \in {"respond", "accept", "draft"}
BY RequestCases DEF Idle

LEMMA GotoType ==
    ASSUME TypeOK, NEW c \in Clients, NEW r \in Request, Goto(c, r)
    PROVE  /\ request' \in [Clients -> Request]
           /\ \A d \in Clients : request'[d] = IF d = c THEN r ELSE request[d]
BY DEF TypeOK, Goto

-----------------------------------------------------------------------------
(* What a step may do, one kind at a time.                                 *)

(* The condition RequestsOK puts on a single client.                       *)
RequestOK(c) ==
    LET r == request[c] IN
    /\ r.op # "idle" => DOMAIN r.response \subseteq Requested
    /\ r.op \in {"accept", "draft"} => r.response = quote.response[r.supplier]
    /\ r.op = "draft" =>
         /\ quote.status = "closed"
         /\ quote.accepted = r.supplier
         /\ orders = <<>>
         /\ \A d \in Clients \ {c} : request[d].op # "draft"

LEMMA NoQuoteType == NoQuote \in Quote
<1>1. \A s \in Suppliers : NoResponse \in Response \cup {NoResponse}
  OBVIOUS
<1>2. NoQuote.response \in [Suppliers -> Response \cup {NoResponse}]
  BY <1>1 DEF NoQuote
<1> QED
  BY <1>2 DEF NoQuote, Quote

(* A step that leaves the document and the orders alone and in which a     *)
(* client becomes idle.                                                    *)
LEMMA BecomesIdle ==
    ASSUME InductiveInv, NEW c \in Clients, Goto(c, Idle),
           UNCHANGED <<quote, past, job, orders>>, request[c] # Idle
    PROVE  InductiveInv'
<1> USE DEF InductiveInv
<1>1. Idle \in Request /\ Idle.op = "idle"
  BY DEF Request, Idle
<1>2. \A d \in Clients : request'[d] = IF d = c THEN Idle ELSE request[d]
  BY <1>1, GotoType
<1>3. TypeOK'
  BY <1>1, GotoType DEF TypeOK
<1>4. RequestsOK'
  BY <1>1, <1>2 DEF RequestsOK, Requested
<1>5. OrderFollowsAcceptance'
  BY DEF OrderFollowsAcceptance
<1>6. ResponsesOK'
  BY DEF ResponsesOK, Requested
<1>7. UnsettledIsClean'
  BY <1>2 DEF UnsettledIsClean
<1> QED
  BY <1>3, <1>4, <1>5, <1>6, <1>7

(* The document is settled while no client drafts.                         *)
LEMMA Settles ==
    ASSUME InductiveInv, quote.status = "open", NEW status \in {"closed", "cancelled"},
           quote' = [quote EXCEPT !.status = status],
           UNCHANGED <<request, orders>>, past' \in BOOLEAN,
           job' \in {"none", "delayed", "fired", "lost"}
    PROVE  InductiveInv'
<1> USE DEF InductiveInv
<1>1. /\ quote' \in Quote
      /\ quote'.lines = quote.lines
      /\ quote'.response = quote.response
      /\ quote'.status = status
  BY DEF TypeOK, Quote
<1>2. orders = <<>>
  BY DEF UnsettledIsClean
<1>3. TypeOK'
  BY <1>1 DEF TypeOK
<1>4. OrderFollowsAcceptance'
  BY <1>2 DEF OrderFollowsAcceptance
<1>5. \A c \in Clients : request[c].op # "draft"
  BY DEF RequestsOK
<1>6. RequestsOK'
  BY <1>1, <1>5 DEF RequestsOK, Requested
<1>7. ResponsesOK'
  BY <1>1 DEF ResponsesOK, Requested
<1>8. UnsettledIsClean'
  BY <1>1 DEF UnsettledIsClean
<1> QED
  BY <1>3, <1>4, <1>6, <1>7, <1>8

(* Only the clock or the job moves.                                        *)
LEMMA Ticks ==
    ASSUME InductiveInv, UNCHANGED <<quote, request, orders>>, past' \in BOOLEAN,
           job' \in {"none", "delayed", "fired", "lost"}
    PROVE  InductiveInv'
<1> USE DEF InductiveInv
<1>1. TypeOK'
  BY DEF TypeOK
<1>2. OrderFollowsAcceptance' /\ RequestsOK' /\ ResponsesOK' /\ UnsettledIsClean'
  BY DEF OrderFollowsAcceptance, RequestsOK, ResponsesOK, UnsettledIsClean, Requested
<1> QED
  BY <1>1, <1>2

-----------------------------------------------------------------------------
(* The actions.                                                            *)

LEMMA CreatePreserves ==
    ASSUME InductiveInv, NEW lines \in Lines, NEW invited \in SUBSET Suppliers,
           Create(lines, invited)
    PROVE  InductiveInv'
<1> USE DEF InductiveInv
<1>1. /\ quote = NoQuote
      /\ orders = <<>>
      /\ \A c \in Clients : request[c] = Idle
  BY DEF Create, UnsettledIsClean
<1>2. /\ quote' = [NoQuote EXCEPT !.status = "open", !.lines = lines, !.invited = invited]
      /\ job' \in {"delayed", "none"}
      /\ UNCHANGED <<past, request, orders>>
  BY DEF Create
<1>3. /\ quote'.status = "open"
      /\ quote'.accepted = NoSupplier
      /\ \A s \in Suppliers : quote'.response[s] = NoResponse
  BY <1>2 DEF NoQuote
<1>4. quote' \in Quote
  BY <1>2, NoQuoteType DEF Quote
<1>5. TypeOK'
  BY <1>2, <1>4 DEF TypeOK
<1>6. OrderFollowsAcceptance'
  BY <1>1, <1>2 DEF OrderFollowsAcceptance
<1>7. RequestsOK'
  BY <1>1, <1>2 DEF RequestsOK, Idle
<1>8. ResponsesOK'
  BY <1>3 DEF ResponsesOK, NoResponse
<1>9. UnsettledIsClean'
  BY <1>1, <1>2, <1>3 DEF UnsettledIsClean
<1> QED
  BY <1>5, <1>6, <1>7, <1>8, <1>9

(* Reading leaves the document alone; what the client keeps was checked.   *)
LEMMA ReadPreserves ==
    ASSUME InductiveInv, NEW c \in Clients, NEW s \in Suppliers, NEW r \in Response,
           NEW op \in {"respond", "accept"},
           quote.status = "open", DOMAIN r \subseteq Requested,
           op = "accept" => r = quote.response[s],
           Goto(c, [op |-> op, supplier |-> s, response |-> r]),
           UNCHANGED <<quote, past, job, orders>>
    PROVE  InductiveInv'
<1> USE DEF InductiveInv
<1> DEFINE new == [op |-> op, supplier |-> s, response |-> r]
<1>1. new \in Request
  BY DEF Request
<1>2. /\ request' \in [Clients -> Request]
      /\ \A d \in Clients : request'[d] = IF d = c THEN new ELSE request[d]
  BY <1>1, GotoType
<1>3. TypeOK'
  BY <1>2 DEF TypeOK
<1>4. OrderFollowsAcceptance'
  BY DEF OrderFollowsAcceptance
<1>5. RequestsOK'
  <2>1. \A d \in Clients : request[d].op # "draft"
    BY DEF RequestsOK
  <2>2. \A d \in Clients : request'[d].op # "draft"
    BY <1>2, <2>1
  <2>3. ASSUME NEW d \in Clients
        PROVE  /\ request'[d].op # "idle" => DOMAIN request'[d].response \subseteq Requested
               /\ request'[d].op \in {"accept", "draft"} =>
                    request'[d].response = quote.response[request'[d].supplier]
    BY <1>2, <2>1 DEF RequestsOK
  <2> QED
    BY <2>2, <2>3 DEF RequestsOK, Requested
<1>6. ResponsesOK'
  BY DEF ResponsesOK, Requested
<1>7. UnsettledIsClean'
  BY DEF UnsettledIsClean
<1> QED
  BY <1>3, <1>4, <1>5, <1>6, <1>7

LEMMA ReadInvitationPreserves ==
    ASSUME InductiveInv, NEW c \in Clients, NEW s \in Suppliers, NEW r \in Response,
           ReadInvitation(c, s, r)
    PROVE  InductiveInv'
BY ReadPreserves DEF ReadInvitation

LEMMA ReadForAcceptPreserves ==
    ASSUME InductiveInv, NEW c \in Clients, NEW s \in Suppliers, ReadForAccept(c, s)
    PROVE  InductiveInv'
<1>1. quote.response[s] \in Response
  BY DEF InductiveInv, TypeOK, Quote, ReadForAccept
<1>2. DOMAIN quote.response[s] \subseteq Requested
  BY DEF InductiveInv, ResponsesOK
<1> QED
  BY <1>1, <1>2, ReadPreserves DEF ReadForAccept

LEMMA RecordPreserves ==
    ASSUME InductiveInv, NEW c \in Clients, RecordResponse(c)
    PROVE  InductiveInv'
<1> USE DEF InductiveInv
<1> DEFINE s == request[c].supplier
           r == request[c].response
<1>1. /\ request[c].op = "respond"
      /\ request[c] # Idle
      /\ Goto(c, Idle)
      /\ UNCHANGED <<past, job, orders>>
  BY DEF RecordResponse, Idle
<1>2. s \in Suppliers /\ r \in Response /\ DOMAIN r \subseteq Requested
  BY <1>1, BusyRequest DEF RequestsOK
<1>3. CASE ~(quote.status = "open" /\ quote.response[s] = NoResponse)
  BY <1>1, <1>3, BecomesIdle DEF RecordResponse
<1>4. CASE quote.status = "open" /\ quote.response[s] = NoResponse
  <2> HIDE DEF s, r
  <2>1. quote' = [quote EXCEPT !.response[s] = r]
    BY <1>4 DEF RecordResponse, s, r
  <2>2. /\ quote' \in Quote
        /\ quote'.status = "open"
        /\ quote'.lines = quote.lines
        /\ quote'.accepted = quote.accepted
        /\ \A t \in Suppliers :
             quote'.response[t] = IF t = s THEN r ELSE quote.response[t]
    BY <1>2, <1>4, <2>1 DEF TypeOK, Quote
  <2>3. Idle \in Request /\ Idle.op = "idle"
    BY DEF Request, Idle
  <2>4. /\ request' \in [Clients -> Request]
        /\ \A d \in Clients : request'[d] = IF d = c THEN Idle ELSE request[d]
    BY <1>1, <2>3, GotoType
  <2>5. orders = <<>> /\ quote.accepted = NoSupplier
    BY <1>4 DEF UnsettledIsClean
  <2>6. \A d \in Clients : request[d].op # "draft"
    BY <1>4 DEF RequestsOK
  <2>7. TypeOK'
    BY <1>1, <2>2, <2>4 DEF TypeOK
  <2>8. OrderFollowsAcceptance'
    BY <1>1, <2>5 DEF OrderFollowsAcceptance
  <2>9. ASSUME NEW d \in Clients, request[d].op = "accept"
        PROVE  request[d].response = quote'.response[request[d].supplier]
    <3>1. /\ request[d].supplier \in Suppliers
          /\ request[d].response \in Response
          /\ request[d].response = quote.response[request[d].supplier]
      BY <2>9, BusyRequest DEF RequestsOK
    <3>2. request[d].supplier # s
      BY <1>4, <3>1, ResponseType
    <3> QED
      BY <2>2, <3>1, <3>2
  <2>10. RequestsOK'
    BY <2>2, <2>3, <2>4, <2>6, <2>9 DEF RequestsOK, Requested
  <2>11. ResponsesOK'
    BY <1>2, <2>2 DEF ResponsesOK, Requested
  <2>12. UnsettledIsClean'
    BY <1>1, <2>2, <2>5 DEF UnsettledIsClean
  <2> QED
    BY <2>7, <2>8, <2>10, <2>11, <2>12
<1> QED
  BY <1>3, <1>4

LEMMA AcceptPreserves ==
    ASSUME InductiveInv, NEW c \in Clients, Accept(c)
    PROVE  InductiveInv'
<1> USE DEF InductiveInv
<1> DEFINE s == request[c].supplier
           won == [request[c] EXCEPT !.op = "draft"]
<1>1. /\ request[c].op = "accept"
      /\ request[c] # Idle
      /\ UNCHANGED <<past, job, orders>>
  BY DEF Accept, Idle
<1>2. CASE ~(quote.status = "open" /\ quote.accepted = NoSupplier)
  BY <1>1, <1>2, BecomesIdle DEF Accept
<1>3. CASE quote.status = "open" /\ quote.accepted = NoSupplier
  <2>1. /\ quote' = [quote EXCEPT !.status = "closed", !.accepted = s]
        /\ Goto(c, won)
    BY <1>3 DEF Accept
  <2>2. /\ request[c] \in [op: {"respond", "accept", "draft"},
                           supplier: Suppliers, response: Response]
        /\ DOMAIN request[c].response \subseteq Requested
        /\ request[c].response = quote.response[s]
    BY <1>1, BusyRequest DEF RequestsOK
  <2>3. /\ won \in Request
        /\ won.op = "draft"
        /\ won.supplier = s
        /\ won.response = request[c].response
        /\ s \in Suppliers
    BY <2>2 DEF Request
  <2> HIDE DEF won, s
  <2>4. /\ quote' \in Quote
        /\ quote'.status = "closed"
        /\ quote'.accepted = s
        /\ quote'.lines = quote.lines
        /\ quote'.response = quote.response
    BY <2>1, <2>3 DEF TypeOK, Quote
  <2>5. /\ request' \in [Clients -> Request]
        /\ \A d \in Clients : request'[d] = IF d = c THEN won ELSE request[d]
    BY <2>1, <2>3, GotoType
  <2>6. orders = <<>> /\ \A d \in Clients : request[d].op # "draft"
    BY <1>3 DEF UnsettledIsClean, RequestsOK
  <2>7. TypeOK'
    BY <1>1, <2>4, <2>5 DEF TypeOK
  <2>8. OrderFollowsAcceptance'
    BY <1>1, <2>6 DEF OrderFollowsAcceptance
  <2>9. ASSUME NEW d \in Clients
        PROVE  RequestOK(d)'
    <3>1. CASE d = c
      BY <1>1, <2>2, <2>3, <2>4, <2>5, <2>6, <3>1 DEF RequestOK, Requested
    <3>2. CASE d # c
      <4>1. request'[d] = request[d] /\ request[d].op # "draft"
        BY <2>5, <2>6, <3>2
      <4> QED
        BY <2>4, <4>1 DEF RequestOK, RequestsOK, Requested
    <3> QED
      BY <3>1, <3>2
  <2>10. RequestsOK'
    BY <2>9 DEF RequestsOK, RequestOK
  <2>11. ResponsesOK'
    BY <2>4 DEF ResponsesOK, Requested
  <2>12. UnsettledIsClean'
    BY <2>4 DEF UnsettledIsClean
  <2> QED
    BY <2>7, <2>8, <2>10, <2>11, <2>12
<1> QED
  BY <1>2, <1>3

LEMMA DraftPreserves ==
    ASSUME InductiveInv, NEW c \in Clients, DraftOrder(c)
    PROVE  InductiveInv'
<1> USE DEF InductiveInv
<1> DEFINE s == request[c].supplier
           r == request[c].response
           order == [supplier |-> s, lines |-> OrderLines(quote.lines, r)]
<1>1. /\ request[c].op = "draft"
      /\ orders' = Append(orders, order)
      /\ Goto(c, Idle)
      /\ UNCHANGED <<quote, past, job>>
  BY DEF DraftOrder
<1>2. s \in Suppliers /\ r \in Response
  BY <1>1, BusyRequest
<1>3. /\ quote.status = "closed"
      /\ quote.accepted = s
      /\ r = quote.response[s]
      /\ orders = <<>>
      /\ \A d \in Clients \ {c} : request[d].op # "draft"
      /\ DOMAIN r \subseteq Requested
  BY <1>1 DEF RequestsOK
<1>4. order \in Order
  <2>1. quote.lines \in Lines \cup {<<>>}
    BY DEF TypeOK, Quote
  <2>2. OrderLines(quote.lines, r) \in UNION {[D -> OrderLine] : D \in SUBSET (1..MaxLines)}
    BY <1>2, <2>1, OrderLinesType
  <2> QED
    BY <1>2, <2>2 DEF Order
<1>5. DOMAIN order.lines # {}
  BY <1>2, <1>3, OrderLinesNonEmpty
<1>6. order.supplier = s /\ order.lines = OrderLines(quote.lines, quote.response[s])
  BY <1>3
<1> HIDE DEF order, s, r
<1>7. orders' = <<order>> /\ Len(orders') = 1 /\ DOMAIN orders' = {1} /\ orders'[1] = order
  BY <1>1, <1>3
<1>8. orders' \in Seq(Order)
  BY <1>4, <1>7
<1>9. Idle \in Request /\ Idle.op = "idle"
  BY DEF Request, Idle
<1>10. /\ request' \in [Clients -> Request]
       /\ \A d \in Clients : request'[d] = IF d = c THEN Idle ELSE request[d]
  BY <1>1, <1>9, GotoType
<1>11. TypeOK'
  BY <1>1, <1>8, <1>10 DEF TypeOK
<1>12. OrderFollowsAcceptance'
  BY <1>1, <1>3, <1>5, <1>6, <1>7 DEF OrderFollowsAcceptance
<1>13. RequestsOK'
  BY <1>1, <1>3, <1>9, <1>10 DEF RequestsOK, Requested
<1>14. ResponsesOK' /\ UnsettledIsClean'
  BY <1>1, <1>3 DEF ResponsesOK, UnsettledIsClean, Requested
<1> QED
  BY <1>11, <1>12, <1>13, <1>14

LEMMA GiveUpPreserves ==
    ASSUME InductiveInv, NEW c \in Clients, GiveUp(c)
    PROVE  InductiveInv'
BY BecomesIdle DEF GiveUp

LEMMA ClientPreserves ==
    ASSUME InductiveInv, NEW c \in Clients, ClientStep(c)
    PROVE  InductiveInv'
BY ReadInvitationPreserves, ReadForAcceptPreserves, RecordPreserves, AcceptPreserves,
   DraftPreserves, GiveUpPreserves DEF ClientStep

LEMMA CancelPreserves ==
    ASSUME InductiveInv, Cancel
    PROVE  InductiveInv'
<1>1. past' \in BOOLEAN /\ job' \in {"none", "delayed", "fired", "lost"}
  BY DEF Cancel, InductiveInv, TypeOK
<1> QED
  BY <1>1, Settles DEF Cancel

LEMMA ExpiryPreserves ==
    ASSUME InductiveInv, FireExpiry
    PROVE  InductiveInv'
<1>1. past' \in BOOLEAN /\ job' \in {"none", "delayed", "fired", "lost"}
  BY DEF FireExpiry, InductiveInv, TypeOK
<1>2. CASE quote.status = "open"
  BY <1>1, <1>2, Settles DEF FireExpiry
<1>3. CASE quote.status # "open"
  BY <1>1, <1>3, Ticks DEF FireExpiry
<1> QED
  BY <1>2, <1>3

LEMMA ClockPreserves ==
    ASSUME InductiveInv, DeadlinePasses \/ LoseExpiry \/ UNCHANGED vars
    PROVE  InductiveInv'
<1>1. past' \in BOOLEAN /\ job' \in {"none", "delayed", "fired", "lost"}
  BY DEF DeadlinePasses, LoseExpiry, vars, InductiveInv, TypeOK
<1> QED
  BY <1>1, Ticks DEF DeadlinePasses, LoseExpiry, vars

-----------------------------------------------------------------------------
(* The invariant.                                                          *)

LEMMA InitHolds ==
    ASSUME Init
    PROVE  InductiveInv
<1>1. /\ quote = NoQuote
      /\ orders = <<>>
      /\ \A c \in Clients : request[c] = Idle
      /\ \A s \in Suppliers : quote.response[s] = NoResponse
      /\ quote.status = "absent"
      /\ quote.accepted = NoSupplier
  BY DEF Init, NoQuote
<1>2. Idle \in Request /\ Idle.op = "idle" /\ DOMAIN NoResponse = {}
  BY DEF Idle, Request, NoResponse
<1>3. TypeOK
  <2>1. quote \in Quote
    BY <1>1, NoQuoteType
  <2>2. request \in [Clients -> Request]
    BY <1>2 DEF Init
  <2>3. orders \in Seq(Order)
    BY <1>1
  <2> QED
    BY <2>1, <2>2, <2>3 DEF Init, TypeOK
<1>4. OrderFollowsAcceptance
  BY <1>1 DEF OrderFollowsAcceptance
<1>5. RequestsOK
  BY <1>1, <1>2 DEF RequestsOK
<1>6. ResponsesOK
  BY <1>1, <1>2 DEF ResponsesOK
<1>7. UnsettledIsClean
  BY <1>1 DEF UnsettledIsClean
<1> QED
  BY <1>3, <1>4, <1>5, <1>6, <1>7 DEF InductiveInv

LEMMA NextPreserves ==
    ASSUME InductiveInv, [Next]_vars
    PROVE  InductiveInv'
<1>1. CASE \E l \in Lines, i \in SUBSET Suppliers : Create(l, i)
  BY <1>1, CreatePreserves
<1>2. CASE \E c \in Clients : ClientStep(c)
  BY <1>2, ClientPreserves
<1>3. CASE Cancel
  BY <1>3, CancelPreserves
<1>4. CASE FireExpiry
  BY <1>4, ExpiryPreserves
<1>5. CASE DeadlinePasses \/ LoseExpiry \/ UNCHANGED vars
  BY <1>5, ClockPreserves
<1> QED
  BY <1>1, <1>2, <1>3, <1>4, <1>5 DEF Next

(* Everything the clients rely on between their steps holds in every state *)
(* of a quotation (quotation.service.ts).                                  *)
THEOREM Invariance == Spec => []InductiveInv
BY InitHolds, NextPreserves, PTL DEF Spec

(* The document, the requests in flight and the drafted orders keep their  *)
(* types (quotationRequest.model.ts).                                      *)
THEOREM TypeCorrect == Spec => []TypeOK
<1>1. InductiveInv => TypeOK
  BY DEF InductiveInv
<1> QED
  BY <1>1, Invariance, PTL

(* At most one order is drafted, to the accepted supplier and at its       *)
(* recorded prices (quotation.service.ts accept,                           *)
(* buildPoFromAcceptedQuote).                                              *)
THEOREM OneOrder == Spec => []OrderFollowsAcceptance
<1>1. InductiveInv => OrderFollowsAcceptance
  BY DEF InductiveInv
<1> QED
  BY <1>1, Invariance, PTL

-----------------------------------------------------------------------------
(* The action properties.                                                  *)

LEMMA DocumentSteps ==
    ASSUME InductiveInv, [Next]_vars
    PROVE  \/ UNCHANGED quote
           \/ quote.status = "absent"
           \/ /\ quote.status = "open"
              /\ \E s \in Suppliers, r \in Response :
                   /\ quote.response[s] = NoResponse
                   /\ quote' = [quote EXCEPT !.response[s] = r]
           \/ quote.status = "open" /\ quote'.response = quote.response
<1>1. ASSUME NEW c \in Clients, ClientStep(c)
      PROVE  \/ UNCHANGED quote
             \/ /\ quote.status = "open"
                /\ \E s \in Suppliers, r \in Response :
                     /\ quote.response[s] = NoResponse
                     /\ quote' = [quote EXCEPT !.response[s] = r]
             \/ quote.status = "open" /\ quote'.response = quote.response
  <2>1. CASE RecordResponse(c)
    <3>1. request[c].supplier \in Suppliers /\ request[c].response \in Response
      BY <2>1, BusyRequest DEF RecordResponse, InductiveInv
    <3> QED
      BY <2>1, <3>1 DEF RecordResponse
  <2>2. CASE Accept(c)
    BY <2>2 DEF Accept, InductiveInv, TypeOK, Quote
  <2>3. CASE DraftOrder(c) \/ GiveUp(c)
    BY <2>3 DEF DraftOrder, GiveUp
  <2>4. CASE \E s \in Suppliers, r \in Response : ReadInvitation(c, s, r)
    BY <2>4 DEF ReadInvitation
  <2>5. CASE \E s \in Suppliers : ReadForAccept(c, s)
    BY <2>5 DEF ReadForAccept
  <2> QED
    BY <1>1, <2>1, <2>2, <2>3, <2>4, <2>5 DEF ClientStep
<1>2. CASE \E l \in Lines, i \in SUBSET Suppliers : Create(l, i)
  BY <1>2 DEF Create
<1>3. CASE Cancel \/ FireExpiry
  BY <1>3 DEF Cancel, FireExpiry, InductiveInv, TypeOK, Quote
<1>4. CASE DeadlinePasses \/ LoseExpiry \/ UNCHANGED vars
  BY <1>4 DEF DeadlinePasses, LoseExpiry, vars
<1> QED
  BY <1>1, <1>2, <1>3, <1>4 DEF Next

(* No step replaces a recorded response or records one on a request that   *)
(* is settled (quotation.repository.ts setInvitationResponse).             *)
THEOREM ResponsesKept == Spec => AnswersAreFinal
<1> DEFINE Final == \A s \in Suppliers : quote'.response[s] # quote.response[s] =>
                      /\ quote.response[s] = NoResponse
                      /\ quote.status = "absent" \/ quote.status = "open"
<1>1. ASSUME InductiveInv, [Next]_vars
      PROVE  [Final]_vars
  <2>1. CASE UNCHANGED quote
    BY <2>1
  <2>2. CASE quote.status = "absent"
    BY <1>1, <2>2 DEF InductiveInv, UnsettledIsClean, NoQuote
  <2>3. CASE /\ quote.status = "open"
             /\ \E s \in Suppliers, r \in Response :
                  /\ quote.response[s] = NoResponse
                  /\ quote' = [quote EXCEPT !.response[s] = r]
    <3>1. PICK s \in Suppliers, r \in Response :
               /\ quote.response[s] = NoResponse
               /\ quote' = [quote EXCEPT !.response[s] = r]
      BY <2>3
    <3>2. \A t \in Suppliers : t # s => quote'.response[t] = quote.response[t]
      BY <1>1, <3>1 DEF InductiveInv, TypeOK, Quote
    <3> QED
      BY <2>3, <3>1, <3>2
  <2>4. CASE quote.status = "open" /\ quote'.response = quote.response
    BY <2>4
  <2> QED
    BY <1>1, <2>1, <2>2, <2>3, <2>4, DocumentSteps
<1>2. []InductiveInv /\ [][Next]_vars => [][Final]_vars
  BY <1>1, PTL
<1> QED
  BY <1>2, Invariance, PTL DEF Spec, AnswersAreFinal

(* A settled request is not settled again (accept, cancel,                 *)
(* handleQuotationExpiry).                                                 *)
THEOREM SettledForGood == Spec => SettledOnce
<1> DEFINE Settled == quote.status \in {"closed", "cancelled"} =>
                        quote'.status = quote.status /\ quote'.accepted = quote.accepted
<1>1. ASSUME InductiveInv, [Next]_vars
      PROVE  [Settled]_vars
  BY <1>1, DocumentSteps
<1>2. []InductiveInv /\ [][Next]_vars => [][Settled]_vars
  BY <1>1, PTL
<1> QED
  BY <1>2, Invariance, PTL DEF Spec, SettledOnce

-----------------------------------------------------------------------------
(* The comparison.                                                         *)

(* The pairs a total counts are finitely many.                             *)
LEMMA UnitsFinite ==
    ASSUME NEW f, IsFiniteSet(DOMAIN f), \A x \in DOMAIN f : f[x] \in Nat
    PROVE  IsFiniteSet(UNION {{x} \X (1..f[x]) : x \in DOMAIN f})
<1> DEFINE Column == [x \in DOMAIN f |-> {x} \X (1..f[x])]
           Columns == {{x} \X (1..f[x]) : x \in DOMAIN f}
<1>1. Column \in Surjection(DOMAIN f, Columns)
  BY DEF Surjection
<1>2. IsFiniteSet(Columns)
  <2> HIDE DEF Column, Columns
  <2> QED
    BY <1>1, FS_Surjection
<1>3. ASSUME NEW x \in DOMAIN f
      PROVE  IsFiniteSet({x} \X (1..f[x]))
  <2>1. IsFiniteSet({x})
    BY FS_Singleton
  <2>2. 1 \in Int /\ f[x] \in Int
    OBVIOUS
  <2>3. IsFiniteSet(1..f[x])
    BY <2>2, FS_Interval
  <2> QED
    BY <2>1, <2>3, FS_Product
<1>4. \A T \in Columns : IsFiniteSet(T)
  BY <1>3
<1> QED
  <2> HIDE DEF Columns
  <2>1. IsFiniteSet(UNION Columns)
    BY <1>2, <1>4, FS_UNION
  <2> QED
    BY <2>1 DEF Columns

(* A total does not depend on what its terms are called.                   *)
LEMMA SameTotal ==
    ASSUME NEW f, NEW g, IsFiniteSet(DOMAIN f), \A x \in DOMAIN f : f[x] \in Nat,
           NEW h \in Bijection(DOMAIN f, DOMAIN g), \A x \in DOMAIN f : g[h[x]] = f[x]
    PROVE  Total(f) = Total(g)
<1> DEFINE F == UNION {{x} \X (1..f[x]) : x \in DOMAIN f}
           G == UNION {{x} \X (1..g[x]) : x \in DOMAIN g}
           k == [p \in F |-> <<h[p[1]], p[2]>>]
<1>1. \A p : p \in F <=> \E x \in DOMAIN f : \E u \in 1..f[x] : p = <<x, u>>
  OBVIOUS
<1>2. \A p : p \in G <=> \E x \in DOMAIN g : \E u \in 1..g[x] : p = <<x, u>>
  OBVIOUS
<1>3. /\ h \in [DOMAIN f -> DOMAIN g]
      /\ \A x, y \in DOMAIN f : h[x] = h[y] => x = y
      /\ \A z \in DOMAIN g : \E x \in DOMAIN f : h[x] = z
  BY DEF Bijection, Injection, Surjection, IsInjective
<1> HIDE DEF F, G
<1>4. k \in [F -> G]
  <2> SUFFICES ASSUME NEW p \in F
               PROVE  <<h[p[1]], p[2]>> \in G
    OBVIOUS
  <2>0. PICK x \in DOMAIN f : \E u \in 1..f[x] : p = <<x, u>>
    BY <1>1
  <2>1. PICK u \in 1..f[x] : p = <<x, u>>
    BY <2>0
  <2>2. h[x] \in DOMAIN g /\ g[h[x]] = f[x] /\ p[1] = x /\ p[2] = u
    BY <1>3, <2>1
  <2> QED
    BY <1>2, <2>2
<1>5. \A p, q \in F : k[p] = k[q] => p = q
  <2> SUFFICES ASSUME NEW p \in F, NEW q \in F, k[p] = k[q]
               PROVE  p = q
    OBVIOUS
  <2>a. PICK x \in DOMAIN f : \E u \in 1..f[x] : p = <<x, u>>
    BY <1>1
  <2>b. PICK y \in DOMAIN f : \E v \in 1..f[y] : q = <<y, v>>
    BY <1>1
  <2>1. PICK u \in 1..f[x] : p = <<x, u>>
    BY <2>a
  <2>2. PICK v \in 1..f[y] : q = <<y, v>>
    BY <2>b
  <2>3. k[p] = <<h[x], u>> /\ k[q] = <<h[y], v>>
    BY <2>1, <2>2
  <2>4. h[x] = h[y] /\ u = v
    BY <2>3
  <2> QED
    BY <1>3, <2>1, <2>2, <2>4
<1>6. \A r \in G : \E p \in F : k[p] = r
  <2> SUFFICES ASSUME NEW r \in G
               PROVE  \E p \in F : k[p] = r
    OBVIOUS
  <2>0. PICK z \in DOMAIN g : \E u \in 1..g[z] : r = <<z, u>>
    BY <1>2
  <2>1. PICK u \in 1..g[z] : r = <<z, u>>
    BY <2>0
  <2>2. PICK x \in DOMAIN f : h[x] = z
    BY <1>3
  <2>3. u \in 1..f[x]
    BY <2>2
  <2>4. <<x, u>> \in F
    BY <1>1, <2>3
  <2>5. k[<<x, u>>] = <<h[x], u>>
    BY <2>4
  <2> QED
    BY <2>1, <2>2, <2>4, <2>5
<1>7. k \in Bijection(F, G)
  <2> HIDE DEF k
  <2> QED
    BY <1>4, <1>5, <1>6 DEF Bijection, Injection, Surjection, IsInjective
<1>8. IsFiniteSet(F)
  BY UnitsFinite DEF F
<1>9. Cardinality(G) = Cardinality(F)
  <2> HIDE DEF k
  <2> QED
    BY <1>7, <1>8, FS_Bijection DEF ExistsBijection
<1> QED
  BY <1>9 DEF Total, F, G

(* A response that is complete by number prices every item of a request    *)
(* that names no item twice.                                               *)
LEMMA CompleteIs ==
    ASSUME InductiveInv, NEW s \in Suppliers, IsComplete(s)
    PROVE  /\ IsFiniteSet(DOMAIN quote.lines)
           /\ DOMAIN quote.response[s] = Requested
           /\ \A m, n \in DOMAIN quote.lines : quote.lines[m].item = quote.lines[n].item => m = n
<1>1. PICK lines \in Lines \cup {<<>>} : lines = quote.lines
  BY DEF InductiveInv, TypeOK, Quote
<1>2. PICK r \in Response : r = quote.response[s]
  BY DEF InductiveInv, TypeOK, Quote, IsComplete
<1>3. DOMAIN r # {} /\ DOMAIN r \subseteq Requested
  BY <1>2, ResponseType DEF InductiveInv, ResponsesOK
<1>4. lines # <<>>
  BY <1>1, <1>3 DEF Requested
<1>5. PICK n \in 1..MaxLines : lines \in [1..n -> [item: Items, quantity: Quantities]]
  BY <1>1, <1>4 DEF Lines
<1>6. n \in Nat /\ n > 0 /\ Len(lines) = n /\ DOMAIN lines = 1..n
  BY <1>5, LinesAssumption
<1>7. IsFiniteSet(1..n) /\ Cardinality(1..n) = n
  BY <1>6, FS_Interval
<1> DEFINE item == [m \in 1..n |-> lines[m].item]
<1>8. item \in Surjection(1..n, Requested)
  BY <1>1, <1>6 DEF Requested, Surjection
<1> HIDE DEF item
<1>9. /\ IsFiniteSet(Requested)
      /\ Cardinality(Requested) <= n
      /\ Cardinality(Requested) = n => item \in Injection(1..n, Requested)
  BY <1>7, <1>8, FS_Surjection
<1>10. Cardinality(DOMAIN r) = n
  BY <1>1, <1>2, <1>6 DEF IsComplete
<1>11. /\ Cardinality(DOMAIN r) <= Cardinality(Requested)
       /\ Cardinality(Requested) = Cardinality(DOMAIN r) => Requested = DOMAIN r
  BY <1>3, <1>9, FS_Subset
<1>12. Cardinality(Requested) \in Nat
  BY <1>9, FS_CardinalityType
<1>13. Cardinality(Requested) = n
  BY <1>6, <1>9, <1>10, <1>11, <1>12
<1>14. \A a, b \in 1..n : item[a] = item[b] => a = b
  BY <1>9, <1>13 DEF Injection, IsInjective
<1>15. \A a, b \in 1..n : lines[a].item = lines[b].item => a = b
  BY <1>14 DEF item
<1> QED
  BY <1>1, <1>2, <1>6, <1>7, <1>10, <1>11, <1>13, <1>15

(* Where no item is named twice, its quantity is that of its line.         *)
LEMMA QuantityIs ==
    ASSUME InductiveInv, NEW s \in Suppliers, IsComplete(s), NEW n \in DOMAIN quote.lines
    PROVE  LineQuantity(quote.lines[n].item) = quote.lines[n].quantity
<1> DEFINE asked == {m \in DOMAIN quote.lines : quote.lines[m].item = quote.lines[n].item}
<1>1. asked = {n}
  BY CompleteIs
<1>2. n \in Nat
  <2>1. DOMAIN quote.lines \subseteq 1..MaxLines
    BY LinesType DEF InductiveInv, TypeOK, Quote
  <2> QED
    BY <2>1, LinesAssumption
<1>3. Max({n}) = n
  BY <1>2 DEF Max
<1> QED
  BY <1>1, <1>3 DEF LineQuantity

(* Whatever is asked for, on whatever lines, and whoever answers: a        *)
(* response that is recommended prices every line, and the order that its  *)
(* acceptance drafts costs what the comparison showed (compareQuotes,      *)
(* buildPoFromAcceptedQuote).                                              *)
THEOREM RecommendationIsKept == Spec => []RecommendationHolds
<1> SUFFICES ASSUME InductiveInv
             PROVE  RecommendationHolds
  BY Invariance, PTL
<1> SUFFICES ASSUME NEW s \in Recommended
             PROVE  LET lines == OrderLines(quote.lines, quote.response[s]) IN
                    /\ DOMAIN lines = DOMAIN quote.lines
                    /\ OrderTotal(lines) = TotalCost(s)
  BY DEF RecommendationHolds
<1>1. s \in Suppliers /\ IsComplete(s)
  BY DEF InductiveInv, TypeOK, Quote, Recommended
<1>2. PICK L \in Lines \cup {<<>>} : L = quote.lines
  BY DEF InductiveInv, TypeOK, Quote
<1>3. PICK r \in Response : r = quote.response[s]
  BY <1>1 DEF InductiveInv, TypeOK, Quote, IsComplete
<1>4. /\ IsFiniteSet(DOMAIN L)
      /\ DOMAIN r = {L[n].item : n \in DOMAIN L}
      /\ \A m, n \in DOMAIN L : L[m].item = L[n].item => m = n
  BY <1>1, <1>2, <1>3, CompleteIs DEF Requested
<1>5. PICK lines : lines = OrderLines(L, r)
  OBVIOUS
<1>6. /\ DOMAIN lines = DOMAIN L
      /\ \A n \in DOMAIN L : lines[n].quantity = L[n].quantity /\ lines[n].price = r[L[n].item]
  BY <1>4, <1>5 DEF OrderLines
<1> DEFINE f == [n \in DOMAIN lines |-> lines[n].quantity * lines[n].price]
           g == [i \in DOMAIN r |-> LineQuantity(i) * r[i]]
           h == [n \in DOMAIN L |-> L[n].item]
<1>7. DOMAIN f = DOMAIN L /\ DOMAIN g = DOMAIN r
  BY <1>6
<1>8. \A n \in DOMAIN f : f[n] \in Nat
  <2> SUFFICES ASSUME NEW n \in DOMAIN L
               PROVE  L[n].quantity * r[L[n].item] \in Nat
    BY <1>6
  <2>1. L[n].quantity \in Nat
    BY LinesType, QuantitiesAssumption
  <2>2. r[L[n].item] \in Nat
    BY <1>4, ResponseType, PricesAssumption
  <2> QED
    BY <2>1, <2>2
<1>9. h \in Bijection(DOMAIN f, DOMAIN g)
  BY <1>4, <1>7 DEF Bijection, Injection, Surjection, IsInjective
<1>10. \A n \in DOMAIN f : g[h[n]] = f[n]
  <2> SUFFICES ASSUME NEW n \in DOMAIN L
               PROVE  LineQuantity(L[n].item) * r[L[n].item] = lines[n].quantity * lines[n].price
    BY <1>4, <1>6, <1>7
  <2>1. LineQuantity(L[n].item) = L[n].quantity
    BY <1>1, <1>2, QuantityIs
  <2> QED
    BY <1>6, <2>1
<1>11. Total(f) = Total(g)
  <2> HIDE DEF f, g, h
  <2> QED
    BY <1>4, <1>7, <1>8, <1>9, <1>10, SameTotal
<1>12. OrderTotal(lines) = TotalCost(s)
  BY <1>3, <1>11 DEF OrderTotal, TotalCost
<1> QED
  BY <1>2, <1>3, <1>5, <1>6, <1>12
=============================================================================
