------------------------ MODULE PurchaseOrder_proofs ------------------------
(***************************************************************************)
(* Proofs about PurchaseOrder: the inductive invariant, and with it the    *)
(* type invariant, the three safety invariants and the two action          *)
(* properties, for every number of lines, clients and edits.               *)
(***************************************************************************)
EXTENDS PurchaseOrder, TLAPS

RequestsOK == \A c \in Clients : RequestOK(request[c])

Moves == {"submit", "approve", "reject", "send", "cancel", "close", "reopen"}

-----------------------------------------------------------------------------
(* The transition table, and the requests that follow it.                  *)

LEMMA TargetDomain == DOMAIN Target = Moves
BY DEF Target, Moves

LEMMA TargetType == \A op \in Moves : Target[op] \in State
BY DEF Target, Moves, State

LEMMA OrderType ==
    ASSUME NEW o \in Order
    PROVE  o \in [Lines -> Nat] /\ \E l \in Lines : o[l] > 0
<1>1. Quantities \cup {0} \subseteq Nat
  BY QuantitiesAssumption
<1>2. o \in [Lines -> Quantities \cup {0}] /\ \E l \in Lines : o[l] # 0
  BY DEF Order
<1> QED
  BY <1>1, <1>2

LEMMA NoneType == None \in [Lines -> Nat] /\ \A l \in Lines : None[l] = 0
BY DEF None

LEMMA IdleOK == IsRequest(Idle) /\ RequestOK(Idle)
BY TargetDomain DEF IsRequest, RequestOK, Idle, Moves

LEMMA GotoOK ==
    ASSUME TypeOK, RequestsOK, NEW c \in Clients, NEW r, Goto(c, r),
           IsRequest(r), RequestOK(r)
    PROVE  /\ DOMAIN request' = Clients
           /\ \A d \in Clients : IsRequest(request'[d])
           /\ \A d \in Clients : RequestOK(request'[d])
<1>1. /\ DOMAIN request' = Clients
      /\ \A d \in Clients : request'[d] = IF d = c THEN r ELSE request[d]
  BY DEF Goto, TypeOK
<1> QED
  BY <1>1 DEF TypeOK, RequestsOK

(* What a request in the middle of a move has read.                        *)
LEMMA MoveParts ==
    ASSUME TypeOK, RequestsOK, NEW c \in Clients,
           request[c].op \in Moves \cup {"render"}
    PROVE  /\ request[c] \in [op: Moves \cup {"render"}, from: State,
                              submission: Nat, pdf: BOOLEAN]
           /\ Destination(request[c]) \in Transitions[request[c].from]
<1>1. IsRequest(request[c]) /\ RequestOK(request[c])
  BY DEF TypeOK, RequestsOK
<1>2. request[c] \in [op: Moves \cup {"render"}, from: State,
                      submission: Nat, pdf: BOOLEAN]
  BY <1>1, TargetDomain DEF IsRequest, Moves
<1> QED
  BY <1>1, <1>2, TargetDomain DEF RequestOK

LEMMA ReceiveParts ==
    ASSUME TypeOK, RequestsOK, NEW c \in Clients, request[c].op = "receive"
    PROVE  /\ request[c].base \in Po
           /\ request[c].goods \in [Lines -> Nat]
           /\ request[c].base.state \in Receivable
           /\ \E l \in Lines : request[c].goods[l] > 0
           /\ \A l \in Lines : request[c].goods[l] <=
                request[c].base.ordered[l] - request[c].base.received[l]
<1>1. IsRequest(request[c]) /\ RequestOK(request[c])
  BY DEF TypeOK, RequestsOK
<1>2. request[c] \in [op: {"receive"}, base: Po, goods: [Lines -> Nat]]
  BY <1>1, TargetDomain DEF IsRequest, Moves
<1> QED
  BY <1>1, <1>2 DEF RequestOK

-----------------------------------------------------------------------------
(* What the writes do, one kind at a time.  The order only ever changes in *)
(* five ways.                                                              *)

(* A PDF key is stored, or nothing happens to the order.                   *)
Kept ==
    /\ UNCHANGED <<receipts, overtaken>>
    /\ po' = po \/ po' = [po EXCEPT !.pdf = TRUE]

Created ==
    /\ po.state = "absent"
    /\ \E order \in Order : po' = [NoPo EXCEPT !.state = "draft", !.ordered = order]
    /\ UNCHANGED <<receipts, overtaken>>

(* The state moves along the table; of the rest only the approval block    *)
(* and the PDF key change, and with them the decision.                     *)
Decided(state) ==
    IF state = "pending_approval" THEN "none"
    ELSE IF state = "approved" THEN "approved"
    ELSE IF state = "rejected" THEN "rejected"
    ELSE po.decision

Moved ==
    /\ po' \in Po
    /\ po'.state \in Transitions[po.state]
    /\ po'.ordered = po.ordered
    /\ po'.received = po.received
    /\ po'.decision = Decided(po'.state)
    /\ po'.state \notin {"partially_received", "fully_received"}
    /\ UNCHANGED <<receipts, overtaken>>

Rewritten ==
    /\ po' = Amended \/ \E order \in Order : po' = Edited(order)
    /\ overtaken' = (overtaken \/ po.state \notin Editable)
    /\ UNCHANGED receipts

Arrived ==
    \E goods \in [Lines -> Nat] :
        /\ po.state \in Receivable
        /\ \E l \in Lines : goods[l] > 0
        /\ \A l \in Lines : goods[l] <= po.ordered[l] - po.received[l]
        /\ LET after == Received(po, goods) IN
             po' = [po EXCEPT !.received = after,
                              !.state = IF Complete(po.ordered, after)
                                        THEN "fully_received" ELSE "partially_received"]
        /\ receipts' = [l \in Lines |-> receipts[l] + goods[l]]
        /\ UNCHANGED overtaken

Effect == Kept \/ Created \/ Moved \/ Rewritten \/ Arrived

(* A transition that finds the state it read moves the order; another one  *)
(* leaves it alone.                                                        *)
LEMMA TransitionMoves ==
    ASSUME TypeOK, RequestsOK, NEW c \in Clients, NEW op \in Moves,
           NEW written \in Po,
           written.ordered = po.ordered, written.received = po.received,
           written.decision = Decided(Target[op]),
           Transition(c, op, written)
    PROVE  (Kept \/ Moved) /\ Goto(c, Idle)
<1>1. request[c].op = op /\ Goto(c, Idle) /\ UNCHANGED <<receipts, overtaken>>
  BY DEF Transition
<1>2. Target[op] \in Transitions[request[c].from]
  BY <1>1, MoveParts DEF Destination, Moves
<1>3. CASE po.state # request[c].from
  BY <1>1, <1>3 DEF Transition, Kept
<1>4. CASE po.state = request[c].from
  <2>1. po' = [written EXCEPT !.state = Target[op]]
    BY <1>4 DEF Transition
  <2>2. Target[op] \in State
    BY TargetType
  <2>3. /\ po' \in Po
        /\ po'.state = Target[op]
        /\ po'.ordered = po.ordered
        /\ po'.received = po.received
        /\ po'.decision = written.decision
    BY <2>1, <2>2 DEF Po
  <2>4. Target[op] \notin {"partially_received", "fully_received"}
    BY DEF Target, Moves
  <2>5. po'.decision = Decided(po'.state)
    BY <2>3
  <2> QED
    BY <1>1, <1>2, <1>4, <2>3, <2>4, <2>5 DEF Moved
<1> QED
  BY <1>1, <1>3, <1>4

-----------------------------------------------------------------------------
(* Every step is one of these writes, and leaves the requests in order.    *)

RequestsOKNext ==
    /\ DOMAIN request' = Clients
    /\ \A d \in Clients : IsRequest(request'[d])
    /\ \A d \in Clients : RequestOK(request'[d])

LEMMA BackToIdle ==
    ASSUME TypeOK, RequestsOK, NEW c \in Clients, Goto(c, Idle)
    PROVE  RequestsOKNext
BY IdleOK, GotoOK DEF RequestsOKNext

(* The requests that end in transitionState.                               *)
LEMMA DecidedMove ==
    ASSUME TypeOK, RequestsOK, NEW c \in Clients,
           Submit(c) \/ Approve(c) \/ Reject(c) \/ Send(c)
    PROVE  (Kept \/ Moved) /\ RequestsOKNext /\ rendering' \in BOOLEAN
<1>1. po \in Po /\ rendering \in BOOLEAN
  BY DEF TypeOK
<1>2. CASE Submit(c)
  <2> DEFINE written == [po EXCEPT !.submission = @ + 1, !.decision = "none"]
  <2>1. Transition(c, "submit", written) /\ UNCHANGED rendering
    BY <1>2 DEF Submit
  <2>2. /\ written \in Po
        /\ written.ordered = po.ordered /\ written.received = po.received
        /\ written.decision = "none"
    <3>1. po.submission + 1 \in Nat
      BY <1>1 DEF Po
    <3> QED
      BY <1>1, <3>1 DEF Po
  <2>3. Decided(Target["submit"]) = "none"
    BY DEF Decided, Target
  <2> HIDE DEF written
  <2>4. (Kept \/ Moved) /\ Goto(c, Idle)
    BY <2>1, <2>2, <2>3, TransitionMoves DEF Moves
  <2> QED
    BY <1>1, <2>1, <2>4, BackToIdle
<1>3. CASE Approve(c)
  <2> DEFINE written == [po EXCEPT !.submission = request[c].submission,
                                   !.decision = "approved"]
  <2>1. /\ Transition(c, "approve", written)
        /\ rendering' = (rendering \/ po.state = request[c].from)
        /\ request[c].op = "approve"
    BY <1>3 DEF Approve, Transition
  <2>2. request[c].submission \in Nat
    BY <2>1, MoveParts DEF Moves
  <2>3. /\ written \in Po
        /\ written.ordered = po.ordered /\ written.received = po.received
        /\ written.decision = "approved"
    BY <1>1, <2>2 DEF Po
  <2>4. Decided(Target["approve"]) = "approved"
    BY DEF Decided, Target
  <2>5. rendering' \in BOOLEAN
    BY <2>1
  <2> QED
    BY <2>1, <2>3, <2>4, <2>5, TransitionMoves, BackToIdle DEF Moves
<1>4. CASE Reject(c)
  <2> DEFINE written == [po EXCEPT !.submission = request[c].submission,
                                   !.decision = "rejected"]
  <2>1. /\ Transition(c, "reject", written)
        /\ UNCHANGED rendering
        /\ request[c].op = "reject"
    BY <1>4 DEF Reject, Transition
  <2>2. request[c].submission \in Nat
    BY <2>1, MoveParts DEF Moves
  <2>3. /\ written \in Po
        /\ written.ordered = po.ordered /\ written.received = po.received
        /\ written.decision = "rejected"
    BY <1>1, <2>2 DEF Po
  <2>4. Decided(Target["reject"]) = "rejected"
    BY DEF Decided, Target
  <2> QED
    BY <1>1, <2>1, <2>3, <2>4, TransitionMoves, BackToIdle DEF Moves
<1>5. CASE Send(c)
  <2> DEFINE written == [po EXCEPT !.pdf = request[c].pdf]
  <2>1. /\ Transition(c, "send", written)
        /\ UNCHANGED rendering
        /\ request[c].op = "send"
    BY <1>5 DEF Send, Transition
  <2>2. request[c].pdf \in BOOLEAN
    BY <2>1, MoveParts DEF Moves
  <2>3. /\ written \in Po
        /\ written.ordered = po.ordered /\ written.received = po.received
        /\ written.decision = po.decision
    BY <1>1, <2>2 DEF Po
  <2>4. Decided(Target["send"]) = po.decision
    BY DEF Decided, Target
  <2> QED
    BY <1>1, <2>1, <2>3, <2>4, TransitionMoves, BackToIdle DEF Moves
<1> QED
  BY <1>2, <1>3, <1>4, <1>5

LEMMA PlainMove ==
    ASSUME TypeOK, RequestsOK, NEW c \in Clients,
           Cancel(c) \/ Close(c) \/ Reopen(c)
    PROVE  (Kept \/ Moved) /\ RequestsOKNext /\ rendering' \in BOOLEAN
<1>1. PICK op \in {"cancel", "close", "reopen"} : Transition(c, op, po)
  BY DEF Cancel, Close, Reopen
<1>2. po \in Po /\ rendering' \in BOOLEAN
  BY DEF TypeOK, Cancel, Close, Reopen
<1>3. op \in Moves /\ Decided(Target[op]) = po.decision
  BY DEF Moves, Decided, Target
<1> QED
  BY <1>1, <1>2, <1>3, TransitionMoves, BackToIdle

(* Reading the order, rendering it, giving up.                             *)
LEMMA QuietStep ==
    ASSUME TypeOK, RequestsOK, NEW c \in Clients,
           \/ \E op \in Requests : Read(c, op)
           \/ RenderBeforeSend(c) \/ ReadForDownload(c) \/ RenderDownload(c)
           \/ ReadForEdit(c) \/ GiveUp(c)
           \/ \E goods \in Order : BeginReceive(c, goods)
    PROVE  Kept /\ RequestsOKNext /\ rendering' \in BOOLEAN
<1>1. /\ Kept
      /\ rendering' \in BOOLEAN
  BY DEF TypeOK, Kept, Read, RenderBeforeSend, ReadForDownload, RenderDownload,
         ReadForEdit, GiveUp, BeginReceive, StorePdf
<1>2. po \in Po
  BY DEF TypeOK
<1>3. ASSUME NEW op \in Requests, Read(c, op) PROVE RequestsOKNext
  <2> DEFINE r == [op |-> IF op = "send" THEN "render" ELSE op, from |-> po.state,
                   submission |-> po.submission, pdf |-> po.pdf]
  <2>1. op \in Moves
    BY TargetDomain DEF Requests
  <2>2. /\ r \in [op: Moves \cup {"render"}, from: State, submission: Nat, pdf: BOOLEAN]
        /\ r.op # "receive"
    BY <1>2, <2>1 DEF Po, Moves
  <2>3. IsRequest(r)
    BY <2>2, TargetDomain DEF IsRequest
  <2>4. Destination(r) = Target[op]
    BY <2>1 DEF Destination, Target, Moves
  <2>5. RequestOK(r)
    BY <1>3, <2>2, <2>4 DEF RequestOK, Read, CanTransition
  <2>6. Goto(c, r)
    BY <1>3 DEF Read
  <2> HIDE DEF r
  <2> QED
    BY <2>3, <2>5, <2>6, GotoOK DEF RequestsOKNext
<1>4. CASE RenderBeforeSend(c)
  <2> DEFINE r == [request[c] EXCEPT !.op = "send"]
  <2>1. request[c].op = "render" /\ Goto(c, r)
    BY <1>4 DEF RenderBeforeSend
  <2>2. /\ request[c] \in [op: Moves \cup {"render"}, from: State,
                           submission: Nat, pdf: BOOLEAN]
        /\ Destination(request[c]) \in Transitions[request[c].from]
    BY <2>1, MoveParts
  <2>3. /\ r \in [op: Moves \cup {"render"}, from: State, submission: Nat, pdf: BOOLEAN]
        /\ r.op = "send"
        /\ r.from = request[c].from
    BY <2>2 DEF Moves
  <2>4. Destination(r) = Destination(request[c])
    BY <2>1, <2>3 DEF Destination, Target
  <2>5. IsRequest(r) /\ RequestOK(r)
    BY <2>2, <2>3, <2>4, TargetDomain DEF IsRequest, RequestOK
  <2> HIDE DEF r
  <2> QED
    BY <1>1, <2>1, <2>5, GotoOK DEF RequestsOKNext
<1>5. CASE ReadForDownload(c) \/ ReadForEdit(c)
  <2>1. PICK op \in {"download", "edit"} : Goto(c, [op |-> op])
    BY <1>5 DEF ReadForDownload, ReadForEdit
  <2>2. IsRequest([op |-> op]) /\ RequestOK([op |-> op])
    BY TargetDomain DEF IsRequest, RequestOK, Moves
  <2> QED
    BY <1>1, <2>1, <2>2, GotoOK DEF RequestsOKNext
<1>6. CASE RenderDownload(c) \/ GiveUp(c)
  BY <1>1, <1>6, BackToIdle DEF RenderDownload, GiveUp
<1>7. ASSUME NEW goods \in Order, BeginReceive(c, goods) PROVE RequestsOKNext
  <2> DEFINE r == [op |-> "receive", base |-> po, goods |-> goods]
  <2>1. IsRequest(r)
    BY <1>2, OrderType DEF IsRequest
  <2>2. RequestOK(r)
    BY <1>7, OrderType, TargetDomain DEF RequestOK, BeginReceive, Moves
  <2>3. Goto(c, r)
    BY <1>7 DEF BeginReceive
  <2> HIDE DEF r
  <2> QED
    BY <2>1, <2>2, <2>3, GotoOK DEF RequestsOKNext
<1> QED
  BY <1>1, <1>3, <1>4, <1>5, <1>6, <1>7

LEMMA EditStep ==
    ASSUME TypeOK, RequestsOK, NEW c \in Clients, WriteEdit(c)
    PROVE  Rewritten /\ RequestsOKNext /\ rendering' \in BOOLEAN
<1>1. Rewritten /\ rendering' \in BOOLEAN
  BY DEF TypeOK, Rewritten, WriteEdit
<1>2. CASE po.state = "rejected"
  <2> DEFINE r == [op |-> "reopen", from |-> "rejected",
                   submission |-> po.submission, pdf |-> po.pdf]
  <2>1. /\ r \in [op: Moves \cup {"render"}, from: State, submission: Nat, pdf: BOOLEAN]
        /\ r.op = "reopen" /\ r.from = "rejected"
    BY DEF TypeOK, Po, Moves, State
  <2>2. Destination(r) \in Transitions[r.from]
    BY DEF Destination, Target, Transitions
  <2>3. IsRequest(r) /\ RequestOK(r)
    BY <2>1, <2>2, TargetDomain DEF IsRequest, RequestOK
  <2>4. Goto(c, r)
    BY <1>2 DEF WriteEdit
  <2> HIDE DEF r
  <2> QED
    BY <1>1, <2>3, <2>4, GotoOK DEF RequestsOKNext
<1>3. CASE po.state # "rejected"
  BY <1>1, <1>3, BackToIdle DEF WriteEdit
<1> QED
  BY <1>2, <1>3

LEMMA ReceiveStep ==
    ASSUME TypeOK, RequestsOK, NEW c \in Clients, CommitReceive(c)
    PROVE  Arrived /\ RequestsOKNext /\ rendering' \in BOOLEAN
<1>1. Arrived
  BY ReceiveParts DEF CommitReceive, Arrived
<1>2. Goto(c, Idle) /\ rendering' \in BOOLEAN
  BY DEF TypeOK, CommitReceive
<1> QED
  BY <1>1, <1>2, BackToIdle

LEMMA EveryStep ==
    ASSUME TypeOK, RequestsOK, [Next]_vars
    PROVE  Effect /\ RequestsOKNext /\ rendering' \in BOOLEAN
<1>1. CASE \E c \in Clients : ClientStep(c)
  <2>1. PICK c \in Clients : ClientStep(c)
    BY <1>1
  <2> QED
    BY <2>1, DecidedMove, PlainMove, QuietStep, EditStep, ReceiveStep
       DEF ClientStep, Effect
<1>2. CASE \E order \in Order : Create(order)
  <2>1. Created /\ UNCHANGED <<request, rendering>>
    BY <1>2 DEF Create, Created
  <2> QED
    BY <2>1 DEF TypeOK, RequestsOK, RequestsOKNext, Effect
<1>3. CASE RenderApproved
  BY <1>3 DEF RenderApproved, StorePdf, Kept, TypeOK, RequestsOK, RequestsOKNext, Effect
<1>4. CASE UNCHANGED vars
  BY <1>4 DEF vars, Kept, TypeOK, RequestsOK, RequestsOKNext, Effect
<1> QED
  BY <1>1, <1>2, <1>3, <1>4 DEF Next

-----------------------------------------------------------------------------
(* Each write keeps the order well-typed.                                  *)

LEMMA CreatedType ==
    ASSUME Created
    PROVE  /\ po' \in Po
           /\ po'.state = "draft" /\ po'.decision = "none" /\ po'.received = None
<1>1. PICK order \in Order : po' = [NoPo EXCEPT !.state = "draft", !.ordered = order]
  BY DEF Created
<1>2. po' = [state |-> "draft", edition |-> 0, ordered |-> order, received |-> None,
             submission |-> 0, decision |-> "none", pdf |-> FALSE]
  BY <1>1 DEF NoPo
<1> QED
  BY <1>2, OrderType, NoneType DEF Po, State

LEMMA RewrittenType ==
    ASSUME TypeOK, Rewritten
    PROVE  /\ po' \in Po
           /\ po'.state = po.state /\ po'.decision = po.decision
           /\ \/ po'.received = None
              \/ po'.received = po.received /\ po'.ordered = po.ordered
<1>1. po \in Po /\ po.edition + 1 \in Nat
  BY DEF TypeOK, Po
<1>2. CASE po' = Amended
  BY <1>1, <1>2 DEF Amended, Po
<1>3. ASSUME NEW order \in Order, po' = Edited(order)
      PROVE  /\ po' \in Po
             /\ po'.state = po.state /\ po'.decision = po.decision
             /\ po'.received = None
  <2>1. po' = [state |-> po.state, edition |-> po.edition + 1, ordered |-> order,
               received |-> None, submission |-> po.submission,
               decision |-> po.decision, pdf |-> po.pdf]
    BY <1>1, <1>3 DEF Edited, Po
  <2> QED
    BY <1>1, <2>1, OrderType, NoneType DEF Po
<1> QED
  BY <1>2, <1>3 DEF Rewritten

(* What a receipt leaves behind, line by line.                             *)
LEMMA ArrivedType ==
    ASSUME TypeOK, Arrived
    PROVE  \E goods \in [Lines -> Nat] :
             /\ po' \in Po
             /\ po.state \in Receivable
             /\ po'.decision = po.decision
             /\ po'.ordered = po.ordered
             /\ po'.state = IF \A l \in Lines : po'.received[l] >= po.ordered[l]
                            THEN "fully_received" ELSE "partially_received"
             /\ \A l \in Lines : /\ po'.received[l] = po.received[l] + goods[l]
                                 /\ po'.received[l] <= po.ordered[l]
                                 /\ receipts'[l] = receipts[l] + goods[l]
             /\ \E l \in Lines : goods[l] > 0
             /\ receipts' \in [Lines -> Nat]
             /\ UNCHANGED overtaken
<1>1. PICK goods \in [Lines -> Nat] :
        /\ po.state \in Receivable
        /\ \E l \in Lines : goods[l] > 0
        /\ \A l \in Lines : goods[l] <= po.ordered[l] - po.received[l]
        /\ LET after == Received(po, goods) IN
             po' = [po EXCEPT !.received = after,
                              !.state = IF Complete(po.ordered, after)
                                        THEN "fully_received" ELSE "partially_received"]
        /\ receipts' = [l \in Lines |-> receipts[l] + goods[l]]
        /\ UNCHANGED overtaken
  BY DEF Arrived
<1> DEFINE after == Received(po, goods)
           full  == Complete(po.ordered, after)
<1>2. po \in Po /\ receipts \in [Lines -> Nat]
  BY DEF TypeOK
<1>3. po.received \in [Lines -> Nat] /\ po.ordered \in [Lines -> Nat]
  BY <1>2 DEF Po
<1>4. after \in [Lines -> Nat] /\ \A l \in Lines : after[l] = po.received[l] + goods[l]
  BY <1>3 DEF Received
<1>5. \A l \in Lines : after[l] <= po.ordered[l]
  BY <1>1, <1>3, <1>4
<1>6. full <=> \A l \in Lines : after[l] >= po.ordered[l]
  BY DEF Complete
<1>7. po' = [po EXCEPT !.received = after,
                       !.state = IF full THEN "fully_received" ELSE "partially_received"]
  BY <1>1
<1> HIDE DEF after, full
<1>8. /\ po' \in Po
      /\ po'.received = after
      /\ po'.ordered = po.ordered
      /\ po'.decision = po.decision
      /\ po'.state = IF full THEN "fully_received" ELSE "partially_received"
  BY <1>2, <1>4, <1>7 DEF Po, State
<1>9. /\ receipts' \in [Lines -> Nat]
      /\ \A l \in Lines : receipts'[l] = receipts[l] + goods[l]
  BY <1>1, <1>2
<1> WITNESS goods \in [Lines -> Nat]
<1> QED
  BY <1>1, <1>4, <1>5, <1>6, <1>8, <1>9

LEMMA KeptType ==
    ASSUME TypeOK, Kept
    PROVE  /\ po' \in Po
           /\ po'.state = po.state /\ po'.decision = po.decision
           /\ po'.ordered = po.ordered /\ po'.received = po.received
BY DEF TypeOK, Kept, Po

-----------------------------------------------------------------------------
(* The inductive invariant.                                                *)

LEMMA InitInv == Init => InductiveInv
<1> SUFFICES ASSUME Init PROVE InductiveInv
  OBVIOUS
<1>1. NoPo \in Po /\ NoPo.state = "absent" /\ NoPo.received = None
  BY NoneType DEF NoPo, Po, State
<1>2. TypeOK /\ \A c \in Clients : RequestOK(request[c])
  BY <1>1, NoneType, IdleOK DEF Init, TypeOK
<1>3. DecisionMatchesState
  BY <1>1 DEF Init, DecisionMatchesState, Approved
<1>4. ReceiptsWithinOrder /\ StateMatchesReceipts
  BY <1>1, NoneType DEF Init, ReceiptsWithinOrder, StateMatchesReceipts, NoPo
<1> QED
  BY <1>2, <1>3, <1>4 DEF InductiveInv

LEMMA NextType ==
    ASSUME InductiveInv, [Next]_vars
    PROVE  /\ Effect
           /\ TypeOK'
           /\ (\A c \in Clients : RequestOK(request[c]))'
<1>1. TypeOK /\ RequestsOK
  BY DEF InductiveInv, RequestsOK
<1>2. Effect /\ RequestsOKNext /\ rendering' \in BOOLEAN
  BY <1>1, EveryStep
<1>3. po' \in Po
  BY <1>1, <1>2, KeptType, CreatedType, RewrittenType, ArrivedType DEF Effect, Moved
<1>4. receipts' \in [Lines -> Nat] /\ overtaken' \in BOOLEAN
  <2>1. CASE Arrived
    BY <1>1, <2>1, ArrivedType DEF TypeOK
  <2>2. CASE Rewritten
    BY <1>1, <2>2 DEF TypeOK, Rewritten
  <2>3. CASE Kept \/ Created \/ Moved
    BY <1>1, <2>3 DEF TypeOK, Kept, Created, Moved
  <2> QED
    BY <1>2, <2>1, <2>2, <2>3 DEF Effect
<1> QED
  BY <1>2, <1>3, <1>4 DEF TypeOK, RequestsOKNext

LEMMA NextDecision ==
    ASSUME InductiveInv, Effect
    PROVE  DecisionMatchesState'
<1>1. TypeOK /\ DecisionMatchesState /\ po \in Po
  BY DEF InductiveInv, TypeOK
<1>2. CASE Kept
  BY <1>1, <1>2, KeptType DEF DecisionMatchesState
<1>3. CASE Created
  BY <1>3, CreatedType DEF DecisionMatchesState, Approved
<1>4. CASE Moved
  BY <1>1, <1>4 DEF DecisionMatchesState, Approved, Moved, Decided, Transitions, Po, State
<1>5. CASE Rewritten
  BY <1>1, <1>5, RewrittenType DEF DecisionMatchesState
<1>6. CASE Arrived
  BY <1>1, <1>6, ArrivedType DEF DecisionMatchesState, Approved, Receivable
<1> QED
  BY <1>2, <1>3, <1>4, <1>5, <1>6 DEF Effect

(* An edit that no submission overtook finds nothing received yet.         *)
LEMMA NextReceipts ==
    ASSUME InductiveInv, Effect
    PROVE  ReceiptsWithinOrder'
<1>1. TypeOK /\ ReceiptsWithinOrder /\ StateMatchesReceipts
  BY DEF InductiveInv
<1>2. /\ po \in Po /\ receipts \in [Lines -> Nat]
      /\ po.ordered \in [Lines -> Nat] /\ po.received \in [Lines -> Nat]
  BY <1>1 DEF TypeOK, Po
<1>3. CASE Kept \/ Moved
  <2>1. po'.ordered = po.ordered /\ po'.received = po.received
    BY <1>1, <1>3, KeptType DEF Moved
  <2> QED
    BY <1>1, <1>3, <2>1 DEF ReceiptsWithinOrder, Kept, Moved
<1>4. CASE Created
  <2>1. po'.ordered \in [Lines -> Nat] /\ po'.received = None /\ receipts' = receipts
    BY <1>4, CreatedType DEF Created, Po
  <2>2. ~overtaken' => receipts = None
    BY <1>1, <1>4 DEF Created, StateMatchesReceipts, BeforeDispatch
  <2> QED
    BY <1>2, <2>1, <2>2, NoneType DEF ReceiptsWithinOrder
<1>5. CASE Rewritten
  <2>1. receipts' = receipts /\ (~overtaken' => ~overtaken /\ po.state \in Editable)
    BY <1>5 DEF Rewritten
  <2>2. ~overtaken' => receipts = None
    BY <1>1, <2>1 DEF StateMatchesReceipts, BeforeDispatch, Editable
  <2>3. po'.ordered \in [Lines -> Nat]
    BY <1>1, <1>5, RewrittenType DEF Po
  <2>4. CASE po'.received = None
    BY <1>2, <2>1, <2>2, <2>3, <2>4, NoneType DEF ReceiptsWithinOrder
  <2>5. CASE po'.received = po.received /\ po'.ordered = po.ordered
    BY <1>1, <2>1, <2>5 DEF ReceiptsWithinOrder
  <2> QED
    BY <1>1, <1>5, <2>4, <2>5, RewrittenType
<1>6. CASE Arrived
  BY <1>1, <1>2, <1>6, ArrivedType DEF ReceiptsWithinOrder
<1> QED
  BY <1>3, <1>4, <1>5, <1>6 DEF Effect

LEMMA NextState ==
    ASSUME InductiveInv, Effect
    PROVE  StateMatchesReceipts'
<1>1. TypeOK /\ ReceiptsWithinOrder /\ StateMatchesReceipts
  BY DEF InductiveInv
<1>2. /\ po \in Po /\ receipts \in [Lines -> Nat]
      /\ po.ordered \in [Lines -> Nat] /\ po.received \in [Lines -> Nat]
  BY <1>1 DEF TypeOK, Po
<1>3. CASE Kept
  BY <1>1, <1>3, KeptType DEF StateMatchesReceipts, AllArrived, Kept
<1>4. CASE Created
  BY <1>1, <1>4, CreatedType DEF StateMatchesReceipts, AllArrived, Created, BeforeDispatch
<1>5. CASE Moved
  <2>1. /\ receipts' = receipts /\ overtaken' = overtaken
        /\ po'.ordered = po.ordered
        /\ po'.state \in Transitions[po.state]
        /\ po'.state \notin {"partially_received", "fully_received"}
        /\ po.state \in State
    BY <1>2, <1>5 DEF Moved, Po
  <2>2. /\ po'.state \in BeforeDispatch => po.state \in BeforeDispatch
        /\ po'.state = "closed" => po.state = "fully_received"
    BY <2>1 DEF Transitions, State, BeforeDispatch
  <2> QED
    BY <1>1, <2>1, <2>2 DEF StateMatchesReceipts, AllArrived
<1>6. CASE Rewritten
  <2>1. receipts' = receipts /\ (~overtaken' => ~overtaken /\ po.state \in Editable)
    BY <1>6 DEF Rewritten
  <2>2. po'.state = po.state
    BY <1>1, <1>6, RewrittenType
  <2> QED
    BY <1>1, <2>1, <2>2 DEF StateMatchesReceipts, Editable, BeforeDispatch
<1>7. CASE Arrived
  <2> SUFFICES ASSUME ~overtaken'
               PROVE  /\ po'.state \in {"fully_received", "partially_received"}
                      /\ po'.state = "fully_received" => AllArrived'
                      /\ po'.state = "partially_received" => receipts' # None /\ ~AllArrived'
    BY DEF StateMatchesReceipts, BeforeDispatch
  <2>1. PICK goods \in [Lines -> Nat] :
          /\ po'.ordered = po.ordered
          /\ po'.state = IF \A l \in Lines : po'.received[l] >= po.ordered[l]
                         THEN "fully_received" ELSE "partially_received"
          /\ \A l \in Lines : /\ po'.received[l] = po.received[l] + goods[l]
                              /\ po'.received[l] <= po.ordered[l]
                              /\ receipts'[l] = receipts[l] + goods[l]
          /\ \E l \in Lines : goods[l] > 0
          /\ UNCHANGED overtaken
    BY <1>1, <1>7, ArrivedType
  <2>2. \A l \in Lines : /\ po.received[l] = receipts[l]
                         /\ receipts'[l] = po'.received[l]
                         /\ receipts'[l] <= po.ordered[l]
    BY <1>1, <1>2, <2>1 DEF ReceiptsWithinOrder
  <2>3. receipts' # None
    BY <1>2, <2>1, NoneType
  <2>4. AllArrived' <=> \A l \in Lines : receipts'[l] = po.ordered[l]
    BY <2>1 DEF AllArrived
  <2>5. \A l \in Lines : receipts'[l] \in Nat /\ po.ordered[l] \in Nat
    BY <1>2, <2>1
  <2>6. AllArrived' <=> \A l \in Lines : po'.received[l] >= po.ordered[l]
    BY <2>2, <2>4, <2>5
  <2> QED
    BY <2>1, <2>3, <2>6
<1> QED
  BY <1>3, <1>4, <1>5, <1>6, <1>7 DEF Effect

LEMMA Invariance == Spec => []InductiveInv
<1>1. InductiveInv /\ [Next]_vars => InductiveInv'
  BY NextType, NextDecision, NextReceipts, NextState DEF InductiveInv
<1> QED
  BY <1>1, InitInv, PTL DEF Spec

-----------------------------------------------------------------------------
(* The theorems.                                                           *)

(* The documents and requests of purchaseOrder.model.ts and po.service.ts  *)
(* are well-formed, in every reachable state.                              *)
THEOREM TypeCorrect == Spec => []TypeOK
BY Invariance, PTL DEF InductiveInv

(* approve, reject and submit leave no order past approval, rejected or    *)
(* waiting for one without the decision that belongs to its state.         *)
THEOREM DecisionFollowsState == Spec => []DecisionMatchesState
BY Invariance, PTL DEF InductiveInv

(* receive never takes in more of a line than was ordered, and the lines   *)
(* of the order agree with the receipts unless a late edit reset them.     *)
THEOREM NeverOverReceived == Spec => []ReceiptsWithinOrder
BY Invariance, PTL DEF InductiveInv

(* The state of the order says how much of it has arrived, unless a late   *)
(* edit changed what was ordered.                                          *)
THEOREM StateFollowsReceipts == Spec => []StateMatchesReceipts
BY Invariance, PTL DEF InductiveInv

(* transitionState, receive and update between them only ever move an      *)
(* order along PURCHASE_ORDER_TRANSITIONS, whatever was read before.       *)
THEOREM TableFollowed == Spec => TransitionsFollowTable
<1> DEFINE A == po'.state # po.state =>
                  \/ po.state = "absent" /\ po'.state = "draft"
                  \/ po'.state \in Transitions[po.state]
<1>1. ASSUME InductiveInv, [Next]_vars PROVE A
  <2>1. Effect /\ TypeOK
    BY <1>1, NextType DEF InductiveInv
  <2>2. CASE Arrived
    BY <2>1, <2>2, ArrivedType DEF Receivable, Transitions
  <2>3. CASE Kept \/ Created \/ Moved \/ Rewritten
    BY <2>1, <2>3, KeptType, CreatedType, RewrittenType DEF Created, Moved
  <2> QED
    BY <2>1, <2>2, <2>3 DEF Effect
<1>2. InductiveInv /\ [Next]_vars => [A]_vars
  BY <1>1
<1> QED
  BY <1>2, Invariance, PTL DEF Spec, TransitionsFollowTable

(* Goods are posted only to an order that is out for delivery: a receipt   *)
(* that a cancellation or a close overtook is never committed.             *)
THEOREM NoLateReceipts == Spec => ReceiptsOnlyWhileSent
<1>1. ASSUME InductiveInv, [Next]_vars
      PROVE  receipts' # receipts => po.state \in Receivable
  <2>1. Effect
    BY <1>1, NextType
  <2> QED
    BY <2>1 DEF Effect, Kept, Created, Moved, Rewritten, Arrived
<1> QED
  BY <1>1, Invariance, PTL DEF Spec, ReceiptsOnlyWhileSent
=============================================================================
