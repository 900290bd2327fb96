------------------------------- MODULE Billing -------------------------------
(***************************************************************************)
(* The subscription of one company (modules/billing): checkout orders, the *)
(* provider's events, plan changes, cancellation and the free trial.  The  *)
(* company's requests and the events run one at a time under a lock in     *)
(* Redis that expires, too, and each call of the provider and each         *)
(* statement on the database is a step of its own.  The provider is        *)
(* external: its subscription n is the one that paying for order n starts. *)
(***************************************************************************)
EXTENDS Naturals, FiniteSets

CONSTANTS
    Clients,       \* requests that overlap
    Price,         \* the paid plans' monthly prices
    MaxOrders,     \* bound of the model: checkout orders
    MaxEvents,     \* bound of the model: events the provider sends
    MaxMishaps     \* bound of the model: failed requests and expired locks

Tiers == DOMAIN Price
PriceOf(tier) == IF tier \in Tiers THEN Price[tier] ELSE 0

ASSUME BillingAssumption ==
    /\ Price \in [Tiers -> Nat] /\ {"trial", "none"} \cap Tiers = {}
    /\ "nobody" \notin Clients
    /\ {MaxOrders, MaxEvents, MaxMishaps} \subseteq Nat

VARIABLES
    sub,        \* the subscription document
    order,      \* the checkout orders and their sessions at the provider
    remote,     \* the provider's subscriptions
    event,      \* what the provider's events are about
    receipts,   \* the events that were taken in
    holder,     \* who holds the billing lock
    request,    \* the requests in flight
    mishaps,    \* how many requests failed and locks expired
    expired,    \* the requests whose lock expired while they run
    strayed,    \* history: one of them wrote something all the same
    left,       \* history: subscriptions the document was bound to before
    passed,     \* history: subscriptions whose event came while another looked live
    torn        \* history: a change ended half way, or met an upgrade that waits

provider == <<remote, event>>
history == <<left, passed, torn>>
lock == <<holder, expired>>
vars == <<sub, order, provider, receipts, lock, request, mishaps, history, strayed>>

Orders == 1..MaxOrders
Events == 1..MaxEvents
None == "none"
Nobody == "nobody"
Trial == "trial"

(* remote is the provider's subscription the document is bound to, or 0;   *)
(* old, that the period it records is over.  A trial's end changes nothing *)
(* that is modelled here.                                                  *)
Sub == [tier: Tiers \cup {Trial}, status: {"trialing", "active", "past_due", "cancelled"},
        old: BOOLEAN, scheduled: Tiers \cup {None}, remote: 0..MaxOrders]

(* session is the hosted page's state at the provider, linked that the     *)
(* order's document has it and the customer its address.                   *)
Order == [state: {None, "pending", "paid", "expired"}, tier: Tiers \cup {None},
          session: {None, "open", "complete", "expired"}, linked: BOOLEAN]

(* next is the plan scheduled for the next period, changing the one of an  *)
(* upgrade whose payment is open; paid is that of the latest invoice.  The *)
(* copy a request holds is old when its period is over.                    *)
Remote == [status: {None, "active", "past_due", "canceled"}, tier: Tiers \cup {None},
           paid: BOOLEAN, next: Tiers \cup {None}, changing: Tiers \cup {None}, old: BOOLEAN]

Idle == [op |-> "idle"]

(* A webhook's request has its event e, the others have 0; n is the        *)
(* subscription it is about; seen, once retrieved, is what it knows.       *)
Request ==
    {Idle}
      \cup [op: {"event", "cancel"}, at: {"act", "retrieve", "judge", "commit", "accept"},
            e: 0..MaxEvents, n: Orders, now: BOOLEAN, seen: Remote, matching: BOOLEAN]
      \cup [op: {"change"}, at: {"reserve", "release", "act", "retrieve", "judge", "commit", "accept"},
            e: {0}, n: Orders, tier: Tiers, seen: Remote, matching: BOOLEAN]
      \cup [op: {"checkout"}, at: {"settle", "order", "session", "link"},
            n: 0..MaxOrders, tier: Tiers]
      \cup [op: {"restart"}, at: {"settle", "grant"}]

TypeOK ==
    /\ sub \in Sub
    /\ order \in [Orders -> Order]
    /\ remote \in [Orders -> Remote]
    /\ event \in [Events -> [about: 0..MaxOrders, kind: {None, "subscription", "expired"}]]
    /\ receipts \subseteq Events
    /\ holder \in Clients \cup {Nobody}
    /\ request \in [Clients -> Request]
    /\ mishaps \in 0..MaxMishaps /\ expired \subseteq Clients /\ strayed \in BOOLEAN
    /\ left \subseteq Orders /\ passed \subseteq Orders /\ torn \in BOOLEAN

NoRemote == [status |-> None, tier |-> None, paid |-> FALSE, next |-> None, changing |-> None,
             old |-> FALSE]

Init ==
    /\ sub = [tier |-> Trial, status |-> "trialing", old |-> FALSE, scheduled |-> None, remote |-> 0]
    /\ order = [n \in Orders |-> [state |-> None, tier |-> None, session |-> None, linked |-> FALSE]]
    /\ remote = [n \in Orders |-> NoRemote]
    /\ event = [e \in Events |-> [about |-> 0, kind |-> None]]
    /\ receipts = {}
    /\ holder = Nobody
    /\ request = [c \in Clients |-> Idle]
    /\ mishaps = 0 /\ expired = {} /\ strayed = FALSE
    /\ left = {} /\ passed = {} /\ torn = FALSE

-----------------------------------------------------------------------------
(* Access, the provider and the lock                                       *)

(* subscriptionAccess                                                      *)
Full(s) ==
    /\ ~s.old
    /\ \/ s.status = "trialing" /\ s.tier = Trial
       \/ s.status = "active" /\ s.tier # Trial

Over(n) == remote[n].status = "canceled"
Live(n) == remote[n].status \in {"active", "past_due"}

Sent == {e \in Events : event[e].kind # None}

(* The provider sends an event about its subscription, or session, n.      *)
Emit(n, kind) ==
    /\ Cardinality(Sent) < MaxEvents
    /\ event' = [event EXCEPT ![Cardinality(Sent) + 1] = [about |-> n, kind |-> kind]]

Unaccepted(n) == {e \in Sent \ receipts : event[e] = [about |-> n, kind |-> "subscription"]}

(* Bound of the model: nothing is said, or explored, of what follows a     *)
(* write of a request whose lock expired.  Astray(c) notes one of c's.     *)
Astray(c) ==
    /\ ~strayed
    /\ strayed' = (c \in expired /\ <<sub, order, remote, receipts>>' # <<sub, order, remote, receipts>>)

NotAstray == ~strayed /\ UNCHANGED strayed

Start(c, state) ==
    /\ request[c] = Idle
    /\ holder = Nobody
    /\ holder' = c
    /\ request' = [request EXCEPT ![c] = state]
    /\ UNCHANGED <<mishaps, expired>>

Continue(c, at) == request' = [request EXCEPT ![c].at = at] /\ UNCHANGED <<mishaps, lock>>

(* The end of a request, with the release that spares another's lock.      *)
Finish(c) ==
    /\ request' = [request EXCEPT ![c] = Idle]
    /\ holder' = IF holder = c THEN Nobody ELSE holder
    /\ expired' = expired \ {c}

(* A refusal, an error or a crash; after a crash the lock's expiry stands  *)
(* for the release.                                                        *)
Fail(c) ==
    /\ request[c] # Idle
    /\ mishaps < MaxMishaps
    /\ mishaps' = mishaps + 1
    /\ torn' = (torn \/ request[c].op = "change")
    /\ Finish(c)
    /\ UNCHANGED <<sub, order, provider, receipts, left, passed>>
    /\ NotAstray

LockExpires ==
    /\ holder # Nobody
    /\ mishaps < MaxMishaps
    /\ mishaps' = mishaps + 1
    /\ holder' = Nobody
    /\ expired' = expired \cup {holder}
    /\ UNCHANGED <<sub, order, provider, receipts, request, history>>
    /\ NotAstray

At(c, at) == request[c] # Idle /\ request[c].at = at

-----------------------------------------------------------------------------
(* syncSubscription, for the provider's events, a change and a cancel      *)

(* Mutant: the receipt is written before the subscription is.              *)
DeliverReceiptFirst(c) ==
    \E e \in Sent \ receipts :
        /\ event[e].kind = "subscription"
        /\ Start(c, [op |-> "event", at |-> "retrieve", e |-> e, n |-> event[e].about,
                     now |-> FALSE, seen |-> NoRemote, matching |-> FALSE])
        /\ receipts' = receipts \cup {e}
        /\ UNCHANGED <<sub, order, provider, history>>
        /\ Astray(c)

(* An event that was not taken in yet, looked up again under the lock.     *)
Deliver(c) ==
    \E e \in Sent \ receipts :
        /\ event[e].kind = "subscription"
        /\ Start(c, [op |-> "event", at |-> "retrieve", e |-> e, n |-> event[e].about,
                     now |-> FALSE, seen |-> NoRemote, matching |-> FALSE])
        /\ UNCHANGED <<sub, order, provider, receipts, history>>
        /\ Astray(c)

Retrieve(c) ==
    /\ At(c, "retrieve")
    /\ request' = [request EXCEPT ![c].at = "judge", ![c].seen = [remote[request[c].n] EXCEPT !.next = None]]
    /\ UNCHANGED <<sub, order, provider, receipts, mishaps, lock, history>>
    /\ Astray(c)

(* Whether the subscription may be written to the document at all.         *)
Admits(s, n, r) ==
    \/ s.remote = n
    \/ /\ r.status # "canceled"
       /\ ~(s.remote # 0 /\ Full(s))
       /\ r.paid /\ r.status = "active"

(* An order for another plan is an error, before its payment is looked at. *)
Mismatch(s, n, r) ==
    /\ s.remote # n /\ r.status # "canceled" /\ ~(s.remote # 0 /\ Full(s))
    /\ order[n].tier # r.tier

Judge(c) ==
    LET n == request[c].n
        seen == [request[c].seen EXCEPT !.paid = remote[n].paid]
    IN  /\ At(c, "judge")
        /\ ~Mismatch(sub, n, seen)
        /\ request' = [request EXCEPT
              ![c].at = IF Admits(sub, n, seen) THEN "commit" ELSE "accept",
              ![c].seen = IF Admits(sub, n, seen) THEN seen ELSE NoRemote,
              ![c].matching = Admits(sub, n, seen) /\ sub.remote = n]
        /\ passed' = IF sub.remote \notin {0, n} /\ Full(sub) /\ seen.status # "canceled"
                     THEN passed \cup {n} ELSE passed
        /\ UNCHANGED <<sub, order, provider, receipts, mishaps, lock, left, torn>>
        /\ Astray(c)

(* Mutant: the provider's word for the status is kept.                     *)
StatusVerbatim(s, r, matching) ==
    IF matching /\ s.status = "cancelled" THEN "cancelled" ELSE r.status

StatusFrom(s, r, matching) ==
    IF r.status = "canceled" \/ (matching /\ s.status = "cancelled") THEN "cancelled"
    ELSE IF /\ r.status = "active"
            /\ r.paid \/ (matching /\ r.changing # None /\ s.status = "active" /\ ~s.old)
         THEN "active" ELSE "past_due"

(* The document the transaction writes from what was seen of n.            *)
Synced(s, n, r, matching) ==
    LET status == StatusFrom(s, r, matching) IN
    [tier |-> IF status = "active" THEN r.tier ELSE s.tier,
     status |-> status, old |-> r.old, remote |-> n,
     scheduled |-> IF status = "active" /\ s.scheduled = r.tier THEN None ELSE s.scheduled]

Commit(c) ==
    LET r == request[c] IN
    /\ At(c, "commit")
    /\ sub' = Synced(sub, r.n, r.seen, r.matching)
    /\ order' = IF sub'.status = "active" THEN [order EXCEPT ![r.n].state = "paid"] ELSE order
    /\ left' = IF sub.remote \notin {0, r.n} THEN left \cup {sub.remote} ELSE left
    /\ request' = [request EXCEPT ![c].at = "accept", ![c].seen = NoRemote, ![c].matching = FALSE]
    /\ UNCHANGED <<provider, receipts, mishaps, lock, passed, torn>>
    /\ Astray(c)

(* The receipt of an event; a change and a cancel only answer.             *)
Accept(c) ==
    /\ At(c, "accept")
    /\ receipts' = receipts \cup ({request[c].e} \ {0})
    /\ Finish(c)
    /\ UNCHANGED <<sub, order, provider, mishaps, history>>
    /\ Astray(c)

(* checkout.session.expired                                                *)
SessionExpired(c) ==
    \E e \in Sent \ receipts :
        /\ event[e].kind = "expired"
        /\ request[c] = Idle
        /\ holder = Nobody
        /\ LET n == event[e].about IN
           order' = IF order[n].state = "pending" /\ order[n].linked
                    THEN [order EXCEPT ![n].state = "expired"] ELSE order
        /\ receipts' = receipts \cup {e}
        /\ UNCHANGED <<sub, provider, request, mishaps, lock, history>>
        /\ Astray(c)

-----------------------------------------------------------------------------
(* createCheckoutSession                                                   *)

Checkout(c) ==
    \E tier \in Tiers :
        /\ Start(c, [op |-> "checkout", at |-> "settle", n |-> 0, tier |-> tier])
        /\ UNCHANGED <<sub, order, provider, receipts, history>>
        /\ NotAstray

(* Orders a request waits for or ends before it goes on: a checkout those  *)
(* whose session it knows, a new trial all of them.                        *)
Unsettled(op) == {n \in Orders : order[n].state = "pending" /\ (op = "restart" \/ order[n].linked)}

(* The page stops working at the provider; one that was paid in the        *)
(* meantime refuses, and the request with it.                              *)
ExpireSession(c) ==
    /\ At(c, "settle")
    /\ \E n \in Unsettled(request[c].op) :
          /\ order[n].linked /\ order[n].session = "open"
          /\ order' = [order EXCEPT ![n].session = "expired"]
    /\ UNCHANGED <<sub, provider, receipts, request, mishaps, lock, history>>
    /\ Astray(c)

(* Mutant: the order expires and its page stays open.                      *)
ExpireOrderOnly(c) ==
    /\ At(c, "settle")
    /\ \E n \in Unsettled(request[c].op) :
          /\ order[n].linked => order[n].session # "complete"
          /\ order' = [order EXCEPT ![n].state = "expired"]
    /\ UNCHANGED <<sub, provider, receipts, request, mishaps, lock, history>>
    /\ Astray(c)

ExpireOrder(c) ==
    /\ At(c, "settle")
    /\ \E n \in Unsettled(request[c].op) :
          /\ order[n].linked => order[n].session = "expired"
          /\ order' = [order EXCEPT ![n].state = "expired"]
    /\ UNCHANGED <<sub, provider, receipts, request, mishaps, lock, history>>
    /\ Astray(c)

(* The refusals that end a request: a paid page that waits for its event,  *)
(* a live subscription, an error of the provider, or, in a transaction,    *)
(* more seats in use than the plan has.                                    *)
Refuse(c) ==
    /\ request[c] # Idle
    /\ \/ /\ At(c, "settle")
          /\ \E n \in Unsettled(request[c].op) : order[n].linked /\ order[n].session = "complete"
       \/ /\ At(c, "settle") /\ Unsettled(request[c].op) = {}
          /\ request[c].op = "checkout" /\ sub.remote # 0 /\ ~Over(sub.remote)
       \/ At(c, "judge") /\ Mismatch(sub, request[c].n, request[c].seen)
       \/ At(c, "act") /\ ~Live(request[c].n)
       \/ At(c, "order") \/ At(c, "reserve") \/ At(c, "grant")
    /\ torn' = (torn \/ (request[c].op = "change" /\ ~At(c, "reserve")))
    /\ Finish(c)
    /\ UNCHANGED <<sub, order, provider, receipts, mishaps, left, passed>>
    /\ Astray(c)

(* The subscription is looked at by a checkout now, by a new trial before. *)
Settled(c) ==
    /\ At(c, "settle")
    /\ Unsettled(request[c].op) = {}
    /\ request[c].op = "checkout" /\ sub.remote # 0 => Over(sub.remote)
    /\ Continue(c, IF request[c].op = "checkout" THEN "order" ELSE "grant")
    /\ UNCHANGED <<sub, order, provider, receipts, history>>
    /\ Astray(c)

(* The order's transaction; whether the plan's seats suffice is nothing    *)
(* this model knows, see Refuse.                                           *)
PlaceOrder(c) ==
    /\ At(c, "order")
    /\ \E n \in Orders :
          /\ order[n].state = None
          /\ \A m \in 1..(n - 1) : order[m].state # None
          /\ order' = [order EXCEPT ![n].state = "pending", ![n].tier = request[c].tier]
          /\ request' = [request EXCEPT ![c].at = "session", ![c].n = n]
    /\ UNCHANGED <<sub, provider, receipts, mishaps, lock, history>>
    /\ Astray(c)

CreateSession(c) ==
    /\ At(c, "session")
    /\ order' = [order EXCEPT ![request[c].n].session = "open"]
    /\ Continue(c, "link")
    /\ UNCHANGED <<sub, provider, receipts, history>>
    /\ Astray(c)

LinkSession(c) ==
    /\ At(c, "link")
    /\ order' = [order EXCEPT ![request[c].n].linked = TRUE]
    /\ Finish(c)
    /\ UNCHANGED <<sub, provider, receipts, mishaps, history>>
    /\ Astray(c)

-----------------------------------------------------------------------------
(* changeSubscription and cancelSubscription                               *)

Change(c) ==
    \E tier \in Tiers :
        /\ sub.remote # 0 /\ remote[sub.remote].status = "active"
        /\ Start(c, [op |-> "change", at |-> "reserve", e |-> 0, n |-> sub.remote, tier |-> tier,
                     seen |-> NoRemote, matching |-> FALSE])
        /\ UNCHANGED <<sub, order, provider, receipts, history>>
        /\ NotAstray

(* The transaction that counts the seats and lowers their number.          *)
ReserveTier(c) ==
    /\ At(c, "reserve")
    /\ sub' = [sub EXCEPT !.scheduled = request[c].tier]
    /\ Continue(c, "release")
    /\ UNCHANGED <<order, provider, receipts, history>>
    /\ Astray(c)

ReleaseSchedule(c) ==
    /\ At(c, "release")
    /\ remote' = [remote EXCEPT ![request[c].n].next = None]
    /\ Continue(c, "act")
    /\ UNCHANGED <<sub, order, event, receipts, history>>
    /\ Astray(c)

(* An upgrade is charged at once; where it costs more than what is paid    *)
(* for, it may wait for its payment.  A downgrade is scheduled, also over  *)
(* an upgrade that waits, see torn; the same plan changes nothing.         *)
ApplyChange(c) ==
    LET tier == request[c].tier
        n == request[c].n
        upgrade == PriceOf(tier) > PriceOf(sub.tier)
    IN  /\ At(c, "act") /\ request[c].op = "change"
        /\ Live(n)
        /\ \/ /\ upgrade
              /\ \/ remote' = [remote EXCEPT ![n].tier = tier, ![n].paid = TRUE,
                                             ![n].changing = None]
                 \/ /\ PriceOf(tier) > PriceOf(remote[n].tier)
                    /\ remote' = [remote EXCEPT ![n].changing = tier, ![n].paid = FALSE]
              /\ Emit(n, "subscription")
           \/ /\ ~upgrade /\ tier # sub.tier
              /\ remote' = [remote EXCEPT ![n].next = tier]
              /\ Emit(n, "subscription")
           \/ ~upgrade /\ tier = sub.tier /\ UNCHANGED provider
        /\ torn' = (torn \/ (remote'[n].next # None /\ remote[n].changing # None))
        /\ Continue(c, "retrieve")
        /\ UNCHANGED <<sub, order, receipts, left, passed>>
        /\ Astray(c)

(* A company that never paid only cancels its document.                    *)
CancelTrial(c) ==
    /\ request[c] = Idle /\ holder = Nobody
    /\ sub.remote = 0
    /\ sub' = [sub EXCEPT !.status = "cancelled"]
    /\ UNCHANGED <<order, provider, receipts, request, mishaps, lock, history>>
    /\ NotAstray

(* The schedule is released first; a cancel at the period's end leaves the *)
(* end to the provider, see Ends.                                          *)
Cancel(c) ==
    \E now \in BOOLEAN :
        /\ sub.remote # 0 /\ Live(sub.remote)
        /\ Start(c, [op |-> "cancel", at |-> "act", e |-> 0, n |-> sub.remote, now |-> now,
                     seen |-> NoRemote, matching |-> FALSE])
        /\ remote' = [remote EXCEPT ![sub.remote].next = None]
        /\ UNCHANGED <<sub, order, event, receipts, history>>
        /\ NotAstray

Canceled(r) == [r EXCEPT !.status = "canceled", !.next = None, !.changing = None]

CancelRemote(c) ==
    LET n == request[c].n IN
    /\ At(c, "act") /\ request[c].op = "cancel"
    /\ Live(n)
    /\ IF request[c].now
       THEN remote' = [remote EXCEPT ![n] = Canceled(@)] /\ Emit(n, "subscription")
       ELSE UNCHANGED provider
    /\ Continue(c, "retrieve")
    /\ UNCHANGED <<sub, order, receipts, history>>
    /\ Astray(c)

-----------------------------------------------------------------------------
(* restartTrial                                                            *)

RestartTrial(c) ==
    /\ ~(sub.tier # Trial /\ Full(sub))
    /\ sub.remote # 0 => Over(sub.remote)
    /\ Start(c, [op |-> "restart", at |-> "settle"])
    /\ UNCHANGED <<sub, order, provider, receipts, history>>
    /\ NotAstray

GrantTrial(c) ==
    /\ At(c, "grant")
    /\ sub' = [tier |-> Trial, status |-> "trialing", old |-> FALSE, scheduled |-> None, remote |-> 0]
    /\ left' = left \cup ({sub.remote} \ {0})
    /\ Finish(c)
    /\ UNCHANGED <<order, provider, receipts, mishaps, passed, torn>>
    /\ Astray(c)

-----------------------------------------------------------------------------
(* The provider and the passing of time                                    *)

Pay(n) ==
    /\ order[n].linked /\ order[n].session = "open"
    /\ order' = [order EXCEPT ![n].session = "complete"]
    /\ remote' = [remote EXCEPT ![n] = [NoRemote EXCEPT !.status = "active", !.paid = TRUE,
                                                        !.tier = order[n].tier]]
    /\ Emit(n, "subscription")
    /\ UNCHANGED <<sub, receipts, request, mishaps, lock, history>>
    /\ NotAstray

SessionRunsOut(n) ==
    /\ order[n].session = "open"
    /\ order' = [order EXCEPT ![n].session = "expired"]
    /\ Emit(n, "expired")
    /\ UNCHANGED <<sub, remote, receipts, request, mishaps, lock, history>>
    /\ NotAstray

Knows(c, n) ==
    /\ request[c].op \in {"event", "change", "cancel"} /\ request[c].n = n
    /\ request[c].at \in {"judge", "commit"}

(* A period ends: a scheduled plan begins, and is paid for or not.         *)
Renew(n) ==
    /\ remote[n].status = "active"
    /\ remote[n].changing = None
    /\ \E paid \in BOOLEAN :
          remote' = [remote EXCEPT ![n].paid = paid, ![n].next = None,
                        ![n].status = IF paid THEN "active" ELSE "past_due",
                        ![n].tier = IF remote[n].next # None THEN remote[n].next ELSE @]
    /\ sub' = IF sub.remote = n THEN [sub EXCEPT !.old = TRUE] ELSE sub
    /\ request' = [c \in Clients |-> IF Knows(c, n) THEN [request[c] EXCEPT !.seen.old = TRUE]
                                     ELSE request[c]]
    /\ Emit(n, "subscription")
    /\ UNCHANGED <<order, receipts, mishaps, lock, history>>
    /\ NotAstray

(* The open invoice is paid: of a period, or of an upgrade.                *)
PayInvoice(n) ==
    /\ Live(n) /\ ~remote[n].paid
    /\ remote' = [remote EXCEPT ![n].paid = TRUE, ![n].status = "active", ![n].changing = None,
                     ![n].tier = IF remote[n].changing # None THEN remote[n].changing ELSE @]
    /\ Emit(n, "subscription")
    /\ UNCHANGED <<sub, order, receipts, request, mishaps, lock, history>>
    /\ NotAstray

(* The subscription ends: at the period's end, in the provider's portal or *)
(* for want of payment.                                                    *)
Ends(n) ==
    /\ Live(n)
    /\ remote' = [remote EXCEPT ![n] = Canceled(@)]
    /\ Emit(n, "subscription")
    /\ UNCHANGED <<sub, order, receipts, request, mishaps, lock, history>>
    /\ NotAstray

Step(c) ==
    \/ Deliver(c) \/ Retrieve(c) \/ Judge(c) \/ Commit(c) \/ Accept(c) \/ SessionExpired(c)
    \/ ExpireSession(c) \/ ExpireOrder(c) \/ Settled(c)
    \/ PlaceOrder(c) \/ CreateSession(c) \/ LinkSession(c)
    \/ ReserveTier(c) \/ ReleaseSchedule(c) \/ ApplyChange(c)
    \/ CancelRemote(c) \/ GrantTrial(c) \/ Refuse(c)

Owner(c) == Checkout(c) \/ Change(c) \/ Cancel(c) \/ CancelTrial(c) \/ RestartTrial(c)

Provider(n) == Pay(n) \/ SessionRunsOut(n) \/ Renew(n) \/ PayInvoice(n) \/ Ends(n)

Next ==
    \/ \E c \in Clients : Step(c) \/ Owner(c) \/ Fail(c)
    \/ \E n \in Orders : Provider(n)
    \/ LockExpires

Spec == Init /\ [][Next]_vars

-----------------------------------------------------------------------------
(* What can be relied upon                                                 *)

(* Whatever the order of the events, their repetition and their failures:  *)
(* where the document says another thing of its subscription than the      *)
(* provider does, or a paid subscription is not the document's yet, an     *)
(* event that will say so was not taken in.  The exceptions are a request  *)
(* that went on without its lock, and the event that was taken in while    *)
(* the document's earlier subscription still looked live.  And no event,   *)
(* however late, brings back a subscription the company left: not its      *)
(* access, and not over the trial it restarted (ingestWebhook,             *)
(* syncSubscription).                                                      *)
Agrees(n) ==
    LET r == remote[n] IN
    /\ r.status = "canceled" => sub.status = "cancelled"
    /\ r.status = "past_due" => sub.status = "past_due"
    /\ r.status = "active" => sub.status \in {"active", "past_due"}
    /\ r.status = "active" /\ r.paid => sub.status = "active" /\ sub.tier = r.tier

NothingMissed ==
    ~strayed =>
      /\ sub.remote \notin left
      /\ \A n \in Orders :
           Unaccepted(n) = {} =>
             /\ sub.remote = n => Agrees(n)
             /\ remote[n].status = "active" /\ remote[n].paid => sub.remote = n \/ n \in passed

(* A checkout expires or waits for the pages that are still open, and looks *)
(* at the provider's subscription: a company never pays for two.           *)
OneLiveSubscription ==
    ~strayed => Cardinality({n \in Orders : Live(n)}) <= 1

(* The seats that may be filled are within the plan that is paid for and   *)
(* within the one that is scheduled, whatever of a change is done: the     *)
(* document is lowered before the provider is told, and raised when the    *)
(* provider has been.  The exceptions are a change that ended half way and *)
(* a downgrade scheduled while an upgrade waits for its payment            *)
(* (changeSubscription).                                                   *)
SeatCap == IF sub.scheduled = None \/ PriceOf(sub.tier) < PriceOf(sub.scheduled)
           THEN PriceOf(sub.tier) ELSE PriceOf(sub.scheduled)

Changing == \E c \in Clients : request[c].op = "change"

SeatsWithinPlan ==
    sub.remote # 0 /\ Live(sub.remote) /\ Full(sub) /\ ~strayed /\ ~torn /\ ~Changing =>
      /\ SeatCap <= PriceOf(remote[sub.remote].tier)
      /\ remote[sub.remote].next # None => SeatCap <= PriceOf(remote[sub.remote].next)

(* Whatever of a checkout, a change of plan and a payment overlaps, the    *)
(* company pays for one subscription, and its seats are within the plan it *)
(* pays for.                                                               *)
PlanPaidFor == OneLiveSubscription /\ SeatsWithinPlan
=============================================================================
