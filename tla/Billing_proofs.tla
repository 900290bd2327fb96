--------------------------- MODULE Billing_proofs ----------------------------
(***************************************************************************)
(* Proofs about Billing: the inductive invariant, and with it that no      *)
(* event is missed, that the company pays for one subscription and that    *)
(* its seats are within the plan it pays for, for every list of plans and  *)
(* any number of requests, orders, events and mishaps.                     *)
(***************************************************************************)
EXTENDS Billing, FiniteSetTheorems, TLAPS

(* Whoever runs a request holds the lock, or lost it to its expiry.        *)
LockOK ==
    /\ \A c \in Clients : request[c] # Idle <=> c = holder \/ c \in expired
    /\ holder \notin expired

(* Events are numbered in the order they are sent, and true when they are. *)
EventsOK ==
    /\ \E k \in 0..MaxEvents : Sent = 1..k
    /\ receipts \subseteq Sent
    /\ \A e \in Sent :
         /\ event[e].about \in Orders
         /\ event[e].kind = "subscription" => remote[event[e].about].status # None
         /\ event[e].kind = "expired" => order[event[e].about].session = "expired"

(* An order that costs the company something, or is about to.              *)
Payable(n) == order[n].linked /\ order[n].session = "open"
Billable(n) == Live(n) \/ Payable(n)

OneBillable == \A m, n \in Orders : Billable(m) /\ Billable(n) => m = n

(* An order, its page, and the subscription that paying for it starts.     *)
OrderOK(n) ==
    /\ order[n].state = None => order[n].session = None
    /\ order[n].state # None => order[n].tier \in Tiers
    /\ order[n].linked => order[n].session # None
    /\ Payable(n) => order[n].state = "pending"
    /\ remote[n].status # None <=> order[n].session = "complete"
    /\ order[n].session = "complete" => order[n].linked /\ order[n].state \in {"pending", "paid"}
    /\ order[n].state = "paid" => sub.remote = n \/ n \in left
    /\ n \in left \cup {sub.remote} => remote[n].status # None

OrdersOK == \A n \in Orders : OrderOK(n)

(* An upgrade that waits raises the plan, and nothing is scheduled over it *)
(* but for the exception that torn names.                                  *)
RemoteOK(n) ==
    LET r == remote[n] IN
    /\ r.status # None => r.tier \in Tiers
    /\ ~r.old
    /\ r.status \in {None, "canceled"} => r.next = None
    /\ r.next # None => sub.remote = n
    /\ r.changing # None => PriceOf(r.tier) <= PriceOf(r.changing)
    /\ r.changing # None /\ r.next # None => torn

RemotesOK == \A n \in Orders : RemoteOK(n)

(* The document grants no more than the plan of its subscription, and what *)
(* it was bound to before is over.                                         *)
SubOK ==
    /\ sub.status = "active" => sub.remote # 0 /\ sub.tier \in Tiers
    /\ sub.remote # 0 => sub.status # "trialing"
    /\ sub.remote # 0 /\ sub.status = "cancelled" => Over(sub.remote)
    /\ sub.status = "active" /\ ~sub.old =>
         PriceOf(sub.tier) <= PriceOf(remote[sub.remote].tier)
    /\ \A n \in left : Over(n) /\ n # sub.remote

(* The document says of subscription n what the provider says.             *)
Said(n) ==
    /\ sub.remote = n => Agrees(n)
    /\ remote[n].status = "active" /\ remote[n].paid => sub.remote = n \/ n \in passed

NoneMissed == \A n \in Orders : Unaccepted(n) = {} => Said(n)

(* What is scheduled at the provider is scheduled in the document, or not  *)
(* below what is paid for; but for a change that is about to release it.   *)
Releasing == \E c \in Clients : At(c, "release") /\ request[c].n = sub.remote

Scheduled ==
    \/ sub.scheduled = remote[sub.remote].next
    \/ /\ sub.scheduled = None
       /\ PriceOf(remote[sub.remote].tier) <= PriceOf(remote[sub.remote].next)

ScheduleKnown ==
    sub.remote # 0 /\ remote[sub.remote].next # None /\ ~torn => Releasing \/ Scheduled

WorldOK ==
    /\ EventsOK /\ OrdersOK /\ RemotesOK
    /\ OneBillable /\ SubOK /\ NoneMissed /\ ScheduleKnown

-----------------------------------------------------------------------------
(* What the request that holds the lock knows.                             *)

Syncs(r) == r # Idle /\ r.op \in {"event", "change", "cancel"}

SeenTyped(r) == Syncs(r) => (r.seen.status # None => r.seen.tier \in Tiers)

Same(r, q) ==
    r.status = q.status /\ r.tier = q.tier /\ r.paid = q.paid /\ r.changing = q.changing

(* What was seen of a subscription is what it is, unless an event other    *)
(* than the one the request is about will tell; what it may have become    *)
(* meanwhile is no lower a plan, and nothing that is bound is live.        *)
SeenOK(r) ==
    /\ r.seen.status # None
    /\ r.seen.status = "canceled" => Over(r.n)
    /\ Unaccepted(r.n) \subseteq {r.e} => Same(r.seen, remote[r.n])
    /\ r.seen.status # "canceled" =>
         r.n \notin left /\ (sub.remote \in {0, r.n} \/ Over(sub.remote))
    /\ ~r.seen.old => PriceOf(r.seen.tier) <= PriceOf(remote[r.n].tier)
    /\ remote[r.n].next # None => r.seen.tier = remote[r.n].tier \/ torn

(* What was found out about the document holds until it is written.        *)
Admitted(r) ==
    /\ r.matching = (sub.remote = r.n)
    /\ sub.remote # r.n => /\ r.seen.status = "active" /\ r.seen.paid
                           /\ ~(sub.remote # 0 /\ Full(sub))

SyncOK(r) ==
    /\ remote[r.n].status # None
    /\ r.op = "event" => r.e \in Sent /\ event[r.e] = [about |-> r.n, kind |-> "subscription"]
    /\ r.op # "event" => r.e = 0 /\ sub.remote = r.n
    /\ r.at \in {"release", "act"} /\ r.op = "change" => sub.scheduled = r.tier
    /\ r.at = "act" /\ r.op = "change" => remote[r.n].next = None
    /\ r.at \in {"judge", "commit"} => SeenOK(r)
    /\ r.at = "commit" => Admitted(r)
    /\ r.at = "accept" => (Unaccepted(r.n) \subseteq {r.e} => Said(r.n))

(* A checkout that found no open page and no live subscription leaves none *)
(* but its own, which nobody has the address of.                           *)
CheckoutOK(r) ==
    /\ r.at # "settle" => \A m \in Orders : ~Billable(m)
    /\ r.at \in {"session", "link"} =>
         /\ r.n \in Orders
         /\ order[r.n].state = "pending" /\ ~order[r.n].linked
    /\ r.at = "session" => order[r.n].session = None
    /\ r.at = "link" => order[r.n].session \in {"open", "expired"}

HolderOK(r) ==
    /\ Syncs(r) => SyncOK(r)
    /\ r.op = "checkout" => CheckoutOK(r)
    /\ r.op = "restart" => (sub.remote # 0 => Over(sub.remote))

HoldersOK == holder # Nobody => HolderOK(request[holder])

AllTyped == \A c \in Clients : SeenTyped(request[c])

Sound == LockOK /\ WorldOK /\ AllTyped /\ HoldersOK

(* Nothing is said of what follows a write of a request that lost its lock. *)
InductiveInv == TypeOK /\ (~strayed => Sound)

-----------------------------------------------------------------------------
(* The data.                                                               *)

LEMMA Numbers ==
    /\ MaxOrders \in Nat /\ MaxEvents \in Nat /\ MaxMishaps \in Nat
    /\ Orders \subseteq Nat /\ 0 \notin Orders
    /\ Events \subseteq Nat /\ 0 \notin Events
    /\ None \notin Tiers /\ Trial \notin Tiers /\ Nobody \notin Clients
BY BillingAssumption DEF Orders, Events, None, Trial, Nobody

LEMMA PriceType ==
    ASSUME NEW tier
    PROVE  PriceOf(tier) \in Nat
BY BillingAssumption DEF PriceOf

LEMMA SyncType ==
    ASSUME NEW r \in Request, Syncs(r)
    PROVE  /\ r.at \in {"reserve", "release", "act", "retrieve", "judge", "commit", "accept"}
           /\ r.at \in {"reserve", "release"} => r.op = "change"
           /\ r.e \in 0..MaxEvents /\ r.n \in Orders /\ r.seen \in Remote /\ r.matching \in BOOLEAN
           /\ r.op = "change" => r.tier \in Tiers /\ r.e = 0
           /\ r.op \in {"event", "change", "cancel"}
BY Numbers DEF Syncs, Request, Idle

LEMMA OtherType ==
    ASSUME NEW r \in Request, r # Idle
    PROVE  /\ r.op \in {"event", "change", "cancel", "checkout", "restart"}
           /\ ~Syncs(r) => r.op \in {"checkout", "restart"}
           /\ r.op = "checkout" => /\ r.at \in {"settle", "order", "session", "link"}
                                   /\ r.n \in 0..MaxOrders /\ r.tier \in Tiers
           /\ r.op = "restart" => r.at \in {"settle", "grant"}
BY DEF Syncs, Request, Idle

LEMMA SyncMoves ==
    ASSUME NEW r \in Request, Syncs(r),
           NEW at \in {"act", "retrieve", "judge", "commit", "accept"}
    PROVE  /\ [r EXCEPT !.at = at] \in Request
           /\ [r EXCEPT !.at = at] # Idle
           /\ Syncs([r EXCEPT !.at = at])
BY DEF Syncs, Request, Idle

LEMMA SeenMoves ==
    ASSUME NEW r \in Request, Syncs(r), NEW seen \in Remote,
           NEW at \in {"act", "retrieve", "judge", "commit", "accept"}
    PROVE  /\ [r EXCEPT !.at = at, !.seen = seen] \in Request
           /\ Syncs([r EXCEPT !.at = at, !.seen = seen])
BY DEF Syncs, Request, Idle

LEMMA MatchMoves ==
    ASSUME NEW r \in Request, Syncs(r), NEW seen \in Remote, NEW matching \in BOOLEAN,
           NEW at \in {"act", "retrieve", "judge", "commit", "accept"}
    PROVE  /\ [r EXCEPT !.at = at, !.seen = seen, !.matching = matching] \in Request
           /\ Syncs([r EXCEPT !.at = at, !.seen = seen, !.matching = matching])
BY DEF Syncs, Request, Idle

LEMMA ChangeMoves ==
    ASSUME NEW r \in Request, Syncs(r), r.op = "change", NEW at \in {"release", "act"}
    PROVE  [r EXCEPT !.at = at] \in Request /\ Syncs([r EXCEPT !.at = at])
BY DEF Syncs, Request, Idle

LEMMA AtType ==
    ASSUME NEW r \in Request, r # Idle
    PROVE  /\ r.at \in {"act", "retrieve", "judge", "commit", "accept", "reserve", "release"}
                => Syncs(r)
           /\ r.at \in {"settle", "order", "session", "link", "grant"} => ~Syncs(r)
           /\ r.at \in {"order", "session", "link"} => r.op = "checkout"
           /\ r.at = "grant" => r.op = "restart"
BY DEF Syncs, Request, Idle

LEMMA CheckoutMoves ==
    ASSUME NEW r \in Request, r # Idle, r.op = "checkout"
    PROVE  /\ \A at \in {"order", "link"} :
                /\ [r EXCEPT !.at = at] \in Request \ {Idle}
                /\ ~Syncs([r EXCEPT !.at = at])
           /\ \A n \in Orders :
                /\ [r EXCEPT !.at = "session", !.n = n] \in Request \ {Idle}
                /\ ~Syncs([r EXCEPT !.at = "session", !.n = n])
<1>. r \in [op: {"checkout"}, at: {"settle", "order", "session", "link"},
            n: 0..MaxOrders, tier: Tiers]
  BY DEF Request, Idle
<1>1. \A at \in {"order", "link"} :
        [r EXCEPT !.at = at] \in [op: {"checkout"}, at: {"settle", "order", "session", "link"},
                                 n: 0..MaxOrders, tier: Tiers]
  OBVIOUS
<1>2. Orders \subseteq 0..MaxOrders
  BY Numbers DEF Orders
<1>3. \A n \in Orders :
        [r EXCEPT !.at = "session", !.n = n]
          \in [op: {"checkout"}, at: {"settle", "order", "session", "link"},
               n: 0..MaxOrders, tier: Tiers]
  BY <1>2
<1>4. ASSUME NEW q \in [op: {"checkout"}, at: {"settle", "order", "session", "link"},
                       n: 0..MaxOrders, tier: Tiers]
      PROVE  q \in Request \ {Idle} /\ ~Syncs(q)
  BY DEF Request, Idle, Syncs
<1>. QED  BY <1>1, <1>3, <1>4

LEMMA RestartMoves ==
    ASSUME NEW r \in Request, r # Idle, r.op = "restart"
    PROVE  [r EXCEPT !.at = "grant"] \in Request \ {Idle} /\ ~Syncs([r EXCEPT !.at = "grant"])
<1>1. r \in [op: {"restart"}, at: {"settle", "grant"}]
  BY DEF Request, Idle
<1>. QED  BY <1>1 DEF Request, Idle, Syncs

LEMMA RemoteType ==
    /\ NoRemote \in Remote
    /\ \A r \in Remote :
         /\ [r EXCEPT !.next = None] \in Remote
         /\ Canceled(r) \in Remote
         /\ \A paid \in BOOLEAN : [r EXCEPT !.paid = paid] \in Remote
BY DEF NoRemote, Remote, Canceled

-----------------------------------------------------------------------------
(* The lock and the requests: a step ends a request or moves it on.        *)

Goes(c, q) ==
    \/ q # Idle /\ request' = [request EXCEPT ![c] = q] /\ UNCHANGED lock
    \/ q = Idle /\ Finish(c)

LEMMA GoesTyped ==
    ASSUME TypeOK, NEW c \in Clients, NEW q \in Request, Goes(c, q)
    PROVE  /\ request' \in [Clients -> Request] /\ holder' \in Clients \cup {Nobody}
           /\ expired' \subseteq Clients
BY DEF TypeOK, Finish, Goes, lock

LEMMA StartTyped ==
    ASSUME TypeOK, NEW c \in Clients, NEW q \in Request, Start(c, q)
    PROVE  /\ request' \in [Clients -> Request] /\ holder' \in Clients \cup {Nobody}
           /\ mishaps' \in 0..MaxMishaps /\ expired' \subseteq Clients
BY DEF TypeOK, Start

LEMMA Going ==
    ASSUME TypeOK, LockOK, AllTyped, NEW c \in Clients, request[c] # Idle,
           NEW q, SeenTyped(q), Goes(c, q)
    PROVE  /\ LockOK' /\ AllTyped'
           /\ request'[c] = q /\ \A d \in Clients \ {c} : request'[d] = request[d]
           /\ c \in expired <=> c # holder
           /\ c # holder => holder' = holder
           /\ c = holder => holder' = IF q = Idle THEN Nobody ELSE c
<1>1. /\ request'[c] = q /\ \A d \in Clients \ {c} : request'[d] = request[d]
      /\ c \in expired <=> c # holder
      /\ c # holder => holder' = holder
      /\ c = holder => holder' = IF q = Idle THEN Nobody ELSE c
  BY DEF TypeOK, LockOK, Goes, Finish, lock
<1>2. expired' = IF q = Idle THEN expired \ {c} ELSE expired
  BY DEF Goes, Finish, lock
<1>3. LockOK'
  BY <1>1, <1>2, Numbers DEF TypeOK, LockOK
<1>4. AllTyped'
  BY <1>1 DEF AllTyped, SeenTyped, Syncs
<1>. QED  BY <1>1, <1>3, <1>4

LEMMA Starting ==
    ASSUME TypeOK, LockOK, AllTyped, NEW c \in Clients, NEW q, q # Idle, SeenTyped(q), Start(c, q)
    PROVE  /\ LockOK' /\ AllTyped' /\ holder = Nobody /\ holder' = c /\ c \notin expired
           /\ request[c] = Idle
           /\ request'[c] = q /\ \A d \in Clients \ {c} : request'[d] = request[d]
<1>1. /\ request'[c] = q /\ \A d \in Clients \ {c} : request'[d] = request[d]
      /\ holder = Nobody /\ holder' = c /\ expired' = expired /\ request[c] = Idle
  BY DEF TypeOK, Start
<1>2. c \notin expired
  BY <1>1 DEF LockOK
<1>3. LockOK'
  BY <1>1, <1>2, Numbers DEF TypeOK, LockOK
<1>4. AllTyped'
  BY <1>1 DEF AllTyped, SeenTyped, Syncs
<1>. QED  BY <1>1, <1>2, <1>3, <1>4

LEMMA ReleasingGoes ==
    ASSUME TypeOK, NEW c \in Clients, sub'.remote = sub.remote,
           \A d \in Clients \ {c} : request'[d] = request[d],
           At(c, "release") => request[c].n # sub.remote
    PROVE  Releasing => Releasing'
BY DEF Releasing, At

LEMMA AstrayTyped ==
    ASSUME TypeOK, NEW c \in Clients, Astray(c) \/ NotAstray
    PROVE  strayed' \in BOOLEAN /\ ~strayed
BY DEF TypeOK, Astray, NotAstray

-----------------------------------------------------------------------------
(* The provider's events.                                                  *)

LEMMA EmitTyped ==
    ASSUME TypeOK, EventsOK, NEW n \in Orders, NEW kind \in {"subscription", "expired"},
           Emit(n, kind)
    PROVE  /\ event' \in [Events -> [about: 0..MaxOrders, kind: {None, "subscription", "expired"}]]
           /\ \E k \in Events :
                /\ k \notin Sent
                /\ event' = [event EXCEPT ![k] = [about |-> n, kind |-> kind]]
                /\ Sent' = Sent \cup {k}
                /\ \E j \in 0..MaxEvents : Sent' = 1..j
<1>1. PICK k \in 0..MaxEvents : Sent = 1..k
  BY DEF EventsOK
<1>2. Cardinality(Sent) = k
  BY <1>1, FS_Interval, Numbers
<1>3. k < MaxEvents /\ event' = [event EXCEPT ![k + 1] = [about |-> n, kind |-> kind]]
  BY <1>2 DEF Emit
<1>4. k + 1 \in Events /\ k + 1 \in 0..MaxEvents /\ k + 1 \notin Sent
  BY <1>1, <1>3, Numbers DEF Events
<1>5. n \in 0..MaxOrders /\ None # kind
  BY Numbers DEF Orders, None
<1>6. event' \in [Events -> [about: 0..MaxOrders, kind: {None, "subscription", "expired"}]]
  BY <1>3, <1>5 DEF TypeOK
<1>7. Sent' = Sent \cup {k + 1}
  BY <1>3, <1>4, <1>5 DEF Sent, TypeOK
<1>8. Sent' = 1..(k + 1)
  BY <1>1, <1>7, Numbers
<1>. QED  BY <1>3, <1>4, <1>6, <1>7, <1>8

LEMMA Emitted ==
    ASSUME TypeOK, EventsOK, NEW n \in Orders, NEW kind \in {"subscription", "expired"},
           Emit(n, kind), UNCHANGED receipts
    PROVE  \E k \in Events :
             /\ k \notin Sent /\ k \notin receipts /\ Sent' = Sent \cup {k}
             /\ \E j \in 0..MaxEvents : Sent' = 1..j
             /\ event'[k] = [about |-> n, kind |-> kind]
             /\ \A e \in Sent : event'[e] = event[e]
             /\ kind = "subscription" => k \in Unaccepted(n)'
             /\ \A m \in Orders : m # n \/ kind = "expired" => Unaccepted(m)' = Unaccepted(m)
             /\ \A m \in Orders : Unaccepted(m) \subseteq Unaccepted(m)'
<1>1. PICK k \in Events :
        /\ k \notin Sent
        /\ event' = [event EXCEPT ![k] = [about |-> n, kind |-> kind]]
        /\ Sent' = Sent \cup {k}
        /\ \E j \in 0..MaxEvents : Sent' = 1..j
  BY EmitTyped
<1>2. k \notin receipts /\ Sent \subseteq Events
  BY <1>1 DEF EventsOK, Sent
<1>3. event'[k] = [about |-> n, kind |-> kind] /\ \A e \in Sent : event'[e] = event[e]
  BY <1>1, <1>2 DEF TypeOK
<1>4. kind = "subscription" => k \in Unaccepted(n)'
  BY <1>1, <1>2, <1>3 DEF Unaccepted
<1>5. \A m \in Orders : m # n \/ kind = "expired" => Unaccepted(m)' = Unaccepted(m)
  BY <1>1, <1>2, <1>3 DEF Unaccepted
<1>6. \A m \in Orders : Unaccepted(m) \subseteq Unaccepted(m)'
  BY <1>1, <1>2, <1>3 DEF Unaccepted
<1>. QED  BY <1>1, <1>2, <1>3, <1>4, <1>5, <1>6

-----------------------------------------------------------------------------
(* Steps that leave the document, the orders and the provider as they are. *)

Noise ==
    \/ event' = event
    \/ \E n \in Orders : remote[n].status # None /\ Emit(n, "subscription")

Harmless ==
    /\ UNCHANGED <<sub, order, remote, receipts, left>>
    /\ Noise
    /\ passed \subseteq passed' /\ (torn => torn')

LEMMA Heard ==
    ASSUME TypeOK, EventsOK, UNCHANGED <<order, remote, receipts>>, Noise
    PROVE  /\ EventsOK' /\ Sent \subseteq Sent'
           /\ \A e \in Sent : event'[e] = event[e]
           /\ \A m \in Orders : Unaccepted(m) \subseteq Unaccepted(m)'
<1>1. CASE event' = event
  BY <1>1 DEF EventsOK, Sent, Unaccepted
<1>2. CASE \E n \in Orders : remote[n].status # None /\ Emit(n, "subscription")
  <2>1. PICK n \in Orders : remote[n].status # None /\ Emit(n, "subscription")
    BY <1>2
  <2>2. PICK k \in Events :
          /\ Sent' = Sent \cup {k}
          /\ \E j \in 0..MaxEvents : Sent' = 1..j
          /\ event'[k] = [about |-> n, kind |-> "subscription"]
          /\ \A e \in Sent : event'[e] = event[e]
          /\ \A m \in Orders : Unaccepted(m) \subseteq Unaccepted(m)'
    BY <2>1, Emitted
  <2>3. ASSUME NEW e \in Sent'
        PROVE  /\ event'[e].about \in Orders
               /\ event'[e].kind = "subscription" => remote'[event'[e].about].status # None
               /\ event'[e].kind = "expired" => order'[event'[e].about].session = "expired"
    <3>1. CASE e \in Sent
      BY <2>2, <3>1 DEF EventsOK
    <3>2. CASE e = k
      BY <2>1, <2>2, <3>2
    <3>. QED  BY <2>2, <3>1, <3>2
  <2>4. receipts' \subseteq Sent'
    BY <2>2 DEF EventsOK
  <2>5. EventsOK'
    BY <2>2, <2>3, <2>4 DEF EventsOK
  <2>. QED  BY <2>2, <2>5
<1>. QED  BY <1>1, <1>2 DEF Noise

LEMMA HarmlessWorld ==
    ASSUME TypeOK, WorldOK, Harmless,
           Releasing => Releasing' \/ torn' \/ remote[sub.remote].next = None
    PROVE  WorldOK'
<1>0. EventsOK /\ OrdersOK /\ RemotesOK /\ OneBillable /\ SubOK /\ NoneMissed /\ ScheduleKnown
  BY DEF WorldOK
<1>1. /\ EventsOK' /\ \A m \in Orders : Unaccepted(m) \subseteq Unaccepted(m)'
  BY <1>0, Heard DEF Harmless
<1>2. OrdersOK' /\ OneBillable' /\ SubOK'
  BY <1>0 DEF Harmless, OrdersOK, OrderOK, Payable, OneBillable, Billable, Live, SubOK, Over
<1>3. RemotesOK'
  BY <1>0 DEF Harmless, RemotesOK, RemoteOK
<1>4. ASSUME NEW n \in Orders, Said(n)
      PROVE  Said(n)'
  BY <1>4 DEF Said, Agrees, Harmless
<1>5. NoneMissed'
  BY <1>0, <1>1, <1>4 DEF NoneMissed
<1>6. ScheduleKnown'
  BY <1>0 DEF Harmless, ScheduleKnown, Scheduled
<1>. QED  BY <1>1, <1>2, <1>3, <1>5, <1>6 DEF WorldOK

LEMMA HarmlessSeen ==
    ASSUME TypeOK, EventsOK, Harmless, NEW r \in Request, Syncs(r), SyncOK(r)
    PROVE  SyncOK(r)'
<1>1. /\ Sent \subseteq Sent'
      /\ \A e \in Sent : event'[e] = event[e]
      /\ \A m \in Orders : Unaccepted(m) \subseteq Unaccepted(m)'
  BY Heard DEF Harmless
<1>2. r.n \in Orders
  BY SyncType
<1>3. SeenOK(r) => SeenOK(r)'
  BY <1>1, <1>2 DEF SeenOK, Same, Over, Harmless
<1>4. Admitted(r) => Admitted(r)'
  BY DEF Admitted, Harmless
<1>5. Said(r.n) => Said(r.n)'
  BY <1>2 DEF Said, Agrees, Harmless
<1>. QED  BY <1>1, <1>2, <1>3, <1>4, <1>5 DEF SyncOK, Harmless

LEMMA HarmlessHolder ==
    ASSUME TypeOK, EventsOK, Harmless, NEW r \in Request, HolderOK(r)
    PROVE  HolderOK(r)'
<1>1. SyncOK(r) /\ Syncs(r) => SyncOK(r)'
  BY HarmlessSeen
<1>2. CheckoutOK(r) => CheckoutOK(r)'
  BY DEF CheckoutOK, Billable, Live, Payable, Harmless
<1>. QED  BY <1>1, <1>2 DEF HolderOK, Over, Harmless

(* A request that lost its lock and writes nothing.                        *)
LEMMA Lagging ==
    ASSUME TypeOK, Sound, NEW c \in Clients, c \in expired, NEW q, SeenTyped(q), Goes(c, q),
           Harmless,
           At(c, "release") /\ request[c].n = sub.remote =>
             torn' \/ remote[sub.remote].next = None
    PROVE  Sound'
<1>0. LockOK /\ WorldOK /\ AllTyped /\ HoldersOK /\ EventsOK
  BY DEF Sound, WorldOK
<1>1. request[c] # Idle
  BY <1>0 DEF LockOK
<1>2. /\ LockOK' /\ AllTyped' /\ c # holder /\ holder' = holder
      /\ \A d \in Clients \ {c} : request'[d] = request[d]
  BY <1>0, <1>1, Going
<1>3. sub'.remote = sub.remote
  BY DEF Harmless
<1>4. Releasing => Releasing' \/ torn' \/ remote[sub.remote].next = None
  <2>1. CASE At(c, "release") /\ request[c].n = sub.remote
    BY <2>1
  <2>2. CASE ~(At(c, "release") /\ request[c].n = sub.remote)
    BY <2>2, <1>2, <1>3, ReleasingGoes
  <2>. QED  BY <2>1, <2>2
<1>5. WorldOK'
  BY <1>0, <1>4, HarmlessWorld
<1>6. ASSUME holder' # Nobody
      PROVE  HolderOK(request[holder])'
  <2>1. holder \in Clients /\ holder # c
    BY <1>2, <1>6 DEF TypeOK
  <2>2. PICK r \in Request : r = request[holder] /\ r = request'[holder']
    BY <1>2, <2>1 DEF TypeOK
  <2>3. HolderOK(r)
    BY <1>0, <1>2, <1>6, <2>2 DEF HoldersOK
  <2>4. HolderOK(r)'
    BY <1>0, <2>3, HarmlessHolder
  <2>. QED  BY <2>2, <2>4
<1>. QED  BY <1>2, <1>5, <1>6 DEF Sound, HoldersOK

-----------------------------------------------------------------------------
(* Steps of the provider's subscription n, which it sends an event of.     *)

(* What n becomes: q keeps what is said of every subscription, is no lower *)
(* than what the document says, and schedules what is known only.          *)
Becomes(n, q) ==
    /\ Live(n) /\ q \in Remote
    /\ remote' = [remote EXCEPT ![n] = q]
    /\ Emit(n, "subscription")
    /\ UNCHANGED <<order, receipts, left, passed>>
    /\ sub' = sub \/ (sub.remote = n /\ sub' = [sub EXCEPT !.old = TRUE])
    /\ torn => torn'
    /\ q.status # None /\ q.tier \in Tiers /\ ~q.old
    /\ q.status = "canceled" => q.next = None
    /\ q.next # None => sub.remote = n
    /\ q.changing # None => PriceOf(q.tier) <= PriceOf(q.changing)
    /\ q.changing # None /\ q.next # None => torn'

LEMMA BecomesEvents ==
    ASSUME TypeOK, EventsOK, NEW n \in Orders, NEW q, Becomes(n, q)
    PROVE  /\ EventsOK' /\ Sent \subseteq Sent'
           /\ \A e \in Sent : event'[e] = event[e]
           /\ \A m \in Orders \ {n} : Unaccepted(m)' = Unaccepted(m)
           /\ \E k \in Unaccepted(n)' : k \notin Sent /\ k # 0
<1>1. PICK k \in Events :
        /\ k \notin Sent /\ k \notin receipts /\ Sent' = Sent \cup {k}
        /\ \E j \in 0..MaxEvents : Sent' = 1..j
        /\ event'[k] = [about |-> n, kind |-> "subscription"]
        /\ \A e \in Sent : event'[e] = event[e]
        /\ k \in Unaccepted(n)'
        /\ \A m \in Orders : m # n => Unaccepted(m)' = Unaccepted(m)
  BY Emitted DEF Becomes
<1>2. /\ remote'[n].status # None /\ \A m \in Orders \ {n} : remote'[m] = remote[m]
      /\ order' = order /\ receipts' = receipts
  BY DEF Becomes, TypeOK
<1>3. ASSUME NEW e \in Sent'
      PROVE  /\ event'[e].about \in Orders
             /\ event'[e].kind = "subscription" => remote'[event'[e].about].status # None
             /\ event'[e].kind = "expired" => order'[event'[e].about].session = "expired"
  <2>1. CASE e \in Sent
    BY <1>1, <1>2, <2>1 DEF EventsOK
  <2>2. CASE e = k
    BY <1>1, <1>2, <2>2
  <2>. QED  BY <1>1, <2>1, <2>2
<1>4. EventsOK'
  BY <1>1, <1>2, <1>3 DEF EventsOK
<1>5. k # 0
  BY Numbers
<1>. QED  BY <1>1, <1>4, <1>5

LEMMA BecomesWorld ==
    ASSUME TypeOK, WorldOK, NEW n \in Orders, NEW q, Becomes(n, q), ScheduleKnown',
           sub.remote = n /\ sub'.status = "active" /\ ~sub'.old =>
             PriceOf(sub.tier) <= PriceOf(q.tier)
    PROVE  WorldOK'
<1>0. EventsOK /\ OrdersOK /\ RemotesOK /\ OneBillable /\ SubOK /\ NoneMissed /\ ScheduleKnown
  BY DEF WorldOK
<1>1. /\ EventsOK'
      /\ \A m \in Orders \ {n} : Unaccepted(m)' = Unaccepted(m)
      /\ Unaccepted(n)' # {}
  BY <1>0, BecomesEvents
<1>2. /\ remote'[n] = q /\ \A m \in Orders \ {n} : remote'[m] = remote[m]
      /\ order' = order /\ left' = left /\ passed' = passed
      /\ sub'.tier = sub.tier /\ sub'.status = sub.status /\ sub'.remote = sub.remote
      /\ sub.old => sub'.old
      /\ q.status # None
      /\ \A m \in Orders : Live(m)' => Live(m)
  BY DEF Becomes, TypeOK, Sub, Live
<1>3. OrdersOK'
  <2>1. ASSUME NEW m \in Orders
        PROVE  remote'[m].status # None <=> remote[m].status # None
    <3>1. CASE m = n
      BY <1>2, <3>1 DEF Becomes, Live, None
    <3>2. CASE m # n
      BY <1>2, <3>2
    <3>. QED  BY <3>1, <3>2
  <2>2. ASSUME NEW m \in Orders
        PROVE  OrderOK(m)'
    BY <1>0, <1>2, <2>1 DEF OrdersOK, OrderOK, Payable
  <2>. QED  BY <2>2 DEF OrdersOK
<1>4. OneBillable'
  BY <1>0, <1>2 DEF OneBillable, Billable, Payable
<1>5. RemotesOK'
  <2>1. RemoteOK(n)'
    BY <1>2 DEF Becomes, RemoteOK
  <2>2. ASSUME NEW m \in Orders \ {n}
        PROVE  RemoteOK(m)'
    BY <1>0, <1>2 DEF RemotesOK, RemoteOK, Becomes
  <2>. QED  BY <2>1, <2>2 DEF RemotesOK
<1>6. SubOK'
  <2>1. n \notin left /\ (sub.remote = n => sub.status # "cancelled")
    BY <1>0, Numbers DEF SubOK, Over, Becomes, Live
  <2>2. left \subseteq Orders /\ (sub.remote # 0 => sub.remote \in Orders)
    BY Numbers DEF TypeOK, Sub, Orders
  <2>3. sub'.status = "active" => sub'.remote # 0 /\ sub'.tier \in Tiers
    BY <1>0, <1>2 DEF SubOK
  <2>4. sub'.remote # 0 => sub'.status # "trialing"
    BY <1>0, <1>2 DEF SubOK
  <2>5. sub'.remote # 0 /\ sub'.status = "cancelled" => remote'[sub'.remote].status = "canceled"
    BY <1>0, <1>2, <2>1, <2>2 DEF SubOK, Over, TypeOK, Sub
  <2>6. sub'.status = "active" /\ ~sub'.old =>
          PriceOf(sub'.tier) <= PriceOf(remote'[sub'.remote].tier)
    <3>. SUFFICES ASSUME sub'.status = "active", ~sub'.old
                  PROVE  PriceOf(sub'.tier) <= PriceOf(remote'[sub'.remote].tier)
      OBVIOUS
    <3>1. CASE sub.remote = n
      BY <1>2, <3>1 DEF PriceOf
    <3>2. CASE sub.remote # n
      <4>1. sub.remote \in Orders \ {n} /\ remote'[sub'.remote] = remote[sub.remote]
        BY <1>2, <2>2, <2>3, <3>2
      <4>2. PriceOf(sub.tier) <= PriceOf(remote[sub.remote].tier)
        BY <1>0, <1>2 DEF SubOK
      <4>. QED  BY <1>2, <4>1, <4>2 DEF PriceOf
    <3>. QED  BY <3>1, <3>2
  <2>7. \A m \in left' : remote'[m].status = "canceled" /\ m # sub'.remote
    BY <1>0, <1>2, <2>1, <2>2 DEF SubOK, Over
  <2>. QED  BY <2>3, <2>4, <2>5, <2>6, <2>7 DEF SubOK, Over
<1>7. NoneMissed'
  <2>1. ASSUME NEW m \in Orders \ {n}, Said(m)
        PROVE  Said(m)'
    BY <1>2, <2>1 DEF Said, Agrees
  <2>. QED  BY <1>0, <1>1, <2>1 DEF NoneMissed
<1>. QED  BY <1>1, <1>3, <1>4, <1>5, <1>6, <1>7 DEF WorldOK

(* The copy that a request holds of n may become old with it.              *)
LEMMA BecomesHolder ==
    ASSUME TypeOK, WorldOK, NEW n \in Orders, NEW q, Becomes(n, q),
           NEW r \in Request, HolderOK(r), NEW s \in Request,
           \/ s = r
           \/ Syncs(r) /\ s = [r EXCEPT !.seen.old = TRUE],
           r.n = n /\ ~s.seen.old /\ s.at \in {"judge", "commit"} => PriceOf(remote[n].tier) <= PriceOf(q.tier),
           q.next # None => remote[n].next # None /\ (q.tier = remote[n].tier \/ torn')
    PROVE  HolderOK(s)'
<1>0. EventsOK /\ OrdersOK /\ RemotesOK /\ OneBillable /\ SubOK /\ NoneMissed /\ ScheduleKnown
  BY DEF WorldOK
<1>1. /\ Sent \subseteq Sent'
      /\ \A e \in Sent : event'[e] = event[e]
      /\ \A m \in Orders \ {n} : Unaccepted(m)' = Unaccepted(m)
      /\ \E k \in Unaccepted(n)' : k \notin Sent /\ k # 0
  BY <1>0, BecomesEvents
<1>2. /\ remote'[n] = q /\ \A m \in Orders \ {n} : remote'[m] = remote[m]
      /\ order' = order /\ left' = left /\ passed' = passed
      /\ sub'.tier = sub.tier /\ sub'.status = sub.status /\ sub'.remote = sub.remote
      /\ sub.old => sub'.old
      /\ sub'.scheduled = sub.scheduled
      /\ sub.remote # n => sub' = sub
      /\ q.status # None /\ q.tier \in Tiers
      /\ \A m \in Orders : Live(m)' => Live(m)
  BY DEF Becomes, TypeOK, Sub, Live
<1>3. Live(n) /\ Billable(n)
  BY DEF Becomes, Billable
<1>4. sub.remote # 0 => sub.remote \in Orders
  BY Numbers DEF TypeOK, Sub, Orders
<1>5. ASSUME Syncs(r)
      PROVE  SyncOK(s)'
  <2>1. /\ SyncOK(r) /\ r.n \in Orders /\ r.seen \in Remote
        /\ s.n = r.n /\ s.at = r.at /\ s.op = r.op /\ s.e = r.e /\ s.matching = r.matching
        /\ (r.op = "change" => s.tier = r.tier)
        /\ s.seen.status = r.seen.status /\ s.seen.tier = r.seen.tier
        /\ s.seen.paid = r.seen.paid /\ s.seen.changing = r.seen.changing
        /\ (r.seen.old => s.seen.old)
        /\ r.op \in {"event", "change", "cancel"}
    <3>1. SyncOK(r) /\ r.n \in Orders /\ r.seen \in Remote
      BY <1>5, SyncType DEF HolderOK
    <3>2. CASE s = r
      BY <1>5, <3>1, <3>2 DEF Syncs
    <3>3. CASE s = [r EXCEPT !.seen.old = TRUE]
      <4>1. /\ s.n = r.n /\ s.at = r.at /\ s.op = r.op /\ s.e = r.e /\ s.matching = r.matching
            /\ (r.op = "change" => s.tier = r.tier)
            /\ s.seen = [r.seen EXCEPT !.old = TRUE]
        BY <1>5, <3>3 DEF Request, Idle, Syncs
      <4>. QED  BY <1>5, <3>1, <4>1 DEF Remote, Syncs
    <3>. QED  BY <3>2, <3>3
  <2>2. r.op = "event" => r.e \in Sent
    BY <2>1 DEF SyncOK
  <2>3. ~(Unaccepted(n)' \subseteq {r.e})
    BY <1>1, <2>1, <2>2 DEF SyncOK
  <2>4. remote'[s.n].status # None
    BY <1>2, <2>1 DEF SyncOK
  <2>5. /\ s.op = "event" => s.e \in Sent' /\ event'[s.e] = [about |-> s.n, kind |-> "subscription"]
        /\ s.op # "event" => s.e = 0 /\ sub'.remote = s.n
        /\ s.at \in {"release", "act"} /\ s.op = "change" => sub'.scheduled = s.tier
    BY <1>1, <1>2, <2>1 DEF SyncOK
  <2>6. s.at = "act" /\ s.op = "change" => remote'[s.n].next = None
    BY <1>2, <2>1 DEF SyncOK
  <2>7. ASSUME s.at \in {"judge", "commit"}
        PROVE  SeenOK(s)'
    <3>1. SeenOK(r)
      BY <2>1, <2>7 DEF SyncOK
    <3>2. CASE r.n = n
      <4>1. r.seen.status # "canceled" /\ r.seen.status # None
        BY <1>3, <3>1, <3>2 DEF SeenOK, Over, Live
      <4>2. r.n \notin left /\ (sub.remote \in {0, r.n} \/ Over(sub.remote))
        BY <3>1, <4>1 DEF SeenOK
      <4>3. s.n \notin left' /\ (sub'.remote \in {0, s.n} \/ remote'[sub'.remote].status = "canceled")
        BY <1>2, <1>4, <2>1, <3>2, <4>2 DEF Over
      <4>4. ~s.seen.old => PriceOf(s.seen.tier) <= PriceOf(remote'[s.n].tier)
        <5>. SUFFICES ASSUME ~s.seen.old
                      PROVE  PriceOf(s.seen.tier) <= PriceOf(q.tier)
          BY <1>2, <2>1, <3>2
        <5>1. PriceOf(r.seen.tier) <= PriceOf(remote[n].tier)
          BY <2>1, <3>1, <3>2 DEF SeenOK
        <5>2. PriceOf(remote[n].tier) <= PriceOf(q.tier)
          BY <2>7, <3>2
        <5>3. /\ PriceOf(r.seen.tier) \in Nat /\ PriceOf(remote[n].tier) \in Nat
              /\ PriceOf(q.tier) \in Nat /\ s.seen.tier = r.seen.tier
          BY <2>1, PriceType
        <5>. QED  BY <5>1, <5>2, <5>3
      <4>5. remote'[s.n].next # None => s.seen.tier = remote'[s.n].tier \/ torn'
        BY <1>2, <2>1, <3>1, <3>2 DEF SeenOK, Becomes
      <4>6. ~(Unaccepted(s.n)' \subseteq {s.e})
        BY <2>1, <2>3, <3>2
      <4>7. s.seen.status # "canceled" /\ s.seen.status # None
        BY <2>1, <4>1
      <4>. QED  BY <4>3, <4>4, <4>5, <4>6, <4>7 DEF SeenOK, Over
    <3>3. CASE r.n # n
      <4>1. /\ remote'[s.n] = remote[r.n] /\ Unaccepted(s.n)' = Unaccepted(r.n)
            /\ s.n \in Orders
        BY <1>1, <1>2, <2>1, <3>3
      <4>2. s.seen.status # "canceled" =>
              s.n \notin left' /\ (sub'.remote \in {0, s.n} \/ remote'[sub'.remote].status = "canceled")
        BY <1>2, <1>3, <1>4, <2>1, <3>1 DEF SeenOK, Over, Live
      <4>3. /\ s.seen.status # None
            /\ s.seen.status = "canceled" => remote'[s.n].status = "canceled"
            /\ Unaccepted(s.n)' \subseteq {s.e} => Same(s.seen, remote'[s.n])
            /\ ~s.seen.old => PriceOf(s.seen.tier) <= PriceOf(remote'[s.n].tier)
            /\ remote'[s.n].next # None => s.seen.tier = remote'[s.n].tier \/ torn'
        BY <2>1, <3>1, <4>1 DEF SeenOK, Over, Same, Becomes
      <4>. QED  BY <4>2, <4>3 DEF SeenOK, Over, Same
    <3>. QED  BY <3>2, <3>3
  <2>8. s.at = "commit" => Admitted(s)'
    <3>1. Full(sub)' => Full(sub)
      BY <1>2 DEF Full
    <3>. QED  BY <1>2, <2>1, <3>1 DEF SyncOK, Admitted
  <2>9. s.at = "accept" => (Unaccepted(s.n)' \subseteq {s.e} => Said(s.n)')
    <3>. SUFFICES ASSUME s.at = "accept", Unaccepted(s.n)' \subseteq {s.e}
                  PROVE  Said(s.n)'
      OBVIOUS
    <3>1. r.n # n /\ s.n = r.n
      BY <2>1, <2>3
    <3>2. Said(r.n)
      BY <1>1, <2>1, <3>1 DEF SyncOK
    <3>3. remote'[r.n] = remote[r.n]
      BY <1>2, <2>1, <3>1
    <3>. QED  BY <1>2, <3>1, <3>2, <3>3 DEF Said, Agrees
  <2>. QED  BY <2>4, <2>5, <2>6, <2>7, <2>8, <2>9 DEF SyncOK
<1>6. ASSUME ~Syncs(r)
      PROVE  HolderOK(s)'
  <2>1. s = r /\ ~Syncs(s)
    BY <1>6
  <2>2. r.op = "checkout" => CheckoutOK(r)'
    BY <1>2, <1>3 DEF HolderOK, CheckoutOK
  <2>3. r.op = "restart" => (sub'.remote # 0 => remote'[sub'.remote].status = "canceled")
    BY <1>2, <1>3, <1>4 DEF HolderOK, Over, Live
  <2>. QED  BY <2>1, <2>2, <2>3 DEF HolderOK, Over
<1>7. ASSUME Syncs(r)
      PROVE  s.op \notin {"checkout", "restart"}
  BY <1>7, SyncType DEF Request, Idle, Syncs
<1>. QED  BY <1>5, <1>6, <1>7 DEF HolderOK

LEMMA OldMoves ==
    ASSUME NEW r \in Request, Syncs(r)
    PROVE  /\ [r EXCEPT !.seen.old = TRUE] \in Request \ {Idle}
           /\ Syncs([r EXCEPT !.seen.old = TRUE])
           /\ [r EXCEPT !.seen.old = TRUE].seen = [r.seen EXCEPT !.old = TRUE]
           /\ [r EXCEPT !.seen.old = TRUE].at = r.at
           /\ [r EXCEPT !.seen.old = TRUE].n = r.n
<1>1. r.seen \in Remote /\ [r.seen EXCEPT !.old = TRUE] \in Remote
  BY SyncType DEF Remote
<1>2. [r EXCEPT !.seen.old = TRUE] = [r EXCEPT !.seen = [r.seen EXCEPT !.old = TRUE]]
  BY DEF Request, Idle, Syncs
<1>. QED  BY <1>1, <1>2 DEF Request, Idle, Syncs

(* The subscription is paid for, or ends, as far as the requests know.     *)
LEMMA BecomesSound ==
    ASSUME TypeOK, Sound, NEW n \in Orders, NEW q, Becomes(n, q),
           UNCHANGED <<sub, request, holder, expired>>,
           PriceOf(remote[n].tier) <= PriceOf(q.tier),
           q.next # None => q.next = remote[n].next /\ (q.tier = remote[n].tier \/ torn')
    PROVE  Sound'
<1>0. LockOK /\ WorldOK /\ AllTyped /\ HoldersOK /\ SubOK /\ ScheduleKnown
  BY DEF Sound, WorldOK
<1>1. remote'[n] = q /\ \A m \in Orders \ {n} : remote'[m] = remote[m]
  BY DEF Becomes, TypeOK
<1>2. LockOK' /\ AllTyped'
  BY <1>0 DEF LockOK, AllTyped
<1>3. ScheduleKnown'
  <2>1. CASE sub.remote = n
    BY <1>0, <1>1, <2>1 DEF ScheduleKnown, Scheduled, Releasing, At, Becomes
  <2>2. CASE sub.remote # n
    <3>1. sub.remote # 0 => sub.remote \in Orders \ {n}
      BY <2>2, Numbers DEF TypeOK, Sub, Orders
    <3>. QED  BY <1>0, <1>1, <3>1 DEF ScheduleKnown, Scheduled, Releasing, At, Becomes
  <2>. QED  BY <2>1, <2>2
<1>4. sub.remote = n /\ sub'.status = "active" /\ ~sub'.old =>
        PriceOf(sub.tier) <= PriceOf(q.tier)
  <2>1. /\ PriceOf(sub.tier) \in Nat /\ PriceOf(q.tier) \in Nat
        /\ PriceOf(remote[n].tier) \in Nat
    BY PriceType
  <2>. QED  BY <1>0, <2>1 DEF SubOK
<1>5. WorldOK'
  BY <1>0, <1>3, <1>4, BecomesWorld
<1>6. HoldersOK'
  <2>. SUFFICES ASSUME holder # Nobody
                PROVE  HolderOK(request[holder])'
    BY DEF HoldersOK
  <2>1. PICK r \in Request : r = request[holder] /\ r = request'[holder']
    BY DEF TypeOK
  <2>2. HolderOK(r)
    BY <1>0, <2>1 DEF HoldersOK
  <2>3. HolderOK(r)'
    BY <1>0, <2>2, BecomesHolder
  <2>. QED  BY <2>1, <2>3
<1>. QED  BY <1>2, <1>5, <1>6 DEF Sound

LEMMA PayInvoiceStep ==
    ASSUME TypeOK, Sound, NEW n \in Orders, PayInvoice(n)
    PROVE  TypeOK' /\ Sound'
<1>0. EventsOK /\ RemoteOK(n)
  BY DEF Sound, WorldOK, RemotesOK
<1>1. PICK q : q = [remote[n] EXCEPT !.paid = TRUE, !.status = "active", !.changing = None,
                      !.tier = IF remote[n].changing # None THEN remote[n].changing ELSE @]
  OBVIOUS
<1>2. remote' = [remote EXCEPT ![n] = q]
  BY <1>1 DEF PayInvoice, TypeOK
<1>3. remote[n] \in Remote /\ remote[n].status # None
  BY DEF TypeOK, PayInvoice, Live, None
<1>4. /\ q \in Remote /\ q.status = "active" /\ q.changing = None /\ q.old = remote[n].old
      /\ q.next = remote[n].next
      /\ q.tier = IF remote[n].changing # None THEN remote[n].changing ELSE remote[n].tier
  BY <1>1, <1>3 DEF Remote
<1>5. q.tier \in Tiers
  BY <1>0, <1>3, <1>4 DEF RemoteOK, Remote
<1>6. Becomes(n, q)
  BY <1>0, <1>2, <1>4, <1>5 DEF Becomes, PayInvoice, RemoteOK, history, None
<1>7. PriceOf(remote[n].tier) <= PriceOf(q.tier)
  BY <1>0, <1>4, PriceType DEF RemoteOK
<1>8. q.next # None => q.next = remote[n].next /\ (q.tier = remote[n].tier \/ torn')
  BY <1>0, <1>4 DEF RemoteOK, PayInvoice, history
<1>9. Sound'
  BY <1>6, <1>7, <1>8, BecomesSound DEF PayInvoice, lock
<1>10. TypeOK'
  <2>1. event' \in [Events -> [about: 0..MaxOrders, kind: {None, "subscription", "expired"}]]
    BY <1>0, EmitTyped DEF PayInvoice
  <2>2. remote' \in [Orders -> Remote]
    BY <1>2, <1>4 DEF TypeOK
  <2>. QED  BY <2>1, <2>2 DEF TypeOK, PayInvoice, lock, history, NotAstray
<1>. QED  BY <1>9, <1>10

LEMMA CanceledType ==
    ASSUME NEW r \in Remote
    PROVE  /\ Canceled(r) \in Remote /\ Canceled(r).status = "canceled"
           /\ Canceled(r).next = None /\ Canceled(r).changing = None
           /\ Canceled(r).tier = r.tier /\ Canceled(r).old = r.old
BY DEF Canceled, Remote

LEMMA EndsStep ==
    ASSUME TypeOK, Sound, NEW n \in Orders, Ends(n)
    PROVE  TypeOK' /\ Sound'
<1>0. EventsOK /\ RemoteOK(n)
  BY DEF Sound, WorldOK, RemotesOK
<1>1. PICK q : q = Canceled(remote[n])
  OBVIOUS
<1>2. remote' = [remote EXCEPT ![n] = q]
  BY <1>1 DEF Ends, TypeOK
<1>3. remote[n] \in Remote /\ remote[n].status # None
  BY DEF TypeOK, Ends, Live, None
<1>4. /\ q \in Remote /\ q.status = "canceled" /\ q.changing = None /\ q.old = remote[n].old
      /\ q.next = None /\ q.tier = remote[n].tier
  BY <1>1, <1>3, CanceledType
<1>6. Becomes(n, q)
  BY <1>0, <1>2, <1>3, <1>4 DEF Becomes, Ends, RemoteOK, history, None
<1>7. PriceOf(remote[n].tier) <= PriceOf(q.tier)
  BY <1>4, PriceType
<1>9. Sound'
  BY <1>4, <1>6, <1>7, BecomesSound DEF Ends, lock
<1>10. TypeOK'
  <2>1. event' \in [Events -> [about: 0..MaxOrders, kind: {None, "subscription", "expired"}]]
    BY <1>0, EmitTyped DEF Ends
  <2>2. remote' \in [Orders -> Remote]
    BY <1>2, <1>4 DEF TypeOK
  <2>. QED  BY <2>1, <2>2 DEF TypeOK, Ends, lock, history, NotAstray
<1>. QED  BY <1>9, <1>10

LEMMA RenewStep ==
    ASSUME TypeOK, Sound, NEW n \in Orders, Renew(n)
    PROVE  TypeOK' /\ Sound'
<1>0. /\ LockOK /\ WorldOK /\ AllTyped /\ HoldersOK /\ SubOK /\ ScheduleKnown
      /\ EventsOK /\ RemoteOK(n)
  BY DEF Sound, WorldOK, RemotesOK
<1>1. PICK paid \in BOOLEAN :
        remote' = [remote EXCEPT ![n].paid = paid, ![n].next = None,
                      ![n].status = IF paid THEN "active" ELSE "past_due",
                      ![n].tier = IF remote[n].next # None THEN remote[n].next ELSE @]
  BY DEF Renew
<1>2. PICK q : q = [remote[n] EXCEPT !.paid = paid, !.next = None,
                      !.status = IF paid THEN "active" ELSE "past_due",
                      !.tier = IF remote[n].next # None THEN remote[n].next ELSE @]
  OBVIOUS
<1>3. remote' = [remote EXCEPT ![n] = q]
  BY <1>1, <1>2 DEF TypeOK
<1>4. remote[n] \in Remote /\ remote[n].status # None /\ remote[n].changing = None
  BY DEF TypeOK, Renew, None
<1>5. /\ q \in Remote /\ q.status \in {"active", "past_due"} /\ q.changing = None
      /\ q.old = remote[n].old /\ q.next = None
      /\ q.tier = IF remote[n].next # None THEN remote[n].next ELSE remote[n].tier
  BY <1>2, <1>4 DEF Remote, None
<1>6. q.tier \in Tiers
  BY <1>0, <1>4, <1>5 DEF RemoteOK, Remote
<1>7. sub' = sub \/ (sub.remote = n /\ sub' = [sub EXCEPT !.old = TRUE])
  BY DEF Renew
<1>8. Becomes(n, q)
  BY <1>0, <1>3, <1>5, <1>6, <1>7 DEF Becomes, Renew, RemoteOK, history, Live, None
<1>9. sub' \in Sub /\ sub'.remote = sub.remote /\ (sub.remote = n => sub'.old)
  BY <1>7 DEF Renew, TypeOK, Sub
<1>10. /\ remote'[n] = q /\ \A m \in Orders \ {n} : remote'[m] = remote[m]
       /\ sub.remote # n => sub' = sub
  BY <1>3, <1>7 DEF TypeOK
<1>11. ASSUME NEW c \in Clients
       PROVE  /\ request'[c] \in Request
              /\ Knows(c, n) => /\ Syncs(request[c]) /\ request'[c] = [request[c] EXCEPT !.seen.old = TRUE]
                                /\ request'[c].seen.old
              /\ ~Knows(c, n) => request'[c] = request[c]
              /\ request'[c] = Idle <=> request[c] = Idle
              /\ At(c, "release")' /\ request'[c].n = sub'.remote <=> At(c, "release") /\ request[c].n = sub.remote
              /\ SeenTyped(request'[c])
  <2>1. request[c] \in Request /\ SeenTyped(request[c])
    BY <1>0 DEF TypeOK, AllTyped
  <2>2. CASE Knows(c, n)
    <3>1. Syncs(request[c]) /\ request'[c] = [request[c] EXCEPT !.seen.old = TRUE]
      BY <2>2 DEF Knows, Syncs, Renew, Idle
    <3>2. /\ request'[c] \in Request \ {Idle} /\ request'[c].seen = [request[c].seen EXCEPT !.old = TRUE]
          /\ request'[c].at = request[c].at
      BY <2>1, <3>1, OldMoves
    <3>3. request[c].seen \in Remote
      BY <2>1, <3>1, SyncType
    <3>4. request'[c].seen.old /\ SeenTyped(request'[c])
      BY <2>1, <3>1, <3>2, <3>3 DEF Remote, SeenTyped
    <3>5. ~At(c, "release") /\ ~At(c, "release")'
      BY <2>2, <3>2 DEF Knows, At
    <3>. QED  BY <2>2, <3>1, <3>2, <3>4, <3>5 DEF Syncs
  <2>3. CASE ~Knows(c, n)
    BY <1>9, <2>1, <2>3 DEF Renew, At
  <2>. QED  BY <2>2, <2>3
<1>12. LockOK' /\ AllTyped'
  BY <1>0, <1>11 DEF LockOK, AllTyped, Renew, lock
<1>13. Releasing <=> Releasing'
  BY <1>11 DEF Releasing
<1>14. ScheduleKnown'
  <2>1. CASE sub.remote = n
    BY <1>5, <1>9, <1>10, <2>1 DEF ScheduleKnown
  <2>2. CASE sub.remote # n
    <3>1. sub.remote # 0 => sub.remote \in Orders \ {n}
      BY <2>2, Numbers DEF TypeOK, Sub, Orders
    <3>. QED  BY <1>0, <1>10, <1>13, <2>2, <3>1 DEF ScheduleKnown, Scheduled, Renew, history
  <2>. QED  BY <2>1, <2>2
<1>15. WorldOK'
  BY <1>0, <1>8, <1>9, <1>14, BecomesWorld
<1>16. HoldersOK'
  <2>. SUFFICES ASSUME holder # Nobody
                PROVE  HolderOK(request[holder])'
    BY DEF HoldersOK, Renew, lock
  <2>1. PICK r \in Request : r = request[holder]
    BY DEF TypeOK
  <2>2. PICK s \in Request : s = request'[holder]
    BY <1>11 DEF TypeOK
  <2>3. HolderOK(r)
    BY <1>0, <2>1 DEF HoldersOK
  <2>4. s = r \/ (Syncs(r) /\ s = [r EXCEPT !.seen.old = TRUE])
    BY <1>11, <2>1, <2>2 DEF TypeOK
  <2>5. r.n = n /\ ~s.seen.old /\ s.at \in {"judge", "commit"} =>
          PriceOf(remote[n].tier) <= PriceOf(q.tier)
    <3>. SUFFICES ASSUME r.n = n, ~s.seen.old, s.at \in {"judge", "commit"}
                  PROVE  FALSE
      OBVIOUS
    <3>1. ~Knows(holder, n) /\ s = r
      BY <1>11, <2>1, <2>2 DEF TypeOK
    <3>2. r # Idle
      BY <1>0, <2>1 DEF LockOK, TypeOK
    <3>3. r.op \in {"event", "change", "cancel"}
      BY <3>1, <3>2, AtType DEF Syncs
    <3>. QED  BY <2>1, <3>1, <3>3 DEF Knows
  <2>6. q.next # None => remote[n].next # None /\ (q.tier = remote[n].tier \/ torn')
    BY <1>5
  <2>7. HolderOK(s)'
    BY <1>0, <1>8, <2>3, <2>4, <2>5, <2>6, BecomesHolder
  <2>8. holder' = holder
    BY DEF Renew, lock
  <2>. QED  BY <2>2, <2>7, <2>8
<1>17. TypeOK'
  <2>1. event' \in [Events -> [about: 0..MaxOrders, kind: {None, "subscription", "expired"}]]
    BY <1>0, EmitTyped DEF Renew
  <2>2. remote' \in [Orders -> Remote]
    BY <1>3, <1>5 DEF TypeOK
  <2>3. request' \in [Clients -> Request]
    BY <1>11 DEF Renew
  <2>. QED  BY <1>9, <2>1, <2>2, <2>3 DEF TypeOK, Renew, lock, history, NotAstray
<1>. QED  BY <1>12, <1>15, <1>16, <1>17 DEF Sound

-----------------------------------------------------------------------------
(* Steps that change an order or its page.                                 *)

LEMMA OrderWorld ==
    ASSUME TypeOK, WorldOK, NEW n \in Orders, NEW o, order' = [order EXCEPT ![n] = o],
           UNCHANGED <<sub, remote, left, passed, torn>>,
           EventsOK', \A m \in Orders : Unaccepted(m)' = Unaccepted(m),
           Releasing => Releasing', OrderOK(n)',
           Billable(n)' => Billable(n) \/ \A m \in Orders : ~Billable(m)
    PROVE  WorldOK'
<1>0. OrdersOK /\ RemotesOK /\ OneBillable /\ SubOK /\ NoneMissed /\ ScheduleKnown
  BY DEF WorldOK
<1>1. order'[n] = o /\ \A m \in Orders \ {n} : order'[m] = order[m]
  BY DEF TypeOK
<1>2. OrdersOK'
  BY <1>0, <1>1 DEF OrdersOK, OrderOK, Payable
<1>3. \A m \in Orders \ {n} : Billable(m)' <=> Billable(m)
  BY <1>1 DEF Billable, Live, Payable
<1>4. OneBillable'
  BY <1>0, <1>3 DEF OneBillable
<1>5. RemotesOK' /\ SubOK'
  BY <1>0 DEF RemotesOK, RemoteOK, SubOK, Over
<1>6. ASSUME NEW m \in Orders, Said(m)
      PROVE  Said(m)'
  BY <1>6 DEF Said, Agrees
<1>7. NoneMissed'
  BY <1>0, <1>6 DEF NoneMissed
<1>8. ScheduleKnown'
  BY <1>0 DEF ScheduleKnown, Scheduled
<1>. QED  BY <1>2, <1>4, <1>5, <1>7, <1>8 DEF WorldOK

(* What a request that synchronizes knows is not about orders.             *)
LEMMA OrderSync ==
    ASSUME TypeOK, NEW r \in Request, Syncs(r), SyncOK(r),
           UNCHANGED <<sub, remote, left, passed, torn>>,
           Sent \subseteq Sent', \A e \in Sent : event'[e] = event[e],
           \A m \in Orders : Unaccepted(m)' = Unaccepted(m)
    PROVE  SyncOK(r)'
<1>1. r.n \in Orders
  BY SyncType
<1>2. SeenOK(r) => SeenOK(r)'
  BY <1>1 DEF SeenOK, Same, Over
<1>3. Said(r.n) => Said(r.n)'
  BY <1>1 DEF Said, Agrees
<1>4. Admitted(r) => Admitted(r)'
  BY DEF Admitted
<1>. QED  BY <1>1, <1>2, <1>3, <1>4 DEF SyncOK

LEMMA RunsOutStep ==
    ASSUME TypeOK, Sound, NEW n \in Orders, SessionRunsOut(n)
    PROVE  TypeOK' /\ Sound'
<1>0. /\ LockOK /\ WorldOK /\ AllTyped /\ HoldersOK /\ EventsOK /\ OrderOK(n)
  BY DEF Sound, WorldOK, OrdersOK
<1>1. PICK o : o = [order[n] EXCEPT !.session = "expired"]
  OBVIOUS
<1>2. order' = [order EXCEPT ![n] = o] /\ order[n].session = "open" /\ order[n] \in Order
  BY <1>1 DEF SessionRunsOut, TypeOK
<1>3. /\ o \in Order /\ o.session = "expired" /\ o.state = order[n].state
      /\ o.linked = order[n].linked /\ o.tier = order[n].tier
  BY <1>1, <1>2 DEF Order
<1>4. order'[n] = o /\ \A m \in Orders \ {n} : order'[m] = order[m]
  BY <1>2 DEF TypeOK
<1>5. UNCHANGED <<sub, remote, receipts, left, passed, torn, holder, expired, request, mishaps>>
  BY DEF SessionRunsOut, history, lock
<1>6. PICK k \in Events :
        /\ k \notin Sent /\ Sent' = Sent \cup {k}
        /\ \E j \in 0..MaxEvents : Sent' = 1..j
        /\ event'[k] = [about |-> n, kind |-> "expired"]
        /\ \A e \in Sent : event'[e] = event[e]
        /\ \A m \in Orders : Unaccepted(m)' = Unaccepted(m)
  BY <1>0, <1>5, Emitted DEF SessionRunsOut
<1>7. EventsOK'
  <2>1. ASSUME NEW e \in Sent'
        PROVE  /\ event'[e].about \in Orders
               /\ event'[e].kind = "subscription" => remote'[event'[e].about].status # None
               /\ event'[e].kind = "expired" => order'[event'[e].about].session = "expired"
    <3>1. CASE e \in Sent
      <4>1. event'[e] = event[e] /\ event[e].about \in Orders
        BY <1>0, <1>6, <3>1 DEF EventsOK
      <4>. QED  BY <1>0, <1>3, <1>4, <1>5, <3>1, <4>1 DEF EventsOK
    <3>2. CASE e = k
      BY <1>3, <1>4, <1>6, <3>2
    <3>. QED  BY <1>6, <3>1, <3>2
  <2>. QED  BY <1>0, <1>5, <1>6, <2>1 DEF EventsOK
<1>8. Releasing => Releasing'
  BY <1>5 DEF Releasing, At
<1>9. OrderOK(n)' /\ ~Payable(n)'
  BY <1>0, <1>2, <1>3, <1>4, <1>5 DEF OrderOK, Payable, None
<1>10. WorldOK'
  <2>1. Billable(n)' => Billable(n) \/ \A m \in Orders : ~Billable(m)
    BY <1>5, <1>9 DEF Billable, Live
  <2>. QED  BY <1>0, <1>2, <1>5, <1>6, <1>7, <1>8, <1>9, <2>1, OrderWorld
<1>11. LockOK' /\ AllTyped'
  BY <1>0, <1>5 DEF LockOK, AllTyped
<1>12. HoldersOK'
  <2>. SUFFICES ASSUME holder # Nobody
                PROVE  HolderOK(request[holder])'
    BY <1>5 DEF HoldersOK
  <2>1. PICK r \in Request : r = request[holder] /\ r = request'[holder']
    BY <1>5 DEF TypeOK
  <2>2. HolderOK(r)
    BY <1>0, <2>1 DEF HoldersOK
  <2>3. Syncs(r) => SyncOK(r)'
    BY <1>5, <1>6, <2>2, OrderSync DEF HolderOK
  <2>4. CheckoutOK(r) => CheckoutOK(r)'
    <3>1. \A m \in Orders : Billable(m)' => Billable(m)
      BY <1>4, <1>5, <1>9 DEF Billable, Live, Payable
    <3>2. r.n = n => order[n].session # None
      BY <1>2 DEF None
    <3>. QED  BY <1>2, <1>3, <1>4, <3>1, <3>2 DEF CheckoutOK
  <2>5. HolderOK(r)'
    BY <1>5, <2>2, <2>3, <2>4 DEF HolderOK, Over
  <2>. QED  BY <2>1, <2>5
<1>13. TypeOK'
  <2>1. event' \in [Events -> [about: 0..MaxOrders, kind: {None, "subscription", "expired"}]]
    BY <1>0, EmitTyped DEF SessionRunsOut
  <2>2. order' \in [Orders -> Order]
    BY <1>2, <1>3 DEF TypeOK
  <2>. QED  BY <1>5, <2>1, <2>2 DEF TypeOK, SessionRunsOut, NotAstray
<1>. QED  BY <1>10, <1>11, <1>12, <1>13 DEF Sound

LEMMA PayStep ==
    ASSUME TypeOK, Sound, NEW n \in Orders, Pay(n)
    PROVE  TypeOK' /\ Sound'
<1>0. /\ LockOK /\ WorldOK /\ AllTyped /\ HoldersOK
      /\ EventsOK /\ OrdersOK /\ RemotesOK /\ OneBillable /\ SubOK /\ NoneMissed /\ ScheduleKnown
      /\ OrderOK(n)
  BY DEF Sound, WorldOK, OrdersOK
<1>1. PICK o : o = [order[n] EXCEPT !.session = "complete"]
  OBVIOUS
<1>2. PICK q : q = [NoRemote EXCEPT !.status = "active", !.paid = TRUE, !.tier = order[n].tier]
  OBVIOUS
<1>3. /\ order' = [order EXCEPT ![n] = o] /\ order[n].session = "open" /\ order[n].linked
      /\ order[n] \in Order /\ remote' = [remote EXCEPT ![n] = q]
  BY <1>1, <1>2 DEF Pay, TypeOK
<1>4. /\ o \in Order /\ o.session = "complete" /\ o.state = order[n].state
      /\ o.linked = order[n].linked /\ o.tier = order[n].tier
  BY <1>1, <1>3 DEF Order
<1>5. Payable(n) /\ order[n].state = "pending" /\ order[n].tier \in Tiers /\ remote[n].status = None
  BY <1>0, <1>3 DEF OrderOK, Payable, None
<1>6. /\ q \in Remote /\ q.status = "active" /\ q.paid /\ q.tier = order[n].tier
      /\ q.next = None /\ q.changing = None /\ ~q.old
  BY <1>2, <1>5 DEF NoRemote, Remote
<1>7. /\ order'[n] = o /\ \A m \in Orders \ {n} : order'[m] = order[m]
      /\ remote'[n] = q /\ \A m \in Orders \ {n} : remote'[m] = remote[m]
  BY <1>3 DEF TypeOK
<1>8. UNCHANGED <<sub, receipts, left, passed, torn, holder, expired, request, mishaps>>
  BY DEF Pay, history, lock
<1>9. PICK k \in Events :
        /\ k \notin Sent /\ Sent' = Sent \cup {k}
        /\ \E j \in 0..MaxEvents : Sent' = 1..j
        /\ event'[k] = [about |-> n, kind |-> "subscription"]
        /\ \A e \in Sent : event'[e] = event[e]
        /\ k \in Unaccepted(n)'
        /\ \A m \in Orders : m # n => Unaccepted(m)' = Unaccepted(m)
  BY <1>0, <1>8, Emitted DEF Pay
<1>10. n # sub.remote /\ n \notin left
  BY <1>0, <1>5 DEF OrderOK
<1>11. sub.remote # 0 => sub.remote \in Orders \ {n}
  BY <1>10, Numbers DEF TypeOK, Sub, Orders
<1>12. EventsOK'
  <2>1. ASSUME NEW e \in Sent'
        PROVE  /\ event'[e].about \in Orders
               /\ event'[e].kind = "subscription" => remote'[event'[e].about].status # None
               /\ event'[e].kind = "expired" => order'[event'[e].about].session = "expired"
    <3>1. CASE e \in Sent
      <4>1. event'[e] = event[e] /\ event[e].about \in Orders
        BY <1>0, <1>9, <3>1 DEF EventsOK
      <4>2. CASE event[e].about = n
        BY <1>0, <1>3, <1>5, <3>1, <4>1, <4>2 DEF EventsOK
      <4>3. CASE event[e].about # n
        BY <1>0, <1>7, <3>1, <4>1, <4>3 DEF EventsOK
      <4>. QED  BY <4>2, <4>3
    <3>2. CASE e = k
      BY <1>6, <1>7, <1>9, <3>2 DEF None
    <3>. QED  BY <1>9, <3>1, <3>2
  <2>. QED  BY <1>0, <1>8, <1>9, <2>1 DEF EventsOK
<1>13. OrdersOK'
  <2>1. OrderOK(n)'
    BY <1>4, <1>5, <1>6, <1>7, <1>3, <1>8, <1>10 DEF OrderOK, Payable, None
  <2>2. ASSUME NEW m \in Orders \ {n}
        PROVE  OrderOK(m)'
    BY <1>0, <1>7, <1>8 DEF OrdersOK, OrderOK, Payable
  <2>. QED  BY <2>1, <2>2 DEF OrdersOK
<1>14. \A m \in Orders : Billable(m)' => Billable(m)
  BY <1>5, <1>7 DEF Billable, Live, Payable
<1>15. OneBillable'
  BY <1>0, <1>14 DEF OneBillable
<1>16. RemotesOK'
  BY <1>0, <1>5, <1>6, <1>7, <1>8 DEF RemotesOK, RemoteOK, None
<1>17. SubOK'
  <2>1. \A m \in left : m \in Orders \ {n} /\ Over(m) /\ m # sub.remote
    BY <1>0, <1>10 DEF SubOK, TypeOK
  <2>2. \A m \in left' : Over(m)' /\ m # sub'.remote
    BY <1>7, <1>8, <2>1 DEF Over
  <2>3. sub.remote # 0 => remote'[sub'.remote] = remote[sub.remote]
    BY <1>7, <1>8, <1>11
  <2>. QED  BY <1>0, <1>8, <2>2, <2>3 DEF SubOK, Over
<1>18. NoneMissed'
  <2>1. ASSUME NEW m \in Orders \ {n}, Said(m)
        PROVE  Said(m)'
    BY <1>7, <1>8, <2>1 DEF Said, Agrees
  <2>. QED  BY <1>0, <1>9, <2>1 DEF NoneMissed
<1>19. ScheduleKnown'
  BY <1>0, <1>7, <1>8, <1>11 DEF ScheduleKnown, Scheduled, Releasing, At
<1>20. LockOK' /\ AllTyped'
  BY <1>0, <1>8 DEF LockOK, AllTyped
<1>21. HoldersOK'
  <2>. SUFFICES ASSUME holder # Nobody
                PROVE  HolderOK(request[holder])'
    BY <1>8 DEF HoldersOK
  <2>1. PICK r \in Request : r = request[holder] /\ r = request'[holder']
    BY <1>8 DEF TypeOK
  <2>2. HolderOK(r)
    BY <1>0, <2>1 DEF HoldersOK
  <2>3. ASSUME Syncs(r)
        PROVE  SyncOK(r)'
    <3>1. SyncOK(r) /\ r.n \in Orders
      BY <2>2, <2>3, SyncType DEF HolderOK
    <3>2. r.n # n
      BY <1>5, <3>1 DEF SyncOK
    <3>3. remote'[r.n] = remote[r.n] /\ Unaccepted(r.n)' = Unaccepted(r.n)
      BY <1>7, <1>9, <3>1, <3>2
    <3>4. sub.remote # 0 => remote'[sub'.remote] = remote[sub.remote]
      BY <1>7, <1>8, <1>11
    <3>5. SeenOK(r) => SeenOK(r)'
      BY <1>8, <3>3, <3>4 DEF SeenOK, Same, Over
    <3>6. Said(r.n) => Said(r.n)'
      BY <1>8, <3>3 DEF Said, Agrees
    <3>7. Admitted(r) => Admitted(r)'
      BY <1>8 DEF Admitted
    <3>. QED  BY <1>8, <1>9, <3>1, <3>3, <3>5, <3>6, <3>7 DEF SyncOK
  <2>4. r.op = "checkout" => CheckoutOK(r)'
    BY <1>5, <2>2 DEF HolderOK, CheckoutOK, Billable
  <2>6. HolderOK(r)'
    BY <1>7, <1>8, <1>11, <2>2, <2>3, <2>4 DEF HolderOK, Over
  <2>. QED  BY <2>1, <2>6
<1>22. TypeOK'
  <2>1. event' \in [Events -> [about: 0..MaxOrders, kind: {None, "subscription", "expired"}]]
    BY <1>0, EmitTyped DEF Pay
  <2>2. order' \in [Orders -> Order] /\ remote' \in [Orders -> Remote]
    BY <1>3, <1>4, <1>6 DEF TypeOK
  <2>. QED  BY <1>8, <2>1, <2>2 DEF TypeOK, Pay, NotAstray
<1>. QED  BY <1>12, <1>13, <1>15, <1>16, <1>17, <1>18, <1>19, <1>20, <1>21, <1>22 DEF Sound, WorldOK

-----------------------------------------------------------------------------
(* Steps of a request: of the holder's, of one that lost its lock.         *)

LEMMA NoteAstray ==
    ASSUME NEW c \in Clients, c \in expired, Astray(c), ~strayed'
    PROVE  UNCHANGED <<sub, order, remote, receipts>>
BY DEF Astray

LEMMA Holding ==
    ASSUME TypeOK, Sound, NEW c \in Clients, request[c] # Idle, c \notin expired
    PROVE  c = holder /\ HolderOK(request[c])
<1>1. c = holder
  BY DEF Sound, LockOK
<1>2. c # Nobody
  BY Numbers
<1>. QED  BY <1>1, <1>2 DEF Sound, HoldersOK

LEMMA HolderSound ==
    ASSUME TypeOK, Sound, NEW c \in Clients, c = holder, NEW q, SeenTyped(q), Goes(c, q),
           WorldOK', q # Idle => HolderOK(q)'
    PROVE  Sound'
<1>0. LockOK /\ AllTyped /\ c # Nobody
  BY Numbers DEF Sound
<1>1. request[c] # Idle
  BY <1>0 DEF LockOK
<1>2. /\ LockOK' /\ AllTyped' /\ request'[c] = q
      /\ holder' = IF q = Idle THEN Nobody ELSE c
  BY <1>0, <1>1, Going
<1>. QED  BY <1>0, <1>2 DEF Sound, HoldersOK

LEMMA StartSound ==
    ASSUME TypeOK, Sound, NEW c \in Clients, NEW q, q # Idle, SeenTyped(q), Start(c, q),
           WorldOK', HolderOK(q)'
    PROVE  Sound'
<1>0. LockOK /\ AllTyped
  BY DEF Sound
<1>1. /\ LockOK' /\ AllTyped' /\ request'[c] = q /\ holder' = c
  BY <1>0, Starting
<1>. QED  BY <1>0, <1>1 DEF Sound, HoldersOK

LEMMA ReleasingStarts ==
    ASSUME TypeOK, LockOK, NEW c \in Clients, NEW q, Start(c, q), sub'.remote = sub.remote
    PROVE  Releasing => Releasing'
<1>1. request[c] = Idle /\ \A d \in Clients \ {c} : request'[d] = request[d]
  BY DEF Start, TypeOK
<1>2. ~At(c, "release")
  BY <1>1 DEF At
<1>. QED  BY <1>1, <1>2, ReleasingGoes

(* A start that writes nothing.                                            *)
LEMMA QuietStart ==
    ASSUME TypeOK, Sound, NEW c \in Clients, NEW q \in Request, q # Idle, SeenTyped(q), Start(c, q),
           UNCHANGED <<sub, order, provider, receipts, history>>, strayed' \in BOOLEAN,
           HolderOK(q)
    PROVE  TypeOK' /\ Sound'
<1>0. LockOK /\ WorldOK /\ EventsOK
  BY DEF Sound, WorldOK
<1>1. Harmless
  BY DEF Harmless, Noise, provider, history
<1>2. sub'.remote = sub.remote
  BY DEF Harmless
<1>3. Releasing => Releasing'
  BY <1>0, <1>2, ReleasingStarts
<1>4. WorldOK'
  BY <1>0, <1>1, <1>3, HarmlessWorld
<1>5. HolderOK(q)'
  BY <1>0, <1>1, HarmlessHolder
<1>6. Sound'
  BY <1>4, <1>5, StartSound
<1>7. TypeOK'
  <2>1. /\ request' \in [Clients -> Request] /\ holder' \in Clients \cup {Nobody}
        /\ mishaps' \in 0..MaxMishaps /\ expired' \subseteq Clients
    BY StartTyped
  <2>. QED  BY <2>1 DEF TypeOK, provider, history
<1>. QED  BY <1>6, <1>7

(* A move that writes nothing.                                             *)
LEMMA QuietMove ==
    ASSUME TypeOK, Sound, NEW c \in Clients, request[c] # Idle,
           NEW q \in Request, SeenTyped(q), Goes(c, q), Harmless,
           At(c, "release") => torn',
           c \notin expired /\ q # Idle => HolderOK(q)
    PROVE  Sound'
<1>1. CASE c \in expired
  BY <1>1, Lagging
<1>2. CASE c \notin expired
  <2>0. LockOK /\ WorldOK /\ EventsOK /\ AllTyped
    BY DEF Sound, WorldOK
  <2>1. c = holder
    BY <1>2, Holding
  <2>2. \A d \in Clients \ {c} : request'[d] = request[d]
    BY <2>0, Going
  <2>3. sub'.remote = sub.remote
    BY DEF Harmless
  <2>4. Releasing => Releasing' \/ torn'
    BY <2>2, <2>3, ReleasingGoes
  <2>5. WorldOK'
    BY <2>0, <2>4, HarmlessWorld
  <2>6. q # Idle => HolderOK(q)'
    BY <1>2, <2>0, HarmlessHolder
  <2>. QED  BY <2>1, <2>5, <2>6, HolderSound
<1>. QED  BY <1>1, <1>2

-----------------------------------------------------------------------------
(* The actions that write no document, order or subscription.              *)

LEMMA NewSync ==
    ASSUME NEW q, q.op \in {"event", "cancel", "change"}, q \in Request, q.seen = NoRemote
    PROVE  q # Idle /\ Syncs(q) /\ SeenTyped(q)
BY DEF Idle, Syncs, SeenTyped, NoRemote

LEMMA DeliverStep ==
    ASSUME TypeOK, Sound, NEW c \in Clients, Deliver(c)
    PROVE  TypeOK' /\ Sound'
<1>0. EventsOK
  BY DEF Sound, WorldOK
<1>1. PICK e \in Sent \ receipts :
        /\ event[e].kind = "subscription"
        /\ Start(c, [op |-> "event", at |-> "retrieve", e |-> e, n |-> event[e].about,
                     now |-> FALSE, seen |-> NoRemote, matching |-> FALSE])
        /\ UNCHANGED <<sub, order, provider, receipts, history>>
        /\ Astray(c)
  BY DEF Deliver
<1>2. PICK q : q = [op |-> "event", at |-> "retrieve", e |-> e, n |-> event[e].about,
                    now |-> FALSE, seen |-> NoRemote, matching |-> FALSE]
  OBVIOUS
<1>3. /\ e \in Events /\ event[e].about \in Orders /\ remote[event[e].about].status # None
      /\ event[e] = [about |-> event[e].about, kind |-> "subscription"]
  BY <1>0, <1>1 DEF EventsOK, Sent, TypeOK
<1>4. q \in [op: {"event", "cancel"}, at: {"act", "retrieve", "judge", "commit", "accept"},
             e: 0..MaxEvents, n: Orders, now: BOOLEAN, seen: Remote, matching: BOOLEAN]
  BY <1>2, <1>3, RemoteType, Numbers DEF Events
<1>5. q \in Request
  BY <1>4 DEF Request
<1>6. q # Idle /\ Syncs(q) /\ SeenTyped(q)
  <2>1. q.op = "event" /\ q.seen = NoRemote
    BY <1>2
  <2>. QED  BY <1>5, <2>1, NewSync
<1>7. SyncOK(q)
  BY <1>1, <1>2, <1>3 DEF SyncOK
<1>8. HolderOK(q)
  BY <1>2, <1>7 DEF HolderOK
<1>9. strayed' \in BOOLEAN
  BY <1>1, AstrayTyped
<1>. QED  BY <1>1, <1>2, <1>5, <1>6, <1>8, <1>9, QuietStart

LEMMA CheckoutStep ==
    ASSUME TypeOK, Sound, NEW c \in Clients, Checkout(c)
    PROVE  TypeOK' /\ Sound'
<1>1. PICK tier \in Tiers :
        /\ Start(c, [op |-> "checkout", at |-> "settle", n |-> 0, tier |-> tier])
        /\ UNCHANGED <<sub, order, provider, receipts, history>>
        /\ NotAstray
  BY DEF Checkout
<1>2. PICK q : q = [op |-> "checkout", at |-> "settle", n |-> 0, tier |-> tier]
  OBVIOUS
<1>3. q \in [op: {"checkout"}, at: {"settle", "order", "session", "link"},
             n: 0..MaxOrders, tier: Tiers]
  BY <1>2, Numbers
<1>4. q \in Request
  BY <1>3 DEF Request
<1>5. q # Idle /\ ~Syncs(q) /\ SeenTyped(q)
  BY <1>2 DEF Idle, Syncs, SeenTyped
<1>6. HolderOK(q)
  BY <1>2, <1>5 DEF HolderOK, CheckoutOK
<1>7. strayed' \in BOOLEAN
  BY <1>1, AstrayTyped
<1>. QED  BY <1>1, <1>2, <1>4, <1>5, <1>6, <1>7, QuietStart

LEMMA RestartStep ==
    ASSUME TypeOK, Sound, NEW c \in Clients, RestartTrial(c)
    PROVE  TypeOK' /\ Sound'
<1>1. PICK q : q = [op |-> "restart", at |-> "settle"]
  OBVIOUS
<1>2. q \in Request
  BY <1>1 DEF Request
<1>3. q # Idle /\ ~Syncs(q) /\ SeenTyped(q)
  BY <1>1 DEF Idle, Syncs, SeenTyped
<1>4. HolderOK(q)
  BY <1>1, <1>3 DEF HolderOK, RestartTrial
<1>5. strayed' \in BOOLEAN
  BY AstrayTyped DEF RestartTrial
<1>6. Start(c, q) /\ UNCHANGED <<sub, order, provider, receipts, history>>
  BY <1>1 DEF RestartTrial
<1>. QED  BY <1>2, <1>3, <1>4, <1>5, <1>6, QuietStart

LEMMA BoundOrder ==
    ASSUME TypeOK, sub.remote # 0
    PROVE  sub.remote \in Orders
BY Numbers DEF TypeOK, Sub, Orders

LEMMA ChangeStep ==
    ASSUME TypeOK, Sound, NEW c \in Clients, Change(c)
    PROVE  TypeOK' /\ Sound'
<1>1. PICK tier \in Tiers :
        /\ sub.remote # 0 /\ remote[sub.remote].status = "active"
        /\ Start(c, [op |-> "change", at |-> "reserve", e |-> 0, n |-> sub.remote, tier |-> tier,
                     seen |-> NoRemote, matching |-> FALSE])
        /\ UNCHANGED <<sub, order, provider, receipts, history>>
        /\ NotAstray
  BY DEF Change
<1>2. PICK q : q = [op |-> "change", at |-> "reserve", e |-> 0, n |-> sub.remote, tier |-> tier,
                    seen |-> NoRemote, matching |-> FALSE]
  OBVIOUS
<1>3. sub.remote \in Orders
  BY <1>1, BoundOrder
<1>4. q \in [op: {"change"}, at: {"reserve", "release", "act", "retrieve", "judge", "commit", "accept"},
             e: {0}, n: Orders, tier: Tiers, seen: Remote, matching: BOOLEAN]
  BY <1>2, <1>3, RemoteType
<1>5. q \in Request
  BY <1>4 DEF Request
<1>6. q # Idle /\ Syncs(q) /\ SeenTyped(q)
  <2>1. q.op = "change" /\ q.seen = NoRemote
    BY <1>2
  <2>. QED  BY <1>5, <2>1, NewSync
<1>7. SyncOK(q)
  BY <1>1, <1>2 DEF SyncOK, None
<1>8. HolderOK(q)
  BY <1>2, <1>7 DEF HolderOK
<1>9. strayed' \in BOOLEAN
  BY <1>1, AstrayTyped
<1>. QED  BY <1>1, <1>2, <1>5, <1>6, <1>8, <1>9, QuietStart

LEMMA IdleType == Idle \in Request /\ SeenTyped(Idle)
BY DEF Request, SeenTyped, Syncs

LEMMA RetrieveStep ==
    ASSUME TypeOK, Sound, NEW c \in Clients, Retrieve(c)
    PROVE  TypeOK' /\ Sound'
<1>0. /\ LockOK /\ WorldOK /\ EventsOK /\ OrdersOK /\ RemotesOK /\ OneBillable /\ SubOK
  BY DEF Sound, WorldOK
<1>1. PICK r \in Request : r = request[c]
  BY DEF TypeOK
<1>2. r # Idle /\ r.at = "retrieve" /\ Syncs(r) /\ r.n \in Orders
  BY <1>1, AtType, SyncType DEF Retrieve, At
<1>3. PICK n \in Orders : n = r.n
  BY <1>2
<1>4. PICK seen : seen = [remote[n] EXCEPT !.next = None]
  OBVIOUS
<1>5. remote[n] \in Remote
  BY DEF TypeOK
<1>6. /\ seen \in Remote /\ seen.status = remote[n].status /\ seen.tier = remote[n].tier
      /\ seen.paid = remote[n].paid /\ seen.changing = remote[n].changing
  BY <1>4, <1>5, RemoteType DEF Remote
<1>7. PICK q : q = [r EXCEPT !.at = "judge", !.seen = seen]
  OBVIOUS
<1>8. q \in Request /\ Syncs(q)
  BY <1>2, <1>6, <1>7, SeenMoves
<1>9. /\ q.at = "judge" /\ q.seen = seen /\ q.op = r.op /\ q.e = r.e /\ q.n = n
      /\ r.op = "change" => q.tier = r.tier
  BY <1>1, <1>2, <1>3, <1>7 DEF Request, Idle, Syncs
<1>10. q # Idle /\ SeenTyped(q)
  BY <1>0, <1>6, <1>8, <1>9 DEF Syncs, SeenTyped, RemotesOK, RemoteOK
<1>11. Goes(c, q)
  BY <1>1, <1>3, <1>4, <1>7, <1>10 DEF Retrieve, Goes, TypeOK
<1>12. Harmless
  BY DEF Retrieve, Harmless, Noise, provider, history
<1>13. ~At(c, "release")
  BY <1>1, <1>2 DEF At
<1>14. c \notin expired => HolderOK(q)
  <2>. SUFFICES ASSUME c \notin expired
                PROVE  HolderOK(q)
    OBVIOUS
  <2>1. SyncOK(r)
    BY <1>1, <1>2, Holding DEF HolderOK
  <2>2. remote[n].status # None
    BY <1>3, <2>1 DEF SyncOK
  <2>3. seen.status # "canceled" => n \notin left /\ (sub.remote \in {0, n} \/ Over(sub.remote))
    <3>. SUFFICES ASSUME seen.status # "canceled"
                  PROVE  n \notin left /\ (sub.remote \in {0, n} \/ Over(sub.remote))
      OBVIOUS
    <3>1. n \notin left
      BY <1>0, <1>6 DEF SubOK, Over
    <3>2. Billable(n)
      BY <1>5, <1>6, <2>2 DEF Billable, Live, Remote, None
    <3>3. ASSUME sub.remote \notin {0, n}
          PROVE  Over(sub.remote)
      <4>1. sub.remote \in Orders
        BY <3>3, BoundOrder
      <4>2. remote[sub.remote] \in Remote /\ remote[sub.remote].status # None
        BY <1>0, <4>1 DEF OrdersOK, OrderOK, TypeOK
      <4>3. ~Live(sub.remote)
        BY <1>0, <3>2, <3>3, <4>1 DEF OneBillable, Billable
      <4>. QED  BY <4>2, <4>3 DEF Live, Over, Remote
    <3>. QED  BY <3>1, <3>3
  <2>4. PriceOf(seen.tier) <= PriceOf(remote[n].tier)
    BY <1>6, PriceType
  <2>5. SeenOK(q)
    BY <1>6, <1>9, <2>2, <2>3, <2>4 DEF SeenOK, Same, Over
  <2>6. SyncOK(q)
    BY <1>3, <1>9, <2>1, <2>5 DEF SyncOK
  <2>. QED  BY <1>8, <1>9, <2>6 DEF HolderOK, Syncs
<1>15. Sound'
  BY <1>1, <1>2, <1>8, <1>10, <1>11, <1>12, <1>13, <1>14, QuietMove
<1>16. TypeOK'
  BY <1>8, <1>11, GoesTyped, AstrayTyped DEF TypeOK, Retrieve, provider, history
<1>. QED  BY <1>15, <1>16

LEMMA JudgeStep ==
    ASSUME TypeOK, Sound, NEW c \in Clients, Judge(c)
    PROVE  TypeOK' /\ Sound'
<1>0. AllTyped
  BY DEF Sound
<1>1. PICK r \in Request : r = request[c]
  BY DEF TypeOK
<1>2. /\ r # Idle /\ r.at = "judge" /\ Syncs(r) /\ r.n \in Orders /\ r.seen \in Remote
      /\ SeenTyped(r)
  BY <1>0, <1>1, AtType, SyncType DEF Judge, At, AllTyped
<1>3. PICK n \in Orders : n = r.n
  BY <1>2
<1>4. PICK seen : seen = [r.seen EXCEPT !.paid = remote[n].paid]
  OBVIOUS
<1>5. remote[n] \in Remote /\ remote[n].paid \in BOOLEAN
  BY DEF TypeOK, Remote
<1>6. /\ seen \in Remote /\ seen.status = r.seen.status /\ seen.tier = r.seen.tier
      /\ seen.paid = remote[n].paid /\ seen.changing = r.seen.changing /\ seen.old = r.seen.old
  BY <1>2, <1>4, <1>5 DEF Remote
<1>7. PICK admits \in BOOLEAN : admits <=> Admits(sub, n, seen)
  OBVIOUS
<1>8. PICK matching \in BOOLEAN : matching <=> admits /\ sub.remote = n
  OBVIOUS
<1>9. PICK kept \in Remote : kept = IF admits THEN seen ELSE NoRemote
  BY <1>6, RemoteType
<1>10. PICK at \in {"commit", "accept"} : at = IF admits THEN "commit" ELSE "accept"
  OBVIOUS
<1>11. PICK q : q = [r EXCEPT !.at = at, !.seen = kept, !.matching = matching]
  OBVIOUS
<1>12. q \in Request /\ Syncs(q)
  BY <1>2, <1>11, MatchMoves
<1>13. /\ q.at = at /\ q.seen = kept /\ q.matching = matching /\ q.op = r.op /\ q.e = r.e /\ q.n = n
       /\ r.op = "change" => q.tier = r.tier
  BY <1>1, <1>2, <1>3, <1>11 DEF Request, Idle, Syncs
<1>14. q # Idle /\ SeenTyped(q)
  <2>1. q # Idle
    BY <1>12 DEF Syncs
  <2>2. CASE admits
    BY <1>2, <1>6, <1>9, <1>13, <2>1, <2>2 DEF SeenTyped
  <2>3. CASE ~admits
    BY <1>9, <1>13, <2>1, <2>3 DEF SeenTyped, NoRemote
  <2>. QED  BY <2>1, <2>2, <2>3
<1>15. request' = [request EXCEPT
              ![c].at = IF Admits(sub, n, seen) THEN "commit" ELSE "accept",
              ![c].seen = IF Admits(sub, n, seen) THEN seen ELSE NoRemote,
              ![c].matching = Admits(sub, n, seen) /\ sub.remote = n]
  BY <1>1, <1>3, <1>4 DEF Judge
<1>16. matching = (Admits(sub, n, seen) /\ sub.remote = n)
  BY <1>7, <1>8
<1>17. request' = [request EXCEPT ![c] = q]
  BY <1>1, <1>7, <1>9, <1>10, <1>11, <1>15, <1>16 DEF TypeOK
<1>18. Goes(c, q)
  BY <1>14, <1>17 DEF Judge, Goes
<1>19. Harmless
  BY DEF Judge, Harmless, Noise, provider
<1>20. ~At(c, "release")
  BY <1>1, <1>2 DEF At
<1>21. c \in expired => Sound'
  BY <1>14, <1>18, <1>19, <1>20, Lagging
<1>22. c \notin expired => Sound'
  <2>. SUFFICES ASSUME c \notin expired
                PROVE  Sound'
    OBVIOUS
  <2>0. LockOK /\ WorldOK /\ EventsOK
    BY DEF Sound, WorldOK
  <2>1. c = holder /\ SyncOK(r) /\ SeenOK(r)
    BY <1>1, <1>2, Holding DEF HolderOK, SyncOK
  <2>2. \A d \in Clients \ {c} : request'[d] = request[d]
    BY <1>17 DEF TypeOK
  <2>3. sub'.remote = sub.remote
    BY <1>19 DEF Harmless
  <2>4. Releasing => Releasing'
    BY <1>20, <2>2, <2>3, ReleasingGoes
  <2>5. WorldOK'
    BY <1>19, <2>0, <2>4, HarmlessWorld
  <2>6. CASE admits
    <3>1. SeenOK(q)
      BY <1>3, <1>6, <1>9, <1>13, <2>1, <2>6 DEF SeenOK, Same
    <3>2. Admitted(q)
      <4>1. q.matching = (sub.remote = q.n)
        BY <1>8, <1>13, <2>6
      <4>2. ASSUME sub.remote # q.n
            PROVE  q.seen.status = "active" /\ q.seen.paid /\ ~(sub.remote # 0 /\ Full(sub))
        BY <1>7, <1>9, <1>13, <2>6, <4>2 DEF Admits
      <4>. QED  BY <4>1, <4>2 DEF Admitted
    <3>3. SyncOK(q)
      BY <1>3, <1>10, <1>13, <2>1, <2>6, <3>1, <3>2 DEF SyncOK
    <3>4. HolderOK(q)
      BY <1>12, <1>13, <3>3 DEF HolderOK, Syncs
    <3>5. HolderOK(q)'
      BY <1>12, <1>19, <2>0, <3>4, HarmlessHolder
    <3>. QED  BY <1>14, <1>18, <2>1, <2>5, <3>5, HolderSound
  <2>7. CASE ~admits
    <3>1. q.at = "accept"
      BY <1>10, <1>13, <2>7
    <3>2. ASSUME Unaccepted(n)' \subseteq {q.e}
          PROVE  Said(n)'
      <4>1. Unaccepted(n)' = Unaccepted(n)
        BY DEF Judge, provider, Unaccepted, Sent
      <4>2. Same(r.seen, remote[n])
        BY <1>3, <1>13, <2>1, <3>2, <4>1 DEF SeenOK
      <4>3. sub.remote # n
        BY <1>7, <2>7 DEF Admits
      <4>4. remote[n].status = "active" /\ remote[n].paid => n \in passed'
        <5>. SUFFICES ASSUME remote[n].status = "active", remote[n].paid
                      PROVE  n \in passed'
          OBVIOUS
        <5>1. seen.status = "active" /\ seen.paid
          BY <1>6, <4>2 DEF Same
        <5>2. sub.remote # 0 /\ Full(sub)
          BY <1>7, <2>7, <5>1 DEF Admits
        <5>. QED  BY <1>1, <1>3, <1>4, <4>3, <5>1, <5>2 DEF Judge
      <4>. QED  BY <1>19, <4>3, <4>4 DEF Said, Harmless
    <3>3. /\ remote'[q.n].status # None
          /\ q.op = "event" => q.e \in Sent' /\ event'[q.e] = [about |-> q.n, kind |-> "subscription"]
          /\ q.op # "event" => q.e = 0 /\ sub'.remote = q.n
      BY <1>3, <1>13, <2>1 DEF SyncOK, Judge, provider, Sent
    <3>4. SyncOK(q)'
      BY <1>13, <3>1, <3>2, <3>3 DEF SyncOK
    <3>5. HolderOK(q)'
      BY <1>12, <1>13, <3>4 DEF HolderOK, Syncs
    <3>. QED  BY <1>14, <1>18, <2>1, <2>5, <3>5, HolderSound
  <2>. QED  BY <2>6, <2>7
<1>23. TypeOK'
  <2>1. passed' \subseteq Orders
    BY <1>1, <1>2 DEF Judge, TypeOK
  <2>2. strayed' \in BOOLEAN
    BY AstrayTyped DEF Judge
  <2>. QED  BY <1>12, <1>18, <2>1, <2>2, GoesTyped DEF TypeOK, Judge, provider
<1>. QED  BY <1>21, <1>22, <1>23

LEMMA RefuseStep ==
    ASSUME TypeOK, Sound, NEW c \in Clients, Refuse(c)
    PROVE  TypeOK' /\ Sound'
<1>1. Goes(c, Idle) /\ request[c] # Idle
  BY DEF Refuse, Goes
<1>2. Harmless
  BY DEF Refuse, Harmless, Noise, provider
<1>3. ~At(c, "release")
  BY DEF Refuse, At
<1>4. Sound'
  BY <1>1, <1>2, <1>3, IdleType, QuietMove
<1>5. torn' \in BOOLEAN
  BY DEF Refuse, TypeOK
<1>6. TypeOK'
  BY <1>1, <1>5, IdleType, GoesTyped, AstrayTyped DEF TypeOK, Refuse, provider
<1>. QED  BY <1>4, <1>6

LEMMA FailStep ==
    ASSUME TypeOK, Sound, NEW c \in Clients, Fail(c)
    PROVE  TypeOK' /\ Sound'
<1>1. Goes(c, Idle) /\ request[c] # Idle
  BY DEF Fail, Goes
<1>2. Harmless
  BY DEF Fail, Harmless, Noise, provider
<1>3. At(c, "release") => torn'
  <2>. SUFFICES ASSUME At(c, "release")
                PROVE  torn'
    OBVIOUS
  <2>1. PICK r \in Request : r = request[c]
    BY DEF TypeOK
  <2>2. r # Idle /\ r.at = "release"
    BY <2>1 DEF At
  <2>3. r.op = "change"
    BY <2>2, AtType, SyncType
  <2>. QED  BY <2>1, <2>3 DEF Fail
<1>4. Sound'
  BY <1>1, <1>2, <1>3, IdleType, QuietMove
<1>5. mishaps' \in 0..MaxMishaps
  BY Numbers DEF Fail, TypeOK
<1>6. torn' \in BOOLEAN
  BY DEF Fail, TypeOK
<1>7. TypeOK'
  BY <1>1, <1>5, <1>6, IdleType, GoesTyped, AstrayTyped DEF TypeOK, Fail, provider
<1>. QED  BY <1>4, <1>7

LEMMA LockExpiresStep ==
    ASSUME TypeOK, Sound, LockExpires
    PROVE  TypeOK' /\ Sound'
<1>0. LockOK /\ WorldOK /\ AllTyped
  BY DEF Sound
<1>1. holder \in Clients /\ holder' = Nobody /\ expired' = expired \cup {holder} /\ request' = request
  BY DEF LockExpires, TypeOK
<1>2. LockOK' /\ AllTyped'
  BY <1>0, <1>1, Numbers DEF LockOK, AllTyped, TypeOK
<1>3. Harmless
  BY DEF LockExpires, Harmless, Noise, provider, history
<1>4. Releasing => Releasing'
  BY <1>1, <1>3 DEF Releasing, At, Harmless
<1>5. WorldOK'
  BY <1>0, <1>3, <1>4, HarmlessWorld
<1>6. mishaps' \in 0..MaxMishaps
  BY Numbers DEF LockExpires, TypeOK
<1>7. TypeOK'
  BY <1>1, <1>6 DEF TypeOK, LockExpires, provider, history, NotAstray
<1>. QED  BY <1>1, <1>2, <1>5, <1>7 DEF Sound, HoldersOK

LEMMA SettledStep ==
    ASSUME TypeOK, Sound, NEW c \in Clients, Settled(c)
    PROVE  TypeOK' /\ Sound'
<1>0. OrdersOK /\ SubOK
  BY DEF Sound, WorldOK
<1>1. PICK r \in Request : r = request[c]
  BY DEF TypeOK
<1>2. r # Idle /\ r.at = "settle" /\ ~Syncs(r) /\ r.op \in {"checkout", "restart"}
  BY <1>1, AtType, OtherType DEF Settled, At
<1>3. PICK at \in {"order", "grant"} : at = IF r.op = "checkout" THEN "order" ELSE "grant"
  OBVIOUS
<1>4. PICK q : q = [r EXCEPT !.at = at]
  OBVIOUS
<1>5. q \in Request /\ q # Idle /\ ~Syncs(q)
  BY <1>2, <1>3, <1>4, CheckoutMoves, RestartMoves
<1>6. q.at = at /\ q.op = r.op
  BY <1>2, <1>4 DEF Request, Idle
<1>7. Goes(c, q) /\ SeenTyped(q)
  BY <1>1, <1>3, <1>4, <1>5 DEF Settled, Continue, Goes, TypeOK, SeenTyped
<1>8. Harmless
  BY DEF Settled, Harmless, Noise, provider, history
<1>9. ~At(c, "release")
  BY <1>1, <1>2 DEF At
<1>10. c \notin expired => HolderOK(q)
  <2>. SUFFICES ASSUME c \notin expired
                PROVE  HolderOK(q)
    OBVIOUS
  <2>1. HolderOK(r)
    BY <1>1, <1>2, Holding
  <2>2. CASE r.op = "checkout"
    <3>1. Unsettled("checkout") = {} /\ (sub.remote # 0 => Over(sub.remote))
      BY <1>1, <2>2 DEF Settled
    <3>2. ASSUME NEW m \in Orders
          PROVE  ~Billable(m)
      <4>1. order[m].state = "pending" => ~order[m].linked
        BY <3>1 DEF Unsettled
      <4>2. ~Payable(m)
        BY <1>0, <4>1 DEF OrdersOK, OrderOK, Payable
      <4>3. ~Live(m)
        <5>. SUFFICES ASSUME Live(m)
                      PROVE  FALSE
          OBVIOUS
        <5>1. order[m].state = "paid"
          BY <1>0, <4>1 DEF OrdersOK, OrderOK, Live, None
        <5>2. Over(m)
          BY <1>0, <3>1, <5>1, Numbers DEF OrdersOK, OrderOK, SubOK
        <5>. QED  BY <5>2 DEF Over, Live
      <4>. QED  BY <4>2, <4>3 DEF Billable
    <3>. QED  BY <1>3, <1>5, <1>6, <2>2, <3>2 DEF HolderOK, CheckoutOK
  <2>3. CASE r.op = "restart"
    BY <1>5, <1>6, <2>1, <2>3 DEF HolderOK
  <2>. QED  BY <1>2, <2>2, <2>3
<1>11. Sound'
  BY <1>1, <1>2, <1>5, <1>7, <1>8, <1>9, <1>10, QuietMove
<1>12. TypeOK'
  BY <1>5, <1>7, GoesTyped, AstrayTyped DEF TypeOK, Settled, Continue, provider, history
<1>. QED  BY <1>11, <1>12

-----------------------------------------------------------------------------
(* The actions that write an order.                                        *)

LEMMA LaggingQuiet ==
    ASSUME TypeOK, Sound, NEW c \in Clients, c \in expired, NEW q, SeenTyped(q), Goes(c, q),
           Astray(c), ~strayed', UNCHANGED <<event, history>>, ~At(c, "release")
    PROVE  Sound'
<1>1. UNCHANGED <<sub, order, remote, receipts>>
  BY NoteAstray
<1>2. Harmless
  BY <1>1 DEF Harmless, Noise, history
<1>. QED  BY <1>2, Lagging

LEMMA OrderStep ==
    ASSUME TypeOK, Sound, NEW c \in Clients, request[c] # Idle, c \notin expired,
           NEW q, ~Syncs(q), Goes(c, q), ~At(c, "release"),
           NEW n \in Orders, NEW o, order' = [order EXCEPT ![n] = o],
           UNCHANGED <<sub, provider, receipts, history>>,
           order[n].session = "expired" => o.session = "expired",
           OrderOK(n)',
           Billable(n)' => Billable(n) \/ \A m \in Orders : ~Billable(m),
           q # Idle => HolderOK(q)'
    PROVE  Sound'
<1>0. LockOK /\ WorldOK /\ EventsOK /\ AllTyped
  BY DEF Sound, WorldOK
<1>1. c = holder
  BY Holding
<1>2. SeenTyped(q)
  BY DEF SeenTyped
<1>3. \A d \in Clients \ {c} : request'[d] = request[d]
  BY <1>0, <1>2, Going
<1>4. Releasing => Releasing'
  BY <1>3, ReleasingGoes
<1>5. order'[n] = o /\ \A m \in Orders \ {n} : order'[m] = order[m]
  BY DEF TypeOK
<1>6. Sent' = Sent /\ \A m \in Orders : Unaccepted(m)' = Unaccepted(m)
  BY DEF provider, Sent, Unaccepted
<1>7. EventsOK'
  <2>1. ASSUME NEW e \in Sent, event[e].kind = "expired"
        PROVE  order'[event[e].about].session = "expired"
    BY <1>0, <1>5, <2>1 DEF EventsOK
  <2>. QED  BY <1>0, <1>6, <2>1 DEF EventsOK, provider
<1>8. WorldOK'
  BY <1>0, <1>4, <1>6, <1>7, OrderWorld DEF provider, history
<1>. QED  BY <1>1, <1>2, <1>8, HolderSound

LEMMA OrderFields ==
    ASSUME NEW o \in Order
    PROVE  /\ \A s \in {None, "pending", "paid", "expired"} :
                /\ [o EXCEPT !.state = s] \in Order
                /\ [o EXCEPT !.state = s].state = s
                /\ [o EXCEPT !.state = s].session = o.session
                /\ [o EXCEPT !.state = s].linked = o.linked
                /\ [o EXCEPT !.state = s].tier = o.tier
           /\ \A s \in {None, "open", "complete", "expired"} :
                /\ [o EXCEPT !.session = s] \in Order
                /\ [o EXCEPT !.session = s].state = o.state
                /\ [o EXCEPT !.session = s].session = s
                /\ [o EXCEPT !.session = s].linked = o.linked
                /\ [o EXCEPT !.session = s].tier = o.tier
           /\ [o EXCEPT !.linked = TRUE] \in Order
           /\ [o EXCEPT !.linked = TRUE].state = o.state
           /\ [o EXCEPT !.linked = TRUE].session = o.session
           /\ [o EXCEPT !.linked = TRUE].linked
           /\ [o EXCEPT !.linked = TRUE].tier = o.tier
BY DEF Order

LEMMA ExpireSessionStep ==
    ASSUME TypeOK, Sound, NEW c \in Clients, ExpireSession(c)
    PROVE  TypeOK' /\ (~strayed' => Sound')
<1>0. OrdersOK
  BY DEF Sound, WorldOK
<1>1. PICK n \in Unsettled(request[c].op) :
        /\ order[n].linked /\ order[n].session = "open"
        /\ order' = [order EXCEPT ![n].session = "expired"]
  BY DEF ExpireSession
<1>2. PICK r \in Request : r = request[c]
  BY DEF TypeOK
<1>3. r # Idle /\ r.at = "settle" /\ ~Syncs(r) /\ ~At(c, "release") /\ SeenTyped(r)
  BY <1>2, AtType DEF ExpireSession, At, SeenTyped
<1>4. n \in Orders /\ order[n] \in Order
  BY <1>1 DEF Unsettled, TypeOK
<1>5. PICK o : o = [order[n] EXCEPT !.session = "expired"]
  OBVIOUS
<1>6. /\ o \in Order /\ o.session = "expired" /\ o.state = order[n].state
      /\ o.linked = order[n].linked /\ o.tier = order[n].tier
  BY <1>4, <1>5, OrderFields
<1>7. order' = [order EXCEPT ![n] = o]
  BY <1>1, <1>5 DEF TypeOK
<1>8. Goes(c, r)
  BY <1>2, <1>3 DEF ExpireSession, Goes, TypeOK
<1>9. ~strayed' => Sound'
  <2>. SUFFICES ASSUME ~strayed'
                PROVE  Sound'
    OBVIOUS
  <2>1. CASE c \in expired
    BY <1>3, <1>8, <2>1, LaggingQuiet DEF ExpireSession, provider
  <2>2. CASE c \notin expired
    <3>1. HolderOK(r)
      BY <1>2, <1>3, <2>2, Holding
    <3>2. HolderOK(r)'
      BY <1>3, <3>1 DEF HolderOK, CheckoutOK, Over, ExpireSession, provider
    <3>3. order'[n] = o
      BY <1>4, <1>7 DEF TypeOK
    <3>4. OrderOK(n)' /\ ~Payable(n)'
      BY <1>0, <1>1, <1>4, <1>6, <3>3 DEF OrdersOK, OrderOK, Payable, None, ExpireSession, provider, history
    <3>5. Billable(n)' => Billable(n)
      BY <3>4 DEF Billable, Live, ExpireSession, provider
    <3>. QED  BY <1>2, <1>3, <1>4, <1>6, <1>7, <1>8, <2>2, <3>2, <3>4, <3>5, OrderStep DEF ExpireSession
  <2>. QED  BY <2>1, <2>2
<1>10. TypeOK'
  <2>1. order' \in [Orders -> Order]
    BY <1>4, <1>6, <1>7 DEF TypeOK
  <2>. QED  BY <2>1, AstrayTyped DEF TypeOK, ExpireSession, provider, history, lock
<1>. QED  BY <1>9, <1>10

LEMMA ExpireOrderStep ==
    ASSUME TypeOK, Sound, NEW c \in Clients, ExpireOrder(c)
    PROVE  TypeOK' /\ (~strayed' => Sound')
<1>0. OrdersOK
  BY DEF Sound, WorldOK
<1>1. PICK n \in Unsettled(request[c].op) :
        /\ order[n].linked => order[n].session = "expired"
        /\ order' = [order EXCEPT ![n].state = "expired"]
  BY DEF ExpireOrder
<1>2. PICK r \in Request : r = request[c]
  BY DEF TypeOK
<1>3. r # Idle /\ r.at = "settle" /\ ~Syncs(r) /\ ~At(c, "release") /\ SeenTyped(r)
  BY <1>2, AtType DEF ExpireOrder, At, SeenTyped
<1>4. n \in Orders /\ order[n] \in Order /\ order[n].state = "pending"
  BY <1>1 DEF Unsettled, TypeOK
<1>5. PICK o : o = [order[n] EXCEPT !.state = "expired"]
  OBVIOUS
<1>6. /\ o \in Order /\ o.session = order[n].session /\ o.state = "expired"
      /\ o.linked = order[n].linked /\ o.tier = order[n].tier
  BY <1>4, <1>5, OrderFields
<1>7. order' = [order EXCEPT ![n] = o]
  BY <1>1, <1>5 DEF TypeOK
<1>8. Goes(c, r)
  BY <1>2, <1>3 DEF ExpireOrder, Goes, TypeOK
<1>9. ~strayed' => Sound'
  <2>. SUFFICES ASSUME ~strayed'
                PROVE  Sound'
    OBVIOUS
  <2>1. CASE c \in expired
    BY <1>3, <1>8, <2>1, LaggingQuiet DEF ExpireOrder, provider
  <2>2. CASE c \notin expired
    <3>1. HolderOK(r)
      BY <1>2, <1>3, <2>2, Holding
    <3>2. HolderOK(r)'
      BY <1>3, <3>1 DEF HolderOK, CheckoutOK, Over, ExpireOrder, provider
    <3>3. order'[n] = o
      BY <1>4, <1>7 DEF TypeOK
    <3>4. OrderOK(n)' /\ ~Payable(n)'
      BY <1>0, <1>1, <1>4, <1>6, <3>3 DEF OrdersOK, OrderOK, Payable, None, ExpireOrder, provider, history
    <3>5. Billable(n)' => Billable(n)
      BY <3>4 DEF Billable, Live, ExpireOrder, provider
    <3>. QED  BY <1>2, <1>3, <1>4, <1>6, <1>7, <1>8, <2>2, <3>2, <3>4, <3>5, OrderStep DEF ExpireOrder
  <2>. QED  BY <2>1, <2>2
<1>10. TypeOK'
  <2>1. order' \in [Orders -> Order]
    BY <1>4, <1>6, <1>7 DEF TypeOK
  <2>. QED  BY <2>1, AstrayTyped DEF TypeOK, ExpireOrder, provider, history, lock
<1>. QED  BY <1>9, <1>10

LEMMA PlaceOrderStep ==
    ASSUME TypeOK, Sound, NEW c \in Clients, PlaceOrder(c)
    PROVE  TypeOK' /\ (~strayed' => Sound')
<1>0. OrdersOK
  BY DEF Sound, WorldOK
<1>1. PICK n \in Orders :
          /\ order[n].state = None
          /\ order' = [order EXCEPT ![n].state = "pending", ![n].tier = request[c].tier]
          /\ request' = [request EXCEPT ![c].at = "session", ![c].n = n]
  BY DEF PlaceOrder
<1>2. PICK r \in Request : r = request[c]
  BY DEF TypeOK
<1>3. r # Idle /\ r.at = "order" /\ ~Syncs(r) /\ r.op = "checkout" /\ ~At(c, "release") /\ r.tier \in Tiers
  BY <1>2, AtType, OtherType DEF PlaceOrder, At
<1>4. order[n] \in Order
  BY DEF TypeOK
<1>5. PICK o : o = [order[n] EXCEPT !.state = "pending", !.tier = r.tier]
  OBVIOUS
<1>6. /\ o \in Order /\ o.session = order[n].session /\ o.state = "pending"
      /\ o.linked = order[n].linked /\ o.tier = r.tier
  BY <1>3, <1>4, <1>5 DEF Order
<1>7. order' = [order EXCEPT ![n] = o]
  BY <1>1, <1>2, <1>5 DEF TypeOK
<1>8. PICK q : q = [r EXCEPT !.at = "session", !.n = n]
  OBVIOUS
<1>9. q \in Request /\ q # Idle /\ ~Syncs(q)
  BY <1>3, <1>8, CheckoutMoves
<1>10. q.at = "session" /\ q.op = "checkout" /\ q.n = n
  <2>1. r \in [op: {"checkout"}, at: {"settle", "order", "session", "link"}, n: 0..MaxOrders, tier: Tiers]
    BY <1>3 DEF Request, Idle
  <2>. QED  BY <1>8, <2>1
<1>11. Goes(c, q) /\ SeenTyped(q)
  BY <1>1, <1>2, <1>8, <1>9 DEF PlaceOrder, Goes, TypeOK, SeenTyped
<1>12. ~strayed' => Sound'
  <2>. SUFFICES ASSUME ~strayed'
                PROVE  Sound'
    OBVIOUS
  <2>1. CASE c \in expired
    BY <1>3, <1>11, <2>1, LaggingQuiet DEF PlaceOrder, provider
  <2>2. CASE c \notin expired
    <3>1. CheckoutOK(r)
      BY <1>2, <1>3, <2>2, Holding DEF HolderOK
    <3>2. order'[n] = o /\ \A m \in Orders \ {n} : order'[m] = order[m]
      BY <1>7 DEF TypeOK
    <3>3. order[n].session = None /\ ~order[n].linked
      BY <1>0, <1>1 DEF OrdersOK, OrderOK
    <3>4. OrderOK(n)' /\ ~Payable(n)'
      BY <1>0, <1>1, <1>3, <1>6, <3>2, <3>3 DEF OrdersOK, OrderOK, Payable, None, PlaceOrder, provider, history
    <3>5. \A m \in Orders : Billable(m)' => Billable(m)
      BY <3>2, <3>4 DEF Billable, Live, Payable, PlaceOrder, provider
    <3>6. CheckoutOK(q)'
      BY <1>3, <1>6, <1>10, <3>1, <3>2, <3>3, <3>5 DEF CheckoutOK
    <3>7. HolderOK(q)'
      BY <1>9, <1>10, <3>6 DEF HolderOK
    <3>. QED  BY <1>2, <1>3, <1>6, <1>7, <1>9, <1>11, <2>2, <3>4, <3>5, <3>7, OrderStep DEF PlaceOrder
  <2>. QED  BY <2>1, <2>2
<1>13. TypeOK'
  <2>1. order' \in [Orders -> Order]
    BY <1>6, <1>7 DEF TypeOK
  <2>. QED  BY <1>9, <1>11, <2>1, GoesTyped, AstrayTyped DEF TypeOK, PlaceOrder, provider, history, lock
<1>. QED  BY <1>12, <1>13

LEMMA CreateSessionStep ==
    ASSUME TypeOK, Sound, NEW c \in Clients, CreateSession(c)
    PROVE  TypeOK' /\ (~strayed' => Sound')
<1>0. OrdersOK
  BY DEF Sound, WorldOK
<1>1. PICK r \in Request : r = request[c]
  BY DEF TypeOK
<1>2. r # Idle /\ r.at = "session" /\ ~Syncs(r) /\ r.op = "checkout" /\ ~At(c, "release")
  BY <1>1, AtType DEF CreateSession, At
<1>3. PICK q : q = [r EXCEPT !.at = "link"]
  OBVIOUS
<1>4. q \in Request /\ q # Idle /\ ~Syncs(q)
  BY <1>2, <1>3, CheckoutMoves
<1>5. q.at = "link" /\ q.op = "checkout" /\ q.n = r.n
  <2>1. r \in [op: {"checkout"}, at: {"settle", "order", "session", "link"}, n: 0..MaxOrders, tier: Tiers]
    BY <1>2 DEF Request, Idle
  <2>. QED  BY <1>3, <2>1
<1>6. Goes(c, q) /\ SeenTyped(q)
  BY <1>1, <1>3, <1>4 DEF CreateSession, Continue, Goes, TypeOK, SeenTyped
<1>7. ~strayed' => Sound'
  <2>. SUFFICES ASSUME ~strayed'
                PROVE  Sound'
    OBVIOUS
  <2>1. CASE c \in expired
    BY <1>2, <1>6, <2>1, LaggingQuiet DEF CreateSession, provider
  <2>2. CASE c \notin expired
    <3>1. CheckoutOK(r)
      BY <1>1, <1>2, <2>2, Holding DEF HolderOK
    <3>2. PICK n \in Orders : n = r.n
      BY <1>2, <3>1 DEF CheckoutOK
    <3>3. PICK o : o = [order[n] EXCEPT !.session = "open"]
      OBVIOUS
    <3>4. order' = [order EXCEPT ![n] = o] /\ order[n] \in Order
      BY <1>1, <3>2, <3>3 DEF CreateSession, TypeOK
    <3>5. /\ o \in Order /\ o.session = "open" /\ o.state = order[n].state
          /\ o.linked = order[n].linked /\ o.tier = order[n].tier
      BY <3>3, <3>4, OrderFields
    <3>6. order'[n] = o /\ \A m \in Orders \ {n} : order'[m] = order[m]
      BY <3>4 DEF TypeOK
    <3>7. order[n].state = "pending" /\ ~order[n].linked /\ order[n].session = None
      BY <1>2, <3>1, <3>2 DEF CheckoutOK
    <3>8. OrderOK(n)' /\ ~Payable(n)'
      BY <1>0, <3>5, <3>6, <3>7 DEF OrdersOK, OrderOK, Payable, None, CreateSession, provider, history
    <3>9. \A m \in Orders : Billable(m)' => Billable(m)
      BY <3>6, <3>8 DEF Billable, Live, Payable, CreateSession, provider
    <3>10. CheckoutOK(q)'
      BY <1>2, <1>5, <3>1, <3>2, <3>5, <3>6, <3>7, <3>9 DEF CheckoutOK
    <3>11. HolderOK(q)'
      BY <1>4, <1>5, <3>10 DEF HolderOK
    <3>12. order[n].session = "expired" => o.session = "expired"
      BY <3>7 DEF None
    <3>. QED  BY <1>1, <1>2, <1>4, <1>6, <2>2, <3>4, <3>8, <3>9, <3>11, <3>12, OrderStep DEF CreateSession
  <2>. QED  BY <2>1, <2>2
<1>8. TypeOK'
  <2>1. \A n \in Orders : [order[n] EXCEPT !.session = "open"] \in Order
    BY OrderFields DEF TypeOK
  <2>2. order' \in [Orders -> Order]
    BY <2>1 DEF TypeOK, CreateSession
  <2>. QED  BY <1>4, <1>6, <2>2, GoesTyped, AstrayTyped
            DEF TypeOK, CreateSession, Continue, provider, history, lock
<1>. QED  BY <1>7, <1>8

LEMMA LinkSessionStep ==
    ASSUME TypeOK, Sound, NEW c \in Clients, LinkSession(c)
    PROVE  TypeOK' /\ (~strayed' => Sound')
<1>0. OrdersOK
  BY DEF Sound, WorldOK
<1>1. PICK r \in Request : r = request[c]
  BY DEF TypeOK
<1>2. r # Idle /\ r.at = "link" /\ ~Syncs(r) /\ r.op = "checkout" /\ ~At(c, "release")
  BY <1>1, AtType DEF LinkSession, At
<1>3. Goes(c, Idle) /\ SeenTyped(Idle) /\ ~Syncs(Idle)
  BY IdleType DEF LinkSession, Goes, Syncs
<1>4. ~strayed' => Sound'
  <2>. SUFFICES ASSUME ~strayed'
                PROVE  Sound'
    OBVIOUS
  <2>1. CASE c \in expired
    BY <1>2, <1>3, <2>1, LaggingQuiet DEF LinkSession, provider
  <2>2. CASE c \notin expired
    <3>1. CheckoutOK(r)
      BY <1>1, <1>2, <2>2, Holding DEF HolderOK
    <3>2. PICK n \in Orders : n = r.n
      BY <1>2, <3>1 DEF CheckoutOK
    <3>3. PICK o : o = [order[n] EXCEPT !.linked = TRUE]
      OBVIOUS
    <3>4. order' = [order EXCEPT ![n] = o] /\ order[n] \in Order
      BY <1>1, <3>2, <3>3 DEF LinkSession, TypeOK
    <3>5. /\ o \in Order /\ o.session = order[n].session /\ o.state = order[n].state
          /\ o.linked /\ o.tier = order[n].tier
      BY <3>3, <3>4, OrderFields
    <3>6. order'[n] = o /\ \A m \in Orders \ {n} : order'[m] = order[m]
      BY <3>4 DEF TypeOK
    <3>7. /\ order[n].state = "pending" /\ order[n].session \in {"open", "expired"}
          /\ \A m \in Orders : ~Billable(m)
      BY <1>2, <3>1, <3>2 DEF CheckoutOK
    <3>8. OrderOK(n)'
      BY <1>0, <3>5, <3>6, <3>7 DEF OrdersOK, OrderOK, Payable, None, LinkSession, provider, history
    <3>9. order[n].session = "expired" => o.session = "expired"
      BY <3>5
    <3>10. Billable(n)' => Billable(n) \/ \A m \in Orders : ~Billable(m)
      BY <3>7
    <3>11. PICK q : q = Idle
      OBVIOUS
    <3>12. Goes(c, q) /\ ~Syncs(q) /\ (q # Idle => HolderOK(q)')
      BY <1>3, <3>11
    <3>13. UNCHANGED <<sub, provider, receipts, history>>
      BY DEF LinkSession
    <3>. QED  BY <1>1, <1>2, <2>2, <3>4, <3>8, <3>9, <3>10, <3>12, <3>13, OrderStep
  <2>. QED  BY <2>1, <2>2
<1>5. TypeOK'
  <2>1. \A n \in Orders : [order[n] EXCEPT !.linked = TRUE] \in Order
    BY OrderFields DEF TypeOK
  <2>2. order' \in [Orders -> Order]
    BY <2>1 DEF TypeOK, LinkSession
  <2>. QED  BY <1>3, <2>2, IdleType, GoesTyped, AstrayTyped
            DEF TypeOK, LinkSession, provider, history, lock
<1>. QED  BY <1>4, <1>5

LEMMA SessionExpiredStep ==
    ASSUME TypeOK, Sound, NEW c \in Clients, SessionExpired(c)
    PROVE  TypeOK' /\ (~strayed' => Sound')
<1>0. LockOK /\ WorldOK /\ EventsOK /\ OrdersOK /\ AllTyped
  BY DEF Sound, WorldOK
<1>1. PICK e \in Sent \ receipts :
        /\ event[e].kind = "expired"
        /\ LET n == event[e].about IN
           order' = IF order[n].state = "pending" /\ order[n].linked
                    THEN [order EXCEPT ![n].state = "expired"] ELSE order
        /\ receipts' = receipts \cup {e}
  BY DEF SessionExpired
<1>2. UNCHANGED <<sub, remote, event, request, mishaps, holder, expired, left, passed, torn>>
  BY DEF SessionExpired, provider, history, lock
<1>3. PICK n \in Orders : n = event[e].about
  BY <1>0, <1>1 DEF EventsOK
<1>4. order[n].session = "expired" /\ order[n] \in Order
  BY <1>0, <1>1, <1>3 DEF EventsOK, TypeOK
<1>5. PICK o : o = IF order[n].state = "pending" /\ order[n].linked
                   THEN [order[n] EXCEPT !.state = "expired"] ELSE order[n]
  OBVIOUS
<1>6. order' = [order EXCEPT ![n] = o]
  BY <1>1, <1>3, <1>5 DEF TypeOK
<1>7. /\ o \in Order /\ o.session = "expired" /\ (o.state = "expired" \/ o.state = order[n].state)
      /\ (order[n].state = None => o.state = None)
      /\ o.linked = order[n].linked /\ o.tier = order[n].tier
  BY <1>4, <1>5, OrderFields DEF None
<1>8. order'[n] = o /\ \A m \in Orders \ {n} : order'[m] = order[m]
  BY <1>6 DEF TypeOK
<1>9. Sent' = Sent /\ \A m \in Orders : Unaccepted(m)' = Unaccepted(m)
  <2>1. Sent' = Sent
    BY <1>2 DEF Sent
  <2>2. \A m \in Orders : event[e] # [about |-> m, kind |-> "subscription"]
    BY <1>1
  <2>3. \A m \in Orders : Unaccepted(m)' = Unaccepted(m)
    BY <1>1, <1>2, <2>1, <2>2 DEF Unaccepted
  <2>. QED  BY <2>1, <2>3
<1>10. EventsOK'
  <2>1. ASSUME NEW f \in Sent, event[f].kind = "expired"
        PROVE  order'[event[f].about].session = "expired"
    BY <1>0, <1>7, <1>8, <2>1 DEF EventsOK
  <2>2. receipts' \subseteq Sent
    BY <1>0, <1>1 DEF EventsOK
  <2>. QED  BY <1>0, <1>2, <1>9, <2>1, <2>2 DEF EventsOK
<1>11. OrderOK(n)' /\ ~Payable(n)'
  BY <1>0, <1>2, <1>4, <1>7, <1>8 DEF OrdersOK, OrderOK, Payable, None
<1>12. Releasing => Releasing'
  BY <1>2 DEF Releasing, At
<1>13. Billable(n)' => Billable(n) \/ \A m \in Orders : ~Billable(m)
  BY <1>2, <1>11 DEF Billable, Live
<1>14. WorldOK'
  BY <1>0, <1>2, <1>6, <1>9, <1>10, <1>11, <1>12, <1>13, OrderWorld
<1>15. LockOK' /\ AllTyped'
  BY <1>0, <1>2 DEF LockOK, AllTyped
<1>16. holder' = Nobody
  BY <1>2 DEF SessionExpired
<1>17. Sound'
  BY <1>14, <1>15, <1>16 DEF Sound, HoldersOK
<1>18. TypeOK'
  <2>1. order' \in [Orders -> Order]
    BY <1>6, <1>7 DEF TypeOK
  <2>2. receipts' \subseteq Events
    BY <1>1 DEF Sent, TypeOK
  <2>. QED  BY <1>2, <2>1, <2>2, AstrayTyped DEF TypeOK, SessionExpired
<1>. QED  BY <1>17, <1>18

-----------------------------------------------------------------------------
(* The actions that write the document or a receipt.                       *)

LEMMA ReserveTierStep ==
    ASSUME TypeOK, Sound, NEW c \in Clients, ReserveTier(c)
    PROVE  TypeOK' /\ (~strayed' => Sound')
<1>0. /\ LockOK /\ WorldOK /\ EventsOK /\ OrdersOK /\ RemotesOK /\ OneBillable
      /\ SubOK /\ NoneMissed /\ ScheduleKnown /\ AllTyped
  BY DEF Sound, WorldOK
<1>1. PICK r \in Request : r = request[c]
  BY DEF TypeOK
<1>2. /\ r # Idle /\ r.at = "reserve" /\ Syncs(r) /\ r.op = "change" /\ r.n \in Orders
      /\ r.tier \in Tiers /\ ~At(c, "release") /\ SeenTyped(r)
  BY <1>0, <1>1, AtType, SyncType DEF ReserveTier, At, AllTyped
<1>3. PICK q : q = [r EXCEPT !.at = "release"]
  OBVIOUS
<1>4. q \in Request /\ Syncs(q) /\ q # Idle
  BY <1>2, <1>3, ChangeMoves DEF Syncs
<1>5. /\ q.at = "release" /\ q.op = "change" /\ q.n = r.n /\ q.seen = r.seen /\ q.e = r.e
      /\ q.tier = r.tier
  BY <1>2, <1>3 DEF Request, Idle, Syncs
<1>6. Goes(c, q) /\ SeenTyped(q)
  BY <1>1, <1>2, <1>3, <1>4, <1>5 DEF ReserveTier, Continue, Goes, TypeOK, SeenTyped
<1>7. /\ sub'.scheduled = r.tier /\ sub'.remote = sub.remote /\ sub'.tier = sub.tier
      /\ sub'.status = sub.status /\ sub'.old = sub.old /\ sub' \in Sub
  BY <1>1, <1>2 DEF ReserveTier, TypeOK, Sub
<1>8. UNCHANGED <<order, remote, event, receipts, left, passed, torn>>
  BY DEF ReserveTier, provider, history
<1>9. ~strayed' => Sound'
  <2>. SUFFICES ASSUME ~strayed'
                PROVE  Sound'
    OBVIOUS
  <2>1. CASE c \in expired
    BY <1>2, <1>6, <1>8, <2>1, LaggingQuiet DEF ReserveTier, history
  <2>2. CASE c \notin expired
    <3>1. c = holder /\ SyncOK(r)
      BY <1>1, <1>2, <2>2, Holding DEF HolderOK
    <3>2. request'[c] = q
      BY <1>0, <1>1, <1>2, <1>6, Going
    <3>3. sub.remote = r.n
      BY <1>2, <3>1 DEF SyncOK
    <3>4. Releasing'
      BY <1>4, <1>5, <1>7, <3>2, <3>3 DEF Releasing, At
    <3>5. ScheduleKnown'
      BY <3>4 DEF ScheduleKnown
    <3>6. EventsOK' /\ OneBillable'
      BY <1>0, <1>8 DEF EventsOK, Sent, OneBillable, Billable, Live, Payable
    <3>7. OrdersOK' /\ RemotesOK'
      BY <1>0, <1>7, <1>8 DEF OrdersOK, OrderOK, Payable, RemotesOK, RemoteOK
    <3>8. SubOK'
      BY <1>0, <1>7, <1>8 DEF SubOK, Over
    <3>9. NoneMissed'
      BY <1>0, <1>7, <1>8 DEF NoneMissed, Said, Agrees, Unaccepted, Sent
    <3>10. SyncOK(q)'
      BY <1>2, <1>5, <1>7, <1>8, <3>1, <3>3 DEF SyncOK
    <3>11. HolderOK(q)'
      BY <1>5, <3>10 DEF HolderOK
    <3>12. WorldOK'
      BY <3>5, <3>6, <3>7, <3>8, <3>9 DEF WorldOK
    <3>. QED  BY <1>6, <3>1, <3>11, <3>12, HolderSound
  <2>. QED  BY <2>1, <2>2
<1>10. TypeOK'
  BY <1>4, <1>6, <1>7, <1>8, GoesTyped, AstrayTyped DEF TypeOK, ReserveTier, Continue
<1>. QED  BY <1>9, <1>10

LEMMA CancelTrialStep ==
    ASSUME TypeOK, Sound, NEW c \in Clients, CancelTrial(c)
    PROVE  TypeOK' /\ Sound'
<1>0. /\ LockOK /\ WorldOK /\ EventsOK /\ OrdersOK /\ RemotesOK /\ OneBillable
      /\ SubOK /\ NoneMissed /\ ScheduleKnown /\ AllTyped
  BY DEF Sound, WorldOK
<1>1. /\ sub'.scheduled = sub.scheduled /\ sub'.remote = 0 /\ sub.remote = 0 /\ sub'.tier = sub.tier
      /\ sub'.status = "cancelled" /\ sub'.old = sub.old /\ sub' \in Sub
  BY DEF CancelTrial, TypeOK, Sub
<1>2. UNCHANGED <<order, remote, event, receipts, left, passed, torn, request, mishaps, holder, expired>>
  BY DEF CancelTrial, provider, history, lock
<1>3. EventsOK' /\ OneBillable' /\ OrdersOK' /\ RemotesOK'
  <2>1. EventsOK' /\ OneBillable'
    BY <1>0, <1>2 DEF EventsOK, Sent, OneBillable, Billable, Live, Payable
  <2>2. OrdersOK' /\ RemotesOK'
    BY <1>0, <1>1, <1>2 DEF OrdersOK, OrderOK, Payable, RemotesOK, RemoteOK
  <2>. QED  BY <2>1, <2>2
<1>4. SubOK'
  BY <1>0, <1>1, <1>2 DEF SubOK, Over
<1>5. NoneMissed'
  <2>1. ASSUME NEW n \in Orders, Said(n)
        PROVE  Said(n)'
    BY <1>1, <1>2, <2>1, Numbers DEF Said
  <2>. QED  BY <1>0, <1>2, <2>1 DEF NoneMissed, Unaccepted, Sent
<1>6. ScheduleKnown'
  BY <1>1 DEF ScheduleKnown
<1>7. LockOK' /\ AllTyped' /\ HoldersOK'
  BY <1>0, <1>2 DEF LockOK, AllTyped, HoldersOK, CancelTrial
<1>8. TypeOK'
  BY <1>1, <1>2 DEF TypeOK, CancelTrial, NotAstray
<1>. QED  BY <1>3, <1>4, <1>5, <1>6, <1>7, <1>8 DEF Sound, WorldOK

LEMMA GrantTrialStep ==
    ASSUME TypeOK, Sound, NEW c \in Clients, GrantTrial(c)
    PROVE  TypeOK' /\ (~strayed' => Sound')
<1>0. /\ LockOK /\ WorldOK /\ EventsOK /\ OrdersOK /\ RemotesOK /\ OneBillable
      /\ SubOK /\ NoneMissed /\ ScheduleKnown /\ AllTyped
  BY DEF Sound, WorldOK
<1>1. PICK r \in Request : r = request[c]
  BY DEF TypeOK
<1>2. r # Idle /\ r.at = "grant" /\ r.op = "restart" /\ ~At(c, "release")
  BY <1>1, AtType DEF GrantTrial, At
<1>3. PICK q \in Request : q = Idle
  BY IdleType
<1>4. Goes(c, q) /\ SeenTyped(q)
  BY <1>3, IdleType DEF GrantTrial, Goes
<1>5. /\ sub'.scheduled = None /\ sub'.remote = 0 /\ sub'.tier = Trial
      /\ sub'.status = "trialing" /\ sub' \in Sub
      /\ left' = left \cup ({sub.remote} \ {0})
  BY Numbers DEF GrantTrial, TypeOK, Sub
<1>6. UNCHANGED <<order, remote, event, receipts, passed, torn>>
  BY DEF GrantTrial, provider
<1>7. sub.remote # 0 => sub.remote \in Orders
  BY BoundOrder
<1>8. ~strayed' => Sound'
  <2>. SUFFICES ASSUME ~strayed'
                PROVE  Sound'
    OBVIOUS
  <2>1. CASE c \in expired
    <3>1. sub' = sub /\ left' = left
      BY <1>5, <2>1, NoteAstray DEF GrantTrial
    <3>. QED  BY <1>2, <1>4, <1>6, <2>1, <3>1, LaggingQuiet DEF GrantTrial, history
  <2>2. CASE c \notin expired
    <3>1. c = holder /\ (sub.remote # 0 => Over(sub.remote))
      BY <1>1, <1>2, <2>2, Holding DEF HolderOK
    <3>2. ScheduleKnown'
      BY <1>5 DEF ScheduleKnown
    <3>3. EventsOK' /\ OneBillable'
      BY <1>0, <1>6 DEF EventsOK, Sent, OneBillable, Billable, Live, Payable
    <3>4. OrdersOK'
      BY <1>0, <1>5, <1>6, Numbers DEF OrdersOK, OrderOK, Payable
    <3>5. RemotesOK'
      <4>1. ASSUME NEW n \in Orders
            PROVE  remote[n].next = None
        <5>1. RemoteOK(n)
          BY <1>0 DEF RemotesOK
        <5>2. CASE sub.remote = n
          BY <3>1, <5>1, <5>2, Numbers DEF RemoteOK, Over
        <5>3. CASE sub.remote # n
          BY <5>1, <5>3 DEF RemoteOK
        <5>. QED  BY <5>2, <5>3
      <4>. QED  BY <1>0, <1>6, <4>1 DEF RemotesOK, RemoteOK
    <3>6. SubOK'
      BY <1>0, <1>5, <1>6, <3>1, Numbers DEF SubOK, Over, TypeOK
    <3>7. NoneMissed'
      <4>1. ASSUME NEW n \in Orders, Said(n)
            PROVE  Said(n)'
        <5>1. n # 0
          BY Numbers
        <5>2. sub.remote = n => remote[n].status # "active"
          BY <3>1, <5>1 DEF Over
        <5>. QED  BY <1>5, <1>6, <4>1, <5>1, <5>2 DEF Said
      <4>. QED  BY <1>0, <1>6, <4>1 DEF NoneMissed, Unaccepted, Sent
    <3>8. WorldOK'
      BY <3>2, <3>3, <3>4, <3>5, <3>6, <3>7 DEF WorldOK
    <3>9. q # Idle => HolderOK(q)'
      BY <1>3
    <3>. QED  BY <1>4, <3>1, <3>8, <3>9, HolderSound
  <2>. QED  BY <2>1, <2>2
<1>9. TypeOK'
  BY <1>4, <1>5, <1>6, <1>7, GoesTyped, AstrayTyped DEF TypeOK, GrantTrial
<1>. QED  BY <1>8, <1>9

LEMMA AcceptStep ==
    ASSUME TypeOK, Sound, NEW c \in Clients, Accept(c)
    PROVE  TypeOK' /\ (~strayed' => Sound')
<1>0. /\ LockOK /\ WorldOK /\ EventsOK /\ OrdersOK /\ RemotesOK /\ OneBillable
      /\ SubOK /\ NoneMissed /\ ScheduleKnown /\ AllTyped
  BY DEF Sound, WorldOK
<1>1. PICK r \in Request : r = request[c]
  BY DEF TypeOK
<1>2. /\ r # Idle /\ r.at = "accept" /\ Syncs(r) /\ r.n \in Orders /\ r.e \in 0..MaxEvents
      /\ ~At(c, "release")
  BY <1>1, AtType, SyncType DEF Accept, At
<1>3. PICK q \in Request : q = Idle
  BY IdleType
<1>4. Goes(c, q) /\ SeenTyped(q)
  BY <1>3, IdleType DEF Accept, Goes
<1>5. receipts' = receipts \cup ({r.e} \ {0})
  BY <1>1 DEF Accept
<1>6. UNCHANGED <<sub, order, remote, event, left, passed, torn>>
  BY DEF Accept, provider, history
<1>7. ~strayed' => Sound'
  <2>. SUFFICES ASSUME ~strayed'
                PROVE  Sound'
    OBVIOUS
  <2>1. CASE c \in expired
    BY <1>2, <1>4, <2>1, LaggingQuiet DEF Accept, provider
  <2>2. CASE c \notin expired
    <3>1. c = holder /\ SyncOK(r)
      BY <1>1, <1>2, <2>2, Holding DEF HolderOK
    <3>2. \A d \in Clients \ {c} : request'[d] = request[d]
      BY <1>0, <1>1, <1>2, <1>4, Going
    <3>3. sub'.remote = sub.remote
      BY <1>6
    <3>4. Releasing => Releasing'
      BY <1>2, <3>2, <3>3, ReleasingGoes
    <3>5. r.op = "event" \/ r.e = 0
      BY <1>2, <3>1 DEF SyncOK
    <3>6. r.op = "event" => r.e \in Sent /\ event[r.e] = [about |-> r.n, kind |-> "subscription"]
      BY <3>1 DEF SyncOK
    <3>7. EventsOK'
      BY <1>0, <1>5, <1>6, <3>5, <3>6 DEF EventsOK, Sent
    <3>8. OneBillable' /\ OrdersOK' /\ RemotesOK' /\ SubOK'
      BY <1>0, <1>6 DEF OneBillable, Billable, Live, Payable, OrdersOK, OrderOK,
                        RemotesOK, RemoteOK, SubOK, Over
    <3>9. ScheduleKnown'
      BY <1>0, <1>6, <3>4 DEF ScheduleKnown, Scheduled
    <3>10. NoneMissed'
      <4>1. ASSUME NEW n \in Orders, Unaccepted(n)' = {}
            PROVE  Said(n)
        <5>1. Sent' = Sent
          BY <1>6 DEF Sent
        <5>2. CASE n = r.n
          <6>1. Unaccepted(n) \subseteq {r.e}
            BY <1>5, <1>6, <4>1, <5>1 DEF Unaccepted
          <6>. QED  BY <1>2, <3>1, <5>2, <6>1 DEF SyncOK
        <5>3. CASE n # r.n
          <6>1. r.e \notin Unaccepted(n)
            BY <3>5, <3>6, <5>3, Numbers DEF Unaccepted, Sent
          <6>2. Unaccepted(n) = {}
            BY <1>5, <1>6, <4>1, <5>1, <6>1 DEF Unaccepted
          <6>. QED  BY <1>0, <6>2 DEF NoneMissed
        <5>. QED  BY <5>2, <5>3
      <4>2. ASSUME NEW n \in Orders, Said(n)
            PROVE  Said(n)'
        BY <1>6, <4>2 DEF Said, Agrees
      <4>. QED  BY <4>1, <4>2 DEF NoneMissed
    <3>11. WorldOK'
      BY <3>7, <3>8, <3>9, <3>10 DEF WorldOK
    <3>12. q # Idle => HolderOK(q)'
      BY <1>3
    <3>. QED  BY <1>4, <3>1, <3>11, <3>12, HolderSound
  <2>. QED  BY <2>1, <2>2
<1>8. TypeOK'
  <2>1. receipts' \subseteq Events
    <3>1. r.e # 0 => r.e \in Events
      BY <1>2, Numbers DEF Events
    <3>. QED  BY <1>5, <3>1 DEF TypeOK
  <2>. QED  BY <1>4, <1>6, <2>1, GoesTyped, AstrayTyped DEF TypeOK, Accept
<1>. QED  BY <1>7, <1>8

(* What is written is what was seen, and stands for the subscription.      *)
LEMMA CommitStep ==
    ASSUME TypeOK, Sound, NEW c \in Clients, Commit(c)
    PROVE  TypeOK' /\ (~strayed' => Sound')
<1>0. /\ LockOK /\ WorldOK /\ EventsOK /\ OrdersOK /\ RemotesOK /\ OneBillable
      /\ SubOK /\ NoneMissed /\ ScheduleKnown /\ AllTyped
  BY DEF Sound, WorldOK
<1>1. PICK r \in Request : r = request[c]
  BY DEF TypeOK
<1>2. /\ r # Idle /\ r.at = "commit" /\ Syncs(r) /\ r.n \in Orders /\ r.seen \in Remote
      /\ r.matching \in BOOLEAN /\ ~At(c, "release") /\ SeenTyped(r)
  BY <1>0, <1>1, AtType, SyncType DEF Commit, At, AllTyped
<1>3. PICK n \in Orders : n = r.n
  BY <1>2
<1>4. PICK seen \in Remote : seen = r.seen
  BY <1>2
<1>5. PICK status \in {"active", "past_due", "cancelled"} : status = StatusFrom(sub, seen, r.matching)
  BY DEF StatusFrom
<1>6. /\ sub'.status = status /\ sub'.remote = n /\ sub'.old = seen.old
      /\ sub'.tier = (IF status = "active" THEN seen.tier ELSE sub.tier)
      /\ sub'.scheduled = (IF status = "active" /\ sub.scheduled = seen.tier THEN None ELSE sub.scheduled)
  BY <1>1, <1>3, <1>4, <1>5 DEF Commit, Synced
<1>7. status = "active" => seen.status = "active" /\ seen.tier \in Tiers
  BY <1>2, <1>4, <1>5 DEF StatusFrom, SeenTyped, None
<1>8. PICK q : q = [r EXCEPT !.at = "accept", !.seen = NoRemote, !.matching = FALSE]
  OBVIOUS
<1>9. q \in Request /\ Syncs(q)
  BY <1>2, <1>8, RemoteType, MatchMoves
<1>10. /\ q.at = "accept" /\ q.seen = NoRemote /\ q.op = r.op /\ q.e = r.e /\ q.n = n /\ q # Idle
  BY <1>2, <1>3, <1>8, <1>9 DEF Request, Idle, Syncs
<1>11. Goes(c, q) /\ SeenTyped(q)
  <2>1. request' = [request EXCEPT ![c] = q]
    BY <1>1, <1>8 DEF Commit, TypeOK
  <2>2. Goes(c, q)
    BY <1>10, <2>1 DEF Commit, Goes
  <2>3. SeenTyped(q)
    BY <1>10 DEF SeenTyped, NoRemote
  <2>. QED  BY <2>2, <2>3
<1>12. /\ order' = IF status = "active" THEN [order EXCEPT ![n].state = "paid"] ELSE order
       /\ left' = IF sub.remote \notin {0, n} THEN left \cup {sub.remote} ELSE left
  BY <1>1, <1>3, <1>6 DEF Commit
<1>13. UNCHANGED <<remote, event, receipts, passed, torn>>
  BY DEF Commit, provider
<1>14. sub.remote # 0 => sub.remote \in Orders
  BY BoundOrder
<1>15. sub' \in Sub
  <2>1. sub' = [tier |-> sub'.tier, status |-> status, old |-> seen.old, remote |-> n,
                scheduled |-> sub'.scheduled]
    BY <1>1, <1>3, <1>4, <1>5, <1>6 DEF Commit, Synced
  <2>2. /\ sub'.tier \in Tiers \cup {Trial} /\ sub'.scheduled \in Tiers \cup {None}
        /\ seen.old \in BOOLEAN /\ n \in 0..MaxOrders
    BY <1>6, <1>7, Numbers DEF TypeOK, Sub, Remote, Orders
  <2>. QED  BY <2>1, <2>2 DEF Sub
<1>16. ASSUME ~strayed', c \in expired
       PROVE  Sound'
  <2>1. sub' = sub
    BY <1>16, NoteAstray DEF Commit
  <2>2. left' = left
    BY <1>6, <1>12, <2>1
  <2>. QED  BY <1>2, <1>11, <1>13, <1>16, <2>2, LaggingQuiet DEF Commit, history
<1>17. ASSUME c \notin expired
       PROVE  Sound'
  <2>1. c = holder /\ SyncOK(r) /\ SeenOK(r) /\ Admitted(r)
    BY <1>1, <1>2, <1>17, Holding DEF HolderOK, SyncOK
  <2>2. /\ seen.status # None /\ (seen.status = "canceled" => Over(n))
        /\ Unaccepted(n) \subseteq {r.e} => Same(seen, remote[n])
        /\ seen.status # "canceled" => n \notin left /\ (sub.remote \in {0, n} \/ Over(sub.remote))
        /\ ~seen.old => PriceOf(seen.tier) <= PriceOf(remote[n].tier)
        /\ remote[n].next # None => seen.tier = remote[n].tier \/ torn
    BY <1>3, <1>4, <2>1 DEF SeenOK
  <2>3. /\ r.matching = (sub.remote = n)
        /\ sub.remote # n => seen.status = "active" /\ seen.paid
    BY <1>3, <1>4, <2>1 DEF Admitted
  <2>4. remote[n].status # None
    BY <1>3, <2>1 DEF SyncOK
  <2>5. sub.remote \notin {0, n} => Over(sub.remote)
    BY <2>2, <2>3
  <2>6. /\ order[n].session = "complete" /\ order[n].state \in {"pending", "paid"}
        /\ order[n] \in Order
    BY <1>0, <2>4 DEF OrdersOK, OrderOK, TypeOK
  <2>7. /\ order'[n].session = "complete" /\ order'[n].tier = order[n].tier
        /\ order'[n].linked = order[n].linked /\ order'[n].state \in {"pending", "paid"}
        /\ \A m \in Orders \ {n} : order'[m] = order[m]
    BY <1>12, <2>6 DEF TypeOK, Order
  <2>8. EventsOK'
    <3>1. ASSUME NEW m \in Orders
          PROVE  order'[m].session = order[m].session
      BY <2>6, <2>7
    <3>. QED  BY <1>0, <1>13, <3>1 DEF EventsOK, Sent
  <2>9. \A m \in Orders : Billable(m)' <=> Billable(m)
    BY <1>13, <2>6, <2>7 DEF Billable, Live, Payable
  <2>10. OneBillable'
    BY <1>0, <2>9 DEF OneBillable
  <2>11. OrdersOK'
    <3>1. OrderOK(n)'
      BY <1>0, <1>6, <1>13, <2>4, <2>6, <2>7 DEF OrdersOK, OrderOK, Payable, None
    <3>2. ASSUME NEW m \in Orders \ {n}
          PROVE  OrderOK(m)'
      <4>1. m # 0 /\ OrderOK(m)
        BY <1>0, Numbers DEF OrdersOK
      <4>2. sub.remote = m => m \in left'
        BY <1>12, <4>1
      <4>3. left \subseteq left' /\ (m \in left' => m \in left \cup {sub.remote})
        BY <1>12
      <4>. QED  BY <1>6, <1>13, <2>7, <4>1, <4>2, <4>3 DEF OrderOK, Payable
    <3>. QED  BY <3>1, <3>2 DEF OrdersOK
  <2>12. ASSUME NEW m \in Orders, remote[m].next # None
         PROVE  m = n /\ sub.remote = n
    <3>1. sub.remote = m /\ ~Over(m) /\ m # 0
      BY <1>0, <2>12, Numbers DEF RemotesOK, RemoteOK, Over
    <3>. QED  BY <2>5, <3>1
  <2>13. RemotesOK'
    BY <1>0, <1>6, <1>13, <2>12 DEF RemotesOK, RemoteOK
  <2>14. SubOK'
    <3>1. status = "active" => sub'.remote # 0 /\ sub'.tier \in Tiers
      BY <1>6, <1>7, Numbers
    <3>2. status = "cancelled" => Over(n)
      BY <1>0, <1>5, <2>2, <2>3, Numbers DEF StatusFrom, SubOK
    <3>3. status = "active" /\ ~seen.old => PriceOf(sub'.tier) <= PriceOf(remote[n].tier)
      BY <1>6, <2>2
    <3>4. ASSUME NEW m \in left'
          PROVE  Over(m) /\ m # n
      <4>1. CASE m \in left
        <5>1. n \notin left
          BY <1>0, <2>2, <2>3 DEF SubOK
        <5>. QED  BY <1>0, <4>1, <5>1 DEF SubOK
      <4>2. CASE m = sub.remote /\ sub.remote \notin {0, n}
        BY <2>5, <4>2
      <4>. QED  BY <1>12, <4>1, <4>2
    <3>5. sub'.status = "active" /\ ~sub'.old =>
            PriceOf(sub'.tier) <= PriceOf(remote'[sub'.remote].tier)
      BY <1>6, <1>13, <3>3
    <3>. QED  BY <1>6, <1>13, <3>1, <3>2, <3>4, <3>5 DEF SubOK, Over
  <2>15. Unaccepted(n) \subseteq {r.e} => Said(n)'
    <3>. SUFFICES ASSUME Unaccepted(n) \subseteq {r.e}
                  PROVE  Said(n)'
      OBVIOUS
    <3>1. Same(seen, remote[n])
      BY <2>2
    <3>2. remote[n] \in Remote /\ n # 0
      BY Numbers DEF TypeOK
    <3>3. ~Over(n) /\ r.matching => sub.status # "cancelled"
      BY <1>0, <2>3, <3>2 DEF SubOK
    <3>4. CASE remote[n].status = "canceled"
      <4>1. status = "cancelled"
        BY <1>5, <3>1, <3>4 DEF Same, StatusFrom
      <4>. QED  BY <1>6, <1>13, <3>4, <4>1 DEF Said, Agrees
    <3>5. CASE remote[n].status = "past_due"
      <4>1. ~(r.matching /\ sub.status = "cancelled") /\ seen.status = "past_due"
        BY <3>1, <3>3, <3>5 DEF Over, Same
      <4>2. status = "past_due"
        BY <1>5, <4>1 DEF StatusFrom
      <4>. QED  BY <1>6, <1>13, <3>5, <4>2 DEF Said, Agrees
    <3>6. CASE remote[n].status = "active"
      <4>1. seen.status = "active" /\ seen.paid = remote[n].paid /\ seen.tier = remote[n].tier
        BY <3>1, <3>6 DEF Same
      <4>2. ~(r.matching /\ sub.status = "cancelled")
        BY <3>3, <3>6 DEF Over
      <4>3. remote[n].paid => status = "active"
        BY <1>5, <4>1, <4>2 DEF StatusFrom
      <4>4. status \in {"active", "past_due"}
        BY <1>5, <4>1, <4>2 DEF StatusFrom
      <4>. QED  BY <1>6, <1>13, <3>6, <4>1, <4>3, <4>4 DEF Said, Agrees
    <3>. QED  BY <2>4, <3>2, <3>4, <3>5, <3>6 DEF Remote
  <2>16. NoneMissed'
    <3>1. ASSUME NEW m \in Orders, Unaccepted(m)' = {}
          PROVE  Said(m)'
      <4>1. Unaccepted(m) = {}
        BY <1>13, <3>1 DEF Unaccepted, Sent
      <4>2. CASE m = n
        BY <2>15, <4>1, <4>2
      <4>3. CASE m # n
        <5>1. Said(m) /\ m # 0
          BY <1>0, <4>1, Numbers DEF NoneMissed
        <5>2. sub.remote = m => remote[m].status # "active"
          BY <2>5, <4>3, <5>1 DEF Over
        <5>. QED  BY <1>6, <1>13, <4>3, <5>1, <5>2 DEF Said
      <4>. QED  BY <4>2, <4>3
    <3>. QED  BY <3>1 DEF NoneMissed
  <2>17. ScheduleKnown'
    <3>. SUFFICES ASSUME remote[n].next # None, ~torn
                  PROVE  Releasing' \/ Scheduled'
      BY <1>6, <1>13 DEF ScheduleKnown
    <3>1. sub.remote = n /\ n # 0
      BY <2>12, Numbers
    <3>2. CASE Releasing
      <4>1. \A d \in Clients \ {c} : request'[d] = request[d]
        BY <1>0, <1>1, <1>2, <1>11, Going
      <4>2. sub'.remote = sub.remote
        BY <1>6, <3>1
      <4>. QED  BY <1>2, <3>2, <4>1, <4>2, ReleasingGoes
    <3>3. CASE Scheduled
      <4>1. seen.tier = remote[n].tier
        BY <2>2
      <4>2. CASE sub'.scheduled = sub.scheduled
        BY <1>6, <1>13, <3>1, <3>3, <4>2 DEF Scheduled
      <4>3. CASE sub'.scheduled = None /\ sub.scheduled = seen.tier
        <5>1. PriceOf(remote[n].tier) <= PriceOf(remote[n].next)
          BY <3>1, <3>3, <4>1, <4>3, PriceType DEF Scheduled
        <5>. QED  BY <1>6, <1>13, <4>3, <5>1 DEF Scheduled
      <4>. QED  BY <1>6, <4>2, <4>3
    <3>. QED  BY <1>0, <3>1, <3>2, <3>3 DEF ScheduleKnown
  <2>18. WorldOK'
    BY <2>8, <2>10, <2>11, <2>13, <2>14, <2>16, <2>17 DEF WorldOK
  <2>19. HolderOK(q)'
    <3>1. Unaccepted(n)' = Unaccepted(n)
      BY <1>13 DEF Unaccepted, Sent
    <3>2. SyncOK(q)'
      BY <1>3, <1>6, <1>10, <1>13, <2>1, <2>15, <3>1 DEF SyncOK, Sent
    <3>. QED  BY <1>9, <1>10, <3>2 DEF HolderOK, Syncs
  <2>. QED  BY <1>11, <2>1, <2>18, <2>19, HolderSound
<1>18. TypeOK'
  <2>1. order' \in [Orders -> Order]
    BY <1>12 DEF TypeOK, Order
  <2>2. left' \subseteq Orders
    BY <1>12, <1>14 DEF TypeOK
  <2>. QED  BY <1>9, <1>11, <1>13, <1>15, <2>1, <2>2, GoesTyped, AstrayTyped DEF TypeOK, Commit
<1>. QED  BY <1>16, <1>17, <1>18

-----------------------------------------------------------------------------
(* The actions that write to the provider.                                 *)

LEMMA Cleared ==
    ASSUME TypeOK, NEW n \in Orders, remote' = [remote EXCEPT ![n].next = None]
    PROVE  /\ remote' \in [Orders -> Remote] /\ remote'[n].next = None
           /\ \A m \in Orders \ {n} : remote'[m] = remote[m]
           /\ \A m \in Orders :
                /\ remote'[m].status = remote[m].status /\ remote'[m].tier = remote[m].tier
                /\ remote'[m].paid = remote[m].paid /\ remote'[m].old = remote[m].old
                /\ remote'[m].changing = remote[m].changing
<1>1. PICK s : s = [remote[n] EXCEPT !.next = None]
  OBVIOUS
<1>2. remote' = [remote EXCEPT ![n] = s] /\ remote[n] \in Remote
  BY <1>1 DEF TypeOK
<1>3. /\ s \in Remote /\ s.next = None /\ s.status = remote[n].status /\ s.tier = remote[n].tier
      /\ s.paid = remote[n].paid /\ s.old = remote[n].old /\ s.changing = remote[n].changing
  BY <1>1, <1>2, RemoteType DEF Remote
<1>4. /\ remote' \in [Orders -> Remote] /\ remote'[n] = s
      /\ \A m \in Orders \ {n} : remote'[m] = remote[m]
  BY <1>2, <1>3 DEF TypeOK
<1>5. ASSUME NEW m \in Orders
      PROVE  /\ remote'[m].status = remote[m].status /\ remote'[m].tier = remote[m].tier
             /\ remote'[m].paid = remote[m].paid /\ remote'[m].old = remote[m].old
             /\ remote'[m].changing = remote[m].changing
  <2>1. CASE m = n
    BY <1>3, <1>4, <2>1
  <2>2. CASE m # n
    BY <1>4, <2>2
  <2>. QED  BY <2>1, <2>2
<1>. QED  BY <1>3, <1>4, <1>5

(* What is scheduled for the next period is released.                      *)
LEMMA ClearedWorld ==
    ASSUME TypeOK, WorldOK, NEW n \in Orders, remote' = [remote EXCEPT ![n].next = None],
           n = sub.remote,
           UNCHANGED <<sub, order, event, receipts, left, passed, torn>>
    PROVE  WorldOK'
<1>0. EventsOK /\ OrdersOK /\ RemotesOK /\ OneBillable /\ SubOK /\ NoneMissed
  BY DEF WorldOK
<1>1. /\ remote'[n].next = None
      /\ \A m \in Orders \ {n} : remote'[m] = remote[m]
      /\ \A m \in Orders : /\ remote'[m].status = remote[m].status /\ remote'[m].tier = remote[m].tier
                           /\ remote'[m].paid = remote[m].paid /\ remote'[m].old = remote[m].old
                           /\ remote'[m].changing = remote[m].changing
  BY Cleared
<1>2. EventsOK' /\ OneBillable' /\ OrdersOK'
  <2>1. EventsOK'
    BY <1>0, <1>1 DEF EventsOK, Sent
  <2>2. OneBillable'
    BY <1>0, <1>1 DEF OneBillable, Billable, Live, Payable
  <2>3. OrdersOK'
    BY <1>0, <1>1 DEF OrdersOK, OrderOK, Payable
  <2>. QED  BY <2>1, <2>2, <2>3
<1>3. RemotesOK'
  BY <1>0, <1>1 DEF RemotesOK, RemoteOK
<1>4. SubOK'
  <2>1. left \subseteq Orders
    BY DEF TypeOK
  <2>. QED  BY <1>0, <1>1, <2>1 DEF SubOK, Over
<1>5. NoneMissed'
  <2>1. ASSUME NEW m \in Orders, Said(m)
        PROVE  Said(m)'
    BY <1>1, <2>1 DEF Said, Agrees
  <2>. QED  BY <1>0, <2>1 DEF NoneMissed, Unaccepted, Sent
<1>6. ScheduleKnown'
  BY <1>1 DEF ScheduleKnown
<1>. QED  BY <1>2, <1>3, <1>4, <1>5, <1>6 DEF WorldOK

LEMMA ReleaseScheduleStep ==
    ASSUME TypeOK, Sound, NEW c \in Clients, ReleaseSchedule(c)
    PROVE  TypeOK' /\ (~strayed' => Sound')
<1>0. LockOK /\ WorldOK /\ AllTyped
  BY DEF Sound
<1>1. PICK r \in Request : r = request[c]
  BY DEF TypeOK
<1>2. /\ r # Idle /\ r.at = "release" /\ Syncs(r) /\ r.op = "change" /\ r.n \in Orders
      /\ SeenTyped(r)
  BY <1>0, <1>1, AtType, SyncType DEF ReleaseSchedule, At, AllTyped
<1>3. PICK q : q = [r EXCEPT !.at = "act"]
  OBVIOUS
<1>4. q \in Request /\ Syncs(q) /\ q # Idle
  BY <1>2, <1>3, ChangeMoves DEF Syncs
<1>5. /\ q.at = "act" /\ q.op = "change" /\ q.n = r.n /\ q.seen = r.seen /\ q.e = r.e
      /\ q.tier = r.tier
  BY <1>2, <1>3 DEF Request, Idle, Syncs
<1>6. Goes(c, q) /\ SeenTyped(q)
  BY <1>1, <1>2, <1>3, <1>4, <1>5 DEF ReleaseSchedule, Continue, Goes, TypeOK, SeenTyped
<1>7. PICK n \in Orders : n = r.n
  BY <1>2
<1>8. /\ remote' = [remote EXCEPT ![n].next = None]
      /\ UNCHANGED <<sub, order, event, receipts, left, passed, torn>>
  BY <1>1, <1>7 DEF ReleaseSchedule, history
<1>9. /\ remote'[n].next = None /\ remote'[n].status = remote[n].status
      /\ remote' \in [Orders -> Remote]
  BY <1>8, Cleared
<1>10. ASSUME ~strayed', c \in expired
       PROVE  Sound'
  <2>1. UNCHANGED <<sub, order, remote, receipts>>
    BY <1>10, NoteAstray DEF ReleaseSchedule
  <2>2. Harmless
    BY <1>8, <2>1 DEF Harmless, Noise
  <2>3. At(c, "release") /\ request[c].n = sub.remote => torn' \/ remote[sub.remote].next = None
    BY <1>1, <1>7, <1>9, <2>1
  <2>. QED  BY <1>6, <1>10, <2>2, <2>3, Lagging
<1>11. ASSUME c \notin expired
       PROVE  Sound'
  <2>1. c = holder /\ SyncOK(r)
    BY <1>1, <1>2, <1>11, Holding DEF HolderOK
  <2>2. n = sub.remote
    BY <1>2, <1>7, <2>1 DEF SyncOK
  <2>3. WorldOK'
    BY <1>0, <1>8, <2>2, ClearedWorld
  <2>4. SyncOK(q)'
    BY <1>2, <1>5, <1>7, <1>8, <1>9, <2>1 DEF SyncOK
  <2>5. HolderOK(q)'
    BY <1>5, <2>4 DEF HolderOK
  <2>. QED  BY <1>6, <2>1, <2>3, <2>5, HolderSound
<1>12. TypeOK'
  BY <1>4, <1>6, <1>8, <1>9, GoesTyped, AstrayTyped DEF TypeOK, ReleaseSchedule, Continue
<1>. QED  BY <1>10, <1>11, <1>12

LEMMA CancelStep ==
    ASSUME TypeOK, Sound, NEW c \in Clients, Cancel(c)
    PROVE  TypeOK' /\ Sound'
<1>0. LockOK /\ WorldOK /\ AllTyped
  BY DEF Sound
<1>1. PICK now \in BOOLEAN :
        /\ sub.remote # 0 /\ Live(sub.remote)
        /\ Start(c, [op |-> "cancel", at |-> "act", e |-> 0, n |-> sub.remote, now |-> now,
                     seen |-> NoRemote, matching |-> FALSE])
        /\ remote' = [remote EXCEPT ![sub.remote].next = None]
  BY DEF Cancel
<1>2. PICK n \in Orders : n = sub.remote
  BY <1>1, BoundOrder
<1>3. PICK q : q = [op |-> "cancel", at |-> "act", e |-> 0, n |-> n, now |-> now,
                    seen |-> NoRemote, matching |-> FALSE]
  OBVIOUS
<1>4. q \in [op: {"event", "cancel"}, at: {"act", "retrieve", "judge", "commit", "accept"},
             e: 0..MaxEvents, n: Orders, now: BOOLEAN, seen: Remote, matching: BOOLEAN]
  BY <1>3, RemoteType, Numbers
<1>5. q \in Request
  BY <1>4 DEF Request
<1>6. q # Idle /\ Syncs(q) /\ SeenTyped(q)
  <2>1. q.op = "cancel" /\ q.seen = NoRemote
    BY <1>3
  <2>. QED  BY <1>5, <2>1, NewSync
<1>7. Start(c, q)
  BY <1>1, <1>2, <1>3
<1>8. /\ remote' = [remote EXCEPT ![n].next = None]
      /\ UNCHANGED <<sub, order, event, receipts, left, passed, torn>>
  BY <1>1, <1>2 DEF Cancel, history
<1>9. /\ remote'[n].status # None /\ remote' \in [Orders -> Remote]
  BY <1>1, <1>2, <1>8, Cleared DEF Live, None
<1>10. WorldOK'
  BY <1>0, <1>2, <1>8, ClearedWorld
<1>11. SyncOK(q)'
  BY <1>2, <1>3, <1>8, <1>9 DEF SyncOK
<1>12. HolderOK(q)'
  BY <1>3, <1>11 DEF HolderOK
<1>13. Sound'
  BY <1>6, <1>7, <1>10, <1>12, StartSound
<1>14. TypeOK'
  BY <1>5, <1>7, <1>8, <1>9, StartTyped DEF TypeOK, Cancel, NotAstray
<1>. QED  BY <1>13, <1>14

LEMMA CancelRemoteStep ==
    ASSUME TypeOK, Sound, NEW c \in Clients, CancelRemote(c)
    PROVE  TypeOK' /\ (~strayed' => Sound')
<1>0. LockOK /\ WorldOK /\ AllTyped /\ EventsOK /\ RemotesOK /\ SubOK /\ ScheduleKnown
  BY DEF Sound, WorldOK
<1>1. PICK r \in Request : r = request[c]
  BY DEF TypeOK
<1>2. /\ r # Idle /\ r.at = "act" /\ Syncs(r) /\ r.op = "cancel" /\ r.n \in Orders
      /\ SeenTyped(r) /\ ~At(c, "release")
  BY <1>0, <1>1, AtType, SyncType DEF CancelRemote, At, AllTyped
<1>3. PICK q : q = [r EXCEPT !.at = "retrieve"]
  OBVIOUS
<1>4. q \in Request /\ Syncs(q) /\ q # Idle
  BY <1>2, <1>3, SyncMoves
<1>5. /\ q.at = "retrieve" /\ q.op = "cancel" /\ q.n = r.n /\ q.seen = r.seen /\ q.e = r.e
  BY <1>2, <1>3 DEF Request, Idle, Syncs
<1>6. Goes(c, q) /\ SeenTyped(q)
  BY <1>1, <1>2, <1>3, <1>4, <1>5 DEF CancelRemote, Continue, Goes, TypeOK, SeenTyped
<1>7. PICK n \in Orders : n = r.n
  BY <1>2
<1>8. UNCHANGED <<sub, order, receipts, left, passed, torn>> /\ Live(n) /\ Astray(c)
  BY <1>1, <1>7 DEF CancelRemote, history
<1>9. remote[n] \in Remote /\ remote[n].status # None
  BY <1>8 DEF TypeOK, Live, None
<1>10. PICK s : s = Canceled(remote[n])
  OBVIOUS
<1>11. /\ s \in Remote /\ s.status = "canceled" /\ s.next = None /\ s.changing = None
       /\ s.tier = remote[n].tier /\ s.old = remote[n].old
  BY <1>9, <1>10, CanceledType
<1>12. \/ remote' = [remote EXCEPT ![n] = s] /\ Emit(n, "subscription")
       \/ UNCHANGED provider
  BY <1>1, <1>7, <1>10 DEF CancelRemote, TypeOK
<1>13. Noise
  BY <1>9, <1>12 DEF Noise, provider
<1>14. ASSUME ~strayed', c \in expired
       PROVE  Sound'
  <2>1. UNCHANGED <<sub, order, remote, receipts>>
    BY <1>8, <1>14, NoteAstray
  <2>2. Harmless
    BY <1>8, <1>13, <2>1 DEF Harmless
  <2>. QED  BY <1>2, <1>6, <1>14, <2>2, Lagging
<1>15. ASSUME c \notin expired
       PROVE  Sound'
  <2>1. c = holder /\ SyncOK(r)
    BY <1>1, <1>2, <1>15, Holding DEF HolderOK
  <2>2. sub.remote = n /\ r.e = 0
    BY <1>2, <1>7, <2>1 DEF SyncOK
  <2>3. \A d \in Clients \ {c} : request'[d] = request[d]
    BY <1>0, <1>1, <1>2, <1>6, Going
  <2>4. Releasing => Releasing'
    BY <1>2, <1>8, <2>3, ReleasingGoes
  <2>5. remote'[n].status # None
    BY <1>9, <1>11, <1>12 DEF provider, TypeOK, None
  <2>6. SyncOK(q)'
    BY <1>5, <1>7, <1>8, <2>2, <2>5 DEF SyncOK
  <2>7. HolderOK(q)'
    BY <1>5, <2>6 DEF HolderOK
  <2>8. CASE remote' = [remote EXCEPT ![n] = s] /\ Emit(n, "subscription")
    <3>1. RemoteOK(n)
      BY <1>0 DEF RemotesOK
    <3>2. Becomes(n, s)
      BY <1>8, <1>9, <1>11, <2>8, <3>1 DEF Becomes, RemoteOK, None
    <3>3. remote'[n] = s
      BY <2>8 DEF TypeOK
    <3>4. ScheduleKnown'
      BY <1>8, <1>11, <2>2, <3>3 DEF ScheduleKnown
    <3>5. sub.remote = n /\ sub'.status = "active" /\ ~sub'.old =>
            PriceOf(sub.tier) <= PriceOf(s.tier)
      BY <1>0, <1>8, <1>11 DEF SubOK
    <3>6. WorldOK'
      BY <1>0, <3>2, <3>4, <3>5, BecomesWorld
    <3>. QED  BY <1>6, <2>1, <2>7, <3>6, HolderSound
  <2>9. CASE UNCHANGED provider
    <3>1. Harmless
      BY <1>8, <1>13, <2>9 DEF Harmless, provider
    <3>2. WorldOK'
      BY <1>0, <2>4, <3>1, HarmlessWorld
    <3>. QED  BY <1>6, <2>1, <2>7, <3>2, HolderSound
  <2>. QED  BY <1>12, <2>8, <2>9
<1>16. TypeOK'
  <2>1. event' \in [Events -> [about: 0..MaxOrders, kind: {None, "subscription", "expired"}]]
    BY <1>0, <1>12, EmitTyped DEF TypeOK, provider
  <2>2. remote' \in [Orders -> Remote]
    BY <1>11, <1>12 DEF TypeOK, provider
  <2>. QED  BY <1>4, <1>6, <1>8, <2>1, <2>2, GoesTyped, AstrayTyped DEF TypeOK, CancelRemote, Continue
<1>. QED  BY <1>14, <1>15, <1>16

LEMMA ApplyChangeStep ==
    ASSUME TypeOK, Sound, NEW c \in Clients, ApplyChange(c)
    PROVE  TypeOK' /\ (~strayed' => Sound')
<1>0. LockOK /\ WorldOK /\ AllTyped /\ EventsOK /\ RemotesOK /\ SubOK /\ ScheduleKnown
  BY DEF Sound, WorldOK
<1>1. PICK r \in Request : r = request[c]
  BY DEF TypeOK
<1>2. /\ r # Idle /\ r.at = "act" /\ Syncs(r) /\ r.op = "change" /\ r.n \in Orders
      /\ r.tier \in Tiers /\ SeenTyped(r) /\ ~At(c, "release")
  BY <1>0, <1>1, AtType, SyncType DEF ApplyChange, At, AllTyped
<1>3. PICK q : q = [r EXCEPT !.at = "retrieve"]
  OBVIOUS
<1>4. q \in Request /\ Syncs(q) /\ q # Idle
  BY <1>2, <1>3, SyncMoves
<1>5. /\ q.at = "retrieve" /\ q.op = "change" /\ q.n = r.n /\ q.seen = r.seen /\ q.e = r.e
  BY <1>2, <1>3 DEF Request, Idle, Syncs
<1>6. Goes(c, q) /\ SeenTyped(q)
  BY <1>1, <1>2, <1>3, <1>4, <1>5 DEF ApplyChange, Continue, Goes, TypeOK, SeenTyped
<1>7. PICK n \in Orders : n = r.n
  BY <1>2
<1>8. PICK tier \in Tiers : tier = r.tier
  BY <1>2
<1>9. /\ UNCHANGED <<sub, order, receipts, left, passed>> /\ Live(n) /\ Astray(c)
      /\ torn' = (torn \/ (remote'[n].next # None /\ remote[n].changing # None))
  BY <1>1, <1>7 DEF ApplyChange
<1>10. /\ remote[n] \in Remote /\ remote[n].status \notin {None, "canceled"} /\ RemoteOK(n)
       /\ remote[n].tier \in Tiers /\ ~remote[n].old /\ None \notin Tiers
  BY <1>0, <1>9, Numbers DEF TypeOK, Live, None, RemotesOK, RemoteOK
<1>11. PICK charged : charged = [remote[n] EXCEPT !.tier = tier, !.paid = TRUE, !.changing = None]
  OBVIOUS
<1>12. PICK waiting : waiting = [remote[n] EXCEPT !.changing = tier, !.paid = FALSE]
  OBVIOUS
<1>13. PICK lowered : lowered = [remote[n] EXCEPT !.next = tier]
  OBVIOUS
<1>14. /\ charged \in Remote /\ charged.status = remote[n].status /\ charged.tier = tier
       /\ charged.next = remote[n].next /\ charged.changing = None /\ charged.old = remote[n].old
  BY <1>10, <1>11 DEF Remote
<1>15. /\ waiting \in Remote /\ waiting.status = remote[n].status /\ waiting.tier = remote[n].tier
       /\ waiting.next = remote[n].next /\ waiting.changing = tier /\ waiting.old = remote[n].old
  BY <1>10, <1>12 DEF Remote
<1>16. /\ lowered \in Remote /\ lowered.status = remote[n].status /\ lowered.tier = remote[n].tier
       /\ lowered.next = tier /\ lowered.changing = remote[n].changing /\ lowered.old = remote[n].old
  BY <1>10, <1>13 DEF Remote
<1>17. \/ /\ PriceOf(tier) > PriceOf(sub.tier)
          /\ remote' = [remote EXCEPT ![n] = charged] /\ Emit(n, "subscription")
       \/ /\ PriceOf(tier) > PriceOf(remote[n].tier)
          /\ remote' = [remote EXCEPT ![n] = waiting] /\ Emit(n, "subscription")
       \/ remote' = [remote EXCEPT ![n] = lowered] /\ Emit(n, "subscription")
       \/ UNCHANGED provider
  BY <1>1, <1>7, <1>8, <1>11, <1>12, <1>13 DEF ApplyChange, TypeOK
<1>18. Noise
  BY <1>10, <1>17 DEF Noise, provider
<1>19. ASSUME ~strayed', c \in expired
       PROVE  Sound'
  <2>1. UNCHANGED <<sub, order, remote, receipts>>
    BY <1>9, <1>19, NoteAstray
  <2>2. Harmless
    BY <1>9, <1>18, <2>1 DEF Harmless
  <2>. QED  BY <1>2, <1>6, <1>19, <2>2, Lagging
<1>20. ASSUME c \notin expired
       PROVE  Sound'
  <2>1. c = holder /\ SyncOK(r)
    BY <1>1, <1>2, <1>20, Holding DEF HolderOK
  <2>2. /\ sub.remote = n /\ r.e = 0 /\ sub.scheduled = tier /\ remote[n].next = None
        /\ remote[n].status # None
    BY <1>2, <1>7, <1>8, <2>1 DEF SyncOK
  <2>3. \A d \in Clients \ {c} : request'[d] = request[d]
    BY <1>0, <1>1, <1>2, <1>6, Going
  <2>4. Releasing => Releasing'
    BY <1>2, <1>9, <2>3, ReleasingGoes
  <2>5. remote'[n].status # None
    BY <1>14, <1>15, <1>16, <1>17, <2>2 DEF provider, TypeOK
  <2>6. SyncOK(q)'
    BY <1>5, <1>7, <1>9, <2>2, <2>5 DEF SyncOK
  <2>7. HolderOK(q)'
    BY <1>5, <2>6 DEF HolderOK
  <2>8. /\ PriceOf(tier) \in Nat /\ PriceOf(sub.tier) \in Nat /\ PriceOf(remote[n].tier) \in Nat
    BY PriceType
  <2>9. sub'.status = "active" /\ ~sub'.old => PriceOf(sub.tier) <= PriceOf(remote[n].tier)
    BY <1>0, <1>9, <2>2 DEF SubOK
  <2>10. ASSUME NEW s, remote' = [remote EXCEPT ![n] = s], Becomes(n, s), ScheduleKnown',
                sub'.status = "active" /\ ~sub'.old => PriceOf(sub.tier) <= PriceOf(s.tier)
         PROVE  Sound'
    <3>1. WorldOK'
      BY <1>0, <2>10, BecomesWorld
    <3>. QED  BY <1>6, <2>1, <2>7, <3>1, HolderSound
  <2>11. CASE /\ PriceOf(tier) > PriceOf(sub.tier)
              /\ remote' = [remote EXCEPT ![n] = charged] /\ Emit(n, "subscription")
    <3>1. Becomes(n, charged)
      BY <1>9, <1>10, <1>14, <2>2, <2>11 DEF Becomes
    <3>2. remote'[n].next = None
      BY <1>14, <2>2, <2>11 DEF TypeOK
    <3>3. ScheduleKnown'
      BY <1>9, <2>2, <3>2 DEF ScheduleKnown
    <3>4. PriceOf(sub.tier) <= PriceOf(charged.tier)
      BY <1>14, <2>8, <2>11
    <3>. QED  BY <2>10, <2>11, <3>1, <3>3, <3>4
  <2>12. CASE /\ PriceOf(tier) > PriceOf(remote[n].tier)
              /\ remote' = [remote EXCEPT ![n] = waiting] /\ Emit(n, "subscription")
    <3>1. PriceOf(waiting.tier) <= PriceOf(waiting.changing)
      BY <1>15, <2>8, <2>12
    <3>2. Becomes(n, waiting)
      BY <1>9, <1>10, <1>15, <2>2, <2>12, <3>1 DEF Becomes
    <3>3. remote'[n].next = None
      BY <1>15, <2>2, <2>12 DEF TypeOK
    <3>4. ScheduleKnown'
      BY <1>9, <2>2, <3>3 DEF ScheduleKnown
    <3>. QED  BY <1>15, <2>9, <2>10, <2>12, <3>2, <3>4
  <2>13. CASE remote' = [remote EXCEPT ![n] = lowered] /\ Emit(n, "subscription")
    <3>1. remote'[n] = lowered
      BY <2>13 DEF TypeOK
    <3>2. lowered.changing # None => PriceOf(lowered.tier) <= PriceOf(lowered.changing)
      BY <1>10, <1>16 DEF RemoteOK
    <3>3. Becomes(n, lowered)
      BY <1>9, <1>10, <1>16, <2>2, <2>13, <3>1, <3>2 DEF Becomes
    <3>4. ScheduleKnown'
      BY <1>9, <1>16, <2>2, <3>1 DEF ScheduleKnown, Scheduled
    <3>. QED  BY <1>16, <2>9, <2>10, <2>13, <3>3, <3>4
  <2>14. CASE UNCHANGED provider
    <3>1. Harmless
      BY <1>9, <1>18, <2>14 DEF Harmless, provider
    <3>2. WorldOK'
      BY <1>0, <2>4, <3>1, HarmlessWorld
    <3>. QED  BY <1>6, <2>1, <2>7, <3>2, HolderSound
  <2>. QED  BY <1>17, <2>11, <2>12, <2>13, <2>14
<1>21. TypeOK'
  <2>1. event' \in [Events -> [about: 0..MaxOrders, kind: {None, "subscription", "expired"}]]
    BY <1>0, <1>17, EmitTyped DEF TypeOK, provider
  <2>2. remote' \in [Orders -> Remote]
    BY <1>14, <1>15, <1>16, <1>17 DEF TypeOK, provider
  <2>3. torn' \in BOOLEAN
    BY <1>9 DEF TypeOK
  <2>4. mishaps' = mishaps
    BY DEF ApplyChange, Continue
  <2>. QED  BY <1>4, <1>6, <1>9, <2>1, <2>2, <2>3, <2>4, GoesTyped, AstrayTyped DEF TypeOK
<1>. QED  BY <1>19, <1>20, <1>21

-----------------------------------------------------------------------------
(* The inductive invariant, and what follows from it.                      *)

LEMMA InitInductive == Init => InductiveInv
<1>. SUFFICES ASSUME Init
              PROVE  InductiveInv
  OBVIOUS
<1>1. TypeOK
  <2>1. sub \in Sub
    BY Numbers DEF Init, Sub, Trial, None
  <2>2. order \in [Orders -> Order]
    BY DEF Init, Order
  <2>3. remote \in [Orders -> Remote]
    BY RemoteType DEF Init
  <2>4. event \in [Events -> [about: 0..MaxOrders, kind: {None, "subscription", "expired"}]]
    BY Numbers DEF Init
  <2>5. request \in [Clients -> Request]
    BY IdleType DEF Init
  <2>6. /\ receipts \subseteq Events /\ holder \in Clients \cup {Nobody}
        /\ expired \subseteq Clients /\ strayed \in BOOLEAN
        /\ left \subseteq Orders /\ passed \subseteq Orders /\ torn \in BOOLEAN
    BY DEF Init
  <2>7. mishaps \in 0..MaxMishaps
    BY Numbers DEF Init
  <2>. QED  BY <2>1, <2>2, <2>3, <2>4, <2>5, <2>6, <2>7 DEF TypeOK
<1>2. \A n \in Orders : /\ remote[n].status = None /\ remote[n].next = None
                        /\ remote[n].changing = None /\ ~remote[n].old
                        /\ order[n].state = None /\ order[n].session = None /\ ~order[n].linked
  BY DEF Init, NoRemote
<1>3. Sent = {} /\ receipts = {}
  BY DEF Init, Sent
<1>4. EventsOK
  <2>1. Sent = 1..0 /\ 0 \in 0..MaxEvents
    BY <1>3, Numbers
  <2>. QED  BY <1>3, <2>1 DEF EventsOK
<1>5. sub.remote = 0 /\ sub.status = "trialing" /\ left = {}
  BY DEF Init
<1>6. OrdersOK /\ OneBillable
  BY <1>2, <1>5, Numbers DEF OrdersOK, OrderOK, Payable, OneBillable, Billable, Live, None
<1>7. RemotesOK /\ SubOK /\ ScheduleKnown
  BY <1>2, <1>5 DEF RemotesOK, RemoteOK, SubOK, ScheduleKnown
<1>8. NoneMissed
  BY <1>2, <1>5, Numbers DEF NoneMissed, Said, None
<1>9. WorldOK
  BY <1>4, <1>6, <1>7, <1>8 DEF WorldOK
<1>10. LockOK /\ AllTyped /\ HoldersOK
  BY Numbers, IdleType DEF Init, LockOK, AllTyped, HoldersOK
<1>. QED  BY <1>1, <1>9, <1>10 DEF InductiveInv, Sound

LEMMA NextInductive == InductiveInv /\ [Next]_vars => InductiveInv'
<1>. SUFFICES ASSUME InductiveInv, [Next]_vars
              PROVE  InductiveInv'
  OBVIOUS
<1>1. CASE UNCHANGED vars
  <2>1. UNCHANGED <<sub, order, remote, event, receipts, holder, expired, request, mishaps,
                    left, passed, torn, strayed>>
    BY <1>1 DEF vars, provider, lock, history
  <2>2. Sound => Sound'
    <3>. SUFFICES ASSUME Sound
                  PROVE  Sound'
      OBVIOUS
    <3>1. LockOK' /\ AllTyped' /\ EventsOK' /\ OrdersOK' /\ RemotesOK' /\ OneBillable'
      BY <2>1 DEF Sound, WorldOK, LockOK, AllTyped, EventsOK, Sent, OrdersOK, OrderOK, Payable,
                  RemotesOK, RemoteOK, OneBillable, Billable, Live
    <3>2. SubOK' /\ NoneMissed' /\ ScheduleKnown'
      BY <2>1 DEF Sound, WorldOK, SubOK, Over, NoneMissed, Said, Agrees, Unaccepted, Sent,
                  ScheduleKnown, Scheduled, Releasing, At
    <3>3. HoldersOK'
      BY <2>1 DEF Sound, HoldersOK, HolderOK, SyncOK, SeenOK, Admitted, Said, Agrees, Unaccepted,
                  Sent, Same, Over, CheckoutOK, Billable, Live, Payable
    <3>. QED  BY <3>1, <3>2, <3>3 DEF Sound, WorldOK
  <2>3. TypeOK'
    BY <2>1 DEF InductiveInv, TypeOK
  <2>. QED  BY <2>1, <2>2, <2>3 DEF InductiveInv
<1>2. ASSUME NEW c \in Clients, Step(c) \/ Owner(c) \/ Fail(c)
      PROVE  InductiveInv'
  <2>1. ~strayed
    BY <1>2 DEF Step, Owner, Deliver, Retrieve, Judge, Commit, Accept, SessionExpired, ExpireSession,
           ExpireOrder, Settled, PlaceOrder, CreateSession, LinkSession, ReserveTier, ReleaseSchedule,
           ApplyChange, CancelRemote, GrantTrial, Refuse, Checkout, Change, Cancel, CancelTrial,
           RestartTrial, Fail, Astray, NotAstray
  <2>2. TypeOK /\ Sound
    BY <2>1 DEF InductiveInv
  <2>3. CASE Step(c)
    BY <2>2, <2>3, DeliverStep, RetrieveStep, JudgeStep, CommitStep, AcceptStep, SessionExpiredStep,
       ExpireSessionStep, ExpireOrderStep, SettledStep, PlaceOrderStep, CreateSessionStep,
       LinkSessionStep, ReserveTierStep, ReleaseScheduleStep, ApplyChangeStep, CancelRemoteStep,
       GrantTrialStep, RefuseStep DEF Step, InductiveInv
  <2>4. CASE Owner(c)
    BY <2>2, <2>4, CheckoutStep, ChangeStep, CancelStep, CancelTrialStep, RestartStep
       DEF Owner, InductiveInv
  <2>5. CASE Fail(c)
    BY <2>2, <2>5, FailStep DEF InductiveInv
  <2>. QED  BY <1>2, <2>3, <2>4, <2>5
<1>3. ASSUME NEW n \in Orders, Provider(n)
      PROVE  InductiveInv'
  <2>1. ~strayed
    BY <1>3 DEF Provider, Pay, SessionRunsOut, Renew, PayInvoice, Ends, NotAstray
  <2>2. TypeOK /\ Sound
    BY <2>1 DEF InductiveInv
  <2>. QED  BY <1>3, <2>2, PayStep, RunsOutStep, RenewStep, PayInvoiceStep, EndsStep
            DEF Provider, InductiveInv
<1>4. CASE LockExpires
  <2>1. TypeOK /\ Sound
    BY <1>4 DEF InductiveInv, LockExpires, NotAstray
  <2>. QED  BY <1>4, <2>1, LockExpiresStep DEF InductiveInv
<1>. QED  BY <1>1, <1>2, <1>3, <1>4 DEF Next

(* The invariant that the theorems below are read off from.                *)
THEOREM InductiveInvariant == Spec => []InductiveInv
BY InitInductive, NextInductive, PTL DEF Spec

(* Every variable has its type; a plan in the document is one of the list. *)
THEOREM BillingTyped == Spec => []TypeOK
<1>1. InductiveInv => TypeOK
  BY DEF InductiveInv
<1>. QED  BY <1>1, InductiveInvariant, PTL

(* Whatever the order of the provider's events, their repetition and their *)
(* failures: what the document does not say, an event that was not taken   *)
(* in will, and no subscription the company left comes back                *)
(* (ingestWebhook, syncSubscription).                                      *)
THEOREM NothingIsMissed == Spec => []NothingMissed
<1>1. InductiveInv => NothingMissed
  <2>. SUFFICES ASSUME InductiveInv, ~strayed
                PROVE  /\ sub.remote \notin left
                       /\ \A n \in Orders :
                            Unaccepted(n) = {} =>
                              /\ sub.remote = n => Agrees(n)
                              /\ remote[n].status = "active" /\ remote[n].paid
                                   => sub.remote = n \/ n \in passed
    BY DEF NothingMissed
  <2>1. SubOK /\ NoneMissed
    BY DEF InductiveInv, Sound, WorldOK
  <2>. QED  BY <2>1 DEF SubOK, NoneMissed, Said
<1>. QED  BY <1>1, InductiveInvariant, PTL

(* Whatever of a checkout, a change of plan and a payment overlaps, and    *)
(* whatever the plans cost: the company pays for one subscription, and its *)
(* seats are within the plan it pays for (createCheckoutSession,           *)
(* changeSubscription).                                                    *)
THEOREM PlanIsPaidFor == Spec => []PlanPaidFor
<1>1. InductiveInv => OneLiveSubscription
  <2>. SUFFICES ASSUME InductiveInv, ~strayed
                PROVE  Cardinality({n \in Orders : Live(n)}) <= 1
    BY DEF OneLiveSubscription
  <2>1. \A m, n \in Orders : Live(m) /\ Live(n) => m = n
    BY DEF InductiveInv, Sound, WorldOK, OneBillable, Billable
  <2>2. CASE \E n \in Orders : Live(n)
    <3>1. PICK n \in Orders : Live(n)
      BY <2>2
    <3>2. {m \in Orders : Live(m)} = {n}
      BY <2>1, <3>1
    <3>. QED  BY <3>2, FS_Singleton
  <2>3. CASE ~\E n \in Orders : Live(n)
    <3>1. {m \in Orders : Live(m)} = {}
      BY <2>3
    <3>. QED  BY <3>1, FS_EmptySet
  <2>. QED  BY <2>2, <2>3
<1>2. InductiveInv => SeatsWithinPlan
  <2>. SUFFICES ASSUME InductiveInv, sub.remote # 0, Live(sub.remote), Full(sub), ~strayed, ~torn,
                       ~Changing
                PROVE  /\ SeatCap <= PriceOf(remote[sub.remote].tier)
                       /\ remote[sub.remote].next # None => SeatCap <= PriceOf(remote[sub.remote].next)
    BY DEF SeatsWithinPlan
  <2>1. SubOK /\ ScheduleKnown /\ TypeOK
    BY DEF InductiveInv, Sound, WorldOK
  <2>2. /\ PriceOf(sub.tier) \in Nat /\ PriceOf(sub.scheduled) \in Nat
        /\ PriceOf(remote[sub.remote].tier) \in Nat /\ PriceOf(remote[sub.remote].next) \in Nat
    BY PriceType
  <2>3. PriceOf(sub.tier) <= PriceOf(remote[sub.remote].tier)
    BY <2>1 DEF SubOK, Full
  <2>4. SeatCap <= PriceOf(sub.tier) /\ (sub.scheduled # None => SeatCap <= PriceOf(sub.scheduled))
        /\ SeatCap \in Nat
    BY <2>2 DEF SeatCap
  <2>5. ~Releasing
    <3>1. ASSUME NEW c \in Clients, At(c, "release")
          PROVE  FALSE
      <4>1. PICK r \in Request : r = request[c]
        BY <2>1 DEF TypeOK
      <4>2. r # Idle /\ r.at = "release"
        BY <3>1, <4>1 DEF At
      <4>3. r.op = "change"
        BY <4>2, AtType, SyncType
      <4>. QED  BY <4>1, <4>3 DEF Changing
    <3>. QED  BY <3>1 DEF Releasing
  <2>6. remote[sub.remote].next # None => Scheduled
    BY <2>1, <2>5 DEF ScheduleKnown
  <2>7. SeatCap <= PriceOf(remote[sub.remote].tier)
    BY <2>2, <2>3, <2>4
  <2>8. remote[sub.remote].next # None => SeatCap <= PriceOf(remote[sub.remote].next)
    BY <2>2, <2>4, <2>6, <2>7 DEF Scheduled
  <2>. QED  BY <2>7, <2>8
<1>3. InductiveInv => PlanPaidFor
  BY <1>1, <1>2 DEF PlanPaidFor
<1>. QED  BY <1>3, InductiveInvariant, PTL

=============================================================================
