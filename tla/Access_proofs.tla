--------------------------- MODULE Access_proofs -----------------------------
(***************************************************************************)
(* Proofs about Access.  Sessions: the inductive invariant, and with it    *)
(* the type invariant, that what was revoked stays so and that families    *)
(* are sound, for every number of overlapping requests, token pairs and    *)
(* events that end the sessions.  Requests: the inductive invariant, and   *)
(* with it that attempts exclude each other, that replays match and that   *)
(* a window holds more than the limit only for the failures of Redis, for  *)
(* every set of attempts and uploads.                                      *)
(***************************************************************************)
EXTENDS Access, FiniteSetTheorems, TLAPS

Todos == {<<"sweep">>, <<"deny">>, <<"sweep", "deny">>, <<"deny", "sweep">>}

(* A sweep that is to be followed by the watermark.                        *)
Pending == \E c \in Clients : Todo(c) = <<"sweep", "deny">>

(* What a request that issues tokens knows of the sessions.                *)
Knows(r) ==
    /\ r.family \in Signed \cup {0}
    /\ r.stage # "sign" => r.family # 0
    /\ r.root \in 1..account.epoch
    /\ r.stage = "rotate" => r.token \in HandedOut /\ session[r.token].family = r.family
    /\ r.stage = "insert" => /\ r.token \in Signed
                             /\ session[r.token].family = r.family
                             /\ session[r.token].root = r.root

(* Why it may go on without being late: what ended its session has yet to  *)
(* get at it.                                                              *)
InTime(r) ==
    /\ r.family \notin reused
    /\ r.root < account.epoch => Awaits("sweep")
    /\ r.root < account.firm => Pending \/ ~account.active
    /\ r.root < account.firm /\ r.stage \in {"sign", "insert"} => Awaits("deny")

RequestOK(r) ==
    /\ IsIssuing(r) => Knows(r) /\ (r.overtaken \/ InTime(r))
    /\ r.stage = "reuse" => r.family \in Signed

RequestsOK == \A c \in Clients : RequestOK(request[c])

SessionOK(t) ==
    /\ t \in Signed => session[t].family \in Signed /\ session[t].root \in 1..account.epoch
    /\ session[t].state = "active" /\ session[t].root < account.firm =>
         t \in late \/ Pending \/ ~account.active

SessionsOK == \A t \in Tokens : SessionOK(t)

(* Tokens are signed in order.                                             *)
InOrder == Signed = 1..Cardinality(Signed) /\ Cardinality(Signed) \in 0..MaxTokens

InductiveInv ==
    /\ TypeOK
    /\ account.firm <= account.epoch
    /\ InOrder
    /\ reused \subseteq Signed
    /\ RequestsOK
    /\ SessionsOK
    /\ RevokedForGood
    /\ FamiliesSound

-----------------------------------------------------------------------------
(* The data.                                                               *)

LEMMA RequestType ==
    ASSUME NEW r \in Request
    PROVE  /\ IsIssuing(r) => r \in Issuing
           /\ r \in Issuing => IsIssuing(r)
           /\ r.stage = "reuse" => r.family \in Tokens
           /\ r.stage = "write" => r.op \in {"change", "reset", "disable"}
           /\ r.stage = "end" => r.todo \in Todos
           /\ r.stage = "idle" <=> r = Idle
           /\ r.stage \in {"idle", "rotate", "check", "sign", "insert", "reuse", "write", "end"}
BY DEF Request, Issuing, IsIssuing, Idle, Todos

LEMMA IssuingType ==
    ASSUME NEW r \in Issuing
    PROVE  /\ r.token \in 0..MaxTokens /\ r.family \in 0..MaxTokens /\ r.root \in Epochs
           /\ r.overtaken \in BOOLEAN
           /\ r.stage \in {"rotate", "check", "sign", "insert"}
BY DEF Issuing

LEMMA OvertakenType ==
    ASSUME NEW r \in Issuing
    PROVE  /\ [r EXCEPT !.overtaken = TRUE] \in Issuing
           /\ [r EXCEPT !.overtaken = TRUE].stage = r.stage
           /\ [r EXCEPT !.overtaken = TRUE].token = r.token
           /\ [r EXCEPT !.overtaken = TRUE].family = r.family
           /\ [r EXCEPT !.overtaken = TRUE].root = r.root
           /\ [r EXCEPT !.overtaken = TRUE].overtaken
BY DEF Issuing

LEMMA EndType ==
    /\ Idle \in Request
    /\ \A todo \in Todos : [stage |-> "end", todo |-> todo] \in Request
    /\ Issuing \subseteq Request
    /\ \A f \in Tokens : [stage |-> "reuse", family |-> f] \in Request
    /\ \A op \in {"change", "reset", "disable"} : [stage |-> "write", op |-> op] \in Request
BY DEF Request, Todos

LEMMA TodoType ==
    ASSUME TypeOK, NEW c \in Clients
    PROVE  /\ Todo(c) \in Todos \cup {<<>>}
           /\ Todo(c) # <<>> => request[c].stage = "end" /\ Todo(c) = request[c].todo
           /\ request[c].stage # "end" => Todo(c) = <<>>
<1>1. request[c] \in Request
  BY DEF TypeOK
<1> QED
  BY <1>1, RequestType DEF Todo, Todos

(* What a list of things to do awaits.                                     *)
LEMMA AwaitsMeans ==
    ASSUME TypeOK
    PROVE  /\ Awaits("sweep") <=>
                \E c \in Clients : Todo(c) \in {<<"sweep">>, <<"sweep", "deny">>, <<"deny", "sweep">>}
           /\ Awaits("deny") <=>
                \E c \in Clients : Todo(c) \in {<<"deny">>, <<"sweep", "deny">>, <<"deny", "sweep">>}
<1>1. ASSUME NEW c \in Clients
      PROVE  /\ (\E n \in DOMAIN Todo(c) : Todo(c)[n] = "sweep") <=>
                   Todo(c) \in {<<"sweep">>, <<"sweep", "deny">>, <<"deny", "sweep">>}
             /\ (\E n \in DOMAIN Todo(c) : Todo(c)[n] = "deny") <=>
                   Todo(c) \in {<<"deny">>, <<"sweep", "deny">>, <<"deny", "sweep">>}
  <2>1. CASE Todo(c) = <<>>
    BY <2>1
  <2>2. CASE Todo(c) = <<"sweep">>
    BY <2>2
  <2>3. CASE Todo(c) = <<"deny">>
    BY <2>3
  <2>4. CASE Todo(c) = <<"sweep", "deny">>
    BY <2>4
  <2>5. CASE Todo(c) = <<"deny", "sweep">>
    BY <2>5
  <2> QED
    BY <2>1, <2>2, <2>3, <2>4, <2>5, TodoType DEF Todos
<1> QED
  BY <1>1 DEF Awaits

LEMMA AfterType ==
    ASSUME TypeOK, NEW c \in Clients, Todo(c) # <<>>
    PROVE  /\ Head(Todo(c)) = "sweep" =>
                \/ Todo(c) = <<"sweep">> /\ After(c) = Idle
                \/ Todo(c) = <<"sweep", "deny">> /\ After(c) = [stage |-> "end", todo |-> <<"deny">>]
           /\ Head(Todo(c)) = "deny" =>
                \/ Todo(c) = <<"deny">> /\ After(c) = Idle
                \/ Todo(c) = <<"deny", "sweep">> /\ After(c) = [stage |-> "end", todo |-> <<"sweep">>]
           /\ Head(Todo(c)) \in {"sweep", "deny"}
           /\ After(c) \in Request /\ ~IsIssuing(After(c)) /\ After(c).stage # "reuse"
<1>1. Todo(c) = request[c].todo /\ Todo(c) \in Todos
  BY TodoType
<1>2. CASE Todo(c) = <<"sweep">>
  BY <1>1, <1>2, EndType DEF After, IsIssuing, Idle
<1>3. CASE Todo(c) = <<"deny">>
  BY <1>1, <1>3, EndType DEF After, IsIssuing, Idle
<1>4. CASE Todo(c) = <<"sweep", "deny">>
  BY <1>1, <1>4, EndType DEF After, IsIssuing, Todos
<1>5. CASE Todo(c) = <<"deny", "sweep">>
  BY <1>1, <1>5, EndType DEF After, IsIssuing, Todos
<1> QED
  BY <1>1, <1>2, <1>3, <1>4, <1>5 DEF Todos

LEMMA SignedFinite ==
    ASSUME NEW S \in SUBSET Tokens
    PROVE  IsFiniteSet(S) /\ Cardinality(S) \in Nat
<1>1. IsFiniteSet(Tokens)
  BY FS_Interval, SessionsAssumption DEF Tokens
<1> QED
  BY <1>1, FS_Subset, FS_CardinalityType

LEMMA ClientsFinite ==
    ASSUME NEW S \in SUBSET Clients
    PROVE  IsFiniteSet(S) /\ Cardinality(S) \in Nat
BY FS_Subset, FS_CardinalityType, SessionsAssumption

-----------------------------------------------------------------------------
(* What a step leaves of the requests that do not take it.                 *)

(* Tokens stay signed and handed out, in their family and of their login.  *)
Grows ==
    /\ Signed \subseteq Signed' /\ HandedOut \subseteq HandedOut'
    /\ \A t \in Signed : /\ session'[t].family = session[t].family
                        /\ session'[t].root = session[t].root

(* What is awaited stays so, and so is the end of what a step ends.        *)
Steady ==
    /\ account'.epoch = account.epoch \/ Awaits("sweep")'
    /\ account'.firm = account.firm \/ (Awaits("deny")' /\ (Pending' \/ ~account'.active))
    /\ account'.active => account.active
    /\ Awaits("sweep") => Awaits("sweep")'
    /\ Awaits("deny") => Awaits("deny")'
    /\ Pending => Pending'

LEMMA AccountType ==
    ASSUME TypeOK
    PROVE  account.epoch \in Nat /\ account.firm \in Nat /\ account.active \in BOOLEAN
BY DEF TypeOK, Account, Epochs

LEMMA HandedOutSigned == HandedOut \subseteq Signed
BY DEF HandedOut, Signed

LEMMA KnowsKept ==
    ASSUME TypeOK, TypeOK', Grows, account.epoch <= account'.epoch, NEW r \in Issuing, Knows(r)
    PROVE  Knows(r)'
<1>1. r.root \in 1..account'.epoch
  BY AccountType DEF Knows, TypeOK, Account, Epochs
<1>2. HandedOut \subseteq Signed
  BY HandedOutSigned
<1>3. r.stage = "rotate" => r.token \in HandedOut' /\ session'[r.token].family = r.family
  BY <1>2 DEF Knows, Grows
<1>4. r.stage = "insert" => /\ r.token \in Signed'
                           /\ session'[r.token].family = r.family
                           /\ session'[r.token].root = r.root
  BY DEF Knows, Grows
<1>5. r.family \in Signed' \cup {0} /\ (r.stage # "sign" => r.family # 0)
  BY DEF Knows, Grows
<1> QED
  BY <1>1, <1>3, <1>4, <1>5 DEF Knows

LEMMA RequestKept ==
    ASSUME TypeOK, TypeOK', Grows, account.epoch <= account'.epoch,
           NEW r \in Request, RequestOK(r),
           IsIssuing(r) => Steady /\ (r.family \in reused' => r.family \in reused)
    PROVE  RequestOK(r)'
<1>1. CASE IsIssuing(r)
  <2>1. r \in Issuing /\ Knows(r)' /\ r.stage # "reuse"
    BY <1>1, RequestType, KnowsKept DEF RequestOK, IsIssuing
  <2>2. InTime(r) => InTime(r)'
    BY <1>1 DEF InTime, Steady
  <2> QED
    BY <1>1, <2>1, <2>2 DEF RequestOK, IsIssuing
<1>2. CASE ~IsIssuing(r)
  BY <1>2 DEF RequestOK, Grows, IsIssuing
<1> QED
  BY <1>1, <1>2

LEMMA OvertakenKept ==
    ASSUME TypeOK, TypeOK', Grows, account.epoch <= account'.epoch,
           NEW r \in Issuing, RequestOK(r)
    PROVE  RequestOK([r EXCEPT !.overtaken = TRUE])'
<1> DEFINE q == [r EXCEPT !.overtaken = TRUE]
<1>1. Knows(r)'
  BY RequestType, EndType, KnowsKept DEF RequestOK
<1>2. /\ q.stage = r.stage /\ q.token = r.token /\ q.family = r.family
      /\ q.root = r.root /\ q.overtaken
  BY OvertakenType
<1>3. q.stage # "reuse"
  BY <1>2, IssuingType
<1> HIDE DEF q
<1>4. Knows(q)'
  BY <1>1, <1>2 DEF Knows
<1>5. RequestOK(q)'
  BY <1>2, <1>3, <1>4 DEF RequestOK
<1> QED
  BY <1>5 DEF q

LEMMA RequestsOKKept ==
    ASSUME TypeOK, TypeOK', RequestsOK, Grows, account.epoch <= account'.epoch,
           NEW c \in Clients, NEW q \in Request, RequestOK(q)',
           NEW others \in SUBSET Clients, \A d \in others : IsIssuing(request[d]),
           request' = [d \in Clients |->
              IF d = c THEN q
              ELSE IF d \in others THEN [request[d] EXCEPT !.overtaken = TRUE] ELSE request[d]],
           \A d \in Clients \ others :
              IsIssuing(request[d]) =>
                 Steady /\ (request[d].family \in reused' => request[d].family \in reused)
    PROVE  RequestsOK'
<1> SUFFICES ASSUME NEW d \in Clients
             PROVE  RequestOK(request[d])'
  BY DEF RequestsOK
<1>1. PICK r \in Request : r = request[d] /\ RequestOK(r)
  BY DEF TypeOK, RequestsOK
<1>2. CASE d = c
  BY <1>2 DEF RequestOK
<1>3. CASE d # c /\ d \in others
  <2>1. r \in Issuing
    BY <1>1, <1>3, RequestType
  <2>2. RequestOK([r EXCEPT !.overtaken = TRUE])'
    BY <1>1, <2>1, OvertakenKept
  <2>3. request'[d] = [r EXCEPT !.overtaken = TRUE]
    BY <1>1, <1>3
  <2> QED
    BY <2>2, <2>3 DEF RequestOK
<1>4. CASE d # c /\ d \notin others
  <2>1. RequestOK(r)'
    BY <1>1, <1>4, RequestKept
  <2>2. request'[d] = r
    BY <1>1, <1>4
  <2> QED
    BY <2>1, <2>2 DEF RequestOK
<1> QED
  BY <1>2, <1>3, <1>4

(* A step of one request alone.                                            *)
LEMMA GotoKept ==
    ASSUME TypeOK, TypeOK', RequestsOK, Grows, account.epoch <= account'.epoch, Steady,
           reused' = reused, NEW c \in Clients, NEW q \in Request, RequestOK(q)', Goto(c, q)
    PROVE  RequestsOK'
<1> DEFINE others == {}
<1>1. request' = [d \in Clients |->
         IF d = c THEN q
         ELSE IF d \in others THEN [request[d] EXCEPT !.overtaken = TRUE] ELSE request[d]]
  BY DEF Goto, TypeOK
<1>2. others \in SUBSET Clients /\ \A d \in others : IsIssuing(request[d])
  OBVIOUS
<1> HIDE DEF others
<1> QED
  BY <1>1, <1>2, RequestsOKKept

(* A step of no request.                                                   *)
LEMMA RequestsStay ==
    ASSUME TypeOK, TypeOK', RequestsOK, Grows, account.epoch <= account'.epoch, Steady,
           reused' = reused, request' = request
    PROVE  RequestsOK'
<1> SUFFICES ASSUME NEW d \in Clients
             PROVE  RequestOK(request[d])'
  BY DEF RequestsOK
<1>1. PICK r \in Request : r = request[d] /\ RequestOK(r)
  BY DEF TypeOK, RequestsOK
<1>2. RequestOK(r)'
  BY <1>1, RequestKept
<1> QED
  BY <1>1, <1>2 DEF RequestOK

(* A request with nothing to do takes a step, and what is awaited stays.   *)
LEMMA AwaitsKept ==
    ASSUME TypeOK, TypeOK', NEW c \in Clients, Todo(c) = <<>>,
           \A d \in Clients \ {c} : Todo(d)' = Todo(d)
    PROVE  /\ Awaits("sweep") => Awaits("sweep")'
           /\ Awaits("deny") => Awaits("deny")'
           /\ Pending => Pending'
BY DEF Awaits, Pending

LEMMA GotoTodo ==
    ASSUME TypeOK, NEW c \in Clients, NEW q, Goto(c, q)
    PROVE  \A d \in Clients \ {c} : Todo(d)' = Todo(d)
BY DEF TypeOK, Goto, Todo

LEMMA OvertakingTodo ==
    ASSUME TypeOK, NEW c \in Clients, NEW q, NEW others \in SUBSET Clients,
           \A d \in others : IsIssuing(request[d]),
           GotoOvertaking(c, q, others)
    PROVE  \A d \in Clients \ {c} : Todo(d)' = Todo(d)
<1> SUFFICES ASSUME NEW d \in Clients \ {c}
             PROVE  Todo(d)' = Todo(d)
  OBVIOUS
<1>1. CASE d \in others
  <2>1. request[d] \in Issuing
    BY <1>1, RequestType DEF TypeOK
  <2>2. request'[d].stage = request[d].stage
    BY <1>1, <2>1, OvertakenType DEF GotoOvertaking
  <2> QED
    BY <1>1, <2>2 DEF Todo, IsIssuing
<1>2. CASE d \notin others
  BY <1>2 DEF GotoOvertaking, Todo
<1> QED
  BY <1>1, <1>2

LEMMA OvertakingType ==
    ASSUME TypeOK, NEW c \in Clients, NEW q \in Request, NEW others \in SUBSET Clients,
           \A d \in others : IsIssuing(request[d]),
           GotoOvertaking(c, q, others)
    PROVE  request' \in [Clients -> Request]
<1>1. \A d \in Clients : request[d] \in Request
  BY DEF TypeOK
<1>2. \A d \in others : [request[d] EXCEPT !.overtaken = TRUE] \in Request
  BY <1>1, RequestType, OvertakenType, EndType
<1> QED
  BY <1>1, <1>2 DEF GotoOvertaking

-----------------------------------------------------------------------------
(* What a step leaves of the sessions.                                     *)

Active(f) == {t \in Tokens : session[t].state = "active" /\ session[t].family = f}

(* No token is signed or handed out, and no session comes back.            *)
SameTokens ==
    /\ Signed' = Signed /\ HandedOut' = HandedOut
    /\ \A t \in Tokens : /\ session'[t].family = session[t].family
                         /\ session'[t].root = session[t].root
                         /\ session[t].denied => session'[t].denied
                         /\ session'[t].state = "active" => session[t].state = "active"

LEMMA SameGrows ==
    ASSUME SameTokens
    PROVE  Grows
BY DEF SameTokens, Grows, Signed

LEMMA SameTokensKeep ==
    ASSUME TypeOK, TypeOK', InOrder, SessionsOK, RevokedForGood, ReuseEndsFamily,
           SameTokens, Steady, account.epoch <= account'.epoch,
           late \subseteq late', reused' \subseteq Signed,
           \A t \in Tokens : session'[t].state = "active" /\ session'[t].family \in reused'
                               => session[t].family \in reused
    PROVE  /\ InOrder' /\ reused' \subseteq Signed' /\ SessionsOK'
           /\ RevokedForGood' /\ ReuseEndsFamily'
<1> USE DEF SameTokens
<1>1. InOrder' /\ reused' \subseteq Signed'
  BY DEF InOrder
<1>2. SessionsOK'
  <2> SUFFICES ASSUME NEW t \in Tokens
               PROVE  SessionOK(t)'
    BY DEF SessionsOK
  <2>1. SessionOK(t)
    BY DEF SessionsOK
  <2>2. t \in Signed' => session'[t].family \in Signed' /\ session'[t].root \in 1..account'.epoch
    BY <2>1, AccountType DEF SessionOK, TypeOK, Account, Epochs
  <2>3. session'[t].state = "active" /\ session'[t].root < account'.firm =>
          t \in late' \/ Pending' \/ ~account'.active
    BY <2>1 DEF SessionOK, Steady
  <2> QED
    BY <2>2, <2>3 DEF SessionOK
<1>3. SessionsEnd'
  BY DEF RevokedForGood, SessionsEnd, Steady
<1>4. AccessEnds'
  <2> SUFFICES ASSUME NEW t \in HandedOut', session'[t].root < account'.firm
               PROVE  session'[t].denied \/ t \in late' \/ Awaits("deny")'
    BY DEF AccessEnds
  <2>1. t \in HandedOut /\ t \in Tokens
    BY DEF HandedOut
  <2> QED
    BY <2>1 DEF RevokedForGood, AccessEnds, Steady
<1>5. ReuseEndsFamily'
  BY DEF ReuseEndsFamily
<1> QED
  BY <1>1, <1>2, <1>3, <1>4, <1>5 DEF RevokedForGood

(* Fewer sessions and fewer refreshes in flight.                           *)
LEMMA FewerSessions ==
    ASSUME TypeOK, OneSessionPerFamily, forks' = forks,
           \A f \in Tokens : Active(f)' \subseteq Active(f) /\ InFlight(f)' \subseteq InFlight(f)
    PROVE  OneSessionPerFamily'
<1> SUFFICES ASSUME NEW f \in Tokens
             PROVE  Cardinality(Active(f)') + Cardinality(InFlight(f)') <= 1 + forks'[f]
  BY DEF OneSessionPerFamily, Active
<1>1. Cardinality(Active(f)') <= Cardinality(Active(f)) /\ Cardinality(Active(f)) \in Nat
        /\ Cardinality(Active(f)') \in Nat
  <2>1. Active(f) \in SUBSET Tokens /\ Active(f)' \in SUBSET Tokens
    BY DEF Active
  <2> QED
    BY <2>1, SignedFinite, FS_Subset
<1>2. Cardinality(InFlight(f)') <= Cardinality(InFlight(f)) /\ Cardinality(InFlight(f)) \in Nat
        /\ Cardinality(InFlight(f)') \in Nat
  <2>1. InFlight(f) \in SUBSET Clients /\ InFlight(f)' \in SUBSET Clients
    BY DEF InFlight
  <2> QED
    BY <2>1, ClientsFinite, FS_Subset
<1>3. Cardinality(Active(f)) + Cardinality(InFlight(f)) <= 1 + forks[f]
  BY DEF OneSessionPerFamily, Active
<1>4. forks[f] \in Nat
  BY DEF TypeOK
<1> QED
  BY <1>1, <1>2, <1>3, <1>4

LEMMA SameActive ==
    ASSUME SameTokens
    PROVE  \A f \in Tokens : Active(f)' \subseteq Active(f)
BY DEF SameTokens, Active

(* A request that does not join those about to insert.                     *)
LEMMA NotInFlight ==
    ASSUME TypeOK, NEW c \in Clients, NEW q, NEW f \in Tokens,
           NEW others \in SUBSET Clients, \A d \in others : IsIssuing(request[d]),
           GotoOvertaking(c, q, others) \/ Goto(c, q),
           q.stage \in {"check", "sign", "insert"} =>
              q.family # f \/ c \in InFlight(f)
    PROVE  InFlight(f)' \subseteq InFlight(f)
<1> SUFFICES ASSUME NEW d \in InFlight(f)'
             PROVE  d \in InFlight(f)
  OBVIOUS
<1>1. d \in Clients /\ request'[d].stage \in {"check", "sign", "insert"} /\ request'[d].family = f
  BY DEF InFlight
<1>2. CASE d = c
  BY <1>1, <1>2 DEF GotoOvertaking, Goto, TypeOK
<1>3. CASE d # c /\ (d \notin others \/ Goto(c, q))
  BY <1>1, <1>3 DEF GotoOvertaking, Goto, TypeOK, InFlight
<1>4. CASE d # c /\ d \in others /\ GotoOvertaking(c, q, others)
  <2>1. PICK r \in Issuing : r = request[d]
    BY <1>4, RequestType DEF TypeOK
  <2>2. request'[d] = [r EXCEPT !.overtaken = TRUE]
    BY <1>1, <1>4, <2>1 DEF GotoOvertaking
  <2> QED
    BY <1>1, <2>1, <2>2, OvertakenType DEF InFlight
<1> QED
  BY <1>2, <1>3, <1>4

-----------------------------------------------------------------------------
(* The steps that only move a request on.                                  *)

LEMMA LightStep ==
    ASSUME InductiveInv, NEW c \in Clients, Todo(c) = <<>>,
           NEW q \in Request, RequestOK(q)', Goto(c, q), UNCHANGED <<account, session, history>>,
           q.stage \in {"check", "sign", "insert"} =>
              q.family = 0 \/ c \in InFlight(q.family)
    PROVE  InductiveInv'
<1> USE DEF InductiveInv
<1>1. TypeOK'
  BY DEF TypeOK, Goto, history
<1>2. SameTokens
  BY DEF SameTokens, Signed, HandedOut
<1>3. \A d \in Clients \ {c} : Todo(d)' = Todo(d)
  BY GotoTodo
<1>4. Steady
  BY <1>1, <1>3, AwaitsKept DEF Steady
<1>5. account.epoch <= account'.epoch /\ account'.firm <= account'.epoch
  BY AccountType
<1>6. RequestsOK'
  BY <1>1, <1>2, <1>4, <1>5, SameGrows, GotoKept DEF history
<1>7. InOrder' /\ reused' \subseteq Signed' /\ SessionsOK' /\ RevokedForGood' /\ ReuseEndsFamily'
  BY <1>1, <1>2, <1>4, <1>5, SameTokensKeep DEF history, FamiliesSound
<1>8. OneSessionPerFamily'
  <2> DEFINE none == {}
  <2>1. none \in SUBSET Clients /\ \A d \in none : IsIssuing(request[d])
    OBVIOUS
  <2> HIDE DEF none
  <2>2. \A f \in Tokens : InFlight(f)' \subseteq InFlight(f)
    <3> SUFFICES ASSUME NEW f \in Tokens
                 PROVE  InFlight(f)' \subseteq InFlight(f)
      OBVIOUS
    <3>1. q.stage \in {"check", "sign", "insert"} => q.family # f \/ c \in InFlight(f)
      BY DEF Tokens
    <3> QED
      BY <2>1, <3>1, NotInFlight
  <2>3. \A f \in Tokens : Active(f)' \subseteq Active(f)
    BY <1>2, SameActive
  <2> QED
    BY <2>2, <2>3, FewerSessions DEF history, FamiliesSound
<1> QED
  BY <1>1, <1>5, <1>6, <1>7, <1>8 DEF FamiliesSound

LEMMA IdleTodo ==
    ASSUME TypeOK, NEW c \in Clients, request[c].stage \in {"idle", "check", "sign", "insert", "rotate", "reuse", "write"}
    PROVE  Todo(c) = <<>>
BY TodoType

LEMMA ReadCandidateStep ==
    ASSUME InductiveInv, NEW c \in Clients, ReadCandidate(c)
    PROVE  InductiveInv'
<1>0. [stage |-> "sign", token |-> 0, family |-> 0, root |-> account.epoch,
       overtaken |-> FALSE] \in Request
  BY SessionsAssumption DEF InductiveInv, TypeOK, Account, Request, Issuing, Epochs
<1>1. PICK q \in Request : q = [stage |-> "sign", token |-> 0, family |-> 0,
                               root |-> account.epoch, overtaken |-> FALSE]
  BY <1>0
<1>2. Todo(c) = <<>>
  BY IdleTodo DEF ReadCandidate, Idle, InductiveInv
<1>3. RequestOK(q)'
  <2>1. 0 \notin reused /\ account.firm <= account.epoch
    BY DEF InductiveInv, TypeOK, Tokens
  <2>2. account.epoch \in 1..account.epoch /\ account.epoch \in Nat /\ account.firm \in Nat
    BY DEF InductiveInv, TypeOK, Account, Epochs
  <2> QED
    BY <1>1, <2>1, <2>2 DEF ReadCandidate, RequestOK, Knows, InTime, IsIssuing, history
<1>4. Goto(c, q) /\ UNCHANGED <<account, session, history>>
  BY <1>1 DEF ReadCandidate
<1> QED
  BY <1>1, <1>2, <1>3, <1>4, LightStep

(* A session that is active and not late, or whose family was not ended,   *)
(* is in time.                                                             *)
LEMMA FindSessionStep ==
    ASSUME InductiveInv, NEW c \in Clients, NEW t \in Tokens,
           FindSession(c, t)
    PROVE  InductiveInv'
<1>1. Todo(c) = <<>>
  BY IdleTodo DEF FindSession, Idle, InductiveInv
<1>2. /\ session[t].family \in Signed /\ session[t].root \in 1..account.epoch
      /\ t \in HandedOut /\ t \in Signed /\ session[t] \in Session
  BY HandedOutSigned DEF InductiveInv, SessionsOK, SessionOK, FindSession, TypeOK
<1>3. account.epoch \in Epochs /\ account.epoch \in Nat /\ MaxTokens \in Nat /\ MaxEpochs \in Nat
  BY SessionsAssumption DEF InductiveInv, TypeOK, Account, Epochs
<1>4. session[t].family \in Tokens /\ session[t].root \in Epochs
  BY <1>2, <1>3 DEF Signed, Epochs
<1>5. CASE session[t].state = "active"
  <2>1. [stage |-> "rotate", token |-> t, family |-> session[t].family,
         root |-> session[t].root, overtaken |-> t \in late] \in Request
    BY <1>3, <1>4 DEF Request, Issuing, Tokens
  <2>2. PICK q \in Request : q = [stage |-> "rotate", token |-> t, family |-> session[t].family,
                                 root |-> session[t].root, overtaken |-> t \in late]
    BY <2>1
  <2>3. q.stage = "rotate" /\ q.token = t /\ q.family = session[t].family
          /\ q.root = session[t].root /\ (q.overtaken <=> t \in late)
    BY <2>2
  <2>4. Knows(q)
    BY <1>2, <1>4, <2>3 DEF Knows, Tokens
  <2>5. t \notin late => InTime(q)
    BY <1>5, <2>3 DEF InTime, InductiveInv, RevokedForGood, SessionsEnd, FamiliesSound,
         ReuseEndsFamily, SessionsOK, SessionOK
  <2>6. Goto(c, q) /\ UNCHANGED <<account, session, history>>
    BY <1>5, <2>2 DEF FindSession
  <2>7. SameTokens
    BY <2>6 DEF SameTokens, Signed, HandedOut
  <2>8. TypeOK' /\ TypeOK
    BY <2>6 DEF InductiveInv, TypeOK, Goto, history
  <2>9. \A d \in Clients \ {c} : Todo(d)' = Todo(d)
    BY <2>6, <2>8, GotoTodo
  <2>10. Steady /\ account.epoch <= account'.epoch /\ reused' = reused
    BY <1>1, <1>3, <2>6, <2>8, <2>9, AwaitsKept DEF Steady, history
  <2>11. RequestOK(q)
    BY <2>3, <2>4, <2>5 DEF RequestOK
  <2>12. RequestOK(q)'
    BY <2>7, <2>8, <2>10, <2>11, SameGrows, RequestKept
  <2> QED
    BY <1>1, <2>3, <2>6, <2>12, LightStep
<1>6. CASE session[t].state # "active"
  <2>1. PICK q \in Request : q = [stage |-> "reuse", family |-> session[t].family]
    BY <1>4, EndType
  <2>2. Goto(c, q) /\ UNCHANGED <<account, session, history>>
    BY <1>6, <2>1 DEF FindSession
  <2>3. RequestOK(q)'
    BY <1>2, <2>1, <2>2 DEF RequestOK, IsIssuing, Signed
  <2> QED
    BY <1>1, <2>1, <2>2, <2>3, LightStep
<1> QED
  BY <1>5, <1>6

(* The account is active, so that the watermark is still to come.          *)
LEMMA CheckUserStep ==
    ASSUME InductiveInv, NEW c \in Clients, CheckUser(c)
    PROVE  InductiveInv'
<1>1. Todo(c) = <<>>
  BY IdleTodo DEF CheckUser, InductiveInv
<1>2. PICK r \in Issuing : r = request[c] /\ r.stage = "check" /\ RequestOK(r)
  BY RequestType DEF InductiveInv, TypeOK, CheckUser, RequestsOK, IsIssuing
<1>3. c \in InFlight(r.family) /\ r.family \in Tokens \cup {0}
  BY <1>2 DEF InFlight, Issuing, Tokens
<1>4. CASE account.active
  <2>1. [r EXCEPT !.stage = "sign"] \in Request
    BY DEF Issuing, Request
  <2>2. PICK q \in Request : q = [r EXCEPT !.stage = "sign"]
    BY <2>1
  <2>3. q.stage = "sign" /\ q.family = r.family /\ q.root = r.root /\ q.overtaken = r.overtaken
    BY <2>2 DEF Issuing
  <2>4. Goto(c, q) /\ UNCHANGED <<account, session, history>>
    BY <1>2, <1>4, <2>2 DEF CheckUser
  <2>5. Knows(r) /\ (r.overtaken \/ InTime(r))
    BY <1>2 DEF RequestOK, IsIssuing
  <2>6. Knows(q)
    BY <1>2, <2>3, <2>5 DEF Knows
  <2>7. Pending => Awaits("deny")
    BY AwaitsMeans DEF Pending, InductiveInv
  <2>8. InTime(r) => InTime(q)
    BY <1>2, <1>4, <2>3, <2>7 DEF InTime
  <2>9. RequestOK(q)
    BY <2>3, <2>5, <2>6, <2>8 DEF RequestOK
  <2>10. SameTokens
    BY <2>4 DEF SameTokens, Signed, HandedOut
  <2>11. TypeOK' /\ TypeOK
    BY <2>4 DEF InductiveInv, TypeOK, Goto, history
  <2>12. \A d \in Clients \ {c} : Todo(d)' = Todo(d)
    BY <2>4, <2>11, GotoTodo
  <2>13. Steady /\ account.epoch <= account'.epoch /\ reused' = reused
    BY <1>1, <2>4, <2>11, <2>12, AwaitsKept, AccountType DEF Steady, history
  <2>14. RequestOK(q)'
    BY <2>9, <2>10, <2>11, <2>13, SameGrows, RequestKept
  <2> QED
    BY <1>1, <1>3, <2>3, <2>4, <2>14, LightStep
<1>5. CASE ~account.active
  <2>1. Idle \in Request /\ Goto(c, Idle) /\ UNCHANGED <<account, session, history>>
    BY <1>5, EndType DEF CheckUser
  <2>2. RequestOK(Idle)' /\ Idle.stage = "idle"
    BY DEF RequestOK, IsIssuing, Idle
  <2> QED
    BY <1>1, <2>1, <2>2, LightStep
<1> QED
  BY <1>4, <1>5

LEMMA BeginWriteStep ==
    ASSUME InductiveInv, NEW c \in Clients,
           NEW op \in {"change", "reset", "disable"}, BeginWrite(c, op)
    PROVE  InductiveInv'
<1>1. Todo(c) = <<>>
  BY IdleTodo DEF BeginWrite, Idle, InductiveInv
<1>2. PICK q \in Request : q = [stage |-> "write", op |-> op]
  BY EndType
<1>3. Goto(c, q) /\ UNCHANGED <<account, session, history>>
  BY <1>2 DEF BeginWrite
<1>4. RequestOK(q)' /\ q.stage = "write"
  BY <1>2 DEF RequestOK, IsIssuing
<1> QED
  BY <1>1, <1>2, <1>3, <1>4, LightStep

-----------------------------------------------------------------------------
(* The steps that change the account.                                      *)

LEMMA TodoAwaits ==
    ASSUME NEW c \in Clients, NEW todo \in Todos, Todo(c)' = todo
    PROVE  /\ todo # <<"deny">> => Awaits("sweep")'
           /\ todo # <<"sweep">> => Awaits("deny")'
           /\ todo = <<"sweep", "deny">> => Pending'
<1>1. CASE todo = <<"sweep">>
  <2>1. 1 \in DOMAIN Todo(c)' /\ Todo(c)'[1] = "sweep"
    BY <1>1
  <2> QED
    BY <1>1, <2>1 DEF Awaits
<1>2. CASE todo = <<"deny">>
  <2>1. 1 \in DOMAIN Todo(c)' /\ Todo(c)'[1] = "deny"
    BY <1>2
  <2> QED
    BY <1>2, <2>1 DEF Awaits
<1>3. CASE todo = <<"sweep", "deny">>
  <2>1. /\ 1 \in DOMAIN Todo(c)' /\ Todo(c)'[1] = "sweep"
        /\ 2 \in DOMAIN Todo(c)' /\ Todo(c)'[2] = "deny"
    BY <1>3
  <2> QED
    BY <1>3, <2>1 DEF Awaits, Pending
<1>4. CASE todo = <<"deny", "sweep">>
  <2>1. /\ 1 \in DOMAIN Todo(c)' /\ Todo(c)'[1] = "deny"
        /\ 2 \in DOMAIN Todo(c)' /\ Todo(c)'[2] = "sweep"
    BY <1>4
  <2> QED
    BY <1>4, <2>1 DEF Awaits
<1> QED
  BY <1>1, <1>2, <1>3, <1>4 DEF Todos

(* A reset link is sent or runs out.                                       *)
LEMMA ResetStep ==
    ASSUME InductiveInv, ForgotPassword \/ ResetExpires
    PROVE  InductiveInv'
<1> USE DEF InductiveInv
<1>1. /\ account'.epoch = account.epoch /\ account'.firm = account.firm
      /\ account'.active = account.active /\ account' \in Account
      /\ UNCHANGED <<session, request, history>>
  BY DEF ForgotPassword, ResetExpires, TypeOK, Account
<1>2. TypeOK' /\ account.epoch <= account'.epoch /\ account'.firm <= account'.epoch
  BY <1>1, AccountType DEF TypeOK, history
<1>3. SameTokens /\ Grows
  BY <1>1, SameGrows DEF SameTokens, Signed, HandedOut
<1>4. Steady
  BY <1>1 DEF Steady, Awaits, Pending, Todo
<1>5. RequestsOK'
  BY <1>1, <1>2, <1>3, <1>4, RequestsStay DEF history
<1>6. InOrder' /\ reused' \subseteq Signed' /\ SessionsOK' /\ RevokedForGood' /\ ReuseEndsFamily'
  BY <1>1, <1>2, <1>3, <1>4, SameTokensKeep DEF history, FamiliesSound
<1>7. OneSessionPerFamily'
  BY <1>1 DEF history, FamiliesSound, OneSessionPerFamily, InFlight
<1> QED
  BY <1>2, <1>5, <1>6, <1>7 DEF FamiliesSound

(* What ends the sessions is written, and the ending itself begins.        *)
LEMMA EndingStep ==
    ASSUME InductiveInv, NEW c \in Clients, Todo(c) = <<>>,
           NEW todo \in Todos, Goto(c, [stage |-> "end", todo |-> todo]),
           account' \in Account, account'.epoch = account.epoch + 1,
           account'.firm \in {account.firm, account'.epoch},
           account'.active => account.active, todo # <<"deny">>,
           account'.firm = account.firm \/ todo = <<"sweep", "deny">>
             \/ (todo = <<"deny", "sweep">> /\ ~account'.active),
           UNCHANGED <<session, history>>
    PROVE  InductiveInv'
<1> USE DEF InductiveInv
<1>1. PICK q \in Request : q = [stage |-> "end", todo |-> todo]
  BY EndType
<1>2. TypeOK'
  BY <1>1 DEF TypeOK, Goto, history
<1>3. Todo(c)' = todo
  BY DEF Goto, Todo, TypeOK
<1>4. account.epoch <= account'.epoch /\ account'.firm <= account'.epoch
  BY AccountType
<1>5. SameTokens /\ Grows
  BY SameGrows DEF SameTokens, Signed, HandedOut
<1>6. \A d \in Clients \ {c} : Todo(d)' = Todo(d)
  BY GotoTodo
<1>7. Steady
  <2>1. /\ Awaits("sweep")'
        /\ todo # <<"sweep">> => Awaits("deny")'
        /\ todo = <<"sweep", "deny">> => Pending'
    BY <1>3, TodoAwaits
  <2>2. /\ Awaits("deny") => Awaits("deny")'
        /\ Pending => Pending'
    BY <1>2, <1>6, AwaitsKept
  <2> QED
    BY <2>1, <2>2 DEF Steady
<1>8. RequestOK(q)'
  BY <1>1 DEF RequestOK, IsIssuing
<1>9. RequestsOK'
  BY <1>1, <1>2, <1>4, <1>5, <1>7, <1>8, GotoKept DEF history
<1>10. InOrder' /\ reused' \subseteq Signed' /\ SessionsOK' /\ RevokedForGood' /\ ReuseEndsFamily'
  BY <1>2, <1>4, <1>5, <1>7, SameTokensKeep DEF history, FamiliesSound
<1>11. OneSessionPerFamily'
  <2> DEFINE none == {}
  <2>1. none \in SUBSET Clients /\ \A d \in none : IsIssuing(request[d])
    OBVIOUS
  <2> HIDE DEF none
  <2>2. q.stage \notin {"check", "sign", "insert"}
    BY <1>1
  <2>3. \A f \in Tokens : InFlight(f)' \subseteq InFlight(f)
    BY <1>1, <2>1, <2>2, NotInFlight
  <2> QED
    BY <1>5, <2>3, SameActive, FewerSessions DEF history, FamiliesSound
<1> QED
  BY <1>2, <1>4, <1>9, <1>10, <1>11 DEF FamiliesSound

LEMMA EndedType ==
    ASSUME InductiveInv, account.epoch < MaxEpochs, NEW firm \in BOOLEAN
    PROVE  /\ Ended(firm) \in Account
           /\ Ended(firm).epoch = account.epoch + 1
           /\ Ended(firm).firm = IF firm THEN account.epoch + 1 ELSE account.firm
           /\ Ended(firm).active = account.active
<1>1. /\ account \in Account /\ account.epoch \in Nat /\ account.epoch + 1 \in Epochs
      /\ account.firm \in Epochs
  BY SessionsAssumption DEF InductiveInv, TypeOK, Account, Epochs
<1>2. PICK next \in Epochs : next = IF firm THEN account.epoch + 1 ELSE account.firm
  BY <1>1
<1>3. Ended(firm) = [account EXCEPT !.epoch = account.epoch + 1, !.firm = next]
  BY <1>1, <1>2 DEF Ended, Account
<1> QED
  BY <1>1, <1>2, <1>3 DEF Account

LEMMA WriteStep ==
    ASSUME InductiveInv, NEW c \in Clients, Write(c)
    PROVE  InductiveInv'
<1>1. Todo(c) = <<>> /\ account.epoch < MaxEpochs /\ UNCHANGED <<session, history>>
  BY IdleTodo DEF Write, InductiveInv, history
<1>2. request[c].op \in {"change", "reset", "disable"}
  BY RequestType DEF Write, InductiveInv, TypeOK
<1>3. CASE request[c].op = "change"
  <2>1. account' = Ended(TRUE) /\ Goto(c, [stage |-> "end", todo |-> <<"sweep", "deny">>])
    BY <1>3 DEF Write
  <2>2. <<"sweep", "deny">> \in Todos /\ <<"sweep", "deny">> # <<"deny">>
    BY DEF Todos
  <2> QED
    BY <1>1, <2>1, <2>2, EndedType, EndingStep
<1>4. CASE request[c].op = "reset"
  <2>1. account' = [Ended(FALSE) EXCEPT !.reset = FALSE]
          /\ Goto(c, [stage |-> "end", todo |-> <<"sweep">>])
    BY <1>4 DEF Write
  <2>2. <<"sweep">> \in Todos /\ <<"sweep">> # <<"deny">>
    BY DEF Todos
  <2>3. /\ account' \in Account /\ account'.epoch = account.epoch + 1
        /\ account'.firm = account.firm /\ account'.active = account.active
    BY <1>1, <2>1, EndedType DEF Account
  <2> QED
    BY <1>1, <2>1, <2>2, <2>3, EndingStep
<1>5. CASE request[c].op = "disable"
  <2>1. account' = [Ended(TRUE) EXCEPT !.active = FALSE]
          /\ Goto(c, [stage |-> "end", todo |-> <<"deny", "sweep">>])
    BY <1>5 DEF Write
  <2>2. <<"deny", "sweep">> \in Todos /\ <<"deny", "sweep">> # <<"deny">>
    BY DEF Todos
  <2>3. /\ account' \in Account /\ account'.epoch = account.epoch + 1
        /\ account'.firm = account'.epoch /\ ~account'.active
    BY <1>1, <2>1, EndedType DEF Account
  <2> QED
    BY <1>1, <2>1, <2>2, <2>3, EndingStep
<1> QED
  BY <1>2, <1>3, <1>4, <1>5

LEMMA LogoutEverywhereStep ==
    ASSUME InductiveInv, NEW c \in Clients, LogoutEverywhere(c)
    PROVE  InductiveInv'
<1>1. /\ Todo(c) = <<>> /\ account.epoch < MaxEpochs /\ UNCHANGED <<session, history>>
      /\ account' = Ended(TRUE) /\ Goto(c, [stage |-> "end", todo |-> <<"sweep", "deny">>])
  BY IdleTodo DEF LogoutEverywhere, InductiveInv, Idle
<1>2. <<"sweep", "deny">> \in Todos /\ <<"sweep", "deny">> # <<"deny">>
  BY DEF Todos
<1> QED
  BY <1>1, <1>2, EndedType, EndingStep

-----------------------------------------------------------------------------
(* The steps that revoke some sessions.                                    *)

LEMMA RevokeType ==
    ASSUME NEW s \in Session, NEW state \in {"active", "revoked"}
    PROVE  /\ [s EXCEPT !.state = state] \in Session
           /\ [s EXCEPT !.state = state].state = state
           /\ [s EXCEPT !.state = state].family = s.family
           /\ [s EXCEPT !.state = state].root = s.root
           /\ [s EXCEPT !.state = state].denied = s.denied
BY DEF Session

LEMMA RevokedSame ==
    ASSUME TypeOK, NEW S \in SUBSET Tokens, session' = Revoked(S)
    PROVE  /\ SameTokens /\ session' \in [Tokens -> Session]
           /\ \A t \in Tokens : session'[t].denied = session[t].denied
           /\ \A t \in S : session'[t].state # "active"
<1>1. ASSUME NEW t \in Tokens
      PROVE  /\ session'[t] \in Session
             /\ session'[t].family = session[t].family /\ session'[t].root = session[t].root
             /\ session'[t].denied = session[t].denied
             /\ session'[t].state = "active" => session[t].state = "active" /\ t \notin S
             /\ session'[t].state = "none" <=> session[t].state = "none"
             /\ session'[t].state \in {"active", "revoked"}
                  <=> session[t].state \in {"active", "revoked"}
  <2>1. session[t] \in Session
    BY DEF TypeOK
  <2>2. CASE session[t].state = "active" /\ t \in S
    BY <2>1, <2>2, RevokeType DEF Revoked
  <2>3. CASE ~(session[t].state = "active" /\ t \in S)
    BY <2>1, <2>3 DEF Revoked
  <2> QED
    BY <2>2, <2>3
<1>2. session' \in [Tokens -> Session]
  BY <1>1 DEF Revoked
<1>3. Signed' = Signed /\ HandedOut' = HandedOut
  BY <1>1 DEF Signed, HandedOut
<1> QED
  BY <1>1, <1>2, <1>3 DEF SameTokens

(* One session that was handed out is revoked.                             *)
LEMMA RevokeOneSame ==
    ASSUME TypeOK, NEW t \in HandedOut,
           session' = [session EXCEPT ![t].state = "revoked"]
    PROVE  /\ SameTokens /\ session' \in [Tokens -> Session]
           /\ session'[t].state = "revoked"
           /\ \A u \in Tokens \ {t} : session'[u] = session[u]
<1>1. t \in Tokens /\ session[t] \in Session
  BY DEF HandedOut, TypeOK
<1>2. \A u \in Tokens \ {t} : session'[u] = session[u]
  BY DEF TypeOK
<1>3. session'[t] = [session[t] EXCEPT !.state = "revoked"]
  BY <1>1 DEF TypeOK
<1>4. /\ session'[t] \in Session /\ session'[t].state = "revoked"
      /\ session'[t].family = session[t].family /\ session'[t].root = session[t].root
      /\ session'[t].denied = session[t].denied
  BY <1>1, <1>3, RevokeType
<1>5. Signed' = Signed /\ HandedOut' = HandedOut
  BY <1>1, <1>2, <1>4 DEF Signed, HandedOut
<1>6. session' \in [Tokens -> Session]
  BY <1>1, <1>2, <1>4 DEF TypeOK
<1> QED
  BY <1>1, <1>2, <1>4, <1>5, <1>6 DEF SameTokens

LEMMA LogoutStep ==
    ASSUME InductiveInv, NEW t \in Tokens, Logout(t)
    PROVE  InductiveInv'
<1> USE DEF InductiveInv
<1>1. t \in HandedOut /\ UNCHANGED <<account, request, history>>
        /\ session' = [session EXCEPT ![t].state = "revoked"]
  BY DEF Logout, HandedOut
<1>2. SameTokens /\ session' \in [Tokens -> Session]
  BY <1>1, RevokeOneSame
<1>3. TypeOK' /\ account.epoch <= account'.epoch /\ account'.firm <= account'.epoch
  BY <1>1, <1>2, AccountType DEF TypeOK, history
<1>4. Steady
  BY <1>1 DEF Steady, Awaits, Pending, Todo
<1>5. RequestsOK'
  BY <1>1, <1>2, <1>3, <1>4, SameGrows, RequestsStay DEF history
<1>6. InOrder' /\ reused' \subseteq Signed' /\ SessionsOK' /\ RevokedForGood' /\ ReuseEndsFamily'
  BY <1>1, <1>2, <1>3, <1>4, SameTokensKeep DEF history, FamiliesSound, SameTokens
<1>7. OneSessionPerFamily'
  <2>1. \A f \in Tokens : InFlight(f)' = InFlight(f)
    BY <1>1 DEF InFlight
  <2> QED
    BY <1>1, <1>2, <2>1, SameActive, FewerSessions DEF history, FamiliesSound
<1> QED
  BY <1>3, <1>5, <1>6, <1>7 DEF FamiliesSound

(* The requests of the family that overlap are the ones it misses.         *)
LEMMA RevokeFamilyStep ==
    ASSUME InductiveInv, NEW c \in Clients, RevokeFamily(c)
    PROVE  InductiveInv'
<1> USE DEF InductiveInv
<1>1. PICK f \in Signed : f = request[c].family
  BY DEF RevokeFamily, RequestsOK, RequestOK
<1>2. PICK others \in SUBSET Clients : others = {d \in Issuers : request[d].family = f}
  BY DEF Issuers
<1>3. /\ session' = Revoked({t \in Tokens : session[t].family = f})
      /\ reused' = reused \cup {f} /\ GotoOvertaking(c, Idle, others)
      /\ UNCHANGED <<account, late, forks>>
  BY <1>1, <1>2 DEF RevokeFamily
<1>4. \A d \in others : IsIssuing(request[d])
  BY <1>2 DEF Issuers
<1>5. /\ SameTokens /\ session' \in [Tokens -> Session]
      /\ \A t \in Tokens : session[t].family = f => session'[t].state # "active"
  BY <1>3, RevokedSame
<1>6. request' \in [Clients -> Request]
  BY <1>3, <1>4, EndType, OvertakingType
<1>7. TypeOK' /\ account.epoch <= account'.epoch /\ account'.firm <= account'.epoch
  BY <1>1, <1>3, <1>5, <1>6, AccountType DEF TypeOK, Signed
<1>8. Todo(c) = <<>> /\ \A d \in Clients \ {c} : Todo(d)' = Todo(d)
  BY <1>3, <1>4, IdleTodo, OvertakingTodo DEF RevokeFamily
<1>9. Steady
  BY <1>3, <1>7, <1>8, AwaitsKept DEF Steady
<1>10. RequestsOK'
  <2>1. PICK q \in Request : q = Idle
    BY EndType
  <2>2. RequestOK(q)'
    BY <2>1 DEF RequestOK, IsIssuing, Idle
  <2>3. \A d \in Clients \ others :
          IsIssuing(request[d]) =>
             Steady /\ (request[d].family \in reused' => request[d].family \in reused)
    BY <1>2, <1>3, <1>9 DEF Issuers
  <2>4. request' = [d \in Clients |->
           IF d = c THEN q
           ELSE IF d \in others THEN [request[d] EXCEPT !.overtaken = TRUE] ELSE request[d]]
    BY <1>3, <2>1 DEF GotoOvertaking
  <2> QED
    BY <1>4, <1>5, <1>7, <2>2, <2>3, <2>4, SameGrows, RequestsOKKept
<1>11. InOrder' /\ reused' \subseteq Signed' /\ SessionsOK' /\ RevokedForGood' /\ ReuseEndsFamily'
  <2>1. \A t \in Tokens : session'[t].state = "active" /\ session'[t].family \in reused'
                            => session[t].family \in reused
    BY <1>3, <1>5 DEF SameTokens
  <2> QED
    BY <1>1, <1>3, <1>5, <1>7, <1>9, <2>1, SameTokensKeep DEF FamiliesSound
<1>12. OneSessionPerFamily'
  <2>1. Idle.stage \notin {"check", "sign", "insert"}
    BY DEF Idle
  <2>2. \A g \in Tokens : InFlight(g)' \subseteq InFlight(g)
    BY <1>3, <1>4, <2>1, NotInFlight
  <2> QED
    BY <1>3, <1>5, <2>2, SameActive, FewerSessions DEF FamiliesSound
<1> QED
  BY <1>7, <1>10, <1>11, <1>12 DEF FamiliesSound

(* The first rotation frees the place of the session that follows, a later *)
(* one is counted.                                                         *)
LEMMA RotateStep ==
    ASSUME InductiveInv, NEW c \in Clients, Rotate(c)
    PROVE  InductiveInv'
<1> USE DEF InductiveInv
<1>1. PICK r \in Issuing : r = request[c] /\ r.stage = "rotate" /\ RequestOK(r)
  BY RequestType DEF TypeOK, Rotate, RequestsOK, IsIssuing
<1>2. Knows(r) /\ (r.overtaken \/ InTime(r))
  BY <1>1 DEF RequestOK, IsIssuing
<1>3. PICK q \in Request : q = [r EXCEPT !.stage = "check"]
  <2>1. [r EXCEPT !.stage = "check"] \in Request
    BY DEF Issuing, Request
  <2> QED
    BY <2>1
<1>4. q.stage = "check" /\ q.family = r.family /\ q.root = r.root /\ q.overtaken = r.overtaken
  BY <1>3 DEF Issuing
<1>5. /\ r.token \in HandedOut /\ session[r.token].family = r.family
      /\ r.family \in Signed /\ r.family \in Tokens /\ r.token \in Tokens
  BY <1>1, <1>2 DEF Knows, HandedOut, Signed
<1>6. /\ session' = [session EXCEPT ![r.token].state = "revoked"]
      /\ forks' = IF session[r.token].state = "active" THEN forks
                  ELSE [forks EXCEPT ![r.family] = @ + 1]
      /\ Goto(c, q) /\ UNCHANGED <<account, late, reused>>
  BY <1>1, <1>3 DEF Rotate
<1>7. /\ SameTokens /\ session' \in [Tokens -> Session] /\ session'[r.token].state = "revoked"
      /\ \A u \in Tokens \ {r.token} : session'[u] = session[u]
  BY <1>5, <1>6, RevokeOneSame
<1>8. TypeOK' /\ account.epoch <= account'.epoch /\ account'.firm <= account'.epoch
  <2>1. forks' \in [Tokens -> Nat]
    BY <1>5, <1>6 DEF TypeOK
  <2>2. request' \in [Clients -> Request]
    BY <1>6 DEF TypeOK, Goto
  <2> QED
    BY <1>6, <1>7, <2>1, <2>2, AccountType DEF TypeOK
<1>9. Todo(c) = <<>> /\ \A d \in Clients \ {c} : Todo(d)' = Todo(d)
  BY <1>1, <1>6, IdleTodo, GotoTodo
<1>10. Steady
  BY <1>6, <1>8, <1>9, AwaitsKept DEF Steady
<1>11. RequestsOK'
  <2>1. Knows(q)
    BY <1>1, <1>2, <1>4 DEF Knows
  <2>2. InTime(r) => InTime(q)
    BY <1>4 DEF InTime
  <2>3. RequestOK(q)
    BY <1>2, <1>4, <2>1, <2>2 DEF RequestOK
  <2>4. RequestOK(q)'
    BY <1>6, <1>7, <1>8, <1>10, <2>3, SameGrows, RequestKept
  <2> QED
    BY <1>6, <1>7, <1>8, <1>10, <2>4, SameGrows, GotoKept
<1>12. InOrder' /\ reused' \subseteq Signed' /\ SessionsOK' /\ RevokedForGood' /\ ReuseEndsFamily'
  BY <1>6, <1>7, <1>8, <1>10, SameTokensKeep DEF FamiliesSound, SameTokens
<1>13. OneSessionPerFamily'
  <2> SUFFICES ASSUME NEW f \in Tokens
               PROVE  Cardinality(Active(f)') + Cardinality(InFlight(f)') <= 1 + forks'[f]
    BY DEF OneSessionPerFamily, Active
  <2>1. Cardinality(Active(f)) + Cardinality(InFlight(f)) <= 1 + forks[f]
    BY DEF OneSessionPerFamily, Active, FamiliesSound
  <2>2. /\ IsFiniteSet(Active(f)) /\ Cardinality(Active(f)) \in Nat
        /\ IsFiniteSet(InFlight(f)) /\ Cardinality(InFlight(f)) \in Nat
    <3>1. Active(f) \in SUBSET Tokens /\ InFlight(f) \in SUBSET Clients
      BY DEF Active, InFlight
    <3> QED
      BY <3>1, SignedFinite, ClientsFinite
  <2>3. forks[f] \in Nat
    BY DEF TypeOK
  <2>4. CASE f # r.family
    <3>1. Active(f)' = Active(f)
      BY <1>5, <1>7, <2>4 DEF Active, SameTokens
    <3>2. InFlight(f)' = InFlight(f)
      BY <1>1, <1>4, <1>6, <2>4 DEF InFlight, Goto, TypeOK
    <3>3. forks'[f] = forks[f]
      BY <1>5, <1>6, <2>4 DEF TypeOK
    <3> QED
      BY <2>1, <3>1, <3>2, <3>3
  <2>5. CASE f = r.family
    <3>1. InFlight(f)' = InFlight(f) \cup {c} /\ c \notin InFlight(f)
      BY <1>1, <1>4, <1>6, <2>5 DEF InFlight, Goto, TypeOK
    <3>2. Cardinality(InFlight(f)') = Cardinality(InFlight(f)) + 1
      BY <2>2, <3>1, FS_AddElement
    <3>3. CASE session[r.token].state = "active"
      <4>1. Active(f)' = Active(f) \ {r.token} /\ r.token \in Active(f)
        BY <1>5, <1>7, <2>5, <3>3 DEF Active, SameTokens
      <4>2. Cardinality(Active(f)') = Cardinality(Active(f)) - 1
        BY <2>2, <4>1, FS_RemoveElement
      <4>3. forks' = forks
        BY <1>6, <3>3
      <4> QED
        BY <2>1, <2>2, <2>3, <3>2, <4>2, <4>3
    <3>4. CASE session[r.token].state # "active"
      <4>1. Active(f)' = Active(f)
        BY <1>5, <1>7, <3>4 DEF Active, SameTokens
      <4>2. forks'[f] = forks[f] + 1
        BY <1>6, <2>5, <3>4 DEF TypeOK
      <4> QED
        BY <2>1, <2>2, <2>3, <3>2, <4>1, <4>2
    <3> QED
      BY <3>3, <3>4
  <2> QED
    BY <2>4, <2>5
<1> QED
  BY <1>8, <1>11, <1>12, <1>13 DEF FamiliesSound

-----------------------------------------------------------------------------
(* The steps that end what a request was to end.                           *)

LEMMA EndRequests ==
    ASSUME TypeOK, TypeOK', RequestsOK, SameTokens, UNCHANGED <<account, reused>>,
           NEW c \in Clients, NEW q \in Request, ~IsIssuing(q), q.stage # "reuse",
           GotoOvertaking(c, q, Issuers)
    PROVE  RequestsOK'
<1>1. PICK others \in SUBSET Clients : others = Issuers
  BY DEF Issuers
<1>2. RequestOK(q)'
  BY DEF RequestOK, IsIssuing
<1>3. \A d \in others : IsIssuing(request[d])
  BY <1>1 DEF Issuers
<1>4. \A d \in Clients \ others : ~IsIssuing(request[d])
  BY <1>1 DEF Issuers
<1>5. request' = [d \in Clients |->
         IF d = c THEN q
         ELSE IF d \in others THEN [request[d] EXCEPT !.overtaken = TRUE] ELSE request[d]]
  BY <1>1 DEF GotoOvertaking
<1>6. account.epoch <= account'.epoch
  BY AccountType
<1> QED
  BY <1>2, <1>3, <1>4, <1>5, <1>6, SameGrows, RequestsOKKept

LEMMA EndSteps ==
    ASSUME TypeOK, NEW c \in Clients, NEW q \in Request, GotoOvertaking(c, q, Issuers)
    PROVE  /\ request' \in [Clients -> Request]
           /\ \A d \in Clients \ {c} : Todo(d)' = Todo(d)
           /\ request'[c] = q
           /\ q.stage \notin {"check", "sign", "insert"} =>
                \A f \in Tokens : InFlight(f)' \subseteq InFlight(f)
<1>1. PICK others \in SUBSET Clients : others = Issuers
  BY DEF Issuers
<1>2. GotoOvertaking(c, q, others) /\ \A d \in others : IsIssuing(request[d])
  BY <1>1 DEF Issuers
<1>3. request'[c] = q
  BY DEF GotoOvertaking
<1>4. q.stage \notin {"check", "sign", "insert"} =>
         \A f \in Tokens : InFlight(f)' \subseteq InFlight(f)
  BY <1>2, NotInFlight
<1> QED
  BY <1>2, <1>3, <1>4, OvertakingType, OvertakingTodo

(* Only the step that was taken is no longer awaited.                      *)
LEMMA EndAwaits ==
    ASSUME TypeOK, NEW c \in Clients, Todo(c) # <<>>,
           \A d \in Clients \ {c} : Todo(d)' = Todo(d), request'[c] = After(c)
    PROVE  /\ Head(Todo(c)) = "sweep" => (Awaits("deny") => Awaits("deny")')
           /\ Head(Todo(c)) = "deny" => /\ Awaits("sweep") => Awaits("sweep")'
                                        /\ Pending => Pending'
<1>1. ASSUME Head(Todo(c)) = "sweep", Awaits("deny")
      PROVE  Awaits("deny")'
  <2>1. PICK d \in Clients : Todo(d) \in {<<"deny">>, <<"sweep", "deny">>, <<"deny", "sweep">>}
    BY <1>1, AwaitsMeans
  <2>2. CASE d = c
    <3>1. After(c) = [stage |-> "end", todo |-> <<"deny">>]
      BY <1>1, <2>1, <2>2, AfterType
    <3>2. Todo(c)' = <<"deny">>
      BY <3>1 DEF Todo
    <3>3. <<"deny">> \in Todos /\ <<"deny">> # <<"sweep">>
      BY DEF Todos
    <3> QED
      BY <3>2, <3>3, TodoAwaits
  <2>3. CASE d # c
    <3>1. Todo(d)' = Todo(d) /\ Todo(d) \in Todos /\ Todo(d) # <<"sweep">>
      BY <2>1, <2>3 DEF Todos
    <3> QED
      BY <3>1, TodoAwaits
  <2> QED
    BY <2>2, <2>3
<1>2. ASSUME Head(Todo(c)) = "deny", Awaits("sweep")
      PROVE  Awaits("sweep")'
  <2>1. PICK d \in Clients : Todo(d) \in {<<"sweep">>, <<"sweep", "deny">>, <<"deny", "sweep">>}
    BY <1>2, AwaitsMeans
  <2>2. CASE d = c
    <3>1. After(c) = [stage |-> "end", todo |-> <<"sweep">>]
      BY <1>2, <2>1, <2>2, AfterType
    <3>2. Todo(c)' = <<"sweep">>
      BY <3>1 DEF Todo
    <3>3. <<"sweep">> \in Todos /\ <<"sweep">> # <<"deny">>
      BY DEF Todos
    <3> QED
      BY <3>2, <3>3, TodoAwaits
  <2>3. CASE d # c
    <3>1. Todo(d)' = Todo(d) /\ Todo(d) \in Todos /\ Todo(d) # <<"deny">>
      BY <2>1, <2>3 DEF Todos
    <3> QED
      BY <3>1, TodoAwaits
  <2> QED
    BY <2>2, <2>3
<1>3. ASSUME Head(Todo(c)) = "deny", Pending
      PROVE  Pending'
  BY <1>3 DEF Pending
<1> QED
  BY <1>1, <1>2, <1>3

LEMMA SweepStep ==
    ASSUME InductiveInv, NEW c \in Clients, Sweep(c)
    PROVE  InductiveInv'
<1> USE DEF InductiveInv
<1>1. PICK q \in Request : q = After(c) /\ ~IsIssuing(q) /\ q.stage # "reuse"
  BY AfterType DEF Sweep
<1>2. /\ Todo(c) # <<>> /\ Head(Todo(c)) = "sweep" /\ session' = Revoked(Tokens)
      /\ GotoOvertaking(c, q, Issuers) /\ UNCHANGED <<account, history>>
  BY <1>1 DEF Sweep
<1>3. /\ SameTokens /\ session' \in [Tokens -> Session]
      /\ \A t \in Tokens : session'[t].denied = session[t].denied
      /\ \A t \in Tokens : session'[t].state # "active"
  BY <1>2, RevokedSame
<1>4. /\ request' \in [Clients -> Request] /\ request'[c] = After(c)
      /\ \A d \in Clients \ {c} : Todo(d)' = Todo(d)
      /\ \A f \in Tokens : InFlight(f)' \subseteq InFlight(f)
  BY <1>1, <1>2, EndSteps DEF IsIssuing
<1>5. TypeOK' /\ account'.firm <= account'.epoch
  BY <1>2, <1>3, <1>4 DEF TypeOK, history
<1>6. RequestsOK'
  BY <1>1, <1>2, <1>3, <1>5, EndRequests DEF history
<1>7. Awaits("deny") => Awaits("deny")'
  BY <1>2, <1>4, EndAwaits
<1>8. SessionsOK'
  <2> SUFFICES ASSUME NEW t \in Tokens
               PROVE  SessionOK(t)'
    BY DEF SessionsOK
  <2>1. SessionOK(t)
    BY DEF SessionsOK
  <2> QED
    BY <1>2, <1>3, <2>1 DEF SessionOK, SameTokens
<1>9. SessionsEnd' /\ ReuseEndsFamily'
  BY <1>3 DEF SessionsEnd, ReuseEndsFamily
<1>10. AccessEnds'
  <2> SUFFICES ASSUME NEW t \in HandedOut', session'[t].root < account'.firm
               PROVE  session'[t].denied \/ t \in late' \/ Awaits("deny")'
    BY DEF AccessEnds
  <2>1. t \in HandedOut /\ t \in Tokens
    BY <1>3 DEF HandedOut, SameTokens
  <2> QED
    BY <1>2, <1>3, <1>7, <2>1 DEF RevokedForGood, AccessEnds, SameTokens, history
<1>11. OneSessionPerFamily'
  BY <1>2, <1>3, <1>4, SameActive, FewerSessions DEF FamiliesSound, history
<1>12. InOrder' /\ reused' \subseteq Signed'
  BY <1>2, <1>3 DEF InOrder, SameTokens, history
<1> QED
  BY <1>5, <1>6, <1>8, <1>9, <1>10, <1>11, <1>12 DEF FamiliesSound, RevokedForGood

(* The watermark is over every token that is signed.                       *)
LEMMA DeniedSame ==
    ASSUME TypeOK,
           session' = [t \in Tokens |-> [session[t] EXCEPT !.denied = @ \/ t \in Signed]]
    PROVE  /\ SameTokens /\ session' \in [Tokens -> Session]
           /\ \A t \in Tokens : session'[t].state = session[t].state
           /\ \A t \in Signed : session'[t].denied
<1>1. ASSUME NEW t \in Tokens
      PROVE  /\ session'[t] \in Session
             /\ session'[t].state = session[t].state
             /\ session'[t].family = session[t].family /\ session'[t].root = session[t].root
             /\ session'[t].denied = (session[t].denied \/ t \in Signed)
  <2>1. PICK s \in Session : s = session[t]
    BY DEF TypeOK
  <2>2. PICK denied \in BOOLEAN : denied = (s.denied \/ t \in Signed)
    OBVIOUS
  <2>3. session'[t] = [s EXCEPT !.denied = denied]
    BY <2>1, <2>2
  <2> QED
    BY <2>1, <2>2, <2>3 DEF Session
<1>2. session' \in [Tokens -> Session]
  BY <1>1
<1>3. Signed' = Signed /\ HandedOut' = HandedOut
  BY <1>1 DEF Signed, HandedOut
<1>4. \A t \in Signed : t \in Tokens
  BY DEF Signed
<1> QED
  BY <1>1, <1>2, <1>3, <1>4 DEF SameTokens

LEMMA DenyStep ==
    ASSUME InductiveInv, NEW c \in Clients, Deny(c)
    PROVE  InductiveInv'
<1> USE DEF InductiveInv
<1>1. PICK q \in Request : q = After(c) /\ ~IsIssuing(q) /\ q.stage # "reuse"
  BY AfterType DEF Deny
<1>2. /\ Todo(c) # <<>> /\ Head(Todo(c)) = "deny"
      /\ GotoOvertaking(c, q, Issuers) /\ UNCHANGED <<account, history>>
  BY <1>1 DEF Deny
<1>3. /\ SameTokens /\ session' \in [Tokens -> Session]
      /\ \A t \in Tokens : session'[t].state = session[t].state
      /\ \A t \in Signed : session'[t].denied
  BY DeniedSame DEF Deny
<1>4. /\ request' \in [Clients -> Request] /\ request'[c] = After(c)
      /\ \A d \in Clients \ {c} : Todo(d)' = Todo(d)
      /\ \A f \in Tokens : InFlight(f)' \subseteq InFlight(f)
  BY <1>1, <1>2, EndSteps DEF IsIssuing
<1>5. TypeOK' /\ account'.firm <= account'.epoch
  BY <1>2, <1>3, <1>4 DEF TypeOK, history
<1>6. RequestsOK'
  BY <1>1, <1>2, <1>3, <1>5, EndRequests DEF history
<1>7. (Awaits("sweep") => Awaits("sweep")') /\ (Pending => Pending')
  BY <1>2, <1>4, EndAwaits
<1>8. SessionsOK'
  <2> SUFFICES ASSUME NEW t \in Tokens
               PROVE  SessionOK(t)'
    BY DEF SessionsOK
  <2>1. SessionOK(t)
    BY DEF SessionsOK
  <2> QED
    BY <1>2, <1>3, <1>7, <2>1 DEF SessionOK, SameTokens, history
<1>9. SessionsEnd' /\ ReuseEndsFamily'
  BY <1>2, <1>3, <1>7 DEF SessionsEnd, ReuseEndsFamily, RevokedForGood, FamiliesSound,
       SameTokens, history
<1>10. AccessEnds'
  BY <1>3, HandedOutSigned DEF AccessEnds, SameTokens
<1>11. OneSessionPerFamily'
  BY <1>2, <1>3, <1>4, SameActive, FewerSessions DEF FamiliesSound, history
<1>12. InOrder' /\ reused' \subseteq Signed'
  BY <1>2, <1>3 DEF InOrder, SameTokens, history
<1> QED
  BY <1>5, <1>6, <1>8, <1>9, <1>10, <1>11, <1>12 DEF FamiliesSound, RevokedForGood

(* What it leaves undone is late.                                          *)
LEMMA GiveUpStep ==
    ASSUME InductiveInv, NEW c \in Clients, GiveUp(c)
    PROVE  InductiveInv'
<1> USE DEF InductiveInv
<1>1. PICK q \in Request : /\ q = IF Head(Todo(c)) = "deny" THEN After(c) ELSE Idle
                           /\ ~IsIssuing(q) /\ q.stage # "reuse"
  <2>1. Idle \in Request /\ ~IsIssuing(Idle) /\ Idle.stage # "reuse"
    BY EndType DEF Idle, IsIssuing
  <2> QED
    BY <2>1, AfterType DEF GiveUp
<1>2. /\ Todo(c) # <<>> /\ late' = late \cup HandedOut
      /\ GotoOvertaking(c, q, Issuers) /\ UNCHANGED <<account, session, reused, forks>>
  BY <1>1 DEF GiveUp
<1>3. SameTokens
  BY <1>2 DEF SameTokens, Signed, HandedOut
<1>4. /\ request' \in [Clients -> Request]
      /\ \A f \in Tokens : InFlight(f)' \subseteq InFlight(f)
  BY <1>1, <1>2, EndSteps DEF IsIssuing
<1>5. TypeOK' /\ account'.firm <= account'.epoch
  BY <1>2, <1>4 DEF TypeOK, HandedOut
<1>6. RequestsOK'
  BY <1>1, <1>2, <1>3, <1>5, EndRequests
<1>7. SessionsOK'
  <2> SUFFICES ASSUME NEW t \in Tokens
               PROVE  SessionOK(t)'
    BY DEF SessionsOK
  <2>1. SessionOK(t)
    BY DEF SessionsOK
  <2> QED
    BY <1>2, <1>3, <2>1 DEF SessionOK, SameTokens, HandedOut
<1>8. SessionsEnd' /\ ReuseEndsFamily'
  BY <1>2 DEF SessionsEnd, ReuseEndsFamily, HandedOut
<1>9. AccessEnds'
  BY <1>2, <1>3 DEF AccessEnds, SameTokens
<1>10. OneSessionPerFamily'
  BY <1>2, <1>3, <1>4, SameActive, FewerSessions DEF FamiliesSound
<1>11. InOrder' /\ reused' \subseteq Signed'
  BY <1>2, <1>3 DEF InOrder, SameTokens
<1> QED
  BY <1>5, <1>6, <1>7, <1>8, <1>9, <1>10, <1>11 DEF FamiliesSound, RevokedForGood

-----------------------------------------------------------------------------
(* The steps that issue a pair of tokens.                                  *)

LEMMA NextToken ==
    ASSUME TypeOK, InOrder
    PROVE  /\ Cardinality(Signed) \in Nat /\ IsFiniteSet(Signed)
           /\ Cardinality(Signed) + 1 \notin Signed
           /\ Signed \cup {Cardinality(Signed) + 1} = 1..(Cardinality(Signed) + 1)
<1>1. Signed \in SUBSET Tokens
  BY DEF Signed
<1>2. PICK n \in Nat : n = Cardinality(Signed) /\ Signed = 1..n
  BY <1>1, SignedFinite DEF InOrder
<1>3. n + 1 \notin 1..n /\ (1..n) \cup {n + 1} = 1..(n + 1)
  OBVIOUS
<1> QED
  BY <1>1, <1>2, <1>3, SignedFinite

LEMMA SignStep ==
    ASSUME InductiveInv, NEW c \in Clients, Sign(c)
    PROVE  InductiveInv'
<1> USE DEF InductiveInv
<1>1. PICK new \in Tokens : new = Cardinality(Signed) + 1
  BY DEF Sign
<1>2. PICK r \in Issuing : r = request[c] /\ r.stage = "sign" /\ RequestOK(r)
  BY RequestType DEF TypeOK, Sign, RequestsOK, IsIssuing
<1>3. Knows(r) /\ (r.overtaken \/ InTime(r))
  BY <1>2 DEF RequestOK, IsIssuing
<1>4. PICK family \in Tokens : family = IF r.family = 0 THEN new ELSE r.family
  BY <1>3 DEF Knows, Signed
<1>5. r.root \in 0..MaxTokens \cup Epochs /\ r.root \in 0..MaxEpochs /\ r.overtaken \in BOOLEAN
  BY IssuingType, SessionsAssumption DEF Epochs
<1>6. PICK q \in Request : q = [r EXCEPT !.stage = "insert", !.token = new, !.family = family]
  <2>1. new \in 0..MaxTokens /\ family \in 0..MaxTokens
    BY SessionsAssumption DEF Tokens
  <2>2. [r EXCEPT !.stage = "insert", !.token = new, !.family = family] \in Issuing
    BY <2>1 DEF Issuing
  <2>3. [r EXCEPT !.stage = "insert", !.token = new, !.family = family] \in Request
    BY <2>2, EndType
  <2> QED
    BY <2>3
<1>7. /\ q.stage = "insert" /\ q.token = new /\ q.family = family
      /\ q.root = r.root /\ q.overtaken = r.overtaken
  BY <1>6 DEF Issuing
<1>8. PICK s \in Session : s = [state |-> "signed", family |-> family, root |-> r.root,
                                denied |-> FALSE]
  <2>1. [state |-> "signed", family |-> family, root |-> r.root, denied |-> FALSE] \in Session
    BY <1>5, SessionsAssumption DEF Session, Tokens
  <2> QED
    BY <2>1
<1>9. /\ session' = [session EXCEPT ![new] = s] /\ Goto(c, q) /\ UNCHANGED <<account, history>>
  BY <1>1, <1>2, <1>4, <1>6, <1>8 DEF Sign
<1>10. new \notin Signed /\ Signed' = Signed \cup {new} /\ HandedOut' = HandedOut
  <2>1. new \notin Signed
    BY <1>1, NextToken
  <2>2. session'[new] = s /\ \A t \in Tokens \ {new} : session'[t] = session[t]
    BY <1>9 DEF TypeOK
  <2>3. s.state = "signed"
    BY <1>8
  <2>4. session[new].state = "none"
    BY <2>1 DEF Signed
  <2> QED
    BY <2>1, <2>2, <2>3, <2>4 DEF Signed, HandedOut
<1>11. /\ session'[new].state = "signed" /\ session'[new].family = family
       /\ session'[new].root = r.root
       /\ \A t \in Tokens \ {new} : session'[t] = session[t]
  BY <1>8, <1>9 DEF TypeOK
<1>12. TypeOK' /\ account.epoch <= account'.epoch /\ account'.firm <= account'.epoch
  BY <1>9, AccountType DEF TypeOK, Goto, history
<1>13. Grows
  BY <1>10, <1>11 DEF Grows, Signed
<1>14. Todo(c) = <<>> /\ \A d \in Clients \ {c} : Todo(d)' = Todo(d)
  BY <1>2, <1>9, IdleTodo, GotoTodo
<1>15. Steady
  BY <1>9, <1>12, <1>14, AwaitsKept DEF Steady
<1>16. family \in Signed' /\ (r.overtaken \/ family \notin reused)
  BY <1>3, <1>4, <1>10 DEF Knows, InTime
<1>17. RequestsOK'
  <2>1. Knows(q)'
    BY <1>3, <1>7, <1>9, <1>10, <1>11, <1>16 DEF Knows, Tokens
  <2>2. InTime(r) /\ family \notin reused => InTime(q)'
    BY <1>2, <1>7, <1>9, <1>15 DEF InTime, Steady, history
  <2>3. q.overtaken \/ InTime(q)'
    BY <1>3, <1>7, <1>16, <2>2
  <2>4. RequestOK(q)'
    BY <1>7, <2>1, <2>3 DEF RequestOK
  <2> QED
    BY <1>9, <1>12, <1>13, <1>15, <2>4, GotoKept DEF history
<1>18. InOrder'
  <2>1. Cardinality(Signed') = new
    BY <1>1, <1>10, NextToken, FS_AddElement
  <2> QED
    BY <1>1, <1>10, <2>1, NextToken DEF InOrder, Tokens
<1>19. SessionsOK'
  <2> SUFFICES ASSUME NEW t \in Tokens
               PROVE  SessionOK(t)'
    BY DEF SessionsOK
  <2>1. CASE t = new
    BY <1>3, <1>9, <1>11, <1>16, <2>1 DEF SessionOK, Knows
  <2>2. CASE t # new
    <3>1. SessionOK(t)
      BY DEF SessionsOK
    <3>2. t \in Signed' => t \in Signed
      BY <1>10, <2>2
    <3> QED
      BY <1>9, <1>10, <1>11, <1>15, <2>2, <3>1, <3>2 DEF SessionOK, Steady, history
  <2> QED
    BY <2>1, <2>2
<1>20. reused' \subseteq Signed'
  BY <1>9, <1>10 DEF history
<1>21. SessionsEnd' /\ ReuseEndsFamily'
  BY <1>9, <1>11, <1>15 DEF SessionsEnd, ReuseEndsFamily, RevokedForGood, FamiliesSound,
       Steady, history
<1>22. AccessEnds'
  <2> SUFFICES ASSUME NEW t \in HandedOut', session'[t].root < account'.firm
               PROVE  session'[t].denied \/ t \in late' \/ Awaits("deny")'
    BY DEF AccessEnds
  <2>1. t \in HandedOut /\ session'[t] = session[t]
    BY <1>10, <1>11, HandedOutSigned DEF HandedOut
  <2> QED
    BY <1>9, <1>15, <2>1 DEF RevokedForGood, AccessEnds, Steady, history
<1>23. OneSessionPerFamily'
  <2> SUFFICES ASSUME NEW f \in Tokens
               PROVE  Cardinality(Active(f)') + Cardinality(InFlight(f)') <= 1 + forks'[f]
    BY DEF OneSessionPerFamily, Active
  <2>1. Cardinality(Active(f)) + Cardinality(InFlight(f)) <= 1 + forks[f]
    BY DEF OneSessionPerFamily, Active, FamiliesSound
  <2>2. Active(f)' = Active(f)
    <3>1. session[new].state # "active"
      BY <1>10 DEF Signed
    <3> QED
      BY <1>11, <3>1 DEF Active
  <2>3. CASE r.family # 0 \/ f # new
    <3>1. InFlight(f)' = InFlight(f)
      BY <1>2, <1>4, <1>7, <1>9, <2>3 DEF InFlight, Goto, TypeOK, Tokens
    <3> QED
      BY <1>9, <2>1, <2>2, <3>1 DEF history
  <2>4. CASE r.family = 0 /\ f = new
    <3>1. Active(f) = {}
      <4> SUFFICES ASSUME NEW t \in Active(f)
                   PROVE  FALSE
        OBVIOUS
      <4>1. t \in Signed /\ t \in Tokens /\ session[t].family = new
        BY <2>4 DEF Active, Signed
      <4> QED
        BY <1>10, <4>1 DEF SessionsOK, SessionOK
    <3>2. InFlight(f) = {}
      <4> SUFFICES ASSUME NEW d \in InFlight(f)
                   PROVE  FALSE
        OBVIOUS
      <4>1. d \in Clients /\ IsIssuing(request[d]) /\ request[d].family = new
        BY <2>4 DEF InFlight, IsIssuing
      <4>2. request[d].family \in Signed \cup {0}
        BY <4>1 DEF RequestsOK, RequestOK, Knows
      <4> QED
        BY <1>10, <4>1, <4>2 DEF Tokens
    <3>3. InFlight(f)' = {c}
      BY <1>2, <1>7, <1>9, <3>2, <2>4, <1>4 DEF InFlight, Goto, TypeOK
    <3>4. forks'[f] \in Nat
      BY <1>12 DEF TypeOK
    <3>5. Cardinality({c}) = 1 /\ Cardinality({}) = 0
      BY FS_Singleton, FS_EmptySet
    <3> QED
      BY <2>2, <3>1, <3>3, <3>4, <3>5
  <2> QED
    BY <2>3, <2>4
<1> QED
  BY <1>12, <1>17, <1>18, <1>19, <1>20, <1>21, <1>22, <1>23 DEF FamiliesSound, RevokedForGood

(* A request that was overtaken inserts a late session, any other one that *)
(* is yet to be ended.                                                     *)
LEMMA InsertStep ==
    ASSUME InductiveInv, NEW c \in Clients, Insert(c)
    PROVE  InductiveInv'
<1> USE DEF InductiveInv
<1>1. PICK r \in Issuing : r = request[c] /\ r.stage = "insert" /\ RequestOK(r)
  BY RequestType DEF TypeOK, Insert, RequestsOK, IsIssuing
<1>2. Knows(r) /\ (r.overtaken \/ InTime(r))
  BY <1>1 DEF RequestOK, IsIssuing
<1>3. PICK new \in Tokens : new = r.token
  BY <1>1, <1>2 DEF Knows, Signed
<1>4. /\ new \in Signed /\ session[new].family = r.family /\ session[new].root = r.root
      /\ r.family \in Tokens
  BY <1>1, <1>2, <1>3 DEF Knows, Signed
<1>5. /\ session' = [session EXCEPT ![new].state = "active"]
      /\ late' = IF r.overtaken THEN late \cup {new} ELSE late
      /\ Goto(c, Idle) /\ UNCHANGED <<account, reused, forks>>
  BY <1>1, <1>3 DEF Insert
<1>6. PICK s \in Session : s = session[new]
  BY DEF TypeOK
<1>7. session'[new] = [s EXCEPT !.state = "active"]
  BY <1>5, <1>6 DEF TypeOK
<1>8. /\ session'[new].state = "active" /\ session'[new].family = r.family
      /\ session'[new].root = r.root /\ session'[new] \in Session
      /\ \A t \in Tokens \ {new} : session'[t] = session[t]
  BY <1>4, <1>5, <1>6, <1>7, RevokeType DEF TypeOK
<1>9. Signed' = Signed /\ HandedOut' = HandedOut \cup {new}
  BY <1>4, <1>8 DEF Signed, HandedOut
<1>10. TypeOK' /\ account.epoch <= account'.epoch /\ account'.firm <= account'.epoch
  <2>1. session' \in [Tokens -> Session]
    BY <1>5, <1>8 DEF TypeOK
  <2>2. request' \in [Clients -> Request]
    BY <1>5, EndType DEF TypeOK, Goto
  <2> QED
    BY <1>5, <2>1, <2>2, AccountType DEF TypeOK
<1>11. Grows
  BY <1>4, <1>8, <1>9 DEF Grows, Signed
<1>12. Todo(c) = <<>> /\ \A d \in Clients \ {c} : Todo(d)' = Todo(d)
  BY <1>1, <1>5, IdleTodo, GotoTodo
<1>13. Steady
  BY <1>5, <1>10, <1>12, AwaitsKept DEF Steady
<1>14. RequestsOK'
  <2>1. PICK q \in Request : q = Idle
    BY EndType
  <2>2. RequestOK(q)'
    BY <2>1 DEF RequestOK, IsIssuing, Idle
  <2> QED
    BY <1>5, <1>10, <1>11, <1>13, <2>1, <2>2, GotoKept
<1>15. InOrder' /\ reused' \subseteq Signed'
  BY <1>5, <1>9 DEF InOrder
<1>16. \A t \in late : t \in late'
  BY <1>5
<1>17. new \notin late' => InTime(r)
  BY <1>2, <1>5
<1>18. SessionsOK'
  <2> SUFFICES ASSUME NEW t \in Tokens
               PROVE  SessionOK(t)'
    BY DEF SessionsOK
  <2>1. SessionOK(t)
    BY DEF SessionsOK
  <2>2. CASE t = new
    BY <1>4, <1>5, <1>8, <1>9, <1>13, <1>17, <2>1, <2>2 DEF SessionOK, InTime, Steady
  <2>3. CASE t # new
    BY <1>5, <1>8, <1>9, <1>13, <1>16, <2>1, <2>3 DEF SessionOK, Steady
  <2> QED
    BY <2>2, <2>3
<1>19. SessionsEnd'
  <2> SUFFICES ASSUME NEW t \in Tokens, session'[t].state = "active",
                      session'[t].root < account'.epoch
               PROVE  t \in late' \/ Awaits("sweep")'
    BY DEF SessionsEnd
  <2>1. CASE t = new
    BY <1>5, <1>8, <1>13, <1>17, <2>1 DEF InTime, Steady
  <2>2. CASE t # new
    BY <1>5, <1>8, <1>13, <1>16, <2>2 DEF RevokedForGood, SessionsEnd, Steady
  <2> QED
    BY <2>1, <2>2
<1>20. AccessEnds'
  <2> SUFFICES ASSUME NEW t \in HandedOut', session'[t].root < account'.firm
               PROVE  session'[t].denied \/ t \in late' \/ Awaits("deny")'
    BY DEF AccessEnds
  <2>1. CASE t = new
    BY <1>1, <1>5, <1>8, <1>13, <1>17, <2>1 DEF InTime, Steady
  <2>2. CASE t # new
    <3>1. t \in HandedOut /\ session'[t] = session[t]
      BY <1>8, <1>9, <2>2 DEF HandedOut
    <3> QED
      BY <1>5, <1>13, <1>16, <3>1 DEF RevokedForGood, AccessEnds, Steady
  <2> QED
    BY <2>1, <2>2
<1>21. ReuseEndsFamily'
  <2> SUFFICES ASSUME NEW t \in Tokens, session'[t].state = "active",
                      session'[t].family \in reused'
               PROVE  t \in late'
    BY DEF ReuseEndsFamily
  <2>1. CASE t = new
    BY <1>5, <1>8, <1>17, <2>1 DEF InTime
  <2>2. CASE t # new
    BY <1>5, <1>8, <1>16, <2>2 DEF FamiliesSound, ReuseEndsFamily
  <2> QED
    BY <2>1, <2>2
<1>22. OneSessionPerFamily'
  <2> SUFFICES ASSUME NEW f \in Tokens
               PROVE  Cardinality(Active(f)') + Cardinality(InFlight(f)') <= 1 + forks'[f]
    BY DEF OneSessionPerFamily, Active
  <2>1. Cardinality(Active(f)) + Cardinality(InFlight(f)) <= 1 + forks[f]
    BY DEF OneSessionPerFamily, Active, FamiliesSound
  <2>2. /\ IsFiniteSet(Active(f)) /\ Cardinality(Active(f)) \in Nat
        /\ IsFiniteSet(InFlight(f)) /\ Cardinality(InFlight(f)) \in Nat
    <3>1. Active(f) \in SUBSET Tokens /\ InFlight(f) \in SUBSET Clients
      BY DEF Active, InFlight
    <3> QED
      BY <3>1, SignedFinite, ClientsFinite
  <2>3. forks[f] \in Nat
    BY DEF TypeOK
  <2>4. CASE f # r.family
    <3>1. Active(f)' = Active(f)
      BY <1>4, <1>8, <2>4 DEF Active
    <3>2. InFlight(f)' = InFlight(f)
      BY <1>1, <1>5, <2>4 DEF InFlight, Goto, TypeOK, Idle
    <3> QED
      BY <1>5, <2>1, <3>1, <3>2
  <2>5. CASE f = r.family
    <3>1. Active(f)' = Active(f) \cup {new}
      BY <1>4, <1>8, <2>5 DEF Active
    <3>2. InFlight(f)' = InFlight(f) \ {c} /\ c \in InFlight(f)
      BY <1>1, <1>5, <2>5 DEF InFlight, Goto, TypeOK, Idle
    <3>3. /\ Cardinality(Active(f)') \in Nat
          /\ Cardinality(Active(f)') <= Cardinality(Active(f)) + 1
      <4>1. CASE new \in Active(f)
        <5>1. Active(f)' = Active(f)
          BY <3>1, <4>1
        <5> QED
          BY <2>2, <5>1
      <4>2. CASE new \notin Active(f)
        <5>1. Cardinality(Active(f)') = Cardinality(Active(f)) + 1
          BY <2>2, <3>1, <4>2, FS_AddElement
        <5> QED
          BY <2>2, <5>1
      <4> QED
        BY <4>1, <4>2
    <3>4. Cardinality(InFlight(f)') = Cardinality(InFlight(f)) - 1
      BY <2>2, <3>2, FS_RemoveElement
    <3> QED
      BY <1>5, <2>1, <2>2, <2>3, <3>3, <3>4
  <2> QED
    BY <2>4, <2>5
<1> QED
  BY <1>10, <1>14, <1>15, <1>18, <1>19, <1>20, <1>21, <1>22 DEF FamiliesSound, RevokedForGood

-----------------------------------------------------------------------------
LEMMA InitInv ==
    ASSUME Init
    PROVE  InductiveInv
<1> USE DEF Init
<1>1. TypeOK
  <2>1. account \in Account /\ 0 \in 0..MaxTokens /\ 0 \in 0..MaxEpochs
    BY SessionsAssumption DEF Account, Epochs
  <2> QED
    BY <2>1, EndType DEF TypeOK, Session, NoSession
<1>2. account.firm <= account.epoch
  OBVIOUS
<1>3. Signed = {} /\ \A f \in Tokens : Active(f) = {}
  BY DEF Signed, NoSession, Active
<1>4. InOrder
  BY <1>3, FS_EmptySet, SessionsAssumption DEF InOrder
<1>5. RequestsOK
  BY DEF RequestsOK, RequestOK, Idle, IsIssuing
<1>6. SessionsOK
  BY <1>3 DEF SessionsOK, SessionOK, NoSession
<1>7. RevokedForGood /\ ReuseEndsFamily
  BY DEF RevokedForGood, SessionsEnd, AccessEnds, HandedOut, NoSession, ReuseEndsFamily
<1>8. OneSessionPerFamily
  <2> SUFFICES ASSUME NEW f \in Tokens
               PROVE  Cardinality(Active(f)) + Cardinality(InFlight(f)) <= 1 + forks[f]
    BY DEF OneSessionPerFamily, Active
  <2>1. InFlight(f) = {}
    BY DEF InFlight, Idle
  <2> QED
    BY <1>3, <2>1, FS_EmptySet
<1> QED
  BY <1>1, <1>2, <1>3, <1>4, <1>5, <1>6, <1>7, <1>8 DEF InductiveInv, FamiliesSound

LEMMA StutterInv ==
    ASSUME InductiveInv, UNCHANGED vars
    PROVE  InductiveInv'
<1> USE DEF vars, history, InductiveInv
<1>1. TypeOK' /\ account'.firm <= account'.epoch /\ InOrder' /\ reused' \subseteq Signed'
  BY DEF TypeOK, InOrder, Signed
<1>2. RequestsOK' /\ SessionsOK'
  <2>1. SameTokens /\ Steady /\ account.epoch <= account'.epoch
    BY AccountType DEF SameTokens, Steady, Signed, HandedOut, Awaits, Pending, Todo
  <2>2. RequestsOK'
    BY <1>1, <2>1, SameGrows, RequestsStay
  <2> QED
    BY <1>1, <2>1, <2>2, SameTokensKeep DEF FamiliesSound
<1>3. RevokedForGood'
  BY DEF RevokedForGood, SessionsEnd, AccessEnds, HandedOut, Awaits, Todo
<1>4. FamiliesSound'
  BY DEF FamiliesSound, OneSessionPerFamily, ReuseEndsFamily, InFlight
<1> QED
  BY <1>1, <1>2, <1>3, <1>4

LEMMA StepInv ==
    ASSUME InductiveInv, [Next]_vars
    PROVE  InductiveInv'
<1>1. CASE ForgotPassword \/ ResetExpires
  BY <1>1, ResetStep
<1>2. ASSUME NEW t \in Tokens, Logout(t)
      PROVE  InductiveInv'
  BY <1>2, LogoutStep
<1>3. ASSUME NEW c \in Clients,
             \/ ReadCandidate(c) \/ Sign(c) \/ Insert(c)
             \/ \E t \in Tokens : FindSession(c, t)
             \/ Rotate(c) \/ CheckUser(c) \/ RevokeFamily(c)
             \/ \E op \in {"change", "reset", "disable"} : BeginWrite(c, op)
             \/ Write(c) \/ LogoutEverywhere(c) \/ Sweep(c) \/ Deny(c) \/ GiveUp(c)
      PROVE  InductiveInv'
  <2>1. CASE ReadCandidate(c)
    BY <2>1, ReadCandidateStep
  <2>2. CASE Sign(c)
    BY <2>2, SignStep
  <2>3. CASE Insert(c)
    BY <2>3, InsertStep
  <2>4. CASE \E t \in Tokens : FindSession(c, t)
    BY <2>4, FindSessionStep
  <2>5. CASE Rotate(c)
    BY <2>5, RotateStep
  <2>6. CASE CheckUser(c)
    BY <2>6, CheckUserStep
  <2>7. CASE RevokeFamily(c)
    BY <2>7, RevokeFamilyStep
  <2>8. CASE \E op \in {"change", "reset", "disable"} : BeginWrite(c, op)
    BY <2>8, BeginWriteStep
  <2>9. CASE Write(c)
    BY <2>9, WriteStep
  <2>10. CASE LogoutEverywhere(c)
    BY <2>10, LogoutEverywhereStep
  <2>11. CASE Sweep(c)
    BY <2>11, SweepStep
  <2>12. CASE Deny(c)
    BY <2>12, DenyStep
  <2>13. CASE GiveUp(c)
    BY <2>13, GiveUpStep
  <2> QED
    BY <1>3, <2>1, <2>2, <2>3, <2>4, <2>5, <2>6, <2>7, <2>8, <2>9, <2>10, <2>11, <2>12, <2>13
<1>4. CASE UNCHANGED vars
  BY <1>4, StutterInv
<1> QED
  BY <1>1, <1>2, <1>3, <1>4 DEF Next

(* Whatever the number of requests of the account that overlap, its        *)
(* sessions keep the inductive invariant (auth.service.ts).                *)
THEOREM InductiveInvariant == Spec => []InductiveInv
<1>1. Init => InductiveInv
  BY InitInv
<1>2. InductiveInv /\ [Next]_vars => InductiveInv'
  BY StepInv
<1> QED
  BY <1>1, <1>2, PTL DEF Spec

(* Every state of an account's sessions and requests is well typed.        *)
THEOREM SessionsTyped == Spec => []TypeOK
<1>1. InductiveInv => TypeOK
  BY DEF InductiveInv
<1> QED
  BY <1>1, InductiveInvariant, PTL

(* What a new password, a logout everywhere or the disabling of an account *)
(* ends stays ended, session and access token alike, but for what a        *)
(* request that overlapped it inserts (changePassword, resetPassword,      *)
(* disableUser, logoutEverywhere).                                         *)
THEOREM WhatIsRevokedStaysSo == Spec => []RevokedForGood
<1>1. InductiveInv => RevokedForGood
  BY DEF InductiveInv
<1> QED
  BY <1>1, InductiveInvariant, PTL

(* A family has one active session for its login and one for every         *)
(* rotation that came second, and none that is not late once it was        *)
(* revoked for reuse (refresh, revokeFamily).                              *)
THEOREM FamiliesAreSound == Spec => []FamiliesSound
<1>1. InductiveInv => FamiliesSound
  BY DEF InductiveInv
<1> QED
  BY <1>1, InductiveInvariant, PTL

-----------------------------------------------------------------------------
(* Who has been counted, and what an attempt that works has.               *)
Early == {"new", "missed", "locked", "stamped"}
Working == {"locked", "stamped", "running", "answered", "recorded"}

(* One encoding for all; an attempt is answered once; who is counted has   *)
(* its clock read, which is no more than Delay ago before the count.       *)
AttemptOK(r) ==
    /\ r \in Others => Req!Stage(r) \in {"locked", "stamped", "over"}
    /\ Req!Stage(r) \in Early \cup {"running"} => attempt[r].outcome = "none"
    /\ Req!Stage(r) \in {"answered", "recorded"} => attempt[r].outcome # "none"
    /\ Req!Stage(r) = "stamped" => attempt[r].stamp <= now /\ now <= attempt[r].stamp + Delay
    /\ r \in bucket \cup admitted => Req!Stage(r) \notin Early
    /\ r \in admitted \ bucket => attempt[r].stamp + Window <= now

AttemptsOK == \A r \in Req!Requests : AttemptOK(r)

OneForm == \A r, q \in Req!Requests : attempt[r].form = attempt[q].form

RecordOK == record # "none" => Req!Stage(record) \in {"recorded", "over"}

(* Whoever works, or has yet to release, holds the lock or is a stray.     *)
LockOK == \A a \in Attempts \ stray : Req!Stage(a) \in Working => lock = a

(* What the strays and the uncounted are due to.                           *)
FaultsOK ==
    /\ stray # {} => faults > 0 \/ \E a \in Attempts : ~attempt[a].connected
    /\ Req!UncountedFew

(* The fingerprint of a request, as the record it is.                      *)
PrintOf(q) == IF q.form = "json" THEN q.payload ELSE "no body"

ReplaysOK == \A a \in Attempts :
    attempt[a].replayed # "none" => PrintOf(attempt[attempt[a].replayed]) = PrintOf(attempt[a])

MainInv ==
    Req!TypeOK /\ AttemptsOK /\ OneForm /\ RecordOK /\ LockOK /\ ReplaysOK /\ Req!WindowRespected

AttemptsInv == MainInv /\ FaultsOK

-----------------------------------------------------------------------------
(* The sizes Requests speaks of are sizes.                                 *)
LEMMA SameSizes ==
    (\A S : Req!IsFiniteSet(S) = IsFiniteSet(S)) /\ (\A S : Req!Cardinality(S) = Cardinality(S))
<1>1. \A S : Req!IsFiniteSet(S) = IsFiniteSet(S)
  BY DEF Req!IsFiniteSet, IsFiniteSet
<1>2. \A S : Req!Cardinality(S) = Cardinality(S)
  BY DEF Req!Cardinality, Cardinality
<1>. QED  BY <1>1, <1>2

LEMMA RequestsAre ==
    /\ IsFiniteSet(Req!Requests)
    /\ Limit \in Nat /\ Window \in Nat /\ Delay \in Nat /\ MaxTime \in Nat /\ MaxFaults \in Nat
    /\ "none" \notin Attempts /\ "free" \notin Attempts
    /\ \A a \in Attempts : a \in Req!Requests /\ a \notin Others
    /\ \A r \in Req!Requests \ Attempts : r \in Others
<1>1. IsFiniteSet(Req!Requests)
  BY RequestsAssumption, FS_Union, SameSizes DEF Req!RequestsAssumption, Req!Requests
<1>2. Delay \in Nat
  BY RequestsAssumption DEF Req!RequestsAssumption
<1>. QED  BY <1>1, <1>2, RequestsAssumption DEF Req!RequestsAssumption, Req!Requests

LEMMA Typed ==
    ASSUME Req!TypeOK, NEW r \in Req!Requests
    PROVE  /\ attempt[r] \in Req!Request
           /\ Req!Stage(r) \in Early \cup {"running", "answered", "recorded", "over"}
           /\ attempt[r].stamp \in Nat /\ now \in Nat
BY RequestsAre DEF Req!TypeOK, Req!Request, Req!Stage, Early

LEMMA AttemptsInit == Req!Init => AttemptsInv
<1>. SUFFICES ASSUME Req!Init PROVE AttemptsInv
  OBVIOUS
<1>0. PICK payload \in [Attempts -> Payloads], form \in Forms :
         attempt = [r \in Req!Requests |->
           [stage |-> IF r \in Attempts THEN "new" ELSE "locked", connected |-> TRUE,
            payload |-> IF r \in Attempts THEN payload[r] ELSE "other", form |-> form,
            stamp |-> 0, outcome |-> "none", replayed |-> "none"]]
  BY DEF Req!Init
<1>1. Req!TypeOK
  <2>1. ASSUME NEW r \in Req!Requests
        PROVE  [stage |-> IF r \in Attempts THEN "new" ELSE "locked", connected |-> TRUE,
                payload |-> IF r \in Attempts THEN payload[r] ELSE "other", form |-> form,
                stamp |-> 0, outcome |-> "none", replayed |-> "none"] \in Req!Request
    BY RequestsAre DEF Req!Request
  <2>2. attempt \in [Req!Requests -> Req!Request]
    BY <1>0, <2>1
  <2>3. /\ 0 \in 0..MaxTime /\ 0 \in 0..MaxFaults
    BY RequestsAre
  <2>. QED  BY <2>2, <2>3 DEF Req!Init, Req!TypeOK
<1>2. \A r \in Req!Requests : /\ attempt[r].outcome = "none" /\ attempt[r].replayed = "none"
                          /\ attempt[r].form = form
                          /\ attempt[r].stage = IF r \in Attempts THEN "new" ELSE "locked"
  BY <1>0
<1>3. OneForm
  BY <1>2 DEF OneForm
<1>4. AttemptsOK
  BY <1>2, RequestsAre DEF AttemptsOK, AttemptOK, Req!Init, Early, Req!Stage
<1>5. LockOK /\ RecordOK /\ ReplaysOK
  BY <1>2, RequestsAre DEF LockOK, RecordOK, ReplaysOK, Working, Req!Init, Req!Stage
<1>6. Req!WindowRespected /\ FaultsOK
  BY FS_EmptySet, SameSizes DEF Req!Init, Req!WindowRespected, Req!UncountedFew, FaultsOK
<1>. QED  BY <1>1, <1>3, <1>4, <1>5, <1>6 DEF AttemptsInv, MainInv

-----------------------------------------------------------------------------
(* The steps.                                                              *)

(* Request r becomes q.                                                    *)
Becomes(r, q) == attempt' = [attempt EXCEPT ![r] = q]

LEMMA Became ==
    ASSUME Req!TypeOK, NEW r \in Req!Requests, NEW q \in Req!Request, Becomes(r, q)
    PROVE  /\ attempt' \in [Req!Requests -> Req!Request]
           /\ attempt'[r] = q
           /\ \A p \in Req!Requests \ {r} : attempt'[p] = attempt[p]
BY DEF Req!TypeOK, Becomes

(* Every step of one request is such a change.                             *)
LEMMA GotoIs ==
    ASSUME Req!TypeOK, NEW r \in Req!Requests, NEW stage, Req!Goto(r, stage),
           stage \in {"missed", "locked", "stamped", "running", "answered", "recorded", "over"}
    PROVE  /\ Becomes(r, [attempt[r] EXCEPT !.stage = stage])
           /\ [attempt[r] EXCEPT !.stage = stage] \in Req!Request
<1>1. attempt[r] \in Req!Request
  BY Typed
<1>. QED  BY <1>1 DEF Req!Goto, Becomes, Req!TypeOK, Req!Request

(* What never changes.                                                     *)
SameQuestion(r, q) == q.form = attempt[r].form /\ q.payload = attempt[r].payload

LEMMA OneFormKept ==
    ASSUME MainInv, NEW r \in Req!Requests, NEW q \in Req!Request, Becomes(r, q), SameQuestion(r, q)
    PROVE  OneForm'
<1>. Req!TypeOK
  BY DEF MainInv
<1>. QED  BY Became DEF MainInv, OneForm, SameQuestion

LEMMA ReplaysKept ==
    ASSUME MainInv, NEW r \in Req!Requests, NEW q \in Req!Request, Becomes(r, q), SameQuestion(r, q),
           q.replayed = attempt[r].replayed
    PROVE  ReplaysOK'
<1>. Req!TypeOK
  BY DEF MainInv
<1>1. \A p \in Req!Requests : /\ attempt'[p].form = attempt[p].form
                          /\ attempt'[p].payload = attempt[p].payload
                          /\ attempt'[p].replayed = attempt[p].replayed
  BY Became DEF SameQuestion
<1>2. \A a \in Attempts : attempt[a].replayed \in Attempts \cup {"none"}
  BY Typed, RequestsAre DEF Req!Request
<1>3. \A p \in Req!Requests : PrintOf(attempt'[p]) = PrintOf(attempt[p])
  BY <1>1 DEF PrintOf
<1>. SUFFICES ASSUME NEW a \in Attempts, attempt'[a].replayed # "none"
              PROVE  PrintOf(attempt'[attempt'[a].replayed]) = PrintOf(attempt'[a])
  BY DEF ReplaysOK
<1>4. attempt'[a].replayed = attempt[a].replayed /\ attempt[a].replayed \in Attempts
  BY <1>1, <1>2, RequestsAre
<1>5. PrintOf(attempt[attempt[a].replayed]) = PrintOf(attempt[a])
  BY <1>4 DEF MainInv, ReplaysOK
<1>. QED  BY <1>3, <1>4, <1>5, RequestsAre

LEMMA WindowKept ==
    ASSUME MainInv, admitted' = admitted,
           \A p \in admitted : attempt'[p].stamp = attempt[p].stamp
    PROVE  Req!WindowRespected'
<1>. SUFFICES ASSUME NEW r \in admitted
              PROVE  Cardinality({q \in admitted :
                        attempt'[q].stamp <= attempt'[r].stamp
                          /\ attempt'[q].stamp + Window > attempt'[r].stamp + Delay}) <= Limit
  BY SameSizes DEF Req!WindowRespected
<1>1. {q \in admitted : attempt'[q].stamp <= attempt'[r].stamp
                          /\ attempt'[q].stamp + Window > attempt'[r].stamp + Delay}
        = {q \in admitted : attempt[q].stamp <= attempt[r].stamp
                          /\ attempt[q].stamp + Window > attempt[r].stamp + Delay}
  OBVIOUS
<1>. QED  BY <1>1, SameSizes DEF MainInv, Req!WindowRespected

LEMMA OthersOK ==
    ASSUME MainInv, NEW r \in Req!Requests, NEW q \in Req!Request, Becomes(r, q),
           UNCHANGED <<now, bucket, admitted>>
    PROVE  \A p \in Req!Requests \ {r} : AttemptOK(p)'
<1>. Req!TypeOK
  BY DEF MainInv
<1>. SUFFICES ASSUME NEW p \in Req!Requests \ {r}
              PROVE  AttemptOK(p)'
  OBVIOUS
<1>1. attempt'[p] = attempt[p]
  BY Became
<1>2. AttemptOK(p)
  BY DEF MainInv, AttemptsOK
<1>. QED  BY <1>1, <1>2 DEF AttemptOK, Req!Stage

(* A step that only moves attempt a to another stage.                      *)
LEMMA Going ==
    ASSUME MainInv, NEW a \in Attempts, NEW stage, Req!Goto(a, stage),
           UNCHANGED <<now, Req!limiter>>,
           stage \in {"missed", "locked", "recorded", "over"},
           stage \in {"missed", "locked"} => Req!Stage(a) \in {"new", "missed"},
           stage = "recorded" => Req!Stage(a) = "answered"
    PROVE  /\ attempt' \in [Req!Requests -> Req!Request]
           /\ Req!Stage(a)' = stage
           /\ \A p \in Req!Requests \ {a} : Req!Stage(p)' = Req!Stage(p)
           /\ \A p \in Req!Requests : attempt'[p].outcome = attempt[p].outcome
           /\ AttemptsOK' /\ OneForm' /\ ReplaysOK' /\ Req!WindowRespected'
<1>. DEFINE q == [attempt[a] EXCEPT !.stage = stage]
<1>0. Req!TypeOK /\ a \in Req!Requests
  BY RequestsAre DEF MainInv
<1>1. Becomes(a, q) /\ q \in Req!Request
  BY <1>0, GotoIs
<1>2. attempt[a] \in Req!Request
  BY <1>0, Typed
<1>3. /\ q.stage = stage /\ q.form = attempt[a].form /\ q.payload = attempt[a].payload
      /\ q.replayed = attempt[a].replayed /\ q.outcome = attempt[a].outcome
      /\ q.stamp = attempt[a].stamp
  BY <1>2 DEF Req!Request
<1>. HIDE DEF q
<1>4. /\ attempt' \in [Req!Requests -> Req!Request] /\ attempt'[a] = q
      /\ \A p \in Req!Requests \ {a} : attempt'[p] = attempt[p]
  BY <1>0, <1>1, Became
<1>5. OneForm'
  BY <1>0, <1>1, <1>3, OneFormKept DEF SameQuestion
<1>6. ReplaysOK'
  BY <1>0, <1>1, <1>3, ReplaysKept DEF SameQuestion
<1>7. \A p \in Req!Requests : attempt'[p].stamp = attempt[p].stamp
  BY <1>3, <1>4
<1>8. Req!WindowRespected'
  <2>1. admitted \subseteq Req!Requests /\ admitted' = admitted
    BY <1>0 DEF Req!TypeOK, Req!limiter
  <2>. QED  BY <2>1, <1>7, WindowKept
<1>9. AttemptsOK'
  <2>1. \A p \in Req!Requests \ {a} : AttemptOK(p)'
    BY <1>0, <1>1, OthersOK DEF Req!limiter
  <2>2. AttemptOK(a)
    BY <1>0 DEF MainInv, AttemptsOK
  <2>3. AttemptOK(a)'
    BY <2>2, <1>3, <1>4, RequestsAre DEF AttemptOK, Req!Stage, Early, Req!limiter
  <2>. QED  BY <2>1, <2>3 DEF AttemptsOK
<1>. QED  BY <1>3, <1>4, <1>5, <1>6, <1>8, <1>9 DEF Req!Stage

LEMMA LookUpStep ==
    ASSUME MainInv, NEW a \in Attempts, Req!LookUp(a)
    PROVE  MainInv'
<1>0. Req!TypeOK /\ a \in Req!Requests
  BY RequestsAre DEF MainInv
<1>1. attempt[a] \in Req!Request /\ Req!Stage(a) = "new"
  BY <1>0, Typed DEF Req!LookUp
<1>2. CASE record = "none" /\ Req!Goto(a, "missed")
  <2>1. /\ attempt' \in [Req!Requests -> Req!Request]
        /\ \A p \in Req!Requests \ {a} : Req!Stage(p)' = Req!Stage(p)
        /\ \A p \in Req!Requests : attempt'[p].outcome = attempt[p].outcome
        /\ Req!Stage(a)' = "missed"
        /\ AttemptsOK' /\ OneForm' /\ ReplaysOK' /\ Req!WindowRespected'
    BY <1>1, <1>2, Going DEF Req!LookUp
  <2>2. Req!TypeOK'
    BY <2>1, <1>0, <1>2, RequestsAre DEF Req!TypeOK, Req!LookUp, Req!locks, Req!limiter
  <2>3. LockOK'
    BY <2>1, RequestsAre DEF MainInv, LockOK, Req!LookUp, Req!locks, Working
  <2>4. RecordOK'
    BY <1>2 DEF Req!LookUp, RecordOK
  <2>. QED  BY <2>1, <2>2, <2>3, <2>4 DEF MainInv
<1>3. CASE record # "none"
  <2>. DEFINE b == IF Req!Fingerprint(record) = Req!Fingerprint(a) THEN record ELSE "none"
              q == [attempt[a] EXCEPT !.stage = "over", !.replayed = b]
  <2>1. record \in Attempts /\ record \in Req!Requests /\ Req!Stage(record) \in {"recorded", "over"}
    BY <1>0, <1>3, RequestsAre DEF Req!TypeOK, MainInv, RecordOK
  <2>2. q \in Req!Request /\ Becomes(a, q)
    BY <1>0, <1>1, <1>3, <2>1 DEF Req!LookUp, Becomes, Req!Request, Req!TypeOK
  <2>3. /\ q.stage = "over" /\ q.form = attempt[a].form /\ q.payload = attempt[a].payload
        /\ q.replayed = b /\ q.outcome = attempt[a].outcome /\ q.stamp = attempt[a].stamp
    BY <1>1 DEF Req!Request
  <2>4. b = record => PrintOf(attempt[record]) = PrintOf(attempt[a])
    BY <2>1, RequestsAre DEF PrintOf, Req!Fingerprint
  <2>5. b \in {record, "none"}
    OBVIOUS
  <2>. HIDE DEF b, q
  <2>6. /\ attempt' \in [Req!Requests -> Req!Request] /\ attempt'[a] = q
        /\ \A p \in Req!Requests \ {a} : attempt'[p] = attempt[p]
    BY <1>0, <2>2, Became
  <2>7. OneForm'
    BY <1>0, <2>2, <2>3, OneFormKept DEF SameQuestion
  <2>8. Req!WindowRespected'
    <3>1. admitted \subseteq Req!Requests /\ admitted' = admitted
      BY <1>0 DEF Req!TypeOK, Req!LookUp, Req!limiter
    <3>. QED  BY <3>1, <2>3, <2>6, WindowKept
  <2>9. AttemptsOK'
    <3>1. \A p \in Req!Requests \ {a} : AttemptOK(p)'
      BY <1>0, <2>2, OthersOK DEF Req!limiter, Req!LookUp
    <3>2. AttemptOK(a)
      BY <1>0 DEF MainInv, AttemptsOK
    <3>3. AttemptOK(a)'
      BY <3>2, <1>1, <2>3, <2>6, RequestsAre DEF AttemptOK, Req!Stage, Early, Req!limiter, Req!LookUp
    <3>. QED  BY <3>1, <3>3 DEF AttemptsOK
  <2>10. ReplaysOK'
    <3>1. \A p \in Req!Requests : PrintOf(attempt'[p]) = PrintOf(attempt[p])
      BY <2>3, <2>6 DEF PrintOf
    <3>. SUFFICES ASSUME NEW p \in Attempts, attempt'[p].replayed # "none"
                  PROVE  PrintOf(attempt'[attempt'[p].replayed]) = PrintOf(attempt'[p])
      BY DEF ReplaysOK
    <3>2. CASE p = a
      BY <3>1, <3>2, <2>1, <2>3, <2>4, <2>5, <2>6, RequestsAre
    <3>3. CASE p # a
      <4>1. attempt'[p] = attempt[p]
        BY <3>3, <2>6, RequestsAre
      <4>2. attempt[p].replayed \in Attempts
        BY <4>1, <1>0, Typed, RequestsAre DEF Req!Request
      <4>3. PrintOf(attempt[attempt[p].replayed]) = PrintOf(attempt[p])
        BY <4>1 DEF MainInv, ReplaysOK
      <4>. QED  BY <3>1, <4>1, <4>2, <4>3, RequestsAre
    <3>. QED  BY <3>2, <3>3
  <2>11. /\ Req!Stage(a)' = "over" /\ \A p \in Req!Requests \ {a} : Req!Stage(p)' = Req!Stage(p)
         /\ \A p \in Req!Requests : attempt'[p].outcome = attempt[p].outcome
    BY <2>3, <2>6, <1>0 DEF Req!Stage
  <2>12. Req!TypeOK'
    BY <1>0, <2>6, <2>11, RequestsAre DEF Req!TypeOK, Req!LookUp, Req!locks, Req!limiter
  <2>13. LockOK'
    BY <2>11, RequestsAre DEF MainInv, LockOK, Req!LookUp, Req!locks, Working
  <2>14. RecordOK'
    BY <2>1, <2>11 DEF Req!LookUp, RecordOK
  <2>. QED  BY <2>7, <2>8, <2>9, <2>10, <2>12, <2>13, <2>14 DEF MainInv
<1>. QED  BY <1>2, <1>3 DEF Req!LookUp

LEMMA TakeLockStep ==
    ASSUME MainInv, NEW a \in Attempts, Req!TakeLock(a)
    PROVE  MainInv'
<1>0. Req!TypeOK /\ a \in Req!Requests /\ Req!Stage(a) = "missed"
  BY RequestsAre DEF MainInv, Req!TakeLock
<1>. PICK stage \in {"locked", "over"} :
         /\ Req!Goto(a, stage)
         /\ stage = "locked" => lock = "free" /\ lock' = a
         /\ stage = "over" => lock' = lock
  BY DEF Req!TakeLock
<1>1. /\ attempt' \in [Req!Requests -> Req!Request]
      /\ \A p \in Req!Requests \ {a} : Req!Stage(p)' = Req!Stage(p)
      /\ \A p \in Req!Requests : attempt'[p].outcome = attempt[p].outcome
      /\ Req!Stage(a)' = stage
      /\ AttemptsOK' /\ OneForm' /\ ReplaysOK' /\ Req!WindowRespected'
  BY <1>0, Going DEF Req!TakeLock
<1>2. Req!TypeOK'
  BY <1>0, <1>1, RequestsAre DEF Req!TypeOK, Req!TakeLock, Req!limiter
<1>3. LockOK'
  BY <1>1, RequestsAre DEF MainInv, LockOK, Req!TakeLock, Working
<1>4. RecordOK'
  BY <1>0, <1>1, RequestsAre DEF MainInv, Req!TypeOK, Req!TakeLock, RecordOK
<1>. QED  BY <1>1, <1>2, <1>3, <1>4 DEF MainInv

LEMMA ReadFailsStep ==
    ASSUME MainInv, NEW a \in Attempts, Req!ReadFails(a)
    PROVE  MainInv'
<1>0. Req!TypeOK /\ a \in Req!Requests /\ Req!Stage(a) \in {"new", "missed"} /\ Req!Goto(a, "locked")
  BY RequestsAre DEF MainInv, Req!ReadFails
<1>1. /\ attempt' \in [Req!Requests -> Req!Request]
      /\ \A p \in Req!Requests \ {a} : Req!Stage(p)' = Req!Stage(p)
      /\ \A p \in Req!Requests : attempt'[p].outcome = attempt[p].outcome
      /\ AttemptsOK' /\ OneForm' /\ ReplaysOK' /\ Req!WindowRespected'
  BY <1>0, Going DEF Req!ReadFails
<1>2. faults' \in 0..MaxFaults
  BY <1>0, RequestsAre DEF Req!TypeOK, Req!ReadFails, Req!Fault
<1>3. Req!TypeOK'
  BY <1>0, <1>1, <1>2, RequestsAre DEF Req!TypeOK, Req!ReadFails, Req!limiter
<1>4. LockOK'
  <2>1. CASE stray' = stray \cup {a} /\ lock' = lock
    BY <2>1, <1>1, RequestsAre DEF MainInv, LockOK
  <2>2. CASE lock = "free" /\ lock' = a /\ stray' = stray
    BY <2>2, <1>1, RequestsAre DEF MainInv, LockOK
  <2>. QED  BY <2>1, <2>2 DEF Req!ReadFails
<1>5. RecordOK'
  BY <1>0, <1>1, RequestsAre DEF MainInv, Req!TypeOK, Req!ReadFails, RecordOK
<1>. QED  BY <1>1, <1>3, <1>4, <1>5 DEF MainInv

LEMMA UnlockedOK ==
    ASSUME MainInv, NEW done, Req!Unlocked(done), done \subseteq {a \in Attempts : Req!Stage(a)' \notin Working},
           \A a \in Attempts : Req!Stage(a)' \in Working => Req!Stage(a) \in Working
    PROVE  LockOK' /\ lock' = "free" /\ stray' \subseteq Attempts
<1>1. stray \subseteq Attempts
  BY DEF MainInv, Req!TypeOK
<1>2. ASSUME NEW a \in Attempts, a \notin stray', Req!Stage(a)' \in Working
      PROVE  FALSE
  <2>1. Req!Stage(a) \in Working /\ a \notin done /\ a \notin stray
    BY <1>2 DEF Req!Unlocked
  <2>2. lock = a
    BY <2>1 DEF MainInv, LockOK
  <2>. QED  BY <1>2, <2>1, <2>2 DEF Req!Unlocked, Working
<1>3. LockOK'
  BY <1>2 DEF LockOK
<1>. QED  BY <1>1, <1>3 DEF Req!Unlocked

(* A step that leaves the requests alone.                                  *)
LEMMA Standing ==
    ASSUME MainInv, UNCHANGED <<attempt, record, Req!limiter>>, now' \in Nat, now <= now',
           \A r \in Req!Requests : Req!Stage(r) = "stamped" => now' <= attempt[r].stamp + Delay
    PROVE  AttemptsOK' /\ OneForm' /\ ReplaysOK' /\ RecordOK' /\ Req!WindowRespected'
<1>0. Req!TypeOK
  BY DEF MainInv
<1>1. OneForm'
  BY DEF OneForm, MainInv
<1>2. ReplaysOK'
  BY DEF ReplaysOK, MainInv
<1>3. RecordOK'
  BY DEF RecordOK, MainInv, Req!Stage
<1>4. Req!WindowRespected'
  BY SameSizes DEF Req!WindowRespected, MainInv, Req!limiter
<1>5. AttemptsOK'
  <2>. SUFFICES ASSUME NEW r \in Req!Requests
                PROVE  AttemptOK(r)'
    BY DEF AttemptsOK
  <2>1. AttemptOK(r)
    BY DEF MainInv, AttemptsOK
  <2>2. attempt[r].stamp \in Nat /\ now \in Nat /\ Window \in Nat /\ Delay \in Nat
    BY <1>0, Typed, RequestsAre
  <2>. QED  BY <2>1, <2>2 DEF AttemptOK, Req!Stage, Req!limiter
<1>. QED  BY <1>1, <1>2, <1>3, <1>4, <1>5

LEMMA LockExpiresStep == ASSUME MainInv, Req!LockExpires PROVE MainInv'
<1>0. Req!TypeOK
  BY DEF MainInv
<1>1. AttemptsOK' /\ OneForm' /\ ReplaysOK' /\ RecordOK' /\ Req!WindowRespected'
  <2>1. now' = now /\ now \in Nat
    BY <1>0, RequestsAre DEF Req!TypeOK, Req!LockExpires
  <2>2. \A r \in Req!Requests : Req!Stage(r) = "stamped" => now <= attempt[r].stamp + Delay
    BY DEF MainInv, AttemptsOK, AttemptOK
  <2>. QED  BY <2>1, <2>2, Standing DEF Req!LockExpires
<1>2. LockOK' /\ lock' = "free" /\ stray' \subseteq Attempts
  BY UnlockedOK DEF Req!LockExpires, Req!Stage
<1>3. faults' \in 0..MaxFaults
  BY <1>0, RequestsAre DEF Req!TypeOK, Req!LockExpires, Req!Fault
<1>4. Req!TypeOK'
  BY <1>0, <1>2, <1>3 DEF Req!TypeOK, Req!LockExpires, Req!limiter
<1>. QED  BY <1>1, <1>2, <1>4 DEF MainInv

LEMMA TickStep == ASSUME MainInv, Req!Tick PROVE MainInv'
<1>0. Req!TypeOK /\ now \in Nat
  BY RequestsAre DEF MainInv, Req!TypeOK
<1>1. \A r \in Req!Requests : Req!Stage(r) = "stamped" => now' <= attempt[r].stamp + Delay
  <2>. SUFFICES ASSUME NEW r \in Req!Requests, Req!Stage(r) = "stamped"
                PROVE  now' <= attempt[r].stamp + Delay
    OBVIOUS
  <2>1. attempt[r].stamp \in Nat /\ Delay \in Nat
    BY <1>0, Typed, RequestsAre
  <2>. QED  BY <1>0, <2>1 DEF Req!Tick
<1>2. AttemptsOK' /\ OneForm' /\ ReplaysOK' /\ RecordOK' /\ Req!WindowRespected'
  BY <1>0, <1>1, Standing DEF Req!Tick
<1>3. LockOK'
  BY DEF MainInv, LockOK, Req!Stage, Req!Tick, Req!locks
<1>4. Req!TypeOK'
  BY <1>0, RequestsAre DEF Req!TypeOK, Req!Tick, Req!limiter, Req!locks
<1>. QED  BY <1>2, <1>3, <1>4 DEF MainInv

LEMMA StutterStep == ASSUME MainInv, UNCHANGED Req!vars PROVE MainInv'
<1>0. Req!TypeOK /\ now \in Nat
  BY RequestsAre DEF MainInv, Req!TypeOK
<1>1. \A r \in Req!Requests : Req!Stage(r) = "stamped" => now <= attempt[r].stamp + Delay
  BY DEF MainInv, AttemptsOK, AttemptOK
<1>2. AttemptsOK' /\ OneForm' /\ ReplaysOK' /\ RecordOK' /\ Req!WindowRespected'
  BY <1>0, <1>1, Standing DEF Req!vars, Req!limiter
<1>3. LockOK'
  BY DEF MainInv, LockOK, Req!Stage, Req!vars
<1>4. Req!TypeOK'
  BY <1>0 DEF Req!TypeOK, Req!vars
<1>. QED  BY <1>2, <1>3, <1>4 DEF MainInv

LEMMA RecordStep ==
    ASSUME MainInv, NEW a \in Attempts, Req!Record(a)
    PROVE  MainInv'
<1>0. Req!TypeOK /\ a \in Req!Requests /\ Req!Stage(a) = "answered" /\ Req!Goto(a, "recorded")
  BY RequestsAre DEF MainInv, Req!Record
<1>1. /\ attempt' \in [Req!Requests -> Req!Request]
      /\ \A p \in Req!Requests \ {a} : Req!Stage(p)' = Req!Stage(p)
      /\ \A p \in Req!Requests : attempt'[p].outcome = attempt[p].outcome
      /\ Req!Stage(a)' = "recorded"
      /\ AttemptsOK' /\ OneForm' /\ ReplaysOK' /\ Req!WindowRespected'
  BY <1>0, Going DEF Req!Record
<1>2. attempt[a].outcome \in {"done", "refused", "failed"}
  <2>1. attempt[a].outcome # "none"
    BY <1>0 DEF MainInv, AttemptsOK, AttemptOK
  <2>. QED  BY <2>1, <1>0, Typed DEF Req!Request, Req!Outcomes
<1>3. Req!TypeOK'
  BY <1>0, <1>1, <1>2, RequestsAre DEF Req!TypeOK, Req!Record, Req!Keeps, Req!limiter, Req!locks
<1>4. LockOK'
  BY <1>1, RequestsAre DEF MainInv, LockOK, Req!Record, Working, Req!locks
<1>5. RecordOK'
  BY <1>0, <1>1, RequestsAre DEF MainInv, Req!TypeOK, Req!Record, RecordOK
<1>. QED  BY <1>1, <1>3, <1>4, <1>5 DEF MainInv

LEMMA RecordFailsStep ==
    ASSUME MainInv, NEW a \in Attempts, Req!RecordFails(a)
    PROVE  MainInv'
<1>0. Req!TypeOK /\ a \in Req!Requests /\ Req!Goto(a, "over")
  BY RequestsAre DEF MainInv, Req!RecordFails
<1>1. /\ attempt' \in [Req!Requests -> Req!Request]
      /\ \A p \in Req!Requests \ {a} : Req!Stage(p)' = Req!Stage(p)
      /\ \A p \in Req!Requests : attempt'[p].outcome = attempt[p].outcome
      /\ Req!Stage(a)' = "over"
      /\ AttemptsOK' /\ OneForm' /\ ReplaysOK' /\ Req!WindowRespected'
  BY <1>0, Going DEF Req!RecordFails
<1>2. faults' \in 0..MaxFaults
  BY <1>0, RequestsAre DEF Req!TypeOK, Req!RecordFails, Req!Fault
<1>3. Req!TypeOK'
  BY <1>0, <1>1, <1>2, RequestsAre DEF Req!TypeOK, Req!RecordFails, Req!limiter, Req!locks
<1>4. LockOK'
  BY <1>1, RequestsAre DEF MainInv, LockOK, Req!RecordFails, Working, Req!locks
<1>5. RecordOK'
  BY <1>0, <1>1, RequestsAre DEF MainInv, Req!TypeOK, Req!RecordFails, RecordOK
<1>. QED  BY <1>1, <1>3, <1>4, <1>5 DEF MainInv

LEMMA ReleaseStep ==
    ASSUME MainInv, NEW a \in Attempts, Req!Release(a)
    PROVE  MainInv'
<1>0. Req!TypeOK /\ a \in Req!Requests /\ Req!Goto(a, "over")
  BY RequestsAre DEF MainInv, Req!Release
<1>1. /\ attempt' \in [Req!Requests -> Req!Request]
      /\ \A p \in Req!Requests \ {a} : Req!Stage(p)' = Req!Stage(p)
      /\ \A p \in Req!Requests : attempt'[p].outcome = attempt[p].outcome
      /\ Req!Stage(a)' = "over"
      /\ AttemptsOK' /\ OneForm' /\ ReplaysOK' /\ Req!WindowRespected'
  BY <1>0, Going DEF Req!Release
<1>2. LockOK' /\ lock' = "free" /\ stray' \subseteq Attempts
  BY <1>1, UnlockedOK, RequestsAre DEF Req!Release, Working
<1>3. Req!TypeOK'
  BY <1>0, <1>1, <1>2, RequestsAre DEF Req!TypeOK, Req!Release, Req!limiter
<1>4. RecordOK'
  BY <1>0, <1>1, RequestsAre DEF MainInv, Req!TypeOK, Req!Release, RecordOK
<1>. QED  BY <1>1, <1>2, <1>3, <1>4 DEF MainInv

LEMMA CloseStep ==
    ASSUME MainInv, NEW a \in Attempts, Req!Close(a)
    PROVE  MainInv'
<1>. DEFINE q == [attempt[a] EXCEPT !.connected = FALSE]
<1>0. Req!TypeOK /\ a \in Req!Requests
  BY RequestsAre DEF MainInv
<1>1. attempt[a] \in Req!Request
  BY <1>0, Typed
<1>2. q \in Req!Request /\ Becomes(a, q)
  BY <1>0, <1>1 DEF Req!Close, Becomes, Req!Request, Req!TypeOK
<1>3. /\ q.stage = attempt[a].stage /\ q.form = attempt[a].form /\ q.payload = attempt[a].payload
      /\ q.replayed = attempt[a].replayed /\ q.outcome = attempt[a].outcome
      /\ q.stamp = attempt[a].stamp
  BY <1>1 DEF Req!Request
<1>. HIDE DEF q
<1>4. /\ attempt' \in [Req!Requests -> Req!Request] /\ attempt'[a] = q
      /\ \A p \in Req!Requests \ {a} : attempt'[p] = attempt[p]
  BY <1>0, <1>2, Became
<1>5. \A p \in Req!Requests : /\ Req!Stage(p)' = Req!Stage(p)
                          /\ attempt'[p].outcome = attempt[p].outcome
                          /\ attempt'[p].stamp = attempt[p].stamp
  BY <1>3, <1>4 DEF Req!Stage
<1>6. OneForm' /\ ReplaysOK'
  BY <1>0, <1>2, <1>3, OneFormKept, ReplaysKept DEF SameQuestion
<1>7. Req!WindowRespected'
  BY <1>0, <1>5, WindowKept DEF Req!TypeOK, Req!Close, Req!limiter
<1>8. AttemptsOK'
  BY <1>5 DEF MainInv, AttemptsOK, AttemptOK, Req!Close, Req!limiter
<1>9. LockOK' /\ lock' = "free" /\ stray' \subseteq Attempts
  BY <1>5, UnlockedOK, RequestsAre DEF Req!Close
<1>10. Req!TypeOK'
  BY <1>0, <1>4, <1>5, <1>9, RequestsAre DEF Req!TypeOK, Req!Close, Req!limiter
<1>11. RecordOK'
  BY <1>0, <1>5, RequestsAre DEF MainInv, Req!TypeOK, Req!Close, RecordOK
<1>. QED  BY <1>6, <1>7, <1>8, <1>9, <1>10, <1>11 DEF MainInv

LEMMA StampStep ==
    ASSUME MainInv, NEW r \in Req!Requests, Req!Stamp(r)
    PROVE  MainInv'
<1>. DEFINE q == [attempt[r] EXCEPT !.stage = "stamped", !.stamp = now]
<1>0. Req!TypeOK /\ Req!Stage(r) = "locked" /\ now \in 0..MaxTime
  BY DEF MainInv, Req!Stamp, Req!TypeOK
<1>1. attempt[r] \in Req!Request
  BY <1>0, Typed
<1>2. q \in Req!Request /\ Becomes(r, q)
  BY <1>0, <1>1 DEF Req!Stamp, Becomes, Req!Request, Req!TypeOK
<1>3. /\ q.stage = "stamped" /\ q.form = attempt[r].form /\ q.payload = attempt[r].payload
      /\ q.replayed = attempt[r].replayed /\ q.outcome = attempt[r].outcome
      /\ q.stamp = now
  BY <1>1 DEF Req!Request
<1>. HIDE DEF q
<1>4. /\ attempt' \in [Req!Requests -> Req!Request] /\ attempt'[r] = q
      /\ \A p \in Req!Requests \ {r} : attempt'[p] = attempt[p]
  BY <1>0, <1>2, Became
<1>5. /\ \A p \in Req!Requests \ {r} : Req!Stage(p)' = Req!Stage(p)
      /\ Req!Stage(r)' = "stamped"
      /\ \A p \in Req!Requests : attempt'[p].outcome = attempt[p].outcome
  BY <1>3, <1>4 DEF Req!Stage
<1>6. OneForm' /\ ReplaysOK'
  BY <1>2, <1>3, OneFormKept, ReplaysKept DEF SameQuestion
<1>7. AttemptOK(r)
  BY DEF MainInv, AttemptsOK
<1>8. r \notin bucket \cup admitted
  BY <1>0, <1>7 DEF AttemptOK, Early
<1>9. Req!WindowRespected'
  BY <1>0, <1>4, <1>8, WindowKept DEF Req!TypeOK, Req!Stamp, Req!limiter
<1>10. AttemptsOK'
  <2>1. \A p \in Req!Requests \ {r} : AttemptOK(p)'
    BY <1>2, OthersOK DEF Req!limiter, Req!Stamp
  <2>2. now \in Nat /\ Delay \in Nat
    BY <1>0, RequestsAre
  <2>3. AttemptOK(r)'
    BY <2>2, <1>0, <1>3, <1>4, <1>7, <1>8 DEF AttemptOK, Req!Stage, Early, Req!limiter, Req!Stamp
  <2>. QED  BY <2>1, <2>3 DEF AttemptsOK
<1>11. LockOK'
  BY <1>0, <1>5, RequestsAre DEF MainInv, LockOK, Req!Stamp, Req!locks, Working
<1>12. Req!TypeOK'
  BY <1>0, <1>4, <1>5, RequestsAre DEF Req!TypeOK, Req!Stamp, Req!limiter, Req!locks
<1>13. RecordOK'
  BY <1>0, <1>5, RequestsAre DEF MainInv, Req!TypeOK, Req!Stamp, RecordOK
<1>. QED  BY <1>6, <1>9, <1>10, <1>11, <1>12, <1>13 DEF MainInv

(* A request that is answered, or over, with an outcome.                   *)
LEMMA Answering ==
    ASSUME MainInv, NEW r \in Req!Requests, NEW outcome \in Req!Outcomes, Req!Answered(r, outcome),
           Req!Stage(r) \in {"stamped", "running"}, UNCHANGED record
    PROVE  /\ attempt' \in [Req!Requests -> Req!Request]
           /\ \A p \in Req!Requests \ {r} : attempt'[p] = attempt[p]
           /\ Req!Stage(r)' = IF r \in Attempts THEN "answered" ELSE "over"
           /\ attempt'[r].outcome = outcome
           /\ attempt'[r].stamp = attempt[r].stamp
           /\ OneForm' /\ ReplaysOK' /\ RecordOK'
           /\ record' \in {"none"} \cup {a \in Attempts : attempt'[a].outcome \in {"done", "refused"}}
<1>. DEFINE q == [attempt[r] EXCEPT !.stage = IF r \in Attempts THEN "answered" ELSE "over",
                                    !.outcome = outcome]
<1>0. Req!TypeOK
  BY DEF MainInv
<1>1. attempt[r] \in Req!Request
  BY <1>0, Typed
<1>2. q \in Req!Request /\ Becomes(r, q)
  BY <1>0, <1>1 DEF Req!Answered, Becomes, Req!Request, Req!TypeOK
<1>3. /\ q.stage = (IF r \in Attempts THEN "answered" ELSE "over")
      /\ q.form = attempt[r].form /\ q.payload = attempt[r].payload
      /\ q.replayed = attempt[r].replayed /\ q.outcome = outcome /\ q.stamp = attempt[r].stamp
  BY <1>1 DEF Req!Request
<1>. HIDE DEF q
<1>4. /\ attempt' \in [Req!Requests -> Req!Request] /\ attempt'[r] = q
      /\ \A p \in Req!Requests \ {r} : attempt'[p] = attempt[p]
  BY <1>0, <1>2, Became
<1>5. OneForm' /\ ReplaysOK'
  BY <1>2, <1>3, OneFormKept, ReplaysKept DEF SameQuestion
<1>6. record = "none" \/ record # r
  BY <1>0, RequestsAre DEF MainInv, RecordOK, Req!TypeOK
<1>7. record = "none" \/ record \in Req!Requests \ {r}
  BY <1>0, <1>6, RequestsAre DEF Req!TypeOK
<1>8. RecordOK' /\ record' \in {"none"} \cup {a \in Attempts : attempt'[a].outcome \in {"done", "refused"}}
  BY <1>0, <1>4, <1>7 DEF MainInv, RecordOK, Req!TypeOK, Req!Stage
<1>. QED  BY <1>3, <1>4, <1>5, <1>8 DEF Req!Stage

LEMMA RunStep ==
    ASSUME MainInv, NEW a \in Attempts, NEW outcome \in Req!Outcomes, Req!Run(a, outcome)
    PROVE  MainInv'
<1>0. Req!TypeOK /\ a \in Req!Requests /\ Req!Stage(a) = "running"
  BY RequestsAre DEF MainInv, Req!Run
<1>1. /\ attempt' \in [Req!Requests -> Req!Request]
      /\ \A p \in Req!Requests \ {a} : attempt'[p] = attempt[p]
      /\ Req!Stage(a)' = "answered"
      /\ attempt'[a].outcome = outcome
      /\ attempt'[a].stamp = attempt[a].stamp
      /\ OneForm' /\ ReplaysOK' /\ RecordOK'
      /\ record' \in {"none"} \cup {p \in Attempts : attempt'[p].outcome \in {"done", "refused"}}
  BY <1>0, Answering DEF Req!Run
<1>2. Req!WindowRespected'
  BY <1>0, <1>1, WindowKept DEF Req!TypeOK, Req!Run, Req!limiter
<1>3. AttemptsOK'
  <2>1. ASSUME NEW p \in Req!Requests \ {a} PROVE AttemptOK(p)'
    <3>1. AttemptOK(p) /\ attempt'[p] = attempt[p]
      BY <1>1 DEF MainInv, AttemptsOK
    <3>. QED  BY <3>1 DEF AttemptOK, Req!Stage, Req!Run, Req!limiter
  <2>2. AttemptOK(a)
    BY <1>0 DEF MainInv, AttemptsOK
  <2>3. outcome # "none"
    BY DEF Req!Outcomes
  <2>4. AttemptOK(a)'
    BY <1>0, <1>1, <2>2, <2>3, RequestsAre DEF AttemptOK, Req!Stage, Early, Req!Run, Req!limiter
  <2>. QED  BY <2>1, <2>4 DEF AttemptsOK
<1>4. LockOK'
  BY <1>0, <1>1, RequestsAre DEF MainInv, LockOK, Req!Run, Req!locks, Working, Req!Stage
<1>5. Req!TypeOK'
  BY <1>0, <1>1 DEF Req!TypeOK, Req!Run, Req!limiter, Req!locks
<1>. QED  BY <1>1, <1>2, <1>3, <1>4, <1>5 DEF MainInv

(* Who is within the window of r's stamp was counted late by Delay at most. *)
LEMMA CountedIsBusy ==
    ASSUME MainInv, NEW r \in Req!Requests
    PROVE  /\ Req!Counted(r) \subseteq Req!Requests /\ r \in Req!Counted(r)
           /\ IsFiniteSet(Req!Counted(r)) /\ Cardinality(Req!Counted(r)) \in Nat
           /\ \A q \in Req!Counted(r) \ {r} :
                Req!Stage(q) \notin Early /\ attempt[q].stamp + Window > attempt[r].stamp
<1>1. Req!Counted(r) \subseteq Req!Requests /\ r \in Req!Counted(r)
  BY DEF MainInv, Req!TypeOK, Req!Counted
<1>2. IsFiniteSet(Req!Counted(r)) /\ Cardinality(Req!Counted(r)) \in Nat
  BY <1>1, RequestsAre, FS_Subset, FS_CardinalityType
<1>3. ASSUME NEW q \in Req!Counted(r) \ {r}
      PROVE  Req!Stage(q) \notin Early /\ attempt[q].stamp + Window > attempt[r].stamp
  <2>1. q \in bucket /\ attempt[q].stamp + Window > attempt[r].stamp
    BY DEF Req!Counted
  <2>2. AttemptOK(q)
    BY <1>1 DEF MainInv, AttemptsOK
  <2>. QED  BY <2>1, <2>2 DEF AttemptOK
<1>. QED  BY <1>1, <1>2, <1>3

(* A request that goes on without an answer.                               *)
LEMMA GoingOn ==
    ASSUME MainInv, NEW r \in Req!Requests, Req!GoOn(r), Req!Stage(r) = "stamped", UNCHANGED record
    PROVE  /\ attempt' \in [Req!Requests -> Req!Request]
           /\ \A p \in Req!Requests \ {r} : attempt'[p] = attempt[p]
           /\ Req!Stage(r)' = IF r \in Attempts THEN "running" ELSE "over"
           /\ attempt'[r].outcome = "none"
           /\ attempt'[r].stamp = attempt[r].stamp
           /\ OneForm' /\ ReplaysOK' /\ RecordOK'
           /\ record' \in {"none"} \cup {a \in Attempts : attempt'[a].outcome \in {"done", "refused"}}
<1>. DEFINE stage == IF r \in Attempts THEN "running" ELSE "over"
            q == [attempt[r] EXCEPT !.stage = stage]
<1>0. Req!TypeOK
  BY DEF MainInv
<1>1. Req!Goto(r, stage) /\ stage \in {"running", "over"}
  BY DEF Req!GoOn
<1>2. q \in Req!Request /\ Becomes(r, q)
  BY <1>0, <1>1, GotoIs
<1>3. attempt[r] \in Req!Request
  BY <1>0, Typed
<1>4. /\ q.stage = stage /\ q.form = attempt[r].form /\ q.payload = attempt[r].payload
      /\ q.replayed = attempt[r].replayed /\ q.outcome = attempt[r].outcome
      /\ q.stamp = attempt[r].stamp
  BY <1>3 DEF Req!Request
<1>5. attempt[r].outcome = "none"
  BY DEF MainInv, AttemptsOK, AttemptOK, Early
<1>. HIDE DEF q
<1>6. /\ attempt' \in [Req!Requests -> Req!Request] /\ attempt'[r] = q
      /\ \A p \in Req!Requests \ {r} : attempt'[p] = attempt[p]
  BY <1>0, <1>2, Became
<1>7. OneForm' /\ ReplaysOK'
  BY <1>2, <1>4, OneFormKept, ReplaysKept DEF SameQuestion
<1>8. record = "none" \/ record \in Req!Requests \ {r}
  BY <1>0, RequestsAre DEF MainInv, RecordOK, Req!TypeOK
<1>9. RecordOK' /\ record' \in {"none"} \cup {a \in Attempts : attempt'[a].outcome \in {"done", "refused"}}
  BY <1>0, <1>6, <1>8 DEF MainInv, RecordOK, Req!TypeOK, Req!Stage
<1>. QED  BY <1>4, <1>5, <1>6, <1>7, <1>9 DEF Req!Stage

(* Someone counted, or let through: the bucket trimmed or left alone.      *)
LEMMA BucketOK ==
    ASSUME MainInv, NEW r \in Req!Requests, Req!Stage(r) = "stamped", now' = now,
           \A p \in Req!Requests \ {r} : attempt'[p] = attempt[p],
           bucket' \in {bucket, Req!Counted(r)}, admitted' \in {admitted, admitted \cup {r}}
    PROVE  \A p \in Req!Requests \ {r} : AttemptOK(p)'
<1>0. now \in Nat /\ Req!TypeOK
  BY RequestsAre DEF MainInv, Req!TypeOK
<1>r. AttemptOK(r)
  BY DEF MainInv, AttemptsOK
<1>n. /\ attempt[r].stamp \in Nat /\ Window \in Nat /\ attempt[r].stamp <= now
      /\ \A p \in Req!Requests : attempt[p].stamp \in Nat
  BY <1>0, <1>r, Typed, RequestsAre DEF AttemptOK
<1>. SUFFICES ASSUME NEW p \in Req!Requests \ {r} PROVE AttemptOK(p)'
  OBVIOUS
<1>1. AttemptOK(p) /\ attempt'[p] = attempt[p]
  BY DEF MainInv, AttemptsOK
<1>2. p \in bucket' => p \in bucket
  BY DEF Req!Counted
<1>3. p \in bucket \ bucket' => attempt[p].stamp + Window <= now
  <2>. SUFFICES ASSUME p \in bucket, p \notin Req!Counted(r)
                PROVE  attempt[p].stamp + Window <= now
    OBVIOUS
  <2>1. ~(attempt[p].stamp + Window > attempt[r].stamp)
    BY DEF Req!Counted
  <2>. QED  BY <2>1, <1>n, <1>0
<1>4. p \in admitted' <=> p \in admitted
  OBVIOUS
<1>. QED  BY <1>1, <1>2, <1>3, <1>4 DEF AttemptOK, Req!Stage

LEMMA CountFailsStep ==
    ASSUME MainInv, NEW r \in Req!Requests, Req!CountFails(r)
    PROVE  MainInv'
<1>0. Req!TypeOK /\ Req!Stage(r) = "stamped"
  BY DEF MainInv, Req!CountFails
<1>1. /\ attempt' \in [Req!Requests -> Req!Request]
      /\ \A p \in Req!Requests \ {r} : attempt'[p] = attempt[p]
      /\ Req!Stage(r)' = IF r \in Attempts THEN "running" ELSE "over"
      /\ attempt'[r].outcome = "none"
      /\ attempt'[r].stamp = attempt[r].stamp
      /\ OneForm' /\ ReplaysOK' /\ RecordOK'
      /\ record' \in {"none"} \cup {a \in Attempts : attempt'[a].outcome \in {"done", "refused"}}
  BY <1>0, GoingOn DEF Req!CountFails
<1>2. Req!WindowRespected'
  BY <1>0, <1>1, WindowKept DEF Req!TypeOK, Req!CountFails
<1>3. AttemptsOK'
  <2>1. \A p \in Req!Requests \ {r} : AttemptOK(p)'
    BY <1>0, <1>1, BucketOK DEF Req!CountFails
  <2>2. r \notin admitted
    BY <1>0 DEF MainInv, AttemptsOK, AttemptOK, Early
  <2>3. r \in Others => r \notin Attempts
    BY RequestsAre
  <2>4. AttemptOK(r)'
    BY <1>1, <2>2, <2>3 DEF AttemptOK, Early, Req!Stage, Req!CountFails
  <2>. QED  BY <2>1, <2>4 DEF AttemptsOK
<1>4. LockOK'
  <2>1. r \in Attempts => Req!Stage(r) \in Working
    BY <1>0 DEF Working
  <2>. QED  BY <1>1, <2>1, RequestsAre DEF MainInv, LockOK, Req!CountFails, Req!locks, Req!Stage
<1>5. Req!TypeOK'
  <2>1. bucket' \subseteq Req!Requests
    BY <1>0, CountedIsBusy DEF Req!TypeOK, Req!CountFails
  <2>2. faults' \in 0..MaxFaults
    BY <1>0, RequestsAre DEF Req!TypeOK, Req!CountFails, Req!Fault
  <2>. QED  BY <1>0, <1>1, <2>1, <2>2 DEF Req!TypeOK, Req!CountFails, Req!locks
<1>. QED  BY <1>1, <1>2, <1>3, <1>4, <1>5 DEF MainInv

LEMMA CountStep ==
    ASSUME MainInv, NEW r \in Req!Requests, Req!Count(r)
    PROVE  MainInv'
<1>0. Req!TypeOK /\ Req!Stage(r) = "stamped" /\ now \in Nat
  BY RequestsAre DEF MainInv, Req!Count, Req!TypeOK
<1>r. AttemptOK(r)
  BY DEF MainInv, AttemptsOK
<1>n. /\ attempt[r].stamp \in Nat /\ Window \in Nat /\ Delay \in Nat /\ Limit \in Nat
      /\ attempt[r].stamp <= now /\ now <= attempt[r].stamp + Delay
      /\ \A p \in Req!Requests : attempt[p].stamp \in Nat
  BY <1>0, <1>r, Typed, RequestsAre DEF AttemptOK
<1>c. /\ Req!Counted(r) \subseteq Req!Requests /\ r \in Req!Counted(r)
      /\ IsFiniteSet(Req!Counted(r)) /\ Cardinality(Req!Counted(r)) \in Nat
  BY CountedIsBusy
<1>1. /\ attempt' \in [Req!Requests -> Req!Request]
      /\ \A p \in Req!Requests \ {r} : attempt'[p] = attempt[p]
      /\ Req!Stage(r)' \in {"answered", "running", "over"}
      /\ Req!Stage(r)' = "answered" => r \in Attempts /\ attempt'[r].outcome # "none"
      /\ Req!Stage(r)' = "running" => r \in Attempts /\ attempt'[r].outcome = "none"
      /\ attempt'[r].stamp = attempt[r].stamp
      /\ OneForm' /\ ReplaysOK' /\ RecordOK'
      /\ record' \in {"none"} \cup {a \in Attempts : attempt'[a].outcome \in {"done", "refused"}}
  <2>1. CASE Cardinality(Req!Counted(r)) > Limit
    <3>1. Req!Answered(r, "refused") /\ "refused" \in Req!Outcomes
      BY <2>1, SameSizes DEF Req!Count, Req!Outcomes
    <3>. QED  BY <3>1, <1>0, Answering DEF Req!Count
  <2>2. CASE ~(Cardinality(Req!Counted(r)) > Limit)
    <3>1. Req!GoOn(r)
      BY <2>2, SameSizes DEF Req!Count
    <3>. QED  BY <3>1, <1>0, GoingOn DEF Req!Count
  <2>. QED  BY <2>1, <2>2
<1>2. /\ bucket' = Req!Counted(r) /\ now' = now
      /\ admitted' = admitted \/ (admitted' = admitted \cup {r} /\ Cardinality(Req!Counted(r)) <= Limit)
  BY <1>c, <1>n, SameSizes DEF Req!Count
<1>3. AttemptsOK'
  <2>1. \A p \in Req!Requests \ {r} : AttemptOK(p)'
    BY <1>0, <1>1, <1>2, BucketOK
  <2>2. r \in bucket'
    BY <1>2, <1>c
  <2>3. r \in Others => r \notin Attempts
    BY RequestsAre
  <2>4. AttemptOK(r)'
    BY <1>1, <2>2, <2>3 DEF AttemptOK, Early, Req!Stage
  <2>. QED  BY <2>1, <2>4 DEF AttemptsOK
<1>4. LockOK'
  <2>1. r \in Attempts => Req!Stage(r) \in Working
    BY <1>0 DEF Working
  <2>. QED  BY <1>1, <2>1, RequestsAre DEF MainInv, LockOK, Req!Count, Req!locks, Req!Stage
<1>5. Req!TypeOK'
  BY <1>0, <1>1, <1>2, <1>c DEF Req!TypeOK, Req!Count, Req!locks
<1>6. Req!WindowRespected'
  <2>0. \A p \in Req!Requests : attempt'[p].stamp = attempt[p].stamp
    BY <1>1
  <2>1. admitted \subseteq Req!Requests
    BY <1>0 DEF Req!TypeOK
  <2>2. CASE admitted' = admitted
    BY <2>0, <2>1, <2>2, WindowKept
  <2>3. CASE admitted' = admitted \cup {r} /\ Cardinality(Req!Counted(r)) <= Limit
    <3>. SUFFICES ASSUME NEW p \in admitted'
                  PROVE  Cardinality({q \in admitted' :
                            attempt'[q].stamp <= attempt'[p].stamp
                              /\ attempt'[q].stamp + Window > attempt'[p].stamp + Delay}) <= Limit
      BY SameSizes DEF Req!WindowRespected
    <3>. DEFINE W == {q \in admitted' :
                        attempt'[q].stamp <= attempt'[p].stamp
                          /\ attempt'[q].stamp + Window > attempt'[p].stamp + Delay}
    <3>1. p \in Req!Requests /\ admitted' \subseteq Req!Requests
      BY <2>1, <2>3
    <3>2. \A q \in W : q \in Req!Requests /\ attempt[q].stamp <= attempt[p].stamp
                         /\ attempt[q].stamp + Window > attempt[p].stamp + Delay
      BY <2>0, <3>1
    <3>3. CASE r \in W \/ p = r
      <4>1. attempt[r].stamp <= attempt[p].stamp
        BY <3>2, <3>3, <1>n
      <4>2. ASSUME NEW q \in W, q # r
            PROVE  q \in Req!Counted(r)
        <5>1. q \in admitted
          BY <2>3, <4>2
        <5>2. /\ attempt[q].stamp \in Nat /\ attempt[p].stamp \in Nat
              /\ attempt[q].stamp + Window > attempt[p].stamp + Delay
          BY <3>1, <3>2, <1>n
        <5>3. attempt[q].stamp + Window > now /\ attempt[q].stamp + Window > attempt[r].stamp
          BY <5>2, <4>1, <1>n, <1>0
        <5>4. AttemptOK(q)
          BY <3>2 DEF MainInv, AttemptsOK
        <5>5. q \in bucket
          BY <5>1, <5>2, <5>3, <5>4, <1>n, <1>0 DEF AttemptOK
        <5>. QED  BY <5>3, <5>5 DEF Req!Counted
      <4>3. W \subseteq Req!Counted(r)
        BY <4>2, <1>c
      <4>4. IsFiniteSet(W) /\ Cardinality(W) <= Cardinality(Req!Counted(r)) /\ Cardinality(W) \in Nat
        BY <4>3, <1>c, FS_Subset, FS_CardinalityType
      <4>. QED  BY <4>4, <1>c, <1>n, <2>3
    <3>4. CASE r \notin W /\ p # r
      <4>1. p \in admitted
        BY <3>4, <2>3
      <4>2. W = {q \in admitted : attempt[q].stamp <= attempt[p].stamp
                              /\ attempt[q].stamp + Window > attempt[p].stamp + Delay}
        BY <2>0, <2>1, <2>3, <3>1, <3>4
      <4>. QED  BY <4>1, <4>2, SameSizes DEF MainInv, Req!WindowRespected
    <3>. QED  BY <3>3, <3>4
  <2>. QED  BY <1>2, <2>2, <2>3
<1>. QED  BY <1>1, <1>3, <1>4, <1>5, <1>6 DEF MainInv

LEMMA NextMain == ASSUME MainInv, [Req!Next]_(Req!vars) PROVE MainInv'
<1>1. \A r \in Attempts : r \in Req!Requests
  BY RequestsAre
<1>. QED  BY <1>1, LookUpStep, TakeLockStep, ReadFailsStep, LockExpiresStep, StampStep, CountStep,
             CountFailsStep, RunStep, RecordStep, RecordFailsStep, ReleaseStep, CloseStep, TickStep,
             StutterStep
          DEF Req!Next

(* What changes what the faults excuse.                                    *)
LEMMA NextFaults == ASSUME AttemptsInv, [Req!Next]_(Req!vars) PROVE FaultsOK'
<1>0. Req!TypeOK /\ LockOK /\ FaultsOK /\ faults \in Nat /\ \A a \in Attempts : a \in Req!Requests
  BY RequestsAre DEF AttemptsInv, MainInv, Req!TypeOK
<1>1. ASSUME NEW r \in Req!Requests, Req!CountFails(r) PROVE Req!UncountedFew'
  <2>1. IsFiniteSet(uncounted)
    BY <1>0, RequestsAre, FS_Subset DEF Req!TypeOK
  <2>2. Cardinality(uncounted) \in Nat /\ Cardinality(uncounted \cup {r}) <= Cardinality(uncounted) + 1
        /\ Cardinality(uncounted \cup {r}) \in Nat
    <3>0. Cardinality(uncounted) \in Nat
      BY <2>1, FS_CardinalityType
    <3>1. CASE r \in uncounted
      <4>1. uncounted \cup {r} = uncounted
        BY <3>1
      <4>2. Cardinality(uncounted \cup {r}) = Cardinality(uncounted)
        BY <4>1
      <4>. QED  BY <3>0, <4>2
    <3>2. CASE r \notin uncounted
      <4>1. Cardinality(uncounted \cup {r}) = Cardinality(uncounted) + 1
        BY <2>1, <3>2, FS_AddElement
      <4>. QED  BY <3>0, <4>1
    <3>. QED  BY <3>1, <3>2
  <2>3. Cardinality(uncounted) <= faults
    BY <1>0, SameSizes DEF FaultsOK, Req!UncountedFew
  <2>. QED  BY <1>0, <1>1, <2>2, <2>3, SameSizes DEF Req!CountFails, Req!Fault, Req!UncountedFew
<1>2. ASSUME NEW r \in Req!Requests, Req!CountFails(r) PROVE stray' # {} => faults' > 0
  BY <1>0, <1>2 DEF Req!CountFails, Req!Fault
<1>3. ASSUME uncounted' = uncounted, faults' \in Nat, faults' >= faults PROVE Req!UncountedFew'
  <2>1. Cardinality(uncounted) \in Nat /\ Cardinality(uncounted) <= faults
    BY <1>0, RequestsAre, FS_Subset, FS_CardinalityType, SameSizes DEF Req!TypeOK, FaultsOK, Req!UncountedFew
  <2>. QED  BY <1>0, <1>3, <2>1, SameSizes DEF Req!UncountedFew
<1>4. ASSUME NEW a \in Attempts, Req!ReadFails(a) \/ Req!RecordFails(a)
      PROVE  FaultsOK'
  <2>1. uncounted' = uncounted /\ faults' = faults + 1
    BY <1>4 DEF Req!ReadFails, Req!RecordFails, Req!Fault, Req!limiter
  <2>2. faults' \in Nat /\ faults' >= faults /\ faults' > 0
    BY <1>0, <2>1
  <2>. QED  BY <1>3, <2>1, <2>2 DEF FaultsOK
<1>5. ASSUME Req!LockExpires PROVE FaultsOK'
  <2>1. uncounted' = uncounted /\ faults' = faults + 1
    BY <1>5 DEF Req!LockExpires, Req!Fault, Req!limiter
  <2>2. faults' \in Nat /\ faults' >= faults /\ faults' > 0
    BY <1>0, <2>1
  <2>. QED  BY <1>3, <2>1, <2>2 DEF FaultsOK
<1>6. ASSUME NEW a \in Attempts, Req!Close(a) PROVE FaultsOK'
  <2>1. uncounted' = uncounted /\ faults' = faults
    BY <1>6 DEF Req!Close, Req!limiter
  <2>2. ~attempt'[a].connected
    BY <1>0, <1>6, Typed DEF Req!Close, Req!TypeOK, Req!Request
  <2>. QED  BY <1>0, <1>3, <2>1, <2>2 DEF FaultsOK
(* Nobody closes or fails, and no lock is lost.                            *)
<1>7. ASSUME uncounted' = uncounted, faults' = faults, stray # {} \/ stray' = {},
             \A a \in Attempts : attempt'[a].connected = attempt[a].connected
      PROVE  FaultsOK'
  BY <1>0, <1>3, <1>7 DEF FaultsOK
<1>8. attempt \in [Req!Requests -> Req!Request]
  BY <1>0 DEF Req!TypeOK
<1>9. ASSUME NEW a \in Attempts, Req!Release(a) PROVE FaultsOK'
  <2>1. uncounted' = uncounted /\ faults' = faults
    BY <1>9 DEF Req!Release, Req!limiter
  <2>2. \A q \in Attempts : attempt'[q].connected = attempt[q].connected
    BY <1>0, <1>8, <1>9 DEF Req!Release, Req!Goto, Req!Request
  <2>3. a \in stray \/ lock = a
    BY <1>0, <1>9 DEF LockOK, Req!Release, Working
  <2>4. stray # {} \/ stray' = {}
    BY <1>9, <2>3 DEF Req!Release, Req!Unlocked
  <2>. QED  BY <1>7, <2>1, <2>2, <2>4
<1>10. ASSUME NEW a \in Attempts,
              Req!LookUp(a) \/ Req!TakeLock(a) \/ Req!Record(a) \/ \E outcome \in Req!Outcomes : Req!Run(a, outcome)
       PROVE  FaultsOK'
  <2>1. uncounted' = uncounted /\ faults' = faults /\ stray' = stray
    BY <1>10 DEF Req!LookUp, Req!TakeLock, Req!Record, Req!Run, Req!limiter, Req!locks
  <2>2. \A q \in Attempts : attempt'[q].connected = attempt[q].connected
    BY <1>0, <1>8, <1>10 DEF Req!LookUp, Req!TakeLock, Req!Record, Req!Run, Req!Goto, Req!Answered, Req!Request
  <2>. QED  BY <1>7, <2>1, <2>2
<1>11. ASSUME NEW r \in Req!Requests, Req!Stamp(r) \/ Req!Count(r)
       PROVE  FaultsOK'
  <2>1. uncounted' = uncounted /\ faults' = faults /\ stray' = stray
    BY <1>11 DEF Req!Stamp, Req!Count, Req!limiter, Req!locks
  <2>2. \A q \in Attempts : attempt'[q].connected = attempt[q].connected
    BY <1>0, <1>8, <1>11 DEF Req!Stamp, Req!Count, Req!GoOn, Req!Goto, Req!Answered, Req!Request
  <2>. QED  BY <1>7, <2>1, <2>2
<1>12. ASSUME Req!Tick \/ UNCHANGED Req!vars PROVE FaultsOK'
  BY <1>7, <1>12 DEF Req!Tick, Req!vars, Req!limiter, Req!locks
<1>. QED  BY <1>1, <1>2, <1>4, <1>5, <1>6, <1>9, <1>10, <1>11, <1>12 DEF Req!Next, FaultsOK

LEMMA AttemptsNext == ASSUME AttemptsInv, [Req!Next]_(Req!vars) PROVE AttemptsInv'
BY NextMain, NextFaults DEF AttemptsInv

LEMMA InvKeeps == ASSUME AttemptsInv PROVE Req!OneInside /\ Req!ReplaysMatch /\ Req!UncountedFew
<1>1. Req!OneInside
  <2>. SUFFICES Cardinality(Req!Inside \ stray) <= 1
    BY SameSizes DEF Req!OneInside, AttemptsInv, FaultsOK
  <2>1. \A a \in Req!Inside \ stray : lock = a
    BY DEF AttemptsInv, MainInv, LockOK, Req!Inside, Working
  <2>2. CASE Req!Inside \ stray = {}
    BY <2>2, FS_EmptySet
  <2>3. CASE Req!Inside \ stray # {}
    <3>1. Req!Inside \ stray = {lock}
      BY <2>1, <2>3
    <3>2. Cardinality({lock}) = 1
      BY FS_Singleton
    <3>. QED  BY <3>1, <3>2
  <2>. QED  BY <2>2, <2>3
<1>2. Req!ReplaysMatch
  <2>. SUFFICES ASSUME NEW a \in Attempts, attempt[a].replayed # "none", attempt[a].form = "json"
                PROVE  attempt[attempt[a].replayed].payload = attempt[a].payload
    BY DEF Req!ReplaysMatch
  <2>1. attempt[a].replayed \in Req!Requests /\ a \in Req!Requests
    BY Typed, RequestsAre DEF AttemptsInv, MainInv, Req!Request
  <2>2. attempt[attempt[a].replayed].form = "json"
    BY <2>1 DEF AttemptsInv, MainInv, OneForm
  <2>3. PrintOf(attempt[attempt[a].replayed]) = PrintOf(attempt[a])
    BY DEF AttemptsInv, MainInv, ReplaysOK
  <2>. QED  BY <2>2, <2>3 DEF PrintOf
<1>. QED  BY <1>1, <1>2 DEF AttemptsInv, FaultsOK

LEMMA OnlyWhenBusy == ASSUME AttemptsInv, [Req!Next]_(Req!vars) PROVE Req!RefusedOnlyWhenBusy
<1>. SUFFICES ASSUME NEW r \in Req!Requests, Req!Stage(r) = "stamped", attempt'[r].outcome = "refused"
              PROVE  Cardinality({q \in Req!Requests \ {r} :
                       /\ Req!Stage(q) \notin {"new", "missed", "locked", "stamped"}
                       /\ attempt[q].stamp + Window > attempt[r].stamp}) >= Limit
  BY SameSizes DEF Req!RefusedOnlyWhenBusy
<1>0. Req!TypeOK
  BY DEF AttemptsInv, MainInv
<1>1. attempt[r].outcome = "none" /\ attempt[r] \in Req!Request /\ attempt \in [Req!Requests -> Req!Request]
  BY <1>0, Typed DEF AttemptsInv, MainInv, AttemptsOK, AttemptOK, Early, Req!TypeOK
<1>2. ASSUME NEW a \in Attempts,
             \/ Req!LookUp(a) \/ Req!TakeLock(a) \/ Req!ReadFails(a) \/ Req!Record(a) \/ Req!RecordFails(a)
             \/ Req!Release(a) \/ \E outcome \in Req!Outcomes : Req!Run(a, outcome)
      PROVE  FALSE
  <2>1. a # r
    BY <1>2 DEF Req!LookUp, Req!TakeLock, Req!ReadFails, Req!Record, Req!RecordFails, Req!Release, Req!Run
  <2>2. attempt'[r] = attempt[r]
    BY <1>1, <1>2, <2>1 DEF Req!LookUp, Req!TakeLock, Req!ReadFails, Req!Record, Req!RecordFails, Req!Release, Req!Run, Req!Goto,
                            Req!Answered
  <2>. QED  BY <1>1, <2>2
<1>3. ASSUME NEW a \in Attempts, Req!Close(a)
      PROVE  FALSE
  BY <1>1, <1>3 DEF Req!Close, Req!Request
<1>4. ASSUME NEW q \in Req!Requests, Req!Stamp(q)
      PROVE  FALSE
  BY <1>1, <1>4 DEF Req!Stamp, Req!Request
<1>5. ASSUME Req!LockExpires \/ Req!Tick \/ UNCHANGED Req!vars
      PROVE  FALSE
  BY <1>1, <1>5 DEF Req!LockExpires, Req!Tick, Req!vars
<1>c. ASSUME NEW q \in Req!Requests, Req!CountFails(q)
      PROVE  FALSE
  BY <1>1, <1>c DEF Req!CountFails, Req!GoOn, Req!Goto, Req!Request
<1>6. PICK q \in Req!Requests : Req!Count(q)
  BY <1>2, <1>3, <1>4, <1>5, <1>c DEF Req!Next
<1>7. q = r
  <2>1. q # r => attempt'[r] = attempt[r]
    BY <1>1, <1>6 DEF Req!Count, Req!Answered, Req!GoOn, Req!Goto
  <2>. QED  BY <1>1, <2>1
<1>8. Cardinality(Req!Counted(r)) > Limit
  <2>1. CASE ~(Cardinality(Req!Counted(r)) > Limit)
    <3>1. attempt'[r].outcome = attempt[r].outcome
      BY <1>1, <1>6, <1>7, <2>1, SameSizes DEF Req!Count, Req!GoOn, Req!Goto, Req!Request
    <3>. QED  BY <1>1, <3>1
  <2>. QED  BY <2>1
<1>9. /\ Req!Counted(r) \ {r} \subseteq {q2 \in Req!Requests \ {r} :
            /\ Req!Stage(q2) \notin {"new", "missed", "locked", "stamped"}
            /\ attempt[q2].stamp + Window > attempt[r].stamp}
      /\ r \in Req!Counted(r) /\ IsFiniteSet(Req!Counted(r))
  BY CountedIsBusy DEF AttemptsInv, Early
<1>10. Cardinality(Req!Counted(r) \ {r}) = Cardinality(Req!Counted(r)) - 1 /\ IsFiniteSet(Req!Counted(r) \ {r})
  BY <1>9, FS_RemoveElement
<1>. DEFINE B == {q2 \in Req!Requests \ {r} :
            /\ Req!Stage(q2) \notin {"new", "missed", "locked", "stamped"}
            /\ attempt[q2].stamp + Window > attempt[r].stamp}
<1>11. IsFiniteSet(B)
  <2>1. B \subseteq Req!Requests
    OBVIOUS
  <2>. QED  BY <2>1, RequestsAre, FS_Subset
<1>12. Cardinality(Req!Counted(r) \ {r}) <= Cardinality(B)
  BY <1>9, <1>11, FS_Subset
<1>13. Cardinality(B) \in Nat /\ Cardinality(Req!Counted(r)) \in Nat /\ Limit \in Nat
  BY <1>9, <1>11, FS_CardinalityType, RequestsAre
<1>. HIDE DEF B
<1>14. Cardinality(B) >= Limit
  BY <1>8, <1>10, <1>12, <1>13
<1>. QED  BY <1>14 DEF B

-----------------------------------------------------------------------------
(* The two parts together.                                                 *)
RequestsInv == part = "requests" => AttemptsInv

LEMMA RequestsStep ==
    ASSUME RequestsInv, [AccessNext]_<<part, vars, req>>
    PROVE  /\ RequestsInv'
           /\ part = "requests" => AttemptsInv /\ [Req!Next]_(Req!vars)
<1>1. CASE part = "requests" /\ Req!Next /\ UNCHANGED part
  BY <1>1, AttemptsNext DEF RequestsInv
<1>2. CASE part = "sessions" /\ UNCHANGED part
  BY <1>2 DEF RequestsInv
<1>3. CASE UNCHANGED <<part, vars, req>>
  <2>1. UNCHANGED Req!vars /\ UNCHANGED part
    BY <1>3 DEF req, Req!vars
  <2>. QED  BY <2>1, AttemptsNext DEF RequestsInv
<1>. QED  BY <1>1, <1>2, <1>3 DEF AccessNext

(* Whatever requests carry a key, whatever they ask for and in whatever    *)
(* form, and whatever the limit, the window, the failures and the delays:  *)
(* of the attempts in the handler one holds the lock, and the others are   *)
(* there because a call to Redis failed, the lock expired or a client gave *)
(* up; an answer is replayed to the question it answered; and a window of  *)
(* the limiter has more uploads than its limit only by those whose count   *)
(* failed, each at the cost of a failure (idempotencyKey,                  *)
(* slidingWindowLimiter).                                                  *)
THEOREM RequestsAreKept == AccessSpec => []RequestsKept
<1>1. AccessInit => RequestsInv
  BY AttemptsInit DEF AccessInit, RequestsInv
<1>2. RequestsInv /\ [AccessNext]_<<part, vars, req>> => RequestsInv'
  BY RequestsStep
<1>3. RequestsInv => RequestsKept
  BY InvKeeps DEF RequestsInv, AttemptsInv, MainInv, RequestsKept
<1>. QED  BY <1>1, <1>2, <1>3, PTL DEF AccessSpec

(* An upload is refused only when as many others as the limit were sent    *)
(* within the window before it (slidingWindowLimiter).                     *)
THEOREM RefusalsAreDue == AccessSpec => RefusedOnlyWhenBusy
<1>1. AccessInit => RequestsInv
  BY AttemptsInit DEF AccessInit, RequestsInv
<1>2. RequestsInv /\ [AccessNext]_<<part, vars, req>> => RequestsInv'
  BY RequestsStep
<1>3. RequestsInv /\ [AccessNext]_<<part, vars, req>>
        => [part = "requests" => Req!RefusedOnlyWhenBusy]_<<part, vars, req>>
  BY RequestsStep, OnlyWhenBusy
<1>. QED  BY <1>1, <1>2, <1>3, PTL DEF AccessSpec, RefusedOnlyWhenBusy

(* Beside the requests, the sessions are what their module says: all that  *)
(* is proved of them holds of the two parts together.                      *)
THEOREM SessionsUndisturbed == AccessSpec => Spec
<1>1. AccessInit => Init
  BY DEF AccessInit
<1>2. [AccessNext]_<<part, vars, req>> => [Next]_vars
  BY DEF AccessNext
<1>. QED  BY <1>1, <1>2, PTL DEF AccessSpec, Spec
=============================================================================
