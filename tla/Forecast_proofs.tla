--------------------------- MODULE Forecast_proofs ---------------------------
(***************************************************************************)
(* Proofs about Forecast: the inductive invariant, and with it that the    *)
(* usage of the month is what the stored forecasts come to, that the quota *)
(* is exceeded by the overlap at most, and that the breakers and the locks *)
(* contain the calls, for every number of calls, items and every quota.    *)
(***************************************************************************)
EXTENDS Forecasts, FiniteSetTheorems, WellFoundedInduction, TLAPS

(* What a call, as the record it is, counts as.                            *)
Owes(w) == w.stage \in {"route", "wait", "create", "count"} /\ w.kind = "forecast"
Counts(w) == w.stage = "count"
WaitsFor(w, p) == w.stage = "wait" /\ w.via = p
HoldsIn(w, i) ==
    w.stage \notin {"idle", "lock", "served"} /\ w.limited /\ ~w.blocked /\ w.item = i

Counting == {c \in Clients : At(c, "count")}
Waiters(p) == {c \in Clients : At(c, "wait") /\ call[c].via = p}
Holders(i) == {c \in Clients : Holds(c, i)}

(* A limited call is for one item, and only forecasts are counted.         *)
CallOK(w) ==
    /\ w.stage # "idle" /\ w.limited => w.todo = {} /\ w.item \in Items
    /\ Counts(w) => w.kind = "forecast"

CallsOK == \A c \in Clients : CallOK(call[c])

(* Whoever works on an item that was not robbed has its lock.              *)
LocksHeld == \A i \in Items \ robbed : Holders(i) # {} => lock[i] = "taken"

InductiveInv == UsageCounted /\ CallsContained /\ CallsOK /\ LocksHeld

-----------------------------------------------------------------------------
(* The data.                                                               *)

LEMMA ProvidersAre == DOMAIN Providers = 1..2 /\ Len(Providers) = 2 /\ 1..2 = {1, 2}
BY DEF Providers

LEMMA IdleOrWorking ==
    ASSUME NEW w \in {Idle} \cup Working
    PROVE  /\ w.stage = "idle" <=> w = Idle
           /\ w.stage # "idle" => w \in Working
           /\ w.stage = "served" => w \in Working
BY DEF Idle, Working

LEMMA IdleCounts ==
    /\ ~Owes(Idle) /\ ~Counts(Idle) /\ CallOK(Idle) /\ Idle.stage = "idle"
    /\ \A p : ~WaitsFor(Idle, p)
    /\ \A i : ~HoldsIn(Idle, i)
BY DEF Owes, Counts, CallOK, WaitsFor, HoldsIn, Idle

LEMMA ClientsCount ==
    ASSUME NEW S \in SUBSET Clients
    PROVE  /\ IsFiniteSet(S) /\ Cardinality(S) \in Nat
           /\ Cardinality(S) <= Cardinality(Clients)
           /\ Cardinality(Clients) \in Nat /\ Cardinality(Clients) >= 1
<1>1. IsFiniteSet(Clients) /\ Clients # {}
  BY NumbersAssumption
<1>2. Cardinality(Clients) \in Nat /\ Cardinality(Clients) # 0
  BY <1>1, FS_CardinalityType, FS_EmptySet
<1> QED
  BY <1>1, <1>2, FS_Subset, FS_CardinalityType

(* A set of calls that differs by one call at most.                        *)
LEMMA Moved ==
    ASSUME NEW S \in SUBSET Clients, NEW T \in SUBSET Clients, NEW c \in Clients,
           T \ {c} = S \ {c}
    PROVE  /\ Cardinality(S) \in Nat /\ Cardinality(T) \in Nat
           /\ Cardinality(T) <= Cardinality(Clients)
           /\ (c \in T <=> c \in S) => Cardinality(T) = Cardinality(S)
           /\ c \in T /\ c \notin S => Cardinality(T) = Cardinality(S) + 1
           /\ c \notin T /\ c \in S => Cardinality(T) = Cardinality(S) - 1
<1>1. /\ IsFiniteSet(S) /\ IsFiniteSet(T) /\ Cardinality(S) \in Nat /\ Cardinality(T) \in Nat
      /\ Cardinality(T) <= Cardinality(Clients)
  BY ClientsCount
<1>2. ASSUME c \in T <=> c \in S
      PROVE  Cardinality(T) = Cardinality(S)
  <2>1. T = S
    BY <1>2
  <2> QED
    BY <2>1
<1>3. ASSUME c \in T, c \notin S
      PROVE  Cardinality(T) = Cardinality(S) + 1
  <2>1. T = S \cup {c}
    BY <1>3
  <2> QED
    BY <1>1, <1>3, <2>1, FS_AddElement
<1>4. ASSUME c \notin T, c \in S
      PROVE  Cardinality(T) = Cardinality(S) - 1
  <2>1. T = S \ {c}
    BY <1>4
  <2> QED
    BY <1>1, <1>4, <2>1, FS_RemoveElement
<1> QED
  BY <1>1, <1>2, <1>3, <1>4

Moves(c, w) == call' = [call EXCEPT ![c] = w]

LEMMA MovedSets ==
    ASSUME TypeOK, NEW c \in Clients, NEW w, Moves(c, w)
    PROVE  /\ call'[c] = w /\ \A d \in Clients \ {c} : call'[d] = call[d]
           /\ Unpaid' \ {c} = Unpaid \ {c} /\ (c \in Unpaid' <=> Owes(w))
           /\ Counting' \ {c} = Counting \ {c} /\ (c \in Counting' <=> Counts(w))
           /\ \A p : Waiters(p)' \ {c} = Waiters(p) \ {c} /\ (c \in Waiters(p)' <=> WaitsFor(w, p))
           /\ \A i : Holders(i)' \ {c} = Holders(i) \ {c} /\ (c \in Holders(i)' <=> HoldsIn(w, i))
<1>1. call'[c] = w /\ \A d \in Clients \ {c} : call'[d] = call[d]
  BY DEF TypeOK, Moves
<1>2. Unpaid' \ {c} = Unpaid \ {c} /\ (c \in Unpaid' <=> Owes(w))
  BY <1>1 DEF Unpaid, Owes
<1>3. Counting' \ {c} = Counting \ {c} /\ (c \in Counting' <=> Counts(w))
  BY <1>1 DEF Counting, Counts, At
<1>4. ASSUME NEW p
      PROVE  Waiters(p)' \ {c} = Waiters(p) \ {c} /\ (c \in Waiters(p)' <=> WaitsFor(w, p))
  BY <1>1 DEF Waiters, WaitsFor, At
<1>5. ASSUME NEW i
      PROVE  Holders(i)' \ {c} = Holders(i) \ {c} /\ (c \in Holders(i)' <=> HoldsIn(w, i))
  BY <1>1 DEF Holders, Holds, HoldsIn
<1> QED
  BY <1>1, <1>2, <1>3, <1>4, <1>5

LEMMA SetsAre ==
    ASSUME NEW c \in Clients
    PROVE  /\ Unpaid \in SUBSET Clients /\ Unpaid' \in SUBSET Clients
           /\ Counting \in SUBSET Clients /\ Counting' \in SUBSET Clients
           /\ \A p : Waiters(p) \in SUBSET Clients /\ Waiters(p)' \in SUBSET Clients
           /\ \A i : Holders(i) \in SUBSET Clients /\ Holders(i)' \in SUBSET Clients
           /\ c \in Unpaid <=> Owes(call[c])
           /\ c \in Counting <=> Counts(call[c])
           /\ \A p : c \in Waiters(p) <=> WaitsFor(call[c], p)
           /\ \A i : c \in Holders(i) <=> HoldsIn(call[c], i)
BY DEF Unpaid, Counting, Waiters, Holders, Owes, Counts, WaitsFor, Holds, HoldsIn, At

-----------------------------------------------------------------------------
(* What a call may do when it goes from v to w, one condition for each     *)
(* property.                                                               *)

QuotaStep(v, w) ==
    \/ used' = used /\ (Owes(w) => Owes(v))
    \/ used' = used /\ used + 1 <= Cap
    \/ used' = used + 1 /\ Owes(v) /\ ~Owes(w)

CountStep(v, w) ==
    \/ created' = created /\ used' + uncounted' = used + uncounted /\ (Counts(w) <=> Counts(v))
    \/ created' = created + 1 /\ used' + uncounted' = used + uncounted /\ Counts(w) /\ ~Counts(v)
    \/ created' = created /\ used' + uncounted' = used + uncounted + 1 /\ Counts(v) /\ ~Counts(w)

RawBreaker == [failures: Nat, gate: {"closed", "open"}]

Sound(b) == b.gate = "closed" => b.failures < Threshold

BreakerStep(v, w, p) ==
    /\ Sound(breaker'[p])
    /\ \/ breaker'[p].failures <= breaker[p].failures /\ (WaitsFor(w, p) => WaitsFor(v, p))
       \/ breaker'[p].failures < Threshold
       \/ /\ breaker'[p].failures <= breaker[p].failures + 1
          /\ WaitsFor(v, p) /\ ~WaitsFor(w, p)

LockStep(c, v, w, i) ==
    /\ i \notin robbed
    /\ \/ lock'[i] \in {lock[i], "taken"} /\ (HoldsIn(w, i) => HoldsIn(v, i))
       \/ lock[i] = "free" /\ lock'[i] = "taken"
       \/ ~HoldsIn(w, i) /\ \A d \in Clients \ {c} : ~Holds(d, i)

OthersTyped ==
    /\ lock' \in [Items -> {"free", "taken"}]
    /\ cache' \in [Items -> Result]
    /\ latest' \in [Items -> Result]
    /\ created' \in 0..MaxForecasts
    /\ used' \in Nat
    /\ breaker' \in [1..2 -> RawBreaker]
    /\ uncounted' \in 0..MaxUncounted
    /\ robbed' \subseteq Items

LEMMA QuotaMove ==
    ASSUME InductiveInv, NEW c \in Clients, NEW w, Moves(c, w), QuotaStep(call[c], w), used' \in Nat
    PROVE  UsageWithinQuota'
<1>1. TypeOK /\ used + Cardinality(Unpaid) <= Cap + Cardinality(Clients) - 1
        /\ used \in Nat /\ Cap \in Nat
  BY NumbersAssumption DEF InductiveInv, UsageCounted, UsageWithinQuota, TypeOK
<1>2. Cardinality(Clients) \in Nat /\ Cardinality(Unpaid') <= Cardinality(Clients)
        /\ Cardinality(Unpaid') \in Nat /\ Cardinality(Unpaid) \in Nat
  BY SetsAre, ClientsCount
<1>3. /\ (Owes(w) => Owes(call[c])) => Cardinality(Unpaid') <= Cardinality(Unpaid)
      /\ Owes(call[c]) /\ ~Owes(w) => Cardinality(Unpaid') = Cardinality(Unpaid) - 1
  <2>1. /\ Unpaid \in SUBSET Clients /\ Unpaid' \in SUBSET Clients
        /\ Unpaid' \ {c} = Unpaid \ {c}
        /\ c \in Unpaid' <=> Owes(w)
        /\ c \in Unpaid <=> Owes(call[c])
    BY <1>1, MovedSets, SetsAre
  <2>2. /\ (c \in Unpaid' <=> c \in Unpaid) => Cardinality(Unpaid') = Cardinality(Unpaid)
        /\ c \notin Unpaid' /\ c \in Unpaid => Cardinality(Unpaid') = Cardinality(Unpaid) - 1
    BY <2>1, Moved
  <2> QED
    BY <1>2, <2>1, <2>2
<1> QED
  BY <1>1, <1>2, <1>3 DEF QuotaStep, UsageWithinQuota

LEMMA Sums ==
    ASSUME NEW a \in Nat, NEW b \in Nat, NEW u \in Nat, NEW v \in Nat,
           NEW x \in Nat, NEW y \in Nat, NEW n \in Nat, NEW m \in Nat,
           a = u + x + n,
           \/ b = a /\ v + y = u + x /\ m = n
           \/ b = a + 1 /\ v + y = u + x /\ m = n + 1
           \/ b = a /\ v + y = u + x + 1 /\ m = n - 1
    PROVE  b = v + y + m
OBVIOUS

LEMMA CountMove ==
    ASSUME InductiveInv, NEW c \in Clients, NEW w, Moves(c, w), CountStep(call[c], w), OthersTyped
    PROVE  UsageCountsForecasts'
<1>1. /\ TypeOK /\ created = used + uncounted + Cardinality(Counting)
      /\ used \in Nat /\ created \in Nat /\ uncounted \in Nat
      /\ used' \in Nat /\ created' \in Nat /\ uncounted' \in Nat
  BY NumbersAssumption
  DEF InductiveInv, UsageCounted, UsageCountsForecasts, TypeOK, Counting, OthersTyped
<1>2. /\ Counting \in SUBSET Clients /\ Counting' \in SUBSET Clients
      /\ Counting' \ {c} = Counting \ {c}
      /\ c \in Counting' <=> Counts(w)
      /\ c \in Counting <=> Counts(call[c])
  BY <1>1, MovedSets, SetsAre
<1>3. /\ Cardinality(Counting) \in Nat /\ Cardinality(Counting') \in Nat
      /\ (Counts(w) <=> Counts(call[c])) => Cardinality(Counting') = Cardinality(Counting)
      /\ Counts(w) /\ ~Counts(call[c]) => Cardinality(Counting') = Cardinality(Counting) + 1
      /\ ~Counts(w) /\ Counts(call[c]) => Cardinality(Counting') = Cardinality(Counting) - 1
  BY <1>2, Moved
<1>4. created' = used' + uncounted' + Cardinality(Counting')
  <2>1. \/ created' = created /\ used' + uncounted' = used + uncounted
           /\ Cardinality(Counting') = Cardinality(Counting)
        \/ created' = created + 1 /\ used' + uncounted' = used + uncounted
           /\ Cardinality(Counting') = Cardinality(Counting) + 1
        \/ created' = created /\ used' + uncounted' = used + uncounted + 1
           /\ Cardinality(Counting') = Cardinality(Counting) - 1
    BY <1>3 DEF CountStep
  <2>2. PICK a \in Nat, b \in Nat, u \in Nat, v \in Nat,
             x \in Nat, y \in Nat, n \in Nat, m \in Nat :
          /\ a = created /\ b = created' /\ u = used /\ v = used'
          /\ x = uncounted /\ y = uncounted'
          /\ n = Cardinality(Counting) /\ m = Cardinality(Counting')
    BY <1>1, <1>3
  <2>3. a = u + x + n
    BY <1>1, <2>2
  <2>4. \/ b = a /\ v + y = u + x /\ m = n
        \/ b = a + 1 /\ v + y = u + x /\ m = n + 1
        \/ b = a /\ v + y = u + x + 1 /\ m = n - 1
    BY <2>1, <2>2
  <2>5. b = v + y + m
    BY <2>3, <2>4, Sums
  <2> QED
    BY <2>2, <2>5
<1> QED
  BY <1>4 DEF UsageCountsForecasts, Counting

LEMMA BreakerMove ==
    ASSUME InductiveInv, NEW c \in Clients, NEW w, Moves(c, w), OthersTyped,
           \A p \in 1..2 : BreakerStep(call[c], w, p)
    PROVE  OutageIsBounded' /\ breaker' \in [DOMAIN Providers -> Breaker]
<1>1. ASSUME NEW p \in 1..2
      PROVE  /\ breaker'[p].failures + Cardinality(Waiters(p)')
                  <= Threshold - 1 + Cardinality(Clients)
             /\ Sound(breaker'[p])
             /\ breaker'[p].failures \in 0..(Threshold + Cardinality(Clients) - 1)
  <2>1. /\ breaker[p].failures + Cardinality(Waiters(p)) <= Threshold - 1 + Cardinality(Clients)
        /\ TypeOK /\ Threshold \in Nat
    BY ProvidersAre, NumbersAssumption
    DEF InductiveInv, CallsContained, OutageIsBounded, UsageCounted, Waiting, Waiters
  <2>2. Cardinality(Clients) \in Nat
    BY ClientsCount
  <2>3. breaker[p].failures \in Nat /\ breaker'[p].failures \in Nat
    BY <2>1, <2>2, ProvidersAre DEF TypeOK, Breaker, OthersTyped, RawBreaker
  <2>4. /\ Waiters(p) \in SUBSET Clients /\ Waiters(p)' \in SUBSET Clients
        /\ Waiters(p)' \ {c} = Waiters(p) \ {c}
        /\ c \in Waiters(p)' <=> WaitsFor(w, p)
        /\ c \in Waiters(p) <=> WaitsFor(call[c], p)
    BY <2>1, MovedSets, SetsAre
  <2>5. /\ Cardinality(Waiters(p)) \in Nat /\ Cardinality(Waiters(p)') \in Nat
        /\ Cardinality(Waiters(p)') <= Cardinality(Clients)
        /\ (WaitsFor(w, p) => WaitsFor(call[c], p)) =>
              Cardinality(Waiters(p)') <= Cardinality(Waiters(p))
        /\ ~WaitsFor(w, p) /\ WaitsFor(call[c], p) =>
              Cardinality(Waiters(p)') = Cardinality(Waiters(p)) - 1
    <3>1. /\ Cardinality(Waiters(p)) \in Nat /\ Cardinality(Waiters(p)') \in Nat
          /\ Cardinality(Waiters(p)') <= Cardinality(Clients)
          /\ (c \in Waiters(p)' <=> c \in Waiters(p)) =>
                Cardinality(Waiters(p)') = Cardinality(Waiters(p))
          /\ c \notin Waiters(p)' /\ c \in Waiters(p) =>
                Cardinality(Waiters(p)') = Cardinality(Waiters(p)) - 1
      BY <2>4, Moved
    <3> QED
      BY <2>4, <3>1
  <2>6. BreakerStep(call[c], w, p)
    OBVIOUS
  <2> QED
    BY <2>1, <2>2, <2>3, <2>5, <2>6 DEF BreakerStep
<1>2. breaker' \in [DOMAIN Providers -> Breaker]
  BY <1>1, ProvidersAre DEF OthersTyped, RawBreaker, Breaker
<1>3. OutageIsBounded'
  <2> SUFFICES ASSUME NEW p \in DOMAIN Providers
               PROVE  /\ breaker'[p].failures + Cardinality(Waiters(p)')
                           <= Threshold - 1 + Cardinality(Clients)
                      /\ breaker'[p].gate = "closed" => breaker'[p].failures < Threshold
    BY DEF OutageIsBounded, Waiting, Waiters
  <2> QED
    BY <1>1, ProvidersAre DEF Sound
<1> QED
  BY <1>2, <1>3

LEMMA LockMove ==
    ASSUME InductiveInv, NEW c \in Clients, NEW w, Moves(c, w),
           \A i \in Items \ robbed' : LockStep(c, call[c], w, i)
    PROVE  OneCallPerItem' /\ LocksHeld'
<1>1. ASSUME NEW i \in Items \ robbed'
      PROVE  Cardinality(Holders(i)') <= 1 /\ (Holders(i)' # {} => lock'[i] = "taken")
  <2>1. LockStep(c, call[c], w, i)
    OBVIOUS
  <2>2. Cardinality(Holders(i)) <= 1 /\ (Holders(i) # {} => lock[i] = "taken") /\ TypeOK
    BY <2>1 DEF InductiveInv, CallsContained, OneCallPerItem, LocksHeld, Holders, UsageCounted,
         LockStep
  <2>3. /\ Holders(i) \in SUBSET Clients /\ Holders(i)' \in SUBSET Clients
        /\ Holders(i)' \ {c} = Holders(i) \ {c}
        /\ c \in Holders(i)' <=> HoldsIn(w, i)
        /\ c \in Holders(i) <=> HoldsIn(call[c], i)
    BY <2>2, MovedSets, SetsAre
  <2>4. Cardinality({}) = 0 /\ Cardinality({c}) = 1
    BY FS_EmptySet, FS_Singleton
  <2>5. CASE lock'[i] \in {lock[i], "taken"} /\ (HoldsIn(w, i) => HoldsIn(call[c], i))
    <3>1. Holders(i)' \subseteq Holders(i)
      BY <2>3, <2>5
    <3>2. Cardinality(Holders(i)') <= Cardinality(Holders(i))
            /\ Cardinality(Holders(i)) \in Nat /\ Cardinality(Holders(i)') \in Nat
      BY <2>3, <3>1, ClientsCount, FS_Subset
    <3> QED
      BY <2>2, <2>5, <3>1, <3>2
  <2>6. CASE lock[i] = "free" /\ lock'[i] = "taken"
    <3>1. Holders(i) = {}
      BY <2>2, <2>6
    <3>2. Holders(i)' = {} \/ Holders(i)' = {c}
      BY <2>3, <3>1
    <3> QED
      BY <2>4, <2>6, <3>2
  <2>7. CASE ~HoldsIn(w, i) /\ \A d \in Clients \ {c} : ~Holds(d, i)
    <3>1. Holders(i) \ {c} = {}
      BY <2>7 DEF Holders
    <3>2. Holders(i)' = {}
      BY <2>3, <2>7, <3>1
    <3> QED
      BY <2>4, <3>2
  <2> QED
    BY <2>1, <2>5, <2>6, <2>7 DEF LockStep
<1>2. OneCallPerItem'
  BY <1>1 DEF OneCallPerItem, Holders
<1> QED
  BY <1>1, <1>2 DEF LocksHeld

LEMMA MoveKeeps ==
    ASSUME InductiveInv, NEW c \in Clients, NEW w \in {Idle} \cup Working, Moves(c, w),
           CallOK(w), w.stage = "served" => w.result = "real", OthersTyped,
           QuotaStep(call[c], w), CountStep(call[c], w),
           \A p \in 1..2 : BreakerStep(call[c], w, p),
           \A i \in Items \ robbed' : LockStep(c, call[c], w, i)
    PROVE  InductiveInv'
<1>1. TypeOK
  BY DEF InductiveInv, UsageCounted
<1>2. call'[c] = w /\ \A d \in Clients \ {c} : call'[d] = call[d]
  BY <1>1, MovedSets
<1>3. OutageIsBounded' /\ breaker' \in [DOMAIN Providers -> Breaker]
  BY BreakerMove
<1>4. TypeOK'
  <2>1. call' \in [Clients -> {Idle} \cup Working]
    BY <1>1 DEF TypeOK, Moves
  <2> QED
    BY <1>3, <2>1 DEF TypeOK, OthersTyped
<1>5. RepeatedIsReal'
  BY <1>2 DEF RepeatedIsReal, At, InductiveInv, UsageCounted
<1>6. CallsOK'
  BY <1>2 DEF CallsOK, CallOK, Counts, InductiveInv
<1>7. UsageWithinQuota' /\ UsageCountsForecasts'
  BY QuotaMove, CountMove DEF OthersTyped
<1>8. OneCallPerItem' /\ LocksHeld'
  BY LockMove
<1> QED
  BY <1>3, <1>4, <1>5, <1>6, <1>7, <1>8 DEF InductiveInv, UsageCounted, CallsContained

-----------------------------------------------------------------------------
(* The steps of a call, each as a move from its record to the next.        *)

(* Nothing but the call and what the cache holds moves, and the call does  *)
(* not gain weight.                                                        *)
Lighter(v, w) ==
    /\ Owes(w) => Owes(v)
    /\ Counts(w) <=> Counts(v)
    /\ \A p : WaitsFor(w, p) => WaitsFor(v, p)
    /\ \A i : HoldsIn(w, i) => HoldsIn(v, i)

LEMMA InvTypes ==
    ASSUME InductiveInv
    PROVE  /\ TypeOK /\ breaker \in [1..2 -> RawBreaker]
           /\ Sound(breaker[1]) /\ Sound(breaker[2])
           /\ \A c \in Clients : call[c] \in {Idle} \cup Working /\ CallOK(call[c])
<1>1. Cardinality(Clients) \in Nat /\ Threshold \in Nat
  BY FS_CardinalityType, NumbersAssumption
<1>2. TypeOK /\ OutageIsBounded /\ CallsOK
  BY DEF InductiveInv, UsageCounted, CallsContained
<1>3. breaker \in [1..2 -> RawBreaker]
  BY <1>1, <1>2, ProvidersAre DEF TypeOK, Breaker, RawBreaker
<1>4. Sound(breaker[1]) /\ Sound(breaker[2])
  BY <1>2, ProvidersAre DEF OutageIsBounded, Sound
<1> QED
  BY <1>2, <1>3, <1>4 DEF TypeOK, CallsOK

LEMMA SameTyped ==
    ASSUME InductiveInv, UNCHANGED <<stored, breaker, history>>
    PROVE  /\ OthersTyped
           /\ lock' = lock /\ cache' = cache /\ latest' = latest /\ created' = created
           /\ used' = used /\ breaker' = breaker /\ uncounted' = uncounted /\ robbed' = robbed
BY InvTypes DEF OthersTyped, stored, results, history, TypeOK

(* The breakers are left alone by a call that does not start to wait.      *)
LEMMA SameBreakers ==
    ASSUME InductiveInv, NEW v, NEW w, breaker' = breaker,
           \A p : WaitsFor(w, p) => WaitsFor(v, p)
    PROVE  \A p \in 1..2 : BreakerStep(v, w, p)
<1> SUFFICES ASSUME NEW p \in 1..2
             PROVE  BreakerStep(v, w, p)
  OBVIOUS
<1>1. Sound(breaker[p]) /\ breaker[p].failures \in Nat
  BY InvTypes DEF RawBreaker
<1> QED
  BY <1>1 DEF BreakerStep

LEMMA SameLocks ==
    ASSUME NEW c, NEW v, NEW w, lock' = lock, robbed' = robbed,
           \A i : HoldsIn(w, i) => HoldsIn(v, i)
    PROVE  \A i \in Items \ robbed' : LockStep(c, v, w, i)
BY DEF LockStep

(* A step that only moves the call.                                        *)
LEMMA LightMove ==
    ASSUME InductiveInv, NEW c \in Clients, NEW w \in {Idle} \cup Working, Moves(c, w),
           CallOK(w), w.stage = "served" => w.result = "real",
           UNCHANGED <<stored, breaker, history>>, Lighter(call[c], w)
    PROVE  InductiveInv'
<1>1. OthersTyped /\ UNCHANGED <<lock, created, used, breaker, uncounted, robbed>>
  BY SameTyped
<1>2. QuotaStep(call[c], w) /\ CountStep(call[c], w)
  BY <1>1 DEF QuotaStep, CountStep, Lighter
<1>3. /\ \A p \in 1..2 : BreakerStep(call[c], w, p)
      /\ \A i \in Items \ robbed' : LockStep(c, call[c], w, i)
  BY <1>1, SameBreakers, SameLocks DEF Lighter
<1> QED
  BY <1>1, <1>2, <1>3, MoveKeeps

(* Where a call goes that is over.                                         *)
LEMMA OverMeans ==
    ASSUME InductiveInv, NEW c \in Clients, call[c].stage # "idle", Over(c)
    PROVE  \E w \in {Idle} \cup Working :
              /\ Moves(c, w) /\ CallOK(w) /\ w.stage # "served"
              /\ ~Owes(w) /\ ~Counts(w)
              /\ \A p : ~WaitsFor(w, p)
              /\ \A i : ~HoldsIn(w, i)
<1>1. PICK v \in Working : v = call[c] /\ CallOK(v) /\ v.stage # "idle"
  BY InvTypes, IdleOrWorking
<1>2. CASE v.todo = {}
  <2>1. Moves(c, Idle)
    BY <1>1, <1>2 DEF Over, Rest, Moves
  <2> QED
    BY <2>1, IdleCounts DEF Idle
<1>3. CASE v.todo # {}
  <2>1. PICK i \in v.todo :
           call' = [call EXCEPT ![c] = [v EXCEPT !.stage = "quota", !.item = i, !.todo = @ \ {i},
                                          !.via = 1, !.result = "none"]]
    <3>1. PICK next \in Rest(c) : call' = [call EXCEPT ![c] = next]
      BY DEF Over
    <3>2. Rest(c) = {[v EXCEPT !.stage = "quota", !.item = i, !.todo = @ \ {i},
                                !.via = 1, !.result = "none"] : i \in v.todo}
      BY <1>1, <1>3 DEF Rest
    <3>3. PICK i \in v.todo : next = [v EXCEPT !.stage = "quota", !.item = i, !.todo = @ \ {i},
                                               !.via = 1, !.result = "none"]
      BY <3>1, <3>2
    <3> QED
      BY <3>1, <3>3
  <2>2. v.todo \subseteq Items /\ i \in Items
    BY DEF Working
  <2>3. [v EXCEPT !.stage = "quota", !.item = i, !.todo = @ \ {i},
                  !.via = 1, !.result = "none"] \in Working
    BY <2>2, ProvidersAre DEF Working, Result
  <2>4. PICK w \in Working : w = [v EXCEPT !.stage = "quota", !.item = i, !.todo = @ \ {i},
                                           !.via = 1, !.result = "none"]
    BY <2>3
  <2>5. w.stage = "quota" /\ w.limited = v.limited
    BY <2>4 DEF Working
  <2>6. ~v.limited
    BY <1>1, <1>3 DEF CallOK
  <2>7. CallOK(w) /\ w.stage # "served" /\ ~Owes(w) /\ ~Counts(w)
          /\ (\A p : ~WaitsFor(w, p)) /\ (\A j : ~HoldsIn(w, j))
    BY <2>5, <2>6 DEF CallOK, Owes, Counts, WaitsFor, HoldsIn
  <2>8. Moves(c, w)
    BY <2>1, <2>4 DEF Moves
  <2> QED
    BY <2>7, <2>8
<1> QED
  BY <1>2, <1>3

LEMMA OverStep ==
    ASSUME InductiveInv, NEW c \in Clients, call[c].stage \notin {"idle", "count"}, Over(c),
           UNCHANGED <<stored, breaker, history>>
    PROVE  InductiveInv'
<1>1. PICK w \in {Idle} \cup Working :
              /\ Moves(c, w) /\ CallOK(w) /\ w.stage # "served"
              /\ ~Owes(w) /\ ~Counts(w)
              /\ \A p : ~WaitsFor(w, p)
              /\ \A i : ~HoldsIn(w, i)
  BY OverMeans
<1>2. Lighter(call[c], w)
  BY <1>1 DEF Lighter, Counts
<1> QED
  BY <1>1, <1>2, LightMove

(* A call that begins.                                                     *)
LEMMA AsksStep ==
    ASSUME InductiveInv, NEW c \in Clients, NEW kind \in Kinds, NEW item \in Items \cup {"all"},
           NEW limited \in BOOLEAN, NEW todo \in SUBSET Items, NEW stage \in {"lock", "quota"},
           limited => todo = {} /\ item \in Items /\ stage = "lock",
           Asks(c, kind, item, limited, todo, stage)
    PROVE  InductiveInv'
<1>1. [stage |-> stage, kind |-> kind, item |-> item, limited |-> limited, blocked |-> FALSE,
       todo |-> todo, via |-> 1, result |-> "none"] \in Working
  BY ProvidersAre DEF Working, Result
<1>2. PICK w \in Working :
        w = [stage |-> stage, kind |-> kind, item |-> item, limited |-> limited, blocked |-> FALSE,
             todo |-> todo, via |-> 1, result |-> "none"]
  BY <1>1
<1>3. w.stage = stage /\ w.limited = limited /\ w.todo = todo /\ w.item = item
  BY <1>2
<1>4. Moves(c, w) /\ UNCHANGED <<stored, breaker, history>>
  BY <1>2 DEF Asks, Moves
<1>5. call[c].stage = "idle"
  BY DEF Asks, At
<1>6. Lighter(call[c], w) /\ CallOK(w) /\ w.stage # "served"
  BY <1>3, <1>5 DEF Lighter, CallOK, Owes, Counts, WaitsFor, HoldsIn
<1> QED
  BY <1>4, <1>6, LightMove

LEMMA BeginSteps ==
    ASSUME InductiveInv, NEW c \in Clients,
           \/ \E i \in Items : AskOne(c, i)
           \/ \E items \in SUBSET Items : AskBatch(c, items)
           \/ AskReport(c)
    PROVE  InductiveInv'
<1>1. "forecast" \in Kinds /\ "report" \in Kinds /\ TRUE \in BOOLEAN /\ FALSE \in BOOLEAN
  BY DEF Kinds
<1>2. ASSUME NEW i \in Items, AskOne(c, i)
      PROVE  InductiveInv'
  <2> DEFINE none == {}
  <2>1. none \in SUBSET Items /\ Asks(c, "forecast", i, TRUE, none, "lock") /\ none = {}
    BY <1>2 DEF AskOne
  <2> HIDE DEF none
  <2> QED
    BY <1>1, <2>1, AsksStep
<1>3. ASSUME NEW items \in SUBSET Items, AskBatch(c, items)
      PROVE  InductiveInv'
  <2>1. PICK i \in items : Asks(c, "forecast", i, FALSE, items \ {i}, "quota")
    BY <1>3 DEF AskBatch
  <2>2. PICK rest \in SUBSET Items : rest = items \ {i}
    OBVIOUS
  <2>3. i \in Items \cup {"all"} /\ Asks(c, "forecast", i, FALSE, rest, "quota")
    BY <2>1, <2>2
  <2> QED
    BY <1>1, <2>3, AsksStep
<1>4. ASSUME AskReport(c)
      PROVE  InductiveInv'
  <2> DEFINE none == {}
  <2>1. none \in SUBSET Items /\ Asks(c, "report", "all", FALSE, none, "quota")
    BY <1>4 DEF AskReport
  <2>2. "all" \in Items \cup {"all"}
    OBVIOUS
  <2> HIDE DEF none
  <2> QED
    BY <1>1, <2>1, <2>2, AsksStep
<1> QED
  BY <1>2, <1>3, <1>4

(* A call of which only the stage, the verdict of the lock, the provider   *)
(* or the result changes.                                                  *)
Stages == {"lock", "peek", "quota", "route", "wait", "create", "count", "store", "served"}

LEMMA WorkingType ==
    ASSUME NEW v \in Working
    PROVE  /\ v.blocked \in BOOLEAN /\ v.limited \in BOOLEAN /\ v.via \in 1..2
           /\ v.result \in Result /\ v.kind \in Kinds /\ v.stage \in Stages
BY ProvidersAre DEF Working, Stages

GotoBlocked(c, stage, blocked) ==
    call' = [call EXCEPT ![c].stage = stage, ![c].blocked = blocked]
GotoVia(c, stage, via) == call' = [call EXCEPT ![c].stage = stage, ![c].via = via]
GotoResult(c, stage, result) == call' = [call EXCEPT ![c].stage = stage, ![c].result = result]
GotoViaResult(c, stage, via, result) ==
    call' = [call EXCEPT ![c].stage = stage, ![c].via = via, ![c].result = result]

LEMMA StageMoves ==
    ASSUME TypeOK, NEW c \in Clients, NEW v \in Working, v = call[c],
           NEW stage \in Stages,
           Goto(c, stage)
    PROVE  \E w \in Working :
              /\ Moves(c, w)
              /\ w.stage = stage /\ w.blocked = v.blocked /\ w.via = v.via /\ w.result = v.result
              /\ w.kind = v.kind /\ w.item = v.item /\ w.limited = v.limited /\ w.todo = v.todo
<1>1. PICK w : w = [v EXCEPT !.stage = stage]
  OBVIOUS
<1>2. /\ w \in Working
      /\ w.stage = stage /\ w.blocked = v.blocked /\ w.via = v.via /\ w.result = v.result
      /\ w.kind = v.kind /\ w.item = v.item /\ w.limited = v.limited /\ w.todo = v.todo
  BY <1>1, ProvidersAre DEF Working, Stages
<1>3. Moves(c, w)
  BY <1>1 DEF TypeOK, Moves, Goto
<1> QED
  BY <1>2, <1>3

LEMMA BlockedMoves ==
    ASSUME TypeOK, NEW c \in Clients, NEW v \in Working, v = call[c],
           NEW stage \in Stages, NEW blocked \in BOOLEAN,
           GotoBlocked(c, stage, blocked)
    PROVE  \E w \in Working :
              /\ Moves(c, w)
              /\ w.stage = stage /\ w.blocked = blocked /\ w.via = v.via /\ w.result = v.result
              /\ w.kind = v.kind /\ w.item = v.item /\ w.limited = v.limited /\ w.todo = v.todo
<1>1. PICK w : w = [v EXCEPT !.stage = stage, !.blocked = blocked]
  OBVIOUS
<1>2. /\ w \in Working
      /\ w.stage = stage /\ w.blocked = blocked /\ w.via = v.via /\ w.result = v.result
      /\ w.kind = v.kind /\ w.item = v.item /\ w.limited = v.limited /\ w.todo = v.todo
  BY <1>1, ProvidersAre DEF Working, Stages
<1>3. Moves(c, w)
  BY <1>1 DEF TypeOK, Moves, GotoBlocked
<1> QED
  BY <1>2, <1>3

LEMMA ViaMoves ==
    ASSUME TypeOK, NEW c \in Clients, NEW v \in Working, v = call[c],
           NEW stage \in Stages, NEW via \in 1..2,
           GotoVia(c, stage, via)
    PROVE  \E w \in Working :
              /\ Moves(c, w)
              /\ w.stage = stage /\ w.blocked = v.blocked /\ w.via = via /\ w.result = v.result
              /\ w.kind = v.kind /\ w.item = v.item /\ w.limited = v.limited /\ w.todo = v.todo
<1>1. PICK w : w = [v EXCEPT !.stage = stage, !.via = via]
  OBVIOUS
<1>2. /\ w \in Working
      /\ w.stage = stage /\ w.blocked = v.blocked /\ w.via = via /\ w.result = v.result
      /\ w.kind = v.kind /\ w.item = v.item /\ w.limited = v.limited /\ w.todo = v.todo
  BY <1>1, ProvidersAre DEF Working, Stages
<1>3. Moves(c, w)
  BY <1>1 DEF TypeOK, Moves, GotoVia
<1> QED
  BY <1>2, <1>3

LEMMA ResultMoves ==
    ASSUME TypeOK, NEW c \in Clients, NEW v \in Working, v = call[c],
           NEW stage \in Stages, NEW result \in Result,
           GotoResult(c, stage, result)
    PROVE  \E w \in Working :
              /\ Moves(c, w)
              /\ w.stage = stage /\ w.blocked = v.blocked /\ w.via = v.via /\ w.result = result
              /\ w.kind = v.kind /\ w.item = v.item /\ w.limited = v.limited /\ w.todo = v.todo
<1>1. PICK w : w = [v EXCEPT !.stage = stage, !.result = result]
  OBVIOUS
<1>2. /\ w \in Working
      /\ w.stage = stage /\ w.blocked = v.blocked /\ w.via = v.via /\ w.result = result
      /\ w.kind = v.kind /\ w.item = v.item /\ w.limited = v.limited /\ w.todo = v.todo
  BY <1>1, ProvidersAre DEF Working, Stages
<1>3. Moves(c, w)
  BY <1>1 DEF TypeOK, Moves, GotoResult
<1> QED
  BY <1>2, <1>3

LEMMA ViaResultMoves ==
    ASSUME TypeOK, NEW c \in Clients, NEW v \in Working, v = call[c],
           NEW stage \in Stages, NEW via \in 1..2, NEW result \in Result,
           GotoViaResult(c, stage, via, result)
    PROVE  \E w \in Working :
              /\ Moves(c, w)
              /\ w.stage = stage /\ w.blocked = v.blocked /\ w.via = via /\ w.result = result
              /\ w.kind = v.kind /\ w.item = v.item /\ w.limited = v.limited /\ w.todo = v.todo
<1>1. PICK w : w = [v EXCEPT !.stage = stage, !.via = via, !.result = result]
  OBVIOUS
<1>2. /\ w \in Working
      /\ w.stage = stage /\ w.blocked = v.blocked /\ w.via = via /\ w.result = result
      /\ w.kind = v.kind /\ w.item = v.item /\ w.limited = v.limited /\ w.todo = v.todo
  BY <1>1, ProvidersAre DEF Working, Stages
<1>3. Moves(c, w)
  BY <1>1 DEF TypeOK, Moves, GotoViaResult
<1> QED
  BY <1>2, <1>3

(* Of two that find the lock free, one has set it before the other looks.  *)
LEMMA TakeLockStep ==
    ASSUME InductiveInv, NEW c \in Clients, TakeLock(c)
    PROVE  InductiveInv'
<1>1. PICK v \in Working : v = call[c] /\ v.stage = "lock" /\ CallOK(v)
  BY InvTypes, IdleOrWorking DEF TakeLock, At
<1>2. PICK blocked \in BOOLEAN : blocked = (lock[v.item] = "taken")
  OBVIOUS
<1>3. /\ GotoBlocked(c, "peek", blocked)
      /\ lock' = [lock EXCEPT ![v.item] = "taken"]
      /\ UNCHANGED <<results, used, breaker, history>>
  BY <1>1, <1>2 DEF TakeLock, GotoBlocked
<1>4. PICK w \in Working :
         /\ Moves(c, w)
         /\ w.stage = "peek" /\ w.blocked = blocked
         /\ w.item = v.item /\ w.limited = v.limited /\ w.todo = v.todo
  BY <1>1, <1>3, InvTypes, BlockedMoves DEF Stages
<1>5. OthersTyped
  BY <1>3, InvTypes DEF OthersTyped, results, history, TypeOK
<1>6. CallOK(w) /\ ~Owes(w) /\ ~Counts(w) /\ ~Owes(v) /\ ~Counts(v)
        /\ \A p : ~WaitsFor(w, p)
  BY <1>1, <1>4 DEF CallOK, Owes, Counts, WaitsFor
<1>7. QuotaStep(v, w) /\ CountStep(v, w)
  BY <1>3, <1>6 DEF QuotaStep, CountStep, results, history
<1>8. \A p \in 1..2 : BreakerStep(v, w, p)
  BY <1>3, <1>6, SameBreakers
<1>9. ASSUME NEW i \in Items \ robbed'
      PROVE  LockStep(c, v, w, i)
  <2>1. i \notin robbed /\ lock \in [Items -> {"free", "taken"}]
    BY <1>3, InvTypes DEF history, TypeOK
  <2>2. CASE i = v.item
    BY <1>2, <1>3, <1>4, <2>1, <2>2 DEF LockStep, HoldsIn
  <2>3. CASE i # v.item
    BY <1>3, <1>4, <2>1, <2>3 DEF LockStep, HoldsIn
  <2> QED
    BY <2>2, <2>3
<1> QED
  BY <1>1, <1>4, <1>5, <1>6, <1>7, <1>8, <1>9, MoveKeeps

LEMMA PeekStep ==
    ASSUME InductiveInv, NEW c \in Clients, Peek(c)
    PROVE  InductiveInv'
<1>1. PICK v \in Working : v = call[c] /\ v.stage = "peek" /\ CallOK(v)
  BY InvTypes, IdleOrWorking DEF Peek, At
<1>2. UNCHANGED <<stored, breaker, history>> /\ TypeOK
  BY InvTypes DEF Peek
<1>3. PICK result \in Result : result = Peeked(v.item) /\ result \in {"real", "none"}
  BY DEF Peeked, Result
<1>4. CASE result # "none"
  <2>1. GotoResult(c, "served", result)
    BY <1>1, <1>3, <1>4 DEF Peek, GotoResult
  <2>2. PICK w \in Working :
           /\ Moves(c, w)
           /\ w.stage = "served" /\ w.result = result /\ w.item = v.item
           /\ w.limited = v.limited /\ w.todo = v.todo
    BY <1>1, <1>2, <2>1, ResultMoves DEF Stages
  <2>3. CallOK(w) /\ Lighter(v, w)
    BY <1>1, <2>2 DEF CallOK, Lighter, Owes, Counts, WaitsFor, HoldsIn
  <2> QED
    BY <1>1, <1>2, <1>3, <1>4, <2>2, <2>3, LightMove
<1>5. CASE result = "none" /\ v.blocked
  <2>1. Over(c) /\ call[c].stage \notin {"idle", "count"}
    BY <1>1, <1>3, <1>5 DEF Peek
  <2> QED
    BY <1>2, <2>1, OverStep
<1>6. CASE result = "none" /\ ~v.blocked
  <2>1. Goto(c, "quota")
    BY <1>1, <1>3, <1>6 DEF Peek
  <2>2. PICK w \in Working :
           /\ Moves(c, w)
           /\ w.stage = "quota" /\ w.blocked = v.blocked /\ w.item = v.item
           /\ w.limited = v.limited /\ w.todo = v.todo
    BY <1>1, <1>2, <2>1, StageMoves DEF Stages
  <2>3. CallOK(w) /\ Lighter(v, w)
    BY <1>1, <2>2 DEF CallOK, Lighter, Owes, Counts, WaitsFor, HoldsIn
  <2> QED
    BY <1>1, <1>2, <2>2, <2>3, LightMove
<1> QED
  BY <1>4, <1>5, <1>6

(* Every call in flight but this one may have passed with the same usage.  *)
LEMMA CheckQuotaStep ==
    ASSUME InductiveInv, NEW c \in Clients, CheckQuota(c)
    PROVE  InductiveInv'
<1>1. PICK v \in Working : v = call[c] /\ v.stage = "quota" /\ CallOK(v)
  BY InvTypes, IdleOrWorking DEF CheckQuota, At
<1>2. UNCHANGED <<stored, breaker, history>> /\ TypeOK
  BY InvTypes DEF CheckQuota
<1>3. CASE Over(c)
  BY <1>1, <1>2, <1>3, OverStep
<1>4. CASE WithinQuota(v.kind) /\ Goto(c, "route")
  <2>1. PICK w \in Working :
           /\ Moves(c, w)
           /\ w.stage = "route" /\ w.blocked = v.blocked /\ w.item = v.item /\ w.kind = v.kind
           /\ w.limited = v.limited /\ w.todo = v.todo
    BY <1>1, <1>2, <1>4, StageMoves DEF Stages
  <2>2. OthersTyped /\ UNCHANGED <<lock, created, used, breaker, uncounted, robbed>>
    BY <1>2, SameTyped
  <2>3. QuotaStep(v, w)
    BY <1>4, <2>1, <2>2 DEF QuotaStep, WithinQuota, Owes
  <2>4. CountStep(v, w)
    BY <1>1, <2>1, <2>2 DEF CountStep, Counts
  <2>5. /\ \A p \in 1..2 : BreakerStep(v, w, p)
        /\ \A i \in Items \ robbed' : LockStep(c, v, w, i)
    <3>1. /\ \A p : WaitsFor(w, p) => WaitsFor(v, p)
          /\ \A i : HoldsIn(w, i) => HoldsIn(v, i)
      BY <1>1, <2>1 DEF WaitsFor, HoldsIn
    <3> QED
      BY <2>2, <3>1, SameBreakers, SameLocks
  <2>6. CallOK(w)
    BY <1>1, <2>1 DEF CallOK, Counts
  <2> QED
    BY <1>1, <2>1, <2>2, <2>3, <2>4, <2>5, <2>6, MoveKeeps
<1> QED
  BY <1>1, <1>3, <1>4 DEF CheckQuota

-----------------------------------------------------------------------------
(* The turns of the event loop that ask the breakers.                      *)

LEMMA AskedMeans ==
    ASSUME NEW b \in RawBreaker, Sound(b), NEW a \in Asked(b)
    PROVE  a \in RawBreaker /\ Sound(a) /\ a.failures <= b.failures
<1>1. CASE a = b
  BY <1>1 DEF RawBreaker
<1>2. CASE a = Closed
  BY <1>2, NumbersAssumption DEF RawBreaker, Closed, Sound
<1> QED
  BY <1>1, <1>2 DEF Asked

LEMMA FailedMeans ==
    ASSUME NEW b \in RawBreaker, Sound(b)
    PROVE  Failed(b) \in RawBreaker /\ Sound(Failed(b)) /\ Failed(b).failures = b.failures + 1
BY NumbersAssumption DEF RawBreaker, Failed, Sound

SoundPair(bs) == bs \in [1..2 -> RawBreaker] /\ Sound(bs[1]) /\ Sound(bs[2])

(* What one turn makes of a call v, given the breakers.                    *)
Turned(c, v, w, bs) ==
    /\ Moves(c, w) /\ CallOK(w) /\ w.stage # "served" /\ ~Counts(w)
    /\ Owes(w) => v.kind = "forecast"
    /\ \A i : HoldsIn(w, i) => HoldsIn(v, i)
    /\ SoundPair(breaker')
    /\ \A p \in 1..2 : breaker'[p].failures <= bs[p].failures

LEMMA ExhaustedMeans ==
    ASSUME InductiveInv, NEW c \in Clients, NEW v \in Working, v = call[c],
           v.stage \in {"route", "wait"}, NEW bs, SoundPair(bs), Exhausted(c, bs)
    PROVE  \E w \in {Idle} \cup Working :
              Turned(c, v, w, bs) /\ \A p : ~WaitsFor(w, p)
<1>1. bs[1] \in RawBreaker /\ bs[2] \in RawBreaker /\ 1..2 = {1, 2}
        /\ bs[1].failures \in Nat /\ bs[2].failures \in Nat
  BY ProvidersAre DEF SoundPair, RawBreaker
<1>2. CASE v.kind = "forecast"
  <2>1. PICK g \in Asked(bs[1]), m \in Asked(bs[2]) : breaker' = <<g, m>>
    BY <1>2 DEF Exhausted
  <2>2. /\ g \in RawBreaker /\ Sound(g) /\ g.failures <= bs[1].failures
        /\ m \in RawBreaker /\ Sound(m) /\ m.failures <= bs[2].failures
    BY <1>1, AskedMeans DEF SoundPair
  <2>3. breaker' \in [1..2 -> RawBreaker] /\ breaker'[1] = g /\ breaker'[2] = m
    BY <1>1, <2>1, <2>2
  <2>4. GotoViaResult(c, "create", 1, "baseline")
    BY <1>2 DEF Exhausted, GotoViaResult
  <2>5. PICK w \in Working :
           /\ Moves(c, w)
           /\ w.stage = "create" /\ w.blocked = v.blocked
           /\ w.kind = v.kind /\ w.item = v.item /\ w.limited = v.limited /\ w.todo = v.todo
    BY <2>4, InvTypes, ViaResultMoves DEF Stages, Result
  <2>6. CallOK(w) /\ ~Counts(w) /\ (Owes(w) => v.kind = "forecast")
          /\ (\A i : HoldsIn(w, i) => HoldsIn(v, i)) /\ \A p : ~WaitsFor(w, p)
    BY <2>5, InvTypes DEF CallOK, Counts, Owes, HoldsIn, WaitsFor
  <2>7. SoundPair(breaker') /\ \A p \in 1..2 : breaker'[p].failures <= bs[p].failures
    BY <1>1, <2>2, <2>3 DEF SoundPair
  <2> QED
    BY <2>5, <2>6, <2>7 DEF Turned
<1>3. CASE v.kind # "forecast"
  <2>1. Over(c) /\ breaker' = bs
    BY <1>3 DEF Exhausted
  <2>2. PICK w \in {Idle} \cup Working :
              /\ Moves(c, w) /\ CallOK(w) /\ w.stage # "served"
              /\ ~Owes(w) /\ ~Counts(w)
              /\ \A p : ~WaitsFor(w, p)
              /\ \A i : ~HoldsIn(w, i)
    BY <2>1, OverMeans
  <2>3. \A p \in 1..2 : breaker'[p].failures <= bs[p].failures
    BY <1>1, <2>1
  <2> QED
    BY <2>1, <2>2, <2>3 DEF Turned
<1> QED
  BY <1>2, <1>3

LEMMA InvokeMeans ==
    ASSUME InductiveInv, NEW c \in Clients, NEW v \in Working, v = call[c],
           v.stage \in {"route", "wait"}, NEW bs, SoundPair(bs), NEW q \in 1..2, Invoke(c, q, bs)
    PROVE  \E w \in {Idle} \cup Working :
              Turned(c, v, w, bs) /\ (\A p : WaitsFor(w, p) <=> p = q) /\ breaker' = bs
<1>1. GotoVia(c, "wait", q) /\ breaker' = bs
  BY DEF Invoke, GotoVia
<1>2. PICK w \in Working :
         /\ Moves(c, w)
         /\ w.stage = "wait" /\ w.via = q /\ w.blocked = v.blocked
         /\ w.kind = v.kind /\ w.item = v.item /\ w.limited = v.limited /\ w.todo = v.todo
  BY <1>1, InvTypes, ViaMoves DEF Stages
<1>3. CallOK(w) /\ ~Counts(w) /\ (Owes(w) => v.kind = "forecast")
        /\ (\A i : HoldsIn(w, i) => HoldsIn(v, i)) /\ \A p : WaitsFor(w, p) <=> p = q
  BY <1>2, InvTypes DEF CallOK, Counts, Owes, HoldsIn, WaitsFor
<1>4. \A p \in 1..2 : breaker'[p].failures <= bs[p].failures
  BY <1>1 DEF SoundPair, RawBreaker
<1> QED
  BY <1>1, <1>2, <1>3, <1>4 DEF Turned

(* A provider that is called has a closed breaker.                         *)
LEMMA GeminiMeans ==
    ASSUME InductiveInv, NEW c \in Clients, NEW v \in Working, v = call[c],
           v.stage \in {"route", "wait"}, NEW bs, SoundPair(bs), Gemini(c, bs)
    PROVE  \E w \in {Idle} \cup Working :
              /\ Turned(c, v, w, bs) /\ ~WaitsFor(w, 1)
              /\ WaitsFor(w, 2) => breaker'[2].failures < Threshold
<1>1. bs[1] \in RawBreaker /\ bs[2] \in RawBreaker /\ 1..2 = {1, 2}
        /\ bs[1].failures \in Nat /\ bs[2].failures \in Nat
  BY ProvidersAre DEF SoundPair, RawBreaker
<1>2. PICK b \in Asked(bs[2]) :
         IF b.gate = "closed" THEN Invoke(c, 2, [bs EXCEPT ![2] = b])
                              ELSE Exhausted(c, [bs EXCEPT ![2] = b])
  BY DEF Gemini
<1>3. b \in RawBreaker /\ Sound(b) /\ b.failures <= bs[2].failures /\ b.failures \in Nat
  BY <1>1, AskedMeans DEF SoundPair, RawBreaker
<1>4. PICK asked : asked = [bs EXCEPT ![2] = b]
  OBVIOUS
<1>5. /\ SoundPair(asked) /\ asked[2] = b /\ asked[1] = bs[1]
      /\ asked[1].failures <= bs[1].failures /\ asked[2].failures <= bs[2].failures
      /\ asked[1].failures \in Nat /\ asked[2].failures \in Nat
  BY <1>1, <1>3, <1>4 DEF SoundPair
<1>6. ASSUME NEW w, Turned(c, v, w, asked)
      PROVE  Turned(c, v, w, bs)
  BY <1>1, <1>5, <1>6 DEF Turned, SoundPair, RawBreaker
<1>7. CASE b.gate = "closed"
  <2>1. Invoke(c, 2, asked)
    BY <1>2, <1>4, <1>7
  <2>2. PICK w \in {Idle} \cup Working :
           Turned(c, v, w, asked) /\ (\A p : WaitsFor(w, p) <=> p = 2) /\ breaker' = asked
    BY <1>1, <1>5, <2>1, InvokeMeans
  <2>3. breaker'[2].failures < Threshold
    BY <1>3, <1>5, <1>7, <2>2 DEF Sound
  <2> QED
    BY <1>6, <2>2, <2>3
<1>8. CASE b.gate # "closed"
  <2>1. Exhausted(c, asked)
    BY <1>2, <1>4, <1>8
  <2>2. PICK w \in {Idle} \cup Working :
           Turned(c, v, w, asked) /\ \A p : ~WaitsFor(w, p)
    BY <1>5, <2>1, ExhaustedMeans
  <2> QED
    BY <1>6, <2>2
<1> QED
  BY <1>7, <1>8

LEMMA StoredSame ==
    ASSUME InductiveInv, UNCHANGED <<stored, history>>, SoundPair(breaker')
    PROVE  /\ OthersTyped
           /\ lock' = lock /\ created' = created /\ used' = used
           /\ uncounted' = uncounted /\ robbed' = robbed
BY InvTypes DEF OthersTyped, stored, results, history, TypeOK, SoundPair

(* A turn that leaves the breakers within their bound.                     *)
LEMMA TurnKeeps ==
    ASSUME InductiveInv, NEW c \in Clients, NEW v \in Working, v = call[c],
           v.stage \in {"route", "wait"}, NEW w \in {Idle} \cup Working, NEW bs,
           Turned(c, v, w, bs), UNCHANGED <<stored, history>>,
           \A p \in 1..2 : BreakerStep(v, w, p)
    PROVE  InductiveInv'
<1>1. OthersTyped /\ lock' = lock /\ created' = created /\ used' = used
        /\ uncounted' = uncounted /\ robbed' = robbed
  BY StoredSame DEF Turned
<1>2. QuotaStep(v, w) /\ CountStep(v, w)
  BY <1>1 DEF Turned, QuotaStep, CountStep, Owes, Counts
<1>3. \A i \in Items \ robbed' : LockStep(c, v, w, i)
  BY <1>1, SameLocks DEF Turned
<1> QED
  BY <1>1, <1>2, <1>3, MoveKeeps DEF Turned

LEMMA RouteStep ==
    ASSUME InductiveInv, NEW c \in Clients, Route(c)
    PROVE  InductiveInv'
<1>1. PICK v \in Working : v = call[c] /\ v.stage = "route"
  BY InvTypes, IdleOrWorking DEF Route, At
<1>2. SoundPair(breaker) /\ 1..2 = {1, 2}
        /\ breaker[1].failures \in Nat /\ breaker[2].failures \in Nat
  BY InvTypes, ProvidersAre DEF SoundPair, RawBreaker
<1>3. PICK b \in Asked(breaker[1]) :
         IF b.gate = "closed" THEN Invoke(c, 1, [breaker EXCEPT ![1] = b])
                              ELSE Gemini(c, [breaker EXCEPT ![1] = b])
  BY DEF Route, Groq
<1>4. b \in RawBreaker /\ Sound(b) /\ b.failures <= breaker[1].failures /\ b.failures \in Nat
  BY <1>2, AskedMeans DEF SoundPair, RawBreaker
<1>5. PICK asked : asked = [breaker EXCEPT ![1] = b]
  OBVIOUS
<1>6. /\ SoundPair(asked) /\ asked[1] = b /\ asked[2] = breaker[2]
      /\ asked[1].failures \in Nat /\ asked[2].failures \in Nat
  BY <1>2, <1>4, <1>5 DEF SoundPair
<1>7. UNCHANGED <<stored, history>>
  BY DEF Route
<1>8. CASE b.gate = "closed"
  <2>1. Invoke(c, 1, asked)
    BY <1>3, <1>5, <1>8
  <2>2. PICK w \in {Idle} \cup Working :
           Turned(c, v, w, asked) /\ (\A p : WaitsFor(w, p) <=> p = 1) /\ breaker' = asked
    BY <1>1, <1>2, <1>6, <2>1, InvokeMeans
  <2>3. \A p \in 1..2 : BreakerStep(v, w, p)
    BY <1>2, <1>4, <1>6, <1>8, <2>2 DEF BreakerStep, SoundPair, Sound
  <2> QED
    BY <1>1, <1>7, <2>2, <2>3, TurnKeeps
<1>9. CASE b.gate # "closed"
  <2>1. Gemini(c, asked)
    BY <1>3, <1>5, <1>9
  <2>2. PICK w \in {Idle} \cup Working :
           /\ Turned(c, v, w, asked) /\ ~WaitsFor(w, 1)
           /\ WaitsFor(w, 2) => breaker'[2].failures < Threshold
    BY <1>1, <1>6, <2>1, GeminiMeans
  <2>3. SoundPair(breaker') /\ breaker'[1].failures <= asked[1].failures
          /\ breaker'[2].failures <= asked[2].failures
          /\ breaker'[1].failures \in Nat /\ breaker'[2].failures \in Nat
    BY <1>2, <2>2 DEF Turned, SoundPair, RawBreaker
  <2>4. BreakerStep(v, w, 1)
    BY <1>2, <1>4, <1>6, <2>2, <2>3 DEF BreakerStep, SoundPair
  <2>5. BreakerStep(v, w, 2)
    BY <1>2, <1>6, <2>2, <2>3 DEF BreakerStep, SoundPair
  <2> QED
    BY <1>1, <1>2, <1>7, <2>2, <2>4, <2>5, TurnKeeps
<1> QED
  BY <1>8, <1>9

LEMMA ProviderAnswersStep ==
    ASSUME InductiveInv, NEW c \in Clients, ProviderAnswers(c)
    PROVE  InductiveInv'
<1>1. PICK v \in Working : v = call[c] /\ v.stage = "wait" /\ v.via \in 1..2 /\ CallOK(v)
  BY InvTypes, IdleOrWorking, WorkingType DEF ProviderAnswers, At
<1>2. SoundPair(breaker) /\ 1..2 = {1, 2}
        /\ breaker[1].failures \in Nat /\ breaker[2].failures \in Nat
  BY InvTypes, ProvidersAre DEF SoundPair, RawBreaker
<1>3. /\ breaker' = [breaker EXCEPT ![v.via] = Closed] /\ UNCHANGED <<stored, history>>
      /\ GotoViaResult(c, "create", 1, "real")
  BY <1>1 DEF ProviderAnswers, GotoViaResult
<1>4. PICK w \in Working :
         /\ Moves(c, w)
         /\ w.stage = "create" /\ w.blocked = v.blocked
         /\ w.kind = v.kind /\ w.item = v.item /\ w.limited = v.limited /\ w.todo = v.todo
  BY <1>1, <1>2, <1>3, InvTypes, ViaResultMoves DEF Stages, Result
<1>5. CallOK(w) /\ ~Counts(w) /\ (Owes(w) => v.kind = "forecast")
        /\ (\A i : HoldsIn(w, i) => HoldsIn(v, i)) /\ \A p : ~WaitsFor(w, p)
  BY <1>1, <1>4 DEF CallOK, Counts, Owes, HoldsIn, WaitsFor
<1>6. Closed \in RawBreaker /\ Sound(Closed) /\ Closed.failures = 0 /\ 0 < Threshold
  BY NumbersAssumption DEF Closed, RawBreaker, Sound
<1>7. SoundPair(breaker') /\ \A p \in 1..2 : breaker'[p].failures <= breaker[p].failures
  BY <1>1, <1>2, <1>3, <1>6 DEF SoundPair
<1>8. \A p \in 1..2 : BreakerStep(v, w, p)
  BY <1>2, <1>5, <1>7 DEF BreakerStep, SoundPair
<1>9. Turned(c, v, w, breaker)
  BY <1>4, <1>5, <1>7 DEF Turned
<1> QED
  BY <1>1, <1>3, <1>4, <1>8, <1>9, TurnKeeps

(* A failure is counted when the call that waited no longer does.          *)
LEMMA ProviderFailsStep ==
    ASSUME InductiveInv, NEW c \in Clients, ProviderFails(c)
    PROVE  InductiveInv'
<1>1. PICK v \in Working : v = call[c] /\ v.stage = "wait" /\ v.via \in 1..2
  BY InvTypes, IdleOrWorking, WorkingType DEF ProviderFails, At
<1>2. SoundPair(breaker) /\ 1..2 = {1, 2}
        /\ breaker[1].failures \in Nat /\ breaker[2].failures \in Nat
  BY InvTypes, ProvidersAre DEF SoundPair, RawBreaker
<1>3. PICK failed : failed = [breaker EXCEPT ![v.via] = Failed(breaker[v.via])]
  OBVIOUS
<1>4. /\ SoundPair(failed) /\ failed[v.via].failures = breaker[v.via].failures + 1
      /\ \A p \in 1..2 \ {v.via} : failed[p] = breaker[p]
      /\ failed[1].failures \in Nat /\ failed[2].failures \in Nat
  <2>1. /\ Failed(breaker[v.via]) \in RawBreaker /\ Sound(Failed(breaker[v.via]))
        /\ Failed(breaker[v.via]).failures = breaker[v.via].failures + 1
    BY <1>1, <1>2, FailedMeans DEF SoundPair
  <2>2. failed \in [1..2 -> RawBreaker] /\ failed[v.via] = Failed(breaker[v.via])
          /\ \A p \in 1..2 \ {v.via} : failed[p] = breaker[p]
    BY <1>1, <1>2, <1>3, <2>1 DEF SoundPair
  <2>3. Sound(failed[1]) /\ Sound(failed[2])
    BY <1>1, <1>2, <2>1, <2>2 DEF SoundPair
  <2> QED
    BY <1>2, <2>1, <2>2, <2>3 DEF SoundPair, RawBreaker
<1>5. (IF v.via = 1 THEN Gemini(c, failed) ELSE Exhausted(c, failed))
        /\ UNCHANGED <<stored, history>>
  BY <1>1, <1>3 DEF ProviderFails
<1>6. ASSUME NEW w, Turned(c, v, w, failed), ~WaitsFor(w, v.via),
             v.via = 1 => (WaitsFor(w, 2) => breaker'[2].failures < Threshold),
             v.via = 2 => ~WaitsFor(w, 1)
      PROVE  \A p \in 1..2 : BreakerStep(v, w, p)
  <2>1. /\ SoundPair(breaker')
        /\ breaker'[1].failures <= failed[1].failures /\ breaker'[1].failures \in Nat
        /\ breaker'[2].failures <= failed[2].failures /\ breaker'[2].failures \in Nat
    BY <1>2, <1>6 DEF Turned, SoundPair, RawBreaker
  <2>2. CASE v.via = 1
    <3>1. BreakerStep(v, w, 1)
      BY <1>1, <1>4, <1>6, <2>1, <2>2 DEF BreakerStep, SoundPair, WaitsFor
    <3>2. failed[2] = breaker[2]
      BY <1>2, <1>4, <2>2
    <3>3. BreakerStep(v, w, 2)
      BY <1>6, <2>1, <2>2, <3>2 DEF BreakerStep, SoundPair
    <3> QED
      BY <1>2, <3>1, <3>3
  <2>3. CASE v.via = 2
    <3>1. BreakerStep(v, w, 2)
      BY <1>1, <1>4, <1>6, <2>1, <2>3 DEF BreakerStep, SoundPair, WaitsFor
    <3>2. failed[1] = breaker[1]
      BY <1>2, <1>4, <2>3
    <3>3. BreakerStep(v, w, 1)
      BY <1>6, <2>1, <2>3, <3>2 DEF BreakerStep, SoundPair
    <3> QED
      BY <1>2, <3>1, <3>3
  <2> QED
    BY <1>1, <1>2, <2>2, <2>3
<1>7. CASE v.via = 1
  <2>1. PICK w \in {Idle} \cup Working :
           /\ Turned(c, v, w, failed) /\ ~WaitsFor(w, 1)
           /\ WaitsFor(w, 2) => breaker'[2].failures < Threshold
    BY <1>1, <1>4, <1>5, <1>7, GeminiMeans
  <2>2. \A p \in 1..2 : BreakerStep(v, w, p)
    BY <1>6, <1>7, <2>1
  <2> QED
    BY <1>1, <1>5, <2>1, <2>2, TurnKeeps
<1>8. CASE v.via = 2
  <2>0. Exhausted(c, failed) /\ v.stage \in {"route", "wait"}
    BY <1>1, <1>5, <1>8
  <2>1. PICK w \in {Idle} \cup Working :
           Turned(c, v, w, failed) /\ \A p : ~WaitsFor(w, p)
    BY <1>1, <1>4, <2>0, ExhaustedMeans
  <2>2. \A p \in 1..2 : BreakerStep(v, w, p)
    BY <1>6, <1>8, <2>1
  <2> QED
    BY <1>1, <1>5, <2>1, <2>2, TurnKeeps
<1> QED
  BY <1>1, <1>2, <1>7, <1>8

-----------------------------------------------------------------------------
(* The result is stored and counted, or the call dies.                     *)

LEMMA NumbersType ==
    ASSUME TypeOK
    PROVE  /\ created \in Nat /\ used \in Nat /\ uncounted \in Nat
           /\ MaxForecasts \in Nat /\ MaxUncounted \in Nat
BY NumbersAssumption DEF TypeOK

LEMMA CreateStep ==
    ASSUME InductiveInv, NEW c \in Clients, Create(c)
    PROVE  InductiveInv'
<1>1. PICK v \in Working : v = call[c] /\ v.stage = "create" /\ v.result \in Result /\ CallOK(v)
  BY InvTypes, IdleOrWorking, WorkingType DEF Create, At
<1>2. UNCHANGED <<lock, cache, used, breaker, history>> /\ TypeOK
  BY InvTypes DEF Create
<1>3. CASE v.kind = "forecast"
  <2>1. /\ created < MaxForecasts /\ created' = created + 1 /\ Goto(c, "count")
        /\ latest' = [latest EXCEPT ![v.item] = v.result]
    BY <1>1, <1>3 DEF Create
  <2>2. OthersTyped
    <3>1. created' \in 0..MaxForecasts
      BY <1>2, <2>1, NumbersType
    <3>2. latest' \in [Items -> Result]
      BY <1>1, <1>2, <2>1 DEF TypeOK
    <3> QED
      BY <1>2, <3>1, <3>2, InvTypes DEF OthersTyped, history, TypeOK
  <2>3. PICK w \in Working :
           /\ Moves(c, w)
           /\ w.stage = "count" /\ w.blocked = v.blocked
           /\ w.kind = v.kind /\ w.item = v.item /\ w.limited = v.limited /\ w.todo = v.todo
    BY <1>1, <1>2, <2>1, StageMoves DEF Stages
  <2>4. /\ CallOK(w) /\ Owes(v) /\ Counts(w) /\ ~Counts(v)
        /\ (\A p : WaitsFor(w, p) => WaitsFor(v, p))
        /\ \A i : HoldsIn(w, i) => HoldsIn(v, i)
    BY <1>1, <1>3, <2>3 DEF CallOK, Owes, Counts, WaitsFor, HoldsIn
  <2>5. QuotaStep(v, w) /\ CountStep(v, w)
    BY <1>2, <2>1, <2>4 DEF QuotaStep, CountStep, history
  <2>6. \A p \in 1..2 : BreakerStep(v, w, p)
    BY <1>2, <2>4, SameBreakers
  <2>7. \A i \in Items \ robbed' : LockStep(c, v, w, i)
    BY <1>2, <2>4, SameLocks DEF history
  <2>8. w.stage # "served"
    BY <2>3
  <2> QED
    BY <1>1, <2>2, <2>3, <2>4, <2>5, <2>6, <2>7, <2>8, MoveKeeps
<1>4. CASE v.kind # "forecast"
  <2>1. Over(c) /\ UNCHANGED <<created, latest>>
    BY <1>1, <1>4 DEF Create
  <2>2. UNCHANGED <<stored, breaker, history>> /\ call[c].stage \notin {"idle", "count"}
    BY <1>1, <1>2, <2>1 DEF stored, results
  <2> QED
    BY <2>1, <2>2, OverStep
<1> QED
  BY <1>3, <1>4

LEMMA CountForecastStep ==
    ASSUME InductiveInv, NEW c \in Clients, Count(c)
    PROVE  InductiveInv'
<1>1. PICK v \in Working : v = call[c] /\ v.stage = "count" /\ CallOK(v)
  BY InvTypes, IdleOrWorking DEF Count, At
<1>2. /\ UNCHANGED <<lock, results, breaker, history>> /\ TypeOK
      /\ used' = used + 1 /\ Goto(c, "store")
  BY InvTypes DEF Count
<1>3. OthersTyped
  BY <1>2, InvTypes, NumbersType DEF OthersTyped, results, history, TypeOK
<1>4. PICK w \in Working :
         /\ Moves(c, w)
         /\ w.stage = "store" /\ w.blocked = v.blocked
         /\ w.kind = v.kind /\ w.item = v.item /\ w.limited = v.limited /\ w.todo = v.todo
  BY <1>1, <1>2, StageMoves DEF Stages
<1>5. /\ CallOK(w) /\ Owes(v) /\ ~Owes(w) /\ Counts(v) /\ ~Counts(w)
      /\ (\A p : WaitsFor(w, p) => WaitsFor(v, p))
      /\ \A i : HoldsIn(w, i) => HoldsIn(v, i)
  BY <1>1, <1>4 DEF CallOK, Owes, Counts, WaitsFor, HoldsIn
<1>6. QuotaStep(v, w)
  BY <1>2, <1>5 DEF QuotaStep
<1>7. CountStep(v, w)
  <2>1. used' + uncounted' = used + uncounted + 1
    BY <1>2, NumbersType DEF history
  <2> QED
    BY <1>2, <1>5, <2>1 DEF CountStep, results
<1>8. \A p \in 1..2 : BreakerStep(v, w, p)
  BY <1>2, <1>5, SameBreakers
<1>9. \A i \in Items \ robbed' : LockStep(c, v, w, i)
  BY <1>2, <1>5, SameLocks DEF history
<1>10. w.stage # "served"
  BY <1>4
<1> QED
  BY <1>1, <1>3, <1>4, <1>5, <1>6, <1>7, <1>8, <1>9, <1>10, MoveKeeps

(* A baseline that deletes the lock of another call robs the item.         *)
LEMMA StoreStep ==
    ASSUME InductiveInv, NEW c \in Clients, Store(c)
    PROVE  InductiveInv'
<1>1. PICK v \in Working : v = call[c] /\ v.stage = "store" /\ v.result \in Result
  BY InvTypes, IdleOrWorking, WorkingType DEF Store, At
<1>2. UNCHANGED <<latest, created, used, breaker, uncounted>> /\ TypeOK /\ Over(c)
  BY InvTypes DEF Store
<1>3. \/ /\ lock' = [lock EXCEPT ![v.item] = "free"] /\ UNCHANGED cache
         /\ robbed' = IF \E d \in Clients \ {c} : Holds(d, v.item) THEN robbed \cup {v.item}
                      ELSE robbed
      \/ cache' = [cache EXCEPT ![v.item] = v.result] /\ UNCHANGED <<lock, robbed>>
  BY <1>1 DEF Store
<1>4. PICK w \in {Idle} \cup Working :
            /\ Moves(c, w) /\ CallOK(w) /\ w.stage # "served"
            /\ ~Owes(w) /\ ~Counts(w)
            /\ \A p : ~WaitsFor(w, p)
            /\ \A i : ~HoldsIn(w, i)
  BY <1>1, <1>2, OverMeans
<1>5. v.item \in Items \/ robbed' \subseteq robbed
  <2>1. ASSUME NEW d \in Clients, Holds(d, v.item)
        PROVE  v.item \in Items
    BY <2>1, InvTypes DEF Holds, CallOK
  <2> QED
    BY <1>3, <2>1
<1>6. OthersTyped
  BY <1>1, <1>2, <1>3, <1>5, InvTypes DEF OthersTyped, TypeOK
<1>7. QuotaStep(v, w) /\ CountStep(v, w)
  BY <1>1, <1>2, <1>4 DEF QuotaStep, CountStep, Counts
<1>8. \A p \in 1..2 : BreakerStep(v, w, p)
  BY <1>2, <1>4, SameBreakers
<1>9. ASSUME NEW i \in Items \ robbed'
      PROVE  LockStep(c, v, w, i)
  <2>1. i \notin robbed
    BY <1>3
  <2>2. CASE lock'[i] = lock[i]
    BY <1>4, <2>1, <2>2 DEF LockStep
  <2>3. CASE lock'[i] # lock[i]
    <3>1. i = v.item
      BY <1>2, <1>3, <2>3 DEF TypeOK
    <3>2. \A d \in Clients \ {c} : ~Holds(d, i)
      BY <1>3, <2>3, <3>1
    <3> QED
      BY <1>4, <2>1, <3>2 DEF LockStep
  <2> QED
    BY <2>2, <2>3
<1> QED
  BY <1>1, <1>4, <1>6, <1>7, <1>8, <1>9, MoveKeeps

LEMMA DiesStep ==
    ASSUME InductiveInv, NEW c \in Clients, Dies(c)
    PROVE  InductiveInv'
<1>1. PICK v \in Working : v = call[c]
  BY InvTypes, IdleOrWorking DEF Dies
<1>2. /\ UNCHANGED <<stored, breaker, robbed>> /\ TypeOK /\ Over(c)
      /\ uncounted' = uncounted + (IF Counts(v) THEN 1 ELSE 0) /\ uncounted' <= MaxUncounted
      /\ call[c].stage # "idle"
  BY <1>1, InvTypes DEF Dies, At, Counts
<1>3. PICK w \in {Idle} \cup Working :
            /\ Moves(c, w) /\ CallOK(w) /\ w.stage # "served"
            /\ ~Owes(w) /\ ~Counts(w)
            /\ \A p : ~WaitsFor(w, p)
            /\ \A i : ~HoldsIn(w, i)
  BY <1>2, OverMeans
<1>4. OthersTyped
  <2>1. uncounted' \in 0..MaxUncounted
    BY <1>2, NumbersType
  <2> QED
    BY <1>2, <2>1, InvTypes DEF OthersTyped, stored, results, TypeOK
<1>5. QuotaStep(v, w)
  BY <1>2, <1>3 DEF QuotaStep, stored
<1>6. CountStep(v, w)
  <2>1. CASE Counts(v)
    <3>1. used' + uncounted' = used + uncounted + 1
      BY <1>2, <2>1, NumbersType DEF stored
    <3> QED
      BY <1>2, <1>3, <2>1, <3>1 DEF CountStep, stored, results
  <2>2. CASE ~Counts(v)
    <3>1. uncounted' = uncounted
      BY <1>2, <2>2, NumbersType
    <3> QED
      BY <1>2, <1>3, <2>2, <3>1 DEF CountStep, stored, results
  <2> QED
    BY <2>1, <2>2
<1>7. \A p \in 1..2 : BreakerStep(v, w, p)
  BY <1>2, <1>3, SameBreakers
<1>8. \A i \in Items \ robbed' : LockStep(c, v, w, i)
  BY <1>2, <1>3, SameLocks DEF stored
<1> QED
  BY <1>1, <1>3, <1>4, <1>5, <1>6, <1>7, <1>8, MoveKeeps

-----------------------------------------------------------------------------
(* Steps of no call.                                                       *)

LEMMA CallsSame ==
    ASSUME InductiveInv, UNCHANGED <<call, created, used, breaker, history>>,
           lock' \in [Items -> {"free", "taken"}],
           cache' \in [Items -> Result], latest' \in [Items -> Result],
           \A i \in Items \ robbed : Holders(i) # {} => lock'[i] = "taken"
    PROVE  InductiveInv'
<1> USE DEF InductiveInv, UsageCounted, CallsContained, history
<1>1. TypeOK'
  BY DEF TypeOK
<1>2. RepeatedIsReal' /\ UsageWithinQuota' /\ UsageCountsForecasts' /\ CallsOK'
  BY DEF RepeatedIsReal, UsageWithinQuota, Unpaid, UsageCountsForecasts, At, CallsOK
<1>3. OutageIsBounded' /\ OneCallPerItem'
  BY DEF OutageIsBounded, Waiting, At, OneCallPerItem, Holds
<1>4. LocksHeld'
  BY DEF LocksHeld, Holders, Holds
<1> QED
  BY <1>1, <1>2, <1>3, <1>4

LEMMA TimeStep ==
    ASSUME InductiveInv, NEW i \in Items, LockExpires(i) \/ Expire(i)
    PROVE  InductiveInv'
<1>1. TypeOK /\ LocksHeld
  BY InvTypes DEF InductiveInv
<1>2. CASE LockExpires(i)
  <2>1. /\ UNCHANGED <<call, cache, latest, created, used, breaker, history>>
        /\ lock' = [lock EXCEPT ![i] = "free"] /\ Holders(i) = {}
    BY <1>2 DEF LockExpires, results, Holders
  <2>2. lock' \in [Items -> {"free", "taken"}] /\ \A j \in Items \ {i} : lock'[j] = lock[j]
    BY <1>1, <2>1 DEF TypeOK
  <2>3. \A j \in Items \ robbed : Holders(j) # {} => lock'[j] = "taken"
    BY <1>1, <2>1, <2>2 DEF LocksHeld
  <2> QED
    BY <1>1, <2>1, <2>2, <2>3, CallsSame DEF TypeOK
<1>3. CASE Expire(i)
  <2>1. /\ UNCHANGED <<call, lock, created, used, breaker, history>>
        /\ cache' \in [Items -> Result] /\ latest' \in [Items -> Result]
        /\ lock' \in [Items -> {"free", "taken"}]
    BY <1>1, <1>3 DEF Expire, TypeOK, Result
  <2>2. \A j \in Items \ robbed : Holders(j) # {} => lock'[j] = "taken"
    BY <1>1, <2>1 DEF LocksHeld
  <2> QED
    BY <2>1, <2>2, CallsSame
<1> QED
  BY <1>2, <1>3

LEMMA StutterInv ==
    ASSUME InductiveInv, UNCHANGED vars
    PROVE  InductiveInv'
<1>1. UNCHANGED <<call, lock, cache, latest, created, used, breaker, history>>
  BY DEF vars, history
<1>2. TypeOK /\ LocksHeld
  BY InvTypes DEF InductiveInv
<1> QED
  BY <1>1, <1>2, CallsSame DEF TypeOK, LocksHeld

LEMMA InitInv ==
    ASSUME Init
    PROVE  InductiveInv
<1> USE DEF Init
<1>1. Cardinality(Clients) \in Nat /\ Cardinality(Clients) >= 1
        /\ Threshold \in Nat /\ Threshold >= 1 /\ Cap \in Nat
        /\ MaxForecasts \in Nat /\ MaxUncounted \in Nat
  <2> DEFINE none == {}
  <2>1. none \in SUBSET Clients
    OBVIOUS
  <2> HIDE DEF none
  <2> QED
    BY <2>1, ClientsCount, NumbersAssumption
<1>2. \A c \in Clients : call[c] = Idle /\ call[c].stage = "idle"
  BY DEF Idle
<1>3. TypeOK
  <2>1. breaker \in [DOMAIN Providers -> Breaker]
    BY <1>1 DEF Breaker
  <2> QED
    BY <1>1, <2>1 DEF TypeOK, Result
<1>4. /\ Unpaid = {} /\ Counting = {}
      /\ \A p : Waiters(p) = {}
      /\ \A i : Holders(i) = {}
  BY <1>2 DEF Unpaid, Counting, Waiters, Holders, Holds, At
<1>5. Cardinality({}) = 0
  BY FS_EmptySet
<1>6. UsageWithinQuota
  BY <1>1, <1>4, <1>5 DEF UsageWithinQuota
<1>7. UsageCountsForecasts
  BY <1>4, <1>5 DEF UsageCountsForecasts, Counting
<1>8. OutageIsBounded
  <2> SUFFICES ASSUME NEW p \in DOMAIN Providers
               PROVE  /\ breaker[p].failures + Cardinality(Waiters(p))
                           <= Threshold - 1 + Cardinality(Clients)
                      /\ breaker[p].gate = "closed" => breaker[p].failures < Threshold
    BY DEF OutageIsBounded, Waiting, Waiters
  <2>1. breaker[p].failures = 0 /\ Cardinality(Waiters(p)) = 0
    BY <1>4, <1>5
  <2> QED
    BY <1>1, <2>1
<1>9. OneCallPerItem /\ LocksHeld
  BY <1>4, <1>5 DEF OneCallPerItem, LocksHeld, Holders
<1>10. RepeatedIsReal /\ CallsOK
  BY <1>2 DEF RepeatedIsReal, At, CallsOK, CallOK, Counts
<1> QED
  BY <1>3, <1>6, <1>7, <1>8, <1>9, <1>10 DEF InductiveInv, UsageCounted, CallsContained

LEMMA StepInv ==
    ASSUME InductiveInv, [Next]_vars
    PROVE  InductiveInv'
<1>1. ASSUME NEW c \in Clients,
             \/ \E i \in Items : AskOne(c, i)
             \/ \E items \in SUBSET Items : AskBatch(c, items)
             \/ AskReport(c)
      PROVE  InductiveInv'
  BY <1>1, BeginSteps
<1>2. ASSUME NEW c \in Clients,
             \/ Deliver(c)
             \/ TakeLock(c) \/ Peek(c) \/ CheckQuota(c)
             \/ Route(c) \/ ProviderAnswers(c) \/ ProviderFails(c)
             \/ Create(c) \/ Count(c) \/ Store(c) \/ Dies(c)
      PROVE  InductiveInv'
  <2>1. CASE Deliver(c)
    <3>1. /\ call[c].stage \notin {"idle", "count"} /\ Over(c)
          /\ UNCHANGED <<stored, breaker, history>>
      BY <2>1 DEF Deliver, At
    <3> QED
      BY <3>1, OverStep
  <2>2. CASE TakeLock(c)
    BY <2>2, TakeLockStep
  <2>3. CASE Peek(c)
    BY <2>3, PeekStep
  <2>4. CASE CheckQuota(c)
    BY <2>4, CheckQuotaStep
  <2>5. CASE Route(c)
    BY <2>5, RouteStep
  <2>6. CASE ProviderAnswers(c)
    BY <2>6, ProviderAnswersStep
  <2>7. CASE ProviderFails(c)
    BY <2>7, ProviderFailsStep
  <2>8. CASE Create(c)
    BY <2>8, CreateStep
  <2>9. CASE Count(c)
    BY <2>9, CountForecastStep
  <2>10. CASE Store(c)
    BY <2>10, StoreStep
  <2>11. CASE Dies(c)
    BY <2>11, DiesStep
  <2> QED
    BY <1>2, <2>1, <2>2, <2>3, <2>4, <2>5, <2>6, <2>7, <2>8, <2>9, <2>10, <2>11
<1>3. ASSUME NEW i \in Items, LockExpires(i) \/ Expire(i)
      PROVE  InductiveInv'
  BY <1>3, TimeStep
<1>4. CASE UNCHANGED vars
  BY <1>4, StutterInv
<1> QED
  BY <1>1, <1>2, <1>3, <1>4 DEF Next

-----------------------------------------------------------------------------
(***************************************************************************)
(* The numbers of a forecast.  A sum of natural numbers is a number of     *)
(* pairs, so sums grow with their summands; rounded quotients grow with    *)
(* what is divided; the levels of the smoothing exist and stay between the *)
(* least and the largest day.  With these every response is sound, and     *)
(* what is read of a horizon that is over stays what it consumed.          *)
(***************************************************************************)
(* The sizes these modules speak of are sizes.                             *)
LEMMA NumSizes ==
    /\ \A S : Num!IsFiniteSet(S) = IsFiniteSet(S)
    /\ \A S : Num!Cardinality(S) = Cardinality(S)
<1>1. \A S : Num!IsFiniteSet(S) = IsFiniteSet(S)
  BY DEF Num!IsFiniteSet, IsFiniteSet
<1>2. \A S : Num!Cardinality(S) = Cardinality(S)
  BY DEF Num!Cardinality, Cardinality
<1>. QED  BY <1>1, <1>2

-----------------------------------------------------------------------------
(* Sums of natural numbers, which count pairs.                             *)

LEMMA LeastOf ==
    ASSUME NEW T \in SUBSET Nat, T # {}
    PROVE  \E m \in T : \A n \in T : m <= n
<1> DEFINE R == OpToRel(<, Nat)
<1>1. \A m, n \in Nat : <<m, n>> \in R <=> m < n
  BY DEF OpToRel
<1>2. IsWellFoundedOn(R, Nat)
  BY NatLessThanWellFounded
<1> HIDE DEF R
<1>3. PICK m \in T : \A n \in T : ~ (<<n, m>> \in R)
  BY <1>2, WFMin
<1>4. \A n \in T : ~ (n < m)
  BY <1>1, <1>3
<1>. QED  BY <1>4

LEMMA SumIs == \A f : Num!Sum(f) = Cardinality(Num!Units(f))
<1> SUFFICES ASSUME NEW f PROVE Num!Sum(f) = Cardinality(Num!Units(f))
  OBVIOUS
<1>. QED  BY NumSizes DEF Num!Sum

LEMMA UnitsAre ==
    ASSUME NEW f
    PROVE  \A p : p \in Num!Units(f) <=> \E x \in DOMAIN f : \E u \in 1..f[x] : p = <<x, u>>
BY DEF Num!Units

LEMMA SumNat ==
    ASSUME NEW f, IsFiniteSet(DOMAIN f), \A x \in DOMAIN f : f[x] \in Nat
    PROVE  IsFiniteSet(Num!Units(f)) /\ Num!Sum(f) \in Nat
<1> DEFINE Column == [x \in DOMAIN f |-> {x} \X (1..f[x])]
           Columns == {{x} \X (1..f[x]) : x \in DOMAIN f}
<1>1. Column \in Surjection(DOMAIN f, Columns)
  BY DEF Surjection
<1>2. IsFiniteSet(Columns)
  <2> HIDE DEF Column, Columns
  <2>. QED  BY <1>1, FS_Surjection
<1>3. ASSUME NEW x \in DOMAIN f
      PROVE  IsFiniteSet({x} \X (1..f[x]))
  <2>1. IsFiniteSet({x})
    BY FS_Singleton
  <2>2. 1 \in Int /\ f[x] \in Int
    OBVIOUS
  <2>3. IsFiniteSet(1..f[x])
    BY <2>2, FS_Interval
  <2>. QED  BY <2>1, <2>3, FS_Product
<1>4. \A T \in Columns : IsFiniteSet(T)
  BY <1>3
<1>5. IsFiniteSet(Num!Units(f))
  <2> HIDE DEF Columns
  <2>1. IsFiniteSet(UNION Columns)
    BY <1>2, <1>4, FS_UNION
  <2>. QED  BY <2>1 DEF Columns, Num!Units
<1>. QED  BY <1>5, FS_CardinalityType, SumIs

LEMMA SumGrows ==
    ASSUME NEW f, NEW g, IsFiniteSet(DOMAIN g), DOMAIN f \subseteq DOMAIN g,
           \A x \in DOMAIN g : g[x] \in Nat,
           \A x \in DOMAIN f : f[x] \in Nat /\ f[x] <= g[x]
    PROVE  Num!Sum(f) <= Num!Sum(g)
<1>1. /\ \A p : p \in Num!Units(f) <=> \E x \in DOMAIN f : \E u \in 1..f[x] : p = <<x, u>>
      /\ \A p : p \in Num!Units(g) <=> \E x \in DOMAIN g : \E u \in 1..g[x] : p = <<x, u>>
  BY UnitsAre
<1>2. \A x \in DOMAIN f : \A u \in 1..f[x] : x \in DOMAIN g /\ u \in 1..g[x]
  OBVIOUS
<1>3. Num!Units(f) \subseteq Num!Units(g)
  BY <1>1, <1>2
<1>4. IsFiniteSet(Num!Units(g))
  BY SumNat
<1>. QED  BY <1>3, <1>4, FS_Subset, SumIs

(* The sum of a function that is constant.                                 *)
LEMMA SumOfSame ==
    ASSUME NEW S, IsFiniteSet(S), NEW n \in Nat
    PROVE  Num!Sum([x \in S |-> n]) = Cardinality(S) * n
<1>1. Num!Units([x \in S |-> n]) = S \X (1..n)
  BY DEF Num!Units
<1>2. IsFiniteSet(1..n) /\ Cardinality(1..n) = n
  BY FS_Interval
<1>. QED  BY <1>1, <1>2, FS_Product, SumIs

-----------------------------------------------------------------------------
(* Quotients.                                                              *)

LEMMA QuotientIs ==
    ASSUME NEW n \in Nat, NEW k \in Nat \ {0}
    PROVE  /\ n \div k \in Nat
           /\ (n \div k) * k <= n /\ n < (n \div k + 1) * k
<1>1. n \div k \in Nat /\ n % k \in Nat /\ n % k < k
  OBVIOUS
<1>2. n = k * (n \div k) + (n % k)
  OBVIOUS
<1> DEFINE q == n \div k
           r == n % k
<1>3. q \in Nat /\ r \in Nat /\ r < k /\ n = k * q + r
  BY <1>1, <1>2
<1> HIDE DEF q, r
<1>4. q * k = k * q /\ (q + 1) * k = k * q + k
  BY <1>3
<1>5. q * k <= n /\ n < (q + 1) * k
  BY <1>3, <1>4
<1>. QED  BY <1>1, <1>5 DEF q

LEMMA ProductsGrow ==
    ASSUME NEW a \in Nat, NEW b \in Nat, NEW k \in Nat, a <= b
    PROVE  a * k <= b * k
<1>1. PICK c \in Nat : b = a + c
  <2>1. b - a \in Nat /\ b = a + (b - a)
    OBVIOUS
  <2>. QED  BY <2>1
<1>2. b * k = a * k + c * k
  BY <1>1
<1>3. c * k \in Nat /\ a * k \in Nat
  OBVIOUS
<1>. QED  BY <1>2, <1>3

LEMMA QuotientOnce ==
    ASSUME NEW n \in Nat, NEW k \in Nat \ {0}, NEW q \in Nat, q * k <= n, n < (q + 1) * k
    PROVE  q = n \div k
<1> DEFINE p == n \div k
<1>1. p \in Nat /\ p * k <= n /\ n < (p + 1) * k
  BY QuotientIs
<1> HIDE DEF p
<1>2. ~ (q + 1 <= p)
  <2>1. q + 1 <= p => (q + 1) * k <= p * k
    BY <1>1, ProductsGrow
  <2>2. q * k \in Nat /\ (q + 1) * k \in Nat /\ p * k \in Nat
    BY <1>1
  <2>. QED  BY <1>1, <2>1, <2>2
<1>3. ~ (p + 1 <= q)
  <2>1. p + 1 <= q => (p + 1) * k <= q * k
    BY <1>1, ProductsGrow
  <2>2. q * k \in Nat /\ (p + 1) * k \in Nat
    BY <1>1
  <2>. QED  BY <1>1, <2>1, <2>2
<1>4. q = p
  BY <1>1, <1>2, <1>3
<1>. QED  BY <1>4 DEF p

LEMMA QuotientsGrow ==
    ASSUME NEW m \in Nat, NEW n \in Nat, NEW k \in Nat \ {0}, m <= n
    PROVE  m \div k <= n \div k
<1> DEFINE p == m \div k
           q == n \div k
<1>1. p \in Nat /\ p * k <= m /\ q \in Nat /\ n < (q + 1) * k
  BY QuotientIs
<1> HIDE DEF p, q
<1>2. ~ (q + 1 <= p)
  <2>1. q + 1 <= p => (q + 1) * k <= p * k
    BY <1>1, ProductsGrow
  <2>2. (q + 1) * k \in Nat /\ p * k \in Nat
    BY <1>1
  <2>. QED  BY <1>1, <2>1, <2>2
<1>3. p <= q
  BY <1>1, <1>2
<1>. QED  BY <1>3 DEF p, q

-----------------------------------------------------------------------------
(* Rounding.                                                               *)

LEMMA RoundedNat ==
    ASSUME NEW x \in Nat, NEW y \in Nat \ {0}
    PROVE  Num!Rounded(x, y) \in Nat
<1>1. 2 * x + y \in Nat /\ 2 * y \in Nat \ {0}
  OBVIOUS
<1>. QED  BY <1>1, QuotientIs DEF Num!Rounded

LEMMA RoundedExact ==
    ASSUME NEW k \in Nat, NEW y \in Nat \ {0}
    PROVE  Num!Rounded(k * y, y) = k
<1> DEFINE p == k * y
<1>1. p \in Nat /\ k * (2 * y) = 2 * p /\ (k + 1) * (2 * y) = 2 * p + 2 * y
  OBVIOUS
<1> HIDE DEF p
<1>2. 2 * p + y \in Nat /\ 2 * y \in Nat \ {0} /\ k * (2 * y) <= 2 * p + y /\ 2 * p + y < (k + 1) * (2 * y)
  BY <1>1
<1>3. k = (2 * p + y) \div (2 * y)
  BY <1>2, QuotientOnce
<1>. QED  BY <1>3 DEF Num!Rounded, p

LEMMA RoundedGrows ==
    ASSUME NEW x \in Nat, NEW z \in Nat, NEW y \in Nat \ {0}, x <= z
    PROVE  Num!Rounded(x, y) <= Num!Rounded(z, y)
<1>1. /\ 2 * x + y \in Nat /\ 2 * z + y \in Nat /\ 2 * y \in Nat \ {0}
      /\ 2 * x + y <= 2 * z + y
  OBVIOUS
<1>. QED  BY <1>1, QuotientsGrow DEF Num!Rounded

-----------------------------------------------------------------------------
(* The responses.                                                          *)

Ranges == [lower: Nat, upper: Nat]
Responses == [quantity: [1..3 -> Nat], range: [1..3 -> Ranges],
              reorder: {"given", "baseline", "none", "null"}]

(* What a response promises of a series.                                   *)
SoundResponse(r, series) ==
    /\ r \in Responses
    /\ r.quantity[1] <= r.quantity[2] /\ r.quantity[2] <= r.quantity[3]
    /\ \A h \in 1..3 : r.range[h].lower <= r.quantity[h] /\ r.quantity[h] <= r.range[h].upper
    /\ r.reorder \in {"given", "baseline"} \/ (r.reorder = "none" /\ Num!Total(series) = 0)

LEMMA SeriesIs ==
    ASSUME NEW series \in Seq(Nat) \ {<<>>}
    PROVE  /\ Len(series) \in Nat \ {0} /\ DOMAIN series = 1..Len(series)
           /\ \A i \in 1..Len(series) : series[i] \in Nat
           /\ IsFiniteSet(DOMAIN series) /\ Num!Total(series) \in Nat
<1>1. /\ Len(series) \in Nat \ {0} /\ DOMAIN series = 1..Len(series)
      /\ \A i \in 1..Len(series) : series[i] \in Nat
  OBVIOUS
<1>2. IsFiniteSet(1..Len(series))
  BY <1>1, FS_Interval
<1>3. Num!Sum(series) \in Nat
  BY <1>1, <1>2, SumNat
<1>. QED  BY <1>1, <1>2, <1>3 DEF Num!Total

(* A quarter or a half less, a quarter or a half more.                     *)
LEMMA WidthsAre ==
    ASSUME NEW x \in Nat
    PROVE  /\ Num!Rounded(x * 3, 4) \in Nat /\ Num!Rounded(x * 3, 4) <= x
           /\ Num!Rounded(x * 2, 4) \in Nat /\ Num!Rounded(x * 2, 4) <= x
           /\ Num!Rounded(x * 5, 4) \in Nat /\ x <= Num!Rounded(x * 5, 4)
           /\ Num!Rounded(x * 6, 4) \in Nat /\ x <= Num!Rounded(x * 6, 4)
BY DEF Num!Rounded

LEMMA BaselineSound ==
    ASSUME NEW series \in Seq(Nat) \ {<<>>}
    PROVE  SoundResponse(Num!Baseline(series), series) /\ Num!Baseline(series).reorder # "null"
<1> DEFINE n == Len(series)
           t == Num!Total(series)
           q == [h \in 1..3 |-> Num!Rounded(t * Num!Horizons[h], n)]
           spread == Num!Sum([i \in 1..n |-> series[i] * series[i]]) * n - t * t
           w == IF 4 * spread > t * t THEN 2 ELSE 1
           b == [quantity |-> q,
                 range |-> [h \in 1..3 |-> [lower |-> Num!Rounded(q[h] * (4 - w), 4),
                                            upper |-> Num!Rounded(q[h] * (4 + w), 4)]],
                 reorder |-> IF t = 0 THEN "none" ELSE "baseline"]
<1>1. Num!Baseline(series) = b
  BY DEF Num!Baseline
<1>2. n \in Nat \ {0} /\ t \in Nat
  BY SeriesIs
<1>3. w \in {1, 2}
  OBVIOUS
<1> HIDE DEF n, t, w
<1>4. /\ t * 30 \in Nat /\ t * 60 \in Nat /\ t * 90 \in Nat
      /\ t * 30 <= t * 60 /\ t * 60 <= t * 90
  BY <1>2
<1>5. q[1] = Num!Rounded(t * 30, n) /\ q[2] = Num!Rounded(t * 60, n) /\ q[3] = Num!Rounded(t * 90, n)
  BY DEF Num!Horizons
<1>6. /\ q[1] \in Nat /\ q[2] \in Nat /\ q[3] \in Nat
      /\ q[1] <= q[2] /\ q[2] <= q[3]
  BY <1>2, <1>4, <1>5, RoundedNat, RoundedGrows
<1>7. q \in [1..3 -> Nat]
  <2>1. \A h \in 1..3 : q[h] \in Nat
    BY <1>6
  <2>. QED  BY <2>1
<1> HIDE DEF q
<1>8. ASSUME NEW h \in 1..3
      PROVE  /\ Num!Rounded(q[h] * (4 - w), 4) \in Nat /\ Num!Rounded(q[h] * (4 - w), 4) <= q[h]
             /\ Num!Rounded(q[h] * (4 + w), 4) \in Nat /\ q[h] <= Num!Rounded(q[h] * (4 + w), 4)
  <2>1. q[h] \in Nat
    BY <1>7
  <2>2. CASE w = 1
    <3>1. 4 - w = 3 /\ 4 + w = 5
      BY <2>2
    <3>. QED  BY <2>1, <3>1, WidthsAre
  <2>3. CASE w = 2
    <3>1. 4 - w = 2 /\ 4 + w = 6
      BY <2>3
    <3>. QED  BY <2>1, <3>1, WidthsAre
  <2>. QED  BY <1>3, <2>2, <2>3
<1>9. b \in Responses
  BY <1>7, <1>8 DEF Responses, Ranges
<1>10. /\ b.quantity = q
       /\ \A h \in 1..3 : b.range[h].lower <= q[h] /\ q[h] <= b.range[h].upper
  BY <1>8
<1>11. b.reorder = IF t = 0 THEN "none" ELSE "baseline"
  OBVIOUS
<1> HIDE DEF b
<1>. QED  BY <1>1, <1>6, <1>9, <1>10, <1>11 DEF SoundResponse, t

LEMMA MonotonicIs ==
    ASSUME NEW r \in Responses
    PROVE  LET m == Num!Monotonic(r) IN
           /\ m \in Responses /\ m.reorder = r.reorder
           /\ m.quantity[1] <= m.quantity[2] /\ m.quantity[2] <= m.quantity[3]
           /\ \A h \in 1..3 : m.range[h].lower <= m.quantity[h] /\ m.quantity[h] <= m.range[h].upper
<1> DEFINE q1 == r.quantity[1]
           q2 == Num!AtLeast(r.quantity[2], q1)
           q3 == Num!AtLeast(r.quantity[3], q2)
           q == <<q1, q2, q3>>
           g == [h \in 1..3 |-> [lower |-> Num!AtMost(r.range[h].lower, q[h]),
                                 upper |-> Num!AtLeast(r.range[h].upper, q[h])]]
           m == [r EXCEPT !.quantity = q, !.range = g]
<1>1. Num!Monotonic(r) = m
  BY DEF Num!Monotonic
<1>2. /\ r.quantity[1] \in Nat /\ r.quantity[2] \in Nat /\ r.quantity[3] \in Nat
      /\ \A h \in 1..3 : r.range[h].lower \in Nat /\ r.range[h].upper \in Nat
  BY DEF Responses, Ranges
<1>3. q1 \in Nat /\ q2 \in Nat /\ q3 \in Nat /\ q1 <= q2 /\ q2 <= q3
  BY <1>2 DEF Num!AtLeast
<1> HIDE DEF q1, q2, q3
<1>4. q[1] = q1 /\ q[2] = q2 /\ q[3] = q3 /\ \A h \in 1..3 : q[h] \in Nat
  BY <1>3
<1>5. q \in [1..3 -> Nat]
  BY <1>3
<1> HIDE DEF q
<1>6. ASSUME NEW h \in 1..3
      PROVE  /\ g[h] \in Ranges /\ g[h].lower <= q[h] /\ q[h] <= g[h].upper
  BY <1>2, <1>4 DEF Num!AtMost, Num!AtLeast, Ranges
<1>7. g \in [1..3 -> Ranges]
  <2> HIDE DEF g
  <2>1. \A h \in 1..3 : g[h] \in Ranges
    BY <1>6
  <2>2. g = [h \in 1..3 |-> g[h]]
    BY DEF g
  <2>. QED  BY <2>1, <2>2
<1> HIDE DEF g
<1>8. m.quantity = q /\ m.range = g /\ m.reorder = r.reorder /\ m \in Responses
  BY <1>5, <1>7 DEF Responses
<1> HIDE DEF m
<1>. QED  BY <1>1, <1>3, <1>4, <1>6, <1>8

LEMMA EnrichedSound ==
    ASSUME NEW series \in Seq(Nat) \ {<<>>}, NEW r \in Responses,
           r.reorder \in {"given", "baseline", "null"} \/ (r.reorder = "none" /\ Num!Total(series) = 0)
    PROVE  SoundResponse(Num!Enriched(Num!Monotonic(r), series), series)
<1> DEFINE m == Num!Monotonic(r)
           b == Num!Baseline(series)
           e == Num!Enriched(m, series)
<1>1. /\ m \in Responses /\ m.reorder = r.reorder
      /\ m.quantity[1] <= m.quantity[2] /\ m.quantity[2] <= m.quantity[3]
      /\ \A h \in 1..3 : m.range[h].lower <= m.quantity[h] /\ m.quantity[h] <= m.range[h].upper
  BY MonotonicIs
<1>2. SoundResponse(b, series) /\ b.reorder # "null"
  BY BaselineSound
<1> HIDE DEF m, b
<1>3. e = IF m.reorder = "null" THEN [m EXCEPT !.reorder = b.reorder] ELSE m
  BY DEF Num!Enriched, b
<1> HIDE DEF e
<1>4. CASE m.reorder = "null"
  <2>1. /\ e.quantity = m.quantity /\ e.range = m.range /\ e.reorder = b.reorder
        /\ e \in Responses
    BY <1>1, <1>2, <1>3, <1>4 DEF SoundResponse, Responses
  <2>. QED  BY <1>1, <1>2, <2>1 DEF SoundResponse, e, m
<1>5. CASE m.reorder # "null"
  BY <1>1, <1>3, <1>5 DEF SoundResponse, e, m
<1>. QED  BY <1>4, <1>5

LEMMA AnswerIs ==
    ASSUME NEW a \in Answers
    PROVE  /\ \A h \in 1..3 : a.quantity[h] \in Int /\ a.range[h].lower \in Int /\ a.range[h].upper \in Int
           /\ a.reorder \in {"missing", "null", "given"}
BY AnswersAssumption DEF Num!InputsAssumption

LEMMA StrictIs ==
    ASSUME NEW a \in Answers, Num!IsStrict(a)
    PROVE  Num!Strict(a) \in Responses /\ Num!Strict(a).reorder \in {"null", "given"}
<1>1. /\ \A h \in 1..3 : a.quantity[h] \in Int /\ a.range[h].lower \in Int /\ a.range[h].upper \in Int
      /\ a.reorder \in {"null", "given"}
  BY AnswerIs DEF Num!IsStrict
<1>2. \A x \in Int : Num!AtLeast(x, 0) \in Nat
  BY DEF Num!AtLeast
<1>3. \A h \in 1..3 : /\ Num!AtLeast(a.quantity[h], 0) \in Nat
                      /\ Num!AtLeast(a.range[h].lower, 0) \in Nat /\ Num!AtLeast(a.range[h].upper, 0) \in Nat
  BY <1>1, <1>2
<1>. QED  BY <1>1, <1>3 DEF Num!Strict, Responses, Ranges

LEMMA RepairedIs ==
    ASSUME NEW a \in Answers, NEW series \in Seq(Nat) \ {<<>>}
    PROVE  /\ Num!Repaired(a, series) \in Responses
           /\ \/ Num!Repaired(a, series).reorder \in {"given", "baseline"}
              \/ Num!Repaired(a, series).reorder = "none" /\ Num!Total(series) = 0
<1> DEFINE b == Num!Baseline(series)
           lower(h) == Num!Or(a.range[h].lower, b.range[h].lower)
           upper(h) == Num!Or(a.range[h].upper, b.range[h].upper)
<1>1. \A h \in 1..3 : a.quantity[h] \in Int /\ a.range[h].lower \in Int /\ a.range[h].upper \in Int
  BY AnswerIs
<1>2. /\ \A h \in 1..3 : b.quantity[h] \in Nat /\ b.range[h].lower \in Nat /\ b.range[h].upper \in Nat
      /\ b.reorder \in {"given", "baseline"} \/ (b.reorder = "none" /\ Num!Total(series) = 0)
  <2>1. SoundResponse(b, series)
    BY BaselineSound
  <2> HIDE DEF b
  <2>. QED  BY <2>1 DEF SoundResponse, Responses, Ranges
<1> HIDE DEF b
<1>3. \A x \in Int, y \in Nat : Num!Or(x, y) \in Nat
  BY DEF Num!Or, Num!AtLeast
<1>4. ASSUME NEW h \in 1..3
      PROVE  /\ Num!Or(a.quantity[h], b.quantity[h]) \in Nat
             /\ Num!AtMost(lower(h), upper(h)) \in Nat /\ Num!AtLeast(lower(h), upper(h)) \in Nat
  <2>1. lower(h) \in Nat /\ upper(h) \in Nat /\ Num!Or(a.quantity[h], b.quantity[h]) \in Nat
    BY <1>1, <1>2, <1>3
  <2>. QED  BY <2>1 DEF Num!AtMost, Num!AtLeast
<1>5. Num!Repaired(a, series)
        = [quantity |-> [h \in 1..3 |-> Num!Or(a.quantity[h], b.quantity[h])],
           range |-> [h \in 1..3 |-> [lower |-> Num!AtMost(lower(h), upper(h)),
                                      upper |-> Num!AtLeast(lower(h), upper(h))]],
           reorder |-> IF a.reorder = "given" THEN "given" ELSE b.reorder]
  BY DEF Num!Repaired, b
<1> HIDE DEF lower, upper
<1>6. /\ Num!Repaired(a, series).reorder = IF a.reorder = "given" THEN "given" ELSE b.reorder
      /\ Num!Repaired(a, series).quantity \in [1..3 -> Nat]
  BY <1>4, <1>5
<1>. QED  BY <1>2, <1>4, <1>5 DEF Responses, Ranges

(* Whatever a model answers, the response is sound.                        *)
LEMMA CoercedSound ==
    ASSUME NEW a \in Answers, NEW series \in Seq(Nat) \ {<<>>}
    PROVE  SoundResponse(Num!Coerced(a, series), series)
<1>1. CASE Num!IsStrict(a)
  BY <1>1, StrictIs, EnrichedSound DEF Num!Coerced
<1>2. CASE ~Num!IsStrict(a) /\ Num!IsLenient(a)
  BY <1>2, RepairedIs, EnrichedSound DEF Num!Coerced
<1>3. CASE ~Num!IsStrict(a) /\ ~Num!IsLenient(a)
  BY <1>3, BaselineSound DEF Num!Coerced
<1>. QED  BY <1>1, <1>2, <1>3

-----------------------------------------------------------------------------
(* The horizon that was asked for.                                         *)

Figures == [quantity: Nat, range: Ranges]

LEMMA ScaledIs ==
    ASSUME NEW x \in Nat, NEW y \in Nat, x <= y
    PROVE  /\ Num!Rounded(x * 7, 30) \in Nat /\ Num!Rounded(x * 7, 30) <= Num!Rounded(y * 7, 30)
           /\ Num!Rounded(x * 14, 30) \in Nat /\ Num!Rounded(x * 14, 30) <= Num!Rounded(y * 14, 30)
           /\ Num!Rounded(x * 7, 30) <= Num!Rounded(x * 14, 30) /\ Num!Rounded(x * 14, 30) <= x
<1>1. /\ x * 7 \in Nat /\ y * 7 \in Nat /\ x * 7 <= y * 7
      /\ x * 14 \in Nat /\ y * 14 \in Nat /\ x * 14 <= y * 14 /\ x * 7 <= x * 14 /\ x * 14 <= x * 30
      /\ x * 30 \in Nat /\ 30 \in Nat \ {0}
  OBVIOUS
<1>2. Num!Rounded(x * 30, 30) = x
  BY <1>1, RoundedExact
<1>. QED  BY <1>1, <1>2, RoundedNat, RoundedGrows

LEMMA FigureOf ==
    ASSUME NEW q \in Nat, NEW l \in Nat, NEW u \in Nat, l <= q, q <= u,
           NEW p, p = [quantity |-> q, range |-> [lower |-> l, upper |-> u]]
    PROVE  p \in Figures /\ p.range.lower <= p.quantity /\ p.quantity <= p.range.upper
BY DEF Figures, Ranges

LEMMA FiguresSound ==
    ASSUME NEW series, NEW r, SoundResponse(r, series), NEW t \in Num!Terms
    PROVE  /\ Num!Picked(r, t) \in Figures
           /\ Num!Picked(r, t).range.lower <= Num!Picked(r, t).quantity
           /\ Num!Picked(r, t).quantity <= Num!Picked(r, t).range.upper
<1>1. ASSUME NEW h \in 1..3
      PROVE  /\ r.quantity[h] \in Nat /\ r.range[h].lower \in Nat /\ r.range[h].upper \in Nat
             /\ r.range[h].lower <= r.quantity[h] /\ r.quantity[h] <= r.range[h].upper
  BY DEF SoundResponse, Responses, Ranges
<1>2. CASE t \in {7, 14}
  <2>1. /\ Num!Rounded(r.quantity[1] * t, 30) \in Nat
        /\ Num!Rounded(r.range[1].lower * t, 30) \in Nat /\ Num!Rounded(r.range[1].upper * t, 30) \in Nat
        /\ Num!Rounded(r.range[1].lower * t, 30) <= Num!Rounded(r.quantity[1] * t, 30)
        /\ Num!Rounded(r.quantity[1] * t, 30) <= Num!Rounded(r.range[1].upper * t, 30)
    <3>1. 1 \in 1..3
      OBVIOUS
    <3>2. CASE t = 7
      BY <1>1, <3>1, <3>2, ScaledIs
    <3>3. CASE t = 14
      BY <1>1, <3>1, <3>3, ScaledIs
    <3>. QED  BY <1>2, <3>2, <3>3
  <2>2. Num!Picked(r, t) = [quantity |-> Num!Rounded(r.quantity[1] * t, 30),
                            range |-> [lower |-> Num!Rounded(r.range[1].lower * t, 30),
                                       upper |-> Num!Rounded(r.range[1].upper * t, 30)]]
    BY <1>2 DEF Num!Picked
  <2>. QED  BY <2>1, <2>2, FigureOf
<1>3. ASSUME NEW h \in 1..3,
             Num!Picked(r, t) = [quantity |-> r.quantity[h],
                                 range |-> [lower |-> r.range[h].lower, upper |-> r.range[h].upper]]
      PROVE  /\ Num!Picked(r, t) \in Figures
             /\ Num!Picked(r, t).range.lower <= Num!Picked(r, t).quantity
             /\ Num!Picked(r, t).quantity <= Num!Picked(r, t).range.upper
  BY <1>1, <1>3, FigureOf
<1>4. CASE t = 30
  <2>1. Num!Picked(r, t) = [quantity |-> r.quantity[1],
                            range |-> [lower |-> r.range[1].lower, upper |-> r.range[1].upper]]
    BY <1>4 DEF Num!Picked
  <2>. QED  BY <1>3, <2>1
<1>5. CASE t = 60
  <2>1. Num!Picked(r, t) = [quantity |-> r.quantity[2],
                            range |-> [lower |-> r.range[2].lower, upper |-> r.range[2].upper]]
    BY <1>5 DEF Num!Picked
  <2>. QED  BY <1>3, <2>1
<1>6. CASE t = 90
  <2>1. Num!Picked(r, t) = [quantity |-> r.quantity[3],
                            range |-> [lower |-> r.range[3].lower, upper |-> r.range[3].upper]]
    BY <1>6 DEF Num!Picked
  <2>. QED  BY <1>3, <2>1
<1>. QED  BY <1>2, <1>4, <1>5, <1>6 DEF Num!Terms

(* A longer term never needs less.                                         *)
LEMMA PickedGrows ==
    ASSUME NEW series, NEW r, SoundResponse(r, series), NEW s \in Num!Terms, NEW t \in Num!Terms, s <= t
    PROVE  Num!Picked(r, s).quantity <= Num!Picked(r, t).quantity
<1>1. /\ r.quantity[1] \in Nat /\ r.quantity[2] \in Nat /\ r.quantity[3] \in Nat
      /\ r.quantity[1] <= r.quantity[2] /\ r.quantity[2] <= r.quantity[3]
  BY DEF SoundResponse, Responses
<1>2. /\ Num!Picked(r, 7).quantity = Num!Rounded(r.quantity[1] * 7, 30)
      /\ Num!Picked(r, 14).quantity = Num!Rounded(r.quantity[1] * 14, 30)
      /\ Num!Picked(r, 30).quantity = r.quantity[1]
      /\ Num!Picked(r, 60).quantity = r.quantity[2]
      /\ Num!Picked(r, 90).quantity = r.quantity[3]
  BY DEF Num!Picked
<1>3. /\ Num!Picked(r, 7).quantity \in Nat /\ Num!Picked(r, 14).quantity \in Nat
      /\ Num!Picked(r, 7).quantity <= Num!Picked(r, 14).quantity
      /\ Num!Picked(r, 14).quantity <= Num!Picked(r, 30).quantity
  <2>1. r.quantity[1] <= r.quantity[1]
    BY <1>1
  <2>. QED  BY <1>1, <1>2, <2>1, ScaledIs, RoundedNat
<1> DEFINE q(u) == Num!Picked(r, u).quantity
<1>4. /\ q(7) \in Nat /\ q(14) \in Nat /\ q(30) \in Nat /\ q(60) \in Nat /\ q(90) \in Nat
      /\ q(7) <= q(14) /\ q(14) <= q(30) /\ q(30) <= q(60) /\ q(60) <= q(90)
  BY <1>1, <1>2, <1>3
<1> HIDE DEF q
<1>5. q(s) <= q(t)
  BY <1>4 DEF Num!Terms
<1>. QED  BY <1>5 DEF q

(* A draft order covers the demand and asks for no more.                   *)
LEMMA DraftedIs ==
    ASSUME NEW f, NEW suggested \in Nat, NEW onHand \in Nat,
           suggested = IF f.override = Num!Missing THEN f.predicted.quantity ELSE f.override
    PROVE  Num!Drafted(f, onHand) + onHand >= suggested /\ Num!Drafted(f, onHand) <= suggested
<1>1. Num!Drafted(f, onHand) = IF suggested <= 0 THEN 0 ELSE Num!AtLeast(suggested - onHand, 1)
  BY DEF Num!Drafted
<1>. QED  BY <1>1 DEF Num!AtLeast

-----------------------------------------------------------------------------
(* The models that a forecast is compared with.                            *)

LEMMA SumBounds ==
    ASSUME NEW S, IsFiniteSet(S), NEW f \in [S -> Nat], NEW lo \in Nat, NEW hi \in Nat,
           \A x \in S : lo <= f[x] /\ f[x] <= hi
    PROVE  Cardinality(S) * lo <= Num!Sum(f) /\ Num!Sum(f) <= Cardinality(S) * hi
<1> DEFINE g == [x \in S |-> lo]
           h == [x \in S |-> hi]
<1>1. Num!Sum(g) = Cardinality(S) * lo /\ Num!Sum(h) = Cardinality(S) * hi
  BY SumOfSame
<1>2. /\ DOMAIN g = S /\ DOMAIN h = S /\ DOMAIN f = S
      /\ \A x \in S : g[x] = lo /\ h[x] = hi /\ f[x] \in Nat
  OBVIOUS
<1> HIDE DEF g, h
<1>3. Num!Sum(g) <= Num!Sum(f) /\ Num!Sum(f) <= Num!Sum(h)
  BY <1>2, SumGrows
<1>. QED  BY <1>1, <1>3

(* A sum of n summands between lo and hi, carried on for some days.        *)
LEMMA RoundedWithin ==
    ASSUME NEW x \in Nat, NEW n \in Nat \ {0}, NEW days \in Nat, NEW lo \in Nat, NEW hi \in Nat,
           n * lo <= x, x <= n * hi
    PROVE  /\ Num!Rounded(x * days, n) \in Nat
           /\ lo * days <= Num!Rounded(x * days, n) /\ Num!Rounded(x * days, n) <= hi * days
<1>1. /\ n * lo \in Nat /\ n * hi \in Nat /\ lo * days \in Nat /\ hi * days \in Nat /\ x * days \in Nat
      /\ (n * lo) * days = (lo * days) * n /\ (n * hi) * days = (hi * days) * n
  OBVIOUS
<1>2. (n * lo) * days <= x * days /\ x * days <= (n * hi) * days
  BY <1>1, ProductsGrow
<1>3. /\ (lo * days) * n \in Nat /\ (hi * days) * n \in Nat
      /\ (lo * days) * n <= x * days /\ x * days <= (hi * days) * n
  BY <1>1, <1>2
<1>4. /\ Num!Rounded((lo * days) * n, n) <= Num!Rounded(x * days, n)
      /\ Num!Rounded(x * days, n) <= Num!Rounded((hi * days) * n, n)
  BY <1>1, <1>3, RoundedGrows
<1>5. Num!Rounded((lo * days) * n, n) = lo * days /\ Num!Rounded((hi * days) * n, n) = hi * days
  BY <1>1, RoundedExact
<1>. QED  BY <1>1, <1>4, <1>5, RoundedNat

(* The days of the moving average.                                         *)
Recent(series) == Num!AtLeast(Len(series) - 6, 1)..Len(series)

LEMMA RecentIs ==
    ASSUME NEW series \in Seq(Nat) \ {<<>>}
    PROVE  /\ IsFiniteSet(Recent(series)) /\ Recent(series) \subseteq 1..Len(series)
           /\ Cardinality(Recent(series)) \in Nat \ {0}
           /\ Cardinality(Recent(series)) = Len(series) - Num!AtLeast(Len(series) - 6, 1) + 1
<1>1. Len(series) \in Nat \ {0}
  BY SeriesIs
<1> DEFINE n == Len(series)
           m == Num!AtLeast(n - 6, 1)
<1> HIDE DEF n
<1>2. n \in Nat \ {0}
  BY <1>1 DEF n
<1>3. m \in 1..n
  BY <1>2 DEF Num!AtLeast
<1> HIDE DEF m
<1>4. IsFiniteSet(m..n) /\ Cardinality(m..n) = IF m > n THEN 0 ELSE n - m + 1
  BY <1>2, <1>3, FS_Interval
<1>5. Recent(series) = m..n
  BY DEF Recent, m, n
<1>6. m..n \subseteq 1..n /\ n - m + 1 \in Nat \ {0} /\ ~(m > n)
  BY <1>2, <1>3
<1>. QED  BY <1>4, <1>5, <1>6 DEF m, n

LEMMA MovingIs ==
    ASSUME NEW series \in Seq(Nat) \ {<<>>}, NEW days \in Nat, NEW lo \in Nat, NEW hi \in Nat,
           \A i \in 1..Len(series) : lo <= series[i] /\ series[i] <= hi
    PROVE  /\ Num!MovingAverage(series, days) \in Nat
           /\ lo * days <= Num!MovingAverage(series, days) /\ Num!MovingAverage(series, days) <= hi * days
<1> DEFINE f == [i \in Recent(series) |-> series[i]]
           n == Cardinality(Recent(series))
           x == Num!Sum(f)
<1>1. /\ IsFiniteSet(Recent(series)) /\ Recent(series) \subseteq 1..Len(series)
      /\ n \in Nat \ {0}
  BY RecentIs
<1>2. Num!MovingAverage(series, days) = Num!Rounded(x * days, n)
  BY NumSizes DEF Num!MovingAverage, Recent
<1>3. f \in [Recent(series) -> Nat] /\ \A i \in Recent(series) : lo <= f[i] /\ f[i] <= hi
  BY <1>1, SeriesIs
<1> HIDE DEF f
<1>4. x \in Nat
  BY <1>1, <1>3, SumNat
<1>5. n * lo <= x /\ x <= n * hi
  BY <1>1, <1>3, SumBounds
<1> HIDE DEF x, n
<1>6. /\ Num!Rounded(x * days, n) \in Nat
      /\ lo * days <= Num!Rounded(x * days, n) /\ Num!Rounded(x * days, n) <= hi * days
  BY <1>1, <1>4, <1>5, RoundedWithin
<1>. QED  BY <1>2, <1>6

(* Smoothing.  One step of the levels, and the levels themselves.          *)
StepTo(series, i, x) ==
    IF i = 1 THEN 2 ^ Len(series) * series[1] ELSE (2 ^ Len(series) * series[i] + x) \div 2
Levels(series, k, g) == g = [i \in 1..k |-> StepTo(series, i, g[i - 1])]
Level(series) == CHOOSE g : Levels(series, Len(series), g)

LEMMA ScaleIs == \A n \in Nat : 2 ^ n \in Nat \ {0}
<1> SUFFICES ASSUME NEW n \in Nat PROVE 2 ^ n \in Nat \ {0}
  OBVIOUS
<1>1. IsFiniteSet(1..n) /\ Cardinality(1..n) = n
  BY FS_Interval
<1>2. IsFiniteSet(SUBSET (1..n)) /\ Cardinality(SUBSET (1..n)) = 2 ^ n
  BY <1>1, FS_SUBSET
<1>3. SUBSET (1..n) # {}
  OBVIOUS
<1>. QED  BY <1>2, <1>3, FS_CardinalityType, FS_EmptySet

LEMMA LevelsExist ==
    ASSUME NEW series, NEW n \in Nat
    PROVE  \E g : Levels(series, n, g)
<1> DEFINE T == {k \in Nat : ~\E g : Levels(series, k, g)}
<1> SUFFICES ASSUME T # {} PROVE FALSE
  OBVIOUS
<1>1. PICK m \in T : \A k \in T : m <= k
  BY LeastOf
<1>2. m # 0
  <2> DEFINE g == [i \in 1..0 |-> 0]
  <2>1. g = [i \in 1..0 |-> StepTo(series, i, g[i - 1])]
    OBVIOUS
  <2>2. Levels(series, 0, g)
    BY <2>1 DEF Levels
  <2>. QED  BY <2>2
<1>3. m \in Nat /\ m - 1 \in Nat /\ m - 1 \notin T
  BY <1>1, <1>2
<1>4. PICK g : Levels(series, m - 1, g)
  BY <1>3
<1> DEFINE h == [i \in 1..m |-> IF i = m THEN StepTo(series, m, g[m - 1]) ELSE g[i]]
<1>5. \A i \in 1..(m - 1) : g[i] = StepTo(series, i, g[i - 1])
  BY <1>4 DEF Levels
<1>6. ASSUME NEW i \in 1..m
      PROVE  h[i] = StepTo(series, i, h[i - 1])
  <2>1. CASE i = 1
    <3>1. h[1] = IF 1 = m THEN StepTo(series, m, g[m - 1]) ELSE g[1]
      BY <2>1
    <3>2. h[1] = StepTo(series, 1, g[0])
      BY <1>3, <1>5, <2>1, <3>1
    <3>. QED  BY <2>1, <3>2 DEF StepTo
  <2>2. CASE i # 1 /\ i = m
    <3>1. i - 1 \in 1..m /\ i - 1 # m
      BY <1>3, <2>2
    <3>. QED  BY <2>2, <3>1
  <2>3. CASE i # 1 /\ i # m
    <3>1. i - 1 \in 1..m /\ i - 1 # m /\ i \in 1..(m - 1)
      BY <1>3, <2>3
    <3>. QED  BY <1>5, <2>3, <3>1
  <2>. QED  BY <2>1, <2>2, <2>3
<1>7. h = [i \in 1..m |-> h[i]]
  OBVIOUS
<1> HIDE DEF h
<1>8. Levels(series, m, h)
  BY <1>6, <1>7 DEF Levels
<1>. QED  BY <1>1, <1>8

LEMMA LevelIs ==
    ASSUME NEW series \in Seq(Nat) \ {<<>>}, NEW lo \in Nat, NEW hi \in Nat,
           \A i \in 1..Len(series) : lo <= series[i] /\ series[i] <= hi
    PROVE  LET x == Level(series)[Len(series)] IN
           x \in Nat /\ 2 ^ Len(series) * lo <= x /\ x <= 2 ^ Len(series) * hi
<1> DEFINE n == Len(series)
           g == Level(series)
           scale == 2 ^ n
           Within(i) == g[i] \in Nat /\ scale * lo <= g[i] /\ g[i] <= scale * hi
           T == {k \in Nat : k \in 1..n /\ ~Within(k)}
<1>1. n \in Nat \ {0} /\ scale \in Nat \ {0} /\ \A i \in 1..n : series[i] \in Nat
  BY SeriesIs, ScaleIs
<1>2. Levels(series, n, g)
  BY <1>1, LevelsExist DEF Level
<1> HIDE DEF g
<1>3. \A i \in 1..n : g[i] = StepTo(series, i, g[i - 1])
  BY <1>2 DEF Levels
<1>4. ASSUME NEW i \in 1..n
      PROVE  /\ scale * series[i] \in Nat /\ scale * lo \in Nat /\ scale * hi \in Nat
             /\ scale * lo <= scale * series[i] /\ scale * series[i] <= scale * hi
  <2> HIDE DEF scale, n
  <2>1. series[i] \in Nat /\ lo <= series[i] /\ series[i] <= hi
    BY <1>1 DEF n
  <2>2. lo * scale <= series[i] * scale /\ series[i] * scale <= hi * scale
    BY <1>1, <2>1, ProductsGrow
  <2>3. lo * scale = scale * lo /\ hi * scale = scale * hi /\ series[i] * scale = scale * series[i]
    BY <1>1, <2>1
  <2>. QED  BY <1>1, <2>1, <2>2, <2>3
<1>5. T = {}
  <2> SUFFICES ASSUME T # {} PROVE FALSE
    OBVIOUS
  <2>1. PICK m \in T : \A k \in T : m <= k
    BY LeastOf
  <2>2. m \in 1..n /\ ~Within(m)
    BY <2>1
  <2> DEFINE a == scale * series[m]
             b == scale * lo
             c == scale * hi
  <2>3. a \in Nat /\ b \in Nat /\ c \in Nat /\ b <= a /\ a <= c
    BY <1>4, <2>2
  <2>4. CASE m = 1
    <3>1. g[m] = scale * series[1]
      BY <1>3, <2>2, <2>4 DEF StepTo
    <3>2. g[m] = a
      BY <2>4, <3>1
    <3> HIDE DEF a, b, c
    <3>3. g[m] \in Nat /\ b <= g[m] /\ g[m] <= c
      BY <2>3, <3>2
    <3>. QED  BY <2>2, <3>3 DEF b, c
  <2>5. CASE m # 1
    <3>1. m - 1 \in Nat /\ m - 1 \in 1..n /\ ~(m <= m - 1)
      BY <1>1, <2>2, <2>5
    <3>2. Within(m - 1)
      BY <2>1, <3>1
    <3>3. g[m] = (a + g[m - 1]) \div 2
      BY <1>3, <2>2, <2>5 DEF StepTo
    <3>4. g[m - 1] \in Nat /\ b <= g[m - 1] /\ g[m - 1] <= c
      BY <3>2
    <3> HIDE DEF a, b, c
    <3>5. g[m] \in Nat /\ b <= g[m] /\ g[m] <= c
      BY <2>3, <3>3, <3>4
    <3>. QED  BY <2>2, <3>5 DEF b, c
  <2>. QED  BY <2>4, <2>5
<1>6. n \in 1..n /\ n \in Nat
  BY <1>1
<1>7. Within(n)
  BY <1>5, <1>6
<1>. QED  BY <1>7 DEF g

LEMMA SmoothingOf ==
    ASSUME NEW series, NEW days
    PROVE  Num!Smoothing(series, days) = Num!Rounded(Level(series)[Len(series)] * days, 2 ^ Len(series))
BY DEF Num!Smoothing, Level, Levels, StepTo

LEMMA SmoothingIs ==
    ASSUME NEW series \in Seq(Nat) \ {<<>>}, NEW days \in Nat, NEW lo \in Nat, NEW hi \in Nat,
           \A i \in 1..Len(series) : lo <= series[i] /\ series[i] <= hi
    PROVE  /\ Num!Smoothing(series, days) \in Nat
           /\ lo * days <= Num!Smoothing(series, days) /\ Num!Smoothing(series, days) <= hi * days
<1> DEFINE n == 2 ^ Len(series)
           x == Level(series)[Len(series)]
<1>1. n \in Nat \ {0}
  BY SeriesIs, ScaleIs
<1>2. Num!Smoothing(series, days) = Num!Rounded(x * days, n)
  BY SmoothingOf
<1>3. x \in Nat /\ n * lo <= x /\ x <= n * hi
  BY LevelIs
<1> HIDE DEF x, n
<1>4. /\ Num!Rounded(x * days, n) \in Nat
      /\ lo * days <= Num!Rounded(x * days, n) /\ Num!Rounded(x * days, n) <= hi * days
  BY <1>1, <1>3, RoundedWithin
<1>. QED  BY <1>2, <1>4

(* The least and the largest day of a series.                              *)
LEMMA ExtremesAre ==
    ASSUME NEW series \in Seq(Nat) \ {<<>>}
    PROVE  LET days == {series[i] : i \in DOMAIN series} IN
           /\ Num!Min(days) \in Nat /\ Num!Max(days) \in Nat
           /\ \A i \in 1..Len(series) : Num!Min(days) <= series[i] /\ series[i] <= Num!Max(days)
<1> DEFINE n == Len(series)
           days == {series[i] : i \in DOMAIN series}
<1>1. /\ n \in Nat \ {0} /\ DOMAIN series = 1..n /\ \A i \in 1..n : series[i] \in Nat
      /\ IsFiniteSet(DOMAIN series) /\ Num!Total(series) \in Nat
  BY SeriesIs
<1>2. days \in SUBSET Nat /\ days # {} /\ \A i \in 1..n : series[i] \in days
  BY <1>1
<1>3. ASSUME NEW i \in 1..n
      PROVE  series[i] <= Num!Total(series)
  <2> DEFINE f == [j \in {i} |-> series[i]]
  <2>1. Num!Sum(f) = Cardinality({i}) * series[i]
    BY <1>1, FS_Singleton, SumOfSame
  <2>2. Num!Sum(f) = series[i]
    <3> HIDE DEF f
    <3>1. Cardinality({i}) = 1 /\ series[i] \in Nat
      BY <1>1, FS_Singleton
    <3>2. 1 * series[i] = series[i]
      BY <3>1
    <3>. QED  BY <2>1, <3>1, <3>2
  <2>3. DOMAIN f \subseteq DOMAIN series /\ \A j \in DOMAIN f : f[j] \in Nat /\ f[j] <= series[j]
    BY <1>1
  <2> HIDE DEF f
  <2>4. Num!Sum(f) <= Num!Sum(series)
    BY <1>1, <2>3, SumGrows
  <2>. QED  BY <2>2, <2>4 DEF Num!Total
<1> DEFINE U == {u \in Nat : \A x \in days : x <= u}
<1>4. Num!Total(series) \in U
  BY <1>1, <1>3
<1> HIDE DEF days
<1>5. PICK m \in days : \A x \in days : m <= x
  BY <1>2, LeastOf
<1>6. Num!Min(days) \in days /\ \A x \in days : Num!Min(days) <= x
  BY <1>5 DEF Num!Min
<1>7. PICK u \in U : \A v \in U : u <= v
  BY <1>4, LeastOf
<1>8. u \in days
  <2> SUFFICES ASSUME u \notin days PROVE FALSE
    OBVIOUS
  <2>1. \A x \in days : x \in Nat /\ x < u
    BY <1>2, <1>7
  <2>2. u \in Nat /\ u # 0
    BY <1>2, <1>7, <2>1
  <2>3. u - 1 \in U
    BY <2>1, <2>2
  <2>. QED  BY <1>7, <2>2, <2>3
<1>9. Num!Max(days) \in days /\ \A x \in days : x <= Num!Max(days)
  <2>1. \A x \in days : u >= x
    BY <1>2, <1>7
  <2>2. Num!Max(days) \in days /\ \A x \in days : Num!Max(days) >= x
    BY <1>8, <2>1 DEF Num!Max
  <2>. QED  BY <1>2, <2>2
<1>. QED  BY <1>2, <1>6, <1>9 DEF days

(* A steady series is carried on by the baseline.                          *)
LEMMA BaselineOfSteady ==
    ASSUME NEW series \in Seq(Nat) \ {<<>>}, NEW c \in Nat, \A i \in 1..Len(series) : series[i] = c,
           NEW t \in Num!Terms
    PROVE  Num!Picked(Num!Baseline(series), t).quantity = c * t
<1> DEFINE n == Len(series)
           b == Num!Baseline(series)
<1>1. n \in Nat \ {0} /\ DOMAIN series = 1..n /\ IsFiniteSet(DOMAIN series)
  BY SeriesIs
<1>2. IsFiniteSet(1..n) /\ Cardinality(1..n) = n
  BY <1>1, FS_Interval
<1>3. series = [i \in 1..n |-> c]
  BY <1>1
<1>4. Num!Total(series) = n * c
  <2> HIDE DEF n
  <2>. QED  BY <1>2, <1>3, SumOfSame DEF Num!Total
<1>5. ASSUME NEW h \in 1..3
      PROVE  b.quantity[h] = c * Num!Horizons[h]
  <2>1. Num!Horizons[h] \in Nat
    BY DEF Num!Horizons
  <2>2. b.quantity[h] = Num!Rounded((n * c) * Num!Horizons[h], n)
    BY <1>4 DEF Num!Baseline
  <2> HIDE DEF n
  <2>3. (n * c) * Num!Horizons[h] = (c * Num!Horizons[h]) * n /\ c * Num!Horizons[h] \in Nat
    BY <1>1, <2>1
  <2>. QED  BY <1>1, <2>2, <2>3, RoundedExact
<1>6. b.quantity[1] = c * 30 /\ b.quantity[2] = c * 60 /\ b.quantity[3] = c * 90
  BY <1>5 DEF Num!Horizons
<1> HIDE DEF b
<1>7. /\ Num!Picked(b, 7).quantity = Num!Rounded((c * 30) * 7, 30)
      /\ Num!Picked(b, 14).quantity = Num!Rounded((c * 30) * 14, 30)
      /\ Num!Picked(b, 30).quantity = c * 30
      /\ Num!Picked(b, 60).quantity = c * 60
      /\ Num!Picked(b, 90).quantity = c * 90
  BY <1>6 DEF Num!Picked
<1>8. Num!Rounded((c * 30) * 7, 30) = c * 7 /\ Num!Rounded((c * 30) * 14, 30) = c * 14
  <2>1. (c * 30) * 7 = (c * 7) * 30 /\ (c * 30) * 14 = (c * 14) * 30 /\ c * 7 \in Nat /\ c * 14 \in Nat
    OBVIOUS
  <2> DEFINE x == c * 7
             y == c * 14
             z == c * 30
  <2>2. x \in Nat /\ y \in Nat /\ 30 \in Nat \ {0} /\ z * 7 = x * 30 /\ z * 14 = y * 30
    BY <2>1
  <2> HIDE DEF x, y, z
  <2>3. Num!Rounded(x * 30, 30) = x /\ Num!Rounded(y * 30, 30) = y
    BY <2>2, RoundedExact
  <2>4. Num!Rounded(z * 7, 30) = x /\ Num!Rounded(z * 14, 30) = y
    BY <2>2, <2>3
  <2>. QED  BY <2>4 DEF x, y, z
<1>. QED  BY <1>7, <1>8 DEF Num!Terms, b

(* The lines of the chart end at the two models.                           *)
LEMMA ChartEnds ==
    ASSUME NEW series \in Seq(Nat) \ {<<>>}
    PROVE  LET end == Num!Chart(series)[Len(series)] IN
           /\ end.sum = Num!Sum([i \in Recent(series) |-> series[i]])
           /\ end.days = Cardinality(Recent(series))
           /\ end.level = Level(series)[Len(series)]
<1> DEFINE n == Len(series)
           end == Num!Chart(series)[n]
<1>1. n \in Nat \ {0} /\ DOMAIN series = 1..n /\ n \in 1..n
  BY SeriesIs
<1>2. Num!Chart(series) = [i \in DOMAIN series |->
         [sum |-> Num!Sum([k \in Num!AtLeast(i - 6, 1)..i |-> series[k]]), days |-> i - Num!AtLeast(i - 6, 1) + 1,
          level |-> Level(series)[i]]]
  BY <1>1 DEF Num!Chart, Level, Levels, StepTo
<1>3. /\ end.sum = Num!Sum([k \in Num!AtLeast(n - 6, 1)..n |-> series[k]])
      /\ end.days = n - Num!AtLeast(n - 6, 1) + 1
      /\ end.level = Level(series)[n]
  BY <1>1, <1>2
<1>. QED  BY <1>3, RecentIs DEF Recent

LEMMA ModelsHold ==
    ASSUME past \in Histories
    PROVE  Num!ModelsWithinHistory
<1> DEFINE days == {past[i] : i \in DOMAIN past}
           n == Len(past)
           end == Num!Chart(past)[n]
<1>1. past \in Seq(Nat) \ {<<>>}
  BY AnswersAssumption DEF Num!InputsAssumption
<1>2. /\ Num!Min(days) \in Nat /\ Num!Max(days) \in Nat
      /\ \A i \in 1..n : Num!Min(days) <= past[i] /\ past[i] <= Num!Max(days)
  BY <1>1, ExtremesAre
<1>3. n \in Nat \ {0} /\ DOMAIN past = 1..n /\ \A i \in 1..n : past[i] \in Nat
  BY <1>1, SeriesIs
<1>4. ASSUME NEW term \in Num!Terms
      PROVE  /\ \A p \in {Num!MovingAverage(past, term), Num!Smoothing(past, term)} :
                   Num!Min(days) * term <= p /\ p <= Num!Max(days) * term
             /\ Num!MovingAverage(past, term) = Num!Rounded(end.sum * term, end.days)
             /\ Num!Smoothing(past, term) = Num!Rounded(end.level * term, 2 ^ n)
  <2>1. term \in Nat
    BY DEF Num!Terms
  <2>2. /\ Num!Min(days) * term <= Num!MovingAverage(past, term)
        /\ Num!MovingAverage(past, term) <= Num!Max(days) * term
        /\ Num!Min(days) * term <= Num!Smoothing(past, term)
        /\ Num!Smoothing(past, term) <= Num!Max(days) * term
    <3> HIDE DEF days
    <3>. QED  BY <1>1, <1>2, <2>1, MovingIs, SmoothingIs
  <2>3. Num!MovingAverage(past, term)
          = Num!Rounded(Num!Sum([i \in Recent(past) |-> past[i]]) * term, Cardinality(Recent(past)))
    BY NumSizes DEF Num!MovingAverage, Recent
  <2>. QED  BY <1>1, <2>2, <2>3, ChartEnds, SmoothingOf
<1>5. ASSUME Cardinality(days) = 1, NEW term \in Num!Terms
      PROVE  Num!Picked(Num!Baseline(past), term).quantity = Num!Smoothing(past, term)
  <2>1. IsFiniteSet(days)
    <3> DEFINE f == [i \in 1..n |-> past[i]]
    <3>1. IsFiniteSet(1..n)
      BY <1>3, FS_Interval
    <3>2. f \in Surjection(1..n, days)
      BY <1>3 DEF Surjection
    <3> HIDE DEF f, days
    <3>. QED  BY <3>1, <3>2, FS_Surjection
  <2>2. PICK c : days = {c}
    <3> HIDE DEF days
    <3>. QED  BY <1>5, <2>1, FS_Singleton
  <2>3. c \in Nat /\ \A i \in 1..n : past[i] = c
    BY <1>3, <2>2
  <2>4. Num!Picked(Num!Baseline(past), term).quantity = c * term
    BY <1>1, <2>3, BaselineOfSteady
  <2>5. term \in Nat /\ c * term \in Nat /\ c <= c
    BY <2>3 DEF Num!Terms
  <2>6. Num!Smoothing(past, term) \in Nat /\ c * term <= Num!Smoothing(past, term)
        /\ Num!Smoothing(past, term) <= c * term
    BY <1>1, <2>3, <2>5, SmoothingIs
  <2>. QED  BY <2>4, <2>5, <2>6
<1>6. Num!Cardinality(days) = Cardinality(days)
  BY NumSizes
<1>. QED  BY <1>4, <1>5, <1>6 DEF Num!ModelsWithinHistory


-----------------------------------------------------------------------------
(* The comparison with what was consumed.                                  *)

LEMMA DistanceIs ==
    ASSUME NEW x \in Nat, NEW y \in Nat
    PROVE  Num!Distance(x, y) \in Nat /\ Num!Distance(0, y) = y
BY DEF Num!Distance

LEMMA MapeIs ==
    ASSUME NEW p \in Nat, NEW a \in Nat
    PROVE  Num!Mape(p, a) \in Nat
<1>1. CASE a = 0
  BY <1>1 DEF Num!Mape
<1>2. CASE a # 0
  <2> DEFINE d == Num!Distance(a, p)
  <2>1. d \in Nat
    BY DistanceIs
  <2> HIDE DEF d
  <2>2. d * 100 \in Nat /\ a \in Nat \ {0}
    BY <1>2, <2>1
  <2>3. Num!Mape(p, a) = Num!Rounded(d * 100, a)
    BY <1>2 DEF Num!Mape, d
  <2>. QED  BY <2>2, <2>3, RoundedNat
<1>. QED  BY <1>1, <1>2

(* A figure that is nearer has no larger error.                            *)
LEMMA MapeGrows ==
    ASSUME NEW p \in Nat, NEW q \in Nat, NEW a \in Nat, Num!Distance(a, p) <= Num!Distance(a, q)
    PROVE  Num!Mape(p, a) <= Num!Mape(q, a)
<1>1. CASE a = 0
  <2>1. p <= q
    BY <1>1, DistanceIs
  <2>. QED  BY <1>1, <2>1 DEF Num!Mape
<1>2. CASE a # 0
  <2> DEFINE d == Num!Distance(a, p)
             e == Num!Distance(a, q)
  <2>1. d \in Nat /\ e \in Nat /\ d <= e
    BY DistanceIs
  <2>2. Num!Mape(p, a) = Num!Rounded(d * 100, a) /\ Num!Mape(q, a) = Num!Rounded(e * 100, a)
    BY <1>2 DEF Num!Mape
  <2> HIDE DEF d, e
  <2>3. d * 100 \in Nat /\ e * 100 \in Nat /\ d * 100 <= e * 100 /\ a \in Nat \ {0}
    BY <1>2, <2>1
  <2>. QED  BY <2>2, <2>3, RoundedGrows
<1>. QED  BY <1>1, <1>2

(* The model that is recommended is one of the nearest.                    *)
LEMMA RecommendedIs ==
    ASSUME NEW rows \in [ai: Nat, moving_average: Nat, exponential_smoothing: Nat], NEW a \in Nat
    PROVE  LET m == Num!Models[Num!Recommended(rows, a)] IN
           /\ m \in {"ai", "moving_average", "exponential_smoothing"}
           /\ Num!Distance(a, rows[m]) <= Num!Distance(a, rows.ai)
<1> DEFINE names == {"ai", "moving_average", "exponential_smoothing"}
           I == {i \in 1..3 : \A k \in names : Num!Distance(a, rows[Num!Models[i]]) <= Num!Distance(a, rows[k])}
<1>1. /\ Len(Num!Models) = 3 /\ Num!Models[1] = "ai" /\ Num!Models[2] = "moving_average"
      /\ Num!Models[3] = "exponential_smoothing"
  BY DEF Num!Models
<1>2. Num!Seqs!ToSet(Num!Models) = names
  BY DEF Num!Models, Num!Seqs!ToSet
<1>3. Num!Recommended(rows, a) = IF I # {} THEN Num!Min(I) ELSE 0
  BY <1>1, <1>2 DEF Num!Recommended, Num!Seqs!SelectInSeq, Num!Seqs!Min, Num!Min
<1>4. /\ Num!Distance(a, rows["ai"]) \in Nat /\ Num!Distance(a, rows["moving_average"]) \in Nat
      /\ Num!Distance(a, rows["exponential_smoothing"]) \in Nat
  BY DistanceIs
<1> DEFINE d(k) == Num!Distance(a, rows[k])
<1>5. \E i \in 1..3 : \A k \in names : d(Num!Models[i]) <= d(k)
  <2>1. d("ai") \in Nat /\ d("moving_average") \in Nat /\ d("exponential_smoothing") \in Nat
    BY <1>4
  <2> HIDE DEF d
  <2>2. CASE d("ai") <= d("moving_average") /\ d("ai") <= d("exponential_smoothing")
    <3>1. \A k \in names : d(Num!Models[1]) <= d(k)
      BY <1>1, <2>1, <2>2
    <3>. QED  BY <3>1
  <2>3. CASE d("moving_average") <= d("ai") /\ d("moving_average") <= d("exponential_smoothing")
    <3>1. \A k \in names : d(Num!Models[2]) <= d(k)
      BY <1>1, <2>1, <2>3
    <3>. QED  BY <3>1
  <2>4. CASE d("exponential_smoothing") <= d("ai") /\ d("exponential_smoothing") <= d("moving_average")
    <3>1. \A k \in names : d(Num!Models[3]) <= d(k)
      BY <1>1, <2>1, <2>4
    <3>. QED  BY <3>1
  <2>. QED  BY <2>1, <2>2, <2>3, <2>4
<1>6. I # {} /\ I \in SUBSET Nat
  BY <1>5
<1>7. \A i \in I : i \in 1..3 /\ d(Num!Models[i]) <= d("ai")
  OBVIOUS
<1> HIDE DEF I, d
<1>8. PICK j \in I : \A i \in I : j <= i
  BY <1>6, LeastOf
<1>9. Num!Min(I) \in I
  BY <1>8 DEF Num!Min
<1>10. Num!Recommended(rows, a) \in I
  BY <1>3, <1>6, <1>9
<1>11. /\ Num!Recommended(rows, a) \in 1..3
       /\ d(Num!Models[Num!Recommended(rows, a)]) <= d("ai")
  BY <1>7, <1>10
<1>. QED  BY <1>1, <1>11 DEF d

LEMMA RowsAre ==
    ASSUME NEW series \in Seq(Nat) \ {<<>>}, NEW f, f.term \in Num!Terms,
           f.override \in Nat \cup {Num!Missing}, f.predicted.quantity \in Nat
    PROVE  /\ Num!Comparison(series, f) \in [ai: Nat, moving_average: Nat, exponential_smoothing: Nat]
           /\ f.override = Num!Missing => Num!Comparison(series, f).ai = f.predicted.quantity
<1>1. f.term \in Nat
  BY DEF Num!Terms
<1> DEFINE days == {series[i] : i \in DOMAIN series}
<1>2. /\ Num!Min(days) \in Nat /\ Num!Max(days) \in Nat
      /\ \A i \in 1..Len(series) : Num!Min(days) <= series[i] /\ series[i] <= Num!Max(days)
  BY ExtremesAre
<1> HIDE DEF days
<1>3. Num!MovingAverage(series, f.term) \in Nat /\ Num!Smoothing(series, f.term) \in Nat
  BY <1>1, <1>2, MovingIs, SmoothingIs
<1>. QED  BY <1>3 DEF Num!Comparison

-----------------------------------------------------------------------------
(* One forecast and its reviews.                                           *)

StoredForecasts ==
    [stage: {"stored"}, term: Num!Terms, override: Overrides \cup {Num!Missing}, predicted: Figures,
     actual: Nat \cup {Num!Missing}, mape: Nat \cup {Num!Missing}]

Reviews == {Num!Closed} \cup [stage: {"read"}, actual: Nat]

ForecastSound ==
    \/ forecast = Num!NoForecast
    \/ forecast.stage = "answered" /\ SoundResponse(forecast.response, past)
    \/ /\ forecast \in StoredForecasts
       /\ forecast.predicted.range.lower <= forecast.predicted.quantity
       /\ forecast.predicted.quantity <= forecast.predicted.range.upper

UsesTyped ==
    /\ use \in [Uses -> [at: Nat \cup {Num!Missing}, done: BOOLEAN]]
    /\ \A u \in Uses : /\ use[u].at # Num!Missing => use[u].at <= now
                       /\ use[u].done => use[u].at # Num!Missing

(* A figure that was read when the horizon was over.                       *)
Recorded(a) == now >= Span /\ a \in Nat /\ a <= Num!Demand /\ (late \/ a = Num!Demand)

NumbersInv ==
    /\ past \in Histories
    /\ ForecastSound
    /\ UsesTyped
    /\ review \in [Reviewers -> Reviews]
    /\ \A c \in Reviewers : review[c] # Num!Closed => Num!Stored /\ Recorded(review[c].actual)
    /\ Num!Stored /\ forecast.actual # Num!Missing =>
         /\ Recorded(forecast.actual)
         /\ forecast.mape = Num!Mape(forecast.predicted.quantity, forecast.actual)
    /\ now \in 0..MaxTime
    /\ late \in BOOLEAN

DemandOf(w) == {u \in Uses : w[u].done /\ w[u].at \in 0..(Span - 1)}

LEMMA DemandIs == Num!Demand = Cardinality(DemandOf(use)) /\ Num!Demand' = Cardinality(DemandOf(use'))
BY NumSizes DEF Num!Demand, DemandOf

LEMMA DemandTyped == \A w : Cardinality(DemandOf(w)) \in Nat /\ Cardinality(DemandOf(w)) <= Cardinality(Uses)
<1> SUFFICES ASSUME NEW w
             PROVE  Cardinality(DemandOf(w)) \in Nat /\ Cardinality(DemandOf(w)) <= Cardinality(Uses)
  OBVIOUS
<1>1. DemandOf(w) \subseteq Uses /\ IsFiniteSet(Uses)
  BY AnswersAssumption, NumSizes DEF DemandOf, Num!InputsAssumption
<1>2. IsFiniteSet(DemandOf(w))
  BY <1>1, FS_Subset
<1>. QED  BY <1>1, <1>2, FS_Subset, FS_CardinalityType

LEMMA StagesAre ==
    ASSUME ForecastSound
    PROVE  /\ forecast.stage \in {"none", "answered", "stored"}
           /\ forecast = Num!NoForecast => forecast.stage = "none"
           /\ forecast.stage = "answered" => SoundResponse(forecast.response, past)
           /\ Num!Stored => /\ forecast \in StoredForecasts
                            /\ forecast.predicted.range.lower <= forecast.predicted.quantity
                            /\ forecast.predicted.quantity <= forecast.predicted.range.upper
<1>1. Num!NoForecast.stage = "none" /\ \A f \in StoredForecasts : f.stage = "stored"
  BY DEF Num!NoForecast, StoredForecasts
<1>2. CASE forecast = Num!NoForecast
  BY <1>1, <1>2 DEF Num!Stored
<1>3. CASE forecast.stage = "answered" /\ SoundResponse(forecast.response, past)
  BY <1>1, <1>3 DEF Num!Stored
<1>4. CASE /\ forecast \in StoredForecasts
           /\ forecast.predicted.range.lower <= forecast.predicted.quantity
           /\ forecast.predicted.quantity <= forecast.predicted.range.upper
  BY <1>1, <1>4 DEF Num!Stored
<1>. QED  BY <1>2, <1>3, <1>4 DEF ForecastSound

LEMMA NumbersInit == Num!Init => NumbersInv
<1> SUFFICES ASSUME Num!Init PROVE NumbersInv
  OBVIOUS
<1>1. ForecastSound /\ ~Num!Stored
  BY DEF Num!Init, ForecastSound, Num!Stored, Num!NoForecast
<1>2. UsesTyped
  BY DEF Num!Init, UsesTyped, Num!Missing
<1>3. review \in [Reviewers -> Reviews] /\ \A c \in Reviewers : review[c] = Num!Closed
  BY DEF Num!Init, Reviews
<1>4. now \in 0..MaxTime /\ late \in BOOLEAN /\ past \in Histories
  <2>1. now = 0 /\ late = FALSE /\ past \in Histories
    BY DEF Num!Init
  <2>2. MaxTime \in Nat
    BY AnswersAssumption DEF Num!InputsAssumption
  <2>3. now \in 0..MaxTime
    <3>1. 0 \in 0..MaxTime
      BY <2>2
    <3>. QED  BY <2>1, <3>1
  <2>. QED  BY <2>1, <2>3
<1>. QED  BY <1>1, <1>2, <1>3, <1>4 DEF NumbersInv

LEMMA AnswerStep ==
    ASSUME NumbersInv, NEW a \in Answers, Num!Answer(a)
    PROVE  NumbersInv'
<1>1. past \in Seq(Nat) \ {<<>>}
  BY AnswersAssumption DEF Num!InputsAssumption, NumbersInv
<1>2. SoundResponse(Num!Coerced(a, past), past)
  BY <1>1, CoercedSound
<1>3. forecast'.stage = "answered" /\ forecast'.response = Num!Coerced(a, past) /\ ~Num!Stored
  BY DEF Num!Answer, Num!Stored, Num!NoForecast
<1>4. ForecastSound' /\ ~Num!Stored'
  BY <1>2, <1>3 DEF ForecastSound, Num!Stored, Num!Answer
<1>5. \A c \in Reviewers : review[c] = Num!Closed
  BY <1>3 DEF NumbersInv
<1>. QED  BY <1>4, <1>5 DEF NumbersInv, Num!Answer, UsesTyped

LEMMA StoreFiguresStep ==
    ASSUME NumbersInv, NEW t \in Num!Terms, Num!Store(t)
    PROVE  NumbersInv'
<1>1. SoundResponse(forecast.response, past) /\ ~Num!Stored
  BY StagesAre DEF NumbersInv, Num!Store, Num!Stored
<1> DEFINE p == Num!Picked(forecast.response, t)
<1>2. p \in Figures /\ p.range.lower <= p.quantity /\ p.quantity <= p.range.upper
  BY <1>1, FiguresSound
<1> HIDE DEF p
<1>3. forecast' = [stage |-> "stored", term |-> t, override |-> Num!Missing, predicted |-> p,
                   actual |-> Num!Missing, mape |-> Num!Missing]
  BY DEF Num!Store, p
<1>4. /\ forecast' \in StoredForecasts /\ forecast'.predicted = p /\ forecast'.actual = Num!Missing
  BY <1>2, <1>3 DEF StoredForecasts
<1>5. ForecastSound'
  BY <1>2, <1>4 DEF ForecastSound
<1>6. \A c \in Reviewers : review[c] = Num!Closed
  BY <1>1 DEF NumbersInv
<1>. QED  BY <1>4, <1>5, <1>6 DEF NumbersInv, Num!Store, UsesTyped

(* While nothing is consumed and the clock does not go back, what was      *)
(* recorded stays recorded.                                                *)
LEMMA RecordedStays ==
    ASSUME NumbersInv, UNCHANGED <<use, late>>, now' >= now, now' \in Nat, NEW a, Recorded(a)
    PROVE  Recorded(a)'
BY AnswersAssumption, DemandIs DEF Recorded, NumbersInv, Num!InputsAssumption

LEMMA ConsumeStep ==
    ASSUME NumbersInv, NEW u \in Uses, Num!Consume(u)
    PROVE  NumbersInv'
<1>1. ~use[u].done
  BY DEF NumbersInv, UsesTyped, Num!Consume
<1>2. /\ use' \in [Uses -> [at: Nat \cup {Num!Missing}, done: BOOLEAN]]
      /\ use'[u].at = now /\ use'[u].done = use[u].done
      /\ \A w \in Uses \ {u} : use'[w] = use[w]
  BY DEF NumbersInv, UsesTyped, Num!Consume
<1>3. UsesTyped'
  BY <1>1, <1>2 DEF NumbersInv, UsesTyped, Num!Consume
<1>4. DemandOf(use') = DemandOf(use)
  BY <1>1, <1>2 DEF DemandOf
<1>5. Num!Demand' = Num!Demand
  BY <1>4, DemandIs
<1>6. /\ UNCHANGED <<past, forecast, review, now, late>>
      /\ \A a : Recorded(a) => Recorded(a)'
  BY <1>5 DEF Num!Consume, Recorded
<1>. QED  BY <1>3, <1>6 DEF NumbersInv, ForecastSound, Num!Stored

LEMMA CommitStep ==
    ASSUME NumbersInv, NEW u \in Uses, Num!Commit(u)
    PROVE  NumbersInv'
<1>1. /\ use' \in [Uses -> [at: Nat \cup {Num!Missing}, done: BOOLEAN]]
      /\ use'[u].at = use[u].at /\ use'[u].done
      /\ \A w \in Uses \ {u} : use'[w] = use[w]
      /\ use[u].at # Num!Missing /\ use[u].at \in Nat
  BY DEF NumbersInv, UsesTyped, Num!Commit
<1>2. UsesTyped'
  BY <1>1 DEF NumbersInv, UsesTyped, Num!Commit
<1>3. /\ late' = (late \/ (use[u].at < Span /\ now >= Span)) /\ late' \in BOOLEAN
      /\ UNCHANGED <<past, forecast, review, now>>
      /\ now \in Nat /\ Span \in Nat
  BY AnswersAssumption DEF NumbersInv, Num!Commit, Num!InputsAssumption
<1>4. DemandOf(use) \subseteq DemandOf(use') /\ IsFiniteSet(DemandOf(use'))
  <2>1. DemandOf(use) \subseteq DemandOf(use')
    BY <1>1 DEF DemandOf
  <2>2. DemandOf(use') \subseteq Uses /\ IsFiniteSet(Uses)
    BY AnswersAssumption, NumSizes DEF DemandOf, Num!InputsAssumption
  <2>. QED  BY <2>1, <2>2, FS_Subset
<1>5. Num!Demand \in Nat /\ Num!Demand' \in Nat /\ Num!Demand <= Num!Demand'
  BY <1>4, FS_Subset, DemandIs, DemandTyped
<1>6. now >= Span /\ ~late' => ~late /\ Num!Demand' = Num!Demand
  <2> SUFFICES ASSUME now >= Span, ~late' PROVE ~late /\ Num!Demand' = Num!Demand
    OBVIOUS
  <2>1. ~late /\ ~(use[u].at < Span)
    BY <1>3
  <2>2. DemandOf(use') = DemandOf(use)
    BY <1>1, <1>3, <2>1 DEF DemandOf
  <2>. QED  BY <2>1, <2>2, DemandIs
<1>7. \A a : Recorded(a) => Recorded(a)'
  BY <1>3, <1>5, <1>6 DEF Recorded
<1>. QED  BY <1>2, <1>3, <1>7 DEF NumbersInv, ForecastSound, Num!Stored

LEMMA ReviewStep ==
    ASSUME NumbersInv, NEW c \in Reviewers, Num!Review(c)
    PROVE  NumbersInv'
<1>1. Num!Demand \in Nat
  BY DemandIs, DemandTyped
<1> DEFINE r == [stage |-> "read", actual |-> Num!Demand]
<1>2. r \in Reviews /\ r.actual = Num!Demand
  BY <1>1 DEF Reviews
<1>3. review' = [review EXCEPT ![c] = r] /\ UNCHANGED <<past, forecast, use, now, late>>
      /\ Num!Stored /\ now >= Span
  BY DEF Num!Review
<1> HIDE DEF r
<1>4. /\ review' \in [Reviewers -> Reviews] /\ review'[c] = r
      /\ \A d \in Reviewers \ {c} : review'[d] = review[d]
  BY <1>2, <1>3 DEF NumbersInv
<1>5. Num!Demand' = Num!Demand /\ Recorded(Num!Demand) /\ \A a : Recorded(a) => Recorded(a)'
  BY <1>1, <1>3, DemandIs DEF Recorded
<1>. QED  BY <1>2, <1>3, <1>4, <1>5 DEF NumbersInv, ForecastSound, UsesTyped, Num!Stored

LEMMA RecordStep ==
    ASSUME NumbersInv, NEW c \in Reviewers, Num!RecordActuals(c)
    PROVE  NumbersInv'
<1> DEFINE a == review[c].actual
           m == Num!Mape(forecast.predicted.quantity, a)
<1>1. Num!Stored /\ Recorded(a) /\ a \in Nat
  BY DEF NumbersInv, Num!RecordActuals, Recorded
<1>2. /\ forecast \in StoredForecasts
      /\ forecast.predicted.range.lower <= forecast.predicted.quantity
      /\ forecast.predicted.quantity <= forecast.predicted.range.upper
  BY <1>1, StagesAre DEF NumbersInv
<1>3. forecast.predicted.quantity \in Nat
  BY <1>2 DEF StoredForecasts, Figures
<1>4. m \in Nat
  BY <1>1, <1>3, MapeIs
<1>5. /\ forecast' = [forecast EXCEPT !.actual = a, !.mape = m]
      /\ review' = [review EXCEPT ![c] = Num!Closed]
      /\ UNCHANGED <<past, use, now, late>>
  BY DEF Num!RecordActuals
<1> HIDE DEF a, m
<1>6. /\ forecast' \in StoredForecasts /\ forecast'.predicted = forecast.predicted
      /\ forecast'.actual = a /\ forecast'.mape = m /\ forecast'.stage = "stored"
  BY <1>1, <1>2, <1>4, <1>5 DEF StoredForecasts
<1>7. ForecastSound' /\ Num!Stored'
  BY <1>2, <1>6 DEF ForecastSound, Num!Stored
<1>8. /\ review' \in [Reviewers -> Reviews] /\ review'[c] = Num!Closed
      /\ \A d \in Reviewers \ {c} : review'[d] = review[d]
  BY <1>5 DEF NumbersInv, Reviews
<1>9. Num!Demand' = Num!Demand /\ \A x : Recorded(x) => Recorded(x)'
  BY <1>5, DemandIs DEF Recorded
<1>10. Recorded(forecast.actual)' /\ forecast'.mape = Num!Mape(forecast'.predicted.quantity, forecast'.actual)
  <2>1. now >= Span /\ a \in Nat /\ a <= Num!Demand /\ (late \/ a = Num!Demand)
    BY <1>1 DEF Recorded
  <2>2. UNCHANGED <<now, late, Num!Demand>> /\ forecast'.actual = a
    BY <1>5, <1>6, <1>9
  <2>3. Recorded(forecast.actual)'
    BY <2>1, <2>2 DEF Recorded
  <2>. QED  BY <1>6, <2>3 DEF m
<1>. QED  BY <1>5, <1>7, <1>8, <1>9, <1>10 DEF NumbersInv, UsesTyped

LEMMA OverrideStep ==
    ASSUME NumbersInv, NEW q \in Overrides, Num!Override(q)
    PROVE  NumbersInv'
<1>1. /\ forecast \in StoredForecasts
      /\ forecast.predicted.range.lower <= forecast.predicted.quantity
      /\ forecast.predicted.quantity <= forecast.predicted.range.upper
  BY StagesAre DEF NumbersInv, Num!Override
<1>2. forecast' = [forecast EXCEPT !.override = q] /\ UNCHANGED <<past, use, review, now, late>>
      /\ Num!Stored
  BY DEF Num!Override
<1>3. /\ forecast' \in StoredForecasts /\ forecast'.predicted = forecast.predicted
      /\ forecast'.actual = forecast.actual /\ forecast'.mape = forecast.mape
      /\ forecast'.stage = "stored"
  BY <1>1, <1>2 DEF StoredForecasts
<1>4. ForecastSound' /\ Num!Stored'
  BY <1>1, <1>3 DEF ForecastSound, Num!Stored
<1>5. Num!Demand' = Num!Demand /\ \A x : Recorded(x) => Recorded(x)'
  BY <1>2, DemandIs DEF Recorded
<1>. QED  BY <1>2, <1>3, <1>4, <1>5 DEF NumbersInv, UsesTyped

LEMMA TickStep ==
    ASSUME NumbersInv, Num!Tick
    PROVE  NumbersInv'
<1>1. /\ now' = now + 1 /\ now' \in 0..MaxTime /\ now \in Nat
      /\ UNCHANGED <<past, forecast, use, review, late>>
  BY AnswersAssumption DEF NumbersInv, Num!Tick, Num!InputsAssumption
<1>2. UsesTyped'
  BY <1>1 DEF NumbersInv, UsesTyped, Num!Missing
<1>3. Num!Demand' = Num!Demand
  BY <1>1, DemandIs
<1>4. \A x : Recorded(x) => Recorded(x)'
  BY AnswersAssumption, <1>1, <1>3 DEF Recorded, Num!InputsAssumption
<1>. QED  BY <1>1, <1>2, <1>4 DEF NumbersInv, ForecastSound, Num!Stored

LEMMA NumbersStep == NumbersInv /\ [Num!Next]_(Num!vars) => NumbersInv'
<1> SUFFICES ASSUME NumbersInv, [Num!Next]_(Num!vars) PROVE NumbersInv'
  OBVIOUS
<1>1. CASE UNCHANGED Num!vars
  BY <1>1, DemandIs DEF Num!vars, NumbersInv, ForecastSound, UsesTyped, Num!Stored, Recorded
<1>2. ASSUME NEW u \in Uses, Num!Consume(u) \/ Num!Commit(u) PROVE NumbersInv'
  BY <1>2, ConsumeStep, CommitStep
<1>3. ASSUME NEW c \in Reviewers, Num!Review(c) \/ Num!RecordActuals(c) PROVE NumbersInv'
  BY <1>3, ReviewStep, RecordStep
<1>. QED
  BY <1>1, <1>2, <1>3, AnswerStep, StoreFiguresStep, OverrideStep, TickStep DEF Num!Next

(* The state is typed.                                                     *)
LEMMA NumbersTyped ==
    ASSUME NumbersInv
    PROVE  Num!TypeOK
<1>1. forecast.stage \in {"none", "answered", "stored"}
  BY StagesAre DEF NumbersInv
<1>2. /\ Num!Demand \in Nat /\ Num!Demand <= Cardinality(Uses)
      /\ \A a : Recorded(a) => a \in 0..Cardinality(Uses)
  <2>1. Num!Demand \in Nat /\ Num!Demand <= Cardinality(Uses) /\ Cardinality(Uses) \in Nat
    BY AnswersAssumption, NumSizes, DemandIs, DemandTyped, FS_CardinalityType DEF Num!InputsAssumption
  <2>. QED  BY <2>1 DEF Recorded
<1>3. Num!Stored => /\ forecast.term \in Num!Terms
                    /\ forecast.override \in Overrides \cup {Num!Missing}
                    /\ forecast.actual \in (0..Cardinality(Uses)) \cup {Num!Missing}
                    /\ forecast.mape = Num!Missing \/ forecast.mape >= 0
  <2> SUFFICES ASSUME Num!Stored
               PROVE  /\ forecast.term \in Num!Terms
                      /\ forecast.override \in Overrides \cup {Num!Missing}
                      /\ forecast.actual \in (0..Cardinality(Uses)) \cup {Num!Missing}
                      /\ forecast.mape = Num!Missing \/ forecast.mape >= 0
    OBVIOUS
  <2>1. forecast \in StoredForecasts
    BY StagesAre DEF NumbersInv
  <2>2. /\ forecast.term \in Num!Terms /\ forecast.override \in Overrides \cup {Num!Missing}
        /\ forecast.mape = Num!Missing \/ forecast.mape >= 0
    BY <2>1 DEF StoredForecasts
  <2>3. forecast.actual \in (0..Cardinality(Uses)) \cup {Num!Missing}
    BY <1>2 DEF NumbersInv
  <2>. QED  BY <2>2, <2>3
<1>4. \A u \in Uses : use[u].at \in (0..now) \cup {Num!Missing} /\ use[u].done \in BOOLEAN
  <2>1. now \in Nat
    BY DEF NumbersInv
  <2>. QED  BY <2>1 DEF NumbersInv, UsesTyped
<1>5. \A c \in Reviewers : review[c] = Num!Closed \/ review[c].actual \in 0..Cardinality(Uses)
  BY <1>2 DEF NumbersInv
<1>6. Num!Cardinality(Uses) = Cardinality(Uses)
  BY NumSizes
<1>. QED  BY <1>1, <1>3, <1>4, <1>5, <1>6 DEF NumbersInv, Num!TypeOK

LEMMA ResponsesHold ==
    ASSUME NumbersInv
    PROVE  Num!ResponseConsistent
<1>1. ASSUME forecast.stage = "answered"
      PROVE  LET r == forecast.response IN
             /\ r.quantity[1] <= r.quantity[2] /\ r.quantity[2] <= r.quantity[3]
             /\ \A h \in 1..3 :
                  0 <= r.range[h].lower /\ r.range[h].lower <= r.quantity[h]
                    /\ r.quantity[h] <= r.range[h].upper
             /\ r.reorder \in {"given", "baseline"} \/ (r.reorder = "none" /\ Num!Total(past) = 0)
             /\ \A s, t \in Num!Terms : s <= t => Num!Picked(r, s).quantity <= Num!Picked(r, t).quantity
  <2> DEFINE r == forecast.response
  <2>1. SoundResponse(r, past)
    BY <1>1, StagesAre DEF NumbersInv
  <2> HIDE DEF r
  <2>2. \A s, t \in Num!Terms : s <= t => Num!Picked(r, s).quantity <= Num!Picked(r, t).quantity
    BY <2>1, PickedGrows
  <2>3. \A h \in 1..3 : 0 <= r.range[h].lower
    BY <2>1 DEF SoundResponse, Responses, Ranges
  <2>. QED  BY <2>1, <2>2, <2>3 DEF SoundResponse, r
<1>2. ASSUME Num!Stored
      PROVE  LET p == forecast.predicted IN
             /\ p.range.lower <= p.quantity /\ p.quantity <= p.range.upper
             /\ forecast.term = 30 =>
                  LET suggested == Num!Comparison(past, forecast).ai IN
                  \A onHand \in 0..(suggested + 2) :
                    /\ Num!Drafted(forecast, onHand) + onHand >= suggested
                    /\ Num!Drafted(forecast, onHand) <= suggested
  <2>1. /\ forecast \in StoredForecasts
        /\ forecast.predicted.range.lower <= forecast.predicted.quantity
        /\ forecast.predicted.quantity <= forecast.predicted.range.upper
    BY <1>2, StagesAre DEF NumbersInv
  <2> DEFINE s == Num!Comparison(past, forecast).ai
  <2>2. s = IF forecast.override = Num!Missing THEN forecast.predicted.quantity ELSE forecast.override
    BY DEF Num!Comparison
  <2>3. /\ forecast.predicted.quantity \in Nat
        /\ forecast.override \in Nat \cup {Num!Missing}
    BY <2>1, AnswersAssumption DEF StoredForecasts, Figures, Num!InputsAssumption
  <2> HIDE DEF s
  <2>4. s \in Nat
    BY <2>2, <2>3
  <2>5. ASSUME NEW onHand \in 0..(s + 2)
        PROVE  Num!Drafted(forecast, onHand) + onHand >= s /\ Num!Drafted(forecast, onHand) <= s
    BY <2>2, <2>4, DraftedIs
  <2>. QED  BY <2>1, <2>5 DEF s
<1>. QED  BY <1>1, <1>2 DEF Num!ResponseConsistent

LEMMA ActualsHold ==
    ASSUME NumbersInv
    PROVE  Num!ActualsComplete
<1> SUFFICES ASSUME Num!Stored, forecast.actual # Num!Missing
             PROVE  /\ late \/ forecast.actual = Num!Demand
                    /\ forecast.actual <= Num!Demand
                    /\ forecast.mape = Num!Mape(forecast.predicted.quantity, forecast.actual)
                    /\ LET e == Num!Evaluation(past, forecast) IN
                       /\ e.rows = Num!Visualization(past, forecast).forecast
                       /\ forecast.override = Num!Missing =>
                            /\ Num!Mape(e.rows[e.recommended], forecast.actual) <= e.mape
                            /\ Num!Distance(forecast.actual, e.rows[e.recommended]) <= e.mae
  BY DEF Num!ActualsComplete
<1> DEFINE a == forecast.actual
           q == forecast.predicted.quantity
           rows == Num!Comparison(past, forecast)
           m == Num!Models[Num!Recommended(rows, a)]
<1>1. /\ Recorded(a) /\ forecast.mape = Num!Mape(q, a) /\ a \in Nat
  BY DEF NumbersInv, Recorded
<1>2. /\ forecast.term \in Num!Terms /\ forecast.override \in Nat \cup {Num!Missing} /\ q \in Nat
  <2>1. forecast \in StoredForecasts
    BY StagesAre DEF NumbersInv
  <2>. QED  BY <2>1, AnswersAssumption DEF StoredForecasts, Figures, Num!InputsAssumption
<1>3. past \in Seq(Nat) \ {<<>>}
  BY AnswersAssumption DEF NumbersInv, Num!InputsAssumption
<1>4. /\ rows \in [ai: Nat, moving_average: Nat, exponential_smoothing: Nat]
      /\ forecast.override = Num!Missing => rows.ai = q
  BY <1>2, <1>3, RowsAre
<1>5. /\ m \in {"ai", "moving_average", "exponential_smoothing"}
      /\ Num!Distance(a, rows[m]) <= Num!Distance(a, rows.ai)
  <2> HIDE DEF rows, a
  <2>. QED  BY <1>1, <1>4, RecommendedIs
<1>6. /\ Num!Evaluation(past, forecast).rows = rows
      /\ Num!Evaluation(past, forecast).recommended = m
      /\ Num!Evaluation(past, forecast).mape = forecast.mape
      /\ Num!Evaluation(past, forecast).mae = Num!Distance(a, q)
      /\ Num!Visualization(past, forecast).forecast = rows
  BY DEF Num!Evaluation, Num!Visualization
<1>7. forecast.override = Num!Missing =>
        Num!Mape(rows[m], a) <= Num!Mape(q, a) /\ Num!Distance(a, rows[m]) <= Num!Distance(a, q)
  <2> HIDE DEF rows, a, q, m
  <2>1. rows[m] \in Nat
    BY <1>4, <1>5
  <2>. QED  BY <1>1, <1>2, <1>4, <1>5, <2>1, MapeGrows
<1>8. (late \/ a = Num!Demand) /\ a <= Num!Demand
  BY <1>1 DEF Recorded
<1> HIDE DEF rows, m
<1>. QED  BY <1>1, <1>6, <1>7, <1>8

-----------------------------------------------------------------------------
(***************************************************************************)
(* The weekly report.  Every run that began is where its job is, or ended  *)
(* where it says; what a run wrote it wrote at its turn; the texts and the *)
(* mails are counted by the jobs that passed the step.                     *)
(***************************************************************************)
(* The sizes these modules speak of are sizes.                             *)
LEMMA RepSizes ==
    /\ \A S : Rep!IsFiniteSet(S) = IsFiniteSet(S)
    /\ \A S : Rep!Cardinality(S) = Cardinality(S)
<1>1. \A S : Rep!IsFiniteSet(S) = IsFiniteSet(S)
  BY DEF Rep!IsFiniteSet, IsFiniteSet
<1>2. \A S : Rep!Cardinality(S) = Cardinality(S)
  BY DEF Rep!Cardinality, Cardinality
<1>. QED  BY <1>1, <1>2

ReportJob == [stage: Rep!Running \cup Rep!Outside, failed: 0..Attempts, stalled: 0..Stalls]
IndexOf(q) == 1 + q.failed + q.stalled
LastRun == Attempts + Stalls

PdfStages == {"uploading", "settling", "giving_up", "caught"}
Written == {"counting", "rendering", "mailing", "ending", "done"} \cup PdfStages
Mailed == {"ending", "done"}

(* How many jobs are at one of these stages.                               *)
AtStages(stages, jobs) == Cardinality({j \in Jobs : jobs[j].stage \in stages})

(* A job that may still run was not given up.                              *)
ReportOK(q) == q.stage \in Rep!Running \cup {"none", "waiting"} => q.failed < Attempts
ReportsOK == \A j \in Jobs : ReportOK(report[j])

(* What a run wrote it wrote at its turn, and it is cut off once.          *)
TextOK(j, n) ==
    /\ <<j, n>> \in insight => \/ n < IndexOf(report[j])
                              \/ (n = IndexOf(report[j]) /\ report[j].stage \in Written)
    /\ <<j, n>> \in reportCut["text"] => n < IndexOf(report[j])

ArtifactOK(j, n) ==
    /\ artifact[<<j, n>>] = "ready" => <<j, n>> \in object
    /\ artifact[<<j, n>>] = "rendering" =>
         <<j, n>> \in reportCut["pdf"] \/ (n = IndexOf(report[j]) /\ report[j].stage \in PdfStages)
    /\ n = IndexOf(report[j]) /\ report[j].stage \in {"mailing", "ending", "done"} =>
         artifact[<<j, n>>] \in {"ready", "failed"}
    /\ n = IndexOf(report[j]) /\ report[j].stage = "settling" => <<j, n>> \in object

TextsOK == \A j \in Jobs, n \in 1..LastRun : TextOK(j, n)
ArtifactsOK == \A j \in Jobs, n \in 1..LastRun : ArtifactOK(j, n)

MailedOK == \A j \in Jobs :
    mailed[j] <= report[j].stalled + (IF report[j].stage \in Mailed THEN 1 ELSE 0)

CountsOK ==
    /\ Cardinality(insight) = written + AtStages({"counting"}, report) + Cardinality(reportCut["text"])
    /\ written + AtStages({"asking", "counting"}, report) <= Quota + Cardinality(Jobs) - 1

ReportInv == Rep!TypeOK /\ ReportsOK /\ TextsOK /\ ArtifactsOK /\ MailedOK /\ CountsOK

-----------------------------------------------------------------------------
LEMMA Finite ==
    /\ IsFiniteSet(Jobs) /\ Cardinality(Jobs) \in Nat \ {0}
    /\ Quota \in Nat /\ Attempts \in Nat /\ Attempts > 0 /\ Stalls \in Nat /\ LastRun \in Nat
    /\ IsFiniteSet(Rep!AllRuns)
<1>1. IsFiniteSet(Jobs) /\ Jobs # {} /\ Quota \in Nat /\ Attempts \in Nat /\ Attempts > 0
      /\ Stalls \in Nat
  BY AnswersAssumption, RepSizes DEF Rep!JobsAssumption
<1>2. Cardinality(Jobs) \in Nat \ {0}
  BY <1>1, FS_CardinalityType, FS_EmptySet
<1>3. IsFiniteSet(1..(Attempts + Stalls))
  BY <1>1, FS_Interval
<1>4. IsFiniteSet(Rep!AllRuns)
  BY <1>1, <1>3, FS_Product DEF Rep!AllRuns
<1>. QED  BY <1>1, <1>2, <1>4 DEF LastRun

LEMMA PhasesAre ==
    /\ Rep!Phases = {"text", "pdf"}
    /\ Rep!Phase["text"] = {"counting"} /\ Rep!Phase["pdf"] = PdfStages
BY DEF Rep!Phases, Rep!Phase, PdfStages

LEMMA ReportTyped ==
    ASSUME ReportInv
    PROVE  /\ report \in [Jobs -> ReportJob]
           /\ \A j \in Jobs : /\ report[j].failed \in Nat /\ report[j].stalled \in Nat
                              /\ IndexOf(report[j]) \in Nat \ {0}
                              /\ report[j].stage \in Rep!Running => IndexOf(report[j]) \in 1..LastRun
           /\ artifact \in [Rep!AllRuns -> {"none", "rendering", "ready", "failed"}]
           /\ object \subseteq Rep!AllRuns /\ insight \subseteq Rep!AllRuns
           /\ written \in Nat /\ mailed \in [Jobs -> Nat]
           /\ reportCut \in [Rep!Phases -> SUBSET Rep!AllRuns] /\ reportCut["text"] \subseteq Rep!AllRuns
           /\ IsFiniteSet(insight) /\ Cardinality(insight) \in Nat
           /\ IsFiniteSet(reportCut["text"]) /\ Cardinality(reportCut["text"]) \in Nat
<1>1. /\ report \in [Jobs -> ReportJob] /\ artifact \in [Rep!AllRuns -> {"none", "rendering", "ready", "failed"}]
      /\ object \subseteq Rep!AllRuns /\ insight \subseteq Rep!AllRuns /\ written \in Nat /\ mailed \in [Jobs -> Nat]
      /\ reportCut \in [Rep!Phases -> SUBSET Rep!AllRuns]
  BY DEF ReportInv, Rep!TypeOK, ReportJob
<1>2. ASSUME NEW j \in Jobs
      PROVE  /\ report[j].failed \in Nat /\ report[j].stalled \in Nat
             /\ IndexOf(report[j]) \in Nat \ {0}
             /\ report[j].stage \in Rep!Running => IndexOf(report[j]) \in 1..LastRun
  <2>1. report[j].failed \in 0..Attempts /\ report[j].stalled \in 0..Stalls
    BY <1>1 DEF ReportJob
  <2>2. report[j].stage \in Rep!Running => report[j].failed < Attempts
    BY DEF ReportInv, ReportsOK, ReportOK
  <2>. QED  BY <2>1, <2>2, Finite DEF IndexOf, LastRun
<1>3. reportCut["text"] \subseteq Rep!AllRuns
  BY <1>1, PhasesAre
<1>4. IsFiniteSet(insight) /\ IsFiniteSet(reportCut["text"])
  BY <1>1, <1>3, Finite, FS_Subset
<1>. QED  BY <1>1, <1>2, <1>3, <1>4, FS_CardinalityType

LEMMA NumIs ==
    ASSUME NEW stages, NEW jobs
    PROVE  AtStages(stages, jobs) \in Nat /\ AtStages(stages, jobs) <= Cardinality(Jobs)
<1>. DEFINE S == {j \in Jobs : jobs[j].stage \in stages}
<1>1. S \in SUBSET Jobs
  OBVIOUS
<1>2. IsFiniteSet(S) /\ Cardinality(S) <= Cardinality(Jobs)
  BY <1>1, Finite, FS_Subset
<1>3. Cardinality(S) \in Nat
  BY <1>2, FS_CardinalityType
<1>. QED  BY <1>2, <1>3 DEF AtStages

(* One job moves.                                                          *)
LEMMA Tally ==
    ASSUME NEW stages, NEW j \in Jobs,
           \A i \in Jobs \ {j} : report'[i].stage = report[i].stage
    PROVE  AtStages(stages, report') = AtStages(stages, report) + (IF report'[j].stage \in stages THEN 1 ELSE 0)
                                          - (IF report[j].stage \in stages THEN 1 ELSE 0)
<1>. DEFINE F == {i \in Jobs : report[i].stage \in stages}
            G == {i \in Jobs : report'[i].stage \in stages}
<1>1. IsFiniteSet(F) /\ IsFiniteSet(G) /\ Cardinality(F) \in Nat
  BY Finite, FS_Subset, FS_CardinalityType
<1>0. AtStages(stages, report) = Cardinality(F) /\ AtStages(stages, report') = Cardinality(G)
  BY DEF AtStages
<1>2. CASE report'[j].stage \in stages /\ report[j].stage \notin stages
  <2>1. G = F \cup {j} /\ j \notin F
    BY <1>2
  <2>2. Cardinality(G) = Cardinality(F) + 1
    BY <1>1, <2>1, FS_AddElement
  <2>. HIDE DEF F, G
  <2>. QED  BY <1>0, <1>1, <1>2, <2>2
<1>3. CASE report'[j].stage \notin stages /\ report[j].stage \in stages
  <2>1. G = F \ {j} /\ j \in F
    BY <1>3
  <2>2. Cardinality(G) = Cardinality(F) - 1
    BY <1>1, <2>1, FS_RemoveElement
  <2>. HIDE DEF F, G
  <2>. QED  BY <1>0, <1>1, <1>3, <2>2
<1>4. CASE (report'[j].stage \in stages) <=> (report[j].stage \in stages)
  <2>1. G = F
    BY <1>4
  <2>. HIDE DEF F, G
  <2>. QED  BY <1>0, <1>1, <1>4, <2>1
<1>. QED  BY <1>2, <1>3, <1>4

LEMMA ReportInit == Rep!Init => ReportInv
<1>. SUFFICES ASSUME Rep!Init PROVE ReportInv
  OBVIOUS
<1>1. /\ report \in [Jobs -> ReportJob]
      /\ \A j \in Jobs : report[j].stage = "none" /\ report[j].failed = 0 /\ report[j].stalled = 0
  BY Finite DEF Rep!Init, ReportJob, Rep!Outside
<1>2. /\ insight = {} /\ object = {} /\ written = 0 /\ mailed = [j \in Jobs |-> 0]
      /\ reportCut = [phase \in Rep!Phases |-> {}] /\ reportCut["text"] = {}
      /\ artifact = [r \in Rep!AllRuns |-> "none"]
  BY PhasesAre DEF Rep!Init
<1>3. Rep!TypeOK
  BY <1>1, <1>2 DEF Rep!TypeOK, ReportJob, Rep!Running
<1>4. ReportsOK /\ TextsOK
  BY <1>1, <1>2, Finite DEF ReportsOK, ReportOK, TextsOK, TextOK
<1>5. ArtifactsOK
  BY <1>1, <1>2 DEF ArtifactsOK, ArtifactOK, PdfStages, Rep!AllRuns, LastRun
<1>6. MailedOK
  BY <1>1, <1>2 DEF MailedOK, Mailed
<1>7. CountsOK
  <2>1. {j \in Jobs : report[j].stage \in {"counting"}} = {}
        /\ {j \in Jobs : report[j].stage \in {"asking", "counting"}} = {}
    BY <1>1
  <2>2. Cardinality({}) = 0
    BY FS_EmptySet
  <2>3. AtStages({"counting"}, report) = 0 /\ AtStages({"asking", "counting"}, report) = 0
    BY <2>1, <2>2 DEF AtStages
  <2>4. 0 + 0 <= Quota + Cardinality(Jobs) - 1
    BY Finite
  <2>5. Cardinality(insight) = 0 /\ Cardinality(reportCut["text"]) = 0 /\ written = 0
    BY <1>2, <2>2
  <2>. QED  BY <2>3, <2>4, <2>5 DEF CountsOK
<1>. QED  BY <1>3, <1>4, <1>5, <1>6, <1>7 DEF ReportInv

-----------------------------------------------------------------------------
(* The steps that go on within a run.                                      *)
LEMMA Forward ==
    ASSUME ReportInv, NEW j \in Jobs, NEW stage \in Rep!Running \cup {"waiting", "done"},
           report[j].stage \in Rep!Running \cup {"none", "waiting"}, Rep!Go(j, stage)
    PROVE  /\ report' \in [Jobs -> ReportJob] /\ report'[j].stage = stage
           /\ \A i \in Jobs : /\ IndexOf(report'[i]) = IndexOf(report[i])
                              /\ report'[i].stalled = report[i].stalled /\ report'[i].failed = report[i].failed
           /\ \A i \in Jobs \ {j} : report'[i].stage = report[i].stage
           /\ ReportsOK'
           /\ \A s \in {{"counting"}, {"asking", "counting"}} :
                AtStages(s, report') = AtStages(s, report) + (IF stage \in s THEN 1 ELSE 0)
                                                           - (IF report[j].stage \in s THEN 1 ELSE 0)
<1>1. report \in [Jobs -> ReportJob] /\ report' = [report EXCEPT ![j].stage = stage]
  BY ReportTyped DEF Rep!Go
<1>2. /\ report' \in [Jobs -> ReportJob] /\ report'[j].stage = stage
      /\ \A i \in Jobs : report'[i].stalled = report[i].stalled /\ report'[i].failed = report[i].failed
      /\ \A i \in Jobs \ {j} : report'[i].stage = report[i].stage
  BY <1>1 DEF ReportJob, Rep!Outside
<1>3. ReportsOK'
  BY <1>2 DEF ReportInv, ReportsOK, ReportOK
<1>4. \A i \in Jobs : IndexOf(report'[i]) = IndexOf(report[i])
  BY <1>2 DEF IndexOf
<1>5. ASSUME NEW s
      PROVE  AtStages(s, report') = AtStages(s, report) + (IF stage \in s THEN 1 ELSE 0)
                                                        - (IF report[j].stage \in s THEN 1 ELSE 0)
  <2>1. AtStages(s, report') = AtStages(s, report) + (IF report'[j].stage \in s THEN 1 ELSE 0)
                                                   - (IF report[j].stage \in s THEN 1 ELSE 0)
    BY <1>2, Tally
  <2>. QED  BY <1>2, <2>1
<1>. QED  BY <1>2, <1>3, <1>4, <1>5

(* Every run that is going on has its place among the runs.                *)
LEMMA RunIs ==
    ASSUME ReportInv, NEW j \in Jobs
    PROVE  /\ Rep!Run(j) = <<j, IndexOf(report[j])>>
           /\ report[j].stage \in Rep!Running => IndexOf(report[j]) \in 1..LastRun /\ Rep!Run(j) \in Rep!AllRuns
BY ReportTyped DEF Rep!Run, IndexOf, Rep!AllRuns, LastRun

LEMMA ReportTypeHolds ==
    ASSUME report' \in [Jobs -> ReportJob], ReportsOK',
           artifact' \in [Rep!AllRuns -> {"none", "rendering", "ready", "failed"}],
           object' \subseteq Rep!AllRuns, insight' \subseteq Rep!AllRuns, written' \in Nat,
           mailed' \in [Jobs -> Nat], reportCut' \in [Rep!Phases -> SUBSET Rep!AllRuns]
    PROVE  Rep!TypeOK'
<1>1. ASSUME NEW j \in Jobs, report'[j].stage \in Rep!Running
      PROVE  <<j, 1 + report'[j].failed + report'[j].stalled>> \in Rep!AllRuns
  <2>1. report'[j].failed \in 0..Attempts /\ report'[j].stalled \in 0..Stalls
        /\ report'[j].failed < Attempts
    BY <1>1 DEF ReportsOK, ReportOK, ReportJob
  <2>2. 1 + report'[j].failed + report'[j].stalled \in 1..(Attempts + Stalls)
    BY <2>1, Finite
  <2>. QED  BY <2>2 DEF Rep!AllRuns
<1>. QED  BY <1>1 DEF Rep!TypeOK, ReportJob, Rep!Run

(* A step within a run that writes nothing, and counts nothing.            *)
LEMMA QuietStep ==
    ASSUME ReportInv, NEW j \in Jobs, NEW stage \in Rep!Running \cup {"waiting", "done"},
           report[j].stage \in Rep!Running \cup {"none", "waiting"}, Rep!Go(j, stage),
           UNCHANGED <<artifact, object, insight, written, mailed, reportCut>>,
           stage = "asking" => written < Quota, stage # "counting",
           report[j].stage # "counting", report[j].stage = "asking" => stage \notin {"asking"},
           stage \in Written <=> report[j].stage \in Written,
           stage \in PdfStages <=> report[j].stage \in PdfStages, stage # "settling",
           stage \in {"mailing", "ending", "done"} => report[j].stage \in {"mailing", "ending", "done"},
           stage \in Mailed <=> report[j].stage \in Mailed
    PROVE  ReportInv'
<1>1. /\ report' \in [Jobs -> ReportJob] /\ ReportsOK'
      /\ report'[j].stage = stage
      /\ \A i \in Jobs : IndexOf(report'[i]) = IndexOf(report[i]) /\ report'[i].stalled = report[i].stalled
      /\ \A i \in Jobs \ {j} : report'[i].stage = report[i].stage
      /\ \A s \in {{"counting"}, {"asking", "counting"}} :
           AtStages(s, report') = AtStages(s, report) + (IF stage \in s THEN 1 ELSE 0)
                                                      - (IF report[j].stage \in s THEN 1 ELSE 0)
  BY Forward
<1>2. Rep!TypeOK'
  BY <1>1, ReportTyped, ReportTypeHolds
<1>3. TextsOK' /\ ArtifactsOK' /\ MailedOK'
  BY <1>1 DEF ReportInv, TextsOK, TextOK, ArtifactsOK, ArtifactOK, MailedOK
<1>4. CountsOK'
  <2>1. /\ AtStages({"counting"}, report') = AtStages({"counting"}, report)
        /\ AtStages({"asking", "counting"}, report) \in Nat
        /\ AtStages({"asking", "counting"}, report') \in Nat
        /\ AtStages({"asking", "counting"}, report') <= Cardinality(Jobs)
        /\ stage # "asking" =>
             AtStages({"asking", "counting"}, report') <= AtStages({"asking", "counting"}, report)
    BY <1>1, NumIs
  <2>. QED  BY <2>1, ReportTyped, Finite DEF ReportInv, CountsOK
<1>. QED  BY <1>1, <1>2, <1>3, <1>4 DEF ReportInv

LEMMA EnqueueStep == ASSUME ReportInv, NEW j \in Jobs, Rep!Enqueue(j) PROVE ReportInv'
BY QuietStep DEF Rep!Enqueue, Rep!At, Rep!Running, Written, PdfStages, Mailed

LEMMA CatchStep == ASSUME ReportInv, NEW j \in Jobs, Rep!Catch(j) PROVE ReportInv'
BY QuietStep DEF Rep!Catch, Rep!At, Rep!Running, Written, PdfStages, Mailed

LEMMA EndStep == ASSUME ReportInv, NEW j \in Jobs, Rep!End(j) PROVE ReportInv'
BY QuietStep DEF Rep!End, Rep!At, Rep!Running, Written, PdfStages, Mailed

LEMMA ReportRecordStep == ASSUME ReportInv, NEW j \in Jobs, Rep!Record(j) PROVE ReportInv'
<1>0. report[j].stage = "asking" /\ report[j].stage \in Rep!Running
  BY DEF Rep!Record, Rep!At, Rep!Running
<1>1. /\ report' \in [Jobs -> ReportJob] /\ ReportsOK' /\ report'[j].stage = "counting"
      /\ \A i \in Jobs : IndexOf(report'[i]) = IndexOf(report[i]) /\ report'[i].stalled = report[i].stalled
      /\ \A i \in Jobs \ {j} : report'[i].stage = report[i].stage
      /\ AtStages({"counting"}, report') = AtStages({"counting"}, report) + 1
      /\ AtStages({"asking", "counting"}, report') = AtStages({"asking", "counting"}, report)
  <2>1. "counting" \in Rep!Running /\ Rep!Go(j, "counting")
    BY DEF Rep!Running, Rep!Record
  <2>2. \A s \in {{"counting"}, {"asking", "counting"}} : AtStages(s, report) \in Nat
    BY NumIs
  <2>. QED  BY <1>0, <2>1, <2>2, Forward
<1>2. /\ insight' = insight \cup {<<j, IndexOf(report[j])>>}
      /\ UNCHANGED <<artifact, object, written, mailed, reportCut>>
      /\ <<j, IndexOf(report[j])>> \in Rep!AllRuns /\ IndexOf(report[j]) \in 1..LastRun
  BY <1>0, RunIs DEF Rep!Record
<1>3. <<j, IndexOf(report[j])>> \notin insight
  BY <1>0, <1>2, ReportTyped DEF ReportInv, TextsOK, TextOK, Written, PdfStages
<1>4. Rep!TypeOK'
  BY <1>1, <1>2, ReportTyped, ReportTypeHolds
<1>5. TextsOK'
  BY <1>0, <1>1, <1>2 DEF ReportInv, TextsOK, TextOK, Written, PdfStages
<1>6. ArtifactsOK' /\ MailedOK'
  BY <1>0, <1>1, <1>2 DEF ReportInv, ArtifactsOK, ArtifactOK, MailedOK, PdfStages, Mailed
<1>7. CountsOK'
  <2>1. Cardinality(insight') = Cardinality(insight) + 1
    BY <1>2, <1>3, ReportTyped, FS_AddElement
  <2>2. AtStages({"counting"}, report) \in Nat
    BY NumIs
  <2>. QED  BY <1>1, <1>2, <2>1, <2>2, ReportTyped DEF ReportInv, CountsOK
<1>. QED  BY <1>1, <1>4, <1>5, <1>6, <1>7 DEF ReportInv

LEMMA ReportCountStep == ASSUME ReportInv, NEW j \in Jobs, Rep!Count(j) PROVE ReportInv'
<1>0. report[j].stage = "counting" /\ report[j].stage \in Rep!Running
  BY DEF Rep!Count, Rep!At, Rep!Running
<1>1. /\ report' \in [Jobs -> ReportJob] /\ ReportsOK' /\ report'[j].stage = "rendering"
      /\ \A i \in Jobs : IndexOf(report'[i]) = IndexOf(report[i]) /\ report'[i].stalled = report[i].stalled
      /\ \A i \in Jobs \ {j} : report'[i].stage = report[i].stage
      /\ AtStages({"counting"}, report') = AtStages({"counting"}, report) - 1
      /\ AtStages({"asking", "counting"}, report') = AtStages({"asking", "counting"}, report) - 1
  <2>1. "rendering" \in Rep!Running /\ Rep!Go(j, "rendering")
    BY DEF Rep!Running, Rep!Count
  <2>2. \A s \in {{"counting"}, {"asking", "counting"}} : AtStages(s, report) \in Nat
    BY NumIs
  <2>. QED  BY <1>0, <2>1, <2>2, Forward
<1>2. written' = written + 1 /\ UNCHANGED <<artifact, object, insight, mailed, reportCut>>
  BY DEF Rep!Count
<1>3. Rep!TypeOK'
  BY <1>1, <1>2, ReportTyped, ReportTypeHolds
<1>4. TextsOK' /\ ArtifactsOK' /\ MailedOK'
  BY <1>0, <1>1, <1>2 DEF ReportInv, TextsOK, TextOK, ArtifactsOK, ArtifactOK, MailedOK, Written,
                          PdfStages, Mailed
<1>5. CountsOK'
  <2>1. AtStages({"counting"}, report) \in Nat /\ AtStages({"asking", "counting"}, report) \in Nat
    BY NumIs
  <2>. QED  BY <1>1, <1>2, <2>1, ReportTyped, Finite DEF ReportInv, CountsOK
<1>. QED  BY <1>1, <1>3, <1>4, <1>5 DEF ReportInv

LEMMA RenderStep ==
    ASSUME ReportInv, NEW j \in Jobs, NEW rendered \in BOOLEAN, Rep!Render(j, rendered)
    PROVE  ReportInv'
<1>. DEFINE stage == IF rendered THEN "uploading" ELSE "mailing"
<1>0. report[j].stage = "rendering" /\ report[j].stage \in Rep!Running /\ stage \in Rep!Running /\ Rep!Go(j, stage)
  BY DEF Rep!Render, Rep!At, Rep!Running
<1>1. /\ report' \in [Jobs -> ReportJob] /\ ReportsOK' /\ report'[j].stage = stage
      /\ \A i \in Jobs : IndexOf(report'[i]) = IndexOf(report[i]) /\ report'[i].stalled = report[i].stalled
      /\ \A i \in Jobs \ {j} : report'[i].stage = report[i].stage
      /\ \A s \in {{"counting"}, {"asking", "counting"}} : AtStages(s, report') = AtStages(s, report)
  <2>1. \A s \in {{"counting"}, {"asking", "counting"}} : AtStages(s, report) \in Nat
    BY NumIs
  <2>. QED  BY <1>0, <2>1, Forward
<1>2. /\ artifact' = [artifact EXCEPT ![<<j, IndexOf(report[j])>>] =
                                    IF rendered THEN "rendering" ELSE "failed"]
      /\ UNCHANGED <<object, insight, written, mailed, reportCut>>
      /\ <<j, IndexOf(report[j])>> \in Rep!AllRuns
  BY <1>0, RunIs DEF Rep!Render
<1>3. Rep!TypeOK'
  BY <1>1, <1>2, ReportTyped, ReportTypeHolds
<1>4. TextsOK' /\ MailedOK'
  BY <1>0, <1>1, <1>2 DEF ReportInv, TextsOK, TextOK, MailedOK, Written, PdfStages, Mailed
<1>5. ASSUME NEW i \in Jobs, NEW n \in 1..LastRun PROVE ArtifactOK(i, n)'
  <2>0. ArtifactOK(i, n) /\ <<i, n>> \in Rep!AllRuns
    BY DEF ReportInv, ArtifactsOK, Rep!AllRuns, LastRun
  <2>1. CASE <<i, n>> = <<j, IndexOf(report[j])>>
    <3>1. artifact'[<<i, n>>] = IF rendered THEN "rendering" ELSE "failed"
      BY <1>2, <2>0, <2>1, ReportTyped
    <3>. QED  BY <1>1, <2>1, <3>1 DEF ArtifactOK, PdfStages
  <2>2. CASE <<i, n>> # <<j, IndexOf(report[j])>>
    <3>1. artifact'[<<i, n>>] = artifact[<<i, n>>]
      BY <1>2, <2>0, <2>2, ReportTyped
    <3>2. i = j => n # IndexOf(report[j])
      BY <2>2
    <3>. QED  BY <1>1, <1>2, <2>0, <3>1, <3>2 DEF ArtifactOK
  <2>. QED  BY <2>1, <2>2
<1>6. CountsOK'
  BY <1>1, <1>2 DEF ReportInv, CountsOK
<1>. QED  BY <1>1, <1>3, <1>4, <1>5, <1>6 DEF ReportInv, ArtifactsOK

LEMMA UploadStep ==
    ASSUME ReportInv, NEW j \in Jobs, NEW outcome \in Rep!Outcomes, Rep!Upload(j, outcome)
    PROVE  ReportInv'
<1>. DEFINE stage == IF outcome \in Rep!Threw THEN "caught"
                     ELSE IF outcome = "stored" THEN "settling" ELSE "giving_up"
<1>0. report[j].stage = "uploading" /\ report[j].stage \in Rep!Running /\ stage \in Rep!Running /\ Rep!Go(j, stage)
  BY DEF Rep!Upload, Rep!At, Rep!Running
<1>1. /\ report' \in [Jobs -> ReportJob] /\ ReportsOK' /\ report'[j].stage = stage
      /\ \A i \in Jobs : IndexOf(report'[i]) = IndexOf(report[i]) /\ report'[i].stalled = report[i].stalled
      /\ \A i \in Jobs \ {j} : report'[i].stage = report[i].stage
      /\ \A s \in {{"counting"}, {"asking", "counting"}} : AtStages(s, report') = AtStages(s, report)
  <2>1. \A s \in {{"counting"}, {"asking", "counting"}} : AtStages(s, report) \in Nat
    BY NumIs
  <2>. QED  BY <1>0, <2>1, Forward
<1>2. /\ object \subseteq object' /\ object' \subseteq Rep!AllRuns
      /\ stage = "settling" => <<j, IndexOf(report[j])>> \in object'
      /\ UNCHANGED <<artifact, insight, written, mailed, reportCut>>
  BY <1>0, RunIs, ReportTyped DEF Rep!Upload, Rep!Stored, Rep!Threw
<1>3. stage \in PdfStages /\ report[j].stage \in PdfStages
  BY <1>0 DEF PdfStages
<1>. HIDE DEF stage
<1>4. Rep!TypeOK'
  BY <1>1, <1>2, ReportTyped, ReportTypeHolds
<1>5. TextsOK' /\ MailedOK' /\ CountsOK'
  BY <1>0, <1>1, <1>2, <1>3 DEF ReportInv, TextsOK, TextOK, MailedOK, CountsOK, Written, PdfStages,
                               Mailed
<1>6. ArtifactsOK'
  BY <1>1, <1>2, <1>3 DEF ReportInv, ArtifactsOK, ArtifactOK, PdfStages
<1>. QED  BY <1>1, <1>4, <1>5, <1>6 DEF ReportInv

LEMMA SettleStep == ASSUME ReportInv, NEW j \in Jobs, Rep!Settle(j) PROVE ReportInv'
<1>0. /\ report[j].stage \in {"settling", "giving_up", "caught"} /\ report[j].stage \in Rep!Running
      /\ "mailing" \in Rep!Running /\ Rep!Go(j, "mailing")
  BY DEF Rep!Settle, Rep!Running
<1>1. /\ report' \in [Jobs -> ReportJob] /\ ReportsOK' /\ report'[j].stage = "mailing"
      /\ \A i \in Jobs : IndexOf(report'[i]) = IndexOf(report[i]) /\ report'[i].stalled = report[i].stalled
      /\ \A i \in Jobs \ {j} : report'[i].stage = report[i].stage
      /\ \A s \in {{"counting"}, {"asking", "counting"}} : AtStages(s, report') = AtStages(s, report)
  <2>1. \A s \in {{"counting"}, {"asking", "counting"}} : AtStages(s, report) \in Nat
    BY NumIs
  <2>. QED  BY <1>0, <2>1, Forward
<1>2. /\ artifact' = [artifact EXCEPT ![<<j, IndexOf(report[j])>>] =
                                    IF report[j].stage = "settling" THEN "ready" ELSE "failed"]
      /\ UNCHANGED <<object, insight, written, mailed, reportCut>>
      /\ <<j, IndexOf(report[j])>> \in Rep!AllRuns
  BY <1>0, RunIs DEF Rep!Settle, Rep!At
<1>3. Rep!TypeOK'
  BY <1>1, <1>2, ReportTyped, ReportTypeHolds
<1>4. TextsOK' /\ MailedOK'
  BY <1>0, <1>1, <1>2 DEF ReportInv, TextsOK, TextOK, MailedOK, Written, PdfStages, Mailed
<1>5. ASSUME NEW i \in Jobs, NEW n \in 1..LastRun PROVE ArtifactOK(i, n)'
  <2>0. ArtifactOK(i, n) /\ <<i, n>> \in Rep!AllRuns
    BY DEF ReportInv, ArtifactsOK, Rep!AllRuns, LastRun
  <2>1. CASE <<i, n>> = <<j, IndexOf(report[j])>>
    <3>1. artifact'[<<i, n>>] = IF report[j].stage = "settling" THEN "ready" ELSE "failed"
      BY <1>2, <2>0, <2>1, ReportTyped
    <3>. QED  BY <1>1, <1>2, <2>0, <2>1, <3>1 DEF ArtifactOK
  <2>2. CASE <<i, n>> # <<j, IndexOf(report[j])>>
    <3>1. artifact'[<<i, n>>] = artifact[<<i, n>>]
      BY <1>2, <2>0, <2>2, ReportTyped
    <3>2. i = j => n # IndexOf(report[j])
      BY <2>2
    <3>. QED  BY <1>1, <1>2, <2>0, <3>1, <3>2 DEF ArtifactOK
  <2>. QED  BY <2>1, <2>2
<1>6. CountsOK'
  BY <1>1, <1>2 DEF ReportInv, CountsOK
<1>. QED  BY <1>1, <1>3, <1>4, <1>5, <1>6 DEF ReportInv, ArtifactsOK

LEMMA MailStep ==
    ASSUME ReportInv, NEW j \in Jobs, NEW told \in BOOLEAN, Rep!Mail(j, told)
    PROVE  ReportInv'
<1>0. report[j].stage = "mailing" /\ report[j].stage \in Rep!Running /\ "ending" \in Rep!Running /\ Rep!Go(j, "ending")
  BY DEF Rep!Mail, Rep!At, Rep!Running
<1>1. /\ report' \in [Jobs -> ReportJob] /\ ReportsOK' /\ report'[j].stage = "ending"
      /\ \A i \in Jobs : IndexOf(report'[i]) = IndexOf(report[i]) /\ report'[i].stalled = report[i].stalled
      /\ \A i \in Jobs \ {j} : report'[i].stage = report[i].stage
      /\ \A s \in {{"counting"}, {"asking", "counting"}} : AtStages(s, report') = AtStages(s, report)
  <2>1. \A s \in {{"counting"}, {"asking", "counting"}} : AtStages(s, report) \in Nat
    BY NumIs
  <2>. QED  BY <1>0, <2>1, Forward
<1>2. /\ mailed' \in [Jobs -> Nat] /\ mailed'[j] \in {mailed[j], mailed[j] + 1}
      /\ \A i \in Jobs \ {j} : mailed'[i] = mailed[i]
      /\ UNCHANGED <<artifact, object, insight, written, reportCut>>
  BY ReportTyped DEF Rep!Mail
<1>3. Rep!TypeOK'
  BY <1>1, <1>2, ReportTyped, ReportTypeHolds
<1>4. TextsOK' /\ ArtifactsOK' /\ CountsOK'
  BY <1>0, <1>1, <1>2 DEF ReportInv, TextsOK, TextOK, ArtifactsOK, ArtifactOK, CountsOK, Written,
                          PdfStages
<1>5. MailedOK'
  BY <1>0, <1>1, <1>2, ReportTyped DEF ReportInv, MailedOK, Mailed
<1>. QED  BY <1>1, <1>3, <1>4, <1>5 DEF ReportInv

-----------------------------------------------------------------------------
(* The steps that end a run.                                               *)
LEMMA LeaveStep ==
    ASSUME ReportInv, NEW j \in Jobs, NEW q \in ReportJob, report' = [report EXCEPT ![j] = q],
           report[j].stage \in Rep!Running \cup {"waiting"},
           q.stage \in {"waiting", "failed"}, IndexOf(q) = IndexOf(report[j]) + 1, ReportOK(q),
           \/ q.stalled = report[j].stalled /\ report[j].stage # "ending"
           \/ q.stalled = report[j].stalled + 1,
           Rep!Early(j), UNCHANGED <<artifact, object, insight, written, mailed>>
    PROVE  ReportInv'
<1>. DEFINE r == <<j, IndexOf(report[j])>>
<1>0. /\ report' \in [Jobs -> ReportJob] /\ report'[j] = q
      /\ \A i \in Jobs \ {j} : report'[i] = report[i]
      /\ \A i \in Jobs : report'[i].stage = IF i = j THEN q.stage ELSE report[i].stage
  BY ReportTyped
<1>1. ReportsOK'
  BY <1>0 DEF ReportInv, ReportsOK
<1>2. /\ reportCut' \in [Rep!Phases -> SUBSET Rep!AllRuns]
      /\ reportCut'["text"] = IF report[j].stage = "counting" THEN reportCut["text"] \cup {r} ELSE reportCut["text"]
      /\ reportCut'["pdf"] = IF report[j].stage \in PdfStages THEN reportCut["pdf"] \cup {r} ELSE reportCut["pdf"]
      /\ report[j].stage \in Rep!Running => r \in Rep!AllRuns
  <2>1. /\ Rep!Run(j) = r
        /\ report[j].stage \in Rep!Running => r \in Rep!AllRuns
    BY RunIs
  <2>2. \A phase \in Rep!Phases : report[j].stage \in Rep!Phase[phase] => report[j].stage \in Rep!Running
    BY PhasesAre DEF PdfStages, Rep!Running
  <2>3. reportCut' = [phase \in Rep!Phases |->
              IF report[j].stage \in Rep!Phase[phase] THEN reportCut[phase] \cup {r} ELSE reportCut[phase]]
    BY <2>1 DEF Rep!Early
  <2>4. reportCut \in [Rep!Phases -> SUBSET Rep!AllRuns]
    BY ReportTyped
  <2>. HIDE DEF r
  <2>5. reportCut' \in [Rep!Phases -> SUBSET Rep!AllRuns]
    BY <2>1, <2>2, <2>3, <2>4
  <2>. QED  BY <2>1, <2>3, <2>5, PhasesAre
<1>. HIDE DEF r
<1>3. Rep!TypeOK'
  BY <1>0, <1>1, <1>2, ReportTyped, ReportTypeHolds
<1>4. /\ \A i \in Jobs : IndexOf(report[i]) \in Nat
      /\ \A i \in Jobs : report[i].stalled \in Nat /\ mailed[i] \in Nat
  BY ReportTyped
<1>5. TextsOK'
  <2>. SUFFICES ASSUME NEW i \in Jobs, NEW n \in 1..LastRun PROVE TextOK(i, n)'
    BY DEF TextsOK
  <2>1. TextOK(i, n)
    BY DEF ReportInv, TextsOK
  <2>2. CASE i # j
    <3>1. <<i, n>> \in reportCut'["text"] => <<i, n>> \in reportCut["text"]
      BY <1>2, <2>2 DEF r
    <3>. QED  BY <1>0, <2>1, <2>2, <3>1 DEF TextOK
  <2>3. CASE i = j
    <3>1. <<i, n>> \in reportCut'["text"] => <<i, n>> \in reportCut["text"] \/ n = IndexOf(report[j])
      BY <1>2, <2>3 DEF r
    <3>2. n \in Nat
      BY Finite
    <3>. QED  BY <1>0, <1>4, <2>1, <2>3, <3>1, <3>2 DEF TextOK
  <2>. QED  BY <2>2, <2>3
<1>6. ArtifactsOK'
  <2>. SUFFICES ASSUME NEW i \in Jobs, NEW n \in 1..LastRun PROVE ArtifactOK(i, n)'
    BY DEF ArtifactsOK
  <2>1. ArtifactOK(i, n) /\ reportCut["pdf"] \subseteq reportCut'["pdf"]
    BY <1>2 DEF ReportInv, ArtifactsOK
  <2>2. CASE i # j
    BY <1>0, <2>1, <2>2 DEF ArtifactOK
  <2>3. CASE i = j
    <3>1. n = IndexOf(report[j]) /\ report[j].stage \in PdfStages => <<i, n>> \in reportCut'["pdf"]
      BY <1>2, <2>3 DEF r
    <3>. QED  BY <1>0, <2>1, <2>3, <3>1 DEF ArtifactOK
  <2>. QED  BY <2>2, <2>3
<1>7. MailedOK'
  <2>. SUFFICES ASSUME NEW i \in Jobs
                PROVE  mailed[i] <= report'[i].stalled + (IF report'[i].stage \in Mailed THEN 1 ELSE 0)
    BY DEF MailedOK
  <2>1. mailed[i] <= report[i].stalled + (IF report[i].stage \in Mailed THEN 1 ELSE 0)
    BY DEF ReportInv, MailedOK
  <2>2. CASE i # j
    BY <1>0, <2>1, <2>2
  <2>3. CASE i = j
    <3>1. q.stage \notin Mailed /\ (report[j].stage \in Mailed => report[j].stage = "ending")
      BY DEF Mailed, Rep!Running
    <3>. QED  BY <1>0, <1>4, <2>1, <2>3, <3>1
  <2>. QED  BY <2>2, <2>3
<1>8. CountsOK'
  <2>1. /\ AtStages({"counting"}, report') = AtStages({"counting"}, report) - (IF report[j].stage = "counting" THEN 1 ELSE 0)
        /\ AtStages({"asking", "counting"}, report') <= AtStages({"asking", "counting"}, report)
        /\ AtStages({"counting"}, report) \in Nat /\ AtStages({"asking", "counting"}, report) \in Nat
        /\ AtStages({"asking", "counting"}, report') \in Nat
    <3>1. \A s \in {{"counting"}, {"asking", "counting"}} :
            /\ AtStages(s, report') = AtStages(s, report) + (IF report'[j].stage \in s THEN 1 ELSE 0)
                                                          - (IF report[j].stage \in s THEN 1 ELSE 0)
            /\ AtStages(s, report) \in Nat /\ AtStages(s, report') \in Nat
      BY <1>0, Tally, NumIs
    <3>2. report'[j].stage \notin {"asking", "counting"} /\ report'[j].stage \notin {"counting"}
      BY <1>0
    <3>. QED  BY <3>1, <3>2
  <2>2. Cardinality(reportCut'["text"]) = Cardinality(reportCut["text"])
                                      + (IF report[j].stage = "counting" THEN 1 ELSE 0)
    <3>1. CASE report[j].stage = "counting"
      <4>1. r \in Rep!AllRuns
        BY <1>2, <3>1 DEF Rep!Running
      <4>2. r \notin reportCut["text"]
        BY <4>1, <1>4 DEF r, Rep!AllRuns, LastRun, ReportInv, TextsOK, TextOK
      <4>3. reportCut'["text"] = reportCut["text"] \cup {r}
        BY <1>2, <3>1
      <4>4. IsFiniteSet(reportCut["text"])
        BY ReportTyped
      <4>5. Cardinality(reportCut["text"] \cup {r}) = Cardinality(reportCut["text"]) + 1
        BY <4>2, <4>4, FS_AddElement
      <4>. QED  BY <3>1, <4>3, <4>5
    <3>2. CASE report[j].stage # "counting"
      BY <1>2, <3>2, ReportTyped
    <3>. QED  BY <3>1, <3>2
  <2>. QED  BY <2>1, <2>2, ReportTyped, Finite DEF ReportInv, CountsOK
<1>. QED  BY <1>1, <1>3, <1>5, <1>6, <1>7, <1>8 DEF ReportInv

(* The run throws.                                                         *)
LEMMA Thrown ==
    ASSUME ReportInv, NEW j \in Jobs, Rep!Throw(j), Rep!Early(j),
           report[j].stage \in (Rep!Running \ {"ending"}) \cup {"waiting"},
           UNCHANGED <<artifact, object, insight, written, mailed>>
    PROVE  ReportInv'
<1>. DEFINE q == [report[j] EXCEPT !.failed = @ + 1,
                     !.stage = IF report[j].failed + 1 < Attempts THEN "waiting" ELSE "failed"]
<1>1. /\ report[j] \in ReportJob /\ report[j].failed \in Nat /\ report[j].stalled \in Nat
      /\ report[j].failed < Attempts /\ Attempts \in Nat
  BY ReportTyped, Finite DEF ReportInv, ReportsOK, ReportOK
<1>2. /\ q \in ReportJob /\ q.failed = report[j].failed + 1 /\ q.stalled = report[j].stalled
      /\ q.stage = IF report[j].failed + 1 < Attempts THEN "waiting" ELSE "failed"
  <2>1. report[j].failed + 1 \in 0..Attempts
    BY <1>1
  <2>. QED  BY <1>1, <2>1 DEF ReportJob, Rep!Outside
<1>3. report' = [report EXCEPT ![j] = q]
  BY ReportTyped DEF Rep!Throw
<1>. HIDE DEF q
<1>4. IndexOf(q) = IndexOf(report[j]) + 1 /\ ReportOK(q)
  BY <1>1, <1>2 DEF IndexOf, ReportOK, Rep!Running
<1>. QED  BY <1>2, <1>3, <1>4, LeaveStep

LEMMA FailStep == ASSUME ReportInv, NEW j \in Jobs, Rep!Fail(j) PROVE ReportInv'
<1>1. report[j].stage \in Rep!Running \ {"ending"}
  BY DEF Rep!Fail, Rep!MayThrow
<1>. QED  BY <1>1, Thrown DEF Rep!Fail

LEMMA BeginStep ==
    ASSUME ReportInv, NEW j \in Jobs, NEW entitled \in BOOLEAN, Rep!Begin(j, entitled)
    PROVE  ReportInv'
<1>1. CASE entitled /\ written < Quota
  BY <1>1, QuietStep DEF Rep!Begin, Rep!At, Rep!Running, Written, PdfStages, Mailed
<1>2. CASE ~(entitled /\ written < Quota)
  <2>1. report[j].stage = "waiting" /\ Rep!Throw(j)
        /\ UNCHANGED <<artifact, object, insight, written, mailed, reportCut>>
    BY <1>2 DEF Rep!Begin, Rep!At
  <2>2. \A phase \in Rep!Phases : report[j].stage \notin Rep!Phase[phase]
    BY <2>1, PhasesAre DEF PdfStages
  <2>3. reportCut = [phase \in Rep!Phases |-> reportCut[phase]]
    BY ReportTyped
  <2>4. Rep!Early(j)
    BY <2>1, <2>2, <2>3 DEF Rep!Early
  <2>. QED  BY <2>1, <2>4, Thrown
<1>. QED  BY <1>1, <1>2

(* No job has died more often than all of them together.                   *)
LEMMA DiedIs == ASSUME ReportInv, NEW j \in Jobs, Rep!Died < Stalls PROVE report[j].stalled < Stalls
<1>. DEFINE D == {d \in Jobs \X (1..Stalls) : d[2] <= report[d[1]].stalled}
            f == [n \in 1..Stalls |-> <<j, n>>]
<1>1. IsFiniteSet(1..Stalls) /\ Cardinality(1..Stalls) = Stalls
  BY Finite, FS_Interval
<1>2. IsFiniteSet(D) /\ Cardinality(D) \in Nat
  <2>1. IsFiniteSet(Jobs \X (1..Stalls))
    BY <1>1, Finite, FS_Product
  <2>2. IsFiniteSet(D)
    BY <2>1, FS_Subset
  <2>. QED  BY <2>2, FS_CardinalityType
<1>3. report[j].stalled \in 0..Stalls
  BY ReportTyped DEF ReportJob
<1>4. CASE report[j].stalled = Stalls
  <2>1. f \in [1..Stalls -> D]
    BY <1>4, Finite
  <2>2. \A m, n \in 1..Stalls : f[m] = f[n] => m = n
    OBVIOUS
  <2>3. f \in Injection(1..Stalls, D)
    BY <2>1, <2>2 DEF Injection, IsInjective
  <2>. HIDE DEF f, D
  <2>4. Stalls <= Cardinality(D)
    BY <1>1, <1>2, <2>3, FS_Injection
  <2>5. FALSE
    BY <1>2, <2>4, Finite, RepSizes DEF Rep!Died, D
  <2>. QED  BY <2>5
<1>. QED  BY <1>3, <1>4, Finite

LEMMA DieStep == ASSUME ReportInv, NEW j \in Jobs, Rep!Die(j) PROVE ReportInv'
<1>. DEFINE q == [report[j] EXCEPT !.stalled = @ + 1, !.stage = "waiting"]
<1>1. /\ report[j] \in ReportJob /\ report[j].failed \in Nat /\ report[j].stalled \in Nat
      /\ report[j].failed < Attempts /\ report[j].stalled < Stalls /\ Stalls \in Nat
  BY ReportTyped, Finite, DiedIs DEF ReportInv, ReportsOK, ReportOK, Rep!Die
<1>2. /\ q \in ReportJob /\ q.failed = report[j].failed /\ q.stalled = report[j].stalled + 1
      /\ q.stage = "waiting"
  <2>1. report[j].stalled + 1 \in 0..Stalls
    BY <1>1
  <2>. QED  BY <1>1, <2>1 DEF ReportJob, Rep!Outside
<1>3. report' = [report EXCEPT ![j] = q]
  BY ReportTyped DEF Rep!Die
<1>. HIDE DEF q
<1>4. IndexOf(q) = IndexOf(report[j]) + 1 /\ ReportOK(q)
  BY <1>1, <1>2 DEF IndexOf, ReportOK, Rep!Running
<1>. QED  BY <1>2, <1>3, <1>4, LeaveStep DEF Rep!Die

LEMMA StutterStep == ASSUME ReportInv, UNCHANGED Rep!vars PROVE ReportInv'
BY DEF ReportInv, Rep!TypeOK, Rep!Run, ReportsOK, TextsOK, TextOK, ArtifactsOK, ArtifactOK, MailedOK, CountsOK,
       Rep!vars

LEMMA ReportNext == ASSUME ReportInv, [Rep!Next]_(Rep!vars) PROVE ReportInv'
BY BeginStep, EnqueueStep, ReportRecordStep, ReportCountStep, RenderStep, UploadStep, SettleStep, CatchStep,
   MailStep, EndStep, FailStep, DieStep, StutterStep
DEF Rep!Next

LEMMA ReportInvKeeps ==
    ASSUME ReportInv
    PROVE  Rep!ArtifactsTold /\ Rep!TextsCounted /\ Rep!MailedAgainOnlyAfterDeath
<1>1. Rep!ArtifactsTold
  <2>. SUFFICES ASSUME NEW r \in Rep!AllRuns
                PROVE  /\ artifact[r] = "ready" => r \in object
                       /\ artifact[r] = "rendering" =>
                            r \in reportCut["pdf"] \/ (r = Rep!Run(r[1]) /\ report[r[1]].stage \in Rep!Phase["pdf"])
                       /\ r = Rep!Run(r[1]) /\ report[r[1]].stage \in {"mailing", "ending", "done"} =>
                            artifact[r] \in {"ready", "failed"}
    BY DEF Rep!ArtifactsTold
  <2>1. PICK j \in Jobs, n \in 1..LastRun : r = <<j, n>>
    BY DEF Rep!AllRuns, LastRun
  <2>2. ArtifactOK(j, n) /\ r[1] = j
    BY <2>1 DEF ReportInv, ArtifactsOK
  <2>3. r = Rep!Run(j) <=> n = IndexOf(report[j])
    BY <2>1 DEF Rep!Run, IndexOf
  <2>. QED  BY <2>1, <2>2, <2>3, PhasesAre DEF ArtifactOK
<1>2. Rep!TextsCounted
  <2>1. {j \in Jobs : Rep!At(j, "counting")} = {j \in Jobs : report[j].stage \in {"counting"}}
    BY DEF Rep!At
  <2>2. Cardinality({j \in Jobs : Rep!At(j, "counting")}) = AtStages({"counting"}, report)
    BY <2>1 DEF AtStages
  <2>3. AtStages({"asking", "counting"}, report) \in Nat
    BY NumIs
  <2>. QED  BY <2>2, <2>3, ReportTyped, Finite, RepSizes DEF ReportInv, CountsOK, Rep!TextsCounted
<1>3. Rep!MailedAgainOnlyAfterDeath
  BY ReportTyped DEF ReportInv, MailedOK, Rep!MailedAgainOnlyAfterDeath, Mailed
<1>. QED  BY <1>1, <1>2, <1>3

-----------------------------------------------------------------------------
(* The parts together.  The steps of one touch no variable of another, so  *)
(* every step keeps the invariants of all.                                 *)

LEMMA CallsSteps == [ForecastsNext]_forecasts => [Next]_vars
BY DEF ForecastsNext, forecasts

LEMMA NumbersSteps ==
    part = "numbers" /\ [ForecastsNext]_forecasts => part' = part /\ [Num!Next]_(Num!vars)
BY DEF ForecastsNext, forecasts, num, Num!vars

LEMMA ReportSteps ==
    part = "report" /\ [ForecastsNext]_forecasts => part' = part /\ [Rep!Next]_(Rep!vars)
BY DEF ForecastsNext, forecasts, rep, Rep!vars

(* The part of a behaviour stays what it is.                               *)
LEMMA PartStays == [ForecastsNext]_forecasts => part' = part
BY DEF ForecastsNext, forecasts

(* However the calls of a tenant overlap and die, the inductive invariant  *)
(* holds (ai.service.ts, forecastPipeline.ts).                             *)
THEOREM InductiveInvariant == ForecastsSpec => []InductiveInv
<1>1. ForecastsInit => InductiveInv
  BY InitInv DEF ForecastsInit
<1>2. InductiveInv /\ [ForecastsNext]_forecasts => InductiveInv'
  BY StepInv, CallsSteps
<1> QED
  BY <1>1, <1>2, PTL DEF ForecastsSpec

(* The month's usage is what the stored forecasts come to, the quota is    *)
(* exceeded by fewer calls than overlap, and what is served again is a     *)
(* provider's (runForecastForItem).                                        *)
THEOREM UsageIsCounted == ForecastsSpec => []UsageCounted
<1>1. InductiveInv => UsageCounted
  BY DEF InductiveInv
<1> QED
  BY <1>1, InductiveInvariant, PTL

(* The breakers bound the calls of a provider that is down, the locks the  *)
(* calls for one item (forecastPipeline.ts, runForecastForItem).           *)
THEOREM CallsAreContained == ForecastsSpec => []CallsContained
<1>1. InductiveInv => CallsContained
  BY DEF InductiveInv
<1> QED
  BY <1>1, InductiveInvariant, PTL

(* Whatever a language model answers and whatever was consumed, every      *)
(* response is consistent, what is recorded of a horizon is what it        *)
(* consumed, and the models it is compared with stay within the history    *)
(* (coerceForecast, reconcileForecastActuals, buildForecastModelComparison). *)
THEOREM ForecastsAreConsistent == ForecastsSpec => []ForecastsConsistent
<1> DEFINE Inv == part = "numbers" => NumbersInv
<1>1. ForecastsInit => Inv
  BY NumbersInit DEF ForecastsInit
<1>2. Inv /\ [ForecastsNext]_forecasts => Inv'
  BY NumbersSteps, PartStays, NumbersStep
<1>3. Inv => ForecastsConsistent
  BY NumbersTyped, ResponsesHold, ActualsHold, ModelsHold DEF NumbersInv, ForecastsConsistent
<1> QED
  BY <1>1, <1>2, <1>3, PTL DEF ForecastsSpec

(* Whatever jobs run, fail, stall and die, at whatever quota and number of *)
(* attempts: a report that is offered is stored, one stays pending only    *)
(* when its run was cut off, a text that was kept is counted, about to be, *)
(* or was cut off before it was, the quota is passed by fewer reports than *)
(* there are jobs, and the owner is mailed again only after a death        *)
(* (report.worker.ts, reportGenerator.ts).                                 *)
THEOREM ReportsAreAccounted == ForecastsSpec => []ReportsAccounted
<1> DEFINE Inv == part = "report" => ReportInv
<1>1. ForecastsInit => Inv
  BY ReportInit DEF ForecastsInit
<1>2. Inv /\ [ForecastsNext]_forecasts => Inv'
  BY ReportSteps, PartStays, ReportNext
<1>3. Inv => ReportsAccounted
  BY ReportInvKeeps DEF ReportInv, ReportsAccounted
<1> QED
  BY <1>1, <1>2, <1>3, PTL DEF ForecastsSpec
=============================================================================
