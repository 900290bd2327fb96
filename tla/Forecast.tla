------------------------------ MODULE Forecast ------------------------------
(***************************************************************************)
(* Calls of the language models for one tenant (ai.service.ts,             *)
(* forecastPipeline.ts, aiUsage.repository.ts, the forecast and report     *)
(* workers): forecasts asked for one by one, batches of a worker, and the  *)
(* text of the weekly report.  Every call passes the monthly quota and the *)
(* circuit breakers of two providers; a forecast for one item also passes  *)
(* the item's six-hour lock and the cache of the last result.  Calls       *)
(* overlap at every statement on Redis or the database and at every call   *)
(* of a provider.                                                          *)
(***************************************************************************)
EXTENDS Naturals, Sequences, FiniteSets

CONSTANTS
    Items,         \* items of the tenant
    Clients,       \* calls that overlap in one process
    Cap,           \* forecasts a month
    Threshold,     \* consecutive failures that open a breaker
    MaxForecasts,  \* bound of the model: forecasts that are created
    MaxUncounted   \* bound of the model: forecasts whose call dies uncounted

ASSUME NumbersAssumption ==
    /\ Cap \in Nat
    /\ Threshold \in Nat \ {0}
    /\ MaxForecasts \in Nat /\ MaxUncounted \in Nat
    /\ IsFiniteSet(Clients) /\ Clients # {}

VARIABLES
    call,       \* the calls in progress
    lock,       \* the lock of every item
    cache,      \* what is cached for every item
    latest,     \* the newest forecast in the collection of every item
    created,    \* how many forecasts the collection holds
    used,       \* forecastCalls of the month's usage row
    breaker,    \* the breaker of every provider
    uncounted,  \* history: forecasts whose call died before it was counted
    robbed      \* history: items whose lock was deleted under its holder

vars == <<call, lock, cache, latest, created, used, breaker, uncounted, robbed>>

Providers == <<"groq", "gemini">>
Kinds == {"forecast", "report"}

(* A provider's forecast in its first day, or the baseline.                *)
Result == {"none", "real", "baseline"}

(* Where a call stands.  limited: it asks for one item and is subject to   *)
(* the lock; blocked: it found the lock taken; todo: the items a batch has *)
(* still to do after this one; via: the provider in use; result: what it   *)
(* has come to.                                                            *)
Idle == [stage |-> "idle"]
Working == [stage: {"lock", "peek", "quota", "route", "wait", "create", "count",
                    "store", "served"},
            kind: Kinds, item: Items \cup {"all"}, limited: BOOLEAN, blocked: BOOLEAN,
            todo: SUBSET Items, via: 1..Len(Providers),
            result: Result]

Breaker == [failures: 0..(Threshold + Cardinality(Clients) - 1), gate: {"closed", "open"}]

TypeOK ==
    /\ call \in [Clients -> {Idle} \cup Working]
    /\ lock \in [Items -> {"free", "taken"}]
    /\ cache \in [Items -> Result]
    /\ latest \in [Items -> Result]
    /\ created \in 0..MaxForecasts
    /\ used \in Nat
    /\ breaker \in [DOMAIN Providers -> Breaker]
    /\ uncounted \in 0..MaxUncounted
    /\ robbed \subseteq Items

Init ==
    /\ call = [c \in Clients |-> Idle]
    /\ lock = [i \in Items |-> "free"]
    /\ cache = [i \in Items |-> "none"]
    /\ latest = [i \in Items |-> "none"]
    /\ created = 0
    /\ used = 0
    /\ breaker = [p \in DOMAIN Providers |-> [failures |-> 0, gate |-> "closed"]]
    /\ uncounted = 0
    /\ robbed = {}

At(c, stage) == call[c].stage = stage
Goto(c, stage) == call' = [call EXCEPT ![c].stage = stage]

results == <<cache, latest, created>>
stored == <<lock, results, used>>
history == <<uncounted, robbed>>

-----------------------------------------------------------------------------
(* Who asks.                                                               *)

Asks(c, kind, item, limited, todo, stage) ==
    /\ At(c, "idle")
    /\ call' = [call EXCEPT ![c] =
         [stage |-> stage, kind |-> kind, item |-> item, limited |-> limited, blocked |-> FALSE,
          todo |-> todo, via |-> 1, result |-> "none"]]
    /\ UNCHANGED <<stored, breaker, history>>

(* A request of the dashboard or a job for one item.                       *)
AskOne(c, i) == Asks(c, "forecast", i, TRUE, {}, "lock")

(* The batch is refused when its items do not fit in what is left of the   *)
(* month; its worker asks for them one after another.                      *)
AskBatch(c, items) ==
    /\ used + Cardinality(items) <= Cap
    /\ \E i \in items : Asks(c, "forecast", i, FALSE, items \ {i}, "quota")

AskReport(c) == Asks(c, "report", "all", FALSE, {}, "quota")

(* The call is over, answered or refused; a batch goes on with an item.    *)
Rest(c) ==
    IF call[c].todo = {} THEN {Idle}
    ELSE {[call[c] EXCEPT !.stage = "quota", !.item = i, !.todo = @ \ {i}, !.via = 1,
                          !.result = "none"] : i \in call[c].todo}

Over(c) == \E next \in Rest(c) : call' = [call EXCEPT ![c] = next]

Deliver(c) ==
    /\ At(c, "served")
    /\ Over(c)
    /\ UNCHANGED <<stored, breaker, history>>

-----------------------------------------------------------------------------
(* runForecastForItem up to the providers.                                 *)

TakeLock(c) ==
    /\ At(c, "lock")
    /\ lock' = [lock EXCEPT ![call[c].item] = "taken"]
    /\ call' = [call EXCEPT ![c].stage = "peek", ![c].blocked = lock[call[c].item] = "taken"]
    /\ UNCHANGED <<results, used, breaker, history>>

(* peekCachedResult: the cached copy, or the newest document that has not  *)
(* expired, unless it is a baseline.  (A result that arrives between the   *)
(* two reads is found by the second: they are one step.)                   *)
Peeked(i) == IF "real" \in {cache[i], latest[i]} THEN "real" ELSE "none"

(* A call that found the lock taken is refused when there is no result.    *)
Peek(c) ==
    /\ At(c, "peek")
    /\ LET result == Peeked(call[c].item) IN
       CASE result # "none" -> call' = [call EXCEPT ![c].stage = "served", ![c].result = result]
         [] result = "none" /\ call[c].blocked -> Over(c)
         [] OTHER -> Goto(c, "quota")
    /\ UNCHANGED <<stored, breaker, history>>

(* checkQuota reads the usage, the call is counted when it has succeeded.  *)
(* Reports have a cap of their own, which is not followed here.            *)
WithinQuota(kind) == kind = "forecast" => used + 1 <= Cap

CheckQuota(c) ==
    /\ At(c, "quota")
    /\ \/ WithinQuota(call[c].kind) /\ Goto(c, "route")
       \/ (~WithinQuota(call[c].kind) \/ call[c].kind = "report") /\ Over(c)
    /\ UNCHANGED <<stored, breaker, history>>

-----------------------------------------------------------------------------
(* The circuit breakers and the chain of providers.                        *)

Closed == [failures |-> 0, gate |-> "closed"]

(* Mutant: the gate is cleared, the failures are not. *)
AskedGateOnly(b) == {b, [b EXCEPT !.gate = "closed"]}

(* isOpen clears a breaker whose cooldown has elapsed; how long ago it     *)
(* opened is left open.                                                    *)
Asked(b) == IF b.gate = "closed" THEN {b} ELSE {b, Closed}

(* recordFailure opens at the threshold, or dates the opening anew.        *)
Failed(b) ==
    [failures |-> b.failures + 1,
     gate |-> IF b.failures + 1 >= Threshold THEN "open" ELSE b.gate]

(* Both providers are exhausted: a forecast falls back to the baseline     *)
(* (the log asks both breakers again), a text fails.                       *)
Exhausted(c, breakers) ==
    IF call[c].kind = "forecast"
    THEN /\ call' = [call EXCEPT ![c].stage = "create", ![c].via = 1, ![c].result = "baseline"]
         /\ \E g \in Asked(breakers[1]), m \in Asked(breakers[2]) : breaker' = <<g, m>>
    ELSE Over(c) /\ breaker' = breakers

(* One turn of the event loop: the first provider from p on whose breaker  *)
(* lets the call through, given the breakers.                              *)
Invoke(c, p, breakers) ==
    /\ call' = [call EXCEPT ![c].stage = "wait", ![c].via = p]
    /\ breaker' = breakers

Gemini(c, breakers) ==
    \E b \in Asked(breakers[2]) :
        LET asked == [breakers EXCEPT ![2] = b] IN
        IF b.gate = "closed" THEN Invoke(c, 2, asked) ELSE Exhausted(c, asked)

Groq(c) ==
    \E b \in Asked(breaker[1]) :
        LET asked == [breaker EXCEPT ![1] = b] IN
        IF b.gate = "closed" THEN Invoke(c, 1, asked) ELSE Gemini(c, asked)

Route(c) ==
    /\ At(c, "route")
    /\ Groq(c)
    /\ UNCHANGED <<stored, history>>

ProviderAnswers(c) ==
    /\ At(c, "wait")
    /\ breaker' = [breaker EXCEPT ![call[c].via] = Closed]
    /\ call' = [call EXCEPT ![c].stage = "create", ![c].via = 1, ![c].result = "real"]
    /\ UNCHANGED <<stored, history>>

(* An error, the timeout, or text that is no forecast.                     *)
ProviderFails(c) ==
    /\ At(c, "wait")
    /\ LET failed == [breaker EXCEPT ![call[c].via] = Failed(@)] IN
       IF call[c].via = 1 THEN Gemini(c, failed) ELSE Exhausted(c, failed)
    /\ UNCHANGED <<stored, history>>

-----------------------------------------------------------------------------
(* The result is stored and counted.                                       *)

(* (The text of a report is stored as an insight.)                         *)
Create(c) ==
    /\ At(c, "create")
    /\ IF call[c].kind = "forecast"
       THEN /\ created < MaxForecasts
            /\ created' = created + 1
            /\ latest' = [latest EXCEPT ![call[c].item] = call[c].result]
            /\ Goto(c, "count")
       ELSE Over(c) /\ UNCHANGED <<created, latest>>
    /\ UNCHANGED <<lock, cache, used, breaker, history>>

(* Mutant: only a provider's answer is counted. *)
CountAnswers(c) ==
    /\ At(c, "count")
    /\ used' = IF call[c].result = "real" THEN used + 1 ELSE used
    /\ Goto(c, "store")
    /\ UNCHANGED <<lock, results, breaker, history>>

Count(c) ==
    /\ At(c, "count")
    /\ used' = used + 1
    /\ Goto(c, "store")
    /\ UNCHANGED <<lock, results, breaker, history>>

(* Past the lock, before the end. *)
Holds(c, i) ==
    /\ call[c].stage \notin {"idle", "lock", "served"}
    /\ call[c].limited /\ ~call[c].blocked /\ call[c].item = i

(* The baseline is kept as history only and gives the lock back, whoever   *)
(* has taken it.                                                           *)
Store(c) ==
    /\ At(c, "store")
    /\ LET i == call[c].item IN
       IF call[c].result = "baseline"
       THEN /\ lock' = [lock EXCEPT ![i] = "free"]
            /\ robbed' = IF \E d \in Clients \ {c} : Holds(d, i) THEN robbed \cup {i} ELSE robbed
            /\ UNCHANGED cache
       ELSE /\ cache' = [cache EXCEPT ![i] = call[c].result]
            /\ UNCHANGED <<lock, robbed>>
    /\ Over(c)
    /\ UNCHANGED <<latest, created, used, breaker, uncounted>>

(* A statement fails or the process ends.  What was written stays, the     *)
(* lock among it; a batch goes on with its next item.                      *)
Dies(c) ==
    /\ call[c].stage \notin {"idle", "lock", "served"}
    /\ uncounted' = uncounted + (IF At(c, "count") THEN 1 ELSE 0)
    /\ uncounted' <= MaxUncounted
    /\ Over(c)
    /\ UNCHANGED <<stored, breaker, robbed>>

-----------------------------------------------------------------------------
(* Time: no call lasts as long as a lock.                                  *)

LockExpires(i) ==
    /\ lock[i] = "taken"
    /\ \A c \in Clients : ~Holds(c, i)
    /\ lock' = [lock EXCEPT ![i] = "free"]
    /\ UNCHANGED <<call, results, used, breaker, history>>

(* A day has passed since the newest document of the item was written;     *)
(* its copy in the cache goes with it.                                     *)
Expire(i) ==
    /\ latest[i] # "none" \/ cache[i] # "none"
    /\ \A c \in Clients : call[c].stage \in {"count", "store"} => call[c].item # i
    /\ latest' = [latest EXCEPT ![i] = "none"]
    /\ cache' = [cache EXCEPT ![i] = "none"]
    /\ UNCHANGED <<call, lock, created, used, breaker, history>>

Next ==
    \/ \E c \in Clients, i \in Items : AskOne(c, i)
    \/ \E c \in Clients, items \in SUBSET Items : AskBatch(c, items)
    \/ \E c \in Clients :
         \/ AskReport(c) \/ Deliver(c)
         \/ TakeLock(c) \/ Peek(c) \/ CheckQuota(c)
         \/ Route(c) \/ ProviderAnswers(c) \/ ProviderFails(c)
         \/ Create(c) \/ Count(c) \/ Store(c) \/ Dies(c)
    \/ \E i \in Items : LockExpires(i) \/ Expire(i)

Spec == Init /\ [][Next]_vars

-----------------------------------------------------------------------------
(* A result that is handed out again is a provider's: a baseline is never  *)
(* served from the cache or from the history (ai.service.ts:316).          *)
RepeatedIsReal ==
    \A c \in Clients : At(c, "served") => call[c].result = "real"

(* The quota is exceeded by no more than the calls that overlap: each of   *)
(* them may have passed the check before the others were counted           *)
(* (ai.service.ts:177).                                                    *)
Unpaid ==
    {c \in Clients : call[c].stage \in {"route", "wait", "create", "count"}
                       /\ call[c].kind = "forecast"}

UsageWithinQuota ==
    used + Cardinality(Unpaid) <= Cap + Cardinality(Clients) - 1

(* The month's usage counts every stored forecast but those whose call     *)
(* died in between (ai.service.ts:193-255).                                *)
UsageCountsForecasts ==
    created = used + uncounted + Cardinality({c \in Clients : At(c, "count")})

(* While a provider keeps failing, it is called a bounded number of times  *)
(* between two cooldowns, although calls in flight were let in before the  *)
(* breaker opened and may close it again (forecastPipeline.ts:46-82).      *)
Waiting(p) == Cardinality({c \in Clients : At(c, "wait") /\ call[c].via = p})

OutageIsBounded ==
    \A p \in DOMAIN Providers :
        /\ breaker[p].failures + Waiting(p) <= Threshold - 1 + Cardinality(Clients)
        /\ breaker[p].gate = "closed" => breaker[p].failures < Threshold

(* Two limited calls work on the same item only when the baseline of a     *)
(* third, or of a batch, has deleted the lock of the first.                *)
OneCallPerItem ==
    \A i \in Items \ robbed : Cardinality({c \in Clients : Holds(c, i)}) <= 1

(* Whoever calls and dies: a result handed out again is a provider's, and  *)
(* the usage of the month is what the stored forecasts come to.            *)
UsageCounted == TypeOK /\ RepeatedIsReal /\ UsageWithinQuota /\ UsageCountsForecasts

(* However the calls overlap: a provider that is down is called a bounded  *)
(* number of times, an item by one call at a time.                         *)
CallsContained == OutageIsBounded /\ OneCallPerItem
=============================================================================
