------------------------------ MODULE Requests ------------------------------
(***************************************************************************)
(* Requests that carry one Idempotency-Key on a route that takes an        *)
(* attachment: the key is looked up and locked (idempotency.ts), the       *)
(* tenant's uploads of the window are counted (rateLimit.ts), then the     *)
(* handler runs and its answer is kept for the retries.  A request is an   *)
(* attempt of the client; attempts overlap when a client gives up waiting  *)
(* or sends twice.  Every Redis command is a step of its own.              *)
(***************************************************************************)
EXTENDS Naturals, FiniteSets

CONSTANTS
    Attempts,     \* requests that carry the key
    Others,       \* the tenant's other uploads, which are only counted
    Limit,        \* uploads a window admits
    Window,       \* length of the window
    Payloads,     \* what the attempts ask for
    Forms,        \* how they are encoded: "json" or "multipart"
    Delay,        \* longest time between reading the clock and the count
    MaxTime,      \* bound of the model: the clock
    MaxFaults     \* bound of the model: lost locks and failing Redis calls

RequestsAssumption ==
    /\ IsFiniteSet(Attempts) /\ IsFiniteSet(Others)
    /\ Attempts \cap Others = {} /\ {"none", "free"} \cap Attempts = {}
    /\ Limit \in Nat \ {0} /\ Window \in Nat \ {0} /\ Delay \in 0..Window
    /\ MaxTime \in Nat /\ MaxFaults \in Nat
    /\ Forms \subseteq {"json", "multipart"}

VARIABLES
    now,        \* Date.now() of the server processes
    request,    \* the attempts and the other uploads
    lock,       \* the attempt that holds idem:<key>:pending, or "free"
    record,     \* idem:<key>: whose answer is kept, or "none"
    bucket,     \* the sorted set of the limiter: who is in it
    admitted,   \* history: who passed the count
    uncounted,  \* history: who was let through because the count failed
    stray,      \* history: who went on without the lock, or lost it before releasing it
    faults      \* faults so far

vars == <<now, request, lock, record, bucket, admitted, uncounted, stray, faults>>

Requests == Attempts \cup Others

Outcomes == {"done", "refused", "failed"}

(* connected: the client still waits; stamp: the clock the limiter read;   *)
(* replayed: the attempt whose answer this one was given.                  *)
Request == [stage: {"new", "missed", "locked", "stamped", "running", "answered",
                    "recorded", "over"},
            connected: BOOLEAN, payload: Payloads \cup {"other"}, form: Forms, stamp: 0..MaxTime,
            outcome: Outcomes \cup {"none"}, replayed: Attempts \cup {"none"}]

TypeOK ==
    /\ now \in 0..MaxTime
    /\ request \in [Requests -> Request]
    /\ lock \in Attempts \cup {"free"}
    /\ record \in {"none"} \cup {a \in Attempts : request[a].outcome \in {"done", "refused"}}
    /\ bucket \subseteq Requests
    /\ admitted \subseteq Requests
    /\ uncounted \subseteq Requests
    /\ stray \subseteq Attempts
    /\ faults \in 0..MaxFaults

Init ==
    /\ now = 0
    /\ \E payload \in [Attempts -> Payloads], form \in Forms :
         request = [r \in Requests |->
           [stage |-> IF r \in Attempts THEN "new" ELSE "locked", connected |-> TRUE,
            payload |-> IF r \in Attempts THEN payload[r] ELSE "other", form |-> form,
            stamp |-> 0, outcome |-> "none", replayed |-> "none"]]
    /\ lock = "free"
    /\ record = "none"
    /\ bucket = {}
    /\ admitted = {}
    /\ uncounted = {}
    /\ stray = {}
    /\ faults = 0

Stage(r) == request[r].stage
Goto(r, stage) == request' = [request EXCEPT ![r].stage = stage]

Fault == faults < MaxFaults /\ faults' = faults + 1

(* The lock is deleted; a holder who works, or has yet to release it, has  *)
(* lost it, unless it is the one who releases it now.                      *)
Unlocked(done) ==
    /\ lock' = "free"
    /\ stray' = stray \cup ({a \in Attempts : a = lock
                   /\ Stage(a) \in {"locked", "stamped", "running", "answered", "recorded"}} \ done)

limiter == <<bucket, admitted, uncounted>>
locks == <<lock, stray>>

(***************************************************************************)
(* idempotencyKey: the answer of an earlier attempt is replayed, or        *)
(* refused with 409 to another payload; a key that is locked gets 409.     *)
(***************************************************************************)
(* The JSON parser leaves the body of a multipart request alone, and the   *)
(* parser of those comes later: their payload is not in the fingerprint.   *)
Fingerprint(a) ==
    IF request[a].form = "json" THEN request[a].payload ELSE "no body"

LookUp(a) ==
    /\ Stage(a) = "new"
    /\ \/ record = "none" /\ Goto(a, "missed")
       \/ /\ record # "none"
          /\ request' = [request EXCEPT
               ![a].stage = "over",
               ![a].replayed = IF Fingerprint(record) = Fingerprint(a) THEN record ELSE "none"]
    /\ UNCHANGED <<now, locks, record, limiter, faults>>

(* Mutant: the lock is set without NX. *)
TakeLockAnyway(a) ==
    /\ Stage(a) = "missed"
    /\ lock' = a
    /\ Goto(a, "locked")
    /\ UNCHANGED <<now, stray, record, limiter, faults>>

TakeLock(a) ==
    /\ Stage(a) = "missed"
    /\ \/ lock = "free" /\ lock' = a /\ Goto(a, "locked")
       \/ lock # "free" /\ lock' = lock /\ Goto(a, "over")
    /\ UNCHANGED <<now, stray, record, limiter, faults>>

(* "idempotency cache read failed - proceeding": without the lock, unless  *)
(* it is the answer of the SET that got lost.                              *)
ReadFails(a) ==
    /\ Stage(a) \in {"new", "missed"}
    /\ Fault
    /\ Goto(a, "locked")
    /\ \/ stray' = stray \cup {a} /\ UNCHANGED lock
       \/ Stage(a) = "missed" /\ lock = "free" /\ lock' = a /\ UNCHANGED stray
    /\ UNCHANGED <<now, record, limiter>>

(* The 120 seconds of the lock.                                            *)
LockExpires ==
    /\ lock # "free"
    /\ Fault
    /\ Unlocked({})
    /\ UNCHANGED <<now, request, record, limiter>>

(***************************************************************************)
(* slidingWindowLimiter: the clock is read, then one MULTI trims the       *)
(* bucket, adds this request and counts.                                   *)
(***************************************************************************)
Stamp(r) ==
    /\ Stage(r) = "locked"
    /\ request' = [request EXCEPT ![r].stage = "stamped", ![r].stamp = now]
    /\ UNCHANGED <<now, locks, record, limiter, faults>>

(* Mutant: the bucket is not trimmed. *)
CountedEver(r) == bucket \cup {r}

Counted(r) ==
    {q \in bucket : request[q].stamp + Window > request[r].stamp} \cup {r}

Answered(r, outcome) ==
    request' = [request EXCEPT ![r].stage = IF r \in Attempts THEN "answered" ELSE "over",
                               ![r].outcome = outcome]

GoOn(r) == Goto(r, IF r \in Attempts THEN "running" ELSE "over")

Count(r) ==
    /\ Stage(r) = "stamped"
    /\ bucket' = Counted(r)
    /\ IF Cardinality(Counted(r)) > Limit
       THEN Answered(r, "refused") /\ UNCHANGED admitted
       ELSE GoOn(r) /\ admitted' = admitted \cup {r}
    /\ UNCHANGED <<now, locks, record, uncounted, faults>>

(* "Rate-limiter must NEVER block on its own backend failure": the request *)
(* goes on.  The MULTI may have been carried out, its answer being lost.   *)
CountFails(r) ==
    /\ Stage(r) = "stamped"
    /\ Fault
    /\ bucket' \in {bucket, Counted(r)}
    /\ GoOn(r)
    /\ uncounted' = uncounted \cup {r}
    /\ UNCHANGED <<now, locks, record, admitted>>

(* The handler answers; res.json has sent the SET of the answer, if it is  *)
(* below 500, before the answer itself.                                    *)
Run(a, outcome) ==
    /\ Stage(a) = "running"
    /\ Answered(a, outcome)
    /\ UNCHANGED <<now, locks, record, limiter, faults>>

Keeps(a) == request[a].outcome # "failed"

Record(a) ==
    /\ Stage(a) = "answered"
    /\ record' = IF Keeps(a) THEN a ELSE record
    /\ Goto(a, "recorded")
    /\ UNCHANGED <<now, locks, limiter, faults>>

(* "idempotency cache write failed": no record, and no release either.     *)
RecordFails(a) ==
    /\ Stage(a) = "answered" /\ Keeps(a)
    /\ Fault
    /\ Goto(a, "over")
    /\ UNCHANGED <<now, locks, record, limiter>>

(* persist.then: the lock is deleted, whoever holds it.                    *)
Release(a) ==
    /\ Stage(a) = "recorded"
    /\ Unlocked({a})
    /\ Goto(a, "over")
    /\ UNCHANGED <<now, record, limiter, faults>>

(* res.once('close'): the connection closes, because the client gave up or *)
(* after the answer; the lock is deleted, whoever holds it.  The command   *)
(* follows the SET of the answer on the connection to Redis.               *)
Close(a) ==
    /\ request[a].connected
    /\ \/ Stage(a) \in {"locked", "stamped", "running", "recorded"}
       \/ Stage(a) = "over" /\ request[a].outcome # "none"
    /\ request' = [request EXCEPT ![a].connected = FALSE]
    /\ Unlocked({})
    /\ UNCHANGED <<now, record, limiter, faults>>

(* The clock may pass a stamp that is not counted yet by Delay at most.    *)
Tick ==
    /\ now < MaxTime
    /\ \A r \in Requests : Stage(r) = "stamped" => now < request[r].stamp + Delay
    /\ now' = now + 1
    /\ UNCHANGED <<request, locks, record, limiter, faults>>

Next ==
    \/ \E a \in Attempts :
         \/ LookUp(a) \/ TakeLock(a) \/ ReadFails(a)
         \/ Record(a) \/ RecordFails(a) \/ Release(a) \/ Close(a)
    \/ \E a \in Attempts, outcome \in Outcomes : Run(a, outcome)
    \/ \E r \in Requests : Stamp(r) \/ Count(r) \/ CountFails(r)
    \/ LockExpires
    \/ Tick

Spec == Init /\ [][Next]_vars

-----------------------------------------------------------------------------
(* Of the attempts inside the handler one holds the lock; another is there *)
(* only if it is a stray.  And no attempt is a stray as long as no call to *)
(* Redis failed, no lock expired and no connection was closed: a release   *)
(* deletes the lock whoever holds it, but then it is the releaser's.       *)
Inside == {a \in Attempts : Stage(a) \in {"locked", "stamped", "running"}}
OneInside ==
    /\ Cardinality(Inside \ stray) <= 1
    /\ stray # {} => faults > 0 \/ \E a \in Attempts : ~request[a].connected

(* A replay answers the question that was asked: the attempt whose answer  *)
(* is replayed carried the same payload (a JSON body).                     *)
ReplaysMatch ==
    \A a \in Attempts :
        request[a].replayed # "none" /\ request[a].form = "json"
            => request[request[a].replayed].payload = request[a].payload

(* The limiter passes Limit uploads in any window, less the time a count   *)
(* may come late: a later stamp may be counted first and trim for both.    *)
(* Each upload more than that cost a call to Redis that failed.            *)
WindowRespected ==
    \A r \in admitted :
        Cardinality({q \in admitted :
            request[q].stamp <= request[r].stamp
              /\ request[q].stamp + Window > request[r].stamp + Delay}) <= Limit

UncountedFew == Cardinality(uncounted) <= faults

(* An upload is refused only when Limit others of this window were sent:   *)
(* what left the window is not held against the tenant.                    *)
RefusedOnlyWhenBusy ==
    \A r \in Requests :
        Stage(r) = "stamped" /\ request'[r].outcome = "refused"
            => Cardinality({q \in Requests \ {r} :
                   /\ Stage(q) \notin {"new", "missed", "locked", "stamped"}
                   /\ request[q].stamp + Window > request[r].stamp}) >= Limit

=============================================================================
