-------------------------- MODULE LowStockMonitor --------------------------
(***************************************************************************)
(* The alerts for one balance row that runs low: the episodes that stock   *)
(* operations open and close (inventory.repository.ts reconcileLowStock),  *)
(* the monitor that serves them (lowStock.automation.ts) and the worker    *)
(* that sends their mail (workers/email.worker.ts).                        *)
(*                                                                         *)
(* A reconciliation reads the row and writes it later.  In a transaction   *)
(* both see one snapshot, and a write of the row by anybody else aborts it *)
(* (or waits for it), while a notification that is inserted meanwhile is   *)
(* neither seen nor in conflict.  Outside of a transaction the write asks  *)
(* for the version it read, which only movements change: an alert that a   *)
(* new reorder level began or ended since then is overwritten.             *)
(*                                                                         *)
(* A run of the monitor works on the row it read; the episode may be over, *)
(* and another one begun, before it is done.  Runs overlap when one takes  *)
(* longer than the interval, and a run that fails or dies leaves the rest  *)
(* to the next tick.  Item and warehouse stay live, and so do the          *)
(* recipients and their preferences.                                       *)
(***************************************************************************)
EXTENDS Naturals

CONSTANTS
    Users,        \* number of recipients, who are served in the order of their ids
    InApp,        \* recipients who want to see alerts in the application
    ByMail,       \* recipients who want them by mail
    Runs,         \* runs of the monitor that may overlap
    Attempts,     \* attempts of a mail job
    Checks,       \* reconciliations outside of a transaction that may overlap
    MaxEpisodes,  \* bound of the model: episodes of the row
    MaxFailures   \* bound of the model: runs of the monitor that fail

ASSUME UsersAssumption == Users \in Nat
ASSUME PreferencesAssumption == InApp \subseteq 1..Users /\ ByMail \subseteq 1..Users
ASSUME AttemptsAssumption == Attempts \in Nat \ {0}
ASSUME BoundsAssumption == MaxEpisodes \in Nat /\ MaxFailures \in Nat

VARIABLES
    row,        \* the low-stock fields of the balance
    opened,     \* episodes so far: the newest one has this number
    feed,       \* the notification of an episode for a user
    txn,        \* the transaction that reconciles the row, if one is open
    plain,      \* the reconciliations outside of a transaction
    missed,     \* history: notifications that the end of their episode missed
    run,        \* the runs of the monitor
    failures,   \* history: how many runs failed
    job,        \* the mail jobs, by the episode and the user in their job id
    delivered,  \* jobs whose emailDeliveries document says so
    sent,       \* history: mails the provider took
    unrecorded  \* history: mails it took without a record being written

alerts == <<row, opened, feed, missed>>
checks == <<txn, plain>>
monitor == <<run, failures>>
mail == <<delivered, sent, unrecorded>>
vars == <<alerts, checks, monitor, job, mail>>

Episodes == 1..MaxEpisodes

(* episode 0 is lowStockEpisodeId = null.                                  *)
Row == [episode: 0..MaxEpisodes, notified: BOOLEAN, forecast: {"unset", "later", "due"}]
Resolved == [episode |-> 0, notified |-> FALSE, forecast |-> "unset"]

(* Of the transactions that are open on the row one can commit: the others *)
(* conflict with its write.  late: notifications inserted since its start. *)
NoTxn == [stage |-> "none"]
Txn == {NoTxn} \cup [stage: {"open"}, seen: 0..MaxEpisodes, late: SUBSET (Episodes \X InApp)]

(* "write": the row was read; "feed": an episode was ended, and its        *)
(* notifications are left to resolve.                                      *)
Check == [stage: {"none", "write", "feed"}, seen: 0..MaxEpisodes]

Idle == [stage |-> "idle"]
Run == {Idle} \cup [stage: {"feed", "mail", "mark", "forecast"},
                    seen: Row, user: 1..Users + 1]

Job == [stage: {"none", "waiting", "sending", "sent", "recorded", "done", "failed"},
        attempts: 0..Attempts]

TypeOK ==
    /\ row \in Row
    /\ opened \in 0..MaxEpisodes
    /\ feed \in [Episodes \X InApp -> {"none", "open", "resolved"}]
    /\ txn \in Txn
    /\ plain \in [Checks -> Check]
    /\ missed \subseteq Episodes \X InApp
    /\ run \in [Runs -> Run]
    /\ failures \in 0..MaxFailures
    /\ job \in [Episodes \X ByMail -> Job]
    /\ delivered \subseteq Episodes \X ByMail
    /\ sent \in [Episodes \X ByMail -> 0..Attempts]
    /\ unrecorded \in [Episodes \X ByMail -> 0..Attempts]

Init ==
    /\ row = Resolved
    /\ opened = 0
    /\ feed = [n \in Episodes \X InApp |-> "none"]
    /\ txn = NoTxn
    /\ plain = [c \in Checks |-> [stage |-> "none", seen |-> 0]]
    /\ missed = {}
    /\ run = [r \in Runs |-> Idle]
    /\ failures = 0
    /\ job = [m \in Episodes \X ByMail |-> [stage |-> "none", attempts |-> 0]]
    /\ delivered = {}
    /\ sent = [m \in Episodes \X ByMail |-> 0]
    /\ unrecorded = [m \in Episodes \X ByMail |-> 0]

-----------------------------------------------------------------------------
(* Reconciliations in a transaction: of a movement, of a change of the     *)
(* reorder level, and of every row at the start of the monitor's tick.     *)

OpenNotices(e) == {n \in DOMAIN feed : n[1] = e /\ feed[n] = "open"}
ResolvedFeed(N) == [n \in DOMAIN feed |-> IF n \in N THEN "resolved" ELSE feed[n]]
NewEpisode == [episode |-> opened + 1, notified |-> FALSE, forecast |-> "unset"]

Begin ==
    /\ txn = NoTxn
    /\ txn' = [stage |-> "open", seen |-> row.episode, late |-> {}]
    /\ UNCHANGED <<alerts, plain, monitor, job, mail>>

StockFalls ==
    /\ txn.stage = "open"
    /\ txn.seen = 0
    /\ opened < MaxEpisodes
    /\ opened' = opened + 1
    /\ row' = NewEpisode
    /\ txn' = NoTxn
    /\ UNCHANGED <<feed, plain, missed, monitor, job, mail>>

StockRecovers ==
    /\ txn.stage = "open"
    /\ txn.seen # 0
    /\ row' = Resolved
    /\ feed' = ResolvedFeed(OpenNotices(txn.seen) \ txn.late)
    /\ missed' = missed \cup txn.late
    /\ txn' = NoTxn
    /\ UNCHANGED <<opened, plain, monitor, job, mail>>

(* The transaction finds the marker right, or is aborted.                  *)
EndTxn ==
    /\ txn.stage = "open"
    /\ txn' = NoTxn
    /\ UNCHANGED <<alerts, plain, monitor, job, mail>>

-----------------------------------------------------------------------------
(* Reconciliations outside of a transaction: the clean-up after a receipt, *)
(* and a row of an import.                                                 *)

SetCheck(c, stage, seen) == plain' = [plain EXCEPT ![c] = [stage |-> stage, seen |-> seen]]
EndCheck(c) == SetCheck(c, "none", 0)

ReadRow(c) ==
    /\ plain[c].stage = "none"
    /\ SetCheck(c, "write", row.episode)
    /\ UNCHANGED <<alerts, txn, monitor, job, mail>>

(* It read no marker and low stock: a marker set since then is overwritten. *)
OpenRow(c) ==
    /\ plain[c] = [stage |-> "write", seen |-> 0]
    /\ opened < MaxEpisodes
    /\ opened' = opened + 1
    /\ row' = NewEpisode
    /\ missed' = missed \cup OpenNotices(row.episode)
    /\ txn' = NoTxn
    /\ EndCheck(c)
    /\ UNCHANGED <<feed, monitor, job, mail>>

(* It read a marker and enough stock.  The row may be of a later episode.  *)
ClearRow(c) ==
    LET seen == plain[c].seen IN
    /\ plain[c].stage = "write"
    /\ seen # 0
    /\ row' = Resolved
    /\ missed' = IF row.episode = seen THEN missed ELSE missed \cup OpenNotices(row.episode)
    /\ txn' = NoTxn
    /\ SetCheck(c, "feed", seen)
    /\ UNCHANGED <<opened, feed, monitor, job, mail>>

ClearFeed(c) ==
    /\ plain[c].stage = "feed"
    /\ feed' = ResolvedFeed(OpenNotices(plain[c].seen))
    /\ EndCheck(c)
    /\ UNCHANGED <<row, opened, txn, missed, monitor, job, mail>>

(* It finds the marker right, the version has moved on, or it fails.       *)
StopCheck(c) ==
    /\ plain[c].stage # "none"
    /\ missed' = IF plain[c].stage = "feed"
                 THEN missed \cup OpenNotices(plain[c].seen) ELSE missed
    /\ EndCheck(c)
    /\ UNCHANGED <<row, opened, feed, txn, monitor, job, mail>>

CheckStep(c) == ReadRow(c) \/ OpenRow(c) \/ ClearRow(c) \/ ClearFeed(c) \/ StopCheck(c)

-----------------------------------------------------------------------------
(* The interval to the next forecast is over.                              *)
ForecastDue ==
    /\ row.forecast = "later"
    /\ row' = [row EXCEPT !.forecast = "due"]
    /\ UNCHANGED <<opened, feed, checks, missed, monitor, job, mail>>

-----------------------------------------------------------------------------
(* processTenantLowStock and processBalanceLowStock.                       *)

Goto(r, state) == run' = [run EXCEPT ![r] = state]

FirstStage(seen) ==
    IF seen.notified THEN "forecast" ELSE IF Users = 0 THEN "mark" ELSE "feed"

(* Mutant: $lte finds no null.                                             *)
VisitDueOnly(r) ==
    /\ run[r] = Idle
    /\ row.episode # 0
    /\ row.forecast = "due"
    /\ Goto(r, [stage |-> FirstStage(row), seen |-> row, user |-> 1])
    /\ UNCHANGED <<alerts, checks, failures, job, mail>>

(* The query for rows with something left to do.                           *)
Visit(r) ==
    /\ run[r] = Idle
    /\ row.episode # 0
    /\ ~row.notified \/ row.forecast # "later"
    /\ Goto(r, [stage |-> FirstStage(row), seen |-> row, user |-> 1])
    /\ UNCHANGED <<alerts, checks, failures, job, mail>>

(* The upsert by a stable id: a notification that exists is left alone.    *)
Notify(r) ==
    LET n == <<run[r].seen.episode, run[r].user>>
        inserts == n \in DOMAIN feed /\ feed[n] = "none"
    IN  /\ run[r].stage = "feed"
        /\ feed' = IF inserts THEN [feed EXCEPT ![n] = "open"] ELSE feed
        /\ missed' = IF inserts /\ row.episode # n[1] THEN missed \cup {n} ELSE missed
        /\ txn' = IF inserts /\ txn.stage = "open" THEN [txn EXCEPT !.late = @ \cup {n}] ELSE txn
        /\ Goto(r, [run[r] EXCEPT !.stage = "mail"])
        /\ UNCHANGED <<row, opened, plain, failures, job, mail>>

(* A job id that the queue knows is not added again.                       *)
QueueMail(r) ==
    LET m == <<run[r].seen.episode, run[r].user>>
        user == run[r].user + 1
    IN  /\ run[r].stage = "mail"
        /\ job' = IF m \in DOMAIN job /\ job[m].stage = "none"
                  THEN [job EXCEPT ![m].stage = "waiting"] ELSE job
        /\ Goto(r, [run[r] EXCEPT !.stage = IF user > Users THEN "mark" ELSE "feed",
                                  !.user = user])
        /\ UNCHANGED <<alerts, checks, failures, mail>>

(* An update of the row by its id and episode, which aborts a transaction  *)
(* that is open on it.                                                     *)
UpdateRow(e, new) ==
    IF row.episode = e THEN row' = new /\ txn' = NoTxn ELSE UNCHANGED <<row, txn>>

(* Mutant: the filter names the row and not the episode.                   *)
MarkAnyEpisode(r) ==
    /\ run[r].stage = "mark"
    /\ UpdateRow(row.episode, [row EXCEPT !.notified = TRUE])
    /\ Goto(r, [run[r] EXCEPT !.stage = "forecast"])
    /\ UNCHANGED <<opened, feed, plain, missed, failures, job, mail>>

Mark(r) ==
    /\ run[r].stage = "mark"
    /\ UpdateRow(run[r].seen.episode, [row EXCEPT !.notified = TRUE])
    /\ Goto(r, [run[r] EXCEPT !.stage = "forecast"])
    /\ UNCHANGED <<opened, feed, plain, missed, failures, job, mail>>

(* A forecast that is not due yet ends the run.  Otherwise it is queued or, *)
(* for want of a plan, a quota or a recipient or for a recent forecast,    *)
(* not; either way the next one is put off.                                *)
ConsiderForecast(r) ==
    /\ run[r].stage = "forecast"
    /\ IF run[r].seen.forecast # "later"
       THEN UpdateRow(run[r].seen.episode, [row EXCEPT !.forecast = "later"])
       ELSE UNCHANGED <<row, txn>>
    /\ Goto(r, Idle)
    /\ UNCHANGED <<opened, feed, plain, missed, failures, job, mail>>

(* An error, which the loop catches, or the end of the process.            *)
FailRun(r) ==
    /\ run[r] # Idle
    /\ failures < MaxFailures
    /\ failures' = failures + 1
    /\ Goto(r, Idle)
    /\ UNCHANGED <<alerts, checks, job, mail>>

RunStep(r) == Notify(r) \/ QueueMail(r) \/ Mark(r) \/ ConsiderForecast(r)

-----------------------------------------------------------------------------
(* The mail worker.                                                        *)

SetJob(m, stage) == job' = [job EXCEPT ![m].stage = stage]

(* A mail that was delivered, or whose episode is over, is skipped.        *)
PickUp(m) ==
    /\ job[m].stage = "waiting"
    /\ SetJob(m, IF m \in delivered \/ row.episode # m[1] THEN "done" ELSE "sending")
    /\ UNCHANGED <<alerts, checks, monitor, mail>>

Send(m) ==
    /\ job[m].stage = "sending"
    /\ SetJob(m, "sent")
    /\ sent' = [sent EXCEPT ![m] = @ + 1]
    /\ UNCHANGED <<alerts, checks, monitor, delivered, unrecorded>>

Record(m) ==
    /\ job[m].stage = "sent"
    /\ SetJob(m, "recorded")
    /\ delivered' = delivered \cup {m}
    /\ UNCHANGED <<alerts, checks, monitor, sent, unrecorded>>

Complete(m) ==
    /\ job[m].stage = "recorded"
    /\ SetJob(m, "done")
    /\ UNCHANGED <<alerts, checks, monitor, mail>>

(* Mutant: an attempt that failed does not count.                          *)
RetryForever(m) ==
    /\ job[m].stage \in {"sending", "sent", "recorded"}
    /\ SetJob(m, "waiting")
    /\ unrecorded' = IF job[m].stage = "sent"
                     THEN [unrecorded EXCEPT ![m] = @ + 1] ELSE unrecorded
    /\ UNCHANGED <<alerts, checks, monitor, delivered, sent>>

(* The provider refuses, a record cannot be written, or the worker dies:   *)
(* another attempt, while there is one.                                    *)
FailAttempt(m) ==
    LET attempts == job[m].attempts + 1 IN
    /\ job[m].stage \in {"sending", "sent", "recorded"}
    /\ job' = [job EXCEPT ![m] =
                 [stage    |-> IF attempts < Attempts THEN "waiting" ELSE "failed",
                  attempts |-> attempts]]
    /\ unrecorded' = IF job[m].stage = "sent"
                     THEN [unrecorded EXCEPT ![m] = @ + 1] ELSE unrecorded
    /\ UNCHANGED <<alerts, checks, monitor, delivered, sent>>

MailStep(m) == PickUp(m) \/ Send(m) \/ Record(m) \/ Complete(m) \/ FailAttempt(m)

-----------------------------------------------------------------------------
Next ==
    \/ Begin \/ StockFalls \/ StockRecovers \/ EndTxn \/ ForecastDue
    \/ \E c \in Checks : CheckStep(c)
    \/ \E r \in Runs : Visit(r) \/ RunStep(r) \/ FailRun(r)
    \/ \E m \in DOMAIN job : MailStep(m)

Spec == Init /\ [][Next]_vars

(* Ticks do not stop, so that a run begins when the query finds the row,   *)
(* and goes on until it is done or fails; the worker takes its jobs.       *)
FairSpec ==
    /\ Spec
    /\ \A r \in Runs : WF_vars(Visit(r) \/ RunStep(r) \/ FailRun(r))
    /\ \A m \in Episodes \X ByMail : WF_vars(MailStep(m))

-----------------------------------------------------------------------------
(* A row that is marked as notified had every alert of its own episode:    *)
(* no run that began in an earlier episode, or stopped half-way, marks it  *)
(* on the strength of alerts it did not make (processBalanceLowStock's     *)
(* filter).  A forecast is put off only after the alerts.                  *)
EpisodeServed ==
    /\ row.notified =>
         /\ row.episode # 0
         /\ \A u \in InApp : feed[<<row.episode, u>>] # "none"
         /\ \A u \in ByMail : job[<<row.episode, u>>].stage # "none"
    /\ row.forecast # "unset" => row.notified

(* However many runs of the monitor overlap, fail and start again, a user  *)
(* gets the mail of an episode once; it is repeated only when the record   *)
(* of the earlier one could not be written (stable job ids in              *)
(* lowStock.automation.ts, the delivered check of email.worker.ts).        *)
MailedOnce ==
    \A m \in DOMAIN sent : sent[m] <= 1 + unrecorded[m]

(* When an episode is over its notifications are resolved, except those of *)
(* four kinds that the code misses: inserted after the end of the episode, *)
(* or between the snapshot and the commit of the transaction that ended    *)
(* it; open when a clean-up stopped after the row; and those of an episode *)
(* whose marker a stale reconciliation overwrote (reconcileLowStock, whose *)
(* two updates are one transaction or not, against the insert of           *)
(* processBalanceLowStock, which never is in one).                         *)
Unresolved == {plain[c].seen : c \in {c \in Checks : plain[c].stage = "feed"}}

ResolvedUnlessMissed ==
    \A n \in DOMAIN feed :
        feed[n] = "open" => n[1] \in {row.episode} \cup Unresolved \/ n \in missed

(* No alert of an episode is missed, mailed twice or left open, however    *)
(* the runs of the monitor, the mails and the recovery overlap and fail.   *)
AlertsKept == EpisodeServed /\ MailedOnce /\ ResolvedUnlessMissed

(* An episode that stays open is marked as notified in the end, whatever   *)
(* runs fail on the way (processTenantLowStock "will retry").              *)
EpisodeAlerted ==
    \A e \in Episodes : row.episode = e ~> (row.episode # e \/ row.notified)

(* A mail that was queued is sent, found obsolete or given up after its    *)
(* last attempt; none is retried for ever (queues.ts emailQueue).          *)
MailsEnd ==
    \A m \in Episodes \X ByMail :
        job[m].stage # "none" ~> job[m].stage \in {"done", "failed"}
=============================================================================
