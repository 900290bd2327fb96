# A formal model of the procurement backend

TLA+ specifications of the supply-chain and procurement backend under
`src/backend`, the TLC configurations that check them, and proofs checked by
TLAPS. Paths below are relative to `src/backend/src` unless they start with
`docs/`.

The backend is a Node.js/Express API with a worker process. State lives in
MongoDB (a replica set, so multi-document transactions exist), Redis (locks,
counters, caches) and BullMQ queues on Redis. Any number of requests run at the
same time, in several API processes; between two database calls of a handler
anything else may run. That is the hard part of the program, and it is what the
models keep: every handler is cut where the code awaits the database, and the
cuts that matter are steps of their own.

## 1. Inventory of the system

### Procurement core

**Stock** (`modules/inventory`). Collections `items`, `warehouses`,
`stockMovements` (an append-only ledger) and `stockBalances` (one materialised
row per item and warehouse, with a quantity, a version and a low-stock episode).
Operations: create, update, archive items and warehouses; adjust, transfer and
import stock; the receipts of purchase orders post stock as well; the low-stock
monitor reconciles markers. *Interacts* with purchase orders (receipts), with
the monitor in the worker and with forecasts. *Hard:* guards are evaluated on a
transaction's snapshot; documents that a transaction only reads do not make it
conflict (write skew between a stock operation and a change of the reorder
level); one kind of import and one clean-up run without a transaction. *Correct
when:* no balance is negative, every balance is the sum of its movements, stock
is moved or corrected but not lost, and a low-stock marker agrees with the
reorder level in the end.

**Purchase orders** (`modules/po`). One document per order with a state
(draft → pending_approval → approved → sent → partially/fully received → closed,
with rejection and cancellation), lines with ordered and received quantities, an
approval block and the storage key of a PDF; receipts in a collection of their
own. Operations: create, edit, submit, approve, reject, send, receive, cancel,
close, download. *Interacts* with stock (a receipt posts movements in the same
transaction), quotations (a draft is made from an accepted response), object
storage (PDF), e-mail, notifications and the overdue job. *Hard:* each handler
checks the state of a document it read, and writes later, sometimes
conditionally on the state, sometimes unconditionally; PDFs are rendered in the
background. *Correct when:* the state follows the transition table, receipts
stay within the order and agree with the state, the decision on record is the
one that led to the state.

**Requests for quotation** (`modules/supplier/quotation.*`). One document per
request: lines, invited suppliers each with a token and at most one response, a
status, the accepted supplier, a deadline. Operations: create, respond (public
link), compare, accept (drafts a purchase order), cancel, expire (a delayed
job). *Hard:* several buyers, suppliers and the job race; the draft is made from
what was read before the acceptance. *Correct when:* a response is final, a
request is settled once, at most one order is drafted and it is what the
accepted supplier offered, an overdue request is closed.

**Suppliers** (`modules/supplier/supplier.*`). Master data; contacts and
documents live in arrays that are edited by position; a tax identifier has a
unique index. *Interacts* with orders and quotations, which name a supplier.
*Hard:* a position is read before and used after another edit; a removal is two
writes, one of which leaves a hole; limits and uniqueness are checked before the
write. *Correct when:* a list holds what was added and not removed, its limit is
passed by overlapping calls only, one identifier has one supplier.

### Automation

**Low-stock monitor** (`modules/inventory/lowStock.automation.ts`, run by the
worker). Walks all balances of a tenant, reconciles markers, and for every open
episode notifies users, queues mail and forecasts. *Hard:* it may die between
any two of these and starts over at the next tick; an episode may end meanwhile.
*Correct when:* everybody is alerted once per episode, and in the end.

**Delayed jobs** (`workers/scheduled.worker.ts`): expiry of a quotation, overdue
check of an order. *Hard:* enqueued after the response without a guarantee, one
attempt each, run again when a worker stalled.

**E-mail** (`workers/email.worker.ts`): retries; a crash between sending and
recording repeats the mail. **Notifications** (`modules/notification`,
`po.notifications.ts`): a feed of notices in pages, written by calls nobody
waits for.

**Forecasts** (`modules/ai`, `workers/forecast.worker.ts`): a lock and a cache
per item, quotas per tenant, a circuit breaker in front of each of two model
providers, a computed baseline when both fail; a validator that repairs what a
model answers; actuals that are filled in when the horizon is over. *Hard:* a
quota that is read before the call and charged after it, a lock that stays when
the call fails, a review that runs before the last movement commits.

**Reports** (`modules/rpt`, `workers/report.worker.ts`): aggregations over
orders and movements, budgets, and the weekly report, whose job writes a text, a
document and an object one after the other. *Hard:* the same figure is computed
by several queries; a job runs again from the start after half of its writes.

### Accounts and money

**Accounts and sessions** (`modules/auth`): users, roles, invitations, refresh
sessions that rotate, a revocation watermark in Redis. *Hard:* two refreshes of
one session, a refresh against "log out everywhere", two owners demoted at once,
invitations against the seats of a plan. *Correct when:* what was to be ended
ends, a company keeps an owner and its seats.

**Billing** (`modules/billing`): a subscription per tenant that mirrors the
payment provider, a Redis lock around changes, webhooks, seats. *Hard:* webhooks
repeated and out of order, a lock that expires under its holder, a provider
call that fails after the local write. *Correct when:* the mirror agrees with
the provider once its events were taken in, and nobody pays twice.

### Infrastructure

**Middleware** (`shared/middleware`): idempotency keys, sliding-window rate
limits, tenancy, roles, validation. *Hard:* the pending lock of an idempotent
request expires or is removed by another request; a count that comes after the
clock was read. **Audit, realtime, uploads, storage, tenancy plug-ins,
configuration**: stateless, best-effort or wiring.

`PROJECT.json` lists all of these as components with what is modelled and why
the others are not, and the hazards of each at their line.

## 2. Modules

| Module | Models | Proofs |
| --- | --- | --- |
| `StockContract` | what the inventory promises, without documents or transactions | |
| `Inventory` | stock, items, warehouses, transactions, plain writers, the monitor's reconciliation | `Inventory_proofs` |
| `PurchaseOrder` | one order and the requests on it | `PurchaseOrder_proofs` |
| `Quotation` | one request for quotation, its clients and its expiry job | `Quotation_proofs` |
| `QuotationComparison` | the comparison of responses, over the state of `Quotation` | `Quotation_proofs` |
| `LowStockMonitor` | the alerts for one row: episodes, the monitor's runs, notifications, mail jobs | `Records_proofs` |
| `Sessions` | the refresh sessions of one account and what ends them | `Access_proofs` |
| `Requests` | one idempotency key and the upload limit behind it | `Access_proofs` |
| `Access` | `Sessions` and `Requests` side by side | `Access_proofs` |
| `Accounts` | the users of a company, their roles, the seats of its plan | `Accounts_proofs` |
| `Billing` | the subscription of a company against the payment provider | `Billing_proofs` |
| `Forecast` | calls of the language models: locks, cache, quota, breakers | `Forecast_proofs` |
| `ForecastNumbers` | what is made of a model's answer, and a forecast's review | `Forecast_proofs` |
| `Suppliers` | tax identifiers, and lists that are edited by position | `Records_proofs` |
| `Spending` | spend, budgets, cash flow, price comparison and supplier scores over the orders | `Records_proofs` |
| `StockReports` | demand, turnover, dead stock, ABC classes, order quantity, reconciliation | `Records_proofs` |
| `Sums` | sums of functions, as numbers of units | `Records_proofs`, `Forecast_proofs` |
| `WeeklyReport` | the job of the weekly report | `Forecast_proofs` |
| `Notices` | whom the steps of an approval are told to, and the pages of the feed | `Records_proofs` |
| `Deliveries` | whom dispatch and receipt are told to, and the overdue check | `Records_proofs` |
| `Records` | `LowStockMonitor`, `Suppliers`, `Spending`, `StockReports`, `Notices` and `Deliveries` side by side | `Records_proofs` |
| `RecordsInvariants` | the inductive invariants of the parts of `Records`, and the sets their proofs count | `Records_proofs` |
| `Forecasts` | `Forecast`, `ForecastNumbers` and `WeeklyReport` side by side | `Forecast_proofs` |
| `MCAccess`, `MCInventory`, `MCPurchaseOrder`, `MCAccounts`, `MCBilling`, `MCForecast`, `MCRecords` | symmetry sets and values of constants | |

`Access`, `Forecasts` and `Records` put modules side by side that share no state,
so that one run checks them and one module of proofs covers them: a behaviour
belongs to one `part`. `Access` extends `Sessions` and `Forecasts` extends
`Forecast`, whose variables stay as they began in the other parts (`requests`;
`numbers` and `report`), and they take `Requests`, `ForecastNumbers` and
`WeeklyReport` by `INSTANCE`; `Records` extends `LowStockMonitor` and takes the others by `INSTANCE`. The
variables of a part that is taken by `INSTANCE`, and all of those of `Records`, are
`"off"` in the parts of the others. Their properties are the conjunctions
of what the parts state, types included.

Operators whose comment begins with *Mutant* are plausible faults of the
definition that follows them; they are not part of `Next`, and each is paired
in `PROJECT.json` with the property it breaks.

### Inventory

`items` and `warehouses` hold the life cycle of a document (absent, live,
archived: soft deletion) and an item's reorder level. `balances[s]` is the row
of slot `s`: quantity, version (0: no row yet) and whether a low-stock episode
is open. `ledger[s]` is the *sum* of the movements of the slot; the single
entries are not needed to say that balance and ledger agree.

A transaction is two steps. The first (`AdjustStock`, `TransferStock`,
`ReceiveStock`, `UpdateItem`, `ArchiveItem`, `ImportAtomic`,
`ReconcileBalance`) evaluates all guards of the handler on the current state,
which is its snapshot, and stages everything the handler writes, the trailing
reconciliation of markers included. `Commit` installs it if the documents it
writes are unchanged since the snapshot, and that is all MongoDB asks for:
documents it only read may have changed. `Abort` is a conflict, a failure or a
crash. In the code a transaction is opened by `connection.transaction`, and
`config/database.ts` makes every statement inside join it.

The import with `atomic: false` and `clearLowStockIfResolved`, which runs after
a receipt has committed, are written statement by statement: `ImportRow`,
`PostOpening`, `CountOpening`, `JudgeRow`, `MarkRow`, with `Fail` between any
two. `torn` is a history variable: slots where an import stopped between the
movement and the increment.

Simplifications: `updateItem` is modelled when it changes the reorder level (a
rename is a write of the item that changes nothing else); an atomic import
gives all its rows one warehouse and one reorder level; a slot has no override
of the item's level; quantities are integers.

### PurchaseOrder

`po` is the document, `receipts` the sum of the receipts per line, `request`
what each client has read and is about to write, `rendering` the background
rendering that an approval starts, `overtaken` a history variable (an edit was
written to an order that was no longer editable).

A state change is `Read` (load the document, check the table) and then one of
`Submit`, `Approve`, `Reject`, `Send`, `Cancel`, `Close`, `Reopen`, all through
`Transition`, which is the compare-and-swap on the state of
`po.repository.ts`. `RenderBeforeSend` stands between reading and dispatching.
`ReadForEdit`/`WriteEdit` is `update`, whose write is not conditional.
`BeginReceive`/`CommitReceive` is the transaction of `receive`, which conflicts
with any other write of the order. `GiveUp` is a process that dies at any such
point, an aborted transaction, or an answer that is never written.
`approval.submittedAt` and `submittedBy` are a submission number, so that a
property can tell one submission from the next; names, money, dates and notes
are left out.

### Quotation

`quote` is the document, `past` says whether the deadline is over, `job` is the
delayed expiry job, `request` what each client is in the middle of, `orders`
the drafts made so far. `ReadInvitation`/`RecordResponse` is the public
submission, `ReadForAccept`/`Accept`/`DraftOrder` is `accept` with
`buildPoFromAcceptedQuote`; `Cancel` is one conditional update and therefore one
step. `Create` enqueues the expiry job or, if the queue does not take it, goes
on without; `FireExpiry` and `LoseExpiry` are a run of the job and its failure
on the only attempt it has. A response is a function from the items it prices
to a price. `accept` swallows every failure of the draft; that is `GiveUp` after
`Accept`.

`QuotationComparison` transcribes `compareQuotes`: quantities by item, where a
later line overwrites an earlier one, completeness by the *number* of priced
lines. Rounding to cents is left out. A total is written as the number of its
units (`Total`), which is what the proof reasons about.

### LowStockMonitor

`row` holds the low-stock fields of one balance, `feed` the notifications and
`job` the mail jobs of an episode and a user, `run` where each run of the
monitor is and the row it *saw*. In `Inventory` an episode is a flag; here it has
a number and the alerts that hang on it. A reconciliation reads the row and writes
it later, in one of two ways. In a transaction (a movement, a change of the
reorder level, the start of a tick) `Begin` takes the snapshot, and `StockFalls`,
`StockRecovers` or `EndTxn` ends it: a write of the row by anybody else aborts
it, but a notification that is inserted meanwhile is neither in its snapshot nor
in conflict with its `updateMany` (`txn.late`), and stays unresolved. Outside of one
(the clean-up after a receipt, a row of an import) the steps are `ReadRow`, the
write `OpenRow` or `ClearRow`, which is conditional on a version that only movements
advance and may therefore overwrite an episode that began or ended since, then
`ClearFeed`; `StopCheck` ends it at any of them. `Visit` is the query of `processTenantLowStock`; `Notify`,
`QueueMail`, `Mark` and `ConsiderForecast` are the writes of
`processBalanceLowStock` in their order, and `FailRun` is a failure or a crash
between any two. Whether a forecast is queued depends on plans, quotas and
recent forecasts that are not here; all branches put the next one off in the same
way. `PickUp`, `Send`, `Record`, `Complete` and `FailAttempt` are an attempt of
a mail job. `sent`, `unrecorded` and `missed` are history variables: mails the
provider took, mails it took without a record, notifications that were
inserted or left behind the end of their episode. Recipients and their preferences stay as they are, jobs do not age
out of the queue, and a job has one worker at a time.

### Sessions

`account` counts the events that end every session (`epoch`), and which of them
refuse access tokens, too (`firm`). `session` holds the session documents in the
order their tokens were signed; a family is known by its first token, and `root`
is the epoch of its login. A login or a refresh is `ReadCandidate` or
`FindSession`, `Rotate`, `CheckUser`, `Sign` and `Insert`: tokens are signed
before the session is stored. A new password, a reset, a logout everywhere or
disabling is a write and a list of things still to do (`Sweep` the sessions,
`Deny` the tokens), which `GiveUp` may cut short. `late`, `reused` and `forks`
are history variables that name the exceptions the properties allow.

### Requests

`lock` and `record` are the two Redis keys of an idempotency key, `bucket` the
sorted set of the limiter. An attempt is looked up, takes the lock, has its
clock read (`Stamp`) and is counted (`Count`) in separate steps, runs, and keeps
its answer. `Close` is the close handler, which deletes the lock whoever holds
it; `LockExpires`, `ReadFails`, `RecordFails` and `CountFails` are the faults. The
last is the limiter that fails open: the upload goes on, whether or not the
command was carried out. `uncounted` and `stray` are history variables: who was
let through so, and which attempt went on without the lock or lost it.

### Accounts

`reserveSeat` and everything that relies on it is a transaction: `Snapshot`
admits it, `Commit` installs it unless a document it writes was changed
(`overtaken`), in which case the driver runs it again. Changes of role and
disabling are plain: `ReadTarget`, `CountOwners`, `WriteChange`. `mail` is the
state of the token in a user's mailbox. Subscription and checkout orders change
by themselves, since `Billing` models them. `raced` says that an owner was
removed by a request that was overtaken.

### Billing

`sub` is the document, `remote` the provider's subscriptions, `order` the
checkout orders with the hosted page of each, `event` what the provider's
events are about; `receipts` are the events that were recorded. Every action of
a request is one provider call or one statement, under `holder`, a lock that may
expire (`expired`). `strayed` records that a request wrote without its lock, and
nothing is explored after that; `left`, `passed` and `torn` name the other
exceptions. `ApplyChange` asks the provider for what `changeSubscription` decides
from the plan in the *document*: an upgrade, which waits for its payment when the
new price is above that of the provider's plan, a downgrade on a schedule, or
nothing. The trial's end, cancellation at the end of a period, the expiry of
an upgrade that was never paid, invoices, payment attempts and the customer
portal are left out.

### Forecast and ForecastNumbers

A call of `Forecast` goes through `lock`, `peek` (the cache), `quota`, `route`
(the breakers), `wait` (the provider), `create`, `count` and `store`; batches
take one item after the other, and the report's text takes the same way without
an item. A breaker has a failure count and a gate; cooling down is an action.
`robbed` are items whose lock a baseline deleted under its holder.

`ForecastNumbers` is the arithmetic, with quotients kept exact: the validator
(strict, lenient, repaired, monotonic horizons), the choice and scaling of a
horizon, moving average and smoothing, the evaluation and the chart that users
see, the features a prompt states, the order drafted from a forecast. Around it
the smallest machine that makes it matter: movements that are dated when they
are written and seen when they commit, and clients that record what was
consumed. Left out: square roots (deviation, safety stock), the months of the
chart.

### Suppliers

`firm` are the documents. A call reads the supplier, looks at a position, and
writes to that position; `wanted` is what the lists should hold, `astray` says
that a write met another entry than the one that was read, `cut` that a removal
died between its two writes. Replacing all contacts or dropping them is a read
and a later write as well (`BeginReplace`, `Replace`; `BeginEmpty`, `Empty`). A behaviour is about one list or about tax
identifiers (`focus`). Removing an entry keeps the others in the order of their
ranks (`Packed`).

### Spending and StockReports

Every query is an operator, and the actions are the shortest ones that produce
every state a query can meet: orders that are created, move along the table and
cross the ends of months; movements of every type the program creates. The
properties relate queries to each other and to what was done. Averages and
ratios are quotients. The clock of `Spending` has instants within a day, since one
projection of payments begins now (`Projected`) and the other at midnight
(`Today`, `Payable`). In `StockReports` a place has a balance row only once
an increment made one (`stored`, `Upsert`), which is where dead stock and
reconciliation look; `DeadStock` is the set of reports there may be, since a full
one breaks ties anyhow. A sum is the number of pairs of a summand and a number up to
it (`Sums`); what is negative is summed apart (`Net`). The denominator common to
the average prices is the number of ways to choose a line of each supplier
(`Averages`). `EconomicOrder` keeps the square of the order quantity.

### WeeklyReport, Notices, Deliveries

`WeeklyReport` follows `generateWeeklyReport` statement by statement; `Throw`
and `Die` end a run at any of them, and the queue runs the job again. The
factory has an owner. `Notices` is the telling of submission, approval and
rejection: approve and reject read the order
(`ReadToDecide`) and decide later (`Decide`), comparing the state alone, and tell
the submitter of the order they read. `telling` are the calls nobody waits for, `posting` the notices that
have an identifier and are not inserted yet, `pass` a user's way through the
pages. A failure to read the recipients is not modelled. `Deliveries` is the
dispatch of an order, its receipts, the two mails they cause and the overdue
check; inserting the in-app notice and closing the order are left out.

## 3. Runs

| Run | Question | Instance |
| --- | --- | --- |
| `inventory_transactions` | Do overlapping transactions keep stock non-negative, balances equal to the ledger, and implement `StockContract`? | 1 item, 2 warehouses, 2 clients and the monitor, 2 increments per row |
| `inventory_plain_writers` | What do statement-by-statement writers and their failures do to the ledger? Is a wrong low-stock marker put right in the end? | 1 slot, 1 transaction, the monitor, 2 plain writers, with fairness |
| `purchase_order_races` | Do state, decision and receipts stay together under races? | 3 requests, 2 lines, 2 edits |
| `purchase_order_late_edit` | Are edits confined to drafts and rejected orders? **No.** | 2 requests |
| `purchase_order_decision` | Is a decision about the submission it was made on? **No.** | 2 requests |
| `quotation` | One order, final answers, one settlement? Is an overdue request closed when its job exists? Does the recommended response cost what was shown? | 2 clients, 2 suppliers, 2 items, 2 lines, 2 prices, with fairness |
| `low_stock` | Are alerts neither missed nor repeated when runs fail and episodes change? Is everybody alerted in the end, and does every mail end? | 1 monitor run at a time of which 2 fail, 2 episodes, 2 users (one per channel), 2 attempts, reconciliations in transactions, with fairness |
| `access` | Do sessions end that were ended, and does a family have one? Does a key admit one attempt, and the limit what it says? | 2 requests, 3 token pairs, 1 event that ends sessions; 2 attempts, 1 more upload, a limit of 2, 1 fault |
| `accounts` | Are seats overbooked, is the last owner lost, does a disabled user return? | 3 users, 2 roles, 2 requests, a plan with 2 seats and one with 3 |
| `billing` | Does the document agree with the provider, and is one subscription paid for? | 2 requests, 2 orders, 3 events, 1 mishap |
| `forecast` | Is the quota kept, every forecast counted, a failing provider spared, an item asked for once? Are the numbers of a forecast consistent, its review complete, and the features of a series true? Are texts of the weekly report counted, and its PDFs stored? | 2 calls, 2 items, 2 providers, threshold 2, 2 forecasts; every answer of a small set, 2 clients, 2 uses; 2 reports, a quota of 2, 2 attempts, 1 dead worker |
| `records` | Do lists, reports and notices hold what they should? | one small instance per part, see `MCRecords` |

**What they show.** Every property of a passing run holds in every reachable
state of its instance, and for each there is a mutant, a plausible fault of the
code, that breaks it. Some properties hold with exceptions, and the exceptions
are the finding: they are history variables, and the property says that nothing
else goes wrong. `RevokedForGood` excepts sessions that a request which
overlapped the sweep inserts afterwards; `FamiliesSound` a second refresh that
was past its look-up; `RequestsKept` attempts that went on without the lock or
lost it, each after a failing call, an expiry or a client that gave up, and
uploads that were not counted, each for a call that failed; `AlertsKept`
notifications inserted after the end of their episode or behind the snapshot of the
transaction that ended it, those of a clean-up that stopped, and those of an
episode whose marker a stale reconciliation overwrote; `EverybodyTold` what a
fault struck, and a stale decision, of which the earlier submitter is told and the
present one is not; `SpendingReported`, between the two projections, orders that
are approved or late and payments between the two horizons; `StockReported`
balances that were cut off and have had no movement since; `AccountsSound` two removals of owners that overlap; `NothingMissed` and
`PlanPaidFor` requests that went on without their lock, the second also changes
that ended half way and a downgrade that was scheduled while an upgrade waited for
its payment; `UsageCounted` calls that died before they were counted;
`SupplierListsKept` writes that went to a position another request had shifted;
`ReportsAccounted` runs that were cut off; `ForecastsConsistent` transactions
that commit after the horizon's end.

**Bounds, and why they are enough.** A race between handlers needs two of them
on one document, and one more to overtake both where reads and writes are far
apart (orders); that is the number of clients. A transfer needs two slots, a
write skew one slot and one item document, a partial receipt two lines. `MaxVersion` caps the increments of one
row: two are needed to withdraw what was brought in. `MaxEdits` caps the edits
of an order: one before and one after a submission. `MaxLines = 2` is what it
takes to name an item twice. Reorder levels are 0 (none) and 2, between the
stock of one and of two units. Two episodes of a row let a
run meet the end of its own and the beginning of the next; two attempts are one
after a crash. Overlapping runs of the monitor are the part `monitor` of
`records`: two runs, two reconciliations outside of a transaction beside the one
inside, no failures and no mail, which `low_stock` has, safety only, since an
overlapping run adds nothing to liveness. Why only one transaction is open on the row: of two, the second to write
aborts, and one that writes nothing matters to nobody.

Three token pairs (`MaxTokens`) are a login, its refresh and the refresh of that
one, or two refreshes of one token; one event (`MaxEpochs = 2`) ends sessions.
A clock to 2 with a window of 2 and a `Delay` of 1 lets a count come late and an
upload leave the window; one fault (`MaxFaults`) is a lost lock or a failing
call. Three users are a founder, one more owner and one more for the last seat.
Two orders, three events and one mishap in `billing` are a checkout, another one
while its page is open, and a lock that expires or a request that fails in
between; a third event repeats or follows the others out of order. Two plans are
an upgrade and a downgrade; what takes three is covered by the proof, which holds
for every list of prices. In
`forecast`, `Cap = 2` with two calls lets both pass the last place of a quota,
`Threshold = 2` opens a breaker while a call is in flight, `MaxForecasts` and
`MaxUncounted` cap histories; its numbers have histories of two to nine days with
every shape the validator tells apart and patterns up to 35 days for the
features. In `records`: a limit of two contacts with three entries; months and
weeks of two instants and a clock that crosses them (spending), days of two instants
and months of two days (stock), at most two rows of dead stock out of four, a deal of several lines, a
cheaper one in the other currency and one whose price is nothing; three
movements after the opening (`MaxMovements`), enough for a transfer and a use;
two attempts and one stalled worker; two rounds of an approval and pages of one
row; two receipts of one piece each and a check that is due on any of three
days.

Deadlock is not checked where the instance ends in a final state (an archived
item, a closed order, a settled request, a bound that is used up).

**Fairness.** In `inventory_plain_writers` the monitor's loop visits every row at
every tick: `SF(ReconcileBalance(s))`, strong because a row may be put right and
wrong again between two visits; `SF(Commit(Monitor))`, because not every one of
its transactions is overtaken by another writer of the same row (with bounded
increments, only finitely many are); `WF` on its abort, which the database
forces when the row has changed; `WF` on the next statement of a request that
was started. Nobody is obliged to start a request. In `quotation` only
`WF(FireExpiry)`: a worker that is up takes a job that is due. Suppliers and
buyers owe nothing. In `low_stock`, `WF` on the monitor, whose ticks go on
(`worker.ts` registers it as a repeated job) and whose query finds the row as
long as it is pending, and on the mail worker, which takes queued jobs. Nothing
obliges stock to fall or recover, and a forecast may never become due. The other
runs are about safety only.

## 4. Where code and documentation disagree

Shown by a run:

* **Late edits.** `po.service.ts:226` says that only draft and rejected orders
  can be edited. The check is made on the document that was read, the write is
  by id alone (`purchase_order_late_edit`). Such an edit also resets received
  quantities, which is why two invariants of `PurchaseOrder` speak of orders
  that were not `overtaken`.
* **A decision on an older submission.** The compare-and-swap compares states,
  and `pending_approval` comes back (`purchase_order_decision`).

Read from the code while modelling it, and in the models as what the code does:

* *Stock.* `stockMovement.model.ts:34` and `docs/BACKEND.md:302` promise a weekly
  job that reconciles balances with the ledger; `reconcileStockBalances` has no
  caller, so an import row that stops between its two statements
  (`inventory.service.ts:656`) leaves a balance short for good. Everywhere else
  the proved invariant `LedgerAgreement` holds. `inventory.aggregations.ts:146`
  says the query is there to "detect drift caused by partial writes"; the rows it
  starts from are balance rows, and the item of such an import has none until
  a later movement upserts one. `StockReported` shows that the query would find the
  ones that were moved since, and nothing else: of the others it knows nothing.
* *Orders.* `sendToSupplier` stores a PDF key and then writes back the one it
  read before (`po.service.ts:468`, `:921`). An order whose PDF failed is sent
  without the supplier being told. The notice of a full receipt quotes the last
  receipt's quantity.
* *Delayed jobs.* `docs/ARCHITECTURE.md:683` says that a missed expiry check is
  caught by the next nightly run; there is none (`quotation.service.ts:154`,
  one attempt in `queues.ts:56`). `scheduled.worker.ts:21` says the overdue check
  is run again seven days later, and `:18` that it is audited; neither happens.
  An order whose date is moved after it was sent is checked at the old date and
  never again; one sent more than seven days after its date is not checked.
* *Quotations.* Overlapping lines of one item are compared by item, priced by line.
* *Requests.* The fingerprint of a multipart request ignores its payload, and an
  answer 429 is recorded and replayed for a day. `TEST-REPORT.md:58` says the
  middleware "prevents concurrent duplicates", which fails once a lock is lost, be it to the 120 seconds, to a call that fails
  (`idempotency.ts:71` proceeds) or to a client that closes its connection. The
  limiter fails open (`rateLimit.ts:168` says so), and it also admits a request whose
  count is missing from the answer (`:159`).
  Comments next to several limits (login, refresh, uploads) name others than the
  code's.
* *Sessions.* Reuse of a token ends its family, except for what a refresh past
  its look-up inserts later.
* *Forecasts.* A call that dies or is refused by the quota keeps the lock of six
  hours, so the queue's retry is refused; `queues.ts:42` speaks of two retries
  where `attempts: 2` is one, and `:48` of one where there is none. A batch's
  baseline deletes another call's lock. `forecastPipeline.ts:59` says "half-open:
  the next call decides", but the count restarts at 0 and it takes as many
  failures as before. An override is not written to the cache. The trend shown
  with a forecast is never "decreasing". An evaluation's error is that of the
  prediction, its table that of the override.
* *Reports.* A purchase that is fully received and not closed has no closing
  date: the weekly report never counts it (`closedAt` is set by `close` alone),
  and the supplier's score counts it as on time however late it was, a missing
  date being less than any. `inventory.aggregations.ts:35` says that items
  without consumption are flagged as slow movers; the query has no rows of them.
  No code creates a movement of type `out`, which turnover, dead stock and top
  consumption count; what production takes is an adjustment, which they do not.
  Payments of a delivery that is late drop out of the projection of
  `rpt.aggregations.ts` and not out of that of `po.aggregations.ts`, which counts
  approved orders as well; one ends ninety days from now and the other from
  midnight, so they differ on what falls due in between. Prices are averaged
  across currencies: where an item was bought in two, what
  `supplierCostComparisonPipeline` reports as savings need not be any. An order may ask for a price of 0 (`po.dto.ts:10`),
  and a supplier whose average price is 0 gets none of the points for the price
  (`supplier.aggregations.ts:118`): the cheapest of all scores at most 90. A single consumed item is of class C. Nothing
  schedules the weekly report, and nothing calls the nightly score.
* *Suppliers.* The tax identifier of an archived supplier is hidden from the
  check and not from the index. A contact at position twenty or beyond cannot be
  addressed; an edit past the end of a shortened list pads it with nulls, and
  the supplier can no longer be read.
* *Billing.* A paid event is taken in and dropped when the document's earlier
  subscription still looks live (`billing.service.ts:549`). An upgrade whose
  payment is pending leaves the document at the old plan, and the next change is
  judged by it (`:351`): a downgrade that is scheduled then and equals what the
  provider still has is struck from the document by the next synchronisation
  (`:609`) and stays with the provider, so that after the payment the seats may
  exceed what the next period will be. It takes three plans to see; the
  attempt to prove `PlanPaidFor` found it, and `torn` names it.

Not a contradiction, but worth knowing. A notification that the monitor inserts
after its episode ended, or between the snapshot and the commit of the
transaction that ended it, stays unresolved for its ninety days; so do those of an
episode whose clean-up stopped between its two updates, and those of an episode
whose marker was overwritten by a reconciliation outside of a transaction. In the
model, with the simplifications of section 2, `AlertsKept` finds no others. And when
an order is rejected, edited and submitted by somebody else while another
approver still decides on what he read, the decision falls on the new submission
and is told to who made the old one.

## 5. Proofs

All theorems hold for every value of the constants, under the named assumptions
of the modules. Each proof module shows `Init => InductiveInv` and
`InductiveInv /\ [Next]_vars => InductiveInv'`, one lemma per action or per kind
of effect, and derives the rest. Beside each is what its proof adds to the
properties themselves, and why they need it.

* `Inventory_proofs`. `StockNeverNegative` and `LedgerAgreement` are not
  inductive. What is missing is what an open transaction holds: it has staged,
  for every row, the balance it read plus the movement it posts, and never a
  negative quantity (`TxnAdds`), and its movements are of a kind the contract
  allows (`TxnMoves`). `Commit` checks that the rows are as they were read, so
  adding the movement to ledger and balance keeps them equal. For imports,
  `RowsOwnItems` says that a row owns the item it created, and by how much the
  ledger is ahead meanwhile. From this: `TypeCorrect`, `NeverNegative`,
  `BalancesFollowLedger`, and `StockRefinement`, that the module implements
  `StockContract` with `onHand` as the quantities of the balances.
* `PurchaseOrder_proofs`. A request in flight is about to move the order along
  the table from the state it read, and a receipt fits the order it read
  (`RequestOK`); the order changes in five ways only (`Kept`, `Created`,
  `Moved`, `Rewritten`, `Arrived`), and each invariant is shown for each way.
  From this: `TypeCorrect`, `DecisionFollowsState`, `NeverOverReceived`,
  `StateFollowsReceipts`, and the action properties `TableFollowed`,
  `NoLateReceipts` (goods are posted only to an order that is out for delivery;
  proved, and not among the runs' properties).
* `Quotation_proofs`. A client between the acceptance and the draft holds the
  response that is on record, is the only one there, and no order exists yet
  (`RequestsOK`); before it is settled, a request has neither winner nor order
  (`UnsettledIsClean`); responses price requested items only (`ResponsesOK`).
  From this: `TypeCorrect`, `OneOrder`, and the action properties
  `ResponsesKept`, `SettledForGood`.
  `RecommendationIsKept`: a response that is complete by the number of its lines
  prices each item on exactly one line, so that the line of an item is a bijection
  between items and lines, under which the two totals are the same set of units.
* `Access_proofs`, sessions. `RevokedForGood` excepts what is `late`, so the proof has to
  know of every request that still issues tokens that it is marked as overtaken
  or in time: then what ended its session has its sweep, and where tokens are
  refused its watermark, still ahead (`InTime`). A watermark never names an epoch
  that is not there yet, sessions are signed in order (`InOrder`), and a session
  of a refused epoch is late or about to be swept (`SessionOK`). From this:
  `SessionsTyped`, `WhatIsRevokedStaysSo`, `FamiliesAreSound`.
  *Requests.* Whoever works and is no stray has the lock, a stray needs a fault or a
  connection that was closed, and an answer on record is the answer to its question
  (`MainInv`). A stamp is at most `Delay` old before it is counted, and what the
  limiter has admitted in a window is in the set it counts; of the faults so far
  one went into each upload that was not counted (`FaultsOK`). From this: `RequestsAreKept`, and the action
  property `RefusalsAreDue`.
* `Records_proofs`, over `RecordsInvariants`. The inductive invariant is that of the
  part a behaviour is of.
  - *Monitor.* A run that reached user *u* has dealt with every user before, *for
    the episode it saw*, whatever the row is by now (`RunOK`); only so does its
    `Mark`, which is guarded by the episode, make `EpisodeServed` true. The
    transaction that is open saw the episode the row has now, or it would have been
    aborted (`TxnOK`). A job's
    mails are bounded by its attempts and by the records that failed (`JobOK`).
    From this: `AlertsAreKept`.
  - *Suppliers.* A list without a stray write holds what is wanted, less what is
    being added, and what is being added is in no list yet; every call that adds
    a contact has seen room for it, so that the limit is passed by the *other*
    calls in progress at most; at most one removal has made a hole. From this:
    `SupplierListsAreKept`.
  - *Notices.* Whoever is to be told of an event is told, is left in the one call
    that tells of it, or is lost to a fault; who decides read a submission up to the
    present one, and if it was an earlier one, another decision ended that. What a pass has still to show lies
    before its cursor. *Deliveries.* One call at a time tells of a step, the dates
    follow the state, and an order that is awaited is looked after by the check or
    is excepted for a reason. From these and the monitor: `EverybodyIsTold`.
  - *Spending.* The invariant is the type; the work is in the sums. The sizes of
    the parts of a finite set add up to its size (a bijection, glued from one for
    each part), so the sums over the parts of a set add up to the sum over it:
    months, currencies, weeks, suppliers and lines are such parts. A quotient is
    the one number between its bounds, so an order is in one month and one week. Midnight is the
    largest multiple of a day up to now, so what is due from now on is due from
    midnight on (`BothProject`).
    The largest and the smallest average exist by the least-number principle. For
    the budgets: what is committed stays committed unless it is cancelled, its
    value stays what it was, and the share of the limit grows with it. From this:
    `SpendingIsReported`, and the action property `BudgetsOnlyWorsen`.
  - *Stock.* A balance is its opening, if that was posted, with what was brought to
    its place less what was taken, and what production used of an item on a day is
    in the ledger (`LedgerInv`; copies of a movement are numbered, so that one more is
    one more), and a place has a row if its opening was posted or a movement
    followed (`RowsOf`). The rest is sums again: movements are of one piece, so what a set of
    them adds up to is its size, and categories, places, months and days are parts
    of it. The order quantity exists because some quantity is large enough, and the
    cost on both sides of it is compared as products; the classes follow from shares
    that grow down the list. From this: `StockIsReported`.
  - *Types.* Each of these theorems also says that what its part stores stays of the
    kind its code writes; for this the invariants add which list a behaviour is
    about, that notices have identifiers that were given out, and that submissions
    and faults stay within their bounds.
* `Accounts_proofs`. What a request read still holds when it writes, or it is
  marked as overtaken (`RequestOK`): an admitted reservation is still admissible,
  and an owner about to be removed leaves another. `Commit` refuses the
  first kind when it was overtaken; for plain writes `raced` records it, and there is no
  other exception. From this: `AccountsAreSound`, and the action properties
  `SeatsAreBookedOnce`, `DisabledStaysDisabled`.
* `Forecast_proofs`. Usage and stored forecasts differ by the calls that are
  between the two writes; the overshoot of a quota, the calls of a failing
  provider and the holders of a lock are numbers of calls as well. A step changes
  one call, from one record to another (`Moves`), and the lemmas say by how much
  each of these numbers changes for it. The invariant adds that a limited call is for
  one item (`CallsOK`) and that whoever works on an item that was not robbed has its lock
  (`LocksHeld`). From this: `UsageIsCounted`, `CallsAreContained`.
  *Numbers.* What `coerceForecast` makes of any answer is `SoundResponse`: the
  baseline is sound, since a rounded quotient grows with what is divided, the
  monotonic horizons make any repaired answer sound, and the scaling of a horizon
  keeps the order of its figures. For the models, the sum of a window is between its
  size times the smallest and the largest day, and so is every level of the
  smoothing, by the least number at which it would not be. The machine keeps what a
  review read (`Recorded`): the horizon is over, and the demand is what was read
  unless a use of it committed late. A rounded error grows with the distance, so
  the nearest model has no larger error. From this: `ForecastsAreConsistent`.
  *Weekly report.* Every run that began is where its job is, or has ended where
  its artifact says; texts, objects and mails are those of the jobs that passed
  the step, counted. From this: `ReportsAreAccounted`.
* `Billing_proofs`. At most one subscription is live *or could become live*,
  because its page is open and its address known (`OneBillable`); an order that
  can still be paid is pending, one that was paid is the document's or was left
  (`OrderOK`); what the document was bound to before is over and it grants no
  more than is paid for (`SubOK`); what is scheduled at the provider is in the
  document, or no lower than what is paid for (`ScheduleKnown`). Of the request
  that holds the lock: what it saw of a subscription is what it is, unless an
  event other than its own will tell (`SeenOK`), what it found out about the
  document still holds (`Admitted`), and a checkout past its look-ups is alone
  with its page (`CheckoutOK`). A request that lost its lock may do one of two
  things: a call to the provider that leaves all of this true, or a write, which sets
  `strayed`.
  From this: `BillingTyped`, `NothingIsMissed`, `PlanIsPaidFor`.

**What the proofs assume, and why the code justifies it.** Quantities are
positive naturals, reorder levels naturals that include 0, bounds are naturals,
no supplier is `NoSupplier`, the monitor is not a client. Requests in flight,
users, jobs, suppliers, orders, items and places are finitely many, and at least one
request can run. A supplier may have two contacts or more (the code: twenty), a
job an attempt, a page a row; an order has a line, and prices, quantities and
taxes are naturals that include 0, and so is what was consumed on each day of a
history, which has a day at least; the numbers of an answer are integers, since
the validator rounds them, in any order and of any sign. There is an epoch to begin
with. `owner` is among the roles (`rbac.ts`), a new company is on a plan of the list
(`plans.ts`), seats are positive. `trial`, `none` and `nobody` are none of the values they stand apart
from. The caps on counters (`MaxTokens`, `MaxOrders`, `MaxEvents`, ...) are any
naturals: a behaviour is of some length, and the theorems hold whatever the cap.

**What the attempts found.** A fault of a property of `Spending`: that a score is
100 exactly if nobody is cheaper and nothing is late was false of a supplier who
asks for nothing (section 4); the run had no deal without a price, and now has
one. And two faults of the model, both of `Billing`. With
three plans `PlanPaidFor` was false: the downgrade over a waiting upgrade of
section 4, which the run's two plans cannot show. And what it means that document
and provider agree was a `CASE` whose guards overlapped, which TLC reads from
the top and TLA+ does not.

**Model-checked only.** Liveness (`MarkerRepaired`, `ExpiresUnlessLost`,
`EpisodeAlerted`, `MailsEnd`): TLAPS does not reason about fairness and
`ENABLED`. `FeaturesTold`, the slope, median and correlations of a series: sums with
signs, which are folds, and a sorted sequence. The library's induction theorems
take an operator as a parameter and cannot be applied here; where a proof needs
induction it goes by cardinalities and bijections, or by the least number of a set. The two violations above are TLC
counterexamples.

## 6. Plan

Modelled and checked: all modules of section 2. Proved: every safety and action
property the runs check, but for `FeaturesTold`. Worth proving next, in this order:

1. `Billing`: as action properties, that a subscription the company left is never
   the document's again, and that an order that was paid stays paid.
2. `FeaturesTold`: the trend of a series and of its reverse, and the peak, which
   need no more than sums that are split by sign.

Worth modelling still: the receipt of an order and the stock it posts as one
composition of `PurchaseOrder` and `Inventory`, and `Accounts` with `Billing`
under one subscription document.

## 7. Not modelled

Rendering, wording, prompts, cryptography, the static table of permissions,
logging, the audit trail and realtime events: they keep no state that another
operation relies on. Uploads: bytes and their checks; the outcomes of storing an
object are in `WeeklyReport`. Square roots and floating-point rounding. The
lock-out after wrong passwords, invoices and payment attempts, the end of a
trial, categories and renames. Scripts and demonstration data. Tenancy: every
model is of one tenant, since the plug-in adds the tenant to each query. Time is
kept only where a handler compares with it. `PROJECT.json` says of every
component what is left out.
