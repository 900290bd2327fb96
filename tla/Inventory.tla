----------------------------- MODULE Inventory -----------------------------
(***************************************************************************)
(* The inventory module of the backend: items, warehouses, the append-only *)
(* ledger of stock movements and the materialised balance of every slot    *)
(* (an item in a warehouse).  modules/inventory/inventory.service.ts,      *)
(* inventory.repository.ts and the reconciliation loop of                  *)
(* lowStock.automation.ts.                                                 *)
(*                                                                         *)
(* Two kinds of code write these collections.                              *)
(*                                                                         *)
(*  - Operations inside mongoose.connection.transaction run on a snapshot  *)
(*    of the database.  The first step of the model (AdjustStock, ...)     *)
(*    takes the snapshot, evaluates the handler's guards on it and stages  *)
(*    the documents the handler writes; Commit installs them if none of    *)
(*    them was written by anybody else in the meantime (Mongo aborts a     *)
(*    transaction with a write conflict otherwise); Abort is a conflict, a *)
(*    crash or a database error at any point in between.  Documents that   *)
(*    a transaction only READ do not make it conflict.                     *)
(*  - The non-atomic bulk import and the clean-up after a goods receipt    *)
(*    write outside any transaction, one statement at a time.              *)
(***************************************************************************)
EXTENDS Integers, FiniteSets

CONSTANTS
    Items,          \* SKUs of one tenant
    Warehouses,     \* warehouse codes of the tenant
    Clients,        \* requests that run in a transaction
    Monitor,        \* the low-stock monitor of the worker process
    Writers,        \* requests that write without a transaction
    Quantities,     \* quantities a request may name
    ReorderLevels,  \* reorder levels an item may be given, 0 = none
    MaxVersion      \* bound of the model: increments of one balance row

ASSUME MonitorAssumption == Monitor \notin Clients
ASSUME QuantitiesAssumption == Quantities \subseteq Nat \ {0}
ASSUME LevelsAssumption == ReorderLevels \subseteq Nat /\ 0 \in ReorderLevels
ASSUME VersionAssumption == MaxVersion \in Nat

VARIABLES
    items,       \* the items collection
    warehouses,  \* the warehouses collection, a status per code
    balances,    \* the stockBalances collection
    ledger,      \* per slot, the sum of the quantities of its stockMovements
    txn,         \* the open transaction of every client and of the monitor
    plain,       \* how far every non-transactional writer has got
    torn         \* history: slots with a movement whose increment never came

vars == <<items, warehouses, balances, ledger, txn, plain, torn>>

Slots == Items \X Warehouses
Actors == Clients \cup {Monitor}
Status == {"absent", "live", "archived"}
Item == [status: Status, reorderLevel: ReorderLevels]
Balance == [quantity: Int, version: Nat, low: BOOLEAN]

NoItem == [status |-> "absent", reorderLevel |-> 0]
NoBalance == [quantity |-> 0, version |-> 0, low |-> FALSE]

Nothing == [x \in {} |-> 0]

NoTxn == [open |-> FALSE, before |-> Nothing, after |-> Nothing,
          posted |-> Nothing, itemsBefore |-> Nothing, itemsAfter |-> Nothing]

IsPartial(f, S, T) == DOMAIN f \subseteq S /\ f \in [DOMAIN f -> T]

(* The documents a transaction writes, as its snapshot has them and as it  *)
(* leaves them, and the quantities of the movements it posts.              *)
IsTxn(t) ==
    /\ t.open \in BOOLEAN
    /\ IsPartial(t.before, Slots, Balance)
    /\ IsPartial(t.after, Slots, Balance)
    /\ DOMAIN t.after = DOMAIN t.before
    /\ IsPartial(t.posted, Slots, Int)
    /\ IsPartial(t.itemsBefore, Items, Item)
    /\ IsPartial(t.itemsAfter, Items, Item)
    /\ DOMAIN t.itemsAfter = DOMAIN t.itemsBefore

IdleWriter == [stage |-> "idle"]
Writer == {IdleWriter}
          \cup [stage: {"created", "posted"}, slot: Slots, quantity: Quantities]
          \cup [stage: {"read"}, slot: Slots, doc: Balance]
          \cup [stage: {"judged"}, slot: Slots, doc: Balance, low: BOOLEAN]

(* A balance row exists once it has been incremented, and not before.      *)
TypeOK ==
    /\ items \in [Items -> Item]
    /\ warehouses \in [Warehouses -> Status]
    /\ balances \in [Slots -> Balance]
    /\ \A s \in Slots : balances[s].version = 0 => balances[s] = NoBalance
    /\ ledger \in [Slots -> Int]
    /\ DOMAIN txn = Actors
    /\ \A a \in Actors : IsTxn(txn[a])
    /\ plain \in [Writers -> Writer]
    /\ torn \in SUBSET Slots

Init ==
    /\ items = [i \in Items |-> NoItem]
    /\ warehouses = [w \in Warehouses |-> "absent"]
    /\ balances = [s \in Slots |-> NoBalance]
    /\ ledger = [s \in Slots |-> 0]
    /\ txn = [a \in Actors |-> NoTxn]
    /\ plain = [w \in Writers |-> IdleWriter]
    /\ torn = {}

-----------------------------------------------------------------------------
(* What the handlers compute.                                              *)

Live(i) == items[i].status = "live"

(* reconcileLowStock judges a quantity against the item it reads: an       *)
(* archived item is not found, and is never low.                           *)
Low(quantity, item) ==
    item.status = "live" /\ item.reorderLevel > 0 /\ quantity < item.reorderLevel

Reconciled(balance, item) ==
    [balance EXCEPT !.low = Low(balance.quantity, item)]

(* The upsert with $inc of incrementBalance...                             *)
Counted(balance, delta) ==
    [quantity |-> balance.quantity + delta,
     version  |-> balance.version + 1,
     low      |-> balance.low]

(* ...and, in a transaction, the reconcileLowStock that follows it.        *)
Incremented(balance, delta, item) ==
    Reconciled(Counted(balance, delta), item)

(* Mutants: a marker written to a row that does not exist; a marker that   *)
(* is raised and never taken down.                                         *)
MisjudgedUpsert(i, item) ==
    {s \in Slots : /\ s[1] = i
                   /\ balances[s].low # Low(balances[s].quantity, item)}

MisjudgedRaiseOnly(i, item) ==
    {s \in Slots : /\ s[1] = i
                   /\ balances[s].version > 0
                   /\ ~balances[s].low
                   /\ Low(balances[s].quantity, item)}

(* The rows of an item that reconcileLowStock writes, given the item as it *)
(* will be: the existing rows whose marker changes.                        *)
Misjudged(i, item) ==
    {s \in Slots : /\ s[1] = i
                   /\ balances[s].version > 0
                   /\ balances[s].low # Low(balances[s].quantity, item)}

HasRoom(s) == balances[s].version < MaxVersion

(* A handler stages new balances, the movements posted with them, and new  *)
(* item documents.                                                         *)
Stage(a, after, posted, newItems) ==
    /\ ~txn[a].open
    /\ txn' = [txn EXCEPT ![a] =
                 [open        |-> TRUE,
                  before      |-> [s \in DOMAIN after |-> balances[s]],
                  after       |-> after,
                  posted      |-> posted,
                  itemsBefore |-> [i \in DOMAIN newItems |-> items[i]],
                  itemsAfter  |-> newItems]]
    /\ UNCHANGED <<items, warehouses, balances, ledger, plain, torn>>

(* Every posted movement is counted into its balance row.                  *)
StageMovements(a, posted) ==
    /\ \A s \in DOMAIN posted : HasRoom(s)
    /\ Stage(a, [s \in DOMAIN posted |->
                   Incremented(balances[s], posted[s], items[s[1]])],
             posted, Nothing)

StageItem(a, i, item) ==
    Stage(a, [s \in Misjudged(i, item) |-> Reconciled(balances[s], item)],
          Nothing, [j \in {i} |-> item])

-----------------------------------------------------------------------------
(* Operations that run in a transaction.                                   *)

(* adjustStock: a delta, negative or positive, that the stock covers.      *)
AdjustStock(c, i, w, delta) ==
    /\ Live(i)
    /\ warehouses[w] = "live"
    /\ delta < 0 => balances[<<i, w>>].quantity + delta >= 0
    /\ StageMovements(c, [s \in {<<i, w>>} |-> delta])

(* transferStock: two movements, two increments.                           *)
TransferStock(c, i, from, to, quantity) ==
    /\ from # to
    /\ Live(i)
    /\ warehouses[from] = "live"
    /\ warehouses[to] = "live"
    /\ balances[<<i, from>>].quantity >= quantity
    /\ StageMovements(c, [s \in {<<i, from>>, <<i, to>>} |->
                            IF s = <<i, from>> THEN -quantity ELSE quantity])

(* The stock half of a purchase order receipt.  The warehouse must be      *)
(* live; the items are not read, so an archived one is received too.       *)
ReceiveStock(c, w, goods) ==
    /\ warehouses[w] = "live"
    /\ \A i \in DOMAIN goods : items[i].status # "absent"
    /\ StageMovements(c, [s \in (DOMAIN goods) \X {w} |-> goods[s[1]]])

(* updateItem with a reorder level: the item and every row it misjudges.   *)
UpdateItem(c, i, level) ==
    /\ Live(i)
    /\ StageItem(c, i, [items[i] EXCEPT !.reorderLevel = level])

ArchiveItem(c, i) ==
    /\ Live(i)
    /\ StageItem(c, i, [items[i] EXCEPT !.status = "archived"])

(* bulkImport with atomic = true.  Every row must create its item, and     *)
(* every opening balance name a live warehouse, or the whole import is     *)
(* rolled back; a row with quantity 0 has no opening balance.              *)
ImportAtomic(c, w, level, rows) ==
    LET created == [i \in DOMAIN rows |->
                      [status |-> "live", reorderLevel |-> level]]
        opened  == {s \in (DOMAIN rows) \X {w} : rows[s[1]] > 0}
        posted  == [s \in opened |-> rows[s[1]]]
    IN  /\ opened # {} => warehouses[w] = "live"
        /\ \A i \in DOMAIN rows : items[i].status = "absent"
        /\ \A s \in opened : HasRoom(s)
        /\ Stage(c, [s \in opened |->
                       Incremented(balances[s], posted[s], created[s[1]])],
                 posted, created)

(* One iteration of the reconciliation loop of processTenantLowStock.      *)
ReconcileBalance(s) ==
    /\ s \in Misjudged(s[1], items[s[1]])
    /\ Stage(Monitor, [r \in {s} |-> Reconciled(balances[r], items[r[1]])],
             Nothing, Nothing)

(* Mutant: conflicting writes go unnoticed, the last one wins.             *)
UnwrittenLastWins(a) == txn[a].open

(* What makes Mongo let a transaction commit.                              *)
Unwritten(a) ==
    /\ \A s \in DOMAIN txn[a].before : balances[s] = txn[a].before[s]
    /\ \A i \in DOMAIN txn[a].itemsBefore : items[i] = txn[a].itemsBefore[i]

(* Mutant: outside a transaction, the $inc would apply to whatever the row *)
(* holds by then.                                                          *)
CommitUnisolated(a) ==
    LET delta(s) == IF s \in DOMAIN txn[a].posted THEN txn[a].posted[s] ELSE 0 IN
    /\ txn[a].open
    /\ balances' = [s \in Slots |->
                      IF s \in DOMAIN txn[a].after
                      THEN [txn[a].after[s] EXCEPT !.quantity = balances[s].quantity + delta(s)]
                      ELSE balances[s]]
    /\ ledger' = [s \in Slots |-> ledger[s] + delta(s)]
    /\ items' = [i \in Items |-> IF i \in DOMAIN txn[a].itemsAfter
                                 THEN txn[a].itemsAfter[i] ELSE items[i]]
    /\ txn' = [txn EXCEPT ![a] = NoTxn]
    /\ UNCHANGED <<warehouses, plain, torn>>

Commit(a) ==
    /\ txn[a].open
    /\ Unwritten(a)
    /\ balances' = [s \in Slots |-> IF s \in DOMAIN txn[a].after
                                    THEN txn[a].after[s] ELSE balances[s]]
    /\ ledger' = [s \in Slots |-> IF s \in DOMAIN txn[a].posted
                                  THEN ledger[s] + txn[a].posted[s] ELSE ledger[s]]
    /\ items' = [i \in Items |-> IF i \in DOMAIN txn[a].itemsAfter
                                 THEN txn[a].itemsAfter[i] ELSE items[i]]
    /\ txn' = [txn EXCEPT ![a] = NoTxn]
    /\ UNCHANGED <<warehouses, plain, torn>>

Abort(a) ==
    /\ txn[a].open
    /\ txn' = [txn EXCEPT ![a] = NoTxn]
    /\ UNCHANGED <<items, warehouses, balances, ledger, plain, torn>>

-----------------------------------------------------------------------------
(* Operations of one statement.  A code that was archived still blocks the *)
(* unique index, so it is never created again.                             *)

CreateWarehouse(w) ==
    /\ warehouses[w] = "absent"
    /\ warehouses' = [warehouses EXCEPT ![w] = "live"]
    /\ UNCHANGED <<items, balances, ledger, txn, plain, torn>>

ArchiveWarehouse(w) ==
    /\ warehouses[w] = "live"
    /\ warehouses' = [warehouses EXCEPT ![w] = "archived"]
    /\ UNCHANGED <<items, balances, ledger, txn, plain, torn>>

CreateItem(i, level) ==
    /\ items[i].status = "absent"
    /\ items' = [items EXCEPT ![i] = [status |-> "live", reorderLevel |-> level]]
    /\ UNCHANGED <<warehouses, balances, ledger, txn, plain, torn>>

-----------------------------------------------------------------------------
(* Writers without a transaction: the rows of bulkImport with              *)
(* atomic = false, and clearLowStockIfResolved after a receipt.            *)

Goto(w, writer) == plain' = [plain EXCEPT ![w] = writer]

(* A row with an opening balance: its warehouse exists, its item does not. *)
(* A row without one is CreateItem.                                        *)
ImportRow(w, s, level, quantity) ==
    /\ plain[w].stage = "idle"
    /\ items[s[1]].status = "absent"
    /\ warehouses[s[2]] = "live"
    /\ HasRoom(s)
    /\ items' = [items EXCEPT ![s[1]] = [status |-> "live", reorderLevel |-> level]]
    /\ Goto(w, [stage |-> "created", slot |-> s, quantity |-> quantity])
    /\ UNCHANGED <<warehouses, balances, ledger, txn, torn>>

(* The warehouse is read again; one archived since skips the opening.      *)
PostOpening(w) ==
    LET s == plain[w].slot IN
    /\ plain[w].stage = "created"
    /\ IF warehouses[s[2]] = "live"
       THEN /\ ledger' = [ledger EXCEPT ![s] = @ + plain[w].quantity]
            /\ Goto(w, [plain[w] EXCEPT !.stage = "posted"])
       ELSE /\ Goto(w, IdleWriter)
            /\ UNCHANGED ledger
    /\ UNCHANGED <<items, warehouses, balances, txn, torn>>

(* Mutant: $set where the code has $inc.                                   *)
CountOpeningSet(w) ==
    LET s == plain[w].slot
        counted == [Counted(balances[s], 0) EXCEPT !.quantity = plain[w].quantity]
    IN  /\ plain[w].stage = "posted"
        /\ balances' = [balances EXCEPT ![s] = counted]
        /\ Goto(w, [stage |-> "read", slot |-> s, doc |-> counted])
        /\ UNCHANGED <<items, warehouses, ledger, txn, torn>>

(* The $inc of incrementBalance is atomic by itself.                       *)
CountOpening(w) ==
    LET s == plain[w].slot
        counted == Counted(balances[s], plain[w].quantity)
    IN  /\ plain[w].stage = "posted"
        /\ balances' = [balances EXCEPT ![s] = counted]
        /\ Goto(w, [stage |-> "read", slot |-> s, doc |-> counted])
        /\ UNCHANGED <<items, warehouses, ledger, txn, torn>>

(* clearLowStockIfResolved: the item is live, the row is read.             *)
ClearLowStock(w, s) ==
    /\ plain[w].stage = "idle"
    /\ Live(s[1])
    /\ balances[s].version > 0
    /\ Goto(w, [stage |-> "read", slot |-> s, doc |-> balances[s]])
    /\ UNCHANGED <<items, warehouses, balances, ledger, txn, torn>>

(* reconcileLowStock reads the item and returns early if the marker it     *)
(* read is right.                                                          *)
JudgeRow(w) ==
    LET doc == plain[w].doc
        low == Low(doc.quantity, items[plain[w].slot[1]])
    IN  /\ plain[w].stage = "read"
        /\ Goto(w, IF low = doc.low THEN IdleWriter
                   ELSE [stage |-> "judged", slot |-> plain[w].slot,
                         doc |-> doc, low |-> low])
        /\ UNCHANGED <<items, warehouses, balances, ledger, txn, torn>>

(* The write of the marker is conditional on the version that was read; a  *)
(* row with another version is an error, which the caller swallows.        *)
MarkRow(w) ==
    LET s == plain[w].slot IN
    /\ plain[w].stage = "judged"
    /\ balances' = IF balances[s].version = plain[w].doc.version
                   THEN [balances EXCEPT ![s].low = plain[w].low]
                   ELSE balances
    /\ Goto(w, IdleWriter)
    /\ UNCHANGED <<items, warehouses, ledger, txn, torn>>

(* The process dies, or the next statement fails: the import row is caught *)
(* and counted as skipped, what it wrote stays.                            *)
Fail(w) ==
    /\ plain[w].stage # "idle"
    /\ torn' = IF plain[w].stage = "posted" THEN torn \cup {plain[w].slot} ELSE torn
    /\ Goto(w, IdleWriter)
    /\ UNCHANGED <<items, warehouses, balances, ledger, txn>>

-----------------------------------------------------------------------------
Deltas == Quantities \cup {-q : q \in Quantities}
Deliveries == UNION {[D -> Quantities] : D \in (SUBSET Items) \ {{}}}
ImportRows == UNION {[D -> Quantities \cup {0}] : D \in (SUBSET Items) \ {{}}}

ClientStep(c) ==
    \/ \E i \in Items, w \in Warehouses, d \in Deltas : AdjustStock(c, i, w, d)
    \/ \E i \in Items, from, to \in Warehouses, q \in Quantities :
         TransferStock(c, i, from, to, q)
    \/ \E w \in Warehouses, goods \in Deliveries : ReceiveStock(c, w, goods)
    \/ \E i \in Items, l \in ReorderLevels : UpdateItem(c, i, l)
    \/ \E i \in Items : ArchiveItem(c, i)
    \/ \E w \in Warehouses, l \in ReorderLevels, rows \in ImportRows :
         ImportAtomic(c, w, l, rows)

WriterStep(w) ==
    \/ \E s \in Slots, l \in ReorderLevels, q \in Quantities : ImportRow(w, s, l, q)
    \/ \E s \in Slots : ClearLowStock(w, s)
    \/ PostOpening(w)
    \/ CountOpening(w)
    \/ JudgeRow(w)
    \/ MarkRow(w)
    \/ Fail(w)

Next ==
    \/ \E c \in Clients : ClientStep(c)
    \/ \E s \in Slots : ReconcileBalance(s)
    \/ \E a \in Actors : Commit(a) \/ Abort(a)
    \/ \E w \in Warehouses : CreateWarehouse(w) \/ ArchiveWarehouse(w)
    \/ \E i \in Items, l \in ReorderLevels : CreateItem(i, l)
    \/ \E w \in Writers : WriterStep(w)

Spec == Init /\ [][Next]_vars

(* The monitor's loop visits every row on every tick, and not every one of *)
(* its transactions is overtaken by another writer of the row; one that is *)
(* overtaken is aborted by the database.  A started request runs on, or    *)
(* fails.                                                                  *)
Fairness ==
    /\ \A s \in Slots : SF_vars(ReconcileBalance(s))
    /\ SF_vars(Commit(Monitor))
    /\ WF_vars(~Unwritten(Monitor) /\ Abort(Monitor))
    /\ \A w \in Writers :
         WF_vars(PostOpening(w) \/ CountOpening(w) \/ JudgeRow(w) \/ MarkRow(w))

FairSpec == Spec /\ Fairness

-----------------------------------------------------------------------------
(* Safety.                                                                 *)

(* No interleaving of adjustments, transfers, receipts and imports drives  *)
(* a balance below zero, although every check is made on a snapshot        *)
(* (inventory.service.ts adjustStockInTransaction and                      *)
(* transferStockInTransaction).                                            *)
StockNeverNegative == \A s \in Slots : balances[s].quantity >= 0

(* The balance of a slot is the sum of its movements, except between the   *)
(* two statements of a non-transactional import row, or after such a row   *)
(* died there; and then the balance is short, never over (the ledger is    *)
(* the source of truth, stockBalance.model.ts).                            *)
InFlight(s) == \E w \in Writers : plain[w].stage = "posted" /\ plain[w].slot = s

LedgerAgreement ==
    \A s \in Slots :
        /\ balances[s].quantity <= ledger[s]
        /\ (~InFlight(s) /\ s \notin torn) => balances[s].quantity = ledger[s]

(* Together they are not inductive.  An open transaction has staged, for   *)
(* every row it writes, the balance it read plus the movement it posts,    *)
(* and it never stages a negative quantity...                              *)
Movement(t, s) == IF s \in DOMAIN t.posted THEN t.posted[s] ELSE 0

TxnAdds(t) ==
    t.open =>
        /\ DOMAIN t.posted \subseteq DOMAIN t.before
        /\ \A s \in DOMAIN t.before :
             /\ t.after[s].quantity = t.before[s].quantity + Movement(t, s)
             /\ t.after[s].quantity >= 0
             /\ t.after[s].version > 0
        /\ \A i \in DOMAIN t.itemsAfter : t.itemsAfter[i].status # "absent"

(* ...moves stock in one of the ways the contract allows...                *)
TxnMoves(t) ==
    t.open =>
        \/ \A s \in DOMAIN t.posted : t.posted[s] >= 0
        \/ \E s \in Slots : DOMAIN t.posted = {s}
        \/ \E i \in Items, from, to \in Warehouses :
             /\ from # to
             /\ DOMAIN t.posted = {<<i, from>>, <<i, to>>}
             /\ t.posted[<<i, from>>] = -t.posted[<<i, to>>]
             /\ t.posted[<<i, to>>] > 0

(* ...and an import row owns the item it created: no other row imports it, *)
(* and what the ledger is ahead of the balance is exactly its opening.     *)
Importing(w) == plain[w].stage \in {"created", "posted"}

RowsOwnItems ==
    /\ \A s \in torn : items[s[1]].status # "absent"
    /\ \A w \in Writers : Importing(w) =>
         /\ items[plain[w].slot[1]].status # "absent"
         /\ plain[w].slot \notin torn
         /\ \A v \in Writers \ {w} :
              Importing(v) => plain[v].slot[1] # plain[w].slot[1]
         /\ plain[w].stage = "posted" =>
              ledger[plain[w].slot]
                = balances[plain[w].slot].quantity + plain[w].quantity

ReadRowsExist ==
    \A w \in Writers :
        plain[w].stage \in {"read", "judged"} => plain[w].doc.version > 0

TxnsOK == \A a \in Actors : TxnAdds(txn[a]) /\ TxnMoves(txn[a])

InductiveInv ==
    /\ TypeOK
    /\ StockNeverNegative
    /\ LedgerAgreement
    /\ TxnsOK
    /\ RowsOwnItems
    /\ ReadRowsExist

(* Every step keeps the promises of StockContract: stock leaves a slot     *)
(* only by a correction of that slot alone or by an exact transfer.        *)
Contract == INSTANCE StockContract
              WITH onHand <- [s \in Slots |-> balances[s].quantity]

ImplementsContract == Contract!Spec

(* A low-stock marker that disagrees with the item's reorder level, which  *)
(* two overlapping operations can leave behind, is repaired by the monitor *)
(* (lowStock.automation.ts processTenantLowStock).                         *)
Mismatch(s) ==
    /\ balances[s].version > 0
    /\ balances[s].low # Low(balances[s].quantity, items[s[1]])

MarkerRepaired == \A s \in Slots : Mismatch(s) ~> ~Mismatch(s)
=============================================================================
