-------------------------- MODULE Inventory_proofs --------------------------
(***************************************************************************)
(* Proofs about Inventory: the inductive invariant, and with it the type   *)
(* invariant, non-negative stock, the agreement of balances and ledger,    *)
(* and the refinement of StockContract, for every set of items,            *)
(* warehouses, clients, writers, quantities and reorder levels.            *)
(***************************************************************************)
EXTENDS Inventory, TLAPS

-----------------------------------------------------------------------------
(* What a balance looks like after one reconciliation or one increment.    *)

LEMMA LowBoolean ==
    ASSUME NEW q, NEW item PROVE Low(q, item) \in BOOLEAN
BY DEF Low

LEMMA ReconciledType ==
    ASSUME NEW b \in Balance, NEW item
    PROVE  /\ Reconciled(b, item) \in Balance
           /\ Reconciled(b, item).quantity = b.quantity
           /\ Reconciled(b, item).version = b.version
BY LowBoolean DEF Reconciled, Balance

LEMMA CountedType ==
    ASSUME NEW b \in Balance, NEW d \in Int
    PROVE  /\ Counted(b, d) \in Balance
           /\ Counted(b, d).quantity = b.quantity + d
           /\ Counted(b, d).version = b.version + 1
           /\ Counted(b, d).version > 0
BY DEF Counted, Balance

LEMMA IncrementedType ==
    ASSUME NEW b \in Balance, NEW d \in Int, NEW item
    PROVE  /\ Incremented(b, d, item) \in Balance
           /\ Incremented(b, d, item).quantity = b.quantity + d
           /\ Incremented(b, d, item).version = b.version + 1
           /\ Incremented(b, d, item).version > 0
BY CountedType, ReconciledType DEF Incremented

LEMMA QuantityPositive ==
    ASSUME NEW q \in Quantities PROVE q \in Nat /\ q \in Int /\ q > 0
BY QuantitiesAssumption

LEMMA SlotParts ==
    ASSUME NEW s \in Slots
    PROVE  s[1] \in Items /\ s[2] \in Warehouses /\ s = <<s[1], s[2]>>
BY DEF Slots

LEMMA WriterParts ==
    ASSUME NEW x \in Writer
    PROVE  /\ x.stage \in {"idle", "created", "posted", "read", "judged"}
           /\ x.stage \in {"created", "posted"} =>
                x \in [stage: {"created", "posted"}, slot: Slots, quantity: Quantities]
           /\ x.stage = "read" => x \in [stage: {"read"}, slot: Slots, doc: Balance]
           /\ x.stage = "judged" =>
                x \in [stage: {"judged"}, slot: Slots, doc: Balance, low: BOOLEAN]
           /\ x.stage # "idle" => x.slot \in Slots
BY DEF Writer, IdleWriter

-----------------------------------------------------------------------------
(* The parts of the invariant that a step leaves alone.                    *)

LEMMA TxnsUnchanged ==
    ASSUME TxnsOK, UNCHANGED txn PROVE TxnsOK'
BY DEF TxnsOK, TxnAdds, TxnMoves, Movement

LEMMA TxnReplaced ==
    ASSUME TxnsOK, NEW a \in Actors, NEW t, TxnAdds(t), TxnMoves(t),
           \A b \in Actors : txn'[b] = IF b = a THEN t ELSE txn[b]
    PROVE  TxnsOK'
<1>1. \A b \in Actors : TxnAdds(txn'[b]) /\ TxnMoves(txn'[b])
  BY DEF TxnsOK
<1> QED
  BY <1>1 DEF TxnsOK, TxnAdds, TxnMoves, Movement

LEMMA StockUnchanged ==
    ASSUME StockNeverNegative, LedgerAgreement,
           UNCHANGED <<ledger, torn>>,
           \A s \in Slots : /\ balances'[s].quantity = balances[s].quantity
                            /\ InFlight(s)' = InFlight(s)
    PROVE  StockNeverNegative' /\ LedgerAgreement'
BY DEF StockNeverNegative, LedgerAgreement

LEMMA RowsUnchanged ==
    ASSUME TypeOK, RowsOwnItems, ReadRowsExist,
           UNCHANGED <<balances, ledger, plain, torn>>,
           \A i \in Items : items[i].status # "absent" => items'[i].status # "absent"
    PROVE  /\ RowsOwnItems' /\ ReadRowsExist'
           /\ \A s \in Slots : InFlight(s)' = InFlight(s)
<1>1. \A s \in torn : s[1] \in Items
  BY SlotParts DEF TypeOK
<1>2. \A w \in Writers : Importing(w) => plain[w].slot[1] \in Items
  BY WriterParts, SlotParts DEF TypeOK, Importing
<1>3. ReadRowsExist' /\ \A s \in Slots : InFlight(s)' = InFlight(s)
  BY DEF ReadRowsExist, InFlight
<1> QED
  BY <1>1, <1>2, <1>3 DEF RowsOwnItems, Importing

-----------------------------------------------------------------------------
(* A handler that stages what it should preserves the invariant: staging   *)
(* touches no document, so only the staged transaction matters.            *)

LEMMA StagePreserves ==
    ASSUME InductiveInv,
           NEW a \in Actors, NEW after, NEW posted, NEW newItems,
           IsPartial(after, Slots, Balance),
           IsPartial(posted, Slots, Int),
           IsPartial(newItems, Items, Item),
           DOMAIN posted \subseteq DOMAIN after,
           \A s \in DOMAIN after :
              /\ after[s].quantity = balances[s].quantity
                                     + IF s \in DOMAIN posted THEN posted[s] ELSE 0
              /\ after[s].quantity >= 0
              /\ after[s].version > 0,
           \A i \in DOMAIN newItems : newItems[i].status # "absent",
           \/ \A s \in DOMAIN posted : posted[s] >= 0
           \/ \E s \in Slots : DOMAIN posted = {s}
           \/ \E i \in Items, from, to \in Warehouses :
                /\ from # to
                /\ DOMAIN posted = {<<i, from>>, <<i, to>>}
                /\ posted[<<i, from>>] = -posted[<<i, to>>]
                /\ posted[<<i, to>>] > 0,
           Stage(a, after, posted, newItems)
    PROVE  InductiveInv'
<1> DEFINE t == [open        |-> TRUE,
                 before      |-> [s \in DOMAIN after |-> balances[s]],
                 after       |-> after,
                 posted      |-> posted,
                 itemsBefore |-> [i \in DOMAIN newItems |-> items[i]],
                 itemsAfter  |-> newItems]
<1>1. /\ txn' = [txn EXCEPT ![a] = t]
      /\ UNCHANGED <<items, warehouses, balances, ledger, plain, torn>>
  BY DEF Stage
<1>2. TypeOK
  BY DEF InductiveInv
<1>3. IsTxn(t)
  <2>1. IsPartial([s \in DOMAIN after |-> balances[s]], Slots, Balance)
    BY <1>2 DEF TypeOK, IsPartial
  <2>2. IsPartial([i \in DOMAIN newItems |-> items[i]], Items, Item)
    BY <1>2 DEF TypeOK, IsPartial
  <2> QED
    BY <2>1, <2>2 DEF IsTxn
<1>4. TxnAdds(t)
  BY DEF TxnAdds, Movement
<1>5. TxnMoves(t)
  BY DEF TxnMoves
<1> HIDE DEF t
<1>6. DOMAIN txn' = Actors /\ \A b \in Actors : txn'[b] = IF b = a THEN t ELSE txn[b]
  BY <1>1, <1>2 DEF TypeOK
<1>7. TypeOK'
  BY <1>1, <1>2, <1>3, <1>6 DEF TypeOK
<1>8. TxnsOK'
  BY <1>4, <1>5, <1>6, TxnReplaced DEF InductiveInv
<1>9. RowsOwnItems' /\ ReadRowsExist' /\ \A s \in Slots : InFlight(s)' = InFlight(s)
  BY <1>1, <1>2, RowsUnchanged DEF InductiveInv
<1>10. StockNeverNegative' /\ LedgerAgreement'
  BY <1>1, <1>9, StockUnchanged DEF InductiveInv
<1> QED
  BY <1>7, <1>8, <1>9, <1>10 DEF InductiveInv

(* incrementBalance on rows that exist or not, for movements that leave no *)
(* row negative.                                                           *)
LEMMA StageMovementsPreserves ==
    ASSUME InductiveInv,
           NEW a \in Actors, NEW posted,
           IsPartial(posted, Slots, Int),
           \A s \in DOMAIN posted : balances[s].quantity + posted[s] >= 0,
           \/ \A s \in DOMAIN posted : posted[s] >= 0
           \/ \E s \in Slots : DOMAIN posted = {s}
           \/ \E i \in Items, from, to \in Warehouses :
                /\ from # to
                /\ DOMAIN posted = {<<i, from>>, <<i, to>>}
                /\ posted[<<i, from>>] = -posted[<<i, to>>]
                /\ posted[<<i, to>>] > 0,
           StageMovements(a, posted)
    PROVE  InductiveInv'
<1> DEFINE after == [s \in DOMAIN posted |->
                       Incremented(balances[s], posted[s], items[s[1]])]
<1>1. \A s \in DOMAIN posted : s \in Slots /\ balances[s] \in Balance /\ posted[s] \in Int
  BY DEF InductiveInv, TypeOK, IsPartial
<1>2. \A s \in DOMAIN posted :
         /\ after[s] \in Balance
         /\ after[s].quantity = balances[s].quantity + posted[s]
         /\ after[s].version > 0
  BY <1>1, IncrementedType
<1>3. IsPartial(after, Slots, Balance)
  BY <1>1, <1>2 DEF IsPartial
<1>4. IsPartial(Nothing, Items, Item)
  BY DEF IsPartial, Nothing
<1>5. Stage(a, after, posted, Nothing)
  BY DEF StageMovements
<1>6. DOMAIN after = DOMAIN posted /\ DOMAIN Nothing = {}
  BY DEF Nothing
<1> HIDE DEF after
<1>7. \A s \in DOMAIN after :
         /\ after[s].quantity = balances[s].quantity
                                + IF s \in DOMAIN posted THEN posted[s] ELSE 0
         /\ after[s].quantity >= 0
         /\ after[s].version > 0
  BY <1>2, <1>6
<1> QED
  BY <1>3, <1>4, <1>5, <1>6, <1>7, StagePreserves

(* A new version of an item, with the rows of the item it misjudges.       *)
LEMMA StageItemPreserves ==
    ASSUME InductiveInv,
           NEW a \in Actors, NEW i \in Items, NEW item \in Item,
           item.status # "absent",
           StageItem(a, i, item)
    PROVE  InductiveInv'
<1> DEFINE after == [s \in Misjudged(i, item) |-> Reconciled(balances[s], item)]
           newItems == [j \in {i} |-> item]
<1>1. \A s \in Misjudged(i, item) :
         s \in Slots /\ balances[s] \in Balance /\ balances[s].version > 0
                     /\ balances[s].quantity >= 0
  BY DEF Misjudged, InductiveInv, TypeOK, StockNeverNegative
<1>2. \A s \in DOMAIN after :
         /\ after[s] \in Balance
         /\ after[s].quantity = balances[s].quantity + 0
         /\ after[s].quantity >= 0
         /\ after[s].version > 0
  BY <1>1, ReconciledType DEF Balance
<1>3. IsPartial(after, Slots, Balance)
  BY <1>1, <1>2 DEF IsPartial
<1>4. IsPartial(newItems, Items, Item)
  BY DEF IsPartial
<1>5. IsPartial(Nothing, Slots, Int) /\ DOMAIN Nothing = {}
  BY DEF IsPartial, Nothing
<1>6. Stage(a, after, Nothing, newItems)
  BY DEF StageItem
<1>7. \A j \in DOMAIN newItems : newItems[j].status # "absent"
  OBVIOUS
<1> HIDE DEF after, newItems
<1> QED
  BY <1>2, <1>3, <1>4, <1>5, <1>6, <1>7, StagePreserves

-----------------------------------------------------------------------------
(* The handlers that open a transaction.                                   *)

LEMMA AdjustStockPreserves ==
    ASSUME InductiveInv, NEW c \in Clients, NEW i \in Items, NEW w \in Warehouses,
           NEW d \in Deltas, AdjustStock(c, i, w, d)
    PROVE  InductiveInv'
<1> DEFINE posted == [s \in {<<i, w>>} |-> d]
<1>1. c \in Actors /\ <<i, w>> \in Slots /\ d \in Int
  BY QuantitiesAssumption DEF Actors, Slots, Deltas
<1>2. balances[<<i, w>>].quantity \in Int /\ balances[<<i, w>>].quantity >= 0
  BY <1>1 DEF InductiveInv, TypeOK, StockNeverNegative, Balance
<1>3. IsPartial(posted, Slots, Int)
  BY <1>1 DEF IsPartial
<1>4. \A s \in DOMAIN posted : balances[s].quantity + posted[s] >= 0
  BY <1>1, <1>2 DEF AdjustStock
<1>5. \E s \in Slots : DOMAIN posted = {s}
  BY <1>1
<1>6. StageMovements(c, posted)
  BY DEF AdjustStock
<1> HIDE DEF posted
<1> QED
  BY <1>1, <1>3, <1>4, <1>5, <1>6, StageMovementsPreserves

LEMMA TransferStockPreserves ==
    ASSUME InductiveInv, NEW c \in Clients, NEW i \in Items,
           NEW from \in Warehouses, NEW to \in Warehouses,
           NEW q \in Quantities, TransferStock(c, i, from, to, q)
    PROVE  InductiveInv'
<1> DEFINE posted == [s \in {<<i, from>>, <<i, to>>} |->
                        IF s = <<i, from>> THEN -q ELSE q]
<1>1. /\ c \in Actors /\ <<i, from>> \in Slots /\ <<i, to>> \in Slots
      /\ q \in Int /\ q > 0 /\ from # to
  BY QuantitiesAssumption DEF Actors, Slots, TransferStock
<1>2. \A s \in {<<i, from>>, <<i, to>>} :
         balances[s].quantity \in Int /\ balances[s].quantity >= 0
  BY <1>1 DEF InductiveInv, TypeOK, StockNeverNegative, Balance
<1>3. IsPartial(posted, Slots, Int)
  BY <1>1 DEF IsPartial
<1>4. balances[<<i, from>>].quantity >= q
  BY DEF TransferStock
<1>5. \A s \in DOMAIN posted : balances[s].quantity + posted[s] >= 0
  BY <1>1, <1>2, <1>4
<1>6. /\ DOMAIN posted = {<<i, from>>, <<i, to>>}
      /\ posted[<<i, from>>] = -posted[<<i, to>>]
      /\ posted[<<i, to>>] > 0
  BY <1>1
<1>7. StageMovements(c, posted)
  BY DEF TransferStock
<1> HIDE DEF posted
<1> QED
  BY <1>1, <1>3, <1>5, <1>6, <1>7, StageMovementsPreserves

LEMMA ReceiveStockPreserves ==
    ASSUME InductiveInv, NEW c \in Clients, NEW w \in Warehouses,
           NEW goods \in Deliveries, ReceiveStock(c, w, goods)
    PROVE  InductiveInv'
<1> DEFINE posted == [s \in (DOMAIN goods) \X {w} |-> goods[s[1]]]
<1>1. /\ c \in Actors /\ DOMAIN goods \subseteq Items
      /\ \A i \in DOMAIN goods : goods[i] \in Nat
  BY QuantitiesAssumption DEF Actors, Deliveries
<1>2. \A s \in DOMAIN posted : s \in Slots /\ posted[s] \in Nat
  BY <1>1 DEF Slots
<1>3. IsPartial(posted, Slots, Int)
  BY <1>2 DEF IsPartial
<1>4. \A s \in DOMAIN posted : balances[s].quantity + posted[s] >= 0
  BY <1>2 DEF InductiveInv, TypeOK, StockNeverNegative, Balance
<1>5. StageMovements(c, posted)
  BY DEF ReceiveStock
<1> HIDE DEF posted
<1> QED
  BY <1>1, <1>2, <1>3, <1>4, <1>5, StageMovementsPreserves

LEMMA ItemUpdatesPreserve ==
    ASSUME InductiveInv, NEW c \in Clients, NEW i \in Items,
           \/ \E l \in ReorderLevels : UpdateItem(c, i, l)
           \/ ArchiveItem(c, i)
    PROVE  InductiveInv'
<1>1. c \in Actors /\ items[i] \in Item
  BY DEF Actors, InductiveInv, TypeOK
<1>2. ASSUME NEW l \in ReorderLevels, UpdateItem(c, i, l) PROVE InductiveInv'
  <2> DEFINE item == [items[i] EXCEPT !.reorderLevel = l]
  <2>1. item \in Item /\ item.status # "absent"
    BY <1>1, <1>2 DEF Item, UpdateItem, Live
  <2>2. StageItem(c, i, item)
    BY <1>2 DEF UpdateItem
  <2> HIDE DEF item
  <2> QED
    BY <1>1, <2>1, <2>2, StageItemPreserves
<1>3. CASE ArchiveItem(c, i)
  <2> DEFINE item == [items[i] EXCEPT !.status = "archived"]
  <2>1. item \in Item /\ item.status # "absent"
    BY <1>1 DEF Item, Status
  <2>2. StageItem(c, i, item)
    BY <1>3 DEF ArchiveItem
  <2> HIDE DEF item
  <2> QED
    BY <1>1, <2>1, <2>2, StageItemPreserves
<1> QED
  BY <1>2, <1>3

LEMMA ImportAtomicPreserves ==
    ASSUME InductiveInv, NEW c \in Clients, NEW w \in Warehouses,
           NEW l \in ReorderLevels, NEW rows \in ImportRows,
           ImportAtomic(c, w, l, rows)
    PROVE  InductiveInv'
<1> DEFINE created == [i \in DOMAIN rows |-> [status |-> "live", reorderLevel |-> l]]
           opened == {s \in (DOMAIN rows) \X {w} : rows[s[1]] > 0}
           posted == [s \in opened |-> rows[s[1]]]
           after == [s \in opened |->
                       Incremented(balances[s], posted[s], created[s[1]])]
<1>1. /\ c \in Actors /\ DOMAIN rows \subseteq Items
      /\ \A i \in DOMAIN rows : rows[i] \in Nat
  <2>1. PICK D \in SUBSET Items : rows \in [D -> Quantities \cup {0}]
    BY DEF ImportRows
  <2>2. DOMAIN rows = D /\ \A i \in D : rows[i] \in Quantities \cup {0}
    BY <2>1
  <2>3. Quantities \cup {0} \subseteq Nat
    BY QuantitiesAssumption
  <2> QED
    BY <2>2, <2>3 DEF Actors
<1>2. Stage(c, after, posted, created)
  BY DEF ImportAtomic
<1>3. /\ DOMAIN after = opened /\ DOMAIN posted = opened
      /\ DOMAIN created = DOMAIN rows
  OBVIOUS
<1>4. \A i \in DOMAIN rows : created[i] \in Item /\ created[i].status # "absent"
  BY DEF Item, Status
<1>5. \A s \in opened : s \in Slots /\ posted[s] \in Int /\ posted[s] >= 0
  BY <1>1 DEF Slots
<1>6. \A s \in opened : after[s] = Incremented(balances[s], posted[s], created[s[1]])
  OBVIOUS
<1>7. created \in [DOMAIN created -> Item]
  BY <1>4
<1>8. posted \in [DOMAIN posted -> Int]
  BY <1>5
<1>9. after = [s \in DOMAIN after |-> after[s]]
  OBVIOUS
<1> HIDE DEF created, opened, posted, after
<1>10. \A s \in opened :
         /\ after[s] \in Balance
         /\ after[s].quantity = balances[s].quantity + posted[s]
         /\ after[s].quantity >= 0
         /\ after[s].version > 0
  <2> SUFFICES ASSUME NEW s \in opened
               PROVE  /\ after[s] \in Balance
                      /\ after[s].quantity = balances[s].quantity + posted[s]
                      /\ after[s].quantity >= 0
                      /\ after[s].version > 0
    OBVIOUS
  <2>1. s \in Slots /\ posted[s] \in Int /\ posted[s] >= 0
    BY <1>5
  <2>2. balances[s] \in Balance /\ balances[s].quantity >= 0
    BY <2>1 DEF InductiveInv, TypeOK, StockNeverNegative
  <2>3. balances[s].quantity \in Int
    BY <2>2 DEF Balance
  <2>4. /\ after[s] \in Balance
        /\ after[s].quantity = balances[s].quantity + posted[s]
        /\ after[s].version > 0
    BY <1>6, <2>1, <2>2, IncrementedType
  <2> QED
    BY <2>1, <2>2, <2>3, <2>4
<1>11. IsPartial(after, Slots, Balance)
  BY <1>3, <1>5, <1>9, <1>10 DEF IsPartial
<1>12. IsPartial(posted, Slots, Int)
  BY <1>3, <1>5, <1>8 DEF IsPartial
<1>13. IsPartial(created, Items, Item)
  BY <1>1, <1>3, <1>7 DEF IsPartial
<1> QED
  BY <1>1, <1>2, <1>3, <1>4, <1>5, <1>10, <1>11, <1>12, <1>13, StagePreserves

LEMMA ReconcileBalancePreserves ==
    ASSUME InductiveInv, NEW s \in Slots, ReconcileBalance(s)
    PROVE  InductiveInv'
<1> DEFINE after == [r \in {s} |-> Reconciled(balances[r], items[r[1]])]
<1>1. Monitor \in Actors /\ balances[s] \in Balance
      /\ balances[s].quantity >= 0 /\ balances[s].version > 0
  BY DEF Actors, ReconcileBalance, Misjudged, InductiveInv, TypeOK, StockNeverNegative
<1>2. /\ after[s] \in Balance
      /\ after[s].quantity = balances[s].quantity
      /\ after[s].version > 0
  BY <1>1, ReconciledType
<1>3. balances[s].quantity + 0 = balances[s].quantity
  BY <1>1 DEF Balance
<1>4. IsPartial(after, Slots, Balance)
  BY <1>2 DEF IsPartial
<1>5. /\ IsPartial(Nothing, Slots, Int) /\ IsPartial(Nothing, Items, Item)
      /\ DOMAIN Nothing = {}
  BY DEF IsPartial, Nothing
<1>6. Stage(Monitor, after, Nothing, Nothing) /\ DOMAIN after = {s}
  BY DEF ReconcileBalance
<1> HIDE DEF after
<1> QED
  BY <1>1, <1>2, <1>3, <1>4, <1>5, <1>6, StagePreserves
-----------------------------------------------------------------------------
(* The end of a transaction.                                               *)

(* What Commit does to one slot, when the rows it writes are unwritten.    *)
LEMMA CommitEffect ==
    ASSUME InductiveInv, NEW a \in Actors, Commit(a), NEW s \in Slots
    PROVE  /\ balances'[s] \in Balance
           /\ balances'[s].version = 0 => balances'[s] = balances[s]
           /\ balances'[s].quantity >= 0
           /\ ledger'[s] \in Int
           /\ Movement(txn[a], s) \in Int
           /\ balances'[s].quantity = balances[s].quantity + Movement(txn[a], s)
           /\ ledger'[s] = ledger[s] + Movement(txn[a], s)
<1>1. /\ IsTxn(txn[a]) /\ TxnAdds(txn[a]) /\ txn[a].open
      /\ balances[s] \in Balance /\ balances[s].quantity >= 0 /\ ledger[s] \in Int
  BY DEF InductiveInv, TypeOK, TxnsOK, StockNeverNegative, Commit
<1>2. Movement(txn[a], s) \in Int /\ ledger'[s] = ledger[s] + Movement(txn[a], s)
  BY <1>1 DEF Movement, IsTxn, IsPartial, Commit
<1>3. balances[s].quantity \in Int
  BY <1>1 DEF Balance
<1>4. CASE s \in DOMAIN txn[a].after
  <2>1. balances[s] = txn[a].before[s] /\ balances'[s] = txn[a].after[s]
    BY <1>1, <1>4 DEF IsTxn, Commit, Unwritten
  <2>2. /\ txn[a].after[s] \in Balance
        /\ txn[a].after[s].quantity = txn[a].before[s].quantity + Movement(txn[a], s)
        /\ txn[a].after[s].quantity >= 0
        /\ txn[a].after[s].version > 0
    BY <1>1, <1>4 DEF IsTxn, IsPartial, TxnAdds
  <2> QED
    BY <1>1, <1>2, <2>1, <2>2
<1>5. CASE s \notin DOMAIN txn[a].after
  <2>1. balances'[s] = balances[s] /\ Movement(txn[a], s) = 0
    BY <1>1, <1>5 DEF IsTxn, Commit, TxnAdds, Movement
  <2> QED
    BY <1>1, <1>2, <1>3, <2>1
<1> QED
  BY <1>4, <1>5

LEMMA ClosedTxn == IsTxn(NoTxn) /\ TxnAdds(NoTxn) /\ TxnMoves(NoTxn)
BY DEF IsTxn, NoTxn, Nothing, IsPartial, TxnAdds, TxnMoves

LEMMA CommitPreserves ==
    ASSUME InductiveInv, NEW a \in Actors, Commit(a)
    PROVE  InductiveInv'
<1>1. TypeOK /\ IsTxn(txn[a]) /\ TxnAdds(txn[a]) /\ txn[a].open
  BY DEF InductiveInv, TypeOK, TxnsOK, Commit
<1>2. /\ DOMAIN txn' = Actors
      /\ \A b \in Actors : txn'[b] = IF b = a THEN NoTxn ELSE txn[b]
      /\ UNCHANGED <<warehouses, plain, torn>>
  BY <1>1 DEF Commit, TypeOK
<1>3. IsTxn(NoTxn)
  BY ClosedTxn
<1>4. /\ items' \in [Items -> Item]
      /\ \A i \in Items : items[i].status # "absent" => items'[i].status # "absent"
  BY <1>1 DEF Commit, TypeOK, IsTxn, IsPartial, TxnAdds
<1>5. balances' \in [Slots -> Balance]
  <2>1. balances' = [s \in Slots |-> balances'[s]]
    BY DEF Commit
  <2> QED
    BY <2>1, CommitEffect
<1>6. ledger' \in [Slots -> Int]
  <2>1. ledger' = [s \in Slots |-> ledger'[s]]
    BY DEF Commit
  <2> QED
    BY <2>1, CommitEffect
<1>7. TypeOK'
  BY <1>1, <1>2, <1>3, <1>4, <1>5, <1>6, CommitEffect DEF TypeOK
<1>8. StockNeverNegative'
  BY CommitEffect DEF StockNeverNegative
<1>9. LedgerAgreement'
  <2> SUFFICES ASSUME NEW s \in Slots
               PROVE  /\ balances'[s].quantity <= ledger'[s]
                      /\ (~InFlight(s)' /\ s \notin torn')
                            => balances'[s].quantity = ledger'[s]
    BY DEF LedgerAgreement
  <2>1. balances[s].quantity \in Int /\ ledger[s] \in Int
    BY <1>1 DEF TypeOK, Balance
  <2>2. /\ balances[s].quantity <= ledger[s]
        /\ (~InFlight(s) /\ s \notin torn) => balances[s].quantity = ledger[s]
    BY DEF InductiveInv, LedgerAgreement
  <2>3. InFlight(s)' = InFlight(s)
    BY <1>2 DEF InFlight
  <2> QED
    BY <1>2, <2>1, <2>2, <2>3, CommitEffect
<1>10. RowsOwnItems'
  <2>1. \A s \in torn : s \in Slots /\ s[1] \in Items
    BY <1>1, SlotParts DEF TypeOK
  <2>2. \A w \in Writers : Importing(w) =>
          /\ plain[w].slot \in Slots /\ plain[w].slot[1] \in Items
          /\ plain[w].quantity \in Int
    <3> SUFFICES ASSUME NEW w \in Writers, Importing(w)
                 PROVE  /\ plain[w].slot \in Slots /\ plain[w].slot[1] \in Items
                        /\ plain[w].quantity \in Int
      OBVIOUS
    <3>1. plain[w] \in [stage: {"created", "posted"}, slot: Slots, quantity: Quantities]
      BY <1>1, WriterParts DEF TypeOK, Importing
    <3> QED
      BY <3>1, SlotParts, QuantitiesAssumption
  <2>3. \A w \in Writers : plain[w].stage = "posted" =>
           ledger'[plain[w].slot] = balances'[plain[w].slot].quantity + plain[w].quantity
    <3> SUFFICES ASSUME NEW w \in Writers, plain[w].stage = "posted"
                 PROVE  ledger'[plain[w].slot]
                          = balances'[plain[w].slot].quantity + plain[w].quantity
      OBVIOUS
    <3>1. Importing(w)
      BY DEF Importing
    <3>2. ledger[plain[w].slot] = balances[plain[w].slot].quantity + plain[w].quantity
      BY <3>1 DEF InductiveInv, RowsOwnItems
    <3>3. balances[plain[w].slot].quantity \in Int
      BY <1>1, <2>2, <3>1 DEF TypeOK, Balance
    <3> QED
      BY <2>2, <3>1, <3>2, <3>3, CommitEffect
  <2> QED
    BY <1>2, <1>4, <2>1, <2>2, <2>3 DEF InductiveInv, RowsOwnItems, Importing
<1>11. TxnsOK'
  BY <1>2, ClosedTxn, TxnReplaced DEF InductiveInv
<1>12. ReadRowsExist'
  BY <1>2 DEF InductiveInv, ReadRowsExist
<1> QED
  BY <1>7, <1>8, <1>9, <1>10, <1>11, <1>12 DEF InductiveInv

LEMMA AbortPreserves ==
    ASSUME InductiveInv, NEW a \in Actors, Abort(a)
    PROVE  InductiveInv'
<1>1. /\ DOMAIN txn' = Actors
      /\ \A b \in Actors : txn'[b] = IF b = a THEN NoTxn ELSE txn[b]
      /\ UNCHANGED <<items, warehouses, balances, ledger, plain, torn>>
  BY DEF Abort, InductiveInv, TypeOK
<1>2. IsTxn(NoTxn)
  BY ClosedTxn
<1>3. TypeOK'
  BY <1>1, <1>2 DEF InductiveInv, TypeOK
<1>4. TxnsOK'
  BY <1>1, ClosedTxn, TxnReplaced DEF InductiveInv
<1>5. RowsOwnItems' /\ ReadRowsExist' /\ \A s \in Slots : InFlight(s)' = InFlight(s)
  BY <1>1, RowsUnchanged DEF InductiveInv
<1>6. StockNeverNegative' /\ LedgerAgreement'
  BY <1>1, <1>5, StockUnchanged DEF InductiveInv
<1> QED
  BY <1>3, <1>4, <1>5, <1>6 DEF InductiveInv
-----------------------------------------------------------------------------
(* Operations of one statement.                                            *)

LEMMA WarehouseStepsPreserve ==
    ASSUME InductiveInv, NEW w \in Warehouses,
           CreateWarehouse(w) \/ ArchiveWarehouse(w)
    PROVE  InductiveInv'
<1>1. /\ UNCHANGED <<items, balances, ledger, txn, plain, torn>>
      /\ warehouses' \in [Warehouses -> Status]
  BY DEF CreateWarehouse, ArchiveWarehouse, InductiveInv, TypeOK, Status
<1>2. TypeOK'
  BY <1>1 DEF InductiveInv, TypeOK
<1>3. TxnsOK'
  BY <1>1, TxnsUnchanged DEF InductiveInv
<1>4. RowsOwnItems' /\ ReadRowsExist' /\ \A s \in Slots : InFlight(s)' = InFlight(s)
  BY <1>1, RowsUnchanged DEF InductiveInv
<1>5. StockNeverNegative' /\ LedgerAgreement'
  BY <1>1, <1>4, StockUnchanged DEF InductiveInv
<1> QED
  BY <1>2, <1>3, <1>4, <1>5 DEF InductiveInv

LEMMA CreateItemPreserves ==
    ASSUME InductiveInv, NEW i \in Items, NEW l \in ReorderLevels, CreateItem(i, l)
    PROVE  InductiveInv'
<1>1. UNCHANGED <<warehouses, balances, ledger, txn, plain, torn>>
  BY DEF CreateItem
<1>2. /\ items' \in [Items -> Item]
      /\ \A j \in Items : items[j].status # "absent" => items'[j].status # "absent"
  BY DEF CreateItem, InductiveInv, TypeOK, Item, Status
<1>3. TypeOK'
  BY <1>1, <1>2 DEF InductiveInv, TypeOK
<1>4. TxnsOK'
  BY <1>1, TxnsUnchanged DEF InductiveInv
<1>5. RowsOwnItems' /\ ReadRowsExist' /\ \A s \in Slots : InFlight(s)' = InFlight(s)
  BY <1>1, <1>2, RowsUnchanged DEF InductiveInv
<1>6. StockNeverNegative' /\ LedgerAgreement'
  BY <1>1, <1>5, StockUnchanged DEF InductiveInv
<1> QED
  BY <1>3, <1>4, <1>5, <1>6 DEF InductiveInv

-----------------------------------------------------------------------------
(* The steps of a plain writer.                                            *)

(* A step that only moves one writer, out of an import or not into one.    *)
LEMMA WriterMovesOn ==
    ASSUME InductiveInv, NEW w \in Writers, NEW next \in Writer,
           Goto(w, next), next.stage \notin {"created", "posted"},
           plain[w].stage # "posted",
           next.stage \in {"read", "judged"} => next.doc.version > 0,
           UNCHANGED <<items, warehouses, ledger, txn, torn>>,
           balances' \in [Slots -> Balance],
           \A s \in Slots : /\ balances'[s].quantity = balances[s].quantity
                            /\ balances'[s].version = balances[s].version
                            /\ balances[s].version = 0 => balances'[s] = balances[s]
    PROVE  InductiveInv'
<1>1. /\ plain' \in [Writers -> Writer]
      /\ \A v \in Writers : plain'[v] = IF v = w THEN next ELSE plain[v]
  BY DEF Goto, InductiveInv, TypeOK
<1>2. TypeOK'
  BY <1>1 DEF InductiveInv, TypeOK
<1>3. \A s \in Slots : InFlight(s)' = InFlight(s)
  BY <1>1 DEF InFlight
<1>4. LedgerAgreement' /\ StockNeverNegative'
  BY <1>3, StockUnchanged DEF InductiveInv
<1>5. \A v \in Writers : Importing(v)' => Importing(v) /\ v # w
  BY <1>1 DEF Importing
<1>6. \A v \in Writers : Importing(v) => plain[v].slot \in Slots
  BY WriterParts DEF InductiveInv, TypeOK, Importing
<1>7. RowsOwnItems'
  BY <1>1, <1>5, <1>6 DEF InductiveInv, RowsOwnItems
<1>8. ReadRowsExist'
  BY <1>1 DEF InductiveInv, ReadRowsExist
<1>9. TxnsOK'
  BY TxnsUnchanged DEF InductiveInv
<1> QED
  BY <1>2, <1>4, <1>7, <1>8, <1>9 DEF InductiveInv

LEMMA ReadingPreserves ==
    ASSUME InductiveInv, NEW w \in Writers,
           \/ \E s \in Slots : ClearLowStock(w, s)
           \/ JudgeRow(w)
           \/ MarkRow(w)
    PROVE  InductiveInv'
<1>1. balances \in [Slots -> Balance] /\ plain[w] \in Writer
  BY DEF InductiveInv, TypeOK
<1>2. IdleWriter \in Writer /\ IdleWriter.stage = "idle"
  BY DEF Writer, IdleWriter
<1>3. ASSUME NEW s \in Slots, ClearLowStock(w, s) PROVE InductiveInv'
  <2> DEFINE next == [stage |-> "read", slot |-> s, doc |-> balances[s]]
  <2>1. next \in Writer /\ next.stage = "read" /\ next.doc.version > 0
    BY <1>1, <1>3 DEF Writer, ClearLowStock
  <2>2. /\ Goto(w, next) /\ plain[w].stage = "idle"
        /\ UNCHANGED <<items, warehouses, balances, ledger, txn, torn>>
    BY <1>3 DEF ClearLowStock
  <2> HIDE DEF next
  <2> QED
    BY <1>1, <2>1, <2>2, WriterMovesOn
<1>4. CASE JudgeRow(w)
  <2> DEFINE low == Low(plain[w].doc.quantity, items[plain[w].slot[1]])
             next == IF low = plain[w].doc.low THEN IdleWriter
                     ELSE [stage |-> "judged", slot |-> plain[w].slot,
                           doc |-> plain[w].doc, low |-> low]
  <2>1. /\ Goto(w, next) /\ plain[w].stage = "read"
        /\ UNCHANGED <<items, warehouses, balances, ledger, txn, torn>>
    BY <1>4 DEF JudgeRow
  <2>2. /\ plain[w].slot \in Slots /\ plain[w].doc \in Balance
        /\ plain[w].doc.version > 0
    BY <1>1, <2>1, WriterParts DEF InductiveInv, ReadRowsExist
  <2>3. low \in BOOLEAN
    BY LowBoolean
  <2> HIDE DEF low
  <2>4. /\ next \in Writer /\ next.stage \notin {"created", "posted"}
        /\ next.stage \in {"read", "judged"} => next.doc.version > 0
    BY <1>2, <2>2, <2>3 DEF Writer
  <2> HIDE DEF next
  <2> QED
    BY <1>1, <2>1, <2>4, WriterMovesOn
<1>5. CASE MarkRow(w)
  <2> DEFINE s == plain[w].slot
  <2>1. /\ plain[w].stage = "judged" /\ s \in Slots
        /\ plain[w].doc \in Balance /\ plain[w].low \in BOOLEAN
        /\ plain[w].doc.version > 0
    BY <1>1, <1>5, WriterParts DEF MarkRow, InductiveInv, ReadRowsExist
  <2>2. /\ Goto(w, IdleWriter)
        /\ UNCHANGED <<items, warehouses, ledger, txn, torn>>
        /\ balances' = IF balances[s].version = plain[w].doc.version
                       THEN [balances EXCEPT ![s].low = plain[w].low] ELSE balances
    BY <1>5 DEF MarkRow
  <2> HIDE DEF s
  <2>3. balances' \in [Slots -> Balance]
    BY <1>1, <2>1, <2>2 DEF Balance
  <2>4. \A r \in Slots : /\ balances'[r].quantity = balances[r].quantity
                         /\ balances'[r].version = balances[r].version
                         /\ balances[r].version = 0 => balances'[r] = balances[r]
    BY <1>1, <2>1, <2>2 DEF Balance
  <2> QED
    BY <1>2, <2>1, <2>2, <2>3, <2>4, WriterMovesOn
<1> QED
  BY <1>3, <1>4, <1>5
LEMMA ImportRowPreserves ==
    ASSUME InductiveInv, NEW w \in Writers, NEW s \in Slots,
           NEW l \in ReorderLevels, NEW q \in Quantities, ImportRow(w, s, l, q)
    PROVE  InductiveInv'
<1> DEFINE next == [stage |-> "created", slot |-> s, quantity |-> q]
<1>1. /\ UNCHANGED <<warehouses, balances, ledger, txn, torn>>
      /\ plain' = [plain EXCEPT ![w] = next]
      /\ plain[w].stage = "idle" /\ items[s[1]].status = "absent"
      /\ items' = [items EXCEPT ![s[1]] = [status |-> "live", reorderLevel |-> l]]
  BY DEF ImportRow, Goto
<1>2. /\ next \in Writer /\ next.stage = "created"
      /\ next.slot = s /\ s[1] \in Items
  BY SlotParts DEF Writer
<1> HIDE DEF next
<1>3. /\ plain' \in [Writers -> Writer]
      /\ \A v \in Writers : plain'[v] = IF v = w THEN next ELSE plain[v]
  BY <1>1, <1>2 DEF InductiveInv, TypeOK
<1>4. /\ items' \in [Items -> Item] /\ items'[s[1]].status # "absent"
      /\ \A j \in Items : items[j].status # "absent" => items'[j].status # "absent"
  BY <1>1, <1>2 DEF InductiveInv, TypeOK, Item, Status
<1>5. TypeOK'
  BY <1>1, <1>3, <1>4 DEF InductiveInv, TypeOK
<1>6. TxnsOK'
  BY <1>1, TxnsUnchanged DEF InductiveInv
<1>7. \A r \in Slots : InFlight(r)' = InFlight(r)
  BY <1>1, <1>2, <1>3 DEF InFlight
<1>8. StockNeverNegative' /\ LedgerAgreement'
  BY <1>1, <1>7, StockUnchanged DEF InductiveInv
<1>9. ReadRowsExist'
  BY <1>2, <1>3 DEF InductiveInv, ReadRowsExist
<1>10. RowsOwnItems'
  <2>1. \A r \in torn : r[1] \in Items /\ items[r[1]].status # "absent"
    BY SlotParts DEF InductiveInv, TypeOK, RowsOwnItems
  <2>2. \A v \in Writers : Importing(v) =>
           plain[v].slot[1] \in Items /\ items[plain[v].slot[1]].status # "absent"
    BY WriterParts, SlotParts DEF InductiveInv, TypeOK, RowsOwnItems, Importing
  <2>3. \A v \in Writers \ {w} : Importing(v)' = Importing(v) /\ plain'[v] = plain[v]
    BY <1>3 DEF Importing
  <2>4. plain'[w] = next /\ s \notin torn'
    BY <1>1, <1>3, <2>1
  <2>5. \A v \in Writers \ {w} : Importing(v) => plain[v].slot[1] # s[1]
    BY <1>1, <2>2
  <2>6. ASSUME NEW v \in Writers, Importing(v)'
        PROVE  /\ items'[plain'[v].slot[1]].status # "absent"
               /\ plain'[v].slot \notin torn'
               /\ \A u \in Writers \ {v} :
                    Importing(u)' => plain'[u].slot[1] # plain'[v].slot[1]
               /\ plain'[v].stage = "posted" =>
                    ledger'[plain'[v].slot]
                      = balances'[plain'[v].slot].quantity + plain'[v].quantity
    <3>1. CASE v = w
      BY <1>2, <1>4, <2>3, <2>4, <2>5, <3>1
    <3>2. CASE v # w
      <4>1. Importing(v) /\ plain'[v] = plain[v]
        BY <2>3, <2>6, <3>2
      <4>2. /\ plain[v].slot \notin torn
            /\ \A u \in Writers \ {v} :
                 Importing(u) => plain[u].slot[1] # plain[v].slot[1]
            /\ plain[v].stage = "posted" =>
                 ledger[plain[v].slot]
                   = balances[plain[v].slot].quantity + plain[v].quantity
        BY <4>1 DEF InductiveInv, RowsOwnItems
      <4>3. \A u \in Writers \ {v} :
               Importing(u)' => plain'[u].slot[1] # plain'[v].slot[1]
        BY <1>2, <2>3, <2>4, <2>5, <3>2, <4>1, <4>2
      <4> QED
        BY <1>1, <1>4, <2>2, <4>1, <4>2, <4>3
    <3> QED
      BY <3>1, <3>2
  <2>7. \A r \in torn' : items'[r[1]].status # "absent"
    BY <1>1, <1>4, <2>1
  <2> QED
    BY <2>6, <2>7 DEF RowsOwnItems
<1> QED
  BY <1>5, <1>6, <1>8, <1>9, <1>10 DEF InductiveInv

(* A step of an importing writer that keeps the slot and the quantity, and *)
(* changes only that slot's ledger and balance.                            *)
LEMMA ImportMovesOn ==
    ASSUME InductiveInv, NEW w \in Writers, Importing(w), NEW next \in Writer,
           Goto(w, next),
           next.stage \in {"created", "posted"} =>
             /\ next.slot = plain[w].slot
             /\ next.quantity = plain[w].quantity,
           UNCHANGED <<items, warehouses, txn>>,
           balances' \in [Slots -> Balance], ledger' \in [Slots -> Int],
           torn' \in SUBSET (torn \cup {plain[w].slot}),
           torn \subseteq torn',
           \A s \in Slots \ {plain[w].slot} :
             balances'[s] = balances[s] /\ ledger'[s] = ledger[s],
           balances'[plain[w].slot].version = 0
             => balances'[plain[w].slot] = NoBalance,
           balances'[plain[w].slot].quantity >= 0,
           balances'[plain[w].slot].quantity <= ledger'[plain[w].slot],
           \/ /\ next.stage \notin {"created", "posted"}
              /\ \/ balances'[plain[w].slot].quantity = ledger'[plain[w].slot]
                 \/ plain[w].slot \in torn'
           \/ /\ next.stage = "posted"
              /\ plain[w].slot \notin torn'
              /\ ledger'[plain[w].slot]
                   = balances'[plain[w].slot].quantity + plain[w].quantity,
           next.stage \in {"read", "judged"} => next.doc.version > 0
    PROVE  InductiveInv'
<1> DEFINE s == plain[w].slot
<1>1. /\ plain' \in [Writers -> Writer]
      /\ \A v \in Writers : plain'[v] = IF v = w THEN next ELSE plain[v]
  BY DEF Goto, InductiveInv, TypeOK
<1>2. s \in Slots /\ s[1] \in Items /\ items[s[1]].status # "absent"
  BY WriterParts, SlotParts DEF InductiveInv, TypeOK, Importing, RowsOwnItems
<1>3. TypeOK'
  BY <1>1, <1>2 DEF InductiveInv, TypeOK
<1>4. \A v \in Writers \ {w} :
         /\ Importing(v)' = Importing(v) /\ plain'[v] = plain[v]
         /\ Importing(v) => plain[v].slot # s /\ plain[v].slot[1] # s[1]
                             /\ plain[v].slot \in Slots
  BY <1>1, WriterParts DEF InductiveInv, TypeOK, RowsOwnItems, Importing
<1>5. StockNeverNegative'
  BY <1>2 DEF InductiveInv, StockNeverNegative
<1>6. LedgerAgreement'
  <2> SUFFICES ASSUME NEW r \in Slots
               PROVE  /\ balances'[r].quantity <= ledger'[r]
                      /\ (~InFlight(r)' /\ r \notin torn')
                            => balances'[r].quantity = ledger'[r]
    BY DEF LedgerAgreement
  <2>1. CASE r = s
    BY <1>1, <2>1 DEF InFlight
  <2>2. CASE r # s
    <3>1. ~InFlight(r)' => ~InFlight(r)
      BY <1>1, <2>2 DEF InFlight
    <3> QED
      BY <2>2, <3>1 DEF InductiveInv, LedgerAgreement
  <2> QED
    BY <2>1, <2>2
<1>7. TxnsOK'
  BY TxnsUnchanged DEF InductiveInv
<1>8. ReadRowsExist'
  BY <1>1 DEF InductiveInv, ReadRowsExist
<1>9. RowsOwnItems'
  <2>1. \A r \in torn' : items'[r[1]].status # "absent"
    BY <1>2 DEF InductiveInv, RowsOwnItems
  <2>2. ASSUME NEW v \in Writers, Importing(v)'
        PROVE  /\ items'[plain'[v].slot[1]].status # "absent"
               /\ plain'[v].slot \notin torn'
               /\ \A u \in Writers \ {v} :
                    Importing(u)' => plain'[u].slot[1] # plain'[v].slot[1]
               /\ plain'[v].stage = "posted" =>
                    ledger'[plain'[v].slot]
                      = balances'[plain'[v].slot].quantity + plain'[v].quantity
    <3>1. CASE v = w
      <4>1. plain'[v] = next /\ next.stage = "posted" /\ next.slot = s
            /\ next.quantity = plain[w].quantity
        BY <1>1, <2>2, <3>1 DEF Importing
      <4> QED
        BY <1>2, <1>4, <3>1, <4>1
    <3>2. CASE v # w
      <4>1. /\ Importing(v) /\ plain'[v] = plain[v]
            /\ plain[v].slot # s /\ plain[v].slot[1] # s[1] /\ plain[v].slot \in Slots
        BY <1>4, <2>2, <3>2
      <4>2. /\ items[plain[v].slot[1]].status # "absent"
            /\ plain[v].slot \notin torn
            /\ \A u \in Writers \ {v} :
                 Importing(u) => plain[u].slot[1] # plain[v].slot[1]
            /\ plain[v].stage = "posted" =>
                 ledger[plain[v].slot]
                   = balances[plain[v].slot].quantity + plain[v].quantity
        BY <4>1 DEF InductiveInv, RowsOwnItems
      <4>3. \A u \in Writers \ {v} :
               Importing(u)' => plain'[u].slot[1] # plain'[v].slot[1]
        <5> SUFFICES ASSUME NEW u \in Writers \ {v}, Importing(u)'
                     PROVE  plain'[u].slot[1] # plain'[v].slot[1]
          OBVIOUS
        <5>1. CASE u = w
          <6>1. plain'[u] = next /\ next.stage \in {"created", "posted"}
            BY <1>1, <5>1 DEF Importing
          <6> QED
            BY <4>1, <6>1
        <5>2. CASE u # w
          BY <1>4, <4>1, <4>2, <5>2
        <5> QED
          BY <5>1, <5>2
      <4> QED
        BY <4>1, <4>2, <4>3
    <3> QED
      BY <3>1, <3>2
  <2> QED
    BY <2>1, <2>2 DEF RowsOwnItems
<1> QED
  BY <1>3, <1>5, <1>6, <1>7, <1>8, <1>9 DEF InductiveInv
(* What the invariant says of a writer that is importing.                  *)
LEMMA ImportingFacts ==
    ASSUME InductiveInv, NEW w \in Writers, Importing(w)
    PROVE  LET s == plain[w].slot IN
           /\ s \in Slots /\ s \notin torn
           /\ plain[w] \in Writer
           /\ plain[w] = [stage |-> plain[w].stage, slot |-> s,
                          quantity |-> plain[w].quantity]
           /\ plain[w].quantity \in Quantities
           /\ plain[w].quantity \in Int /\ plain[w].quantity > 0
           /\ balances[s] \in Balance /\ balances[s].quantity \in Int
           /\ ledger[s] \in Int /\ balances[s].quantity >= 0
           /\ plain[w].stage = "created" => balances[s].quantity = ledger[s]
           /\ plain[w].stage = "posted" =>
                ledger[s] = balances[s].quantity + plain[w].quantity
           /\ balances[s].version = 0 => balances[s] = NoBalance
<1> DEFINE s == plain[w].slot
<1>1. plain[w] \in Writer
  BY DEF InductiveInv, TypeOK
<1>2. plain[w] \in [stage: {"created", "posted"}, slot: Slots, quantity: Quantities]
  BY <1>1, WriterParts DEF Importing
<1>3. /\ s \in Slots /\ s \notin torn
      /\ plain[w].quantity \in Quantities
      /\ plain[w].quantity \in Int /\ plain[w].quantity > 0
      /\ plain[w] = [stage |-> plain[w].stage, slot |-> s, quantity |-> plain[w].quantity]
  <2>1. s \notin torn
    BY DEF InductiveInv, RowsOwnItems
  <2>2. s \in Slots /\ plain[w].quantity \in Quantities
    BY <1>2
  <2>3. plain[w] = [stage |-> plain[w].stage, slot |-> s, quantity |-> plain[w].quantity]
    BY <1>2
  <2>4. plain[w].quantity \in Int /\ plain[w].quantity > 0
    BY <2>2, QuantityPositive
  <2> QED
    BY <2>1, <2>2, <2>3, <2>4
<1>4. /\ balances[s] \in Balance /\ balances[s].quantity \in Int
      /\ ledger[s] \in Int /\ balances[s].quantity >= 0
      /\ balances[s].version = 0 => balances[s] = NoBalance
  BY <1>3 DEF InductiveInv, TypeOK, StockNeverNegative, Balance
<1>5. plain[w].stage = "created" => balances[s].quantity = ledger[s]
  <2> SUFFICES ASSUME plain[w].stage = "created"
               PROVE  balances[s].quantity = ledger[s]
    OBVIOUS
  <2>1. ~InFlight(s)
    <3> SUFFICES ASSUME NEW v \in Writers, plain[v].stage = "posted", plain[v].slot = s
                 PROVE  FALSE
      BY DEF InFlight
    <3>1. v # w /\ Importing(v)
      BY DEF Importing
    <3> QED
      BY <3>1 DEF InductiveInv, RowsOwnItems
  <2> QED
    BY <1>3, <2>1 DEF InductiveInv, LedgerAgreement
<1>6. plain[w].stage = "posted" => ledger[s] = balances[s].quantity + plain[w].quantity
  BY DEF InductiveInv, RowsOwnItems
<1> QED
  BY <1>1, <1>3, <1>4, <1>5, <1>6

LEMMA PostOpeningPreserves ==
    ASSUME InductiveInv, NEW w \in Writers, PostOpening(w)
    PROVE  InductiveInv'
<1> DEFINE s == plain[w].slot
<1>1. /\ plain[w].stage = "created" /\ Importing(w)
      /\ UNCHANGED <<items, warehouses, balances, txn, torn>>
  BY DEF PostOpening, Importing
<1>2. /\ s \in Slots /\ s \notin torn /\ plain[w].quantity \in Quantities
      /\ plain[w].quantity \in Int /\ plain[w].quantity > 0
      /\ balances[s].quantity \in Int /\ ledger[s] \in Int
      /\ balances[s].quantity >= 0 /\ balances[s].quantity = ledger[s]
      /\ balances[s].version = 0 => balances[s] = NoBalance
  BY <1>1, ImportingFacts
<1>3. balances' \in [Slots -> Balance] /\ ledger \in [Slots -> Int]
  BY <1>1 DEF InductiveInv, TypeOK
<1>4. CASE warehouses[s[2]] = "live"
  <2> DEFINE next == [plain[w] EXCEPT !.stage = "posted"]
  <2>1. Goto(w, next) /\ ledger' = [ledger EXCEPT ![s] = @ + plain[w].quantity]
    BY <1>4 DEF PostOpening
  <2>2. plain[w] = [stage |-> "created", slot |-> s, quantity |-> plain[w].quantity]
    BY <1>1, ImportingFacts
  <2>3. next = [stage |-> "posted", slot |-> s, quantity |-> plain[w].quantity]
    BY <2>2
  <2>4. /\ next \in Writer /\ next.stage = "posted"
        /\ next.slot = s /\ next.quantity = plain[w].quantity
    BY <1>2, <2>3 DEF Writer
  <2>5. /\ ledger' \in [Slots -> Int] /\ ledger'[s] = balances'[s].quantity + plain[w].quantity
        /\ balances'[s].quantity <= ledger'[s]
        /\ \A r \in Slots \ {s} : ledger'[r] = ledger[r]
    BY <1>1, <1>2, <1>3, <2>1
  <2> HIDE DEF next
  <2> QED
    BY <1>1, <1>2, <1>3, <2>1, <2>4, <2>5, ImportMovesOn
<1>5. CASE warehouses[s[2]] # "live"
  <2>1. Goto(w, IdleWriter) /\ UNCHANGED ledger
    BY <1>5 DEF PostOpening
  <2>2. IdleWriter \in Writer /\ IdleWriter.stage = "idle"
    BY DEF Writer, IdleWriter
  <2> QED
    BY <1>1, <1>2, <1>3, <2>1, <2>2, ImportMovesOn
<1> QED
  BY <1>4, <1>5

LEMMA CountOpeningPreserves ==
    ASSUME InductiveInv, NEW w \in Writers, CountOpening(w)
    PROVE  InductiveInv'
<1> DEFINE s == plain[w].slot
           counted == Counted(balances[s], plain[w].quantity)
           next == [stage |-> "read", slot |-> s, doc |-> counted]
<1>1. /\ plain[w].stage = "posted" /\ Importing(w)
      /\ balances' = [balances EXCEPT ![s] = counted] /\ Goto(w, next)
      /\ UNCHANGED <<items, warehouses, ledger, txn, torn>>
  BY DEF CountOpening, Importing
<1>2. /\ s \in Slots /\ s \notin torn
      /\ plain[w].quantity \in Int /\ plain[w].quantity > 0
      /\ balances[s] \in Balance /\ balances[s].quantity \in Int
      /\ ledger[s] \in Int /\ balances[s].quantity >= 0
      /\ ledger[s] = balances[s].quantity + plain[w].quantity
  BY <1>1, ImportingFacts
<1>3. /\ counted \in Balance /\ counted.version > 0
      /\ counted.quantity = balances[s].quantity + plain[w].quantity
  BY <1>2, CountedType
<1> HIDE DEF counted
<1>4. next \in Writer /\ next.stage = "read" /\ next.doc.version > 0
  BY <1>2, <1>3 DEF Writer
<1> HIDE DEF next
<1>5. balances \in [Slots -> Balance] /\ ledger \in [Slots -> Int]
  BY DEF InductiveInv, TypeOK
<1>6. /\ balances' \in [Slots -> Balance] /\ balances'[s] = counted
      /\ \A r \in Slots \ {s} : balances'[r] = balances[r]
  BY <1>1, <1>2, <1>3, <1>5
<1>7. /\ balances'[s].version > 0 /\ balances'[s].quantity >= 0
      /\ balances'[s].quantity = ledger'[s] /\ balances'[s].quantity <= ledger'[s]
      /\ balances'[s].version # 0
  BY <1>1, <1>2, <1>3, <1>6
<1> HIDE DEF s
<1> QED
  BY <1>1, <1>2, <1>4, <1>5, <1>6, <1>7, ImportMovesOn DEF s

LEMMA FailPreserves ==
    ASSUME InductiveInv, NEW w \in Writers, Fail(w)
    PROVE  InductiveInv'
<1>1. /\ UNCHANGED <<items, warehouses, balances, ledger, txn>>
      /\ Goto(w, IdleWriter) /\ plain[w].stage # "idle"
      /\ torn' = IF plain[w].stage = "posted" THEN torn \cup {plain[w].slot} ELSE torn
  BY DEF Fail
<1>2. IdleWriter \in Writer /\ IdleWriter.stage = "idle"
  BY DEF Writer, IdleWriter
<1>3. balances \in [Slots -> Balance] /\ ledger \in [Slots -> Int]
  BY DEF InductiveInv, TypeOK
<1>4. CASE Importing(w)
  <2> DEFINE s == plain[w].slot
  <2>1. /\ s \in Slots /\ plain[w].quantity \in Int /\ plain[w].quantity > 0
        /\ balances[s].quantity \in Int /\ ledger[s] \in Int
        /\ balances[s].quantity >= 0
        /\ plain[w].stage = "created" => balances[s].quantity = ledger[s]
        /\ plain[w].stage = "posted" =>
             ledger[s] = balances[s].quantity + plain[w].quantity
        /\ balances[s].version = 0 => balances[s] = NoBalance
    BY <1>4, ImportingFacts
  <2>2. plain[w].stage \in {"created", "posted"}
    BY <1>4 DEF Importing
  <2>3. balances[s].quantity <= ledger[s]
    BY <2>1, <2>2
  <2>4. balances[s].quantity = ledger[s] \/ s \in torn'
    BY <1>1, <2>1, <2>2
  <2> QED
    BY <1>1, <1>2, <1>3, <1>4, <2>1, <2>3, <2>4, ImportMovesOn
<1>5. CASE ~Importing(w)
  <2>1. plain[w].stage # "posted" /\ UNCHANGED torn
    BY <1>1, <1>5 DEF Importing
  <2> QED
    BY <1>1, <1>2, <1>3, <2>1, WriterMovesOn
<1> QED
  BY <1>4, <1>5
-----------------------------------------------------------------------------
(* The invariant holds of every behaviour.                                 *)

LEMMA InitInductive == Init => InductiveInv
<1> SUFFICES ASSUME Init PROVE InductiveInv
  OBVIOUS
<1>1. /\ NoBalance \in Balance /\ NoBalance.quantity = 0
      /\ NoItem \in Item /\ IdleWriter \in Writer /\ IdleWriter.stage = "idle"
  BY LevelsAssumption DEF NoBalance, Balance, NoItem, Item, Status, Writer, IdleWriter
<1>2. TypeOK
  BY <1>1, ClosedTxn DEF Init, TypeOK, Status
<1>3. StockNeverNegative /\ LedgerAgreement
  BY <1>1 DEF Init, StockNeverNegative, LedgerAgreement
<1>4. TxnsOK
  BY ClosedTxn DEF Init, TxnsOK
<1>5. RowsOwnItems /\ ReadRowsExist
  BY <1>1 DEF Init, RowsOwnItems, ReadRowsExist, Importing
<1> QED
  BY <1>2, <1>3, <1>4, <1>5 DEF InductiveInv

LEMMA NextInductive == InductiveInv /\ [Next]_vars => InductiveInv'
<1> SUFFICES ASSUME InductiveInv, [Next]_vars PROVE InductiveInv'
  OBVIOUS
<1>1. ASSUME NEW c \in Clients, ClientStep(c) PROVE InductiveInv'
  BY <1>1, AdjustStockPreserves, TransferStockPreserves, ReceiveStockPreserves,
     ItemUpdatesPreserve, ImportAtomicPreserves DEF ClientStep
<1>2. ASSUME NEW s \in Slots, ReconcileBalance(s) PROVE InductiveInv'
  BY <1>2, ReconcileBalancePreserves
<1>3. ASSUME NEW a \in Actors, Commit(a) \/ Abort(a) PROVE InductiveInv'
  BY <1>3, CommitPreserves, AbortPreserves
<1>4. ASSUME NEW w \in Warehouses, CreateWarehouse(w) \/ ArchiveWarehouse(w)
      PROVE  InductiveInv'
  BY <1>4, WarehouseStepsPreserve
<1>5. ASSUME NEW i \in Items, NEW l \in ReorderLevels, CreateItem(i, l)
      PROVE  InductiveInv'
  BY <1>5, CreateItemPreserves
<1>6. ASSUME NEW w \in Writers, WriterStep(w) PROVE InductiveInv'
  BY <1>6, ImportRowPreserves, ReadingPreserves, PostOpeningPreserves,
     CountOpeningPreserves, FailPreserves DEF WriterStep
<1>7. CASE UNCHANGED vars
  <2>1. UNCHANGED <<items, warehouses, balances, ledger, txn, plain, torn>>
    BY <1>7 DEF vars
  <2>2. TypeOK' /\ TxnsOK'
    BY <2>1, TxnsUnchanged DEF InductiveInv, TypeOK
  <2>3. RowsOwnItems' /\ ReadRowsExist' /\ \A s \in Slots : InFlight(s)' = InFlight(s)
    BY <2>1, RowsUnchanged DEF InductiveInv
  <2>4. StockNeverNegative' /\ LedgerAgreement'
    BY <2>1, <2>3, StockUnchanged DEF InductiveInv
  <2> QED
    BY <2>2, <2>3, <2>4 DEF InductiveInv
<1> QED
  BY <1>1, <1>2, <1>3, <1>4, <1>5, <1>6, <1>7 DEF Next

LEMMA Invariance == Spec => []InductiveInv
BY InitInductive, NextInductive, PTL DEF Spec

(* Every collection keeps its shape, and a balance row exists exactly from *)
(* its first increment on.                                                 *)
THEOREM TypeCorrect == Spec => []TypeOK
<1>1. InductiveInv => TypeOK
  BY DEF InductiveInv
<1> QED
  BY <1>1, Invariance, PTL

(* No interleaving of the operations of inventory.service.ts drives a      *)
(* balance below zero, however many requests overlap.                      *)
THEOREM NeverNegative == Spec => []StockNeverNegative
<1>1. InductiveInv => StockNeverNegative
  BY DEF InductiveInv
<1> QED
  BY <1>1, Invariance, PTL

(* stockBalances agrees with the sum of stockMovements, except where a     *)
(* non-transactional import row is, or died, between its two statements.   *)
THEOREM BalancesFollowLedger == Spec => []LedgerAgreement
<1>1. InductiveInv => LedgerAgreement
  BY DEF InductiveInv
<1> QED
  BY <1>1, Invariance, PTL

-----------------------------------------------------------------------------
(* The refinement of StockContract.                                        *)

OnHand == [s \in Slots |-> balances[s].quantity]

LEMMA CommitRefines ==
    ASSUME InductiveInv, NEW a \in Actors, Commit(a)
    PROVE  Contract!Next
<1> DEFINE m(s) == Movement(txn[a], s)
<1>1. TxnMoves(txn[a]) /\ txn[a].open /\ IsTxn(txn[a])
  BY DEF InductiveInv, TypeOK, TxnsOK, Commit
<1>2. \A s \in Slots : /\ OnHand[s] \in Int /\ OnHand[s] >= 0
                       /\ m(s) \in Int /\ OnHand'[s] \in Int /\ OnHand'[s] >= 0
                       /\ OnHand'[s] = OnHand[s] + m(s)
  <2> SUFFICES ASSUME NEW s \in Slots
               PROVE  /\ balances[s].quantity \in Int /\ balances[s].quantity >= 0
                      /\ m(s) \in Int
                      /\ balances'[s].quantity \in Int /\ balances'[s].quantity >= 0
                      /\ balances'[s].quantity = balances[s].quantity + m(s)
    BY DEF OnHand
  <2>1. balances[s].quantity \in Int /\ balances[s].quantity >= 0
    BY DEF InductiveInv, TypeOK, StockNeverNegative, Balance
  <2>2. balances'[s].quantity \in Int
    BY CommitEffect DEF Balance
  <2> QED
    BY <2>1, <2>2, CommitEffect
<1>3. OnHand' \in [Slots -> Int]
  BY <1>2 DEF OnHand
<1>4. CASE \A s \in DOMAIN txn[a].posted : txn[a].posted[s] >= 0
  <2>1. \A s \in Slots : m(s) >= 0
    BY <1>4 DEF Movement
  <2>2. \A s \in Slots : OnHand'[s] >= OnHand[s]
    BY <1>2, <2>1
  <2>3. Contract!Deliver
    BY <1>3, <2>2 DEF Contract!Deliver, Contract!Slots, Slots, OnHand
  <2> QED
    BY <2>3 DEF Contract!Next
<1>5. CASE \E s \in Slots : DOMAIN txn[a].posted = {s}
  <2>1. PICK s \in Slots : DOMAIN txn[a].posted = {s}
    BY <1>5
  <2>2. \A r \in Slots \ {s} : m(r) = 0
    BY <2>1 DEF Movement
  <2>3. OnHand'[s] >= 0 /\ \A r \in Slots \ {s} : OnHand'[r] = OnHand[r]
    BY <1>2, <2>2
  <2>4. Contract!Correct(s)
    BY <1>3, <2>3 DEF Contract!Correct, Contract!Slots, Slots, OnHand
  <2> QED
    BY <2>4 DEF Contract!Next, Contract!Slots, Slots
<1>6. CASE \E i \in Items, from, to \in Warehouses :
             /\ from # to
             /\ DOMAIN txn[a].posted = {<<i, from>>, <<i, to>>}
             /\ txn[a].posted[<<i, from>>] = -txn[a].posted[<<i, to>>]
             /\ txn[a].posted[<<i, to>>] > 0
  <2>1. PICK i \in Items, from \in Warehouses, to \in Warehouses :
             /\ from # to
             /\ DOMAIN txn[a].posted = {<<i, from>>, <<i, to>>}
             /\ txn[a].posted[<<i, from>>] = -txn[a].posted[<<i, to>>]
             /\ txn[a].posted[<<i, to>>] > 0
    BY <1>6
  <2> DEFINE q == m(<<i, to>>)
  <2>2. <<i, from>> \in Slots /\ <<i, to>> \in Slots /\ <<i, from>> # <<i, to>>
    BY <2>1 DEF Slots
  <2>3. /\ q \in Int /\ q > 0 /\ m(<<i, from>>) = -q
        /\ \A r \in Slots \ {<<i, from>>, <<i, to>>} : m(r) = 0
    BY <1>2, <2>1, <2>2 DEF Movement
  <2> HIDE DEF m
  <2>4. /\ OnHand'[<<i, from>>] = OnHand[<<i, from>>] - q
        /\ OnHand'[<<i, to>>] = OnHand[<<i, to>>] + q
        /\ \A r \in Slots \ {<<i, from>>, <<i, to>>} : OnHand'[r] = OnHand[r]
        /\ q \in 1 .. OnHand[<<i, from>>]
    BY <1>2, <2>2, <2>3
  <2>5. OnHand \in [Slots -> Int]
    BY <1>2 DEF OnHand
  <2>6. OnHand' = [OnHand EXCEPT ![<<i, from>>] = @ - q, ![<<i, to>>] = @ + q]
    <3> HIDE DEF q
    <3>1. \A r \in Slots : OnHand'[r] =
            [OnHand EXCEPT ![<<i, from>>] = @ - q, ![<<i, to>>] = @ + q][r]
      BY <2>2, <2>4, <2>5
    <3> QED
      BY <1>3, <2>5, <3>1
  <2> HIDE DEF q
  <2>7. Contract!Move(i, from, to)
    BY <2>1, <2>4, <2>6 DEF Contract!Move, OnHand
  <2> QED
    BY <2>7 DEF Contract!Next
<1> QED
  BY <1>1, <1>4, <1>5, <1>6 DEF TxnMoves

LEMMA CountOpeningRefines ==
    ASSUME InductiveInv, NEW w \in Writers, CountOpening(w)
    PROVE  Contract!Next
<1> DEFINE s == plain[w].slot
<1>1. Importing(w) /\ plain[w].stage = "posted"
  BY DEF CountOpening, Importing
<1>2. /\ s \in Slots /\ balances[s] \in Balance
      /\ plain[w].quantity \in Int /\ plain[w].quantity > 0
  BY <1>1, ImportingFacts
<1>3. balances' = [balances EXCEPT ![s] = Counted(balances[s], plain[w].quantity)]
  BY DEF CountOpening
<1>4. balances \in [Slots -> Balance]
  BY DEF InductiveInv, TypeOK
<1> DEFINE counted == Counted(balances[s], plain[w].quantity)
<1>5. counted.quantity = balances[s].quantity + plain[w].quantity
  BY <1>2, CountedType
<1> HIDE DEF s, counted
<1>6. \A r \in Slots : balances'[r] = IF r = s THEN counted ELSE balances[r]
  BY <1>3, <1>4 DEF counted
<1>7. \A r \in Slots : balances[r].quantity \in Int
  BY <1>4 DEF Balance
<1>8. \A r \in Slots : /\ OnHand[r] = balances[r].quantity
                       /\ OnHand'[r] = balances'[r].quantity
  BY DEF OnHand
<1>9. \A r \in Slots : /\ OnHand[r] \in Int
                       /\ OnHand'[r] = IF r = s THEN OnHand[r] + plain[w].quantity
                                       ELSE OnHand[r]
  BY <1>2, <1>5, <1>6, <1>7, <1>8
<1>10. OnHand' \in [Slots -> Int] /\ \A r \in Slots : OnHand'[r] >= OnHand[r]
  BY <1>2, <1>9 DEF OnHand
<1>11. Contract!Deliver
  BY <1>10 DEF Contract!Deliver, Contract!Slots, Slots, OnHand
<1> QED
  BY <1>11 DEF Contract!Next

LEMMA MarkRowRefines ==
    ASSUME InductiveInv, NEW w \in Writers, MarkRow(w)
    PROVE  UNCHANGED OnHand
<1>1. balances \in [Slots -> Balance]
  BY DEF InductiveInv, TypeOK
<1>2. \A r \in Slots : balances'[r].quantity = balances[r].quantity
  BY <1>1 DEF MarkRow, Balance
<1> QED
  BY <1>2 DEF OnHand

LEMMA StepRefines ==
    ASSUME InductiveInv, [Next]_vars
    PROVE  Contract!Next \/ UNCHANGED OnHand
<1>1. ASSUME NEW a \in Actors, Commit(a) PROVE Contract!Next
  BY <1>1, CommitRefines
<1>2. ASSUME NEW w \in Writers, WriterStep(w)
      PROVE  Contract!Next \/ UNCHANGED OnHand
  <2>1. CASE CountOpening(w)
    BY <2>1, CountOpeningRefines
  <2>2. CASE MarkRow(w)
    BY <2>2, MarkRowRefines
  <2>3. CASE ~CountOpening(w) /\ ~MarkRow(w)
    BY <1>2, <2>3 DEF WriterStep, ImportRow, ClearLowStock, PostOpening, JudgeRow,
                     Fail, OnHand
  <2> QED
    BY <2>1, <2>2, <2>3
<1>3. ASSUME NEW c \in Clients, ClientStep(c) PROVE UNCHANGED OnHand
  <2>1. \A after, posted, newItems : Stage(c, after, posted, newItems) => UNCHANGED OnHand
    BY DEF Stage, OnHand
  <2>2. \A posted : StageMovements(c, posted) => UNCHANGED OnHand
    BY <2>1 DEF StageMovements
  <2>3. \A i, item : StageItem(c, i, item) => UNCHANGED OnHand
    BY <2>1 DEF StageItem
  <2> QED
    BY <1>3, <2>1, <2>2, <2>3 DEF ClientStep, AdjustStock, TransferStock, ReceiveStock,
                                  UpdateItem, ArchiveItem, ImportAtomic
<1>4. ASSUME NEW s \in Slots, ReconcileBalance(s) PROVE UNCHANGED OnHand
  BY <1>4 DEF ReconcileBalance, Stage, OnHand
<1>5. ASSUME NEW a \in Actors, Abort(a) PROVE UNCHANGED OnHand
  BY <1>5 DEF Abort, OnHand
<1>6. ASSUME NEW w \in Warehouses, CreateWarehouse(w) \/ ArchiveWarehouse(w)
      PROVE  UNCHANGED OnHand
  BY <1>6 DEF CreateWarehouse, ArchiveWarehouse, OnHand
<1>7. ASSUME NEW i \in Items, NEW l \in ReorderLevels, CreateItem(i, l)
      PROVE  UNCHANGED OnHand
  BY <1>7 DEF CreateItem, OnHand
<1>8. CASE UNCHANGED vars
  BY <1>8 DEF vars, OnHand
<1> QED
  BY <1>1, <1>2, <1>3, <1>4, <1>5, <1>6, <1>7, <1>8 DEF Next

(* The quantities on hand change only as StockContract allows: by the      *)
(* correction of one slot, by an exact transfer, or by a delivery.         *)
THEOREM StockRefinement == Spec => ImplementsContract
<1>1. Init => Contract!Init
  BY DEF Init, Contract!Init, Contract!Slots, Slots, NoBalance
<1>2. InductiveInv /\ [Next]_vars => [Contract!Next]_OnHand
  BY StepRefines
<1> QED
  BY <1>1, <1>2, Invariance, PTL DEF Spec, ImplementsContract, Contract!Spec, OnHand
=============================================================================
