\* Requests that write without a transaction, one that has one, and the monitor
\* work on one row.
SPECIFICATION FairSpec
CONSTANTS
    Items = {i1}
    Warehouses = {w1}
    Clients = {c1}
    Monitor = monitor
    Writers = {p1, p2}
    Quantities = {1}
    ReorderLevels = {0, 2}
    MaxVersion = 2
INVARIANT LedgerAgreement
PROPERTY MarkerRepaired
\* The SKU and the warehouse of the instance may end up archived.
CHECK_DEADLOCK FALSE
