\* Two overlapping transactions and the monitor; no plain writers.
SPECIFICATION Spec
CONSTANTS
    Items = {i1}
    Warehouses = {w1, w2}
    Clients = {c1, c2}
    Monitor = monitor
    Writers = {}
    Quantities = {1}
    ReorderLevels = {0, 2}
    MaxVersion = 2
SYMMETRY Symmetric
INVARIANTS TypeOK StockNeverNegative
PROPERTY ImplementsContract
\* Every SKU and warehouse of the instance may end up archived.
CHECK_DEADLOCK FALSE
