\* Three overlapping requests on an order of up to two lines.
SPECIFICATION Spec
CONSTANTS
    Lines = {l1, l2}
    Quantities = {1}
    Clients = {c1, c2, c3}
    MaxEdits = 2
SYMMETRY Symmetric
INVARIANTS TypeOK DecisionMatchesState ReceiptsWithinOrder StateMatchesReceipts
PROPERTY TransitionsFollowTable
\* A closed or cancelled order stays as it is.
CHECK_DEADLOCK FALSE
