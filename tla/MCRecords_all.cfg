\* Every part on its own small instance; symmetric in what goes on at once (x1,
\* x2: requests, jobs, runs), in suppliers and people (s1, s2) and in the entries
\* of a list. Parts run to their bounds.
SPECIFICATION RecordsSpec
CONSTANTS
    Calls = {x1, x2}
    Runs = {x1, x2}
    Checks = {c1, c2}
    Firms = {s1, s2}
    Approvers = {s1, s2}
    Managers = {s1, s2}
    Others = {}
    Entries = {e1, e2, e3}
    TaxIds = {"t1"}
    Fields = {"name"}
    MaxContacts = 2
    MaxDocuments = 2
    Users = 1
    InApp = {1}
    ByMail = {}
    Attempts = 1
    MaxEpisodes = 2
    MaxFailures = 0
    Stalls = 1
    Rounds = 2
    Limit = 1
    MaxFaults = 1
    Ordered = 2
    DueDays = {0, 1}
    Grace = 1
    MaxDay = 2
    Goods = {"a", "b"}
    Deals <- MCDeals
    Month = 2
    Week = 2
    Horizon = 2
    MaxClock = 2
    Limits = {4}
    Warning = 80
    MinSample = 1
    Items <- MCItems
    Warehouses <- MCWarehouses
    Places <- MCPlaces
    Damaged <- MCTorn
    Torn <- MCTorn
    Cost <- MCCost
    Category <- MCCategory
    Opening = 1
    Day = 2
    Window = 2
    MaxTime = 4
    MaxMovements = 3
    MaxRows = 2
SYMMETRY Symmetry
CHECK_DEADLOCK FALSE
INVARIANTS
    SupplierListsKept
    SpendingReported
    StockReported
    EverybodyTold
PROPERTIES
    BudgetOnlyWorsens
