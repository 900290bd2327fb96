\* Sessions: two requests, three token pairs, one event that ends sessions.
\* Requests: two attempts with one key, one more upload, two uploads a window,
\* one lock that expires or call to Redis that fails.
SPECIFICATION AccessSpec
CONSTANTS
    Clients = {x1, x2}
    MaxTokens = 3
    MaxEpochs = 2
    Attempts = {x1, x2}
    Others = {u1}
    Payloads = {"x", "y"}
    Forms = {"json"}
    Limit = 2  Window = 2  Delay = 1
    MaxTime = 2  MaxFaults = 1
SYMMETRY Symmetry
CHECK_DEADLOCK FALSE
INVARIANTS TypeOK RevokedForGood FamiliesSound RequestsKept
PROPERTY RefusedOnlyWhenBusy
