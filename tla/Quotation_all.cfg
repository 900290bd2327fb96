\* Two clients, two suppliers and the deadline job work on one request of up to
\* two lines, for two items or twice for the same one.
SPECIFICATION FairSpec
CONSTANTS
    Items = {i1, i2}
    Suppliers = {s1, s2}
    NoSupplier = none
    Quantities = {1}
    Prices = {1, 2}
    MaxLines = 2
    Clients = {c1, c2}
INVARIANTS TypeOK OrderFollowsAcceptance RecommendationHolds
PROPERTIES AnswersAreFinal SettledOnce ExpiresUnlessLost
\* A settled request stays as it is.
CHECK_DEADLOCK FALSE
