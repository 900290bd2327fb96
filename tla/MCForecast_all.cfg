\* Two overlapping calls, two items, two forecasts and one report a month; one
\* forecast that two clients review while two transactions commit; two reports,
\* one worker that dies.
SPECIFICATION ForecastsSpec
CONSTANTS
    Items = {i1, i2}
    Clients = {c1, c2}
    Cap = 2
    Threshold = 2
    MaxForecasts = 2
    MaxUncounted = 1
    Histories <- MCHistories
    Patterns <- MCPatterns
    Answers <- MCAnswers
    Reviewers = {c1, c2}
    Uses = {i1, i2}
    Overrides <- MCOverrides
    Span = 2
    MaxTime = 2
    Jobs = {c1, c2}
    Quota = 2
    Attempts = 2
    Stalls = 1
INVARIANTS UsageCounted CallsContained ForecastsConsistent FeaturesTold ReportsAccounted
SYMMETRY Symmetry
CHECK_DEADLOCK FALSE
