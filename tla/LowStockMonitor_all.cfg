\* One run of the monitor at a time, of which two may fail half-way, over two
\* episodes; one user per channel, two attempts per mail. Reconciliations run in
\* transactions; those outside of one are in the run of Records.
SPECIFICATION FairSpec
CONSTANTS
    Users = 2
    InApp = {1}
    ByMail = {2}
    Runs = {r1}
    Attempts = 2
    Checks = {}
    MaxEpisodes = 2
    MaxFailures = 2
INVARIANT AlertsKept
PROPERTIES EpisodeAlerted MailsEnd
\* After the last episode everything may be at rest.
CHECK_DEADLOCK FALSE
