\* Two runners: the query of the older one is unknown, the connection of the
\* other; one row is fetched at a time.  One fault, one worker, one retry.
SPECIFICATION FairSpec
CONSTANTS
    Runners = {1, 2}
    Manual = {}
    Orphans = {1}
    Detached = {2}
    Workers = {w1}
    MaxRetries = 1
    Rounds = 1
    FetchLimit = 1
    MaxFaults = 1
    MaxCancels = 0
    Nil = Nil
INVARIANTS
    LaunchBound
PROPERTIES
    RunnersSettle
CHECK_DEADLOCK FALSE
