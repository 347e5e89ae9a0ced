\* One job, one retry of runner and summarizer, one fault, no cancel request.
SPECIFICATION FairSpec
CONSTANTS
    Kinds = {"scheduled"}
    NJobs = 1
    Queries = {q1}
    MaxRetries = 1
    MaxFaults = 1
    MaxCancels = 0
    RunnerEnds <- AnyEnd
    Nil = Nil
INVARIANTS
    OneSummarizer
PROPERTIES
    JobsEnd
    RowsFollowLifecycle
CHECK_DEADLOCK FALSE
