\* One job, the summarizer cycles of both trigger types, one cancel request.
SPECIFICATION FairSpec
CONSTANTS
    Kinds = {"scheduled", "manual"}
    NJobs = 1
    Queries = {q1}
    MaxRetries = 0
    MaxFaults = 0
    MaxCancels = 1
    RunnerEnds <- GoodEnd
    Nil = Nil
INVARIANTS
    TypeOK
    SuccessIsReported
PROPERTIES
    EndIsFinal
    OnlyCancelBlocks
CHECK_DEADLOCK FALSE
