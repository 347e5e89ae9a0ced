\* Two jobs of one benchmark, with two runners each: the second job deletes the
\* runners of the first.
SPECIFICATION Spec
CONSTANTS
    Kinds = {"scheduled"}
    NJobs = 2
    Queries = {q1, q2}
    MaxRetries = 0
    MaxFaults = 0
    MaxCancels = 0
    RunnerEnds <- SuccessEnd
    Nil = Nil
SYMMETRY QuerySymmetry
INVARIANTS
    SummaryAfterRunners
CHECK_DEADLOCK FALSE
