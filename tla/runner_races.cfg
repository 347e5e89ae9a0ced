\* One runner, two workers, two retries, one cancel request, no faults.
SPECIFICATION Spec
CONSTANTS
    Runners = {1}
    Manual = {}
    Orphans = {}
    Detached = {}
    Workers = {w1, w2}
    MaxRetries = 2
    Rounds = 1
    FetchLimit = 1
    MaxFaults = 0
    MaxCancels = 1
    Nil = Nil
SYMMETRY WorkerSymmetry
INVARIANTS
    TypeOK
    SingleFlight
PROPERTIES
    NoLaunchAfterSuccess
    SuccessOverwrittenOnlyByRace
    CancelSticks
    ImplementsLifecycle
CHECK_DEADLOCK FALSE
