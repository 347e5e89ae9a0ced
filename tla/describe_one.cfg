\* One job of the ticker or of a request, sent up to three times, against a
\* cancel request at any moment.
SPECIFICATION Spec
CONSTANTS
    NJobs = 1
    MaxTries = 2
    Pages = {}
    Azure = FALSE
    MaxRequests = 1
    MaxCancels = 1
    Outcomes = {"SUCCEEDED"}
    MaxFaults = 0
    Nil = Nil
INVARIANTS
    TypeOK
    AttemptBound
PROPERTIES
    EndedSticks
    ImplementsLifecycle
CHECK_DEADLOCK FALSE
