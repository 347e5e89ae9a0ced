\* Two jobs of the ticker for one connection and resource type.
SPECIFICATION Spec
CONSTANTS
    NJobs = 2
    MaxTries = 1
    Pages = {}
    Azure = FALSE
    MaxRequests = 0
    MaxCancels = 0
    Outcomes = {"SUCCEEDED", "FAILED", "DENIED"}
    MaxFaults = 0
    Nil = Nil
INVARIANTS
    OneAtWork
CHECK_DEADLOCK FALSE
