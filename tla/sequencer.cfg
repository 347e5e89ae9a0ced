\* Two sequences behind one describe job, one fault.
SPECIFICATION FairSpec
CONSTANTS
    s1 = s1
    s2 = s2
    d1 = d1
    Callers = {"ticker", "sequencer"}
    MaxJobs = 2
    Quota <- SequencerQuota
    NWorkers = 0
    MaxCancels = 0
    MaxFaults = 1
    Nil = Nil
    Seqs = {s1, s2}
    Deps = {d1}
    SeqDeps <- TwoSeqDeps
    SeqNext <- TwoSeqNext
    DepKind <- TwoDepKind
    DepStatus = {"CREATED", "IN_PROGRESS", "SUCCEEDED", "FAILED", "CANCELED"}
INVARIANTS
    TypeOK
    NextJobOnce
    RunningIsTold
PROPERTIES
    NextAfterDependencies
    SequencesEnd
CHECK_DEADLOCK FALSE
