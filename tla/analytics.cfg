\* Two jobs, of the ticker or a request, one cancel request, one fault.
SPECIFICATION AnalyticsFairSpec
CONSTANTS
    Callers = {"ticker", "request"}
    MaxJobs = 2
    Quota <- TwoEach
    NWorkers = 2
    MaxCancels = 1
    MaxFaults = 1
    Nil = Nil
INVARIANTS
    AnalyticsTypeOK
    TickerKeepsInterval
PROPERTIES
    EndedStaysEnded
    AnalyticsSettle
CHECK_DEADLOCK FALSE
