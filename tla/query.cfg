\* Two runs, one with a query that does not parse; a request to cancel one or
\* to purge both, one fault.
SPECIFICATION FairSpec
CONSTANTS
    r1 = r1
    r2 = r2
    Runs = {r1, r2}
    Fate <- GoodAndUnparsable
    MaxCancels = 1
    MaxFaults = 1
    Nil = Nil
INVARIANTS
    TypeOK
    SentOnce
PROPERTIES
    EndKept
    OnlyUnparsableBlocks
CHECK_DEADLOCK FALSE
