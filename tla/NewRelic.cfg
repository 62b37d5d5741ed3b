CONSTANTS
    Counters = {"hits", "misses"}
    Reporters = {r1, r2}
    Nobody = Nobody
    MaxCount <- MCMaxCount
    MaxSamples = 2
    MaxReports = 3
SPECIFICATION FairSpec
CHECK_DEADLOCK FALSE
INVARIANTS
    TypeOK
    NoUnderflow
    NothingLost
    SamplesSentOnce
PROPERTY ReportsReturn
