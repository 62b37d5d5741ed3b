CONSTANTS
    Counters = {"hits", "misses"}
    Reporters = {r1, r2}
    Nobody = Nobody
    MaxCount <- MCMaxCount
    MaxSamples = 2
    MaxReports = 3
SPECIFICATION Spec
CHECK_DEADLOCK FALSE
INVARIANT NeverOverCounted
