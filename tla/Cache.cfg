CONSTANTS
    Calls = {c1, c2}
    Addresses = {"a", "a2", "b"}
    Geocoders = {"strict", "range"}
    Hash <- MCHash
    Same <- MCSame
    Found <- MCFound
    Keys <- MCKeys
    KeyOf <- MCKeyOf
    Batches <- MCBatches
    Options <- Others
    Processes <- MCProcesses
    OldSlots <- MCOldSlots
    STORE = "redis"
    MAX_RETRIES = 1
    MAX_LATE = 1
    Absent = Absent
    Nul = Nul
SPECIFICATION FairSpec
INVARIANTS
    TypeOK
    StoreSound
    ResultsSound
    DoneIsSaved
    NoNeedlessGeocoding
PROPERTY CallsEnd
