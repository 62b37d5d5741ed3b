CONSTANTS
    Calls = {c1, c2}
    Addresses = {"a", "a2", "b"}
    Geocoders = {"strict", "range"}
    Hash <- MCHash
    Same <- MCSame
    Found <- MCFound
    Keys <- MCKeys
    KeyOf <- MCKeyOf
    Batches <- MCBatches
    Options <- Deployments
    Processes <- TwoDeployments
    OldSlots <- NoSlots
    STORE = "bigtable"
    MAX_RETRIES = 1
    MAX_LATE = 1
    Absent = Absent
    Nul = Nul
SPECIFICATION Spec
INVARIANT PrefixIsolates
