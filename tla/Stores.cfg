CONSTANTS
    Calls = {c1, c2}
    Values = {"v", "w"}
    POOL_SIZE = 1
    None = None
    Ok = Ok
    Keys <- MCKeys
    Requests <- MCRequests
    Urls <- MCUrls
SPECIFICATION FairSpec
INVARIANT TypeOK
PROPERTIES
    KeepsContract
    CallsEnd
