CONSTANTS
    Calls = {c1, c2}
    NulWord = "nul"
    MaxReply = 2
    GEOCODE_SIZE = 2
    Requests <- MCRequests
    Options <- MCOptions
    COMPLETE <- MCComplete
    Answer <- MCAnswer
    Parse <- MCParse
SPECIFICATION FairSpec
INVARIANTS
    TypeOK
    SentHaveStreets
    EveryAnswerKept
    ResponseNamesValues
PROPERTIES
    HonoursContract
    CallsEnd
