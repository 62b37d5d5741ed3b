CONSTANTS
    CHANNEL_BUFFER = 1
    CONCURRENCY = 2
    GEOCODE_SIZE = 2
    PrefixCount = 1
    MAX_RETRIES = 1
    SLACK = 0
    MaxRows = 13
SPECIFICATION FairSpec
INVARIANTS
    TypeOK
    OutputInOrder
    EosMeansComplete
    HeadersBeforeEos
    Backpressure
    CounterAccounts
PROPERTIES
    CounterNeverPanics
    ImplementsFilter
    Termination
