CONSTANTS
    CHANNEL_BUFFER = 1
    CONCURRENCY = 2
    GEOCODE_SIZE = 2
    PrefixCount = 1
    MAX_RETRIES = 0
    SLACK = 0
    MaxRows = 2
SPECIFICATION Spec
INVARIANT HeaderOnlyInput
