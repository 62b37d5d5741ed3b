CONSTANTS
    Threads = {t1, t2, t3}
    Nobody = Nobody
SPECIFICATION FairSpec
INVARIANTS
    TypeOK
    OneThreadInC
    SetUpOnce
    ReadyInC
PROPERTIES
    PoisonedForGood
    CallsReturn
