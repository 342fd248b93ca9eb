CONSTANTS
    Replicas = {r1, r2}
    LeaseDuration = 15
    GiveUpAfter = 12
    StopTimeout = 30
    ExitTime = 2
    MaxStops = 2
SPECIFICATION FairSpec
INVARIANTS
    TypeOK
    TwoFireOnlyAtAStop
PROPERTY
    SomeoneFires
