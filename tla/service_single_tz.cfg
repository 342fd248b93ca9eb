CONSTANTS
    Namespaces = {ns1}
    Names = {a, b}
    Timezones = {UTC}
    TimezonesOf <- SingleTimezone
    Workers = {w1, w2}
    Runs = {r1, r2}
    MaxJobID = 2
SPECIFICATION FairSpec
INVARIANTS
    TypeOK
    NoOrphan
    TrackedIsLive
    LookupIsExact
    FinishedRunHasResult
PROPERTIES
    ImplementsRegistry
    RunsEnd
\* After Shutdown the service takes no more calls.
CHECK_DEADLOCK FALSE
