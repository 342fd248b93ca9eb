CONSTANTS
    UTC = UTC
    JST = JST
    once = once
    twice = twice
    Namespaces = {ns1}
    Names = {a, b}
    Timezones = {UTC}
    TimezonesOf <- OneZone
    Workers = {w1, w2}
    Runs = {r1}
    MaxJobID = 3
    Specs = {once, twice}
    TimezoneOf <- SpecsInOneZone
    SizeOf <- Sizes
VIEW View
SPECIFICATION OperatorSpec
INVARIANTS
    OperatorTypeOK
    ActiveMeansFiring
    GoneMeansSilent
PROPERTY
    KeepsPromise
