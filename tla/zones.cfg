CONSTANTS
    UTC = UTC
    JST = JST
    once = once
    twice = twice
    Namespaces = {ns1}
    Names = {a, b}
    Timezones = {UTC, JST}
    TimezonesOf <- TwoZones
    Workers = {w1}
    Runs = {}
    MaxJobID = 3
    Specs = {once, twice}
    TimezoneOf <- SpecsInTwoZones
    SizeOf <- Sizes
SYMMETRY Symmetry
SPECIFICATION OperatorSpec
INVARIANT
    ActiveMeansFiring
