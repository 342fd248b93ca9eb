CONSTANTS
    plain = plain
    mixed = mixed
    broken = broken
    shortcut = shortcut
    Specs = {plain}
    SchedulesOf <- Plain
    MaxLag = 2
    MaxWrites = 1
    MaxCrashes = 0
SPECIFICATION Spec
INVARIANT
    ReadyMeansActive
