CONSTANTS
    plain = plain
    mixed = mixed
    broken = broken
    shortcut = shortcut
    Specs = {shortcut}
    SchedulesOf <- Shortcut
    MaxLag = 2
    MaxWrites = 1
    MaxCrashes = 0
SPECIFICATION Spec
INVARIANT
    AdmittedTakesEffect
