CONSTANTS
    plain = plain
    mixed = mixed
    broken = broken
    shortcut = shortcut
    Specs = {mixed, broken}
    SchedulesOf <- MixedAndBroken
    MaxLag = 2
    MaxWrites = 3
    MaxCrashes = 1
SPECIFICATION FairSpec
INVARIANTS
    TypeOK
    SchedulesHaveFinalizer
    SettledStatusIsTrue
PROPERTIES
    DeletionCompletes
    SpecTakesEffect
    KeepsPromise
