CONSTANTS
    morning = morning
    evening = evening
    weekend = weekend
    monday = monday
    small = small
    big = big
    Jobs = {morning, evening, weekend, monday}
    Kind <- Operations
    Targets <- SampleTargets
    Sizes = {small, big}
    Unset = Unset
    HalfRange = 8
    MaxRuns = 3
SPECIFICATION FairSpec
INVARIANT
    TypeOK
PROPERTIES
    OnlyNamedChanges
    AnsweredMeansReached
    CallsEnd
\* No job fires after the last of its runs.
CHECK_DEADLOCK FALSE
