CONSTANTS
    morning = morning
    evening = evening
    weekend = weekend
    monday = monday
    small = small
    big = big
    Jobs = {morning}
    Kind <- ScaleOnly
    Targets <- StorageTargets
    Sizes = {small, big}
    Unset = Unset
    HalfRange = 8
    MaxRuns = 2
SPECIFICATION Spec
INVARIANT
    LastResultIsTrue
\* No job fires after the last of its runs.
CHECK_DEADLOCK FALSE
