----------------------- MODULE MCScheduledOperations -----------------------
(***************************************************************************)
(* Instances of ScheduledOperations for TLC.  Integers are -8..7.  Counts  *)
(* are like those of the sample (TiKV's are multiples of three); storages  *)
(* are in units that fit.                                                  *)
(***************************************************************************)
EXTENDS ScheduledOperations, TLC

CONSTANTS morning, evening, weekend, monday, small, big

Group(count, size, storage) == [count |-> count, size |-> size, storage |-> storage]

Operations ==
    (morning :> "scale") @@ (evening :> "scale") @@ (weekend :> "suspend")
        @@ (monday :> "resume")

NoTarget == [c \in Components |-> Unset]

\* Scale up everything the sample does; scale down the counts alone.
MorningUp ==
    [NoTarget EXCEPT !["tidb"] = Group(4, big, Unset), !["tikv"] = Group(6, big, 2)]

EveningDown ==
    [NoTarget EXCEPT !["tidb"] = Group(2, small, Unset),
                     !["tikv"] = Group(3, Unset, Unset)]

\* Storage grows and the count is left as it is.
StorageOnly == [NoTarget EXCEPT !["tikv"] = Group(Unset, Unset, 2)]

SampleTargets ==
    (morning :> MorningUp) @@ (evening :> EveningDown) @@ (weekend :> NoTarget)
        @@ (monday :> NoTarget)

ScaleOnly == morning :> "scale"

StorageTargets == morning :> StorageOnly
=============================================================================
