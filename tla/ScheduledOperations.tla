------------------------- MODULE ScheduledOperations -------------------------
(***************************************************************************)
(* What the jobs of a TiDBClusterScheduler do to its TiDB Cloud cluster:   *)
(* the callbacks of internal/controller/tidbclusterscheduler_controller.go *)
(* and the calls of internal/services/tidbcloud/client.go.                 *)
(*                                                                         *)
(* A scale target goes through two conversions, each with its own idea of  *)
(* what is unset: nil pointers in the schedule, zero values in the         *)
(* client's ScaleRequest, unset fields in the SDK's update, whose integers *)
(* are narrower than the schedule's.  The API applies an update field by   *)
(* field.  Its requests may be refused or lost, its answers may be lost,   *)
(* and a request may still be carried out after its caller timed out.      *)
(*                                                                         *)
(* Abstracted: which states of the cluster make the API refuse a request   *)
(* (it may always), node sizes (model values), authentication, logging.    *)
(***************************************************************************)
EXTENDS Integers, FiniteSets

CONSTANTS
    Jobs,
    Kind,       \* the operation of each job
    Targets,    \* what each scale job's schedule asks for
    Sizes,      \* node specification keys
    Unset,      \* an absent field
    HalfRange,  \* the SDK's integers are -HalfRange..HalfRange-1 (2^31 in the code)
    MaxRuns     \* bound: runs the jobs ever make

Components == {"tidb", "tikv", "tiflash"}

\* A component of a scale target, and of an update that the SDK sends.
NodeGroups == [count : Int \cup {Unset}, size : Sizes \cup {Unset},
               storage : Int \cup {Unset}]

ASSUME OperationsAssumption ==
    /\ Kind \in [Jobs -> {"scale", "suspend", "resume"}]
    /\ Targets \in [Jobs -> [Components -> NodeGroups \cup {Unset}]]
    /\ Unset \notin Int \cup Sizes \cup NodeGroups
    /\ Sizes # {}
    /\ HalfRange \in Nat \ {0}
    /\ MaxRuns \in Nat

VARIABLES
    calls,      \* the callback each job is in, if any
    wire,       \* the requests on their way to the API
    cluster,    \* the cluster's state and nodes
    lastResult, \* LastResult of each job's execution record
    outcome,    \* history: whether the last operation of each job succeeded
    started     \* the number of runs so far

vars == <<calls, wire, cluster, lastResult, outcome, started>>

----------------------------------------------------------------------------
(* From a schedule to a request.                                           *)

\* Mutant of Truncate: a type of half the width.
TruncateFurther(n) == ((n + 2) % 4) - 2

\* Go's conversion to a narrower integer wraps around.
Truncate(n) == ((n + HalfRange) % (2 * HalfRange)) - HalfRange

\* Mutant of NodeSetting: the size is forgotten.
NodeSettingWithoutSize(c, target) ==
    IF target = Unset \/ target.count = Unset
    THEN Unset
    ELSE [count |-> target.count,
          size |-> Unset,
          storage |-> IF c = "tidb" \/ target.storage = Unset
                      THEN 0 ELSE target.storage]

\* ScaleRequest: a component without a node count is left out, whatever else
\* its schedule sets; an unset size is "" (here Unset), an unset storage is 0,
\* and TiDB has no storage.
NodeSetting(c, target) ==
    IF target = Unset \/ target.count = Unset
    THEN Unset
    ELSE [count |-> target.count,
          size |-> target.size,
          storage |-> IF c = "tidb" \/ target.storage = Unset
                      THEN 0 ELSE target.storage]

\* Mutant of NodeGroup: the guard on the storage is missing.
NodeGroupWithStorage(c, setting) ==
    IF setting = Unset
    THEN Unset
    ELSE [count |-> Truncate(setting.count),
          size |-> setting.size,
          storage |-> IF c # "tidb" THEN Truncate(setting.storage) ELSE Unset]

\* The update of the SDK: a field is set only when it is above zero.
NodeGroup(c, setting) ==
    IF setting = Unset \/ setting.count <= 0
    THEN Unset
    ELSE [count |-> Truncate(setting.count),
          size |-> setting.size,
          storage |-> IF c # "tidb" /\ setting.storage > 0
                      THEN Truncate(setting.storage) ELSE Unset]

Update(j) ==
    [c \in Components |-> NodeGroup(c, NodeSetting(c, Targets[j][c]))]

Request(j, run) == [job |-> j, run |-> run]

----------------------------------------------------------------------------
(* The API.                                                                *)

Given(new, old) == IF new = Unset THEN old ELSE new

Merged(group, update) ==
    IF update = Unset
    THEN group
    ELSE [count |-> Given(update.count, group.count),
          size |-> Given(update.size, group.size),
          storage |-> Given(update.storage, group.storage)]

\* The cluster after the operation of a job.
After(j) ==
    CASE Kind[j] = "scale" ->
            [cluster EXCEPT !.nodes =
                [c \in Components |-> Merged(@[c], Update(j)[c])]]
      [] Kind[j] = "suspend" -> [cluster EXCEPT !.state = "paused"]
      [] Kind[j] = "resume" -> [cluster EXCEPT !.state = "active"]

Initially == [count |-> 3, size |-> CHOOSE size \in Sizes : TRUE, storage |-> 1]

NoCall == [phase |-> "idle"]
Calling(run) == [phase |-> "calling", run |-> run]
Answered(ok) == [phase |-> "answered", ok |-> ok]

Init ==
    /\ calls = [j \in Jobs |-> NoCall]
    /\ wire = {}
    /\ cluster = [state |-> "active", nodes |-> [c \in Components |-> Initially]]
    /\ lastResult = [j \in Jobs |-> ""]
    /\ outcome = [j \in Jobs |-> "none"]
    /\ started = 0

\* The API takes a request up; its answer may not reach the caller.
Process(r, accepted, answers) ==
    /\ r \in wire
    /\ wire' = wire \ {r}
    /\ cluster' = IF accepted THEN After(r.job) ELSE cluster
    /\ calls' = IF answers /\ calls[r.job] = Calling(r.run)
                THEN [calls EXCEPT ![r.job] = Answered(accepted)]
                ELSE calls
    /\ UNCHANGED <<lastResult, outcome, started>>

Lose(r) ==
    /\ r \in wire
    /\ wire' = wire \ {r}
    /\ UNCHANGED <<calls, cluster, lastResult, outcome, started>>

----------------------------------------------------------------------------
(* The callbacks.                                                          *)

\* A run of the job calls ScaleCluster, SuspendCluster or ResumeCluster.  Cron
\* delays it while another run of the same job is not done.
Operate(j) ==
    /\ calls[j] = NoCall
    /\ started < MaxRuns
    /\ started' = started + 1
    /\ calls' = [calls EXCEPT ![j] = Calling(started')]
    /\ wire' = wire \cup {Request(j, started')}
    /\ UNCHANGED <<cluster, lastResult, outcome>>

\* Mutant of Timeout: the callback's context has no deadline.
NoTimeout(j) == FALSE /\ UNCHANGED vars

\* The context of five minutes, or the HTTP client's thirty seconds.
Timeout(j) ==
    /\ calls[j].phase = "calling"
    /\ calls' = [calls EXCEPT ![j] = Answered(FALSE)]
    /\ UNCHANGED <<wire, cluster, lastResult, outcome, started>>

\* The callback logs an error and returns; executeWithTracking sees it return.
Finish(j) ==
    /\ calls[j].phase = "answered"
    /\ calls' = [calls EXCEPT ![j] = NoCall]
    /\ lastResult' = [lastResult EXCEPT ![j] = "success"]
    /\ outcome' = [outcome EXCEPT ![j] = IF calls[j].ok THEN "ok" ELSE "failed"]
    /\ UNCHANGED <<wire, cluster, started>>

Next ==
    \/ \E j \in Jobs : Operate(j) \/ Timeout(j) \/ Finish(j)
    \/ \E r \in wire :
          \/ Lose(r)
          \/ \E accepted, answers \in BOOLEAN : Process(r, accepted, answers)

Spec == Init /\ [][Next]_vars

\* Contexts and HTTP clients time out, and goroutines run.
Fairness == \A j \in Jobs : WF_vars(Timeout(j)) /\ WF_vars(Finish(j))

FairSpec == Spec /\ Fairness

----------------------------------------------------------------------------
(* Properties.                                                             *)

Requests == [job : Jobs, run : 1..MaxRuns]

TypeOK ==
    /\ calls \in [Jobs -> {NoCall} \cup {Calling(run) : run \in 1..MaxRuns}
                             \cup {Answered(ok) : ok \in BOOLEAN}]
    /\ wire \in SUBSET Requests
    /\ cluster \in [state : {"active", "paused"},
                    nodes : [Components ->
                                [count : Nat, size : Sizes, storage : Nat]]]
    /\ lastResult \in [Jobs -> {"", "success"}]
    /\ outcome \in [Jobs -> {"none", "ok", "failed"}]
    /\ started \in 0..MaxRuns

Named(j, c, field) ==
    Kind[j] = "scale" /\ Targets[j][c] # Unset /\ Targets[j][c][field] # Unset

\* What the CRD guarantees of the schedules' numbers, and what it does not:
\* that they fit the SDK's integers.
FieldsFit ==
    \A j \in Jobs, c \in Components, field \in {"count", "storage"} :
        Named(j, c, field) => Targets[j][c][field] \in 1..(HalfRange - 1)

\* A schedule that sets a size or a storage sets the count as well.
CountsNamed ==
    \A j \in Jobs, c \in Components, field \in {"size", "storage"} :
        Named(j, c, field) => Named(j, c, "count")

\* A field of the cluster changes only to what one of the schedules names for
\* it, however requests of several jobs, late and lost ones, interleave: no
\* conversion makes up a value for what a schedule leaves unset.
\* (tidbclusterscheduler_controller.go createScaleCallback, client.go
\* ScaleCluster)
OnlyNamedChanges ==
    [][\A c \in Components, field \in {"count", "size", "storage"} :
          cluster'.nodes[c][field] # cluster.nodes[c][field] =>
              \E j \in Jobs : /\ Named(j, c, field)
                              /\ Targets[j][c][field] = cluster'.nodes[c][field]]_vars

\* A callback ends, so that the delayed runs of its job get their turn: no
\* refused, lost or unanswered request holds it for ever.
\* (tidbclusterscheduler_controller.go createScaleCallback, WithTimeout)
CallsEnd == \A j \in Jobs : calls[j] # NoCall ~> calls[j] = NoCall

\* The update that a successfully answered scale call made the API carry out
\* leaves the cluster with all that its schedule names, as far as the component
\* has it (TiDB has no storage): no conversion loses or bends a field.
\* (types.go NodeScaleTarget "Storage per node in GB (scale up only, applies to
\* TiKV/TiFlash)", "Number of nodes (scale in/out)")
AnsweredMeansReached ==
    [][\A j \in Jobs, c \in Components, field \in {"count", "size", "storage"} :
          /\ calls[j].phase = "calling"
          /\ calls'[j] = Answered(TRUE)
          /\ Named(j, c, field)
          /\ ~(c = "tidb" /\ field = "storage")
          => cluster'.nodes[c][field] = Targets[j][c][field]]_vars

\* LastResult says "success" only of an operation that succeeded.
\* (cron.go executeWithTracking "Execute the function and track result")
LastResultIsTrue ==
    \A j \in Jobs : lastResult[j] = "success" => outcome[j] = "ok"
=============================================================================
