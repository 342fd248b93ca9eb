---------------------- MODULE ScheduledOperationsProofs ----------------------
(***************************************************************************)
(* What the two conversions of a scale target preserve, for every set of   *)
(* schedules whose numbers fit the SDK's integers.                         *)
(***************************************************************************)
EXTENDS ScheduledOperations, TLAPS

Fields == {"count", "size", "storage"}

\* A number that fits is not changed by the conversion.
LEMMA TruncateFits ==
    ASSUME NEW n \in 1..(HalfRange - 1)
    PROVE  Truncate(n) = n
<1>1. HalfRange \in Nat /\ HalfRange > 0
    BY OperationsAssumption
<1>2. ASSUME NEW m \in Nat, NEW k \in Nat, m < k PROVE m % k = m
    BY <1>2
<1>3. n + HalfRange \in Nat /\ 2 * HalfRange \in Nat /\ n + HalfRange < 2 * HalfRange
    BY <1>1
<1>4. QED
    BY <1>1, <1>2, <1>3 DEF Truncate

\* The update of a component that has a count: what the schedule names for it,
\* and nothing else.
LEMMA UpdateNamesTarget ==
    ASSUME FieldsFit, NEW j \in Jobs, NEW c \in Components, Kind[j] = "scale"
    PROVE  /\ ~Named(j, c, "count") => Update(j)[c] = Unset
           /\ Named(j, c, "count") =>
                 /\ Update(j)[c] # Unset
                 /\ Update(j)[c].count = Targets[j][c].count
                 /\ Update(j)[c].size = Targets[j][c].size
                 /\ Update(j)[c].storage =
                       IF c = "tidb" THEN Unset ELSE Targets[j][c].storage
<1> DEFINE t == Targets[j][c]
<1>1. /\ Unset \notin Int /\ Unset \notin NodeGroups
      /\ t = Unset \/ t \in NodeGroups
    BY OperationsAssumption
<1>2. ASSUME NEW field \in {"count", "storage"}, Named(j, c, field)
      PROVE  t[field] \in 1..(HalfRange - 1)
    BY <1>2 DEF FieldsFit
<1>3. CASE ~Named(j, c, "count")
    <2>1. NodeSetting(c, t) = Unset
        BY <1>3 DEF NodeSetting, Named
    <2>2. QED
        BY <1>3, <2>1 DEF Update, NodeGroup
<1>4. CASE Named(j, c, "count")
    <2> DEFINE n == NodeSetting(c, t)
    <2>1. /\ t \in NodeGroups /\ t.count \in 1..(HalfRange - 1)
        BY <1>1, <1>2, <1>4 DEF Named
    <2>2. t.count # Unset /\ t # Unset
        BY <1>4 DEF Named
    <2>3. n = [count |-> t.count, size |-> t.size,
               storage |-> IF c = "tidb" \/ t.storage = Unset
                           THEN 0 ELSE t.storage]
        BY <2>2 DEF NodeSetting
    <2> DEFINE count == t.count
               size == t.size
               storage == IF c = "tidb" \/ t.storage = Unset THEN 0 ELSE t.storage
               narrow == IF c # "tidb" /\ storage > 0 THEN Truncate(storage) ELSE Unset
    <2>4. /\ count \in Int \cup {Unset} /\ size \in Sizes \cup {Unset}
          /\ t.storage \in Int \cup {Unset}
        BY <2>1 DEF NodeGroups
    <2>5. storage \in Int \cup {Unset}
        BY <2>4
    <2>6. n \in NodeGroups
        BY <2>3, <2>4, <2>5 DEF NodeGroups
    <2>7. n # Unset /\ n.count = count /\ n.size = size /\ n.storage = storage
        BY <1>1, <2>3, <2>6
    <2>8. count > 0 /\ Truncate(count) = count
        BY <2>1, TruncateFits
    <2>9. narrow = IF c = "tidb" THEN Unset ELSE t.storage
        <3>1. CASE c = "tidb"
            BY <3>1
        <3>2. CASE c # "tidb" /\ t.storage = Unset
            BY <3>2
        <3>3. CASE c # "tidb" /\ t.storage # Unset
            <4>1. t.storage \in 1..(HalfRange - 1)
                BY <1>2, <1>4, <3>3 DEF Named
            <4>2. Truncate(t.storage) = t.storage /\ t.storage > 0
                BY <4>1, TruncateFits
            <4>3. QED
                BY <3>3, <4>2
        <3>4. QED
            BY <3>1, <3>2, <3>3
    <2>10. NodeGroup(c, n) = [count |-> count, size |-> size, storage |-> narrow]
        <3>1. ~(n = Unset \/ n.count <= 0)
            BY <2>1, <2>7, <2>8
        <3>2. QED
            BY <2>7, <2>8, <3>1 DEF NodeGroup
    <2>11. [count |-> count, size |-> size, storage |-> narrow] \in NodeGroups
        <3>1. narrow \in Int \cup {Unset}
            BY <2>4, <2>9
        <3>2. QED
            BY <2>4, <3>1 DEF NodeGroups
    <2>12. Update(j)[c] = [count |-> count, size |-> size, storage |-> narrow]
        BY <2>10 DEF Update
    <2>13. QED
        BY <1>1, <1>4, <2>9, <2>11, <2>12
<1>5. QED
    BY <1>3, <1>4

Nodes == [count : Nat, size : Sizes, storage : Nat]

\* What an accepted update of one component leaves it with.
LEMMA MergedAsNamed ==
    ASSUME FieldsFit, NEW j \in Jobs, NEW c \in Components, Kind[j] = "scale",
           NEW group \in Nodes
    PROVE  /\ Merged(group, Update(j)[c]) \in Nodes
           /\ \A field \in Fields :
                 IF Named(j, c, "count") /\ Named(j, c, field)
                    /\ ~(c = "tidb" /\ field = "storage")
                 THEN Merged(group, Update(j)[c])[field] = Targets[j][c][field]
                 ELSE Merged(group, Update(j)[c])[field] = group[field]
<1> DEFINE t == Targets[j][c]
           u == Update(j)[c]
           m == Merged(group, u)
<1>1. CASE ~Named(j, c, "count")
    <2>1. m = group
        BY <1>1, UpdateNamesTarget DEF Merged
    <2>2. QED
        BY <1>1, <2>1
<1>2. CASE Named(j, c, "count")
    <2>1. /\ u # Unset
          /\ u.count = t.count
          /\ u.size = t.size
          /\ u.storage = IF c = "tidb" THEN Unset ELSE t.storage
        BY <1>2, UpdateNamesTarget
    <2> DEFINE count == Given(t.count, group.count)
               size == Given(t.size, group.size)
               storage == IF c = "tidb" THEN group.storage
                          ELSE Given(t.storage, group.storage)
    <2>2. m = [count |-> count, size |-> size, storage |-> storage]
        BY <2>1 DEF Merged, Given
    <2>3. t # Unset /\ t \in NodeGroups /\ Unset \notin Int
        BY <1>2, OperationsAssumption DEF Named
    <2>4. /\ group.count \in Nat /\ group.size \in Sizes /\ group.storage \in Nat
        BY DEF Nodes
    <2>5. count \in Nat
        BY <1>2, <2>4, OperationsAssumption DEF Given, FieldsFit
    <2>6. storage \in Nat
        <3>1. CASE c = "tidb" \/ t.storage = Unset
            BY <2>4, <3>1 DEF Given
        <3>2. CASE c # "tidb" /\ t.storage # Unset
            <4>1. Named(j, c, "storage")
                BY <1>2, <3>2 DEF Named
            <4>2. t.storage \in 1..(HalfRange - 1)
                BY <4>1 DEF FieldsFit
            <4>3. QED
                BY <3>2, <4>2, OperationsAssumption DEF Given
        <3>3. QED
            BY <3>1, <3>2
    <2>7. size \in Sizes
        BY <2>3, <2>4 DEF Given, NodeGroups
    <2>8. m \in Nodes
        BY <2>2, <2>5, <2>6, <2>7 DEF Nodes
    <2>9. \A field \in Fields : Named(j, c, field) <=> t[field] # Unset
        BY <2>3 DEF Named
    <2>10. /\ Named(j, c, "count") => m["count"] = t["count"]
           /\ IF Named(j, c, "size") THEN m["size"] = t["size"]
              ELSE m["size"] = group["size"]
           /\ IF Named(j, c, "storage") /\ c # "tidb" THEN m["storage"] = t["storage"]
              ELSE m["storage"] = group["storage"]
        BY <2>2, <2>9 DEF Given, Fields
    <2>11. QED
        BY <1>2, <2>8, <2>10 DEF Fields
<1>3. QED
    BY <1>1, <1>2

\* What an accepted request leaves of the cluster.
LEMMA AfterIsTyped ==
    ASSUME FieldsFit, TypeOK, NEW j \in Jobs
    PROVE  /\ After(j) \in [state : {"active", "paused"},
                            nodes : [Components -> Nodes]]
           /\ Kind[j] # "scale" => After(j).nodes = cluster.nodes
           /\ Kind[j] = "scale" =>
                 \A c \in Components :
                    After(j).nodes[c] = Merged(cluster.nodes[c], Update(j)[c])
<1>1. /\ cluster \in [state : {"active", "paused"}, nodes : [Components -> Nodes]]
      /\ cluster.nodes \in [Components -> Nodes]
    BY DEF TypeOK, Nodes
<1>2. CASE Kind[j] = "scale"
    <2> DEFINE merged == [c \in Components |-> Merged(cluster.nodes[c], Update(j)[c])]
    <2>1. After(j) = [cluster EXCEPT !.nodes = merged]
        BY <1>2 DEF After
    <2>2. ASSUME NEW c \in Components
          PROVE  Merged(cluster.nodes[c], Update(j)[c]) \in Nodes
        BY <1>1, <1>2, MergedAsNamed
    <2>3. merged \in [Components -> Nodes]
        BY <2>2
    <2>4. QED
        BY <1>1, <1>2, <2>1, <2>3
<1>3. CASE Kind[j] = "suspend"
    <2>1. After(j) = [cluster EXCEPT !.state = "paused"]
        BY <1>3 DEF After
    <2>2. QED
        BY <1>1, <1>3, <2>1
<1>4. CASE Kind[j] = "resume"
    <2>1. After(j) = [cluster EXCEPT !.state = "active"]
        BY <1>4 DEF After
    <2>2. QED
        BY <1>1, <1>4, <2>1
<1>5. QED
    BY <1>2, <1>3, <1>4, OperationsAssumption

----------------------------------------------------------------------------

LEMMA InitTyped ==
    ASSUME FieldsFit, Init
    PROVE  TypeOK
<1>1. Initially \in Nodes
    <2>1. (CHOOSE size \in Sizes : TRUE) \in Sizes
        BY OperationsAssumption
    <2>2. QED
        BY <2>1 DEF Initially, Nodes
<1>2. cluster \in [state : {"active", "paused"}, nodes : [Components -> Nodes]]
    BY <1>1 DEF Init
<1>3. started \in 0..MaxRuns
    <2>1. MaxRuns \in Nat
        BY OperationsAssumption
    <2>2. started = 0
        BY DEF Init
    <2>3. QED
        BY <2>1, <2>2
<1>4. QED
    BY <1>2, <1>3 DEF Init, TypeOK, Nodes

LEMMA NextTyped ==
    ASSUME FieldsFit, TypeOK, [Next]_vars
    PROVE  TypeOK'
<1> DEFINE CallStates == {NoCall} \cup {Calling(run) : run \in 1..MaxRuns}
                           \cup {Answered(ok) : ok \in BOOLEAN}
<1>0. calls \in [Jobs -> CallStates] /\ wire \in SUBSET Requests
    BY DEF TypeOK
<1>1. ASSUME NEW j \in Jobs, Operate(j) PROVE TypeOK'
    <2>1. started' \in 1..MaxRuns
        <3>1. MaxRuns \in Nat
            BY OperationsAssumption
        <3>2. started \in 0..MaxRuns
            BY DEF TypeOK
        <3>3. QED
            BY <1>1, <3>1, <3>2 DEF Operate
    <2>2. calls' \in [Jobs -> CallStates]
        BY <1>0, <1>1, <2>1 DEF Operate
    <2>3. Request(j, started') \in Requests
        BY <2>1 DEF Request, Requests
    <2>4. wire' \in SUBSET Requests
        BY <1>0, <1>1, <2>3 DEF Operate
    <2>5. UNCHANGED <<cluster, lastResult, outcome>> /\ started' \in 0..MaxRuns
        BY <1>1, <2>1 DEF Operate
    <2>6. QED
        BY <2>2, <2>4, <2>5 DEF TypeOK
<1>2. ASSUME NEW j \in Jobs, Timeout(j) PROVE TypeOK'
    <2>1. calls' \in [Jobs -> CallStates]
        BY <1>0, <1>2 DEF Timeout
    <2>2. QED
        BY <1>2, <2>1 DEF Timeout, TypeOK
<1>3. ASSUME NEW j \in Jobs, Finish(j) PROVE TypeOK'
    <2>1. calls' \in [Jobs -> CallStates]
        BY <1>0, <1>3 DEF Finish
    <2>2. lastResult' \in [Jobs -> {"", "success"}]
        BY <1>3 DEF Finish, TypeOK
    <2>3. outcome' \in [Jobs -> {"none", "ok", "failed"}]
        BY <1>3 DEF Finish, TypeOK
    <2>4. UNCHANGED <<wire, cluster, started>>
        BY <1>3 DEF Finish
    <2>5. QED
        BY <2>1, <2>2, <2>3, <2>4 DEF TypeOK
<1>4. ASSUME NEW r \in wire, Lose(r) PROVE TypeOK'
    <2>1. wire' \in SUBSET Requests
        BY <1>0, <1>4 DEF Lose
    <2>2. QED
        BY <1>4, <2>1 DEF Lose, TypeOK
<1>5. ASSUME NEW r \in wire, NEW accepted \in BOOLEAN, NEW answers \in BOOLEAN,
             Process(r, accepted, answers)
      PROVE  TypeOK'
    <2>1. r.job \in Jobs
        BY <1>0 DEF Requests
    <2>2. cluster' \in [state : {"active", "paused"}, nodes : [Components -> Nodes]]
        BY <1>5, <2>1, AfterIsTyped DEF Process, TypeOK, Nodes
    <2>3. wire' \in SUBSET Requests
        BY <1>0, <1>5 DEF Process
    <2>4. calls' \in [Jobs -> CallStates]
        BY <1>0, <1>5 DEF Process
    <2>5. UNCHANGED <<lastResult, outcome, started>>
        BY <1>5 DEF Process
    <2>6. QED
        BY <2>2, <2>3, <2>4, <2>5 DEF TypeOK, Nodes
<1>6. CASE UNCHANGED vars
    BY <1>6 DEF vars, TypeOK
<1>7. QED
    BY <1>1, <1>2, <1>3, <1>4, <1>5, <1>6 DEF Next

\* Whatever the schedules ask for, as long as their numbers fit the SDK's
\* integers, the cluster's node counts and storage stay non-negative and the
\* calls and requests well-formed.
\* (tidbclusterscheduler_controller.go createScaleCallback, client.go
\* ScaleCluster)
THEOREM TypeCorrect == FieldsFit => (Spec => []TypeOK)
<1>1. SUFFICES ASSUME FieldsFit PROVE Spec => []TypeOK
    OBVIOUS
<1>2. Init => TypeOK
    BY <1>1, InitTyped
<1>3. TypeOK /\ [Next]_vars => TypeOK'
    BY <1>1, NextTyped
<1>4. QED
    BY <1>2, <1>3, PTL DEF Spec

----------------------------------------------------------------------------
(* What a step does to the nodes.                                          *)

NodesAsNamed ==
    \A c \in Components, field \in Fields :
        cluster'.nodes[c][field] # cluster.nodes[c][field] =>
            \E j \in Jobs : /\ Named(j, c, field)
                            /\ Targets[j][c][field] = cluster'.nodes[c][field]

LEMMA StepNodesAsNamed ==
    ASSUME FieldsFit, TypeOK, [Next]_vars
    PROVE  NodesAsNamed
<1>1. CASE cluster' = cluster
    BY <1>1 DEF NodesAsNamed
<1>2. ASSUME NEW r \in wire, cluster' = After(r.job)
      PROVE  NodesAsNamed
    <2> DEFINE j == r.job
    <2>1. j \in Jobs
        BY DEF TypeOK, Requests
    <2>2. SUFFICES ASSUME NEW c \in Components, NEW field \in Fields,
                          cluster'.nodes[c][field] # cluster.nodes[c][field]
                   PROVE  Named(j, c, field)
                          /\ Targets[j][c][field] = cluster'.nodes[c][field]
        BY <2>1 DEF NodesAsNamed
    <2>3. /\ Kind[j] = "scale"
          /\ cluster'.nodes[c] = Merged(cluster.nodes[c], Update(j)[c])
        BY <1>2, <2>1, <2>2, AfterIsTyped
    <2>4. cluster.nodes[c] \in Nodes
        BY DEF TypeOK, Nodes
    <2>5. QED
        BY <2>1, <2>2, <2>3, <2>4, MergedAsNamed
<1>3. cluster' = cluster \/ \E r \in wire : cluster' = After(r.job)
    BY DEF Next, Operate, Timeout, Finish, Lose, Process, vars
<1>4. QED
    BY <1>1, <1>2, <1>3

\* A field of the cluster changes only to what one of the schedules names for
\* it, for any number of jobs, late and lost requests included.
\* (tidbclusterscheduler_controller.go createScaleCallback, client.go
\* ScaleCluster)
THEOREM OnlyNamedFieldsChange == FieldsFit => (Spec => OnlyNamedChanges)
<1>1. SUFFICES ASSUME FieldsFit PROVE Spec => OnlyNamedChanges
    OBVIOUS
<1>2. TypeOK /\ [Next]_vars => [NodesAsNamed]_vars
    BY <1>1, StepNodesAsNamed
<1>3. Spec => []TypeOK
    BY <1>1, TypeCorrect
<1>4. QED
    BY <1>2, <1>3, PTL DEF Spec, OnlyNamedChanges, NodesAsNamed, Fields

ReachedWhenAnswered ==
    \A j \in Jobs, c \in Components, field \in Fields :
        /\ calls[j].phase = "calling"
        /\ calls'[j] = Answered(TRUE)
        /\ Named(j, c, field)
        /\ ~(c = "tidb" /\ field = "storage")
        => cluster'.nodes[c][field] = Targets[j][c][field]

LEMMA StepReaches ==
    ASSUME FieldsFit, CountsNamed, TypeOK, [Next]_vars
    PROVE  ReachedWhenAnswered
<1> SUFFICES ASSUME NEW j \in Jobs, NEW c \in Components, NEW field \in Fields,
                    calls[j].phase = "calling", calls'[j] = Answered(TRUE),
                    Named(j, c, field), ~(c = "tidb" /\ field = "storage")
             PROVE  cluster'.nodes[c][field] = Targets[j][c][field]
    BY DEF ReachedWhenAnswered
<1>1. \E r \in wire : r.job = j /\ cluster' = After(j)
    <2>1. calls[j] # calls'[j]
        BY DEF Answered
    <2>2. ASSUME NEW i \in Jobs, Operate(i) \/ Timeout(i) \/ Finish(i) PROVE FALSE
        <3>1. i = j
            BY <2>1, <2>2 DEF Operate, Timeout, Finish, TypeOK
        <3>2. CASE Operate(i)
            BY <3>1, <3>2 DEF Operate, NoCall
        <3>3. CASE Timeout(i)
            BY <3>1, <3>3 DEF Timeout, TypeOK, Answered
        <3>4. CASE Finish(i)
            BY <3>1, <3>4 DEF Finish
        <3>5. QED
            BY <2>2, <3>2, <3>3, <3>4
    <2>3. ASSUME NEW r \in wire, Lose(r) PROVE FALSE
        BY <2>1, <2>3 DEF Lose
    <2>4. ASSUME NEW r \in wire, NEW accepted \in BOOLEAN, NEW answers \in BOOLEAN,
                 Process(r, accepted, answers)
          PROVE  r.job = j /\ cluster' = After(j)
        <3>1. r.job = j /\ calls' = [calls EXCEPT ![r.job] = Answered(accepted)]
            BY <2>1, <2>4 DEF Process, TypeOK
        <3>2. Answered(accepted) = Answered(TRUE)
            BY <3>1 DEF TypeOK
        <3>3. accepted
            BY <3>2 DEF Answered
        <3>4. QED
            BY <2>4, <3>1, <3>3 DEF Process
    <2>5. QED
        BY <2>1, <2>2, <2>3, <2>4 DEF Next, vars
<1>2. Kind[j] = "scale" /\ Named(j, c, "count")
    BY DEF Named, CountsNamed, Fields
<1>3. /\ cluster'.nodes[c] = Merged(cluster.nodes[c], Update(j)[c])
      /\ cluster.nodes[c] \in Nodes
    <2>1. cluster.nodes[c] \in Nodes
        BY DEF TypeOK, Nodes
    <2>2. QED
        BY <1>1, <1>2, <2>1, AfterIsTyped
<1>4. QED
    BY <1>2, <1>3, MergedAsNamed

\* A scale call answered with success has brought the cluster all that its
\* schedule names, provided the schedule names the count of every component it
\* asks something of and its numbers fit the SDK's integers.  Without the first
\* hypothesis the code does not keep this (run storage_only).
\* (tidbclusterscheduler_controller.go createScaleCallback, client.go
\* ScaleCluster)
THEOREM AnswersAreTrue ==
    FieldsFit /\ CountsNamed => (Spec => AnsweredMeansReached)
<1>1. SUFFICES ASSUME FieldsFit, CountsNamed PROVE Spec => AnsweredMeansReached
    OBVIOUS
<1>2. TypeOK /\ [Next]_vars => [ReachedWhenAnswered]_vars
    BY <1>1, StepReaches
<1>3. Spec => []TypeOK
    BY <1>1, TypeCorrect
<1>4. QED
    BY <1>2, <1>3, PTL DEF Spec, AnsweredMeansReached, ReachedWhenAnswered, Fields
=============================================================================
