-------------------------- MODULE ScheduleRegistry --------------------------
(***************************************************************************)
(* What the scheduler service promises, without cron instances, timezones, *)
(* job numbers, mutexes or execution records (the SchedulerService         *)
(* interface, internal/services/scheduler/cron.go).                        *)
(*                                                                         *)
(* Each owner has a set of installed jobs, which only its own calls and    *)
(* Shutdown change.  An installed job comes due any number of times; a run *)
(* that came due executes even if its job is removed before, and no job    *)
(* executes twice at once.                                                 *)
(***************************************************************************)
CONSTANTS Owners, Jobs, Runs

VARIABLES
    installed,  \* the jobs of each owner that can come due
    running,    \* what each run does: nothing, waiting for its turn, executing
    closed      \* the service is shut down

vars == <<installed, running, closed>>

Free == [state |-> "free"]

Busy(j, s) == [state |-> s, job |-> j]

Executing(j) == \E r \in Runs : running[r] = Busy(j, "executing")

Init ==
    /\ installed = [o \in Owners |-> {}]
    /\ running = [r \in Runs |-> Free]
    /\ closed = FALSE

\* A job that no owner has.
Install(o, j) ==
    /\ ~closed
    /\ \A p \in Owners : j \notin installed[p]
    /\ installed' = [installed EXCEPT ![o] = @ \cup {j}]
    /\ UNCHANGED <<running, closed>>

Remove(o, j) ==
    /\ ~closed
    /\ j \in installed[o]
    /\ installed' = [installed EXCEPT ![o] = @ \ {j}]
    /\ UNCHANGED <<running, closed>>

RemoveAll(o) ==
    /\ ~closed
    /\ installed' = [installed EXCEPT ![o] = {}]
    /\ UNCHANGED <<running, closed>>

Due(r, o, j) ==
    /\ running[r] = Free
    /\ j \in installed[o]
    /\ running' = [running EXCEPT ![r] = Busy(j, "waiting")]
    /\ UNCHANGED <<installed, closed>>

Execute(r, j) ==
    /\ running[r] = Busy(j, "waiting")
    /\ ~Executing(j)
    /\ running' = [running EXCEPT ![r] = Busy(j, "executing")]
    /\ UNCHANGED <<installed, closed>>

Complete(r, j) ==
    /\ running[r] = Busy(j, "executing")
    /\ running' = [running EXCEPT ![r] = Free]
    /\ UNCHANGED <<installed, closed>>

Close ==
    /\ ~closed
    /\ closed' = TRUE
    /\ installed' = [o \in Owners |-> {}]
    /\ UNCHANGED running

Next ==
    \/ \E o \in Owners : RemoveAll(o)
    \/ \E o \in Owners, j \in Jobs : Install(o, j) \/ Remove(o, j)
    \/ \E r \in Runs, j \in Jobs :
          \/ \E o \in Owners : Due(r, o, j)
          \/ Execute(r, j)
          \/ Complete(r, j)
    \/ Close

Spec == Init /\ [][Next]_vars
=============================================================================
