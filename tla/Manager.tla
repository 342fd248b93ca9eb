------------------------------- MODULE Manager -------------------------------
(***************************************************************************)
(* The processes of the operator, cmd/main.go: start, leader election, and  *)
(* the ways a process ends.  Each process has a scheduler service of its    *)
(* own, whose cron instances run from the moment it leads until it is gone: *)
(* they are no part of the manager, so neither the end of its leadership    *)
(* nor that of the manager stops them.                                      *)
(*                                                                         *)
(* main names the lease and leaves everything else at the defaults: its     *)
(* durations, that it is not given back, and how long the manager may take  *)
(* to stop.  A process keeps its lease by renewing it; a leader that fails  *)
(* to for GiveUpAfter ends at once, before another may take the lease.  One *)
(* that was told to stop does not: it may take longer than its lease lasts. *)
(*                                                                         *)
(* Abstracted: observation of the lease (a candidate knows its age; in the  *)
(* library it counts from when it last saw it change, and waits longer);    *)
(* metrics, probes and certificates.                                        *)
(***************************************************************************)
EXTENDS Naturals

CONSTANTS
    Replicas,
    LeaseDuration,  \* after which a lease that is not renewed may be taken
    GiveUpAfter,    \* the longest that a leader goes on without renewing it
    StopTimeout,    \* GracefulShutdownTimeout: how long the manager may take to stop
    ExitTime,       \* the longest from Start's return to the end of the process
    MaxStops        \* bound: processes that are told to stop, or killed

\* A leader that gives up, of which Start returns without stopping anything and
\* main exits, is gone before its lease has run out.  Nothing is assumed of how
\* long the manager takes to stop.
ASSUME TimesAssumption ==
    /\ {LeaseDuration, GiveUpAfter, StopTimeout, ExitTime, MaxStops} \subseteq Nat
    /\ GiveUpAfter + ExitTime < LeaseDuration

VARIABLES
    process,    \* what the process of each replica is doing
    firing,     \* whether its cron instances run
    phaseTime,  \* the time it has spent on that, if it must not take long
    holder,     \* the replica whose process holds the lease
    age,        \* the time since the lease was last renewed
    ended,      \* history: how the last process of each replica ended
    stops       \* counter for the bound

vars == <<process, firing, phaseTime, holder, age, ended, stops>>

----------------------------------------------------------------------------
None == "none"

\* standby: it waits for the lease.  leading: the controller runs.  stopping:
\* after a signal, the manager stops what it runs.  stopped: Start returned no
\* error.  overdue, ousted: it returned one, since the manager was not able to
\* stop in time, or since it lost the lease.
Phases == {"down", "standby", "leading", "stopping", "stopped", "overdue", "ousted"}
TakingTime == {"stopping", "stopped", "overdue", "ousted"}
ToldToStop == {"stopping", "stopped", "overdue"}

TypeOK ==
    /\ process \in [Replicas -> Phases]
    /\ firing \in [Replicas -> BOOLEAN]
    /\ \A r \in Replicas : firing[r] => process[r] \notin {"down", "standby"}
    /\ phaseTime \in [Replicas -> Nat]
    /\ holder \in Replicas \cup {None}
    /\ age \in 0..LeaseDuration
    /\ ended \in [Replicas -> {"never", "killed", "error", "panic"}]
    /\ stops \in 0..MaxStops

\* No lease is like one that has run out.
Init ==
    /\ process = [r \in Replicas |-> "down"]
    /\ firing = [r \in Replicas |-> FALSE]
    /\ phaseTime = [r \in Replicas |-> 0]
    /\ holder = None
    /\ age = LeaseDuration
    /\ ended = [r \in Replicas |-> "never"]
    /\ stops = 0

Enter(r, phase) ==
    /\ process' = [process EXCEPT ![r] = phase]
    /\ phaseTime' = [phaseTime EXCEPT ![r] = 0]

\* The cron instances end with the process.
End(r, how) ==
    /\ Enter(r, "down")
    /\ firing' = [firing EXCEPT ![r] = FALSE]
    /\ ended' = [ended EXCEPT ![r] = how]

----------------------------------------------------------------------------
(* Time.                                                                   *)

\* A leader gives up in time, the manager stops or times out, and main ends.
InTime(r) ==
    /\ process[r] = "leading" => age < GiveUpAfter
    /\ process[r] = "stopping" => phaseTime[r] < StopTimeout
    /\ process[r] \in {"stopped", "overdue", "ousted"} => phaseTime[r] < ExitTime

Tick ==
    /\ \A r \in Replicas : InTime(r)
    /\ age' = IF age < LeaseDuration THEN age + 1 ELSE age
    /\ phaseTime' = [r \in Replicas |->
          IF process[r] \in TakingTime THEN phaseTime[r] + 1 ELSE 0]
    /\ UNCHANGED <<process, firing, holder, ended, stops>>

----------------------------------------------------------------------------
(* Leader election.                                                        *)

\* Mutant of Acquire: the controller was never added to the manager.
AcquireIdle(r) ==
    /\ process[r] = "standby"
    /\ age = LeaseDuration
    /\ holder' = r
    /\ age' = 0
    /\ Enter(r, "leading")
    /\ UNCHANGED <<firing, ended, stops>>

\* Mutant of Acquire: without --leader-elect, which is off by default, the
\* controller waits for no lease.
AcquireAtOnce(r) ==
    /\ process[r] = "standby"
    /\ Enter(r, "leading")
    /\ firing' = [firing EXCEPT ![r] = TRUE]
    /\ UNCHANGED <<holder, age, ended, stops>>

\* The controller starts, and with its first reconciliations the cron instances.
Acquire(r) ==
    /\ process[r] = "standby"
    /\ age = LeaseDuration
    /\ holder' = r
    /\ age' = 0
    /\ Enter(r, "leading")
    /\ firing' = [firing EXCEPT ![r] = TRUE]
    /\ UNCHANGED <<ended, stops>>

\* Also while the manager stops, since the leader election ends last; but no
\* process renews the lease of an earlier one.
Renew(r) ==
    /\ process[r] \in {"leading", "stopping"}
    /\ firing[r]
    /\ holder = r
    /\ age <= GiveUpAfter
    /\ age' = 0
    /\ UNCHANGED <<process, firing, phaseTime, holder, ended, stops>>

\* Renewing failed too long: Start returns "leader election lost", stopping
\* nothing.  (An answer that got lost may make this early.)
GiveUp(r) ==
    /\ process[r] = "leading"
    /\ age > 0
    /\ Enter(r, "ousted")
    /\ UNCHANGED <<firing, holder, age, ended, stops>>

----------------------------------------------------------------------------
(* main.                                                                   *)

\* Mutant of Start: the controller needs no leader election.
StartFiring(r) ==
    /\ process[r] = "down"
    /\ Enter(r, "standby")
    /\ firing' = [firing EXCEPT ![r] = TRUE]
    /\ UNCHANGED <<holder, age, ended, stops>>

\* A new service, the controller set up, the manager started.
Start(r) ==
    /\ process[r] = "down"
    /\ Enter(r, "standby")
    /\ UNCHANGED <<firing, holder, age, ended, stops>>

\* SIGTERM or SIGINT, for which SetupSignalHandler cancels Start's context.
Signal(r) ==
    /\ process[r] \in {"standby", "leading"}
    /\ stops < MaxStops
    /\ stops' = stops + 1
    /\ Enter(r, "stopping")
    /\ UNCHANGED <<firing, holder, age, ended>>

\* Everything the manager ran has stopped, and it ends the leader election,
\* without giving the lease back.
StartReturns(r) ==
    /\ process[r] = "stopping"
    /\ Enter(r, "stopped")
    /\ UNCHANGED <<firing, holder, age, ended, stops>>

\* Something has not: Start returns an error.
StartFails(r) ==
    /\ process[r] = "stopping"
    /\ phaseTime[r] = StopTimeout
    /\ Enter(r, "overdue")
    /\ UNCHANGED <<firing, holder, age, ended, stops>>

\* The argument of Shutdown is a second call of SetupSignalHandler, which panics.
Panic(r) ==
    /\ process[r] = "stopped"
    /\ End(r, "panic")
    /\ UNCHANGED <<holder, age, stops>>

\* os.Exit(1), for which Shutdown is left out.
Exit(r) ==
    /\ process[r] \in {"overdue", "ousted"}
    /\ End(r, "error")
    /\ UNCHANGED <<holder, age, stops>>

Kill(r) ==
    /\ process[r] # "down"
    /\ stops < MaxStops
    /\ stops' = stops + 1
    /\ End(r, "killed")
    /\ UNCHANGED <<holder, age>>

Next ==
    \/ Tick
    \/ \E r \in Replicas :
          \/ Start(r) \/ Acquire(r) \/ Renew(r) \/ GiveUp(r)
          \/ Signal(r) \/ StartReturns(r) \/ StartFails(r)
          \/ Panic(r) \/ Exit(r) \/ Kill(r)

Spec == Init /\ [][Next]_vars

\* Time passes; the Deployment starts processes again; a candidate asks for the
\* lease again and again; a process that is to end does, and a manager that does
\* not stop times out.  Renewing may fail.
Fairness ==
    /\ WF_vars(Tick)
    /\ \A r \in Replicas :
          /\ WF_vars(Start(r))
          /\ WF_vars(StartFails(r))
          /\ WF_vars(Panic(r))
          /\ WF_vars(Exit(r))
    /\ WF_vars(\E r \in Replicas : Acquire(r))
    /\ \A r \in Replicas : WF_vars(GiveUp(r) /\ age = GiveUpAfter)

FairSpec == Spec /\ Fairness

----------------------------------------------------------------------------
(* Properties.                                                             *)

\* The cron instances of two processes run at once, and every schedule is carried
\* out twice, only while one of them has been told to stop: a leader that cannot
\* renew its lease is gone before another leads.
\* (main.go "Enabling this will ensure there is only one active controller
\* manager", which is more than the code ensures)
TwoFireOnlyAtAStop ==
    \A p, q \in Replicas : firing[p] /\ firing[q] /\ p # q =>
        process[p] \in ToldToStop \/ process[q] \in ToldToStop

\* Whoever stops, dies or loses the lease, some process leads again, and the
\* schedules fire.  (main.go, manager.yaml)
SomeoneFires == []<>(\E r \in Replicas : firing[r])

\* A process that is told to stop shuts its scheduler service down.
\* (main.go "Graceful shutdown of scheduler service")
StopsGracefully == \A r \in Replicas : ended[r] # "panic"
=============================================================================
