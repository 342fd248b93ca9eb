# Verification of the TiDB Cloud operator

TLA+ models of the operator in `src/`, checked with TLC and proved about with
TLAPS.  The operator watches `TiDBClusterScheduler` objects.  Each of them
names a TiDB Cloud cluster and a list of cron schedules that scale, suspend or
resume it; the operator keeps these schedules in its memory and calls the TiDB
Cloud API when they come due.

## Inventory

| Part | Source | State | Operations |
| --- | --- | --- | --- |
| Scheduler service | `internal/services/scheduler/cron.go` | cron instances per namespace and timezone; job numbers per owner; execution records per job number; one RWMutex | AddSchedule, RemoveSchedule, RemoveAllSchedules, GetNextRun, GetActiveSchedules, Shutdown; the runs that cron starts |
| Reconciler | `internal/controller/tidbclusterscheduler_controller.go` | none of its own: the object in the API server, the informer cache, the work queue, the schedules in the service | Reconcile: finalizer, credentials, access check, removal and installation of the schedules, status |
| Scheduled operations | the callbacks in the controller, `internal/services/tidbcloud/client.go` | what a callback captured; requests on the wire; the cluster | scale, suspend, resume, with a time limit |
| API types and CRD | `api/v1/`, `config/crd/` | spec and status of an object | admission by the API server |
| Operator process | `cmd/main.go` | leader lease, signal context | start, leader election, shutdown |
| Deployment, tests, build | `config/`, `test/`, `Makefile`, `Dockerfile` | - | - |

How they interact: the watch brings versions of an object to the informer
cache and its key to the work queue; the controller's worker calls Reconcile,
which reads the cache, calls the scheduler service and writes the object's
finalizer and status with the resource version it read; the writes come back
through the watch.  Cron instances run in goroutines of their own and start one
goroutine per due entry, which takes the service's mutex twice, around the
callback that calls the TiDB Cloud API.

What is hard, and what makes each part correct:

- *Scheduler service.*  Callers, cron instances and runs interleave at the
  mutex; AddSchedule is two critical sections with a call of the cron library
  between them; job numbers are unique per cron instance only.  Correct means:
  every entry that can fire is in its owner's reach, no call that passes its
  owner's own numbers disturbs another owner's jobs, a job does not overlap
  itself, runs end and leave their result.
- *Reconciler.*  The cache lags, updates conflict or take effect while their
  answer is lost, users edit and delete at any point, the operator crashes with
  all schedules, a spec may be refused half-way.  Correct means: schedules exist
  only under the finalizer, deletion completes, the status is true once nothing
  is left to do, and the service catches up with the spec.
- *Scheduled operations.*  Two conversions, each with its own idea of an unset
  field; requests of several jobs interleave, get lost, or are carried out after
  their caller gave up.  Correct means: only what schedules name changes, an
  operation reported as done is done, and callbacks end.
- *Controller and service together.*  An object is edited, deleted and created
  again while a reconciliation of it is half done, and reconciliations of others
  come between.  Correct means: an object that says
  its schedules are active has exactly those firing; one that is gone has none.
- *Operator process.*  The cron instances are no part of the manager: they fire
  until their process is gone, also after it lost the lease or was told to stop.
  Correct means: a leader that cannot renew its lease is gone before another
  fires, some process fires in the end, and one that is told to stop shuts its
  service down.

`PROJECT.json` lists the hazards at their lines, with the properties that
would catch them.

## Modules

| Module | Models |
| --- | --- |
| `ScheduleRegistry` | what the service promises: an owner's jobs, changed by the owner alone, and runs that do not overlap |
| `TimezoneScheduler` | the service of `cron.go` |
| `TimezoneSchedulerProofs`, `TimezoneRegistryProofs` | theorems about it; the second one under one timezone per namespace |
| `ScheduledObjects` | what the operator promises for the objects of its users: their jobs, and what their status claims of them |
| `ScheduledObjectsProofs` | what follows from that promise |
| `Admission` | which schedules the CRD admits, and which of them the operator takes |
| `Reconciler` | the controller, for one object; uses `Admission` |
| `ReconcilerProofs` | theorems about it |
| `Operator` | several objects and workers on one service; extends `TimezoneScheduler` |
| `OperatorProofs` | theorems about it |
| `ScheduledOperations` | the callbacks and the TiDB Cloud client |
| `ScheduledOperationsProofs` | theorems about them |
| `Manager` | the processes: start, leader election, stop |
| `ManagerProofs` | theorems about them |
| `MCTimezoneScheduler`, `MCReconciler`, `MCOperator`, `MCScheduledOperations`, `MCManager` | instances for TLC |

### TimezoneScheduler

`schedulers`, `scheduleMap` and `executionMap` are the maps of that name.
`nextID` and `entries` are the inside of the cron instances, which number their
entries from 1.  `mu` is the mutex *between* critical sections: a critical
section is one action, so `mu` is free unless a panic left it locked.
`workers` and `runs` hold the goroutines that are between two actions of one
call.

- AddSchedule: `AddSchedule` (getOrCreateCronScheduler) or `RejectSchedule`
  (the validator refuses, the cron instance stays), `AddFunc` (the entry can
  fire), `AssignEntryID` (its number reaches the variable that the closure
  reads), `TrackSchedule` (the second critical section).
- RemoveSchedule, RemoveAllSchedules, Shutdown: one action each.
- A run: `Fire`, `BeginRun` (DelayIfStillRunning lets it pass; the closure reads
  `entryID`, a data race modelled by the value 0 until it is assigned),
  `RecordRun`, `FinishRun` with success or a panic; `RecordRunAfterShutdown` is
  the assignment into the nil map.  `ref` says whether the record the run holds
  is still the one in the map.
- The queries have no effect; `FoundEntries` and `GetActiveSchedules` are their
  answers, and `LookupIsExact` is about these.

The controller runs one worker today (MaxConcurrentReconciles is left at its
default of one); two are modelled, since the service is
written for concurrent callers ("Mutex for thread-safe operations") and takes
part in nothing that depends on their number, except that two reconciliations of
one object never overlap (`Callable`).  `RemoveSchedule` and the two queries have no
caller in the controller yet; they are part of the interface.  RemoveSchedule is
modelled with an assumption on its callers: the number they pass is one tracked for
the owner they name (`RemovalStep`).  The code checks nothing of the kind: it
removes the number it is given from every cron instance and from the execution
records of the namespace, whoever owns it.  So that no call disturbs another
owner's jobs (`TrackedIsLive`, `LookupIsExact`, `ImplementsRegistry`) holds of
callers that pass their own numbers only.  The validator accepts a
subset of what the cron library's own parser does, so `AddFunc` has no error
branch.

### Reconciler

One action per step of Reconcile that reads or changes something others see.
`worker.copy` is the object as r.Get returned it; `fresh` says whether its
resource version is still the newest, which is what decides a conflict.
`pending` are the versions the watch has yet to deliver, `cache` the last one
it delivered, `dirty` the key in the work queue.  `SchedulesOf[s]` are the
schedules of a spec, all of which the API server has admitted; `Schedules[s]`
says what becomes of each (`Outcome` of `Admission`): `add`, `skip` (a `suspend`
or `resume` that is false) or `refuse`.  `installed` abstracts the service to the set of this
object's schedules.  `stamp` tells whether the condition's LastTransitionTime,
which has a resolution of one second, is the current second: a status update
that changes nothing makes no new version.

External, from how the code uses it: the API server (finalizers, conflicts),
informer and queue, Deployment, users, secret and cloud.  A restarted operator
lists the current object: one API server is assumed.  `Resync` is the informer's
periodic resync (ten hours by default): after a credential or API failure it is
the only thing, besides an edit, that brings Reconcile back, since such a failure
is not returned as an error and secrets are not watched.

### Admission

Operators only.  `Admitted` is the CRD's rule and pattern, translated
alternative by alternative (the pattern is anchored at its end only, so that
fields before the last five pass); `ValidateScheduleExpression` is the parser that
cron.go builds (external: `InBounds` and `Bounds` of robfig/cron); `Outcome` is
what reconcileSchedules makes of the schedule.  An expression is the sequence of
its fields, each of them a sequence of items; names of months and days are left out.
An unknown timezone, which `AddSchedule` refuses too, is like a spec whose first
schedule is refused.

### Operator

`EXTENDS TimezoneScheduler`, whose actions `Clean`, `Start`, `AddNext`, `Insert`
and `Added` are made of: `reconciles[w]` is the reconciliation a worker is in, and
it makes the service's steps in the order of reconcileSchedules.  `object` and
`ready` are in the API server, `queue` is the set of queued keys; the queue hands
out no key that a worker has.  `Decline` is the early return without access to the
cluster; `Report` and `ReportFails` are updateStatus, which only an unchanged object
(`fresh`) lets succeed.  `Clean` is the branch for an object that is gone or being
deleted: it removes all schedules and drops the finalizer.  `Crash` ends the
process and starts another with an empty service.  A worker reads the newest version
of the object here: the lagging cache is in `Reconciler`.

### ScheduledObjects

The promise that `Reconciler` makes for one object, with its lagging cache and lost
updates, and `Operator` for all of them, with the service and several workers.
`object` is what an owner has, from the finalizer's arrival to its going; `claimed`
is its Ready condition saying that all is active; `firing` are its jobs; `busy` are
the owners with something left to do.  Jobs change only while their owner is busy,
or at a restart; every write makes its owner busy; the object goes with its last job;
`Report` claims only what is so, and `Rest` leaves an object alone only with a claim
that is true.  `Complete[s]` are the sets of jobs that are all a spec asks for.

The refinement mappings (`Promise`, in both modules):

| `ScheduledObjects` | `Reconciler` | `Operator` |
| --- | --- | --- |
| `object` | the object while it has the finalizer (`Held`) | `object` |
| `claimed` | it is held, and the reason is SchedulesActive | `ready` is active |
| `firing` | `installed` | the owner's entries in the cron instances |
| `busy` | a version on its way, the key queued, the worker at work, or the process down (not `Settled`) | queued or being reconciled |
| `Complete` | what reconcileSchedules installs for the spec (`Wanted`) | as many entries as the spec has schedules, in its timezone |

Adopt is the update that sets the finalizer (`Create` in `Operator`), Drop the one
that takes it away; Install is a schedule added, RemoveAll the removal before and on
deletion; Report is updateStatus on an unchanged object.  Everything else wakes
the controller, lets it rest, or is a stutter.

### Manager

A process goes from `down` to `standby` (mgr.Start waits for the lease), `leading`,
and either `ousted` (the lease could not be renewed: Start returns an error at once,
stopping nothing, and main exits) or, after a signal, `stopping`.  The manager then
stops what it runs: if it is done, Start returns (`StartReturns`, `stopped`) and main
goes on to Shutdown's argument, the second ctrl.SetupSignalHandler (`Panic`); if it is
not done after `StopTimeout`, Start returns an error (`StartFails`, `overdue`) and main
exits without Shutdown.  `firing` is whether the cron instances run: from `leading`
until the process is gone.  `age` is the time since the last renewal.  The lease, its
renewal, the deadline and the graceful shutdown are those of client-go and
controller-runtime (external), with the options that main passes: leader election,
without LeaderElectionReleaseOnCancel, everything else at its default.  That is 30
seconds for the manager to stop, during which the lease may still be renewed; the pod
has 10 (`terminationGracePeriodSeconds` of `manager.yaml`) before it is killed, and
`Kill` may come at any time.

### ScheduledOperations

`NodeSetting` is what createScaleCallback makes of a component of a scale
target, `NodeGroup` what ScaleCluster makes of that for the SDK, with Go's
wrapping conversion to 32 bits (`Truncate`; `HalfRange` is 2^31 in the code).
The API (external) applies an accepted update field by field, may refuse or lose
any request or its answer, and may carry one out after its caller's `Timeout`.
`Finish` is the end of the callback, which logs an error and returns, so that the
service notes a success.  Which states of the cluster make the API refuse a
request is left open: it may always.

## Runs

| Run | Bounds | Distinct states |
| --- | --- | --- |
| `service_single_tz` | one namespace, two owners, one timezone, two callers, two runs, two numbers | 256,544 |
| `reconcile` | a spec with a skipped schedule and one refused half-way; the cache up to 2 versions behind; 3 user writes; 1 crash | 148,780 |
| `operations` | four jobs (two scale, suspend, resume), three runs, integers of -8..7 | 27,597 |
| `operator` | two objects, specs of one and two schedules in one timezone, two workers, one run, three numbers | 839,212 |
| `manager` | two replicas, lease 15, give up after 12, 30 to stop, 2 to exit, two signals or kills | 478,755 |

- `service_single_tz`: with one timezone per namespace the service implements
  `ScheduleRegistry`, its queries are exact, every counted run leaves a result, and
  every run ends (`RunsEnd`).
- `reconcile`: the safety and liveness of the controller, and that it keeps the
  promise `ScheduledObjects` for its object.
- `operations`: field by field, what the schedules do to the cluster.
- `operator`: objects that say active fire exactly their schedules, gone ones
  none, whatever the users do between the steps of two reconciliations; and the
  promise `ScheduledObjects` is kept for both.
- `manager`: two processes fire at once only while one that was told to stop is on
  its way out, and always one fires in the end.

Why the bounds are enough: two owners whose numbers meet, two runs of one entry
(or of two), a run and a caller that compete, and a number that is reused are all there
is to the service's conflicts; a second namespace shares nothing with the first but
the mutex.  A cache that is two versions behind
and a third write cover creation, edit and deletion in one watch window, with a
crash anywhere; a larger instance (three versions, four writes, 397,020 states)
was checked for the safety properties, and those are proved for all bounds.
Four jobs and three runs let two requests of one job, one of which timed
out, overlap with one of another job.  Two objects are enough for `operator`: its
properties speak of one object and of what others do to it, and three numbers let
one object be reconciled twice while another has its jobs (numbers are given
out again after a crash).  States of `operator` that differ only in runs and execution records, or in which
worker does what, are taken for one (`View` of `MCOperator`): no step but those of runs
and no invariant reads the former, no step of a run changes anything else, and all
workers are alike.  The promise is mapped from the latter alone, so that its steps
can be checked on any one of the states taken for one.
The runs' interplay is in `service_single_tz`, and the properties of `operator` are
proved with any runs.  That no
entry is leaked with several timezones (`NoOrphan`, `GoneMeansSilent`) is a theorem.
Two replicas are one more than the Deployment asks for: a rolling update
and a lost node make a second one.

Deadlock is checked for `Reconciler`, `Operator` and `Manager`.  For the first two
that says little, because a step of the environment (a resync, a crash, a schedule
that comes due) is always possible; what they must get done is said by the liveness
properties of `Reconciler`.  In
`TimezoneScheduler` the service
really stops after Shutdown, and at the bound on job numbers; in
`ScheduledOperations` it stops after the last of `MaxRuns` runs.

Seven runs have a violation to show; each is a finding:

- `zones`: job numbers are unique per cron instance, and RemoveAllSchedules looks for
  an owner's numbers in those of all timezones of the namespace: with objects in two
  timezones, reconciling one removes the job of the other, which stays tracked, never
  fires again, and whose condition goes on saying that all is active.  (It comes
  back when the other object is reconciled next.)  `ActiveMeansFiring`,
  `TrackedIsLive`, `LookupIsExact` and `ImplementsRegistry` hold with one timezone
  per namespace only.
- `shutdown`: a process that is told to stop panics at the second
  SetupSignalHandler and never calls Shutdown.
- `shortcut`: the pattern and a unit test admit `@daily`, which the parser refuses;
  the schedules after it are not installed either.
- `transition_time`: each reconciliation moves LastTransitionTime, and the
  update triggers the next reconciliation.
- `ready_gap`: each reconciliation has a time in which schedules are not
  installed while the condition says they are active; what comes due then is missed.
- `last_result`: a failed operation is recorded as a success.
- `storage_only`: a target without a node count has no effect, and succeeds.

Seen in the models, without a run of their own: two processes fire at once when one
that was told to stop takes longer than its lease lasts and cannot renew it, so that
the flag's "only one active controller manager" (main.go) is more than the code
ensures; a run that starts inside AddSchedule
is lost to its job's record, and one that was due when its job was removed makes a
record that stays (both concern records that only the unused queries could read); after Shutdown a late run panics with
the mutex held (`RecordRunAfterShutdown`); a count beyond 32 bits wraps
(`FieldsFit` excludes it); `settings` (concurrencyLimit, operationTimeout,
retryConfig), suspend's `settings` and all status fields but the conditions are
not read or written by any code; the secret keys of the README (`public-key`,
`private-key`) are not those the code reads (`publicKey`, `privateKey`).

## Fairness

- `TimezoneScheduler`: weak fairness for the steps of a run that need the
  service's mutex or the end of a callback (whose context expires after five
  minutes); strong fairness for passing DelayIfStillRunning, since Go's mutex
  hands itself to its longest waiter.  No fairness for callers or for cron.
- `Reconciler`: weak fairness for the worker, the watch, restart, resync, the
  other finalizer's owner and the clock; strong fairness for updates: an update
  that is retried and again and again meets no conflict succeeds in the end.
  None for users, secret and cloud; crashes are bounded.
- `Manager`: weak fairness for time, for starts (the Deployment), for the steps of a
  process on its way out and for a candidate's request for a lease that has run out
  (the API server is reachable then); for giving up at the deadline.  A manager need
  not stop by itself: only its timeout (`StartFails`) is fair.  None for renewals: a
  leader may always fail to renew; signals and kills are bounded.
- `Operator`: none; its properties are about safety.
- `ScheduledOperations`: weak fairness for timeouts and for the goroutine of the
  callback.  None for the API: it may never answer.

## Proofs

All theorems hold for every value of the constants that satisfies the named
assumptions of the modules.

*Service, any timezones* (`TimezoneSchedulerProofs`): `TypeCorrect` and
`NothingOrphaned`, `CountedRunsLeaveResults`.  `NoOrphan` is not inductive alone: a removal takes numbers from
the owner's list and entries from the cron instances that exist, so every entry
has to be in one that exists (`ZonesExist`; without it a removal would forget a
number and leave its entry).  The lemmas before it are about sequences: what
`RemoveFirst`, RemoveSchedule's loop, leaves of a list.

*Service, one timezone per namespace* (`TimezoneRegistryProofs`): the hypothesis
`OneTimezonePerNamespace` makes numbers unique in a namespace (`UniqueEntries`,
because numbers given out never come again, `IDsIssued`).  `LiveInv` adds what
happens in the window inside AddSchedule: the entry a caller is about to track is
live and not tracked yet (`PendingLive`, `PendingUntracked`), and nobody else acts
for its owner (`OneCallPerOwner`); a list names no number twice
(`ListsDistinct`, since RemoveSchedule takes out the first only).  From it follow
`JobsStayLive` (no tracked job was removed behind its owner's back),
`QueriesAreExact`, and `ServiceImplementsRegistry`: Init maps to the registry's
Init and every step to a registry step or a stutter.  AddFunc maps to Install, the
removals to Remove and RemoveAll, Fire, BeginRun and the end of a run to Due,
Execute and Complete, Shutdown to Close; everything else is a stutter.

*Reconciler* (`ReconcilerProofs`): `TypeCorrect`, `OnlyFinalizedHaveSchedules`
and `SettledStatusTrue`, for any specs, lag, writes and crashes.  `FinalizerInv`
follows the versions: the newest version the operator was sent is the object
(`Newest`), so an update that does not conflict was made from the object itself
(`FreshCopy`); and while the cache, the watch or the worker holds a version that
has schedules installed, the object has the finalizer (`VersionsBacked`), since
only the worker drops it, from a copy that is the object and is being deleted.
`StatusInv` says what the loop over the schedules has installed so far
(`AddedSoFar`) and what a report about to be written stands for (`ReportsTruth`).
`AcceptedTakesEffect` is what remains of the violated `AdmittedTakesEffect`: it holds
if the operator's parser refuses no schedule of the specs (`NoneRefused`).

*The promise.*  `PromiseIsWorthHaving` (`ScheduledObjectsProofs`) says what
`ScheduledObjects` is good for: a claim that stands while its owner waits for nothing
is true, and an object that is gone has no job.  Its inductive argument is short: each
step disturbs one owner, which is then busy, and only Rest, which looks at the claim,
ends that.  `ControllerKeepsPromise` (`ReconcilerProofs`) and `OperatorKeepsPromise`
(`OperatorProofs`) show that both models implement it: Init maps to Init and each
step to one of the promise or a stutter.

For the controller this takes `FinalizerInv` and `StatusInv` and one invariant more,
`ReportInv`: a status is reported for an object that lets schedules be installed
(`ReportsInstallable`), and nothing has been claimed of an object that has yet to get
its finalizer (`NewIsSilent`), so that one that is adopted claims nothing.  A step
that changes neither object, claim nor schedules is Rest if it leaves nothing to do,
and that it may be is `SettledStatusIsTrue` of the state after it (`QuietStep`).  The
one removal that may leave nothing to do, for an object that is not in the cache, then
has nothing to remove: the cache is up to date, and without object there are no
schedules.

For the operator, an object's list of numbers has to stand for its entries one by one
(`CompleteEntries`: no number twice, each an entry of the owner, and no entry beside
them), which needs one timezone per namespace; a removal takes the owner's entries
and no other's (`RemovesAllJobs`), and while a step is taken for one owner the others
stay as they are (`OthersRest`).

*Controller and service* (`OperatorProofs`): every step of the operator is a
step of the service or starts it anew (`ServiceSteps`), so the service's invariants
`BaseInv` and `LiveInv` hold of it.  `OperatorInv` adds who is inside the service for
whom (`CallsBelong`, `OnePerOwner`) and how many jobs an object that is being
reconciled has (`Progress`); a report is made from a fresh copy, so what it counts
are the schedules of the current spec (`FreshSpecs`), and an object's list changes only
while it is queued or reconciled (`ReadyComplete`).It gives `GoneObjectsAreSilent` for any timezones, and
`ActiveObjectsFire` with one timezone per namespace, without which run `zones` is a
counterexample.

*Processes* (`ManagerProofs`): `TwoProcessesFireOnlyAtAStop` rests on
`TimesAssumption`, that giving up and exiting take less than the lease lasts.
`LeaseIsYoung`: a process that leads, or has given up and not exited yet, holds the
lease, and the lease is no older than its phases allow.  The assumption is met by the
default durations (give up within 10 seconds and the 2 between two tries, of 15):
Start returns at once when the lease is lost, and main exits.  It is that of every
lease, that a process is not held up for seconds between the deadline and its exit.
Nothing is assumed of the time the manager takes to stop, and nothing is claimed of
a process that was told to: when it is slow, and cannot renew its lease meanwhile,
the next one fires before it is gone.

*Operations* (`ScheduledOperationsProofs`): `TypeCorrect` and
`OnlyNamedFieldsChange` assume `FieldsFit` (the schedules' numbers are positive, as
the CRD demands, and fit the SDK's integers, which it does not);
`AnswersAreTrue` assumes `CountsNamed` as well, without which run
`storage_only` is a counterexample.  They rest on what the two conversions do to
one component (`UpdateNamesTarget`, `MergedAsNamed`).

Model-checked only: liveness (`RunsEnd`, `DeletionCompletes`, `SpecTakesEffect`,
`CallsEnd`, `SomeoneFires`), which the prover does not do, as it does no `ENABLED`;
and the violations, which have nothing to prove.  Every safety property of the
passing runs is a theorem.

## Plan

Done: the service with its abstract specification, the reconciler, the two
composed, the promise they both keep, the scheduled operations, admission, the processes, and the theorems above.
What could be added:

1. The lagging cache and refused schedules in `Operator`.  Both models implement
   `ScheduledObjects`, the one with the cache, the other with the service; one with
   both would show that neither depends on what the other leaves out.
2. The runs of `Operator` joined with the requests of `ScheduledOperations`: what
   may still be done to a cluster after its object is gone or edited.
3. What follows from `ScheduleRegistry` for whoever calls it (a job has one owner, and
   none comes due once it is closed), as `PromiseIsWorthHaving` does for
   `ScheduledObjects`.

## Not modelled

Generated deep copies, manifests, build files and tests (no behaviour of the
operator); GetCluster's conversion of a cluster, whose node counts are placeholders
that nothing reads; `settings`, which no code reads; metrics, probes, certificates,
flags, authentication and logging.
