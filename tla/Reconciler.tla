----------------------------- MODULE Reconciler -----------------------------
(***************************************************************************)
(* The controller of internal/controller/tidbclusterscheduler_controller.go *)
(* for one TiDBClusterScheduler object: the object in the API server, the  *)
(* watch that brings its versions to the informer cache of the manager,    *)
(* the work queue, and the one worker that runs Reconcile step by step     *)
(* while users edit and delete the object, the secret and the TiDB Cloud   *)
(* API come and go, and the operator crashes and restarts.                 *)
(*                                                                         *)
(* Reconcile reads the cache, which may lag behind the API server; its     *)
(* writes carry the resource version it read, and conflict when the object *)
(* was written since.  The schedules live in the operator's memory only.   *)
(*                                                                         *)
(* Abstracted: a spec is its schedules (see Admission for what becomes of  *)
(* them); the service is the set of this object's schedules that can fire  *)
(* (see TimezoneScheduler for how it keeps them); status is the reason of  *)
(* the Ready condition and whether its LastTransitionTime, which has a     *)
(* resolution of one second, is the current second.                        *)
(***************************************************************************)
EXTENDS Naturals, SequencesExt, Admission

CONSTANTS
    Specs,          \* the values users give the object's spec
    SchedulesOf,    \* the schedules of each spec
    MaxLag,         \* bound: versions the watch has yet to deliver
    MaxWrites,      \* bound: creations, edits and deletions by users
    MaxCrashes      \* bound: crashes of the operator

\* The API server has admitted them.
ASSUME SchedulesAssumption ==
    /\ SchedulesOf \in [Specs -> Seq(ScheduleEntries)]
    /\ \A s \in Specs : \A i \in DOMAIN SchedulesOf[s] :
          Admitted(SchedulesOf[s][i])

VARIABLES
    object,         \* the object in the API server
    ready,          \* the reason of its Ready condition
    stamp,          \* whether LastTransitionTime is in the current second
    pending,        \* the versions the watch has yet to deliver
    cache,          \* the version in the informer cache
    dirty,          \* the object's key is in the work queue
    worker,         \* the reconciliation in progress
    fresh,          \* no one wrote the object since the version it read
    installed,      \* <<spec, i>> for each schedule in the service
    secret,         \* the credentials secret is there and has both keys
    cloud,          \* the TiDB Cloud API answers for the cluster
    up,             \* the operator process runs and leads
    writes, crashes \* counters for the bounds

apiVars == <<object, ready, stamp, pending>>
operatorVars == <<cache, dirty, worker, fresh, installed>>
envVars == <<secret, cloud, up, writes, crashes>>
vars == <<apiVars, operatorVars, envVars>>

----------------------------------------------------------------------------
\* What reconcileSchedules makes of each schedule of each spec.
Schedules ==
    [s \in Specs |->
        [i \in DOMAIN SchedulesOf[s] |-> Outcome(SchedulesOf[s][i])]]

Absent == [exists |-> FALSE]

\* fin: the finalizer scheduler.tsurai.jp/cleanup; foreign: a finalizer of
\* someone else (a foreground deletion sets one); del: deletionTimestamp is set.
Version == [exists : {TRUE}, spec : Specs, fin : BOOLEAN, foreign : BOOLEAN,
            del : BOOLEAN]

Failures == {"CredentialError", "ClusterValidationFailed", "ScheduleError"}
Reasons == Failures \cup {"SchedulesActive"}

Idle == [pc |-> "idle"]
Busy == [pc : {"addFinalizer", "dropFinalizer", "connect", "validate",
               "remove", "add"},
         copy : Version, i : Nat]
Reporting == [pc : {"status"}, copy : Version, reason : Reasons]

TypeOK ==
    /\ object \in {Absent} \cup Version
    /\ ready \in Reasons \cup {"none"}
    /\ stamp \in {"now", "past"}
    /\ pending \in Seq({Absent} \cup Version)
    /\ cache \in {Absent} \cup Version
    /\ dirty \in BOOLEAN
    /\ worker \in {Idle} \cup Busy \cup Reporting
    /\ fresh \in BOOLEAN
    /\ installed \subseteq Specs \X Nat
    /\ secret \in BOOLEAN
    /\ cloud \in BOOLEAN
    /\ up \in BOOLEAN
    /\ writes \in Nat
    /\ crashes \in Nat

Init ==
    /\ object = Absent
    /\ ready = "none"
    /\ stamp = "past"
    /\ pending = <<>>
    /\ cache = Absent
    /\ dirty = FALSE
    /\ worker = Idle
    /\ fresh = FALSE
    /\ installed = {}
    /\ secret \in BOOLEAN
    /\ cloud \in BOOLEAN
    /\ up = TRUE
    /\ writes = 0
    /\ crashes = 0

----------------------------------------------------------------------------
(* The API server and the watch.                                           *)

\* An object on its way out goes when its last finalizer does.
Finalized(v) == IF v.del /\ ~v.fin /\ ~v.foreign THEN Absent ELSE v

\* Every write is a new version that the watch will deliver.
Write(v) ==
    /\ Len(pending) < MaxLag
    /\ object' = v
    /\ pending' = IF up THEN Append(pending, v) ELSE pending
    /\ fresh' = FALSE

UserWrite(v) ==
    /\ writes < MaxWrites
    /\ writes' = writes + 1
    /\ Write(v)
    /\ UNCHANGED <<cache, dirty, worker, installed, secret, cloud, up, crashes>>

Create(s) ==
    /\ ~object.exists
    /\ UserWrite([exists |-> TRUE, spec |-> s, fin |-> FALSE, foreign |-> FALSE,
                  del |-> FALSE])
    /\ ready' = "none"
    /\ stamp' = "past"

Edit(s) ==
    /\ object.exists
    /\ object.spec # s
    /\ UserWrite([object EXCEPT !.spec = s])
    /\ UNCHANGED <<ready, stamp>>

Delete(foreground) ==
    /\ object.exists
    /\ ~object.del
    /\ UserWrite(Finalized([object EXCEPT !.del = TRUE, !.foreign = foreground]))
    /\ UNCHANGED <<ready, stamp>>

\* The other finalizer's controller is done.
ReleaseForeign ==
    /\ object.exists
    /\ object.foreign
    /\ Write(Finalized([object EXCEPT !.foreign = FALSE]))
    /\ UNCHANGED <<ready, stamp, cache, dirty, worker, installed, envVars>>

Deliver ==
    /\ up
    /\ pending # <<>>
    /\ cache' = Head(pending)
    /\ pending' = Tail(pending)
    /\ dirty' = TRUE
    /\ UNCHANGED <<object, ready, stamp, worker, fresh, installed, envVars>>

\* The informer hands every cached object to the controller once in a while.
Resync ==
    /\ up
    /\ cache.exists
    /\ ~dirty
    /\ dirty' = TRUE
    /\ UNCHANGED <<apiVars, cache, worker, fresh, installed, envVars>>

----------------------------------------------------------------------------
(* The rest of the environment.                                            *)

Tick ==
    /\ stamp = "now"
    /\ stamp' = "past"
    /\ UNCHANGED <<object, ready, pending, operatorVars, envVars>>

SecretChanges ==
    /\ secret' = ~secret
    /\ UNCHANGED <<apiVars, operatorVars, cloud, up, writes, crashes>>

CloudChanges ==
    /\ cloud' = ~cloud
    /\ UNCHANGED <<apiVars, operatorVars, secret, up, writes, crashes>>

\* Nothing of the operator's state is persisted but the object's status.
Crash ==
    /\ up
    /\ crashes < MaxCrashes
    /\ crashes' = crashes + 1
    /\ up' = FALSE
    /\ pending' = <<>>
    /\ cache' = Absent
    /\ dirty' = FALSE
    /\ worker' = Idle
    /\ fresh' = FALSE
    /\ installed' = {}
    /\ UNCHANGED <<object, ready, stamp, secret, cloud, writes>>

\* The informer lists the object, as it is at that moment, and enqueues it.
Restart ==
    /\ ~up
    /\ up' = TRUE
    /\ cache' = object
    /\ dirty' = object.exists
    /\ UNCHANGED <<apiVars, worker, fresh, installed, secret, cloud, writes, crashes>>

----------------------------------------------------------------------------
(* Reconcile.                                                              *)

\* The worker takes the key; r.Get reads the cache.
TakeKey ==
    /\ up
    /\ dirty
    /\ worker = Idle
    /\ dirty' = FALSE
    /\ fresh' = (pending = <<>>)
    /\ UNCHANGED <<apiVars, cache, envVars>>

StepTo(pc) == worker' = [pc |-> pc, copy |-> cache, i |-> 1]

\* Mutant of ReconcileMissing: NotFound does not return.
ReconcileMissingGoesOn ==
    /\ TakeKey
    /\ ~cache.exists
    /\ installed' = {}
    /\ StepTo("connect")

ReconcileMissing ==
    /\ TakeKey
    /\ ~cache.exists
    /\ installed' = {}
    /\ UNCHANGED worker

ReconcileNew ==
    /\ TakeKey
    /\ cache.exists
    /\ ~cache.del
    /\ ~cache.fin
    /\ StepTo("addFinalizer")
    /\ UNCHANGED installed

\* Mutant of ReconcileDeleting: the schedules stay.
ReconcileDeletingKeepsSchedules ==
    /\ TakeKey
    /\ cache.exists
    /\ cache.del
    /\ cache.fin
    /\ StepTo("dropFinalizer")
    /\ UNCHANGED installed

\* Mutant of ReconcileDeleting: the finalizer stays.
ReconcileDeletingKeepsFinalizer ==
    /\ TakeKey
    /\ cache.exists
    /\ cache.del
    /\ cache.fin
    /\ installed' = {}
    /\ UNCHANGED worker

ReconcileDeleting ==
    /\ TakeKey
    /\ cache.exists
    /\ cache.del
    /\ cache.fin
    /\ installed' = {}
    /\ StepTo("dropFinalizer")

\* Only another party's finalizer keeps the object.
ReconcileDeleted ==
    /\ TakeKey
    /\ cache.exists
    /\ cache.del
    /\ ~cache.fin
    /\ UNCHANGED <<worker, installed>>

\* Mutant of ReconcileLive: an object that is Ready is not looked at again.
ReconcileLiveUnlessReady ==
    /\ TakeKey
    /\ cache.exists
    /\ ~cache.del
    /\ cache.fin
    /\ IF ready = "SchedulesActive" THEN UNCHANGED worker ELSE StepTo("connect")
    /\ UNCHANGED installed

ReconcileLive ==
    /\ TakeKey
    /\ cache.exists
    /\ ~cache.del
    /\ cache.fin
    /\ StepTo("connect")
    /\ UNCHANGED installed

At(pc) == worker.pc = pc

Proceed(pc, i) == worker' = [worker EXCEPT !.pc = pc, !.i = i]

Report(reason) ==
    worker' = [pc |-> "status", copy |-> worker.copy, reason |-> reason]

CreateTiDBCloudClient ==
    /\ At("connect")
    /\ IF secret THEN Proceed("validate", 1) ELSE Report("CredentialError")
    /\ UNCHANGED <<apiVars, cache, dirty, fresh, installed, envVars>>

\* The cloud answers, and it knows the cluster.
GetCluster == cloud

ValidateClusterAccess ==
    /\ At("validate")
    /\ IF GetCluster THEN Proceed("remove", 1) ELSE Report("ClusterValidationFailed")
    /\ UNCHANGED <<apiVars, cache, dirty, fresh, installed, envVars>>

\* Mutant of RemoveExisting: schedules are only ever added.
RemoveNothing ==
    /\ At("remove")
    /\ Proceed("add", 1)
    /\ UNCHANGED <<apiVars, cache, dirty, fresh, installed, envVars>>

\* reconcileSchedules: first every schedule goes, ...
RemoveExisting ==
    /\ At("remove")
    /\ installed' = {}
    /\ Proceed("add", 1)
    /\ UNCHANGED <<apiVars, cache, dirty, fresh, envVars>>

\* ... then those of the spec are added one by one, up to the first error.
AddNext ==
    /\ At("add")
    /\ LET spec == worker.copy.spec IN
          /\ worker.i \in DOMAIN Schedules[spec]
          /\ installed' = IF Schedules[spec][worker.i] = "add"
                          THEN installed \cup {<<spec, worker.i>>}
                          ELSE installed
          /\ IF Schedules[spec][worker.i] = "refuse"
             THEN Report("ScheduleError")
             ELSE Proceed("add", worker.i + 1)
    /\ UNCHANGED <<apiVars, cache, dirty, fresh, envVars>>

AllAdded ==
    /\ At("add")
    /\ worker.i \notin DOMAIN Schedules[worker.copy.spec]
    /\ Report("SchedulesActive")
    /\ UNCHANGED <<apiVars, cache, dirty, fresh, installed, envVars>>

\* Reconcile returns; with an error the key comes back to the queue.
Return(err) ==
    /\ worker' = Idle
    /\ dirty' = (dirty \/ err)
    /\ UNCHANGED <<cache, installed, envVars>>

\* Mutant of UpdateFinalizer: updates whatever has been written meanwhile.
UpdateFinalizerUnchecked(pc, v, err) ==
    /\ At(pc)
    /\ Write(v)
    /\ Return(err)
    /\ UNCHANGED <<ready, stamp>>

\* updateScheduler.  The answer to a write that took effect may be lost (err).
UpdateFinalizer(pc, v, err) ==
    /\ At(pc)
    /\ fresh
    /\ Write(v)
    /\ Return(err)
    /\ UNCHANGED <<ready, stamp>>

AddFinalizer(err) ==
    UpdateFinalizer("addFinalizer", [object EXCEPT !.fin = TRUE], err)

DropFinalizer(err) ==
    UpdateFinalizer("dropFinalizer", Finalized([object EXCEPT !.fin = FALSE]), err)

\* updateStatus: the condition gets the current time, whether it changes or
\* not.  The API server makes no new version of an update that changes nothing.
UpdateStatus(err) ==
    /\ At("status")
    /\ fresh
    /\ IF ready = worker.reason /\ stamp = "now"
       THEN UNCHANGED <<apiVars, fresh>>
       ELSE /\ Write(object)
            /\ ready' = worker.reason
            /\ stamp' = "now"
    /\ Return(err)

\* A conflict, or any other error of the API server.
UpdateFails ==
    /\ worker.pc \in {"addFinalizer", "dropFinalizer", "status"}
    /\ Return(TRUE)
    /\ UNCHANGED <<apiVars, fresh>>

----------------------------------------------------------------------------
Reconcile ==
    \/ ReconcileMissing \/ ReconcileNew \/ ReconcileDeleting
    \/ ReconcileDeleted \/ ReconcileLive
    \/ CreateTiDBCloudClient \/ ValidateClusterAccess
    \/ RemoveExisting \/ AddNext \/ AllAdded
    \/ UpdateFails

Updates == \E err \in BOOLEAN :
    AddFinalizer(err) \/ DropFinalizer(err) \/ UpdateStatus(err)

UserStep ==
    \/ \E s \in Specs : Create(s) \/ Edit(s)
    \/ \E foreground \in BOOLEAN : Delete(foreground)

Environment ==
    \/ ReleaseForeign \/ Deliver \/ Resync
    \/ Tick \/ SecretChanges \/ CloudChanges \/ Crash \/ Restart

Next == Reconcile \/ Updates \/ UserStep \/ Environment

Spec == Init /\ [][Next]_vars

\* The worker and the watch run, a crashed operator is restarted by its
\* Deployment, seconds pass, and an update that is tried again and again
\* without conflict succeeds.  Users, the secret and the cloud do as they like.
Fairness ==
    /\ WF_vars(Reconcile \/ Updates)
    /\ SF_vars(Updates)
    /\ WF_vars(Deliver)
    /\ WF_vars(Restart)
    /\ WF_vars(ReleaseForeign)
    /\ WF_vars(Resync)
    /\ WF_vars(Tick)

FairSpec == Spec /\ Fairness

----------------------------------------------------------------------------
(* Properties.                                                             *)

\* The schedules that reconcileSchedules installs for a spec.
Wanted(s) ==
    {<<s, i>> : i \in {j \in DOMAIN Schedules[s] :
        /\ Schedules[s][j] = "add"
        /\ \A k \in 1..j : Schedules[s][k] # "refuse"}}

Alive == object.exists /\ ~object.del

\* Nothing is left to do: no version to deliver, no key queued, no worker busy.
Settled == up /\ pending = <<>> /\ ~dirty /\ worker = Idle

\* Schedules exist only while the API server holds the object with the
\* cleanup finalizer, so a deleted object, and the one created under its name,
\* never has schedules left over - however far the cache lags, whichever
\* updates conflict or are lost, and wherever the operator crashes.
\* (tidbclusterscheduler_controller.go "Remove all schedules before allowing
\* deletion")
SchedulesHaveFinalizer == installed # {} => object.exists /\ object.fin

Refused(s) == \E i \in DOMAIN Schedules[s] : Schedules[s][i] = "refuse"

\* When nothing is left to do, a Ready condition that speaks of the schedules
\* speaks of those of the current spec, and says the truth: all that ask for an
\* operation are installed, or one is refused and only those before it are.
\* (tidbclusterscheduler_controller.go Reconcile, reconcileSchedules)
SettledStatusIsTrue ==
    Settled /\ Alive /\ ready \in {"SchedulesActive", "ScheduleError"}
        => /\ installed = Wanted(object.spec)
           /\ ready = "ScheduleError" <=> Refused(object.spec)

\* Then every schedule that was admitted, and asks for an operation, is
\* installed.  (scaleschedule_validation_test.go "should accept @daily shortcut")
AdmittedTakesEffect ==
    Settled /\ Alive /\ ready \in {"SchedulesActive", "ScheduleError"}
        => \A i \in DOMAIN SchedulesOf[object.spec] :
              AsksForOperation(SchedulesOf[object.spec][i])
                  => <<object.spec, i>> \in installed

\* A deletion that users asked for completes, whatever edits, conflicts,
\* failed updates, crashes and cloud failures come first.
\* (tidbclusterscheduler_controller.go "Remove finalizer to allow deletion")
DeletionCompletes == object.exists /\ object.del ~> ~object.exists

\* Once the secret and the cloud stay available, the schedules of the current
\* spec are installed again and again: after an edit, a crash, a conflict or an
\* outage the service catches up.  (Again and again, not for good: every
\* reconciliation removes them before it adds them.)
\* (tidbclusterscheduler_controller.go Reconcile "move the current state of
\* the cluster closer to the desired state")
SpecTakesEffect ==
    <>[](secret /\ cloud) => []<>(~Alive \/ installed = Wanted(object.spec))

\* The refinement mapping, for one owner: its object is here while it has the
\* finalizer, and the controller is busy with it unless everything is settled.
Self == {"self"}

Held == object.exists /\ object.fin

HeldObject ==
    IF Held THEN [state |-> IF object.del THEN "deleting" ELSE "live",
                  spec |-> object.spec]
            ELSE [state |-> "absent"]

HeldObjects == [o \in Self |-> HeldObject]

Claims == [o \in Self |-> Held /\ ready = "SchedulesActive"]

Firing == [o \in Self |-> installed]

Outstanding == IF Settled THEN {} ELSE Self

Promise == INSTANCE ScheduledObjects WITH
    Owners <- Self,
    Jobs <- UNION {{s} \X DOMAIN Schedules[s] : s \in Specs},
    Complete <- [s \in Specs |-> {Wanted(s)}],
    object <- HeldObjects,
    claimed <- Claims,
    firing <- Firing,
    busy <- Outstanding

\* The controller keeps what the operator promises for its object: no schedule
\* is installed for an object without the finalizer, the finalizer goes only
\* with the schedules, and a status that claims them is written when they are
\* those of the spec that the object then has - however the cache lags, updates
\* conflict or their answers are lost, and wherever the operator crashes.
\* (tidbclusterscheduler_controller.go Reconcile "move the current state of
\* the cluster closer to the desired state")
KeepsPromise == Promise!Spec

\* LastTransitionTime moves only when the condition changes.
\* (api/v1/tidbclusterscheduler_types.go "Last time condition transitioned")
TransitionTimeIsTransition ==
    [][stamp = "past" /\ stamp' = "now" => ready' # ready]_vars

\* While the condition says that the schedules of the spec are active, they are,
\* if users leave the spec alone and the operator does not crash.
\* (tidbclusterscheduler_controller.go "All schedules are active and healthy")
ReadyMeansActive ==
    up /\ Alive /\ ready = "SchedulesActive" => installed = Wanted(object.spec)
=============================================================================
