------------------------------ MODULE Operator ------------------------------
(***************************************************************************)
(* The controller and the scheduler service together: the objects of        *)
(* several users, the work queue, the workers that reconcile them, and the  *)
(* one service in which all objects of the operator have their jobs.        *)
(*                                                                         *)
(* The service is TimezoneScheduler, of whose actions the steps of a worker *)
(* consist.  Of the controller this module keeps what the service sees.     *)
(* Left to Reconciler: the lagging cache, the finalizer (an object is here  *)
(* once it has it) and schedules that AddSchedule refuses.                  *)
(*                                                                         *)
(* Abstracted: a spec is its timezone and how many schedules it has; the    *)
(* work queue is a set, since nothing here depends on its order.            *)
(***************************************************************************)
EXTENDS TimezoneScheduler

CONSTANTS
    Specs,
    TimezoneOf,     \* the timezone of each spec
    SizeOf          \* the number of its schedules

ASSUME SpecsAssumption ==
    /\ TimezoneOf \in [Specs -> Timezones]
    /\ SizeOf \in [Specs -> Nat]

VARIABLES
    object,         \* the object of each owner in the API server, if any
    ready,          \* what its Ready condition says of it
    queue,          \* the owners whose keys are in the work queue
    reconciles      \* the reconciliation each worker is in, if any

controlVars == <<object, ready, queue, reconciles>>
operatorVars == <<vars, controlVars>>

----------------------------------------------------------------------------
Owners == Namespaces \X Names

Absent == [state |-> "absent"]
Objects == [state : {"live", "deleting"}, spec : Specs]

Live(o) == object[o].state = "live"

\* fresh: no one wrote the object since the worker read it.  From "active" and
\* "failed" the worker goes on to report just that.
Resting == [pc |-> "resting"]
Reconciliation == [pc : {"add", "active", "failed"}, owner : Owners,
                   spec : Specs, i : Nat \ {0}, fresh : BOOLEAN]

OperatorTypeOK ==
    /\ object \in [Owners -> {Absent} \cup Objects]
    /\ ready \in [Owners -> {"none", "active", "failed"}]
    /\ queue \subseteq Owners
    /\ reconciles \in [Workers -> {Resting} \cup Reconciliation]

Reconciles(w, o) == reconciles[w] # Resting /\ reconciles[w].owner = o

\* The work queue hands out no key that a worker still has.
BeingReconciled(o) == \E w \in Workers : Reconciles(w, o)

At(w, pc) == reconciles[w].pc = pc

OperatorInit ==
    /\ Init
    /\ object = [o \in Owners |-> Absent]
    /\ ready = [o \in Owners |-> "none"]
    /\ queue = {}
    /\ reconciles = [w \in Workers |-> Resting]

----------------------------------------------------------------------------
(* The users.                                                              *)

\* Every version comes to the queue, and makes the copies of it stale.
Write(o, v) ==
    /\ object' = [object EXCEPT ![o] = v]
    /\ queue' = queue \cup {o}
    /\ reconciles' = [w \in Workers |->
          IF Reconciles(w, o) THEN [reconciles[w] EXCEPT !.fresh = FALSE]
          ELSE reconciles[w]]
    /\ UNCHANGED vars

Admissible(o, s) == TimezoneOf[s] \in TimezonesOf[o[1]]

Create(o, s) ==
    /\ object[o] = Absent
    /\ Admissible(o, s)
    /\ Write(o, [state |-> "live", spec |-> s])
    /\ ready' = [ready EXCEPT ![o] = "none"]

Edit(o, s) ==
    /\ Live(o)
    /\ Admissible(o, s)
    /\ s # object[o].spec
    /\ Write(o, [state |-> "live", spec |-> s])
    /\ UNCHANGED ready

Delete(o) ==
    /\ Live(o)
    /\ Write(o, [object[o] EXCEPT !.state = "deleting"])
    /\ UNCHANGED ready

----------------------------------------------------------------------------
(* Reconcile.                                                              *)

Takes(w, o) ==
    /\ reconciles[w] = Resting
    /\ o \in queue
    /\ ~BeingReconciled(o)

\* Mutant of Clean: a deleted object's schedules stay.
CleanNothing(w, o, err) ==
    /\ Takes(w, o)
    /\ ~Live(o)
    /\ object' = IF err THEN object ELSE [object EXCEPT ![o] = Absent]
    /\ queue' = IF object[o] = Absent THEN queue \ {o} ELSE queue
    /\ UNCHANGED <<vars, ready, reconciles>>

\* The object is gone or on its way out.  The key comes back when the update
\* that drops the finalizer fails, and when the object goes.
Clean(w, o, err) ==
    /\ Takes(w, o)
    /\ ~Live(o)
    /\ RemoveAllSchedules(o[1], o[2])
    /\ object' = IF err THEN object ELSE [object EXCEPT ![o] = Absent]
    /\ queue' = IF object[o] = Absent THEN queue \ {o} ELSE queue
    /\ UNCHANGED <<ready, reconciles>>

\* Mutant of Proceeds: the loop over the schedules begins before the first.
ProceedsFromZero(w, o, pc) ==
    reconciles' = [reconciles EXCEPT ![w] =
        [pc |-> pc, owner |-> o, spec |-> object[o].spec, i |-> 0,
         fresh |-> TRUE]]

Proceeds(w, o, pc) ==
    reconciles' = [reconciles EXCEPT ![w] =
        [pc |-> pc, owner |-> o, spec |-> object[o].spec, i |-> 1,
         fresh |-> TRUE]]

\* No credentials, or no access to the cluster: the schedules stay as they are.
Decline(w, o) ==
    /\ Takes(w, o)
    /\ Live(o)
    /\ Proceeds(w, o, "failed")
    /\ queue' = queue \ {o}
    /\ UNCHANGED <<vars, object, ready>>

\* Mutant of Start: the schedules of the last reconciliation stay.
StartKeepingSchedules(w, o) ==
    /\ Takes(w, o)
    /\ Live(o)
    /\ Proceeds(w, o, "add")
    /\ queue' = queue \ {o}
    /\ UNCHANGED <<vars, object, ready>>

Start(w, o) ==
    /\ Takes(w, o)
    /\ Live(o)
    /\ RemoveAllSchedules(o[1], o[2])
    /\ Proceeds(w, o, "add")
    /\ queue' = queue \ {o}
    /\ UNCHANGED <<object, ready>>

\* AddSchedule for the next schedule of the spec, in its steps.
AddNext(w) ==
    /\ At(w, "add")
    /\ reconciles[w].i <= SizeOf[reconciles[w].spec]
    /\ AddSchedule(w, reconciles[w].owner[1], reconciles[w].owner[2],
                   TimezoneOf[reconciles[w].spec])
    /\ UNCHANGED controlVars

Insert(w) ==
    /\ AddFunc(w) \/ AssignEntryID(w)
    /\ UNCHANGED controlVars

Added(w) ==
    /\ TrackSchedule(w)
    /\ reconciles' = [reconciles EXCEPT ![w].i = @ + 1]
    /\ UNCHANGED <<object, ready, queue>>

AllAdded(w) ==
    /\ At(w, "add")
    /\ workers[w] = Idle
    /\ reconciles[w].i > SizeOf[reconciles[w].spec]
    /\ reconciles' = [reconciles EXCEPT ![w].pc = "active"]
    /\ UNCHANGED <<vars, object, ready, queue>>

Rest(w) == reconciles' = [reconciles EXCEPT ![w] = Resting]

\* Mutant of Report: the update does not care for the version it was read from.
ReportUnchecked(w, sameSecond) ==
    /\ At(w, "active") \/ At(w, "failed")
    /\ LET o == reconciles[w].owner IN
          /\ sameSecond => ready[o] = reconciles[w].pc
          /\ ready' = [ready EXCEPT ![o] = reconciles[w].pc]
          /\ queue' = IF sameSecond THEN queue ELSE queue \cup {o}
    /\ Rest(w)
    /\ UNCHANGED <<vars, object>>

\* updateStatus.  The update brings the key back to the queue, unless it changes
\* nothing: the same condition in the same second.
Report(w, sameSecond) ==
    /\ At(w, "active") \/ At(w, "failed")
    /\ reconciles[w].fresh
    /\ LET o == reconciles[w].owner IN
          /\ sameSecond => ready[o] = reconciles[w].pc
          /\ ready' = [ready EXCEPT ![o] = reconciles[w].pc]
          /\ queue' = IF sameSecond THEN queue ELSE queue \cup {o}
    /\ Rest(w)
    /\ UNCHANGED <<vars, object>>

\* A conflict, or another error of the API server.
ReportFails(w) ==
    /\ At(w, "active") \/ At(w, "failed")
    /\ queue' = queue \cup {reconciles[w].owner}
    /\ Rest(w)
    /\ UNCHANGED <<vars, object, ready>>

----------------------------------------------------------------------------
\* The informer's resync.
Resync(o) ==
    /\ object[o] # Absent
    /\ o \notin queue
    /\ queue' = queue \cup {o}
    /\ UNCHANGED <<vars, object, ready, reconciles>>

\* The process dies with its service; another starts and lists the objects.
Crash ==
    /\ schedulers' = [ns \in Namespaces |-> {}]
    /\ nextID' = [ns \in Namespaces |-> [tz \in Timezones |-> 0]]
    /\ entries' = {}
    /\ scheduleMap' = [ns \in Namespaces |-> [name \in Names |-> <<>>]]
    /\ executionMap' =
          [ns \in Namespaces |-> [id \in 0..MaxJobID |-> NoExecution]]
    /\ mu' = "free"
    /\ workers' = [w \in Workers |-> Idle]
    /\ runs' = [r \in Runs |-> NotRunning]
    /\ down' = FALSE
    /\ queue' = {o \in Owners : object[o] # Absent}
    /\ reconciles' = [w \in Workers |-> Resting]
    /\ UNCHANGED <<object, ready>>

UserStep ==
    \E o \in Owners :
        \/ \E s \in Specs : Create(o, s) \/ Edit(o, s)
        \/ Delete(o)

ReconcileStep ==
    \E w \in Workers :
        \/ \E o \in Owners :
              \/ \E err \in BOOLEAN : Clean(w, o, err)
              \/ Decline(w, o)
              \/ Start(w, o)
        \/ AddNext(w) \/ Insert(w) \/ Added(w) \/ AllAdded(w)
        \/ \E sameSecond \in BOOLEAN : Report(w, sameSecond)
        \/ ReportFails(w)

OperatorNext ==
    \/ UserStep
    \/ ReconcileStep
    \/ RunStep /\ UNCHANGED controlVars
    \/ \E o \in Owners : Resync(o)
    \/ Crash

OperatorSpec == OperatorInit /\ [][OperatorNext]_operatorVars

----------------------------------------------------------------------------
(* Properties.                                                             *)

AtRest(o) == o \notin queue /\ ~BeingReconciled(o)

EntriesOf(o) == {e \in entries : OwnedBy(e, o[1], o[2])}

\* The jobs of the owner that the service tracks, and the entries it can fire,
\* are one for each schedule of the spec, in the spec's timezone.
Firing(o, s) ==
    LET ids == scheduleMap[o[1]][o[2]] IN
    /\ Len(ids) = SizeOf[s]
    /\ \A j, k \in DOMAIN ids : ids[j] = ids[k] => j = k
    /\ {e.id : e \in EntriesOf(o)} = ToSet(ids)
    /\ \A e \in EntriesOf(o) : e.tz = TimezoneOf[s]

\* An object whose Ready condition says that its schedules are active, and that
\* waits for no reconciliation, has in the service a job for each schedule of
\* its current spec and no other, whatever is done meanwhile to the objects it
\* shares the service with.  Needs one timezone per namespace.
\* (tidbclusterscheduler_controller.go "All schedules are active and healthy")
ActiveMeansFiring ==
    \A o \in Owners :
        Live(o) /\ AtRest(o) /\ ready[o] = "active" => Firing(o, object[o].spec)

\* An object that is gone has no entry left in any cron instance, however its
\* deletion meets reconciliations that are half done, edits and crashes.
\* (tidbclusterscheduler_controller.go "Remove all schedules before allowing
\* deletion")
GoneMeansSilent ==
    \A o \in Owners : object[o] = Absent => EntriesOf(o) = {}

\* The refinement mapping: an owner's jobs are its entries, and the controller
\* is busy with an object that is queued or being reconciled.  The jobs that a
\* spec asks for are as many as its schedules, in its timezone.
CompleteJobs ==
    [s \in Specs |-> {J \in SUBSET Entry : /\ Cardinality(J) = SizeOf[s]
                                          /\ \A e \in J : e.tz = TimezoneOf[s]}]

Claims == [o \in Owners |-> object[o] # Absent /\ ready[o] = "active"]

FiringJobs == [o \in Owners |-> EntriesOf(o)]

Outstanding == {o \in Owners : ~AtRest(o)}

Promise == INSTANCE ScheduledObjects WITH
    Jobs <- Entry,
    Complete <- CompleteJobs,
    claimed <- Claims,
    firing <- FiringJobs,
    busy <- Outstanding

\* The operator keeps what it promises for every object, whatever becomes of the
\* others: its jobs change by its own reconciliations and by restarts only, a
\* status that claims them is reported when they are all there, and each write
\* of it is followed by a reconciliation.  Needs one timezone per namespace.
\* (tidbclusterscheduler_controller.go Reconcile "move the current state of
\* the cluster closer to the desired state")
KeepsPromise == Promise!Spec
=============================================================================
