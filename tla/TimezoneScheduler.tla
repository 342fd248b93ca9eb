------------------------- MODULE TimezoneScheduler -------------------------
(***************************************************************************)
(* The scheduler service of internal/services/scheduler/cron.go.           *)
(*                                                                         *)
(* The service keeps one cron instance per namespace and timezone.  Each   *)
(* cron instance numbers its entries 1, 2, 3, ... on its own; the service  *)
(* keeps the numbers it was given in scheduleMap (the jobs of each owner)  *)
(* and in executionMap (the outcome of each job's runs), both of them keyed *)
(* by namespace and number only.  An owner is a namespace and the name of  *)
(* a TiDBClusterScheduler object in it.                                    *)
(*                                                                         *)
(* A section of the code that runs under s.mu is one action, and needs the *)
(* mutex; AddSchedule, which is two such sections with a call of the cron  *)
(* library between them, is four actions of the worker that called it.     *)
(* The cron instances fire entries at any time, each run being a goroutine *)
(* of its own that competes with the workers for s.mu.                     *)
(*                                                                         *)
(* Abstracted: schedule expressions (only whether the validator accepts    *)
(* them), times, the operation type kept for logging, and ExecutionCount   *)
(* (only whether it is above zero).                                        *)
(***************************************************************************)
EXTENDS Naturals, FiniteSets, SequencesExt

CONSTANTS
    Namespaces,
    Names,          \* names of TiDBClusterScheduler objects, per namespace
    Timezones,
    TimezonesOf,    \* the timezones that the specs of a namespace use
    Workers,        \* goroutines that call the service
    Runs,           \* goroutines that cron starts, at most this many at once
    MaxJobID        \* bound: entries one cron instance ever numbers

ASSUME ConstantsAssumption ==
    /\ TimezonesOf \in [Namespaces -> SUBSET Timezones]
    /\ MaxJobID \in Nat

VARIABLES
    schedulers,     \* the timezones of each namespace that have a cron instance
    nextID,         \* the last number each cron instance gave out
    entries,        \* the entries that the cron instances hold
    scheduleMap,    \* the job IDs tracked for each owner, <<>> for none
    executionMap,   \* the execution record of each job ID of a namespace
    mu,             \* s.mu between two critical sections
    workers,        \* the AddSchedule call each worker is in, if any
    runs,           \* the goroutines that cron started
    down            \* Shutdown has run

vars == <<schedulers, nextID, entries, scheduleMap, executionMap, mu,
          workers, runs, down>>

serviceVars == <<schedulers, nextID, entries, scheduleMap>>

----------------------------------------------------------------------------
JobIDs == 1..MaxJobID

\* A cron entry, with the owner its callback was made for.
Entry == [ns : Namespaces, name : Names, tz : Timezones, id : JobIDs]

\* The entry of a call of AddSchedule; its number is 0 until cron gives one.
NewEntry == [ns : Namespaces, name : Names, tz : Timezones, id : 0..MaxJobID]

Idle == [pc |-> "idle"]
Call == [pc : {"addFunc", "assign", "track"}, entry : NewEntry]

\* A goroutine of cron: the job ID it read and whether the execution record
\* it points to is still the one in executionMap.
NotRunning == [phase |-> "idle"]
Run == [phase : {"fired", "begun", "callback"}, entry : Entry,
        id : 0..MaxJobID, ref : BOOLEAN]

\* executionMap[ns][id] is nil, or a record: `ran' is ExecutionCount > 0.
NoExecution == [present |-> FALSE, ran |-> FALSE, last |-> "none"]
NewExecution == [NoExecution EXCEPT !.present = TRUE]
Execution == [present : BOOLEAN, ran : BOOLEAN,
              last : {"none", "success", "panic"}]

TypeOK ==
    /\ schedulers \in [Namespaces -> SUBSET Timezones]
    /\ nextID \in [Namespaces -> [Timezones -> 0..MaxJobID]]
    /\ entries \subseteq Entry
    /\ scheduleMap \in [Namespaces -> [Names -> Seq(JobIDs)]]
    /\ executionMap \in [Namespaces -> [0..MaxJobID -> Execution]]
    /\ mu \in {"free", "abandoned"}
    /\ workers \in [Workers -> {Idle} \cup Call]
    /\ runs \in [Runs -> {NotRunning} \cup Run]
    /\ down \in BOOLEAN

----------------------------------------------------------------------------
OwnedBy(e, ns, name) == e.ns = ns /\ e.name = name

Tracked(ns, name) == ToSet(scheduleMap[ns][name])

\* The loop over the namespace's cron instances that removes an ID from each.
RemoveIDs(ns, ids) ==
    {e \in entries : ~(e.ns = ns /\ e.tz \in schedulers[ns] /\ e.id \in ids)}

ForgetIDs(ns, ids) ==
    [executionMap EXCEPT ![ns] =
        [id \in 0..MaxJobID |-> IF id \in ids THEN NoExecution ELSE @[id]]]

\* Runs that point to a record of these IDs keep a record no map holds.
Detached(ns, ids) ==
    [r \in Runs |->
        IF runs[r] # NotRunning /\ runs[r].entry.ns = ns /\ runs[r].id \in ids
        THEN [runs[r] EXCEPT !.ref = FALSE]
        ELSE runs[r]]

\* The controller never runs two reconciliations of one object at once.
Callable(ns, name) ==
    /\ mu = "free"
    /\ ~down
    /\ \A w \in Workers :
          workers[w] # Idle => ~OwnedBy(workers[w].entry, ns, name)

Init ==
    /\ schedulers = [ns \in Namespaces |-> {}]
    /\ nextID = [ns \in Namespaces |-> [tz \in Timezones |-> 0]]
    /\ entries = {}
    /\ scheduleMap = [ns \in Namespaces |-> [name \in Names |-> <<>>]]
    /\ executionMap =
          [ns \in Namespaces |-> [id \in 0..MaxJobID |-> NoExecution]]
    /\ mu = "free"
    /\ workers = [w \in Workers |-> Idle]
    /\ runs = [r \in Runs |-> NotRunning]
    /\ down = FALSE

----------------------------------------------------------------------------
(* AddSchedule.                                                            *)

GetOrCreateCronScheduler(ns, tz) ==
    schedulers' = [schedulers EXCEPT ![ns] = @ \cup {tz}]

\* The cron instance is created before the expression is looked at.
AddSchedule(w, ns, name, tz) ==
    /\ Callable(ns, name)
    /\ workers[w] = Idle
    /\ GetOrCreateCronScheduler(ns, tz)
    /\ workers' = [workers EXCEPT ![w] =
          [pc |-> "addFunc",
           entry |-> [ns |-> ns, name |-> name, tz |-> tz, id |-> 0]]]
    /\ UNCHANGED <<nextID, entries, scheduleMap, executionMap, mu, runs, down>>

\* The validator refuses the expression: the cron instance stays.  (A timezone
\* that does not exist is refused before, and changes nothing.)
RejectSchedule(w, ns, name, tz) ==
    /\ Callable(ns, name)
    /\ workers[w] = Idle
    /\ GetOrCreateCronScheduler(ns, tz)
    /\ UNCHANGED <<nextID, entries, scheduleMap, executionMap, mu, workers,
                   runs, down>>

\* Mutant of AddFunc: an error of cron is not looked at, so that number 0 is
\* tracked.
AddFuncUnchecked(w) ==
    /\ workers[w] # Idle
    /\ workers[w].pc = "addFunc"
    /\ workers' = [workers EXCEPT ![w].pc = "assign"]
    /\ UNCHANGED <<serviceVars, executionMap, mu, runs, down>>

\* cronScheduler.AddFunc: from here on the entry can fire.  No s.mu is held.
AddFunc(w) ==
    /\ workers[w] # Idle
    /\ workers[w].pc = "addFunc"
    /\ LET e == workers[w].entry IN
       LET id == nextID[e.ns][e.tz] + 1 IN
          /\ id <= MaxJobID
          /\ nextID' = [nextID EXCEPT ![e.ns][e.tz] = id]
          /\ entries' = entries \cup {[e EXCEPT !.id = id]}
          /\ workers' = [workers EXCEPT ![w] =
                [pc |-> "assign", entry |-> [e EXCEPT !.id = id]]]
    /\ UNCHANGED <<schedulers, scheduleMap, executionMap, mu, runs, down>>

\* The result of AddFunc reaches entryID, which the job's closure reads.
AssignEntryID(w) ==
    /\ workers[w] # Idle
    /\ workers[w].pc = "assign"
    /\ workers' = [workers EXCEPT ![w].pc = "track"]
    /\ UNCHANGED <<serviceVars, executionMap, mu, runs, down>>

\* The second critical section.  It overwrites an execution record that a
\* run of the new entry may have left already.
TrackSchedule(w) ==
    /\ mu = "free"
    /\ workers[w] # Idle
    /\ workers[w].pc = "track"
    /\ LET e == workers[w].entry IN
          /\ scheduleMap' =
                [scheduleMap EXCEPT ![e.ns][e.name] = Append(@, e.id)]
          /\ executionMap' = [executionMap EXCEPT ![e.ns][e.id] = NewExecution]
          /\ runs' = Detached(e.ns, {e.id})
    /\ workers' = [workers EXCEPT ![w] = Idle]
    /\ UNCHANGED <<schedulers, nextID, entries, mu, down>>

----------------------------------------------------------------------------
(* Removal and shutdown.                                                   *)

\* Mutant of RemoveSchedule: the number stays in the owner's list.
RemoveScheduleKeepingID(ns, name, id) ==
    /\ Callable(ns, name)
    /\ entries' = RemoveIDs(ns, {id})
    /\ executionMap' = ForgetIDs(ns, {id})
    /\ runs' = Detached(ns, {id})
    /\ UNCHANGED <<schedulers, nextID, scheduleMap, mu, workers, down>>

RemoveSchedule(ns, name, id) ==
    /\ Callable(ns, name)
    /\ scheduleMap' = [scheduleMap EXCEPT ![ns][name] = RemoveFirst(@, id)]
    /\ entries' = RemoveIDs(ns, {id})
    /\ executionMap' = ForgetIDs(ns, {id})
    /\ runs' = Detached(ns, {id})
    /\ UNCHANGED <<schedulers, nextID, mu, workers, down>>

\* Mutant of RemoveAllSchedules: the owner's list is not cleared.
RemoveAllKeepingList(ns, name) ==
    /\ Callable(ns, name)
    /\ entries' = RemoveIDs(ns, Tracked(ns, name))
    /\ executionMap' = ForgetIDs(ns, Tracked(ns, name))
    /\ runs' = Detached(ns, Tracked(ns, name))
    /\ UNCHANGED <<schedulers, nextID, scheduleMap, mu, workers, down>>

\* Mutant of RemoveAllSchedules: the list is cleared first, and nothing found.
RemoveAllClearingFirst(ns, name) ==
    /\ Callable(ns, name)
    /\ scheduleMap' = [scheduleMap EXCEPT ![ns][name] = <<>>]
    /\ UNCHANGED <<schedulers, nextID, entries, executionMap, mu, workers, runs,
                   down>>

RemoveAllSchedules(ns, name) ==
    /\ Callable(ns, name)
    /\ entries' = RemoveIDs(ns, Tracked(ns, name))
    /\ executionMap' = ForgetIDs(ns, Tracked(ns, name))
    /\ runs' = Detached(ns, Tracked(ns, name))
    /\ scheduleMap' = [scheduleMap EXCEPT ![ns][name] = <<>>]
    /\ UNCHANGED <<schedulers, nextID, mu, workers, down>>

\* Called once, after the manager and with it every worker has stopped.
\* Stopping a cron instance does not wait for the runs it started.
Shutdown ==
    /\ mu = "free"
    /\ ~down
    /\ \A w \in Workers : workers[w] = Idle
    /\ down' = TRUE
    /\ schedulers' = [ns \in Namespaces |-> {}]
    /\ nextID' = [ns \in Namespaces |-> [tz \in Timezones |-> 0]]
    /\ entries' = {}
    /\ scheduleMap' = [ns \in Namespaces |-> [name \in Names |-> <<>>]]
    /\ executionMap' =
          [ns \in Namespaces |-> [id \in 0..MaxJobID |-> NoExecution]]
    /\ runs' = [r \in Runs |-> IF runs[r] = NotRunning
                               THEN NotRunning
                               ELSE [runs[r] EXCEPT !.ref = FALSE]]
    /\ UNCHANGED <<mu, workers>>

----------------------------------------------------------------------------
(* The goroutines that cron starts.                                        *)

InPhase(r, phase) == runs[r] # NotRunning /\ runs[r].phase = phase

Holding(r) == InPhase(r, "begun") \/ InPhase(r, "callback")

Fire(r, e) ==
    /\ runs[r] = NotRunning
    /\ runs' = [runs EXCEPT ![r] =
          [phase |-> "fired", entry |-> e, id |-> 0, ref |-> FALSE]]
    /\ UNCHANGED <<serviceVars, executionMap, mu, workers, down>>

\* entryID, as the closure finds it: 0 until AddFunc's caller has stored it.
EntryIDOf(e) ==
    IF \E w \in Workers : workers[w] # Idle /\ workers[w].pc = "assign"
                                            /\ workers[w].entry = e
    THEN 0 ELSE e.id

\* Mutant of BeginRun: no DelayIfStillRunning in the chain.
BeginRunAtOnce(r) ==
    /\ InPhase(r, "fired")
    /\ runs' = [runs EXCEPT ![r].phase = "begun",
                            ![r].id = EntryIDOf(runs[r].entry)]
    /\ UNCHANGED <<serviceVars, executionMap, mu, workers, down>>

\* cron.DelayIfStillRunning: one run of an entry at a time.  Then the closure
\* reads entryID.
BeginRun(r) ==
    /\ InPhase(r, "fired")
    /\ \A q \in Runs : Holding(q) => runs[q].entry # runs[r].entry
    /\ runs' = [runs EXCEPT ![r].phase = "begun",
                            ![r].id = EntryIDOf(runs[r].entry)]
    /\ UNCHANGED <<serviceVars, executionMap, mu, workers, down>>

\* Mutant of RecordRun: the Unlock is missing.
RecordRunKeepingMutex(r) ==
    /\ mu = "free"
    /\ ~down
    /\ InPhase(r, "begun")
    /\ mu' = "abandoned"
    /\ executionMap' = [executionMap EXCEPT ![runs[r].entry.ns][runs[r].id] =
          [@ EXCEPT !.present = TRUE, !.ran = TRUE]]
    /\ runs' = [runs EXCEPT ![r].phase = "callback", ![r].ref = TRUE]
    /\ UNCHANGED <<serviceVars, workers, down>>

\* The first critical section of executeWithTracking.
RecordRun(r) ==
    /\ mu = "free"
    /\ ~down
    /\ InPhase(r, "begun")
    /\ executionMap' = [executionMap EXCEPT ![runs[r].entry.ns][runs[r].id] =
          [@ EXCEPT !.present = TRUE, !.ran = TRUE]]
    /\ runs' = [runs EXCEPT ![r].phase = "callback", ![r].ref = TRUE]
    /\ UNCHANGED <<serviceVars, mu, workers, down>>

\* After Shutdown the namespace's map is nil: the assignment panics while s.mu
\* is held and before the deferred function exists; cron recovers the panic.
RecordRunAfterShutdown(r) ==
    /\ mu = "free"
    /\ down
    /\ InPhase(r, "begun")
    /\ mu' = "abandoned"
    /\ runs' = [runs EXCEPT ![r] = NotRunning]
    /\ UNCHANGED <<serviceVars, executionMap, workers, down>>

\* Mutant of FinishRun: no deferred function records a panic.
FinishRunWithoutDefer(r, result) ==
    /\ mu = "free"
    /\ InPhase(r, "callback")
    /\ executionMap' = IF runs[r].ref /\ result = "success"
          THEN [executionMap EXCEPT ![runs[r].entry.ns][runs[r].id].last = result]
          ELSE executionMap
    /\ runs' = [runs EXCEPT ![r] = NotRunning]
    /\ UNCHANGED <<serviceVars, mu, workers, down>>

\* The callback returned or panicked; the result goes to the record found at
\* the start, which need not be in the map any more.
FinishRun(r, result) ==
    /\ mu = "free"
    /\ InPhase(r, "callback")
    /\ executionMap' = IF runs[r].ref
          THEN [executionMap EXCEPT ![runs[r].entry.ns][runs[r].id].last = result]
          ELSE executionMap
    /\ runs' = [runs EXCEPT ![r] = NotRunning]
    /\ UNCHANGED <<serviceVars, mu, workers, down>>

----------------------------------------------------------------------------
WorkerStep ==
    \E w \in Workers :
        \/ \E ns \in Namespaces, name \in Names : \E tz \in TimezonesOf[ns] :
              AddSchedule(w, ns, name, tz) \/ RejectSchedule(w, ns, name, tz)
        \/ AddFunc(w)
        \/ AssignEntryID(w)
        \/ TrackSchedule(w)

\* Assumed of the callers: an owner's numbers are passed to RemoveSchedule with
\* that owner's name.  The code looks at neither.
RemovalStep ==
    \E ns \in Namespaces, name \in Names :
        \/ RemoveAllSchedules(ns, name)
        \/ \E id \in Tracked(ns, name) : RemoveSchedule(ns, name, id)

RunStep ==
    \E r \in Runs :
        \/ \E e \in entries : Fire(r, e)
        \/ BeginRun(r)
        \/ RecordRun(r)
        \/ RecordRunAfterShutdown(r)
        \/ \E result \in {"success", "panic"} : FinishRun(r, result)

Next == WorkerStep \/ RemovalStep \/ RunStep \/ Shutdown

Spec == Init /\ [][Next]_vars

\* The Go scheduler runs every goroutine, and a callback ends because its
\* context expires after five minutes (tidbclusterscheduler_controller.go).
\* A delayed run waits for an entry's mutex, which other runs of the entry
\* hold now and then: sync.Mutex hands it to the longest waiter (its
\* starvation mode), hence strong fairness.  Nothing forces a schedule to
\* fire or a caller to call.
Fairness ==
    \A r \in Runs :
        /\ SF_vars(BeginRun(r))
        /\ WF_vars(RecordRun(r))
        /\ WF_vars(\E result \in {"success", "panic"} : FinishRun(r, result))

FairSpec == Spec /\ Fairness

----------------------------------------------------------------------------
(* What the queries of the service return.                                 *)

\* GetNextRun walks the namespace's cron instances in any order and answers
\* from the first that has an entry of this number.
FoundEntries(ns, id) ==
    {e \in entries : e.ns = ns /\ e.tz \in schedulers[ns] /\ e.id = id}

\* GetActiveSchedules lists, for each owner, its tracked numbers that it finds.
GetActiveSchedules(ns, name) ==
    {id \in Tracked(ns, name) : FoundEntries(ns, id) # {}}

----------------------------------------------------------------------------
(* Properties.                                                             *)

\* No namespace has specs in two timezones.  The README of the project does
\* not ask for this; several properties below hold only then.
OneTimezonePerNamespace ==
    \A ns \in Namespaces : \A s, t \in TimezonesOf[ns] : s = t

InsideAdd(e) ==
    \E w \in Workers : /\ workers[w] # Idle
                       /\ workers[w].pc \in {"assign", "track"}
                       /\ workers[w].entry = e

\* Every entry that can fire is tracked under its owner, so that the owner's
\* RemoveAllSchedules reaches it, or belongs to an AddSchedule that has not
\* returned.  A leaked entry would scale a cluster for ever.
\* (cron.go AddSchedule, RemoveSchedule, RemoveAllSchedules)
NoOrphan ==
    \A e \in entries : e.id \in Tracked(e.ns, e.name) \/ InsideAdd(e)

\* A job the service tracks for an owner still is an entry of that owner: it
\* was not removed behind the owner's back.  Needs one timezone per namespace.
\* (cron.go RemoveAllSchedules "removes all schedules for a scheduler")
TrackedIsLive ==
    \A ns \in Namespaces, name \in Names : \A id \in Tracked(ns, name) :
        \E e \in entries : OwnedBy(e, ns, name) /\ e.id = id

\* The queries answer from the owner's own entry: GetActiveSchedules lists
\* all of an owner's jobs, and the instance in which it and GetNextRun find a
\* number never has another owner's job under that number.
\* (cron.go GetNextRun, GetActiveSchedules "returns all active schedules for a
\* namespace")
LookupIsExact ==
    \A ns \in Namespaces, name \in Names :
        /\ GetActiveSchedules(ns, name) = Tracked(ns, name)
        /\ \A id \in Tracked(ns, name) : \A e \in FoundEntries(ns, id) :
              OwnedBy(e, ns, name)

\* Once a run of a tracked job is counted and no such run is left, its record
\* holds the result of a run, whatever removals, additions and panics
\* happened meanwhile.  (cron.go executeWithTracking)
FinishedRunHasResult ==
    \A ns \in Namespaces, id \in 0..MaxJobID :
        LET x == executionMap[ns][id] IN
        x.ran /\ x.last = "none" =>
            \E r \in Runs : /\ InPhase(r, "callback") /\ runs[r].ref
                            /\ runs[r].entry.ns = ns /\ runs[r].id = id

\* The refinement mapping: an owner's jobs are its entries, and a run executes
\* from the moment it holds its entry's mutex.
InstalledJobs ==
    [o \in Namespaces \X Names |-> {e \in entries : OwnedBy(e, o[1], o[2])}]

RunStates ==
    [r \in Runs |->
        IF runs[r] = NotRunning
        THEN [state |-> "free"]
        ELSE [state |-> IF runs[r].phase = "fired" THEN "waiting" ELSE "executing",
              job |-> runs[r].entry]]

Registry == INSTANCE ScheduleRegistry WITH
    Owners <- Namespaces \X Names,
    Jobs <- Entry,
    installed <- InstalledJobs,
    running <- RunStates,
    closed <- down

\* The service implements the registry it promises to be: an owner's jobs
\* change only by that owner's calls, and a job never runs twice at once.
\* Needs one timezone per namespace.
\* (cron.go SchedulerService, "Prevent overlapping runs")
ImplementsRegistry == Registry!Spec

\* A run that fired ends, however many runs of its entry and callers of the
\* service compete with it (unless the service is shut down under it).
\* (cron.go executeWithTracking, DelayIfStillRunning)
RunsEnd ==
    \A r \in Runs : runs[r] # NotRunning ~> runs[r] = NotRunning \/ down
=============================================================================
