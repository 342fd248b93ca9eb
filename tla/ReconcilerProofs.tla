-------------------------- MODULE ReconcilerProofs --------------------------
(***************************************************************************)
(* What holds of Reconciler for every set of specs, whatever the bounds:   *)
(* its type invariant, that only an object with the cleanup finalizer has  *)
(* schedules, that a settled status tells the truth, and that the          *)
(* controller keeps the promise ScheduledObjects for its object.           *)
(*                                                                         *)
(* The argument.  The newest version the operator has been sent is the     *)
(* object (Newest), so a reconciliation whose update does not conflict     *)
(* works on the object itself (FreshCopy).  A version with the finalizer   *)
(* and without a deletion timestamp is what makes the worker install       *)
(* schedules; as long as the cache, the watch or the worker holds one, the *)
(* object has the finalizer (VersionsBacked), because only the worker      *)
(* drops it, from a copy that is the object and is being deleted.          *)
(***************************************************************************)
EXTENDS Reconciler, TLAPS

\* A version that lets the worker install schedules.
Installable(v) == v.exists /\ v.fin /\ ~v.del

Installing == {"connect", "validate", "remove", "add"}

Newest == up => object = IF pending = <<>> THEN cache ELSE pending[Len(pending)]

DownIsEmpty == ~up => worker = Idle /\ pending = <<>> /\ installed = {}

FreshCopy ==
    fresh => /\ up
             /\ pending = <<>>
             /\ worker # Idle => worker.copy = object

CopyFits ==
    /\ worker.pc = "addFinalizer" => ~worker.copy.del
    /\ worker.pc = "dropFinalizer" => worker.copy.del /\ installed = {}
    /\ worker.pc \in Installing => Installable(worker.copy)

Backed == object.exists /\ object.fin

VersionsBacked ==
    /\ Installable(cache) => Backed
    /\ \A i \in DOMAIN pending : Installable(pending[i]) => Backed
    /\ worker # Idle /\ Installable(worker.copy) => Backed

FinalizerInv ==
    /\ TypeOK
    /\ Newest
    /\ DownIsEmpty
    /\ FreshCopy
    /\ CopyFits
    /\ VersionsBacked
    /\ SchedulesHaveFinalizer

----------------------------------------------------------------------------
(* Types.                                                                  *)

Versions == {Absent} \cup Version

LEMMA NothingPending == <<>> \in Seq({Absent} \cup Version)
OBVIOUS

LEMMA TailFacts ==
    ASSUME NEW S, NEW s \in Seq(S), s # <<>>
    PROVE  /\ Head(s) = s[1] /\ Head(s) \in S /\ 1 \in DOMAIN s
           /\ Tail(s) \in Seq(S)
           /\ Tail(s) = <<>> => Len(s) = 1
           /\ Tail(s) # <<>> => Tail(s)[Len(Tail(s))] = s[Len(s)]
           /\ \A i \in DOMAIN Tail(s) : i + 1 \in DOMAIN s /\ Tail(s)[i] = s[i + 1]
<1>1. Len(s) \in Nat /\ Len(s) >= 1 /\ DOMAIN s = 1..Len(s)
    OBVIOUS
<1>2. /\ Tail(s) \in Seq(S) /\ Len(Tail(s)) = Len(s) - 1
      /\ DOMAIN Tail(s) = 1..(Len(s) - 1)
      /\ \A i \in 1..(Len(s) - 1) : Tail(s)[i] = s[i + 1]
    BY <1>1
<1>3. Tail(s) = <<>> <=> Len(s) = 1
    BY <1>1, <1>2
<1>4. Head(s) = s[1] /\ Head(s) \in S
    BY <1>1
<1>5. Len(s) # 1 => Tail(s)[Len(Tail(s))] = s[Len(s)]
    BY <1>1, <1>2
<1>6. QED
    BY <1>1, <1>2, <1>3, <1>4, <1>5

LEMMA ExistingVersion ==
    ASSUME NEW v \in Versions, v.exists
    PROVE  v \in Version
BY DEF Versions, Absent

LEMMA VersionEdits ==
    ASSUME NEW v \in Version, NEW b \in BOOLEAN
    PROVE  /\ \A s \in Specs : /\ [v EXCEPT !.spec = s] \in Version
                               /\ [v EXCEPT !.spec = s].fin = v.fin
           /\ [v EXCEPT !.del = TRUE, !.foreign = b] \in Version
           /\ [v EXCEPT !.del = TRUE, !.foreign = b].fin = v.fin
           /\ [v EXCEPT !.foreign = FALSE] \in Version
           /\ [v EXCEPT !.foreign = FALSE].fin = v.fin
           /\ [v EXCEPT !.fin = b] \in Version
           /\ [v EXCEPT !.fin = b].fin = b
           /\ [v EXCEPT !.fin = b].del = v.del
BY DEF Version

LEMMA FinalizedType ==
    ASSUME NEW v \in Version
    PROVE  Finalized(v) \in Versions /\ (v.fin => Finalized(v) = v)
BY DEF Finalized, Versions

\* What every write of the object does to it and to the watch.
LEMMA WriteType ==
    ASSUME TypeOK, NEW v \in Versions, Write(v)
    PROVE  /\ object' \in {Absent} \cup Version
           /\ pending' \in Seq({Absent} \cup Version)
           /\ fresh' \in BOOLEAN
<1>1. pending \in Seq(Versions)
    BY DEF TypeOK, Versions
<1>2. Append(pending, v) \in Seq(Versions)
    BY <1>1
<1>3. QED
    BY <1>1, <1>2 DEF Write, Versions

LEMMA WorkerType ==
    ASSUME TypeOK, worker # Idle
    PROVE  /\ worker.copy \in Version /\ worker.copy.spec \in Specs
           /\ worker.pc \in {"addFinalizer", "dropFinalizer", "connect",
                             "validate", "remove", "add", "status"}
           /\ worker.pc # "status" => worker \in Busy /\ worker.i \in Nat
           /\ worker.pc = "status" => worker \in Reporting
                                      /\ worker.reason \in Reasons
BY DEF TypeOK, Busy, Reporting, Version

LEMMA IdleType ==
    TypeOK => (worker.pc = "idle" <=> worker = Idle)
BY DEF TypeOK, Idle, Busy, Reporting

LEMMA ProceedType ==
    ASSUME worker \in Busy,
           NEW pc \in {"connect", "validate", "remove", "add"}, NEW i \in Nat,
           Proceed(pc, i)
    PROVE  /\ worker' \in Busy
           /\ worker'.pc = pc /\ worker'.i = i /\ worker'.copy = worker.copy
BY DEF Proceed, Busy

LEMMA ReportType ==
    ASSUME worker \in Busy, NEW reason \in Reasons, Report(reason)
    PROVE  /\ worker' \in Reporting
           /\ worker'.pc = "status" /\ worker'.reason = reason
           /\ worker'.copy = worker.copy
BY DEF Report, Busy, Reporting

LEMMA StepToType ==
    ASSUME cache \in Version,
           NEW pc \in {"addFinalizer", "dropFinalizer", "connect"}, StepTo(pc)
    PROVE  worker' \in Busy /\ worker'.pc = pc /\ worker'.copy = cache
BY DEF StepTo, Busy

----------------------------------------------------------------------------
(* What the steps do, in the terms of the invariant.                       *)

\* A write by the API server: v is what the object becomes, and either every
\* version with the finalizer stays backed, or there is none left.
WriteStep(v) ==
    /\ v \in Versions
    /\ Write(v)
    /\ UNCHANGED <<cache, installed, up>>
    /\ worker' = Idle \/ worker' = worker
    /\ \/ Backed => v.exists /\ v.fin
       \/ /\ ~Installable(cache)
          /\ pending = <<>>
          /\ worker' = Idle
          /\ installed = {}

\* A step of the worker on its copy, or one that ends its reconciliation.
WorkerStep ==
    /\ worker # Idle
    /\ UNCHANGED <<object, pending, cache, fresh, up>>
    /\ \/ worker' = Idle /\ installed' = installed
       \/ /\ worker' \in Reporting
          /\ worker'.copy = worker.copy
          /\ installed' # installed => worker.pc = "add"
       \/ /\ worker' \in Busy
          /\ worker'.copy = worker.copy
          /\ worker.pc \in Installing
          /\ worker'.pc \in Installing

LEMMA WriteKeepsFinalizerInv ==
    ASSUME FinalizerInv, TypeOK', NEW v, WriteStep(v)
    PROVE  FinalizerInv'
<1>1. pending \in Seq(Versions) /\ up \in BOOLEAN
    BY DEF FinalizerInv, TypeOK, Versions
<1>2. /\ object' = v /\ cache' = cache /\ fresh' = FALSE /\ up' = up
      /\ installed' = installed
    BY DEF WriteStep, Write
<1>3. up => /\ pending' # <<>>
            /\ pending'[Len(pending')] = v
            /\ \A i \in DOMAIN pending' :
                  \/ i \in DOMAIN pending /\ pending'[i] = pending[i]
                  \/ pending'[i] = v
    <2>1. v \in Versions
        BY DEF WriteStep
    <2> DEFINE p == Append(pending, v)
    <2>2. /\ p # <<>> /\ p[Len(p)] = v
          /\ \A i \in DOMAIN p :
                \/ i \in DOMAIN pending /\ p[i] = pending[i]
                \/ p[i] = v
        BY <1>1, <2>1
    <2>3. up => pending' = p
        BY DEF WriteStep, Write
    <2> HIDE DEF p
    <2>4. QED
        BY <2>2, <2>3
<1>4. ~up => pending' = pending
    BY DEF WriteStep, Write
<1>5. Newest'
    BY <1>2, <1>3 DEF Newest
<1>6. DownIsEmpty' /\ FreshCopy'
    BY <1>2, <1>4 DEF DownIsEmpty, FreshCopy, FinalizerInv, WriteStep
<1>7. CopyFits'
    BY <1>2 DEF CopyFits, FinalizerInv, WriteStep, Idle, Installing
<1>8. VersionsBacked' /\ SchedulesHaveFinalizer'
    <2>1. CASE Backed => v.exists /\ v.fin
        <3>1. Backed => Backed'
            BY <1>2, <2>1 DEF Backed
        <3>2. Installable(v) => Backed'
            BY <1>2 DEF Installable, Backed
        <3>3. Installable(cache') => Backed'
            BY <1>2, <3>1 DEF FinalizerInv, VersionsBacked
        <3>4. ASSUME NEW i \in DOMAIN pending', Installable(pending'[i])
              PROVE  Backed'
            <4>1. CASE up
                BY <1>3, <3>1, <3>2, <3>4, <4>1 DEF FinalizerInv, VersionsBacked
            <4>2. CASE ~up
                BY <1>1, <1>4, <3>1, <3>4, <4>2 DEF FinalizerInv, VersionsBacked
            <4>3. QED
                BY <4>1, <4>2
        <3>5. worker' # Idle /\ Installable(worker'.copy) => Backed'
            BY <3>1 DEF WriteStep, FinalizerInv, VersionsBacked
        <3>6. SchedulesHaveFinalizer'
            BY <1>2, <3>1 DEF FinalizerInv, SchedulesHaveFinalizer, Backed
        <3>7. VersionsBacked'
            BY <3>3, <3>4, <3>5 DEF VersionsBacked, Installable
        <3>8. QED
            BY <3>6, <3>7
    <2>2. CASE /\ ~Installable(cache)
               /\ pending = <<>>
               /\ worker' = Idle
               /\ installed = {}
        <3>1. Installable(v) => Backed'
            BY <1>2 DEF Installable, Backed
        <3>2. \A i \in DOMAIN pending' : pending'[i] = v
            BY <1>3, <1>4, <2>2, <1>1
        <3>3. VersionsBacked'
            BY <1>2, <2>2, <3>1, <3>2 DEF VersionsBacked, Installable
        <3>4. QED
            BY <1>2, <2>2, <3>3 DEF SchedulesHaveFinalizer
    <2>3. QED
        BY <2>1, <2>2 DEF WriteStep
<1>9. QED
    BY <1>5, <1>6, <1>7, <1>8 DEF FinalizerInv

LEMMA WorkerKeepsFinalizerInv ==
    ASSUME FinalizerInv, TypeOK', WorkerStep
    PROVE  FinalizerInv'
<1>1. /\ object' = object /\ pending' = pending /\ cache' = cache
      /\ fresh' = fresh /\ up' = up /\ worker # Idle
    BY DEF WorkerStep
<1>2. worker' # Idle => worker'.copy = worker.copy
    BY DEF WorkerStep
<1>3. up
    BY <1>1 DEF FinalizerInv, DownIsEmpty
<1>4. Newest' /\ DownIsEmpty' /\ FreshCopy'
    BY <1>1, <1>2, <1>3 DEF Newest, DownIsEmpty, FreshCopy, FinalizerInv
<1>5. VersionsBacked'
    BY <1>1, <1>2 DEF VersionsBacked, Backed, FinalizerInv
<1>6. installed' # installed => worker.pc \in Installing
    BY DEF WorkerStep, Installing
<1>7. CopyFits'
    BY <1>2 DEF CopyFits, WorkerStep, FinalizerInv, Installing, Idle, Busy,
                Reporting
<1>8. SchedulesHaveFinalizer'
    BY <1>1, <1>6 DEF SchedulesHaveFinalizer, FinalizerInv, CopyFits,
                      VersionsBacked, Backed
<1>9. QED
    BY <1>4, <1>5, <1>7, <1>8 DEF FinalizerInv

LEMMA InitFinalizerInv == Init => FinalizerInv
<1> SUFFICES ASSUME Init PROVE FinalizerInv
    OBVIOUS
<1>1. TypeOK
    BY NothingPending DEF Init, TypeOK
<1>2. Newest /\ DownIsEmpty /\ FreshCopy /\ CopyFits /\ SchedulesHaveFinalizer
    BY DEF Init, Newest, DownIsEmpty, FreshCopy, CopyFits, Idle, Installing,
           SchedulesHaveFinalizer
<1>3. VersionsBacked
    BY DEF Init, VersionsBacked, Installable, Absent
<1>4. QED
    BY <1>1, <1>2, <1>3 DEF FinalizerInv

LEMMA UserKeepsFinalizerInv ==
    ASSUME FinalizerInv, UserStep \/ ReleaseForeign
    PROVE  FinalizerInv'
<1>1. TypeOK /\ object \in Versions
    BY DEF FinalizerInv, TypeOK, Versions
<1>2. ASSUME NEW s \in Specs, Create(s) PROVE FinalizerInv'
    <2> DEFINE v == [exists |-> TRUE, spec |-> s, fin |-> FALSE,
                     foreign |-> FALSE, del |-> FALSE]
    <2>1. v \in Versions
        BY DEF Versions, Version
    <2>2. WriteStep(v) /\ ~Backed
        BY <1>2, <2>1 DEF Create, UserWrite, WriteStep, Backed
    <2> HIDE DEF v
    <2>3. TypeOK'
        BY <1>1, <1>2, <2>1, <2>2, WriteType
           DEF Create, UserWrite, WriteStep, TypeOK
    <2>4. QED
        BY <2>2, <2>3, WriteKeepsFinalizerInv
<1>3. ASSUME NEW s \in Specs, Edit(s) PROVE FinalizerInv'
    <2> DEFINE v == [object EXCEPT !.spec = s]
    <2>1. object \in Version
        BY <1>1, <1>3, ExistingVersion DEF Edit
    <2>2. v \in Version /\ v.fin = object.fin /\ v.exists
        BY <2>1, VersionEdits DEF Version
    <2>3. Write(v) /\ UNCHANGED <<cache, worker, installed, up>>
        BY <1>3 DEF Edit, UserWrite
    <2> HIDE DEF v
    <2>4. WriteStep(v)
        BY <2>2, <2>3 DEF WriteStep, Backed, Versions
    <2>5. TypeOK'
        BY <1>1, <1>3, <2>4, WriteType DEF Edit, UserWrite, WriteStep, TypeOK
    <2>6. QED
        BY <2>4, <2>5, WriteKeepsFinalizerInv
<1>4. ASSUME NEW b \in BOOLEAN, Delete(b) PROVE FinalizerInv'
    <2> DEFINE u == [object EXCEPT !.del = TRUE, !.foreign = b]
               v == Finalized(u)
    <2>1. object \in Version
        BY <1>1, <1>4, ExistingVersion DEF Delete
    <2>2. u \in Version /\ u.fin = object.fin /\ u.exists
        BY <2>1, VersionEdits DEF Version
    <2>3. Write(v) /\ UNCHANGED <<cache, worker, installed, up>>
        BY <1>4 DEF Delete, UserWrite
    <2> HIDE DEF u
    <2>4. v \in Versions /\ (u.fin => v = u)
        BY <2>2, FinalizedType
    <2> HIDE DEF v
    <2>5. WriteStep(v)
        BY <2>2, <2>3, <2>4 DEF WriteStep, Backed
    <2>6. TypeOK'
        BY <1>1, <1>4, <2>5, WriteType DEF Delete, UserWrite, WriteStep, TypeOK
    <2>7. QED
        BY <2>5, <2>6, WriteKeepsFinalizerInv
<1>5. ASSUME ReleaseForeign PROVE FinalizerInv'
    <2> DEFINE u == [object EXCEPT !.foreign = FALSE]
               v == Finalized(u)
    <2>1. object \in Version
        BY <1>1, <1>5, ExistingVersion DEF ReleaseForeign
    <2>2. u \in Version /\ u.fin = object.fin /\ u.exists
        BY <2>1, VersionEdits DEF Version
    <2>3. Write(v) /\ UNCHANGED <<cache, worker, installed, up>>
        BY <1>5 DEF ReleaseForeign, envVars
    <2> HIDE DEF u
    <2>4. v \in Versions /\ (u.fin => v = u)
        BY <2>2, FinalizedType
    <2> HIDE DEF v
    <2>5. WriteStep(v)
        BY <2>2, <2>3, <2>4 DEF WriteStep, Backed
    <2>6. TypeOK'
        BY <1>1, <1>5, <2>5, WriteType DEF ReleaseForeign, envVars, WriteStep, TypeOK
    <2>7. QED
        BY <2>5, <2>6, WriteKeepsFinalizerInv
<1>6. QED
    BY <1>2, <1>3, <1>4, <1>5 DEF UserStep

\* The worker's updates that take effect.
LEMMA UpdatesKeepFinalizerInv ==
    ASSUME FinalizerInv, Updates
    PROVE  FinalizerInv'
<1>1. TypeOK /\ object \in Versions
    BY DEF FinalizerInv, TypeOK, Versions
<1>2. PICK err \in BOOLEAN :
          AddFinalizer(err) \/ DropFinalizer(err) \/ UpdateStatus(err)
    BY DEF Updates
<1>3. fresh /\ worker # Idle
    BY <1>2 DEF AddFinalizer, DropFinalizer, UpdateFinalizer, UpdateStatus, At, Idle
<1>4. /\ object = worker.copy /\ object \in Version /\ object.exists
      /\ pending = <<>> /\ up
    BY <1>1, <1>3, WorkerType DEF FinalizerInv, FreshCopy, Version
<1>5. cache = object
    BY <1>4 DEF FinalizerInv, Newest
<1>6. /\ worker' = Idle /\ dirty' \in BOOLEAN
      /\ UNCHANGED <<cache, installed, envVars>>
    BY <1>1, <1>2 DEF AddFinalizer, DropFinalizer, UpdateFinalizer,
                      UpdateStatus, Return, TypeOK
<1>7. CASE AddFinalizer(err)
    <2> DEFINE v == [object EXCEPT !.fin = TRUE]
    <2>1. v \in Version /\ v.fin /\ v.exists
        BY <1>4, VersionEdits DEF Version
    <2>2. Write(v) /\ UNCHANGED <<ready, stamp>>
        BY <1>7 DEF AddFinalizer, UpdateFinalizer
    <2> HIDE DEF v
    <2>3. WriteStep(v)
        BY <1>6, <2>1, <2>2 DEF WriteStep, Versions, envVars
    <2>4. TypeOK'
        BY <1>1, <1>6, <2>2, <2>3, WriteType DEF WriteStep, TypeOK, envVars
    <2>5. QED
        BY <2>3, <2>4, WriteKeepsFinalizerInv
<1>8. CASE DropFinalizer(err)
    <2> DEFINE u == [object EXCEPT !.fin = FALSE]
               v == Finalized(u)
    <2>1. u \in Version
        BY <1>4, VersionEdits
    <2>2. Write(v) /\ UNCHANGED <<ready, stamp>>
        BY <1>8 DEF DropFinalizer, UpdateFinalizer
    <2>3. ~Installable(cache) /\ installed = {}
        BY <1>4, <1>5, <1>8 DEF DropFinalizer, UpdateFinalizer, At, Installable,
                               FinalizerInv, CopyFits
    <2> HIDE DEF u
    <2>4. v \in Versions
        BY <2>1, FinalizedType
    <2> HIDE DEF v
    <2>5. WriteStep(v)
        BY <1>4, <1>6, <2>2, <2>3, <2>4 DEF WriteStep, envVars
    <2>6. TypeOK'
        BY <1>1, <1>6, <2>2, <2>5, WriteType DEF WriteStep, TypeOK, envVars
    <2>7. QED
        BY <2>5, <2>6, WriteKeepsFinalizerInv
<1>9. CASE UpdateStatus(err)
    <2>1. worker.reason \in Reasons
        BY <1>1, <1>3, <1>9, WorkerType DEF UpdateStatus, At
    <2>2. CASE ready = worker.reason /\ stamp = "now"
        <3>1. UNCHANGED <<apiVars, fresh>>
            BY <1>9, <2>2 DEF UpdateStatus
        <3>2. TypeOK'
            BY <1>1, <1>6, <3>1 DEF TypeOK, apiVars, envVars
        <3>3. WorkerStep
            BY <1>3, <1>6, <3>1 DEF WorkerStep, apiVars, envVars
        <3>4. QED
            BY <3>2, <3>3, WorkerKeepsFinalizerInv
    <2>3. CASE ~(ready = worker.reason /\ stamp = "now")
        <3>1. Write(object) /\ ready' = worker.reason /\ stamp' = "now"
            BY <1>9, <2>3 DEF UpdateStatus
        <3>2. WriteStep(object)
            BY <1>1, <1>6, <3>1 DEF WriteStep, Backed, envVars
        <3>3. TypeOK'
            BY <1>1, <1>6, <2>1, <3>1, <3>2, WriteType
               DEF WriteStep, TypeOK, envVars
        <3>4. QED
            BY <3>2, <3>3, WriteKeepsFinalizerInv
    <2>4. QED
        BY <2>2, <2>3
<1>10. QED
    BY <1>2, <1>7, <1>8, <1>9

\* The watch and the rest of the environment.
LEMMA EnvironmentKeepsFinalizerInv ==
    ASSUME FinalizerInv, Environment
    PROVE  FinalizerInv'
<1>1. TypeOK
    BY DEF FinalizerInv
<1>2. CASE ReleaseForeign
    BY <1>2, UserKeepsFinalizerInv
<1>3. CASE Deliver
    <2>1. /\ up /\ pending # <<>>
          /\ cache' = Head(pending) /\ pending' = Tail(pending)
          /\ UNCHANGED <<object, worker, fresh, installed, up>>
        BY <1>3 DEF Deliver, envVars
    <2>2. pending \in Seq(Versions)
        BY <1>1 DEF TypeOK, Versions
    <2>3. /\ cache' = pending[1] /\ 1 \in DOMAIN pending
          /\ cache' \in Versions /\ pending' \in Seq(Versions)
          /\ pending' = <<>> => Len(pending) = 1
          /\ pending' # <<>> => pending'[Len(pending')] = pending[Len(pending)]
          /\ \A i \in DOMAIN pending' :
                i + 1 \in DOMAIN pending /\ pending'[i] = pending[i + 1]
        BY <2>1, <2>2, TailFacts
    <2>4. TypeOK'
        BY <1>1, <1>3, <2>3 DEF TypeOK, Deliver, envVars, Versions
    <2>5. Newest'
        BY <2>1, <2>3 DEF Newest, FinalizerInv
    <2>6. DownIsEmpty' /\ FreshCopy' /\ CopyFits' /\ SchedulesHaveFinalizer'
        BY <2>1 DEF DownIsEmpty, FreshCopy, CopyFits, SchedulesHaveFinalizer,
                    FinalizerInv
    <2>7. VersionsBacked'
        BY <2>1, <2>3 DEF VersionsBacked, Backed, Installable, FinalizerInv
    <2>8. QED
        BY <2>4, <2>5, <2>6, <2>7 DEF FinalizerInv
<1>4. CASE Resync \/ Tick \/ SecretChanges \/ CloudChanges
    <2>1. UNCHANGED <<object, pending, cache, worker, fresh, installed, up>>
        BY <1>4 DEF Resync, Tick, SecretChanges, CloudChanges, apiVars,
                    operatorVars, envVars
    <2>2. TypeOK'
        BY <1>1, <1>4 DEF TypeOK, Resync, Tick, SecretChanges, CloudChanges,
                          apiVars, operatorVars, envVars
    <2>3. QED
        BY <2>1, <2>2 DEF FinalizerInv, Newest, DownIsEmpty, FreshCopy, CopyFits,
                          VersionsBacked, Backed, SchedulesHaveFinalizer
<1>5. CASE Crash
    <2>1. /\ up' = FALSE /\ pending' = <<>> /\ cache' = Absent /\ worker' = Idle
          /\ fresh' = FALSE /\ installed' = {} /\ object' = object
        BY <1>5 DEF Crash
    <2>2. TypeOK'
        <3>1. crashes' \in Nat /\ dirty' = FALSE
              /\ UNCHANGED <<ready, stamp, secret, cloud, writes>>
            BY <1>1, <1>5 DEF TypeOK, Crash
        <3>2. pending' \in Seq({Absent} \cup Version)
            BY <2>1, NothingPending
        <3>3. worker' \in {Idle} \cup Busy \cup Reporting
              /\ cache' \in {Absent} \cup Version /\ installed' \subseteq Specs \X Nat
            BY <2>1
        <3>4. QED
            BY <1>1, <2>1, <3>1, <3>2, <3>3 DEF TypeOK
    <2>3. Newest' /\ DownIsEmpty' /\ FreshCopy' /\ CopyFits'
          /\ SchedulesHaveFinalizer'
        BY <2>1 DEF Newest, DownIsEmpty, FreshCopy, CopyFits, Idle, Installing,
                    SchedulesHaveFinalizer
    <2>4. VersionsBacked'
        BY <2>1 DEF VersionsBacked, Installable, Absent
    <2>5. QED
        BY <2>2, <2>3, <2>4 DEF FinalizerInv
<1>6. CASE Restart
    <2>1. /\ ~up /\ up' = TRUE /\ cache' = object
          /\ UNCHANGED <<object, pending, worker, fresh, installed>>
        BY <1>6 DEF Restart, apiVars
    <2>2. worker = Idle /\ pending = <<>> /\ installed = {} /\ ~fresh
        BY <2>1 DEF FinalizerInv, DownIsEmpty, FreshCopy
    <2>3. TypeOK'
        <3>1. object.exists \in BOOLEAN
            <4>1. \A v \in Version : v.exists = TRUE
                BY DEF Version
            <4>2. Absent.exists = FALSE
                BY DEF Absent
            <4>3. QED
                BY <1>1, <4>1, <4>2 DEF TypeOK
        <3>2. QED
            BY <1>1, <1>6, <3>1 DEF TypeOK, Restart, apiVars
    <2>4. Newest' /\ DownIsEmpty' /\ FreshCopy' /\ CopyFits'
          /\ SchedulesHaveFinalizer'
        BY <2>1, <2>2 DEF Newest, DownIsEmpty, FreshCopy, CopyFits, Idle,
                          Installing, SchedulesHaveFinalizer
    <2>5. VersionsBacked'
        BY <2>1, <2>2 DEF VersionsBacked, Installable, Backed
    <2>6. QED
        BY <2>3, <2>4, <2>5 DEF FinalizerInv
<1>7. QED
    BY <1>2, <1>3, <1>4, <1>5, <1>6 DEF Environment

\* The worker takes the key.
LEMMA TakeKeyKeepsFinalizerInv ==
    ASSUME FinalizerInv,
           \/ ReconcileMissing \/ ReconcileNew \/ ReconcileDeleting
           \/ ReconcileDeleted \/ ReconcileLive
    PROVE  FinalizerInv'
<1>1. /\ TypeOK /\ up /\ worker = Idle
      /\ UNCHANGED <<object, pending, cache, up>>
      /\ fresh' = (pending = <<>>) /\ dirty' = FALSE
      /\ UNCHANGED <<apiVars, envVars>>
    BY DEF ReconcileMissing, ReconcileNew, ReconcileDeleting, ReconcileDeleted,
           ReconcileLive, TakeKey, FinalizerInv, apiVars, envVars
<1>2. installed' = {} \/ installed' = installed
    BY DEF ReconcileMissing, ReconcileNew, ReconcileDeleting, ReconcileDeleted,
           ReconcileLive
<1>3. worker' = Idle \/
          /\ cache \in Version /\ worker' \in Busy /\ worker'.copy = cache
          /\ \/ worker'.pc = "addFinalizer" /\ ~cache.del
             \/ worker'.pc = "dropFinalizer" /\ cache.del /\ installed' = {}
             \/ worker'.pc = "connect" /\ Installable(cache)
    <2>1. cache.exists => cache \in Version
        BY <1>1, ExistingVersion DEF TypeOK, Versions
    <2>2. CASE ReconcileMissing \/ ReconcileDeleted
        BY <1>1, <2>2 DEF ReconcileMissing, ReconcileDeleted
    <2>3. CASE ReconcileNew \/ ReconcileDeleting \/ ReconcileLive
        BY <2>1, <2>3, StepToType
           DEF ReconcileNew, ReconcileDeleting, ReconcileLive, Installable
    <2>4. QED
        BY <2>2, <2>3
<1>4. TypeOK'
    BY <1>1, <1>2, <1>3 DEF TypeOK, apiVars, envVars
<1>5. Newest' /\ DownIsEmpty' /\ SchedulesHaveFinalizer'
    BY <1>1, <1>2 DEF Newest, DownIsEmpty, SchedulesHaveFinalizer, FinalizerInv
<1>6. FreshCopy'
    BY <1>1, <1>3 DEF FreshCopy, Newest, FinalizerInv
<1>7. CopyFits'
    BY <1>3 DEF CopyFits, Idle, Installing, Installable
<1>8. VersionsBacked'
    BY <1>1, <1>3 DEF VersionsBacked, Backed, FinalizerInv
<1>9. QED
    BY <1>4, <1>5, <1>6, <1>7, <1>8 DEF FinalizerInv

\* The worker's steps between the reading and the writing of the object.
LEMMA WorkingKeepsFinalizerInv ==
    ASSUME FinalizerInv,
           \/ CreateTiDBCloudClient \/ ValidateClusterAccess \/ RemoveExisting
           \/ AddNext \/ AllAdded \/ UpdateFails
    PROVE  FinalizerInv'
<1>1. /\ TypeOK /\ worker # Idle
      /\ UNCHANGED <<apiVars, cache, fresh, envVars>>
      /\ dirty' \in BOOLEAN
    <2>1. TypeOK /\ dirty \in BOOLEAN
        BY DEF FinalizerInv, TypeOK
    <2>2. worker.pc # "idle"
        BY DEF CreateTiDBCloudClient, ValidateClusterAccess, RemoveExisting,
               AddNext, AllAdded, UpdateFails, At
    <2>3. UNCHANGED <<apiVars, cache, fresh, envVars>>
        BY DEF CreateTiDBCloudClient, ValidateClusterAccess, RemoveExisting,
               AddNext, AllAdded, UpdateFails, Return
    <2>4. dirty' = dirty \/ dirty' = TRUE
        BY <2>1 DEF CreateTiDBCloudClient, ValidateClusterAccess, RemoveExisting,
                    AddNext, AllAdded, UpdateFails, Return
    <2>5. worker # Idle
        BY <2>2 DEF Idle
    <2>6. dirty' \in BOOLEAN
        BY <2>1, <2>4
    <2>7. QED
        BY <2>1, <2>3, <2>5, <2>6
<1>2. /\ UNCHANGED <<object, pending, cache, fresh, up>>
      /\ worker \in Busy \cup Reporting
    BY <1>1 DEF apiVars, envVars, TypeOK
<1>3. ASSUME WorkerStep, installed' \in SUBSET (Specs \X Nat) PROVE FinalizerInv'
    <2>1. worker' \in {Idle} \cup Busy \cup Reporting
        BY <1>3 DEF WorkerStep
    <2>2. TypeOK'
        BY <1>1, <1>3, <2>1 DEF TypeOK, apiVars, envVars
    <2>3. QED
        BY <1>3, <2>2, WorkerKeepsFinalizerInv
<1>4. installed \subseteq Specs \X Nat
    BY <1>1 DEF TypeOK
<1>5. CASE CreateTiDBCloudClient \/ ValidateClusterAccess
    <2>1. /\ worker \in Busy /\ worker.pc \in Installing /\ installed' = installed
          /\ \/ Proceed("validate", 1) \/ Proceed("remove", 1)
             \/ Report("CredentialError") \/ Report("ClusterValidationFailed")
        BY <1>1, <1>5, WorkerType
           DEF CreateTiDBCloudClient, ValidateClusterAccess, At, Installing
    <2>2. worker'.copy = worker.copy
          /\ (worker' \in Reporting \/ (worker' \in Busy /\ worker'.pc \in Installing))
        <3>1. "CredentialError" \in Reasons /\ "ClusterValidationFailed" \in Reasons
            BY DEF Reasons, Failures
        <3>2. 1 \in Nat
            OBVIOUS
        <3>3. QED
            BY <2>1, <3>1, <3>2, ProceedType, ReportType DEF Installing
    <2>3. WorkerStep
        BY <1>1, <1>2, <2>1, <2>2 DEF WorkerStep
    <2>4. QED
        BY <1>3, <1>4, <2>1, <2>3
<1>6. CASE RemoveExisting
    <2>1. /\ worker \in Busy /\ worker.pc \in Installing /\ installed' = {}
          /\ Proceed("add", 1)
        BY <1>1, <1>6, WorkerType DEF RemoveExisting, At, Installing
    <2>2. worker'.copy = worker.copy /\ worker' \in Busy /\ worker'.pc \in Installing
        BY <2>1, ProceedType DEF Installing
    <2>3. WorkerStep
        BY <1>1, <1>2, <2>1, <2>2 DEF WorkerStep
    <2>4. QED
        BY <1>3, <2>1, <2>3
<1>7. CASE AddNext
    <2> DEFINE s == worker.copy.spec
    <2>1. /\ worker \in Busy /\ worker.pc = "add" /\ worker.i \in Nat /\ s \in Specs
          /\ installed' = installed \/ installed' = installed \cup {<<s, worker.i>>}
          /\ Report("ScheduleError") \/ Proceed("add", worker.i + 1)
        BY <1>1, <1>7, WorkerType DEF AddNext, At
    <2>2. worker'.copy = worker.copy
          /\ (worker' \in Reporting \/ (worker' \in Busy /\ worker'.pc \in Installing))
        <3>1. "ScheduleError" \in Reasons
            BY DEF Reasons, Failures
        <3>2. worker.i + 1 \in Nat
            BY <2>1
        <3>3. QED
            BY <2>1, <3>1, <3>2, ProceedType, ReportType DEF Installing
    <2>3. WorkerStep
        BY <1>1, <1>2, <2>1, <2>2 DEF WorkerStep, Installing
    <2>4. installed' \in SUBSET (Specs \X Nat)
        BY <1>4, <2>1
    <2>5. QED
        BY <1>3, <2>3, <2>4
<1>8. CASE AllAdded
    <2>1. /\ worker \in Busy /\ installed' = installed /\ Report("SchedulesActive")
        BY <1>1, <1>8, WorkerType DEF AllAdded, At
    <2>2. worker' \in Reporting /\ worker'.copy = worker.copy
        BY <2>1, ReportType DEF Reasons
    <2>3. WorkerStep
        BY <1>1, <1>2, <2>1, <2>2 DEF WorkerStep
    <2>4. QED
        BY <1>3, <1>4, <2>1, <2>3
<1>9. CASE UpdateFails
    <2>1. worker' = Idle /\ installed' = installed
        BY <1>9 DEF UpdateFails, Return
    <2>2. WorkerStep
        BY <1>1, <1>2, <2>1 DEF WorkerStep
    <2>3. QED
        BY <1>3, <1>4, <2>1, <2>2
<1>10. QED
    BY <1>5, <1>6, <1>7, <1>8, <1>9

LEMMA NextFinalizerInv == FinalizerInv /\ [Next]_vars => FinalizerInv'
<1> SUFFICES ASSUME FinalizerInv, [Next]_vars PROVE FinalizerInv'
    OBVIOUS
<1>1. CASE UNCHANGED vars
    BY <1>1 DEF vars, apiVars, operatorVars, envVars, FinalizerInv, TypeOK, Newest,
                DownIsEmpty, FreshCopy, CopyFits, VersionsBacked, Backed,
                SchedulesHaveFinalizer
<1>2. CASE Next
    BY <1>2, UserKeepsFinalizerInv, UpdatesKeepFinalizerInv,
       EnvironmentKeepsFinalizerInv, TakeKeyKeepsFinalizerInv,
       WorkingKeepsFinalizerInv DEF Next, Reconcile
<1>3. QED
    BY <1>1, <1>2

\* The reconciler's variables keep their types.
THEOREM TypeCorrect == Spec => []TypeOK
<1>1. FinalizerInv => TypeOK
    BY DEF FinalizerInv
<1>2. QED
    BY <1>1, InitFinalizerInv, NextFinalizerInv, PTL DEF Spec

\* Whatever specs users write, however far the cache lags and wherever updates
\* conflict or the operator crashes, an object without the cleanup finalizer,
\* and a deleted one, has no schedules.
THEOREM OnlyFinalizedHaveSchedules == Spec => []SchedulesHaveFinalizer
<1>1. FinalizerInv => SchedulesHaveFinalizer
    BY DEF FinalizerInv
<1>2. QED
    BY <1>1, InitFinalizerInv, NextFinalizerInv, PTL DEF Spec

----------------------------------------------------------------------------
(* The status.  A reconciliation that reports on the schedules has the     *)
(* schedules of its copy installed; the controller comes to rest only      *)
(* after a status update that changes nothing, and such an update, which   *)
(* did not conflict, was made from a copy that is the object.              *)

\* What the worker has installed of its copy's spec before schedule i.
InstalledBefore(s, i) ==
    {<<s, j>> : j \in {k \in DOMAIN Schedules[s] :
                          k < i /\ Schedules[s][k] = "add"}}

AddedSoFar ==
    worker.pc = "add" =>
        /\ worker.i \in 1..(Len(Schedules[worker.copy.spec]) + 1)
        /\ \A k \in 1..(worker.i - 1) :
              Schedules[worker.copy.spec][k] # "refuse"
        /\ installed = InstalledBefore(worker.copy.spec, worker.i)

ReportsTruth ==
    worker.pc = "status" /\ worker.reason \in {"SchedulesActive", "ScheduleError"}
        => /\ installed = Wanted(worker.copy.spec)
           /\ worker.reason = "ScheduleError" <=> Refused(worker.copy.spec)

StatusInv == AddedSoFar /\ ReportsTruth /\ SettledStatusIsTrue

LEMMA ScheduleKinds ==
    ASSUME NEW s \in Specs
    PROVE  DOMAIN Schedules[s] = 1..Len(Schedules[s]) /\ Len(Schedules[s]) \in Nat
BY SchedulesAssumption DEF Schedules

LEMMA AddOne ==
    ASSUME NEW s \in Specs, NEW i \in DOMAIN Schedules[s]
    PROVE  InstalledBefore(s, i + 1) =
              IF Schedules[s][i] = "add"
              THEN InstalledBefore(s, i) \cup {<<s, i>>}
              ELSE InstalledBefore(s, i)
<1>1. DOMAIN Schedules[s] = 1..Len(Schedules[s]) /\ Len(Schedules[s]) \in Nat
    BY ScheduleKinds
<1>2. \A k \in DOMAIN Schedules[s] : k < i + 1 <=> k < i \/ k = i
    BY <1>1
<1>3. QED
    BY <1>2 DEF InstalledBefore

LEMMA StopBefore ==
    ASSUME NEW s \in Specs, NEW i \in 1..(Len(Schedules[s]) + 1),
           \A k \in 1..(i - 1) : Schedules[s][k] # "refuse",
           i \in DOMAIN Schedules[s] => Schedules[s][i] = "refuse"
    PROVE  /\ InstalledBefore(s, i) = Wanted(s)
           /\ Refused(s) <=> i \in DOMAIN Schedules[s]
<1>1. DOMAIN Schedules[s] = 1..Len(Schedules[s]) /\ Len(Schedules[s]) \in Nat
    BY ScheduleKinds
<1>2. ASSUME NEW j \in DOMAIN Schedules[s]
      PROVE  j < i <=> \A k \in 1..j : Schedules[s][k] # "refuse"
    <2>1. j < i => \A k \in 1..j : k \in 1..(i - 1)
        BY <1>1
    <2>2. ~(j < i) => i \in DOMAIN Schedules[s] /\ i \in 1..j
        BY <1>1
    <2>3. QED
        BY <2>1, <2>2
<1>3. {j \in DOMAIN Schedules[s] : j < i /\ Schedules[s][j] = "add"} =
        {j \in DOMAIN Schedules[s] : /\ Schedules[s][j] = "add"
                                     /\ \A k \in 1..j : Schedules[s][k] # "refuse"}
    BY <1>2
<1>4. i \notin DOMAIN Schedules[s] => DOMAIN Schedules[s] = 1..(i - 1)
    BY <1>1
<1>5. QED
    BY <1>3, <1>4 DEF InstalledBefore, Wanted, Refused

\* A step after which something is left to do, and the worker is not at work
\* on schedules that the step has changed.
LEMMA UnsettledKeepsStatusInv ==
    ASSUME StatusInv, ~Settled',
           \/ UNCHANGED <<worker, installed>>
           \/ worker'.pc \notin {"add", "status"}
           \/ /\ worker'.pc = "status"
              /\ worker'.reason \notin {"SchedulesActive", "ScheduleError"}
    PROVE  StatusInv'
<1>1. SettledStatusIsTrue'
    BY DEF SettledStatusIsTrue
<1>2. AddedSoFar' /\ ReportsTruth'
    BY DEF StatusInv, AddedSoFar, ReportsTruth
<1>3. QED
    BY <1>1, <1>2 DEF StatusInv

LEMMA WriteUnsettles ==
    ASSUME FinalizerInv, NEW v \in Versions, Write(v), up' = up
    PROVE  ~Settled'
<1>1. pending \in Seq(Versions)
    BY DEF FinalizerInv, TypeOK, Versions
<1>2. Len(Append(pending, v)) = Len(pending) + 1 /\ Len(pending) \in Nat
    BY <1>1
<1>3. Append(pending, v) # <<>>
    BY <1>2
<1>4. QED
    BY <1>3 DEF Write, Settled

LEMMA InitStatusInv == Init => StatusInv
BY DEF Init, StatusInv, AddedSoFar, ReportsTruth, SettledStatusIsTrue, Alive,
       Absent, Idle

LEMMA AddingKeepsStatusInv ==
    ASSUME FinalizerInv, StatusInv, AddNext \/ AllAdded
    PROVE  StatusInv'
<1> DEFINE s == worker.copy.spec
           i == worker.i
<1>1. /\ worker \in Busy /\ worker.pc = "add" /\ s \in Specs /\ worker # Idle
    <2>1. TypeOK /\ worker # Idle
        BY DEF FinalizerInv, AddNext, AllAdded, At, Idle
    <2>2. QED
        BY <2>1, WorkerType DEF AddNext, AllAdded, At
<1>2. /\ i \in 1..(Len(Schedules[s]) + 1)
      /\ \A k \in 1..(i - 1) : Schedules[s][k] # "refuse"
      /\ installed = InstalledBefore(s, i)
    BY <1>1 DEF StatusInv, AddedSoFar
<1>3. DOMAIN Schedules[s] = 1..Len(Schedules[s]) /\ Len(Schedules[s]) \in Nat
    BY <1>1, ScheduleKinds
<1>4. i \in Nat /\ i + 1 \in Nat
    BY <1>2, <1>3
<1>5. CASE AddNext /\ Schedules[s][i] # "refuse"
    <2>1. /\ i \in DOMAIN Schedules[s] /\ Proceed("add", i + 1)
          /\ installed' = IF Schedules[s][i] = "add"
                          THEN installed \cup {<<s, i>>} ELSE installed
        BY <1>5 DEF AddNext
    <2>2. worker'.pc = "add" /\ worker'.i = i + 1 /\ worker'.copy = worker.copy
          /\ worker' \in Busy
        BY <1>1, <1>4, <2>1, ProceedType
    <2>3. installed' = InstalledBefore(s, i + 1)
        BY <1>1, <1>2, <2>1, AddOne
    <2>4. /\ i + 1 \in 1..(Len(Schedules[s]) + 1)
          /\ \A k \in 1..i : Schedules[s][k] # "refuse"
        <3>1. i <= Len(Schedules[s])
            BY <1>3, <2>1
        <3>2. \A k \in 1..i : k \in 1..(i - 1) \/ k = i
            BY <1>4
        <3>3. QED
            BY <1>2, <1>3, <1>4, <1>5, <3>1, <3>2
    <2>5. AddedSoFar'
        <3>1. worker'.copy.spec = s /\ worker'.i - 1 = i /\ worker'.i = i + 1
            BY <1>4, <2>2
        <3>2. installed' = InstalledBefore(worker'.copy.spec, worker'.i)
            BY <2>3, <3>1
        <3>3. /\ worker'.i \in 1..(Len(Schedules[worker'.copy.spec]) + 1)
              /\ \A k \in 1..(worker'.i - 1) :
                    Schedules[worker'.copy.spec][k] # "refuse"
            BY <2>4, <3>1
        <3>4. QED
            BY <3>2, <3>3 DEF AddedSoFar, InstalledBefore
    <2>6. ~Settled'
        BY <2>2 DEF Settled, Idle
    <2>7. QED
        BY <2>2, <2>5, <2>6 DEF StatusInv, ReportsTruth, SettledStatusIsTrue
<1>6. CASE AllAdded \/ (AddNext /\ Schedules[s][i] = "refuse")
    <2>1. /\ installed' = installed
          /\ \/ Report("SchedulesActive") /\ i \notin DOMAIN Schedules[s]
             \/ Report("ScheduleError") /\ i \in DOMAIN Schedules[s]
        BY <1>6 DEF AllAdded, AddNext
    <2>2. i \in DOMAIN Schedules[s] => Schedules[s][i] = "refuse"
        BY <1>6 DEF AllAdded
    <2>3. /\ worker' \in Reporting /\ worker'.pc = "status"
          /\ worker'.copy = worker.copy
          /\ worker'.reason = "ScheduleError" <=> i \in DOMAIN Schedules[s]
        BY <1>1, <2>1, ReportType DEF Reasons, Failures
    <2>4. installed' = Wanted(s) /\ (Refused(s) <=> i \in DOMAIN Schedules[s])
        BY <1>1, <1>2, <2>1, <2>2, StopBefore
    <2>5. ~Settled'
        BY <2>3 DEF Settled, Idle
    <2>6. QED
        BY <2>3, <2>4, <2>5
           DEF StatusInv, AddedSoFar, ReportsTruth, SettledStatusIsTrue, Wanted, Refused
<1>7. QED
    BY <1>5, <1>6

LEMMA UpdatesKeepStatusInv ==
    ASSUME FinalizerInv, StatusInv, Updates
    PROVE  StatusInv'
<1>1. TypeOK /\ object \in Versions
    BY DEF FinalizerInv, TypeOK, Versions
<1>2. PICK err \in BOOLEAN :
          AddFinalizer(err) \/ DropFinalizer(err) \/ UpdateStatus(err)
    BY DEF Updates
<1>3. fresh /\ worker # Idle
    BY <1>2 DEF AddFinalizer, DropFinalizer, UpdateFinalizer, UpdateStatus, At, Idle
<1>4. object = worker.copy /\ object \in Version
    BY <1>1, <1>3, WorkerType DEF FinalizerInv, FreshCopy
<1>5. worker' = Idle /\ UNCHANGED <<cache, installed, up>>
    BY <1>2 DEF AddFinalizer, DropFinalizer, UpdateFinalizer, UpdateStatus,
                Return, envVars
<1>6. worker'.pc \notin {"add", "status"}
    BY <1>5 DEF Idle
<1>7. ASSUME NEW v \in Versions, Write(v) PROVE StatusInv'
    BY <1>5, <1>6, <1>7, WriteUnsettles, UnsettledKeepsStatusInv
<1>8. CASE AddFinalizer(err)
    <2>1. [object EXCEPT !.fin = TRUE] \in Versions
        BY <1>4, VersionEdits DEF Versions
    <2>2. Write([object EXCEPT !.fin = TRUE])
        BY <1>8 DEF AddFinalizer, UpdateFinalizer
    <2>3. QED
        BY <1>7, <2>1, <2>2
<1>9. CASE DropFinalizer(err)
    <2>1. [object EXCEPT !.fin = FALSE] \in Version
        BY <1>4, VersionEdits
    <2>2. Finalized([object EXCEPT !.fin = FALSE]) \in Versions
        BY <2>1, FinalizedType
    <2>3. Write(Finalized([object EXCEPT !.fin = FALSE]))
        BY <1>9 DEF DropFinalizer, UpdateFinalizer
    <2>4. QED
        BY <1>7, <2>2, <2>3
<1>10. CASE UpdateStatus(err)
    <2>1. CASE Write(object)
        BY <1>1, <1>7, <2>1
    <2>2. CASE ready = worker.reason /\ UNCHANGED apiVars
        <3>1. object' = object /\ ready' = worker.reason /\ worker.pc = "status"
            BY <1>10, <2>2 DEF apiVars, UpdateStatus, At
        <3>2. SettledStatusIsTrue'
            BY <1>4, <1>5, <3>1
               DEF SettledStatusIsTrue, StatusInv, ReportsTruth, Wanted, Refused
        <3>3. QED
            BY <1>6, <3>2 DEF StatusInv, AddedSoFar, ReportsTruth
    <2>3. QED
        BY <1>10, <2>1, <2>2 DEF UpdateStatus
<1>11. QED
    BY <1>2, <1>8, <1>9, <1>10

LEMMA NextStatusInv == FinalizerInv /\ StatusInv /\ [Next]_vars => StatusInv'
<1> SUFFICES ASSUME FinalizerInv, StatusInv, [Next]_vars PROVE StatusInv'
    OBVIOUS
<1>1. TypeOK /\ object \in Versions
    BY DEF FinalizerInv, TypeOK, Versions
<1>2. CASE UNCHANGED vars
    BY <1>2 DEF vars, apiVars, operatorVars, envVars, StatusInv, AddedSoFar,
                ReportsTruth, SettledStatusIsTrue, Settled, Alive
<1>3. CASE UserStep \/ ReleaseForeign
    <2>1. UNCHANGED <<worker, installed, up>>
        BY <1>3 DEF UserStep, Create, Edit, Delete, UserWrite, ReleaseForeign, envVars
    <2>2. PICK v \in Versions : Write(v)
        <3>1. ASSUME NEW s \in Specs, Create(s) PROVE \E v \in Versions : Write(v)
            <4>1. [exists |-> TRUE, spec |-> s, fin |-> FALSE, foreign |-> FALSE,
                   del |-> FALSE] \in Versions
                BY DEF Versions, Version
            <4>2. QED
                BY <3>1, <4>1 DEF Create, UserWrite
        <3>2. ASSUME NEW s \in Specs, Edit(s) PROVE \E v \in Versions : Write(v)
            <4>1. [object EXCEPT !.spec = s] \in Versions
                BY <1>1, <3>2, ExistingVersion, VersionEdits DEF Edit, Versions
            <4>2. QED
                BY <3>2, <4>1 DEF Edit, UserWrite
        <3>3. ASSUME NEW b \in BOOLEAN, Delete(b) PROVE \E v \in Versions : Write(v)
            <4>1. [object EXCEPT !.del = TRUE, !.foreign = b] \in Version
                BY <1>1, <3>3, ExistingVersion, VersionEdits DEF Delete
            <4>2. Finalized([object EXCEPT !.del = TRUE, !.foreign = b]) \in Versions
                BY <4>1, FinalizedType
            <4>3. QED
                BY <3>3, <4>2 DEF Delete, UserWrite
        <3>4. ASSUME ReleaseForeign PROVE \E v \in Versions : Write(v)
            <4>1. [object EXCEPT !.foreign = FALSE] \in Version
                BY <1>1, <3>4, ExistingVersion, VersionEdits DEF ReleaseForeign
            <4>2. Finalized([object EXCEPT !.foreign = FALSE]) \in Versions
                BY <4>1, FinalizedType
            <4>3. QED
                BY <3>4, <4>2 DEF ReleaseForeign
        <3>5. QED
            BY <1>3, <3>1, <3>2, <3>3, <3>4 DEF UserStep
    <2>3. ~Settled'
        BY <2>1, <2>2, WriteUnsettles
    <2>4. QED
        BY <2>1, <2>3, UnsettledKeepsStatusInv
<1>4. CASE Deliver \/ Resync
    <2>1. UNCHANGED <<worker, installed>> /\ dirty' = TRUE
        BY <1>4 DEF Deliver, Resync
    <2>2. QED
        BY <2>1, UnsettledKeepsStatusInv DEF Settled
<1>5. CASE Tick \/ SecretChanges \/ CloudChanges
    BY <1>5 DEF Tick, SecretChanges, CloudChanges, apiVars, operatorVars, envVars,
                StatusInv, AddedSoFar, ReportsTruth, SettledStatusIsTrue, Settled,
                Alive
<1>6. CASE Crash
    <2>1. worker' = Idle /\ up' = FALSE
        BY <1>6 DEF Crash
    <2>2. QED
        BY <2>1, UnsettledKeepsStatusInv DEF Settled, Idle
<1>7. CASE Restart
    <2>1. /\ UNCHANGED <<worker, installed>> /\ object' = object
          /\ dirty' = object.exists
        BY <1>7 DEF Restart, apiVars
    <2>2. SettledStatusIsTrue'
        BY <2>1 DEF SettledStatusIsTrue, Settled, Alive
    <2>3. QED
        BY <2>1, <2>2 DEF StatusInv, AddedSoFar, ReportsTruth
<1>8. CASE ReconcileMissing \/ ReconcileDeleted
    <2>1. /\ worker' = Idle /\ UNCHANGED <<object, pending, cache>>
          /\ up
          /\ cache.exists => cache.del
        BY <1>8 DEF ReconcileMissing, ReconcileDeleted, TakeKey, apiVars
    <2>2. SettledStatusIsTrue'
        BY <2>1 DEF SettledStatusIsTrue, Settled, Alive, FinalizerInv, Newest
    <2>3. QED
        BY <2>1, <2>2 DEF StatusInv, AddedSoFar, ReportsTruth, Idle
<1>9. CASE ReconcileNew \/ ReconcileDeleting \/ ReconcileLive
    <2>1. worker'.pc \in {"addFinalizer", "dropFinalizer", "connect"}
        BY <1>9 DEF ReconcileNew, ReconcileDeleting, ReconcileLive, StepTo
    <2>2. QED
        BY <2>1, UnsettledKeepsStatusInv DEF Settled, Idle
<1>10. CASE CreateTiDBCloudClient \/ ValidateClusterAccess
    <2>1. worker \in Busy
        <3>1. worker # Idle
            BY <1>10 DEF CreateTiDBCloudClient, ValidateClusterAccess, At, Idle
        <3>2. QED
            BY <1>1, <1>10, <3>1, WorkerType
               DEF CreateTiDBCloudClient, ValidateClusterAccess, At
    <2>2. \/ Proceed("validate", 1) \/ Proceed("remove", 1)
          \/ Report("CredentialError") \/ Report("ClusterValidationFailed")
        BY <1>10 DEF CreateTiDBCloudClient, ValidateClusterAccess
    <2>3. \/ worker'.pc \in {"validate", "remove"}
          \/ /\ worker'.pc = "status"
             /\ worker'.reason \in {"CredentialError", "ClusterValidationFailed"}
        BY <2>1, <2>2, ProceedType, ReportType DEF Reasons, Failures
    <2>4. worker' # Idle
        BY <2>3 DEF Idle
    <2>5. QED
        BY <2>3, <2>4, UnsettledKeepsStatusInv DEF Settled
<1>11. CASE RemoveExisting
    <2>1. /\ worker \in Busy /\ worker.copy.spec \in Specs
        <3>1. worker # Idle
            BY <1>11 DEF RemoveExisting, At, Idle
        <3>2. QED
            BY <1>1, <1>11, <3>1, WorkerType DEF RemoveExisting, At
    <2>2. /\ installed' = {} /\ worker'.pc = "add" /\ worker'.i = 1
          /\ worker'.copy = worker.copy
        BY <1>11, <2>1, ProceedType DEF RemoveExisting
    <2>3. InstalledBefore(worker.copy.spec, 1) = {}
        BY <2>1, ScheduleKinds DEF InstalledBefore
    <2>4. 1 \in 1..(Len(Schedules[worker.copy.spec]) + 1) /\ 1..(1 - 1) = {}
        BY <2>1, ScheduleKinds
    <2>5. AddedSoFar'
        BY <2>2, <2>3, <2>4 DEF AddedSoFar, InstalledBefore
    <2>6. QED
        BY <2>2, <2>5 DEF StatusInv, ReportsTruth, SettledStatusIsTrue, Settled, Idle
<1>12. CASE AddNext \/ AllAdded
    BY <1>12, AddingKeepsStatusInv
<1>13. CASE UpdateFails
    <2>1. worker' = Idle /\ dirty' = TRUE
        BY <1>13 DEF UpdateFails, Return
    <2>2. QED
        BY <2>1, UnsettledKeepsStatusInv DEF Settled, Idle
<1>14. CASE Updates
    BY <1>14, UpdatesKeepStatusInv
<1>15. QED
    BY <1>2, <1>3, <1>4, <1>5, <1>6, <1>7, <1>8, <1>9, <1>10, <1>11, <1>12,
       <1>13, <1>14 DEF Next, Reconcile, Environment

\* A controller that has nothing left to do shows a status that is true: the
\* schedules of the current spec are those the condition speaks of.
THEOREM SettledStatusTrue == Spec => []SettledStatusIsTrue
<1>1. Init => FinalizerInv /\ StatusInv
    BY InitFinalizerInv, InitStatusInv
<1>2. FinalizerInv /\ StatusInv /\ [Next]_vars => FinalizerInv' /\ StatusInv'
    BY NextFinalizerInv, NextStatusInv
<1>3. StatusInv => SettledStatusIsTrue
    BY DEF StatusInv
<1>4. QED
    BY <1>1, <1>2, <1>3, PTL DEF Spec

----------------------------------------------------------------------------
(* The promise.                                                            *)

\* What the refinement needs besides: a worker reports on an object that lets it
\* install schedules, and no status has been written for an object that has yet
\* to get its finalizer.
ReportsInstallable == worker.pc = "status" => Installable(worker.copy)

NewIsSilent ==
    object.exists /\ ~object.fin /\ ~object.del => ready = "none"

ReportInv == ReportsInstallable /\ NewIsSilent

LEMMA UserKeepsReportInv ==
    ASSUME FinalizerInv, ReportInv, UserStep \/ ReleaseForeign
    PROVE  ReportInv'
<1>1. object \in Versions /\ worker' = worker
    BY DEF FinalizerInv, TypeOK, Versions, UserStep, Create, Edit, Delete, UserWrite,
           ReleaseForeign
<1>2. ASSUME NEW s \in Specs, Create(s) PROVE NewIsSilent'
    BY <1>2 DEF Create, NewIsSilent
<1>3. ASSUME NEW s \in Specs, Edit(s) PROVE NewIsSilent'
    <2>1. object \in Version
        BY <1>1, <1>3, ExistingVersion DEF Edit
    <2>2. object' = [object EXCEPT !.spec = s] /\ ready' = ready /\ object.exists
        BY <1>3 DEF Edit, UserWrite, Write
    <2>3. object'.fin = object.fin /\ object'.del = object.del
        BY <2>1, <2>2 DEF Version
    <2>4. QED
        BY <2>2, <2>3 DEF ReportInv, NewIsSilent
<1>4. ASSUME NEW b \in BOOLEAN, Delete(b) PROVE NewIsSilent'
    <2> DEFINE u == [object EXCEPT !.del = TRUE, !.foreign = b]
    <2>1. object \in Version
        BY <1>1, <1>4, ExistingVersion DEF Delete
    <2>2. u.del
        BY <2>1 DEF Version
    <2>3. object' = Finalized(u)
        BY <1>4 DEF Delete, UserWrite, Write
    <2> HIDE DEF u
    <2>4. QED
        BY <2>2, <2>3 DEF NewIsSilent, Finalized, Absent
<1>5. ASSUME ReleaseForeign PROVE NewIsSilent'
    <2> DEFINE u == [object EXCEPT !.foreign = FALSE]
    <2>1. object \in Version
        BY <1>1, <1>5, ExistingVersion DEF ReleaseForeign
    <2>2. u.fin = object.fin /\ u.del = object.del /\ object.exists
        BY <2>1 DEF Version
    <2>3. object' = Finalized(u) /\ ready' = ready
        BY <1>5 DEF ReleaseForeign, Write
    <2> HIDE DEF u
    <2>4. QED
        BY <2>2, <2>3 DEF NewIsSilent, ReportInv, Finalized, Absent
<1>6. NewIsSilent'
    BY <1>2, <1>3, <1>4, <1>5 DEF UserStep
<1>7. QED
    BY <1>1, <1>6 DEF ReportInv, ReportsInstallable

LEMMA UpdatesKeepReportInv ==
    ASSUME FinalizerInv, ReportInv, Updates
    PROVE  ReportInv'
<1>1. TypeOK /\ object \in Versions
    BY DEF FinalizerInv, TypeOK, Versions
<1>2. PICK err \in BOOLEAN :
          AddFinalizer(err) \/ DropFinalizer(err) \/ UpdateStatus(err)
    BY DEF Updates
<1>3. fresh /\ worker # Idle
    BY <1>2 DEF AddFinalizer, DropFinalizer, UpdateFinalizer, UpdateStatus, At, Idle
<1>4. object = worker.copy /\ object \in Version
    BY <1>1, <1>3, WorkerType DEF FinalizerInv, FreshCopy
<1>5. ReportsInstallable'
    BY <1>2 DEF AddFinalizer, DropFinalizer, UpdateFinalizer, UpdateStatus, Return,
                ReportsInstallable, Idle
<1>6. CASE AddFinalizer(err)
    <2>1. object' = [object EXCEPT !.fin = TRUE]
        BY <1>6 DEF AddFinalizer, UpdateFinalizer, Write
    <2>2. object'.fin
        BY <1>4, <2>1 DEF Version
    <2>3. QED
        BY <1>5, <2>2 DEF ReportInv, NewIsSilent
<1>7. CASE DropFinalizer(err)
    <2> DEFINE u == [object EXCEPT !.fin = FALSE]
    <2>1. object' = Finalized(u) /\ worker.pc = "dropFinalizer"
        BY <1>7 DEF DropFinalizer, UpdateFinalizer, Write, At
    <2>2. u.del
        BY <1>4, <2>1 DEF Version, FinalizerInv, CopyFits
    <2> HIDE DEF u
    <2>3. QED
        BY <1>5, <2>1, <2>2 DEF ReportInv, NewIsSilent, Finalized, Absent
<1>8. CASE UpdateStatus(err)
    <2>1. object' = object /\ worker.pc = "status"
        BY <1>8 DEF UpdateStatus, Write, apiVars, At
    <2>2. object.fin
        BY <1>4, <2>1 DEF ReportInv, ReportsInstallable, Installable
    <2>3. QED
        BY <1>5, <2>1, <2>2 DEF ReportInv, NewIsSilent
<1>9. QED
    BY <1>2, <1>6, <1>7, <1>8

LEMMA NextReportInv == FinalizerInv /\ ReportInv /\ [Next]_vars => ReportInv'
<1> SUFFICES ASSUME FinalizerInv, ReportInv, [Next]_vars PROVE ReportInv'
    OBVIOUS
<1>1. TypeOK
    BY DEF FinalizerInv
<1>2. CASE UserStep \/ ReleaseForeign
    BY <1>2, UserKeepsReportInv
<1>3. CASE Updates
    BY <1>3, UpdatesKeepReportInv
<1>4. ASSUME UNCHANGED <<object, ready>>,
             worker' = worker \/ worker'.pc # "status"
      PROVE  ReportInv'
    BY <1>4 DEF ReportInv, ReportsInstallable, NewIsSilent
<1>5. CASE Deliver \/ Resync \/ Tick \/ SecretChanges \/ CloudChanges \/ Restart
    BY <1>4, <1>5 DEF Deliver, Resync, Tick, SecretChanges, CloudChanges, Restart,
                      apiVars, operatorVars
<1>6. CASE Crash
    BY <1>4, <1>6 DEF Crash, Idle
<1>7. CASE ReconcileMissing \/ ReconcileNew \/ ReconcileDeleting
           \/ ReconcileDeleted \/ ReconcileLive
    BY <1>4, <1>7 DEF ReconcileMissing, ReconcileNew, ReconcileDeleting,
                      ReconcileDeleted, ReconcileLive, TakeKey, StepTo, apiVars
<1>8. CASE \/ CreateTiDBCloudClient \/ ValidateClusterAccess
           \/ RemoveExisting \/ AddNext \/ AllAdded
    <2>1. /\ worker.pc \in Installing /\ UNCHANGED <<object, ready>>
          /\ \/ \E pc \in {"validate", "remove", "add"} : \E i : Proceed(pc, i)
             \/ \E reason \in Reasons : Report(reason)
        BY <1>8 DEF CreateTiDBCloudClient, ValidateClusterAccess, RemoveExisting,
                    AddNext, AllAdded, At, Installing, apiVars, Reasons, Failures
    <2>2. worker \in Busy /\ Installable(worker.copy)
        <3>1. worker # Idle /\ worker.pc # "status"
            BY <2>1 DEF Idle, Installing
        <3>2. QED
            BY <1>1, <2>1, <3>1, WorkerType DEF FinalizerInv, CopyFits
    <2>3. worker'.pc # "status" \/ worker'.copy = worker.copy
        <3>1. ASSUME NEW pc \in {"validate", "remove", "add"}, NEW i, Proceed(pc, i)
              PROVE  worker'.pc = pc
            BY <2>2, <3>1 DEF Proceed, Busy
        <3>2. ASSUME NEW reason \in Reasons, Report(reason)
              PROVE  worker'.copy = worker.copy
            BY <3>2 DEF Report
        <3>3. QED
            BY <2>1, <3>1, <3>2
    <2>4. QED
        BY <2>1, <2>2, <2>3 DEF ReportInv, ReportsInstallable, NewIsSilent
<1>9. CASE UpdateFails
    BY <1>4, <1>9 DEF UpdateFails, Return, Idle, apiVars
<1>10. CASE UNCHANGED vars
    BY <1>4, <1>10 DEF vars, apiVars, operatorVars
<1>11. QED
    BY <1>2, <1>3, <1>5, <1>6, <1>7, <1>8, <1>9, <1>10
    DEF Next, Reconcile, Environment
\* A step that changes neither the object nor a claim nor a schedule: the
\* controller rests, with a status that is true, or has something left to do.
LEMMA QuietStep ==
    ASSUME TypeOK, SettledStatusIsTrue', HeldObjects' = HeldObjects,
           Claims' = Claims, installed' = installed
    PROVE  Promise!Next
<1>1. Firing' = Firing
    BY DEF Firing
<1>2. CASE Settled'
    <2>1. Outstanding' = Outstanding \ {"self"}
        BY <1>2 DEF Outstanding, Self
    <2>2. Promise!Live("self") /\ Claims["self"] => Promise!Truthful("self")
        <3>1. SUFFICES ASSUME Promise!Live("self"), Claims["self"]
                       PROVE  Promise!Truthful("self")
            OBVIOUS
        <3>2. /\ HeldObjects'["self"].state = "live" /\ Claims'["self"]
              /\ HeldObjects'["self"] = HeldObject'
            BY <3>1 DEF Promise!Live, HeldObjects, Self
        <3>3. /\ Held' /\ ~object'.del /\ ready' = "SchedulesActive"
              /\ HeldObject'.spec = object'.spec
            <4>1. Claims'["self"] = (Held' /\ ready' = "SchedulesActive")
                BY DEF Claims, Self
            <4>2. Held' => HeldObject' = [state |-> IF object'.del THEN "deleting"
                                                   ELSE "live",
                                         spec |-> object'.spec]
                BY DEF HeldObject
            <4>3. Held' /\ ready' = "SchedulesActive"
                BY <3>2, <4>1
            <4>4. QED
                BY <3>2, <4>2, <4>3
        <3>4. installed' = Wanted(object'.spec)
            BY <1>2, <3>3 DEF SettledStatusIsTrue, Alive, Held, Wanted
        <3>5. Firing["self"] = Wanted(HeldObjects["self"].spec)
            BY <3>2, <3>3, <3>4 DEF Firing, Self
        <3>6. HeldObjects["self"].spec \in Specs
            <4>1. HeldObject.state = "live" /\ HeldObject = HeldObjects["self"]
                BY <3>1 DEF Promise!Live, HeldObjects, Self
            <4>2. Held => HeldObject.spec = object.spec /\ object.spec \in Specs
                BY ExistingVersion DEF TypeOK, HeldObject, Held, Versions, Version
            <4>3. Held
                BY <4>1 DEF HeldObject
            <4>4. QED
                BY <4>1, <4>2, <4>3
        <3>7. QED
            BY <3>1, <3>5, <3>6 DEF Promise!Truthful
    <2>3. Promise!Rest("self")
        BY <1>1, <2>1, <2>2 DEF Promise!Rest
    <2>4. QED
        BY <2>3 DEF Promise!Next, Self
<1>3. CASE ~Settled'
    <2>1. Outstanding' = Outstanding \cup {"self"}
        BY <1>3 DEF Outstanding, Self
    <2>2. Promise!Wake("self")
        BY <1>1, <2>1 DEF Promise!Wake
    <2>3. QED
        BY <2>2 DEF Promise!Next, Self
<1>4. QED
    BY <1>2, <1>3

\* The worker removes all schedules.
LEMMA RemovalStep ==
    ASSUME HeldObjects' = HeldObjects, Claims' = Claims, installed' = {},
           ~Settled, ~Settled'
    PROVE  Promise!Next
<1>1. Firing' = [Firing EXCEPT !["self"] = {}]
    BY DEF Firing, Self
<1>2. Outstanding' = Outstanding /\ "self" \in Outstanding
    BY DEF Outstanding, Self
<1>3. Promise!RemoveAll("self")
    BY <1>1, <1>2 DEF Promise!RemoveAll
<1>4. QED
    BY <1>3 DEF Promise!Next, Self

LEMMA SameObject ==
    ASSUME object' = object, ready' = ready
    PROVE  HeldObjects' = HeldObjects /\ Claims' = Claims
BY DEF HeldObjects, HeldObject, Held, Claims

\* An object without the finalizer is nothing to the promise.
LEMMA NothingHeld ==
    ASSUME ~Held, ~Held'
    PROVE  HeldObjects' = HeldObjects /\ Claims' = Claims
BY DEF HeldObjects, HeldObject, Claims
\* A held object as the promise sees it.
LEMMA HeldFields ==
    ASSUME Held
    PROVE  /\ HeldObjects["self"] = [state |-> IF object.del THEN "deleting" ELSE "live",
                                     spec |-> object.spec]
           /\ HeldObjects["self"] # Promise!Absent
<1>1. HeldObjects["self"] = [state |-> IF object.del THEN "deleting" ELSE "live",
                             spec |-> object.spec]
    BY DEF HeldObjects, HeldObject, Self
<1>2. HeldObjects["self"].state \in {"deleting", "live"}
    BY <1>1
<1>3. QED
    BY <1>1, <1>2 DEF Promise!Absent

LEMMA UserKeepsPromise ==
    ASSUME FinalizerInv, SettledStatusIsTrue', UserStep \/ ReleaseForeign
    PROVE  Promise!Next
<1>1. TypeOK /\ object \in Versions
    BY DEF FinalizerInv, TypeOK, Versions
<1>2. installed' = installed /\ Firing' = Firing /\ up' = up
    BY DEF UserStep, Create, Edit, Delete, UserWrite, ReleaseForeign, envVars, Firing
<1>3. CASE ~Held /\ ~Held'
    BY <1>1, <1>2, <1>3, NothingHeld, QuietStep
<1>4. ASSUME NEW v \in Versions, Write(v)
      PROVE  Outstanding' = Outstanding \cup {"self"}
    BY <1>2, <1>4, WriteUnsettles DEF Outstanding, Self
<1>5. ASSUME NEW s \in Specs, Create(s) PROVE Promise!Next
    <2>1. ~Held
        BY <1>5 DEF Create, Held
    <2>2. ~Held'
        BY <1>5 DEF Create, UserWrite, Write, Held
    <2>3. QED
        BY <1>3, <2>1, <2>2
<1>6. ASSUME NEW s \in Specs, Edit(s) PROVE Promise!Next
    <2> DEFINE v == [object EXCEPT !.spec = s]
    <2>1. object \in Version
        BY <1>1, <1>6, ExistingVersion DEF Edit
    <2>2. /\ v.spec = s /\ v.del = object.del /\ v.exists = object.exists
          /\ v.fin = object.fin /\ v \in Version
        BY <2>1 DEF Version
    <2>3. object' = v /\ Write(v) /\ ready' = ready
        BY <1>6 DEF Edit, UserWrite, Write
    <2> HIDE DEF v
    <2>4. Held' <=> Held
        BY <2>2, <2>3 DEF Held
    <2>5. CASE Held
        <3>1. HeldObject' = [HeldObject EXCEPT !.spec = s]
            BY <2>2, <2>3, <2>4, <2>5 DEF HeldObject
        <3>2. HeldObjects' = [HeldObjects EXCEPT !["self"].spec = s]
            BY <3>1 DEF HeldObjects, Self
        <3>3. Claims' = Claims
            BY <2>3, <2>4 DEF Claims
        <3>4. Outstanding' = Outstanding \cup {"self"}
            BY <1>4, <2>2, <2>3 DEF Versions
        <3>5. Promise!Edit("self", s)
            BY <1>2, <2>5, <3>2, <3>3, <3>4, HeldFields DEF Promise!Edit
        <3>6. QED
            BY <3>5 DEF Promise!Next, Self
    <2>6. QED
        BY <1>3, <2>4, <2>5
<1>7. ASSUME NEW b \in BOOLEAN, Delete(b) PROVE Promise!Next
    <2> DEFINE u == [object EXCEPT !.del = TRUE, !.foreign = b]
               v == Finalized(u)
    <2>1. object \in Version /\ ~object.del
        BY <1>1, <1>7, ExistingVersion DEF Delete
    <2>2. /\ u.spec = object.spec /\ u.del /\ u.exists = object.exists
          /\ u.fin = object.fin /\ u \in Version
        BY <2>1 DEF Version
    <2>3. object' = v /\ Write(v) /\ ready' = ready
        BY <1>7 DEF Delete, UserWrite, Write
    <2> HIDE DEF u
    <2>4. v \in Versions /\ (u.fin => v = u)
        BY <2>2, FinalizedType
    <2>5. v = u \/ v = Absent
        BY DEF Finalized
    <2> HIDE DEF v
    <2>6. Held' <=> Held
        BY <2>2, <2>3, <2>4, <2>5 DEF Held, Absent
    <2>7. CASE Held
        <3>1. object'.del /\ object'.spec = object.spec
            BY <2>2, <2>3, <2>4, <2>7 DEF Held
        <3>2. HeldObject' = [HeldObject EXCEPT !.state = "deleting"]
            BY <2>6, <2>7, <3>1 DEF HeldObject
        <3>3. HeldObjects' = [HeldObjects EXCEPT !["self"].state = "deleting"]
            BY <3>2 DEF HeldObjects, Self
        <3>4. Claims' = Claims
            BY <2>3, <2>6 DEF Claims
        <3>5. Outstanding' = Outstanding \cup {"self"}
            BY <1>4, <2>3, <2>4
        <3>6. Promise!Live("self")
            BY <2>1, <2>7, HeldFields DEF Promise!Live
        <3>7. Promise!Delete("self")
            BY <1>2, <3>3, <3>4, <3>5, <3>6 DEF Promise!Delete
        <3>8. QED
            BY <3>7 DEF Promise!Next, Self
    <2>8. QED
        BY <1>3, <2>6, <2>7
<1>8. CASE ReleaseForeign
    <2> DEFINE u == [object EXCEPT !.foreign = FALSE]
    <2>1. object \in Version
        BY <1>1, <1>8, ExistingVersion DEF ReleaseForeign
    <2>2. /\ u.spec = object.spec /\ u.del = object.del /\ u.exists = object.exists
          /\ u.fin = object.fin /\ u \in Version
        BY <2>1 DEF Version
    <2>3. object' = Finalized(u) /\ ready' = ready
        BY <1>8 DEF ReleaseForeign, Write
    <2> HIDE DEF u
    <2>4. (u.fin => object' = u) /\ (object' = u \/ object' = Absent)
        BY <2>2, <2>3, FinalizedType DEF Finalized
    <2>5. Held' <=> Held
        BY <2>2, <2>4 DEF Held, Absent
    <2>6. CASE Held
        <3>1. HeldObject' = HeldObject
            BY <2>2, <2>4, <2>5, <2>6 DEF HeldObject, Held
        <3>2. HeldObjects' = HeldObjects /\ Claims' = Claims
            BY <2>3, <2>5, <3>1 DEF HeldObjects, Claims
        <3>3. QED
            BY <1>1, <1>2, <3>2, QuietStep
    <2>7. QED
        BY <1>3, <2>5, <2>6
<1>9. QED
    BY <1>5, <1>6, <1>7, <1>8 DEF UserStep

\* The worker's updates: the finalizer comes with the object's first copy and
\* goes when no schedule is left, and a status is written from a fresh copy.
LEMMA UpdatesKeepPromise ==
    ASSUME FinalizerInv, StatusInv, ReportInv, SettledStatusIsTrue', Updates
    PROVE  Promise!Next
<1>1. TypeOK /\ object \in Versions
    BY DEF FinalizerInv, TypeOK, Versions
<1>2. PICK err \in BOOLEAN :
          AddFinalizer(err) \/ DropFinalizer(err) \/ UpdateStatus(err)
    BY DEF Updates
<1>3. fresh /\ worker # Idle
    BY <1>2 DEF AddFinalizer, DropFinalizer, UpdateFinalizer, UpdateStatus, At, Idle
<1>4. object = worker.copy /\ object \in Version
    BY <1>1, <1>3, WorkerType DEF FinalizerInv, FreshCopy
<1>5. installed' = installed /\ Firing' = Firing /\ up' = up
    BY <1>2 DEF AddFinalizer, DropFinalizer, UpdateFinalizer, UpdateStatus,
                Return, envVars, Firing
<1>6. Outstanding = Self
    BY <1>3 DEF Outstanding, Settled
<1>7. ASSUME NEW v \in Versions, Write(v) PROVE Outstanding' = Outstanding
    BY <1>5, <1>6, <1>7, WriteUnsettles DEF Outstanding
<1>8. CASE AddFinalizer(err)
    <2> DEFINE v == [object EXCEPT !.fin = TRUE]
    <2>1. /\ object' = v /\ Write(v) /\ ready' = ready
          /\ worker.pc = "addFinalizer"
        BY <1>8 DEF AddFinalizer, UpdateFinalizer, Write, At
    <2>2. /\ v.spec = object.spec /\ v.del = object.del /\ v.exists
          /\ v.fin /\ v \in Version
        BY <1>4 DEF Version
    <2> HIDE DEF v
    <2>3. ~object.del /\ object.exists /\ object.spec \in Specs
        BY <1>4, <2>1 DEF FinalizerInv, CopyFits, Version
    <2>4. Held' /\ HeldObject' = [state |-> "live", spec |-> object.spec]
        BY <2>1, <2>2, <2>3 DEF Held, HeldObject
    <2>5. CASE object.fin
        <3>1. HeldObject' = HeldObject /\ Held
            BY <2>3, <2>4, <2>5 DEF HeldObject, Held
        <3>2. HeldObjects' = HeldObjects /\ Claims' = Claims
            BY <2>1, <2>4, <3>1 DEF HeldObjects, Claims
        <3>3. QED
            BY <1>1, <1>5, <3>2, QuietStep
    <2>6. CASE ~object.fin
        <3>1. HeldObjects["self"] = Promise!Absent
            BY <2>6 DEF HeldObjects, HeldObject, Held, Self, Promise!Absent
        <3>2. HeldObjects' = [HeldObjects EXCEPT !["self"] =
                                  Promise!Object("live", object.spec)]
            BY <2>4 DEF HeldObjects, Self, Promise!Object
        <3>3. ready' = "none"
            BY <2>1, <2>3, <2>6 DEF ReportInv, NewIsSilent
        <3>4. Claims' = [Claims EXCEPT !["self"] = FALSE]
            BY <3>3 DEF Claims, Self
        <3>5. Outstanding' = Outstanding \cup {"self"}
            BY <1>6, <1>7, <2>1, <2>2 DEF Versions, Self
        <3>6. Promise!Adopt("self", object.spec)
            BY <1>5, <3>1, <3>2, <3>4, <3>5 DEF Promise!Adopt
        <3>7. QED
            BY <2>3, <3>6 DEF Promise!Next, Self
    <2>7. QED
        BY <2>5, <2>6
<1>9. CASE DropFinalizer(err)
    <2> DEFINE u == [object EXCEPT !.fin = FALSE]
               v == Finalized(u)
    <2>1. /\ object' = v /\ Write(v) /\ ready' = ready
          /\ worker.pc = "dropFinalizer"
        BY <1>9 DEF DropFinalizer, UpdateFinalizer, Write, At
    <2>2. ~u.fin /\ u \in Version
        BY <1>4 DEF Version
    <2> HIDE DEF u
    <2>3. v \in Versions /\ (v = u \/ v = Absent)
        BY <2>2, FinalizedType DEF Finalized
    <2> HIDE DEF v
    <2>4. ~Held'
        BY <2>1, <2>2, <2>3 DEF Held, Absent
    <2>5. object.del /\ installed = {}
        BY <1>4, <2>1 DEF FinalizerInv, CopyFits
    <2>6. CASE Held
        <3>1. HeldObjects' = [HeldObjects EXCEPT !["self"] = Promise!Absent]
            BY <2>4 DEF HeldObjects, HeldObject, Self, Promise!Absent
        <3>2. HeldObjects["self"].state = "deleting"
            BY <2>5, <2>6, HeldFields
        <3>3. Claims' = [Claims EXCEPT !["self"] = FALSE]
            BY <2>4 DEF Claims, Self
        <3>4. Firing' = [Firing EXCEPT !["self"] = {}]
            BY <1>5, <2>5 DEF Firing, Self
        <3>5. Outstanding' = Outstanding /\ "self" \in Outstanding
            BY <1>6, <1>7, <2>1, <2>3 DEF Self
        <3>6. Promise!Drop("self")
            BY <3>1, <3>2, <3>3, <3>4, <3>5 DEF Promise!Drop
        <3>7. QED
            BY <3>6 DEF Promise!Next, Self
    <2>7. CASE ~Held
        BY <1>1, <1>5, <2>4, <2>7, NothingHeld, QuietStep
    <2>8. QED
        BY <2>6, <2>7
<1>10. CASE UpdateStatus(err)
    <2>1. worker.pc = "status" /\ object' = object
        BY <1>10 DEF UpdateStatus, Write, apiVars, At
    <2>2. CASE ready' = ready
        BY <1>1, <1>5, <2>1, <2>2, SameObject, QuietStep
    <2>3. CASE Write(object) /\ ready' = worker.reason
        <3>1. Held /\ ~object.del /\ Held'
            BY <1>4, <2>1 DEF ReportInv, ReportsInstallable, Installable, Held
        <3>2. HeldObjects' = HeldObjects
            BY <2>1 DEF HeldObjects, HeldObject, Held
        <3>3. Outstanding' = Outstanding /\ "self" \in Outstanding
            BY <1>1, <1>6, <1>7, <2>3 DEF Self
        <3>4. HeldObjects["self"] = [state |-> "live", spec |-> object.spec]
            BY <3>1, HeldFields
        <3>5. CASE worker.reason = "SchedulesActive"
            <4>1. Claims' = [Claims EXCEPT !["self"] = TRUE]
                BY <2>3, <3>1, <3>5 DEF Claims, Self
            <4>2. installed = Wanted(object.spec) /\ object.spec \in Specs
                BY <1>4, <2>1, <3>5 DEF StatusInv, ReportsTruth, Version
            <4>3. Promise!Truthful("self")
                BY <3>4, <4>2 DEF Promise!Truthful, Promise!Live, Firing, Self
            <4>4. Promise!Report("self", TRUE)
                BY <1>5, <3>1, <3>2, <3>3, <4>1, <4>3, HeldFields DEF Promise!Report
            <4>5. QED
                BY <4>4 DEF Promise!Next, Self
        <3>6. CASE worker.reason # "SchedulesActive"
            <4>1. Claims' = [Claims EXCEPT !["self"] = FALSE]
                BY <2>3, <3>6 DEF Claims, Self
            <4>2. Promise!Report("self", FALSE)
                BY <1>5, <3>1, <3>2, <3>3, <4>1, HeldFields DEF Promise!Report
            <4>3. QED
                BY <4>2 DEF Promise!Next, Self
        <3>7. QED
            BY <3>5, <3>6
    <2>4. QED
        BY <1>10, <2>2, <2>3 DEF UpdateStatus, apiVars
<1>11. QED
    BY <1>2, <1>8, <1>9, <1>10
\* The first step of a reconciliation, and those of its walk over the spec.
LEMMA TakingKeepsPromise ==
    ASSUME FinalizerInv, SettledStatusIsTrue',
           \/ ReconcileMissing \/ ReconcileNew \/ ReconcileDeleting
           \/ ReconcileDeleted \/ ReconcileLive
    PROVE  Promise!Next
<1>1. TypeOK
    BY DEF FinalizerInv
<1>2. TakeKey
    BY DEF ReconcileMissing, ReconcileNew, ReconcileDeleting, ReconcileDeleted,
           ReconcileLive
<1>3. HeldObjects' = HeldObjects /\ Claims' = Claims
    BY <1>2, SameObject DEF TakeKey, apiVars
<1>4. ~Settled
    BY <1>2 DEF TakeKey, Settled
<1>5. CASE ReconcileNew \/ ReconcileDeleted \/ ReconcileLive
    <2>1. installed' = installed
        BY <1>5 DEF ReconcileNew, ReconcileDeleted, ReconcileLive
    <2>2. QED
        BY <1>1, <1>3, <2>1, QuietStep
<1>6. CASE ReconcileDeleting
    <2>1. installed' = {} /\ ~Settled'
        BY <1>6 DEF ReconcileDeleting, StepTo, Settled, Idle
    <2>2. QED
        BY <1>3, <1>4, <2>1, RemovalStep
<1>7. CASE ReconcileMissing
    <2>1. installed' = {} /\ ~cache.exists /\ up /\ UNCHANGED apiVars
        BY <1>7 DEF ReconcileMissing, TakeKey
    <2>2. CASE ~Settled'
        BY <1>3, <1>4, <2>1, <2>2, RemovalStep
    <2>3. CASE Settled'
        <3>1. object = cache
            BY <2>1, <2>3 DEF Settled, apiVars, FinalizerInv, Newest
        <3>2. installed' = installed
            BY <2>1, <3>1 DEF FinalizerInv, SchedulesHaveFinalizer
        <3>3. QED
            BY <1>1, <1>3, <3>2, QuietStep
    <2>4. QED
        BY <2>2, <2>3
<1>8. QED
    BY <1>5, <1>6, <1>7

LEMMA WorkingKeepsPromise ==
    ASSUME FinalizerInv, SettledStatusIsTrue',
           \/ CreateTiDBCloudClient \/ ValidateClusterAccess
           \/ RemoveExisting \/ AddNext \/ AllAdded
    PROVE  Promise!Next
<1>1. TypeOK /\ worker.pc \in Installing
    BY DEF FinalizerInv, CreateTiDBCloudClient, ValidateClusterAccess,
           RemoveExisting, AddNext, AllAdded, At, Installing
<1>2. worker # Idle /\ worker.pc # "status" /\ ~Settled
    BY <1>1 DEF Installing, Idle, Settled
<1>3. worker \in Busy /\ worker.copy.spec \in Specs
    BY <1>1, <1>2, WorkerType
<1>4. HeldObjects' = HeldObjects /\ Claims' = Claims
    BY SameObject DEF CreateTiDBCloudClient, ValidateClusterAccess,
                      RemoveExisting, AddNext, AllAdded, apiVars
<1>5. CASE installed' = installed
    BY <1>1, <1>4, <1>5, QuietStep
<1>6. CASE RemoveExisting
    <2>1. installed' = {} /\ worker'.pc = "add"
        BY <1>3, <1>6, ProceedType DEF RemoveExisting
    <2>2. ~Settled'
        BY <2>1 DEF Settled, Idle
    <2>3. QED
        BY <1>2, <1>4, <2>1, <2>2, RemovalStep
<1>7. CASE AddNext
    <2> DEFINE j == <<worker.copy.spec, worker.i>>
    <2>1. /\ worker.i \in DOMAIN Schedules[worker.copy.spec]
          /\ installed' = installed \/ installed' = installed \cup {j}
        BY <1>7 DEF AddNext
    <2>2. worker'.pc \in {"add", "status"}
        <3>1. Proceed("add", worker.i + 1) => worker'.pc = "add"
            BY <1>3 DEF Proceed, Busy
        <3>2. QED
            BY <1>7, <3>1 DEF AddNext, Report
    <2>3. Outstanding' = Outstanding /\ "self" \in Outstanding
        BY <1>2, <2>2 DEF Outstanding, Settled, Idle, Self
    <2>4. Held
        BY <1>1, <1>2 DEF FinalizerInv, CopyFits, VersionsBacked, Backed, Held
    <2>5. j \in UNION {{s} \X DOMAIN Schedules[s] : s \in Specs}
        BY <1>3, <2>1
    <2> HIDE DEF j
    <2>6. CASE installed' = installed \cup {j}
        <3>1. Firing' = [Firing EXCEPT !["self"] = @ \cup {j}]
            BY <2>6 DEF Firing, Self
        <3>2. Promise!Install("self")
            BY <1>4, <2>3, <2>4, <2>5, <3>1, HeldFields DEF Promise!Install
        <3>3. QED
            BY <3>2 DEF Promise!Next, Self
    <2>7. QED
        BY <1>5, <2>1, <2>6
<1>8. QED
    BY <1>5, <1>6, <1>7 DEF CreateTiDBCloudClient, ValidateClusterAccess, AllAdded

\* No schedule outlives the operator.
LEMMA CrashKeepsPromise ==
    ASSUME Crash
    PROVE  Promise!Next
<1>1. HeldObjects' = HeldObjects /\ Claims' = Claims
    BY SameObject DEF Crash
<1>2. Firing' = [o \in Self |-> {}] /\ Outstanding' = Self
    BY DEF Crash, Firing, Outstanding, Settled
<1>3. Promise!Restart(Self)
    BY <1>1, <1>2 DEF Promise!Restart
<1>4. QED
    BY <1>3 DEF Promise!Next

LEMMA NextKeepsPromise ==
    FinalizerInv /\ StatusInv /\ ReportInv /\ SettledStatusIsTrue' /\ [Next]_vars
        => [Promise!Next]_(Promise!vars)
<1> SUFFICES ASSUME FinalizerInv, StatusInv, ReportInv, SettledStatusIsTrue',
                    [Next]_vars
             PROVE  [Promise!Next]_(Promise!vars)
    OBVIOUS
<1>1. TypeOK
    BY DEF FinalizerInv
<1>2. CASE UserStep \/ ReleaseForeign
    BY <1>2, UserKeepsPromise
<1>3. CASE Updates
    BY <1>3, UpdatesKeepPromise
<1>4. CASE ReconcileMissing \/ ReconcileNew \/ ReconcileDeleting
           \/ ReconcileDeleted \/ ReconcileLive
    BY <1>4, TakingKeepsPromise
<1>5. CASE \/ CreateTiDBCloudClient \/ ValidateClusterAccess
           \/ RemoveExisting \/ AddNext \/ AllAdded
    BY <1>5, WorkingKeepsPromise
<1>6. CASE Crash
    BY <1>6, CrashKeepsPromise
<1>7. CASE \/ Deliver \/ Resync \/ Tick \/ SecretChanges \/ CloudChanges
           \/ Restart \/ UpdateFails \/ UNCHANGED vars
    <2>1. object' = object /\ ready' = ready /\ installed' = installed
        BY <1>7 DEF Deliver, Resync, Tick, SecretChanges, CloudChanges, Restart,
                    UpdateFails, Return, vars, apiVars, operatorVars
    <2>2. QED
        BY <1>1, <2>1, SameObject, QuietStep
<1>8. QED
    BY <1>2, <1>3, <1>4, <1>5, <1>6, <1>7 DEF Next, Reconcile, Environment

LEMMA InitKeepsPromise == Init => Promise!Init
<1> SUFFICES ASSUME Init PROVE Promise!Init
    OBVIOUS
<1>1. ~Held /\ installed = {} /\ Settled
    BY DEF Init, Held, Absent, Settled
<1>2. HeldObjects = [o \in Self |-> Promise!Absent]
    BY <1>1 DEF HeldObjects, HeldObject, Promise!Absent
<1>3. Claims = [o \in Self |-> FALSE]
    BY <1>1 DEF Claims
<1>4. Firing = [o \in Self |-> {}] /\ Outstanding = {}
    BY <1>1 DEF Firing, Outstanding
<1>5. QED
    BY <1>2, <1>3, <1>4 DEF Promise!Init

\* The controller implements the promise for its object: it installs schedules
\* only for an object that it holds by the finalizer, lets the finalizer go only
\* with the last of them, and claims in the status, written from a copy that no
\* one has overtaken, only what is so - for every set of specs, any lag of the
\* cache, any order of conflicts and lost answers, and any crash.
THEOREM ControllerKeepsPromise == Spec => KeepsPromise
<1>1. Init => FinalizerInv /\ StatusInv /\ ReportInv
    <2>1. Init => ReportInv
        BY DEF Init, ReportInv, ReportsInstallable, NewIsSilent, Absent, Idle
    <2>2. QED
        BY <2>1, InitFinalizerInv, InitStatusInv
<1>2. FinalizerInv /\ StatusInv /\ ReportInv /\ [Next]_vars
          => FinalizerInv' /\ StatusInv' /\ ReportInv'
    BY NextFinalizerInv, NextStatusInv, NextReportInv
<1>3. FinalizerInv /\ StatusInv /\ ReportInv /\ [Next]_vars
          => [Promise!Next]_(Promise!vars)
    <2>1. StatusInv' => SettledStatusIsTrue'
        BY DEF StatusInv
    <2>2. QED
        BY <1>2, <2>1, NextKeepsPromise
<1>4. QED
    BY <1>1, <1>2, <1>3, InitKeepsPromise, PTL DEF Spec, KeepsPromise, Promise!Spec
----------------------------------------------------------------------------
(* Admission.  What the operator refuses is all that keeps an admitted      *)
(* schedule from taking effect.                                            *)

NoneRefused == \A s \in Specs : ~Refused(s)

LEMMA AskedIsWanted ==
    ASSUME NEW s \in Specs, ~Refused(s), NEW i \in DOMAIN SchedulesOf[s],
           AsksForOperation(SchedulesOf[s][i])
    PROVE  <<s, i>> \in Wanted(s)
<1>1. /\ DOMAIN Schedules[s] = DOMAIN SchedulesOf[s]
      /\ Schedules[s][i] = Outcome(SchedulesOf[s][i])
    BY DEF Schedules
<1>2. DOMAIN Schedules[s] = 1..Len(Schedules[s]) /\ Len(Schedules[s]) \in Nat
    BY ScheduleKinds
<1>3. \A k \in DOMAIN Schedules[s] : Schedules[s][k] # "refuse"
    BY DEF Refused
<1>4. Schedules[s][i] = "add"
    BY <1>1, <1>3 DEF Outcome
<1>5. \A k \in 1..i : k \in DOMAIN Schedules[s]
    BY <1>1, <1>2
<1>6. QED
    BY <1>1, <1>3, <1>4, <1>5 DEF Wanted

\* If the operator's parser takes every schedule of the specs, each one that
\* asks for an operation is installed once nothing is left to do; run shortcut
\* shows that one it refuses takes others with it.
THEOREM AcceptedTakesEffect == NoneRefused => (Spec => []AdmittedTakesEffect)
<1>1. SUFFICES ASSUME NoneRefused PROVE Spec => []AdmittedTakesEffect
    OBVIOUS
<1>2. TypeOK /\ SettledStatusIsTrue => AdmittedTakesEffect
    <2>1. SUFFICES ASSUME TypeOK, SettledStatusIsTrue, Settled, Alive,
                          ready \in {"SchedulesActive", "ScheduleError"},
                          NEW i \in DOMAIN SchedulesOf[object.spec],
                          AsksForOperation(SchedulesOf[object.spec][i])
                   PROVE  <<object.spec, i>> \in installed
        BY DEF AdmittedTakesEffect
    <2>2. object.spec \in Specs
        BY <2>1, ExistingVersion DEF TypeOK, Alive, Versions, Version
    <2>3. installed = Wanted(object.spec)
        BY <2>1 DEF SettledStatusIsTrue
    <2>4. QED
        BY <1>1, <2>1, <2>2, <2>3, AskedIsWanted DEF NoneRefused
<1>3. QED
    BY <1>2, TypeCorrect, SettledStatusTrue, PTL
=============================================================================
