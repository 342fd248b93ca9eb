--------------------------- MODULE OperatorProofs ---------------------------
(***************************************************************************)
(* What holds of the controller with the service, for any objects, workers, *)
(* runs and specs: an object that is gone fires nothing, whatever timezones *)
(* the specs use; and, if no namespace has specs in two timezones, an       *)
(* object whose condition says so has exactly its schedules firing, and the *)
(* promise ScheduledObjects is kept for all objects.                        *)
(*                                                                         *)
(* The argument.  The steps of the workers are steps of the service         *)
(* (ServiceSteps), so what the service keeps, BaseInv and LiveInv, holds.   *)
(* The controller adds to it who is inside the service for whom             *)
(* (CallsBelong, OnePerOwner) and how far the list of an object's jobs has  *)
(* grown (Progress); then a condition that is reported from a fresh copy    *)
(* counts the jobs of the current spec, and the list changes only while the *)
(* object is in the queue or being reconciled (ReadyComplete).              *)
(***************************************************************************)
EXTENDS Operator, TimezoneRegistryProofs, FiniteSetTheorems

Length(o) == Len(scheduleMap[o[1]][o[2]])
NewLength(o) == Len(scheduleMap'[o[1]][o[2]])

\* A worker inside the service is there for its reconciliation's object.
CallsBelong ==
    \A w \in Workers : workers[w] # Idle =>
        /\ reconciles[w].pc = "add"
        /\ reconciles[w].i <= SizeOf[reconciles[w].spec]
        /\ OwnedBy(workers[w].entry, reconciles[w].owner[1], reconciles[w].owner[2])

OnePerOwner ==
    \A v, w \in Workers :
        /\ reconciles[v] # Resting /\ reconciles[w] # Resting
        /\ reconciles[v].owner = reconciles[w].owner
        => v = w

\* Specs are in a timezone of their namespace; an object that is reconciled
\* does not go.
SpecsAdmissible ==
    /\ \A o \in Owners : object[o] # Absent => Admissible(o, object[o].spec)
    /\ \A w \in Workers : reconciles[w] # Resting =>
          /\ object[reconciles[w].owner] # Absent
          /\ Admissible(reconciles[w].owner, reconciles[w].spec)

\* How many jobs the object that a worker reconciles has.
Progress ==
    \A w \in Workers :
        /\ reconciles[w].pc = "add" =>
              /\ reconciles[w].i <= SizeOf[reconciles[w].spec] + 1
              /\ Length(reconciles[w].owner) = reconciles[w].i - 1
        /\ reconciles[w].pc = "active" =>
              Length(reconciles[w].owner) = SizeOf[reconciles[w].spec]

FreshSpecs ==
    \A w \in Workers : reconciles[w] # Resting /\ reconciles[w].fresh =>
        /\ Live(reconciles[w].owner)
        /\ object[reconciles[w].owner].spec = reconciles[w].spec

ReadyComplete ==
    \A o \in Owners :
        Live(o) /\ AtRest(o) /\ ready[o] = "active"
            => Length(o) = SizeOf[object[o].spec]

OperatorInv ==
    /\ OperatorTypeOK
    /\ CallsBelong
    /\ OnePerOwner
    /\ SpecsAdmissible
    /\ Progress
    /\ FreshSpecs
    /\ ReadyComplete
    /\ GoneMeansSilent
----------------------------------------------------------------------------
(* Types and effects.                                                      *)

LEMMA OwnerPairs ==
    /\ \A o \in Owners : o[1] \in Namespaces /\ o[2] \in Names
    /\ \A o, p \in Owners : o[1] = p[1] /\ o[2] = p[2] => o = p
BY DEF Owners

LEMMA ReconciliationType ==
    ASSUME OperatorTypeOK, NEW w \in Workers
    PROVE  /\ reconciles[w] = Resting <=> reconciles[w].pc = "resting"
           /\ reconciles[w] # Resting =>
                 /\ reconciles[w] \in Reconciliation
                 /\ reconciles[w].pc \in {"add", "active", "failed"}
                 /\ reconciles[w].owner \in Owners
                 /\ reconciles[w].spec \in Specs
                 /\ reconciles[w].i \in Nat \ {0}
                 /\ SizeOf[reconciles[w].spec] \in Nat
BY SpecsAssumption DEF OperatorTypeOK, Reconciliation, Resting

LEMMA LengthType ==
    ASSUME TypeOK, NEW o \in Owners
    PROVE  Length(o) \in Nat /\ scheduleMap[o[1]][o[2]] \in Seq(JobIDs)
<1>1. scheduleMap[o[1]][o[2]] \in Seq(JobIDs)
    BY OwnerPairs DEF TypeOK
<1>2. QED
    BY <1>1 DEF Length

\* The owner's jobs are gone when nobody is adding any; no one else's list
\* changes.
LEMMA RemoveAllEffect ==
    ASSUME BaseInv, NEW o \in Owners, RemoveAllSchedules(o[1], o[2])
    PROVE  /\ workers' = workers
           /\ entries' \subseteq entries
           /\ NewLength(o) = 0
           /\ \A p \in Owners : p # o => NewLength(p) = Length(p)
           /\ (\A w \in Workers : workers[w] # Idle =>
                  ~OwnedBy(workers[w].entry, o[1], o[2])) => EntriesOf(o)' = {}
<1>1. /\ workers' = workers
      /\ entries' = RemoveIDs(o[1], Tracked(o[1], o[2]))
      /\ scheduleMap' = [scheduleMap EXCEPT ![o[1]][o[2]] = <<>>]
    BY DEF RemoveAllSchedules
<1>2. scheduleMap \in [Namespaces -> [Names -> Seq(JobIDs)]]
    BY DEF BaseInv, TypeInv, TypeOK
<1>3. NewLength(o) = 0
    BY <1>1, <1>2, OwnerPairs DEF Length, NewLength
<1>4. ASSUME NEW p \in Owners, p # o PROVE NewLength(p) = Length(p)
    <2>1. scheduleMap'[p[1]][p[2]] = scheduleMap[p[1]][p[2]]
        BY <1>1, <1>2, <1>4, OwnerPairs
    <2>2. QED
        BY <2>1 DEF Length, NewLength
<1>5. ASSUME \A w \in Workers : workers[w] # Idle =>
                 ~OwnedBy(workers[w].entry, o[1], o[2]),
             NEW e \in entries', OwnedBy(e, o[1], o[2])
      PROVE  FALSE
    <2>1. e \in entries /\ ~(e.tz \in schedulers[o[1]] /\ e.id \in Tracked(o[1], o[2]))
        BY <1>1, <1>5 DEF RemoveIDs, OwnedBy
    <2>2. e.tz \in schedulers[o[1]]
        BY <1>5, <2>1 DEF BaseInv, ZonesExist, OwnedBy
    <2>3. ~InsideAdd(e)
        BY <1>5 DEF InsideAdd
    <2>4. e.id \in Tracked(o[1], o[2])
        BY <1>5, <2>1, <2>3 DEF BaseInv, NoOrphan, OwnedBy
    <2>5. QED
        BY <2>1, <2>2, <2>4
<1>6. QED
    BY <1>1, <1>3, <1>4, <1>5 DEF RemoveIDs, EntriesOf

\* The owner's list is one longer.
LEMMA TrackEffect ==
    ASSUME BaseInv, NEW w \in Workers, TrackSchedule(w), NEW o \in Owners,
           OwnedBy(workers[w].entry, o[1], o[2])
    PROVE  /\ entries' = entries
           /\ workers' = [workers EXCEPT ![w] = Idle]
           /\ NewLength(o) = Length(o) + 1
           /\ \A p \in Owners : p # o => NewLength(p) = Length(p)
<1>1. PICK e \in Entry : e = workers[w].entry
    BY DEF BaseInv, TypeInv, CallsNumbered, TrackSchedule
<1>2. /\ scheduleMap' = [scheduleMap EXCEPT ![o[1]][o[2]] = Append(@, e.id)]
      /\ workers' = [workers EXCEPT ![w] = Idle] /\ entries' = entries
    BY <1>1 DEF TrackSchedule, OwnedBy
<1>3. scheduleMap \in [Namespaces -> [Names -> Seq(JobIDs)]]
    BY DEF BaseInv, TypeInv, TypeOK
<1>4. NewLength(o) = Length(o) + 1
    <2>1. scheduleMap'[o[1]][o[2]] = Append(scheduleMap[o[1]][o[2]], e.id)
        BY <1>2, <1>3, OwnerPairs
    <2>2. scheduleMap[o[1]][o[2]] \in Seq(JobIDs) /\ e.id \in JobIDs
        BY <1>1, <1>3, OwnerPairs DEF Entry
    <2>3. QED
        BY <2>1, <2>2 DEF Length, NewLength
<1>5. ASSUME NEW p \in Owners, p # o PROVE NewLength(p) = Length(p)
    <2>1. scheduleMap'[p[1]][p[2]] = scheduleMap[p[1]][p[2]]
        BY <1>2, <1>3, <1>5, OwnerPairs
    <2>2. QED
        BY <2>1 DEF Length, NewLength
<1>6. QED
    BY <1>2, <1>4, <1>5

LEMMA NobodyInside ==
    ASSUME CallsBelong, OperatorTypeOK, NEW o \in Owners, ~BeingReconciled(o),
           NEW w \in Workers, workers[w] # Idle
    PROVE  ~OwnedBy(workers[w].entry, o[1], o[2])
<1>1. reconciles[w] # Resting /\ reconciles[w].owner \in Owners
    BY ReconciliationType DEF CallsBelong
<1>2. reconciles[w].owner # o
    BY <1>1 DEF BeingReconciled, Reconciles
<1>3. OwnedBy(workers[w].entry, reconciles[w].owner[1], reconciles[w].owner[2])
    BY DEF CallsBelong
<1>4. QED
    BY <1>1, <1>2, <1>3, OwnerPairs DEF OwnedBy

----------------------------------------------------------------------------
(* The users.                                                              *)

LEMMA WriteKeepsOperatorInv ==
    ASSUME OperatorInv, NEW o \in Owners, NEW v \in Objects, Write(o, v),
           Admissible(o, v.spec),
           ready' \in [Owners -> {"none", "active", "failed"}],
           \A p \in Owners : p # o => ready'[p] = ready[p]
    PROVE  OperatorInv'
<1>1. /\ object' = [object EXCEPT ![o] = v] /\ queue' = queue \cup {o}
      /\ reconciles' = [w \in Workers |->
            IF Reconciles(w, o) THEN [reconciles[w] EXCEPT !.fresh = FALSE]
            ELSE reconciles[w]]
      /\ UNCHANGED <<entries, workers, scheduleMap>>
    BY DEF Write, vars
<1>2. OperatorTypeOK /\ object \in [Owners -> {Absent} \cup Objects]
    BY DEF OperatorInv, OperatorTypeOK
<1>3. /\ object'[o] = v /\ v # Absent
      /\ \A p \in Owners : p # o => object'[p] = object[p]
    <2>1. v.state # "absent"
        BY DEF Objects
    <2>2. QED
        BY <1>1, <1>2, <2>1 DEF Absent
<1>4. ASSUME NEW w \in Workers
      PROVE  /\ reconciles'[w] = Resting <=> reconciles[w] = Resting
             /\ reconciles'[w] \in {Resting} \cup Reconciliation
             /\ reconciles'[w].pc = reconciles[w].pc
             /\ reconciles[w] # Resting =>
                   /\ reconciles'[w].owner = reconciles[w].owner
                   /\ reconciles'[w].spec = reconciles[w].spec
                   /\ reconciles'[w].i = reconciles[w].i
                   /\ reconciles'[w].fresh =>
                         reconciles[w].fresh /\ reconciles[w].owner # o
    <2>1. CASE Reconciles(w, o)
        <3>1. reconciles[w] \in Reconciliation /\ reconciles[w] # Resting
            BY <1>2, <2>1, ReconciliationType DEF Reconciles
        <3>2. reconciles'[w] = [reconciles[w] EXCEPT !.fresh = FALSE]
            BY <1>1, <2>1
        <3>3. /\ reconciles'[w] \in Reconciliation
              /\ reconciles'[w].pc = reconciles[w].pc
              /\ reconciles'[w].owner = reconciles[w].owner
              /\ reconciles'[w].spec = reconciles[w].spec
              /\ reconciles'[w].i = reconciles[w].i
              /\ reconciles'[w].fresh = FALSE
            BY <3>1, <3>2 DEF Reconciliation
        <3>4. reconciles'[w] # Resting
            BY <3>3 DEF Reconciliation, Resting
        <3>5. QED
            BY <3>1, <3>3, <3>4
    <2>2. CASE ~Reconciles(w, o)
        <3>1. reconciles'[w] = reconciles[w]
            BY <1>1, <2>2
        <3>2. QED
            BY <1>2, <2>2, <3>1 DEF Reconciles, OperatorTypeOK
    <2>3. QED
        BY <2>1, <2>2
<1>5. OperatorTypeOK'
    <2>1. reconciles' \in [Workers -> {Resting} \cup Reconciliation]
        BY <1>1, <1>4
    <2>2. object' \in [Owners -> {Absent} \cup Objects] /\ queue' \subseteq Owners
        BY <1>1, <1>2 DEF OperatorTypeOK
    <2>3. QED
        BY <2>1, <2>2 DEF OperatorTypeOK
<1>6. CallsBelong'
    <2>1. SUFFICES ASSUME NEW w \in Workers, workers[w] # Idle
                   PROVE  /\ reconciles'[w].pc = "add"
                          /\ reconciles'[w].i <= SizeOf[reconciles'[w].spec]
                          /\ OwnedBy(workers[w].entry, reconciles'[w].owner[1],
                                     reconciles'[w].owner[2])
        BY <1>1 DEF CallsBelong, OwnedBy
    <2>2. reconciles[w] # Resting
        BY <1>2, <2>1, ReconciliationType DEF OperatorInv, CallsBelong
    <2>3. QED
        BY <1>4, <2>1, <2>2 DEF OperatorInv, CallsBelong
<1>7. OnePerOwner'
    BY <1>4 DEF OperatorInv, OnePerOwner
<1>8. SpecsAdmissible'
    <2>1. ASSUME NEW p \in Owners, object'[p] # Absent
          PROVE  Admissible(p, object'[p].spec)
        BY <1>3, <2>1 DEF OperatorInv, SpecsAdmissible
    <2>2. ASSUME NEW w \in Workers, reconciles'[w] # Resting
          PROVE  /\ object'[reconciles'[w].owner] # Absent
                 /\ Admissible(reconciles'[w].owner, reconciles'[w].spec)
        <3>1. /\ reconciles[w] # Resting /\ reconciles[w].owner \in Owners
              /\ reconciles'[w].owner = reconciles[w].owner
              /\ reconciles'[w].spec = reconciles[w].spec
            BY <1>2, <1>4, <2>2, ReconciliationType
        <3>2. QED
            BY <1>3, <3>1 DEF OperatorInv, SpecsAdmissible
    <2>3. QED
        BY <2>1, <2>2 DEF SpecsAdmissible, Admissible
<1>9. Progress'
    <2>1. SUFFICES ASSUME NEW w \in Workers, reconciles[w].pc \in {"add", "active"}
                   PROVE  /\ reconciles'[w].owner = reconciles[w].owner
                          /\ reconciles'[w].spec = reconciles[w].spec
                          /\ reconciles'[w].i = reconciles[w].i
        BY <1>1, <1>4 DEF OperatorInv, Progress, Length, NewLength
    <2>2. QED
        BY <1>2, <1>4, <2>1, ReconciliationType
<1>10. FreshSpecs'
    <2>1. SUFFICES ASSUME NEW w \in Workers, reconciles'[w] # Resting,
                          reconciles'[w].fresh
                   PROVE  /\ object'[reconciles'[w].owner].state = "live"
                          /\ object'[reconciles'[w].owner].spec = reconciles'[w].spec
        BY DEF FreshSpecs, Live
    <2>2. /\ reconciles[w] # Resting /\ reconciles[w].owner \in Owners
          /\ reconciles[w].fresh /\ reconciles[w].owner # o
          /\ reconciles'[w].owner = reconciles[w].owner
          /\ reconciles'[w].spec = reconciles[w].spec
        BY <1>2, <1>4, <2>1, ReconciliationType
    <2>3. QED
        BY <1>3, <2>2 DEF OperatorInv, FreshSpecs, Live
<1>11. \A p \in Owners : AtRest(p)' => p # o /\ AtRest(p)
    BY <1>1, <1>4 DEF AtRest, BeingReconciled, Reconciles
<1>12. ReadyComplete'
    BY <1>1, <1>3, <1>11 DEF OperatorInv, ReadyComplete, Live, Length, NewLength
<1>13. GoneMeansSilent'
    BY <1>1, <1>3 DEF OperatorInv, GoneMeansSilent, EntriesOf
<1>14. QED
    BY <1>5, <1>6, <1>7, <1>8, <1>9, <1>10, <1>12, <1>13 DEF OperatorInv

LEMMA UserKeepsOperatorInv ==
    ASSUME OperatorInv, UserStep
    PROVE  OperatorInv'
<1>1. /\ object \in [Owners -> {Absent} \cup Objects]
      /\ ready \in [Owners -> {"none", "active", "failed"}]
    BY DEF OperatorInv, OperatorTypeOK
<1>2. PICK o \in Owners : (\E s \in Specs : Create(o, s) \/ Edit(o, s)) \/ Delete(o)
    BY DEF UserStep
<1>3. ASSUME NEW s \in Specs, Create(o, s) \/ Edit(o, s) PROVE OperatorInv'
    <2>1. [state |-> "live", spec |-> s] \in Objects
        BY DEF Objects
    <2>2. /\ Write(o, [state |-> "live", spec |-> s]) /\ Admissible(o, s)
          /\ ready' = ready \/ ready' = [ready EXCEPT ![o] = "none"]
        BY <1>3 DEF Create, Edit
    <2>3. /\ ready' \in [Owners -> {"none", "active", "failed"}]
          /\ \A p \in Owners : p # o => ready'[p] = ready[p]
        BY <1>1, <2>2
    <2>4. QED
        BY <2>1, <2>2, <2>3, WriteKeepsOperatorInv
<1>4. CASE Delete(o)
    <2> DEFINE v == [object[o] EXCEPT !.state = "deleting"]
    <2>1. object[o] \in Objects
        BY <1>1, <1>4 DEF Delete, Live, Absent
    <2>2. v \in Objects /\ v.spec = object[o].spec /\ object[o] # Absent
        BY <2>1 DEF Objects, Absent
    <2>3. Admissible(o, v.spec)
        BY <2>2 DEF OperatorInv, SpecsAdmissible
    <2>4. Write(o, v) /\ ready' = ready
        BY <1>4 DEF Delete
    <2> HIDE DEF v
    <2>5. QED
        BY <1>1, <2>2, <2>3, <2>4, WriteKeepsOperatorInv
<1>5. QED
    BY <1>2, <1>3, <1>4
----------------------------------------------------------------------------
(* The workers.                                                            *)

LEMMA CleanKeepsOperatorInv ==
    ASSUME BaseInv, OperatorInv, NEW w \in Workers, NEW o \in Owners,
           NEW err \in BOOLEAN, Clean(w, o, err)
    PROVE  OperatorInv'
<1>1. /\ ~BeingReconciled(o) /\ ~Live(o) /\ o \in queue
      /\ RemoveAllSchedules(o[1], o[2])
      /\ object' = IF err THEN object ELSE [object EXCEPT ![o] = Absent]
      /\ queue' = IF object[o] = Absent THEN queue \ {o} ELSE queue
      /\ UNCHANGED <<ready, reconciles>>
    BY DEF Clean, Takes
<1>2. OperatorTypeOK /\ object \in [Owners -> {Absent} \cup Objects]
    BY DEF OperatorInv, OperatorTypeOK
<1>3. /\ workers' = workers /\ entries' \subseteq entries
      /\ \A p \in Owners : p # o => NewLength(p) = Length(p)
      /\ EntriesOf(o)' = {}
    <2>1. \A v \in Workers : workers[v] # Idle =>
              ~OwnedBy(workers[v].entry, o[1], o[2])
        BY <1>1, NobodyInside DEF OperatorInv
    <2>2. QED
        BY <1>1, <2>1, RemoveAllEffect
<1>4. /\ \A p \in Owners : p # o => object'[p] = object[p]
      /\ object'[o] \in {object[o], Absent}
    BY <1>1, <1>2
<1>5. object'[o].state # "live"
    BY <1>1, <1>4 DEF Live, Absent
<1>6. ASSUME NEW v \in Workers, reconciles[v] # Resting
      PROVE  reconciles[v].owner # o /\ reconciles[v].owner \in Owners
    BY <1>1, <1>2, <1>6, ReconciliationType DEF BeingReconciled, Reconciles
<1>7. OperatorTypeOK'
    <2>1. object' \in [Owners -> {Absent} \cup Objects] /\ queue' \subseteq Owners
        BY <1>1, <1>2 DEF OperatorTypeOK
    <2>2. QED
        BY <1>1, <1>2, <2>1 DEF OperatorTypeOK
<1>8. CallsBelong' /\ OnePerOwner'
    BY <1>1, <1>3 DEF OperatorInv, CallsBelong, OwnedBy, OnePerOwner
<1>9. SpecsAdmissible'
    <2>1. ASSUME NEW p \in Owners, object'[p] # Absent
          PROVE  object'[p] = object[p]
        BY <1>4, <2>1
    <2>2. QED
        BY <1>1, <1>4, <1>6, <2>1 DEF OperatorInv, SpecsAdmissible, Admissible
<1>10. Progress'
    <2>1. ASSUME NEW v \in Workers, reconciles[v].pc \in {"add", "active"}
          PROVE  NewLength(reconciles[v].owner) = Length(reconciles[v].owner)
        <3>1. reconciles[v] # Resting
            BY <2>1 DEF Resting
        <3>2. QED
            BY <1>3, <1>6, <3>1
    <2>2. reconciles' = reconciles
        BY <1>1
    <2>3. QED
        BY <2>1, <2>2 DEF OperatorInv, Progress, Length, NewLength
<1>11. FreshSpecs'
    BY <1>1, <1>4, <1>6 DEF OperatorInv, FreshSpecs, Live
<1>12. ReadyComplete'
    <2>1. SUFFICES ASSUME NEW p \in Owners, Live(p)', AtRest(p)', ready[p] = "active"
                   PROVE  NewLength(p) = SizeOf[object'[p].spec]
        BY <1>1 DEF ReadyComplete, Length, NewLength
    <2>2. p # o
        BY <1>5, <2>1 DEF Live
    <2>3. Live(p) /\ AtRest(p) /\ object'[p] = object[p]
        BY <1>1, <1>4, <2>1, <2>2 DEF Live, AtRest, BeingReconciled, Reconciles
    <2>4. QED
        BY <1>3, <2>1, <2>2, <2>3 DEF OperatorInv, ReadyComplete, NewLength
<1>13. GoneMeansSilent'
    <2>1. ASSUME NEW p \in Owners, object'[p] = Absent, p # o
          PROVE  EntriesOf(p)' = {}
        <3>1. EntriesOf(p) = {}
            BY <1>4, <2>1 DEF OperatorInv, GoneMeansSilent
        <3>2. QED
            BY <1>3, <3>1 DEF EntriesOf
    <2>2. QED
        BY <1>3, <2>1 DEF GoneMeansSilent
<1>14. QED
    BY <1>7, <1>8, <1>9, <1>10, <1>11, <1>12, <1>13 DEF OperatorInv

\* A worker begins: at "failed" with the schedules as they are, or at "add"
\* without any.
LEMMA BeginKeepsOperatorInv ==
    ASSUME BaseInv, OperatorInv, NEW w \in Workers, NEW o \in Owners,
           Decline(w, o) \/ Start(w, o)
    PROVE  OperatorInv'
<1> DEFINE pc == IF Start(w, o) THEN "add" ELSE "failed"
           begun == [pc |-> pc, owner |-> o, spec |-> object[o].spec, i |-> 1,
                     fresh |-> TRUE]
<1>1. /\ reconciles[w] = Resting /\ ~BeingReconciled(o) /\ Live(o) /\ o \in queue
      /\ queue' = queue \ {o} /\ UNCHANGED <<object, ready>>
      /\ reconciles' = [reconciles EXCEPT ![w] = begun]
      /\ pc = "add" => RemoveAllSchedules(o[1], o[2])
      /\ pc # "add" => UNCHANGED vars
    BY DEF Decline, Start, Takes, Proceeds
<1>2. /\ OperatorTypeOK /\ object \in [Owners -> {Absent} \cup Objects]
      /\ reconciles \in [Workers -> {Resting} \cup Reconciliation]
    BY DEF OperatorInv, OperatorTypeOK
<1>3. object[o] \in Objects /\ object[o].spec \in Specs /\ object[o] # Absent
    BY <1>1, <1>2 DEF Live, Absent, Objects
<1>4. pc \in {"add", "failed"}
    OBVIOUS
<1> HIDE DEF pc
<1>5. /\ begun \in Reconciliation /\ begun # Resting /\ begun.pc = pc
      /\ begun.owner = o /\ begun.spec = object[o].spec /\ begun.i = 1
    BY <1>3, <1>4 DEF Reconciliation, Resting
<1>6. /\ reconciles'[w] = begun
      /\ \A v \in Workers : v # w => reconciles'[v] = reconciles[v]
    BY <1>1, <1>2
<1> HIDE DEF begun
<1>7. /\ workers' = workers /\ entries' \subseteq entries
      /\ pc = "add" => NewLength(o) = 0
      /\ \A p \in Owners : p # o => NewLength(p) = Length(p)
    BY <1>1, <1>4, RemoveAllEffect DEF vars, Length, NewLength
<1>8. ASSUME NEW v \in Workers, reconciles[v] # Resting
      PROVE  v # w /\ reconciles[v].owner # o /\ reconciles[v].owner \in Owners
    BY <1>1, <1>2, <1>8, ReconciliationType DEF BeingReconciled, Reconciles
<1>9. OperatorTypeOK'
    BY <1>1, <1>2, <1>5 DEF OperatorTypeOK
<1>10. CallsBelong'
    <2>1. ASSUME NEW v \in Workers, workers[v] # Idle
          PROVE  reconciles'[v] = reconciles[v]
        <3>1. reconciles[v] # Resting
            BY <1>2, <2>1, ReconciliationType DEF OperatorInv, CallsBelong
        <3>2. QED
            BY <1>6, <1>8, <3>1
    <2>2. QED
        BY <1>7, <2>1 DEF OperatorInv, CallsBelong, OwnedBy
<1>11. OnePerOwner'
    BY <1>5, <1>6, <1>8 DEF OperatorInv, OnePerOwner
<1>12. SpecsAdmissible'
    <2>1. Admissible(o, object[o].spec)
        BY <1>3 DEF OperatorInv, SpecsAdmissible
    <2>2. ASSUME NEW v \in Workers, reconciles'[v] # Resting
          PROVE  /\ object[reconciles'[v].owner] # Absent
                 /\ Admissible(reconciles'[v].owner, reconciles'[v].spec)
        BY <1>3, <1>5, <1>6, <2>1, <2>2 DEF OperatorInv, SpecsAdmissible
    <2>3. QED
        BY <1>1, <2>2 DEF OperatorInv, SpecsAdmissible, Admissible
<1>13. Progress'
    <2>1. SizeOf[object[o].spec] \in Nat
        BY <1>3, SpecsAssumption
    <2>2. ASSUME NEW v \in Workers, v # w, reconciles[v].pc \in {"add", "active"}
          PROVE  /\ reconciles'[v] = reconciles[v]
                 /\ NewLength(reconciles[v].owner) = Length(reconciles[v].owner)
        <3>1. reconciles[v] # Resting
            BY <2>2 DEF Resting
        <3>2. QED
            BY <1>6, <1>7, <1>8, <2>2, <3>1
    <2>3. ASSUME NEW v \in Workers, v # w
          PROVE  /\ reconciles'[v].pc = "add" =>
                       /\ reconciles'[v].i <= SizeOf[reconciles'[v].spec] + 1
                       /\ NewLength(reconciles'[v].owner) = reconciles'[v].i - 1
                 /\ reconciles'[v].pc = "active" =>
                       NewLength(reconciles'[v].owner) = SizeOf[reconciles'[v].spec]
        <3>1. reconciles'[v] = reconciles[v]
            BY <1>6, <2>3
        <3>2. QED
            BY <2>2, <2>3, <3>1 DEF OperatorInv, Progress, Length, NewLength
    <2>4. /\ reconciles'[w].pc = "add" =>
                /\ reconciles'[w].i <= SizeOf[reconciles'[w].spec] + 1
                /\ NewLength(reconciles'[w].owner) = reconciles'[w].i - 1
          /\ reconciles'[w].pc # "active"
        <3>1. reconciles'[w].owner = o /\ reconciles'[w].i = 1
              /\ reconciles'[w].spec = object[o].spec /\ reconciles'[w].pc = pc
            BY <1>5, <1>6
        <3>2. pc = "add" => NewLength(reconciles'[w].owner) = 0
            BY <1>7, <3>1 DEF Length, NewLength
        <3>3. QED
            BY <1>4, <2>1, <3>1, <3>2
    <2>5. QED
        BY <2>3, <2>4 DEF Progress, Length, NewLength
<1>14. FreshSpecs'
    BY <1>1, <1>5, <1>6 DEF OperatorInv, FreshSpecs, Live
<1>15. ASSUME NEW p \in Owners, AtRest(p)'
      PROVE  p # o /\ AtRest(p)
    <2>1. p # o
        BY <1>5, <1>6, <1>15 DEF AtRest, BeingReconciled, Reconciles
    <2>2. ASSUME NEW v \in Workers, Reconciles(v, p) PROVE Reconciles(v, p)'
        <3>1. v # w
            BY <1>1, <2>2 DEF Reconciles
        <3>2. QED
            BY <1>6, <2>2, <3>1 DEF Reconciles
    <2>3. QED
        BY <1>1, <1>15, <2>1, <2>2 DEF AtRest, BeingReconciled
<1>16. ReadyComplete'
    <2>1. SUFFICES ASSUME NEW p \in Owners, Live(p), AtRest(p)', ready[p] = "active"
                   PROVE  NewLength(p) = SizeOf[object[p].spec]
        BY <1>1 DEF ReadyComplete, Live, Length, NewLength
    <2>2. QED
        BY <1>7, <1>15, <2>1 DEF OperatorInv, ReadyComplete, NewLength
<1>17. GoneMeansSilent'
    BY <1>1, <1>7 DEF OperatorInv, GoneMeansSilent, EntriesOf
<1>18. QED
    BY <1>9, <1>10, <1>11, <1>12, <1>13, <1>14, <1>16, <1>17 DEF OperatorInv
\* A step inside the service that changes no list.
LEMMA SameControlKeepsOperatorInv ==
    ASSUME OperatorInv, UNCHANGED controlVars, scheduleMap' = scheduleMap,
           CallsBelong', GoneMeansSilent'
    PROVE  OperatorInv'
<1>1. UNCHANGED <<object, ready, queue, reconciles>>
    BY DEF controlVars
<1>2. OperatorTypeOK' /\ OnePerOwner' /\ SpecsAdmissible'
    BY <1>1 DEF OperatorInv, OperatorTypeOK, OnePerOwner, SpecsAdmissible,
                Admissible
<1>3. Progress' /\ FreshSpecs'
    BY <1>1 DEF OperatorInv, Progress, Length, FreshSpecs, Live
<1>4. ReadyComplete'
    BY <1>1 DEF OperatorInv, ReadyComplete, Length, Live, AtRest, BeingReconciled,
                Reconciles
<1>5. QED
    BY <1>2, <1>3, <1>4 DEF OperatorInv

LEMMA AddNextKeepsOperatorInv ==
    ASSUME BaseInv, OperatorInv, NEW w \in Workers, AddNext(w)
    PROVE  OperatorInv'
<1> DEFINE o == reconciles[w].owner
           call == [pc |-> "addFunc",
                    entry |-> [ns |-> o[1], name |-> o[2],
                               tz |-> TimezoneOf[reconciles[w].spec], id |-> 0]]
<1>1. /\ reconciles[w].pc = "add" /\ reconciles[w].i <= SizeOf[reconciles[w].spec]
      /\ workers' = [workers EXCEPT ![w] = call]
      /\ UNCHANGED <<entries, scheduleMap>> /\ UNCHANGED controlVars
    BY DEF AddNext, At, AddSchedule
<1>2. OwnedBy(call.entry, o[1], o[2])
    BY DEF OwnedBy
<1>3. \A v \in Workers : workers'[v] = IF v = w THEN call ELSE workers[v]
    BY <1>1 DEF BaseInv, TypeInv, TypeOK
<1> HIDE DEF call
<1>4. reconciles' = reconciles
    BY <1>1 DEF controlVars
<1>5. CallsBelong'
    BY <1>1, <1>2, <1>3, <1>4 DEF OperatorInv, CallsBelong, OwnedBy
<1>6. GoneMeansSilent'
    BY <1>1 DEF controlVars, OperatorInv, GoneMeansSilent, EntriesOf
<1>7. QED
    BY <1>1, <1>5, <1>6, SameControlKeepsOperatorInv

LEMMA InsertKeepsOperatorInv ==
    ASSUME BaseInv, OperatorInv, NEW w \in Workers, Insert(w)
    PROVE  OperatorInv'
<1> DEFINE o == reconciles[w].owner
           e == workers'[w].entry
<1>1. /\ workers[w] # Idle /\ UNCHANGED controlVars
      /\ AddFunc(w) \/ AssignEntryID(w)
    BY DEF Insert, AddFunc, AssignEntryID
<1>2. workers[w] \in Call /\ workers \in [Workers -> {Idle} \cup Call]
    BY <1>1, CallType DEF BaseInv, TypeInv, TypeOK
<1>3. /\ reconciles[w].pc = "add" /\ OwnedBy(workers[w].entry, o[1], o[2])
      /\ reconciles[w].i <= SizeOf[reconciles[w].spec]
    BY <1>1 DEF OperatorInv, CallsBelong
<1>4. /\ \A v \in Workers : v # w => workers'[v] = workers[v]
      /\ e.ns = workers[w].entry.ns /\ e.name = workers[w].entry.name
      /\ entries' \subseteq entries \cup {e}
      /\ scheduleMap' = scheduleMap
    <2>1. CASE AddFunc(w)
        <3> DEFINE f == [workers[w].entry EXCEPT !.id =
                    nextID[workers[w].entry.ns][workers[w].entry.tz] + 1]
        <3>1. /\ workers' = [workers EXCEPT ![w] = [pc |-> "assign", entry |-> f]]
              /\ entries' = entries \cup {f} /\ scheduleMap' = scheduleMap
            BY <2>1 DEF AddFunc
        <3>2. f.ns = workers[w].entry.ns /\ f.name = workers[w].entry.name
            BY <1>2 DEF Call, NewEntry
        <3> HIDE DEF f
        <3>3. e = f
            BY <1>2, <3>1
        <3>4. QED
            BY <1>2, <3>1, <3>2, <3>3
    <2>2. CASE AssignEntryID(w)
        <3>1. /\ workers' = [workers EXCEPT ![w] = [@ EXCEPT !.pc = "track"]]
              /\ UNCHANGED <<entries, scheduleMap>>
            BY <2>2 DEF AssignEntryID, serviceVars
        <3>2. workers'[w] = [workers[w] EXCEPT !.pc = "track"]
            BY <1>2, <3>1
        <3>3. e = workers[w].entry
            BY <1>2, <3>2 DEF Call
        <3>4. QED
            BY <1>2, <3>1, <3>3
    <2>3. QED
        BY <1>1, <2>1, <2>2
<1> HIDE DEF e
<1>5. OwnedBy(e, o[1], o[2])
    BY <1>3, <1>4 DEF OwnedBy
<1>6. UNCHANGED <<reconciles, object>>
    BY <1>1 DEF controlVars
<1>7. CallsBelong'
    BY <1>3, <1>4, <1>5, <1>6 DEF OperatorInv, CallsBelong, OwnedBy, e
<1>8. GoneMeansSilent'
    <2>1. reconciles[w] # Resting /\ o \in Owners /\ object[o] # Absent
        <3>1. reconciles[w] # Resting
            BY <1>3 DEF Resting
        <3>2. QED
            BY <3>1, ReconciliationType DEF OperatorInv, SpecsAdmissible
    <2>2. ASSUME NEW p \in Owners, object[p] = Absent
          PROVE  ~OwnedBy(e, p[1], p[2])
        BY <1>5, <2>1, <2>2, OwnerPairs DEF OwnedBy
    <2>3. QED
        BY <1>4, <1>6, <2>2 DEF OperatorInv, GoneMeansSilent, EntriesOf
<1>9. QED
    BY <1>1, <1>4, <1>7, <1>8, SameControlKeepsOperatorInv

\* A worker goes on with its reconciliation: the other workers, the objects and
\* what is at rest are as before.
LEMMA GoesOn ==
    ASSUME OperatorInv, NEW w \in Workers, reconciles[w] # Resting,
           NEW c \in Reconciliation, reconciles' = [reconciles EXCEPT ![w] = c],
           c.owner = reconciles[w].owner, c.spec = reconciles[w].spec,
           c.fresh = reconciles[w].fresh, UNCHANGED <<object, ready, queue>>,
           entries' = entries,
           \A p \in Owners : p # c.owner => NewLength(p) = Length(p)
    PROVE  /\ OperatorTypeOK' /\ OnePerOwner' /\ SpecsAdmissible' /\ FreshSpecs'
           /\ ReadyComplete' /\ GoneMeansSilent'
           /\ \A v \in Workers : v # w =>
                 /\ reconciles'[v] = reconciles[v]
                 /\ reconciles[v] # Resting => reconciles[v].owner # c.owner
           /\ reconciles'[w] = c
<1>1. OperatorTypeOK /\ reconciles \in [Workers -> {Resting} \cup Reconciliation]
    BY DEF OperatorInv, OperatorTypeOK
<1>2. reconciles'[w] = c /\ \A v \in Workers : v # w => reconciles'[v] = reconciles[v]
    BY <1>1
<1>3. c # Resting
    BY DEF Reconciliation, Resting
<1>4. \A v \in Workers : v # w /\ reconciles[v] # Resting => reconciles[v].owner # c.owner
    BY DEF OperatorInv, OnePerOwner
<1>5. OperatorTypeOK' /\ OnePerOwner'
    BY <1>1, <1>2, <1>3, <1>4 DEF OperatorTypeOK, OperatorInv, OnePerOwner
<1>6. SpecsAdmissible' /\ FreshSpecs'
    <2>1. ASSUME NEW v \in Workers
          PROVE  /\ reconciles'[v] # Resting <=> reconciles[v] # Resting
                 /\ reconciles[v] # Resting =>
                       /\ reconciles'[v].owner = reconciles[v].owner
                       /\ reconciles'[v].spec = reconciles[v].spec
                       /\ reconciles'[v].fresh = reconciles[v].fresh
        BY <1>2, <1>3
    <2>2. SpecsAdmissible'
        BY <2>1 DEF OperatorInv, SpecsAdmissible, Admissible
    <2>3. FreshSpecs'
        BY <2>1 DEF OperatorInv, FreshSpecs, Live
    <2>4. QED
        BY <2>2, <2>3
<1>7. ASSUME NEW p \in Owners, AtRest(p)'
      PROVE  AtRest(p) /\ p # c.owner
    <2>1. p # c.owner
        BY <1>2, <1>3, <1>7 DEF AtRest, BeingReconciled, Reconciles
    <2>2. ASSUME NEW v \in Workers, Reconciles(v, p) PROVE Reconciles(v, p)'
        BY <1>2, <2>1, <2>2 DEF Reconciles
    <2>3. QED
        BY <1>7, <2>1, <2>2 DEF AtRest, BeingReconciled
<1>8. ReadyComplete'
    <2>1. SUFFICES ASSUME NEW p \in Owners, Live(p), AtRest(p)', ready[p] = "active"
                   PROVE  NewLength(p) = SizeOf[object[p].spec]
        BY DEF ReadyComplete, Live, Length, NewLength
    <2>2. QED
        BY <1>7, <2>1 DEF OperatorInv, ReadyComplete
<1>9. GoneMeansSilent'
    BY DEF OperatorInv, GoneMeansSilent, EntriesOf
<1>10. QED
    BY <1>2, <1>4, <1>5, <1>6, <1>8, <1>9

LEMMA AddedKeepsOperatorInv ==
    ASSUME BaseInv, OperatorInv, NEW w \in Workers, Added(w)
    PROVE  OperatorInv'
<1> DEFINE o == reconciles[w].owner
           c == [reconciles[w] EXCEPT !.i = @ + 1]
<1>1. /\ TrackSchedule(w) /\ workers[w] # Idle
      /\ reconciles' = [reconciles EXCEPT ![w] = c]
      /\ UNCHANGED <<object, ready, queue>>
    BY DEF Added, TrackSchedule
<1>2. /\ reconciles[w].pc = "add" /\ OwnedBy(workers[w].entry, o[1], o[2])
      /\ reconciles[w].i <= SizeOf[reconciles[w].spec]
    BY <1>1 DEF OperatorInv, CallsBelong
<1>3. /\ reconciles[w] # Resting /\ reconciles[w] \in Reconciliation /\ o \in Owners
      /\ reconciles[w].i \in Nat \ {0} /\ SizeOf[reconciles[w].spec] \in Nat
    <2>1. reconciles[w] # Resting
        BY <1>2 DEF Resting
    <2>2. QED
        BY <2>1, ReconciliationType DEF OperatorInv
<1>4. /\ c \in Reconciliation /\ c.owner = o /\ c.spec = reconciles[w].spec
      /\ c.fresh = reconciles[w].fresh /\ c.pc = "add"
      /\ c.i = reconciles[w].i + 1
    BY <1>2, <1>3 DEF Reconciliation
<1> HIDE DEF c
<1>5. /\ entries' = entries /\ workers' = [workers EXCEPT ![w] = Idle]
      /\ NewLength(o) = Length(o) + 1
      /\ \A p \in Owners : p # o => NewLength(p) = Length(p)
    BY <1>1, <1>2, <1>3, TrackEffect
<1>6. /\ OperatorTypeOK' /\ OnePerOwner' /\ SpecsAdmissible' /\ FreshSpecs'
      /\ ReadyComplete' /\ GoneMeansSilent'
      /\ \A v \in Workers : v # w =>
            /\ reconciles'[v] = reconciles[v]
            /\ reconciles[v] # Resting => reconciles[v].owner # o
      /\ reconciles'[w] = c
    <2>1. \A p \in Owners : p # c.owner => NewLength(p) = Length(p)
        BY <1>4, <1>5
    <2>2. /\ OperatorTypeOK' /\ OnePerOwner' /\ SpecsAdmissible' /\ FreshSpecs'
          /\ ReadyComplete' /\ GoneMeansSilent'
          /\ \A v \in Workers : v # w =>
                /\ reconciles'[v] = reconciles[v]
                /\ reconciles[v] # Resting => reconciles[v].owner # c.owner
          /\ reconciles'[w] = c
        BY <1>1, <1>3, <1>4, <1>5, <2>1, GoesOn, Zenon
    <2>3. QED
        BY <1>4, <2>2
<1>7. workers'[w] = Idle /\ \A v \in Workers : v # w => workers'[v] = workers[v]
    BY <1>5 DEF BaseInv, TypeInv, TypeOK
<1>8. CallsBelong'
    BY <1>6, <1>7 DEF OperatorInv, CallsBelong, OwnedBy
<1>9. Progress'
    <2>1. /\ c.i <= SizeOf[c.spec] + 1 /\ NewLength(c.owner) = c.i - 1
          /\ c.pc # "active"
        <3>1. Length(o) = reconciles[w].i - 1
            BY <1>2 DEF OperatorInv, Progress
        <3>2. QED
            BY <1>2, <1>3, <1>4, <1>5, <3>1
    <2>2. ASSUME NEW v \in Workers, v # w, reconciles[v].pc \in {"add", "active"}
          PROVE  NewLength(reconciles[v].owner) = Length(reconciles[v].owner)
        <3>1. reconciles[v] # Resting
            BY <2>2 DEF Resting
        <3>2. reconciles[v].owner \in Owners
            BY <3>1, ReconciliationType DEF OperatorInv
        <3>3. QED
            BY <1>5, <1>6, <2>2, <3>1, <3>2
    <2>3. QED
        BY <1>6, <2>1, <2>2 DEF OperatorInv, Progress, Length, NewLength
<1>10. QED
    BY <1>6, <1>8, <1>9 DEF OperatorInv

LEMMA AllAddedKeepsOperatorInv ==
    ASSUME OperatorInv, NEW w \in Workers, AllAdded(w)
    PROVE  OperatorInv'
<1> DEFINE c == [reconciles[w] EXCEPT !.pc = "active"]
<1>1. /\ reconciles[w].pc = "add" /\ workers[w] = Idle
      /\ reconciles[w].i > SizeOf[reconciles[w].spec]
      /\ reconciles' = [reconciles EXCEPT ![w] = c]
      /\ UNCHANGED <<object, ready, queue, entries, scheduleMap, workers>>
    BY DEF AllAdded, At, vars
<1>2. /\ reconciles[w] # Resting /\ reconciles[w] \in Reconciliation
      /\ reconciles[w].i \in Nat \ {0} /\ SizeOf[reconciles[w].spec] \in Nat
    <2>1. reconciles[w] # Resting
        BY <1>1 DEF Resting
    <2>2. QED
        BY <2>1, ReconciliationType DEF OperatorInv
<1>3. /\ c \in Reconciliation /\ c.owner = reconciles[w].owner
      /\ c.spec = reconciles[w].spec /\ c.fresh = reconciles[w].fresh
      /\ c.pc = "active"
    BY <1>2 DEF Reconciliation
<1> HIDE DEF c
<1>4. /\ OperatorTypeOK' /\ OnePerOwner' /\ SpecsAdmissible' /\ FreshSpecs'
      /\ ReadyComplete' /\ GoneMeansSilent'
      /\ \A v \in Workers : v # w => reconciles'[v] = reconciles[v]
      /\ reconciles'[w] = c
    <2>1. \A p \in Owners : p # c.owner => NewLength(p) = Length(p)
        BY <1>1 DEF Length, NewLength
    <2>2. /\ reconciles[w] # Resting /\ c \in Reconciliation
          /\ reconciles' = [reconciles EXCEPT ![w] = c]
          /\ UNCHANGED <<object, ready, queue>> /\ entries' = entries
        BY <1>1, <1>2, <1>3
    <2>3. /\ OperatorTypeOK' /\ OnePerOwner' /\ SpecsAdmissible' /\ FreshSpecs'
          /\ ReadyComplete' /\ GoneMeansSilent'
          /\ \A v \in Workers : v # w =>
                /\ reconciles'[v] = reconciles[v]
                /\ reconciles[v] # Resting => reconciles[v].owner # c.owner
          /\ reconciles'[w] = c
        BY <1>3, <2>1, <2>2, GoesOn, Zenon
    <2>4. QED
        BY <2>3
<1>5. CallsBelong'
    BY <1>1, <1>4 DEF OperatorInv, CallsBelong, OwnedBy
<1>6. Progress'
    <2>1. Length(c.owner) = SizeOf[c.spec]
        BY <1>1, <1>2, <1>3 DEF OperatorInv, Progress
    <2>2. QED
        BY <1>1, <1>3, <1>4, <2>1 DEF OperatorInv, Progress, Length
<1>7. QED
    BY <1>4, <1>5, <1>6 DEF OperatorInv

\* A worker is done: it reports, from a fresh copy, or fails to.
LEMMA ReportKeepsOperatorInv ==
    ASSUME OperatorInv, NEW w \in Workers,
           ReportFails(w) \/ \E sameSecond \in BOOLEAN : Report(w, sameSecond)
    PROVE  OperatorInv'
<1> DEFINE o == reconciles[w].owner
<1>1. /\ reconciles[w].pc \in {"active", "failed"}
      /\ reconciles' = [reconciles EXCEPT ![w] = Resting]
      /\ UNCHANGED <<object, entries, scheduleMap, workers>>
      /\ queue \subseteq queue' /\ queue' \subseteq queue \cup {o}
      /\ ready' = ready \/ ready' = [ready EXCEPT ![o] = reconciles[w].pc]
      /\ o \notin queue' =>
            reconciles[w].fresh /\ ready' = [ready EXCEPT ![o] = reconciles[w].pc]
    BY DEF ReportFails, Report, At, Rest, vars
<1>2. /\ reconciles[w] # Resting /\ o \in Owners
      /\ OperatorTypeOK /\ reconciles \in [Workers -> {Resting} \cup Reconciliation]
      /\ ready \in [Owners -> {"none", "active", "failed"}]
    <2>1. reconciles[w] # Resting
        BY <1>1 DEF Resting
    <2>2. QED
        BY <2>1, ReconciliationType DEF OperatorInv, OperatorTypeOK
<1>3. /\ reconciles'[w] = Resting
      /\ \A v \in Workers : v # w => reconciles'[v] = reconciles[v]
    BY <1>1, <1>2
<1>4. workers[w] = Idle
    BY <1>1 DEF OperatorInv, CallsBelong
<1>5. OperatorTypeOK'
    <2>1. /\ ready' \in [Owners -> {"none", "active", "failed"}]
          /\ reconciles' \in [Workers -> {Resting} \cup Reconciliation]
          /\ queue' \subseteq Owners
        BY <1>1, <1>2 DEF OperatorTypeOK
    <2>2. QED
        BY <1>1, <1>2, <2>1 DEF OperatorTypeOK
<1>6. CallsBelong' /\ OnePerOwner'
    BY <1>1, <1>3, <1>4 DEF OperatorInv, CallsBelong, OwnedBy, OnePerOwner
<1>7. SpecsAdmissible' /\ FreshSpecs'
    BY <1>1, <1>3 DEF OperatorInv, SpecsAdmissible, Admissible, FreshSpecs, Live
<1>8. Progress'
    <2>1. reconciles'[w].pc = "resting"
        BY <1>3 DEF Resting
    <2>2. QED
        BY <1>1, <1>3, <2>1 DEF OperatorInv, Progress, Length
<1>9. ReadyComplete'
    <2>1. SUFFICES ASSUME NEW p \in Owners, Live(p), AtRest(p)', ready'[p] = "active"
                   PROVE  Length(p) = SizeOf[object[p].spec]
        BY <1>1 DEF ReadyComplete, Live, Length
    <2>2. CASE p = o
        <3>1. reconciles[w].fresh /\ ready' = [ready EXCEPT ![o] = reconciles[w].pc]
            BY <1>1, <2>1, <2>2 DEF AtRest
        <3>2. reconciles[w].pc = "active"
            BY <1>2, <2>1, <2>2, <3>1
        <3>3. object[o].spec = reconciles[w].spec
            BY <1>2, <3>1 DEF OperatorInv, FreshSpecs
        <3>4. QED
            BY <2>2, <3>2, <3>3 DEF OperatorInv, Progress
    <2>3. CASE p # o
        <3>1. \A v \in Workers : Reconciles(v, p) => Reconciles(v, p)'
            BY <1>3, <2>3 DEF Reconciles
        <3>2. AtRest(p)
            BY <1>1, <2>1, <3>1 DEF AtRest, BeingReconciled
        <3>3. ready[p] = "active"
            BY <1>1, <1>2, <2>1, <2>3
        <3>4. QED
            BY <2>1, <3>2, <3>3 DEF OperatorInv, ReadyComplete
    <2>4. QED
        BY <2>2, <2>3
<1>10. GoneMeansSilent'
    BY <1>1 DEF OperatorInv, GoneMeansSilent, EntriesOf
<1>11. QED
    BY <1>5, <1>6, <1>7, <1>8, <1>9, <1>10 DEF OperatorInv

----------------------------------------------------------------------------
(* The other steps.                                                        *)

LEMMA ReconcileKeepsOperatorInv ==
    ASSUME BaseInv, OperatorInv, ReconcileStep
    PROVE  OperatorInv'
BY CleanKeepsOperatorInv, BeginKeepsOperatorInv, AddNextKeepsOperatorInv,
   InsertKeepsOperatorInv, AddedKeepsOperatorInv, AllAddedKeepsOperatorInv,
   ReportKeepsOperatorInv DEF ReconcileStep

\* Nothing of what OperatorInv speaks of changes but the queue, which grows.
LEMMA QueueGrows ==
    ASSUME OperatorInv, UNCHANGED <<object, ready, reconciles>>,
           UNCHANGED <<entries, scheduleMap, workers>>,
           queue \subseteq queue', queue' \subseteq Owners
    PROVE  OperatorInv'
<1>1. OperatorTypeOK' /\ OnePerOwner' /\ SpecsAdmissible'
    BY DEF OperatorInv, OperatorTypeOK, OnePerOwner, SpecsAdmissible, Admissible
<1>2. CallsBelong' /\ FreshSpecs' /\ GoneMeansSilent'
    BY DEF OperatorInv, CallsBelong, OwnedBy, FreshSpecs, Live, GoneMeansSilent,
           EntriesOf
<1>3. Progress' /\ ReadyComplete'
    BY DEF OperatorInv, Progress, Length, ReadyComplete, Live, AtRest,
           BeingReconciled, Reconciles
<1>4. QED
    BY <1>1, <1>2, <1>3 DEF OperatorInv

LEMMA CrashKeepsOperatorInv ==
    ASSUME OperatorInv, Crash
    PROVE  OperatorInv'
<1>1. /\ \A w \in Workers : workers'[w] = Idle /\ reconciles'[w] = Resting
      /\ entries' = {} /\ UNCHANGED <<object, ready>>
      /\ reconciles' = [w \in Workers |-> Resting]
      /\ queue' = {o \in Owners : object[o] # Absent}
    BY DEF Crash
<1>2. OperatorTypeOK' /\ OnePerOwner' /\ SpecsAdmissible' /\ FreshSpecs'
    BY <1>1 DEF OperatorInv, OperatorTypeOK, OnePerOwner, SpecsAdmissible,
                Admissible, FreshSpecs
<1>3. CallsBelong' /\ GoneMeansSilent'
    BY <1>1 DEF CallsBelong, GoneMeansSilent, EntriesOf
<1>4. Progress'
    BY <1>1 DEF Progress, Resting
<1>5. ReadyComplete'
    <2>1. \A o \in Owners : Live(o)' => object[o] # Absent
        BY <1>1 DEF Live, Absent
    <2>2. QED
        BY <1>1, <2>1 DEF ReadyComplete, AtRest
<1>6. QED
    BY <1>2, <1>3, <1>4, <1>5 DEF OperatorInv

LEMMA InitOperatorInv == OperatorInit => OperatorInv
<1> SUFFICES ASSUME OperatorInit PROVE OperatorInv
    OBVIOUS
<1>1. /\ \A o \in Owners : object[o] = Absent /\ ready[o] = "none"
      /\ \A w \in Workers : workers[w] = Idle /\ reconciles[w] = Resting
      /\ entries = {} /\ queue = {}
    BY DEF OperatorInit, Init
<1>2. OperatorTypeOK
    BY DEF OperatorInit, OperatorTypeOK
<1>3. OnePerOwner /\ SpecsAdmissible /\ FreshSpecs
    BY <1>1 DEF OnePerOwner, SpecsAdmissible, FreshSpecs
<1>4. CallsBelong /\ GoneMeansSilent
    BY <1>1 DEF CallsBelong, GoneMeansSilent, EntriesOf
<1>5. Progress /\ ReadyComplete
    BY <1>1 DEF Progress, Resting, ReadyComplete
<1>6. QED
    BY <1>2, <1>3, <1>4, <1>5 DEF OperatorInv

LEMMA NextOperatorInv ==
    BaseInv /\ OperatorInv /\ [OperatorNext]_operatorVars => OperatorInv'
<1> SUFFICES ASSUME BaseInv, OperatorInv, [OperatorNext]_operatorVars
             PROVE  OperatorInv'
    OBVIOUS
<1>0. queue \subseteq Owners
    BY DEF OperatorInv, OperatorTypeOK
<1>1. CASE UserStep
    BY <1>1, UserKeepsOperatorInv
<1>2. CASE ReconcileStep
    BY <1>2, ReconcileKeepsOperatorInv
<1>3. CASE RunStep /\ UNCHANGED controlVars
    <2>1. UNCHANGED <<workers, scheduleMap>>
        BY <1>3, RunStepFrame DEF serviceVars
    <2>2. UNCHANGED entries
        BY <1>3, RunStepFrame DEF serviceVars
    <2>3. UNCHANGED <<object, ready, queue, reconciles>>
        BY <1>3 DEF controlVars
    <2>4. QED
        BY <1>0, <2>1, <2>2, <2>3, QueueGrows
<1>4. CASE \E o \in Owners : Resync(o)
    BY <1>0, <1>4, QueueGrows DEF Resync, vars
<1>5. CASE Crash
    BY <1>5, CrashKeepsOperatorInv
<1>6. CASE UNCHANGED operatorVars
    BY <1>0, <1>6, QueueGrows DEF operatorVars, controlVars, vars
<1>7. QED
    BY <1>1, <1>2, <1>3, <1>4, <1>5, <1>6 DEF OperatorNext

----------------------------------------------------------------------------
(* The service under the controller.                                       *)

\* A step of the operator is a step of the service, or starts it anew.
LEMMA ServiceSteps ==
    OperatorInv /\ [OperatorNext]_operatorVars => [Next]_vars \/ Init'
<1> SUFFICES ASSUME OperatorInv, [OperatorNext]_operatorVars
             PROVE  [Next]_vars \/ Init'
    OBVIOUS
<1>1. CASE UserStep
    BY <1>1 DEF UserStep, Create, Edit, Delete, Write
<1>2. ASSUME NEW w \in Workers, NEW o \in Owners,
             (\E err \in BOOLEAN : Clean(w, o, err)) \/ Decline(w, o) \/ Start(w, o)
      PROVE  [Next]_vars
    <2>1. RemoveAllSchedules(o[1], o[2]) \/ UNCHANGED vars
        BY <1>2 DEF Clean, Decline, Start
    <2>2. QED
        BY <2>1, OwnerPairs DEF Next, RemovalStep
<1>3. ASSUME NEW w \in Workers, AddNext(w)
      PROVE  Next
    <2> DEFINE o == reconciles[w].owner
               tz == TimezoneOf[reconciles[w].spec]
    <2>1. AddSchedule(w, o[1], o[2], tz) /\ reconciles[w].pc = "add"
        BY <1>3 DEF AddNext, At
    <2>2. reconciles[w] # Resting
        BY <2>1 DEF Resting
    <2>3. o \in Owners /\ tz \in TimezonesOf[o[1]]
        BY <2>2, ReconciliationType DEF OperatorInv, SpecsAdmissible, Admissible
    <2>4. o[1] \in Namespaces /\ o[2] \in Names
        BY <2>3, OwnerPairs
    <2> HIDE DEF o, tz
    <2>5. QED
        BY <2>1, <2>3, <2>4 DEF Next, WorkerStep
<1>4. ASSUME NEW w \in Workers,
             \/ Insert(w) \/ Added(w) \/ AllAdded(w) \/ ReportFails(w)
             \/ \E sameSecond \in BOOLEAN : Report(w, sameSecond)
      PROVE  [Next]_vars
    <2>1. \/ AddFunc(w) \/ AssignEntryID(w) \/ TrackSchedule(w) \/ UNCHANGED vars
        BY <1>4 DEF Insert, Added, AllAdded, ReportFails, Report
    <2>2. QED
        BY <2>1 DEF Next, WorkerStep
<1>5. CASE RunStep /\ UNCHANGED controlVars
    BY <1>5 DEF Next
<1>6. CASE \E o \in Owners : Resync(o)
    BY <1>6 DEF Resync
<1>7. CASE Crash
    BY <1>7 DEF Crash, Init
<1>8. CASE UNCHANGED operatorVars
    BY <1>8 DEF operatorVars
<1>9. CASE ReconcileStep
    BY <1>2, <1>3, <1>4, <1>9 DEF ReconcileStep
<1>10. QED
    BY <1>1, <1>5, <1>6, <1>7, <1>8, <1>9 DEF OperatorNext

LEMMA RestartBaseInv == Init' => BaseInv'
BY InitBaseInv, PTL

LEMMA RestartLiveInv == Init' => LiveInv'
BY InitLiveInv, PTL

LEMMA OperatorBase ==
    OperatorSpec => [](BaseInv /\ OperatorInv)
<1>1. OperatorInit => BaseInv /\ OperatorInv
    BY InitBaseInv, InitOperatorInv DEF OperatorInit
<1>2. BaseInv /\ OperatorInv /\ [OperatorNext]_operatorVars => BaseInv' /\ OperatorInv'
    BY NextBaseInv, NextOperatorInv, ServiceSteps, RestartBaseInv
<1>3. QED
    BY <1>1, <1>2, PTL DEF OperatorSpec

LEMMA OperatorLive ==
    OneTimezonePerNamespace => (OperatorSpec => []LiveInv)
<1> SUFFICES ASSUME OneTimezonePerNamespace PROVE OperatorSpec => []LiveInv
    OBVIOUS
<1>1. OperatorInit => LiveInv
    BY InitLiveInv DEF OperatorInit
<1>2. BaseInv /\ OperatorInv /\ LiveInv /\ [OperatorNext]_operatorVars => LiveInv'
    BY NextLiveInv, ServiceSteps, RestartLiveInv
<1>3. QED
    BY <1>1, <1>2, OperatorBase, PTL DEF OperatorSpec

\* The objects, their conditions, the queue and the reconciliations have their
\* types whatever the users and the workers do.
THEOREM OperatorTypeCorrect == OperatorSpec => []OperatorTypeOK
<1>1. OperatorInv => OperatorTypeOK
    BY DEF OperatorInv
<1>2. QED
    BY <1>1, OperatorBase, PTL

\* An object that is gone has no entry left, whatever timezones the specs of
\* its namespace use.
THEOREM GoneObjectsAreSilent == OperatorSpec => []GoneMeansSilent
<1>1. OperatorInv => GoneMeansSilent
    BY DEF OperatorInv
<1>2. QED
    BY <1>1, OperatorBase, PTL

----------------------------------------------------------------------------
(* What an active object has.                                              *)

LEMMA InvActive ==
    ASSUME OneTimezonePerNamespace, BaseInv, LiveInv, OperatorInv
    PROVE  ActiveMeansFiring
<1> SUFFICES ASSUME NEW o \in Owners, Live(o), AtRest(o), ready[o] = "active"
             PROVE  Firing(o, object[o].spec)
    BY DEF ActiveMeansFiring
<1> DEFINE ids == scheduleMap[o[1]][o[2]]
<1>1. o[1] \in Namespaces /\ o[2] \in Names
    BY OwnerPairs
<1>2. Len(ids) = SizeOf[object[o].spec]
    BY DEF OperatorInv, ReadyComplete, Length
<1>3. \A j, k \in DOMAIN ids : ids[j] = ids[k] => j = k
    BY <1>1 DEF LiveInv, ListsDistinct, NoDuplicates
<1>4. ToSet(ids) = Tracked(o[1], o[2])
    BY DEF Tracked
<1>5. ASSUME NEW e \in EntriesOf(o) PROVE e.id \in Tracked(o[1], o[2])
    <2>1. e \in entries /\ e.ns = o[1] /\ e.name = o[2]
        BY DEF EntriesOf, OwnedBy
    <2>2. ~InsideAdd(e)
        <3>1. ~BeingReconciled(o)
            BY DEF AtRest
        <3>2. \A w \in Workers : workers[w] # Idle =>
                 ~OwnedBy(workers[w].entry, o[1], o[2])
            BY <3>1, NobodyInside DEF OperatorInv
        <3>3. QED
            BY <2>1, <3>2 DEF InsideAdd, OwnedBy
    <2>3. QED
        BY <2>1, <2>2 DEF BaseInv, NoOrphan
<1>6. ASSUME NEW id \in Tracked(o[1], o[2])
      PROVE  \E e \in EntriesOf(o) : e.id = id
    BY <1>1 DEF LiveInv, TrackedIsLive, EntriesOf
<1>7. {e.id : e \in EntriesOf(o)} = ToSet(ids)
    BY <1>4, <1>5, <1>6
<1>8. ASSUME NEW e \in EntriesOf(o) PROVE e.tz = TimezoneOf[object[o].spec]
    <2>1. e \in entries /\ e.ns = o[1]
        BY DEF EntriesOf, OwnedBy
    <2>2. e.tz \in TimezonesOf[o[1]]
        BY <1>1, <2>1 DEF BaseInv, ZonesExist, LiveInv, SpecZones
    <2>3. TimezoneOf[object[o].spec] \in TimezonesOf[o[1]]
        <3>1. object[o] # Absent
            BY DEF Live, Absent
        <3>2. QED
            BY <3>1 DEF OperatorInv, SpecsAdmissible, Admissible
    <2>4. QED
        BY <1>1, <2>2, <2>3 DEF OneTimezonePerNamespace
<1>9. QED
    BY <1>2, <1>3, <1>7, <1>8 DEF Firing

\* When no namespace has specs in two timezones, an object whose condition says
\* that its schedules are active has exactly those firing.
THEOREM ActiveObjectsFire ==
    OneTimezonePerNamespace => (OperatorSpec => []ActiveMeansFiring)
<1> SUFFICES ASSUME OneTimezonePerNamespace
             PROVE  OperatorSpec => []ActiveMeansFiring
    OBVIOUS
<1>1. BaseInv /\ LiveInv /\ OperatorInv => ActiveMeansFiring
    BY InvActive
<1>2. QED
    BY <1>1, OperatorBase, OperatorLive, PTL

----------------------------------------------------------------------------
(* The promise.                                                            *)

\* As many entries as the list is long, when the owner has no call under way.
LEMMA CompleteEntries ==
    ASSUME OneTimezonePerNamespace, BaseInv, LiveInv,
           NEW o \in Owners, NEW s \in Specs, Admissible(o, s),
           Length(o) = SizeOf[s],
           \A w \in Workers : workers[w] # Idle =>
               ~OwnedBy(workers[w].entry, o[1], o[2])
    PROVE  EntriesOf(o) \in CompleteJobs[s]
<1> DEFINE ids == scheduleMap[o[1]][o[2]]
           n == Len(ids)
           J == EntriesOf(o)
<1>1. o[1] \in Namespaces /\ o[2] \in Names
    BY OwnerPairs
<1>2. ids \in Seq(JobIDs) /\ n \in Nat /\ DOMAIN ids = 1..n
    BY LengthType DEF BaseInv, TypeInv
<1>3. \A j, k \in 1..n : ids[j] = ids[k] => j = k
    BY <1>1, <1>2 DEF LiveInv, ListsDistinct, NoDuplicates
<1>4. Tracked(o[1], o[2]) = {ids[i] : i \in 1..n}
    BY <1>2 DEF Tracked, ToSet
<1>5. ASSUME NEW e \in J PROVE \E i \in 1..n : ids[i] = e.id
    <2>1. e \in entries /\ e.ns = o[1] /\ e.name = o[2] /\ ~InsideAdd(e)
        BY DEF EntriesOf, OwnedBy, InsideAdd
    <2>2. e.id \in Tracked(o[1], o[2])
        BY <2>1 DEF BaseInv, NoOrphan
    <2>3. QED
        BY <1>4, <2>2
<1>6. ASSUME NEW i \in 1..n PROVE \E e \in J : e.id = ids[i]
    <2>1. ids[i] \in Tracked(o[1], o[2])
        BY <1>4
    <2>2. QED
        BY <1>1, <2>1 DEF LiveInv, TrackedIsLive, EntriesOf
<1>7. \A e, f \in J : e.id = f.id => e = f
    BY DEF LiveInv, UniqueEntries, EntriesOf, OwnedBy
<1>8. Cardinality(J) = n
    <2> DEFINE f == [i \in 1..n |-> CHOOSE e \in J : e.id = ids[i]]
    <2> HIDE DEF J, n, ids
    <2>1. \A i \in 1..n : f[i] \in J /\ f[i].id = ids[i]
        BY <1>6
    <2>2. f \in [1..n -> J]
        BY <2>1
    <2>3. \A i, k \in 1..n : f[i] = f[k] => i = k
        BY <1>3, <2>1
    <2>4. \A e \in J : \E i \in 1..n : f[i] = e
        BY <1>5, <1>7, <2>1
    <2> HIDE DEF f
    <2>5. f \in Bijection(1..n, J)
        BY <2>2, <2>3, <2>4 DEF Bijection, Injection, Surjection, IsInjective
    <2>6. ExistsBijection(1..n, J)
        BY <2>5 DEF ExistsBijection
    <2>7. QED
        BY <1>2, <2>6, FS_CountingElements
<1>9. \A e \in J : e.tz = TimezoneOf[s]
    <2>1. ASSUME NEW e \in J PROVE e.tz \in TimezonesOf[o[1]]
        BY <1>1 DEF EntriesOf, OwnedBy, BaseInv, ZonesExist, LiveInv, SpecZones
    <2>2. QED
        BY <1>1, <2>1 DEF OneTimezonePerNamespace, Admissible
<1>10. J \in SUBSET Entry
    BY DEF EntriesOf, BaseInv, TypeInv, TypeOK
<1>11. n = SizeOf[s]
    BY DEF Length
<1> HIDE DEF J, n
<1>12. J \in CompleteJobs[s]
    BY <1>8, <1>9, <1>10, <1>11 DEF CompleteJobs
<1>13. QED
    BY <1>12 DEF J

\* One owner's jobs change.
LEMMA JobsChange ==
    ASSUME NEW o \in Owners, NEW J, EntriesOf(o)' = J,
           \A p \in Owners : p # o => EntriesOf(p)' = EntriesOf(p)
    PROVE  FiringJobs' = [FiringJobs EXCEPT ![o] = J]
BY DEF FiringJobs

LEMMA SameJobs ==
    ASSUME entries' = entries
    PROVE  FiringJobs' = FiringJobs
BY DEF FiringJobs, EntriesOf

\* One owner comes to wait for the controller, or comes to rest.
LEMMA OutstandingChange ==
    ASSUME NEW o \in Owners,
           \A p \in Owners : p # o => (AtRest(p)' <=> AtRest(p))
    PROVE  /\ ~AtRest(o)' => Outstanding' = Outstanding \cup {o}
           /\ AtRest(o)' => Outstanding' = Outstanding \ {o}
           /\ ~AtRest(o) /\ ~AtRest(o)' => Outstanding' = Outstanding
BY DEF Outstanding

\* A step of a worker that has, before and after, no object but o.
LEMMA OthersRest ==
    ASSUME NEW w \in Workers, NEW o \in Owners,
           \A v \in Workers : v # w => reconciles'[v] = reconciles[v],
           \A p \in Owners : p # o => ~Reconciles(w, p) /\ ~Reconciles(w, p)',
           \A p \in Owners : p # o => (p \in queue' <=> p \in queue)
    PROVE  \A p \in Owners : p # o => (AtRest(p)' <=> AtRest(p))
<1> SUFFICES ASSUME NEW p \in Owners, p # o PROVE AtRest(p)' <=> AtRest(p)
    OBVIOUS
<1>1. \A v \in Workers : Reconciles(v, p)' <=> Reconciles(v, p)
    BY DEF Reconciles
<1>2. QED
    BY <1>1 DEF AtRest, BeingReconciled

\* The owner's entries go, and no one else's.
LEMMA RemovesAllJobs ==
    ASSUME BaseInv, LiveInv, OperatorInv, NEW o \in Owners, ~BeingReconciled(o),
           RemoveAllSchedules(o[1], o[2])
    PROVE  FiringJobs' = [FiringJobs EXCEPT ![o] = {}]
<1>1. EntriesOf(o)' = {}
    <2>1. \A w \in Workers : workers[w] # Idle =>
              ~OwnedBy(workers[w].entry, o[1], o[2])
        BY NobodyInside DEF OperatorInv
    <2>2. QED
        BY <2>1, RemoveAllEffect
<1>2. o[1] \in Namespaces /\ o[2] \in Names
    BY OwnerPairs
<1>3. entries' = {e \in entries :
                    ~(OwnedBy(e, o[1], o[2]) /\ e.id \in Tracked(o[1], o[2]))}
    BY <1>2, RemovesOwnEntries DEF RemoveAllSchedules
<1>4. ASSUME NEW p \in Owners, p # o PROVE EntriesOf(p)' = EntriesOf(p)
    BY <1>3, <1>4, OwnerPairs DEF EntriesOf, OwnedBy
<1>5. QED
    BY <1>1, <1>4, JobsChange
LEMMA WriteWakes ==
    ASSUME OperatorInv, NEW o \in Owners, NEW v, Write(o, v)
    PROVE  Outstanding' = Outstanding \cup {o} /\ FiringJobs' = FiringJobs
<1>1. /\ queue' = queue \cup {o} /\ entries' = entries
      /\ reconciles' = [w \in Workers |->
            IF Reconciles(w, o) THEN [reconciles[w] EXCEPT !.fresh = FALSE]
            ELSE reconciles[w]]
    BY DEF Write, vars
<1>2. ASSUME NEW w \in Workers, NEW p \in Owners
      PROVE  Reconciles(w, p)' <=> Reconciles(w, p)
    <2>1. CASE Reconciles(w, o)
        <3>1. reconciles[w] \in Reconciliation
            BY <2>1, ReconciliationType DEF OperatorInv, Reconciles
        <3>2. /\ reconciles'[w] = [reconciles[w] EXCEPT !.fresh = FALSE]
              /\ reconciles'[w].owner = reconciles[w].owner
              /\ reconciles'[w].pc = reconciles[w].pc
            BY <1>1, <2>1, <3>1 DEF Reconciliation
        <3>3. reconciles[w] # Resting /\ reconciles'[w] # Resting
            BY <3>1, <3>2 DEF Reconciliation, Resting
        <3>4. QED
            BY <3>2, <3>3 DEF Reconciles
    <2>2. CASE ~Reconciles(w, o)
        <3>1. reconciles'[w] = reconciles[w]
            BY <1>1, <2>2
        <3>2. QED
            BY <3>1 DEF Reconciles
    <2>3. QED
        BY <2>1, <2>2
<1>3. \A p \in Owners : p # o => (AtRest(p)' <=> AtRest(p))
    BY <1>1, <1>2 DEF AtRest, BeingReconciled
<1>4. ~AtRest(o)'
    BY <1>1 DEF AtRest
<1>5. QED
    BY <1>1, <1>3, <1>4, OutstandingChange, SameJobs

LEMMA UserKeepsPromise ==
    ASSUME OperatorInv, UserStep
    PROVE  Promise!Next
<1>0. /\ object \in [Owners -> {Absent} \cup Objects]
      /\ ready \in [Owners -> {"none", "active", "failed"}]
    BY DEF OperatorInv, OperatorTypeOK
<1>1. ASSUME NEW o \in Owners, NEW s \in Specs, Create(o, s) PROVE Promise!Next
    <2> DEFINE v == [state |-> "live", spec |-> s]
    <2>1. /\ object[o] = Absent /\ object' = [object EXCEPT ![o] = v]
          /\ ready' = [ready EXCEPT ![o] = "none"] /\ Write(o, v)
        BY <1>1 DEF Create, Write
    <2> HIDE DEF v
    <2>2. Claims' = [Claims EXCEPT ![o] = FALSE]
        BY <1>0, <2>1 DEF Claims
    <2>3. Outstanding' = Outstanding \cup {o} /\ FiringJobs' = FiringJobs
        BY <2>1, WriteWakes
    <2>4. Promise!Adopt(o, s)
        BY <2>1, <2>2, <2>3 DEF Promise!Adopt, Promise!Absent, Promise!Object, Absent, v
    <2>5. QED
        BY <2>4 DEF Promise!Next
<1>2. ASSUME NEW o \in Owners, NEW v \in Objects, Write(o, v), object[o] # Absent,
             ready' = ready
      PROVE  /\ Claims' = Claims /\ FiringJobs' = FiringJobs
             /\ Outstanding' = Outstanding \cup {o}
             /\ object' = [object EXCEPT ![o] = v]
    <2>1. object' = [object EXCEPT ![o] = v]
        BY <1>2 DEF Write
    <2>2. v # Absent
        BY DEF Objects, Absent
    <2>3. Claims' = Claims
        BY <1>0, <1>2, <2>1, <2>2 DEF Claims
    <2>4. QED
        BY <1>2, <2>1, <2>3, WriteWakes
<1>3. ASSUME NEW o \in Owners, NEW s \in Specs, Edit(o, s) PROVE Promise!Next
    <2>1. /\ object[o] \in Objects /\ object[o] # Absent /\ ready' = ready
          /\ Write(o, [state |-> "live", spec |-> s])
        BY <1>0, <1>3 DEF Edit, Live, Absent
    <2>2. /\ [state |-> "live", spec |-> s] = [object[o] EXCEPT !.spec = s]
          /\ [object[o] EXCEPT !.spec = s] \in Objects
        BY <1>3, <2>1 DEF Objects, Edit, Live
    <2>3. /\ Claims' = Claims /\ FiringJobs' = FiringJobs
          /\ Outstanding' = Outstanding \cup {o}
          /\ object' = [object EXCEPT ![o] = [object[o] EXCEPT !.spec = s]]
        BY <1>2, <2>1, <2>2
    <2>4. Promise!Edit(o, s)
        BY <2>1, <2>3 DEF Promise!Edit, Promise!Absent, Absent
    <2>5. QED
        BY <2>4 DEF Promise!Next
<1>4. ASSUME NEW o \in Owners, Delete(o) PROVE Promise!Next
    <2>1. /\ object[o] \in Objects /\ object[o] # Absent /\ ready' = ready
          /\ Write(o, [object[o] EXCEPT !.state = "deleting"])
          /\ object[o].state = "live"
        BY <1>0, <1>4 DEF Delete, Live, Absent
    <2>2. [object[o] EXCEPT !.state = "deleting"] \in Objects
        BY <2>1 DEF Objects
    <2>3. /\ Claims' = Claims /\ FiringJobs' = FiringJobs
          /\ Outstanding' = Outstanding \cup {o}
          /\ object' = [object EXCEPT ![o] = [object[o] EXCEPT !.state = "deleting"]]
        BY <1>2, <2>1, <2>2
    <2>4. Promise!Delete(o)
        BY <2>1, <2>3 DEF Promise!Delete, Promise!Live
    <2>5. QED
        BY <2>4 DEF Promise!Next
<1>5. QED
    BY <1>1, <1>3, <1>4 DEF UserStep

\* The first step of a reconciliation.
LEMMA BeginKeepsPromise ==
    ASSUME BaseInv, LiveInv, OperatorInv, NEW w \in Workers, NEW o \in Owners,
           \/ \E err \in BOOLEAN : Clean(w, o, err)
           \/ Decline(w, o)
           \/ Start(w, o)
    PROVE  [Promise!Next]_(Promise!vars)
<1>0. /\ object \in [Owners -> {Absent} \cup Objects]
      /\ reconciles \in [Workers -> {Resting} \cup Reconciliation]
    BY DEF OperatorInv, OperatorTypeOK
<1>1. /\ reconciles[w] = Resting /\ o \in queue /\ ~BeingReconciled(o)
      /\ ~AtRest(o) /\ o \in Outstanding
    BY DEF Clean, Decline, Start, Takes, AtRest, Outstanding
<1>2. CASE Decline(w, o) \/ Start(w, o)
    <2> DEFINE c(pc) == [pc |-> pc, owner |-> o, spec |-> object[o].spec, i |-> 1,
                         fresh |-> TRUE]
    <2>1. PICK pc \in {"failed", "add"} : reconciles' = [reconciles EXCEPT ![w] = c(pc)]
        BY <1>2 DEF Decline, Start, Proceeds
    <2>2. c(pc) # Resting /\ c(pc).owner = o
        BY DEF Resting
    <2> HIDE DEF c
    <2>3. /\ reconciles'[w] = c(pc)
          /\ \A v \in Workers : v # w => reconciles'[v] = reconciles[v]
          /\ queue' = queue \ {o} /\ object' = object /\ ready' = ready
        BY <1>0, <1>2, <2>1 DEF Decline, Start
    <2>4. \A p \in Owners : p # o => ~Reconciles(w, p) /\ ~Reconciles(w, p)'
        BY <1>1, <2>2, <2>3 DEF Reconciles
    <2>5. ~AtRest(o)'
        BY <2>2, <2>3 DEF AtRest, BeingReconciled, Reconciles
    <2>6. \A p \in Owners : p # o => (AtRest(p)' <=> AtRest(p))
        BY <2>3, <2>4, OthersRest
    <2>7. Outstanding' = Outstanding
        BY <1>1, <2>5, <2>6, OutstandingChange
    <2>8. Claims' = Claims
        BY <2>3 DEF Claims
    <2>9. CASE Decline(w, o)
        <3>1. FiringJobs' = FiringJobs
            BY <2>9, SameJobs DEF Decline, vars
        <3>2. QED
            BY <2>3, <2>7, <2>8, <3>1 DEF Promise!vars
    <2>10. CASE Start(w, o)
        <3>1. FiringJobs' = [FiringJobs EXCEPT ![o] = {}]
            BY <1>1, <2>10, RemovesAllJobs DEF Start
        <3>2. Promise!RemoveAll(o)
            BY <1>1, <2>3, <2>7, <2>8, <3>1 DEF Promise!RemoveAll
        <3>3. QED
            BY <3>2 DEF Promise!Next
    <2>11. QED
        BY <1>2, <2>9, <2>10
<1>3. ASSUME NEW err \in BOOLEAN, Clean(w, o, err)
      PROVE  [Promise!Next]_(Promise!vars)
    <2>1. /\ object' = IF err THEN object ELSE [object EXCEPT ![o] = Absent]
          /\ queue' = IF object[o] = Absent THEN queue \ {o} ELSE queue
          /\ UNCHANGED <<ready, reconciles>> /\ ~Live(o)
        BY <1>3 DEF Clean
    <2>2. FiringJobs' = [FiringJobs EXCEPT ![o] = {}]
        BY <1>1, <1>3, RemovesAllJobs DEF Clean
    <2>3. /\ \A p \in Owners : p # o => (AtRest(p)' <=> AtRest(p))
          /\ object[o] # Absent => ~AtRest(o)'
          /\ object[o] = Absent => AtRest(o)'
        BY <1>1, <2>1 DEF AtRest, BeingReconciled, Reconciles
    <2>4. CASE object[o] = Absent
        <3>1. object' = object
            BY <1>0, <2>1, <2>4
        <3>2. FiringJobs[o] = {}
            BY <2>4 DEF FiringJobs, OperatorInv, GoneMeansSilent
        <3>3. FiringJobs' = FiringJobs
            BY <2>2, <3>2 DEF FiringJobs
        <3>4. Outstanding' = Outstanding \ {o}
            BY <2>3, <2>4, OutstandingChange
        <3>5. Claims' = Claims
            BY <2>1, <3>1 DEF Claims
        <3>6. Promise!Rest(o)
            BY <2>1, <3>1, <3>3, <3>4, <3>5 DEF Promise!Rest, Promise!Live, Live
        <3>7. QED
            BY <3>6 DEF Promise!Next
    <2>5. CASE object[o] # Absent /\ err
        <3>1. Outstanding' = Outstanding
            BY <1>1, <2>3, <2>5, OutstandingChange
        <3>2. object' = object
            BY <2>1, <2>5
        <3>3. Claims' = Claims
            BY <2>1, <3>2 DEF Claims
        <3>4. Promise!RemoveAll(o)
            BY <1>1, <2>2, <3>1, <3>2, <3>3 DEF Promise!RemoveAll
        <3>5. QED
            BY <3>4 DEF Promise!Next
    <2>6. CASE object[o] # Absent /\ ~err
        <3>1. Outstanding' = Outstanding
            BY <1>1, <2>3, <2>6, OutstandingChange
        <3>2. object' = [object EXCEPT ![o] = Absent]
            BY <2>1, <2>6
        <3>3. Claims' = [Claims EXCEPT ![o] = FALSE]
            BY <1>0, <2>1, <3>2 DEF Claims
        <3>4. object[o].state = "deleting"
            BY <1>0, <2>1, <2>6 DEF Objects, Live
        <3>5. Promise!Drop(o)
            BY <1>1, <2>2, <3>1, <3>2, <3>3, <3>4
            DEF Promise!Drop, Promise!Absent, Absent
        <3>6. QED
            BY <3>5 DEF Promise!Next
    <2>7. QED
        BY <2>4, <2>5, <2>6
<1>4. QED
    BY <1>2, <1>3
\* Nothing of what the promise speaks of changes.
LEMMA Stutters ==
    ASSUME entries' = entries, UNCHANGED <<object, ready, queue, reconciles>>
    PROVE  UNCHANGED Promise!vars
<1>1. FiringJobs' = FiringJobs
    BY SameJobs
<1>2. Claims' = Claims
    BY DEF Claims
<1>3. Outstanding' = Outstanding
    BY DEF Outstanding, AtRest, BeingReconciled, Reconciles
<1>4. QED
    BY <1>1, <1>2, <1>3 DEF Promise!vars

\* AddFunc is the moment from which a job can fire.
LEMMA InsertKeepsPromise ==
    ASSUME BaseInv, BaseInv', OperatorInv, NEW w \in Workers, Insert(w)
    PROVE  [Promise!Next]_(Promise!vars)
<1>1. UNCHANGED <<object, ready, queue, reconciles>>
    BY DEF Insert, controlVars
<1>2. CASE AssignEntryID(w)
    BY <1>1, <1>2, Stutters DEF AssignEntryID, serviceVars
<1>3. CASE AddFunc(w)
    <2> DEFINE f == [workers[w].entry EXCEPT !.id =
                        nextID[workers[w].entry.ns][workers[w].entry.tz] + 1]
    <2>1. workers[w] # Idle /\ entries' = entries \cup {f}
        BY <1>3 DEF AddFunc
    <2>2. workers[w] \in Call
        BY <2>1, CallType DEF BaseInv, TypeInv
    <2>3. f.ns = workers[w].entry.ns /\ f.name = workers[w].entry.name
        BY <2>2 DEF Call, NewEntry
    <2> HIDE DEF f
    <2>4. f \in Entry
        BY <2>1 DEF BaseInv, TypeInv, TypeOK
    <2>5. /\ reconciles[w].pc = "add"
          /\ OwnedBy(f, reconciles[w].owner[1], reconciles[w].owner[2])
        BY <2>1, <2>3 DEF OperatorInv, CallsBelong, OwnedBy
    <2>6. PICK o \in Owners : /\ o = reconciles[w].owner /\ OwnedBy(f, o[1], o[2])
                              /\ reconciles[w] # Resting /\ object[o] # Absent
        <3>1. reconciles[w] # Resting
            BY <2>5 DEF Resting
        <3>2. QED
            BY <2>5, <3>1, ReconciliationType DEF OperatorInv, SpecsAdmissible
    <2>7. o \in Outstanding
        BY <2>6 DEF Outstanding, AtRest, BeingReconciled, Reconciles
    <2>8. Claims' = Claims
        BY <1>1 DEF Claims
    <2>9. Outstanding' = Outstanding
        BY <1>1 DEF Outstanding, AtRest, BeingReconciled, Reconciles
    <2>10. EntriesOf(o)' = EntriesOf(o) \cup {f}
        BY <2>1, <2>6 DEF EntriesOf, OwnedBy
    <2>11. ASSUME NEW p \in Owners, p # o PROVE EntriesOf(p)' = EntriesOf(p)
        BY <2>1, <2>6, <2>11, OwnerPairs DEF EntriesOf, OwnedBy
    <2>12. FiringJobs' = [FiringJobs EXCEPT ![o] = EntriesOf(o) \cup {f}]
        BY <2>6, <2>10, <2>11, JobsChange
    <2>13. FiringJobs' = [FiringJobs EXCEPT ![o] = @ \cup {f}]
        BY <2>6, <2>12 DEF FiringJobs
    <2>14. Promise!Install(o)
        BY <1>1, <2>4, <2>6, <2>7, <2>8, <2>9, <2>13
        DEF Promise!Install, Promise!Absent, Absent
    <2>15. QED
        BY <2>6, <2>14 DEF Promise!Next
<1>4. QED
    BY <1>2, <1>3 DEF Insert

\* The list of jobs grows, or the worker turns to its report.
LEMMA GoingOnKeepsPromise ==
    ASSUME BaseInv, OperatorInv, NEW w \in Workers, Added(w) \/ AllAdded(w)
    PROVE  UNCHANGED Promise!vars
<1>1. /\ reconciles[w].pc = "add"
      /\ \/ reconciles' = [reconciles EXCEPT ![w].i = @ + 1]
         \/ reconciles' = [reconciles EXCEPT ![w].pc = "active"]
      /\ UNCHANGED <<object, ready, queue>> /\ entries' = entries
    <2>1. CASE Added(w)
        BY <2>1 DEF Added, TrackSchedule, OperatorInv, CallsBelong
    <2>2. CASE AllAdded(w)
        BY <2>2 DEF AllAdded, At, vars
    <2>3. QED
        BY <2>1, <2>2
<1>2. /\ reconciles[w] # Resting /\ reconciles[w] \in Reconciliation
      /\ reconciles \in [Workers -> {Resting} \cup Reconciliation]
    <2>1. reconciles[w] # Resting
        BY <1>1 DEF Resting
    <2>2. QED
        BY <2>1, ReconciliationType DEF OperatorInv, OperatorTypeOK
<1>3. /\ \A v \in Workers : v # w => reconciles'[v] = reconciles[v]
      /\ \/ reconciles'[w] = [reconciles[w] EXCEPT !.i = @ + 1]
         \/ reconciles'[w] = [reconciles[w] EXCEPT !.pc = "active"]
    BY <1>1, <1>2
<1>4. /\ reconciles'[w].owner = reconciles[w].owner
      /\ reconciles'[w].pc \in {"add", "active"}
    BY <1>1, <1>2, <1>3 DEF Reconciliation
<1>5. reconciles'[w] # Resting
    BY <1>4 DEF Resting
<1>6. \A v \in Workers, p \in Owners : Reconciles(v, p)' <=> Reconciles(v, p)
    BY <1>2, <1>3, <1>4, <1>5 DEF Reconciles
<1>7. Outstanding' = Outstanding
    BY <1>1, <1>6 DEF Outstanding, AtRest, BeingReconciled
<1>8. Claims' = Claims
    BY <1>1 DEF Claims
<1>9. FiringJobs' = FiringJobs
    BY <1>1, SameJobs
<1>10. QED
    BY <1>1, <1>7, <1>8, <1>9 DEF Promise!vars

\* A report from a fresh copy that says "active" is true.
LEMMA ReportsTrue ==
    ASSUME OneTimezonePerNamespace, BaseInv, LiveInv, OperatorInv,
           NEW w \in Workers, reconciles[w].pc = "active", reconciles[w].fresh,
           NEW o, o = reconciles[w].owner
    PROVE  Promise!Truthful(o)
<1>1. /\ reconciles[w] # Resting /\ o \in Owners
      /\ reconciles[w].spec \in Specs
    <2>1. reconciles[w] # Resting
        BY DEF Resting
    <2>2. QED
        BY <2>1, ReconciliationType DEF OperatorInv
<1>2. Live(o) /\ object[o].spec = reconciles[w].spec
    BY <1>1 DEF OperatorInv, FreshSpecs
<1>3. Length(o) = SizeOf[object[o].spec] /\ Admissible(o, object[o].spec)
    BY <1>1, <1>2 DEF OperatorInv, Progress, SpecsAdmissible
<1>4. ASSUME NEW v \in Workers, workers[v] # Idle
      PROVE  ~OwnedBy(workers[v].entry, o[1], o[2])
    <2>1. /\ reconciles[v].pc = "add"
          /\ OwnedBy(workers[v].entry, reconciles[v].owner[1], reconciles[v].owner[2])
        BY <1>4 DEF OperatorInv, CallsBelong
    <2>2. reconciles[v] # Resting /\ v # w
        BY <2>1 DEF Resting
    <2>3. reconciles[v].owner # o /\ reconciles[v].owner \in Owners
        BY <1>1, <2>2, ReconciliationType DEF OperatorInv, OnePerOwner
    <2>4. QED
        BY <1>1, <2>1, <2>3, OwnerPairs DEF OwnedBy
<1>5. EntriesOf(o) \in CompleteJobs[object[o].spec]
    BY <1>1, <1>2, <1>3, <1>4, CompleteEntries
<1>6. FiringJobs[o] = EntriesOf(o)
    BY <1>1 DEF FiringJobs
<1>7. QED
    BY <1>2, <1>5, <1>6 DEF Promise!Truthful, Promise!Live, Live

LEMMA ReportKeepsPromise ==
    ASSUME OneTimezonePerNamespace, BaseInv, LiveInv, OperatorInv,
           NEW w \in Workers,
           ReportFails(w) \/ \E sameSecond \in BOOLEAN : Report(w, sameSecond)
    PROVE  [Promise!Next]_(Promise!vars)
<1> DEFINE pc == reconciles[w].pc
<1>1. /\ pc \in {"active", "failed"}
      /\ reconciles' = [reconciles EXCEPT ![w] = Resting]
      /\ object' = object /\ entries' = entries
    BY DEF ReportFails, Report, At, Rest, vars
<1>2. /\ reconciles[w] # Resting
      /\ reconciles \in [Workers -> {Resting} \cup Reconciliation]
      /\ ready \in [Owners -> {"none", "active", "failed"}]
      /\ \E o \in Owners : o = reconciles[w].owner /\ object[o] # Absent
    <2>1. reconciles[w] # Resting
        BY <1>1 DEF Resting
    <2>2. QED
        BY <2>1, ReconciliationType DEF OperatorInv, OperatorTypeOK, SpecsAdmissible
<1>o. PICK o \in Owners : o = reconciles[w].owner /\ object[o] # Absent
    BY <1>2
<1>3. /\ reconciles'[w] = Resting
      /\ \A v \in Workers : v # w => reconciles'[v] = reconciles[v]
    BY <1>1, <1>2
<1>4. ~AtRest(o) /\ o \in Outstanding
    BY <1>o, <1>2 DEF Outstanding, AtRest, BeingReconciled, Reconciles
<1>5. ~BeingReconciled(o)'
    BY <1>o, <1>2, <1>3 DEF BeingReconciled, Reconciles, OperatorInv, OnePerOwner
<1>6. \A p \in Owners : p # o => ~Reconciles(w, p) /\ ~Reconciles(w, p)'
    BY <1>o, <1>2, <1>3 DEF Reconciles
<1>7. FiringJobs' = FiringJobs
    BY <1>1, SameJobs
<1>8. ASSUME queue' = queue \cup {o}
      PROVE  Outstanding' = Outstanding
    <2>1. ~AtRest(o)'
        BY <1>8 DEF AtRest
    <2>2. \A p \in Owners : p # o => (AtRest(p)' <=> AtRest(p))
        BY <1>2, <1>3, <1>6, <1>8, OthersRest
    <2>3. QED
        BY <1>2, <1>4, <2>1, <2>2, OutstandingChange
<1>9. CASE ReportFails(w)
    <2>1. queue' = queue \cup {o} /\ ready' = ready
        BY <1>o, <1>9 DEF ReportFails
    <2>2. Claims' = Claims
        BY <1>1, <2>1 DEF Claims
    <2>3. QED
        BY <1>1, <1>7, <1>8, <2>1, <2>2 DEF Promise!vars
<1>10. CASE Report(w, FALSE)
    <2>1. /\ queue' = queue \cup {o} /\ ready' = [ready EXCEPT ![o] = pc]
          /\ reconciles[w].fresh
        BY <1>o, <1>10 DEF Report
    <2>2. CASE pc = "active"
        <3>1. Claims' = [Claims EXCEPT ![o] = TRUE]
            BY <1>1, <1>2, <1>o, <2>1, <2>2 DEF Claims
        <3>2. Promise!Truthful(o)
            BY <1>o, <2>1, <2>2, ReportsTrue
        <3>3. Promise!Report(o, TRUE)
            BY <1>1, <1>o, <1>4, <1>7, <1>8, <2>1, <3>1, <3>2
            DEF Promise!Report, Promise!Absent, Absent
        <3>4. QED
            BY <3>3 DEF Promise!Next
    <2>3. CASE pc = "failed"
        <3>1. Claims' = [Claims EXCEPT ![o] = FALSE]
            BY <1>1, <1>2, <2>1, <2>3 DEF Claims
        <3>2. Promise!Report(o, FALSE)
            BY <1>1, <1>o, <1>4, <1>7, <1>8, <2>1, <3>1
            DEF Promise!Report, Promise!Absent, Absent
        <3>3. QED
            BY <3>2 DEF Promise!Next
    <2>4. QED
        BY <1>1, <2>2, <2>3
<1>11. CASE Report(w, TRUE)
    <2>1. /\ queue' = queue /\ ready[o] = pc /\ ready' = [ready EXCEPT ![o] = pc]
          /\ reconciles[w].fresh
        BY <1>o, <1>11 DEF Report
    <2>2. ready' = ready
        BY <1>2, <2>1
    <2>3. Claims' = Claims
        BY <1>1, <2>2 DEF Claims
    <2>4. CASE o \in queue
        <3>1. queue' = queue \cup {o}
            BY <2>1, <2>4
        <3>2. QED
            BY <1>1, <1>7, <1>8, <2>3, <3>1 DEF Promise!vars
    <2>5. CASE o \notin queue
        <3>1. AtRest(o)'
            BY <1>5, <2>1, <2>5 DEF AtRest
        <3>2. \A p \in Owners : p # o => (AtRest(p)' <=> AtRest(p))
            BY <1>2, <1>3, <1>6, <2>1, OthersRest
        <3>3. Outstanding' = Outstanding \ {o}
            BY <1>2, <3>1, <3>2, OutstandingChange
        <3>4. Claims[o] => Promise!Truthful(o)
            <4>1. Claims[o] => pc = "active"
                BY <1>2, <2>1 DEF Claims
            <4>2. QED
                BY <2>1, <4>1, <1>o, ReportsTrue
        <3>5. Promise!Rest(o)
            BY <1>1, <1>7, <2>3, <3>3, <3>4 DEF Promise!Rest
        <3>6. QED
            BY <1>2, <3>5 DEF Promise!Next
    <2>6. QED
        BY <2>4, <2>5
<1>12. QED
    BY <1>9, <1>10, <1>11

LEMMA CrashKeepsPromise ==
    ASSUME Crash
    PROVE  Promise!Next
<1>1. /\ entries' = {} /\ UNCHANGED <<object, ready>>
      /\ queue' = {o \in Owners : object[o] # Absent}
    BY DEF Crash
<1>2. FiringJobs' = [o \in Owners |-> {}]
    BY <1>1 DEF FiringJobs, EntriesOf
<1>3. Claims' = Claims
    BY <1>1 DEF Claims
<1>4. {o \in Owners : object[o] # Absent} \subseteq Outstanding'
    BY <1>1 DEF Outstanding, AtRest
<1>5. Outstanding' \in SUBSET Owners
    BY DEF Outstanding
<1>6. Promise!Restart(Outstanding')
    BY <1>1, <1>2, <1>3, <1>4 DEF Promise!Restart, Promise!Absent, Absent
<1>7. QED
    BY <1>5, <1>6 DEF Promise!Next

LEMMA NextKeepsPromise ==
    ASSUME OneTimezonePerNamespace
    PROVE  /\ BaseInv /\ BaseInv' /\ LiveInv /\ OperatorInv
           /\ [OperatorNext]_operatorVars
           => [Promise!Next]_(Promise!vars)
<1> SUFFICES ASSUME BaseInv, BaseInv', LiveInv, OperatorInv,
                    [OperatorNext]_operatorVars
             PROVE  [Promise!Next]_(Promise!vars)
    OBVIOUS
<1>1. CASE UserStep
    BY <1>1, UserKeepsPromise
<1>2. ASSUME NEW w \in Workers, AddNext(w) PROVE UNCHANGED Promise!vars
    BY <1>2, Stutters DEF AddNext, AddSchedule, controlVars
<1>3. CASE ReconcileStep
    BY <1>2, <1>3, BeginKeepsPromise, InsertKeepsPromise, GoingOnKeepsPromise,
       ReportKeepsPromise DEF ReconcileStep
<1>4. CASE RunStep /\ UNCHANGED controlVars
    BY <1>4, RunStepFrame, Stutters DEF serviceVars, controlVars
<1>5. ASSUME NEW o \in Owners, Resync(o) PROVE Promise!Next
    <2>1. /\ queue' = queue \cup {o} /\ entries' = entries
          /\ UNCHANGED <<object, ready, reconciles>>
        BY <1>5 DEF Resync, vars
    <2>2. \A p \in Owners : p # o => (AtRest(p)' <=> AtRest(p))
        BY <2>1 DEF AtRest, BeingReconciled, Reconciles
    <2>3. ~AtRest(o)'
        BY <2>1 DEF AtRest
    <2>4. Outstanding' = Outstanding \cup {o}
        BY <2>2, <2>3, OutstandingChange
    <2>5. FiringJobs' = FiringJobs
        BY <2>1, SameJobs
    <2>6. Claims' = Claims
        BY <2>1 DEF Claims
    <2>7. Promise!Wake(o)
        BY <2>1, <2>4, <2>5, <2>6 DEF Promise!Wake
    <2>8. QED
        BY <2>7 DEF Promise!Next
<1>6. CASE Crash
    BY <1>6, CrashKeepsPromise
<1>7. CASE UNCHANGED operatorVars
    BY <1>7, Stutters DEF operatorVars, vars, controlVars
<1>8. QED
    BY <1>1, <1>3, <1>4, <1>5, <1>6, <1>7 DEF OperatorNext

LEMMA InitKeepsPromise == OperatorInit => Promise!Init
<1> SUFFICES ASSUME OperatorInit PROVE Promise!Init
    OBVIOUS
<1>1. /\ object = [o \in Owners |-> Absent] /\ entries = {} /\ queue = {}
      /\ \A o \in Owners : ready[o] = "none"
      /\ \A w \in Workers : reconciles[w] = Resting
    BY DEF OperatorInit, Init
<1>2. Claims = [o \in Owners |-> FALSE]
    BY <1>1 DEF Claims
<1>3. FiringJobs = [o \in Owners |-> {}]
    BY <1>1 DEF FiringJobs, EntriesOf
<1>4. Outstanding = {}
    BY <1>1 DEF Outstanding, AtRest, BeingReconciled, Reconciles
<1>5. QED
    BY <1>1, <1>2, <1>3, <1>4 DEF Promise!Init, Promise!Absent, Absent

\* When no namespace has specs in two timezones, the controller and the service
\* together do for every object what the operator promises, whatever becomes of
\* the objects it shares them with.
THEOREM OperatorKeepsPromise ==
    OneTimezonePerNamespace => (OperatorSpec => KeepsPromise)
<1> SUFFICES ASSUME OneTimezonePerNamespace PROVE OperatorSpec => KeepsPromise
    OBVIOUS
<1>1. BaseInv /\ BaseInv' /\ LiveInv /\ OperatorInv /\ [OperatorNext]_operatorVars
          => [Promise!Next]_(Promise!vars)
    BY NextKeepsPromise
<1>2. QED
    BY <1>1, InitKeepsPromise, OperatorBase, OperatorLive, PTL
    DEF OperatorSpec, KeepsPromise, Promise!Spec
=============================================================================
