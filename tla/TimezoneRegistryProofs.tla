---------------------- MODULE TimezoneRegistryProofs ----------------------
(***************************************************************************)
(* What holds of the service when no namespace has specs in two timezones: *)
(* a tracked job is live, the queries find it and nothing else, and the    *)
(* service implements ScheduleRegistry.                                    *)
(*                                                                         *)
(* Job numbers are unique in a namespace then, because they come from one  *)
(* cron instance.  The inductive invariant LiveInv says so, and follows a  *)
(* job through the window between AddFunc and the second critical section  *)
(* of AddSchedule, in which it is live but not tracked.                    *)
(***************************************************************************)
EXTENDS TimezoneSchedulerProofs

\* The caller has the number of its entry but has not tracked it.
Pending(w) == workers[w] # Idle /\ workers[w].pc # "addFunc"

SpecZones == \A ns \in Namespaces : schedulers[ns] \subseteq TimezonesOf[ns]

IDsIssued == \A e \in entries : e.id <= nextID[e.ns][e.tz]

UniqueEntries == \A e, f \in entries : e.ns = f.ns /\ e.id = f.id => e = f

PendingLive == \A w \in Workers : Pending(w) => workers[w].entry \in entries

PendingUntracked ==
    \A w \in Workers : Pending(w) =>
        workers[w].entry.id \notin Tracked(workers[w].entry.ns, workers[w].entry.name)

OneCallPerOwner ==
    \A v, w \in Workers : v # w /\ workers[v] # Idle /\ workers[w] # Idle =>
        ~OwnedBy(workers[v].entry, workers[w].entry.ns, workers[w].entry.name)

ListsDistinct ==
    \A ns \in Namespaces, name \in Names : NoDuplicates(scheduleMap[ns][name])

\* Shutdown waits for the callers.
StoppedWhenDown == down => \A w \in Workers : workers[w] = Idle

LiveInv ==
    /\ StoppedWhenDown
    /\ SpecZones
    /\ IDsIssued
    /\ UniqueEntries
    /\ PendingLive
    /\ PendingUntracked
    /\ OneCallPerOwner
    /\ ListsDistinct
    /\ TrackedIsLive

\* The facts of TimezoneSchedulerProofs that LiveInv builds on.
BaseInv == TypeInv /\ ZonesExist /\ NoOrphan

LEMMA InitBaseInv == Init => BaseInv
BY InitTypeInv, InitZonesExist, InitNoOrphan DEF BaseInv

LEMMA NextBaseInv == BaseInv /\ [Next]_vars => BaseInv'
BY NextTypeInv, NextZonesExist, NextNoOrphan DEF BaseInv

LEMMA InitLiveInv == Init => LiveInv
<1> SUFFICES ASSUME Init PROVE LiveInv
    OBVIOUS
<1>1. \A ns \in Namespaces, name \in Names : scheduleMap[ns][name] = <<>>
    BY DEF Init
<1>2. ListsDistinct
    BY <1>1 DEF ListsDistinct, NoDuplicates
<1>3. TrackedIsLive
    BY <1>1, ToSetEmpty DEF TrackedIsLive, Tracked
<1>4. QED
    BY <1>2, <1>3 DEF Init, LiveInv, SpecZones, IDsIssued, UniqueEntries,
        PendingLive, PendingUntracked, OneCallPerOwner, Pending, StoppedWhenDown

\* All entries of a namespace are in the same cron instance.
LEMMA SameZone ==
    ASSUME OneTimezonePerNamespace, BaseInv, SpecZones,
           NEW e \in entries, NEW tz \in schedulers[e.ns]
    PROVE  e.tz = tz
<1>1. e.ns \in Namespaces /\ e.tz \in schedulers[e.ns]
    BY DEF BaseInv, TypeInv, TypeOK, Entry, ZonesExist
<1>2. e.tz \in TimezonesOf[e.ns] /\ tz \in TimezonesOf[e.ns]
    BY <1>1 DEF SpecZones
<1>3. QED
    BY <1>1, <1>2 DEF OneTimezonePerNamespace

\* The removal loops reach the owner's entries only.
LEMMA RemovesOwnEntries ==
    ASSUME BaseInv, LiveInv, NEW ns \in Namespaces, NEW name \in Names,
           NEW ids \in SUBSET Tracked(ns, name)
    PROVE  RemoveIDs(ns, ids) = {e \in entries : ~(OwnedBy(e, ns, name) /\ e.id \in ids)}
<1>1. ASSUME NEW e \in entries, e.ns = ns, e.id \in ids
      PROVE  OwnedBy(e, ns, name)
    <2>1. PICK f \in entries : OwnedBy(f, ns, name) /\ f.id = e.id
        BY <1>1 DEF LiveInv, TrackedIsLive
    <2>2. e = f
        BY <1>1, <2>1 DEF LiveInv, UniqueEntries, OwnedBy
    <2>3. QED
        BY <2>1, <2>2
<1>2. ASSUME NEW e \in entries, OwnedBy(e, ns, name)
      PROVE  e.ns = ns /\ e.tz \in schedulers[ns]
    BY <1>2 DEF OwnedBy, BaseInv, ZonesExist
<1>3. QED
    BY <1>1, <1>2 DEF RemoveIDs

LEMMA NoDuplicatesAppend ==
    ASSUME NEW S, NEW s \in Seq(S), NEW x \in S, NoDuplicates(s), x \notin ToSet(s)
    PROVE  NoDuplicates(Append(s, x))
<1> DEFINE t == Append(s, x)
<1>1. /\ DOMAIN t = 1..(Len(s) + 1)
      /\ \A i \in 1..Len(s) : t[i] = s[i]
      /\ t[Len(s) + 1] = x
    OBVIOUS
<1>2. DOMAIN s = 1..Len(s) /\ Len(s) \in Nat
    OBVIOUS
<1>3. \A i \in 1..Len(s) : s[i] # x
    BY <1>2 DEF ToSet
<1> HIDE DEF t
<1>4. NoDuplicates(t)
    BY <1>1, <1>2, <1>3 DEF NoDuplicates
<1>5. QED
    BY <1>4 DEF t

\* A removal of some jobs of an owner by a caller that may make it.
LEMMA RemovalLiveInv ==
    ASSUME BaseInv, LiveInv, NEW ns \in Namespaces, NEW name \in Names,
           Callable(ns, name), NEW ids \in SUBSET Tracked(ns, name),
           entries' = RemoveIDs(ns, ids),
           \A m \in Namespaces, n \in Names :
               /\ Tracked(m, n)' = IF m = ns /\ n = name THEN Tracked(ns, name) \ ids
                                                         ELSE Tracked(m, n)
               /\ NoDuplicates(scheduleMap'[m][n]),
           UNCHANGED <<schedulers, nextID, workers, down>>
    PROVE  LiveInv'
<1>1. entries' = {e \in entries : ~(OwnedBy(e, ns, name) /\ e.id \in ids)}
    BY RemovesOwnEntries
<1>2. /\ StoppedWhenDown' /\ SpecZones' /\ IDsIssued' /\ UniqueEntries'
      /\ OneCallPerOwner' /\ ListsDistinct'
    BY <1>1 DEF LiveInv, StoppedWhenDown, SpecZones, IDsIssued, UniqueEntries,
        OneCallPerOwner, ListsDistinct
<1>3. PendingLive'
    BY <1>1 DEF LiveInv, PendingLive, Pending, Callable
<1>4. PendingUntracked'
    <2>1. ASSUME NEW w \in Workers, Pending(w)
          PROVE  /\ workers[w].entry.ns \in Namespaces
                 /\ workers[w].entry.name \in Names
        BY <2>1, CallType DEF Pending, BaseInv, TypeInv, NewEntry
    <2>2. QED
        BY <2>1 DEF LiveInv, PendingUntracked, Pending
<1>5. TrackedIsLive'
    <2>1. ASSUME NEW m \in Namespaces, NEW n \in Names, NEW id \in Tracked(m, n)'
          PROVE  \E e \in entries' : OwnedBy(e, m, n) /\ e.id = id
        <3>1. id \in Tracked(m, n) /\ (m = ns /\ n = name => id \notin ids)
            OBVIOUS
        <3>2. PICK e \in entries : OwnedBy(e, m, n) /\ e.id = id
            BY <3>1 DEF LiveInv, TrackedIsLive
        <3>3. e \in entries'
            BY <1>1, <3>1, <3>2 DEF OwnedBy
        <3>4. QED
            BY <3>2, <3>3
    <2>2. QED
        BY <2>1 DEF TrackedIsLive
<1>6. QED
    BY <1>2, <1>3, <1>4, <1>5 DEF LiveInv
LEMMA NextLiveInv ==
    ASSUME OneTimezonePerNamespace
    PROVE  BaseInv /\ LiveInv /\ [Next]_vars => LiveInv'
<1> SUFFICES ASSUME BaseInv, LiveInv, [Next]_vars PROVE LiveInv'
    OBVIOUS
<1>0. /\ TypeOK /\ CallsNumbered /\ ZonesExist
      /\ StoppedWhenDown /\ SpecZones /\ IDsIssued /\ UniqueEntries /\ PendingLive
      /\ PendingUntracked /\ OneCallPerOwner /\ ListsDistinct /\ TrackedIsLive
    BY DEF BaseInv, TypeInv, LiveInv
<1>1. ASSUME NEW w \in Workers, NEW ns \in Namespaces, NEW name \in Names,
             NEW tz \in TimezonesOf[ns],
             AddSchedule(w, ns, name, tz) \/ RejectSchedule(w, ns, name, tz)
      PROVE  LiveInv'
    <2> DEFINE e == [ns |-> ns, name |-> name, tz |-> tz, id |-> 0]
    <2>1. /\ schedulers' = [schedulers EXCEPT ![ns] = @ \cup {tz}]
          /\ UNCHANGED <<nextID, entries, scheduleMap>>
          /\ \/ workers' = workers
             \/ workers' = [workers EXCEPT ![w] = [pc |-> "addFunc", entry |-> e]]
          /\ Callable(ns, name)
        BY <1>1 DEF AddSchedule, RejectSchedule, GetOrCreateCronScheduler
    <2>2. SpecZones'
        BY <1>0, <2>1 DEF SpecZones, TypeOK
    <2>3. e.ns = ns /\ e.name = name
        OBVIOUS
    <2> HIDE DEF e
    <2>4. \A v \in Workers : \/ workers'[v] = workers[v]
                             \/ v = w /\ workers'[v] = [pc |-> "addFunc", entry |-> e]
        BY <1>0, <2>1 DEF TypeOK
    <2>5. OneCallPerOwner'
        <3> SUFFICES ASSUME NEW u \in Workers, NEW v \in Workers, u # v,
                            workers'[u] # Idle, workers'[v] # Idle
                     PROVE  ~OwnedBy(workers'[u].entry, workers'[v].entry.ns,
                                     workers'[v].entry.name)
            BY DEF OneCallPerOwner
        <3>1. CASE workers'[u] = workers[u] /\ workers'[v] = workers[v]
            BY <1>0, <3>1 DEF OneCallPerOwner
        <3>2. CASE workers'[u] # workers[u]
            <4>1. workers'[u].entry = e /\ workers'[v] = workers[v]
                BY <2>4, <3>2
            <4>2. QED
                BY <2>1, <2>3, <4>1 DEF Callable, OwnedBy
        <3>3. CASE workers'[v] # workers[v]
            <4>1. workers'[v].entry = e /\ workers'[u] = workers[u]
                BY <2>4, <3>3
            <4>2. QED
                BY <2>1, <2>3, <4>1 DEF Callable, OwnedBy
        <3>4. QED
            BY <3>1, <3>2, <3>3
    <2>6. \A v \in Workers : Pending(v)' => Pending(v) /\ workers'[v] = workers[v]
        BY <2>4 DEF Pending
    <2>7. PendingLive' /\ PendingUntracked'
        BY <1>0, <2>1, <2>6 DEF PendingLive, PendingUntracked, Tracked
    <2>8. StoppedWhenDown'
        BY <1>1 DEF AddSchedule, RejectSchedule, Callable, StoppedWhenDown
    <2>9. QED
        BY <1>0, <2>1, <2>2, <2>5, <2>7, <2>8
        DEF LiveInv, IDsIssued, UniqueEntries, ListsDistinct, TrackedIsLive, Tracked
<1>2. ASSUME NEW w \in Workers, AddFunc(w)
      PROVE  LiveInv'
    <2>1. PICK e \in NewEntry : e = workers[w].entry
        BY <1>0, <1>2, CallType DEF AddFunc
    <2>2. PICK f \in Entry :
             /\ f = [e EXCEPT !.id = nextID[e.ns][e.tz] + 1]
             /\ f.ns = e.ns /\ f.name = e.name /\ f.tz = e.tz
             /\ f.id = nextID[e.ns][e.tz] + 1
        <3>1. nextID[e.ns][e.tz] \in Nat
            BY <1>0 DEF TypeOK, NewEntry
        <3>2. nextID[e.ns][e.tz] + 1 \in JobIDs
            BY <1>2, <2>1, <3>1 DEF AddFunc, JobIDs
        <3> DEFINE g == [e EXCEPT !.id = nextID[e.ns][e.tz] + 1]
        <3>3. /\ g \in Entry
              /\ g.ns = e.ns /\ g.name = e.name /\ g.tz = e.tz
              /\ g.id = nextID[e.ns][e.tz] + 1
            BY <3>2 DEF Entry, NewEntry
        <3>4. QED
            BY <3>3
    <2>3. /\ nextID' = [nextID EXCEPT ![e.ns][e.tz] = f.id]
          /\ entries' = entries \cup {f}
          /\ workers' = [workers EXCEPT ![w] = [pc |-> "assign", entry |-> f]]
          /\ workers[w] # Idle
          /\ UNCHANGED <<schedulers, scheduleMap>>
        BY <1>2, <2>1, <2>2 DEF AddFunc
    <2>4. e.ns \in Namespaces /\ e.tz \in Timezones /\ e.name \in Names
              /\ e.tz \in schedulers[e.ns]
        BY <1>0, <2>1, <2>3 DEF NewEntry, ZonesExist
    <2>5. nextID[e.ns][e.tz] \in Nat /\ nextID'[e.ns][e.tz] = f.id
        BY <1>0, <2>3, <2>4 DEF TypeOK
    <2>6. ASSUME NEW g \in entries, g.ns = f.ns
          PROVE  g.id < f.id
        <3>1. g.tz = e.tz
            BY <2>2, <2>4, <2>6, SameZone, <1>0
        <3>2. g.id <= nextID[e.ns][e.tz] /\ g.id \in Nat
            BY <1>0, <2>2, <2>6, <3>1 DEF IDsIssued, TypeOK, Entry, JobIDs
        <3>3. QED
            BY <2>2, <2>5, <3>2
    <2>7. IDsIssued'
        <3>1. ASSUME NEW g \in entries PROVE g.id <= nextID'[g.ns][g.tz]
            <4>1. g \in Entry /\ g.id <= nextID[g.ns][g.tz]
                BY <1>0 DEF IDsIssued, TypeOK
            <4>2. CASE g.ns = e.ns /\ g.tz = e.tz
                <5>1. g.id < f.id
                    BY <2>2, <2>6, <4>2
                <5>2. g.id \in Nat /\ f.id \in Nat
                    BY <4>1 DEF Entry, JobIDs
                <5>3. QED
                    BY <2>5, <4>2, <5>1, <5>2
            <4>3. CASE ~(g.ns = e.ns /\ g.tz = e.tz)
                <5>1. nextID'[g.ns][g.tz] = nextID[g.ns][g.tz]
                    BY <1>0, <2>3, <2>4, <4>1, <4>3 DEF TypeOK, Entry
                <5>2. QED
                    BY <4>1, <5>1
            <4>4. QED
                BY <4>2, <4>3
        <3>2. f.id <= nextID'[f.ns][f.tz]
            BY <2>2, <2>5 DEF Entry, JobIDs
        <3>3. QED
            BY <2>3, <3>1, <3>2 DEF IDsIssued
    <2>8. UniqueEntries'
        <3>1. \A g \in entries : g.ns = f.ns => g.id # f.id
            BY <2>6, <1>0 DEF TypeOK, Entry, JobIDs
        <3>2. QED
            BY <1>0, <2>3, <3>1 DEF UniqueEntries
    <2>9. \A v \in Workers : \/ v = w /\ workers'[v] = [pc |-> "assign", entry |-> f]
                             \/ v # w /\ workers'[v] = workers[v]
        BY <1>0, <2>3 DEF TypeOK
    <2>10. PendingLive'
        BY <1>0, <2>3, <2>9 DEF PendingLive, Pending
    <2>11. PendingUntracked'
        <3>1. f.id \notin Tracked(f.ns, f.name)
            <4> SUFFICES ASSUME f.id \in Tracked(f.ns, f.name) PROVE FALSE
                OBVIOUS
            <4>1. PICK g \in entries : OwnedBy(g, f.ns, f.name) /\ g.id = f.id
                BY <1>0, <2>2, <2>4 DEF TrackedIsLive
            <4>2. QED
                BY <4>1, <2>6 DEF OwnedBy, Entry, JobIDs
        <3>2. QED
            BY <1>0, <2>3, <2>9, <3>1 DEF PendingUntracked, Pending, Tracked
    <2>12. OneCallPerOwner'
        <3>1. \A v \in Workers : workers'[v] # Idle =>
                 /\ workers[v] # Idle
                 /\ workers'[v].entry.ns = workers[v].entry.ns
                 /\ workers'[v].entry.name = workers[v].entry.name
            <4>1. workers[w] # Idle /\ workers'[w].entry = f /\ workers[w].entry = e
                BY <2>1, <2>3, <2>9
            <4>2. \A v \in Workers \ {w} : workers'[v] = workers[v]
                BY <2>9
            <4>3. QED
                BY <2>2, <4>1, <4>2
        <3>2. QED
            BY <1>0, <3>1 DEF OneCallPerOwner, OwnedBy
    <2>13. SpecZones' /\ ListsDistinct' /\ TrackedIsLive'
        BY <1>0, <2>3 DEF SpecZones, ListsDistinct, TrackedIsLive, Tracked
    <2>14. StoppedWhenDown'
        BY <1>0, <1>2 DEF AddFunc, StoppedWhenDown
    <2>15. QED
        BY <2>14, <2>7, <2>8, <2>10, <2>11, <2>12, <2>13 DEF LiveInv
<1>3. ASSUME NEW w \in Workers, AssignEntryID(w)
      PROVE  LiveInv'
    <2>1. workers[w] \in Call /\ workers[w].pc = "assign" /\ workers[w] # Idle
        BY <1>0, <1>3, CallType DEF AssignEntryID
    <2>2. /\ workers' = [workers EXCEPT ![w].pc = "track"]
          /\ UNCHANGED serviceVars
        BY <1>3 DEF AssignEntryID
    <2>3. \A v \in Workers : /\ workers'[v] # Idle <=> workers[v] # Idle
                             /\ workers[v] # Idle => workers'[v].entry = workers[v].entry
                             /\ Pending(v)' <=> Pending(v)
        BY <1>0, <2>1, <2>2 DEF TypeOK, Call, Idle, Pending
    <2>4. StoppedWhenDown'
        BY <1>0, <1>3 DEF AssignEntryID, StoppedWhenDown
    <2>5. QED
        BY <1>0, <2>2, <2>3, <2>4 DEF serviceVars, LiveInv, SpecZones, IDsIssued,
            UniqueEntries, PendingLive, PendingUntracked, OneCallPerOwner,
            ListsDistinct, TrackedIsLive, Tracked, Pending
<1>4. ASSUME NEW w \in Workers, TrackSchedule(w)
      PROVE  LiveInv'
    <2>1. PICK f \in Entry : f = workers[w].entry
        BY <1>0, <1>4 DEF TrackSchedule, CallsNumbered
    <2>2. /\ scheduleMap' = [scheduleMap EXCEPT ![f.ns][f.name] = Append(@, f.id)]
          /\ workers' = [workers EXCEPT ![w] = Idle]
          /\ UNCHANGED <<schedulers, nextID, entries>>
          /\ Pending(w)
        BY <1>4, <2>1 DEF TrackSchedule, Pending
    <2>3. f.ns \in Namespaces /\ f.name \in Names /\ f.id \in JobIDs
        BY DEF Entry
    <2>4. f \in entries /\ f.id \notin Tracked(f.ns, f.name)
        BY <1>0, <2>1, <2>2 DEF PendingLive, PendingUntracked
    <2>5. \A m \in Namespaces, n \in Names :
             scheduleMap'[m][n] = IF m = f.ns /\ n = f.name
                                  THEN Append(scheduleMap[m][n], f.id)
                                  ELSE scheduleMap[m][n]
        BY <1>0, <2>2, <2>3 DEF TypeOK
    <2>6. \A m \in Namespaces, n \in Names :
             Tracked(m, n)' = IF m = f.ns /\ n = f.name
                              THEN Tracked(m, n) \cup {f.id}
                              ELSE Tracked(m, n)
        <3>1. \A m \in Namespaces, n \in Names :
                 ToSet(Append(scheduleMap[m][n], f.id)) = ToSet(scheduleMap[m][n]) \cup {f.id}
            BY <1>0, <2>3, TrackedIDs, ToSetAppend
        <3>2. QED
            BY <2>5, <3>1 DEF Tracked
    <2>7. ListsDistinct'
        BY <1>0, <2>3, <2>4, <2>5, TrackedIDs, NoDuplicatesAppend
        DEF ListsDistinct, Tracked
    <2>8. TrackedIsLive'
        <3>1. OwnedBy(f, f.ns, f.name)
            BY DEF OwnedBy
        <3>2. QED
            BY <1>0, <2>2, <2>4, <2>6, <3>1 DEF TrackedIsLive
    <2>9. \A v \in Workers : workers'[v] # Idle => v # w /\ workers'[v] = workers[v]
        BY <1>0, <2>2 DEF TypeOK
    <2>10. PendingLive' /\ OneCallPerOwner'
        BY <1>0, <2>2, <2>9 DEF PendingLive, OneCallPerOwner, Pending
    <2>11. PendingUntracked'
        <3> SUFFICES ASSUME NEW v \in Workers, Pending(v)'
                     PROVE  (workers[v].entry.id \notin
                               Tracked(workers[v].entry.ns, workers[v].entry.name))'
            BY DEF PendingUntracked
        <3>1. v # w /\ workers'[v] = workers[v] /\ Pending(v)
            BY <2>9 DEF Pending
        <3>2. PICK g \in Entry : g = workers[v].entry
            BY <1>0, <3>1 DEF CallsNumbered, Pending
        <3>3. ~(g.ns = f.ns /\ g.name = f.name)
            BY <1>0, <2>1, <2>2, <3>1, <3>2 DEF OneCallPerOwner, OwnedBy, Pending
        <3>4. g.id \notin Tracked(g.ns, g.name)
            BY <1>0, <3>1, <3>2 DEF PendingUntracked
        <3>5. Tracked(g.ns, g.name)' = Tracked(g.ns, g.name)
            BY <2>6, <3>2, <3>3 DEF Entry
        <3>6. QED
            BY <3>1, <3>2, <3>4, <3>5
    <2>12. StoppedWhenDown'
        BY <1>0, <1>4 DEF TrackSchedule, StoppedWhenDown
    <2>13. QED
        BY <1>0, <2>2, <2>12, <2>7, <2>8, <2>10, <2>11
        DEF LiveInv, SpecZones, IDsIssued, UniqueEntries
<1>5. ASSUME NEW ns \in Namespaces, NEW name \in Names,
             NEW id \in Tracked(ns, name), RemoveSchedule(ns, name, id)
      PROVE  LiveInv'
    <2>1. /\ Callable(ns, name)
          /\ scheduleMap' = [scheduleMap EXCEPT ![ns][name] = RemoveFirst(@, id)]
          /\ entries' = RemoveIDs(ns, {id})
          /\ UNCHANGED <<schedulers, nextID, workers, down>>
        BY <1>5 DEF RemoveSchedule
    <2>2. \A m \in Namespaces, n \in Names :
             scheduleMap'[m][n] = IF m = ns /\ n = name
                                  THEN RemoveFirst(scheduleMap[ns][name], id)
                                  ELSE scheduleMap[m][n]
        BY <1>0, <2>1 DEF TypeOK
    <2>3. /\ ToSet(RemoveFirst(scheduleMap[ns][name], id)) = Tracked(ns, name) \ {id}
          /\ NoDuplicates(RemoveFirst(scheduleMap[ns][name], id))
        BY <1>0, TrackedIDs, RemoveFirstNoDuplicates DEF Tracked, ListsDistinct
    <2>4. \A m \in Namespaces, n \in Names :
             /\ Tracked(m, n)' = IF m = ns /\ n = name THEN Tracked(ns, name) \ {id}
                                                       ELSE Tracked(m, n)
             /\ NoDuplicates(scheduleMap'[m][n])
        BY <1>0, <2>2, <2>3 DEF Tracked, ListsDistinct
    <2>5. {id} \in SUBSET Tracked(ns, name)
        OBVIOUS
    <2>6. QED
        BY <2>1, <2>4, <2>5, RemovalLiveInv
<1>6. ASSUME NEW ns \in Namespaces, NEW name \in Names, RemoveAllSchedules(ns, name)
      PROVE  LiveInv'
    <2>1. /\ Callable(ns, name)
          /\ scheduleMap' = [scheduleMap EXCEPT ![ns][name] = <<>>]
          /\ entries' = RemoveIDs(ns, Tracked(ns, name))
          /\ UNCHANGED <<schedulers, nextID, workers, down>>
        BY <1>6 DEF RemoveAllSchedules
    <2>2. \A m \in Namespaces, n \in Names :
             scheduleMap'[m][n] = IF m = ns /\ n = name THEN <<>>
                                                         ELSE scheduleMap[m][n]
        BY <1>0, <2>1 DEF TypeOK
    <2>3. NoDuplicates(<<>>)
        BY DEF NoDuplicates
    <2>4. PICK ids \in SUBSET Tracked(ns, name) : ids = Tracked(ns, name)
        OBVIOUS
    <2>5. \A m \in Namespaces, n \in Names :
             /\ Tracked(m, n)' = IF m = ns /\ n = name THEN Tracked(ns, name) \ ids
                                                       ELSE Tracked(m, n)
             /\ NoDuplicates(scheduleMap'[m][n])
        BY <1>0, <2>2, <2>3, <2>4, ToSetEmpty DEF Tracked, ListsDistinct
    <2>6. QED
        BY <2>1, <2>4, <2>5, RemovalLiveInv
<1>7. CASE RunStep
    BY <1>0, <1>7, RunStepFrame DEF serviceVars, LiveInv, StoppedWhenDown, SpecZones, IDsIssued,
        UniqueEntries, PendingLive, PendingUntracked, OneCallPerOwner,
        ListsDistinct, TrackedIsLive, Tracked, Pending
<1>8. CASE Shutdown
    <2>1. /\ \A ns \in Namespaces, name \in Names : scheduleMap'[ns][name] = <<>>
          /\ \A ns \in Namespaces : schedulers'[ns] = {}
          /\ entries' = {}
          /\ \A w \in Workers : workers'[w] = Idle
        BY <1>8 DEF Shutdown
    <2>2. ListsDistinct' /\ TrackedIsLive'
        BY <2>1, ToSetEmpty DEF ListsDistinct, NoDuplicates, TrackedIsLive, Tracked
    <2>3. QED
        BY <2>1, <2>2 DEF LiveInv, StoppedWhenDown, SpecZones, IDsIssued, UniqueEntries,
            PendingLive, PendingUntracked, OneCallPerOwner, Pending
<1>9. CASE UNCHANGED vars
    BY <1>0, <1>9 DEF vars, LiveInv, StoppedWhenDown, SpecZones, IDsIssued,
        UniqueEntries, PendingLive, PendingUntracked, OneCallPerOwner,
        ListsDistinct, TrackedIsLive, Tracked, Pending
<1>10. QED
    BY <1>1, <1>2, <1>3, <1>4, <1>5, <1>6, <1>7, <1>8, <1>9
    DEF Next, WorkerStep, RemovalStep

\* When no namespace has specs in two timezones, a job the service tracks for
\* an owner is live: no other owner's removal took it away.
THEOREM JobsStayLive == OneTimezonePerNamespace => (Spec => []TrackedIsLive)
<1> SUFFICES ASSUME OneTimezonePerNamespace PROVE Spec => []TrackedIsLive
    OBVIOUS
<1>1. Init => BaseInv /\ LiveInv
    BY InitBaseInv, InitLiveInv
<1>2. BaseInv /\ LiveInv /\ [Next]_vars => BaseInv' /\ LiveInv'
    BY NextBaseInv, NextLiveInv
<1>3. LiveInv => TrackedIsLive
    BY DEF LiveInv
<1>4. QED
    BY <1>1, <1>2, <1>3, PTL DEF Spec

LEMMA LookupFromLive == BaseInv /\ LiveInv => LookupIsExact
<1> SUFFICES ASSUME BaseInv, LiveInv, NEW ns \in Namespaces, NEW name \in Names,
                    NEW id \in Tracked(ns, name)
             PROVE  /\ FoundEntries(ns, id) # {}
                    /\ \A e \in FoundEntries(ns, id) : OwnedBy(e, ns, name)
    BY DEF LookupIsExact, GetActiveSchedules
<1>1. PICK f \in entries : OwnedBy(f, ns, name) /\ f.id = id
    BY DEF LiveInv, TrackedIsLive
<1>2. f \in FoundEntries(ns, id)
    BY <1>1 DEF FoundEntries, OwnedBy, BaseInv, ZonesExist
<1>3. ASSUME NEW e \in FoundEntries(ns, id)
      PROVE  OwnedBy(e, ns, name)
    <2>1. e \in entries /\ e.ns = f.ns /\ e.id = f.id
        BY <1>1 DEF FoundEntries, OwnedBy
    <2>2. e = f
        BY <2>1 DEF LiveInv, UniqueEntries
    <2>3. QED
        BY <1>1, <2>2
<1>4. QED
    BY <1>2, <1>3

\* Under the same condition a query finds the job it asks for and never the
\* job of another owner.
THEOREM QueriesAreExact == OneTimezonePerNamespace => (Spec => []LookupIsExact)
<1> SUFFICES ASSUME OneTimezonePerNamespace PROVE Spec => []LookupIsExact
    OBVIOUS
<1>1. Init => BaseInv /\ LiveInv
    BY InitBaseInv, InitLiveInv
<1>2. BaseInv /\ LiveInv /\ [Next]_vars => BaseInv' /\ LiveInv'
    BY NextBaseInv, NextLiveInv
<1>3. QED
    BY <1>1, <1>2, LookupFromLive, PTL DEF Spec
----------------------------------------------------------------------------
(* The service implements the registry.                                    *)

\* Runs that keep their phase, up to the one between "begun" and "callback",
\* and their entry look the same to the registry.
LEMMA SameRunStates ==
    ASSUME \A r \in Runs :
               \/ runs[r] = NotRunning /\ runs'[r] = NotRunning
               \/ /\ runs[r] # NotRunning /\ runs'[r] # NotRunning
                  /\ runs'[r].entry = runs[r].entry
                  /\ (runs'[r].phase = "fired") <=> (runs[r].phase = "fired")
    PROVE  RunStates' = RunStates
BY DEF RunStates

LEMMA DetachedRunStates ==
    ASSUME TypeOK, NEW ns, NEW ids, runs' = Detached(ns, ids)
    PROVE  RunStates' = RunStates
<1>1. \A r \in Runs :
          \/ runs[r] = NotRunning /\ runs'[r] = NotRunning
          \/ /\ runs[r] # NotRunning /\ runs'[r] # NotRunning
             /\ runs'[r].entry = runs[r].entry
             /\ (runs'[r].phase = "fired") <=> (runs[r].phase = "fired")
    BY DetachedType
<1>2. QED
    BY <1>1, SameRunStates

\* A run that ends, whatever it was doing with its record.
LEMMA CompleteRunStates ==
    ASSUME TypeOK, NEW r \in Runs, InPhase(r, "begun") \/ InPhase(r, "callback"),
           runs' = [runs EXCEPT ![r] = NotRunning],
           UNCHANGED <<entries, down>>
    PROVE  Registry!Next
<1>1. runs[r].entry \in Entry
    BY RunType DEF InPhase
<1>2. RunStates[r] = [state |-> "executing", job |-> runs[r].entry]
    BY DEF RunStates, InPhase
<1>3. RunStates' = [RunStates EXCEPT ![r] = [state |-> "free"]]
    BY DEF RunStates, TypeOK
<1>4. InstalledJobs' = InstalledJobs
    BY DEF InstalledJobs
<1>5. Registry!Complete(r, runs[r].entry)
    BY <1>2, <1>3, <1>4 DEF Registry!Complete, Registry!Busy, Registry!Free
<1>6. QED
    BY <1>1, <1>5 DEF Registry!Next

LEMMA NextImplementsRegistry ==
    ASSUME OneTimezonePerNamespace
    PROVE  BaseInv /\ LiveInv /\ [Next]_vars => [Registry!Next]_(Registry!vars)
<1> SUFFICES ASSUME BaseInv, LiveInv, [Next]_vars
             PROVE  Registry!Next \/ UNCHANGED Registry!vars
    OBVIOUS
<1> DEFINE Goal == Registry!Next \/ UNCHANGED Registry!vars
<1>0. TypeOK /\ CallsNumbered /\ ZonesExist /\ NoOrphan
    BY DEF BaseInv, TypeInv
<1>a. ASSUME UNCHANGED <<entries, down>>, RunStates' = RunStates PROVE Goal
    BY <1>a DEF Registry!vars, InstalledJobs
<1>b. ASSUME UNCHANGED <<entries, runs, down>> PROVE Goal
    BY <1>b DEF Registry!vars, InstalledJobs, RunStates
<1>1. ASSUME NEW w \in Workers, NEW ns \in Namespaces, NEW name \in Names,
             NEW tz \in TimezonesOf[ns],
             AddSchedule(w, ns, name, tz) \/ RejectSchedule(w, ns, name, tz)
      PROVE  Goal
    BY <1>1, <1>b DEF AddSchedule, RejectSchedule
<1>2. ASSUME NEW w \in Workers, AddFunc(w)
      PROVE  Goal
    <2>1. PICK e \in NewEntry : e = workers[w].entry
        BY <1>0, <1>2, CallType DEF AddFunc
    <2>2. e.ns \in Namespaces /\ e.tz \in Timezones /\ nextID[e.ns][e.tz] \in Nat
        BY <1>0 DEF TypeOK, NewEntry
    <2>3. nextID[e.ns][e.tz] + 1 \in JobIDs
        BY <1>2, <2>1, <2>2 DEF AddFunc, JobIDs
    <2> DEFINE g == [e EXCEPT !.id = nextID[e.ns][e.tz] + 1]
    <2>4. /\ g \in Entry
          /\ g.ns = e.ns /\ g.tz = e.tz
          /\ g.id = nextID[e.ns][e.tz] + 1
        BY <2>3 DEF Entry, NewEntry
    <2>5. PICK f \in Entry : f = g
        BY <2>4
    <2>6. f \notin entries
        <3> SUFFICES ASSUME f \in entries PROVE FALSE
            OBVIOUS
        <3>1. f.id <= nextID[f.ns][f.tz]
            BY DEF LiveInv, IDsIssued
        <3>2. QED
            BY <2>2, <2>4, <2>5, <3>1
    <2>7. entries' = entries \cup {f} /\ UNCHANGED <<runs, down>> /\ ~down
        <3>1. ~down
            BY <1>2 DEF LiveInv, StoppedWhenDown, AddFunc
        <3>2. QED
            BY <1>2, <2>1, <2>5, <3>1 DEF AddFunc
    <2> DEFINE o == <<f.ns, f.name>>
    <2>8. o \in Namespaces \X Names
        BY DEF Entry
    <2>9. \A p \in Namespaces \X Names : f \notin InstalledJobs[p]
        BY <2>6 DEF InstalledJobs
    <2>10. InstalledJobs' = [InstalledJobs EXCEPT ![o] = @ \cup {f}]
        <3>1. \A p \in Namespaces \X Names : OwnedBy(f, p[1], p[2]) <=> p = o
            BY <2>8 DEF OwnedBy
        <3> HIDE DEF o
        <3>2. \A p \in Namespaces \X Names :
                 {e1 \in entries' : OwnedBy(e1, p[1], p[2])} =
                    IF p = o THEN InstalledJobs[p] \cup {f} ELSE InstalledJobs[p]
            BY <2>7, <3>1 DEF InstalledJobs
        <3>3. QED
            BY <2>8, <3>2 DEF InstalledJobs
    <2>11. RunStates' = RunStates
        BY <2>7 DEF RunStates
    <2> HIDE DEF o
    <2>12. Registry!Install(o, f)
        BY <2>7, <2>9, <2>10, <2>11 DEF Registry!Install
    <2>13. QED
        BY <2>8, <2>12 DEF Registry!Next
<1>3. ASSUME NEW w \in Workers, AssignEntryID(w)
      PROVE  Goal
    BY <1>3, <1>b DEF AssignEntryID, serviceVars
<1>4. ASSUME NEW w \in Workers, TrackSchedule(w)
      PROVE  Goal
    <2>1. RunStates' = RunStates
        BY <1>0, <1>4, DetachedRunStates DEF TrackSchedule
    <2>2. QED
        BY <1>4, <1>a, <2>1 DEF TrackSchedule
<1>5. ASSUME NEW ns \in Namespaces, NEW name \in Names,
             NEW id \in Tracked(ns, name), RemoveSchedule(ns, name, id)
      PROVE  Goal
    <2>1. PICK e \in entries : OwnedBy(e, ns, name) /\ e.id = id
        BY DEF LiveInv, TrackedIsLive
    <2>2. entries' = {f \in entries : ~(OwnedBy(f, ns, name) /\ f.id = id)}
        <3>1. {id} \in SUBSET Tracked(ns, name)
            OBVIOUS
        <3>2. RemoveIDs(ns, {id}) = {f \in entries : ~(OwnedBy(f, ns, name) /\ f.id \in {id})}
            BY <3>1, RemovesOwnEntries
        <3>3. QED
            BY <1>5, <3>2 DEF RemoveSchedule
    <2>3. \A f \in entries : OwnedBy(f, ns, name) /\ f.id = id => f = e
        BY <2>1 DEF LiveInv, UniqueEntries, OwnedBy
    <2>4. entries' = entries \ {e}
        BY <2>1, <2>2, <2>3
    <2> DEFINE o == <<ns, name>>
    <2>5. o \in Namespaces \X Names /\ e \in Entry
        BY <1>0 DEF TypeOK
    <2>6. e \in InstalledJobs[o]
        BY <2>1, <2>5 DEF InstalledJobs
    <2>7. InstalledJobs' = [InstalledJobs EXCEPT ![o] = @ \ {e}]
        <3>1. \A p \in Namespaces \X Names : OwnedBy(e, p[1], p[2]) <=> p = o
            BY <2>1, <2>5 DEF OwnedBy
        <3> HIDE DEF o
        <3>2. \A p \in Namespaces \X Names :
                 {f \in entries' : OwnedBy(f, p[1], p[2])} =
                    IF p = o THEN InstalledJobs[p] \ {e} ELSE InstalledJobs[p]
            BY <2>4, <3>1 DEF InstalledJobs
        <3>3. QED
            BY <2>5, <3>2 DEF InstalledJobs
    <2>8. RunStates' = RunStates
        BY <1>0, <1>5, DetachedRunStates DEF RemoveSchedule
    <2>9. ~down /\ down' = down
        BY <1>5 DEF RemoveSchedule, Callable
    <2> HIDE DEF o
    <2>10. Registry!Remove(o, e)
        BY <2>6, <2>7, <2>8, <2>9 DEF Registry!Remove
    <2>11. QED
        BY <2>5, <2>10 DEF Registry!Next
<1>6. ASSUME NEW ns \in Namespaces, NEW name \in Names, RemoveAllSchedules(ns, name)
      PROVE  Goal
    <2>1. entries' = {f \in entries : ~(OwnedBy(f, ns, name) /\ f.id \in Tracked(ns, name))}
        BY <1>6, RemovesOwnEntries DEF RemoveAllSchedules
    <2>2. \A f \in entries : OwnedBy(f, ns, name) => f.id \in Tracked(ns, name)
        BY <1>0, <1>6 DEF NoOrphan, InsideAdd, OwnedBy, RemoveAllSchedules, Callable
    <2>3. entries' = {f \in entries : ~OwnedBy(f, ns, name)}
        BY <2>1, <2>2
    <2> DEFINE o == <<ns, name>>
    <2>4. o \in Namespaces \X Names
        OBVIOUS
    <2>5. InstalledJobs' = [InstalledJobs EXCEPT ![o] = {}]
        <3>1. \A p \in Namespaces \X Names : p[1] = ns /\ p[2] = name => p = o
            OBVIOUS
        <3>2. \A p \in Namespaces \X Names, f \in entries :
                 OwnedBy(f, p[1], p[2]) /\ OwnedBy(f, ns, name) => p = o
            <4> HIDE DEF o
            <4> QED BY <3>1 DEF OwnedBy
        <3>3. o[1] = ns /\ o[2] = name
            OBVIOUS
        <3> HIDE DEF o
        <3>4. \A p \in Namespaces \X Names :
                 {f \in entries' : OwnedBy(f, p[1], p[2])} =
                    IF p = o THEN {} ELSE InstalledJobs[p]
            BY <2>3, <3>2, <3>3 DEF InstalledJobs
        <3>5. QED
            BY <2>4, <3>4 DEF InstalledJobs
    <2>6. RunStates' = RunStates
        BY <1>0, <1>6, DetachedRunStates DEF RemoveAllSchedules
    <2>7. ~down /\ down' = down
        BY <1>6 DEF RemoveAllSchedules, Callable
    <2> HIDE DEF o
    <2>8. Registry!RemoveAll(o)
        BY <2>5, <2>6, <2>7 DEF Registry!RemoveAll
    <2>9. QED
        BY <2>4, <2>8 DEF Registry!Next
<1>7. ASSUME NEW r \in Runs, NEW e \in entries, Fire(r, e)
      PROVE  Goal
    <2> DEFINE o == <<e.ns, e.name>>
    <2>1. e \in Entry /\ o \in Namespaces \X Names
        BY <1>0 DEF TypeOK, Entry
    <2>2. e \in InstalledJobs[o]
        BY <2>1 DEF InstalledJobs, OwnedBy
    <2>3. RunStates[r] = [state |-> "free"]
        BY <1>7 DEF RunStates, Fire
    <2>4. RunStates' = [RunStates EXCEPT ![r] = [state |-> "waiting", job |-> e]]
        <3> DEFINE n == [phase |-> "fired", entry |-> e, id |-> 0, ref |-> FALSE]
        <3>1. n # NotRunning /\ n.phase = "fired" /\ n.entry = e
            BY DEF NotRunning
        <3>2. runs' = [runs EXCEPT ![r] = n]
            BY <1>7 DEF Fire
        <3> HIDE DEF n
        <3>3. QED
            BY <1>0, <3>1, <3>2 DEF RunStates, TypeOK
    <2>5. InstalledJobs' = InstalledJobs /\ down' = down
        BY <1>7 DEF Fire, serviceVars, InstalledJobs
    <2> HIDE DEF o
    <2>6. Registry!Due(r, o, e)
        BY <2>2, <2>3, <2>4, <2>5 DEF Registry!Due, Registry!Free, Registry!Busy
    <2>7. QED
        BY <2>1, <2>6 DEF Registry!Next
<1>8. ASSUME NEW r \in Runs, BeginRun(r)
      PROVE  Goal
    <2>1. PICK e \in Entry : e = runs[r].entry
        BY <1>0, <1>8, RunType DEF BeginRun, InPhase
    <2>2. RunStates[r] = [state |-> "waiting", job |-> e]
        BY <1>8, <2>1 DEF RunStates, BeginRun, InPhase
    <2>3. ASSUME NEW q \in Runs, RunStates[q] = [state |-> "executing", job |-> e]
          PROVE  FALSE
        <3>1. runs[q] # NotRunning
            BY <2>3 DEF RunStates
        <3>2. runs[q].phase # "fired" /\ runs[q].entry = e
            BY <2>3, <3>1 DEF RunStates
        <3>3. Holding(q)
            BY <1>0, <3>1, <3>2, RunType DEF Holding, InPhase, Run
        <3>4. QED
            BY <1>8, <2>1, <3>2, <3>3 DEF BeginRun
    <2>4. RunStates' = [RunStates EXCEPT ![r] = [state |-> "executing", job |-> e]]
        <3>1. runs[r] \in Run
            BY <1>0, <1>8, RunType DEF BeginRun, InPhase
        <3>2. /\ runs'[r] # NotRunning /\ runs'[r].phase = "begun" /\ runs'[r].entry = e
              /\ \A q \in Runs \ {r} : runs'[q] = runs[q]
            BY <1>0, <1>8, <2>1, <3>1 DEF BeginRun, TypeOK, Run, NotRunning
        <3>3. QED
            BY <3>2 DEF RunStates
    <2>5. InstalledJobs' = InstalledJobs /\ down' = down
        BY <1>8 DEF BeginRun, serviceVars, InstalledJobs
    <2>6. Registry!Execute(r, e)
        BY <2>2, <2>3, <2>4, <2>5 DEF Registry!Execute, Registry!Executing, Registry!Busy
    <2>7. QED
        BY <2>6 DEF Registry!Next
<1>9. ASSUME NEW r \in Runs, RecordRun(r)
      PROVE  Goal
    <2>1. runs[r] \in Run /\ runs[r].phase = "begun"
        BY <1>0, <1>9, RunType DEF RecordRun, InPhase
    <2>2. /\ runs'[r] # NotRunning /\ runs'[r].phase = "callback"
          /\ runs'[r].entry = runs[r].entry
          /\ \A q \in Runs \ {r} : runs'[q] = runs[q]
        BY <1>0, <1>9, <2>1 DEF RecordRun, TypeOK, Run, NotRunning
    <2>3. RunStates' = RunStates
        BY <1>9, <2>1, <2>2, SameRunStates DEF RecordRun, InPhase
    <2>4. QED
        BY <1>9, <1>a, <2>3 DEF RecordRun, serviceVars
<1>10. ASSUME NEW r \in Runs, RecordRunAfterShutdown(r)
      PROVE  Goal
    BY <1>0, <1>10, CompleteRunStates DEF RecordRunAfterShutdown, serviceVars
<1>11. ASSUME NEW r \in Runs, NEW result \in {"success", "panic"}, FinishRun(r, result)
      PROVE  Goal
    BY <1>0, <1>11, CompleteRunStates DEF FinishRun, serviceVars
<1>12. CASE Shutdown
    <2>1. InstalledJobs' = [o \in Namespaces \X Names |-> {}]
        BY <1>12 DEF Shutdown, InstalledJobs
    <2>2. RunStates' = RunStates
        <3>1. ASSUME NEW r \in Runs, runs[r] # NotRunning
              PROVE  /\ runs'[r] # NotRunning
                     /\ runs'[r].entry = runs[r].entry
                     /\ runs'[r].phase = runs[r].phase
            BY <1>0, <1>12, <3>1, RunType DEF Shutdown, Run, NotRunning
        <3>2. ASSUME NEW r \in Runs, runs[r] = NotRunning
              PROVE  runs'[r] = NotRunning
            BY <1>12, <3>2 DEF Shutdown
        <3>3. QED
            BY <3>1, <3>2, SameRunStates
    <2>3. Registry!Close
        BY <1>12, <2>1, <2>2 DEF Shutdown, Registry!Close
    <2>4. QED
        BY <2>3 DEF Registry!Next
<1>13. CASE UNCHANGED vars
    BY <1>13, <1>b DEF vars
<1>14. QED
    BY <1>1, <1>2, <1>3, <1>4, <1>5, <1>6, <1>7, <1>8, <1>9, <1>10, <1>11,
       <1>12, <1>13
    DEF Next, WorkerStep, RemovalStep, RunStep

LEMMA InitImplementsRegistry == Init => Registry!Init
BY DEF Init, Registry!Init, InstalledJobs, RunStates, Registry!Free

\* When no namespace has specs in two timezones the service is a registry:
\* an owner's jobs change by that owner's calls only, and no job runs twice
\* at once.
THEOREM ServiceImplementsRegistry ==
    OneTimezonePerNamespace => (Spec => ImplementsRegistry)
<1> SUFFICES ASSUME OneTimezonePerNamespace PROVE Spec => ImplementsRegistry
    OBVIOUS
<1>1. Init => BaseInv /\ LiveInv
    BY InitBaseInv, InitLiveInv
<1>2. BaseInv /\ LiveInv /\ [Next]_vars => BaseInv' /\ LiveInv'
    BY NextBaseInv, NextLiveInv
<1>3. QED
    BY <1>1, <1>2, InitImplementsRegistry, NextImplementsRegistry, PTL
    DEF Spec, ImplementsRegistry, Registry!Spec
=============================================================================
