---------------------- MODULE TimezoneSchedulerProofs ----------------------
(***************************************************************************)
(* What holds of TimezoneScheduler whatever timezones the specs use: its   *)
(* type invariant, and that no entry is leaked.  The lemmas about numbers  *)
(* come first: what appending a job ID to a list, and RemoveFirst, which   *)
(* is RemoveSchedule's loop, do to the elements of the list.               *)
(***************************************************************************)
EXTENDS TimezoneScheduler, FiniteSetTheorems, TLAPS

----------------------------------------------------------------------------
(* Lemmas about sequences of job IDs.                                      *)

\* A nonempty set of naturals has a least element: of the finite sets 0..i
\* with i in I, one has no other as a strict subset.
LEMMA MinExists ==
    ASSUME NEW I \in SUBSET Nat, I # {}
    PROVE  Min(I) \in I /\ \A i \in I : Min(I) <= i
<1> DEFINE T == {0..i : i \in I}
           R == StrictSubsetOrdering(Nat)
<1>1. T \subseteq FiniteSubsetsOf(Nat) /\ T # {}
    <2>1. ASSUME NEW i \in I PROVE 0..i \in SUBSET Nat /\ IsFiniteSet(0..i)
        <3>1. i \in Int /\ 0 \in Int
            OBVIOUS
        <3>2. IsFiniteSet(0..i)
            BY <3>1, FS_Interval
        <3>3. QED BY <3>1, <3>2
    <2>2. QED
        BY <2>1 DEF FiniteSubsetsOf
<1>2. PICK t \in T : \A u \in T : ~ (<<u, t>> \in R)
    <2> HIDE DEF T, R
    <2> QED BY <1>1, WFMin, FS_StrictSubsetOrderingWellFounded DEF R
<1>3. PICK x \in I : t = 0..x
    BY <1>2
<1>4. ASSUME NEW y \in I, y < x PROVE FALSE
    <2>1. (0..y) \in SUBSET Nat /\ (0..x) \in SUBSET Nat
        OBVIOUS
    <2>2. 0..y \subseteq 0..x /\ 0..y # 0..x
        <3>1. x \in 0..x /\ x \notin 0..y
            BY <1>4
        <3>2. QED BY <3>1, <1>4
    <2>3. <<0..y, 0..x>> \in R
        BY <2>1, <2>2 DEF StrictSubsetOrdering
    <2>4. QED BY <2>3, <1>2, <1>3
<1>5. \A y \in I : x <= y
    BY <1>4
<1>6. QED
    BY <1>5 DEF Min

LEMMA ToSetAppend ==
    ASSUME NEW S, NEW s \in Seq(S), NEW x \in S
    PROVE  ToSet(Append(s, x)) = ToSet(s) \cup {x}
<1> DEFINE t == Append(s, x)
<1>1. /\ DOMAIN t = 1..(Len(s) + 1)
      /\ \A i \in 1..Len(s) : t[i] = s[i]
      /\ t[Len(s) + 1] = x
    OBVIOUS
<1>2. DOMAIN s = 1..Len(s) /\ Len(s) \in Nat
    OBVIOUS
<1> HIDE DEF t
<1>3. ToSet(t) = ToSet(s) \cup {x}
    BY <1>1, <1>2 DEF ToSet
<1>4. QED
    BY <1>3 DEF t

LEMMA ToSetEmpty == ToSet(<<>>) = {}
BY DEF ToSet

NoDuplicates(s) == \A i, j \in DOMAIN s : s[i] = s[j] => i = j

\* The element that RemoveFirst drops.
LEMMA RemoveFirstIndex ==
    ASSUME NEW S, NEW s \in Seq(S), NEW x \in ToSet(s)
    PROVE  \E i \in 1..Len(s) : s[i] = x /\ RemoveFirst(s, x) = RemoveAt(s, i)
<1> DEFINE I == {i \in 1..Len(s) : s[i] = x}
<1>1. I \in SUBSET Nat /\ I # {}
    BY DEF ToSet
<1>2. Min(I) \in I
    BY <1>1, MinExists
<1>3. SelectInSeq(s, LAMBDA v : v = x) = Min(I)
    BY <1>1 DEF SelectInSeq
<1>4. RemoveFirst(s, x) = RemoveAt(s, Min(I))
    BY <1>1, <1>3 DEF RemoveFirst
<1>5. QED
    BY <1>2, <1>4

LEMMA RemoveAtElements ==
    ASSUME NEW S, NEW s \in Seq(S), NEW i \in 1..Len(s)
    PROVE  /\ RemoveAt(s, i) \in Seq(S)
           /\ Len(RemoveAt(s, i)) = Len(s) - 1
           /\ \A j \in 1..(Len(s) - 1) :
                 RemoveAt(s, i)[j] = IF j < i THEN s[j] ELSE s[j + 1]
<1> DEFINE h == SubSeq(s, 1, i - 1)
           t == SubSeq(s, i + 1, Len(s))
<1>1. h \in Seq(S) /\ Len(h) = i - 1 /\ \A j \in 1..(i - 1) : h[j] = s[j]
    OBVIOUS
<1>2. t \in Seq(S) /\ Len(t) = Len(s) - i
        /\ \A j \in 1..(Len(s) - i) : t[j] = s[i + j]
    OBVIOUS
<1>3. RemoveAt(s, i) = h \o t
    BY DEF RemoveAt
<1> HIDE DEF h, t
<1>4. h \o t \in Seq(S) /\ Len(h \o t) = Len(s) - 1
    <2>1. ASSUME NEW u \in Seq(S), NEW v \in Seq(S)
          PROVE  u \o v \in Seq(S) /\ Len(u \o v) = Len(u) + Len(v)
        OBVIOUS
    <2>2. h \in Seq(S) /\ t \in Seq(S)
        BY <1>1, <1>2
    <2>3. h \o t \in Seq(S) /\ Len(h \o t) = Len(h) + Len(t)
        BY <2>1, <2>2
    <2>4. Len(h) = i - 1 /\ Len(t) = Len(s) - i /\ Len(s) \in Nat /\ i \in Nat
        BY <1>1, <1>2
    <2>5. QED BY <2>3, <2>4
<1>5. ASSUME NEW j \in 1..(Len(s) - 1)
      PROVE  (h \o t)[j] = IF j < i THEN s[j] ELSE s[j + 1]
    <2>1. CASE j < i
        BY <1>1, <1>2, <2>1
    <2>2. CASE ~(j < i)
        <3>1. (h \o t)[j] = t[j - (i - 1)]
            BY <1>1, <1>2, <2>2
        <3>2. j - (i - 1) \in 1..(Len(s) - i) /\ i + (j - (i - 1)) = j + 1
            BY <2>2
        <3>3. QED
            BY <3>1, <3>2, <1>2, <2>2
    <2>3. QED
        BY <2>1, <2>2
<1>6. QED
    BY <1>3, <1>4, <1>5

\* RemoveFirst drops one occurrence of the element and no other element.
LEMMA ToSetRemoveFirst ==
    ASSUME NEW S, NEW s \in Seq(S), NEW x \in ToSet(s)
    PROVE  /\ RemoveFirst(s, x) \in Seq(S)
           /\ ToSet(s) \ {x} \subseteq ToSet(RemoveFirst(s, x))
           /\ ToSet(RemoveFirst(s, x)) \subseteq ToSet(s)
<1>1. PICK i \in 1..Len(s) : s[i] = x /\ RemoveFirst(s, x) = RemoveAt(s, i)
    BY RemoveFirstIndex
<1> DEFINE t == RemoveAt(s, i)
<1>2. /\ t \in Seq(S)
      /\ Len(t) = Len(s) - 1
      /\ \A j \in 1..(Len(s) - 1) : t[j] = IF j < i THEN s[j] ELSE s[j + 1]
    BY RemoveAtElements
<1> HIDE DEF t
<1>3. ASSUME NEW k \in 1..Len(s), s[k] # x
      PROVE  s[k] \in ToSet(t)
    <2>1. CASE k < i
        BY <2>1, <1>2 DEF ToSet
    <2>2. CASE k > i
        <3>1. k - 1 \in 1..(Len(s) - 1) /\ t[k - 1] = s[k]
            BY <2>2, <1>2
        <3>2. QED
            BY <3>1, <1>2 DEF ToSet
    <2>3. QED
        BY <2>1, <2>2, <1>1, <1>3
<1>4. ToSet(t) \subseteq ToSet(s)
    <2>1. ASSUME NEW j \in 1..(Len(s) - 1)
          PROVE  t[j] \in ToSet(s)
        BY <1>2 DEF ToSet
    <2>2. QED
        BY <2>1, <1>2 DEF ToSet
<1>5. ToSet(s) \ {x} \subseteq ToSet(t)
    <2>1. DOMAIN s = 1..Len(s)
        OBVIOUS
    <2>2. QED BY <2>1, <1>3 DEF ToSet
<1>6. RemoveFirst(s, x) = t
    BY <1>1 DEF t
<1>7. QED
    BY <1>2, <1>4, <1>5, <1>6

\* Without duplicates it drops the element altogether.
LEMMA RemoveFirstNoDuplicates ==
    ASSUME NEW S, NEW s \in Seq(S), NEW x \in ToSet(s), NoDuplicates(s)
    PROVE  /\ ToSet(RemoveFirst(s, x)) = ToSet(s) \ {x}
           /\ NoDuplicates(RemoveFirst(s, x))
<1>1. PICK i \in 1..Len(s) : s[i] = x /\ RemoveFirst(s, x) = RemoveAt(s, i)
    BY RemoveFirstIndex
<1> DEFINE t == RemoveAt(s, i)
<1>2. /\ t \in Seq(S)
      /\ Len(t) = Len(s) - 1
      /\ \A j \in 1..(Len(s) - 1) : t[j] = IF j < i THEN s[j] ELSE s[j + 1]
    BY RemoveAtElements
<1> HIDE DEF t
<1>3. \A j \in 1..(Len(s) - 1) : t[j] # x
    BY <1>1, <1>2 DEF NoDuplicates
<1>4. x \notin ToSet(t)
    BY <1>2, <1>3 DEF ToSet
<1>5. NoDuplicates(t)
    <2>1. DOMAIN t = 1..(Len(s) - 1) /\ DOMAIN s = 1..Len(s) /\ Len(s) \in Nat
        BY <1>2
    <2>2. ASSUME NEW j \in DOMAIN t, NEW k \in DOMAIN t, t[j] = t[k]
          PROVE  j = k
        <3> DEFINE jj == IF j < i THEN j ELSE j + 1
                   kk == IF k < i THEN k ELSE k + 1
        <3>1. jj \in DOMAIN s /\ kk \in DOMAIN s
            BY <2>1
        <3>2. s[jj] = t[j] /\ s[kk] = t[k]
            BY <2>1, <1>2
        <3>3. jj = kk
            <4> HIDE DEF jj, kk
            <4> QED BY <3>1, <3>2, <2>2 DEF NoDuplicates
        <3>4. j \in Int /\ k \in Int /\ i \in Int
            BY <2>1
        <3>5. QED BY <3>3, <3>4
    <2>3. QED BY <2>2 DEF NoDuplicates
<1>6. QED
    BY <1>1, <1>4, <1>5, ToSetRemoveFirst DEF t
----------------------------------------------------------------------------
(* Type correctness.                                                       *)

\* A call that has passed AddFunc carries the number cron gave its entry.
CallsNumbered ==
    \A w \in Workers :
        workers[w] # Idle /\ workers[w].pc # "addFunc" => workers[w].entry \in Entry

TypeInv == TypeOK /\ CallsNumbered

LEMMA InitTypeInv == Init => TypeInv
<1>1. <<>> \in Seq(JobIDs) /\ NoExecution \in Execution /\ 0 \in 0..MaxJobID
    BY ConstantsAssumption DEF NoExecution, Execution
<1> SUFFICES ASSUME Init PROVE TypeInv
    OBVIOUS
<1>2. nextID \in [Namespaces -> [Timezones -> 0..MaxJobID]]
    BY <1>1 DEF Init
<1>3. scheduleMap \in [Namespaces -> [Names -> Seq(JobIDs)]]
    BY <1>1 DEF Init
<1>4. executionMap \in [Namespaces -> [0..MaxJobID -> Execution]]
    BY <1>1 DEF Init
<1>5. QED
    BY <1>2, <1>3, <1>4 DEF Init, TypeInv, TypeOK, CallsNumbered

LEMMA ExecutionMapUpdate ==
    ASSUME TypeOK, NEW ns \in Namespaces, NEW id \in 0..MaxJobID, NEW x \in Execution
    PROVE  [executionMap EXCEPT ![ns][id] = x] \in [Namespaces -> [0..MaxJobID -> Execution]]
BY DEF TypeOK

LEMMA DetachedType ==
    ASSUME TypeOK, NEW ns, NEW ids
    PROVE  /\ Detached(ns, ids) \in [Runs -> {NotRunning} \cup Run]
           /\ \A r \in Runs : runs[r] = NotRunning => Detached(ns, ids)[r] = NotRunning
           /\ \A r \in Runs : runs[r] # NotRunning =>
                 /\ Detached(ns, ids)[r] # NotRunning
                 /\ Detached(ns, ids)[r].phase = runs[r].phase
                 /\ Detached(ns, ids)[r].entry = runs[r].entry
BY DEF TypeOK, Detached, Run, NotRunning

LEMMA ForgetIDsType ==
    ASSUME TypeOK, NEW ns \in Namespaces, NEW ids
    PROVE  ForgetIDs(ns, ids) \in [Namespaces -> [0..MaxJobID -> Execution]]
BY DEF TypeOK, ForgetIDs, Execution, NoExecution

LEMMA TrackedIDs ==
    ASSUME TypeOK, NEW ns \in Namespaces, NEW name \in Names
    PROVE  /\ scheduleMap[ns][name] \in Seq(JobIDs)
           /\ Tracked(ns, name) \subseteq JobIDs
<1>1. scheduleMap[ns][name] \in Seq(JobIDs)
    BY DEF TypeOK
<1>2. \A s \in Seq(JobIDs) : ToSet(s) \subseteq JobIDs
    BY DEF ToSet
<1>3. QED
    BY <1>1, <1>2 DEF Tracked

\* What a call in progress is made of.
LEMMA CallType ==
    ASSUME TypeOK, NEW w \in Workers, workers[w] # Idle
    PROVE  /\ workers[w] \in Call
           /\ workers[w].entry \in NewEntry
           /\ workers[w].pc \in {"addFunc", "assign", "track"}
BY DEF TypeOK, Call

LEMMA RunType ==
    ASSUME TypeOK, NEW r \in Runs, runs[r] # NotRunning
    PROVE  /\ runs[r] \in Run
           /\ runs[r].entry \in Entry
           /\ runs[r].id \in 0..MaxJobID
BY DEF TypeOK, Run

LEMMA NextTypeInv == TypeInv /\ [Next]_vars => TypeInv'
<1> SUFFICES ASSUME TypeInv, [Next]_vars PROVE TypeInv'
    OBVIOUS
<1> USE ConstantsAssumption
<1>0. TypeOK /\ CallsNumbered
    BY DEF TypeInv
<1>1. ASSUME NEW w \in Workers, NEW ns \in Namespaces, NEW name \in Names,
             NEW tz \in TimezonesOf[ns], AddSchedule(w, ns, name, tz)
      PROVE  TypeInv'
    <2>1. tz \in Timezones
        OBVIOUS
    <2>2. schedulers' \in [Namespaces -> SUBSET Timezones]
        BY <1>0, <1>1, <2>1 DEF AddSchedule, GetOrCreateCronScheduler, TypeOK
    <2>3. workers' \in [Workers -> {Idle} \cup Call]
        BY <1>0, <1>1, <2>1 DEF AddSchedule, TypeOK, Call, NewEntry
    <2>4. CallsNumbered'
        BY <1>0, <1>1 DEF AddSchedule, TypeOK, CallsNumbered
    <2>5. QED
        BY <1>0, <1>1, <2>2, <2>3, <2>4 DEF AddSchedule, TypeInv, TypeOK
<1>2. ASSUME NEW w \in Workers, NEW ns \in Namespaces, NEW name \in Names,
             NEW tz \in TimezonesOf[ns], RejectSchedule(w, ns, name, tz)
      PROVE  TypeInv'
    <2>1. tz \in Timezones
        OBVIOUS
    <2>2. QED
        BY <1>0, <1>2, <2>1
        DEF RejectSchedule, GetOrCreateCronScheduler, TypeInv, TypeOK, CallsNumbered
<1>3. ASSUME NEW w \in Workers, AddFunc(w)
      PROVE  TypeInv'
    <2> DEFINE e == workers[w].entry
               id == nextID[e.ns][e.tz] + 1
               f == [e EXCEPT !.id = id]
    <2>1. e \in NewEntry
        BY <1>0, <1>3, CallType DEF AddFunc
    <2>2. nextID[e.ns][e.tz] \in Nat /\ id \in JobIDs
        BY <1>0, <1>3, <2>1 DEF AddFunc, TypeOK, NewEntry, JobIDs
    <2>3. f \in Entry /\ f \in NewEntry
        BY <2>1, <2>2 DEF Entry, NewEntry, JobIDs
    <2>4. /\ nextID' = [nextID EXCEPT ![e.ns][e.tz] = id]
          /\ entries' = entries \cup {f}
          /\ workers' = [workers EXCEPT ![w] = [pc |-> "assign", entry |-> f]]
        BY <1>3 DEF AddFunc
    <2>5. nextID' \in [Namespaces -> [Timezones -> 0..MaxJobID]]
        BY <1>0, <2>1, <2>2, <2>4 DEF TypeOK, NewEntry, JobIDs
    <2> HIDE DEF e, id, f
    <2>6. workers' \in [Workers -> {Idle} \cup Call]
        BY <1>0, <2>3, <2>4 DEF TypeOK, Call
    <2>7. CallsNumbered'
        BY <1>0, <2>3, <2>4 DEF TypeOK, CallsNumbered
    <2>8. QED
        BY <1>0, <1>3, <2>3, <2>4, <2>5, <2>6, <2>7 DEF AddFunc, TypeInv, TypeOK
<1>4. ASSUME NEW w \in Workers, AssignEntryID(w)
      PROVE  TypeInv'
    <2>1. workers[w] \in Call /\ workers[w].pc = "assign"
        BY <1>0, <1>4, CallType DEF AssignEntryID
    <2>2. workers' \in [Workers -> {Idle} \cup Call]
        BY <1>0, <1>4, <2>1 DEF AssignEntryID, TypeOK, Call
    <2>3. CallsNumbered'
        BY <1>0, <1>4, <2>1 DEF AssignEntryID, TypeOK, CallsNumbered, Call
    <2>4. QED
        BY <1>0, <1>4, <2>2, <2>3 DEF AssignEntryID, serviceVars, TypeInv, TypeOK
<1>5. ASSUME NEW w \in Workers, TrackSchedule(w)
      PROVE  TypeInv'
    <2> DEFINE e == workers[w].entry
    <2>1. e \in Entry
        BY <1>0, <1>5 DEF TrackSchedule, CallsNumbered
    <2>2. /\ scheduleMap' = [scheduleMap EXCEPT ![e.ns][e.name] = Append(@, e.id)]
          /\ executionMap' = [executionMap EXCEPT ![e.ns][e.id] = NewExecution]
          /\ runs' = Detached(e.ns, {e.id})
          /\ workers' = [workers EXCEPT ![w] = Idle]
        BY <1>5 DEF TrackSchedule
    <2> HIDE DEF e
    <2>3. e.ns \in Namespaces /\ e.name \in Names /\ e.id \in JobIDs /\ e.id \in 0..MaxJobID
        BY <2>1 DEF Entry, JobIDs
    <2>4. scheduleMap' \in [Namespaces -> [Names -> Seq(JobIDs)]]
        <3>1. Append(scheduleMap[e.ns][e.name], e.id) \in Seq(JobIDs)
            BY <1>0, <2>3, TrackedIDs
        <3>2. QED
            BY <1>0, <2>2, <2>3, <3>1 DEF TypeOK
    <2>5. executionMap' \in [Namespaces -> [0..MaxJobID -> Execution]]
        <3>1. NewExecution \in Execution
            BY DEF NewExecution, NoExecution, Execution
        <3>2. QED
            BY <1>0, <2>2, <2>3, <3>1 DEF TypeOK
    <2>6. runs' \in [Runs -> {NotRunning} \cup Run]
        BY <1>0, <2>2, DetachedType
    <2>7. workers' \in [Workers -> {Idle} \cup Call] /\ CallsNumbered'
        BY <1>0, <2>2 DEF TypeOK, CallsNumbered
    <2>8. QED
        BY <1>0, <1>5, <2>4, <2>5, <2>6, <2>7 DEF TrackSchedule, TypeInv, TypeOK
<1>6. ASSUME NEW ns \in Namespaces, NEW name \in Names,
             NEW id \in Tracked(ns, name), RemoveSchedule(ns, name, id)
      PROVE  TypeInv'
    <2>1. RemoveFirst(scheduleMap[ns][name], id) \in Seq(JobIDs)
        BY <1>0, TrackedIDs, ToSetRemoveFirst DEF Tracked
    <2>2. scheduleMap' \in [Namespaces -> [Names -> Seq(JobIDs)]]
        BY <1>0, <1>6, <2>1 DEF RemoveSchedule, TypeOK
    <2>3. runs' \in [Runs -> {NotRunning} \cup Run]
        BY <1>0, <1>6, DetachedType DEF RemoveSchedule
    <2>4. executionMap' \in [Namespaces -> [0..MaxJobID -> Execution]]
        BY <1>0, <1>6, ForgetIDsType DEF RemoveSchedule
    <2>5. QED
        BY <1>0, <1>6, <2>2, <2>3, <2>4
        DEF RemoveSchedule, RemoveIDs, TypeInv, TypeOK, CallsNumbered
<1>7. ASSUME NEW ns \in Namespaces, NEW name \in Names, RemoveAllSchedules(ns, name)
      PROVE  TypeInv'
    <2>1. <<>> \in Seq(JobIDs)
        OBVIOUS
    <2>2. scheduleMap' \in [Namespaces -> [Names -> Seq(JobIDs)]]
        BY <1>0, <1>7, <2>1 DEF RemoveAllSchedules, TypeOK
    <2>3. runs' \in [Runs -> {NotRunning} \cup Run]
        BY <1>0, <1>7, DetachedType DEF RemoveAllSchedules
    <2>4. executionMap' \in [Namespaces -> [0..MaxJobID -> Execution]]
        BY <1>0, <1>7, ForgetIDsType DEF RemoveAllSchedules
    <2>5. QED
        BY <1>0, <1>7, <2>2, <2>3, <2>4
        DEF RemoveAllSchedules, RemoveIDs, TypeInv, TypeOK, CallsNumbered
<1>8. ASSUME NEW r \in Runs, NEW e \in entries, Fire(r, e)
      PROVE  TypeInv'
    <2>1. e \in Entry
        BY <1>0 DEF TypeOK
    <2>2. runs' \in [Runs -> {NotRunning} \cup Run]
        BY <1>0, <1>8, <2>1 DEF Fire, TypeOK, Run
    <2>3. QED
        BY <1>0, <1>8, <2>2 DEF Fire, serviceVars, TypeInv, TypeOK, CallsNumbered
<1>9. ASSUME NEW r \in Runs, BeginRun(r)
      PROVE  TypeInv'
    <2>1. runs[r] \in Run /\ runs[r].entry \in Entry
        BY <1>0, <1>9, RunType DEF BeginRun, InPhase
    <2>2. EntryIDOf(runs[r].entry) \in 0..MaxJobID
        BY <2>1 DEF EntryIDOf, Entry, JobIDs
    <2>3. runs' \in [Runs -> {NotRunning} \cup Run]
        <3> HIDE DEF EntryIDOf
        <3>1. runs' = [runs EXCEPT ![r] = [runs[r] EXCEPT !.phase = "begun",
                          !.id = EntryIDOf(runs[r].entry)]]
            BY <1>0, <1>9 DEF BeginRun, TypeOK
        <3>2. [runs[r] EXCEPT !.phase = "begun", !.id = EntryIDOf(runs[r].entry)] \in Run
            BY <2>1, <2>2 DEF Run
        <3>3. QED
            BY <1>0, <3>1, <3>2 DEF TypeOK
    <2>4. QED
        BY <1>0, <1>9, <2>3 DEF BeginRun, serviceVars, TypeInv, TypeOK, CallsNumbered
<1>10. ASSUME NEW r \in Runs, RecordRun(r)
      PROVE  TypeInv'
    <2>1. runs[r] \in Run /\ runs[r].entry.ns \in Namespaces /\ runs[r].id \in 0..MaxJobID
        BY <1>0, <1>10, RunType DEF RecordRun, InPhase, Entry
    <2>2. executionMap' \in [Namespaces -> [0..MaxJobID -> Execution]]
        <3> DEFINE x == executionMap[runs[r].entry.ns][runs[r].id]
                   y == [x EXCEPT !.present = TRUE, !.ran = TRUE]
        <3>1. x \in Execution
            BY <1>0, <2>1 DEF TypeOK
        <3>2. y \in Execution
            BY <3>1 DEF Execution
        <3>3. executionMap' = [executionMap EXCEPT ![runs[r].entry.ns][runs[r].id] = y]
            BY <1>10 DEF RecordRun
        <3> HIDE DEF y
        <3>4. QED
            BY <1>0, <2>1, <3>2, <3>3, ExecutionMapUpdate
    <2>3. runs' \in [Runs -> {NotRunning} \cup Run]
        BY <1>0, <1>10, <2>1 DEF RecordRun, TypeOK, Run
    <2>4. QED
        BY <1>0, <1>10, <2>2, <2>3 DEF RecordRun, serviceVars, TypeInv, TypeOK, CallsNumbered
<1>11. ASSUME NEW r \in Runs, RecordRunAfterShutdown(r)
      PROVE  TypeInv'
    BY <1>0, <1>11 DEF RecordRunAfterShutdown, serviceVars, TypeInv, TypeOK, CallsNumbered
<1>12. ASSUME NEW r \in Runs, NEW result \in {"success", "panic"}, FinishRun(r, result)
      PROVE  TypeInv'
    <2>1. runs[r] \in Run /\ runs[r].entry.ns \in Namespaces /\ runs[r].id \in 0..MaxJobID
        BY <1>0, <1>12, RunType DEF FinishRun, InPhase, Entry
    <2>2. executionMap' \in [Namespaces -> [0..MaxJobID -> Execution]]
        <3> DEFINE x == executionMap[runs[r].entry.ns][runs[r].id]
                   y == [x EXCEPT !.last = result]
        <3>1. x \in Execution
            BY <1>0, <2>1 DEF TypeOK
        <3>2. y \in Execution
            BY <3>1 DEF Execution
        <3>3. \/ executionMap' = [executionMap EXCEPT ![runs[r].entry.ns][runs[r].id] = y]
              \/ executionMap' = executionMap
            BY <1>12 DEF FinishRun
        <3> HIDE DEF y
        <3>4. executionMap \in [Namespaces -> [0..MaxJobID -> Execution]]
            BY <1>0 DEF TypeOK
        <3>5. QED
            BY <1>0, <2>1, <3>2, <3>3, <3>4, ExecutionMapUpdate
    <2>3. QED
        BY <1>0, <1>12, <2>2 DEF FinishRun, serviceVars, TypeInv, TypeOK, CallsNumbered
<1>13. CASE Shutdown
    <2>1. runs' \in [Runs -> {NotRunning} \cup Run]
        BY <1>0, <1>13 DEF Shutdown, TypeOK, Run
    <2>2. <<>> \in Seq(JobIDs) /\ NoExecution \in Execution
        BY DEF NoExecution, Execution
    <2>3. QED
        BY <1>0, <1>13, <2>1, <2>2 DEF Shutdown, TypeInv, TypeOK, CallsNumbered
<1>14. CASE UNCHANGED vars
    BY <1>0, <1>14 DEF vars, TypeInv, TypeOK, CallsNumbered
<1>15. QED
    BY <1>1, <1>2, <1>3, <1>4, <1>5, <1>6, <1>7, <1>8, <1>9, <1>10, <1>11,
       <1>12, <1>13, <1>14
    DEF Next, WorkerStep, RemovalStep, RunStep

\* Every reachable state of the service is well typed, for any namespaces,
\* timezones, workers and runs.
THEOREM TypeCorrect == Spec => []TypeOK
<1>1. TypeInv => TypeOK
    BY DEF TypeInv
<1>2. QED
    BY InitTypeInv, NextTypeInv, <1>1, PTL DEF Spec
----------------------------------------------------------------------------
(* No entry is leaked.                                                     *)

\* Every entry, and every entry about to be added, is in a cron instance that
\* the removal loops visit.
ZonesExist ==
    /\ \A e \in entries : e.tz \in schedulers[e.ns]
    /\ \A w \in Workers : workers[w] # Idle =>
          workers[w].entry.tz \in schedulers[workers[w].entry.ns]

LEMMA RunStepFrame == RunStep => UNCHANGED <<serviceVars, workers, down>>
BY DEF RunStep, Fire, BeginRun, RecordRun, RecordRunAfterShutdown, FinishRun

LEMMA InitZonesExist == Init => ZonesExist
BY DEF Init, ZonesExist

LEMMA NextZonesExist == TypeInv /\ ZonesExist /\ [Next]_vars => ZonesExist'
<1> SUFFICES ASSUME TypeInv, ZonesExist, [Next]_vars PROVE ZonesExist'
    OBVIOUS
<1>0. TypeOK
    BY DEF TypeInv
<1>1. ASSUME NEW w \in Workers, NEW ns \in Namespaces, NEW name \in Names,
             NEW tz \in TimezonesOf[ns],
             AddSchedule(w, ns, name, tz) \/ RejectSchedule(w, ns, name, tz)
      PROVE  ZonesExist'
    <2>1. /\ schedulers' = [schedulers EXCEPT ![ns] = @ \cup {tz}]
          /\ entries' = entries
          /\ \/ workers' = workers
             \/ workers' = [workers EXCEPT ![w] =
                   [pc |-> "addFunc",
                    entry |-> [ns |-> ns, name |-> name, tz |-> tz, id |-> 0]]]
        BY <1>1 DEF AddSchedule, RejectSchedule, GetOrCreateCronScheduler
    <2>2. \A m \in Namespaces : schedulers[m] \subseteq schedulers'[m]
        BY <1>0, <2>1 DEF TypeOK
    <2>3. \A e \in entries' : e.tz \in schedulers'[e.ns]
        BY <1>0, <2>1, <2>2 DEF ZonesExist, TypeOK, Entry
    <2>4. ASSUME NEW v \in Workers, workers'[v] # Idle
          PROVE  workers'[v].entry.tz \in schedulers'[workers'[v].entry.ns]
        <3>1. CASE workers'[v] = workers[v]
            <4>1. workers[v].entry.ns \in Namespaces
                BY <1>0, <2>4, <3>1, CallType DEF NewEntry
            <4>2. QED
                BY <2>2, <2>4, <3>1, <4>1 DEF ZonesExist
        <3>2. CASE workers'[v] # workers[v]
            <4>1. workers'[v].entry.ns = ns /\ workers'[v].entry.tz = tz
                BY <1>0, <2>1, <3>2 DEF TypeOK
            <4>2. tz \in schedulers'[ns]
                BY <1>0, <2>1 DEF TypeOK
            <4>3. QED
                BY <4>1, <4>2
        <3>3. QED
            BY <3>1, <3>2
    <2>5. QED
        BY <2>3, <2>4 DEF ZonesExist
<1>2. ASSUME NEW w \in Workers, AddFunc(w)
      PROVE  ZonesExist'
    <2> DEFINE e == workers[w].entry
               f == [e EXCEPT !.id = nextID[e.ns][e.tz] + 1]
    <2>1. e \in NewEntry /\ e.tz \in schedulers[e.ns]
        BY <1>0, <1>2, CallType DEF AddFunc, ZonesExist
    <2>2. f.ns = e.ns /\ f.tz = e.tz
        BY <2>1 DEF NewEntry
    <2>3. /\ entries' = entries \cup {f}
          /\ workers' = [workers EXCEPT ![w] = [pc |-> "assign", entry |-> f]]
          /\ schedulers' = schedulers
        BY <1>2 DEF AddFunc
    <2> HIDE DEF e, f
    <2>4. QED
        BY <1>0, <2>1, <2>2, <2>3 DEF ZonesExist, TypeOK
<1>3. ASSUME NEW w \in Workers, AssignEntryID(w) \/ TrackSchedule(w)
      PROVE  ZonesExist'
    <2>1. workers[w] \in Call
        BY <1>0, <1>3, CallType DEF AssignEntryID, TrackSchedule
    <2>2. /\ \/ workers' = [workers EXCEPT ![w] = Idle]
             \/ workers' = [workers EXCEPT ![w].pc = "track"]
          /\ UNCHANGED <<schedulers, entries>>
        BY <1>3 DEF AssignEntryID, TrackSchedule, serviceVars
    <2>3. \A v \in Workers : workers'[v] # Idle =>
             workers[v] # Idle /\ workers'[v].entry = workers[v].entry
        BY <1>0, <2>1, <2>2 DEF TypeOK, Call, Idle
    <2>4. QED
        BY <2>2, <2>3 DEF ZonesExist
<1>4. ASSUME NEW ns \in Namespaces, NEW name \in Names,
             \/ RemoveAllSchedules(ns, name)
             \/ \E id \in Tracked(ns, name) : RemoveSchedule(ns, name, id)
      PROVE  ZonesExist'
    BY <1>4 DEF RemoveAllSchedules, RemoveSchedule, RemoveIDs, ZonesExist
<1>5. CASE RunStep
    BY <1>5, RunStepFrame DEF serviceVars, ZonesExist
<1>6. CASE Shutdown
    BY <1>6 DEF Shutdown, ZonesExist
<1>7. CASE UNCHANGED vars
    BY <1>7 DEF vars, ZonesExist
<1>8. QED
    BY <1>1, <1>2, <1>3, <1>4, <1>5, <1>6, <1>7 DEF Next, WorkerStep, RemovalStep

LEMMA InitNoOrphan == Init => NoOrphan
BY DEF Init, NoOrphan

LEMMA NextNoOrphan ==
    TypeInv /\ ZonesExist /\ NoOrphan /\ [Next]_vars => NoOrphan'
<1> SUFFICES ASSUME TypeInv, ZonesExist, NoOrphan, [Next]_vars,
                    NEW e \in entries'
             PROVE  (e.id \in Tracked(e.ns, e.name))' \/ InsideAdd(e)'
    BY DEF NoOrphan
<1> DEFINE Kept == (e.id \in Tracked(e.ns, e.name))' \/ InsideAdd(e)'
<1>0. TypeOK /\ CallsNumbered
    BY DEF TypeInv
<1>a. e \in entries =>
         /\ e \in Entry
         /\ e.tz \in schedulers[e.ns]
         /\ e.id \in Tracked(e.ns, e.name) \/ InsideAdd(e)
    BY <1>0 DEF TypeOK, ZonesExist, NoOrphan
<1>1. ASSUME NEW w \in Workers, NEW ns \in Namespaces, NEW name \in Names,
             NEW tz \in TimezonesOf[ns],
             AddSchedule(w, ns, name, tz) \/ RejectSchedule(w, ns, name, tz)
      PROVE  Kept
    <2>1. /\ UNCHANGED <<entries, scheduleMap>>
          /\ workers[w] = Idle
          /\ \A v \in Workers \ {w} : workers'[v] = workers[v]
        BY <1>0, <1>1 DEF AddSchedule, RejectSchedule, TypeOK
    <2>2. QED
        BY <1>a, <2>1 DEF Tracked, InsideAdd
<1>2. ASSUME NEW w \in Workers, AddFunc(w)
      PROVE  Kept
    <2> DEFINE f == [workers[w].entry EXCEPT !.id =
                        nextID[workers[w].entry.ns][workers[w].entry.tz] + 1]
    <2>1. /\ entries' = entries \cup {f}
          /\ workers' = [workers EXCEPT ![w] = [pc |-> "assign", entry |-> f]]
          /\ workers[w].pc = "addFunc"
          /\ scheduleMap' = scheduleMap
        BY <1>2 DEF AddFunc
    <2> HIDE DEF f
    <2>2. CASE e = f
        BY <1>0, <2>1, <2>2 DEF InsideAdd, TypeOK, Idle
    <2>3. CASE e \in entries
        <3>1. InsideAdd(e) => InsideAdd(e)'
            BY <1>0, <2>1 DEF InsideAdd, TypeOK
        <3>2. QED
            BY <1>a, <2>1, <2>3, <3>1 DEF Tracked
    <2>4. QED
        BY <2>1, <2>2, <2>3
<1>3. ASSUME NEW w \in Workers, AssignEntryID(w)
      PROVE  Kept
    <2>1. workers[w] \in Call
        BY <1>0, <1>3, CallType DEF AssignEntryID
    <2>2. /\ workers' = [workers EXCEPT ![w].pc = "track"]
          /\ UNCHANGED <<entries, scheduleMap>>
        BY <1>3 DEF AssignEntryID, serviceVars
    <2>3. InsideAdd(e) => InsideAdd(e)'
        BY <1>0, <2>1, <2>2 DEF InsideAdd, TypeOK, Call, Idle
    <2>4. QED
        BY <1>a, <2>2, <2>3 DEF Tracked
<1>4. ASSUME NEW w \in Workers, TrackSchedule(w)
      PROVE  Kept
    <2>1. PICK f \in Entry : f = workers[w].entry
        BY <1>0, <1>4 DEF TrackSchedule, CallsNumbered
    <2>2. /\ scheduleMap' = [scheduleMap EXCEPT ![f.ns][f.name] = Append(@, f.id)]
          /\ workers' = [workers EXCEPT ![w] = Idle]
          /\ entries' = entries
        BY <1>4, <2>1 DEF TrackSchedule
    <2>3. e \in Entry
        BY <1>a, <2>2
    <2>4. /\ f.id \in Tracked(f.ns, f.name)'
          /\ Tracked(e.ns, e.name) \subseteq Tracked(e.ns, e.name)'
        <3>1. ToSet(Append(scheduleMap[f.ns][f.name], f.id)) =
                 Tracked(f.ns, f.name) \cup {f.id}
            BY <1>0, <2>1, TrackedIDs, ToSetAppend DEF Tracked, Entry
        <3>2. scheduleMap'[f.ns][f.name] = Append(scheduleMap[f.ns][f.name], f.id)
            BY <1>0, <2>1, <2>2 DEF TypeOK, Entry
        <3>3. CASE e.ns = f.ns /\ e.name = f.name
            BY <3>1, <3>2, <3>3 DEF Tracked
        <3>4. CASE ~(e.ns = f.ns /\ e.name = f.name)
            <4>1. scheduleMap'[e.ns][e.name] = scheduleMap[e.ns][e.name]
                BY <1>0, <2>1, <2>2, <2>3, <3>4 DEF TypeOK, Entry
            <4>2. QED
                BY <3>1, <3>2, <4>1 DEF Tracked
        <3>5. QED
            BY <3>3, <3>4
    <2>5. InsideAdd(e) => e = f \/ InsideAdd(e)'
        BY <1>0, <2>1, <2>2 DEF InsideAdd, TypeOK
    <2>6. QED
        BY <1>a, <2>2, <2>4, <2>5
<1>5. ASSUME NEW ns \in Namespaces, NEW name \in Names,
             NEW id \in Tracked(ns, name), RemoveSchedule(ns, name, id)
      PROVE  Kept
    <2>1. /\ e \in entries
          /\ ~(e.ns = ns /\ e.tz \in schedulers[ns] /\ e.id = id)
          /\ scheduleMap' = [scheduleMap EXCEPT ![ns][name] = RemoveFirst(@, id)]
          /\ workers' = workers
        BY <1>5 DEF RemoveSchedule, RemoveIDs
    <2>2. e.id \in Tracked(e.ns, e.name) => (e.id \in Tracked(e.ns, e.name))'
        <3>1. CASE OwnedBy(e, ns, name)
            <4>1. e.id # id
                BY <1>a, <2>1, <3>1 DEF OwnedBy
            <4>2. Tracked(ns, name)' = ToSet(RemoveFirst(scheduleMap[ns][name], id))
                BY <1>0, <2>1 DEF TypeOK, Tracked
            <4>3. Tracked(ns, name) \ {id} \subseteq Tracked(ns, name)'
                BY <1>0, <4>2, TrackedIDs, ToSetRemoveFirst DEF Tracked
            <4>4. QED
                BY <3>1, <4>1, <4>3 DEF OwnedBy
        <3>2. CASE ~OwnedBy(e, ns, name)
            BY <1>0, <1>a, <2>1, <3>2 DEF OwnedBy, Tracked, TypeOK, Entry
        <3>3. QED
            BY <3>1, <3>2
    <2>3. QED
        BY <1>a, <2>1, <2>2 DEF InsideAdd
<1>6. ASSUME NEW ns \in Namespaces, NEW name \in Names, RemoveAllSchedules(ns, name)
      PROVE  Kept
    <2>1. /\ e \in entries
          /\ ~(e.ns = ns /\ e.tz \in schedulers[ns] /\ e.id \in Tracked(ns, name))
          /\ scheduleMap' = [scheduleMap EXCEPT ![ns][name] = <<>>]
          /\ workers' = workers
        BY <1>6 DEF RemoveAllSchedules, RemoveIDs
    <2>2. e.id \in Tracked(e.ns, e.name) => ~OwnedBy(e, ns, name)
        BY <1>a, <2>1 DEF OwnedBy
    <2>3. ~OwnedBy(e, ns, name) => Tracked(e.ns, e.name)' = Tracked(e.ns, e.name)
        BY <1>0, <1>a, <2>1 DEF OwnedBy, Tracked, TypeOK, Entry
    <2>4. QED
        BY <1>a, <2>1, <2>2, <2>3 DEF InsideAdd
<1>7. CASE RunStep
    BY <1>a, <1>7, RunStepFrame DEF serviceVars, Tracked, InsideAdd
<1>8. CASE Shutdown
    BY <1>8 DEF Shutdown
<1>9. CASE UNCHANGED vars
    BY <1>a, <1>9 DEF vars, Tracked, InsideAdd
<1>10. QED
    BY <1>1, <1>2, <1>3, <1>4, <1>5, <1>6, <1>7, <1>8, <1>9
    DEF Next, WorkerStep, RemovalStep

\* Whatever timezones the specs of a namespace use and however calls and runs
\* interleave, an entry that can fire is one its owner's removal reaches.
THEOREM NothingOrphaned == Spec => []NoOrphan
<1>1. Init => TypeInv /\ ZonesExist /\ NoOrphan
    BY InitTypeInv, InitZonesExist, InitNoOrphan
<1>2. TypeInv /\ ZonesExist /\ NoOrphan /\ [Next]_vars
         => TypeInv' /\ ZonesExist' /\ NoOrphan'
    BY NextTypeInv, NextZonesExist, NextNoOrphan
<1>3. QED
    BY <1>1, <1>2, PTL DEF Spec
----------------------------------------------------------------------------
(* Every counted run leaves its result.                                    *)

\* A run that is to leave its result in the record of a number.
Holds(r, ns, id) ==
    /\ InPhase(r, "callback") /\ runs[r].ref
    /\ runs[r].entry.ns = ns /\ runs[r].id = id

\* Records that are forgotten or replaced have no result to wait for, and the
\* runs that hold the others go on holding them.
LEMMA ResetKeepsResults ==
    ASSUME TypeOK, FinishedRunHasResult, NEW ns \in Namespaces, NEW ids,
           runs' = Detached(ns, ids),
           \A m \in Namespaces, id \in 0..MaxJobID :
               IF m = ns /\ id \in ids
               THEN ~executionMap'[m][id].ran
               ELSE executionMap'[m][id] = executionMap[m][id]
    PROVE  FinishedRunHasResult'
<1> SUFFICES ASSUME NEW m \in Namespaces, NEW id \in 0..MaxJobID,
                    executionMap'[m][id].ran, executionMap'[m][id].last = "none"
             PROVE  \E r \in Runs : Holds(r, m, id)'
    BY DEF FinishedRunHasResult, Holds
<1>1. ~(m = ns /\ id \in ids) /\ executionMap'[m][id] = executionMap[m][id]
    OBVIOUS
<1>2. PICK r \in Runs : Holds(r, m, id)
    BY <1>1 DEF FinishedRunHasResult, Holds
<1>3. runs'[r] = runs[r]
    BY <1>1, <1>2 DEF Detached, Holds
<1>4. QED
    BY <1>2, <1>3 DEF Holds, InPhase

\* Runs that hold nothing yet, or nothing any more, leave the records alone.
LEMMA OthersKeepResults ==
    ASSUME FinishedRunHasResult, executionMap' = executionMap,
           \A r \in Runs : runs'[r] = runs[r] \/ ~InPhase(r, "callback")
    PROVE  FinishedRunHasResult'
<1> SUFFICES ASSUME NEW m \in Namespaces, NEW id \in 0..MaxJobID,
                    executionMap[m][id].ran, executionMap[m][id].last = "none"
             PROVE  \E r \in Runs : Holds(r, m, id)'
    BY DEF FinishedRunHasResult, Holds
<1>1. PICK r \in Runs : Holds(r, m, id)
    BY DEF FinishedRunHasResult, Holds
<1>2. runs'[r] = runs[r]
    BY <1>1 DEF Holds
<1>3. QED
    BY <1>1, <1>2 DEF Holds, InPhase

\* A run counts itself in its record, or leaves its result there.
LEMMA RunKeepsResults ==
    ASSUME TypeOK, FinishedRunHasResult, NEW r \in Runs,
           RecordRun(r) \/ \E result \in {"success", "panic"} : FinishRun(r, result)
    PROVE  FinishedRunHasResult'
<1> DEFINE ns == runs[r].entry.ns
           i == runs[r].id
<1>1. /\ runs[r] \in Run /\ ns \in Namespaces /\ i \in 0..MaxJobID
      /\ executionMap[ns][i] \in Execution
      /\ runs[r] # NotRunning
    <2>1. runs[r] # NotRunning
        BY DEF RecordRun, FinishRun, InPhase
    <2>2. runs[r] \in Run /\ runs[r].entry \in Entry /\ i \in 0..MaxJobID
        BY <2>1, RunType
    <2>3. ns \in Namespaces
        BY <2>2 DEF Entry
    <2>4. QED
        BY <2>1, <2>2, <2>3 DEF TypeOK
<1>2. \A m \in Namespaces, id \in 0..MaxJobID :
          m # ns \/ id # i => executionMap'[m][id] = executionMap[m][id]
    <2>1. ASSUME NEW x, executionMap' = [executionMap EXCEPT ![ns][i] = x]
          PROVE  \A m \in Namespaces, id \in 0..MaxJobID :
                     m # ns \/ id # i => executionMap'[m][id] = executionMap[m][id]
        BY <1>1, <2>1 DEF TypeOK
    <2>2. CASE RecordRun(r)
        <3>1. executionMap' = [executionMap EXCEPT ![ns][i] =
                  [executionMap[ns][i] EXCEPT !.present = TRUE, !.ran = TRUE]]
            BY <2>2 DEF RecordRun
        <3>2. QED
            BY <2>1, <3>1
    <2>3. ASSUME NEW result \in {"success", "panic"}, FinishRun(r, result)
          PROVE  \A m \in Namespaces, id \in 0..MaxJobID :
                     m # ns \/ id # i => executionMap'[m][id] = executionMap[m][id]
        <3>1. \/ executionMap' = executionMap
              \/ executionMap' = [executionMap EXCEPT ![ns][i] =
                     [executionMap[ns][i] EXCEPT !.last = result]]
            BY <2>3 DEF FinishRun
        <3>2. QED
            BY <2>1, <3>1
    <2>4. QED
        BY <2>2, <2>3
<1>3. \A q \in Runs \ {r} : runs'[q] = runs[q]
    BY DEF TypeOK, RecordRun, FinishRun
<1> SUFFICES ASSUME NEW m \in Namespaces, NEW id \in 0..MaxJobID,
                    executionMap'[m][id].ran, executionMap'[m][id].last = "none"
             PROVE  \E q \in Runs : Holds(q, m, id)'
    BY DEF FinishedRunHasResult, Holds
<1>4. CASE RecordRun(r) /\ m = ns /\ id = i
    <2>1. runs' = [runs EXCEPT ![r] = [@ EXCEPT !.phase = "callback", !.ref = TRUE]]
        BY <1>4 DEF RecordRun
    <2>2. runs'[r] = [runs[r] EXCEPT !.phase = "callback", !.ref = TRUE]
        BY <2>1 DEF TypeOK
    <2>3. /\ runs'[r].phase = "callback" /\ runs'[r].ref
          /\ runs'[r].entry = runs[r].entry /\ runs'[r].id = i
        BY <1>1, <2>2 DEF Run
    <2>4. runs'[r] # NotRunning
        BY <2>3 DEF NotRunning
    <2>5. QED
        BY <1>4, <2>3, <2>4 DEF Holds, InPhase
<1>5. CASE ~RecordRun(r) /\ m = ns /\ id = i
    <2>1. PICK result \in {"success", "panic"} : FinishRun(r, result)
        BY <1>5
    <2>2. CASE runs[r].ref
        <3>1. executionMap' = [executionMap EXCEPT ![ns][i] = [@ EXCEPT !.last = result]]
            BY <2>1, <2>2 DEF FinishRun
        <3>2. executionMap'[ns][i] = [executionMap[ns][i] EXCEPT !.last = result]
            BY <1>1, <3>1 DEF TypeOK
        <3>3. executionMap'[ns][i].last = result
            BY <1>1, <3>2 DEF Execution
        <3>4. QED
            BY <1>5, <3>3
    <2>3. CASE ~runs[r].ref
        <3>1. executionMap' = executionMap
            BY <2>1, <2>3 DEF FinishRun
        <3>2. PICK q \in Runs : Holds(q, m, id)
            BY <3>1 DEF FinishedRunHasResult, Holds
        <3>3. q # r
            BY <2>3, <3>2 DEF Holds
        <3>4. QED
            BY <1>3, <3>2, <3>3 DEF Holds, InPhase
    <2>4. QED
        BY <2>2, <2>3
<1>6. CASE m # ns \/ id # i
    <2>1. executionMap'[m][id] = executionMap[m][id]
        BY <1>2, <1>6
    <2>2. PICK q \in Runs : Holds(q, m, id)
        BY <2>1 DEF FinishedRunHasResult, Holds
    <2>3. q # r
        BY <1>6, <2>2 DEF Holds
    <2>4. QED
        BY <1>3, <2>2, <2>3 DEF Holds, InPhase
<1>7. QED
    BY <1>4, <1>5, <1>6

LEMMA ForgetResets ==
    ASSUME TypeOK, NEW ns \in Namespaces, NEW ids, executionMap' = ForgetIDs(ns, ids)
    PROVE  \A m \in Namespaces, id \in 0..MaxJobID :
               IF m = ns /\ id \in ids
               THEN ~executionMap'[m][id].ran
               ELSE executionMap'[m][id] = executionMap[m][id]
BY DEF TypeOK, ForgetIDs, NoExecution

LEMMA InitFinished == Init => FinishedRunHasResult
BY DEF Init, FinishedRunHasResult, NoExecution

LEMMA NextFinished ==
    TypeInv /\ FinishedRunHasResult /\ [Next]_vars => FinishedRunHasResult'
<1> SUFFICES ASSUME TypeInv, FinishedRunHasResult, [Next]_vars
             PROVE  FinishedRunHasResult'
    OBVIOUS
<1>0. TypeOK /\ CallsNumbered
    BY DEF TypeInv
<1>1. ASSUME NEW w \in Workers, TrackSchedule(w)
      PROVE  FinishedRunHasResult'
    <2>1. PICK e \in Entry : e = workers[w].entry
        BY <1>0, <1>1 DEF TrackSchedule, CallsNumbered
    <2>2. /\ executionMap' = [executionMap EXCEPT ![e.ns][e.id] = NewExecution]
          /\ runs' = Detached(e.ns, {e.id})
        BY <1>1, <2>1 DEF TrackSchedule
    <2>3. e.ns \in Namespaces /\ e.id \in 0..MaxJobID /\ ~NewExecution.ran
        BY <2>1 DEF Entry, JobIDs, NewExecution, NoExecution
    <2>4. \A m \in Namespaces, id \in 0..MaxJobID :
              IF m = e.ns /\ id \in {e.id}
              THEN ~executionMap'[m][id].ran
              ELSE executionMap'[m][id] = executionMap[m][id]
        BY <1>0, <2>2, <2>3 DEF TypeOK
    <2>5. QED
        BY <1>0, <2>2, <2>3, <2>4, ResetKeepsResults
<1>2. CASE RemovalStep
    <2>1. ASSUME NEW ns \in Namespaces, NEW ids,
                 executionMap' = ForgetIDs(ns, ids), runs' = Detached(ns, ids)
          PROVE  FinishedRunHasResult'
        <3>1. \A m \in Namespaces, id \in 0..MaxJobID :
                  IF m = ns /\ id \in ids
                  THEN ~executionMap'[m][id].ran
                  ELSE executionMap'[m][id] = executionMap[m][id]
            BY <1>0, <2>1, ForgetResets
        <3>2. QED
            BY <1>0, <2>1, <3>1, ResetKeepsResults
    <2>2. \E ns \in Namespaces : \E ids :
              executionMap' = ForgetIDs(ns, ids) /\ runs' = Detached(ns, ids)
        BY <1>2 DEF RemovalStep, RemoveSchedule, RemoveAllSchedules
    <2>3. QED
        BY <2>1, <2>2
<1>3. CASE RunStep
    <2>1. ASSUME NEW r \in Runs, NEW e \in entries, Fire(r, e)
          PROVE  FinishedRunHasResult'
        BY <1>0, <2>1, OthersKeepResults DEF Fire, InPhase, TypeOK
    <2>2. ASSUME NEW r \in Runs, BeginRun(r) \/ RecordRunAfterShutdown(r)
          PROVE  FinishedRunHasResult'
        BY <1>0, <2>2, OthersKeepResults
           DEF BeginRun, RecordRunAfterShutdown, InPhase, TypeOK
    <2>3. ASSUME NEW r \in Runs,
                 \/ RecordRun(r)
                 \/ \E result \in {"success", "panic"} : FinishRun(r, result)
          PROVE  FinishedRunHasResult'
        BY <1>0, <2>3, RunKeepsResults
    <2>4. QED
        BY <1>3, <2>1, <2>2, <2>3 DEF RunStep
<1>4. CASE Shutdown
    BY <1>4 DEF Shutdown, FinishedRunHasResult, NoExecution
<1>5. ASSUME UNCHANGED <<executionMap, runs>>
      PROVE  FinishedRunHasResult'
    BY <1>5, OthersKeepResults
<1>6. ASSUME NEW w \in Workers,
             \/ \E ns \in Namespaces, name \in Names : \E tz \in TimezonesOf[ns] :
                   AddSchedule(w, ns, name, tz) \/ RejectSchedule(w, ns, name, tz)
             \/ AddFunc(w) \/ AssignEntryID(w)
      PROVE  FinishedRunHasResult'
    BY <1>5, <1>6 DEF AddSchedule, RejectSchedule, AddFunc, AssignEntryID
<1>7. CASE UNCHANGED vars
    BY <1>5, <1>7 DEF vars
<1>8. QED
    BY <1>1, <1>2, <1>3, <1>4, <1>6, <1>7 DEF Next, WorkerStep

\* Whatever removals, additions and panics come between, a record that counts
\* a run has the result of one, or a run still holds it.
THEOREM CountedRunsLeaveResults == Spec => []FinishedRunHasResult
<1>1. Init => TypeInv /\ FinishedRunHasResult
    BY InitTypeInv, InitFinished
<1>2. TypeInv /\ FinishedRunHasResult /\ [Next]_vars
         => TypeInv' /\ FinishedRunHasResult'
    BY NextTypeInv, NextFinished
<1>3. QED
    BY <1>1, <1>2, PTL DEF Spec
=============================================================================
