---------------------------- MODULE ManagerProofs ----------------------------
(***************************************************************************)
(* That at most one of the processes that have not been told to stop has    *)
(* cron instances that run, for any number of replicas and any times that   *)
(* meet TimesAssumption.                                                    *)
(*                                                                         *)
(* The argument.  A leader holds the lease, and so does one that gave it up *)
(* and is about to exit; and the lease is no older than what the process    *)
(* has gone through since it could last renew it (LeaseIsYoung).  That adds *)
(* up to less than the duration of the lease, so that no other process can  *)
(* take it before the first is gone.                                        *)
(***************************************************************************)
EXTENDS Manager, TLAPS

\* Who is bound by the lease: all whose cron instances run, but those that are
\* told to stop.
Bound == {"leading", "ousted"}

\* The age that the lease can have while r is in its present phase.
Allowance(r) ==
    IF process[r] = "ousted" THEN GiveUpAfter + phaseTime[r] ELSE GiveUpAfter

ExitIsShort == \A r \in Replicas : process[r] = "ousted" => phaseTime[r] <= ExitTime

LeaseIsYoung ==
    \A r \in Replicas : process[r] \in Bound => holder = r /\ age <= Allowance(r)

LeaseInv == TypeOK /\ ExitIsShort /\ LeaseIsYoung

----------------------------------------------------------------------------
LEMMA Times ==
    /\ LeaseDuration \in Nat /\ GiveUpAfter \in Nat /\ StopTimeout \in Nat
    /\ ExitTime \in Nat /\ MaxStops \in Nat
    /\ GiveUpAfter + ExitTime < LeaseDuration
BY TimesAssumption

LEMMA Types ==
    ASSUME TypeOK, NEW r \in Replicas
    PROVE  /\ process[r] \in Phases /\ firing[r] \in BOOLEAN
           /\ phaseTime[r] \in Nat /\ age \in Nat /\ age <= LeaseDuration
BY Times DEF TypeOK

\* Who is bound by the lease keeps everyone else from it.
LEMMA LeaseNotOver ==
    ASSUME LeaseInv, NEW r \in Replicas, process[r] \in Bound
    PROVE  age < LeaseDuration
<1>1. phaseTime[r] \in Nat /\ age \in Nat
    BY Types DEF LeaseInv
<1>2. age <= GiveUpAfter + ExitTime
    BY <1>1, Times DEF LeaseInv, LeaseIsYoung, ExitIsShort, Allowance
<1>3. QED
    BY <1>1, <1>2, Times

LEMMA InitLeaseInv == Init => LeaseInv
BY Times DEF Init, LeaseInv, TypeOK, ExitIsShort, LeaseIsYoung, Bound, Phases, None

\* A step that moves only r, not to leading, and to ousted from there only.
LEMMA OneMoves ==
    ASSUME LeaseInv, NEW r \in Replicas, NEW phase \in Phases, Enter(r, phase),
           firing' \in [Replicas -> BOOLEAN],
           \A q \in Replicas \ {r} : firing'[q] = firing[q],
           firing'[r] => phase \notin {"down", "standby"},
           UNCHANGED <<holder, age>>,
           ended' \in [Replicas -> {"never", "killed", "error", "panic"}],
           stops' \in 0..MaxStops,
           phase # "leading",
           phase = "ousted" => process[r] = "leading"
    PROVE  LeaseInv'
<1>1. /\ process \in [Replicas -> Phases] /\ phaseTime \in [Replicas -> Nat]
      /\ age \in Nat
    BY Types DEF LeaseInv, TypeOK
<1>2. /\ process' = [process EXCEPT ![r] = phase]
      /\ phaseTime' = [phaseTime EXCEPT ![r] = 0]
    BY DEF Enter
<1>3. TypeOK'
    <2>1. ASSUME NEW q \in Replicas, firing'[q]
          PROVE  process'[q] \notin {"down", "standby"}
        BY <1>1, <1>2, <2>1 DEF LeaseInv, TypeOK
    <2>2. QED
        BY <1>1, <1>2, <2>1 DEF LeaseInv, TypeOK
<1>4. ExitIsShort'
    BY <1>1, <1>2, Times DEF LeaseInv, ExitIsShort
<1>5. ASSUME NEW q \in Replicas, process'[q] \in Bound
      PROVE  holder' = q /\ age' <= Allowance(q)'
    <2>1. CASE q = r
        <3>1. phase = "ousted" /\ process[r] = "leading"
            BY <1>1, <1>2, <1>5, <2>1 DEF Bound
        <3>2. holder = r /\ age <= GiveUpAfter
            BY <3>1 DEF LeaseInv, LeaseIsYoung, Bound, Allowance
        <3>3. Allowance(r)' = GiveUpAfter + 0
            BY <1>1, <1>2, <3>1 DEF Allowance
        <3>4. QED
            BY <1>1, <2>1, <3>2, <3>3, Times
    <2>2. CASE q # r
        BY <1>1, <1>2, <1>5, <2>2 DEF LeaseInv, LeaseIsYoung, Allowance
    <2>3. QED
        BY <2>1, <2>2
<1>6. QED
    BY <1>3, <1>4, <1>5 DEF LeaseInv, LeaseIsYoung

LEMMA TickKeepsLeaseInv ==
    ASSUME LeaseInv, Tick
    PROVE  LeaseInv'
<1>1. /\ process' = process /\ firing' = firing /\ holder' = holder
      /\ age \in Nat /\ age <= LeaseDuration
      /\ age' = IF age < LeaseDuration THEN age + 1 ELSE age
      /\ phaseTime \in [Replicas -> Nat]
    BY Times DEF Tick, LeaseInv, TypeOK
<1>2. ASSUME NEW r \in Replicas
      PROVE  /\ phaseTime'[r] = IF process[r] \in TakingTime
                                THEN phaseTime[r] + 1 ELSE 0
             /\ InTime(r) /\ phaseTime[r] \in Nat
    BY <1>1 DEF Tick
<1>3. phaseTime' \in [Replicas -> Nat]
    BY <1>1 DEF Tick
<1>4. TypeOK'
    BY <1>1, <1>3, Times DEF Tick, LeaseInv, TypeOK
<1>5. ExitIsShort'
    BY <1>1, <1>2, Times DEF InTime, ExitIsShort, TakingTime
<1>6. LeaseIsYoung'
    <2>1. SUFFICES ASSUME NEW r \in Replicas, process[r] \in Bound
                   PROVE  holder = r /\ age' <= Allowance(r)'
        BY <1>1 DEF LeaseIsYoung
    <2>2. holder = r /\ age <= Allowance(r) /\ process'[r] = process[r]
        BY <1>1, <2>1 DEF LeaseInv, LeaseIsYoung
    <2>3. age' <= age + 1
        BY <1>1
    <2>4. CASE process[r] = "leading"
        BY <1>1, <1>2, <2>2, <2>3, <2>4, Times DEF InTime, Allowance
    <2>5. CASE process[r] = "ousted"
        BY <1>1, <1>2, <2>2, <2>3, <2>5, Times DEF Allowance, TakingTime
    <2>6. QED
        BY <2>1, <2>4, <2>5 DEF Bound
<1>7. QED
    BY <1>4, <1>5, <1>6 DEF LeaseInv

\* A process takes the lease, or renews its own.
LEMMA NewLeaseKeepsLeaseInv ==
    ASSUME LeaseInv, NEW r \in Replicas, Acquire(r) \/ Renew(r)
    PROVE  LeaseInv'
<1>1. TypeOK /\ age \in Nat /\ process \in [Replicas -> Phases]
      /\ firing \in [Replicas -> BOOLEAN] /\ phaseTime \in [Replicas -> Nat]
    BY Types DEF LeaseInv, TypeOK
<1>2. age' = 0
    BY DEF Acquire, Renew
<1>3. CASE Acquire(r)
    <2>1. \A q \in Replicas : process[q] \notin Bound
        BY <1>1, <1>3, LeaseNotOver DEF Acquire
    <2>2. /\ process' = [process EXCEPT ![r] = "leading"]
          /\ phaseTime' = [phaseTime EXCEPT ![r] = 0]
          /\ firing' = [firing EXCEPT ![r] = TRUE] /\ holder' = r
        BY <1>3 DEF Acquire, Enter
    <2>3. TypeOK'
        <3>1. ASSUME NEW q \in Replicas, firing'[q]
              PROVE  process'[q] \notin {"down", "standby"}
            BY <1>1, <2>2, <3>1 DEF TypeOK
        <3>2. QED
            BY <1>1, <1>2, <1>3, <2>2, <3>1, Times DEF TypeOK, Acquire, Phases
    <2>4. ExitIsShort'
        BY <1>1, <2>2, Times DEF LeaseInv, ExitIsShort
    <2>5. LeaseIsYoung'
        BY <1>1, <1>2, <2>1, <2>2, Times DEF LeaseIsYoung, Allowance
    <2>6. QED
        BY <2>3, <2>4, <2>5 DEF LeaseInv
<1>4. CASE Renew(r)
    <2>1. UNCHANGED <<process, firing, phaseTime, holder, ended, stops>>
        BY <1>4 DEF Renew
    <2>2. TypeOK' /\ ExitIsShort'
        BY <1>1, <1>2, <2>1, Times DEF LeaseInv, TypeOK, ExitIsShort
    <2>3. \A q \in Replicas : Allowance(q)' = Allowance(q) /\ 0 <= Allowance(q)
        BY <1>1, <2>1, Times DEF Allowance
    <2>4. LeaseIsYoung'
        BY <1>2, <2>1, <2>3 DEF LeaseInv, LeaseIsYoung
    <2>5. QED
        BY <2>2, <2>4 DEF LeaseInv
<1>5. QED
    BY <1>3, <1>4

LEMMA ProcessKeepsLeaseInv ==
    ASSUME LeaseInv, NEW r \in Replicas,
           \/ Start(r) \/ GiveUp(r) \/ Signal(r) \/ StartReturns(r)
           \/ StartFails(r) \/ Panic(r) \/ Exit(r) \/ Kill(r)
    PROVE  LeaseInv'
<1>1. /\ firing \in [Replicas -> BOOLEAN]
      /\ ended \in [Replicas -> {"never", "killed", "error", "panic"}]
      /\ stops \in 0..MaxStops
      /\ firing[r] => process[r] \notin {"down", "standby"}
    BY DEF LeaseInv, TypeOK
<1>2. CASE Start(r)
    <2>1. ~firing[r] /\ "standby" \in Phases
        BY <1>1, <1>2 DEF Start, Phases
    <2>2. QED
        BY <1>1, <1>2, <2>1, OneMoves DEF Start
<1>3. CASE GiveUp(r)
    BY <1>1, <1>3, OneMoves DEF GiveUp, Phases
<1>4. CASE Signal(r)
    <2>1. stops' \in 0..MaxStops
        BY <1>1, <1>4, Times DEF Signal
    <2>2. QED
        BY <1>1, <1>4, <2>1, OneMoves DEF Signal, Phases
<1>5. CASE StartReturns(r) \/ StartFails(r)
    BY <1>1, <1>5, OneMoves DEF StartReturns, StartFails, Phases
<1>6. ASSUME NEW how \in {"killed", "error", "panic"}, End(r, how),
             UNCHANGED <<holder, age>>, stops' \in 0..MaxStops
      PROVE  LeaseInv'
    <2>1. /\ Enter(r, "down") /\ "down" \in Phases
          /\ firing' = [firing EXCEPT ![r] = FALSE]
          /\ ended' = [ended EXCEPT ![r] = how]
        BY <1>6 DEF End, Phases
    <2>2. QED
        BY <1>1, <1>6, <2>1, OneMoves
<1>7. CASE Panic(r) \/ Exit(r)
    BY <1>1, <1>6, <1>7 DEF Panic, Exit
<1>8. CASE Kill(r)
    <2>1. stops' \in 0..MaxStops
        BY <1>1, <1>8, Times DEF Kill
    <2>2. QED
        BY <1>6, <1>8, <2>1 DEF Kill
<1>9. QED
    BY <1>2, <1>3, <1>4, <1>5, <1>7, <1>8

LEMMA NextLeaseInv == LeaseInv /\ [Next]_vars => LeaseInv'
<1> SUFFICES ASSUME LeaseInv, [Next]_vars PROVE LeaseInv'
    OBVIOUS
<1>1. CASE UNCHANGED vars
    BY <1>1 DEF vars, LeaseInv, TypeOK, ExitIsShort, LeaseIsYoung, Bound, Allowance
<1>2. CASE Tick
    BY <1>2, TickKeepsLeaseInv
<1>3. ASSUME NEW r \in Replicas,
             \/ Start(r) \/ Acquire(r) \/ Renew(r) \/ GiveUp(r)
             \/ Signal(r) \/ StartReturns(r) \/ StartFails(r)
             \/ Panic(r) \/ Exit(r) \/ Kill(r)
      PROVE  LeaseInv'
    BY <1>3, NewLeaseKeepsLeaseInv, ProcessKeepsLeaseInv
<1>4. QED
    BY <1>1, <1>2, <1>3 DEF Next

\* The variables of the manager keep their types.
THEOREM TypeCorrect == Spec => []TypeOK
<1>1. LeaseInv => TypeOK
    BY DEF LeaseInv
<1>2. QED
    BY <1>1, InitLeaseInv, NextLeaseInv, PTL DEF Spec

\* However many replicas there are and however leases run out, the cron instances
\* of two of them run at once only while one has been told to stop: a leader that
\* has to give up is gone before another leads.
THEOREM TwoProcessesFireOnlyAtAStop == Spec => []TwoFireOnlyAtAStop
<1>1. LeaseInv => TwoFireOnlyAtAStop
    <2>1. SUFFICES ASSUME LeaseInv, NEW r \in Replicas, firing[r],
                          process[r] \notin ToldToStop
                   PROVE  holder = r
        BY DEF TwoFireOnlyAtAStop
    <2>2. process[r] \in Bound
        BY <2>1 DEF LeaseInv, TypeOK, Phases, ToldToStop, Bound
    <2>3. QED
        BY <2>1, <2>2 DEF LeaseInv, LeaseIsYoung
<1>2. QED
    BY <1>1, InitLeaseInv, NextLeaseInv, PTL DEF Spec
=============================================================================
