----------------------- MODULE ScheduledObjectsProofs -----------------------
(***************************************************************************)
(* What follows from the promise for whoever watches an object from         *)
(* outside, for any owners, specs and jobs: a claim that stands while the   *)
(* controller rests is true, and an object that is gone has no job left.    *)
(*                                                                         *)
(* The argument.  Only Rest takes an object out of busy, and it checks the  *)
(* claim; every other change of the object, its claim or its jobs happens   *)
(* while it is in busy or puts it there (Disturbed).  A restart removes all *)
(* jobs, and leaves at rest only objects that are not there.                *)
(***************************************************************************)
EXTENDS ScheduledObjects, TLAPS

ObjectsOK ==
    /\ object \in [Owners -> {Absent} \cup [state : {"live", "deleting"}, spec : Specs]]
    /\ claimed \in [Owners -> BOOLEAN]
    /\ firing \in [Owners -> SUBSET Jobs]
    /\ busy \subseteq Owners

PromiseInv == ObjectsOK /\ ClaimsAreTrue /\ NothingOutlives

\* A step changes what belongs to one owner, which is then in busy.
Disturbed(o) ==
    /\ o \in busy'
    /\ \A p \in Owners : p # o =>
          /\ object'[p] = object[p]
          /\ claimed'[p] = claimed[p]
          /\ firing'[p] = firing[p]
          /\ p \in busy' <=> p \in busy

LEMMA InitPromiseInv == Init => PromiseInv
<1> SUFFICES ASSUME Init PROVE PromiseInv
    OBVIOUS
<1>1. ObjectsOK
    BY DEF Init, ObjectsOK
<1>2. \A o \in Owners : object[o] = Absent /\ firing[o] = {} /\ ~claimed[o]
    BY DEF Init
<1>3. QED
    BY <1>1, <1>2 DEF PromiseInv, ClaimsAreTrue, NothingOutlives

LEMMA ObjectFields ==
    ASSUME NEW state \in {"live", "deleting"}, NEW s \in Specs
    PROVE  /\ Object(state, s) \in [state : {"live", "deleting"}, spec : Specs]
           /\ Object(state, s) # Absent
<1>1. Object(state, s).state # Absent.state
    BY DEF Object, Absent
<1>2. QED
    BY <1>1 DEF Object

\* An object that is here, with another state or another spec.
LEMMA ObjectEdits ==
    ASSUME ObjectsOK, NEW o \in Owners, object[o] # Absent,
           NEW s \in Specs, NEW state \in {"live", "deleting"}
    PROVE  /\ [object[o] EXCEPT !.spec = s] \in
                  [state : {"live", "deleting"}, spec : Specs]
           /\ [object[o] EXCEPT !.state = state] \in
                  [state : {"live", "deleting"}, spec : Specs]
           /\ [object[o] EXCEPT !.spec = s] # Absent
           /\ [object[o] EXCEPT !.state = state] # Absent
<1>1. object[o] \in [state : {"live", "deleting"}, spec : Specs]
    BY DEF ObjectsOK
<1>2. \A v \in [state : {"live", "deleting"}, spec : Specs] : v # Absent
    BY DEF Absent
<1>3. QED
    BY <1>1, <1>2

\* What is disturbed is busy, so that nothing is asked of its claim.
LEMMA DisturbedKeepsPromiseInv ==
    ASSUME PromiseInv, ObjectsOK', NEW o \in Owners, Disturbed(o),
           object'[o] = Absent => firing'[o] = {}
    PROVE  PromiseInv'
<1>1. ClaimsAreTrue'
    BY DEF PromiseInv, Disturbed, ClaimsAreTrue, Truthful, Live
<1>2. NothingOutlives'
    BY DEF PromiseInv, Disturbed, NothingOutlives
<1>3. QED
    BY <1>1, <1>2 DEF PromiseInv

LEMMA NextPromiseInv == PromiseInv /\ [Next]_vars => PromiseInv'
<1> SUFFICES ASSUME PromiseInv, [Next]_vars PROVE PromiseInv'
    OBVIOUS
<1>0. /\ ObjectsOK
      /\ object \in [Owners -> {Absent} \cup [state : {"live", "deleting"}, spec : Specs]]
      /\ claimed \in [Owners -> BOOLEAN] /\ firing \in [Owners -> SUBSET Jobs]
      /\ busy \subseteq Owners
    BY DEF PromiseInv, ObjectsOK
<1>1. ASSUME NEW o \in Owners, NEW s \in Specs, Adopt(o, s) PROVE PromiseInv'
    <2>1. /\ object' = [object EXCEPT ![o] = Object("live", s)]
          /\ Object("live", s) \in [state : {"live", "deleting"}, spec : Specs]
        BY <1>1, ObjectFields DEF Adopt
    <2>2. ObjectsOK'
        BY <1>0, <1>1, <2>1 DEF Adopt, ObjectsOK
    <2>3. Disturbed(o)
        BY <1>0, <1>1, <2>1 DEF Adopt, Disturbed
    <2>4. firing'[o] = {}
        BY <1>1 DEF Adopt, PromiseInv, NothingOutlives
    <2>5. QED
        BY <2>2, <2>3, <2>4, DisturbedKeepsPromiseInv
<1>2. ASSUME NEW o \in Owners, NEW s \in Specs, Edit(o, s) PROVE PromiseInv'
    <2> DEFINE v == [object[o] EXCEPT !.spec = s]
    <2>1. object' = [object EXCEPT ![o] = v] /\ object[o] # Absent
        BY <1>2 DEF Edit
    <2>2. v \in [state : {"live", "deleting"}, spec : Specs] /\ v # Absent
        BY <1>0, <2>1, ObjectEdits
    <2> HIDE DEF v
    <2>3. ObjectsOK' /\ Disturbed(o) /\ object'[o] # Absent
        BY <1>0, <1>2, <2>1, <2>2 DEF Edit, ObjectsOK, Disturbed
    <2>4. QED
        BY <2>3, DisturbedKeepsPromiseInv
<1>3. ASSUME NEW o \in Owners, Delete(o) PROVE PromiseInv'
    <2> DEFINE v == [object[o] EXCEPT !.state = "deleting"]
    <2>1. object' = [object EXCEPT ![o] = v] /\ object[o] # Absent
        BY <1>3 DEF Delete, Live, Absent
    <2>2. object[o].spec \in Specs
        BY <1>0, <2>1
    <2>3. v \in [state : {"live", "deleting"}, spec : Specs] /\ v # Absent
        BY <1>0, <2>1, <2>2, ObjectEdits
    <2> HIDE DEF v
    <2>4. ObjectsOK' /\ Disturbed(o) /\ object'[o] # Absent
        BY <1>0, <1>3, <2>1, <2>3 DEF Delete, ObjectsOK, Disturbed
    <2>5. QED
        BY <2>4, DisturbedKeepsPromiseInv
<1>4. ASSUME NEW o \in Owners, Drop(o) PROVE PromiseInv'
    <2>1. ObjectsOK' /\ Disturbed(o) /\ firing'[o] = {}
        BY <1>0, <1>4 DEF Drop, ObjectsOK, Disturbed
    <2>2. QED
        BY <2>1, DisturbedKeepsPromiseInv
<1>5. ASSUME NEW o \in Owners, RemoveAll(o) PROVE PromiseInv'
    <2>1. ObjectsOK' /\ Disturbed(o) /\ firing'[o] = {}
        BY <1>0, <1>5 DEF RemoveAll, ObjectsOK, Disturbed
    <2>2. QED
        BY <2>1, DisturbedKeepsPromiseInv
<1>6. ASSUME NEW o \in Owners, Install(o) PROVE PromiseInv'
    <2>1. PICK j \in Jobs : firing' = [firing EXCEPT ![o] = @ \cup {j}]
        BY <1>6 DEF Install
    <2>2. ObjectsOK' /\ Disturbed(o) /\ object'[o] # Absent
        BY <1>0, <1>6, <2>1 DEF Install, ObjectsOK, Disturbed
    <2>3. QED
        BY <2>2, DisturbedKeepsPromiseInv
<1>7. ASSUME NEW o \in Owners, NEW claim \in BOOLEAN, Report(o, claim)
      PROVE  PromiseInv'
    <2>1. ObjectsOK' /\ Disturbed(o) /\ object'[o] # Absent
        BY <1>0, <1>7 DEF Report, ObjectsOK, Disturbed
    <2>2. QED
        BY <2>1, DisturbedKeepsPromiseInv
<1>8. ASSUME NEW o \in Owners, Rest(o) PROVE PromiseInv'
    BY <1>0, <1>8 DEF Rest, PromiseInv, ObjectsOK, ClaimsAreTrue, NothingOutlives,
                      Truthful, Live
<1>9. ASSUME NEW o \in Owners, Wake(o) PROVE PromiseInv'
    BY <1>0, <1>9 DEF Wake, PromiseInv, ObjectsOK, ClaimsAreTrue, NothingOutlives,
                      Truthful, Live
<1>10. ASSUME NEW owners \in SUBSET Owners, Restart(owners) PROVE PromiseInv'
    <2>1. \A o \in Owners : Live(o) => object[o] # Absent
        BY DEF Live, Absent
    <2>2. ObjectsOK' /\ NothingOutlives'
        BY <1>0, <1>10 DEF Restart, ObjectsOK, NothingOutlives
    <2>3. ClaimsAreTrue'
        BY <1>10, <2>1 DEF Restart, ClaimsAreTrue, Live
    <2>4. QED
        BY <2>2, <2>3 DEF PromiseInv
<1>11. CASE UNCHANGED vars
    BY <1>11 DEF vars, PromiseInv, ObjectsOK, ClaimsAreTrue, NothingOutlives,
                 Truthful, Live
<1>12. QED
    BY <1>1, <1>2, <1>3, <1>4, <1>5, <1>6, <1>7, <1>8, <1>9, <1>10, <1>11
    DEF Next

\* Whatever keeps the promise: an object at rest that claims to be active has all
\* the jobs its spec asks for, and an object that is gone has none.
THEOREM PromiseIsWorthHaving == Spec => [](ClaimsAreTrue /\ NothingOutlives)
<1>1. PromiseInv => ClaimsAreTrue /\ NothingOutlives
    BY DEF PromiseInv
<1>2. QED
    BY <1>1, InitPromiseInv, NextPromiseInv, PTL DEF Spec
=============================================================================
