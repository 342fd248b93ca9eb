-------------------------- MODULE ScheduledObjects --------------------------
(***************************************************************************)
(* What the operator promises for the objects of its users, without work    *)
(* queue, workers, cache, resource versions, cron instances or job numbers. *)
(*                                                                         *)
(* An object is here from its finalizer's arrival to its finalizer's going. *)
(* Its jobs change only while the controller is busy with it, or when the   *)
(* operator restarts; whoever writes it makes the controller busy with it;  *)
(* and the controller rests only when what it claims of the object is so.   *)
(***************************************************************************)
CONSTANTS
    Owners,
    Specs,
    Jobs,
    Complete        \* for each spec, the sets of jobs that are all it asks for

VARIABLES
    object,         \* the object of each owner, if any
    claimed,        \* its status claims that all its schedules are active
    firing,         \* the jobs of each owner that can fire
    busy            \* the owners that wait for the controller, or have it

vars == <<object, claimed, firing, busy>>

Absent == [state |-> "absent"]
Object(state, s) == [state |-> state, spec |-> s]

Live(o) == object[o].state = "live"

\* What the object asks for is what fires.
Truthful(o) == Live(o) /\ firing[o] \in Complete[object[o].spec]

Init ==
    /\ object = [o \in Owners |-> Absent]
    /\ claimed = [o \in Owners |-> FALSE]
    /\ firing = [o \in Owners |-> {}]
    /\ busy = {}

----------------------------------------------------------------------------
(* What users do.                                                          *)

Adopt(o, s) ==
    /\ object[o] = Absent
    /\ object' = [object EXCEPT ![o] = Object("live", s)]
    /\ claimed' = [claimed EXCEPT ![o] = FALSE]
    /\ busy' = busy \cup {o}
    /\ UNCHANGED firing

Edit(o, s) ==
    /\ object[o] # Absent
    /\ object' = [object EXCEPT ![o].spec = s]
    /\ busy' = busy \cup {o}
    /\ UNCHANGED <<claimed, firing>>

Delete(o) ==
    /\ Live(o)
    /\ object' = [object EXCEPT ![o].state = "deleting"]
    /\ busy' = busy \cup {o}
    /\ UNCHANGED <<claimed, firing>>

----------------------------------------------------------------------------
(* What the controller does with the objects it is busy with.              *)

RemoveAll(o) ==
    /\ o \in busy
    /\ UNCHANGED <<object, claimed, busy>>
    /\ firing' = [firing EXCEPT ![o] = {}]

Install(o) ==
    /\ object[o] # Absent
    /\ o \in busy
    /\ UNCHANGED <<object, claimed, busy>>
    /\ \E j \in Jobs : firing' = [firing EXCEPT ![o] = @ \cup {j}]

\* The object goes, and all its jobs with it.
Drop(o) ==
    /\ o \in busy
    /\ object[o].state = "deleting"
    /\ object' = [object EXCEPT ![o] = Absent]
    /\ claimed' = [claimed EXCEPT ![o] = FALSE]
    /\ firing' = [firing EXCEPT ![o] = {}]
    /\ UNCHANGED busy

\* Only the truth is claimed.
Report(o, claim) ==
    /\ object[o] # Absent
    /\ o \in busy
    /\ UNCHANGED <<object, busy, firing>>
    /\ claimed' = [claimed EXCEPT ![o] = claim]
    /\ claim => Truthful(o)

\* Nothing is left to do: if the object claims to be active, it is.
Rest(o) ==
    /\ busy' = busy \ {o}
    /\ UNCHANGED <<object, claimed, firing>>
    /\ Live(o) /\ claimed[o] => Truthful(o)

Wake(o) ==
    /\ busy' = busy \cup {o}
    /\ UNCHANGED <<object, claimed, firing>>

\* No job outlives the operator's process; what there is to do is done anew.
Restart(owners) ==
    /\ {o \in Owners : object[o] # Absent} \subseteq owners
    /\ firing' = [o \in Owners |-> {}]
    /\ busy' = owners
    /\ UNCHANGED <<object, claimed>>

Next ==
    \/ \E o \in Owners : Wake(o) \/ Rest(o)
    \/ \E o \in Owners :
          \/ \E s \in Specs : Adopt(o, s) \/ Edit(o, s)
          \/ \E claim \in BOOLEAN : Report(o, claim)
          \/ Delete(o) \/ Drop(o) \/ RemoveAll(o) \/ Install(o)
    \/ \E owners \in SUBSET Owners : Restart(owners)

Spec == Init /\ [][Next]_vars

----------------------------------------------------------------------------
(* What follows for whoever watches an object from outside.                *)

\* An object that claims to be active, with no write or reconciliation of it
\* outstanding, has all its jobs; one that is gone has none.
ClaimsAreTrue ==
    \A o \in Owners : o \notin busy /\ Live(o) /\ claimed[o] => Truthful(o)

NothingOutlives == \A o \in Owners : object[o] = Absent => firing[o] = {}
=============================================================================
