----------------------------- MODULE MCOperator -----------------------------
(***************************************************************************)
(* Instances of Operator for TLC: two objects in a namespace.               *)
(***************************************************************************)
EXTENDS Operator, TLC

CONSTANTS UTC, JST, once, twice

\* A spec with one schedule and one with two.
Sizes == once :> 1 @@ twice :> 2

OneZone == [ns \in Namespaces |-> {UTC}]
SpecsInOneZone == [s \in Specs |-> UTC]

\* The specs are in different timezones.
TwoZones == [ns \in Namespaces |-> {UTC, JST}]
SpecsInTwoZones == once :> UTC @@ twice :> JST

Symmetry == Permutations(Names)

\* What the steps other than RunStep, and the properties, depend on: they neither
\* read the runs nor the execution records, and RunStep changes these alone.
\* Which worker does what is nobody's business either.
View == <<schedulers, nextID, entries, scheduleMap, mu, down, object, ready, queue,
          {<<workers[w], reconciles[w]>> : w \in Workers}>>
=============================================================================
