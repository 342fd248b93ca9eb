------------------------------ MODULE Admission ------------------------------
(***************************************************************************)
(* What becomes of a schedule on its way from the user to the service: the  *)
(* validation rules that the CRD has from tidbclusterscheduler_types.go,    *)
(* the operation that reconcileSchedules takes it for, and the parser that  *)
(* cron.go validates its expression with.                                   *)
(*                                                                         *)
(* Abstracted: an expression of fields is the sequence of its fields, a     *)
(* field the sequence of its items between commas; names of months and days *)
(* are left out, and so is what follows a descriptor.                       *)
(***************************************************************************)
EXTENDS Naturals, Sequences

\* An item is *, n, n/step, or n-m, and * and n-m may have a step as well.
Items == [kind : {"all", "one", "from", "range"}, low : Nat, high : Nat,
          step : Nat]

Expressions ==
    [form : {"fields"}, fields : Seq(Seq(Items))]
        \cup [form : {"descriptor", "every"}]

Asked == {"unset", "false", "true"}
ScheduleEntries == [when : Expressions, scale : BOOLEAN, suspend : Asked,
                    resume : Asked]

----------------------------------------------------------------------------
(* The API server.                                                         *)

\* One alternative of the pattern: a lone item, or a list of numbers.
FieldMatches(field) ==
    \/ /\ Len(field) = 1
       /\ field[1].kind = "range" => field[1].step = 1
    \/ \A i \in DOMAIN field : field[i].kind = "one"

\* Only the end of the pattern is anchored, and in its other alternatives the
\* start or nothing: neither fields before the last five are looked at, nor the
\* beginning of the first of these.
PatternMatches(e) ==
    e.form = "fields" =>
        LET n == Len(e.fields) IN
        n >= 5 /\ \A i \in (n - 3)..n : FieldMatches(e.fields[i])

\* "exactly one of scale, suspend, or resume must be specified"
ExactlyOne(s) ==
    \/ s.scale /\ s.suspend = "unset" /\ s.resume = "unset"
    \/ ~s.scale /\ s.suspend # "unset" /\ s.resume = "unset"
    \/ ~s.scale /\ s.suspend = "unset" /\ s.resume # "unset"

Admitted(s) == PatternMatches(s.when) /\ ExactlyOne(s)

----------------------------------------------------------------------------
(* The operator.                                                           *)

\* Minute, hour, day of the month, month, day of the week.
Bounds == << <<0, 59>>, <<0, 23>>, <<1, 31>>, <<1, 12>>, <<0, 6>> >>

Lowest(x, bounds) == IF x.kind = "all" THEN bounds[1] ELSE x.low

Highest(x, bounds) ==
    CASE x.kind \in {"all", "from"} -> bounds[2]
      [] x.kind = "one" -> x.low
      [] x.kind = "range" -> x.high

InBounds(x, bounds) ==
    /\ bounds[1] <= Lowest(x, bounds)
    /\ Lowest(x, bounds) <= Highest(x, bounds)
    /\ Highest(x, bounds) <= bounds[2]
    /\ x.step > 0

\* The parser has no option for descriptors.
ValidateScheduleExpression(e) ==
    /\ e.form = "fields"
    /\ Len(e.fields) = 5
    /\ \A f \in 1..5 : \A i \in DOMAIN e.fields[f] :
          InBounds(e.fields[f][i], Bounds[f])

\* Whether the schedule, by the operation it has, asks for anything.
AsksForOperation(s) == s.scale \/ s.suspend = "true" \/ s.resume = "true"

\* What reconcileSchedules makes of it.
Outcome(s) ==
    CASE ~AsksForOperation(s) -> "skip"
      [] AsksForOperation(s) /\ ValidateScheduleExpression(s.when) -> "add"
      [] OTHER -> "refuse"
=============================================================================
