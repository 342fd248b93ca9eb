--------------------------- MODULE MCReconciler ---------------------------
(***************************************************************************)
(* Instances of Reconciler for TLC.                                        *)
(***************************************************************************)
EXTENDS Reconciler, TLC

CONSTANTS plain, mixed, broken, shortcut

Item(kind, low, high, step) ==
    <<[kind |-> kind, low |-> low, high |-> high, step |-> step]>>

Each == Item("all", 0, 0, 1)
At8 == <<Item("one", 0, 0, 1), Item("one", 8, 8, 1), Each, Each>>

Fields(f) == [form |-> "fields", fields |-> f]

\* 0 8 * * 1-5, 0 8 * * */2, and what the pattern admits and no cron
\* expression is: 0 8 * * 7 and, with a field for seconds, 0 0 8 * * *.
Weekdays == Fields(Append(At8, Item("range", 1, 5, 1)))
EveryOther == Fields(Append(At8, Item("all", 0, 0, 2)))
SundayAs7 == Fields(Append(At8, Item("one", 7, 7, 1)))
WithSeconds == Fields(<<Item("one", 0, 0, 1)>> \o Append(At8, Each))
Daily == [form |-> "descriptor"]

Scale(e) == [when |-> e, scale |-> TRUE, suspend |-> "unset", resume |-> "unset"]
Suspend(e, b) == [Scale(e) EXCEPT !.scale = FALSE, !.suspend = b]
Resume(e, b) == [Scale(e) EXCEPT !.scale = FALSE, !.resume = b]

\* Schedules that work; one that does not ask for anything, although no parser
\* would take it, between two that work; schedules that are refused after one
\* that works.
Plain == plain :> <<Scale(Weekdays), Resume(EveryOther, "true")>>
Mixed == mixed :> <<Scale(Weekdays), Suspend(SundayAs7, "false"),
                    Suspend(EveryOther, "true")>>
Broken == broken :> <<Suspend(Weekdays, "true"), Resume(WithSeconds, "true"),
                      Scale(SundayAs7)>>

MixedAndBroken == Mixed @@ Broken

\* The example of the unit tests, before one that works.
Shortcut == shortcut :> <<Scale(Daily), Resume(Weekdays, "true")>>
=============================================================================
