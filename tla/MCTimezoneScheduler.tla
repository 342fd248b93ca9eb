----------------------- MODULE MCTimezoneScheduler -----------------------
(***************************************************************************)
(* An instance of TimezoneScheduler for TLC: every namespace keeps to one   *)
(* timezone.                                                                *)
(***************************************************************************)
EXTENDS TimezoneScheduler

SingleTimezone == [ns \in Namespaces |-> Timezones]
=============================================================================
