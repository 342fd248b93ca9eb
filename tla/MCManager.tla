----------------------------- MODULE MCManager -----------------------------
(***************************************************************************)
(* Instances of Manager for TLC: two replicas, times in seconds.  The lease *)
(* has the defaults of controller-runtime: 15 seconds, and a leader gives   *)
(* up when ten seconds of trying every two did not renew it.                *)
(* The manager may take its default of 30 seconds to stop.                  *)
(***************************************************************************)
EXTENDS Manager
=============================================================================
