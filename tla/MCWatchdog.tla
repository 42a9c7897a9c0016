----------------------------- MODULE MCWatchdog -----------------------------
(***************************************************************************)
(* A small instance of Watchdog.  The durations keep the order they have   *)
(* in the code (the second between beats is as long as a constructor's     *)
(* sleep, a handover is shorter than the timeout), not their ratio; an     *)
(* attempt to beat takes two ticks, as it takes several in the code.       *)
(***************************************************************************)
EXTENDS Watchdog

\* Pipelines that come up at once or late.
MCStart == {1, 4}

\* README: pipeline and guard in terminals.
InTerminals == {}

\* The instance is one that HealthyIsKept (WatchdogProofs) speaks about, with
\* no tick to spare: both of its bounds are met with equality.
ASSUME RateAssumption == BeatsInTime
=============================================================================
