-------------------------- MODULE TargetEngagement --------------------------
(***************************************************************************)
(* What the vision tracker promises to the rest of the robot: there is at  *)
(* most one target at a time, a target is first acquired and only later    *)
(* confirmed, and the gun is only fired at a confirmed target.  A target   *)
(* never replaces another one without going through acquisition again.     *)
(***************************************************************************)
CONSTANTS Ids, None

VARIABLES target, confirmed, firing

engagement == <<target, confirmed, firing>>

Init ==
    /\ target = None
    /\ confirmed = FALSE
    /\ firing = FALSE

\* A target is adopted, possibly instead of another one.
Acquire ==
    /\ target' \in Ids
    /\ confirmed' = FALSE
    /\ firing' = FALSE

\* The acquired target is believed.
Confirm ==
    /\ target # None
    /\ ~confirmed
    /\ confirmed' = TRUE
    /\ firing' \in BOOLEAN
    /\ UNCHANGED target

\* The confirmed target is aimed at, with or without fire.
Engage ==
    /\ confirmed
    /\ firing' \in BOOLEAN
    /\ UNCHANGED <<target, confirmed>>

\* The target is given up.
Drop ==
    /\ target # None
    /\ target' = None
    /\ confirmed' = FALSE
    /\ firing' = FALSE

Next == Acquire \/ Confirm \/ Engage \/ Drop

Spec == Init /\ [][Next]_engagement
=============================================================================
