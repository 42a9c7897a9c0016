--------------------------- MODULE MCVisionTracker ---------------------------
(***************************************************************************)
(* Small instances of VisionTracker.  One unit of length is 0.01 m and one *)
(* unit of angle 0.1 rad, except that max_match_yaw_diff is set below the  *)
(* 0.4 rad of handleArmorJump so that a jump without exchange exists.      *)
(***************************************************************************)
EXTENDS VisionTracker

Robot == 1
Outpost == 6
MCIds == {Robot, Outpost}

\* The armor is where it was predicted (with a filter radius below, inside and
\* above the clamp), too far, exactly at the yaw bound (neither a match nor a
\* jump), or turned by a little or a lot.
MCObservations ==
    {[pos |-> 0, yaw |-> 0, r |-> 11], [pos |-> 0, yaw |-> 0, r |-> 25],
     [pos |-> 0, yaw |-> 0, r |-> 36], [pos |-> 20, yaw |-> 0, r |-> 25],
     [pos |-> 0, yaw |-> 3, r |-> 25], [pos |-> 0, yaw |-> 4, r |-> 25],
     [pos |-> 0, yaw |-> 5, r |-> 25]}

\* The two outcomes the counters tell apart.
MCMatchOrMiss == {[pos |-> 0, yaw |-> 0, r |-> 25], [pos |-> 20, yaw |-> 0, r |-> 25]}

\* Slower than, equal to and faster than MaxTrackingW.
MCSpinSpeeds == {5, 6, 7}
MCFast == {7}

MCGaps == {2, 7}
=============================================================================
