---------------------------- MODULE SteadyReports ----------------------------
(***************************************************************************)
(* What the bundle-adjustment solver promises the tracker: a detection is  *)
(* reported exactly when it is near the detection before it, unless that   *)
(* one was dropped as a jump; a frame without a detection is reported at   *)
(* once and changes nothing.                                               *)
(***************************************************************************)
EXTENDS Integers

CONSTANTS Places, MaxDifference

VARIABLES
    seen,   \* the place of the last detection, as a set of at most one place
    last,   \* the place the next one is compared with, likewise
    report  \* what the last frame told the tracker

Near(a, b) == a - b <= MaxDifference /\ b - a <= MaxDifference

Init == seen = {} /\ last = {} /\ report = "silent"

NoArmor == report' = "null" /\ UNCHANGED <<seen, last>>

First(x) == last = {} /\ last' = {x} /\ report' = "silent"

Steady(x) == (\E y \in last : Near(x, y)) /\ last' = {x} /\ report' = "armor"

Jump(x) == (\E y \in last : ~Near(x, y)) /\ last' = {} /\ report' = "silent"

Detect(x) == seen' = {x} /\ (First(x) \/ Steady(x) \/ Jump(x))

Next == NoArmor \/ \E x \in Places : Detect(x)

Spec == Init /\ [][Next]_<<seen, last, report>>
=============================================================================
