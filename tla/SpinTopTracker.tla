--------------------------- MODULE SpinTopTracker ---------------------------
(***************************************************************************)
(* The class SpinTopTracker of rcia_vision_tracker: the per-target state   *)
(* machine PATROL / DETECTING / TRACKING / TEMP_LOST, the two radii of the *)
(* spinning-top model and the copy of the radius the Kalman filter keeps.  *)
(*                                                                         *)
(* A tracker is a record; every method is an operator from the record it   *)
(* finds to the record it leaves.  Module VisionTracker owns the record    *)
(* and calls the methods in the order solver_callback does.                *)
(*                                                                         *)
(* Geometry is abstracted to what the control flow compares: an            *)
(* observation says how far the armor is from its prediction (pos), how    *)
(* far its yaw is from the predicted yaw (yaw), and which radius the       *)
(* filter would arrive at if it corrected with it (r).  Lengths and angles *)
(* are integers in some fixed unit.                                        *)
(*                                                                         *)
(* Operators named Operator_Fault are plausible faults of the code; each   *)
(* breaks a property of VisionTracker and none is part of the model.       *)
(***************************************************************************)
EXTENDS Integers

CONSTANTS
    Ids,               \* pattern indices an armor message may carry
    OutpostId,         \* the index of the outpost (6 in the code)
    TrackingThresh,    \* parameter tracker.tracking_thresh
    RMin, RInit, RMax, \* 0.12, 0.25 and 0.35 m
    MaxMatchDistance,  \* parameter tracker.max_match_distance
    MaxMatchYawDiff,   \* parameter tracker.max_match_yaw_diff
    JumpYawDiff,       \* 0.4 rad
    Observations       \* what one armor may look like to one update()

ASSUME TrackerAssumption ==
    /\ 0 \notin Ids
    /\ TrackingThresh \in Nat
    /\ RMin \in Nat /\ RInit \in Nat /\ RMax \in Nat
    /\ 0 < RMin /\ RMin <= RInit /\ RInit <= RMax
    /\ Observations \subseteq [pos : Nat, yaw : Nat, r : Int]

States == {"PATROL", "DETECTING", "TRACKING", "TEMP_LOST"}

\* An ArmorBaposeInfo: "null" when the detector saw nothing.
Messages == [null : BOOLEAN, id : Ids]

\* ArmorsCount::OUTPOST_3 and ArmorsCount::NORMAL_4.
ArmorsOf(id) == IF id = OutpostId THEN 3 ELSE 4

\* r is target_state(8), ekfR is X_prev(8) inside the filter, r2 is another_r.
Trackers ==
    [state : States, id : Ids \cup {0}, armors : {3, 4},
     det : Nat, lost : Nat, r : Int, r2 : Int, ekfR : Int]

NewTracker ==
    [state |-> "PATROL", id |-> 0, armors |-> 4,
     det |-> 0, lost |-> 0, r |-> 0, r2 |-> 0, ekfR |-> 0]

-----------------------------------------------------------------------------
\* target_state(8) = r; ekf_->setState(target_state).
SetRadius(t, r) == [t EXCEPT !.r = r, !.ekfR = r]

\* initEkf(): both radii start at 0.25 m.
InitEkf(t) == SetRadius([t EXCEPT !.r2 = RInit], RInit)

\* init(): adopt the armor of the message, if it carries one.
InitTarget(t, m) ==
    IF m.null
    THEN t
    ELSE InitEkf([t EXCEPT !.id = m.id, !.state = "DETECTING",
                           !.armors = ArmorsOf(m.id)])

-----------------------------------------------------------------------------
\* exkalman_predict(): the radius is constant under the motion model.
Predict(t) == [t EXCEPT !.r = t.ekfR]

\* exkalman_update(): the filter and the tracker take the corrected radius.
EkfUpdate(t, o) == SetRadius(t, o.r)

\* The armor of the message has the tracked number.
SameId(t, m) == ~m.null /\ m.id = t.id

Matched(t, m, o) ==
    /\ SameId(t, m)
    /\ o.pos < MaxMatchDistance
    /\ o.yaw < MaxMatchYawDiff

Jumped(t, m, o) ==
    /\ SameId(t, m)
    /\ ~Matched(t, m, o)
    /\ o.yaw > MaxMatchYawDiff

\* Fault: the filter is not told.
HandleArmorJump_NoSetState(t, o) ==
    IF o.yaw > JumpYawDiff /\ t.armors = 4 THEN [t EXCEPT !.r2 = t.r, !.r = t.r2]
    ELSE t

\* handleArmorJump(): a robot shows its neighbouring armor, whose radius is
\* the other one; the three armors of the outpost share a single radius.
HandleArmorJump(t, o) ==
    IF o.yaw > JumpYawDiff /\ t.armors = 4
    THEN SetRadius([t EXCEPT !.r2 = t.r], t.r2)
    ELSE SetRadius(t, t.r)

\* The radius is forced into [0.12, 0.35] and, if it moved, given to the filter.
ClampRadius(t) ==
    IF t.r < RMin THEN SetRadius(t, RMin)
    ELSE IF t.r > RMax THEN SetRadius(t, RMax)
    ELSE t

\* tracker_state, detection_count_ and lost_count_ after a transition.
Move(t, state, det, lost) ==
    [t EXCEPT !.state = state, !.det = det, !.lost = lost]

CountDetection(t) ==
    IF t.det + 1 > TrackingThresh THEN Move(t, "TRACKING", 0, t.lost)
    ELSE Move(t, "DETECTING", t.det + 1, t.lost)

\* Faults: the count survives, or decays by one.
AbandonDetection_KeepsCount(t) == Move(t, "PATROL", t.det, t.lost)
AbandonDetection_Decays(t) == Move(t, "PATROL", t.det - 1, t.lost)
AbandonDetection(t) == Move(t, "PATROL", 0, t.lost)

\* TEMP_LOST is entered without looking at the threshold.
StartLoss(t) == Move(t, "TEMP_LOST", t.det, t.lost + 1)

\* Faults: the count survives giving up, the threshold is compared before
\* counting, nothing is counted.
CountLoss_KeepsCount(t, lostThres) ==
    Move(t, IF t.lost + 1 > lostThres THEN "PATROL" ELSE "TEMP_LOST", t.det, t.lost + 1)
CountLoss_LateCompare(t, lostThres) ==
    IF t.lost > lostThres THEN Move(t, "PATROL", t.det, 0)
    ELSE Move(t, "TEMP_LOST", t.det, t.lost + 1)
CountLoss_NeverCounts(t, lostThres) ==
    IF t.lost > lostThres THEN Move(t, "PATROL", t.det, 0) ELSE t
CountLoss(t, lostThres) ==
    IF t.lost + 1 > lostThres THEN Move(t, "PATROL", t.det, 0)
    ELSE Move(t, "TEMP_LOST", t.det, t.lost + 1)

EndLoss(t) == Move(t, "TRACKING", t.det, 0)

\* The state machine at the end of update().
Advance(t, matched, lostThres) ==
    CASE t.state = "DETECTING" /\ matched  -> CountDetection(t)
      [] t.state = "DETECTING" /\ ~matched -> AbandonDetection(t)
      [] t.state = "TRACKING" /\ ~matched  -> StartLoss(t)
      [] t.state = "TEMP_LOST" /\ ~matched -> CountLoss(t, lostThres)
      [] t.state = "TEMP_LOST" /\ matched  -> EndLoss(t)
      [] OTHER -> t

\* What update() makes of the filter state and the radii.
Correct(t, m, o) ==
    LET p == Predict(t)
        a == [p EXCEPT !.armors = IF SameId(t, m) THEN ArmorsOf(m.id) ELSE t.armors]
    IN  IF Matched(t, m, o) THEN EkfUpdate(a, o)
        ELSE IF Jumped(t, m, o) THEN HandleArmorJump(a, o)
        ELSE a

\* update(): predict, correct or follow a jump, clamp, advance the machine.
Update(t, m, o, lostThres) ==
    Advance(ClampRadius(Correct(t, m, o)), Matched(t, m, o), lostThres)
=============================================================================
