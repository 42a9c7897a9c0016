---------------------------- MODULE VisionTracker ----------------------------
(***************************************************************************)
(* The node VisionTrackerNode: one armor message in, one gimbal command    *)
(* out.  solver_callback runs to completion on a single-threaded executor, *)
(* so each of its paths is one action.  When a target is followed, the     *)
(* callback runs update() TWICE with the same message: the first call may  *)
(* already give the target up (and adopt the armor of the message), the    *)
(* second decides what is published.                                       *)
(*                                                                         *)
(* hist, shots and spins are auxiliary: they record what happened and are  *)
(* read by properties only.                                                *)
(***************************************************************************)
EXTENDS SpinTopTracker, GimbalControl

CONSTANTS
    Gaps,       \* ticks that may separate the stamps of two messages
    LostTime    \* parameter tracker.lost_time_thresh, in ticks

ASSUME NodeAssumption ==
    /\ Gaps \subseteq Nat \ {0}
    /\ LostTime \in Nat
    /\ \A dt \in Gaps : LostTime \div dt <= LostTime
    /\ Observations # {}

VARIABLES
    trk,    \* *tracker_
    gc,     \* *control_
    out,    \* the command and the tracking flag last published
    hist,   \* frames that confirmed the target, updates in a row without it
    shots,  \* ticks since the last fire command, and between the last two
    spins   \* how many solves in a row saw a fast, or a slow, target

vars == <<trk, gc, out, hist, shots, spins>>

Idle == [tracking |-> FALSE, find |-> FALSE, fire |-> FALSE]

NoHistory == [run |-> 0, miss |-> 0, seen |-> FALSE]
Acquired == [run |-> 1, miss |-> 0, seen |-> TRUE]

Init ==
    /\ trk = NewTracker
    /\ gc = NewControl
    /\ out = Idle
    /\ hist = NoHistory
    /\ shots = [since |-> FireInterval, gap |-> FireInterval]
    /\ spins = [fast |-> 0, slow |-> 0]

-----------------------------------------------------------------------------
\* The auxiliary counters saturate where no property tells more apart.
RunCap == TrackingThresh + 2
MissCap == LostTime + 2
SpinCap == TransferThresh + 1
Capped(n, cap) == IF n < cap THEN n ELSE cap

\* lost_thres = abs(int(lost_time_thresh / dt)): how many updates, at the pace
\* of this frame, fit in the time a target may be missing.
LostThres(dt) == LostTime \div dt

\* What an armor may look like to an update; update() ignores the armor unless
\* it has the tracked number.
Views(t, m) ==
    IF SameId(t, m) THEN Observations ELSE {CHOOSE o \in Observations : TRUE}

\* The history of the target after a frame whose updates matched or not.
Follow(h, first, second) ==
    LET missed(n, matched) == IF matched THEN 0 ELSE Capped(n + 1, MissCap)
        seen == first \/ second
    IN  [run  |-> IF seen THEN Capped(h.run + 1, RunCap) ELSE h.run,
         miss |-> missed(missed(h.miss, first), second),
         seen |-> seen]

\* A target was adopted (or, on a "null" message, none was).
Adopt(m) == IF m.null THEN NoHistory ELSE Acquired

RecordShot(dt, fired) ==
    shots' = IF fired
             THEN [since |-> 0, gap |-> Capped(shots.since + dt, FireInterval)]
             ELSE [shots EXCEPT !.since = Capped(shots.since + dt, FireInterval)]

RecordSpin(a) ==
    spins' = IF a.fail = "early" THEN spins
             ELSE [fast |-> IF a.w > MaxTrackingW THEN Capped(spins.fast + 1, SpinCap) ELSE 0,
                   slow |-> IF a.w < MaxTrackingW THEN Capped(spins.slow + 1, SpinCap) ELSE 0]

\* No target is followed at the end of the callback: the zero command.
PublishIdle(dt) ==
    /\ out' = Idle
    /\ gc' = Elapse(gc, dt)
    /\ RecordShot(dt, FALSE)
    /\ UNCHANGED spins

-----------------------------------------------------------------------------
\* The callback finds the tracker in PATROL.
Acquire(m, dt) ==
    /\ trk.state = "PATROL"
    /\ trk' = InitTarget(trk, m)
    /\ hist' = Adopt(m)
    /\ PublishIdle(dt)

\* The first update gives the target up; the same message is tried at once.
Reacquire(m, dt, o) ==
    /\ trk.state # "PATROL"
    /\ LET t == Update(trk, m, o, LostThres(dt)) IN
        /\ t.state = "PATROL"
        /\ trk' = InitTarget(t, m)
    /\ hist' = Adopt(m)
    /\ PublishIdle(dt)

\* Both updates run.
UpdateTwice(m, dt, o1) ==
    /\ trk.state # "PATROL"
    /\ LET t1 == Update(trk, m, o1, LostThres(dt)) IN
        /\ t1.state # "PATROL"
        /\ \E o2 \in Views(t1, m) :
            /\ trk' = Update(t1, m, o2, LostThres(dt))
            /\ hist' = IF trk'.state = "PATROL" THEN NoHistory
                       ELSE Follow(hist, Matched(trk, m, o1), Matched(t1, m, o2))

\* The target is not, or no longer, followed after the second update.
Detect(m, dt, o) ==
    /\ UpdateTwice(m, dt, o)
    /\ trk'.state \in {"PATROL", "DETECTING"}
    /\ PublishIdle(dt)

\* Fault: solve() is asked for any target that is not given up.
Engage_Unconfirmed(m, dt, o) ==
    /\ UpdateTwice(m, dt, o)
    /\ trk'.state # "PATROL"
    /\ LET g == Elapse(gc, dt) IN
        \E a \in Aims :
            /\ CanFail(g, a)
            /\ gc' = Solve(g, a)
            /\ out' = [tracking |-> TRUE, find |-> a.fail = "none", fire |-> Fires(g, a)]
            /\ RecordSpin(a)
    /\ RecordShot(dt, out'.fire)

\* The target is followed: solve() is asked for a command, and whatever it
\* throws is turned into the zero command.
Engage(m, dt, o) ==
    /\ UpdateTwice(m, dt, o)
    /\ trk'.state \in {"TRACKING", "TEMP_LOST"}
    /\ LET g == Elapse(gc, dt) IN
        \E a \in Aims :
            /\ CanFail(g, a)
            /\ gc' = Solve(g, a)
            /\ out' = [tracking |-> TRUE, find |-> a.fail = "none", fire |-> Fires(g, a)]
            /\ RecordSpin(a)
    /\ RecordShot(dt, out'.fire)

SolverCallback(m, dt) ==
    \/ Acquire(m, dt)
    \/ \E o \in Views(trk, m) :
        \/ Reacquire(m, dt, o)
        \/ Detect(m, dt, o)
        \/ Engage(m, dt, o)

Next == \E m \in Messages, dt \in Gaps : SolverCallback(m, dt)

Spec == Init /\ [][Next]_vars

\* Messages keep coming: the detector publishes one for every camera frame,
\* "null" when it sees nothing.
FairSpec == Spec /\ WF_vars(Next)

-----------------------------------------------------------------------------
Followed == trk.state \in {"TRACKING", "TEMP_LOST"}

\* The records of the program and of the history keep their types.
TypeOK ==
    /\ trk \in Trackers
    /\ gc \in Controls
    /\ out \in [tracking : BOOLEAN, find : BOOLEAN, fire : BOOLEAN]
    /\ hist \in [run : 0 .. RunCap, miss : 0 .. MissCap, seen : BOOLEAN]
    /\ shots \in [since : 0 .. FireInterval, gap : 0 .. FireInterval]
    /\ spins \in [fast : 0 .. SpinCap, slow : 0 .. SpinCap]

\* detection_count_ and lost_count_ are never reset by init(): whichever path
\* led to PATROL, and through it to the next target, left both at zero, and a
\* followed target starts a loss with a fresh lost_count_.
CountersMatchState ==
    /\ trk.state # "DETECTING" => trk.det = 0
    /\ trk.state # "TEMP_LOST" => trk.lost = 0
    /\ trk.state = "DETECTING" => trk.det <= TrackingThresh
    /\ trk.state = "TEMP_LOST" => trk.lost >= 1

\* A target is only followed (and fired at) once enough frames confirmed it:
\* the acquiring frame and, each frame counting twice, TrackingThresh + 1
\* matched updates without a miss.
TrackedIsConfirmed ==
    Followed => 2 * hist.run >= TrackingThresh + 3

\* lost_count_ counts exactly the updates since the target was last matched,
\* and never exceeds what lost_thres allowed at the pace of some frame: the
\* gun is not aimed at a prediction for longer than that.
BlindBounded ==
    /\ trk.state = "TRACKING" => hist.miss = 0
    /\ trk.state = "TEMP_LOST" =>
        /\ hist.miss = trk.lost
        /\ trk.lost <= 1 \/ \E dt \in Gaps : trk.lost <= LostThres(dt)

\* Both radii handed to the gimbal solver stay within [0.12, 0.35] m although
\* a jump exchanges the clamped radius with the other one before the clamp.
RadiiBounded ==
    trk.state # "PATROL" => trk.r \in RMin .. RMax /\ trk.r2 \in RMin .. RMax

\* The filter's own copy of the radius never drifts from target_state(8):
\* every path that changes the one outside the filter calls setState().
FilterInSync == trk.ekfR = trk.r

\* An outpost has one radius: another_r keeps the value initEkf gave it, even
\* when the previous target was a robot with two.
OutpostOneRadius ==
    trk.state # "PATROL" =>
        /\ trk.armors = ArmorsOf(trk.id)
        /\ trk.id = OutpostId => trk.r2 = RInit

\* The geometry that a target is aimed at with: clamps, jumps between armors and
\* the filter, each with a copy of a radius of its own, agree about the radii
\* after every callback (spinTop_tracker.cpp:151, 224).
GeometryKept == RadiiBounded /\ FilterInSync /\ OutpostOneRadius

\* The tracked number changes only by acquiring a new target from scratch: no
\* path of the callback lets a followed target change its identity.
IdentityStable ==
    [][trk'.id # trk.id =>
        /\ trk'.state = "DETECTING"
        /\ trk'.det = 0
        /\ ~out'.tracking]_vars

\* Two fire commands are at least fire_time_interval apart, whatever lies
\* between them: a change of mode, a lost target, an exception in solve().
FireSpaced == shots.gap >= FireInterval

\* overflow_count_ in terms of the solves seen.  In the centre mode it counts
\* the slow solves in a row, except that it still holds the count of fast
\* ones until the first solve after the switch.
ModeFollowsSpin ==
    /\ gc.state = "TRACKING_ARMOR" =>
        gc.overflow = spins.fast /\ gc.overflow <= TransferThresh
    /\ gc.state = "TRACKING_CENTER" =>
        \/ gc.overflow = spins.slow /\ gc.overflow <= TransferThresh
        \/ gc.overflow = TransferThresh + 1 /\ spins.slow = 0 /\ spins.fast > TransferThresh

\* The aiming mode changes only after more than transfer_thresh_ solves in a
\* row on the other side of max_tracking_w_yaw, except that one slow solve
\* right after the switch to the centre mode takes it back.
ModeSwitchJustified ==
    [][/\ gc.state = "TRACKING_ARMOR" /\ gc'.state = "TRACKING_CENTER" =>
            spins'.fast > TransferThresh
       /\ gc.state = "TRACKING_CENTER" /\ gc'.state = "TRACKING_ARMOR" =>
            \/ spins'.slow > TransferThresh
            \/ spins'.slow = 1 /\ spins.fast > TransferThresh]_vars

\* While messages keep coming, a followed target that is not seen any more is
\* seen again or given up.
LossIsResolved ==
    (trk.state = "TEMP_LOST" /\ ~hist.seen) ~> (trk.state # "TEMP_LOST" \/ hist.seen)

\* The tracker implements TargetEngagement: no fire before confirmation, no
\* confirmation in the frame of an acquisition, no silent change of target.
Engagement == INSTANCE TargetEngagement WITH
    None <- 0,
    target <- IF trk.state = "PATROL" THEN 0 ELSE trk.id,
    confirmed <- Followed,
    firing <- out.fire
ImplementsEngagement == Engagement!Spec
=============================================================================
