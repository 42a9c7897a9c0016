---------------------------- MODULE GimbalControl ----------------------------
(***************************************************************************)
(* The class GimbalControl of rcia_vision_tracker: solve() turns a tracked *)
(* target into a gimbal command, decides between aiming at one armor and   *)
(* aiming at the centre of a fast spinning target, and rations fire.       *)
(*                                                                         *)
(* A control object is a record: the aiming mode (state), overflow_count_  *)
(* and the ticks elapsed since last_fire_time_, which saturate at          *)
(* FireInterval because only "at least FireInterval" is ever asked.        *)
(* Operators named Operator_Fault are plausible faults, as in              *)
(* SpinTopTracker.                                                         *)
(***************************************************************************)
EXTENDS Integers

CONSTANTS
    TransferThresh,   \* transfer_thresh_
    MaxTrackingW,     \* parameter gimbal_control.max_tracking_w_yaw
    SpinSpeeds,       \* |w_yaw| of a target, same unit as MaxTrackingW
    FireInterval,     \* parameter gimbal_control.fire_time_interval, in ticks
    ControllerDelay   \* parameter gimbal_control.controller_delay # 0

ASSUME GimbalAssumption ==
    /\ TransferThresh \in Nat
    /\ MaxTrackingW \in Nat
    /\ SpinSpeeds \subseteq Nat
    /\ FireInterval \in Nat
    /\ ControllerDelay \in BOOLEAN

Modes == {"TRACKING_ARMOR", "TRACKING_CENTER"}

Controls == [state : Modes, overflow : Nat, sinceFire : 0 .. FireInterval]

\* The constructor takes now() as last_fire_time_.
NewControl == [state |-> "TRACKING_ARMOR", overflow |-> 0, sinceFire |-> 0]

\* Where solve() throws: at the transform, at an armor closer than 0.1 m or at
\* the first compensation ("early"), at the second aim, once the mode has been
\* advanced ("late"), or nowhere.
Failures == {"none", "early", "late"}

\* What solve() reads: the spin of the target, whether isOnTarget() holds, and
\* where the computation fails.
Aims == [w : SpinSpeeds, onTarget : BOOLEAN, fail : Failures]

\* The second aim is only computed for a nonzero controller delay, or when
\* aiming at the centre.
CanFail(g, a) ==
    a.fail = "late" => ControllerDelay \/ g.state = "TRACKING_CENTER"

-----------------------------------------------------------------------------
\* Time passes between two callbacks.
Elapse(g, dt) ==
    [g EXCEPT !.sinceFire =
        IF g.sinceFire + dt < FireInterval THEN g.sinceFire + dt ELSE FireInterval]

\* Faults: a solve on the other side does not end the row; the row may be one
\* shorter.
AdvanceMode_KeepsCount(g, w) ==
    LET n == IF w > MaxTrackingW THEN g.overflow + 1 ELSE g.overflow
    IN  [g EXCEPT !.overflow = n,
                  !.state = IF n > TransferThresh THEN "TRACKING_CENTER" ELSE g.state]
AdvanceMode_Early(g, w) ==
    LET fast == IF w > MaxTrackingW THEN g.overflow + 1 ELSE 0
        slow == IF w < MaxTrackingW THEN g.overflow + 1 ELSE 0
    IN  IF g.state = "TRACKING_ARMOR"
        THEN [g EXCEPT !.overflow = fast,
                       !.state = IF fast >= TransferThresh THEN "TRACKING_CENTER" ELSE @]
        ELSE [g EXCEPT !.overflow = slow,
                       !.state = IF slow >= TransferThresh THEN "TRACKING_ARMOR" ELSE @]

\* The switch of solve().  overflow_count_ is kept when the centre mode is
\* entered and reset when it is left.
AdvanceMode(g, w) ==
    LET over(counts) == IF counts THEN g.overflow + 1 ELSE 0
        armor  == over(w > MaxTrackingW)
        center == over(w < MaxTrackingW)
    IN  IF g.state = "TRACKING_ARMOR"
        THEN [g EXCEPT !.overflow = armor,
                       !.state = IF armor > TransferThresh THEN "TRACKING_CENTER"
                                 ELSE "TRACKING_ARMOR"]
        ELSE [g EXCEPT !.overflow = IF center > TransferThresh THEN 0 ELSE center,
                       !.state = IF center > TransferThresh THEN "TRACKING_ARMOR"
                                 ELSE "TRACKING_CENTER"]

\* fire_flag before rationing: aiming at the centre always asks for fire.
WantsFire(g, a) == g.state = "TRACKING_CENTER" \/ a.onTarget

\* Fault: fire while aiming at the centre is not rationed.
Fires_CenterUnrationed(g, a) ==
    /\ a.fail = "none"
    /\ WantsFire(g, a)
    /\ g.state = "TRACKING_CENTER" \/ g.sinceFire >= FireInterval

\* fire_flag of the command solve() returns.
Fires(g, a) ==
    /\ a.fail = "none"
    /\ WantsFire(g, a)
    /\ g.sinceFire >= FireInterval

\* The control object solve() leaves; nothing before the throw is undone.
Solve(g, a) ==
    CASE a.fail = "early" -> g
      [] a.fail = "late"  -> AdvanceMode(g, a.w)
      [] OTHER            ->
            [AdvanceMode(g, a.w) EXCEPT
                !.sinceFire = IF Fires(g, a) THEN 0 ELSE g.sinceFire]
=============================================================================
