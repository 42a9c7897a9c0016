------------------------------ MODULE BaSolver ------------------------------
(***************************************************************************)
(* BA_CLASS of the math solver: the window of recent PnP poses, its reset  *)
(* when the target jumps, and the message that goes to the tracker.  One   *)
(* callback of MathSolverNode is one action.                               *)
(*                                                                         *)
(* A translation keeps its x and, as one value, the two coordinates the    *)
(* jump test leaves out.  The points of a frame are named by the           *)
(* translation PnP derived from them.  Ceres is external: a solve leaves   *)
(* in g_reproject_rvec whatever rotation it tried last, or, when the       *)
(* starting yaw is out of bounds, the one of PnP.                          *)
(*                                                                         *)
(* Operators named Operator_Fault are plausible faults, used to show that  *)
(* the properties can fail; they are not part of the model.                *)
(***************************************************************************)
EXTENDS Integers, Sequences

CONSTANTS
    Places,          \* x of a translation
    Rests,           \* y and z of a translation
    Rvecs,           \* rotations
    Ids,             \* armor_pattern_idx
    OptimizeLength,  \* frames in the window
    MaxDifference    \* 0.2 m

ASSUME BaAssumption ==
    /\ Places \subseteq Int /\ Rests \subseteq Int
    /\ OptimizeLength \in Nat /\ OptimizeLength >= 2
    /\ MaxDifference \in Nat

VARIABLES
    rotations, translations, image_points,  \* the window, in three vectors
    rvec,     \* g_reproject_rvec
    msg,      \* armor_bapose_msg_, a member reused by every publication
    report,   \* what this callback published: "silent", "null" or "armor"
    recent    \* history: x of the last detections, two at most

window == <<rotations, translations, image_points>>
vars == <<window, rvec, msg, report, recent>>

Tvecs == [x : Places, rest : Rests]
Detections == [tvec : Tvecs, rvec : Rvecs, idx : Ids]
Last(s) == s[Len(s)]
Near(a, b) == a - b <= MaxDifference /\ b - a <= MaxDifference

Init ==
    /\ rotations = <<>> /\ translations = <<>> /\ image_points = <<>>
    /\ rvec = {}
    /\ msg = [type |-> "", idx |-> {}, pose |-> {}]
    /\ report = "silent"
    /\ recent = <<>>

-----------------------------------------------------------------------------
(* adjust_optimized_data().                                                *)

\* Fault: the newest entry goes instead of the oldest.
Trimmed_Back(s) == IF Len(s) > OptimizeLength THEN SubSeq(s, 1, Len(s) - 1) ELSE s

\* A window that has grown too long loses its oldest entry.
Trimmed(s) == IF Len(s) > OptimizeLength THEN Tail(s) ELSE s

Pushed(s, e) == Trimmed(Append(s, e))

\* The jump test looks at x alone.
Jumps(t, d) ==
    LET s == Pushed(t, d.tvec) IN Len(s) > 1 /\ ~Near(s[Len(s) - 1].x, d.tvec.x)

\* Fault: a reset forgets the image points.
AdjustOptimizedData_KeepsPoints(d) ==
    LET jump == Jumps(translations, d)
    IN  /\ rotations' = IF jump THEN <<>> ELSE Pushed(rotations, d.rvec)
        /\ translations' = IF jump THEN <<>> ELSE Pushed(translations, d.tvec)
        /\ image_points' = Pushed(image_points, d.tvec)

\* A jump clears the window, the new pose included.
AdjustOptimizedData(d) ==
    IF Jumps(translations, d)
    THEN rotations' = <<>> /\ translations' = <<>> /\ image_points' = <<>>
    ELSE /\ rotations' = Pushed(rotations, d.rvec)
         /\ translations' = Pushed(translations, d.tvec)
         /\ image_points' = Pushed(image_points, d.tvec)

-----------------------------------------------------------------------------
(* Solver().                                                               *)

\* Fault: a frame more is waited for.
Solvable_Late(s) == Len(s) > 2

Solvable(s) == Len(s) > 1

\* Ceres may leave any rotation it tried; the translation is that of PnP.
BundleAdjustment == \E r \in Rvecs : rvec' = {r}

Remember(d) ==
    recent' = IF Len(recent) < 2 THEN Append(recent, d.tvec.x)
              ELSE <<recent[2], d.tvec.x>>

\* A frame without an armor: pose and idx of an earlier one stay in msg, and
\* the window stays as it is.
SolverNull ==
    /\ msg' = [msg EXCEPT !.type = "null"]
    /\ report' = "null"
    /\ UNCHANGED <<window, rvec, recent>>

PublishArmorBapose(d) ==
    /\ msg' = [type |-> "armor", idx |-> {d.idx}, pose |-> {<<d.tvec, r>> : r \in rvec'}]
    /\ report' = "armor"

SolverArmor(d) ==
    /\ AdjustOptimizedData(d)
    /\ Remember(d)
    /\ IF Solvable(rotations')
       THEN BundleAdjustment /\ PublishArmorBapose(d)
       ELSE rvec' = {d.rvec} /\ report' = "silent" /\ UNCHANGED msg

Next == SolverNull \/ \E d \in Detections : SolverArmor(d)

Spec == Init /\ [][Next]_vars

-----------------------------------------------------------------------------
\* The variables keep their types, and the window its length.
TypeOK ==
    /\ rotations \in Seq(Rvecs)
    /\ translations \in Seq(Tvecs)
    /\ image_points \in Seq(Tvecs)
    /\ Len(translations) <= OptimizeLength
    /\ rvec \subseteq Rvecs
    /\ msg \in [type : {"", "null", "armor"}, idx : SUBSET Ids,
                pose : SUBSET (Tvecs \X Rvecs)]
    /\ report \in {"silent", "null", "armor"}
    /\ recent \in Seq(Places)

\* The three vectors of the window stay in step: bundle_adjustment() indexes
\* all of them with one index, bounded by the length of one.
InStep ==
    /\ Len(rotations) = Len(translations)
    /\ image_points = translations

FramesNear ==
    \A i \in 1 .. Len(translations) - 1 :
        Near(translations[i].x, translations[i + 1].x)

\* Frames optimised together show a target that never moved further than
\* MaxDifference sideways from one of them to the next, and the three vectors
\* that are pushed, trimmed and cleared by hand are in step
\* (ba_solver.cpp:602-640).
WindowCoherent == InStep /\ FramesNear

\* A target that is steady over three detections is reported by the third at
\* the latest, whatever was in the window before.
SteadyIsReported ==
    [][\A d \in Detections :
        SolverArmor(d) /\ Len(recent) = 2
            /\ Near(recent[1], recent[2]) /\ Near(recent[2], d.tvec.x)
                => report' = "armor"]_vars

\* The solver implements SteadyReports: of the whole window only its last
\* entry decides whether the tracker hears of a detection.
LastPlace == {translations[i].x : i \in {Len(translations)} \ {0}}
SeenPlace == {recent[i] : i \in {Len(recent)} \ {0}}
Reports == INSTANCE SteadyReports WITH last <- LastPlace, seen <- SeenPlace
ImplementsSteadyReports == Reports!Spec

=============================================================================
