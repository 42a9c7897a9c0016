--------------------------- MODULE ArmorIdentifier ---------------------------
(***************************************************************************)
(* The node ArmorIdentifier: for every camera image it matches light bars, *)
(* has the number of each candidate classified, chooses one armor and      *)
(* publishes it, or a "null" message.  Its callbacks share one callback    *)
(* group and never overlap, so each is one action.  What a frame leaves in *)
(* the members of the node (the mask, the candidates, the message that is  *)
(* reused for every frame) is there when the next one starts.              *)
(*                                                                         *)
(* A scene is what one colour of an image shows: the bars, the pairs that  *)
(* pass the geometric tests, and how far each pair is from the centre of   *)
(* the image.  The classifier and solvePnP are external: they may answer   *)
(* anything.  The serial callback, its two buffers and the target callback *)
(* only feed debugging output and are left out.                            *)
(*                                                                         *)
(* Operators named Operator_Fault are plausible faults, used to show that  *)
(* the properties can fail; they are not part of the model.                *)
(***************************************************************************)
EXTENDS LightMatching, FiniteSets

CONSTANTS
    Shows,         \* by scene: its bars from left to right, the pairs that pass
                   \* the geometric tests, their distance from the image's centre
    NoScene,       \* the mask before the first colour split
    Images,        \* images the camera may deliver: a scene for each colour
    ColorParams,   \* values the parameter enemy_color may be given
    Patterns,      \* what the classifier may answer
    MaxDetection,  \* max_detection_count
    LostCounts     \* lost_count of a tracker state message

Scenes == DOMAIN Shows
Colors == {"red", "blue"}

ASSUME IdentifierAssumption ==
    /\ NoScene \notin Scenes
    /\ \A s \in Scenes :
        /\ Shows[s].bars \in Seq([y : Int, a : Int])
        /\ Shows[s].fits \subseteq {p \in (DOMAIN Shows[s].bars) \X (DOMAIN Shows[s].bars) : p[1] < p[2]}
        /\ DOMAIN Shows[s].dist = Shows[s].fits
    /\ Images \subseteq [Colors -> Scenes]
    /\ Patterns \subseteq 0 .. 9
    /\ MaxDetection \in Nat \ {0}
    /\ LostCounts \subseteq Nat

NoArmor == [scene |-> NoScene, bars |-> <<0, 0>>]
NoMessage == [corners |-> <<>>, type |-> "none", idx |-> 0, pose |-> NoArmor]
NoImage == [c \in Colors |-> NoScene]

VARIABLES
    enemy_color,       \* detector_params.enemy_color
    is_initialized, detection_count,
    lights,            \* the mask: the scene the last colour split showed
    candidates,        \* armor_candidates_ as match_light() leaves it
    armorIdx,
    msg,               \* armor_identify_msg
    pub,               \* what this callback published
    image, seen        \* the image it was given, and how the classifier answered
                       \* for its candidates; read by properties only

vars == <<enemy_color, is_initialized, detection_count, lights, candidates,
          armorIdx, msg, pub, image, seen>>

\* An armor in an image.
Armors == {NoArmor} \cup
    UNION {{[scene |-> s, bars |-> p] : p \in Shows[s].fits} : s \in Scenes}

Init ==
    /\ enemy_color = "red"
    /\ is_initialized = TRUE /\ detection_count = 0
    /\ lights = NoScene /\ candidates = <<>> /\ armorIdx = 0
    /\ msg = [corners |-> <<>>, type |-> "", idx |-> 0, pose |-> NoArmor]
    /\ pub = NoMessage /\ image = NoImage /\ seen = <<>>

-----------------------------------------------------------------------------
(* The small callbacks.                                                    *)

NoFrame == pub' = NoMessage /\ image' = NoImage /\ seen' = <<>>

\* on_set_parameters(): any string is taken for a colour.
OnSetParameters(c) ==
    /\ enemy_color' = c
    /\ NoFrame
    /\ UNCHANGED <<is_initialized, detection_count, lights, candidates, armorIdx, msg>>

Remaining(lost) == IF lost > MaxDetection THEN 0 ELSE MaxDetection - lost

\* tracker_state_callback() on the state, detection_count and lost_count of
\* the tracker.
TrackerStateCallback(state, det, lost) ==
    /\ is_initialized' = (is_initialized \/ (state = "Patrol" /\ det = 0))
    /\ detection_count' = CASE state = "Tracking" -> MaxDetection
                            [] state = "TempLost" -> Remaining(lost)
                            [] OTHER -> detection_count
    /\ NoFrame
    /\ UNCHANGED <<enemy_color, lights, candidates, armorIdx, msg>>

-----------------------------------------------------------------------------
(* imageCallback() and identify_armor(), step by step.                     *)

\* Fault: the corners of the last frame are kept.
ClearCorners_Kept(m) == m
ClearCorners(m) == [m EXCEPT !.corners = <<>>]

\* Fault: the two colours are exchanged.
ColorSplit_Exchanged(img) ==
    IF enemy_color \in Colors THEN img[CHOOSE c \in Colors : c # enemy_color] ELSE lights

\* color_split(): a colour it does not know leaves the mask as it was.
ColorSplit(img) == IF enemy_color \in Colors THEN img[enemy_color] ELSE lights

\* detect_armor_lights(), into the cleared armor_candidates_; in the empty mask
\* nothing is found.
Detect(scene) ==
    IF scene = NoScene THEN <<>>
    ELSE LET pairs == MatchLight(Shows[scene].bars, Shows[scene].fits)
         IN  [k \in 1 .. Len(pairs) |-> [scene |-> scene, bars |-> pairs[k]]]

\* The answers that are passed over; 0 is what an exception in the classifier leaves.
IsNumber(pattern) == pattern \notin {0, 9}
Valid(found, sees) == {k \in 1 .. Len(found) : IsNumber(sees[k])}

\* Fault: the number is taken before it is tested.
LastNumber_Untested(found, sees, idx) == IF found = <<>> THEN idx ELSE sees[Len(found)]

\* armorIdx after the loop of select_optimal_armor(): each valid candidate
\* overwrites it.
LastNumber(found, sees, idx) ==
    IF Valid(found, sees) = {} THEN idx ELSE sees[Max(Valid(found, sees))]

FromCenter(armor) == Shows[armor.scene].dist[armor.bars]

\* The candidates min_element() may return: nearest to the centre; of equally
\* near ones the order of the unordered_map decides.
Nearest(found, sees) ==
    {k \in Valid(found, sees) : \A l \in Valid(found, sees) :
        FromCenter(found[k]) <= FromCenter(found[l])}

\* select_optimal_armor(): the corners, the type and the number of the message.
\* (The chosen candidate is moved out of armor_candidates_, which nothing reads
\* before the next frame clears it.)
Select(m, found, sees, idx) ==
    IF Valid(found, sees) = {} THEN {m}
    ELSE {[m EXCEPT !.corners = Append(@, found[k]), !.type = "armor",
                    !.idx = LastNumber(found, sees, idx)] : k \in Nearest(found, sees)}

\* solve_pnp() on the corners: when it throws it is caught inside, and the pose
\* of the message stays what it was.
SolvePnp(m, solved) ==
    IF solved THEN [m EXCEPT !.pose = m.corners[Len(m.corners)]] ELSE m

\* identify_armor() after the selection: m is its message.
Publish(m, count, solved) ==
    IF m.corners # <<>>
    THEN /\ msg' = SolvePnp(m, solved)
         /\ is_initialized' = FALSE
    ELSE /\ msg' = [m EXCEPT !.type = "null"]
         /\ is_initialized' = (count <= 0)

\* One camera image, to the message that is published for it.
ImageCallback(img) ==
    LET scene == ColorSplit(img)
        found == Detect(scene)
        count == IF is_initialized THEN 0 ELSE detection_count
        idx   == IF is_initialized THEN 0 ELSE armorIdx
    IN  /\ image' = img
        /\ lights' = scene /\ candidates' = found
        /\ detection_count' = count
        /\ \E sees \in [1 .. Len(found) -> Patterns], solved \in BOOLEAN :
            /\ seen' = sees
            /\ armorIdx' = LastNumber(found, sees, idx)
            /\ \E m \in Select(ClearCorners(msg), found, sees, idx) :
                Publish(m, count, solved)
        /\ pub' = msg'
        /\ UNCHANGED enemy_color

Next ==
    \/ \E c \in ColorParams : OnSetParameters(c)
    \/ \E state \in {"Patrol", "Detecting", "Tracking", "TempLost"},
          det \in {0, 1}, lost \in LostCounts : TrackerStateCallback(state, det, lost)
    \/ \E img \in Images : ImageCallback(img)

Spec == Init /\ [][Next]_vars

-----------------------------------------------------------------------------
Published == pub # NoMessage
PublishedArmor == Published /\ pub.type # "null"

\* The members of the node keep their types.
TypeOK ==
    /\ is_initialized \in BOOLEAN /\ detection_count \in 0 .. MaxDetection
    /\ lights \in Scenes \cup {NoScene}
    /\ candidates \in Seq(Armors) /\ armorIdx \in Patterns \cup {0}
    /\ msg.corners \in Seq(Armors) /\ msg.pose \in Armors /\ msg.idx \in Patterns \cup {0}
    /\ msg.type \in {"", "armor", "null"}

\* Although one message object serves all frames, what is published has the
\* corners of one armor of this frame, or says "null" and has none.
PublishedIsWhole ==
    Published =>
        IF pub.type = "null" THEN pub.corners = <<>>
        ELSE \E k \in 1 .. Len(candidates) : pub.corners = <<candidates[k]>>

\* The number published was read in this frame, on a candidate that passed the
\* test for a number; it never survives from an earlier target.
NumberIsOfThisFrame ==
    PublishedArmor =>
        \E k \in 1 .. Len(candidates) : seen[k] = pub.idx /\ IsNumber(seen[k])

\* As long as the detector knows the colour it is asked for, what is published
\* is in this image, in that colour; the mask that is kept from frame to frame
\* shows through only otherwise.
ColorFollowed ==
    PublishedArmor /\ enemy_color \in Colors =>
        \A k \in 1 .. Len(pub.corners) : pub.corners[k].scene = image[enemy_color]

\* Of three bars at most one pair becomes an armor, whatever the order in which
\* the pairs compete: no bar is part of two armors.
BarsAreShared(found) ==
    \E j, k \in 1 .. Len(found) : j # k /\ Bars(found[j].bars) \cap Bars(found[k].bars) # {}
FewBarsUnshared ==
    lights # NoScene /\ Len(Shows[lights].bars) <= 3 => ~BarsAreShared(candidates)

-----------------------------------------------------------------------------
\* What a comment of select_optimal_armor() says.

\* "Choose the armor nearest to the centre": the message describes that armor,
\* with its number.
DescribesOneArmor ==
    PublishedArmor =>
        \E k \in 1 .. Len(candidates) :
            pub.corners = <<candidates[k]>> /\ pub.idx = seen[k]
=============================================================================
