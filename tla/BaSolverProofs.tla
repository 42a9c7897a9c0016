--------------------------- MODULE BaSolverProofs ---------------------------
(***************************************************************************)
(* Proofs about BaSolver, for every window length, jump bound and set of   *)
(* poses: the window stays coherent, a steady target is reported, and the  *)
(* solver implements SteadyReports.                                        *)
(***************************************************************************)
EXTENDS BaSolver, TLAPS

\* What ties the history to the window: a window that is not empty ends where
\* the last detection was, and an empty one was cleared by a jump.
RecentSound ==
    /\ Len(recent) <= 2
    /\ translations # <<>> =>
        recent # <<>> /\ Last(recent) = Last(translations).x
    /\ translations = <<>> /\ Len(recent) = 2 => ~Near(recent[1], recent[2])

\* The inductive invariant.
IInv == TypeOK /\ InStep /\ FramesNear /\ RecentSound

-----------------------------------------------------------------------------
\* What is left of a vector after a push: its length, and its entries counted
\* from the back.
LEMMA PushedFacts ==
    ASSUME NEW S, NEW s \in Seq(S), NEW e \in S, Len(s) <= OptimizeLength
    PROVE  /\ Pushed(s, e) \in Seq(S)
           /\ Len(Pushed(s, e)) = IF Len(s) = OptimizeLength THEN Len(s) ELSE Len(s) + 1
           /\ Pushed(s, e)[Len(Pushed(s, e))] = e
           /\ \A i \in 1 .. Len(Pushed(s, e)) - 1 :
                Pushed(s, e)[i] = IF Len(s) = OptimizeLength THEN s[i + 1] ELSE s[i]
<1> DEFINE t == Append(s, e)
<1>1. t \in Seq(S) /\ Len(t) = Len(s) + 1 /\ t[Len(s) + 1] = e
        /\ \A i \in 1 .. Len(s) : t[i] = s[i]
  OBVIOUS
<1>2. CASE Len(s) = OptimizeLength
  <2>1. Pushed(s, e) = Tail(t)
    BY <1>1, <1>2, BaAssumption DEF Pushed, Trimmed
  <2>2. Tail(t) \in Seq(S) /\ Len(Tail(t)) = Len(s)
          /\ \A i \in 1 .. Len(s) : Tail(t)[i] = t[i + 1]
    BY <1>1, <1>2, BaAssumption
  <2> QED
    BY <1>1, <1>2, <2>1, <2>2, BaAssumption
<1>3. CASE Len(s) # OptimizeLength
  <2>1. Pushed(s, e) = t
    BY <1>1, <1>3, BaAssumption DEF Pushed, Trimmed
  <2> QED
    BY <1>1, <1>3, <2>1, BaAssumption
<1> QED
  BY <1>2, <1>3

\* What the jump test says: it compares the new pose with the newest one of
\* the window.
LEMMA JumpsFacts ==
    ASSUME TypeOK, NEW d \in Detections
    PROVE  Jumps(translations, d) <=>
              translations # <<>> /\ ~Near(Last(translations).x, d.tvec.x)
<1> DEFINE s == Pushed(translations, d.tvec)
<1>1. d.tvec \in Tvecs
  BY DEF Detections
<1>2. translations \in Seq(Tvecs) /\ Len(translations) <= OptimizeLength
  BY DEF TypeOK
<1>3. Len(s) = IF Len(translations) = OptimizeLength THEN Len(translations)
               ELSE Len(translations) + 1
  BY <1>1, <1>2, PushedFacts
<1>4. ASSUME translations # <<>>
      PROVE  Len(s) > 1 /\ s[Len(s) - 1] = Last(translations)
  <2>1. \A i \in 1 .. Len(s) - 1 :
          s[i] = IF Len(translations) = OptimizeLength THEN translations[i + 1]
                 ELSE translations[i]
    BY <1>1, <1>2, PushedFacts
  <2>2. Len(translations) \in Nat /\ Len(translations) > 0
    BY <1>2, <1>4
  <2>3. Len(s) > 1 /\ Len(s) - 1 \in 1 .. Len(s) - 1
    BY <1>3, <2>2, BaAssumption
  <2> QED
    BY <1>3, <2>1, <2>2, <2>3 DEF Last
<1>5. ASSUME translations = <<>>
      PROVE  ~(Len(s) > 1)
  BY <1>3, <1>5, BaAssumption
<1> QED
  BY <1>4, <1>5 DEF Jumps

-----------------------------------------------------------------------------
\* What a detection does to the window, said with the last entry alone.
LEMMA WindowStep ==
    ASSUME IInv, NEW d \in Detections, AdjustOptimizedData(d)
    PROVE  /\ rotations' \in Seq(Rvecs) /\ translations' \in Seq(Tvecs)
           /\ image_points' = translations'
           /\ Len(rotations') = Len(translations')
           /\ Len(translations') <= OptimizeLength
           /\ FramesNear'
           /\ IF translations # <<>> /\ ~Near(Last(translations).x, d.tvec.x)
              THEN translations' = <<>>
              ELSE /\ translations' # <<>> /\ Last(translations') = d.tvec
                   /\ Len(translations') > 1 <=> translations # <<>>
<1> USE DEF IInv
<1>1. d.tvec \in Tvecs /\ d.rvec \in Rvecs
  BY DEF Detections
<1>2. /\ translations \in Seq(Tvecs) /\ Len(translations) <= OptimizeLength
      /\ rotations \in Seq(Rvecs) /\ Len(rotations) = Len(translations)
      /\ image_points = translations
  BY DEF TypeOK, InStep
<1>3. Jumps(translations, d) <=>
        translations # <<>> /\ ~Near(Last(translations).x, d.tvec.x)
  BY JumpsFacts
<1>4. CASE Jumps(translations, d)
  <2>1. rotations' = <<>> /\ translations' = <<>> /\ image_points' = <<>>
    BY <1>4 DEF AdjustOptimizedData
  <2>2. FramesNear'
    BY <2>1 DEF FramesNear
  <2> QED
    BY <1>3, <1>4, <2>1, <2>2, BaAssumption
<1>5. CASE ~Jumps(translations, d)
  <2> DEFINE t == Pushed(translations, d.tvec)
  <2>1. /\ rotations' = Pushed(rotations, d.rvec)
        /\ translations' = t /\ image_points' = t
    BY <1>2, <1>5 DEF AdjustOptimizedData
  <2>2. /\ t \in Seq(Tvecs)
        /\ Len(t) = IF Len(translations) = OptimizeLength THEN Len(translations)
                    ELSE Len(translations) + 1
        /\ t[Len(t)] = d.tvec
        /\ \A i \in 1 .. Len(t) - 1 :
             t[i] = IF Len(translations) = OptimizeLength THEN translations[i + 1]
                    ELSE translations[i]
    <3> DEFINE e == d.tvec
               pushed == Pushed(translations, e)
    <3>1. /\ e \in Tvecs /\ translations \in Seq(Tvecs)
          /\ Len(translations) <= OptimizeLength
      BY <1>1, <1>2
    <3> HIDE DEF e
    <3>2. /\ pushed \in Seq(Tvecs)
          /\ Len(pushed) = IF Len(translations) = OptimizeLength THEN Len(translations)
                           ELSE Len(translations) + 1
          /\ pushed[Len(pushed)] = e
          /\ \A i \in 1 .. Len(pushed) - 1 :
               pushed[i] = IF Len(translations) = OptimizeLength THEN translations[i + 1]
                           ELSE translations[i]
      BY <3>1, PushedFacts
    <3> QED
      BY <3>2 DEF e
  <2>3. /\ rotations' \in Seq(Rvecs)
        /\ Len(rotations') = IF Len(rotations) = OptimizeLength THEN Len(rotations)
                             ELSE Len(rotations) + 1
    <3>1. d.rvec \in Rvecs /\ rotations \in Seq(Rvecs) /\ Len(rotations) <= OptimizeLength
      BY <1>1, <1>2
    <3> QED
      BY ONLY <2>1, <3>1, PushedFacts
  <2>4. Len(translations) \in Nat /\ (translations # <<>> <=> Len(translations) > 0)
    BY <1>2
  <2>5. Len(t) > 0 /\ Len(t) <= OptimizeLength
          /\ (Len(t) > 1 <=> translations # <<>>)
    BY <1>2, <2>2, <2>4, BaAssumption
  <2>6. FramesNear'
    <3> SUFFICES ASSUME NEW i \in 1 .. Len(t) - 1
                 PROVE  Near(t[i].x, t[i + 1].x)
      BY <2>1 DEF FramesNear
    <3>1. CASE i + 1 = Len(t)
      <4>1. translations # <<>> /\ t[i] = Last(translations)
        BY <1>2, <2>2, <2>4, <2>5, <3>1, BaAssumption DEF Last
      <4>2. Near(Last(translations).x, d.tvec.x)
        BY <1>3, <1>5, <4>1
      <4> QED
        BY <2>2, <3>1, <4>1, <4>2
    <3>2. CASE i + 1 # Len(t)
      <4>1. i + 1 \in 1 .. Len(t) - 1
        BY <2>2, <2>4, <3>2, BaAssumption
      <4> DEFINE j == IF Len(translations) = OptimizeLength THEN i + 1 ELSE i
      <4>2. t[i] = translations[j] /\ t[i + 1] = translations[j + 1]
        BY <2>2, <4>1
      <4>3. j \in 1 .. Len(translations) - 1
        BY <1>2, <2>2, <2>4, <4>1, BaAssumption
      <4>4. Near(translations[j].x, translations[j + 1].x)
        BY <4>3 DEF FramesNear
      <4> QED
        BY <4>2, <4>4
    <3> QED
      BY <3>1, <3>2
  <2> QED
    BY <1>2, <1>3, <1>5, <2>1, <2>2, <2>3, <2>5, <2>6 DEF Last
<1> QED
  BY <1>4, <1>5

LEMMA InitIInv == ASSUME Init PROVE IInv
<1>1. /\ rotations = <<>> /\ translations = <<>> /\ image_points = <<>>
      /\ recent = <<>>
  BY DEF Init
<1>2. rvec \subseteq Rvecs /\ report \in {"silent", "null", "armor"}
  BY DEF Init
<1>3. msg \in [type : {"", "null", "armor"}, idx : SUBSET Ids,
              pose : SUBSET (Tvecs \X Rvecs)]
  BY DEF Init
<1>4. TypeOK
  <2>1. rotations \in Seq(Rvecs) /\ translations \in Seq(Tvecs)
    BY <1>1
  <2>2. image_points \in Seq(Tvecs) /\ recent \in Seq(Places)
    BY <1>1
  <2>3. Len(translations) <= OptimizeLength
    BY <1>1, BaAssumption
  <2> QED
    BY <1>2, <1>3, <2>1, <2>2, <2>3 DEF TypeOK
<1>5. InStep /\ FramesNear
  BY <1>1 DEF InStep, FramesNear
<1>6. RecentSound
  BY <1>1 DEF RecentSound
<1> QED
  BY <1>4, <1>5, <1>6 DEF IInv

LEMMA SolverNullStep == ASSUME IInv, SolverNull PROVE IInv'
<1> USE DEF IInv, SolverNull, window
<1>1. TypeOK'
  BY DEF TypeOK
<1>2. InStep' /\ FramesNear' /\ RecentSound'
  BY DEF InStep, FramesNear, RecentSound, Last, Near
<1> QED
  BY <1>1, <1>2

\* The history after a detection.
LEMMA RememberStep ==
    ASSUME IInv, NEW d \in Detections, SolverArmor(d)
    PROVE  /\ recent' \in Seq(Places) /\ Len(recent') <= 2
           /\ recent' # <<>> /\ Last(recent') = d.tvec.x
           /\ Len(recent') = 2 => recent # <<>> /\ recent'[1] = Last(recent)
                                               /\ recent'[2] = d.tvec.x
<1>1. d.tvec.x \in Places
  BY DEF Detections, Tvecs
<1>2. recent \in Seq(Places) /\ Len(recent) <= 2
  BY DEF IInv, TypeOK, RecentSound
<1>3. CASE Len(recent) < 2
  BY <1>1, <1>2, <1>3 DEF SolverArmor, Remember, Last
<1>4. CASE ~(Len(recent) < 2)
  BY <1>1, <1>2, <1>4 DEF SolverArmor, Remember, Last
<1> QED
  BY <1>3, <1>4

LEMMA SolverArmorStep ==
    ASSUME IInv, NEW d \in Detections, SolverArmor(d)
    PROVE  IInv'
<1>1. AdjustOptimizedData(d)
  BY DEF SolverArmor
<1>2. /\ rotations' \in Seq(Rvecs) /\ translations' \in Seq(Tvecs)
      /\ image_points' = translations'
      /\ Len(rotations') = Len(translations')
      /\ Len(translations') <= OptimizeLength
      /\ FramesNear'
      /\ IF translations # <<>> /\ ~Near(Last(translations).x, d.tvec.x)
         THEN translations' = <<>>
         ELSE /\ translations' # <<>> /\ Last(translations') = d.tvec
              /\ Len(translations') > 1 <=> translations # <<>>
  BY <1>1, WindowStep
<1>3. d.tvec \in Tvecs /\ d.rvec \in Rvecs /\ d.idx \in Ids /\ d.tvec.x \in Places
  BY DEF Detections, Tvecs
<1>4. /\ recent' \in Seq(Places) /\ Len(recent') <= 2
      /\ recent' # <<>> /\ Last(recent') = d.tvec.x
      /\ Len(recent') = 2 => recent # <<>> /\ recent'[1] = Last(recent)
                                          /\ recent'[2] = d.tvec.x
  BY RememberStep
<1>5. rvec' \subseteq Rvecs
  BY <1>3 DEF SolverArmor, BundleAdjustment
<1>6. /\ msg' \in [type : {"", "null", "armor"}, idx : SUBSET Ids,
                   pose : SUBSET (Tvecs \X Rvecs)]
      /\ report' \in {"silent", "null", "armor"}
  <2>1. CASE Solvable(rotations')
    <3>1. PublishArmorBapose(d)
      BY <2>1 DEF SolverArmor
    <3>2. {<<d.tvec, r>> : r \in rvec'} \subseteq Tvecs \X Rvecs
      BY <1>3, <1>5
    <3> QED
      BY <1>3, <3>1, <3>2 DEF PublishArmorBapose
  <2>2. CASE ~Solvable(rotations')
    BY <2>2 DEF SolverArmor, IInv, TypeOK
  <2> QED
    BY <2>1, <2>2
<1>7. TypeOK'
  BY <1>2, <1>4, <1>5, <1>6 DEF TypeOK
<1>8. RecentSound'
  <2>1. translations' # <<>> => Last(recent') = Last(translations').x
    BY <1>2, <1>4
  <2>2. ASSUME translations' = <<>>, Len(recent') = 2
        PROVE  ~Near(recent'[1], recent'[2])
    <3>1. translations # <<>> /\ ~Near(Last(translations).x, d.tvec.x)
      BY <1>2, <2>2
    <3>2. Last(recent) = Last(translations).x
      BY <3>1 DEF IInv, RecentSound
    <3> QED
      BY <1>4, <2>2, <3>1, <3>2
  <2> QED
    BY <1>4, <2>1, <2>2 DEF RecentSound
<1> QED
  BY <1>2, <1>7, <1>8 DEF IInv, InStep

\* The invariant holds in every reachable state.
THEOREM Invariance == Spec => []IInv
<1>1. ASSUME IInv, [Next]_vars PROVE IInv'
  <2>1. CASE SolverNull
    BY <1>1, <2>1, SolverNullStep
  <2>2. ASSUME NEW d \in Detections, SolverArmor(d) PROVE IInv'
    BY <1>1, <2>2, SolverArmorStep
  <2>3. CASE UNCHANGED vars
    BY <1>1, <2>3 DEF vars, window, IInv, TypeOK, InStep, FramesNear,
                      RecentSound, Last, Near
  <2> QED
    BY <1>1, <2>1, <2>2, <2>3 DEF Next
<1> QED
  BY <1>1, InitIInv, PTL DEF Spec

-----------------------------------------------------------------------------
\* The variables of the solver keep their types, and the window its length.
THEOREM TypeCorrect == Spec => []TypeOK
BY Invariance, PTL DEF IInv

\* The window's vectors stay in step and its frames near one another.
THEOREM WindowSound == Spec => []WindowCoherent
BY Invariance, PTL DEF IInv, WindowCoherent

\* Whether a frame is solved: it is near the frame before, unless that one
\* was dropped.
LEMMA ReportStep ==
    ASSUME IInv, NEW d \in Detections, SolverArmor(d)
    PROVE  report' = IF translations # <<>> /\ Near(Last(translations).x, d.tvec.x)
                     THEN "armor" ELSE "silent"
<1>1. AdjustOptimizedData(d)
  BY DEF SolverArmor
<1>2. /\ translations' \in Seq(Tvecs)
      /\ Len(rotations') = Len(translations')
      /\ IF translations # <<>> /\ ~Near(Last(translations).x, d.tvec.x)
         THEN translations' = <<>>
         ELSE /\ translations' # <<>> /\ Last(translations') = d.tvec
              /\ Len(translations') > 1 <=> translations # <<>>
  BY <1>1, WindowStep
<1>3. Solvable(rotations') <=>
        translations # <<>> /\ Near(Last(translations).x, d.tvec.x)
  BY <1>2 DEF Solvable
<1> QED
  BY <1>3 DEF SolverArmor, PublishArmorBapose

\* A steady target is reported by its third detection at the latest.
THEOREM SteadyReported == Spec => SteadyIsReported
<1> DEFINE Step == \A d \in Detections :
        SolverArmor(d) /\ Len(recent) = 2
            /\ Near(recent[1], recent[2]) /\ Near(recent[2], d.tvec.x)
                => report' = "armor"
<1>1. ASSUME IInv, [Next]_vars PROVE Step
  <2> SUFFICES ASSUME NEW d \in Detections, SolverArmor(d), Len(recent) = 2,
                      Near(recent[1], recent[2]), Near(recent[2], d.tvec.x)
               PROVE  report' = "armor"
    OBVIOUS
  <2>1. translations # <<>> /\ Last(recent) = Last(translations).x
    BY <1>1 DEF IInv, RecentSound
  <2>2. Last(recent) = recent[2]
    BY DEF Last
  <2> QED
    BY <1>1, <2>1, <2>2, ReportStep
<1> QED
  BY <1>1, Invariance, PTL DEF Spec, SteadyIsReported

-----------------------------------------------------------------------------
(* The solver implements SteadyReports.                                    *)

\* The abstract state of a window.
LEMMA LastPlaceIs ==
    ASSUME NEW t \in Seq(Tvecs)
    PROVE  {t[i].x : i \in {Len(t)} \ {0}} = IF t = <<>> THEN {} ELSE {Last(t).x}
<1>1. Len(t) \in Nat /\ (t = <<>> <=> Len(t) = 0)
  OBVIOUS
<1> QED
  BY <1>1 DEF Last

LEMMA ArmorRefines ==
    ASSUME IInv, NEW d \in Detections, SolverArmor(d)
    PROVE  Reports!Detect(d.tvec.x)
<1> DEFINE x == d.tvec.x
<1>1. AdjustOptimizedData(d)
  BY DEF SolverArmor
<1>2. /\ translations' \in Seq(Tvecs)
      /\ IF translations # <<>> /\ ~Near(Last(translations).x, x)
         THEN translations' = <<>>
         ELSE translations' # <<>> /\ Last(translations') = d.tvec
  BY <1>1, WindowStep
<1>3. LastPlace = IF translations = <<>> THEN {} ELSE {Last(translations).x}
  BY LastPlaceIs DEF IInv, TypeOK, LastPlace
<1>4. LastPlace' = IF translations' = <<>> THEN {} ELSE {Last(translations').x}
  BY <1>2, LastPlaceIs DEF LastPlace
<1>5. report' = IF translations # <<>> /\ Near(Last(translations).x, x)
                THEN "armor" ELSE "silent"
  BY ReportStep
<1>6. SeenPlace' = {x}
  BY RememberStep DEF SeenPlace, Last
<1>7. CASE translations = <<>>
  <2>1. Reports!First(x)
    BY <1>2, <1>3, <1>4, <1>5, <1>7 DEF Reports!First
  <2> QED
    BY <1>6, <2>1 DEF Reports!Detect
<1>8. CASE translations # <<>> /\ Near(Last(translations).x, x)
  <2>1. Reports!Near(x, Last(translations).x)
    BY <1>8 DEF Near, Reports!Near
  <2>2. Reports!Steady(x)
    BY <1>2, <1>3, <1>4, <1>5, <1>8, <2>1 DEF Reports!Steady
  <2> QED
    BY <1>6, <2>2 DEF Reports!Detect
<1>9. CASE translations # <<>> /\ ~Near(Last(translations).x, x)
  <2>1. ~Reports!Near(x, Last(translations).x)
    BY <1>9 DEF Near, Reports!Near
  <2>2. Reports!Jump(x)
    BY <1>2, <1>3, <1>4, <1>5, <1>9, <2>1 DEF Reports!Jump
  <2> QED
    BY <1>6, <2>2 DEF Reports!Detect
<1> QED
  BY <1>7, <1>8, <1>9

\* The solver implements SteadyReports.
THEOREM Refinement == Spec => ImplementsSteadyReports
<1>1. Init => Reports!Init
  BY DEF Init, Reports!Init, LastPlace, SeenPlace
<1>2. ASSUME IInv, [Next]_vars PROVE [Reports!Next]_<<SeenPlace, LastPlace, report>>
  <2>1. CASE SolverNull
    BY <2>1 DEF SolverNull, window, Reports!Next, Reports!NoArmor,
                     LastPlace, SeenPlace
  <2>2. ASSUME NEW d \in Detections, SolverArmor(d) PROVE Reports!Next
    <3>1. d.tvec.x \in Places
      BY DEF Detections, Tvecs
    <3>2. Reports!Detect(d.tvec.x)
      BY <1>2, <2>2, ArmorRefines
    <3> QED
      BY <3>1, <3>2 DEF Reports!Next
  <2>3. CASE UNCHANGED vars
    BY <2>3 DEF vars, window, LastPlace, SeenPlace
  <2> QED
    BY <1>2, <2>1, <2>2, <2>3 DEF Next
<1> QED
  BY <1>1, <1>2, Invariance, PTL DEF Spec, ImplementsSteadyReports, Reports!Spec
=============================================================================
