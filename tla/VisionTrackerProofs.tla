------------------------- MODULE VisionTrackerProofs -------------------------
(***************************************************************************)
(* Proofs about VisionTracker for every value of its constants.  The       *)
(* tracker half of the inductive invariant is TrackerInv, a predicate of a *)
(* tracker record: since a callback calls update() twice, it is proved     *)
(* once for one call (UpdateKeepsInv) and used for both.                   *)
(***************************************************************************)
EXTENDS VisionTracker, TLAPS

CountersOK(t) ==
    /\ t.state # "DETECTING" => t.det = 0
    /\ t.state # "TEMP_LOST" => t.lost = 0
    /\ t.state = "DETECTING" => t.det <= TrackingThresh
    /\ t.state = "TEMP_LOST" => t.lost >= 1

GeometryOK(t) ==
    /\ t.ekfR = t.r
    /\ t.state # "PATROL" =>
        /\ t.r \in RMin .. RMax
        /\ t.r2 \in RMin .. RMax
        /\ t.armors = ArmorsOf(t.id)
        /\ t.id = OutpostId => t.r2 = RInit

TrackerInv(t) == t \in Trackers /\ CountersOK(t) /\ GeometryOK(t)

-----------------------------------------------------------------------------
(* What the parts of update() do to a tracker record.                      *)

\* setState() changes the radius and the filter's copy together.
LEMMA SetRadiusFacts ==
    ASSUME NEW t \in Trackers, NEW r \in Int
    PROVE  LET n == SetRadius(t, r) IN
           /\ n \in Trackers
           /\ n.r = r /\ n.ekfR = r
           /\ n.state = t.state /\ n.det = t.det /\ n.lost = t.lost
           /\ n.id = t.id /\ n.armors = t.armors /\ n.r2 = t.r2
  BY DEF SetRadius, Trackers

\* A transition changes the machine and nothing of the geometry.
LEMMA MoveFacts ==
    ASSUME NEW t \in Trackers, NEW s \in States, NEW d \in Nat, NEW l \in Nat
    PROVE  LET n == Move(t, s, d, l) IN
           /\ n \in Trackers
           /\ n.state = s /\ n.det = d /\ n.lost = l
           /\ n.id = t.id /\ n.armors = t.armors
           /\ n.r = t.r /\ n.r2 = t.r2 /\ n.ekfR = t.ekfR
  BY DEF Move, Trackers

\* Prediction, correction and jump leave the machine alone and, from a sound
\* geometry, reach one whose radius only the clamp has still to bound.
LEMMA CorrectFacts ==
    ASSUME NEW t \in Trackers, NEW m \in Messages, NEW o \in Observations,
           GeometryOK(t), t.state # "PATROL"
    PROVE  LET c == Correct(t, m, o) IN
           /\ c \in Trackers
           /\ c.state = t.state /\ c.det = t.det /\ c.lost = t.lost /\ c.id = t.id
           /\ c.ekfR = c.r
           /\ c.r2 \in RMin .. RMax
           /\ c.armors = ArmorsOf(c.id)
           /\ c.id = OutpostId => c.r2 = RInit
  <1>c. PICK c : c = Correct(t, m, o)
    OBVIOUS
  <1>0. PICK a : a = [Predict(t) EXCEPT !.armors =
                         IF SameId(t, m) THEN ArmorsOf(m.id) ELSE t.armors]
    OBVIOUS
  <1>1. ArmorsOf(t.id) \in {3, 4} /\ (t.id = OutpostId <=> ArmorsOf(t.id) = 3)
    BY DEF ArmorsOf
  <1>2. (IF SameId(t, m) THEN ArmorsOf(m.id) ELSE t.armors) = ArmorsOf(t.id)
    BY DEF GeometryOK, SameId
  <1>3. a = [[t EXCEPT !.r = t.ekfR] EXCEPT !.armors = ArmorsOf(t.id)]
    BY <1>0, <1>2 DEF Predict
  <1>4. /\ a \in Trackers
        /\ a.armors = ArmorsOf(t.id) /\ a.id = t.id
        /\ a.r = t.r /\ a.ekfR = t.r /\ a.r2 = t.r2 /\ a.r \in Int
        /\ a.state = t.state /\ a.det = t.det /\ a.lost = t.lost
    BY <1>1, <1>3 DEF Trackers, GeometryOK
  <1>5. CASE Matched(t, m, o)
    <2>1. c = SetRadius(a, o.r)
      BY <1>c, <1>0, <1>5 DEF Correct, EkfUpdate
    <2>2. o.r \in Int
      BY TrackerAssumption
    <2>3. /\ c \in Trackers
          /\ c.ekfR = c.r
          /\ c.state = a.state /\ c.det = a.det /\ c.lost = a.lost
          /\ c.id = a.id /\ c.armors = a.armors /\ c.r2 = a.r2
      BY <1>4, <2>1, <2>2, SetRadiusFacts
    <2>4. QED
      BY <1>c, <1>4, <2>3 DEF GeometryOK
  <1>6. CASE ~Matched(t, m, o) /\ Jumped(t, m, o)
    <2>1. c = HandleArmorJump(a, o)
      BY <1>c, <1>0, <1>6 DEF Correct
    <2>2. CASE o.yaw > JumpYawDiff /\ a.armors = 4
      <3>1. PICK b : b = [a EXCEPT !.r2 = a.r]
        OBVIOUS
      <3>2. /\ b \in Trackers
            /\ b.r2 = a.r /\ b.armors = a.armors /\ b.id = a.id
            /\ b.state = a.state /\ b.det = a.det /\ b.lost = a.lost
        BY <1>4, <3>1 DEF Trackers
      <3>3. c = SetRadius(b, a.r2) /\ a.r2 \in Int
        BY <1>4, <2>1, <2>2, <3>1 DEF HandleArmorJump, Trackers
      <3>4. t.id # OutpostId
        BY <1>1, <1>4, <2>2
      <3>5. /\ c \in Trackers
            /\ c.ekfR = c.r
            /\ c.state = b.state /\ c.det = b.det /\ c.lost = b.lost
            /\ c.id = b.id /\ c.armors = b.armors /\ c.r2 = b.r2
        BY <3>2, <3>3, SetRadiusFacts
      <3>6. QED
        BY <1>c, <1>4, <3>2, <3>4, <3>5 DEF GeometryOK
    <2>3. CASE ~(o.yaw > JumpYawDiff /\ a.armors = 4)
      <3>1. c = SetRadius(a, a.r)
        BY <2>1, <2>3 DEF HandleArmorJump
      <3>2. /\ c \in Trackers
            /\ c.ekfR = c.r
            /\ c.state = a.state /\ c.det = a.det /\ c.lost = a.lost
            /\ c.id = a.id /\ c.armors = a.armors /\ c.r2 = a.r2
        BY <1>4, <3>1, SetRadiusFacts
      <3>3. QED
        BY <1>c, <1>4, <3>2 DEF GeometryOK
    <2>4. QED
      BY <2>2, <2>3
  <1>7. CASE ~Matched(t, m, o) /\ ~Jumped(t, m, o)
    <2>1. c = a
      BY <1>c, <1>0, <1>7 DEF Correct
    <2>2. QED
      BY <1>c, <1>4, <2>1 DEF GeometryOK
  <1>8. QED
    BY <1>5, <1>6, <1>7

\* The clamp bounds the radius, keeps the filter in step and nothing else.
LEMMA ClampFacts ==
    ASSUME NEW t \in Trackers, t.ekfR = t.r
    PROVE  LET c == ClampRadius(t) IN
           /\ c \in Trackers
           /\ c.state = t.state /\ c.det = t.det /\ c.lost = t.lost /\ c.id = t.id
           /\ c.r2 = t.r2 /\ c.armors = t.armors
           /\ c.ekfR = c.r
           /\ c.r \in RMin .. RMax
  <1>c. PICK c : c = ClampRadius(t)
    OBVIOUS
  <1>1. RMin \in Int /\ RMax \in Int /\ RMin <= RMax /\ t.r \in Int
    BY TrackerAssumption DEF Trackers
  <1>2. CASE t.r < RMin
    <2>1. c = SetRadius(t, RMin)
      BY <1>c, <1>2 DEF ClampRadius
    <2>2. QED
      BY <1>c, <1>1, <2>1, SetRadiusFacts
  <1>3. CASE ~(t.r < RMin) /\ t.r > RMax
    <2>1. c = SetRadius(t, RMax)
      BY <1>c, <1>3 DEF ClampRadius
    <2>2. QED
      BY <1>c, <1>1, <2>1, SetRadiusFacts
  <1>4. CASE ~(t.r < RMin) /\ ~(t.r > RMax)
    <2>1. c = t
      BY <1>c, <1>4 DEF ClampRadius
    <2>2. QED
      BY <1>c, <1>1, <1>4, <2>1
  <1>5. QED
    BY <1>2, <1>3, <1>4

\* How the machine answers a match.
LEMMA AdvanceMatched ==
    ASSUME NEW t \in Trackers, NEW thres \in Int
    PROVE  LET n == Advance(t, TRUE, thres) IN
           /\ n \in Trackers
           /\ n.id = t.id /\ n.armors = t.armors
           /\ n.r = t.r /\ n.r2 = t.r2 /\ n.ekfR = t.ekfR
           /\ t.state = "PATROL" => n = t
           /\ t.state = "DETECTING" =>
                IF t.det + 1 > TrackingThresh
                THEN n.state = "TRACKING" /\ n.det = 0 /\ n.lost = t.lost
                ELSE n.state = "DETECTING" /\ n.det = t.det + 1 /\ n.lost = t.lost
           /\ t.state = "TRACKING" => n = t
           /\ t.state = "TEMP_LOST" => n.state = "TRACKING" /\ n.lost = 0 /\ n.det = t.det
  <1>n. PICK n : n = Advance(t, TRUE, thres)
    OBVIOUS
  <1>0. /\ t.det \in Nat /\ t.lost \in Nat /\ t.state \in States
        /\ t.det + 1 \in Nat /\ t.lost + 1 \in Nat
    BY DEF Trackers
  <1>s. "PATROL" \in States /\ "DETECTING" \in States /\ "TRACKING" \in States
        /\ "TEMP_LOST" \in States
    BY DEF States
  <1>1. CASE t.state \in {"PATROL", "TRACKING"}
    <2>1. n = t
      BY <1>n, <1>1 DEF Advance, CountDetection, AbandonDetection, StartLoss,
         CountLoss, EndLoss
    <2>2. QED
      BY <1>n, <1>1, <2>1
  <1>2. CASE t.state = "DETECTING" /\ t.det + 1 > TrackingThresh
    <2>1. n = Move(t, "TRACKING", 0, t.lost)
      BY <1>n, <1>2 DEF Advance, CountDetection, AbandonDetection, StartLoss,
         CountLoss, EndLoss
    <2>2. /\ n \in Trackers
          /\ n.state = "TRACKING" /\ n.det = 0 /\ n.lost = t.lost
          /\ n.id = t.id /\ n.armors = t.armors
          /\ n.r = t.r /\ n.r2 = t.r2 /\ n.ekfR = t.ekfR
      BY <1>0, <1>s, <2>1 DEF Move, Trackers
    <2>3. QED
      BY <1>n, <1>2, <2>2
  <1>3. CASE t.state = "DETECTING" /\ ~(t.det + 1 > TrackingThresh)
    <2>1. n = Move(t, "DETECTING", t.det + 1, t.lost)
      BY <1>n, <1>3 DEF Advance, CountDetection, AbandonDetection, StartLoss,
         CountLoss, EndLoss
    <2>2. /\ n \in Trackers
          /\ n.state = "DETECTING" /\ n.det = t.det + 1 /\ n.lost = t.lost
          /\ n.id = t.id /\ n.armors = t.armors
          /\ n.r = t.r /\ n.r2 = t.r2 /\ n.ekfR = t.ekfR
      BY <1>0, <1>s, <2>1 DEF Move, Trackers
    <2>3. QED
      BY <1>n, <1>3, <2>2
  <1>4. CASE t.state = "TEMP_LOST"
    <2>1. n = Move(t, "TRACKING", t.det, 0)
      BY <1>n, <1>4 DEF Advance, CountDetection, AbandonDetection, StartLoss,
         CountLoss, EndLoss
    <2>2. /\ n \in Trackers
          /\ n.state = "TRACKING" /\ n.det = t.det /\ n.lost = 0
          /\ n.id = t.id /\ n.armors = t.armors
          /\ n.r = t.r /\ n.r2 = t.r2 /\ n.ekfR = t.ekfR
      BY <1>0, <1>s, <2>1 DEF Move, Trackers
    <2>3. QED
      BY <1>n, <1>4, <2>2
  <1>5. QED
    BY <1>n, <1>0, <1>1, <1>2, <1>3, <1>4 DEF States

\* How the machine answers a miss.
LEMMA AdvanceMissed ==
    ASSUME NEW t \in Trackers, NEW thres \in Int
    PROVE  LET n == Advance(t, FALSE, thres) IN
           /\ n \in Trackers
           /\ n.id = t.id /\ n.armors = t.armors
           /\ n.r = t.r /\ n.r2 = t.r2 /\ n.ekfR = t.ekfR
           /\ t.state = "PATROL" => n = t
           /\ t.state = "DETECTING" => n.state = "PATROL" /\ n.det = 0 /\ n.lost = t.lost
           /\ t.state = "TRACKING" =>
                n.state = "TEMP_LOST" /\ n.lost = t.lost + 1 /\ n.det = t.det
           /\ t.state = "TEMP_LOST" =>
                IF t.lost + 1 > thres
                THEN n.state = "PATROL" /\ n.lost = 0 /\ n.det = t.det
                ELSE n.state = "TEMP_LOST" /\ n.lost = t.lost + 1 /\ n.det = t.det
  <1>n. PICK n : n = Advance(t, FALSE, thres)
    OBVIOUS
  <1>0. /\ t.det \in Nat /\ t.lost \in Nat /\ t.state \in States
        /\ t.det + 1 \in Nat /\ t.lost + 1 \in Nat
    BY DEF Trackers
  <1>s. "PATROL" \in States /\ "DETECTING" \in States /\ "TRACKING" \in States
        /\ "TEMP_LOST" \in States
    BY DEF States
  <1>1. CASE t.state \in {"PATROL"}
    <2>1. n = t
      BY <1>n, <1>1 DEF Advance, CountDetection, AbandonDetection, StartLoss,
         CountLoss, EndLoss
    <2>2. QED
      BY <1>n, <1>1, <2>1
  <1>2. CASE t.state = "DETECTING"
    <2>1. n = Move(t, "PATROL", 0, t.lost)
      BY <1>n, <1>2 DEF Advance, CountDetection, AbandonDetection, StartLoss,
         CountLoss, EndLoss
    <2>2. /\ n \in Trackers
          /\ n.state = "PATROL" /\ n.det = 0 /\ n.lost = t.lost
          /\ n.id = t.id /\ n.armors = t.armors
          /\ n.r = t.r /\ n.r2 = t.r2 /\ n.ekfR = t.ekfR
      BY <1>0, <1>s, <2>1 DEF Move, Trackers
    <2>3. QED
      BY <1>n, <1>2, <2>2
  <1>3. CASE t.state = "TRACKING"
    <2>1. n = Move(t, "TEMP_LOST", t.det, t.lost + 1)
      BY <1>n, <1>3 DEF Advance, CountDetection, AbandonDetection, StartLoss,
         CountLoss, EndLoss
    <2>2. /\ n \in Trackers
          /\ n.state = "TEMP_LOST" /\ n.det = t.det /\ n.lost = t.lost + 1
          /\ n.id = t.id /\ n.armors = t.armors
          /\ n.r = t.r /\ n.r2 = t.r2 /\ n.ekfR = t.ekfR
      BY <1>0, <1>s, <2>1 DEF Move, Trackers
    <2>3. QED
      BY <1>n, <1>3, <2>2
  <1>4. CASE t.state = "TEMP_LOST" /\ t.lost + 1 > thres
    <2>1. n = Move(t, "PATROL", t.det, 0)
      BY <1>n, <1>4 DEF Advance, CountDetection, AbandonDetection, StartLoss,
         CountLoss, EndLoss
    <2>2. /\ n \in Trackers
          /\ n.state = "PATROL" /\ n.det = t.det /\ n.lost = 0
          /\ n.id = t.id /\ n.armors = t.armors
          /\ n.r = t.r /\ n.r2 = t.r2 /\ n.ekfR = t.ekfR
      BY <1>0, <1>s, <2>1 DEF Move, Trackers
    <2>3. QED
      BY <1>n, <1>4, <2>2
  <1>5. CASE t.state = "TEMP_LOST" /\ ~(t.lost + 1 > thres)
    <2>1. n = Move(t, "TEMP_LOST", t.det, t.lost + 1)
      BY <1>n, <1>5 DEF Advance, CountDetection, AbandonDetection, StartLoss,
         CountLoss, EndLoss
    <2>2. /\ n \in Trackers
          /\ n.state = "TEMP_LOST" /\ n.det = t.det /\ n.lost = t.lost + 1
          /\ n.id = t.id /\ n.armors = t.armors
          /\ n.r = t.r /\ n.r2 = t.r2 /\ n.ekfR = t.ekfR
      BY <1>0, <1>s, <2>1 DEF Move, Trackers
    <2>3. QED
      BY <1>n, <1>5, <2>2
  <1>6. QED
    BY <1>n, <1>0, <1>1, <1>2, <1>3, <1>4, <1>5 DEF States

-----------------------------------------------------------------------------
(* One call of update().                                                   *)

\* update() is the machine's answer to a tracker d with the same counters and
\* number as before and a sound geometry.
LEMMA UpdateSplits ==
    ASSUME NEW t, TrackerInv(t), t.state # "PATROL",
           NEW m \in Messages, NEW o \in Observations, NEW thres \in Int
    PROVE  \E d \in Trackers :
              /\ d.state = t.state /\ d.det = t.det /\ d.lost = t.lost /\ d.id = t.id
              /\ GeometryOK(d)
              /\ Matched(t, m, o) => Update(t, m, o, thres) = Advance(d, TRUE, thres)
              /\ ~Matched(t, m, o) => Update(t, m, o, thres) = Advance(d, FALSE, thres)
  <1>1. PICK c : c = Correct(t, m, o)
    OBVIOUS
  <1>2. PICK d : d = ClampRadius(c)
    OBVIOUS
  <1>3. /\ Matched(t, m, o) => Update(t, m, o, thres) = Advance(d, TRUE, thres)
        /\ ~Matched(t, m, o) => Update(t, m, o, thres) = Advance(d, FALSE, thres)
    BY <1>1, <1>2 DEF Update, Matched
  <1>4. /\ c \in Trackers
        /\ c.state = t.state /\ c.det = t.det /\ c.lost = t.lost /\ c.id = t.id
        /\ c.ekfR = c.r
        /\ c.r2 \in RMin .. RMax
        /\ c.armors = ArmorsOf(c.id)
        /\ c.id = OutpostId => c.r2 = RInit
    BY <1>1, CorrectFacts DEF TrackerInv
  <1>5. /\ d \in Trackers
        /\ d.state = c.state /\ d.det = c.det /\ d.lost = c.lost /\ d.id = c.id
        /\ d.r2 = c.r2 /\ d.armors = c.armors
        /\ d.ekfR = d.r
        /\ d.r \in RMin .. RMax
    BY <1>2, <1>4, ClampFacts
  <1>6. GeometryOK(d)
    BY <1>4, <1>5 DEF GeometryOK
  <1>7. QED
    BY <1>3, <1>4, <1>5, <1>6

\* update() keeps the tracker invariant and the tracked number.
LEMMA UpdateKeepsInv ==
    ASSUME NEW t, TrackerInv(t), t.state # "PATROL",
           NEW m \in Messages, NEW o \in Observations, NEW thres \in Int,
           NEW n, n = Update(t, m, o, thres)
    PROVE  TrackerInv(n) /\ n.id = t.id
  <1>1. PICK d \in Trackers :
              /\ d.state = t.state /\ d.det = t.det /\ d.lost = t.lost /\ d.id = t.id
              /\ GeometryOK(d)
              /\ n = Advance(d, TRUE, thres) \/ n = Advance(d, FALSE, thres)
    BY UpdateSplits
  <1>2. /\ d.state \in States /\ d.det \in Nat /\ d.lost \in Nat
        /\ TrackingThresh \in Nat /\ CountersOK(d) /\ d.state # "PATROL"
    BY <1>1, TrackerAssumption DEF Trackers, CountersOK, TrackerInv
  <1>3. CASE n = Advance(d, TRUE, thres)
    <2>1. /\ n \in Trackers
          /\ n.id = d.id /\ n.armors = d.armors
          /\ n.r = d.r /\ n.r2 = d.r2 /\ n.ekfR = d.ekfR
      BY ONLY <1>3, AdvanceMatched, d \in Trackers, thres \in Int
    <2>2. /\ d.state = "DETECTING" =>
                IF d.det + 1 > TrackingThresh
                THEN n.state = "TRACKING" /\ n.det = 0 /\ n.lost = d.lost
                ELSE n.state = "DETECTING" /\ n.det = d.det + 1 /\ n.lost = d.lost
          /\ d.state = "TRACKING" => n = d
          /\ d.state = "TEMP_LOST" => n.state = "TRACKING" /\ n.lost = 0 /\ n.det = d.det
      BY ONLY <1>3, AdvanceMatched, d \in Trackers, thres \in Int
    <2>3. CountersOK(n)
      BY <1>2, <2>2 DEF CountersOK, States
    <2>4. GeometryOK(n)
      BY <1>1, <1>2, <2>1 DEF GeometryOK
    <2>5. QED
      BY <1>1, <2>1, <2>3, <2>4 DEF TrackerInv
  <1>4. CASE n = Advance(d, FALSE, thres)
    <2>1. /\ n \in Trackers
          /\ n.id = d.id /\ n.armors = d.armors
          /\ n.r = d.r /\ n.r2 = d.r2 /\ n.ekfR = d.ekfR
      BY ONLY <1>4, AdvanceMissed, d \in Trackers, thres \in Int
    <2>2. /\ d.state = "DETECTING" => n.state = "PATROL" /\ n.det = 0 /\ n.lost = d.lost
          /\ d.state = "TRACKING" =>
                n.state = "TEMP_LOST" /\ n.lost = d.lost + 1 /\ n.det = d.det
          /\ d.state = "TEMP_LOST" =>
                IF d.lost + 1 > thres
                THEN n.state = "PATROL" /\ n.lost = 0 /\ n.det = d.det
                ELSE n.state = "TEMP_LOST" /\ n.lost = d.lost + 1 /\ n.det = d.det
      BY ONLY <1>4, AdvanceMissed, d \in Trackers, thres \in Int
    <2>3. CountersOK(n)
      BY <1>2, <2>2 DEF CountersOK, States
    <2>4. GeometryOK(n)
      BY <1>1, <1>2, <2>1 DEF GeometryOK
    <2>5. QED
      BY <1>1, <2>1, <2>3, <2>4 DEF TrackerInv
  <1>5. QED
    BY <1>1, <1>3, <1>4

\* How update() moves the machine, seen from the tracker it was called on.
LEMMA UpdateMachine ==
    ASSUME NEW t, TrackerInv(t), t.state # "PATROL",
           NEW m \in Messages, NEW o \in Observations, NEW thres \in Int,
           NEW n, n = Update(t, m, o, thres)
    PROVE  /\ Matched(t, m, o) =>
              /\ t.state = "DETECTING" =>
                    IF t.det + 1 > TrackingThresh
                    THEN n.state = "TRACKING"
                    ELSE n.state = "DETECTING" /\ n.det = t.det + 1
              /\ t.state \in {"TRACKING", "TEMP_LOST"} => n.state = "TRACKING"
           /\ ~Matched(t, m, o) =>
              /\ t.state = "DETECTING" => n.state = "PATROL"
              /\ t.state = "TRACKING" => n.state = "TEMP_LOST" /\ n.lost = t.lost + 1
              /\ t.state = "TEMP_LOST" =>
                    IF t.lost + 1 > thres
                    THEN n.state = "PATROL"
                    ELSE n.state = "TEMP_LOST" /\ n.lost = t.lost + 1
  <1>1. PICK d \in Trackers :
              /\ d.state = t.state /\ d.det = t.det /\ d.lost = t.lost
              /\ Matched(t, m, o) => n = Advance(d, TRUE, thres)
              /\ ~Matched(t, m, o) => n = Advance(d, FALSE, thres)
    BY UpdateSplits
  <1>2. CASE Matched(t, m, o)
    <2>1. n = Advance(d, TRUE, thres)
      BY <1>1, <1>2
    <2>2. /\ d.state = "DETECTING" =>
                IF d.det + 1 > TrackingThresh
                THEN n.state = "TRACKING"
                ELSE n.state = "DETECTING" /\ n.det = d.det + 1
          /\ d.state = "TRACKING" => n = d
          /\ d.state = "TEMP_LOST" => n.state = "TRACKING"
      BY ONLY <2>1, AdvanceMatched, d \in Trackers, thres \in Int
    <2>3. QED
      BY <1>1, <1>2, <2>2
  <1>3. CASE ~Matched(t, m, o)
    <2>1. n = Advance(d, FALSE, thres)
      BY <1>1, <1>3
    <2>2. /\ d.state = "DETECTING" => n.state = "PATROL"
          /\ d.state = "TRACKING" => n.state = "TEMP_LOST" /\ n.lost = d.lost + 1
          /\ d.state = "TEMP_LOST" =>
                IF d.lost + 1 > thres
                THEN n.state = "PATROL"
                ELSE n.state = "TEMP_LOST" /\ n.lost = d.lost + 1
      BY ONLY <2>1, AdvanceMissed, d \in Trackers, thres \in Int
    <2>3. QED
      BY <1>1, <1>3, <2>2
  <1>4. QED
    BY <1>2, <1>3

\* init() on a tracker in PATROL: a new target with fresh counters, or nothing.
LEMMA InitTargetFacts ==
    ASSUME NEW t, TrackerInv(t), t.state = "PATROL", NEW m \in Messages,
           NEW n, n = InitTarget(t, m)
    PROVE  /\ TrackerInv(n)
           /\ m.null => n = t
           /\ ~m.null => n.state = "DETECTING" /\ n.id = m.id /\ n.det = 0 /\ n.lost = 0
  <1>1. CASE m.null
    BY <1>1 DEF InitTarget
  <1>2. CASE ~m.null
    <2>1. PICK b : b = [t EXCEPT !.id = m.id, !.state = "DETECTING", !.armors = ArmorsOf(m.id)]
      OBVIOUS
    <2>2. PICK c : c = [b EXCEPT !.r2 = RInit]
      OBVIOUS
    <2>3. n = SetRadius(c, RInit)
      BY <1>2, <2>1, <2>2 DEF InitTarget, InitEkf
    <2>4. /\ m.id \in Ids \cup {0} /\ "DETECTING" \in States
          /\ ArmorsOf(m.id) \in {3, 4} /\ RInit \in Int
          /\ RInit \in RMin .. RMax
          /\ t \in Trackers /\ t.det = 0 /\ t.lost = 0
      BY TrackerAssumption DEF Messages, States, ArmorsOf, TrackerInv, CountersOK
    <2>5. /\ b \in Trackers
          /\ b.id = m.id /\ b.state = "DETECTING" /\ b.armors = ArmorsOf(m.id)
          /\ b.det = 0 /\ b.lost = 0
      BY <2>1, <2>4 DEF Trackers
    <2>6. /\ c \in Trackers
          /\ c.id = m.id /\ c.state = "DETECTING" /\ c.armors = ArmorsOf(m.id)
          /\ c.det = 0 /\ c.lost = 0 /\ c.r2 = RInit
      BY <2>2, <2>4, <2>5 DEF Trackers
    <2>c. c \in Trackers /\ RInit \in Int
      BY <2>4, <2>6
    <2>7. /\ n \in Trackers
          /\ n.id = c.id /\ n.state = c.state /\ n.armors = c.armors
          /\ n.det = c.det /\ n.lost = c.lost /\ n.r2 = c.r2
          /\ n.r = RInit /\ n.ekfR = RInit
      BY ONLY <2>c, <2>3, SetRadiusFacts
    <2>8. CountersOK(n)
      BY <2>6, <2>7, TrackerAssumption DEF CountersOK
    <2>9. GeometryOK(n)
      BY <2>4, <2>6, <2>7 DEF GeometryOK
    <2>10. QED
      BY <1>2, <2>6, <2>7, <2>8, <2>9 DEF TrackerInv
  <1>3. QED
    BY <1>1, <1>2

-----------------------------------------------------------------------------
(* The history of the target.                                              *)

\* How long the target has been missing, in terms of the machine.
BlindOK(t, miss) ==
    /\ t.state \in {"DETECTING", "TRACKING"} => miss = 0
    /\ t.state = "TEMP_LOST" =>
        /\ miss = t.lost
        /\ t.lost <= 1 \/ \E dt \in Gaps : t.lost <= LostThres(dt)

\* How often the target was seen: each confirming frame counted at most twice.
ConfirmedOK(t, run) ==
    /\ t.state = "DETECTING" => run >= 1 /\ t.det <= 2 * (run - 1)
    /\ t.state \in {"TRACKING", "TEMP_LOST"} => 2 * run >= TrackingThresh + 3

\* No pace allows more misses than there are ticks in LostTime.
LEMMA LostThresFacts ==
    ASSUME NEW dt \in Gaps
    PROVE  LostThres(dt) \in Int /\ LostThres(dt) <= LostTime
  <1>1. LostTime \in Nat /\ dt \in Nat /\ dt # 0
    BY NodeAssumption
  <1>2. LostTime \div dt \in Int
    BY <1>1
  <1>3. LostTime \div dt <= LostTime
    BY NodeAssumption
  <1>4. QED
    BY <1>2, <1>3 DEF LostThres

\* One update() keeps the miss counter of the history equal to lost_count_.
LEMMA BlindStep ==
    ASSUME NEW t, TrackerInv(t), t.state # "PATROL",
           NEW m \in Messages, NEW o \in Observations, NEW dt \in Gaps,
           NEW n, n = Update(t, m, o, LostThres(dt)), n.state # "PATROL",
           NEW miss, BlindOK(t, miss),
           NEW k, k = IF Matched(t, m, o) THEN 0 ELSE Capped(miss + 1, MissCap)
    PROVE  BlindOK(n, k)
  <1>1. LostThres(dt) \in Int /\ LostThres(dt) <= LostTime /\ LostTime \in Nat
    BY LostThresFacts, NodeAssumption
  <1>2. /\ t.state \in States /\ t.lost \in Nat
        /\ t.state = "TRACKING" => t.lost = 0
    BY DEF TrackerInv, Trackers, CountersOK
  <1>3. CASE Matched(t, m, o)
    <2>1. n.state \in {"DETECTING", "TRACKING"}
      BY <1>1, <1>2, <1>3, UpdateMachine DEF States
    <2>2. QED
      BY <1>3, <2>1 DEF BlindOK
  <1>4. CASE ~Matched(t, m, o)
    <2>1. k = IF miss + 1 < LostTime + 2 THEN miss + 1 ELSE LostTime + 2
      BY <1>4 DEF Capped, MissCap
    <2>2. /\ t.state = "DETECTING" => n.state = "PATROL"
          /\ t.state = "TRACKING" => n.state = "TEMP_LOST" /\ n.lost = t.lost + 1
          /\ t.state = "TEMP_LOST" =>
                IF t.lost + 1 > LostThres(dt)
                THEN n.state = "PATROL"
                ELSE n.state = "TEMP_LOST" /\ n.lost = t.lost + 1
      BY <1>1, <1>4, UpdateMachine
    <2>3. CASE t.state = "TRACKING"
      BY <1>1, <1>2, <2>1, <2>2, <2>3 DEF BlindOK
    <2>4. CASE t.state = "TEMP_LOST"
      <3>1. n.state = "TEMP_LOST" /\ n.lost = t.lost + 1 /\ t.lost + 1 <= LostThres(dt)
        BY <1>1, <1>2, <2>2, <2>4
      <3>2. miss = t.lost
        BY <2>4 DEF BlindOK
      <3>3. k = n.lost
        BY <1>1, <1>2, <2>1, <3>1, <3>2
      <3>4. QED
        BY <3>1, <3>3 DEF BlindOK
    <2>5. QED
      BY <1>2, <2>2, <2>3, <2>4 DEF States
  <1>5. QED
    BY <1>3, <1>4

\* The two updates of one frame confirm at most one frame more.
LEMMA ConfirmedStep ==
    ASSUME NEW t, TrackerInv(t), t.state # "PATROL",
           NEW m \in Messages, NEW o1 \in Observations, NEW o2 \in Observations,
           NEW thres \in Int,
           NEW t1, t1 = Update(t, m, o1, thres), t1.state # "PATROL",
           NEW n, n = Update(t1, m, o2, thres), n.state # "PATROL",
           NEW run \in 0 .. RunCap, ConfirmedOK(t, run),
           NEW k, k = IF Matched(t, m, o1) \/ Matched(t1, m, o2)
                      THEN Capped(run + 1, RunCap) ELSE run
    PROVE  k \in 0 .. RunCap /\ ConfirmedOK(n, k)
  <1>1. TrackingThresh \in Nat /\ RunCap = TrackingThresh + 2
    BY TrackerAssumption DEF RunCap
  <1>2. /\ k \in 0 .. RunCap /\ k >= run
        /\ Matched(t, m, o1) => k = IF run + 1 < RunCap THEN run + 1 ELSE RunCap
    BY <1>1 DEF Capped
  <1>3. TrackerInv(t1) /\ TrackerInv(n)
    BY UpdateKeepsInv
  <1>4. /\ t.state \in States /\ t.det \in Nat
        /\ t1.state \in States /\ t1.det \in Nat
        /\ n.state \in States /\ n.det \in Nat
    BY <1>3 DEF TrackerInv, Trackers
  <1>5. /\ t.state = "DETECTING" => t.det <= TrackingThresh
        /\ t1.state = "DETECTING" => t1.det <= TrackingThresh
    BY <1>3 DEF TrackerInv, CountersOK
  <1>6. CASE t.state = "DETECTING"
    <2>1. Matched(t, m, o1)
      BY <1>6, UpdateMachine
    <2>2. IF t.det + 1 > TrackingThresh
          THEN t1.state = "TRACKING"
          ELSE t1.state = "DETECTING" /\ t1.det = t.det + 1
      BY <1>6, <2>1, UpdateMachine
    <2>3. run >= 1 /\ t.det <= 2 * (run - 1)
      BY <1>6 DEF ConfirmedOK
    <2>4. CASE t1.state = "DETECTING"
      <3>1. IF t1.det + 1 > TrackingThresh
            THEN n.state = "TRACKING"
            ELSE n.state = "DETECTING" /\ n.det = t1.det + 1
        BY <1>3, <2>4, UpdateMachine
      <3>2. QED
        BY <1>1, <1>2, <1>4, <1>5, <2>1, <2>2, <2>3, <2>4, <3>1 DEF ConfirmedOK
    <2>5. CASE t1.state = "TRACKING"
      <3>1. n.state # "DETECTING"
        BY <1>3, <2>5, UpdateMachine
      <3>2. QED
        BY <1>1, <1>2, <1>4, <1>5, <1>6, <2>1, <2>2, <2>3, <2>5, <3>1 DEF ConfirmedOK
    <2>6. QED
      BY <2>2, <2>4, <2>5
  <1>7. CASE t.state \in {"TRACKING", "TEMP_LOST"}
    <2>1. t1.state \in {"TRACKING", "TEMP_LOST"}
      BY <1>7, UpdateMachine
    <2>2. n.state \in {"TRACKING", "TEMP_LOST"}
      BY <1>3, <2>1, UpdateMachine
    <2>3. QED
      BY <1>1, <1>2, <1>7, <2>2 DEF ConfirmedOK
  <1>8. QED
    BY <1>4, <1>6, <1>7 DEF States

-----------------------------------------------------------------------------
(* What solve() does to the control object.                                *)

SpinOK(g, s) ==
    /\ g.state = "TRACKING_ARMOR" =>
        g.overflow = s.fast /\ g.overflow <= TransferThresh
    /\ g.state = "TRACKING_CENTER" =>
        \/ g.overflow = s.slow /\ g.overflow <= TransferThresh
        \/ g.overflow = TransferThresh + 1 /\ s.slow = 0 /\ s.fast > TransferThresh

SpinRecords == [fast : 0 .. SpinCap, slow : 0 .. SpinCap]

\* The record of spins after a solve that got as far as the switch.
SpinAfter(s, w) ==
    [fast |-> IF w > MaxTrackingW THEN Capped(s.fast + 1, SpinCap) ELSE 0,
     slow |-> IF w < MaxTrackingW THEN Capped(s.slow + 1, SpinCap) ELSE 0]

LEMMA ElapseFacts ==
    ASSUME NEW g \in Controls, NEW dt \in Nat
    PROVE  LET e == Elapse(g, dt) IN
           /\ e \in Controls
           /\ e.state = g.state /\ e.overflow = g.overflow
           /\ e.sinceFire = Capped(g.sinceFire + dt, FireInterval)
  BY GimbalAssumption DEF Elapse, Controls, Capped

\* The switch: its effect on the mode and the counter, and on nothing else.
LEMMA AdvanceModeFacts ==
    ASSUME NEW g \in Controls, NEW w \in SpinSpeeds,
           NEW n, n = AdvanceMode(g, w)
    PROVE  /\ n \in Controls /\ n.sinceFire = g.sinceFire
           /\ g.state = "TRACKING_ARMOR" =>
                IF w > MaxTrackingW
                THEN /\ n.overflow = g.overflow + 1
                     /\ n.state = IF g.overflow + 1 > TransferThresh
                                  THEN "TRACKING_CENTER" ELSE "TRACKING_ARMOR"
                ELSE n.overflow = 0 /\ n.state = "TRACKING_ARMOR"
           /\ g.state = "TRACKING_CENTER" =>
                IF w < MaxTrackingW
                THEN IF g.overflow + 1 > TransferThresh
                     THEN n.overflow = 0 /\ n.state = "TRACKING_ARMOR"
                     ELSE n.overflow = g.overflow + 1 /\ n.state = "TRACKING_CENTER"
                ELSE n.overflow = 0 /\ n.state = "TRACKING_CENTER"
  <1>1. /\ TransferThresh \in Nat /\ MaxTrackingW \in Nat /\ w \in Nat
        /\ g.overflow \in Nat /\ g.state \in Modes
    BY GimbalAssumption DEF Controls
  <1>2. CASE g.state = "TRACKING_ARMOR"
    <2>1. PICK c : c = IF w > MaxTrackingW THEN g.overflow + 1 ELSE 0
      OBVIOUS
    <2>2. PICK st : st = IF c > TransferThresh THEN "TRACKING_CENTER" ELSE "TRACKING_ARMOR"
      OBVIOUS
    <2>3. n = [g EXCEPT !.overflow = c, !.state = st]
      BY <1>2, <2>1, <2>2 DEF AdvanceMode
    <2>4. c \in Nat /\ st \in Modes
      BY <1>1, <2>1, <2>2 DEF Modes
    <2>5. n \in Controls /\ n.sinceFire = g.sinceFire /\ n.overflow = c /\ n.state = st
      BY <2>3, <2>4 DEF Controls
    <2>6. QED
      BY <1>1, <1>2, <2>1, <2>2, <2>5
  <1>3. CASE g.state = "TRACKING_CENTER"
    <2>1. PICK c : c = IF w < MaxTrackingW THEN g.overflow + 1 ELSE 0
      OBVIOUS
    <2>2. PICK d : d = IF c > TransferThresh THEN 0 ELSE c
      OBVIOUS
    <2>3. PICK st : st = IF c > TransferThresh THEN "TRACKING_ARMOR" ELSE "TRACKING_CENTER"
      OBVIOUS
    <2>4. n = [g EXCEPT !.overflow = d, !.state = st]
      BY <1>3, <2>1, <2>2, <2>3 DEF AdvanceMode
    <2>5. c \in Nat /\ d \in Nat /\ st \in Modes
      BY <1>1, <2>1, <2>2, <2>3 DEF Modes
    <2>6. n \in Controls /\ n.sinceFire = g.sinceFire /\ n.overflow = d /\ n.state = st
      BY <2>4, <2>5 DEF Controls
    <2>7. QED
      BY <1>1, <1>3, <2>1, <2>2, <2>3, <2>6
  <1>4. QED
    BY <1>1, <1>2, <1>3 DEF Modes

\* overflow_count_ keeps counting what the record of spins counts.
LEMMA SpinStep ==
    ASSUME NEW g \in Controls, NEW s \in SpinRecords, SpinOK(g, s),
           NEW w \in SpinSpeeds,
           NEW n, n = AdvanceMode(g, w), NEW k, k = SpinAfter(s, w)
    PROVE  /\ k \in SpinRecords
           /\ SpinOK(n, k)
           /\ g.state = "TRACKING_ARMOR" /\ n.state = "TRACKING_CENTER" =>
                k.fast > TransferThresh
           /\ g.state = "TRACKING_CENTER" /\ n.state = "TRACKING_ARMOR" =>
                \/ k.slow > TransferThresh
                \/ k.slow = 1 /\ s.fast > TransferThresh
  <1>1. /\ TransferThresh \in Nat /\ MaxTrackingW \in Nat /\ w \in Nat
        /\ SpinCap = TransferThresh + 1
        /\ g.overflow \in Nat /\ g.state \in Modes
        /\ s.fast \in 0 .. SpinCap /\ s.slow \in 0 .. SpinCap
    BY GimbalAssumption DEF SpinCap, Controls, SpinRecords
  <1>2. /\ w > MaxTrackingW => k.fast = Capped(s.fast + 1, SpinCap) /\ k.slow = 0
        /\ w < MaxTrackingW => k.slow = Capped(s.slow + 1, SpinCap) /\ k.fast = 0
        /\ w = MaxTrackingW => k.fast = 0 /\ k.slow = 0
    BY <1>1 DEF SpinAfter
  <1>3. k \in SpinRecords
    BY <1>1 DEF SpinAfter, SpinRecords, Capped
  <1>4. CASE g.state = "TRACKING_ARMOR"
    <2>1. IF w > MaxTrackingW
          THEN /\ n.overflow = g.overflow + 1
               /\ n.state = IF g.overflow + 1 > TransferThresh
                            THEN "TRACKING_CENTER" ELSE "TRACKING_ARMOR"
          ELSE n.overflow = 0 /\ n.state = "TRACKING_ARMOR"
      BY <1>4, AdvanceModeFacts
    <2>2. QED
      BY <1>1, <1>2, <1>3, <1>4, <2>1 DEF SpinOK, Capped
  <1>5. CASE g.state = "TRACKING_CENTER"
    <2>1. IF w < MaxTrackingW
          THEN IF g.overflow + 1 > TransferThresh
               THEN n.overflow = 0 /\ n.state = "TRACKING_ARMOR"
               ELSE n.overflow = g.overflow + 1 /\ n.state = "TRACKING_CENTER"
          ELSE n.overflow = 0 /\ n.state = "TRACKING_CENTER"
      BY <1>5, AdvanceModeFacts
    <2>2. QED
      BY <1>1, <1>2, <1>3, <1>5, <2>1 DEF SpinOK, Capped
  <1>6. QED
    BY <1>1, <1>4, <1>5 DEF Modes

\* solve(): the mode is advanced unless it threw early, and the fire clock
\* restarts exactly when the command fires.
LEMMA SolveFacts ==
    ASSUME NEW g \in Controls, NEW a \in Aims, NEW n, n = Solve(g, a)
    PROVE  /\ n \in Controls
           /\ a.fail = "early" => n = g
           /\ a.fail # "early" => /\ n.state = AdvanceMode(g, a.w).state
                                  /\ n.overflow = AdvanceMode(g, a.w).overflow
           /\ Fires(g, a) => n.sinceFire = 0 /\ g.sinceFire >= FireInterval
           /\ ~Fires(g, a) => n.sinceFire = g.sinceFire
  <1>1. PICK k : k = AdvanceMode(g, a.w)
    OBVIOUS
  <1>2. k \in Controls /\ k.sinceFire = g.sinceFire
    BY <1>1, AdvanceModeFacts DEF Aims
  <1>3. CASE a.fail = "early"
    BY <1>3 DEF Solve, Fires
  <1>4. CASE a.fail = "late"
    <2>1. n = k
      BY <1>1, <1>4 DEF Solve
    <2>2. QED
      BY <1>1, <1>2, <1>4, <2>1 DEF Fires
  <1>5. CASE a.fail \notin {"early", "late"}
    <2>1. n = [k EXCEPT !.sinceFire = IF Fires(g, a) THEN 0 ELSE g.sinceFire]
      BY <1>1, <1>5 DEF Solve
    <2>2. FireInterval \in Nat /\ g.sinceFire \in 0 .. FireInterval
      BY GimbalAssumption DEF Controls
    <2>3. Fires(g, a) => g.sinceFire >= FireInterval
      BY DEF Fires
    <2>4. QED
      BY <1>1, <1>2, <1>5, <2>1, <2>2, <2>3 DEF Controls
  <1>6. QED
    BY <1>3, <1>4, <1>5

-----------------------------------------------------------------------------
(* The inductive invariant: what is known of the target, of the gun, and    *)
(* that nothing is fired without a target.                                  *)

HistoryRecords == [run : 0 .. RunCap, miss : 0 .. MissCap, seen : BOOLEAN]

TargetInv ==
    /\ TrackerInv(trk)
    /\ trk.state # "PATROL" => trk.id \in Ids
    /\ hist \in HistoryRecords
    /\ BlindOK(trk, hist.miss)
    /\ ConfirmedOK(trk, hist.run)

GunInv ==
    /\ gc \in Controls
    /\ shots \in [since : 0 .. FireInterval, gap : 0 .. FireInterval]
    /\ spins \in SpinRecords
    /\ FireSpaced
    /\ gc.sinceFire <= shots.since
    /\ SpinOK(gc, spins)

Commands == [tracking : BOOLEAN, find : BOOLEAN, fire : BOOLEAN]

CommandInv == out \in Commands /\ (~Followed => out = Idle)

IInv == TargetInv /\ GunInv /\ CommandInv

LEMMA ViewsFacts ==
    ASSUME NEW t, NEW m
    PROVE  Views(t, m) \subseteq Observations
  <1>1. PICK o : o = CHOOSE x \in Observations : TRUE
    OBVIOUS
  <1>2. o \in Observations
    BY <1>1, NodeAssumption
  <1>3. QED
    BY <1>1, <1>2 DEF Views

\* Adopting an armor, on a tracker that update() may just have given up.
LEMMA AdoptKeepsTarget ==
    ASSUME NEW t, TrackerInv(t), t.state = "PATROL", NEW m \in Messages,
           NEW n, n = InitTarget(t, m), NEW h, h = Adopt(m)
    PROVE  /\ TrackerInv(n) /\ h \in HistoryRecords
           /\ BlindOK(n, h.miss) /\ ConfirmedOK(n, h.run)
           /\ n.state \in {"PATROL", "DETECTING"}
           /\ n.state = "DETECTING" => n.id \in Ids /\ n.det = 0
           /\ n.state = "PATROL" => n.id = t.id
  <1>1. /\ TrackerInv(n)
        /\ m.null => n = t
        /\ ~m.null => n.state = "DETECTING" /\ n.id = m.id /\ n.det = 0 /\ n.lost = 0
    BY InitTargetFacts
  <1>2. RunCap \in Nat /\ RunCap >= 1 /\ MissCap \in Nat
    BY TrackerAssumption, NodeAssumption DEF RunCap, MissCap
  <1>3. CASE m.null
    <2>1. h = NoHistory /\ n.state = "PATROL" /\ n.id = t.id
      BY <1>1, <1>3 DEF Adopt
    <2>2. QED
      BY <1>1, <1>2, <2>1 DEF NoHistory, HistoryRecords, BlindOK, ConfirmedOK
  <1>4. CASE ~m.null
    <2>1. h = Acquired
      BY <1>4 DEF Adopt
    <2>2. m.id \in Ids
      BY DEF Messages
    <2>3. QED
      BY <1>1, <1>2, <1>4, <2>1, <2>2 DEF Acquired, HistoryRecords, BlindOK, ConfirmedOK
  <1>5. QED
    BY <1>3, <1>4

\* The zero command leaves the gun's bookkeeping sound.
LEMMA IdleKeepsGun ==
    ASSUME GunInv, NEW dt \in Gaps, PublishIdle(dt)
    PROVE  GunInv' /\ gc'.state = gc.state
  <1>1. FireInterval \in Nat /\ dt \in Nat
    BY GimbalAssumption, NodeAssumption
  <1>2. /\ gc' \in Controls
        /\ gc'.state = gc.state /\ gc'.overflow = gc.overflow
        /\ gc'.sinceFire = Capped(gc.sinceFire + dt, FireInterval)
    BY <1>1, ElapseFacts DEF PublishIdle, GunInv
  <1>3. shots' = [shots EXCEPT !.since = Capped(shots.since + dt, FireInterval)]
    BY DEF PublishIdle, RecordShot
  <1>4. /\ shots.since \in 0 .. FireInterval /\ shots.gap \in 0 .. FireInterval
        /\ gc.sinceFire \in 0 .. FireInterval /\ gc.sinceFire <= shots.since
        /\ shots.gap >= FireInterval
    BY DEF GunInv, Controls, FireSpaced
  <1>5. Capped(shots.since + dt, FireInterval) \in 0 .. FireInterval
    BY <1>1, <1>4 DEF Capped
  <1>6. /\ shots' \in [since : 0 .. FireInterval, gap : 0 .. FireInterval]
        /\ shots'.gap = shots.gap
        /\ shots'.since = Capped(shots.since + dt, FireInterval)
    BY <1>3, <1>5 DEF GunInv
  <1>7. gc'.sinceFire <= shots'.since
    BY <1>1, <1>2, <1>4, <1>6 DEF Capped
  <1>8. spins' = spins
    BY DEF PublishIdle
  <1>9. SpinOK(gc', spins')
    BY <1>2, <1>8 DEF GunInv, SpinOK
  <1>10. QED
    BY <1>2, <1>4, <1>6, <1>7, <1>8, <1>9 DEF GunInv, FireSpaced

\* So does a solve, whether it fires, holds fire or throws.
LEMMA SolveKeepsGun ==
    ASSUME GunInv, NEW dt \in Gaps, NEW a \in Aims,
           NEW g, g = Elapse(gc, dt),
           gc' = Solve(g, a), RecordSpin(a),
           NEW f \in BOOLEAN, f <=> Fires(g, a), RecordShot(dt, f)
    PROVE  /\ GunInv'
           /\ gc.state = "TRACKING_ARMOR" /\ gc'.state = "TRACKING_CENTER" =>
                spins'.fast > TransferThresh
           /\ gc.state = "TRACKING_CENTER" /\ gc'.state = "TRACKING_ARMOR" =>
                \/ spins'.slow > TransferThresh
                \/ spins'.slow = 1 /\ spins.fast > TransferThresh
  <1>1. FireInterval \in Nat /\ dt \in Nat
    BY GimbalAssumption, NodeAssumption
  <1>2. /\ g \in Controls
        /\ g.state = gc.state /\ g.overflow = gc.overflow
        /\ g.sinceFire = Capped(gc.sinceFire + dt, FireInterval)
    BY <1>1, ElapseFacts DEF GunInv
  <1>3. /\ gc' \in Controls
        /\ a.fail = "early" => gc' = g
        /\ a.fail # "early" => /\ gc'.state = AdvanceMode(g, a.w).state
                               /\ gc'.overflow = AdvanceMode(g, a.w).overflow
        /\ Fires(g, a) => gc'.sinceFire = 0 /\ g.sinceFire >= FireInterval
        /\ ~Fires(g, a) => gc'.sinceFire = g.sinceFire
    BY <1>2, SolveFacts
  <1>4. /\ shots.since \in 0 .. FireInterval /\ shots.gap \in 0 .. FireInterval
        /\ gc.sinceFire \in 0 .. FireInterval /\ gc.sinceFire <= shots.since
        /\ shots.gap >= FireInterval
        /\ shots \in [since : 0 .. FireInterval, gap : 0 .. FireInterval]
    BY DEF GunInv, Controls, FireSpaced
  <1>5. /\ Capped(shots.since + dt, FireInterval) \in 0 .. FireInterval
        /\ Capped(gc.sinceFire + dt, FireInterval) <= Capped(shots.since + dt, FireInterval)
    BY <1>1, <1>4 DEF Capped
  <1>6. /\ shots' \in [since : 0 .. FireInterval, gap : 0 .. FireInterval]
        /\ shots'.gap >= FireInterval
        /\ gc'.sinceFire <= shots'.since
    <2>1. CASE f
      <3>1. shots' = [since |-> 0, gap |-> Capped(shots.since + dt, FireInterval)]
        BY <2>1 DEF RecordShot
      <3>2. gc'.sinceFire = 0 /\ Capped(shots.since + dt, FireInterval) >= FireInterval
        BY <1>1, <1>2, <1>3, <1>5, <2>1 DEF Controls
      <3>3. QED
        BY <1>1, <1>5, <3>1, <3>2
    <2>2. CASE ~f
      <3>1. shots' = [shots EXCEPT !.since = Capped(shots.since + dt, FireInterval)]
        BY <2>2 DEF RecordShot
      <3>2. gc'.sinceFire = Capped(gc.sinceFire + dt, FireInterval)
        BY <1>2, <1>3, <2>2
      <3>3. QED
        BY <1>4, <1>5, <3>1, <3>2
    <2>3. QED
      BY <2>1, <2>2
  <1>7. SpinOK(g, spins) /\ spins \in SpinRecords
    BY <1>2 DEF GunInv, SpinOK
  <1>8. /\ spins' \in SpinRecords /\ SpinOK(gc', spins')
        /\ g.state = "TRACKING_ARMOR" /\ gc'.state = "TRACKING_CENTER" =>
                spins'.fast > TransferThresh
        /\ g.state = "TRACKING_CENTER" /\ gc'.state = "TRACKING_ARMOR" =>
                \/ spins'.slow > TransferThresh
                \/ spins'.slow = 1 /\ spins.fast > TransferThresh
    <2>1. CASE a.fail = "early"
      BY <1>3, <1>7, <2>1 DEF RecordSpin
    <2>2. CASE a.fail # "early"
      <3>1. spins' = SpinAfter(spins, a.w) /\ a.w \in SpinSpeeds
        BY <2>2 DEF RecordSpin, SpinAfter, Aims
      <3>2. PICK n : n = AdvanceMode(g, a.w)
        OBVIOUS
      <3>3. /\ spins' \in SpinRecords /\ SpinOK(n, spins')
            /\ g.state = "TRACKING_ARMOR" /\ n.state = "TRACKING_CENTER" =>
                    spins'.fast > TransferThresh
            /\ g.state = "TRACKING_CENTER" /\ n.state = "TRACKING_ARMOR" =>
                    \/ spins'.slow > TransferThresh
                    \/ spins'.slow = 1 /\ spins.fast > TransferThresh
        BY <1>2, <1>7, <3>1, <3>2, SpinStep
      <3>4. gc'.state = n.state /\ gc'.overflow = n.overflow
        BY <1>3, <2>2, <3>2
      <3>5. QED
        BY <3>3, <3>4 DEF SpinOK
    <2>3. QED
      BY <2>1, <2>2
  <1>9. QED
    BY <1>2, <1>3, <1>6, <1>8 DEF GunInv, FireSpaced

\* A frame whose two updates both ran.
LEMMA UpdateTwiceKeepsTarget ==
    ASSUME TargetInv, NEW m \in Messages, NEW dt \in Gaps, NEW o \in Views(trk, m),
           UpdateTwice(m, dt, o)
    PROVE  TargetInv' /\ trk'.id = trk.id /\ trk.state # "PATROL"
  <1>1. PICK t1 : t1 = Update(trk, m, o, LostThres(dt))
    OBVIOUS
  <1>2. /\ trk.state # "PATROL" /\ t1.state # "PATROL"
        /\ \E o2 \in Views(t1, m) :
            /\ trk' = Update(t1, m, o2, LostThres(dt))
            /\ hist' = IF trk'.state = "PATROL" THEN NoHistory
                       ELSE Follow(hist, Matched(trk, m, o), Matched(t1, m, o2))
    BY <1>1 DEF UpdateTwice
  <1>3. PICK o2 \in Views(t1, m) :
            /\ trk' = Update(t1, m, o2, LostThres(dt))
            /\ hist' = IF trk'.state = "PATROL" THEN NoHistory
                       ELSE Follow(hist, Matched(trk, m, o), Matched(t1, m, o2))
    BY <1>2
  <1>4. o \in Observations /\ o2 \in Observations /\ LostThres(dt) \in Int
    BY ViewsFacts, LostThresFacts
  <1>5. /\ TrackerInv(trk) /\ hist \in HistoryRecords
        /\ BlindOK(trk, hist.miss) /\ ConfirmedOK(trk, hist.run)
    BY DEF TargetInv
  <1>6. TrackerInv(t1) /\ t1.id = trk.id
    BY <1>1, <1>2, <1>4, <1>5, UpdateKeepsInv
  <1>7. TrackerInv(trk') /\ trk'.id = trk.id
    BY <1>2, <1>3, <1>4, <1>6, UpdateKeepsInv
  <1>8. RunCap \in Nat /\ MissCap \in Nat
    BY TrackerAssumption, NodeAssumption DEF RunCap, MissCap
  <1>9. CASE trk'.state = "PATROL"
    <2>1. hist' = NoHistory
      BY <1>3, <1>9
    <2>2. QED
      BY <1>2, <1>7, <1>8, <1>9, <2>1
      DEF TargetInv, NoHistory, HistoryRecords, BlindOK, ConfirmedOK
  <1>10. CASE trk'.state # "PATROL"
    <2>1. PICK k1 : k1 = IF Matched(trk, m, o) THEN 0 ELSE Capped(hist.miss + 1, MissCap)
      OBVIOUS
    <2>2. PICK k2 : k2 = IF Matched(t1, m, o2) THEN 0 ELSE Capped(k1 + 1, MissCap)
      OBVIOUS
    <2>3. PICK run : run = IF Matched(trk, m, o) \/ Matched(t1, m, o2)
                           THEN Capped(hist.run + 1, RunCap) ELSE hist.run
      OBVIOUS
    <2>4. BlindOK(t1, k1)
      BY <1>1, <1>2, <1>4, <1>5, <2>1, BlindStep
    <2>5. BlindOK(trk', k2)
      BY <1>2, <1>3, <1>4, <1>6, <1>10, <2>2, <2>4, BlindStep
    <2>6. run \in 0 .. RunCap /\ ConfirmedOK(trk', run)
      <3>1. hist.run \in 0 .. RunCap
        BY <1>5 DEF HistoryRecords
      <3>2. QED
        BY <1>1, <1>2, <1>3, <1>4, <1>5, <1>10, <2>3, <3>1, ConfirmedStep
    <2>7. k1 \in 0 .. MissCap /\ k2 \in 0 .. MissCap
      <3>1. hist.miss \in 0 .. MissCap
        BY <1>5 DEF HistoryRecords
      <3>2. QED
        BY <1>8, <2>1, <2>2, <3>1 DEF Capped
    <2>8. hist' = [run |-> run, miss |-> k2,
                   seen |-> Matched(trk, m, o) \/ Matched(t1, m, o2)]
      BY <1>3, <1>10, <2>1, <2>2, <2>3 DEF Follow
    <2>9. hist'.run = run /\ hist'.miss = k2
      BY <2>8
    <2>10. Matched(trk, m, o) \/ Matched(t1, m, o2) \in BOOLEAN
      BY DEF Matched, SameId
    <2>11. hist' \in HistoryRecords
      BY <2>6, <2>7, <2>8, <2>10 DEF HistoryRecords
    <2>12. QED
      BY <1>2, <1>7, <2>5, <2>6, <2>9, <2>11 DEF TargetInv
  <1>11. QED
    BY <1>2, <1>7, <1>9, <1>10

-----------------------------------------------------------------------------
(* The callback.  Whatever it does, it ends in one of three ways.           *)

Adopts == trk'.state = "DETECTING" /\ (trk'.id # trk.id => trk'.det = 0) /\ out' = Idle
GivesUp == trk'.state = "PATROL" /\ trk'.id = trk.id /\ out' = Idle
Keeps == Followed' /\ trk'.id = trk.id /\ trk.state # "PATROL"

SwitchOK ==
    /\ gc.state = "TRACKING_ARMOR" /\ gc'.state = "TRACKING_CENTER" =>
            spins'.fast > TransferThresh
    /\ gc.state = "TRACKING_CENTER" /\ gc'.state = "TRACKING_ARMOR" =>
            \/ spins'.slow > TransferThresh
            \/ spins'.slow = 1 /\ spins.fast > TransferThresh

IdentityOK ==
    trk'.id # trk.id =>
        /\ trk'.state = "DETECTING"
        /\ trk'.det = 0
        /\ ~out'.tracking

\* No target is followed at the end of the callback.
LEMMA IdleStep ==
    ASSUME IInv, TargetInv', NEW dt \in Gaps, PublishIdle(dt),
           trk'.state \in {"PATROL", "DETECTING"},
           trk'.id # trk.id => trk'.state = "DETECTING" /\ trk'.det = 0
    PROVE  IInv' /\ SwitchOK /\ (Adopts \/ GivesUp)
  <1>1. GunInv' /\ gc'.state = gc.state
    BY IdleKeepsGun DEF IInv
  <1>2. out' = Idle /\ Idle \in Commands
    BY DEF PublishIdle, Idle, Commands
  <1>3. CommandInv'
    BY <1>2 DEF CommandInv
  <1>4. SwitchOK
    BY <1>1 DEF SwitchOK
  <1>5. Adopts \/ GivesUp
    BY <1>2 DEF Adopts, GivesUp
  <1>6. QED
    BY <1>1, <1>3, <1>4, <1>5 DEF IInv

LEMMA AcquireStep ==
    ASSUME IInv, NEW m \in Messages, NEW dt \in Gaps, Acquire(m, dt)
    PROVE  IInv' /\ SwitchOK /\ (Adopts \/ GivesUp)
  <1>1. /\ TrackerInv(trk) /\ trk.state = "PATROL"
        /\ trk' = InitTarget(trk, m) /\ hist' = Adopt(m) /\ PublishIdle(dt)
    BY DEF Acquire, IInv, TargetInv
  <1>2. /\ TrackerInv(trk') /\ hist' \in HistoryRecords
        /\ BlindOK(trk', hist'.miss) /\ ConfirmedOK(trk', hist'.run)
        /\ trk'.state \in {"PATROL", "DETECTING"}
        /\ trk'.state = "DETECTING" => trk'.id \in Ids /\ trk'.det = 0
        /\ trk'.state = "PATROL" => trk'.id = trk.id
    BY <1>1, AdoptKeepsTarget
  <1>3. TargetInv'
    BY <1>2 DEF TargetInv
  <1>4. QED
    BY <1>1, <1>2, <1>3, IdleStep

LEMMA ReacquireStep ==
    ASSUME IInv, NEW m \in Messages, NEW dt \in Gaps, NEW o \in Views(trk, m),
           Reacquire(m, dt, o)
    PROVE  IInv' /\ SwitchOK /\ (Adopts \/ GivesUp)
  <1>1. PICK t : t = Update(trk, m, o, LostThres(dt))
    OBVIOUS
  <1>2. /\ TrackerInv(trk) /\ trk.state # "PATROL" /\ t.state = "PATROL"
        /\ trk' = InitTarget(t, m) /\ hist' = Adopt(m) /\ PublishIdle(dt)
    BY <1>1 DEF Reacquire, IInv, TargetInv
  <1>3. TrackerInv(t) /\ t.id = trk.id
    <2>1. o \in Observations /\ LostThres(dt) \in Int
      BY ViewsFacts, LostThresFacts
    <2>2. QED
      BY <1>1, <1>2, <2>1, UpdateKeepsInv
  <1>4. /\ TrackerInv(trk') /\ hist' \in HistoryRecords
        /\ BlindOK(trk', hist'.miss) /\ ConfirmedOK(trk', hist'.run)
        /\ trk'.state \in {"PATROL", "DETECTING"}
        /\ trk'.state = "DETECTING" => trk'.id \in Ids /\ trk'.det = 0
        /\ trk'.state = "PATROL" => trk'.id = t.id
    BY <1>2, <1>3, AdoptKeepsTarget
  <1>5. TargetInv'
    BY <1>4 DEF TargetInv
  <1>6. QED
    BY <1>2, <1>3, <1>4, <1>5, IdleStep

LEMMA DetectStep ==
    ASSUME IInv, NEW m \in Messages, NEW dt \in Gaps, NEW o \in Views(trk, m),
           Detect(m, dt, o)
    PROVE  IInv' /\ SwitchOK /\ (Adopts \/ GivesUp)
  <1>1. /\ UpdateTwice(m, dt, o) /\ PublishIdle(dt)
        /\ trk'.state \in {"PATROL", "DETECTING"}
    BY DEF Detect
  <1>2. TargetInv' /\ trk'.id = trk.id
    BY <1>1, UpdateTwiceKeepsTarget DEF IInv
  <1>3. QED
    BY <1>1, <1>2, IdleStep

LEMMA EngageStep ==
    ASSUME IInv, NEW m \in Messages, NEW dt \in Gaps, NEW o \in Views(trk, m),
           Engage(m, dt, o)
    PROVE  IInv' /\ SwitchOK /\ Keeps
  <1>1. /\ UpdateTwice(m, dt, o)
        /\ trk'.state \in {"TRACKING", "TEMP_LOST"}
        /\ RecordShot(dt, out'.fire)
    BY DEF Engage
  <1>2. TargetInv' /\ trk'.id = trk.id /\ trk.state # "PATROL"
    BY <1>1, UpdateTwiceKeepsTarget DEF IInv
  <1>3. PICK g : g = Elapse(gc, dt)
    OBVIOUS
  <1>4. PICK a \in Aims :
            /\ gc' = Solve(g, a)
            /\ out' = [tracking |-> TRUE, find |-> a.fail = "none", fire |-> Fires(g, a)]
            /\ RecordSpin(a)
    BY <1>3 DEF Engage
  <1>5. Fires(g, a) \in BOOLEAN /\ (a.fail = "none") \in BOOLEAN
    BY Zenon DEF Fires
  <1>6. out'.fire = Fires(g, a) /\ out' \in Commands
    BY <1>4, <1>5, Zenon DEF Commands
  <1>7. GunInv' /\ SwitchOK
    BY <1>1, <1>3, <1>4, <1>5, <1>6, SolveKeepsGun DEF IInv, SwitchOK
  <1>8. Followed'
    BY <1>1 DEF Followed
  <1>9. CommandInv'
    BY <1>6, <1>8 DEF CommandInv
  <1>10. QED
    BY <1>2, <1>7, <1>8, <1>9 DEF IInv, Keeps

LEMMA NextStep ==
    ASSUME IInv, Next
    PROVE  IInv' /\ SwitchOK /\ (Adopts \/ GivesUp \/ Keeps)
  <1>1. PICK m \in Messages, dt \in Gaps : SolverCallback(m, dt)
    BY DEF Next
  <1>2. CASE Acquire(m, dt)
    BY <1>2, AcquireStep
  <1>3. ASSUME NEW o \in Views(trk, m), Reacquire(m, dt, o)
        PROVE  IInv' /\ SwitchOK /\ (Adopts \/ GivesUp \/ Keeps)
    BY <1>3, ReacquireStep
  <1>4. ASSUME NEW o \in Views(trk, m), Detect(m, dt, o)
        PROVE  IInv' /\ SwitchOK /\ (Adopts \/ GivesUp \/ Keeps)
    BY <1>4, DetectStep
  <1>5. ASSUME NEW o \in Views(trk, m), Engage(m, dt, o)
        PROVE  IInv' /\ SwitchOK /\ (Adopts \/ GivesUp \/ Keeps)
    BY <1>5, EngageStep
  <1>6. QED
    BY <1>1, <1>2, <1>3, <1>4, <1>5 DEF SolverCallback

LEMMA InitInv ==
    ASSUME Init
    PROVE  IInv
  <1>1. /\ trk = NewTracker /\ gc = NewControl /\ out = Idle /\ hist = NoHistory
        /\ shots = [since |-> FireInterval, gap |-> FireInterval]
        /\ spins = [fast |-> 0, slow |-> 0]
    BY DEF Init
  <1>2. /\ TrackingThresh \in Nat /\ LostTime \in Nat /\ FireInterval \in Nat
        /\ TransferThresh \in Nat
    BY TrackerAssumption, NodeAssumption, GimbalAssumption
  <1>3. TargetInv
    BY <1>1, <1>2 DEF TargetInv, TrackerInv, NewTracker, Trackers, States, CountersOK,
       GeometryOK, NoHistory, HistoryRecords, BlindOK, ConfirmedOK, RunCap, MissCap
  <1>4. GunInv
    BY <1>1, <1>2 DEF GunInv, NewControl, Controls, Modes, SpinRecords, SpinCap, SpinOK,
       FireSpaced
  <1>5. CommandInv
    BY <1>1 DEF CommandInv, Commands, Idle
  <1>6. QED
    BY <1>3, <1>4, <1>5 DEF IInv

\* The invariant all the theorems below rest on.
THEOREM Invariance == Spec => []IInv
  <1>1. Init => IInv
    BY InitInv
  <1>2. IInv /\ [Next]_vars => IInv'
    <2>1. ASSUME IInv, UNCHANGED vars
          PROVE  IInv'
      BY <2>1 DEF vars, IInv, TargetInv, GunInv, CommandInv, FireSpaced, Followed
    <2>2. QED
      BY <2>1, NextStep
  <1>3. QED
    BY <1>1, <1>2, PTL DEF Spec

-----------------------------------------------------------------------------
(* The theorems.                                                            *)

\* Every record of the node, and of its history, keeps its type.
THEOREM TypeCorrect == Spec => []TypeOK
  <1>1. IInv => TypeOK
    BY DEF IInv, TargetInv, GunInv, CommandInv, TrackerInv, TypeOK,
       HistoryRecords, SpinRecords, Commands
  <1>2. QED
    BY <1>1, Invariance, PTL

\* No path through the two calls of update(), init() and the state machine
\* leaves detection_count_ or lost_count_ behind for the next target or loss.
THEOREM CountersAreFresh == Spec => []CountersMatchState
  <1>1. IInv => CountersMatchState
    BY DEF IInv, TargetInv, TrackerInv, CountersOK, CountersMatchState
  <1>2. QED
    BY <1>1, Invariance, PTL

\* The two radii stay within the bounds of the clamp, jumps included, the
\* filter's copy of the radius is the tracker's, and an outpost keeps one radius.
THEOREM GeometrySound == Spec => []GeometryKept
  <1>1. IInv => GeometryKept
    BY DEF IInv, TargetInv, TrackerInv, GeometryOK, GeometryKept, RadiiBounded,
       FilterInSync, OutpostOneRadius
  <1>2. QED
    BY <1>1, Invariance, PTL

\* No target is followed before TrackingThresh + 3 updates' worth of frames,
\* counting two for each, showed it.
THEOREM ConfirmedBeforeTracked == Spec => []TrackedIsConfirmed
  <1>1. IInv => TrackedIsConfirmed
    BY DEF IInv, TargetInv, ConfirmedOK, TrackedIsConfirmed, Followed
  <1>2. QED
    BY <1>1, Invariance, PTL

\* A prediction is followed no longer than lost_thres updates.
THEOREM BlindnessIsBounded == Spec => []BlindBounded
  <1>1. IInv => BlindBounded
    BY DEF IInv, TargetInv, BlindOK, BlindBounded
  <1>2. QED
    BY <1>1, Invariance, PTL

\* Fire commands are at least FireInterval apart.
THEOREM FireIsRationed == Spec => []FireSpaced
  <1>1. IInv => FireSpaced
    BY DEF IInv, GunInv
  <1>2. QED
    BY <1>1, Invariance, PTL

\* overflow_count_ counts what it is meant to count.
THEOREM ModeCounterSound == Spec => []ModeFollowsSpin
  <1>1. IInv => ModeFollowsSpin
    BY DEF IInv, GunInv, SpinOK, ModeFollowsSpin
  <1>2. QED
    BY <1>1, Invariance, PTL

\* The aiming mode changes for a reason only.
THEOREM ModeSwitchSound == Spec => ModeSwitchJustified
  <1>1. IInv /\ [Next]_vars => [SwitchOK]_vars
    BY NextStep
  <1>2. Spec => [][SwitchOK]_vars
    BY <1>1, Invariance, PTL DEF Spec
  <1>3. QED
    BY <1>2 DEF SwitchOK, ModeSwitchJustified

\* A followed target never silently becomes another one.
THEOREM IdentityKept == Spec => IdentityStable
  <1>1. IInv /\ [Next]_vars => [IdentityOK]_vars
    BY NextStep DEF Adopts, GivesUp, Keeps, Idle, IdentityOK
  <1>2. Spec => [][IdentityOK]_vars
    BY <1>1, Invariance, PTL DEF Spec
  <1>3. QED
    BY <1>2 DEF IdentityOK, IdentityStable

\* The node implements TargetEngagement.
THEOREM Refinement == Spec => ImplementsEngagement
  <1>1. Init => Engagement!Init
    BY DEF Init, Engagement!Init, NewTracker, Idle, Followed
  <1>2. IInv /\ [Next]_vars => [Engagement!Next]_(Engagement!engagement)
    <2>1. ASSUME UNCHANGED vars
          PROVE  UNCHANGED Engagement!engagement
      BY <2>1 DEF vars, Engagement!engagement, Followed
    <2>2. ASSUME IInv, Next
          PROVE  Engagement!Next \/ UNCHANGED Engagement!engagement
      <3>1. IInv' /\ (Adopts \/ GivesUp \/ Keeps)
        BY <2>2, NextStep
      <3>2. 0 \notin Ids /\ (trk.state # "PATROL" => trk.id \in Ids)
            /\ (trk'.state # "PATROL" => trk'.id \in Ids)
        BY <2>2, <3>1, TrackerAssumption DEF IInv, TargetInv
      <3>3. CASE Adopts
        <4>1. trk'.id \in Ids /\ ~Followed' /\ out'.fire = FALSE /\ trk'.state # "PATROL"
          BY <3>2, <3>3 DEF Adopts, Followed, Idle
        <4>2. QED
          BY <4>1 DEF Engagement!Next, Engagement!Acquire
      <3>4. CASE GivesUp
        <4>1. trk'.state = "PATROL" /\ ~Followed' /\ out'.fire = FALSE
          BY <3>4 DEF GivesUp, Followed, Idle
        <4>2. CASE trk.state = "PATROL"
          <5>1. ~Followed /\ out.fire = FALSE
            BY <2>2, <4>2 DEF Followed, IInv, CommandInv, Idle
          <5>2. (trk.state = "PATROL")' /\ (Followed <=> Followed') /\ out'.fire = out.fire
            BY <4>1, <5>1
          <5>3. QED
            BY <4>2, <5>2, Zenon DEF Engagement!engagement
        <4>3. CASE trk.state # "PATROL"
          BY <3>2, <4>1, <4>3 DEF Engagement!Next, Engagement!Drop
        <4>4. QED
          BY <4>2, <4>3
      <3>5. CASE Keeps
        <4>1. /\ Followed' /\ trk'.state # "PATROL" /\ trk'.id = trk.id
              /\ trk.state # "PATROL" /\ out'.fire \in BOOLEAN
          BY <3>1, <3>5 DEF Keeps, Followed, IInv, CommandInv, Commands
        <4>2. CASE Followed
          BY <4>1, <4>2 DEF Engagement!Next, Engagement!Engage
        <4>3. CASE ~Followed
          BY <3>2, <4>1, <4>3 DEF Engagement!Next, Engagement!Confirm
        <4>4. QED
          BY <4>2, <4>3
      <3>6. QED
        BY <3>1, <3>3, <3>4, <3>5
    <2>3. QED
      BY <2>1, <2>2
  <1>3. QED
    BY <1>1, <1>2, Invariance, PTL DEF Spec, Engagement!Spec, ImplementsEngagement
=============================================================================
