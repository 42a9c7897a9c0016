------------------------ MODULE ArmorIdentifierProofs ------------------------
(***************************************************************************)
(* Theorems about the armor identifier: what it publishes for a frame is   *)
(* of that frame, whole and in the colour asked for, for any scenes,       *)
(* images, answers of the classifier and parameters.                       *)
(***************************************************************************)
EXTENDS ArmorIdentifier, SequenceTheorems, WellFoundedInduction, TLAPS

\* A nonempty set of numbers up to n has a greatest one.
LEMMA GreatestExists ==
    ASSUME NEW n \in Nat, NEW S \in SUBSET (1 .. n), S # {}
    PROVE  Max(S) \in S
<1> DEFINE Below == {n - k : k \in S}
           Less == {ss \in Nat \X Nat : ss[1] < ss[2]}
<1>1. Below \subseteq Nat /\ Below # {}
  OBVIOUS
<1>2. IsWellFoundedOn(Less, Nat)
  BY NatLessThanWellFounded DEF OpToRel
<1>3. PICK x \in Below : \A y \in Below : <<y, x>> \notin Less
  <2> HIDE DEF Below, Less
  <2> QED
    BY <1>1, <1>2, WFMin
<1>4. PICK k \in S : x = n - k
  BY <1>3
<1>5. ASSUME NEW l \in S
      PROVE  k >= l
  <2>1. <<n - l, n - k>> \notin Less
    BY <1>3, <1>4
  <2>2. k \in 1 .. n /\ l \in 1 .. n
    OBVIOUS
  <2>3. ~ (n - l < n - k)
    BY <2>1, <2>2
  <2> HIDE DEF Below, Less
  <2> QED
    BY <2>2, <2>3
<1>6. \E m \in S : \A y \in S : m >= y
  BY <1>5
<1> QED
  BY <1>6 DEF Max

-----------------------------------------------------------------------------
(* The matching of light bars.                                             *)

\* Induction, with the statement as a set of numbers.
LEMMA NatSetInduction ==
    ASSUME NEW T \in SUBSET Nat, 0 \in T, \A n \in T : n + 1 \in T
    PROVE  T = Nat
<1> SUFFICES ASSUME Nat \ T # {} PROVE FALSE
  OBVIOUS
<1> DEFINE Less == OpToRel(<, Nat)
<1>1. IsWellFoundedOn(Less, Nat)
  BY NatLessThanWellFounded
<1>2. \A m, n \in Nat : m < n => <<m, n>> \in Less
  BY DEF OpToRel
<1> HIDE DEF Less
<1>3. PICK x \in Nat \ T : \A y \in Nat \ T : <<y, x>> \notin Less
  BY <1>1, WFMin
<1>4. x # 0 /\ x - 1 \in Nat /\ x - 1 < x /\ (x - 1) + 1 = x
  OBVIOUS
<1>5. x - 1 \notin T
  BY <1>4
<1> QED
  BY <1>2, <1>3, <1>4, <1>5

\* A nonempty set of positions has a first one.
LEMMA LeastExists ==
    ASSUME NEW n \in Nat, NEW S \in SUBSET (1 .. n), S # {}
    PROVE  Min(S) \in S
<1> DEFINE Less == OpToRel(<, Nat)
<1>1. IsWellFoundedOn(Less, Nat)
  BY NatLessThanWellFounded
<1>2. \A i, j \in Nat : i < j => <<i, j>> \in Less
  BY DEF OpToRel
<1> HIDE DEF Less
<1>3. S \subseteq Nat
  OBVIOUS
<1>4. PICK x \in S : \A y \in S : <<y, x>> \notin Less
  BY <1>1, <1>3, WFMin
<1>5. ASSUME NEW y \in S
      PROVE  x <= y
  <2>1. x \in Nat /\ y \in Nat /\ <<y, x>> \notin Less
    BY <1>3, <1>4
  <2> QED
    BY <1>2, <2>1
<1> QED
  BY <1>5 DEF Min

\* The pair found is an accepted one; there is none when no bar is shared.
LEMMA FirstSharedFound ==
    ASSUME NEW p, NEW accepted, Len(accepted) \in Nat
    PROVE  /\ FirstShared(p, accepted) \in 0 .. Len(accepted)
           /\ FirstShared(p, accepted) = 0 =>
                \A k \in 1 .. Len(accepted) : Bars(accepted[k]) \cap Bars(p) = {}
<1> DEFINE shared == {k \in 1 .. Len(accepted) : Bars(accepted[k]) \cap Bars(p) # {}}
<1>1. FirstShared(p, accepted) = IF shared # {} THEN Min(shared) ELSE 0
  BY Zenon DEF FirstShared, SelectInSeq
<1>2. shared \in SUBSET (1 .. Len(accepted))
  OBVIOUS
<1>3. shared # {} => Min(shared) \in shared
  BY <1>2, LeastExists
<1> QED
  BY <1>1, <1>2, <1>3

\* One pair more leaves a sequence of pairs that fit; and one armor stays one
\* armor when each two pairs have a bar in common.
LEMMA AcceptKeeps ==
    ASSUME NEW bars, NEW fits, NEW accepted \in Seq(fits), NEW p \in fits
    PROVE  /\ Accept(bars, accepted, p) \in Seq(fits)
           /\ /\ \A q, r \in fits : Bars(q) \cap Bars(r) # {}
              /\ Len(accepted) <= 1
              => Len(Accept(bars, accepted, p)) <= 1
<1> DEFINE k == FirstShared(p, accepted)
           before == SubSeq(accepted, 1, k - 1)
           after == SubSeq(accepted, k + 1, Len(accepted))
           without == before \o after
<1>1. Len(accepted) \in Nat /\ \A i \in 1 .. Len(accepted) : accepted[i] \in fits
  OBVIOUS
<1>2. k \in 0 .. Len(accepted)
      /\ (k = 0 => \A i \in 1 .. Len(accepted) : Bars(accepted[i]) \cap Bars(p) = {})
  BY <1>1, FirstSharedFound
<1>3. \/ Accept(bars, accepted, p) = Append(accepted, p) /\ k = 0
      \/ Accept(bars, accepted, p) = Append(without, p) /\ k # 0
      \/ Accept(bars, accepted, p) = accepted
  BY DEF Accept, RemoveAt
<1> HIDE DEF k
<1>4. k # 0 => without \in Seq(fits) /\ Len(without) = Len(accepted) - 1
  <2> SUFFICES ASSUME k # 0
               PROVE  without \in Seq(fits) /\ Len(without) = Len(accepted) - 1
    OBVIOUS
  <2>1. before \in Seq(fits) /\ Len(before) = k - 1
    BY <1>1, <1>2
  <2>2. after \in Seq(fits) /\ Len(after) = Len(accepted) - k
    BY <1>1, <1>2
  <2> HIDE DEF before, after
  <2>3. without \in Seq(fits) /\ Len(without) = Len(before) + Len(after)
    BY <2>1, <2>2, ConcatProperties
  <2> QED
    BY <1>1, <1>2, <2>1, <2>2, <2>3
<1> HIDE DEF without
<1>5. Accept(bars, accepted, p) \in Seq(fits)
  <2>1. Append(accepted, p) \in Seq(fits)
    BY AppendProperties
  <2>2. k # 0 => Append(without, p) \in Seq(fits)
    BY <1>4, AppendProperties
  <2> QED
    BY <1>3, <2>1, <2>2
<1>6. ASSUME \A q, r \in fits : Bars(q) \cap Bars(r) # {}, Len(accepted) <= 1
      PROVE  Len(Accept(bars, accepted, p)) <= 1
  <2>1. k = 0 => Len(accepted) = 0
    BY <1>1, <1>2, <1>6
  <2> QED
    BY <1>1, <1>3, <1>4, <1>6, <2>1
<1> QED
  BY <1>5, <1>6

\* The recursion over the pairs has a solution: there is one for the first m of
\* them, for every m.
LEMMA MatchLightIsRecursive ==
    ASSUME NEW bars, NEW fits, Len(bars) \in Nat
    PROVE  LET n == Len(bars)
           IN  \E f : /\ MatchLight(bars, fits) = f[n * n]
                      /\ f[0] = <<>>
                      /\ \A k \in 1 .. n * n :
                            f[k] = IF Considered(n, k) \in fits
                                   THEN Accept(bars, f[k - 1], Considered(n, k))
                                   ELSE f[k - 1]
<1> DEFINE n == Len(bars)
           N == n * n
           Following(k, before) == IF Considered(n, k) \in fits
                                   THEN Accept(bars, before, Considered(n, k)) ELSE before
           E(g) == [k \in 0 .. N |-> IF k = 0 THEN <<>> ELSE Following(k, g[k - 1])]
           F == CHOOSE g : g = E(g)
           Done == {m \in Nat : \E g : \A k \in 0 .. m :
                       g[k] = IF k = 0 THEN <<>> ELSE Following(k, g[k - 1])}
<1>1. MatchLight(bars, fits) = F[N]
  BY Zenon DEF MatchLight
<1>2. N \in Nat
  OBVIOUS
<1> HIDE DEF N, Following
<1>3. 0 \in Done
  <2>1. \A k \in 0 .. 0 : [i \in {0} |-> <<>>][k] = IF k = 0 THEN <<>> ELSE Following(k, [i \in {0} |-> <<>>][k - 1])
    OBVIOUS
  <2> QED
    BY <2>1
<1>4. ASSUME NEW m \in Done PROVE m + 1 \in Done
  <2>1. PICK g : \A k \in 0 .. m : g[k] = IF k = 0 THEN <<>> ELSE Following(k, g[k - 1])
    OBVIOUS
  <2> DEFINE h == [k \in 0 .. m + 1 |-> IF k = m + 1 THEN Following(k, g[k - 1]) ELSE g[k]]
  <2>2. m \in Nat /\ m + 1 \in Nat
    OBVIOUS
  <2>3. ASSUME NEW k \in 0 .. m + 1
        PROVE  h[k] = IF k = 0 THEN <<>> ELSE Following(k, h[k - 1])
    <3>1. k \in 1 .. m + 1 => k - 1 \in 0 .. m /\ k - 1 # m + 1
      BY <2>2
    <3>2. k \in 1 .. m + 1 => h[k - 1] = g[k - 1]
      BY <2>2, <3>1
    <3>3. CASE k = m + 1
      BY <2>2, <3>2, <3>3
    <3>4. CASE k \in 0 .. m
      <4>1. h[k] = g[k]
        BY <2>2, <3>4
      <4> QED
        BY <2>1, <2>2, <3>2, <3>4, <4>1
    <3> QED
      BY <2>2, <3>3, <3>4
  <2> HIDE DEF h
  <2> QED
    BY <2>2, <2>3
<1>5. N \in Done
  <2>1. Done \in SUBSET Nat
    OBVIOUS
  <2> HIDE DEF Done
  <2> QED
    BY <1>2, <1>3, <1>4, <2>1, NatSetInduction
<1>6. PICK g : \A k \in 0 .. N : g[k] = IF k = 0 THEN <<>> ELSE Following(k, g[k - 1])
  BY <1>5
<1>7. [k \in 0 .. N |-> g[k]] = E([k \in 0 .. N |-> g[k]])
  <2> DEFINE h == [k \in 0 .. N |-> g[k]]
  <2>1. \A k \in 0 .. N : h[k] = IF k = 0 THEN <<>> ELSE Following(k, h[k - 1])
    BY <1>2, <1>6
  <2>2. h = [k \in 0 .. N |-> IF k = 0 THEN <<>> ELSE Following(k, h[k - 1])]
    BY <2>1
  <2> QED
    BY <2>2
<1>8. F = E(F)
  BY <1>7
<1>9. F[0] = <<>> /\ \A k \in 1 .. N : F[k] = Following(k, F[k - 1])
  <2> HIDE DEF F
  <2>1. \A k \in 0 .. N : F[k] = IF k = 0 THEN <<>> ELSE Following(k, F[k - 1])
    BY <1>8
  <2> QED
    BY <1>2, <2>1
<1> HIDE DEF F
<1> QED
  BY <1>1, <1>9 DEF N, Following

\* match_light() yields pairs that fit, and one at most when each two of them
\* have a bar in common.
LEMMA MatchLightSound ==
    ASSUME NEW bars, NEW fits, Len(bars) \in Nat
    PROVE  /\ MatchLight(bars, fits) \in Seq(fits)
           /\ (\A q, r \in fits : Bars(q) \cap Bars(r) # {}) => Len(MatchLight(bars, fits)) <= 1
<1> DEFINE n == Len(bars)
           N == n * n
           few == \A q, r \in fits : Bars(q) \cap Bars(r) # {}
<1>1. PICK f : /\ MatchLight(bars, fits) = f[N]
               /\ f[0] = <<>>
               /\ \A k \in 1 .. N :
                     f[k] = IF Considered(n, k) \in fits
                            THEN Accept(bars, f[k - 1], Considered(n, k)) ELSE f[k - 1]
  BY MatchLightIsRecursive
<1>2. N \in Nat
  OBVIOUS
<1> HIDE DEF N, few
<1> DEFINE Sound == {m \in Nat : m <= N => f[m] \in Seq(fits) /\ (few => Len(f[m]) <= 1)}
<1>3. 0 \in Sound
  <2>1. <<>> \in Seq(fits) /\ Len(<<>>) <= 1
    OBVIOUS
  <2>2. f[0] \in Seq(fits) /\ Len(f[0]) <= 1
    BY <1>1, <2>1
  <2> QED
    BY <2>2
<1>4. ASSUME NEW m \in Sound PROVE m + 1 \in Sound
  <2> SUFFICES ASSUME m + 1 <= N
               PROVE  f[m + 1] \in Seq(fits) /\ (few => Len(f[m + 1]) <= 1)
    OBVIOUS
  <2>1. m + 1 \in 1 .. N /\ (m + 1) - 1 = m /\ f[m] \in Seq(fits) /\ (few => Len(f[m]) <= 1)
    BY <1>2
  <2>2. f[m + 1] = IF Considered(n, m + 1) \in fits
                   THEN Accept(bars, f[m], Considered(n, m + 1)) ELSE f[m]
    BY <1>1, <2>1
  <2>3. CASE Considered(n, m + 1) \in fits
    BY <2>1, <2>2, <2>3, AcceptKeeps DEF few
  <2>4. CASE Considered(n, m + 1) \notin fits
    BY <2>1, <2>2, <2>4
  <2> QED
    BY <2>3, <2>4
<1>5. N \in Sound
  <2>1. Sound \in SUBSET Nat
    OBVIOUS
  <2> HIDE DEF Sound
  <2> QED
    BY <1>2, <1>3, <1>4, <2>1, NatSetInduction
<1> QED
  BY <1>1, <1>2, <1>5 DEF few

-----------------------------------------------------------------------------
(* The callbacks.                                                          *)

\* What detect_armor_lights() finds in a scene are armors of that scene.
LEMMA FoundInScene ==
    ASSUME NEW scene \in Scenes \cup {NoScene}
    PROVE  /\ Detect(scene) \in Seq(Armors)
           /\ Len(Detect(scene)) \in Nat
           /\ \A k \in 1 .. Len(Detect(scene)) :
                Detect(scene)[k].scene = scene /\ Detect(scene)[k] \in Armors
<1>1. CASE scene = NoScene
  BY <1>1 DEF Detect
<1>2. CASE scene \in Scenes
  <2> DEFINE pairs == MatchLight(Shows[scene].bars, Shows[scene].fits)
  <2>1. scene # NoScene /\ pairs \in Seq(Shows[scene].fits)
    BY <1>2, IdentifierAssumption, MatchLightSound
  <2>2. Detect(scene) = [k \in 1 .. Len(pairs) |-> [scene |-> scene, bars |-> pairs[k]]]
    BY <2>1 DEF Detect
  <2> HIDE DEF pairs
  <2>3. \A k \in 1 .. Len(pairs) : [scene |-> scene, bars |-> pairs[k]] \in Armors
    <3>1. \A k \in 1 .. Len(pairs) : pairs[k] \in Shows[scene].fits
      BY <2>1
    <3> QED
      BY <3>1, <1>2 DEF Armors
  <2>4. Len(pairs) \in Nat
    BY <2>1
  <2>5. Detect(scene) \in Seq(Armors) /\ Len(Detect(scene)) = Len(pairs)
    <3> HIDE DEF pairs
    <3>1. [k \in 1 .. Len(pairs) |-> [scene |-> scene, bars |-> pairs[k]]] \in Seq(Armors)
      BY <2>3, <2>4
    <3> QED
      BY <2>2, <2>4, <3>1
  <2> QED
    BY <2>2, <2>3, <2>4, <2>5
<1> QED
  BY <1>1, <1>2

\* Among three bars each two pairs have one in common, so there is one armor at
\* most.
LEMMA FewBarsOneArmor ==
    ASSUME NEW scene \in Scenes, Len(Shows[scene].bars) <= 3
    PROVE  Len(Detect(scene)) <= 1
<1> DEFINE bars == Shows[scene].bars
           fits == Shows[scene].fits
           pairs == MatchLight(bars, fits)
<1>1. /\ bars \in Seq([y : Int, a : Int]) /\ scene # NoScene
      /\ fits \subseteq {p \in (DOMAIN bars) \X (DOMAIN bars) : p[1] < p[2]}
  BY IdentifierAssumption
<1>2. Len(bars) \in Nat /\ DOMAIN bars \subseteq 1 .. 3
  <2>1. Len(bars) \in Nat /\ DOMAIN bars = 1 .. Len(bars)
    BY <1>1
  <2> QED
    BY <2>1
<1> HIDE DEF bars, fits
<1>3. ASSUME NEW q \in fits, NEW r \in fits
      PROVE  Bars(q) \cap Bars(r) # {}
  <2>1. q[1] \in 1 .. 3 /\ q[2] \in 1 .. 3 /\ q[1] < q[2]
    BY <1>1, <1>2
  <2>2. r[1] \in 1 .. 3 /\ r[2] \in 1 .. 3 /\ r[1] < r[2]
    BY <1>1, <1>2
  <2>3. q[1] = r[1] \/ q[1] = r[2] \/ q[2] = r[1] \/ q[2] = r[2]
    BY <2>1, <2>2
  <2> QED
    BY <2>3 DEF Bars
<1>4. pairs \in Seq(fits) /\ Len(pairs) <= 1
  BY <1>2, <1>3, MatchLightSound
<1>5. Detect(scene) = [k \in 1 .. Len(pairs) |-> [scene |-> scene, bars |-> pairs[k]]]
  BY <1>1 DEF Detect, bars, fits
<1> HIDE DEF pairs
<1> QED
  BY <1>4, <1>5

\* A message, by its fields.
Messages == [corners : Seq(Armors), type : {"", "armor", "null"},
             idx : Patterns \cup {0}, pose : Armors]
IsMessage(m) ==
    /\ m = [corners |-> m.corners, type |-> m.type, idx |-> m.idx, pose |-> m.pose]
    /\ m \in Messages

LEMMA MessageOf ==
    ASSUME NEW c \in Seq(Armors), NEW t \in {"", "armor", "null"},
           NEW i \in Patterns \cup {0}, NEW p \in Armors
    PROVE  IsMessage([corners |-> c, type |-> t, idx |-> i, pose |-> p])
BY DEF IsMessage, Messages

\* The inductive invariant: the message object that serves all frames keeps
\* its fields, what was published for a frame is sound, and the candidates are
\* what the mask shows.
IInv ==
    /\ TypeOK /\ IsMessage(msg) /\ candidates = Detect(lights)
    /\ PublishedIsWhole /\ NumberIsOfThisFrame /\ ColorFollowed

LEMMA InitInvariant == Init => IInv
<1> SUFFICES ASSUME Init
             PROVE  IInv
  OBVIOUS
<1>1. NoArmor \in Armors /\ <<>> \in Seq(Armors)
  BY DEF Armors
<1>2. pub = NoMessage
  BY DEF Init
<1>3. IsMessage(msg)
  BY <1>1 DEF Init, IsMessage, Messages
<1>4. 0 \in 0 .. MaxDetection
  BY IdentifierAssumption
<1>5. TypeOK
  BY <1>1, <1>4 DEF Init, TypeOK
<1>6. candidates = Detect(lights)
  BY DEF Init, Detect
<1> QED
  BY <1>2, <1>3, <1>5, <1>6
     DEF IInv, PublishedIsWhole, NumberIsOfThisFrame, ColorFollowed, Published, PublishedArmor

\* A callback that is given no image publishes nothing.
LEMMA NoFrameKeeps ==
    ASSUME IInv, NoFrame, UNCHANGED <<lights, candidates, armorIdx, msg>>,
           is_initialized' \in BOOLEAN, detection_count' \in 0 .. MaxDetection
    PROVE  IInv'
<1>1. TypeOK'
  BY DEF IInv, TypeOK
<1>2. IsMessage(msg')
  BY DEF IInv
<1>3. pub' = NoMessage
  BY DEF NoFrame
<1>4. candidates' = Detect(lights')
  BY DEF IInv
<1> QED
  BY <1>1, <1>2, <1>3, <1>4
     DEF IInv, IsMessage, PublishedIsWhole, NumberIsOfThisFrame, ColorFollowed, Published,
         PublishedArmor

LEMMA ParametersKeep ==
    ASSUME IInv, NEW c \in ColorParams, OnSetParameters(c)
    PROVE  IInv'
BY NoFrameKeeps DEF OnSetParameters, IInv, TypeOK

LEMMA TrackerStateKeeps ==
    ASSUME IInv, NEW state \in {"Patrol", "Detecting", "Tracking", "TempLost"},
           NEW det \in {0, 1}, NEW lost \in LostCounts, TrackerStateCallback(state, det, lost)
    PROVE  IInv'
<1>1. lost \in Nat /\ MaxDetection \in Nat
  BY IdentifierAssumption
<1>2. Remaining(lost) \in 0 .. MaxDetection /\ MaxDetection \in 0 .. MaxDetection
  BY <1>1 DEF Remaining
<1>3. detection_count' \in 0 .. MaxDetection
  BY <1>2 DEF TrackerStateCallback, IInv, TypeOK
<1>4. is_initialized' \in BOOLEAN
  BY DEF TrackerStateCallback
<1> QED
  BY <1>3, <1>4, NoFrameKeeps DEF TrackerStateCallback

\* The number of a frame is one its classifier gave to a candidate that passed
\* the test, or there was none and it is what it was.
LEMMA NumberOfFrame ==
    ASSUME NEW found, Len(found) \in Nat, NEW sees \in [1 .. Len(found) -> Patterns],
           NEW idx \in Patterns \cup {0}
    PROVE  /\ LastNumber(found, sees, idx) \in Patterns \cup {0}
           /\ Valid(found, sees) # {} =>
                \E k \in 1 .. Len(found) :
                    IsNumber(sees[k]) /\ LastNumber(found, sees, idx) = sees[k]
<1>1. CASE Valid(found, sees) = {}
  BY <1>1 DEF LastNumber
<1>2. CASE Valid(found, sees) # {}
  <2>1. Valid(found, sees) \in SUBSET (1 .. Len(found))
    BY DEF Valid
  <2>2. PICK k \in Valid(found, sees) : k = Max(Valid(found, sees))
    BY <1>2, <2>1, GreatestExists
  <2>3. k \in 1 .. Len(found) /\ IsNumber(sees[k]) /\ LastNumber(found, sees, idx) = sees[k]
    BY <1>2, <2>2 DEF Valid, LastNumber
  <2> QED
    BY <2>3
<1> QED
  BY <1>1, <1>2

\* What select_optimal_armor() makes of a message without corners.
LEMMA SelectSound ==
    ASSUME NEW m0, IsMessage(m0), m0.corners = <<>>,
           NEW found \in Seq(Armors), Len(found) \in Nat,
           \A k \in 1 .. Len(found) : found[k] \in Armors,
           NEW sees \in [1 .. Len(found) -> Patterns], NEW idx \in Patterns \cup {0},
           NEW m \in Select(m0, found, sees, idx)
    PROVE  /\ IsMessage(m)
           /\ m.corners # <<>> =>
                /\ m.type = "armor"
                /\ \E k \in 1 .. Len(found) : m.corners = <<found[k]>>
                /\ \E k \in 1 .. Len(found) : IsNumber(sees[k]) /\ m.idx = sees[k]
<1>1. CASE Valid(found, sees) = {}
  BY <1>1 DEF Select
<1>2. CASE Valid(found, sees) # {}
  <2>1. PICK k \in Nearest(found, sees) :
            m = [m0 EXCEPT !.corners = Append(@, found[k]), !.type = "armor",
                           !.idx = LastNumber(found, sees, idx)]
    BY <1>2 DEF Select
  <2>2. k \in 1 .. Len(found)
    BY DEF Nearest, Valid
  <2>3. Append(<<>>, found[k]) = <<found[k]>> /\ <<found[k]>> \in Seq(Armors)
    BY <2>2
  <2>4. m = [corners |-> <<found[k]>>, type |-> "armor",
             idx |-> LastNumber(found, sees, idx), pose |-> m0.pose]
    BY <2>1, <2>3 DEF IsMessage
  <2>5. LastNumber(found, sees, idx) \in Patterns \cup {0}
    BY NumberOfFrame
  <2>6. IsMessage(m)
    BY <2>3, <2>4, <2>5 DEF IsMessage, Messages
  <2>7. \E l \in 1 .. Len(found) :
            IsNumber(sees[l]) /\ LastNumber(found, sees, idx) = sees[l]
    BY <1>2, NumberOfFrame
  <2> QED
    BY <2>2, <2>4, <2>6, <2>7
<1> QED
  BY <1>1, <1>2

\* A frame publishes one armor of its own, with a number of its own, or "null".
LEMMA ImageKeeps ==
    ASSUME IInv, NEW img \in Images, ImageCallback(img)
    PROVE  IInv'
<1> DEFINE scene == ColorSplit(img)
           found == Detect(scene)
           count == IF is_initialized THEN 0 ELSE detection_count
           idx == IF is_initialized THEN 0 ELSE armorIdx
           empty == ClearCorners(msg)
<1>1. img \in [Colors -> Scenes]
  BY IdentifierAssumption
<1>2. scene \in Scenes \cup {NoScene} /\ (enemy_color \in Colors => scene = img[enemy_color])
  BY <1>1 DEF ColorSplit, IInv, TypeOK
<1>3. /\ found \in Seq(Armors) /\ Len(found) \in Nat
      /\ \A k \in 1 .. Len(found) : found[k].scene = scene /\ found[k] \in Armors
  BY <1>2, FoundInScene
<1>4. count \in 0 .. MaxDetection /\ idx \in Patterns \cup {0}
  <2>1. 0 \in 0 .. MaxDetection
    BY IdentifierAssumption
  <2> QED
    BY <2>1 DEF IInv, TypeOK
<1>5. IsMessage(empty) /\ empty.corners = <<>>
  <2>1. empty = [corners |-> <<>>, type |-> msg.type, idx |-> msg.idx, pose |-> msg.pose]
    BY DEF ClearCorners, IInv, IsMessage
  <2>2. msg.type \in {"", "armor", "null"} /\ msg.idx \in Patterns \cup {0} /\ msg.pose \in Armors
    BY DEF IInv, TypeOK
  <2>3. <<>> \in Seq(Armors)
    OBVIOUS
  <2>4. IsMessage(empty)
    <3> HIDE DEF empty
    <3> QED
      BY <2>1, <2>2, <2>3, MessageOf
  <2> QED
    BY <2>1, <2>4
<1>6. PICK sees \in [1 .. Len(found) -> Patterns], solved \in BOOLEAN :
        /\ seen' = sees
        /\ armorIdx' = LastNumber(found, sees, idx)
        /\ \E m \in Select(empty, found, sees, idx) : Publish(m, count, solved)
  BY DEF ImageCallback
<1>7. PICK m \in Select(empty, found, sees, idx) : Publish(m, count, solved)
  BY <1>6
<1>8. /\ image' = img /\ lights' = scene /\ candidates' = found
      /\ pub' = msg' /\ enemy_color' = enemy_color
      /\ detection_count' = count
  BY DEF ImageCallback
<1>8a. candidates' = Detect(lights')
  BY <1>8
<1> HIDE DEF scene, found, count, idx, empty
<1>9. /\ IsMessage(m)
      /\ m.corners # <<>> =>
            /\ m.type = "armor"
            /\ \E k \in 1 .. Len(found) : m.corners = <<found[k]>>
            /\ \E k \in 1 .. Len(found) : IsNumber(sees[k]) /\ m.idx = sees[k]
  BY <1>3, <1>4, <1>5, SelectSound
<1>10. armorIdx' \in Patterns \cup {0}
  BY <1>3, <1>4, <1>6, NumberOfFrame
<1>11. CASE m.corners = <<>>
  <2>1. msg' = [corners |-> <<>>, type |-> "null", idx |-> m.idx, pose |-> m.pose]
    BY <1>7, <1>9, <1>11 DEF Publish, IsMessage
  <2>2. is_initialized' \in BOOLEAN
    BY <1>4, <1>7, <1>11 DEF Publish
  <2>3. IsMessage(msg')
    <3>1. m.idx \in Patterns \cup {0} /\ m.pose \in Armors
      BY <1>9 DEF IsMessage, Messages
    <3>2. <<>> \in Seq(Armors)
      OBVIOUS
    <3> QED
      BY <2>1, <3>1, <3>2, MessageOf
  <2>4. TypeOK'
    BY <1>2, <1>3, <1>4, <1>8, <1>10, <2>2, <2>3 DEF TypeOK, IsMessage, Messages
  <2> QED
    BY <1>8, <1>8a, <2>1, <2>3, <2>4
       DEF IInv, PublishedIsWhole, NumberIsOfThisFrame, ColorFollowed, PublishedArmor
<1>12. CASE m.corners # <<>>
  <2>1. PICK k \in 1 .. Len(found) : m.corners = <<found[k]>>
    BY <1>9, <1>12
  <2>2. PICK pose \in Armors :
            msg' = [corners |-> <<found[k]>>, type |-> "armor", idx |-> m.idx, pose |-> pose]
    <3>1. m = [corners |-> <<found[k]>>, type |-> "armor", idx |-> m.idx, pose |-> m.pose]
          /\ m.pose \in Armors
      BY <1>9, <1>12, <2>1 DEF IsMessage, Messages
    <3>2. m.corners[Len(m.corners)] \in Armors
      BY <1>3, <2>1
    <3>3. msg' = SolvePnp(m, solved)
      BY <1>7, <1>12 DEF Publish
    <3>4. CASE solved
      BY <3>1, <3>2, <3>3, <3>4 DEF SolvePnp
    <3>5. CASE ~ solved
      BY <3>1, <3>3, <3>5 DEF SolvePnp
    <3> QED
      BY <3>4, <3>5
  <2>3. is_initialized' \in BOOLEAN
    BY <1>7, <1>12 DEF Publish
  <2>4. <<found[k]>> \in Seq(Armors)
    BY <1>3
  <2>5. IsMessage(msg')
    <3>1. m.idx \in Patterns \cup {0}
      BY <1>9 DEF IsMessage, Messages
    <3> QED
      BY <2>2, <2>4, <3>1, MessageOf
  <2>6. TypeOK'
    BY <1>2, <1>3, <1>4, <1>8, <1>10, <2>3, <2>5 DEF TypeOK, IsMessage, Messages
  <2>7. PublishedIsWhole'
    BY <1>8, <2>2 DEF PublishedIsWhole
  <2>8. NumberIsOfThisFrame'
    BY <1>6, <1>8, <1>9, <1>12, <2>2 DEF NumberIsOfThisFrame
  <2>9. ColorFollowed'
    BY <1>2, <1>3, <1>8, <2>2 DEF ColorFollowed
  <2> QED
    BY <1>8a, <2>5, <2>6, <2>7, <2>8, <2>9 DEF IInv
<1> QED
  BY <1>11, <1>12

LEMMA StutterKeeps ==
    ASSUME IInv, UNCHANGED vars
    PROVE  IInv'
BY DEF IInv, vars, TypeOK, IsMessage, PublishedIsWhole, NumberIsOfThisFrame, ColorFollowed,
       Published, PublishedArmor, Detect

\* The invariant holds of every reachable state.
THEOREM Invariance == Spec => []IInv
<1>1. IInv /\ [Next]_vars => IInv'
  <2> SUFFICES ASSUME IInv, [Next]_vars
               PROVE  IInv'
    OBVIOUS
  <2>1. CASE \E c \in ColorParams : OnSetParameters(c)
    BY <2>1, ParametersKeep
  <2>2. CASE \E state \in {"Patrol", "Detecting", "Tracking", "TempLost"},
                det \in {0, 1}, lost \in LostCounts : TrackerStateCallback(state, det, lost)
    BY <2>2, TrackerStateKeeps
  <2>3. CASE \E img \in Images : ImageCallback(img)
    BY <2>3, ImageKeeps
  <2>4. CASE UNCHANGED vars
    BY <2>4, StutterKeeps
  <2> QED
    BY <2>1, <2>2, <2>3, <2>4 DEF Next
<1> QED
  BY InitInvariant, <1>1, PTL DEF Spec

\* The members of the node keep their types.
THEOREM TypeCorrect == Spec => []TypeOK
<1>1. IInv => TypeOK
  BY DEF IInv
<1> QED
  BY <1>1, Invariance, PTL

\* What is published for a frame has the corners of one armor of that frame, or
\* says "null" and has none (PublishedIsWhole).
THEOREM WholeIsPublished == Spec => []PublishedIsWhole
<1>1. IInv => PublishedIsWhole
  BY DEF IInv
<1> QED
  BY <1>1, Invariance, PTL

\* The number published was read in the same frame (NumberIsOfThisFrame).
THEOREM NumberIsFresh == Spec => []NumberIsOfThisFrame
<1>1. IInv => NumberIsOfThisFrame
  BY DEF IInv
<1> QED
  BY <1>1, Invariance, PTL

\* A colour the detector knows is the colour of what is published (ColorFollowed).
THEOREM ColorIsFollowed == Spec => []ColorFollowed
<1>1. IInv => ColorFollowed
  BY DEF IInv
<1> QED
  BY <1>1, Invariance, PTL

\* Of three bars at most one pair becomes an armor, so that no bar is part of two
\* (FewBarsUnshared), however the heights and angles make the pairs compete.
THEOREM FewBarsAreUnshared == Spec => []FewBarsUnshared
<1>1. IInv => FewBarsUnshared
  <2> SUFFICES ASSUME IInv, lights # NoScene, Len(Shows[lights].bars) <= 3
               PROVE  ~ BarsAreShared(candidates)
    BY DEF FewBarsUnshared
  <2>1. lights \in Scenes /\ candidates = Detect(lights)
    BY DEF IInv, TypeOK
  <2>2. Len(candidates) <= 1 /\ Len(candidates) \in Nat
    BY <2>1, FewBarsOneArmor, FoundInScene
  <2> QED
    BY <2>2 DEF BarsAreShared
<1> QED
  BY <1>1, Invariance, PTL
=============================================================================
