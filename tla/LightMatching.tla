---------------------------- MODULE LightMatching ----------------------------
(***************************************************************************)
(* ArmorDetector::match_light(): which pairs of light bars become armors.  *)
(*                                                                         *)
(* lights is the sequence of bars from left to right, each with the height *)
(* y of its centre and its angle a (brought below 165 degrees).  fits is   *)
(* the set of pairs <<i, j>>, i < j, that pass the geometric tests of      *)
(* determine_parallelogram() and determine_minRect().  Two bars never have *)
(* the same centre and angle.                                              *)
(*                                                                         *)
(* Operators named Operator_Fault are plausible faults, used to show that  *)
(* the properties can fail; they are not part of the model.                *)
(***************************************************************************)
EXTENDS Integers, Sequences, SequencesExt

Distance(m, n) == IF m < n THEN n - m ELSE m - n

\* The two bars of a pair, and the bar that is not i.
Bars(p) == {p[1], p[2]}
Partner(p, i) == IF p[1] = i THEN p[2] ELSE p[1]

\* The k-th pair of positions when the outer loop takes the first, the inner the
\* second of n bars.
Considered(n, k) == <<1 + ((k - 1) \div n), 1 + ((k - 1) % n)>>

\* Fault: only the left bar of an accepted pair is looked at.
FirstShared_LeftOnly(p, accepted) ==
    SelectInSeq(accepted, LAMBDA q : q[1] \in Bars(p))

\* The first accepted pair that has a bar in common with p, or 0.
FirstShared(p, accepted) ==
    SelectInSeq(accepted, LAMBDA q : Bars(q) \cap Bars(p) # {})

\* FaD + FyD and SaD + SyD, both without their common factor 0.5.  When the
\* common bar s is the right one of the new pair, the code takes the height of
\* s from itself, and the angle alone counts.
OldSkew(lights, q, s) ==
    LET l == lights[Partner(q, s)]
    IN  Distance(l.a, lights[s].a) + Distance(l.y, lights[s].y)
NewSkew(lights, p, s) ==
    LET l == lights[Partner(p, s)]
    IN  Distance(l.a, lights[s].a)
            + IF s = p[1] THEN Distance(l.y, lights[s].y) ELSE 0

\* repeated_light_judgment(): the new pair is straighter than the old one.
Replaces(lights, p, q) ==
    LET s == CHOOSE i \in Bars(p) \cap Bars(q) : TRUE
    IN  OldSkew(lights, q, s) > NewSkew(lights, p, s)

\* What one pair makes of the accepted ones: it joins them, takes the place of
\* the first it has a bar in common with, or is passed over.
Accept(lights, accepted, p) ==
    LET k == FirstShared(p, accepted)
    IN  CASE k = 0 -> Append(accepted, p)
          [] k # 0 /\ Replaces(lights, p, accepted[k]) ->
                Append(RemoveAt(accepted, k), p)
          [] OTHER -> accepted

\* match_light(): the accepted pairs after the first k were considered, the ones
\* that do not fit being skipped, for all k.
MatchLight(lights, fits) ==
    LET n == Len(lights)
        accepted[k \in 0 .. n * n] ==
            IF k = 0 THEN <<>>
            ELSE LET p == Considered(n, k)
                 IN  IF p \in fits THEN Accept(lights, accepted[k - 1], p)
                     ELSE accepted[k - 1]
    IN  accepted[n * n]
=============================================================================
