----------------------------- MODULE MCBaSolver -----------------------------
(***************************************************************************)
(* Small instances of BaSolver.                                            *)
(***************************************************************************)
EXTENDS BaSolver

\* With a largest step of 2: 2 is near both its neighbours, 0 and 4 are too far
\* apart, 5 is near 4 only.
MCPlaces == {0, 2, 4, 5}
\* Two depths further apart than the largest step.
MCRests == {0, 3}
MCOneRest == {0}
=============================================================================
