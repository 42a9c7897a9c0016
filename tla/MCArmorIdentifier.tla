-------------------------- MODULE MCArmorIdentifier --------------------------
(***************************************************************************)
(* Small instances of ArmorIdentifier.                                     *)
(***************************************************************************)
EXTENDS ArmorIdentifier

Bar(y, a) == [y |-> y, a |-> a]
Scene(bars, dist) == [bars |-> bars, fits |-> DOMAIN dist, dist |-> dist]

\* One armor and two; three bars that all pair, where the later pairs win, lose,
\* and compete with the bar they share on either side; and four bars that leave
\* two equally near armors on one bar.
MCShows ==
    [dark   |-> Scene(<<>>, <<>>),
     one    |-> Scene(<<Bar(0, 0), Bar(0, 0)>>, <<1, 2>> :> 1),
     two    |-> Scene(<<Bar(0, 0), Bar(0, 0), Bar(0, 0), Bar(0, 0)>>,
                      <<1, 2>> :> 1 @@ <<3, 4>> :> 2),
     rising |-> Scene(<<Bar(3, 0), Bar(1, 0), Bar(0, 0)>>,
                      <<1, 2>> :> 1 @@ <<1, 3>> :> 2 @@ <<2, 3>> :> 3),
     leaning |-> Scene(<<Bar(0, 5), Bar(0, 3), Bar(2, 3)>>,
                      <<1, 2>> :> 1 @@ <<1, 3>> :> 2 @@ <<2, 3>> :> 3),
     crowd  |-> Scene(<<Bar(0, 0), Bar(0, 0), Bar(0, 0), Bar(2, 0)>>,
                      <<1, 4>> :> 1 @@ <<2, 3>> :> 2 @@ <<2, 4>> :> 2)]

\* Every scene in one colour, alone; and two armors in either colour at once.
MCImages ==
    {[red |-> s, blue |-> "dark"] : s \in DOMAIN MCShows}
        \cup {[red |-> "dark", blue |-> "one"], [red |-> "one", blue |-> "two"]}

\* A colour the detector does not know is among them.
MCColorParams == {"red", "blue", "green"}

\* Two numbers, and no armor.
MCPatterns == {1, 3, 9}

\* Fewer and more than MaxDetection.
MCLostCounts == {1, 3}
=============================================================================
