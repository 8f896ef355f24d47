--------------------------- MODULE MCGameSession ---------------------------
(* Instances of GameSession for TLC. *)
EXTENDS GameSession, TLC

CONSTANTS c1, c2, c3, s1, a1, a2, a3, empty, still, moved, third, players, p1, p2, p3, p4

Each(x, y) == c1 :> x @@ c2 :> y

TwoIds   == Each(a1, a2)
AllStill == Each(still, still)
NobodyMoves == Each({}, {})
FirstMoves  == Each({moved}, {})
One       == Each(1, 1)
OneTwo    == Each(1, 2)
TwoOne    == Each(2, 1)
Zero      == Each(0, 0)
ZeroOne   == Each(0, 1)

\* Three games, each with a pose of its own
All(x, y, z) == c1 :> x @@ c2 :> y @@ c3 :> z

ThreeIds   == All(a1, a2, a3)
ThreePoses == All(still, moved, third)
NoneMoves  == All({}, {}, {})
AllOne     == All(1, 1, 1)
AllZero    == All(0, 0, 0)

\* The first two games are alike: exchanging them, with the ids and poses of
\* their players, maps behaviours to behaviours.
Alike ==
  {swap \in Permutations({c1, c2, a1, a2, still, moved}) :
     \A c \in {c1, c2} :
       /\ swap[c] \in {c1, c2}
       /\ swap[ThreeIds[c]] = ThreeIds[swap[c]]
       /\ swap[ThreePoses[c]] = ThreePoses[swap[c]]}
=============================================================================
