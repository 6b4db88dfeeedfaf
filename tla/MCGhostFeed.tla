---------------------------- MODULE MCGhostFeed ----------------------------
(* Small instances of GhostFeed. *)
EXTENDS GhostFeed, TLC

CONSTANTS w1, w2, p1, p2

NoWorkers == {}
OnlyW1 == {w1}
BothWorkers == {w1, w2}
OnePerson == {p1}
TwoPeople == {p1, p2}

\* Workers and people differ in nothing but their name.
Symmetry == Permutations(BothWorkers) \cup Permutations(TwoPeople)
=============================================================================
