---------------------------- MODULE MCProfilePage ----------------------------
EXTENDS ProfilePage, TLC
CONSTANTS f1, n1, n2, q1, q2
MCFacts == {f1}
MCNotes == {n1, n2}
MCRequests == {q1, q2}
MCPages == {"/today", "/relationships/p"}
MCProfile == "/relationships/p"
Symmetry == Permutations(MCNotes) \cup Permutations(MCRequests)
=============================================================================
