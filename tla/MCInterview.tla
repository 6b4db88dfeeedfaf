----------------------------- MODULE MCInterview -----------------------------
(* Small instances of Interview. *)
EXTENDS Interview, TLC

CONSTANTS r1, r2, r3, r4, r5

Five == {r1, r2, r3, r4, r5}

AllOutcomes == {"none", "challenge", "ambiguity"}

\* Requests differ in nothing but their name.
Symmetry == Permutations(Requests)
=============================================================================
