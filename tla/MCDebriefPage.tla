---------------------------- MODULE MCDebriefPage ----------------------------
EXTENDS DebriefPage
CONSTANTS r1, r2, r3
MCRequests == {r1, r2, r3}
MCOutcomes == {"none", "challenge", "ambiguity"}
=============================================================================
