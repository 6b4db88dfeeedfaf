----------------------------- MODULE MCTodayFeed -----------------------------
EXTENDS TodayFeed
CONSTANTS i1, i2, c1, c2
MCItems == {i1, i2}
MCClicks == {c1, c2}
=============================================================================
