------------------------------ MODULE MCSlice ------------------------------
(* A small instance of Slice for TLC. *)
EXTENDS Slice, TLC

CONSTANTS d1, d2, d3

Sum(a) == [shape |-> "money", amount |-> a, currency |-> "USD", note |-> NoNote]
Word(w) == [shape |-> "text", word |-> w, styled |-> FALSE]
Says(name, entity, value, edge, until) ==
    [spoken |-> name, entity |-> entity, value |-> value, edge |-> edge, until |-> until]

Low(n) == Says(n, "Budget", Sum(1), "NONE", Open)
High(n) == Says(n, "Budget", Sum(2), "NONE", Open)
Baby(n) == Says(n, "LifeEvent", Word("baby"), "HAS_TRAIT", Open)
Busy(n, until) == Says(n, "Constraint", Word("busy"), "CONSTRAINED_BY", until)

Talk == {<<Low("john"), Busy("john", 2)>>, <<Baby("john"), High("john")>>,
         <<Baby("jon"), Busy("mark", Garbled)>>, <<Busy("john", 3), Low("mary")>>,
         <<Baby("mary"), Busy("mary", Open)>>}

\* Jaro-Winkler, rounded.
Alike == [p \in Names \X Names |->
            CASE p[1] = p[2] -> 100
              [] {p[1], p[2]} = {"john", "jon"} -> 93
              [] {p[1], p[2]} = {"mary", "mark"} -> 88
              [] OTHER -> 0]
\* exp(-0.01 * days), a tick being 180 days: a mark is asked about while mary is
\* remembered, and made later.
Fading == [t \in 0 .. 2 |-> CASE t = 0 -> 100 [] t = 1 -> 17 [] t = 2 -> 3]

HighOnly == {Sum(2)}
=============================================================================
