---------------------------- MODULE MCFactLedger ----------------------------
(* Small instances of FactLedger for TLC. *)
EXTENDS FactLedger, TLC

Sum(a) == [shape |-> "money", amount |-> a, currency |-> "USD", note |-> NoNote]
Word(w) == [shape |-> "text", word |-> w, styled |-> FALSE]
Says(name, entity, value, edge) ==
    [spoken |-> name, entity |-> entity, value |-> value, edge |-> edge]

Low  == Says("john", "Budget", Sum(1), "NONE")
High == Says("john", "Budget", Sum(2), "NONE")
Baby == Says("john", "Budget", Word("baby"), "HAS_TRAIT")
Away == Says("john", "Budget", Word("away"), "CONSTRAINED_BY")
MaryLow == Says("mary", "Budget", Sum(1), "NONE")

John == [id |-> 1, name |-> "john"]
Mary == [id |-> 2, name |-> "mary"]

Nobody == {}
Both == {John, Mary}

Mixed == {<<Low, Baby>>, <<Away, High>>}
Unsaid == Says("john", "Budget", Null, "NONE")
Talk == {<<Low>>, <<High, Away>>, <<MaryLow, High>>, <<Unsaid, Low>>, <<Baby>>}
Crossing == {<<Low, MaryLow>>, <<MaryLow, High>>}

NoValue == {}
HighOnly == {Sum(2)}

Symmetry == Permutations(Requests)
=============================================================================
