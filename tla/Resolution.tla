----------------------------- MODULE Resolution -----------------------------
(***************************************************************************)
(* Whom a spoken name means (src/urie/domain/entity_resolution.py) under   *)
(* the shipped weights, and as the services call it: with no neighbours as *)
(* context, so that the graph overlap counts nothing.                      *)
(*                                                                         *)
(* Similarities and recencies are hundredths, scores ten-thousandths.      *)
(***************************************************************************)
EXTENDS Integers

\* A person as a candidate: how near a name or alias of theirs is to the spoken
\* one (Jaro-Winkler), how recently they were touched, and their place in the
\* list of candidates, which decides between equal scores.
Candidate == [id : Nat, similarity : 0 .. 100, recency : 0 .. 100, place : Nat]

\* match_score: w1 = 0.5 for the name and w3 = 0.2 for the recency.
Score(c) == 50 * c.similarity + 20 * c.recency

\* sort(reverse=True) is stable.
Beats(c, d) == \/ Score(c) > Score(d)
               \/ Score(c) = Score(d) /\ c.place < d.place
Best(C) == {c \in C : \A d \in C \ {c} : Beats(c, d)}

NearExact(c) == c.similarity >= 98

\* A near-exact best candidate wins when it is the only one or its name is
\* nearer by 0.05 than that of the second by score.
Distinct(C, c) == \A d \in Best(C \ {c}) : c.similarity >= d.similarity + 5

\* UPSERT, CLARIFY and CREATE.
Upserts(C, c) ==
    /\ c \in Best(C)
    /\ (NearExact(c) /\ Distinct(C, c)) \/ Score(c) >= 8500
\* BugCreates asks only about likely persons.
BugCreates(C) == \A c \in C : ~Upserts(C, c)
Creates(C) == \A c \in C : Score(c) < 4500
Clarifies(C) == ~Creates(C) /\ \A c \in C : ~Upserts(C, c)
=============================================================================
