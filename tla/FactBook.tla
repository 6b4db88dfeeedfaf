------------------------------ MODULE FactBook ------------------------------
(***************************************************************************)
(* What the fact store promises, whoever keeps it: a book that is only     *)
(* added to.  The agent says things, which must agree with what the book   *)
(* says last; a contradiction gets in only as the agent's answer to a      *)
(* challenge, beside a pointer from the entry it takes the place of.       *)
(*                                                                         *)
(* FactLedger (PostgreSQL, concurrent requests) and Slice (the in-memory   *)
(* engine) both implement it.                                              *)
(***************************************************************************)
EXTENDS Naturals

CONSTANT Contradicts(_, _)   \* existing value, candidate value

VARIABLE book   \* entries [id, subject, entity, value, how, next]

None == 0

\* What the book says last about an entity of a subject, as a set of at most
\* one entry.
Standing(b, s, e) == {x \in b : x.subject = s /\ x.entity = e /\ x.next = None}
Current(b, s, e) ==
    {x \in Standing(b, s, e) : \A y \in Standing(b, s, e) : y.id <= x.id}

Init == book = {}

\* New entries: of nothing the book has, and none of them an answer.  What is
\* said (and not merely noted: traits, constraints) agrees with what stood
\* before it in the book or among the new entries.
Say ==
    /\ book \subseteq book'
    /\ \A x \in book' \ book :
          /\ x.next = None
          /\ x.how # "verified"
          /\ \A y \in book' : y.id = x.id => y = x
          /\ x.how = "said" =>
                \A y \in Current(book \cup {z \in book' : z.id < x.id}, x.subject, x.entity) :
                    ~Contradicts(y.value, x.value)

\* An answer n to the challenge that entry o was contradicted.  An entry that
\* was answered before is answered again: the last answer is kept.
Answer ==
    \E o \in book, n \in book' :
        /\ n.how = "verified" /\ n.next = None
        /\ n.subject = o.subject /\ n.entity = o.entity
        /\ \A y \in book : y.id # n.id
        /\ o.id < n.id
        /\ book' = (book \ {o}) \cup {[o EXCEPT !.next = n.id], n}

Next == Say \/ Answer

Spec == Init /\ [][Next]_book
=============================================================================
