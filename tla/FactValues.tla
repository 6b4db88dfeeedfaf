----------------------------- MODULE FactValues -----------------------------
(***************************************************************************)
(* The values a Fact carries, when two of them contradict, and what        *)
(* resolving a challenge does to one (src/urie/domain/facts.py and         *)
(* services/ingestion.py).                                                 *)
(*                                                                         *)
(* A value is any JSON the extraction model returns.  The code tells five  *)
(* shapes of it apart: nothing, a number, a text, an object with an        *)
(* "amount" (money) and any other object.                                  *)
(***************************************************************************)
EXTENDS Naturals

CONSTANTS
    Amounts,     \* the numbers in play
    Currencies,  \* the currency codes in play
    Words,       \* texts, up to case and surrounding blanks
    Bodies,      \* contents of objects that have no "amount", up to key order
    Notes        \* what the agent may answer to a challenge

ASSUME CurrencyAssumption == "USD" \in Currencies

Unstated == "unstated"   \* a money object that names no currency
NoNote == "no note"      \* an object without a "resolution_note"

Null   == [shape |-> "null"]
Number == [shape : {"number"}, amount : Amounts]
\* A text as spoken: its word, and whether it differs from the word in case
\* or padding.
Text   == [shape : {"text"}, word : Words, styled : BOOLEAN]
Money  == [shape : {"money"}, amount : Amounts,
           currency : Currencies \cup {Unstated}, note : Notes \cup {NoNote}]
\* Any other object.  Its keys come in the order the model gave them or in
\* the order JSONB keeps them in: str() of a dict shows the difference.
Scalar == {Null} \cup Number \cup Text
Object == [shape : {"object"}, body : Scalar \cup Bodies,
           order : {"given", "stored"}, note : Notes \cup {NoNote}]
Value  == Scalar \cup Money \cup Object

\* What the extraction model returns: a value nobody has put a note in.
Spoken == {v \in Value : v.shape \in {"money", "object"} => v.note = NoNote}

-----------------------------------------------------------------------------
CurrencyOf(m) == IF m.currency = Unstated THEN "USD" ELSE m.currency

\* _normalize: what two values are compared by.  An object without an amount
\* is compared by its text, so by everything in it.
Normal(v) ==
    CASE v.shape = "money"  -> <<"money", v.amount, CurrencyOf(v)>>
      [] v.shape = "number" -> <<"num", v.amount>>
      [] v.shape = "text"   -> <<"str", v.word>>
      [] v.shape = "object" -> <<"str", v.body, v.order, v.note>>
      [] v.shape = "null"   -> <<"none">>

\* values_contradict(existing, candidate).  BugContradicts lets two values of
\* different shapes pass.
BugContradicts(existing, candidate) ==
    /\ existing.shape # "null"
    /\ candidate.shape # "null"
    /\ Normal(existing)[1] = Normal(candidate)[1]
    /\ Normal(existing) # Normal(candidate)

Contradicts(existing, candidate) ==
    /\ existing.shape # "null"
    /\ candidate.shape # "null"
    /\ Normal(existing) # Normal(candidate)

-----------------------------------------------------------------------------
\* The value a resolution writes: the agent's note is put into an object, and
\* anything else is wrapped into an object {"value", "resolution_note"}, two
\* keys JSONB keeps in that order.  BugAnnotate wraps money as well.
BugAnnotate(v, n) ==
    IF v.shape = "object"
    THEN [v EXCEPT !.note = n]
    ELSE [shape |-> "object", body |-> v, order |-> "stored", note |-> n]

Annotate(v, n) ==
    IF v.shape \in {"money", "object"}
    THEN [v EXCEPT !.note = n]
    ELSE [shape |-> "object", body |-> v, order |-> "stored", note |-> n]

\* A value as a JSONB column returns it.
Stored(v) == IF v.shape = "object" THEN [v EXCEPT !.order = "stored"] ELSE v
=============================================================================
