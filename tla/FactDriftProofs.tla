-------------------------- MODULE FactDriftProofs --------------------------
(***************************************************************************)
(* What any sequence of mentions and answers does to one fact, whatever    *)
(* values and notes there are.  A null contradicts nothing and is not      *)
(* transitive, so the invariant speaks of the time since the last one; and *)
(* the order of keys matters in an object, so it says that what is stored  *)
(* has the stored order.                                                   *)
(***************************************************************************)
EXTENDS FactDrift, TLAPS

\* A value is nothing by its shape alone, and so is what is kept of it.
LEMMA Shapes ==
  ASSUME NEW v \in Value
  PROVE  /\ v.shape \in {"null", "number", "text", "money", "object"}
         /\ v = Null <=> v.shape = "null"
         /\ v.shape = "money" => v \in Money
         /\ v.shape = "object" => v \in Object
  BY DEF Value, Scalar, Null, Number, Text, Money, Object

LEMMA StoredShape ==
  ASSUME NEW v \in Value
  PROVE  /\ Stored(v) \in Value /\ Stored(v).shape = v.shape
         /\ Stored(v).shape = "object" => Stored(v).order = "stored"
         /\ v.shape # "object" => Stored(v) = v
         /\ v.shape = "object" /\ v.order = "stored" => Stored(v) = v
  <1>1. CASE v.shape = "object"
    <2>1. v \in Object BY <1>1, Shapes
    <2>2. Stored(v) = [v EXCEPT !.order = "stored"] BY <1>1 DEF Stored
    <2>3. Stored(v) \in Object BY <2>1, <2>2 DEF Object
    <2>4. Stored(v).order = "stored" /\ Stored(v).shape = v.shape BY <2>1, <2>2 DEF Object
    <2>5. v.order = "stored" => Stored(v) = v BY <2>1, <2>2 DEF Object
    <2>. QED BY <1>1, <2>3, <2>4, <2>5 DEF Value
  <1>2. CASE v.shape # "object" BY <1>2 DEF Stored
  <1>. QED BY <1>1, <1>2

\* An answer is never nothing, and keeps the sum it accepts.
LEMMA AnnotateShape ==
  ASSUME NEW v \in Spoken \ {Null}, NEW n \in Notes
  PROVE  /\ Annotate(v, n) \in Value /\ Annotate(v, n).shape # "null"
         /\ v.shape = "money" =>
               /\ Annotate(v, n).shape = "money" /\ Annotate(v, n).amount = v.amount
               /\ Annotate(v, n).currency = v.currency
  <1>0. v \in Value /\ v # Null BY DEF Spoken
  <1>1. CASE v.shape = "money"
    <2>1. v \in Money BY <1>0, <1>1, Shapes
    <2>2. Annotate(v, n) = [v EXCEPT !.note = n] BY <1>1 DEF Annotate
    <2>3. Annotate(v, n) \in Money BY <2>1, <2>2 DEF Money
    <2>. QED BY <2>1, <2>2, <2>3 DEF Value, Money
  <1>2. CASE v.shape = "object"
    <2>1. v \in Object BY <1>0, <1>2, Shapes
    <2>2. Annotate(v, n) = [v EXCEPT !.note = n] BY <1>2 DEF Annotate
    <2>3. Annotate(v, n) \in Object BY <2>1, <2>2 DEF Object
    <2>. QED BY <1>2, <2>3 DEF Value, Object
  <1>3. CASE v.shape \notin {"money", "object"}
    <2>1. v \in Scalar BY <1>0, <1>3 DEF Value, Money, Object
    <2>2. Annotate(v, n) = [shape |-> "object", body |-> v, order |-> "stored", note |-> n]
      BY <1>3 DEF Annotate
    <2>3. Annotate(v, n) \in Object BY <2>1, <2>2 DEF Object
    <2>. QED BY <1>3, <2>2, <2>3 DEF Value
  <1>. QED BY <1>1, <1>2, <1>3

\* What the values are compared by is all that matters of them.
LEMMA NormalOrder ==
  ASSUME NEW x \in Value, NEW y \in Value, Normal(x) = Normal(y),
         x.shape = "object" => x.order = "stored", y.shape = "object"
  PROVE  y.order = "stored"
  <1>1. Normal(y) = <<"str", y.body, y.order, y.note>> BY DEF Normal
  <1>2. x.shape = "object"
    <2>1. CASE x.shape = "money"
      <3>1. Normal(x) = <<"money", x.amount, CurrencyOf(x)>> BY <2>1 DEF Normal
      <3>. QED BY <1>1, <3>1
    <2>2. CASE x.shape = "number"
      <3>1. Normal(x) = <<"num", x.amount>> BY <2>2 DEF Normal
      <3>. QED BY <1>1, <3>1
    <2>3. CASE x.shape = "text"
      <3>1. Normal(x) = <<"str", x.word>> BY <2>3 DEF Normal
      <3>. QED BY <1>1, <3>1
    <2>4. CASE x.shape = "null"
      <3>1. Normal(x) = <<"none">> BY <2>4 DEF Normal
      <3>. QED BY <1>1, <3>1
    <2>. QED BY <2>1, <2>2, <2>3, <2>4, Shapes
  <1>3. Normal(x) = <<"str", x.body, x.order, x.note>> BY <1>2 DEF Normal
  <1>. QED BY <1>1, <1>2, <1>3

LEMMA SameSum ==
  ASSUME NEW x, NEW y, x.shape = "money", y.shape = "money",
         x.amount = y.amount, x.currency = y.currency
  PROVE  ~Contradicts(x, y)
  <1>1. Normal(x) = <<"money", x.amount, CurrencyOf(x)>> BY DEF Normal
  <1>2. Normal(y) = <<"money", y.amount, CurrencyOf(y)>> BY DEF Normal
  <1>3. CurrencyOf(x) = CurrencyOf(y) BY DEF CurrencyOf
  <1>. QED BY <1>1, <1>2, <1>3 DEF Contradicts

\* While no null came between, what is stored compares as what was agreed, in
\* an order of keys that no trip to the database changes again.
Settled ==
    /\ existing \in Value /\ agreed \in Value /\ said \in Value
    /\ existing.shape = "object" => existing.order = "stored"
    /\ ~nullSeen => /\ existing.shape # "null" /\ agreed.shape # "null"
                    /\ Normal(existing) = Normal(agreed)
    /\ said.shape = "money" =>
          /\ existing.shape = "money"
          /\ existing.amount = said.amount /\ existing.currency = said.currency

LEMMA SettledBegins == Init => Settled
  <1>. SUFFICES ASSUME Init PROVE Settled OBVIOUS
  <1>1. PICK v \in Spoken \ Object :
          existing = Stored(v) /\ said = v /\ agreed = existing /\ nullSeen = (v = Null)
    BY DEF Init
  <1>2. v \in Value BY DEF Spoken
  <1>3. existing = v BY <1>1, <1>2, Shapes, StoredShape
  <1>. QED BY <1>1, <1>2, <1>3, Shapes, StoredShape DEF Settled

LEMMA MentionSettles ==
  ASSUME Settled, NEW v \in Spoken, Mention(v)
  PROVE  Settled'
  <1>1. v \in Value BY DEF Spoken
  <1>2. /\ ~Contradicts(existing, v) /\ existing' = Stored(v) /\ said' = v
        /\ nullSeen' = (nullSeen \/ v = Null) /\ agreed' = agreed
    BY DEF Mention
  <1>3. PICK kept \in Value : kept = Stored(v) BY <1>1, StoredShape
  <1>4. /\ kept.shape = v.shape /\ (kept.shape = "object" => kept.order = "stored")
        /\ v.shape # "object" => kept = v
    BY <1>1, <1>3, StoredShape
  <1>5. ASSUME ~nullSeen, v # Null
        PROVE  kept.shape # "null" /\ agreed.shape # "null" /\ Normal(kept) = Normal(agreed)
    <2>1. v.shape # "null" /\ existing.shape # "null" /\ agreed.shape # "null"
      BY <1>1, <1>5, Shapes DEF Settled
    <2>2. Normal(existing) = Normal(v) BY <1>2, <2>1 DEF Contradicts
    <2>3. v.shape = "object" => v.order = "stored"
      BY <1>1, <2>2, NormalOrder DEF Settled
    <2>4. kept = v BY <1>1, <1>3, <2>3, StoredShape
    <2>. QED BY <1>5, <2>1, <2>2, <2>4 DEF Settled
  <1>6. /\ existing' = kept /\ existing' \in Value /\ agreed' \in Value /\ said' \in Value
    BY <1>1, <1>2, <1>3 DEF Settled
  <1>7. ~nullSeen' => ~nullSeen /\ v # Null BY <1>2
  <1>. QED BY <1>2, <1>4, <1>5, <1>6, <1>7 DEF Settled

LEMMA AnswerSettles ==
  ASSUME Settled, NEW v \in Spoken, NEW accepted \in Spoken \ {Null}, NEW n \in Notes,
         Resolve(v, accepted, n)
  PROVE  Settled'
  <1>1. accepted \in Value BY DEF Spoken
  <1>2. PICK put \in Value : put = Annotate(accepted, n) BY AnnotateShape
  <1>3. PICK kept \in Value : kept = Stored(put) BY StoredShape
  <1>4. existing' = kept /\ agreed' = kept /\ said' = accepted /\ nullSeen' = FALSE
    BY <1>2, <1>3 DEF Resolve
  <1>5. kept.shape # "null" /\ (kept.shape = "object" => kept.order = "stored")
    BY <1>2, <1>3, AnnotateShape, StoredShape
  <1>6. accepted.shape = "money" =>
            kept.shape = "money" /\ kept.amount = accepted.amount
              /\ kept.currency = accepted.currency
    <2>1. accepted.shape = "money" => put.shape = "money" BY <1>2, AnnotateShape
    <2>2. put.shape = "money" => kept = put BY <1>3, StoredShape
    <2>. QED BY <1>2, <2>1, <2>2, AnnotateShape
  <1>. QED BY <1>1, <1>4, <1>5, <1>6 DEF Settled

LEMMA AlwaysSettled == Spec => []Settled
  <1>1. Settled /\ [Next]_vars => Settled'
    <2>. SUFFICES ASSUME Settled, [Next]_vars PROVE Settled' OBVIOUS
    <2>1. CASE Next BY <2>1, MentionSettles, AnswerSettles DEF Next
    <2>2. CASE UNCHANGED vars BY <2>2 DEF vars, Settled
    <2>. QED BY <2>1, <2>2
  <1>. QED BY SettledBegins, <1>1, PTL DEF Spec

\* Mentions that pass one by one never add up to a contradiction with what the
\* agent settled on, however many there are, unless a null came between
\* (detect_contradiction).
THEOREM MentionsDoNotDrift == Spec => []NoDriftButByNull
  <1>1. Settled => NoDriftButByNull BY DEF Settled, NoDriftButByNull, Contradicts
  <1>. QED BY AlwaysSettled, <1>1, PTL

\* A sum that was said or accepted, with a note or without, and stored, is no
\* contradiction when it is mentioned again (_normalize, resolve_challenge).
THEOREM SumsStaySettled == Spec => []SettledMoney
  <1>1. Settled => SettledMoney BY SameSum DEF Settled, SettledMoney
  <1>. QED BY AlwaysSettled, <1>1, PTL
=============================================================================
