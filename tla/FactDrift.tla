----------------------------- MODULE FactDrift -----------------------------
(***************************************************************************)
(* The active fact of one subject and entity over a sequence of mentions,  *)
(* one client at a time: what the pair get_active and detect_contradiction *)
(* let pass, and what a resolution leaves behind.                          *)
(***************************************************************************)
EXTENDS FactValues

VARIABLES existing,   \* the value of the active fact, as the database returns it
          said,       \* the words that made it so
          agreed,     \* what it was when the agent last answered a challenge
          nullSeen    \* a null was mentioned since then

vars == <<existing, said, agreed, nullSeen>>

\* The first thing said of it: a sum, a number or a text.
Init == \E v \in Spoken \ Object :
        /\ existing = Stored(v)
        /\ said = v
        /\ agreed = existing
        /\ nullSeen = (v = Null)

\* A mention that does not contradict is saved and becomes the active value.
Mention(v) == /\ ~Contradicts(existing, v)
              /\ existing' = Stored(v)
              /\ said' = v
              /\ nullSeen' = (nullSeen \/ v = Null)
              /\ UNCHANGED agreed

\* A mention that does is challenged: the agent accepts it, or names another
\* value, with a note.
Resolve(v, accepted, n) ==
    /\ Contradicts(existing, v)
    /\ existing' = Stored(Annotate(accepted, n))
    /\ said' = accepted
    /\ agreed' = existing'
    /\ nullSeen' = FALSE

Next == \E v \in Spoken :
            \/ Mention(v)
            \/ \E accepted \in Spoken \ {Null}, n \in Notes : Resolve(v, accepted, n)

Spec == Init /\ [][Next]_vars

-----------------------------------------------------------------------------
\* Mentions that pass unchallenged never add up to a contradiction: however
\* many of them there were, the active value agrees with the one the agent
\* last settled on, unless a null came between (detect_contradiction).
NoDriftButByNull == nullSeen \/ ~Contradicts(agreed, existing)

\* Saying or accepting a sum settles it: once it is stored, the same sum
\* mentioned again is no contradiction (_normalize ignores the note).
SettledMoney == said.shape = "money" => ~Contradicts(existing, said)
=============================================================================
