------------------------------- MODULE NoteBook -------------------------------
(***************************************************************************)
(* What a CRM write-back promises: "Idempotent CRM write-back log (keyed   *)
(* on fact_id)" (CRMWriteback in src/urie/adapters/db/models.py).  A fact  *)
(* has one note at most, the first that was written, and nobody is told    *)
(* that a note is prepared when there is none.                             *)
(***************************************************************************)
CONSTANTS Facts, Notes, NoNote

VARIABLES
    notes,   \* the note of each fact, or NoNote
    told     \* the facts whose note somebody was told is prepared

Init ==
    /\ notes = [f \in Facts |-> NoNote]
    /\ told = {}

\* A note is written beside those there are.
Write(f, n) ==
    /\ notes[f] = NoNote
    /\ notes' = [notes EXCEPT ![f] = n]
    /\ UNCHANGED told

Tell(f) ==
    /\ notes[f] # NoNote
    /\ told' = told \cup {f}
    /\ UNCHANGED notes

Next == \E f \in Facts : Tell(f) \/ \E n \in Notes : Write(f, n)

Spec == Init /\ [][Next]_<<notes, told>>
=============================================================================
