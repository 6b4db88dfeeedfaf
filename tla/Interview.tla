------------------------------ MODULE Interview ------------------------------
(***************************************************************************)
(* A multi-turn debrief: one row of debrief_sessions and the requests on   *)
(* it (src/urie/services/interview.py and resolve_debrief of the router).  *)
(*                                                                         *)
(* A request loads the row and works on its own copy from then on: neither *)
(* a commit (expire_on_commit=False) nor a SELECT refreshes it while the   *)
(* request holds on to it.  A turn does to its end.  A resolution lets go  *)
(* of it with the answer, and the router loads the row again to go on with *)
(* the interview.  A flush writes the attributes whose value in the copy   *)
(* changed and no other, and holds the row until the commit.  A turn and a *)
(* resolution commit twice, and between the commits others see a session   *)
(* that looks settled.                                                     *)
(*                                                                         *)
(* What the facts say is left to FactLedger: here the mutation pipeline    *)
(* ends in one of Outcomes.                                                *)
(***************************************************************************)
EXTENDS Naturals, Sequences, FiniteSets

CONSTANTS
    Requests,     \* the requests of a behaviour
    Outcomes,     \* how the mutation pipeline may end a turn
    MaxTurns,     \* llm_max_interview_turns
    Concurrency   \* BOUND: requests in flight at once

Question == "question"      \* a turn of the assistant
Nobody == "nobody"

ASSUME InterviewAssumption ==
    /\ Outcomes \subseteq {"none", "challenge", "ambiguity"}
    /\ MaxTurns \in Nat \ {0}
    /\ Question \notin Requests
    /\ Nobody \notin Requests

Statuses == {"interviewing", "active", "awaiting_resolution", "completed"}

\* pending_challenge, told apart by the request that raised it.
NoPending == [type |-> "none", by |-> Nobody]
Pending == {NoPending} \cup [type : {"challenge", "ambiguity"}, by : Requests]

\* A turn of the user is the request that brought it, and next_question the
\* request that asked it, or the opening question, or none.
Row == [status : Statuses,
        turns : Seq(Requests \cup {Question}),
        transcript : Seq(Requests),
        pending : Pending,
        question : Requests \cup {Question, Nobody}]

PCs == {"idle", "turn", "extract", "plan", "resolve", "again", "resume", "reopen",
        "replan", "finish", "done", "failed"}

VARIABLES
    row,      \* the committed row
    draft,    \* the row as the request that holds it has written it
    lock,     \* the request that holds the row, as a set of at most one
    req       \* what each request is and does next, and its copy of the row

vars == <<row, draft, lock, req>>

InFlight == {r \in Requests : req[r].pc \notin {"idle", "done", "failed"}}

Opened == [status |-> "interviewing", turns |-> <<Question>>, transcript |-> <<>>,
           pending |-> NoPending, question |-> Question]

\* start_interview has committed the row with its opening question.
Init ==
    /\ row = Opened
    /\ draft = Opened
    /\ lock = {}
    /\ req = [r \in Requests |-> [kind |-> "none", pc |-> "idle", copy |-> Opened]]

-----------------------------------------------------------------------------
\* The SELECT a request begins with.
Load(r, pc) ==
    /\ req[r].pc = "idle"
    /\ Cardinality(InFlight) < Concurrency
    /\ req' = [req EXCEPT ![r] = [kind |-> pc, pc |-> pc, copy |-> row]]
    /\ UNCHANGED <<row, draft, lock>>

\* An UPDATE waits for the row; nothing is sent when nothing has changed.
MayWrite(r, new) == lock \subseteq {r} \/ new = req[r].copy

\* The row once the copy has become new.
Written(r, new) ==
    [a \in DOMAIN row |->
        IF new[a] # req[r].copy[a] THEN new[a]
        ELSE IF lock = {r} THEN draft[a] ELSE row[a]]

Flush(r, new, pc) ==
    /\ MayWrite(r, new)
    /\ IF new = req[r].copy THEN UNCHANGED <<draft, lock>>
       ELSE draft' = Written(r, new) /\ lock' = {r}
    /\ req' = [req EXCEPT ![r].pc = pc, ![r].copy = new]
    /\ UNCHANGED row

Commit(r, new, pc) ==
    /\ MayWrite(r, new)
    /\ row' = Written(r, new)
    /\ IF lock \subseteq {r} THEN draft' = row' /\ lock' = {}
       ELSE UNCHANGED <<draft, lock>>
    /\ req' = [req EXCEPT ![r].pc = pc, ![r].copy = new]

-----------------------------------------------------------------------------
\* submit_turn.  A completed session and one that waits for an answer are
\* refused.
SubmitTurn(r) ==
    /\ row.status # "completed"
    /\ row.status = "awaiting_resolution" => row.pending = NoPending
    /\ Load(r, "turn")

\* The user's turn is written, and the row held while the model extracts.
\* BugFlushTurn forgets the transcript.
BugFlushTurn(r) ==
    /\ req[r].pc = "turn"
    /\ Flush(r, [req[r].copy EXCEPT !.turns = Append(@, r)], "extract")
FlushTurn(r) ==
    /\ req[r].pc = "turn"
    /\ Flush(r, [req[r].copy EXCEPT !.turns = Append(@, r),
                                    !.transcript = Append(@, r)], "extract")

\* _process_mutations, to its commit: of the mutations of a turn, or of the one
\* that waited for its person to be known, whose person is not asked again.
Pause(r, type, pc) ==
    /\ type \in Outcomes \ {"none"}
    /\ Commit(r, [req[r].copy EXCEPT !.status = "awaiting_resolution",
                                     !.pending = [type |-> type, by |-> r]], pc)
\* BugApplied leaves the status to the planner.
BugApplied(r, pc) ==
    /\ "none" \in Outcomes
    /\ Commit(r, [req[r].copy EXCEPT !.pending = NoPending], pc)
Applied(r, pc) ==
    /\ "none" \in Outcomes
    /\ Commit(r, [req[r].copy EXCEPT !.status = "completed", !.pending = NoPending], pc)

Extract(r) ==
    /\ req[r].pc = "extract"
    /\ \/ Applied(r, "plan")
       \/ \E type \in {"challenge", "ambiguity"} : Pause(r, type, "done")

-----------------------------------------------------------------------------
\* The planner asks another question, or is done.
Ask(r) ==
    Commit(r, [req[r].copy EXCEPT !.status = "interviewing",
                                  !.turns = Append(@, Question),
                                  !.question = r], "done")
\* BugClose leaves the question open.
BugClose(r) ==
    Commit(r, [req[r].copy EXCEPT !.status = "completed"], "done")
Close(r) ==
    Commit(r, [req[r].copy EXCEPT !.status = "completed", !.question = Nobody], "done")

UserTurns(turns) == Cardinality({i \in DOMAIN turns : turns[i] # Question})

\* A turn is followed by a question while there are turns left.  BugUnderCap
\* allows one too many.
BugUnderCap(turns) == UserTurns(turns) <= MaxTurns
UnderCap(turns) == UserTurns(turns) < MaxTurns
Plan(r) ==
    /\ req[r].pc = "plan"
    /\ (UnderCap(req[r].copy.turns) /\ Ask(r)) \/ Close(r)

-----------------------------------------------------------------------------
\* resolve_debrief: whatever is pending is answered, without a look at the
\* status.  The row is loaded by resolve_challenge or resolve_ambiguity; the
\* router's look before it only chooses between them, and a wrong choice is
\* refused and changes nothing.
Resolve(r) ==
    /\ row.pending # NoPending
    /\ Load(r, "resolve")

\* resolve_challenge.
Settle(r) ==
    /\ req[r].pc = "resolve"
    /\ req[r].copy.pending.type = "challenge"
    /\ Commit(r, [req[r].copy EXCEPT !.status = "completed", !.pending = NoPending], "resume")

\* resolve_ambiguity: the session is active again, and the mutation that
\* waited is processed.
NamePerson(r) ==
    /\ req[r].pc = "resolve"
    /\ req[r].copy.pending.type = "ambiguity"
    /\ Flush(r, [req[r].copy EXCEPT !.status = "active", !.pending = NoPending], "again")
ApplyWaiting(r) ==
    /\ req[r].pc = "again"
    /\ Applied(r, "resume") \/ Pause(r, "challenge", "resume")

\* The router loads the row again, with whatever others have committed since the
\* answer, forces the interview on, and asks the planner, which knows the bound
\* only from its prompt.
Reopen(r) ==
    /\ req[r].pc = "resume"
    /\ req' = [req EXCEPT ![r].pc = "reopen", ![r].copy = row]
    /\ UNCHANGED <<row, draft, lock>>
Resume(r) ==
    /\ req[r].pc = "reopen"
    /\ Flush(r, [req[r].copy EXCEPT !.status = "interviewing"], "replan")
Replan(r) ==
    /\ req[r].pc = "replan"
    /\ Ask(r) \/ Close(r)

-----------------------------------------------------------------------------
\* finish: at any status.
Finish(r) == Load(r, "finish")
FinishNow(r) == req[r].pc = "finish" /\ Close(r)

\* The model, the worker or the database raises, or the process dies; what was
\* not committed is gone.  From Reopen on the router hides it.  BugFail
\* keeps the row.
BugFail(r) ==
    /\ r \in InFlight
    /\ req' = [req EXCEPT ![r].pc = "failed"]
    /\ UNCHANGED <<row, draft, lock>>
Fail(r) ==
    /\ r \in InFlight
    /\ lock' = lock \ {r}
    /\ draft' = IF lock = {r} THEN row ELSE draft
    /\ req' = [req EXCEPT ![r].pc = "failed"]
    /\ UNCHANGED row

Step(r) == \/ FlushTurn(r) \/ Extract(r) \/ Plan(r) \/ Settle(r) \/ NamePerson(r)
           \/ ApplyWaiting(r) \/ Reopen(r) \/ Resume(r) \/ Replan(r) \/ FinishNow(r)

Next == \E r \in Requests :
            SubmitTurn(r) \/ Resolve(r) \/ Finish(r) \/ Step(r) \/ Fail(r)

Spec == Init /\ [][Next]_vars

-----------------------------------------------------------------------------
\* The row, its uncommitted version and every copy of it are rows, and an
\* uncommitted version exists only while a request holds the row.
TypeOK ==
    /\ row \in Row
    /\ draft \in Row
    /\ lock \in {{}} \cup {{r} : r \in InFlight}
    /\ lock = {} => draft = row
    /\ req \in [Requests -> [kind : {"none", "turn", "resolve", "finish"}, pc : PCs, copy : Row]]

\* One request at a time: an interview that goes on waits for the answer to a
\* question, the last thing said, whichever request failed between its two
\* commits (submit_turn and resolve_debrief).
AsksWhileInterviewing ==
    row.status = "interviewing" =>
        /\ row.question # Nobody
        /\ row.turns[Len(row.turns)] = Question

\* One request at a time: the transcript is what the user said in the turns, in
\* order, although a turn commits the two at different moments and the planner
\* writes the turns again from an older copy.
TranscriptOf(r) ==
    /\ Len(r.transcript) = UserTurns(r.turns)
    /\ \A k \in DOMAIN r.turns : r.turns[k] # Question =>
          r.transcript[UserTurns(SubSeq(r.turns, 1, k))] = r.turns[k]
TranscriptIsUserTurns == TranscriptOf(row)

\* One request at a time: "Bounded by llm_max_interview_turns (cost invariant)",
\* as far as it goes.  An answer reopens the interview without counting, but it
\* allows one turn more at most.  Requests that overlap break even this bound: a
\* copy from before an answer can open the row again and again.
Answers == {r \in Requests : req[r].kind = "resolve"}
TurnCap == UserTurns(row.turns) <= MaxTurns + Cardinality(Answers)

\* One request at a time: "finish when gaps exhausted / max turns".  A completed
\* session has no question left open, unless a request failed after a commit.
ClosedOrCut ==
    InFlight = {} /\ row.status = "completed" =>
        row.question = Nobody \/ \E r \in Requests : req[r].pc = "failed"
=============================================================================
