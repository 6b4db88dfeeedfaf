--------------------------- MODULE InterviewProofs ---------------------------
(***************************************************************************)
(* What holds of Interview for any requests, outcomes and bound of turns.  *)
(*                                                                         *)
(* The shape of the row holds however many requests are in flight.  The    *)
(* rest is claimed for one request at a time (Concurrency = 1): then the   *)
(* copy a request works on is the row as it has written it (Mine), every   *)
(* write is the whole of the copy, and what is left is what each place in  *)
(* the code knows of the copy.                                             *)
(***************************************************************************)
EXTENDS Interview, FiniteSetTheorems, SequenceTheorems, TLAPS

\* A request that has begun and not ended.
Running(r) == req[r].pc \notin {"idle", "done", "failed"}

LEMMA InFlightIsRunning == \A r \in Requests : r \in InFlight <=> Running(r)
  BY DEF InFlight, Running

LEMMA Typed ==
  ASSUME TypeOK, NEW r \in Requests
  PROVE  /\ req[r].copy \in Row /\ req[r].pc \in PCs
         /\ req[r].kind \in {"none", "turn", "resolve", "finish"}
  BY DEF TypeOK

\* What is written field by field is a row.
LEMMA WrittenFields ==
  ASSUME TypeOK, NEW r \in Requests, NEW new \in Row
  PROVE  LET w == Written(r, new) old == IF lock = {r} THEN draft ELSE row IN
         /\ w \in Row
         /\ w.status = IF new.status # req[r].copy.status THEN new.status ELSE old.status
         /\ w.turns = IF new.turns # req[r].copy.turns THEN new.turns ELSE old.turns
         /\ w.transcript = IF new.transcript # req[r].copy.transcript
                           THEN new.transcript ELSE old.transcript
         /\ w.pending = IF new.pending # req[r].copy.pending THEN new.pending ELSE old.pending
         /\ w.question = IF new.question # req[r].copy.question
                         THEN new.question ELSE old.question
  <1>1. PICK w : w = Written(r, new) OBVIOUS
  <1>2. PICK old \in Row : old = IF lock = {r} THEN draft ELSE row BY DEF TypeOK
  <1>3. PICK copy : copy = req[r].copy OBVIOUS
  <1>4. DOMAIN row = {"status", "turns", "transcript", "pending", "question"}
    BY DEF TypeOK, Row
  <1>5. w = [a \in {"status", "turns", "transcript", "pending", "question"} |->
               IF new[a] # copy[a] THEN new[a] ELSE old[a]]
    BY <1>1, <1>2, <1>3, <1>4 DEF Written
  <1>6. /\ w.status = IF new.status # copy.status THEN new.status ELSE old.status
        /\ w.turns = IF new.turns # copy.turns THEN new.turns ELSE old.turns
        /\ w.transcript = IF new.transcript # copy.transcript THEN new.transcript
                          ELSE old.transcript
        /\ w.pending = IF new.pending # copy.pending THEN new.pending ELSE old.pending
        /\ w.question = IF new.question # copy.question THEN new.question ELSE old.question
    BY <1>5
  <1>7. /\ w.status \in Statuses /\ w.turns \in Seq(Requests \cup {Question})
        /\ w.transcript \in Seq(Requests) /\ w.pending \in Pending
        /\ w.question \in Requests \cup {Question, Nobody}
    BY <1>2, <1>6 DEF Row
  <1>8. w = [status |-> w.status, turns |-> w.turns, transcript |-> w.transcript,
             pending |-> w.pending, question |-> w.question]
    BY <1>5
  <1>9. w \in Row BY <1>7, <1>8 DEF Row
  <1>. QED BY <1>1, <1>2, <1>3, <1>6, <1>9
-----------------------------------------------------------------------------
\* The shape of the row, whoever works on it.

\* The request that holds the row runs.
LEMMA HolderRuns ==
  TypeOK <=>
    /\ row \in Row
    /\ draft \in Row
    /\ lock = {} \/ \E q \in Requests : lock = {q} /\ Running(q)
    /\ lock = {} => draft = row
    /\ req \in [Requests -> [kind : {"none", "turn", "resolve", "finish"}, pc : PCs, copy : Row]]
  BY DEF TypeOK, InFlight, Running

\* What a step writes of request r, and of no other.
Sets(r, kind, pc, copy) ==
    /\ req' \in [Requests -> [kind : {"none", "turn", "resolve", "finish"}, pc : PCs, copy : Row]]
    /\ req'[r].kind = kind /\ req'[r].pc = pc /\ req'[r].copy = copy
    /\ \A q \in Requests \ {r} : req'[q] = req[q]

LEMMA SetsCopy ==
  ASSUME TypeOK, NEW r \in Requests, NEW pc \in PCs, NEW new \in Row,
         req' = [req EXCEPT ![r].pc = pc, ![r].copy = new]
  PROVE  Sets(r, req[r].kind, pc, new)
  <1>1. PICK k : k = [req[r] EXCEPT !.pc = pc, !.copy = new] OBVIOUS
  <1>2. /\ k.kind = req[r].kind /\ k.pc = pc /\ k.copy = new
        /\ k \in [kind : {"none", "turn", "resolve", "finish"}, pc : PCs, copy : Row]
    BY <1>1 DEF TypeOK
  <1>3. req'[r] = k /\ \A q \in Requests \ {r} : req'[q] = req[q]
    BY <1>1 DEF TypeOK
  <1>4. req' \in [Requests -> [kind : {"none", "turn", "resolve", "finish"}, pc : PCs, copy : Row]]
    BY <1>1, <1>2 DEF TypeOK
  <1>. QED BY <1>2, <1>3, <1>4 DEF Sets

LEMMA LoadSets ==
  ASSUME TypeOK, NEW r \in Requests, NEW pc \in {"turn", "resolve", "finish"}, Load(r, pc)
  PROVE  Sets(r, pc, pc, row) /\ req[r].pc = "idle" /\ UNCHANGED <<row, draft, lock>>
  <1>1. req' = [req EXCEPT ![r] = [kind |-> pc, pc |-> pc, copy |-> row]] BY DEF Load
  <1>2. pc \in PCs BY DEF PCs
  <1>3. [kind |-> pc, pc |-> pc, copy |-> row]
          \in [kind : {"none", "turn", "resolve", "finish"}, pc : PCs, copy : Row]
    BY <1>2 DEF TypeOK
  <1>. QED BY <1>1, <1>3 DEF Load, Sets, TypeOK

LEMMA FailSets ==
  ASSUME TypeOK, NEW r \in Requests, Fail(r)
  PROVE  /\ Sets(r, req[r].kind, "failed", req[r].copy) /\ Running(r)
         /\ row' = row
         /\ \/ lock = {r} /\ lock' = {} /\ draft' = row
            \/ lock # {r} /\ lock' = lock /\ draft' = draft
  <1>1. "failed" \in PCs BY DEF PCs
  <1>2. req' = [req EXCEPT ![r].pc = "failed"] BY DEF Fail
  <1>3. req[r].copy \in Row BY Typed
  <1>4. PICK k : k = [req[r] EXCEPT !.pc = "failed"] OBVIOUS
  <1>5. /\ k.kind = req[r].kind /\ k.pc = "failed" /\ k.copy = req[r].copy
        /\ k \in [kind : {"none", "turn", "resolve", "finish"}, pc : PCs, copy : Row]
    BY <1>1, <1>4 DEF TypeOK
  <1>6. req'[r] = k /\ \A q \in Requests \ {r} : req'[q] = req[q]
    BY <1>2, <1>4 DEF TypeOK
  <1>7. req' \in [Requests -> [kind : {"none", "turn", "resolve", "finish"}, pc : PCs, copy : Row]]
    BY <1>2, <1>4, <1>5 DEF TypeOK
  <1>8. Running(r) BY DEF Fail, InFlight, Running
  <1>9. lock = {} \/ \E q \in Requests : lock = {q} BY HolderRuns
  <1>10. \/ lock = {r} /\ lock' = {} /\ draft' = row
         \/ lock # {r} /\ lock' = lock /\ draft' = draft
    BY <1>9, HolderRuns DEF Fail
  <1>. QED BY <1>5, <1>6, <1>7, <1>8, <1>10 DEF Sets, Fail

LEMMA FlushSets ==
  ASSUME TypeOK, NEW r \in Requests, NEW pc \in PCs, NEW new \in Row, Flush(r, new, pc)
  PROVE  /\ Sets(r, req[r].kind, pc, new) /\ row' = row
         /\ \/ new = req[r].copy /\ draft' = draft /\ lock' = lock
            \/ new # req[r].copy /\ draft' = Written(r, new) /\ lock' = {r} /\ lock \subseteq {r}
  BY SetsCopy DEF Flush, MayWrite

LEMMA CommitSets ==
  ASSUME TypeOK, NEW r \in Requests, NEW pc \in PCs, NEW new \in Row, Commit(r, new, pc)
  PROVE  /\ Sets(r, req[r].kind, pc, new)
         /\ \/ lock \subseteq {r} /\ row' = Written(r, new) /\ draft' = row' /\ lock' = {}
            \/ ~(lock \subseteq {r}) /\ new = req[r].copy /\ row' = row /\ draft' = draft
               /\ lock' = lock
  <1>1. Sets(r, req[r].kind, pc, new) BY SetsCopy DEF Commit
  <1>2. CASE lock \subseteq {r} BY <1>1, <1>2 DEF Commit
  <1>3. CASE ~(lock \subseteq {r})
    <2>1. new = req[r].copy /\ row' = Written(r, new) /\ UNCHANGED <<draft, lock>>
      BY <1>3 DEF Commit, MayWrite
    <2>2. Written(r, new) = [a \in DOMAIN row |-> row[a]]
      BY <1>3, <2>1 DEF Written
    <2>3. row = [a \in DOMAIN row |-> row[a]] BY DEF TypeOK, Row
    <2>. QED BY <1>1, <1>3, <2>1, <2>2, <2>3
  <1>. QED BY <1>2, <1>3

\* Every step of a request begins, flushes, commits or fails, and what it writes
\* is a row.
LEMMA BeginKeepsType ==
  ASSUME TypeOK, NEW r \in Requests, NEW pc \in {"turn", "resolve", "finish"}, Load(r, pc)
  PROVE  TypeOK'
  <1>1. lock = {} \/ \E q \in Requests : lock = {q} /\ Running(q) BY HolderRuns
  <1>2. \A q \in Requests : Running(q) => q # r BY LoadSets DEF Running
  <1>3. \A q \in Requests : Running(q) => Running(q)' BY <1>2, LoadSets DEF Running, Sets
  <1>. QED BY <1>1, <1>3, LoadSets DEF Sets, HolderRuns, TypeOK, InFlight, Running

LEMMA FlushKeepsType ==
  ASSUME TypeOK, NEW r \in Requests, NEW pc \in PCs \ {"idle", "done", "failed"},
         NEW new \in Row, Flush(r, new, pc)
  PROVE  TypeOK'
  <1>1. Sets(r, req[r].kind, pc, new) BY FlushSets
  <1>2. \A q \in Requests : Running(q) => Running(q)' BY <1>1 DEF Running, Sets
  <1>3. Running(r)' BY <1>1 DEF Running, Sets
  <1>4. lock = {} \/ \E q \in Requests : lock = {q} /\ Running(q) BY HolderRuns
  <1>5. Written(r, new) \in Row BY WrittenFields
  <1>6. /\ row' \in Row /\ draft' \in Row
        /\ lock' = {} \/ \E q \in Requests : lock' = {q} /\ Running(q)'
        /\ lock' = {} => draft' = row'
    <2>1. CASE draft' = draft /\ lock' = lock /\ row' = row
      BY <1>2, <1>4, <2>1 DEF TypeOK
    <2>2. CASE draft' = Written(r, new) /\ lock' = {r} /\ row' = row
      BY <1>3, <1>5, <2>2 DEF TypeOK
    <2>. QED BY <2>1, <2>2, FlushSets
  <1>. QED BY <1>1, <1>6 DEF Sets, TypeOK, InFlight, Running

LEMMA CommitKeepsType ==
  ASSUME TypeOK, NEW r \in Requests, NEW pc \in PCs, NEW new \in Row, Commit(r, new, pc)
  PROVE  TypeOK'
  <1>1. Sets(r, req[r].kind, pc, new) BY CommitSets
  <1>2. \A q \in Requests \ {r} : Running(q) => Running(q)' BY <1>1 DEF Running, Sets
  <1>3. lock = {} \/ \E q \in Requests : lock = {q} /\ Running(q) BY HolderRuns
  <1>4. Written(r, new) \in Row BY WrittenFields
  <1>5. /\ row' \in Row /\ draft' \in Row
        /\ lock' = {} \/ \E q \in Requests : lock' = {q} /\ Running(q)'
        /\ lock' = {} => draft' = row'
    BY <1>2, <1>3, <1>4, CommitSets DEF TypeOK
  <1>. QED BY <1>1, <1>5 DEF Sets, TypeOK, InFlight, Running

LEMMA FailKeepsType == ASSUME TypeOK, NEW r \in Requests, Fail(r) PROVE TypeOK'
  <1>1. Sets(r, req[r].kind, "failed", req[r].copy) BY FailSets
  <1>2. \A q \in Requests \ {r} : Running(q) => Running(q)' BY <1>1 DEF Running, Sets
  <1>3. lock = {} \/ \E q \in Requests : lock = {q} /\ Running(q) BY HolderRuns
  <1>4. /\ row' \in Row /\ draft' \in Row
        /\ lock' = {} \/ \E q \in Requests : lock' = {q} /\ Running(q)'
        /\ lock' = {} => draft' = row'
    BY <1>2, <1>3, FailSets DEF TypeOK
  <1>. QED BY <1>1, <1>4 DEF Sets, TypeOK, InFlight, Running
-----------------------------------------------------------------------------
\* What the copy becomes, place by place.
Said(c, r) == [c EXCEPT !.turns = Append(@, r), !.transcript = Append(@, r)]
Paused(c, p) == [c EXCEPT !.status = "awaiting_resolution", !.pending = p]
Done(c) == [c EXCEPT !.status = "completed", !.pending = NoPending]
Asked(c, r) == [c EXCEPT !.status = "interviewing", !.turns = Append(@, Question), !.question = r]
Closed(c) == [c EXCEPT !.status = "completed", !.question = Nobody]
Named(c) == [c EXCEPT !.status = "active", !.pending = NoPending]
Resumed(c) == [c EXCEPT !.status = "interviewing"]

LEMMA SaidFields ==
  ASSUME NEW c \in Row, NEW r \in Requests
  PROVE  /\ Said(c, r) \in Row
         /\ Said(c, r).turns = Append(c.turns, r)
         /\ Said(c, r).transcript = Append(c.transcript, r)
         /\ Said(c, r).status = c.status /\ Said(c, r).pending = c.pending
         /\ Said(c, r).question = c.question
         /\ Said(c, r) # c
  <1>1. /\ Said(c, r).turns = Append(c.turns, r)
        /\ Said(c, r).transcript = Append(c.transcript, r)
        /\ Said(c, r).status = c.status /\ Said(c, r).pending = c.pending
        /\ Said(c, r).question = c.question
    BY DEF Said, Row
  <1>2. Append(c.turns, r) \in Seq(Requests \cup {Question}) BY DEF Row
  <1>3. Append(c.transcript, r) \in Seq(Requests) BY DEF Row
  <1>4. Said(c, r) \in Row BY <1>2, <1>3 DEF Said, Row
  <1>5. Len(Append(c.turns, r)) = Len(c.turns) + 1 /\ Len(c.turns) \in Nat BY DEF Row
  <1>6. Append(c.turns, r) # c.turns BY <1>5
  <1>. QED BY <1>1, <1>4, <1>6

LEMMA PausedFields ==
  ASSUME NEW c \in Row, NEW p \in Pending
  PROVE  /\ Paused(c, p) \in Row
         /\ Paused(c, p).status = "awaiting_resolution" /\ Paused(c, p).pending = p
         /\ Paused(c, p).turns = c.turns /\ Paused(c, p).transcript = c.transcript
         /\ Paused(c, p).question = c.question
  BY DEF Paused, Row, Statuses

LEMMA DoneFields ==
  ASSUME NEW c \in Row
  PROVE  /\ Done(c) \in Row
         /\ Done(c).status = "completed" /\ Done(c).pending = NoPending
         /\ Done(c).turns = c.turns /\ Done(c).transcript = c.transcript
         /\ Done(c).question = c.question
  BY DEF Done, Row, Statuses, Pending

LEMMA AskedFields ==
  ASSUME NEW c \in Row, NEW r \in Requests
  PROVE  /\ Asked(c, r) \in Row
         /\ Asked(c, r).status = "interviewing" /\ Asked(c, r).turns = Append(c.turns, Question)
         /\ Asked(c, r).question = r
         /\ Asked(c, r).transcript = c.transcript /\ Asked(c, r).pending = c.pending
  <1>1. Append(c.turns, Question) \in Seq(Requests \cup {Question}) BY DEF Row
  <1>. QED BY <1>1 DEF Asked, Row, Statuses

LEMMA ClosedFields ==
  ASSUME NEW c \in Row
  PROVE  /\ Closed(c) \in Row
         /\ Closed(c).status = "completed" /\ Closed(c).question = Nobody
         /\ Closed(c).turns = c.turns /\ Closed(c).transcript = c.transcript
         /\ Closed(c).pending = c.pending
  BY DEF Closed, Row, Statuses

LEMMA NamedFields ==
  ASSUME NEW c \in Row
  PROVE  /\ Named(c) \in Row
         /\ Named(c).status = "active" /\ Named(c).pending = NoPending
         /\ Named(c).turns = c.turns /\ Named(c).transcript = c.transcript
         /\ Named(c).question = c.question
  BY DEF Named, Row, Statuses, Pending

LEMMA ResumedFields ==
  ASSUME NEW c \in Row
  PROVE  /\ Resumed(c) \in Row
         /\ Resumed(c).status = "interviewing" /\ Resumed(c).pending = c.pending
         /\ Resumed(c).turns = c.turns /\ Resumed(c).transcript = c.transcript
         /\ Resumed(c).question = c.question
  BY DEF Resumed, Row, Statuses

\* The second SELECT of a resolution.
Reread(r) ==
    /\ req' = [req EXCEPT ![r].pc = "reopen", ![r].copy = row]
    /\ UNCHANGED <<row, draft, lock>>

LEMMA RereadSets ==
  ASSUME TypeOK, NEW r \in Requests, Reread(r)
  PROVE  Sets(r, req[r].kind, "reopen", row) /\ UNCHANGED <<row, draft, lock>>
  BY SetsCopy DEF Reread, TypeOK, PCs

LEMMA RereadKeepsType ==
  ASSUME TypeOK, NEW r \in Requests, Reread(r)
  PROVE  TypeOK'
  <1>1. Sets(r, req[r].kind, "reopen", row) /\ UNCHANGED <<row, draft, lock>> BY RereadSets
  <1>2. \A q \in Requests : Running(q) => Running(q)' BY <1>1 DEF Running, Sets
  <1>3. lock = {} \/ \E q \in Requests : lock = {q} /\ Running(q) BY HolderRuns
  <1>. QED BY <1>1, <1>2, <1>3 DEF Sets, TypeOK, InFlight, Running

\* Every step, as what it writes.
LEMMA StepCases ==
  ASSUME TypeOK, NEW r \in Requests, Step(r)
  PROVE  LET c == req[r].copy IN
         \/ req[r].pc = "turn" /\ Flush(r, Said(c, r), "extract")
         \/ req[r].pc = "extract" /\ Commit(r, Done(c), "plan")
         \/ req[r].pc = "extract" /\ \E type \in {"challenge", "ambiguity"} :
                Commit(r, Paused(c, [type |-> type, by |-> r]), "done")
         \/ req[r].pc = "plan" /\ UnderCap(c.turns) /\ Commit(r, Asked(c, r), "done")
         \/ req[r].pc = "plan" /\ Commit(r, Closed(c), "done")
         \/ req[r].pc = "resolve" /\ c.pending.type = "challenge"
               /\ Commit(r, Done(c), "resume")
         \/ req[r].pc = "resolve" /\ c.pending.type = "ambiguity"
               /\ Flush(r, Named(c), "again")
         \/ req[r].pc = "again" /\ Commit(r, Done(c), "resume")
         \/ req[r].pc = "again"
               /\ Commit(r, Paused(c, [type |-> "challenge", by |-> r]), "resume")
         \/ req[r].pc = "resume" /\ Reread(r)
         \/ req[r].pc = "reopen" /\ Flush(r, Resumed(c), "replan")
         \/ req[r].pc = "replan" /\ Commit(r, Asked(c, r), "done")
         \/ req[r].pc = "replan" /\ Commit(r, Closed(c), "done")
         \/ req[r].pc = "finish" /\ Commit(r, Closed(c), "done")
  <1>. USE DEF Said, Paused, Done, Asked, Closed, Named, Resumed
  <1>1. CASE FlushTurn(r) BY <1>1 DEF FlushTurn
  <1>2. CASE Extract(r) BY <1>2 DEF Extract, Applied, Pause
  <1>3. CASE Plan(r) BY <1>3 DEF Plan, Ask, Close
  <1>4. CASE Settle(r) BY <1>4 DEF Settle
  <1>5. CASE NamePerson(r) BY <1>5 DEF NamePerson
  <1>6. CASE ApplyWaiting(r) BY <1>6 DEF ApplyWaiting, Applied, Pause
  <1>7. CASE Resume(r) BY <1>7 DEF Resume
  <1>10. CASE Reopen(r) BY <1>10 DEF Reopen, Reread
  <1>8. CASE Replan(r) BY <1>8 DEF Replan, Ask, Close
  <1>9. CASE FinishNow(r) BY <1>9 DEF FinishNow, Close
  <1>. QED BY <1>1, <1>2, <1>3, <1>4, <1>5, <1>6, <1>7, <1>8, <1>9, <1>10 DEF Step

LEMMA StepKeepsType == ASSUME TypeOK, NEW r \in Requests, Step(r) PROVE TypeOK'
  <1>1. PICK c \in Row : c = req[r].copy BY Typed
  <1>2. \A type \in {"challenge", "ambiguity"} : [type |-> type, by |-> r] \in Pending
    BY DEF Pending
  <1>3. /\ Said(c, r) \in Row /\ Done(c) \in Row /\ Asked(c, r) \in Row /\ Closed(c) \in Row
        /\ Named(c) \in Row /\ Resumed(c) \in Row
    BY SaidFields, DoneFields, AskedFields, ClosedFields, NamedFields, ResumedFields
  <1>4. \A type \in {"challenge", "ambiguity"} : Paused(c, [type |-> type, by |-> r]) \in Row
    BY <1>2, PausedFields
  <1>5. ASSUME NEW new \in Row, NEW pc \in {"plan", "resume", "done"}, Commit(r, new, pc)
        PROVE  TypeOK'
    BY <1>5, CommitKeepsType DEF PCs
  <1>6. ASSUME NEW new \in Row, NEW pc \in {"extract", "again", "replan"}, Flush(r, new, pc)
        PROVE  TypeOK'
    BY <1>6, FlushKeepsType DEF PCs
  <1>. QED BY <1>1, <1>3, <1>4, <1>5, <1>6, RereadKeepsType, StepCases

LEMMA TypeKeeps == TypeOK /\ [Next]_vars => TypeOK'
  <1>. SUFFICES ASSUME TypeOK, [Next]_vars PROVE TypeOK' OBVIOUS
  <1>1. ASSUME NEW r \in Requests, SubmitTurn(r) \/ Resolve(r) \/ Finish(r) PROVE TypeOK'
    BY <1>1, BeginKeepsType DEF SubmitTurn, Resolve, Finish
  <1>2. ASSUME NEW r \in Requests, Step(r) PROVE TypeOK' BY <1>2, StepKeepsType
  <1>3. ASSUME NEW r \in Requests, Fail(r) PROVE TypeOK' BY <1>3, FailKeepsType
  <1>4. CASE UNCHANGED vars BY <1>4 DEF vars, TypeOK, InFlight
  <1>. QED BY <1>1, <1>2, <1>3, <1>4 DEF Next

LEMMA TypeBegins == Init => TypeOK
  <1>. SUFFICES ASSUME Init PROVE TypeOK OBVIOUS
  <1>1. Opened \in Row BY DEF Opened, Row, Statuses, Pending
  <1>. QED BY <1>1 DEF Init, TypeOK, PCs

\* However many requests load, flush, commit and fail in any order, the row and
\* every copy of it are rows, and only a request that runs holds the row.
THEOREM TypeCorrect == Spec => []TypeOK
  BY TypeBegins, TypeKeeps, PTL DEF Spec

-----------------------------------------------------------------------------
\* The turns of the user, counted.

LEMMA CountTurns ==
  ASSUME NEW t \in Seq(Requests \cup {Question})
  PROVE  /\ UserTurns(t) \in Nat
         /\ UserTurns(Append(t, Question)) = UserTurns(t)
         /\ \A r \in Requests : UserTurns(Append(t, r)) = UserTurns(t) + 1
  <1>1. PICK S : S = {i \in DOMAIN t : t[i] # Question} OBVIOUS
  <1>2. IsFiniteSet(1..Len(t)) BY FS_Interval
  <1>3. IsFiniteSet(S) /\ Cardinality(S) \in Nat
    BY <1>1, <1>2, FS_Subset, FS_CardinalityType
  <1>4. {i \in DOMAIN Append(t, Question) : Append(t, Question)[i] # Question} = S
    BY <1>1
  <1>5. ASSUME NEW r \in Requests PROVE UserTurns(Append(t, r)) = UserTurns(t) + 1
    <2>1. r # Question BY InterviewAssumption
    <2>2. {i \in DOMAIN Append(t, r) : Append(t, r)[i] # Question} = S \cup {Len(t) + 1}
      BY <1>1, <2>1
    <2>3. Len(t) + 1 \notin S BY <1>1
    <2>4. Cardinality(S \cup {Len(t) + 1}) = Cardinality(S) + 1
      BY <1>3, <2>3, FS_AddElement
    <2>. QED BY <1>1, <2>2, <2>4 DEF UserTurns
  <1>. QED BY <1>1, <1>3, <1>4, <1>5 DEF UserTurns

\* The place in the transcript of the turn at k.
LEMMA PlaceInTurns ==
  ASSUME NEW t \in Seq(Requests \cup {Question}), NEW k \in 1..Len(t), t[k] # Question
  PROVE  UserTurns(SubSeq(t, 1, k)) \in 1..UserTurns(t)
  <1>1. PICK S : S = {i \in DOMAIN t : t[i] # Question} OBVIOUS
  <1>2. IsFiniteSet(S)
    BY <1>1, FS_Interval, FS_Subset
  <1>3. PICK T : T = {i \in 1..k : t[i] # Question} OBVIOUS
  <1>4. T \in SUBSET S /\ k \in T BY <1>1, <1>3
  <1>5. /\ IsFiniteSet(T) /\ Cardinality(T) \in Nat /\ Cardinality(S) \in Nat
        /\ Cardinality(T) <= Cardinality(S)
    BY <1>2, <1>4, FS_Subset, FS_CardinalityType
  <1>6. Cardinality(T) # 0 BY <1>4, <1>5, FS_EmptySet
  <1>7. {i \in DOMAIN SubSeq(t, 1, k) : SubSeq(t, 1, k)[i] # Question} = T
    BY <1>3, SubSeqProperties
  <1>8. UserTurns(t) = Cardinality(S) BY <1>1 DEF UserTurns
  <1>9. UserTurns(SubSeq(t, 1, k)) = Cardinality(T) BY <1>7 DEF UserTurns
  <1>. QED BY <1>5, <1>6, <1>8, <1>9

\* A turn said, or a question asked, changes no place before it.
LEMMA PrefixOfAppend ==
  ASSUME NEW t \in Seq(Requests \cup {Question}), NEW x \in Requests \cup {Question}
  PROVE  /\ \A k \in 1..Len(t) : SubSeq(Append(t, x), 1, k) = SubSeq(t, 1, k)
         /\ SubSeq(Append(t, x), 1, Len(t) + 1) = Append(t, x)
  <1>1. PICK u : u = Append(t, x) OBVIOUS
  <1>0. u \in Seq(Requests \cup {Question}) BY <1>1, AppendProperties
  <1>2. Len(u) = Len(t) + 1 /\ Len(t) \in Nat /\ \A i \in 1..Len(t) : u[i] = t[i]
    BY <1>1, AppendProperties
  <1>3. ASSUME NEW k \in 1..Len(t) PROVE SubSeq(u, 1, k) = SubSeq(t, 1, k)
    <2>1. SubSeq(u, 1, k) = [i \in 1..k |-> u[i]] BY <1>2
    <2>2. SubSeq(t, 1, k) = [i \in 1..k |-> t[i]] BY <1>2
    <2>. QED BY <1>2, <2>1, <2>2
  <1>4. SubSeq(u, 1, Len(u)) = u
    <2>1. SubSeq(u, 1, Len(u)) = [i \in 1..Len(u) |-> u[i]] BY <1>2
    <2>2. u = [i \in 1..Len(u) |-> u[i]] BY <1>0
    <2>. QED BY <2>1, <2>2
  <1>. QED BY <1>1, <1>2, <1>3, <1>4

LEMMA TranscriptKept ==
  ASSUME NEW c \in Row, TranscriptOf(c), NEW r \in Requests
  PROVE  TranscriptOf(Said(c, r)) /\ TranscriptOf(Asked(c, r))
  <1>1. PICK t \in Seq(Requests \cup {Question}) : t = c.turns BY DEF Row
  <1>2. PICK s \in Seq(Requests) : s = c.transcript BY DEF Row
  <1>3. /\ Len(s) = UserTurns(t)
        /\ \A k \in 1..Len(t) : t[k] # Question => s[UserTurns(SubSeq(t, 1, k))] = t[k]
    BY <1>1, <1>2 DEF TranscriptOf
  <1>4. UserTurns(t) \in Nat /\ Len(t) \in Nat /\ r # Question
    BY CountTurns, InterviewAssumption
  <1>5. TranscriptOf(Said(c, r))
    <2>1. PICK t2 : t2 = Append(t, r) OBVIOUS
    <2>5. /\ Len(t2) = Len(t) + 1 /\ t2[Len(t) + 1] = r /\ DOMAIN t2 = 1..Len(t2)
          /\ \A i \in 1..Len(t) : t2[i] = t[i]
      BY <2>1, AppendProperties
    <2>2. PICK s2 : s2 = Append(s, r) OBVIOUS
    <2>6. /\ Len(s2) = Len(s) + 1 /\ s2[Len(s) + 1] = r
          /\ \A i \in 1..Len(s) : s2[i] = s[i]
      BY <2>2, AppendProperties
    <2>7. UserTurns(t2) = UserTurns(t) + 1 BY <2>1, CountTurns
    <2>3. Len(s2) = UserTurns(t2) BY <1>3, <2>6, <2>7
    <2>4. ASSUME NEW k \in 1..Len(t2), t2[k] # Question
          PROVE  s2[UserTurns(SubSeq(t2, 1, k))] = t2[k]
      <3>1. CASE k \in 1..Len(t)
        <4>1. SubSeq(t2, 1, k) = SubSeq(t, 1, k) /\ t2[k] = t[k]
          BY <2>1, <2>5, <3>1, PrefixOfAppend
        <4>2. UserTurns(SubSeq(t, 1, k)) \in 1..Len(s)
          BY <1>3, <2>4, <3>1, <4>1, PlaceInTurns
        <4>3. s[UserTurns(SubSeq(t, 1, k))] = t[k] BY <1>3, <2>4, <3>1, <4>1
        <4>. QED BY <2>6, <4>1, <4>2, <4>3
      <3>2. CASE k \notin 1..Len(t)
        <4>1. k = Len(t) + 1 BY <1>4, <2>5, <3>2
        <4>2. SubSeq(t2, 1, k) = t2 BY <2>1, <4>1, PrefixOfAppend
        <4>3. UserTurns(t2) = Len(s) + 1 BY <1>3, <2>7
        <4>. QED BY <2>5, <2>6, <4>1, <4>2, <4>3
      <3>. QED BY <3>1, <3>2
    <2>8. Said(c, r).turns = t2 /\ Said(c, r).transcript = s2
      BY <1>1, <1>2, <2>1, <2>2, SaidFields
    <2>. QED BY <2>3, <2>4, <2>5, <2>8 DEF TranscriptOf
  <1>6. TranscriptOf(Asked(c, r))
    <2>1. PICK t2 : t2 = Append(t, Question) OBVIOUS
    <2>4. /\ Len(t2) = Len(t) + 1 /\ t2[Len(t) + 1] = Question /\ DOMAIN t2 = 1..Len(t2)
          /\ \A i \in 1..Len(t) : t2[i] = t[i]
      BY <2>1, AppendProperties
    <2>2. Len(s) = UserTurns(t2) BY <1>3, <2>1, CountTurns
    <2>3. ASSUME NEW k \in 1..Len(t2), t2[k] # Question
          PROVE  s[UserTurns(SubSeq(t2, 1, k))] = t2[k]
      <3>1. k \in 1..Len(t) BY <1>4, <2>4, <2>3
      <3>2. SubSeq(t2, 1, k) = SubSeq(t, 1, k) /\ t2[k] = t[k]
        BY <2>1, <2>4, <3>1, PrefixOfAppend
      <3>. QED BY <1>3, <2>3, <3>1, <3>2
    <2>5. Asked(c, r).turns = t2 /\ Asked(c, r).transcript = s
      BY <1>1, <1>2, <2>1, AskedFields
    <2>. QED BY <2>2, <2>3, <2>4, <2>5 DEF TranscriptOf
  <1>. QED BY <1>5, <1>6
-----------------------------------------------------------------------------
\* One request at a time.

\* The copy is the row as its request has written it.
Mine(r) == req[r].copy = IF lock = {r} THEN draft ELSE row

\* How many turns of the user there may be.
Cap == MaxTurns + Cardinality(Answers)

\* What is so of the committed row.
RowInv ==
    /\ row.status # "active"
    /\ row.status = "awaiting_resolution" => row.pending # NoPending
    /\ AsksWhileInterviewing
    /\ TranscriptOf(row)
    /\ UserTurns(row.turns) <= Cap
    /\ row.status = "interviewing" => UserTurns(row.turns) < Cap
    /\ row.status = "completed" =>
          \/ row.question = Nobody
          \/ \E r \in Requests : req[r].pc \in {"failed", "plan", "resume", "reopen", "replan"}

\* What each place knows of its copy: a turn and an answer have room for one
\* turn more.
PlaceInv(r) ==
    Running(r) =>
        /\ Mine(r)
        /\ TranscriptOf(req[r].copy)
        /\ UserTurns(req[r].copy.turns) <= Cap
        /\ req[r].pc \in {"turn", "resolve", "again", "resume", "reopen", "replan"} =>
              UserTurns(req[r].copy.turns) < Cap
        /\ req[r].pc = "resume" => lock # {r}

SerialInv ==
    /\ TypeOK
    /\ \A r, q \in Requests : Running(r) /\ Running(q) => r = q
    /\ IsFiniteSet(Answers)
    /\ \A r \in Requests : req[r].pc = "idle" => req[r].kind = "none"
    /\ RowInv
    /\ \A r \in Requests : PlaceInv(r)
\* A request that runs alone writes its copy and nothing else.
LEMMA SerialWrites ==
  ASSUME SerialInv, NEW r \in Requests, Running(r), NEW new \in Row
  PROVE  Written(r, new) = new /\ lock \subseteq {r}
  <1>1. lock = {} \/ lock = {r}
    BY HolderRuns DEF SerialInv
  <1>2. TypeOK BY DEF SerialInv
  <1>3. PICK old \in Row : old = IF lock = {r} THEN draft ELSE row
    BY DEF SerialInv, TypeOK
  <1>4. req[r].copy = old BY <1>3 DEF SerialInv, PlaceInv, Mine
  <1>5. PICK w \in Row : w = Written(r, new) BY <1>2, WrittenFields
  <1>6. /\ w.status = new.status /\ w.turns = new.turns /\ w.transcript = new.transcript
        /\ w.pending = new.pending /\ w.question = new.question
    BY <1>2, <1>3, <1>4, <1>5, WrittenFields
  <1>7. w = new BY <1>6 DEF Row
  <1>. QED BY <1>1, <1>5, <1>7

\* A step that is not a beginning leaves the number of answers as it is.
LEMMA SameAnswers ==
  ASSUME NEW r \in Requests, NEW pc, NEW copy, Sets(r, req[r].kind, pc, copy)
  PROVE  Answers' = Answers /\ Cap' = Cap
  <1>1. Answers' = Answers BY DEF Answers, Sets
  <1>. QED BY <1>1 DEF Cap

LEMMA CountRow ==
  ASSUME SerialInv
  PROVE  /\ UserTurns(row.turns) \in Nat /\ Cap \in Nat /\ MaxTurns \in Nat \ {0}
         /\ Cardinality(Answers) \in Nat
         /\ \A r \in Requests : UserTurns(req[r].copy.turns) \in Nat
  <1>1. row.turns \in Seq(Requests \cup {Question}) BY DEF SerialInv, TypeOK, Row
  <1>2. \A r \in Requests : req[r].copy.turns \in Seq(Requests \cup {Question})
    BY Typed DEF SerialInv, Row
  <1>3. Cardinality(Answers) \in Nat BY FS_CardinalityType DEF SerialInv
  <1>. QED BY <1>1, <1>2, <1>3, CountTurns, InterviewAssumption DEF Cap

\* What is to be shown of a step that flushes.
LEMMA SerialFlush ==
  ASSUME SerialInv, NEW r \in Requests, Running(r),
         NEW pc \in {"extract", "again", "replan"}, NEW new \in Row, Flush(r, new, pc),
         TranscriptOf(new), UserTurns(new.turns) <= Cap,
         pc # "extract" => UserTurns(new.turns) < Cap,
         req[r].pc \in {"plan", "resume", "reopen", "replan"} => pc = "replan"
  PROVE  SerialInv'
  <1>1. TypeOK /\ pc \in PCs BY DEF SerialInv, PCs
  <1>2. Sets(r, req[r].kind, pc, new) /\ row' = row BY <1>1, FlushSets
  <1>3. TypeOK' BY <1>1, FlushKeepsType
  <1>4. Answers' = Answers /\ Cap' = Cap BY <1>2, SameAnswers
  <1>5. \A q \in Requests : Running(q)' => q = r
    BY <1>2 DEF Running, Sets, SerialInv
  <1>6. Mine(r)'
    <2>1. Written(r, new) = new BY SerialWrites
    <2>2. Mine(r) BY DEF SerialInv, PlaceInv
    <2>3. req'[r].copy = new BY <1>2 DEF Sets
    <2>. QED BY <1>1, <1>2, <2>1, <2>2, <2>3, FlushSets DEF Mine
  <1>7. PlaceInv(r)'
    <2>1. req'[r].copy = new /\ req'[r].pc = pc BY <1>2 DEF Sets
    <2>. QED BY <1>4, <1>6, <2>1 DEF PlaceInv
  <1>8. \A q \in Requests : PlaceInv(q)'
    BY <1>5, <1>7 DEF PlaceInv
  <1>9. RowInv'
    <2>1. row.status = "completed" =>
            \/ row.question = Nobody
            \/ \E q \in Requests : req'[q].pc \in {"failed", "plan", "resume", "reopen", "replan"}
      <3>. SUFFICES ASSUME row.status = "completed", row.question # Nobody
                    PROVE  \E q \in Requests : req'[q].pc \in {"failed", "plan", "resume", "reopen", "replan"}
        OBVIOUS
      <3>1. PICK q \in Requests : req[q].pc \in {"failed", "plan", "resume", "reopen", "replan"}
        BY DEF SerialInv, RowInv
      <3>2. CASE q = r BY <1>2, <3>1, <3>2 DEF Sets, Running
      <3>3. CASE q # r BY <1>2, <3>1, <3>3 DEF Sets
      <3>. QED BY <3>2, <3>3
    <2>. QED BY <1>2, <1>4, <2>1 DEF SerialInv, RowInv, AsksWhileInterviewing, TranscriptOf
  <1>10. \A q \in Requests : req'[q].pc = "idle" => req'[q].kind = "none"
    BY <1>2 DEF Sets, SerialInv
  <1>. QED BY <1>3, <1>4, <1>5, <1>8, <1>9, <1>10 DEF SerialInv

\* What is to be shown of a step that commits.
LEMMA SerialCommit ==
  ASSUME SerialInv, NEW r \in Requests, Running(r),
         NEW pc \in {"plan", "resume", "done"}, NEW new \in Row, Commit(r, new, pc),
         new.status # "active",
         new.status = "awaiting_resolution" => new.pending # NoPending,
         new.status = "interviewing" =>
            /\ new.question # Nobody /\ new.turns[Len(new.turns)] = Question
            /\ UserTurns(new.turns) < Cap,
         TranscriptOf(new), UserTurns(new.turns) <= Cap,
         pc = "resume" => UserTurns(new.turns) < Cap,
         new.status = "completed" => new.question = Nobody \/ pc \in {"plan", "resume"}
  PROVE  SerialInv'
  <1>1. TypeOK /\ pc \in PCs BY DEF SerialInv, PCs
  <1>2. Sets(r, req[r].kind, pc, new) BY <1>1, CommitSets
  <1>3. TypeOK' BY <1>1, CommitKeepsType
  <1>4. Answers' = Answers /\ Cap' = Cap BY <1>2, SameAnswers
  <1>5. \A q \in Requests : Running(q)' => q = r
    BY <1>2 DEF Running, Sets, SerialInv
  <1>6. row' = new /\ lock' = {}
    BY <1>1, CommitSets, SerialWrites
  <1>7. PlaceInv(r)'
    <2>1. req'[r].copy = new /\ req'[r].pc = pc BY <1>2 DEF Sets
    <2>. QED BY <1>4, <1>6, <2>1 DEF PlaceInv, Mine
  <1>8. \A q \in Requests : PlaceInv(q)'
    BY <1>5, <1>7 DEF PlaceInv
  <1>9. RowInv'
    <2>1. req'[r].pc = pc BY <1>2 DEF Sets
    <2>. QED BY <1>4, <1>6, <2>1 DEF RowInv, AsksWhileInterviewing
  <1>10. \A q \in Requests : req'[q].pc = "idle" => req'[q].kind = "none"
    BY <1>2 DEF Sets, SerialInv
  <1>. QED BY <1>3, <1>4, <1>5, <1>8, <1>9, <1>10 DEF SerialInv

\* A request that runs alone reads again what it has committed.
LEMMA SerialReread ==
  ASSUME SerialInv, NEW r \in Requests, req[r].pc = "resume", Reread(r)
  PROVE  SerialInv'
  <1>1. TypeOK BY DEF SerialInv
  <1>2. Sets(r, req[r].kind, "reopen", row) /\ UNCHANGED <<row, draft, lock>>
    BY <1>1, RereadSets
  <1>3. TypeOK' BY <1>1, RereadKeepsType
  <1>4. Answers' = Answers /\ Cap' = Cap BY <1>2, SameAnswers
  <1>5. Running(r) BY DEF Running
  <1>6. \A q \in Requests : Running(q)' => q = r
    BY <1>2, <1>5 DEF Running, Sets, SerialInv
  <1>7. lock # {r} /\ req[r].copy = row BY <1>5 DEF SerialInv, PlaceInv, Mine
  <1>8. PlaceInv(r)'
    <2>1. req'[r].copy = row /\ req'[r].pc = "reopen" BY <1>2 DEF Sets
    <2>. QED BY <1>2, <1>4, <1>5, <1>7, <2>1 DEF SerialInv, PlaceInv, Mine
  <1>9. RowInv'
    <2>1. \A q \in Requests : req[q].pc \in {"failed", "plan", "resume", "reopen", "replan"} =>
            req'[q].pc \in {"failed", "plan", "resume", "reopen", "replan"}
      BY <1>2 DEF Sets
    <2>2. row.status = "completed" =>
            \/ row.question = Nobody
            \/ \E q \in Requests : req'[q].pc \in {"failed", "plan", "resume", "reopen", "replan"}
      BY <2>1 DEF SerialInv, RowInv
    <2>. QED BY <1>2, <1>4, <2>2 DEF SerialInv, RowInv, AsksWhileInterviewing, TranscriptOf
  <1>10. \A q \in Requests : req'[q].pc = "idle" => req'[q].kind = "none"
    BY <1>2 DEF Sets, SerialInv
  <1>. QED BY <1>3, <1>4, <1>6, <1>8, <1>9, <1>10 DEF SerialInv, PlaceInv

LEMMA SerialStep == ASSUME SerialInv, NEW r \in Requests, Step(r) PROVE SerialInv'
  <1>1. PICK c \in Row : c = req[r].copy BY Typed DEF SerialInv
  <1>2. TypeOK BY DEF SerialInv
  <1>3. Running(r) BY <1>2, StepCases DEF Running
  <1>4. /\ TranscriptOf(c) /\ UserTurns(c.turns) <= Cap
        /\ req[r].pc \in {"turn", "resolve", "again", "resume", "reopen", "replan"} =>
              UserTurns(c.turns) < Cap
    BY <1>1, <1>3 DEF SerialInv, PlaceInv
  <1>5. /\ UserTurns(c.turns) \in Nat /\ Cap \in Nat /\ MaxTurns \in Nat \ {0}
        /\ Cardinality(Answers) \in Nat /\ Cap = MaxTurns + Cardinality(Answers)
    BY <1>1, CountRow DEF Cap
  <1>6. c.turns \in Seq(Requests \cup {Question}) BY DEF Row
  <1>7. CASE req[r].pc = "turn" /\ Flush(r, Said(c, r), "extract")
    <2>1. UserTurns(Append(c.turns, r)) = UserTurns(c.turns) + 1 BY <1>6, CountTurns
    <2>2. UserTurns(Said(c, r).turns) <= Cap
      <3>1. UserTurns(c.turns) + 1 <= Cap BY <1>4, <1>5, <1>7
      <3>. QED BY <2>1, <3>1, SaidFields
    <2>. QED BY <1>3, <1>4, <1>7, <2>2, SaidFields, TranscriptKept, SerialFlush
  <1>8. ASSUME req[r].pc \in {"extract", "resolve", "again"},
               NEW pc \in {"plan", "resume"}, req[r].pc # "extract" => pc = "resume",
               req[r].pc = "extract" => pc = "plan", Commit(r, Done(c), pc)
        PROVE  SerialInv'
    <2>1. TranscriptOf(Done(c)) /\ Done(c).turns = c.turns
      BY <1>4, DoneFields DEF TranscriptOf
    <2>. QED BY <1>3, <1>4, <1>8, <2>1, DoneFields, SerialCommit
  <1>9. ASSUME req[r].pc \in {"extract", "again"}, NEW type \in {"challenge", "ambiguity"},
               NEW pc \in {"resume", "done"}, req[r].pc = "extract" => pc = "done",
               Commit(r, Paused(c, [type |-> type, by |-> r]), pc)
        PROVE  SerialInv'
    <2>1. PICK p : p = [type |-> type, by |-> r] OBVIOUS
    <2>2. p \in Pending /\ p # NoPending
      BY <2>1 DEF Pending, NoPending
    <2>3. TranscriptOf(Paused(c, p)) /\ Paused(c, p).turns = c.turns
      BY <1>4, <2>2, PausedFields DEF TranscriptOf
    <2>4. Paused(c, p) \in Row /\ Paused(c, p).status = "awaiting_resolution" /\ Paused(c, p).pending = p
      BY <2>2, PausedFields
    <2>5. pc = "resume" => UserTurns(c.turns) < Cap BY <1>4, <1>9
    <2>6. PICK new \in Row : new = Paused(c, p) BY <2>4
    <2>7. Commit(r, new, pc) BY <1>9, <2>1, <2>6
    <2>8. /\ new.status = "awaiting_resolution" /\ new.pending # NoPending
          /\ TranscriptOf(new) /\ UserTurns(new.turns) <= Cap
          /\ pc = "resume" => UserTurns(new.turns) < Cap
      BY <1>4, <2>2, <2>3, <2>4, <2>5, <2>6
    <2>9. /\ new.status # "active" /\ new.status # "interviewing" /\ new.status # "completed"
          /\ pc \in {"plan", "resume", "done"}
      BY <2>8
    <2>. QED BY <1>3, <2>7, <2>8, <2>9, SerialCommit
  <1>10. ASSUME req[r].pc \in {"plan", "replan"}, req[r].pc = "plan" => UnderCap(c.turns),
                Commit(r, Asked(c, r), "done")
         PROVE  SerialInv'
    <2>1. UserTurns(Append(c.turns, Question)) = UserTurns(c.turns) BY <1>6, CountTurns
    <2>2. UserTurns(Asked(c, r).turns) < Cap
      <3>1. UserTurns(c.turns) < Cap
        <4>1. CASE req[r].pc = "plan" BY <1>5, <1>10, <4>1 DEF UnderCap
        <4>2. CASE req[r].pc = "replan" BY <1>4, <4>2
        <4>. QED BY <1>10, <4>1, <4>2
      <3>. QED BY <2>1, <3>1, AskedFields
    <2>3. Asked(c, r).turns[Len(Asked(c, r).turns)] = Question
      <3>1. Append(c.turns, Question)[Len(Append(c.turns, Question))] = Question BY <1>6
      <3>. QED BY <3>1, AskedFields
    <2>4. r # Nobody BY InterviewAssumption
    <2>5. UserTurns(Asked(c, r).turns) <= Cap
      BY <1>4, <1>5, <2>1, AskedFields
    <2>. QED BY <1>3, <1>4, <1>10, <2>2, <2>3, <2>4, <2>5, AskedFields, TranscriptKept, SerialCommit
  <1>11. ASSUME Commit(r, Closed(c), "done") PROVE SerialInv'
    <2>1. TranscriptOf(Closed(c)) /\ Closed(c).turns = c.turns
      BY <1>4, ClosedFields DEF TranscriptOf
    <2>. QED BY <1>3, <1>4, <1>11, <2>1, ClosedFields, SerialCommit
  <1>12. CASE req[r].pc = "resolve" /\ Flush(r, Named(c), "again")
    <2>1. TranscriptOf(Named(c)) /\ Named(c).turns = c.turns
      BY <1>4, NamedFields DEF TranscriptOf
    <2>. QED BY <1>3, <1>4, <1>12, <2>1, NamedFields, SerialFlush
  <1>13. CASE req[r].pc = "reopen" /\ Flush(r, Resumed(c), "replan")
    <2>1. TranscriptOf(Resumed(c)) /\ Resumed(c).turns = c.turns
      BY <1>4, ResumedFields DEF TranscriptOf
    <2>. QED BY <1>3, <1>4, <1>13, <2>1, ResumedFields, SerialFlush
  <1>14. CASE req[r].pc = "resume" /\ Reread(r) BY <1>14, SerialReread
  <1>. QED BY <1>1, <1>2, <1>7, <1>8, <1>9, <1>10, <1>11, <1>12, <1>13, <1>14, StepCases

LEMMA SerialFail == ASSUME SerialInv, NEW r \in Requests, Fail(r) PROVE SerialInv'
  <1>1. TypeOK BY DEF SerialInv
  <1>2. /\ Sets(r, req[r].kind, "failed", req[r].copy) /\ row' = row
    BY <1>1, FailSets
  <1>3. TypeOK' BY <1>1, FailKeepsType
  <1>4. Answers' = Answers /\ Cap' = Cap BY <1>2, SameAnswers
  <1>5. Running(r) BY <1>1, FailSets
  <1>6. \A q \in Requests : ~Running(q)'
    BY <1>2, <1>5 DEF Running, Sets, SerialInv
  <1>7. RowInv'
    <2>1. req'[r].pc = "failed" BY <1>2 DEF Sets
    <2>. QED BY <1>2, <1>4, <2>1 DEF SerialInv, RowInv, AsksWhileInterviewing, TranscriptOf
  <1>8. \A q \in Requests : req'[q].pc = "idle" => req'[q].kind = "none"
    BY <1>2 DEF Sets, SerialInv
  <1>. QED BY <1>3, <1>4, <1>6, <1>7, <1>8 DEF SerialInv, PlaceInv

\* Nobody begins while another runs, and an answer makes room for a turn.
LEMMA NobodyRuns ==
  ASSUME SerialInv, Concurrency = 1, Cardinality(InFlight) < Concurrency
  PROVE  \A r \in Requests : ~Running(r)
  <1>. SUFFICES ASSUME NEW r \in Requests, Running(r) PROVE FALSE OBVIOUS
  <1>1. InFlight = {r} BY InFlightIsRunning DEF SerialInv, InFlight, Running
  <1>2. Cardinality(InFlight) = 1 BY <1>1, FS_Singleton
  <1>. QED BY <1>2

LEMMA SerialLoad ==
  ASSUME SerialInv, \A q \in Requests : ~Running(q), NEW r \in Requests,
         NEW pc \in {"turn", "resolve", "finish"}, Load(r, pc),
         pc = "turn" => row.status = "interviewing"
  PROVE  SerialInv'
  <1>1. TypeOK BY DEF SerialInv
  <1>2. Sets(r, pc, pc, row) /\ req[r].pc = "idle" /\ UNCHANGED <<row, draft, lock>>
    BY <1>1, LoadSets
  <1>3. TypeOK' BY <1>1, BeginKeepsType
  <1>5. lock = {} BY HolderRuns DEF SerialInv
  <1>6. \A q \in Requests : Running(q)' => q = r BY <1>2 DEF Running, Sets
  <1>7. /\ IsFiniteSet(Answers') /\ Cap' \in Nat /\ Cap <= Cap'
        /\ pc = "resolve" => Cap < Cap'
    <2>1. r \notin Answers BY <1>2 DEF SerialInv, Answers
    <2>2. IsFiniteSet(Answers) /\ Cardinality(Answers) \in Nat /\ Cap = MaxTurns + Cardinality(Answers)
          /\ MaxTurns \in Nat
      BY CountRow DEF SerialInv, Cap
    <2>3. CASE pc = "resolve"
      <3>1. Answers' = Answers \cup {r} BY <1>2, <2>3 DEF Answers, Sets
      <3>2. IsFiniteSet(Answers \cup {r}) /\ Cardinality(Answers \cup {r}) = Cardinality(Answers) + 1
        BY <2>1, <2>2, FS_AddElement
      <3>3. Cap' = MaxTurns + (Cardinality(Answers) + 1) BY <3>1, <3>2 DEF Cap
      <3>. QED BY <2>2, <3>1, <3>2, <3>3
    <2>4. CASE pc # "resolve"
      <3>1. Answers' = Answers BY <1>2, <2>1, <2>4 DEF Answers, Sets
      <3>2. Cap' = Cap BY <3>1 DEF Cap
      <3>. QED BY <2>2, <2>4, <3>1, <3>2
    <2>. QED BY <2>3, <2>4
  <1>8. UserTurns(row.turns) \in Nat /\ Cap \in Nat BY CountRow
  <1>9. UserTurns(row.turns) <= Cap /\ (pc = "turn" => UserTurns(row.turns) < Cap)
    BY DEF SerialInv, RowInv
  <1>10. PlaceInv(r)'
    <2>1. req'[r].copy = row /\ req'[r].pc = pc BY <1>2 DEF Sets
    <2>2. TranscriptOf(row) BY DEF SerialInv, RowInv
    <2>3. Mine(r)' BY <1>2, <1>5, <2>1 DEF Mine
    <2>4. UserTurns(row.turns) <= Cap' BY <1>7, <1>8, <1>9
    <2>5. pc \in {"turn", "resolve"} => UserTurns(row.turns) < Cap' BY <1>7, <1>8, <1>9
    <2>. QED BY <2>1, <2>2, <2>3, <2>4, <2>5 DEF PlaceInv
  <1>11. \A q \in Requests : PlaceInv(q)' BY <1>6, <1>10 DEF PlaceInv
  <1>12. RowInv'
    <2>1. UserTurns(row.turns) <= Cap' /\ (row.status = "interviewing" => UserTurns(row.turns) < Cap')
      BY <1>7, <1>8, <1>9 DEF SerialInv, RowInv
    <2>2. \A q \in Requests : req[q].pc \in {"failed", "plan", "resume", "reopen", "replan"} =>
            req'[q].pc = req[q].pc
      BY <1>2 DEF Sets
    <2>3. row.status = "completed" =>
            \/ row.question = Nobody
            \/ \E q \in Requests : req'[q].pc \in {"failed", "plan", "resume", "reopen", "replan"}
      BY <2>2 DEF SerialInv, RowInv
    <2>. QED BY <1>2, <2>1, <2>3 DEF SerialInv, RowInv, AsksWhileInterviewing, TranscriptOf
  <1>13. \A q \in Requests : req'[q].pc = "idle" => req'[q].kind = "none"
    BY <1>2 DEF Sets, SerialInv
  <1>. QED BY <1>3, <1>6, <1>7, <1>11, <1>12, <1>13 DEF SerialInv

LEMMA SerialBegins == Init => SerialInv
  <1>. SUFFICES ASSUME Init PROVE SerialInv OBVIOUS
  <1>1. /\ row = Opened /\ Answers = {} /\ \A r \in Requests : ~Running(r)
        /\ \A r \in Requests : req[r].kind = "none"
    BY DEF Init, Answers, Running
  <1>2. IsFiniteSet(Answers) /\ Cardinality(Answers) = 0 BY <1>1, FS_EmptySet
  <1>3. UserTurns(Opened.turns) = 0
    <2>1. {i \in DOMAIN Opened.turns : Opened.turns[i] # Question} = {}
      BY DEF Opened
    <2>. QED BY <2>1, FS_EmptySet DEF UserTurns
  <1>4. RowInv
    <2>1. TranscriptOf(Opened) BY <1>3 DEF TranscriptOf, Opened
    <2>2. Cap \in Nat /\ 0 < Cap BY <1>2, InterviewAssumption DEF Cap
    <2>3. Question # Nobody BY DEF Question, Nobody
    <2>4. Opened.turns[Len(Opened.turns)] = Question BY DEF Opened
    <2>5. Opened.status = "interviewing" /\ Opened.question = Question BY DEF Opened
    <2>. QED BY <1>1, <1>3, <2>1, <2>2, <2>3, <2>4, <2>5 DEF RowInv, AsksWhileInterviewing
  <1>. QED BY <1>1, <1>2, <1>4, TypeBegins DEF SerialInv, PlaceInv

LEMMA SerialBegin ==
  ASSUME SerialInv, \A q \in Requests : ~Running(q), NEW r \in Requests,
         SubmitTurn(r) \/ Resolve(r) \/ Finish(r)
  PROVE  SerialInv'
  <1>1. CASE SubmitTurn(r)
    <2>1. row.status \in Statuses BY DEF SerialInv, TypeOK, Row
    <2>2. row.status = "interviewing" BY <1>1, <2>1 DEF SubmitTurn, SerialInv, RowInv, Statuses
    <2>. QED BY <1>1, <2>2, SerialLoad DEF SubmitTurn
  <1>2. CASE Resolve(r) \/ Finish(r) BY <1>2, SerialLoad DEF Resolve, Finish
  <1>. QED BY <1>1, <1>2

LEMMA SerialStutter == SerialInv /\ UNCHANGED vars => SerialInv'
  BY TypeKeeps DEF vars, SerialInv, RowInv, PlaceInv, Mine, Running, Answers, Cap,
     AsksWhileInterviewing, TranscriptOf

LEMMA SerialKeeps == Concurrency = 1 => (SerialInv /\ [Next]_vars => SerialInv')
  <1>. SUFFICES ASSUME Concurrency = 1, SerialInv, [Next]_vars PROVE SerialInv' OBVIOUS
  <1>1. ASSUME NEW r \in Requests, SubmitTurn(r) \/ Resolve(r) \/ Finish(r) PROVE SerialInv'
    <2>1. \A q \in Requests : ~Running(q)
      BY <1>1, NobodyRuns DEF SubmitTurn, Resolve, Finish, Load
    <2>. QED BY <1>1, <2>1, SerialBegin
  <1>2. ASSUME NEW r \in Requests, Step(r) PROVE SerialInv' BY <1>2, SerialStep
  <1>3. ASSUME NEW r \in Requests, Fail(r) PROVE SerialInv' BY <1>3, SerialFail
  <1>. QED BY <1>1, <1>2, <1>3, SerialStutter DEF Next

LEMMA Serial == ASSUME Concurrency = 1 PROVE Spec => []SerialInv
  BY SerialBegins, SerialKeeps, PTL DEF Spec

LEMMA SerialClaims ==
  SerialInv => AsksWhileInterviewing /\ TranscriptIsUserTurns /\ TurnCap /\ ClosedOrCut
  BY DEF SerialInv, RowInv, TranscriptIsUserTurns, TurnCap, Cap, ClosedOrCut, InFlight

\* While requests do not overlap, an interview that goes on has a question open,
\* the last thing said, whichever request failed between its two commits
\* (submit_turn and resolve_debrief).
THEOREM OpenInterviewAsks == ASSUME Concurrency = 1 PROVE Spec => []AsksWhileInterviewing
  BY Serial, SerialClaims, PTL

\* While requests do not overlap, the transcript is what the user said in the
\* turns, in order, whichever request failed (submit_turn).
THEOREM TranscriptFollowsTurns == ASSUME Concurrency = 1 PROVE Spec => []TranscriptIsUserTurns
  BY Serial, SerialClaims, PTL

\* While requests do not overlap, a debrief has no more turns of the user than
\* llm_max_interview_turns and one for each answer to a challenge
\* (submit_turn and resolve_debrief).
THEOREM TurnsAreBounded == ASSUME Concurrency = 1 PROVE Spec => []TurnCap
  BY Serial, SerialClaims, PTL

\* While requests do not overlap, a completed session has no question left open
\* unless a request failed between its two commits (submit_turn and finish).
THEOREM ClosedUnlessCut == ASSUME Concurrency = 1 PROVE Spec => []ClosedOrCut
  BY Serial, SerialClaims, PTL
=============================================================================
