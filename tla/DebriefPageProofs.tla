-------------------------- MODULE DebriefPageProofs --------------------------
(***************************************************************************)
(* What holds of DebriefPage for any number of requests, at the page and   *)
(* at the server at once.                                                  *)
(*                                                                         *)
(* The page's claims each need their own part of the invariant: what a     *)
(* request asks for and where it can be (Kinds), which of them can be      *)
(* under way together (Waits), whose turns are in the transcript (Turns),  *)
(* which answers are the same (Answered), and what of the row the page     *)
(* shows: its challenge, even beside a finish (Challenges), and all of it  *)
(* while requests do not overlap (Shown).                                  *)
(***************************************************************************)
EXTENDS DebriefPage, InterviewProofs

\* Places after the first commit of a request.
Past == {"plan", "resume", "reopen", "replan", "done"}

\* Where a request can be, by what it asks for, and when it holds the row.
KindInv(r) ==
    /\ call[r] = "none" => asks[r] = "none" /\ text[r] = Nobody /\ req[r].pc = "idle"
    /\ call[r] # "none" => asks[r] \in {"turn", "resolve", "finish"}
    /\ text[r] # Nobody <=> asks[r] = "turn"
    /\ asks[r] = "turn" => req[r].pc \in {"idle", "turn", "extract", "plan", "done", "failed"}
    /\ asks[r] = "resolve" =>
          req[r].pc \in {"idle", "resolve", "again", "resume", "reopen", "replan", "done", "failed"}
    /\ asks[r] = "finish" => req[r].pc \in {"idle", "finish", "done", "failed"}
    /\ r \in hidden => asks[r] = "resolve" /\ req[r].pc = "failed"
    /\ call[r] = "told" => req[r].pc \in {"done", "failed"}
    /\ call[r] = "error" => req[r].pc \in {"idle", "failed"}
    /\ call[r] = "dropped" => ~open \/ unsure # {}
    /\ asks[r] = "finish" /\ req[r].pc = "done" => req[r].copy.status = "completed"
    /\ lock = {r} => req[r].pc \in {"extract", "again", "replan"}
    /\ req[r].pc = "again" =>
          lock = {r} /\ draft.pending = NoPending /\ req[r].copy.pending = NoPending
    /\ req[r].pc = "replan" /\ lock = {r} => draft.pending = row.pending

\* What can be under way together.
WaitInv ==
    /\ \A r, s \in Requests :
          call[r] = "waiting" /\ call[s] = "waiting" /\ r # s =>
              {asks[r], asks[s]} = {"finish", "resolve"}
    /\ \A r \in Requests : call[r] = "waiting" /\ asks[r] = "turn" => view.pending = NoPending

\* The turns in a transcript, and in the copy of request q, were committed by
\* their requests, or are about to be.
Committed(r) ==
    /\ asks[r] = "turn"
    /\ req[r].pc \in {"plan", "done"} \/ (req[r].pc = "failed" /\ r \in unsure)
Distinct(t) == \A i, j \in DOMAIN t : t[i] = t[j] => i = j
Sound(t, q) ==
    /\ Distinct(t)
    /\ \A i \in DOMAIN t : Committed(t[i]) \/ (t[i] = q /\ req[q].pc = "extract")
TurnInv ==
    /\ Distinct(row.transcript)
    /\ \A i \in DOMAIN row.transcript : Committed(row.transcript[i])
    /\ \A q \in Requests : lock = {q} => Sound(draft.transcript, q)
    /\ \A q \in Requests : Running(q) => Sound(req[q].copy.transcript, q)

\* Of two requests with one answer, one is not in the transcript or was shown
\* as failed.
Safe == {r \in Requests : r \in unsure \/ (call[r] = "error" /\ req[r].pc \in {"idle", "failed"})}
AnswerInv ==
    /\ \A r, s \in Requests : r # s /\ text[r] # Nobody /\ text[r] = text[s] => r \in Safe \/ s \in Safe
    /\ open => \A r \in Requests :
          text[r] # Nobody /\ text[r] = composer => r \in Safe \/ call[r] = "waiting"
    /\ \A r \in Requests : text[r] # Nobody => call[text[r]] # "none"
    /\ composer # Nobody => call[composer] # "none"

\* A request whose answer the page does not know, and one that may have changed
\* the challenge.
Untold(r) == call[r] = "waiting" /\ (req[r].pc \in Past \/ r \in hidden)
Unresolved(r) == Untold(r) /\ asks[r] # "finish"

\* A turn is sent while nothing is pending.
TurnClear(r) ==
    call[r] = "waiting" /\ asks[r] = "turn" =>
        /\ req[r].pc \in {"idle", "turn", "extract"} => row.pending = NoPending
        /\ req[r].pc \in {"turn", "extract"} => req[r].copy.pending = NoPending
        /\ req[r].pc = "extract" => lock = {r} /\ draft.pending = NoPending

\* A resolution whose answer stands if what follows fails.
Answering(r) == req[r].pc \in {"resume", "reopen", "replan"} \/ r \in hidden

\* What the page knows of the challenge.
Certain == open /\ unsure = {}
ChallengeInv ==
    Certain =>
        /\ view.status # "completed" /\ (\A r \in Requests : ~Unresolved(r)) =>
              view.pending = row.pending
        /\ \A r \in Requests : Unresolved(r) =>
              /\ req[r].copy.pending = row.pending
              /\ Answering(r) => answer[r].pending = row.pending
        /\ \A r \in Requests : TurnClear(r)

\* A request works on the row as it is, and its answer shows it.
Shows(r) ==
    call[r] = "waiting" =>
        /\ Running(r) => Mine(r)
        /\ req[r].pc = "done" => View(req[r].copy) = View(row)
        /\ Answering(r) => answer[r] = View(row)

\* What the page knows of the row.
Quiet == Certain /\ ~Overlapped
ShownInv ==
    Quiet =>
        /\ (\A r \in Requests : ~Untold(r)) => view = View(row)
        /\ \A r \in Requests : Shows(r)

PageInv ==
    /\ PageTypeOK
    /\ \A r \in Requests : KindInv(r)
    /\ WaitInv /\ TurnInv /\ AnswerInv /\ ChallengeInv /\ ShownInv
-----------------------------------------------------------------------------
\* The server under the page is the server.

LEMMA PageStepIsStep == [PageNext]_allVars => [Next]_vars
  <1>. SUFFICES ASSUME PageNext \/ UNCHANGED allVars PROVE Next \/ UNCHANGED vars
    OBVIOUS
  <1>1. CASE UNCHANGED allVars BY <1>1 DEF allVars, vars
  <1>2. CASE Leave BY <1>2 DEF Leave
  <1>3. ASSUME NEW r \in Requests, Answer(r) \/ Choose(r) \/ Confirm(r) \/ PressFinish(r)
        PROVE  UNCHANGED vars
    BY <1>3 DEF Answer, Choose, Confirm, PressFinish, Send
  <1>4. ASSUME NEW r \in Requests, Hear(r) \/ HearError(r) \/ Lose(r)
        PROVE  UNCHANGED vars
    BY <1>4 DEF Hear, HearError, Lose
  <1>5. ASSUME NEW r \in Requests, Reach(r) \/ Work(r) \/ Break(r) PROVE Next
    BY <1>5 DEF Reach, Work, Break, Next
  <1>. QED BY <1>1, <1>2, <1>3, <1>4, <1>5 DEF PageNext

\* A debrief page, whatever it sends and loses, asks nothing of the server that
\* Interview does not allow.
THEOREM PageImplementsInterview == PageSpec => Spec
  <1>1. PageInit => Init BY DEF PageInit
  <1>. QED BY <1>1, PageStepIsStep, PTL DEF PageSpec, Spec

\* What the page writes of the mutation r.
Calls(r, state) == call' = [call EXCEPT ![r] = state]

LEMMA CallsFields ==
  ASSUME PageTypeOK, NEW r \in Requests,
         NEW state \in {"none", "waiting", "told", "error", "dropped"}, Calls(r, state)
  PROVE  /\ call'[r] = state /\ \A q \in Requests \ {r} : call'[q] = call[q]
         /\ call' \in [Requests -> {"none", "waiting", "told", "error", "dropped"}]
  BY DEF PageTypeOK, Calls

LEMMA ViewTyped ==
  ASSUME NEW c \in Row
  PROVE  /\ View(c) \in Views /\ ResolvedView(c) \in Views
         /\ View(c).status = c.status /\ View(c).pending = c.pending
         /\ View(c).question = c.question
         /\ ResolvedView(c).status = IF c.pending = NoPending THEN "completed"
                                     ELSE "awaiting_resolution"
         /\ ResolvedView(c).pending = c.pending /\ ResolvedView(c).question = c.question
  BY DEF View, ResolvedView, Views, Row, Statuses

\* A send, as what it writes.
Sends(r, kind) ==
    /\ call[r] = "none" /\ Calls(r, "waiting")
    /\ asks' = [asks EXCEPT ![r] = kind]
    /\ InSession
    /\ UNCHANGED <<vars, open, view, answer, hidden, unsure>>

LEMMA SendCases ==
  ASSUME NEW r \in Requests, Answer(r) \/ Choose(r) \/ Confirm(r) \/ PressFinish(r)
  PROVE  \/ /\ Sends(r, "turn") /\ ~Busy /\ view.pending = NoPending
            /\ \E t \in {r, composer} \ {Nobody} : text' = [text EXCEPT ![r] = t] /\ composer' = t
         \/ Sends(r, "resolve") /\ ~Busy /\ UNCHANGED <<text, composer>>
         \/ /\ Sends(r, "resolve") /\ ~Waiting("resolve") /\ view.pending.type = "challenge"
            /\ UNCHANGED <<text, composer>>
         \/ Sends(r, "finish") /\ ~Busy /\ UNCHANGED <<text, composer>>
  BY DEF Answer, Choose, Confirm, PressFinish, Send, Sends, Calls, Composer

LEMMA SendFields ==
  ASSUME PageTypeOK, NEW r \in Requests, NEW kind \in {"turn", "resolve", "finish"}, Sends(r, kind)
  PROVE  /\ call'[r] = "waiting" /\ asks'[r] = kind
         /\ \A q \in Requests \ {r} : call'[q] = call[q] /\ asks'[q] = asks[q]
         /\ call' \in [Requests -> {"none", "waiting", "told", "error", "dropped"}]
         /\ asks' \in [Requests -> {"none", "turn", "resolve", "finish"}]
  <1>1. /\ call'[r] = "waiting" /\ \A q \in Requests \ {r} : call'[q] = call[q]
        /\ call' \in [Requests -> {"none", "waiting", "told", "error", "dropped"}]
    BY CallsFields DEF Sends
  <1>. QED BY <1>1 DEF Sends, PageTypeOK

\* What Hear, HearError and Lose write.
LEMMA HearFields ==
  ASSUME PageTypeOK, NEW r \in Requests, Hear(r)
  PROVE  /\ call[r] = "waiting" /\ call'[r] = "told"
         /\ \A q \in Requests \ {r} : call'[q] = call[q]
         /\ call' \in [Requests -> {"none", "waiting", "told", "error", "dropped"}]
         /\ \/ req[r].pc = "done" /\ view' = View(req[r].copy)
            \/ r \in hidden /\ view' = answer[r]
         /\ composer' = IF asks[r] = "turn" THEN Nobody ELSE composer
         /\ UNCHANGED <<vars, open, asks, text, answer, hidden, unsure>>
  <1>1. Calls(r, "told") BY DEF Hear, Calls
  <1>. QED BY <1>1, CallsFields DEF Hear, Told

LEMMA HearErrorFields ==
  ASSUME PageTypeOK, NEW r \in Requests, HearError(r)
  PROVE  /\ call[r] = "waiting" /\ call'[r] = "error"
         /\ \A q \in Requests \ {r} : call'[q] = call[q]
         /\ call' \in [Requests -> {"none", "waiting", "told", "error", "dropped"}]
         /\ req[r].pc = "idle" \/ (req[r].pc = "failed" /\ r \notin hidden)
         /\ UNCHANGED <<vars, open, view, asks, text, composer, answer, hidden, unsure>>
  <1>1. Calls(r, "error") BY DEF HearError, Calls
  <1>. QED BY <1>1, CallsFields DEF HearError, Refuses

LEMMA LoseFields ==
  ASSUME PageTypeOK, NEW r \in Requests, Lose(r)
  PROVE  /\ call[r] = "waiting" /\ call'[r] = "dropped"
         /\ \A q \in Requests \ {r} : call'[q] = call[q]
         /\ call' \in [Requests -> {"none", "waiting", "told", "error", "dropped"}]
         /\ unsure' = unsure \cup {r}
         /\ UNCHANGED <<vars, open, view, asks, text, composer, answer, hidden>>
  <1>1. Calls(r, "dropped") BY DEF Lose, Calls
  <1>. QED BY <1>1, CallsFields DEF Lose

LEMMA LeaveFields ==
  ASSUME PageTypeOK, Leave
  PROVE  /\ open' = FALSE
         /\ \A q \in Requests : call'[q] = IF call[q] = "waiting" THEN "dropped" ELSE call[q]
         /\ call' \in [Requests -> {"none", "waiting", "told", "error", "dropped"}]
         /\ UNCHANGED <<vars, view, asks, text, composer, answer, hidden, unsure>>
  BY DEF PageTypeOK, Leave

\* What fails at the server.
LEMMA BreakFields ==
  ASSUME PageTypeOK, NEW r \in Requests, Break(r)
  PROVE  /\ Fail(r) /\ UNCHANGED <<open, view, call, asks, text, composer, answer>>
         /\ \/ /\ req[r].pc \in {"resume", "reopen", "replan"}
               /\ hidden' = hidden \cup {r} /\ unsure' = unsure
            \/ /\ hidden' = hidden
               /\ unsure' = IF req[r].pc \in {"plan", "resume", "reopen", "replan"}
                            THEN unsure \cup {r} ELSE unsure
  BY DEF Break

\* What a resolution answers is settled when it has committed.
LEMMA WorkAnswers ==
  ASSUME PageTypeOK, NEW r \in Requests, Work(r)
  PROVE  /\ answer' \in [Requests -> Views]
         /\ answer'[r] = IF req'[r].pc = "resume" THEN ResolvedView(req'[r].copy) ELSE answer[r]
         /\ \A q \in Requests \ {r} : answer'[q] = answer[q]
  <1>1. TypeOK' BY StepKeepsType DEF Work, PageTypeOK
  <1>2. PICK c \in Row : c = req'[r].copy BY <1>1 DEF TypeOK
  <1>3. ResolvedView(c) \in Views BY ViewTyped
  <1>4. answer' = [answer EXCEPT ![r] =
                    IF req'[r].pc = "resume" THEN ResolvedView(c) ELSE answer[r]]
    BY <1>2 DEF Work, PageTypeOK
  <1>. QED BY <1>2, <1>3, <1>4 DEF PageTypeOK
-----------------------------------------------------------------------------
LEMMA PageTypeKeeps == PageTypeOK /\ [PageNext]_allVars => PageTypeOK'
  <1>. SUFFICES ASSUME PageTypeOK, [PageNext]_allVars PROVE PageTypeOK' OBVIOUS
  <1>1. TypeOK /\ TypeOK' BY PageStepIsStep, TypeKeeps DEF PageTypeOK
  <1>2. CASE UNCHANGED allVars BY <1>1, <1>2 DEF PageTypeOK, allVars
  <1>3. CASE Leave BY <1>1, <1>3, LeaveFields DEF PageTypeOK
  <1>4. ASSUME NEW r \in Requests, Answer(r) \/ Choose(r) \/ Confirm(r) \/ PressFinish(r)
        PROVE  PageTypeOK'
    <2>1. PICK kind \in {"turn", "resolve", "finish"} : Sends(r, kind) BY <1>4, SendCases
    <2>2. text' \in [Requests -> Requests \cup {Nobody}] /\ composer' \in Requests \cup {Nobody}
      <3>1. CASE UNCHANGED <<text, composer>> BY <3>1 DEF PageTypeOK
      <3>2. ASSUME NEW t \in {r, composer}, text' = [text EXCEPT ![r] = t], composer' = t
            PROVE  text' \in [Requests -> Requests \cup {Nobody}]
                   /\ composer' \in Requests \cup {Nobody}
        BY <3>2 DEF PageTypeOK
      <3>. QED BY <1>4, <3>1, <3>2, SendCases
    <2>. QED BY <1>1, <2>1, <2>2, SendFields DEF PageTypeOK, Sends
  <1>5. ASSUME NEW r \in Requests, Reach(r) \/ Work(r) PROVE PageTypeOK'
    <2>1. UNCHANGED pageVars BY <1>5 DEF Reach, Work
    <2>2. answer' \in [Requests -> Views] BY <1>5, WorkAnswers DEF Reach, PageTypeOK
    <2>. QED BY <1>1, <2>1, <2>2 DEF pageVars, PageTypeOK
  <1>6. ASSUME NEW r \in Requests, Break(r) PROVE PageTypeOK'
    BY <1>1, <1>6, BreakFields DEF PageTypeOK
  <1>7. ASSUME NEW r \in Requests, Hear(r) PROVE PageTypeOK'
    <2>1. view' \in Views
      <3>1. req[r].copy \in Row BY <1>1, Typed
      <3>. QED BY <1>7, <3>1, HearFields, ViewTyped DEF PageTypeOK
    <2>2. composer' \in Requests \cup {Nobody}
      BY <1>7, HearFields DEF PageTypeOK
    <2>. QED BY <1>1, <1>7, <2>1, <2>2, HearFields DEF PageTypeOK
  <1>8. ASSUME NEW r \in Requests, HearError(r) PROVE PageTypeOK'
    BY <1>1, <1>8, HearErrorFields DEF PageTypeOK
  <1>9. ASSUME NEW r \in Requests, Lose(r) PROVE PageTypeOK'
    BY <1>1, <1>9, LoseFields DEF PageTypeOK
  <1>. QED BY <1>2, <1>3, <1>4, <1>5, <1>6, <1>7, <1>8, <1>9 DEF PageNext

LEMMA PageTypeBegins == PageInit => PageTypeOK
  <1>. SUFFICES ASSUME PageInit PROVE PageTypeOK OBVIOUS
  <1>1. TypeOK BY TypeBegins DEF PageInit
  <1>2. row \in Row /\ row = Opened BY <1>1 DEF TypeOK, PageInit, Init
  <1>3. view \in Views BY <1>2, ViewTyped DEF PageInit
  <1>. QED BY <1>1, <1>3 DEF PageInit, PageTypeOK

\* Whatever the page sends, loses and is told, in any order and with any number of
\* requests at the server, page and server keep the shape the code gives them.
THEOREM PageTypeCorrect == PageSpec => []PageTypeOK
  BY PageTypeBegins, PageTypeKeeps, PTL DEF PageSpec

-----------------------------------------------------------------------------
\* What the server does with request r, as what it writes.

FlushTo(r, new, pc) ==
    /\ Sets(r, req[r].kind, pc, new) /\ row' = row
    /\ \/ new = req[r].copy /\ draft' = draft /\ lock' = lock
       \/ new # req[r].copy /\ draft' = Written(r, new) /\ lock' = {r} /\ lock \subseteq {r}
CommitTo(r, new, pc) ==
    /\ Sets(r, req[r].kind, pc, new)
    /\ \/ lock \subseteq {r} /\ row' = Written(r, new) /\ draft' = row' /\ lock' = {}
       \/ ~(lock \subseteq {r}) /\ new = req[r].copy /\ row' = row /\ draft' = draft
          /\ lock' = lock

\* What a step of a request makes of the copy c it works on.
FlushOf(r, from, new, pc, c) ==
    \/ from = "turn" /\ new = Said(c, r) /\ pc = "extract"
    \/ from = "resolve" /\ new = Named(c) /\ pc = "again" /\ c.pending.type = "ambiguity"
    \/ from = "reopen" /\ new = Resumed(c) /\ pc = "replan"
CommitOf(r, from, new, pc, c) ==
    \/ from = "extract" /\ new = Done(c) /\ pc = "plan"
    \/ from = "extract" /\ pc = "done" /\ \E type \in {"challenge", "ambiguity"} :
          new = Paused(c, [type |-> type, by |-> r])
    \/ from \in {"plan", "replan"} /\ new \in {Asked(c, r), Closed(c)} /\ pc = "done"
    \/ from = "resolve" /\ new = Done(c) /\ pc = "resume" /\ c.pending.type = "challenge"
    \/ from = "again" /\ new \in {Done(c), Paused(c, [type |-> "challenge", by |-> r])} /\ pc = "resume"
    \/ from = "finish" /\ new = Closed(c) /\ pc = "done"

\* A resolution reads what is committed by now.
ReadTo(r) ==
    /\ req[r].pc = "resume"
    /\ Sets(r, req[r].kind, "reopen", row)
    /\ UNCHANGED <<row, draft, lock>>

LEMMA WorkCases ==
  ASSUME TypeOK, NEW r \in Requests, Step(r)
  PROVE  ReadTo(r) \/ \E new \in Row, pc \in PCs :
            \/ FlushOf(r, req[r].pc, new, pc, req[r].copy) /\ FlushTo(r, new, pc)
            \/ CommitOf(r, req[r].pc, new, pc, req[r].copy) /\ CommitTo(r, new, pc)
  <1>1. PICK c \in Row : c = req[r].copy BY Typed
  <1>2. \A type \in {"challenge", "ambiguity"} : [type |-> type, by |-> r] \in Pending
    BY DEF Pending
  <1>3. /\ Said(c, r) \in Row /\ Done(c) \in Row /\ Asked(c, r) \in Row /\ Closed(c) \in Row
        /\ Named(c) \in Row /\ Resumed(c) \in Row
    BY SaidFields, DoneFields, AskedFields, ClosedFields, NamedFields, ResumedFields
  <1>4. \A type \in {"challenge", "ambiguity"} : Paused(c, [type |-> type, by |-> r]) \in Row
    BY <1>2, PausedFields
  <1>5. ASSUME NEW new \in Row, NEW pc \in PCs, CommitOf(r, req[r].pc, new, pc, c), Commit(r, new, pc)
        PROVE  CommitOf(r, req[r].pc, new, pc, c) /\ CommitTo(r, new, pc)
    BY <1>5, CommitSets DEF CommitTo
  <1>6. ASSUME NEW new \in Row, NEW pc \in PCs, FlushOf(r, req[r].pc, new, pc, c), Flush(r, new, pc)
        PROVE  FlushOf(r, req[r].pc, new, pc, c) /\ FlushTo(r, new, pc)
    BY <1>6, FlushSets DEF FlushTo
  <1>8. CASE req[r].pc = "resume" /\ Reread(r) BY <1>8, RereadSets DEF ReadTo
  <1>7. (req[r].pc = "resume" /\ Reread(r)) \/ \E new \in Row, pc \in PCs :
            \/ FlushOf(r, req[r].pc, new, pc, c) /\ Flush(r, new, pc)
            \/ CommitOf(r, req[r].pc, new, pc, c) /\ Commit(r, new, pc)
    <2>1. \A pc \in {"extract", "plan", "done", "resume", "again", "replan"} : pc \in PCs
      BY DEF PCs
    <2>2. CASE req[r].pc = "turn" /\ Flush(r, Said(c, r), "extract")
      BY <1>3, <2>1, <2>2 DEF FlushOf
    <2>3. CASE req[r].pc = "extract" /\ Commit(r, Done(c), "plan")
      BY <1>3, <2>1, <2>3 DEF CommitOf
    <2>4. ASSUME req[r].pc = "extract", NEW type \in {"challenge", "ambiguity"},
                 Commit(r, Paused(c, [type |-> type, by |-> r]), "done")
          PROVE  \E new \in Row, pc \in PCs :
                    CommitOf(r, req[r].pc, new, pc, c) /\ Commit(r, new, pc)
      <3>1. CommitOf(r, req[r].pc, Paused(c, [type |-> type, by |-> r]), "done", c)
        BY <2>4 DEF CommitOf
      <3>. QED BY <1>4, <2>1, <2>4, <3>1
    <2>5. CASE req[r].pc \in {"plan", "replan"} /\ Commit(r, Asked(c, r), "done")
      BY <1>3, <2>1, <2>5 DEF CommitOf
    <2>6. CASE req[r].pc \in {"plan", "replan", "finish"} /\ Commit(r, Closed(c), "done")
      BY <1>3, <2>1, <2>6 DEF CommitOf
    <2>7. CASE req[r].pc = "resolve" /\ c.pending.type = "challenge" /\ Commit(r, Done(c), "resume")
      BY <1>3, <2>1, <2>7 DEF CommitOf
    <2>8. CASE req[r].pc = "resolve" /\ c.pending.type = "ambiguity" /\ Flush(r, Named(c), "again")
      BY <1>3, <2>1, <2>8 DEF FlushOf
    <2>9. CASE req[r].pc = "again" /\ Commit(r, Done(c), "resume")
      BY <1>3, <2>1, <2>9 DEF CommitOf
    <2>10. CASE req[r].pc = "again" /\ Commit(r, Paused(c, [type |-> "challenge", by |-> r]), "resume")
      BY <1>4, <2>1, <2>10 DEF CommitOf
    <2>11. CASE req[r].pc = "reopen" /\ Flush(r, Resumed(c), "replan")
      BY <1>3, <2>1, <2>11 DEF FlushOf
    <2>. QED BY <1>1, <2>2, <2>3, <2>4, <2>5, <2>6, <2>7, <2>8, <2>9, <2>10, <2>11, StepCases
  <1>. QED BY <1>1, <1>5, <1>6, <1>7, <1>8

\* The places each leads to, and what it changes.
LEMMA FlushFacts ==
  ASSUME NEW c \in Row, NEW r \in Requests, NEW from, NEW new, NEW pc, FlushOf(r, from, new, pc, c)
  PROVE  /\ from \in {"turn", "resolve", "reopen"} /\ new \in Row
         /\ from = "turn" => /\ pc = "extract" /\ new.pending = c.pending /\ new # c
                             /\ new.transcript = Append(c.transcript, r)
         /\ from = "resolve" => /\ pc = "again" /\ new.pending = NoPending
                                /\ c.pending # NoPending /\ new # c
         /\ from = "reopen" => /\ pc = "replan" /\ new.pending = c.pending
                               /\ new.question = c.question
         /\ from # "turn" => new.transcript = c.transcript
  <1>1. CASE from = "turn" /\ new = Said(c, r) /\ pc = "extract"
    BY <1>1, SaidFields
  <1>2. CASE from = "resolve" /\ new = Named(c) /\ pc = "again" /\ c.pending.type = "ambiguity"
    <2>1. c.pending # NoPending BY <1>2 DEF NoPending
    <2>. QED BY <1>2, <2>1, NamedFields
  <1>3. CASE from = "reopen" /\ new = Resumed(c) /\ pc = "replan"
    BY <1>3, ResumedFields
  <1>. QED BY <1>1, <1>2, <1>3 DEF FlushOf

LEMMA CommitFacts ==
  ASSUME NEW c \in Row, NEW r \in Requests, NEW from, NEW new, NEW pc, CommitOf(r, from, new, pc, c)
  PROVE  /\ from \in {"extract", "plan", "replan", "resolve", "again", "finish"} /\ new \in Row
         /\ new.transcript = c.transcript
         /\ from = "extract" => \/ pc = "plan" /\ new.pending = NoPending
                                \/ pc = "done" /\ new.pending # NoPending
         /\ from = "resolve" => c.pending # NoPending /\ new.pending = NoPending
         /\ from \in {"resolve", "again"} => pc = "resume" /\ View(new) = ResolvedView(new)
         /\ from \in {"plan", "replan", "finish"} => pc = "done" /\ new.pending = c.pending
         /\ from = "finish" => new.status = "completed"
         /\ pc \in Past
  <1>0. View(Done(c)) = ResolvedView(Done(c))
    BY DoneFields DEF View, ResolvedView
  <1>2. ASSUME NEW type \in {"challenge", "ambiguity"}, new = Paused(c, [type |-> type, by |-> r])
        PROVE  /\ new \in Row /\ new.transcript = c.transcript /\ new.pending # NoPending
               /\ View(new) = ResolvedView(new)
    <2>1. PICK p : p = [type |-> type, by |-> r] OBVIOUS
    <2>2. p \in Pending /\ p # NoPending BY <2>1 DEF Pending, NoPending
    <2>3. View(Paused(c, p)) = ResolvedView(Paused(c, p))
      BY <2>2, PausedFields DEF View, ResolvedView
    <2>. QED BY <1>2, <2>1, <2>2, <2>3, PausedFields
  <1>3. CASE from = "extract" /\ new = Done(c) /\ pc = "plan"
    BY <1>0, <1>3, DoneFields DEF Past
  <1>4. CASE from = "extract" /\ pc = "done" /\ \E type \in {"challenge", "ambiguity"} :
                new = Paused(c, [type |-> type, by |-> r])
    BY <1>2, <1>4 DEF Past
  <1>5. CASE from \in {"plan", "replan"} /\ new \in {Asked(c, r), Closed(c)} /\ pc = "done"
    BY <1>5, AskedFields, ClosedFields DEF Past
  <1>6. CASE from = "resolve" /\ new = Done(c) /\ pc = "resume" /\ c.pending.type = "challenge"
    <2>1. c.pending # NoPending BY <1>6 DEF NoPending
    <2>. QED BY <1>0, <1>6, <2>1, DoneFields DEF Past
  <1>7. CASE from = "again" /\ new \in {Done(c), Paused(c, [type |-> "challenge", by |-> r])}
             /\ pc = "resume"
    BY <1>0, <1>2, <1>7, DoneFields DEF Past
  <1>8. CASE from = "finish" /\ new = Closed(c) /\ pc = "done"
    BY <1>8, ClosedFields DEF Past
  <1>. QED BY <1>3, <1>4, <1>5, <1>6, <1>7, <1>8 DEF CommitOf
-----------------------------------------------------------------------------
\* Kinds.

\* A move at the server leaves the other requests where they are.
LEMMA ServerOthers ==
  ASSUME PageTypeOK, NEW r \in Requests, NEW q \in Requests \ {r},
         Reach(r) \/ Work(r) \/ Break(r)
  PROVE  /\ req'[q] = req[q] /\ UNCHANGED <<open, view, call, asks, text, composer>>
         /\ answer'[q] = answer[q]
         /\ q \in hidden' <=> q \in hidden
         /\ q \in unsure' <=> q \in unsure
         /\ unsure \subseteq unsure'
         /\ lock' = {q} <=> lock = {q}
         /\ lock = {q} => draft' = draft /\ row' = row
  <1>1. TypeOK BY DEF PageTypeOK
  <1>2. lock = {} \/ \E o \in Requests : lock = {o} BY <1>1, HolderRuns
  <1>3. CASE Reach(r)
    <2>1. \E pc \in {"turn", "resolve", "finish"} : Load(r, pc)
      BY <1>3 DEF Reach, SubmitTurn, Resolve, Finish
    <2>. QED BY <1>1, <1>3, <2>1, LoadSets DEF Reach, pageVars, Sets
  <1>4. CASE Work(r)
    <2>0. answer'[q] = answer[q] /\ UNCHANGED pageVars BY <1>4, WorkAnswers DEF Work
    <2>1. CASE ReadTo(r)
      BY <1>2, <2>0, <2>1 DEF ReadTo, Sets, pageVars
    <2>2. ASSUME NEW new \in Row, NEW pc \in PCs, FlushTo(r, new, pc) \/ CommitTo(r, new, pc)
          PROVE  /\ req'[q] = req[q]
                 /\ lock' = {q} <=> lock = {q}
                 /\ lock = {q} => draft' = draft /\ row' = row
      <3>1. req'[q] = req[q] BY <2>2 DEF FlushTo, CommitTo, Sets
      <3>2. CASE FlushTo(r, new, pc) BY <1>2, <3>1, <3>2 DEF FlushTo
      <3>3. CASE CommitTo(r, new, pc) BY <1>2, <3>1, <3>3 DEF CommitTo
      <3>. QED BY <2>2, <3>2, <3>3
    <2>3. ReadTo(r) \/ \E new \in Row, pc \in PCs : FlushTo(r, new, pc) \/ CommitTo(r, new, pc)
      BY <1>1, <1>4, WorkCases DEF Work
    <2>. QED BY <2>0, <2>1, <2>2, <2>3 DEF pageVars
  <1>5. CASE Break(r)
    <2>1. Fail(r) /\ UNCHANGED <<open, view, call, asks, text, composer, answer>>
      BY <1>5, BreakFields
    <2>2. req'[q] = req[q] BY <1>1, <2>1, FailSets DEF Sets
    <2>3. /\ lock' = {q} <=> lock = {q}
          /\ lock = {q} => draft' = draft /\ row' = row
      BY <1>1, <1>2, <2>1, FailSets
    <2>4. /\ q \in hidden' <=> q \in hidden
          /\ q \in unsure' <=> q \in unsure
          /\ unsure \subseteq unsure'
      BY <1>5, BreakFields
    <2>. QED BY <2>1, <2>2, <2>3, <2>4
  <1>. QED BY <1>3, <1>4, <1>5

LEMMA KindOthers ==
  ASSUME PageTypeOK, NEW r \in Requests, NEW q \in Requests \ {r}, KindInv(q),
         Reach(r) \/ Work(r) \/ Break(r)
  PROVE  KindInv(q)'
  <1>1. /\ req'[q] = req[q] /\ UNCHANGED <<open, view, call, asks, text, composer>>
        /\ q \in hidden' <=> q \in hidden
        /\ unsure \subseteq unsure'
        /\ lock' = {q} <=> lock = {q}
        /\ lock = {q} => draft' = draft /\ row' = row
    BY ServerOthers
  <1>. QED BY <1>1 DEF KindInv

LEMMA KindReach ==
  ASSUME PageTypeOK, NEW r \in Requests, KindInv(r), Reach(r)
  PROVE  KindInv(r)'
  <1>1. TypeOK BY DEF PageTypeOK
  <1>2. PICK pc \in {"turn", "resolve", "finish"} : asks[r] = pc /\ Load(r, pc)
    BY DEF Reach, SubmitTurn, Resolve, Finish
  <1>3. /\ req'[r].pc = pc /\ req[r].pc = "idle" /\ UNCHANGED <<row, draft, lock>>
    BY <1>1, <1>2, LoadSets DEF Sets
  <1>4. call[r] \in {"waiting", "dropped"} /\ UNCHANGED pageVars BY DEF Reach
  <1>. QED BY <1>2, <1>3, <1>4 DEF KindInv, pageVars

LEMMA KindWork ==
  ASSUME PageTypeOK, NEW r \in Requests, KindInv(r), Work(r)
  PROVE  KindInv(r)'
  <1>1. TypeOK /\ UNCHANGED pageVars BY DEF PageTypeOK, Work
  <1>2. PICK c \in Row : c = req[r].copy BY <1>1, Typed
  <1>0. CASE ReadTo(r)
    <2>1. /\ req[r].pc = "resume" /\ req'[r].pc = "reopen" /\ UNCHANGED <<row, draft, lock>>
      BY <1>0 DEF ReadTo, Sets
    <2>. QED BY <1>1, <2>1 DEF KindInv, pageVars
  <1>. SUFFICES ASSUME ~ReadTo(r) PROVE KindInv(r)' BY <1>0
  <1>3. PICK new \in Row, pc \in PCs :
            \/ FlushOf(r, req[r].pc, new, pc, c) /\ FlushTo(r, new, pc)
            \/ CommitOf(r, req[r].pc, new, pc, c) /\ CommitTo(r, new, pc)
    BY <1>1, <1>2, WorkCases DEF Work
  <1>4. /\ req'[r].pc = pc /\ req'[r].copy = new
    BY <1>3 DEF FlushTo, CommitTo, Sets
  <1>5. req[r].pc \notin {"idle", "done", "failed"}
    BY <1>2, <1>3, FlushFacts, CommitFacts
  <1>6. r \notin hidden /\ call[r] \notin {"none", "told", "error"}
    BY <1>5 DEF KindInv
  <1>7. CASE FlushOf(r, req[r].pc, new, pc, c) /\ FlushTo(r, new, pc)
    <2>1. /\ req[r].pc \in {"turn", "resolve", "reopen"} /\ lock # {r}
      BY <1>2, <1>7, FlushFacts DEF KindInv
    <2>2. CASE req[r].pc = "turn"
      BY <1>1, <1>2, <1>4, <1>6, <1>7, <2>2, FlushFacts DEF KindInv, pageVars
    <2>3. CASE req[r].pc = "resolve"
      <3>1. pc = "again" /\ new.pending = NoPending /\ c.pending # NoPending /\ new # c
        BY <1>2, <1>7, <2>3, FlushFacts
      <3>2. lock' = {r} /\ draft' = Written(r, new) BY <1>2, <1>7, <3>1 DEF FlushTo
      <3>3. draft'.pending = NoPending BY <1>1, <1>2, <3>1, <3>2, WrittenFields
      <3>. QED BY <1>1, <1>4, <1>6, <2>3, <3>1, <3>2, <3>3 DEF KindInv, pageVars
    <2>4. CASE req[r].pc = "reopen"
      <3>1. pc = "replan" /\ new.pending = c.pending
        BY <1>2, <1>7, <2>4, FlushFacts
      <3>2. lock' = {r} => draft'.pending = row'.pending
        BY <1>1, <1>2, <1>7, <2>1, <3>1, WrittenFields DEF FlushTo
      <3>. QED BY <1>1, <1>4, <1>6, <2>4, <3>1, <3>2 DEF KindInv, pageVars
    <2>. QED BY <2>1, <2>2, <2>3, <2>4
  <1>8. CASE CommitOf(r, req[r].pc, new, pc, c) /\ CommitTo(r, new, pc)
    <2>1. lock' # {r} BY <1>8 DEF CommitTo
    <2>2. /\ req[r].pc = "extract" => pc \in {"plan", "done"}
          /\ req[r].pc \in {"resolve", "again"} => pc = "resume"
          /\ req[r].pc \in {"plan", "replan", "finish"} => pc = "done"
          /\ req[r].pc = "finish" => new.status = "completed"
          /\ req[r].pc \in {"extract", "plan", "replan", "resolve", "again", "finish"}
      BY <1>2, <1>8, CommitFacts
    <2>. QED BY <1>1, <1>4, <1>6, <2>1, <2>2 DEF KindInv, pageVars
  <1>. QED BY <1>3, <1>7, <1>8

LEMMA KindBreak ==
  ASSUME PageTypeOK, NEW r \in Requests, KindInv(r), Break(r)
  PROVE  KindInv(r)'
  <1>1. TypeOK BY DEF PageTypeOK
  <1>2. Fail(r) /\ UNCHANGED <<open, view, call, asks, text, composer>> BY BreakFields
  <1>3. /\ req'[r].pc = "failed" /\ Running(r) /\ lock' # {r}
    BY <1>1, <1>2, FailSets DEF Sets
  <1>4. /\ unsure \subseteq unsure'
        /\ r \in hidden' => r \in hidden \/ req[r].pc \in {"resume", "reopen", "replan"}
    BY BreakFields
  <1>5. r \in hidden' => asks[r] = "resolve" BY <1>4 DEF KindInv, PageTypeOK
  <1>6. call[r] # "none" BY <1>3 DEF KindInv, Running
  <1>. QED BY <1>2, <1>3, <1>4, <1>5, <1>6 DEF KindInv

\* The page's own moves touch nothing at the server.
LEMMA KindPage ==
  ASSUME PageTypeOK, NEW q \in Requests, KindInv(q), UNCHANGED <<vars, hidden>>,
         ~open' \/ open' = open, unsure \subseteq unsure',
         \/ /\ UNCHANGED <<call, asks, text>>
         \/ /\ UNCHANGED <<asks, text>>
            /\ call[q] # "none" /\ call'[q] # "none"
            /\ call'[q] = "told" => req[q].pc \in {"done", "failed"}
            /\ call'[q] = "error" => req[q].pc \in {"idle", "failed"}
            /\ call'[q] = "dropped" => ~open' \/ unsure' # {}
         \/ /\ call[q] = "none" /\ call'[q] = "waiting"
            /\ asks'[q] \in {"turn", "resolve", "finish"}
            /\ text'[q] # Nobody <=> asks'[q] = "turn"
         \/ call'[q] = call[q] /\ asks'[q] = asks[q] /\ text'[q] = text[q]
  PROVE  KindInv(q)'
  BY DEF KindInv, vars
LEMMA KindKeeps ==
  ASSUME PageTypeOK, \A q \in Requests : KindInv(q), [PageNext]_allVars, NEW q \in Requests
  PROVE  KindInv(q)'
  <1>1. CASE UNCHANGED allVars
    BY <1>1, KindPage DEF allVars, vars
  <1>2. CASE Leave
    <2>1. \/ call'[q] = call[q]
          \/ call[q] # "none" /\ call'[q] = "dropped"
      BY <1>2, LeaveFields
    <2>. QED BY <1>2, <2>1, LeaveFields, KindPage
  <1>3. ASSUME NEW r \in Requests, Answer(r) \/ Choose(r) \/ Confirm(r) \/ PressFinish(r)
        PROVE  KindInv(q)'
    <2>1. PICK kind \in {"turn", "resolve", "finish"} :
            /\ Sends(r, kind)
            /\ \/ kind = "turn" /\ \E t \in {r, composer} \ {Nobody} : text' = [text EXCEPT ![r] = t]
               \/ kind # "turn" /\ text' = text
      BY <1>3, SendCases
    <2>2. UNCHANGED <<vars, open, view, hidden, unsure>> /\ call[r] = "none" BY <2>1 DEF Sends
    <2>3. CASE q = r
      <3>1. text[r] = Nobody BY <2>2 DEF KindInv
      <3>2. text'[r] # Nobody <=> kind = "turn" BY <2>1, <3>1 DEF PageTypeOK
      <3>. QED BY <2>1, <2>2, <2>3, <3>2, SendFields, KindPage
    <2>4. CASE q # r
      <3>1. text'[q] = text[q] BY <2>1, <2>4 DEF PageTypeOK
      <3>2. call'[q] = call[q] /\ asks'[q] = asks[q] BY <2>1, <2>4, SendFields
      <3>. QED BY <2>2, <3>1, <3>2, KindPage
    <2>. QED BY <2>3, <2>4
  <1>4. ASSUME NEW r \in Requests, Reach(r) \/ Work(r) \/ Break(r) PROVE KindInv(q)'
    BY <1>4, KindOthers, KindReach, KindWork, KindBreak
  <1>5. ASSUME NEW r \in Requests, Hear(r) PROVE KindInv(q)'
    <2>1. /\ call[r] = "waiting" /\ call'[r] = "told"
          /\ \A o \in Requests \ {r} : call'[o] = call[o]
          /\ req[r].pc = "done" \/ r \in hidden
          /\ UNCHANGED <<vars, open, asks, text, hidden, unsure>>
      BY <1>5, HearFields
    <2>2. req[r].pc \in {"done", "failed"} BY <2>1 DEF KindInv
    <2>. QED BY <2>1, <2>2, KindPage
  <1>6. ASSUME NEW r \in Requests, HearError(r) PROVE KindInv(q)'
    <2>1. /\ call[r] = "waiting" /\ call'[r] = "error"
          /\ \A o \in Requests \ {r} : call'[o] = call[o]
          /\ req[r].pc \in {"idle", "failed"}
          /\ UNCHANGED <<vars, open, asks, text, hidden, unsure>>
      BY <1>6, HearErrorFields
    <2>. QED BY <2>1, KindPage
  <1>7. ASSUME NEW r \in Requests, Lose(r) PROVE KindInv(q)'
    <2>1. /\ call[r] = "waiting" /\ call'[r] = "dropped"
          /\ \A o \in Requests \ {r} : call'[o] = call[o]
          /\ unsure' = unsure \cup {r}
          /\ UNCHANGED <<vars, open, asks, text, hidden>>
      BY <1>7, LoseFields
    <2>. QED BY <2>1, KindPage
  <1>. QED BY <1>1, <1>2, <1>3, <1>4, <1>5, <1>6, <1>7 DEF PageNext

-----------------------------------------------------------------------------
\* What is under way together.

\* What waits together still does when fewer wait.
LEMMA WaitFewer ==
  ASSUME WaitInv, asks' = asks,
         \A q \in Requests : call'[q] = "waiting" => call[q] = "waiting",
         \A q \in Requests : call'[q] = "waiting" /\ asks[q] = "turn" => view' = view
  PROVE  WaitInv'
  BY DEF WaitInv

LEMMA WaitKeeps ==
  ASSUME PageTypeOK, \A q \in Requests : KindInv(q), WaitInv, [PageNext]_allVars
  PROVE  WaitInv'
  <1>1. CASE UNCHANGED allVars BY <1>1, WaitFewer DEF allVars
  <1>2. CASE Leave
    <2>1. \A q \in Requests : call'[q] = "waiting" => call[q] = "waiting"
      BY <1>2, LeaveFields
    <2>. QED BY <1>2, <2>1, LeaveFields, WaitFewer
  <1>3. ASSUME NEW r \in Requests, Answer(r) \/ Choose(r) \/ Confirm(r) \/ PressFinish(r)
        PROVE  WaitInv'
    <2>1. PICK kind \in {"turn", "resolve", "finish"} :
            /\ Sends(r, kind)
            /\ kind = "turn" => view.pending = NoPending
            /\ \/ ~Busy
               \/ kind = "resolve" /\ ~Waiting("resolve") /\ view.pending.type = "challenge"
      BY <1>3, SendCases
    <2>2. \A q \in Requests \ {r} : call[q] = "waiting" => kind = "resolve" /\ asks[q] = "finish"
      <3>. SUFFICES ASSUME NEW q \in Requests \ {r}, call[q] = "waiting"
                    PROVE  kind = "resolve" /\ asks[q] = "finish"
        OBVIOUS
      <3>1. Busy BY DEF Busy
      <3>2. kind = "resolve" /\ ~Waiting("resolve") /\ view.pending.type = "challenge"
        BY <2>1, <3>1
      <3>3. asks[q] # "resolve" BY <3>2 DEF Waiting
      <3>4. view.pending # NoPending BY <3>2 DEF NoPending
      <3>5. asks[q] # "turn" BY <3>4 DEF WaitInv
      <3>6. asks[q] \in {"turn", "resolve", "finish"} BY DEF KindInv
      <3>. QED BY <3>2, <3>3, <3>5, <3>6
    <2>3. view' = view BY <2>1 DEF Sends
    <2>4. /\ asks'[r] = kind
          /\ \A q \in Requests \ {r} : call'[q] = call[q] /\ asks'[q] = asks[q]
      BY <2>1, SendFields
    <2>5. \A q, o \in Requests : call'[q] = "waiting" /\ call'[o] = "waiting" /\ q # o =>
            {asks'[q], asks'[o]} = {"finish", "resolve"}
      BY <2>2, <2>4 DEF WaitInv
    <2>6. \A q \in Requests : call'[q] = "waiting" /\ asks'[q] = "turn" => view.pending = NoPending
      BY <2>1, <2>4 DEF WaitInv
    <2>. QED BY <2>3, <2>5, <2>6 DEF WaitInv
  <1>4. ASSUME NEW r \in Requests, Reach(r) \/ Work(r) \/ Break(r) PROVE WaitInv'
    <2>1. UNCHANGED <<view, call, asks>>
      BY <1>4, BreakFields DEF Reach, Work, pageVars
    <2>. QED BY <2>1, WaitFewer
  <1>5. ASSUME NEW r \in Requests, Hear(r) PROVE WaitInv'
    <2>1. /\ call[r] = "waiting" /\ call'[r] = "told" /\ asks' = asks
          /\ \A o \in Requests \ {r} : call'[o] = call[o]
      BY <1>5, HearFields
    <2>2. \A q \in Requests \ {r} : call[q] = "waiting" => asks[q] # "turn"
      BY <2>1 DEF WaitInv
    <2>3. \A q \in Requests : call'[q] = "waiting" => call[q] = "waiting" /\ q # r
      BY <2>1
    <2>. QED BY <2>1, <2>2, <2>3, WaitFewer
  <1>6. ASSUME NEW r \in Requests, HearError(r) \/ Lose(r) PROVE WaitInv'
    <2>1. /\ call'[r] # "waiting" /\ asks' = asks /\ view' = view
          /\ \A o \in Requests \ {r} : call'[o] = call[o]
      BY <1>6, HearErrorFields, LoseFields
    <2>. QED BY <2>1, WaitFewer
  <1>. QED BY <1>1, <1>2, <1>3, <1>4, <1>5, <1>6 DEF PageNext

\* While the page knows what became of its requests, those at the server wait.
LEMMA RunningWaits ==
  ASSUME PageTypeOK, NEW r \in Requests, KindInv(r), Certain, Running(r)
  PROVE  call[r] = "waiting"
  BY DEF KindInv, Running, Certain, PageTypeOK
-----------------------------------------------------------------------------
\* Whose turns are in the transcript.

\* What is committed stays committed, and a turn that was extracted is.
LEMMA CommittedKept ==
  ASSUME PageTypeOK, \A q \in Requests : KindInv(q), [PageNext]_allVars, NEW r \in Requests, Committed(r)
  PROVE  Committed(r)'
  <1>1. asks[r] = "turn" /\ call[r] # "none" /\ req[r].pc \in {"plan", "done", "failed"}
    BY DEF Committed, KindInv
  <1>2. TypeOK BY DEF PageTypeOK
  <1>3. ASSUME UNCHANGED vars, unsure \subseteq unsure', asks'[r] = asks[r] PROVE Committed(r)'
    BY <1>3 DEF Committed, vars
  <1>4. CASE UNCHANGED allVars \/ Leave
    BY <1>3, <1>4, LeaveFields DEF allVars, vars
  <1>5. ASSUME NEW q \in Requests, Answer(q) \/ Choose(q) \/ Confirm(q) \/ PressFinish(q)
        PROVE  Committed(r)'
    <2>1. PICK kind \in {"turn", "resolve", "finish"} : Sends(q, kind) BY <1>5, SendCases
    <2>2. q # r BY <1>1, <2>1 DEF Sends
    <2>. QED BY <1>3, <2>1, <2>2, SendFields DEF Sends
  <1>6. ASSUME NEW q \in Requests, Hear(q) \/ HearError(q) \/ Lose(q) PROVE Committed(r)'
    <2>1. UNCHANGED <<vars, asks>> /\ unsure \subseteq unsure'
      BY <1>6, HearFields, HearErrorFields, LoseFields
    <2>. QED BY <1>3, <2>1
  <1>7. ASSUME NEW q \in Requests \ {r}, Reach(q) \/ Work(q) \/ Break(q) PROVE Committed(r)'
    BY <1>7, ServerOthers DEF Committed
  <1>8. CASE Reach(r)
    <2>1. req[r].pc = "idle" BY <1>8 DEF Reach, SubmitTurn, Resolve, Finish, Load
    <2>. QED BY <1>1, <2>1
  <1>9. CASE Work(r)
    <2>1. PICK c \in Row : c = req[r].copy BY <1>2, Typed
    <2>0. ~ReadTo(r) BY <1>1 DEF ReadTo
    <2>2. PICK new \in Row, pc \in PCs :
              \/ FlushOf(r, req[r].pc, new, pc, c) /\ FlushTo(r, new, pc)
              \/ CommitOf(r, req[r].pc, new, pc, c) /\ CommitTo(r, new, pc)
      BY <1>2, <1>9, <2>0, <2>1, WorkCases DEF Work
    <2>3. pc = "done" BY <1>1, <2>1, <2>2, FlushFacts, CommitFacts
    <2>4. req'[r].pc = "done" BY <2>2, <2>3 DEF FlushTo, CommitTo, Sets
    <2>. QED BY <1>1, <1>9, <2>4 DEF Committed, Work, pageVars
  <1>10. CASE Break(r)
    <2>1. Fail(r) /\ asks' = asks /\ (req[r].pc = "plan" => r \in unsure')
      BY <1>10, BreakFields
    <2>2. req'[r].pc = "failed" /\ Running(r) BY <1>2, <2>1, FailSets DEF Sets
    <2>. QED BY <1>1, <2>1, <2>2 DEF Committed, Running
  <1>. QED BY <1>4, <1>5, <1>6, <1>7, <1>8, <1>9, <1>10 DEF PageNext

\* A transcript stays sound when its request stays or commits.
LEMMA SoundKept ==
  ASSUME PageTypeOK, \A q \in Requests : KindInv(q), [PageNext]_allVars,
         NEW t \in Seq(Requests), NEW q \in Requests, Sound(t, q),
         req[q].pc = "extract" => req'[q].pc = "extract" \/ Committed(q)'
  PROVE  Sound(t, q)'
  <1>1. ASSUME NEW i \in DOMAIN t
        PROVE  Committed(t[i])' \/ (t[i] = q /\ req'[q].pc = "extract")
    <2>1. t[i] \in Requests OBVIOUS
    <2>2. CASE Committed(t[i])
      <3>1. PICK o \in Requests : o = t[i] BY <2>1
      <3>2. Committed(o)' BY <2>2, <3>1, CommittedKept
      <3>. QED BY <3>1, <3>2
    <2>3. CASE t[i] = q /\ req[q].pc = "extract" BY <2>3
    <2>. QED BY <2>2, <2>3 DEF Sound
  <1>. QED BY <1>1 DEF Sound

\* A request that says its turn has not said it before.
LEMMA SoundSaid ==
  ASSUME PageTypeOK, \A q \in Requests : KindInv(q), [PageNext]_allVars,
         NEW t \in Seq(Requests), NEW r \in Requests, Sound(t, r),
         req[r].pc = "turn", req'[r].pc = "extract"
  PROVE  Sound(Append(t, r), r)'
  <1>1. Sound(t, r)' BY SoundKept
  <1>2. \A i \in DOMAIN t : t[i] # r BY DEF Sound, Committed
  <1>3. PICK u : u = Append(t, r) OBVIOUS
  <1>4. /\ DOMAIN u = 1..(Len(t) + 1) /\ u[Len(t) + 1] = r /\ DOMAIN t = 1..Len(t)
        /\ \A i \in 1..Len(t) : u[i] = t[i]
        /\ Len(t) \in Nat
    BY <1>3, AppendProperties
  <1>5. Distinct(u)
    <2>. SUFFICES ASSUME NEW i \in DOMAIN u, NEW j \in DOMAIN u, u[i] = u[j] PROVE i = j
      BY DEF Distinct
    <2>1. CASE i \in DOMAIN t /\ j \in DOMAIN t BY <1>1, <1>4, <2>1 DEF Sound, Distinct
    <2>2. CASE i \notin DOMAIN t \/ j \notin DOMAIN t BY <1>2, <1>4, <2>2
    <2>. QED BY <2>1, <2>2
  <1>6. \A i \in DOMAIN u : Committed(u[i])' \/ (u[i] = r /\ req'[r].pc = "extract")
    BY <1>1, <1>4 DEF Sound
  <1>7. Sound(u, r)' BY <1>5, <1>6 DEF Sound
  <1>. QED BY <1>3, <1>7

\* The committed transcript is sound for any request, and stays so.
LEMMA RowSound ==
  ASSUME PageTypeOK, \A q \in Requests : KindInv(q), TurnInv, [PageNext]_allVars,
         NEW q \in Requests, NEW t \in Seq(Requests), t = row.transcript
  PROVE  /\ Distinct(t) /\ \A i \in DOMAIN t : Committed(t[i])'
         /\ Sound(t, q) /\ Sound(t, q)'
  <1>1. Distinct(t) /\ \A i \in DOMAIN t : Committed(t[i]) BY DEF TurnInv
  <1>2. \A i \in DOMAIN t : Committed(t[i])'
    <2>. SUFFICES ASSUME NEW i \in DOMAIN t PROVE Committed(t[i])' OBVIOUS
    <2>1. PICK o \in Requests : o = t[i] OBVIOUS
    <2>2. Committed(o)' BY <1>1, <2>1, CommittedKept
    <2>. QED BY <2>1, <2>2
  <1>. QED BY <1>1, <1>2 DEF Sound

\* What a step of a request leaves to the others.
LEMMA TurnOthers ==
  ASSUME PageTypeOK, \A q \in Requests : KindInv(q), TurnInv, [PageNext]_allVars,
         NEW r \in Requests, Reach(r) \/ Work(r) \/ Break(r), NEW q \in Requests \ {r}
  PROVE  /\ lock' = {q} => Sound(draft.transcript, q)'
         /\ Running(q)' => Sound(req[q].copy.transcript, q)'
  <1>1. /\ req'[q] = req[q] /\ (lock' = {q} => lock = {q} /\ draft' = draft)
    BY ServerOthers
  <1>2. PICK c \in Row : c = req[q].copy BY Typed DEF PageTypeOK
  <1>3. PICK d \in Row : d = draft BY DEF PageTypeOK, TypeOK
  <1>4. PICK t \in Seq(Requests) : t = c.transcript BY DEF Row
  <1>5. PICK u \in Seq(Requests) : u = d.transcript BY DEF Row
  <1>6. ASSUME lock' = {q} PROVE Sound(u, q)'
    <2>1. Sound(u, q) BY <1>1, <1>3, <1>5, <1>6 DEF TurnInv
    <2>. QED BY <1>1, <2>1, SoundKept
  <1>7. ASSUME Running(q)' PROVE Sound(t, q)'
    <2>1. Running(q) BY <1>1, <1>7 DEF Running
    <2>2. Sound(t, q) BY <1>2, <1>4, <2>1 DEF TurnInv
    <2>. QED BY <1>1, <2>2, SoundKept
  <1>8. lock' = {q} => draft'.transcript = u BY <1>1, <1>3, <1>5
  <1>9. req'[q].copy.transcript = t BY <1>1, <1>2, <1>4
  <1>. QED BY <1>6, <1>7, <1>8, <1>9

LEMMA TurnWork ==
  ASSUME PageTypeOK, \A q \in Requests : KindInv(q), TurnInv, [PageNext]_allVars,
         NEW r \in Requests, Work(r)
  PROVE  /\ Distinct(row'.transcript)
         /\ \A i \in DOMAIN row'.transcript : Committed(row.transcript[i])'
         /\ lock' = {r} => Sound(draft.transcript, r)'
         /\ Running(r)' => Sound(req[r].copy.transcript, r)'
  <1>1. TypeOK BY DEF PageTypeOK
  <1>2. PICK c \in Row : c = req[r].copy BY <1>1, Typed
  <1>5. PICK old \in Row : old = row BY <1>1 DEF TypeOK
  <1>0. CASE ReadTo(r)
    <2>1. /\ req[r].pc = "resume" /\ req'[r].copy = old /\ row' = old /\ lock' = lock
      BY <1>0, <1>5 DEF ReadTo, Sets
    <2>2. lock' # {r} BY <2>1 DEF KindInv
    <2>3. PICK t \in Seq(Requests) : t = old.transcript BY DEF Row
    <2>4. Distinct(t) /\ (\A i \in DOMAIN t : Committed(t[i])') /\ Sound(t, r)'
      BY <1>5, <2>3, RowSound
    <2>. QED BY <2>1, <2>2, <2>3, <2>4
  <1>. SUFFICES ASSUME ~ReadTo(r)
                PROVE  /\ Distinct(row'.transcript)
                       /\ \A i \in DOMAIN row'.transcript : Committed(row.transcript[i])'
                       /\ lock' = {r} => Sound(draft.transcript, r)'
                       /\ Running(r)' => Sound(req[r].copy.transcript, r)'
    BY <1>0
  <1>3. PICK new \in Row, pc \in PCs :
            \/ FlushOf(r, req[r].pc, new, pc, c) /\ FlushTo(r, new, pc)
            \/ CommitOf(r, req[r].pc, new, pc, c) /\ CommitTo(r, new, pc)
    BY <1>1, <1>2, WorkCases DEF Work
  <1>4. req'[r].pc = pc /\ req'[r].copy = new BY <1>3 DEF FlushTo, CommitTo, Sets
  <1>6. PICK d \in Row : d = draft BY <1>1 DEF TypeOK
  <1>7. PICK t \in Seq(Requests) : t = c.transcript BY DEF Row
  <1>8. PICK u \in Seq(Requests) : u = old.transcript BY DEF Row
  <1>9. PICK v \in Seq(Requests) : v = d.transcript BY DEF Row
  <1>10. Distinct(u) /\ (\A i \in DOMAIN u : Committed(u[i])') /\ Sound(u, r) /\ Sound(u, r)'
    BY <1>5, <1>8, RowSound
  <1>11. Running(r) BY <1>2, <1>3, FlushFacts, CommitFacts DEF Running
  <1>12. Sound(t, r) BY <1>2, <1>7, <1>11 DEF TurnInv
  <1>13. CASE FlushOf(r, req[r].pc, new, pc, c) /\ FlushTo(r, new, pc)
    <2>1. row' = old /\ req[r].pc \in {"turn", "resolve", "reopen"}
      BY <1>2, <1>5, <1>13, FlushFacts DEF FlushTo
    <2>2. lock # {r} BY <2>1 DEF KindInv
    <2>3. CASE req[r].pc = "turn"
      <3>1. pc = "extract" /\ new # c /\ new.transcript = Append(t, r)
        BY <1>2, <1>7, <1>13, <2>3, FlushFacts
      <3>2. Sound(Append(t, r), r)' BY <1>4, <1>12, <2>3, <3>1, SoundSaid
      <3>3. Len(Append(t, r)) = Len(t) + 1 /\ Len(t) \in Nat OBVIOUS
      <3>4. Append(t, r) # t BY <3>3
      <3>5. draft' = Written(r, new) BY <1>2, <1>13, <3>1 DEF FlushTo
      <3>6. draft'.transcript = Append(t, r)
        BY <1>1, <1>2, <1>7, <3>1, <3>4, <3>5, WrittenFields
      <3>7. Sound(draft.transcript, r)' BY <3>2, <3>6
      <3>8. Sound(req[r].copy.transcript, r)' BY <1>4, <3>1, <3>2
      <3>. QED BY <1>8, <1>10, <2>1, <3>7, <3>8
    <2>4. CASE req[r].pc # "turn"
      <3>1. new.transcript = t BY <1>2, <1>7, <1>13, <2>4, FlushFacts
      <3>2. Sound(t, r)' BY <1>12, <2>1, <2>4, SoundKept
      <3>3. lock' = {r} => draft'.transcript = u
        BY <1>1, <1>2, <1>5, <1>7, <1>8, <1>13, <2>2, <3>1, WrittenFields DEF FlushTo
      <3>4. lock' = {r} => Sound(draft.transcript, r)' BY <1>10, <3>3
      <3>5. Sound(req[r].copy.transcript, r)' BY <1>4, <3>1, <3>2
      <3>. QED BY <1>8, <1>10, <2>1, <3>4, <3>5
    <2>. QED BY <2>3, <2>4
  <1>14. CASE CommitOf(r, req[r].pc, new, pc, c) /\ CommitTo(r, new, pc)
    <2>1. /\ new.transcript = t /\ pc \in Past
          /\ req[r].pc = "extract" => pc \in {"plan", "done"}
      BY <1>2, <1>7, <1>14, CommitFacts
    <2>2. req[r].pc = "extract" => Committed(r)'
      <3>. SUFFICES ASSUME req[r].pc = "extract" PROVE Committed(r)' OBVIOUS
      <3>1. asks[r] = "turn" BY DEF KindInv
      <3>2. asks' = asks BY DEF Work, pageVars
      <3>. QED BY <1>4, <2>1, <3>1, <3>2 DEF Committed
    <2>3. Sound(t, r)' BY <1>12, <2>2, SoundKept
    <2>4. Sound(req[r].copy.transcript, r)' BY <1>4, <2>1, <2>3
    <2>5. lock' # {r} BY <1>14 DEF CommitTo
    <2>6. CASE ~(lock \subseteq {r})
      <3>1. row' = old BY <1>5, <1>14, <2>6 DEF CommitTo
      <3>. QED BY <1>8, <1>10, <2>4, <2>5, <3>1
    <2>7. CASE lock = {r}
      <3>1. Sound(v, r) BY <1>6, <1>9, <2>7 DEF TurnInv
      <3>2. Sound(v, r)' BY <2>2, <3>1, SoundKept
      <3>3. row' = Written(r, new) BY <1>14, <2>7 DEF CommitTo
      <3>4. row'.transcript = v
        BY <1>1, <1>2, <1>6, <1>7, <1>9, <2>1, <2>7, <3>3, WrittenFields
      <3>5. req'[r].pc # "extract" BY <1>4, <2>1 DEF Past
      <3>6. Distinct(v) /\ \A i \in DOMAIN v : Committed(v[i])' BY <3>2, <3>5 DEF Sound
      <3>. QED BY <2>4, <2>5, <3>4, <3>6
    <2>8. CASE lock \subseteq {r} /\ lock # {r}
      <3>1. row' = Written(r, new) BY <1>14, <2>8 DEF CommitTo
      <3>2. row'.transcript = u
        BY <1>1, <1>2, <1>5, <1>7, <1>8, <2>1, <2>8, <3>1, WrittenFields
      <3>. QED BY <1>10, <2>4, <2>5, <3>2
    <2>. QED BY <2>6, <2>7, <2>8
  <1>. QED BY <1>3, <1>13, <1>14

LEMMA TurnKeeps ==
  ASSUME PageTypeOK, \A q \in Requests : KindInv(q), TurnInv, [PageNext]_allVars
  PROVE  TurnInv'
  <1>1. TypeOK BY DEF PageTypeOK
  <1>2. PICK old \in Row : old = row BY <1>1 DEF TypeOK
  <1>3. PICK d \in Row : d = draft BY <1>1 DEF TypeOK
  <1>4. PICK u \in Seq(Requests) : u = old.transcript BY DEF Row
  <1>5. PICK v \in Seq(Requests) : v = d.transcript BY DEF Row
  <1>6. ASSUME UNCHANGED vars PROVE TurnInv'
    <2>0. UNCHANGED <<row, draft, lock, req>> BY <1>6 DEF vars
    <2>1. ASSUME NEW q \in Requests
          PROVE  /\ lock' = {q} => Sound(draft.transcript, q)'
                 /\ Running(q)' => Sound(req[q].copy.transcript, q)'
                 /\ Distinct(u) /\ \A i \in DOMAIN u : Committed(u[i])'
      <3>1. PICK c \in Row : c = req[q].copy BY <1>1, Typed
      <3>2. PICK t \in Seq(Requests) : t = c.transcript BY DEF Row
      <3>3. lock' = {q} => Sound(v, q)'
        BY <1>3, <1>5, <2>0, SoundKept DEF TurnInv
      <3>4. Running(q)' => Sound(t, q)'
        BY <2>0, <3>1, <3>2, SoundKept DEF TurnInv, Running
      <3>5. draft'.transcript = v /\ req'[q].copy.transcript = t
        BY <1>3, <1>5, <2>0, <3>1, <3>2
      <3>. QED BY <1>2, <1>4, <3>3, <3>4, <3>5, RowSound
    <2>2. row'.transcript = u BY <1>2, <1>4, <2>0
    <2>3. Distinct(u) /\ \A i \in DOMAIN u : Committed(u[i])'
      <3>1. CASE Requests = {} 
        <4>1. DOMAIN u = {} BY <3>1
        <4>. QED BY <4>1 DEF Distinct
      <3>. QED BY <2>1, <3>1
    <2>. QED BY <2>1, <2>2, <2>3 DEF TurnInv
  <1>7. CASE UNCHANGED vars BY <1>6, <1>7
  <1>8. ASSUME NEW r \in Requests, Reach(r) \/ Work(r) \/ Break(r),
               /\ Distinct(row'.transcript)
               /\ \A i \in DOMAIN row'.transcript : Committed(row.transcript[i])'
               /\ lock' = {r} => Sound(draft.transcript, r)'
               /\ Running(r)' => Sound(req[r].copy.transcript, r)'
        PROVE  TurnInv'
    BY <1>8, TurnOthers DEF TurnInv
  <1>9. ASSUME NEW r \in Requests, Work(r) PROVE TurnInv' BY <1>8, <1>9, TurnWork
  <1>10. ASSUME NEW r \in Requests, Reach(r) PROVE TurnInv'
    <2>1. \E pc \in {"turn", "resolve", "finish"} : Load(r, pc)
      BY <1>10 DEF Reach, SubmitTurn, Resolve, Finish
    <2>2. req'[r].copy = row /\ req[r].pc = "idle" /\ UNCHANGED <<row, draft, lock>>
      BY <1>1, <2>1, LoadSets DEF Sets
    <2>3. lock' # {r} BY <2>2 DEF KindInv
    <2>4. /\ Distinct(u) /\ (\A i \in DOMAIN u : Committed(u[i])') /\ Sound(u, r)'
      BY <1>2, <1>4, RowSound
    <2>5. row'.transcript = u /\ req'[r].copy.transcript = u BY <1>2, <1>4, <2>2
    <2>. QED BY <1>8, <1>10, <2>3, <2>4, <2>5
  <1>11. ASSUME NEW r \in Requests, Break(r) PROVE TurnInv'
    <2>1. Fail(r) BY <1>11, BreakFields
    <2>2. req'[r].pc = "failed" /\ lock' # {r} /\ row' = row BY <1>1, <2>1, FailSets DEF Sets
    <2>3. Distinct(u) /\ (\A i \in DOMAIN u : Committed(u[i])')
      BY <1>2, <1>4, RowSound
    <2>4. row'.transcript = u BY <1>2, <1>4, <2>2
    <2>. QED BY <1>8, <1>11, <2>2, <2>3, <2>4 DEF Running
  <1>12. UNCHANGED vars \/ \E r \in Requests : Reach(r) \/ Work(r) \/ Break(r)
    BY SendCases, LeaveFields, HearFields, HearErrorFields, LoseFields
       DEF PageNext, Sends, allVars, vars
  <1>. QED BY <1>7, <1>9, <1>10, <1>11, <1>12

-----------------------------------------------------------------------------
\* Which answers are the same.

\* What was shown as failed stays so, and a request that was sent stays sent.
LEMMA SafeKept ==
  ASSUME PageTypeOK, \A o \in Requests : KindInv(o), [PageNext]_allVars, NEW q \in Requests
  PROVE  /\ q \in Safe => q \in Safe'
         /\ call[q] # "none" => call'[q] # "none"
         /\ unsure \subseteq unsure'
         /\ open' => open
  <1>1. CASE UNCHANGED allVars BY <1>1 DEF allVars, Safe
  <1>2. CASE Leave
    BY <1>2, LeaveFields DEF Safe, vars
  <1>3. ASSUME NEW r \in Requests, Answer(r) \/ Choose(r) \/ Confirm(r) \/ PressFinish(r)
        PROVE  (q \in Safe => q \in Safe') /\ (call[q] # "none" => call'[q] # "none")
               /\ unsure \subseteq unsure' /\ (open' => open)
    <2>1. PICK kind \in {"turn", "resolve", "finish"} : Sends(r, kind) BY <1>3, SendCases
    <2>2. UNCHANGED <<vars, open, unsure>> /\ call[r] = "none" BY <2>1 DEF Sends
    <2>. QED BY <2>1, <2>2, SendFields DEF Safe, vars
  <1>4. ASSUME NEW r \in Requests, Hear(r) \/ HearError(r) \/ Lose(r)
        PROVE  (q \in Safe => q \in Safe') /\ (call[q] # "none" => call'[q] # "none")
               /\ unsure \subseteq unsure' /\ (open' => open)
    <2>1. /\ UNCHANGED <<vars, open>> /\ unsure \subseteq unsure'
          /\ call[r] = "waiting" /\ call'[r] # "none"
          /\ \A o \in Requests \ {r} : call'[o] = call[o]
      BY <1>4, HearFields, HearErrorFields, LoseFields
    <2>. QED BY <2>1 DEF Safe, vars
  <1>5. ASSUME NEW r \in Requests \ {q}, Reach(r) \/ Work(r) \/ Break(r)
        PROVE  (q \in Safe => q \in Safe') /\ (call[q] # "none" => call'[q] # "none")
               /\ unsure \subseteq unsure' /\ (open' => open)
    BY <1>5, ServerOthers DEF Safe
  <1>6. CASE Reach(q)
    BY <1>6 DEF Reach, pageVars, Safe
  <1>7. CASE Work(q)
    <2>1. PICK c \in Row : c = req[q].copy BY Typed DEF PageTypeOK
    <2>2. Running(q)
      BY <1>7, <2>1, WorkCases, FlushFacts, CommitFacts DEF Work, PageTypeOK, Running, ReadTo
    <2>. QED BY <1>7, <2>2 DEF Work, pageVars, Safe, Running
  <1>8. CASE Break(q)
    <2>1. Running(q) BY <1>8, BreakFields, FailSets DEF PageTypeOK
    <2>. QED BY <1>8, <2>1, BreakFields DEF Safe, Running
  <1>. QED BY <1>1, <1>2, <1>3, <1>4, <1>5, <1>6, <1>7, <1>8 DEF PageNext

\* A step that sends no answer.
LEMMA AnswerStill ==
  ASSUME PageTypeOK, \A o \in Requests : KindInv(o), AnswerInv, [PageNext]_allVars,
         text' = text, composer' = composer \/ composer' = Nobody,
         open' => \A q \in Requests :
            text[q] # Nobody /\ text[q] = composer' /\ call[q] = "waiting" =>
                call'[q] = "waiting" \/ q \in Safe'
  PROVE  AnswerInv'
  <1>1. \A q \in Requests : (q \in Safe => q \in Safe') /\ (call[q] # "none" => call'[q] # "none")
    BY SafeKept
  <1>2. \A r, s \in Requests : r # s /\ text'[r] # Nobody /\ text'[r] = text'[s] =>
            r \in Safe' \/ s \in Safe'
    BY <1>1 DEF AnswerInv
  <1>3. open' => \A r \in Requests :
            text'[r] # Nobody /\ text'[r] = composer' => r \in Safe' \/ call'[r] = "waiting"
    <2>. SUFFICES ASSUME open', NEW r \in Requests, text[r] # Nobody, text[r] = composer'
                  PROVE  r \in Safe' \/ call'[r] = "waiting"
      OBVIOUS
    <2>1. open BY SafeKept
    <2>2. r \in Safe \/ call[r] = "waiting" BY <2>1 DEF AnswerInv
    <2>. QED BY <1>1, <2>2
  <1>4. /\ \A r \in Requests : text'[r] # Nobody => call'[text'[r]] # "none"
        /\ composer' # Nobody => call'[composer'] # "none"
    BY <1>1 DEF AnswerInv, PageTypeOK
  <1>. QED BY <1>2, <1>3, <1>4 DEF AnswerInv

LEMMA AnswerSent ==
  ASSUME PageTypeOK, \A o \in Requests : KindInv(o), AnswerInv, [PageNext]_allVars,
         NEW r \in Requests, Sends(r, "turn"), ~Busy,
         NEW t \in {r, composer} \ {Nobody}, text' = [text EXCEPT ![r] = t], composer' = t
  PROVE  AnswerInv'
  <1>1. /\ \A q \in Requests : (q \in Safe => q \in Safe') /\ (call[q] # "none" => call'[q] # "none")
        /\ open' => open
    BY SafeKept
  <1>2. t \in Requests BY DEF PageTypeOK
  <1>3. text'[r] = t /\ \A q \in Requests \ {r} : text'[q] = text[q] BY DEF PageTypeOK
  <1>4. call[r] = "none" /\ call'[r] = "waiting" /\ open
    BY SendFields DEF Sends, InSession
  <1>5. ASSUME NEW q \in Requests \ {r}, text[q] = t PROVE q \in Safe
    <2>1. t # r BY <1>2, <1>4, <1>5, InterviewAssumption DEF AnswerInv
    <2>2. t = composer /\ t # Nobody BY <2>1
    <2>3. call[q] # "waiting" BY DEF Busy
    <2>. QED BY <1>4, <1>5, <2>2, <2>3 DEF AnswerInv
  <1>6. \A q, s \in Requests : q # s /\ text'[q] # Nobody /\ text'[q] = text'[s] =>
            q \in Safe' \/ s \in Safe'
    <2>. SUFFICES ASSUME NEW q \in Requests, NEW s \in Requests, q # s, text'[q] # Nobody,
                         text'[q] = text'[s]
                  PROVE  q \in Safe' \/ s \in Safe'
      OBVIOUS
    <2>1. CASE q # r /\ s # r BY <1>1, <1>3, <2>1 DEF AnswerInv
    <2>2. CASE q = r
      <3>1. text[s] = t /\ s # r BY <1>3, <2>2
      <3>. QED BY <1>1, <1>5, <3>1
    <2>3. CASE s = r
      <3>1. text[q] = t /\ q # r BY <1>3, <2>3
      <3>. QED BY <1>1, <1>5, <3>1
    <2>. QED BY <2>1, <2>2, <2>3
  <1>7. \A q \in Requests : text'[q] # Nobody /\ text'[q] = composer' =>
            q \in Safe' \/ call'[q] = "waiting"
    BY <1>1, <1>3, <1>4, <1>5
  <1>8. call'[t] # "none"
    <2>1. CASE t = r BY <1>4, <2>1
    <2>2. CASE t = composer BY <1>1, <1>2, <2>2 DEF AnswerInv
    <2>. QED BY <2>1, <2>2
  <1>9. \A q \in Requests : text'[q] # Nobody => call'[text'[q]] # "none"
    <2>. SUFFICES ASSUME NEW q \in Requests, text'[q] # Nobody PROVE call'[text'[q]] # "none"
      OBVIOUS
    <2>1. CASE q = r BY <1>3, <1>8, <2>1
    <2>2. CASE q # r
      <3>1. text'[q] = text[q] /\ text[q] \in Requests BY <1>3, <2>2 DEF PageTypeOK
      <3>2. PICK o \in Requests : o = text[q] BY <3>1
      <3>3. call[o] # "none" BY <3>1, <3>2 DEF AnswerInv
      <3>. QED BY <1>1, <3>1, <3>2, <3>3
    <2>. QED BY <2>1, <2>2
  <1>. QED BY <1>6, <1>7, <1>8, <1>9 DEF AnswerInv

LEMMA AnswerKeeps ==
  ASSUME PageTypeOK, \A o \in Requests : KindInv(o), AnswerInv, [PageNext]_allVars
  PROVE  AnswerInv'
  <1>1. CASE UNCHANGED allVars BY <1>1, AnswerStill DEF allVars
  <1>2. CASE Leave BY <1>2, LeaveFields, AnswerStill
  <1>3. ASSUME NEW r \in Requests, Answer(r) \/ Choose(r) \/ Confirm(r) \/ PressFinish(r)
        PROVE  AnswerInv'
    <2>1. ASSUME NEW kind \in {"turn", "resolve", "finish"}, Sends(r, kind),
                 UNCHANGED <<text, composer>>
          PROVE  AnswerInv'
      <3>1. \A q \in Requests : call[q] = "waiting" => call'[q] = "waiting"
        BY <2>1, SendFields
      <3>. QED BY <2>1, <3>1, AnswerStill
    <2>. QED BY <1>3, <2>1, SendCases, AnswerSent
  <1>4. ASSUME NEW r \in Requests, Reach(r) \/ Work(r) \/ Break(r) PROVE AnswerInv'
    <2>1. UNCHANGED <<call, text, composer>>
      BY <1>4, BreakFields DEF Reach, Work, pageVars
    <2>. QED BY <2>1, AnswerStill
  <1>5. ASSUME NEW r \in Requests, Hear(r) PROVE AnswerInv'
    <2>1. /\ call[r] = "waiting" /\ \A q \in Requests \ {r} : call'[q] = call[q]
          /\ text' = text
          /\ composer' = IF asks[r] = "turn" THEN Nobody ELSE composer
      BY <1>5, HearFields
    <2>2. text[r] # Nobody => composer' = Nobody BY <2>1 DEF KindInv
    <2>3. \A q \in Requests : text[q] # Nobody /\ text[q] = composer' => q # r
      BY <2>2
    <2>. QED BY <2>1, <2>3, AnswerStill
  <1>6. ASSUME NEW r \in Requests, HearError(r) \/ Lose(r) PROVE AnswerInv'
    <2>1. /\ \A q \in Requests \ {r} : call'[q] = call[q]
          /\ UNCHANGED <<text, composer>>
      BY <1>6, HearErrorFields, LoseFields
    <2>2. r \in Safe'
      <3>1. CASE HearError(r) BY <3>1, HearErrorFields DEF Safe, vars
      <3>2. CASE Lose(r) BY <3>2, LoseFields DEF Safe
      <3>. QED BY <1>6, <3>1, <3>2
    <2>. QED BY <2>1, <2>2, AnswerStill
  <1>. QED BY <1>1, <1>2, <1>3, <1>4, <1>5, <1>6 DEF PageNext

-----------------------------------------------------------------------------
\* What the page knows of the challenge.

LEMMA CertainBefore ==
  ASSUME PageTypeOK, \A o \in Requests : KindInv(o), [PageNext]_allVars, Certain'
  PROVE  Certain
  <1>1. CASE Requests = {} BY <1>1 DEF PageNext, Leave, allVars, Certain
  <1>2. CASE Requests # {}
    <2>1. PICK q \in Requests : TRUE BY <1>2
    <2>2. unsure \subseteq unsure' /\ (open' => open) BY <2>1, SafeKept
    <2>. QED BY <2>2 DEF Certain
  <1>. QED BY <1>1, <1>2

\* A step of request r that leaves the challenge of the row and the page alone.
LEMMA ChallengeStill ==
  ASSUME ChallengeInv, Certain, view' = view, row'.pending = row.pending, NEW r \in Requests,
         \A q \in Requests \ {r} :
            /\ call'[q] = call[q] /\ asks'[q] = asks[q] /\ req'[q] = req[q]
            /\ answer'[q] = answer[q]
            /\ q \in hidden' <=> q \in hidden
            /\ lock = {q} => lock' = {q} /\ draft' = draft,
         Unresolved(r) => Unresolved(r)',
         Unresolved(r)' => /\ req'[r].copy.pending = row'.pending
                           /\ Answering(r)' => answer'[r].pending = row'.pending,
         TurnClear(r)'
  PROVE  ChallengeInv'
  <1>1. ASSUME NEW q \in Requests \ {r}
        PROVE  (Unresolved(q)' <=> Unresolved(q)) /\ TurnClear(q)'
    <2>1. TurnClear(q) BY DEF ChallengeInv
    <2>2. TurnClear(q)' BY <2>1 DEF TurnClear
    <2>3. Unresolved(q)' <=> Unresolved(q) BY DEF Unresolved, Untold
    <2>. QED BY <2>2, <2>3
  <1>2. view'.status # "completed" /\ (\A q \in Requests : ~Unresolved(q)') =>
            view'.pending = row'.pending
    <2>. SUFFICES ASSUME view'.status # "completed", \A q \in Requests : ~Unresolved(q)'
                  PROVE  view'.pending = row'.pending
      OBVIOUS
    <2>1. \A q \in Requests : ~Unresolved(q) BY <1>1
    <2>. QED BY <2>1 DEF ChallengeInv
  <1>3. \A q \in Requests : Unresolved(q)' =>
            /\ req'[q].copy.pending = row'.pending
            /\ Answering(q)' => answer'[q].pending = row'.pending
    <2>. SUFFICES ASSUME NEW q \in Requests, Unresolved(q)'
                  PROVE  /\ req'[q].copy.pending = row'.pending
                         /\ Answering(q)' => answer'[q].pending = row'.pending
      OBVIOUS
    <2>1. CASE q = r BY <2>1
    <2>2. CASE q # r
      <3>1. Unresolved(q) BY <1>1, <2>2
      <3>2. Answering(q)' => Answering(q) BY <2>2 DEF Answering
      <3>. QED BY <2>2, <3>1, <3>2 DEF ChallengeInv
    <2>. QED BY <2>1, <2>2
  <1>4. \A q \in Requests : TurnClear(q)' BY <1>1
  <1>. QED BY <1>2, <1>3, <1>4 DEF ChallengeInv

LEMMA ChallengeSend ==
  ASSUME PageTypeOK, \A o \in Requests : KindInv(o), ChallengeInv, Certain,
         NEW r \in Requests, Answer(r) \/ Choose(r) \/ Confirm(r) \/ PressFinish(r)
  PROVE  ChallengeInv'
  <1>1. PICK kind \in {"turn", "resolve", "finish"} :
          Sends(r, kind) /\ (kind = "turn" => ~Busy /\ view.pending = NoPending)
    BY SendCases
  <1>2. /\ call[r] = "none" /\ view.status # "completed"
        /\ UNCHANGED <<row, draft, lock, req, open, view, answer, hidden, unsure>>
    BY <1>1 DEF Sends, InSession, vars
  <1>3. /\ req[r].pc = "idle" /\ r \notin hidden BY <1>2 DEF KindInv
  <1>4. /\ call'[r] = "waiting" /\ asks'[r] = kind
        /\ \A q \in Requests \ {r} : call'[q] = call[q] /\ asks'[q] = asks[q]
    BY <1>1, SendFields
  <1>5. ~Unresolved(r) /\ ~Unresolved(r)'
    BY <1>2, <1>3 DEF Unresolved, Untold, Past
  <1>6. TurnClear(r)'
    <2>1. kind = "turn" => row.pending = NoPending
      <3>. SUFFICES ASSUME kind = "turn" PROVE row.pending = NoPending OBVIOUS
      <3>1. \A q \in Requests : ~Unresolved(q) BY <1>1 DEF Unresolved, Untold, Busy
      <3>. QED BY <1>1, <1>2, <3>1 DEF ChallengeInv
    <2>. QED BY <1>2, <1>3, <1>4, <2>1 DEF TurnClear
  <1>. QED BY <1>2, <1>4, <1>5, <1>6, ChallengeStill

LEMMA ChallengeHear ==
  ASSUME PageTypeOK, \A o \in Requests : KindInv(o), ChallengeInv, Certain, NEW r \in Requests, Hear(r)
  PROVE  ChallengeInv'
  <1>1. /\ call[r] = "waiting" /\ call'[r] = "told"
        /\ \A q \in Requests \ {r} : call'[q] = call[q]
        /\ \/ req[r].pc = "done" /\ view' = View(req[r].copy)
           \/ r \in hidden /\ view' = answer[r]
        /\ UNCHANGED <<row, draft, lock, req, open, asks, answer, hidden, unsure>>
    BY HearFields DEF vars
  <1>2. \A q \in Requests \ {r} : Unresolved(q)' <=> Unresolved(q)
    BY <1>1 DEF Unresolved, Untold
  <1>3. ~Unresolved(r)' BY <1>1 DEF Unresolved, Untold
  <1>4. ASSUME view'.status # "completed" PROVE view'.pending = row'.pending
    <2>1. PICK c \in Row : c = req[r].copy BY Typed DEF PageTypeOK
    <2>2. \/ req[r].pc = "done" /\ view'.pending = c.pending
          \/ Answering(r) /\ view' = answer[r]
      BY <1>1, <2>1, ViewTyped DEF Answering
    <2>3. asks[r] # "finish"
      <3>. SUFFICES ASSUME asks[r] = "finish" PROVE FALSE OBVIOUS
      <3>1. req[r].pc = "done" BY <1>1 DEF KindInv
      <3>2. c.status = "completed" BY <2>1, <3>1 DEF KindInv
      <3>3. r \notin hidden BY DEF KindInv
      <3>. QED BY <1>1, <1>4, <2>1, <3>2, <3>3, ViewTyped
    <2>4. Unresolved(r) BY <1>1, <2>3 DEF Unresolved, Untold, Past
    <2>. QED BY <1>1, <2>1, <2>2, <2>4 DEF ChallengeInv
  <1>5. ASSUME NEW q \in Requests PROVE TurnClear(q)'
    <2>1. TurnClear(q) BY DEF ChallengeInv
    <2>2. call'[q] = "waiting" => call[q] = "waiting" BY <1>1
    <2>. QED BY <1>1, <2>1, <2>2 DEF TurnClear
  <1>6. ASSUME NEW q \in Requests, Unresolved(q)'
        PROVE  /\ req'[q].copy.pending = row'.pending
               /\ Answering(q)' => answer'[q].pending = row'.pending
    <2>1. Unresolved(q) BY <1>2, <1>3, <1>6
    <2>2. Answering(q)' => Answering(q) BY <1>1 DEF Answering
    <2>. QED BY <1>1, <2>1, <2>2 DEF ChallengeInv
  <1>. QED BY <1>4, <1>5, <1>6 DEF ChallengeInv

LEMMA ChallengeHearError ==
  ASSUME PageTypeOK, \A o \in Requests : KindInv(o), ChallengeInv, Certain,
         NEW r \in Requests, HearError(r)
  PROVE  ChallengeInv'
  <1>1. /\ call[r] = "waiting" /\ call'[r] = "error"
        /\ \A q \in Requests \ {r} : call'[q] = call[q]
        /\ req[r].pc = "idle" \/ (req[r].pc = "failed" /\ r \notin hidden)
        /\ UNCHANGED <<row, draft, lock, req, open, view, asks, answer, hidden, unsure>>
    BY HearErrorFields DEF vars
  <1>2. ~Unresolved(r) /\ ~Unresolved(r)'
    BY <1>1 DEF Unresolved, Untold, Past, KindInv
  <1>3. TurnClear(r)' BY <1>1 DEF TurnClear
  <1>. QED BY <1>1, <1>2, <1>3, ChallengeStill

LEMMA ChallengeReach ==
  ASSUME PageTypeOK, \A o \in Requests : KindInv(o), ChallengeInv, Certain, NEW r \in Requests, Reach(r)
  PROVE  ChallengeInv'
  <1>1. TypeOK BY DEF PageTypeOK
  <1>2. PICK pc \in {"turn", "resolve", "finish"} : asks[r] = pc /\ Load(r, pc)
    BY DEF Reach, SubmitTurn, Resolve, Finish
  <1>3. /\ req'[r].pc = pc /\ req'[r].copy = row /\ req[r].pc = "idle" /\ UNCHANGED <<row, draft, lock>>
        /\ \A q \in Requests \ {r} : req'[q] = req[q]
    BY <1>1, <1>2, LoadSets DEF Sets
  <1>4. UNCHANGED <<open, view, call, asks, answer, hidden, unsure>> BY DEF Reach, pageVars
  <1>5. ~Unresolved(r) /\ ~Unresolved(r)'
    BY <1>3, <1>4 DEF Unresolved, Untold, Past, KindInv
  <1>6. TurnClear(r) BY DEF ChallengeInv
  <1>7. TurnClear(r)' BY <1>2, <1>3, <1>4, <1>6 DEF TurnClear
  <1>. QED BY <1>3, <1>4, <1>5, <1>7, ChallengeStill

\* A failure the page still counts on is hidden behind an answer, or came before
\* the first commit.
LEMMA BreakUntold ==
  ASSUME PageTypeOK, \A o \in Requests : KindInv(o), Certain, Certain', NEW r \in Requests, Break(r)
  PROVE  /\ call[r] = "waiting" /\ (Untold(r)' <=> Untold(r))
         /\ r \in hidden' => Answering(r)
  <1>1. Fail(r) /\ UNCHANGED <<open, view, call, asks>> BY BreakFields
  <1>2. req'[r].pc = "failed" /\ Running(r) BY <1>1, FailSets DEF PageTypeOK, Sets
  <1>3. r \notin hidden BY <1>2 DEF KindInv, Running
  <1>4. call[r] = "waiting" BY <1>2, RunningWaits
  <1>5. CASE req[r].pc \in {"resume", "reopen", "replan"} /\ hidden' = hidden \cup {r}
    BY <1>1, <1>4, <1>5 DEF Untold, Past, Answering
  <1>6. CASE hidden' = hidden /\ unsure' = IF req[r].pc \in {"plan", "resume", "reopen", "replan"}
                                           THEN unsure \cup {r} ELSE unsure
    <2>1. req[r].pc \notin {"plan", "resume", "reopen", "replan"} BY <1>6 DEF Certain
    <2>. QED BY <1>1, <1>2, <1>3, <1>4, <1>6, <2>1 DEF Untold, Past, Running
  <1>. QED BY <1>5, <1>6, BreakFields

LEMMA ChallengeBreak ==
  ASSUME PageTypeOK, \A o \in Requests : KindInv(o), ChallengeInv, Certain, Certain',
         NEW r \in Requests, Break(r)
  PROVE  ChallengeInv'
  <1>1. Fail(r) /\ UNCHANGED <<open, view, call, asks>> BY BreakFields
  <1>2. /\ req'[r].pc = "failed" /\ req'[r].copy = req[r].copy /\ Running(r) /\ row' = row
    BY <1>1, FailSets DEF PageTypeOK, Sets
  <1>3. \A q \in Requests \ {r} :
            /\ call'[q] = call[q] /\ asks'[q] = asks[q] /\ req'[q] = req[q]
            /\ answer'[q] = answer[q]
            /\ q \in hidden' <=> q \in hidden
            /\ lock = {q} => lock' = {q} /\ draft' = draft
    BY ServerOthers
  <1>6. Unresolved(r)' <=> Unresolved(r) BY <1>1, BreakUntold DEF Unresolved
  <1>7. Unresolved(r)' => /\ req'[r].copy.pending = row'.pending
                          /\ Answering(r)' => answer'[r].pending = row'.pending
    <2>1. answer' = answer /\ (Answering(r)' => Answering(r))
      BY <1>2, BreakUntold, BreakFields DEF Answering
    <2>. QED BY <1>2, <1>6, <2>1 DEF ChallengeInv
  <1>8. TurnClear(r)' BY <1>2 DEF TurnClear
  <1>. QED BY <1>1, <1>2, <1>3, <1>6, <1>7, <1>8, ChallengeStill

\* What a step leaves of the challenge in the row: an answer writes what its copy
\* says, and so does a turn that found nothing pending.
LEMMA PendingWritten ==
  ASSUME PageTypeOK, NEW r \in Requests, KindInv(r), NEW c \in Row, c = req[r].copy,
         NEW new \in Row, NEW pc \in PCs, CommitOf(r, req[r].pc, new, pc, c), CommitTo(r, new, pc)
  PROVE  /\ req[r].pc \in {"plan", "replan", "finish"} => row'.pending = row.pending
         /\ req[r].pc \in {"resolve", "again"} => row'.pending = new.pending
         /\ req[r].pc = "extract" /\ lock = {r} /\ draft.pending = NoPending /\ c.pending = NoPending
              => row'.pending = new.pending
  <1>1. TypeOK BY DEF PageTypeOK
  <1>2. \/ /\ lock \subseteq {r}
           /\ row'.pending = IF new.pending # c.pending THEN new.pending
                             ELSE IF lock = {r} THEN draft.pending ELSE row.pending
        \/ ~(lock \subseteq {r}) /\ new = c /\ row' = row
    <2>1. CASE lock \subseteq {r}
      <3>1. row' = Written(r, new) BY <2>1 DEF CommitTo
      <3>. QED BY <1>1, <2>1, <3>1, WrittenFields
    <2>. QED BY <2>1 DEF CommitTo
  <1>3. /\ req[r].pc \in {"plan", "replan", "finish"} => new.pending = c.pending
        /\ req[r].pc = "resolve" => c.pending # NoPending /\ new.pending = NoPending
    BY CommitFacts
  <1>4. /\ lock = {r} => req[r].pc \in {"extract", "again", "replan"}
        /\ req[r].pc = "again" => lock = {r} /\ draft.pending = NoPending /\ c.pending = NoPending
        /\ req[r].pc = "replan" /\ lock = {r} => draft.pending = row.pending
    BY DEF KindInv
  <1>5. CASE req[r].pc \in {"plan", "replan", "finish"} BY <1>2, <1>3, <1>4, <1>5
  <1>6. CASE req[r].pc = "resolve" BY <1>2, <1>3, <1>6
  <1>7. CASE req[r].pc = "again" BY <1>2, <1>4, <1>7
  <1>8. CASE req[r].pc = "extract" BY <1>2, <1>8
  <1>9. req[r].pc \in {"extract", "plan", "replan", "resolve", "again", "finish"} BY CommitFacts
  <1>. QED BY <1>5, <1>6, <1>7, <1>8, <1>9

\* A turn or a resolution that waits does so alone, but for a finish.
LEMMA WaitsAlone ==
  ASSUME WaitInv, NEW r \in Requests, call[r] = "waiting", asks[r] # "finish",
         NEW q \in Requests \ {r}, call[q] = "waiting"
  PROVE  asks[q] = "finish" /\ asks[r] = "resolve"
  BY DEF WaitInv

LEMMA ChallengeFlush ==
  ASSUME PageTypeOK, \A o \in Requests : KindInv(o), WaitInv, ChallengeInv, Certain,
         NEW r \in Requests, Work(r), NEW c \in Row, c = req[r].copy,
         NEW new \in Row, NEW pc \in PCs, FlushOf(r, req[r].pc, new, pc, c), FlushTo(r, new, pc)
  PROVE  ChallengeInv'
  <1>1. TypeOK BY DEF PageTypeOK
  <1>2. UNCHANGED <<open, view, call, asks, hidden, unsure>> BY DEF Work, pageVars
  <1>3. /\ req'[r].pc = pc /\ req'[r].copy = new /\ row' = row BY DEF FlushTo, Sets
  <1>4. \A q \in Requests \ {r} :
            /\ call'[q] = call[q] /\ asks'[q] = asks[q] /\ req'[q] = req[q]
            /\ answer'[q] = answer[q]
            /\ q \in hidden' <=> q \in hidden
            /\ lock = {q} => lock' = {q} /\ draft' = draft
    BY ServerOthers
  <1>5. /\ req[r].pc \in {"turn", "resolve", "reopen"} /\ lock # {r} /\ r \notin hidden
    BY FlushFacts DEF KindInv
  <1>6. /\ req[r].pc = "turn" => pc = "extract" /\ new.pending = c.pending /\ new # c
        /\ req[r].pc = "resolve" => pc = "again"
        /\ req[r].pc = "reopen" => pc = "replan" /\ new.pending = c.pending
    BY FlushFacts
  <1>7. CASE req[r].pc = "turn"
    <2>1. ~Unresolved(r) /\ ~Unresolved(r)'
      BY <1>2, <1>3, <1>5, <1>6, <1>7 DEF Unresolved, Untold, Past
    <2>2. TurnClear(r)'
      <3>. SUFFICES ASSUME call[r] = "waiting", asks[r] = "turn" PROVE TurnClear(r)'
        BY <1>2 DEF TurnClear
      <3>1. row.pending = NoPending /\ c.pending = NoPending BY <1>7 DEF ChallengeInv, TurnClear
      <3>2. lock' = {r} /\ draft' = Written(r, new) BY <1>6, <1>7 DEF FlushTo
      <3>3. draft'.pending = NoPending
        BY <1>1, <1>5, <1>6, <1>7, <3>1, <3>2, WrittenFields
      <3>. QED BY <1>3, <1>6, <1>7, <3>1, <3>2, <3>3 DEF TurnClear
    <2>. QED BY <1>2, <1>3, <1>4, <2>1, <2>2, ChallengeStill
  <1>8. CASE req[r].pc = "resolve"
    <2>1. ~Unresolved(r) /\ ~Unresolved(r)'
      BY <1>2, <1>3, <1>5, <1>6, <1>8 DEF Unresolved, Untold, Past
    <2>2. TurnClear(r)' BY <1>3, <1>6, <1>8 DEF TurnClear
    <2>. QED BY <1>2, <1>3, <1>4, <2>1, <2>2, ChallengeStill
  <1>9. CASE req[r].pc = "reopen"
    <2>1. Unresolved(r)' <=> Unresolved(r)
      BY <1>2, <1>3, <1>6, <1>9 DEF Unresolved, Untold, Past
    <2>4. answer'[r] = answer[r] BY <1>3, <1>6, <1>9, WorkAnswers
    <2>2. Unresolved(r) => c.pending = row.pending /\ answer'[r].pending = row.pending
      BY <1>9, <2>4 DEF ChallengeInv, Answering
    <2>3. TurnClear(r)' BY <1>3, <1>6, <1>9 DEF TurnClear
    <2>. QED BY <1>2, <1>3, <1>4, <1>6, <1>9, <2>1, <2>2, <2>3, ChallengeStill
  <1>. QED BY <1>5, <1>7, <1>8, <1>9

\* What is read again has the challenge it had, and the answer as well.
LEMMA ChallengeRead ==
  ASSUME PageTypeOK, \A o \in Requests : KindInv(o), ChallengeInv, Certain,
         NEW r \in Requests, Work(r), ReadTo(r)
  PROVE  ChallengeInv'
  <1>1. UNCHANGED <<open, view, call, asks, hidden, unsure>> BY DEF Work, pageVars
  <1>2. /\ req[r].pc = "resume" /\ req'[r].pc = "reopen" /\ req'[r].copy = row /\ row' = row
    BY DEF ReadTo, Sets
  <1>3. \A q \in Requests \ {r} :
            /\ call'[q] = call[q] /\ asks'[q] = asks[q] /\ req'[q] = req[q]
            /\ answer'[q] = answer[q]
            /\ q \in hidden' <=> q \in hidden
            /\ lock = {q} => lock' = {q} /\ draft' = draft
    BY ServerOthers
  <1>4. Unresolved(r)' <=> Unresolved(r) BY <1>1, <1>2 DEF Unresolved, Untold, Past
  <1>5. answer'[r] = answer[r] BY <1>2, WorkAnswers
  <1>6. Unresolved(r) => answer[r].pending = row.pending
    BY <1>2 DEF ChallengeInv, Answering
  <1>7. TurnClear(r)' BY <1>2 DEF TurnClear
  <1>. QED BY <1>1, <1>2, <1>3, <1>4, <1>5, <1>6, <1>7, ChallengeStill

LEMMA ChallengeCommit ==
  ASSUME PageTypeOK, \A o \in Requests : KindInv(o), WaitInv, ChallengeInv, Certain,
         NEW r \in Requests, Work(r), NEW c \in Row, c = req[r].copy,
         NEW new \in Row, NEW pc \in PCs, CommitOf(r, req[r].pc, new, pc, c), CommitTo(r, new, pc)
  PROVE  ChallengeInv'
  <1>2. UNCHANGED <<open, view, call, asks, hidden, unsure>> BY DEF Work, pageVars
  <1>3. /\ req'[r].pc = pc /\ req'[r].copy = new BY DEF CommitTo, Sets
  <1>4. \A q \in Requests \ {r} :
            /\ call'[q] = call[q] /\ asks'[q] = asks[q] /\ req'[q] = req[q]
            /\ answer'[q] = answer[q]
            /\ q \in hidden' <=> q \in hidden
            /\ lock = {q} => lock' = {q} /\ draft' = draft
    BY ServerOthers
  <1>5. /\ req[r].pc \in {"extract", "plan", "replan", "resolve", "again", "finish"} /\ pc \in Past
    BY CommitFacts
  <1>6. Running(r) /\ r \notin hidden BY <1>5 DEF Running, KindInv
  <1>7. call[r] = "waiting" BY <1>6, RunningWaits
  <1>8. TurnClear(r)' BY <1>3, <1>5 DEF TurnClear, Past
  <1>9. CASE req[r].pc \in {"plan", "replan", "finish"}
    <2>1. row'.pending = row.pending /\ new.pending = c.pending
      BY <1>9, PendingWritten, CommitFacts
    <2>2. req[r].pc = "finish" => asks[r] = "finish" BY <1>7 DEF KindInv
    <2>3. Unresolved(r)' <=> Unresolved(r)
      BY <1>2, <1>3, <1>5, <1>7, <1>9, <2>2 DEF Unresolved, Untold, Past
    <2>4. Unresolved(r) => c.pending = row.pending BY DEF ChallengeInv
    <2>5. ~Answering(r)'
      <3>1. req'[r].pc = "done" BY <1>3, <1>9, CommitFacts
      <3>. QED BY <1>2, <1>6, <3>1 DEF Answering
    <2>. QED BY <1>2, <1>3, <1>4, <1>8, <2>1, <2>3, <2>4, <2>5, ChallengeStill
  <1>10. CASE req[r].pc \in {"extract", "resolve", "again"}
    <2>1. asks[r] # "finish" BY <1>10 DEF KindInv
    <2>2. req[r].pc = "extract" =>
            lock = {r} /\ draft.pending = NoPending /\ c.pending = NoPending
      <3>. SUFFICES ASSUME req[r].pc = "extract"
                    PROVE  lock = {r} /\ draft.pending = NoPending /\ c.pending = NoPending
        OBVIOUS
      <3>1. asks[r] = "turn" BY <1>7 DEF KindInv
      <3>2. TurnClear(r) BY DEF ChallengeInv
      <3>. QED BY <1>7, <3>1, <3>2 DEF TurnClear
    <2>3. row'.pending = new.pending
      BY <1>10, <2>2, PendingWritten
    <2>4. Unresolved(r)' BY <1>2, <1>3, <1>5, <1>7, <2>1 DEF Unresolved, Untold
    <2>5. ASSUME NEW q \in Requests \ {r} PROVE ~Unresolved(q)' /\ TurnClear(q)'
      <3>1. call[q] = "waiting" => asks[q] = "finish" BY <1>7, <2>1, WaitsAlone
      <3>. QED BY <1>2, <3>1 DEF Unresolved, Untold, TurnClear
    <2>6. Answering(r)' => answer'[r].pending = new.pending
      <3>1. pc = "resume" => answer'[r] = ResolvedView(new) BY <1>3, WorkAnswers
      <3>2. pc \in {"plan", "done", "resume"} BY <1>10, CommitFacts
      <3>3. Answering(r)' => pc = "resume" BY <1>2, <1>3, <1>6, <3>2 DEF Answering
      <3>. QED BY <3>1, <3>3, ViewTyped
    <2>. QED BY <1>3, <1>8, <2>3, <2>4, <2>5, <2>6 DEF ChallengeInv
  <1>. QED BY <1>5, <1>9, <1>10

LEMMA ChallengeKeeps ==
  ASSUME PageTypeOK, \A o \in Requests : KindInv(o), WaitInv, ChallengeInv, [PageNext]_allVars
  PROVE  ChallengeInv'
  <1>. SUFFICES ASSUME Certain' PROVE ChallengeInv' BY DEF ChallengeInv
  <1>0. Certain BY CertainBefore
  <1>1. CASE UNCHANGED allVars
    BY <1>1 DEF allVars, ChallengeInv, Certain, Unresolved, Untold, TurnClear, Answering
  <1>2. CASE Leave BY <1>2, LeaveFields DEF Certain
  <1>3. ASSUME NEW r \in Requests, Answer(r) \/ Choose(r) \/ Confirm(r) \/ PressFinish(r)
        PROVE  ChallengeInv'
    BY <1>0, <1>3, ChallengeSend
  <1>4. ASSUME NEW r \in Requests, Reach(r) PROVE ChallengeInv' BY <1>0, <1>4, ChallengeReach
  <1>5. ASSUME NEW r \in Requests, Work(r) PROVE ChallengeInv'
    <2>1. PICK c \in Row : c = req[r].copy BY Typed DEF PageTypeOK
    <2>2. ReadTo(r) \/ \E new \in Row, pc \in PCs :
              \/ FlushOf(r, req[r].pc, new, pc, c) /\ FlushTo(r, new, pc)
              \/ CommitOf(r, req[r].pc, new, pc, c) /\ CommitTo(r, new, pc)
      BY <1>5, <2>1, WorkCases DEF Work, PageTypeOK
    <2>. QED BY <1>0, <1>5, <2>1, <2>2, ChallengeRead, ChallengeFlush, ChallengeCommit
  <1>6. ASSUME NEW r \in Requests, Break(r) PROVE ChallengeInv' BY <1>0, <1>6, ChallengeBreak
  <1>7. ASSUME NEW r \in Requests, Hear(r) PROVE ChallengeInv' BY <1>0, <1>7, ChallengeHear
  <1>8. ASSUME NEW r \in Requests, HearError(r) PROVE ChallengeInv'
    BY <1>0, <1>8, ChallengeHearError
  <1>9. ASSUME NEW r \in Requests, Lose(r) PROVE ChallengeInv'
    <2>1. unsure' # {} BY <1>9, LoseFields
    <2>. QED BY <2>1 DEF Certain
  <1>. QED BY <1>1, <1>2, <1>3, <1>4, <1>5, <1>6, <1>7, <1>8, <1>9 DEF PageNext

-----------------------------------------------------------------------------
\* What the page knows of the row.

LEMMA QuietBefore ==
  ASSUME PageTypeOK, \A o \in Requests : KindInv(o), [PageNext]_allVars, Quiet'
  PROVE  Quiet
  <1>1. Certain BY CertainBefore DEF Quiet
  <1>2. ASSUME NEW q \in Requests, asks[q] # "none" PROVE asks'[q] = asks[q]
    <2>1. ASSUME NEW r \in Requests, Answer(r) \/ Choose(r) \/ Confirm(r) \/ PressFinish(r)
          PROVE  asks'[q] = asks[q]
      <3>1. PICK kind \in {"turn", "resolve", "finish"} : Sends(r, kind) BY <2>1, SendCases
      <3>2. asks[r] = "none" BY <3>1 DEF Sends, KindInv
      <3>. QED BY <1>2, <3>1, <3>2, SendFields
    <2>2. ASSUME NEW r \in Requests, Reach(r) \/ Work(r) \/ Break(r) PROVE asks' = asks
      BY <2>2, BreakFields DEF Reach, Work, pageVars
    <2>3. ASSUME NEW r \in Requests, Hear(r) \/ HearError(r) \/ Lose(r) PROVE asks' = asks
      BY <2>3, HearFields, HearErrorFields, LoseFields
    <2>4. CASE Leave \/ UNCHANGED allVars BY <2>4, LeaveFields DEF allVars
    <2>. QED BY <2>1, <2>2, <2>3, <2>4 DEF PageNext
  <1>3. ~Overlapped BY <1>2 DEF Quiet, Overlapped
  <1>. QED BY <1>1, <1>3 DEF Quiet

\* Requests that do not overlap wait one at a time.
LEMMA OneWaits ==
  ASSUME PageTypeOK, \A o \in Requests : KindInv(o), WaitInv, Quiet,
         NEW r \in Requests, call[r] = "waiting"
  PROVE  /\ \A q \in Requests \ {r} : call[q] # "waiting"
         /\ lock \subseteq {r}
  <1>1. ASSUME NEW q \in Requests \ {r}, call[q] = "waiting" PROVE FALSE
    <2>1. {asks[r], asks[q]} = {"finish", "resolve"} BY <1>1 DEF WaitInv
    <2>. QED BY <2>1 DEF Quiet, Overlapped
  <1>2. lock = {} \/ \E o \in Requests : lock = {o} /\ Running(o)
    BY HolderRuns DEF PageTypeOK
  <1>3. ASSUME NEW o \in Requests, lock = {o}, Running(o) PROVE o = r
    <2>1. call[o] = "waiting" BY <1>3, RunningWaits DEF Quiet
    <2>. QED BY <1>1, <2>1
  <1>. QED BY <1>1, <1>2, <1>3

\* A request that holds the row alone writes its copy and nothing else.
LEMMA MineWrites ==
  ASSUME TypeOK, NEW r \in Requests, lock \subseteq {r}, Mine(r), NEW new \in Row
  PROVE  Written(r, new) = new
  <1>1. PICK old \in Row : old = IF lock = {r} THEN draft ELSE row BY DEF TypeOK
  <1>2. req[r].copy = old BY <1>1 DEF Mine
  <1>3. PICK w \in Row : w = Written(r, new) BY WrittenFields
  <1>4. /\ w.status = new.status /\ w.turns = new.turns /\ w.transcript = new.transcript
        /\ w.pending = new.pending /\ w.question = new.question
    BY <1>1, <1>2, <1>3, WrittenFields
  <1>. QED BY <1>3, <1>4 DEF Row

\* A step that leaves the row as the page shows it.
LEMMA ShownStill ==
  ASSUME ShownInv, Quiet, row' = row, view' = view,
         \A q \in Requests : Untold(q) => Untold(q)',
         \A q \in Requests : Shows(q)'
  PROVE  ShownInv'
  <1>1. ASSUME \A q \in Requests : ~Untold(q)' PROVE view' = View(row)'
    <2>1. \A q \in Requests : ~Untold(q) BY <1>1
    <2>. QED BY <2>1 DEF ShownInv, View
  <1>. QED BY <1>1 DEF ShownInv

LEMMA ShownPage ==
  ASSUME PageTypeOK, \A o \in Requests : KindInv(o), WaitInv, ShownInv, Quiet, NEW r \in Requests,
         Answer(r) \/ Choose(r) \/ Confirm(r) \/ PressFinish(r) \/ Hear(r) \/ HearError(r)
  PROVE  ShownInv'
  <1>1. CASE Answer(r) \/ Choose(r) \/ Confirm(r) \/ PressFinish(r)
    <2>1. PICK kind \in {"turn", "resolve", "finish"} : Sends(r, kind) BY <1>1, SendCases
    <2>2. /\ call[r] = "none"
          /\ UNCHANGED <<row, draft, lock, req, open, view, answer, hidden, unsure>>
      BY <2>1 DEF Sends, vars
    <2>3. \A q \in Requests \ {r} : call'[q] = call[q] BY <2>1, SendFields
    <2>4. req[r].pc = "idle" /\ r \notin hidden BY <2>2 DEF KindInv
    <2>5. \A q \in Requests : Untold(q) => Untold(q)' BY <2>2, <2>3 DEF Untold
    <2>6. ASSUME NEW q \in Requests PROVE Shows(q)'
      <3>1. CASE q = r BY <2>2, <2>4, <3>1 DEF Shows, Running, Answering
      <3>2. CASE q # r
        <4>1. Shows(q) BY DEF ShownInv
        <4>. QED BY <2>2, <2>3, <3>2, <4>1 DEF Shows, Running, Mine, View, Answering
      <3>. QED BY <3>1, <3>2
    <2>. QED BY <2>2, <2>5, <2>6, ShownStill
  <1>2. ASSUME NEW q \in Requests, Hear(r) \/ HearError(r) PROVE Shows(q)'
    <2>1. /\ UNCHANGED <<row, draft, lock, req, answer, hidden>>
          /\ call'[q] = "waiting" => call[q] = "waiting"
      BY <1>2, HearFields, HearErrorFields DEF vars
    <2>2. Shows(q) BY DEF ShownInv
    <2>. QED BY <2>1, <2>2 DEF Shows, Running, Mine, View, Answering
  <1>3. CASE Hear(r)
    <2>1. /\ call[r] = "waiting" /\ row' = row
          /\ \/ req[r].pc = "done" /\ view' = View(req[r].copy)
             \/ r \in hidden /\ view' = answer[r]
      BY <1>3, HearFields DEF vars
    <2>2. Shows(r) BY DEF ShownInv
    <2>3. view' = View(row)' BY <2>1, <2>2 DEF Shows, View, Answering
    <2>. QED BY <1>2, <1>3, <2>3 DEF ShownInv
  <1>4. CASE HearError(r)
    <2>1. /\ UNCHANGED <<row, req, hidden, view>>
          /\ req[r].pc = "idle" \/ (req[r].pc = "failed" /\ r \notin hidden)
          /\ \A q \in Requests \ {r} : call'[q] = call[q]
      BY <1>4, HearErrorFields DEF vars
    <2>2. ~Untold(r) BY <2>1 DEF Untold, Past, KindInv
    <2>3. \A q \in Requests : Untold(q) => Untold(q)' BY <2>1, <2>2 DEF Untold
    <2>. QED BY <1>2, <1>4, <2>1, <2>3, ShownStill
  <1>. QED BY <1>1, <1>3, <1>4

LEMMA ShownReach ==
  ASSUME PageTypeOK, \A o \in Requests : KindInv(o), WaitInv, ShownInv, Quiet, NEW r \in Requests, Reach(r)
  PROVE  ShownInv'
  <1>1. TypeOK BY DEF PageTypeOK
  <1>2. PICK pc \in {"turn", "resolve", "finish"} : Load(r, pc)
    BY DEF Reach, SubmitTurn, Resolve, Finish
  <1>3. /\ req'[r].pc = pc /\ req'[r].copy = row /\ req[r].pc = "idle" /\ UNCHANGED <<row, draft, lock>>
        /\ \A q \in Requests \ {r} : req'[q] = req[q]
    BY <1>1, <1>2, LoadSets DEF Sets
  <1>4. UNCHANGED <<open, view, call, asks, answer, hidden, unsure>> BY DEF Reach, pageVars
  <1>5. r \notin hidden /\ lock # {r} BY <1>3 DEF KindInv
  <1>6. ASSUME NEW q \in Requests PROVE Shows(q)'
    <2>1. CASE q = r BY <1>3, <1>4, <1>5, <2>1 DEF Shows, Mine, Answering
    <2>2. CASE q # r
      <3>1. Shows(q) BY DEF ShownInv
      <3>. QED BY <1>3, <1>4, <2>2, <3>1 DEF Shows, Running, Mine, View, Answering
    <2>. QED BY <2>1, <2>2
  <1>7. ASSUME NEW q \in Requests, Untold(q) PROVE Untold(q)'
    <2>1. q # r BY <1>3, <1>5, <1>7 DEF Untold, Past
    <2>. QED BY <1>3, <1>4, <1>7, <2>1 DEF Untold
  <1>. QED BY <1>3, <1>4, <1>6, <1>7, ShownStill

LEMMA ShownBreak ==
  ASSUME PageTypeOK, \A o \in Requests : KindInv(o), WaitInv, ShownInv, Quiet, Quiet',
         NEW r \in Requests, Break(r)
  PROVE  ShownInv'
  <1>1. Fail(r) /\ UNCHANGED <<open, view, call, asks>> BY BreakFields
  <1>2. /\ req'[r].pc = "failed" /\ req'[r].copy = req[r].copy /\ Running(r) /\ row' = row
    BY <1>1, FailSets DEF PageTypeOK, Sets
  <1>3. /\ call[r] = "waiting" /\ (Untold(r)' <=> Untold(r))
        /\ r \in hidden' => Answering(r)
    BY BreakUntold DEF Quiet
  <1>4. \A q \in Requests \ {r} : call[q] # "waiting" BY <1>3, OneWaits
  <1>5. ASSUME NEW q \in Requests PROVE Shows(q)'
    <2>1. CASE q = r
      <3>1. Shows(r) BY DEF ShownInv
      <3>2. answer' = answer /\ (Answering(r)' => Answering(r))
        BY <1>2, <1>3, BreakFields DEF Answering
      <3>. QED BY <1>1, <1>2, <1>3, <2>1, <3>1, <3>2 DEF Shows, Running, View
    <2>2. CASE q # r BY <1>1, <1>4, <2>2 DEF Shows
    <2>. QED BY <2>1, <2>2
  <1>6. \A q \in Requests : Untold(q) => Untold(q)'
    <2>1. \A q \in Requests \ {r} : ~Untold(q) BY <1>4 DEF Untold
    <2>. QED BY <1>3, <2>1
  <1>. QED BY <1>1, <1>2, <1>5, <1>6, ShownStill

LEMMA ShownWork ==
  ASSUME PageTypeOK, \A o \in Requests : KindInv(o), WaitInv, ShownInv, Quiet, NEW r \in Requests, Work(r)
  PROVE  ShownInv'
  <1>1. TypeOK BY DEF PageTypeOK
  <1>2. PICK c \in Row : c = req[r].copy BY <1>1, Typed
  <1>4. UNCHANGED <<open, view, call, asks, hidden, unsure>> BY DEF Work, pageVars
  <1>6. Running(r)
    BY <1>1, <1>2, WorkCases, FlushFacts, CommitFacts DEF Work, Running, ReadTo
  <1>7. call[r] = "waiting" /\ r \notin hidden BY <1>6, RunningWaits DEF Quiet, KindInv, Running
  <1>8. (\A q \in Requests \ {r} : call[q] # "waiting") /\ lock \subseteq {r} BY <1>7, OneWaits
  <1>9. Shows(r) /\ Mine(r) BY <1>6, <1>7 DEF ShownInv, Shows
  <1>11. ASSUME NEW q \in Requests \ {r} PROVE Shows(q)' /\ ~Untold(q)
    BY <1>4, <1>8 DEF Shows, Untold
  <1>0. CASE ReadTo(r)
    <2>1. /\ req[r].pc = "resume" /\ req'[r].pc = "reopen" /\ req'[r].copy = row
          /\ UNCHANGED <<row, lock>>
      BY <1>0 DEF ReadTo, Sets
    <2>2. lock' # {r} BY <2>1 DEF KindInv
    <2>3. answer'[r] = answer[r] BY <2>1, WorkAnswers
    <2>4. answer[r] = View(row) BY <1>7, <1>9, <2>1 DEF Shows, Answering
    <2>5. Shows(r)' BY <2>1, <2>2, <2>3, <2>4 DEF Shows, Mine, View
    <2>6. Untold(r)' BY <1>4, <1>7, <2>1 DEF Untold, Past
    <2>. QED BY <1>4, <1>11, <2>1, <2>5, <2>6, ShownStill
  <1>. SUFFICES ASSUME ~ReadTo(r) PROVE ShownInv' BY <1>0
  <1>3. PICK new \in Row, pc \in PCs :
            \/ FlushOf(r, req[r].pc, new, pc, c) /\ FlushTo(r, new, pc)
            \/ CommitOf(r, req[r].pc, new, pc, c) /\ CommitTo(r, new, pc)
    BY <1>1, <1>2, WorkCases DEF Work
  <1>5. req'[r].pc = pc /\ req'[r].copy = new BY <1>3 DEF FlushTo, CommitTo, Sets
  <1>10. Written(r, new) = new BY <1>1, <1>8, <1>9, MineWrites
  <1>12. CASE FlushOf(r, req[r].pc, new, pc, c) /\ FlushTo(r, new, pc)
    <2>1. /\ req[r].pc \in {"turn", "resolve", "reopen"} /\ row' = row
          /\ req[r].pc = "turn" => pc = "extract"
          /\ req[r].pc = "resolve" => pc = "again"
          /\ req[r].pc = "reopen" => pc = "replan"
      BY <1>2, <1>12, FlushFacts DEF FlushTo
    <2>2. Mine(r)'
      <3>1. CASE new = c /\ draft' = draft /\ lock' = lock
        BY <1>2, <1>5, <1>9, <2>1, <3>1 DEF Mine
      <3>2. CASE draft' = new /\ lock' = {r} BY <1>5, <3>2 DEF Mine
      <3>. QED BY <1>2, <1>10, <1>12, <3>1, <3>2 DEF FlushTo
    <2>3. Answering(r)' => answer'[r] = View(row)'
      <3>. SUFFICES ASSUME Answering(r)' PROVE answer'[r] = View(row)' OBVIOUS
      <3>1. req[r].pc = "reopen" BY <1>4, <1>5, <1>7, <2>1 DEF Answering
      <3>2. answer[r] = View(row) BY <1>7, <1>9, <3>1 DEF Shows, Answering
      <3>3. answer'[r] = answer[r] BY <1>5, <2>1, <3>1, WorkAnswers
      <3>. QED BY <2>1, <3>2, <3>3 DEF View
    <2>4. Shows(r)' BY <1>4, <1>5, <1>7, <2>1, <2>2, <2>3 DEF Shows
    <2>5. Untold(r) => Untold(r)'
      BY <1>4, <1>5, <1>7, <2>1 DEF Untold, Past
    <2>. QED BY <1>4, <1>11, <2>1, <2>4, <2>5, ShownStill
  <1>13. CASE CommitOf(r, req[r].pc, new, pc, c) /\ CommitTo(r, new, pc)
    <2>1. row' = new /\ lock' = {} BY <1>8, <1>10, <1>13 DEF CommitTo
    <2>2. /\ pc \in Past
          /\ pc \in {"reopen", "replan"} => FALSE
          /\ pc = "resume" => View(new) = ResolvedView(new)
      BY <1>2, <1>13, CommitFacts
    <2>3. Mine(r)' BY <1>5, <2>1 DEF Mine
    <2>4. View(new) = View(row)' BY <2>1 DEF View
    <2>7. Answering(r)' => answer'[r] = View(new)
      BY <1>4, <1>5, <1>7, <2>2, WorkAnswers DEF Answering
    <2>5. Shows(r)' BY <1>5, <2>3, <2>4, <2>7 DEF Shows, View
    <2>6. Untold(r)' BY <1>4, <1>5, <1>7, <2>2 DEF Untold
    <2>. QED BY <1>11, <2>5, <2>6 DEF ShownInv
  <1>. QED BY <1>3, <1>12, <1>13

LEMMA ShownKeeps ==
  ASSUME PageTypeOK, \A o \in Requests : KindInv(o), WaitInv, ShownInv, [PageNext]_allVars
  PROVE  ShownInv'
  <1>. SUFFICES ASSUME Quiet' PROVE ShownInv' BY DEF ShownInv
  <1>0. Quiet BY QuietBefore
  <1>1. CASE UNCHANGED allVars
    <2>1. ASSUME NEW q \in Requests PROVE Shows(q)' /\ (Untold(q) => Untold(q)')
      <3>1. Shows(q) BY <1>0 DEF ShownInv
      <3>. QED BY <1>1, <3>1 DEF allVars, Shows, Untold, Running, Mine, View, Answering
    <2>. QED BY <1>0, <1>1, <2>1, ShownStill DEF allVars
  <1>2. CASE Leave BY <1>2, LeaveFields DEF Quiet, Certain
  <1>3. ASSUME NEW r \in Requests,
               Answer(r) \/ Choose(r) \/ Confirm(r) \/ PressFinish(r) \/ Hear(r) \/ HearError(r)
        PROVE  ShownInv'
    BY <1>0, <1>3, ShownPage
  <1>4. ASSUME NEW r \in Requests, Reach(r) PROVE ShownInv' BY <1>0, <1>4, ShownReach
  <1>5. ASSUME NEW r \in Requests, Work(r) PROVE ShownInv' BY <1>0, <1>5, ShownWork
  <1>6. ASSUME NEW r \in Requests, Break(r) PROVE ShownInv' BY <1>0, <1>6, ShownBreak
  <1>7. ASSUME NEW r \in Requests, Lose(r) PROVE ShownInv'
    <2>1. unsure' # {} BY <1>7, LoseFields
    <2>. QED BY <2>1 DEF Quiet, Certain
  <1>. QED BY <1>1, <1>2, <1>3, <1>4, <1>5, <1>6, <1>7 DEF PageNext

-----------------------------------------------------------------------------
LEMMA PageBegins == PageInit => PageInv
  <1>. SUFFICES ASSUME PageInit PROVE PageInv OBVIOUS
  <1>1. PageTypeOK BY PageTypeBegins
  <1>2. /\ \A r \in Requests : call[r] = "none" /\ asks[r] = "none" /\ text[r] = Nobody
                               /\ req[r].pc = "idle" /\ ~Running(r)
        /\ open = TRUE /\ view = View(row) /\ row = Opened /\ lock = {}
        /\ hidden = {} /\ unsure = {} /\ composer = Nobody
    BY DEF PageInit, Init, Running
  <1>3. \A r \in Requests : KindInv(r) BY <1>2 DEF KindInv
  <1>4. WaitInv BY <1>2 DEF WaitInv
  <1>5. TurnInv
    <2>1. DOMAIN row.transcript = {} BY <1>2 DEF Opened
    <2>. QED BY <1>2, <2>1 DEF TurnInv, Distinct, Running
  <1>6. AnswerInv BY <1>2 DEF AnswerInv
  <1>7. \A r \in Requests : ~Untold(r) /\ TurnClear(r) /\ Shows(r)
    BY <1>2 DEF Untold, TurnClear, Shows
  <1>8. ChallengeInv
    <2>1. row \in Row BY <1>1 DEF PageTypeOK, TypeOK
    <2>2. view.pending = row.pending BY <1>2, <2>1, ViewTyped
    <2>. QED BY <1>7, <2>2 DEF ChallengeInv, Unresolved
  <1>9. ShownInv BY <1>2, <1>7 DEF ShownInv
  <1>. QED BY <1>1, <1>3, <1>4, <1>5, <1>6, <1>8, <1>9 DEF PageInv

LEMMA PageKeeps == PageInv /\ [PageNext]_allVars => PageInv'
  <1>. SUFFICES ASSUME PageInv, [PageNext]_allVars PROVE PageInv' OBVIOUS
  <1>1. /\ PageTypeOK /\ \A r \in Requests : KindInv(r)
        /\ WaitInv /\ TurnInv /\ AnswerInv /\ ChallengeInv /\ ShownInv
    BY DEF PageInv
  <1>2. PageTypeOK' BY <1>1, PageTypeKeeps
  <1>3. \A r \in Requests : KindInv(r)' BY <1>1, KindKeeps
  <1>4. WaitInv' /\ TurnInv' /\ AnswerInv' BY <1>1, WaitKeeps, TurnKeeps, AnswerKeeps
  <1>5. ChallengeInv' /\ ShownInv' BY <1>1, ChallengeKeeps, ShownKeeps
  <1>. QED BY <1>2, <1>3, <1>4, <1>5 DEF PageInv

LEMMA PageAlways == PageSpec => []PageInv
  BY PageBegins, PageKeeps, PTL DEF PageSpec

\* While no answer was lost, the page has one request at the server at a time, or
\* a resolution beside a finish: what the theorems of Interview ask of a client
\* (busy of DebriefPage).
THEOREM ServesOneAtATime == PageSpec => []OneAtATime
  <1>1. PageInv => OneAtATime
    <2>. SUFFICES ASSUME PageInv, unsure = {}, open, NEW r \in InFlight, NEW s \in InFlight
                  PROVE  r = s \/ {asks[r], asks[s]} = {"finish", "resolve"}
      BY DEF OneAtATime
    <2>1. /\ r \in Requests /\ s \in Requests /\ Running(r) /\ Running(s)
      BY DEF InFlight, Running
    <2>2. call[r] = "waiting" /\ call[s] = "waiting"
      BY <2>1, RunningWaits DEF PageInv, Certain
    <2>. QED BY <2>1, <2>2 DEF PageInv, WaitInv
  <1>. QED BY PageAlways, <1>1, PTL

\* With nothing under way the page shows the session as it is, through refusals
\* and failures, unless a failure hid a change or a resolution ran beside a finish
\* (setDebrief of DebriefPage).
THEOREM ShowsTheSession == PageSpec => []PageInSync
  <1>1. PageInv => PageInSync
    <2>. SUFFICES ASSUME PageInv, open, ~Busy, unsure = {}, ~Overlapped PROVE view = View(row)
      BY DEF PageInSync
    <2>1. \A r \in Requests : ~Untold(r) BY DEF Busy, Untold
    <2>. QED BY <2>1 DEF PageInv, ShownInv, Quiet, Certain
  <1>. QED BY PageAlways, <1>1, PTL

\* An answer is in the transcript twice only if its user was told that it had
\* failed, whatever is sent again, refused or lost (composer of DebriefPage).
THEOREM TwiceOnlyIfShownToFail == PageSpec => []TwiceOnlyIfTold
  <1>1. PageInv => TwiceOnlyIfTold
    <2>. SUFFICES ASSUME PageInv, NEW i \in DOMAIN row.transcript, NEW j \in DOMAIN row.transcript,
                         i < j, text[row.transcript[i]] = text[row.transcript[j]]
                  PROVE  {row.transcript[i], row.transcript[j]} \cap unsure # {}
      BY DEF TwiceOnlyIfTold
    <2>1. row.transcript \in Seq(Requests) BY DEF PageInv, PageTypeOK, TypeOK, Row
    <2>2. PICK r \in Requests, s \in Requests : r = row.transcript[i] /\ s = row.transcript[j]
      BY <2>1
    <2>3. i # j BY <2>1
    <2>4. r # s /\ Committed(r) /\ Committed(s)
      BY <2>2, <2>3 DEF PageInv, TurnInv, Distinct
    <2>5. text[r] # Nobody /\ text[r] = text[s] BY <2>2, <2>4 DEF PageInv, KindInv, Committed
    <2>6. r \in Safe \/ s \in Safe BY <2>4, <2>5 DEF PageInv, AnswerInv
    <2>7. r \in unsure \/ s \in unsure BY <2>4, <2>6 DEF Safe, Committed
    <2>. QED BY <2>2, <2>7
  <1>. QED BY PageAlways, <1>1, PTL

\* While the page knows what became of its requests, a challenge goes away only by
\* an answer to it, although the server takes a turn over a challenge that an
\* answer raised (pending_challenge in DebriefPage, submit_turn, resolve_debrief).
THEOREM ChallengesAreAnswered == PageSpec => AnsweredThroughPage
  <1>1. ASSUME PageInv, [PageNext]_allVars
        PROVE  [open /\ unsure = {} /\ row.pending # NoPending /\ row'.pending # row.pending =>
                  \E r \in Requests : req[r].pc \in {"resolve", "again"} /\ req'[r].pc # req[r].pc]_allVars
    <2>. SUFFICES ASSUME open, unsure = {}, row.pending # NoPending, row'.pending # row.pending
                  PROVE  \E r \in Requests : req[r].pc \in {"resolve", "again"} /\ req'[r].pc # req[r].pc
      OBVIOUS
    <2>1. Certain /\ PageTypeOK /\ TypeOK /\ \A q \in Requests : KindInv(q)
      BY <1>1 DEF Certain, PageInv, PageTypeOK
    <2>2. PICK r \in Requests : Reach(r) \/ Work(r) \/ Break(r)
      <3>1. ASSUME NEW q \in Requests, Answer(q) \/ Choose(q) \/ Confirm(q) \/ PressFinish(q)
            PROVE  row' = row
        BY <3>1, SendCases DEF Sends, vars
      <3>2. ASSUME NEW q \in Requests, Hear(q) \/ HearError(q) \/ Lose(q) PROVE row' = row
        BY <2>1, <3>2, HearFields, HearErrorFields, LoseFields DEF vars
      <3>3. CASE Leave \/ UNCHANGED allVars BY <2>1, <3>3, LeaveFields DEF vars, allVars
      <3>4. row' # row OBVIOUS
      <3>. QED BY <1>1, <3>1, <3>2, <3>3, <3>4, Zenon DEF PageNext
    <2>3. CASE Reach(r)
      <3>1. row' = row BY <2>3 DEF Reach, SubmitTurn, Resolve, Finish, Load
      <3>. QED BY <3>1
    <2>4. CASE Break(r)
      <3>1. row' = row BY <2>1, <2>4, BreakFields DEF Fail
      <3>. QED BY <3>1
    <2>5. CASE Work(r)
      <3>1. PICK c \in Row : c = req[r].copy BY <2>1, Typed
      <3>0. ~ReadTo(r) BY DEF ReadTo
      <3>2. PICK new \in Row, pc \in PCs :
                \/ FlushOf(r, req[r].pc, new, pc, c) /\ FlushTo(r, new, pc)
                \/ CommitOf(r, req[r].pc, new, pc, c) /\ CommitTo(r, new, pc)
        BY <2>1, <2>5, <3>0, <3>1, WorkCases DEF Work
      <3>3. CommitOf(r, req[r].pc, new, pc, c) /\ CommitTo(r, new, pc)
        BY <3>2 DEF FlushTo
      <3>4. req[r].pc \notin {"plan", "replan", "finish"}
        BY <2>1, <3>1, <3>3, PendingWritten
      <3>5. req[r].pc # "extract"
        <4>. SUFFICES ASSUME req[r].pc = "extract" PROVE FALSE OBVIOUS
        <4>1. Running(r) BY DEF Running
        <4>2. call[r] = "waiting" /\ asks[r] = "turn" BY <2>1, <4>1, RunningWaits DEF KindInv
        <4>3. TurnClear(r) BY <2>1, <1>1 DEF PageInv, ChallengeInv
        <4>. QED BY <4>2, <4>3 DEF TurnClear
      <3>6. req[r].pc \in {"resolve", "again"} /\ pc = "resume"
        BY <3>1, <3>3, <3>4, <3>5, CommitFacts
      <3>7. req'[r].pc = pc BY <3>3 DEF CommitTo, Sets
      <3>. QED BY <3>6, <3>7
    <2>. QED BY <2>2, <2>3, <2>4, <2>5
  <1>. QED BY PageAlways, <1>1, PTL DEF PageSpec, AnsweredThroughPage

\* Interview's claims ask for a client that sends one request at a time: the page
\* is one while it knows what became of its requests and finishes by none of them
\* beside a resolution.
LEMMA PageIsSerial ==
  ASSUME PageInv, [PageNext]_allVars, Quiet => SerialInv
  PROVE  Quiet' => SerialInv'
  <1>. SUFFICES ASSUME Quiet' PROVE SerialInv' OBVIOUS
  <1>1. PageTypeOK /\ TypeOK /\ (\A r \in Requests : KindInv(r)) /\ WaitInv
    BY DEF PageInv, PageTypeOK
  <1>2. Quiet /\ SerialInv BY <1>1, QuietBefore
  <1>3. CASE UNCHANGED vars BY <1>2, <1>3, SerialStutter
  <1>4. ASSUME NEW r \in Requests, Reach(r) PROVE SerialInv'
    <2>1. SubmitTurn(r) \/ Resolve(r) \/ Finish(r) BY <1>4 DEF Reach
    <2>2. req[r].pc = "idle" BY <2>1 DEF SubmitTurn, Resolve, Finish, Load
    <2>3. call[r] = "waiting" BY <1>1, <1>2, <1>4 DEF Reach, KindInv, Quiet, Certain
    <2>4. ASSUME NEW q \in Requests, Running(q) PROVE FALSE
      <3>1. call[q] = "waiting" BY <1>1, <1>2, <2>4, RunningWaits DEF Quiet
      <3>2. q = r BY <1>1, <1>2, <2>3, <3>1, OneWaits
      <3>. QED BY <2>2, <2>4, <3>2 DEF Running
    <2>. QED BY <1>2, <2>1, <2>4, SerialBegin
  <1>5. ASSUME NEW r \in Requests, Work(r) PROVE SerialInv' BY <1>2, <1>5, SerialStep DEF Work
  <1>6. ASSUME NEW r \in Requests, Break(r) PROVE SerialInv'
    BY <1>1, <1>2, <1>6, BreakFields, SerialFail
  <1>7. UNCHANGED vars \/ \E r \in Requests : Reach(r) \/ Work(r) \/ Break(r)
    BY <1>1, SendCases, LeaveFields, HearFields, HearErrorFields, LoseFields
       DEF PageNext, Sends, allVars, vars
  <1>. QED BY <1>3, <1>4, <1>5, <1>6, <1>7

\* What the server promises a client that sends one request at a time, it keeps to
\* the page: while no answer was lost and no resolution ran beside a finish, an
\* open interview asks, the transcript is what the user said, the turns are bounded
\* and a completed session has no question left (DebriefPage, submit_turn,
\* resolve_debrief and finish).
THEOREM PageKeepsTheInterview ==
  PageSpec => [](open /\ unsure = {} /\ ~Overlapped =>
                    AsksWhileInterviewing /\ TranscriptIsUserTurns /\ TurnCap /\ ClosedOrCut)
  <1>1. PageInit => (Quiet => SerialInv) BY SerialBegins DEF PageInit
  <1>2. SerialInv => AsksWhileInterviewing /\ TranscriptIsUserTurns /\ TurnCap /\ ClosedOrCut
    BY SerialClaims
  <1>3. Quiet <=> open /\ unsure = {} /\ ~Overlapped BY DEF Quiet, Certain
  <1>4. PageInv /\ (Quiet => SerialInv) /\ [PageNext]_allVars => (Quiet => SerialInv)'
    BY PageIsSerial
  <1>5. PageSpec => [](Quiet => SerialInv) BY PageAlways, <1>1, <1>4, PTL DEF PageSpec
  <1>. QED BY <1>2, <1>3, <1>5, PTL
=============================================================================
