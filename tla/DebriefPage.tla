----------------------------- MODULE DebriefPage -----------------------------
(***************************************************************************)
(* The Debrief page (DebriefPage of frontend/src/App.tsx) composed with    *)
(* the session row its requests work on (Interview).                       *)
(*                                                                         *)
(* The page shows the last response it was given and sends what that       *)
(* response calls for: an answer while nothing is pending, a resolution of *)
(* what is pending, or a finish.  Its buttons are disabled while a         *)
(* mutation is under way, but for the form that resolves a challenge,      *)
(* which waits for its own mutation only.  Responses come late or never;   *)
(* a failure is shown, whatever the server has done or goes on to do, and  *)
(* the answer stays in the composer.                                       *)
(*                                                                         *)
(* A page that is left never asks for its session again: what happens then *)
(* is the server's part alone.                                             *)
(***************************************************************************)
EXTENDS Interview

VARIABLES
    open,      \* the page shows the session
    view,      \* debrief: the last response
    call,      \* the mutations of the page: what became of each request
    asks,      \* what each request asks for
    text,      \* the answer each request carries, named by the first that did
    composer,  \* the answer left in the composer, or Nobody
    answer,    \* what each resolution has answered before it plans on
    hidden,    \* requests whose failure the router hides behind that answer
    unsure     \* HISTORY: requests shown as failed that changed the row, or may

pageVars == <<open, view, call, asks, text, composer, hidden, unsure>>
allVars == <<row, draft, lock, req, open, view, call, asks, text, composer, answer, hidden,
             unsure>>

\* A response: status, pending_challenge and next_question of a row.
View(copy) == [status |-> copy.status, pending |-> copy.pending, question |-> copy.question]
Views == [status : Statuses, pending : Pending, question : Requests \cup {Question, Nobody}]

\* The answer of resolve_debrief before it resumes, which stands if that fails.
ResolvedView(copy) ==
    [status |-> IF copy.pending = NoPending THEN "completed" ELSE "awaiting_resolution",
     pending |-> copy.pending, question |-> copy.question]

\* The start has been answered; one that was not is asked for again and leaves
\* a row nobody knows.
PageInit ==
    /\ Init
    /\ open = TRUE
    /\ view = View(Opened)
    /\ call = [r \in Requests |-> "none"]
    /\ asks = [r \in Requests |-> "none"]
    /\ text = [r \in Requests |-> Nobody]
    /\ composer = Nobody
    /\ answer = [r \in Requests |-> View(Opened)]
    /\ hidden = {}
    /\ unsure = {}

-----------------------------------------------------------------------------
\* What the page sends.
Waiting(kind) == \E r \in Requests : call[r] = "waiting" /\ asks[r] = kind
Busy == \E r \in Requests : call[r] = "waiting"
InSession == open /\ view.status # "completed"

Send(r, kind) ==
    /\ call[r] = "none"
    /\ call' = [call EXCEPT ![r] = "waiting"]
    /\ asks' = [asks EXCEPT ![r] = kind]
    /\ UNCHANGED <<vars, open, view, answer, hidden, unsure>>

\* The composer is there while nothing is pending.  BugComposer looks at the
\* status instead.
BugComposer == InSession /\ view.status # "awaiting_resolution"
Composer == InSession /\ view.pending = NoPending

\* Send, or Enter: what was left in the composer, or something else.  BugAnswer
\* leaves it enabled.
BugAnswer(r) ==
    /\ Composer
    /\ \E t \in {r, composer} \ {Nobody} :
           text' = [text EXCEPT ![r] = t] /\ composer' = t
    /\ Send(r, "turn")
Answer(r) ==
    /\ Composer
    /\ ~Busy
    /\ \E t \in {r, composer} \ {Nobody} :
           text' = [text EXCEPT ![r] = t] /\ composer' = t
    /\ Send(r, "turn")

\* A candidate, or someone new.
Choose(r) ==
    /\ InSession
    /\ view.pending.type = "ambiguity"
    /\ ~Busy
    /\ Send(r, "resolve")
    /\ UNCHANGED <<text, composer>>

\* Confirm context.
Confirm(r) ==
    /\ InSession
    /\ view.pending.type = "challenge"
    /\ ~Waiting("resolve")
    /\ Send(r, "resolve")
    /\ UNCHANGED <<text, composer>>

\* BugPressFinish leaves the button enabled.
BugPressFinish(r) ==
    /\ InSession
    /\ Send(r, "finish")
    /\ UNCHANGED <<text, composer>>
PressFinish(r) ==
    /\ InSession
    /\ ~Busy
    /\ Send(r, "finish")
    /\ UNCHANGED <<text, composer>>

\* Leave debrief, a link, a sign-out, a reload, or another debrief once this one
\* is complete.
Leave ==
    /\ open
    /\ open' = FALSE
    /\ call' = [r \in Requests |-> IF call[r] = "waiting" THEN "dropped" ELSE call[r]]
    /\ UNCHANGED <<vars, view, asks, text, composer, answer, hidden, unsure>>

-----------------------------------------------------------------------------
\* What the server does.

\* A request reaches it, if it ever does.
Reach(r) ==
    /\ call[r] \in {"waiting", "dropped"}
    /\ \/ asks[r] = "turn" /\ SubmitTurn(r)
       \/ asks[r] = "resolve" /\ Resolve(r)
       \/ asks[r] = "finish" /\ Finish(r)
    /\ UNCHANGED <<pageVars, answer>>

Work(r) ==
    /\ Step(r)
    /\ answer' = [answer EXCEPT ![r] =
                    IF req'[r].pc = "resume" THEN ResolvedView(req'[r].copy) ELSE @]
    /\ UNCHANGED pageVars

\* It fails; once the answer of a resolution is committed, the router hides
\* what fails in planning on, unless the process dies.
Break(r) ==
    /\ Fail(r)
    /\ \/ /\ req[r].pc \in {"resume", "reopen", "replan"}
          /\ hidden' = hidden \cup {r}
          /\ UNCHANGED unsure
       \/ /\ unsure' = IF req[r].pc \in {"plan", "resume", "reopen", "replan"}
                       THEN unsure \cup {r} ELSE unsure
          /\ UNCHANGED hidden
    /\ UNCHANGED <<open, view, call, asks, text, composer, answer>>

-----------------------------------------------------------------------------
\* What the page is told.

\* onSuccess: the response is shown, and an answer taken out of the composer.
\* BugTold keeps the view.
BugTold(r, v) ==
    /\ UNCHANGED view
    /\ composer' = IF asks[r] = "turn" THEN Nobody ELSE composer
Told(r, v) ==
    /\ view' = v
    /\ composer' = IF asks[r] = "turn" THEN Nobody ELSE composer
Hear(r) ==
    /\ call[r] = "waiting"
    /\ \/ req[r].pc = "done" /\ Told(r, View(req[r].copy))
       \/ r \in hidden /\ Told(r, answer[r])
    /\ call' = [call EXCEPT ![r] = "told"]
    /\ UNCHANGED <<vars, open, asks, text, answer, hidden, unsure>>

\* onError: the message is shown and nothing else changes.  The server failed,
\* or it refuses what it is asked.
Refuses(r) ==
    /\ req[r].pc = "idle"
    /\ \/ asks[r] = "turn" /\ \/ row.status = "completed"
                              \/ row.status = "awaiting_resolution" /\ row.pending # NoPending
       \/ asks[r] = "resolve" /\ row.pending = NoPending
HearError(r) ==
    /\ call[r] = "waiting"
    /\ Refuses(r) \/ (req[r].pc = "failed" /\ r \notin hidden)
    /\ call' = [call EXCEPT ![r] = "error"]
    /\ UNCHANGED <<vars, open, view, asks, text, composer, answer, hidden, unsure>>

\* The connection breaks: the same error, and the request or its answer may be
\* anywhere.
Lose(r) ==
    /\ call[r] = "waiting"
    /\ call' = [call EXCEPT ![r] = "dropped"]
    /\ unsure' = unsure \cup {r}
    /\ UNCHANGED <<vars, open, view, asks, text, composer, answer, hidden>>

-----------------------------------------------------------------------------
PageNext ==
    \/ Leave
    \/ \E r \in Requests :
          \/ Answer(r) \/ Choose(r) \/ Confirm(r) \/ PressFinish(r)
          \/ Reach(r) \/ Work(r) \/ Break(r)
          \/ Hear(r) \/ HearError(r) \/ Lose(r)

PageSpec == PageInit /\ [][PageNext]_allVars

\* The network carries requests and responses or breaks, and the event loop runs
\* every request that does not wait for the row.
PageFairSpec ==
    /\ PageSpec
    /\ \A r \in Requests : /\ WF_allVars(Reach(r)) /\ WF_allVars(Work(r))
                           /\ WF_allVars(Hear(r) \/ HearError(r))

-----------------------------------------------------------------------------
PageTypeOK ==
    /\ TypeOK
    /\ open \in BOOLEAN
    /\ view \in Views
    /\ call \in [Requests -> {"none", "waiting", "told", "error", "dropped"}]
    /\ asks \in [Requests -> {"none", "turn", "resolve", "finish"}]
    /\ text \in [Requests -> Requests \cup {Nobody}]
    /\ composer \in Requests \cup {Nobody}
    /\ answer \in [Requests -> Views]
    /\ hidden \subseteq Requests
    /\ unsure \subseteq Requests

\* The page serves the session one request at a time, which Interview's serial
\* claims ask of a client: only a resolution may run beside a finish, unless an
\* answer was lost (busy of DebriefPage).
OneAtATime ==
    unsure = {} /\ open =>
        \A r \in InFlight, s \in InFlight :
            r = s \/ {asks[r], asks[s]} = {"finish", "resolve"}

\* With nothing under way the page shows the session as it is: the question
\* that is answered next and the challenge that is resolved are the row's,
\* through failures that changed nothing, unless a failure hid a change or a
\* resolution ran beside a finish (setDebrief of DebriefPage).
Overlapped ==
    /\ \E r \in Requests : asks[r] = "finish"
    /\ \E r \in Requests : asks[r] = "resolve"
PageInSync ==
    open /\ ~Busy /\ unsure = {} /\ ~Overlapped => view = View(row)

\* "If a challenge is pending, caller should use /resolve instead": the page
\* does, although the server takes a turn over a challenge that an answer
\* raised (pending_challenge in DebriefPage, submit_turn, resolve_debrief).
AnsweredThroughPage ==
    [][open /\ unsure = {} /\ row.pending # NoPending /\ row'.pending # row.pending =>
        \E r \in Requests : req[r].pc \in {"resolve", "again"} /\ req'[r].pc # req[r].pc]_allVars

\* An answer is in the transcript twice only if the user was shown that it had
\* failed and sent it again (composer of DebriefPage).
TwiceOnlyIfTold ==
    \A i, j \in DOMAIN row.transcript :
        i < j /\ text[row.transcript[i]] = text[row.transcript[j]] =>
            {row.transcript[i], row.transcript[j]} \cap unsure # {}

\* The page does not stay busy: every request gets the row it waits for, and of
\* the page's mutations only one can begin while another is under way.
WaitEnds == Busy ~> ~Busy
=============================================================================
