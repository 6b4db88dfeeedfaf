----------------------------- MODULE ProfilePage -----------------------------
(***************************************************************************)
(* The profile of a person (RelationshipProfilePage of                     *)
(* frontend/src/App.tsx) with its two dialogs, the session its requests    *)
(* carry (ClientSession), and the routes they reach: POST /crm/writeback,  *)
(* POST /constraints and GET /nodes/{id}.                                  *)
(*                                                                         *)
(* A dialog may be closed and opened again while its request is under way, *)
(* so that one page sends two write-backs of one fact at once.  The route  *)
(* looks for a note, and then inserts one; the column is unique.  When the *)
(* person cannot be fetched the page is an error message, and the dialog   *)
(* that was open starts anew when it comes back.                           *)
(***************************************************************************)
EXTENDS ClientSession

CONSTANTS
    Facts,       \* the facts of the person shown
    Notes,       \* what a note may say
    Requests,    \* BOUND: write-backs and boundaries ever sent
    Profile      \* the route of the page

NoNote == "no note"
NoFact == "no fact"
NoRequest == "no request"

ASSUME ProfileAssumption ==
    /\ Profile \in Pages
    /\ NoNote \notin Notes /\ NoFact \notin Facts /\ NoRequest \notin Requests

VARIABLES
    notes,       \* crm_writebacks: the note of each fact
    boundaries,  \* the constraints of the person, named by the request
    req,         \* the requests
    dialog,      \* the dialog that is open
    data,        \* the cached person: its constraints
    known,       \* there is a cached person
    invalid,     \* it was invalidated since
    error,       \* the last fetch failed and none succeeded since
    fetch,       \* the fetch of the person
    wire,        \* tokens of requests sent since the browser loaded the page, of
                 \* which only a 401 may still be heard
    prepared,    \* HISTORY: facts whose note the page said is prepared
    added        \* HISTORY: boundaries the page said are added, since mounted

cacheVars == <<data, known, invalid, error>>
serverVars == <<notes, boundaries>>
vars == <<session, route, form, arriving, issued, expired, notes, boundaries, req,
          dialog, data, known, invalid, error, fetch, wire, prepared, added>>

Request == [phase : {"idle", "sent", "looked", "answered", "failed", "over"},
            kind : {"none", "note", "boundary"},
            fact : Facts \cup {NoFact},
            note : Notes \cup {NoNote},
            token : Token \cup {NoSession},
            waits : BOOLEAN]              \* somebody waits for its answer
Dialog == [kind : {"none", "note", "boundary"},
           fact : Facts \cup {NoFact},
           phase : {"form", "busy", "success", "error"},
           request : Requests \cup {NoRequest}]
Fetch == [phase : {"idle", "asking", "answered"},
          token : Token \cup {NoSession},
          seen : SUBSET Requests]

Unsent == [phase |-> "idle", kind |-> "none", fact |-> NoFact, note |-> NoNote,
           token |-> NoSession, waits |-> FALSE]
Closed == [kind |-> "none", fact |-> NoFact, phase |-> "form", request |-> NoRequest]
NoFetch == [phase |-> "idle", token |-> NoSession, seen |-> {}]
Asking(t) == [phase |-> "asking", token |-> t, seen |-> {}]

ProfileOpen == session # NoSession /\ route = Profile
\* The person is rendered; otherwise a skeleton or an error is.
Shown == ProfileOpen /\ known /\ ~error

Init ==
    /\ SessionInit
    /\ notes = [f \in Facts |-> NoNote]
    /\ boundaries = {}
    /\ req = [r \in Requests |-> Unsent]
    /\ dialog = Closed
    /\ data = {} /\ known = FALSE /\ invalid = FALSE /\ error = FALSE
    /\ fetch = NoFetch
    /\ wire = {}
    /\ prepared = {}
    /\ added = {}

-----------------------------------------------------------------------------
\* The session, and the page that is mounted and unmounted with it.

Mount ==
    /\ IF fetch.phase # "idle" THEN UNCHANGED fetch
       ELSE \/ fetch' = Asking(session')
            \/ known /\ ~invalid /\ UNCHANGED fetch
    /\ UNCHANGED <<dialog, added>>
Unmount ==
    /\ dialog' = Closed
    /\ added' = {}
    /\ UNCHANGED fetch
PageFollows ==
    /\ \/ ~ProfileOpen /\ ProfileOpen' /\ Mount
       \/ ProfileOpen /\ ~ProfileOpen' /\ Unmount
       \/ ProfileOpen' = ProfileOpen /\ UNCHANGED <<fetch, dialog, added>>
    /\ UNCHANGED <<serverVars, req, cacheVars, prepared>>

\* The other queries of a page carry the session's token too.
MoreRequests == wire' = IF route' \in Pages THEN wire \cup {session'} ELSE wire

SignIn ==
    \/ SubmitSignIn /\ UNCHANGED wire /\ PageFollows
    \/ \E t \in Token : SignInArrives(t) /\ MoreRequests /\ PageFollows
    \/ \E t \in Token : SignInFails(t) /\ UNCHANGED wire /\ PageFollows
Navigate == \E p \in Routes : GoTo(p) /\ MoreRequests /\ PageFollows
Leave == SignOut /\ UNCHANGED wire /\ PageFollows
Expiry == Expire /\ UNCHANGED wire /\ PageFollows

\* A 401 to a request of another query, or of a fetch that was given up.
LateRefusal(t) ==
    /\ t \in wire
    /\ Refused(t)
    /\ Unauthorized
    /\ UNCHANGED wire
    /\ PageFollows

\* The browser forgets the cache and what it waited for.
Reload ==
    /\ ReloadSession
    /\ data' = {} /\ known' = FALSE /\ invalid' = FALSE /\ error' = FALSE
    /\ fetch' = IF ProfileOpen THEN Asking(session) ELSE NoFetch
    /\ wire' = IF route \in Pages THEN {session} ELSE {}
    /\ req' = [r \in Requests |-> [req[r] EXCEPT !.waits = FALSE]]
    /\ dialog' = Closed
    /\ added' = {}
    /\ UNCHANGED <<serverVars, prepared>>

-----------------------------------------------------------------------------
\* The person, fetched like every query: a first failure is tried again, which
\* shows nothing.
ServerReads ==
    /\ fetch.phase = "asking"
    /\ ~Refused(fetch.token)
    /\ fetch' = [fetch EXCEPT !.phase = "answered", !.seen = boundaries]
    /\ UNCHANGED <<sessionVars, serverVars, req, dialog, cacheVars, wire, prepared, added>>
PersonArrives ==
    /\ fetch.phase = "answered"
    /\ data' = fetch.seen /\ known' = TRUE /\ invalid' = FALSE /\ error' = FALSE
    /\ fetch' = NoFetch
    /\ UNCHANGED <<sessionVars, serverVars, req, dialog, wire, prepared, added>>

\* The error takes the place of the page; a dialog keeps its place in the page's
\* state and loses its own.
Errs ==
    /\ fetch' = NoFetch
    /\ invalid' = TRUE /\ error' = TRUE
    /\ UNCHANGED <<data, known>>
\* BugPersonFails takes every error for a refusal.
BugPersonFails ==
    /\ fetch.phase \in {"asking", "answered"}
    /\ Unauthorized
    /\ Errs
    /\ dialog' = Closed
    /\ added' = {}
    /\ UNCHANGED <<serverVars, req, wire, prepared>>
PersonFails ==
    /\ fetch.phase \in {"asking", "answered"}
    /\ Errs
    /\ dialog' = [dialog EXCEPT !.phase = "form", !.request = NoRequest]
    /\ UNCHANGED <<sessionVars, serverVars, req, wire, prepared, added>>
PersonRefused ==
    /\ fetch.phase = "asking"
    /\ Refused(fetch.token)
    /\ Unauthorized
    /\ Errs
    /\ IF ProfileOpen THEN dialog' = Closed /\ added' = {} ELSE UNCHANGED <<dialog, added>>
    /\ UNCHANGED <<serverVars, req, wire, prepared>>

\* A fetch under way is given up for a new one, unless it is the first.
Refetch ==
    IF fetch.phase # "idle" /\ ~known THEN UNCHANGED <<fetch, wire>>
    ELSE /\ fetch' = Asking(session)
         /\ wire' = IF fetch.phase = "asking" THEN wire \cup {fetch.token} ELSE wire
TryAgain ==
    /\ ProfileOpen
    /\ error
    /\ Refetch
    /\ UNCHANGED <<sessionVars, serverVars, req, dialog, cacheVars, prepared, added>>

-----------------------------------------------------------------------------
\* The dialogs.

OpenDialog(kind, f) ==
    /\ Shown
    /\ dialog.kind = "none"
    /\ kind = "boundary" <=> f = NoFact
    /\ dialog' = [kind |-> kind, fact |-> f, phase |-> "form", request |-> NoRequest]
    /\ UNCHANGED <<sessionVars, serverVars, req, cacheVars, fetch, wire, prepared, added>>

\* Cancel, Done, Escape, the cross or a click beside it, whatever is under way.
CloseDialog ==
    /\ Shown
    /\ dialog.kind # "none"
    /\ dialog' = Closed
    /\ UNCHANGED <<sessionVars, serverVars, req, cacheVars, fetch, wire, prepared, added>>

\* The form is there and its button not busy.
Ready == Shown /\ dialog.kind # "none" /\ dialog.phase \in {"form", "error"}
Submit(r, n) ==
    /\ Ready
    /\ req[r].phase = "idle"
    /\ dialog.kind = "boundary" <=> n = NoNote
    /\ req' = [req EXCEPT ![r] = [phase |-> "sent", kind |-> dialog.kind,
                                  fact |-> dialog.fact, note |-> n, token |-> session,
                                  waits |-> TRUE]]
    /\ dialog' = [dialog EXCEPT !.phase = "busy", !.request = r]
    /\ UNCHANGED <<sessionVars, serverVars, cacheVars, fetch, wire, prepared, added>>

-----------------------------------------------------------------------------
\* The server.

Becomes(r, phase) ==
    /\ req' = [req EXCEPT ![r].phase = phase]
    /\ UNCHANGED <<sessionVars, dialog, cacheVars, fetch, wire, prepared, added>>

\* crm_writeback looks for a note of the fact and replays it.
LookUp(r) ==
    /\ req[r].phase = "sent" /\ req[r].kind = "note"
    /\ ~Refused(req[r].token)
    /\ Becomes(r, IF notes[req[r].fact] = NoNote THEN "looked" ELSE "answered")
    /\ UNCHANGED serverVars

\* It inserts one and commits; fact_id is unique, and the error of the second
\* insert is nobody's to catch.  BugInsert leaves the key to the look-up.
BugInsert(r) ==
    /\ req[r].phase = "looked"
    /\ notes' = [notes EXCEPT ![req[r].fact] = req[r].note]
    /\ Becomes(r, "answered")
    /\ UNCHANGED boundaries
Insert(r) ==
    /\ req[r].phase = "looked"
    /\ IF notes[req[r].fact] = NoNote
       THEN notes' = [notes EXCEPT ![req[r].fact] = req[r].note] /\ Becomes(r, "answered")
       ELSE Becomes(r, "failed") /\ UNCHANGED notes
    /\ UNCHANGED boundaries

\* set_constraint, one commit.
Protect(r) ==
    /\ req[r].phase = "sent" /\ req[r].kind = "boundary"
    /\ ~Refused(req[r].token)
    /\ boundaries' = boundaries \cup {r}
    /\ Becomes(r, "answered")
    /\ UNCHANGED notes

ServerFails(r) ==
    /\ req[r].phase \in {"sent", "looked"}
    /\ Becomes(r, "failed")
    /\ UNCHANGED serverVars

-----------------------------------------------------------------------------
\* The answers.
Mine(r) == dialog.request = r

\* onSuccess of a boundary: the person is invalid, and fetched if shown.
\* BugInvalidate forgets it.
BugInvalidate == UNCHANGED <<fetch, wire, cacheVars>>
Invalidate ==
    /\ invalid' = (known \/ error)
    /\ UNCHANGED <<data, known, error>>
    /\ IF ProfileOpen THEN Refetch ELSE UNCHANGED <<fetch, wire>>

Answered(r) ==
    /\ req[r].phase = "answered"
    /\ req' = [req EXCEPT ![r].phase = "over", ![r].waits = FALSE]
    /\ IF req[r].waits /\ Mine(r)
       THEN /\ dialog' = [dialog EXCEPT !.phase = "success"]
            /\ prepared' = prepared \cup ({req[r].fact} \cap Facts)
            /\ added' = IF req[r].kind = "boundary" THEN added \cup {r} ELSE added
       ELSE UNCHANGED <<dialog, prepared, added>>
    /\ IF req[r].waits /\ req[r].kind = "boundary" THEN Invalidate
       ELSE UNCHANGED <<cacheVars, fetch, wire>>
    /\ UNCHANGED <<sessionVars, serverVars>>

\* BugTold leaves the dialog busy.
BugTold(r, phase, waits) ==
    /\ req' = [req EXCEPT ![r].phase = phase, ![r].waits = waits]
    /\ UNCHANGED <<sessionVars, serverVars, dialog, cacheVars, fetch, wire, prepared, added>>
Told(r, phase, waits) ==
    /\ req' = [req EXCEPT ![r].phase = phase, ![r].waits = waits]
    /\ dialog' = IF req[r].waits /\ Mine(r) THEN [dialog EXCEPT !.phase = "error"] ELSE dialog
    /\ UNCHANGED <<sessionVars, serverVars, cacheVars, fetch, wire, prepared, added>>
Failed(r) == req[r].phase = "failed" /\ Told(r, "over", FALSE)

\* The connection breaks before the request reached the server, or after.
Lose(r) ==
    /\ req[r].phase \in {"sent", "looked", "answered"}
    /\ req[r].waits
    /\ Told(r, "over", FALSE) \/ Told(r, req[r].phase, FALSE)

\* 401: the session goes, and the page with it.
RequestRefused(r) ==
    /\ req[r].phase = "sent"
    /\ Refused(req[r].token)
    /\ req' = [req EXCEPT ![r].phase = "over", ![r].waits = FALSE]
    /\ IF req[r].waits
       THEN /\ Unauthorized
            /\ IF ProfileOpen THEN dialog' = Closed /\ added' = {}
               ELSE UNCHANGED <<dialog, added>>
       ELSE UNCHANGED <<sessionVars, dialog, added>>
    /\ UNCHANGED <<serverVars, cacheVars, fetch, wire, prepared>>

-----------------------------------------------------------------------------
Serve(r) == LookUp(r) \/ Insert(r) \/ Protect(r) \/ ServerFails(r) \/ RequestRefused(r)

Next ==
    \/ SignIn \/ Navigate \/ Leave \/ Expiry \/ Reload
    \/ \E t \in Token : LateRefusal(t)
    \/ ServerReads \/ PersonArrives \/ PersonFails \/ PersonRefused \/ TryAgain
    \/ CloseDialog
    \/ \E f \in Facts : OpenDialog("note", f)
    \/ OpenDialog("boundary", NoFact)
    \/ \E r \in Requests : \/ Serve(r) \/ Answered(r) \/ Failed(r) \/ Lose(r)
                           \/ \E n \in Notes \cup {NoNote} : Submit(r, n)

Spec == Init /\ [][Next]_vars

-----------------------------------------------------------------------------
Typed ==
    /\ SessionTypeOK
    /\ notes \in [Facts -> Notes \cup {NoNote}]
    /\ boundaries \in SUBSET Requests
    /\ req \in [Requests -> Request]
    /\ dialog \in Dialog
    /\ data \in SUBSET Requests
    /\ known \in BOOLEAN /\ invalid \in BOOLEAN /\ error \in BOOLEAN
    /\ fetch \in Fetch
    /\ wire \in SUBSET Token
    /\ prepared \in SUBSET Facts
    /\ added \in SUBSET Requests

\* The session, the server and the page have the shape the code gives them, and
\* a dialog is busy only while it waits for the answer to the request it sent.
BusyWaits ==
    dialog.phase = "busy" =>
        /\ dialog.request \in Requests
        /\ req[dialog.request].waits /\ req[dialog.request].kind = dialog.kind
TypeOK == Typed /\ BusyWaits

\* A fact's note is written once, however many dialogs write at once, and the
\* page says that it is prepared only when there is one: crm_writeback keeps
\* the promises of NoteBook.
Book == INSTANCE NoteBook WITH told <- prepared
ImplementsNotes == Book!Spec

\* A boundary the page said it added is in the banner's list once nothing is
\* under way, whatever fetches of the person were answered before it was
\* (onSuccess of AddBoundaryDialog).
BoundaryListed == Shown /\ fetch.phase = "idle" => added \subseteq data

\* A session the server accepts ends only at the user's word, or at the 401 of
\* a request that carried an older token (request of api.ts, AuthProvider).
OnTheWire ==
    wire \cup {req[r].token : r \in {s \in Requests : req[s].waits}}
         \cup (IF fetch.phase = "asking" THEN {fetch.token} ELSE {})
ValidSessionKept ==
    [][session > expired /\ session' = NoSession =>
            SignOut \/ \E t \in OnTheWire : t < session /\ Refused(t)]_vars
=============================================================================
