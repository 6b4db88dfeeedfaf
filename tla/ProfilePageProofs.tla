-------------------------- MODULE ProfilePageProofs --------------------------
(***************************************************************************)
(* What holds of ProfilePage for any facts, notes, tokens and number of    *)
(* requests at once.                                                       *)
(*                                                                         *)
(* The note of a fact is written by one request only, whatever the others  *)
(* found when they looked (NotesHold).  A boundary the page said it added  *)
(* is in the list, or the list is invalid and on its way, or the page      *)
(* shows an error (Listing): a fetch that was answered before the boundary *)
(* was committed is given up for a new one.  That needs to know where a    *)
(* dialog can be (Dialogs).                                                *)
(***************************************************************************)
EXTENDS ProfilePage, TLAPS

\* A page is shown to a session.
SignedIn == route \in Pages => session # NoSession

\* Requests and dialogs say what they are about, an answer is about a note or a
\* boundary that there is, and so is what the page has promised.
NotesHold ==
    /\ \A r \in Requests :
          /\ req[r].kind = "note" => req[r].fact \in Facts /\ req[r].note \in Notes
          /\ req[r].kind # "note" => req[r].fact = NoFact
          /\ req[r].phase = "looked" => req[r].kind = "note"
          /\ req[r].phase = "answered" /\ req[r].kind = "note" => notes[req[r].fact] # NoNote
          /\ req[r].phase = "answered" /\ req[r].kind = "boundary" => r \in boundaries
    /\ dialog.kind = "note" => dialog.fact \in Facts
    /\ dialog.kind # "note" => dialog.fact = NoFact
    /\ \A f \in prepared : notes[f] # NoNote

\* A dialog, and a boundary that was added in one, belong to a page that has the
\* person.
Dialogs ==
    /\ dialog.kind # "none" \/ added # {} => ProfileOpen /\ known
    /\ dialog.request \in Requests => dialog.kind # "none"

Listing ==
    /\ added \subseteq boundaries
    /\ added \subseteq data \/ invalid
    /\ ProfileOpen /\ invalid => fetch.phase # "idle" \/ error
    /\ fetch.phase = "answered" => added \subseteq fetch.seen

\* The person is asked for with the token of a session.
Asks == fetch.phase = "asking" => fetch.token \in Token

IInv == Typed /\ SignedIn /\ BusyWaits /\ NotesHold /\ Dialogs /\ Listing /\ Asks

-----------------------------------------------------------------------------
\* The records that pages, dialogs and requests begin with have their types.
LEMMA Records ==
    /\ Unsent \in Request /\ Unsent.phase = "idle" /\ Unsent.kind = "none"
    /\ Unsent.fact = NoFact
    /\ Closed \in Dialog /\ Closed.kind = "none" /\ Closed.fact = NoFact
    /\ Closed.phase = "form" /\ Closed.request = NoRequest
    /\ NoFetch \in Fetch /\ NoFetch.phase = "idle"
    /\ \A t \in Token \cup {NoSession} : /\ Asking(t) \in Fetch
                                         /\ Asking(t).phase = "asking"
                                         /\ Asking(t).token = t
  BY DEF Unsent, Request, Closed, Dialog, NoFetch, Asking, Fetch

\* A request that goes on keeps what it is about.
SameMatter(k, l) == l.kind = k.kind /\ l.fact = k.fact /\ l.note = k.note /\ l.token = k.token
Phase == {"idle", "sent", "looked", "answered", "failed", "over"}
LEMMA RequestGoesOn ==
  ASSUME NEW k \in Request, NEW p \in Phase
  PROVE  /\ [k EXCEPT !.phase = p] \in Request
         /\ SameMatter(k, [k EXCEPT !.phase = p])
         /\ [k EXCEPT !.phase = p].phase = p
         /\ [k EXCEPT !.phase = p].waits = k.waits
  BY DEF Request, SameMatter, Phase
LEMMA RequestGivenUp ==
  ASSUME NEW k \in Request
  PROVE  /\ [k EXCEPT !.waits = FALSE] \in Request
         /\ SameMatter(k, [k EXCEPT !.waits = FALSE])
         /\ [k EXCEPT !.waits = FALSE].phase = k.phase
         /\ [k EXCEPT !.waits = FALSE].waits = FALSE
  BY DEF Request, SameMatter

\* A refetch leaves a fetch under way, one that asks when the person is known.
LEMMA RefetchAsks ==
  ASSUME Typed, Asks, ProfileOpen, Refetch
  PROVE  /\ fetch' \in Fetch
         /\ wire' \in SUBSET Token
         /\ fetch'.phase # "idle"
         /\ known => fetch'.phase = "asking"
         /\ fetch'.phase = "answered" => fetch' = fetch
         /\ Asks'
  <1>1. CASE fetch.phase # "idle" /\ ~known
    BY <1>1 DEF Refetch, Typed, Asks
  <1>2. CASE ~(fetch.phase # "idle" /\ ~known)
    <2>1. /\ fetch' = Asking(session)
          /\ wire' = IF fetch.phase = "asking" THEN wire \cup {fetch.token} ELSE wire
      BY <1>2 DEF Refetch
    <2>2. session \in Token
      BY DEF ProfileOpen, Typed, SessionTypeOK
    <2>3. fetch' \in Fetch /\ fetch'.phase = "asking" /\ fetch'.token \in Token
      BY <2>1, <2>2, Records
    <2>. QED BY <2>1, <2>3 DEF Typed, Asks
  <1>. QED BY <1>1, <1>2

LEMMA Begins == Init => IInv
  <1>. SUFFICES ASSUME Init PROVE IInv OBVIOUS
  <1>. USE DEF Init
  <1>1. SessionTypeOK /\ SignedIn
    BY ClientSessionAssumption
    DEF SessionInit, SessionTypeOK, SignedIn, Token, NoSession, Routes
  <1>2. Typed BY <1>1, Records DEF Typed
  <1>3. BusyWaits BY Records DEF BusyWaits
  <1>4. NotesHold BY Records DEF NotesHold
  <1>5. Dialogs BY Records, ProfileAssumption DEF Dialogs
  <1>6. Listing /\ Asks BY Records DEF Listing, Asks
  <1>. QED BY <1>1, <1>2, <1>3, <1>4, <1>5, <1>6 DEF IInv

-----------------------------------------------------------------------------
\* The session and the page that follows it.

\* The route tables keep signed-out users off the pages.
LEMMA Lands ==
  ASSUME NEW s \in Token \cup {NoSession}, NEW p \in Routes
  PROVE  /\ Landing(s, p) \in Routes
         /\ Landing(s, p) \in Pages => s # NoSession
  BY ClientSessionAssumption DEF Landing, Routes

LEMMA BecomeKeeps ==
  ASSUME SessionTypeOK, NEW s \in Token \cup {NoSession}, Become(s)
  PROVE  session' = s /\ route' \in Routes /\ SignedIn'
  BY Lands DEF Become, SessionTypeOK, SignedIn

LEMMA UnauthorizedKeeps ==
  ASSUME SessionTypeOK, Unauthorized
  PROVE  SessionTypeOK' /\ SignedIn' /\ session' = NoSession
  <1>1. session' = NoSession /\ route' \in Routes /\ SignedIn'
    BY BecomeKeeps DEF Unauthorized
  <1>. QED BY <1>1 DEF Unauthorized, SessionTypeOK

LEMMA SessionSteps ==
  ASSUME SessionTypeOK, SignedIn, wire \in SUBSET Token,
         SignIn \/ Navigate \/ Leave \/ Expiry \/ \E t \in Token : LateRefusal(t)
  PROVE  SessionTypeOK' /\ SignedIn' /\ wire' \in SUBSET Token /\ PageFollows
  <1>m. MoreRequests /\ SessionTypeOK' /\ SignedIn' => wire' \in SUBSET Token
    BY DEF MoreRequests, SessionTypeOK, SignedIn
  <1>1. CASE SubmitSignIn /\ UNCHANGED wire /\ PageFollows
    BY <1>1, ClientSessionAssumption DEF SubmitSignIn, SessionTypeOK, SignedIn, Token
  <1>2. ASSUME NEW t \in Token, SignInArrives(t), MoreRequests, PageFollows
        PROVE  SessionTypeOK' /\ SignedIn' /\ wire' \in SUBSET Token /\ PageFollows
    <2>1. session' = t /\ route' \in Routes /\ SignedIn'
      BY <1>2, BecomeKeeps DEF SignInArrives
    <2>2. SessionTypeOK'
      BY <1>2, <2>1 DEF SignInArrives, SessionTypeOK
    <2>. QED BY <1>2, <1>m, <2>1, <2>2
  <1>3. ASSUME NEW t \in Token, SignInFails(t), UNCHANGED wire, PageFollows
        PROVE  SessionTypeOK' /\ SignedIn' /\ wire' \in SUBSET Token /\ PageFollows
    BY <1>3 DEF SignInFails, SessionTypeOK, SignedIn
  <1>4. ASSUME NEW p \in Routes, GoTo(p), MoreRequests, PageFollows
        PROVE  SessionTypeOK' /\ SignedIn' /\ wire' \in SUBSET Token /\ PageFollows
    <2>1. route' \in Routes /\ (route' \in Pages => session # NoSession)
      BY <1>4, Lands DEF GoTo, SessionTypeOK
    <2>2. SessionTypeOK' /\ SignedIn'
      BY <1>4, <2>1 DEF GoTo, SessionTypeOK, SignedIn
    <2>. QED BY <1>4, <1>m, <2>2
  <1>5. CASE SignOut /\ UNCHANGED wire /\ PageFollows
    <2>1. session' = NoSession /\ route' \in Routes /\ SignedIn'
      BY <1>5, BecomeKeeps DEF SignOut
    <2>. QED BY <1>5, <2>1 DEF SignOut, SessionTypeOK
  <1>6. CASE Expiry
    <2>1. expired' \in 0..issued
      BY <1>6, ClientSessionAssumption DEF Expiry, Expire, SessionTypeOK
    <2>. QED BY <1>6, <2>1 DEF Expiry, Expire, SessionTypeOK, SignedIn
  <1>7. ASSUME NEW t \in Token, LateRefusal(t)
        PROVE  SessionTypeOK' /\ SignedIn' /\ wire' \in SUBSET Token /\ PageFollows
    BY <1>7, UnauthorizedKeeps DEF LateRefusal
  <1>. QED BY <1>1, <1>2, <1>3, <1>4, <1>5, <1>6, <1>7 DEF SignIn, Navigate, Leave

LEMMA PageKeeps ==
  ASSUME IInv, SessionTypeOK', SignedIn', wire' \in SUBSET Token, PageFollows
  PROVE  IInv'
  <1>. USE DEF IInv
  <1>1. UNCHANGED <<notes, boundaries, req, data, known, invalid, error, prepared>>
    BY DEF PageFollows, serverVars, cacheVars
  <1>2. CASE ~ProfileOpen /\ ProfileOpen' /\ Mount
    <2>1. UNCHANGED <<dialog, added>> BY <1>2 DEF Mount
    <2>2. session' \in Token BY <1>2 DEF ProfileOpen, SessionTypeOK
    <2>3. \/ fetch' = fetch /\ fetch.phase # "idle"
          \/ fetch' = Asking(session')
          \/ fetch' = fetch /\ ~invalid
      BY <1>2 DEF Mount
    <2>4. fetch' \in Fetch /\ Asks'
      BY <2>2, <2>3, Records DEF Asks, Typed
    <2>5. Typed' BY <1>1, <2>1, <2>4 DEF Typed
    <2>6. BusyWaits' /\ NotesHold' BY <1>1, <2>1 DEF BusyWaits, NotesHold
    <2>7. Dialogs' BY <1>1, <1>2, <2>1 DEF Dialogs
    <2>8. Listing' BY <1>1, <1>2, <2>1, <2>2, <2>3, Records DEF Listing, Dialogs
    <2>. QED BY <2>4, <2>5, <2>6, <2>7, <2>8
  <1>3. CASE ProfileOpen /\ ~ProfileOpen' /\ Unmount
    <2>1. dialog' = Closed /\ added' = {} /\ fetch' = fetch BY <1>3 DEF Unmount
    <2>2. Typed' BY <1>1, <2>1, Records DEF Typed
    <2>3. BusyWaits' BY <2>1, Records DEF BusyWaits
    <2>4. NotesHold' BY <1>1, <2>1, Records DEF NotesHold
    <2>5. Dialogs' BY <2>1, Records, ProfileAssumption DEF Dialogs
    <2>6. Listing' /\ Asks' BY <1>1, <1>3, <2>1 DEF Listing, Asks
    <2>. QED BY <2>2, <2>3, <2>4, <2>5, <2>6
  <1>4. CASE ProfileOpen' = ProfileOpen /\ UNCHANGED <<fetch, dialog, added>>
    <2>1. Typed' BY <1>1, <1>4 DEF Typed
    <2>2. BusyWaits' /\ NotesHold' BY <1>1, <1>4 DEF BusyWaits, NotesHold
    <2>3. Dialogs' /\ Listing' /\ Asks'
      BY <1>1, <1>4 DEF Dialogs, Listing, Asks
    <2>. QED BY <2>1, <2>2, <2>3
  <1>. QED BY <1>2, <1>3, <1>4 DEF PageFollows

LEMMA ReloadKeeps == ASSUME IInv, Reload PROVE IInv'
  <1>. USE DEF IInv
  <1>1. SessionTypeOK' /\ SignedIn' /\ (route \in Pages => session \in Token)
    BY DEF Reload, ReloadSession, Typed, SessionTypeOK, SignedIn
  <1>2. /\ dialog' = Closed /\ added' = {} /\ data' = {}
        /\ known' = FALSE /\ invalid' = FALSE /\ error' = FALSE
        /\ UNCHANGED <<notes, boundaries, prepared>>
    BY DEF Reload, serverVars
  <1>3. req' \in [Requests -> Request]
        /\ \A r \in Requests : SameMatter(req[r], req'[r]) /\ req'[r].phase = req[r].phase
    <2>1. \A r \in Requests : req'[r] = [req[r] EXCEPT !.waits = FALSE]
      BY DEF Reload
    <2>2. \A r \in Requests : req[r] \in Request
      BY DEF Typed
    <2>3. \A r \in Requests : /\ req'[r] \in Request
                              /\ SameMatter(req[r], req'[r]) /\ req'[r].phase = req[r].phase
      BY <2>1, <2>2, RequestGivenUp
    <2>. QED BY <2>3 DEF Reload
  <1>4. session \in Token \cup {NoSession}
    BY DEF Typed, SessionTypeOK
  <1>5. fetch' \in Fetch /\ fetch'.phase # "answered" /\ Asks'
    BY <1>4, Records DEF Reload, Asks, ProfileOpen
  <1>6. wire' \in SUBSET Token BY <1>1 DEF Reload
  <1>7. Typed' BY <1>1, <1>2, <1>3, <1>5, <1>6, Records DEF Typed
  <1>8. BusyWaits' /\ Dialogs' /\ Listing'
    BY <1>2, <1>5, Records, ProfileAssumption DEF BusyWaits, Dialogs, Listing
  <1>9. NotesHold' BY <1>2, <1>3, Records DEF NotesHold, SameMatter
  <1>. QED BY <1>1, <1>5, <1>7, <1>8, <1>9

-----------------------------------------------------------------------------
\* The fetch of the person.

LEMMA ServerReadsKeeps == ASSUME IInv, ServerReads PROVE IInv'
  <1>. USE DEF IInv
  <1>1. /\ UNCHANGED <<notes, boundaries, req, dialog, data, known, invalid, error>>
        /\ UNCHANGED <<session, route, form, arriving, issued, expired, wire, prepared, added>>
    BY DEF ServerReads, sessionVars, serverVars, cacheVars
  <1>2. fetch' \in Fetch /\ fetch'.phase = "answered" /\ fetch'.seen = boundaries
    BY DEF ServerReads, Typed, Fetch
  <1>3. Typed' BY <1>1, <1>2 DEF Typed, SessionTypeOK
  <1>4. SignedIn' /\ BusyWaits' /\ NotesHold' BY <1>1 DEF SignedIn, BusyWaits, NotesHold
  <1>5. Dialogs' /\ Listing' /\ Asks'
    BY <1>1, <1>2 DEF Dialogs, Listing, Asks, ProfileOpen
  <1>. QED BY <1>3, <1>4, <1>5

LEMMA PersonArrivesKeeps == ASSUME IInv, PersonArrives PROVE IInv'
  <1>. USE DEF IInv
  <1>1. /\ UNCHANGED <<notes, boundaries, req, dialog>>
        /\ UNCHANGED <<session, route, form, arriving, issued, expired, wire, prepared, added>>
        /\ fetch' = NoFetch
    BY DEF PersonArrives, sessionVars, serverVars
  <1>2. data' \in SUBSET Requests BY DEF PersonArrives, Typed, Fetch
  <1>3. added \subseteq data' /\ known' = TRUE /\ invalid' = FALSE /\ error' = FALSE
    BY DEF PersonArrives, Listing
  <1>4. Typed' BY <1>1, <1>2, <1>3, Records DEF Typed, SessionTypeOK
  <1>5. SignedIn' /\ BusyWaits' /\ NotesHold' BY <1>1 DEF SignedIn, BusyWaits, NotesHold
  <1>6. Dialogs' /\ Listing' /\ Asks'
    BY <1>1, <1>3, Records DEF Dialogs, Listing, Asks, ProfileOpen
  <1>. QED BY <1>4, <1>5, <1>6

LEMMA PersonFailsKeeps == ASSUME IInv, PersonFails PROVE IInv'
  <1>. USE DEF IInv
  <1>1. /\ UNCHANGED <<notes, boundaries, req, data, known>>
        /\ UNCHANGED <<session, route, form, arriving, issued, expired, wire, prepared, added>>
        /\ fetch' = NoFetch /\ invalid' = TRUE /\ error' = TRUE
    BY DEF PersonFails, Errs, sessionVars, serverVars
  <1>2. /\ dialog' \in Dialog /\ dialog'.phase = "form" /\ dialog'.request = NoRequest
        /\ dialog'.kind = dialog.kind /\ dialog'.fact = dialog.fact
    BY DEF PersonFails, Typed, Dialog
  <1>3. Typed' BY <1>1, <1>2, Records DEF Typed, SessionTypeOK
  <1>4. SignedIn' /\ BusyWaits' /\ NotesHold'
    BY <1>1, <1>2 DEF SignedIn, BusyWaits, NotesHold
  <1>5. Dialogs' /\ Listing' /\ Asks'
    BY <1>1, <1>2, Records, ProfileAssumption DEF Dialogs, Listing, Asks, ProfileOpen
  <1>. QED BY <1>3, <1>4, <1>5

LEMMA PersonRefusedKeeps == ASSUME IInv, PersonRefused PROVE IInv'
  <1>. USE DEF IInv
  <1>1. /\ UNCHANGED <<notes, boundaries, req, data, known, wire, prepared>>
        /\ fetch' = NoFetch /\ invalid' = TRUE /\ error' = TRUE
    BY DEF PersonRefused, Errs, serverVars
  <1>2. SessionTypeOK' /\ SignedIn' /\ session' = NoSession
    BY UnauthorizedKeeps DEF PersonRefused, Typed
  <1>3. \/ dialog' = Closed /\ added' = {}
        \/ ~ProfileOpen /\ UNCHANGED <<dialog, added>>
    BY Zenon DEF PersonRefused
  <1>4. Typed' BY <1>1, <1>2, <1>3, Records DEF Typed
  <1>5. BusyWaits' /\ NotesHold' BY <1>1, <1>3, Records DEF BusyWaits, NotesHold
  <1>6. Dialogs' /\ Listing' /\ Asks'
    BY <1>1, <1>3, Records, ProfileAssumption DEF Dialogs, Listing, Asks
  <1>. QED BY <1>2, <1>4, <1>5, <1>6

LEMMA TryAgainKeeps == ASSUME IInv, TryAgain PROVE IInv'
  <1>. USE DEF IInv
  <1>1. /\ UNCHANGED <<notes, boundaries, req, dialog, data, known, invalid, error>>
        /\ UNCHANGED <<session, route, form, arriving, issued, expired, prepared, added>>
    BY DEF TryAgain, sessionVars, serverVars, cacheVars
  <1>2. /\ fetch' \in Fetch /\ wire' \in SUBSET Token /\ fetch'.phase # "idle" /\ Asks'
        /\ fetch'.phase = "answered" => fetch' = fetch
    BY RefetchAsks DEF TryAgain
  <1>3. Typed' BY <1>1, <1>2 DEF Typed, SessionTypeOK
  <1>4. SignedIn' /\ BusyWaits' /\ NotesHold' BY <1>1 DEF SignedIn, BusyWaits, NotesHold
  <1>5. Dialogs' /\ Listing' BY <1>1, <1>2 DEF Dialogs, Listing, ProfileOpen
  <1>. QED BY <1>2, <1>3, <1>4, <1>5

-----------------------------------------------------------------------------
\* The dialogs.

LEMMA OpenDialogKeeps ==
  ASSUME IInv, NEW kind \in {"note", "boundary"}, NEW f \in Facts \cup {NoFact},
         OpenDialog(kind, f)
  PROVE  IInv'
  <1>. USE DEF IInv
  <1>1. /\ UNCHANGED <<notes, boundaries, req, data, known, invalid, error, fetch, wire>>
        /\ UNCHANGED <<session, route, form, arriving, issued, expired, prepared, added>>
    BY DEF OpenDialog, sessionVars, serverVars, cacheVars
  <1>2. /\ dialog' \in Dialog /\ dialog'.phase = "form" /\ dialog'.request = NoRequest
        /\ dialog'.kind = kind /\ dialog'.fact = f
        /\ kind = "boundary" <=> f = NoFact
    BY DEF OpenDialog, Dialog
  <1>3. Typed' BY <1>1, <1>2 DEF Typed, SessionTypeOK
  <1>4. SignedIn' /\ BusyWaits' BY <1>1, <1>2 DEF SignedIn, BusyWaits
  <1>5. NotesHold' BY <1>1, <1>2 DEF NotesHold
  <1>6. ProfileOpen /\ known BY DEF OpenDialog, Shown
  <1>7. Dialogs' /\ Listing' /\ Asks'
    BY <1>1, <1>2, <1>6, ProfileAssumption DEF Dialogs, Listing, Asks, ProfileOpen
  <1>. QED BY <1>3, <1>4, <1>5, <1>7

LEMMA CloseDialogKeeps == ASSUME IInv, CloseDialog PROVE IInv'
  <1>. USE DEF IInv
  <1>1. /\ UNCHANGED <<notes, boundaries, req, data, known, invalid, error, fetch, wire>>
        /\ UNCHANGED <<session, route, form, arriving, issued, expired, prepared, added>>
        /\ dialog' = Closed
    BY DEF CloseDialog, sessionVars, serverVars, cacheVars
  <1>2. Typed' BY <1>1, Records DEF Typed, SessionTypeOK
  <1>3. SignedIn' /\ BusyWaits' /\ NotesHold'
    BY <1>1, Records DEF SignedIn, BusyWaits, NotesHold
  <1>4. Dialogs' /\ Listing' /\ Asks'
    BY <1>1, Records, ProfileAssumption DEF Dialogs, Listing, Asks, ProfileOpen
  <1>. QED BY <1>2, <1>3, <1>4

LEMMA SubmitKeeps ==
  ASSUME IInv, NEW r \in Requests, NEW n \in Notes \cup {NoNote}, Submit(r, n)
  PROVE  IInv'
  <1>. USE DEF IInv
  <1>1. /\ UNCHANGED <<notes, boundaries, data, known, invalid, error, fetch, wire>>
        /\ UNCHANGED <<session, route, form, arriving, issued, expired, prepared, added>>
    BY DEF Submit, sessionVars, serverVars, cacheVars
  <1>2. /\ dialog.kind \in {"note", "boundary"}
        /\ dialog.fact \in Facts \cup {NoFact}
        /\ session \in Token
        /\ ProfileOpen /\ known
    BY DEF Submit, Ready, Shown, ProfileOpen, Typed, Dialog, SessionTypeOK
  <1>3. /\ dialog' \in Dialog /\ dialog'.phase = "busy" /\ dialog'.request = r
        /\ dialog'.kind = dialog.kind /\ dialog'.fact = dialog.fact
    BY DEF Submit, Typed, Dialog
  <1>4. PICK k : k = [phase |-> "sent", kind |-> dialog.kind, fact |-> dialog.fact,
                      note |-> n, token |-> session, waits |-> TRUE]
    OBVIOUS
  <1>5. /\ k \in Request /\ k.phase = "sent" /\ k.kind = dialog.kind
        /\ k.fact = dialog.fact /\ k.note = n /\ k.waits = TRUE
    BY <1>2, <1>4 DEF Request
  <1>6. /\ req' \in [Requests -> Request]
        /\ req'[r] = k
        /\ \A s \in Requests : s # r => req'[s] = req[s]
    BY <1>4, <1>5 DEF Submit, Typed
  <1>7. dialog.kind = "note" => n \in Notes
    BY DEF Submit
  <1>8. Typed' BY <1>1, <1>3, <1>6 DEF Typed, SessionTypeOK
  <1>9. SignedIn' /\ BusyWaits' BY <1>1, <1>3, <1>5, <1>6 DEF SignedIn, BusyWaits
  <1>10. NotesHold' BY <1>1, <1>3, <1>5, <1>6, <1>7 DEF NotesHold
  <1>11. Dialogs' /\ Listing' /\ Asks'
    BY <1>1, <1>2, <1>3 DEF Dialogs, Listing, Asks, ProfileOpen
  <1>. QED BY <1>8, <1>9, <1>10, <1>11

-----------------------------------------------------------------------------
\* The requests.

\* Request r reaches phase p, the others stay.
Reaches(r, p) ==
    /\ req' \in [Requests -> Request]
    /\ \A s \in Requests : SameMatter(req[s], req'[s]) /\ (s # r => req'[s] = req[s])
    /\ req'[r].phase = p
LEMMA RequestMoves ==
  ASSUME Typed, NEW r \in Requests, NEW p \in Phase
  PROVE  /\ req' = [req EXCEPT ![r].phase = p] =>
               Reaches(r, p) /\ req'[r].waits = req[r].waits
         /\ \A w \in BOOLEAN : req' = [req EXCEPT ![r].phase = p, ![r].waits = w] =>
               Reaches(r, p) /\ req'[r].waits = w
  <1>1. \A s \in Requests : req[s] \in Request /\ SameMatter(req[s], req[s])
    BY DEF Typed, SameMatter
  <1>2. ASSUME req' = [req EXCEPT ![r].phase = p]
        PROVE  Reaches(r, p) /\ req'[r].waits = req[r].waits
    <2>1. req'[r] = [req[r] EXCEPT !.phase = p] /\ DOMAIN req' = Requests
      BY <1>2 DEF Typed
    <2>2. req'[r] \in Request /\ SameMatter(req[r], req'[r])
          /\ req'[r].phase = p /\ req'[r].waits = req[r].waits
      BY <1>1, <2>1, RequestGoesOn
    <2>3. \A s \in Requests : s # r => req'[s] = req[s]
      BY <1>2 DEF Typed
    <2>4. req' \in [Requests -> Request]
      BY <1>1, <1>2, <2>2, <2>3 DEF Typed
    <2>. QED BY <1>1, <2>2, <2>3, <2>4 DEF Reaches
  <1>3. ASSUME NEW w \in BOOLEAN, req' = [req EXCEPT ![r].phase = p, ![r].waits = w]
        PROVE  Reaches(r, p) /\ req'[r].waits = w
    <2>1. req'[r] = [req[r] EXCEPT !.phase = p, !.waits = w]
      BY <1>3 DEF Typed
    <2>2. req'[r] \in Request /\ SameMatter(req[r], req'[r])
          /\ req'[r].phase = p /\ req'[r].waits = w
      BY <1>1, <2>1 DEF Request, Phase, SameMatter
    <2>3. \A s \in Requests : s # r => req'[s] = req[s]
      BY <1>3 DEF Typed
    <2>4. req' \in [Requests -> Request]
      BY <1>1, <1>3, <2>2, <2>3 DEF Typed
    <2>. QED BY <1>1, <2>2, <2>3, <2>4 DEF Reaches
  <1>. QED BY <1>2, <1>3

\* The notes hold after a request has reached a phase that it may reach.
LEMMA NotesGoOn ==
  ASSUME IInv, NEW r \in Requests, NEW p \in Phase, Reaches(r, p),
         notes' \in [Facts -> Notes \cup {NoNote}],
         \A f \in Facts : notes[f] # NoNote => notes'[f] # NoNote,
         boundaries \subseteq boundaries',
         p = "looked" => req[r].kind = "note",
         p = "answered" /\ req[r].kind = "note" => notes'[req[r].fact] # NoNote,
         p = "answered" /\ req[r].kind = "boundary" => r \in boundaries',
         dialog'.kind = dialog.kind, dialog'.fact = dialog.fact,
         \A f \in prepared' : f \in prepared \/ notes[f] # NoNote,
         prepared' \in SUBSET Facts
  PROVE  NotesHold'
  <1>. USE DEF IInv, NotesHold
  <1>1. ASSUME NEW s \in Requests
        PROVE  /\ req'[s].kind = "note" => req'[s].fact \in Facts /\ req'[s].note \in Notes
               /\ req'[s].kind # "note" => req'[s].fact = NoFact
               /\ req'[s].phase = "looked" => req'[s].kind = "note"
               /\ req'[s].phase = "answered" /\ req'[s].kind = "note" =>
                      notes'[req'[s].fact] # NoNote
               /\ req'[s].phase = "answered" /\ req'[s].kind = "boundary" =>
                      s \in boundaries'
    <2>1. CASE s = r BY <2>1 DEF Reaches, SameMatter
    <2>2. CASE s # r BY <2>2 DEF Reaches, SameMatter
    <2>. QED BY <2>1, <2>2
  <1>2. \A f \in prepared' : notes'[f] # NoNote
    OBVIOUS
  <1>. QED BY <1>1, <1>2

\* A dialog that goes on being busy still waits.
LEMMA BusyGoesOn ==
  ASSUME IInv, NEW r \in Requests, NEW p \in Phase, Reaches(r, p),
         dialog' = dialog,
         req'[r].waits \/ dialog.request # r \/ ~req[r].waits
  PROVE  BusyWaits'
  BY DEF IInv, BusyWaits, Reaches, SameMatter

\* Nothing but a request and the server moves.
LEMMA ServerKeeps ==
  ASSUME IInv, NEW r \in Requests, NEW p \in Phase, Becomes(r, p),
         notes' \in [Facts -> Notes \cup {NoNote}],
         \A f \in Facts : notes[f] # NoNote => notes'[f] # NoNote,
         boundaries' \in SUBSET Requests, boundaries \subseteq boundaries',
         p = "looked" => req[r].kind = "note",
         p = "answered" /\ req[r].kind = "note" => notes'[req[r].fact] # NoNote,
         p = "answered" /\ req[r].kind = "boundary" => r \in boundaries'
  PROVE  IInv'
  <1>. USE DEF IInv
  <1>1. /\ UNCHANGED <<data, known, invalid, error, dialog, fetch, wire>>
        /\ UNCHANGED <<session, route, form, arriving, issued, expired, prepared, added>>
    BY DEF Becomes, sessionVars, cacheVars
  <1>2. Reaches(r, p) /\ req'[r].waits = req[r].waits
    BY RequestMoves DEF Becomes
  <1>3. Typed' BY <1>1, <1>2 DEF Typed, SessionTypeOK, Reaches
  <1>4. prepared \in SUBSET Facts BY DEF Typed
  <1>5. NotesHold' BY <1>1, <1>2, <1>4, NotesGoOn
  <1>6. BusyWaits' BY <1>1, <1>2, BusyGoesOn
  <1>7. SignedIn' /\ Dialogs' /\ Listing' /\ Asks'
    BY <1>1 DEF SignedIn, Dialogs, Listing, Asks, ProfileOpen
  <1>. QED BY <1>3, <1>5, <1>6, <1>7

LEMMA ServeKeeps ==
  ASSUME IInv, NEW r \in Requests,
         LookUp(r) \/ Insert(r) \/ Protect(r) \/ ServerFails(r)
  PROVE  IInv'
  <1>. USE DEF IInv, Phase
  <1>1. notes \in [Facts -> Notes \cup {NoNote}] /\ boundaries \in SUBSET Requests
    BY DEF Typed
  <1>2. CASE LookUp(r)
    <2>1. UNCHANGED <<notes, boundaries>> /\ req[r].kind = "note"
      BY <1>2 DEF LookUp, serverVars
    <2>2. CASE notes[req[r].fact] = NoNote
      <3>1. Becomes(r, "looked") BY <1>2, <2>2 DEF LookUp
      <3>. QED BY <1>1, <2>1, <3>1, ServerKeeps
    <2>3. CASE notes[req[r].fact] # NoNote
      <3>1. Becomes(r, "answered") BY <1>2, <2>3 DEF LookUp
      <3>. QED BY <1>1, <2>1, <2>3, <3>1, ServerKeeps
    <2>. QED BY <2>2, <2>3
  <1>3. CASE Insert(r)
    <2>1. UNCHANGED boundaries /\ req[r].kind = "note"
          /\ req[r].fact \in Facts /\ req[r].note \in Notes
      BY <1>3 DEF Insert, NotesHold
    <2>2. CASE notes[req[r].fact] = NoNote
      <3>1. notes' = [notes EXCEPT ![req[r].fact] = req[r].note] /\ Becomes(r, "answered")
        BY <1>3, <2>2 DEF Insert
      <3>2. /\ notes' \in [Facts -> Notes \cup {NoNote}]
            /\ \A f \in Facts : notes[f] # NoNote => notes'[f] # NoNote
            /\ notes'[req[r].fact] # NoNote
        BY <1>1, <2>1, <3>1, ProfileAssumption
      <3>. QED BY <1>1, <2>1, <3>1, <3>2, ServerKeeps
    <2>3. CASE notes[req[r].fact] # NoNote
      <3>1. notes' = notes /\ Becomes(r, "failed") BY <1>3, <2>3 DEF Insert
      <3>. QED BY <1>1, <2>1, <3>1, ServerKeeps
    <2>. QED BY <2>2, <2>3
  <1>4. CASE Protect(r)
    <2>1. /\ notes' = notes /\ boundaries' = boundaries \cup {r}
          /\ req[r].kind = "boundary" /\ Becomes(r, "answered")
      BY <1>4 DEF Protect
    <2>. QED BY <1>1, <2>1, ServerKeeps
  <1>5. CASE ServerFails(r)
    <2>1. UNCHANGED <<notes, boundaries>> /\ Becomes(r, "failed")
      BY <1>5 DEF ServerFails, serverVars
    <2>. QED BY <1>1, <2>1, ServerKeeps
  <1>. QED BY <1>2, <1>3, <1>4, <1>5

LEMMA ToldKeeps ==
  ASSUME IInv, NEW r \in Requests, NEW p \in Phase, Told(r, p, FALSE),
         p = req[r].phase \/ p = "over"
  PROVE  IInv'
  <1>. USE DEF IInv
  <1>1. /\ UNCHANGED <<notes, boundaries, data, known, invalid, error, fetch, wire>>
        /\ UNCHANGED <<session, route, form, arriving, issued, expired, prepared, added>>
    BY DEF Told, sessionVars, serverVars, cacheVars
  <1>2. Reaches(r, p) /\ req'[r].waits = FALSE
    BY RequestMoves DEF Told
  <1>3. /\ dialog' \in Dialog /\ dialog'.kind = dialog.kind /\ dialog'.fact = dialog.fact
        /\ dialog'.request = dialog.request
        /\ dialog' = dialog \/ dialog'.phase = "error"
        /\ req[r].waits /\ dialog.request = r => dialog'.phase = "error"
    BY DEF Told, Mine, Typed, Dialog
  <1>4. Typed' BY <1>1, <1>2, <1>3 DEF Typed, SessionTypeOK, Reaches
  <1>5. NotesHold'
    BY <1>1, <1>2, <1>3, NotesGoOn DEF Typed, NotesHold
  <1>6. BusyWaits'
    <2>1. CASE dialog'.phase = "error" BY <2>1 DEF BusyWaits
    <2>2. CASE dialog'.phase # "error"
      BY <1>2, <1>3, <2>2, BusyGoesOn
    <2>. QED BY <2>1, <2>2
  <1>7. SignedIn' /\ Dialogs' /\ Listing' /\ Asks'
    BY <1>1, <1>3 DEF SignedIn, Dialogs, Listing, Asks, ProfileOpen
  <1>. QED BY <1>4, <1>5, <1>6, <1>7

LEMMA LoseKeeps == ASSUME IInv, NEW r \in Requests, Lose(r) \/ Failed(r) PROVE IInv'
  <1>1. req[r].phase \in Phase
    BY DEF IInv, Typed, Request, Phase
  <1>. QED BY <1>1, ToldKeeps DEF Lose, Failed, Phase

LEMMA RequestRefusedKeeps ==
  ASSUME IInv, NEW r \in Requests, RequestRefused(r)
  PROVE  IInv'
  <1>. USE DEF IInv
  <1>1. UNCHANGED <<notes, boundaries, data, known, invalid, error, fetch, wire, prepared>>
    BY DEF RequestRefused, serverVars, cacheVars
  <1>2. Reaches(r, "over") /\ req'[r].waits = FALSE
    BY RequestMoves DEF RequestRefused, Phase
  <1>3. CASE req[r].waits
    <2>1. SessionTypeOK' /\ SignedIn' /\ session' = NoSession
      BY <1>3, UnauthorizedKeeps DEF RequestRefused, Typed
    <2>2. \/ dialog' = Closed /\ added' = {}
          \/ ~ProfileOpen /\ UNCHANGED <<dialog, added>>
      BY <1>3, Zenon DEF RequestRefused
    <2>3. Typed' BY <1>1, <1>2, <2>1, <2>2, Records DEF Typed, Reaches
    <2>4. Listing' /\ Asks'
      BY <1>1, <2>1, <2>2 DEF Listing, Asks, ProfileOpen
    <2>5. Dialogs'
      BY <1>1, <2>1, <2>2, Records, ProfileAssumption DEF Dialogs
    <2>6. BusyWaits'
      <3>1. CASE dialog' = Closed BY <3>1, Records DEF BusyWaits
      <3>2. CASE ~ProfileOpen /\ dialog' = dialog
        BY <3>2 DEF BusyWaits, Dialogs
      <3>. QED BY <2>2, <3>1, <3>2
    <2>7. NotesHold'
      <3>1. CASE dialog' = dialog
        BY <1>1, <1>2, <3>1 DEF NotesHold, Reaches, SameMatter
      <3>2. CASE dialog' = Closed
        BY <1>1, <1>2, <3>2, Records DEF NotesHold, Reaches, SameMatter
      <3>. QED BY <2>2, <3>1, <3>2
    <2>. QED BY <2>1, <2>3, <2>4, <2>5, <2>6, <2>7
  <1>4. CASE ~req[r].waits
    <2>1. UNCHANGED <<session, route, form, arriving, issued, expired, dialog, added>>
      BY <1>4 DEF RequestRefused, sessionVars
    <2>2. Typed' BY <1>1, <1>2, <2>1 DEF Typed, SessionTypeOK, Reaches
    <2>3. NotesHold' BY <1>1, <1>2, <2>1 DEF NotesHold, Reaches, SameMatter
    <2>4. BusyWaits' BY <1>2, <1>4, <2>1, BusyGoesOn DEF Phase
    <2>5. SignedIn' /\ Dialogs' /\ Listing' /\ Asks'
      BY <1>1, <2>1 DEF SignedIn, Dialogs, Listing, Asks, ProfileOpen
    <2>. QED BY <2>2, <2>3, <2>4, <2>5
  <1>. QED BY <1>3, <1>4

LEMMA AnsweredKeeps == ASSUME IInv, NEW r \in Requests, Answered(r) PROVE IInv'
  <1>. USE DEF IInv
  <1>1. /\ UNCHANGED <<notes, boundaries, session, route, form, arriving, issued, expired>>
        /\ req[r].phase = "answered"
    BY DEF Answered, sessionVars, serverVars
  <1>2. Reaches(r, "over") /\ req'[r].waits = FALSE
    BY RequestMoves DEF Answered, Phase
  <1>3. /\ data' = data /\ known' = known /\ error' = error /\ invalid' \in BOOLEAN
        /\ invalid' = invalid \/ invalid' = (known \/ error)
        /\ req[r].waits /\ req[r].kind = "boundary" => invalid' = (known \/ error)
    BY DEF Answered, Invalidate, cacheVars, Typed
  <1>4. /\ fetch' \in Fetch /\ wire' \in SUBSET Token /\ Asks'
        /\ fetch.phase # "idle" => fetch'.phase # "idle"
        /\ fetch'.phase = "answered" => fetch' = fetch
        /\ req[r].waits /\ req[r].kind = "boundary" /\ ProfileOpen =>
               /\ fetch'.phase # "idle"
               /\ known => fetch'.phase = "asking"
    <2>1. CASE req[r].waits /\ req[r].kind = "boundary" /\ ProfileOpen
      BY <2>1, RefetchAsks DEF Answered, Invalidate
    <2>2. CASE ~(req[r].waits /\ req[r].kind = "boundary" /\ ProfileOpen)
      <3>1. UNCHANGED <<fetch, wire>> BY <2>2 DEF Answered, Invalidate
      <3>. QED BY <2>2, <3>1 DEF Typed, Asks
    <2>. QED BY <2>1, <2>2
  <1>5. CASE req[r].waits /\ Mine(r)
    <2>1. /\ dialog' = [dialog EXCEPT !.phase = "success"]
          /\ prepared' = prepared \cup ({req[r].fact} \cap Facts)
          /\ added' = IF req[r].kind = "boundary" THEN added \cup {r} ELSE added
      BY <1>5 DEF Answered
    <2>2. /\ dialog' \in Dialog /\ dialog'.kind = dialog.kind /\ dialog'.fact = dialog.fact
          /\ dialog'.request = dialog.request /\ dialog'.phase = "success"
      BY <2>1 DEF Typed, Dialog
    <2>3. dialog.kind # "none" /\ ProfileOpen /\ known
      BY <1>5 DEF Mine, Dialogs
    <2>4. Typed' BY <1>1, <1>2, <1>3, <1>4, <2>1, <2>2 DEF Typed, SessionTypeOK, Reaches
    <2>5. BusyWaits' BY <2>2 DEF BusyWaits
    <2>6. \A f \in prepared' : f \in prepared \/ notes[f] # NoNote
      BY <1>1, <2>1, ProfileAssumption DEF NotesHold
    <2>7. NotesHold'
      BY <1>1, <1>2, <2>2, <2>4, <2>6, NotesGoOn DEF Typed, Phase
    <2>8. SignedIn' /\ Dialogs'
      BY <1>1, <1>3, <2>2, <2>3 DEF SignedIn, Dialogs, ProfileOpen
    <2>9. Listing'
      <3>1. CASE req[r].kind = "boundary"
        <4>1. added' \subseteq boundaries
          BY <1>1, <2>1 DEF Listing, NotesHold
        <4>2. invalid' = TRUE /\ fetch'.phase = "asking"
          BY <1>3, <1>4, <1>5, <2>3, <3>1
        <4>. QED BY <1>1, <4>1, <4>2 DEF Listing
      <3>2. CASE req[r].kind # "boundary"
        <4>1. added' = added BY <2>1, <3>2
        <4>2. UNCHANGED <<invalid, fetch>>
          BY <3>2 DEF Answered, cacheVars
        <4>. QED BY <1>1, <1>3, <4>1, <4>2 DEF Listing, ProfileOpen
      <3>. QED BY <3>1, <3>2
    <2>. QED BY <1>4, <2>4, <2>5, <2>7, <2>8, <2>9
  <1>6. CASE ~(req[r].waits /\ Mine(r))
    <2>1. UNCHANGED <<dialog, prepared, added>> BY <1>6 DEF Answered
    <2>2. Typed' BY <1>1, <1>2, <1>3, <1>4, <2>1 DEF Typed, SessionTypeOK, Reaches
    <2>3. BusyWaits' BY <1>2, <1>6, <2>1, BusyGoesOn DEF Mine, Phase
    <2>4. NotesHold' BY <1>1, <1>2, <2>1 DEF NotesHold, Reaches, SameMatter
    <2>5. SignedIn' /\ Dialogs'
      BY <1>1, <1>3, <2>1 DEF SignedIn, Dialogs, ProfileOpen
    <2>6. Listing'
      <3>1. CASE req[r].waits /\ req[r].kind = "boundary"
        <4>1. ProfileOpen => fetch'.phase # "idle" BY <1>4, <3>1
        <4>2. added \subseteq data \/ invalid' = TRUE
          <5>1. CASE added = {} BY <5>1
          <5>2. CASE added # {} BY <1>3, <3>1, <5>2 DEF Dialogs
          <5>. QED BY <5>1, <5>2
        <4>3. fetch'.phase = "answered" => added \subseteq fetch'.seen
          BY <1>4 DEF Listing
        <4>. QED BY <1>1, <1>3, <2>1, <4>1, <4>2, <4>3 DEF Listing, ProfileOpen
      <3>2. CASE ~(req[r].waits /\ req[r].kind = "boundary")
        <4>1. UNCHANGED <<invalid, fetch>>
          BY <3>2 DEF Answered, cacheVars
        <4>. QED BY <1>1, <1>3, <2>1, <4>1 DEF Listing, ProfileOpen
      <3>. QED BY <3>1, <3>2
    <2>. QED BY <1>4, <2>2, <2>3, <2>4, <2>5, <2>6
  <1>. QED BY <1>5, <1>6

LEMMA StutterKeeps == ASSUME IInv, UNCHANGED vars PROVE IInv'
  BY DEF IInv, vars, Typed, SessionTypeOK, SignedIn, BusyWaits, NotesHold, Dialogs, Listing,
         Asks, ProfileOpen

LEMMA Keeps == ASSUME IInv, [Next]_vars PROVE IInv'
  <1>1. ASSUME SignIn \/ Navigate \/ Leave \/ Expiry \/ \E t \in Token : LateRefusal(t)
        PROVE  IInv'
    BY <1>1, SessionSteps, PageKeeps DEF IInv, Typed
  <1>2. ASSUME NEW f \in Facts, OpenDialog("note", f) PROVE IInv'
    BY <1>2, OpenDialogKeeps
  <1>3. ASSUME OpenDialog("boundary", NoFact) PROVE IInv'
    BY <1>3, OpenDialogKeeps
  <1>4. ASSUME NEW r \in Requests,
               \/ Serve(r) \/ Answered(r) \/ Failed(r) \/ Lose(r)
               \/ \E n \in Notes \cup {NoNote} : Submit(r, n)
        PROVE  IInv'
    BY <1>4, ServeKeeps, RequestRefusedKeeps, AnsweredKeeps, LoseKeeps, SubmitKeeps
       DEF Serve
  <1>. QED BY <1>1, <1>2, <1>3, <1>4, ReloadKeeps, ServerReadsKeeps, PersonArrivesKeeps,
              PersonFailsKeeps, PersonRefusedKeeps, TryAgainKeeps, CloseDialogKeeps,
              StutterKeeps
       DEF Next

LEMMA Invariant == Spec => []IInv
  BY Begins, Keeps, PTL DEF Spec

-----------------------------------------------------------------------------
\* The session, the server and the page keep their types, and a dialog is busy
\* only while the request it sent is waited for (setState of the two dialogs).
THEOREM TypeCorrect == Spec => []TypeOK
  <1>1. IInv => TypeOK BY DEF IInv, TypeOK
  <1>. QED BY <1>1, Invariant, PTL

\* For any number of dialogs opened and closed over any number of fetches, a
\* boundary the page said it added is in the banner's list once nothing is
\* under way (onSuccess of AddBoundaryDialog).
THEOREM BoundariesListed == Spec => []BoundaryListed
  <1>1. IInv => BoundaryListed
    BY DEF IInv, Listing, BoundaryListed, Shown
  <1>. QED BY <1>1, Invariant, PTL

\* The profile page and crm_writeback implement the note book: whatever number
\* of write-backs looked before the first was inserted, a note is written where
\* there is none and never again, and the page speaks of notes there are.
THEOREM WritebacksKeepTheBook == Spec => ImplementsNotes
  <1>1. Init => Book!Init
    BY DEF Init, Book!Init
  <1>2. ASSUME IInv, [Next]_vars
        PROVE  [Book!Next]_<<notes, prepared>>
    <2>1. ASSUME NEW r \in Requests, Insert(r) PROVE [Book!Next]_<<notes, prepared>>
      <3>1. prepared' = prepared /\ req[r].fact \in Facts /\ req[r].note \in Notes
        BY <1>2, <2>1 DEF Insert, Becomes, IInv, NotesHold
      <3>2. notes' = notes \/ Book!Write(req[r].fact, req[r].note)
        BY <2>1, <3>1 DEF Insert, Book!Write
      <3>. QED BY <3>1, <3>2 DEF Book!Next
    <2>2. ASSUME NEW r \in Requests, Answered(r) PROVE [Book!Next]_<<notes, prepared>>
      <3>1. notes' = notes /\ req[r].phase = "answered"
        BY <2>2 DEF Answered, serverVars
      <3>2. \/ prepared' = prepared
            \/ prepared' = prepared \cup ({req[r].fact} \cap Facts)
        BY <2>2 DEF Answered
      <3>3. CASE req[r].fact \in Facts
        <4>1. notes[req[r].fact] # NoNote
          BY <1>2, <3>1, <3>3, ProfileAssumption DEF IInv, NotesHold
        <4>2. {req[r].fact} \cap Facts = {req[r].fact} BY <3>3
        <4>3. prepared' = prepared \/ Book!Tell(req[r].fact)
          BY <3>1, <3>2, <4>1, <4>2 DEF Book!Tell
        <4>. QED BY <3>1, <3>3, <4>3 DEF Book!Next
      <3>4. CASE req[r].fact \notin Facts
        BY <3>1, <3>2, <3>4
      <3>. QED BY <3>3, <3>4
    <2>3. CASE \/ SignIn \/ Navigate \/ Leave \/ Expiry
               \/ \E t \in Token : LateRefusal(t)
      <3>1. PageFollows
        BY <2>3 DEF SignIn, Navigate, Leave, Expiry, LateRefusal
      <3>. QED BY <3>1 DEF PageFollows, serverVars
    <2>4. CASE Reload \/ ServerReads \/ PersonArrives \/ PersonFails \/ PersonRefused
               \/ TryAgain \/ CloseDialog
      BY <2>4 DEF Reload, ServerReads, PersonArrives, PersonFails, PersonRefused, TryAgain,
                  CloseDialog, serverVars
    <2>5. CASE OpenDialog("boundary", NoFact) \/ \E f \in Facts : OpenDialog("note", f)
      BY <2>5 DEF OpenDialog, serverVars
    <2>6. ASSUME NEW r \in Requests,
                 \/ LookUp(r) \/ Protect(r) \/ ServerFails(r) \/ RequestRefused(r)
                 \/ Failed(r) \/ Lose(r) \/ \E n \in Notes \cup {NoNote} : Submit(r, n)
          PROVE  UNCHANGED <<notes, prepared>>
      BY <2>6 DEF LookUp, Protect, ServerFails, RequestRefused, Failed, Lose, Submit,
                  Becomes, Told, serverVars
    <2>7. CASE UNCHANGED vars BY <2>7 DEF vars
    <2>. QED
      BY <1>2, <2>1, <2>2, <2>3, <2>4, <2>5, <2>6, <2>7 DEF Next, Serve
  <1>. QED BY <1>1, <1>2, Invariant, PTL DEF Spec, ImplementsNotes, Book!Spec

\* With any number of sessions opened one after the other and any number of
\* requests still on their way, a session the server accepts ends at the user's
\* word, or at the 401 to an older token's request, and at nothing else.
THEOREM ValidSessionsKept == Spec => ValidSessionKept
  <1> DEFINE Ends == session > expired /\ session' = NoSession
             Heard == SignOut \/ \E t \in OnTheWire : t < session /\ Refused(t)
  <1>1. ASSUME Typed, [Next]_vars, Ends PROVE Heard
    <2>1. /\ session \in Token /\ session' # session
          /\ expired \in Nat
      BY <1>1, ClientSessionAssumption DEF Typed, SessionTypeOK, Token, NoSession
    <2>2. \A t \in Token \cup {NoSession} : Refused(t) => t < session
      BY <1>1, <2>1, ClientSessionAssumption DEF Refused, Token, NoSession
    <2>3. CASE SignIn \/ Navigate \/ Leave \/ Expiry
      <3>1. ~SignIn
        BY <1>1, <2>1 DEF SignIn, SubmitSignIn, SignInArrives, SignInFails, Become, Token,
                          NoSession
      <3>2. ~Navigate /\ ~Expiry
        BY <2>1 DEF Navigate, GoTo, Expiry, Expire
      <3>. QED BY <2>3, <3>1, <3>2 DEF Leave
    <2>4. ASSUME NEW t \in Token, LateRefusal(t) PROVE Heard
      BY <2>2, <2>4 DEF LateRefusal, OnTheWire
    <2>5. CASE PersonRefused
      <3>1. fetch.token \in Token \cup {NoSession}
        BY <1>1 DEF Typed, Fetch
      <3>. QED BY <2>2, <2>5, <3>1 DEF PersonRefused, OnTheWire
    <2>6. ASSUME NEW r \in Requests, RequestRefused(r) PROVE Heard
      <3>1. req[r].waits /\ Refused(req[r].token)
        BY <2>1, <2>6 DEF RequestRefused, sessionVars
      <3>2. req[r].token \in Token \cup {NoSession}
        BY <1>1 DEF Typed, Request
      <3>. QED BY <2>2, <3>1, <3>2 DEF OnTheWire
    <2>7. CASE Reload \/ ServerReads \/ PersonArrives \/ PersonFails \/ TryAgain \/ CloseDialog
      BY <2>1, <2>7 DEF Reload, ReloadSession, ServerReads, PersonArrives, PersonFails,
                        TryAgain, CloseDialog, sessionVars
    <2>8. CASE OpenDialog("boundary", NoFact) \/ \E f \in Facts : OpenDialog("note", f)
      BY <2>1, <2>8 DEF OpenDialog, sessionVars
    <2>9. ASSUME NEW r \in Requests,
                 \/ LookUp(r) \/ Insert(r) \/ Protect(r) \/ ServerFails(r) \/ Answered(r)
                 \/ Failed(r) \/ Lose(r) \/ \E n \in Notes \cup {NoNote} : Submit(r, n)
          PROVE  FALSE
      BY <2>1, <2>9 DEF LookUp, Insert, Protect, ServerFails, Answered, Failed, Lose, Submit,
                        Becomes, Told, sessionVars
    <2>10. CASE UNCHANGED vars BY <2>1, <2>10 DEF vars
    <2>. QED
      BY <1>1, <2>3, <2>4, <2>5, <2>6, <2>7, <2>8, <2>9, <2>10 DEF Next, Serve
  <1>2. IInv => Typed BY DEF IInv
  <1>3. Spec => [][Ends => Heard]_vars
    BY <1>1, <1>2, Invariant, PTL DEF Spec
  <1>. QED BY <1>3 DEF ValidSessionKept
=============================================================================
