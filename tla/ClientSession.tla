---------------------------- MODULE ClientSession ----------------------------
(***************************************************************************)
(* The client's session and the page it shows (frontend/src/auth.tsx, the  *)
(* routes, the sign-in form and the shell of App.tsx, request of api.ts).  *)
(*                                                                         *)
(* A session is the token the server issued for it, tokens numbered in the *)
(* order of issue, and the server stops accepting them in that order.      *)
(* localStorage holds what the state holds: setSession and signOut write   *)
(* both, so a reload finds the session again.                              *)
(*                                                                         *)
(* The actions say what becomes of these variables only: a page's module   *)
(* conjoins them with what it mounts and unmounts.                         *)
(***************************************************************************)
EXTENDS Naturals

CONSTANTS
    Pages,       \* the pages of a signed-in user
    MaxTokens    \* BOUND: tokens ever issued

NoSession == 0
Token == 1..MaxTokens
Routes == {"/", "/about"} \cup Pages

ASSUME ClientSessionAssumption ==
    /\ {"/today"} \subseteq Pages
    /\ {"/", "/about"} \cap Pages = {}
    /\ MaxTokens \in Nat

VARIABLES
    session,     \* the token of the session, or NoSession
    route,       \* the page shown
    form,        \* the sign-in the mounted form waits for, or NoSession
    arriving,    \* the sign-ins answered by the server, on their way
    issued,      \* tokens 1..issued have been issued
    expired      \* tokens 1..expired are accepted no more

sessionVars == <<session, route, form, arriving, issued, expired>>

\* The route a signed-in or signed-out user ends on who asks for page p: each
\* of the two route tables redirects what it does not know.
Landing(s, p) ==
    IF p = "/about" THEN p
    ELSE IF s = NoSession THEN "/"
    ELSE IF p \in Pages THEN p
    ELSE "/today"

Refused(t) == t <= expired

SessionInit ==
    /\ session = NoSession
    /\ route \in {"/", "/about"}
    /\ form = NoSession
    /\ arriving = {}
    /\ issued = 0
    /\ expired = 0

\* A session begins, ends or is replaced, and the route tables with it.
Become(s) ==
    /\ session' = s
    /\ route' = Landing(s, route)

-----------------------------------------------------------------------------
\* The form is sent; its button is busy until the answer has come.
SubmitSignIn ==
    /\ session = NoSession
    /\ route = "/"
    /\ form = NoSession
    /\ issued < MaxTokens
    /\ issued' = issued + 1
    /\ form' = issued'
    /\ arriving' = arriving \cup {issued'}
    /\ UNCHANGED <<session, route, expired>>

\* The answer opens the session, also when its form is gone by then.
SignInArrives(t) ==
    /\ t \in arriving
    /\ arriving' = arriving \ {t}
    /\ form' = NoSession
    /\ Become(t)
    /\ UNCHANGED <<issued, expired>>

SignInFails(t) ==
    /\ t \in arriving
    /\ arriving' = arriving \ {t}
    /\ form' = IF form = t THEN NoSession ELSE form
    /\ UNCHANGED <<session, route, issued, expired>>

\* A link of the shell, of the landing page or of the sign-in page.
GoTo(p) ==
    /\ p # route
    /\ route' = Landing(session, p)
    /\ form' = NoSession
    /\ UNCHANGED <<session, arriving, issued, expired>>

\* The account menu of the shell.
SignOut ==
    /\ session # NoSession
    /\ route \in Pages
    /\ Become(NoSession)
    /\ UNCHANGED <<form, arriving, issued, expired>>

\* urie:unauthorized: a response was 401, whichever token its request carried.
Unauthorized ==
    /\ Become(NoSession)
    /\ UNCHANGED <<form, arriving, issued, expired>>

\* The browser loads the page again and forgets the answers it waited for.
ReloadSession ==
    /\ form' = NoSession
    /\ arriving' = {}
    /\ UNCHANGED <<session, route, issued, expired>>

\* A token comes to its end.
Expire ==
    /\ expired < issued
    /\ expired' = expired + 1
    /\ UNCHANGED <<session, route, form, arriving, issued>>

SessionTypeOK ==
    /\ session \in Token \cup {NoSession}
    /\ route \in Routes
    /\ form \in Token \cup {NoSession}
    /\ arriving \subseteq Token
    /\ issued \in 0..MaxTokens
    /\ expired \in 0..issued
=============================================================================
