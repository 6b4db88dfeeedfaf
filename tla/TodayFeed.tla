------------------------------ MODULE TodayFeed ------------------------------
(***************************************************************************)
(* The action feed of the Today page (TodayPage and FeedCard of            *)
(* frontend/src/App.tsx) between two things it does not own: the query     *)
(* cache, TanStack Query with the defaults of main.tsx, and the server's   *)
(* feed (GET /feed and POST /feed/{id}/ack).                               *)
(*                                                                         *)
(* A click takes the card away at once, cancels the fetch under way and    *)
(* keeps the list it saw.  A failed acknowledgement puts that list back,   *)
(* and every acknowledgement that is answered invalidates the feed, which  *)
(* fetches it again while the page is mounted.  Clicks on several cards    *)
(* overlap, a fetch is cancelled on the client only, answers are lost, and *)
(* a 401 to any request takes the page away.                               *)
(*                                                                         *)
(* When tokens expire is left open here: any request may be refused        *)
(* (ClientSession says what a refusal does to the session).                *)
(***************************************************************************)
CONSTANTS
    Items,       \* the items the feed may come to have
    Clicks       \* BOUND: acknowledgements under way at once

NoItem == "none"
ASSUME TodayAssumption == NoItem \notin Items

VARIABLES
    status,      \* the server's items; "quiet" is held, or not there yet
    open,        \* the page is mounted
    data,        \* the cached list: its active items
    known,       \* there is a cached list
    invalid,     \* it was invalidated since
    error,       \* the last fetch failed and no list was stored since
    fetch,       \* the fetch of the list
    click,       \* the acknowledgements
    pending,     \* pendingId of the mounted page
    followed     \* HISTORY: items clicked since the page was mounted, of which
                 \* no acknowledgement was given up

cacheVars == <<data, known, invalid, error>>
pageVars == <<open, pending, followed>>
vars == <<status, open, data, known, invalid, error, fetch, click, pending, followed>>

Fetch == [phase : {"idle", "asking", "answered", "resting"},
          seen : SUBSET Items,      \* what the server listed
          retried : BOOLEAN]
Click == [phase : {"idle", "sent", "done", "adrift"},
          item : Items \cup {NoItem},
          previous : SUBSET Items,  \* the list to put back
          here : BOOLEAN]           \* sent by the page that is mounted

NoFetch == [phase |-> "idle", seen |-> {}, retried |-> FALSE]
NoClick == [phase |-> "idle", item |-> NoItem, previous |-> {}, here |-> FALSE]
Asking(again) == [phase |-> "asking", seen |-> {}, retried |-> again]

Active == {i \in Items : status[i] = "active"}
Live(c) == click[c].phase \in {"sent", "done"}
Adrift == {click[c].item : c \in {d \in Clicks : click[d].phase = "adrift"}}

Init ==
    /\ status \in [Items -> {"quiet", "active"}]
    /\ open = FALSE
    /\ data = {} /\ known = FALSE /\ invalid = FALSE /\ error = FALSE
    /\ fetch = NoFetch
    /\ click = [c \in Clicks |-> NoClick]
    /\ pending = NoItem
    /\ followed = {}

-----------------------------------------------------------------------------
\* The cache: a list is stored, by hand or by a fetch; a fetch fails; the query
\* is forgotten.
Cached(list) == data' = list /\ known' = TRUE /\ invalid' = FALSE /\ error' = FALSE
Errs == invalid' = TRUE /\ error' = TRUE /\ UNCHANGED <<data, known>>
EmptyCache == data' = {} /\ known' = FALSE /\ invalid' = FALSE /\ error' = FALSE

\* The page is gone, and its state with it; its requests, and what follows from
\* their answers, are not.
Closes ==
    /\ open' = FALSE
    /\ pending' = NoItem
    /\ followed' = {}
Orphan(k) == [k EXCEPT !.here = FALSE]

\* The page is opened.  A mounted query joins the fetch under way, or fetches a
\* list that is absent, invalid or older than staleTime, as any list may be.
Open ==
    /\ ~open
    /\ open' = TRUE
    /\ IF fetch.phase # "idle" THEN UNCHANGED fetch
       ELSE \/ fetch' = Asking(FALSE)
            \/ known /\ ~invalid /\ UNCHANGED fetch
    /\ UNCHANGED <<status, cacheVars, click, pending, followed>>

\* A link, a sign-out, or the 401 of a request of another query.
Close ==
    /\ open
    /\ Closes
    /\ click' = [c \in Clicks |-> Orphan(click[c])]
    /\ UNCHANGED <<status, cacheVars, fetch>>

\* The browser loads the page again: the cache and every callback are gone.
\* The server may still get the acknowledgements that were sent.
Reload ==
    /\ EmptyCache
    /\ fetch' = IF open THEN Asking(FALSE) ELSE NoFetch
    /\ click' = [c \in Clicks |->
                    IF click[c].phase \in {"sent", "adrift"}
                    THEN [click[c] EXCEPT !.phase = "adrift", !.previous = {}, !.here = FALSE]
                    ELSE NoClick]
    /\ pending' = NoItem
    /\ followed' = {}
    /\ UNCHANGED <<status, open>>

\* Five minutes after the last page that used it.
Forget ==
    /\ ~open
    /\ fetch.phase = "idle"
    /\ known \/ error
    /\ EmptyCache
    /\ UNCHANGED <<status, fetch, click, pageVars>>

-----------------------------------------------------------------------------
\* The fetch of the list.

\* The server lists the feed.
ServerLists ==
    /\ fetch.phase = "asking"
    /\ fetch' = [fetch EXCEPT !.phase = "answered", !.seen = Active]
    /\ UNCHANGED <<status, cacheVars, click, pageVars>>

FetchArrives ==
    /\ fetch.phase = "answered"
    /\ Cached(fetch.seen)
    /\ fetch' = NoFetch
    /\ UNCHANGED <<status, click, pageVars>>

\* A failure is retried once, after a second, while the page is mounted.
FetchEnds ==
    IF open /\ ~fetch.retried
    THEN fetch' = [phase |-> "resting", seen |-> {}, retried |-> FALSE] /\ UNCHANGED cacheVars
    ELSE fetch' = NoFetch /\ Errs

\* No answer, or one that is an error.
FetchFails ==
    /\ fetch.phase \in {"asking", "answered"}
    /\ FetchEnds
    /\ UNCHANGED <<status, click, pageVars>>

\* A 401 closes the page before the error reaches the query.
FetchRefused ==
    /\ fetch.phase = "asking"
    /\ FetchEnds
    /\ Closes
    /\ click' = [c \in Clicks |-> Orphan(click[c])]
    /\ UNCHANGED status

\* The second is over.
Wake ==
    /\ fetch.phase = "resting"
    /\ IF open THEN fetch' = Asking(TRUE) /\ UNCHANGED cacheVars
       ELSE fetch' = NoFetch /\ Errs
    /\ UNCHANGED <<status, click, pageVars>>

\* Fetch again: a fetch under way is given up for a new one, unless it is the
\* first, which is joined.
Refetch == fetch' = IF fetch.phase # "idle" /\ ~known THEN fetch ELSE Asking(FALSE)

\* Try again, on the error shown.
TryAgain ==
    /\ open
    /\ error
    /\ Refetch
    /\ UNCHANGED <<status, cacheVars, click, pageVars>>

\* The browser is online again: a list that is stale is fetched.
Reconnect ==
    /\ open
    /\ fetch.phase = "idle"
    /\ fetch' = Asking(FALSE)
    /\ UNCHANGED <<status, cacheVars, click, pageVars>>

-----------------------------------------------------------------------------
\* The acknowledgements.

\* The card of an active item is shown, and its buttons are not busy.
Offered(i) == open /\ i \in data /\ i # pending

\* Mark done, or Not useful.
ClickCard(c, i) ==
    /\ Offered(i)
    /\ click[c].phase = "idle"
    /\ pending' = i
    /\ fetch' = NoFetch
    /\ Cached(data \ {i})
    /\ click' = [click EXCEPT ![c] = [phase |-> "sent", item |-> i, previous |-> data,
                                      here |-> TRUE]]
    /\ followed' = IF i \in Adrift THEN followed ELSE followed \cup {i}
    /\ UNCHANGED <<status, open>>

\* FeedService.ack sets the status, whatever it was.
ServerAcks(c) ==
    /\ click[c].phase \in {"sent", "adrift"}
    /\ status' = [status EXCEPT ![click[c].item] = "handled"]
    /\ click' = [click EXCEPT ![c] = IF click[c].phase = "sent"
                                     THEN [click[c] EXCEPT !.phase = "done"] ELSE NoClick]
    /\ UNCHANGED <<cacheVars, fetch, pageVars>>

\* onSettled: no card is busy, and the feed is invalidated, which a mounted
\* query answers by fetching it.  BugFree leaves the card busy, and BugSettle
\* trusts the list it has.
BugFree(c) == UNCHANGED pending
Free(c) == pending' = IF click[c].here THEN NoItem ELSE pending
BugSettle(c) ==
    /\ Free(c)
    /\ invalid' = FALSE
    /\ UNCHANGED fetch
Settle(c) ==
    /\ Free(c)
    /\ invalid' = (known' \/ error')
    /\ IF open THEN Refetch ELSE UNCHANGED fetch

AckArrives(c) ==
    /\ click[c].phase = "done"
    /\ UNCHANGED <<data, known, error>>
    /\ Settle(c)
    /\ click' = [click EXCEPT ![c] = NoClick]
    /\ UNCHANGED <<status, open, followed>>

\* onError puts the list back that the click saw.
RollBack(c) == data' = click[c].previous /\ known' = TRUE /\ error' = FALSE

\* The request or its answer is lost, or the answer is an error.  BugAckFails
\* invalidates after a success only.
BugAckFails(c) ==
    /\ Live(c)
    /\ RollBack(c)
    /\ Free(c)
    /\ invalid' = FALSE
    /\ click' = [click EXCEPT ![c] = NoClick]
    /\ UNCHANGED <<status, open, fetch, followed>>
AckFails(c) ==
    /\ Live(c)
    /\ RollBack(c)
    /\ Settle(c)
    /\ click' = [click EXCEPT ![c] = NoClick]
    /\ UNCHANGED <<status, open, followed>>

\* The page hears of a failure while the server has yet to act, or never will.
AckGivenUp(c) ==
    /\ click[c].phase = "sent"
    /\ RollBack(c)
    /\ Settle(c)
    /\ click' = [click EXCEPT ![c].phase = "adrift", ![c].previous = {}, ![c].here = FALSE]
    /\ followed' = followed \ {click[c].item}
    /\ UNCHANGED <<status, open>>
AdriftIsLost(c) ==
    /\ click[c].phase = "adrift"
    /\ click' = [click EXCEPT ![c] = NoClick]
    /\ UNCHANGED <<status, cacheVars, fetch, pageVars>>

\* A 401 ends the session, and the mutation settles before the page is
\* unmounted: the feed is asked for once more.
AckRefused(c) ==
    /\ click[c].phase = "sent"
    /\ RollBack(c)
    /\ invalid' = TRUE
    /\ IF open THEN Refetch ELSE UNCHANGED fetch
    /\ Closes
    /\ click' = [d \in Clicks |-> IF d = c THEN NoClick ELSE Orphan(click[d])]
    /\ UNCHANGED status

\* The worker surfaces an item, or releases it.  That a release which selected
\* an item before the user handled it makes it active again is left out.
Surface(i) ==
    /\ status[i] = "quiet"
    /\ status' = [status EXCEPT ![i] = "active"]
    /\ UNCHANGED <<cacheVars, fetch, click, pageVars>>

-----------------------------------------------------------------------------
AckEnds(c) == AckArrives(c) \/ AckFails(c) \/ AckRefused(c)

Next ==
    \/ Open \/ Close \/ Reload \/ Forget
    \/ ServerLists \/ FetchArrives \/ FetchFails \/ FetchRefused \/ Wake
    \/ TryAgain \/ Reconnect
    \/ \E c \in Clicks : \/ ServerAcks(c) \/ AckEnds(c) \/ AckGivenUp(c) \/ AdriftIsLost(c)
                         \/ \E i \in Items : ClickCard(c, i)
    \/ \E i \in Items : Surface(i)

Spec == Init /\ [][Next]_vars

\* The browser answers or fails every acknowledgement, the second of a retry
\* passes, the server lists when it is asked for ever, and the user does not
\* for ever click faster than the list arrives.
FairSpec ==
    /\ Spec
    /\ \A c \in Clicks : WF_vars(AckEnds(c))
    /\ WF_vars(Wake)
    /\ SF_vars(ServerLists) /\ SF_vars(FetchArrives)

-----------------------------------------------------------------------------
Typed ==
    /\ status \in [Items -> {"quiet", "active", "handled"}]
    /\ open \in BOOLEAN
    /\ data \in SUBSET Items
    /\ known \in BOOLEAN /\ invalid \in BOOLEAN /\ error \in BOOLEAN
    /\ fetch \in Fetch
    /\ click \in [Clicks -> Click]
    /\ pending \in Items \cup {NoItem}
    /\ followed \in SUBSET Items

\* The cache, the requests and the page have the shape the code gives them, and
\* a card is busy only while the click that made it so waits for its answer.
BusyWaits ==
    pending # NoItem =>
        \E c \in Clicks : Live(c) /\ click[c].here /\ click[c].item = pending
TypeOK == Typed /\ BusyWaits

\* Once nothing is under way, a card that was clicked is shown exactly when its
\* item still waits at the server, in whatever order clicks, failures, lost
\* answers, cancelled fetches and roll-backs came: no roll-back to a list older
\* than another acknowledgement survives (onError and onSettled of TodayPage).
Rest == fetch.phase = "idle" /\ \A c \in Clicks : ~Live(c)
Agrees(i) == i \in data <=> status[i] = "active"
ClickedAgree == open /\ Rest /\ ~error => \A i \in followed : Agrees(i)

\* A card put back although its item was handled, because the answer was lost
\* or another click failed, goes again, or the page says that it cannot fetch.
HandledCardGoes ==
    \A i \in Items :
        (i \in followed \cap data /\ status[i] = "handled")
            ~> (i \notin followed \cap data \/ error)
=============================================================================
