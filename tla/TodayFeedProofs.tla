--------------------------- MODULE TodayFeedProofs ---------------------------
(***************************************************************************)
(* What holds of TodayFeed for any items and any number of clicks at once. *)
(*                                                                         *)
(* ClickedAgree speaks of the moment when nothing is under way; what makes *)
(* it true happens before.  The invariant says what each thing under way   *)
(* still owes: while no acknowledgement waits for its answer, a list that  *)
(* disagrees is marked invalid (Repairs), an invalid list of an open page  *)
(* is being fetched or the page shows an error (Heals), and what the       *)
(* server has listed agrees with what it holds (FetchTells).               *)
(***************************************************************************)
EXTENDS TodayFeed, TLAPS

NotQuiet(S) == \A i \in S : status[i] # "quiet"

\* The page shows only what the server has surfaced, and an acknowledgement is
\* of an item.
Surfaced ==
    /\ NotQuiet(data) /\ NotQuiet(fetch.seen) /\ NotQuiet(followed)
    /\ \A c \in Clicks : /\ NotQuiet(click[c].previous)
                         /\ click[c].phase # "idle" => click[c].item \in Items

\* Followed items are those of an open page that has a list, and none of them
\* has an acknowledgement given up.
Followed ==
    /\ followed # {} => open /\ known
    /\ \A c \in Clicks : click[c].phase = "adrift" => click[c].item \notin followed

Quiesced == \A c \in Clicks : ~Live(c)

FetchTells ==
    fetch.phase = "answered" /\ Quiesced =>
        \A i \in followed : i \in fetch.seen <=> status[i] = "active"

Heals == open /\ invalid => fetch.phase # "idle" \/ error

Repairs == Quiesced /\ ~invalid => \A i \in followed : Agrees(i)

IInv == Typed /\ Surfaced /\ Followed /\ FetchTells /\ Heals /\ Repairs

-----------------------------------------------------------------------------
\* The records the page starts and ends requests with have their types.
LEMMA Records ==
    /\ NoFetch \in Fetch
    /\ NoFetch.phase = "idle" /\ NoFetch.seen = {}
    /\ \A again \in BOOLEAN : /\ Asking(again) \in Fetch
                              /\ Asking(again).phase = "asking" /\ Asking(again).seen = {}
    /\ NoClick \in Click
    /\ NoClick.phase = "idle" /\ NoClick.previous = {} /\ NoClick.here = FALSE
    /\ \A k \in Click : /\ Orphan(k) \in Click
                        /\ Orphan(k).phase = k.phase
                        /\ Orphan(k).item = k.item
                        /\ Orphan(k).previous = k.previous
  BY DEF NoFetch, Fetch, Asking, NoClick, Click, Orphan

\* A refetch leaves no fetch idle, and none answered once a list is known.
LEMMA RefetchAsks ==
  ASSUME Typed, Refetch
  PROVE  /\ fetch' \in Fetch
         /\ fetch'.phase # "idle"
         /\ known => fetch'.phase = "asking"
         /\ fetch'.seen \subseteq fetch.seen
  <1>1. CASE fetch.phase # "idle" /\ ~known
    BY <1>1 DEF Refetch, Typed
  <1>2. CASE ~(fetch.phase # "idle" /\ ~known)
    BY <1>2, Records DEF Refetch, Typed
  <1>. QED BY <1>1, <1>2

\* A failed fetch rests, or leaves an invalid list and an error.
LEMMA FetchEndsSo ==
  ASSUME Typed, FetchEnds
  PROVE  /\ fetch' \in Fetch /\ fetch'.seen = {}
         /\ data' = data /\ known' = known
         /\ invalid' \in BOOLEAN /\ error' \in BOOLEAN
         /\ \/ fetch'.phase = "resting" /\ invalid' = invalid
            \/ fetch'.phase = "idle" /\ invalid' = TRUE /\ error' = TRUE
  <1>1. CASE open /\ ~fetch.retried
    <2>1. /\ fetch' = [phase |-> "resting", seen |-> {}, retried |-> FALSE]
          /\ UNCHANGED cacheVars
      BY <1>1 DEF FetchEnds
    <2>2. fetch' \in Fetch /\ fetch'.seen = {} /\ fetch'.phase = "resting"
      BY <2>1 DEF Fetch
    <2>. QED BY <2>1, <2>2 DEF cacheVars, Typed
  <1>2. CASE ~(open /\ ~fetch.retried)
    BY <1>2, Records DEF FetchEnds, Typed, Errs
  <1>. QED BY <1>1, <1>2

LEMMA Begins == Init => IInv
  <1>. SUFFICES ASSUME Init PROVE IInv OBVIOUS
  <1>. USE DEF Init
  <1>1. Typed BY Records DEF Typed
  <1>2. Surfaced BY Records DEF Surfaced, NotQuiet
  <1>3. Followed BY Records DEF Followed
  <1>4. FetchTells BY Records DEF FetchTells
  <1>5. Heals BY DEF Heals
  <1>6. Repairs BY DEF Repairs
  <1>. QED BY <1>1, <1>2, <1>3, <1>4, <1>5, <1>6 DEF IInv

-----------------------------------------------------------------------------
\* One lemma for each group of steps.

LEMMA OpenKeeps == ASSUME IInv, Open PROVE IInv'
  <1>. USE DEF IInv
  <1>1. fetch' = fetch \/ fetch' = Asking(FALSE)
    BY DEF Open
  <1>2. fetch' \in Fetch /\ fetch'.seen \subseteq fetch.seen
    BY <1>1, Records DEF Typed
  <1>3. fetch'.phase # "idle" \/ ~invalid
    BY Records DEF Open
  <1>4. Typed' BY <1>2 DEF Open, Typed, cacheVars
  <1>5. Surfaced' BY <1>2 DEF Open, Surfaced, NotQuiet, cacheVars
  <1>6. followed = {} BY DEF Open, Followed
  <1>7. Followed' /\ FetchTells' /\ Repairs'
    BY <1>6 DEF Open, Followed, FetchTells, Repairs
  <1>8. Heals' BY <1>3 DEF Open, Heals, cacheVars
  <1>. QED BY <1>4, <1>5, <1>7, <1>8

\* Steps that close the page, whatever they do to the cache.
LEMMA ClosedKeeps ==
  ASSUME IInv, Typed', Surfaced', Closes
  PROVE  IInv'
  BY DEF Closes, IInv, Followed, FetchTells, Heals, Repairs

LEMMA CloseKeeps == ASSUME IInv, Close PROVE IInv'
  <1>. USE DEF IInv
  <1>1. Typed' BY Records DEF Close, Closes, Typed, cacheVars
  <1>2. Surfaced' BY Records DEF Close, Closes, Surfaced, NotQuiet, cacheVars, Typed
  <1>. QED BY <1>1, <1>2, ClosedKeeps DEF Close

LEMMA FetchRefusedKeeps == ASSUME IInv, FetchRefused PROVE IInv'
  <1>. USE DEF IInv
  <1>1. /\ fetch' \in Fetch /\ fetch'.seen = {}
        /\ UNCHANGED <<status, data, known>>
        /\ invalid' \in BOOLEAN /\ error' \in BOOLEAN
    BY FetchEndsSo DEF FetchRefused
  <1>2. /\ click' \in [Clicks -> Click]
        /\ \A c \in Clicks : click'[c] = Orphan(click[c])
    BY Records DEF FetchRefused, Typed
  <1>3. Typed' BY <1>1, <1>2 DEF FetchRefused, Closes, Typed
  <1>4. Surfaced'
    BY <1>1, <1>2, Records DEF FetchRefused, Closes, Surfaced, NotQuiet, Typed
  <1>. QED BY <1>3, <1>4, ClosedKeeps DEF FetchRefused

LEMMA AckRefusedKeeps == ASSUME IInv, NEW c \in Clicks, AckRefused(c) PROVE IInv'
  <1>. USE DEF IInv
  <1>1. fetch' \in Fetch /\ fetch'.seen \subseteq fetch.seen
    BY RefetchAsks DEF AckRefused, Typed
  <1>2. click' \in [Clicks -> Click]
    BY Records DEF AckRefused, Typed
  <1>3. data' \in SUBSET Items /\ known' = TRUE /\ error' = FALSE
    BY DEF AckRefused, RollBack, Typed, Click
  <1>4. Typed' BY <1>1, <1>2, <1>3 DEF AckRefused, Closes, Typed
  <1>5. \A d \in Clicks : /\ click'[d].previous \subseteq click[d].previous
                          /\ click'[d].phase # "idle" => /\ click'[d].item = click[d].item
                                                         /\ click[d].phase # "idle"
    BY Records DEF AckRefused, Typed
  <1>6. NotQuiet(data)'
    BY DEF AckRefused, RollBack, Surfaced, NotQuiet
  <1>7. Surfaced'
    BY <1>1, <1>5, <1>6 DEF AckRefused, Closes, Surfaced, NotQuiet
  <1>. QED BY <1>4, <1>7, ClosedKeeps DEF AckRefused

LEMMA ReloadKeeps == ASSUME IInv, Reload PROVE IInv'
  <1>. USE DEF IInv, EmptyCache
  <1>1. fetch' \in Fetch /\ fetch'.seen = {}
    BY Records DEF Reload
  <1>2. click' = [c \in Clicks |->
                    IF click[c].phase \in {"sent", "adrift"}
                    THEN [click[c] EXCEPT !.phase = "adrift", !.previous = {}, !.here = FALSE]
                    ELSE NoClick]
    BY DEF Reload
  <1>3. \A c \in Clicks : /\ click'[c] \in Click
                          /\ click'[c].previous = {}
                          /\ click'[c].phase # "idle" => /\ click'[c].item = click[c].item
                                                         /\ click[c].phase # "idle"
    <2>. SUFFICES ASSUME NEW c \in Clicks
         PROVE  /\ click'[c] \in Click
                /\ click'[c].previous = {}
                /\ click'[c].phase # "idle" => /\ click'[c].item = click[c].item
                                               /\ click[c].phase # "idle"
      OBVIOUS
    <2>. click[c] \in Click BY DEF Typed
    <2>1. CASE click[c].phase \in {"sent", "adrift"}
      <3>1. click'[c] = [click[c] EXCEPT !.phase = "adrift", !.previous = {}, !.here = FALSE]
        BY <2>1, <1>2
      <3>. QED BY <2>1, <3>1 DEF Click
    <2>2. CASE click[c].phase \notin {"sent", "adrift"}
      BY <2>2, <1>2, Records
    <2>. QED BY <2>1, <2>2
  <1>4. click' \in [Clicks -> Click] BY <1>2, <1>3
  <1>5. Typed' BY <1>1, <1>4 DEF Reload, Typed
  <1>6. Surfaced' BY <1>1, <1>3 DEF Reload, Surfaced, NotQuiet
  <1>7. followed' = {} /\ invalid' = FALSE BY DEF Reload
  <1>8. Followed' /\ FetchTells' /\ Repairs' /\ Heals'
    BY <1>7 DEF Followed, FetchTells, Repairs, Heals
  <1>. QED BY <1>5, <1>6, <1>8

LEMMA ForgetKeeps == ASSUME IInv, Forget PROVE IInv'
  <1>. USE DEF IInv, EmptyCache, pageVars
  <1>1. followed = {} /\ followed' = {} BY DEF Forget, Followed
  <1>2. Typed' BY DEF Forget, Typed
  <1>3. Surfaced' BY DEF Forget, Surfaced, NotQuiet
  <1>4. Followed' /\ FetchTells' /\ Repairs' /\ Heals'
    BY <1>1 DEF Forget, Followed, FetchTells, Repairs, Heals
  <1>. QED BY <1>2, <1>3, <1>4

-----------------------------------------------------------------------------
LEMMA ServerListsKeeps == ASSUME IInv, ServerLists PROVE IInv'
  <1>. USE DEF IInv, cacheVars, pageVars
  <1>1. fetch' \in Fetch /\ fetch'.phase = "answered" /\ fetch'.seen = Active
    BY DEF ServerLists, Typed, Fetch, Active
  <1>2. Typed' BY <1>1 DEF ServerLists, Typed
  <1>3. Surfaced' BY <1>1 DEF ServerLists, Surfaced, NotQuiet, Active
  <1>4. FetchTells' BY <1>1 DEF ServerLists, FetchTells, Active, Typed
  <1>5. Followed' /\ Heals' BY <1>1 DEF ServerLists, Followed, Heals
  <1>6. Repairs' BY DEF ServerLists, Repairs, Quiesced, Live, Agrees
  <1>. QED BY <1>2, <1>3, <1>4, <1>5, <1>6

LEMMA FetchArrivesKeeps == ASSUME IInv, FetchArrives PROVE IInv'
  <1>. USE DEF IInv, Cached, pageVars
  <1>1. Typed' BY Records DEF FetchArrives, Typed, Fetch
  <1>2. Surfaced' BY Records DEF FetchArrives, Surfaced, NotQuiet
  <1>3. Followed' /\ Heals' BY DEF FetchArrives, Followed, Heals
  <1>4. FetchTells' BY Records DEF FetchArrives, FetchTells
  <1>5. Repairs'
    BY DEF FetchArrives, FetchTells, Repairs, Quiesced, Live, Agrees
  <1>. QED BY <1>1, <1>2, <1>3, <1>4, <1>5

\* A fetch that fails or waits again changes no list.
LEMMA FetchFailsKeeps == ASSUME IInv, FetchFails \/ Wake PROVE IInv'
  <1>. USE DEF IInv, pageVars
  <1>1. /\ UNCHANGED <<status, open, data, known, click, pending, followed>>
        /\ fetch' \in Fetch /\ fetch'.seen = {} /\ fetch'.phase # "answered"
        /\ invalid' \in BOOLEAN /\ error' \in BOOLEAN
        /\ \/ fetch'.phase # "idle" /\ invalid' = invalid
           \/ invalid' = TRUE /\ error' = TRUE
    <2>1. CASE FetchFails
      BY <2>1, FetchEndsSo DEF FetchFails
    <2>2. CASE Wake
      BY <2>2, Records DEF Wake, Errs, cacheVars, Typed
    <2>. QED BY <2>1, <2>2
  <1>2. Typed' BY <1>1 DEF Typed
  <1>3. Surfaced' BY <1>1 DEF Surfaced, NotQuiet
  <1>4. Followed' /\ FetchTells' /\ Heals' BY <1>1 DEF Followed, FetchTells, Heals
  <1>5. Repairs' BY <1>1 DEF Repairs, Quiesced, Live, Agrees
  <1>. QED BY <1>2, <1>3, <1>4, <1>5

LEMMA AgainKeeps == ASSUME IInv, TryAgain \/ Reconnect PROVE IInv'
  <1>. USE DEF IInv, pageVars, cacheVars
  <1>1. /\ UNCHANGED <<status, open, data, known, invalid, error, click, pending, followed>>
        /\ fetch' \in Fetch /\ fetch'.phase # "idle" /\ fetch'.seen \subseteq fetch.seen
        /\ known => fetch'.phase = "asking"
    BY RefetchAsks, Records DEF TryAgain, Reconnect
  <1>2. Typed' BY <1>1 DEF Typed
  <1>3. Surfaced' BY <1>1 DEF Surfaced, NotQuiet
  <1>4. Followed' /\ Heals' BY <1>1 DEF Followed, Heals
  <1>5. FetchTells' BY <1>1 DEF FetchTells, Followed
  <1>6. Repairs' BY <1>1 DEF Repairs, Quiesced, Live, Agrees
  <1>. QED BY <1>2, <1>3, <1>4, <1>5, <1>6

-----------------------------------------------------------------------------
LEMMA ClickCardKeeps ==
  ASSUME IInv, NEW c \in Clicks, NEW i \in Items, ClickCard(c, i) PROVE IInv'
  <1>. USE DEF IInv, Cached
  <1>1. /\ click' \in [Clicks -> Click]
        /\ click'[c].phase = "sent" /\ click'[c].item = i /\ click'[c].previous = data
        /\ \A d \in Clicks \ {c} : click'[d] = click[d]
    BY DEF ClickCard, Offered, Typed, Click
  <1>2. Typed' BY <1>1, Records DEF ClickCard, Offered, Typed
  <1>3. Surfaced'
    BY <1>1, Records DEF ClickCard, Offered, Surfaced, NotQuiet
  <1>4. Followed' BY <1>1 DEF ClickCard, Offered, Followed, Adrift
  <1>5. ~Quiesced' BY <1>1 DEF Quiesced, Live
  <1>6. FetchTells' /\ Repairs' BY <1>5 DEF FetchTells, Repairs
  <1>7. Heals' BY DEF ClickCard, Offered, Heals
  <1>. QED BY <1>2, <1>3, <1>4, <1>6, <1>7

LEMMA ServerAcksKeeps == ASSUME IInv, NEW c \in Clicks, ServerAcks(c) PROVE IInv'
  <1>. USE DEF IInv, cacheVars, pageVars
  <1>. DEFINE i == click[c].item
  <1>1. i \in Items BY DEF ServerAcks, Surfaced
  <1>2. /\ status' \in [Items -> {"quiet", "active", "handled"}]
        /\ status'[i] = "handled"
        /\ \A j \in Items \ {i} : status'[j] = status[j]
    BY <1>1 DEF ServerAcks, Typed
  <1>3. /\ click' \in [Clicks -> Click]
        /\ \A d \in Clicks \ {c} : click'[d] = click[d]
    BY Records DEF ServerAcks, Typed, Click
  <1>4. Typed' BY <1>2, <1>3 DEF ServerAcks, Typed
  <1>5. CASE click[c].phase = "sent"
    <2>1. /\ click'[c].phase = "done" /\ click'[c].item = i
          /\ click'[c].previous = click[c].previous
      BY <1>5 DEF ServerAcks, Typed, Click
    <2>2. Surfaced'
      BY <2>1, <1>1, <1>2, <1>3 DEF ServerAcks, Surfaced, NotQuiet, Typed, Fetch, Click
    <2>3. Followed' BY <2>1, <1>3 DEF ServerAcks, Followed
    <2>4. ~Quiesced' BY <2>1 DEF Quiesced, Live
    <2>5. FetchTells' /\ Repairs' BY <2>4 DEF FetchTells, Repairs
    <2>6. Heals' BY DEF ServerAcks, Heals
    <2>. QED BY <1>4, <2>2, <2>3, <2>5, <2>6
  <1>6. CASE click[c].phase = "adrift"
    <2>1. click'[c] = NoClick
      BY <1>6 DEF ServerAcks, Typed
    <2>2. Surfaced'
      BY <2>1, <1>2, <1>3, Records
      DEF ServerAcks, Surfaced, NotQuiet, Typed, Fetch, Click
    <2>3. Followed' BY <2>1, <1>3, Records DEF ServerAcks, Followed
    <2>4. i \notin followed BY <1>6 DEF Followed
    <2>5. Quiesced' => Quiesced
      BY <1>3, <1>6 DEF Quiesced, Live
    <2>6. \A j \in followed : status'[j] = status[j]
      BY <2>4, <1>2 DEF Typed
    <2>7. FetchTells' BY <2>5, <2>6 DEF ServerAcks, FetchTells
    <2>8. Repairs' BY <2>5, <2>6 DEF ServerAcks, Repairs, Agrees
    <2>9. Heals' BY DEF ServerAcks, Heals
    <2>. QED BY <1>4, <2>2, <2>3, <2>7, <2>8, <2>9
  <1>. QED BY <1>5, <1>6 DEF ServerAcks

\* Once an acknowledgement is settled the list is invalid, and an open page
\* fetches it.
LEMMA SettleKeeps ==
  ASSUME IInv, NEW c \in Clicks, Settle(c),
         UNCHANGED <<status, open>>,
         data' \in SUBSET Items, NotQuiet(data'),
         error' \in BOOLEAN, known' \in BOOLEAN, known => known',
         click' \in [Clicks -> Click],
         \A d \in Clicks :
             /\ click'[d].previous \subseteq click[d].previous
             /\ click'[d].phase # "idle" => /\ click'[d].item = click[d].item
                                            /\ click[d].phase # "idle"
             /\ click'[d].phase = "adrift" => click[d].item \notin followed',
         followed' \subseteq followed
  PROVE  IInv'
  <1>. USE DEF IInv
  <1>1. /\ fetch' \in Fetch /\ fetch'.seen \subseteq fetch.seen
        /\ open => fetch'.phase # "idle"
        /\ open /\ known => fetch'.phase = "asking"
    BY RefetchAsks DEF Settle, Typed
  <1>2. pending' \in Items \cup {NoItem} BY DEF Settle, Free, Typed
  <1>3. invalid' \in BOOLEAN /\ (known' => invalid') BY DEF Settle
  <1>4. Typed' BY <1>1, <1>2, <1>3 DEF Typed
  <1>5. Surfaced' BY <1>1 DEF Surfaced, NotQuiet
  <1>6. Followed' BY DEF Followed
  <1>7. FetchTells' BY <1>1 DEF FetchTells, Followed
  <1>8. Heals' BY <1>1 DEF Heals
  <1>9. Repairs' BY <1>3 DEF Repairs, Followed
  <1>. QED BY <1>4, <1>5, <1>6, <1>7, <1>8, <1>9

LEMMA AckSettledKeeps ==
  ASSUME IInv, NEW c \in Clicks, AckArrives(c) \/ AckFails(c) PROVE IInv'
  <1>. USE DEF IInv
  <1>1. /\ data' \in SUBSET Items /\ NotQuiet(data')
        /\ error' \in BOOLEAN /\ known' \in BOOLEAN /\ (known => known')
    <2>1. CASE AckArrives(c)
      BY <2>1 DEF AckArrives, Typed, Surfaced, NotQuiet
    <2>2. CASE AckFails(c)
      BY <2>2 DEF AckFails, RollBack, Typed, Click, Surfaced, NotQuiet
    <2>. QED BY <2>1, <2>2
  <1>2. click' = [click EXCEPT ![c] = NoClick]
    BY DEF AckArrives, AckFails
  <1>3. click' \in [Clicks -> Click]
    BY <1>2, Records DEF Typed
  <1>4. /\ Settle(c) /\ UNCHANGED <<status, open>> /\ followed' = followed
    BY DEF AckArrives, AckFails
  <1>5. \A d \in Clicks :
            /\ click'[d].previous \subseteq click[d].previous
            /\ click'[d].phase # "idle" => /\ click'[d].item = click[d].item
                                           /\ click[d].phase # "idle"
            /\ click'[d].phase = "adrift" => click[d].item \notin followed'
    BY <1>2, <1>4, Records DEF Typed, Followed
  <1>. QED BY <1>1, <1>3, <1>4, <1>5, SettleKeeps

LEMMA AckGivenUpKeeps ==
  ASSUME IInv, NEW c \in Clicks, AckGivenUp(c) PROVE IInv'
  <1>. USE DEF IInv
  <1>1. /\ data' \in SUBSET Items /\ NotQuiet(data')
        /\ error' \in BOOLEAN /\ known' \in BOOLEAN /\ (known => known')
    BY DEF AckGivenUp, RollBack, Typed, Click, Surfaced, NotQuiet
  <1>2. /\ click' \in [Clicks -> Click]
        /\ click'[c].previous = {} /\ click'[c].item = click[c].item
        /\ \A d \in Clicks \ {c} : click'[d] = click[d]
    <2>1. click \in [Clicks -> Click] /\ click[c] \in Click
      BY DEF Typed
    <2>2. click' = [click EXCEPT ![c] = [click[c] EXCEPT !.phase = "adrift", !.previous = {},
                                                         !.here = FALSE]]
      BY <2>1 DEF AckGivenUp
    <2>3. PICK k : k = [click[c] EXCEPT !.phase = "adrift", !.previous = {}, !.here = FALSE]
      OBVIOUS
    <2>4. k \in Click /\ k.previous = {} /\ k.item = click[c].item
      BY <2>1, <2>3 DEF Click
    <2>5. click' = [click EXCEPT ![c] = k]
      BY <2>2, <2>3
    <2>. QED BY <2>1, <2>4, <2>5
  <1>3. /\ Settle(c) /\ UNCHANGED <<status, open>>
        /\ followed' = followed \ {click[c].item} /\ click[c].phase = "sent"
    BY DEF AckGivenUp
  <1>4. \A d \in Clicks :
            /\ click'[d].previous \subseteq click[d].previous
            /\ click'[d].phase # "idle" => /\ click'[d].item = click[d].item
                                           /\ click[d].phase # "idle"
            /\ click'[d].phase = "adrift" => click[d].item \notin followed'
    BY <1>2, <1>3 DEF Followed
  <1>. QED BY <1>1, <1>2, <1>3, <1>4, SettleKeeps

LEMMA AdriftIsLostKeeps ==
  ASSUME IInv, NEW c \in Clicks, AdriftIsLost(c) PROVE IInv'
  <1>. USE DEF IInv, cacheVars, pageVars
  <1>1. /\ click' \in [Clicks -> Click] /\ click'[c] = NoClick
        /\ \A d \in Clicks \ {c} : click'[d] = click[d]
    BY Records DEF AdriftIsLost, Typed
  <1>2. Typed' BY <1>1 DEF AdriftIsLost, Typed
  <1>3. Surfaced' BY <1>1, Records DEF AdriftIsLost, Surfaced, NotQuiet
  <1>4. Followed' /\ Heals' BY <1>1, Records DEF AdriftIsLost, Followed, Heals
  <1>5. Quiesced' => Quiesced BY <1>1 DEF AdriftIsLost, Quiesced, Live
  <1>6. FetchTells' /\ Repairs'
    BY <1>5 DEF AdriftIsLost, FetchTells, Repairs, Agrees
  <1>. QED BY <1>2, <1>3, <1>4, <1>6

LEMMA SurfaceKeeps == ASSUME IInv, NEW i \in Items, Surface(i) PROVE IInv'
  <1>. USE DEF IInv, cacheVars, pageVars
  <1>1. /\ status' \in [Items -> {"quiet", "active", "handled"}]
        /\ status'[i] = "active"
        /\ \A j \in Items \ {i} : status'[j] = status[j]
    BY DEF Surface, Typed
  <1>2. i \notin followed BY DEF Surface, Surfaced, NotQuiet
  <1>3. \A j \in followed : status'[j] = status[j]
    BY <1>1, <1>2 DEF Typed
  <1>4. Typed' BY <1>1 DEF Surface, Typed
  <1>5. Surfaced' BY <1>1 DEF Surface, Surfaced, NotQuiet, Typed, Fetch, Click
  <1>6. Followed' /\ Heals' BY DEF Surface, Followed, Heals
  <1>7. FetchTells' BY <1>3 DEF Surface, FetchTells, Quiesced, Live
  <1>8. Repairs' BY <1>3 DEF Surface, Repairs, Quiesced, Live, Agrees
  <1>. QED BY <1>4, <1>5, <1>6, <1>7, <1>8

-----------------------------------------------------------------------------
LEMMA Keeps == IInv /\ [Next]_vars => IInv'
  <1>. SUFFICES ASSUME IInv, [Next]_vars PROVE IInv' OBVIOUS
  <1>1. CASE Open BY <1>1, OpenKeeps
  <1>2. CASE Close BY <1>2, CloseKeeps
  <1>3. CASE Reload BY <1>3, ReloadKeeps
  <1>4. CASE Forget BY <1>4, ForgetKeeps
  <1>5. CASE ServerLists BY <1>5, ServerListsKeeps
  <1>6. CASE FetchArrives BY <1>6, FetchArrivesKeeps
  <1>7. CASE FetchFails \/ Wake BY <1>7, FetchFailsKeeps
  <1>8. CASE FetchRefused BY <1>8, FetchRefusedKeeps
  <1>9. CASE TryAgain \/ Reconnect BY <1>9, AgainKeeps
  <1>10. ASSUME NEW c \in Clicks, ServerAcks(c) PROVE IInv' BY <1>10, ServerAcksKeeps
  <1>11. ASSUME NEW c \in Clicks, AckEnds(c) PROVE IInv'
    BY <1>11, AckSettledKeeps, AckRefusedKeeps DEF AckEnds
  <1>12. ASSUME NEW c \in Clicks, AckGivenUp(c) PROVE IInv' BY <1>12, AckGivenUpKeeps
  <1>13. ASSUME NEW c \in Clicks, AdriftIsLost(c) PROVE IInv' BY <1>13, AdriftIsLostKeeps
  <1>14. ASSUME NEW c \in Clicks, NEW i \in Items, ClickCard(c, i) PROVE IInv'
    BY <1>14, ClickCardKeeps
  <1>15. ASSUME NEW i \in Items, Surface(i) PROVE IInv' BY <1>15, SurfaceKeeps
  <1>16. CASE UNCHANGED vars
    BY <1>16 DEF vars, IInv, Typed, Surfaced, NotQuiet, Followed, FetchTells, Heals,
                 Repairs, Quiesced, Live, Agrees
  <1>. QED
    BY <1>1, <1>2, <1>3, <1>4, <1>5, <1>6, <1>7, <1>8, <1>9, <1>10, <1>11, <1>12, <1>13,
       <1>14, <1>15, <1>16 DEF Next

-----------------------------------------------------------------------------
\* A step that only closes the page, or leaves it and its clicks, keeps
\* BusyWaits: no card is busy, or the same click waits.
LEMMA BusyBegins == Init => BusyWaits
  BY DEF Init, BusyWaits

LEMMA BusyStays ==
  ASSUME BusyWaits, pending' = pending,
         \A c \in Clicks : click[c].phase = "sent" \/ click[c].phase = "done" =>
             /\ click'[c].phase \in {"sent", "done"}
             /\ click'[c].here = click[c].here /\ click'[c].item = click[c].item
  PROVE  BusyWaits'
  BY DEF BusyWaits, Live

\* An acknowledgement that is settled frees its card, and no other.
LEMMA BusySettles ==
  ASSUME BusyWaits, NEW c \in Clicks, Free(c),
         \A d \in Clicks \ {c} : click'[d] = click[d]
  PROVE  BusyWaits'
  <1>1. CASE click[c].here
    BY <1>1 DEF Free, BusyWaits
  <1>2. CASE ~click[c].here
    BY <1>2 DEF Free, BusyWaits, Live
  <1>. QED BY <1>1, <1>2

LEMMA BusyKeeps == Typed /\ BusyWaits /\ [Next]_vars => BusyWaits'
  <1>. SUFFICES ASSUME Typed, BusyWaits, [Next]_vars PROVE BusyWaits'
    OBVIOUS
  <1>1. CASE Close \/ Reload \/ FetchRefused \/ \E c \in Clicks : AckRefused(c)
    BY <1>1 DEF Close, Reload, FetchRefused, AckRefused, Closes, BusyWaits
  <1>2. CASE \/ Open \/ Forget \/ ServerLists \/ FetchArrives \/ FetchFails \/ Wake
             \/ TryAgain \/ Reconnect \/ \E i \in Items : Surface(i)
    <2>1. click' = click /\ pending' = pending
      BY <1>2 DEF Open, Forget, ServerLists, FetchArrives, FetchFails, Wake, TryAgain,
                  Reconnect, Surface, pageVars
    <2>. QED BY <2>1, BusyStays
  <1>3. ASSUME NEW c \in Clicks, ServerAcks(c) PROVE BusyWaits'
    <2>1. /\ pending' = pending
          /\ \A d \in Clicks \ {c} : click'[d] = click[d]
          /\ click[c].phase = "sent" => click'[c] = [click[c] EXCEPT !.phase = "done"]
          /\ click[c].phase # "done"
      BY <1>3 DEF ServerAcks, pageVars, Typed
    <2>2. /\ click[c] \in Click
          /\ click[c].phase = "sent" =>
                /\ click'[c].phase = "done"
                /\ click'[c].here = click[c].here /\ click'[c].item = click[c].item
      BY <2>1 DEF Typed, Click
    <2>. QED BY <2>1, <2>2, BusyStays
  <1>4. ASSUME NEW c \in Clicks, AckArrives(c) \/ AckFails(c) PROVE BusyWaits'
    <2>1. Free(c) /\ click' = [click EXCEPT ![c] = NoClick]
      BY <1>4 DEF AckArrives, AckFails, Settle
    <2>. QED BY <2>1, BusySettles DEF Typed
  <1>5. ASSUME NEW c \in Clicks, AckGivenUp(c) PROVE BusyWaits'
    <2>1. Free(c) /\ \A d \in Clicks \ {c} : click'[d] = click[d]
      BY <1>5 DEF AckGivenUp, Settle, Typed
    <2>. QED BY <2>1, BusySettles
  <1>6. ASSUME NEW c \in Clicks, AdriftIsLost(c) PROVE BusyWaits'
    <2>1. /\ pending' = pending /\ click[c].phase = "adrift"
          /\ \A d \in Clicks \ {c} : click'[d] = click[d]
      BY <1>6 DEF AdriftIsLost, pageVars, Typed
    <2>. QED BY <2>1, BusyStays
  <1>7. ASSUME NEW c \in Clicks, NEW i \in Items, ClickCard(c, i) PROVE BusyWaits'
    <2>1. pending' = i /\ click'[c].phase = "sent" /\ click'[c].item = i /\ click'[c].here
      BY <1>7 DEF ClickCard, Offered, Typed
    <2>. QED BY <2>1 DEF BusyWaits, Live
  <1>8. CASE UNCHANGED vars
    BY <1>8, BusyStays DEF vars
  <1>. QED
    BY <1>1, <1>2, <1>3, <1>4, <1>5, <1>6, <1>7, <1>8 DEF Next, AckEnds

\* Every variable of the page, the cache and the server keeps its type, and a
\* busy card waits for the click that made it busy (setPendingId of TodayPage).
THEOREM TypeCorrect == Spec => []TypeOK
  <1>1. Init => IInv /\ BusyWaits BY Begins, BusyBegins
  <1>2. IInv /\ BusyWaits /\ [Next]_vars => (IInv /\ BusyWaits)'
    BY Keeps, BusyKeeps DEF IInv
  <1>3. IInv /\ BusyWaits => TypeOK BY DEF IInv, TypeOK
  <1>. QED BY <1>1, <1>2, <1>3, PTL DEF Spec

\* The list of an open page at rest shows a clicked card exactly when the server
\* still has its item active, for any items and any number of clicks under way
\* at once (onError and onSettled of TodayPage).
THEOREM ClickedCardsAgree == Spec => []ClickedAgree
  <1>1. IInv => ClickedAgree
    BY DEF IInv, Heals, Repairs, Quiesced, ClickedAgree, Rest
  <1>. QED BY <1>1, Begins, Keeps, PTL DEF Spec
=============================================================================
