# URIE in TLA+

URIE turns what a real-estate agent says about clients into facts, challenges
what contradicts them, and suggests follow-ups ("ghost mode" feed). This
directory holds TLA+ models of the services that decide what is written, of the
browser pages that show it and send requests about it, TLC configurations that
check them on small instances, and TLAPS proofs about the fact ledger, entity
resolution and two pages for every size. All paths below are relative to the
repository; line numbers of every definition are in `PROJECT.json` ("map").

## 1. The system

FastAPI routes (`src/urie/api/v1/router.py`) run services over Postgres through
one SQLAlchemy `AsyncSession` per request. There is no background process: the
reasoning worker runs inside requests, among them `GET /feed`. The client
(`src/frontend/src`) is a single-page application: React state, a query cache
(TanStack Query, with the defaults of `main.tsx`) and a session in
`localStorage`.

| Part | State | Operations | Talks to |
|---|---|---|---|
| Fact values and rules (`domain/facts.py`, `domain/challenge.py`) | none | `values_contradict`, `detect_contradiction`, `conflict_resolution_fact` | called by ingestion |
| Ingestion, fact ledger (`services/ingestion.py`, `adapters/db/repositories.py`) | `nodes`, `edges`, `facts`, `debrief_sessions`, `outbox` | `start_debrief`, `resolve_challenge`, `resolve_ambiguity` | extraction model, entity resolution, outbox |
| Entity resolution (`domain/entity_resolution.py`) | none (weights per agent) | `resolve_entity` | called by ingestion |
| Interview (`services/interview.py`, debrief routes) | one `debrief_sessions` row: status, turns, transcript, pending challenge, next question | `start_interview`, `submit_turn`, `finish`, `/resolve` | ingestion, planner model, worker |
| Gap detection (`domain/interview.py`) | none | `detect_gaps` | feeds the planner's prompt |
| Outbox (`adapters/outbox/bus.py`) | `outbox` rows, `processed_at` | `publish`, `poll_unprocessed`, `mark_processed` | ingestion writes, worker reads |
| Reasoning worker, feed (`services/reasoning_worker.py`, `domain/reasoning.py`) | `feed_items`, `CONSTRAINED_BY` edges | `process_pending`, `release_held_items`, `list_feed`, `ack`, `set_constraint` | outbox, synthesis model |
| Session and tenancy (`adapters/db/session.py`, `api/deps.py`) | connection pool, `app.agent_id` of a connection | `get_agent_session`, `set_agent_context` | everything |
| LLM gateway (`llm/`) | none | `complete_json`, `with_retry`, providers, prompts | all services |
| CRM write-back (`router.py`) | `crm_writebacks` | `POST /crm/writeback` | `facts`, profile page |
| Authentication (`api/deps.py`, `auth.tsx`, `api.ts`) | tokens; the session in state and `localStorage` | `POST /auth/token`, `setSession`, `signOut`, `urie:unauthorized` | every request |
| Today page (`TodayPage`, `FeedCard` of `App.tsx`) | query `['feed']`, `pendingId` | fetch, optimistic `ack`, roll-back, invalidation | `GET /feed`, `POST /feed/{id}/ack` |
| Debrief page (`DebriefPage`) | the last response, composer, four mutations | start, answer, resolve, finish | debrief routes |
| Profile page (`RelationshipProfilePage`, `AddBoundaryDialog`, `WriteBackDialog`) | query of the person, the open dialog and its state | fetch, boundary, note | `GET /nodes/{id}`, `POST /constraints`, `POST /crm/writeback` |
| Relationships page, landing page, `ui.tsx` | search text; language; none | reads only | `GET /nodes` |
| In-memory engine (`services/pipeline.py`, `adapters/memory.py`) | dictionaries of facts, nodes, edges, events, sessions and feed items | `start_debrief`, `resolve_challenge`, `process_reasoning`, `release_held`: the whole loop, single-threaded, without transactions | tests only |
| Migrations, scripts, config | schema; none; settings | - | - |

**What is hard.** Requests about one client overlap; every `await` on a model or
the database is a point where others run. Transactions are READ COMMITTED, so
two statements of one request may see two versions of the tables, and only an
`UPDATE` locks a row. A session object keeps the values it loaded
(`expire_on_commit=False`, `session.py:41`), and some services commit twice. A
failure anywhere before a commit takes everything since the last one away.
There is no lock on the outbox. In the browser everything a page awaits may be
answered late, in another order, for a page that is gone or for a session that
has ended; a fetch given up there is still served; a failure shown may hide a
change made; and what is put back after a failure may be older than what
another answer said meanwhile. The hazards, each at its line, are in
`PROJECT.json`; `properties` names what covers each, and a `note` says why
nothing does.

**What makes each part correct.**
- Ledger: nothing the agent has not seen replaces a contradicting fact; history
  is only appended to, and superseded facts lead forward to their successor;
  facts and events are committed together; a challenge can always be answered.
- Interview: an open interview has a question, and the stored conversation is
  the one that took place; the number of turns is bounded; what is pending is
  taken away by an answer only.
- Both keepers of facts, the services over Postgres and the engine in memory:
  the same promise, stated once (`FactBook`).
- Engine: a fact surfaces exactly once and never while a boundary is in force;
  nobody is in the book twice.
- Session: a session the server accepts ends by the user's word, or by the 401 of
  a request older than the session (section 4), and by nothing else.
- Today: what the agent handled disappears and stays away, what could not be
  handled comes back.
- Debrief page: it shows the session as it is and asks it one thing at a time;
  no answer is recorded twice behind the user's back; it does not stay busy.
- Profile: a note is written once per fact; a boundary the page said it added is
  in the list it shows.
- Feed: every event becomes an item (or two only if two requests overlapped),
  marks and items are committed together, boundaries hold items back, held
  items come out in the end.

## 2. Modules

| Module | About | Uses |
|---|---|---|
| `FactValues` | values and when they contradict (operators) | |
| `FactDrift`, `FactDriftProofs` | one subject over any sequence of mentions | `FactValues` |
| `FactBook` | the abstract, append-only store of facts | |
| `FactLedger` | the tables and concurrent requests | `FactValues`; implements `FactBook` |
| `FactLedgerProofs` | its proofs | `FactLedger` |
| `Resolution` | whom a name means (operators) | |
| `Slice`, `SliceProofs` | the in-memory engine from debrief to feed | `FactValues`, `Resolution`; implements `FactBook` |
| `Interview`, `InterviewProofs` | sessions, turns and the routes that drive them | |
| `GhostFeed`, `GhostFeedProofs` | outbox, reasoning worker and feed | |
| `ClientSession` | tokens, the client's session and its routes | |
| `TodayFeed`, `TodayFeedProofs` | the Today page, its cached list and acknowledgements | |
| `DebriefPage`, `DebriefPageProofs` | the Debrief page on the session row, and proofs on top of `InterviewProofs` | composes with `Interview` |
| `NoteBook` | the abstract log of CRM notes | |
| `ProfilePage`, `ProfilePageProofs` | the profile page, its dialogs, the write-back and boundary routes | `ClientSession`; implements `NoteBook` |

`Interview` and `GhostFeed` meet the ledger at two interfaces: `Interview` takes
the outcome of the mutation pipeline from the constant `Outcomes`, and
`GhostFeed.Mutate` is a ledger commit seen from the outbox. `TodayFeed` sees of
the worker that items surface (`Surface`) and leaves open when a token ends;
`ProfilePage` conjoins the steps of `ClientSession` with the page they mount and
unmount (`PageFollows`). `MC*` modules only give constants their values.

A definition named `Bug...` is a mutated form of the one after it: with it in
place, the property `PROJECT.json` pairs it with is violated.

### FactValues, FactDrift
The values a fact may carry, by the shapes the code tells apart: null, number,
text, money (an object with an amount) and other objects. `Contradicts` is
`values_contradict`, `Annotate` what `resolve_challenge` does to an accepted
value, `Stored` the trip through JSONB (keys are reordered, which `str()` of a
dict shows). `FactDrift` has the pair `get_active` / `detect_contradiction` act
on one subject and entity over any sequence of mentions and answers.

### FactBook
What a store of facts promises, whoever keeps it. `Say` adds entries, and what is
said (not merely noted, as traits and constraints are) agrees with what stood.
`Answer` adds a verified entry and points the challenged one at it. Nothing else
ever happens. `FactLedger.Book` and `Slice.Book` are the refinement mappings:
every row is an entry (`Entry`), its kind says how it got in (`How`).

### FactLedger
A table is a set of rows. `txn[r]` is one request and its open transaction: `pc`
is the place it has reached, `nodes`, `facts` and `events` what it wrote and only
it sees (`VisibleNodes`, `VisibleFacts`), `locks` the rows its UPDATEs hold.

| Action | Code |
|---|---|
| `StartDebrief` | `start_debrief`: the row is inserted, the model extracts |
| `FindPerson`, `AskWho`, `CreatePerson` | `resolve_entity`: UPSERT, CLARIFY (which commits and stops), CREATE |
| `Touch` | `touch_node`: UPDATE, waits for the row |
| `WriteFact`, `RaiseChallenge` | `get_active`, `detect_contradiction`, `save`, `publish`; or commit with a challenge |
| `WriteTrait`, `WriteConstraint` | `_apply_trait`, `_apply_constraint` |
| `Complete` | the end of the loop and the commit |
| `ReadChallenge`, `MarkSuperseded`, `Touch`, `Settle` | `resolve_challenge`, split where it waits for rows |
| `ReadAmbiguity`, `Touch`, `Claim`, then as a debrief | `resolve_ambiguity` |
| `Fail`, `DeadlockVictim` | rollback; Postgres cancels one of a cycle |

Entity resolution is modelled by what it can lead to, with conditions that
`Resolution` justifies: `UpsertIsNearExact` (with the default weights and the
empty context the service passes only the near-exact rule matches),
`TwinsAreAskedAbout`, `CreateIsFar` and `ClarifyHasOthers` are the guards of
`FindPerson`, `CreatePerson` and `AskWho`.

An order the code relies on without saying so: a debrief touches the node
*before* it reads the active fact, so the row lock makes debriefs about one
existing person take turns. `resolve_challenge` has the other order: it inserts
its fact, then marks, then touches (section 4 says what follows).

### Resolution
`resolve_entity` on integer scores. A candidate has a similarity, a recency and a
place in the list, since the sort is stable. The Jaro-Winkler distance, the
decay and the graph overlap are not computed: the first two are any numbers, the
third is 0, as every caller passes an empty context.

### Slice
The engine of `services/pipeline.py` over `adapters/memory.py`. A debrief is one
step for each mutation (`call` is the debrief under way), everything else is one
step, since no `await` in it suspends. There is no transaction. A mutation that
already names its node would skip the resolution (`pipeline.py:264`); no extractor
in the repository sends one, and every mutation is resolved here (`About`).

| Action | Code |
|---|---|
| `StartDebrief`, `Complete` | `start_debrief`, the end of `_process_mutations` |
| `AskWho` | CLARIFY, with the scores of `Resolution` |
| `WriteFact`, `RaiseChallenge` | UPSERT or CREATE, `detect_contradiction`, `save` and `publish`, or the challenge |
| `WriteTrait`, `WriteConstraint` | `_apply_trait`, `_apply_constraint` |
| `Raise` | `fromisoformat` on a `window_end` that is no date |
| `ResolveChallenge` | `resolve_challenge` |
| `ProcessReasoning` | `poll_unprocessed`, `_handle_mutation` and `mark_processed` on a batch |
| `ReleaseHeld` | `release_held`, with which `list_feed` begins |

### Interview
One committed `row`, the uncommitted `draft` of the request in `lock`, and each
request's `copy`. Nothing refreshes it while the request holds on to it; the
router lets go of it with the answer and loads the row anew (`Reopen`). `Written` is SQLAlchemy's UPDATE: the
attributes whose value changed in the copy, and no others. `FlushTurn`, `Extract`
and `Plan` are `submit_turn` with its two commits; `Resolve`, `Settle` (or
`NamePerson`, `ApplyWaiting`), `Reopen`, `Resume` and `Replan` are `resolve_debrief`;
`Finish` and `FinishNow` are `finish`. A turn is represented by the request that
brought it, and questions by the request that asked (texts of questions are
taken to be distinct). `covered_gaps`, `staged_mutations` and `challenge_focus`
are left out: no guard reads them.

### GhostFeed
`now`, `events` with their `created_at` (the start of the transaction, so an
older event may appear after a younger one), `processed`, `constraints`, `items`
and, for every request that runs a worker, its batch and what it has made and
marked so far. `Handle` reads the constraints, `Synthesize` decides with a later
clock, `Queue` / `Mark` wait for the row of the event in order of arrival,
`CommitBatch` commits all. `ReadDue` and `Release` are the two statements of
`release_held_items`, `Ack` is `ack`, `SetConstraint` is `set_constraint`.

### ClientSession
A token is the number of its issue, and tokens end in that order. `SubmitSignIn`,
`SignInArrives` and `SignInFails` are the form (`SignInPage`), `GoTo` a link with
the redirects of the two route tables (`Landing`), `SignOut` the account menu,
`Unauthorized` the listener of `urie:unauthorized`, `ReloadSession` a reload that
reads `localStorage`, `Expire` the end of a token at the server.

### TodayFeed
The cache entry of `['feed']` is `data`, `known`, `invalid` and `error`; `fetch` is
its fetch and `click` the acknowledgements.

| Action | Code |
|---|---|
| `Open`, `Close`, `Reload`, `Forget` | the query mounts or unmounts with the page; the browser or the cache forgets |
| `ServerLists`, `FetchArrives`, `FetchFails`, `FetchRefused`, `Wake` | the query function, its answer, its error and the one retry of `main.tsx` |
| `TryAgain`, `Reconnect` | `refetch` of `ErrorState`; back online |
| `ClickCard` | `onMutate`: cancel, remember the list, take the card out, `pendingId` |
| `ServerAcks` | `POST /feed/{id}/ack` |
| `AckArrives`, `AckFails`, `AckGivenUp`, `AckRefused` | `onError` (the list is put back) and `onSettled` (invalidate) |

What the query library does is taken from how TanStack Query 5 behaves: setting
data clears error and invalidity; a cancelled fetch reverts, its request stays
on the way; invalidating starts the fetch again if there is data and joins it
otherwise; callbacks run after the page is gone.

### DebriefPage
`view` is the response the page shows, `call` what became of each mutation, `text`
and `composer` the answer typed. `Answer`, `Choose`, `Confirm` and `PressFinish` are
its buttons with what disables them; `Reach`, `Work` and `Break` are `Interview`'s
steps of the same request; `Hear`, `HearError` and `Lose` are its end in the page.
`ResolvedView` is the response `resolve_debrief` has in hand once the answer is
committed (`answer` keeps it) and falls back on when planning on fails. `unsure` remembers failures shown that may
hide a change.

### NoteBook, ProfilePage
`NoteBook` promises what the model's docstring says of `crm_writebacks`: a note is
written where there is none and stays, and nobody is told of a note that is not
there. In `ProfilePage` a request goes through the phases sent, looked, answered
or failed; `LookUp` and `Insert` are the two statements of `crm_writeback`,
`Protect` is `set_constraint`, `Submit`, `Answered`, `Failed` and `Lose` are the
mutations of the dialogs, `Invalidate` is `onSuccess` of `AddBoundaryDialog`.
`wire` holds the tokens of requests that nobody waits for except the listener of
a 401.

## 3. What the runs check

| Run | Instance | Shows |
|---|---|---|
| `drift` | 2 amounts, 2 currencies, 2 texts, 1 body, 1 note; unbounded sequences | a settled sum is never challenged again; mentions that pass never add up to a contradiction, unless a null came between |
| `ledger_race` | 4 requests at once, 2 people, 5 utterances, failures anywhere, symmetry | type; superseded facts lead to a later resolution of the same subject and entity; outbox and facts agree; challenges stay answerable; no silent overwrite; what the agent verified goes on to stand; the ledger implements `FactBook` |
| `ledger_people` | 3 at once, utterances in crossing order | every request ends, deadlocks included |
| `ledger_serial` | 5 one after another, no people at first, traits and constraints | each fact is staged in one session |
| `interview_serial` | 5 one after another, each failing anywhere, bound 2 | an interviewing session has a question; the transcript is the user's turns; a closed session asks nothing, unless it was cut between commits; turns stay in the bound |
| `feed_race` | 2 workers, 2 people, 2 events, 2 moments, failures anywhere, symmetry | marks and items belong together; no worker handles an event twice; earlier boundaries hold |
| `feed_live` | 2 workers, 1 of them the polling client | every event is processed, every dated held item released |
| `feed_overlap` | 1 worker, 1 person, up to 3 events, 2 moments | expects a violation, see section 4 |
| `slice` | 3 debriefs out of 5 texts, 4 names of which 2 are near and 2 half near, batches of 2, 3 moments, an unparseable date | a fact has one event and one item, batches and raises notwithstanding; new items are quiet while a boundary is in force; nobody is added under a name within 0.90 of anybody's; the engine implements `FactBook`; every fact surfaces |
| `today` | 2 items, 2 acknowledgements at once, unbounded in number; every fetch and acknowledgement may fail, be lost or refused, every page closed or reloaded | type; at rest a clicked card is shown exactly when its item waits at the server; a handled card that was put back goes again |
| `debrief_page` | 3 requests, 2 at once, bound 2, any outcome of the pipeline, failures and losses anywhere | type; one request at a time; the page shows the row; an answer is recorded twice only after a failure was shown; a challenge goes by an answer to it; the page does not stay busy |
| `profile` | 2 tokens, 1 fact, 2 notes, 2 write-backs or boundaries, dialogs closed and opened under way, symmetry | type; a boundary said to be added is listed; the page and the route implement `NoteBook`; an accepted session ends only by the user or by an older token's 401 |

Bounds. Two requests suffice for every lost update and every crossing of locks,
a third is the one that sees the outcome and a fourth the one that answers it;
an utterance of two mutations is the shortest that can stop midway or lock two
people; a contradiction needs two amounts. The turn bound is reached and
exceeded with 1 or 2. Two events and two moments give a boundary before, during
and after its item. In `slice` a batch of two leaves a third event behind, a person
fades over three moments, and three debriefs are one to write, one to
contradict, one to see it. `Concurrency`, `MaxTime`, `MaxEvents` and `Limit` of
`Slice` (50 in the code) are the bounds;
requests are a set, so each starts at most once. Two cards clicked at once are
what it takes to put back a list that an answer made obsolete; a click that has
ended may be made again, so `today` has no bound on their number and no deadlock
to excuse. A page that was told of a failure and sends its answer again uses
two requests, and the third sees what they did. Two tokens are the session and
an older one (`MaxTokens`), two requests of a profile the two dialogs that race
for one note. Deadlock checking is off
because finitely many requests all end.

Fairness. The event loop runs every coroutine that does not wait: weak fairness
of `Step(r)`. Postgres looks for deadlocks after `deadlock_timeout` and cancels
one of the cycle: weak fairness of `DeadlockVictim`. In `GhostFeed` also the
clock and `Poll` of the requests in `Feeds` (the frontend asks for the feed
again), not of other workers. A row's waiters are served in order (the places
`wait` and `Ahead`), so no strong fairness is assumed. The liveness runs of the
feed have no `Fail`: a model that always raises starves every batch it is in.
In `TodayFeed` the browser ends every acknowledgement (`AckEnds`) and every pause
before a retry (`Wake`): weak fairness; the server lists and the answer arrives
if they can again and again (strong fairness, since every click cancels the
fetch), which says that the user does not click for ever faster than a list
arrives. In `DebriefPage` requests reach the server, run and are answered: weak
fairness of each request's `Reach`, `Work` and `Hear` or `HearError`.
In `Slice` a call that began runs to its end (`Step`), the clock goes on, and
the caller asks for reasoning and for the feed again, as the tests do: nothing
else would make them run.

## 4. Where the code departs from what is said

Shown by a run that expects a violation:
- `feed_overlap`: of two overlapping windows the first blocker's end releases the
  item while the other is active (`ReleaseRespectsWindows`).

Met while modelling and kept out of the properties by the qualification named.
In the services:
- `_process_mutations` returns at the first challenge (`ingestion.py:267`); what
  the utterance says after it is lost, also after the answer, while the
  specification has every mutation of an utterance staged;
- after an answer to an ambiguity has raised a challenge the router sets
  INTERVIEWING anyway (`router.py:170`), so the route would take a turn that wipes
  the challenge out; the page never sends one (`AnsweredThroughPage`);
- a resolution inserts its fact before it touches the node, so a concurrent
  debrief that holds the node and repeats the old value gets a newer fact, and
  the value the agent verified is hidden from the moment it is committed
  (`VerifiedStands` speaks of it from the moment `get_active` agrees with it);
- of two near-exact names one is taken unasked if a third person scores between
  them (`TwinsAreAskedAbout` is about two alone);
- `set_constraint` of the worker saves a Constraint fact and its event and stages
  neither (`StagedExact` is about debriefs and answers; `SetConstraint` is an
  action of `GhostFeed` only);
- in memory, a date that does not parse raises in mid-debrief: what was applied
  stays and the session's list is lost (`Raise`);
- a null contradicts nothing, so 3M, null, 5M passes (`NoDriftButByNull`), and a
  trait is written without being compared and then stands for its entity, so a
  mention that agrees with it passes whatever was verified (`Uncompared` names
  both in `VerifiedStands`);
- an accepted number or text is stored wrapped in an object and contradicts
  itself when repeated, as does an object whose keys JSONB reorders
  (`SettledMoney` is about sums only);
- an equal mention leaves two active facts, and an answer supersedes one of them
  (`get_active`, and `VerifiedStands` with it, looks at the newest);
- a challenge whose fact others have answered meanwhile is answered all the same,
  and the fact's pointer moves on to the new answer (`ChallengeGrounded` says only
  that the fact is there and says what the challenge says);
- `resolved_node_id` sent with the answer to a challenge supersedes a fact of one
  person by one of another (`SupersededBySameHolds`, `NoSilentOverwriteHolds`
  and `VerifiedStandsHolds` need `Redirects = {}`);
- `/resolve` asks the planner without looking at the bound (`TurnCap` allows one
  more turn for each answer);
- of two concurrent turns one vanishes from `turns` and `transcript`, a finish
  that loads the row between a turn's two commits leaves it interviewing, and the
  router opens the row it has loaded again whatever others made of it since the
  answer, for more turns than `TurnCap` allows (`interview_serial` has one request
  at a time);
- a failure between the two commits of a turn leaves a completed session with an
  open question (`ClosedOrCut` names it);
- polling claims nothing, so overlapping requests make an item each
  (`OnePerWorker` counts them); an ack between the two statements of a release
  is undone (in `TodayFeed` `Surface` never makes a handled item active again);
- the second of two write-backs that both found no note gets an error, and its
  retry is told of the first one's note; a write-back of another text replays
  the old note while the page says that it is prepared (`NoteBook` promises the
  first note only);
- `GET /nodes/{id}` returns every boundary of the person, expired ones included
  (`repositories.py:221`), so the banner says that a window is active when it is
  not (`BoundaryListed` is about the list).

In the pages:
- a roll-back on Today brings back a card whose own acknowledgement is under
  way, with its buttons free: it may be acknowledged twice; an earlier failure's
  message is replaced by the next;
- the key `['feed']` names no agent and outlives a sign-out; with two
  acknowledgements under way while the page is left, an old list may pass for a
  fresh one until it is fetched (`followed` belongs to the page that is mounted);
- a 401 to a request of an older token signs a newer session out
  (`ValidSessionKept` allows it); other tabs are not heard;
- the form that resolves a challenge stays enabled while a finish is under way,
  and the page shows whichever response came last (`Overlapped`);
- an answer whose response was lost stays in the composer, and is recorded again,
  perhaps as the answer to the next question (`TwiceOnlyIfTold`, `unsure`);
- a session whose page is left or whose start was lost is never asked for again,
  and only a finish invalidates what other pages have cached;
- a dialog closed and opened again sends a second boundary beside the first; a
  new boundary does not invalidate the feed it silences.

## 5. Proofs

`FactLedgerProofs` proves for every value of the constants (from `LedgerAssumption` and `CurrencyAssumption` only):

- `TypeCorrect`, `SupersededByLaterHolds`, `OutboxExactHolds`,
  `ChallengeGroundedHolds`, `AwaitingIffPendingHolds`: invariants of `Spec`.
  None is inductive alone. `IInv` adds `Keys` (ids are unique and below the next
  id, across committed and uncommitted rows) and, for each transaction, `TxnInv`
  (what its place in the code says of its buffer, and that buffer and events
  match), without which a commit could bring anything. The argument: only
  `Commit` changes tables (`CommitFacts`, `SupersedeFacts`), every other step
  changes one transaction (`LocalStep`, `MoveStep`).
- `HistoryKeptHolds`: an action property from the same invariant.
- `NoSilentOverwriteHolds`, assuming `Redirects = {}`: the node locks are enough.
  `LInv` says which rows each transaction must hold once it compares
  (`OwnInv`) and that two transactions never write about one existing node at
  once (`Apart`), so what a debrief compared with is what is active when it
  commits. The assumption is needed: with redirects TLC violates `LInv`.
- `ImplementsBookHolds`, with the same assumption: the ledger refines `FactBook`.
  Only commits show (`OnlyCommitsShow`); one that supersedes nothing is a `Say`
  (`CommitSays`, from `CompareInv` and the uniqueness of ids), one that does is
  an `Answer` (`CommitAnswers`, from `RefInv` and `SupersededPages`).
- `SupersededBySameHolds`, with the same assumption: pointers stay within one
  subject and entity.
- `StagedExactHolds`, for requests that do not overlap (`Concurrency = 1`), with
  redirects or without. `SInv` says that one request runs at most (`Alone`), that
  the session of a debrief that has not committed is empty, that a session
  somebody answers has something to be answered, and that the list the running
  request will store is its session's with the facts it wrote (`SerialTxn`).
- `VerifiedStandsHolds`, for any number of requests at once and any utterances,
  with the same assumption. It is an action property: once what `get_active`
  returns agrees with the newest resolution, every commit keeps it so, or brings
  the next answer, a null or a trait or constraint that nothing compared
  (`Uncompared`). It rests on `LInv`: a commit's plain facts agree with what was
  active when it commits (`MentionsAgree`), and agreement is transitive where
  nothing is null (`CommitStands`). That `get_active` finds a fact at all needs a
  largest id (`Largest`, `ActiveIsFound`), from the library's theorem that strict
  inclusion of finite sets is well founded.

`TodayFeedProofs` proves `TypeCorrect` and `ClickedCardsAgree` for any items and any
number of clicks at once. `ClickedAgree` speaks of the moment when nothing is
under way; the invariant says what each thing under way still owes: a list that
disagrees while no acknowledgement waits is invalid (`Repairs`), an invalid list
of an open page is being fetched or an error is shown (`Heals`), and what the
server listed agrees with what it holds (`FetchTells`).

`ProfilePageProofs` proves all four properties of `ProfilePage` for any facts,
notes, tokens and number of requests, from `ClientSessionAssumption` and
`ProfileAssumption`: `TypeCorrect`, `BoundariesListed`, `WritebacksKeepTheBook` (the
refinement: only `Insert` is a `Write`, only `Answered` a `Tell`) and
`ValidSessionsKept`. `NotesHold` says what a request in each phase is about and
has found, `Dialogs` that a dialog and what was added in it belong to a page that
has the person, `Listing` that an added boundary is in the list or the list is
invalid and on its way, `SignedIn` and `Asks` that a page and its fetch have a
token.

`GhostFeedProofs` proves the four properties of `feed_race` for any workers, people,
events and moments, from `FeedAssumption` (which asks that `Workers` be finite, as
requests at one time are: `OnePerWorker` counts them): `TypeCorrect`, `FeedIsExact`,
`OneItemPerWorker` and `EarlierBoundaryIsKept`. The invariant adds to the types
that ids are unique (`Ids`), what a worker holds before its commit (`OwnInv`: each
item it made is of an event it claims, and it has handled each of those once),
what it read of the constraints (`SeenInv`: every boundary set before the event it
handles, although it reads before it asks the model) and how often an event may
yet be handled (`ClaimInv`: its items and the workers that have it in hand are
together no more than there are workers).

`InterviewProofs` proves `TypeCorrect` at any `Concurrency`, and for requests that do
not overlap (`Concurrency = 1`) `OpenInterviewAsks`, `TranscriptFollowsTurns`,
`TurnsAreBounded` and `ClosedUnlessCut`. They need the hypothesis: two requests at
once break each of the four (section 4). `SerialInv` says of the stored row what
holds between requests, failures included (`RowInv`), and of the copy the one
request works on what its place in the code says of it (`PlaceInv`), `Mine` that
nobody changed the row since it was loaded.

`DebriefPageProofs` proves what the hypothesis of `InterviewProofs` rests on and the
safety properties of `debrief_page`, for any number of requests and any
`Concurrency`:
- `PageImplementsInterview`: every step of page and server is a step of `Interview`
  or leaves the server alone, so what holds of `Interview` holds through the page.
- `PageTypeCorrect`, `ServesOneAtATime`, `ShowsTheSession`, `TwiceOnlyIfShownToFail`
  and `ChallengesAreAnswered`, from `PageInv`: what each kind of request was sent from
  and with (`KindInv`), whom the page waits for (`WaitInv`), that each turn of the
  user comes of one request that committed (`TurnInv`), that of two requests with
  one answer one left no turn behind or was shown as failed (`AnswerInv`), what a pending
  challenge says of the requests under way (`ChallengeInv`) and what the page shows
  of the row (`ShownInv`).
- `PageKeepsTheInterview` composes the two: while no answer was lost and no
  resolution ran beside a finish, the page's requests do not overlap
  (`ServesOneAtATime`), so the four theorems of `InterviewProofs` hold through it at
  any `Concurrency`. The page is the only client the repository has.

`SliceProofs` proves of `Resolution` what the guards of `FactLedger` rest on
(`UpsertIsNearExact`, `TwinsAreAskedAbout`, `CreateIsFar`, `ClarifyHasOthers`), for all
similarities and recencies, in integer arithmetic; and of `Slice`, from
`SliceAssumption`, for any debriefs, names, values, moments and batches:
`TypeCorrect`, `FeedIsExact`, `NobodyIsMetTwice`, `ItemsAreBornQuiet` and
`EngineKeepsTheBook` (it refines `FactBook`: only `Record` is a `Say`, only
`ResolveChallenge` an `Answer`). The invariant says that people and facts are
numbered in the order they came (`PeopleInv`), that event n is about fact n
(`FactInv`), that items and processed events worth one correspond (`FeedInv`) and
that a pending challenge is of a fact (`PendingInv`). That a batch adds its items
in order needs that a finite set of numbers has a first, a second and so on
(`Ranks`), shown by counting. `Similarity` is not assumed symmetric:
`NamesApart` compares a later name with an earlier one, as the code does.

`FactDriftProofs` proves both properties of `FactDrift` for all values and notes:
`MentionsDoNotDrift` and `SumsStaySettled`. `Settled` adds that a stored object has the
order of keys no trip to the database changes, without which an object could
pass as equal and be stored as something else.

Each strengthening was first checked by TLC as an invariant of the runs of its
module. Only model-checked: all liveness (fairness and ENABLED are out of the
prover's reach: `EveryRequestEnds`, `EveryEventProcessed`, `HeldIsReleased`,
`HandledCardGoes`, `WaitEnds`, `EverythingSurfaces`). Every safety property a passing
run checks has a theorem, under the hypotheses named here.

## 6. Not modelled, and the plan

Not modelled: prompts and providers (the models allow every answer the schemas
admit), wording of questions and scripts, embeddings (nothing decides by them),
token encoding, migrations, seed script, configuration. Of the frontend, the
relationships page (it only reads, under a key that holds the text searched
for), the landing page and its copy, styling, the offline banner, and a second
tab. The button that a click disables is disabled with the click: the instant
before React renders is left out. The row locks of the ledger and the session
row of the interview are in different modules, so a deadlock across the two is
not explored.

The pool and row level security (`db/session.py`, `api/deps.py`) are left to the
database's own tests.

Order of work, the core first:
1. done: `FactValues`, `FactDrift`, `FactLedger`, its invariants and isolation
   proved; `Interview`; `GhostFeed`.
2. done: `FactBook`, implemented by `FactLedger` and `Slice` (both proved);
   `Resolution` and its proofs.
3. done: the client: `ClientSession`, `TodayFeed` (proved), `DebriefPage` composed
   with `Interview`, `ProfilePage` with the write-back route, implementing
   `NoteBook` (proved).
4. `Retry` (attempts, delays, `retry_after`) and the gap ranking of
   `domain/interview.py`, as operators checked against reference definitions.
5. Composition of `Interview` with the ledger's locks (one session row, turns
   and answers that deadlock across both), and of ledger and feed, with an
   event that always raises.
6. An abstract feed (an item is shown once, and not before its boundary ends)
   that `GhostFeed` implements with one worker, and `Slice` too.
7. Proofs, done: every safety property the runs check. Left: `Redirects = {}`
   through the client. The form that answers a challenge sends no node
   (`App.tsx:589`), a pick among candidates does (`App.tsx:557`): that a pick never
   meets a challenge takes a page composed with the ledger.
