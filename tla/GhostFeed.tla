------------------------------ MODULE GhostFeed ------------------------------
(***************************************************************************)
(* The reasoning plane: how outbox events become feed items                *)
(* (src/urie/services/reasoning_worker.py, domain/reasoning.py and         *)
(* adapters/outbox/bus.py over Postgres).                                  *)
(*                                                                         *)
(* There is no scheduler: the requests of the API run a worker, GET /feed  *)
(* among them, which then releases what was held.  A worker polls, handles *)
(* the events one by one, and commits all of them at once.  Handling an    *)
(* event reads the constraints of its subject, waits for the model, and    *)
(* only then looks at the clock.                                           *)
(***************************************************************************)
EXTENDS Naturals, FiniteSets

CONSTANTS
    Workers,       \* requests that run a worker, again and again
    Feeds,         \* those that are GET /feed
    MayFail,       \* those whose model or database may raise
    People,
    Limit,         \* events a poll returns at most (50 in the code)
    MaxTime,       \* BOUND: the last moment of the clock
    MaxEvents      \* BOUND: events ever published

Open == MaxTime + 1      \* the end of a constraint that has none
None == 0

ASSUME FeedAssumption ==
    /\ IsFiniteSet(Workers)
    /\ Feeds \subseteq Workers
    /\ MayFail \subseteq Workers
    /\ Limit \in Nat \ {0}
    /\ MaxTime \in Nat
    /\ MaxEvents \in Nat

Time == 0..MaxTime
EventId == 1..MaxEvents
Event == [id : EventId, at : Time, kind : {"mutation", "constraint_added"},
          subject : People]
Constraint == [id : EventId, subject : People, start : Time, end : 1..Open]

Statuses == {"held", "active", "acked", "dismissed"}
\* feed_id is the event and the number of items there were when it was
\* committed: a commit brings one item of an event at most.
Item == [event : EventId, no : Nat, subject : People, status : Statuses,
         until : 0..Open]

VARIABLES
    now,           \* the clock
    events,        \* the outbox: committed events, created at
    processed,     \* ids of the events whose processed_at is set
    constraints,   \* CONSTRAINED_BY edges, with their windows
    items,         \* the feed
    worker         \* what each worker is doing, and its uncommitted writes

tables == <<events, processed, constraints, items>>
vars == <<now, events, processed, constraints, items, worker>>

PCs == {"idle", "next", "synthesize", "mark", "wait", "list", "release"}
Worker == [pc : PCs,
           batch : SUBSET Event,           \* polled and not marked yet
           current : SUBSET Event,         \* the event being handled
           seen : SUBSET Constraint,       \* read before the model was asked
           made : SUBSET Item, marked : SUBSET EventId,
           due : SUBSET Item]              \* held items whose time has come

Asleep == [pc |-> "idle", batch |-> {}, current |-> {}, seen |-> {},
           made |-> {}, marked |-> {}, due |-> {}]

Init ==
    /\ now = 0
    /\ events = {}
    /\ processed = {}
    /\ constraints = {}
    /\ items = {}
    /\ worker = [w \in Workers |-> Asleep]

-----------------------------------------------------------------------------
\* A transaction commits an event.  Its created_at is when it began.
NextId == Cardinality(events) + 1
Publish(kind, p) ==
    /\ NextId \in EventId
    /\ \E at \in 0..now :
          events' = events \cup {[id |-> NextId, at |-> at, kind |-> kind, subject |-> p]}

\* A fact or a trait is committed (FactLedger).
Mutate(p) ==
    /\ Publish("mutation", p)
    /\ UNCHANGED <<now, processed, constraints, items, worker>>

\* set_constraint and _apply_constraint: a constraint and its event.
SetConstraint(p) ==
    /\ Publish("constraint_added", p)
    /\ \E start \in Time, end \in 1..Open :
          constraints' = constraints \cup
              {[id |-> NextId, subject |-> p, start |-> start, end |-> end]}
    /\ UNCHANGED <<now, processed, items, worker>>

Tick == /\ now < MaxTime
        /\ now' = now + 1
        /\ UNCHANGED <<tables, worker>>

-----------------------------------------------------------------------------
\* is_active_at.
ActiveAt(c, t) == c.start <= t /\ t < c.end

\* poll_unprocessed: the oldest events nobody has marked.  BugUnprocessed takes
\* the marked ones again.
BugUnprocessed == events
Unprocessed == {e \in events : e.id \notin processed}
Oldest(batch) == \A e \in batch, o \in Unprocessed \ batch : e.at <= o.at
Poll(w) ==
    /\ worker[w].pc = "idle"
    /\ \E batch \in SUBSET Unprocessed :
          /\ Oldest(batch)
          /\ Cardinality(batch) = IF Cardinality(Unprocessed) < Limit
                                  THEN Cardinality(Unprocessed) ELSE Limit
          /\ worker' = [worker EXCEPT ![w] = [Asleep EXCEPT !.pc = "next", !.batch = batch]]
    /\ UNCHANGED <<now, tables>>

\* The next event of the batch, in the order of created_at; events of one
\* moment come in any order.  The constraints are read as they are committed.
\* BugHandle passes over constraint events without marking them.
BugHandle(w) ==
    /\ worker[w].pc = "next"
    /\ \E e \in worker[w].batch :
          /\ \A o \in worker[w].batch : e.at <= o.at
          /\ IF e.kind = "constraint_added"
             THEN worker' = [worker EXCEPT ![w].batch = @ \ {e}]
             ELSE worker' = [worker EXCEPT ![w].pc = "synthesize", ![w].current = {e},
                    ![w].seen = {c \in constraints : c.subject = e.subject}]
    /\ UNCHANGED <<now, tables>>
Handle(w) ==
    /\ worker[w].pc = "next"
    /\ \E e \in worker[w].batch :
          /\ \A o \in worker[w].batch : e.at <= o.at
          /\ worker' = [worker EXCEPT
                ![w].pc = IF e.kind = "constraint_added" THEN "mark" ELSE "synthesize",
                ![w].current = {e},
                ![w].seen = IF e.kind = "constraint_added" THEN {}
                            ELSE {c \in constraints : c.subject = e.subject}]
    /\ UNCHANGED <<now, tables>>

\* decide_ghost_mode, once the model has answered: the first constraint active
\* now holds the item until that constraint ends, if it ends.  The rows come in
\* no order.  BugUntil holds it a moment longer.
BugUntil(c) == c.end + 1
Until(c) == IF c.end = Open THEN None ELSE c.end
Blockers(seen) == {c \in seen : ActiveAt(c, now)}
NewItem(e, status, until) ==
    [event |-> e.id, no |-> 0, subject |-> e.subject, status |-> status, until |-> until]
\* BugDecided holds nothing.
BugDecided(w, e) == {NewItem(e, "active", None)}
Decided(w, e) ==
    IF Blockers(worker[w].seen) = {}
    THEN {NewItem(e, "active", None)}
    ELSE {NewItem(e, "held", Until(c)) : c \in Blockers(worker[w].seen)}
Synthesize(w) ==
    /\ worker[w].pc = "synthesize"
    /\ \E e \in worker[w].current : \E item \in Decided(w, e) :
          worker' = [worker EXCEPT ![w].pc = "mark", ![w].seen = {},
                                   ![w].made = @ \cup {item}]
    /\ UNCHANGED <<now, tables>>

\* mark_processed: UPDATE outbox.  It waits for a worker that has marked the
\* event and not committed, in a place no newcomer takes, and then marks the
\* event again.
Wanted(w) == {e.id : e \in worker[w].current}
Holds(q, w) == Wanted(w) \cap worker[q].marked # {}
Ahead(q, w) == worker[w].pc = "mark" /\ worker[q].pc = "wait" /\ Wanted(q) = Wanted(w)

Queue(w) ==
    /\ worker[w].pc = "mark"
    /\ \E q \in Workers \ {w} : Holds(q, w)
    /\ \A q \in Workers \ {w} : ~Ahead(q, w)
    /\ worker' = [worker EXCEPT ![w].pc = "wait"]
    /\ UNCHANGED <<now, tables>>

Mark(w) ==
    /\ worker[w].pc \in {"mark", "wait"}
    /\ \A q \in Workers \ {w} : ~Holds(q, w) /\ ~Ahead(q, w)
    /\ worker' = [worker EXCEPT ![w].pc = "next",
                                ![w].batch = @ \ worker[w].current,
                                ![w].current = {},
                                ![w].marked = @ \cup Wanted(w)]
    /\ UNCHANGED <<now, tables>>

\* The commit of the whole batch.
CommitBatch(w) ==
    /\ worker[w].pc = "next"
    /\ worker[w].batch = {}
    /\ items' = items \cup {[i EXCEPT !.no = Cardinality(items)] : i \in worker[w].made}
    /\ processed' = processed \cup worker[w].marked
    /\ worker' = [worker EXCEPT ![w] =
          [Asleep EXCEPT !.pc = IF w \in Feeds THEN "list" ELSE "idle"]]
    /\ UNCHANGED <<now, events, constraints>>

-----------------------------------------------------------------------------
\* release_held_items: the held items whose time has come.
Due(i) == i.status = "held" /\ i.until # None /\ i.until <= now
ReadDue(w) ==
    /\ worker[w].pc = "list"
    /\ LET due == {i \in items : Due(i)}
       IN  worker' = [worker EXCEPT ![w] =
              [Asleep EXCEPT !.pc = IF due = {} THEN "idle" ELSE "release", !.due = due]]
    /\ UNCHANGED <<now, tables>>

\* They are made active, whatever has become of them since.  BugRelease only
\* takes their moment away.
Same(i, j) == i.event = j.event /\ i.no = j.no
BugRelease(w) ==
    /\ worker[w].pc = "release"
    /\ items' = {IF \E d \in worker[w].due : Same(i, d)
                 THEN [i EXCEPT !.until = None] ELSE i : i \in items}
    /\ worker' = [worker EXCEPT ![w] = Asleep]
    /\ UNCHANGED <<now, events, processed, constraints>>
Release(w) ==
    /\ worker[w].pc = "release"
    /\ items' = {IF \E d \in worker[w].due : Same(i, d)
                 THEN [i EXCEPT !.status = "active", !.until = None] ELSE i : i \in items}
    /\ worker' = [worker EXCEPT ![w] = Asleep]
    /\ UNCHANGED <<now, events, processed, constraints>>

\* ack: any item, whatever its status.
Ack(i, status) ==
    /\ items' = (items \ {i}) \cup {[i EXCEPT !.status = status]}
    /\ UNCHANGED <<now, events, processed, constraints, worker>>

-----------------------------------------------------------------------------
\* The request of a worker ends before its commit.  BugAbort leaves behind
\* what it marked.
BugAbort(w) ==
    /\ worker' = [worker EXCEPT ![w] = Asleep]
    /\ processed' = processed \cup worker[w].marked
    /\ UNCHANGED <<now, events, constraints, items>>
Abort(w) ==
    /\ worker' = [worker EXCEPT ![w] = Asleep]
    /\ UNCHANGED <<now, tables>>

Fail(w) == w \in MayFail /\ worker[w].pc # "idle" /\ Abort(w)

\* Postgres cancels one of the workers that wait for each other.
Deadlocked(D) ==
    \A w \in D : \E q \in D \ {w} : (worker[w].pc = "wait" /\ Holds(q, w)) \/ Ahead(q, w)
DeadlockVictim(w) ==
    /\ \E D \in SUBSET Workers : w \in D /\ Deadlocked(D)
    /\ Abort(w)

Step(w) == \/ Handle(w) \/ Synthesize(w) \/ Queue(w) \/ Mark(w) \/ CommitBatch(w)
           \/ ReadDue(w) \/ Release(w)

Next ==
    \/ Tick
    \/ \E p \in People : Mutate(p) \/ SetConstraint(p)
    \/ \E w \in Workers : Poll(w) \/ Step(w) \/ Fail(w) \/ DeadlockVictim(w)
    \/ \E i \in items, status \in {"acked", "dismissed"} : Ack(i, status)

Spec == Init /\ [][Next]_vars

\* The clock goes on, the client asks for the feed again and again, and every
\* worker that does not wait for a row goes on.
FairSpec ==
    /\ Spec
    /\ WF_vars(Tick)
    /\ \A w \in Feeds : WF_vars(Poll(w))
    /\ \A w \in Workers : WF_vars(Step(w)) /\ WF_vars(DeadlockVictim(w))

-----------------------------------------------------------------------------
\* Every table and every worker has the shape the code gives it.
TypeOK ==
    /\ now \in Time
    /\ events \subseteq Event
    /\ processed \subseteq EventId
    /\ constraints \subseteq Constraint
    /\ items \subseteq Item
    /\ worker \in [Workers -> Worker]

\* "logs the opportunity": an event is marked processed together with the item
\* it led to, and not without, whichever batch fails and whoever polls at the
\* same time (process_pending).
FeedExact ==
    /\ \A e \in events : e.kind = "mutation" /\ e.id \in processed =>
          \E i \in items : i.event = e.id
    /\ \A i \in items : \E e \in events :
          e.id = i.event /\ e.kind = "mutation" /\ e.id \in processed

\* What is published after a boundary was set for the person never goes into
\* the feed active while that boundary lasts, although constraints are read
\* before the model is asked and the clock after it (_handle_mutation).
EarlierBoundaryHolds ==
    [][\A w \in Workers : \A i \in worker'[w].made \ worker[w].made :
        i.status = "active" =>
          ~\E c \in constraints : /\ c.subject = i.subject
                                  /\ c.id < i.event
                                  /\ ActiveAt(c, now)]_worker

\* No worker handles an event twice, however often it fails, polls again or is
\* cancelled: an event leads to one item for each worker at most, and to one in
\* all while requests do not overlap (poll_unprocessed and process_pending).
OnePerWorker ==
    \A n \in EventId : Cardinality({i \in items : i.event = n}) <= Cardinality(Workers)

\* Every event is processed in the end, and what is held until some moment is
\* released, as long as the client asks for the feed.
EveryEventProcessed ==
    \A n \in EventId : (\E e \in events : e.id = n) ~> n \in processed
HeldIsReleased ==
    \A n \in EventId, k \in 0..MaxEvents :
        (\E i \in items : i.event = n /\ i.no = k /\ i.status = "held" /\ i.until \in Time \ {None})
            ~> ~(\E i \in items : i.event = n /\ i.no = k /\ i.status = "held")

-----------------------------------------------------------------------------
\* What the documents say and the code does not do.

\* "suppresses all outward suggestions until the window clears": nothing held
\* is released while a constraint of its subject is active.
ReleaseRespectsWindows ==
    [][\A i \in items, j \in items' :
        Same(i, j) /\ i.status = "held" /\ j.status = "active" =>
          ~\E c \in constraints : c.subject = i.subject /\ ActiveAt(c, now)]_items
=============================================================================
