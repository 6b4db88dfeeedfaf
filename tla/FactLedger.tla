----------------------------- MODULE FactLedger -----------------------------
(***************************************************************************)
(* Ingestion: how what an agent says becomes facts                         *)
(* (src/urie/services/ingestion.py over Postgres).                         *)
(*                                                                         *)
(* A debrief is one request.  Each mutation the model extracted from it is *)
(* resolved to a person, compared with the active fact of the same subject *)
(* and entity, and written, or the debrief stops with a challenge that a   *)
(* later request answers.  Every request is one READ COMMITTED transaction *)
(* ended by one commit: it sees what others committed and what it wrote    *)
(* itself, and an UPDATE holds its row until the end.                      *)
(*                                                                         *)
(* A table is a set of rows.  Fact ids are given in the order the Fact     *)
(* objects are made in, which is the order of their created_at.            *)
(***************************************************************************)
EXTENDS FactValues, Sequences, FiniteSets

CONSTANTS
    Requests,       \* the POST /debriefs and /resolve requests of a behaviour
    Names,          \* spoken names, up to a near-exact match
    Entities,       \* fact types the model uses
    Utterances,     \* what a debrief may say: sequences of mutations
    InitialNodes,   \* people the agent already had
    FirstNode,      \* the first node id none of them has
    Accepted,       \* values a client may send as accepted_value
    Redirects,      \* nodes a client may send as resolved_node_id
    Concurrency     \* BOUND: requests in flight at once (the connection pool)

None == 0
Id == Nat \ {None}

Node == [id : Id, name : Names]

EdgeTypes == {"NONE", "HAS_TRAIT", "CONSTRAINED_BY"}
Mutation == [spoken : Names, entity : Entities, value : Value, edge : EdgeTypes]

ASSUME LedgerAssumption ==
    /\ "Constraint" \in Entities
    /\ Utterances \subseteq Seq(Mutation)
    /\ InitialNodes \subseteq Node
    /\ FirstNode \in Id
    /\ \A n \in InitialNodes : n.id < FirstNode
    /\ Accepted \subseteq Value
    /\ Redirects \subseteq Id

FactKinds == {"plain", "trait", "constraint", "resolution"}
Fact == [id : Id, subject : Id, entity : Entities, value : Value,
         kind : FactKinds, supersededBy : Nat]

EventKinds == {"fact_written", "trait_added", "constraint_added", "fact_superseded"}
Event == [kind : EventKinds, fact : Id, old : Nat]

Statuses == {"none", "awaiting_resolution", "completed"}
NoPending == [type |-> "none"]
Challenge == [type : {"challenge"}, subject : Id, entity : Entities,
              existing : Id, candidate : Value]
Ambiguity == [type : {"ambiguity"}, mutation : Mutation]
Pending == {NoPending} \cup Challenge \cup Ambiguity
Session == [status : Statuses, transcript : Seq(Mutation), staged : SUBSET Id,
            pending : Pending]

VARIABLES
    nodes,      \* committed Person nodes
    facts,      \* committed facts
    sessions,   \* debrief sessions, named by the request that started them
    outbox,     \* committed outbox events
    txn,        \* what each request is doing, and its uncommitted writes
    nextNode, nextFact   \* the next ids

tables == <<nodes, facts, sessions, outbox>>
vars == <<nodes, facts, sessions, outbox, txn, nextNode, nextFact>>

\* Rows an UPDATE locks.
Row == ({"node", "fact"} \X Id) \cup ({"session"} \X Requests)

Steps == {"next", "touch", "write", "claim", "supersede", "settle"}
PCs == Steps \cup {"idle", "done", "failed"}
Txn == [pc : PCs,
        origin : {"debrief", "ambiguity", "challenge"},
        session : Requests,
        words : Seq(Mutation),   \* the transcript of a new session
        todo : Seq(Mutation),    \* mutations not applied yet
        subject : Nat,           \* the node the current mutation is about
        old : Nat,               \* the fact a resolution supersedes
        staged : SUBSET Id,      \* staged_mutations as this request has them
        nodes : SUBSET Node, facts : SUBSET Fact, events : SUBSET Event,
        locks : SUBSET Row]

-----------------------------------------------------------------------------
\* What a statement of request r sees.
VisibleNodes(r) == nodes \cup txn[r].nodes
VisibleFacts(r) == facts \cup txn[r].facts

\* get_active: the newest active fact of a subject and entity, as a set of at
\* most one.
Newest(rows) == {f \in rows : \A g \in rows : g.id <= f.id}
GetActive(table, p, e) ==
    Newest({f \in table : f.subject = p /\ f.entity = e /\ f.supersededBy = None})

Busy(r) == txn[r].pc \in Steps
InFlight == {r \in Requests : Busy(r)}

\* The row a request must update before it can go on, and whether it may.
Wanted(r) ==
    CASE txn[r].pc = "touch"     -> {<<"node", txn[r].subject>>}
      [] txn[r].pc = "supersede" -> {<<"fact", txn[r].old>>}
      [] txn[r].pc \in {"claim", "settle"} -> {<<"session", txn[r].session>>}
      [] OTHER -> {}
Free(r) == \A q \in Requests \ {r} : Wanted(r) \cap txn[q].locks = {}

-----------------------------------------------------------------------------
NoSession == [status |-> "none", transcript |-> <<>>, staged |-> {},
              pending |-> NoPending]
Idle(r) == [pc |-> "idle", origin |-> "debrief", session |-> r, words |-> <<>>,
            todo |-> <<>>, subject |-> None, old |-> None, staged |-> {},
            nodes |-> {}, facts |-> {}, events |-> {}, locks |-> {}]
\* The session of the database is closed with the request: its transaction is
\* over and its rows are free.  BugEnded leaves it open.
BugEnded(r, how) == [txn[r] EXCEPT !.pc = how]
Ended(r, how) == [Idle(r) EXCEPT !.pc = how]

Init == /\ nodes = InitialNodes
        /\ facts = {}
        /\ sessions = [s \in Requests |-> NoSession]
        /\ outbox = {}
        /\ txn = [r \in Requests |-> Idle(r)]
        /\ nextNode = FirstNode
        /\ nextFact = 1

-----------------------------------------------------------------------------
\* start_debrief: the session row is inserted, unseen by others until the
\* commit, and the mutations the model extracted are taken one by one.
StartDebrief(r, words) ==
    /\ txn[r].pc = "idle"
    /\ Cardinality(InFlight) < Concurrency
    /\ txn' = [txn EXCEPT ![r].pc = "next", ![r].words = words, ![r].todo = words]
    /\ UNCHANGED <<tables, nextNode, nextFact>>

\* mark_superseded at the commit: the last resolution to come wins.
\* BugReplace deletes the fact instead; BugPointer points it at itself; BugFirst
\* updates active facts only.
BugReplace(table, old, new) == {f \in table : f.id # old}
BugPointer(table, old, new) ==
    {IF f.id = old THEN [f EXCEPT !.supersededBy = old] ELSE f : f \in table}
BugFirst(table, old, new) ==
    {IF f.id = old /\ f.supersededBy = None THEN [f EXCEPT !.supersededBy = new] ELSE f :
        f \in table}
Supersede(table, old, new) ==
    {IF f.id = old THEN [f EXCEPT !.supersededBy = new] ELSE f : f \in table}

\* The commit: everything the request wrote becomes visible at once, together
\* with the new status and challenge of its session.  An unchanged
\* staged_mutations is not part of the UPDATE.
Commit(r, status, pending) ==
    /\ facts' = txn[r].facts \cup
                (IF txn[r].old = None THEN facts
                 ELSE Supersede(facts, txn[r].old, (CHOOSE f \in txn[r].facts : TRUE).id))
    /\ nodes' = VisibleNodes(r)
    /\ outbox' = outbox \cup txn[r].events
    /\ sessions' = [sessions EXCEPT ![txn[r].session] =
          [status |-> status,
           transcript |-> IF txn[r].origin = "debrief" THEN txn[r].words ELSE @.transcript,
           staged |-> IF txn[r].facts = {} THEN @.staged ELSE txn[r].staged,
           pending |-> pending]]
    /\ txn' = [txn EXCEPT ![r] = Ended(r, "done")]
    /\ UNCHANGED <<nextNode, nextFact>>

\* The end of the mutation loop.  BugComplete writes a status that is no member
\* of the enumeration.
BugComplete(r) ==
    /\ txn[r].pc = "next"
    /\ txn[r].todo = <<>>
    /\ Commit(r, "complete", NoPending)
Complete(r) ==
    /\ txn[r].pc = "next"
    /\ txn[r].todo = <<>>
    /\ Commit(r, "completed", NoPending)

-----------------------------------------------------------------------------
\* resolve_entity.  The scores are not modelled, what they can lead to is:
\* with the shipped weights nothing but a near-exact name passes 0.85, two
\* near-exact names are not told apart unless a third person scores between
\* them, and a person who is not near-exact may score 0.45 or less.
AtMutation(r) == txn[r].pc = "next" /\ txn[r].todo # <<>>
NearExact(r) ==
    {n.id : n \in {m \in VisibleNodes(r) : m.name = Head(txn[r].todo).spoken}}
Others(r) == {n.id : n \in VisibleNodes(r)} \ NearExact(r)

\* UPSERT: the node is touched before any fact about it is read.
\* BugFindPerson does not touch it.
BugFindPerson(r) ==
    /\ AtMutation(r)
    /\ \E i \in NearExact(r) :
          /\ NearExact(r) = {i} \/ Cardinality(VisibleNodes(r)) > 2
          /\ txn' = [txn EXCEPT ![r].pc = "write", ![r].subject = i]
    /\ UNCHANGED <<tables, nextNode, nextFact>>
FindPerson(r) ==
    /\ AtMutation(r)
    /\ \E i \in NearExact(r) :
          /\ NearExact(r) = {i} \/ Cardinality(VisibleNodes(r)) > 2
          /\ txn' = [txn EXCEPT ![r].pc = "touch", ![r].subject = i]
    /\ UNCHANGED <<tables, nextNode, nextFact>>

\* CLARIFY: the session waits for the agent to name the person; what is left
\* of the utterance is dropped.
AskWho(r) ==
    /\ AtMutation(r)
    /\ Cardinality(NearExact(r)) > 1 \/ Others(r) # {}
    /\ Commit(r, "awaiting_resolution",
              [type |-> "ambiguity", mutation |-> Head(txn[r].todo)])

\* CREATE: a node only this request can see yet.
CreatePerson(r) ==
    /\ AtMutation(r)
    /\ NearExact(r) = {}
    /\ txn' = [txn EXCEPT ![r].pc = "write", ![r].subject = nextNode,
          ![r].nodes = @ \cup {[id |-> nextNode, name |-> Head(txn[r].todo).spoken]}]
    /\ nextNode' = nextNode + 1
    /\ UNCHANGED <<tables, nextFact>>

\* touch_node: UPDATE nodes, which waits for whoever updated the node last.
Touch(r) ==
    /\ txn[r].pc = "touch"
    /\ Free(r)
    /\ txn' = [txn EXCEPT
          ![r].pc = CASE txn[r].origin = "debrief"   -> "write"
                      [] txn[r].origin = "ambiguity" -> "claim"
                      [] txn[r].origin = "challenge" -> "settle",
          ![r].locks = @ \cup Wanted(r)]
    /\ UNCHANGED <<tables, nextNode, nextFact>>

-----------------------------------------------------------------------------
\* One fact with its outbox event and its staged entry.
Record(r, entity, kind, event) ==
    LET m == Head(txn[r].todo)
        row == [id |-> nextFact, subject |-> txn[r].subject, entity |-> entity,
                value |-> Stored(m.value), kind |-> kind, supersededBy |-> None]
    IN  /\ txn' = [txn EXCEPT
              ![r].pc = "next", ![r].todo = Tail(@), ![r].subject = None,
              ![r].facts = @ \cup {row},
              ![r].staged = @ \cup {nextFact},
              ![r].events = @ \cup {[kind |-> event, fact |-> nextFact, old |-> None]}]
        /\ nextFact' = nextFact + 1
        /\ UNCHANGED <<tables, nextNode>>

\* _apply_constraint and _apply_trait: nothing is compared.
WriteConstraint(r) ==
    /\ txn[r].pc = "write"
    /\ Head(txn[r].todo).edge = "CONSTRAINED_BY"
    /\ Record(r, "Constraint", "constraint", "constraint_added")

WriteTrait(r) ==
    /\ txn[r].pc = "write"
    /\ Head(txn[r].todo).edge = "HAS_TRAIT"
    /\ Record(r, Head(txn[r].todo).entity, "trait", "trait_added")

\* detect_contradiction: the active facts the current mutation contradicts.
Contradicted(r) ==
    LET m == Head(txn[r].todo)
    IN  {f \in GetActive(VisibleFacts(r), txn[r].subject, m.entity) :
            Contradicts(f.value, m.value)}

\* BugWriteFact does not ask about the active fact.
BugWriteFact(r) ==
    /\ txn[r].pc = "write"
    /\ Head(txn[r].todo).edge = "NONE"
    /\ Record(r, Head(txn[r].todo).entity, "plain", "fact_written")
WriteFact(r) ==
    /\ txn[r].pc = "write"
    /\ Head(txn[r].todo).edge = "NONE"
    /\ Contradicted(r) = {}
    /\ Record(r, Head(txn[r].todo).entity, "plain", "fact_written")

\* The debrief stops with a challenge; what is left of it is dropped.
RaiseChallenge(r) ==
    /\ txn[r].pc = "write"
    /\ Head(txn[r].todo).edge = "NONE"
    /\ \E f \in Contradicted(r) :
          Commit(r, "awaiting_resolution",
                 [type |-> "challenge", subject |-> f.subject, entity |-> f.entity,
                  existing |-> f.id, candidate |-> Stored(Head(txn[r].todo).value)])

-----------------------------------------------------------------------------
\* staged_mutations as a request that answers session s begins with them.
\* BugStagedBefore begins with an empty list.
BugStagedBefore(s) == {}
StagedBefore(s) == sessions[s].staged

\* resolve_challenge, up to the UPDATE of the superseded fact: the challenge is
\* read, without a look at the session's status, and the fact that answers it
\* is inserted.  A node the client sends replaces the challenged subject.
ReadChallenge(r, s) ==
    /\ txn[r].pc = "idle"
    /\ Cardinality(InFlight) < Concurrency
    /\ sessions[s].pending.type = "challenge"
    /\ \E accepted \in Accepted \cup {sessions[s].pending.candidate}, note \in Notes,
          subject \in (Redirects \cap {n.id : n \in nodes}) \cup {sessions[s].pending.subject} :
          txn' = [txn EXCEPT
            ![r].pc = "supersede", ![r].origin = "challenge", ![r].session = s,
            ![r].subject = subject, ![r].old = sessions[s].pending.existing,
            ![r].staged = StagedBefore(s) \cup {nextFact},
            ![r].facts = {[id |-> nextFact, subject |-> subject,
                           entity |-> sessions[s].pending.entity,
                           value |-> Stored(Annotate(accepted, note)),
                           kind |-> "resolution", supersededBy |-> None]},
            ![r].events = {[kind |-> "fact_superseded", fact |-> nextFact,
                            old |-> sessions[s].pending.existing]}]
    /\ nextFact' = nextFact + 1
    /\ UNCHANGED <<tables, nextNode>>

\* mark_superseded: UPDATE facts, whoever superseded the fact before; the node
\* is touched next.  BugMarkSuperseded does not touch it.
BugMarkSuperseded(r) ==
    /\ txn[r].pc = "supersede"
    /\ Free(r)
    /\ txn' = [txn EXCEPT ![r].pc = "settle", ![r].locks = @ \cup Wanted(r)]
    /\ UNCHANGED <<tables, nextNode, nextFact>>
MarkSuperseded(r) ==
    /\ txn[r].pc = "supersede"
    /\ Free(r)
    /\ txn' = [txn EXCEPT ![r].pc = "touch", ![r].locks = @ \cup Wanted(r)]
    /\ UNCHANGED <<tables, nextNode, nextFact>>

\* The session row is updated and the resolution committed.
Settle(r) ==
    /\ txn[r].pc = "settle"
    /\ Free(r)
    /\ Commit(r, "completed", NoPending)

\* resolve_ambiguity: the person is a node the client chose or a new one, and
\* the mutation that waited goes through the pipeline again, already resolved.
ReadAmbiguity(r, s) ==
    /\ txn[r].pc = "idle"
    /\ Cardinality(InFlight) < Concurrency
    /\ sessions[s].pending.type = "ambiguity"
    /\ LET m == sessions[s].pending.mutation
           begun == [txn[r] EXCEPT !.origin = "ambiguity", !.session = s,
                                   !.todo = <<m>>, !.staged = StagedBefore(s)]
       IN  \/ /\ \E n \in nodes :
                    txn' = [txn EXCEPT ![r] = [begun EXCEPT !.pc = "touch", !.subject = n.id]]
              /\ UNCHANGED nextNode
           \/ /\ txn' = [txn EXCEPT ![r] = [begun EXCEPT !.pc = "claim", !.subject = nextNode,
                              !.nodes = {[id |-> nextNode, name |-> m.spoken]}]]
              /\ nextNode' = nextNode + 1
    /\ UNCHANGED <<tables, nextFact>>

\* The session row is updated before the mutation is processed.
Claim(r) ==
    /\ txn[r].pc = "claim"
    /\ Free(r)
    /\ txn' = [txn EXCEPT ![r].pc = "write", ![r].locks = @ \cup Wanted(r)]
    /\ UNCHANGED <<tables, nextNode, nextFact>>

-----------------------------------------------------------------------------
\* The request fails before its commit: the model or the database raised, the
\* client went away, the process died.  Nothing it wrote remains.  BugFail
\* leaves its events behind.
BugFail(r) ==
    /\ Busy(r)
    /\ txn' = [txn EXCEPT ![r] = Ended(r, "failed")]
    /\ outbox' = outbox \cup txn[r].events
    /\ UNCHANGED <<nodes, facts, sessions, nextNode, nextFact>>
Fail(r) ==
    /\ Busy(r)
    /\ txn' = [txn EXCEPT ![r] = Ended(r, "failed")]
    /\ UNCHANGED <<tables, nextNode, nextFact>>

\* Requests that all wait for a row another of them holds.
Deadlocked(D) ==
    \A r \in D : \E q \in D \ {r} : Wanted(r) \cap txn[q].locks # {}

\* Postgres cancels one of them.
DeadlockVictim(r) ==
    /\ \E D \in SUBSET InFlight : r \in D /\ Deadlocked(D)
    /\ Fail(r)

Step(r) == \/ Complete(r) \/ FindPerson(r) \/ AskWho(r) \/ CreatePerson(r) \/ Touch(r)
           \/ WriteConstraint(r) \/ WriteTrait(r) \/ WriteFact(r) \/ RaiseChallenge(r)
           \/ MarkSuperseded(r) \/ Settle(r) \/ Claim(r)

Next == \E r \in Requests :
            \/ \E words \in Utterances : StartDebrief(r, words)
            \/ \E s \in Requests : ReadChallenge(r, s) \/ ReadAmbiguity(r, s)
            \/ Step(r)
            \/ Fail(r)
            \/ DeadlockVictim(r)

Spec == Init /\ [][Next]_vars

\* asyncio runs every request that can go on, and Postgres looks for deadlocks.
FairSpec == /\ Spec
            /\ \A r \in Requests : WF_vars(Step(r)) /\ WF_vars(DeadlockVictim(r))

-----------------------------------------------------------------------------
\* Every table and every transaction has the shape the code gives it.
TypeOK ==
    /\ nodes \subseteq Node
    /\ facts \subseteq Fact
    /\ sessions \in [Requests -> Session]
    /\ outbox \subseteq Event
    /\ txn \in [Requests -> Txn]
    /\ nextNode \in Id
    /\ nextFact \in Id

\* superseded_by always leads to a committed conflict resolution made later, so
\* following it from any fact ends at an active one: no dangling pointer and no
\* cycle, whichever resolutions race (mark_superseded in resolve_challenge).
SupersededByLater ==
    \A f \in facts : f.supersededBy # None =>
        \E g \in facts : /\ g.id = f.supersededBy
                         /\ g.kind = "resolution"
                         /\ f.id < g.id

\* "Supersede requires same subject + entity": a challenge that waits while
\* others are answered never leads one history into another.  It holds when no
\* client sends a resolved_node_id with the answer to a challenge (Redirects).
SupersededBySame ==
    \A f, g \in facts : f.supersededBy = g.id =>
        f.subject = g.subject /\ f.entity = g.entity

\* The outbox tells of exactly the facts that were committed: an event for each
\* of them and for no other, and a fact_superseded event only once the old
\* fact is no longer active.  "The reasoning plane never fires on a half-written
\* state", although requests fail half-way.
EventFor(kind) == CASE kind = "plain"      -> "fact_written"
                    [] kind = "trait"      -> "trait_added"
                    [] kind = "constraint" -> "constraint_added"
                    [] kind = "resolution" -> "fact_superseded"
OutboxExact ==
    /\ \A f \in facts : \E e \in outbox : e.fact = f.id
    /\ \A e \in outbox :
          /\ \E f \in facts : f.id = e.fact /\ e.kind = EventFor(f.kind)
          /\ e.kind = "fact_superseded" =>
                \E f \in facts : f.id = e.old /\ f.supersededBy # None

\* A challenge can be answered whatever happened since it was raised: the fact
\* it is about exists, and is about the same subject and entity.
ChallengeGrounded ==
    \A s \in Requests : sessions[s].pending.type = "challenge" =>
        \E f \in facts : /\ f.id = sessions[s].pending.existing
                         /\ f.subject = sessions[s].pending.subject
                         /\ f.entity = sessions[s].pending.entity

\* A session waits exactly while it has something to be answered, also when two
\* answers to it race.
AwaitingIffPending ==
    \A s \in Requests :
        sessions[s].status = "awaiting_resolution" <=> sessions[s].pending # NoPending

\* "Never silently overwrite": a plain fact that is committed does not
\* contradict the active fact before it, be that a committed one, of whichever
\* request, or one of its own debrief.  Concurrent debriefs about one person are
\* kept from it by the node row they both touch before they read.
NoSilentOverwrite ==
    [][\A b \in facts' \ facts : b.kind = "plain" /\ b.supersededBy = None =>
        \A a \in GetActive(facts \cup {f \in facts' : f.id < b.id}, b.subject, b.entity) :
            ~Contradicts(a.value, b.value)]_facts

\* "Old facts are never deleted": a committed fact stays as it was written, and
\* once superseded never becomes active again.
HistoryKept ==
    [][\A f \in facts : \E g \in facts' :
          /\ g = [f EXCEPT !.supersededBy = g.supersededBy]
          /\ f.supersededBy # None => g.supersededBy # None]_facts

\* The facts as entries of the abstract book.
How(kind) == CASE kind = "plain"                   -> "said"
               [] kind \in {"trait", "constraint"} -> "noted"
               [] kind = "resolution"              -> "verified"
Entry(f) == [id |-> f.id, subject |-> f.subject, entity |-> f.entity, value |-> f.value,
             how |-> How(f.kind), next |-> f.supersededBy]
Book == INSTANCE FactBook WITH book <- {Entry(f) : f \in facts}

\* Ingestion keeps the promises of the book, however requests interleave: every
\* commit adds what was said or answers one entry, and does nothing else to the
\* facts.  It holds when no client sends a resolved_node_id with the answer to a
\* challenge (Redirects).
ImplementsBook == Book!Spec

\* Every fact is on the staged_mutations list of one session, and the lists
\* name nothing else.
StagedExact ==
    /\ \A f \in facts : \E s \in Requests : f.id \in sessions[s].staged
    /\ \A s \in Requests : \A i \in sessions[s].staged :
          /\ \E f \in facts : f.id = i
          /\ \A q \in Requests \ {s} : i \notin sessions[q].staged

\* Every request ends, although debriefs about several people wait for each
\* other's rows.
EveryRequestEnds == \A r \in Requests : Busy(r) ~> ~Busy(r)

\* Once get_active agrees with what the agent verified last it goes on to, until
\* the next answer, whichever mentions and answers interleave: a mention that read
\* the challenged fact before the answer cannot commit after it, and a chain of
\* agreeing mentions does not lead away.  What detect_contradiction is not asked
\* about can: a trait or constraint, and a null, which contradicts nothing.  An
\* answer that commits behind a newer mention never agreed.  It holds when no
\* client sends a resolved_node_id with the answer to a challenge (Redirects).
LastAnswer(table, p, e) ==
    Newest({f \in table : /\ f.subject = p /\ f.entity = e
                          /\ f.kind = "resolution" /\ f.supersededBy = None})
Agreed(table, f) ==
    \A g \in GetActive(table, f.subject, f.entity) :
        g.value.shape # "null" /\ ~Contradicts(f.value, g.value)
Uncompared(new, f) ==
    \E k \in new : /\ k.subject = f.subject /\ k.entity = f.entity /\ k.supersededBy = None
                   /\ \/ k.value.shape = "null"
                      \/ k.kind \in {"trait", "constraint"} /\ Contradicts(f.value, k.value)
VerifiedStands ==
    [][\A f \in facts \cap facts' :
          /\ f \in LastAnswer(facts, f.subject, f.entity)
          /\ f \in LastAnswer(facts', f.subject, f.entity)
          /\ Agreed(facts, f)
          => Agreed(facts', f) \/ Uncompared(facts' \ facts, f)]_facts
=============================================================================
