-------------------------------- MODULE Slice --------------------------------
(***************************************************************************)
(* The whole loop in memory: debrief, challenge, outbox, reasoning, feed   *)
(* (src/urie/services/pipeline.py over src/urie/adapters/memory.py), the   *)
(* engine the tests run the system's rules on.                             *)
(*                                                                         *)
(* Nothing it awaits ever suspends, so a call runs to its end before the   *)
(* next one begins; a debrief is one step for each mutation here, and      *)
(* every other call waits for it.  There is no transaction: what a call    *)
(* has written when it raises stays.                                       *)
(***************************************************************************)
EXTENDS FactValues, Resolution, Sequences, FiniteSets

CONSTANTS
    Sessions,     \* the debriefs of a behaviour
    Names,        \* spoken names
    Similarity,   \* Jaro-Winkler of two names, in hundredths
    Recency,      \* exp(-lambda * age) by ticks of age, in hundredths
    Entities,     \* fact types the model uses
    Utterances,   \* what a debrief may say: sequences of mutations
    Accepted,     \* values a caller may pass as accepted_value
    Limit,        \* BOUND of a batch of events
    MaxTime       \* BOUND of the clock

Time == 1 .. MaxTime
Open == 0       \* a window without an end
Garbled == -1   \* a window_end that is no date

EdgeTypes == {"NONE", "HAS_TRAIT", "CONSTRAINED_BY"}
Mutation == [spoken : Names, entity : Entities, value : Value, edge : EdgeTypes,
             until : Time \cup {Open, Garbled}]

ASSUME SliceAssumption ==
    /\ "Constraint" \in Entities
    /\ Utterances \subseteq Seq(Mutation)
    /\ Accepted \subseteq Value
    /\ Similarity \in [Names \X Names -> 0 .. 100]
    /\ \A n \in Names : Similarity[<<n, n>>] = 100
    /\ MaxTime \in Nat \ {0}
    /\ Recency \in [0 .. MaxTime - 1 -> 0 .. 100]
    /\ \A t \in 1 .. MaxTime - 1 : Recency[t] <= Recency[t - 1]
    /\ Limit \in Nat \ {0}

None == 0
Id == Nat \ {None}
Person == [id : Id, name : Names, touched : Time]
FactKinds == {"plain", "trait", "constraint", "resolution"}
Fact == [id : Id, subject : Id, entity : Entities, value : Value,
         kind : FactKinds, supersededBy : Nat]
Constraint == [person : Id, start : Time, end : Time \cup {Open}]
Event == [kind : FactKinds, subject : Id, fact : Id, processed : BOOLEAN]
Item == [event : Id, subject : Id, status : {"held", "active"}, until : Time \cup {Open}]

NoPending == [type |-> "none"]
Challenge == [type : {"challenge"}, subject : Id, entity : Entities,
              existing : Id, candidate : Value]
Session == [status : {"none", "active", "awaiting_resolution", "completed"},
            staged : SUBSET Id,
            pending : {NoPending, [type |-> "ambiguity"]} \cup Challenge]

VARIABLES
    people,        \* Person nodes
    facts,
    constraints,   \* CONSTRAINED_BY edges, in the order they were added
    events,        \* the outbox
    feed,          \* feed items, in the order they were added
    sessions,
    call,          \* the debrief under way: its session, what it has not applied
                   \* yet, and its own list of staged mutations
    now

vars == <<people, facts, constraints, events, feed, sessions, call, now>>

NoCall == [session |-> "none", todo |-> <<>>, staged |-> {}]

Init == /\ people = {} /\ facts = {}
        /\ constraints = <<>> /\ events = <<>> /\ feed = <<>>
        /\ sessions = [s \in Sessions |->
                          [status |-> "none", staged |-> {}, pending |-> NoPending]]
        /\ call = NoCall
        /\ now = 1

-----------------------------------------------------------------------------
\* find_person_candidates, in the order the people were made in.
Candidates(spoken) ==
    {[id |-> p.id, similarity |-> Similarity[<<spoken, p.name>>],
      recency |-> Recency[now - p.touched], place |-> p.id] : p \in people}

\* touch_node.
Touched(p) == {IF q.id = p THEN [q EXCEPT !.touched = now] ELSE q : q \in people}

\* The next mutation of the call, of a kind of edge, and whom it is about:
\* UPSERT touches the person, CREATE makes a new one.  No extractor sends a
\* mutation that names its node, which would skip the resolution.
AtMutation(edges) == call.todo # <<>> /\ Head(call.todo).edge \in edges
Upsert(C, p) ==
    /\ \E c \in C : c.id = p /\ Upserts(C, c)
    /\ people' = Touched(p)
Create(C, p) ==
    /\ Creates(C)
    /\ p = Cardinality(people) + 1
    /\ people' = people \cup {[id |-> p, name |-> Head(call.todo).spoken, touched |-> now]}
About(p) == LET C == Candidates(Head(call.todo).spoken) IN Upsert(C, p) \/ Create(C, p)
Known == 1 .. Cardinality(people) + 1

GetActive(p, e) ==
    LET active == {f \in facts : f.subject = p /\ f.entity = e /\ f.supersededBy = None}
    IN  {f \in active : \A g \in active : g.id <= f.id}

\* A fact with its event; n is its id.
NewFact(n, p, e, v, kind) ==
    [id |-> n, subject |-> p, entity |-> e, value |-> v, kind |-> kind, supersededBy |-> None]
Publish(f) == events' = Append(events, [kind |-> f.kind, subject |-> f.subject,
                                        fact |-> f.id, processed |-> FALSE])
NextFact == Cardinality(facts) + 1

-----------------------------------------------------------------------------
\* start_debrief: the session is stored before the model has parsed anything.
StartDebrief(s, words) ==
    /\ call = NoCall
    /\ sessions[s].status = "none"
    /\ sessions' = [sessions EXCEPT ![s].status = "active"]
    /\ call' = [session |-> s, todo |-> words, staged |-> {}]
    /\ UNCHANGED <<people, facts, constraints, events, feed, now>>

\* The session is saved, with what the call has staged, and returned.
Return(status, pending) ==
    /\ sessions' = [sessions EXCEPT ![call.session] =
          [status |-> status, staged |-> call.staged, pending |-> pending]]
    /\ call' = NoCall

Complete ==
    /\ call # NoCall
    /\ call.todo = <<>>
    /\ Return("completed", NoPending)
    /\ UNCHANGED <<people, facts, constraints, events, feed, now>>

\* CLARIFY: no call of the engine answers it.
AskWho ==
    /\ AtMutation(EdgeTypes)
    /\ Clarifies(Candidates(Head(call.todo).spoken))
    /\ Return("awaiting_resolution", [type |-> "ambiguity"])
    /\ UNCHANGED <<people, facts, constraints, events, feed, now>>

\* A fact of the current mutation, saved, published and staged.
Record(p, entity, kind) ==
    LET f == NewFact(NextFact, p, entity, Head(call.todo).value, kind)
    IN  /\ facts' = facts \cup {f}
        /\ Publish(f)
        /\ call' = [call EXCEPT !.todo = Tail(@), !.staged = @ \cup {f.id}]

Contradicted(p) ==
    {f \in GetActive(p, Head(call.todo).entity) : Contradicts(f.value, Head(call.todo).value)}

\* BugWriteFact does not ask about the active fact.
BugWriteFact ==
    /\ AtMutation({"NONE"})
    /\ \E p \in Known :
          /\ About(p)
          /\ Record(p, Head(call.todo).entity, "plain")
    /\ UNCHANGED <<constraints, feed, sessions, now>>
WriteFact ==
    /\ AtMutation({"NONE"})
    /\ \E p \in Known :
          /\ About(p)
          /\ Contradicted(p) = {}
          /\ Record(p, Head(call.todo).entity, "plain")
    /\ UNCHANGED <<constraints, feed, sessions, now>>

\* What was applied before the challenge stays; what comes after it is dropped.
RaiseChallenge ==
    /\ AtMutation({"NONE"})
    /\ \E p \in Known : \E f \in Contradicted(p) :
          /\ About(p)
          /\ Return("awaiting_resolution",
                    [type |-> "challenge", subject |-> p, entity |-> f.entity,
                     existing |-> f.id, candidate |-> Head(call.todo).value])
    /\ UNCHANGED <<facts, constraints, events, feed, now>>

\* _apply_trait.
WriteTrait ==
    /\ AtMutation({"HAS_TRAIT"})
    /\ \E p \in Known :
          /\ About(p)
          /\ Record(p, Head(call.todo).entity, "trait")
    /\ UNCHANGED <<constraints, feed, sessions, now>>

\* _apply_constraint, in force from now on.  BugWriteConstraint takes any date.
BugWriteConstraint ==
    /\ AtMutation({"CONSTRAINED_BY"})
    /\ \E p \in Known :
          /\ About(p)
          /\ Record(p, "Constraint", "constraint")
          /\ constraints' = Append(constraints,
                [person |-> p, start |-> now, end |-> Head(call.todo).until])
    /\ UNCHANGED <<feed, sessions, now>>
WriteConstraint ==
    /\ AtMutation({"CONSTRAINED_BY"})
    /\ Head(call.todo).until # Garbled
    /\ \E p \in Known :
          /\ About(p)
          /\ Record(p, "Constraint", "constraint")
          /\ constraints' = Append(constraints,
                [person |-> p, start |-> now, end |-> Head(call.todo).until])
    /\ UNCHANGED <<feed, sessions, now>>

\* fromisoformat raises, after the person was found or made: the session stays
\* active, without the mutations that were applied.
Raise ==
    /\ AtMutation({"CONSTRAINED_BY"})
    /\ Head(call.todo).until = Garbled
    /\ \E p \in Known : About(p)
    /\ call' = NoCall
    /\ UNCHANGED <<facts, constraints, events, feed, sessions, now>>

-----------------------------------------------------------------------------
\* mark_superseded.
Supersede(table, old, new) ==
    {IF f.id = old THEN [f EXCEPT !.supersededBy = new] ELSE f : f \in table}

\* resolve_challenge.  An ambiguity has no subject_node_id: the call raises
\* before it changes anything.
StagedAfter(s, n) == sessions[s].staged \cup {n}
ResolveChallenge(s) ==
    /\ call = NoCall
    /\ sessions[s].pending.type = "challenge"
    /\ LET c == sessions[s].pending
       IN  \E value \in Accepted \cup {c.candidate}, note \in Notes :
              LET f == NewFact(NextFact, c.subject, c.entity, Annotate(value, note), "resolution")
              IN  /\ facts' = Supersede(facts, c.existing, f.id) \cup {f}
                  /\ people' = Touched(c.subject)
                  /\ Publish(f)
                  /\ sessions' = [sessions EXCEPT ![s] =
                        [status |-> "completed", staged |-> StagedAfter(s, f.id),
                         pending |-> NoPending]]
    /\ UNCHANGED <<constraints, feed, call, now>>

-----------------------------------------------------------------------------
\* is_active_at.
ActiveAt(c, t) == c.start <= t /\ (c.end = Open \/ t < c.end)
\* blocking_constraint: the first of the person's constraints that is active.
\* BugBlockers looks at the first constraint only.
Of(p) == {i \in DOMAIN constraints : constraints[i].person = p}
BugBlockers(p) ==
    {i \in Of(p) : ActiveAt(constraints[i], now) /\ \A j \in Of(p) : i <= j}
Blockers(p) ==
    LET active == {i \in Of(p) : ActiveAt(constraints[i], now)}
    IN  {i \in active : \A j \in active : i <= j}

\* _handle_mutation: an item, held while the first blocking window lasts.
NewItem(i) ==
    LET p == events[i].subject
        held == Blockers(p) # {}
    IN  [event |-> i, subject |-> p, status |-> IF held THEN "held" ELSE "active",
         until |-> IF held THEN constraints[CHOOSE b \in Blockers(p) : TRUE].end ELSE Open]

\* process_reasoning: the oldest unprocessed events, each marked once its item
\* is in the feed; a constraint has none.  BugBatch takes processed events again.
Unprocessed == {i \in DOMAIN events : ~events[i].processed}
BugBatch == {i \in DOMAIN events : i <= Limit}
Batch == {i \in Unprocessed : Cardinality({j \in Unprocessed : j < i}) < Limit}
Worth == {i \in Batch : events[i].kind # "constraint"}
Place(i) == Cardinality({j \in Worth : j <= i})
ProcessReasoning ==
    /\ call = NoCall
    /\ Unprocessed # {}
    /\ feed' = feed \o [k \in 1 .. Cardinality(Worth) |->
                         NewItem(CHOOSE i \in Worth : Place(i) = k)]
    /\ events' = [i \in DOMAIN events |->
                    [events[i] EXCEPT !.processed = @ \/ i \in Batch]]
    /\ UNCHANGED <<people, facts, constraints, sessions, call, now>>

\* release_held, which list_feed begins with.  BugDue waits a moment more.
BugDue(item) == item.status = "held" /\ item.until # Open /\ item.until < now
Due(item) == item.status = "held" /\ item.until # Open /\ item.until <= now
ReleaseHeld ==
    /\ call = NoCall
    /\ \E i \in DOMAIN feed : Due(feed[i])
    /\ feed' = [i \in DOMAIN feed |->
          IF Due(feed[i]) THEN [feed[i] EXCEPT !.status = "active", !.until = Open] ELSE feed[i]]
    /\ UNCHANGED <<people, facts, constraints, events, sessions, call, now>>

Tick ==
    /\ now < MaxTime
    /\ now' = now + 1
    /\ UNCHANGED <<people, facts, constraints, events, feed, sessions, call>>

Step == Complete \/ AskWho \/ WriteFact \/ RaiseChallenge \/ WriteTrait \/ WriteConstraint \/ Raise

Next == \/ \E s \in Sessions, words \in Utterances : StartDebrief(s, words)
        \/ Step
        \/ \E s \in Sessions : ResolveChallenge(s)
        \/ ProcessReasoning \/ ReleaseHeld \/ Tick

Spec == Init /\ [][Next]_vars

\* Calls run to their end, and the caller asks for reasoning and the feed again
\* and again while time goes on.
FairSpec == Spec /\ WF_vars(Step) /\ WF_vars(ProcessReasoning) /\ WF_vars(ReleaseHeld)
                 /\ WF_vars(Tick)

-----------------------------------------------------------------------------
\* Every record has the shape the engine gives it.
TypeOK ==
    /\ people \subseteq Person
    /\ facts \subseteq Fact
    /\ constraints \in Seq(Constraint)
    /\ events \in Seq(Event)
    /\ feed \in Seq(Item)
    /\ sessions \in [Sessions -> Session]
    /\ call = NoCall \/ (call.session \in Sessions /\ call.staged \subseteq Id)
    /\ now \in Time

\* From what is said to the feed nothing is lost and nothing said twice: a fact
\* has one event, a processed event of anything but a constraint has one item,
\* about the same person, and there are no others, in whatever batches the
\* events are taken and wherever a debrief raises.
ItemsOf(i) == {k \in DOMAIN feed : feed[k].event = i}
FeedExact ==
    /\ \A f \in facts : \E i \in DOMAIN events :
          /\ events[i].fact = f.id /\ events[i].kind = f.kind /\ events[i].subject = f.subject
          /\ \A j \in DOMAIN events : events[j].fact = f.id => j = i
    /\ Len(events) = Cardinality(facts)
    /\ \A i \in DOMAIN events :
          Cardinality(ItemsOf(i)) = IF events[i].processed /\ events[i].kind # "constraint"
                                    THEN 1 ELSE 0
    /\ \A k \in DOMAIN feed : /\ feed[k].event \in DOMAIN events
                              /\ feed[k].subject = events[feed[k].event].subject

\* "Suppress all outward suggestions": what is new in the feed is visible only
\* if no constraint of the person is in force, whichever of them it was said in
\* and whatever was said before it in the same debrief; and what is held waits
\* for the end of one that is.
BornQuiet ==
    [][\A k \in DOMAIN feed' \ DOMAIN feed :
          LET inForce == {i \in Of(feed'[k].subject) : ActiveAt(constraints[i], now)}
          IN  IF feed'[k].status = "active" THEN inForce = {}
              ELSE \E i \in inForce : feed'[k].until = constraints[i].end]_vars

\* One person is never in the book twice: somebody is added only under a name
\* that is not within 0.90 of anybody's, although a name is compared by a score
\* that fades with time.
NamesApart == \A p, q \in people : p.id < q.id => Similarity[<<q.name, p.name>>] < 90

\* The engine keeps the promises of the book, like the service it stands for.
How(kind) == CASE kind = "plain"                   -> "said"
               [] kind \in {"trait", "constraint"} -> "noted"
               [] kind = "resolution"              -> "verified"
Entry(f) == [id |-> f.id, subject |-> f.subject, entity |-> f.entity, value |-> f.value,
             how |-> How(f.kind), next |-> f.supersededBy]
Book == INSTANCE FactBook WITH book <- {Entry(f) : f \in facts}
ImplementsBook == Book!Spec

\* What is said surfaces: sooner or later every fact that is not a constraint
\* has an item that is visible, or held by a constraint without an end.
Surfaced ==
    \A f \in facts : f.kind # "constraint" =>
        \E k \in DOMAIN feed : /\ events[feed[k].event].fact = f.id
                               /\ feed[k].status = "active" \/ feed[k].until = Open
EverythingSurfaces == <>[]Surfaced
=============================================================================
