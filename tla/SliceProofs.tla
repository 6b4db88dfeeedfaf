---------------------------- MODULE SliceProofs ----------------------------
(***************************************************************************)
(* Proofs about Slice for any debriefs, names, similarities, batches and   *)
(* moments: whom a name means, what the feed holds, who is in the book,    *)
(* and that the engine implements FactBook.                                *)
(***************************************************************************)
EXTENDS Slice, FiniteSetTheorems, TLAPS

-----------------------------------------------------------------------------
\* Whom a name means (Resolution): the guards that FactLedger puts on FindPerson,
\* AskWho and CreatePerson, too.

\* The arithmetic of the weights.
LEMMA Weights ==
    ASSUME NEW s \in 0 .. 100, NEW r \in 0 .. 100
    PROVE  /\ 50 * s + 20 * r \in Nat
           /\ 50 * s + 20 * r < 8500
           /\ s >= 98 => 50 * s + 20 * r >= 4500
           /\ 50 * s + 20 * r < 4500 => s < 90
<1>1. s \in Int /\ r \in Int /\ 0 <= s /\ s <= 100 /\ 0 <= r /\ r <= 100
  OBVIOUS
<1> QED
  BY <1>1

LEMMA ScoreBounds ==
    ASSUME NEW c \in Candidate
    PROVE  /\ c.similarity \in 0 .. 100
           /\ Score(c) \in Nat
           /\ Score(c) < 8500
           /\ NearExact(c) => Score(c) >= 4500
           /\ Score(c) < 4500 => c.similarity < 90
<1>1. c.similarity \in 0 .. 100 /\ c.recency \in 0 .. 100
  BY DEF Candidate
<1>2. /\ Score(c) \in Nat
      /\ Score(c) < 8500
      /\ c.similarity >= 98 => Score(c) >= 4500
      /\ Score(c) < 4500 => c.similarity < 90
  <2> DEFINE s == c.similarity
             r == c.recency
  <2> HIDE DEF s, r
  <2>1. s \in 0 .. 100 /\ r \in 0 .. 100
    BY <1>1 DEF s, r
  <2>2. /\ 50 * s + 20 * r \in Nat
        /\ 50 * s + 20 * r < 8500
        /\ s >= 98 => 50 * s + 20 * r >= 4500
        /\ 50 * s + 20 * r < 4500 => s < 90
    BY <2>1, Weights
  <2>3. Score(c) = 50 * s + 20 * r /\ c.similarity = s
    BY DEF Score, s, r
  <2> QED
    BY <2>2, <2>3
<1> QED
  BY <1>1, <1>2 DEF NearExact

\* "Near-exact name/alias match: upsert even if ... below 0.85": nothing else
\* is ever upserted, the other branch being out of reach of the shipped weights.
THEOREM UpsertIsNearExact ==
    ASSUME NEW C \in SUBSET Candidate, NEW c \in C, Upserts(C, c)
    PROVE  NearExact(c)
<1>1. ~ (Score(c) >= 8500)
  BY ScoreBounds
<1> QED
  BY <1>1 DEF Upserts

\* Of two people who are both near-exact none is upserted, so a name two people
\* share is asked about, as long as nobody else is in the book (the hazard of
\* the runner-up by score: with a third person between them one of the two may
\* be taken).
THEOREM TwinsAreAskedAbout ==
    ASSUME NEW c \in Candidate, NEW d \in Candidate, c # d,
           NearExact(c), NearExact(d)
    PROVE  Clarifies({c, d})
<1>1. c.similarity \in 0 .. 100 /\ d.similarity \in 0 .. 100
  BY ScoreBounds
<1>2. Score(c) \in Nat /\ Score(c) >= 4500 /\ ~ (Score(c) >= 8500) /\ ~ (Score(d) >= 8500)
  BY ScoreBounds
<1>3. ~Distinct({c, d}, c)
  <2>1. {c, d} \ {c} = {d}
    OBVIOUS
  <2>2. d \in Best({d})
    BY DEF Best
  <2> QED
    BY <1>1, <2>1, <2>2 DEF Distinct, NearExact
<1>4. ~Distinct({c, d}, d)
  <2>1. {c, d} \ {d} = {c}
    OBVIOUS
  <2>2. c \in Best({c})
    BY DEF Best
  <2> QED
    BY <1>1, <2>1, <2>2 DEF Distinct, NearExact
<1>5. \A p \in {c, d} : ~Upserts({c, d}, p)
  BY <1>2, <1>3, <1>4 DEF Upserts
<1>6. ~Creates({c, d})
  BY <1>2 DEF Creates
<1> QED
  BY <1>5, <1>6 DEF Clarifies

\* Somebody new is made of a name only when nobody's name is within 0.90 of it,
\* however long ago they were touched.
THEOREM CreateIsFar ==
    ASSUME NEW C \in SUBSET Candidate, Creates(C), NEW c \in C
    PROVE  c.similarity < 90
<1>1. Score(c) < 4500
  BY DEF Creates
<1> QED
  BY <1>1, ScoreBounds

\* A question is asked only where there is somebody beside a single near-exact
\* person.
THEOREM ClarifyHasOthers ==
    ASSUME NEW C \in SUBSET Candidate, Clarifies(C),
           NEW c \in C, \A d \in C : NearExact(d) => d = c
    PROVE  \E d \in C : ~NearExact(d)
<1>1. SUFFICES ASSUME C = {c}, NearExact(c) PROVE FALSE
  OBVIOUS
<1>2. c \in Best(C)
  BY <1>1 DEF Best
<1>3. Distinct(C, c)
  BY <1>1 DEF Distinct, Best
<1> QED
  BY <1>1, <1>2, <1>3 DEF Clarifies, Upserts

-----------------------------------------------------------------------------
\* What is so of the engine.

\* People are numbered in the order they were made in.
PeopleInv ==
    /\ IsFiniteSet(people)
    /\ \A p \in people : p.id <= Cardinality(people) /\ p.touched <= now
    /\ \A p, q \in people : p.id = q.id => p = q

\* Facts are numbered like the events that tell of them.
FactInv ==
    /\ IsFiniteSet(facts)
    /\ \A f \in facts : f.id <= Cardinality(facts)
    /\ \A f, g \in facts : f.id = g.id => f = g
    /\ Len(events) = Cardinality(facts)
    /\ \A f \in facts : events[f.id].kind = f.kind /\ events[f.id].subject = f.subject
    /\ \A i \in DOMAIN events : events[i].fact = i

\* An item is of a processed event, which has one.
FeedInv ==
    /\ \A k \in DOMAIN feed :
          /\ feed[k].event \in DOMAIN events
          /\ events[feed[k].event].processed
          /\ events[feed[k].event].kind # "constraint"
          /\ feed[k].subject = events[feed[k].event].subject
    /\ \A k, l \in DOMAIN feed : feed[k].event = feed[l].event => k = l
    /\ \A i \in DOMAIN events : events[i].processed /\ events[i].kind # "constraint" =>
          \E k \in DOMAIN feed : feed[k].event = i

\* A debrief under way has mutations to apply, and a challenge is of a fact.
CallInv == call = NoCall \/ call \in [session : Sessions, todo : Seq(Mutation), staged : SUBSET Id]
PendingInv ==
    \A s \in Sessions : sessions[s].pending.type = "challenge" =>
        \E f \in facts : /\ f.id = sessions[s].pending.existing
                         /\ f.subject = sessions[s].pending.subject
                         /\ f.entity = sessions[s].pending.entity

IInv == TypeOK /\ PeopleInv /\ NamesApart /\ FactInv /\ FeedInv /\ CallInv /\ PendingInv

-----------------------------------------------------------------------------
\* The members of a finite set of numbers have the places 1, 2, 3 and so on.
LEMMA Ranks ==
  ASSUME NEW M \in SUBSET Nat, IsFiniteSet(M)
  PROVE  /\ Cardinality(M) \in Nat
         /\ \A i \in M : Cardinality({j \in M : j <= i}) \in 1 .. Cardinality(M)
         /\ \A i, j \in M : i < j =>
               Cardinality({k \in M : k <= i}) < Cardinality({k \in M : k <= j})
         /\ \A k \in 1 .. Cardinality(M) : \E i \in M : Cardinality({j \in M : j <= i}) = k
  <1> DEFINE Upto(i) == {j \in M : j <= i}
             rank == [i \in M |-> Cardinality(Upto(i))]
             n == Cardinality(M)
  <1>1. n \in Nat BY FS_CardinalityType
  <1>2. ASSUME NEW i \in M
        PROVE  IsFiniteSet(Upto(i)) /\ Cardinality(Upto(i)) \in Nat /\ Cardinality(Upto(i)) <= n
    <2>1. Upto(i) \in SUBSET M OBVIOUS
    <2>. QED BY <2>1, FS_Subset, FS_CardinalityType
  <1>3. ASSUME NEW i \in M PROVE Cardinality(Upto(i)) \in 1 .. n
    <2>1. i \in Upto(i) OBVIOUS
    <2>2. Cardinality(Upto(i)) # 0 BY <1>2, <2>1, FS_EmptySet
    <2>. QED BY <1>1, <1>2, <2>2
  <1>4. ASSUME NEW i \in M, NEW j \in M, i < j
        PROVE  Cardinality(Upto(i)) < Cardinality(Upto(j))
    <2>0. i \in Nat /\ j \in Nat /\ \A k \in M : k \in Nat OBVIOUS
    <2>1. Upto(i) \in SUBSET Upto(j)
      <3>1. \A k \in M : k <= i => k <= j BY <1>4, <2>0
      <3>. QED BY <3>1
    <2>2. j \in Upto(j) /\ j \notin Upto(i) BY <1>4, <2>0
    <2>3. Upto(i) # Upto(j) BY <2>2
    <2>4. Cardinality(Upto(i)) <= Cardinality(Upto(j))
      BY <1>2, <2>1, FS_Subset
    <2>5. Cardinality(Upto(i)) # Cardinality(Upto(j)) BY <1>2, <2>1, <2>3, FS_Subset
    <2>. QED BY <1>2, <2>4, <2>5
  <1>5. ASSUME NEW k \in 1 .. n PROVE \E i \in M : Cardinality(Upto(i)) = k
    <2>1. rank \in [M -> 1 .. n] BY <1>3
    <2>2. ASSUME NEW i \in M, NEW j \in M, rank[i] = rank[j] PROVE i = j
      <3>1. ~(i < j) /\ ~(j < i) BY <1>2, <1>4, <2>2
      <3>. QED BY <3>1
    <2>3. rank \in Injection(M, 1 .. n)
      <3>. HIDE DEF rank
      <3>. QED BY <2>1, <2>2 DEF Injection, IsInjective
    <2>4. IsFiniteSet(1 .. n) /\ Cardinality(1 .. n) = n BY <1>1, FS_Interval
    <2>5. rank \in Surjection(M, 1 .. n) BY <2>3, <2>4, FS_Injection
    <2>6. \E i \in M : rank[i] = k
      <3>. HIDE DEF rank
      <3>. QED BY <2>5 DEF Surjection
    <2>. QED BY <2>6
  <1>. QED BY <1>1, <1>3, <1>4, <1>5

LEMMA Begins == Init => IInv
  <1>. SUFFICES ASSUME Init PROVE IInv OBVIOUS
  <1>1. now \in Time BY SliceAssumption DEF Init, Time
  <1>2. sessions \in [Sessions -> Session] /\ \A s \in Sessions : sessions[s].pending.type = "none"
    BY DEF Init, Session, NoPending
  <1>3. TypeOK
    <2>1. /\ people = {} /\ facts = {} /\ constraints = <<>> /\ events = <<>> /\ feed = <<>>
          /\ call = NoCall
      BY DEF Init
    <2>2. constraints \in Seq(Constraint) /\ events \in Seq(Event) /\ feed \in Seq(Item)
      BY <2>1
    <2>. QED BY <1>1, <1>2, <2>1, <2>2 DEF TypeOK
  <1>4. IsFiniteSet(people) /\ IsFiniteSet(facts) /\ Cardinality(facts) = 0
    BY FS_EmptySet DEF Init
  <1>5. PeopleInv /\ NamesApart BY <1>4 DEF Init, PeopleInv, NamesApart
  <1>6. FactInv /\ FeedInv BY <1>4 DEF Init, FactInv, FeedInv
  <1>7. CallInv /\ PendingInv BY <1>2 DEF Init, CallInv, PendingInv
  <1>. QED BY <1>3, <1>5, <1>6, <1>7 DEF IInv

-----------------------------------------------------------------------------
\* Whom a mutation is about.

LEMMA MutationTyped ==
  ASSUME IInv, NEW edges, AtMutation(edges)
  PROVE  /\ call \in [session : Sessions, todo : Seq(Mutation), staged : SUBSET Id]
         /\ call.todo # <<>>
         /\ Head(call.todo) \in Mutation /\ Head(call.todo).edge \in edges
         /\ Tail(call.todo) \in Seq(Mutation)
  <1>1. call.todo # <<>> /\ Head(call.todo).edge \in edges BY DEF AtMutation
  <1>2. call \in [session : Sessions, todo : Seq(Mutation), staged : SUBSET Id]
    BY <1>1 DEF IInv, CallInv, NoCall
  <1>3. call.todo \in Seq(Mutation) BY <1>2
  <1>. QED BY <1>1, <1>2, <1>3

LEMMA CandidatesTyped ==
  ASSUME IInv, NEW spoken \in Names
  PROVE  Candidates(spoken) \subseteq Candidate
  <1>. SUFFICES ASSUME NEW p \in people
       PROVE [id |-> p.id, similarity |-> Similarity[<<spoken, p.name>>],
              recency |-> Recency[now - p.touched], place |-> p.id] \in Candidate
    BY DEF Candidates
  <1>1. p \in Person /\ p.id \in Id /\ p.name \in Names /\ p.touched \in Time /\ p.touched <= now
    BY DEF IInv, TypeOK, PeopleInv, Person
  <1>2. Similarity[<<spoken, p.name>>] \in 0 .. 100
    <2>1. <<spoken, p.name>> \in Names \X Names BY <1>1
    <2>. QED BY <2>1, SliceAssumption
  <1>3. now \in 1 .. MaxTime /\ p.touched \in 1 .. MaxTime /\ MaxTime \in Nat
    BY <1>1, SliceAssumption DEF IInv, TypeOK, Time
  <1>4. now - p.touched \in 0 .. MaxTime - 1 BY <1>1, <1>3
  <1>5. Recency[now - p.touched] \in 0 .. 100 BY <1>4, SliceAssumption
  <1>. QED BY <1>1, <1>2, <1>5 DEF Candidate, Id

LEMMA Touching ==
  ASSUME IInv, NEW p \in Id, people' = Touched(p), now' = now
  PROVE  /\ people' \subseteq Person /\ Cardinality(people') = Cardinality(people)
         /\ PeopleInv' /\ NamesApart'
  <1> DEFINE t(q) == IF q.id = p THEN [q EXCEPT !.touched = now] ELSE q
             f == [q \in people |-> t(q)]
  <1>1. now \in Time BY DEF IInv, TypeOK
  <1>2. ASSUME NEW q \in people
        PROVE  /\ t(q) \in Person /\ t(q).id = q.id /\ t(q).name = q.name
               /\ t(q).touched <= now
    <2>1. q \in Person /\ q.touched <= now BY DEF IInv, TypeOK, PeopleInv
    <2>2. now <= now BY <1>1, SliceAssumption DEF Time
    <2>. QED BY <1>1, <2>1, <2>2 DEF Person
  <1>3. people' = {t(q) : q \in people} BY DEF Touched
  <1>4. \A q, r \in people : q.id = r.id => q = r BY DEF IInv, PeopleInv
  <1>5. IsFiniteSet(people) BY DEF IInv, PeopleInv
  <1>. HIDE DEF t
  <1>6. IsFiniteSet(people') /\ Cardinality(people') = Cardinality(people)
    <2>1. f \in Bijection(people, people')
      <3>1. \A q \in people : f[q] = t(q) OBVIOUS
      <3>2. \A q, r \in people : f[q] = f[r] => q = r BY <1>2, <1>4, <3>1
      <3>3. f \in [people -> people'] BY <1>3
      <3>4. \A x \in people' : \E q \in people : f[q] = x BY <1>3, <3>1
      <3>. HIDE DEF f
      <3>. QED BY <3>2, <3>3, <3>4 DEF Bijection, Injection, Surjection, IsInjective
    <2>2. ExistsBijection(people, people') BY <2>1 DEF ExistsBijection
    <2>. QED BY <1>5, <2>2, FS_Bijection
  <1>7. ASSUME NEW x \in people'
        PROVE  /\ x \in Person /\ x.touched <= now
               /\ \E q \in people : x = t(q) /\ x.id = q.id /\ x.name = q.name
    BY <1>2, <1>3
  <1>8. PeopleInv'
    <2>1. \A x \in people' : x.id <= Cardinality(people') /\ x.touched <= now'
      BY <1>6, <1>7 DEF IInv, PeopleInv
    <2>2. \A x, y \in people' : x.id = y.id => x = y BY <1>4, <1>7
    <2>. QED BY <1>6, <2>1, <2>2 DEF PeopleInv
  <1>9. NamesApart'
    <2>. SUFFICES ASSUME NEW x \in people', NEW y \in people', x.id < y.id
                  PROVE  Similarity[<<y.name, x.name>>] < 90
      BY DEF NamesApart
    <2>. QED BY <1>7 DEF IInv, NamesApart
  <1>. QED BY <1>6, <1>7, <1>8, <1>9

LEMMA Making ==
  ASSUME IInv, NEW spoken \in Names, NEW p, Creates(Candidates(spoken)),
         p = Cardinality(people) + 1, now' = now,
         people' = people \cup {[id |-> p, name |-> spoken, touched |-> now]}
  PROVE  p \in Id /\ people' \subseteq Person /\ PeopleInv' /\ NamesApart'
  <1> DEFINE new == [id |-> p, name |-> spoken, touched |-> now]
  <1>1. IsFiniteSet(people) /\ Cardinality(people) \in Nat
    BY FS_CardinalityType DEF IInv, PeopleInv
  <1>2. \A q \in people : q \in Person /\ q.id \in Nat /\ q.id < p
    BY <1>1 DEF IInv, TypeOK, PeopleInv, Person, Id
  <1>3. now \in Time /\ now <= now BY SliceAssumption DEF IInv, TypeOK, Time
  <1>4. p \in Id /\ new \in Person BY <1>1, <1>3 DEF Person, Id, None
  <1>5. new.id = p /\ new.name = spoken /\ new.touched = now OBVIOUS
  <1>. HIDE DEF new
  <1>6. people' = people \cup {new} BY DEF new
  <1>7. new \notin people BY <1>1, <1>2, <1>5
  <1>8. IsFiniteSet(people') /\ Cardinality(people') = Cardinality(people) + 1
    BY <1>1, <1>6, <1>7, FS_AddElement
  <1>9. PeopleInv'
    <2>1. \A q \in people' : q.id <= Cardinality(people') /\ q.touched <= now'
      BY <1>1, <1>2, <1>3, <1>5, <1>6, <1>8 DEF IInv, PeopleInv
    <2>2. \A q, r \in people' : q.id = r.id => q = r
      BY <1>1, <1>2, <1>5, <1>6 DEF IInv, PeopleInv
    <2>. QED BY <1>8, <2>1, <2>2 DEF PeopleInv
  <1>10. ASSUME NEW q \in people PROVE Similarity[<<spoken, q.name>>] < 90
    <2> DEFINE c == [id |-> q.id, similarity |-> Similarity[<<spoken, q.name>>],
                     recency |-> Recency[now - q.touched], place |-> q.id]
    <2>1. c \in Candidates(spoken) BY DEF Candidates
    <2>2. Candidates(spoken) \in SUBSET Candidate BY CandidatesTyped
    <2>3. c.similarity < 90
      <3>. HIDE DEF c
      <3>. QED BY <2>1, <2>2, CreateIsFar
    <2>. QED BY <2>3
  <1>11. NamesApart'
    <2>. SUFFICES ASSUME NEW x \in people', NEW y \in people', x.id < y.id
                  PROVE  Similarity[<<y.name, x.name>>] < 90
      BY DEF NamesApart
    <2>1. CASE x \in people /\ y \in people BY <2>1 DEF IInv, NamesApart
    <2>2. CASE x \in people /\ y = new BY <1>5, <1>10, <2>2
    <2>3. CASE x = new BY <1>1, <1>2, <1>4, <1>5, <1>6, <2>3 DEF Id
    <2>. QED BY <1>6, <2>1, <2>2, <2>3
  <1>. QED BY <1>4, <1>6, <1>2, <1>9, <1>11

\* Finding or making a person keeps the book of people in order.
LEMMA Met ==
  ASSUME IInv, NEW edges, AtMutation(edges), NEW p \in Known, About(p), now' = now
  PROVE  p \in Id /\ people' \subseteq Person /\ PeopleInv' /\ NamesApart'
  <1>1. Head(call.todo).spoken \in Names BY MutationTyped DEF Mutation
  <1>2. CASE Upsert(Candidates(Head(call.todo).spoken), p)
    <2>1. p \in Id
      <3>1. PICK c \in Candidates(Head(call.todo).spoken) : c.id = p BY <1>2 DEF Upsert
      <3>2. PICK q \in people :
              c = [id |-> q.id, similarity |-> Similarity[<<Head(call.todo).spoken, q.name>>],
                   recency |-> Recency[now - q.touched], place |-> q.id]
        BY <3>1 DEF Candidates
      <3>. QED BY <3>1, <3>2 DEF IInv, TypeOK, Person
    <2>2. people' = Touched(p) BY <1>2 DEF Upsert
    <2>. QED BY <2>1, <2>2, Touching
  <1>3. CASE Create(Candidates(Head(call.todo).spoken), p)
    BY <1>1, <1>3, Making DEF Create
  <1>. QED BY <1>2, <1>3 DEF About

-----------------------------------------------------------------------------
\* A debrief under way.

LEMMA Starting ==
  ASSUME IInv, NEW s \in Sessions, NEW words \in Utterances, StartDebrief(s, words)
  PROVE  IInv'
  <1>1. words \in Seq(Mutation) BY SliceAssumption
  <1>2. /\ call' = [session |-> s, todo |-> words, staged |-> {}]
        /\ sessions' = [sessions EXCEPT ![s].status = "active"]
        /\ UNCHANGED <<people, facts, constraints, events, feed, now>>
    BY DEF StartDebrief
  <1>3. sessions \in [Sessions -> Session] BY DEF IInv, TypeOK
  <1>4. /\ sessions' \in [Sessions -> Session]
        /\ \A r \in Sessions : sessions'[r].pending = sessions[r].pending
    BY <1>2, <1>3 DEF Session
  <1>5. TypeOK' BY <1>2, <1>4 DEF IInv, TypeOK
  <1>6. CallInv' BY <1>1, <1>2 DEF CallInv
  <1>7. PendingInv' BY <1>2, <1>4 DEF IInv, PendingInv
  <1>8. PeopleInv' /\ NamesApart' /\ FactInv' /\ FeedInv'
    BY <1>2 DEF IInv, PeopleInv, NamesApart, FactInv, FeedInv
  <1>. QED BY <1>5, <1>6, <1>7, <1>8 DEF IInv

\* A call returns with a challenge of a fact that is there, or without one.
LEMMA Returning ==
  ASSUME IInv, call.session \in Sessions, call.staged \in SUBSET Id,
         NEW status \in {"awaiting_resolution", "completed"},
         NEW pending \in {NoPending, [type |-> "ambiguity"]} \cup Challenge,
         pending.type = "challenge" =>
            \E f \in facts : /\ f.id = pending.existing /\ f.subject = pending.subject
                             /\ f.entity = pending.entity,
         Return(status, pending),
         people' \subseteq Person, PeopleInv', NamesApart',
         UNCHANGED <<facts, constraints, events, feed, now>>
  PROVE  IInv'
  <1> DEFINE saved == [status |-> status, staged |-> call.staged, pending |-> pending]
  <1>1. sessions' = [sessions EXCEPT ![call.session] = saved] /\ call' = NoCall
    BY DEF Return
  <1>2. saved \in Session /\ saved.pending = pending BY DEF Session
  <1>. HIDE DEF saved
  <1>3. sessions \in [Sessions -> Session] BY DEF IInv, TypeOK
  <1>4. sessions' \in [Sessions -> Session] BY <1>1, <1>2, <1>3
  <1>5. \A r \in Sessions : sessions'[r].pending = sessions[r].pending \/ sessions'[r].pending = pending
    BY <1>1, <1>2, <1>3
  <1>6. TypeOK' BY <1>1, <1>4 DEF IInv, TypeOK
  <1>7. PendingInv'
    <2>. SUFFICES ASSUME NEW r \in Sessions, sessions'[r].pending.type = "challenge"
         PROVE \E f \in facts : /\ f.id = sessions'[r].pending.existing
                                /\ f.subject = sessions'[r].pending.subject
                                /\ f.entity = sessions'[r].pending.entity
      BY DEF PendingInv
    <2>1. CASE sessions'[r].pending = sessions[r].pending BY <2>1 DEF IInv, PendingInv
    <2>2. CASE sessions'[r].pending = pending BY <2>2
    <2>. QED BY <1>5, <2>1, <2>2
  <1>8. CallInv' /\ FactInv' /\ FeedInv'
    BY <1>1 DEF IInv, CallInv, FactInv, FeedInv
  <1>. QED BY <1>6, <1>7, <1>8 DEF IInv

LEMMA Completing == ASSUME IInv, Complete PROVE IInv'
  <1>1. call \in [session : Sessions, todo : Seq(Mutation), staged : SUBSET Id]
    BY DEF Complete, IInv, CallInv
  <1>2. people' = people /\ now' = now BY DEF Complete
  <1>3. people' \subseteq Person /\ PeopleInv' /\ NamesApart'
    BY <1>2 DEF IInv, TypeOK, PeopleInv, NamesApart
  <1>4. Return("completed", NoPending) /\ UNCHANGED <<facts, constraints, events, feed, now>>
    BY DEF Complete
  <1>5. NoPending.type # "challenge" BY DEF NoPending
  <1>. QED BY <1>1, <1>3, <1>4, <1>5, Returning

LEMMA Asking == ASSUME IInv, AskWho PROVE IInv'
  <1>1. call \in [session : Sessions, todo : Seq(Mutation), staged : SUBSET Id]
    BY MutationTyped DEF AskWho
  <1>2. people' = people /\ now' = now BY DEF AskWho
  <1>3. people' \subseteq Person /\ PeopleInv' /\ NamesApart'
    BY <1>2 DEF IInv, TypeOK, PeopleInv, NamesApart
  <1>4. /\ Return("awaiting_resolution", [type |-> "ambiguity"])
        /\ UNCHANGED <<facts, constraints, events, feed, now>>
    BY DEF AskWho
  <1>. QED BY <1>1, <1>3, <1>4, Returning

LEMMA Challenging == ASSUME IInv, RaiseChallenge PROVE IInv'
  <1> DEFINE m == Head(call.todo)
             c(p, f) == [type |-> "challenge", subject |-> p, entity |-> f.entity,
                         existing |-> f.id, candidate |-> m.value]
  <1>1. AtMutation({"NONE"}) /\ UNCHANGED <<facts, constraints, events, feed, now>>
    BY DEF RaiseChallenge
  <1>2. call \in [session : Sessions, todo : Seq(Mutation), staged : SUBSET Id] /\ m \in Mutation
    BY <1>1, MutationTyped
  <1>3. PICK p \in Known : \E f \in Contradicted(p) :
           About(p) /\ Return("awaiting_resolution", c(p, f))
    BY DEF RaiseChallenge
  <1>33. PICK f \in Contradicted(p) : About(p) /\ Return("awaiting_resolution", c(p, f))
    BY <1>3
  <1>4. p \in Id /\ people' \subseteq Person /\ PeopleInv' /\ NamesApart'
    BY <1>1, <1>3, Met
  <1>5. f \in facts /\ f.subject = p BY DEF Contradicted, GetActive
  <1>6. f \in Fact BY <1>5 DEF IInv, TypeOK
  <1>7. c(p, f) \in Challenge BY <1>2, <1>4, <1>6 DEF Challenge, Fact, Mutation
  <1>8. c(p, f).existing = f.id /\ c(p, f).subject = p /\ c(p, f).entity = f.entity OBVIOUS
  <1>9. PICK d \in Challenge : d = c(p, f) BY <1>7
  <1>10. \E g \in facts : g.id = d.existing /\ g.subject = d.subject /\ g.entity = d.entity
    BY <1>5, <1>8, <1>9
  <1>11. Return("awaiting_resolution", d) BY <1>33, <1>9
  <1>12. call.session \in Sessions /\ call.staged \in SUBSET Id BY <1>2
  <1>. HIDE DEF m, c
  <1>. QED BY <1>1, <1>4, <1>10, <1>11, <1>12, Returning

\* A fact and its event are added together, under the same number.
LEMMA Recording ==
  ASSUME IInv, NEW edges, AtMutation(edges), NEW p \in Id, NEW entity \in Entities,
         NEW kind \in {"plain", "trait", "constraint"}, Record(p, entity, kind),
         UNCHANGED <<feed, sessions, now>>,
         people' \subseteq Person, PeopleInv', NamesApart', constraints' \in Seq(Constraint)
  PROVE  IInv'
  <1> DEFINE f == NewFact(NextFact, p, entity, Head(call.todo).value, kind)
             e == [kind |-> kind, subject |-> p, fact |-> NextFact, processed |-> FALSE]
  <1>1. facts' = facts \cup {f} /\ events' = Append(events, e)
        /\ call' = [call EXCEPT !.todo = Tail(@), !.staged = @ \cup {NextFact}]
    BY DEF Record, Publish, NewFact
  <1>2. /\ call \in [session : Sessions, todo : Seq(Mutation), staged : SUBSET Id]
        /\ Head(call.todo) \in Mutation /\ Tail(call.todo) \in Seq(Mutation)
    BY MutationTyped
  <1>3. IsFiniteSet(facts) /\ Cardinality(facts) \in Nat
    BY FS_CardinalityType DEF IInv, FactInv
  <1>4. NextFact = Cardinality(facts) + 1 /\ NextFact \in Id BY <1>3 DEF NextFact, Id, None
  <1>5. f \in Fact /\ f.id = NextFact /\ f.kind = kind /\ f.subject = p
    BY <1>2, <1>4 DEF NewFact, Fact, FactKinds, Mutation, None
  <1>6. e \in Event /\ e.kind = kind /\ e.subject = p /\ e.fact = NextFact /\ e.processed = FALSE
    BY <1>4 DEF Event, FactKinds
  <1>. HIDE DEF f, e
  <1>7. events \in Seq(Event) /\ Len(events) = Cardinality(facts)
    BY DEF IInv, TypeOK, FactInv
  <1>8. /\ events' \in Seq(Event) /\ Len(events') = NextFact /\ events'[NextFact] = e
        /\ \A i \in DOMAIN events : events'[i] = events[i] /\ i \in DOMAIN events'
        /\ \A i \in DOMAIN events' : i \in DOMAIN events \/ i = NextFact
        /\ NextFact \in DOMAIN events'
    BY <1>1, <1>3, <1>4, <1>6, <1>7
  <1>9. facts' \subseteq Fact BY <1>1, <1>5 DEF IInv, TypeOK
  <1>10. call' \in [session : Sessions, todo : Seq(Mutation), staged : SUBSET Id]
    BY <1>1, <1>2, <1>4
  <1>11. TypeOK' BY <1>8, <1>9, <1>10 DEF IInv, TypeOK
  <1>12. FactInv'
    <2>1. \A g \in facts : g.id \in DOMAIN events /\ g.id # NextFact
      BY <1>3, <1>4, <1>7 DEF IInv, FactInv, TypeOK, Fact, Id, None
    <2>2. IsFiniteSet(facts') /\ Cardinality(facts') = NextFact
      BY <1>1, <1>3, <1>4, <1>5, <2>1, FS_AddElement
    <2>3. \A g \in facts' : g.id <= Cardinality(facts')
      BY <1>1, <1>3, <1>4, <1>5, <2>2 DEF IInv, FactInv, TypeOK, Fact, Id
    <2>4. \A g, h \in facts' : g.id = h.id => g = h
      BY <1>1, <1>5, <2>1 DEF IInv, FactInv
    <2>5. \A g \in facts' : events'[g.id].kind = g.kind /\ events'[g.id].subject = g.subject
      BY <1>1, <1>5, <1>6, <1>8, <2>1 DEF IInv, FactInv
    <2>6. \A i \in DOMAIN events' : events'[i].fact = i
      BY <1>6, <1>8 DEF IInv, FactInv
    <2>. QED BY <1>8, <2>2, <2>3, <2>4, <2>5, <2>6 DEF FactInv
  <1>13. FeedInv' BY <1>6, <1>8 DEF IInv, FeedInv
  <1>14. CallInv' BY <1>10 DEF CallInv
  <1>15. PendingInv' BY <1>1 DEF IInv, PendingInv
  <1>. QED BY <1>11, <1>12, <1>13, <1>14, <1>15 DEF IInv

LEMMA Writing == ASSUME IInv, WriteFact PROVE IInv'
  <1>1. AtMutation({"NONE"}) /\ UNCHANGED <<constraints, feed, sessions, now>> BY DEF WriteFact
  <1>2. PICK p \in Known : About(p) /\ Record(p, Head(call.todo).entity, "plain") BY DEF WriteFact
  <1>3. p \in Id /\ people' \subseteq Person /\ PeopleInv' /\ NamesApart' BY <1>1, <1>2, Met
  <1>4. PICK entity \in Entities : entity = Head(call.todo).entity
    BY <1>1, MutationTyped DEF Mutation
  <1>5. Record(p, entity, "plain") BY <1>2, <1>4
  <1>6. constraints' \in Seq(Constraint) BY <1>1 DEF IInv, TypeOK
  <1>. QED BY <1>1, <1>3, <1>5, <1>6, Recording

LEMMA Noting == ASSUME IInv, WriteTrait PROVE IInv'
  <1>1. AtMutation({"HAS_TRAIT"}) /\ UNCHANGED <<constraints, feed, sessions, now>>
    BY DEF WriteTrait
  <1>2. PICK p \in Known : About(p) /\ Record(p, Head(call.todo).entity, "trait") BY DEF WriteTrait
  <1>3. p \in Id /\ people' \subseteq Person /\ PeopleInv' /\ NamesApart' BY <1>1, <1>2, Met
  <1>4. PICK entity \in Entities : entity = Head(call.todo).entity
    BY <1>1, MutationTyped DEF Mutation
  <1>5. Record(p, entity, "trait") BY <1>2, <1>4
  <1>6. constraints' \in Seq(Constraint) BY <1>1 DEF IInv, TypeOK
  <1>. QED BY <1>1, <1>3, <1>5, <1>6, Recording

LEMMA Constraining == ASSUME IInv, WriteConstraint PROVE IInv'
  <1>1. /\ AtMutation({"CONSTRAINED_BY"}) /\ UNCHANGED <<feed, sessions, now>>
        /\ Head(call.todo).until # Garbled
    BY DEF WriteConstraint
  <1>2. PICK p \in Known :
          /\ About(p) /\ Record(p, "Constraint", "constraint")
          /\ constraints' = Append(constraints,
                [person |-> p, start |-> now, end |-> Head(call.todo).until])
    BY DEF WriteConstraint
  <1>3. p \in Id /\ people' \subseteq Person /\ PeopleInv' /\ NamesApart' BY <1>1, <1>2, Met
  <1>4. Head(call.todo).until \in Time \cup {Open} BY <1>1, MutationTyped DEF Mutation
  <1>5. [person |-> p, start |-> now, end |-> Head(call.todo).until] \in Constraint
    BY <1>3, <1>4 DEF Constraint, IInv, TypeOK
  <1>6. constraints' \in Seq(Constraint) BY <1>2, <1>5 DEF IInv, TypeOK
  <1>7. "Constraint" \in Entities BY SliceAssumption
  <1>. QED BY <1>1, <1>2, <1>3, <1>6, <1>7, Recording

LEMMA Raising == ASSUME IInv, Raise PROVE IInv'
  <1>1. AtMutation({"CONSTRAINED_BY"}) /\ call' = NoCall
        /\ UNCHANGED <<facts, constraints, events, feed, sessions, now>>
    BY DEF Raise
  <1>2. PICK p \in Known : About(p) BY DEF Raise
  <1>3. people' \subseteq Person /\ PeopleInv' /\ NamesApart' BY <1>1, <1>2, Met
  <1>4. TypeOK' BY <1>1, <1>3 DEF IInv, TypeOK
  <1>5. FactInv' /\ FeedInv' /\ CallInv' /\ PendingInv'
    BY <1>1 DEF IInv, FactInv, FeedInv, CallInv, PendingInv
  <1>. QED BY <1>3, <1>4, <1>5 DEF IInv

-----------------------------------------------------------------------------
\* The answer to a challenge.

LEMMA AnnotateTyped ==
  ASSUME NEW v \in Value, NEW n \in Notes
  PROVE  Annotate(v, n) \in Value
  <1>1. CASE v \in Money
    <2>1. Annotate(v, n) = [v EXCEPT !.note = n] BY <1>1 DEF Annotate, Money
    <2>2. Annotate(v, n) \in Money BY <1>1, <2>1 DEF Money
    <2>. QED BY <2>2 DEF Value
  <1>2. CASE v \in Object
    <2>1. Annotate(v, n) = [v EXCEPT !.note = n] BY <1>2 DEF Annotate, Object
    <2>2. Annotate(v, n) \in Object BY <1>2, <2>1 DEF Object
    <2>. QED BY <2>2 DEF Value
  <1>3. CASE v \in Scalar
    <2>1. v.shape \notin {"money", "object"} BY <1>3 DEF Scalar, Null, Number, Text
    <2>2. Annotate(v, n) = [shape |-> "object", body |-> v, order |-> "stored", note |-> n]
      BY <2>1 DEF Annotate
    <2>3. Annotate(v, n) \in Object BY <1>3, <2>2 DEF Object
    <2>. QED BY <2>3 DEF Value
  <1>. QED BY <1>1, <1>2, <1>3 DEF Value

\* A pointer is set in one fact and nothing else changes.
Pointed(f, old, new) == IF f.id = old THEN [f EXCEPT !.supersededBy = new] ELSE f

LEMMA Superseding ==
  ASSUME IInv, NEW old, NEW new \in Id, NEW table, table = Supersede(facts, old, new)
  PROVE  /\ table \subseteq Fact /\ IsFiniteSet(table) /\ Cardinality(table) = Cardinality(facts)
         /\ \A f \in facts : Pointed(f, old, new) \in table
         /\ \A x \in table : \E f \in facts : x = Pointed(f, old, new)
         /\ \A f \in facts : LET x == Pointed(f, old, new)
                             IN  /\ x.id = f.id /\ x.kind = f.kind /\ x.subject = f.subject
                                 /\ x.entity = f.entity /\ x.value = f.value
  <1> DEFINE h == [f \in facts |-> Pointed(f, old, new)]
  <1>1. table = {Pointed(f, old, new) : f \in facts} BY DEF Supersede, Pointed
  <1>2. ASSUME NEW f \in facts
        PROVE  /\ Pointed(f, old, new) \in Fact
               /\ Pointed(f, old, new).id = f.id /\ Pointed(f, old, new).kind = f.kind
               /\ Pointed(f, old, new).subject = f.subject
               /\ Pointed(f, old, new).entity = f.entity /\ Pointed(f, old, new).value = f.value
    <2>1. f \in Fact /\ new \in Nat BY DEF IInv, TypeOK, Id
    <2>. QED BY <2>1 DEF Pointed, Fact
  <1>3. IsFiniteSet(facts) /\ \A f, g \in facts : f.id = g.id => f = g BY DEF IInv, FactInv
  <1>4. h \in Bijection(facts, table)
    <2>1. \A f \in facts : h[f] = Pointed(f, old, new) OBVIOUS
    <2>2. \A f, g \in facts : h[f] = h[g] => f = g BY <1>2, <1>3, <2>1
    <2>3. h \in [facts -> table] BY <1>1
    <2>4. \A x \in table : \E f \in facts : h[f] = x BY <1>1, <2>1
    <2>. HIDE DEF h
    <2>. QED BY <2>2, <2>3, <2>4 DEF Bijection, Injection, Surjection, IsInjective
  <1>5. ExistsBijection(facts, table) BY <1>4 DEF ExistsBijection
  <1>6. IsFiniteSet(table) /\ Cardinality(table) = Cardinality(facts) BY <1>3, <1>5, FS_Bijection
  <1>. QED BY <1>1, <1>2, <1>6

LEMMA Resolving == ASSUME IInv, NEW s \in Sessions, ResolveChallenge(s) PROVE IInv'
  <1> DEFINE c == sessions[s].pending
  <1>1. call = NoCall /\ c.type = "challenge" /\ UNCHANGED <<constraints, feed, call, now>>
    BY DEF ResolveChallenge
  <1>2. PICK value \in Accepted \cup {c.candidate}, note \in Notes :
          LET f == NewFact(NextFact, c.subject, c.entity, Annotate(value, note), "resolution")
          IN  /\ facts' = Supersede(facts, c.existing, f.id) \cup {f}
              /\ people' = Touched(c.subject)
              /\ Publish(f)
              /\ sessions' = [sessions EXCEPT ![s] =
                    [status |-> "completed", staged |-> StagedAfter(s, f.id),
                     pending |-> NoPending]]
    BY DEF ResolveChallenge
  <1> DEFINE f == NewFact(NextFact, c.subject, c.entity, Annotate(value, note), "resolution")
             e == [kind |-> "resolution", subject |-> c.subject, fact |-> NextFact,
                   processed |-> FALSE]
             old == Supersede(facts, c.existing, NextFact)
  <1>3. sessions \in [Sessions -> Session] BY DEF IInv, TypeOK
  <1>4. c \in Challenge BY <1>1, <1>3 DEF Session, NoPending
  <1>5. c.subject \in Id /\ c.entity \in Entities /\ c.candidate \in Value
    BY <1>4 DEF Challenge
  <1>6. IsFiniteSet(facts) /\ Cardinality(facts) \in Nat
    BY FS_CardinalityType DEF IInv, FactInv
  <1>7. NextFact = Cardinality(facts) + 1 /\ NextFact \in Id BY <1>6 DEF NextFact, Id, None
  <1>8. Annotate(value, note) \in Value
    <2>1. value \in Value BY <1>5, SliceAssumption
    <2>. QED BY <2>1, AnnotateTyped
  <1>9. /\ facts' = old \cup {f} /\ people' = Touched(c.subject) /\ events' = Append(events, e)
        /\ sessions' = [sessions EXCEPT ![s] =
              [status |-> "completed", staged |-> StagedAfter(s, NextFact), pending |-> NoPending]]
    BY <1>2 DEF Publish, NewFact
  <1>10. f \in Fact /\ f.id = NextFact /\ f.kind = "resolution" /\ f.subject = c.subject
    BY <1>5, <1>7, <1>8 DEF NewFact, Fact, FactKinds, None
  <1>11. e \in Event /\ e.kind = "resolution" /\ e.subject = c.subject /\ e.fact = NextFact
         /\ e.processed = FALSE
    BY <1>5, <1>7 DEF Event, FactKinds
  <1>12. /\ old \subseteq Fact /\ IsFiniteSet(old) /\ Cardinality(old) = Cardinality(facts)
         /\ \A x \in old : \E g \in facts :
               x.id = g.id /\ x.kind = g.kind /\ x.subject = g.subject /\ x.entity = g.entity
                 /\ x = Pointed(g, c.existing, NextFact)
         /\ \A g \in facts : \E x \in old :
               x.id = g.id /\ x.kind = g.kind /\ x.subject = g.subject /\ x.entity = g.entity
    BY <1>7, Superseding
  <1>13. people' \subseteq Person /\ PeopleInv' /\ NamesApart'
    BY <1>1, <1>5, <1>9, Touching
  <1>14. [status |-> "completed", staged |-> StagedAfter(s, NextFact), pending |-> NoPending]
           \in Session
    BY <1>3, <1>7 DEF StagedAfter, Session
  <1>. HIDE DEF f, e, old
  <1>15. events \in Seq(Event) /\ Len(events) = Cardinality(facts)
    BY DEF IInv, TypeOK, FactInv
  <1>16. /\ events' \in Seq(Event) /\ Len(events') = NextFact /\ events'[NextFact] = e
         /\ \A i \in DOMAIN events : events'[i] = events[i] /\ i \in DOMAIN events'
         /\ \A i \in DOMAIN events' : i \in DOMAIN events \/ i = NextFact
         /\ NextFact \in DOMAIN events'
    BY <1>6, <1>7, <1>9, <1>11, <1>15
  <1>17. sessions' \in [Sessions -> Session] BY <1>3, <1>9, <1>14
  <1>18. facts' \subseteq Fact BY <1>9, <1>10, <1>12
  <1>19. TypeOK' BY <1>1, <1>13, <1>16, <1>17, <1>18 DEF IInv, TypeOK
  <1>20. FactInv'
    <2>1. \A g \in facts : g.id \in DOMAIN events /\ g.id # NextFact
      BY <1>6, <1>7, <1>15 DEF IInv, FactInv, TypeOK, Fact, Id, None
    <2>2. \A x \in old : x.id \in DOMAIN events /\ x.id # NextFact BY <1>12, <2>1
    <2>3. f \notin old BY <1>10, <2>2
    <2>4. IsFiniteSet(facts') /\ Cardinality(facts') = NextFact
      BY <1>6, <1>7, <1>9, <1>12, <2>3, FS_AddElement
    <2>5. \A x \in facts' : x.id <= Cardinality(facts')
      <3>1. \A x \in old : x.id <= NextFact BY <1>7, <1>15, <2>2
      <3>. QED BY <1>7, <1>9, <1>10, <2>4, <3>1 DEF Id
    <2>6. \A x, y \in old : x.id = y.id => x = y BY <1>12 DEF IInv, FactInv
    <2>7. \A x, y \in facts' : x.id = y.id => x = y BY <1>9, <1>10, <2>2, <2>6
    <2>8. \A x \in facts' : events'[x.id].kind = x.kind /\ events'[x.id].subject = x.subject
      <3>1. \A x \in old : events[x.id].kind = x.kind /\ events[x.id].subject = x.subject
        BY <1>12 DEF IInv, FactInv
      <3>. QED BY <1>9, <1>10, <1>11, <1>16, <2>2, <3>1
    <2>9. \A i \in DOMAIN events' : events'[i].fact = i
      BY <1>11, <1>16 DEF IInv, FactInv
    <2>. QED BY <1>16, <2>4, <2>5, <2>7, <2>8, <2>9 DEF FactInv
  <1>21. FeedInv' BY <1>1, <1>11, <1>16 DEF IInv, FeedInv
  <1>22. CallInv' BY <1>1 DEF CallInv
  <1>23. PendingInv'
    <2>. SUFFICES ASSUME NEW r \in Sessions, sessions'[r].pending.type = "challenge"
         PROVE \E x \in facts' : /\ x.id = sessions'[r].pending.existing
                                 /\ x.subject = sessions'[r].pending.subject
                                 /\ x.entity = sessions'[r].pending.entity
      BY DEF PendingInv
    <2>1. r # s BY <1>3, <1>9 DEF NoPending
    <2>2. sessions'[r] = sessions[r] BY <1>3, <1>9, <2>1
    <2>. QED BY <1>9, <1>12, <2>2 DEF IInv, PendingInv
  <1>. QED BY <1>13, <1>19, <1>20, <1>21, <1>22, <1>23 DEF IInv

-----------------------------------------------------------------------------
\* The outbox and the feed.

LEMMA NewItemTyped ==
  ASSUME IInv, NEW i \in DOMAIN events
  PROVE  NewItem(i) \in Item /\ NewItem(i).event = i /\ NewItem(i).subject = events[i].subject
  <1>1. events[i] \in Event BY DEF IInv, TypeOK
  <1>2. events[i].subject \in Id /\ i \in Id BY <1>1 DEF IInv, TypeOK, Event, Id, None
  <1>3. ASSUME NEW p, Blockers(p) # {}
        PROVE  constraints[CHOOSE b \in Blockers(p) : TRUE].end \in Time \cup {Open}
    <2>1. PICK b \in Blockers(p) : b = CHOOSE c \in Blockers(p) : TRUE BY <1>3
    <2>2. b \in DOMAIN constraints BY <2>1 DEF Blockers, Of
    <2>3. constraints[b] \in Constraint BY <2>2 DEF IInv, TypeOK
    <2>. QED BY <2>1, <2>3 DEF Constraint
  <1>4. NewItem(i).until \in Time \cup {Open} BY <1>3 DEF NewItem, Open
  <1>. QED BY <1>2, <1>4 DEF NewItem, Item

\* What a batch adds to the feed, in the order of its events.
Chosen(k) == CHOOSE i \in Worth : Place(i) = k

LEMMA ChosenOnce ==
  ASSUME IInv
  PROVE  /\ Cardinality(Worth) \in Nat
         /\ Worth \subseteq DOMAIN events
         /\ \A i \in Worth : i \in Batch /\ ~events[i].processed /\ events[i].kind # "constraint"
         /\ \A k \in 1 .. Cardinality(Worth) : Chosen(k) \in Worth /\ Place(Chosen(k)) = k
         /\ \A i \in Worth : Place(i) \in 1 .. Cardinality(Worth) /\ Chosen(Place(i)) = i
  <1>1. events \in Seq(Event) BY DEF IInv, TypeOK
  <1>2. Worth \subseteq DOMAIN events
        /\ \A i \in Worth : i \in Batch /\ ~events[i].processed /\ events[i].kind # "constraint"
    BY DEF Worth, Batch, Unprocessed
  <1>3. Len(events) \in Nat /\ DOMAIN events = 1 .. Len(events) BY <1>1
  <1>4. IsFiniteSet(Worth)
    <2>1. IsFiniteSet(1 .. Len(events)) BY <1>3, FS_Interval
    <2>2. Worth \in SUBSET (1 .. Len(events)) BY <1>2, <1>3
    <2>. QED BY <2>1, <2>2, FS_Subset
  <1>5. Worth \in SUBSET Nat BY <1>2, <1>3
  <1>6. /\ Cardinality(Worth) \in Nat
        /\ \A i \in Worth : Place(i) \in 1 .. Cardinality(Worth)
        /\ \A i, j \in Worth : i < j => Place(i) < Place(j)
        /\ \A k \in 1 .. Cardinality(Worth) : \E i \in Worth : Place(i) = k
    <2>1. PICK M \in SUBSET Nat : M = Worth BY <1>5
    <2>2. /\ Cardinality(M) \in Nat
          /\ \A i \in M : Cardinality({j \in M : j <= i}) \in 1 .. Cardinality(M)
          /\ \A i, j \in M : i < j =>
                Cardinality({k \in M : k <= i}) < Cardinality({k \in M : k <= j})
          /\ \A k \in 1 .. Cardinality(M) : \E i \in M : Cardinality({j \in M : j <= i}) = k
      BY <1>4, <2>1, Ranks
    <2>3. ASSUME NEW i PROVE Place(i) = Cardinality({j \in M : j <= i}) BY <2>1 DEF Place
    <2>4. \A i \in M : Place(i) \in 1 .. Cardinality(M) BY <2>2, <2>3
    <2>5. \A i, j \in M : i < j => Place(i) < Place(j) BY <2>2, <2>3
    <2>6. \A k \in 1 .. Cardinality(M) : \E i \in M : Place(i) = k BY <2>2, <2>3
    <2>. QED BY <2>1, <2>2, <2>4, <2>5, <2>6
  <1>7. \A i, j \in Worth : Place(i) = Place(j) => i = j
    <2>. SUFFICES ASSUME NEW i \in Worth, NEW j \in Worth, Place(i) = Place(j) PROVE i = j
      OBVIOUS
    <2>1. i \in Nat /\ j \in Nat BY <1>5
    <2>2. Place(i) \in Nat /\ Place(j) \in Nat BY <1>6
    <2>3. ~(i < j) /\ ~(j < i) BY <1>6, <2>2
    <2>. QED BY <2>1, <2>3
  <1>8. \A k \in 1 .. Cardinality(Worth) : Chosen(k) \in Worth /\ Place(Chosen(k)) = k
    BY <1>6 DEF Chosen
  <1>9. \A i \in Worth : Chosen(Place(i)) = i BY <1>6, <1>7, <1>8
  <1>. QED BY <1>2, <1>6, <1>8, <1>9

LEMMA BatchAdds ==
  ASSUME IInv, ProcessReasoning
  PROVE  /\ feed \in Seq(Item) /\ feed' \in Seq(Item)
         /\ \A k \in DOMAIN feed : k \in DOMAIN feed' /\ feed'[k] = feed[k]
         /\ \A k \in DOMAIN feed' : k \in DOMAIN feed \/
               \E n \in 1 .. Cardinality(Worth) :
                  k = Len(feed) + n /\ feed'[k] = NewItem(Chosen(n))
         /\ \A n \in 1 .. Cardinality(Worth) :
               Len(feed) + n \in DOMAIN feed' /\ feed'[Len(feed) + n] = NewItem(Chosen(n))
  <1> DEFINE new == [n \in 1 .. Cardinality(Worth) |-> NewItem(Chosen(n))]
  <1>1. feed' = feed \o new BY DEF ProcessReasoning, Chosen
  <1>2. feed \in Seq(Item) BY DEF IInv, TypeOK
  <1>3. Cardinality(Worth) \in Nat BY ChosenOnce
  <1>4. ASSUME NEW n \in 1 .. Cardinality(Worth) PROVE NewItem(Chosen(n)) \in Item
    <2>1. Chosen(n) \in DOMAIN events BY ChosenOnce
    <2>2. PICK i \in DOMAIN events : i = Chosen(n) BY <2>1
    <2>3. NewItem(i) \in Item BY NewItemTyped
    <2>. QED BY <2>2, <2>3
  <1>5. new \in Seq(Item) /\ Len(new) = Cardinality(Worth) BY <1>3, <1>4
  <1>6. \A n \in 1 .. Cardinality(Worth) : new[n] = NewItem(Chosen(n)) OBVIOUS
  <1>. HIDE DEF new
  <1>7. feed' \in Seq(Item) /\ DOMAIN feed' = 1 .. Len(feed) + Cardinality(Worth)
        /\ Len(feed) \in Nat /\ DOMAIN feed = 1 .. Len(feed)
    BY <1>1, <1>2, <1>3, <1>5
  <1>8. \A k \in 1 .. Len(feed) : feed'[k] = feed[k] BY <1>1, <1>2, <1>5
  <1>9. \A n \in 1 .. Cardinality(Worth) : feed'[Len(feed) + n] = new[n]
    BY <1>1, <1>2, <1>3, <1>5
  <1>10. \A k \in DOMAIN feed' : k \in DOMAIN feed \/
            \E n \in 1 .. Cardinality(Worth) : k = Len(feed) + n
    <2>. SUFFICES ASSUME NEW k \in DOMAIN feed', k \notin DOMAIN feed
                  PROVE  \E n \in 1 .. Cardinality(Worth) : k = Len(feed) + n
      OBVIOUS
    <2>1. k - Len(feed) \in 1 .. Cardinality(Worth) /\ k = Len(feed) + (k - Len(feed))
      BY <1>3, <1>7
    <2>. QED BY <2>1
  <1>11. \A n \in 1 .. Cardinality(Worth) : Len(feed) + n \in DOMAIN feed' BY <1>3, <1>7
  <1>. QED BY <1>2, <1>3, <1>6, <1>7, <1>8, <1>9, <1>10, <1>11

LEMMA Processing == ASSUME IInv, ProcessReasoning PROVE IInv'
  <1> DEFINE marked == [i \in DOMAIN events |-> [events[i] EXCEPT !.processed = @ \/ i \in Batch]]
  <1>1. /\ events' = marked /\ UNCHANGED <<people, facts, constraints, sessions, call, now>>
    BY DEF ProcessReasoning
  <1>2. events \in Seq(Event) BY DEF IInv, TypeOK
  <1>3. \A i \in DOMAIN events : events[i] \in Event BY <1>2
  <1>4. /\ DOMAIN events' = DOMAIN events
        /\ \A i \in DOMAIN events :
              /\ events'[i] \in Event
              /\ events'[i].fact = events[i].fact /\ events'[i].kind = events[i].kind
              /\ events'[i].subject = events[i].subject
              /\ events'[i].processed <=> events[i].processed \/ i \in Batch
    BY <1>1, <1>3 DEF Event
  <1>5. events' \in Seq(Event) /\ Len(events') = Len(events)
    <2>1. Len(events) \in Nat /\ DOMAIN events = 1 .. Len(events) BY <1>2
    <2>2. events' \in [1 .. Len(events) -> Event] BY <1>1, <1>4, <2>1
    <2>. QED BY <2>1, <2>2
  <1>6. feed' \in Seq(Item) BY BatchAdds
  <1>7. TypeOK' BY <1>1, <1>5, <1>6 DEF IInv, TypeOK
  <1>8. PeopleInv' /\ NamesApart' /\ CallInv' /\ PendingInv'
    BY <1>1 DEF IInv, PeopleInv, NamesApart, CallInv, PendingInv
  <1>9. FactInv'
    <2>1. \A f \in facts : f.id \in DOMAIN events
      <3>1. Len(events) \in Nat /\ DOMAIN events = 1 .. Len(events) BY <1>2
      <3>. QED BY <3>1 DEF IInv, FactInv, TypeOK, Fact, Id, None
    <2>2. \A f \in facts : events'[f.id].kind = f.kind /\ events'[f.id].subject = f.subject
      BY <1>4, <2>1 DEF IInv, FactInv
    <2>3. \A i \in DOMAIN events' : events'[i].fact = i BY <1>4 DEF IInv, FactInv
    <2>. QED BY <1>1, <1>5, <2>2, <2>3 DEF IInv, FactInv
  <1>10. FeedInv'
    <2>1. ASSUME NEW k \in DOMAIN feed'
          PROVE  \/ k \in DOMAIN feed /\ feed'[k] = feed[k]
                 \/ \E n \in 1 .. Cardinality(Worth) :
                       /\ k = Len(feed) + n /\ feed'[k].event = Chosen(n)
                       /\ feed'[k].subject = events[Chosen(n)].subject
      <3>1. CASE k \in DOMAIN feed BY <3>1, BatchAdds
      <3>2. ASSUME NEW n \in 1 .. Cardinality(Worth),
                   k = Len(feed) + n, feed'[k] = NewItem(Chosen(n))
            PROVE  feed'[k].event = Chosen(n) /\ feed'[k].subject = events[Chosen(n)].subject
        <4>1. PICK i \in DOMAIN events : i = Chosen(n) BY ChosenOnce
        <4>. QED BY <3>2, <4>1, NewItemTyped
      <3>. QED BY <3>1, <3>2, BatchAdds
    <2>2. ASSUME NEW n \in 1 .. Cardinality(Worth)
          PROVE  /\ Chosen(n) \in DOMAIN events /\ Chosen(n) \in Batch
                 /\ ~events[Chosen(n)].processed /\ events[Chosen(n)].kind # "constraint"
      BY ChosenOnce
    <2>3. \A k \in DOMAIN feed' :
            /\ feed'[k].event \in DOMAIN events'
            /\ events'[feed'[k].event].processed
            /\ events'[feed'[k].event].kind # "constraint"
            /\ feed'[k].subject = events'[feed'[k].event].subject
      BY <1>4, <2>1, <2>2 DEF IInv, FeedInv
    <2>4. ASSUME NEW k \in DOMAIN feed', NEW l \in DOMAIN feed', feed'[k].event = feed'[l].event
          PROVE  k = l
      <3>1. CASE k \in DOMAIN feed /\ l \in DOMAIN feed
        BY <2>4, <3>1, BatchAdds DEF IInv, FeedInv
      <3>2. CASE k \notin DOMAIN feed /\ l \notin DOMAIN feed
        <4>1. PICK n \in 1 .. Cardinality(Worth), m \in 1 .. Cardinality(Worth) :
                /\ k = Len(feed) + n /\ feed'[k].event = Chosen(n)
                /\ l = Len(feed) + m /\ feed'[l].event = Chosen(m)
          BY <2>1, <3>2
        <4>2. n = m BY <2>4, <4>1, ChosenOnce
        <4>. QED BY <4>1, <4>2
      <3>3. ASSUME NEW a \in DOMAIN feed', NEW b \in DOMAIN feed', a \in DOMAIN feed,
                   b \notin DOMAIN feed, feed'[a].event = feed'[b].event
            PROVE  FALSE
        <4>1. events[feed'[a].event].processed
          BY <3>3, BatchAdds DEF IInv, FeedInv
        <4>2. ~events[feed'[b].event].processed BY <2>1, <2>2, <3>3
        <4>. QED BY <3>3, <4>1, <4>2
      <3>. QED BY <2>4, <3>1, <3>2, <3>3
    <2>5. ASSUME NEW i \in DOMAIN events', events'[i].processed, events'[i].kind # "constraint"
          PROVE  \E k \in DOMAIN feed' : feed'[k].event = i
      <3>1. i \in DOMAIN events /\ events[i].kind # "constraint" BY <1>4, <2>5
      <3>2. CASE events[i].processed
        <4>1. PICK k \in DOMAIN feed : feed[k].event = i BY <3>1, <3>2 DEF IInv, FeedInv
        <4>. QED BY <4>1, BatchAdds
      <3>3. CASE ~events[i].processed
        <4>1. i \in Batch BY <1>4, <2>5, <3>1, <3>3
        <4>2. i \in Worth BY <3>1, <4>1 DEF Worth
        <4>3. PICK n \in 1 .. Cardinality(Worth) : Chosen(n) = i BY <4>2, ChosenOnce
        <4>4. Len(feed) + n \in DOMAIN feed' /\ feed'[Len(feed) + n] = NewItem(i)
          BY <4>3, BatchAdds
        <4>5. NewItem(i).event = i BY <3>1, NewItemTyped
        <4>. QED BY <4>4, <4>5
      <3>. QED BY <3>2, <3>3
    <2>. QED BY <2>3, <2>4, <2>5 DEF FeedInv
  <1>. QED BY <1>7, <1>8, <1>9, <1>10 DEF IInv

LEMMA Releasing == ASSUME IInv, ReleaseHeld PROVE IInv'
  <1>1. /\ feed' = [i \in DOMAIN feed |->
             IF Due(feed[i]) THEN [feed[i] EXCEPT !.status = "active", !.until = Open] ELSE feed[i]]
        /\ UNCHANGED <<people, facts, constraints, events, sessions, call, now>>
    BY DEF ReleaseHeld
  <1>2. feed \in Seq(Item) BY DEF IInv, TypeOK
  <1>3. \A k \in DOMAIN feed : feed[k] \in Item BY <1>2
  <1>4. /\ DOMAIN feed' = DOMAIN feed
        /\ \A k \in DOMAIN feed : feed'[k] \in Item /\ feed'[k].event = feed[k].event
                                  /\ feed'[k].subject = feed[k].subject
    BY <1>1, <1>3 DEF Item
  <1>5. feed' \in Seq(Item)
    <2>1. Len(feed) \in Nat /\ DOMAIN feed = 1 .. Len(feed) BY <1>2
    <2>2. feed' \in [1 .. Len(feed) -> Item] BY <1>1, <1>4, <2>1
    <2>. QED BY <2>1, <2>2
  <1>6. TypeOK' BY <1>1, <1>5 DEF IInv, TypeOK
  <1>7. /\ PeopleInv' /\ NamesApart'
        /\ FactInv'
        /\ CallInv' /\ PendingInv'
    <2>1. PeopleInv' /\ NamesApart' BY <1>1 DEF IInv, PeopleInv, NamesApart
    <2>2. FactInv' BY <1>1 DEF IInv, FactInv
    <2>3. CallInv' /\ PendingInv' BY <1>1 DEF IInv, CallInv, PendingInv
    <2>. QED BY <2>1, <2>2, <2>3
  <1>8. FeedInv'
    <2>1. events' = events BY <1>1
    <2>. QED BY <1>4, <2>1 DEF IInv, FeedInv
  <1>. QED BY <1>6, <1>7, <1>8 DEF IInv

LEMMA Ticking == ASSUME IInv, Tick PROVE IInv'
  <1>1. now' \in Time /\ now \in Time /\ now' = now + 1
        /\ UNCHANGED <<people, facts, constraints, events, feed, sessions, call>>
    BY SliceAssumption DEF Tick, IInv, TypeOK, Time
  <1>2. TypeOK' BY <1>1 DEF IInv, TypeOK
  <1>3. PeopleInv'
    <2>1. \A p \in people : p.touched \in Time /\ p.touched <= now
      BY DEF IInv, TypeOK, Person, PeopleInv
    <2>2. \A p \in people : p.touched <= now' BY <1>1, <2>1, SliceAssumption DEF Time
    <2>. QED BY <1>1, <2>2 DEF IInv, PeopleInv
  <1>4. NamesApart' /\ FactInv' /\ FeedInv' /\ CallInv' /\ PendingInv'
    BY <1>1 DEF IInv, NamesApart, FactInv, FeedInv, CallInv, PendingInv
  <1>. QED BY <1>2, <1>3, <1>4 DEF IInv

LEMMA Keeps == IInv /\ [Next]_vars => IInv'
  <1>. SUFFICES ASSUME IInv, [Next]_vars PROVE IInv' OBVIOUS
  <1>1. CASE Step
    BY <1>1, Completing, Asking, Writing, Challenging, Noting, Constraining, Raising DEF Step
  <1>2. ASSUME NEW s \in Sessions, NEW words \in Utterances, StartDebrief(s, words) PROVE IInv'
    BY <1>2, Starting
  <1>3. ASSUME NEW s \in Sessions, ResolveChallenge(s) PROVE IInv' BY <1>3, Resolving
  <1>4. CASE ProcessReasoning \/ ReleaseHeld \/ Tick BY <1>4, Processing, Releasing, Ticking
  <1>5. CASE UNCHANGED vars
    <2>1. TypeOK' BY <1>5 DEF vars, IInv, TypeOK
    <2>2. PeopleInv' /\ NamesApart' BY <1>5 DEF vars, IInv, PeopleInv, NamesApart
    <2>3. FactInv' /\ FeedInv' BY <1>5 DEF vars, IInv, FactInv, FeedInv
    <2>4. CallInv' /\ PendingInv' BY <1>5 DEF vars, IInv, CallInv, PendingInv
    <2>. QED BY <2>1, <2>2, <2>3, <2>4 DEF IInv
  <1>. QED BY <1>1, <1>2, <1>3, <1>4, <1>5 DEF Next

LEMMA Invariant == Spec => []IInv
  BY Begins, Keeps, PTL DEF Spec

\* Every record of people, facts, events and the feed keeps the shape the engine
\* gives it, wherever a debrief stops or raises (Engine).
THEOREM TypeCorrect == Spec => []TypeOK
  <1>1. IInv => TypeOK BY DEF IInv
  <1>. QED BY Invariant, <1>1, PTL

\* Nobody is added under a name within 0.90 of anybody's, for any similarities
\* and however long ago people were touched (resolve_entity).
THEOREM NobodyIsMetTwice == Spec => []NamesApart
  <1>1. IInv => NamesApart BY DEF IInv
  <1>. QED BY Invariant, <1>1, PTL

\* Every fact has one event and every event worth it one item, however facts come
\* and in whatever batches events are taken (_apply_mutations, process_reasoning).
THEOREM FeedIsExact == Spec => []FeedExact
  <1>1. IInv => FeedExact
    <2>. SUFFICES ASSUME IInv PROVE FeedExact OBVIOUS
    <2>1. events \in Seq(Event) /\ Len(events) = Cardinality(facts) BY DEF IInv, TypeOK, FactInv
    <2>2. Len(events) \in Nat /\ DOMAIN events = 1 .. Len(events) BY <2>1
    <2>3. ASSUME NEW f \in facts
          PROVE  \E i \in DOMAIN events :
                   /\ events[i].fact = f.id /\ events[i].kind = f.kind
                   /\ events[i].subject = f.subject
                   /\ \A j \in DOMAIN events : events[j].fact = f.id => j = i
      <3>1. f.id \in DOMAIN events
        BY <2>1, <2>2 DEF IInv, FactInv, TypeOK, Fact, Id, None
      <3>. QED BY <3>1 DEF IInv, FactInv
    <2>4. ASSUME NEW i \in DOMAIN events
          PROVE  Cardinality(ItemsOf(i)) = IF events[i].processed /\ events[i].kind # "constraint"
                                           THEN 1 ELSE 0
      <3>1. CASE events[i].processed /\ events[i].kind # "constraint"
        <4>1. PICK k \in DOMAIN feed : feed[k].event = i BY <3>1 DEF IInv, FeedInv
        <4>2. ItemsOf(i) = {k} BY <4>1 DEF ItemsOf, IInv, FeedInv
        <4>. QED BY <3>1, <4>2, FS_Singleton
      <3>2. CASE ~(events[i].processed /\ events[i].kind # "constraint")
        <4>1. ItemsOf(i) = {} BY <3>2 DEF ItemsOf, IInv, FeedInv
        <4>. QED BY <3>2, <4>1, FS_EmptySet
      <3>. QED BY <3>1, <3>2
    <2>5. \A k \in DOMAIN feed : /\ feed[k].event \in DOMAIN events
                                 /\ feed[k].subject = events[feed[k].event].subject
      BY DEF IInv, FeedInv
    <2>. QED BY <2>1, <2>3, <2>4, <2>5 DEF FeedExact
  <1>. QED BY Invariant, <1>1, PTL

-----------------------------------------------------------------------------
\* The first of a person's boundaries that are in force blocks, if there is one.
LEMMA FirstBlocks ==
  ASSUME IInv, NEW p, NEW inForce, inForce = {i \in Of(p) : ActiveAt(constraints[i], now)}
  PROVE  Blockers(p) \subseteq inForce /\ (Blockers(p) = {} => inForce = {})
  <1>1. Blockers(p) = {i \in inForce : \A j \in inForce : i <= j} BY DEF Blockers
  <1>2. constraints \in Seq(Constraint) BY DEF IInv, TypeOK
  <1>3. Len(constraints) \in Nat /\ DOMAIN constraints = 1 .. Len(constraints) BY <1>2
  <1>4. inForce \in SUBSET (1 .. Len(constraints)) BY <1>3 DEF Of
  <1>5. IsFiniteSet(inForce)
    <2>1. IsFiniteSet(1 .. Len(constraints)) BY <1>3, FS_Interval
    <2>. QED BY <1>4, <2>1, FS_Subset
  <1>6. inForce \in SUBSET Nat BY <1>3, <1>4
  <1>7. ASSUME inForce # {} PROVE Blockers(p) # {}
    <2>1. Cardinality(inForce) \in Nat /\ Cardinality(inForce) # 0
      BY <1>5, <1>7, FS_EmptySet, FS_CardinalityType
    <2>2. 1 \in 1 .. Cardinality(inForce) BY <2>1
    <2>3. PICK i \in inForce : Cardinality({j \in inForce : j <= i}) = 1
      BY <1>5, <1>6, <2>2, Ranks
    <2>4. ASSUME NEW j \in inForce PROVE i <= j
      <3>1. i \in Nat /\ j \in Nat BY <1>6
      <3>2. SUFFICES ASSUME j < i PROVE FALSE BY <3>1
      <3>3. Cardinality({k \in inForce : k <= j}) \in 1 .. Cardinality(inForce)
        BY <1>5, <1>6, Ranks
      <3>4. Cardinality({k \in inForce : k <= j}) < Cardinality({k \in inForce : k <= i})
        BY <1>5, <1>6, <3>2, Ranks
      <3>. QED BY <2>3, <3>3, <3>4
    <2>. QED BY <1>1, <2>3, <2>4
  <1>. QED BY <1>1, <1>7

\* Only process_reasoning adds to the feed.
LEMMA OnlyBatchesAdd ==
  ASSUME IInv, [Next]_vars, DOMAIN feed' \ DOMAIN feed # {}
  PROVE  ProcessReasoning
  <1>1. feed' # feed OBVIOUS
  <1>2. ~ReleaseHeld BY DEF ReleaseHeld
  <1>3. ~Step
    BY <1>1 DEF Step, Complete, AskWho, WriteFact, RaiseChallenge, WriteTrait, WriteConstraint, Raise
  <1>4. ~Tick /\ ~UNCHANGED vars BY <1>1 DEF Tick, vars
  <1>5. \A s \in Sessions, words \in Utterances : ~StartDebrief(s, words) BY <1>1 DEF StartDebrief
  <1>6. \A s \in Sessions : ~ResolveChallenge(s) BY <1>1 DEF ResolveChallenge
  <1>. QED BY <1>2, <1>3, <1>4, <1>5, <1>6 DEF Next

\* What a batch adds to the feed shows only if no boundary of the person is in
\* force, and is held until the end of one that is (_handle_mutation).
THEOREM ItemsAreBornQuiet == Spec => BornQuiet
  <1>1. ASSUME IInv, [Next]_vars
        PROVE  [\A k \in DOMAIN feed' \ DOMAIN feed :
                  LET inForce == {i \in Of(feed'[k].subject) : ActiveAt(constraints[i], now)}
                  IN  IF feed'[k].status = "active" THEN inForce = {}
                      ELSE \E i \in inForce : feed'[k].until = constraints[i].end]_vars
    <2>. SUFFICES ASSUME NEW k \in DOMAIN feed' \ DOMAIN feed
                  PROVE  LET inForce == {i \in Of(feed'[k].subject) : ActiveAt(constraints[i], now)}
                         IN  IF feed'[k].status = "active" THEN inForce = {}
                             ELSE \E i \in inForce : feed'[k].until = constraints[i].end
      OBVIOUS
    <2>1. ProcessReasoning BY <1>1, OnlyBatchesAdd
    <2>2. PICK n \in 1 .. Cardinality(Worth) : feed'[k] = NewItem(Chosen(n))
      BY <1>1, <2>1, BatchAdds
    <2>3. PICK i : i = Chosen(n) OBVIOUS
    <2>4. PICK p : p = events[i].subject OBVIOUS
    <2>5. /\ feed'[k].subject = p
          /\ feed'[k].status = IF Blockers(p) # {} THEN "held" ELSE "active"
          /\ feed'[k].until = IF Blockers(p) # {}
                              THEN constraints[CHOOSE b \in Blockers(p) : TRUE].end ELSE Open
      BY <2>2, <2>3, <2>4 DEF NewItem
    <2>6. PICK inForce : inForce = {b \in Of(p) : ActiveAt(constraints[b], now)} OBVIOUS
    <2>7. Blockers(p) \subseteq inForce /\ (Blockers(p) = {} => inForce = {})
      BY <1>1, <2>6, FirstBlocks
    <2>8. IF feed'[k].status = "active" THEN inForce = {}
          ELSE \E b \in inForce : feed'[k].until = constraints[b].end
      <3>1. CASE Blockers(p) = {} BY <2>5, <2>7, <3>1
      <3>2. CASE Blockers(p) # {}
        <4>1. PICK b \in Blockers(p) : b = CHOOSE c \in Blockers(p) : TRUE BY <3>2
        <4>. QED BY <2>5, <2>7, <3>2, <4>1
      <3>. QED BY <3>1, <3>2
    <2>. QED BY <2>5, <2>6, <2>8
  <1>. QED BY Invariant, <1>1, PTL DEF Spec, BornQuiet

-----------------------------------------------------------------------------
\* The engine implements FactBook.
Pages(table) == {Entry(f) : f \in table}

LEMMA EntryFields ==
  ASSUME NEW f
  PROVE  /\ Entry(f).id = f.id /\ Entry(f).subject = f.subject /\ Entry(f).entity = f.entity
         /\ Entry(f).value = f.value /\ Entry(f).how = How(f.kind)
         /\ Entry(f).next = f.supersededBy
  BY DEF Entry

LEMMA Hows ==
  How("plain") = "said" /\ How("trait") = "noted" /\ How("constraint") = "noted"
    /\ How("resolution") = "verified"
  BY DEF How

\* One fact more is something said or noted, if what is said agrees with what
\* stood.
LEMMA RecordSays ==
  ASSUME IInv, IInv', NEW f \in Fact, f.id = NextFact, facts' = facts \cup {f},
         f.kind \in {"plain", "trait", "constraint"}, f.supersededBy = None,
         f.kind = "plain" =>
            \A g \in GetActive(f.subject, f.entity) : ~Contradicts(g.value, f.value)
  PROVE  Book!Say
  <1>1. IsFiniteSet(facts) /\ Cardinality(facts) \in Nat
    BY FS_CardinalityType DEF IInv, FactInv
  <1>2. \A g \in facts : g \in Fact /\ g.id \in Nat /\ g.id < NextFact /\ g.supersededBy \in Nat
    BY <1>1 DEF IInv, FactInv, TypeOK, Fact, Id, NextFact
  <1>3. Pages(facts) \subseteq Pages(facts') BY DEF Pages
  <1>4. ASSUME NEW x \in Pages(facts') \ Pages(facts) PROVE x = Entry(f) BY <1>4 DEF Pages
  <1> DEFINE x == Entry(f)
  <1>5. /\ x.id = f.id /\ x.subject = f.subject /\ x.entity = f.entity
        /\ x.value = f.value /\ x.how = How(f.kind) /\ x.next = f.supersededBy
    BY EntryFields
  <1>6. x.next = Book!None BY <1>5 DEF Book!None, None
  <1>7. x.how # "verified" /\ (x.how = "said" => f.kind = "plain") BY <1>5, Hows
  <1>. HIDE DEF x
  <1>8. ASSUME NEW y \in Pages(facts'), y.id = x.id PROVE y = x
    <2>1. PICK g \in facts' : y = Entry(g) BY DEF Pages
    <2>2. g.id = f.id BY <1>5, <1>8, <2>1, EntryFields
    <2>3. g = f BY <1>2, <2>2
    <2>. QED BY <2>1, <2>3 DEF x
  <1>9. ASSUME x.how = "said",
               NEW y \in Book!Current(Pages(facts) \cup {z \in Pages(facts') : z.id < x.id},
                                      x.subject, x.entity)
        PROVE  ~Contradicts(y.value, x.value)
    <2> DEFINE pages == Pages(facts) \cup {z \in Pages(facts') : z.id < x.id}
    <2>1. ASSUME NEW z \in pages PROVE \E g \in facts : z = Entry(g)
      <3>1. CASE z \in Pages(facts) BY <3>1 DEF Pages
      <3>2. CASE z \in Pages(facts') /\ z.id < x.id
        <4>1. PICK g \in facts' : z = Entry(g) BY <3>2 DEF Pages
        <4>2. g.id < f.id /\ f.id \in Nat
          BY <1>5, <3>2, <4>1, EntryFields DEF Fact, Id
        <4>3. g # f BY <4>2
        <4>. QED BY <4>1, <4>3
      <3>. QED BY <3>1, <3>2
    <2>2. ASSUME NEW g \in facts PROVE Entry(g) \in pages BY DEF Pages
    <2>. HIDE DEF pages
    <2>3. y \in pages /\ y.subject = x.subject /\ y.entity = x.entity /\ y.next = Book!None
      BY DEF Book!Current, Book!Standing, pages
    <2>4. \A z \in pages : z.subject = x.subject /\ z.entity = x.entity /\ z.next = Book!None =>
             z.id <= y.id
      BY DEF Book!Current, Book!Standing, pages
    <2>5. PICK g \in facts : y = Entry(g) BY <2>1, <2>3
    <2>6. g.subject = f.subject /\ g.entity = f.entity /\ g.supersededBy = None
          /\ g.value = y.value
      BY <1>5, <2>3, <2>5, EntryFields DEF Book!None, None
    <2>7. ASSUME NEW h \in facts, h.subject = f.subject, h.entity = f.entity,
                 h.supersededBy = None
          PROVE  h.id <= g.id
      BY <1>5, <2>2, <2>4, <2>5, <2>7, EntryFields DEF Book!None, None
    <2>8. g \in GetActive(f.subject, f.entity) BY <2>6, <2>7 DEF GetActive
    <2>. QED BY <1>5, <1>7, <1>9, <2>6, <2>8
  <1>10. Pages(facts) = {Entry(g) : g \in facts} /\ Pages(facts') = {Entry(g) : g \in facts'}
    BY DEF Pages
  <1>11. \A z \in Pages(facts') \ Pages(facts) : z = x BY <1>4 DEF x
  <1>. QED BY <1>3, <1>6, <1>7, <1>8, <1>9, <1>10, <1>11 DEF Book!Say

\* An answer adds a verified entry and points the challenged one at it.
LEMMA ResolveAnswers ==
  ASSUME IInv, NEW s \in Sessions, ResolveChallenge(s)
  PROVE  Book!Answer
  <1> DEFINE c == sessions[s].pending
  <1>1. PICK value \in Accepted \cup {c.candidate}, note \in Notes :
          facts' = Supersede(facts, c.existing, NextFact)
                     \cup {NewFact(NextFact, c.subject, c.entity, Annotate(value, note), "resolution")}
    BY DEF ResolveChallenge, NewFact
  <1>2. PICK n : n = NewFact(NextFact, c.subject, c.entity, Annotate(value, note), "resolution")
    OBVIOUS
  <1>3. n.id = NextFact /\ n.subject = c.subject /\ n.entity = c.entity /\ n.kind = "resolution"
        /\ n.supersededBy = None
    BY <1>2 DEF NewFact
  <1>4. c.type = "challenge" BY DEF ResolveChallenge
  <1>5. PICK o \in facts : o.id = c.existing /\ o.subject = c.subject /\ o.entity = c.entity
    BY <1>4 DEF IInv, PendingInv
  <1>6. IsFiniteSet(facts) /\ Cardinality(facts) \in Nat
    BY FS_CardinalityType DEF IInv, FactInv
  <1>7. \A g \in facts : g \in Fact /\ g.id \in Nat /\ g.id < NextFact
    BY <1>6 DEF IInv, FactInv, TypeOK, Fact, Id, NextFact
  <1>8. \A g, h \in facts : g.id = h.id => g = h BY DEF IInv, FactInv
  <1>9. ASSUME NEW g \in facts
        PROVE  Entry(Pointed(g, o.id, NextFact)) =
                 IF g = o THEN [Entry(o) EXCEPT !.next = NextFact] ELSE Entry(g)
    <2>1. CASE g = o BY <1>7, <2>1 DEF Pointed, Entry, Fact
    <2>2. CASE g # o BY <1>8, <2>2 DEF Pointed
    <2>. QED BY <2>1, <2>2
  <1>10. facts' = {Pointed(g, o.id, NextFact) : g \in facts} \cup {n}
    BY <1>1, <1>2, <1>5 DEF Supersede, Pointed
  <1>11. \A g \in facts : g # o => Entry(g) # Entry(o)
    <2>1. \A g \in facts : Entry(g) = Entry(o) => g.id = o.id BY EntryFields
    <2>. QED BY <1>8, <2>1
  <1>12. Pages(facts') = (Pages(facts) \ {Entry(o)})
                            \cup {[Entry(o) EXCEPT !.next = NextFact], Entry(n)}
    <2>1. ASSUME NEW x \in Pages(facts')
          PROVE  x \in (Pages(facts) \ {Entry(o)})
                          \cup {[Entry(o) EXCEPT !.next = NextFact], Entry(n)}
      <3>1. PICK k \in facts' : x = Entry(k) BY DEF Pages
      <3>2. CASE k = n BY <3>1, <3>2
      <3>3. ASSUME NEW g \in facts, k = Pointed(g, o.id, NextFact)
            PROVE  x \in (Pages(facts) \ {Entry(o)})
                            \cup {[Entry(o) EXCEPT !.next = NextFact], Entry(n)}
        <4>1. CASE g = o BY <1>9, <3>1, <3>3, <4>1
        <4>2. CASE g # o
          <5>1. x = Entry(g) /\ x # Entry(o) BY <1>9, <1>11, <3>1, <3>3, <4>2
          <5>2. x \in Pages(facts) BY <5>1 DEF Pages
          <5>. QED BY <5>1, <5>2
        <4>. QED BY <4>1, <4>2
      <3>. QED BY <1>10, <3>2, <3>3
    <2>2. ASSUME NEW x \in Pages(facts), x # Entry(o) PROVE x \in Pages(facts')
      <3>1. PICK g \in facts : x = Entry(g) BY <2>2 DEF Pages
      <3>2. g # o BY <2>2, <3>1
      <3>3. x = Entry(Pointed(g, o.id, NextFact)) BY <1>9, <3>1, <3>2
      <3>4. Pointed(g, o.id, NextFact) \in facts' BY <1>10
      <3>. QED BY <3>3, <3>4 DEF Pages
    <2>3. [Entry(o) EXCEPT !.next = NextFact] \in Pages(facts') /\ Entry(n) \in Pages(facts')
      <3>1. Pointed(o, o.id, NextFact) \in facts' /\ n \in facts' BY <1>10
      <3>2. Entry(Pointed(o, o.id, NextFact)) = [Entry(o) EXCEPT !.next = NextFact] BY <1>9
      <3>. QED BY <3>1, <3>2 DEF Pages
    <2>. QED BY <2>1, <2>2, <2>3
  <1>13. Entry(o) \in Pages(facts) /\ Entry(n) \in Pages(facts') BY <1>12 DEF Pages
  <1>14. /\ Entry(n).how = "verified" /\ Entry(n).next = Book!None
         /\ Entry(n).subject = Entry(o).subject /\ Entry(n).entity = Entry(o).entity
         /\ Entry(n).id = NextFact /\ Entry(o).id < Entry(n).id
    BY <1>3, <1>5, <1>7, EntryFields, Hows DEF Book!None, None
  <1>15. \A y \in Pages(facts) : y.id # Entry(n).id
    <2>. SUFFICES ASSUME NEW y \in Pages(facts) PROVE y.id # NextFact BY <1>14
    <2>1. PICK g \in facts : y = Entry(g) BY DEF Pages
    <2>2. g.id < NextFact /\ g.id \in Nat /\ NextFact \in Nat BY <1>6, <1>7 DEF NextFact
    <2>. QED BY <2>1, <2>2, EntryFields
  <1>16. Pages(facts) = {Entry(g) : g \in facts} /\ Pages(facts') = {Entry(g) : g \in facts'}
    BY DEF Pages
  <1>. QED BY <1>12, <1>13, <1>14, <1>15, <1>16 DEF Book!Answer

\* Which actions write facts.
LEMMA FactWriters ==
  ASSUME [Next]_vars, facts' # facts
  PROVE  WriteFact \/ WriteTrait \/ WriteConstraint \/ \E s \in Sessions : ResolveChallenge(s)
  <1>1. ~ReleaseHeld /\ ~Tick /\ ~ProcessReasoning /\ ~UNCHANGED vars
    BY DEF ReleaseHeld, Tick, ProcessReasoning, vars
  <1>2. ~Complete /\ ~AskWho /\ ~RaiseChallenge /\ ~Raise
    BY DEF Complete, AskWho, RaiseChallenge, Raise
  <1>3. \A s \in Sessions, words \in Utterances : ~StartDebrief(s, words) BY DEF StartDebrief
  <1>. QED BY <1>1, <1>2, <1>3 DEF Next, Step

\* A fact that is written is said: what is plain was compared with the active
\* fact, wherever the debrief is.
LEMMA WritesSay ==
  ASSUME IInv, IInv', NEW edges, AtMutation(edges), NEW p \in Id, NEW entity \in Entities,
         NEW kind \in {"plain", "trait", "constraint"}, Record(p, entity, kind),
         kind = "plain" => entity = Head(call.todo).entity /\ Contradicted(p) = {}
  PROVE  Book!Say
  <1>1. PICK f : f = NewFact(NextFact, p, entity, Head(call.todo).value, kind) OBVIOUS
  <1>2. facts' = facts \cup {f} BY <1>1 DEF Record
  <1>3. f.id = NextFact /\ f.kind = kind /\ f.subject = p /\ f.entity = entity
        /\ f.value = Head(call.todo).value /\ f.supersededBy = None
    BY <1>1 DEF NewFact
  <1>4. f \in Fact BY <1>2 DEF IInv, TypeOK
  <1>5. kind = "plain" => \A g \in GetActive(f.subject, f.entity) : ~Contradicts(g.value, f.value)
    BY <1>3 DEF Contradicted
  <1>. QED BY <1>2, <1>3, <1>4, <1>5, RecordSays

\* What a debrief or an answer does to the facts is what the book allows: to add
\* what agrees with what stood, or to answer one entry, batches and raises
\* notwithstanding (_apply_mutations, resolve_challenge).
THEOREM EngineKeepsTheBook == Spec => ImplementsBook
  <1>1. Init => Book!Init BY DEF Init, Book!Init
  <1>2. IInv /\ IInv' /\ [Next]_vars => [Book!Next]_({Entry(f) : f \in facts})
    <2>. SUFFICES ASSUME IInv, IInv', [Next]_vars,
                         {Entry(f) : f \in facts}' # {Entry(f) : f \in facts}
                  PROVE  Book!Next
      OBVIOUS
    <2>1. facts' # facts OBVIOUS
    <2>2. CASE WriteFact
      <3>1. AtMutation({"NONE"}) /\ now' = now BY <2>2 DEF WriteFact
      <3>2. PICK p \in Known :
              About(p) /\ Contradicted(p) = {} /\ Record(p, Head(call.todo).entity, "plain")
        BY <2>2 DEF WriteFact
      <3>3. p \in Id BY <3>1, <3>2, Met
      <3>4. PICK entity \in Entities : entity = Head(call.todo).entity
        BY <3>1, MutationTyped DEF Mutation
      <3>5. Record(p, entity, "plain") BY <3>2, <3>4
      <3>. QED BY <3>1, <3>2, <3>3, <3>4, <3>5, WritesSay DEF Book!Next
    <2>3. CASE WriteTrait
      <3>1. AtMutation({"HAS_TRAIT"}) /\ now' = now BY <2>3 DEF WriteTrait
      <3>2. PICK p \in Known : About(p) /\ Record(p, Head(call.todo).entity, "trait")
        BY <2>3 DEF WriteTrait
      <3>3. p \in Id BY <3>1, <3>2, Met
      <3>4. PICK entity \in Entities : entity = Head(call.todo).entity
        BY <3>1, MutationTyped DEF Mutation
      <3>5. Record(p, entity, "trait") BY <3>2, <3>4
      <3>. QED BY <3>1, <3>3, <3>5, WritesSay DEF Book!Next
    <2>4. CASE WriteConstraint
      <3>1. AtMutation({"CONSTRAINED_BY"}) /\ now' = now BY <2>4 DEF WriteConstraint
      <3>2. PICK p \in Known : About(p) /\ Record(p, "Constraint", "constraint")
        BY <2>4 DEF WriteConstraint
      <3>3. p \in Id BY <3>1, <3>2, Met
      <3>4. "Constraint" \in Entities BY SliceAssumption
      <3>. QED BY <3>1, <3>2, <3>3, <3>4, WritesSay DEF Book!Next
    <2>5. ASSUME NEW s \in Sessions, ResolveChallenge(s) PROVE Book!Next
      BY <2>5, ResolveAnswers DEF Book!Next
    <2>. QED BY <2>1, <2>2, <2>3, <2>4, <2>5, FactWriters
  <1>. QED BY Begins, Keeps, <1>1, <1>2, PTL DEF Spec, ImplementsBook, Book!Spec
=============================================================================
