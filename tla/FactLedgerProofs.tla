-------------------------- MODULE FactLedgerProofs --------------------------
(***************************************************************************)
(* What holds of FactLedger for any number of requests, people, utterances *)
(* and rows.                                                               *)
(*                                                                         *)
(* None of the invariants of FactLedger is inductive alone: what a commit  *)
(* makes visible was gathered over many steps, so the invariant must also  *)
(* say what a transaction holds before it commits (TxnShape, TxnEvents)    *)
(* and that ids are given in order (Keys).                                 *)
(***************************************************************************)
EXTENDS FactLedger, FiniteSetTheorems, TLAPS

\* Ids are given in order, and whatever has one was given it before now.
Keys == /\ \A f \in facts : f.id < nextFact
        /\ \A r \in Requests : \A f \in txn[r].facts : f.id < nextFact

\* What a request holds at each of its steps.
TxnShape(r) ==
    LET t == txn[r]
    IN  /\ ~Busy(r) => t = [Idle(r) EXCEPT !.pc = t.pc]
        /\ t.pc \in {"next", "write", "claim"} => t.origin # "challenge"
        /\ t.pc \in {"supersede", "settle"} => t.origin = "challenge"
        /\ t.pc \in {"touch", "write", "claim", "supersede"} => t.subject # None
        /\ t.pc \in {"write", "claim"} => t.todo # <<>>
        /\ t.pc = "touch" /\ t.origin # "challenge" => t.todo # <<>>
        /\ t.origin # "challenge" =>
              /\ t.old = None
              /\ \A f \in t.facts : f.kind # "resolution"
        /\ t.origin = "challenge" =>
              /\ \E g \in facts : g.id = t.old
              /\ \E f \in t.facts : /\ t.facts = {f}
                                    /\ f.kind = "resolution"
                                    /\ t.old < f.id
        /\ \A f \in t.facts : f.supersededBy = None

\* The events a request has buffered are those of the facts it has buffered.
TxnEvents(r) ==
    LET t == txn[r]
    IN  /\ \A f \in t.facts : \E e \in t.events : e.fact = f.id
        /\ \A e \in t.events :
              /\ \E f \in t.facts : f.id = e.fact /\ e.kind = EventFor(f.kind)
              /\ e.kind = "fact_superseded" => e.old = t.old

TxnInv == \A r \in Requests : TxnShape(r) /\ TxnEvents(r)

IInv == /\ TypeOK
        /\ Keys
        /\ TxnInv
        /\ SupersededByLater
        /\ OutboxExact
        /\ ChallengeGrounded
        /\ AwaitingIffPending

-----------------------------------------------------------------------------
\* A value stays one when the database stores it or an answer annotates it.
LEMMA StoredValue == ASSUME NEW v \in Value PROVE Stored(v) \in Value
  BY DEF Stored, Value, Scalar, Object, Money, Null, Number, Text

LEMMA AnnotateValue ==
  ASSUME NEW v \in Value, NEW n \in Notes PROVE Annotate(v, n) \in Value
<1>1. CASE v \in Scalar
  <2>1. v.shape \notin {"money", "object"}
    BY <1>1 DEF Scalar, Null, Number, Text
  <2> QED
    BY <1>1, <2>1 DEF Annotate, Value, Object
<1>2. CASE v \in Money
  BY <1>2 DEF Annotate, Value, Money
<1>3. CASE v \in Object
  BY <1>3 DEF Annotate, Value, Object
<1> QED
  BY <1>1, <1>2, <1>3 DEF Value

\* The same fact, but for what superseded it.
Same(f, g) == g = [f EXCEPT !.supersededBy = g.supersededBy]

\* Superseding changes nothing of a fact but its superseded_by, and no other
\* fact at all.
LEMMA SupersedeFacts ==
  ASSUME NEW table \in SUBSET Fact, NEW old \in Id, NEW new \in Id
  PROVE  /\ Supersede(table, old, new) \subseteq Fact
         /\ \A f \in table : \E g \in Supersede(table, old, new) :
               /\ Same(f, g)
               /\ g.supersededBy = (IF f.id = old THEN new ELSE f.supersededBy)
         /\ \A g \in Supersede(table, old, new) : \E f \in table :
               /\ Same(f, g)
               /\ g.supersededBy = (IF f.id = old THEN new ELSE f.supersededBy)
         /\ \A f \in table : f.id # old => f \in Supersede(table, old, new)
<1> DEFINE After(f) == IF f.id = old THEN [f EXCEPT !.supersededBy = new] ELSE f
<1>1. \A f \in table :
         /\ After(f) \in Fact
         /\ After(f).supersededBy = (IF f.id = old THEN new ELSE f.supersededBy)
         /\ Same(f, After(f))
  <2> SUFFICES ASSUME NEW f \in Fact
               PROVE  /\ After(f) \in Fact
                      /\ After(f).supersededBy = (IF f.id = old THEN new ELSE f.supersededBy)
                      /\ Same(f, After(f))
    OBVIOUS
  <2>1. CASE f.id = old
    BY <2>1 DEF Fact, Id, Same
  <2>2. CASE f.id # old
    BY <2>2 DEF Fact, Same
  <2> QED
    BY <2>1, <2>2
<1>2. Supersede(table, old, new) = {After(f) : f \in table}
  BY DEF Supersede
<1>3. \A f \in table : f.id # old => After(f) = f
  OBVIOUS
<1> HIDE DEF After
<1> QED
  BY <1>1, <1>2, <1>3

-----------------------------------------------------------------------------
\* A request that does not run holds nothing.
LEMMA EndedTxn ==
  ASSUME NEW r \in Requests, NEW how \in PCs PROVE Ended(r, how) \in Txn
<1>1. Idle(r) \in Txn
  BY DEF Idle, Txn, PCs, None
<1> QED
  BY <1>1 DEF Ended, Txn

LEMMA InitInv == Init => IInv
<1> SUFFICES ASSUME Init PROVE IInv
  OBVIOUS
<1> USE DEF Init
<1>1. TypeOK
  <2>1. \A r \in Requests : Idle(r) \in Txn
    BY DEF Idle, Txn, PCs, Steps, None
  <2>2. NoSession \in Session
    BY DEF NoSession, Session, Statuses, Pending, NoPending
  <2> QED
    BY <2>1, <2>2, LedgerAssumption DEF TypeOK, Id, None
<1>2. Keys
  BY DEF Keys, Idle
<1>3. TxnInv
  BY DEF TxnInv, TxnShape, TxnEvents, Idle, Busy, Steps, None
<1>4. SupersededByLater /\ OutboxExact
  BY DEF SupersededByLater, OutboxExact
<1>5. ChallengeGrounded /\ AwaitingIffPending
  BY DEF ChallengeGrounded, AwaitingIffPending, NoSession, NoPending
<1> QED
  BY <1>1, <1>2, <1>3, <1>4, <1>5 DEF IInv

\* A step that changes only what request r is doing.
LEMMA LocalStep ==
  ASSUME IInv, NEW r \in Requests, NEW t \in Txn,
         txn' = [txn EXCEPT ![r] = t],
         UNCHANGED tables,
         nextNode' \in Id, nextFact' \in Id, nextFact <= nextFact',
         \A f \in t.facts : f.id < nextFact',
         TxnShape(r)', TxnEvents(r)'
  PROVE  IInv'
<1> USE DEF IInv
<1>0. txn'[r] = t /\ \A q \in Requests \ {r} : txn'[q] = txn[q]
  BY DEF TypeOK
<1>1. TypeOK'
  BY DEF TypeOK, tables
<1>2. Keys'
  <2>1. \A q \in Requests : txn[q].facts \subseteq Fact
    BY DEF TypeOK, Txn
  <2>2. \A f \in Fact : f.id < nextFact => f.id < nextFact'
    BY DEF TypeOK, Fact, Id
  <2>3. \A f \in facts : f.id < nextFact'
    BY <2>2 DEF Keys, TypeOK
  <2>4. ASSUME NEW q \in Requests, NEW f \in txn'[q].facts
        PROVE  f.id < nextFact'
    <3>1. CASE q = r
      BY <1>0, <2>4, <3>1
    <3>2. CASE q # r
      BY <1>0, <2>1, <2>2, <2>4, <3>2 DEF Keys
    <3> QED
      BY <3>1, <3>2
  <2> QED
    BY <2>3, <2>4 DEF Keys, tables
<1>3. TxnInv'
  <2> SUFFICES ASSUME NEW q \in Requests \ {r} PROVE TxnShape(q)' /\ TxnEvents(q)'
    BY DEF TxnInv
  <2>1. txn'[q] = txn[q] /\ facts' = facts
    BY <1>0 DEF tables
  <2>2. TxnShape(q) /\ TxnEvents(q)
    BY DEF TxnInv
  <2> QED
    BY <2>1, <2>2 DEF TxnShape, TxnEvents, Busy
<1>4. SupersededByLater' /\ OutboxExact' /\ ChallengeGrounded' /\ AwaitingIffPending'
  BY DEF SupersededByLater, OutboxExact, ChallengeGrounded, AwaitingIffPending, tables
<1> QED
  BY <1>1, <1>2, <1>3, <1>4

-----------------------------------------------------------------------------
\* What a commit does to the facts: those that were there stay, but for the
\* superseded_by of the one the request supersedes, and its own join them.
LEMMA CommitFacts ==
  ASSUME IInv, NEW r \in Requests, NEW status, NEW pending, Commit(r, status, pending)
  PROVE  /\ facts' \subseteq Fact
         /\ \A f \in facts : \E g \in facts' :
               /\ Same(f, g)
               /\ f.supersededBy # None => g.supersededBy # None
               /\ f.id = txn[r].old => g.supersededBy # None
         /\ \E new \in Id : \A g \in facts' \ txn[r].facts : \E f \in facts :
               /\ Same(f, g)
               /\ g.supersededBy = (IF f.id = txn[r].old THEN new ELSE f.supersededBy)
               /\ f.id = txn[r].old => \E h \in txn[r].facts : h.id = new
         /\ \A f \in facts : f.id # txn[r].old => f \in facts'
         /\ txn[r].facts \subseteq facts'
<1> DEFINE t == txn[r]
<1>1. t \in Txn /\ facts \subseteq Fact /\ t.facts \subseteq Fact
  BY DEF IInv, TypeOK, Txn
<1>2. \A f \in Fact : Same(f, f)
  BY DEF Fact, Same
<1>3. CASE t.old = None
  <2>1. facts' = t.facts \cup facts
    BY <1>3 DEF Commit
  <2>2. \A f \in facts : f.id # None
    BY <1>1 DEF Fact, Id
  <2>3. 1 \in Id
    BY DEF Id, None
  <2> QED
    BY <1>1, <1>2, <1>3, <2>1, <2>2, <2>3
<1>4. CASE t.old # None
  <2>1. t.origin = "challenge"
    BY <1>4 DEF IInv, TxnInv, TxnShape
  <2>2. PICK h \in t.facts : t.facts = {h}
    BY <2>1 DEF IInv, TxnInv, TxnShape
  <2>3. facts' = t.facts \cup Supersede(facts, t.old, h.id)
    BY <1>4, <2>2 DEF Commit
  <2>4. t.old \in Id /\ h.id \in Id
    BY <1>1, <1>4, <2>2 DEF Txn, Fact, Id
  <2>5. h.id # None
    BY <2>4 DEF Id
  <2> DEFINE S == Supersede(facts, t.old, h.id)
  <2>6. /\ S \subseteq Fact
        /\ \A f \in facts : \E g \in S :
               /\ Same(f, g)
               /\ g.supersededBy = (IF f.id = t.old THEN h.id ELSE f.supersededBy)
        /\ \A g \in S : \E f \in facts :
               /\ Same(f, g)
               /\ g.supersededBy = (IF f.id = t.old THEN h.id ELSE f.supersededBy)
        /\ \A f \in facts : f.id # t.old => f \in S
    <3>1. facts \in SUBSET Fact
      BY <1>1
    <3> QED
      BY <2>4, <3>1, SupersedeFacts
  <2> HIDE DEF S
  <2>7. facts' = t.facts \cup S
    BY <2>3 DEF S
  <2>8. \A f \in facts : \E g \in facts' :
               /\ Same(f, g)
               /\ f.supersededBy # None => g.supersededBy # None
               /\ f.id = t.old => g.supersededBy # None
    BY <2>5, <2>6, <2>7
  <2>9. \A g \in facts' \ t.facts : \E f \in facts :
               /\ Same(f, g)
               /\ g.supersededBy = (IF f.id = t.old THEN h.id ELSE f.supersededBy)
               /\ f.id = t.old => \E k \in t.facts : k.id = h.id
    BY <2>2, <2>6, <2>7
  <2> QED
    BY <1>1, <2>4, <2>6, <2>7, <2>8, <2>9
<1> QED
  BY <1>3, <1>4

LEMMA SameFields ==
  ASSUME NEW f \in Fact, NEW g, Same(f, g)
  PROVE  /\ g.id = f.id /\ g.subject = f.subject /\ g.entity = f.entity
         /\ g.value = f.value /\ g.kind = f.kind
  BY DEF Same, Fact

\* A commit, whatever status and challenge it leaves on the session, as long as
\* the one goes with the other and the challenge is about a fact the request
\* has seen.
LEMMA CommitStep ==
  ASSUME IInv, NEW r \in Requests, Busy(r),
         NEW status \in Statuses, NEW pending \in Pending,
         status = "awaiting_resolution" <=> pending # NoPending,
         pending.type = "challenge" =>
            \E f \in VisibleFacts(r) : /\ f.id = pending.existing
                                      /\ f.subject = pending.subject
                                      /\ f.entity = pending.entity,
         Commit(r, status, pending)
  PROVE  IInv'
<1> USE DEF IInv
<1> DEFINE t == txn[r]
           session == [status |-> status,
                       transcript |-> IF t.origin = "debrief" THEN t.words
                                      ELSE sessions[t.session].transcript,
                       staged |-> IF t.facts = {} THEN sessions[t.session].staged ELSE t.staged,
                       pending |-> pending]
<1>1. /\ t \in Txn /\ t.session \in Requests /\ t.facts \subseteq Fact
      /\ t.nodes \subseteq Node /\ t.events \subseteq Event
  BY DEF TypeOK, Txn
<1>2. TxnShape(r) /\ TxnEvents(r)
  BY DEF TxnInv
<1>3. /\ facts' \subseteq Fact
      /\ \A f \in facts : \E g \in facts' :
            /\ Same(f, g)
            /\ f.supersededBy # None => g.supersededBy # None
            /\ f.id = t.old => g.supersededBy # None
      /\ \A g \in facts' \ t.facts : \E f \in facts :
            /\ Same(f, g)
            /\ \/ g.supersededBy = f.supersededBy
               \/ /\ f.id = t.old
                  /\ \E h \in t.facts : h.id = g.supersededBy
      /\ t.facts \subseteq facts'
  <2>1. PICK new \in Id : \A g \in facts' \ t.facts : \E f \in facts :
            /\ Same(f, g)
            /\ g.supersededBy = (IF f.id = t.old THEN new ELSE f.supersededBy)
            /\ f.id = t.old => \E h \in t.facts : h.id = new
    BY CommitFacts
  <2> QED
    BY <2>1, CommitFacts
<1>4. sessions' = [sessions EXCEPT ![t.session] = session]
  BY DEF Commit
<1>5. /\ txn' = [txn EXCEPT ![r] = Ended(r, "done")]
      /\ nodes' = nodes \cup t.nodes
      /\ outbox' = outbox \cup t.events
      /\ nextNode' = nextNode /\ nextFact' = nextFact
  BY DEF Commit, VisibleNodes
<1>6. facts \subseteq Fact
  BY DEF TypeOK
<1>7. Ended(r, "done") \in Txn
  BY EndedTxn DEF PCs
<1> HIDE DEF IInv
<1>10. TypeOK'
  <2>1. session \in Session
    <3>1. sessions[t.session] \in Session
      BY <1>1 DEF IInv, TypeOK
    <3>2. session.staged \in SUBSET Id /\ session.transcript \in Seq(Mutation)
      BY <1>1, <3>1 DEF Session, Txn
    <3> QED
      BY <3>2 DEF Session
  <2> HIDE DEF session
  <2> QED
    BY <1>1, <1>3, <1>4, <1>5, <1>7, <2>1 DEF IInv, TypeOK
<1>11. txn'[r] = Ended(r, "done") /\ \A q \in Requests \ {r} : txn'[q] = txn[q]
  BY <1>5 DEF IInv, TypeOK
<1>12. Keys'
  <2>1. \A f \in facts' : f.id < nextFact
    BY <1>3, <1>6, SameFields DEF IInv, Keys
  <2> QED
    BY <1>5, <1>11, <2>1 DEF IInv, Keys, Ended, Idle
<1>13. TxnInv'
  <2>1. TxnShape(r)' /\ TxnEvents(r)'
    BY <1>11 DEF TxnShape, TxnEvents, Ended, Idle, Busy, Steps, None
  <2>2. ASSUME NEW q \in Requests \ {r} PROVE TxnShape(q)' /\ TxnEvents(q)'
    <3>1. txn'[q] = txn[q] /\ TxnShape(q) /\ TxnEvents(q)
      BY <1>11 DEF IInv, TxnInv
    <3>2. (\E g \in facts : g.id = txn[q].old) => \E g \in facts' : g.id = txn[q].old
      BY <1>3, <1>6, SameFields
    <3> QED
      BY <3>1, <3>2 DEF TxnShape, TxnEvents, Busy
  <2> QED
    BY <2>1, <2>2 DEF TxnInv
<1>14. SupersededByLater'
  <2> SUFFICES ASSUME NEW g \in facts', g.supersededBy # None
               PROVE  \E h \in facts' : /\ h.id = g.supersededBy
                                        /\ h.kind = "resolution"
                                        /\ g.id < h.id
    BY DEF SupersededByLater
  <2>1. CASE g \in t.facts
    BY <1>2, <2>1 DEF TxnShape
  <2>2. CASE g \notin t.facts
    <3>1. PICK f \in facts :
             /\ Same(f, g)
             /\ \/ g.supersededBy = f.supersededBy
                \/ /\ f.id = t.old
                   /\ \E h \in t.facts : h.id = g.supersededBy
      BY <1>3, <2>2
    <3>2. g.id = f.id
      BY <1>6, <3>1, SameFields
    <3>3. CASE g.supersededBy = f.supersededBy
      <4>1. PICK h \in facts : h.id = f.supersededBy /\ h.kind = "resolution" /\ f.id < h.id
        BY <3>3 DEF IInv, SupersededByLater
      <4>2. PICK k \in facts' : Same(h, k)
        BY <1>3
      <4>3. k.id = h.id /\ k.kind = h.kind
        BY <1>6, <4>2, SameFields
      <4> QED
        BY <3>2, <3>3, <4>1, <4>3
    <3>4. CASE f.id = t.old /\ \E h \in t.facts : h.id = g.supersededBy
      <4>1. f.id # None
        BY <1>6 DEF Fact, Id
      <4>2. t.origin = "challenge"
        BY <1>2, <3>4, <4>1 DEF TxnShape
      <4> QED
        BY <1>2, <1>3, <3>2, <3>4, <4>2 DEF TxnShape
    <3> QED
      BY <3>1, <3>3, <3>4
  <2> QED
    BY <2>1, <2>2
<1>15. OutboxExact'
  <2>1. ASSUME NEW g \in facts' PROVE \E e \in outbox' : e.fact = g.id
    <3>1. CASE g \in t.facts
      BY <1>2, <1>5, <3>1 DEF TxnEvents
    <3>2. CASE g \notin t.facts
      <4>1. PICK f \in facts : Same(f, g)
        BY <1>3, <3>2
      <4>2. g.id = f.id
        BY <1>6, <4>1, SameFields
      <4> QED
        BY <1>5, <4>2 DEF IInv, OutboxExact
    <3> QED
      BY <3>1, <3>2
  <2>2. ASSUME NEW e \in outbox
        PROVE  /\ \E f \in facts' : f.id = e.fact /\ e.kind = EventFor(f.kind)
               /\ e.kind = "fact_superseded" =>
                     \E f \in facts' : f.id = e.old /\ f.supersededBy # None
    <3>1. \E f \in facts : f.id = e.fact /\ e.kind = EventFor(f.kind)
      BY DEF IInv, OutboxExact
    <3>2. e.kind = "fact_superseded" => \E f \in facts : f.id = e.old /\ f.supersededBy # None
      BY DEF IInv, OutboxExact
    <3> QED
      BY <1>3, <1>6, <3>1, <3>2, SameFields
  <2>3. ASSUME NEW e \in t.events
        PROVE  /\ \E f \in facts' : f.id = e.fact /\ e.kind = EventFor(f.kind)
               /\ e.kind = "fact_superseded" =>
                     \E f \in facts' : f.id = e.old /\ f.supersededBy # None
    <3>1. \E f \in facts' : f.id = e.fact /\ e.kind = EventFor(f.kind)
      BY <1>2, <1>3 DEF TxnEvents
    <3>2. ASSUME e.kind = "fact_superseded"
          PROVE  \E f \in facts' : f.id = e.old /\ f.supersededBy # None
      <4>1. e.old = t.old
        BY <1>2, <3>2 DEF TxnEvents
      <4>2. PICK h \in t.facts : e.kind = EventFor(h.kind)
        BY <1>2 DEF TxnEvents
      <4>3. h.kind = "resolution"
        BY <1>1, <3>2, <4>2 DEF EventFor, Fact, FactKinds
      <4>4. PICK g \in facts : g.id = t.old
        BY <1>2, <4>3 DEF TxnShape
      <4> QED
        BY <1>3, <1>6, <4>1, <4>4, SameFields
    <3> QED
      BY <3>1, <3>2
  <2> QED
    BY <1>5, <2>1, <2>2, <2>3 DEF OutboxExact
<1>16. ChallengeGrounded'
  <2> SUFFICES ASSUME NEW s \in Requests, sessions'[s].pending.type = "challenge"
               PROVE  \E g \in facts' : /\ g.id = sessions'[s].pending.existing
                                        /\ g.subject = sessions'[s].pending.subject
                                        /\ g.entity = sessions'[s].pending.entity
    BY DEF ChallengeGrounded
  <2>1. CASE s = t.session
    <3>1. sessions'[s].pending = pending
      BY <1>4, <2>1 DEF IInv, TypeOK
    <3>2. PICK f \in facts \cup t.facts : /\ f.id = pending.existing
                                         /\ f.subject = pending.subject
                                         /\ f.entity = pending.entity
      BY <3>1 DEF VisibleFacts
    <3> QED
      BY <1>3, <1>6, <3>1, <3>2, SameFields
  <2>2. CASE s # t.session
    <3>1. sessions'[s] = sessions[s]
      BY <1>4, <2>2 DEF IInv, TypeOK
    <3>2. PICK f \in facts : /\ f.id = sessions[s].pending.existing
                            /\ f.subject = sessions[s].pending.subject
                            /\ f.entity = sessions[s].pending.entity
      BY <3>1 DEF IInv, ChallengeGrounded
    <3> QED
      BY <1>3, <1>6, <3>1, <3>2, SameFields
  <2> QED
    BY <2>1, <2>2
<1>17. AwaitingIffPending'
  <2>1. sessions'[t.session].status = status /\ sessions'[t.session].pending = pending
    BY <1>1, <1>4 DEF IInv, TypeOK
  <2>2. \A s \in Requests : s # t.session => sessions'[s] = sessions[s]
    BY <1>4 DEF IInv, TypeOK
  <2> QED
    BY <2>1, <2>2 DEF IInv, AwaitingIffPending
<1> QED
  BY <1>10, <1>12, <1>13, <1>14, <1>15, <1>16, <1>17 DEF IInv

-----------------------------------------------------------------------------
\* The steps that write nothing the database shows: one lemma per action.
LEMMA StartStep ==
  ASSUME IInv, NEW r \in Requests, NEW words \in Utterances, StartDebrief(r, words)
  PROVE  IInv'
<1> DEFINE t == [txn[r] EXCEPT !.pc = "next", !.words = words, !.todo = words]
<1>1. txn[r] = Idle(r)
  <2>1. txn[r] = [Idle(r) EXCEPT !.pc = txn[r].pc]
    BY DEF IInv, TxnInv, TxnShape, StartDebrief, Busy, Steps
  <2> QED
    BY <2>1 DEF Idle, StartDebrief
<1>2. txn' = [txn EXCEPT ![r] = t]
  BY DEF StartDebrief
<1>3. t \in Txn
  <2>1. txn[r] \in Txn /\ words \in Seq(Mutation) /\ "next" \in PCs
    BY LedgerAssumption DEF IInv, TypeOK, PCs, Steps
  <2> QED
    BY <2>1 DEF Txn
<1>4. txn'[r] = t
  BY <1>2 DEF IInv, TypeOK
<1>5. TxnShape(r)' /\ TxnEvents(r)'
  BY <1>1, <1>4 DEF TxnShape, TxnEvents, Idle, Busy, Steps
<1>6. t.facts = {}
  BY <1>1 DEF Idle
<1> HIDE DEF t
<1>7. /\ UNCHANGED <<tables, nextNode, nextFact>>
      /\ nextNode \in Id /\ nextFact \in Id /\ nextFact <= nextFact
  BY DEF StartDebrief, IInv, TypeOK, Id
<1> QED
  BY <1>2, <1>3, <1>5, <1>6, <1>7, LocalStep

\* The mutation a request is at.
LEMMA HeadMutation ==
  ASSUME TypeOK, NEW r \in Requests, txn[r].todo # <<>>
  PROVE  Head(txn[r].todo) \in Mutation /\ Tail(txn[r].todo) \in Seq(Mutation)
<1>1. txn[r].todo \in Seq(Mutation)
  BY DEF TypeOK, Txn
<1> QED
  BY <1>1

\* A step of a running request that goes on to another statement and leaves
\* what it has written alone.
LEMMA MoveStep ==
  ASSUME IInv, NEW r \in Requests, NEW t \in Txn,
         Busy(r), t.pc \in Steps,
         txn' = [txn EXCEPT ![r] = t],
         UNCHANGED <<tables, nextFact>>, nextNode' \in Id,
         t.origin = txn[r].origin, t.old = txn[r].old, t.todo = txn[r].todo,
         t.facts = txn[r].facts, t.events = txn[r].events,
         t.pc \in {"next", "write", "claim"} => t.origin # "challenge",
         t.pc \in {"supersede", "settle"} => t.origin = "challenge",
         t.pc \in {"touch", "write", "claim", "supersede"} => t.subject # None,
         t.pc \in {"write", "claim"} => t.todo # <<>>,
         t.pc = "touch" /\ t.origin # "challenge" => t.todo # <<>>
  PROVE  IInv'
<1>1. txn'[r] = t
  BY DEF IInv, TypeOK
<1>2. TxnShape(r) /\ TxnEvents(r) /\ facts' = facts
  BY DEF IInv, TxnInv, tables
<1>3. TxnShape(r)'
  BY <1>1, <1>2 DEF TxnShape, Busy
<1>4. TxnEvents(r)'
  BY <1>1, <1>2 DEF TxnEvents
<1>5. \A f \in t.facts : f.id < nextFact
  BY DEF IInv, Keys
<1>6. UNCHANGED tables /\ nextFact' = nextFact /\ nextFact \in Id /\ nextFact <= nextFact
  BY DEF IInv, TypeOK, Id
<1> QED
  BY <1>3, <1>4, <1>5, <1>6, LocalStep

LEMMA FindStep ==
  ASSUME IInv, NEW r \in Requests, FindPerson(r)
  PROVE  IInv'
<1>1. PICK i \in NearExact(r) : txn' = [txn EXCEPT ![r].pc = "touch", ![r].subject = i]
  BY DEF FindPerson
<1>2. i \in Nat /\ i # None
  BY <1>1 DEF NearExact, VisibleNodes, IInv, TypeOK, Node, Txn, Id
<1> DEFINE t == [txn[r] EXCEPT !.pc = "touch", !.subject = i]
<1>3. t \in Txn
  <2>1. txn[r] \in Txn /\ "touch" \in PCs
    BY DEF IInv, TypeOK, PCs, Steps
  <2> QED
    BY <1>2, <2>1 DEF Txn
<1>4. txn' = [txn EXCEPT ![r] = t]
  BY <1>1
<1>5. txn[r].pc = "next" /\ txn[r].todo # <<>>
  BY DEF FindPerson, AtMutation
<1>6. txn[r].origin # "challenge"
  BY <1>5 DEF IInv, TxnInv, TxnShape
<1>7. /\ t.pc = "touch" /\ t.subject = i
      /\ t.origin = txn[r].origin /\ t.old = txn[r].old /\ t.todo = txn[r].todo
      /\ t.facts = txn[r].facts /\ t.events = txn[r].events
  BY DEF IInv, TypeOK, Txn
<1>8. Busy(r) /\ "touch" \in Steps
  BY <1>5 DEF Busy, Steps
<1>9. UNCHANGED <<tables, nextFact>> /\ nextNode' \in Id
  BY DEF FindPerson, IInv, TypeOK
<1> HIDE DEF t
<1> QED
  BY <1>2, <1>3, <1>4, <1>5, <1>7, <1>8, <1>9, MoveStep

LEMMA CreateStep ==
  ASSUME IInv, NEW r \in Requests, CreatePerson(r)
  PROVE  IInv'
<1> DEFINE new == [id |-> nextNode, name |-> Head(txn[r].todo).spoken]
           t == [txn[r] EXCEPT !.pc = "write", !.subject = nextNode, !.nodes = @ \cup {new}]
<1>1. txn[r].pc = "next" /\ txn[r].todo # <<>>
  BY DEF CreatePerson, AtMutation
<1>2. nextNode \in Id /\ nextNode \in Nat /\ nextNode # None /\ nextNode + 1 \in Id
  BY DEF IInv, TypeOK, Id, None
<1>3. new \in Node
  BY <1>1, <1>2, HeadMutation DEF IInv, Mutation, Node
<1>4. t \in Txn
  <2>1. txn[r] \in Txn /\ "write" \in PCs
    BY DEF IInv, TypeOK, PCs, Steps
  <2> HIDE DEF new
  <2> QED
    BY <1>2, <1>3, <2>1 DEF Txn
<1>5. txn' = [txn EXCEPT ![r] = t]
  BY DEF CreatePerson
<1>6. txn[r].origin # "challenge"
  BY <1>1 DEF IInv, TxnInv, TxnShape
<1>7. /\ t.pc = "write" /\ t.subject = nextNode
      /\ t.origin = txn[r].origin /\ t.old = txn[r].old /\ t.todo = txn[r].todo
      /\ t.facts = txn[r].facts /\ t.events = txn[r].events
  BY DEF IInv, TypeOK, Txn
<1>8. Busy(r) /\ "write" \in Steps
  BY <1>1 DEF Busy, Steps
<1>9. UNCHANGED <<tables, nextFact>> /\ nextNode' \in Id
  BY <1>2 DEF CreatePerson
<1> HIDE DEF t
<1> QED
  BY <1>1, <1>2, <1>4, <1>5, <1>6, <1>7, <1>8, <1>9, MoveStep

\* Waiting for a row: it is locked and the request goes on.
LEMMA LockStep ==
  ASSUME IInv, NEW r \in Requests, Touch(r) \/ MarkSuperseded(r) \/ Claim(r)
  PROVE  IInv'
<1>1. txn[r] \in Txn /\ TxnShape(r) /\ Busy(r)
  BY DEF IInv, TypeOK, TxnInv, Touch, MarkSuperseded, Claim, Busy, Steps
<1>2. Wanted(r) \subseteq Row
  <2>1. txn[r].subject \in Nat /\ txn[r].old \in Nat /\ txn[r].session \in Requests
    BY <1>1 DEF Txn
  <2>2. txn[r].pc = "touch" => txn[r].subject \in Id
    BY <1>1, <2>1 DEF TxnShape, Id
  <2>3. txn[r].pc = "supersede" => txn[r].old \in Id
    <3>1. ASSUME txn[r].pc = "supersede" PROVE \E g \in facts : g.id = txn[r].old
      BY <1>1, <3>1 DEF TxnShape
    <3> QED
      BY <3>1 DEF IInv, TypeOK, Fact
  <2> QED
    BY <2>1, <2>2, <2>3 DEF Wanted, Row
<1>3. PICK pc \in Steps :
        /\ txn' = [txn EXCEPT ![r].pc = pc, ![r].locks = @ \cup Wanted(r)]
        /\ pc \in {"write", "claim"} => txn[r].origin # "challenge" /\ txn[r].todo # <<>>
        /\ pc = "settle" => txn[r].origin = "challenge"
        /\ pc = "touch" => txn[r].origin = "challenge"
        /\ pc \in {"touch", "write", "claim"} => txn[r].subject # None
        /\ pc \in {"touch", "write", "claim", "settle"}
  <2>1. CASE Touch(r)
    <3>1. txn[r].origin \in {"debrief", "ambiguity", "challenge"}
      BY <1>1 DEF Txn
    <3>2. CASE txn[r].origin = "debrief"
      BY <1>1, <2>1, <3>2 DEF Touch, TxnShape, Steps
    <3>3. CASE txn[r].origin = "ambiguity"
      BY <1>1, <2>1, <3>3 DEF Touch, TxnShape, Steps
    <3>4. CASE txn[r].origin = "challenge"
      BY <1>1, <2>1, <3>4 DEF Touch, TxnShape, Steps
    <3> QED
      BY <3>1, <3>2, <3>3, <3>4
  <2>2. CASE MarkSuperseded(r)
    BY <1>1, <2>2 DEF MarkSuperseded, TxnShape, Steps
  <2>3. CASE Claim(r)
    BY <1>1, <2>3 DEF Claim, TxnShape, Steps
  <2> QED
    BY <2>1, <2>2, <2>3
<1> DEFINE t == [txn[r] EXCEPT !.pc = pc, !.locks = @ \cup Wanted(r)]
<1>4. t \in Txn
  BY <1>1, <1>2, <1>3 DEF Txn, PCs
<1>5. txn' = [txn EXCEPT ![r] = t]
  BY <1>3
<1>6. /\ t.pc = pc /\ t.subject = txn[r].subject
      /\ t.origin = txn[r].origin /\ t.old = txn[r].old /\ t.todo = txn[r].todo
      /\ t.facts = txn[r].facts /\ t.events = txn[r].events
  BY <1>1 DEF Txn
<1>7. UNCHANGED <<tables, nextFact>> /\ nextNode' \in Id
  BY DEF Touch, MarkSuperseded, Claim, IInv, TypeOK
<1> HIDE DEF t
<1> QED
  BY <1>1, <1>3, <1>4, <1>5, <1>6, <1>7, MoveStep

\* Writing a fact: the row, its event and its staged entry join what the
\* request has buffered.
LEMMA RecordStep ==
  ASSUME IInv, NEW r \in Requests, NEW entity \in Entities,
         NEW kind \in FactKinds \ {"resolution"}, txn[r].pc = "write",
         Record(r, entity, kind, EventFor(kind))
  PROVE  IInv'
<1> DEFINE m == Head(txn[r].todo)
           row == [id |-> nextFact, subject |-> txn[r].subject, entity |-> entity,
                   value |-> Stored(m.value), kind |-> kind, supersededBy |-> None]
           event == [kind |-> EventFor(kind), fact |-> nextFact, old |-> None]
           t == [txn[r] EXCEPT
                   !.pc = "next", !.todo = Tail(@), !.subject = None,
                   !.facts = @ \cup {row}, !.staged = @ \cup {nextFact},
                   !.events = @ \cup {event}]
<1>1. txn[r] \in Txn /\ TxnShape(r) /\ TxnEvents(r)
  BY DEF IInv, TypeOK, TxnInv
<1>2. /\ txn[r].todo # <<>> /\ txn[r].subject # None
      /\ txn[r].origin # "challenge" /\ txn[r].old = None
  BY <1>1 DEF TxnShape
<1>3. m \in Mutation /\ Tail(txn[r].todo) \in Seq(Mutation)
  BY <1>2, HeadMutation DEF IInv
<1>4. nextFact \in Id /\ nextFact \in Nat /\ nextFact + 1 \in Id /\ nextFact < nextFact + 1
  BY DEF IInv, TypeOK, Id, None
<1>5. row \in Fact
  <2>1. txn[r].subject \in Id
    BY <1>1, <1>2 DEF Txn, Id
  <2>2. Stored(m.value) \in Value
    BY <1>3, StoredValue DEF Mutation
  <2> HIDE DEF m
  <2> QED
    BY <1>4, <2>1, <2>2 DEF Fact, None
<1>6. event \in Event /\ event.kind # "fact_superseded"
  BY <1>4 DEF Event, EventKinds, EventFor, FactKinds, None
<1>7. row.id = nextFact /\ row.kind = kind /\ row.supersededBy = None
  OBVIOUS
<1>8. event.fact = nextFact /\ event.kind = EventFor(kind)
  OBVIOUS
<1>9. txn' = [txn EXCEPT ![r] = t]
  BY DEF Record
<1>10. UNCHANGED tables /\ nextNode' = nextNode /\ nextFact' = nextFact + 1
  BY DEF Record
<1> HIDE DEF row, event, m
<1>11. t \in Txn
  <2>1. "next" \in PCs /\ None \in Nat
    BY DEF PCs, Steps, None
  <2> QED
    BY <1>1, <1>3, <1>4, <1>5, <1>6, <2>1 DEF Txn
<1>12. /\ t.pc = "next" /\ t.old = txn[r].old /\ t.origin = txn[r].origin
       /\ t.facts = txn[r].facts \cup {row} /\ t.events = txn[r].events \cup {event}
  BY <1>1 DEF Txn
<1>13. txn'[r] = t
  BY <1>9 DEF IInv, TypeOK
<1> HIDE DEF t
<1>14. TxnShape(r)'
  BY <1>1, <1>2, <1>7, <1>12, <1>13 DEF TxnShape, Busy, Steps
<1>15. TxnEvents(r)'
  BY <1>1, <1>6, <1>7, <1>8, <1>12, <1>13 DEF TxnEvents
<1>16. \A f \in t.facts : f.id < nextFact'
  <2>1. \A f \in txn[r].facts : f.id \in Nat /\ f.id < nextFact
    BY <1>1 DEF IInv, Keys, Txn, Fact, Id
  <2> QED
    BY <1>4, <1>7, <1>10, <1>12, <2>1
<1>17. nextNode' \in Id /\ nextFact' \in Id /\ nextFact <= nextFact'
  BY <1>4, <1>10 DEF IInv, TypeOK
<1> QED
  BY <1>9, <1>10, <1>11, <1>14, <1>15, <1>16, <1>17, LocalStep

LEMMA WriteStep ==
  ASSUME IInv, NEW r \in Requests, WriteConstraint(r) \/ WriteTrait(r) \/ WriteFact(r)
  PROVE  IInv'
<1>1. txn[r].pc = "write"
  BY DEF WriteConstraint, WriteTrait, WriteFact
<1>2. Head(txn[r].todo).entity \in Entities
  BY <1>1, HeadMutation DEF IInv, TxnInv, TxnShape, Mutation
<1>3. CASE WriteConstraint(r)
  BY <1>1, <1>3, RecordStep, LedgerAssumption DEF WriteConstraint, EventFor, FactKinds
<1>4. CASE WriteTrait(r)
  BY <1>1, <1>2, <1>4, RecordStep DEF WriteTrait, EventFor, FactKinds
<1>5. CASE WriteFact(r)
  BY <1>1, <1>2, <1>5, RecordStep DEF WriteFact, EventFor, FactKinds
<1> QED
  BY <1>3, <1>4, <1>5

\* The commits.
LEMMA CompleteStep ==
  ASSUME IInv, NEW r \in Requests, Complete(r) \/ Settle(r)
  PROVE  IInv'
<1>1. Commit(r, "completed", NoPending) /\ Busy(r)
  BY DEF Complete, Settle, Busy, Steps
<1>2. "completed" \in Statuses /\ NoPending \in Pending /\ NoPending.type # "challenge"
  BY DEF Statuses, Pending, NoPending
<1> QED
  BY <1>1, <1>2, CommitStep

LEMMA AskStep ==
  ASSUME IInv, NEW r \in Requests, AskWho(r)
  PROVE  IInv'
<1> DEFINE p == [type |-> "ambiguity", mutation |-> Head(txn[r].todo)]
<1>1. Commit(r, "awaiting_resolution", p) /\ Busy(r) /\ txn[r].todo # <<>>
  BY DEF AskWho, AtMutation, Busy, Steps
<1>2. p \in Pending
  BY <1>1, HeadMutation DEF IInv, Pending, Ambiguity
<1>3. p # NoPending /\ p.type # "challenge" /\ "awaiting_resolution" \in Statuses
  BY DEF NoPending, Statuses
<1> HIDE DEF p
<1> QED
  BY <1>1, <1>2, <1>3, CommitStep

LEMMA ChallengeStep ==
  ASSUME IInv, NEW r \in Requests, RaiseChallenge(r)
  PROVE  IInv'
<1>1. txn[r].pc = "write" /\ Busy(r)
  BY DEF RaiseChallenge, Busy, Steps
<1>2. Head(txn[r].todo) \in Mutation
  BY <1>1, HeadMutation DEF IInv, TxnInv, TxnShape
<1>3. PICK f \in Contradicted(r) :
        Commit(r, "awaiting_resolution",
               [type |-> "challenge", subject |-> f.subject, entity |-> f.entity,
                existing |-> f.id, candidate |-> Stored(Head(txn[r].todo).value)])
  BY DEF RaiseChallenge
<1> DEFINE p == [type |-> "challenge", subject |-> f.subject, entity |-> f.entity,
                 existing |-> f.id, candidate |-> Stored(Head(txn[r].todo).value)]
<1>4. f \in VisibleFacts(r)
  BY <1>3 DEF Contradicted, GetActive, Newest
<1>5. f \in Fact
  BY <1>4 DEF VisibleFacts, IInv, TypeOK, Txn
<1>6. Stored(Head(txn[r].todo).value) \in Value
  BY <1>2, StoredValue DEF Mutation
<1>7. p \in Pending
  BY <1>5, <1>6 DEF Pending, Challenge, Fact
<1>8. /\ p # NoPending /\ "awaiting_resolution" \in Statuses
      /\ p.existing = f.id /\ p.subject = f.subject /\ p.entity = f.entity
  BY DEF NoPending, Statuses
<1>9. Commit(r, "awaiting_resolution", p)
  BY <1>3
<1> HIDE DEF p
<1> QED
  BY <1>1, <1>4, <1>7, <1>8, <1>9, CommitStep

\* The requests that answer a session.
LEMMA ReadChallengeStep ==
  ASSUME IInv, NEW r \in Requests, NEW s \in Requests, ReadChallenge(r, s)
  PROVE  IInv'
<1> DEFINE c == sessions[s].pending
<1>1. c \in Challenge
  <2>1. c \in Pending /\ c.type = "challenge"
    BY DEF ReadChallenge, IInv, TypeOK, Session
  <2> QED
    BY <2>1 DEF Pending, NoPending, Ambiguity
<1>2. PICK accepted \in Accepted \cup {c.candidate}, note \in Notes,
           subject \in (Redirects \cap {n.id : n \in nodes}) \cup {c.subject} :
        txn' = [txn EXCEPT
            ![r].pc = "supersede", ![r].origin = "challenge", ![r].session = s,
            ![r].subject = subject, ![r].old = c.existing,
            ![r].staged = StagedBefore(s) \cup {nextFact},
            ![r].facts = {[id |-> nextFact, subject |-> subject, entity |-> c.entity,
                           value |-> Stored(Annotate(accepted, note)),
                           kind |-> "resolution", supersededBy |-> None]},
            ![r].events = {[kind |-> "fact_superseded", fact |-> nextFact,
                            old |-> c.existing]}]
  BY DEF ReadChallenge
<1> DEFINE row == [id |-> nextFact, subject |-> subject, entity |-> c.entity,
                   value |-> Stored(Annotate(accepted, note)),
                   kind |-> "resolution", supersededBy |-> None]
           event == [kind |-> "fact_superseded", fact |-> nextFact, old |-> c.existing]
           t == [txn[r] EXCEPT
                   !.pc = "supersede", !.origin = "challenge", !.session = s,
                   !.subject = subject, !.old = c.existing,
                   !.staged = StagedBefore(s) \cup {nextFact},
                   !.facts = {row}, !.events = {event}]
<1>3. txn' = [txn EXCEPT ![r] = t]
  BY <1>2
<1>4. txn[r] \in Txn /\ StagedBefore(s) \subseteq Id
  BY DEF IInv, TypeOK, Session, StagedBefore
<1>5. nextFact \in Id /\ nextFact \in Nat /\ nextFact + 1 \in Id /\ nextFact < nextFact + 1
  BY DEF IInv, TypeOK, Id, None
<1>6. subject \in Id /\ c.existing \in Id /\ c.entity \in Entities
  BY <1>1, LedgerAssumption DEF Challenge
<1>7. subject \in Nat /\ subject # None /\ c.existing \in Nat /\ c.existing # None
  BY <1>6 DEF Id
<1>8. Stored(Annotate(accepted, note)) \in Value
  BY <1>1, StoredValue, AnnotateValue, LedgerAssumption DEF Challenge
<1>9. row \in Fact
  BY <1>5, <1>6, <1>8 DEF Fact, FactKinds, None
<1>10. event \in Event
  BY <1>5, <1>7 DEF Event, EventKinds
<1>11. row.id = nextFact /\ row.kind = "resolution" /\ row.supersededBy = None
  OBVIOUS
<1>12. event.fact = nextFact /\ event.old = c.existing /\ event.kind = EventFor("resolution")
  BY DEF EventFor
<1>13. PICK g \in facts : g.id = c.existing
  BY DEF ReadChallenge, IInv, ChallengeGrounded
<1>14. c.existing < nextFact
  BY <1>13 DEF IInv, Keys
<1>15. UNCHANGED tables /\ nextNode' = nextNode /\ nextFact' = nextFact + 1
  BY DEF ReadChallenge
<1> HIDE DEF row, event, c
<1>16. t \in Txn
  <2>1. "supersede" \in PCs
    BY DEF PCs, Steps
  <2> QED
    BY <1>4, <1>5, <1>7, <1>9, <1>10, <2>1 DEF Txn
<1>17. /\ t.pc = "supersede" /\ t.origin = "challenge" /\ t.subject = subject
       /\ t.old = c.existing /\ t.facts = {row} /\ t.events = {event}
  BY <1>4 DEF Txn
<1>18. txn'[r] = t
  BY <1>3 DEF IInv, TypeOK
<1> HIDE DEF t
<1>19. TxnShape(r)'
  <2>1. facts' = facts
    BY <1>15 DEF tables
  <2> QED
    BY <1>7, <1>11, <1>13, <1>14, <1>17, <1>18, <2>1 DEF TxnShape, Busy, Steps
<1>20. TxnEvents(r)'
  BY <1>11, <1>12, <1>17, <1>18 DEF TxnEvents
<1>21. /\ nextNode' \in Id /\ nextFact' \in Id /\ nextFact <= nextFact'
       /\ \A f \in t.facts : f.id < nextFact'
  BY <1>5, <1>11, <1>15, <1>17 DEF IInv, TypeOK
<1> QED
  BY <1>3, <1>15, <1>16, <1>19, <1>20, <1>21, LocalStep

LEMMA ReadAmbiguityStep ==
  ASSUME IInv, NEW r \in Requests, NEW s \in Requests, ReadAmbiguity(r, s)
  PROVE  IInv'
<1> DEFINE m == sessions[s].pending.mutation
           new == [id |-> nextNode, name |-> m.spoken]
           begun(pc, subject, own) ==
              [txn[r] EXCEPT !.origin = "ambiguity", !.session = s, !.todo = <<m>>,
                             !.staged = StagedBefore(s), !.pc = pc,
                             !.subject = subject, !.nodes = own]
<1>1. m \in Mutation
  <2>1. sessions[s].pending \in Pending /\ sessions[s].pending.type = "ambiguity"
    BY DEF ReadAmbiguity, IInv, TypeOK, Session
  <2> QED
    BY <2>1 DEF Pending, NoPending, Challenge, Ambiguity
<1>2. txn[r] \in Txn /\ StagedBefore(s) \subseteq Id
  BY DEF IInv, TypeOK, Session, StagedBefore
<1>3. txn[r] = Idle(r)
  <2>1. txn[r] = [Idle(r) EXCEPT !.pc = txn[r].pc]
    BY DEF IInv, TxnInv, TxnShape, ReadAmbiguity, Busy, Steps
  <2> QED
    BY <2>1 DEF Idle, ReadAmbiguity
<1>4. /\ txn[r].nodes = {} /\ txn[r].facts = {} /\ txn[r].events = {}
      /\ txn[r].old = None
  BY <1>3 DEF Idle
<1>5. nextNode \in Id /\ nextNode + 1 \in Id
  BY DEF IInv, TypeOK, Id, None
<1>6. new \in Node
  BY <1>1, <1>5 DEF Node, Mutation
<1> HIDE DEF m, new
<1>7. \/ \E n \in nodes : /\ txn' = [txn EXCEPT ![r] = begun("touch", n.id, {})]
                          /\ nextNode' = nextNode
      \/ /\ txn' = [txn EXCEPT ![r] = begun("claim", nextNode, {new})]
         /\ nextNode' = nextNode + 1
  <2>1. ASSUME NEW i
        PROVE  [txn[r] EXCEPT !.origin = "ambiguity", !.session = s, !.todo = <<m>>,
                              !.staged = StagedBefore(s), !.pc = "touch", !.subject = i]
                 = begun("touch", i, {})
    BY <1>2, <1>4 DEF Txn
  <2> QED
    BY <2>1 DEF ReadAmbiguity, m, new
<1>8. PICK pc \in {"touch", "claim"}, subject \in Id, own \in SUBSET Node :
         txn' = [txn EXCEPT ![r] = begun(pc, subject, own)]
  BY <1>5, <1>6, <1>7 DEF IInv, TypeOK, Node
<1> DEFINE t == begun(pc, subject, own)
<1>9. subject \in Nat /\ subject # None
  BY <1>8 DEF Id
<1>10. t \in Txn
  <2>1. pc \in PCs /\ <<m>> \in Seq(Mutation)
    BY <1>1, <1>8 DEF PCs, Steps
  <2> QED
    BY <1>2, <1>8, <1>9, <2>1 DEF Txn
<1>11. /\ t.pc = pc /\ t.origin = "ambiguity" /\ t.subject = subject /\ t.todo = <<m>>
       /\ t.old = None /\ t.facts = {} /\ t.events = {}
  BY <1>2, <1>4 DEF Txn
<1>12. txn'[r] = t
  BY <1>8 DEF IInv, TypeOK
<1>13. UNCHANGED tables /\ nextNode' \in Id /\ nextFact' = nextFact
  BY <1>5, <1>7 DEF ReadAmbiguity
<1> HIDE DEF t
<1>14. TxnShape(r)' /\ TxnEvents(r)'
  <2>1. t.todo # <<>> /\ pc \in Steps /\ pc \notin {"next", "write", "supersede", "settle"}
    BY <1>8, <1>11 DEF Steps
  <2>2. TxnShape(r)'
    BY <1>9, <1>11, <1>12, <2>1 DEF TxnShape, Busy
  <2>3. TxnEvents(r)'
    BY <1>11, <1>12 DEF TxnEvents
  <2> QED
    BY <2>2, <2>3
<1>15. nextFact' \in Id /\ nextFact <= nextFact' /\ \A f \in t.facts : f.id < nextFact'
  BY <1>11, <1>13 DEF IInv, TypeOK, Id
<1>16. txn' = [txn EXCEPT ![r] = t]
  BY <1>8 DEF t
<1> QED
  BY <1>10, <1>13, <1>14, <1>15, <1>16, LocalStep

LEMMA FailStep ==
  ASSUME IInv, NEW r \in Requests, Fail(r)
  PROVE  IInv'
<1> DEFINE t == Ended(r, "failed")
<1>1. t \in Txn
  BY EndedTxn DEF PCs
<1>2. txn' = [txn EXCEPT ![r] = t] /\ UNCHANGED <<tables, nextNode, nextFact>>
  BY DEF Fail
<1>3. txn'[r] = t
  BY <1>2 DEF IInv, TypeOK
<1>4. TxnShape(r)' /\ TxnEvents(r)'
  BY <1>3 DEF TxnShape, TxnEvents, Ended, Idle, Busy, Steps, None
<1>5. /\ \A f \in t.facts : f.id < nextFact'
      /\ nextNode' \in Id /\ nextFact' \in Id /\ nextFact <= nextFact'
  BY <1>2 DEF Ended, Idle, IInv, TypeOK, Id
<1> HIDE DEF t
<1> QED
  BY <1>1, <1>2, <1>4, <1>5, LocalStep

-----------------------------------------------------------------------------
LEMMA NextInv == IInv /\ [Next]_vars => IInv'
<1> SUFFICES ASSUME IInv, [Next]_vars PROVE IInv'
  OBVIOUS
<1>1. CASE UNCHANGED vars
  <2>1. /\ nodes' = nodes /\ facts' = facts /\ sessions' = sessions /\ outbox' = outbox
        /\ txn' = txn /\ nextNode' = nextNode /\ nextFact' = nextFact
    BY <1>1 DEF vars, tables
  <2>2. TypeOK' /\ Keys'
    BY <2>1 DEF IInv, TypeOK, Keys
  <2>3. TxnInv'
    BY <2>1 DEF IInv, TxnInv, TxnShape, TxnEvents, Busy
  <2>4. SupersededByLater' /\ OutboxExact' /\ ChallengeGrounded' /\ AwaitingIffPending'
    BY <2>1 DEF IInv, SupersededByLater, OutboxExact, ChallengeGrounded, AwaitingIffPending
  <2> QED
    BY <2>2, <2>3, <2>4 DEF IInv
<1>2. ASSUME NEW r \in Requests, NEW words \in Utterances, StartDebrief(r, words)
      PROVE  IInv'
  BY <1>2, StartStep
<1>3. ASSUME NEW r \in Requests, NEW s \in Requests, ReadChallenge(r, s)
      PROVE  IInv'
  BY <1>3, ReadChallengeStep
<1>4. ASSUME NEW r \in Requests, NEW s \in Requests, ReadAmbiguity(r, s)
      PROVE  IInv'
  BY <1>4, ReadAmbiguityStep
<1>5. ASSUME NEW r \in Requests, Step(r)
      PROVE  IInv'
  BY <1>5, CompleteStep, FindStep, AskStep, CreateStep, LockStep, WriteStep, ChallengeStep
     DEF Step
<1>6. ASSUME NEW r \in Requests, Fail(r) \/ DeadlockVictim(r)
      PROVE  IInv'
  BY <1>6, FailStep DEF DeadlockVictim
<1> QED
  BY <1>1, <1>2, <1>3, <1>4, <1>5, <1>6 DEF Next

\* Nothing but a commit changes what others see of the facts.
LEMMA OnlyCommitsShow ==
  ASSUME [Next]_vars, facts' # facts
  PROVE  \E r \in Requests : \E status, pending : Commit(r, status, pending)
<1>1. PICK r \in Requests : Step(r)
  <2>1. ASSUME NEW r \in Requests, NEW s \in Requests
        PROVE  ~ReadChallenge(r, s) /\ ~ReadAmbiguity(r, s)
    <3>1. ReadChallenge(r, s) => UNCHANGED tables
      BY DEF ReadChallenge
    <3>2. ReadAmbiguity(r, s) => UNCHANGED tables
      BY DEF ReadAmbiguity
    <3> QED
      BY <3>1, <3>2 DEF tables
  <2>2. \A r \in Requests : ~Fail(r) /\ ~DeadlockVictim(r)
    BY DEF Fail, DeadlockVictim, tables
  <2>3. \A r \in Requests, words \in Utterances : ~StartDebrief(r, words)
    BY DEF StartDebrief, tables
  <2>4. ~UNCHANGED vars
    BY DEF vars, tables
  <2> QED
    BY <2>1, <2>2, <2>3, <2>4 DEF Next
<1>2. PICK status, pending : Commit(r, status, pending)
  <2>1. ~FindPerson(r) /\ ~CreatePerson(r) /\ ~Touch(r) /\ ~MarkSuperseded(r) /\ ~Claim(r)
    BY DEF FindPerson, CreatePerson, Touch, MarkSuperseded, Claim, tables
  <2>2. ~WriteConstraint(r) /\ ~WriteTrait(r) /\ ~WriteFact(r)
    BY DEF WriteConstraint, WriteTrait, WriteFact, Record, tables
  <2>3. Complete(r) \/ AskWho(r) \/ RaiseChallenge(r) \/ Settle(r)
    BY <1>1, <2>1, <2>2 DEF Step
  <2> QED
    BY <2>3 DEF Complete, AskWho, RaiseChallenge, Settle
<1> QED
  BY <1>2

LEMMA Inductive == Spec => []IInv
  BY InitInv, NextInv, PTL DEF Spec

\* Every table and every transaction keeps its shape: what a handler stores is
\* always a row the next handler can read.
THEOREM TypeCorrect == Spec => []TypeOK
<1>1. IInv => TypeOK
  BY DEF IInv
<1> QED
  BY <1>1, Inductive, PTL

\* However resolutions race, superseded_by of a committed fact is the id of a
\* committed, later resolution (mark_superseded in resolve_challenge).
THEOREM SupersededByLaterHolds == Spec => []SupersededByLater
<1>1. IInv => SupersededByLater
  BY DEF IInv
<1> QED
  BY <1>1, Inductive, PTL

\* The outbox holds the events of the committed facts and no others, whichever
\* requests failed and wherever (one commit per request in ingestion.py).
THEOREM OutboxExactHolds == Spec => []OutboxExact
<1>1. IInv => OutboxExact
  BY DEF IInv
<1> QED
  BY <1>1, Inductive, PTL

\* A pending challenge is always about a fact that exists, of the subject and
\* entity it names (resolve_challenge finds what it supersedes).
THEOREM ChallengeGroundedHolds == Spec => []ChallengeGrounded
<1>1. IInv => ChallengeGrounded
  BY DEF IInv
<1> QED
  BY <1>1, Inductive, PTL

\* The status a session shows and the challenge it stores never disagree.
THEOREM AwaitingIffPendingHolds == Spec => []AwaitingIffPending
<1>1. IInv => AwaitingIffPending
  BY DEF IInv
<1> QED
  BY <1>1, Inductive, PTL

\* No step deletes a committed fact, rewrites it or makes it active again
\* (get_fact_history shows all there ever was).
THEOREM HistoryKeptHolds == Spec => HistoryKept
<1> DEFINE Kept == \A f \in facts : \E g \in facts' :
                      /\ g = [f EXCEPT !.supersededBy = g.supersededBy]
                      /\ f.supersededBy # None => g.supersededBy # None
<1>1. IInv /\ [Next]_vars => [Kept]_facts
  <2> SUFFICES ASSUME IInv, [Next]_vars, facts' # facts PROVE Kept
    OBVIOUS
  <2>1. PICK r \in Requests : \E status, pending : Commit(r, status, pending)
    BY OnlyCommitsShow
  <2>2. \A f \in facts : \E g \in facts' :
            /\ Same(f, g)
            /\ f.supersededBy # None => g.supersededBy # None
    BY <2>1, CommitFacts
  <2> QED
    BY <2>2 DEF Same
<1> QED
  BY <1>1, Inductive, PTL DEF Spec, HistoryKept

-----------------------------------------------------------------------------
(***************************************************************************)
(* Why no debrief silently overwrites what another one wrote, and why the  *)
(* ledger implements the abstract book, for any number of requests and     *)
(* people.                                                                 *)
(*                                                                         *)
(* READ COMMITTED does not isolate the comparison of a mutation with the   *)
(* active fact from other commits.  What does is the UPDATE of the node in *)
(* touch_node: from there to its commit a request alone may write about    *)
(* the person, and everybody else who writes about a person holds the same *)
(* row, or made the person and is the only one to see it.  The invariant   *)
(* says who holds which person (Holds, Apart), that every fact is about a  *)
(* person its writer holds (RefInv), and what was compared under that      *)
(* lock is still so (CompareInv).                                          *)
(***************************************************************************)

\* The people a request alone may write about: those it touched and those it
\* made.
Holds(r) == {i \in Id : <<"node", i>> \in txn[r].locks} \cup {n.id : n \in txn[r].nodes}

Known(r, i) == \E n \in VisibleNodes(r) : n.id = i

\* Two requests never hold the same person, nor give the same fact id.
Apart(r, q) == /\ Holds(r) \cap Holds(q) = {}
               /\ \A f \in txn[r].facts, g \in txn[q].facts : f.id # g.id

\* The people a request made are new.
NodeInv(r) == \A n \in txn[r].nodes : n.id < nextNode /\ \A m \in nodes : m.id # n.id

\* What a request refers to exists, and it writes only about people it holds.
\* A resolution holds the person only once it has touched the node.
RefInv(r) ==
    LET t == txn[r]
    IN  /\ \A i \in Id : <<"node", i>> \in t.locks => Known(r, i)
        /\ t.pc \in {"touch", "write", "claim", "supersede"} => Known(r, t.subject)
        /\ t.pc \in {"write", "claim", "settle"} => t.subject \in Holds(r)
        /\ t.origin # "challenge" => \A f \in t.facts : f.subject \in Holds(r)
        /\ t.origin = "challenge" =>
              /\ \A f \in t.facts : f.subject = t.subject
              /\ \A g \in facts : g.id = t.old =>
                    /\ g.subject = t.subject
                    /\ \A f \in t.facts : f.entity = g.entity

\* A new fact has an id of its own and its value is as JSONB returns it.
FactInv(r) ==
    \A f \in txn[r].facts :
        /\ Stored(f.value) = f.value
        /\ \A g \in facts : g.id # f.id
        /\ \A g \in txn[r].facts : g.id = f.id => g = f

\* A plain fact still agrees with the active fact it was compared with.
CompareInv(r) ==
    \A b \in txn[r].facts : b.kind = "plain" =>
        \A a \in GetActive(facts \cup {f \in txn[r].facts : f.id < b.id}, b.subject, b.entity) :
            ~Contradicts(a.value, b.value)

OwnInv(r) == NodeInv(r) /\ RefInv(r) /\ FactInv(r) /\ CompareInv(r)

TableInv ==
    /\ \A n \in nodes : n.id < nextNode
    /\ \A f \in facts : /\ \E n \in nodes : n.id = f.subject
                        /\ Stored(f.value) = f.value
    /\ \A f, g \in facts : f.id = g.id => f = g

LInv == /\ TableInv
        /\ \A r \in Requests : OwnInv(r)
        /\ \A r, q \in Requests : r # q => Apart(r, q)

-----------------------------------------------------------------------------
LEMMA InitIsolated == Init => LInv
<1> SUFFICES ASSUME Init PROVE LInv
  OBVIOUS
<1>1. ASSUME NEW r \in Requests
      PROVE  /\ txn[r].facts = {} /\ txn[r].nodes = {} /\ txn[r].locks = {}
             /\ txn[r].pc = "idle" /\ txn[r].origin = "debrief"
  BY DEF Init, Idle
<1>2. TableInv
  BY LedgerAssumption DEF Init, TableInv
<1>3. \A r \in Requests : OwnInv(r)
  BY <1>1 DEF OwnInv, NodeInv, RefInv, FactInv, CompareInv
<1>4. \A r, q \in Requests : Apart(r, q)
  BY <1>1 DEF Apart, Holds
<1> QED
  BY <1>2, <1>3, <1>4 DEF LInv

\* A step that changes only what request r is doing leaves the others' share of
\* the invariant alone.
LEMMA LocalIsolated ==
  ASSUME IInv, LInv, NEW r \in Requests, NEW t,
         txn' = [txn EXCEPT ![r] = t],
         UNCHANGED tables,
         nextNode' \in Id, nextNode <= nextNode',
         OwnInv(r)',
         \A q \in Requests \ {r} : Apart(r, q)'
  PROVE  LInv'
<1>1. \A q \in Requests \ {r} : txn'[q] = txn[q]
  BY DEF IInv, TypeOK
<1>2. nodes' = nodes /\ facts' = facts
  BY DEF tables
<1>3. \A i \in Id : i < nextNode => i < nextNode'
  BY DEF IInv, TypeOK, Id
<1>4. nodes \subseteq Node /\ \A q \in Requests : txn[q].nodes \subseteq Node
  BY DEF IInv, TypeOK, Txn
<1>5. TableInv'
  BY <1>2, <1>3, <1>4 DEF LInv, TableInv, Node
<1>6. ASSUME NEW q \in Requests \ {r} PROVE OwnInv(q)'
  <2>1. OwnInv(q) /\ txn'[q] = txn[q]
    BY <1>1 DEF LInv
  <2>2. NodeInv(q)'
    BY <1>2, <1>3, <1>4, <2>1 DEF OwnInv, NodeInv, Node
  <2>3. Holds(q)' = Holds(q) /\ VisibleNodes(q)' = VisibleNodes(q)
    BY <1>2, <2>1 DEF Holds, VisibleNodes
  <2>4. RefInv(q)'
    BY <1>2, <2>1, <2>3 DEF OwnInv, RefInv, Known
  <2>5. FactInv(q)' /\ CompareInv(q)'
    BY <1>2, <2>1 DEF OwnInv, FactInv, CompareInv
  <2> QED
    BY <2>2, <2>4, <2>5 DEF OwnInv
<1>7. ASSUME NEW p \in Requests, NEW q \in Requests, p # q PROVE Apart(p, q)'
  <2>1. CASE p = r
    BY <1>7, <2>1
  <2>2. CASE q = r
    <3>1. Apart(r, p)'
      BY <1>7, <2>2
    <3> QED
      BY <2>2, <3>1 DEF Apart
  <2>3. CASE p # r /\ q # r
    <3>1. txn'[p] = txn[p] /\ txn'[q] = txn[q] /\ Apart(p, q)
      BY <1>1, <1>7, <2>3 DEF LInv
    <3> QED
      BY <3>1 DEF Apart, Holds
  <2> QED
    BY <2>1, <2>2, <2>3
<1> QED
  BY <1>5, <1>6, <1>7 DEF LInv

\* What is left to show of a step that writes no fact.
LEMMA MoveIsolated ==
  ASSUME IInv, LInv, NEW r \in Requests, NEW t,
         txn' = [txn EXCEPT ![r] = t],
         UNCHANGED tables,
         nextNode' \in Id, nextNode <= nextNode',
         t.facts = txn[r].facts,
         NodeInv(r)', RefInv(r)',
         \A q \in Requests \ {r} : Holds(r)' \cap Holds(q) = {}
  PROVE  LInv'
<1>1. txn'[r] = t /\ \A q \in Requests \ {r} : txn'[q] = txn[q]
  BY DEF IInv, TypeOK
<1>2. facts' = facts /\ FactInv(r) /\ CompareInv(r)
  BY DEF tables, LInv, OwnInv
<1>3. FactInv(r)' /\ CompareInv(r)'
  BY <1>1, <1>2 DEF FactInv, CompareInv
<1>4. ASSUME NEW q \in Requests \ {r} PROVE Apart(r, q)'
  <2>1. Apart(r, q)
    BY DEF LInv
  <2>2. Holds(q)' = Holds(q)
    BY <1>1 DEF Holds
  <2> QED
    BY <1>1, <2>1, <2>2 DEF Apart
<1> QED
  BY <1>3, <1>4, LocalIsolated DEF OwnInv

\* A person a request holds is one it can see, and ids of people not made yet
\* are greater.
LEMMA HeldIsKnown ==
  ASSUME IInv, LInv, NEW q \in Requests, NEW i \in Holds(q)
  PROVE  Known(q, i) /\ i < nextNode
<1>1. NodeInv(q) /\ RefInv(q) /\ TableInv
  BY DEF LInv, OwnInv
<1>2. CASE i \in Id /\ <<"node", i>> \in txn[q].locks
  <2>1. Known(q, i)
    BY <1>1, <1>2 DEF RefInv
  <2> QED
    BY <1>1, <2>1 DEF Known, VisibleNodes, NodeInv, TableInv
<1>3. CASE \E n \in txn[q].nodes : n.id = i
  BY <1>1, <1>3 DEF NodeInv, Known, VisibleNodes
<1> QED
  BY <1>2, <1>3 DEF Holds

\* Setting out to touch a person: nothing is locked yet.
LEMMA FindIsolated ==
  ASSUME IInv, LInv, NEW r \in Requests, FindPerson(r)
  PROVE  LInv'
<1>1. PICK i \in NearExact(r) : txn' = [txn EXCEPT ![r].pc = "touch", ![r].subject = i]
  BY DEF FindPerson
<1> DEFINE t == [txn[r] EXCEPT !.pc = "touch", !.subject = i]
<1>2. txn' = [txn EXCEPT ![r] = t]
  BY <1>1
<1>3. /\ t.pc = "touch" /\ t.subject = i /\ t.origin = txn[r].origin /\ t.old = txn[r].old
      /\ t.facts = txn[r].facts /\ t.nodes = txn[r].nodes /\ t.locks = txn[r].locks
  BY DEF IInv, TypeOK, Txn
<1>4. /\ UNCHANGED tables /\ nextNode' = nextNode /\ nextNode \in Id /\ nextNode <= nextNode
      /\ nodes' = nodes /\ facts' = facts
  BY DEF FindPerson, tables, IInv, TypeOK, Id
<1>5. txn'[r] = t
  BY <1>2 DEF IInv, TypeOK
<1>6. txn[r].pc = "next" /\ txn[r].origin # "challenge"
  BY DEF FindPerson, AtMutation, IInv, TxnInv, TxnShape
<1>7. Known(r, i)
  BY DEF NearExact, Known
<1> HIDE DEF t
<1>8. Holds(r)' = Holds(r) /\ VisibleNodes(r)' = VisibleNodes(r)
  BY <1>3, <1>4, <1>5 DEF Holds, VisibleNodes
<1>9. NodeInv(r)' /\ RefInv(r)'
  <2>1. NodeInv(r) /\ RefInv(r)
    BY DEF LInv, OwnInv
  <2>2. NodeInv(r)'
    BY <1>3, <1>4, <1>5, <2>1 DEF NodeInv
  <2>3. RefInv(r)'
    BY <1>3, <1>4, <1>5, <1>6, <1>7, <1>8, <2>1 DEF RefInv, Known
  <2> QED
    BY <2>2, <2>3
<1>10. \A q \in Requests \ {r} : Holds(r)' \cap Holds(q) = {}
  BY <1>8 DEF LInv, Apart
<1> QED
  BY <1>2, <1>3, <1>4, <1>9, <1>10, MoveIsolated

\* Making a person: its id is nobody's yet.
LEMMA CreateIsolated ==
  ASSUME IInv, LInv, NEW r \in Requests, CreatePerson(r)
  PROVE  LInv'
<1> DEFINE new == [id |-> nextNode, name |-> Head(txn[r].todo).spoken]
           t == [txn[r] EXCEPT !.pc = "write", !.subject = nextNode, !.nodes = @ \cup {new}]
<1>1. txn' = [txn EXCEPT ![r] = t]
  BY DEF CreatePerson
<1>2. /\ t.pc = "write" /\ t.subject = nextNode /\ t.origin = txn[r].origin
      /\ t.old = txn[r].old /\ t.facts = txn[r].facts /\ t.locks = txn[r].locks
      /\ t.nodes = txn[r].nodes \cup {new} /\ new.id = nextNode
  BY DEF IInv, TypeOK, Txn
<1>3. /\ UNCHANGED tables /\ nextNode' = nextNode + 1 /\ nodes' = nodes /\ facts' = facts
      /\ nextNode \in Id /\ nextNode' \in Id /\ nextNode <= nextNode' /\ nextNode < nextNode'
  BY DEF CreatePerson, tables, IInv, TypeOK, Id, None
<1>4. txn'[r] = t
  BY <1>1 DEF IInv, TypeOK
<1>5. txn[r].pc = "next" /\ txn[r].origin # "challenge"
  BY DEF CreatePerson, AtMutation, IInv, TxnInv, TxnShape
<1> HIDE DEF t, new
<1>6. Holds(r)' = Holds(r) \cup {nextNode} /\ VisibleNodes(r)' = VisibleNodes(r) \cup {new}
  BY <1>2, <1>3, <1>4 DEF Holds, VisibleNodes
<1>7. NodeInv(r) /\ RefInv(r) /\ TableInv
  BY DEF LInv, OwnInv
<1>8. NodeInv(r)'
  <2>1. txn[r].nodes \subseteq Node /\ nodes \subseteq Node
    BY DEF IInv, TypeOK, Txn
  <2>2. \A n \in txn[r].nodes : n.id \in Nat /\ n.id < nextNode /\ \A m \in nodes : m.id # n.id
    BY <1>7, <2>1 DEF NodeInv, Node, Id
  <2>3. \A m \in nodes : m.id \in Nat /\ m.id < nextNode
    BY <1>7, <2>1 DEF TableInv, Node, Id
  <2>4. nextNode \in Nat
    BY <1>3 DEF Id
  <2>5. \A n \in txn[r].nodes : n.id < nextNode + 1
    BY <2>2, <2>4
  <2>6. \A m \in nodes : m.id # nextNode
    BY <2>3, <2>4
  <2> QED
    BY <1>2, <1>3, <1>4, <2>2, <2>4, <2>5, <2>6 DEF NodeInv
<1>9. RefInv(r)'
  BY <1>2, <1>3, <1>4, <1>5, <1>6, <1>7 DEF RefInv, Known
<1>10. ASSUME NEW q \in Requests \ {r} PROVE Holds(r)' \cap Holds(q) = {}
  <2>1. nextNode \notin Holds(q)
    BY <1>3, HeldIsKnown DEF Id
  <2>2. Holds(r) \cap Holds(q) = {}
    BY DEF LInv, Apart
  <2> QED
    BY <1>6, <2>1, <2>2
<1> QED
  BY <1>1, <1>2, <1>3, <1>8, <1>9, <1>10, MoveIsolated

\* Touching a person: nobody else has touched it, and who makes a person is the
\* only one to see it.
LEMMA TouchIsolated ==
  ASSUME IInv, LInv, NEW r \in Requests, Touch(r)
  PROVE  LInv'
<1> DEFINE i == txn[r].subject
           row == <<"node", i>>
<1>1. PICK pc \in {"write", "claim", "settle"} :
        txn' = [txn EXCEPT ![r] = [txn[r] EXCEPT !.pc = pc, !.locks = @ \cup {row}]]
  <2>1. Wanted(r) = {row}
    BY DEF Touch, Wanted
  <2>2. txn[r].origin \in {"debrief", "ambiguity", "challenge"}
    BY DEF IInv, TypeOK, Txn
  <2>3. CASE txn[r].origin = "debrief"
    BY <2>1, <2>3 DEF Touch
  <2>4. CASE txn[r].origin = "ambiguity"
    BY <2>1, <2>4 DEF Touch
  <2>5. CASE txn[r].origin = "challenge"
    BY <2>1, <2>5 DEF Touch
  <2> QED
    BY <2>2, <2>3, <2>4, <2>5
<1> DEFINE t == [txn[r] EXCEPT !.pc = pc, !.locks = @ \cup {row}]
<1>2. txn' = [txn EXCEPT ![r] = t]
  BY <1>1
<1>3. /\ t.pc = pc /\ t.subject = i /\ t.origin = txn[r].origin /\ t.old = txn[r].old
      /\ t.facts = txn[r].facts /\ t.nodes = txn[r].nodes
      /\ t.locks = txn[r].locks \cup {row}
  BY DEF IInv, TypeOK, Txn
<1>4. /\ UNCHANGED tables /\ nextNode' = nextNode /\ nextNode \in Id /\ nextNode <= nextNode
      /\ nodes' = nodes /\ facts' = facts
  BY DEF Touch, tables, IInv, TypeOK, Id
<1>5. txn'[r] = t
  BY <1>2 DEF IInv, TypeOK
<1>6. txn[r].pc = "touch" /\ Free(r) /\ NodeInv(r) /\ RefInv(r)
  BY DEF Touch, LInv, OwnInv
<1>7. Known(r, i) /\ i \in Id
  <2>1. i \in Nat /\ i # None
    BY <1>6 DEF IInv, TypeOK, Txn, TxnInv, TxnShape
  <2> QED
    BY <1>6, <2>1 DEF RefInv, Id
<1> HIDE DEF t
<1>8. Holds(r)' = Holds(r) \cup {i} /\ VisibleNodes(r)' = VisibleNodes(r)
  BY <1>3, <1>4, <1>5, <1>7 DEF Holds, VisibleNodes
<1>9. NodeInv(r)'
  BY <1>3, <1>4, <1>5, <1>6 DEF NodeInv
<1>10. RefInv(r)'
  BY <1>3, <1>4, <1>5, <1>6, <1>7, <1>8 DEF RefInv, Known
<1>11. ASSUME NEW q \in Requests \ {r} PROVE Holds(r)' \cap Holds(q) = {}
  <2>1. Holds(r) \cap Holds(q) = {} /\ NodeInv(q)
    BY DEF LInv, Apart, OwnInv
  <2>2. row \notin txn[q].locks
    BY <1>6 DEF Free, Wanted
  <2>3. PICK n \in VisibleNodes(r) : n.id = i
    BY <1>7 DEF Known
  <2>4. CASE n \in nodes
    <3>1. \A m \in txn[q].nodes : m.id # i
      BY <2>1, <2>3, <2>4 DEF NodeInv
    <3> QED
      BY <1>8, <2>1, <2>2, <3>1 DEF Holds
  <2>5. CASE n \in txn[r].nodes
    <3>1. i \in Holds(r)
      BY <2>3, <2>5 DEF Holds
    <3> QED
      BY <1>8, <2>1, <3>1
  <2> QED
    BY <2>3, <2>4, <2>5 DEF VisibleNodes
<1> QED
  BY <1>2, <1>3, <1>4, <1>9, <1>10, <1>11, MoveIsolated

\* The locks on fact and session rows say nothing of people.
LEMMA OtherLockIsolated ==
  ASSUME IInv, LInv, NEW r \in Requests, MarkSuperseded(r) \/ Claim(r)
  PROVE  LInv'
<1>1. PICK pc \in {"touch", "write"}, row \in {<<"fact", txn[r].old>>, <<"session", txn[r].session>>} :
        /\ txn' = [txn EXCEPT ![r] = [txn[r] EXCEPT !.pc = pc, !.locks = @ \cup {row}]]
        /\ pc = "touch" => txn[r].pc = "supersede"
        /\ pc = "write" => txn[r].pc = "claim"
  <2>1. CASE MarkSuperseded(r)
    <3>1. Wanted(r) = {<<"fact", txn[r].old>>}
      BY <2>1 DEF MarkSuperseded, Wanted
    <3> QED
      BY <2>1, <3>1 DEF MarkSuperseded
  <2>2. CASE Claim(r)
    <3>1. Wanted(r) = {<<"session", txn[r].session>>}
      BY <2>2 DEF Claim, Wanted
    <3> QED
      BY <2>2, <3>1 DEF Claim
  <2> QED
    BY <2>1, <2>2
<1> DEFINE t == [txn[r] EXCEPT !.pc = pc, !.locks = @ \cup {row}]
<1>2. txn' = [txn EXCEPT ![r] = t]
  BY <1>1
<1>3. /\ t.pc = pc /\ t.subject = txn[r].subject /\ t.origin = txn[r].origin
      /\ t.old = txn[r].old /\ t.facts = txn[r].facts /\ t.nodes = txn[r].nodes
      /\ t.locks = txn[r].locks \cup {row}
  BY DEF IInv, TypeOK, Txn
<1>4. /\ UNCHANGED tables /\ nextNode' = nextNode /\ nextNode \in Id /\ nextNode <= nextNode
      /\ nodes' = nodes /\ facts' = facts
  BY DEF MarkSuperseded, Claim, tables, IInv, TypeOK, Id
<1>5. txn'[r] = t
  BY <1>2 DEF IInv, TypeOK
<1>6. NodeInv(r) /\ RefInv(r)
  BY DEF LInv, OwnInv
<1>7. \A i : <<"node", i>> # row
  BY <1>1
<1> HIDE DEF t
<1>8. Holds(r)' = Holds(r) /\ VisibleNodes(r)' = VisibleNodes(r)
  BY <1>3, <1>4, <1>5, <1>7 DEF Holds, VisibleNodes
<1>9. NodeInv(r)'
  BY <1>3, <1>4, <1>5, <1>6 DEF NodeInv
<1>10. RefInv(r)'
  BY <1>1, <1>3, <1>4, <1>5, <1>6, <1>7, <1>8 DEF RefInv, Known
<1>11. \A q \in Requests \ {r} : Holds(r)' \cap Holds(q) = {}
  BY <1>8 DEF LInv, Apart
<1> QED
  BY <1>2, <1>3, <1>4, <1>9, <1>10, <1>11, MoveIsolated

\* A request that does not run holds nobody.
LEMMA EndedHoldsNothing ==
  ASSUME IInv, NEW r \in Requests, ~Busy(r)
  PROVE  /\ txn[r].nodes = {} /\ txn[r].facts = {} /\ txn[r].locks = {}
         /\ txn[r].old = None /\ txn[r].origin = "debrief" /\ Holds(r) = {}
<1>1. txn[r] = [Idle(r) EXCEPT !.pc = txn[r].pc]
  BY DEF IInv, TxnInv, TxnShape
<1> DEFINE idle == [Idle(r) EXCEPT !.pc = txn[r].pc]
<1>2. /\ idle.nodes = {} /\ idle.facts = {} /\ idle.locks = {}
      /\ idle.old = None /\ idle.origin = "debrief"
  BY DEF Idle
<1> HIDE DEF idle
<1>3. txn[r] = idle
  BY <1>1 DEF idle
<1> QED
  BY <1>2, <1>3 DEF Holds

LEMMA StartIsolated ==
  ASSUME IInv, LInv, NEW r \in Requests, NEW words \in Utterances, StartDebrief(r, words)
  PROVE  LInv'
<1> DEFINE t == [txn[r] EXCEPT !.pc = "next", !.words = words, !.todo = words]
<1>1. txn' = [txn EXCEPT ![r] = t]
  BY DEF StartDebrief
<1>2. ~Busy(r)
  BY DEF StartDebrief, Busy, Steps
<1>3. /\ t.pc = "next" /\ t.origin = "debrief" /\ t.facts = {} /\ t.nodes = {} /\ t.locks = {}
  BY <1>2, EndedHoldsNothing DEF IInv, TypeOK, Txn
<1>4. txn'[r] = t /\ t.facts = txn[r].facts
  BY <1>1, <1>2, <1>3, EndedHoldsNothing DEF IInv, TypeOK
<1>5. UNCHANGED tables /\ nextNode' = nextNode /\ nextNode \in Id /\ nextNode <= nextNode
  BY DEF StartDebrief, IInv, TypeOK, Id
<1> HIDE DEF t
<1>6. NodeInv(r)' /\ RefInv(r)' /\ Holds(r)' = {}
  BY <1>3, <1>4 DEF NodeInv, RefInv, Holds
<1> QED
  BY <1>1, <1>4, <1>5, <1>6, MoveIsolated

LEMMA FailIsolated ==
  ASSUME IInv, LInv, NEW r \in Requests, Fail(r)
  PROVE  LInv'
<1> DEFINE t == Ended(r, "failed")
<1>1. txn' = [txn EXCEPT ![r] = t] /\ UNCHANGED <<tables, nextNode, nextFact>>
  BY DEF Fail
<1>2. /\ t.pc = "failed" /\ t.origin = "debrief" /\ t.facts = {} /\ t.nodes = {} /\ t.locks = {}
  BY DEF Ended, Idle
<1>3. txn'[r] = t /\ \A q \in Requests \ {r} : txn'[q] = txn[q]
  BY <1>1 DEF IInv, TypeOK
<1>4. nextNode' = nextNode /\ nextNode \in Id /\ nextNode <= nextNode
  BY <1>1 DEF IInv, TypeOK, Id
<1> HIDE DEF t
<1>5. OwnInv(r)'
  BY <1>2, <1>3 DEF OwnInv, NodeInv, RefInv, FactInv, CompareInv
<1>6. \A q \in Requests \ {r} : Apart(r, q)'
  BY <1>2, <1>3 DEF Apart, Holds
<1> QED
  BY <1>1, <1>4, <1>5, <1>6, LocalIsolated

\* Answering a question: the person is one that exists, or a new one.
LEMMA ReadAmbiguityIsolated ==
  ASSUME IInv, LInv, NEW r \in Requests, NEW s \in Requests, ReadAmbiguity(r, s)
  PROVE  LInv'
<1> DEFINE m == sessions[s].pending.mutation
           begun == [txn[r] EXCEPT !.origin = "ambiguity", !.session = s, !.todo = <<m>>,
                                   !.staged = StagedBefore(s)]
           new == [id |-> nextNode, name |-> m.spoken]
<1>1. ~Busy(r)
  BY DEF ReadAmbiguity, Busy, Steps
<1>2. /\ txn[r].nodes = {} /\ txn[r].facts = {} /\ txn[r].locks = {} /\ txn[r] \in Txn
  BY <1>1, EndedHoldsNothing DEF IInv, TypeOK
<1>3. UNCHANGED tables /\ nodes' = nodes /\ facts' = facts /\ nextNode \in Id
  BY DEF ReadAmbiguity, tables, IInv, TypeOK
<1>4. CASE /\ \E n \in nodes :
                txn' = [txn EXCEPT ![r] = [begun EXCEPT !.pc = "touch", !.subject = n.id]]
           /\ UNCHANGED nextNode
  <2>1. PICK n \in nodes :
          txn' = [txn EXCEPT ![r] = [begun EXCEPT !.pc = "touch", !.subject = n.id]]
    BY <1>4
  <2> DEFINE t == [begun EXCEPT !.pc = "touch", !.subject = n.id]
  <2>2. /\ t.pc = "touch" /\ t.subject = n.id /\ t.origin = "ambiguity"
        /\ t.facts = {} /\ t.nodes = {} /\ t.locks = {}
    BY <1>2 DEF Txn
  <2>3. txn'[r] = t
    BY <2>1 DEF IInv, TypeOK
  <2>4. txn' = [txn EXCEPT ![r] = t] /\ t.facts = txn[r].facts
    BY <1>2, <2>1, <2>2
  <2> HIDE DEF t
  <2>5. NodeInv(r)' /\ RefInv(r)' /\ Holds(r)' = {}
    BY <1>3, <2>2, <2>3 DEF NodeInv, RefInv, Holds, Known, VisibleNodes
  <2>6. nextNode' \in Id /\ nextNode <= nextNode'
    BY <1>3, <1>4 DEF Id
  <2> QED
    BY <1>3, <2>4, <2>5, <2>6, MoveIsolated
<1>5. CASE /\ txn' = [txn EXCEPT ![r] = [begun EXCEPT !.pc = "claim", !.subject = nextNode,
                                                       !.nodes = {new}]]
           /\ nextNode' = nextNode + 1
  <2> DEFINE t == [begun EXCEPT !.pc = "claim", !.subject = nextNode, !.nodes = {new}]
  <2>1. /\ t.pc = "claim" /\ t.subject = nextNode /\ t.origin = "ambiguity"
        /\ t.facts = {} /\ t.nodes = {new} /\ t.locks = {} /\ new.id = nextNode
    BY <1>2 DEF Txn
  <2>2. txn'[r] = t
    BY <1>5 DEF IInv, TypeOK
  <2>3. txn' = [txn EXCEPT ![r] = t] /\ t.facts = txn[r].facts
    BY <1>2, <1>5, <2>1
  <2> HIDE DEF t, new
  <2>4. nextNode \in Nat /\ nextNode' \in Id /\ nextNode < nextNode' /\ nextNode <= nextNode'
    BY <1>3, <1>5 DEF Id, None
  <2>5. Holds(r)' = {nextNode} /\ VisibleNodes(r)' = nodes \cup {new}
    BY <1>3, <2>1, <2>2 DEF Holds, VisibleNodes
  <2>6. NodeInv(r)'
    <3>1. \A k \in nodes : k.id \in Nat /\ k.id < nextNode
      BY DEF LInv, TableInv, IInv, TypeOK, Node, Id
    <3>2. \A k \in nodes : k.id # nextNode
      BY <2>4, <3>1
    <3> QED
      BY <1>3, <2>1, <2>2, <2>4, <3>2 DEF NodeInv
  <2>7. RefInv(r)'
    BY <2>1, <2>2, <2>5 DEF RefInv, Known
  <2>8. ASSUME NEW q \in Requests \ {r} PROVE Holds(r)' \cap Holds(q) = {}
    <3>1. nextNode \notin Holds(q)
      BY <2>4, HeldIsKnown
    <3> QED
      BY <2>5, <3>1
  <2> QED
    BY <1>3, <2>3, <2>4, <2>6, <2>7, <2>8, MoveIsolated
<1> QED
  BY <1>4, <1>5 DEF ReadAmbiguity

\* Answering a challenge: without redirection the new fact is about the person
\* the old one is about.
LEMMA ReadChallengeIsolated ==
  ASSUME Redirects = {}, IInv, LInv,
         NEW r \in Requests, NEW s \in Requests, ReadChallenge(r, s)
  PROVE  LInv'
<1> DEFINE c == sessions[s].pending
<1>1. c \in Challenge
  <2>1. c \in Pending /\ c.type = "challenge"
    BY DEF ReadChallenge, IInv, TypeOK, Session
  <2> QED
    BY <2>1 DEF Pending, NoPending, Ambiguity
<1>2. PICK accepted \in Accepted \cup {c.candidate}, note \in Notes,
           subject \in (Redirects \cap {n.id : n \in nodes}) \cup {c.subject} :
        txn' = [txn EXCEPT
            ![r].pc = "supersede", ![r].origin = "challenge", ![r].session = s,
            ![r].subject = subject, ![r].old = c.existing,
            ![r].staged = StagedBefore(s) \cup {nextFact},
            ![r].facts = {[id |-> nextFact, subject |-> subject, entity |-> c.entity,
                           value |-> Stored(Annotate(accepted, note)),
                           kind |-> "resolution", supersededBy |-> None]},
            ![r].events = {[kind |-> "fact_superseded", fact |-> nextFact,
                            old |-> c.existing]}]
  BY DEF ReadChallenge
<1> DEFINE row == [id |-> nextFact, subject |-> c.subject, entity |-> c.entity,
                   value |-> Stored(Annotate(accepted, note)),
                   kind |-> "resolution", supersededBy |-> None]
           event == [kind |-> "fact_superseded", fact |-> nextFact, old |-> c.existing]
           t == [txn[r] EXCEPT
                   !.pc = "supersede", !.origin = "challenge", !.session = s,
                   !.subject = c.subject, !.old = c.existing,
                   !.staged = StagedBefore(s) \cup {nextFact},
                   !.facts = {row}, !.events = {event}]
<1>3. txn' = [txn EXCEPT ![r] = t]
  <2>1. subject = c.subject
    BY <1>2
  <2> QED
    BY <1>2, <2>1
<1>4. ~Busy(r)
  BY DEF ReadChallenge, Busy, Steps
<1>5. /\ t.pc = "supersede" /\ t.origin = "challenge" /\ t.subject = c.subject
      /\ t.old = c.existing /\ t.facts = {row} /\ t.nodes = {} /\ t.locks = {}
  BY <1>4, EndedHoldsNothing DEF IInv, TypeOK, Txn
<1>6. txn'[r] = t /\ \A q \in Requests \ {r} : txn'[q] = txn[q]
  BY <1>3 DEF IInv, TypeOK
<1>7. UNCHANGED tables /\ nodes' = nodes /\ facts' = facts
  BY DEF ReadChallenge, tables
<1>8. nextNode' = nextNode /\ nextNode \in Id /\ nextNode <= nextNode
  BY DEF ReadChallenge, IInv, TypeOK, Id
<1>9. /\ row.id = nextFact /\ row.subject = c.subject /\ row.kind = "resolution"
      /\ row.entity = c.entity /\ Stored(row.value) = row.value
  BY DEF Stored
<1> HIDE DEF t, row, event
<1>10. PICK g \in facts : g.id = c.existing /\ g.subject = c.subject /\ g.entity = c.entity
  BY DEF ReadChallenge, IInv, ChallengeGrounded
<1>11. \A f \in facts : f.id = c.existing => f.subject = c.subject /\ f.entity = c.entity
  BY <1>10 DEF LInv, TableInv
<1>12. \E n \in nodes : n.id = c.subject
  BY <1>10 DEF LInv, TableInv
<1> HIDE DEF c
<1>13. NodeInv(r)' /\ Holds(r)' = {}
  BY <1>5, <1>6 DEF NodeInv, Holds
<1>14. RefInv(r)'
  BY <1>5, <1>6, <1>7, <1>9, <1>11, <1>12 DEF RefInv, Known, VisibleNodes
<1>15. \A f \in Fact : f.id < nextFact => f.id # nextFact
  BY DEF Fact, Id, IInv, TypeOK
<1>16. facts \subseteq Fact /\ \A q \in Requests : txn[q].facts \subseteq Fact
  BY DEF IInv, TypeOK, Txn
<1>17. FactInv(r)' /\ CompareInv(r)'
  <2>1. \A f \in facts : f.id # nextFact
    BY <1>15, <1>16 DEF IInv, Keys
  <2> QED
    BY <1>5, <1>6, <1>7, <1>9, <2>1 DEF FactInv, CompareInv
<1>18. ASSUME NEW q \in Requests \ {r} PROVE Apart(r, q)'
  <2>1. \A f \in txn[q].facts : f.id # nextFact
    BY <1>15, <1>16 DEF IInv, Keys
  <2> QED
    BY <1>5, <1>6, <1>9, <1>13, <2>1 DEF Apart
<1> QED
  BY <1>3, <1>7, <1>8, <1>13, <1>14, <1>17, <1>18, LocalIsolated DEF OwnInv

-----------------------------------------------------------------------------
\* An active fact that agrees with a mention agrees with what is stored of it:
\* storing reorders the keys of an object, and an active object is reordered
\* already, so it agrees only with a mention that is.
LEMMA StoredAgrees ==
  ASSUME NEW a \in Value, NEW v \in Value, Stored(a) = a, ~Contradicts(a, v)
  PROVE  ~Contradicts(a, Stored(v))
<1>1. CASE v.shape # "object"
  BY <1>1 DEF Stored
<1>2. CASE v.shape = "object"
  <2>1. v \in Object
    BY <1>2 DEF Value, Scalar, Null, Number, Text, Money
  <2>2. CASE a.shape = "null"
    BY <2>2 DEF Contradicts
  <2>3. CASE a.shape # "null"
    <3>1. Normal(a) = Normal(v)
      BY <1>2, <2>3 DEF Contradicts
    <3>2. Normal(v) = <<"str", v.body, v.order, v.note>>
      BY <1>2 DEF Normal
    <3>3. a \in Object
      <4>1. ASSUME a \in Number \cup Money PROVE FALSE
        <5>1. a.shape = "number" \/ a.shape = "money"
          BY <4>1 DEF Number, Money
        <5>2. Normal(a)[1] = "num" \/ Normal(a)[1] = "money"
          BY <5>1 DEF Normal
        <5> QED
          BY <3>1, <3>2, <5>2
      <4>2. ASSUME a \in Text PROVE FALSE
        <5>1. Normal(a) = <<"str", a.word>>
          BY <4>2 DEF Text, Normal
        <5>2. Len(Normal(a)) = 2 /\ Len(Normal(v)) = 4
          BY <3>2, <5>1
        <5> QED
          BY <3>1, <5>2
      <4> QED
        BY <2>3, <4>1, <4>2 DEF Value, Scalar, Null
    <3>4. a.shape = "object" /\ Normal(a) = <<"str", a.body, a.order, a.note>>
      BY <3>3 DEF Object, Normal
    <3>5. a.order = v.order
      BY <3>1, <3>2, <3>4
    <3>6. a.order = "stored"
      BY <3>3, <3>4 DEF Stored, Object
    <3>7. Stored(v) = v
      BY <2>1, <3>5, <3>6 DEF Stored, Object
    <3> QED
      BY <3>7
  <2> QED
    BY <2>2, <2>3
<1> QED
  BY <1>1, <1>2

\* A value of the database is as the database returns it.
LEMMA StoredTwice == ASSUME NEW v \in Value PROVE Stored(Stored(v)) = Stored(v)
  BY DEF Stored, Value, Scalar, Object, Money, Null, Number, Text

\* Writing a fact about a person the request holds, compared if it is plain.
LEMMA RecordIsolated ==
  ASSUME IInv, LInv, NEW r \in Requests, NEW entity, NEW kind, NEW event,
         txn[r].pc = "write", Record(r, entity, kind, event),
         kind = "plain" => entity = Head(txn[r].todo).entity /\ Contradicted(r) = {}
  PROVE  LInv'
<1> DEFINE m == Head(txn[r].todo)
           row == [id |-> nextFact, subject |-> txn[r].subject, entity |-> entity,
                   value |-> Stored(m.value), kind |-> kind, supersededBy |-> None]
           t == [txn[r] EXCEPT
                   !.pc = "next", !.todo = Tail(@), !.subject = None,
                   !.facts = @ \cup {row}, !.staged = @ \cup {nextFact},
                   !.events = @ \cup {[kind |-> event, fact |-> nextFact, old |-> None]}]
<1>1. txn' = [txn EXCEPT ![r] = t]
  BY DEF Record
<1>2. /\ t.pc = "next" /\ t.origin = txn[r].origin /\ t.old = txn[r].old
      /\ t.facts = txn[r].facts \cup {row} /\ t.nodes = txn[r].nodes /\ t.locks = txn[r].locks
  BY DEF IInv, TypeOK, Txn
<1>3. txn'[r] = t /\ \A q \in Requests \ {r} : txn'[q] = txn[q]
  BY <1>1 DEF IInv, TypeOK
<1>4. UNCHANGED tables /\ nodes' = nodes /\ facts' = facts
  BY DEF Record, tables
<1>5. nextNode' = nextNode /\ nextNode \in Id /\ nextNode <= nextNode
  BY DEF Record, IInv, TypeOK, Id
<1>6. m \in Mutation
  BY HeadMutation DEF IInv, TxnInv, TxnShape
<1>7. /\ row.id = nextFact /\ row.subject = txn[r].subject /\ row.kind = kind
      /\ row.entity = entity /\ row.value = Stored(m.value)
  OBVIOUS
<1>8. txn[r].origin # "challenge"
  BY DEF IInv, TxnInv, TxnShape
<1>9. NodeInv(r) /\ RefInv(r) /\ FactInv(r) /\ CompareInv(r)
  BY DEF LInv, OwnInv
<1>10. /\ facts \subseteq Fact /\ \A q \in Requests : txn[q].facts \subseteq Fact
       /\ \A f \in Fact : f.id < nextFact => f.id # nextFact /\ ~(nextFact < f.id)
  BY DEF IInv, TypeOK, Txn, Fact, Id
<1>11. /\ \A f \in facts : f.id # nextFact /\ f.id < nextFact
       /\ \A q \in Requests : \A f \in txn[q].facts : f.id # nextFact /\ f.id < nextFact
  BY <1>10 DEF IInv, Keys
<1> HIDE DEF t, row
<1>12. Holds(r)' = Holds(r) /\ VisibleNodes(r)' = VisibleNodes(r)
  BY <1>2, <1>3, <1>4 DEF Holds, VisibleNodes
<1>13. NodeInv(r)' /\ RefInv(r)'
  <2>1. NodeInv(r)'
    BY <1>2, <1>3, <1>4, <1>5, <1>9 DEF NodeInv
  <2>2. txn[r].subject \in Holds(r)
    BY <1>9 DEF RefInv
  <2>3. RefInv(r)'
    BY <1>2, <1>3, <1>4, <1>7, <1>8, <1>9, <1>12, <2>2 DEF RefInv, Known
  <2> QED
    BY <2>1, <2>3
<1>14. FactInv(r)'
  <2>1. Stored(row.value) = row.value
    BY <1>6, <1>7, StoredTwice DEF Mutation
  <2> QED
    BY <1>2, <1>3, <1>4, <1>7, <1>9, <1>11, <2>1 DEF FactInv
<1>15. CompareInv(r)'
  <2> DEFINE Before(rows, b) == {f \in rows : f.id < b.id}
  <2> SUFFICES ASSUME NEW b \in t.facts, b.kind = "plain",
                      NEW a \in GetActive(facts \cup Before(t.facts, b), b.subject, b.entity)
               PROVE  ~Contradicts(a.value, b.value)
    BY <1>3, <1>4 DEF CompareInv
  <2>1. CASE b \in txn[r].facts
    <3>1. Before(t.facts, b) = Before(txn[r].facts, b)
      BY <1>2, <1>7, <1>10, <1>11, <2>1
    <3> QED
      BY <1>9, <2>1, <3>1 DEF CompareInv
  <2>2. CASE b = row
    <3>1. Before(t.facts, b) = txn[r].facts
      <4>1. ~(row.id < row.id)
        BY <1>7 DEF IInv, TypeOK, Id
      <4> QED
        BY <1>2, <1>7, <1>11, <2>2, <4>1
    <3>2. a \in GetActive(VisibleFacts(r), txn[r].subject, m.entity)
      BY <1>7, <2>2, <3>1 DEF VisibleFacts
    <3>3. ~Contradicts(a.value, m.value)
      BY <1>7, <2>2, <3>2 DEF Contradicted
    <3>4. a \in facts \cup txn[r].facts
      BY <3>2 DEF GetActive, Newest, VisibleFacts
    <3>5. Stored(a.value) = a.value
      BY <1>9, <3>4 DEF FactInv, LInv, TableInv
    <3>6. a.value \in Value /\ m.value \in Value
      BY <1>6, <1>10, <3>4 DEF Fact, Mutation
    <3> QED
      BY <1>7, <2>2, <3>3, <3>5, <3>6, StoredAgrees
  <2> QED
    BY <1>2, <2>1, <2>2
<1>16. ASSUME NEW q \in Requests \ {r} PROVE Apart(r, q)'
  <2>1. Apart(r, q)
    BY DEF LInv
  <2>2. Holds(q)' = Holds(q)
    BY <1>3 DEF Holds
  <2>3. \A f \in txn[q].facts : row.id # f.id
    BY <1>7, <1>11
  <2> QED
    BY <1>2, <1>3, <1>12, <2>1, <2>2, <2>3 DEF Apart
<1> QED
  BY <1>1, <1>4, <1>5, <1>13, <1>14, <1>15, <1>16, LocalIsolated DEF OwnInv

LEMMA WriteIsolated ==
  ASSUME IInv, LInv, NEW r \in Requests, WriteConstraint(r) \/ WriteTrait(r) \/ WriteFact(r)
  PROVE  LInv'
<1>1. CASE WriteConstraint(r)
  BY <1>1, RecordIsolated DEF WriteConstraint
<1>2. CASE WriteTrait(r)
  BY <1>2, RecordIsolated DEF WriteTrait
<1>3. CASE WriteFact(r)
  BY <1>3, RecordIsolated DEF WriteFact
<1> QED
  BY <1>1, <1>2, <1>3

-----------------------------------------------------------------------------
\* What a request commits is about people it holds: the facts it adds, and the
\* one it supersedes.
LEMMA CommitAboutHeld ==
  ASSUME IInv, LInv, NEW r \in Requests, NEW status, NEW pending, Commit(r, status, pending),
         txn[r].origin = "challenge" => txn[r].pc = "settle"
  PROVE  /\ \A f \in txn[r].facts : f.subject \in Holds(r)
         /\ \A f \in facts : f.id = txn[r].old => f.subject \in Holds(r)
<1>1. RefInv(r)
  BY DEF LInv, OwnInv
<1>2. CASE txn[r].origin = "challenge"
  BY <1>1, <1>2 DEF RefInv
<1>3. CASE txn[r].origin # "challenge"
  <2>1. txn[r].old = None /\ \A f \in facts : f.id # None
    BY <1>3 DEF IInv, TxnInv, TxnShape, TypeOK, Fact, Id
  <2> QED
    BY <1>1, <1>3, <2>1 DEF RefInv
<1> QED
  BY <1>2, <1>3

LEMMA CommitIsolated ==
  ASSUME IInv, LInv, NEW r \in Requests, NEW status, NEW pending, Commit(r, status, pending),
         txn[r].origin = "challenge" => txn[r].pc = "settle"
  PROVE  LInv'
<1> DEFINE own == txn[r].facts
           old == txn[r].old
<1>1. PICK new \in Id : \A g \in facts' \ own : \E f \in facts :
         /\ Same(f, g)
         /\ g.supersededBy = (IF f.id = old THEN new ELSE f.supersededBy)
  BY CommitFacts
<1>2. own \subseteq facts' /\ \A f \in facts : f.id # old => f \in facts'
  BY CommitFacts
<1>3. /\ facts \subseteq Fact /\ nodes \subseteq Node
      /\ \A q \in Requests : txn[q].facts \subseteq Fact /\ txn[q].nodes \subseteq Node
  BY DEF IInv, TypeOK, Txn
<1>4. \A f \in own : f.subject \in Holds(r)
  BY CommitAboutHeld
<1>5. \A f \in facts : f.id = old => f.subject \in Holds(r)
  BY CommitAboutHeld
<1>6. nodes' = nodes \cup txn[r].nodes /\ nextNode' = nextNode
  BY DEF Commit, VisibleNodes
<1>7. txn'[r] = Ended(r, "done") /\ \A q \in Requests \ {r} : txn'[q] = txn[q]
  BY DEF Commit, IInv, TypeOK
<1>8. TableInv /\ NodeInv(r) /\ RefInv(r) /\ FactInv(r)
  BY DEF LInv, OwnInv
<1>9. \A i \in Holds(r) : \E n \in nodes' : n.id = i
  BY <1>6, HeldIsKnown DEF Known, VisibleNodes
<1>10. TableInv'
  <2>1. \A n \in nodes' : n.id < nextNode'
    BY <1>6, <1>8 DEF TableInv, NodeInv
  <2>2. ASSUME NEW g \in facts'
        PROVE  (\E n \in nodes' : n.id = g.subject) /\ Stored(g.value) = g.value
    <3>1. CASE g \in own
      BY <1>4, <1>8, <1>9, <3>1 DEF FactInv
    <3>2. CASE g \notin own
      <4>1. PICK f \in facts : Same(f, g)
        BY <1>1, <3>2
      <4>2. g.subject = f.subject /\ g.value = f.value
        BY <1>3, <4>1, SameFields
      <4> QED
        BY <1>6, <1>8, <4>2 DEF TableInv
    <3> QED
      BY <3>1, <3>2
  <2>3. ASSUME NEW g \in facts', NEW h \in facts', g.id = h.id PROVE g = h
    <3>1. \A k \in facts' \ own : \E f \in facts : f.id = k.id
      BY <1>1, <1>3, SameFields
    <3>2. CASE g \in own /\ h \in own
      BY <1>8, <2>3, <3>2 DEF FactInv
    <3>3. CASE g \in own /\ h \notin own
      BY <1>8, <2>3, <3>1, <3>3 DEF FactInv
    <3>4. CASE g \notin own /\ h \in own
      BY <1>8, <2>3, <3>1, <3>4 DEF FactInv
    <3>5. CASE g \notin own /\ h \notin own
      <4>1. PICK f \in facts : /\ Same(f, g)
                              /\ g.supersededBy = (IF f.id = old THEN new ELSE f.supersededBy)
        BY <1>1, <3>5
      <4>2. PICK k \in facts : /\ Same(k, h)
                              /\ h.supersededBy = (IF k.id = old THEN new ELSE k.supersededBy)
        BY <1>1, <3>5
      <4>3. f = k
        <5>1. f.id = g.id /\ k.id = h.id
          BY <1>3, <4>1, <4>2, SameFields
        <5> QED
          BY <1>8, <2>3, <5>1 DEF TableInv
      <4> QED
        BY <4>1, <4>2, <4>3 DEF Same
    <3> QED
      BY <3>2, <3>3, <3>4, <3>5
  <2> QED
    BY <2>1, <2>2, <2>3 DEF TableInv
<1>11. /\ txn'[r].facts = {} /\ txn'[r].nodes = {} /\ txn'[r].locks = {}
       /\ txn'[r].pc = "done" /\ txn'[r].origin = "debrief"
  BY <1>7 DEF Ended, Idle
<1>12. OwnInv(r)' /\ Holds(r)' = {}
  BY <1>11 DEF OwnInv, NodeInv, RefInv, FactInv, CompareInv, Holds
<1>13. ASSUME NEW q \in Requests \ {r} PROVE OwnInv(q)'
  <2>1. txn'[q] = txn[q] /\ NodeInv(q) /\ RefInv(q) /\ FactInv(q) /\ CompareInv(q)
    BY <1>7 DEF LInv, OwnInv
  <2>2. Apart(q, r)
    BY DEF LInv
  <2>3. Holds(q)' = Holds(q)
    BY <2>1 DEF Holds
  <2>4. NodeInv(q)'
    <3>1. \A n \in txn[q].nodes, k \in txn[r].nodes : k.id # n.id
      BY <2>2 DEF Apart, Holds
    <3> QED
      BY <1>6, <2>1, <3>1 DEF NodeInv
  <2>5. RefInv(q)'
    <3>1. \A i : Known(q, i) => Known(q, i)'
      BY <1>6, <2>1 DEF Known, VisibleNodes
    <3>2. ASSUME txn[q].origin = "challenge", NEW g \in facts', g.id = txn[q].old
          PROVE  /\ g.subject = txn[q].subject
                 /\ \A f \in txn[q].facts : f.entity = g.entity
      <4>1. PICK k \in facts : k.id = txn[q].old
        BY <3>2 DEF IInv, TxnInv, TxnShape
      <4>2. g \notin own
        BY <1>8, <3>2, <4>1 DEF FactInv
      <4>3. PICK f \in facts : Same(f, g)
        BY <1>1, <4>2
      <4> QED
        BY <1>3, <2>1, <3>2, <4>3, SameFields DEF RefInv
    <3> QED
      BY <2>1, <2>3, <3>1, <3>2 DEF RefInv
  <2>6. FactInv(q)'
    <3>1. ASSUME NEW f \in txn[q].facts, NEW g \in facts' PROVE g.id # f.id
      <4>1. CASE g \in own
        BY <2>2, <4>1 DEF Apart
      <4>2. CASE g \notin own
        BY <1>1, <1>3, <2>1, <4>2, SameFields DEF FactInv
      <4> QED
        BY <4>1, <4>2
    <3> QED
      BY <2>1, <3>1 DEF FactInv
  <2>7. CompareInv(q)'
    <3> DEFINE Before(b) == {f \in txn[q].facts : f.id < b.id}
               Active(table, b) == {f \in table : /\ f.subject = b.subject /\ f.entity = b.entity
                                                  /\ f.supersededBy = None}
    <3> SUFFICES ASSUME NEW b \in txn[q].facts, b.kind = "plain",
                        NEW a \in GetActive(facts' \cup Before(b), b.subject, b.entity)
                 PROVE  ~Contradicts(a.value, b.value)
      BY <2>1 DEF CompareInv
    <3>1. b.subject \in Holds(q)
      <4>1. txn[q].origin # "challenge"
        BY <1>3 DEF IInv, TxnInv, TxnShape
      <4> QED
        BY <2>1, <4>1 DEF RefInv
    <3>2. b.subject \notin Holds(r)
      BY <2>2, <3>1 DEF Apart
    <3>3. \A f \in facts : f.subject = b.subject => f \in facts'
      BY <1>2, <1>5, <3>2
    <3>4. \A g \in facts' : g.subject = b.subject => g \in facts
      <4> SUFFICES ASSUME NEW g \in facts', g.subject = b.subject PROVE g \in facts
        OBVIOUS
      <4>1. g \notin own
        BY <1>4, <3>2
      <4>2. PICK f \in facts : /\ Same(f, g)
                              /\ g.supersededBy = (IF f.id = old THEN new ELSE f.supersededBy)
        BY <1>1, <4>1
      <4>3. f.subject = g.subject /\ f \in Fact
        BY <1>3, <4>2, SameFields
      <4>4. f.id # old
        BY <1>5, <3>2, <4>3
      <4>5. g = f
        BY <4>2, <4>3, <4>4 DEF Same, Fact
      <4> QED
        BY <4>5
    <3>5. Active(facts' \cup Before(b), b) = Active(facts \cup Before(b), b)
      BY <3>3, <3>4
    <3>6. a \in GetActive(facts \cup Before(b), b.subject, b.entity)
      BY <3>5 DEF GetActive
    <3> QED
      BY <2>1, <3>6 DEF CompareInv
  <2> QED
    BY <2>4, <2>5, <2>6, <2>7 DEF OwnInv
<1>14. ASSUME NEW p \in Requests, NEW q \in Requests, p # q PROVE Apart(p, q)'
  <2>1. CASE p = r \/ q = r
    BY <1>11, <1>12, <2>1 DEF Apart
  <2>2. CASE p # r /\ q # r
    <3>1. txn'[p] = txn[p] /\ txn'[q] = txn[q] /\ Apart(p, q)
      BY <1>7, <1>14, <2>2 DEF LInv
    <3> QED
      BY <3>1 DEF Apart, Holds
  <2> QED
    BY <2>1, <2>2
<1> QED
  BY <1>10, <1>12, <1>13, <1>14 DEF LInv

-----------------------------------------------------------------------------
LEMMA NextIsolated ==
  ASSUME Redirects = {} PROVE IInv /\ LInv /\ [Next]_vars => LInv'
<1> SUFFICES ASSUME IInv, LInv, [Next]_vars PROVE LInv'
  OBVIOUS
<1>1. CASE UNCHANGED vars
  <2>1. /\ nodes' = nodes /\ facts' = facts /\ txn' = txn /\ nextNode' = nextNode
    BY <1>1 DEF vars, tables
  <2>2. TableInv'
    BY <2>1 DEF LInv, TableInv
  <2>3. ASSUME NEW r \in Requests PROVE OwnInv(r)'
    <3>1. Holds(r)' = Holds(r) /\ VisibleNodes(r)' = VisibleNodes(r)
      BY <2>1 DEF Holds, VisibleNodes
    <3>2. OwnInv(r)
      BY DEF LInv
    <3>3. NodeInv(r)' /\ FactInv(r)' /\ CompareInv(r)'
      BY <2>1, <3>2 DEF OwnInv, NodeInv, FactInv, CompareInv
    <3>4. RefInv(r)'
      BY <2>1, <3>1, <3>2 DEF OwnInv, RefInv, Known
    <3> QED
      BY <3>3, <3>4 DEF OwnInv
  <2>4. \A r, q \in Requests : r # q => Apart(r, q)'
    BY <2>1 DEF LInv, Apart, Holds
  <2> QED
    BY <2>2, <2>3, <2>4 DEF LInv
<1>2. ASSUME NEW r \in Requests, NEW words \in Utterances, StartDebrief(r, words)
      PROVE  LInv'
  BY <1>2, StartIsolated
<1>3. ASSUME NEW r \in Requests, NEW s \in Requests, ReadChallenge(r, s)
      PROVE  LInv'
  BY <1>3, ReadChallengeIsolated
<1>4. ASSUME NEW r \in Requests, NEW s \in Requests, ReadAmbiguity(r, s)
      PROVE  LInv'
  BY <1>4, ReadAmbiguityIsolated
<1>5. ASSUME NEW r \in Requests, Complete(r) \/ AskWho(r) \/ RaiseChallenge(r) \/ Settle(r)
      PROVE  LInv'
  <2>1. PICK status, pending : Commit(r, status, pending)
    BY <1>5 DEF Complete, AskWho, RaiseChallenge, Settle
  <2>2. txn[r].origin = "challenge" => txn[r].pc = "settle"
    BY <1>5 DEF Complete, AskWho, AtMutation, RaiseChallenge, Settle, IInv, TxnInv, TxnShape
  <2> QED
    BY <2>1, <2>2, CommitIsolated
<1>6. ASSUME NEW r \in Requests, Step(r)
      PROVE  LInv'
  BY <1>5, <1>6, FindIsolated, CreateIsolated, TouchIsolated, OtherLockIsolated, WriteIsolated
     DEF Step
<1>7. ASSUME NEW r \in Requests, Fail(r) \/ DeadlockVictim(r)
      PROVE  LInv'
  BY <1>7, FailIsolated DEF DeadlockVictim
<1> QED
  BY <1>1, <1>2, <1>3, <1>4, <1>6, <1>7 DEF Next

\* A committed plain fact agrees with the active fact before it, whichever
\* requests wrote about the person meanwhile, as long as no client redirects a
\* resolution to another person (touch_node before detect_contradiction in
\* _process_mutations).
THEOREM NoSilentOverwriteHolds ==
  ASSUME Redirects = {} PROVE Spec => NoSilentOverwrite
<1> DEFINE Careful ==
      \A b \in facts' \ facts : b.kind = "plain" /\ b.supersededBy = None =>
        \A a \in GetActive(facts \cup {f \in facts' : f.id < b.id}, b.subject, b.entity) :
            ~Contradicts(a.value, b.value)
<1>1. Init => IInv /\ LInv
  BY InitInv, InitIsolated
<1>2. IInv /\ LInv /\ [Next]_vars => IInv' /\ LInv'
  BY NextInv, NextIsolated
<1>3. IInv /\ LInv /\ [Next]_vars => [Careful]_facts
  <2> SUFFICES ASSUME IInv, LInv, [Next]_vars, facts' # facts,
                      NEW b \in facts' \ facts, b.kind = "plain", b.supersededBy = None,
                      NEW a \in GetActive(facts \cup {f \in facts' : f.id < b.id},
                                          b.subject, b.entity)
               PROVE  ~Contradicts(a.value, b.value)
    OBVIOUS
  <2>1. PICK r \in Requests : \E status, pending : Commit(r, status, pending)
    BY OnlyCommitsShow
  <2>2. PICK new \in Id : \A g \in facts' \ txn[r].facts : \E f \in facts :
           /\ Same(f, g)
           /\ g.supersededBy = (IF f.id = txn[r].old THEN new ELSE f.supersededBy)
    BY <2>1, CommitFacts
  <2>3. b \in txn[r].facts
    <3> SUFFICES ASSUME b \notin txn[r].facts PROVE FALSE
      OBVIOUS
    <3>1. PICK f \in facts :
             /\ Same(f, b)
             /\ b.supersededBy = (IF f.id = txn[r].old THEN new ELSE f.supersededBy)
      BY <2>2
    <3>2. f \in Fact /\ f.id # txn[r].old
      BY <3>1 DEF Id, IInv, TypeOK
    <3>3. b = f
      BY <3>1, <3>2 DEF Same, Fact
    <3> QED
      BY <3>3
  <2>4. txn[r].old = None
    BY <2>3 DEF IInv, TxnInv, TxnShape
  <2>5. facts' = txn[r].facts \cup facts
    BY <2>1, <2>4 DEF Commit
  <2>6. facts \cup {f \in facts' : f.id < b.id} = facts \cup {f \in txn[r].facts : f.id < b.id}
    BY <2>5
  <2> QED
    BY <2>3, <2>6 DEF LInv, OwnInv, CompareInv
<1> QED
  BY <1>1, <1>2, <1>3, PTL DEF Spec, NoSilentOverwrite

-----------------------------------------------------------------------------
\* The ledger implements the abstract book as long as no answer names another
\* person.  Only a commit shows, and a commit either adds facts that were compared
\* under the node locks (Say) or inserts one resolution and points the challenged
\* fact at it (Answer); and pointers stay within the history of one subject and
\* entity.

\* The book of a table.
Pages(table) == {Entry(f) : f \in table}

\* An entry shows the fact it is of.
LEMMA EntryFields ==
  ASSUME NEW f
  PROVE  /\ Entry(f).id = f.id /\ Entry(f).subject = f.subject /\ Entry(f).entity = f.entity
         /\ Entry(f).value = f.value /\ Entry(f).how = How(f.kind)
         /\ Entry(f).next = f.supersededBy
  BY DEF Entry

LEMMA HowOfKind ==
  /\ \A kind \in FactKinds : How(kind) = "said" => kind = "plain"
  /\ \A kind \in FactKinds : How(kind) = "verified" <=> kind = "resolution"
  BY DEF How, FactKinds

\* What the book of a table says last is the entry of the active fact.
LEMMA CurrentIsActive ==
  ASSUME NEW table, NEW s, NEW e, NEW y \in Book!Current(Pages(table), s, e)
  PROVE  \E a \in GetActive(table, s, e) : y = Entry(a)
<1> DEFINE Active == {f \in table : f.subject = s /\ f.entity = e /\ f.supersededBy = None}
<1>1. \A f \in Active : Entry(f) \in Book!Standing(Pages(table), s, e)
  BY EntryFields DEF Book!Standing, Book!None, None, Pages
<1>2. y \in Book!Standing(Pages(table), s, e)
  BY DEF Book!Current
<1>3. PICK a \in table : y = Entry(a)
  BY <1>2 DEF Book!Standing, Pages
<1>4. a \in Active
  BY <1>2, <1>3, EntryFields DEF Book!Standing, Book!None, None
<1>5. \A f \in Active : f.id <= a.id
  BY <1>1, <1>3, EntryFields DEF Book!Current
<1>6. a \in Newest(Active)
  BY <1>4, <1>5 DEF Newest
<1> QED
  BY <1>3, <1>6 DEF GetActive

-----------------------------------------------------------------------------
\* A commit of a debrief, or of an answer about a person, says something.
LEMMA CommitSays ==
  ASSUME IInv, LInv, NEW r \in Requests, NEW status, NEW pending, Commit(r, status, pending),
         txn[r].old = None
  PROVE  Book!Say
<1> DEFINE own == txn[r].facts
<1>1. facts' = own \cup facts
  BY DEF Commit
<1>2. /\ facts \subseteq Fact /\ own \subseteq Fact
  BY DEF IInv, TypeOK, Txn
<1>3. FactInv(r) /\ CompareInv(r)
  BY DEF LInv, OwnInv
<1>4. \A f \in own : f.kind # "resolution" /\ f.supersededBy = None
  <2>1. \A g \in facts : g.id # None
    BY <1>2 DEF Fact, Id
  <2>2. txn[r].origin # "challenge"
    BY <2>1 DEF IInv, TxnInv, TxnShape
  <2> QED
    BY <2>2 DEF IInv, TxnInv, TxnShape
<1>5. Pages(facts) \subseteq Pages(facts')
  BY <1>1 DEF Pages
<1>6. ASSUME NEW x \in Pages(facts') \ Pages(facts)
      PROVE  /\ x.next = Book!None
             /\ x.how # "verified"
             /\ \A y \in Pages(facts') : y.id = x.id => y = x
             /\ x.how = "said" =>
                   \A y \in Book!Current(Pages(facts) \cup {z \in Pages(facts') : z.id < x.id},
                                         x.subject, x.entity) :
                       ~Contradicts(y.value, x.value)
  <2>1. PICK f \in own : x = Entry(f)
    BY <1>1 DEF Pages
  <2>2. /\ x.id = f.id /\ x.subject = f.subject /\ x.entity = f.entity
        /\ x.value = f.value /\ x.how = How(f.kind) /\ x.next = f.supersededBy
    BY <2>1, EntryFields
  <2>3. x.next = Book!None
    BY <1>4, <2>2 DEF Book!None, None
  <2>4. f.kind \in FactKinds
    BY <1>2 DEF Fact
  <2>5. x.how # "verified"
    BY <1>4, <2>2, <2>4, HowOfKind
  <2>6. ASSUME NEW y \in Pages(facts'), y.id = x.id PROVE y = x
    <3>1. PICK g \in facts' : y = Entry(g)
      BY DEF Pages
    <3>2. g.id = f.id
      BY <2>2, <2>6, <3>1, EntryFields
    <3>3. g = f
      BY <1>1, <1>3, <3>2 DEF FactInv
    <3> QED
      BY <2>1, <3>1, <3>3
  <2>7. ASSUME x.how = "said",
               NEW y \in Book!Current(Pages(facts) \cup {z \in Pages(facts') : z.id < x.id},
                                      x.subject, x.entity)
        PROVE  ~Contradicts(y.value, x.value)
    <3> DEFINE before == facts \cup {g \in own : g.id < f.id}
    <3>1. f.kind = "plain"
      BY <2>2, <2>4, <2>7, HowOfKind
    <3>2. Pages(facts) \cup {z \in Pages(facts') : z.id < x.id} = Pages(before)
      <4>1. ASSUME NEW z \in Pages(facts'), z.id < x.id PROVE z \in Pages(before)
        <5>1. PICK g \in facts' : z = Entry(g)
          BY DEF Pages
        <5>2. g.id < f.id
          BY <2>2, <4>1, <5>1, EntryFields
        <5> QED
          BY <1>1, <5>1, <5>2 DEF Pages
      <4>2. ASSUME NEW z \in Pages(before)
            PROVE  z \in Pages(facts) \/ (z \in Pages(facts') /\ z.id < x.id)
        <5>1. PICK g \in before : z = Entry(g)
          BY DEF Pages
        <5>2. CASE g \in facts
          BY <5>1, <5>2 DEF Pages
        <5>3. CASE g \in own /\ g.id < f.id
          BY <1>1, <2>2, <5>1, <5>3, EntryFields DEF Pages
        <5> QED
          BY <5>2, <5>3
      <4>3. Pages(facts) \subseteq Pages(before)
        BY DEF Pages
      <4> QED
        BY <4>1, <4>2, <4>3
    <3>3. y \in Book!Current(Pages(before), f.subject, f.entity)
      BY <2>2, <2>7, <3>2
    <3> HIDE DEF before
    <3>4. PICK a \in GetActive(before, f.subject, f.entity) : y = Entry(a)
      BY <3>3, CurrentIsActive
    <3>5. ~Contradicts(a.value, f.value)
      BY <1>3, <3>1, <3>4 DEF CompareInv, before
    <3> QED
      BY <2>2, <3>4, <3>5, EntryFields
  <2> QED
    BY <2>3, <2>5, <2>6, <2>7
<1> QED
  BY <1>5, <1>6 DEF Book!Say, Pages

\* Superseding shows in the book as a pointer on one entry.
LEMMA SupersededPages ==
  ASSUME NEW table \in SUBSET Fact, NEW new \in Id, NEW o \in table,
         \A f \in table : f.id = o.id => f = o
  PROVE  Pages(Supersede(table, o.id, new))
           = (Pages(table) \ {Entry(o)}) \cup {[Entry(o) EXCEPT !.next = new]}
<1> DEFINE moved == [o EXCEPT !.supersededBy = new]
           After(f) == IF f.id = o.id THEN [f EXCEPT !.supersededBy = new] ELSE f
<1>1. Entry(moved) = [Entry(o) EXCEPT !.next = new]
  <2>1. /\ moved.id = o.id /\ moved.subject = o.subject /\ moved.entity = o.entity
        /\ moved.value = o.value /\ moved.kind = o.kind /\ moved.supersededBy = new
    BY DEF Fact
  <2> HIDE DEF moved
  <2> QED
    BY <2>1 DEF Entry
<1>2. After(o) = moved /\ \A f \in table \ {o} : After(f) = f
  OBVIOUS
<1>3. Supersede(table, o.id, new) = {After(f) : f \in table}
  BY DEF Supersede
<1> HIDE DEF After, moved
<1>4. Supersede(table, o.id, new) = (table \ {o}) \cup {moved}
  BY <1>2, <1>3
<1>5. Pages(table \ {o}) = Pages(table) \ {Entry(o)}
  <2>1. \A f \in table \ {o} : Entry(f) # Entry(o)
    BY EntryFields
  <2> QED
    BY <2>1 DEF Pages
<1>6. Pages((table \ {o}) \cup {moved}) = Pages(table \ {o}) \cup {Entry(moved)}
  BY DEF Pages
<1> QED
  BY <1>1, <1>4, <1>5, <1>6

\* A commit of an answer to a challenge answers one entry.
LEMMA CommitAnswers ==
  ASSUME IInv, LInv, NEW r \in Requests, NEW status, NEW pending, Commit(r, status, pending),
         txn[r].old # None
  PROVE  Book!Answer
<1> DEFINE own == txn[r].facts
           old == txn[r].old
<1>1. txn[r].origin = "challenge"
  BY DEF IInv, TxnInv, TxnShape
<1>2. PICK h \in own : own = {h} /\ h.kind = "resolution" /\ old < h.id /\ h.supersededBy = None
  BY <1>1 DEF IInv, TxnInv, TxnShape
<1>3. PICK o \in facts : o.id = old
  BY <1>1 DEF IInv, TxnInv, TxnShape
<1>4. facts \subseteq Fact /\ h \in Fact /\ h.id \in Id
  BY DEF IInv, TypeOK, Txn, Fact
<1>5. facts' = {h} \cup Supersede(facts, o.id, h.id)
  BY <1>2, <1>3 DEF Commit
<1>6. /\ h.subject = o.subject /\ h.entity = o.entity
      /\ \A g \in facts : g.id # h.id
      /\ \A g \in facts : g.id = o.id => g = o
  BY <1>1, <1>2, <1>3 DEF LInv, OwnInv, RefInv, FactInv, TableInv
<1>7. Pages(Supersede(facts, o.id, h.id))
        = (Pages(facts) \ {Entry(o)}) \cup {[Entry(o) EXCEPT !.next = h.id]}
  BY <1>4, <1>6, SupersededPages
<1>8. Pages(facts') = {Entry(h)} \cup Pages(Supersede(facts, o.id, h.id))
  BY <1>5 DEF Pages
<1>9. Pages(facts')
        = (Pages(facts) \ {Entry(o)}) \cup {[Entry(o) EXCEPT !.next = Entry(h).id], Entry(h)}
  BY <1>7, <1>8, EntryFields
<1>10. Entry(o) \in Pages(facts) /\ Entry(h) \in Pages(facts')
  BY <1>9 DEF Pages
<1>11. /\ Entry(h).how = "verified" /\ Entry(h).next = Book!None
       /\ Entry(h).subject = Entry(o).subject /\ Entry(h).entity = Entry(o).entity
       /\ Entry(o).id < Entry(h).id
  BY <1>2, <1>3, <1>6, EntryFields DEF How, Book!None, None
<1>12. \A y \in Pages(facts) : y.id # Entry(h).id
  BY <1>6, EntryFields DEF Pages
<1> QED
  BY <1>9, <1>10, <1>11, <1>12 DEF Book!Answer, Pages

-----------------------------------------------------------------------------
\* However many requests run at once, what they do to the facts table is what
\* the abstract book allows: add what agrees with what stood, or answer one
\* entry (_process_mutations, resolve_challenge, get_active).
THEOREM ImplementsBookHolds ==
  ASSUME Redirects = {} PROVE Spec => ImplementsBook
<1>1. Init => IInv /\ LInv
  BY InitInv, InitIsolated
<1>2. IInv /\ LInv /\ [Next]_vars => IInv' /\ LInv'
  BY NextInv, NextIsolated
<1>3. Init => Book!Init
  BY DEF Init, Book!Init
<1>4. IInv /\ LInv /\ [Next]_vars => [Book!Next]_({Entry(f) : f \in facts})
  <2> SUFFICES ASSUME IInv, LInv, [Next]_vars,
                      {Entry(f) : f \in facts}' # {Entry(f) : f \in facts}
               PROVE  Book!Next
    OBVIOUS
  <2>1. facts' # facts
    OBVIOUS
  <2>2. PICK r \in Requests : \E status, pending : Commit(r, status, pending)
    BY <2>1, OnlyCommitsShow
  <2>3. PICK status, pending : Commit(r, status, pending)
    BY <2>2
  <2>4. CASE txn[r].old = None
    BY <2>3, <2>4, CommitSays DEF Book!Next
  <2>5. CASE txn[r].old # None
    BY <2>3, <2>5, CommitAnswers DEF Book!Next
  <2> QED
    BY <2>4, <2>5
<1> QED
  BY <1>1, <1>2, <1>3, <1>4, PTL DEF Spec, ImplementsBook, Book!Spec
-----------------------------------------------------------------------------
\* A commit keeps SupersededBySame: only the challenged fact gets a new pointer,
\* and to a resolution about the same person and entity.
LEMMA CommitKeepsSame ==
  ASSUME IInv, LInv, LInv', SupersededBySame,
         NEW r \in Requests, NEW status, NEW pending, Commit(r, status, pending)
  PROVE  SupersededBySame'
<1> DEFINE own == txn[r].facts
           old == txn[r].old
<1>1. PICK new \in Id : \A g \in facts' \ own : \E f \in facts :
         /\ Same(f, g)
         /\ g.supersededBy = (IF f.id = old THEN new ELSE f.supersededBy)
         /\ f.id = old => \E h \in own : h.id = new
  BY CommitFacts
<1>2. own \subseteq facts'
  BY CommitFacts
<1>3. facts \subseteq Fact /\ own \subseteq Fact /\ \A f \in Fact : f.id # None
  BY DEF IInv, TypeOK, Txn, Fact, Id
<1>4. facts' \subseteq Fact
  BY CommitFacts
<1>5. \A f \in own : f.supersededBy = None
  BY DEF IInv, TxnInv, TxnShape
<1>6. FactInv(r) /\ RefInv(r) /\ TableInv'
  BY DEF LInv, OwnInv
<1> SUFFICES ASSUME NEW f \in facts', NEW g \in facts', f.supersededBy = g.id
             PROVE  f.subject = g.subject /\ f.entity = g.entity
  BY DEF SupersededBySame
<1>7. f \notin own
  BY <1>3, <1>4, <1>5
<1>8. PICK k \in facts :
         /\ Same(k, f)
         /\ f.supersededBy = (IF k.id = old THEN new ELSE k.supersededBy)
         /\ k.id = old => \E h \in own : h.id = new
  BY <1>1, <1>7
<1>9. f.subject = k.subject /\ f.entity = k.entity
  BY <1>3, <1>8, SameFields
<1>10. CASE k.id = old
  <2>1. PICK h \in own : h.id = new
    BY <1>8, <1>10
  <2>2. g = h
    BY <1>2, <1>6, <1>8, <1>10, <2>1 DEF TableInv
  <2>3. txn[r].origin = "challenge"
    BY <1>3, <1>10 DEF IInv, TxnInv, TxnShape
  <2> QED
    BY <1>6, <1>9, <1>10, <2>1, <2>2, <2>3 DEF RefInv
<1>11. CASE k.id # old
  <2>1. k.supersededBy = g.id /\ k.supersededBy # None
    BY <1>3, <1>4, <1>8, <1>11
  <2>2. PICK j \in facts : j.id = g.id
    BY <2>1 DEF IInv, SupersededByLater
  <2>3. g \notin own
    BY <1>6, <2>2 DEF FactInv
  <2>4. PICK l \in facts : Same(l, g)
    BY <1>1, <2>3
  <2>5. g.id = l.id /\ g.subject = l.subject /\ g.entity = l.entity
    BY <1>3, <2>4, SameFields
  <2> QED
    BY <1>9, <2>1, <2>5 DEF SupersededBySame
<1> QED
  BY <1>10, <1>11

\* Without redirection, a challenge that waits while others about the same
\* person are answered never leads one history into another
\* (conflict_resolution_fact and mark_superseded in resolve_challenge).
THEOREM SupersededBySameHolds ==
  ASSUME Redirects = {} PROVE Spec => []SupersededBySame
<1>1. Init => IInv /\ LInv /\ SupersededBySame
  BY InitInv, InitIsolated DEF Init, SupersededBySame
<1>2. IInv /\ LInv /\ [Next]_vars => IInv' /\ LInv'
  BY NextInv, NextIsolated
<1>3. IInv /\ LInv /\ SupersededBySame /\ [Next]_vars => SupersededBySame'
  <2> SUFFICES ASSUME IInv, LInv, SupersededBySame, [Next]_vars PROVE SupersededBySame'
    OBVIOUS
  <2>1. CASE facts' = facts
    BY <2>1 DEF SupersededBySame
  <2>2. CASE facts' # facts
    <3>1. PICK r \in Requests : \E status, pending : Commit(r, status, pending)
      BY <2>2, OnlyCommitsShow
    <3> QED
      BY <1>2, <3>1, CommitKeepsSame
  <2> QED
    BY <2>1, <2>2
<1> QED
  BY <1>1, <1>2, <1>3, PTL DEF Spec

-----------------------------------------------------------------------------
(***************************************************************************)
(* One request at a time (Concurrency = 1): what each session has staged,  *)
(* and what get_active says of a person after the agent verified it.       *)
(*                                                                         *)
(* The invariant says who runs, that a session which has not been started  *)
(* is empty, and that the list the running request will store is the one   *)
(* its session has with the facts it wrote.                                *)
(***************************************************************************)
Alone == \A r, q \in Requests : Busy(r) /\ Busy(q) => r = q

SerialTxn(r) ==
    LET t == txn[r]
    IN  /\ t.pc = "idle" => sessions[r] = NoSession
        /\ Busy(r) =>
              /\ t.origin = "debrief" => t.session = r /\ sessions[r] = NoSession
              /\ t.origin # "debrief" => sessions[t.session].pending # NoPending
              /\ t.staged = sessions[t.session].staged \cup {f.id : f \in t.facts}
              /\ \A f \in t.facts, g \in facts : g.id < f.id

SInv == /\ Alone
        /\ StagedExact
        /\ \A r \in Requests : SerialTxn(r)

LEMMA InitSerial == Init => SInv
<1> SUFFICES ASSUME Init PROVE SInv
  OBVIOUS
<1>1. \A r \in Requests : ~Busy(r) /\ sessions[r] = NoSession
  BY DEF Init, Idle, Busy, Steps
<1>2. StagedExact
  BY <1>1 DEF StagedExact, Init, NoSession
<1> QED
  BY <1>1, <1>2 DEF SInv, Alone, SerialTxn

\* A request that may start is the only one.
LEMMA NobodyElse ==
  ASSUME Concurrency = 1, SInv, Cardinality(InFlight) < Concurrency
  PROVE  \A q \in Requests : ~Busy(q)
<1> SUFFICES ASSUME NEW q \in Requests, Busy(q) PROVE FALSE
  OBVIOUS
<1>1. InFlight = {q}
  BY DEF SInv, Alone, InFlight
<1>2. Cardinality(InFlight) = 1
  BY <1>1, FS_Singleton
<1> QED
  BY <1>2

\* A step that changes only what request r is doing.
LEMMA LocalSerial ==
  ASSUME IInv, SInv, NEW r \in Requests, NEW t,
         txn' = [txn EXCEPT ![r] = t],
         UNCHANGED tables,
         t.pc \in Steps => \A q \in Requests \ {r} : ~Busy(q),
         SerialTxn(r)'
  PROVE  SInv'
<1>1. txn'[r] = t /\ \A q \in Requests \ {r} : txn'[q] = txn[q]
  BY DEF IInv, TypeOK
<1>2. facts' = facts /\ sessions' = sessions
  BY DEF tables
<1>3. \A q \in Requests \ {r} : Busy(q)' = Busy(q) /\ SerialTxn(q)'
  <2> TAKE q \in Requests \ {r}
  <2>1. txn'[q] = txn[q] /\ SerialTxn(q)
    BY <1>1 DEF SInv
  <2> QED
    BY <1>2, <2>1 DEF SerialTxn, Busy
<1>4. Busy(r)' => t.pc \in Steps
  BY <1>1 DEF Busy
<1>5. Alone'
  BY <1>3, <1>4 DEF SInv, Alone
<1>6. StagedExact'
  BY <1>2 DEF SInv, StagedExact
<1> QED
  BY <1>3, <1>5, <1>6 DEF SInv

\* The running request goes on to another statement, and writes no fact.
LEMMA MoveSerial ==
  ASSUME IInv, SInv, NEW r \in Requests, NEW t,
         Busy(r), t.pc \in Steps,
         txn' = [txn EXCEPT ![r] = t],
         UNCHANGED tables,
         t.origin = txn[r].origin, t.session = txn[r].session,
         t.staged = txn[r].staged, t.facts = txn[r].facts
  PROVE  SInv'
<1>1. txn'[r] = t /\ facts' = facts /\ sessions' = sessions
  BY DEF IInv, TypeOK, tables
<1>2. \A q \in Requests \ {r} : ~Busy(q)
  BY DEF SInv, Alone
<1>3. t.pc # "idle"
  BY DEF Steps
<1>4. SerialTxn(r)'
  BY <1>1, <1>3 DEF SInv, SerialTxn
<1> QED
  BY <1>2, <1>4, LocalSerial

LEMMA StartSerial ==
  ASSUME IInv, SInv, Concurrency = 1,
         NEW r \in Requests, NEW words \in Utterances, StartDebrief(r, words)
  PROVE  SInv'
<1> DEFINE t == [txn[r] EXCEPT !.pc = "next", !.words = words, !.todo = words]
<1>1. txn[r] = Idle(r)
  <2>1. txn[r] = [Idle(r) EXCEPT !.pc = txn[r].pc]
    BY DEF IInv, TxnInv, TxnShape, StartDebrief, Busy, Steps
  <2> QED
    BY <2>1 DEF Idle, StartDebrief
<1>2. txn' = [txn EXCEPT ![r] = t] /\ UNCHANGED tables /\ facts' = facts /\ sessions' = sessions
  BY DEF StartDebrief, tables
<1>3. \A q \in Requests : ~Busy(q)
  BY NobodyElse DEF StartDebrief
<1>4. txn'[r] = t
  BY <1>2 DEF IInv, TypeOK
<1>5. /\ t.pc = "next" /\ t.origin = "debrief" /\ t.session = r
      /\ t.staged = {} /\ t.facts = {}
  BY <1>1 DEF Idle
<1>6. sessions[r] = NoSession /\ sessions[r].staged = {}
  <2>1. txn[r].pc = "idle" /\ SerialTxn(r)
    BY DEF StartDebrief, SInv
  <2>2. sessions[r] = NoSession
    BY <2>1 DEF SerialTxn
  <2> QED
    BY <2>2 DEF NoSession
<1> HIDE DEF t
<1>7. SerialTxn(r)'
  BY <1>2, <1>4, <1>5, <1>6 DEF SerialTxn
<1> QED
  BY <1>2, <1>3, <1>7, LocalSerial

LEMMA FindSerial ==
  ASSUME IInv, SInv, NEW r \in Requests, FindPerson(r)
  PROVE  SInv'
<1>1. PICK i : txn' = [txn EXCEPT ![r].pc = "touch", ![r].subject = i]
  BY DEF FindPerson
<1> DEFINE t == [txn[r] EXCEPT !.pc = "touch", !.subject = i]
<1>2. /\ t.pc = "touch" /\ t.origin = txn[r].origin /\ t.session = txn[r].session
      /\ t.staged = txn[r].staged /\ t.facts = txn[r].facts
  BY DEF IInv, TypeOK, Txn
<1>3. txn' = [txn EXCEPT ![r] = t] /\ UNCHANGED tables
  BY <1>1 DEF FindPerson
<1>4. Busy(r) /\ "touch" \in Steps
  BY DEF FindPerson, AtMutation, Busy, Steps
<1> HIDE DEF t
<1> QED
  BY <1>2, <1>3, <1>4, MoveSerial

LEMMA CreateSerial ==
  ASSUME IInv, SInv, NEW r \in Requests, CreatePerson(r)
  PROVE  SInv'
<1> DEFINE t == [txn[r] EXCEPT !.pc = "write", !.subject = nextNode,
                    !.nodes = @ \cup {[id |-> nextNode, name |-> Head(txn[r].todo).spoken]}]
<1>2. /\ t.pc = "write" /\ t.origin = txn[r].origin /\ t.session = txn[r].session
      /\ t.staged = txn[r].staged /\ t.facts = txn[r].facts
  BY DEF IInv, TypeOK, Txn
<1>3. txn' = [txn EXCEPT ![r] = t] /\ UNCHANGED tables
  BY DEF CreatePerson
<1>4. Busy(r) /\ "write" \in Steps
  BY DEF CreatePerson, AtMutation, Busy, Steps
<1> HIDE DEF t
<1> QED
  BY <1>2, <1>3, <1>4, MoveSerial

LEMMA LockSerial ==
  ASSUME IInv, SInv, NEW r \in Requests, Touch(r) \/ MarkSuperseded(r) \/ Claim(r)
  PROVE  SInv'
<1>1. Busy(r) /\ UNCHANGED tables
  BY DEF Touch, MarkSuperseded, Claim, Busy, Steps
<1>2. PICK pc \in Steps : txn' = [txn EXCEPT ![r].pc = pc, ![r].locks = @ \cup Wanted(r)]
  <2>1. txn[r].origin \in {"debrief", "ambiguity", "challenge"}
    BY DEF IInv, TypeOK, Txn
  <2>2. CASE Touch(r)
    <3>1. CASE txn[r].origin = "debrief"
      BY <2>2, <3>1 DEF Touch, Steps
    <3>2. CASE txn[r].origin = "ambiguity"
      BY <2>2, <3>2 DEF Touch, Steps
    <3>3. CASE txn[r].origin = "challenge"
      BY <2>2, <3>3 DEF Touch, Steps
    <3> QED
      BY <2>1, <3>1, <3>2, <3>3
  <2>3. CASE MarkSuperseded(r)
    BY <2>3 DEF MarkSuperseded, Steps
  <2>4. CASE Claim(r)
    BY <2>4 DEF Claim, Steps
  <2> QED
    BY <2>2, <2>3, <2>4
<1> DEFINE t == [txn[r] EXCEPT !.pc = pc, !.locks = @ \cup Wanted(r)]
<1>3. /\ t.pc = pc /\ t.origin = txn[r].origin /\ t.session = txn[r].session
      /\ t.staged = txn[r].staged /\ t.facts = txn[r].facts
  BY DEF IInv, TypeOK, Txn
<1>4. txn' = [txn EXCEPT ![r] = t]
  BY <1>2
<1> HIDE DEF t
<1> QED
  BY <1>1, <1>2, <1>3, <1>4, MoveSerial

\* The list grows with the facts.
LEMMA RecordSerial ==
  ASSUME IInv, SInv, NEW r \in Requests, NEW entity, NEW kind, NEW event,
         txn[r].pc = "write", Record(r, entity, kind, event)
  PROVE  SInv'
<1> DEFINE row == [id |-> nextFact, subject |-> txn[r].subject, entity |-> entity,
                   value |-> Stored(Head(txn[r].todo).value), kind |-> kind,
                   supersededBy |-> None]
           t == [txn[r] EXCEPT
                   !.pc = "next", !.todo = Tail(@), !.subject = None,
                   !.facts = @ \cup {row}, !.staged = @ \cup {nextFact},
                   !.events = @ \cup {[kind |-> event, fact |-> nextFact, old |-> None]}]
<1>1. txn' = [txn EXCEPT ![r] = t] /\ UNCHANGED tables /\ facts' = facts /\ sessions' = sessions
  BY DEF Record, tables
<1>2. /\ t.pc = "next" /\ t.origin = txn[r].origin /\ t.session = txn[r].session
      /\ t.staged = txn[r].staged \cup {nextFact} /\ t.facts = txn[r].facts \cup {row}
  BY DEF IInv, TypeOK, Txn
<1>3. txn'[r] = t
  BY <1>1 DEF IInv, TypeOK
<1>4. row.id = nextFact
  OBVIOUS
<1> HIDE DEF t, row
<1>5. Busy(r) /\ SerialTxn(r) /\ \A q \in Requests \ {r} : ~Busy(q)
  BY DEF Busy, Steps, SInv, Alone
<1>6. \A g \in facts : g.id < nextFact
  BY DEF IInv, Keys
<1>7. {f.id : f \in t.facts} = {f.id : f \in txn[r].facts} \cup {nextFact}
  BY <1>2, <1>4
<1>8. SerialTxn(r)'
  BY <1>1, <1>2, <1>3, <1>4, <1>5, <1>6, <1>7 DEF SerialTxn
<1> QED
  BY <1>1, <1>5, <1>8, LocalSerial

LEMMA WriteSerial ==
  ASSUME IInv, SInv, NEW r \in Requests, WriteConstraint(r) \/ WriteTrait(r) \/ WriteFact(r)
  PROVE  SInv'
<1>1. CASE WriteConstraint(r)
  BY <1>1, RecordSerial DEF WriteConstraint
<1>2. CASE WriteTrait(r)
  BY <1>2, RecordSerial DEF WriteTrait
<1>3. CASE WriteFact(r)
  BY <1>3, RecordSerial DEF WriteFact
<1> QED
  BY <1>1, <1>2, <1>3

LEMMA ReadChallengeSerial ==
  ASSUME IInv, SInv, Concurrency = 1,
         NEW r \in Requests, NEW s \in Requests, ReadChallenge(r, s)
  PROVE  SInv'
<1> DEFINE c == sessions[s].pending
<1>1. PICK accepted \in Accepted \cup {c.candidate}, note \in Notes,
           subject \in (Redirects \cap {n.id : n \in nodes}) \cup {c.subject} :
        txn' = [txn EXCEPT
            ![r].pc = "supersede", ![r].origin = "challenge", ![r].session = s,
            ![r].subject = subject, ![r].old = c.existing,
            ![r].staged = StagedBefore(s) \cup {nextFact},
            ![r].facts = {[id |-> nextFact, subject |-> subject, entity |-> c.entity,
                           value |-> Stored(Annotate(accepted, note)),
                           kind |-> "resolution", supersededBy |-> None]},
            ![r].events = {[kind |-> "fact_superseded", fact |-> nextFact,
                            old |-> c.existing]}]
  BY DEF ReadChallenge
<1> DEFINE row == [id |-> nextFact, subject |-> subject, entity |-> c.entity,
                   value |-> Stored(Annotate(accepted, note)),
                   kind |-> "resolution", supersededBy |-> None]
           t == [txn[r] EXCEPT
                   !.pc = "supersede", !.origin = "challenge", !.session = s,
                   !.subject = subject, !.old = c.existing,
                   !.staged = StagedBefore(s) \cup {nextFact}, !.facts = {row},
                   !.events = {[kind |-> "fact_superseded", fact |-> nextFact,
                                old |-> c.existing]}]
<1>2. txn' = [txn EXCEPT ![r] = t]
  BY <1>1
<1>3. UNCHANGED tables /\ facts' = facts /\ sessions' = sessions
  BY DEF ReadChallenge, tables
<1>4. row.id = nextFact
  OBVIOUS
<1>5. c # NoPending
  BY DEF ReadChallenge, NoPending
<1> HIDE DEF row, c
<1>6. /\ t.pc = "supersede" /\ t.origin = "challenge" /\ t.session = s
      /\ t.staged = StagedBefore(s) \cup {nextFact} /\ t.facts = {row}
  BY DEF IInv, TypeOK, Txn
<1>7. txn'[r] = t
  BY <1>2 DEF IInv, TypeOK
<1> HIDE DEF t
<1>8. \A q \in Requests : ~Busy(q)
  BY NobodyElse DEF ReadChallenge
<1>9. \A g \in facts : g.id < nextFact
  BY DEF IInv, Keys
<1>10. SerialTxn(r)'
  BY <1>3, <1>4, <1>5, <1>6, <1>7, <1>9 DEF SerialTxn, StagedBefore, c
<1> QED
  BY <1>2, <1>3, <1>8, <1>10, LocalSerial

LEMMA ReadAmbiguitySerial ==
  ASSUME IInv, SInv, Concurrency = 1,
         NEW r \in Requests, NEW s \in Requests, ReadAmbiguity(r, s)
  PROVE  SInv'
<1> DEFINE m == sessions[s].pending.mutation
           begun(pc, subject, own) ==
              [txn[r] EXCEPT !.origin = "ambiguity", !.session = s, !.todo = <<m>>,
                             !.staged = StagedBefore(s), !.pc = pc,
                             !.subject = subject, !.nodes = own]
<1>1. txn[r].facts = {} /\ txn[r].nodes = {}
  <2>1. txn[r] = [Idle(r) EXCEPT !.pc = txn[r].pc]
    BY DEF IInv, TxnInv, TxnShape, ReadAmbiguity, Busy, Steps
  <2> QED
    BY <2>1 DEF Idle
<1>2. UNCHANGED tables /\ facts' = facts /\ sessions' = sessions
  BY DEF ReadAmbiguity, tables
<1>3. sessions[s].pending # NoPending
  <2>1. sessions[s].pending.type = "ambiguity"
    BY DEF ReadAmbiguity
  <2> QED
    BY <2>1 DEF NoPending
<1>4. PICK pc, subject, own :
         /\ pc \in {"touch", "claim"}
         /\ txn' = [txn EXCEPT ![r] = begun(pc, subject, own)]
  <2>1. txn[r] \in Txn
    BY DEF IInv, TypeOK
  <2>2. ASSUME NEW i
        PROVE  [txn[r] EXCEPT !.origin = "ambiguity", !.session = s, !.todo = <<m>>,
                              !.staged = StagedBefore(s), !.pc = "touch", !.subject = i]
                 = begun("touch", i, {})
    BY <1>1, <2>1 DEF Txn
  <2> HIDE DEF m
  <2>3. \/ \E n \in nodes : txn' = [txn EXCEPT ![r] = begun("touch", n.id, {})]
        \/ txn' = [txn EXCEPT ![r] =
                      begun("claim", nextNode, {[id |-> nextNode, name |-> m.spoken]})]
    BY <2>2 DEF ReadAmbiguity, m
  <2> HIDE DEF begun
  <2> QED
    BY <2>3
<1> DEFINE t == begun(pc, subject, own)
<1>5. /\ t.pc = pc /\ t.origin = "ambiguity" /\ t.session = s
      /\ t.staged = StagedBefore(s) /\ t.facts = {}
  BY <1>1 DEF IInv, TypeOK, Txn
<1>6. txn' = [txn EXCEPT ![r] = t]
  BY <1>4
<1> HIDE DEF t
<1>7. txn'[r] = t
  BY <1>6 DEF IInv, TypeOK
<1>8. \A q \in Requests : ~Busy(q)
  BY NobodyElse DEF ReadAmbiguity
<1>9. SerialTxn(r)'
  BY <1>2, <1>3, <1>4, <1>5, <1>7 DEF SerialTxn, StagedBefore
<1> QED
  BY <1>2, <1>6, <1>8, <1>9, LocalSerial

LEMMA FailSerial ==
  ASSUME IInv, SInv, NEW r \in Requests, Fail(r)
  PROVE  SInv'
<1>1. txn' = [txn EXCEPT ![r] = Ended(r, "failed")] /\ UNCHANGED tables
  BY DEF Fail
<1>2. Ended(r, "failed").pc = "failed" /\ "failed" \notin Steps
  BY DEF Ended, Idle, Steps
<1>3. txn'[r] = Ended(r, "failed")
  BY <1>1 DEF IInv, TypeOK
<1>4. SerialTxn(r)'
  BY <1>2, <1>3 DEF SerialTxn, Busy
<1> QED
  BY <1>1, <1>2, <1>4, LocalSerial

\* A commit stores the list with the facts it names.
LEMMA CommitSerial ==
  ASSUME IInv, SInv, NEW r \in Requests, Busy(r),
         NEW status, NEW pending, Commit(r, status, pending)
  PROVE  SInv'
<1> DEFINE t == txn[r]
           s == txn[r].session
           own == {f.id : f \in t.facts}
<1>1. s \in Requests /\ t.facts \subseteq Fact /\ facts \subseteq Fact
  BY DEF IInv, TypeOK, Txn
<1>2. SerialTxn(r) /\ \A q \in Requests \ {r} : ~Busy(q)
  BY DEF SInv, Alone
<1>3. txn'[r] = Ended(r, "done") /\ \A q \in Requests \ {r} : txn'[q] = txn[q]
  BY DEF Commit, IInv, TypeOK
<1>4. ~Busy(r)' /\ txn'[r].pc # "idle"
  BY <1>3 DEF Ended, Idle, Busy, Steps
<1>5. \A q \in Requests : ~Busy(q)'
  BY <1>2, <1>3, <1>4 DEF Busy
<1>6. \A q \in Requests : q # s => sessions'[q] = sessions[q]
  BY <1>1 DEF Commit, IInv, TypeOK
<1>7. sessions'[s].staged = sessions[s].staged \cup own
  <2>1. sessions'[s].staged = IF t.facts = {} THEN sessions[s].staged ELSE t.staged
    BY <1>1 DEF Commit, IInv, TypeOK
  <2>2. t.staged = sessions[s].staged \cup own
    BY <1>2 DEF SerialTxn
  <2> QED
    BY <2>1, <2>2
<1>8. /\ \A f \in facts : \E g \in facts' : g.id = f.id
      /\ \A g \in facts' : g \in t.facts \/ \E f \in facts : g.id = f.id
      /\ t.facts \subseteq facts'
  <2>1. \A f \in facts : \A g : Same(f, g) => g.id = f.id
    BY <1>1, SameFields
  <2>2. /\ \A f \in facts : \E g \in facts' : Same(f, g)
        /\ \A g \in facts' \ t.facts : \E f \in facts : Same(f, g)
        /\ t.facts \subseteq facts'
    BY CommitFacts
  <2> QED
    BY <2>1, <2>2
<1>9. \A i \in own : /\ \A g \in facts : g.id # i
                     /\ \A q \in Requests : i \notin sessions[q].staged
  <2>1. \A f \in t.facts, g \in facts : g.id # f.id
    <3> TAKE f \in t.facts, g \in facts
    <3>1. g.id < f.id /\ g.id \in Nat /\ f.id \in Nat
      BY <1>1, <1>2 DEF SerialTxn, Fact, Id
    <3> QED
      BY <3>1
  <2> QED
    BY <2>1 DEF SInv, StagedExact
<1> HIDE DEF own
<1>10. StagedExact'
  <2>1. ASSUME NEW g \in facts' PROVE \E q \in Requests : g.id \in sessions'[q].staged
    <3>1. CASE g \in t.facts
      BY <1>1, <1>7, <3>1 DEF own
    <3>2. CASE g \notin t.facts
      <4>1. PICK f \in facts : g.id = f.id
        BY <1>8, <3>2
      <4>2. PICK q \in Requests : f.id \in sessions[q].staged
        BY DEF SInv, StagedExact
      <4> QED
        BY <1>6, <1>7, <4>1, <4>2
    <3> QED
      BY <3>1, <3>2
  <2>2. ASSUME NEW q \in Requests, NEW i \in sessions'[q].staged
        PROVE  /\ \E g \in facts' : g.id = i
               /\ \A p \in Requests \ {q} : i \notin sessions'[p].staged
    <3>1. CASE i \in own
      <4>1. q = s
        BY <1>6, <1>9, <3>1
      <4> QED
        BY <1>6, <1>8, <1>9, <3>1, <4>1 DEF own
    <3>2. CASE i \notin own
      <4>1. i \in sessions[q].staged
        BY <1>6, <1>7, <3>2
      <4>2. /\ \E f \in facts : f.id = i
            /\ \A p \in Requests \ {q} : i \notin sessions[p].staged
        BY <4>1 DEF SInv, StagedExact
      <4> QED
        BY <1>6, <1>7, <1>8, <3>2, <4>2
    <3> QED
      BY <3>1, <3>2
  <2> QED
    BY <2>1, <2>2 DEF StagedExact
<1>11. ASSUME NEW q \in Requests PROVE SerialTxn(q)'
  <2>1. ASSUME txn'[q].pc = "idle" PROVE sessions'[q] = NoSession
    <3>1. q # r /\ txn[q].pc = "idle"
      BY <1>3, <1>4, <2>1
    <3>2. sessions[q] = NoSession
      BY <3>1 DEF SInv, SerialTxn
    <3>3. q # s
      <4>1. CASE t.origin = "debrief"
        BY <1>2, <3>1, <4>1 DEF SerialTxn
      <4>2. CASE t.origin # "debrief"
        <5>1. sessions[s].pending # NoPending
          BY <1>2, <4>2 DEF SerialTxn
        <5> QED
          BY <3>2, <5>1 DEF NoSession
      <4> QED
        BY <4>1, <4>2
    <3> QED
      BY <1>6, <3>2, <3>3
  <2> QED
    BY <1>5, <2>1 DEF SerialTxn
<1> QED
  BY <1>5, <1>10, <1>11 DEF SInv, Alone

LEMMA NextSerial ==
  ASSUME Concurrency = 1 PROVE IInv /\ SInv /\ [Next]_vars => SInv'
<1> SUFFICES ASSUME IInv, SInv, [Next]_vars PROVE SInv'
  OBVIOUS
<1>1. CASE UNCHANGED vars
  <2>1. txn' = txn /\ facts' = facts /\ sessions' = sessions
    BY <1>1 DEF vars, tables
  <2>2. Alone' /\ StagedExact'
    BY <2>1 DEF SInv, Alone, Busy, StagedExact
  <2>3. \A r \in Requests : SerialTxn(r)'
    BY <2>1 DEF SInv, SerialTxn, Busy
  <2> QED
    BY <2>2, <2>3 DEF SInv
<1>2. ASSUME NEW r \in Requests, NEW words \in Utterances, StartDebrief(r, words)
      PROVE  SInv'
  BY <1>2, StartSerial
<1>3. ASSUME NEW r \in Requests, NEW s \in Requests, ReadChallenge(r, s)
      PROVE  SInv'
  BY <1>3, ReadChallengeSerial
<1>4. ASSUME NEW r \in Requests, NEW s \in Requests, ReadAmbiguity(r, s)
      PROVE  SInv'
  BY <1>4, ReadAmbiguitySerial
<1>5. ASSUME NEW r \in Requests, Complete(r) \/ AskWho(r) \/ RaiseChallenge(r) \/ Settle(r)
      PROVE  SInv'
  <2>1. PICK status, pending : Commit(r, status, pending)
    BY <1>5 DEF Complete, AskWho, RaiseChallenge, Settle
  <2>2. Busy(r)
    BY <1>5 DEF Complete, AskWho, AtMutation, RaiseChallenge, Settle, Busy, Steps
  <2> QED
    BY <2>1, <2>2, CommitSerial
<1>6. ASSUME NEW r \in Requests, Step(r)
      PROVE  SInv'
  BY <1>5, <1>6, FindSerial, CreateSerial, LockSerial, WriteSerial DEF Step
<1>7. ASSUME NEW r \in Requests, Fail(r) \/ DeadlockVictim(r)
      PROVE  SInv'
  BY <1>7, FailSerial DEF DeadlockVictim
<1> QED
  BY <1>1, <1>2, <1>3, <1>4, <1>6, <1>7 DEF Next

\* While one request runs at a time, a session's staged_mutations and the facts
\* never get out of step: every committed fact is on the list of exactly one
\* session, whichever requests failed, stopped at a challenge or answered one
\* (staged_mutations in ingestion.py).
THEOREM StagedExactHolds ==
  ASSUME Concurrency = 1 PROVE Spec => []StagedExact
<1>1. Init => IInv /\ SInv
  BY InitInv, InitSerial
<1>2. IInv /\ SInv /\ [Next]_vars => IInv' /\ SInv'
  BY NextInv, NextSerial
<1>3. SInv => StagedExact
  BY DEF SInv
<1> QED
  BY <1>1, <1>2, <1>3, PTL DEF Spec

-----------------------------------------------------------------------------
(***************************************************************************)
(* Why what the agent verified stands.  A commit that adds mentions holds  *)
(* the person it is about, so each of its facts was compared with the one  *)
(* before it (CompareInv), and agreeing carries over from one to the next  *)
(* where none is null.  A commit that takes the active fact away is an     *)
(* answer to it, and with that the last answer is another one.             *)
(***************************************************************************)

\* The active facts of a subject and entity.
ActiveOf(table, p, e) ==
    {f \in table : f.subject = p /\ f.entity = e /\ f.supersededBy = None}

-----------------------------------------------------------------------------
\* A bounded, nonempty set of numbers has a largest element.
LEMMA Largest ==
  ASSUME NEW S \in SUBSET Nat, NEW N \in Nat, \A k \in S : k <= N, S # {}
  PROVE  \E m \in S : \A k \in S : k <= m
<1> DEFINE Above(m) == {k \in S : m <= k}
           T == {Above(m) : m \in S}
           R == StrictSubsetOrdering(S)
<1>1. IsFiniteSet(S)
  <2>1. S \subseteq 0 .. N
    OBVIOUS
  <2>2. IsFiniteSet(0 .. N)
    BY FS_Interval
  <2> QED
    BY <2>1, <2>2, FS_Subset
<1>2. T \subseteq FiniteSubsetsOf(S)
  <2>1. \A m \in S : Above(m) \subseteq S /\ IsFiniteSet(Above(m))
    BY <1>1, FS_Subset
  <2> QED
    BY <2>1 DEF FiniteSubsetsOf
<1>3. T # {}
  OBVIOUS
<1>4. IsWellFoundedOn(R, FiniteSubsetsOf(S))
  BY FS_StrictSubsetOrderingWellFounded
<1>5. PICK x \in T : \A y \in T : ~(<<y, x>> \in R)
  <2> HIDE DEF T, R
  <2> QED
    BY <1>2, <1>3, <1>4, WFMin
<1>6. PICK m \in S : x = Above(m)
  BY <1>5
<1>7. ASSUME NEW k \in S, m < k PROVE FALSE
  <2>1. Above(k) \subseteq x /\ m \in x /\ m \notin Above(k)
    <3>1. m \in Nat /\ k \in Nat /\ S \subseteq Nat
      BY <1>6
    <3>2. m \in Above(m) /\ m \notin Above(k)
      BY <1>7, <3>1
    <3>3. \A j \in Nat : k <= j => m <= j
      BY <1>7, <3>1
    <3> QED
      BY <1>6, <3>1, <3>2, <3>3
  <2>2. Above(k) \in T /\ Above(k) \in SUBSET S /\ x \in SUBSET S
    BY <1>6
  <2>3. <<Above(k), x>> \in R
    BY <2>1, <2>2 DEF StrictSubsetOrdering
  <2> QED
    BY <1>5, <2>2, <2>3
<1> QED
  BY <1>6, <1>7

\* Where there is an active fact, get_active finds one.
LEMMA ActiveIsFound ==
  ASSUME NEW table \in SUBSET Fact, NEW N \in Nat, \A f \in table : f.id < N,
         NEW p, NEW e, ActiveOf(table, p, e) # {}
  PROVE  /\ \E a \in table : a \in GetActive(table, p, e)
         /\ \A a \in GetActive(table, p, e) :
               /\ a \in ActiveOf(table, p, e)
               /\ \A f \in ActiveOf(table, p, e) : f.id <= a.id
<1> DEFINE A == ActiveOf(table, p, e)
           S == {f.id : f \in A}
<1>1. GetActive(table, p, e) = {a \in A : \A f \in A : f.id <= a.id}
  BY DEF GetActive, Newest, ActiveOf
<1>2. A \subseteq table /\ \A f \in A : f.id \in Nat /\ f.id <= N
  BY DEF ActiveOf, Fact, Id
<1> HIDE DEF A
<1>3. S \in SUBSET Nat /\ S # {} /\ \A k \in S : k <= N
  BY <1>2 DEF A
<1>4. PICK m \in S : \A k \in S : k <= m
  <2> HIDE DEF S
  <2> QED
    BY <1>3, Largest
<1>5. PICK a \in A : a.id = m
  BY <1>4
<1>6. \A f \in A : f.id <= a.id
  BY <1>4, <1>5
<1> QED
  BY <1>1, <1>2, <1>5, <1>6 DEF A

\* A nonempty set of numbers below N has a smallest element.
LEMMA Smallest ==
  ASSUME NEW S \in SUBSET Nat, NEW N \in Nat, \A k \in S : k <= N, S # {}
  PROVE  \E m \in S : \A k \in S : m <= k
<1> DEFINE T == {N - k : k \in S}
<1>1. T \in SUBSET Nat /\ T # {} /\ \A k \in T : k <= N
  <2>1. \A k \in S : N - k \in Nat /\ N - k <= N
    OBVIOUS
  <2> QED
    BY <2>1
<1>2. PICK m \in T : \A k \in T : k <= m
  <2> HIDE DEF T
  <2> QED
    BY <1>1, Largest
<1>3. PICK k \in S : m = N - k
  BY <1>2
<1>4. \A j \in S : N - j <= N - k
  BY <1>2, <1>3
<1> QED
  BY <1>3, <1>4

\* An answer that is committed takes the place of the last one.
LEMMA AnswerIsLast ==
  ASSUME IInv, LInv, NEW r \in Requests, NEW status, NEW pending, Commit(r, status, pending),
         NEW f \in facts, f \in LastAnswer(facts', f.subject, f.entity),
         NEW h \in txn[r].facts, h.kind = "resolution",
         h.subject = f.subject, h.entity = f.entity
  PROVE  h.id < f.id
<1>1. h.supersededBy = None /\ h \in facts'
  BY CommitFacts DEF IInv, TxnInv, TxnShape
<1>2. h.id <= f.id
  BY <1>1 DEF LastAnswer, Newest
<1>3. h.id # f.id
  BY DEF LInv, OwnInv, FactInv
<1>4. h.id \in Nat /\ f.id \in Nat
  BY DEF IInv, TypeOK, Txn, Fact, Id
<1> QED
  BY <1>2, <1>3, <1>4

\* No mention of a commit leads away from what was agreed before it, unless it
\* is not compared.
LEMMA MentionsAgree ==
  ASSUME IInv, LInv, NEW r \in Requests, txn[r].origin # "challenge",
         NEW f \in facts, f.supersededBy = None, Agreed(facts, f),
         NEW g \in GetActive(facts, f.subject, f.entity),
         \A k \in txn[r].facts : k.subject = f.subject /\ k.entity = f.entity =>
             /\ k.value.shape # "null"
             /\ k.kind # "plain" => ~Contradicts(f.value, k.value)
  PROVE  \A h \in txn[r].facts :
             h.subject = f.subject /\ h.entity = f.entity /\ g.id < h.id =>
                 ~Contradicts(f.value, h.value)
<1> DEFINE own == txn[r].facts
           Bad == {h \in own : /\ h.subject = f.subject /\ h.entity = f.entity
                               /\ g.id < h.id /\ Contradicts(f.value, h.value)}
<1>1. /\ facts \subseteq Fact /\ own \subseteq Fact /\ nextFact \in Nat
      /\ \A h \in facts \cup own : h.id < nextFact
  BY DEF IInv, TypeOK, Txn, Id, Keys
<1>2. \A h \in facts \cup own : h.id \in Nat
  BY <1>1 DEF Fact, Id
<1>3. \A h \in own : h.supersededBy = None
  BY DEF IInv, TxnInv, TxnShape
<1>4. SUFFICES ASSUME Bad # {} PROVE FALSE
  OBVIOUS
<1>5. PICK b \in Bad : \A h \in Bad : b.id <= h.id
  <2> DEFINE S == {h.id : h \in Bad}
  <2>1. S \in SUBSET Nat /\ S # {} /\ \A k \in S : k <= nextFact
    BY <1>1, <1>2, <1>4
  <2>2. PICK m \in S : \A k \in S : m <= k
    <3> HIDE DEF S
    <3> QED
      BY <1>1, <2>1, Smallest
  <2> QED
    BY <2>2
<1>6. /\ b \in own /\ b.kind = "plain"
      /\ b.subject = f.subject /\ b.entity = f.entity /\ g.id < b.id
  BY <1>5
<1> DEFINE before == facts \cup {h \in own : h.id < b.id}
<1>7. /\ g \in ActiveOf(facts, f.subject, f.entity)
      /\ \A k \in ActiveOf(facts, f.subject, f.entity) : k.id <= g.id
  BY DEF GetActive, Newest, ActiveOf
<1>8. /\ before \in SUBSET Fact /\ \A h \in before : h.id < nextFact
      /\ g \in ActiveOf(before, f.subject, f.entity)
  BY <1>1, <1>7 DEF ActiveOf
<1> HIDE DEF before
<1>9. PICK a \in GetActive(before, f.subject, f.entity) :
         /\ a \in ActiveOf(before, f.subject, f.entity)
         /\ \A k \in ActiveOf(before, f.subject, f.entity) : k.id <= a.id
  BY <1>1, <1>8, ActiveIsFound
<1>10. ~Contradicts(a.value, b.value)
  BY <1>6, <1>9 DEF before, LInv, OwnInv, CompareInv
<1>11. a.value.shape # "null" /\ ~Contradicts(f.value, a.value)
  <2>1. CASE a \in facts
    <3>1. a \in GetActive(facts, f.subject, f.entity)
      BY <1>9, <2>1 DEF ActiveOf, GetActive, Newest, before
    <3> QED
      BY <3>1 DEF Agreed
  <2>2. CASE a \in own /\ a.id < b.id
    <3>1. a.subject = f.subject /\ a.entity = f.entity /\ a.value.shape # "null"
      BY <1>9, <2>2 DEF ActiveOf
    <3>2. g.id <= a.id
      BY <1>8, <1>9
    <3>3. g \in facts
      BY <1>7 DEF ActiveOf
    <3>4. g.id # a.id
      BY <2>2, <3>3 DEF LInv, OwnInv, FactInv
    <3>5. g.id < a.id
      BY <1>2, <2>2, <3>2, <3>3, <3>4
    <3>6. ~(b.id <= a.id)
      BY <1>2, <1>6, <2>2
    <3> QED
      BY <1>5, <2>2, <3>1, <3>5, <3>6
  <2> QED
    BY <1>9, <2>1, <2>2 DEF ActiveOf, before
<1>12. Contradicts(f.value, b.value)
  BY <1>5
<1> QED
  BY <1>10, <1>11, <1>12 DEF Contradicts

\* A commit keeps what get_active and the last answer agree on.
LEMMA CommitStands ==
  ASSUME IInv, LInv, NEW r \in Requests, NEW status, NEW pending, Commit(r, status, pending),
         NEW f \in facts \cap facts',
         f \in LastAnswer(facts, f.subject, f.entity),
         f \in LastAnswer(facts', f.subject, f.entity),
         Agreed(facts, f), ~Uncompared(facts' \ facts, f)
  PROVE  Agreed(facts', f)
<1> DEFINE own == txn[r].facts
           old == txn[r].old
<1>1. PICK new \in Id : \A k \in facts' \ own : \E h \in facts :
         /\ Same(h, k)
         /\ k.supersededBy = (IF h.id = old THEN new ELSE h.supersededBy)
  BY CommitFacts
<1>2. own \subseteq facts' /\ \A k \in facts : k.id # old => k \in facts'
  BY CommitFacts
<1>3. /\ facts \subseteq Fact /\ own \subseteq Fact /\ nextFact \in Nat
      /\ \A k \in facts : k.id < nextFact
      /\ \A k \in facts \cup own : k.id \in Nat
  BY DEF IInv, TypeOK, Txn, Id, Keys, Fact
<1>4. f.supersededBy = None /\ f.kind = "resolution"
  BY DEF LastAnswer, Newest
<1>5. \A k \in own : k.supersededBy = None /\ \A h \in facts : h.id # k.id
  BY DEF IInv, TxnInv, TxnShape, LInv, OwnInv, FactInv
<1>6. f \in ActiveOf(facts, f.subject, f.entity)
  BY <1>4 DEF ActiveOf
<1>7. PICK g \in GetActive(facts, f.subject, f.entity) :
         /\ g \in ActiveOf(facts, f.subject, f.entity)
         /\ \A k \in ActiveOf(facts, f.subject, f.entity) : k.id <= g.id
  BY <1>3, <1>6, ActiveIsFound
<1>8. g \in facts /\ g.subject = f.subject /\ g.entity = f.entity /\ f.id <= g.id
  BY <1>6, <1>7 DEF ActiveOf
\* The active fact is not superseded: its answer would be the last one.
<1>9. g.id # old
  <2> SUFFICES ASSUME g.id = old PROVE FALSE
    OBVIOUS
  <2>1. txn[r].origin = "challenge"
    BY <1>3, <1>8 DEF IInv, TxnInv, TxnShape, Fact, Id
  <2>2. PICK h \in own : h.kind = "resolution" /\ old < h.id
    BY <2>1 DEF IInv, TxnInv, TxnShape
  <2>3. h.subject = f.subject /\ h.entity = f.entity
    BY <1>8, <2>1, <2>2 DEF LInv, OwnInv, RefInv
  <2>4. h.id < f.id
    BY <2>2, <2>3, AnswerIsLast
  <2> QED
    BY <1>3, <1>8, <2>2, <2>4
<1>10. g \in ActiveOf(facts', f.subject, f.entity)
  BY <1>2, <1>7, <1>8, <1>9 DEF ActiveOf
<1> SUFFICES ASSUME NEW h \in GetActive(facts', f.subject, f.entity)
             PROVE  h.value.shape # "null" /\ ~Contradicts(f.value, h.value)
  BY DEF Agreed
<1>11. /\ h \in facts' /\ h.subject = f.subject /\ h.entity = f.entity /\ h.supersededBy = None
       /\ g.id <= h.id
  BY <1>10 DEF GetActive, Newest, ActiveOf
<1>12. CASE h \notin own
  <2>1. PICK k \in facts : /\ Same(k, h)
                           /\ h.supersededBy = (IF k.id = old THEN new ELSE k.supersededBy)
    BY <1>1, <1>11, <1>12
  <2>2. k.id # old /\ k \in Fact
    BY <1>3, <1>11, <2>1 DEF Id
  <2>3. h = k
    BY <2>1, <2>2 DEF Same, Fact
  <2>4. h \in ActiveOf(facts, f.subject, f.entity)
    BY <1>11, <2>1, <2>3 DEF ActiveOf
  <2>5. \A j \in ActiveOf(facts, f.subject, f.entity) : j.id <= h.id
    BY <1>3, <1>7, <1>8, <1>11, <2>4 DEF ActiveOf
  <2>6. h \in GetActive(facts, f.subject, f.entity)
    BY <2>4, <2>5 DEF GetActive, Newest, ActiveOf
  <2> QED
    BY <2>6 DEF Agreed
<1>13. CASE h \in own
  <2>1. h.kind # "resolution"
    <3> SUFFICES ASSUME h.kind = "resolution" PROVE FALSE
      OBVIOUS
    <3>1. h.id < f.id
      BY <1>11, <1>13, AnswerIsLast
    <3> QED
      BY <1>3, <1>8, <1>11, <1>13, <3>1
  <2>2. txn[r].origin # "challenge"
    BY <1>13, <2>1 DEF IInv, TxnInv, TxnShape
  <2>3. ASSUME NEW k \in own, k.subject = f.subject, k.entity = f.entity
        PROVE  /\ k.value.shape # "null"
               /\ k.kind # "plain" => ~Contradicts(f.value, k.value)
    <3>1. k \in facts' \ facts /\ k.supersededBy = None
      BY <1>2, <1>5
    <3>2. k.kind \in {"plain", "trait", "constraint"}
      BY <1>3, <2>2 DEF IInv, TxnInv, TxnShape, Fact, FactKinds
    <3> QED
      BY <2>3, <3>1, <3>2 DEF Uncompared
  <2>4. g.id < h.id
    BY <1>3, <1>5, <1>8, <1>11, <1>13
  <2>5. ~Contradicts(f.value, h.value)
    BY <1>4, <1>11, <1>13, <2>2, <2>3, <2>4, MentionsAgree
  <2> QED
    BY <1>11, <1>13, <2>3, <2>5
<1> QED
  BY <1>12, <1>13

\* Once get_active agrees with what the agent verified last it goes on to until
\* the next answer, a null or an uncompared trait or constraint, for any number
\* of people, mentions and answers and however they interleave, as long as no
\* client redirects an answer to another person (touch_node before
\* detect_contradiction in _process_mutations, and before the commit in
\* resolve_challenge).
THEOREM VerifiedStandsHolds ==
  ASSUME Redirects = {} PROVE Spec => VerifiedStands
<1> DEFINE Stands ==
      \A f \in facts \cap facts' :
          /\ f \in LastAnswer(facts, f.subject, f.entity)
          /\ f \in LastAnswer(facts', f.subject, f.entity)
          /\ Agreed(facts, f)
          => Agreed(facts', f) \/ Uncompared(facts' \ facts, f)
<1>1. Init => IInv /\ LInv
  BY InitInv, InitIsolated
<1>2. IInv /\ LInv /\ [Next]_vars => IInv' /\ LInv'
  BY NextInv, NextIsolated
<1>3. IInv /\ LInv /\ [Next]_vars => [Stands]_facts
  <2> SUFFICES ASSUME IInv, LInv, [Next]_vars, facts' # facts PROVE Stands
    OBVIOUS
  <2>1. PICK r \in Requests : \E status, pending : Commit(r, status, pending)
    BY OnlyCommitsShow
  <2>2. PICK status, pending : Commit(r, status, pending)
    BY <2>1
  <2> QED
    BY <2>2, CommitStands
<1> QED
  BY <1>1, <1>2, <1>3, PTL DEF Spec, VerifiedStands
=============================================================================
