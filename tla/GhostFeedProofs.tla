--------------------------- MODULE GhostFeedProofs ---------------------------
(***************************************************************************)
(* What holds of GhostFeed for any number of workers, people, events and   *)
(* moments, and any limit of a batch.                                      *)
(*                                                                         *)
(* FeedExact speaks of the tables, and what a commit brings there a worker *)
(* has collected before: OwnInv says what each place in the code knows of  *)
(* its batch, its marks and its items.  No claim is made on an event, so   *)
(* that several workers may hold the same one; each that does will add one *)
(* item at most, and then never sees the event again (Claims).             *)
(***************************************************************************)
EXTENDS GhostFeed, FiniteSetTheorems, TLAPS

\* Ids are given in order, and not twice.
Published(n) == \E e \in events : e.id = n
Ids ==
    /\ IsFiniteSet(events) /\ IsFiniteSet(items)
    /\ \A e \in events : e.id <= Cardinality(events)
    /\ \A e, f \in events : e.id = f.id => e = f
    /\ \A n \in processed : Published(n)

\* What worker w knows of what it has polled, handled and marked.
Busy == {"next", "synthesize", "mark", "wait"}
OwnInv(w) ==
    /\ IsFiniteSet(worker[w].made)
    /\ worker[w].batch \subseteq events
    /\ worker[w].current \subseteq worker[w].batch
    /\ \A e, f \in worker[w].current : e = f
    /\ worker[w].pc \notin Busy =>
          worker[w].batch = {} /\ worker[w].made = {} /\ worker[w].marked = {}
    /\ worker[w].pc = "next" => worker[w].current = {}
    /\ worker[w].pc = "synthesize" => \A e \in worker[w].current : e.kind = "mutation"
    /\ worker[w].pc \in {"mark", "wait"} =>
          \A e \in worker[w].current : e.kind = "mutation" =>
              \E i \in worker[w].made : i.event = e.id
    /\ \A n \in worker[w].marked : Published(n)
    /\ \A e \in events : e.kind = "mutation" /\ e.id \in worker[w].marked =>
          \E i \in worker[w].made : i.event = e.id
    /\ \A e \in worker[w].batch : e.id \notin worker[w].marked
    /\ \A i \in worker[w].made :
          /\ \E e \in events : e.id = i.event /\ e.kind = "mutation"
          /\ i.event \in worker[w].marked
                \/ (worker[w].pc \in {"mark", "wait"} /\ i.event \in Wanted(w))
    /\ \A i, j \in worker[w].made : i.event = j.event => i = j

\* It has read every boundary that was set before the event it handles.
SeenInv(w) ==
    worker[w].pc = "synthesize" =>
        \A e \in worker[w].current, c \in constraints :
            c.subject = e.subject /\ c.id < e.id => c \in worker[w].seen

\* The items of event n, and the workers that may yet add one.
ItemsOf(n) == {i \in items : i.event = n}
Claims(n) == {w \in Workers : n \in worker[w].marked \/ \E e \in worker[w].batch : e.id = n}
ClaimInv ==
    \A n \in EventId :
        Cardinality(ItemsOf(n)) + Cardinality(Claims(n)) <= Cardinality(Workers)

IInv ==
    /\ TypeOK /\ Ids /\ FeedExact
    /\ \A w \in Workers : OwnInv(w) /\ SeenInv(w)
    /\ ClaimInv

-----------------------------------------------------------------------------
\* A worker that does nothing knows nothing.
LEMMA Sleeps ==
    /\ Asleep \in Worker /\ Asleep.pc = "idle" /\ Asleep.batch = {} /\ Asleep.current = {}
    /\ Asleep.seen = {} /\ Asleep.made = {} /\ Asleep.marked = {} /\ Asleep.due = {}
  BY DEF Asleep, Worker, PCs

LEMMA Begins == Init => IInv
  <1>. SUFFICES ASSUME Init PROVE IInv OBVIOUS
  <1>. USE DEF Init
  <1>1. TypeOK
    BY Sleeps, FeedAssumption DEF TypeOK, Time
  <1>2. Ids
    BY FS_EmptySet DEF Ids, Published
  <1>3. FeedExact
    BY DEF FeedExact
  <1>4. ASSUME NEW w \in Workers PROVE OwnInv(w) /\ SeenInv(w)
    <2>1. worker[w] = Asleep OBVIOUS
    <2>. QED BY <2>1, Sleeps, FS_EmptySet DEF OwnInv, SeenInv
  <1>5. ClaimInv
    <2>. SUFFICES ASSUME NEW n \in EventId
                  PROVE  Cardinality(ItemsOf(n)) + Cardinality(Claims(n)) <= Cardinality(Workers)
      BY DEF ClaimInv
    <2>1. ItemsOf(n) = {} /\ Claims(n) = {}
      BY Sleeps DEF ItemsOf, Claims
    <2>2. Cardinality(Workers) \in Nat
      BY FeedAssumption, FS_CardinalityType
    <2>. QED BY <2>1, <2>2, FS_EmptySet
  <1>. QED BY <1>1, <1>2, <1>3, <1>4, <1>5 DEF IInv

\* Both sides of the sum that ClaimInv bounds are numbers.
LEMMA Countable ==
  ASSUME IInv, NEW n
  PROVE  /\ IsFiniteSet(ItemsOf(n)) /\ Cardinality(ItemsOf(n)) \in Nat
         /\ IsFiniteSet(Claims(n)) /\ Cardinality(Claims(n)) \in Nat
         /\ Cardinality(Workers) \in Nat
  <1>1. IsFiniteSet(items) /\ IsFiniteSet(Workers)
    BY FeedAssumption DEF IInv, Ids
  <1>2. ItemsOf(n) \in SUBSET items /\ Claims(n) \in SUBSET Workers
    BY DEF ItemsOf, Claims
  <1>3. IsFiniteSet(ItemsOf(n)) /\ IsFiniteSet(Claims(n))
    BY <1>1, <1>2, FS_Subset
  <1>. QED BY <1>1, <1>3, FS_CardinalityType

\* A smaller set counts less.
LEMMA Fewer ==
  ASSUME NEW S, IsFiniteSet(S), NEW T \in SUBSET S
  PROVE  IsFiniteSet(T) /\ Cardinality(T) \in Nat /\ Cardinality(S) \in Nat
         /\ Cardinality(T) <= Cardinality(S)
  BY FS_Subset, FS_CardinalityType

-----------------------------------------------------------------------------
\* Steps of one worker that touch no table.

\* The bound on items and claims stands when a worker claims only what it had
\* claimed before, or what nobody has made an item of.
LEMMA ClaimsKept ==
  ASSUME IInv, NEW w \in Workers, UNCHANGED items,
         \A q \in Workers \ {w} : worker'[q] = worker[q],
         \A n \in EventId : w \in Claims(n)' => w \in Claims(n) \/ ItemsOf(n) = {}
  PROVE  ClaimInv'
  <1>. SUFFICES ASSUME NEW n \in EventId
                PROVE  Cardinality(ItemsOf(n)') + Cardinality(Claims(n)') <= Cardinality(Workers)
    BY DEF ClaimInv
  <1>1. ItemsOf(n)' = ItemsOf(n) BY DEF ItemsOf
  <1>2. Claims(n)' \subseteq Workers /\ Claims(n)' \subseteq Claims(n) \cup {w}
    BY DEF Claims
  <1>3. CASE ItemsOf(n) = {}
    <2>1. Cardinality(Claims(n)') \in Nat /\ Cardinality(Claims(n)') <= Cardinality(Workers)
      BY <1>2, Fewer, FeedAssumption
    <2>. QED BY <1>1, <1>3, <2>1, FS_EmptySet
  <1>4. CASE ItemsOf(n) # {}
    <2>1. Claims(n)' \in SUBSET Claims(n) BY <1>2, <1>4
    <2>2. /\ Cardinality(Claims(n)') <= Cardinality(Claims(n))
          /\ Cardinality(Claims(n)') \in Nat
      BY <2>1, Countable, Fewer
    <2>3. Cardinality(ItemsOf(n)) + Cardinality(Claims(n)) <= Cardinality(Workers)
      BY DEF IInv, ClaimInv
    <2>. QED BY <1>1, <2>2, <2>3, Countable
  <1>. QED BY <1>3, <1>4

LEMMA LocalStep ==
  ASSUME IInv, NEW w \in Workers, UNCHANGED <<now, tables>>,
         worker' \in [Workers -> Worker],
         \A q \in Workers \ {w} : worker'[q] = worker[q],
         OwnInv(w)', SeenInv(w)',
         \A n \in EventId : w \in Claims(n)' => w \in Claims(n) \/ ItemsOf(n) = {}
  PROVE  IInv'
  <1>. USE DEF tables
  <1>1. TypeOK' /\ Ids' /\ FeedExact'
    BY DEF IInv, TypeOK, Ids, Published, FeedExact
  <1>2. ASSUME NEW q \in Workers PROVE OwnInv(q)' /\ SeenInv(q)'
    <2>1. CASE q = w BY <2>1
    <2>2. CASE q # w
      <3>1. worker'[q] = worker[q] BY <2>2
      <3>2. OwnInv(q) /\ SeenInv(q) BY DEF IInv
      <3>. QED BY <3>1, <3>2 DEF OwnInv, SeenInv, Published, Wanted
    <2>. QED BY <2>1, <2>2
  <1>3. ClaimInv' BY ClaimsKept
  <1>. QED BY <1>1, <1>2, <1>3 DEF IInv

\* A worker that goes back to where it has nothing in hand.
LEMMA Idles ==
  ASSUME NEW w \in Workers, worker'[w].pc \notin Busy,
         worker'[w].batch = {}, worker'[w].current = {},
         worker'[w].made = {}, worker'[w].marked = {}
  PROVE  OwnInv(w)' /\ SeenInv(w)' /\ (\A n : w \notin Claims(n)')
  <1>2. worker'[w].pc # "next" /\ worker'[w].pc # "synthesize" /\ worker'[w].pc \notin {"mark", "wait"}
    BY DEF Busy
  <1>3. OwnInv(w)' BY <1>2, FS_EmptySet DEF OwnInv
  <1>4. SeenInv(w)' BY <1>2 DEF SeenInv
  <1>. QED BY <1>3, <1>4 DEF Claims

LEMMA AbortKeeps == ASSUME IInv, NEW w \in Workers, Abort(w) PROVE IInv'
  <1>1. /\ worker'[w] = Asleep /\ \A q \in Workers \ {w} : worker'[q] = worker[q]
        /\ worker' \in [Workers -> Worker]
    BY Sleeps DEF Abort, IInv, TypeOK
  <1>2. OwnInv(w)' /\ SeenInv(w)' /\ \A n : w \notin Claims(n)'
    BY <1>1, Sleeps, Idles DEF Busy
  <1>. QED BY <1>1, <1>2, LocalStep DEF Abort

LEMMA ReadDueKeeps == ASSUME IInv, NEW w \in Workers, ReadDue(w) PROVE IInv'
  <1>1. PICK due \in SUBSET items :
          worker' = [worker EXCEPT ![w] = [Asleep EXCEPT
                        !.pc = IF due = {} THEN "idle" ELSE "release", !.due = due]]
    BY DEF ReadDue
  <1>2. PICK k : k = [Asleep EXCEPT !.pc = IF due = {} THEN "idle" ELSE "release",
                                    !.due = due] OBVIOUS
  <1>3. /\ k \in Worker /\ k.pc \in {"idle", "release"} /\ k.batch = {} /\ k.current = {}
        /\ k.made = {} /\ k.marked = {}
    BY <1>2 DEF Asleep, Worker, PCs, IInv, TypeOK
  <1>4. /\ worker'[w] = k
        /\ \A q \in Workers \ {w} : worker'[q] = worker[q]
        /\ worker' \in [Workers -> Worker]
    BY <1>1, <1>2, <1>3 DEF IInv, TypeOK
  <1>5. OwnInv(w)' /\ SeenInv(w)' /\ \A n : w \notin Claims(n)'
    BY <1>3, <1>4, Idles DEF Busy
  <1>. QED BY <1>4, <1>5, LocalStep DEF ReadDue

LEMMA PollKeeps == ASSUME IInv, NEW w \in Workers, Poll(w) PROVE IInv'
  <1>1. PICK batch \in SUBSET Unprocessed :
          worker' = [worker EXCEPT ![w] = [Asleep EXCEPT !.pc = "next", !.batch = batch]]
    BY DEF Poll
  <1>2. batch \subseteq events /\ \A e \in batch : e.id \notin processed
    BY DEF Unprocessed
  <1>3. PICK k : k = [Asleep EXCEPT !.pc = "next", !.batch = batch] OBVIOUS
  <1>4. /\ k \in Worker /\ k.pc = "next" /\ k.batch = batch /\ k.current = {}
        /\ k.made = {} /\ k.marked = {}
    BY <1>2, <1>3 DEF Asleep, Worker, PCs, IInv, TypeOK
  <1>5. /\ worker'[w] = k
        /\ \A q \in Workers \ {w} : worker'[q] = worker[q]
        /\ worker' \in [Workers -> Worker]
    BY <1>1, <1>3, <1>4 DEF IInv, TypeOK
  <1>6. events' = events BY DEF Poll, tables
  <1>7. OwnInv(w)' BY <1>2, <1>4, <1>5, <1>6, FS_EmptySet DEF OwnInv, Busy
  <1>8. SeenInv(w)' BY <1>4, <1>5 DEF SeenInv
  <1>9. ASSUME NEW n \in EventId, w \in Claims(n)' PROVE ItemsOf(n) = {}
    <2>1. n \notin processed BY <1>2, <1>4, <1>5, <1>9 DEF Claims
    <2>. QED BY <2>1 DEF IInv, FeedExact, ItemsOf
  <1>. QED BY <1>5, <1>7, <1>8, <1>9, LocalStep DEF Poll
\* The steps in the middle of a batch: they make an item of what the worker has
\* in hand, and claim nothing new.
LEMMA HandleKeeps == ASSUME IInv, NEW w \in Workers, Handle(w) PROVE IInv'
  <1>1. PICK e \in worker[w].batch :
          worker' = [worker EXCEPT
                ![w].pc = IF e.kind = "constraint_added" THEN "mark" ELSE "synthesize",
                ![w].current = {e},
                ![w].seen = IF e.kind = "constraint_added" THEN {}
                            ELSE {c \in constraints : c.subject = e.subject}]
    BY DEF Handle
  <1>2. worker[w].pc = "next" /\ UNCHANGED <<now, tables>> BY DEF Handle
  <1>3. OwnInv(w) /\ worker[w] \in Worker BY DEF IInv, TypeOK
  <1>4. e \in events /\ e \in Event /\ e.kind \in {"mutation", "constraint_added"}
    BY <1>3 DEF OwnInv, IInv, TypeOK, Event
  <1>5. PICK seen \in SUBSET constraints :
          /\ seen = IF e.kind = "constraint_added" THEN {}
                    ELSE {c \in constraints : c.subject = e.subject}
          /\ e.kind # "constraint_added" => seen = {c \in constraints : c.subject = e.subject}
    OBVIOUS
  <1>6. PICK pc \in {"mark", "synthesize"} :
          /\ pc = IF e.kind = "constraint_added" THEN "mark" ELSE "synthesize"
          /\ pc = "mark" <=> e.kind = "constraint_added"
    OBVIOUS
  <1>7. PICK k : k = [worker[w] EXCEPT !.pc = pc, !.current = {e}, !.seen = seen] OBVIOUS
  <1>8. /\ k \in Worker /\ k.pc = pc /\ k.current = {e} /\ k.seen = seen
        /\ k.batch = worker[w].batch /\ k.made = worker[w].made
        /\ k.marked = worker[w].marked
    BY <1>3, <1>4, <1>7 DEF Worker, PCs, IInv, TypeOK
  <1>9. /\ worker'[w] = k
        /\ \A q \in Workers \ {w} : worker'[q] = worker[q]
        /\ worker' \in [Workers -> Worker]
    BY <1>1, <1>5, <1>6, <1>7, <1>8 DEF IInv, TypeOK
  <1>10. OwnInv(w)'
    <2>. USE <1>2 DEF tables
    <2>1. /\ worker'[w].batch = worker[w].batch /\ worker'[w].made = worker[w].made
          /\ worker'[w].marked = worker[w].marked /\ worker'[w].current = {e}
          /\ worker'[w].pc = pc
      BY <1>8, <1>9
    <2>2. pc \in Busy /\ pc # "next" BY <1>6 DEF Busy
    <2>3. pc = "synthesize" => e.kind = "mutation" BY <1>4, <1>6
    <2>4. pc \in {"mark", "wait"} => e.kind # "mutation" BY <1>6
    <2>. QED BY <1>3, <2>1, <2>2, <2>3, <2>4 DEF OwnInv, Published
  <1>11. SeenInv(w)'
    BY <1>2, <1>5, <1>6, <1>8, <1>9 DEF SeenInv, tables
  <1>12. \A n \in EventId : w \in Claims(n)' => w \in Claims(n)
    BY <1>8, <1>9 DEF Claims
  <1>. QED BY <1>2, <1>9, <1>10, <1>11, <1>12, LocalStep

\* What the worker makes of an event.
LEMMA ItemMade ==
  ASSUME IInv, NEW w \in Workers, NEW e \in events, NEW item \in Decided(w, e),
         worker[w].seen \subseteq Constraint
  PROVE  item \in Item /\ item.event = e.id /\ item.subject = e.subject
  <1>1. e \in Event BY DEF IInv, TypeOK
  <1>2. \A c \in Blockers(worker[w].seen) : Until(c) \in 0..Open
    BY FeedAssumption DEF Blockers, Until, Constraint, None, Open
  <1>3. PICK status \in {"held", "active"}, until \in 0..Open : item = NewItem(e, status, until)
    BY <1>2, FeedAssumption DEF Decided, None, Open
  <1>. QED BY <1>1, <1>3 DEF NewItem, Item, Event, Statuses

LEMMA SynthesizeKeeps == ASSUME IInv, NEW w \in Workers, Synthesize(w) PROVE IInv'
  <1>1. PICK e \in worker[w].current : \E item \in Decided(w, e) :
          worker' = [worker EXCEPT ![w].pc = "mark", ![w].seen = {}, ![w].made = @ \cup {item}]
    BY DEF Synthesize
  <1>2. worker[w].pc = "synthesize" /\ UNCHANGED <<now, tables>> BY DEF Synthesize
  <1>3. OwnInv(w) /\ worker[w] \in Worker BY DEF IInv, TypeOK
  <1>4. /\ e \in events /\ e \in worker[w].batch /\ e.kind = "mutation"
        /\ worker[w].current = {e} /\ worker[w].seen \subseteq Constraint
    BY <1>2, <1>3 DEF OwnInv, Worker
  <1>5. PICK item \in Decided(w, e) :
          worker' = [worker EXCEPT ![w].pc = "mark", ![w].seen = {}, ![w].made = @ \cup {item}]
    BY <1>1
  <1>6. item \in Item /\ item.event = e.id
    BY <1>4, ItemMade
  <1>7. PICK k : k = [worker[w] EXCEPT !.pc = "mark", !.seen = {},
                                       !.made = worker[w].made \cup {item}] OBVIOUS
  <1>8. /\ k \in Worker /\ k.pc = "mark" /\ k.current = {e} /\ k.batch = worker[w].batch
        /\ k.made = worker[w].made \cup {item} /\ k.marked = worker[w].marked
    BY <1>3, <1>4, <1>6, <1>7 DEF Worker, PCs
  <1>9. /\ worker'[w] = k
        /\ \A q \in Workers \ {w} : worker'[q] = worker[q]
        /\ worker' \in [Workers -> Worker]
    BY <1>5, <1>7, <1>8 DEF IInv, TypeOK
  <1>10. OwnInv(w)'
    <2>. USE <1>2 DEF tables
    <2>1. /\ worker'[w].batch = worker[w].batch /\ worker'[w].current = {e}
          /\ worker'[w].made = worker[w].made \cup {item}
          /\ worker'[w].marked = worker[w].marked /\ worker'[w].pc = "mark"
      BY <1>8, <1>9
    <2>2. e.id \notin worker[w].marked BY <1>3, <1>4 DEF OwnInv
    <2>3. \A i \in worker[w].made : i.event \in worker[w].marked
      BY <1>2, <1>3 DEF OwnInv
    <2>4. \A i, j \in worker'[w].made : i.event = j.event => i = j
      BY <1>3, <1>6, <2>1, <2>2, <2>3 DEF OwnInv
    <2>5. IsFiniteSet(worker'[w].made) BY <1>3, <2>1, FS_AddElement DEF OwnInv
    <2>6. Wanted(w)' = {e.id} BY <2>1 DEF Wanted
    <2>7. \A i \in worker'[w].made :
            /\ \E f \in events : f.id = i.event /\ f.kind = "mutation"
            /\ i.event \in worker'[w].marked \/ i.event \in Wanted(w)'
      BY <1>3, <1>4, <1>6, <2>1, <2>3, <2>6 DEF OwnInv
    <2>8. worker'[w].pc \in Busy /\ worker'[w].pc # "next" /\ worker'[w].pc # "synthesize"
      BY <2>1 DEF Busy
    <2>9. \A f \in worker'[w].current : f.kind = "mutation" =>
            \E i \in worker'[w].made : i.event = f.id
      BY <1>6, <2>1
    <2>. QED BY <1>3, <1>4, <2>1, <2>4, <2>5, <2>7, <2>8, <2>9 DEF OwnInv, Published
  <1>11. SeenInv(w)' BY <1>8, <1>9 DEF SeenInv
  <1>12. \A n \in EventId : w \in Claims(n)' => w \in Claims(n)
    BY <1>8, <1>9 DEF Claims
  <1>. QED BY <1>2, <1>9, <1>10, <1>11, <1>12, LocalStep

LEMMA QueueKeeps == ASSUME IInv, NEW w \in Workers, Queue(w) PROVE IInv'
  <1>1. worker[w].pc = "mark" /\ UNCHANGED <<now, tables>> BY DEF Queue
  <1>2. OwnInv(w) /\ worker[w] \in Worker BY DEF IInv, TypeOK
  <1>3. PICK k : k = [worker[w] EXCEPT !.pc = "wait"] OBVIOUS
  <1>4. /\ k \in Worker /\ k.pc = "wait" /\ k.current = worker[w].current
        /\ k.batch = worker[w].batch /\ k.made = worker[w].made
        /\ k.marked = worker[w].marked
    BY <1>2, <1>3 DEF Worker, PCs
  <1>5. /\ worker'[w] = k
        /\ \A q \in Workers \ {w} : worker'[q] = worker[q]
        /\ worker' \in [Workers -> Worker]
    BY <1>3, <1>4 DEF Queue, IInv, TypeOK
  <1>6. OwnInv(w)'
    BY <1>1, <1>2, <1>4, <1>5 DEF OwnInv, Busy, Published, Wanted, tables
  <1>7. SeenInv(w)' BY <1>4, <1>5 DEF SeenInv
  <1>8. \A n \in EventId : w \in Claims(n)' => w \in Claims(n)
    BY <1>4, <1>5 DEF Claims
  <1>. QED BY <1>1, <1>5, <1>6, <1>7, <1>8, LocalStep

LEMMA MarkKeeps == ASSUME IInv, NEW w \in Workers, Mark(w) PROVE IInv'
  <1>1. worker[w].pc \in {"mark", "wait"} /\ UNCHANGED <<now, tables>> BY DEF Mark
  <1>2. OwnInv(w) /\ worker[w] \in Worker /\ events \subseteq Event BY DEF IInv, TypeOK
  <1>3. \A e \in worker[w].current : e \in worker[w].batch /\ e \in events
    BY <1>2 DEF OwnInv
  <1>4. Wanted(w) \subseteq EventId
    BY <1>2, <1>3 DEF Wanted, Event
  <1>5. PICK k : k = [worker[w] EXCEPT !.pc = "next",
                          !.batch = worker[w].batch \ worker[w].current,
                          !.current = {},
                          !.marked = worker[w].marked \cup Wanted(w)] OBVIOUS
  <1>6. /\ k \in Worker /\ k.pc = "next" /\ k.current = {}
        /\ k.batch = worker[w].batch \ worker[w].current /\ k.made = worker[w].made
        /\ k.marked = worker[w].marked \cup Wanted(w)
    BY <1>2, <1>4, <1>5 DEF Worker, PCs
  <1>7. /\ worker'[w] = k
        /\ \A q \in Workers \ {w} : worker'[q] = worker[q]
        /\ worker' \in [Workers -> Worker]
    BY <1>5, <1>6 DEF Mark, IInv, TypeOK
  <1>8. \A e, f \in events : e.id = f.id => e = f BY DEF IInv, Ids
  <1>9. OwnInv(w)'
    <2>. USE <1>1 DEF tables
    <2>1. /\ worker'[w].pc = "next" /\ worker'[w].current = {}
          /\ worker'[w].batch = worker[w].batch \ worker[w].current
          /\ worker'[w].made = worker[w].made
          /\ worker'[w].marked = worker[w].marked \cup Wanted(w)
      BY <1>6, <1>7
    <2>2. \A n \in worker'[w].marked : Published(n)
      BY <1>2, <1>3, <2>1 DEF OwnInv, Published, Wanted
    <2>3. \A e \in worker'[w].batch : e.id \notin worker'[w].marked
      BY <1>2, <1>3, <1>8, <2>1 DEF OwnInv, Wanted
    <2>4. \A e \in events : e.kind = "mutation" /\ e.id \in worker'[w].marked =>
            \E i \in worker'[w].made : i.event = e.id
      BY <1>2, <1>3, <1>8, <2>1 DEF OwnInv, Wanted
    <2>5. \A i \in worker'[w].made : i.event \in worker'[w].marked
      BY <1>2, <2>1 DEF OwnInv
    <2>6. worker'[w].pc \in Busy BY <2>1 DEF Busy
    <2>. QED BY <1>2, <2>1, <2>2, <2>3, <2>4, <2>5, <2>6 DEF OwnInv, Published
  <1>10. SeenInv(w)' BY <1>6, <1>7 DEF SeenInv
  <1>11. \A n \in EventId : w \in Claims(n)' => w \in Claims(n)
    BY <1>3, <1>6, <1>7 DEF Claims, Wanted
  <1>. QED BY <1>1, <1>7, <1>9, <1>10, <1>11, LocalStep
-----------------------------------------------------------------------------
\* Steps that write the tables.

\* What a function makes of a finite set is no larger.
LEMMA ImageOf ==
  ASSUME NEW S, IsFiniteSet(S), NEW f, f = [x \in S |-> f[x]]
  PROVE  /\ IsFiniteSet({f[x] : x \in S})
         /\ Cardinality({f[x] : x \in S}) \in Nat /\ Cardinality(S) \in Nat
         /\ Cardinality({f[x] : x \in S}) <= Cardinality(S)
  <1>1. f \in Surjection(S, {f[x] : x \in S})
    BY DEF Surjection
  <1>. QED BY <1>1, FS_Surjection, FS_CardinalityType

\* Items that are rewritten in place: a release and an ack give an item another
\* status, never another event.
LEMMA Rewritten ==
  ASSUME IInv, NEW f \in [items -> Item], \A i \in items : f[i].event = i.event,
         items' = {f[i] : i \in items}, UNCHANGED <<now, events, processed, constraints>>,
         worker' \in [Workers -> Worker],
         \A q \in Workers : worker'[q] = worker[q] \/ worker'[q] = Asleep
  PROVE  IInv'
  <1>1. TypeOK' BY DEF IInv, TypeOK
  <1>2. IsFiniteSet(items') BY ImageOf DEF IInv, Ids
  <1>3. Ids' BY <1>2 DEF IInv, Ids, Published
  <1>4. FeedExact'
    <2>1. FeedExact BY DEF IInv
    <2>2. ASSUME NEW e \in events, e.kind = "mutation", e.id \in processed
          PROVE  \E i \in items' : i.event = e.id
      <3>1. PICK i \in items : i.event = e.id BY <2>1, <2>2 DEF FeedExact
      <3>. QED BY <3>1
    <2>3. ASSUME NEW j \in items'
          PROVE  \E e \in events : e.id = j.event /\ e.kind = "mutation" /\ e.id \in processed
      <3>1. PICK i \in items : j = f[i] BY <2>3
      <3>. QED BY <2>1, <3>1 DEF FeedExact
    <2>. QED BY <2>2, <2>3 DEF FeedExact
  <1>5. ASSUME NEW q \in Workers PROVE OwnInv(q)' /\ SeenInv(q)'
    <2>1. CASE worker'[q] = worker[q]
      BY <2>1 DEF IInv, OwnInv, SeenInv, Published, Wanted
    <2>2. CASE worker'[q] = Asleep
      BY <2>2, Sleeps, Idles DEF Busy
    <2>. QED BY <2>1, <2>2
  <1>6. ASSUME NEW n \in EventId
        PROVE  Cardinality(ItemsOf(n)') + Cardinality(Claims(n)') <= Cardinality(Workers)
    <2>1. Claims(n)' \in SUBSET Claims(n) BY Sleeps DEF Claims
    <2>2. Cardinality(Claims(n)') \in Nat /\ Cardinality(Claims(n)') <= Cardinality(Claims(n))
      BY <2>1, Countable, Fewer
    <2>3. PICK g : g = [i \in ItemsOf(n) |-> f[i]] OBVIOUS
    <2>4. ItemsOf(n)' = {g[i] : i \in ItemsOf(n)}
      BY <2>3 DEF ItemsOf
    <2>5. g = [i \in ItemsOf(n) |-> g[i]] BY <2>3
    <2>6. /\ Cardinality(ItemsOf(n)') \in Nat
          /\ Cardinality(ItemsOf(n)') <= Cardinality(ItemsOf(n))
      BY <2>4, <2>5, Countable, ImageOf
    <2>7. Cardinality(ItemsOf(n)) + Cardinality(Claims(n)) <= Cardinality(Workers)
      BY DEF IInv, ClaimInv
    <2>. QED BY <2>2, <2>6, <2>7, Countable
  <1>. QED BY <1>1, <1>3, <1>4, <1>5, <1>6 DEF IInv, ClaimInv

LEMMA ReleaseKeeps == ASSUME IInv, NEW w \in Workers, Release(w) PROVE IInv'
  <1>1. PICK f : f = [i \in items |-> IF \E d \in worker[w].due : Same(i, d)
                         THEN [i EXCEPT !.status = "active", !.until = None] ELSE i]
    OBVIOUS
  <1>2. ASSUME NEW i \in items PROVE f[i] \in Item /\ f[i].event = i.event
    <2>1. i \in Item BY DEF IInv, TypeOK
    <2>2. None \in 0..Open BY FeedAssumption DEF None, Open
    <2>3. /\ [i EXCEPT !.status = "active", !.until = None] \in Item
          /\ [i EXCEPT !.status = "active", !.until = None].event = i.event
      BY <2>1, <2>2 DEF Item, Statuses
    <2>4. CASE \E d \in worker[w].due : Same(i, d)
      <3>1. f[i] = [i EXCEPT !.status = "active", !.until = None] BY <1>1, <2>4
      <3>. QED BY <2>3, <3>1
    <2>5. CASE ~\E d \in worker[w].due : Same(i, d)
      <3>1. f[i] = i BY <1>1, <2>5
      <3>. QED BY <2>1, <3>1
    <2>. QED BY <2>4, <2>5
  <1>3. f \in [items -> Item] BY <1>1, <1>2
  <1>4. items' = {f[i] : i \in items} BY <1>1 DEF Release
  <1>5. /\ worker' \in [Workers -> Worker]
        /\ \A q \in Workers : worker'[q] = worker[q] \/ worker'[q] = Asleep
    BY Sleeps DEF Release, IInv, TypeOK
  <1>. QED BY <1>2, <1>3, <1>4, <1>5, Rewritten DEF Release

LEMMA AckKeeps ==
  ASSUME IInv, NEW i \in items, NEW status \in {"acked", "dismissed"}, Ack(i, status)
  PROVE  IInv'
  <1>1. PICK k : k = [i EXCEPT !.status = status] OBVIOUS
  <1>2. i \in Item BY DEF IInv, TypeOK
  <1>3. k \in Item /\ k.event = i.event
    BY <1>1, <1>2 DEF Item, Statuses
  <1>4. PICK f : f = [j \in items |-> IF j = i THEN k ELSE j] OBVIOUS
  <1>5. f \in [items -> Item] /\ \A j \in items : f[j].event = j.event
    BY <1>3, <1>4 DEF IInv, TypeOK
  <1>6. items' = {f[j] : j \in items} BY <1>1, <1>4 DEF Ack
  <1>7. UNCHANGED <<now, events, processed, constraints, worker>> BY DEF Ack
  <1>. QED BY <1>5, <1>6, <1>7, Rewritten DEF IInv, TypeOK
\* A commit turns a claim into an item, and the events it marked into processed
\* ones together with their items.
LEMMA CommitKeeps == ASSUME IInv, NEW w \in Workers, CommitBatch(w) PROVE IInv'
  <1>1. worker[w].pc = "next" /\ worker[w].batch = {} /\ UNCHANGED <<now, events, constraints>>
    BY DEF CommitBatch
  <1>2. OwnInv(w) /\ worker[w] \in Worker BY DEF IInv, TypeOK
  <1>3. /\ IsFiniteSet(items) /\ Cardinality(items) \in Nat /\ IsFiniteSet(worker[w].made)
        /\ worker[w].made \subseteq Item
    BY <1>2, FS_CardinalityType DEF IInv, Ids, OwnInv, Worker
  <1>4. PICK f : f = [i \in worker[w].made |-> [i EXCEPT !.no = Cardinality(items)]] OBVIOUS
  <1>5. ASSUME NEW i \in worker[w].made PROVE f[i] \in Item /\ f[i].event = i.event
    BY <1>3, <1>4 DEF Item
  <1>6. PICK new : new = {f[i] : i \in worker[w].made} OBVIOUS
  <1>7. IsFiniteSet(new) /\ new \subseteq Item
    <2>1. new \subseteq Item BY <1>5, <1>6
    <2>2. f = [i \in worker[w].made |-> f[i]] BY <1>4
    <2>3. IsFiniteSet({f[i] : i \in worker[w].made}) BY <1>3, <2>2, ImageOf
    <2>. QED BY <1>6, <2>1, <2>3
  <1>8. items' = items \cup new BY <1>4, <1>6 DEF CommitBatch
  <1>9. processed' = processed \cup worker[w].marked BY DEF CommitBatch
  <1>10. PICK k : k = [Asleep EXCEPT !.pc = IF w \in Feeds THEN "list" ELSE "idle"] OBVIOUS
  <1>11. /\ k \in Worker /\ k.pc \in {"list", "idle"} /\ k.batch = {} /\ k.current = {}
         /\ k.made = {} /\ k.marked = {}
    BY <1>10 DEF Asleep, Worker, PCs
  <1>12. /\ worker'[w] = k
         /\ \A q \in Workers \ {w} : worker'[q] = worker[q]
         /\ worker' \in [Workers -> Worker]
    BY <1>10, <1>11 DEF CommitBatch, IInv, TypeOK
  <1>13. \A i \in worker[w].made :
           /\ i.event \in worker[w].marked
           /\ \E e \in events : e.id = i.event /\ e.kind = "mutation"
    BY <1>1, <1>2 DEF OwnInv
  <1>14. TypeOK'
    <2>1. worker[w].marked \subseteq EventId BY <1>2 DEF Worker
    <2>. QED BY <1>1, <1>7, <1>8, <1>9, <1>12, <2>1 DEF IInv, TypeOK
  <1>15. Ids'
    <2>1. IsFiniteSet(items') BY <1>3, <1>7, <1>8, FS_Union
    <2>2. \A n \in worker[w].marked : Published(n) BY <1>2 DEF OwnInv
    <2>. QED BY <1>1, <1>9, <2>1, <2>2 DEF IInv, Ids, Published
  <1>16. FeedExact'
    <2>1. FeedExact BY DEF IInv
    <2>2. ASSUME NEW e \in events, e.kind = "mutation", e.id \in processed'
          PROVE  \E i \in items' : i.event = e.id
      <3>1. CASE e.id \in processed BY <1>8, <2>1, <2>2, <3>1 DEF FeedExact
      <3>2. CASE e.id \in worker[w].marked
        <4>1. PICK i \in worker[w].made : i.event = e.id BY <1>2, <2>2, <3>2 DEF OwnInv
        <4>. QED BY <1>5, <1>6, <1>8, <4>1
      <3>. QED BY <1>9, <2>2, <3>1, <3>2
    <2>3. ASSUME NEW j \in items'
          PROVE  \E e \in events : e.id = j.event /\ e.kind = "mutation" /\ e.id \in processed'
      <3>1. CASE j \in items BY <1>9, <2>1, <3>1 DEF FeedExact
      <3>2. CASE j \in new
        <4>1. PICK i \in worker[w].made : j = f[i] BY <1>6, <3>2
        <4>. QED BY <1>5, <1>9, <1>13, <4>1
      <3>. QED BY <1>8, <2>3, <3>1, <3>2
    <2>. QED BY <1>1, <2>2, <2>3 DEF FeedExact
  <1>17. ASSUME NEW q \in Workers PROVE OwnInv(q)' /\ SeenInv(q)'
    <2>1. CASE q = w BY <1>11, <1>12, <2>1, Idles DEF Busy
    <2>2. CASE q # w
      <3>1. worker'[q] = worker[q] BY <1>12, <2>2
      <3>. QED BY <1>1, <3>1 DEF IInv, OwnInv, SeenInv, Published, Wanted
    <2>. QED BY <2>1, <2>2
  <1>18. ASSUME NEW n \in EventId
         PROVE  Cardinality(ItemsOf(n)') + Cardinality(Claims(n)') <= Cardinality(Workers)
    <2>1. Cardinality(ItemsOf(n)) + Cardinality(Claims(n)) <= Cardinality(Workers)
      BY DEF IInv, ClaimInv
    <2>2. Claims(n)' = Claims(n) \ {w} BY <1>1, <1>11, <1>12 DEF Claims
    <2>3. /\ Cardinality(Claims(n)') \in Nat
          /\ Cardinality(Claims(n)') <= Cardinality(Claims(n))
          /\ w \in Claims(n) => Cardinality(Claims(n)') = Cardinality(Claims(n)) - 1
      <3>1. IsFiniteSet(Claims(n)) /\ Cardinality(Claims(n)) \in Nat BY Countable
      <3>2. /\ IsFiniteSet(Claims(n) \ {w})
            /\ Cardinality(Claims(n) \ {w}) = IF w \in Claims(n) THEN Cardinality(Claims(n)) - 1
                                              ELSE Cardinality(Claims(n))
        BY <3>1, FS_RemoveElement
      <3>3. Cardinality(Claims(n) \ {w}) \in Nat BY <3>2, FS_CardinalityType
      <3>. QED BY <2>2, <3>1, <3>2, <3>3
    <2>4. CASE \A i \in worker[w].made : i.event # n
      <3>1. \A j \in new : j.event # n BY <1>5, <1>6, <2>4
      <3>2. ItemsOf(n)' = ItemsOf(n) BY <1>8, <3>1 DEF ItemsOf
      <3>. QED BY <2>1, <2>3, <3>2, Countable
    <2>5. CASE \E i \in worker[w].made : i.event = n
      <3>1. PICK i \in worker[w].made : i.event = n BY <2>5
      <3>2. \A o \in worker[w].made : o.event = n => o = i BY <1>2, <3>1 DEF OwnInv
      <3>3. \A j \in new : j.event = n => j = f[i] BY <1>5, <1>6, <3>2
      <3>4. ItemsOf(n)' = ItemsOf(n) \cup {f[i]}
        BY <1>5, <1>6, <1>8, <3>1, <3>3 DEF ItemsOf
      <3>5. /\ Cardinality(ItemsOf(n)') \in Nat
            /\ Cardinality(ItemsOf(n)') <= Cardinality(ItemsOf(n)) + 1
        <4>1. IsFiniteSet(ItemsOf(n)) /\ Cardinality(ItemsOf(n)) \in Nat BY Countable
        <4>2. /\ IsFiniteSet(ItemsOf(n) \cup {f[i]})
              /\ Cardinality(ItemsOf(n) \cup {f[i]}) = IF f[i] \in ItemsOf(n)
                                                       THEN Cardinality(ItemsOf(n))
                                                       ELSE Cardinality(ItemsOf(n)) + 1
          BY <4>1, FS_AddElement
        <4>3. Cardinality(ItemsOf(n) \cup {f[i]}) \in Nat BY <4>2, FS_CardinalityType
        <4>. QED BY <3>4, <4>1, <4>2, <4>3
      <3>6. w \in Claims(n) BY <1>13, <3>1 DEF Claims
      <3>. QED BY <2>1, <2>3, <3>5, <3>6, Countable
    <2>. QED BY <2>4, <2>5
  <1>. QED BY <1>14, <1>15, <1>16, <1>17, <1>18 DEF IInv, ClaimInv

\* The event of a transaction is newer than all there are, and so is the boundary
\* that comes with it.
LEMMA PublishKeeps ==
  ASSUME IInv, NEW kind \in {"mutation", "constraint_added"}, NEW p \in People,
         Publish(kind, p), UNCHANGED <<now, processed, items, worker>>,
         constraints' = constraints \/ \E start \in Time, end \in 1..Open :
              constraints' = constraints \cup
                  {[id |-> NextId, subject |-> p, start |-> start, end |-> end]}
  PROVE  IInv'
  <1>1. PICK at \in 0..now :
          events' = events \cup {[id |-> NextId, at |-> at, kind |-> kind, subject |-> p]}
    BY DEF Publish
  <1>2. PICK e : e = [id |-> NextId, at |-> at, kind |-> kind, subject |-> p] OBVIOUS
  <1>3. /\ NextId \in EventId /\ IsFiniteSet(events) /\ Cardinality(events) \in Nat
        /\ NextId = Cardinality(events) + 1
    BY FS_CardinalityType DEF Publish, NextId, IInv, Ids
  <1>4. /\ e \in Event /\ e.id = NextId /\ events' = events \cup {e}
    <2>1. at \in Time BY FeedAssumption DEF IInv, TypeOK, Time
    <2>. QED BY <1>1, <1>2, <1>3, <2>1 DEF Event
  <1>5. \A f \in events : f.id < NextId /\ f.id # NextId
    <2>1. \A f \in events : f.id \in Nat /\ f.id <= Cardinality(events)
      BY FeedAssumption DEF IInv, TypeOK, Ids, Event, EventId
    <2>. QED BY <1>3, <2>1
  <1>6. ~Published(NextId) BY <1>5 DEF Published
  <1>7. TypeOK'
    <2>1. constraints' \subseteq Constraint
      BY <1>3 DEF IInv, TypeOK, Constraint
    <2>. QED BY <1>4, <2>1 DEF IInv, TypeOK
  <1>8. Ids'
    <2>1. IsFiniteSet(events') /\ Cardinality(events') = Cardinality(events) + 1
      <3>1. e \notin events BY <1>4, <1>5
      <3>. QED BY <1>3, <1>4, <3>1, FS_AddElement
    <2>2. \A f \in events' : f.id <= Cardinality(events')
      <3>1. \A f \in events : f.id \in Nat BY FeedAssumption DEF IInv, TypeOK, Event, EventId
      <3>. QED BY <1>3, <1>4, <1>5, <2>1, <3>1
    <2>3. \A f, g \in events' : f.id = g.id => f = g
      BY <1>4, <1>5 DEF IInv, Ids
    <2>4. \A n \in processed : Published(n)'
      BY <1>4 DEF IInv, Ids, Published
    <2>. QED BY <2>1, <2>2, <2>3, <2>4 DEF IInv, Ids
  <1>9. NextId \notin processed BY <1>6 DEF IInv, Ids
  <1>10. FeedExact' BY <1>4, <1>9 DEF IInv, FeedExact
  <1>11. ASSUME NEW q \in Workers PROVE OwnInv(q)'
    <2>1. OwnInv(q) BY DEF IInv
    <2>2. NextId \notin worker[q].marked BY <1>6, <2>1 DEF OwnInv
    <2>3. \A n : Published(n) => Published(n)' BY <1>4 DEF Published
    <2>4. \A f \in events' : f.kind = "mutation" /\ f.id \in worker'[q].marked =>
            \E i \in worker'[q].made : i.event = f.id
      BY <1>4, <2>1, <2>2 DEF OwnInv
    <2>. QED BY <1>4, <2>1, <2>3, <2>4 DEF OwnInv, Wanted
  <1>12. ASSUME NEW q \in Workers PROVE SeenInv(q)'
    <2>1. \A f \in worker[q].current : f.id < NextId /\ f.id \in Nat /\ NextId \in Nat
      BY <1>3, <1>5, FeedAssumption DEF IInv, OwnInv, TypeOK, Event, EventId
    <2>2. \A c \in constraints' : c \in constraints \/ c.id = NextId OBVIOUS
    <2>. QED BY <2>1, <2>2 DEF IInv, SeenInv
  <1>13. ClaimInv' BY DEF IInv, ClaimInv, ItemsOf, Claims
  <1>. QED BY <1>7, <1>8, <1>10, <1>11, <1>12, <1>13 DEF IInv

LEMMA ClockKeeps == ASSUME IInv, now' \in Time, UNCHANGED <<tables, worker>> PROVE IInv'
  BY DEF IInv, TypeOK, Ids, FeedExact, OwnInv, SeenInv, ClaimInv, ItemsOf, Claims,
         Published, Wanted, tables

-----------------------------------------------------------------------------
LEMMA Keeps == IInv /\ [Next]_vars => IInv'
  <1>. SUFFICES ASSUME IInv, [Next]_vars PROVE IInv' OBVIOUS
  <1>1. CASE Tick
    <2>1. now' \in Time BY <1>1, FeedAssumption DEF Tick, IInv, TypeOK, Time
    <2>. QED BY <1>1, <2>1, ClockKeeps DEF Tick
  <1>2. ASSUME NEW p \in People, Mutate(p) PROVE IInv'
    BY <1>2, PublishKeeps DEF Mutate
  <1>3. ASSUME NEW p \in People, SetConstraint(p) PROVE IInv'
    BY <1>3, PublishKeeps DEF SetConstraint
  <1>4. ASSUME NEW w \in Workers, Poll(w) \/ Step(w) PROVE IInv'
    BY <1>4, PollKeeps, HandleKeeps, SynthesizeKeeps, QueueKeeps, MarkKeeps, CommitKeeps,
       ReadDueKeeps, ReleaseKeeps DEF Step
  <1>5. ASSUME NEW w \in Workers, Fail(w) \/ DeadlockVictim(w) PROVE IInv'
    BY <1>5, AbortKeeps DEF Fail, DeadlockVictim
  <1>6. ASSUME NEW i \in items, NEW status \in {"acked", "dismissed"}, Ack(i, status)
        PROVE  IInv'
    BY <1>6, AckKeeps
  <1>7. CASE UNCHANGED vars
    <2>1. UNCHANGED <<now, tables, worker>> BY <1>7 DEF vars, tables
    <2>. QED BY <2>1, ClockKeeps DEF IInv, TypeOK
  <1>. QED BY <1>1, <1>2, <1>3, <1>4, <1>5, <1>6, <1>7 DEF Next

LEMMA Invariant == Spec => []IInv
  BY Begins, Keeps, PTL DEF Spec

\* Whatever requests poll, wait, commit, fail and are cancelled, in any order,
\* every table and every worker keeps the shape the code gives it.
THEOREM TypeCorrect == Spec => []TypeOK
  <1>1. IInv => TypeOK BY DEF IInv
  <1>. QED BY Invariant, <1>1, PTL

\* An event is marked processed together with the item it led to: no batch that
\* fails, and nobody who polls at the same time, leaves one without the other
\* (process_pending).
THEOREM FeedIsExact == Spec => []FeedExact
  <1>1. IInv => FeedExact BY DEF IInv
  <1>. QED BY Invariant, <1>1, PTL

\* However many workers poll the same event, and however often they fail and
\* poll again, it leads to one item for each of them at most (poll_unprocessed).
THEOREM OneItemPerWorker == Spec => []OnePerWorker
  <1>1. IInv => OnePerWorker
    BY Countable DEF IInv, ClaimInv, OnePerWorker, ItemsOf
  <1>. QED BY Invariant, <1>1, PTL

-----------------------------------------------------------------------------
\* Only an event that is handled adds to what a worker has made.
LEMMA OthersMakeNothing ==
  ASSUME IInv, Next, NEW w \in Workers, worker'[w].made \ worker[w].made # {}
  PROVE  Synthesize(w)
  <1>1. worker \in [Workers -> Worker] BY DEF IInv, TypeOK
  <1>2. \/ worker'[w].made = {} \/ worker'[w].made = worker[w].made \/ Synthesize(w)
    <2>1. CASE UNCHANGED worker BY <2>1
    <2>2. ASSUME NEW q \in Workers, q # w, \A o \in Workers \ {q} : worker'[o] = worker[o]
          PROVE  worker'[w].made = worker[w].made
      BY <2>2
    <2>3. ASSUME NEW q \in Workers, Poll(q) \/ Step(q) \/ Fail(q) \/ DeadlockVictim(q)
          PROVE  \A o \in Workers \ {q} : worker'[o] = worker[o]
      BY <1>1, <2>3 DEF Poll, Step, Fail, DeadlockVictim, Abort, Handle, Synthesize, Queue,
                       Mark, CommitBatch, ReadDue, Release
    <2>4. CASE Release(w) \/ Abort(w)
      <3>1. worker'[w] = Asleep BY <1>1, <2>4 DEF Release, Abort
      <3>. QED BY <3>1, Sleeps
    <2>7. CASE Poll(w)
      <3>1. PICK batch : worker'[w] = [Asleep EXCEPT !.pc = "next", !.batch = batch]
        BY <1>1, <2>7 DEF Poll
      <3>. QED BY <3>1 DEF Asleep
    <2>8. CASE CommitBatch(w)
      <3>1. PICK pc : worker'[w] = [Asleep EXCEPT !.pc = pc]
        BY <1>1, <2>8 DEF CommitBatch
      <3>. QED BY <3>1 DEF Asleep
    <2>9. CASE ReadDue(w)
      <3>1. PICK pc, due : worker'[w] = [Asleep EXCEPT !.pc = pc, !.due = due]
        BY <1>1, <2>9 DEF ReadDue
      <3>. QED BY <3>1 DEF Asleep
    <2>10. worker[w] \in Worker BY <1>1
    <2>5. CASE Handle(w)
      <3>1. PICK e \in worker[w].batch :
              worker' = [worker EXCEPT
                ![w].pc = IF e.kind = "constraint_added" THEN "mark" ELSE "synthesize",
                ![w].current = {e},
                ![w].seen = IF e.kind = "constraint_added" THEN {}
                            ELSE {c \in constraints : c.subject = e.subject}]
        BY <2>5 DEF Handle
      <3>2. PICK pc, seen :
              worker' = [worker EXCEPT ![w].pc = pc, ![w].current = {e}, ![w].seen = seen]
        BY <3>1, Zenon
      <3>3. worker'[w] = [worker[w] EXCEPT !.pc = pc, !.current = {e}, !.seen = seen]
        BY <1>1, <3>2
      <3>. QED BY <2>10, <3>3 DEF Worker
    <2>11. CASE Queue(w)
      <3>1. worker'[w] = [worker[w] EXCEPT !.pc = "wait"] BY <1>1, <2>11 DEF Queue
      <3>. QED BY <2>10, <3>1 DEF Worker
    <2>12. CASE Mark(w)
      <3>1. PICK batch, marked :
              worker'[w] = [worker[w] EXCEPT !.pc = "next", !.batch = batch, !.current = {},
                                             !.marked = marked]
        BY <1>1, <2>12 DEF Mark
      <3>. QED BY <2>10, <3>1 DEF Worker
    <2>6. CASE Tick \/ (\E p \in People : Mutate(p) \/ SetConstraint(p))
               \/ (\E i \in items, status \in {"acked", "dismissed"} : Ack(i, status))
      BY <2>1, <2>6 DEF Tick, Mutate, SetConstraint, Ack
    <2>13. CASE \E q \in Workers : Poll(q) \/ Step(q) \/ Fail(q) \/ DeadlockVictim(q)
      BY <2>2, <2>3, <2>4, <2>5, <2>7, <2>8, <2>9, <2>11, <2>12, <2>13
      DEF Step, Fail, DeadlockVictim
    <2>. QED BY <2>6, <2>13 DEF Next
  <1>. QED BY <1>2

\* A boundary set before an event was published holds back what the event leads
\* to, as long as it lasts: it was committed when the constraints were read, and
\* what is read is not read again while the model is asked (_handle_mutation).
THEOREM EarlierBoundaryIsKept == Spec => EarlierBoundaryHolds
  <1>1. ASSUME IInv, [Next]_vars
        PROVE  [\A w \in Workers : \A i \in worker'[w].made \ worker[w].made :
                  i.status = "active" =>
                    ~\E c \in constraints : /\ c.subject = i.subject
                                            /\ c.id < i.event
                                            /\ ActiveAt(c, now)]_worker
    <2>. SUFFICES ASSUME worker' # worker, NEW w \in Workers,
                         NEW i \in worker'[w].made \ worker[w].made, i.status = "active",
                         NEW c \in constraints, c.subject = i.subject, c.id < i.event,
                         ActiveAt(c, now)
                  PROVE  FALSE
      OBVIOUS
    <2>1. Synthesize(w) BY <1>1, OthersMakeNothing DEF vars
    <2>2. worker \in [Workers -> Worker] /\ OwnInv(w) /\ SeenInv(w) /\ worker[w] \in Worker
      BY <1>1 DEF IInv, TypeOK
    <2>9. PICK e \in worker[w].current : \E item \in Decided(w, e) :
            worker'[w].made = worker[w].made \cup {item}
      BY <2>1, <2>2 DEF Synthesize, Worker
    <2>3. PICK item \in Decided(w, e) : worker'[w].made = worker[w].made \cup {item}
      BY <2>9
    <2>4. e \in events /\ worker[w].seen \subseteq Constraint
      BY <2>2, <2>3 DEF OwnInv, Worker
    <2>5. i = item /\ i.event = e.id /\ i.subject = e.subject
      BY <1>1, <2>3, <2>4, ItemMade
    <2>6. c \in worker[w].seen
      BY <2>1, <2>2, <2>3, <2>5 DEF SeenInv, Synthesize
    <2>7. c \in Blockers(worker[w].seen) BY <2>6 DEF Blockers
    <2>8. i.status = "held" BY <2>3, <2>5, <2>7 DEF Decided, NewItem
    <2>. QED BY <2>8
  <1>. QED BY Invariant, <1>1, PTL DEF Spec, EarlierBoundaryHolds
=============================================================================
