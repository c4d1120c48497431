------------------------ MODULE SourceContentProofs ------------------------
(***************************************************************************)
(* What the store of the uploaded bytes guarantees for any number of       *)
(* documents, backends, publishers, cleaners and migration workers, and    *)
(* any bound on crashes: every row has a readable object in the backend    *)
(* the settings name, an upload can be enqueued, and a cancellation is     *)
(* honoured.                                                               *)
(***************************************************************************)
EXTENDS SourceContent, FiniteSetTheorems, WellFoundedInduction, TLAPS

Phases == {"idle", "start", "batch", "copy", "begin", "visit", "recopy",
           "cutover", "error", "fail", "settle"}
Places == Backends \cup {None}
Positions == 0 .. DocCount
States == ActiveStates \cup FinalStates \cup {"none"}
Migrations == [state : States, source : Places, target : Places,
               owner : Workers \cup {None}, expired : BOOLEAN,
               last : Positions, id : Nat]
Uploads == [pc : {"idle", "verify", "commit", "cleanup", "enqueue"},
            doc : Docs, attempt : 0 .. 1]
Cleanups == [pc : {"idle", "remove", "record"}, doc : Docs]
Copies == [pc : Phases, id : Nat, source : Places, target : Places,
           last : Positions, todo : SUBSET Docs]
Budgets == [publishes : Nat, migrations : Nat, faults : Nat]

Typed ==
    /\ objects \in [Backends -> SUBSET Docs]
    /\ rows \subseteq Docs /\ young \subseteq rows /\ since \subseteq rows
    /\ referenced \subseteq rows /\ deletions \subseteq Docs
    /\ active \in Backends
    /\ migration \in Migrations
    /\ conf \in [Publishers \cup Cleaners -> Backends]
    /\ publisher \in [Publishers -> Uploads]
    /\ cleaner \in [Cleaners -> Cleanups]
    /\ worker \in [Workers -> Copies]
    /\ budget \in Budgets

\* The backends migration m leads from and to; an active one starts where the
\* settings are.
Directed(m, now) ==
    /\ m.state # "none" => m.source \in Backends /\ m.target \in Backends
    /\ m.state \in ActiveStates => m.source = now

\* Worker record k belongs to migration m: it need not hold the lease.
Current(k, m) == k.pc # "idle" /\ k.id = m.id

\* A worker that is busy works, or worked, for a migration that was queued.
Engaged(k, m) ==
    k.pc # "idle" =>
       /\ k.source \in Backends /\ k.target \in Backends
       /\ k.id <= m.id /\ m.state # "none"
Aimed(k, m) == Current(k, m) => k.source = m.source /\ k.target = m.target

\* What a pass before the cut-over has behind it and before it, of the documents S
\* that had their row when the migration was queued and kept it.
Behind(k, m, S, obj) ==
    Current(k, m) /\ k.pc \in {"visit", "recopy"} =>
       \A d \in S : d <= k.last => d \in obj[k.target]
Ahead(k, m, S) ==
    Current(k, m) /\ k.pc = "recopy" =>
       /\ \A t \in k.todo : k.last < t
       /\ \A d \in S : k.last < d => d \in k.todo \/ \A t \in k.todo : t < d
Complete(k, m, S, obj) ==
    Current(k, m) /\ k.pc = "cutover" => S \subseteq obj[k.target]

CopyOK(k, m, S, obj) ==
    /\ Engaged(k, m) /\ Aimed(k, m)
    /\ Behind(k, m, S, obj) /\ Ahead(k, m, S) /\ Complete(k, m, S, obj)

Kept == rows \ since

Inv ==
    /\ Typed
    /\ Directed(migration, active)
    /\ ContentIsReadable
    /\ \A w \in Workers : CopyOK(worker[w], migration, Kept, objects)

\* What is shown of each action: the invariant holds again, no young upload loses
\* its row, and a cancelled migration moves nothing.
YoungKeepRows ==
    \A p \in Publishers :
       publisher[p].pc = "enqueue" /\ publisher[p].doc \in young => publisher[p].doc \in rows'
CancelledStays ==
    migration.state \in {"cancel_requested", "cancelled"} /\ migration'.id = migration.id
     => active' = active /\ migration'.state \in {"cancel_requested", "cancelled"}
StepOK == Inv' /\ YoungKeepRows /\ CancelledStays
----------------------------------------------------------------------------
(* Sets of documents.                                                      *)

\* A set of documents that is not empty has a first one.
LEMMA LeastDocument ==
    ASSUME NEW S \in SUBSET Nat, S # {}
    PROVE  \E d \in S : \A e \in S : d <= e
  <1> DEFINE R == OpToRel(<, Nat)
  <1>1. IsWellFoundedOn(R, Nat)
    BY NatLessThanWellFounded, Zenon
  <1>2. \A d, e \in Nat : <<e, d>> \in R <=> e < d
    BY DEF OpToRel
  <1> HIDE DEF R
  <1>3. PICK d \in S : \A e \in S : ~ (<<e, d>> \in R)
    BY <1>1, WFMin
  <1>4. \A e \in S : ~ (e < d)
    BY <1>2, <1>3, Zenon
  <1>5. QED
    BY <1>4

LEMMA FirstIsLeast ==
    ASSUME NEW S \in SUBSET Nat, S # {}
    PROVE  First(S) \in S /\ \A e \in S : First(S) <= e
  <1>1. \E d \in S : \A e \in S : d <= e
    BY LeastDocument
  <1>2. QED
    BY <1>1, Zenon DEF First

\* A batch misses no document between the last one and its own.
LEMMA BatchIsPrefix ==
    ASSUME SourceContentAssumption, rows \subseteq Docs, NEW last \in Nat,
           NEW d \in rows, last < d
    PROVE  \/ d \in NextBatch(last)
           \/ \A t \in NextBatch(last) : t < d
  <1>1. SUFFICES ASSUME NEW t \in NextBatch(last), ~ t < d
                 PROVE  d \in NextBatch(last)
    OBVIOUS
  <1> DEFINE Before(x) == {e \in rows : last < e /\ e < x}
  <1>2. DocCount \in Nat /\ BatchSize \in Nat /\ rows \subseteq Nat
    BY DEF SourceContentAssumption, Docs
  <1>3. t \in rows /\ Cardinality(Before(t)) < BatchSize
    BY DEF NextBatch
  <1>4. Before(d) \subseteq Before(t)
    <2>1. SUFFICES ASSUME NEW e \in rows, last < e, e < d
                   PROVE  e < t
      OBVIOUS
    <2>2. d \in Nat /\ e \in Nat /\ t \in Nat
      BY <1>2, <1>3
    <2>3. QED
      BY <1>1, <2>1, <2>2
  <1>5. IsFiniteSet(Before(t))
    <2>1. IsFiniteSet(Docs)
      BY <1>2, FS_Interval DEF Docs
    <2>2. Before(t) \subseteq Docs
      OBVIOUS
    <2>3. QED
      BY <2>1, <2>2, FS_Subset
  <1>6. /\ Cardinality(Before(d)) <= Cardinality(Before(t))
        /\ Cardinality(Before(d)) \in Nat /\ Cardinality(Before(t)) \in Nat
    BY <1>4, <1>5, FS_Subset, FS_CardinalityType
  <1>7. Cardinality(Before(d)) < BatchSize
    BY <1>2, <1>3, <1>6
  <1>8. QED
    BY <1>7 DEF NextBatch

\* An empty batch means that no document is left.
LEMMA EmptyBatchIsTheEnd ==
    ASSUME SourceContentAssumption, rows \subseteq Docs, NEW last \in Nat,
           NextBatch(last) = {}
    PROVE  \A d \in rows : d <= last
  <1>1. SUFFICES ASSUME NEW x \in rows, ~ x <= last
                 PROVE  FALSE
    OBVIOUS
  <1>2. BatchSize \in Nat \ {0} /\ rows \subseteq Nat
    BY DEF SourceContentAssumption, Docs
  <1> DEFINE S == {d \in rows : last < d}
  <1>3. S \in SUBSET Nat /\ S # {}
    <2>1. S \subseteq Nat
      BY <1>2
    <2>2. x \in Nat /\ last < x
      BY <1>1, <1>2
    <2>3. x \in S
      BY <2>2
    <2>4. QED
      BY <2>1, <2>3
  <1>4. PICK d \in S : \A e \in S : d <= e
    BY <1>3, LeastDocument
  <1>5. {e \in rows : last < e /\ e < d} = {}
    <2>1. SUFFICES ASSUME NEW e \in rows, last < e, e < d
                   PROVE  FALSE
      OBVIOUS
    <2>2. e \in S /\ e \in Nat /\ d \in Nat
      BY <1>2, <2>1
    <2>3. QED
      BY <1>4, <2>1, <2>2
  <1>6. Cardinality({e \in rows : last < e /\ e < d}) = 0
    BY <1>5, FS_EmptySet
  <1>7. d \in NextBatch(last)
    BY <1>2, <1>6 DEF NextBatch
  <1>8. QED
    BY <1>7

LEMMA BatchIsAhead ==
    ASSUME SourceContentAssumption, rows \subseteq Docs, NEW last \in Nat
    PROVE  NextBatch(last) \subseteq Docs /\ \A t \in NextBatch(last) : last < t
  BY DEF NextBatch, Docs
----------------------------------------------------------------------------
(* Records and tables after an update.                                     *)

LEMMA MovedPublisher ==
    ASSUME publisher \in [Publishers -> Uploads], NEW p \in Publishers,
           NEW x \in {"idle", "verify", "commit", "cleanup", "enqueue"}
    PROVE  [publisher EXCEPT ![p].pc = x] \in [Publishers -> Uploads]
  BY Zenon DEF Uploads

LEMMA MovedCleaner ==
    ASSUME cleaner \in [Cleaners -> Cleanups], NEW c \in Cleaners,
           NEW x \in {"idle", "remove", "record"}
    PROVE  [cleaner EXCEPT ![c].pc = x] \in [Cleaners -> Cleanups]
  BY Zenon DEF Cleanups

LEMMA Spent ==
    ASSUME budget \in Budgets
    PROVE  /\ budget.publishes > 0 => [budget EXCEPT !.publishes = @ - 1] \in Budgets
           /\ budget.migrations > 0 => [budget EXCEPT !.migrations = @ - 1] \in Budgets
           /\ budget.faults > 0 => [budget EXCEPT !.faults = @ - 1] \in Budgets
  <1>1. /\ budget.publishes > 0 => budget.publishes - 1 \in Nat
        /\ budget.migrations > 0 => budget.migrations - 1 \in Nat
        /\ budget.faults > 0 => budget.faults - 1 \in Nat
    BY DEF Budgets
  <1>2. QED
    BY <1>1, Zenon DEF Budgets

LEMMA FaultSpends ==
    ASSUME budget \in Budgets, Fault
    PROVE  budget' \in Budgets
  BY Spent DEF Fault

LEMMA PutAndDrop ==
    ASSUME objects \in [Backends -> SUBSET Docs], NEW b \in Backends, NEW d \in Docs
    PROVE  /\ Put(b, d) \in [Backends -> SUBSET Docs]
           /\ Drop(b, d) \in [Backends -> SUBSET Docs]
           /\ d \in Put(b, d)[b]
           /\ \A a \in Backends :
                 objects[a] \subseteq Put(b, d)[a] /\ objects[a] \ {d} \subseteq Drop(b, d)[a]
  BY DEF Put, Drop

\* How a migration looks after an update of its row, which keeps its direction.
SameMigration(m, n) == n.id = m.id /\ n.source = m.source /\ n.target = m.target

LEMMA RenewedMigration ==
    ASSUME migration \in Migrations, NEW s \in States
    PROVE  /\ Renewed(s) \in Migrations /\ SameMigration(migration, Renewed(s))
           /\ Renewed(s).state = s
  <1>1. Renewed(s) \in Migrations
    BY Zenon DEF Renewed, Migrations
  <1>2. QED
    BY <1>1, Zenon DEF Renewed, Migrations, SameMigration

LEMMA EndedMigration ==
    ASSUME migration \in Migrations, NEW s \in States
    PROVE  LET n == [migration EXCEPT !.state = s, !.owner = None, !.expired = TRUE]
           IN  n \in Migrations /\ SameMigration(migration, n) /\ n.state = s
  <1>1. [migration EXCEPT !.state = s, !.owner = None, !.expired = TRUE] \in Migrations
    BY Zenon DEF Migrations
  <1>2. QED
    BY <1>1, Zenon DEF Migrations, SameMigration

LEMMA ReleasedMigration ==
    ASSUME migration \in Migrations
    PROVE  LET n == [migration EXCEPT !.owner = None, !.expired = TRUE]
           IN  n \in Migrations /\ SameMigration(migration, n) /\ n.state = migration.state
  <1>1. [migration EXCEPT !.owner = None, !.expired = TRUE] \in Migrations
    BY Zenon DEF Migrations
  <1>2. QED
    BY <1>1, Zenon DEF Migrations, SameMigration

LEMMA ExpiredMigration ==
    ASSUME migration \in Migrations
    PROVE  LET n == [migration EXCEPT !.expired = TRUE]
           IN  n \in Migrations /\ SameMigration(migration, n) /\ n.state = migration.state
  <1>1. [migration EXCEPT !.expired = TRUE] \in Migrations
    BY Zenon DEF Migrations
  <1>2. QED
    BY <1>1, Zenon DEF Migrations, SameMigration

LEMMA ProgressedMigration ==
    ASSUME migration \in Migrations, NEW d \in Positions
    PROVE  LET n == [migration EXCEPT !.last = d]
           IN  n \in Migrations /\ SameMigration(migration, n) /\ n.state = migration.state
  <1>1. [migration EXCEPT !.last = d] \in Migrations
    BY Zenon DEF Migrations
  <1>2. QED
    BY <1>1, Zenon DEF Migrations, SameMigration

LEMMA ClaimedMigration ==
    ASSUME migration \in Migrations, NEW w \in Workers, NEW s \in States
    PROVE  LET n == [migration EXCEPT !.owner = w, !.expired = FALSE, !.state = s]
           IN  n \in Migrations /\ SameMigration(migration, n) /\ n.state = s
  <1>1. [migration EXCEPT !.owner = w, !.expired = FALSE, !.state = s] \in Migrations
    BY Zenon DEF Migrations
  <1>2. QED
    BY <1>1, Zenon DEF Migrations, SameMigration

LEMMA CancelledMigration ==
    ASSUME migration \in Migrations, NEW s \in States, NEW e \in BOOLEAN
    PROVE  LET n == [migration EXCEPT !.state = s, !.expired = e]
           IN  n \in Migrations /\ SameMigration(migration, n) /\ n.state = s
  <1>1. [migration EXCEPT !.state = s, !.expired = e] \in Migrations
    BY Zenon DEF Migrations
  <1>2. QED
    BY <1>1, Zenon DEF Migrations, SameMigration

\* How the record of a worker looks after an update; the others stay.
OthersStay(w) == \A v \in Workers \ {w} : worker'[v] = worker[v]
SameWork(k, q) == q.id = k.id /\ q.source = k.source /\ q.target = k.target

LEMMA MovedWorker ==
    ASSUME worker \in [Workers -> Copies], NEW w \in Workers, NEW x \in Phases,
           worker' = [worker EXCEPT ![w].pc = x]
    PROVE  /\ worker' \in [Workers -> Copies] /\ OthersStay(w)
           /\ SameWork(worker[w], worker'[w]) /\ worker'[w].pc = x
  <1>1. worker' \in [Workers -> Copies]
    BY Zenon DEF Copies
  <1>2. worker'[w].pc = x /\ SameWork(worker[w], worker'[w])
    BY Zenon DEF Copies, SameWork
  <1>3. QED
    BY <1>1, <1>2 DEF OthersStay

LEMMA PlacedWorker ==
    ASSUME worker \in [Workers -> Copies], NEW w \in Workers, NEW x \in Phases,
           NEW d \in Positions, worker' = [worker EXCEPT ![w].pc = x, ![w].last = d]
    PROVE  /\ worker' \in [Workers -> Copies] /\ OthersStay(w)
           /\ SameWork(worker[w], worker'[w])
           /\ worker'[w].pc = x /\ worker'[w].last = d
  <1>1. worker' \in [Workers -> Copies]
    BY Zenon DEF Copies
  <1>2. /\ worker'[w].pc = x /\ worker'[w].last = d
        /\ SameWork(worker[w], worker'[w])
    BY Zenon DEF Copies, SameWork
  <1>3. QED
    BY <1>1, <1>2 DEF OthersStay

LEMMA LoadedWorker ==
    ASSUME worker \in [Workers -> Copies], NEW w \in Workers, NEW x \in Phases,
           NEW S \in SUBSET Docs, worker' = [worker EXCEPT ![w].todo = S, ![w].pc = x]
    PROVE  /\ worker' \in [Workers -> Copies] /\ OthersStay(w)
           /\ SameWork(worker[w], worker'[w])
           /\ worker'[w].pc = x /\ worker'[w].todo = S /\ worker'[w].last = worker[w].last
  <1>1. worker' \in [Workers -> Copies]
    BY Zenon DEF Copies
  <1>2. /\ worker'[w].pc = x /\ worker'[w].todo = S /\ worker'[w].last = worker[w].last
        /\ SameWork(worker[w], worker'[w])
    BY Zenon DEF Copies, SameWork
  <1>3. QED
    BY <1>1, <1>2 DEF OthersStay

LEMMA AdvancedWorker ==
    ASSUME worker \in [Workers -> Copies], NEW w \in Workers, NEW S \in SUBSET Docs,
           NEW d \in Positions, worker' = [worker EXCEPT ![w].todo = S, ![w].last = d]
    PROVE  /\ worker' \in [Workers -> Copies] /\ OthersStay(w)
           /\ SameWork(worker[w], worker'[w])
           /\ worker'[w].pc = worker[w].pc
           /\ worker'[w].todo = S /\ worker'[w].last = d
  <1>1. worker' \in [Workers -> Copies]
    BY Zenon DEF Copies
  <1>2. /\ worker'[w].pc = worker[w].pc /\ worker'[w].todo = S /\ worker'[w].last = d
        /\ SameWork(worker[w], worker'[w])
    BY Zenon DEF Copies, SameWork
  <1>3. QED
    BY <1>1, <1>2 DEF OthersStay

LEMMA StoppedWorker ==
    ASSUME SourceContentAssumption, worker \in [Workers -> Copies], NEW w \in Workers,
           worker' = [worker EXCEPT ![w] = IdleWorker]
    PROVE  /\ worker' \in [Workers -> Copies] /\ OthersStay(w)
           /\ worker'[w].pc = "idle"
  <1>1. IdleWorker \in Copies /\ IdleWorker.pc = "idle"
    BY DEF IdleWorker, Copies, Phases, Places, Positions, SourceContentAssumption
  <1>2. QED
    BY <1>1 DEF OthersStay
----------------------------------------------------------------------------
(* What a step owes the workers.                                           *)

\* A worker that does not move keeps what it knows, whatever happens to its
\* migration short of another one, and to documents it does not count on.
LEMMA StillOK ==
    ASSUME NEW k \in Copies, NEW m, NEW n, NEW S, NEW T, NEW obj, NEW obk,
           CopyOK(k, m, S, obj), SameMigration(m, n),
           m.state # "none" => n.state # "none",
           T \subseteq S, \A b \in Backends : obj[b] \cap T \subseteq obk[b]
    PROVE  CopyOK(k, n, T, obk)
  <1>1. Engaged(k, n) /\ Aimed(k, n)
    BY DEF CopyOK, Engaged, Aimed, Current, SameMigration
  <1>2. Current(k, n) => Current(k, m) /\ k.target \in Backends
    BY DEF CopyOK, Engaged, Current, SameMigration
  <1>3. Behind(k, n, T, obk)
    BY <1>2 DEF CopyOK, Behind
  <1>4. Ahead(k, n, T)
    BY <1>2 DEF CopyOK, Ahead
  <1>5. Complete(k, n, T, obk)
    BY <1>2 DEF CopyOK, Complete
  <1>6. QED
    BY <1>1, <1>3, <1>4, <1>5 DEF CopyOK

\* Outside the pass before the cut-over a worker owes nothing but its direction.
LEMMA ElsewhereOK ==
    ASSUME NEW k \in Copies, NEW q \in Copies, NEW m, NEW n, NEW S, NEW T, NEW obj, NEW obk,
           CopyOK(k, m, S, obj), k.pc # "idle", SameWork(k, q), SameMigration(m, n),
           m.state # "none" => n.state # "none",
           q.pc \notin {"visit", "recopy", "cutover"}
    PROVE  CopyOK(q, n, T, obk)
  <1>1. Engaged(q, n) /\ Aimed(q, n)
    BY DEF CopyOK, Engaged, Aimed, Current, SameMigration, SameWork
  <1>2. QED
    BY <1>1 DEF CopyOK, Behind, Ahead, Complete

LEMMA IdleOK ==
    ASSUME NEW k, k.pc = "idle", NEW m, NEW S, NEW obj
    PROVE  CopyOK(k, m, S, obj)
  BY DEF CopyOK, Engaged, Aimed, Current, Behind, Ahead, Complete

\* A pass that starts has everything before it.
LEMMA StartsOK ==
    ASSUME NEW k \in Copies, NEW q \in Copies, NEW m, NEW n, NEW S, NEW T, NEW obj, NEW obk,
           CopyOK(k, m, S, obj), k.pc # "idle", SameWork(k, q), SameMigration(m, n),
           m.state # "none" => n.state # "none",
           q.pc = "visit", q.last = 0, T \subseteq Docs
    PROVE  CopyOK(q, n, T, obk)
  <1>1. Engaged(q, n) /\ Aimed(q, n)
    BY DEF CopyOK, Engaged, Aimed, Current, SameMigration, SameWork
  <1>2. \A d \in T : ~ d <= q.last
    BY DEF Docs
  <1>3. QED
    BY <1>1, <1>2 DEF CopyOK, Behind, Ahead, Complete

\* A step that leaves the migration and its workers alone.
LEMMA StoreStep ==
    ASSUME Inv, Typed', active' = active, migration' = migration, worker' = worker,
           rows' \ since' \subseteq rows \ since, young \subseteq rows',
           \A b \in Backends : objects[b] \cap rows' \subseteq objects'[b],
           rows' \subseteq objects'[active]
    PROVE  StepOK
  <1>1. ContentIsReadable'
    BY DEF ContentIsReadable
  <1>2. Directed(migration', active')
    BY DEF Inv
  <1>3. ASSUME NEW w \in Workers
        PROVE  CopyOK(worker'[w], migration', Kept', objects')
    <2>1. worker[w] \in Copies /\ CopyOK(worker[w], migration, Kept, objects)
      BY DEF Inv, Typed
    <2>2. Kept' \subseteq Kept /\ \A b \in Backends : objects[b] \cap Kept' \subseteq objects'[b]
      BY DEF Kept
    <2>3. SameMigration(migration, migration')
      BY DEF SameMigration
    <2>4. CopyOK(worker[w], migration', Kept', objects')
      BY <2>1, <2>2, <2>3, StillOK
    <2>5. QED
      BY <2>4
  <1>4. YoungKeepRows /\ CancelledStays
    BY DEF YoungKeepRows, CancelledStays
  <1>5. QED
    BY <1>1, <1>2, <1>3, <1>4 DEF StepOK, Inv

\* A step on the row of the migration that leaves the rows of the documents, the
\* settings, and every worker but w alone.
LEMMA WorkStep ==
    ASSUME Inv, Typed', NEW w \in Workers,
           active' = active, rows' = rows, young' = young, since' = since,
           \A b \in Backends : objects[b] \subseteq objects'[b],
           SameMigration(migration, migration'),
           migration'.state = "none" <=> migration.state = "none",
           migration'.state \in ActiveStates => migration.state \in ActiveStates,
           migration.state \in {"cancel_requested", "cancelled"} =>
              migration'.state \in {"cancel_requested", "cancelled"},
           OthersStay(w), CopyOK(worker'[w], migration', Kept', objects')
    PROVE  StepOK
  <1>1. ContentIsReadable'
    BY DEF Inv, Typed, ContentIsReadable
  <1>2. Directed(migration', active')
    BY DEF Inv, Directed, SameMigration, ActiveStates
  <1>3. ASSUME NEW v \in Workers
        PROVE  CopyOK(worker'[v], migration', Kept', objects')
    <2>1. CASE v = w
      BY <2>1
    <2>2. CASE v # w
      <3>1. worker[v] \in Copies /\ CopyOK(worker[v], migration, Kept, objects)
        BY DEF Inv, Typed
      <3>2. Kept' \subseteq Kept /\ \A b \in Backends : objects[b] \cap Kept' \subseteq objects'[b]
        BY DEF Kept
      <3>3. CopyOK(worker[v], migration', Kept', objects')
        BY <3>1, <3>2, StillOK
      <3>4. worker'[v] = worker[v]
        BY <2>2 DEF OthersStay
      <3>5. QED
        BY <3>3, <3>4
    <2>3. QED
      BY <2>1, <2>2
  <1>4. YoungKeepRows
    BY DEF YoungKeepRows, Inv, Typed
  <1>5. CancelledStays
    BY DEF CancelledStays
  <1>6. QED
    BY <1>1, <1>2, <1>3, <1>4, <1>5 DEF StepOK, Inv

\* The same when no worker moves.
LEMMA RowStep ==
    ASSUME Inv, Typed', worker' = worker,
           active' = active, rows' = rows, young' = young, since' = since, objects' = objects,
           SameMigration(migration, migration'),
           migration'.state = "none" <=> migration.state = "none",
           migration'.state \in ActiveStates => migration.state \in ActiveStates,
           migration.state \in {"cancel_requested", "cancelled"} =>
              migration'.state \in {"cancel_requested", "cancelled"}
    PROVE  StepOK
  <1>1. ContentIsReadable'
    BY DEF Inv, ContentIsReadable
  <1>2. Directed(migration', active')
    BY DEF Inv, Directed, SameMigration, ActiveStates
  <1>3. ASSUME NEW v \in Workers
        PROVE  CopyOK(worker'[v], migration', Kept', objects')
    <2>1. worker[v] \in Copies /\ CopyOK(worker[v], migration, Kept, objects)
      BY DEF Inv, Typed
    <2>2. Kept' = Kept
      BY DEF Kept
    <2>3. CopyOK(worker[v], migration', Kept', objects')
      BY <2>1, <2>2, StillOK
    <2>4. QED
      BY <2>3
  <1>4. YoungKeepRows
    BY DEF YoungKeepRows, Inv, Typed
  <1>5. CancelledStays
    BY DEF CancelledStays
  <1>6. QED
    BY <1>1, <1>2, <1>3, <1>4, <1>5 DEF StepOK, Inv
----------------------------------------------------------------------------
(* The initial state, and publishers.                                      *)

LEMMA InitInv ==
    ASSUME SourceContentAssumption, Init
    PROVE  Inv
  <1>1. NoMigration \in Migrations /\ NoMigration.state = "none"
    BY DEF NoMigration, Migrations, States, Places, Positions, SourceContentAssumption
  <1>2. [p \in Publishers |-> IdlePublisher] \in [Publishers -> Uploads]
    BY DEF IdlePublisher, Uploads, Docs, SourceContentAssumption
  <1>3. [c \in Cleaners |-> IdleCleaner] \in [Cleaners -> Cleanups]
    BY DEF IdleCleaner, Cleanups, Docs, SourceContentAssumption
  <1>4. IdleWorker \in Copies /\ IdleWorker.pc = "idle"
    BY DEF IdleWorker, Copies, Phases, Places, Positions, SourceContentAssumption
  <1>5. budget \in Budgets
    BY DEF Init, Budgets, SourceContentAssumption
  <1>6. Typed
    BY <1>1, <1>2, <1>3, <1>4, <1>5 DEF Init, Typed, SourceContentAssumption
  <1>7. Directed(migration, active) /\ ContentIsReadable
    BY <1>1 DEF Init, Directed, ContentIsReadable, ActiveStates
  <1>8. \A w \in Workers : CopyOK(worker[w], migration, Kept, objects)
    BY <1>4, IdleOK DEF Init
  <1>9. QED
    BY <1>6, <1>7, <1>8 DEF Inv

LEMMA PublishOK ==
    ASSUME SourceContentAssumption, Inv, NEW p \in Publishers, NEW d \in Docs, Publish(p, d)
    PROVE  StepOK
  <1>1. conf[p] \in Backends
    BY DEF Inv, Typed
  <1>2. objects' = Put(conf[p], d)
    BY DEF Publish
  <1>3. /\ objects' \in [Backends -> SUBSET Docs]
        /\ \A b \in Backends : objects[b] \subseteq objects'[b]
    BY <1>1, <1>2, PutAndDrop DEF Inv, Typed
  <1>4. publisher' \in [Publishers -> Uploads]
    BY DEF Inv, Typed, Publish, Uploads
  <1>5. budget' \in Budgets
    <2>1. budget \in Budgets /\ budget.publishes > 0
      BY DEF Inv, Typed, Publish
    <2>2. budget' = [budget EXCEPT !.publishes = @ - 1]
      BY DEF Publish
    <2>3. QED
      BY <2>1, <2>2, Spent
  <1>6. /\ UNCHANGED <<rows, young, since, referenced, deletions>>
        /\ UNCHANGED <<active, migration, conf, cleaner, worker>>
    BY DEF Publish, PublishUnchanged
  <1>7. Typed'
    BY <1>3, <1>4, <1>5, <1>6 DEF Inv, Typed
  <1>8. QED
    BY <1>3, <1>6, <1>7, StoreStep DEF Inv, Typed, ContentIsReadable

\* Publisher steps that only move their publisher, or give it up.
LEMMA PublisherMovesOK ==
    ASSUME SourceContentAssumption, Inv, NEW p \in Publishers,
           Verify(p) \/ BackendChanged(p) \/ PublisherCrash(p)
    PROVE  StepOK
  <1>1. /\ UNCHANGED <<objects, rows, young, since, referenced, deletions>>
        /\ UNCHANGED <<active, migration, conf, cleaner, worker>>
    BY DEF Verify, BackendChanged, PublisherCrash, PublishUnchanged, documents
  <1>2. publisher' \in [Publishers -> Uploads]
    <2>1. CASE Verify(p)
      BY <2>1, MovedPublisher DEF Inv, Typed, Verify
    <2>2. CASE BackendChanged(p)
      BY <2>2, MovedPublisher DEF Inv, Typed, BackendChanged
    <2>3. CASE PublisherCrash(p)
      BY <2>3 DEF Inv, Typed, PublisherCrash, IdlePublisher, Uploads, Docs, SourceContentAssumption
    <2>4. QED
      BY <2>1, <2>2, <2>3
  <1>3. budget' \in Budgets
    BY FaultSpends DEF Inv, Typed, Verify, BackendChanged, PublisherCrash
  <1>4. Typed'
    BY <1>1, <1>2, <1>3 DEF Inv, Typed
  <1>5. QED
    BY <1>1, <1>4, StoreStep DEF Inv, Typed, ContentIsReadable

LEMMA CommitPublishOK ==
    ASSUME SourceContentAssumption, Inv, NEW p \in Publishers, CommitPublish(p)
    PROVE  StepOK
  <1>1. publisher[p] \in Uploads /\ publisher[p].doc \in Docs
    BY DEF Inv, Typed, Uploads
  <1> DEFINE d == publisher[p].doc
  <1>2. /\ rows' = rows \cup {d} /\ young' = young \cup {d} /\ since' = since \cup {d}
        /\ deletions' = deletions \ {d} /\ d \in objects[active]
        /\ UNCHANGED <<objects, referenced, budget>>
        /\ UNCHANGED <<active, migration, conf, cleaner, worker>>
    BY DEF CommitPublish, PublishUnchanged, Present
  <1>3. publisher' \in [Publishers -> Uploads]
    BY MovedPublisher DEF Inv, Typed, CommitPublish
  <1>4. Typed'
    BY <1>1, <1>2, <1>3 DEF Inv, Typed
  <1>5. QED
    BY <1>2, <1>4, StoreStep DEF Inv, Typed, ContentIsReadable

LEMMA RepeatPublishOK ==
    ASSUME SourceContentAssumption, Inv, NEW p \in Publishers, RepeatPublish(p)
    PROVE  StepOK
  <1>1. publisher[p].doc \in Docs /\ conf[p] \in Backends
    BY DEF Inv, Typed, Uploads
  <1>2. /\ UNCHANGED <<rows, young, since, referenced, deletions, budget>>
        /\ UNCHANGED <<active, migration, conf, cleaner, worker>>
    BY DEF RepeatPublish, PublishUnchanged
  <1>3. /\ objects' \in [Backends -> SUBSET Docs]
        /\ \A b \in Backends : objects[b] \subseteq objects'[b]
    BY <1>1, PutAndDrop DEF Inv, Typed, RepeatPublish
  <1>4. publisher' \in [Publishers -> Uploads]
    <2>1. IdlePublisher \in Uploads
      BY DEF IdlePublisher, Uploads, Docs, SourceContentAssumption
    <2>2. [pc |-> "verify", doc |-> publisher[p].doc, attempt |-> 1] \in Uploads
      BY <1>1 DEF Uploads
    <2>3. QED
      BY <2>1, <2>2 DEF Inv, Typed, RepeatPublish
  <1>5. Typed'
    BY <1>2, <1>3, <1>4 DEF Inv, Typed
  <1>6. QED
    BY <1>2, <1>3, <1>5, StoreStep DEF Inv, Typed, ContentIsReadable

LEMMA RemoveUnpublishedOK ==
    ASSUME SourceContentAssumption, Inv, NEW p \in Publishers, RemoveUnpublishedContent(p)
    PROVE  StepOK
  <1>1. publisher[p].doc \in Docs /\ conf[p] \in Backends
    BY DEF Inv, Typed, Uploads
  <1>2. /\ UNCHANGED <<rows, young, since, referenced, deletions, budget>>
        /\ UNCHANGED <<active, migration, conf, cleaner, worker>>
    BY DEF RemoveUnpublishedContent, PublishUnchanged
  <1>3. /\ objects' \in [Backends -> SUBSET Docs]
        /\ \A b \in Backends : objects[b] \cap rows \subseteq objects'[b]
    BY <1>1, PutAndDrop DEF Inv, Typed, RemoveUnpublishedContent
  <1>4. publisher' \in [Publishers -> Uploads]
    BY DEF Inv, Typed, RemoveUnpublishedContent, IdlePublisher, Uploads, Docs,
           SourceContentAssumption
  <1>5. Typed'
    BY <1>2, <1>3, <1>4 DEF Inv, Typed
  <1>6. QED
    BY <1>2, <1>3, <1>5, StoreStep DEF Inv, Typed, ContentIsReadable

LEMMA EnqueueOK ==
    ASSUME SourceContentAssumption, Inv, NEW p \in Publishers, Enqueue(p)
    PROVE  StepOK
  <1>1. /\ UNCHANGED <<objects, rows, young, since, deletions, budget>>
        /\ UNCHANGED <<active, migration, conf, cleaner, worker>>
        /\ referenced' \subseteq referenced \cup rows
    BY DEF Enqueue, PublishUnchanged
  <1>2. publisher' \in [Publishers -> Uploads]
    BY DEF Inv, Typed, Enqueue, IdlePublisher, Uploads, Docs, SourceContentAssumption
  <1>3. Typed'
    BY <1>1, <1>2 DEF Inv, Typed
  <1>4. QED
    BY <1>1, <1>3, StoreStep DEF Inv, Typed, ContentIsReadable
----------------------------------------------------------------------------
(* Cleaners, time, and restarts.                                           *)

LEMMA ReferencesOK ==
    ASSUME SourceContentAssumption, Inv, NEW d \in Docs,
           ReleaseReference(d) \/ GrowOld(d) \/ QueueAbandonedContent
    PROVE  StepOK
  <1>1. /\ UNCHANGED <<objects, rows, since, budget, cleaner>>
        /\ UNCHANGED <<active, migration, conf, publisher, worker>>
    BY DEF ReleaseReference, GrowOld, QueueAbandonedContent, CleanUnchanged
  <1>2. /\ young' \subseteq young /\ referenced' \subseteq referenced
        /\ deletions' \subseteq Docs
    BY DEF Inv, Typed, ReleaseReference, GrowOld, QueueAbandonedContent
  <1>3. Typed'
    BY <1>1, <1>2 DEF Inv, Typed
  <1>4. QED
    BY <1>1, <1>3, StoreStep DEF Inv, Typed, ContentIsReadable

LEMMA PrepareDeletionOK ==
    ASSUME SourceContentAssumption, Inv, NEW c \in Cleaners, NEW d \in Docs,
           PrepareDeletion(c, d)
    PROVE  StepOK
  <1>1. /\ UNCHANGED <<objects, referenced, budget>>
        /\ UNCHANGED <<active, migration, conf, publisher, worker>>
    BY DEF PrepareDeletion, CleanUnchanged
  <1>2. CASE d \in referenced
    <2>1. deletions' \subseteq Docs /\ UNCHANGED <<rows, young, since, cleaner>>
      BY <1>2 DEF Inv, Typed, PrepareDeletion
    <2>2. Typed'
      BY <1>1, <2>1 DEF Inv, Typed
    <2>3. QED
      BY <1>1, <2>1, <2>2, StoreStep DEF Inv, Typed, ContentIsReadable
  <1>3. CASE d \notin referenced
    <2>1. /\ rows' = rows \ {d} /\ young' = young \ {d} /\ since' = since \ {d}
          /\ UNCHANGED deletions /\ d \notin young
          /\ cleaner' = [cleaner EXCEPT ![c] = [pc |-> "remove", doc |-> d]]
      BY <1>3 DEF PrepareDeletion
    <2>2. cleaner' \in [Cleaners -> Cleanups]
      BY <2>1 DEF Inv, Typed, Cleanups
    <2>3. Typed'
      BY <1>1, <1>3, <2>1, <2>2 DEF Inv, Typed
    <2>4. /\ rows' \subseteq rows /\ young \subseteq rows'
          /\ rows' \ since' \subseteq rows \ since
      BY <2>1 DEF Inv, Typed
    <2>5. QED
      BY <1>1, <2>3, <2>4, StoreStep DEF Inv, Typed, ContentIsReadable
  <1>4. QED
    BY <1>2, <1>3

LEMMA RemoveContentOK ==
    ASSUME SourceContentAssumption, Inv, NEW c \in Cleaners, RemoveContent(c)
    PROVE  StepOK
  <1>1. cleaner[c].doc \in Docs /\ conf[c] \in Backends
    BY DEF Inv, Typed, Cleanups
  <1>2. /\ UNCHANGED <<rows, young, since, referenced>>
        /\ UNCHANGED <<active, migration, conf, publisher, worker>>
        /\ deletions' \subseteq deletions
    BY DEF RemoveContent, CleanUnchanged
  <1>3. /\ objects' \in [Backends -> SUBSET Docs]
        /\ \A b \in Backends : objects[b] \cap rows \subseteq objects'[b]
    BY <1>1, PutAndDrop DEF Inv, Typed, RemoveContent
  <1>4. cleaner' \in [Cleaners -> Cleanups]
    <2>1. IdleCleaner \in Cleanups
      BY DEF IdleCleaner, Cleanups, Docs, SourceContentAssumption
    <2>2. QED
      BY <2>1, MovedCleaner DEF Inv, Typed, RemoveContent
  <1>5. budget' \in Budgets
    BY FaultSpends DEF Inv, Typed, RemoveContent
  <1>6. Typed'
    BY <1>2, <1>3, <1>4, <1>5 DEF Inv, Typed
  <1>7. QED
    BY <1>2, <1>3, <1>6, StoreStep DEF Inv, Typed, ContentIsReadable

\* Cleaner steps that leave the objects alone, or remove one without a row.
LEMMA CleanerMovesOK ==
    ASSUME SourceContentAssumption, Inv, NEW c \in Cleaners, NEW d \in Docs,
           \/ DeletionRefused(c) \/ RecordDeletionFailure(c)
           \/ CleanerCrash(c) \/ RemoveOrphan(c, d)
    PROVE  StepOK
  <1>1. /\ UNCHANGED <<rows, young, since, referenced, deletions>>
        /\ UNCHANGED <<active, migration, conf, publisher, worker>>
    BY DEF DeletionRefused, RecordDeletionFailure, CleanerCrash, RemoveOrphan,
           CleanUnchanged, documents
  <1>2. /\ objects' \in [Backends -> SUBSET Docs]
        /\ \A b \in Backends : objects[b] \cap rows \subseteq objects'[b]
    <2>1. CASE RemoveOrphan(c, d)
      <3>1. conf[c] \in Backends /\ objects' = Drop(conf[c], d) /\ d \notin rows
        BY <2>1 DEF Inv, Typed, RemoveOrphan
      <3>2. QED
        BY <3>1, PutAndDrop DEF Inv, Typed
    <2>2. CASE ~ RemoveOrphan(c, d)
      BY <2>2 DEF Inv, Typed, DeletionRefused, RecordDeletionFailure, CleanerCrash, documents
    <2>3. QED
      BY <2>1, <2>2
  <1>3. cleaner' \in [Cleaners -> Cleanups]
    <2>1. IdleCleaner \in Cleanups
      BY DEF IdleCleaner, Cleanups, Docs, SourceContentAssumption
    <2>2. QED
      BY <2>1, MovedCleaner DEF Inv, Typed, DeletionRefused, RecordDeletionFailure,
           CleanerCrash, RemoveOrphan
  <1>4. budget' \in Budgets
    BY FaultSpends DEF Inv, Typed, DeletionRefused, RecordDeletionFailure,
           CleanerCrash, RemoveOrphan
  <1>5. Typed'
    BY <1>1, <1>2, <1>3, <1>4 DEF Inv, Typed
  <1>6. QED
    BY <1>1, <1>2, <1>5, StoreStep DEF Inv, Typed, ContentIsReadable

LEMMA RestartOK ==
    ASSUME SourceContentAssumption, Inv, NEW q \in Publishers \cup Cleaners, Restart(q)
    PROVE  StepOK
  <1>1. UNCHANGED <<documents, active, migration, publisher, cleaner, worker, budget>>
    BY DEF Restart
  <1>2. conf' \in [Publishers \cup Cleaners -> Backends]
    BY DEF Inv, Typed, Restart
  <1>3. Typed'
    BY <1>1, <1>2 DEF Inv, Typed, documents
  <1>4. QED
    BY <1>1, <1>3, StoreStep DEF Inv, Typed, ContentIsReadable, documents
----------------------------------------------------------------------------
(* The row of the migration.                                               *)

LEMMA QueueMigrationOK ==
    ASSUME SourceContentAssumption, Inv, NEW b \in Backends, QueueMigration(b)
    PROVE  StepOK
  <1>1. /\ UNCHANGED <<objects, active, worker>> /\ UNCHANGED <<conf, publisher, cleaner>>
        /\ UNCHANGED <<rows, young, referenced, deletions>> /\ since' = {}
    BY DEF QueueMigration, RowsUnchanged, MigrationUnchanged
  <1>2. migration' = [state |-> "queued", source |-> active, target |-> b,
                      owner |-> None, expired |-> TRUE, last |-> 0,
                      id |-> migration.id + 1]
    BY DEF QueueMigration
  <1>3. migration.id \in Nat /\ migration.id + 1 \in Nat
    BY DEF Inv, Typed, Migrations
  <1>4. 0 \in Positions
    BY DEF Positions, SourceContentAssumption
  <1>5. migration' \in Migrations
    BY <1>2, <1>3, <1>4 DEF Inv, Typed, Migrations, States, ActiveStates, Places
  <1>6. budget' \in Budgets
    <2>1. budget \in Budgets /\ budget.migrations > 0
      BY DEF Inv, Typed, QueueMigration
    <2>2. budget' = [budget EXCEPT !.migrations = @ - 1]
      BY DEF QueueMigration
    <2>3. QED
      BY <2>1, <2>2, Spent
  <1>7. Typed'
    BY <1>1, <1>5, <1>6 DEF Inv, Typed
  <1>8. Directed(migration', active') /\ ContentIsReadable'
    BY <1>1, <1>2 DEF Inv, Typed, Directed, ContentIsReadable
  <1>9. ASSUME NEW w \in Workers
        PROVE  CopyOK(worker'[w], migration', Kept', objects')
    <2>1. worker[w] \in Copies /\ Engaged(worker[w], migration)
      BY DEF Inv, Typed, CopyOK
    <2>2. worker[w].id \in Nat
      BY <2>1 DEF Copies
    <2>3. Engaged(worker[w], migration') /\ ~ Current(worker[w], migration')
      BY <1>2, <1>3, <2>1, <2>2 DEF Engaged, Current
    <2>4. QED
      BY <1>1, <2>3 DEF CopyOK, Aimed, Behind, Ahead, Complete
  <1>10. YoungKeepRows
    BY <1>1 DEF YoungKeepRows, Inv, Typed
  <1>11. CancelledStays
    BY <1>2, <1>3 DEF CancelledStays
  <1>12. QED
    BY <1>7, <1>8, <1>9, <1>10, <1>11 DEF StepOK, Inv

LEMMA RequestCancellationOK ==
    ASSUME SourceContentAssumption, Inv, RequestCancellation
    PROVE  StepOK
  <1>1. /\ UNCHANGED <<documents, active, worker, budget>> /\ UNCHANGED <<conf, publisher, cleaner>>
        /\ migration.state \in ActiveStates \ {"cutover", "cancel_requested"}
    BY DEF RequestCancellation, MigrationUnchanged
  <1> DEFINE s == IF migration.owner = None THEN "cancelled" ELSE "cancel_requested"
             e == migration.expired \/ migration.owner = None
  <1>2. migration \in Migrations /\ s \in States /\ e \in BOOLEAN
    BY DEF Inv, Typed, Migrations, States, ActiveStates, FinalStates
  <1>3. migration' = [migration EXCEPT !.state = s, !.expired = e]
    BY DEF RequestCancellation
  <1>4. s \in {"cancelled", "cancel_requested"}
    OBVIOUS
  <1> HIDE DEF s, e
  <1>5. migration' \in Migrations /\ SameMigration(migration, migration') /\ migration'.state = s
    BY <1>2, <1>3, CancelledMigration
  <1>6. Typed'
    BY <1>1, <1>5 DEF Inv, Typed, documents
  <1>7. QED
    BY <1>1, <1>4, <1>5, <1>6, RowStep DEF documents, ActiveStates

LEMMA LeaseExpiresOK ==
    ASSUME SourceContentAssumption, Inv, LeaseExpires
    PROVE  StepOK
  <1>1. /\ UNCHANGED <<documents, active, worker>> /\ UNCHANGED <<conf, publisher, cleaner>>
        /\ migration' = [migration EXCEPT !.expired = TRUE]
    BY DEF LeaseExpires, MigrationUnchanged
  <1>2. migration \in Migrations
    BY DEF Inv, Typed
  <1>3. /\ migration' \in Migrations /\ SameMigration(migration, migration')
        /\ migration'.state = migration.state
    BY <1>1, <1>2, ExpiredMigration
  <1>4. budget' \in Budgets
    BY FaultSpends DEF Inv, Typed, LeaseExpires
  <1>5. Typed'
    BY <1>1, <1>3, <1>4 DEF Inv, Typed, documents
  <1>6. QED
    BY <1>1, <1>3, <1>5, RowStep DEF documents
----------------------------------------------------------------------------
(* Workers.                                                                *)

\* What the steps of the workers read.
LEMMA WorkerTyped ==
    ASSUME SourceContentAssumption, Inv, NEW w \in Workers
    PROVE  /\ worker \in [Workers -> Copies] /\ worker[w] \in Copies
           /\ CopyOK(worker[w], migration, Kept, objects)
           /\ migration \in Migrations
           /\ worker[w].last \in Positions /\ worker[w].todo \subseteq Docs
           /\ Positions \subseteq Nat /\ Docs \subseteq Positions /\ 0 \in Positions
           /\ rows \subseteq Docs
  BY DEF Inv, Typed, Copies, Positions, Docs, SourceContentAssumption

\* A worker that goes somewhere else than into the pass before the cut-over, while
\* the row of the migration changes in a way that keeps its direction.
LEMMA WorkerMoves ==
    ASSUME SourceContentAssumption, Inv, NEW w \in Workers,
           UNCHANGED <<documents, active>>, MigrationUnchanged, budget' \in Budgets,
           worker[w].pc # "idle", NEW x \in Phases \ {"visit", "recopy", "cutover"},
           \/ worker' = [worker EXCEPT ![w].pc = x]
           \/ \E S \in SUBSET Docs : worker' = [worker EXCEPT ![w].todo = S, ![w].pc = x]
           \/ worker' = [worker EXCEPT ![w] = IdleWorker] /\ x = "idle",
           migration' \in Migrations, SameMigration(migration, migration'),
           migration'.state = "none" <=> migration.state = "none",
           migration'.state \in ActiveStates => migration.state \in ActiveStates,
           migration.state \in {"cancel_requested", "cancelled"} =>
              migration'.state \in {"cancel_requested", "cancelled"}
    PROVE  StepOK
  <1>1. /\ worker \in [Workers -> Copies] /\ worker[w] \in Copies
        /\ CopyOK(worker[w], migration, Kept, objects)
    BY WorkerTyped
  <1>2. /\ UNCHANGED <<objects, rows, young, since, referenced, deletions>>
        /\ UNCHANGED <<active, conf, publisher, cleaner>>
    BY DEF MigrationUnchanged, documents
  <1>3. /\ worker' \in [Workers -> Copies] /\ OthersStay(w) /\ worker'[w].pc = x
        /\ x # "idle" => SameWork(worker[w], worker'[w])
    BY <1>1, MovedWorker, LoadedWorker, StoppedWorker
  <1>4. Typed'
    BY <1>2, <1>3 DEF Inv, Typed
  <1>5. CopyOK(worker'[w], migration', Kept', objects')
    <2>1. CASE x = "idle"
      BY <1>3, <2>1, IdleOK
    <2>2. CASE x # "idle"
      <3>1. worker'[w] \in Copies
        BY <1>3
      <3>2. QED
        BY <1>1, <1>3, <2>2, <3>1, ElsewhereOK
    <2>3. QED
      BY <2>1, <2>2
  <1>6. QED
    BY <1>2, <1>3, <1>4, <1>5, WorkStep

LEMMA SameMigrationIsSame ==
    ASSUME NEW m
    PROVE  SameMigration(m, m)
  BY DEF SameMigration

LEMMA WorkKeeps ==
    ASSUME Inv, WorkUnchanged
    PROVE  /\ UNCHANGED <<documents, active>> /\ MigrationUnchanged /\ budget' \in Budgets
           /\ UNCHANGED <<objects, rows, young, since, referenced, deletions>>
           /\ UNCHANGED <<conf, publisher, cleaner>>
  BY DEF Inv, Typed, WorkUnchanged, MigrationUnchanged, documents

LEMMA ClaimOK ==
    ASSUME SourceContentAssumption, Inv, NEW w \in Workers, Claim(w)
    PROVE  StepOK
  <1> DEFINE s == IF migration.state = "queued" THEN "validating" ELSE migration.state
             x == IF migration.state = "cancel_requested" THEN "settle" ELSE "start"
  <1>1. WorkUnchanged /\ migration.state \in ActiveStates
    BY DEF Claim, WorkUnchanged
  <1>2. /\ UNCHANGED <<objects, rows, young, since, referenced, deletions>>
        /\ UNCHANGED <<active, conf, publisher, cleaner>> /\ budget' \in Budgets
    BY <1>1, WorkKeeps
  <1>3. migration \in Migrations /\ Directed(migration, active)
    BY DEF Inv, Typed
  <1>4. s \in ActiveStates /\ s \in States /\ x \in {"settle", "start"}
    BY <1>1 DEF ActiveStates, States
  <1>5. migration' = [migration EXCEPT !.owner = w, !.expired = FALSE, !.state = s]
    BY DEF Claim
  <1>6. /\ worker' = [worker EXCEPT ![w] =
             [pc |-> x, id |-> migration.id, source |-> migration.source,
              target |-> migration.target, last |-> migration.last, todo |-> {}]]
    BY DEF Claim
  <1>7. migration.state = "cancel_requested" => s = "cancel_requested"
    OBVIOUS
  <1> HIDE DEF s, x
  <1>8. migration' \in Migrations /\ SameMigration(migration, migration') /\ migration'.state = s
    BY <1>3, <1>4, <1>5, ClaimedMigration
  <1> DEFINE k == [pc |-> x, id |-> migration.id, source |-> migration.source,
                   target |-> migration.target, last |-> migration.last, todo |-> {}]
  <1>9. k \in Copies
    BY <1>3, <1>4 DEF Copies, Migrations, Phases
  <1>10. worker' \in [Workers -> Copies] /\ worker'[w] = k /\ OthersStay(w)
    BY <1>6, <1>9, WorkerTyped DEF OthersStay
  <1>11. CopyOK(k, migration', Kept', objects')
    <2>1. Engaged(k, migration') /\ Aimed(k, migration')
      BY <1>1, <1>3, <1>4, <1>8
         DEF Engaged, Aimed, SameMigration, Directed, ActiveStates, Migrations
    <2>2. k.pc \notin {"visit", "recopy", "cutover"}
      BY <1>4
    <2>3. QED
      BY <2>1, <2>2 DEF CopyOK, Behind, Ahead, Complete
  <1>12. Typed'
    BY <1>2, <1>8, <1>10 DEF Inv, Typed
  <1>13. migration.state # "none" /\ migration'.state # "none" /\ migration.state # "cancelled"
    BY <1>1, <1>4, <1>8 DEF ActiveStates
  <1>14. QED
    BY <1>1, <1>2, <1>4, <1>7, <1>8, <1>10, <1>11, <1>12, <1>13, WorkStep

LEMMA StartVisitOK ==
    ASSUME SourceContentAssumption, Inv, NEW w \in Workers, WorkUnchanged,
           worker[w].pc # "idle", migration.state \in {"copying", "cutover"},
           migration' = Renewed("cutover"),
           worker' = [worker EXCEPT ![w].pc = "visit", ![w].last = 0]
    PROVE  StepOK
  <1>1. /\ worker \in [Workers -> Copies] /\ worker[w] \in Copies
        /\ CopyOK(worker[w], migration, Kept, objects)
        /\ migration \in Migrations /\ 0 \in Positions /\ rows \subseteq Docs
    BY WorkerTyped
  <1>2. /\ UNCHANGED <<objects, rows, young, since, referenced, deletions>>
        /\ UNCHANGED <<active, conf, publisher, cleaner>> /\ budget' \in Budgets
    BY WorkKeeps DEF WorkUnchanged
  <1>3. /\ migration' \in Migrations /\ SameMigration(migration, migration')
        /\ migration'.state = "cutover"
    BY <1>1, RenewedMigration DEF States, ActiveStates
  <1>4. /\ worker' \in [Workers -> Copies] /\ OthersStay(w)
        /\ SameWork(worker[w], worker'[w])
        /\ worker'[w].pc = "visit" /\ worker'[w].last = 0
    BY <1>1, PlacedWorker DEF Phases
  <1>5. worker'[w] \in Copies /\ Kept' \subseteq Docs
    BY <1>1, <1>2, <1>4 DEF Kept
  <1>6. CopyOK(worker'[w], migration', Kept', objects')
    BY <1>1, <1>3, <1>4, <1>5, StartsOK
  <1>7. Typed'
    BY <1>2, <1>3, <1>4 DEF Inv, Typed
  <1>8. QED
    BY <1>2, <1>3, <1>4, <1>6, <1>7, WorkStep DEF ActiveStates

LEMMA ValidateOK ==
    ASSUME SourceContentAssumption, Inv, NEW w \in Workers, Validate(w)
    PROVE  StepOK
  <1>1. worker[w].pc = "start" /\ WorkUnchanged /\ migration \in Migrations
    BY DEF Validate, Inv, Typed
  <1>2. CASE Expects(w, {"validating", "copying"}) /\ migration' = Renewed("copying") /\ GoTo(w, "batch")
    <2>1. /\ migration' \in Migrations /\ SameMigration(migration, migration')
          /\ migration'.state = "copying"
      BY <1>1, <1>2, RenewedMigration DEF States, ActiveStates
    <2>2. migration.state \in {"validating", "copying"}
      BY <1>2 DEF Expects
    <2>3. QED
      BY <1>1, <1>2, <2>1, <2>2, WorkKeeps, WorkerMoves DEF GoTo, Phases, ActiveStates
  <1>3. CASE /\ Expects(w, {"cutover"}) /\ migration' = Renewed("cutover")
             /\ worker' = [worker EXCEPT ![w].pc = "visit", ![w].last = 0]
    BY <1>1, <1>3, StartVisitOK DEF Expects
  <1>4. CASE GoTo(w, "error") /\ UNCHANGED migration
    BY <1>1, <1>4, WorkKeeps, WorkerMoves, SameMigrationIsSame DEF GoTo, Phases
  <1>5. QED
    BY <1>2, <1>3, <1>4 DEF Validate

LEMMA ReadBatchOK ==
    ASSUME SourceContentAssumption, Inv, NEW w \in Workers, ReadBatch(w)
    PROVE  StepOK
  <1>1. worker[w].pc = "batch" /\ WorkUnchanged /\ migration \in Migrations
    BY DEF ReadBatch, Inv, Typed
  <1>2. CASE GoTo(w, "error") /\ UNCHANGED migration
    BY <1>1, <1>2, WorkKeeps, WorkerMoves, SameMigrationIsSame DEF GoTo, Phases
  <1>3. CASE /\ Expects(w, {"cancel_requested"}) /\ GoTo(w, "settle")
             /\ migration' = Renewed("cancel_requested")
    <2>1. /\ migration' \in Migrations /\ SameMigration(migration, migration')
          /\ migration'.state = "cancel_requested" /\ migration.state = "cancel_requested"
      BY <1>1, <1>3, RenewedMigration DEF States, ActiveStates, Expects
    <2>2. QED
      BY <1>1, <1>3, <2>1, WorkKeeps, WorkerMoves DEF GoTo, Phases
  <1>4. CASE /\ Expects(w, {"copying"})
             /\ migration' = Renewed("copying")
             /\ worker' = [worker EXCEPT ![w].todo = NextBatch(worker[w].last),
                  ![w].pc = IF NextBatch(worker[w].last) = {} THEN "begin" ELSE "copy"]
    <2>1. /\ migration' \in Migrations /\ SameMigration(migration, migration')
          /\ migration'.state = "copying" /\ migration.state = "copying"
      BY <1>1, <1>4, RenewedMigration DEF States, ActiveStates, Expects
    <2> DEFINE S == NextBatch(worker[w].last)
               x == IF S = {} THEN "begin" ELSE "copy"
    <2>2. S \in SUBSET Docs /\ x \in {"begin", "copy"}
      BY WorkerTyped DEF NextBatch
    <2>3. worker' = [worker EXCEPT ![w].todo = S, ![w].pc = x]
      BY <1>4
    <2> HIDE DEF S, x
    <2>4. x \in Phases \ {"visit", "recopy", "cutover"}
      BY <2>2 DEF Phases
    <2>5. QED
      BY <1>1, <2>1, <2>2, <2>3, <2>4, WorkKeeps, WorkerMoves
  <1>5. QED
    BY <1>2, <1>3, <1>4 DEF ReadBatch

LEMMA SaveCopyProgressOK ==
    ASSUME SourceContentAssumption, Inv, NEW w \in Workers, SaveCopyProgress(w)
    PROVE  StepOK
  <1>1. worker[w].pc = "copy" /\ WorkUnchanged /\ migration \in Migrations
    BY DEF SaveCopyProgress, Inv, Typed
  <1>2. CASE migration' = [migration EXCEPT !.last = worker[w].last] /\ GoTo(w, "batch")
    <2>1. /\ migration' \in Migrations /\ SameMigration(migration, migration')
          /\ migration'.state = migration.state
      BY <1>1, <1>2, WorkerTyped, ProgressedMigration
    <2>2. QED
      BY <1>1, <1>2, <2>1, WorkKeeps, WorkerMoves DEF GoTo, Phases
  <1>3. CASE GoTo(w, "error") /\ UNCHANGED migration
    BY <1>1, <1>3, WorkKeeps, WorkerMoves, SameMigrationIsSame DEF GoTo, Phases
  <1>4. QED
    BY <1>2, <1>3 DEF SaveCopyProgress

LEMMA BeginCutoverOK ==
    ASSUME SourceContentAssumption, Inv, NEW w \in Workers, BeginCutover(w)
    PROVE  StepOK
  <1>1. worker[w].pc = "begin" /\ WorkUnchanged
    BY DEF BeginCutover
  <1>2. CASE GoTo(w, "error") /\ UNCHANGED migration
    BY <1>1, <1>2, WorkKeeps, WorkerMoves, SameMigrationIsSame DEF GoTo, Phases, Inv, Typed
  <1>3. CASE ~ (GoTo(w, "error") /\ UNCHANGED migration)
    BY <1>1, <1>3, StartVisitOK DEF BeginCutover, Expects
  <1>4. QED
    BY <1>2, <1>3

\* In the pass before the cut-over the first document of the batch is put in place:
\* it and what comes before it are behind, the rest of the batch is ahead.
LEMMA CopyDocumentOK ==
    ASSUME SourceContentAssumption, Inv, NEW w \in Workers, CopyDocument(w)
    PROVE  StepOK
  <1> DEFINE k == worker[w]
             d == First(k.todo)
  <1>1. /\ worker \in [Workers -> Copies] /\ k \in Copies
        /\ CopyOK(k, migration, Kept, objects)
        /\ k.last \in Nat /\ k.todo \subseteq Docs
        /\ Docs \subseteq Positions /\ Docs \subseteq Nat /\ rows \subseteq Docs
    BY WorkerTyped DEF Docs
  <1>2. k.pc \in {"copy", "recopy"} /\ k.todo # {}
    BY DEF CopyDocument
  <1>3. /\ UNCHANGED <<active, migration, conf, publisher, cleaner>>
        /\ UNCHANGED <<rows, young, since, referenced, deletions>>
    BY DEF CopyDocument, RowsUnchanged, MigrationUnchanged
  <1>4. d \in k.todo /\ (\A e \in k.todo : d <= e) /\ d \in Docs /\ d \in Nat
    BY <1>1, <1>2, FirstIsLeast
  <1>5. k.source \in Backends /\ k.target \in Backends
    BY <1>1, <1>2 DEF CopyOK, Engaged
  <1>6. /\ Put(k.target, d) \in [Backends -> SUBSET Docs] /\ d \in Put(k.target, d)[k.target]
        /\ \A b \in Backends : objects[b] \subseteq Put(k.target, d)[b]
    BY <1>4, <1>5, PutAndDrop DEF Inv, Typed
  <1>7. /\ objects' \in [Backends -> SUBSET Docs]
        /\ \A b \in Backends : objects[b] \subseteq objects'[b]
    BY <1>6 DEF CopyDocument, Inv, Typed
  <1>8. budget' \in Budgets
    BY FaultSpends DEF CopyDocument, Inv, Typed
  <1>9. Kept' = Kept
    BY <1>3 DEF Kept
  <1>10. CASE GoTo(w, "error")
    <2>1. /\ worker' \in [Workers -> Copies] /\ OthersStay(w)
          /\ SameWork(k, worker'[w]) /\ worker'[w].pc = "error"
      BY <1>1, <1>10, MovedWorker DEF GoTo, Phases
    <2>2. CopyOK(worker'[w], migration', Kept', objects')
      <3>1. worker'[w] \in Copies
        BY <2>1
      <3>2. QED
        BY <1>1, <1>2, <1>3, <2>1, <3>1, SameMigrationIsSame, ElsewhereOK
    <2>3. Typed'
      BY <1>3, <1>7, <1>8, <2>1 DEF Inv, Typed
    <2>4. QED
      BY <1>3, <1>7, <2>1, <2>2, <2>3, SameMigrationIsSame, WorkStep
  <1>11. CASE /\ objects' = Put(k.target, d)
              /\ worker' = [worker EXCEPT ![w].todo = k.todo \ {d}, ![w].last = d]
    <2> DEFINE q == worker'[w]
    <2>1. k.todo \ {d} \in SUBSET Docs /\ d \in Positions
      BY <1>1, <1>4
    <2>2. /\ worker' \in [Workers -> Copies] /\ OthersStay(w) /\ SameWork(k, q)
          /\ q.pc = k.pc /\ q.todo = k.todo \ {d} /\ q.last = d
      BY <1>1, <1>11, <2>1, AdvancedWorker, Zenon
    <2>3. q \in Copies
      BY <2>2
    <2>4. CopyOK(q, migration', Kept', objects')
      <3>1. CASE k.pc = "copy"
        BY <1>1, <1>3, <2>2, <2>3, <3>1, SameMigrationIsSame, ElsewhereOK
      <3>2. CASE k.pc = "recopy"
        <4>1. Engaged(q, migration') /\ Aimed(q, migration')
          BY <1>1, <1>3, <2>2, <3>2 DEF CopyOK, Engaged, Aimed, Current, SameWork
        <4>2. SUFFICES ASSUME Current(q, migration')
                       PROVE  /\ \A e \in Kept : e <= d => e \in objects'[q.target]
                              /\ \A t \in q.todo : d < t
                              /\ \A e \in Kept :
                                    d < e => e \in q.todo \/ \A t \in q.todo : t < e
          BY <1>9, <2>2, <3>2, <4>1 DEF CopyOK, Behind, Ahead, Complete
        <4>3. Current(k, migration)
          BY <1>3, <2>2, <3>2, <4>2 DEF Current, SameWork
        <4>4. /\ \A e \in Kept : e <= k.last => e \in objects[k.target]
              /\ \A t \in k.todo : k.last < t
              /\ \A e \in Kept : k.last < e => e \in k.todo \/ \A t \in k.todo : t < e
          BY <1>1, <3>2, <4>3 DEF CopyOK, Behind, Ahead
        <4>5. Kept \subseteq Nat /\ q.target = k.target
          BY <1>1, <2>2 DEF Kept, SameWork
        <4>6. ASSUME NEW e \in Kept, e <= d
              PROVE  e \in objects'[q.target]
          <5>1. CASE e <= k.last
            BY <1>5, <1>7, <4>4, <4>5, <5>1
          <5>2. CASE ~ e <= k.last
            <6>1. e \in Nat /\ k.last < e
              BY <1>1, <4>5, <5>2
            <6>2. e \in k.todo
              BY <1>4, <4>4, <4>6, <6>1
            <6>3. e = d
              BY <1>4, <4>6, <6>1, <6>2
            <6>4. QED
              BY <1>6, <1>11, <4>5, <6>3
          <5>3. QED
            BY <5>1, <5>2
        <4>7. \A t \in q.todo : d < t
          <5>1. SUFFICES ASSUME NEW t \in k.todo, t # d
                         PROVE  d < t
            BY <2>2
          <5>2. t \in Nat /\ d <= t
            BY <1>1, <1>4
          <5>3. QED
            BY <1>4, <5>1, <5>2
        <4>8. ASSUME NEW e \in Kept, d < e
              PROVE  e \in q.todo \/ \A t \in q.todo : t < e
          <5>1. k.last < d /\ e \in Nat
            BY <1>4, <4>4, <4>5
          <5>2. k.last < e
            BY <1>1, <1>4, <4>8, <5>1
          <5>3. e \in k.todo \/ \A t \in k.todo : t < e
            BY <4>4, <5>2
          <5>4. e # d
            BY <1>4, <4>8, <5>1
          <5>5. QED
            BY <2>2, <5>3, <5>4
        <4>9. QED
          BY <4>6, <4>7, <4>8
      <3>3. QED
        BY <1>2, <3>1, <3>2
    <2>5. Typed'
      BY <1>3, <1>7, <1>11, <2>2 , <1>8 DEF Inv, Typed
    <2>6. QED
      BY <1>3, <1>7, <2>2, <2>4, <2>5, SameMigrationIsSame, WorkStep
  <1>12. QED
    BY <1>10, <1>11 DEF CopyDocument

LEMMA VisitBatchOK ==
    ASSUME SourceContentAssumption, Inv, NEW w \in Workers, VisitBatch(w)
    PROVE  StepOK
  <1> DEFINE k == worker[w]
             S == NextBatch(k.last)
             x == IF S = {} THEN "cutover" ELSE "recopy"
  <1>1. /\ worker \in [Workers -> Copies] /\ k \in Copies
        /\ CopyOK(k, migration, Kept, objects)
        /\ k.last \in Nat /\ rows \subseteq Docs /\ Docs \subseteq Nat
    BY WorkerTyped DEF Docs
  <1>2. /\ k.pc \in {"visit", "recopy"} /\ migration' = migration /\ WorkUnchanged
        /\ worker' = [worker EXCEPT ![w].todo = S, ![w].pc = x]
    BY DEF VisitBatch
  <1>3. /\ UNCHANGED <<objects, rows, young, since, referenced, deletions>>
        /\ UNCHANGED <<active, conf, publisher, cleaner>> /\ budget' \in Budgets
    BY <1>2, WorkKeeps
  <1>4. /\ S \in SUBSET Docs /\ (\A t \in S : k.last < t) /\ x \in Phases
        /\ (x = "cutover" /\ S = {}) \/ (x = "recopy" /\ S # {})
    BY <1>1, BatchIsAhead DEF Phases
  <1>5. \A d \in rows : k.last < d => d \in S \/ \A t \in S : t < d
    BY <1>1, BatchIsPrefix
  <1>6. S = {} => \A d \in rows : d <= k.last
    BY <1>1, EmptyBatchIsTheEnd
  <1> HIDE DEF S, x
  <1>7. /\ worker' \in [Workers -> Copies] /\ OthersStay(w) /\ SameWork(k, worker'[w])
        /\ worker'[w].pc = x /\ worker'[w].todo = S /\ worker'[w].last = k.last
    BY <1>1, <1>2, <1>4, LoadedWorker
  <1>8. Kept' = Kept /\ Kept \subseteq rows
    BY <1>3 DEF Kept
  <1>9. CopyOK(worker'[w], migration', Kept', objects')
    <2>1. Engaged(worker'[w], migration') /\ Aimed(worker'[w], migration')
      BY <1>1, <1>2, <1>7 DEF CopyOK, Engaged, Aimed, Current, SameWork
    <2>2. SUFFICES ASSUME Current(k, migration)
                   PROVE  \A d \in Kept : d <= k.last => d \in objects[k.target]
      <3>1. Current(worker'[w], migration') => Current(k, migration)
        BY <1>2, <1>7 DEF Current, SameWork
      <3>2. worker'[w].target = k.target
        BY <1>7 DEF SameWork
      <3>3. QED
        BY <1>3, <1>4, <1>5, <1>6, <1>7, <1>8, <2>1, <3>1, <3>2
           DEF CopyOK, Behind, Ahead, Complete
    <2>3. QED
      BY <1>1, <1>2, <2>2 DEF CopyOK, Behind
  <1>10. Typed'
    BY <1>2, <1>3, <1>7 DEF Inv, Typed
  <1>11. QED
    BY <1>2, <1>3, <1>7, <1>9, <1>10, SameMigrationIsSame, WorkStep

LEMMA CompleteCutoverOK ==
    ASSUME SourceContentAssumption, Inv, NEW w \in Workers, CompleteCutover(w)
    PROVE  StepOK
  <1> DEFINE k == worker[w]
  <1>1. /\ worker \in [Workers -> Copies] /\ k \in Copies /\ k.pc = "cutover"
        /\ CopyOK(k, migration, Kept, objects) /\ migration \in Migrations
    BY WorkerTyped DEF CompleteCutover
  <1>2. CASE GoTo(w, "error") /\ UNCHANGED <<objects, active, migration>>
    <2>1. WorkUnchanged
      BY <1>2 DEF CompleteCutover, WorkUnchanged, documents, RowsUnchanged
    <2>2. QED
      BY <1>1, <1>2, <2>1, WorkKeeps, WorkerMoves, SameMigrationIsSame DEF GoTo, Phases
  <1>3. CASE /\ Expects(w, {"cutover"}) /\ active = k.source
             /\ since \subseteq objects[k.source]
             /\ objects' = [objects EXCEPT ![k.target] = @ \cup since]
             /\ active' = k.target
             /\ migration' = [migration EXCEPT !.state = "completed", !.owner = None,
                                !.expired = TRUE]
             /\ worker' = [worker EXCEPT ![w] = IdleWorker]
    <2>1. /\ UNCHANGED <<rows, young, since, referenced, deletions>>
          /\ UNCHANGED <<conf, publisher, cleaner, budget>>
      BY DEF CompleteCutover, RowsUnchanged, MigrationUnchanged
    <2>2. migration.state = "cutover" /\ Current(k, migration)
      BY <1>1, <1>3 DEF Expects, Owns, Current
    <2>3. k.target \in Backends /\ rows \ since \subseteq objects[k.target]
      BY <1>1, <2>2 DEF CopyOK, Engaged, Complete, Kept
    <2>4. /\ objects' \in [Backends -> SUBSET Docs] /\ rows \subseteq objects'[k.target]
          /\ \A b \in Backends : objects[b] \subseteq objects'[b]
      BY <1>3, <2>3 DEF Inv, Typed
    <2>5. /\ migration' \in Migrations /\ SameMigration(migration, migration')
          /\ migration'.state = "completed"
      BY <1>1, <1>3, EndedMigration DEF States, FinalStates
    <2>6. worker' \in [Workers -> Copies] /\ OthersStay(w) /\ worker'[w].pc = "idle"
      BY <1>1, <1>3, StoppedWorker
    <2>7. Typed'
      BY <1>3, <2>1, <2>3, <2>4, <2>5, <2>6 DEF Inv, Typed
    <2>8. Directed(migration', active') /\ ContentIsReadable'
      BY <1>3, <2>1, <2>2, <2>4, <2>5
         DEF Inv, Directed, SameMigration, ActiveStates, ContentIsReadable
    <2>9. ASSUME NEW v \in Workers
          PROVE  CopyOK(worker'[v], migration', Kept', objects')
      <3>1. CASE v = w
        BY <2>6, <3>1, IdleOK
      <3>2. CASE v # w
        <4>1. worker[v] \in Copies /\ CopyOK(worker[v], migration, Kept, objects)
          BY WorkerTyped
        <4>2. Kept' = Kept
          BY <2>1 DEF Kept
        <4>3. CopyOK(worker[v], migration', Kept', objects')
          BY <2>4, <2>5, <4>1, <4>2, StillOK
        <4>4. QED
          BY <2>6, <3>2, <4>3 DEF OthersStay
      <3>3. QED
        BY <3>1, <3>2
    <2>10. YoungKeepRows
      BY <2>1 DEF YoungKeepRows, Inv, Typed
    <2>11. CancelledStays
      BY <2>2 DEF CancelledStays
    <2>12. QED
      BY <2>7, <2>8, <2>9, <2>10, <2>11 DEF StepOK, Inv
  <1>4. QED
    BY <1>2, <1>3 DEF CompleteCutover

LEMMA HandleErrorOK ==
    ASSUME SourceContentAssumption, Inv, NEW w \in Workers, HandleError(w)
    PROVE  StepOK
  <1>1. /\ worker[w].pc = "error" /\ WorkUnchanged /\ UNCHANGED migration
        /\ migration \in Migrations
        /\ \/ worker' = [worker EXCEPT ![w] = IdleWorker]
           \/ GoTo(w, "settle") \/ GoTo(w, "fail")
    BY DEF HandleError, Inv, Typed
  <1>2. QED
    BY <1>1, WorkKeeps, WorkerMoves, SameMigrationIsSame DEF GoTo, Phases

\* A worker that stops, with what it does to the row of its migration.
LEMMA WorkerStopsOK ==
    ASSUME SourceContentAssumption, Inv, NEW w \in Workers,
           MarkFailed(w) \/ MarkCancelled(w) \/ ReleaseLease(w) \/ WorkerCrash(w)
    PROVE  StepOK
  <1>1. /\ UNCHANGED <<documents, active>> /\ MigrationUnchanged
        /\ worker' = [worker EXCEPT ![w] = IdleWorker] /\ worker[w].pc # "idle"
    BY DEF MarkFailed, MarkCancelled, ReleaseLease, WorkerCrash, WorkUnchanged
  <1>2. budget' \in Budgets
    BY FaultSpends
       DEF MarkFailed, MarkCancelled, ReleaseLease, WorkerCrash, WorkUnchanged, Inv, Typed
  <1>3. migration \in Migrations
    BY DEF Inv, Typed
  <1>4. CASE UNCHANGED migration
    BY <1>1, <1>2, <1>3, <1>4, WorkerMoves, SameMigrationIsSame DEF Phases
  <1>5. CASE /\ MarkFailed(w) /\ migration.state \in {"validating", "copying", "cutover"}
             /\ migration' = [migration EXCEPT !.state = "failed", !.owner = None,
                                !.expired = TRUE]
    <2>1. /\ migration' \in Migrations /\ SameMigration(migration, migration')
          /\ migration'.state = "failed"
      BY <1>3, <1>5, EndedMigration DEF States, FinalStates
    <2>2. QED
      BY <1>1, <1>2, <1>5, <2>1, WorkerMoves DEF Phases, ActiveStates
  <1>6. CASE /\ MarkCancelled(w) /\ migration.state = "cancel_requested"
             /\ migration' = [migration EXCEPT !.state = "cancelled", !.owner = None,
                                !.expired = TRUE]
    <2>1. /\ migration' \in Migrations /\ SameMigration(migration, migration')
          /\ migration'.state = "cancelled"
      BY <1>3, <1>6, EndedMigration DEF States, FinalStates
    <2>2. QED
      BY <1>1, <1>2, <1>6, <2>1, WorkerMoves DEF Phases, ActiveStates
  <1>7. CASE ReleaseLease(w) /\ migration' = [migration EXCEPT !.owner = None, !.expired = TRUE]
    <2>1. /\ migration' \in Migrations /\ SameMigration(migration, migration')
          /\ migration'.state = migration.state
      BY <1>3, <1>7, ReleasedMigration
    <2>2. QED
      BY <1>1, <1>2, <2>1, WorkerMoves DEF Phases
  <1>8. QED
    BY <1>4, <1>5, <1>6, <1>7 DEF MarkFailed, MarkCancelled, ReleaseLease, WorkerCrash, Expects
----------------------------------------------------------------------------
(* The theorems.                                                           *)

LEMMA Stuttering ==
    ASSUME Inv, UNCHANGED vars
    PROVE  StepOK
  <1>1. /\ UNCHANGED <<objects, rows, young, since, referenced, deletions, active>>
        /\ UNCHANGED <<migration, conf, publisher, cleaner, worker, budget>>
    BY DEF vars, documents
  <1>2. Typed'
    BY <1>1 DEF Inv, Typed
  <1>3. QED
    BY <1>1, <1>2, StoreStep DEF Inv, Typed, ContentIsReadable

LEMMA EveryStepOK ==
    ASSUME SourceContentAssumption, Inv, [Next]_vars
    PROVE  StepOK
  <1>1. ASSUME NEW p \in Publishers, PublisherStep(p)
        PROVE  StepOK
    BY <1>1, PublishOK, PublisherMovesOK, CommitPublishOK, RepeatPublishOK,
       RemoveUnpublishedOK, EnqueueOK DEF PublisherStep
  <1>2. ASSUME NEW c \in Cleaners, CleanerStep(c)
        PROVE  StepOK
    <2>1. 1 \in Docs
      BY DEF Docs, SourceContentAssumption
    <2>2. QED
      BY <1>2, <2>1, PrepareDeletionOK, RemoveContentOK, CleanerMovesOK DEF CleanerStep
  <1>3. ASSUME NEW w \in Workers, WorkerProgress(w) \/ ReleaseLease(w) \/ WorkerCrash(w)
        PROVE  StepOK
    BY <1>3, ClaimOK, ValidateOK, ReadBatchOK, CopyDocumentOK, SaveCopyProgressOK,
       BeginCutoverOK, VisitBatchOK, CompleteCutoverOK, HandleErrorOK, WorkerStopsOK
       DEF WorkerProgress
  <1>4. CASE QueueAbandonedContent
    <2>1. 1 \in Docs
      BY DEF Docs, SourceContentAssumption
    <2>2. QED
      BY <1>4, <2>1, ReferencesOK
  <1>5. QED
    BY <1>1, <1>2, <1>3, <1>4, ReferencesOK, QueueMigrationOK, RequestCancellationOK,
       LeaseExpiresOK, RestartOK, Stuttering DEF Next

LEMMA InvImplies ==
    ASSUME Inv
    PROVE  TypeOK /\ ContentIsReadable
  <1>1. TypeOK
    <2>1. /\ migration.state \in ActiveStates \cup FinalStates \cup {"none"}
          /\ migration.owner \in Workers \cup {None}
      BY DEF Inv, Typed, Migrations, States
    <2>2. \A w \in Workers : worker[w].pc \in Phases /\ worker[w].todo \subseteq Docs
      BY DEF Inv, Typed, Copies
    <2>3. QED
      BY <2>1, <2>2 DEF Inv, Typed, TypeOK, Phases, Uploads, Cleanups
  <1>2. QED
    BY <1>1 DEF Inv

\* Objects, rows, the migration and everyone who works on them are typed; what is
\* young, recently published or referred to has a row.
THEOREM TypeCorrect ==
    ASSUME SourceContentAssumption
    PROVE  Spec => []TypeOK
  <1>1. Init => Inv
    BY InitInv
  <1>2. Inv /\ [Next]_vars => Inv'
    BY EveryStepOK DEF StepOK
  <1>3. Inv => TypeOK
    BY InvImplies
  <1>4. QED
    BY <1>1, <1>2, <1>3, PTL DEF Spec

\* Whatever publishers, cleaners, migrations, crashes and processes with old
\* settings do, every document with a row has its object in the active backend.
THEOREM RowsAreReadable ==
    ASSUME SourceContentAssumption
    PROVE  Spec => []ContentIsReadable
  <1>1. Init => Inv
    BY InitInv
  <1>2. Inv /\ [Next]_vars => Inv'
    BY EveryStepOK DEF StepOK
  <1>3. Inv => ContentIsReadable
    BY InvImplies
  <1>4. QED
    BY <1>1, <1>2, <1>3, PTL DEF Spec

\* No clean-up takes the row of a young document from under the uploader that is
\* about to enqueue it.
THEOREM YoungUploadsStay ==
    ASSUME SourceContentAssumption
    PROVE  Spec => UploadsCanBeEnqueued
  <1>1. Init => Inv
    BY InitInv
  <1>2. Inv /\ [Next]_vars => Inv'
    BY EveryStepOK DEF StepOK
  <1> DEFINE Stay == \A p \in DOMAIN publisher :
                       publisher[p].pc = "enqueue" /\ publisher[p].doc \in young
                        => publisher[p].doc \in rows'
  <1>3. Inv /\ [Next]_vars => [Stay]_vars
    <2>1. Inv => DOMAIN publisher = Publishers
      BY DEF Inv, Typed
    <2>2. Inv /\ [Next]_vars => [YoungKeepRows]_vars
      BY EveryStepOK DEF StepOK
    <2>3. QED
      BY <2>1, <2>2 DEF YoungKeepRows
  <1>4. QED
    BY <1>1, <1>2, <1>3, PTL DEF Spec, UploadsCanBeEnqueued

\* A migration whose cancellation was accepted never moves the settings, and never
\* leaves the two states of a cancelled one.
THEOREM CancelledMovesNothing ==
    ASSUME SourceContentAssumption
    PROVE  Spec => CancellationIsHonoured
  <1>1. Init => Inv
    BY InitInv
  <1>2. Inv /\ [Next]_vars => Inv'
    BY EveryStepOK DEF StepOK
  <1>3. Inv /\ [Next]_vars => [CancelledStays]_vars
    BY EveryStepOK DEF StepOK
  <1>4. QED
    BY <1>1, <1>2, <1>3, PTL DEF Spec, CancelledStays, CancellationIsHonoured
-----------------------------------------------------------------------------
(* The evidence of a stored content (DocumentEvidence), which outlives the  *)
(* bytes: for any number of files, workers, deletions and batches.  Rows,   *)
(* jobs and workers of the two components are different ones.               *)

CONSTANTS Files, EvidenceWorkers, Deleters, Size, NoFile, NoWorker

VARIABLES elements, set, members, job, indexed, versions, evidenceWorker, deleter

Evidence == INSTANCE DocumentEvidence WITH
    Workers <- EvidenceWorkers, worker <- evidenceWorker

EvidencePcs == {"idle", "elements", "set", "members", "count", "mark",
          "read", "normalize", "index", "promote"}

\* What the worker record k of worker w stands for: it has a file, and while it owns
\* the job, that job is normalised and what it has read of the evidence is there.
Reading(w) ==
    LET k == evidenceWorker[w] IN
    /\ k.pc # "idle" => k.file \in Files /\ k.batch \in 1 .. Size
    /\ k.pc = "index" /\ job[k.file].owner = w =>
          job[k.file].phase = "normalized" /\ 1 .. (k.batch - 1) \subseteq members
    /\ k.pc = "promote" /\ job[k.file].owner = w =>
          job[k.file].phase = "normalized" /\ 1 .. Size \subseteq members

\* A deletion holds the rows of a file whose job no worker owns.
Locking(d) ==
    IF deleter[d].pc \in {"rows", "evidence"}
    THEN deleter[d].file \in Files /\ job[deleter[d].file].owner = NoWorker
    ELSE deleter[d].file = NoFile

EvidenceInv ==
    /\ Evidence!TypeOK
    /\ Evidence!PublishedIsWhole
    /\ Evidence!NormalizedKeepsItsSet
    /\ \A w \in EvidenceWorkers : Reading(w)
    /\ \A d \in Deleters : Locking(d)

\* Where a worker that goes on to the next step of its job, or to the next batch, is.
LEMMA EvidenceGoes ==
    ASSUME Evidence!EvidenceAssumption, Evidence!TypeOK, NEW w \in EvidenceWorkers,
           NEW pc \in EvidencePcs, Evidence!Goes(w, pc)
    PROVE  /\ evidenceWorker' \in [EvidenceWorkers ->
                 [pc : EvidencePcs, file : Files \cup {NoFile}, batch : 0 .. Size]]
           /\ evidenceWorker'[w] = [pc |-> pc, file |-> evidenceWorker[w].file, batch |-> 1]
           /\ \A x \in EvidenceWorkers \ {w} : evidenceWorker'[x] = evidenceWorker[x]
  <1>1. PICK k \in [pc : EvidencePcs, file : Files \cup {NoFile}, batch : 0 .. Size] :
           k = evidenceWorker[w]
    BY DEF Evidence!TypeOK, EvidencePcs
  <1>2. evidenceWorker' = [evidenceWorker EXCEPT ![w] = [k EXCEPT !.pc = pc, !.batch = 1]]
    BY <1>1, Zenon DEF Evidence!Goes
  <1>3. [k EXCEPT !.pc = pc, !.batch = 1] = [pc |-> pc, file |-> k.file, batch |-> 1]
    <2>1. PICK j \in [pc : EvidencePcs, file : Files \cup {NoFile}, batch : 0 .. Size] :
             j = [k EXCEPT !.pc = pc]
      OBVIOUS
    <2>2. j.pc = pc /\ j.file = k.file
      BY <2>1
    <2>3. [k EXCEPT !.pc = pc, !.batch = 1] = [j EXCEPT !.batch = 1]
      BY <2>1, Zenon
    <2>4. [j EXCEPT !.batch = 1] = [pc |-> j.pc, file |-> j.file, batch |-> 1]
      OBVIOUS
    <2>5. QED
      BY <2>2, <2>3, <2>4
  <1>4. QED
    BY <1>1, <1>2, <1>3 DEF Evidence!TypeOK, EvidencePcs, Evidence!EvidenceAssumption

LEMMA EvidenceNext ==
    ASSUME Evidence!EvidenceAssumption, Evidence!TypeOK, NEW w \in EvidenceWorkers,
           NEW pc \in EvidencePcs, Evidence!NextBatch(w, pc),
           evidenceWorker[w].batch \in 1 .. Size
    PROVE  /\ evidenceWorker' \in [EvidenceWorkers ->
                 [pc : EvidencePcs, file : Files \cup {NoFile}, batch : 0 .. Size]]
           /\ evidenceWorker'[w] =
                 IF evidenceWorker[w].batch = Size
                 THEN [pc |-> pc, file |-> evidenceWorker[w].file, batch |-> 1]
                 ELSE [pc |-> evidenceWorker[w].pc, file |-> evidenceWorker[w].file,
                       batch |-> evidenceWorker[w].batch + 1]
           /\ \A x \in EvidenceWorkers \ {w} : evidenceWorker'[x] = evidenceWorker[x]
  <1>1. CASE evidenceWorker[w].batch = Size
    BY <1>1, EvidenceGoes DEF Evidence!NextBatch
  <1>2. CASE evidenceWorker[w].batch # Size
    <2>1. PICK k \in [pc : EvidencePcs, file : Files \cup {NoFile}, batch : 0 .. Size] :
             k = evidenceWorker[w]
      BY DEF Evidence!TypeOK, EvidencePcs
    <2>2. evidenceWorker' = [evidenceWorker EXCEPT ![w] = [k EXCEPT !.batch = @ + 1]]
      BY <1>2, <2>1, Zenon DEF Evidence!NextBatch
    <2>3. [k EXCEPT !.batch = @ + 1] = [pc |-> k.pc, file |-> k.file, batch |-> k.batch + 1]
      BY <2>1
    <2>4. k.batch + 1 \in 0 .. Size
      BY <1>2, <2>1 DEF Evidence!EvidenceAssumption
    <2>5. QED
      BY <1>2, <2>1, <2>2, <2>3, <2>4 DEF Evidence!TypeOK, EvidencePcs
  <1>3. QED
    BY <1>1, <1>2

LEMMA EvidenceSubmit ==
    ASSUME Evidence!EvidenceAssumption, EvidenceInv, NEW f \in Files, Evidence!Submit(f)
    PROVE  EvidenceInv'
  <1>1. Evidence!TypeOK'
    BY DEF Evidence!Submit, Evidence!NoJob, Evidence!Locked, Evidence!evidence, EvidenceInv,
           Evidence!TypeOK
  <1>2. Evidence!PublishedIsWhole'
    BY DEF Evidence!Submit, Evidence!NoJob, Evidence!Locked, Evidence!evidence, EvidenceInv,
           Evidence!PublishedIsWhole
  <1>3. Evidence!NormalizedKeepsItsSet'
    BY DEF Evidence!Submit, Evidence!NoJob, Evidence!Locked, Evidence!evidence, EvidenceInv,
           Evidence!NormalizedKeepsItsSet
  <1>4. (\A x \in EvidenceWorkers : Reading(x))'
    BY DEF Evidence!Submit, Evidence!NoJob, Evidence!Locked, Evidence!evidence, EvidenceInv,
           Reading
  <1>5. (\A e \in Deleters : Locking(e))'
    BY DEF Evidence!Submit, Evidence!NoJob, Evidence!Locked, Evidence!evidence, EvidenceInv,
           Locking
  <1>6. QED
    BY <1>1, <1>2, <1>3, <1>4, <1>5 DEF EvidenceInv

LEMMA EvidenceLoseLease ==
    ASSUME Evidence!EvidenceAssumption, EvidenceInv, NEW f \in Files, Evidence!LoseLease(f)
    PROVE  EvidenceInv'
  <1>1. Evidence!TypeOK'
    BY DEF Evidence!LoseLease, Evidence!evidence, EvidenceInv, Evidence!TypeOK
  <1>2. Evidence!PublishedIsWhole'
    BY DEF Evidence!LoseLease, Evidence!evidence, EvidenceInv, Evidence!PublishedIsWhole
  <1>3. Evidence!NormalizedKeepsItsSet'
    BY DEF Evidence!LoseLease, Evidence!evidence, EvidenceInv, Evidence!NormalizedKeepsItsSet
  <1>4. (\A x \in EvidenceWorkers : Reading(x))'
    BY DEF Evidence!LoseLease, Evidence!evidence, EvidenceInv, Evidence!EvidenceAssumption,
           Reading
  <1>5. (\A e \in Deleters : Locking(e))'
    BY DEF Evidence!LoseLease, Evidence!evidence, EvidenceInv, Locking
  <1>6. QED
    BY <1>1, <1>2, <1>3, <1>4, <1>5 DEF EvidenceInv

LEMMA EvidenceSupersede ==
    ASSUME Evidence!EvidenceAssumption, EvidenceInv, NEW f \in Files, Evidence!Supersede(f)
    PROVE  EvidenceInv'
  <1>1. Evidence!TypeOK'
    BY DEF Evidence!Supersede, Evidence!Locked, Evidence!evidence, EvidenceInv, Evidence!TypeOK
  <1>2. Evidence!PublishedIsWhole'
    BY DEF Evidence!Supersede, Evidence!Locked, Evidence!evidence, EvidenceInv,
           Evidence!PublishedIsWhole
  <1>3. Evidence!NormalizedKeepsItsSet'
    BY DEF Evidence!Supersede, Evidence!Locked, Evidence!evidence, EvidenceInv,
           Evidence!NormalizedKeepsItsSet
  <1>4. (\A x \in EvidenceWorkers : Reading(x))'
    BY DEF Evidence!Supersede, Evidence!Locked, Evidence!evidence, EvidenceInv, Reading
  <1>5. (\A e \in Deleters : Locking(e))'
    BY DEF Evidence!Supersede, Evidence!Locked, Evidence!evidence, EvidenceInv, Locking
  <1>6. QED
    BY <1>1, <1>2, <1>3, <1>4, <1>5 DEF EvidenceInv

LEMMA EvidenceClaim ==
    ASSUME Evidence!EvidenceAssumption, EvidenceInv, NEW w \in EvidenceWorkers, NEW f \in Files,
           Evidence!Claim(w, f)
    PROVE  EvidenceInv'
  <1>1. Evidence!TypeOK'
    BY DEF Evidence!Claim, Evidence!Locked, Evidence!evidence, EvidenceInv, Evidence!TypeOK,
           Evidence!EvidenceAssumption
  <1>2. Evidence!PublishedIsWhole'
    BY DEF Evidence!Claim, Evidence!Locked, Evidence!evidence, EvidenceInv,
           Evidence!PublishedIsWhole
  <1>3. Evidence!NormalizedKeepsItsSet'
    BY DEF Evidence!Claim, Evidence!Locked, Evidence!evidence, EvidenceInv,
           Evidence!NormalizedKeepsItsSet
  <1>4. (\A x \in EvidenceWorkers : Reading(x))'
    BY DEF Evidence!Claim, Evidence!Locked, Evidence!evidence, EvidenceInv, Evidence!TypeOK,
           Evidence!EvidenceAssumption, Reading
  <1>5. (\A e \in Deleters : Locking(e))'
    BY DEF Evidence!Claim, Evidence!Locked, Evidence!evidence, EvidenceInv, Locking
  <1>6. QED
    BY <1>1, <1>2, <1>3, <1>4, <1>5 DEF EvidenceInv

LEMMA EvidenceWriteElements ==
    ASSUME Evidence!EvidenceAssumption, EvidenceInv, NEW w \in EvidenceWorkers,
           Evidence!WriteElements(w)
    PROVE  EvidenceInv'
  <1>1. Evidence!TypeOK'
    <2>1. "set" \in EvidencePcs
      BY DEF EvidencePcs
    <2>2. evidenceWorker' \in [EvidenceWorkers ->
             [pc : EvidencePcs, file : Files \cup {NoFile}, batch : 0 .. Size]]
      BY <2>1, EvidenceNext DEF Evidence!WriteElements, EvidenceInv, Reading
    <2>3. evidenceWorker[w].batch \in Evidence!Batches
      BY DEF Evidence!WriteElements, EvidenceInv, Reading, Evidence!Batches
    <2>4. QED
      BY <2>2, <2>3 DEF Evidence!WriteElements, Evidence!catalog, EvidenceInv, Evidence!TypeOK,
             EvidencePcs
  <1>2. Evidence!PublishedIsWhole'
    BY DEF Evidence!WriteElements, Evidence!NextBatch, Evidence!Goes, Evidence!catalog,
           EvidenceInv, Evidence!PublishedIsWhole, Evidence!Batches, Reading
  <1>3. Evidence!NormalizedKeepsItsSet'
    BY DEF Evidence!WriteElements, Evidence!NextBatch, Evidence!Goes, Evidence!catalog,
           EvidenceInv, Evidence!NormalizedKeepsItsSet
  <1>4. (\A x \in EvidenceWorkers : Reading(x))'
    BY DEF Evidence!WriteElements, Evidence!NextBatch, Evidence!Goes, Evidence!catalog,
           EvidenceInv, Evidence!TypeOK, Evidence!EvidenceAssumption, Reading
  <1>5. (\A e \in Deleters : Locking(e))'
    BY DEF Evidence!WriteElements, Evidence!NextBatch, Evidence!Goes, Evidence!catalog,
           EvidenceInv, Locking
  <1>6. QED
    BY <1>1, <1>2, <1>3, <1>4, <1>5 DEF EvidenceInv

LEMMA EvidenceInsertSet ==
    ASSUME Evidence!EvidenceAssumption, EvidenceInv, NEW w \in EvidenceWorkers,
           Evidence!InsertSet(w)
    PROVE  EvidenceInv'
  <1>1. Evidence!TypeOK'
    <2>1. "members" \in EvidencePcs
      BY DEF EvidencePcs
    <2>2. evidenceWorker' \in [EvidenceWorkers ->
             [pc : EvidencePcs, file : Files \cup {NoFile}, batch : 0 .. Size]]
      BY <2>1, EvidenceGoes DEF Evidence!InsertSet, EvidenceInv
    <2>3. QED
      BY <2>2 DEF Evidence!InsertSet, Evidence!catalog, EvidenceInv, Evidence!TypeOK,
             EvidencePcs
  <1>2. Evidence!PublishedIsWhole'
    BY DEF Evidence!InsertSet, Evidence!Goes, Evidence!catalog, EvidenceInv,
           Evidence!PublishedIsWhole
  <1>3. Evidence!NormalizedKeepsItsSet'
    BY DEF Evidence!InsertSet, Evidence!Goes, Evidence!catalog, EvidenceInv,
           Evidence!NormalizedKeepsItsSet
  <1>4. (\A x \in EvidenceWorkers : Reading(x))'
    BY DEF Evidence!InsertSet, Evidence!Goes, Evidence!catalog, EvidenceInv, Evidence!TypeOK,
           Reading
  <1>5. (\A e \in Deleters : Locking(e))'
    BY DEF Evidence!InsertSet, Evidence!Goes, Evidence!catalog, EvidenceInv, Locking
  <1>6. QED
    BY <1>1, <1>2, <1>3, <1>4, <1>5 DEF EvidenceInv

LEMMA EvidenceWriteMembers ==
    ASSUME Evidence!EvidenceAssumption, EvidenceInv, NEW w \in EvidenceWorkers,
           Evidence!WriteMembers(w)
    PROVE  EvidenceInv'
  <1>1. Evidence!TypeOK'
    <2>1. "count" \in EvidencePcs
      BY DEF EvidencePcs
    <2>2. evidenceWorker' \in [EvidenceWorkers ->
             [pc : EvidencePcs, file : Files \cup {NoFile}, batch : 0 .. Size]]
      BY <2>1, EvidenceNext DEF Evidence!WriteMembers, EvidenceInv, Reading
    <2>3. QED
      BY <2>2 DEF Evidence!WriteMembers, Evidence!catalog, EvidenceInv, Evidence!TypeOK,
             EvidencePcs
  <1>2. Evidence!PublishedIsWhole'
    BY DEF Evidence!WriteMembers, Evidence!NextBatch, Evidence!Goes, Evidence!catalog,
           EvidenceInv, Evidence!PublishedIsWhole
  <1>3. Evidence!NormalizedKeepsItsSet'
    BY DEF Evidence!WriteMembers, Evidence!NextBatch, Evidence!Goes, Evidence!catalog,
           EvidenceInv, Evidence!NormalizedKeepsItsSet
  <1>4. (\A x \in EvidenceWorkers : Reading(x))'
    BY DEF Evidence!WriteMembers, Evidence!NextBatch, Evidence!Goes, Evidence!catalog,
           EvidenceInv, Evidence!TypeOK, Evidence!EvidenceAssumption, Reading, Evidence!Batches,
           Evidence!PublishedIsWhole
  <1>5. (\A e \in Deleters : Locking(e))'
    BY DEF Evidence!WriteMembers, Evidence!NextBatch, Evidence!Goes, Evidence!catalog,
           EvidenceInv, Locking
  <1>6. QED
    BY <1>1, <1>2, <1>3, <1>4, <1>5 DEF EvidenceInv

LEMMA EvidenceCountMembers ==
    ASSUME Evidence!EvidenceAssumption, EvidenceInv, NEW w \in EvidenceWorkers,
           Evidence!CountMembers(w)
    PROVE  EvidenceInv'
  <1>1. Evidence!TypeOK'
    <2>1. "mark" \in EvidencePcs
      BY DEF EvidencePcs
    <2>2. evidenceWorker' \in [EvidenceWorkers ->
             [pc : EvidencePcs, file : Files \cup {NoFile}, batch : 0 .. Size]]
      BY <2>1, EvidenceGoes DEF Evidence!CountMembers, EvidenceInv
    <2>3. QED
      BY <2>2 DEF Evidence!CountMembers, Evidence!Batches, Evidence!evidence, Evidence!catalog,
             EvidenceInv, Evidence!TypeOK, EvidencePcs
  <1>2. Evidence!PublishedIsWhole'
    BY DEF Evidence!CountMembers, Evidence!Goes, Evidence!evidence, Evidence!catalog,
           EvidenceInv, Evidence!PublishedIsWhole
  <1>3. Evidence!NormalizedKeepsItsSet'
    BY DEF Evidence!CountMembers, Evidence!Goes, Evidence!evidence, Evidence!catalog,
           EvidenceInv, Evidence!NormalizedKeepsItsSet
  <1>4. (\A x \in EvidenceWorkers : Reading(x))'
    BY DEF Evidence!CountMembers, Evidence!Goes, Evidence!evidence, Evidence!catalog,
           EvidenceInv, Evidence!TypeOK, Reading
  <1>5. (\A e \in Deleters : Locking(e))'
    BY DEF Evidence!CountMembers, Evidence!Goes, Evidence!evidence, Evidence!catalog,
           EvidenceInv, Locking
  <1>6. QED
    BY <1>1, <1>2, <1>3, <1>4, <1>5 DEF EvidenceInv

LEMMA EvidenceMarkComplete ==
    ASSUME Evidence!EvidenceAssumption, EvidenceInv, NEW w \in EvidenceWorkers,
           Evidence!MarkComplete(w)
    PROVE  EvidenceInv'
  <1>1. Evidence!TypeOK'
    <2>1. "read" \in EvidencePcs
      BY DEF EvidencePcs
    <2>2. evidenceWorker' \in [EvidenceWorkers ->
             [pc : EvidencePcs, file : Files \cup {NoFile}, batch : 0 .. Size]]
      BY <2>1, EvidenceGoes DEF Evidence!MarkComplete, EvidenceInv
    <2>3. QED
      BY <2>2 DEF Evidence!MarkComplete, Evidence!catalog, EvidenceInv, Evidence!TypeOK,
             EvidencePcs
  <1>2. Evidence!PublishedIsWhole'
    BY DEF Evidence!MarkComplete, Evidence!Goes, Evidence!catalog, EvidenceInv,
           Evidence!PublishedIsWhole
  <1>3. Evidence!NormalizedKeepsItsSet'
    BY DEF Evidence!MarkComplete, Evidence!Goes, Evidence!catalog, EvidenceInv,
           Evidence!NormalizedKeepsItsSet
  <1>4. (\A x \in EvidenceWorkers : Reading(x))'
    BY DEF Evidence!MarkComplete, Evidence!Goes, Evidence!catalog, EvidenceInv, Evidence!TypeOK,
           Reading
  <1>5. (\A e \in Deleters : Locking(e))'
    BY DEF Evidence!MarkComplete, Evidence!Goes, Evidence!catalog, EvidenceInv, Locking
  <1>6. QED
    BY <1>1, <1>2, <1>3, <1>4, <1>5 DEF EvidenceInv

LEMMA EvidenceReadElementSet ==
    ASSUME Evidence!EvidenceAssumption, EvidenceInv, NEW w \in EvidenceWorkers,
           Evidence!ReadElementSet(w)
    PROVE  EvidenceInv'
  <1>1. Evidence!TypeOK'
    <2>1. "normalize" \in EvidencePcs
      BY DEF EvidencePcs
    <2>2. evidenceWorker' \in [EvidenceWorkers ->
             [pc : EvidencePcs, file : Files \cup {NoFile}, batch : 0 .. Size]]
      BY <2>1, EvidenceGoes DEF Evidence!ReadElementSet, EvidenceInv
    <2>3. QED
      BY <2>2 DEF Evidence!ReadElementSet, Evidence!evidence, Evidence!catalog, EvidenceInv,
             Evidence!TypeOK, EvidencePcs
  <1>2. Evidence!PublishedIsWhole'
    BY DEF Evidence!ReadElementSet, Evidence!Goes, Evidence!evidence, Evidence!catalog,
           EvidenceInv, Evidence!PublishedIsWhole
  <1>3. Evidence!NormalizedKeepsItsSet'
    BY DEF Evidence!ReadElementSet, Evidence!Goes, Evidence!evidence, Evidence!catalog,
           EvidenceInv, Evidence!NormalizedKeepsItsSet
  <1>4. (\A x \in EvidenceWorkers : Reading(x))'
    BY DEF Evidence!ReadElementSet, Evidence!Goes, Evidence!evidence, Evidence!catalog,
           EvidenceInv, Evidence!TypeOK, Reading
  <1>5. (\A e \in Deleters : Locking(e))'
    BY DEF Evidence!ReadElementSet, Evidence!Goes, Evidence!evidence, Evidence!catalog,
           EvidenceInv, Locking
  <1>6. QED
    BY <1>1, <1>2, <1>3, <1>4, <1>5 DEF EvidenceInv

LEMMA EvidenceCompleteNormalization ==
    ASSUME Evidence!EvidenceAssumption, EvidenceInv, NEW w \in EvidenceWorkers,
           Evidence!CompleteNormalization(w)
    PROVE  EvidenceInv'
  <1>1. Evidence!TypeOK'
    <2>1. evidenceWorker[w].file \in Files
      BY DEF Evidence!CompleteNormalization, EvidenceInv, Reading
    <2>2. job' \in [Files -> [phase : {"none", "discovered", "normalized"},
                             owner : EvidenceWorkers \cup {NoWorker}]]
      <3>1. PICK j \in [phase : {"none", "discovered", "normalized"},
                        owner : EvidenceWorkers \cup {NoWorker}] :
               j = job[evidenceWorker[w].file]
        BY <2>1 DEF EvidenceInv, Evidence!TypeOK
      <3>2. [j EXCEPT !.phase = "normalized"] \in
               [phase : {"none", "discovered", "normalized"}, owner : EvidenceWorkers \cup {NoWorker}]
        BY <3>1
      <3>3. job' = [job EXCEPT ![evidenceWorker[w].file] = [j EXCEPT !.phase = "normalized"]]
        BY <3>1, Zenon DEF Evidence!CompleteNormalization
      <3>4. QED
        BY <3>2, <3>3 DEF EvidenceInv, Evidence!TypeOK
    <2>3. "index" \in EvidencePcs
      BY DEF EvidencePcs
    <2>4. evidenceWorker' \in [EvidenceWorkers ->
             [pc : EvidencePcs, file : Files \cup {NoFile}, batch : 0 .. Size]]
      BY <2>3, EvidenceGoes DEF Evidence!CompleteNormalization, EvidenceInv
    <2>5. QED
      BY <2>2, <2>4
         DEF Evidence!CompleteNormalization, Evidence!evidence, EvidenceInv, Evidence!TypeOK,
             EvidencePcs
  <1>2. Evidence!PublishedIsWhole'
    BY DEF Evidence!CompleteNormalization, Evidence!Owns, Evidence!Locked, Evidence!Goes,
           Evidence!evidence, EvidenceInv, Evidence!PublishedIsWhole
  <1>3. Evidence!NormalizedKeepsItsSet'
    BY DEF Evidence!CompleteNormalization, Evidence!Owns, Evidence!Locked, Evidence!Goes,
           Evidence!evidence, EvidenceInv, Evidence!NormalizedKeepsItsSet
  <1>4. (\A x \in EvidenceWorkers : Reading(x))'
    BY DEF Evidence!CompleteNormalization, Evidence!Owns, Evidence!Locked, Evidence!Goes,
           Evidence!evidence, EvidenceInv, Evidence!TypeOK, Reading
  <1>5. (\A e \in Deleters : Locking(e))'
    BY DEF Evidence!CompleteNormalization, Evidence!Owns, Evidence!Locked, Evidence!Goes,
           Evidence!evidence, EvidenceInv, Locking
  <1>6. QED
    BY <1>1, <1>2, <1>3, <1>4, <1>5 DEF EvidenceInv

LEMMA EvidenceIndexBatch ==
    ASSUME Evidence!EvidenceAssumption, EvidenceInv, NEW w \in EvidenceWorkers,
           Evidence!IndexBatch(w)
    PROVE  EvidenceInv'
  <1>1. Evidence!TypeOK'
    <2>1. "promote" \in EvidencePcs
      BY DEF EvidencePcs
    <2>2. evidenceWorker' \in [EvidenceWorkers ->
             [pc : EvidencePcs, file : Files \cup {NoFile}, batch : 0 .. Size]]
      BY <2>1, EvidenceNext DEF Evidence!IndexBatch, EvidenceInv, Reading
    <2>3. QED
      BY <2>2 DEF Evidence!IndexBatch, Evidence!Readable, Evidence!evidence, Evidence!catalog,
             EvidenceInv, Evidence!TypeOK, EvidencePcs
  <1>2. Evidence!PublishedIsWhole'
    BY DEF Evidence!IndexBatch, Evidence!NextBatch, Evidence!Goes, Evidence!Readable,
           Evidence!evidence, Evidence!catalog, EvidenceInv, Evidence!PublishedIsWhole
  <1>3. Evidence!NormalizedKeepsItsSet'
    BY DEF Evidence!IndexBatch, Evidence!NextBatch, Evidence!Goes, Evidence!Readable,
           Evidence!evidence, Evidence!catalog, EvidenceInv, Evidence!NormalizedKeepsItsSet
  <1>4. (\A x \in EvidenceWorkers : Reading(x))'
    BY DEF Evidence!IndexBatch, Evidence!NextBatch, Evidence!Goes, Evidence!Readable,
           Evidence!evidence, Evidence!catalog, EvidenceInv, Evidence!TypeOK,
           Evidence!EvidenceAssumption, Reading, Evidence!NormalizedKeepsItsSet, Locking
  <1>5. (\A e \in Deleters : Locking(e))'
    BY DEF Evidence!IndexBatch, Evidence!NextBatch, Evidence!Goes, Evidence!Readable,
           Evidence!evidence, Evidence!catalog, EvidenceInv, Locking
  <1>6. QED
    BY <1>1, <1>2, <1>3, <1>4, <1>5 DEF EvidenceInv

LEMMA EvidencePromote ==
    ASSUME Evidence!EvidenceAssumption, EvidenceInv, NEW w \in EvidenceWorkers,
           Evidence!Promote(w)
    PROVE  EvidenceInv'
  <1>1. Evidence!TypeOK'
    BY DEF Evidence!Promote, Evidence!Owns, Evidence!Locked, Evidence!NoJob,
           Evidence!IdleWorker, Evidence!evidence, EvidenceInv, Evidence!TypeOK,
           Evidence!EvidenceAssumption, Reading
  <1>2. Evidence!PublishedIsWhole'
    BY DEF Evidence!Promote, Evidence!Owns, Evidence!Locked, Evidence!NoJob,
           Evidence!IdleWorker, Evidence!evidence, EvidenceInv, Evidence!TypeOK,
           Evidence!PublishedIsWhole, Evidence!Batches, Reading
  <1>3. Evidence!NormalizedKeepsItsSet'
    BY DEF Evidence!Promote, Evidence!Owns, Evidence!Locked, Evidence!NoJob,
           Evidence!IdleWorker, Evidence!evidence, EvidenceInv, Evidence!NormalizedKeepsItsSet
  <1>4. (\A x \in EvidenceWorkers : Reading(x))'
    BY DEF Evidence!Promote, Evidence!Owns, Evidence!Locked, Evidence!NoJob,
           Evidence!IdleWorker, Evidence!evidence, EvidenceInv, Evidence!EvidenceAssumption,
           Reading
  <1>5. (\A e \in Deleters : Locking(e))'
    BY DEF Evidence!Promote, Evidence!Owns, Evidence!Locked, Evidence!NoJob,
           Evidence!IdleWorker, Evidence!evidence, EvidenceInv, Locking
  <1>6. QED
    BY <1>1, <1>2, <1>3, <1>4, <1>5 DEF EvidenceInv

LEMMA EvidenceFail ==
    ASSUME Evidence!EvidenceAssumption, EvidenceInv, NEW w \in EvidenceWorkers, Evidence!Fail(w)
    PROVE  EvidenceInv'
  <1>1. Evidence!TypeOK'
    <2>1. evidenceWorker[w].file \in Files
      BY DEF Evidence!Fail, EvidenceInv, Reading
    <2>2. job' \in [Files -> [phase : {"none", "discovered", "normalized"},
                             owner : EvidenceWorkers \cup {NoWorker}]]
      <3>1. PICK j \in [phase : {"none", "discovered", "normalized"},
                        owner : EvidenceWorkers \cup {NoWorker}] :
               j = job[evidenceWorker[w].file]
        BY <2>1 DEF EvidenceInv, Evidence!TypeOK
      <3>2. [j EXCEPT !.owner = NoWorker] \in
               [phase : {"none", "discovered", "normalized"}, owner : EvidenceWorkers \cup {NoWorker}]
        BY <3>1
      <3>3. job' = job
            \/ job' = [job EXCEPT ![evidenceWorker[w].file] = [j EXCEPT !.owner = NoWorker]]
        BY <3>1, Zenon DEF Evidence!Fail
      <3>4. QED
        BY <3>2, <3>3 DEF EvidenceInv, Evidence!TypeOK
    <2>3. Evidence!IdleWorker \in [pc : EvidencePcs, file : Files \cup {NoFile}, batch : 0 .. Size]
      BY DEF Evidence!IdleWorker, EvidencePcs, Evidence!EvidenceAssumption
    <2>4. QED
      BY <2>2, <2>3
         DEF Evidence!Fail, Evidence!evidence, EvidenceInv, Evidence!TypeOK, EvidencePcs
  <1>2. Evidence!PublishedIsWhole'
    BY DEF Evidence!Fail, Evidence!IdleWorker, Evidence!Owns, Evidence!evidence, EvidenceInv,
           Evidence!PublishedIsWhole
  <1>3. Evidence!NormalizedKeepsItsSet'
    BY DEF Evidence!Fail, Evidence!IdleWorker, Evidence!Owns, Evidence!evidence, EvidenceInv,
           Evidence!NormalizedKeepsItsSet
  <1>4. (\A x \in EvidenceWorkers : Reading(x))'
    BY DEF Evidence!Fail, Evidence!IdleWorker, Evidence!Owns, Evidence!evidence, EvidenceInv,
           Evidence!EvidenceAssumption, Reading
  <1>5. (\A e \in Deleters : Locking(e))'
    BY DEF Evidence!Fail, Evidence!IdleWorker, Evidence!Owns, Evidence!evidence, EvidenceInv,
           Locking
  <1>6. QED
    BY <1>1, <1>2, <1>3, <1>4, <1>5 DEF EvidenceInv

LEMMA EvidenceBeginDelete ==
    ASSUME Evidence!EvidenceAssumption, EvidenceInv, NEW d \in Deleters, NEW f \in Files,
           NEW k \in {"document", "job"}, Evidence!BeginDelete(d, f, k)
    PROVE  EvidenceInv'
  <1>1. Evidence!TypeOK'
    BY DEF Evidence!BeginDelete, Evidence!Locked, Evidence!NoJob, Evidence!WithoutFile,
           Evidence!Waiting, Evidence!evidence, Evidence!catalog, EvidenceInv, Evidence!TypeOK
  <1>2. Evidence!PublishedIsWhole'
    BY DEF Evidence!BeginDelete, Evidence!Locked, Evidence!NoJob, Evidence!WithoutFile,
           Evidence!Waiting, Evidence!evidence, Evidence!catalog, EvidenceInv,
           Evidence!PublishedIsWhole
  <1>3. Evidence!NormalizedKeepsItsSet'
    BY DEF Evidence!BeginDelete, Evidence!Locked, Evidence!NoJob, Evidence!WithoutFile,
           Evidence!Waiting, Evidence!evidence, Evidence!catalog, EvidenceInv,
           Evidence!NormalizedKeepsItsSet
  <1>4. (\A x \in EvidenceWorkers : Reading(x))'
    BY DEF Evidence!BeginDelete, Evidence!Locked, Evidence!NoJob, Evidence!WithoutFile,
           Evidence!Waiting, Evidence!evidence, Evidence!catalog, EvidenceInv, Reading
  <1>5. (\A e \in Deleters : Locking(e))'
    BY DEF Evidence!BeginDelete, Evidence!Locked, Evidence!NoJob, Evidence!WithoutFile,
           Evidence!Waiting, Evidence!evidence, Evidence!catalog, EvidenceInv, Locking
  <1>6. QED
    BY <1>1, <1>2, <1>3, <1>4, <1>5 DEF EvidenceInv

LEMMA EvidenceReplace ==
    ASSUME Evidence!EvidenceAssumption, EvidenceInv, NEW d \in Deleters, NEW f \in Files,
           Evidence!Replace(d, f)
    PROVE  EvidenceInv'
  <1>1. Evidence!TypeOK'
    BY DEF Evidence!Replace, Evidence!Locked, Evidence!NoJob, Evidence!IdleDeleter,
           Evidence!evidence, EvidenceInv, Evidence!TypeOK
  <1>2. Evidence!PublishedIsWhole'
    BY DEF Evidence!Replace, Evidence!Locked, Evidence!NoJob, Evidence!IdleDeleter,
           Evidence!evidence, EvidenceInv, Evidence!PublishedIsWhole
  <1>3. Evidence!NormalizedKeepsItsSet'
    BY DEF Evidence!Replace, Evidence!Locked, Evidence!NoJob, Evidence!IdleDeleter,
           Evidence!evidence, EvidenceInv, Evidence!NormalizedKeepsItsSet
  <1>4. (\A x \in EvidenceWorkers : Reading(x))'
    BY DEF Evidence!Replace, Evidence!Locked, Evidence!NoJob, Evidence!IdleDeleter,
           Evidence!evidence, EvidenceInv, Evidence!EvidenceAssumption, Reading
  <1>5. (\A e \in Deleters : Locking(e))'
    BY DEF Evidence!Replace, Evidence!Locked, Evidence!NoJob, Evidence!IdleDeleter,
           Evidence!evidence, EvidenceInv, Locking
  <1>6. QED
    BY <1>1, <1>2, <1>3, <1>4, <1>5 DEF EvidenceInv

LEMMA EvidenceCommitRows ==
    ASSUME Evidence!EvidenceAssumption, EvidenceInv, NEW d \in Deleters, Evidence!CommitRows(d)
    PROVE  EvidenceInv'
  <1>1. Evidence!TypeOK'
    BY DEF Evidence!CommitRows, Evidence!DeleteRows, Evidence!NoJob, Evidence!WithoutFile,
           Evidence!IdleDeleter, Evidence!evidence, EvidenceInv, Evidence!TypeOK
  <1>2. Evidence!PublishedIsWhole'
    BY DEF Evidence!CommitRows, Evidence!DeleteRows, Evidence!NoJob, Evidence!WithoutFile,
           Evidence!IdleDeleter, Evidence!evidence, EvidenceInv, Evidence!PublishedIsWhole
  <1>3. Evidence!NormalizedKeepsItsSet'
    BY DEF Evidence!CommitRows, Evidence!DeleteRows, Evidence!NoJob, Evidence!WithoutFile,
           Evidence!IdleDeleter, Evidence!evidence, EvidenceInv, Evidence!NormalizedKeepsItsSet
  <1>4. (\A x \in EvidenceWorkers : Reading(x))'
    BY DEF Evidence!CommitRows, Evidence!DeleteRows, Evidence!NoJob, Evidence!WithoutFile,
           Evidence!IdleDeleter, Evidence!evidence, EvidenceInv, Evidence!EvidenceAssumption,
           Reading
  <1>5. (\A e \in Deleters : Locking(e))'
    BY DEF Evidence!CommitRows, Evidence!DeleteRows, Evidence!NoJob, Evidence!WithoutFile,
           Evidence!IdleDeleter, Evidence!evidence, EvidenceInv, Locking
  <1>6. QED
    BY <1>1, <1>2, <1>3, <1>4, <1>5 DEF EvidenceInv

LEMMA EvidenceCommitDelete ==
    ASSUME Evidence!EvidenceAssumption, EvidenceInv, NEW d \in Deleters,
           Evidence!CommitDelete(d)
    PROVE  EvidenceInv'
  <1>1. Evidence!TypeOK'
    BY DEF Evidence!CommitDelete, Evidence!DeleteRows, Evidence!NoJob, Evidence!WithoutFile,
           Evidence!IdleDeleter, Evidence!evidence, Evidence!HeldBy, EvidenceInv,
           Evidence!TypeOK
  <1>2. Evidence!PublishedIsWhole'
    BY DEF Evidence!CommitDelete, Evidence!DeleteRows, Evidence!NoJob, Evidence!WithoutFile,
           Evidence!IdleDeleter, Evidence!evidence, Evidence!HeldBy, EvidenceInv,
           Evidence!PublishedIsWhole
  <1>3. Evidence!NormalizedKeepsItsSet'
    BY DEF Evidence!CommitDelete, Evidence!DeleteRows, Evidence!NoJob, Evidence!WithoutFile,
           Evidence!IdleDeleter, Evidence!evidence, Evidence!HeldBy, EvidenceInv,
           Evidence!TypeOK, Evidence!NormalizedKeepsItsSet
  <1>4. (\A x \in EvidenceWorkers : Reading(x))'
    BY DEF Evidence!CommitDelete, Evidence!DeleteRows, Evidence!NoJob, Evidence!WithoutFile,
           Evidence!IdleDeleter, Evidence!evidence, Evidence!HeldBy, EvidenceInv,
           Evidence!TypeOK, Evidence!EvidenceAssumption, Reading
  <1>5. (\A e \in Deleters : Locking(e))'
    BY DEF Evidence!CommitDelete, Evidence!DeleteRows, Evidence!NoJob, Evidence!WithoutFile,
           Evidence!IdleDeleter, Evidence!evidence, Evidence!HeldBy, EvidenceInv, Locking
  <1>6. QED
    BY <1>1, <1>2, <1>3, <1>4, <1>5 DEF EvidenceInv

LEMMA EvidenceRollBack ==
    ASSUME Evidence!EvidenceAssumption, EvidenceInv, NEW d \in Deleters, Evidence!RollBack(d)
    PROVE  EvidenceInv'
  <1>1. Evidence!TypeOK'
    BY DEF Evidence!RollBack, Evidence!IdleDeleter, Evidence!evidence, Evidence!catalog,
           EvidenceInv, Evidence!TypeOK
  <1>2. Evidence!PublishedIsWhole'
    BY DEF Evidence!RollBack, Evidence!IdleDeleter, Evidence!evidence, Evidence!catalog,
           EvidenceInv, Evidence!PublishedIsWhole
  <1>3. Evidence!NormalizedKeepsItsSet'
    BY DEF Evidence!RollBack, Evidence!IdleDeleter, Evidence!evidence, Evidence!catalog,
           EvidenceInv, Evidence!NormalizedKeepsItsSet
  <1>4. (\A x \in EvidenceWorkers : Reading(x))'
    BY DEF Evidence!RollBack, Evidence!IdleDeleter, Evidence!evidence, Evidence!catalog,
           EvidenceInv, Reading
  <1>5. (\A e \in Deleters : Locking(e))'
    BY DEF Evidence!RollBack, Evidence!IdleDeleter, Evidence!evidence, Evidence!catalog,
           EvidenceInv, Locking
  <1>6. QED
    BY <1>1, <1>2, <1>3, <1>4, <1>5 DEF EvidenceInv

LEMMA EvidenceCountAbandoned ==
    ASSUME Evidence!EvidenceAssumption, EvidenceInv, NEW d \in Deleters,
           Evidence!CountAbandoned(d)
    PROVE  EvidenceInv'
  <1>1. Evidence!TypeOK'
    BY DEF Evidence!CountAbandoned, Evidence!NoJob, Evidence!IdleDeleter, Evidence!evidence,
           Evidence!catalog, EvidenceInv, Evidence!TypeOK
  <1>2. Evidence!PublishedIsWhole'
    BY DEF Evidence!CountAbandoned, Evidence!NoJob, Evidence!IdleDeleter, Evidence!evidence,
           Evidence!catalog, EvidenceInv, Evidence!PublishedIsWhole
  <1>3. Evidence!NormalizedKeepsItsSet'
    BY DEF Evidence!CountAbandoned, Evidence!NoJob, Evidence!IdleDeleter, Evidence!evidence,
           Evidence!catalog, EvidenceInv, Evidence!NormalizedKeepsItsSet
  <1>4. (\A x \in EvidenceWorkers : Reading(x))'
    BY DEF Evidence!CountAbandoned, Evidence!NoJob, Evidence!IdleDeleter, Evidence!evidence,
           Evidence!catalog, EvidenceInv, Reading
  <1>5. (\A e \in Deleters : Locking(e))'
    BY DEF Evidence!CountAbandoned, Evidence!NoJob, Evidence!IdleDeleter, Evidence!evidence,
           Evidence!catalog, EvidenceInv, Locking
  <1>6. QED
    BY <1>1, <1>2, <1>3, <1>4, <1>5 DEF EvidenceInv

LEMMA EvidenceCleanAbandoned ==
    ASSUME Evidence!EvidenceAssumption, EvidenceInv, NEW d \in Deleters,
           Evidence!CleanAbandoned(d)
    PROVE  EvidenceInv'
  <1>1. Evidence!TypeOK'
    BY DEF Evidence!CleanAbandoned, Evidence!HeldBy, Evidence!IdleDeleter, Evidence!catalog,
           EvidenceInv, Evidence!TypeOK
  <1>2. Evidence!PublishedIsWhole'
    BY DEF Evidence!CleanAbandoned, Evidence!HeldBy, Evidence!IdleDeleter, Evidence!catalog,
           EvidenceInv, Evidence!PublishedIsWhole
  <1>3. Evidence!NormalizedKeepsItsSet'
    BY DEF Evidence!CleanAbandoned, Evidence!HeldBy, Evidence!IdleDeleter, Evidence!catalog,
           EvidenceInv, Evidence!EvidenceAssumption, Evidence!NormalizedKeepsItsSet
  <1>4. (\A x \in EvidenceWorkers : Reading(x))'
    BY DEF Evidence!CleanAbandoned, Evidence!HeldBy, Evidence!IdleDeleter, Evidence!catalog,
           EvidenceInv, Evidence!EvidenceAssumption, Reading
  <1>5. (\A e \in Deleters : Locking(e))'
    BY DEF Evidence!CleanAbandoned, Evidence!HeldBy, Evidence!IdleDeleter, Evidence!catalog,
           EvidenceInv, Locking
  <1>6. QED
    BY <1>1, <1>2, <1>3, <1>4, <1>5 DEF EvidenceInv

LEMMA EvidenceStutter ==
    ASSUME Evidence!EvidenceAssumption, EvidenceInv, UNCHANGED Evidence!vars
    PROVE  EvidenceInv'
  <1>1. Evidence!TypeOK'
    BY DEF Evidence!vars, EvidenceInv, Evidence!TypeOK
  <1>2. Evidence!PublishedIsWhole'
    BY DEF Evidence!vars, EvidenceInv, Evidence!PublishedIsWhole
  <1>3. Evidence!NormalizedKeepsItsSet'
    BY DEF Evidence!vars, EvidenceInv, Evidence!NormalizedKeepsItsSet
  <1>4. (\A x \in EvidenceWorkers : Reading(x))'
    BY DEF Evidence!vars, EvidenceInv, Reading
  <1>5. (\A e \in Deleters : Locking(e))'
    BY DEF Evidence!vars, EvidenceInv, Locking
  <1>6. QED
    BY <1>1, <1>2, <1>3, <1>4, <1>5 DEF EvidenceInv


LEMMA EvidenceInit ==
    ASSUME Evidence!EvidenceAssumption, Evidence!Init
    PROVE  EvidenceInv
  BY DEF Evidence!EvidenceAssumption, Evidence!Init, Evidence!NoJob, Evidence!IdleWorker,
         Evidence!IdleDeleter, EvidenceInv, Evidence!TypeOK, Evidence!PublishedIsWhole,
         Evidence!NormalizedKeepsItsSet, Reading, Locking

LEMMA EvidenceStep ==
    ASSUME Evidence!EvidenceAssumption, EvidenceInv, [Evidence!Next]_(Evidence!vars)
    PROVE  EvidenceInv'
  <1>1. ASSUME NEW f \in Files,
               Evidence!Submit(f) \/ Evidence!LoseLease(f) \/ Evidence!Supersede(f)
        PROVE  EvidenceInv'
    BY <1>1, EvidenceSubmit, EvidenceLoseLease, EvidenceSupersede
  <1>2. ASSUME NEW w \in EvidenceWorkers, Evidence!WorkerStep(w)
        PROVE  EvidenceInv'
    BY <1>2, EvidenceClaim, EvidenceWriteElements, EvidenceInsertSet, EvidenceWriteMembers,
       EvidenceCountMembers, EvidenceMarkComplete, EvidenceReadElementSet,
       EvidenceCompleteNormalization, EvidenceIndexBatch, EvidencePromote, EvidenceFail
       DEF Evidence!WorkerStep
  <1>3. ASSUME NEW d \in Deleters, Evidence!DeleterStep(d)
        PROVE  EvidenceInv'
    BY <1>3, EvidenceReplace, EvidenceBeginDelete, EvidenceCommitRows, EvidenceCommitDelete,
       EvidenceRollBack, EvidenceCountAbandoned, EvidenceCleanAbandoned
       DEF Evidence!DeleterStep
  <1>4. QED
    BY <1>1, <1>2, <1>3, EvidenceStutter DEF Evidence!Next

\* Whoever shares a content, and whatever workers lose their leases and deletions race
\* them, a document version has a complete set with every element (promoteJob after
\* validatePublicationArtifacts, against deleteStoredDocumentEvidence).
THEOREM EvidenceOfVersionsIsWhole ==
    ASSUME Evidence!EvidenceAssumption
    PROVE  Evidence!Spec => []Evidence!PublishedIsWhole
  <1>1. Evidence!Init => EvidenceInv
    BY EvidenceInit
  <1>2. EvidenceInv /\ [Evidence!Next]_(Evidence!vars) => EvidenceInv'
    BY EvidenceStep
  <1>3. EvidenceInv => Evidence!PublishedIsWhole
    BY DEF EvidenceInv
  <1>4. QED
    BY <1>1, <1>2, <1>3, PTL DEF Evidence!Spec

\* The set a normalised job refers to is not deleted under it, and every row keeps the
\* row its foreign key names.
THEOREM EvidenceOfJobsIsKept ==
    ASSUME Evidence!EvidenceAssumption
    PROVE  Evidence!Spec => [](Evidence!TypeOK /\ Evidence!NormalizedKeepsItsSet)
  <1>1. Evidence!Init => EvidenceInv
    BY EvidenceInit
  <1>2. EvidenceInv /\ [Evidence!Next]_(Evidence!vars) => EvidenceInv'
    BY EvidenceStep
  <1>3. EvidenceInv => Evidence!TypeOK /\ Evidence!NormalizedKeepsItsSet
    BY DEF EvidenceInv
  <1>4. QED
    BY <1>1, <1>2, <1>3, PTL DEF Evidence!Spec
-----------------------------------------------------------------------------
(* The index generations and their publications (IndexGenerations): an index *)
(* that is searched is whole, and what was built is kept.                    *)

CONSTANTS Sources, IndexDocs, Spaces, IndexWorkers, MaxGenerations, Elements, MaxChanges
VARIABLES spaces, recent, pins, setting, indexJob, manifest, indexRows, published, indexedAs,
          indexWorker, used, gc

Index == INSTANCE IndexGenerations WITH
    Docs <- IndexDocs, Workers <- IndexWorkers, job <- indexJob, rows <- indexRows,
    indexed <- indexedAs, worker <- indexWorker

Known(S) == S \cup {Index!Missing}
IndexJobs ==
    [doc : Known(IndexDocs), space : Known(Spaces), gen : Known(Index!Gens),
     state : {"none", "pending", "running", "failed", "expired"},
     owner : Known(IndexWorkers), phase : {"none", "indexing", "indexed"}, next : {0}]
IndexTasks ==
    [doc : Known(IndexDocs), space : Known(Spaces), gen : Known(Index!Gens),
     state : {"none", "pending", "expired"},
     owner : Known(Sources), phase : {"none", "begin", "indexing", "indexed"}, next : 0 .. Elements]
Manifests ==
    [doc : Known(IndexDocs), space : Known(Spaces), next : 0 .. Elements, completed : BOOLEAN]
Publications == [doc : Known(IndexDocs), gen : Known(Index!Gens)]
IndexRows == [gen : Index!Gens, doc : IndexDocs, space : Spaces, at : Index!Positions]

IndexTyped ==
    /\ spaces \subseteq Spaces /\ recent \subseteq spaces /\ pins \subseteq spaces
    /\ setting \in [space : Spaces, changes : 0 .. MaxChanges]
    /\ indexJob \in [Sources -> IndexJobs]
    /\ manifest \in [Index!Gens -> Manifests]
    /\ indexRows \subseteq IndexRows
    /\ published \in [Sources -> [Spaces -> Publications]]
    /\ indexedAs \in [Sources -> Known(IndexDocs)]
    /\ indexWorker \in [IndexWorkers -> IndexTasks]
    /\ used \in 0 .. MaxGenerations
    /\ gc \in [state : {"none", "running", "failed", "completed"}, active : Known(Spaces),
              todo : SUBSET Spaces]

\* The rows of a generation that has reached position n.
RowsUpTo(g, d, s, n) ==
    {[gen |-> g, doc |-> d, space |-> s, at |-> i] : i \in {k \in Index!Positions : k < n}}
Staged(g) == manifest[g].doc # Index!Missing

\* A job is known with its document, space and generation, which no other job has.
JobIsWhole(f) ==
    LET j == indexJob[f] IN
    IF j.gen = Index!Missing THEN j = Index!NoJob
    ELSE /\ j.doc \in IndexDocs /\ j.space \in Spaces /\ j.state # "none" /\ j.gen <= used
         /\ \A e \in Sources \ {f} : indexJob[e].gen # j.gen
         /\ ~Staged(j.gen) => Index!RowsOf(j.gen) = {}
         /\ j.phase = "indexed" => manifest[j.gen].completed

\* A manifest is that of a job, and says which rows there are.
ManifestIsExact(g) ==
    LET m == manifest[g] IN
    IF ~Staged(g) THEN m = Index!NoManifest
    ELSE /\ \E f \in Sources :
              indexJob[f].gen = g /\ m.doc = indexJob[f].doc /\ m.space = indexJob[f].space
         /\ m.space \in spaces
         /\ m.completed = (m.next = Elements)
         /\ Index!RowsOf(g) = RowsUpTo(g, m.doc, m.space, m.next)

RowIsPlaced(r) ==
    /\ r.space \in spaces /\ r.gen <= used
    /\ \A q \in indexRows : q.gen = r.gen => q.doc = r.doc /\ q.space = r.space

\* What is published has its own generation, with all its rows, and no job any more.
PublicationIsWhole(f, s) ==
    LET p == published[f][s] IN
    p.doc # Index!Missing =>
        /\ p.doc = indexedAs[f] /\ s \in spaces
        /\ p.gen \in Index!Gens /\ p.gen <= used
        /\ Index!RowsOf(p.gen) = RowsUpTo(p.gen, p.doc, s, Elements)
        /\ \A e \in Sources : indexJob[e].gen # p.gen
        /\ \A e \in Sources, u \in Spaces :
              published[e][u].doc # Index!Missing /\ published[e][u].gen = p.gen => e = f /\ u = s

\* A worker works on the job it read: as long as that is there it has its document and
\* space, and the manifest has got as far as the worker.
WorkerIsAbreast(w) ==
    LET k == indexWorker[w] IN
    IF k.gen = Index!Missing THEN k = Index!NoJob
    ELSE /\ k.doc \in IndexDocs /\ k.space \in Spaces /\ k.owner \in Sources /\ k.gen <= used
         /\ \A f \in Sources : indexJob[f].gen = k.gen =>
               /\ f = k.owner /\ k.doc = indexJob[f].doc /\ k.space = indexJob[f].space
               /\ k.phase = "indexing" => Staged(k.gen) /\ k.next <= manifest[k.gen].next
         /\ Index!Owned(w) => indexJob[k.owner].gen = k.gen

IndexInv ==
    /\ IndexTyped
    /\ \A f \in Sources : JobIsWhole(f)
    /\ \A g \in Index!Gens : ManifestIsExact(g)
    /\ \A r \in indexRows : RowIsPlaced(r)
    /\ \A f \in Sources, s \in Spaces : PublicationIsWhole(f, s)
    /\ \A w \in IndexWorkers : WorkerIsAbreast(w)

\* A manifest stays exact as long as its job, its space and its rows stay.
LEMMA ManifestKept ==
    ASSUME IndexInv, NEW g \in Index!Gens, manifest'[g] = manifest[g],
           Staged(g) => manifest[g].space \in spaces' /\ Index!RowsOf(g)' = Index!RowsOf(g),
           \A f \in Sources : indexJob[f].gen = g =>
              indexJob'[f].gen = g /\ indexJob'[f].doc = indexJob[f].doc
              /\ indexJob'[f].space = indexJob[f].space
    PROVE  ManifestIsExact(g)'
  <1>1. CASE ~Staged(g)
    BY <1>1 DEF IndexInv, ManifestIsExact, Staged
  <1>2. CASE Staged(g)
    <2>1. PICK f \in Sources : indexJob[f].gen = g /\ manifest[g].doc = indexJob[f].doc
                               /\ manifest[g].space = indexJob[f].space
      BY <1>2 DEF IndexInv, ManifestIsExact
    <2>2. /\ manifest[g].completed = (manifest[g].next = Elements)
          /\ Index!RowsOf(g)
                = RowsUpTo(g, manifest[g].doc, manifest[g].space, manifest[g].next)
      BY <1>2 DEF IndexInv, ManifestIsExact
    <2>3. indexJob'[f].gen = g /\ indexJob'[f].doc = indexJob[f].doc
          /\ indexJob'[f].space = indexJob[f].space
      BY <2>1
    <2>4. RowsUpTo(g, manifest[g].doc, manifest[g].space, manifest[g].next)'
             = RowsUpTo(g, manifest'[g].doc, manifest'[g].space, manifest'[g].next)
      BY DEF RowsUpTo, Index!Positions
    <2>5. QED
      BY <1>2, <2>1, <2>2, <2>3, <2>4 DEF ManifestIsExact, Staged
  <1>3. QED
    BY <1>1, <1>2

LEMMA ManifestGone ==
    ASSUME NEW g \in Index!Gens, manifest'[g] = Index!NoManifest
    PROVE  ManifestIsExact(g)'
  BY DEF ManifestIsExact, Staged, Index!NoManifest

\* A worker that is in a phase has a job.
LEMMA WorkerHasJob ==
    ASSUME IndexInv, NEW w \in IndexWorkers, indexWorker[w].phase # "none"
    PROVE  /\ indexWorker[w].gen \in Index!Gens /\ indexWorker[w].gen # Index!Missing
           /\ indexWorker[w].doc \in IndexDocs /\ indexWorker[w].space \in Spaces
           /\ indexWorker[w].owner \in Sources
  <1>1. indexWorker[w].gen # Index!Missing
    BY DEF IndexInv, WorkerIsAbreast, Index!NoJob
  <1>2. indexWorker[w].gen \in Index!Gens
    BY <1>1 DEF IndexInv, IndexTyped, IndexTasks, Known
  <1>3. QED
    BY <1>1, <1>2 DEF IndexInv, WorkerIsAbreast

\* What beginEmbeddingGeneration finds or makes: the manifest of its worker's document.
LEMMA IndexBegun ==
    ASSUME Index!IndexAssumption, IndexInv, NEW w \in IndexWorkers, Index!Begin(w),
           ~(Index!Stops(w) /\ manifest' = manifest)
    PROVE  LET k == indexWorker[w]
               g == indexWorker[w].gen IN
           /\ indexWorker[w].space \in spaces
           /\ \E f \in Sources : indexJob[f].gen = g
           /\ \E m \in Manifests :
                 /\ manifest' = [manifest EXCEPT ![g] = m]
                 /\ m.doc = k.doc /\ m.space = k.space
                 /\ IF Staged(g) THEN m = manifest[g] ELSE m.next = 0 /\ ~m.completed
                 /\ indexWorker' = [indexWorker EXCEPT ![w] =
                       [k EXCEPT !.next = m.next, !.phase = "indexing"]]
  <1> DEFINE k == indexWorker[w]
             g == indexWorker[w].gen
             m == IF manifest[g].doc # Index!Missing THEN manifest[g]
                  ELSE [Index!NoManifest EXCEPT !.doc = k.doc, !.space = k.space]
  <1>1. /\ g \in Index!Gens /\ g # Index!Missing /\ k.doc \in IndexDocs /\ k.space \in Spaces
        /\ k.owner \in Sources
    BY WorkerHasJob DEF Index!Begin
  <1>2. Index!HasJob(g) /\ k.space \in spaces
        /\ manifest' = [manifest EXCEPT ![g] = m]
        /\ indexWorker' = [indexWorker EXCEPT ![w].next = m.next, ![w].phase = "indexing"]
    <2>1. CASE Index!HasJob(g) /\ k.space \in spaces
      BY <2>1, Zenon DEF Index!Begin
    <2>2. CASE ~(Index!HasJob(g) /\ k.space \in spaces)
      BY <2>2, Zenon DEF Index!Begin
    <2>3. QED
      BY <2>1, <2>2
  <1>3. PICK f \in Sources : indexJob[f].gen = g
    BY <1>2 DEF Index!HasJob
  <1>4. f = k.owner /\ k.doc = indexJob[f].doc /\ k.space = indexJob[f].space
    BY <1>1, <1>3 DEF IndexInv, WorkerIsAbreast
  <1>5. m \in Manifests /\ m.doc = k.doc /\ m.space = k.space
        /\ IF Staged(g) THEN m = manifest[g] ELSE m.next = 0 /\ ~m.completed
    <2>1. CASE Staged(g)
      <3>1. m = manifest[g]
        BY <2>1 DEF Staged
      <3>2. PICK e \in Sources : indexJob[e].gen = g /\ manifest[g].doc = indexJob[e].doc
                                 /\ manifest[g].space = indexJob[e].space
        BY <1>1, <2>1 DEF IndexInv, ManifestIsExact
      <3>3. e = f
        BY <1>1, <1>3, <3>2 DEF IndexInv, JobIsWhole
      <3>4. QED
        BY <1>1, <1>4, <2>1, <3>1, <3>2, <3>3 DEF IndexInv, IndexTyped
    <2>2. CASE ~Staged(g)
      <3>1. m = [Index!NoManifest EXCEPT !.doc = k.doc, !.space = k.space]
        BY <2>2, Zenon DEF Staged
      <3>2. Index!NoManifest \in Manifests /\ Index!NoManifest.next = 0
            /\ Index!NoManifest.completed = FALSE
        BY DEF Index!NoManifest, Manifests, Known, Index!IndexAssumption
      <3>3. QED
        BY <1>1, <2>2, <3>1, <3>2 DEF Manifests, Known
    <2>3. QED
      BY <2>1, <2>2
  <1>6. indexWorker' = [indexWorker EXCEPT ![w] = [k EXCEPT !.next = m.next, !.phase = "indexing"]]
    <2> HIDE DEF m
    <2>1. indexWorker' = [indexWorker EXCEPT ![w].next = m.next, ![w].phase = "indexing"]
      BY <1>2
    <2>2. QED
      BY <2>1, Zenon
  <1> HIDE DEF m
  <1>7. QED
    BY <1>2, <1>3, <1>5, <1>6

\* What stageRetrievalRepresentationBatch writes: the next row, and the position after it.
LEMMA IndexStaged ==
    ASSUME Index!IndexAssumption, IndexInv, NEW w \in IndexWorkers, Index!Stage(w),
           Index!StagesNext(w)
    PROVE  LET k == indexWorker[w]
               g == indexWorker[w].gen IN
           /\ Staged(g) /\ g \in Index!Gens /\ k.next \in Index!Positions
           /\ manifest[g].doc = k.doc /\ manifest[g].space = k.space /\ manifest[g].next = k.next
           /\ ~manifest[g].completed
           /\ \E m \in Manifests :
                 /\ manifest' = [manifest EXCEPT ![g] = m]
                 /\ m.doc = k.doc /\ m.space = k.space /\ m.next = k.next + 1
                 /\ m.completed = (k.next + 1 = Elements)
           /\ \E r \in IndexRows :
                 /\ indexRows' = indexRows \cup {r}
                 /\ r = [gen |-> g, doc |-> k.doc, space |-> k.space, at |-> k.next]
           /\ indexWorker' = [indexWorker EXCEPT ![w] = [k EXCEPT !.next = k.next + 1]]
  <1> DEFINE k == indexWorker[w]
             g == indexWorker[w].gen
             n == indexWorker[w].next
             r == [gen |-> g, doc |-> k.doc, space |-> k.space, at |-> n]
  <1>1. g \in Index!Gens /\ k.doc \in IndexDocs /\ k.space \in Spaces
    BY WorkerHasJob DEF Index!Stage
  <1>2. n \in 0 .. Elements /\ n < Elements
    BY DEF Index!Stage, IndexInv, IndexTyped, IndexTasks
  <1>3. n \in Index!Positions /\ n + 1 \in 0 .. Elements
    BY <1>2 DEF Index!Positions, Index!IndexAssumption
  <1>4. /\ Staged(g) /\ manifest[g].doc = k.doc /\ manifest[g].space = k.space
        /\ manifest[g].next = n /\ ~manifest[g].completed
    BY DEF Index!StagesNext, Index!Matches, Staged
  <1>5. /\ indexRows' = indexRows \cup {r}
        /\ manifest' = [manifest EXCEPT ![g].next = n + 1, ![g].completed = (n + 1 = Elements)]
        /\ indexWorker' = [indexWorker EXCEPT ![w].next = n + 1]
    BY Zenon DEF Index!Stage
  <1>6. PICK m \in Manifests : m = manifest[g]
    BY <1>1 DEF IndexInv, IndexTyped
  <1> DEFINE mm == [m EXCEPT !.next = n + 1, !.completed = (n + 1 = Elements)]
  <1>7. mm \in Manifests /\ mm.doc = m.doc /\ mm.space = m.space /\ mm.next = n + 1
        /\ mm.completed = (n + 1 = Elements)
    BY <1>3 DEF Manifests
  <1>8. manifest' = [manifest EXCEPT ![g] = mm]
    BY <1>5, <1>6, Zenon
  <1>9. indexWorker' = [indexWorker EXCEPT ![w] = [k EXCEPT !.next = n + 1]]
    BY <1>5, Zenon
  <1>10. r \in IndexRows
    BY <1>1, <1>3 DEF IndexRows
  <1> HIDE DEF mm, r
  <1>11. QED
    BY <1>1, <1>3, <1>4, <1>5, <1>6, <1>7, <1>8, <1>9, <1>10 DEF r

\* A worker that owns a running job works on its present generation.
LEMMA IndexOwned ==
    ASSUME IndexInv, NEW w \in IndexWorkers, indexWorker[w].gen # Index!Missing, Index!Owned(w)
    PROVE  LET k == indexWorker[w]
               j == indexJob[indexWorker[w].owner] IN
           /\ k.owner \in Sources /\ j.gen = k.gen /\ j.doc = k.doc /\ j.space = k.space
           /\ k.gen \in Index!Gens /\ j \in IndexJobs
           /\ k.phase = "indexing" => Staged(k.gen) /\ k.next <= manifest[k.gen].next
  <1>1. indexWorker[w].owner \in Sources /\ indexWorker[w].gen \in Index!Gens
    BY DEF IndexInv, IndexTyped, IndexTasks, WorkerIsAbreast, Known
  <1>2. indexJob[indexWorker[w].owner].gen = indexWorker[w].gen
    BY DEF IndexInv, WorkerIsAbreast
  <1>3. QED
    BY <1>1, <1>2 DEF IndexInv, IndexTyped, WorkerIsAbreast

\* A generation that is complete has all its rows, and can be published.
LEMMA CompleteIsPublishable ==
    ASSUME Index!IndexAssumption, IndexInv, NEW f \in Sources, indexJob[f].phase = "indexed"
    PROVE  /\ indexJob[f].gen \in Index!Gens /\ indexJob[f].gen # Index!Missing
           /\ indexJob[f].doc \in IndexDocs /\ indexJob[f].space \in Spaces
           /\ indexJob[f].space \in spaces
           /\ Index!RowsOf(indexJob[f].gen)
                 = RowsUpTo(indexJob[f].gen, indexJob[f].doc, indexJob[f].space, Elements)
           /\ Index!Publishable(indexJob[f])
  <1> DEFINE g == indexJob[f].gen
  <1>1. g # Index!Missing
    BY DEF IndexInv, JobIsWhole, Index!NoJob
  <1>2. g \in Index!Gens
    BY <1>1 DEF IndexInv, IndexTyped, IndexJobs, Known
  <1>3. manifest[g].completed /\ indexJob[f].doc \in IndexDocs /\ indexJob[f].space \in Spaces
    BY <1>1 DEF IndexInv, JobIsWhole
  <1>4. Staged(g)
    BY <1>2, <1>3 DEF IndexInv, ManifestIsExact, Index!NoManifest
  <1>5. PICK e \in Sources : indexJob[e].gen = g /\ manifest[g].doc = indexJob[e].doc
                             /\ manifest[g].space = indexJob[e].space
    BY <1>2, <1>4 DEF IndexInv, ManifestIsExact
  <1>6. e = f
    BY <1>1, <1>5 DEF IndexInv, JobIsWhole
  <1>7. /\ manifest[g].space \in spaces /\ manifest[g].next = Elements
        /\ Index!RowsOf(g) = RowsUpTo(g, manifest[g].doc, manifest[g].space, manifest[g].next)
    BY <1>2, <1>3, <1>4 DEF IndexInv, ManifestIsExact
  <1>8. Index!RowsOf(g) = RowsUpTo(g, indexJob[f].doc, indexJob[f].space, Elements)
    BY <1>5, <1>6, <1>7
  <1>9. {r.at : r \in Index!RowsOf(g)} = Index!Positions
    <2>1. {k \in Index!Positions : k < Elements} = Index!Positions
      BY DEF Index!Positions, Index!IndexAssumption
    <2>2. RowsUpTo(g, indexJob[f].doc, indexJob[f].space, Elements)
             = {[gen |-> g, doc |-> indexJob[f].doc, space |-> indexJob[f].space, at |-> i] :
                  i \in Index!Positions}
      BY <2>1 DEF RowsUpTo
    <2>3. ASSUME NEW i \in Index!Positions
          PROVE  \E r \in Index!RowsOf(g) : r.at = i
      <3>1. [gen |-> g, doc |-> indexJob[f].doc, space |-> indexJob[f].space, at |-> i]
               \in Index!RowsOf(g)
        BY <1>8, <2>2
      <3>2. [gen |-> g, doc |-> indexJob[f].doc, space |-> indexJob[f].space, at |-> i].at = i
        OBVIOUS
      <3>3. QED
        BY <3>1, <3>2
    <2>4. \A r \in Index!RowsOf(g) : r.at \in Index!Positions
      BY <1>8, <2>2
    <2> HIDE DEF g
    <2>5. QED
      BY <2>3, <2>4
  <1>10. QED
    BY <1>1, <1>2, <1>3, <1>5, <1>6, <1>7, <1>8, <1>9 DEF Index!Publishable

\* A worker stays abreast of its job as long as that only moves on or goes.
LEMMA AbreastKept ==
    ASSUME IndexInv, NEW w \in IndexWorkers, indexWorker'[w] = indexWorker[w],
           used' \in Nat, used <= used',
           indexWorker[w].gen # Index!Missing =>
              /\ \A f \in Sources : indexJob'[f].gen = indexWorker[w].gen =>
                    /\ indexJob[f].gen = indexWorker[w].gen
                    /\ indexJob'[f].doc = indexJob[f].doc /\ indexJob'[f].space = indexJob[f].space
                    /\ Staged(indexWorker[w].gen) =>
                          /\ Staged(indexWorker[w].gen)'
                          /\ manifest'[indexWorker[w].gen].next \in Nat
                          /\ manifest[indexWorker[w].gen].next <= manifest'[indexWorker[w].gen].next
              /\ Index!Owned(w)' =>
                    /\ Index!Owned(w)
                    /\ indexJob'[indexWorker[w].owner].gen = indexJob[indexWorker[w].owner].gen
    PROVE  WorkerIsAbreast(w)'
  <1>1. CASE indexWorker[w].gen = Index!Missing
    BY <1>1 DEF IndexInv, WorkerIsAbreast, Index!NoJob
  <1>2. CASE indexWorker[w].gen # Index!Missing
    <2>1. indexWorker[w].gen \in Index!Gens /\ indexWorker[w].gen \in Nat
          /\ indexWorker[w].next \in Nat /\ used \in Nat
      BY <1>2 DEF IndexInv, IndexTyped, IndexTasks, Known, Index!Gens, Index!Missing
    <2>2. manifest[indexWorker[w].gen].next \in Nat
      BY <2>1 DEF IndexInv, IndexTyped, Manifests
    <2> DEFINE k == indexWorker[w]
    <2>3. k.doc \in IndexDocs /\ k.space \in Spaces /\ k.owner \in Sources /\ k.gen <= used'
      BY <1>2, <2>1 DEF IndexInv, WorkerIsAbreast
    <2>4. ASSUME NEW f \in Sources, indexJob'[f].gen = k.gen
          PROVE  /\ f = k.owner /\ k.doc = indexJob'[f].doc /\ k.space = indexJob'[f].space
                 /\ k.phase = "indexing" => Staged(k.gen)' /\ k.next <= manifest'[k.gen].next
      BY <1>2, <2>1, <2>2, <2>4 DEF IndexInv, WorkerIsAbreast
    <2>5. Index!Owned(w)' => indexJob'[k.owner].gen = k.gen
      BY <1>2 DEF IndexInv, WorkerIsAbreast
    <2>6. QED
      BY <1>2, <2>3, <2>4, <2>5 DEF WorkerIsAbreast, Staged
  <1>3. QED
    BY <1>1, <1>2

LEMMA AbreastStopped ==
    ASSUME NEW w \in IndexWorkers, indexWorker'[w] = Index!NoJob
    PROVE  WorkerIsAbreast(w)'
  BY DEF WorkerIsAbreast, Index!NoJob

\* Nothing is a job, a task, a manifest and a publication like any other.
LEMMA IndexEmpties ==
    ASSUME Index!IndexAssumption
    PROVE  /\ Index!NoJob \in IndexJobs /\ Index!NoJob \in IndexTasks
           /\ Index!NoManifest \in Manifests /\ Index!Nothing \in Publications
  BY DEF Index!IndexAssumption, Index!NoJob, Index!NoManifest, Index!Nothing, IndexJobs, IndexTasks,
         Manifests, Publications, Known

LEMMA ManifestsKept ==
    ASSUME IndexInv, manifest' = manifest, indexRows' = indexRows, spaces \subseteq spaces',
           \A f \in Sources : indexJob'[f].gen = indexJob[f].gen
              /\ indexJob'[f].doc = indexJob[f].doc /\ indexJob'[f].space = indexJob[f].space
    PROVE  (\A g_1 \in Index!Gens : ManifestIsExact(g_1))'
  <1>1. ASSUME NEW g \in Index!Gens
        PROVE  ManifestIsExact(g)'
    <2>1. Staged(g) => manifest[g].space \in spaces' /\ Index!RowsOf(g)' = Index!RowsOf(g)
      BY DEF IndexInv, ManifestIsExact, Index!RowsOf
    <2>2. QED
      BY <2>1, ManifestKept
  <1>2. QED
    BY <1>1 DEF Index!Gens

\* A job that changes state and owner is the same job.
LEMMA JobRestated ==
    ASSUME IndexInv, NEW f \in Sources, NEW o \in Known(IndexWorkers),
           NEW q \in {"none", "pending", "running", "failed", "expired"},
           indexJob' = [indexJob EXCEPT ![f].state = q, ![f].owner = o]
    PROVE  /\ indexJob' \in [Sources -> IndexJobs]
           /\ \A e \in Sources \ {f} : indexJob'[e] = indexJob[e]
           /\ \A e \in Sources :
                 /\ indexJob'[e].gen = indexJob[e].gen /\ indexJob'[e].doc = indexJob[e].doc
                 /\ indexJob'[e].space = indexJob[e].space /\ indexJob'[e].phase = indexJob[e].phase
           /\ indexJob'[f].state = q /\ indexJob'[f].owner = o
  <1>1. PICK j \in IndexJobs : j = indexJob[f]
    BY DEF IndexInv, IndexTyped
  <1> DEFINE i == [j EXCEPT !.state = q, !.owner = o]
  <1>2. /\ i \in IndexJobs /\ i.gen = j.gen /\ i.doc = j.doc /\ i.space = j.space
        /\ i.phase = j.phase /\ i.state = q /\ i.owner = o
    BY DEF IndexJobs
  <1>3. indexJob' = [indexJob EXCEPT ![f] = i]
    BY <1>1, Zenon
  <1> HIDE DEF i
  <1>4. QED
    BY <1>1, <1>2, <1>3 DEF IndexInv, IndexTyped

\* completeIndexing of the owner: its generation is complete.
LEMMA IndexCompleted ==
    ASSUME Index!IndexAssumption, IndexInv, NEW w \in IndexWorkers, Index!CompleteIndexing(w),
           Index!Owned(w)
    PROVE  LET k == indexWorker[w]
               f == indexWorker[w].owner IN
           /\ f \in Sources /\ k.gen \in Index!Gens /\ manifest[k.gen].completed
           /\ indexJob[f].gen = k.gen
           /\ \E i \in IndexJobs :
                 /\ indexJob' = [indexJob EXCEPT ![f] = i]
                 /\ i.gen = indexJob[f].gen /\ i.doc = indexJob[f].doc /\ i.space = indexJob[f].space
                 /\ i.state = indexJob[f].state /\ i.owner = indexJob[f].owner
                 /\ i.phase = "indexed"
           /\ indexWorker' = [indexWorker EXCEPT ![w] = [k EXCEPT !.phase = "indexed"]]
  <1> DEFINE k == indexWorker[w]
             f == indexWorker[w].owner
  <1>1. k.phase = "indexing" /\ k.next = Elements
        /\ indexJob' = [indexJob EXCEPT ![f].phase = "indexed"]
        /\ indexWorker' = [indexWorker EXCEPT ![w].phase = "indexed"]
    BY Zenon DEF Index!CompleteIndexing, Index!File
  <1>2. /\ f \in Sources /\ indexJob[f].gen = k.gen /\ k.gen \in Index!Gens
        /\ Staged(k.gen) /\ k.next <= manifest[k.gen].next
    BY <1>1, WorkerHasJob, IndexOwned
  <1>3. manifest[k.gen].next \in 0 .. Elements
    BY <1>2 DEF IndexInv, IndexTyped, Manifests
  <1>4. manifest[k.gen].next = Elements
    BY <1>1, <1>2, <1>3 DEF Index!IndexAssumption
  <1>5. manifest[k.gen].completed
    BY <1>2, <1>4 DEF IndexInv, ManifestIsExact
  <1>6. PICK j \in IndexJobs : j = indexJob[f]
    BY <1>2 DEF IndexInv, IndexTyped
  <1> DEFINE i == [j EXCEPT !.phase = "indexed"]
  <1>7. /\ i \in IndexJobs /\ i.gen = j.gen /\ i.doc = j.doc /\ i.space = j.space
        /\ i.phase = "indexed" /\ i.state = j.state /\ i.owner = j.owner
    BY DEF IndexJobs
  <1>8. indexJob' = [indexJob EXCEPT ![f] = i]
    BY <1>1, <1>6, Zenon
  <1>9. indexWorker' = [indexWorker EXCEPT ![w] = [k EXCEPT !.phase = "indexed"]]
    BY <1>1, Zenon
  <1> HIDE DEF i
  <1>10. QED
    BY <1>2, <1>5, <1>6, <1>7, <1>8, <1>9

\* Where a space is collected, no manifest is: a staged generation has a job, whose
\* space is protected.
LEMMA CollectKeepsManifests ==
    ASSUME Index!IndexAssumption, IndexInv, NEW s \in Spaces, Index!Collect(s)
    PROVE  /\ manifest' = manifest
           /\ \A g \in Index!Gens : Staged(g) =>
                 manifest[g].space \in spaces' /\ Index!RowsOf(g)' = Index!RowsOf(g)
  <1>1. CASE s \in spaces /\ Index!Protected(s)
    <2>1. UNCHANGED <<spaces, manifest, indexRows>>
      BY <1>1 DEF Index!Collect
    <2>2. QED
      BY <2>1 DEF IndexInv, ManifestIsExact, Index!RowsOf
  <1>2. CASE ~(s \in spaces /\ Index!Protected(s))
    <2>1. /\ spaces' = spaces \ {s} /\ indexRows' = {r \in indexRows : r.space # s}
          /\ manifest' = [g \in Index!Gens |->
                IF manifest[g].space = s THEN Index!NoManifest ELSE manifest[g]]
      BY <1>2 DEF Index!Collect
    <2>2. ASSUME NEW g \in Index!Gens, Staged(g)
          PROVE  /\ manifest[g].space # s /\ manifest[g].space \in spaces
                 /\ \A r \in Index!RowsOf(g) : r.space = manifest[g].space
      <3>1. PICK f \in Sources : indexJob[f].gen = g /\ manifest[g].space = indexJob[f].space
        BY <2>2 DEF IndexInv, ManifestIsExact
      <3>2. manifest[g].space \in Index!JobSpaces /\ manifest[g].space \in spaces
        BY <2>2, <3>1 DEF IndexInv, ManifestIsExact, Index!JobSpaces
      <3>3. manifest[g].space # s
        BY <1>2, <3>2 DEF Index!Protected
      <3>4. Index!RowsOf(g)
               = RowsUpTo(g, manifest[g].doc, manifest[g].space, manifest[g].next)
        BY <2>2 DEF IndexInv, ManifestIsExact
      <3>5. \A r \in Index!RowsOf(g) : r.space = manifest[g].space
        BY <3>4 DEF RowsUpTo
      <3>6. QED
        BY <3>2, <3>3, <3>5
    <2>3. ASSUME NEW g \in Index!Gens
          PROVE  manifest'[g] = manifest[g]
      <3>1. CASE Staged(g)
        BY <2>1, <2>2, <3>1
      <3>2. CASE ~Staged(g)
        BY <2>1, <3>2 DEF IndexInv, ManifestIsExact
      <3>3. QED
        BY <3>1, <3>2
    <2>4. manifest' = manifest
      BY <2>1, <2>3 DEF IndexInv, IndexTyped
    <2>5. ASSUME NEW g \in Index!Gens, Staged(g)
          PROVE  Index!RowsOf(g)' = Index!RowsOf(g)
      BY <2>1, <2>2, <2>5 DEF Index!RowsOf
    <2>6. QED
      BY <2>1, <2>2, <2>4, <2>5
  <1>3. QED
    BY <1>1, <1>2

\* What promoteJob does when it publishes: the job goes, its generation is published,
\* and the rows of the generations it replaces go, which are the source's own.
LEMMA IndexPromoted ==
    ASSUME Index!IndexAssumption, IndexInv, NEW w \in IndexWorkers, Index!Promote(w),
           NEW f \in Sources, f = indexWorker[w].owner,
           Index!Owned(w), indexJob[f].phase = "indexed"
    PROVE  /\ indexedAs' = [indexedAs EXCEPT ![f] = indexJob[f].doc]
           /\ published' = [published EXCEPT ![f] = [s \in Spaces |->
                 IF s = indexJob[f].space THEN [doc |-> indexJob[f].doc, gen |-> indexJob[f].gen]
                 ELSE IF s \in Index!Replaced(f, indexJob[f]) THEN Index!Nothing
                 ELSE published[f][s]]]
           /\ indexJob' = [indexJob EXCEPT ![f] = Index!NoJob]
           /\ manifest' = [manifest EXCEPT ![indexJob[f].gen] = Index!NoManifest]
           /\ indexWorker' = [indexWorker EXCEPT ![w] = Index!NoJob]
           /\ indexRows' \subseteq indexRows
           /\ \A g \in Index!Gens : Index!RowsOf(g)' = Index!RowsOf(g)
                 \/ (g # indexJob[f].gen /\ \E s \in Index!Replaced(f, indexJob[f]) : published[f][s].gen = g)
           /\ UNCHANGED <<spaces, recent, pins, setting, used, gc>>
  <1> DEFINE j == indexJob[f]
  <1>1. Index!Publishable(j)
    BY CompleteIsPublishable
  <1>2. Index!File(w) = f
    BY DEF Index!File
  <1>3. /\ indexedAs' = [indexedAs EXCEPT ![f] = j.doc]
        /\ published' = [published EXCEPT ![f] = [s \in Spaces |->
              IF s = j.space THEN [doc |-> j.doc, gen |-> j.gen]
              ELSE IF s \in Index!Replaced(f, j) THEN Index!Nothing ELSE published[f][s]]]
        /\ indexJob' = [indexJob EXCEPT ![f] = Index!NoJob]
        /\ manifest' = [manifest EXCEPT ![j.gen] = Index!NoManifest]
        /\ indexRows' = {r \in indexRows : r.gen \notin Index!ReplacedGenerations(f, j)}
    BY <1>1, <1>2, Zenon DEF Index!Promote
  <1>4. indexWorker' = [indexWorker EXCEPT ![w] = Index!NoJob]
        /\ UNCHANGED <<spaces, recent, pins, setting, used, gc>>
    BY DEF Index!Promote, Index!Stops, Index!settings
  <1>5. ASSUME NEW g \in Index!Gens,
               g = j.gen \/ ~ (\E s \in Index!Replaced(f, j) : published[f][s].gen = g)
        PROVE  Index!RowsOf(g)' = Index!RowsOf(g)
    <2>1. g \notin Index!ReplacedGenerations(f, j)
      BY <1>5 DEF Index!ReplacedGenerations
    <2>2. QED
      BY <1>3, <2>1 DEF Index!RowsOf
  <1>6. QED
    BY <1>3, <1>4, <1>5

\* Otherwise its worker just stops.
LEMMA IndexNotPromoted ==
    ASSUME IndexInv, NEW w \in IndexWorkers, Index!Promote(w), NEW f \in Sources,
           f = indexWorker[w].owner, ~(Index!Owned(w) /\ indexJob[f].phase = "indexed")
    PROVE  /\ indexWorker' = [indexWorker EXCEPT ![w] = Index!NoJob]
           /\ UNCHANGED <<indexedAs, published, indexRows, indexJob, manifest>>
           /\ UNCHANGED <<spaces, recent, pins, setting, used, gc>>
  BY DEF Index!Promote, Index!Stops, Index!File, Index!settings

LEMMA PublicationsKept ==
    ASSUME IndexInv, UNCHANGED <<spaces, published, indexedAs, indexRows, used>>,
           \A f \in Sources : indexJob'[f].gen = indexJob[f].gen
    PROVE  (\A f_1 \in Sources, s_1 \in Spaces : PublicationIsWhole(f_1, s_1))'
  <1>1. ASSUME NEW f \in Sources, NEW s \in Spaces
        PROVE  PublicationIsWhole(f, s)'
    <2>1. Index!RowsOf(published[f][s].gen)' = Index!RowsOf(published[f][s].gen)
          /\ RowsUpTo(published[f][s].gen, published[f][s].doc, s, Elements)'
                = RowsUpTo(published[f][s].gen, published[f][s].doc, s, Elements)
      BY DEF Index!RowsOf, RowsUpTo, Index!Positions
    <2>2. QED
      BY <2>1 DEF IndexInv, PublicationIsWhole, Index!Gens
  <1>2. QED
    BY <1>1

LEMMA IndexChangeActiveSpace ==
    ASSUME Index!IndexAssumption, IndexInv, NEW s \in Spaces, Index!ChangeActiveSpace(s)
    PROVE  IndexInv'
  <1>1. IndexTyped'
    BY DEF Index!ChangeActiveSpace, Index!catalog, IndexInv, Index!IndexAssumption, IndexTyped
  <1>2. (\A f_1 \in Sources : JobIsWhole(f_1))'
    BY DEF Index!ChangeActiveSpace, Index!catalog, IndexInv, JobIsWhole, Staged, Index!RowsOf
  <1>3. (\A g_1 \in Index!Gens : ManifestIsExact(g_1))'
    BY DEF Index!ChangeActiveSpace, Index!catalog, IndexInv, ManifestIsExact, Staged,
           Index!RowsOf, RowIsPlaced
  <1>4. (\A r_1 \in indexRows : RowIsPlaced(r_1))'
    BY DEF Index!ChangeActiveSpace, Index!catalog, IndexInv, RowIsPlaced
  <1>5. (\A f_1 \in Sources, s_1 \in Spaces : PublicationIsWhole(f_1, s_1))'
    BY DEF Index!ChangeActiveSpace, Index!catalog, IndexInv, PublicationIsWhole, Index!RowsOf,
           JobIsWhole
  <1>6. (\A w_1 \in IndexWorkers : WorkerIsAbreast(w_1))'
    BY DEF Index!ChangeActiveSpace, Index!catalog, IndexInv, WorkerIsAbreast, Staged,
           Index!Owned, Index!File
  <1>7. QED
    BY <1>1, <1>2, <1>3, <1>4, <1>5, <1>6 DEF IndexInv

LEMMA IndexGrowOld ==
    ASSUME Index!IndexAssumption, IndexInv, NEW s \in Spaces, Index!GrowOld(s)
    PROVE  IndexInv'
  <1>1. IndexTyped'
    BY DEF Index!GrowOld, Index!catalog, IndexInv, IndexTyped
  <1>2. (\A f_1 \in Sources : JobIsWhole(f_1))'
    BY DEF Index!GrowOld, Index!catalog, IndexInv, JobIsWhole, Staged, Index!RowsOf
  <1>3. (\A g_1 \in Index!Gens : ManifestIsExact(g_1))'
    BY DEF Index!GrowOld, Index!catalog, IndexInv, ManifestIsExact, Staged, Index!RowsOf,
           RowIsPlaced
  <1>4. (\A r_1 \in indexRows : RowIsPlaced(r_1))'
    BY DEF Index!GrowOld, Index!catalog, IndexInv, RowIsPlaced
  <1>5. (\A f_1 \in Sources, s_1 \in Spaces : PublicationIsWhole(f_1, s_1))'
    BY DEF Index!GrowOld, Index!catalog, IndexInv, PublicationIsWhole, Index!RowsOf, RowIsPlaced
  <1>6. (\A w_1 \in IndexWorkers : WorkerIsAbreast(w_1))'
    BY DEF Index!GrowOld, Index!catalog, IndexInv, WorkerIsAbreast, Staged, Index!Owned,
           Index!File
  <1>7. QED
    BY <1>1, <1>2, <1>3, <1>4, <1>5, <1>6 DEF IndexInv

LEMMA IndexPin ==
    ASSUME Index!IndexAssumption, IndexInv, NEW s \in Spaces, Index!Pin(s)
    PROVE  IndexInv'
  <1>1. IndexTyped'
    BY DEF Index!Pin, Index!catalog, IndexInv, IndexTyped
  <1>2. (\A f_1 \in Sources : JobIsWhole(f_1))'
    BY DEF Index!Pin, Index!catalog, IndexInv, JobIsWhole, Staged, Index!RowsOf
  <1>3. (\A g_1 \in Index!Gens : ManifestIsExact(g_1))'
    BY DEF Index!Pin, Index!catalog, IndexInv, ManifestIsExact, Staged, Index!RowsOf,
           RowIsPlaced
  <1>4. (\A r_1 \in indexRows : RowIsPlaced(r_1))'
    BY DEF Index!Pin, Index!catalog, IndexInv, RowIsPlaced
  <1>5. (\A f_1 \in Sources, s_1 \in Spaces : PublicationIsWhole(f_1, s_1))'
    BY DEF Index!Pin, Index!catalog, IndexInv, PublicationIsWhole, Index!RowsOf
  <1>6. (\A w_1 \in IndexWorkers : WorkerIsAbreast(w_1))'
    BY DEF Index!Pin, Index!catalog, IndexInv, WorkerIsAbreast, Staged, Index!Owned, Index!File
  <1>7. QED
    BY <1>1, <1>2, <1>3, <1>4, <1>5, <1>6 DEF IndexInv

LEMMA IndexUnpin ==
    ASSUME Index!IndexAssumption, IndexInv, NEW s \in Spaces, Index!Unpin(s)
    PROVE  IndexInv'
  <1>1. IndexTyped'
    BY DEF Index!Unpin, Index!catalog, IndexInv, IndexTyped
  <1>2. (\A f_1 \in Sources : JobIsWhole(f_1))'
    BY DEF Index!Unpin, Index!catalog, IndexInv, JobIsWhole, Staged, Index!RowsOf
  <1>3. (\A g_1 \in Index!Gens : ManifestIsExact(g_1))'
    BY DEF Index!Unpin, Index!catalog, IndexInv, ManifestIsExact, Staged, Index!RowsOf,
           RowIsPlaced
  <1>4. (\A r_1 \in indexRows : RowIsPlaced(r_1))'
    BY DEF Index!Unpin, Index!catalog, IndexInv, RowIsPlaced
  <1>5. (\A f_1 \in Sources, s_1 \in Spaces : PublicationIsWhole(f_1, s_1))'
    BY DEF Index!Unpin, Index!catalog, IndexInv, PublicationIsWhole, Index!RowsOf, RowIsPlaced
  <1>6. (\A w_1 \in IndexWorkers : WorkerIsAbreast(w_1))'
    BY DEF Index!Unpin, Index!catalog, IndexInv, WorkerIsAbreast, Staged, Index!Owned,
           Index!File
  <1>7. QED
    BY <1>1, <1>2, <1>3, <1>4, <1>5, <1>6 DEF IndexInv

LEMMA IndexPrepareSkipped ==
    ASSUME Index!IndexAssumption, IndexInv, NEW f \in Sources, NEW d \in IndexDocs,
           Index!PrepareSkipped(f, d)
    PROVE  IndexInv'
  <1>1. IndexTyped'
    BY DEF Index!PrepareSkipped, Index!UpToDate, Index!Available, Index!NoJob, Index!NoManifest,
           Index!settings, IndexInv, Index!IndexAssumption, IndexTyped, IndexJobs, Known,
           Manifests
  <1>2. (\A f_1 \in Sources : JobIsWhole(f_1))'
    BY DEF Index!PrepareSkipped, Index!UpToDate, Index!Available, Index!NoJob, IndexInv,
           JobIsWhole, Staged, Index!RowsOf, IndexTyped
  <1>3. (\A g_1 \in Index!Gens : ManifestIsExact(g_1))'
    <2> SUFFICES ASSUME NEW g \in Index!Gens
                 PROVE  ManifestIsExact(g)'
      BY DEF Index!Gens
    <2>1. /\ indexJob' = [indexJob EXCEPT ![f] = Index!NoJob] /\ indexJob[f].gen # Index!Missing
          /\ manifest' = [manifest EXCEPT ![indexJob[f].gen] = Index!NoManifest]
          /\ UNCHANGED <<spaces, indexRows>>
      BY DEF Index!PrepareSkipped, Index!settings
    <2>2. CASE g = indexJob[f].gen
      <3>1. manifest'[g] = Index!NoManifest
        BY <2>1, <2>2 DEF IndexInv, IndexTyped
      <3>2. QED
        BY <3>1, ManifestGone
    <2>3. CASE g # indexJob[f].gen
      <3>1. manifest'[g] = manifest[g]
        BY <2>1, <2>3 DEF IndexInv, IndexTyped
      <3>2. \A e \in Sources : indexJob[e].gen = g => indexJob'[e] = indexJob[e]
        BY <2>1, <2>3 DEF IndexInv, IndexTyped
      <3>3. Staged(g) => manifest[g].space \in spaces' /\ Index!RowsOf(g)' = Index!RowsOf(g)
        BY <2>1 DEF IndexInv, ManifestIsExact, Index!RowsOf
      <3>4. QED
        BY <3>1, <3>2, <3>3, ManifestKept
    <2>4. QED
      BY <2>2, <2>3
  <1>4. (\A r_1 \in indexRows : RowIsPlaced(r_1))'
    BY DEF Index!PrepareSkipped, Index!UpToDate, Index!Available, Index!settings, IndexInv,
           RowIsPlaced
  <1>5. (\A f_1 \in Sources, s_1 \in Spaces : PublicationIsWhole(f_1, s_1))'
    BY DEF Index!PrepareSkipped, Index!UpToDate, Index!Available, Index!Missing, Index!NoJob,
           Index!settings, IndexInv, PublicationIsWhole, Index!Gens, Index!RowsOf
  <1>6. (\A w_1 \in IndexWorkers : WorkerIsAbreast(w_1))'
    <2> SUFFICES ASSUME NEW v \in IndexWorkers
                 PROVE  WorkerIsAbreast(v)'
      OBVIOUS
    <2>1. /\ indexJob' = [indexJob EXCEPT ![f] = Index!NoJob] /\ used' = used
          /\ indexWorker' = indexWorker
          /\ \A g \in Index!Gens : g # indexJob[f].gen => manifest'[g] = manifest[g]
      BY DEF Index!PrepareSkipped, IndexInv, IndexTyped
    <2>2. used \in Nat
      BY DEF IndexInv, IndexTyped
    <2>3. ASSUME indexWorker[v].gen # Index!Missing
          PROVE  /\ indexWorker[v].gen \in Index!Gens
                 /\ \A e \in Sources : indexJob'[e].gen = indexWorker[v].gen =>
                       /\ indexJob'[e] = indexJob[e]
                       /\ manifest'[indexWorker[v].gen] = manifest[indexWorker[v].gen]
                 /\ Index!Owned(v)' =>
                       Index!Owned(v) /\ indexJob'[indexWorker[v].owner] = indexJob[indexWorker[v].owner]
      <3>1. indexWorker[v].gen \in Index!Gens
        BY <2>3 DEF IndexInv, IndexTyped, IndexTasks, Known
      <3>2. ASSUME NEW e \in Sources, indexJob'[e].gen = indexWorker[v].gen
            PROVE  /\ indexJob'[e] = indexJob[e]
                   /\ manifest'[indexWorker[v].gen] = manifest[indexWorker[v].gen]
        <4>1. e # f
          BY <2>1, <2>3, <3>2 DEF IndexInv, IndexTyped, Index!NoJob
        <4>2. indexJob'[e] = indexJob[e]
          BY <2>1, <4>1 DEF IndexInv, IndexTyped
        <4>3. indexJob[f].gen # indexWorker[v].gen
          BY <2>3, <3>2, <4>1, <4>2 DEF IndexInv, JobIsWhole
        <4>4. QED
          BY <2>1, <3>1, <4>2, <4>3
      <3>3. ASSUME Index!Owned(v)'
            PROVE  Index!Owned(v) /\ indexJob'[indexWorker[v].owner] = indexJob[indexWorker[v].owner]
        <4>1. indexWorker[v].owner \in Sources
          BY <2>3 DEF IndexInv, WorkerIsAbreast
        <4>2. indexWorker[v].owner # f
          BY <2>1, <3>3 DEF IndexInv, IndexTyped, Index!Owned, Index!File, Index!NoJob
        <4>3. indexJob'[indexWorker[v].owner] = indexJob[indexWorker[v].owner]
          BY <2>1, <4>1, <4>2 DEF IndexInv, IndexTyped
        <4>4. QED
          BY <2>1, <3>3, <4>3 DEF Index!Owned, Index!File
      <3>4. QED
        BY <3>1, <3>2, <3>3
    <2>4. ASSUME indexWorker[v].gen # Index!Missing
          PROVE  manifest[indexWorker[v].gen].next \in Nat
      BY <2>3, <2>4 DEF IndexInv, IndexTyped, Manifests
    <2>5. QED
      BY <2>1, <2>2, <2>3, <2>4, AbreastKept DEF Staged
  <1>7. QED
    BY <1>1, <1>2, <1>3, <1>4, <1>5, <1>6 DEF IndexInv

LEMMA IndexResumeIngestion ==
    ASSUME Index!IndexAssumption, IndexInv, NEW f \in Sources, NEW d \in IndexDocs,
           Index!ResumeIngestion(f, d)
    PROVE  IndexInv'
  <1>1. IndexTyped'
    <2>1. indexJob' \in [Sources -> IndexJobs]
      BY JobRestated DEF Index!ResumeIngestion, Known
    <2>2. QED
      BY <2>1 DEF Index!ResumeIngestion, Index!settings, IndexInv, IndexTyped
  <1>2. (\A f_1 \in Sources : JobIsWhole(f_1))'
    BY DEF Index!ResumeIngestion, Index!UpToDate, Index!SameJob, IndexInv, JobIsWhole,
           Index!NoJob, Staged, Index!RowsOf, IndexTyped
  <1>3. (\A g_1 \in Index!Gens : ManifestIsExact(g_1))'
    <2>1. \A e \in Sources : indexJob'[e].gen = indexJob[e].gen
             /\ indexJob'[e].doc = indexJob[e].doc /\ indexJob'[e].space = indexJob[e].space
      BY JobRestated DEF Index!ResumeIngestion, Known
    <2>2. QED
      BY <2>1, ManifestsKept DEF Index!ResumeIngestion, Index!settings
  <1>4. (\A r_1 \in indexRows : RowIsPlaced(r_1))'
    BY DEF Index!ResumeIngestion, Index!UpToDate, Index!SameJob, Index!settings, IndexInv,
           RowIsPlaced
  <1>5. (\A f_1 \in Sources, s_1 \in Spaces : PublicationIsWhole(f_1, s_1))'
    BY DEF Index!ResumeIngestion, Index!UpToDate, Index!SameJob, Index!settings, IndexInv,
           PublicationIsWhole, Index!RowsOf, IndexTyped
  <1>6. (\A w_1 \in IndexWorkers : WorkerIsAbreast(w_1))'
    BY DEF Index!ResumeIngestion, Index!UpToDate, Index!SameJob, IndexInv, WorkerIsAbreast,
           Staged, Index!Owned, Index!File, IndexTyped
  <1>7. QED
    BY <1>1, <1>2, <1>3, <1>4, <1>5, <1>6 DEF IndexInv

LEMMA IndexResetIngestion ==
    ASSUME Index!IndexAssumption, IndexInv, NEW f \in Sources, NEW d \in IndexDocs,
           Index!ResetIngestion(f, d)
    PROVE  IndexInv'
  <1>1. IndexTyped'
    <2>1. used' = used + 1 /\ used + 1 \in Index!Gens /\ used + 1 \in 0 .. MaxGenerations
      BY DEF Index!ResetIngestion, Index!Gens, IndexInv, IndexTyped, Index!IndexAssumption
    <2>2. PICK i \in IndexJobs :
             i = [Index!NoJob EXCEPT !.doc = d, !.space = setting.space, !.gen = used + 1,
                                     !.state = "pending", !.phase = "indexing"]
      <3>1. setting.space \in Spaces
        BY DEF IndexInv, IndexTyped
      <3>2. QED
        BY <2>1, <3>1, IndexEmpties DEF IndexJobs, Known
    <2>3. indexJob' = [indexJob EXCEPT ![f] = i]
      BY <2>2, Zenon DEF Index!ResetIngestion
    <2>4. manifest' \in [Index!Gens -> Manifests] /\ indexRows' \subseteq indexRows
      BY IndexEmpties DEF Index!ResetIngestion, Index!DiscardGeneration, IndexInv, IndexTyped
    <2>5. QED
      BY <2>1, <2>3, <2>4 DEF Index!ResetIngestion, Index!settings, IndexInv, IndexTyped
  <1>2. (\A f_1 \in Sources : JobIsWhole(f_1))'
    BY DEF Index!ResetIngestion, Index!Available, Index!Missing, Index!DiscardGeneration,
           Index!RowsOf, IndexInv, JobIsWhole, Staged, IndexTyped, IndexJobs, Known, Index!Gens,
           RowIsPlaced
  <1>3. (\A g_1 \in Index!Gens : ManifestIsExact(g_1))'
    <2> SUFFICES ASSUME NEW g \in Index!Gens
                 PROVE  ManifestIsExact(g)'
      BY DEF Index!Gens
    <2>1. /\ indexJob' = [indexJob EXCEPT ![f] =
                [Index!NoJob EXCEPT !.doc = d, !.space = setting.space, !.gen = used + 1,
                                    !.state = "pending", !.phase = "indexing"]]
          /\ spaces' = spaces /\ used \in Nat
      BY DEF Index!ResetIngestion, Index!settings, IndexInv, IndexTyped
    <2>2. \/ indexJob[f].gen = Index!Missing /\ UNCHANGED <<manifest, indexRows>>
          \/ /\ indexJob[f].gen # Index!Missing
             /\ manifest' = [manifest EXCEPT ![indexJob[f].gen] = Index!NoManifest]
             /\ indexRows' = indexRows \ Index!RowsOf(indexJob[f].gen)
      BY DEF Index!ResetIngestion, Index!DiscardGeneration
    <2>3. manifest'[g] = Index!NoManifest \/ manifest'[g] = manifest[g]
      BY <2>2 DEF IndexInv, IndexTyped
    <2>4. CASE manifest'[g] = Index!NoManifest
      BY <2>4, ManifestGone
    <2>5. CASE manifest'[g] # Index!NoManifest
      <3>1. manifest'[g] = manifest[g] /\ Staged(g)
        BY <2>3, <2>5 DEF IndexInv, ManifestIsExact
      <3>2. g # indexJob[f].gen
        <4>1. g # Index!Missing
          BY DEF Index!Missing, Index!Gens
        <4>2. QED
          BY <2>2, <2>5, <4>1 DEF IndexInv, IndexTyped
      <3>3. Index!RowsOf(g)' = Index!RowsOf(g)
        BY <2>2, <3>2 DEF Index!RowsOf
      <3>4. \A e \in Sources : indexJob[e].gen = g => indexJob'[e] = indexJob[e]
        BY <2>1, <3>2 DEF IndexInv, IndexTyped
      <3>5. manifest[g].space \in spaces'
        BY <2>1, <3>1 DEF IndexInv, ManifestIsExact
      <3>6. QED
        BY <3>1, <3>3, <3>4, <3>5, ManifestKept
    <2>6. QED
      BY <2>4, <2>5
  <1>4. (\A r_1 \in indexRows : RowIsPlaced(r_1))'
    BY DEF Index!ResetIngestion, Index!Available, Index!DiscardGeneration, Index!settings,
           IndexInv, RowIsPlaced, IndexTyped, Index!Gens, IndexRows
  <1>5. (\A f_1 \in Sources, s_1 \in Spaces : PublicationIsWhole(f_1, s_1))'
    BY DEF Index!ResetIngestion, Index!Available, Index!DiscardGeneration, Index!RowsOf,
           Index!settings, IndexInv, PublicationIsWhole, Index!Gens, IndexTyped
  <1>6. (\A w_1 \in IndexWorkers : WorkerIsAbreast(w_1))'
    BY DEF Index!ResetIngestion, Index!Available, Index!DiscardGeneration, IndexInv,
           WorkerIsAbreast, Staged, Index!Owned, Index!File, IndexTyped, Known, Index!Gens,
           IndexTasks
  <1>7. QED
    BY <1>1, <1>2, <1>3, <1>4, <1>5, <1>6 DEF IndexInv

LEMMA IndexClaim ==
    ASSUME Index!IndexAssumption, IndexInv, NEW w \in IndexWorkers, NEW f \in Sources,
           Index!Claim(w, f)
    PROVE  IndexInv'
  <1>1. IndexTyped'
    <2>1. PICK j \in IndexJobs : j = indexJob[f]
      BY DEF IndexInv, IndexTyped
    <2>2. j.space \in Spaces /\ j.state \in {"pending", "expired"}
      BY <2>1 DEF Index!Claim, IndexInv, JobIsWhole, Index!NoJob
    <2>3. PICK p \in {"none", "begin", "indexed"} :
             p = IF j.phase = "indexing" THEN "begin" ELSE j.phase
      BY DEF IndexJobs
    <2>4. [j EXCEPT !.owner = f, !.next = 0, !.phase = p] \in IndexTasks
      <3>1. j \in [doc : Known(IndexDocs), space : Known(Spaces), gen : Known(Index!Gens),
                   state : {"pending", "expired"}, owner : Known(IndexWorkers),
                   phase : {"none", "indexing", "indexed"}, next : {0}]
        BY <2>2 DEF IndexJobs
      <3>2. [j EXCEPT !.owner = f, !.next = 0, !.phase = p]
               \in [doc : Known(IndexDocs), space : Known(Spaces), gen : Known(Index!Gens),
                    state : {"pending", "expired"}, owner : {f}, phase : {p}, next : {0}]
        BY <3>1
      <3>3. 0 \in 0 .. Elements /\ f \in Known(Sources)
        BY DEF Index!IndexAssumption, Known
      <3>4. QED
        BY <3>2, <3>3 DEF IndexTasks
    <2>5. indexWorker' = [indexWorker EXCEPT ![w] = [j EXCEPT !.owner = f, !.next = 0, !.phase = p]]
      BY <2>1, <2>3, Zenon DEF Index!Claim
    <2>6. indexJob' \in [Sources -> IndexJobs]
      BY JobRestated DEF Index!Claim, Known
    <2>7. indexWorker' \in [IndexWorkers -> IndexTasks]
      BY <2>4, <2>5 DEF IndexInv, IndexTyped
    <2>8. spaces' \subseteq Spaces /\ recent' \subseteq spaces' /\ pins' \subseteq spaces'
      BY <2>1, <2>2 DEF Index!Claim, IndexInv, IndexTyped
    <2>9. QED
      BY <2>6, <2>7, <2>8 DEF Index!Claim, IndexInv, IndexTyped
  <1>2. (\A f_1 \in Sources : JobIsWhole(f_1))'
    BY DEF Index!Claim, IndexInv, JobIsWhole, Index!NoJob, Staged, Index!RowsOf, IndexTyped
  <1>3. (\A g_1 \in Index!Gens : ManifestIsExact(g_1))'
    <2>1. \A e \in Sources : indexJob'[e].gen = indexJob[e].gen
             /\ indexJob'[e].doc = indexJob[e].doc /\ indexJob'[e].space = indexJob[e].space
      BY JobRestated DEF Index!Claim, Known
    <2>2. QED
      BY <2>1, ManifestsKept DEF Index!Claim
  <1>4. (\A r_1 \in indexRows : RowIsPlaced(r_1))'
    BY DEF Index!Claim, IndexInv, RowIsPlaced
  <1>5. (\A f_1 \in Sources, s_1 \in Spaces : PublicationIsWhole(f_1, s_1))'
    BY DEF Index!Claim, IndexInv, PublicationIsWhole, Index!RowsOf, IndexTyped
  <1>6. (\A w_1 \in IndexWorkers : WorkerIsAbreast(w_1))'
    BY DEF Index!Claim, IndexInv, WorkerIsAbreast, Index!NoJob, Staged, Index!Owned, Index!File,
           IndexTyped, JobIsWhole
  <1>7. QED
    BY <1>1, <1>2, <1>3, <1>4, <1>5, <1>6 DEF IndexInv

LEMMA IndexBegin ==
    ASSUME Index!IndexAssumption, IndexInv, NEW w \in IndexWorkers, Index!Begin(w)
    PROVE  IndexInv'
  <1>1. IndexTyped'
    <2>1. UNCHANGED <<spaces, recent, pins, setting, indexJob, indexRows, published, indexedAs, used, gc>>
      BY DEF Index!Begin, Index!settings
    <2>2. CASE Index!Stops(w) /\ manifest' = manifest
      BY <2>1, <2>2, IndexEmpties DEF Index!Stops, IndexInv, IndexTyped
    <2>3. CASE ~(Index!Stops(w) /\ manifest' = manifest)
      <3>1. PICK m \in Manifests :
               /\ manifest' = [manifest EXCEPT ![indexWorker[w].gen] = m]
               /\ m.doc = indexWorker[w].doc /\ m.space = indexWorker[w].space
               /\ IF Staged(indexWorker[w].gen) THEN m = manifest[indexWorker[w].gen]
                  ELSE m.next = 0 /\ ~m.completed
               /\ indexWorker' = [indexWorker EXCEPT ![w] =
                     [indexWorker[w] EXCEPT !.next = m.next, !.phase = "indexing"]]
        BY <2>3, IndexBegun
      <3>2. [indexWorker[w] EXCEPT !.next = m.next, !.phase = "indexing"] \in IndexTasks
        <4>1. PICK k \in IndexTasks : k = indexWorker[w]
          BY DEF IndexInv, IndexTyped
        <4>2. [k EXCEPT !.next = m.next, !.phase = "indexing"] \in IndexTasks
          BY DEF IndexTasks, Manifests
        <4>3. QED
          BY <4>1, <4>2
      <3>3. indexWorker' \in [IndexWorkers -> IndexTasks] /\ manifest' \in [Index!Gens -> Manifests]
        BY <3>1, <3>2 DEF IndexInv, IndexTyped
      <3>4. QED
        BY <2>1, <3>3 DEF IndexInv, IndexTyped
    <2>4. QED
      BY <2>2, <2>3
  <1>2. (\A f_1 \in Sources : JobIsWhole(f_1))'
    <2>1. UNCHANGED <<spaces, recent, pins, setting, indexJob, indexRows, published, indexedAs, used, gc>>
      BY DEF Index!Begin, Index!settings
    <2>2. CASE Index!Stops(w) /\ manifest' = manifest
      BY <2>1, <2>2 DEF IndexInv, JobIsWhole, Staged, Index!RowsOf
    <2>3. CASE ~(Index!Stops(w) /\ manifest' = manifest)
      <3>1. PICK m \in Manifests :
               /\ manifest' = [manifest EXCEPT ![indexWorker[w].gen] = m]
               /\ m.doc = indexWorker[w].doc /\ m.space = indexWorker[w].space
               /\ IF Staged(indexWorker[w].gen) THEN m = manifest[indexWorker[w].gen]
                  ELSE m.next = 0 /\ ~m.completed
               /\ indexWorker' = [indexWorker EXCEPT ![w] =
                     [indexWorker[w] EXCEPT !.next = m.next, !.phase = "indexing"]]
        BY <2>3, IndexBegun
      <3> SUFFICES ASSUME NEW e \in Sources, indexJob[e].gen # Index!Missing
                   PROVE  /\ ~Staged(indexJob[e].gen)' => Index!RowsOf(indexJob[e].gen)' = {}
                          /\ indexJob[e].phase = "indexed" => manifest'[indexJob[e].gen].completed
        BY <2>1 DEF IndexInv, JobIsWhole, Staged, Index!RowsOf
      <3>2. indexJob[e].gen \in Index!Gens
        BY DEF IndexInv, IndexTyped, IndexJobs, Known
      <3>3. /\ ~Staged(indexJob[e].gen) => Index!RowsOf(indexJob[e].gen) = {}
            /\ indexJob[e].phase = "indexed" => manifest[indexJob[e].gen].completed
        BY DEF IndexInv, JobIsWhole
      <3>4. ~Staged(indexJob[e].gen) => ~manifest[indexJob[e].gen].completed
        BY <3>2 DEF IndexInv, ManifestIsExact, Index!NoManifest
      <3>5. Staged(indexJob[e].gen) => manifest'[indexJob[e].gen] = manifest[indexJob[e].gen]
        BY <3>1, <3>2 DEF IndexInv, IndexTyped
      <3>6. QED
        BY <2>1, <3>3, <3>4, <3>5 DEF Staged, Index!RowsOf
    <2>4. QED
      BY <2>2, <2>3
  <1>3. (\A g_1 \in Index!Gens : ManifestIsExact(g_1))'
    <2>1. UNCHANGED <<spaces, recent, pins, setting, indexJob, indexRows, published, indexedAs, used, gc>>
      BY DEF Index!Begin, Index!settings
    <2>2. CASE Index!Stops(w) /\ manifest' = manifest
      BY <2>1, <2>2, ManifestsKept
    <2>3. CASE ~(Index!Stops(w) /\ manifest' = manifest)
      <3>1. PICK m \in Manifests :
               /\ manifest' = [manifest EXCEPT ![indexWorker[w].gen] = m]
               /\ m.doc = indexWorker[w].doc /\ m.space = indexWorker[w].space
               /\ IF Staged(indexWorker[w].gen) THEN m = manifest[indexWorker[w].gen]
                  ELSE m.next = 0 /\ ~m.completed
               /\ indexWorker' = [indexWorker EXCEPT ![w] =
                     [indexWorker[w] EXCEPT !.next = m.next, !.phase = "indexing"]]
        BY <2>3, IndexBegun
      <3>2. SUFFICES ASSUME NEW g \in Index!Gens
                     PROVE  ManifestIsExact(g)'
        BY DEF Index!Gens
      <3>3. CASE manifest'[g] = manifest[g]
        <4>1. Staged(g) => manifest[g].space \in spaces' /\ Index!RowsOf(g)' = Index!RowsOf(g)
          BY <2>1 DEF IndexInv, ManifestIsExact, Index!RowsOf
        <4>2. QED
          BY <2>1, <3>3, <4>1, ManifestKept
      <3>4. CASE manifest'[g] # manifest[g]
        <4>1. g = indexWorker[w].gen /\ manifest'[g] = m /\ ~Staged(g)
          BY <3>1, <3>4 DEF IndexInv, IndexTyped
        <4>2. m.next = 0 /\ ~m.completed /\ indexWorker[w].space \in spaces
              /\ \E f \in Sources : indexJob[f].gen = g
          BY <2>3, <3>1, <4>1, IndexBegun
        <4>3. PICK f \in Sources : indexJob[f].gen = g
          BY <4>2
        <4>4. g # Index!Missing
          BY DEF Index!Missing, Index!Gens
        <4>5. m.doc = indexJob[f].doc /\ m.space = indexJob[f].space /\ Index!RowsOf(g) = {}
          BY <3>1, <4>1, <4>3, <4>4 DEF IndexInv, WorkerIsAbreast, JobIsWhole
        <4>6. RowsUpTo(g, m.doc, m.space, 0) = {}
          BY DEF RowsUpTo, Index!Positions
        <4>7. RowsUpTo(g, manifest[g].doc, manifest[g].space, manifest[g].next)'
                 = RowsUpTo(g, m.doc, m.space, 0)
          BY <4>1, <4>2 DEF RowsUpTo, Index!Positions
        <4>8. Index!RowsOf(g)' = {}
          BY <2>1, <4>5 DEF Index!RowsOf
        <4>9. 0 # Elements
          BY DEF Index!IndexAssumption
        <4>10. manifest'[g].space \in spaces' /\ manifest'[g].completed = (manifest'[g].next = Elements)
          BY <2>1, <3>1, <4>1, <4>2, <4>9 DEF Manifests
        <4>11. indexJob'[f].gen = g /\ manifest'[g].doc = indexJob'[f].doc
               /\ manifest'[g].space = indexJob'[f].space
          BY <2>1, <4>1, <4>3, <4>5
        <4>12. manifest'[g].doc # Index!Missing
          BY <3>1, <4>1, WorkerHasJob DEF Index!Begin, Index!Missing, Index!IndexAssumption
        <4>13. QED
          BY <4>1, <4>6, <4>7, <4>8, <4>10, <4>11, <4>12 DEF ManifestIsExact, Staged
      <3>5. QED
        BY <3>3, <3>4
    <2>4. QED
      BY <2>2, <2>3
  <1>4. (\A r_1 \in indexRows : RowIsPlaced(r_1))'
    BY DEF Index!Begin, Index!HasJob, Index!Stops, Index!settings, IndexInv, RowIsPlaced
  <1>5. (\A f_1 \in Sources, s_1 \in Spaces : PublicationIsWhole(f_1, s_1))'
    BY DEF Index!Begin, Index!HasJob, Index!Stops, Index!settings, IndexInv, PublicationIsWhole,
           Index!RowsOf
  <1>6. (\A w_1 \in IndexWorkers : WorkerIsAbreast(w_1))'
    <2>1. UNCHANGED <<spaces, recent, pins, setting, indexJob, indexRows, published, indexedAs, used, gc>>
      BY DEF Index!Begin, Index!settings
    <2>2. CASE Index!Stops(w) /\ manifest' = manifest
      <3> SUFFICES ASSUME NEW v \in IndexWorkers
                   PROVE  WorkerIsAbreast(v)'
        OBVIOUS
      <3>1. CASE v = w
        BY <2>2, <3>1, AbreastStopped DEF Index!Stops, IndexInv, IndexTyped
      <3>2. CASE v # w
        <4>1. indexWorker'[v] = indexWorker[v] /\ used \in Nat
          BY <2>2, <3>2 DEF Index!Stops, IndexInv, IndexTyped
        <4>2. indexWorker[v].gen # Index!Missing => manifest[indexWorker[v].gen].next \in Nat
          BY DEF IndexInv, IndexTyped, IndexTasks, Manifests, Known
        <4>3. Index!Owned(v)' => Index!Owned(v)
          BY <2>1, <4>1 DEF Index!Owned, Index!File
        <4>4. QED
          BY <2>1, <2>2, <4>1, <4>2, <4>3, AbreastKept DEF Staged
      <3>3. QED
        BY <3>1, <3>2
    <2>3. CASE ~(Index!Stops(w) /\ manifest' = manifest)
      <3>1. PICK m \in Manifests :
               /\ manifest' = [manifest EXCEPT ![indexWorker[w].gen] = m]
               /\ m.doc = indexWorker[w].doc /\ m.space = indexWorker[w].space
               /\ IF Staged(indexWorker[w].gen) THEN m = manifest[indexWorker[w].gen]
                  ELSE m.next = 0 /\ ~m.completed
               /\ indexWorker' = [indexWorker EXCEPT ![w] =
                     [indexWorker[w] EXCEPT !.next = m.next, !.phase = "indexing"]]
        BY <2>3, IndexBegun
      <3> SUFFICES ASSUME NEW v \in IndexWorkers
                   PROVE  WorkerIsAbreast(v)'
        OBVIOUS
      <3>2. CASE v = w
        <4> DEFINE k == indexWorker[w]
        <4>1. k.gen \in Index!Gens /\ k.gen # Index!Missing /\ k.doc \in IndexDocs
              /\ k.space \in Spaces /\ k.owner \in Sources
          BY WorkerHasJob DEF Index!Begin
        <4>2. PICK n \in IndexTasks : n = k
          BY DEF IndexInv, IndexTyped
        <4> DEFINE i == [n EXCEPT !.next = m.next, !.phase = "indexing"]
        <4>3. /\ i.doc = n.doc /\ i.space = n.space /\ i.gen = n.gen /\ i.owner = n.owner
              /\ i.next = m.next
          BY DEF IndexTasks
        <4>4. indexWorker'[w] = i
          BY <3>1, <4>2 DEF IndexInv, IndexTyped
        <4>5. manifest'[k.gen] = m
          BY <3>1, <4>1 DEF IndexInv, IndexTyped
        <4>6. m.doc # Index!Missing /\ m.next \in Nat
          BY <3>1, <4>1 DEF Index!IndexAssumption, Index!Missing, Manifests
        <4>7. Index!Owned(w)' => Index!Owned(w)
          BY <2>1, <4>2, <4>3, <4>4 DEF Index!Owned, Index!File
        <4> HIDE DEF i
        <4>8. /\ k.gen <= used
              /\ \A f \in Sources : indexJob[f].gen = k.gen =>
                    f = k.owner /\ k.doc = indexJob[f].doc /\ k.space = indexJob[f].space
              /\ Index!Owned(w) => indexJob[k.owner].gen = k.gen
          BY <4>1 DEF IndexInv, WorkerIsAbreast
        <4>9. QED
          BY <2>1, <3>2, <4>1, <4>2, <4>3, <4>4, <4>5, <4>6, <4>7, <4>8 DEF WorkerIsAbreast, Staged
      <3>3. CASE v # w
        <4>1. indexWorker'[v] = indexWorker[v] /\ used \in Nat
          BY <3>1, <3>3 DEF IndexInv, IndexTyped
        <4>2. ASSUME indexWorker[v].gen # Index!Missing
              PROVE  /\ manifest[indexWorker[v].gen].next \in Nat
                     /\ Staged(indexWorker[v].gen) =>
                           manifest'[indexWorker[v].gen] = manifest[indexWorker[v].gen]
          BY <3>1, <4>2 DEF IndexInv, IndexTyped, IndexTasks, Manifests, Known
        <4>3. Index!Owned(v)' => Index!Owned(v)
          BY <2>1, <4>1 DEF Index!Owned, Index!File
        <4>4. QED
          BY <2>1, <4>1, <4>2, <4>3, AbreastKept DEF Staged
      <3>4. QED
        BY <3>2, <3>3
    <2>4. QED
      BY <2>2, <2>3
  <1>7. QED
    BY <1>1, <1>2, <1>3, <1>4, <1>5, <1>6 DEF IndexInv

LEMMA IndexStage ==
    ASSUME Index!IndexAssumption, IndexInv, NEW w \in IndexWorkers, Index!Stage(w)
    PROVE  IndexInv'
  <1>1. IndexTyped'
    <2>1. UNCHANGED <<spaces, recent, pins, setting, indexJob, published, indexedAs, used, gc>>
      BY DEF Index!Stage, Index!settings
    <2>2. CASE ~Index!StagesNext(w)
      <3>1. Index!Stops(w) /\ UNCHANGED <<manifest, indexRows>>
        BY <2>2 DEF Index!Stage
      <3>2. QED
        BY <2>1, <3>1, IndexEmpties DEF Index!Stops, IndexInv, IndexTyped
    <2>3. CASE Index!StagesNext(w)
      <3> DEFINE g == indexWorker[w].gen
                 k == indexWorker[w]
      <3>1. /\ Staged(g) /\ g \in Index!Gens /\ k.next \in Index!Positions
            /\ manifest[g].doc = k.doc /\ manifest[g].space = k.space /\ manifest[g].next = k.next
            /\ ~manifest[g].completed
            /\ indexWorker' = [indexWorker EXCEPT ![w] = [k EXCEPT !.next = k.next + 1]]
        BY <2>3, IndexStaged
      <3>2. PICK m \in Manifests :
               /\ manifest' = [manifest EXCEPT ![g] = m]
               /\ m.doc = k.doc /\ m.space = k.space /\ m.next = k.next + 1
               /\ m.completed = (k.next + 1 = Elements)
        BY <2>3, IndexStaged
      <3>3. PICK r \in IndexRows :
               /\ indexRows' = indexRows \cup {r}
               /\ r = [gen |-> g, doc |-> k.doc, space |-> k.space, at |-> k.next]
        BY <2>3, IndexStaged
      <3>4. manifest'[g] = m /\ \A h \in Index!Gens \ {g} : manifest'[h] = manifest[h]
        BY <3>1, <3>2 DEF IndexInv, IndexTyped
      <3>5. \A h \in Index!Gens \ {g} : Index!RowsOf(h)' = Index!RowsOf(h)
        BY <3>3 DEF Index!RowsOf
      <3>6. m.doc # Index!Missing /\ Staged(g)'
        BY <3>1, <3>2, <3>4 DEF Staged
      <3>7. PICK n \in IndexTasks : n = k
        BY DEF IndexInv, IndexTyped
      <3>8. n.next + 1 \in 0 .. Elements
        BY <3>1, <3>7 DEF Index!Positions, Index!IndexAssumption
      <3>9. [n EXCEPT !.next = n.next + 1] \in IndexTasks
        BY <3>8 DEF IndexTasks
      <3>10. indexWorker' \in [IndexWorkers -> IndexTasks] /\ manifest' \in [Index!Gens -> Manifests]
             /\ indexRows' \subseteq IndexRows
        BY <3>1, <3>2, <3>3, <3>7, <3>9 DEF IndexInv, IndexTyped
      <3>11. QED
        BY <2>1, <3>10 DEF IndexInv, IndexTyped
    <2>4. QED
      BY <2>2, <2>3
  <1>2. (\A f_1 \in Sources : JobIsWhole(f_1))'
    <2>1. UNCHANGED <<spaces, recent, pins, setting, indexJob, published, indexedAs, used, gc>>
      BY DEF Index!Stage, Index!settings
    <2>2. CASE ~Index!StagesNext(w)
      <3>1. Index!Stops(w) /\ UNCHANGED <<manifest, indexRows>>
        BY <2>2 DEF Index!Stage
      <3>2. QED
        BY <2>1, <3>1 DEF IndexInv, JobIsWhole, Staged, Index!RowsOf
    <2>3. CASE Index!StagesNext(w)
      <3> DEFINE g == indexWorker[w].gen
                 k == indexWorker[w]
      <3>1. /\ Staged(g) /\ g \in Index!Gens /\ k.next \in Index!Positions
            /\ manifest[g].doc = k.doc /\ manifest[g].space = k.space /\ manifest[g].next = k.next
            /\ ~manifest[g].completed
            /\ indexWorker' = [indexWorker EXCEPT ![w] = [k EXCEPT !.next = k.next + 1]]
        BY <2>3, IndexStaged
      <3>2. PICK m \in Manifests :
               /\ manifest' = [manifest EXCEPT ![g] = m]
               /\ m.doc = k.doc /\ m.space = k.space /\ m.next = k.next + 1
               /\ m.completed = (k.next + 1 = Elements)
        BY <2>3, IndexStaged
      <3>3. PICK r \in IndexRows :
               /\ indexRows' = indexRows \cup {r}
               /\ r = [gen |-> g, doc |-> k.doc, space |-> k.space, at |-> k.next]
        BY <2>3, IndexStaged
      <3>4. manifest'[g] = m /\ \A h \in Index!Gens \ {g} : manifest'[h] = manifest[h]
        BY <3>1, <3>2 DEF IndexInv, IndexTyped
      <3>5. \A h \in Index!Gens \ {g} : Index!RowsOf(h)' = Index!RowsOf(h)
        BY <3>3 DEF Index!RowsOf
      <3>6. m.doc # Index!Missing /\ Staged(g)'
        BY <3>1, <3>2, <3>4 DEF Staged
      <3> SUFFICES ASSUME NEW e \in Sources, indexJob[e].gen # Index!Missing
                   PROVE  /\ ~Staged(indexJob[e].gen)' => Index!RowsOf(indexJob[e].gen)' = {}
                          /\ indexJob[e].phase = "indexed" => manifest'[indexJob[e].gen].completed
        BY <2>1 DEF IndexInv, JobIsWhole, Staged, Index!RowsOf
      <3>7. indexJob[e].gen \in Index!Gens
        BY DEF IndexInv, IndexTyped, IndexJobs, Known
      <3>8. CASE indexJob[e].gen = g
        BY <2>1, <3>1, <3>6, <3>8 DEF IndexInv, JobIsWhole
      <3>9. CASE indexJob[e].gen # g
        <4>1. manifest'[indexJob[e].gen] = manifest[indexJob[e].gen]
              /\ Index!RowsOf(indexJob[e].gen)' = Index!RowsOf(indexJob[e].gen)
          BY <2>1, <3>4, <3>5, <3>7, <3>9 DEF Index!RowsOf
        <4>2. QED
          BY <2>1, <4>1 DEF IndexInv, JobIsWhole, Staged
      <3>10. QED
        BY <3>8, <3>9
    <2>4. QED
      BY <2>2, <2>3
  <1>3. (\A g_1 \in Index!Gens : ManifestIsExact(g_1))'
    <2>1. UNCHANGED <<spaces, recent, pins, setting, indexJob, published, indexedAs, used, gc>>
      BY DEF Index!Stage, Index!settings
    <2>2. CASE ~Index!StagesNext(w)
      <3>1. Index!Stops(w) /\ UNCHANGED <<manifest, indexRows>>
        BY <2>2 DEF Index!Stage
      <3>2. QED
        BY <2>1, <3>1, ManifestsKept
    <2>3. CASE Index!StagesNext(w)
      <3> DEFINE g == indexWorker[w].gen
                 k == indexWorker[w]
      <3>1. /\ Staged(g) /\ g \in Index!Gens /\ k.next \in Index!Positions
            /\ manifest[g].doc = k.doc /\ manifest[g].space = k.space /\ manifest[g].next = k.next
            /\ ~manifest[g].completed
            /\ indexWorker' = [indexWorker EXCEPT ![w] = [k EXCEPT !.next = k.next + 1]]
        BY <2>3, IndexStaged
      <3>2. PICK m \in Manifests :
               /\ manifest' = [manifest EXCEPT ![g] = m]
               /\ m.doc = k.doc /\ m.space = k.space /\ m.next = k.next + 1
               /\ m.completed = (k.next + 1 = Elements)
        BY <2>3, IndexStaged
      <3>3. PICK r \in IndexRows :
               /\ indexRows' = indexRows \cup {r}
               /\ r = [gen |-> g, doc |-> k.doc, space |-> k.space, at |-> k.next]
        BY <2>3, IndexStaged
      <3>4. manifest'[g] = m /\ \A h \in Index!Gens \ {g} : manifest'[h] = manifest[h]
        BY <3>1, <3>2 DEF IndexInv, IndexTyped
      <3>5. \A h \in Index!Gens \ {g} : Index!RowsOf(h)' = Index!RowsOf(h)
        BY <3>3 DEF Index!RowsOf
      <3>6. m.doc # Index!Missing /\ Staged(g)'
        BY <3>1, <3>2, <3>4 DEF Staged
      <3> SUFFICES ASSUME NEW h \in Index!Gens
                   PROVE  ManifestIsExact(h)'
        BY DEF Index!Gens
      <3>7. CASE h = g
        <4>1. PICK f \in Sources : indexJob[f].gen = g /\ manifest[g].doc = indexJob[f].doc
                                   /\ manifest[g].space = indexJob[f].space
          BY <3>1 DEF IndexInv, ManifestIsExact
        <4>2. indexJob'[f].gen = g /\ m.doc = indexJob'[f].doc /\ m.space = indexJob'[f].space
          BY <2>1, <3>1, <3>2, <4>1
        <4>3. m.space \in spaces' /\ m.completed = (m.next = Elements)
          BY <2>1, <3>1, <3>2 DEF IndexInv, ManifestIsExact
        <4>4. Index!RowsOf(g) = RowsUpTo(g, k.doc, k.space, k.next)
          BY <3>1 DEF IndexInv, ManifestIsExact
        <4>5. Index!RowsOf(h)' = Index!RowsOf(h) \cup {r}
          BY <3>3, <3>7 DEF Index!RowsOf
        <4>6. RowsUpTo(g, k.doc, k.space, k.next + 1) = RowsUpTo(g, k.doc, k.space, k.next) \cup {r}
          <5>1. {i \in Index!Positions : i < k.next + 1}
                   = {i \in Index!Positions : i < k.next} \cup {k.next}
            BY <3>1 DEF Index!Positions, Index!IndexAssumption
          <5> HIDE DEF g, k
          <5>2. QED
            BY <3>3, <5>1 DEF RowsUpTo
        <4>7. RowsUpTo(h, manifest[h].doc, manifest[h].space, manifest[h].next)'
                 = RowsUpTo(g, k.doc, k.space, k.next + 1)
          BY <3>2, <3>4, <3>7 DEF RowsUpTo, Index!Positions
        <4>8. Index!RowsOf(h)' = RowsUpTo(h, manifest[h].doc, manifest[h].space, manifest[h].next)'
          BY <3>7, <4>4, <4>5, <4>6, <4>7
        <4> HIDE DEF g, k
        <4>9. QED
          BY <3>4, <3>6, <3>7, <4>2, <4>3, <4>8 DEF ManifestIsExact, Staged
      <3>8. CASE h # g
        <4>1. manifest'[h] = manifest[h] /\ Index!RowsOf(h)' = Index!RowsOf(h)
          BY <3>4, <3>5, <3>8
        <4>2. Staged(h) => manifest[h].space \in spaces'
          BY <2>1 DEF IndexInv, ManifestIsExact
        <4>3. QED
          BY <2>1, <4>1, <4>2, ManifestKept
      <3>9. QED
        BY <3>7, <3>8
    <2>4. QED
      BY <2>2, <2>3
  <1>4. (\A r_1 \in indexRows : RowIsPlaced(r_1))'
    <2>1. UNCHANGED <<spaces, recent, pins, setting, indexJob, published, indexedAs, used, gc>>
      BY DEF Index!Stage, Index!settings
    <2>2. CASE ~Index!StagesNext(w)
      <3>1. Index!Stops(w) /\ UNCHANGED <<manifest, indexRows>>
        BY <2>2 DEF Index!Stage
      <3>2. QED
        BY <2>1, <3>1 DEF IndexInv, RowIsPlaced
    <2>3. CASE Index!StagesNext(w)
      <3> DEFINE g == indexWorker[w].gen
                 k == indexWorker[w]
      <3>1. /\ Staged(g) /\ g \in Index!Gens /\ k.next \in Index!Positions
            /\ manifest[g].doc = k.doc /\ manifest[g].space = k.space /\ manifest[g].next = k.next
            /\ ~manifest[g].completed
            /\ indexWorker' = [indexWorker EXCEPT ![w] = [k EXCEPT !.next = k.next + 1]]
        BY <2>3, IndexStaged
      <3>2. PICK m \in Manifests :
               /\ manifest' = [manifest EXCEPT ![g] = m]
               /\ m.doc = k.doc /\ m.space = k.space /\ m.next = k.next + 1
               /\ m.completed = (k.next + 1 = Elements)
        BY <2>3, IndexStaged
      <3>3. PICK r \in IndexRows :
               /\ indexRows' = indexRows \cup {r}
               /\ r = [gen |-> g, doc |-> k.doc, space |-> k.space, at |-> k.next]
        BY <2>3, IndexStaged
      <3>4. manifest'[g] = m /\ \A h \in Index!Gens \ {g} : manifest'[h] = manifest[h]
        BY <3>1, <3>2 DEF IndexInv, IndexTyped
      <3>5. \A h \in Index!Gens \ {g} : Index!RowsOf(h)' = Index!RowsOf(h)
        BY <3>3 DEF Index!RowsOf
      <3>6. m.doc # Index!Missing /\ Staged(g)'
        BY <3>1, <3>2, <3>4 DEF Staged
      <3>7. r.gen = g /\ r.doc = k.doc /\ r.space = k.space
        BY <3>3
      <3>8. PICK f \in Sources : indexJob[f].gen = g
        BY <3>1 DEF IndexInv, ManifestIsExact
      <3>9. r.space \in spaces /\ r.gen <= used
        <4>1. manifest[g].space \in spaces
          BY <3>1 DEF IndexInv, ManifestIsExact
        <4>2. g <= used
          BY <3>1, <3>8 DEF IndexInv, JobIsWhole, Index!Missing, Index!Gens
        <4>3. QED
          BY <3>1, <3>7, <4>1, <4>2
      <3>10. \A q \in indexRows : q.gen = g => q.doc = k.doc /\ q.space = k.space
        <4>1. Index!RowsOf(g) = RowsUpTo(g, k.doc, k.space, k.next)
          BY <3>1 DEF IndexInv, ManifestIsExact
        <4>2. QED
          BY <4>1 DEF Index!RowsOf, RowsUpTo
      <3> SUFFICES ASSUME NEW p \in indexRows'
                   PROVE  RowIsPlaced(p)'
        OBVIOUS
      <3>11. p.space \in spaces' /\ p.gen <= used'
        BY <2>1, <3>3, <3>9 DEF IndexInv, RowIsPlaced
      <3>12. \A q \in indexRows' : q.gen = p.gen => q.doc = p.doc /\ q.space = p.space
        <4>1. CASE p = r
          BY <3>3, <3>7, <3>10, <4>1
        <4>2. CASE p \in indexRows
          BY <3>3, <3>7, <3>10, <4>2 DEF IndexInv, RowIsPlaced
        <4>3. QED
          BY <3>3, <4>1, <4>2
      <3>13. QED
        BY <3>11, <3>12 DEF RowIsPlaced
    <2>4. QED
      BY <2>2, <2>3
  <1>5. (\A f_1 \in Sources, s_1 \in Spaces : PublicationIsWhole(f_1, s_1))'
    BY DEF Index!Stage, Index!StagesNext, Index!Matches, Index!Stops, Index!settings, IndexInv,
           PublicationIsWhole, Index!RowsOf, IndexJobs, ManifestIsExact, Index!NoManifest
  <1>6. (\A w_1 \in IndexWorkers : WorkerIsAbreast(w_1))'
    <2>1. UNCHANGED <<spaces, recent, pins, setting, indexJob, published, indexedAs, used, gc>>
      BY DEF Index!Stage, Index!settings
    <2>2. CASE ~Index!StagesNext(w)
      <3>1. Index!Stops(w) /\ UNCHANGED <<manifest, indexRows>>
        BY <2>2 DEF Index!Stage
      <3> SUFFICES ASSUME NEW v \in IndexWorkers
                   PROVE  WorkerIsAbreast(v)'
        OBVIOUS
      <3>2. CASE v = w
        BY <3>1, <3>2, AbreastStopped DEF Index!Stops, IndexInv, IndexTyped
      <3>3. CASE v # w
        <4>1. indexWorker'[v] = indexWorker[v] /\ used \in Nat
          BY <3>1, <3>3 DEF Index!Stops, IndexInv, IndexTyped
        <4>2. indexWorker[v].gen # Index!Missing => manifest[indexWorker[v].gen].next \in Nat
          BY DEF IndexInv, IndexTyped, IndexTasks, Manifests, Known
        <4>3. Index!Owned(v)' => Index!Owned(v)
          BY <2>1, <4>1 DEF Index!Owned, Index!File
        <4>4. QED
          BY <2>1, <3>1, <4>1, <4>2, <4>3, AbreastKept DEF Staged
      <3>4. QED
        BY <3>2, <3>3
    <2>3. CASE Index!StagesNext(w)
      <3> DEFINE g == indexWorker[w].gen
                 k == indexWorker[w]
      <3>1. /\ Staged(g) /\ g \in Index!Gens /\ k.next \in Index!Positions
            /\ manifest[g].doc = k.doc /\ manifest[g].space = k.space /\ manifest[g].next = k.next
            /\ ~manifest[g].completed
            /\ indexWorker' = [indexWorker EXCEPT ![w] = [k EXCEPT !.next = k.next + 1]]
        BY <2>3, IndexStaged
      <3>2. PICK m \in Manifests :
               /\ manifest' = [manifest EXCEPT ![g] = m]
               /\ m.doc = k.doc /\ m.space = k.space /\ m.next = k.next + 1
               /\ m.completed = (k.next + 1 = Elements)
        BY <2>3, IndexStaged
      <3>3. PICK r \in IndexRows :
               /\ indexRows' = indexRows \cup {r}
               /\ r = [gen |-> g, doc |-> k.doc, space |-> k.space, at |-> k.next]
        BY <2>3, IndexStaged
      <3>4. manifest'[g] = m /\ \A h \in Index!Gens \ {g} : manifest'[h] = manifest[h]
        BY <3>1, <3>2 DEF IndexInv, IndexTyped
      <3>5. \A h \in Index!Gens \ {g} : Index!RowsOf(h)' = Index!RowsOf(h)
        BY <3>3 DEF Index!RowsOf
      <3>6. m.doc # Index!Missing /\ Staged(g)'
        BY <3>1, <3>2, <3>4 DEF Staged
      <3> SUFFICES ASSUME NEW v \in IndexWorkers
                   PROVE  WorkerIsAbreast(v)'
        OBVIOUS
      <3>7. m.next \in Nat /\ k.next \in Nat /\ k.next <= m.next
        BY <3>1, <3>2 DEF Manifests, Index!Positions
      <3>8. CASE v = w
        <4>1. PICK n \in IndexTasks : n = k
          BY DEF IndexInv, IndexTyped
        <4> DEFINE i == [n EXCEPT !.next = n.next + 1]
        <4>2. /\ i.doc = n.doc /\ i.space = n.space /\ i.gen = n.gen /\ i.owner = n.owner
              /\ i.phase = n.phase /\ i.next = n.next + 1
          BY DEF IndexTasks
        <4>3. indexWorker'[w] = i
          BY <3>1, <4>1 DEF IndexInv, IndexTyped
        <4>4. g # Index!Missing /\ k.gen = g
          BY <3>1 DEF Index!Missing, Index!Gens
        <4>5. /\ k.doc \in IndexDocs /\ k.space \in Spaces /\ k.owner \in Sources /\ k.gen <= used
              /\ \A f \in Sources : indexJob[f].gen = k.gen =>
                    f = k.owner /\ k.doc = indexJob[f].doc /\ k.space = indexJob[f].space
              /\ Index!Owned(w) => indexJob[k.owner].gen = k.gen
          BY <4>4 DEF IndexInv, WorkerIsAbreast
        <4> HIDE DEF i
        <4>6. Index!Owned(w)' => Index!Owned(w)
          BY <2>1, <4>1, <4>2, <4>3 DEF Index!Owned, Index!File
        <4>7. QED
          BY <2>1, <3>2, <3>4, <3>6, <3>7, <3>8, <4>1, <4>2, <4>3, <4>4, <4>5, <4>6
          DEF WorkerIsAbreast, Staged
      <3>9. CASE v # w
        <4>1. indexWorker'[v] = indexWorker[v] /\ used \in Nat
          BY <3>1, <3>9 DEF IndexInv, IndexTyped
        <4>2. indexWorker[v].gen # Index!Missing => manifest[indexWorker[v].gen].next \in Nat
          BY DEF IndexInv, IndexTyped, IndexTasks, Manifests, Known
        <4>3. Index!Owned(v)' => Index!Owned(v)
          BY <2>1, <4>1 DEF Index!Owned, Index!File
        <4>4. ASSUME indexWorker[v].gen # Index!Missing
              PROVE  \/ manifest'[indexWorker[v].gen] = manifest[indexWorker[v].gen]
                     \/ /\ Staged(indexWorker[v].gen)'
                        /\ manifest'[indexWorker[v].gen].next \in Nat
                        /\ manifest[indexWorker[v].gen].next <= manifest'[indexWorker[v].gen].next
          <5>1. indexWorker[v].gen \in Index!Gens
            BY <4>4 DEF IndexInv, IndexTyped, IndexTasks, Known
          <5>2. CASE indexWorker[v].gen = g
            <6>1. manifest'[indexWorker[v].gen] = m /\ manifest[indexWorker[v].gen].next = k.next
              BY <3>1, <3>4, <5>2
            <6>2. manifest'[indexWorker[v].gen].doc # Index!Missing
              BY <3>6, <6>1
            <6> HIDE DEF g, k
            <6>3. Staged(indexWorker[v].gen)'
              BY <4>1, <6>2 DEF Staged
            <6>4. QED
              BY <3>7, <6>1, <6>3
          <5>3. CASE indexWorker[v].gen # g
            BY <3>4, <5>1, <5>3
          <5>4. QED
            BY <5>2, <5>3
        <4>5. QED
          BY <2>1, <4>1, <4>2, <4>3, <4>4, AbreastKept DEF Staged
      <3>10. QED
        BY <3>8, <3>9
    <2>4. QED
      BY <2>2, <2>3
  <1>7. QED
    BY <1>1, <1>2, <1>3, <1>4, <1>5, <1>6 DEF IndexInv

LEMMA IndexCompleteIndexing ==
    ASSUME Index!IndexAssumption, IndexInv, NEW w \in IndexWorkers, Index!CompleteIndexing(w)
    PROVE  IndexInv'
  <1>1. IndexTyped'
    <2>1. UNCHANGED <<spaces, recent, pins, setting, manifest, indexRows, published, indexedAs, used, gc>>
      BY DEF Index!CompleteIndexing, Index!settings
    <2>2. CASE ~Index!Owned(w)
      <3>1. Index!Stops(w) /\ UNCHANGED indexJob
        BY <2>2 DEF Index!CompleteIndexing
      <3>2. QED
        BY <2>1, <3>1, IndexEmpties DEF Index!Stops, IndexInv, IndexTyped
    <2>3. CASE Index!Owned(w)
      <3> DEFINE k == indexWorker[w]
                 f == indexWorker[w].owner
      <3>1. /\ f \in Sources /\ k.gen \in Index!Gens /\ manifest[k.gen].completed
            /\ indexJob[f].gen = k.gen
            /\ indexWorker' = [indexWorker EXCEPT ![w] = [k EXCEPT !.phase = "indexed"]]
        BY <2>3, IndexCompleted
      <3>2. PICK i \in IndexJobs :
               /\ indexJob' = [indexJob EXCEPT ![f] = i]
               /\ i.gen = indexJob[f].gen /\ i.doc = indexJob[f].doc /\ i.space = indexJob[f].space
               /\ i.state = indexJob[f].state /\ i.owner = indexJob[f].owner
               /\ i.phase = "indexed"
        BY <2>3, IndexCompleted
      <3>3. indexJob'[f] = i /\ \A e \in Sources \ {f} : indexJob'[e] = indexJob[e]
        BY <3>1, <3>2 DEF IndexInv, IndexTyped
      <3>4. \A e \in Sources : indexJob'[e].gen = indexJob[e].gen
               /\ indexJob'[e].doc = indexJob[e].doc /\ indexJob'[e].space = indexJob[e].space
               /\ indexJob'[e].state = indexJob[e].state /\ indexJob'[e].owner = indexJob[e].owner
        BY <3>2, <3>3
      <3>5. PICK n \in IndexTasks : n = k
        BY DEF IndexInv, IndexTyped
      <3>6. [n EXCEPT !.phase = "indexed"] \in IndexTasks
        BY DEF IndexTasks
      <3>7. indexWorker' \in [IndexWorkers -> IndexTasks] /\ indexJob' \in [Sources -> IndexJobs]
        BY <3>1, <3>2, <3>5, <3>6 DEF IndexInv, IndexTyped
      <3>8. QED
        BY <2>1, <3>7 DEF IndexInv, IndexTyped
    <2>4. QED
      BY <2>2, <2>3
  <1>2. (\A f_1 \in Sources : JobIsWhole(f_1))'
    <2>1. UNCHANGED <<spaces, recent, pins, setting, manifest, indexRows, published, indexedAs, used, gc>>
      BY DEF Index!CompleteIndexing, Index!settings
    <2>2. CASE ~Index!Owned(w)
      <3>1. Index!Stops(w) /\ UNCHANGED indexJob
        BY <2>2 DEF Index!CompleteIndexing
      <3>2. QED
        BY <2>1, <3>1 DEF IndexInv, JobIsWhole, Staged, Index!RowsOf
    <2>3. CASE Index!Owned(w)
      <3> DEFINE k == indexWorker[w]
                 f == indexWorker[w].owner
      <3>1. /\ f \in Sources /\ k.gen \in Index!Gens /\ manifest[k.gen].completed
            /\ indexJob[f].gen = k.gen
            /\ indexWorker' = [indexWorker EXCEPT ![w] = [k EXCEPT !.phase = "indexed"]]
        BY <2>3, IndexCompleted
      <3>2. PICK i \in IndexJobs :
               /\ indexJob' = [indexJob EXCEPT ![f] = i]
               /\ i.gen = indexJob[f].gen /\ i.doc = indexJob[f].doc /\ i.space = indexJob[f].space
               /\ i.state = indexJob[f].state /\ i.owner = indexJob[f].owner
               /\ i.phase = "indexed"
        BY <2>3, IndexCompleted
      <3>3. indexJob'[f] = i /\ \A e \in Sources \ {f} : indexJob'[e] = indexJob[e]
        BY <3>1, <3>2 DEF IndexInv, IndexTyped
      <3>4. \A e \in Sources : indexJob'[e].gen = indexJob[e].gen
               /\ indexJob'[e].doc = indexJob[e].doc /\ indexJob'[e].space = indexJob[e].space
               /\ indexJob'[e].state = indexJob[e].state /\ indexJob'[e].owner = indexJob[e].owner
        BY <3>2, <3>3
      <3> SUFFICES ASSUME NEW e \in Sources
                   PROVE  JobIsWhole(e)'
        OBVIOUS
      <3>5. CASE e # f
        BY <2>1, <3>3, <3>4, <3>5 DEF IndexInv, JobIsWhole, Staged, Index!RowsOf
      <3>6. CASE e = f
        <4>1. k.gen # Index!Missing
          BY <3>1 DEF Index!Missing, Index!Gens
        <4>2. /\ i.doc \in IndexDocs /\ i.space \in Spaces /\ i.state # "none" /\ i.gen <= used
              /\ \A b \in Sources \ {f} : indexJob[b].gen # i.gen
              /\ ~Staged(i.gen) => Index!RowsOf(i.gen) = {}
          BY <3>1, <3>2, <4>1 DEF IndexInv, JobIsWhole
        <4> HIDE DEF f, k
        <4>3. QED
          BY <2>1, <3>1, <3>2, <3>3, <3>6, <4>1, <4>2 DEF JobIsWhole, Staged, Index!RowsOf
      <3>7. QED
        BY <3>5, <3>6
    <2>4. QED
      BY <2>2, <2>3
  <1>3. (\A g_1 \in Index!Gens : ManifestIsExact(g_1))'
    <2>1. UNCHANGED <<spaces, recent, pins, setting, manifest, indexRows, published, indexedAs, used, gc>>
      BY DEF Index!CompleteIndexing, Index!settings
    <2>2. CASE ~Index!Owned(w)
      <3>1. Index!Stops(w) /\ UNCHANGED indexJob
        BY <2>2 DEF Index!CompleteIndexing
      <3>2. QED
        BY <2>1, <3>1, ManifestsKept
    <2>3. CASE Index!Owned(w)
      <3> DEFINE k == indexWorker[w]
                 f == indexWorker[w].owner
      <3>1. /\ f \in Sources /\ k.gen \in Index!Gens /\ manifest[k.gen].completed
            /\ indexJob[f].gen = k.gen
            /\ indexWorker' = [indexWorker EXCEPT ![w] = [k EXCEPT !.phase = "indexed"]]
        BY <2>3, IndexCompleted
      <3>2. PICK i \in IndexJobs :
               /\ indexJob' = [indexJob EXCEPT ![f] = i]
               /\ i.gen = indexJob[f].gen /\ i.doc = indexJob[f].doc /\ i.space = indexJob[f].space
               /\ i.state = indexJob[f].state /\ i.owner = indexJob[f].owner
               /\ i.phase = "indexed"
        BY <2>3, IndexCompleted
      <3>3. indexJob'[f] = i /\ \A e \in Sources \ {f} : indexJob'[e] = indexJob[e]
        BY <3>1, <3>2 DEF IndexInv, IndexTyped
      <3>4. \A e \in Sources : indexJob'[e].gen = indexJob[e].gen
               /\ indexJob'[e].doc = indexJob[e].doc /\ indexJob'[e].space = indexJob[e].space
               /\ indexJob'[e].state = indexJob[e].state /\ indexJob'[e].owner = indexJob[e].owner
        BY <3>2, <3>3
      <3>5. QED
        BY <2>1, <3>4, ManifestsKept
    <2>4. QED
      BY <2>2, <2>3
  <1>4. (\A r_1 \in indexRows : RowIsPlaced(r_1))'
    BY DEF Index!CompleteIndexing, Index!Stops, Index!settings, IndexInv, RowIsPlaced
  <1>5. (\A f_1 \in Sources, s_1 \in Spaces : PublicationIsWhole(f_1, s_1))'
    <2>1. UNCHANGED <<spaces, recent, pins, setting, manifest, indexRows, published, indexedAs, used, gc>>
      BY DEF Index!CompleteIndexing, Index!settings
    <2>2. CASE ~Index!Owned(w)
      <3>1. Index!Stops(w) /\ UNCHANGED indexJob
        BY <2>2 DEF Index!CompleteIndexing
      <3>2. QED
        BY <2>1, <3>1, PublicationsKept
    <2>3. CASE Index!Owned(w)
      <3> DEFINE k == indexWorker[w]
                 f == indexWorker[w].owner
      <3>1. /\ f \in Sources /\ k.gen \in Index!Gens /\ manifest[k.gen].completed
            /\ indexJob[f].gen = k.gen
            /\ indexWorker' = [indexWorker EXCEPT ![w] = [k EXCEPT !.phase = "indexed"]]
        BY <2>3, IndexCompleted
      <3>2. PICK i \in IndexJobs :
               /\ indexJob' = [indexJob EXCEPT ![f] = i]
               /\ i.gen = indexJob[f].gen /\ i.doc = indexJob[f].doc /\ i.space = indexJob[f].space
               /\ i.state = indexJob[f].state /\ i.owner = indexJob[f].owner
               /\ i.phase = "indexed"
        BY <2>3, IndexCompleted
      <3>3. indexJob'[f] = i /\ \A e \in Sources \ {f} : indexJob'[e] = indexJob[e]
        BY <3>1, <3>2 DEF IndexInv, IndexTyped
      <3>4. \A e \in Sources : indexJob'[e].gen = indexJob[e].gen
               /\ indexJob'[e].doc = indexJob[e].doc /\ indexJob'[e].space = indexJob[e].space
               /\ indexJob'[e].state = indexJob[e].state /\ indexJob'[e].owner = indexJob[e].owner
        BY <3>2, <3>3
      <3>5. QED
        BY <2>1, <3>4, PublicationsKept
    <2>4. QED
      BY <2>2, <2>3
  <1>6. (\A w_1 \in IndexWorkers : WorkerIsAbreast(w_1))'
    <2>1. UNCHANGED <<spaces, recent, pins, setting, manifest, indexRows, published, indexedAs, used, gc>>
      BY DEF Index!CompleteIndexing, Index!settings
    <2>2. CASE ~Index!Owned(w)
      <3>1. Index!Stops(w) /\ UNCHANGED indexJob
        BY <2>2 DEF Index!CompleteIndexing
      <3> SUFFICES ASSUME NEW v \in IndexWorkers
                   PROVE  WorkerIsAbreast(v)'
        OBVIOUS
      <3>2. CASE v = w
        BY <3>1, <3>2, AbreastStopped DEF Index!Stops, IndexInv, IndexTyped
      <3>3. CASE v # w
        <4>1. indexWorker'[v] = indexWorker[v] /\ used \in Nat
          BY <3>1, <3>3 DEF Index!Stops, IndexInv, IndexTyped
        <4>2. indexWorker[v].gen # Index!Missing => manifest[indexWorker[v].gen].next \in Nat
          BY DEF IndexInv, IndexTyped, IndexTasks, Manifests, Known
        <4>3. Index!Owned(v)' => Index!Owned(v)
          BY <3>1, <4>1 DEF Index!Owned, Index!File
        <4>4. QED
          BY <2>1, <3>1, <4>1, <4>2, <4>3, AbreastKept DEF Staged
      <3>4. QED
        BY <3>2, <3>3
    <2>3. CASE Index!Owned(w)
      <3> DEFINE k == indexWorker[w]
                 f == indexWorker[w].owner
      <3>1. /\ f \in Sources /\ k.gen \in Index!Gens /\ manifest[k.gen].completed
            /\ indexJob[f].gen = k.gen
            /\ indexWorker' = [indexWorker EXCEPT ![w] = [k EXCEPT !.phase = "indexed"]]
        BY <2>3, IndexCompleted
      <3>2. PICK i \in IndexJobs :
               /\ indexJob' = [indexJob EXCEPT ![f] = i]
               /\ i.gen = indexJob[f].gen /\ i.doc = indexJob[f].doc /\ i.space = indexJob[f].space
               /\ i.state = indexJob[f].state /\ i.owner = indexJob[f].owner
               /\ i.phase = "indexed"
        BY <2>3, IndexCompleted
      <3>3. indexJob'[f] = i /\ \A e \in Sources \ {f} : indexJob'[e] = indexJob[e]
        BY <3>1, <3>2 DEF IndexInv, IndexTyped
      <3>4. \A e \in Sources : indexJob'[e].gen = indexJob[e].gen
               /\ indexJob'[e].doc = indexJob[e].doc /\ indexJob'[e].space = indexJob[e].space
               /\ indexJob'[e].state = indexJob[e].state /\ indexJob'[e].owner = indexJob[e].owner
        BY <3>2, <3>3
      <3> SUFFICES ASSUME NEW v \in IndexWorkers
                   PROVE  WorkerIsAbreast(v)'
        OBVIOUS
      <3>5. CASE v = w
        <4>1. PICK n \in IndexTasks : n = k
          BY DEF IndexInv, IndexTyped
        <4> DEFINE t == [n EXCEPT !.phase = "indexed"]
        <4>2. /\ t.doc = n.doc /\ t.space = n.space /\ t.gen = n.gen /\ t.owner = n.owner
              /\ t.phase = "indexed"
          BY DEF IndexTasks
        <4>3. indexWorker'[w] = t
          BY <3>1, <4>1 DEF IndexInv, IndexTyped
        <4>4. k.gen # Index!Missing
          BY <3>1 DEF Index!Missing, Index!Gens
        <4>5. /\ k.doc \in IndexDocs /\ k.space \in Spaces /\ k.owner \in Sources /\ k.gen <= used
              /\ \A b \in Sources : indexJob[b].gen = k.gen =>
                    b = k.owner /\ k.doc = indexJob[b].doc /\ k.space = indexJob[b].space
          BY <4>4 DEF IndexInv, WorkerIsAbreast
        <4> HIDE DEF t
        <4>6. QED
          BY <2>1, <3>1, <3>4, <3>5, <4>1, <4>2, <4>3, <4>4, <4>5 DEF WorkerIsAbreast
      <3>6. CASE v # w
        <4>1. indexWorker'[v] = indexWorker[v] /\ used \in Nat
          BY <3>1, <3>6 DEF IndexInv, IndexTyped
        <4>2. ASSUME indexWorker[v].gen # Index!Missing
              PROVE  /\ manifest[indexWorker[v].gen].next \in Nat
                     /\ indexWorker[v].owner \in Sources
          BY <4>2 DEF IndexInv, IndexTyped, IndexTasks, Manifests, Known, WorkerIsAbreast
        <4>3. ASSUME indexWorker[v].gen # Index!Missing
              PROVE  Index!Owned(v)' => Index!Owned(v)
          BY <3>4, <4>1, <4>2, <4>3 DEF Index!Owned, Index!File
        <4>4. QED
          BY <2>1, <3>4, <4>1, <4>2, <4>3, AbreastKept DEF Staged
      <3>7. QED
        BY <3>5, <3>6
    <2>4. QED
      BY <2>2, <2>3
  <1>7. QED
    BY <1>1, <1>2, <1>3, <1>4, <1>5, <1>6 DEF IndexInv

LEMMA IndexPromote ==
    ASSUME Index!IndexAssumption, IndexInv, NEW w \in IndexWorkers, Index!Promote(w)
    PROVE  IndexInv'
  <1>1. IndexTyped'
    <2> DEFINE f == indexWorker[w].owner
    <2>1. indexWorker[w].gen # Index!Missing /\ f \in Sources
      BY WorkerHasJob DEF Index!Promote
    <2>2. CASE ~(Index!Owned(w) /\ indexJob[f].phase = "indexed")
      <3>1. /\ indexWorker' = [indexWorker EXCEPT ![w] = Index!NoJob]
            /\ UNCHANGED <<indexedAs, published, indexRows, indexJob, manifest>>
            /\ UNCHANGED <<spaces, recent, pins, setting, used, gc>>
        BY <2>1, <2>2, IndexNotPromoted
      <3>2. QED
        BY <3>1, IndexEmpties DEF IndexInv, IndexTyped
    <2>3. CASE Index!Owned(w) /\ indexJob[f].phase = "indexed"
      <3> DEFINE j == indexJob[f]
      <3>1. /\ j.gen \in Index!Gens /\ j.gen # Index!Missing /\ j.doc \in IndexDocs /\ j.space \in Spaces
            /\ j.space \in spaces /\ Index!RowsOf(j.gen) = RowsUpTo(j.gen, j.doc, j.space, Elements)
        BY <2>1, <2>3, CompleteIsPublishable
      <3>2. /\ indexedAs' = [indexedAs EXCEPT ![f] = j.doc]
            /\ published' = [published EXCEPT ![f] = [s \in Spaces |->
                  IF s = j.space THEN [doc |-> j.doc, gen |-> j.gen]
                  ELSE IF s \in Index!Replaced(f, j) THEN Index!Nothing
                  ELSE published[f][s]]]
            /\ indexJob' = [indexJob EXCEPT ![f] = Index!NoJob]
            /\ manifest' = [manifest EXCEPT ![j.gen] = Index!NoManifest]
            /\ indexWorker' = [indexWorker EXCEPT ![w] = Index!NoJob]
            /\ indexRows' \subseteq indexRows
            /\ \A g \in Index!Gens : Index!RowsOf(g)' = Index!RowsOf(g)
                  \/ (g # j.gen /\ \E s \in Index!Replaced(f, j) : published[f][s].gen = g)
            /\ UNCHANGED <<spaces, recent, pins, setting, used, gc>>
        BY <2>1, <2>3, IndexPromoted
      <3>3. indexJob'[f] = Index!NoJob /\ \A e \in Sources \ {f} : indexJob'[e] = indexJob[e]
        BY <2>1, <3>2 DEF IndexInv, IndexTyped
      <3>4. manifest'[j.gen] = Index!NoManifest
            /\ \A g \in Index!Gens \ {j.gen} : manifest'[g] = manifest[g]
        BY <3>1, <3>2 DEF IndexInv, IndexTyped
      <3>5. \A e \in Sources \ {f} : indexJob[e].gen # j.gen
        BY <2>1, <3>1 DEF IndexInv, JobIsWhole
      <3>6. j.doc \in Known(IndexDocs) /\ j.gen \in Known(Index!Gens)
        BY <3>1 DEF Known
      <3>7. [doc |-> j.doc, gen |-> j.gen] \in Publications
        BY <3>6 DEF Publications
      <3>8. published' \in [Sources -> [Spaces -> Publications]]
        BY <2>1, <3>2, <3>7, IndexEmpties DEF IndexInv, IndexTyped
      <3>9. indexedAs' \in [Sources -> Known(IndexDocs)]
        BY <3>2, <3>6 DEF IndexInv, IndexTyped
      <3>10. QED
        BY <3>2, <3>8, <3>9, IndexEmpties DEF IndexInv, IndexTyped
    <2>4. QED
      BY <2>2, <2>3
  <1>2. (\A f_1 \in Sources : JobIsWhole(f_1))'
    <2> DEFINE f == indexWorker[w].owner
    <2>1. indexWorker[w].gen # Index!Missing /\ f \in Sources
      BY WorkerHasJob DEF Index!Promote
    <2>2. CASE ~(Index!Owned(w) /\ indexJob[f].phase = "indexed")
      <3>1. /\ indexWorker' = [indexWorker EXCEPT ![w] = Index!NoJob]
            /\ UNCHANGED <<indexedAs, published, indexRows, indexJob, manifest>>
            /\ UNCHANGED <<spaces, recent, pins, setting, used, gc>>
        BY <2>1, <2>2, IndexNotPromoted
      <3>2. QED
        BY <3>1 DEF IndexInv, JobIsWhole, Staged, Index!RowsOf
    <2>3. CASE Index!Owned(w) /\ indexJob[f].phase = "indexed"
      <3> DEFINE j == indexJob[f]
      <3>1. /\ j.gen \in Index!Gens /\ j.gen # Index!Missing /\ j.doc \in IndexDocs /\ j.space \in Spaces
            /\ j.space \in spaces /\ Index!RowsOf(j.gen) = RowsUpTo(j.gen, j.doc, j.space, Elements)
        BY <2>1, <2>3, CompleteIsPublishable
      <3>2. /\ indexedAs' = [indexedAs EXCEPT ![f] = j.doc]
            /\ published' = [published EXCEPT ![f] = [s \in Spaces |->
                  IF s = j.space THEN [doc |-> j.doc, gen |-> j.gen]
                  ELSE IF s \in Index!Replaced(f, j) THEN Index!Nothing
                  ELSE published[f][s]]]
            /\ indexJob' = [indexJob EXCEPT ![f] = Index!NoJob]
            /\ manifest' = [manifest EXCEPT ![j.gen] = Index!NoManifest]
            /\ indexWorker' = [indexWorker EXCEPT ![w] = Index!NoJob]
            /\ indexRows' \subseteq indexRows
            /\ \A g \in Index!Gens : Index!RowsOf(g)' = Index!RowsOf(g)
                  \/ (g # j.gen /\ \E s \in Index!Replaced(f, j) : published[f][s].gen = g)
            /\ UNCHANGED <<spaces, recent, pins, setting, used, gc>>
        BY <2>1, <2>3, IndexPromoted
      <3>3. indexJob'[f] = Index!NoJob /\ \A e \in Sources \ {f} : indexJob'[e] = indexJob[e]
        BY <2>1, <3>2 DEF IndexInv, IndexTyped
      <3>4. manifest'[j.gen] = Index!NoManifest
            /\ \A g \in Index!Gens \ {j.gen} : manifest'[g] = manifest[g]
        BY <3>1, <3>2 DEF IndexInv, IndexTyped
      <3>5. \A e \in Sources \ {f} : indexJob[e].gen # j.gen
        BY <2>1, <3>1 DEF IndexInv, JobIsWhole
      <3> SUFFICES ASSUME NEW e \in Sources
                   PROVE  JobIsWhole(e)'
        OBVIOUS
      <3>6. CASE e = f \/ indexJob[e].gen = Index!Missing
        BY <3>3, <3>6 DEF IndexInv, JobIsWhole, Index!NoJob
      <3>7. CASE e # f /\ indexJob[e].gen # Index!Missing
        <4>1. indexJob[e].gen \in Index!Gens
          BY <3>7 DEF IndexInv, IndexTyped, IndexJobs, Known
        <4>2. manifest'[indexJob[e].gen] = manifest[indexJob[e].gen]
          BY <3>4, <3>5, <3>7, <4>1
        <4>3. Index!RowsOf(indexJob[e].gen) = {} => {r \in indexRows' : r.gen = indexJob[e].gen} = {}
          BY <3>2 DEF Index!RowsOf
        <4>4. /\ indexJob[e].doc \in IndexDocs /\ indexJob[e].space \in Spaces
              /\ indexJob[e].state # "none" /\ indexJob[e].gen <= used
              /\ \A b \in Sources \ {e} : indexJob[b].gen # indexJob[e].gen
              /\ ~Staged(indexJob[e].gen) => Index!RowsOf(indexJob[e].gen) = {}
              /\ indexJob[e].phase = "indexed" => manifest[indexJob[e].gen].completed
          BY <3>7 DEF IndexInv, JobIsWhole
        <4>5. \A b \in Sources \ {e} : indexJob'[b].gen # indexJob[e].gen
          BY <3>3, <3>7, <4>4 DEF Index!NoJob
        <4>6. indexJob'[e] = indexJob[e] /\ used' = used
          BY <3>2, <3>3, <3>7
        <4> HIDE DEF f, j
        <4>7. QED
          BY <3>7, <4>2, <4>3, <4>4, <4>5, <4>6 DEF JobIsWhole, Staged, Index!RowsOf
      <3>8. QED
        BY <3>6, <3>7
    <2>4. QED
      BY <2>2, <2>3
  <1>3. (\A g_1 \in Index!Gens : ManifestIsExact(g_1))'
    <2> DEFINE f == indexWorker[w].owner
    <2>1. indexWorker[w].gen # Index!Missing /\ f \in Sources
      BY WorkerHasJob DEF Index!Promote
    <2>2. CASE ~(Index!Owned(w) /\ indexJob[f].phase = "indexed")
      <3>1. /\ indexWorker' = [indexWorker EXCEPT ![w] = Index!NoJob]
            /\ UNCHANGED <<indexedAs, published, indexRows, indexJob, manifest>>
            /\ UNCHANGED <<spaces, recent, pins, setting, used, gc>>
        BY <2>1, <2>2, IndexNotPromoted
      <3>2. QED
        BY <3>1, ManifestsKept
    <2>3. CASE Index!Owned(w) /\ indexJob[f].phase = "indexed"
      <3> DEFINE j == indexJob[f]
      <3>1. /\ j.gen \in Index!Gens /\ j.gen # Index!Missing /\ j.doc \in IndexDocs /\ j.space \in Spaces
            /\ j.space \in spaces /\ Index!RowsOf(j.gen) = RowsUpTo(j.gen, j.doc, j.space, Elements)
        BY <2>1, <2>3, CompleteIsPublishable
      <3>2. /\ indexedAs' = [indexedAs EXCEPT ![f] = j.doc]
            /\ published' = [published EXCEPT ![f] = [s \in Spaces |->
                  IF s = j.space THEN [doc |-> j.doc, gen |-> j.gen]
                  ELSE IF s \in Index!Replaced(f, j) THEN Index!Nothing
                  ELSE published[f][s]]]
            /\ indexJob' = [indexJob EXCEPT ![f] = Index!NoJob]
            /\ manifest' = [manifest EXCEPT ![j.gen] = Index!NoManifest]
            /\ indexWorker' = [indexWorker EXCEPT ![w] = Index!NoJob]
            /\ indexRows' \subseteq indexRows
            /\ \A g \in Index!Gens : Index!RowsOf(g)' = Index!RowsOf(g)
                  \/ (g # j.gen /\ \E s \in Index!Replaced(f, j) : published[f][s].gen = g)
            /\ UNCHANGED <<spaces, recent, pins, setting, used, gc>>
        BY <2>1, <2>3, IndexPromoted
      <3>3. indexJob'[f] = Index!NoJob /\ \A e \in Sources \ {f} : indexJob'[e] = indexJob[e]
        BY <2>1, <3>2 DEF IndexInv, IndexTyped
      <3>4. manifest'[j.gen] = Index!NoManifest
            /\ \A g \in Index!Gens \ {j.gen} : manifest'[g] = manifest[g]
        BY <3>1, <3>2 DEF IndexInv, IndexTyped
      <3>5. \A e \in Sources \ {f} : indexJob[e].gen # j.gen
        BY <2>1, <3>1 DEF IndexInv, JobIsWhole
      <3> SUFFICES ASSUME NEW g \in Index!Gens
                   PROVE  ManifestIsExact(g)'
        BY DEF Index!Gens
      <3>6. CASE g = j.gen
        BY <3>4, <3>6, ManifestGone
      <3>7. CASE g # j.gen
        <4>1. manifest'[g] = manifest[g] /\ \A e \in Sources : indexJob[e].gen = g => e # f
          BY <3>4, <3>7
        <4>2. ASSUME Staged(g)
              PROVE  manifest[g].space \in spaces' /\ Index!RowsOf(g)' = Index!RowsOf(g)
          <5>1. PICK e \in Sources : indexJob[e].gen = g
            BY <4>2 DEF IndexInv, ManifestIsExact
          <5>2. \A s \in Index!Replaced(f, j) : published[f][s].gen # g
            BY <2>1, <5>1 DEF Index!Replaced, IndexInv, PublicationIsWhole
          <5>3. manifest[g].space \in spaces'
            BY <3>2, <4>2 DEF IndexInv, ManifestIsExact
          <5>4. QED
            BY <3>2, <5>2, <5>3
        <4>3. \A e \in Sources : indexJob[e].gen = g =>
                 indexJob'[e].gen = g /\ indexJob'[e].doc = indexJob[e].doc
                 /\ indexJob'[e].space = indexJob[e].space
          BY <3>3, <4>1
        <4>4. QED
          BY <4>1, <4>2, <4>3, ManifestKept
      <3>8. QED
        BY <3>6, <3>7
    <2>4. QED
      BY <2>2, <2>3
  <1>4. (\A r_1 \in indexRows : RowIsPlaced(r_1))'
    <2> DEFINE f == indexWorker[w].owner
    <2>1. indexWorker[w].gen # Index!Missing /\ f \in Sources
      BY WorkerHasJob DEF Index!Promote
    <2>2. CASE ~(Index!Owned(w) /\ indexJob[f].phase = "indexed")
      <3>1. /\ indexWorker' = [indexWorker EXCEPT ![w] = Index!NoJob]
            /\ UNCHANGED <<indexedAs, published, indexRows, indexJob, manifest>>
            /\ UNCHANGED <<spaces, recent, pins, setting, used, gc>>
        BY <2>1, <2>2, IndexNotPromoted
      <3>2. QED
        BY <3>1 DEF IndexInv, RowIsPlaced
    <2>3. CASE Index!Owned(w) /\ indexJob[f].phase = "indexed"
      <3> DEFINE j == indexJob[f]
      <3>1. /\ j.gen \in Index!Gens /\ j.gen # Index!Missing /\ j.doc \in IndexDocs /\ j.space \in Spaces
            /\ j.space \in spaces /\ Index!RowsOf(j.gen) = RowsUpTo(j.gen, j.doc, j.space, Elements)
        BY <2>1, <2>3, CompleteIsPublishable
      <3>2. /\ indexedAs' = [indexedAs EXCEPT ![f] = j.doc]
            /\ published' = [published EXCEPT ![f] = [s \in Spaces |->
                  IF s = j.space THEN [doc |-> j.doc, gen |-> j.gen]
                  ELSE IF s \in Index!Replaced(f, j) THEN Index!Nothing
                  ELSE published[f][s]]]
            /\ indexJob' = [indexJob EXCEPT ![f] = Index!NoJob]
            /\ manifest' = [manifest EXCEPT ![j.gen] = Index!NoManifest]
            /\ indexWorker' = [indexWorker EXCEPT ![w] = Index!NoJob]
            /\ indexRows' \subseteq indexRows
            /\ \A g \in Index!Gens : Index!RowsOf(g)' = Index!RowsOf(g)
                  \/ (g # j.gen /\ \E s \in Index!Replaced(f, j) : published[f][s].gen = g)
            /\ UNCHANGED <<spaces, recent, pins, setting, used, gc>>
        BY <2>1, <2>3, IndexPromoted
      <3>3. indexJob'[f] = Index!NoJob /\ \A e \in Sources \ {f} : indexJob'[e] = indexJob[e]
        BY <2>1, <3>2 DEF IndexInv, IndexTyped
      <3>4. manifest'[j.gen] = Index!NoManifest
            /\ \A g \in Index!Gens \ {j.gen} : manifest'[g] = manifest[g]
        BY <3>1, <3>2 DEF IndexInv, IndexTyped
      <3>5. \A e \in Sources \ {f} : indexJob[e].gen # j.gen
        BY <2>1, <3>1 DEF IndexInv, JobIsWhole
      <3>6. QED
        BY <3>2 DEF IndexInv, RowIsPlaced
    <2>4. QED
      BY <2>2, <2>3
  <1>5. (\A f_1 \in Sources, s_1 \in Spaces : PublicationIsWhole(f_1, s_1))'
    <2> DEFINE f == indexWorker[w].owner
    <2>1. indexWorker[w].gen # Index!Missing /\ f \in Sources
      BY WorkerHasJob DEF Index!Promote
    <2>2. CASE ~(Index!Owned(w) /\ indexJob[f].phase = "indexed")
      <3>1. /\ indexWorker' = [indexWorker EXCEPT ![w] = Index!NoJob]
            /\ UNCHANGED <<indexedAs, published, indexRows, indexJob, manifest>>
            /\ UNCHANGED <<spaces, recent, pins, setting, used, gc>>
        BY <2>1, <2>2, IndexNotPromoted
      <3>2. QED
        BY <3>1, PublicationsKept
    <2>3. CASE Index!Owned(w) /\ indexJob[f].phase = "indexed"
      <3> DEFINE j == indexJob[f]
      <3>1. /\ j.gen \in Index!Gens /\ j.gen # Index!Missing /\ j.doc \in IndexDocs /\ j.space \in Spaces
            /\ j.space \in spaces /\ Index!RowsOf(j.gen) = RowsUpTo(j.gen, j.doc, j.space, Elements)
        BY <2>1, <2>3, CompleteIsPublishable
      <3>2. /\ indexedAs' = [indexedAs EXCEPT ![f] = j.doc]
            /\ published' = [published EXCEPT ![f] = [s \in Spaces |->
                  IF s = j.space THEN [doc |-> j.doc, gen |-> j.gen]
                  ELSE IF s \in Index!Replaced(f, j) THEN Index!Nothing
                  ELSE published[f][s]]]
            /\ indexJob' = [indexJob EXCEPT ![f] = Index!NoJob]
            /\ manifest' = [manifest EXCEPT ![j.gen] = Index!NoManifest]
            /\ indexWorker' = [indexWorker EXCEPT ![w] = Index!NoJob]
            /\ indexRows' \subseteq indexRows
            /\ \A g \in Index!Gens : Index!RowsOf(g)' = Index!RowsOf(g)
                  \/ (g # j.gen /\ \E s \in Index!Replaced(f, j) : published[f][s].gen = g)
            /\ UNCHANGED <<spaces, recent, pins, setting, used, gc>>
        BY <2>1, <2>3, IndexPromoted
      <3>3. indexJob'[f] = Index!NoJob /\ \A e \in Sources \ {f} : indexJob'[e] = indexJob[e]
        BY <2>1, <3>2 DEF IndexInv, IndexTyped
      <3>4. manifest'[j.gen] = Index!NoManifest
            /\ \A g \in Index!Gens \ {j.gen} : manifest'[g] = manifest[g]
        BY <3>1, <3>2 DEF IndexInv, IndexTyped
      <3>5. \A e \in Sources \ {f} : indexJob[e].gen # j.gen
        BY <2>1, <3>1 DEF IndexInv, JobIsWhole
      <3>6. \A e \in Sources, u \in Spaces : published'[e][u] =
               IF e # f THEN published[e][u]
               ELSE IF u = j.space THEN [doc |-> j.doc, gen |-> j.gen]
               ELSE IF u \in Index!Replaced(f, j) THEN Index!Nothing ELSE published[f][u]
        BY <2>1, <3>2 DEF IndexInv, IndexTyped
      <3>7. \A e \in Sources, u \in Spaces : published[e][u].doc # Index!Missing =>
               published[e][u].gen # j.gen
        BY <2>1 DEF IndexInv, PublicationIsWhole
      <3> SUFFICES ASSUME NEW e \in Sources, NEW u \in Spaces, published'[e][u].doc # Index!Missing
                   PROVE  PublicationIsWhole(e, u)'
        BY DEF PublicationIsWhole
      <3>8. \A b \in Sources, v \in Spaces : published'[b][v].doc # Index!Missing =>
               \/ b = f /\ v = j.space /\ published'[b][v].gen = j.gen
               \/ published'[b][v] = published[b][v] /\ published[b][v].gen # j.gen
        BY <3>6, <3>7 DEF Index!Nothing
      <3>9. CASE e = f /\ u = j.space
        <4>1. published'[e][u].doc = j.doc /\ published'[e][u].gen = j.gen
          BY <3>6, <3>9
        <4>2. indexedAs'[e] = j.doc /\ u \in spaces' /\ j.gen <= used'
          BY <2>1, <3>1, <3>2, <3>9 DEF IndexInv, IndexTyped, JobIsWhole
        <4>3. Index!RowsOf(published[e][u].gen)' = RowsUpTo(j.gen, j.doc, u, Elements)
          <5>1. {r \in indexRows' : r.gen = j.gen} = {r \in indexRows : r.gen = j.gen}
            BY <3>1, <3>2 DEF Index!RowsOf
          <5>2. QED
            BY <3>1, <3>9, <4>1, <5>1 DEF Index!RowsOf
        <4>4. RowsUpTo(published[e][u].gen, published[e][u].doc, u, Elements)'
                 = RowsUpTo(j.gen, j.doc, u, Elements)
          BY <4>1 DEF RowsUpTo, Index!Positions
        <4>5. \A b \in Sources : indexJob'[b].gen # j.gen
          BY <3>1, <3>3, <3>5 DEF Index!NoJob
        <4>6. \A b \in Sources, v \in Spaces :
                 published'[b][v].doc # Index!Missing /\ published'[b][v].gen = j.gen => b = e /\ v = u
          BY <3>8, <3>9
        <4> HIDE DEF f
        <4>7. QED
          BY <3>1, <4>1, <4>2, <4>3, <4>4, <4>5, <4>6 DEF PublicationIsWhole, Index!Gens
      <3>10. CASE ~(e = f /\ u = j.space)
        <4> DEFINE p == published[e][u]
        <4>1. published'[e][u] = p /\ p.gen # j.gen /\ p.doc # Index!Missing
          BY <3>8, <3>10
        <4>2. ~(e = f /\ u \in Index!Replaced(f, j))
          BY <3>6, <3>10 DEF Index!Nothing
        <4>3. /\ p.doc = indexedAs[e] /\ u \in spaces /\ p.gen \in Index!Gens /\ p.gen <= used
              /\ Index!RowsOf(p.gen) = RowsUpTo(p.gen, p.doc, u, Elements)
              /\ \A b \in Sources : indexJob[b].gen # p.gen
              /\ \A b \in Sources, v \in Spaces :
                    published[b][v].doc # Index!Missing /\ published[b][v].gen = p.gen => b = e /\ v = u
          BY <4>1 DEF IndexInv, PublicationIsWhole
        <4>4. p.doc = indexedAs'[e]
          <5>1. CASE e = f
            <6>1. p.doc = j.doc
              BY <4>1, <4>2, <5>1 DEF Index!Replaced
            <6>2. QED
              BY <2>1, <3>2, <5>1, <6>1 DEF IndexInv, IndexTyped
          <5>2. CASE e # f
            BY <3>2, <4>3, <5>2 DEF IndexInv, IndexTyped
          <5>3. QED
            BY <5>1, <5>2
        <4>5. \A s \in Index!Replaced(f, j) : published[f][s].gen # p.gen
          BY <2>1, <4>2, <4>3 DEF Index!Replaced
        <4>6. {r \in indexRows' : r.gen = p.gen} = {r \in indexRows : r.gen = p.gen}
          <5>1. \A g \in Index!Gens : g = p.gen =>
                   {r \in indexRows' : r.gen = g} = {r \in indexRows : r.gen = g}
            BY <3>2, <4>5 DEF Index!RowsOf
          <5>2. QED
            BY <4>3, <5>1
        <4>7. Index!RowsOf(published[e][u].gen)' = RowsUpTo(p.gen, p.doc, u, Elements)
          BY <4>1, <4>3, <4>6 DEF Index!RowsOf
        <4>8. RowsUpTo(published[e][u].gen, published[e][u].doc, u, Elements)'
                 = RowsUpTo(p.gen, p.doc, u, Elements)
          BY <4>1 DEF RowsUpTo, Index!Positions
        <4>9. \A b \in Sources : indexJob'[b].gen # p.gen
          <5>1. p.gen # Index!Missing
            BY <4>3 DEF Index!Missing, Index!Gens
          <5>2. QED
            BY <3>3, <4>3, <5>1 DEF Index!NoJob
        <4>10. \A b \in Sources, v \in Spaces :
                  published'[b][v].doc # Index!Missing /\ published'[b][v].gen = p.gen => b = e /\ v = u
          BY <3>8, <4>1, <4>3
        <4>11. u \in spaces' /\ p.gen <= used' /\ p.gen \in Index!Gens
          BY <3>2, <4>3
        <4> HIDE DEF f, j
        <4>12. QED
          BY <4>1, <4>4, <4>7, <4>8, <4>9, <4>10, <4>11 DEF PublicationIsWhole, Index!Gens
      <3>11. QED
        BY <3>9, <3>10
    <2>4. QED
      BY <2>2, <2>3
  <1>6. (\A w_1 \in IndexWorkers : WorkerIsAbreast(w_1))'
    <2> DEFINE f == indexWorker[w].owner
    <2>1. indexWorker[w].gen # Index!Missing /\ f \in Sources
      BY WorkerHasJob DEF Index!Promote
    <2>2. CASE ~(Index!Owned(w) /\ indexJob[f].phase = "indexed")
      <3>1. /\ indexWorker' = [indexWorker EXCEPT ![w] = Index!NoJob]
            /\ UNCHANGED <<indexedAs, published, indexRows, indexJob, manifest>>
            /\ UNCHANGED <<spaces, recent, pins, setting, used, gc>>
        BY <2>1, <2>2, IndexNotPromoted
      <3> SUFFICES ASSUME NEW v \in IndexWorkers
                   PROVE  WorkerIsAbreast(v)'
        OBVIOUS
      <3>2. CASE v = w
        BY <3>1, <3>2, AbreastStopped DEF IndexInv, IndexTyped
      <3>3. CASE v # w
        <4>1. indexWorker'[v] = indexWorker[v] /\ used \in Nat
          BY <3>1, <3>3 DEF IndexInv, IndexTyped
        <4>2. indexWorker[v].gen # Index!Missing => manifest[indexWorker[v].gen].next \in Nat
          BY DEF IndexInv, IndexTyped, IndexTasks, Manifests, Known
        <4>3. Index!Owned(v)' => Index!Owned(v)
          BY <3>1, <4>1 DEF Index!Owned, Index!File
        <4>4. QED
          BY <3>1, <4>1, <4>2, <4>3, AbreastKept DEF Staged
      <3>4. QED
        BY <3>2, <3>3
    <2>3. CASE Index!Owned(w) /\ indexJob[f].phase = "indexed"
      <3> DEFINE j == indexJob[f]
      <3>1. /\ j.gen \in Index!Gens /\ j.gen # Index!Missing /\ j.doc \in IndexDocs /\ j.space \in Spaces
            /\ j.space \in spaces /\ Index!RowsOf(j.gen) = RowsUpTo(j.gen, j.doc, j.space, Elements)
        BY <2>1, <2>3, CompleteIsPublishable
      <3>2. /\ indexedAs' = [indexedAs EXCEPT ![f] = j.doc]
            /\ published' = [published EXCEPT ![f] = [s \in Spaces |->
                  IF s = j.space THEN [doc |-> j.doc, gen |-> j.gen]
                  ELSE IF s \in Index!Replaced(f, j) THEN Index!Nothing
                  ELSE published[f][s]]]
            /\ indexJob' = [indexJob EXCEPT ![f] = Index!NoJob]
            /\ manifest' = [manifest EXCEPT ![j.gen] = Index!NoManifest]
            /\ indexWorker' = [indexWorker EXCEPT ![w] = Index!NoJob]
            /\ indexRows' \subseteq indexRows
            /\ \A g \in Index!Gens : Index!RowsOf(g)' = Index!RowsOf(g)
                  \/ (g # j.gen /\ \E s \in Index!Replaced(f, j) : published[f][s].gen = g)
            /\ UNCHANGED <<spaces, recent, pins, setting, used, gc>>
        BY <2>1, <2>3, IndexPromoted
      <3>3. indexJob'[f] = Index!NoJob /\ \A e \in Sources \ {f} : indexJob'[e] = indexJob[e]
        BY <2>1, <3>2 DEF IndexInv, IndexTyped
      <3>4. manifest'[j.gen] = Index!NoManifest
            /\ \A g \in Index!Gens \ {j.gen} : manifest'[g] = manifest[g]
        BY <3>1, <3>2 DEF IndexInv, IndexTyped
      <3>5. \A e \in Sources \ {f} : indexJob[e].gen # j.gen
        BY <2>1, <3>1 DEF IndexInv, JobIsWhole
      <3> SUFFICES ASSUME NEW v \in IndexWorkers
                   PROVE  WorkerIsAbreast(v)'
        OBVIOUS
      <3>6. CASE v = w
        BY <3>2, <3>6, AbreastStopped DEF IndexInv, IndexTyped
      <3>7. CASE v # w
        <4>1. indexWorker'[v] = indexWorker[v] /\ used \in Nat /\ used' = used
          BY <3>2, <3>7 DEF IndexInv, IndexTyped
        <4>2. ASSUME indexWorker[v].gen # Index!Missing
              PROVE  /\ indexWorker[v].gen \in Index!Gens
                     /\ manifest[indexWorker[v].gen].next \in Nat
                     /\ indexWorker[v].owner \in Sources
          BY <4>2 DEF IndexInv, IndexTyped, IndexTasks, Manifests, Known, WorkerIsAbreast
        <4>3. ASSUME indexWorker[v].gen # Index!Missing, NEW e \in Sources,
                     indexJob'[e].gen = indexWorker[v].gen
              PROVE  indexJob'[e] = indexJob[e]
                     /\ manifest'[indexWorker[v].gen] = manifest[indexWorker[v].gen]
          <5>1. e # f
            BY <3>3, <4>3 DEF Index!NoJob
          <5>2. QED
            BY <3>3, <3>4, <3>5, <4>2, <4>3, <5>1
        <4>4. ASSUME indexWorker[v].gen # Index!Missing, Index!Owned(v)'
              PROVE  Index!Owned(v) /\ indexJob'[indexWorker[v].owner] = indexJob[indexWorker[v].owner]
          <5>1. indexWorker[v].owner # f
            BY <3>3, <4>1, <4>4 DEF Index!Owned, Index!File, Index!NoJob
          <5>2. indexJob'[indexWorker[v].owner] = indexJob[indexWorker[v].owner]
            BY <3>3, <4>2, <4>4, <5>1
          <5>3. QED
            BY <4>1, <4>4, <5>2 DEF Index!Owned, Index!File
        <4>5. QED
          BY <4>1, <4>2, <4>3, <4>4, AbreastKept DEF Staged
      <3>8. QED
        BY <3>6, <3>7
    <2>4. QED
      BY <2>2, <2>3
  <1>7. QED
    BY <1>1, <1>2, <1>3, <1>4, <1>5, <1>6 DEF IndexInv

LEMMA IndexWorkerFails ==
    ASSUME Index!IndexAssumption, IndexInv, NEW w \in IndexWorkers, Index!WorkerFails(w)
    PROVE  IndexInv'
  <1>1. IndexTyped'
    <2>1. UNCHANGED <<spaces, recent, pins, setting, manifest, indexRows, published, indexedAs, used, gc>>
          /\ indexWorker' = [indexWorker EXCEPT ![w] = Index!NoJob]
      BY DEF Index!WorkerFails, Index!settings, Index!Stops
    <2>2. CASE ~Index!Owned(w)
      <3>1. UNCHANGED indexJob
        BY <2>2 DEF Index!WorkerFails
      <3>2. QED
        BY <2>1, <3>1, IndexEmpties DEF IndexInv, IndexTyped
    <2>3. CASE Index!Owned(w)
      <3> DEFINE f == indexWorker[w].owner
      <3>1. f \in Sources
        BY <2>3, IndexOwned DEF Index!WorkerFails
      <3>2. PICK q \in {"failed", "pending"} :
               indexJob' = [indexJob EXCEPT ![f].state = q, ![f].owner = Index!Missing]
        BY <2>3, Zenon DEF Index!WorkerFails, Index!File
      <3>3. q \in {"none", "pending", "running", "failed", "expired"}
            /\ Index!Missing \in Known(IndexWorkers)
        BY DEF Known
      <3> HIDE DEF f
      <3>4. /\ indexJob' \in [Sources -> IndexJobs]
            /\ \A e \in Sources \ {f} : indexJob'[e] = indexJob[e]
            /\ \A e \in Sources :
                  /\ indexJob'[e].gen = indexJob[e].gen /\ indexJob'[e].doc = indexJob[e].doc
                  /\ indexJob'[e].space = indexJob[e].space /\ indexJob'[e].phase = indexJob[e].phase
            /\ indexJob'[f].state = q
        BY <3>1, <3>2, <3>3, JobRestated
      <3>5. QED
        BY <2>1, <3>4, IndexEmpties DEF IndexInv, IndexTyped
    <2>4. QED
      BY <2>2, <2>3
  <1>2. (\A f_1 \in Sources : JobIsWhole(f_1))'
    <2>1. UNCHANGED <<spaces, recent, pins, setting, manifest, indexRows, published, indexedAs, used, gc>>
          /\ indexWorker' = [indexWorker EXCEPT ![w] = Index!NoJob]
      BY DEF Index!WorkerFails, Index!settings, Index!Stops
    <2>2. CASE ~Index!Owned(w)
      <3>1. UNCHANGED indexJob
        BY <2>2 DEF Index!WorkerFails
      <3>2. QED
        BY <2>1, <3>1 DEF IndexInv, JobIsWhole, Staged, Index!RowsOf
    <2>3. CASE Index!Owned(w)
      <3> DEFINE f == indexWorker[w].owner
      <3>1. f \in Sources
        BY <2>3, IndexOwned DEF Index!WorkerFails
      <3>2. PICK q \in {"failed", "pending"} :
               indexJob' = [indexJob EXCEPT ![f].state = q, ![f].owner = Index!Missing]
        BY <2>3, Zenon DEF Index!WorkerFails, Index!File
      <3>3. q \in {"none", "pending", "running", "failed", "expired"}
            /\ Index!Missing \in Known(IndexWorkers)
        BY DEF Known
      <3> HIDE DEF f
      <3>4. /\ indexJob' \in [Sources -> IndexJobs]
            /\ \A e \in Sources \ {f} : indexJob'[e] = indexJob[e]
            /\ \A e \in Sources :
                  /\ indexJob'[e].gen = indexJob[e].gen /\ indexJob'[e].doc = indexJob[e].doc
                  /\ indexJob'[e].space = indexJob[e].space /\ indexJob'[e].phase = indexJob[e].phase
            /\ indexJob'[f].state = q
        BY <3>1, <3>2, <3>3, JobRestated
      <3> SUFFICES ASSUME NEW e \in Sources
                   PROVE  JobIsWhole(e)'
        OBVIOUS
      <3>5. CASE indexJob[e].gen = Index!Missing
        <4>1. indexJob[e] = Index!NoJob
          BY <3>5 DEF IndexInv, JobIsWhole
        <4>2. e # f
          BY <2>3, <4>1 DEF Index!Owned, Index!File, Index!NoJob, f
        <4>3. QED
          BY <3>4, <4>1, <4>2 DEF JobIsWhole, Index!NoJob
      <3>6. CASE indexJob[e].gen # Index!Missing
        <4>1. /\ indexJob[e].doc \in IndexDocs /\ indexJob[e].space \in Spaces
              /\ indexJob[e].state # "none" /\ indexJob[e].gen <= used
              /\ \A b \in Sources \ {e} : indexJob[b].gen # indexJob[e].gen
              /\ ~Staged(indexJob[e].gen) => Index!RowsOf(indexJob[e].gen) = {}
              /\ indexJob[e].phase = "indexed" => manifest[indexJob[e].gen].completed
          BY <3>6 DEF IndexInv, JobIsWhole
        <4>2. indexJob'[e].state # "none"
          BY <3>4, <4>1
        <4>3. QED
          BY <2>1, <3>4, <3>6, <4>1, <4>2 DEF JobIsWhole, Staged, Index!RowsOf
      <3>7. QED
        BY <3>5, <3>6
    <2>4. QED
      BY <2>2, <2>3
  <1>3. (\A g_1 \in Index!Gens : ManifestIsExact(g_1))'
    <2>1. UNCHANGED <<spaces, recent, pins, setting, manifest, indexRows, published, indexedAs, used, gc>>
          /\ indexWorker' = [indexWorker EXCEPT ![w] = Index!NoJob]
      BY DEF Index!WorkerFails, Index!settings, Index!Stops
    <2>2. CASE ~Index!Owned(w)
      <3>1. UNCHANGED indexJob
        BY <2>2 DEF Index!WorkerFails
      <3>2. QED
        BY <2>1, <3>1, ManifestsKept
    <2>3. CASE Index!Owned(w)
      <3> DEFINE f == indexWorker[w].owner
      <3>1. f \in Sources
        BY <2>3, IndexOwned DEF Index!WorkerFails
      <3>2. PICK q \in {"failed", "pending"} :
               indexJob' = [indexJob EXCEPT ![f].state = q, ![f].owner = Index!Missing]
        BY <2>3, Zenon DEF Index!WorkerFails, Index!File
      <3>3. q \in {"none", "pending", "running", "failed", "expired"}
            /\ Index!Missing \in Known(IndexWorkers)
        BY DEF Known
      <3> HIDE DEF f
      <3>4. /\ indexJob' \in [Sources -> IndexJobs]
            /\ \A e \in Sources \ {f} : indexJob'[e] = indexJob[e]
            /\ \A e \in Sources :
                  /\ indexJob'[e].gen = indexJob[e].gen /\ indexJob'[e].doc = indexJob[e].doc
                  /\ indexJob'[e].space = indexJob[e].space /\ indexJob'[e].phase = indexJob[e].phase
            /\ indexJob'[f].state = q
        BY <3>1, <3>2, <3>3, JobRestated
      <3>5. QED
        BY <2>1, <3>4, ManifestsKept
    <2>4. QED
      BY <2>2, <2>3
  <1>4. (\A r_1 \in indexRows : RowIsPlaced(r_1))'
    BY DEF Index!WorkerFails, Index!Stops, Index!settings, IndexInv, RowIsPlaced
  <1>5. (\A f_1 \in Sources, s_1 \in Spaces : PublicationIsWhole(f_1, s_1))'
    <2>1. UNCHANGED <<spaces, recent, pins, setting, manifest, indexRows, published, indexedAs, used, gc>>
          /\ indexWorker' = [indexWorker EXCEPT ![w] = Index!NoJob]
      BY DEF Index!WorkerFails, Index!settings, Index!Stops
    <2>2. CASE ~Index!Owned(w)
      <3>1. UNCHANGED indexJob
        BY <2>2 DEF Index!WorkerFails
      <3>2. QED
        BY <2>1, <3>1, PublicationsKept
    <2>3. CASE Index!Owned(w)
      <3> DEFINE f == indexWorker[w].owner
      <3>1. f \in Sources
        BY <2>3, IndexOwned DEF Index!WorkerFails
      <3>2. PICK q \in {"failed", "pending"} :
               indexJob' = [indexJob EXCEPT ![f].state = q, ![f].owner = Index!Missing]
        BY <2>3, Zenon DEF Index!WorkerFails, Index!File
      <3>3. q \in {"none", "pending", "running", "failed", "expired"}
            /\ Index!Missing \in Known(IndexWorkers)
        BY DEF Known
      <3> HIDE DEF f
      <3>4. /\ indexJob' \in [Sources -> IndexJobs]
            /\ \A e \in Sources \ {f} : indexJob'[e] = indexJob[e]
            /\ \A e \in Sources :
                  /\ indexJob'[e].gen = indexJob[e].gen /\ indexJob'[e].doc = indexJob[e].doc
                  /\ indexJob'[e].space = indexJob[e].space /\ indexJob'[e].phase = indexJob[e].phase
            /\ indexJob'[f].state = q
        BY <3>1, <3>2, <3>3, JobRestated
      <3>5. QED
        BY <2>1, <3>4, PublicationsKept
    <2>4. QED
      BY <2>2, <2>3
  <1>6. (\A w_1 \in IndexWorkers : WorkerIsAbreast(w_1))'
    <2>1. UNCHANGED <<spaces, recent, pins, setting, manifest, indexRows, published, indexedAs, used, gc>>
          /\ indexWorker' = [indexWorker EXCEPT ![w] = Index!NoJob]
      BY DEF Index!WorkerFails, Index!settings, Index!Stops
    <2>2. CASE ~Index!Owned(w)
      <3>1. UNCHANGED indexJob
        BY <2>2 DEF Index!WorkerFails
      <3> SUFFICES ASSUME NEW v \in IndexWorkers
                   PROVE  WorkerIsAbreast(v)'
        OBVIOUS
      <3>2. CASE v = w
        BY <2>1, <3>2, AbreastStopped DEF IndexInv, IndexTyped
      <3>3. CASE v # w
        <4>1. indexWorker'[v] = indexWorker[v] /\ used \in Nat
          BY <2>1, <3>3 DEF IndexInv, IndexTyped
        <4>2. indexWorker[v].gen # Index!Missing => manifest[indexWorker[v].gen].next \in Nat
          BY DEF IndexInv, IndexTyped, IndexTasks, Manifests, Known
        <4>3. Index!Owned(v)' => Index!Owned(v)
          BY <3>1, <4>1 DEF Index!Owned, Index!File
        <4>4. QED
          BY <2>1, <3>1, <4>1, <4>2, <4>3, AbreastKept DEF Staged
      <3>4. QED
        BY <3>2, <3>3
    <2>3. CASE Index!Owned(w)
      <3> DEFINE f == indexWorker[w].owner
      <3>1. f \in Sources
        BY <2>3, IndexOwned DEF Index!WorkerFails
      <3>2. PICK q \in {"failed", "pending"} :
               indexJob' = [indexJob EXCEPT ![f].state = q, ![f].owner = Index!Missing]
        BY <2>3, Zenon DEF Index!WorkerFails, Index!File
      <3>3. q \in {"none", "pending", "running", "failed", "expired"}
            /\ Index!Missing \in Known(IndexWorkers)
        BY DEF Known
      <3> HIDE DEF f
      <3>4. /\ indexJob' \in [Sources -> IndexJobs]
            /\ \A e \in Sources \ {f} : indexJob'[e] = indexJob[e]
            /\ \A e \in Sources :
                  /\ indexJob'[e].gen = indexJob[e].gen /\ indexJob'[e].doc = indexJob[e].doc
                  /\ indexJob'[e].space = indexJob[e].space /\ indexJob'[e].phase = indexJob[e].phase
            /\ indexJob'[f].state = q
        BY <3>1, <3>2, <3>3, JobRestated
      <3> SUFFICES ASSUME NEW v \in IndexWorkers
                   PROVE  WorkerIsAbreast(v)'
        OBVIOUS
      <3>5. CASE v = w
        BY <2>1, <3>5, AbreastStopped DEF IndexInv, IndexTyped
      <3>6. CASE v # w
        <4>1. indexWorker'[v] = indexWorker[v] /\ used \in Nat
          BY <2>1, <3>6 DEF IndexInv, IndexTyped
        <4>2. ASSUME indexWorker[v].gen # Index!Missing
              PROVE  /\ manifest[indexWorker[v].gen].next \in Nat
                     /\ indexWorker[v].owner \in Sources
          BY <4>2 DEF IndexInv, IndexTyped, IndexTasks, Manifests, Known, WorkerIsAbreast
        <4>3. ASSUME indexWorker[v].gen # Index!Missing, Index!Owned(v)'
              PROVE  Index!Owned(v)
          <5>1. indexWorker[v].owner # f
            BY <3>4, <4>1, <4>3 DEF Index!Owned, Index!File
          <5>2. QED
            BY <3>4, <4>1, <4>2, <4>3, <5>1 DEF Index!Owned, Index!File
        <4>4. QED
          BY <2>1, <3>4, <4>1, <4>2, <4>3, AbreastKept DEF Staged
      <3>7. QED
        BY <3>5, <3>6
    <2>4. QED
      BY <2>2, <2>3
  <1>7. QED
    BY <1>1, <1>2, <1>3, <1>4, <1>5, <1>6 DEF IndexInv

LEMMA IndexLoseLease ==
    ASSUME Index!IndexAssumption, IndexInv, NEW f \in Sources, Index!LoseLease(f)
    PROVE  IndexInv'
  <1>1. IndexTyped'
    <2>1. indexJob' \in [Sources -> IndexJobs]
      BY JobRestated DEF Index!LoseLease, Known
    <2>2. QED
      BY <2>1 DEF Index!LoseLease, Index!settings, IndexInv, IndexTyped
  <1>2. (\A f_1 \in Sources : JobIsWhole(f_1))'
    BY DEF Index!LoseLease, IndexInv, JobIsWhole, Index!NoJob, Staged, Index!RowsOf, IndexTyped
  <1>3. (\A g_1 \in Index!Gens : ManifestIsExact(g_1))'
    <2>1. \A e \in Sources : indexJob'[e].gen = indexJob[e].gen
             /\ indexJob'[e].doc = indexJob[e].doc /\ indexJob'[e].space = indexJob[e].space
      BY JobRestated DEF Index!LoseLease, Known
    <2>2. QED
      BY <2>1, ManifestsKept DEF Index!LoseLease, Index!settings
  <1>4. (\A r_1 \in indexRows : RowIsPlaced(r_1))'
    BY DEF Index!LoseLease, Index!settings, IndexInv, RowIsPlaced
  <1>5. (\A f_1 \in Sources, s_1 \in Spaces : PublicationIsWhole(f_1, s_1))'
    BY DEF Index!LoseLease, Index!settings, IndexInv, PublicationIsWhole, Index!RowsOf,
           IndexTyped
  <1>6. (\A w_1 \in IndexWorkers : WorkerIsAbreast(w_1))'
    BY DEF Index!LoseLease, IndexInv, WorkerIsAbreast, Staged, Index!Owned, Index!File,
           IndexTyped
  <1>7. QED
    BY <1>1, <1>2, <1>3, <1>4, <1>5, <1>6 DEF IndexInv

LEMMA IndexFinalizeCancellation ==
    ASSUME Index!IndexAssumption, IndexInv, NEW f \in Sources, Index!FinalizeCancellation(f)
    PROVE  IndexInv'
  <1>1. IndexTyped'
    BY DEF Index!FinalizeCancellation, Index!NoJob, Index!NoManifest, Index!DeleteDocumentData,
           Index!Unreferenced, Index!settings, IndexInv, Index!IndexAssumption, IndexTyped,
           IndexJobs, Known, Manifests, JobIsWhole
  <1>2. (\A f_1 \in Sources : JobIsWhole(f_1))'
    BY DEF Index!FinalizeCancellation, Index!NoJob, Index!DeleteDocumentData,
           Index!Unreferenced, IndexInv, JobIsWhole, Staged, Index!RowsOf, IndexTyped
  <1>3. (\A g_1 \in Index!Gens : ManifestIsExact(g_1))'
    <2> SUFFICES ASSUME NEW g \in Index!Gens
                 PROVE  ManifestIsExact(g)'
      BY DEF Index!Gens
    <2>1. /\ indexJob' = [indexJob EXCEPT ![f] = Index!NoJob] /\ spaces' = spaces
          /\ \A h \in Index!Gens :
                manifest'[h] = IF h = indexJob[f].gen THEN Index!NoManifest ELSE manifest[h]
      BY DEF Index!FinalizeCancellation, Index!settings, IndexInv, IndexTyped
    <2>2. ASSUME NEW r \in indexRows, NEW e \in Sources, indexJob'[e].doc = r.doc
          PROVE  r \in indexRows'
      BY <2>2 DEF Index!FinalizeCancellation, Index!DeleteDocumentData, Index!Unreferenced
    <2>3. indexRows' \subseteq indexRows
      BY DEF Index!FinalizeCancellation, Index!DeleteDocumentData
    <2>4. CASE g = indexJob[f].gen
      BY <2>1, <2>4, ManifestGone
    <2>5. CASE g # indexJob[f].gen
      <3>1. manifest'[g] = manifest[g]
        BY <2>1, <2>5
      <3>2. \A e \in Sources : indexJob[e].gen = g => indexJob'[e] = indexJob[e]
        BY <2>1, <2>5 DEF IndexInv, IndexTyped
      <3>3. ASSUME Staged(g)
            PROVE  manifest[g].space \in spaces' /\ Index!RowsOf(g)' = Index!RowsOf(g)
        <4>1. PICK e \in Sources : indexJob[e].gen = g /\ manifest[g].doc = indexJob[e].doc
          BY <3>3 DEF IndexInv, ManifestIsExact
        <4>2. manifest[g].space \in spaces
              /\ Index!RowsOf(g) = RowsUpTo(g, manifest[g].doc, manifest[g].space, manifest[g].next)
          BY <3>3 DEF IndexInv, ManifestIsExact
        <4>3. \A r \in Index!RowsOf(g) : r.doc = indexJob'[e].doc
          BY <3>2, <4>1, <4>2 DEF RowsUpTo
        <4>4. \A r \in Index!RowsOf(g) : r \in indexRows'
          BY <2>2, <4>3 DEF Index!RowsOf
        <4>5. QED
          BY <2>1, <2>3, <4>2, <4>4 DEF Index!RowsOf
      <3>4. QED
        BY <3>1, <3>2, <3>3, ManifestKept
    <2>6. QED
      BY <2>4, <2>5
  <1>4. (\A r_1 \in indexRows : RowIsPlaced(r_1))'
    BY DEF Index!FinalizeCancellation, Index!DeleteDocumentData, Index!Unreferenced,
           Index!settings, IndexInv, RowIsPlaced
  <1>5. (\A f_1 \in Sources, s_1 \in Spaces : PublicationIsWhole(f_1, s_1))'
    BY DEF Index!FinalizeCancellation, Index!NoJob, Index!Missing, Index!DeleteDocumentData,
           Index!Unreferenced, Index!settings, IndexInv, PublicationIsWhole, Index!Gens,
           Index!RowsOf, RowsUpTo
  <1>6. (\A w_1 \in IndexWorkers : WorkerIsAbreast(w_1))'
    <2> SUFFICES ASSUME NEW v \in IndexWorkers
                 PROVE  WorkerIsAbreast(v)'
      OBVIOUS
    <2>1. /\ indexJob' = [indexJob EXCEPT ![f] = Index!NoJob] /\ used' = used
          /\ indexWorker' = indexWorker
          /\ \A g \in Index!Gens : g # indexJob[f].gen => manifest'[g] = manifest[g]
      BY DEF Index!FinalizeCancellation, IndexInv, IndexTyped
    <2>2. used \in Nat
      BY DEF IndexInv, IndexTyped
    <2>3. ASSUME indexWorker[v].gen # Index!Missing
          PROVE  /\ indexWorker[v].gen \in Index!Gens
                 /\ \A e \in Sources : indexJob'[e].gen = indexWorker[v].gen =>
                       /\ indexJob'[e] = indexJob[e]
                       /\ manifest'[indexWorker[v].gen] = manifest[indexWorker[v].gen]
                 /\ Index!Owned(v)' =>
                       Index!Owned(v) /\ indexJob'[indexWorker[v].owner] = indexJob[indexWorker[v].owner]
      <3>1. indexWorker[v].gen \in Index!Gens
        BY <2>3 DEF IndexInv, IndexTyped, IndexTasks, Known
      <3>2. ASSUME NEW e \in Sources, indexJob'[e].gen = indexWorker[v].gen
            PROVE  /\ indexJob'[e] = indexJob[e]
                   /\ manifest'[indexWorker[v].gen] = manifest[indexWorker[v].gen]
        <4>1. e # f
          BY <2>1, <2>3, <3>2 DEF IndexInv, IndexTyped, Index!NoJob
        <4>2. indexJob'[e] = indexJob[e]
          BY <2>1, <4>1 DEF IndexInv, IndexTyped
        <4>3. indexJob[f].gen # indexWorker[v].gen
          BY <2>3, <3>2, <4>1, <4>2 DEF IndexInv, JobIsWhole
        <4>4. QED
          BY <2>1, <3>1, <4>2, <4>3
      <3>3. ASSUME Index!Owned(v)'
            PROVE  Index!Owned(v) /\ indexJob'[indexWorker[v].owner] = indexJob[indexWorker[v].owner]
        <4>1. indexWorker[v].owner \in Sources
          BY <2>3 DEF IndexInv, WorkerIsAbreast
        <4>2. indexWorker[v].owner # f
          BY <2>1, <3>3 DEF IndexInv, IndexTyped, Index!Owned, Index!File, Index!NoJob
        <4>3. indexJob'[indexWorker[v].owner] = indexJob[indexWorker[v].owner]
          BY <2>1, <4>1, <4>2 DEF IndexInv, IndexTyped
        <4>4. QED
          BY <2>1, <3>3, <4>3 DEF Index!Owned, Index!File
      <3>4. QED
        BY <3>1, <3>2, <3>3
    <2>4. ASSUME indexWorker[v].gen # Index!Missing
          PROVE  manifest[indexWorker[v].gen].next \in Nat
      BY <2>3, <2>4 DEF IndexInv, IndexTyped, Manifests
    <2>5. QED
      BY <2>1, <2>2, <2>3, <2>4, AbreastKept DEF Staged
  <1>7. QED
    BY <1>1, <1>2, <1>3, <1>4, <1>5, <1>6 DEF IndexInv

LEMMA IndexDeleteDocument ==
    ASSUME Index!IndexAssumption, IndexInv, NEW f \in Sources, NEW d \in IndexDocs,
           Index!DeleteDocument(f, d)
    PROVE  IndexInv'
  <1>1. IndexTyped'
    BY DEF Index!DeleteDocument, Index!NoJob, Index!NoManifest, Index!Nothing,
           Index!DeleteDocumentData, Index!Unreferenced, Index!settings, IndexInv,
           Index!IndexAssumption, IndexTyped, IndexJobs, Known, Manifests, Publications
  <1>2. (\A f_1 \in Sources : JobIsWhole(f_1))'
    BY DEF Index!DeleteDocument, Index!NoJob, Index!DeleteDocumentData, Index!Unreferenced,
           IndexInv, JobIsWhole, Staged, Index!RowsOf, IndexTyped, IndexJobs, Known
  <1>3. (\A g_1 \in Index!Gens : ManifestIsExact(g_1))'
    <2> SUFFICES ASSUME NEW g \in Index!Gens
                 PROVE  ManifestIsExact(g)'
      BY DEF Index!Gens
    <2>1. /\ indexJob' = [indexJob EXCEPT ![f] = Index!NoJob] /\ spaces' = spaces
          /\ \A h \in Index!Gens :
                manifest'[h] = IF h = indexJob[f].gen THEN Index!NoManifest ELSE manifest[h]
      BY DEF Index!DeleteDocument, Index!settings, IndexInv, IndexTyped
    <2>2. ASSUME NEW r \in indexRows, NEW e \in Sources, indexJob'[e].doc = r.doc
          PROVE  r \in indexRows'
      BY <2>2 DEF Index!DeleteDocument, Index!DeleteDocumentData, Index!Unreferenced
    <2>3. indexRows' \subseteq indexRows
      BY DEF Index!DeleteDocument, Index!DeleteDocumentData
    <2>4. CASE g = indexJob[f].gen
      BY <2>1, <2>4, ManifestGone
    <2>5. CASE g # indexJob[f].gen
      <3>1. manifest'[g] = manifest[g]
        BY <2>1, <2>5
      <3>2. \A e \in Sources : indexJob[e].gen = g => indexJob'[e] = indexJob[e]
        BY <2>1, <2>5 DEF IndexInv, IndexTyped
      <3>3. ASSUME Staged(g)
            PROVE  manifest[g].space \in spaces' /\ Index!RowsOf(g)' = Index!RowsOf(g)
        <4>1. PICK e \in Sources : indexJob[e].gen = g /\ manifest[g].doc = indexJob[e].doc
          BY <3>3 DEF IndexInv, ManifestIsExact
        <4>2. manifest[g].space \in spaces
              /\ Index!RowsOf(g) = RowsUpTo(g, manifest[g].doc, manifest[g].space, manifest[g].next)
          BY <3>3 DEF IndexInv, ManifestIsExact
        <4>3. \A r \in Index!RowsOf(g) : r.doc = indexJob'[e].doc
          BY <3>2, <4>1, <4>2 DEF RowsUpTo
        <4>4. \A r \in Index!RowsOf(g) : r \in indexRows'
          BY <2>2, <4>3 DEF Index!RowsOf
        <4>5. QED
          BY <2>1, <2>3, <4>2, <4>4 DEF Index!RowsOf
      <3>4. QED
        BY <3>1, <3>2, <3>3, ManifestKept
    <2>6. QED
      BY <2>4, <2>5
  <1>4. (\A r_1 \in indexRows : RowIsPlaced(r_1))'
    BY DEF Index!DeleteDocument, Index!DeleteDocumentData, Index!Unreferenced, Index!settings,
           IndexInv, RowIsPlaced
  <1>5. (\A f_1 \in Sources, s_1 \in Spaces : PublicationIsWhole(f_1, s_1))'
    BY DEF Index!DeleteDocument, Index!NoJob, Index!Missing, Index!Gens, Index!Nothing,
           Index!DeleteDocumentData, Index!Unreferenced, Index!settings, IndexInv,
           PublicationIsWhole, Index!RowsOf, RowsUpTo, IndexTyped
  <1>6. (\A w_1 \in IndexWorkers : WorkerIsAbreast(w_1))'
    <2> SUFFICES ASSUME NEW v \in IndexWorkers
                 PROVE  WorkerIsAbreast(v)'
      OBVIOUS
    <2>1. /\ indexJob' = [indexJob EXCEPT ![f] = Index!NoJob] /\ used' = used
          /\ indexWorker' = indexWorker
          /\ \A g \in Index!Gens : g # indexJob[f].gen => manifest'[g] = manifest[g]
      BY DEF Index!DeleteDocument, IndexInv, IndexTyped
    <2>2. used \in Nat
      BY DEF IndexInv, IndexTyped
    <2>3. ASSUME indexWorker[v].gen # Index!Missing
          PROVE  /\ indexWorker[v].gen \in Index!Gens
                 /\ \A e \in Sources : indexJob'[e].gen = indexWorker[v].gen =>
                       /\ indexJob'[e] = indexJob[e]
                       /\ manifest'[indexWorker[v].gen] = manifest[indexWorker[v].gen]
                 /\ Index!Owned(v)' =>
                       Index!Owned(v) /\ indexJob'[indexWorker[v].owner] = indexJob[indexWorker[v].owner]
      <3>1. indexWorker[v].gen \in Index!Gens
        BY <2>3 DEF IndexInv, IndexTyped, IndexTasks, Known
      <3>2. ASSUME NEW e \in Sources, indexJob'[e].gen = indexWorker[v].gen
            PROVE  /\ indexJob'[e] = indexJob[e]
                   /\ manifest'[indexWorker[v].gen] = manifest[indexWorker[v].gen]
        <4>1. e # f
          BY <2>1, <2>3, <3>2 DEF IndexInv, IndexTyped, Index!NoJob
        <4>2. indexJob'[e] = indexJob[e]
          BY <2>1, <4>1 DEF IndexInv, IndexTyped
        <4>3. indexJob[f].gen # indexWorker[v].gen
          BY <2>3, <3>2, <4>1, <4>2 DEF IndexInv, JobIsWhole
        <4>4. QED
          BY <2>1, <3>1, <4>2, <4>3
      <3>3. ASSUME Index!Owned(v)'
            PROVE  Index!Owned(v) /\ indexJob'[indexWorker[v].owner] = indexJob[indexWorker[v].owner]
        <4>1. indexWorker[v].owner \in Sources
          BY <2>3 DEF IndexInv, WorkerIsAbreast
        <4>2. indexWorker[v].owner # f
          BY <2>1, <3>3 DEF IndexInv, IndexTyped, Index!Owned, Index!File, Index!NoJob
        <4>3. indexJob'[indexWorker[v].owner] = indexJob[indexWorker[v].owner]
          BY <2>1, <4>1, <4>2 DEF IndexInv, IndexTyped
        <4>4. QED
          BY <2>1, <3>3, <4>3 DEF Index!Owned, Index!File
      <3>4. QED
        BY <3>1, <3>2, <3>3
    <2>4. ASSUME indexWorker[v].gen # Index!Missing
          PROVE  manifest[indexWorker[v].gen].next \in Nat
      BY <2>3, <2>4 DEF IndexInv, IndexTyped, Manifests
    <2>5. QED
      BY <2>1, <2>2, <2>3, <2>4, AbreastKept DEF Staged
  <1>7. QED
    BY <1>1, <1>2, <1>3, <1>4, <1>5, <1>6 DEF IndexInv

LEMMA IndexPlanCollection ==
    ASSUME Index!IndexAssumption, IndexInv, Index!PlanCollection
    PROVE  IndexInv'
  <1>1. IndexTyped'
    BY DEF Index!PlanCollection, Index!settings, Index!catalog, IndexInv, IndexTyped, Known
  <1>2. (\A f_1 \in Sources : JobIsWhole(f_1))'
    BY DEF Index!PlanCollection, Index!catalog, IndexInv, JobIsWhole, Staged, Index!RowsOf
  <1>3. (\A g_1 \in Index!Gens : ManifestIsExact(g_1))'
    BY DEF Index!PlanCollection, Index!settings, Index!catalog, IndexInv, ManifestIsExact,
           Staged, Index!RowsOf
  <1>4. (\A r_1 \in indexRows : RowIsPlaced(r_1))'
    BY DEF Index!PlanCollection, Index!settings, Index!catalog, IndexInv, RowIsPlaced
  <1>5. (\A f_1 \in Sources, s_1 \in Spaces : PublicationIsWhole(f_1, s_1))'
    BY DEF Index!PlanCollection, Index!settings, Index!catalog, IndexInv, PublicationIsWhole,
           Index!RowsOf
  <1>6. (\A w_1 \in IndexWorkers : WorkerIsAbreast(w_1))'
    BY DEF Index!PlanCollection, Index!catalog, IndexInv, WorkerIsAbreast, Staged, Index!Owned,
           Index!File
  <1>7. QED
    BY <1>1, <1>2, <1>3, <1>4, <1>5, <1>6 DEF IndexInv

LEMMA IndexCollect ==
    ASSUME Index!IndexAssumption, IndexInv, NEW s \in Spaces, Index!Collect(s)
    PROVE  IndexInv'
  <1>1. IndexTyped'
    <2>1. UNCHANGED <<setting, indexJob, indexedAs, indexWorker, used>> /\ manifest' = manifest
          /\ gc' = [gc EXCEPT !.todo = gc.todo \ {s}]
      BY CollectKeepsManifests DEF Index!Collect
    <2>2. \/ UNCHANGED <<spaces, indexRows, published>>
          \/ /\ spaces' = spaces \ {s} /\ indexRows' = {r \in indexRows : r.space # s}
             /\ published' = [e \in Sources |-> [published[e] EXCEPT ![s] = Index!Nothing]]
      BY DEF Index!Collect
    <2>3. published' \in [Sources -> [Spaces -> Publications]] /\ indexRows' \subseteq IndexRows
      BY <2>2, IndexEmpties DEF IndexInv, IndexTyped
    <2>4. spaces' \subseteq Spaces /\ recent' \subseteq spaces' /\ pins' \subseteq spaces'
      BY <2>2 DEF Index!Collect, IndexInv, IndexTyped
    <2>5. gc' \in [state : {"none", "running", "failed", "completed"}, active : Known(Spaces),
                   todo : SUBSET Spaces]
      <3>1. gc.todo \ {s} \in SUBSET Spaces
        BY DEF IndexInv, IndexTyped
      <3>2. QED
        BY <2>1, <3>1 DEF IndexInv, IndexTyped
    <2>6. QED
      BY <2>1, <2>3, <2>4, <2>5 DEF IndexInv, IndexTyped
  <1>2. (\A f_1 \in Sources : JobIsWhole(f_1))'
    BY DEF Index!Collect, Index!Protected, Index!JobSpaces, Index!Nothing, Index!NoManifest,
           IndexInv, Index!IndexAssumption, JobIsWhole, Staged, Index!RowsOf, IndexTyped,
           IndexJobs, Known, ManifestIsExact
  <1>3. (\A g_1 \in Index!Gens : ManifestIsExact(g_1))'
    <2>1. UNCHANGED <<setting, indexJob, indexedAs, indexWorker, used>> /\ manifest' = manifest
          /\ gc' = [gc EXCEPT !.todo = gc.todo \ {s}]
      BY CollectKeepsManifests DEF Index!Collect
    <2>2. \/ UNCHANGED <<spaces, indexRows, published>>
          \/ /\ spaces' = spaces \ {s} /\ indexRows' = {r \in indexRows : r.space # s}
             /\ published' = [e \in Sources |-> [published[e] EXCEPT ![s] = Index!Nothing]]
      BY DEF Index!Collect
    <2> SUFFICES ASSUME NEW g \in Index!Gens
                 PROVE  ManifestIsExact(g)'
      BY DEF Index!Gens
    <2>3. Staged(g) => manifest[g].space \in spaces' /\ Index!RowsOf(g)' = Index!RowsOf(g)
      BY CollectKeepsManifests
    <2>4. QED
      BY <2>1, <2>3, ManifestKept
  <1>4. (\A r_1 \in indexRows : RowIsPlaced(r_1))'
    BY DEF Index!Collect, IndexInv, RowIsPlaced
  <1>5. (\A f_1 \in Sources, s_1 \in Spaces : PublicationIsWhole(f_1, s_1))'
    <2>1. UNCHANGED <<setting, indexJob, indexedAs, indexWorker, used>> /\ manifest' = manifest
          /\ gc' = [gc EXCEPT !.todo = gc.todo \ {s}]
      BY CollectKeepsManifests DEF Index!Collect
    <2>2. \/ UNCHANGED <<spaces, indexRows, published>>
          \/ /\ spaces' = spaces \ {s} /\ indexRows' = {r \in indexRows : r.space # s}
             /\ published' = [e \in Sources |-> [published[e] EXCEPT ![s] = Index!Nothing]]
      BY DEF Index!Collect
    <2>3. CASE UNCHANGED <<spaces, indexRows, published>>
      BY <2>1, <2>3, PublicationsKept
    <2>4. CASE spaces' = spaces \ {s} /\ indexRows' = {r \in indexRows : r.space # s}
               /\ published' = [e \in Sources |-> [published[e] EXCEPT ![s] = Index!Nothing]]
      <3>1. \A e \in Sources : published'[e][s] = Index!Nothing
               /\ \A u \in Spaces \ {s} : published'[e][u] = published[e][u]
        BY <2>4 DEF IndexInv, IndexTyped
      <3> SUFFICES ASSUME NEW e \in Sources, NEW u \in Spaces, published'[e][u].doc # Index!Missing
                   PROVE  PublicationIsWhole(e, u)'
        BY DEF PublicationIsWhole
      <3>2. u # s
        BY <3>1 DEF Index!Nothing
      <3>3. published'[e][u] = published[e][u]
        BY <3>1, <3>2
      <3> DEFINE p == published[e][u]
      <3>4. PublicationIsWhole(e, u) /\ p.doc # Index!Missing
        BY <3>3 DEF IndexInv
      <3>5. \A b \in Sources, v \in Spaces : published'[b][v].doc # Index!Missing =>
               published'[b][v] = published[b][v]
        BY <3>1 DEF Index!Nothing
      <3>6. Index!RowsOf(p.gen) = RowsUpTo(p.gen, p.doc, u, Elements)
        BY <3>4 DEF PublicationIsWhole
      <3>7. \A r \in Index!RowsOf(p.gen) : r.space # s
        BY <3>2, <3>6 DEF RowsUpTo
      <3>8. {r \in indexRows' : r.gen = p.gen} = RowsUpTo(p.gen, p.doc, u, Elements)
        BY <2>4, <3>6, <3>7 DEF Index!RowsOf
      <3>9. Index!RowsOf(published[e][u].gen)' = {r \in indexRows' : r.gen = p.gen}
            /\ RowsUpTo(published[e][u].gen, published[e][u].doc, u, Elements)'
                  = RowsUpTo(p.gen, p.doc, u, Elements)
        BY <3>3 DEF Index!RowsOf, RowsUpTo, Index!Positions
      <3>10. u \in spaces'
        BY <2>4, <3>2, <3>4 DEF PublicationIsWhole
      <3>11. /\ p.doc = indexedAs[e] /\ p.gen \in Index!Gens /\ p.gen <= used
             /\ \A b \in Sources : indexJob[b].gen # p.gen
             /\ \A b \in Sources, v \in Spaces :
                   published[b][v].doc # Index!Missing /\ published[b][v].gen = p.gen => b = e /\ v = u
        BY <3>4 DEF PublicationIsWhole
      <3>12. QED
        BY <2>1, <3>3, <3>5, <3>8, <3>9, <3>10, <3>11 DEF PublicationIsWhole, Index!Gens
    <2>5. QED
      BY <2>2, <2>3, <2>4
  <1>6. (\A w_1 \in IndexWorkers : WorkerIsAbreast(w_1))'
    <2>1. UNCHANGED <<setting, indexJob, indexedAs, indexWorker, used>> /\ manifest' = manifest
          /\ gc' = [gc EXCEPT !.todo = gc.todo \ {s}]
      BY CollectKeepsManifests DEF Index!Collect
    <2>2. \/ UNCHANGED <<spaces, indexRows, published>>
          \/ /\ spaces' = spaces \ {s} /\ indexRows' = {r \in indexRows : r.space # s}
             /\ published' = [e \in Sources |-> [published[e] EXCEPT ![s] = Index!Nothing]]
      BY DEF Index!Collect
    <2> SUFFICES ASSUME NEW v \in IndexWorkers
                 PROVE  WorkerIsAbreast(v)'
      OBVIOUS
    <2>3. indexWorker[v].gen # Index!Missing => manifest[indexWorker[v].gen].next \in Nat
      BY DEF IndexInv, IndexTyped, IndexTasks, Manifests, Known
    <2>4. Index!Owned(v)' => Index!Owned(v)
      BY <2>1 DEF Index!Owned, Index!File
    <2>5. used \in Nat
      BY DEF IndexInv, IndexTyped
    <2>6. QED
      BY <2>1, <2>3, <2>4, <2>5, AbreastKept DEF Staged
  <1>7. QED
    BY <1>1, <1>2, <1>3, <1>4, <1>5, <1>6 DEF IndexInv

LEMMA IndexCollectFails ==
    ASSUME Index!IndexAssumption, IndexInv, Index!CollectFails
    PROVE  IndexInv'
  <1>1. IndexTyped'
    BY DEF Index!CollectFails, Index!settings, Index!catalog, IndexInv, IndexTyped
  <1>2. (\A f_1 \in Sources : JobIsWhole(f_1))'
    BY DEF Index!CollectFails, Index!catalog, IndexInv, JobIsWhole, Staged, Index!RowsOf
  <1>3. (\A g_1 \in Index!Gens : ManifestIsExact(g_1))'
    BY DEF Index!CollectFails, Index!settings, Index!catalog, IndexInv, ManifestIsExact, Staged,
           Index!RowsOf
  <1>4. (\A r_1 \in indexRows : RowIsPlaced(r_1))'
    BY DEF Index!CollectFails, Index!settings, Index!catalog, IndexInv, RowIsPlaced
  <1>5. (\A f_1 \in Sources, s_1 \in Spaces : PublicationIsWhole(f_1, s_1))'
    BY DEF Index!CollectFails, Index!settings, Index!catalog, IndexInv, PublicationIsWhole,
           Index!RowsOf
  <1>6. (\A w_1 \in IndexWorkers : WorkerIsAbreast(w_1))'
    BY DEF Index!CollectFails, Index!catalog, IndexInv, WorkerIsAbreast, Staged, Index!Owned,
           Index!File
  <1>7. QED
    BY <1>1, <1>2, <1>3, <1>4, <1>5, <1>6 DEF IndexInv

LEMMA IndexResumeCollection ==
    ASSUME Index!IndexAssumption, IndexInv, Index!ResumeCollection
    PROVE  IndexInv'
  <1>1. IndexTyped'
    BY DEF Index!ResumeCollection, Index!settings, Index!catalog, IndexInv, IndexTyped, Known
  <1>2. (\A f_1 \in Sources : JobIsWhole(f_1))'
    BY DEF Index!ResumeCollection, Index!catalog, IndexInv, JobIsWhole, Staged, Index!RowsOf
  <1>3. (\A g_1 \in Index!Gens : ManifestIsExact(g_1))'
    BY DEF Index!ResumeCollection, Index!settings, Index!catalog, IndexInv, ManifestIsExact,
           Staged, Index!RowsOf
  <1>4. (\A r_1 \in indexRows : RowIsPlaced(r_1))'
    BY DEF Index!ResumeCollection, Index!settings, Index!catalog, IndexInv, RowIsPlaced
  <1>5. (\A f_1 \in Sources, s_1 \in Spaces : PublicationIsWhole(f_1, s_1))'
    BY DEF Index!ResumeCollection, Index!settings, Index!catalog, IndexInv, PublicationIsWhole,
           Index!RowsOf
  <1>6. (\A w_1 \in IndexWorkers : WorkerIsAbreast(w_1))'
    BY DEF Index!ResumeCollection, Index!catalog, IndexInv, WorkerIsAbreast, Staged,
           Index!Owned, Index!File
  <1>7. QED
    BY <1>1, <1>2, <1>3, <1>4, <1>5, <1>6 DEF IndexInv

LEMMA IndexCompleteCollection ==
    ASSUME Index!IndexAssumption, IndexInv, Index!CompleteCollection
    PROVE  IndexInv'
  <1>1. IndexTyped'
    BY DEF Index!CompleteCollection, Index!NoGc, Index!settings, Index!catalog, IndexInv,
           IndexTyped, Known
  <1>2. (\A f_1 \in Sources : JobIsWhole(f_1))'
    BY DEF Index!CompleteCollection, Index!NoGc, Index!catalog, IndexInv, JobIsWhole, Staged,
           Index!RowsOf
  <1>3. (\A g_1 \in Index!Gens : ManifestIsExact(g_1))'
    BY DEF Index!CompleteCollection, Index!NoGc, Index!settings, Index!catalog, IndexInv,
           ManifestIsExact, Staged, Index!RowsOf
  <1>4. (\A r_1 \in indexRows : RowIsPlaced(r_1))'
    BY DEF Index!CompleteCollection, Index!NoGc, Index!settings, Index!catalog, IndexInv,
           RowIsPlaced
  <1>5. (\A f_1 \in Sources, s_1 \in Spaces : PublicationIsWhole(f_1, s_1))'
    BY DEF Index!CompleteCollection, Index!NoGc, Index!settings, Index!catalog, IndexInv,
           PublicationIsWhole, Index!RowsOf
  <1>6. (\A w_1 \in IndexWorkers : WorkerIsAbreast(w_1))'
    BY DEF Index!CompleteCollection, Index!NoGc, Index!catalog, IndexInv, WorkerIsAbreast,
           Staged, Index!Owned, Index!File
  <1>7. QED
    BY <1>1, <1>2, <1>3, <1>4, <1>5, <1>6 DEF IndexInv

LEMMA IndexStutter ==
    ASSUME Index!IndexAssumption, IndexInv, UNCHANGED Index!vars
    PROVE  IndexInv'
  <1>1. IndexTyped'
    BY DEF Index!vars, IndexInv, IndexTyped
  <1>2. (\A f_1 \in Sources : JobIsWhole(f_1))'
    BY DEF Index!vars, IndexInv, JobIsWhole, Staged, Index!RowsOf
  <1>3. (\A g_1 \in Index!Gens : ManifestIsExact(g_1))'
    BY DEF Index!vars, IndexInv, ManifestIsExact, Staged, Index!RowsOf
  <1>4. (\A r_1 \in indexRows : RowIsPlaced(r_1))'
    BY DEF Index!vars, IndexInv, RowIsPlaced
  <1>5. (\A f_1 \in Sources, s_1 \in Spaces : PublicationIsWhole(f_1, s_1))'
    BY DEF Index!vars, IndexInv, PublicationIsWhole, Index!RowsOf
  <1>6. (\A w_1 \in IndexWorkers : WorkerIsAbreast(w_1))'
    BY DEF Index!vars, IndexInv, WorkerIsAbreast, Staged, Index!Owned, Index!File
  <1>7. QED
    BY <1>1, <1>2, <1>3, <1>4, <1>5, <1>6 DEF IndexInv

LEMMA IndexInit ==
    ASSUME Index!IndexAssumption, Index!Init
    PROVE  IndexInv
  <1>1. IndexTyped
    <2>1. PICK s \in Spaces : spaces = {s} /\ setting = [space |-> s, changes |-> 0]
      BY DEF Index!Init
    <2>2. setting \in [space : Spaces, changes : 0 .. MaxChanges]
      BY <2>1 DEF Index!IndexAssumption
    <2>3. Index!NoGc \in [state : {"none", "running", "failed", "completed"}, active : Known(Spaces),
                          todo : SUBSET Spaces]
      BY DEF Index!NoGc, Known
    <2>4. used \in 0 .. MaxGenerations
      BY DEF Index!Init, Index!IndexAssumption
    <2>5. QED
      BY <2>1, <2>2, <2>3, <2>4, IndexEmpties DEF Index!Init, IndexTyped, Known
  <1>2. ASSUME NEW f \in Sources
        PROVE  JobIsWhole(f)
    BY DEF Index!Init, JobIsWhole, Index!NoJob
  <1>3. ASSUME NEW g \in Index!Gens
        PROVE  ManifestIsExact(g)
    BY DEF Index!Init, ManifestIsExact, Staged, Index!NoManifest
  <1>4. ASSUME NEW f \in Sources, NEW s \in Spaces
        PROVE  PublicationIsWhole(f, s)
    BY DEF Index!Init, PublicationIsWhole, Index!Nothing
  <1>5. ASSUME NEW w \in IndexWorkers
        PROVE  WorkerIsAbreast(w)
    BY DEF Index!Init, WorkerIsAbreast, Index!NoJob
  <1>6. \A r \in indexRows : RowIsPlaced(r)
    BY DEF Index!Init
  <1>7. QED
    BY <1>1, <1>2, <1>3, <1>4, <1>5, <1>6 DEF IndexInv

LEMMA IndexStep ==
    ASSUME Index!IndexAssumption, IndexInv, [Index!Next]_(Index!vars)
    PROVE  IndexInv'
  <1>1. CASE Index!Prepare
    BY <1>1, IndexPrepareSkipped, IndexResumeIngestion, IndexResetIngestion, IndexDeleteDocument
    DEF Index!Prepare
  <1>2. CASE Index!Work
    BY <1>2, IndexClaim, IndexBegin, IndexStage, IndexCompleteIndexing, IndexPromote,
       IndexWorkerFails DEF Index!Work
  <1>3. CASE Index!Withdraw
    BY <1>3, IndexLoseLease, IndexFinalizeCancellation DEF Index!Withdraw
  <1>4. CASE Index!Manage
    BY <1>4, IndexChangeActiveSpace, IndexGrowOld, IndexPin, IndexUnpin, IndexCollect DEF Index!Manage
  <1>5. QED
    BY <1>1, <1>2, <1>3, <1>4, IndexPlanCollection, IndexCollectFails, IndexResumeCollection,
       IndexCompleteCollection, IndexStutter DEF Index!Next

LEMMA IndexAlways ==
    ASSUME Index!IndexAssumption
    PROVE  Index!Spec => []IndexInv
  <1>1. Index!Init => IndexInv
    BY IndexInit
  <1>2. IndexInv /\ [Index!Next]_(Index!vars) => IndexInv'
    BY IndexStep
  <1>3. QED
    BY <1>1, <1>2, PTL DEF Index!Spec

\* What is published in a space has all its rows, one per element of its document and
\* no other, whatever is prepared again, canceled, deleted or collected and whichever
\* worker goes on without its lease (promoteJob, deleteDocumentDataWithoutReferences,
\* collectEmbeddingSpace).
THEOREM PublicationsAreComplete ==
    ASSUME Index!IndexAssumption
    PROVE  Index!Spec => [](Index!PublishedIsComplete /\ Index!OneVersionPerSource)
  <1>1. ASSUME IndexInv
        PROVE  Index!PublishedIsComplete /\ Index!OneVersionPerSource
    <2>1. ASSUME NEW f \in Sources, NEW s \in Spaces, published[f][s].doc # Index!Missing
          PROVE  /\ s \in spaces /\ published[f][s].doc = indexedAs[f]
                 /\ Index!RowsOf(published[f][s].gen)
                      = {[gen |-> published[f][s].gen, doc |-> published[f][s].doc, space |-> s,
                          at |-> i] : i \in Index!Positions}
      <3>1. {k \in Index!Positions : k < Elements} = Index!Positions
        BY DEF Index!Positions, Index!IndexAssumption
      <3>2. PublicationIsWhole(f, s)
        BY <1>1 DEF IndexInv
      <3>3. QED
        BY <2>1, <3>1, <3>2 DEF PublicationIsWhole, RowsUpTo
    <2>2. Index!PublishedIsComplete
      BY <2>1 DEF Index!PublishedIsComplete
    <2>3. Index!OneVersionPerSource
      BY <2>1 DEF Index!OneVersionPerSource
    <2>4. QED
      BY <2>2, <2>3
  <1>2. QED
    BY <1>1, IndexAlways, PTL

\* A generation that completeIndexing has passed stays publishable: nobody takes its
\* manifest, its rows or its space before its job publishes it or is replaced.
THEOREM BuiltGenerationsAreKept ==
    ASSUME Index!IndexAssumption
    PROVE  Index!Spec => []Index!BuiltIsKept
  <1>1. ASSUME IndexInv
        PROVE  Index!BuiltIsKept
    BY <1>1, CompleteIsPublishable DEF Index!BuiltIsKept
  <1>2. QED
    BY <1>1, IndexAlways, PTL

\* The tables stay well formed: the rows of a generation are of one document and one
\* space, and every manifest is that of exactly one job.
THEOREM IndexTablesStayTyped ==
    ASSUME Index!IndexAssumption
    PROVE  Index!Spec => []Index!TypeOK
  <1>1. ASSUME IndexInv
        PROVE  Index!TypeOK
    <2>1. /\ spaces \subseteq Spaces /\ recent \subseteq spaces /\ pins \subseteq spaces
          /\ setting.space \in Spaces /\ setting.changes \in 0 .. MaxChanges
          /\ \A f \in Sources : indexedAs[f] \in IndexDocs \cup {Index!Missing}
          /\ used \in 0 .. MaxGenerations
          /\ gc.state \in {"none", "running", "failed", "completed"} /\ gc.todo \subseteq Spaces
      BY <1>1 DEF IndexInv, IndexTyped, Known
    <2>2. ASSUME NEW f \in Sources
          PROVE  /\ indexJob[f].doc \in IndexDocs \cup {Index!Missing}
                 /\ indexJob[f].gen \in Index!Gens \cup {Index!Missing}
                 /\ indexJob[f].state \in {"none", "pending", "running", "failed", "expired"}
                 /\ indexJob[f].phase \in {"none", "indexing", "indexed"}
                 /\ \A e \in Sources : indexJob[e].gen = indexJob[f].gen =>
                       e = f \/ indexJob[f].gen = Index!Missing
      BY <1>1 DEF IndexInv, IndexTyped, IndexJobs, Known, JobIsWhole
    <2>3. \A q, r \in indexRows : q.gen = r.gen => q.doc = r.doc /\ q.space = r.space
      BY <1>1 DEF IndexInv, RowIsPlaced
    <2>4. \A g \in Index!Gens : manifest[g].doc # Index!Missing => \E f \in Sources : indexJob[f].gen = g
      BY <1>1 DEF IndexInv, ManifestIsExact, Staged
    <2>5. QED
      BY <2>1, <2>2, <2>3, <2>4 DEF Index!TypeOK
  <1>2. QED
    BY <1>1, IndexAlways, PTL
============================================================================
