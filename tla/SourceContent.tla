--------------------------- MODULE SourceContent ---------------------------
(***************************************************************************)
(* The store of the uploaded bytes: documents/storage.                     *)
(*                                                                         *)
(* A document is kept in two places: a row of source_documents and an      *)
(* object in a backend (a directory or a bucket).  No transaction covers   *)
(* both.  Publishers put the object first and the row second, cleaners     *)
(* take the row first and the object second, and a migration moves every   *)
(* object to another backend and then switches the application settings.   *)
(*                                                                         *)
(* A database transaction is one step: publish, deletion, orphan removal   *)
(* and clean-up serialise on the advisory lock of the document, and the    *)
(* SHARE lock of queue and cut-over excludes the transactions that called  *)
(* lockSourceContentWrites.  Everything outside a transaction, the writing *)
(* and checking of objects above all, is a step of its own.                *)
(***************************************************************************)
EXTENDS Integers, FiniteSets

CONSTANTS
    DocCount,        \* documents are 1..DocCount, in the order of their ids
    Backends,        \* the storage configurations
    FirstBackend,    \* the one the settings start with
    Publishers,      \* uploads in progress
    Cleaners,        \* processes that run reconcilePendingDeletions
    Workers,         \* processes that run the migration worker
    BatchSize,       \* SOURCE_CONTENT_MIGRATION_BATCH_SIZE
    MaxPublishes,    \* bound: uploads in a behaviour
    MaxMigrations,   \* bound: migrations queued in a behaviour
    MaxFaults,       \* bound: crashes and storage failures in a behaviour
    None

SourceContentAssumption ==
    /\ DocCount \in Nat \ {0} /\ BatchSize \in Nat \ {0}
    /\ FirstBackend \in Backends /\ None \notin Backends \cup Workers
    /\ {MaxPublishes, MaxMigrations, MaxFaults} \subseteq Nat

Docs == 1 .. DocCount

ActiveStates == {"queued", "validating", "copying", "cutover", "cancel_requested"}
FinalStates == {"completed", "failed", "cancelled"}

VARIABLES
    objects,     \* backend -> the documents whose object it holds
    rows,        \* documents with a row in source_documents
    young,       \* rows published less than the grace period ago
    since,       \* rows published since the migration was queued
    referenced,  \* documents a job, an index, a version or a chat refers to
    deletions,   \* source_content_deletions
    active,      \* settings.sourceContent
    migration,   \* the latest row of source_content_migrations
    conf,        \* process -> the configuration it was started with
    publisher, cleaner, worker,
    budget       \* what is left of the bounds

documents == <<objects, rows, young, since, referenced, deletions>>
vars == <<documents, active, migration, conf, publisher, cleaner, worker, budget>>

NoMigration == [state |-> "none", source |-> None, target |-> None,
                owner |-> None, expired |-> TRUE, last |-> 0, id |-> 0]
IdlePublisher == [pc |-> "idle", doc |-> 1, attempt |-> 0]
IdleCleaner == [pc |-> "idle", doc |-> 1]
IdleWorker == [pc |-> "idle", id |-> 0, source |-> None, target |-> None,
               last |-> 0, todo |-> {}]

TypeOK ==
    /\ objects \in [Backends -> SUBSET Docs]
    /\ rows \subseteq Docs /\ young \subseteq rows /\ since \subseteq rows
    /\ referenced \subseteq rows /\ deletions \subseteq Docs
    /\ active \in Backends
    /\ migration.state \in ActiveStates \cup FinalStates \cup {"none"}
    /\ migration.owner \in Workers \cup {None}
    /\ conf \in [Publishers \cup Cleaners -> Backends]
    /\ \A p \in Publishers :
        publisher[p] \in [pc : {"idle", "verify", "commit", "cleanup", "enqueue"},
                          doc : Docs, attempt : 0 .. 1]
    /\ \A c \in Cleaners :
        cleaner[c] \in [pc : {"idle", "remove", "record"}, doc : Docs]
    /\ \A w \in Workers :
        /\ worker[w].pc \in {"idle", "start", "batch", "copy", "begin", "visit",
                             "recopy", "cutover", "error", "fail", "settle"}
        /\ worker[w].todo \subseteq Docs

Init ==
    /\ objects = [b \in Backends |-> {}]
    /\ rows = {} /\ young = {} /\ since = {}
    /\ referenced = {} /\ deletions = {}
    /\ active = FirstBackend
    /\ migration = NoMigration
    /\ conf = [p \in Publishers \cup Cleaners |-> FirstBackend]
    /\ publisher = [p \in Publishers |-> IdlePublisher]
    /\ cleaner = [c \in Cleaners |-> IdleCleaner]
    /\ worker = [w \in Workers |-> IdleWorker]
    /\ budget = [publishes |-> MaxPublishes, migrations |-> MaxMigrations,
                 faults |-> MaxFaults]

(* What a backend does for its callers: publish links a complete object    *)
(* into place or finds one there, remove takes it away or finds nothing,   *)
(* assertPresent and verify look, reconcileOrphans lists.                  *)
Put(b, d) == [objects EXCEPT ![b] = @ \cup {d}]
Drop(b, d) == [objects EXCEPT ![b] = @ \ {d}]
Present(b, d) == d \in objects[b]
Listed(b) == objects[b]
Fault == budget.faults > 0 /\ budget' = [budget EXCEPT !.faults = @ - 1]

----------------------------------------------------------------------------
(* publishSourceContent. *)

PublishUnchanged == UNCHANGED <<active, migration, conf, cleaner, worker>>

(* The object is linked into place, or found there already. *)
Publish(p, d) ==
    /\ publisher[p].pc = "idle" /\ budget.publishes > 0
    /\ budget' = [budget EXCEPT !.publishes = @ - 1]
    /\ objects' = Put(conf[p], d)
    /\ publisher' = [publisher EXCEPT ![p] = [pc |-> "verify", doc |-> d, attempt |-> 0]]
    /\ UNCHANGED <<rows, young, since, referenced, deletions>>
    /\ PublishUnchanged

(* backend.verify: an object that is gone again, or one whose bytes are    *)
(* not those of the document, sends the publisher to its clean-up.         *)
Verify(p) ==
    /\ publisher[p].pc = "verify"
    /\ \/ /\ Present(conf[p], publisher[p].doc)
          /\ publisher' = [publisher EXCEPT ![p].pc = "commit"]
          /\ UNCHANGED budget
       \/ /\ ~ Present(conf[p], publisher[p].doc)
          /\ publisher' = [publisher EXCEPT ![p].pc = "cleanup"]
          /\ UNCHANGED budget
       \/ publisher' = [publisher EXCEPT ![p].pc = "cleanup"] /\ Fault
    /\ UNCHANGED documents /\ PublishUnchanged

CommitPublishUnlocked(p) ==
    LET d == publisher[p].doc IN
    /\ publisher[p].pc = "commit"
    /\ conf[p] = active
    /\ rows' = rows \cup {d} /\ young' = young \cup {d} /\ since' = since \cup {d}
    /\ deletions' = deletions \ {d}
    /\ publisher' = [publisher EXCEPT ![p].pc = "enqueue"]
    /\ UNCHANGED <<objects, referenced, budget>> /\ PublishUnchanged

(* The transaction: the settings still name this backend and the object is *)
(* still there, so the row is written and a pending deletion is dropped.   *)
CommitPublish(p) ==
    LET d == publisher[p].doc IN
    /\ publisher[p].pc = "commit"
    /\ conf[p] = active
    /\ Present(conf[p], d)
    /\ rows' = rows \cup {d} /\ young' = young \cup {d} /\ since' = since \cup {d}
    /\ deletions' = deletions \ {d}
    /\ publisher' = [publisher EXCEPT ![p].pc = "enqueue"]
    /\ UNCHANGED <<objects, referenced, budget>> /\ PublishUnchanged

(* The object went missing under the lock: once, the upload is repeated. *)
RepeatPublish(p) ==
    LET d == publisher[p].doc IN
    /\ publisher[p].pc = "commit"
    /\ conf[p] = active
    /\ ~ Present(conf[p], d)
    /\ IF publisher[p].attempt = 0
       THEN /\ objects' = Put(conf[p], d)
            /\ publisher' = [publisher EXCEPT ![p] =
                               [pc |-> "verify", doc |-> d, attempt |-> 1]]
       ELSE publisher' = [publisher EXCEPT ![p] = IdlePublisher] /\ UNCHANGED objects
    /\ UNCHANGED <<rows, young, since, referenced, deletions, budget>>
    /\ PublishUnchanged

(* assertActiveSourceContentBackend throws SourceContentBackendChangedError. *)
BackendChanged(p) ==
    /\ publisher[p].pc = "commit" /\ conf[p] # active
    /\ publisher' = [publisher EXCEPT ![p].pc = "cleanup"]
    /\ UNCHANGED <<documents, budget>> /\ PublishUnchanged

RemoveUnpublishedBlindly(p) ==
    /\ publisher[p].pc = "cleanup"
    /\ objects' = Drop(conf[p], publisher[p].doc)
    /\ publisher' = [publisher EXCEPT ![p] = IdlePublisher]
    /\ UNCHANGED <<rows, young, since, referenced, deletions, budget>>
    /\ PublishUnchanged

(* removeUnpublishedContent takes the document's lock, not the writes'. *)
RemoveUnpublishedContent(p) ==
    LET d == publisher[p].doc IN
    /\ publisher[p].pc = "cleanup"
    /\ objects' = IF d \in rows THEN objects ELSE Drop(conf[p], d)
    /\ publisher' = [publisher EXCEPT ![p] = IdlePublisher]
    /\ UNCHANGED <<rows, young, since, referenced, deletions, budget>>
    /\ PublishUnchanged

(* The uploader goes on to enqueue an ingestion job, whose foreign key     *)
(* needs the row, or gives the upload up.                                  *)
Enqueue(p) ==
    LET d == publisher[p].doc IN
    /\ publisher[p].pc = "enqueue"
    /\ \/ referenced' = referenced \cup ({d} \cap rows)
       \/ UNCHANGED referenced
    /\ publisher' = [publisher EXCEPT ![p] = IdlePublisher]
    /\ UNCHANGED <<objects, rows, young, since, deletions, budget>>
    /\ PublishUnchanged

PublisherCrash(p) ==
    /\ publisher[p].pc # "idle" /\ Fault
    /\ publisher' = [publisher EXCEPT ![p] = IdlePublisher]
    /\ UNCHANGED documents /\ PublishUnchanged

----------------------------------------------------------------------------
(* Deletion.                                                               *)

CleanUnchanged == UNCHANGED <<active, migration, conf, publisher, worker>>

(* deleteStoredDocumentEvidence, and a chat that lets go of its evidence:  *)
(* the last reference is gone and the deletion is queued with it.          *)
ReleaseReference(d) ==
    /\ d \in referenced
    /\ referenced' = referenced \ {d}
    /\ deletions' = deletions \cup {d}
    /\ UNCHANGED <<objects, rows, young, since, budget, cleaner>>
    /\ CleanUnchanged

(* The grace period passes. *)
GrowOld(d) ==
    /\ d \in young
    /\ young' = young \ {d}
    /\ UNCHANGED <<objects, rows, since, referenced, deletions, budget, cleaner>>
    /\ CleanUnchanged

(* queueAbandonedContent: old rows nobody refers to. *)
QueueAbandonedContent ==
    LET found == rows \ (young \cup referenced) IN
    /\ ~ found \subseteq deletions
    /\ deletions' = deletions \cup found
    /\ UNCHANGED <<objects, rows, young, since, referenced, budget, cleaner>>
    /\ CleanUnchanged

PrepareDeletionWithoutGrace(c, d) ==
    /\ cleaner[c].pc = "idle" /\ d \in deletions /\ conf[c] = active
    /\ IF d \in rows /\ d \in referenced
       THEN deletions' = deletions \ {d} /\ UNCHANGED <<rows, young, since, cleaner>>
       ELSE /\ rows' = rows \ {d} /\ young' = young \ {d} /\ since' = since \ {d}
            /\ cleaner' = [cleaner EXCEPT ![c] = [pc |-> "remove", doc |-> d]]
            /\ UNCHANGED deletions
    /\ UNCHANGED <<objects, referenced, budget>> /\ CleanUnchanged

PrepareDeletionOfReferenced(c, d) ==
    /\ cleaner[c].pc = "idle" /\ d \in deletions /\ conf[c] = active
    /\ d \notin young
    /\ rows' = rows \ {d} /\ young' = young \ {d} /\ since' = since \ {d}
    /\ cleaner' = [cleaner EXCEPT ![c] = [pc |-> "remove", doc |-> d]]
    /\ UNCHANGED <<objects, referenced, deletions, budget>> /\ CleanUnchanged

(* reconcileDeletion, first transaction: a document that is referred to is *)
(* kept and its deletion dropped, one published a moment ago is kept for   *)
(* now, any other loses its row.                                           *)
PrepareDeletion(c, d) ==
    /\ cleaner[c].pc = "idle" /\ d \in deletions /\ conf[c] = active
    /\ d \notin young \/ d \in referenced
    /\ IF d \in referenced
       THEN deletions' = deletions \ {d} /\ UNCHANGED <<rows, young, since, cleaner>>
       ELSE /\ rows' = rows \ {d} /\ young' = young \ {d} /\ since' = since \ {d}
            /\ cleaner' = [cleaner EXCEPT ![c] = [pc |-> "remove", doc |-> d]]
            /\ UNCHANGED deletions
    /\ UNCHANGED <<objects, referenced, budget>> /\ CleanUnchanged

RemoveContentUnchecked(c) ==
    LET d == cleaner[c].doc IN
    /\ cleaner[c].pc = "remove" /\ conf[c] = active
    /\ objects' = Drop(conf[c], d)
    /\ deletions' = deletions \ {d}
    /\ cleaner' = [cleaner EXCEPT ![c] = IdleCleaner]
    /\ UNCHANGED <<rows, young, since, referenced, budget>> /\ CleanUnchanged

(* Second transaction: unless the row is back, the object goes.  The       *)
(* object is removed before the transaction commits, and may be the only   *)
(* one of the two to go.                                                   *)
RemoveContent(c) ==
    LET d == cleaner[c].doc IN
    /\ cleaner[c].pc = "remove" /\ conf[c] = active
    /\ objects' = IF d \in rows THEN objects ELSE Drop(conf[c], d)
    /\ \/ /\ deletions' = deletions \ {d}
          /\ cleaner' = [cleaner EXCEPT ![c] = IdleCleaner]
          /\ UNCHANGED budget
       \/ /\ cleaner' = [cleaner EXCEPT ![c].pc = "record"]
          /\ Fault /\ UNCHANGED deletions
    /\ UNCHANGED <<rows, young, since, referenced>> /\ CleanUnchanged

(* The settings changed between the two: the deletion stays queued. *)
DeletionRefused(c) ==
    /\ cleaner[c].pc = "remove" /\ conf[c] # active
    /\ cleaner' = [cleaner EXCEPT ![c].pc = "record"]
    /\ UNCHANGED <<documents, budget>> /\ CleanUnchanged

(* recordDeletionFailure: the attempt is counted, the deletion stays. *)
RecordDeletionFailure(c) ==
    /\ cleaner[c].pc = "record"
    /\ cleaner' = [cleaner EXCEPT ![c] = IdleCleaner]
    /\ UNCHANGED <<documents, budget>> /\ CleanUnchanged

KeepOrphan(c, d) ==
    /\ cleaner[c].pc = "idle" /\ conf[c] = active
    /\ d \in Listed(conf[c]) \ rows /\ d \in deletions
    /\ objects' = Drop(conf[c], d)
    /\ UNCHANGED <<rows, young, since, referenced, deletions, budget, cleaner>>
    /\ CleanUnchanged

(* reconcileOrphanedContent: objects of the active backend without a row,  *)
(* found by listing the backend and removed under the document's lock (at  *)
(* any age here, which allows more than the grace period of the files).    *)
RemoveOrphan(c, d) ==
    /\ cleaner[c].pc = "idle" /\ conf[c] = active
    /\ d \in Listed(conf[c]) \ rows
    /\ objects' = Drop(conf[c], d)
    /\ UNCHANGED <<rows, young, since, referenced, deletions, budget, cleaner>>
    /\ CleanUnchanged

CleanerCrash(c) ==
    /\ cleaner[c].pc # "idle" /\ Fault
    /\ cleaner' = [cleaner EXCEPT ![c] = IdleCleaner]
    /\ UNCHANGED documents /\ CleanUnchanged

(* A process starts again with the settings it finds. *)
Restart(q) ==
    /\ conf[q] # active
    /\ IF q \in Publishers THEN publisher[q].pc = "idle" ELSE cleaner[q].pc = "idle"
    /\ conf' = [conf EXCEPT ![q] = active]
    /\ UNCHANGED <<documents, active, migration, publisher, cleaner, worker, budget>>

----------------------------------------------------------------------------
(* The migration: its row, and the worker that carries it out.             *)

MigrationUnchanged == UNCHANGED <<conf, publisher, cleaner>>
RowsUnchanged == UNCHANGED <<rows, young, referenced, deletions>>

QueueMigration(b) ==
    /\ budget.migrations > 0 /\ b # active
    /\ migration.state \notin ActiveStates
    /\ budget' = [budget EXCEPT !.migrations = @ - 1]
    /\ migration' = [state |-> "queued", source |-> active, target |-> b,
                     owner |-> None, expired |-> TRUE, last |-> 0,
                     id |-> migration.id + 1]
    /\ since' = {}
    /\ UNCHANGED <<objects, active, worker>> /\ RowsUnchanged /\ MigrationUnchanged

(* requestCancellation: at once when nobody holds the lease, otherwise by  *)
(* asking the holder, and not at all once the cut-over has begun.          *)
RequestCancellation ==
    /\ migration.state \in ActiveStates \ {"cutover", "cancel_requested"}
    /\ migration' = [migration EXCEPT
           !.state = IF migration.owner = None THEN "cancelled" ELSE "cancel_requested",
           !.expired = @ \/ migration.owner = None]
    /\ UNCHANGED <<documents, active, worker, budget>> /\ MigrationUnchanged

ClaimUnheldOnly(w) ==
    /\ migration.owner = None
    /\ worker[w].pc = "idle"
    /\ migration.state \in ActiveStates /\ migration.expired
    /\ migration' = [migration EXCEPT !.owner = w, !.expired = FALSE,
                       !.state = IF @ = "queued" THEN "validating" ELSE @]
    /\ worker' = [worker EXCEPT ![w] =
           [pc |-> IF migration.state = "cancel_requested" THEN "settle" ELSE "start",
            id |-> migration.id, source |-> migration.source,
            target |-> migration.target, last |-> migration.last, todo |-> {}]]
    /\ UNCHANGED <<documents, active, budget>> /\ MigrationUnchanged

(* claim: of an active migration nobody holds, or whose lease ran out. *)
Claim(w) ==
    /\ worker[w].pc = "idle"
    /\ migration.state \in ActiveStates /\ migration.expired
    /\ migration' = [migration EXCEPT !.owner = w, !.expired = FALSE,
                       !.state = IF @ = "queued" THEN "validating" ELSE @]
    /\ worker' = [worker EXCEPT ![w] =
           [pc |-> IF migration.state = "cancel_requested" THEN "settle" ELSE "start",
            id |-> migration.id, source |-> migration.source,
            target |-> migration.target, last |-> migration.last, todo |-> {}]]
    /\ UNCHANGED <<documents, active, budget>> /\ MigrationUnchanged

(* The lease runs out: always once its holder is gone, and as a fault      *)
(* while the holder runs, whose heartbeat renews it ten times over.        *)
LeaseExpires ==
    /\ migration.owner # None /\ ~ migration.expired
    /\ IF worker[migration.owner].pc = "idle" THEN UNCHANGED budget ELSE Fault
    /\ migration' = [migration EXCEPT !.expired = TRUE]
    /\ UNCHANGED <<documents, active, worker>> /\ MigrationUnchanged

(* updateOwnedMigration and its kind: only for the owner, and only from    *)
(* the states the caller expects.                                          *)
Owns(w) == migration.owner = w /\ migration.id = worker[w].id
Expects(w, states) == Owns(w) /\ migration.state \in states
Renewed(state) == [migration EXCEPT !.state = state, !.expired = FALSE]
GoTo(w, pc) == worker' = [worker EXCEPT ![w].pc = pc]
WorkUnchanged == UNCHANGED <<documents, active, budget>> /\ MigrationUnchanged

(* The backends are reached, the lease renewed, and the work taken up in   *)
(* the state the claim found.                                              *)
Validate(w) ==
    /\ worker[w].pc = "start"
    /\ \/ /\ Expects(w, {"validating", "copying"})
          /\ migration' = Renewed("copying") /\ GoTo(w, "batch")
       \/ /\ Expects(w, {"cutover"})
          /\ migration' = Renewed("cutover")
          /\ worker' = [worker EXCEPT ![w].pc = "visit", ![w].last = 0]
       \/ /\ ~ Expects(w, {"validating", "copying", "cutover"})
          /\ GoTo(w, "error") /\ UNCHANGED migration
    /\ WorkUnchanged

NextBatch(last) ==
    {d \in rows : d > last /\ Cardinality({e \in rows : last < e /\ e < d}) < BatchSize}

(* copyMigrationDocuments, the head of its loop: the lease, a cancellation *)
(* asked for meanwhile, and the next documents after the last one copied.  *)
ReadBatch(w) ==
    /\ worker[w].pc = "batch"
    /\ \/ /\ ~ Owns(w) /\ GoTo(w, "error") /\ UNCHANGED migration
       \/ /\ Expects(w, {"cancel_requested"}) /\ GoTo(w, "settle")
          /\ migration' = Renewed("cancel_requested")
       \/ /\ Expects(w, {"copying"})
          /\ migration' = Renewed("copying")
          /\ worker' = [worker EXCEPT ![w].todo = NextBatch(worker[w].last),
               ![w].pc = IF NextBatch(worker[w].last) = {} THEN "begin" ELSE "copy"]
    /\ WorkUnchanged

First(S) == CHOOSE d \in S : \A e \in S : d <= e

(* copyAndVerifySourceContentDocument, in the copying pass (pc copy) and   *)
(* in the pass before the cut-over (pc recopy).                            *)
CopyDocument(w) ==
    /\ worker[w].pc \in {"copy", "recopy"} /\ worker[w].todo # {}
    /\ LET d == First(worker[w].todo) IN
       \/ /\ Present(worker[w].source, d)
          /\ objects' = Put(worker[w].target, d)
          /\ worker' = [worker EXCEPT ![w].todo = @ \ {d}, ![w].last = d]
          /\ UNCHANGED budget
       \/ /\ ~ Present(worker[w].source, d)
          /\ GoTo(w, "error") /\ UNCHANGED <<objects, budget>>
       \/ /\ GoTo(w, "error") /\ Fault
          /\ objects' \in {objects, Put(worker[w].target, d)}
    /\ UNCHANGED <<since, active, migration>> /\ RowsUnchanged /\ MigrationUnchanged

(* saveCopyProgress after a batch. *)
SaveCopyProgress(w) ==
    /\ worker[w].pc = "copy" /\ worker[w].todo = {}
    /\ \/ /\ Expects(w, {"copying"})
          /\ migration' = [migration EXCEPT !.last = worker[w].last]
          /\ GoTo(w, "batch")
       \/ /\ ~ Expects(w, {"copying"})
          /\ GoTo(w, "error") /\ UNCHANGED migration
    /\ WorkUnchanged

BeginCutoverAnyhow(w) ==
    /\ worker[w].pc = "begin"
    /\ IF Owns(w)
       THEN migration' = Renewed("cutover")
            /\ worker' = [worker EXCEPT ![w].pc = "visit", ![w].last = 0]
       ELSE GoTo(w, "error") /\ UNCHANGED migration
    /\ WorkUnchanged

(* beginCutover, after which the documents are visited from the first on. *)
BeginCutover(w) ==
    /\ worker[w].pc = "begin"
    /\ \/ /\ Expects(w, {"copying"})
          /\ migration' = Renewed("cutover")
          /\ worker' = [worker EXCEPT ![w].pc = "visit", ![w].last = 0]
       \/ /\ ~ Expects(w, {"copying"})
          /\ GoTo(w, "error") /\ UNCHANGED migration
    /\ WorkUnchanged

(* visitSourceContentDocuments before the cut-over, a batch at a time. *)
VisitBatch(w) ==
    /\ worker[w].pc = "visit" \/ (worker[w].pc = "recopy" /\ worker[w].todo = {})
    /\ LET batch == NextBatch(worker[w].last) IN
       worker' = [worker EXCEPT ![w].todo = batch,
                    ![w].pc = IF batch = {} THEN "cutover" ELSE "recopy"]
    /\ UNCHANGED migration /\ WorkUnchanged

CompleteCutoverWithoutRecent(w) ==
    /\ worker[w].pc = "cutover"
    /\ Expects(w, {"cutover"}) /\ active = worker[w].source
    /\ active' = worker[w].target
    /\ migration' = [migration EXCEPT !.state = "completed", !.owner = None,
                       !.expired = TRUE]
    /\ worker' = [worker EXCEPT ![w] = IdleWorker]
    /\ UNCHANGED <<documents, budget>> /\ MigrationUnchanged

(* completeMigrationCutover, one transaction under the SHARE lock: the     *)
(* documents published since the migration was queued are copied again,    *)
(* and the settings and the migration change together.                     *)
CompleteCutover(w) ==
    /\ worker[w].pc = "cutover"
    /\ \/ /\ Expects(w, {"cutover"}) /\ active = worker[w].source
          /\ since \subseteq objects[worker[w].source]
          /\ objects' = [objects EXCEPT ![worker[w].target] = @ \cup since]
          /\ active' = worker[w].target
          /\ migration' = [migration EXCEPT !.state = "completed", !.owner = None,
                             !.expired = TRUE]
          /\ worker' = [worker EXCEPT ![w] = IdleWorker]
       \/ /\ ~ (/\ Expects(w, {"cutover"}) /\ active = worker[w].source
                /\ since \subseteq objects[worker[w].source])
          /\ GoTo(w, "error")
          /\ UNCHANGED <<objects, active, migration>>
    /\ UNCHANGED <<since, budget>> /\ RowsUnchanged /\ MigrationUnchanged

(* The catch block: a lost lease ends quietly, a cancellation is settled,  *)
(* anything else fails the migration.                                      *)
HandleError(w) ==
    /\ worker[w].pc = "error"
    /\ \/ /\ ~ Owns(w)
          /\ worker' = [worker EXCEPT ![w] = IdleWorker] /\ UNCHANGED migration
       \/ /\ Expects(w, {"cancel_requested"}) /\ GoTo(w, "settle") /\ UNCHANGED migration
       \/ /\ Expects(w, {"validating", "copying", "cutover"})
          /\ GoTo(w, "fail") /\ UNCHANGED migration
    /\ WorkUnchanged

(* markFailed, which loses quietly to a cancellation asked for meanwhile. *)
MarkFailed(w) ==
    /\ worker[w].pc = "fail"
    /\ migration' = IF Expects(w, {"validating", "copying", "cutover"})
                    THEN [migration EXCEPT !.state = "failed", !.owner = None,
                            !.expired = TRUE]
                    ELSE migration
    /\ worker' = [worker EXCEPT ![w] = IdleWorker]
    /\ WorkUnchanged

(* markCancelled. *)
MarkCancelled(w) ==
    /\ worker[w].pc = "settle"
    /\ IF Expects(w, {"cancel_requested"})
       THEN migration' = [migration EXCEPT !.state = "cancelled", !.owner = None,
                            !.expired = TRUE]
       ELSE UNCHANGED migration
    /\ worker' = [worker EXCEPT ![w] = IdleWorker]
    /\ WorkUnchanged

(* The process is told to stop: releaseLease. *)
ReleaseLease(w) ==
    /\ worker[w].pc \notin {"idle", "settle"} /\ Fault
    /\ migration' = IF Owns(w) /\ migration.state \in ActiveStates
                    THEN [migration EXCEPT !.owner = None, !.expired = TRUE]
                    ELSE migration
    /\ worker' = [worker EXCEPT ![w] = IdleWorker]
    /\ UNCHANGED <<documents, active>> /\ MigrationUnchanged

(* The process dies: the lease stays until it runs out. *)
WorkerCrash(w) ==
    /\ worker[w].pc # "idle" /\ Fault
    /\ worker' = [worker EXCEPT ![w] = IdleWorker]
    /\ UNCHANGED <<documents, active, migration>> /\ MigrationUnchanged

----------------------------------------------------------------------------

PublisherStep(p) ==
    \/ \E d \in Docs : Publish(p, d)
    \/ Verify(p) \/ CommitPublish(p) \/ RepeatPublish(p) \/ BackendChanged(p)
    \/ RemoveUnpublishedContent(p) \/ Enqueue(p) \/ PublisherCrash(p)

CleanerStep(c) ==
    \/ \E d \in Docs : PrepareDeletion(c, d) \/ RemoveOrphan(c, d)
    \/ RemoveContent(c) \/ DeletionRefused(c) \/ RecordDeletionFailure(c)
    \/ CleanerCrash(c)

WorkerProgress(w) ==
    \/ Claim(w) \/ Validate(w) \/ ReadBatch(w) \/ CopyDocument(w)
    \/ SaveCopyProgress(w) \/ BeginCutover(w) \/ VisitBatch(w)
    \/ CompleteCutover(w) \/ HandleError(w) \/ MarkFailed(w) \/ MarkCancelled(w)

Next ==
    \/ \E p \in Publishers : PublisherStep(p)
    \/ \E c \in Cleaners : CleanerStep(c)
    \/ \E w \in Workers : WorkerProgress(w) \/ ReleaseLease(w) \/ WorkerCrash(w)
    \/ \E d \in Docs : ReleaseReference(d) \/ GrowOld(d)
    \/ \E b \in Backends : QueueMigration(b)
    \/ QueueAbandonedContent \/ RequestCancellation \/ LeaseExpires
    \/ \E q \in Publishers \cup Cleaners : Restart(q)

Spec == Init /\ [][Next]_vars

(* Time passes, the cleaners and the migration workers run as loops of     *)
(* their processes, a stale process is restarted, and publishers finish.   *)
Fairness ==
    /\ \A c \in Cleaners :
        /\ WF_vars(RemoveContent(c)) /\ WF_vars(DeletionRefused(c))
        /\ WF_vars(RecordDeletionFailure(c)) /\ SF_vars(Restart(c))
        /\ \A d \in Docs : SF_vars(PrepareDeletion(c, d)) /\ SF_vars(RemoveOrphan(c, d))
    /\ \A d \in Docs : WF_vars(GrowOld(d))
    /\ WF_vars(QueueAbandonedContent) /\ WF_vars(LeaseExpires)
    /\ \A w \in Workers : WF_vars(WorkerProgress(w))
FairSpec == Spec /\ Fairness

----------------------------------------------------------------------------
(* Properties.                                                             *)

(* Every document with a row can be read: its object is in the backend the *)
(* settings name, whatever publishers, cleaners, a cancelled, failed or    *)
(* completed migration, crashes and processes with old settings did.       *)
ContentIsReadable == rows \subseteq objects[active]

(* The grace period does its work: the row of an upload that is about to   *)
(* be enqueued survives while it is young, although nothing refers to it   *)
(* yet and a deletion of the same document may be queued or under way.     *)
UploadsCanBeEnqueued ==
    [][\A p \in DOMAIN publisher :
          publisher[p].pc = "enqueue" /\ publisher[p].doc \in young
           => publisher[p].doc \in rows']_vars

(* A cancellation that was accepted is honoured: that migration ends       *)
(* cancelled and the settings do not move, whichever workers still run it. *)
CancellationIsHonoured ==
    [][migration.state \in {"cancel_requested", "cancelled"} /\ migration'.id = migration.id
        => active' = active /\ migration'.state \in {"cancel_requested", "cancelled"}]_vars

(* An object of the active backend that no row names is removed, or named  *)
(* by a row again: an interrupted upload or deletion leaves nothing behind. *)
AbandonedIsRemoved ==
    \A d \in Docs : d \in objects[active] \ rows ~> d \notin objects[active] \ rows

(* Every migration ends, whether its worker dies, is stopped, loses its    *)
(* lease, meets a document deleted under it, or is asked to cancel.        *)
MigrationsSettle == migration.state \in ActiveStates ~> migration.state \in FinalStates
============================================================================
