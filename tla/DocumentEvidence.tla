-------------------------- MODULE DocumentEvidence --------------------------
(***************************************************************************)
(* The evidence of one document content: its source elements and its       *)
(* element set, stored once and shared by every file with that content.    *)
(* Workers write and read it in batches outside any transaction; deletions *)
(* of files, cancellations and replaced uploads count the references and   *)
(* then remove it.  The foreign keys of the schema are part of the model.  *)
(***************************************************************************)
EXTENDS Naturals, FiniteSets

CONSTANTS
    Files, Workers, Deleters,
    Size,           \* batches of elements (INSERT_BATCH_SIZE each)
    NoFile, NoWorker

EvidenceAssumption ==
    Size \in Nat \ {0} /\ NoFile \notin Files /\ NoWorker \notin Workers

Batches == 1 .. Size

VARIABLES
    elements,   \* source_elements of the content, by batch
    set,        \* its row of document_element_sets
    members,    \* document_element_set_members, by batch
    job,        \* ingestion_jobs of the files, as far as they are for this content
    indexed,    \* files whose published document is this content
    versions,   \* files with a document version of this content, current or not
    worker, deleter

vars == <<elements, set, members, job, indexed, versions, worker, deleter>>
evidence == <<elements, set, members>>
catalog == <<job, indexed, versions>>

NoJob == [phase |-> "none", owner |-> NoWorker]
IdleWorker == [pc |-> "idle", file |-> NoFile, batch |-> 0]
IdleDeleter == [pc |-> "idle", kind |-> "none", file |-> NoFile]

Init ==
    /\ elements = {} /\ set = "none" /\ members = {}
    /\ job = [f \in Files |-> NoJob] /\ indexed = {} /\ versions = {}
    /\ worker = [w \in Workers |-> IdleWorker]
    /\ deleter = [d \in Deleters |-> IdleDeleter]

\* A deletion holds the row locks of its file from its first statement on.
Locked(f) == \E d \in Deleters : deleter[d].file = f
-----------------------------------------------------------------------------
(* Jobs.                                                                    *)

Submit(f) ==
    /\ job[f] = NoJob /\ ~Locked(f)
    /\ job' = [job EXCEPT ![f] = [phase |-> "discovered", owner |-> NoWorker]]
    /\ UNCHANGED <<evidence, indexed, versions, worker, deleter>>

Claim(w, f) ==
    /\ worker[w].pc = "idle" /\ ~Locked(f)
    /\ job[f].phase # "none" /\ job[f].owner = NoWorker
    /\ job' = [job EXCEPT ![f].owner = w]
    /\ worker' = [worker EXCEPT ![w] =
          [pc |-> IF job[f].phase = "discovered" THEN "elements" ELSE "index",
           file |-> f, batch |-> 1]]
    /\ UNCHANGED <<evidence, indexed, versions, deleter>>

\* The lease runs out; its holder goes on without noticing.
LoseLease(f) ==
    /\ job[f].owner # NoWorker /\ job' = [job EXCEPT ![f].owner = NoWorker]
    /\ UNCHANGED <<evidence, indexed, versions, worker, deleter>>

Owns(w) == job[worker[w].file].owner = w
Goes(w, pc) == worker' = [worker EXCEPT ![w].pc = pc, ![w].batch = 1]
NextBatch(w, pc) ==
    IF worker[w].batch = Size THEN Goes(w, pc)
    ELSE worker' = [worker EXCEPT ![w].batch = @ + 1]

\* The catch block of a job: a refused write, a missing row, a signal, a crash.
Fail(w) ==
    /\ worker[w].pc # "idle" /\ worker' = [worker EXCEPT ![w] = IdleWorker]
    /\ job' = IF Owns(w) THEN [job EXCEPT ![worker[w].file].owner = NoWorker] ELSE job
    /\ UNCHANGED <<evidence, indexed, versions, deleter>>
-----------------------------------------------------------------------------
(* Storing the elements (writeMany, writeElementSet).  Rows that exist are  *)
(* left alone; a row whose parent is missing is refused, which ends in Fail.*)

WriteElements(w) ==
    /\ worker[w].pc = "elements"
    /\ elements' = elements \cup {worker[w].batch} /\ NextBatch(w, "set")
    /\ UNCHANGED <<set, members, catalog, deleter>>

InsertSet(w) ==
    /\ worker[w].pc = "set" /\ Goes(w, "members")
    /\ set' = IF set = "none" THEN "incomplete" ELSE set
    /\ UNCHANGED <<elements, members, catalog, deleter>>

\* Fault: the members have no foreign key on the set.
WriteLooseMembers(w) ==
    /\ worker[w].pc = "members" /\ NextBatch(w, "count")
    /\ members' = members \cup {worker[w].batch}
    /\ UNCHANGED <<elements, set, catalog, deleter>>

WriteMembers(w) ==
    /\ worker[w].pc = "members" /\ NextBatch(w, "count")
    /\ set # "none" /\ worker[w].batch \in elements
    /\ members' = members \cup {worker[w].batch}
    /\ UNCHANGED <<elements, set, catalog, deleter>>

CountMembers(w) ==
    /\ worker[w].pc = "count" /\ members = Batches /\ Goes(w, "mark")
    /\ UNCHANGED <<evidence, catalog, deleter>>

MarkComplete(w) ==
    /\ worker[w].pc = "mark" /\ Goes(w, "read")
    /\ set' = IF set = "none" THEN "none" ELSE "complete"
    /\ UNCHANGED <<elements, members, catalog, deleter>>

ReadElementSet(w) ==
    /\ worker[w].pc = "read" /\ set = "complete" /\ Goes(w, "normalize")
    /\ UNCHANGED <<evidence, catalog, deleter>>

\* completeNormalization: the job's reference needs the set to exist.
CompleteNormalization(w) ==
    LET f == worker[w].file IN
    /\ worker[w].pc = "normalize" /\ Owns(w) /\ set # "none" /\ ~Locked(f)
    /\ job' = [job EXCEPT ![f].phase = "normalized"] /\ Goes(w, "index")
    /\ UNCHANGED <<evidence, indexed, versions, deleter>>
-----------------------------------------------------------------------------
(* Indexing and publication.                                                *)

\* Fault: gaps go unnoticed.
AnyRows(b) == TRUE
\* readElementBatch and readIndexingBatch: every position, without a gap.
Readable(b) == b \in members /\ b \in elements

IndexBatch(w) ==
    /\ worker[w].pc = "index" /\ NextBatch(w, "promote")
    /\ set = "complete" /\ Readable(worker[w].batch)
    /\ UNCHANGED <<evidence, catalog, deleter>>

\* promoteJob with validatePublicationArtifacts and persistDocumentVersion.
Promote(w) ==
    LET f == worker[w].file IN
    /\ worker[w].pc = "promote" /\ Owns(w) /\ job[f].phase = "normalized" /\ ~Locked(f)
    /\ set = "complete"
    /\ job' = [job EXCEPT ![f] = NoJob]
    /\ indexed' = indexed \cup {f} /\ versions' = versions \cup {f}
    /\ worker' = [worker EXCEPT ![w] = IdleWorker]
    /\ UNCHANGED <<evidence, deleter>>

\* The file is published with another content: its old version stays, for the
\* citations that point at it.
Supersede(f) ==
    /\ f \in indexed /\ ~Locked(f) /\ indexed' = indexed \ {f}
    /\ UNCHANGED <<evidence, job, versions, worker, deleter>>
-----------------------------------------------------------------------------
(* Deletion.                                                                *)

\* What is left in the catalogue when deleteIndexedDocumentWithRuntime deletes a
\* document, or finalizeIngestionCancellation a job.
WithoutFile(k, files, f) == IF k = "document" THEN files \ {f} ELSE files
Waiting(f) == {g \in Files : job[g] # NoJob} \ {f}

\* The rows of the file are deleted (locked, until the end), and the references
\* that remain are counted.
BeginDelete(d, f, k) ==
    /\ deleter[d].pc = "idle" /\ ~Locked(f) /\ job[f].owner = NoWorker
    /\ IF k = "document" THEN f \in versions ELSE job[f] # NoJob
    /\ deleter' = [deleter EXCEPT ![d] =
          [pc |-> IF WithoutFile(k, indexed, f) \cup Waiting(f) = {} THEN "evidence" ELSE "rows",
           kind |-> k, file |-> f]]
    /\ UNCHANGED <<evidence, catalog, worker>>

DeleteRows(d) ==
    LET f == deleter[d].file IN
    /\ job' = [job EXCEPT ![f] = NoJob]
    /\ indexed' = WithoutFile(deleter[d].kind, indexed, f)
    /\ versions' = WithoutFile(deleter[d].kind, versions, f)
    /\ deleter' = [deleter EXCEPT ![d] = IdleDeleter]
    /\ UNCHANGED worker

CommitRows(d) == deleter[d].pc = "rows" /\ DeleteRows(d) /\ UNCHANGED evidence

\* Fault: jobs do not restrict the deletion of their set.
PublishedOnly(f) == indexed \cup versions
\* What a restricting foreign key keeps from losing the set, beside the job of f.
HeldBy(f) ==
    indexed \cup versions \cup ({g \in Files : job[g].phase = "normalized"} \ {f})

\* deleteDocumentDataWithoutReferences and deleteStoredDocumentEvidence.
CommitDelete(d) ==
    LET f == deleter[d].file
        k == deleter[d].kind IN
    /\ deleter[d].pc = "evidence" /\ DeleteRows(d)
    /\ IF WithoutFile(k, versions, f) # {} THEN UNCHANGED evidence
       ELSE /\ WithoutFile(k, HeldBy(f), f) = {}
            /\ elements' = {} /\ set' = "none" /\ members' = {}

\* A foreign key, a deadlock or a lost connection rolls everything back.
RollBack(d) ==
    /\ deleter[d].pc # "idle" /\ deleter' = [deleter EXCEPT ![d] = IdleDeleter]
    /\ UNCHANGED <<evidence, catalog, worker>>

\* A waiting job of the file is replaced by one for another content; the old one
\* is abandoned, and cleaned up if nobody refers to the content (cleanAbandonedJob).
Replace(d, f) ==
    /\ deleter[d].pc = "idle" /\ ~Locked(f) /\ job[f] # NoJob /\ job[f].owner = NoWorker
    /\ job' = [job EXCEPT ![f] = NoJob]
    /\ deleter' = [deleter EXCEPT ![d] = [IdleDeleter EXCEPT !.pc = "count"]]
    /\ UNCHANGED <<evidence, indexed, versions, worker>>

CountAbandoned(d) ==
    /\ deleter[d].pc = "count"
    /\ deleter' = [deleter EXCEPT ![d] =
          IF indexed \cup {g \in Files : job[g] # NoJob} = {}
          THEN [IdleDeleter EXCEPT !.pc = "clean"] ELSE IdleDeleter]
    /\ UNCHANGED <<evidence, catalog, worker>>

\* cleanDocumentData
CleanAbandoned(d) ==
    /\ deleter[d].pc = "clean" /\ HeldBy(NoFile) = {}
    /\ elements' = {} /\ set' = "none" /\ members' = {}
    /\ deleter' = [deleter EXCEPT ![d] = IdleDeleter]
    /\ UNCHANGED <<catalog, worker>>

WorkerStep(w) ==
    \/ \E f \in Files : Claim(w, f)
    \/ WriteElements(w) \/ InsertSet(w) \/ WriteMembers(w) \/ CountMembers(w)
    \/ MarkComplete(w) \/ ReadElementSet(w) \/ CompleteNormalization(w)
    \/ IndexBatch(w) \/ Promote(w) \/ Fail(w)

DeleterStep(d) ==
    \/ \E f \in Files : Replace(d, f) \/ \E k \in {"document", "job"} : BeginDelete(d, f, k)
    \/ CommitRows(d) \/ CommitDelete(d) \/ RollBack(d)
    \/ CountAbandoned(d) \/ CleanAbandoned(d)

Next ==
    \/ \E f \in Files : Submit(f) \/ LoseLease(f) \/ Supersede(f)
    \/ \E w \in Workers : WorkerStep(w)
    \/ \E d \in Deleters : DeleterStep(d)

Spec == Init /\ [][Next]_vars
-----------------------------------------------------------------------------
\* Type invariant, with the foreign keys between the evidence tables.
TypeOK ==
    /\ elements \subseteq Batches /\ members \subseteq elements
    /\ set \in {"none", "incomplete", "complete"} /\ (members # {} => set # "none")
    /\ job \in [Files -> [phase : {"none", "discovered", "normalized"},
                          owner : Workers \cup {NoWorker}]]
    /\ indexed \subseteq versions /\ versions \subseteq Files
    /\ worker \in [Workers -> [pc : {"idle", "elements", "set", "members", "count", "mark",
          "read", "normalize", "index", "promote"}, file : Files \cup {NoFile}, batch : 0 .. Size]]
    /\ deleter \in [Deleters -> [pc : {"idle", "rows", "evidence", "count", "clean"},
                                 kind : {"none", "document", "job"}, file : Files \cup {NoFile}]]

\* Whoever wrote, shared, deleted or marked the set meanwhile, a document version
\* (what answers cite) has a complete set with every element.
PublishedIsWhole ==
    versions # {} => set = "complete" /\ members = Batches /\ elements = Batches

\* A normalised job never loses the set it refers to: deleting another file
\* with the same content, or an abandoned job, leaves it alone.
NormalizedKeepsItsSet ==
    (\E f \in Files : job[f].phase = "normalized") => set # "none"
=============================================================================
