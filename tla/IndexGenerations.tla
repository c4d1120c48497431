-------------------------- MODULE IndexGenerations --------------------------
(***************************************************************************)
(* How a document becomes searchable, and how it stops being so.  A job    *)
(* builds one generation of retrieval rows, position by position, in one   *)
(* embedding space; promotion makes the generation the one that searches   *)
(* of that space read.  Prepared again, canceled, deleted or collected     *)
(* meanwhile, rows and publications must stay consistent.  Workers whose   *)
(* lease is gone go on with the job they read.  Only the phases from       *)
(* indexing on are here; IngestionJobs has the queue itself.               *)
(***************************************************************************)
EXTENDS Naturals, FiniteSets

CONSTANTS
    Sources, Docs, Spaces, Workers,
    MaxGenerations,     \* bound: generation ids
    Elements,           \* elements of every document
    MaxChanges          \* bound: changes of the active space

IndexAssumption ==
    /\ Elements \in Nat \ {0} /\ MaxGenerations \in Nat /\ MaxChanges \in Nat
    /\ 0 \notin Docs \cup Spaces

Gens == 1 .. MaxGenerations
Missing == 0

VARIABLES
    spaces,     \* embedding_spaces: the registered ones
    recent,     \* those newer than the retention cutoff
    pins,       \* embedding_space_pins
    setting,    \* the space the application settings select, and how often that changed
    job,        \* ingestion_jobs
    manifest,   \* ingestion_embedding_manifests
    rows,       \* retrieval_vectors and retrieval_lexical_chunks: one pair of rows per element
    published,  \* indexed_document_spaces with its active projection
    indexed,    \* indexed_documents: the document of a source
    worker,     \* the job each worker works on, as it read it
    used,       \* generation ids given out
    gc          \* the garbage collection run

vars == <<spaces, recent, pins, setting, job, manifest, rows, published, indexed, worker, used, gc>>
catalog == <<job, manifest, rows, published, indexed, used>>
settings == <<spaces, recent, pins, setting>>

NoJob == [doc |-> Missing, space |-> Missing, gen |-> Missing, state |-> "none", owner |-> Missing,
          phase |-> "none", next |-> 0]
NoManifest == [doc |-> Missing, space |-> Missing, next |-> 0, completed |-> FALSE]
\* A row names its generation, its document and its space itself.
RowsOf(g) == {r \in rows : r.gen = g}
NoGc == [state |-> "none", active |-> Missing, todo |-> {}]
Nothing == [doc |-> Missing, gen |-> Missing]
Positions == 0 .. Elements - 1

Init ==
    /\ \E s \in Spaces : spaces = {s} /\ setting = [space |-> s, changes |-> 0]
    /\ recent = spaces /\ pins = {}
    /\ job = [f \in Sources |-> NoJob] /\ manifest = [g \in Gens |-> NoManifest]
    /\ rows = {}
    /\ published = [f \in Sources |-> [s \in Spaces |-> Nothing]]
    /\ indexed = [f \in Sources |-> Missing]
    /\ worker = [w \in Workers |-> NoJob]
    /\ used = 0 /\ gc = NoGc
-----------------------------------------------------------------------------
(* Spaces.                                                                  *)

\* ensureEmbeddingSpace: when a runtime starts with other settings.
ChangeActiveSpace(s) ==
    /\ setting.changes < MaxChanges /\ s # setting.space
    /\ setting' = [space |-> s, changes |-> setting.changes + 1]
    /\ spaces' = spaces \cup {s} /\ recent' = IF s \in spaces THEN recent ELSE recent \cup {s}
    /\ UNCHANGED <<pins, catalog, worker, gc>>

GrowOld(s) ==
    /\ s \in recent /\ recent' = recent \ {s}
    /\ UNCHANGED <<spaces, pins, setting, catalog, worker, gc>>

Pin(s) ==
    /\ s \in spaces \ pins /\ pins' = pins \cup {s}
    /\ UNCHANGED <<spaces, recent, setting, catalog, worker, gc>>
Unpin(s) ==
    /\ s \in pins /\ pins' = pins \ {s}
    /\ UNCHANGED <<spaces, recent, setting, catalog, worker, gc>>
-----------------------------------------------------------------------------
(* Preparing a job.                                                         *)

Available(f) == job[f].state # "running"
KeepGeneration(f) == [m |-> manifest, r |-> rows]
\* discardIngestionGeneration of the job that is replaced.
DiscardGeneration(f) ==
    LET g == job[f].gen IN
    IF g = Missing THEN [m |-> manifest, r |-> rows]
    ELSE [m |-> [manifest EXCEPT ![g] = NoManifest], r |-> rows \ RowsOf(g)]

UpToDate(f, d) == indexed[f] = d /\ published[f][setting.space].doc = d
SameJob(f, d) == job[f].doc = d /\ job[f].space = setting.space

\* The document is indexed already: the job there may be goes, and with it its
\* manifest (ON DELETE CASCADE); cleanAbandonedJob removes temporary artifacts only.
PrepareSkipped(f, d) ==
    LET g == job[f].gen IN
    /\ UpToDate(f, d) /\ Available(f) /\ g # Missing
    /\ job' = [job EXCEPT ![f] = NoJob]
    /\ manifest' = [manifest EXCEPT ![g] = NoManifest]
    /\ UNCHANGED <<settings, rows, published, indexed, worker, used, gc>>

ResumeIngestion(f, d) ==
    /\ ~UpToDate(f, d) /\ SameJob(f, d) /\ job[f].state \in {"failed", "expired"}
    /\ job' = [job EXCEPT ![f].state = "pending", ![f].owner = Missing]
    /\ UNCHANGED <<settings, manifest, rows, published, indexed, worker, used, gc>>

\* A new generation: forced, or for another document or another space.
ResetIngestion(f, d) ==
    /\ Available(f) /\ used < MaxGenerations /\ used' = used + 1
    /\ job' = [job EXCEPT ![f] = [NoJob EXCEPT !.doc = d, !.space = setting.space, !.gen = used + 1,
                                               !.state = "pending", !.phase = "indexing"]]
    /\ manifest' = DiscardGeneration(f).m /\ rows' = DiscardGeneration(f).r
    /\ UNCHANGED <<settings, published, indexed, worker, gc>>
-----------------------------------------------------------------------------
(* A worker.                                                                *)

\* The claim, by a worker configured for the space, which it registers (again).
Claim(w, f) ==
    /\ job[f].state \in {"pending", "expired"} /\ worker[w].gen = Missing
    /\ job' = [job EXCEPT ![f].state = "running", ![f].owner = w]
    /\ worker' = [worker EXCEPT ![w] =
          [job[f] EXCEPT !.owner = f, !.next = 0, !.phase = IF @ = "indexing" THEN "begin" ELSE @]]
    /\ spaces' = spaces \cup {job[f].space}
    /\ recent' = IF job[f].space \in spaces THEN recent ELSE recent \cup {job[f].space}
    /\ UNCHANGED <<pins, setting, manifest, rows, published, indexed, used, gc>>

Stops(w) == worker' = [worker EXCEPT ![w] = NoJob]
File(w) == worker[w].owner          \* the source file of the job the worker read
Owned(w) == job[File(w)].state = "running" /\ job[File(w)].owner = w

\* The row of the generation must exist for the foreign key of its manifest.
HasJob(g) == \E f \in Sources : job[f].gen = g
Matches(w) == manifest[worker[w].gen].doc = worker[w].doc /\ manifest[worker[w].gen].space = worker[w].space

\* beginEmbeddingGeneration: continues at the position the manifest has reached.
Begin(w) ==
    LET g == worker[w].gen
        m == IF manifest[g].doc # Missing THEN manifest[g]
             ELSE [NoManifest EXCEPT !.doc = worker[w].doc, !.space = worker[w].space]
    IN
    /\ worker[w].phase = "begin"
    /\ IF HasJob(g) /\ worker[w].space \in spaces
       THEN /\ manifest' = [manifest EXCEPT ![g] = m]
            /\ worker' = [worker EXCEPT ![w].next = m.next, ![w].phase = "indexing"]
       ELSE Stops(w) /\ UNCHANGED manifest
    /\ UNCHANGED <<settings, job, rows, published, indexed, used, gc>>

StagesNext(w) ==
    /\ manifest[worker[w].gen].doc # Missing /\ Matches(w)
    /\ ~manifest[worker[w].gen].completed /\ manifest[worker[w].gen].next = worker[w].next

\* stageRetrievalRepresentationBatch: rows and the manifest in one transaction.
Stage(w) ==
    LET g == worker[w].gen IN
    /\ worker[w].phase = "indexing" /\ worker[w].next < Elements
    /\ IF StagesNext(w)
       THEN /\ rows' = rows \cup {[gen |-> g, doc |-> worker[w].doc, space |-> worker[w].space, at |-> worker[w].next]}
            /\ manifest' = [manifest EXCEPT ![g].next = worker[w].next + 1,
                                            ![g].completed = (worker[w].next + 1 = Elements)]
            /\ worker' = [worker EXCEPT ![w].next = @ + 1]
       ELSE Stops(w) /\ UNCHANGED <<manifest, rows>>
    /\ UNCHANGED <<settings, job, published, indexed, used, gc>>

\* completeIndexing, by the owner of the running job.
CompleteIndexing(w) ==
    /\ worker[w].phase = "indexing" /\ worker[w].next = Elements
    /\ IF Owned(w)
       THEN /\ job' = [job EXCEPT ![File(w)].phase = "indexed"]
            /\ worker' = [worker EXCEPT ![w].phase = "indexed"]
       ELSE Stops(w) /\ UNCHANGED job
    /\ UNCHANGED <<settings, manifest, rows, published, indexed, used, gc>>

\* validateEmbeddingGenerationForPublication.
Publishable(j) ==
    /\ manifest[j.gen].completed /\ manifest[j.gen].doc = j.doc /\ manifest[j.gen].space = j.space
    /\ j.space \in spaces /\ {r.at : r \in RowsOf(j.gen)} = Positions

OnlySpace(f, j) == {j.space}
\* The publications of the source that the new one replaces.
Replaced(f, j) ==
    {s \in Spaces : published[f][s].doc # Missing /\ (published[f][s].doc # j.doc \/ s = j.space)}
SourceGenerations(f, j) == {published[f][s].gen : s \in Spaces} \ {j.gen, Missing}
ReplacedGenerations(f, j) == {published[f][s].gen : s \in Replaced(f, j)} \ {j.gen, Missing}

\* promoteJob reads the job again; what it publishes is the job's generation.
Promote(w) ==
    LET f == File(w)
        j == job[f]
    IN
    /\ worker[w].phase = "indexed" /\ Stops(w)
    /\ IF Owned(w) /\ j.phase = "indexed" /\ Publishable(j)
       THEN /\ indexed' = [indexed EXCEPT ![f] = j.doc]
            /\ published' = [published EXCEPT ![f] = [s \in Spaces |->
                  IF s = j.space THEN [doc |-> j.doc, gen |-> j.gen]
                  ELSE IF s \in Replaced(f, j) THEN Nothing ELSE published[f][s]]]
            /\ rows' = {r \in rows : r.gen \notin ReplacedGenerations(f, j)}
            /\ job' = [job EXCEPT ![f] = NoJob]
            /\ manifest' = [manifest EXCEPT ![j.gen] = NoManifest]
       ELSE UNCHANGED <<indexed, published, rows, job, manifest>>
    /\ UNCHANGED <<settings, used, gc>>

\* An error: the owner fails its job, or hands it back for another try.
WorkerFails(w) ==
    /\ worker[w].gen # Missing /\ Stops(w)
    /\ IF Owned(w)
       THEN \E s \in {"failed", "pending"} : job' = [job EXCEPT ![File(w)].state = s, ![File(w)].owner = Missing]
       ELSE UNCHANGED job
    /\ UNCHANGED <<settings, manifest, rows, published, indexed, used, gc>>

\* The lease of a running job expires; its worker goes on.
LoseLease(f) ==
    /\ job[f].state = "running"
    /\ job' = [job EXCEPT ![f].state = "expired", ![f].owner = Missing]
    /\ UNCHANGED <<settings, manifest, rows, published, indexed, worker, used, gc>>
-----------------------------------------------------------------------------
(* Canceling and deleting.                                                  *)

NoJobFor(d, ix, jb) == \A f \in Sources : jb[f].doc # d
NotIndexed(d, ix, jb) == \A f \in Sources : ix[f] # d
Unreferenced(d, ix, jb) == \A f \in Sources : ix[f] # d /\ jb[f].doc # d

\* deleteDocumentDataWithoutReferences.
DeleteDocumentData(ds, ix, jb) ==
    rows' = {r \in rows : ~(r.doc \in ds /\ Unreferenced(r.doc, ix, jb))}

\* finalizeIngestionCancellation, of a job that is not running.
FinalizeCancellation(f) ==
    LET j == job[f]
        jb == [job EXCEPT ![f] = NoJob]
    IN
    /\ j.state \in {"pending", "failed"}
    /\ job' = jb /\ manifest' = [manifest EXCEPT ![j.gen] = NoManifest]
    /\ DeleteDocumentData({j.doc}, indexed, jb)
    /\ UNCHANGED <<settings, published, indexed, worker, used, gc>>

\* deleteIndexedDocumentWithRuntime: refused while a job is pending or running.  The
\* rows of earlier versions of the source went when they were replaced.
DeleteDocument(f, d) ==
    LET j == job[f]
        jb == [job EXCEPT ![f] = NoJob]
        ix == [indexed EXCEPT ![f] = Missing]
    IN
    /\ indexed[f] = d \/ j.doc = d
    /\ j.state \in {"none", "failed"}
    /\ job' = jb /\ indexed' = ix
    /\ manifest' = [g \in Gens |-> IF g = j.gen THEN NoManifest ELSE manifest[g]]
    /\ published' = [published EXCEPT ![f] = [s \in Spaces |-> Nothing]]
    /\ DeleteDocumentData({d, indexed[f]}, ix, jb)
    /\ UNCHANGED <<settings, worker, used, gc>>
-----------------------------------------------------------------------------
(* Garbage collection of embedding spaces, a command.                       *)

JobSpaces == {job[f].space : f \in Sources}
PlannedProtection(s) == s = gc.active
Protected(s) == s = gc.active \/ s \in pins \/ s \in JobSpaces \/ s \in recent

\* createGarbageCollectionRun: the plan, from what the command reads first.
PlanCollection ==
    LET p(s) == s = setting.space \/ s \in pins \/ s \in JobSpaces \/ s \in recent IN
    /\ gc.state \in {"none", "completed"} /\ setting.space \in spaces
    /\ gc' = [state |-> "running", active |-> setting.space, todo |-> {s \in spaces : ~p(s)}]
    /\ UNCHANGED <<settings, catalog, worker>>

\* collectEmbeddingSpace, one transaction that locks the jobs and the space.
Collect(s) ==
    /\ gc.state = "running" /\ s \in gc.todo
    /\ gc' = [gc EXCEPT !.todo = @ \ {s}]
    /\ IF s \in spaces /\ Protected(s) THEN UNCHANGED <<spaces, manifest, rows, published>>
       ELSE /\ spaces' = spaces \ {s}
            /\ published' = [f \in Sources |-> [published[f] EXCEPT ![s] = Nothing]]
            /\ rows' = {r \in rows : r.space # s}
            /\ manifest' = [g \in Gens |-> IF manifest[g].space = s THEN NoManifest ELSE manifest[g]]
    /\ recent' = recent \cap spaces' /\ pins' = pins \cap spaces'
    /\ UNCHANGED <<setting, job, indexed, worker, used>>

CollectFails ==
    /\ gc.state = "running" /\ gc.todo # {} /\ gc' = [gc EXCEPT !.state = "failed"]
    /\ UNCHANGED <<settings, catalog, worker>>
\* Resumed, a run keeps its plan and takes the space that is active now.
ResumeCollection ==
    /\ gc.state \in {"running", "failed"} /\ gc' = [gc EXCEPT !.state = "running", !.active = setting.space]
    /\ gc' # gc
    /\ UNCHANGED <<settings, catalog, worker>>
CompleteCollection ==
    /\ gc.state = "running" /\ gc.todo = {} /\ gc' = [NoGc EXCEPT !.state = "completed"]
    /\ UNCHANGED <<settings, catalog, worker>>
-----------------------------------------------------------------------------
Prepare == \E f \in Sources, d \in Docs :
    PrepareSkipped(f, d) \/ ResumeIngestion(f, d) \/ ResetIngestion(f, d) \/ DeleteDocument(f, d)
Work == \E w \in Workers :
    \/ \E f \in Sources : Claim(w, f)
    \/ Begin(w) \/ Stage(w) \/ CompleteIndexing(w) \/ Promote(w) \/ WorkerFails(w)
Withdraw == \E f \in Sources : LoseLease(f) \/ FinalizeCancellation(f)
Manage == \E s \in Spaces : ChangeActiveSpace(s) \/ GrowOld(s) \/ Pin(s) \/ Unpin(s) \/ Collect(s)
Next == Prepare \/ Work \/ Withdraw \/ Manage \/ PlanCollection \/ CollectFails \/ ResumeCollection \/ CompleteCollection

Spec == Init /\ [][Next]_vars
-----------------------------------------------------------------------------
\* The tables stay well formed: in particular the rows of one generation belong to
\* one document and one space, and a generation to one job.
TypeOK ==
    /\ spaces \subseteq Spaces /\ recent \subseteq spaces /\ pins \subseteq spaces
    /\ setting.space \in Spaces /\ setting.changes \in 0 .. MaxChanges
    /\ \A f \in Sources :
        /\ job[f].doc \in Docs \cup {Missing} /\ job[f].gen \in Gens \cup {Missing}
        /\ job[f].state \in {"none", "pending", "running", "failed", "expired"}
        /\ job[f].phase \in {"none", "indexing", "indexed"}
        /\ \A e \in Sources : job[e].gen = job[f].gen => e = f \/ job[f].gen = Missing
    /\ \A q, r \in rows : q.gen = r.gen => q.doc = r.doc /\ q.space = r.space
    /\ \A g \in Gens : manifest[g].doc # Missing => \E f \in Sources : job[f].gen = g
    /\ \A f \in Sources : indexed[f] \in Docs \cup {Missing}
    /\ used \in 0 .. MaxGenerations
    /\ gc.state \in {"none", "running", "failed", "completed"} /\ gc.todo \subseteq Spaces

\* What searches of a space read is whole: the space is registered and every element
\* of the published generation has its rows, whichever other source of the document
\* is deleted, replaced or canceled and whatever is collected.
PublishedIsComplete == \A f \in Sources, s \in Spaces :
    published[f][s].doc # Missing =>
        /\ s \in spaces
        /\ RowsOf(published[f][s].gen) =
              {[gen |-> published[f][s].gen, doc |-> published[f][s].doc, space |-> s, at |-> i] : i \in Positions}

\* A generation that is built is not taken away under its job: its manifest, its
\* rows and its space last until the job publishes it or is replaced.
BuiltIsKept == \A f \in Sources :
    job[f].phase = "indexed" => Publishable(job[f])

\* All spaces that have a source have the same version of it, the indexed one.
OneVersionPerSource == \A f \in Sources, s \in Spaces :
    published[f][s].doc \in {Missing, indexed[f]}

\* docs/operations.md: a collection "protects the active space".
ActiveSpaceIsKept == [][setting.space \in spaces' \/ setting.space \notin spaces]_vars
=============================================================================
