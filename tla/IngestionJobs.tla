--------------------------- MODULE IngestionJobs ---------------------------
(***************************************************************************)
(* The ingestion queue of CiteLoom: the rows of ingestion_jobs, their      *)
(* Docling task checkpoints and the published documents, all in            *)
(* PostgreSQL, and the processes that work on them: worker daemons, CLI    *)
(* ingestions, the control reconcilers of web server and worker, and the   *)
(* users' pause, resume, cancel, retry, reindex, upload and delete calls.  *)
(*                                                                         *)
(* One action is one database transaction or one call to Docling.  Leases  *)
(* are modelled without a clock: ExpireLease lets the lease of a running   *)
(* job run out at any time, BecomeDue lets a retry delay pass at any time. *)
(***************************************************************************)
EXTENDS Naturals

CONSTANTS
    Files,          \* source files, the key of a job
    Docs,           \* document contents (SHA-256 content ids)
    PlainText,      \* contents normalised without Docling
    RestartTask,    \* contents whose Docling tasks restart rather than resume
    Services,       \* Docling service instances
    Daemons,        \* worker processes claiming whatever is due
    Clis,           \* CLI ingestions: prepare one file, then process it
    MaxAttempts,    \* retry.maxAttempts
    MaxClaims,      \* bound: lease owner ids handed out
    MaxTasks,       \* bound: Docling task ids handed out
    MaxGens,        \* bound: retrieval generations created
    NoFile, NoDoc, NoService

ASSUME ConstantsAssumption ==
    /\ MaxAttempts \in Nat \ {0}
    /\ MaxClaims \in Nat /\ MaxTasks \in Nat /\ MaxGens \in Nat
    /\ PlainText \subseteq Docs /\ RestartTask \subseteq Docs
    /\ NoFile \notin Files /\ NoDoc \notin Docs /\ NoService \notin Services
    /\ Daemons \cap Clis = {}

VARIABLES
    job,        \* ingestion_jobs by source file
    ckpt,       \* docling_task_checkpoints by source file (request key "content")
    indexed,    \* indexed_documents by source file
    remote,     \* external: the tasks Docling services know of
    acks,       \* remote control outcomes not yet acknowledged in the database
    wk,         \* the processes that claim and run jobs
    claims, tasks, gens     \* ids handed out so far

vars == <<job, ckpt, indexed, remote, acks, wk, claims, tasks, gens>>

Workers == Daemons \cup Clis
TaskIds == 1 .. MaxTasks
Requested == {"pause_requested", "cancel_requested"}

NoJob == [state |-> "absent", phase |-> "discovered", control |-> "active",
          owner |-> 0, live |-> FALSE, due |-> FALSE, attempts |-> 0,
          doc |-> NoDoc, gen |-> 0, elems |-> NoDoc, service |-> NoService]
NoCkpt == [task |-> 0, service |-> NoService]
NotIndexed == [version |-> 0, doc |-> NoDoc, elems |-> NoDoc, gen |-> 0]
IdleWorker == [pc |-> "idle", file |-> NoFile, doc |-> NoDoc, owner |-> 0,
               service |-> NoService, task |-> 0, elems |-> NoDoc,
               signal |-> "none"]

HasCkpt(f) == ckpt[f].task # 0

\* buildOwnedRunningJobCondition: the fence of every write of a lease holder.
Owned(w) == LET j == job[wk[w].file] IN
    j.state = "running" /\ j.owner = wk[w].owner /\ j.live
\* The same row without the lease check, as getJob lets a worker see it.
Holds(w) == LET j == job[wk[w].file] IN
    j.state = "running" /\ j.owner = wk[w].owner
\* buildAvailableJobCondition
Available(f) == job[f].state # "running" \/ ~job[f].live
\* buildDueJobCondition
Due(f) == \/ job[f].state = "pending" /\ job[f].due
          \/ job[f].state = "running" /\ ~job[f].live

\* Worker records.
At(r, p) == [r EXCEPT !.pc = p]
With(r, p, s, t) == [r EXCEPT !.pc = p, !.service = s, !.task = t]
\* Everything after a phase, error or not, uses the file, the lease owner and the
\* abort signal only; the elements of a conversion are all it leaves behind.
Left(r, p, e, sig) == [IdleWorker EXCEPT !.pc = p, !.file = r.file,
                           !.owner = r.owner, !.elems = e, !.signal = sig]
Signalled(r, sig) == [r EXCEPT !.signal = sig]

GoTo(w, p) == [wk EXCEPT ![w] = At(wk[w], p)]
Leave(w, p) == [wk EXCEPT ![w] = Left(wk[w], p, NoDoc, wk[w].signal)]
GoIdle(w) == [wk EXCEPT ![w] = IdleWorker]

\* Job rows.
Controlled(j, c) == [j EXCEPT !.control = c]
Expired(j) == [j EXCEPT !.live = FALSE]
\* Fault: the release leaves the control column alone.
UnsettledControl(f) == job[f].control
\* settleControlStateSql: a released job honours a pause that has no remote part.
SettledControl(f) ==
    IF job[f].control = "pause_requested" /\ ~HasCkpt(f)
    THEN "paused" ELSE job[f].control

-----------------------------------------------------------------------------
(* Preparing a job: uploads, CLI ingestion and reindexing. *)

\* buildResetJob: a fresh generation; the Docling columns are the caller's affair.
ResetJob(j, d, s) ==
    [j EXCEPT !.state = "pending", !.phase = "discovered", !.control = "active",
              !.owner = 0, !.live = FALSE, !.due = TRUE, !.attempts = 0,
              !.doc = d, !.gen = gens + 1, !.elems = NoDoc, !.service = s]
\* Fault: an expired lease is not taken from its owner.
ResumedUnderLease(j) == [j EXCEPT !.state = "pending", !.control = "active",
                                  !.due = TRUE, !.attempts = 0]
\* resumeIngestion: the row goes on from its phase.
Resumed(j) == [j EXCEPT !.state = "pending", !.control = "active", !.owner = 0,
                        !.live = FALSE, !.due = TRUE, !.attempts = 0]
\* A CLI ingestion that has decided what to do with file f and content d.
Deciding(p, f, d) == [IdleWorker EXCEPT !.pc = p, !.file = f, !.doc = d]

\* Fault: the replaced upload keeps the Docling state of the failed one.
UploadKeepingTask(f, d) ==
    /\ gens < MaxGens
    /\ job[f].state \in {"absent", "failed"}
    /\ job[f].state = "absent" => indexed[f].doc # d
    /\ job' = [job EXCEPT ![f] = ResetJob(@, d, @.service)]
    /\ gens' = gens + 1
    /\ UNCHANGED <<ckpt, indexed, remote, acks, wk, claims, tasks>>

\* prepareUploadedIngestion for the file's own candidate: a job that is not
\* failed answers busy or already-processing, an identical published document
\* without a job answers duplicate, everything else starts a generation.
Upload(f, d) ==
    /\ gens < MaxGens
    /\ job[f].state \in {"absent", "failed"}
    /\ job[f].state = "absent" => indexed[f].doc # d
    /\ job' = [job EXCEPT ![f] = ResetJob(@, d, NoService)]
    /\ ckpt' = [ckpt EXCEPT ![f] = NoCkpt]
    /\ gens' = gens + 1
    /\ UNCHANGED <<indexed, remote, acks, wk, claims, tasks>>

\* prepareSourceIngestion decides from reads made before its transactions.  A
\* published document without a job only has its tags updated.
PrepareRead(c, f, d, force) ==
    /\ wk[c].pc = "idle"
    /\ ~(~force /\ indexed[f].doc = d /\ job[f].state = "absent")
    /\ LET decision ==
             IF ~force /\ indexed[f].doc = d THEN "skip"
             ELSE IF ~force /\ job[f].doc = d THEN "resume" ELSE "reset"
       IN wk' = [wk EXCEPT ![c] = Deciding(decision, f, d)]
    /\ UNCHANGED <<job, ckpt, indexed, remote, acks, claims, tasks, gens>>

\* Fault: the checkpoint does not go with the job.
PrepareSkipKeepingTask(c) == LET f == wk[c].file IN
    /\ wk[c].pc = "skip"
    /\ job' = IF job[f].state # "absent" /\ Available(f)
              THEN [job EXCEPT ![f] = NoJob] ELSE job
    /\ wk' = GoIdle(c)
    /\ UNCHANGED <<ckpt, indexed, remote, acks, claims, tasks, gens>>

\* The skip path removes a queued job of an already published document.
PrepareSkip(c) == LET f == wk[c].file IN
    /\ wk[c].pc = "skip"
    /\ IF job[f].state # "absent" /\ Available(f)
       THEN /\ job' = [job EXCEPT ![f] = NoJob]
            /\ ckpt' = [ckpt EXCEPT ![f] = NoCkpt]
       ELSE UNCHANGED <<job, ckpt>>
    /\ wk' = GoIdle(c)
    /\ UNCHANGED <<indexed, remote, acks, claims, tasks, gens>>

\* resumeIngestion
PrepareResume(c) == LET f == wk[c].file IN
    /\ wk[c].pc = "resume"
    /\ IF job[f].state # "absent" /\ Available(f)
       THEN /\ job' = [job EXCEPT ![f] = Resumed(@)]
            /\ wk' = Leave(c, "prepared")
       ELSE job' = job /\ wk' = GoIdle(c)
    /\ UNCHANGED <<ckpt, indexed, remote, acks, claims, tasks, gens>>

\* resetIngestion keeps the checkpoint and the Docling assignment of the row.
PrepareReset(c) == LET f == wk[c].file IN
    /\ wk[c].pc = "reset"
    /\ gens < MaxGens
    /\ IF Available(f)
       THEN /\ job' = [job EXCEPT ![f] = ResetJob(@, wk[c].doc, @.service)]
            /\ gens' = gens + 1
            /\ wk' = Leave(c, "prepared")
       ELSE /\ UNCHANGED <<job, gens>>
            /\ wk' = GoIdle(c)
    /\ UNCHANGED <<ckpt, indexed, remote, acks, claims, tasks>>

-----------------------------------------------------------------------------
(* Claiming. *)

\* Where processClaimedJob starts, given the phase in the claimed row.
FirstStep(j) ==
    CASE j.phase = "normalized" -> "index"
      [] j.phase = "indexed" -> "promote"
      [] j.phase = "discovered" /\ j.doc \in PlainText -> "store"
      [] OTHER -> "assign"

Leased(j, o) == [j EXCEPT !.state = "running", !.live = TRUE, !.owner = o]
\* What a worker remembers of the row it claimed, as far as its phase uses it.
Claimant(j, f, o) ==
    [IdleWorker EXCEPT !.pc = FirstStep(j), !.file = f, !.owner = o,
        !.doc = IF FirstStep(j) = "assign" THEN j.doc ELSE NoDoc,
        !.elems = IF FirstStep(j) = "store" THEN j.doc ELSE NoDoc]

\* The update of claimNextMatchingJob and claimSpecificJob.
Claim(w, f) ==
    /\ claims < MaxClaims
    /\ claims' = claims + 1
    /\ job' = [job EXCEPT ![f] = Leased(@, claims + 1)]
    /\ wk' = [wk EXCEPT ![w] = Claimant(job[f], f, claims + 1)]
    /\ UNCHANGED <<ckpt, indexed, remote, acks, tasks, gens>>

\* Fault: the claim query forgets the control state.
ClaimNextAnyControl(w, f) ==
    /\ wk[w].pc = "idle"
    /\ Due(f)
    /\ Claim(w, f)

\* claimNextNonDoclingJob and claimNextDoclingJob: a due job under no control.
ClaimNext(w, f) ==
    /\ wk[w].pc = "idle"
    /\ Due(f) /\ job[f].control = "active"
    /\ Claim(w, f)

\* claimSpecificJob, for the one file a CLI ingestion prepared: plain text is
\* claimed without looking at the control state, Docling work is not.
ClaimSpecific(c) == LET f == wk[c].file IN
    /\ wk[c].pc = "prepared"
    /\ job[f].state = "pending" /\ job[f].due /\ job[f].phase = "discovered"
    /\ job[f].doc \notin PlainText => job[f].control = "active"
    /\ Claim(c, f)

-----------------------------------------------------------------------------
(* Normalisation through Docling. *)

Assigned(j, s) == [j EXCEPT !.service = s]

\* Fault: a job without an assignment may pick any service.
EnsureUnpinnedAssignment(w, s) == LET f == wk[w].file IN
    /\ wk[w].pc = "assign"
    /\ Owned(w) /\ job[f].phase = "discovered"
    /\ job[f].service # NoService => s = job[f].service
    /\ job' = [job EXCEPT ![f] = Assigned(@, s)]
    /\ wk' = [wk EXCEPT ![w] = With(@, "open", s, 0)]
    /\ UNCHANGED <<ckpt, indexed, remote, acks, claims, tasks, gens>>

\* ensureAssignment: an assigned service is kept, a checkpoint pins its service.
EnsureAssignment(w, s) == LET f == wk[w].file IN
    /\ wk[w].pc = "assign"
    /\ Owned(w) /\ job[f].phase = "discovered"
    /\ IF job[f].service # NoService THEN s = job[f].service
       ELSE HasCkpt(f) => s = ckpt[f].service
    /\ job' = [job EXCEPT ![f] = Assigned(@, s)]
    /\ wk' = [wk EXCEPT ![w] = With(@, "open", s, 0)]
    /\ UNCHANGED <<ckpt, indexed, remote, acks, claims, tasks, gens>>

\* readDoclingTaskCheckpoint and prepareDoclingTask: resume the saved task, or
\* make up a new task id, which is recorded before Docling hears of it.
OpenTask(w) == LET f == wk[w].file IN
    /\ wk[w].pc = "open"
    /\ IF Owned(w) /\ HasCkpt(f)
       THEN /\ wk' = IF ckpt[f].service = wk[w].service
                     THEN [wk EXCEPT ![w] =
                              With(@, "resume_task", @.service, ckpt[f].task)]
                     ELSE Leave(w, "catch")
            /\ tasks' = tasks
       ELSE /\ tasks < MaxTasks
            /\ tasks' = tasks + 1
            /\ wk' = [wk EXCEPT ![w] = With(@, "record", @.service, tasks + 1)]
    /\ UNCHANGED <<job, ckpt, indexed, remote, acks, claims, gens>>

\* recordDoclingTaskCheckpoint
RecordTask(w) == LET f == wk[w].file IN
    /\ wk[w].pc = "record"
    /\ IF /\ Owned(w) /\ job[f].phase = "discovered"
          /\ job[f].service = wk[w].service /\ ~HasCkpt(f)
       THEN /\ ckpt' = [ckpt EXCEPT ![f] = [task |-> wk[w].task,
                                            service |-> wk[w].service]]
            /\ wk' = GoTo(w, "submit")
       ELSE ckpt' = ckpt /\ wk' = Leave(w, "catch")
    /\ UNCHANGED <<job, indexed, remote, acks, claims, tasks, gens>>

\* A resumed task is submitted again when its page ranges resume; otherwise the
\* worker only asks for its status.
ResumeTask(w) ==
    /\ wk[w].pc = "resume_task"
    /\ wk' = GoTo(w, IF wk[w].doc \in RestartTask THEN "watch" ELSE "submit")
    /\ UNCHANGED <<job, ckpt, indexed, remote, acks, claims, tasks, gens>>

\* Uploading the content and posting the conversion.  Docling answers a task id
\* it already uses for another content with a conflict; it starts a task it does
\* not know, restarts a paused or failed range task and otherwise reports the
\* task as it is.
SubmitTask(w) == LET t == wk[w].task IN
    /\ wk[w].pc = "submit"
    /\ IF remote[t].doc \notin {NoDoc, wk[w].doc}
       THEN remote' = remote /\ wk' = Leave(w, "catch")
       ELSE /\ remote' = IF \/ remote[t].status = "unknown"
                            \/ /\ wk[w].doc \notin RestartTask
                               /\ remote[t].status \in
                                     {"paused", "failed", "terminated"}
                         THEN [remote EXCEPT ![t] = [status |-> "active",
                                                     doc |-> wk[w].doc]]
                         ELSE remote
            /\ wk' = GoTo(w, "watch")
    /\ UNCHANGED <<job, ckpt, indexed, acks, claims, tasks, gens>>

\* watchTaskStatus and the result request: success yields the elements of
\* whatever content the task converted.
FetchResult(w) == LET t == wk[w].task IN
    /\ wk[w].pc = "watch"
    /\ remote[t].status = "done"
    /\ wk' = [wk EXCEPT ![w] = Left(@, "store", remote[t].doc, @.signal)]
    /\ UNCHANGED <<job, ckpt, indexed, remote, acks, claims, tasks, gens>>

\* A task Docling no longer knows, or one that ended badly.  Range tasks are
\* submitted again or keep their checkpoint for the retry; other tasks are
\* cleared so that the retry starts a new one (shouldClearTask).
TaskEnded(w) == LET t == wk[w].task IN
    /\ wk[w].pc = "watch"
    /\ remote[t].status \in {"unknown", "failed", "terminated"}
    /\ wk' = IF wk[w].doc \in RestartTask THEN GoTo(w, "clear")
             ELSE IF remote[t].status = "unknown" THEN GoTo(w, "submit")
             ELSE Leave(w, "catch")
    /\ UNCHANGED <<job, ckpt, indexed, remote, acks, claims, tasks, gens>>

\* Deadline or rejected response: the task is terminated, then cleared.
TerminateTask(w) == LET t == wk[w].task IN
    /\ wk[w].pc = "watch"
    /\ remote[t].status # "unknown"
    /\ remote' = [remote EXCEPT ![t] = [status |-> "terminated", doc |-> @.doc]]
    /\ wk' = GoTo(w, "clear")
    /\ UNCHANGED <<job, ckpt, indexed, acks, claims, tasks, gens>>

\* clearDoclingTaskCheckpoint; whatever it answers, the conversion has failed.
ClearTask(w) == LET f == wk[w].file IN
    /\ wk[w].pc = "clear"
    /\ ckpt' = IF /\ Owned(w) /\ job[f].service = wk[w].service
                  /\ ckpt[f] = [task |-> wk[w].task, service |-> wk[w].service]
               THEN [ckpt EXCEPT ![f] = NoCkpt] ELSE ckpt
    /\ wk' = Leave(w, "catch")
    /\ UNCHANGED <<job, indexed, remote, acks, claims, tasks, gens>>

Normalized(j, e) == [j EXCEPT !.phase = "normalized", !.attempts = 0,
                              !.due = TRUE, !.elems = e, !.service = NoService]

\* completeNormalization
CompleteNormalization(w) == LET f == wk[w].file IN
    /\ wk[w].pc = "store"
    /\ IF Owned(w) /\ job[f].phase = "discovered"
       THEN /\ job' = [job EXCEPT ![f] = Normalized(@, wk[w].elems)]
            /\ ckpt' = [ckpt EXCEPT ![f] = NoCkpt]
            /\ wk' = Leave(w, "advance")
       ELSE UNCHANGED <<job, ckpt>> /\ wk' = Leave(w, "catch")
    /\ UNCHANGED <<indexed, remote, acks, claims, tasks, gens>>

-----------------------------------------------------------------------------
(* Indexing and publication. *)

\* readAdvancedRunningJob
ReadAdvanced(w) == LET j == job[wk[w].file] IN
    /\ wk[w].pc = "advance"
    /\ wk' = IF Holds(w) /\ j.phase # "discovered" /\ j.control \notin Requested
             THEN GoTo(w, FirstStep(j))
             ELSE Leave(w, "catch")
    /\ UNCHANGED <<job, ckpt, indexed, remote, acks, claims, tasks, gens>>

FullyIndexed(j) == [j EXCEPT !.phase = "indexed", !.attempts = 0, !.due = TRUE]

\* completeIndexing, once every batch of the generation is staged.
CompleteIndexing(w) == LET f == wk[w].file IN
    /\ wk[w].pc = "index"
    /\ IF Owned(w) /\ job[f].phase = "normalized"
       THEN /\ job' = [job EXCEPT ![f] = FullyIndexed(@)]
            /\ wk' = Leave(w, "advance")
       ELSE job' = job /\ wk' = Leave(w, "catch")
    /\ UNCHANGED <<ckpt, indexed, remote, acks, claims, tasks, gens>>

\* Fault: a generation is published whatever was requested meanwhile.
PromoteAnyControl(w) == LET f == wk[w].file IN
    /\ wk[w].pc = "promote"
    /\ IF Owned(w) /\ job[f].phase = "indexed"
       THEN /\ indexed' = [indexed EXCEPT ![f] =
                   [version |-> @.version + 1, doc |-> job[f].doc,
                    elems |-> job[f].elems, gen |-> job[f].gen]]
            /\ job' = [job EXCEPT ![f] = NoJob]
            /\ ckpt' = [ckpt EXCEPT ![f] = NoCkpt]
            /\ wk' = GoIdle(w)
       ELSE UNCHANGED <<job, ckpt, indexed>> /\ wk' = Leave(w, "catch")
    /\ UNCHANGED <<remote, acks, claims, tasks, gens>>

\* Fault: the job outlives its publication.
PromoteKeepingJob(w) == LET f == wk[w].file IN
    /\ wk[w].pc = "promote"
    /\ IF Owned(w) /\ job[f].phase = "indexed" /\ job[f].control = "active"
       THEN /\ indexed' = [indexed EXCEPT ![f] =
                   [version |-> @.version + 1, doc |-> job[f].doc,
                    elems |-> job[f].elems, gen |-> job[f].gen]]
            /\ wk' = GoIdle(w)
       ELSE UNCHANGED indexed /\ wk' = Leave(w, "catch")
    /\ UNCHANGED <<job, ckpt, remote, acks, claims, tasks, gens>>

\* promoteJob: publish the generation and delete the job, or roll back.
Promote(w) == LET f == wk[w].file IN
    /\ wk[w].pc = "promote"
    /\ IF Owned(w) /\ job[f].phase = "indexed" /\ job[f].control = "active"
       THEN /\ indexed' = [indexed EXCEPT ![f] =
                   [version |-> @.version + 1, doc |-> job[f].doc,
                    elems |-> job[f].elems, gen |-> job[f].gen]]
            /\ job' = [job EXCEPT ![f] = NoJob]
            /\ ckpt' = [ckpt EXCEPT ![f] = NoCkpt]
            /\ wk' = GoIdle(w)
       ELSE UNCHANGED <<job, ckpt, indexed>> /\ wk' = Leave(w, "catch")
    /\ UNCHANGED <<remote, acks, claims, tasks, gens>>

-----------------------------------------------------------------------------
(* Interruptions and failures of a running phase. *)

Running == {"assign", "open", "record", "resume_task", "submit", "watch",
            "clear", "store", "advance", "index", "promote"}

\* The lease heartbeat and the control poll beside a running phase: the signal
\* aborts the phase, which notices it at its next check (Fault).
Heartbeat(w) ==
    /\ wk[w].pc \in Running \cup {"catch"} /\ wk[w].signal = "none"
    /\ \/ ~Owned(w) /\ wk' = [wk EXCEPT ![w] = Signalled(@, "lost")]
       \/ /\ Owned(w) /\ job[wk[w].file].control \in Requested
          /\ wk' = [wk EXCEPT ![w] = Signalled(@, "control")]
    /\ UNCHANGED <<job, ckpt, indexed, remote, acks, claims, tasks, gens>>

\* A step throws: an abort signal, a refused write, a remote error, no capacity.
Fault(w) ==
    /\ wk[w].pc \in Running
    /\ wk' = Leave(w, "catch")
    /\ UNCHANGED <<job, ckpt, indexed, remote, acks, claims, tasks, gens>>

HandTo(w, p) == [wk EXCEPT ![w] = Left(wk[w], p, NoDoc, "none")]

\* The catch block of processClaimedJob: the heartbeat's verdict first, then the
\* control signal, then shutdown, then a fresh look at the job, and only then
\* capacity, stale settings (both release) or a counted failure.
Catch(w) ==
    /\ wk[w].pc = "catch"
    /\ CASE wk[w].signal = "lost" -> wk' = GoIdle(w)
         [] wk[w].signal = "control" -> wk' = HandTo(w, "settle")
         [] OTHER ->
              \/ wk' = HandTo(w, "release")
              \/ /\ Holds(w) /\ job[wk[w].file].control \in Requested
                 /\ wk' = HandTo(w, "settle")
              \/ /\ ~(Holds(w) /\ job[wk[w].file].control \in Requested)
                 /\ wk' = HandTo(w, "fail")
    /\ UNCHANGED <<job, ckpt, indexed, remote, acks, claims, tasks, gens>>

\* The assignment outlives the attempt while a checkpoint needs it, or while the
\* metrics run of the conversion is incomplete (keep).
ReleasedService(f, keep) ==
    IF HasCkpt(f) \/ keep THEN job[f].service ELSE NoService

\* Fault: the lease expiry survives the release.
ReleasedKeepingExpiry(j, due, c, s) ==
    [j EXCEPT !.state = "pending", !.owner = 0, !.due = due,
              !.control = c, !.service = s]
Released(j, due, c, s) ==
    [j EXCEPT !.state = "pending", !.owner = 0, !.live = FALSE, !.due = due,
              !.control = c, !.service = s]
Failed(j, c, s) ==
    [j EXCEPT !.state = IF j.attempts + 1 < MaxAttempts THEN "pending" ELSE "failed",
              !.owner = 0, !.live = FALSE, !.due = FALSE,
              !.attempts = j.attempts + 1, !.control = c, !.service = s]

\* releaseJob
Release(w, due, keep) == LET f == wk[w].file IN
    /\ wk[w].pc = "release"
    /\ job' = IF ~Owned(w) THEN job
              ELSE [job EXCEPT ![f] = Released(@, due, SettledControl(f),
                                              ReleasedService(f, keep))]
    /\ wk' = GoIdle(w)
    /\ UNCHANGED <<ckpt, indexed, remote, acks, claims, tasks, gens>>

\* Fault: the failure is counted on the row as read, not on the row as owned.
MarkFailedUnfenced(w, keep) == LET f == wk[w].file IN
    /\ wk[w].pc = "fail"
    /\ job' = IF ~Holds(w) THEN job
              ELSE [job EXCEPT ![f] = Failed(@, SettledControl(f),
                                            ReleasedService(f, keep))]
    /\ wk' = GoIdle(w)
    /\ UNCHANGED <<ckpt, indexed, remote, acks, claims, tasks, gens>>

\* markJobFailed
MarkFailed(w, keep) == LET f == wk[w].file IN
    /\ wk[w].pc = "fail"
    /\ job' = IF ~Owned(w) THEN job
              ELSE [job EXCEPT ![f] = Failed(@, SettledControl(f),
                                            ReleasedService(f, keep))]
    /\ wk' = GoIdle(w)
    /\ UNCHANGED <<ckpt, indexed, remote, acks, claims, tasks, gens>>

\* Fault: a control state that no reader of the column knows.
ControlSettledAsCancelled(j) ==
    [j EXCEPT !.state = "pending", !.owner = 0, !.live = FALSE,
        !.service = NoService,
        !.control = IF @ = "pause_requested" THEN "paused" ELSE "cancelled"]
\* A requested control takes effect: no lease, no Docling assignment.
ControlSettled(j) ==
    [j EXCEPT !.state = "pending", !.owner = 0, !.live = FALSE,
        !.service = NoService,
        !.control = IF @ = "pause_requested" THEN "paused" ELSE @]

\* settleOwnedControl
SettleOwned(w) == LET f == wk[w].file IN
    /\ wk[w].pc = "settle"
    /\ job' = IF Owned(w) /\ job[f].control \in Requested /\ ~HasCkpt(f)
              THEN [job EXCEPT ![f] = ControlSettled(@)] ELSE job
    /\ wk' = GoIdle(w)
    /\ UNCHANGED <<ckpt, indexed, remote, acks, claims, tasks, gens>>

\* The process stops anywhere; the database keeps what was committed.
Crash(w) ==
    /\ wk[w].pc # "idle"
    /\ wk' = GoIdle(w)
    /\ UNCHANGED <<job, ckpt, indexed, remote, acks, claims, tasks, gens>>

-----------------------------------------------------------------------------
(* Users and reconcilers. *)

ControlOnly == UNCHANGED <<ckpt, indexed, remote, acks, wk, claims, tasks, gens>>

\* readRequestedControlState for a pause
RequestPause(f) ==
    /\ job[f].state \in {"pending", "running"} /\ job[f].control = "active"
    /\ job' = [job EXCEPT ![f] = Controlled(@,
                  IF @.state = "running" THEN "pause_requested" ELSE "paused")]
    /\ ControlOnly

\* A cancellation takes precedence over every other control state.
RequestCancel(f) ==
    /\ job[f].state # "absent" /\ job[f].control # "cancel_requested"
    /\ job' = [job EXCEPT ![f] = Controlled(@, "cancel_requested")]
    /\ ControlOnly

\* resumePausedJob
ResumePaused(f) ==
    /\ job[f].state = "pending" /\ job[f].control = "paused"
    /\ job' = [job EXCEPT ![f] = Controlled(@, "active")]
    /\ ControlOnly

Retried(j) == [j EXCEPT !.state = "pending", !.due = TRUE,
                        !.control = "active", !.attempts = 0]

\* retryFailedJob
RetryFailed(f) ==
    /\ job[f].state = "failed"
    /\ job' = [job EXCEPT ![f] = Retried(@)]
    /\ ControlOnly

\* Fault: only cancellations are settled for a dead worker.
SettleExpiredCancels(f) ==
    /\ job[f].state = "running" /\ ~job[f].live
    /\ job[f].control = "cancel_requested" /\ ~HasCkpt(f)
    /\ job' = [job EXCEPT ![f] = ControlSettled(@)]
    /\ ControlOnly

\* settleExpiredControls, run before every claim
SettleExpired(f) ==
    /\ job[f].state = "running" /\ ~job[f].live
    /\ job[f].control \in Requested /\ ~HasCkpt(f)
    /\ job' = [job EXCEPT ![f] = ControlSettled(@)]
    /\ ControlOnly

\* executeIngestionControlTask: Docling pauses range tasks it still knows and
\* terminates everything else; the outcome is acknowledged later, if at all.
ExecuteControl(f) == LET t == ckpt[f].task IN
    /\ HasCkpt(f) /\ job[f].control \in Requested
    /\ LET pause == /\ job[f].control = "pause_requested"
                    /\ remote[t].status # "unknown"
                    /\ remote[t].doc \notin RestartTask
       IN /\ acks' = acks \cup {[file |-> f, task |-> t,
                                 service |-> ckpt[f].service,
                                 outcome |-> IF pause THEN "paused" ELSE "terminated"]}
          /\ remote' = IF remote[t].status \in {"active", "paused"}
                       THEN [remote EXCEPT ![t] = [doc |-> @.doc, status |->
                                IF pause THEN "paused" ELSE "terminated"]]
                       ELSE remote
    /\ UNCHANGED <<job, ckpt, indexed, wk, claims, tasks, gens>>

\* acknowledgeDoclingTaskControl
AckControl(a) == LET f == a.file IN
    /\ acks' = acks \ {a}
    /\ LET mine == ckpt[f] = [task |-> a.task, service |-> a.service]
           retain == job[f].control = "pause_requested" /\ a.outcome = "paused"
       IN IF \/ job[f].control \notin Requested
             \/ job[f].control = "cancel_requested" /\ a.outcome # "terminated"
             \/ ~mine /\ (HasCkpt(f) \/ retain)
          THEN UNCHANGED <<job, ckpt>>
          ELSE /\ ckpt' = IF retain THEN ckpt ELSE [ckpt EXCEPT ![f] = NoCkpt]
               /\ job' = IF retain \/ Available(f)
                         THEN [job EXCEPT ![f] = ControlSettled(@)] ELSE job
    /\ UNCHANGED <<indexed, remote, wk, claims, tasks, gens>>

\* Fault: a failed job is not considered for cleanup.
FinalizePendingCancellation(f) ==
    /\ job[f].state = "pending" /\ ~HasCkpt(f)
    /\ job[f].control = "cancel_requested"
    /\ job' = [job EXCEPT ![f] = NoJob]
    /\ ControlOnly

\* finalizeIngestionCancellation
FinalizeCancellation(f) ==
    /\ job[f].state \in {"pending", "failed"} /\ ~HasCkpt(f)
    /\ job[f].control = "cancel_requested"
    /\ job' = [job EXCEPT ![f] = NoJob]
    /\ ControlOnly

\* deleteIndexedDocumentWithRuntime: refused while a job is not failed
DeleteDocument(f) ==
    /\ job[f].state \in {"absent", "failed"}
    /\ indexed[f] # NotIndexed \/ job[f].state = "failed"
    /\ job' = [job EXCEPT ![f] = NoJob]
    /\ ckpt' = [ckpt EXCEPT ![f] = NoCkpt]
    /\ indexed' = [indexed EXCEPT ![f] = NotIndexed]
    /\ UNCHANGED <<remote, acks, wk, claims, tasks, gens>>

-----------------------------------------------------------------------------
(* Time and the Docling services. *)

ExpireLease(f) ==
    /\ job[f].state = "running" /\ job[f].live
    /\ job' = [job EXCEPT ![f] = Expired(@)]
    /\ ControlOnly

DueNow(j) == [j EXCEPT !.due = TRUE]
BecomeDue(f) ==
    /\ job[f].state = "pending" /\ ~job[f].due
    /\ job' = [job EXCEPT ![f] = DueNow(@)]
    /\ ControlOnly

\* A conversion ends.
RemoteEnds(t, status) ==
    /\ remote[t].status = "active"
    /\ remote' = [remote EXCEPT ![t] = [status |-> status, doc |-> @.doc]]
    /\ UNCHANGED <<job, ckpt, indexed, acks, wk, claims, tasks, gens>>

\* The service restarts and forgets its tasks, except that the page ranges of a
\* task that was not terminated stay on disk with the content they belong to.
RemoteForgets(t) ==
    /\ remote[t].status # "unknown"
    /\ remote' = [remote EXCEPT ![t] = [status |-> "unknown", doc |->
          IF @.doc \in RestartTask \/ @.status = "terminated" THEN NoDoc ELSE @.doc]]
    /\ UNCHANGED <<job, ckpt, indexed, acks, wk, claims, tasks, gens>>

\* A reconciler dies between the remote call and its acknowledgement.
LoseAck(a) ==
    /\ acks' = acks \ {a}
    /\ UNCHANGED <<job, ckpt, indexed, remote, wk, claims, tasks, gens>>

-----------------------------------------------------------------------------
Init ==
    /\ job = [f \in Files |-> NoJob]
    /\ ckpt = [f \in Files |-> NoCkpt]
    /\ indexed = [f \in Files |-> NotIndexed]
    /\ remote = [t \in TaskIds |-> [status |-> "unknown", doc |-> NoDoc]]
    /\ acks = {}
    /\ wk = [w \in Workers |-> IdleWorker]
    /\ claims = 0 /\ tasks = 0 /\ gens = 0

ClientStep ==
    \/ \E f \in Files, d \in Docs : Upload(f, d)
    \/ \E c \in Clis, f \in Files, d \in Docs, force \in BOOLEAN :
          PrepareRead(c, f, d, force)
    \/ \E c \in Clis : PrepareSkip(c) \/ PrepareResume(c) \/ PrepareReset(c)
    \/ \E f \in Files : RequestPause(f) \/ RequestCancel(f) \/ ResumePaused(f)
                        \/ RetryFailed(f) \/ DeleteDocument(f)

WorkStep(w) ==
    \/ \E s \in Services : EnsureAssignment(w, s)
    \/ OpenTask(w) \/ RecordTask(w) \/ ResumeTask(w) \/ SubmitTask(w)
    \/ FetchResult(w) \/ TaskEnded(w) \/ TerminateTask(w) \/ ClearTask(w)
    \/ CompleteNormalization(w) \/ ReadAdvanced(w) \/ CompleteIndexing(w)
    \/ Promote(w)

SettleStep(w) ==
    \/ Fault(w) \/ Catch(w) \/ SettleOwned(w)
    \/ \E due \in BOOLEAN, keep \in BOOLEAN : Release(w, due, keep)
    \/ \E keep \in BOOLEAN : MarkFailed(w, keep)

WorkerStep ==
    \/ \E w \in Daemons, f \in Files : ClaimNext(w, f)
    \/ \E c \in Clis : ClaimSpecific(c)
    \/ \E w \in Workers : WorkStep(w) \/ SettleStep(w) \/ Heartbeat(w) \/ Crash(w)

ReconcileStep ==
    \/ \E f \in Files : SettleExpired(f) \/ ExecuteControl(f)
                        \/ FinalizeCancellation(f)
    \/ \E a \in acks : AckControl(a) \/ LoseAck(a)

EnvironmentStep ==
    \/ \E f \in Files : ExpireLease(f) \/ BecomeDue(f)
    \/ \E t \in TaskIds, status \in {"done", "failed"} : RemoteEnds(t, status)
    \/ \E t \in TaskIds : RemoteForgets(t)

Next == ClientStep \/ WorkerStep \/ ReconcileStep \/ EnvironmentStep

Spec == Init /\ [][Next]_vars

\* Fairness.  A live process runs its heartbeat and control poll, obeys the abort
\* signal and finishes its catch block; a lease nobody holds runs out; the
\* reconcilers poll for ever.  They may die between a remote call and its
\* acknowledgement, but not every time (SF).  No progress of conversions,
\* indexing or claims is assumed.
Fairness ==
    /\ \A w \in Workers :
          /\ WF_vars(Heartbeat(w))
          /\ WF_vars(wk[w].signal # "none" /\ Fault(w))
          /\ WF_vars(Catch(w)) /\ WF_vars(SettleOwned(w))
          /\ WF_vars(\E due \in BOOLEAN, keep \in BOOLEAN : Release(w, due, keep))
          /\ WF_vars(\E keep \in BOOLEAN : MarkFailed(w, keep))
    /\ \A f \in Files :
          /\ WF_vars((\A w \in Workers : wk[w].file # f) /\ ExpireLease(f))
          /\ WF_vars(SettleExpired(f)) /\ WF_vars(ExecuteControl(f))
          /\ WF_vars(FinalizeCancellation(f))
    /\ \A f \in Files, t \in TaskIds, s \in Services, o \in {"paused", "terminated"} :
          LET a == [file |-> f, task |-> t, service |-> s, outcome |-> o]
          IN SF_vars(a \in acks /\ AckControl(a))

FairSpec == Spec /\ Fairness

-----------------------------------------------------------------------------
(* Properties. *)

JobStates == {"absent", "pending", "running", "failed"}
Phases == {"discovered", "normalized", "indexed"}
ControlStates == {"active", "pause_requested", "paused", "cancel_requested"}
Outcomes == {"paused", "terminated"}
RemoteStatuses == {"unknown", "active", "paused", "done", "failed", "terminated"}
AnyFile == Files \cup {NoFile}
AnyDoc == Docs \cup {NoDoc}
AnyService == Services \cup {NoService}
AnyTask == TaskIds \cup {0}
Positions == Running \cup {"idle", "skip", "resume", "reset", "prepared",
                           "catch", "settle", "release", "fail"}
Signals == {"none", "lost", "control"}

Job == [state : JobStates, phase : Phases, control : ControlStates, owner : Nat,
        live : BOOLEAN, due : BOOLEAN, attempts : Nat, doc : AnyDoc, gen : Nat,
        elems : AnyDoc, service : AnyService]
Checkpoint == [task : AnyTask, service : AnyService]
Published == [version : Nat, doc : AnyDoc, elems : AnyDoc, gen : Nat]
RemoteTask == [status : RemoteStatuses, doc : AnyDoc]
Ack == [file : Files, task : TaskIds, service : AnyService, outcome : Outcomes]
Worker == [pc : Positions, file : AnyFile, doc : AnyDoc, owner : Nat,
           service : AnyService, task : AnyTask, elems : AnyDoc, signal : Signals]

\* Every variable has its type.
TypeOK ==
    /\ job \in [Files -> Job]
    /\ ckpt \in [Files -> Checkpoint]
    /\ indexed \in [Files -> Published]
    /\ remote \in [TaskIds -> RemoteTask]
    /\ acks \in SUBSET Ack
    /\ wk \in [Workers -> Worker]
    /\ claims \in Nat /\ tasks \in 0 .. MaxTasks /\ gens \in Nat

\* decodeIngestionJob refuses a row whose lease fields contradict its state, so
\* one such row would stop every reader of the queue: exactly the running jobs
\* have an owner, and only they have a lease.
LeaseMatchesState ==
    \A f \in Files : /\ (job[f].owner # 0) <=> (job[f].state = "running")
                     /\ job[f].live => job[f].state = "running"

\* A requested pause is never stranded.  Claims skip it, and only the lease
\* holder, the expiry of its lease or the acknowledgement of its Docling task can
\* settle it, so the job is still running or still has a task checkpoint.
PauseHasExecutor ==
    \A f \in Files : job[f].control = "pause_requested"
                        => job[f].state = "running" \/ HasCkpt(f)

\* A checkpoint exists only for a job whose conversion is unfinished, and while
\* the job has a service it is the one that knows the checkpointed task.
CheckpointPinsService ==
    \A f \in Files : HasCkpt(f) =>
        /\ job[f].state # "absent" /\ job[f].phase = "discovered"
        /\ job[f].service \in {NoService, ckpt[f].service}

\* A paused job is not running: pausing means no process works on it any more.
PausedIsIdle ==
    \A f \in Files : job[f].control = "paused" => job[f].state # "running"

\* The element set of a job, and what is published from it, was converted from
\* the content the job is about, whatever tasks, resets and restarts went before.
ElementsMatchContent ==
    \A f \in Files : /\ job[f].elems \in {NoDoc, job[f].doc}
                     /\ indexed[f].elems = indexed[f].doc

\* What daemons, uploads and users make of the two.  The claim of a CLI ingestion
\* skips the control state, and its preparation replaces content under a worker.
DaemonsKeepOrder == Clis = {} => PausedIsIdle /\ ElementsMatchContent

\* A worker that no longer owns an unexpired lease on its job changes neither the
\* job, nor its checkpoint, nor the published document, however late it acts.
StaleWorkersWriteNothing ==
    [][\A w \in Workers :
          /\ wk'[w] # wk[w]
          /\ wk[w].owner # 0
          /\ ~Owned(w)
          => UNCHANGED <<job, ckpt, indexed>>]_vars

\* What is published only moves forward: a searchable document is replaced by a
\* later generation as its next version, or deleted while no job is in progress.
\* Work that is paused or being cancelled replaces nothing.
PublicationMovesForward ==
    [][\A f \in Files : indexed'[f] # indexed[f] =>
          \/ /\ indexed'[f] = NotIndexed
             /\ job[f].state \in {"absent", "failed"}
          \/ /\ indexed'[f].gen > indexed[f].gen
             /\ indexed'[f].version = indexed[f].version + 1
             /\ job[f].control = "active"]_vars

\* A pause that a user requested takes effect, is overridden by a cancellation, or
\* its job finishes, whatever crashes, lost acknowledgements and Docling restarts
\* happen in between.
PauseSettles ==
    \A f \in Files :
        job[f].control = "pause_requested" ~> job[f].control # "pause_requested"

\* A requested cancellation is carried out: the job goes away, or a user prepares
\* it anew.
CancelSettles ==
    \A f \in Files :
        job[f].control = "cancel_requested" ~> job[f].control # "cancel_requested"

-----------------------------------------------------------------------------
(* The queue implements the library: a job is an order, a publication fills it. *)

Ordered == [f \in Files |-> [doc |-> job[f].doc, gen |-> job[f].gen]]
Shelved == [f \in Files |-> [doc |-> indexed[f].doc, gen |-> indexed[f].gen]]

Library == INSTANCE DocumentLibrary WITH order <- Ordered, shelf <- Shelved

\* Whatever workers, reconcilers and users do, what readers of a file see is one
\* content that was ordered for it, published once, and only while the order stood.
ImplementsLibrary == Library!Spec
=============================================================================
