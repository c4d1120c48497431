------------------------ MODULE DoclingOrchestrator ------------------------
(***************************************************************************)
(* The process orchestrator of CiteLoom's Docling service: the task table, *)
(* its queue, the worker coroutines that convert a task in disposable      *)
(* processes, the page range manifests that survive a restart, and the     *)
(* submit, pause, terminate and delete calls that run beside the workers.  *)
(*                                                                         *)
(* All of it is one asyncio event loop.  _execution_lock is never held     *)
(* across a suspension, so acquiring it never suspends either: an action   *)
(* is everything a coroutine does between two points where it really waits *)
(* (a process to end, an execution to finish, a queue entry, a notifier).  *)
(* A PDF request is converted in ranges of RangeSize pages and then        *)
(* assembled; any other request in one process.                            *)
(***************************************************************************)
EXTENDS Naturals, Sequences

CONSTANTS
    Tasks,          \* task ids, chosen by the client
    Requests,       \* request fingerprints
    PdfRequests,    \* those of tasks that can resume from page ranges
    Workers,        \* worker coroutines (num_workers)
    Callers,        \* control requests being served at the same time
    PageCount,      \* pages of every PDF
    RangeSize,      \* page_range_size
    MaxQueue,       \* bound: entries of task_queue
    NoTask, NoRequest, NoWorker

ASSUME OrchestratorAssumption ==
    /\ PdfRequests \subseteq Requests
    /\ PageCount \in Nat \ {0} /\ RangeSize \in Nat \ {0} /\ MaxQueue \in Nat
    /\ NoTask \notin Tasks /\ NoRequest \notin Requests /\ NoWorker \notin Workers

VARIABLES
    status,         \* self.tasks: the status of each task, or "absent"
    request,        \* the request a task represents
    released,       \* tasks whose source list was emptied
    content,        \* tasks with staged source content on disk
    results,        \* _task_results
    manifest,       \* range manifests, on disk
    pausing,        \* _pause_requests
    terminating,    \* _termination_requests
    queueList,      \* queue_list, the queue as clients see it
    taskQueue,      \* task_queue, the queue as workers see it
    active,         \* _active_executions: the worker whose execution it is
    wk,             \* worker coroutines and their processes
    ctl,            \* control requests waiting for an execution to finish
    wanted          \* auxiliary: submitted, and not stopped by anyone since

vars == <<status, request, released, content, results, manifest, pausing,
          terminating, queueList, taskQueue, active, wk, ctl, wanted>>

Pages == 0 .. PageCount
NoManifest == [request |-> NoRequest, done |-> 0, state |-> "none"]
Manifest(r, d, s) == [request |-> r, done |-> d, state |-> s]
IdleWorker == [pc |-> "idle", task |-> NoTask, kind |-> "none", start |-> 0,
               proc |-> "none", orphan |-> FALSE]
Ready(t) == [pc |-> "ready", task |-> t, kind |-> "none", start |-> 0,
             proc |-> "none", orphan |-> FALSE]
Running(t, kind, start, orphan) ==
    [pc |-> "running", task |-> t, kind |-> kind, start |-> start, proc |-> "alive",
     orphan |-> orphan]
IdleCaller == [pc |-> "idle", task |-> NoTask, exec |-> NoWorker]
WaitForNobody(pc, t) == [pc |-> pc, task |-> t, exec |-> NoWorker]
Waiting(pc, t) == [pc |-> pc, task |-> t, exec |-> active[t]]

Known(t) == status[t] # "absent"
Completed(t) == status[t] \in {"success", "failure"}
Resumable(t) == Known(t) /\ request[t] \in PdfRequests /\ t \notin released
HasManifest(t) == manifest[t] # NoManifest
FullRangeEnd(start) == start + RangeSize
RangeEnd(start) ==
    IF start + RangeSize < PageCount THEN start + RangeSize ELSE PageCount

SetStatus(t, s) == status' = [status EXCEPT ![t] = s]
ManifestIn(t, s) ==
    IF HasManifest(t) THEN [manifest EXCEPT ![t].state = s] ELSE manifest
ReadOrCreate(t, r) == IF HasManifest(t) THEN manifest[t] ELSE Manifest(r, 0, "running")

Init ==
    /\ status = [t \in Tasks |-> "absent"]
    /\ request = [t \in Tasks |-> NoRequest]
    /\ released = {} /\ content = {} /\ results = {}
    /\ manifest = [t \in Tasks |-> NoManifest]
    /\ pausing = {} /\ terminating = {}
    /\ queueList = {} /\ taskQueue = <<>>
    /\ active = [t \in Tasks |-> NoWorker]
    /\ wk = [w \in Workers |-> IdleWorker]
    /\ ctl = [c \in Callers |-> IdleCaller]
    /\ wanted = {}
-----------------------------------------------------------------------------
(* Submission.  The client uploads the source bytes, then submits.          *)

\* An upload first removes content of other tasks that are unknown or
\* completed and older than a day; age is a choice here.
Upload(t) ==
    /\ \E abandoned \in SUBSET {u \in content \ {t} : ~Known(u) \/ Completed(u)} :
          content' = (content \ abandoned) \cup {t}
    /\ UNCHANGED <<status, request, released, results, manifest, pausing,
                   terminating, queueList, taskQueue, active, wk, ctl, wanted>>

ListOnly(t) == queueList' = queueList \cup {t} /\ UNCHANGED taskQueue
Enqueue(t) ==
    /\ queueList' = queueList \cup {t}
    /\ taskQueue' = Append(taskQueue, t)

SubmitNew(t, r) ==
    /\ t \in content /\ ~Known(t) /\ Len(taskQueue) < MaxQueue
    /\ r \in PdfRequests /\ HasManifest(t) => manifest[t].request = r
    /\ manifest' = IF r \in PdfRequests
                   THEN [manifest EXCEPT ![t] = Manifest(r, ReadOrCreate(t, r).done, "running")]
                   ELSE manifest
    /\ SetStatus(t, "pending")
    /\ request' = [request EXCEPT ![t] = r]
    /\ released' = released \ {t}
    /\ Enqueue(t)
    /\ wanted' = wanted \cup {t}
    /\ UNCHANGED <<content, results, pausing, terminating, active, wk, ctl>>

\* The id represents another request: 409, and content nobody needs is removed.
SubmitConflict(t, r) ==
    /\ t \in content
    /\ \/ ~Known(t) /\ r \in PdfRequests /\ HasManifest(t) /\ manifest[t].request # r
       \/ Completed(t) /\ request[t] # r
    /\ content' = content \ {t}
    /\ UNCHANGED <<status, request, released, results, manifest, pausing,
                   terminating, queueList, taskQueue, active, wk, ctl, wanted>>

NeedsResume(t) == Resumable(t) /\ (t \in pausing \/ status[t] = "failure")

SubmitKnown(t, r) ==
    /\ t \in content /\ Known(t) /\ request[t] = r /\ ~NeedsResume(t)
    /\ manifest' = IF Resumable(t) THEN [manifest EXCEPT ![t] = ReadOrCreate(t, r)]
                   ELSE manifest
    /\ content' = IF Completed(t) THEN content \ {t} ELSE content
    /\ wanted' = wanted \cup {t}
    /\ UNCHANGED <<status, request, released, results, pausing, terminating,
                   queueList, taskQueue, active, wk, ctl>>

\* _resume_range_task of a task whose result was assembled while it was paused
ResumeFinished(t, r) ==
    /\ t \in content /\ request[t] = r /\ NeedsResume(t)
    /\ t \in results /\ ReadOrCreate(t, r).done = PageCount
    /\ pausing' = pausing \ {t} /\ terminating' = terminating \ {t}
    /\ manifest' = [manifest EXCEPT ![t] = Manifest(r, PageCount, "succeeded")]
    /\ released' = released \cup {t} /\ content' = content \ {t}
    /\ SetStatus(t, "success")
    /\ wanted' = wanted \cup {t}
    /\ UNCHANGED <<request, results, queueList, taskQueue, active, wk, ctl>>

ResumeRange(t, r) ==
    /\ t \in content /\ request[t] = r /\ NeedsResume(t)
    /\ ~(t \in results /\ ReadOrCreate(t, r).done = PageCount)
    /\ pausing' = pausing \ {t} /\ terminating' = terminating \ {t}
    /\ SetStatus(t, "pending")
    /\ manifest' = [manifest EXCEPT ![t] = Manifest(r, ReadOrCreate(t, r).done, "running")]
    /\ IF t \notin queueList /\ active[t] = NoWorker
       THEN Len(taskQueue) < MaxQueue /\ Enqueue(t)
       ELSE UNCHANGED <<queueList, taskQueue>>
    /\ wanted' = wanted \cup {t}
    /\ UNCHANGED <<request, released, content, results, active, wk, ctl>>
-----------------------------------------------------------------------------
(* Worker coroutines.                                                       *)

\* A worker writes to the Task object it took: after delete_task that is no
\* longer the one in the table, even if the id was submitted again.
Report(w, t, s) == status' = IF wk[w].orphan THEN status ELSE [status EXCEPT ![t] = s]
MarkFailure(w, t) == Report(w, t, IF Completed(t) THEN status[t] ELSE "failure")
ReleaseSources(w, t) ==
    /\ released' = IF wk[w].orphan THEN released ELSE released \cup {t}
    /\ content' = content \ {t}

StartExecution(w, t, kind, start) ==
    /\ wk' = [wk EXCEPT ![w] = Running(t, kind, start, wk[w].orphan)]
    /\ active' = [active EXCEPT ![t] = w]
    /\ Report(w, t, "started")

\* A worker takes the next entry and goes on to its first notification.
Take(w) ==
    /\ wk[w].pc = "idle" /\ taskQueue # <<>>
    /\ LET t == Head(taskQueue) IN
       /\ taskQueue' = Tail(taskQueue) /\ queueList' = queueList \ {t}
       /\ \/ /\ ~Known(t)
             /\ UNCHANGED <<status, manifest, active, wk>>
          \/ /\ Known(t) /\ t \in terminating
             /\ MarkFailure(w, t)
             /\ UNCHANGED <<manifest, active, wk>>
          \/ /\ Resumable(t) /\ t \notin terminating /\ t \in pausing
             /\ Report(w, t, "pending")
             /\ UNCHANGED <<manifest, active, wk>>
          \/ /\ Resumable(t) /\ t \notin terminating /\ t \notin pausing
             /\ HasManifest(t)
             /\ manifest' = ManifestIn(t, "running")
             /\ Report(w, t, "started")
             /\ wk' = [wk EXCEPT ![w] = Ready(t)]
             /\ UNCHANGED active
          \/ /\ Resumable(t) /\ t \notin terminating /\ t \notin pausing
             /\ ~HasManifest(t)
             /\ MarkFailure(w, t)
             /\ UNCHANGED <<manifest, active, wk>>
          \/ /\ Known(t) /\ ~Resumable(t) /\ t \notin terminating
             /\ StartExecution(w, t, "whole", 0)
             /\ UNCHANGED manifest
    /\ UNCHANGED <<request, released, content, results, pausing, terminating, ctl, wanted>>

Kind(done) == IF done = PageCount THEN "assembly" ELSE "range"

\* The loop of _process_resumable_pdf_task up to its first execution.
StartPdf(w) ==
    /\ wk[w].pc = "ready"
    /\ LET t == wk[w].task IN
       \/ /\ ~HasManifest(t)
          /\ MarkFailure(w, t)
          /\ wk' = [wk EXCEPT ![w] = IdleWorker] /\ UNCHANGED active
       \/ /\ HasManifest(t) /\ t \in terminating
          /\ MarkFailure(w, t)
          /\ wk' = [wk EXCEPT ![w] = IdleWorker] /\ UNCHANGED active
       \/ /\ HasManifest(t) /\ t \notin terminating /\ t \in pausing
          /\ Report(w, t, "pending")
          /\ wk' = [wk EXCEPT ![w] = IdleWorker] /\ UNCHANGED active
       \/ /\ HasManifest(t) /\ t \notin terminating /\ t \notin pausing
          /\ StartExecution(w, t, Kind(manifest[t].done), manifest[t].done)
    /\ UNCHANGED <<request, released, content, results, manifest, pausing, terminating,
                   queueList, taskQueue, ctl, wanted>>

\* A control request whose execution finished is in the loop's ready list: it
\* runs before anything the loop has not noticed yet.
Woken(c) == ctl[c].pc # "idle" /\ ctl[c].exec = NoWorker

\* External: a conversion process ends by itself, well or not, or its
\* deadline passes and the supervisor kills it.
ProcessEnds(w) ==
    /\ wk[w].proc = "alive" /\ \A c \in Callers : ~Woken(c)
    /\ \E e \in {"ok", "bad", "timeout"} : wk' = [wk EXCEPT ![w].proc = e]
    /\ UNCHANGED <<status, request, released, content, results, manifest, pausing,
                   terminating, queueList, taskQueue, active, ctl, wanted>>

Ended(w, kinds) ==
    wk[w].pc = "running" /\ wk[w].kind \in kinds /\ wk[w].proc # "alive"
SignalNobody(w) == UNCHANGED ctl
SignalFinished(w) ==
    ctl' = [c \in Callers |-> IF ctl[c].exec = w
                              THEN [ctl[c] EXCEPT !.exec = NoWorker] ELSE ctl[c]]
KeepActive(t) == active
Pop(t) == [active EXCEPT ![t] = NoWorker]
EndExecution(w, t) ==
    /\ active' = Pop(t)
    /\ wk' = [wk EXCEPT ![w] = IdleWorker]
    /\ SignalFinished(w)

MatchesAny(w, t) == HasManifest(t)
MatchesNext(w, t) == HasManifest(t) /\ manifest[t].done = wk[w].start
StoppedByPause(w, t) ==
    /\ t \in pausing
    /\ wk[w].proc = "bad" \/ (wk[w].proc = "ok" /\ wk[w].kind = "assembly")
Succeeds(w, t) ==
    /\ t \notin terminating /\ wk[w].proc = "ok"
    /\ IF wk[w].kind = "range" THEN MatchesNext(w, t) ELSE HasManifest(t)

\* A range or an assembly was terminated, timed out, failed or was killed by
\* a pause, or its result is refused.
FinishWithoutResult(w) ==
    /\ Ended(w, {"range", "assembly"})
    /\ LET t == wk[w].task IN
       /\ ~Succeeds(w, t)
       /\ EndExecution(w, t)
       /\ results' = IF t \notin terminating /\ wk[w].proc = "ok" /\ wk[w].kind = "assembly"
                     THEN results \cup {t} ELSE results
       /\ \/ /\ t \in terminating
             /\ MarkFailure(w, t) /\ UNCHANGED manifest
          \/ /\ t \notin terminating /\ StoppedByPause(w, t)
             /\ Report(w, t, "pending") /\ UNCHANGED manifest
          \/ /\ t \notin terminating /\ ~StoppedByPause(w, t)
             /\ manifest' = ManifestIn(t, "failed") /\ MarkFailure(w, t)
    /\ UNCHANGED <<request, released, content, pausing, terminating, queueList,
                   taskQueue, wanted>>

\* A range is recorded; unless the task is being paused the next one, or the
\* assembly, starts without a suspension in between.
FinishRange(w) ==
    /\ Ended(w, {"range"})
    /\ LET t == wk[w].task
           end == RangeEnd(wk[w].start)
       IN /\ Succeeds(w, t)
          /\ SignalFinished(w)
          /\ manifest' = [manifest EXCEPT ![t] =
                             Manifest(@.request, end, IF t \in pausing THEN "paused" ELSE "running")]
          /\ IF t \in pausing
             THEN /\ Report(w, t, "pending")
                  /\ active' = Pop(t) /\ wk' = [wk EXCEPT ![w] = IdleWorker]
             ELSE StartExecution(w, t, Kind(end), end)
    /\ UNCHANGED <<request, released, content, results, pausing, terminating,
                   queueList, taskQueue, wanted>>

FinishAssembly(w) ==
    /\ Ended(w, {"assembly"})
    /\ LET t == wk[w].task IN
       /\ Succeeds(w, t)
       /\ EndExecution(w, t)
       /\ results' = results \cup {t}
       /\ IF t \in pausing
          THEN Report(w, t, "pending") /\ UNCHANGED <<manifest, released, content>>
          ELSE /\ manifest' = ManifestIn(t, "succeeded")
               /\ ReleaseSources(w, t)
               /\ Report(w, t, "success")
    /\ UNCHANGED <<request, pausing, terminating, queueList, taskQueue, wanted>>

\* Outside the resumable path the outcome is stored before the process is
\* reaped, and the execution is withdrawn after it.
FinishWhole(w) ==
    /\ Ended(w, {"whole"})
    /\ LET t == wk[w].task IN
       /\ wk' = [wk EXCEPT ![w].pc = "reaping"]
       /\ \/ /\ t \in terminating
             /\ MarkFailure(w, t) /\ UNCHANGED <<results, released, content>>
          \/ /\ t \notin terminating /\ wk[w].proc # "ok"
             /\ MarkFailure(w, t)
             /\ ReleaseSources(w, t)
             /\ UNCHANGED results
          \/ /\ t \notin terminating /\ wk[w].proc = "ok"
             /\ Report(w, t, "success")
             /\ ReleaseSources(w, t)
             /\ results' = results \cup {t}
    /\ UNCHANGED <<request, manifest, pausing, terminating, queueList, taskQueue,
                   active, ctl, wanted>>

Reap(w) ==
    /\ wk[w].pc = "reaping"
    /\ EndExecution(w, wk[w].task)
    /\ UNCHANGED <<status, request, released, content, results, manifest, pausing,
                   terminating, queueList, taskQueue, wanted>>
-----------------------------------------------------------------------------
(* Control requests.                                                        *)

\* _stop_execution: nothing happens to a process that already ended.
Stop(w) == wk' = IF wk[w].proc = "alive" THEN [wk EXCEPT ![w].proc = "bad"] ELSE wk

Pausable(t) == Resumable(t) \/ (~Known(t) /\ HasManifest(t))
PausedStatus(t) == IF Known(t) /\ ~Completed(t) THEN "pending" ELSE status[t]

Pause(c, t) ==
    /\ ctl[c].pc = "idle" /\ Pausable(t)
    /\ pausing' = pausing \cup {t}
    /\ queueList' = queueList \ {t}
    /\ IF active[t] # NoWorker
       THEN /\ Stop(active[t]) /\ ctl' = [ctl EXCEPT ![c] = Waiting("pausing", t)]
            /\ UNCHANGED <<manifest, status>>
       ELSE /\ manifest' = ManifestIn(t, "paused") /\ SetStatus(t, PausedStatus(t))
            /\ UNCHANGED <<wk, ctl>>
    /\ wanted' = wanted \ {t}
    /\ UNCHANGED <<request, released, content, results, terminating, taskQueue, active>>

FinishPause(c) ==
    /\ ctl[c].pc = "pausing" /\ Woken(c)
    /\ LET t == ctl[c].task IN
       manifest' = ManifestIn(t, "paused") /\ SetStatus(t, PausedStatus(t))
    /\ ctl' = [ctl EXCEPT ![c] = IdleCaller]
    /\ UNCHANGED <<request, released, content, results, pausing, terminating,
                   queueList, taskQueue, active, wk, wanted>>

RemovedWithResult(c, t, deletes) ==
    /\ manifest' = [manifest EXCEPT ![t] = NoManifest]
    /\ content' = content \ {t}
    /\ ctl' = [ctl EXCEPT ![c] = IdleCaller]
    /\ results' = results \ {t}
    /\ request' = IF deletes THEN [request EXCEPT ![t] = NoRequest] ELSE request
    /\ wk' = IF deletes
             THEN [w \in Workers |-> IF wk[w].task = t THEN [wk[w] EXCEPT !.orphan = TRUE]
                                     ELSE wk[w]]
             ELSE wk

\* What terminate_task, or delete_task, does once no execution is left.
Removed(c, t, deletes) ==
    /\ manifest' = [manifest EXCEPT ![t] = NoManifest]
    /\ content' = content \ {t}
    /\ ctl' = [ctl EXCEPT ![c] = IdleCaller]
    /\ results' = IF deletes THEN results \ {t} ELSE results
    /\ request' = IF deletes THEN [request EXCEPT ![t] = NoRequest] ELSE request
    /\ wk' = IF deletes
             THEN [w \in Workers |-> IF wk[w].task = t THEN [wk[w] EXCEPT !.orphan = TRUE]
                                     ELSE wk[w]]
             ELSE wk

Terminate(c, t, deletes) ==
    /\ ctl[c].pc = "idle"
    /\ pausing' = pausing \ {t}
    /\ IF active[t] # NoWorker
       THEN /\ Stop(active[t])
            /\ ctl' = [ctl EXCEPT ![c] = Waiting(IF deletes THEN "deleting" ELSE "terminating", t)]
            /\ terminating' = terminating \cup {t}
            /\ UNCHANGED <<status, request, manifest, content, results, queueList>>
       ELSE /\ terminating' = IF deletes THEN terminating \ {t} ELSE terminating \cup {t}
            /\ SetStatus(t, IF deletes THEN "absent"
                            ELSE IF Known(t) /\ ~Completed(t) THEN "failure" ELSE status[t])
            /\ queueList' = queueList \ {t}
            /\ Removed(c, t, deletes)
    /\ wanted' = wanted \ {t}
    /\ UNCHANGED <<released, taskQueue, active>>

\* The client's terminate call, and a pause of what cannot be paused.
TerminateTask(c, t) == Terminate(c, t, FALSE)
\* External: Docling Serve deletes a task after its result was fetched.
DeleteTask(c, t) == t \in results /\ Known(t) /\ Terminate(c, t, TRUE)

FinishTerminate(c) ==
    /\ ctl[c].pc \in {"terminating", "deleting"} /\ Woken(c)
    /\ LET t == ctl[c].task
           deletes == ctl[c].pc = "deleting"
       IN /\ Removed(c, t, deletes)
          /\ SetStatus(t, IF deletes THEN "absent" ELSE status[t])
          /\ pausing' = IF deletes THEN pausing \ {t} ELSE pausing
          /\ terminating' = IF deletes THEN terminating \ {t} ELSE terminating
    /\ UNCHANGED <<released, queueList, taskQueue, active, wanted>>

\* The service restarts: only the manifests survive, staged content is removed.
Restart ==
    /\ status' = [t \in Tasks |-> "absent"]
    /\ request' = [t \in Tasks |-> NoRequest]
    /\ released' = {} /\ content' = {} /\ results' = {}
    /\ pausing' = {} /\ terminating' = {}
    /\ queueList' = {} /\ taskQueue' = <<>>
    /\ active' = [t \in Tasks |-> NoWorker]
    /\ wk' = [w \in Workers |-> IdleWorker]
    /\ ctl' = [c \in Callers |-> IdleCaller]
    /\ wanted' = {}
    /\ UNCHANGED manifest
-----------------------------------------------------------------------------
Submission(t) ==
    \/ Upload(t)
    \/ \E r \in Requests : \/ SubmitNew(t, r) \/ SubmitConflict(t, r) \/ SubmitKnown(t, r)
                           \/ ResumeFinished(t, r) \/ ResumeRange(t, r)
Worker(w) ==
    \/ Take(w) \/ StartPdf(w) \/ FinishWithoutResult(w) \/ FinishRange(w)
    \/ FinishAssembly(w) \/ FinishWhole(w) \/ Reap(w)
Control(c) ==
    \/ \E t \in Tasks : Pause(c, t) \/ TerminateTask(c, t) \/ DeleteTask(c, t)
    \/ FinishPause(c) \/ FinishTerminate(c)
Next ==
    \/ \E t \in Tasks : Submission(t)
    \/ \E w \in Workers : Worker(w) \/ ProcessEnds(w)
    \/ \E c \in Callers : Control(c)
    \/ Restart

Spec == Init /\ [][Next]_vars

\* Coroutines whose wait is over are scheduled, processes have a deadline.
Fairness ==
    /\ \A w \in Workers : WF_vars(Worker(w)) /\ WF_vars(ProcessEnds(w))
    /\ \A c \in Callers : WF_vars(FinishPause(c)) /\ WF_vars(FinishTerminate(c))

FairSpec == Spec /\ Fairness
-----------------------------------------------------------------------------
(* Properties.                                                              *)

WorkerRecords ==
    [pc : {"idle", "ready", "running", "reaping"}, task : Tasks \cup {NoTask},
     kind : {"none", "range", "assembly", "whole"}, start : Pages,
     proc : {"none", "alive", "ok", "bad", "timeout"}, orphan : BOOLEAN]
CallerRecords ==
    [pc : {"idle", "pausing", "terminating", "deleting"}, task : Tasks \cup {NoTask},
     exec : Workers \cup {NoWorker}]
Manifests ==
    [request : Requests \cup {NoRequest}, done : Pages,
     state : {"none", "running", "paused", "failed", "succeeded"}]

\* Type invariant: every table of the orchestrator holds values of its type.
TypeOK ==
    /\ status \in [Tasks -> {"absent", "pending", "started", "success", "failure"}]
    /\ request \in [Tasks -> Requests \cup {NoRequest}]
    /\ manifest \in [Tasks -> Manifests]
    /\ released \subseteq Tasks /\ content \subseteq Tasks /\ results \subseteq Tasks
    /\ pausing \subseteq Tasks /\ terminating \subseteq Tasks
    /\ queueList \subseteq Tasks /\ wanted \subseteq Tasks
    /\ taskQueue \in Seq(Tasks)
    /\ active \in [Tasks -> Workers \cup {NoWorker}]
    /\ wk \in [Workers -> WorkerRecords]
    /\ ctl \in [Callers -> CallerRecords]

Held(t) == \E w \in Workers : wk[w].task = t /\ ~wk[w].orphan
Queued(t) == \E i \in DOMAIN taskQueue : taskQueue[i] = t
Executing(t) == {w \in Workers : wk[w].pc = "running" /\ wk[w].task = t}

\* A task that is pending or started and that nobody stopped is in the queue or
\* in the hands of a worker: enqueue, pause and resume never lose it.
NoTaskIsLost ==
    \A t \in Tasks :
       status[t] \in {"pending", "started"} /\ t \notin pausing \cup terminating
          => Queued(t) \/ Held(t)

\* A client that is told "success" can fetch the result.
SuccessHasResult == \A t \in Tasks : status[t] = "success" => t \in results

\* Once pause_task has returned "paused" for a PDF, no process converts it until
\* it is submitted again.
PausedIsQuiet ==
    \A t \in Tasks :
       Resumable(t) /\ t \in pausing /\ (\A c \in Callers : ctl[c].task # t) => Executing(t) = {}

\* What a service with one worker (num_workers of 1) makes of the two.  A second
\* worker may hold a task of which a pause and a resume know nothing.
OneWorkerKeepsTasks ==
    (\A v, w \in Workers : v = w) => NoTaskIsLost /\ PausedIsQuiet

\* The assertion of _validate_range_completion: a range that was converted is
\* the next one of its manifest.
RangeMatchesManifest ==
    \A w \in Workers :
       (Ended(w, {"range"}) /\ wk[w].proc = "ok"
          /\ wk[w].task \notin terminating /\ HasManifest(wk[w].task))
       => MatchesNext(w, wk[w].task)

\* A submitted task nobody stopped since is completed, queued or with a worker.
SubmittedIsScheduled ==
    \A t \in wanted : Completed(t) \/ Queued(t) \/ Held(t)

\* Completed pages are recorded in order and never lost, whoever writes the
\* manifest, unless the task is terminated or deleted.
RangesAdvance ==
    [][\A t \in Tasks :
          HasManifest(t) /\ HasManifest(t)' =>
             manifest'[t].done \in {manifest[t].done, RangeEnd(manifest[t].done)}]_vars

\* A task reported as succeeded stays so until it is deleted.
SuccessIsFinal ==
    [][\A t \in Tasks : status[t] = "success" => status'[t] \in {"success", "absent"}]_vars

\* Every pause, terminate and delete call returns.
ControlReturns == \A c \in Callers : ctl[c].pc # "idle" ~> ctl[c].pc = "idle"

\* A pending task nobody stopped leaves that state: it is taken from the queue.
PendingIsServed ==
    \A t \in Tasks : status[t] = "pending" /\ t \notin pausing
                        ~> status[t] # "pending" \/ t \in pausing
=============================================================================
