--------------------- MODULE DoclingOrchestratorProofs ---------------------
(***************************************************************************)
(* What the Docling orchestrator guarantees for any number of tasks,       *)
(* workers, control requests and pages: its tables are typed, the pages    *)
(* recorded in a manifest only ever advance by the next range, also when   *)
(* two workers convert the same task, and success comes with a result.     *)
(* With one worker no task is lost and a paused one is quiet: OneWorkerInv *)
(* is the inductive invariant, ControlMoves what everybody but the worker  *)
(* may do to it, WorkerRests and WorkerGoes what the worker does.          *)
(***************************************************************************)
EXTENDS DoclingOrchestrator, FiniteSetTheorems, WellFoundedInduction, TLAPS

\* The inductive form of TypeOK: without knowing that a busy worker holds a
\* task, what it adds to _task_results need not be one.
Typed ==
    /\ TypeOK
    /\ \A w \in Workers : wk[w].pc # "idle" => wk[w].task \in Tasks

Statuses == {"absent", "pending", "started", "success", "failure"}

\* RangeEnd of the pages done is again a number of pages of the document.
LEMMA RangeEndInPages ==
    ASSUME NEW p \in Pages PROVE RangeEnd(p) \in Pages
  BY OrchestratorAssumption DEF RangeEnd, Pages

\* The records a worker goes through are worker records.
LEMMA WorkerRecordsTyped ==
    ASSUME NEW t \in Tasks, NEW k \in {"range", "assembly", "whole"}, NEW p \in Pages,
           NEW o \in BOOLEAN
    PROVE  /\ IdleWorker \in WorkerRecords /\ IdleWorker.pc = "idle"
           /\ Ready(t) \in WorkerRecords /\ Ready(t).task = t
           /\ Running(t, k, p, o) \in WorkerRecords /\ Running(t, k, p, o).task = t
  <1>1. 0 \in Pages
    BY OrchestratorAssumption DEF Pages
  <1>2. IdleWorker \in WorkerRecords /\ IdleWorker.pc = "idle"
    BY <1>1 DEF IdleWorker, WorkerRecords
  <1>4. Ready(t) \in WorkerRecords /\ Ready(t).task = t
    BY <1>1 DEF Ready, WorkerRecords
  <1>5. Running(t, k, p, o) \in WorkerRecords /\ Running(t, k, p, o).task = t
    BY DEF Running, WorkerRecords
  <1>6. QED
    BY <1>2, <1>4, <1>5

\* Manifests are built from a request, a number of pages and a state.
LEMMA ManifestTyped ==
    ASSUME NEW r \in Requests \cup {NoRequest}, NEW d \in Pages,
           NEW s \in {"running", "paused", "failed", "succeeded"}
    PROVE  /\ Manifest(r, d, s) \in Manifests
           /\ Manifest(r, d, s).done = d
           /\ NoManifest \in Manifests
  <1>1. 0 \in Pages
    BY OrchestratorAssumption DEF Pages
  <1>2. QED
    BY <1>1 DEF Manifest, Manifests, NoManifest

\* Changing the state of a manifest keeps its pages.
LEMMA ManifestInKeepsPages ==
    ASSUME manifest \in [Tasks -> Manifests], NEW t,
           NEW s \in {"running", "paused", "failed", "succeeded"}
    PROVE  /\ ManifestIn(t, s) \in [Tasks -> Manifests]
           /\ \A u \in Tasks : ManifestIn(t, s)[u].done = manifest[u].done
  <1>1. CASE t \in Tasks
    <2>1. [manifest[t] EXCEPT !.state = s] \in Manifests
      BY <1>1 DEF Manifests
    <2>2. [manifest[t] EXCEPT !.state = s].done = manifest[t].done
      BY <1>1 DEF Manifests
    <2>3. QED
      BY <1>1, <2>1, <2>2 DEF ManifestIn
  <1>2. CASE t \notin Tasks
    BY <1>2 DEF ManifestIn
  <1>3. QED
    BY <1>1, <1>2

\* read_or_create returns the manifest that is there, or an empty one.
LEMMA ReadOrCreateTyped ==
    ASSUME manifest \in [Tasks -> Manifests], NEW t \in Tasks, NEW r \in Requests
    PROVE  /\ ReadOrCreate(t, r) \in Manifests
           /\ ReadOrCreate(t, r).done \in Pages
           /\ HasManifest(t) => ReadOrCreate(t, r) = manifest[t]
  <1>1. 0 \in Pages
    BY OrchestratorAssumption DEF Pages
  <1>2. Manifest(r, 0, "running") \in Manifests
    BY <1>1, ManifestTyped
  <1>3. ReadOrCreate(t, r) \in Manifests
    BY <1>2 DEF ReadOrCreate
  <1>4. QED
    BY <1>3 DEF ReadOrCreate, Manifests

\* A worker reports a status of the table.
LEMMA ReportTyped ==
    ASSUME status \in [Tasks -> Statuses], NEW w, NEW t, NEW s \in Statuses,
           Report(w, t, s)
    PROVE  status' \in [Tasks -> Statuses]
  BY DEF Report

\* Marking a task failed keeps the statuses typed.
LEMMA MarkFailureTyped ==
    ASSUME status \in [Tasks -> Statuses], NEW w, NEW t, MarkFailure(w, t)
    PROVE  status' \in [Tasks -> Statuses]
  <1>1. (IF Completed(t) THEN status[t] ELSE "failure") \in Statuses
    BY DEF Completed, Statuses
  <1>2. QED
    BY <1>1, ReportTyped DEF MarkFailure

\* What EndExecution, SignalFinished, Stop and the changes of one worker record
\* do to the tables of workers and control requests.
LEMMA SignalTyped ==
    ASSUME ctl \in [Callers -> CallerRecords], NEW w, SignalFinished(w)
    PROVE  ctl' \in [Callers -> CallerRecords]
  BY DEF SignalFinished, CallerRecords

\* Withdrawing an execution keeps the table of executions typed.
LEMMA PopTyped ==
    ASSUME active \in [Tasks -> Workers \cup {NoWorker}], NEW t
    PROVE  Pop(t) \in [Tasks -> Workers \cup {NoWorker}]
  BY DEF Pop

\* wk' gives a worker either a new record of its own or leaves it alone.
WorkersOK(v) ==
    /\ v \in [Workers -> WorkerRecords]
    /\ \A w \in Workers : v[w].pc # "idle" => v[w].task \in Tasks

\* Giving one worker a good record keeps all of them good.
LEMMA OneWorkerChanges ==
    ASSUME WorkersOK(wk), NEW w \in Workers, NEW r \in WorkerRecords,
           r.pc # "idle" => r.task \in Tasks
    PROVE  WorkersOK([wk EXCEPT ![w] = r])
  BY DEF WorkersOK

\* The end of a process keeps the worker records good.
LEMMA ProcTyped ==
    ASSUME WorkersOK(wk), NEW w \in Workers,
           NEW e \in {"none", "alive", "ok", "bad", "timeout"}
    PROVE  WorkersOK([wk EXCEPT ![w].proc = e])
  <1>1. [wk[w] EXCEPT !.proc = e] \in WorkerRecords
    BY DEF WorkersOK, WorkerRecords
  <1>2. /\ [wk[w] EXCEPT !.proc = e].pc = wk[w].pc
        /\ [wk[w] EXCEPT !.proc = e].task = wk[w].task
    BY DEF WorkersOK, WorkerRecords
  <1>3. QED
    BY <1>1, <1>2 DEF WorkersOK

\* So does going on to reap it,
LEMMA ReapingTyped ==
    ASSUME WorkersOK(wk), NEW w \in Workers, wk[w].pc # "idle"
    PROVE  WorkersOK([wk EXCEPT ![w].pc = "reaping"])
  <1>1. [wk[w] EXCEPT !.pc = "reaping"] \in WorkerRecords
    BY DEF WorkersOK, WorkerRecords
  <1>2. [wk[w] EXCEPT !.pc = "reaping"].task = wk[w].task
    BY DEF WorkersOK, WorkerRecords
  <1>3. QED
    BY <1>1, <1>2 DEF WorkersOK

\* losing the Task object,
LEMMA OrphansTyped ==
    ASSUME WorkersOK(wk), NEW t
    PROVE  WorkersOK([w \in Workers |-> IF wk[w].task = t
                        THEN [wk[w] EXCEPT !.orphan = TRUE] ELSE wk[w]])
  <1>1. ASSUME NEW w \in Workers
        PROVE  /\ [wk[w] EXCEPT !.orphan = TRUE] \in WorkerRecords
               /\ [wk[w] EXCEPT !.orphan = TRUE].pc = wk[w].pc
               /\ [wk[w] EXCEPT !.orphan = TRUE].task = wk[w].task
    BY DEF WorkersOK, WorkerRecords
  <1>2. QED
    BY <1>1 DEF WorkersOK

\* being stopped by a control request,
LEMMA StopTyped ==
    ASSUME WorkersOK(wk), NEW w \in Workers, Stop(w)
    PROVE  WorkersOK(wk')
  <1>1. "bad" \in {"none", "alive", "ok", "bad", "timeout"}
    OBVIOUS
  <1>2. WorkersOK([wk EXCEPT ![w].proc = "bad"])
    BY <1>1, ProcTyped
  <1>3. QED
    BY <1>2 DEF Stop

\* and becoming idle.
LEMMA IdleTyped ==
    ASSUME WorkersOK(wk), NEW w \in Workers
    PROVE  WorkersOK([wk EXCEPT ![w] = IdleWorker])
  <1>1. 0 \in Pages
    BY OrchestratorAssumption DEF Pages
  <1>2. IdleWorker \in WorkerRecords /\ IdleWorker.pc = "idle"
    BY <1>1 DEF IdleWorker, WorkerRecords
  <1>3. QED
    BY <1>2, OneWorkerChanges

\* Starting a process keeps workers, statuses and executions typed.
LEMMA StartExecutionTyped ==
    ASSUME WorkersOK(wk), NEW w \in Workers, NEW t \in Tasks, NEW p \in Pages,
           NEW k \in {"range", "assembly", "whole"},
           status \in [Tasks -> Statuses],
           active \in [Tasks -> Workers \cup {NoWorker}],
           StartExecution(w, t, k, p)
    PROVE  /\ WorkersOK(wk')
           /\ status' \in [Tasks -> Statuses]
           /\ active' \in [Tasks -> Workers \cup {NoWorker}]
  <1>1. wk[w].orphan \in BOOLEAN
    BY DEF WorkersOK, WorkerRecords
  <1>2. Running(t, k, p, wk[w].orphan) \in WorkerRecords
    BY <1>1, WorkerRecordsTyped
  <1>3. Running(t, k, p, wk[w].orphan).task = t
    BY DEF Running
  <1>4. WorkersOK(wk')
    BY <1>2, <1>3, OneWorkerChanges DEF StartExecution
  <1>5. "started" \in Statuses
    BY DEF Statuses
  <1>6. status' \in [Tasks -> Statuses]
    BY <1>5, ReportTyped DEF StartExecution
  <1>7. QED
    BY <1>4, <1>6 DEF StartExecution

-----------------------------------------------------------------------------
(* Typed, as the conjunction the step lemmas use.                           *)
Tables ==
    /\ status \in [Tasks -> Statuses]
    /\ request \in [Tasks -> Requests \cup {NoRequest}]
    /\ manifest \in [Tasks -> Manifests]
    /\ released \subseteq Tasks /\ content \subseteq Tasks /\ results \subseteq Tasks
    /\ pausing \subseteq Tasks /\ terminating \subseteq Tasks
    /\ queueList \subseteq Tasks /\ wanted \subseteq Tasks
    /\ taskQueue \in Seq(Tasks)
    /\ active \in [Tasks -> Workers \cup {NoWorker}]
    /\ WorkersOK(wk)
    /\ ctl \in [Callers -> CallerRecords]

\* Tables is Typed in the form the lemmas use.
LEMMA TablesAreTyped == Tables <=> Typed
  BY DEF Tables, Typed, TypeOK, Statuses, WorkersOK

\* Uploads and submissions keep the tables typed.
LEMMA SubmissionTyped ==
    ASSUME Tables, NEW t \in Tasks, Submission(t)
    PROVE  Tables'
  <1>1. CASE Upload(t)
    BY <1>1 DEF Upload, Tables, WorkersOK
  <1>2. ASSUME NEW r \in Requests,
               SubmitNew(t, r) \/ SubmitConflict(t, r) \/ SubmitKnown(t, r)
               \/ ResumeFinished(t, r) \/ ResumeRange(t, r)
        PROVE  Tables'
    <2>1. /\ ReadOrCreate(t, r) \in Manifests
          /\ ReadOrCreate(t, r).done \in Pages
      BY ReadOrCreateTyped DEF Tables
    <2>2. /\ Manifest(r, ReadOrCreate(t, r).done, "running") \in Manifests
          /\ Manifest(r, PageCount, "succeeded") \in Manifests
      <3>1. PageCount \in Pages /\ r \in Requests \cup {NoRequest}
        BY OrchestratorAssumption DEF Pages
      <3>2. QED
        BY <2>1, <3>1, ManifestTyped
    <2>3. "pending" \in Statuses /\ "success" \in Statuses
      BY DEF Statuses
    <2>4. Append(taskQueue, t) \in Seq(Tasks)
      BY DEF Tables
    <2>5. CASE SubmitNew(t, r)
      BY <2>2, <2>3, <2>4, <2>5 DEF SubmitNew, SetStatus, Enqueue, Tables, WorkersOK
    <2>6. CASE SubmitConflict(t, r)
      BY <2>6 DEF SubmitConflict, Tables, WorkersOK
    <2>7. CASE SubmitKnown(t, r)
      BY <2>1, <2>7 DEF SubmitKnown, Tables, WorkersOK
    <2>8. CASE ResumeFinished(t, r)
      BY <2>2, <2>3, <2>8 DEF ResumeFinished, SetStatus, Tables, WorkersOK
    <2>9. CASE ResumeRange(t, r)
      BY <2>2, <2>3, <2>4, <2>9 DEF ResumeRange, SetStatus, Enqueue, Tables, WorkersOK
    <2>10. QED
      BY <1>2, <2>5, <2>6, <2>7, <2>8, <2>9
  <1>3. QED
    BY <1>1, <1>2 DEF Submission

\* Taking a queue entry keeps the tables typed.
LEMMA TakeTyped ==
    ASSUME Tables, NEW w \in Workers, Take(w)
    PROVE  Tables'
  <1> DEFINE t == Head(taskQueue)
  <1>1. taskQueue \in Seq(Tasks) /\ taskQueue # <<>>
    BY DEF Tables, Take
  <1>2. t \in Tasks /\ Tail(taskQueue) \in Seq(Tasks)
    BY <1>1
  <1> HIDE DEF t
  <1>3. /\ taskQueue' = Tail(taskQueue) /\ queueList' = queueList \ {t}
        /\ UNCHANGED <<request, released, content, results, pausing, terminating, ctl, wanted>>
    BY DEF Take, t
  <1>4. \/ UNCHANGED <<status, manifest, active, wk>>
        \/ MarkFailure(w, t) /\ UNCHANGED <<manifest, active, wk>>
        \/ Report(w, t, "pending") /\ UNCHANGED <<manifest, active, wk>>
        \/ /\ manifest' = ManifestIn(t, "running") /\ Report(w, t, "started")
           /\ wk' = [wk EXCEPT ![w] = Ready(t)] /\ UNCHANGED active
        \/ StartExecution(w, t, "whole", 0) /\ UNCHANGED manifest
    BY DEF Take, t
  <1>5. /\ status' \in [Tasks -> Statuses] /\ manifest' \in [Tasks -> Manifests]
        /\ active' \in [Tasks -> Workers \cup {NoWorker}] /\ WorkersOK(wk')
    <2>0. /\ status \in [Tasks -> Statuses] /\ manifest \in [Tasks -> Manifests]
          /\ active \in [Tasks -> Workers \cup {NoWorker}] /\ WorkersOK(wk)
      BY DEF Tables
    <2>1. CASE UNCHANGED <<status, manifest, active, wk>>
      BY <2>0, <2>1
    <2>2. CASE MarkFailure(w, t) /\ UNCHANGED <<manifest, active, wk>>
      BY <2>0, <2>2, MarkFailureTyped
    <2>3. CASE Report(w, t, "pending") /\ UNCHANGED <<manifest, active, wk>>
      <3>1. "pending" \in Statuses
        BY DEF Statuses
      <3>2. QED
        BY <2>0, <2>3, <3>1, ReportTyped
    <2>4. CASE /\ manifest' = ManifestIn(t, "running") /\ Report(w, t, "started")
               /\ wk' = [wk EXCEPT ![w] = Ready(t)] /\ UNCHANGED active
      <3>1. "started" \in Statuses
        BY DEF Statuses
      <3>2. status' \in [Tasks -> Statuses]
        BY <2>0, <2>4, <3>1, ReportTyped
      <3>3. 0 \in Pages /\ TRUE \in BOOLEAN
        BY OrchestratorAssumption DEF Pages
      <3>4. Ready(t) \in WorkerRecords /\ Ready(t).task = t
        BY <1>2, <3>3, WorkerRecordsTyped
      <3>5. WorkersOK([wk EXCEPT ![w] = Ready(t)])
        BY <1>2, <2>0, <3>4, OneWorkerChanges
      <3>6. manifest' \in [Tasks -> Manifests]
        BY <2>0, <2>4, ManifestInKeepsPages
      <3>7. QED
        BY <2>0, <2>4, <3>2, <3>5, <3>6
    <2>5. CASE StartExecution(w, t, "whole", 0) /\ UNCHANGED manifest
      <3>1. 0 \in Pages
        BY OrchestratorAssumption DEF Pages
      <3>2. QED
        BY <1>2, <2>0, <2>5, <3>1, StartExecutionTyped
    <2>6. QED
      BY <1>4, <2>1, <2>2, <2>3, <2>4, <2>5
  <1>6. QED
    BY <1>2, <1>3, <1>5 DEF Tables

\* The first execution of a PDF keeps the tables typed.
LEMMA StartPdfTyped ==
    ASSUME Tables, NEW w \in Workers, StartPdf(w)
    PROVE  Tables'
  <1> DEFINE t == wk[w].task
  <1>1. t \in Tasks
    BY DEF Tables, WorkersOK, StartPdf
  <1> HIDE DEF t
  <1>2. UNCHANGED <<request, released, content, results, manifest, pausing, terminating,
                    queueList, taskQueue, ctl, wanted>>
    BY DEF StartPdf
  <1>3. \/ /\ MarkFailure(w, t) \/ Report(w, t, "pending")
           /\ wk' = [wk EXCEPT ![w] = IdleWorker] /\ UNCHANGED active
        \/ StartExecution(w, t, Kind(manifest[t].done), manifest[t].done)
    BY DEF StartPdf, t
  <1>4. /\ status' \in [Tasks -> Statuses]
        /\ active' \in [Tasks -> Workers \cup {NoWorker}] /\ WorkersOK(wk')
    <2>0. /\ status \in [Tasks -> Statuses] /\ manifest[t] \in Manifests
          /\ active \in [Tasks -> Workers \cup {NoWorker}] /\ WorkersOK(wk)
      BY <1>1 DEF Tables
    <2>1. CASE /\ MarkFailure(w, t) \/ Report(w, t, "pending")
               /\ wk' = [wk EXCEPT ![w] = IdleWorker] /\ UNCHANGED active
      <3>1. "pending" \in Statuses
        BY DEF Statuses
      <3>2. status' \in [Tasks -> Statuses]
        BY <2>0, <2>1, <3>1, MarkFailureTyped, ReportTyped
      <3>3. QED
        BY <2>0, <2>1, <3>2, IdleTyped
    <2>2. CASE StartExecution(w, t, Kind(manifest[t].done), manifest[t].done)
      <3>1. manifest[t].done \in Pages
        BY <2>0 DEF Manifests
      <3>2. Kind(manifest[t].done) \in {"range", "assembly", "whole"}
        BY DEF Kind
      <3>3. QED
        BY <1>1, <2>0, <2>2, <3>1, <3>2, StartExecutionTyped
    <2>3. QED
      BY <1>3, <2>1, <2>2
  <1>5. QED
    BY <1>2, <1>4 DEF Tables

\* The end of an execution keeps workers, executions and control requests typed.
LEMMA EndExecutionTyped ==
    ASSUME Tables, NEW w \in Workers, NEW t \in Tasks, EndExecution(w, t)
    PROVE  /\ WorkersOK(wk')
           /\ active' \in [Tasks -> Workers \cup {NoWorker}]
           /\ ctl' \in [Callers -> CallerRecords]
  BY IdleTyped, PopTyped, SignalTyped DEF EndExecution, Tables

\* A worker whose execution ended holds a task and the page it started from.
LEMMA EndedHolds ==
    ASSUME Tables, NEW w \in Workers, wk[w].pc # "idle"
    PROVE  wk[w].task \in Tasks /\ wk[w].start \in Pages /\ wk[w].orphan \in BOOLEAN
  BY DEF Tables, WorkersOK, WorkerRecords

\* An execution without a result keeps the tables typed.
LEMMA FinishWithoutResultTyped ==
    ASSUME Tables, NEW w \in Workers, FinishWithoutResult(w)
    PROVE  Tables'
  <1> DEFINE t == wk[w].task
  <1>1. t \in Tasks
    BY EndedHolds DEF FinishWithoutResult, Ended
  <1> HIDE DEF t
  <1>2. /\ EndExecution(w, t)
        /\ UNCHANGED <<request, released, content, pausing, terminating, queueList,
                       taskQueue, wanted>>
        /\ results' \in {results, results \cup {t}}
        /\ \/ MarkFailure(w, t) /\ UNCHANGED manifest
           \/ Report(w, t, "pending") /\ UNCHANGED manifest
           \/ manifest' = ManifestIn(t, "failed") /\ MarkFailure(w, t)
    BY DEF FinishWithoutResult, t
  <1>3. /\ WorkersOK(wk') /\ active' \in [Tasks -> Workers \cup {NoWorker}]
        /\ ctl' \in [Callers -> CallerRecords]
    BY <1>1, <1>2, EndExecutionTyped
  <1>4. status' \in [Tasks -> Statuses]
    <2>1. "pending" \in Statuses
      BY DEF Statuses
    <2>2. QED
      BY <1>2, <2>1, MarkFailureTyped, ReportTyped DEF Tables
  <1>5. manifest' \in [Tasks -> Manifests]
    BY <1>2, ManifestInKeepsPages DEF Tables
  <1>6. QED
    BY <1>1, <1>2, <1>3, <1>4, <1>5 DEF Tables

\* A recorded range keeps the tables typed: its end is a page of the document.
LEMMA FinishRangeTyped ==
    ASSUME Tables, NEW w \in Workers, FinishRange(w)
    PROVE  Tables'
  <1> DEFINE t == wk[w].task
             end == RangeEnd(wk[w].start)
             st == IF t \in pausing THEN "paused" ELSE "running"
  <1>1. t \in Tasks /\ end \in Pages
    BY EndedHolds, RangeEndInPages DEF FinishRange, Ended
  <1>2. st \in {"running", "paused", "failed", "succeeded"}
    OBVIOUS
  <1> HIDE DEF t, end, st
  <1>3. /\ SignalFinished(w)
        /\ UNCHANGED <<request, released, content, results, pausing, terminating,
                       queueList, taskQueue, wanted>>
        /\ manifest' = [manifest EXCEPT ![t] = Manifest(manifest[t].request, end, st)]
        /\ \/ /\ Report(w, t, "pending") /\ active' = Pop(t)
              /\ wk' = [wk EXCEPT ![w] = IdleWorker]
           \/ StartExecution(w, t, Kind(end), end)
    BY DEF FinishRange, t, end, st
  <1>4. manifest' \in [Tasks -> Manifests]
    <2>1. manifest[t].request \in Requests \cup {NoRequest}
      BY <1>1 DEF Tables, Manifests
    <2>2. Manifest(manifest[t].request, end, st) \in Manifests
      BY <1>1, <1>2, <2>1, ManifestTyped
    <2>3. QED
      BY <1>3, <2>2 DEF Tables
  <1>5. /\ WorkersOK(wk') /\ active' \in [Tasks -> Workers \cup {NoWorker}]
        /\ status' \in [Tasks -> Statuses]
    <2>0. WorkersOK(wk) /\ status \in [Tasks -> Statuses]
          /\ active \in [Tasks -> Workers \cup {NoWorker}]
      BY DEF Tables
    <2>1. CASE /\ Report(w, t, "pending") /\ active' = Pop(t)
               /\ wk' = [wk EXCEPT ![w] = IdleWorker]
      <3>1. "pending" \in Statuses
        BY DEF Statuses
      <3>2. QED
        BY <2>0, <2>1, <3>1, ReportTyped, PopTyped, IdleTyped
    <2>2. CASE StartExecution(w, t, Kind(end), end)
      <3>1. Kind(end) \in {"range", "assembly", "whole"}
        BY DEF Kind
      <3>2. QED
        BY <1>1, <2>0, <2>2, <3>1, StartExecutionTyped
    <2>3. QED
      BY <1>3, <2>1, <2>2
  <1>6. ctl' \in [Callers -> CallerRecords]
    BY <1>3, SignalTyped DEF Tables
  <1>7. QED
    BY <1>3, <1>4, <1>5, <1>6 DEF Tables

\* A finished assembly keeps the tables typed.
LEMMA FinishAssemblyTyped ==
    ASSUME Tables, NEW w \in Workers, FinishAssembly(w)
    PROVE  Tables'
  <1> DEFINE t == wk[w].task
  <1>1. t \in Tasks
    BY EndedHolds DEF FinishAssembly, Ended
  <1> HIDE DEF t
  <1>2. /\ EndExecution(w, t) /\ results' = results \cup {t}
        /\ UNCHANGED <<request, pausing, terminating, queueList, taskQueue, wanted>>
        /\ \/ Report(w, t, "pending") /\ UNCHANGED <<manifest, released, content>>
           \/ /\ manifest' = ManifestIn(t, "succeeded")
              /\ ReleaseSources(w, t) /\ Report(w, t, "success")
    BY DEF FinishAssembly, t
  <1>3. /\ WorkersOK(wk') /\ active' \in [Tasks -> Workers \cup {NoWorker}]
        /\ ctl' \in [Callers -> CallerRecords]
    BY <1>1, <1>2, EndExecutionTyped
  <1>4. status' \in [Tasks -> Statuses]
    <2>1. "pending" \in Statuses /\ "success" \in Statuses
      BY DEF Statuses
    <2>2. QED
      BY <1>2, <2>1, ReportTyped DEF Tables
  <1>5. manifest' \in [Tasks -> Manifests]
    BY <1>2, ManifestInKeepsPages DEF Tables
  <1>6. released' \subseteq Tasks /\ content' \subseteq Tasks
    BY <1>1, <1>2 DEF ReleaseSources, Tables
  <1>7. QED
    BY <1>1, <1>2, <1>3, <1>4, <1>5, <1>6 DEF Tables

\* A finished conversion in one process keeps the tables typed.
LEMMA FinishWholeTyped ==
    ASSUME Tables, NEW w \in Workers, FinishWhole(w)
    PROVE  Tables'
  <1> DEFINE t == wk[w].task
  <1>1. t \in Tasks /\ wk[w].pc # "idle"
    BY EndedHolds DEF FinishWhole, Ended
  <1> HIDE DEF t
  <1>2. /\ wk' = [wk EXCEPT ![w].pc = "reaping"]
        /\ UNCHANGED <<request, manifest, pausing, terminating, queueList, taskQueue,
                       active, ctl, wanted>>
        /\ results' \in {results, results \cup {t}}
        /\ UNCHANGED <<released, content>> \/ ReleaseSources(w, t)
        /\ MarkFailure(w, t) \/ Report(w, t, "success")
    BY DEF FinishWhole, t
  <1>3. WorkersOK(wk')
    BY <1>1, <1>2, ReapingTyped DEF Tables
  <1>4. status' \in [Tasks -> Statuses]
    <2>1. "success" \in Statuses
      BY DEF Statuses
    <2>2. QED
      BY <1>2, <2>1, MarkFailureTyped, ReportTyped DEF Tables
  <1>5. released' \subseteq Tasks /\ content' \subseteq Tasks
    BY <1>1, <1>2 DEF ReleaseSources, Tables
  <1>6. QED
    BY <1>1, <1>2, <1>3, <1>4, <1>5 DEF Tables

\* Every step of a worker keeps the tables typed.
LEMMA WorkerStepTyped ==
    ASSUME Tables, NEW w \in Workers, Worker(w) \/ ProcessEnds(w)
    PROVE  Tables'
  <1>1. CASE Reap(w)
    <2>1. wk[w].task \in Tasks
      BY <1>1, EndedHolds DEF Reap
    <2>2. QED
      BY <1>1, <2>1, EndExecutionTyped DEF Reap, Tables
  <1>2. CASE ProcessEnds(w)
    <2>1. PICK e \in {"ok", "bad", "timeout"} : wk' = [wk EXCEPT ![w].proc = e]
      BY <1>2 DEF ProcessEnds
    <2>2. e \in {"none", "alive", "ok", "bad", "timeout"}
      OBVIOUS
    <2>3. WorkersOK(wk')
      BY <2>1, <2>2, ProcTyped DEF Tables
    <2>4. QED
      BY <1>2, <2>3 DEF ProcessEnds, Tables
  <1>3. QED
    BY <1>1, <1>2, TakeTyped, StartPdfTyped, FinishWithoutResultTyped, FinishRangeTyped,
       FinishAssemblyTyped, FinishWholeTyped DEF Worker
-----------------------------------------------------------------------------
\* A control request waits for a worker of the table.
LEMMA CallerTyped ==
    ASSUME ctl \in [Callers -> CallerRecords], NEW c \in Callers, NEW t \in Tasks,
           NEW pc \in {"pausing", "terminating", "deleting"},
           active \in [Tasks -> Workers \cup {NoWorker}]
    PROVE  /\ [ctl EXCEPT ![c] = Waiting(pc, t)] \in [Callers -> CallerRecords]
           /\ [ctl EXCEPT ![c] = IdleCaller] \in [Callers -> CallerRecords]
  <1>1. Waiting(pc, t) \in CallerRecords
    BY DEF Waiting, CallerRecords
  <1>2. IdleCaller \in CallerRecords
    BY DEF IdleCaller, CallerRecords
  <1>3. QED
    BY <1>1, <1>2

\* The status a pause leaves is a status.
LEMMA PausedStatusTyped ==
    ASSUME status \in [Tasks -> Statuses], NEW t, SetStatus(t, PausedStatus(t))
    PROVE  status' \in [Tasks -> Statuses]
  <1>1. "pending" \in Statuses
    BY DEF Statuses
  <1>2. QED
    BY <1>1 DEF SetStatus, PausedStatus

\* A pause keeps the tables typed.
LEMMA PauseTyped ==
    ASSUME Tables, NEW c \in Callers, NEW t \in Tasks, Pause(c, t)
    PROVE  Tables'
  <1>1. /\ pausing' = pausing \cup {t} /\ queueList' = queueList \ {t}
        /\ wanted' = wanted \ {t}
        /\ UNCHANGED <<request, released, content, results, terminating, taskQueue, active>>
        /\ \/ /\ active[t] # NoWorker /\ Stop(active[t])
              /\ ctl' = [ctl EXCEPT ![c] = Waiting("pausing", t)]
              /\ UNCHANGED <<manifest, status>>
           \/ /\ manifest' = ManifestIn(t, "paused") /\ SetStatus(t, PausedStatus(t))
              /\ UNCHANGED <<wk, ctl>>
    BY DEF Pause
  <1>2. /\ WorkersOK(wk) /\ ctl \in [Callers -> CallerRecords]
        /\ active \in [Tasks -> Workers \cup {NoWorker}]
        /\ manifest \in [Tasks -> Manifests] /\ status \in [Tasks -> Statuses]
    BY DEF Tables
  <1>3. /\ WorkersOK(wk') /\ ctl' \in [Callers -> CallerRecords]
        /\ manifest' \in [Tasks -> Manifests] /\ status' \in [Tasks -> Statuses]
    <2>1. CASE /\ active[t] # NoWorker /\ Stop(active[t])
               /\ ctl' = [ctl EXCEPT ![c] = Waiting("pausing", t)]
               /\ UNCHANGED <<manifest, status>>
      <3>1. active[t] \in Workers /\ "pausing" \in {"pausing", "terminating", "deleting"}
        BY <1>2, <2>1
      <3>2. WorkersOK(wk')
        BY <1>2, <2>1, <3>1, StopTyped
      <3>3. ctl' \in [Callers -> CallerRecords]
        BY <1>2, <2>1, <3>1, CallerTyped
      <3>4. QED
        BY <1>2, <2>1, <3>2, <3>3
    <2>2. CASE /\ manifest' = ManifestIn(t, "paused") /\ SetStatus(t, PausedStatus(t))
               /\ UNCHANGED <<wk, ctl>>
      <3>1. manifest' \in [Tasks -> Manifests]
        BY <1>2, <2>2, ManifestInKeepsPages
      <3>2. status' \in [Tasks -> Statuses]
        BY <1>2, <2>2, PausedStatusTyped
      <3>3. QED
        BY <1>2, <2>2, <3>1, <3>2
    <2>3. QED
      BY <1>1, <2>1, <2>2
  <1>4. QED
    BY <1>1, <1>3 DEF Tables

\* So does its second half.
LEMMA FinishPauseTyped ==
    ASSUME Tables, NEW c \in Callers, FinishPause(c)
    PROVE  Tables'
  <1> DEFINE t == ctl[c].task
  <1>1. /\ manifest' = ManifestIn(t, "paused") /\ SetStatus(t, PausedStatus(t))
        /\ ctl' = [ctl EXCEPT ![c] = IdleCaller]
        /\ UNCHANGED <<request, released, content, results, pausing, terminating,
                       queueList, taskQueue, active, wk, wanted>>
    BY DEF FinishPause
  <1> HIDE DEF t
  <1>2. manifest' \in [Tasks -> Manifests]
    BY <1>1, ManifestInKeepsPages DEF Tables
  <1>3. status' \in [Tasks -> Statuses]
    BY <1>1, PausedStatusTyped DEF Tables
  <1>4. IdleCaller \in CallerRecords
    BY DEF IdleCaller, CallerRecords
  <1>5. QED
    BY <1>1, <1>2, <1>3, <1>4 DEF Tables

\* Removing checkpoint, content and result keeps their tables typed.
LEMMA RemovedTyped ==
    ASSUME Tables, NEW c \in Callers, NEW t, NEW d \in BOOLEAN, Removed(c, t, d)
    PROVE  /\ manifest' \in [Tasks -> Manifests] /\ content' \subseteq Tasks
           /\ ctl' \in [Callers -> CallerRecords] /\ results' \subseteq Tasks
           /\ request' \in [Tasks -> Requests \cup {NoRequest}] /\ WorkersOK(wk')
  <1>1. NoManifest \in Manifests
    <2>1. 0 \in Pages
      BY OrchestratorAssumption DEF Pages
    <2>2. QED
      BY <2>1 DEF NoManifest, Manifests
  <1>2. IdleCaller \in CallerRecords
    BY DEF IdleCaller, CallerRecords
  <1>3. WorkersOK(wk')
    BY OrphansTyped DEF Removed, Tables
  <1>4. QED
    BY <1>1, <1>2, <1>3 DEF Removed, Tables

\* A termination or deletion keeps the tables typed.
LEMMA TerminateTyped ==
    ASSUME Tables, NEW c \in Callers, NEW t \in Tasks, NEW d \in BOOLEAN,
           Terminate(c, t, d)
    PROVE  Tables'
  <1>1. /\ pausing' \subseteq Tasks /\ wanted' \subseteq Tasks /\ terminating' \subseteq Tasks
        /\ queueList' \subseteq Tasks
        /\ UNCHANGED <<released, taskQueue, active>>
    BY DEF Terminate, Tables
  <1>2. /\ WorkersOK(wk) /\ ctl \in [Callers -> CallerRecords]
        /\ active \in [Tasks -> Workers \cup {NoWorker}]
        /\ status \in [Tasks -> Statuses]
    BY DEF Tables
  <1>3. CASE active[t] # NoWorker
    <2>1. /\ Stop(active[t])
          /\ ctl' = [ctl EXCEPT ![c] = Waiting(IF d THEN "deleting" ELSE "terminating", t)]
          /\ UNCHANGED <<status, request, manifest, content, results>>
      BY <1>3 DEF Terminate
    <2>2. active[t] \in Workers
          /\ (IF d THEN "deleting" ELSE "terminating") \in {"pausing", "terminating", "deleting"}
      BY <1>2, <1>3
    <2>3. WorkersOK(wk')
      BY <1>2, <2>1, <2>2, StopTyped
    <2>4. ctl' \in [Callers -> CallerRecords]
      BY <1>2, <2>1, <2>2, CallerTyped
    <2>5. QED
      BY <1>1, <2>1, <2>3, <2>4 DEF Tables
  <1>4. CASE active[t] = NoWorker
    <2>1. /\ Removed(c, t, d)
          /\ SetStatus(t, IF d THEN "absent"
                          ELSE IF Known(t) /\ ~Completed(t) THEN "failure" ELSE status[t])
      BY <1>4 DEF Terminate
    <2>2. status' \in [Tasks -> Statuses]
      BY <1>2, <2>1 DEF SetStatus, Statuses
    <2>3. QED
      BY <1>1, <2>1, <2>2, RemovedTyped DEF Tables
  <1>5. QED
    BY <1>3, <1>4

\* So does its second half.
LEMMA FinishTerminateTyped ==
    ASSUME Tables, NEW c \in Callers, FinishTerminate(c)
    PROVE  Tables'
  <1> DEFINE t == ctl[c].task
             d == ctl[c].pc = "deleting"
  <1>1. d \in BOOLEAN
    OBVIOUS
  <1>2. /\ Removed(c, t, d) /\ SetStatus(t, IF d THEN "absent" ELSE status[t])
        /\ pausing' \subseteq Tasks /\ terminating' \subseteq Tasks
        /\ UNCHANGED <<released, queueList, taskQueue, active, wanted>>
    BY DEF FinishTerminate, Tables
  <1> HIDE DEF t, d
  <1>3. status' \in [Tasks -> Statuses]
    BY <1>2 DEF SetStatus, Statuses, Tables
  <1>4. QED
    BY <1>1, <1>2, <1>3, RemovedTyped DEF Tables

\* A restarted service has typed tables.
LEMMA RestartTyped ==
    ASSUME Tables, Restart
    PROVE  Tables'
  <1>1. 0 \in Pages
    BY OrchestratorAssumption DEF Pages
  <1>2. IdleWorker \in WorkerRecords /\ IdleWorker.pc = "idle"
    BY <1>1 DEF IdleWorker, WorkerRecords
  <1>3. WorkersOK(wk')
    BY <1>2 DEF WorkersOK, Restart
  <1>4. IdleCaller \in CallerRecords
    BY DEF IdleCaller, CallerRecords
  <1>5. "absent" \in Statuses /\ <<>> \in Seq(Tasks)
    BY DEF Statuses
  <1>6. QED
    BY <1>3, <1>4, <1>5 DEF Restart, Tables

\* So has a new one.
LEMMA InitTyped == Init => Tables
  <1> SUFFICES ASSUME Init PROVE Tables
    OBVIOUS
  <1>1. 0 \in Pages
    BY OrchestratorAssumption DEF Pages
  <1>2. IdleWorker \in WorkerRecords /\ IdleWorker.pc = "idle"
    BY <1>1 DEF IdleWorker, WorkerRecords
  <1>3. WorkersOK(wk)
    BY <1>2 DEF WorkersOK, Init
  <1>4. IdleCaller \in CallerRecords /\ NoManifest \in Manifests
    BY <1>1 DEF IdleCaller, CallerRecords, NoManifest, Manifests
  <1>5. "absent" \in Statuses /\ <<>> \in Seq(Tasks)
    BY DEF Statuses
  <1>6. QED
    BY <1>3, <1>4, <1>5 DEF Init, Tables

\* Tables is inductive: one case per action.
LEMMA StepTyped == Tables /\ [Next]_vars => Tables'
  <1> SUFFICES ASSUME Tables, [Next]_vars PROVE Tables'
    OBVIOUS
  <1>1. CASE UNCHANGED vars
    BY <1>1 DEF vars, Tables, WorkersOK
  <1>2. ASSUME NEW t \in Tasks, Submission(t) PROVE Tables'
    BY <1>2, SubmissionTyped
  <1>3. ASSUME NEW w \in Workers, Worker(w) \/ ProcessEnds(w) PROVE Tables'
    BY <1>3, WorkerStepTyped
  <1>4. ASSUME NEW c \in Callers, Control(c) PROVE Tables'
    <2>1. ASSUME NEW t \in Tasks, Pause(c, t) PROVE Tables'
      BY <2>1, PauseTyped
    <2>2. ASSUME NEW t \in Tasks, TerminateTask(c, t) PROVE Tables'
      BY <2>2, TerminateTyped DEF TerminateTask
    <2>3. ASSUME NEW t \in Tasks, DeleteTask(c, t) PROVE Tables'
      BY <2>3, TerminateTyped DEF DeleteTask
    <2>4. QED
      BY <1>4, <2>1, <2>2, <2>3, FinishPauseTyped, FinishTerminateTyped DEF Control
  <1>5. CASE Restart
    BY <1>5, RestartTyped
  <1>6. QED
    BY <1>1, <1>2, <1>3, <1>4, <1>5 DEF Next

\* Every table of the Docling orchestrator keeps its type, for any number of
\* tasks, workers, concurrent control requests and pages.
THEOREM OrchestratorTypeCorrect == Spec => []TypeOK
  <1>1. Tables => TypeOK
    BY TablesAreTyped DEF Typed
  <1>2. QED
    BY <1>1, InitTyped, StepTyped, PTL DEF Spec
-----------------------------------------------------------------------------
(* Progress recorded in a manifest.                                         *)

\* What a step may do to the pages of a manifest that exists before and after.
Advances(u) ==
    HasManifest(u) /\ HasManifest(u)' =>
       manifest'[u].done \in {manifest[u].done, RangeEnd(manifest[u].done)}

\* Unchanged pages are an advance.
LEMMA SamePagesAdvance ==
    ASSUME NEW u, manifest'[u].done = manifest[u].done
    PROVE  Advances(u)
  BY DEF Advances

\* Writing only the state of a manifest is an advance.
LEMMA StateChangeAdvances ==
    ASSUME Tables, NEW t, NEW s \in {"running", "paused", "failed", "succeeded"},
           manifest' = ManifestIn(t, s)
    PROVE  \A u \in Tasks : Advances(u)
  BY ManifestInKeepsPages, SamePagesAdvance DEF Tables

\* Submit and resume write back the pages they read.
LEMMA SubmissionAdvances ==
    ASSUME Tables, NEW t \in Tasks, Submission(t)
    PROVE  \A u \in Tasks : Advances(u)
  <1>1. CASE Upload(t)
    BY <1>1, SamePagesAdvance DEF Upload
  <1>2. ASSUME NEW r \in Requests,
               SubmitNew(t, r) \/ SubmitConflict(t, r) \/ SubmitKnown(t, r)
               \/ ResumeFinished(t, r) \/ ResumeRange(t, r)
        PROVE  \A u \in Tasks : Advances(u)
    <2>1. /\ ReadOrCreate(t, r).done \in Pages
          /\ HasManifest(t) => ReadOrCreate(t, r) = manifest[t]
      BY ReadOrCreateTyped DEF Tables
    <2>2. PageCount \in Pages /\ r \in Requests \cup {NoRequest}
      BY OrchestratorAssumption DEF Pages
    <2>3. /\ Manifest(r, ReadOrCreate(t, r).done, "running").done = ReadOrCreate(t, r).done
          /\ Manifest(r, PageCount, "succeeded").done = PageCount
      BY DEF Manifest
    <2>4. \/ manifest' = manifest
          \/ manifest' = [manifest EXCEPT ![t] = Manifest(r, ReadOrCreate(t, r).done, "running")]
          \/ manifest' = [manifest EXCEPT ![t] = ReadOrCreate(t, r)]
          \/ /\ manifest' = [manifest EXCEPT ![t] = Manifest(r, PageCount, "succeeded")]
             /\ ReadOrCreate(t, r).done = PageCount
      BY <1>2 DEF SubmitNew, SubmitConflict, SubmitKnown, ResumeFinished, ResumeRange
    <2>5. HasManifest(t) => manifest'[t].done = manifest[t].done
      BY <2>1, <2>3, <2>4 DEF Tables
    <2>6. \A u \in Tasks \ {t} : manifest'[u] = manifest[u]
      BY <2>4 DEF Tables
    <2>7. QED
      BY <2>5, <2>6 DEF Advances
  <1>3. QED
    BY <1>1, <1>2 DEF Submission

\* A range is recorded only if it starts where the manifest ends.
LEMMA FinishRangeAdvances ==
    ASSUME Tables, NEW w \in Workers, FinishRange(w)
    PROVE  \A u \in Tasks : Advances(u)
  <1> DEFINE t == wk[w].task
             end == RangeEnd(wk[w].start)
             st == IF t \in pausing THEN "paused" ELSE "running"
  <1>1. t \in Tasks
    BY EndedHolds DEF FinishRange, Ended
  <1>2. manifest[t].done = wk[w].start
    BY DEF FinishRange, Ended, Succeeds, MatchesNext
  <1>3. manifest' = [manifest EXCEPT ![t] = Manifest(manifest[t].request, end, st)]
    BY DEF FinishRange
  <1>4. Manifest(manifest[t].request, end, st).done = end
    BY DEF Manifest
  <1>5. manifest'[t].done = RangeEnd(manifest[t].done)
    BY <1>1, <1>2, <1>3, <1>4 DEF Tables
  <1>6. \A u \in Tasks \ {t} : manifest'[u] = manifest[u]
    BY <1>3 DEF Tables
  <1> HIDE DEF t, end, st
  <1>7. QED
    BY <1>5, <1>6 DEF Advances

\* No step of a worker loses pages.
LEMMA WorkerAdvances ==
    ASSUME Tables, NEW w \in Workers, Worker(w) \/ ProcessEnds(w)
    PROVE  \A u \in Tasks : Advances(u)
  <1>1. CASE Take(w)
    <2>1. \/ manifest' = manifest
          \/ manifest' = ManifestIn(Head(taskQueue), "running")
      BY <1>1 DEF Take
    <2>2. QED
      BY <2>1, SamePagesAdvance, StateChangeAdvances
  <1>2. CASE StartPdf(w) \/ FinishWhole(w) \/ Reap(w) \/ ProcessEnds(w)
    <2>1. manifest' = manifest
      BY <1>2 DEF StartPdf, FinishWhole, Reap, ProcessEnds
    <2>2. QED
      BY <2>1, SamePagesAdvance
  <1>3. CASE FinishWithoutResult(w)
    <2>1. manifest' = manifest \/ manifest' = ManifestIn(wk[w].task, "failed")
      BY <1>3 DEF FinishWithoutResult
    <2>2. QED
      BY <2>1, SamePagesAdvance, StateChangeAdvances
  <1>4. CASE FinishAssembly(w)
    <2>1. manifest' = manifest \/ manifest' = ManifestIn(wk[w].task, "succeeded")
      BY <1>4 DEF FinishAssembly
    <2>2. QED
      BY <2>1, SamePagesAdvance, StateChangeAdvances
  <1>5. QED
    BY <1>1, <1>2, <1>3, <1>4, FinishRangeAdvances DEF Worker

\* Control requests keep the pages or remove the manifest.
LEMMA ControlAdvances ==
    ASSUME Tables, NEW c \in Callers, Control(c)
    PROVE  \A u \in Tasks : Advances(u)
  <1>1. ASSUME NEW t, NEW d \in BOOLEAN, Removed(c, t, d)
        PROVE  \A u \in Tasks : Advances(u)
    <2>1. \A u \in Tasks : manifest'[u] = NoManifest \/ manifest'[u] = manifest[u]
      BY <1>1 DEF Removed, Tables
    <2>2. QED
      BY <2>1 DEF Advances, HasManifest
  <1>2. ASSUME NEW t \in Tasks, NEW d \in BOOLEAN, Terminate(c, t, d)
        PROVE  \A u \in Tasks : Advances(u)
    <2>1. manifest' = manifest \/ Removed(c, t, d)
      BY <1>2 DEF Terminate
    <2>2. QED
      BY <1>1, <2>1, SamePagesAdvance
  <1>3. ASSUME NEW t \in Tasks, Pause(c, t)
        PROVE  \A u \in Tasks : Advances(u)
    <2>1. manifest' = manifest \/ manifest' = ManifestIn(t, "paused")
      BY <1>3 DEF Pause
    <2>2. QED
      BY <2>1, SamePagesAdvance, StateChangeAdvances
  <1>4. CASE FinishPause(c)
    <2>1. manifest' = ManifestIn(ctl[c].task, "paused")
      BY <1>4 DEF FinishPause
    <2>2. QED
      BY <2>1, StateChangeAdvances
  <1>5. CASE FinishTerminate(c)
    <2> DEFINE d == ctl[c].pc = "deleting"
    <2>1. d \in BOOLEAN /\ Removed(c, ctl[c].task, d)
      BY <1>5 DEF FinishTerminate
    <2>2. QED
      BY <1>1, <2>1
  <1>6. QED
    BY <1>2, <1>3, <1>4, <1>5 DEF Control, TerminateTask, DeleteTask

\* Whoever writes a manifest - workers, even two on the same task, submit,
\* resume and pause - its completed pages stay or grow by exactly the next
\* range; only termination and deletion remove them.
THEOREM CheckpointsAdvance == Spec => RangesAdvance
  <1> DEFINE Good == \A u \in Tasks : Advances(u)
  <1>1. Tables /\ [Next]_vars => [Good]_vars
    <2> SUFFICES ASSUME Tables, Next PROVE Good
      OBVIOUS
    <2>1. ASSUME NEW t \in Tasks, Submission(t) PROVE Good
      BY <2>1, SubmissionAdvances
    <2>2. ASSUME NEW w \in Workers, Worker(w) \/ ProcessEnds(w) PROVE Good
      BY <2>2, WorkerAdvances
    <2>3. ASSUME NEW c \in Callers, Control(c) PROVE Good
      BY <2>3, ControlAdvances
    <2>4. CASE Restart
      <3>1. manifest' = manifest
        BY <2>4 DEF Restart
      <3>2. QED
        BY <3>1, SamePagesAdvance
    <2>5. QED
      BY <2>1, <2>2, <2>3, <2>4 DEF Next
  <1>2. [Good]_vars => [\A t \in Tasks :
          HasManifest(t) /\ HasManifest(t)' =>
             manifest'[t].done \in {manifest[t].done, RangeEnd(manifest[t].done)}]_vars
    BY DEF Advances
  <1>3. QED
    BY <1>1, <1>2, InitTyped, StepTyped, PTL DEF Spec, RangesAdvance
-----------------------------------------------------------------------------
(* A reported success has a result.                                         *)

\* A step that turns no other status into "success" and drops no result of a
\* task it leaves in the table keeps SuccessHasResult.
LEMMA ResultsKept ==
    ASSUME SuccessHasResult,
           \A u \in Tasks : status'[u] = "success" =>
              u \in results' \/ (status[u] = "success" /\ (u \in results => u \in results'))
    PROVE  SuccessHasResult'
  BY DEF SuccessHasResult

\* A resumed task is reported successful only with its result.
LEMMA SubmissionKeepsResults ==
    ASSUME Tables, SuccessHasResult, NEW t \in Tasks, Submission(t)
    PROVE  SuccessHasResult'
  <1>1. /\ results' = results
        /\ \/ status' = status
           \/ SetStatus(t, "pending")
           \/ SetStatus(t, "success") /\ t \in results
    BY DEF Submission, Upload, SubmitNew, SubmitConflict, SubmitKnown, ResumeFinished,
           ResumeRange
  <1>2. QED
    BY <1>1, ResultsKept DEF SetStatus, Tables

\* A worker that does not report success makes no task succeed.
LEMMA FailureIsNoSuccess ==
    ASSUME Tables, NEW w, NEW t,
           \/ MarkFailure(w, t)
           \/ \E s \in {"pending", "started"} : Report(w, t, s)
    PROVE  \A u \in Tasks : status'[u] = "success" => status[u] = "success"
  BY DEF MarkFailure, Report, Tables

\* A worker stores the result before it reports success.
LEMMA WorkerKeepsResults ==
    ASSUME Tables, SuccessHasResult, NEW w \in Workers, Worker(w) \/ ProcessEnds(w)
    PROVE  SuccessHasResult'
  <1> DEFINE NoNewSuccess == \A u \in Tasks : status'[u] = "success" => status[u] = "success"
  <1>1. ASSUME results \subseteq results', NoNewSuccess PROVE SuccessHasResult'
    BY <1>1, ResultsKept
  <1>2. ASSUME NEW t, results \subseteq results', t \in results', Report(w, t, "success")
        PROVE  SuccessHasResult'
    BY <1>2, ResultsKept DEF Report, Tables
  <1>3. CASE Take(w)
    <2>1. /\ results' = results
          /\ \/ status' = status
             \/ MarkFailure(w, Head(taskQueue))
             \/ \E s \in {"pending", "started"} : Report(w, Head(taskQueue), s)
      BY <1>3 DEF Take, StartExecution
    <2>2. NoNewSuccess
      BY <2>1, FailureIsNoSuccess
    <2>3. QED
      BY <1>1, <2>1, <2>2
  <1>4. CASE StartPdf(w) \/ FinishWithoutResult(w) \/ FinishRange(w)
    <2>1. /\ results \subseteq results'
          /\ \/ MarkFailure(w, wk[w].task)
             \/ \E s \in {"pending", "started"} : Report(w, wk[w].task, s)
      BY <1>4 DEF StartPdf, FinishWithoutResult, FinishRange, StartExecution
    <2>2. NoNewSuccess
      BY <2>1, FailureIsNoSuccess
    <2>3. QED
      BY <1>1, <2>1, <2>2
  <1>5. CASE FinishAssembly(w)
    <2>1. /\ results \subseteq results' /\ wk[w].task \in results'
          /\ \/ Report(w, wk[w].task, "success")
             \/ \E s \in {"pending", "started"} : Report(w, wk[w].task, s)
      BY <1>5 DEF FinishAssembly
    <2>2. QED
      BY <1>1, <1>2, <2>1, FailureIsNoSuccess
  <1>6. CASE FinishWhole(w)
    <2>1. /\ results \subseteq results'
          /\ \/ MarkFailure(w, wk[w].task)
             \/ Report(w, wk[w].task, "success") /\ wk[w].task \in results'
      BY <1>6 DEF FinishWhole
    <2>2. QED
      BY <1>1, <1>2, <2>1, FailureIsNoSuccess
  <1>7. CASE Reap(w) \/ ProcessEnds(w)
    <2>1. results' = results /\ status' = status
      BY <1>7 DEF Reap, ProcessEnds
    <2>2. QED
      BY <1>1, <2>1
  <1>8. QED
    BY <1>3, <1>4, <1>5, <1>6, <1>7 DEF Worker

\* A result is removed only together with its task.
LEMMA ControlKeepsResults ==
    ASSUME Tables, SuccessHasResult, NEW c \in Callers, Control(c)
    PROVE  SuccessHasResult'
  <1>1. ASSUME NEW t, NEW d \in BOOLEAN, NEW s \in Statuses, Removed(c, t, d),
               SetStatus(t, IF d THEN "absent" ELSE s), s = "success" => status[t] = "success"
        PROVE  SuccessHasResult'
    BY <1>1, ResultsKept DEF Removed, SetStatus, Tables
  <1>2. ASSUME NEW t \in Tasks, NEW d \in BOOLEAN, Terminate(c, t, d)
        PROVE  SuccessHasResult'
    <2>1. CASE active[t] # NoWorker
      BY <1>2, <2>1, ResultsKept DEF Terminate
    <2>2. CASE active[t] = NoWorker
      <3> DEFINE s == IF Known(t) /\ ~Completed(t) THEN "failure" ELSE status[t]
      <3>1. s \in Statuses /\ (s = "success" => status[t] = "success")
        BY DEF Tables, Statuses
      <3>2. Removed(c, t, d) /\ SetStatus(t, IF d THEN "absent" ELSE s)
        BY <1>2, <2>2 DEF Terminate
      <3> HIDE DEF s
      <3>3. QED
        BY <1>1, <3>1, <3>2
    <2>3. QED
      BY <2>1, <2>2
  <1>3. ASSUME NEW t, results' = results, SetStatus(t, PausedStatus(t)) \/ status' = status
        PROVE  SuccessHasResult'
    BY <1>3, ResultsKept DEF SetStatus, PausedStatus, Tables
  <1>4. ASSUME NEW t \in Tasks, Pause(c, t) PROVE SuccessHasResult'
    BY <1>3, <1>4 DEF Pause
  <1>5. CASE FinishPause(c)
    BY <1>3, <1>5 DEF FinishPause
  <1>6. CASE FinishTerminate(c)
    <2> DEFINE t == ctl[c].task
               d == ctl[c].pc = "deleting"
    <2>1. /\ d \in BOOLEAN /\ Removed(c, t, d)
          /\ SetStatus(t, IF d THEN "absent" ELSE status[t])
      BY <1>6 DEF FinishTerminate
    <2> HIDE DEF t, d
    <2>2. QED
      BY <2>1, ResultsKept DEF Removed, SetStatus, Tables
  <1>7. QED
    BY <1>2, <1>4, <1>5, <1>6 DEF Control, TerminateTask, DeleteTask

\* No client is ever told "success" without a result to fetch, although results
\* are stored before, and removed independently of, the status they belong to.
THEOREM SuccessesHaveResults == Spec => []SuccessHasResult
  <1>1. Init => SuccessHasResult
    BY DEF Init, SuccessHasResult
  <1>2. Tables /\ SuccessHasResult /\ [Next]_vars => SuccessHasResult'
    <2> SUFFICES ASSUME Tables, SuccessHasResult, [Next]_vars PROVE SuccessHasResult'
      OBVIOUS
    <2>1. CASE UNCHANGED vars
      BY <2>1 DEF vars, SuccessHasResult
    <2>2. ASSUME NEW t \in Tasks, Submission(t) PROVE SuccessHasResult'
      BY <2>2, SubmissionKeepsResults
    <2>3. ASSUME NEW w \in Workers, Worker(w) \/ ProcessEnds(w) PROVE SuccessHasResult'
      BY <2>3, WorkerKeepsResults
    <2>4. ASSUME NEW c \in Callers, Control(c) PROVE SuccessHasResult'
      BY <2>4, ControlKeepsResults
    <2>5. CASE Restart
      BY <2>5 DEF Restart, SuccessHasResult
    <2>6. QED
      BY <2>1, <2>2, <2>3, <2>4, <2>5 DEF Next
  <1>3. QED
    BY <1>1, <1>2, InitTyped, StepTyped, PTL DEF Spec
-----------------------------------------------------------------------------
(* One worker.  A second worker may hold a task of which a pause and a resume  *)
(* know nothing; with one, every task that waits is in its queue or its hands. *)

Busy(k) == k.pc # "idle"
Executes(k) == k.pc \in {"running", "reaping"}

\* A worker converts whole only what cannot be resumed, and reaps what it has
\* completed, as long as its Task object is the one in the table.
HeldOK(k) ==
    Busy(k) /\ ~k.orphan =>
       /\ Known(k.task)
       /\ k.pc = "reaping" \/ (k.pc = "running" /\ k.kind = "whole") => ~Resumable(k.task)
       /\ k.pc = "reaping" => Completed(k.task)
\* An id that was submitted again while a worker holds the old object is queued.
OrphanOK(k) == Busy(k) /\ k.orphan /\ Known(k.task) => Queued(k.task)
\* An execution is known, and somebody waits for one that a pause has stopped.
WatchedOK(w, k) ==
    /\ Executes(k) => active[k.task] = w
    /\ k.pc = "running" /\ k.task \in pausing /\ (k.orphan \/ Resumable(k.task)) =>
          \E c \in Callers : ctl[c].task = k.task /\ ctl[c].exec = w
Places ==
    /\ \A t \in Tasks : active[t] # NoWorker => Executes(wk[active[t]]) /\ wk[active[t]].task = t
    /\ \A t \in queueList : Queued(t)
    /\ \A c \in Callers : IF ctl[c].pc = "idle" THEN ctl[c].exec = NoWorker
                                                ELSE ctl[c].task \in Tasks
IdleOK(k) == k.pc = "idle" => k = IdleWorker
OneWorkerInv ==
    /\ Places
    /\ \A w \in Workers :
          IdleOK(wk[w]) /\ HeldOK(wk[w]) /\ OrphanOK(wk[w]) /\ WatchedOK(w, wk[w])
    /\ NoTaskIsLost

\* A task that NoTaskIsLost is about.
Waits(t) == status[t] \in {"pending", "started"} /\ t \notin pausing \cup terminating

LEMMA Appended ==
    ASSUME Tables, NEW t \in Tasks, taskQueue' = Append(taskQueue, t)
    PROVE  Queued(t)' /\ \A u \in Tasks : Queued(u) => Queued(u)'
  <1>1. taskQueue \in Seq(Tasks)
    BY DEF Tables
  <1>2. /\ DOMAIN taskQueue' = 1 .. Len(taskQueue) + 1 /\ Len(taskQueue) \in Nat
        /\ taskQueue'[Len(taskQueue) + 1] = t
        /\ \A i \in DOMAIN taskQueue : i \in DOMAIN taskQueue' /\ taskQueue'[i] = taskQueue[i]
    BY <1>1
  <1>3. Queued(t)'
    BY <1>2 DEF Queued
  <1>4. QED
    BY <1>2, <1>3 DEF Queued

LEMMA Taken ==
    ASSUME Tables, taskQueue # <<>>, taskQueue' = Tail(taskQueue)
    PROVE  \A u \in Tasks : Queued(u) => u = Head(taskQueue) \/ Queued(u)'
  <1>1. taskQueue \in Seq(Tasks)
    BY DEF Tables
  <1>2. /\ DOMAIN taskQueue = 1 .. Len(taskQueue) /\ Len(taskQueue) \in Nat \ {0}
        /\ DOMAIN taskQueue' = 1 .. Len(taskQueue) - 1 /\ Head(taskQueue) = taskQueue[1]
        /\ \A i \in 1 .. Len(taskQueue) - 1 : taskQueue'[i] = taskQueue[i + 1]
    BY <1>1
  <1>3. ASSUME NEW u \in Tasks, NEW i \in 1 .. Len(taskQueue), taskQueue[i] = u, i # 1
        PROVE  Queued(u)'
    <2>1. i - 1 \in 1 .. Len(taskQueue) - 1 /\ (i - 1) + 1 = i
      BY <1>2, <1>3
    <2>2. taskQueue'[i - 1] = u
      BY <1>2, <1>3, <2>1
    <2>3. QED
      BY <1>2, <2>1, <2>2 DEF Queued
  <1>4. QED
    BY <1>2, <1>3 DEF Queued

-----------------------------------------------------------------------------
(* What everybody but the workers may do.                                   *)

\* To the record of a worker: end its process, or take away its Task object.
WorkerStays(w) ==
    /\ wk'[w].pc = wk[w].pc /\ wk'[w].task = wk[w].task /\ wk'[w].kind = wk[w].kind
    /\ wk[w].pc = "idle" => wk'[w] = wk[w]
    /\ \A t \in Tasks : wk[w].task = t =>
          \/ wk'[w].orphan = wk[w].orphan /\ (~wk[w].orphan /\ Known(t) => Known(t)')
          \/ wk'[w].orphan /\ ~Known(t)' /\ t \notin pausing'

\* To a task, its queue entries and the calls that wait for it.
TaskMoves(t) ==
    /\ Queued(t) => Queued(t)'
    /\ t \in queueList' => t \in queueList \/ Queued(t)'
    /\ Known(t)' => Known(t) \/ Queued(t)'
    /\ Resumable(t)' => Resumable(t) \/ ~Known(t)
    /\ Completed(t) /\ Known(t)' => Completed(t)' \/ Resumable(t)
    /\ Waits(t)' => Waits(t) \/ Queued(t)' \/ t \in queueList \/ active[t] # NoWorker
    /\ t \in pausing' =>
          \/ t \in pausing \/ active[t] = NoWorker
          \/ \E c \in Callers : ctl'[c].task = t /\ ctl'[c].exec = active[t]
CallStays(c) ==
    /\ ctl[c].exec # NoWorker => ctl'[c] = ctl[c]
    /\ IF ctl'[c].pc = "idle" THEN ctl'[c].exec = NoWorker ELSE ctl'[c].task \in Tasks

LEMMA ControlMoves ==
    ASSUME Tables, OneWorkerInv, active' = active,
           \A w \in Workers : WorkerStays(w),
           \A t \in Tasks : TaskMoves(t),
           \A c \in Callers : CallStays(c), queueList' \subseteq Tasks
    PROVE  OneWorkerInv'
  <1>t. \A w \in Workers : Busy(wk[w]) => wk[w].task \in Tasks /\ wk[w].orphan \in BOOLEAN
    BY DEF Tables, WorkersOK, WorkerRecords, Busy
  <1>a. \A t \in Tasks : active[t] \in Workers \cup {NoWorker}
    BY DEF Tables
  <1>n. NoWorker \notin Workers
    BY OrchestratorAssumption
  <1>1. Places'
    <2>1. ASSUME NEW t \in Tasks, active'[t] # NoWorker
          PROVE  Executes(wk'[active'[t]]) /\ wk'[active'[t]].task = t
      BY <1>a, <2>1 DEF OneWorkerInv, Places, WorkerStays, Executes
    <2>2. ASSUME NEW t \in queueList' PROVE Queued(t)'
      BY <2>2 DEF OneWorkerInv, Places, TaskMoves
    <2>3. QED
      BY <2>1, <2>2 DEF Places, CallStays, Executes
  <1>2. ASSUME NEW w \in Workers
        PROVE  IdleOK(wk'[w]) /\ HeldOK(wk[w])' /\ OrphanOK(wk[w])' /\ WatchedOK(w, wk[w])'
    <2>1. IdleOK(wk'[w])
      BY DEF OneWorkerInv, IdleOK, WorkerStays
    <2>2. HeldOK(wk[w])'
      BY <1>t DEF OneWorkerInv, HeldOK, WorkerStays, TaskMoves, Busy
    <2>3. OrphanOK(wk[w])'
      BY <1>t DEF OneWorkerInv, OrphanOK, WorkerStays, TaskMoves, Busy
    <2>4. Executes(wk'[w]) => active'[wk'[w].task] = w
      BY DEF OneWorkerInv, WatchedOK, WorkerStays, Executes
    <2>5. ASSUME NEW t \in Tasks, wk'[w].task = t, wk'[w].pc = "running", t \in pausing',
                 wk'[w].orphan \/ Resumable(t)'
          PROVE  \E c \in Callers : ctl'[c].task = t /\ ctl'[c].exec = w
      <3>1. wk[w].pc = "running" /\ wk[w].task = t
        BY <2>5 DEF WorkerStays
      <3>2. wk'[w].orphan = wk[w].orphan /\ (~wk[w].orphan /\ Known(t) => Known(t)')
        BY <2>5, <3>1 DEF WorkerStays, Resumable
      <3>3. active[t] = w
        BY <3>1 DEF OneWorkerInv, WatchedOK, Executes
      <3>4. CASE t \in pausing
        <4>1. ~wk[w].orphan => Known(t)
          BY <3>1 DEF OneWorkerInv, HeldOK, Busy
        <4>2. wk[w].orphan \/ Resumable(t)
          BY <2>5, <3>2, <4>1 DEF TaskMoves
        <4>3. \E c \in Callers : ctl[c].task = t /\ ctl[c].exec = w
          BY <3>1, <3>4, <4>2 DEF OneWorkerInv, WatchedOK
        <4>4. QED
          BY <1>n, <4>3 DEF CallStays
      <3>5. CASE t \notin pausing
        BY <1>n, <2>5, <3>3, <3>5 DEF TaskMoves
      <3>6. QED
        BY <3>4, <3>5
    <2>6. wk'[w].pc = "running" => wk'[w].task \in Tasks
      BY <1>t DEF WorkerStays, Busy
    <2>7. WatchedOK(w, wk[w])'
      BY <2>4, <2>5, <2>6 DEF WatchedOK, Executes, Resumable, Known
    <2>8. QED
      BY <2>1, <2>2, <2>3, <2>7
  <1>3. ASSUME NEW t \in Tasks, Waits(t)' PROVE Queued(t)' \/ Held(t)'
    <2>1. Known(t)'
      BY <1>3 DEF Waits, Known
    <2>2. Queued(t) => Queued(t)'
      BY DEF TaskMoves
    <2>3. CASE Held(t)
      <3>1. PICK w \in Workers : wk[w].task = t /\ ~wk[w].orphan
        BY <2>3 DEF Held
      <3>2. wk'[w].task = t /\ ~wk'[w].orphan
        BY <2>1, <3>1 DEF WorkerStays
      <3>3. QED
        BY <3>2 DEF Held
    <2>4. CASE active[t] # NoWorker
      <3>1. PICK w \in Workers : active[t] = w
        BY <1>a, <2>4
      <3>2. Busy(wk[w]) /\ wk[w].task = t
        BY <2>4, <3>1 DEF OneWorkerInv, Places, Executes, Busy
      <3>3. CASE wk[w].orphan
        BY <2>1, <2>2, <3>2, <3>3 DEF OneWorkerInv, OrphanOK, TaskMoves
      <3>4. CASE ~wk[w].orphan
        <4>1. Held(t)
          BY <3>2, <3>4 DEF Held
        <4>2. QED
          BY <2>3, <4>1
      <3>5. QED
        BY <3>3, <3>4
    <2>5. CASE t \in queueList
      BY <2>2, <2>5 DEF OneWorkerInv, Places
    <2>6. Waits(t) => Queued(t) \/ Held(t)
      BY DEF OneWorkerInv, NoTaskIsLost, Waits
    <2>7. QED
      BY <1>3, <2>2, <2>3, <2>4, <2>5, <2>6 DEF TaskMoves
  <1>4. NoTaskIsLost'
    BY <1>3 DEF NoTaskIsLost, Waits
  <1>5. QED
    BY <1>1, <1>2, <1>4 DEF OneWorkerInv, IdleOK

\* Nobody touches the workers, and no task is forgotten.
LEMMA WorkersRest ==
    ASSUME wk' = wk, \A t \in Tasks : Known(t) => Known(t)'
    PROVE  \A w \in Workers : WorkerStays(w)
  BY DEF WorkerStays

\* Nobody touches the calls.
LEMMA CallsRest ==
    ASSUME OneWorkerInv, ctl' = ctl
    PROVE  \A c \in Callers : CallStays(c)
  BY DEF OneWorkerInv, Places, CallStays

\* Uploads and submissions move a task only as ControlMoves allows.
LEMMA SubmissionMoves ==
    ASSUME Tables, OneWorkerInv, NEW t \in Tasks, Submission(t)
    PROVE  OneWorkerInv'
  <1>1. UNCHANGED <<active, wk, ctl>> /\ Tables'
    BY SubmissionTyped DEF Submission, Upload, SubmitNew, SubmitConflict, SubmitKnown,
       ResumeFinished, ResumeRange
  <1>2. \A u \in Tasks : (Queued(u) => Queued(u)') /\ (Known(u) => Known(u)')
                            /\ TaskMoves(u)
    <2>1. CASE Upload(t)
      BY <2>1 DEF Upload, TaskMoves, Queued, Known, Completed, Resumable, Waits
    <2>2. ASSUME NEW r \in Requests, SubmitNew(t, r)
          PROVE  \A u \in Tasks : (Queued(u) => Queued(u)') /\ (Known(u) => Known(u)')
                                     /\ TaskMoves(u)
      <3>1. Queued(t)' /\ \A u \in Tasks : Queued(u) => Queued(u)'
        BY <2>2, Appended DEF SubmitNew, Enqueue
      <3>2. /\ queueList' = queueList \cup {t} /\ ~Known(t) /\ UNCHANGED <<pausing, terminating>>
            /\ released' = released \ {t} /\ request' = [request EXCEPT ![t] = r]
            /\ status' = [status EXCEPT ![t] = "pending"]
        BY <2>2 DEF SubmitNew, Enqueue, SetStatus
      <3>3. ASSUME NEW u \in Tasks, u # t PROVE status'[u] = status[u] /\ request'[u] = request[u]
        BY <3>2, <3>3 DEF Tables
      <3>4. status'[t] = "pending"
        BY <3>2 DEF Tables
      <3>5. TaskMoves(t)
        BY <3>1, <3>2, <3>4 DEF TaskMoves, Known, Completed, Resumable
      <3>6. ASSUME NEW u \in Tasks, u # t PROVE TaskMoves(u)
        BY <3>1, <3>2, <3>3, <3>6 DEF TaskMoves, Known, Completed, Resumable, Waits
      <3>7. QED
        BY <3>1, <3>2, <3>3, <3>4, <3>5, <3>6 DEF Known
    <2>3. ASSUME NEW r \in Requests, SubmitConflict(t, r) \/ SubmitKnown(t, r)
          PROVE  \A u \in Tasks : (Queued(u) => Queued(u)') /\ (Known(u) => Known(u)')
                                     /\ TaskMoves(u)
      BY <2>3 DEF SubmitConflict, SubmitKnown, TaskMoves, Queued, Known, Completed, Resumable, Waits
    <2>4. ASSUME NEW r \in Requests, ResumeFinished(t, r)
          PROVE  \A u \in Tasks : (Queued(u) => Queued(u)') /\ (Known(u) => Known(u)')
                                     /\ TaskMoves(u)
      <3>1. /\ UNCHANGED <<taskQueue, queueList, request>>
            /\ released' = released \cup {t} /\ pausing' = pausing \ {t}
            /\ terminating' = terminating \ {t} /\ Resumable(t)
            /\ status' = [status EXCEPT ![t] = "success"]
        BY <2>4 DEF ResumeFinished, SetStatus, NeedsResume
      <3>2. status'[t] = "success" /\ \A u \in Tasks : u # t => status'[u] = status[u]
        BY <3>1 DEF Tables
      <3>3. TaskMoves(t)
        BY <3>1, <3>2 DEF TaskMoves, Queued, Known, Completed, Resumable, Waits
      <3>4. ASSUME NEW u \in Tasks, u # t PROVE TaskMoves(u)
        BY <3>1, <3>2, <3>4 DEF TaskMoves, Queued, Known, Completed, Resumable, Waits
      <3>5. QED
        BY <3>1, <3>2, <3>3, <3>4 DEF Known, Queued
    <2>5. ASSUME NEW r \in Requests, ResumeRange(t, r)
          PROVE  \A u \in Tasks : (Queued(u) => Queued(u)') /\ (Known(u) => Known(u)')
                                     /\ TaskMoves(u)
      <3>1. /\ UNCHANGED <<request, released>> /\ pausing' = pausing \ {t}
            /\ terminating' = terminating \ {t} /\ Resumable(t)
            /\ status' = [status EXCEPT ![t] = "pending"]
        BY <2>5 DEF ResumeRange, SetStatus, NeedsResume
      <3>2. status'[t] = "pending" /\ \A u \in Tasks : u # t => status'[u] = status[u]
        BY <3>1 DEF Tables
      <3>3. /\ \A u \in Tasks : Queued(u) => Queued(u)'
            /\ \A u \in Tasks : u \in queueList' => u \in queueList \/ (u = t /\ Queued(t)')
            /\ t \in queueList \/ active[t] # NoWorker \/ Queued(t)'
        <4>1. CASE Enqueue(t)
          BY <4>1, Appended DEF Enqueue
        <4>2. CASE UNCHANGED <<queueList, taskQueue>> /\ (t \in queueList \/ active[t] # NoWorker)
          BY <4>2 DEF Queued
        <4>3. QED
          BY <2>5, <4>1, <4>2 DEF ResumeRange
      <3>4. TaskMoves(t)
        BY <3>1, <3>2, <3>3 DEF TaskMoves, Known, Completed, Resumable
      <3>5. ASSUME NEW u \in Tasks, u # t PROVE TaskMoves(u)
        BY <3>1, <3>2, <3>3, <3>5 DEF TaskMoves, Known, Completed, Resumable, Waits
      <3>6. QED
        BY <3>2, <3>3, <3>4, <3>5 DEF Known
    <2>6. QED
      BY <2>1, <2>2, <2>3, <2>4, <2>5 DEF Submission
  <1>3. \A w \in Workers : WorkerStays(w)
    BY <1>1, <1>2, WorkersRest
  <1>4. \A c \in Callers : CallStays(c)
    BY <1>1, CallsRest
  <1>5. queueList' \subseteq Tasks
    BY <1>1 DEF Tables
  <1>6. QED
    BY <1>1, <1>2, <1>3, <1>4, <1>5, ControlMoves

\* The end of a process, and a stop, change only the process of a busy worker.
LEMMA ProcessStays ==
    ASSUME Tables, OneWorkerInv, NEW v \in Workers, NEW e, wk[v].pc # "idle",
           wk' = [wk EXCEPT ![v].proc = e], \A t \in Tasks : Known(t) => Known(t)'
    PROVE  \A w \in Workers : WorkerStays(w)
  <1>1. WorkersOK(wk)
    BY DEF Tables
  <1>2. /\ [wk[v] EXCEPT !.proc = e].pc = wk[v].pc
        /\ [wk[v] EXCEPT !.proc = e].task = wk[v].task
        /\ [wk[v] EXCEPT !.proc = e].kind = wk[v].kind
        /\ [wk[v] EXCEPT !.proc = e].orphan = wk[v].orphan
    BY <1>1 DEF WorkersOK, WorkerRecords
  <1>3. /\ wk'[v] = [wk[v] EXCEPT !.proc = e]
        /\ \A w \in Workers : w # v => wk'[w] = wk[w]
    BY <1>1 DEF WorkersOK
  <1>4. QED
    BY <1>2, <1>3 DEF WorkerStays

\* A task whose queue entries, status and request nobody touches.
LEMMA TaskRests ==
    ASSUME NEW t \in Tasks, UNCHANGED <<taskQueue, released>>,
           queueList' \subseteq queueList, status'[t] = status[t], request'[t] = request[t],
           (t \in pausing \cup terminating) => (t \in pausing \cup terminating)'
              \/ t \in queueList \/ active[t] # NoWorker,
           t \in pausing' => t \in pausing \/ active[t] = NoWorker
              \/ \E c \in Callers : ctl'[c].task = t /\ ctl'[c].exec = active[t]
    PROVE  TaskMoves(t)
  BY DEF TaskMoves, Queued, Known, Completed, Resumable, Waits

\* The end of a process moves no task.
LEMMA ProcessEndsMoves ==
    ASSUME Tables, OneWorkerInv, NEW w \in Workers, ProcessEnds(w)
    PROVE  OneWorkerInv'
  <1>1. wk[w].pc # "idle"
    BY DEF OneWorkerInv, IdleOK, ProcessEnds, IdleWorker
  <1>2. PICK e \in {"ok", "bad", "timeout"} : wk' = [wk EXCEPT ![w].proc = e]
    BY DEF ProcessEnds
  <1>3. UNCHANGED <<status, request, released, pausing, terminating, queueList, taskQueue,
                    active, ctl>>
    BY DEF ProcessEnds
  <1>4. \A t \in Tasks : TaskMoves(t) /\ (Known(t) => Known(t)')
    BY <1>3, TaskRests DEF Known
  <1>5. \A v \in Workers : WorkerStays(v)
    BY <1>1, <1>2, <1>4, ProcessStays
  <1>6. \A c \in Callers : CallStays(c)
    BY <1>3, CallsRest
  <1>7. queueList' \subseteq Tasks
    BY <1>3 DEF Tables
  <1>8. QED
    BY <1>3, <1>4, <1>5, <1>6, <1>7, ControlMoves

\* A stopped execution is one of a busy worker.
LEMMA StopStays ==
    ASSUME Tables, OneWorkerInv, NEW t \in Tasks, active[t] # NoWorker, Stop(active[t]),
           \A u \in Tasks : Known(u) => Known(u)'
    PROVE  \A w \in Workers : WorkerStays(w)
  <1>1. PICK v \in Workers : active[t] = v
    BY DEF Tables
  <1>2. wk[v].pc # "idle"
    BY <1>1 DEF OneWorkerInv, Places, Executes
  <1>3. CASE wk' = [wk EXCEPT ![v].proc = "bad"]
    BY <1>2, <1>3, ProcessStays
  <1>4. CASE wk' = wk
    BY <1>4, WorkersRest
  <1>5. QED
    BY <1>1, <1>3, <1>4 DEF Stop

\* A call that was idle, or is woken, may wait for an execution.
LEMMA CallMoves ==
    ASSUME Tables, OneWorkerInv, NEW c \in Callers, NEW r, ctl[c].exec = NoWorker,
           ctl' = [ctl EXCEPT ![c] = r],
           IF r.pc = "idle" THEN r.exec = NoWorker ELSE r.task \in Tasks
    PROVE  \A d \in Callers : CallStays(d)
  BY DEF Tables, OneWorkerInv, Places, CallStays

\* The status a pause leaves behind.
LEMMA PausedStatusMoves ==
    ASSUME Tables, NEW t \in Tasks, SetStatus(t, PausedStatus(t))
    PROVE  /\ \A u \in Tasks : u # t => status'[u] = status[u]
           /\ \A u \in Tasks : (Known(u) <=> Known(u)') /\ (Completed(u) <=> Completed(u)')
           /\ status'[t] \in {"pending", "started"} => status[t] \in {"pending", "started"}
  <1>1. status'[t] = PausedStatus(t) /\ \A u \in Tasks : u # t => status'[u] = status[u]
    BY DEF Tables, SetStatus
  <1>2. status[t] \in Statuses
    BY DEF Tables
  <1>3. /\ Known(t) <=> Known(t)'
        /\ Completed(t) <=> Completed(t)'
        /\ status'[t] \in {"pending", "started"} => status[t] \in {"pending", "started"}
    BY <1>1, <1>2 DEF PausedStatus, Known, Completed, Statuses
  <1>4. QED
    BY <1>1, <1>3 DEF Known, Completed

\* Pausing stops the execution and waits for it, or there is none.
LEMMA PauseMoves ==
    ASSUME Tables, OneWorkerInv, NEW c \in Callers, NEW t \in Tasks, Pause(c, t)
    PROVE  OneWorkerInv'
  <1>1. /\ UNCHANGED <<request, released, terminating, taskQueue, active>>
        /\ pausing' = pausing \cup {t} /\ queueList' = queueList \ {t}
        /\ ctl[c].pc = "idle" /\ ctl[c].exec = NoWorker
    BY DEF Pause, OneWorkerInv, Places
  <1>2. CASE active[t] # NoWorker
    <2>1. /\ Stop(active[t]) /\ ctl' = [ctl EXCEPT ![c] = Waiting("pausing", t)]
          /\ UNCHANGED status
      BY <1>2 DEF Pause
    <2>2. Waiting("pausing", t).pc # "idle" /\ Waiting("pausing", t).task = t
      BY DEF Waiting
    <2>3. \A d \in Callers : CallStays(d)
      BY <1>1, <2>1, <2>2, CallMoves
    <2>4. ctl'[c].task = t /\ ctl'[c].exec = active[t]
      BY <2>1 DEF Tables, Waiting
    <2>5. \A u \in Tasks : TaskMoves(u)
      BY <1>1, <2>1, <2>4, TaskRests
    <2>6. \A w \in Workers : WorkerStays(w)
      BY <1>2, <2>1, StopStays DEF Known
    <2>7. QED
      BY <1>1, <2>3, <2>5, <2>6, ControlMoves DEF Tables
  <1>3. CASE active[t] = NoWorker
    <2>1. SetStatus(t, PausedStatus(t)) /\ UNCHANGED <<wk, ctl>>
      BY <1>3 DEF Pause
    <2>2. /\ \A u \in Tasks : u # t => status'[u] = status[u]
          /\ \A u \in Tasks : (Known(u) <=> Known(u)') /\ (Completed(u) <=> Completed(u)')
      BY <2>1, PausedStatusMoves
    <2>3. TaskMoves(t)
      BY <1>1, <1>3, <2>2 DEF TaskMoves, Queued, Resumable, Waits
    <2>4. ASSUME NEW u \in Tasks, u # t PROVE TaskMoves(u)
      BY <1>1, <2>2, <2>4, TaskRests
    <2>5. \A w \in Workers : WorkerStays(w)
      BY <2>1, <2>2, WorkersRest
    <2>6. \A d \in Callers : CallStays(d)
      BY <2>1, CallsRest
    <2>7. QED
      BY <1>1, <2>3, <2>4, <2>5, <2>6, ControlMoves DEF Tables
  <1>4. QED
    BY <1>2, <1>3

\* So does the end of a pause.
LEMMA FinishPauseMoves ==
    ASSUME Tables, OneWorkerInv, NEW c \in Callers, FinishPause(c)
    PROVE  OneWorkerInv'
  <1>0. PICK t \in Tasks : t = ctl[c].task
    BY DEF OneWorkerInv, Places, FinishPause
  <1>1. /\ UNCHANGED <<request, released, pausing, terminating, queueList, taskQueue, active, wk>>
        /\ ctl' = [ctl EXCEPT ![c] = IdleCaller] /\ ctl[c].exec = NoWorker
        /\ SetStatus(t, PausedStatus(t))
    BY <1>0 DEF FinishPause, Woken
  <1>2. IdleCaller.pc = "idle" /\ IdleCaller.exec = NoWorker
    BY DEF IdleCaller
  <1>3. \A d \in Callers : CallStays(d)
    BY <1>1, <1>2, CallMoves
  <1>4. /\ \A u \in Tasks : u # t => status'[u] = status[u]
        /\ \A u \in Tasks : (Known(u) <=> Known(u)') /\ (Completed(u) <=> Completed(u)')
        /\ status'[t] \in {"pending", "started"} => status[t] \in {"pending", "started"}
    BY <1>1, PausedStatusMoves
  <1>5. TaskMoves(t)
    BY <1>1, <1>4 DEF TaskMoves, Queued, Resumable, Waits
  <1>6. ASSUME NEW u \in Tasks, u # t PROVE TaskMoves(u)
    BY <1>1, <1>4, <1>6, TaskRests
  <1>7. \A w \in Workers : WorkerStays(w)
    BY <1>1, <1>4, WorkersRest
  <1>8. QED
    BY <1>1, <1>3, <1>5, <1>6, <1>7, ControlMoves DEF Tables

\* A task that is removed loses its workers, when it is deleted.
LEMMA RemovedMoves ==
    ASSUME Tables, OneWorkerInv, NEW c \in Callers, NEW t \in Tasks, NEW deletes \in BOOLEAN,
           Removed(c, t, deletes), UNCHANGED <<released, taskQueue, active>>,
           ctl[c].exec = NoWorker, queueList' \subseteq queueList, pausing' \subseteq pausing,
           \A u \in Tasks : u # t => /\ status'[u] = status[u]
                                     /\ u \in pausing \cup terminating
                                           => (u \in pausing \cup terminating)',
           deletes => status'[t] = "absent" /\ t \notin pausing',
           ~deletes => /\ Known(t) => Known(t)'
                       /\ Known(t)' => Known(t)
                       /\ Completed(t) => Completed(t)'
                       /\ Waits(t)' => Waits(t)
    PROVE  OneWorkerInv'
  <1>1. \A d \in Callers : CallStays(d)
    <2>1. IdleCaller.pc = "idle" /\ IdleCaller.exec = NoWorker
      BY DEF IdleCaller
    <2>2. QED
      BY <2>1, CallMoves DEF Removed
  <1>2. ASSUME NEW u \in Tasks, u # t PROVE TaskMoves(u)
    <2>1. request'[u] = request[u]
      BY <1>2 DEF Removed, Tables
    <2>2. QED
      BY <1>2, <2>1, TaskRests
  <1>3. TaskMoves(t)
    <2>1. CASE deletes
      BY <2>1 DEF TaskMoves, Queued, Known, Resumable, Waits
    <2>2. CASE ~deletes
      <3>1. request' = request
        BY <2>2 DEF Removed
      <3>2. QED
        BY <2>2, <3>1 DEF TaskMoves, Queued, Resumable
    <2>3. QED
      BY <2>1, <2>2
  <1>4. ASSUME NEW w \in Workers PROVE WorkerStays(w)
    <2>1. WorkersOK(wk) /\ (wk[w].pc = "idle" => wk[w].task \notin Tasks)
      BY OrchestratorAssumption DEF Tables, OneWorkerInv, IdleOK, IdleWorker
    <2>2. CASE deletes /\ wk[w].task = t
      <3>1. wk'[w] = [wk[w] EXCEPT !.orphan = TRUE]
        BY <2>2 DEF Removed
      <3>2. /\ wk'[w].pc = wk[w].pc /\ wk'[w].task = wk[w].task /\ wk'[w].kind = wk[w].kind
            /\ wk'[w].orphan = TRUE
        BY <2>1, <3>1 DEF WorkersOK, WorkerRecords
      <3>3. QED
        BY <2>1, <2>2, <3>2 DEF WorkerStays, Known
    <2>3. CASE ~(deletes /\ wk[w].task = t)
      <3>1. wk'[w] = wk[w]
        BY <2>3 DEF Removed
      <3>2. QED
        BY <2>3, <3>1 DEF WorkerStays, Known
    <2>4. QED
      BY <2>2, <2>3
  <1>5. queueList' \subseteq Tasks
    BY DEF Tables
  <1>6. QED
    BY <1>1, <1>2, <1>3, <1>4, <1>5, ControlMoves

\* Terminating or deleting stops the execution and waits for it, or removes the task.
LEMMA TerminateMoves ==
    ASSUME Tables, OneWorkerInv, NEW c \in Callers, NEW t \in Tasks, NEW deletes \in BOOLEAN,
           Terminate(c, t, deletes)
    PROVE  OneWorkerInv'
  <1>1. /\ UNCHANGED <<released, taskQueue, active>> /\ pausing' = pausing \ {t}
        /\ ctl[c].pc = "idle" /\ ctl[c].exec = NoWorker
    BY DEF Terminate, OneWorkerInv, Places
  <1>2. CASE active[t] # NoWorker
    <2> DEFINE pc == IF deletes THEN "deleting" ELSE "terminating"
    <2>1. /\ Stop(active[t]) /\ ctl' = [ctl EXCEPT ![c] = Waiting(pc, t)]
          /\ terminating' = terminating \cup {t} /\ UNCHANGED <<status, request, queueList>>
      BY <1>2 DEF Terminate
    <2>2. Waiting(pc, t).pc # "idle" /\ Waiting(pc, t).task = t
      BY DEF Waiting
    <2>3. \A d \in Callers : CallStays(d)
      BY <1>1, <2>1, <2>2, CallMoves
    <2>4. \A u \in Tasks : TaskMoves(u)
      BY <1>1, <2>1, TaskRests
    <2>5. \A w \in Workers : WorkerStays(w)
      BY <1>2, <2>1, StopStays DEF Known
    <2>6. QED
      BY <1>1, <2>1, <2>3, <2>4, <2>5, ControlMoves DEF Tables
  <1>3. CASE active[t] = NoWorker
    <2>1. /\ terminating' = IF deletes THEN terminating \ {t} ELSE terminating \cup {t}
          /\ SetStatus(t, IF deletes THEN "absent"
                          ELSE IF Known(t) /\ ~Completed(t) THEN "failure" ELSE status[t])
          /\ queueList' = queueList \ {t}
          /\ Removed(c, t, deletes)
      BY <1>3 DEF Terminate
    <2>2. /\ \A u \in Tasks : u # t => status'[u] = status[u]
          /\ status'[t] = IF deletes THEN "absent"
                          ELSE IF Known(t) /\ ~Completed(t) THEN "failure" ELSE status[t]
      BY <2>1 DEF SetStatus, Tables
    <2>3. CASE deletes
      BY <1>1, <2>1, <2>2, <2>3, RemovedMoves
    <2>4. CASE ~deletes
      <3>1. /\ Known(t) => Known(t)'
            /\ Known(t)' => Known(t)
            /\ Completed(t) => Completed(t)'
            /\ ~Waits(t)'
        BY <2>1, <2>2, <2>4 DEF Known, Completed, Waits
      <3>2. QED
        BY <1>1, <2>1, <2>2, <2>4, <3>1, RemovedMoves
    <2>5. QED
      BY <2>3, <2>4
  <1>4. QED
    BY <1>2, <1>3

\* The end of a termination or a deletion removes the task.
LEMMA FinishTerminateMoves ==
    ASSUME Tables, OneWorkerInv, NEW c \in Callers, FinishTerminate(c)
    PROVE  OneWorkerInv'
  <1>0. PICK t \in Tasks, deletes \in BOOLEAN :
           t = ctl[c].task /\ deletes = (ctl[c].pc = "deleting")
    BY DEF OneWorkerInv, Places, FinishTerminate
  <1>1. /\ Removed(c, t, deletes) /\ ctl[c].exec = NoWorker
        /\ SetStatus(t, IF deletes THEN "absent" ELSE status[t])
        /\ pausing' = IF deletes THEN pausing \ {t} ELSE pausing
        /\ terminating' = IF deletes THEN terminating \ {t} ELSE terminating
        /\ UNCHANGED <<released, queueList, taskQueue, active>>
    BY <1>0 DEF FinishTerminate, Woken
  <1>2. /\ \A u \in Tasks : u # t => status'[u] = status[u]
        /\ status'[t] = IF deletes THEN "absent" ELSE status[t]
    BY <1>0, <1>1 DEF SetStatus, Tables
  <1>3. CASE deletes
    BY <1>0, <1>1, <1>2, <1>3, RemovedMoves
  <1>4. CASE ~deletes
    <2>1. /\ Known(t) => Known(t)'
          /\ Known(t)' => Known(t)
          /\ Completed(t) => Completed(t)'
          /\ Waits(t)' => Waits(t)
      BY <1>1, <1>2, <1>4 DEF Known, Completed, Waits
    <2>2. QED
      BY <1>0, <1>1, <1>2, <1>4, <2>1, RemovedMoves
  <1>5. QED
    BY <1>3, <1>4
-----------------------------------------------------------------------------
(* What the only worker does.                                               *)

\* With one worker, no other task is executed or held.
LEMMA OnlyOne ==
    ASSUME Tables, OneWorkerInv, NEW w \in Workers, \A v \in Workers : v = w,
           NEW t, wk[w].task = t, NEW u \in Tasks, u # t
    PROVE  active[u] = NoWorker /\ ~Held(u)
  BY DEF Tables, OneWorkerInv, Places, Held

\* What a worker reports goes to its own task, and only while that is the one
\* in the table.
Reports(o, t) ==
    /\ \A u \in Tasks : u # t => status'[u] = status[u]
    /\ o => status' = status

LEMMA ReportMoves ==
    ASSUME Tables, NEW w \in Workers, NEW t \in Tasks, NEW s, Report(w, t, s)
    PROVE  /\ Reports(wk[w].orphan, t)
           /\ ~wk[w].orphan => status'[t] = s
  BY DEF Tables, Report, Reports

LEMMA MarkFailureMoves ==
    ASSUME Tables, NEW w \in Workers, NEW t \in Tasks, MarkFailure(w, t)
    PROVE  /\ Reports(wk[w].orphan, t)
           /\ ~wk[w].orphan => Completed(t)'
  <1> DEFINE s == IF Completed(t) THEN status[t] ELSE "failure"
  <1>1. Report(w, t, s) /\ s \in {"success", "failure"}
    BY DEF MarkFailure, Completed
  <1> HIDE DEF s
  <1>2. Reports(wk[w].orphan, t) /\ (~wk[w].orphan => status'[t] = s)
    BY <1>1, ReportMoves
  <1>3. QED
    BY <1>1, <1>2 DEF Completed

\* A call is woken or left alone.
CallsGoOn ==
    \A c \in Callers : ctl'[c].pc = ctl[c].pc /\ ctl'[c].task = ctl[c].task
                          /\ ctl'[c].exec \in {ctl[c].exec, NoWorker}

LEMMA SignalMoves ==
    ASSUME Tables, NEW w, SignalFinished(w) \/ UNCHANGED ctl
    PROVE  CallsGoOn
  <1>1. CASE UNCHANGED ctl
    BY <1>1 DEF CallsGoOn
  <1>2. ASSUME NEW c \in Callers, SignalFinished(w)
        PROVE  ctl'[c].pc = ctl[c].pc /\ ctl'[c].task = ctl[c].task
                  /\ ctl'[c].exec \in {ctl[c].exec, NoWorker}
    <2>1. ctl[c] \in CallerRecords
      BY DEF Tables
    <2>2. ctl'[c] = IF ctl[c].exec = w THEN [ctl[c] EXCEPT !.exec = NoWorker] ELSE ctl[c]
      BY <1>2 DEF SignalFinished
    <2>3. QED
      BY <2>1, <2>2 DEF CallerRecords
  <1>3. QED
    BY <1>1, <1>2 DEF CallsGoOn

\* The worker is through with its task, which no longer waits.
LEMMA WorkerRests ==
    ASSUME Tables, OneWorkerInv, NEW w \in Workers, \A v \in Workers : v = w,
           NEW t \in Tasks, wk[w].task = t, Busy(wk[w]),
           wk' = [wk EXCEPT ![w] = IdleWorker],
           active' = Pop(t) \/ (active' = active /\ ~Executes(wk[w])),
           UNCHANGED <<queueList, taskQueue, pausing, terminating>>, CallsGoOn,
           Reports(wk[w].orphan, t), ~wk[w].orphan => ~Waits(t)'
    PROVE  OneWorkerInv'
  <1>1. wk'[w] = IdleWorker /\ IdleWorker.pc = "idle"
    BY DEF Tables, WorkersOK, IdleWorker
  <1>2. \A u \in Tasks : active'[u] = NoWorker
    <2>1. \A u \in Tasks : u # t => active[u] = NoWorker
      BY OnlyOne
    <2>2. ~Executes(wk[w]) => active[t] = NoWorker
      BY DEF Tables, OneWorkerInv, Places
    <2>3. QED
      BY <2>1, <2>2 DEF Tables, Pop
  <1>3. \A u \in Tasks : Queued(u) <=> Queued(u)'
    BY DEF Queued
  <1>4. Places'
    <2>1. \A u \in Tasks : active'[u] # NoWorker =>
             Executes(wk'[active'[u]]) /\ wk'[active'[u]].task = u
      BY <1>2
    <2>2. \A u \in queueList' : Queued(u)'
      BY <1>3 DEF Tables, OneWorkerInv, Places
    <2>3. \A c \in Callers : IF ctl'[c].pc = "idle" THEN ctl'[c].exec = NoWorker
                                                   ELSE ctl'[c].task \in Tasks
      BY DEF OneWorkerInv, Places, CallsGoOn
    <2>4. QED
      BY <2>1, <2>2, <2>3 DEF Places, Executes
  <1>5. ASSUME NEW v \in Workers
        PROVE  IdleOK(wk[v])' /\ HeldOK(wk[v])' /\ OrphanOK(wk[v])' /\ WatchedOK(v, wk[v])'
    BY <1>1 DEF IdleOK, HeldOK, OrphanOK, WatchedOK, Busy, Executes
  <1>6. ASSUME NEW u \in Tasks, Waits(u)' PROVE Queued(u)'
    <2>1. CASE u = t
      <3>1. wk[w].orphan /\ Waits(t)
        BY <1>6, <2>1 DEF Reports, Waits
      <3>2. Known(t)
        BY <3>1 DEF Waits, Known
      <3>3. QED
        BY <1>3, <2>1, <3>1, <3>2 DEF OneWorkerInv, OrphanOK
    <2>2. CASE u # t
      <3>1. Waits(u)
        BY <1>6, <2>2 DEF Reports, Waits
      <3>2. ~Held(u)
        BY <2>2, OnlyOne
      <3>3. QED
        BY <1>3, <3>1, <3>2 DEF OneWorkerInv, NoTaskIsLost, Waits
    <2>3. QED
      BY <2>1, <2>2
  <1>7. NoTaskIsLost'
    BY <1>6 DEF NoTaskIsLost, Waits
  <1>8. QED
    BY <1>4, <1>5, <1>7 DEF OneWorkerInv

\* The worker goes on with its task, in a process or reaping it.
LEMMA WorkerGoes ==
    ASSUME Tables, OneWorkerInv, NEW w \in Workers, \A v \in Workers : v = w,
           NEW t \in Tasks, wk[w].task = t, Busy(wk[w]),
           wk'[w].task = t, wk'[w].orphan = wk[w].orphan, Executes(wk'[w]),
           active' = [active EXCEPT ![t] = w],
           UNCHANGED <<queueList, taskQueue, pausing, terminating>>, CallsGoOn,
           Reports(wk[w].orphan, t), wk'[w].pc = "running" => t \notin pausing,
           ~wk[w].orphan =>
              /\ Known(t)'
              /\ wk'[w].pc = "reaping" \/ wk'[w].kind = "whole" => ~Resumable(t)'
              /\ wk'[w].pc = "reaping" => Completed(t)'
    PROVE  OneWorkerInv'
  <1>1. \A u \in Tasks : active'[u] = IF u = t THEN w ELSE NoWorker
    BY OnlyOne DEF Tables
  <1>2. \A u \in Tasks : Queued(u) <=> Queued(u)'
    BY DEF Queued
  <1>3. w # NoWorker
    BY OrchestratorAssumption
  <1>4. Places'
    <2>1. \A u \in Tasks : active'[u] # NoWorker =>
             Executes(wk'[active'[u]]) /\ wk'[active'[u]].task = u
      BY <1>1, <1>3
    <2>2. \A u \in queueList' : Queued(u)'
      BY <1>2 DEF Tables, OneWorkerInv, Places
    <2>3. \A c \in Callers : IF ctl'[c].pc = "idle" THEN ctl'[c].exec = NoWorker
                                                   ELSE ctl'[c].task \in Tasks
      BY DEF OneWorkerInv, Places, CallsGoOn
    <2>4. QED
      BY <2>1, <2>2, <2>3 DEF Places, Executes
  <1>5. OrphanOK(wk[w])'
    <2>1. wk[w].orphan => (Known(t) <=> Known(t)')
      BY DEF Reports, Known
    <2>2. wk[w].orphan /\ Known(t)' => Queued(t)'
      BY <1>2, <2>1 DEF OneWorkerInv, OrphanOK
    <2>3. QED
      BY <2>2 DEF OrphanOK, Known, Queued
  <1>6. HeldOK(wk[w])'
    BY DEF HeldOK, Known, Completed, Resumable
  <1>7. IdleOK(wk[w])' /\ WatchedOK(w, wk[w])'
    BY <1>1 DEF IdleOK, WatchedOK, Executes
  <1>8. ASSUME NEW u \in Tasks, Waits(u)' PROVE Queued(u)' \/ Held(u)'
    <2>1. CASE u = t /\ ~wk[w].orphan
      BY <2>1 DEF Held
    <2>2. CASE u = t /\ wk[w].orphan
      <3>1. Waits(t) /\ Known(t)
        BY <1>8, <2>2 DEF Reports, Waits, Known
      <3>2. QED
        BY <1>2, <2>2, <3>1 DEF OneWorkerInv, OrphanOK
    <2>3. CASE u # t
      <3>1. Waits(u)
        BY <1>8, <2>3 DEF Reports, Waits
      <3>2. ~Held(u)
        BY <2>3, OnlyOne
      <3>3. QED
        BY <1>2, <3>1, <3>2 DEF OneWorkerInv, NoTaskIsLost, Waits
    <2>4. QED
      BY <2>1, <2>2, <2>3
  <1>9. NoTaskIsLost'
    BY <1>8 DEF NoTaskIsLost, Waits
  <1>10. QED
    BY <1>4, <1>5, <1>6, <1>7, <1>9 DEF OneWorkerInv

\* A started execution is the worker's, which goes on with its task.
LEMMA StartGoes ==
    ASSUME Tables, OneWorkerInv, NEW w \in Workers, \A v \in Workers : v = w,
           NEW t \in Tasks, wk[w].task = t, Busy(wk[w]), NEW p,
           NEW k \in {"range", "assembly"},
           StartExecution(w, t, k, p), t \notin pausing,
           UNCHANGED <<queueList, taskQueue, pausing, terminating>>, CallsGoOn
    PROVE  OneWorkerInv'
  <1> DEFINE r == Running(t, k, p, wk[w].orphan)
  <1>1. r.pc = "running" /\ r.task = t /\ r.kind = k /\ r.orphan = wk[w].orphan
    BY DEF Running
  <1>2. wk' = [wk EXCEPT ![w] = r]
    BY DEF StartExecution
  <1> HIDE DEF r
  <1>3. wk'[w] = r
    BY <1>2 DEF Tables, WorkersOK
  <1>4. active' = [active EXCEPT ![t] = w] /\ Report(w, t, "started")
    BY DEF StartExecution
  <1>5. Reports(wk[w].orphan, t) /\ (~wk[w].orphan => status'[t] = "started")
    BY <1>4, ReportMoves
  <1>6. Executes(wk'[w]) /\ ~wk[w].orphan => Known(t)'
    BY <1>1, <1>3, <1>5 DEF Executes, Known
  <1>7. wk'[w].kind # "whole" /\ wk'[w].pc # "reaping"
    BY <1>1, <1>3
  <1>8. QED
    BY <1>1, <1>3, <1>4, <1>5, <1>6, <1>7, WorkerGoes DEF Executes

\* The loop of a PDF starts an execution or gives the task up.
LEMMA StartPdfMoves ==
    ASSUME Tables, OneWorkerInv, NEW w \in Workers, \A v \in Workers : v = w, StartPdf(w)
    PROVE  OneWorkerInv'
  <1>1. PICK t \in Tasks : t = wk[w].task
    BY DEF Tables, WorkersOK, StartPdf
  <1>2. /\ UNCHANGED <<queueList, taskQueue, pausing, terminating, ctl>>
        /\ Busy(wk[w]) /\ ~Executes(wk[w])
    BY DEF StartPdf, Busy, Executes
  <1>3. CallsGoOn
    BY <1>2 DEF CallsGoOn
  <1>4. CASE /\ MarkFailure(w, t)
             /\ wk' = [wk EXCEPT ![w] = IdleWorker] /\ UNCHANGED active
    <2>1. Reports(wk[w].orphan, t) /\ (~wk[w].orphan => Completed(t)')
      BY <1>4, MarkFailureMoves
    <2>2. Completed(t)' => ~Waits(t)'
      BY DEF Completed, Waits
    <2>3. QED
      BY <1>1, <1>2, <1>3, <1>4, <2>1, <2>2, WorkerRests
  <1>5. CASE /\ Report(w, t, "pending") /\ t \in pausing
             /\ wk' = [wk EXCEPT ![w] = IdleWorker] /\ UNCHANGED active
    <2>1. Reports(wk[w].orphan, t)
      BY <1>5, ReportMoves
    <2>2. ~Waits(t)'
      BY <1>2, <1>5 DEF Waits
    <2>3. QED
      BY <1>1, <1>2, <1>3, <1>5, <2>1, <2>2, WorkerRests
  <1>6. CASE t \notin pausing /\ StartExecution(w, t, Kind(manifest[t].done), manifest[t].done)
    <2>1. PICK k \in {"range", "assembly"}, p \in {manifest[t].done} : StartExecution(w, t, k, p)
      BY <1>6 DEF Kind
    <2>2. QED
      BY <1>1, <1>2, <1>3, <1>6, <2>1, StartGoes
  <1>7. QED
    BY <1>1, <1>4, <1>5, <1>6 DEF StartPdf

\* A worker whose execution ended holds a task, which nobody else executes.
LEMMA EndMoves ==
    ASSUME Tables, OneWorkerInv, NEW w \in Workers, \A v \in Workers : v = w,
           NEW t \in Tasks, wk[w].task = t, Busy(wk[w]), EndExecution(w, t),
           UNCHANGED <<queueList, taskQueue, pausing, terminating>>,
           Reports(wk[w].orphan, t), ~wk[w].orphan => ~Waits(t)'
    PROVE  OneWorkerInv'
  <1>1. CallsGoOn /\ active' = Pop(t) /\ wk' = [wk EXCEPT ![w] = IdleWorker]
    BY SignalMoves DEF EndExecution
  <1>2. QED
    BY <1>1, WorkerRests

LEMMA FinishWithoutResultMoves ==
    ASSUME Tables, OneWorkerInv, NEW w \in Workers, \A v \in Workers : v = w,
           FinishWithoutResult(w)
    PROVE  OneWorkerInv'
  <1>1. PICK t \in Tasks : t = wk[w].task
    BY DEF Tables, WorkersOK, FinishWithoutResult, Ended
  <1>2. /\ UNCHANGED <<queueList, taskQueue, pausing, terminating>> /\ Busy(wk[w])
        /\ EndExecution(w, t)
    BY <1>1 DEF FinishWithoutResult, Ended, Busy
  <1>3. CASE MarkFailure(w, t)
    <2>1. Reports(wk[w].orphan, t) /\ (~wk[w].orphan => Completed(t)')
      BY <1>3, MarkFailureMoves
    <2>2. Completed(t)' => ~Waits(t)'
      BY DEF Completed, Waits
    <2>3. QED
      BY <1>1, <1>2, <2>1, <2>2, EndMoves
  <1>4. CASE Report(w, t, "pending") /\ t \in pausing
    <2>1. Reports(wk[w].orphan, t)
      BY <1>4, ReportMoves
    <2>2. ~Waits(t)'
      BY <1>2, <1>4 DEF Waits
    <2>3. QED
      BY <1>1, <1>2, <2>1, <2>2, EndMoves
  <1>5. QED
    BY <1>1, <1>3, <1>4 DEF FinishWithoutResult, StoppedByPause

LEMMA FinishRangeMoves ==
    ASSUME Tables, OneWorkerInv, NEW w \in Workers, \A v \in Workers : v = w, FinishRange(w)
    PROVE  OneWorkerInv'
  <1>1. PICK t \in Tasks : t = wk[w].task
    BY DEF Tables, WorkersOK, FinishRange, Ended
  <1>2. /\ UNCHANGED <<queueList, taskQueue, pausing, terminating>> /\ Busy(wk[w])
        /\ SignalFinished(w)
    BY <1>1 DEF FinishRange, Ended, Busy
  <1>3. CallsGoOn
    BY <1>2, SignalMoves
  <1>4. CASE t \in pausing
    <2>1. Report(w, t, "pending") /\ active' = Pop(t) /\ wk' = [wk EXCEPT ![w] = IdleWorker]
      BY <1>1, <1>4 DEF FinishRange
    <2>2. Reports(wk[w].orphan, t)
      BY <2>1, ReportMoves
    <2>3. ~Waits(t)'
      BY <1>2, <1>4 DEF Waits
    <2>4. QED
      BY <1>1, <1>2, <1>3, <2>1, <2>2, <2>3, WorkerRests
  <1>5. CASE t \notin pausing
    <2>1. PICK p : StartExecution(w, t, Kind(p), p)
      BY <1>1, <1>5 DEF FinishRange
    <2>2. Kind(p) \in {"range", "assembly"}
      BY DEF Kind
    <2>3. QED
      BY <1>1, <1>2, <1>3, <1>5, <2>1, <2>2, StartGoes
  <1>6. QED
    BY <1>4, <1>5

LEMMA FinishAssemblyMoves ==
    ASSUME Tables, OneWorkerInv, NEW w \in Workers, \A v \in Workers : v = w, FinishAssembly(w)
    PROVE  OneWorkerInv'
  <1>1. PICK t \in Tasks : t = wk[w].task
    BY DEF Tables, WorkersOK, FinishAssembly, Ended
  <1>2. /\ UNCHANGED <<queueList, taskQueue, pausing, terminating>> /\ Busy(wk[w])
        /\ EndExecution(w, t)
    BY <1>1 DEF FinishAssembly, Ended, Busy
  <1>3. CASE t \in pausing /\ Report(w, t, "pending")
    <2>1. Reports(wk[w].orphan, t)
      BY <1>3, ReportMoves
    <2>2. ~Waits(t)'
      BY <1>2, <1>3 DEF Waits
    <2>3. QED
      BY <1>1, <1>2, <2>1, <2>2, EndMoves
  <1>4. CASE Report(w, t, "success")
    <2>1. Reports(wk[w].orphan, t) /\ (~wk[w].orphan => ~Waits(t)')
      BY <1>4, ReportMoves DEF Waits
    <2>2. QED
      BY <1>1, <1>2, <2>1, EndMoves
  <1>5. QED
    BY <1>1, <1>3, <1>4 DEF FinishAssembly

LEMMA FinishWholeMoves ==
    ASSUME Tables, OneWorkerInv, NEW w \in Workers, \A v \in Workers : v = w, FinishWhole(w)
    PROVE  OneWorkerInv'
  <1>1. PICK t \in Tasks : t = wk[w].task
    BY DEF Tables, WorkersOK, FinishWhole, Ended
  <1>2. /\ UNCHANGED <<queueList, taskQueue, pausing, terminating, ctl, request, active>>
        /\ Busy(wk[w]) /\ wk[w].pc = "running" /\ wk[w].kind = "whole"
        /\ wk' = [wk EXCEPT ![w].pc = "reaping"]
    BY DEF FinishWhole, Ended, Busy
  <1>3. CallsGoOn
    BY <1>2 DEF CallsGoOn
  <1>4. wk'[w].pc = "reaping" /\ wk'[w].task = t /\ wk'[w].orphan = wk[w].orphan
    <2>1. wk[w] \in WorkerRecords
      BY DEF Tables, WorkersOK
    <2>2. wk'[w] = [wk[w] EXCEPT !.pc = "reaping"]
      BY <1>2 DEF Tables, WorkersOK
    <2>3. QED
      BY <1>1, <2>1, <2>2 DEF WorkerRecords
  <1>5. active' = [active EXCEPT ![t] = w]
    BY <1>1, <1>2 DEF Tables, OneWorkerInv, WatchedOK, Executes
  <1>6. Reports(wk[w].orphan, t) /\ (~wk[w].orphan => Completed(t)')
    <2>1. CASE MarkFailure(w, t)
      BY <2>1, MarkFailureMoves
    <2>2. CASE Report(w, t, "success")
      BY <2>2, ReportMoves DEF Completed
    <2>3. QED
      BY <1>1, <2>1, <2>2 DEF FinishWhole
  <1>7. released \subseteq released'
    BY DEF FinishWhole, ReleaseSources
  <1>8. ~wk[w].orphan => ~Resumable(t)' /\ Known(t)'
    <2>1. ~wk[w].orphan => ~Resumable(t) /\ Known(t)
      BY <1>1, <1>2 DEF OneWorkerInv, HeldOK
    <2>2. QED
      BY <1>2, <1>6, <1>7, <2>1 DEF Resumable, Known, Completed
  <1>9. Executes(wk'[w]) /\ wk'[w].pc # "running"
    BY <1>4 DEF Executes
  <1>10. QED
    BY <1>1, <1>2, <1>3, <1>4, <1>5, <1>6, <1>8, <1>9, WorkerGoes

LEMMA ReapMoves ==
    ASSUME Tables, OneWorkerInv, NEW w \in Workers, \A v \in Workers : v = w, Reap(w)
    PROVE  OneWorkerInv'
  <1>1. PICK t \in Tasks : t = wk[w].task
    BY DEF Tables, WorkersOK, Reap
  <1>2. /\ UNCHANGED <<status, queueList, taskQueue, pausing, terminating>>
        /\ Busy(wk[w]) /\ EndExecution(w, t) /\ wk[w].pc = "reaping"
    BY <1>1 DEF Reap, Busy
  <1>3. Reports(wk[w].orphan, t)
    BY <1>2 DEF Reports
  <1>4. ~wk[w].orphan => Completed(t)
    BY <1>1, <1>2 DEF OneWorkerInv, HeldOK
  <1>5. ~wk[w].orphan => ~Waits(t)'
    BY <1>2, <1>4 DEF Completed, Waits
  <1>6. QED
    BY <1>1, <1>2, <1>3, <1>5, EndMoves

\* The only worker takes the next task: no other one leaves the queue.
LEMMA TakeMoves ==
    ASSUME Tables, OneWorkerInv, NEW w \in Workers, \A v \in Workers : v = w, Take(w)
    PROVE  OneWorkerInv'
  <1>1. PICK t \in Tasks : t = Head(taskQueue)
    <2>1. taskQueue \in Seq(Tasks) /\ taskQueue # <<>>
      BY DEF Tables, Take
    <2>2. QED
      BY <2>1
  <1>2. /\ UNCHANGED <<request, released, pausing, terminating, ctl>>
        /\ queueList' = queueList \ {t} /\ wk[w].pc = "idle"
        /\ taskQueue # <<>> /\ taskQueue' = Tail(taskQueue)
    BY <1>1 DEF Take
  <1>3. wk[w] = IdleWorker /\ wk[w].pc = "idle" /\ ~wk[w].orphan /\ wk[w].task = NoTask
    <2>1. wk[w] = IdleWorker
      BY <1>2 DEF OneWorkerInv, IdleOK
    <2>2. IdleWorker.pc = "idle" /\ IdleWorker.orphan = FALSE /\ IdleWorker.task = NoTask
      BY DEF IdleWorker
    <2>3. QED
      BY <2>1, <2>2
  <1>4. \A u \in Tasks : active[u] = NoWorker /\ ~Held(u)
    BY <1>3, OrchestratorAssumption, OnlyOne
  <1>5. \A u \in Tasks : u # t /\ Queued(u) => Queued(u)'
    BY <1>1, <1>2, Taken
  <1>6. \A u \in queueList' : Queued(u)'
    BY <1>2, <1>5 DEF Tables, OneWorkerInv, Places
  <1>7. ASSUME Reports(FALSE, t), ~Waits(t)' \/ Held(t)'
        PROVE  NoTaskIsLost'
    <2>1. ASSUME NEW u \in Tasks, u # t, Waits(u)' PROVE Queued(u)'
      <3>1. Waits(u)
        BY <1>2, <1>7, <2>1 DEF Reports, Waits
      <3>2. QED
        BY <1>4, <1>5, <2>1, <3>1 DEF OneWorkerInv, NoTaskIsLost, Waits
    <2>2. QED
      BY <1>7, <2>1 DEF NoTaskIsLost, Waits
  <1>8. ASSUME UNCHANGED <<active, wk>>, Reports(FALSE, t), ~Waits(t)'
        PROVE  OneWorkerInv'
    <2>1. Places'
      BY <1>2, <1>4, <1>6, <1>8 DEF OneWorkerInv, Places, Executes
    <2>2. \A v \in Workers : IdleOK(wk[v])' /\ HeldOK(wk[v])' /\ OrphanOK(wk[v])'
                                /\ WatchedOK(v, wk[v])'
      BY <1>3, <1>8 DEF IdleOK, HeldOK, OrphanOK, WatchedOK, Busy, Executes
    <2>3. QED
      BY <1>7, <1>8, <2>1, <2>2 DEF OneWorkerInv
  <1>9. CASE ~Known(t) /\ UNCHANGED <<status, active, wk>>
    <2>1. Reports(FALSE, t) /\ ~Waits(t)'
      BY <1>9 DEF Reports, Waits, Known
    <2>2. QED
      BY <1>8, <1>9, <2>1
  <1>10. CASE MarkFailure(w, t) /\ UNCHANGED <<active, wk>>
    <2>1. Reports(FALSE, t) /\ Completed(t)'
      BY <1>3, <1>10, MarkFailureMoves DEF Reports
    <2>2. ~Waits(t)'
      BY <2>1 DEF Completed, Waits
    <2>3. QED
      BY <1>8, <1>10, <2>1, <2>2
  <1>11. CASE Report(w, t, "pending") /\ t \in pausing /\ UNCHANGED <<active, wk>>
    <2>1. Reports(FALSE, t)
      BY <1>3, <1>11, ReportMoves DEF Reports
    <2>2. ~Waits(t)'
      BY <1>2, <1>11 DEF Waits
    <2>3. QED
      BY <1>8, <1>11, <2>1, <2>2
  <1>12. ASSUME Report(w, t, "started"), NEW r, wk' = [wk EXCEPT ![w] = r],
                Busy(r), r.task = t, ~r.orphan,
                \/ r.pc = "ready" /\ active' = active
                \/ /\ r.pc = "running" /\ active' = [active EXCEPT ![t] = w]
                   /\ ~Resumable(t) /\ Known(t)
         PROVE  OneWorkerInv'
    <2>1. wk'[w] = r
      BY <1>12 DEF Tables, WorkersOK
    <2>2. Reports(FALSE, t) /\ status'[t] = "started"
      BY <1>3, <1>12, ReportMoves DEF Reports
    <2>3. Held(t)' /\ Known(t)'
      BY <1>12, <2>1, <2>2 DEF Held, Known
    <2>4. Places'
      <3>1. \A u \in Tasks : active'[u] # NoWorker =>
               Executes(wk'[active'[u]]) /\ wk'[active'[u]].task = u
        BY <1>4, <1>12, <2>1 DEF Tables, Executes
      <3>2. QED
        BY <1>2, <1>6, <3>1 DEF OneWorkerInv, Places, Executes
    <2>5. Known(t) => (Resumable(t)' <=> Resumable(t))
      BY <1>2, <2>3 DEF Resumable, Known
    <2>6. HeldOK(wk[w])'
      BY <1>12, <2>1, <2>3, <2>5 DEF HeldOK, Resumable, Known
    <2>7. IdleOK(wk[w])' /\ OrphanOK(wk[w])'
      BY <1>12, <2>1 DEF IdleOK, OrphanOK, Busy
    <2>8. WatchedOK(w, wk[w])'
      BY <1>12, <2>1, <2>5 DEF WatchedOK, Executes, Tables, Resumable, Known
    <2>9. QED
      BY <1>7, <2>2, <2>3, <2>4, <2>6, <2>7, <2>8 DEF OneWorkerInv
  <1>13. CASE Report(w, t, "started") /\ wk' = [wk EXCEPT ![w] = Ready(t)] /\ UNCHANGED active
    <2>1. Busy(Ready(t)) /\ Ready(t).task = t /\ ~Ready(t).orphan /\ Ready(t).pc = "ready"
      BY DEF Ready, Busy
    <2>2. QED
      BY <1>12, <1>13, <2>1
  <1>14. CASE Known(t) /\ ~Resumable(t) /\ StartExecution(w, t, "whole", 0)
    <2> DEFINE r == Running(t, "whole", 0, FALSE)
    <2>1. Busy(r) /\ r.task = t /\ ~r.orphan /\ r.pc = "running"
      BY DEF Running, Busy
    <2>2. /\ Report(w, t, "started") /\ wk' = [wk EXCEPT ![w] = r]
          /\ active' = [active EXCEPT ![t] = w]
      BY <1>3, <1>14 DEF StartExecution, IdleWorker
    <2>3. QED
      BY <1>12, <1>14, <2>1, <2>2
  <1>15. QED
    BY <1>1, <1>9, <1>10, <1>11, <1>13, <1>14 DEF Take

\* The only worker keeps the invariant in everything it does.
LEMMA OnlyWorkerMoves ==
    ASSUME Tables, OneWorkerInv, NEW w \in Workers, \A v \in Workers : v = w, Worker(w)
    PROVE  OneWorkerInv'
  BY TakeMoves, StartPdfMoves, FinishWithoutResultMoves, FinishRangeMoves, FinishAssemblyMoves,
     FinishWholeMoves, ReapMoves DEF Worker

\* Nothing waits, is queued or executed when the service starts,
LEMMA FreshOneWorker ==
    ASSUME status = [t \in Tasks |-> "absent"], queueList = {},
           active = [t \in Tasks |-> NoWorker], wk = [w \in Workers |-> IdleWorker],
           ctl = [c \in Callers |-> IdleCaller]
    PROVE  OneWorkerInv
  <1>1. Places
    BY DEF Places, IdleCaller
  <1>2. ASSUME NEW w \in Workers
        PROVE  IdleOK(wk[w]) /\ HeldOK(wk[w]) /\ OrphanOK(wk[w]) /\ WatchedOK(w, wk[w])
    <2>1. wk[w] = IdleWorker /\ IdleWorker.pc = "idle"
      BY DEF IdleWorker
    <2>2. QED
      BY <2>1 DEF IdleOK, HeldOK, OrphanOK, WatchedOK, Busy, Executes
  <1>3. NoTaskIsLost
    BY DEF NoTaskIsLost
  <1>4. QED
    BY <1>1, <1>2, <1>3 DEF OneWorkerInv

\* or starts again.
LEMMA RestartedOneWorker == Restart => OneWorkerInv'
  <1> SUFFICES ASSUME Restart PROVE OneWorkerInv'
    OBVIOUS
  <1>1. /\ status' = [t \in Tasks |-> "absent"] /\ queueList' = {}
        /\ active' = [t \in Tasks |-> NoWorker] /\ wk' = [w \in Workers |-> IdleWorker]
        /\ ctl' = [c \in Callers |-> IdleCaller]
    BY DEF Restart
  <1>2. Places'
    BY <1>1 DEF Places, IdleCaller
  <1>3. ASSUME NEW w \in Workers
        PROVE  IdleOK(wk[w])' /\ HeldOK(wk[w])' /\ OrphanOK(wk[w])' /\ WatchedOK(w, wk[w])'
    <2>1. wk'[w] = IdleWorker /\ IdleWorker.pc = "idle"
      BY <1>1 DEF IdleWorker
    <2>2. QED
      BY <2>1 DEF IdleOK, HeldOK, OrphanOK, WatchedOK, Busy, Executes
  <1>4. NoTaskIsLost'
    BY <1>1 DEF NoTaskIsLost
  <1>5. QED
    BY <1>2, <1>3, <1>4 DEF OneWorkerInv

\* Every step keeps OneWorkerInv, when there is at most one worker.
LEMMA OneWorkerStep ==
    ASSUME \A v, w \in Workers : v = w, Tables, OneWorkerInv, [Next]_vars
    PROVE  OneWorkerInv'
  <1>1. ASSUME NEW t \in Tasks, Submission(t) PROVE OneWorkerInv'
    BY <1>1, SubmissionMoves
  <1>2. ASSUME NEW w \in Workers, Worker(w) PROVE OneWorkerInv'
    BY <1>2, OnlyWorkerMoves
  <1>3. ASSUME NEW w \in Workers, ProcessEnds(w) PROVE OneWorkerInv'
    BY <1>3, ProcessEndsMoves
  <1>4. ASSUME NEW c \in Callers, Control(c) PROVE OneWorkerInv'
    <2>1. ASSUME NEW t \in Tasks, Pause(c, t) PROVE OneWorkerInv'
      BY <2>1, PauseMoves
    <2>2. ASSUME NEW t \in Tasks, TerminateTask(c, t) \/ DeleteTask(c, t) PROVE OneWorkerInv'
      BY <2>2, TerminateMoves DEF TerminateTask, DeleteTask
    <2>3. QED
      BY <1>4, <2>1, <2>2, FinishPauseMoves, FinishTerminateMoves DEF Control
  <1>5. CASE UNCHANGED vars
    BY <1>5 DEF vars, OneWorkerInv, Places, NoTaskIsLost, IdleOK, HeldOK, OrphanOK, WatchedOK,
       Known, Completed, Resumable, Queued, Held, Executes, Busy
  <1>6. QED
    BY <1>1, <1>2, <1>3, <1>4, <1>5, RestartedOneWorker DEF Next

\* While a worker executes a paused PDF somebody still waits for it to stop.
LEMMA OneWorkerIsQuiet == Tables /\ OneWorkerInv => PausedIsQuiet
  BY DEF Tables, OneWorkerInv, WatchedOK, PausedIsQuiet, Executing

\* With one worker (num_workers of 1), no task that is pending or started and that
\* nobody stopped is ever lost by enqueue_task, pause_task, a resume or the worker's
\* loop, and a PDF whose pause has returned is not being converted.
THEOREM OneWorkerLosesNothing == Spec => []OneWorkerKeepsTasks
  <1>1. CASE \A v, w \in Workers : v = w
    <2>1. Init => OneWorkerInv
      BY FreshOneWorker DEF Init
    <2>2. Tables /\ OneWorkerInv /\ [Next]_vars => OneWorkerInv'
      BY <1>1, OneWorkerStep
    <2>3. Tables /\ OneWorkerInv => OneWorkerKeepsTasks
      BY OneWorkerIsQuiet DEF OneWorkerInv, OneWorkerKeepsTasks
    <2>4. QED
      BY <2>1, <2>2, <2>3, InitTyped, StepTyped, PTL DEF Spec
  <1>2. CASE ~(\A v, w \in Workers : v = w)
    <2>1. OneWorkerKeepsTasks
      BY <1>2 DEF OneWorkerKeepsTasks
    <2>2. QED
      BY <2>1, PTL
  <1>3. QED
    BY <1>1, <1>2
-----------------------------------------------------------------------------
(* The registry of the services that run an orchestrator (DoclingServices), *)
(* for any number of services, processes, jobs and settings versions.  The  *)
(* inductive invariant adds that a row's fingerprint is that of its own     *)
(* configuration, verified or not, and that a probe remembers what it read. *)

CONSTANTS Services, Urls, Jobs, Processes, Capacities, MaxVersion, MaxStarts, None
VARIABLES settings, latest, row, job, process, starts

Registry == INSTANCE DoclingServices

RowStates == {"absent", "active", "unavailable", "draining"}
RowRecords ==
    [state : RowStates, config : Registry!Configs \cup {None},
     verified : Registry!Fingerprints \cup {None}, error : BOOLEAN, fingerprint : Registry!Fingerprints \cup {None}]
JobRecords ==
    [service : Services \cup {None}, slot : Registry!Slots \cup {0},
     checkpoint : Services \cup {None}, done : BOOLEAN]
Probes ==
    [service : Services \cup {None}, config : Registry!Configs \cup {None},
     fingerprint : Registry!Fingerprints \cup {None}]
ProcessRecords == [version : Nat, ready : BOOLEAN, probe : Probes]

RegistryTyped ==
    /\ settings \in [Registry!Versions -> Registry!Topologies]
    /\ latest \in Registry!Versions
    /\ row \in [Services -> RowRecords]
    /\ job \in [Jobs -> JobRecords]
    /\ process \in [Processes -> ProcessRecords]
    /\ starts \in Nat

\* A registered row has the fingerprint of its configuration; without an error it is
\* the one that was verified.
Decodes(r) ==
    /\ r.state # "absent" =>
          r.config \in Registry!Configs /\ r.fingerprint \in Registry!Fingerprints /\ r.fingerprint.config = r.config
    /\ r.state # "absent" /\ ~r.error => r.verified = r.fingerprint
    /\ r.state = "active" => ~r.error
    /\ r.state = "unavailable" => r.error

\* A probe under way looks for the fingerprint of the configuration it has read.
Probing(q) ==
    q # Registry!NoProbe =>
        q.service \in Services /\ q.fingerprint \in Registry!Fingerprints /\ q.fingerprint.config = q.config

Processing(k) ==
    k.version \in 0 .. latest /\ (k.ready => k.version # 0) /\ Probing(k.probe)

RegistryInv ==
    /\ RegistryTyped
    /\ \A s \in Services : Decodes(row[s])
    /\ \A p \in Processes : Processing(process[p])
    /\ Registry!SlotsAreExclusive
    /\ Registry!TaskIsReachable

\* The rows that reconcileTopology and recordVerification write can be decoded.
LEMMA RegistryConfigured ==
    ASSUME Registry!ServicesAssumption, NEW s \in Services, NEW c \in Registry!Configs,
           NEW f \in Registry!Fingerprints, f.config = c, row[s] \in RowRecords, Decodes(row[s])
    PROVE  /\ Registry!Configured(s, c, f) \in RowRecords
           /\ Decodes(Registry!Configured(s, c, f))
           /\ Registry!Configured(s, c, f).state # "absent"
           /\ Registry!Configured(s, c, f).config = c
  <1> DEFINE st == IF row[s].state = "draining"
                   THEN IF row[s].error THEN "unavailable" ELSE "active" ELSE row[s].state
  <1>1. CASE row[s].state = "absent" \/ row[s].fingerprint # f
    BY <1>1 DEF Registry!Configured, Registry!Unverified, RowRecords, RowStates, Decodes
  <1>2. CASE ~(row[s].state = "absent" \/ row[s].fingerprint # f)
    <2>1. st \in RowStates
      BY DEF RowRecords, RowStates
    <2>2. Registry!Configured(s, c, f) = [row[s] EXCEPT !.config = c, !.state = st]
      BY <1>2, Zenon DEF Registry!Configured
    <2> HIDE DEF st
    <2>3. LET r == [row[s] EXCEPT !.config = c, !.state = st]
          IN  r \in RowRecords /\ r.state = st /\ r.config = c /\ r.verified = row[s].verified
              /\ r.error = row[s].error /\ r.fingerprint = row[s].fingerprint
      BY <2>1 DEF RowRecords
    <2>4. /\ st # "absent" /\ (st = "active" => ~row[s].error)
          /\ (st = "unavailable" => row[s].error)
      BY <1>2 DEF st, Decodes
    <2>5. QED
      BY <1>2, <2>2, <2>3, <2>4 DEF Decodes
  <1>3. QED
    BY <1>1, <1>2

LEMMA RegistryRemoved ==
    ASSUME Registry!ServicesAssumption, NEW s \in Services, NEW v \in Registry!Versions,
           row[s] \in RowRecords, Decodes(row[s]), row[s].state # "absent"
    PROVE  /\ Registry!Removed(s, v) \in RowRecords
           /\ Decodes(Registry!Removed(s, v))
           /\ Registry!DrainsWhenReferenced(s) =>
                 /\ Registry!Removed(s, v).state # "absent"
                 /\ Registry!Removed(s, v).config = row[s].config
  <1>1. Registry!Fingerprint(v, row[s].config, "draining") \in Registry!Fingerprints
    BY DEF Registry!Fingerprint, Registry!Fingerprints, Decodes
  <1>2. Registry!NoRow \in RowRecords /\ Decodes(Registry!NoRow)
    BY DEF Registry!NoRow, RowRecords, RowStates, Decodes
  <1>3. QED
    BY <1>1, <1>2
       DEF Registry!Removed, Registry!Unverified, Registry!Fingerprint, RowRecords, RowStates, Decodes

LEMMA RegistryVerdict ==
    ASSUME NEW q, NEW s \in Services, q.service = s, row[s] \in RowRecords, Decodes(row[s]),
           Probing(q), q # Registry!NoProbe, Registry!StillCurrent(q)
    PROVE  \A r \in {Registry!Verified(q), Registry!Unreachable(q)} :
              r \in RowRecords /\ Decodes(r) /\ r.state # "absent" /\ r.config = row[s].config
  <1> DEFINE up == IF row[s].state = "draining" THEN row[s].state ELSE "active"
             down == IF row[s].state = "draining" THEN row[s].state ELSE "unavailable"
  <1>1. up \in RowStates /\ down \in RowStates
    BY DEF RowStates
  <1>2. /\ Registry!Verified(q) = [row[s] EXCEPT !.state = up, !.verified = q.fingerprint,
                                                 !.error = FALSE, !.fingerprint = q.fingerprint]
        /\ Registry!Unreachable(q) = [row[s] EXCEPT !.state = down, !.error = TRUE]
    BY Zenon DEF Registry!Verified, Registry!Unreachable
  <1>3. row[s].config \in Registry!Configs /\ q.fingerprint \in Registry!Fingerprints
    BY DEF Decodes, Probing, Registry!StillCurrent
  <1>4. /\ up # "absent" /\ up # "unavailable"
        /\ down # "absent" /\ down # "active"
    BY DEF Decodes, Registry!StillCurrent
  <1> HIDE DEF up, down
  <1>5. LET r == [row[s] EXCEPT !.state = up, !.verified = q.fingerprint,
                                !.error = FALSE, !.fingerprint = q.fingerprint]
        IN  r \in RowRecords /\ r.state = up /\ r.config = row[s].config
            /\ r.verified = q.fingerprint /\ ~r.error /\ r.fingerprint = q.fingerprint
    BY <1>1, <1>3 DEF RowRecords
  <1>6. LET r == [row[s] EXCEPT !.state = down, !.error = TRUE]
        IN  r \in RowRecords /\ r.state = down /\ r.config = row[s].config
            /\ r.verified = row[s].verified /\ r.error /\ r.fingerprint = row[s].fingerprint
    BY <1>1 DEF RowRecords
  <1>7. q.fingerprint.config = row[s].config /\ row[s].fingerprint.config = row[s].config
    BY DEF Decodes, Probing, Registry!StillCurrent
  <1>8. Decodes(Registry!Verified(q)) /\ Registry!Verified(q).state # "absent"
        /\ Registry!Verified(q).config = row[s].config /\ Registry!Verified(q) \in RowRecords
    BY <1>2, <1>3, <1>4, <1>5, <1>7 DEF Decodes
  <1>9. row[s].state # "absent" /\ row[s].fingerprint \in Registry!Fingerprints
    BY DEF Decodes, Registry!StillCurrent
  <1>10. Decodes(Registry!Unreachable(q)) /\ Registry!Unreachable(q).state # "absent"
         /\ Registry!Unreachable(q).config = row[s].config /\ Registry!Unreachable(q) \in RowRecords
    BY <1>2, <1>3, <1>4, <1>6, <1>7, <1>9 DEF Decodes
  <1>11. QED
    BY <1>8, <1>10

\* A service with room has a free slot, and selectAvailableService takes the lowest.
LEMMA LowestPosition ==
    ASSUME NEW S \in SUBSET Nat, S # {}
    PROVE  \E n \in S : \A k \in S : n <= k
  <1> DEFINE Rel == OpToRel(<, Nat)
  <1>1. IsWellFoundedOn(Rel, Nat)
    BY NatLessThanWellFounded, Zenon
  <1>2. \A n, k \in Nat : <<k, n>> \in Rel <=> k < n
    BY DEF OpToRel
  <1> HIDE DEF Rel
  <1>3. PICK n \in S : \A k \in S : ~ (<<k, n>> \in Rel)
    BY <1>1, WFMin
  <1>4. \A k \in S : ~ (k < n)
    BY <1>2, <1>3, Zenon
  <1>5. QED
    BY <1>4

LEMMA RegistryCardinality ==
    ASSUME NEW S
    PROVE  Registry!Cardinality(S) = Cardinality(S)
  BY DEF Registry!Cardinality, Cardinality

LEMMA FreeSlotIsFree ==
    ASSUME NEW s \in Services, row[s].config.capacity \in Nat,
           Registry!AssignedSlots(s) \subseteq 1 .. row[s].config.capacity,
           Cardinality(Registry!AssignedSlots(s)) < row[s].config.capacity
    PROVE  Registry!FreeSlot(s) \in (1 .. row[s].config.capacity) \ Registry!AssignedSlots(s)
  <1> DEFINE c == row[s].config.capacity
             Free == (1 .. c) \ Registry!AssignedSlots(s)
  <1>1. IsFiniteSet(1 .. c) /\ Cardinality(1 .. c) = c
    <2>1. c \in Nat
      OBVIOUS
    <2> HIDE DEF c
    <2>2. QED
      BY <2>1, FS_Interval
  <1>2. Free # {}
    <2>1. SUFFICES ASSUME Free = {} PROVE FALSE
      OBVIOUS
    <2>2. Registry!AssignedSlots(s) = 1 .. c
      BY <2>1
    <2>3. Cardinality(Registry!AssignedSlots(s)) = c
      BY <1>1, <2>2
    <2>4. QED
      BY <2>3
  <1>3. PICK n \in Free : \A k \in Free : n <= k
    <2>1. Free \in SUBSET Nat
      OBVIOUS
    <2> HIDE DEF Free
    <2>2. QED
      BY <1>2, <2>1, LowestPosition
  <1>4. n \in 1 .. c /\ n \notin Registry!AssignedSlots(s)
        /\ \A k \in 1 .. n - 1 : k \in Registry!AssignedSlots(s)
    BY <1>3
  <1>5. QED
    BY <1>4 DEF Registry!FreeSlot

\* What reconcileTopology makes of the rows: whoever is referred to stays, with room
\* for the slots it has given away.
LEMMA RegistryReconciled ==
    ASSUME Registry!ServicesAssumption, RegistryInv, NEW p \in Processes,
           Registry!ReconcileTopology(p), row' # row
    PROVE  /\ row' \in [Services -> RowRecords]
           /\ \A s \in Services : Decodes(row'[s])
           /\ \A j \in Jobs : job[j].service # None =>
                 /\ row'[job[j].service].state # "absent"
                 /\ job[j].slot \in 1 .. row'[job[j].service].config.capacity
           /\ \A j \in Jobs : job[j].checkpoint # None =>
                 row'[job[j].checkpoint].state # "absent"
  <1> DEFINE v == process[p].version
             t == settings[v]
  <1>1. v \in Registry!Versions
    BY DEF RegistryInv, RegistryTyped, Processing, Registry!ReconcileTopology, Registry!Versions,
           Registry!ServicesAssumption
  <1>2. t \in [Services -> Registry!Configs \cup {None}]
    BY <1>1 DEF RegistryInv, RegistryTyped, Registry!Topologies
  <1>3. /\ \A s \in Services : t[s] # None => Registry!MutationAllowed(s, t[s])
        /\ row' = [s \in Services |->
              IF t[s] # None
              THEN Registry!Configured(s, t[s], Registry!Fingerprint(v, t[s], "configured"))
              ELSE IF row[s].state = "absent" THEN Registry!NoRow ELSE Registry!Removed(s, v)]
    BY Zenon DEF Registry!ReconcileTopology
  <1> HIDE DEF t, v
  <1>4. ASSUME NEW s \in Services
        PROVE  /\ row'[s] \in RowRecords /\ Decodes(row'[s])
               /\ (Registry!DrainsWhenReferenced(s) /\ row[s].state # "absent") =>
                     /\ row'[s].state # "absent"
                     /\ t[s] = None => row'[s].config = row[s].config
               /\ t[s] # None => row'[s].config = t[s]
    <2>1. row[s] \in RowRecords /\ Decodes(row[s])
      BY DEF RegistryInv, RegistryTyped
    <2>2. CASE t[s] # None
      <3>1. t[s] \in Registry!Configs
        BY <1>2, <2>2
      <3>2. /\ Registry!Fingerprint(v, t[s], "configured") \in Registry!Fingerprints
            /\ Registry!Fingerprint(v, t[s], "configured").config = t[s]
        BY <1>1, <3>1 DEF Registry!Fingerprint, Registry!Fingerprints
      <3>3. row'[s] = Registry!Configured(s, t[s], Registry!Fingerprint(v, t[s], "configured"))
        BY <1>3, <2>2
      <3>4. QED
        BY <2>1, <2>2, <3>1, <3>2, <3>3, RegistryConfigured
    <2>3. CASE t[s] = None /\ row[s].state = "absent"
      <3>1. row'[s] = Registry!NoRow
        BY <1>3, <2>3
      <3>2. QED
        BY <2>3, <3>1 DEF Registry!NoRow, RowRecords, RowStates, Decodes
    <2>4. CASE t[s] = None /\ row[s].state # "absent"
      <3>1. row'[s] = Registry!Removed(s, v)
        BY <1>3, <2>4
      <3>2. QED
        BY <1>1, <2>1, <2>4, <3>1, RegistryRemoved
    <2>5. QED
      BY <2>2, <2>3, <2>4
  <1>5. ASSUME NEW j \in Jobs, job[j].service # None
        PROVE  /\ row'[job[j].service].state # "absent"
               /\ job[j].slot \in 1 .. row'[job[j].service].config.capacity
    <2> DEFINE s == job[j].service
    <2>1. s \in Services /\ job[j].slot \in Registry!AssignedSlots(s) /\ job[j].slot \in Nat
      BY <1>5 DEF RegistryInv, RegistryTyped, JobRecords, Registry!AssignedSlots, Registry!Slots,
                  Registry!ServicesAssumption
    <2>2. row[s].state # "absent" /\ job[j].slot \in 1 .. row[s].config.capacity
      BY <1>5 DEF RegistryInv, Registry!SlotsAreExclusive
    <2> HIDE DEF s
    <2>3. Registry!DrainsWhenReferenced(s)
      BY <2>1 DEF Registry!DrainsWhenReferenced
    <2>4. row'[s].state # "absent" /\ (t[s] = None => row'[s].config = row[s].config)
          /\ (t[s] # None => row'[s].config = t[s])
      BY <1>4, <2>1, <2>2, <2>3
    <2>5. CASE t[s] = None
      BY <2>2, <2>4, <2>5 DEF s
    <2>6. CASE t[s] # None
      <3>1. Registry!MutationAllowed(s, t[s])
        BY <1>3, <2>1, <2>6
      <3>2. job[j].slot <= t[s].capacity
        BY <2>1, <2>2, <3>1 DEF Registry!MutationAllowed
      <3>3. t[s].capacity \in Nat
        BY <1>2, <2>1, <2>6 DEF Registry!Configs, Registry!ServicesAssumption
      <3>4. row[s].config.capacity \in Nat
        BY <2>1, <2>2 DEF RegistryInv, Decodes, Registry!Configs, Registry!ServicesAssumption
      <3>5. QED
        BY <2>1, <2>2, <2>4, <2>6, <3>2, <3>3, <3>4 DEF s
    <2>7. QED
      BY <2>5, <2>6
  <1>6. ASSUME NEW j \in Jobs, job[j].checkpoint # None
        PROVE  row'[job[j].checkpoint].state # "absent"
    <2>1. job[j].checkpoint \in Services /\ Registry!DrainsWhenReferenced(job[j].checkpoint)
      BY <1>6 DEF RegistryInv, RegistryTyped, JobRecords, Registry!DrainsWhenReferenced,
                  Registry!CheckpointServices
    <2>2. row[job[j].checkpoint].state # "absent"
      BY <1>6 DEF RegistryInv, Registry!TaskIsReachable
    <2>3. QED
      BY <1>4, <2>1, <2>2
  <1>7. row' \in [Services -> RowRecords]
    BY <1>3, <1>4
  <1>8. QED
    BY <1>4, <1>5, <1>6, <1>7

\* What a verdict makes of the rows: its service stays as it is configured.
LEMMA RegistryRecorded ==
    ASSUME Registry!ServicesAssumption, RegistryInv, NEW p \in Processes, NEW found \in BOOLEAN,
           Registry!RecordVerification(p, found)
    PROVE  /\ row' \in [Services -> RowRecords]
           /\ \A s \in Services : Decodes(row'[s])
           /\ \A s \in Services : row[s].state # "absent" =>
                 row'[s].state # "absent" /\ row'[s].config = row[s].config
  <1> DEFINE q == process[p].probe
  <1>1. q # Registry!NoProbe /\ q.service \in Services /\ Probing(q)
    BY DEF Registry!RecordVerification, RegistryInv, Processing, Probing
  <1>2. row' = row \/ (Registry!StillCurrent(q) /\
           \E r \in {Registry!Verified(q), Registry!Unreachable(q)} :
              row' = [row EXCEPT ![q.service] = r])
    BY Zenon DEF Registry!RecordVerification
  <1> HIDE DEF q
  <1>3. CASE row' = row
    BY <1>3 DEF RegistryInv, RegistryTyped
  <1>4. ASSUME Registry!StillCurrent(q), NEW r \in {Registry!Verified(q), Registry!Unreachable(q)},
               row' = [row EXCEPT ![q.service] = r]
        PROVE  /\ row' \in [Services -> RowRecords]
               /\ \A s \in Services : Decodes(row'[s])
               /\ \A s \in Services : row[s].state # "absent" =>
                     row'[s].state # "absent" /\ row'[s].config = row[s].config
    <2>1. row[q.service] \in RowRecords /\ Decodes(row[q.service])
      BY <1>1 DEF RegistryInv, RegistryTyped
    <2>2. r \in RowRecords /\ Decodes(r) /\ r.state # "absent" /\ r.config = row[q.service].config
      BY <1>1, <1>4, <2>1, RegistryVerdict
    <2>3. QED
      BY <1>1, <1>4, <2>2 DEF RegistryInv, RegistryTyped
  <1>5. QED
    BY <1>2, <1>3, <1>4

\* What ensureAssignment gives a job: a free slot of a registered service, the one that
\* has the task if there is one.
LEMMA RegistryAssigned ==
    ASSUME Registry!ServicesAssumption, RegistryInv, NEW j \in Jobs, Registry!EnsureAssignment(j)
    PROVE  \E s \in Services :
              /\ row[s].state # "absent" /\ row[s].config.capacity \in Nat
              /\ Registry!FreeSlot(s) \in (1 .. row[s].config.capacity) \ Registry!AssignedSlots(s)
              /\ job' = [job EXCEPT ![j].service = s, ![j].slot = Registry!FreeSlot(s)]
              /\ job[j].checkpoint \in {None, s}
  <1>1. PICK s \in Registry!LeastOccupied(Registry!Eligible(j)) :
           job' = [job EXCEPT ![j].service = s, ![j].slot = Registry!FreeSlot(s)]
    BY Zenon DEF Registry!EnsureAssignment
  <1>2. s \in Registry!Eligible(j)
        /\ Cardinality(Registry!AssignedSlots(s)) < row[s].config.capacity
    BY <1>1, RegistryCardinality DEF Registry!LeastOccupied, Registry!WithRoom
  <1>3. s \in Services /\ row[s].state # "absent" /\ job[j].checkpoint \in {None, s}
    BY <1>2 DEF Registry!Eligible, RegistryInv, RegistryTyped, JobRecords
  <1>4. row[s].config.capacity \in Nat
    BY <1>3 DEF RegistryInv, Decodes, Registry!Configs, Registry!ServicesAssumption
  <1>5. Registry!AssignedSlots(s) \subseteq 1 .. row[s].config.capacity
    <2>1. ASSUME NEW i \in Jobs, job[i].service = s
          PROVE  job[i].slot \in 1 .. row[s].config.capacity
      BY <1>3, <2>1 DEF RegistryInv, Registry!SlotsAreExclusive, Registry!ServicesAssumption
    <2>2. QED
      BY <2>1 DEF Registry!AssignedSlots
  <1>6. Registry!FreeSlot(s) \in (1 .. row[s].config.capacity) \ Registry!AssignedSlots(s)
    BY <1>2, <1>3, <1>4, <1>5, FreeSlotIsFree
  <1>7. QED
    BY <1>1, <1>3, <1>4, <1>6

LEMMA RegistrySaveSettings ==
    ASSUME Registry!ServicesAssumption, RegistryInv, NEW t \in Registry!Topologies,
           Registry!SaveSettings(t)
    PROVE  RegistryInv'
  <1>1. RegistryTyped'
    BY DEF Registry!SaveSettings, Registry!Versions, RegistryInv, Registry!ServicesAssumption,
           RegistryTyped, Registry!Topologies, Registry!Configs, RowRecords, RowStates,
           Registry!Fingerprints, JobRecords, Registry!Slots, ProcessRecords, Probes, Decodes,
           Processing, Probing, Registry!NoProbe, Registry!SlotsAreExclusive,
           Registry!TaskIsReachable
  <1>2. (\A s_1 \in Services : Decodes(row[s_1]))'
    BY DEF Registry!SaveSettings, Registry!Versions, RegistryInv, Registry!ServicesAssumption,
           Decodes, Registry!Configs, Registry!Fingerprints, RegistryTyped, Registry!Topologies,
           RowRecords, RowStates, JobRecords, Registry!Slots, ProcessRecords, Probes,
           Processing, Probing, Registry!NoProbe, Registry!SlotsAreExclusive,
           Registry!TaskIsReachable
  <1>3. (\A p_1 \in Processes : Processing(process[p_1]))'
    BY DEF Registry!SaveSettings, Registry!Versions, RegistryInv, Registry!ServicesAssumption,
           Processing, Probing, Registry!NoProbe, Registry!Fingerprints, Registry!Configs,
           RegistryTyped, Registry!Topologies, RowRecords, RowStates, JobRecords,
           Registry!Slots, ProcessRecords, Probes, Decodes, Registry!SlotsAreExclusive,
           Registry!TaskIsReachable
  <1>4. Registry!SlotsAreExclusive'
    BY DEF Registry!SaveSettings, Registry!Versions, RegistryInv, Registry!ServicesAssumption,
           Registry!SlotsAreExclusive, RegistryTyped, Registry!Topologies, Registry!Configs,
           RowRecords, RowStates, Registry!Fingerprints, JobRecords, Registry!Slots,
           ProcessRecords, Probes, Decodes, Processing, Probing, Registry!NoProbe,
           Registry!TaskIsReachable
  <1>5. Registry!TaskIsReachable'
    BY DEF Registry!SaveSettings, Registry!Versions, RegistryInv, Registry!ServicesAssumption,
           Registry!TaskIsReachable, RegistryTyped, Registry!Topologies, Registry!Configs,
           RowRecords, RowStates, Registry!Fingerprints, JobRecords, Registry!Slots,
           ProcessRecords, Probes, Decodes, Processing, Probing, Registry!NoProbe,
           Registry!SlotsAreExclusive
  <1>6. QED
    BY <1>1, <1>2, <1>3, <1>4, <1>5 DEF RegistryInv

LEMMA RegistryStartProcess ==
    ASSUME Registry!ServicesAssumption, RegistryInv, NEW p \in Processes,
           Registry!StartProcess(p)
    PROVE  RegistryInv'
  <1>1. RegistryTyped'
    <2>1. Registry!Stopped \in ProcessRecords
      BY DEF ProcessRecords, Probes, Registry!Stopped, Registry!NoProbe
    <2>2. [Registry!Stopped EXCEPT !.version = latest] \in ProcessRecords
      BY <2>1 DEF ProcessRecords, RegistryInv, RegistryTyped, Registry!Versions
    <2>3. process' = [process EXCEPT ![p] = [Registry!Stopped EXCEPT !.version = latest]]
      BY Zenon DEF Registry!StartProcess
    <2>4. starts' \in Nat
      BY DEF Registry!StartProcess, RegistryInv, RegistryTyped
    <2>5. QED
      BY <2>2, <2>3, <2>4 DEF Registry!StartProcess, RegistryInv, RegistryTyped
  <1>2. (\A s_1 \in Services : Decodes(row[s_1]))'
    BY DEF Registry!StartProcess, Registry!Stopped, Registry!NoProbe, RegistryInv,
           Registry!ServicesAssumption, Decodes, Registry!Configs, Registry!Fingerprints,
           Registry!Versions, RegistryTyped, Registry!Topologies, RowRecords, RowStates,
           JobRecords, Registry!Slots, ProcessRecords, Probes, Processing, Probing,
           Registry!SlotsAreExclusive, Registry!TaskIsReachable
  <1>3. (\A p_1 \in Processes : Processing(process[p_1]))'
    BY DEF Registry!StartProcess, Registry!Stopped, Registry!NoProbe, RegistryInv,
           Registry!ServicesAssumption, Processing, Probing, Registry!Fingerprints,
           Registry!Versions, Registry!Configs, RegistryTyped, Registry!Topologies, RowRecords,
           RowStates, JobRecords, Registry!Slots, ProcessRecords, Probes, Decodes,
           Registry!SlotsAreExclusive, Registry!TaskIsReachable
  <1>4. Registry!SlotsAreExclusive'
    BY DEF Registry!StartProcess, Registry!Stopped, Registry!NoProbe, RegistryInv,
           Registry!ServicesAssumption, Registry!SlotsAreExclusive, RegistryTyped,
           Registry!Versions, Registry!Topologies, Registry!Configs, RowRecords, RowStates,
           Registry!Fingerprints, JobRecords, Registry!Slots, ProcessRecords, Probes, Decodes,
           Processing, Probing, Registry!TaskIsReachable
  <1>5. Registry!TaskIsReachable'
    BY DEF Registry!StartProcess, Registry!Stopped, Registry!NoProbe, RegistryInv,
           Registry!ServicesAssumption, Registry!TaskIsReachable, RegistryTyped,
           Registry!Versions, Registry!Topologies, Registry!Configs, RowRecords, RowStates,
           Registry!Fingerprints, JobRecords, Registry!Slots, ProcessRecords, Probes, Decodes,
           Processing, Probing, Registry!SlotsAreExclusive
  <1>6. QED
    BY <1>1, <1>2, <1>3, <1>4, <1>5 DEF RegistryInv

LEMMA RegistryReconcileTopology ==
    ASSUME Registry!ServicesAssumption, RegistryInv, NEW p \in Processes,
           Registry!ReconcileTopology(p)
    PROVE  RegistryInv'
  <1>1. RegistryTyped'
    <2>1. PICK k \in ProcessRecords : k = process[p]
      BY DEF RegistryInv, RegistryTyped
    <2>2. [k EXCEPT !.ready = TRUE] \in ProcessRecords /\ Registry!Stopped \in ProcessRecords
      BY DEF ProcessRecords, Probes, Registry!Stopped, Registry!NoProbe
    <2>3. \/ process' = [process EXCEPT ![p] = [k EXCEPT !.ready = TRUE]]
          \/ process' = [process EXCEPT ![p] = Registry!Stopped]
      BY <2>1, Zenon DEF Registry!ReconcileTopology
    <2>4. process' \in [Processes -> ProcessRecords]
      BY <2>2, <2>3 DEF RegistryInv, RegistryTyped
    <2>5. UNCHANGED <<settings, latest, job, starts>>
      BY DEF Registry!ReconcileTopology
    <2>6. row' \in [Services -> RowRecords]
      BY RegistryReconciled DEF RegistryInv, RegistryTyped
    <2>7. QED
      BY <2>4, <2>5, <2>6 DEF RegistryInv, RegistryTyped
  <1>2. (\A s_1 \in Services : Decodes(row[s_1]))'
    BY RegistryReconciled DEF RegistryInv
  <1>3. (\A p_1 \in Processes : Processing(process[p_1]))'
    <2>1. PICK k \in ProcessRecords : k = process[p]
      BY DEF RegistryInv, RegistryTyped
    <2>2. \/ process' = [process EXCEPT ![p] = [k EXCEPT !.ready = TRUE]]
          \/ process' = [process EXCEPT ![p] = Registry!Stopped]
      BY <2>1, Zenon DEF Registry!ReconcileTopology
    <2>3. /\ [k EXCEPT !.ready = TRUE].version = k.version
          /\ [k EXCEPT !.ready = TRUE].probe = k.probe
      BY DEF ProcessRecords
    <2>4. k.version # 0 /\ latest' = latest
      BY <2>1 DEF Registry!ReconcileTopology
    <2>5. Processing([k EXCEPT !.ready = TRUE])
      BY <2>1, <2>3, <2>4 DEF RegistryInv, Processing
    <2>6. Processing(Registry!Stopped)
      BY DEF RegistryInv, RegistryTyped, Registry!Versions, Processing, Probing, Registry!Stopped,
             Registry!NoProbe
    <2>7. QED
      BY <2>2, <2>4, <2>5, <2>6 DEF RegistryInv, RegistryTyped, Processing, Probing
  <1>4. Registry!SlotsAreExclusive'
    <2>1. job' = job
      BY DEF Registry!ReconcileTopology
    <2>2. CASE row' = row
      BY <2>1, <2>2 DEF RegistryInv, Registry!SlotsAreExclusive
    <2>3. CASE row' # row
      BY <2>1, <2>3, RegistryReconciled DEF RegistryInv, Registry!SlotsAreExclusive
    <2>4. QED
      BY <2>2, <2>3
  <1>5. Registry!TaskIsReachable'
    <2>1. job' = job
      BY DEF Registry!ReconcileTopology
    <2>2. CASE row' = row
      BY <2>1, <2>2 DEF RegistryInv, Registry!TaskIsReachable
    <2>3. CASE row' # row
      BY <2>1, <2>3, RegistryReconciled DEF RegistryInv, Registry!TaskIsReachable
    <2>4. QED
      BY <2>2, <2>3
  <1>6. QED
    BY <1>1, <1>2, <1>3, <1>4, <1>5 DEF RegistryInv

LEMMA RegistryVerifyTarget ==
    ASSUME Registry!ServicesAssumption, RegistryInv, NEW p \in Processes, NEW s \in Services,
           Registry!VerifyTarget(p, s)
    PROVE  RegistryInv'
  <1>1. RegistryTyped'
    <2> DEFINE q == [service |-> s, config |-> row[s].config,
               fingerprint |-> Registry!Fingerprint(process[p].version, row[s].config,
                   IF row[s].state = "draining" THEN "draining" ELSE "configured")]
    <2>1. PICK k \in ProcessRecords : k = process[p]
      BY DEF RegistryInv, RegistryTyped
    <2>2. row[s].config \in Registry!Configs /\ k.version \in Registry!Versions
      BY <2>1 DEF Registry!VerifyTarget, RegistryInv, RegistryTyped, Decodes, Processing,
                  Registry!Versions, Registry!ServicesAssumption
    <2>3. q \in Probes
      BY <2>1, <2>2 DEF Probes, Registry!Fingerprint, Registry!Fingerprints
    <2>4. process' = [process EXCEPT ![p] = [k EXCEPT !.probe = q]]
      BY <2>1, Zenon DEF Registry!VerifyTarget
    <2> HIDE DEF q
    <2>5. [k EXCEPT !.probe = q] \in ProcessRecords
      BY <2>3 DEF ProcessRecords
    <2>6. QED
      BY <2>4, <2>5 DEF Registry!VerifyTarget, RegistryInv, RegistryTyped
  <1>2. (\A s_1 \in Services : Decodes(row[s_1]))'
    BY DEF Registry!VerifyTarget, Registry!NoProbe, Registry!Demanded, Registry!Fingerprint,
           RegistryInv, Registry!ServicesAssumption, Decodes, Registry!Configs,
           Registry!Fingerprints, Registry!Versions, RegistryTyped, Registry!Topologies,
           RowRecords, RowStates, JobRecords, Registry!Slots, ProcessRecords, Probes,
           Processing, Probing, Registry!SlotsAreExclusive, Registry!TaskIsReachable
  <1>3. (\A p_1 \in Processes : Processing(process[p_1]))'
    BY DEF Registry!VerifyTarget, Registry!NoProbe, Registry!Demanded, Registry!Fingerprint,
           RegistryInv, Registry!ServicesAssumption, Processing, Probing, Registry!Fingerprints,
           Registry!Versions, Registry!Configs, RegistryTyped, Registry!Topologies, RowRecords,
           RowStates, JobRecords, Registry!Slots, ProcessRecords, Probes, Decodes,
           Registry!SlotsAreExclusive, Registry!TaskIsReachable
  <1>4. Registry!SlotsAreExclusive'
    BY DEF Registry!VerifyTarget, Registry!NoProbe, Registry!Demanded, Registry!Fingerprint,
           RegistryInv, Registry!ServicesAssumption, Registry!SlotsAreExclusive, RegistryTyped,
           Registry!Versions, Registry!Topologies, Registry!Configs, RowRecords, RowStates,
           Registry!Fingerprints, JobRecords, Registry!Slots, ProcessRecords, Probes, Decodes,
           Processing, Probing, Registry!TaskIsReachable
  <1>5. Registry!TaskIsReachable'
    BY DEF Registry!VerifyTarget, Registry!NoProbe, Registry!Demanded, Registry!Fingerprint,
           RegistryInv, Registry!ServicesAssumption, Registry!TaskIsReachable, RegistryTyped,
           Registry!Versions, Registry!Topologies, Registry!Configs, RowRecords, RowStates,
           Registry!Fingerprints, JobRecords, Registry!Slots, ProcessRecords, Probes, Decodes,
           Processing, Probing, Registry!SlotsAreExclusive
  <1>6. QED
    BY <1>1, <1>2, <1>3, <1>4, <1>5 DEF RegistryInv

LEMMA RegistryRecordVerification ==
    ASSUME Registry!ServicesAssumption, RegistryInv, NEW p \in Processes, NEW found \in BOOLEAN,
           Registry!RecordVerification(p, found)
    PROVE  RegistryInv'
  <1>1. RegistryTyped'
    <2>1. PICK k \in ProcessRecords : k = process[p]
      BY DEF RegistryInv, RegistryTyped
    <2>2. [k EXCEPT !.probe = Registry!NoProbe] \in ProcessRecords
      BY DEF ProcessRecords, Probes, Registry!NoProbe
    <2>3. process' = [process EXCEPT ![p] = [k EXCEPT !.probe = Registry!NoProbe]]
      BY <2>1, Zenon DEF Registry!RecordVerification
    <2>4. row' \in [Services -> RowRecords]
      BY RegistryRecorded DEF RegistryInv, RegistryTyped
    <2>5. QED
      BY <2>2, <2>3, <2>4 DEF Registry!RecordVerification, RegistryInv, RegistryTyped
  <1>2. (\A s_1 \in Services : Decodes(row[s_1]))'
    BY RegistryRecorded DEF RegistryInv
  <1>3. (\A p_1 \in Processes : Processing(process[p_1]))'
    BY DEF Registry!RecordVerification, Registry!NoProbe, Registry!StillCurrent,
           Registry!Verified, Registry!Unreachable, RegistryInv, Registry!ServicesAssumption,
           Processing, Probing, Registry!Fingerprints, Registry!Versions, Registry!Configs,
           RegistryTyped, Registry!Topologies, RowRecords, RowStates, JobRecords,
           Registry!Slots, ProcessRecords, Probes, Decodes, Registry!SlotsAreExclusive,
           Registry!TaskIsReachable
  <1>4. Registry!SlotsAreExclusive'
    BY RegistryRecorded DEF Registry!RecordVerification, RegistryInv, RegistryTyped, JobRecords, Registry!SlotsAreExclusive
  <1>5. Registry!TaskIsReachable'
    BY RegistryRecorded DEF Registry!RecordVerification, RegistryInv, RegistryTyped, JobRecords, Registry!TaskIsReachable
  <1>6. QED
    BY <1>1, <1>2, <1>3, <1>4, <1>5 DEF RegistryInv

LEMMA RegistryEnsureAssignment ==
    ASSUME Registry!ServicesAssumption, RegistryInv, NEW j \in Jobs,
           Registry!EnsureAssignment(j)
    PROVE  RegistryInv'
  <1>1. RegistryTyped'
    <2>1. PICK s \in Services :
             /\ row[s].state # "absent" /\ row[s].config.capacity \in Nat
             /\ Registry!FreeSlot(s) \in (1 .. row[s].config.capacity) \ Registry!AssignedSlots(s)
             /\ job' = [job EXCEPT ![j].service = s, ![j].slot = Registry!FreeSlot(s)]
             /\ job[j].checkpoint \in {None, s}
      BY RegistryAssigned
    <2>2. PICK n \in Registry!Slots :
             /\ n = Registry!FreeSlot(s) /\ n \in 1 .. row[s].config.capacity
             /\ n \notin Registry!AssignedSlots(s)
      BY <2>1 DEF RegistryInv, Decodes, Registry!Configs, Registry!Slots
    <2>3. PICK k \in JobRecords : k = job[j]
      BY DEF RegistryInv, RegistryTyped
    <2>4. job' = [job EXCEPT ![j] = [k EXCEPT !.service = s, !.slot = n]]
      BY <2>1, <2>2, <2>3, Zenon
    <2>5. LET i == [k EXCEPT !.service = s, !.slot = n]
          IN  i \in JobRecords /\ i.service = s /\ i.slot = n /\ i.checkpoint = k.checkpoint
      BY DEF JobRecords
    <2>6. QED
      BY <2>4, <2>5 DEF Registry!EnsureAssignment, RegistryInv, RegistryTyped
  <1>2. (\A s_1 \in Services : Decodes(row[s_1]))'
    BY DEF Registry!EnsureAssignment, Registry!LeastOccupied, Registry!WithRoom,
           Registry!AssignedSlots, Registry!Eligible, Registry!Usable, Registry!FreeSlot,
           RegistryInv, Registry!ServicesAssumption, Decodes, Registry!Configs,
           Registry!Fingerprints, Registry!Versions, RegistryTyped, Registry!Topologies,
           RowRecords, RowStates, JobRecords, Registry!Slots, ProcessRecords, Probes,
           Processing, Probing, Registry!NoProbe, Registry!SlotsAreExclusive,
           Registry!TaskIsReachable
  <1>3. (\A p_1 \in Processes : Processing(process[p_1]))'
    BY DEF Registry!EnsureAssignment, Registry!LeastOccupied, Registry!WithRoom,
           Registry!AssignedSlots, Registry!Eligible, Registry!Usable, Registry!FreeSlot,
           RegistryInv, Registry!ServicesAssumption, Processing, Probing, Registry!NoProbe,
           Registry!Fingerprints, Registry!Versions, Registry!Configs, RegistryTyped,
           Registry!Topologies, RowRecords, RowStates, JobRecords, Registry!Slots,
           ProcessRecords, Probes, Decodes, Registry!SlotsAreExclusive, Registry!TaskIsReachable
  <1>4. Registry!SlotsAreExclusive'
    <2>1. PICK s \in Services :
             /\ row[s].state # "absent" /\ row[s].config.capacity \in Nat
             /\ Registry!FreeSlot(s) \in (1 .. row[s].config.capacity) \ Registry!AssignedSlots(s)
             /\ job' = [job EXCEPT ![j].service = s, ![j].slot = Registry!FreeSlot(s)]
             /\ job[j].checkpoint \in {None, s}
      BY RegistryAssigned
    <2>2. PICK n \in Registry!Slots :
             /\ n = Registry!FreeSlot(s) /\ n \in 1 .. row[s].config.capacity
             /\ n \notin Registry!AssignedSlots(s)
      BY <2>1 DEF RegistryInv, Decodes, Registry!Configs, Registry!Slots
    <2>3. PICK k \in JobRecords : k = job[j]
      BY DEF RegistryInv, RegistryTyped
    <2>4. job' = [job EXCEPT ![j] = [k EXCEPT !.service = s, !.slot = n]]
      BY <2>1, <2>2, <2>3, Zenon
    <2>5. LET i == [k EXCEPT !.service = s, !.slot = n]
          IN  i \in JobRecords /\ i.service = s /\ i.slot = n /\ i.checkpoint = k.checkpoint
      BY DEF JobRecords
    <2>6. row' = row
      BY DEF Registry!EnsureAssignment
    <2>7. \A i \in Jobs : job[i].service = s => job[i].slot # n
      BY <2>2 DEF Registry!AssignedSlots
    <2>8. \A i \in Jobs \ {j} : job'[i] = job[i]
      BY <2>4 DEF RegistryInv, RegistryTyped
    <2>9. job'[j].service = s /\ job'[j].slot = n
      BY <2>4, <2>5 DEF RegistryInv, RegistryTyped
    <2>10. ASSUME NEW i \in Jobs, job'[i].service # None
           PROVE  /\ row'[job'[i].service].state # "absent"
                  /\ job'[i].slot \in 1 .. row'[job'[i].service].config.capacity
                  /\ \A e \in Jobs \ {i} :
                        job'[e].service = job'[i].service => job'[e].slot # job'[i].slot
      <3>1. CASE i = j
        BY <2>1, <2>2, <2>6, <2>7, <2>8, <2>9, <3>1
      <3>2. CASE i # j
        <4>1. /\ row[job[i].service].state # "absent"
              /\ job[i].slot \in 1 .. row[job[i].service].config.capacity
              /\ \A e \in Jobs \ {i} :
                    job[e].service = job[i].service => job[e].slot # job[i].slot
          BY <2>8, <2>10, <3>2 DEF RegistryInv, Registry!SlotsAreExclusive
        <4>2. job'[i] = job[i]
          BY <2>8, <3>2
        <4>3. ASSUME NEW e \in Jobs \ {i}, job'[e].service = job'[i].service
              PROVE  job'[e].slot # job'[i].slot
          <5>1. CASE e = j
            BY <2>7, <2>9, <4>2, <4>3, <5>1
          <5>2. CASE e # j
            BY <2>8, <4>1, <4>2, <4>3, <5>2
          <5>3. QED
            BY <5>1, <5>2
        <4>4. QED
          BY <2>6, <4>1, <4>2, <4>3
      <3>3. QED
        BY <3>1, <3>2
    <2>11. QED
      BY <2>10 DEF Registry!SlotsAreExclusive
  <1>5. Registry!TaskIsReachable'
    <2>1. PICK s \in Services :
             /\ row[s].state # "absent" /\ row[s].config.capacity \in Nat
             /\ Registry!FreeSlot(s) \in (1 .. row[s].config.capacity) \ Registry!AssignedSlots(s)
             /\ job' = [job EXCEPT ![j].service = s, ![j].slot = Registry!FreeSlot(s)]
             /\ job[j].checkpoint \in {None, s}
      BY RegistryAssigned
    <2>2. PICK n \in Registry!Slots :
             /\ n = Registry!FreeSlot(s) /\ n \in 1 .. row[s].config.capacity
             /\ n \notin Registry!AssignedSlots(s)
      BY <2>1 DEF RegistryInv, Decodes, Registry!Configs, Registry!Slots
    <2>3. PICK k \in JobRecords : k = job[j]
      BY DEF RegistryInv, RegistryTyped
    <2>4. job' = [job EXCEPT ![j] = [k EXCEPT !.service = s, !.slot = n]]
      BY <2>1, <2>2, <2>3, Zenon
    <2>5. LET i == [k EXCEPT !.service = s, !.slot = n]
          IN  i \in JobRecords /\ i.service = s /\ i.slot = n /\ i.checkpoint = k.checkpoint
      BY DEF JobRecords
    <2>6. row' = row
      BY DEF Registry!EnsureAssignment
    <2>7. \A i \in Jobs \ {j} : job'[i] = job[i]
      BY <2>4 DEF RegistryInv, RegistryTyped
    <2>8. job'[j].service = s /\ job'[j].checkpoint = job[j].checkpoint
      BY <2>3, <2>4, <2>5 DEF RegistryInv, RegistryTyped
    <2>9. QED
      BY <2>1, <2>6, <2>7, <2>8 DEF RegistryInv, Registry!TaskIsReachable
  <1>6. QED
    BY <1>1, <1>2, <1>3, <1>4, <1>5 DEF RegistryInv

LEMMA RegistryRecordTask ==
    ASSUME Registry!ServicesAssumption, RegistryInv, NEW j \in Jobs, Registry!RecordTask(j)
    PROVE  RegistryInv'
  <1>1. RegistryTyped'
    <2>1. PICK k \in JobRecords : k = job[j]
      BY DEF RegistryInv, RegistryTyped
    <2>2. [k EXCEPT !.checkpoint = k.service] \in JobRecords
      BY <2>1 DEF Registry!RecordTask, JobRecords
    <2>3. job' = [job EXCEPT ![j] = [k EXCEPT !.checkpoint = k.service]]
      BY <2>1, Zenon DEF Registry!RecordTask
    <2>4. QED
      BY <2>2, <2>3 DEF Registry!RecordTask, RegistryInv, RegistryTyped
  <1>2. (\A s_1 \in Services : Decodes(row[s_1]))'
    BY DEF Registry!RecordTask, Registry!Usable, RegistryInv, Registry!ServicesAssumption,
           Decodes, Registry!Configs, Registry!Fingerprints, Registry!Versions, RegistryTyped,
           Registry!Topologies, RowRecords, RowStates, JobRecords, Registry!Slots,
           ProcessRecords, Probes, Processing, Probing, Registry!NoProbe,
           Registry!SlotsAreExclusive, Registry!TaskIsReachable
  <1>3. (\A p_1 \in Processes : Processing(process[p_1]))'
    BY DEF Registry!RecordTask, Registry!Usable, RegistryInv, Registry!ServicesAssumption,
           Processing, Probing, Registry!NoProbe, Registry!Fingerprints, Registry!Versions,
           Registry!Configs, RegistryTyped, Registry!Topologies, RowRecords, RowStates,
           JobRecords, Registry!Slots, ProcessRecords, Probes, Decodes,
           Registry!SlotsAreExclusive, Registry!TaskIsReachable
  <1>4. Registry!SlotsAreExclusive'
    BY DEF Registry!RecordTask, Registry!Usable, RegistryInv, Registry!ServicesAssumption,
           Registry!SlotsAreExclusive, RegistryTyped, Registry!Versions, Registry!Topologies,
           Registry!Configs, RowRecords, RowStates, Registry!Fingerprints, JobRecords,
           Registry!Slots, ProcessRecords, Probes, Decodes, Processing, Probing,
           Registry!NoProbe, Registry!TaskIsReachable
  <1>5. Registry!TaskIsReachable'
    BY DEF Registry!RecordTask, Registry!Usable, RegistryInv, Registry!ServicesAssumption,
           Registry!TaskIsReachable, RegistryTyped, Registry!Versions, Registry!Topologies,
           Registry!Configs, RowRecords, RowStates, Registry!Fingerprints, JobRecords,
           Registry!Slots, ProcessRecords, Probes, Decodes, Processing, Probing,
           Registry!NoProbe, Registry!SlotsAreExclusive
  <1>6. QED
    BY <1>1, <1>2, <1>3, <1>4, <1>5 DEF RegistryInv

LEMMA RegistryClearTask ==
    ASSUME Registry!ServicesAssumption, RegistryInv, NEW j \in Jobs, Registry!ClearTask(j)
    PROVE  RegistryInv'
  <1>1. RegistryTyped'
    <2>1. PICK k \in JobRecords : k = job[j]
      BY DEF RegistryInv, RegistryTyped
    <2>2. [k EXCEPT !.checkpoint = None] \in JobRecords
      BY <2>1 DEF Registry!ClearTask, JobRecords
    <2>3. job' = [job EXCEPT ![j] = [k EXCEPT !.checkpoint = None]]
      BY <2>1, Zenon DEF Registry!ClearTask
    <2>4. QED
      BY <2>2, <2>3 DEF Registry!ClearTask, RegistryInv, RegistryTyped
  <1>2. (\A s_1 \in Services : Decodes(row[s_1]))'
    BY DEF Registry!ClearTask, Registry!Usable, RegistryInv, Registry!ServicesAssumption,
           Decodes, Registry!Configs, Registry!Fingerprints, Registry!Versions, RegistryTyped,
           Registry!Topologies, RowRecords, RowStates, JobRecords, Registry!Slots,
           ProcessRecords, Probes, Processing, Probing, Registry!NoProbe,
           Registry!SlotsAreExclusive, Registry!TaskIsReachable
  <1>3. (\A p_1 \in Processes : Processing(process[p_1]))'
    BY DEF Registry!ClearTask, Registry!Usable, RegistryInv, Registry!ServicesAssumption,
           Processing, Probing, Registry!NoProbe, Registry!Fingerprints, Registry!Versions,
           Registry!Configs, RegistryTyped, Registry!Topologies, RowRecords, RowStates,
           JobRecords, Registry!Slots, ProcessRecords, Probes, Decodes,
           Registry!SlotsAreExclusive, Registry!TaskIsReachable
  <1>4. Registry!SlotsAreExclusive'
    BY DEF Registry!ClearTask, Registry!Usable, RegistryInv, Registry!ServicesAssumption,
           Registry!SlotsAreExclusive, RegistryTyped, Registry!Versions, Registry!Topologies,
           Registry!Configs, RowRecords, RowStates, Registry!Fingerprints, JobRecords,
           Registry!Slots, ProcessRecords, Probes, Decodes, Processing, Probing,
           Registry!NoProbe, Registry!TaskIsReachable
  <1>5. Registry!TaskIsReachable'
    BY DEF Registry!ClearTask, Registry!Usable, RegistryInv, Registry!ServicesAssumption,
           Registry!TaskIsReachable, RegistryTyped, Registry!Versions, Registry!Topologies,
           Registry!Configs, RowRecords, RowStates, Registry!Fingerprints, JobRecords,
           Registry!Slots, ProcessRecords, Probes, Decodes, Processing, Probing,
           Registry!NoProbe, Registry!SlotsAreExclusive
  <1>6. QED
    BY <1>1, <1>2, <1>3, <1>4, <1>5 DEF RegistryInv

LEMMA RegistryPause ==
    ASSUME Registry!ServicesAssumption, RegistryInv, NEW j \in Jobs, Registry!Pause(j)
    PROVE  RegistryInv'
  <1>1. RegistryTyped'
    BY DEF Registry!Pause, RegistryInv, Registry!ServicesAssumption, RegistryTyped,
           Registry!Versions, Registry!Topologies, Registry!Configs, RowRecords, RowStates,
           Registry!Fingerprints, JobRecords, Registry!Slots, ProcessRecords, Probes, Decodes,
           Processing, Probing, Registry!NoProbe, Registry!SlotsAreExclusive,
           Registry!TaskIsReachable
  <1>2. (\A s_1 \in Services : Decodes(row[s_1]))'
    BY DEF Registry!Pause, RegistryInv, Registry!ServicesAssumption, Decodes, Registry!Configs,
           Registry!Fingerprints, Registry!Versions, RegistryTyped, Registry!Topologies,
           RowRecords, RowStates, JobRecords, Registry!Slots, ProcessRecords, Probes,
           Processing, Probing, Registry!NoProbe, Registry!SlotsAreExclusive,
           Registry!TaskIsReachable
  <1>3. (\A p_1 \in Processes : Processing(process[p_1]))'
    BY DEF Registry!Pause, RegistryInv, Registry!ServicesAssumption, Processing, Probing,
           Registry!NoProbe, Registry!Fingerprints, Registry!Versions, Registry!Configs,
           RegistryTyped, Registry!Topologies, RowRecords, RowStates, JobRecords,
           Registry!Slots, ProcessRecords, Probes, Decodes, Registry!SlotsAreExclusive,
           Registry!TaskIsReachable
  <1>4. Registry!SlotsAreExclusive'
    BY DEF Registry!Pause, RegistryInv, Registry!ServicesAssumption, Registry!SlotsAreExclusive,
           RegistryTyped, Registry!Versions, Registry!Topologies, Registry!Configs, RowRecords,
           RowStates, Registry!Fingerprints, JobRecords, Registry!Slots, ProcessRecords, Probes,
           Decodes, Processing, Probing, Registry!NoProbe, Registry!TaskIsReachable
  <1>5. Registry!TaskIsReachable'
    BY DEF Registry!Pause, RegistryInv, Registry!ServicesAssumption, Registry!TaskIsReachable,
           RegistryTyped, Registry!Versions, Registry!Topologies, Registry!Configs, RowRecords,
           RowStates, Registry!Fingerprints, JobRecords, Registry!Slots, ProcessRecords, Probes,
           Decodes, Processing, Probing, Registry!NoProbe, Registry!SlotsAreExclusive
  <1>6. QED
    BY <1>1, <1>2, <1>3, <1>4, <1>5 DEF RegistryInv

LEMMA RegistryConverted ==
    ASSUME Registry!ServicesAssumption, RegistryInv, NEW j \in Jobs, Registry!Converted(j)
    PROVE  RegistryInv'
  <1>1. RegistryTyped'
    BY DEF Registry!Converted, Registry!Usable, Registry!NoJob, RegistryInv,
           Registry!ServicesAssumption, RegistryTyped, Registry!Versions, Registry!Topologies,
           Registry!Configs, RowRecords, RowStates, Registry!Fingerprints, JobRecords,
           Registry!Slots, ProcessRecords, Probes, Decodes, Processing, Probing,
           Registry!NoProbe, Registry!SlotsAreExclusive, Registry!TaskIsReachable
  <1>2. (\A s_1 \in Services : Decodes(row[s_1]))'
    BY DEF Registry!Converted, Registry!Usable, Registry!NoJob, RegistryInv,
           Registry!ServicesAssumption, Decodes, Registry!Configs, Registry!Fingerprints,
           Registry!Versions, RegistryTyped, Registry!Topologies, RowRecords, RowStates,
           JobRecords, Registry!Slots, ProcessRecords, Probes, Processing, Probing,
           Registry!NoProbe, Registry!SlotsAreExclusive, Registry!TaskIsReachable
  <1>3. (\A p_1 \in Processes : Processing(process[p_1]))'
    BY DEF Registry!Converted, Registry!Usable, Registry!NoJob, RegistryInv,
           Registry!ServicesAssumption, Processing, Probing, Registry!NoProbe,
           Registry!Fingerprints, Registry!Versions, Registry!Configs, RegistryTyped,
           Registry!Topologies, RowRecords, RowStates, JobRecords, Registry!Slots,
           ProcessRecords, Probes, Decodes, Registry!SlotsAreExclusive, Registry!TaskIsReachable
  <1>4. Registry!SlotsAreExclusive'
    BY DEF Registry!Converted, Registry!Usable, Registry!NoJob, RegistryInv,
           Registry!ServicesAssumption, Registry!SlotsAreExclusive, RegistryTyped,
           Registry!Versions, Registry!Topologies, Registry!Configs, RowRecords, RowStates,
           Registry!Fingerprints, JobRecords, Registry!Slots, ProcessRecords, Probes, Decodes,
           Processing, Probing, Registry!NoProbe, Registry!TaskIsReachable
  <1>5. Registry!TaskIsReachable'
    BY DEF Registry!Converted, Registry!Usable, Registry!NoJob, RegistryInv,
           Registry!ServicesAssumption, Registry!TaskIsReachable, RegistryTyped,
           Registry!Versions, Registry!Topologies, Registry!Configs, RowRecords, RowStates,
           Registry!Fingerprints, JobRecords, Registry!Slots, ProcessRecords, Probes, Decodes,
           Processing, Probing, Registry!NoProbe, Registry!SlotsAreExclusive
  <1>6. QED
    BY <1>1, <1>2, <1>3, <1>4, <1>5 DEF RegistryInv

LEMMA RegistryStutter ==
    ASSUME Registry!ServicesAssumption, RegistryInv, UNCHANGED Registry!vars
    PROVE  RegistryInv'
  <1>1. RegistryTyped'
    BY DEF Registry!vars, RegistryInv, Registry!ServicesAssumption, RegistryTyped,
           Registry!Versions, Registry!Topologies, Registry!Configs, RowRecords, RowStates,
           Registry!Fingerprints, JobRecords, Registry!Slots, ProcessRecords, Probes, Decodes,
           Processing, Probing, Registry!NoProbe, Registry!SlotsAreExclusive,
           Registry!TaskIsReachable
  <1>2. (\A s_1 \in Services : Decodes(row[s_1]))'
    BY DEF Registry!vars, RegistryInv, Registry!ServicesAssumption, Decodes, Registry!Configs,
           Registry!Fingerprints, Registry!Versions, RegistryTyped, Registry!Topologies,
           RowRecords, RowStates, JobRecords, Registry!Slots, ProcessRecords, Probes,
           Processing, Probing, Registry!NoProbe, Registry!SlotsAreExclusive,
           Registry!TaskIsReachable
  <1>3. (\A p_1 \in Processes : Processing(process[p_1]))'
    BY DEF Registry!vars, RegistryInv, Registry!ServicesAssumption, Processing, Probing,
           Registry!NoProbe, Registry!Fingerprints, Registry!Versions, Registry!Configs,
           RegistryTyped, Registry!Topologies, RowRecords, RowStates, JobRecords,
           Registry!Slots, ProcessRecords, Probes, Decodes, Registry!SlotsAreExclusive,
           Registry!TaskIsReachable
  <1>4. Registry!SlotsAreExclusive'
    BY DEF Registry!vars, RegistryInv, Registry!ServicesAssumption, Registry!SlotsAreExclusive,
           RegistryTyped, Registry!Versions, Registry!Topologies, Registry!Configs, RowRecords,
           RowStates, Registry!Fingerprints, JobRecords, Registry!Slots, ProcessRecords, Probes,
           Decodes, Processing, Probing, Registry!NoProbe, Registry!TaskIsReachable
  <1>5. Registry!TaskIsReachable'
    BY DEF Registry!vars, RegistryInv, Registry!ServicesAssumption, Registry!TaskIsReachable,
           RegistryTyped, Registry!Versions, Registry!Topologies, Registry!Configs, RowRecords,
           RowStates, Registry!Fingerprints, JobRecords, Registry!Slots, ProcessRecords, Probes,
           Decodes, Processing, Probing, Registry!NoProbe, Registry!SlotsAreExclusive
  <1>6. QED
    BY <1>1, <1>2, <1>3, <1>4, <1>5 DEF RegistryInv

LEMMA RegistryInit ==
    ASSUME Registry!ServicesAssumption, Registry!Init
    PROVE  RegistryInv
  <1>1. PICK t \in Registry!Topologies : settings = [v \in Registry!Versions |-> t]
    BY DEF Registry!Init
  <1>2. settings \in [Registry!Versions -> Registry!Topologies]
    BY <1>1
  <1>3. latest \in Registry!Versions /\ starts \in Nat
    BY DEF Registry!Init, Registry!ServicesAssumption, Registry!Versions
  <1>4. Registry!NoRow \in RowRecords /\ Decodes(Registry!NoRow)
    BY DEF Registry!NoRow, RowRecords, RowStates, Decodes
  <1>5. Registry!NoJob \in JobRecords
    BY DEF Registry!NoJob, JobRecords
  <1>6. Registry!Stopped \in ProcessRecords /\ Processing(Registry!Stopped)
    BY <1>3 DEF Registry!Stopped, Registry!NoProbe, ProcessRecords, Probes, Processing, Probing,
                Registry!Versions
  <1>7. Registry!SlotsAreExclusive /\ Registry!TaskIsReachable
    BY DEF Registry!Init, Registry!NoJob, Registry!SlotsAreExclusive, Registry!TaskIsReachable
  <1>8. QED
    BY <1>2, <1>3, <1>4, <1>5, <1>6, <1>7 DEF Registry!Init, RegistryInv, RegistryTyped

LEMMA RegistryStep ==
    ASSUME Registry!ServicesAssumption, RegistryInv, [Registry!Next]_(Registry!vars)
    PROVE  RegistryInv'
  BY RegistrySaveSettings, RegistryStartProcess, RegistryReconcileTopology, RegistryVerifyTarget,
     RegistryRecordVerification, RegistryEnsureAssignment, RegistryRecordTask, RegistryClearTask,
     RegistryPause, RegistryConverted, RegistryStutter
     DEF Registry!Next

LEMMA RegistryAlways ==
    ASSUME Registry!ServicesAssumption
    PROVE  Registry!Spec => []RegistryInv
  <1>1. Registry!Init => RegistryInv
    BY RegistryInit
  <1>2. RegistryInv /\ [Registry!Next]_(Registry!vars) => RegistryInv'
    BY RegistryStep
  <1>3. QED
    BY <1>1, <1>2, PTL DEF Registry!Spec

\* Whatever processes of other settings reconcile and probe meanwhile, decodeServiceRow
\* accepts every row, and a service is active (or drains without an error) only when the
\* fingerprint of the configuration in its row is the one that was verified.
THEOREM RegistryRowsDecode ==
    ASSUME Registry!ServicesAssumption
    PROVE  Registry!Spec => [](/\ Registry!TypeOK /\ Registry!RowsDecode
                               /\ Registry!VerifiedAsConfigured)
  <1>1. ASSUME RegistryInv
        PROVE  Registry!TypeOK /\ Registry!RowsDecode /\ Registry!VerifiedAsConfigured
    <2>1. Registry!TypeOK
      BY <1>1 DEF RegistryInv, RegistryTyped, Decodes, Processing, RowRecords, RowStates, JobRecords,
                  ProcessRecords, Probes, Registry!ServicesAssumption, Registry!TypeOK
    <2>2. Registry!RowsDecode
      BY <1>1 DEF RegistryInv, Decodes, Registry!ServicesAssumption, Registry!RowsDecode
    <2>3. Registry!VerifiedAsConfigured
      BY <1>1 DEF RegistryInv, Decodes, Registry!VerifiedAsConfigured
    <2>4. QED
      BY <2>1, <2>2, <2>3
  <1>2. QED
    BY <1>1, RegistryAlways, PTL

\* However often the topology is reconfigured, no two jobs hold one slot, and every held
\* slot is one its registered service has (ensureAssignment, validateServiceMutation).
THEOREM RegistrySlotsAreExclusive ==
    ASSUME Registry!ServicesAssumption
    PROVE  Registry!Spec => []Registry!SlotsAreExclusive
  <1>1. RegistryInv => Registry!SlotsAreExclusive
    BY DEF RegistryInv
  <1>2. QED
    BY <1>1, RegistryAlways, PTL

\* A service that has the task of a job stays registered, and the job is assigned to no
\* other (reconcileUnconfiguredTopologyServices, the checkpoint affinity).
THEOREM RegistryTaskIsReachable ==
    ASSUME Registry!ServicesAssumption
    PROVE  Registry!Spec => []Registry!TaskIsReachable
  <1>1. RegistryInv => Registry!TaskIsReachable
    BY DEF RegistryInv
  <1>2. QED
    BY <1>1, RegistryAlways, PTL
============================================================================
