------------------------ MODULE IngestionJobsProofs ------------------------
(***************************************************************************)
(* Proofs about the ingestion queue for every set of files, contents,      *)
(* services, daemons and CLI processes and every bound.                    *)
(***************************************************************************)
EXTENDS IngestionJobs, TLAPS

-----------------------------------------------------------------------------
(* The row updates: their results are rows, with the fields the invariants use. *)

LEMMA EmptyRows ==
    /\ NoJob \in Job /\ NoCkpt \in Checkpoint /\ NotIndexed \in Published
    /\ IdleWorker \in Worker
  BY DEF NoJob, NoCkpt, NotIndexed, IdleWorker, Job, Checkpoint, Published, Worker,
         JobStates, Phases, ControlStates, AnyDoc, AnyService, AnyTask, AnyFile,
         Positions, Signals

LEMMA ResetJobRow ==
  ASSUME NEW j \in Job, NEW d \in AnyDoc, NEW s \in AnyService, gens \in Nat
  PROVE  LET r == ResetJob(j, d, s) IN
         /\ r \in Job
         /\ r.state = "pending" /\ r.owner = 0 /\ ~r.live
         /\ r.control = "active" /\ r.phase = "discovered" /\ r.service = s
         /\ r.gen = gens + 1 /\ r.doc = d /\ r.elems = NoDoc
  <1>0. gens + 1 \in Nat
    BY SMT
  <1>1. ResetJob(j, d, s) \in Job
    BY <1>0, Zenon DEF ResetJob, Job, JobStates, Phases, ControlStates, AnyDoc, AnyService
  <1> QED
    BY <1>1, <1>0, Zenon DEF ResetJob, Job, JobStates, Phases, ControlStates, AnyDoc, AnyService

LEMMA ResumedRow ==
  ASSUME NEW j \in Job
  PROVE  LET r == Resumed(j) IN
         /\ r \in Job
         /\ r.state = "pending" /\ r.owner = 0 /\ ~r.live
         /\ r.control = "active" /\ r.phase = j.phase /\ r.service = j.service
         /\ r.gen = j.gen /\ r.doc = j.doc /\ r.elems = j.elems
  <1>1. Resumed(j) \in Job
    BY Zenon DEF Resumed, Job, JobStates, Phases, ControlStates, AnyDoc, AnyService
  <1> QED
    BY <1>1, Zenon DEF Resumed, Job, JobStates, Phases, ControlStates, AnyDoc, AnyService

LEMMA LeasedRow ==
  ASSUME NEW j \in Job, NEW o \in Nat
  PROVE  LET r == Leased(j, o) IN
         /\ r \in Job
         /\ r.state = "running" /\ r.owner = o /\ r.live
         /\ r.control = j.control /\ r.phase = j.phase /\ r.service = j.service
         /\ r.gen = j.gen /\ r.doc = j.doc /\ r.elems = j.elems
  <1>1. Leased(j, o) \in Job
    BY Zenon DEF Leased, Job, JobStates, Phases, ControlStates, AnyDoc, AnyService
  <1> QED
    BY <1>1, Zenon DEF Leased, Job, JobStates, Phases, ControlStates, AnyDoc, AnyService

LEMMA AssignedRow ==
  ASSUME NEW j \in Job, NEW s \in AnyService
  PROVE  LET r == Assigned(j, s) IN
         /\ r \in Job
         /\ r.state = j.state /\ r.owner = j.owner /\ (r.live <=> j.live)
         /\ r.control = j.control /\ r.phase = j.phase /\ r.service = s
         /\ r.gen = j.gen /\ r.doc = j.doc /\ r.elems = j.elems
  <1>1. Assigned(j, s) \in Job
    BY Zenon DEF Assigned, Job, JobStates, Phases, ControlStates, AnyDoc, AnyService
  <1> QED
    BY <1>1, Zenon DEF Assigned, Job, JobStates, Phases, ControlStates, AnyDoc, AnyService

LEMMA NormalizedRow ==
  ASSUME NEW j \in Job, NEW e \in AnyDoc
  PROVE  LET r == Normalized(j, e) IN
         /\ r \in Job
         /\ r.state = j.state /\ r.owner = j.owner /\ (r.live <=> j.live)
         /\ r.control = j.control /\ r.phase = "normalized" /\ r.service = NoService
         /\ r.gen = j.gen /\ r.doc = j.doc /\ r.elems = e
  <1>1. Normalized(j, e) \in Job
    BY Zenon DEF Normalized, Job, JobStates, Phases, ControlStates, AnyDoc, AnyService
  <1> QED
    BY <1>1, Zenon DEF Normalized, Job, JobStates, Phases, ControlStates, AnyDoc, AnyService

LEMMA FullyIndexedRow ==
  ASSUME NEW j \in Job
  PROVE  LET r == FullyIndexed(j) IN
         /\ r \in Job
         /\ r.state = j.state /\ r.owner = j.owner /\ (r.live <=> j.live)
         /\ r.control = j.control /\ r.phase = "indexed" /\ r.service = j.service
         /\ r.gen = j.gen /\ r.doc = j.doc /\ r.elems = j.elems
  <1>1. FullyIndexed(j) \in Job
    BY Zenon DEF FullyIndexed, Job, JobStates, Phases, ControlStates, AnyDoc, AnyService
  <1> QED
    BY <1>1, Zenon DEF FullyIndexed, Job, JobStates, Phases, ControlStates, AnyDoc, AnyService

LEMMA ReleasedRow ==
  ASSUME NEW j \in Job, NEW due \in BOOLEAN, NEW c \in ControlStates,
         NEW s \in AnyService
  PROVE  LET r == Released(j, due, c, s) IN
         /\ r \in Job
         /\ r.state = "pending" /\ r.owner = 0 /\ ~r.live
         /\ r.control = c /\ r.phase = j.phase /\ r.service = s
         /\ r.gen = j.gen /\ r.doc = j.doc /\ r.elems = j.elems
  <1>1. Released(j, due, c, s) \in Job
    BY Zenon DEF Released, Job, JobStates, Phases, ControlStates, AnyDoc, AnyService
  <1> QED
    BY <1>1, Zenon DEF Released, Job, JobStates, Phases, ControlStates, AnyDoc, AnyService

LEMMA ControlSettledRow ==
  ASSUME NEW j \in Job
  PROVE  LET r == ControlSettled(j) IN
         /\ r \in Job
         /\ r.state = "pending" /\ r.owner = 0 /\ ~r.live
         /\ r.control = IF j.control = "pause_requested" THEN "paused" ELSE j.control
         /\ r.phase = j.phase /\ r.service = NoService
         /\ r.gen = j.gen /\ r.doc = j.doc /\ r.elems = j.elems
  <1>1. ControlSettled(j) \in Job
    BY Zenon DEF ControlSettled, Job, JobStates, Phases, ControlStates, AnyDoc, AnyService
  <1> QED
    BY <1>1, Zenon DEF ControlSettled, Job, JobStates, Phases, ControlStates, AnyDoc, AnyService

LEMMA ControlledRow ==
  ASSUME NEW j \in Job, NEW c \in ControlStates
  PROVE  LET r == Controlled(j, c) IN
         /\ r \in Job
         /\ r.state = j.state /\ r.owner = j.owner /\ (r.live <=> j.live)
         /\ r.control = c /\ r.phase = j.phase /\ r.service = j.service
         /\ r.gen = j.gen /\ r.doc = j.doc /\ r.elems = j.elems
  <1>1. Controlled(j, c) \in Job
    BY Zenon DEF Controlled, Job, JobStates, Phases, ControlStates, AnyDoc, AnyService
  <1> QED
    BY <1>1, Zenon DEF Controlled, Job, JobStates, Phases, ControlStates, AnyDoc, AnyService

LEMMA RetriedRow ==
  ASSUME NEW j \in Job
  PROVE  LET r == Retried(j) IN
         /\ r \in Job
         /\ r.state = "pending" /\ r.owner = j.owner /\ (r.live <=> j.live)
         /\ r.control = "active" /\ r.phase = j.phase /\ r.service = j.service
         /\ r.gen = j.gen /\ r.doc = j.doc /\ r.elems = j.elems
  <1>1. Retried(j) \in Job
    BY Zenon DEF Retried, Job, JobStates, Phases, ControlStates, AnyDoc, AnyService
  <1> QED
    BY <1>1, Zenon DEF Retried, Job, JobStates, Phases, ControlStates, AnyDoc, AnyService

LEMMA ExpiredRow ==
  ASSUME NEW j \in Job
  PROVE  LET r == Expired(j) IN
         /\ r \in Job
         /\ r.state = j.state /\ r.owner = j.owner /\ ~r.live
         /\ r.control = j.control /\ r.phase = j.phase /\ r.service = j.service
         /\ r.gen = j.gen /\ r.doc = j.doc /\ r.elems = j.elems
  <1>1. Expired(j) \in Job
    BY Zenon DEF Expired, Job, JobStates, Phases, ControlStates, AnyDoc, AnyService
  <1> QED
    BY <1>1, Zenon DEF Expired, Job, JobStates, Phases, ControlStates, AnyDoc, AnyService

LEMMA DueNowRow ==
  ASSUME NEW j \in Job
  PROVE  LET r == DueNow(j) IN
         /\ r \in Job
         /\ r.state = j.state /\ r.owner = j.owner /\ (r.live <=> j.live)
         /\ r.control = j.control /\ r.phase = j.phase /\ r.service = j.service
         /\ r.gen = j.gen /\ r.doc = j.doc /\ r.elems = j.elems
  <1>1. DueNow(j) \in Job
    BY Zenon DEF DueNow, Job, JobStates, Phases, ControlStates, AnyDoc, AnyService
  <1> QED
    BY <1>1, Zenon DEF DueNow, Job, JobStates, Phases, ControlStates, AnyDoc, AnyService

LEMMA AtRow ==
  ASSUME NEW r \in Worker, NEW p \in Positions
  PROVE  LET q == At(r, p) IN
         /\ q \in Worker
         /\ q.pc = p /\ q.file = r.file /\ q.owner = r.owner /\ q.task = r.task
         /\ q.doc = r.doc /\ q.elems = r.elems
  <1>1. At(r, p) \in Worker
    BY Zenon DEF At, Worker
  <1> QED
    BY <1>1, Zenon DEF At, Worker

LEMMA WithRow ==
  ASSUME NEW r \in Worker, NEW p \in Positions, NEW s \in AnyService,
         NEW t \in AnyTask
  PROVE  LET q == With(r, p, s, t) IN
         /\ q \in Worker
         /\ q.pc = p /\ q.file = r.file /\ q.owner = r.owner /\ q.task = t
         /\ q.doc = r.doc /\ q.elems = r.elems
  <1>1. With(r, p, s, t) \in Worker
    BY Zenon DEF With, Worker
  <1> QED
    BY <1>1, Zenon DEF With, Worker

LEMMA LeftRow ==
  ASSUME NEW r \in Worker, NEW p \in Positions, NEW e \in AnyDoc,
         NEW sig \in Signals
  PROVE  LET q == Left(r, p, e, sig) IN
         /\ q \in Worker
         /\ q.pc = p /\ q.file = r.file /\ q.owner = r.owner
         /\ q.task = 0 /\ q.elems = e
  <1>1. Left(r, p, e, sig) \in Worker
    BY Zenon DEF Left, IdleWorker, Worker, AnyDoc, AnyService, AnyTask
  <1> QED
    BY <1>1, Zenon DEF Left, IdleWorker, Worker, AnyDoc, AnyService, AnyTask

LEMMA SignalledRow ==
  ASSUME NEW r \in Worker, NEW sig \in Signals
  PROVE  LET q == Signalled(r, sig) IN
         /\ q \in Worker
         /\ q.pc = r.pc /\ q.file = r.file /\ q.owner = r.owner /\ q.task = r.task
         /\ q.doc = r.doc /\ q.elems = r.elems
  <1>1. Signalled(r, sig) \in Worker
    BY Zenon DEF Signalled, Worker
  <1> QED
    BY <1>1, Zenon DEF Signalled, Worker

LEMMA DecidingRow ==
  ASSUME NEW p \in Positions, NEW f \in Files, NEW d \in Docs
  PROVE  LET q == Deciding(p, f, d) IN
         /\ q \in Worker
         /\ q.pc = p /\ q.file = f /\ q.owner = 0 /\ q.doc = d
  <1>1. Deciding(p, f, d) \in Worker
    BY Zenon DEF Deciding, IdleWorker, Worker, AnyFile, AnyDoc, AnyService, AnyTask, Signals
  <1> QED
    BY <1>1, Zenon DEF Deciding, IdleWorker, Worker, AnyFile, AnyDoc, AnyService, AnyTask, Signals

LEMMA FailedRow ==
  ASSUME NEW j \in Job, NEW c \in ControlStates, NEW s \in AnyService
  PROVE  LET r == Failed(j, c, s) IN
         /\ r \in Job
         /\ r.state \in {"pending", "failed"} /\ r.owner = 0 /\ ~r.live
         /\ r.control = c /\ r.phase = j.phase /\ r.service = s
         /\ r.gen = j.gen /\ r.doc = j.doc /\ r.elems = j.elems
  <1> DEFINE st == IF j.attempts + 1 < MaxAttempts THEN "pending" ELSE "failed"
             n == j.attempts + 1
  <1>1. st \in {"pending", "failed"} /\ n \in Nat
    BY DEF Job
  <1>2. Failed(j, c, s) = [j EXCEPT !.state = st, !.owner = 0, !.live = FALSE,
                              !.due = FALSE, !.attempts = n, !.control = c,
                              !.service = s]
    BY DEF Failed
  <1> HIDE DEF st, n
  <1>3. st \in JobStates /\ n \in Nat
    BY <1>1 DEF JobStates
  <1>4. [j EXCEPT !.state = st, !.owner = 0, !.live = FALSE, !.due = FALSE,
                  !.attempts = n, !.control = c, !.service = s] \in Job
    BY <1>3, Zenon DEF Job
  <1>5. Failed(j, c, s) \in Job
    BY <1>2, <1>4
  <1> QED
    BY <1>1, <1>2, <1>5, Zenon DEF Job

LEMMA ClaimantRow ==
  ASSUME NEW j \in Job, NEW f \in Files, NEW o \in Nat
  PROVE  LET q == Claimant(j, f, o) IN
         /\ q \in Worker
         /\ q.pc \in {"index", "promote", "store", "assign"}
         /\ q.file = f /\ q.owner = o
         /\ q.task = 0
         /\ q.pc = "assign" => q.doc = j.doc
         /\ q.pc = "store" => q.elems = j.doc
  <1> DEFINE p == FirstStep(j)
             d == IF p = "assign" THEN j.doc ELSE NoDoc
             e == IF p = "store" THEN j.doc ELSE NoDoc
  <1>1. p \in {"index", "promote", "store", "assign"}
    BY DEF FirstStep
  <1>0. (p = "assign" => d = j.doc) /\ (p = "store" => e = j.doc)
    OBVIOUS
  <1>2. p \in Positions
    BY <1>1 DEF Positions, Running
  <1>3. d \in AnyDoc /\ e \in AnyDoc
    BY DEF Job, AnyDoc
  <1>4. Claimant(j, f, o) = [IdleWorker EXCEPT !.pc = p, !.file = f, !.owner = o,
                                !.doc = d, !.elems = e]
    BY DEF Claimant
  <1> HIDE DEF p, d, e
  <1>5. Claimant(j, f, o) \in Worker
    BY <1>2, <1>3, <1>4, Zenon DEF IdleWorker, Worker, Positions, Signals, AnyFile,
       AnyDoc, AnyService, AnyTask
  <1> DEFINE q == Claimant(j, f, o)
  <1>6. q.pc = p /\ q.file = f /\ q.owner = o /\ q.doc = d /\ q.elems = e /\ q.task = 0
    BY <1>4, <1>5, Zenon DEF IdleWorker, Worker
  <1> HIDE DEF q
  <1>7. /\ q.pc = "assign" => q.doc = j.doc
        /\ q.pc = "store" => q.elems = j.doc
    BY <1>0, <1>6
  <1> QED
    BY <1>1, <1>5, <1>6, <1>7 DEF q

-----------------------------------------------------------------------------
(* Types. *)

\* What a worker's position says of its record: a busy worker has a file, one that
\* talks to Docling has a task, one that has claimed nothing has no lease, and one
\* that prepares a file was asked to for a content.
TaskSteps == {"record", "resume_task", "submit", "watch", "clear"}
Unclaimed == {"idle", "skip", "resume", "reset", "prepared"}
WorkerOK ==
    \A w \in Workers :
        /\ wk[w].pc # "idle" => wk[w].file \in Files
        /\ wk[w].pc \in TaskSteps => wk[w].task \in TaskIds
        /\ wk[w].pc \in Unclaimed => wk[w].owner = 0
        /\ wk[w].pc \in {"skip", "resume", "reset"} => wk[w].doc \in Docs

Typed == TypeOK /\ WorkerOK

LEMMA InitTyped == Init => Typed
  <1> SUFFICES ASSUME Init PROVE Typed
    OBVIOUS
  <1>1. TypeOK
    BY EmptyRows, ConstantsAssumption
       DEF Init, TypeOK, RemoteTask, RemoteStatuses, AnyDoc
  <1>2. IdleWorker.pc = "idle" /\ IdleWorker.owner = 0
    BY DEF IdleWorker
  <1>3. WorkerOK
    BY <1>2 DEF Init, WorkerOK, TaskSteps, Unclaimed
  <1> QED
    BY <1>1, <1>3 DEF Typed

\* Replacing the record of one worker by a well-formed one.
LEMMA WorkerStepTyped ==
  ASSUME Typed, NEW w \in Workers, NEW q \in Worker, wk' = [wk EXCEPT ![w] = q],
         q.pc # "idle" => q.file \in Files,
         q.pc \in TaskSteps => q.task \in TaskIds,
         q.pc \in Unclaimed => q.owner = 0,
         q.pc \in {"skip", "resume", "reset"} => q.doc \in Docs
  PROVE  wk' \in [Workers -> Worker] /\ WorkerOK'
  BY DEF Typed, TypeOK, WorkerOK

\* The positions used below.
LEMMA PositionNames ==
    /\ {"idle", "skip", "resume", "reset", "prepared", "catch", "settle", "release",
        "fail", "assign", "open", "record", "resume_task", "submit", "watch",
        "clear", "store", "advance", "index", "promote"} \subseteq Positions
    /\ Signals = {"none", "lost", "control"}
  BY DEF Positions, Running, Signals

\* The four ways in which a step moves a worker on.
LEMMA GoToTyped ==
  ASSUME Typed, NEW w \in Workers, NEW p \in Positions, wk' = GoTo(w, p),
         wk[w].pc # "idle", p \notin Unclaimed,
         p \in TaskSteps => wk[w].pc \in TaskSteps
  PROVE  wk' \in [Workers -> Worker] /\ WorkerOK'
  <1> DEFINE q == At(wk[w], p)
  <1>1. wk[w] \in Worker
    BY DEF Typed, TypeOK
  <1>2. q \in Worker /\ q.pc = p /\ q.file = wk[w].file /\ q.task = wk[w].task
    BY <1>1, AtRow
  <1>3. q.file \in Files /\ (p \in TaskSteps => q.task \in TaskIds)
    BY <1>2 DEF Typed, WorkerOK
  <1> QED
    BY <1>2, <1>3, WorkerStepTyped DEF GoTo, Unclaimed

LEMMA LeftTyped ==
  ASSUME Typed, NEW w \in Workers, NEW p \in Positions, NEW e \in AnyDoc,
         NEW sig \in Signals, wk' = [wk EXCEPT ![w] = Left(wk[w], p, e, sig)],
         wk[w].pc # "idle", p \notin TaskSteps,
         p \notin {"skip", "resume", "reset"},
         p \in Unclaimed => wk[w].pc \in Unclaimed
  PROVE  wk' \in [Workers -> Worker] /\ WorkerOK'
  <1> DEFINE q == Left(wk[w], p, e, sig)
  <1>1. wk[w] \in Worker
    BY DEF Typed, TypeOK
  <1>2. q \in Worker /\ q.pc = p /\ q.file = wk[w].file /\ q.owner = wk[w].owner
    BY <1>1, LeftRow
  <1>3. q.file \in Files /\ (p \in Unclaimed => q.owner = 0)
    BY <1>2 DEF Typed, WorkerOK
  <1> QED
    BY <1>2, <1>3, WorkerStepTyped

LEMMA LeaveTyped ==
  ASSUME Typed, NEW w \in Workers, NEW p \in Positions, wk' = Leave(w, p),
         wk[w].pc # "idle", p \notin TaskSteps,
         p \notin {"skip", "resume", "reset"},
         p \in Unclaimed => wk[w].pc \in Unclaimed
  PROVE  wk' \in [Workers -> Worker] /\ WorkerOK'
  <1>1. wk[w].signal \in Signals /\ NoDoc \in AnyDoc
    BY DEF Typed, TypeOK, Worker, AnyDoc
  <1> QED
    BY <1>1, LeftTyped DEF Leave

LEMMA IdleTyped ==
  ASSUME Typed, NEW w \in Workers, wk' = GoIdle(w)
  PROVE  wk' \in [Workers -> Worker] /\ WorkerOK'
  <1>1. IdleWorker.pc = "idle" /\ IdleWorker.owner = 0
    BY DEF IdleWorker
  <1> QED
    BY <1>1, EmptyRows, WorkerStepTyped DEF GoIdle, TaskSteps, Unclaimed

\* Users' requests and the preparation of jobs.
LEMMA ClientTyped == Typed /\ ClientStep => Typed'
  <1> SUFFICES ASSUME Typed, ClientStep PROVE Typed'
    OBVIOUS
  <1>t. Docs \subseteq AnyDoc /\ NoService \in AnyService /\ gens + 1 \in Nat
        /\ \A f \in Files : job[f] \in Job /\ job[f].service \in AnyService
    BY DEF Typed, TypeOK, AnyDoc, AnyService, Job
  <1>1. ASSUME NEW f \in Files, NEW d \in Docs, Upload(f, d) PROVE Typed'
    BY <1>1, <1>t, ResetJobRow, EmptyRows DEF Upload, Typed, TypeOK, WorkerOK
  <1>2. ASSUME NEW c \in Clis, NEW f \in Files, NEW d \in Docs,
               NEW force \in BOOLEAN, PrepareRead(c, f, d, force)
        PROVE  Typed'
    <2>1. c \in Workers
      BY DEF Workers
    <2>2. PICK p \in {"skip", "resume", "reset"} :
             wk' = [wk EXCEPT ![c] = Deciding(p, f, d)]
      BY <1>2 DEF PrepareRead
    <2> DEFINE q == Deciding(p, f, d)
    <2>3. q \in Worker /\ q.pc = p /\ q.file = f /\ q.owner = 0 /\ q.doc = d
      BY DecidingRow, PositionNames
    <2>4. wk' \in [Workers -> Worker] /\ WorkerOK'
      BY <2>1, <2>2, <2>3, WorkerStepTyped DEF TaskSteps
    <2> QED
      BY <1>2, <2>4 DEF PrepareRead, Typed, TypeOK
  <1>3. ASSUME NEW c \in Clis, PrepareSkip(c) PROVE Typed'
    <2>1. wk' \in [Workers -> Worker] /\ WorkerOK'
      BY <1>3, IdleTyped DEF PrepareSkip, Workers
    <2> QED
      BY <1>3, <2>1, EmptyRows DEF PrepareSkip, Typed, TypeOK
  <1>4. ASSUME NEW c \in Clis, PrepareResume(c) PROVE Typed'
    <2>1. c \in Workers /\ wk[c].pc = "resume"
      BY <1>4 DEF PrepareResume, Workers
    <2>2. wk' = Leave(c, "prepared") \/ wk' = GoIdle(c)
      BY <1>4 DEF PrepareResume
    <2>3. wk' \in [Workers -> Worker] /\ WorkerOK'
      BY <2>1, <2>2, LeaveTyped, IdleTyped, PositionNames DEF TaskSteps, Unclaimed
    <2>4. wk[c].file \in Files
      BY <2>1 DEF Typed, WorkerOK
    <2>5. job' = job \/ job' = [job EXCEPT ![wk[c].file] = Resumed(job[wk[c].file])]
      BY <1>4 DEF PrepareResume
    <2>6. job' \in [Files -> Job]
      BY <1>t, <2>4, <2>5, ResumedRow DEF Typed, TypeOK
    <2> QED
      BY <1>4, <2>3, <2>6 DEF PrepareResume, Typed, TypeOK
  <1>5. ASSUME NEW c \in Clis, PrepareReset(c) PROVE Typed'
    <2>1. c \in Workers /\ wk[c].pc = "reset" /\ wk[c].doc \in AnyDoc
      BY <1>5 DEF PrepareReset, Workers, Typed, TypeOK, Worker
    <2>2. wk' = Leave(c, "prepared") \/ wk' = GoIdle(c)
      BY <1>5 DEF PrepareReset
    <2>3. wk' \in [Workers -> Worker] /\ WorkerOK'
      BY <2>1, <2>2, LeaveTyped, IdleTyped, PositionNames DEF TaskSteps, Unclaimed
    <2>4. wk[c].file \in Files
      BY <2>1 DEF Typed, WorkerOK
    <2>5. \/ job' = job
          \/ job' = [job EXCEPT ![wk[c].file] =
                       ResetJob(job[wk[c].file], wk[c].doc, job[wk[c].file].service)]
      BY <1>5 DEF PrepareReset
    <2>6. gens \in Nat /\ gens' \in Nat
      BY <1>5, <1>t DEF PrepareReset, Typed, TypeOK
    <2>7. ResetJob(job[wk[c].file], wk[c].doc, job[wk[c].file].service) \in Job
      BY <1>t, <2>1, <2>4, <2>6, ResetJobRow
    <2>8. job' \in [Files -> Job]
      BY <2>4, <2>5, <2>7 DEF Typed, TypeOK
    <2> QED
      BY <1>5, <2>3, <2>6, <2>8 DEF PrepareReset, Typed, TypeOK
  <1>6. ASSUME NEW f \in Files, RequestPause(f) \/ RequestCancel(f) \/ ResumePaused(f)
        PROVE  Typed'
    BY <1>6, <1>t, ControlledRow
       DEF RequestPause, RequestCancel, ResumePaused, ControlOnly, ControlStates,
           Typed, TypeOK, WorkerOK
  <1>7. ASSUME NEW f \in Files, RetryFailed(f) PROVE Typed'
    BY <1>7, <1>t, RetriedRow DEF RetryFailed, ControlOnly, Typed, TypeOK, WorkerOK
  <1>8. ASSUME NEW f \in Files, DeleteDocument(f) PROVE Typed'
    BY <1>8, EmptyRows DEF DeleteDocument, Typed, TypeOK, WorkerOK
  <1> QED
    BY <1>1, <1>2, <1>3, <1>4, <1>5, <1>6, <1>7, <1>8 DEF ClientStep

\* Claims and the phases of a claimed job.
LEMMA ClaimTyped ==
  ASSUME Typed, NEW w \in Workers, NEW f \in Files, Claim(w, f)
  PROVE  Typed'
  <1> DEFINE q == Claimant(job[f], f, claims + 1)
  <1>1. job[f] \in Job /\ claims + 1 \in Nat
    BY DEF Typed, TypeOK
  <1>2. q \in Worker /\ q.file = f /\ q.pc \in {"index", "promote", "store", "assign"}
    BY <1>1, ClaimantRow
  <1>3. wk' \in [Workers -> Worker] /\ WorkerOK'
    BY <1>2, WorkerStepTyped DEF Claim, TaskSteps, Unclaimed
  <1> QED
    BY <1>1, <1>3, LeasedRow DEF Claim, Typed, TypeOK

LEMMA WorkTyped ==
  ASSUME Typed, NEW w \in Workers, WorkStep(w)
  PROVE  Typed'
  <1>t. /\ wk[w].service \in AnyService /\ wk[w].doc \in AnyDoc
        /\ wk[w].elems \in AnyDoc /\ wk[w].task \in AnyTask
        /\ wk[w].signal \in Signals /\ wk[w] \in Worker /\ NoDoc \in AnyDoc
    BY DEF Typed, TypeOK, Worker, AnyDoc
  <1>f. wk[w].pc # "idle" => wk[w].file \in Files /\ job[wk[w].file] \in Job
                             /\ ckpt[wk[w].file] \in Checkpoint
    BY DEF Typed, TypeOK, WorkerOK
  <1>1. ASSUME NEW s \in Services, EnsureAssignment(w, s) PROVE Typed'
    <2> DEFINE q == With(wk[w], "open", s, 0)
    <2>1. s \in AnyService /\ 0 \in AnyTask /\ "open" \in Positions
      BY PositionNames DEF AnyService, AnyTask
    <2>2. q \in Worker /\ q.pc = "open" /\ q.file = wk[w].file
      BY <1>t, <2>1, WithRow
    <2>3. wk' \in [Workers -> Worker] /\ WorkerOK'
      BY <1>1, <1>f, <2>2, WorkerStepTyped DEF EnsureAssignment, TaskSteps, Unclaimed
    <2>4. wk[w].pc = "assign" /\ job' = [job EXCEPT ![wk[w].file] =
                                            Assigned(job[wk[w].file], s)]
      BY <1>1 DEF EnsureAssignment
    <2>5. job' \in [Files -> Job]
      BY <1>f, <2>1, <2>4, AssignedRow DEF Typed, TypeOK
    <2> QED
      BY <1>1, <2>3, <2>5 DEF EnsureAssignment, Typed, TypeOK
  <1>2. ASSUME OpenTask(w) PROVE Typed'
    <2>1. wk[w].pc = "open" /\ wk[w].file \in Files
      BY <1>2, <1>f DEF OpenTask
    <2>2. CASE wk' = Leave(w, "catch") /\ tasks' = tasks
      <3>1. wk' \in [Workers -> Worker] /\ WorkerOK'
        BY <2>1, <2>2, LeaveTyped, PositionNames DEF TaskSteps, Unclaimed
      <3> QED
        BY <1>2, <2>2, <3>1 DEF OpenTask, Typed, TypeOK
    <2>3. ASSUME NEW p \in {"resume_task", "record"}, NEW t \in TaskIds,
                 wk' = [wk EXCEPT ![w] = With(wk[w], p, wk[w].service, t)],
                 tasks' \in 0 .. MaxTasks
          PROVE  Typed'
      <3> DEFINE q == With(wk[w], p, wk[w].service, t)
      <3>0. p \in Positions /\ t \in AnyTask
        BY PositionNames DEF AnyTask
      <3>1. q \in Worker /\ q.pc = p /\ q.file = wk[w].file /\ q.task = t
        BY <1>t, <3>0, WithRow
      <3>2. wk' \in [Workers -> Worker] /\ WorkerOK'
        BY <2>1, <2>3, <3>1, WorkerStepTyped DEF Unclaimed
      <3> QED
        BY <1>2, <2>3, <3>2 DEF OpenTask, Typed, TypeOK
    <2>4. CASE Owned(w) /\ HasCkpt(wk[w].file)
      <3>1. ckpt[wk[w].file].task \in TaskIds
        BY <1>f, <2>1, <2>4 DEF HasCkpt, Checkpoint, AnyTask
      <3> QED
        BY <1>2, <2>2, <2>3, <2>4, <3>1 DEF OpenTask, Typed, TypeOK
    <2>5. CASE ~(Owned(w) /\ HasCkpt(wk[w].file))
      <3>1. tasks + 1 \in TaskIds /\ tasks + 1 \in 0 .. MaxTasks
        BY <1>2, <2>5, ConstantsAssumption DEF OpenTask, TaskIds, Typed, TypeOK
      <3> QED
        BY <1>2, <2>3, <2>5, <3>1 DEF OpenTask
    <2> QED
      BY <2>4, <2>5
  <1>3. ASSUME RecordTask(w) PROVE Typed'
    <2>1. wk[w].pc = "record"
      BY <1>3 DEF RecordTask
    <2>2. wk' = GoTo(w, "submit") \/ wk' = Leave(w, "catch")
      BY <1>3 DEF RecordTask
    <2>3. wk' \in [Workers -> Worker] /\ WorkerOK'
      BY <2>1, <2>2, GoToTyped, LeaveTyped, PositionNames DEF TaskSteps, Unclaimed
    <2> QED
      BY <1>3, <1>t, <2>3 DEF RecordTask, Checkpoint, Typed, TypeOK
  <1>4. ASSUME ResumeTask(w) PROVE Typed'
    <2>1. wk[w].pc = "resume_task" /\ (wk' = GoTo(w, "watch") \/ wk' = GoTo(w, "submit"))
      BY <1>4 DEF ResumeTask
    <2>2. wk' \in [Workers -> Worker] /\ WorkerOK'
      BY <2>1, GoToTyped, PositionNames DEF TaskSteps, Unclaimed
    <2> QED
      BY <1>4, <2>2 DEF ResumeTask, Typed, TypeOK
  <1>5. ASSUME SubmitTask(w) PROVE Typed'
    <2>1. wk[w].pc = "submit" /\ (wk' = GoTo(w, "watch") \/ wk' = Leave(w, "catch"))
      BY <1>5 DEF SubmitTask
    <2>2. wk' \in [Workers -> Worker] /\ WorkerOK'
      BY <2>1, GoToTyped, LeaveTyped, PositionNames DEF TaskSteps, Unclaimed
    <2> QED
      BY <1>5, <1>t, <2>2 DEF SubmitTask, RemoteTask, RemoteStatuses, Typed, TypeOK
  <1>6. ASSUME FetchResult(w) PROVE Typed'
    <2>1. wk[w].pc = "watch" /\ wk[w].task \in TaskIds
      BY <1>6 DEF FetchResult, Typed, WorkerOK, TaskSteps
    <2>2. remote[wk[w].task].doc \in AnyDoc
      BY <2>1 DEF Typed, TypeOK, RemoteTask
    <2>3. wk' \in [Workers -> Worker] /\ WorkerOK'
      BY <1>6, <1>t, <2>1, <2>2, LeftTyped, PositionNames
         DEF FetchResult, TaskSteps, Unclaimed
    <2> QED
      BY <1>6, <2>3 DEF FetchResult, Typed, TypeOK
  <1>7. ASSUME TaskEnded(w) PROVE Typed'
    <2>1. wk[w].pc = "watch" /\ (\/ wk' = GoTo(w, "clear") \/ wk' = GoTo(w, "submit")
                                \/ wk' = Leave(w, "catch"))
      BY <1>7 DEF TaskEnded
    <2>2. wk' \in [Workers -> Worker] /\ WorkerOK'
      BY <2>1, GoToTyped, LeaveTyped, PositionNames DEF TaskSteps, Unclaimed
    <2> QED
      BY <1>7, <2>2 DEF TaskEnded, Typed, TypeOK
  <1>8. ASSUME TerminateTask(w) PROVE Typed'
    <2>1. wk[w].pc = "watch" /\ wk' = GoTo(w, "clear") /\ wk[w].task \in TaskIds
      BY <1>8 DEF TerminateTask, Typed, WorkerOK, TaskSteps
    <2>2. wk' \in [Workers -> Worker] /\ WorkerOK'
      BY <2>1, GoToTyped, PositionNames DEF TaskSteps, Unclaimed
    <2> QED
      BY <1>8, <2>1, <2>2 DEF TerminateTask, RemoteTask, RemoteStatuses, Typed, TypeOK
  <1>9. ASSUME ClearTask(w) PROVE Typed'
    <2>1. wk[w].pc = "clear" /\ wk' = Leave(w, "catch")
      BY <1>9 DEF ClearTask
    <2>2. wk' \in [Workers -> Worker] /\ WorkerOK'
      BY <2>1, LeaveTyped, PositionNames DEF TaskSteps, Unclaimed
    <2> QED
      BY <1>9, <2>2, EmptyRows DEF ClearTask, Typed, TypeOK
  <1>10. ASSUME CompleteNormalization(w) PROVE Typed'
    <2>1. wk[w].pc = "store" /\ (wk' = Leave(w, "advance") \/ wk' = Leave(w, "catch"))
      BY <1>10 DEF CompleteNormalization
    <2>2. wk' \in [Workers -> Worker] /\ WorkerOK'
      BY <2>1, LeaveTyped, PositionNames DEF TaskSteps, Unclaimed
    <2> DEFINE r == Normalized(job[wk[w].file], wk[w].elems)
    <2>3. r \in Job
      BY <1>t, <1>f, <2>1, NormalizedRow
    <2>4. /\ job' = job \/ job' = [job EXCEPT ![wk[w].file] = r]
          /\ ckpt' = ckpt \/ ckpt' = [ckpt EXCEPT ![wk[w].file] = NoCkpt]
      BY <1>10 DEF CompleteNormalization
    <2> HIDE DEF r
    <2>5. job' \in [Files -> Job] /\ ckpt' \in [Files -> Checkpoint]
      BY <2>3, <2>4, EmptyRows DEF Typed, TypeOK
    <2> QED
      BY <1>10, <2>2, <2>5 DEF CompleteNormalization, Typed, TypeOK
  <1>11. ASSUME ReadAdvanced(w) PROVE Typed'
    <2>1. /\ wk[w].pc = "advance"
          /\ \/ wk' = Leave(w, "catch")
             \/ \E p \in {"index", "promote", "store", "assign"} : wk' = GoTo(w, p)
      BY <1>11 DEF ReadAdvanced, FirstStep
    <2>2. wk' \in [Workers -> Worker] /\ WorkerOK'
      BY <2>1, GoToTyped, LeaveTyped, PositionNames DEF TaskSteps, Unclaimed
    <2> QED
      BY <1>11, <2>2 DEF ReadAdvanced, Typed, TypeOK
  <1>12. ASSUME CompleteIndexing(w) PROVE Typed'
    <2>1. wk[w].pc = "index" /\ (wk' = Leave(w, "advance") \/ wk' = Leave(w, "catch"))
      BY <1>12 DEF CompleteIndexing
    <2>2. wk' \in [Workers -> Worker] /\ WorkerOK'
      BY <2>1, LeaveTyped, PositionNames DEF TaskSteps, Unclaimed
    <2> QED
      BY <1>12, <1>f, <2>1, <2>2, FullyIndexedRow DEF CompleteIndexing, Typed, TypeOK
  <1>13. ASSUME Promote(w) PROVE Typed'
    <2>1. wk[w].pc = "promote" /\ (wk' = GoIdle(w) \/ wk' = Leave(w, "catch"))
      BY <1>13 DEF Promote
    <2>2. wk' \in [Workers -> Worker] /\ WorkerOK'
      BY <2>1, IdleTyped, LeaveTyped, PositionNames DEF TaskSteps, Unclaimed
    <2>3. indexed' \in [Files -> Published]
      BY <1>13, <1>f, <2>1 DEF Promote, Typed, TypeOK, Published, Job
    <2> QED
      BY <1>13, <1>f, <2>1, <2>2, <2>3, EmptyRows DEF Promote, Typed, TypeOK
  <1> QED
    BY <1>1, <1>2, <1>3, <1>4, <1>5, <1>6, <1>7, <1>8, <1>9, <1>10, <1>11, <1>12,
       <1>13 DEF WorkStep

\* Failures, interruptions and crashes of a worker.
LEMMA ReleasedColumns ==
  ASSUME Typed, NEW f \in Files, NEW keep \in BOOLEAN
  PROVE  SettledControl(f) \in ControlStates /\ ReleasedService(f, keep) \in AnyService
  BY DEF SettledControl, ReleasedService, ControlStates, AnyService, Typed, TypeOK, Job

LEMMA SettleTyped ==
  ASSUME Typed, NEW w \in Workers, SettleStep(w) \/ Heartbeat(w) \/ Crash(w)
  PROVE  Typed'
  <1>t. wk[w] \in Worker /\ wk[w].signal \in Signals /\ NoDoc \in AnyDoc
    BY DEF Typed, TypeOK, Worker, AnyDoc
  <1>f. wk[w].pc # "idle" => wk[w].file \in Files /\ job[wk[w].file] \in Job
    BY DEF Typed, TypeOK, WorkerOK
  <1>1. CASE Fault(w)
    <2>1. wk[w].pc # "idle" /\ wk' = Leave(w, "catch")
      BY <1>1 DEF Fault, Running
    <2>2. wk' \in [Workers -> Worker] /\ WorkerOK'
      BY <2>1, LeaveTyped, PositionNames DEF TaskSteps, Unclaimed
    <2> QED
      BY <1>1, <2>2 DEF Fault, Typed, TypeOK
  <1>2. CASE Catch(w)
    <2>1. /\ wk[w].pc = "catch"
          /\ \/ wk' = GoIdle(w)
             \/ \E p \in {"settle", "release", "fail"} : wk' = HandTo(w, p)
      BY <1>2 DEF Catch
    <2>2. ASSUME NEW p \in {"settle", "release", "fail"}, wk' = HandTo(w, p)
          PROVE  wk' \in [Workers -> Worker] /\ WorkerOK'
      <3>1. p \in Positions /\ "none" \in Signals
        BY PositionNames
      <3>2. wk' = [wk EXCEPT ![w] = Left(wk[w], p, NoDoc, "none")]
        BY <2>2 DEF HandTo
      <3> QED
        BY <1>t, <2>1, <3>1, <3>2, LeftTyped DEF TaskSteps, Unclaimed
    <2>3. wk' \in [Workers -> Worker] /\ WorkerOK'
      BY <2>1, <2>2, IdleTyped
    <2> QED
      BY <1>2, <2>3 DEF Catch, Typed, TypeOK
  <1>3. CASE SettleOwned(w)
    <2>1. wk' \in [Workers -> Worker] /\ WorkerOK'
      BY <1>3, IdleTyped DEF SettleOwned
    <2> QED
      BY <1>3, <1>f, <2>1, ControlSettledRow DEF SettleOwned, Typed, TypeOK
  <1>4. ASSUME NEW due \in BOOLEAN, NEW keep \in BOOLEAN, Release(w, due, keep)
        PROVE  Typed'
    <2>1. wk' \in [Workers -> Worker] /\ WorkerOK'
      BY <1>4, IdleTyped DEF Release
    <2>2. Released(job[wk[w].file], due, SettledControl(wk[w].file),
                   ReleasedService(wk[w].file, keep)) \in Job
      BY <1>4, <1>f, ReleasedRow, ReleasedColumns DEF Release
    <2> QED
      BY <1>4, <2>1, <2>2 DEF Release, Typed, TypeOK
  <1>5. ASSUME NEW keep \in BOOLEAN, MarkFailed(w, keep) PROVE Typed'
    <2>1. wk' \in [Workers -> Worker] /\ WorkerOK'
      BY <1>5, IdleTyped DEF MarkFailed
    <2>2. Failed(job[wk[w].file], SettledControl(wk[w].file),
                 ReleasedService(wk[w].file, keep)) \in Job
      BY <1>5, <1>f, FailedRow, ReleasedColumns DEF MarkFailed
    <2> QED
      BY <1>5, <2>1, <2>2 DEF MarkFailed, Typed, TypeOK
  <1>6. CASE Heartbeat(w)
    <2>1. PICK sig \in {"lost", "control"} :
             wk' = [wk EXCEPT ![w] = Signalled(wk[w], sig)]
      BY <1>6 DEF Heartbeat
    <2> DEFINE q == Signalled(wk[w], sig)
    <2>2. /\ q \in Worker /\ q.pc = wk[w].pc /\ q.file = wk[w].file
          /\ q.owner = wk[w].owner /\ q.task = wk[w].task /\ q.doc = wk[w].doc
      BY <1>t, SignalledRow, PositionNames
    <2>3. wk' \in [Workers -> Worker] /\ WorkerOK'
      <3>1. /\ q.pc # "idle" => q.file \in Files
            /\ q.pc \in TaskSteps => q.task \in TaskIds
            /\ q.pc \in Unclaimed => q.owner = 0
            /\ q.pc \in {"skip", "resume", "reset"} => q.doc \in Docs
        BY <2>2 DEF Typed, WorkerOK
      <3> QED
        BY <2>1, <2>2, <3>1, WorkerStepTyped
    <2> QED
      BY <1>6, <2>3 DEF Heartbeat, Typed, TypeOK
  <1>7. CASE Crash(w)
    <2>1. wk' \in [Workers -> Worker] /\ WorkerOK'
      BY <1>7, IdleTyped DEF Crash
    <2> QED
      BY <1>7, <2>1 DEF Crash, Typed, TypeOK
  <1> QED
    BY <1>1, <1>2, <1>3, <1>4, <1>5, <1>6, <1>7 DEF SettleStep

\* Reconcilers.
LEMMA ReconcileTyped == Typed /\ ReconcileStep => Typed'
  <1> SUFFICES ASSUME Typed, ReconcileStep PROVE Typed'
    OBVIOUS
  <1>t. \A f \in Files : job[f] \in Job /\ ckpt[f] \in Checkpoint
    BY DEF Typed, TypeOK
  <1>1. ASSUME NEW f \in Files, SettleExpired(f) PROVE Typed'
    BY <1>1, <1>t, ControlSettledRow DEF SettleExpired, ControlOnly, Typed, TypeOK,
       WorkerOK
  <1>2. ASSUME NEW f \in Files, ExecuteControl(f) PROVE Typed'
    <2>1. ckpt[f].task \in TaskIds /\ ckpt[f].service \in AnyService
      BY <1>2, <1>t DEF ExecuteControl, HasCkpt, Checkpoint, AnyTask
    <2>2. remote' \in [TaskIds -> RemoteTask]
      BY <1>2, <2>1 DEF ExecuteControl, Typed, TypeOK, RemoteTask, RemoteStatuses
    <2>3. PICK o \in Outcomes :
             acks' = acks \cup {[file |-> f, task |-> ckpt[f].task,
                                 service |-> ckpt[f].service, outcome |-> o]}
      BY <1>2 DEF ExecuteControl, Outcomes
    <2>4. acks' \in SUBSET Ack
      BY <2>1, <2>3 DEF Typed, TypeOK, Ack
    <2> QED
      BY <1>2, <2>2, <2>4 DEF ExecuteControl, Typed, TypeOK, WorkerOK
  <1>3. ASSUME NEW f \in Files, FinalizeCancellation(f) PROVE Typed'
    BY <1>3, EmptyRows DEF FinalizeCancellation, ControlOnly, Typed, TypeOK, WorkerOK
  <1>4. ASSUME NEW a \in acks, AckControl(a) PROVE Typed'
    <2>1. a \in Ack /\ a.file \in Files
      BY DEF Typed, TypeOK, Ack
    <2>2. job' = job \/ job' = [job EXCEPT ![a.file] = ControlSettled(job[a.file])]
      BY <1>4 DEF AckControl
    <2>3. job' \in [Files -> Job]
      BY <1>t, <2>1, <2>2, ControlSettledRow DEF Typed, TypeOK
    <2>4. ckpt' = ckpt \/ ckpt' = [ckpt EXCEPT ![a.file] = NoCkpt]
      BY <1>4 DEF AckControl
    <2>5. ckpt' \in [Files -> Checkpoint]
      BY <2>1, <2>4, EmptyRows DEF Typed, TypeOK
    <2> QED
      BY <1>4, <2>3, <2>5 DEF AckControl, Typed, TypeOK, WorkerOK
  <1>5. ASSUME NEW a \in acks, LoseAck(a) PROVE Typed'
    BY <1>5 DEF LoseAck, Typed, TypeOK, WorkerOK
  <1> QED
    BY <1>1, <1>2, <1>3, <1>4, <1>5 DEF ReconcileStep

\* Time and Docling.
LEMMA EnvironmentTyped == Typed /\ EnvironmentStep => Typed'
  <1> SUFFICES ASSUME Typed, EnvironmentStep PROVE Typed'
    OBVIOUS
  <1>t. \A f \in Files : job[f] \in Job
    BY DEF Typed, TypeOK
  <1>1. ASSUME NEW f \in Files, ExpireLease(f) PROVE Typed'
    BY <1>1, <1>t, ExpiredRow DEF ExpireLease, ControlOnly, Typed, TypeOK, WorkerOK
  <1>2. ASSUME NEW f \in Files, BecomeDue(f) PROVE Typed'
    BY <1>2, <1>t, DueNowRow DEF BecomeDue, ControlOnly, Typed, TypeOK, WorkerOK
  <1>3. ASSUME NEW t \in TaskIds, NEW status \in {"done", "failed"},
               RemoteEnds(t, status)
        PROVE  Typed'
    BY <1>3 DEF RemoteEnds, RemoteTask, RemoteStatuses, Typed, TypeOK, WorkerOK
  <1>4. ASSUME NEW t \in TaskIds, RemoteForgets(t) PROVE Typed'
    BY <1>4 DEF RemoteForgets, RemoteTask, RemoteStatuses, AnyDoc, Typed, TypeOK,
       WorkerOK
  <1> QED
    BY <1>1, <1>2, <1>3, <1>4 DEF EnvironmentStep

LEMMA StepTyped == Typed /\ [Next]_vars => Typed'
  <1> SUFFICES ASSUME Typed, [Next]_vars PROVE Typed'
    OBVIOUS
  <1>1. CASE ClientStep
    BY <1>1, ClientTyped
  <1>2. CASE WorkerStep
    <2>1. ASSUME NEW w \in Daemons, NEW f \in Files, ClaimNext(w, f) PROVE Typed'
      BY <2>1, ClaimTyped DEF ClaimNext, Workers
    <2>2. ASSUME NEW c \in Clis, ClaimSpecific(c) PROVE Typed'
      <3>1. c \in Workers /\ wk[c].file \in Files
        BY <2>2 DEF ClaimSpecific, Workers, Typed, WorkerOK
      <3> QED
        BY <2>2, <3>1, ClaimTyped DEF ClaimSpecific
    <2> QED
      BY <1>2, <2>1, <2>2, WorkTyped, SettleTyped DEF WorkerStep
  <1>3. CASE ReconcileStep
    BY <1>3, ReconcileTyped
  <1>4. CASE EnvironmentStep
    BY <1>4, EnvironmentTyped
  <1>5. CASE UNCHANGED vars
    BY <1>5 DEF vars, Typed, TypeOK, WorkerOK
  <1> QED
    BY <1>1, <1>2, <1>3, <1>4, <1>5 DEF Next

LEMMA AlwaysTyped == Spec => []Typed
  BY InitTyped, StepTyped, PTL DEF Spec

\* In every execution every variable keeps its type: job rows, checkpoints,
\* acknowledgements and worker records are what their readers expect.
THEOREM TypeCorrect == Spec => []TypeOK
  <1>1. Typed => TypeOK
    BY DEF Typed
  <1> QED
    BY <1>1, AlwaysTyped, PTL

-----------------------------------------------------------------------------
(* Leases, requested pauses and checkpoints.  The three invariants are about a *)
(* job row j and its checkpoint k, and together they are inductive.            *)

RowOK(j, k) ==
    /\ (j.owner # 0) <=> (j.state = "running")
    /\ j.live => j.state = "running"
    /\ j.control = "pause_requested" => j.state = "running" \/ k.task # 0
    /\ k.task # 0 => /\ j.state # "absent" /\ j.phase = "discovered"
                     /\ j.service \in {NoService, k.service}

RowsOK == \A f \in Files : RowOK(job[f], ckpt[f])

\* A file without a job.
LEMMA ClearedRow == RowOK(NoJob, NoCkpt) /\ NoCkpt.task = 0
  BY DEF RowOK, NoJob, NoCkpt

LEMMA InitRows == Init => RowsOK
  BY ClearedRow DEF Init, RowsOK

\* A step that leaves the rows alone, or replaces those of one file.
LEMMA RowsKept ==
  ASSUME RowsOK, job' = job, ckpt' = ckpt
  PROVE  RowsOK'
  BY DEF RowsOK

LEMMA RowsReplaced ==
  ASSUME Typed, RowsOK, NEW f \in AnyFile,
         job' = job \/ \E r : job' = [job EXCEPT ![f] = r],
         ckpt' = ckpt \/ \E k : ckpt' = [ckpt EXCEPT ![f] = k],
         f \in Files => RowOK(job'[f], ckpt'[f])
  PROVE  RowsOK'
  <1> SUFFICES ASSUME NEW g \in Files PROVE RowOK(job'[g], ckpt'[g])
    BY DEF RowsOK
  <1>1. CASE g = f
    BY <1>1
  <1>2. CASE g # f
    <2>1. job'[g] = job[g] /\ ckpt'[g] = ckpt[g]
      BY <1>2 DEF Typed, TypeOK
    <2> QED
      BY <2>1 DEF RowsOK
  <1> QED
    BY <1>1, <1>2

LEMMA ClientRows == Typed /\ RowsOK /\ ClientStep => RowsOK'
  <1> SUFFICES ASSUME Typed, RowsOK, ClientStep PROVE RowsOK'
    OBVIOUS
  <1>t. \A f \in Files : /\ job[f] \in Job /\ job[f].service \in AnyService
                         /\ RowOK(job[f], ckpt[f]) /\ f \in AnyFile
    BY DEF Typed, TypeOK, Job, RowsOK, AnyFile
  <1>d. Docs \subseteq AnyDoc /\ NoService \in AnyService /\ gens \in Nat
    BY DEF AnyDoc, AnyService, Typed, TypeOK
  <1>e. job \in [Files -> Job] /\ ckpt \in [Files -> Checkpoint]
    BY DEF Typed, TypeOK
  <1>1. ASSUME NEW f \in Files, NEW d \in Docs, Upload(f, d) PROVE RowsOK'
    <2>1. /\ job' = [job EXCEPT ![f] = ResetJob(job[f], d, NoService)]
          /\ ckpt' = [ckpt EXCEPT ![f] = NoCkpt]
      BY <1>1 DEF Upload
    <2>2. job'[f] = ResetJob(job[f], d, NoService) /\ ckpt'[f] = NoCkpt
      BY <1>e, <2>1
    <2>3. RowOK(ResetJob(job[f], d, NoService), NoCkpt)
      BY <1>t, <1>d, ResetJobRow, ClearedRow DEF RowOK
    <2> QED
      BY <1>t, <2>1, <2>2, <2>3, RowsReplaced
  <1>2. ASSUME NEW c \in Clis, NEW f \in Files, NEW d \in Docs,
               NEW force \in BOOLEAN, PrepareRead(c, f, d, force)
        PROVE  RowsOK'
    BY <1>2, RowsKept DEF PrepareRead
  <1>3. ASSUME NEW c \in Clis, PrepareSkip(c) PROVE RowsOK'
    <2> DEFINE f == wk[c].file
    <2>1. f \in Files
      BY <1>3 DEF PrepareSkip, Workers, Typed, WorkerOK
    <2>2. CASE job' = job /\ ckpt' = ckpt
      BY <2>2, RowsKept
    <2>3. CASE job' = [job EXCEPT ![f] = NoJob] /\ ckpt' = [ckpt EXCEPT ![f] = NoCkpt]
      BY <1>t, <1>e, <2>1, <2>3, ClearedRow, RowsReplaced
    <2> QED
      BY <1>3, <2>2, <2>3 DEF PrepareSkip
  <1>4. ASSUME NEW c \in Clis, PrepareResume(c) PROVE RowsOK'
    <2> DEFINE f == wk[c].file
    <2>1. f \in Files /\ ckpt' = ckpt
      BY <1>4 DEF PrepareResume, Workers, Typed, WorkerOK
    <2>2. CASE job' = job
      BY <2>1, <2>2, RowsKept
    <2>3. CASE job[f].state # "absent" /\ job' = [job EXCEPT ![f] = Resumed(job[f])]
      <3>1. RowOK(Resumed(job[f]), ckpt[f])
        BY <1>t, <2>1, ResumedRow DEF RowOK
      <3>2. RowOK(job'[f], ckpt'[f])
        BY <1>e, <2>1, <2>3, <3>1
      <3> QED
        BY <1>t, <2>1, <2>3, <3>2, RowsReplaced
    <2> QED
      BY <1>4, <2>2, <2>3 DEF PrepareResume
  <1>5. ASSUME NEW c \in Clis, PrepareReset(c) PROVE RowsOK'
    <2> DEFINE f == wk[c].file
               r == ResetJob(job[f], wk[c].doc, job[f].service)
    <2>1. f \in Files /\ ckpt' = ckpt /\ wk[c].doc \in AnyDoc
      BY <1>5 DEF PrepareReset, Workers, Typed, TypeOK, Worker, WorkerOK
    <2>2. CASE job' = job
      BY <2>1, <2>2, RowsKept
    <2>3. CASE job' = [job EXCEPT ![f] = r]
      <3>1. RowOK(r, ckpt[f])
        BY <1>t, <1>d, <2>1, ResetJobRow DEF RowOK
      <3>2. RowOK(job'[f], ckpt'[f])
        BY <1>e, <2>1, <2>3, <3>1
      <3> QED
        BY <1>t, <2>1, <2>3, <3>2, RowsReplaced
    <2> QED
      BY <1>5, <2>2, <2>3 DEF PrepareReset
  <1>6. ASSUME NEW f \in Files, NEW c \in ControlStates, ControlOnly,
               job' = [job EXCEPT ![f] = Controlled(job[f], c)],
               c = "pause_requested" => job[f].state = "running"
        PROVE  RowsOK'
    <2>1. RowOK(Controlled(job[f], c), ckpt[f])
      BY <1>t, <1>6, ControlledRow DEF RowOK
    <2>2. RowOK(job'[f], ckpt'[f])
      BY <1>e, <1>6, <2>1 DEF ControlOnly
    <2> QED
      BY <1>t, <1>6, <2>2, RowsReplaced DEF ControlOnly
  <1>7. ASSUME NEW f \in Files, RetryFailed(f) PROVE RowsOK'
    <2>1. RowOK(Retried(job[f]), ckpt[f])
      BY <1>t, <1>7, RetriedRow DEF RetryFailed, RowOK
    <2>2. RowOK(job'[f], ckpt'[f])
      BY <1>e, <1>7, <2>1 DEF RetryFailed, ControlOnly
    <2> QED
      BY <1>t, <1>7, <2>2, RowsReplaced DEF RetryFailed, ControlOnly
  <1>8. ASSUME NEW f \in Files, DeleteDocument(f) PROVE RowsOK'
    BY <1>8, <1>t, <1>e, ClearedRow, RowsReplaced DEF DeleteDocument
  <1>9. ASSUME NEW f \in Files, RequestPause(f) \/ RequestCancel(f) \/ ResumePaused(f)
        PROVE  RowsOK'
    BY <1>6, <1>9 DEF RequestPause, RequestCancel, ResumePaused, ControlStates
  <1> QED
    BY <1>1, <1>2, <1>3, <1>4, <1>5, <1>7, <1>8, <1>9 DEF ClientStep

LEMMA WorkerRows == Typed /\ RowsOK /\ WorkerStep => RowsOK'
  <1> SUFFICES ASSUME Typed, RowsOK, WorkerStep PROVE RowsOK'
    OBVIOUS
  <1>t. \A f \in Files : /\ job[f] \in Job /\ ckpt[f] \in Checkpoint
                         /\ RowOK(job[f], ckpt[f]) /\ f \in AnyFile
    BY DEF Typed, TypeOK, RowsOK, AnyFile
  <1>e. /\ job \in [Files -> Job] /\ ckpt \in [Files -> Checkpoint]
        /\ claims + 1 \in Nat /\ claims + 1 # 0
    BY DEF Typed, TypeOK
  <1>w. ASSUME NEW w \in Workers, wk[w].pc # "idle" PROVE wk[w].file \in Files
    BY <1>w DEF Typed, WorkerOK
  <1>1. ASSUME NEW w \in Workers, NEW f \in Files, Claim(w, f),
               job[f].state # "absent"
        PROVE  RowsOK'
    <2>1. RowOK(Leased(job[f], claims + 1), ckpt[f])
      BY <1>1, <1>t, <1>e, LeasedRow DEF RowOK
    <2>2. RowOK(job'[f], ckpt'[f])
      BY <1>1, <1>e, <2>1 DEF Claim
    <2> QED
      BY <1>1, <1>t, <2>2, RowsReplaced DEF Claim
  <1>2. ASSUME NEW w \in Daemons, NEW f \in Files, ClaimNext(w, f) PROVE RowsOK'
    BY <1>1, <1>2 DEF ClaimNext, Due, Workers
  <1>3. ASSUME NEW c \in Clis, ClaimSpecific(c) PROVE RowsOK'
    BY <1>1, <1>3, <1>w DEF ClaimSpecific, Workers
  <1>4. ASSUME NEW w \in Workers, NEW s \in Services, EnsureAssignment(w, s)
        PROVE  RowsOK'
    <2> DEFINE f == wk[w].file
    <2>1. /\ f \in Files /\ s \in AnyService /\ ckpt' = ckpt
          /\ job' = [job EXCEPT ![f] = Assigned(job[f], s)]
          /\ ckpt[f].task # 0 => s = ckpt[f].service
      BY <1>4, <1>w, <1>t DEF EnsureAssignment, AnyService, HasCkpt, RowOK
    <2>2. RowOK(Assigned(job[f], s), ckpt[f])
      BY <1>t, <2>1, AssignedRow DEF RowOK
    <2>3. RowOK(job'[f], ckpt'[f])
      BY <1>e, <2>1, <2>2
    <2> QED
      BY <1>t, <2>1, <2>3, RowsReplaced
  <1>5. ASSUME NEW w \in Workers,
               \/ OpenTask(w) \/ ResumeTask(w) \/ SubmitTask(w) \/ FetchResult(w)
               \/ TaskEnded(w) \/ TerminateTask(w) \/ ReadAdvanced(w) \/ Fault(w)
               \/ Catch(w) \/ Heartbeat(w) \/ Crash(w)
        PROVE  RowsOK'
    BY <1>5, RowsKept
       DEF OpenTask, ResumeTask, SubmitTask, FetchResult, TaskEnded, TerminateTask,
           ReadAdvanced, Fault, Catch, Heartbeat, Crash
  <1>6. ASSUME NEW w \in Workers, RecordTask(w) PROVE RowsOK'
    <2> DEFINE f == wk[w].file
               k == [task |-> wk[w].task, service |-> wk[w].service]
    <2>1. f \in Files /\ job' = job
      BY <1>6, <1>w DEF RecordTask
    <2>2. CASE ckpt' = ckpt
      BY <2>1, <2>2, RowsKept
    <2>3. CASE /\ Owned(w) /\ job[f].phase = "discovered"
               /\ job[f].service = wk[w].service
               /\ ckpt' = [ckpt EXCEPT ![f] = k]
      <3>1. RowOK(job[f], k)
        BY <1>t, <2>1, <2>3 DEF Owned, RowOK
      <3>2. RowOK(job'[f], ckpt'[f])
        BY <1>e, <2>1, <2>3, <3>1
      <3> QED
        BY <1>t, <2>1, <2>3, <3>2, RowsReplaced
    <2> QED
      BY <1>6, <2>2, <2>3 DEF RecordTask
  <1>7. ASSUME NEW w \in Workers, ClearTask(w) PROVE RowsOK'
    <2> DEFINE f == wk[w].file
    <2>1. f \in Files /\ job' = job
      BY <1>7, <1>w DEF ClearTask
    <2>2. CASE ckpt' = ckpt
      BY <2>1, <2>2, RowsKept
    <2>3. CASE Owned(w) /\ ckpt' = [ckpt EXCEPT ![f] = NoCkpt]
      <3>1. RowOK(job[f], NoCkpt)
        BY <1>t, <2>1, <2>3, ClearedRow DEF Owned, RowOK
      <3>2. RowOK(job'[f], ckpt'[f])
        BY <1>e, <2>1, <2>3, <3>1
      <3> QED
        BY <1>t, <2>1, <2>3, <3>2, RowsReplaced
    <2> QED
      BY <1>7, <2>2, <2>3 DEF ClearTask
  <1>8. ASSUME NEW w \in Workers, CompleteNormalization(w) PROVE RowsOK'
    <2> DEFINE f == wk[w].file
               r == Normalized(job[f], wk[w].elems)
    <2>1. f \in Files /\ wk[w].elems \in AnyDoc
      BY <1>8, <1>w DEF CompleteNormalization, Typed, TypeOK, Worker
    <2>2. CASE job' = job /\ ckpt' = ckpt
      BY <2>2, RowsKept
    <2>3. CASE /\ Owned(w) /\ job' = [job EXCEPT ![f] = r]
               /\ ckpt' = [ckpt EXCEPT ![f] = NoCkpt]
      <3>1. RowOK(r, NoCkpt)
        BY <1>t, <2>1, <2>3, NormalizedRow, ClearedRow DEF Owned, RowOK
      <3>2. RowOK(job'[f], ckpt'[f])
        BY <1>e, <2>1, <2>3, <3>1
      <3> QED
        BY <1>t, <2>1, <2>3, <3>2, RowsReplaced
    <2> QED
      BY <1>8, <2>2, <2>3 DEF CompleteNormalization
  <1>9. ASSUME NEW w \in Workers, CompleteIndexing(w) PROVE RowsOK'
    <2> DEFINE f == wk[w].file
    <2>1. f \in Files /\ ckpt' = ckpt
      BY <1>9, <1>w DEF CompleteIndexing
    <2>2. CASE job' = job
      BY <2>1, <2>2, RowsKept
    <2>3. CASE job[f].phase = "normalized" /\ job' = [job EXCEPT ![f] = FullyIndexed(job[f])]
      <3>1. RowOK(FullyIndexed(job[f]), ckpt[f])
        BY <1>t, <2>1, <2>3, FullyIndexedRow DEF RowOK
      <3>2. RowOK(job'[f], ckpt'[f])
        BY <1>e, <2>1, <2>3, <3>1
      <3> QED
        BY <1>t, <2>1, <2>3, <3>2, RowsReplaced
    <2> QED
      BY <1>9, <2>2, <2>3 DEF CompleteIndexing
  <1>10. ASSUME NEW w \in Workers, Promote(w) PROVE RowsOK'
    <2> DEFINE f == wk[w].file
    <2>1. f \in Files
      BY <1>10, <1>w DEF Promote
    <2>2. CASE job' = job /\ ckpt' = ckpt
      BY <2>2, RowsKept
    <2>3. CASE job' = [job EXCEPT ![f] = NoJob] /\ ckpt' = [ckpt EXCEPT ![f] = NoCkpt]
      BY <1>t, <1>e, <2>1, <2>3, ClearedRow, RowsReplaced
    <2> QED
      BY <1>10, <2>2, <2>3 DEF Promote
  <1>11. ASSUME NEW w \in Workers, NEW due \in BOOLEAN, NEW keep \in BOOLEAN,
                Release(w, due, keep)
         PROVE  RowsOK'
    <2> DEFINE f == wk[w].file
               c == SettledControl(f)
               s == ReleasedService(f, keep)
    <2>1. f \in Files /\ ckpt' = ckpt /\ c \in ControlStates /\ s \in AnyService
      BY <1>11, <1>w, ReleasedColumns DEF Release
    <2>2. CASE job' = job
      BY <2>1, <2>2, RowsKept
    <2>3. CASE Owned(w) /\ job' = [job EXCEPT ![f] = Released(job[f], due, c, s)]
      <3>1. /\ c = "pause_requested" => ckpt[f].task # 0
            /\ ckpt[f].task # 0 => s = job[f].service
        BY DEF SettledControl, ReleasedService, HasCkpt
      <3> HIDE DEF c, s
      <3>2. RowOK(Released(job[f], due, c, s), ckpt[f])
        BY <1>t, <2>1, <2>3, <3>1, ReleasedRow DEF Owned, RowOK
      <3>3. RowOK(job'[f], ckpt'[f])
        BY <1>e, <2>1, <2>3, <3>2
      <3> QED
        BY <1>t, <2>1, <2>3, <3>3, RowsReplaced
    <2> QED
      BY <1>11, <2>2, <2>3 DEF Release
  <1>12. ASSUME NEW w \in Workers, NEW keep \in BOOLEAN, MarkFailed(w, keep)
         PROVE  RowsOK'
    <2> DEFINE f == wk[w].file
               c == SettledControl(f)
               s == ReleasedService(f, keep)
    <2>1. f \in Files /\ ckpt' = ckpt /\ c \in ControlStates /\ s \in AnyService
      BY <1>12, <1>w, ReleasedColumns DEF MarkFailed
    <2>2. CASE job' = job
      BY <2>1, <2>2, RowsKept
    <2>3. CASE Owned(w) /\ job' = [job EXCEPT ![f] = Failed(job[f], c, s)]
      <3>1. /\ c = "pause_requested" => ckpt[f].task # 0
            /\ ckpt[f].task # 0 => s = job[f].service
        BY DEF SettledControl, ReleasedService, HasCkpt
      <3> HIDE DEF c, s
      <3>2. RowOK(Failed(job[f], c, s), ckpt[f])
        BY <1>t, <2>1, <2>3, <3>1, FailedRow DEF Owned, RowOK
      <3>3. RowOK(job'[f], ckpt'[f])
        BY <1>e, <2>1, <2>3, <3>2
      <3> QED
        BY <1>t, <2>1, <2>3, <3>3, RowsReplaced
    <2> QED
      BY <1>12, <2>2, <2>3 DEF MarkFailed
  <1>13. ASSUME NEW w \in Workers, SettleOwned(w) PROVE RowsOK'
    <2> DEFINE f == wk[w].file
    <2>1. f \in Files /\ ckpt' = ckpt
      BY <1>13, <1>w DEF SettleOwned
    <2>2. CASE job' = job
      BY <2>1, <2>2, RowsKept
    <2>3. CASE Owned(w) /\ job' = [job EXCEPT ![f] = ControlSettled(job[f])]
      <3>1. RowOK(ControlSettled(job[f]), ckpt[f])
        BY <1>t, <2>1, <2>3, ControlSettledRow DEF Owned, RowOK
      <3>2. RowOK(job'[f], ckpt'[f])
        BY <1>e, <2>1, <2>3, <3>1
      <3> QED
        BY <1>t, <2>1, <2>3, <3>2, RowsReplaced
    <2> QED
      BY <1>13, <2>2, <2>3 DEF SettleOwned
  <1> QED
    BY <1>2, <1>3, <1>4, <1>5, <1>6, <1>7, <1>8, <1>9, <1>10, <1>11, <1>12, <1>13
       DEF WorkerStep, WorkStep, SettleStep

LEMMA ReconcileRows == Typed /\ RowsOK /\ ReconcileStep => RowsOK'
  <1> SUFFICES ASSUME Typed, RowsOK, ReconcileStep PROVE RowsOK'
    OBVIOUS
  <1>t. \A f \in Files : /\ job[f] \in Job /\ ckpt[f] \in Checkpoint
                         /\ RowOK(job[f], ckpt[f]) /\ f \in AnyFile
    BY DEF Typed, TypeOK, RowsOK, AnyFile
  <1>e. job \in [Files -> Job] /\ ckpt \in [Files -> Checkpoint]
    BY DEF Typed, TypeOK
  <1>s. ASSUME NEW f \in Files, job[f].state # "absent",
               job' = [job EXCEPT ![f] = ControlSettled(job[f])], ckpt' = ckpt
        PROVE  RowsOK'
    <2>1. RowOK(ControlSettled(job[f]), ckpt[f])
      BY <1>t, <1>s, ControlSettledRow DEF RowOK
    <2>2. RowOK(job'[f], ckpt'[f])
      BY <1>e, <1>s, <2>1
    <2> QED
      BY <1>t, <1>s, <2>2, RowsReplaced
  <1>1. ASSUME NEW f \in Files, SettleExpired(f) PROVE RowsOK'
    BY <1>1, <1>s DEF SettleExpired, ControlOnly
  <1>2. ASSUME NEW f \in Files, ExecuteControl(f) PROVE RowsOK'
    BY <1>2, RowsKept DEF ExecuteControl
  <1>3. ASSUME NEW f \in Files, FinalizeCancellation(f) PROVE RowsOK'
    <2>1. RowOK(NoJob, ckpt[f])
      BY <1>3, ClearedRow DEF FinalizeCancellation, HasCkpt, RowOK
    <2>2. RowOK(job'[f], ckpt'[f])
      BY <1>3, <1>e, <2>1 DEF FinalizeCancellation, ControlOnly
    <2> QED
      BY <1>3, <1>t, <2>2, RowsReplaced DEF FinalizeCancellation, ControlOnly
  <1>4. ASSUME NEW a \in acks, AckControl(a) PROVE RowsOK'
    <2> DEFINE f == a.file
    <2>1. f \in Files
      BY DEF Typed, TypeOK, Ack
    <2>2. CASE job' = job /\ ckpt' = ckpt
      BY <2>2, RowsKept
    <2>3. CASE /\ job[f].control \in Requested /\ ckpt' = ckpt
               /\ ckpt[f] = [task |-> a.task, service |-> a.service]
               /\ job' = [job EXCEPT ![f] = ControlSettled(job[f])]
      <3>1. ckpt[f].task # 0
        BY <2>3 DEF Typed, TypeOK, Ack, TaskIds
      <3>2. job[f].state # "absent"
        BY <1>t, <2>1, <3>1 DEF RowOK
      <3> QED
        BY <1>s, <2>1, <2>3, <3>2
    <2>4. CASE /\ ckpt' = [ckpt EXCEPT ![f] = NoCkpt]
               /\ job' = IF Available(f)
                         THEN [job EXCEPT ![f] = ControlSettled(job[f])] ELSE job
      <3>1. RowOK(job'[f], NoCkpt)
        <4>1. CASE Available(f)
          <5>1. job'[f] = ControlSettled(job[f])
            BY <1>e, <2>1, <2>4, <4>1
          <5> QED
            BY <1>t, <2>1, <5>1, ControlSettledRow, ClearedRow DEF RowOK
        <4>2. CASE ~Available(f)
          <5>1. job'[f] = job[f] /\ job[f].state = "running"
            BY <2>4, <4>2 DEF Available
          <5> QED
            BY <1>t, <2>1, <5>1, ClearedRow DEF RowOK
        <4> QED
          BY <4>1, <4>2
      <3>2. RowOK(job'[f], ckpt'[f])
        BY <1>e, <2>1, <2>4, <3>1
      <3> QED
        BY <1>t, <2>1, <2>4, <3>2, RowsReplaced
    <2> QED
      BY <1>4, <2>2, <2>3, <2>4 DEF AckControl, Requested
  <1>5. ASSUME NEW a \in acks, LoseAck(a) PROVE RowsOK'
    BY <1>5, RowsKept DEF LoseAck
  <1> QED
    BY <1>1, <1>2, <1>3, <1>4, <1>5 DEF ReconcileStep

LEMMA EnvironmentRows == Typed /\ RowsOK /\ EnvironmentStep => RowsOK'
  <1> SUFFICES ASSUME Typed, RowsOK, EnvironmentStep PROVE RowsOK'
    OBVIOUS
  <1>t. \A f \in Files : job[f] \in Job /\ RowOK(job[f], ckpt[f]) /\ f \in AnyFile
    BY DEF Typed, TypeOK, RowsOK, AnyFile
  <1>e. job \in [Files -> Job]
    BY DEF Typed, TypeOK
  <1>1. ASSUME NEW f \in Files, ExpireLease(f) \/ BecomeDue(f) PROVE RowsOK'
    <2>1. PICK r \in {Expired(job[f]), DueNow(job[f])} :
             job' = [job EXCEPT ![f] = r] /\ ckpt' = ckpt
      BY <1>1 DEF ExpireLease, BecomeDue, ControlOnly
    <2>2. RowOK(r, ckpt[f])
      BY <1>t, ExpiredRow, DueNowRow DEF RowOK
    <2>3. RowOK(job'[f], ckpt'[f])
      BY <1>e, <2>1, <2>2
    <2> QED
      BY <1>t, <2>1, <2>3, RowsReplaced
  <1>2. ASSUME NEW t \in TaskIds, RemoteForgets(t)
                 \/ \E status \in {"done", "failed"} : RemoteEnds(t, status)
        PROVE  RowsOK'
    BY <1>2, RowsKept DEF RemoteForgets, RemoteEnds
  <1> QED
    BY <1>1, <1>2 DEF EnvironmentStep

LEMMA AlwaysRows == Spec => []RowsOK
  <1>1. Typed /\ RowsOK /\ [Next]_vars => RowsOK'
    BY ClientRows, WorkerRows, ReconcileRows, EnvironmentRows, RowsKept
       DEF Next, vars
  <1> QED
    BY <1>1, InitRows, AlwaysTyped, PTL DEF Spec

\* Exactly the running jobs have an owner, and only they have a live lease, so no
\* row makes decodeIngestionJob throw.
THEOREM LeasesMatch == Spec => []LeaseMatchesState
  <1>1. RowsOK => LeaseMatchesState
    BY DEF RowsOK, RowOK, LeaseMatchesState
  <1> QED
    BY <1>1, AlwaysRows, PTL

\* A requested pause always has somebody who can settle it.
THEOREM PausesHaveExecutors == Spec => []PauseHasExecutor
  <1>1. RowsOK => PauseHasExecutor
    BY DEF RowsOK, RowOK, PauseHasExecutor, HasCkpt
  <1> QED
    BY <1>1, AlwaysRows, PTL

\* A checkpoint belongs to an unfinished conversion, and the job's service is the
\* one that knows its task.
THEOREM CheckpointsPinServices == Spec => []CheckpointPinsService
  <1>1. RowsOK => CheckpointPinsService
    BY DEF RowsOK, RowOK, CheckpointPinsService, HasCkpt
  <1> QED
    BY <1>1, AlwaysRows, PTL

-----------------------------------------------------------------------------
(* Fencing.  A step changes the record of at most one worker; if that worker has *)
(* claimed a job and lost its lease, the step writes nothing.                    *)

Fenced(w) == \/ wk'[w] = wk[w] \/ wk[w].owner = 0 \/ Owned(w)
             \/ UNCHANGED <<job, ckpt, indexed>>

LEMMA OnlyOneMoves ==
  ASSUME Typed, NEW v, NEW q, wk' = [wk EXCEPT ![v] = q], NEW w \in Workers, w # v
  PROVE  Fenced(w)
  BY DEF Fenced, Typed, TypeOK

LEMMA FencedStep ==
  ASSUME Typed, [Next]_vars, NEW w \in Workers
  PROVE  Fenced(w)
  <1>1. CASE wk' = wk
    BY <1>1 DEF Fenced
  <1>2. ASSUME NEW v \in Workers, NEW q, wk' = [wk EXCEPT ![v] = q],
               \/ wk[v].pc \in Unclaimed \/ Owned(v)
               \/ UNCHANGED <<job, ckpt, indexed>>
        PROVE  Fenced(w)
    BY <1>2, OnlyOneMoves DEF Fenced, Typed, WorkerOK
  <1>3. CASE ClientStep
    <2>1. ASSUME NEW c \in Clis, \/ PrepareSkip(c) \/ PrepareResume(c) \/ PrepareReset(c)
          PROVE  Fenced(w)
      <3>1. c \in Workers /\ wk[c].pc \in Unclaimed
        BY <2>1 DEF PrepareSkip, PrepareResume, PrepareReset, Workers, Unclaimed
      <3>2. \E q : wk' = [wk EXCEPT ![c] = q]
        BY <2>1 DEF PrepareSkip, PrepareResume, PrepareReset, GoIdle, Leave
      <3> QED
        BY <1>2, <3>1, <3>2
    <2>2. ASSUME NEW c \in Clis, NEW f \in Files, NEW d \in Docs,
                 NEW force \in BOOLEAN, PrepareRead(c, f, d, force)
          PROVE  Fenced(w)
      BY <1>2, <2>2 DEF PrepareRead, Workers, Unclaimed
    <2>3. ASSUME NEW f \in Files, NEW d \in Docs, Upload(f, d) PROVE wk' = wk
      BY <2>3 DEF Upload
    <2>4. ASSUME NEW f \in Files,
                 \/ RequestPause(f) \/ RequestCancel(f) \/ ResumePaused(f)
                 \/ RetryFailed(f) \/ DeleteDocument(f)
          PROVE  wk' = wk
      BY <2>4 DEF RequestPause, RequestCancel, ResumePaused, RetryFailed,
                  DeleteDocument, ControlOnly
    <2> QED
      BY <1>1, <1>3, <2>1, <2>2, <2>3, <2>4 DEF ClientStep
  <1>4. CASE WorkerStep
    <2>1. ASSUME NEW v \in Daemons, NEW f \in Files, ClaimNext(v, f) PROVE Fenced(w)
      BY <1>2, <2>1 DEF ClaimNext, Claim, Workers, Unclaimed
    <2>2. ASSUME NEW c \in Clis, ClaimSpecific(c) PROVE Fenced(w)
      BY <1>2, <2>2 DEF ClaimSpecific, Claim, Workers, Unclaimed
    <2>3. ASSUME NEW v \in Workers, WorkStep(v) PROVE Fenced(w)
      <3>1. ASSUME NEW s \in Services, EnsureAssignment(v, s) PROVE Fenced(w)
        BY <1>2, <3>1 DEF EnsureAssignment
      <3>2. CASE \/ OpenTask(v) \/ ResumeTask(v) \/ SubmitTask(v) \/ FetchResult(v)
                 \/ TaskEnded(v) \/ TerminateTask(v) \/ ReadAdvanced(v)
        <4>1. UNCHANGED <<job, ckpt, indexed>>
          BY <3>2 DEF OpenTask, ResumeTask, SubmitTask, FetchResult, TaskEnded,
                      TerminateTask, ReadAdvanced
        <4> QED
          BY <4>1 DEF Fenced
      <3>3. CASE RecordTask(v) \/ ClearTask(v)
        <4>1. \E q : wk' = [wk EXCEPT ![v] = q]
          BY <3>3 DEF RecordTask, ClearTask, GoTo, Leave
        <4>2. Owned(v) \/ UNCHANGED <<job, ckpt, indexed>>
          BY <3>3 DEF RecordTask, ClearTask
        <4> QED
          BY <1>2, <4>1, <4>2
      <3>4. CASE CompleteNormalization(v) \/ CompleteIndexing(v) \/ Promote(v)
        <4>1. \E q : wk' = [wk EXCEPT ![v] = q]
          BY <3>4 DEF CompleteNormalization, CompleteIndexing, Promote, GoIdle, Leave
        <4>2. Owned(v) \/ UNCHANGED <<job, ckpt, indexed>>
          BY <3>4 DEF CompleteNormalization, CompleteIndexing, Promote
        <4> QED
          BY <1>2, <4>1, <4>2
      <3> QED
        BY <2>3, <3>1, <3>2, <3>3, <3>4 DEF WorkStep
    <2>4. ASSUME NEW v \in Workers, SettleStep(v) PROVE Fenced(w)
      <3>1. \E q : wk' = [wk EXCEPT ![v] = q]
        BY <2>4 DEF SettleStep, Fault, Catch, SettleOwned, Release, MarkFailed, Leave,
                    GoIdle, HandTo
      <3>2. Owned(v) \/ UNCHANGED <<job, ckpt, indexed>>
        BY <2>4 DEF SettleStep, Fault, Catch, SettleOwned, Release, MarkFailed
      <3> QED
        BY <1>2, <3>1, <3>2
    <2>5. ASSUME NEW v \in Workers, Heartbeat(v) \/ Crash(v) PROVE Fenced(w)
      BY <2>5 DEF Heartbeat, Crash, Fenced
    <2> QED
      BY <1>4, <2>1, <2>2, <2>3, <2>4, <2>5 DEF WorkerStep
  <1>5. CASE ReconcileStep \/ EnvironmentStep
    <2>1. wk' = wk
      BY <1>5 DEF ReconcileStep, EnvironmentStep, SettleExpired, ExecuteControl,
           FinalizeCancellation, AckControl, LoseAck, ExpireLease, BecomeDue,
           RemoteEnds, RemoteForgets, ControlOnly
    <2> QED
      BY <1>1, <2>1
  <1> QED
    BY <1>1, <1>3, <1>4, <1>5 DEF Next, vars

\* However late a worker acts, it changes neither job, nor checkpoint, nor the
\* published document unless it owns an unexpired lease: the fencing of every
\* write by buildOwnedRunningJobCondition is complete.
THEOREM WritesAreFenced == Spec => StaleWorkersWriteNothing
  <1>1. ASSUME Typed, [Next]_vars
        PROVE  [\A w \in Workers : /\ wk'[w] # wk[w]
                                   /\ wk[w].owner # 0
                                   /\ ~Owned(w)
                                   => UNCHANGED <<job, ckpt, indexed>>]_vars
    BY <1>1, FencedStep DEF Fenced
  <1> QED
    BY <1>1, AlwaysTyped, PTL DEF Spec, StaleWorkersWriteNothing

-----------------------------------------------------------------------------
(* Orders and publications.  Seen from the library, a step keeps every file, or *)
(* places, fills, withdraws or removes the order of one.                        *)

Kept(f) ==
    /\ indexed'[f] = indexed[f]
    /\ \/ job'[f] = job[f]
       \/ /\ job[f].state # "absent" /\ job'[f].state # "absent"
          /\ job'[f].doc = job[f].doc /\ job'[f].gen = job[f].gen
Placed(f) ==
    /\ gens' = gens + 1 /\ indexed'[f] = indexed[f]
    /\ job'[f].state # "absent" /\ job'[f].doc \in Docs /\ job'[f].gen = gens + 1
Filled(f) ==
    /\ job[f].state # "absent" /\ job[f].control = "active" /\ job'[f] = NoJob
    /\ indexed'[f] = [version |-> indexed[f].version + 1, doc |-> job[f].doc,
                      elems |-> job[f].elems, gen |-> job[f].gen]
Withdrawn(f) == job'[f] = NoJob /\ indexed'[f] = indexed[f]
Removed(f) ==
    /\ job[f].state \in {"absent", "failed"}
    /\ job'[f] = NoJob /\ indexed'[f] = NotIndexed
Moved(f) ==
    \/ Placed(f)
    \/ gens' = gens /\ (Filled(f) \/ Withdrawn(f) \/ Removed(f))
LibraryStep ==
    \/ gens' = gens /\ \A f \in Files : Kept(f)
    \/ \E f \in Files : Moved(f) /\ \A g \in Files \ {f} : Kept(g)

\* Steps that touch neither jobs nor documents.
LEMMA NothingMoves ==
  ASSUME UNCHANGED <<job, indexed, gens>>
  PROVE  LibraryStep
  BY DEF LibraryStep, Kept

\* Steps that update the row of one job and keep what was ordered.
LEMMA RowMoves ==
  ASSUME Typed, NEW f \in Files, NEW r, job' = [job EXCEPT ![f] = r],
         UNCHANGED <<indexed, gens>>,
         job[f].state # "absent", r.state # "absent",
         r.doc = job[f].doc, r.gen = job[f].gen
  PROVE  LibraryStep
  <1>1. SUFFICES ASSUME NEW g \in Files PROVE Kept(g)
    BY DEF LibraryStep
  <1>2. job'[g] = IF g = f THEN r ELSE job[g]
    BY DEF Typed, TypeOK
  <1>3. QED
    BY <1>2 DEF Kept

\* Steps that move one file on.
LEMMA FileMoves ==
  ASSUME Typed, NEW f \in Files, NEW r, job' = [job EXCEPT ![f] = r],
         indexed' = indexed \/ \E i : indexed' = [indexed EXCEPT ![f] = i],
         job'[f] = r => Moved(f)
  PROVE  LibraryStep
  <1>1. job'[f] = r /\ \A g \in Files \ {f} : job'[g] = job[g] /\ indexed'[g] = indexed[g]
    BY DEF Typed, TypeOK
  <1>2. QED
    BY <1>1 DEF LibraryStep, Kept

LEMMA ClientMoves == Typed /\ RowsOK /\ ClientStep => LibraryStep
  <1> SUFFICES ASSUME Typed, RowsOK, ClientStep PROVE LibraryStep
    OBVIOUS
  <1>t. \A f \in Files : job[f] \in Job /\ job[f].service \in AnyService
    BY DEF Typed, TypeOK, Job
  <1>d. Docs \subseteq AnyDoc /\ NoService \in AnyService /\ gens \in Nat
    BY DEF AnyDoc, AnyService, Typed, TypeOK
  <1>1. ASSUME NEW f \in Files, NEW d \in Docs, Upload(f, d) PROVE LibraryStep
    <2> DEFINE r == ResetJob(job[f], d, NoService)
    <2>1. r.state = "pending" /\ r.doc = d /\ r.gen = gens + 1
      BY <1>t, <1>d, ResetJobRow
    <2>2. job' = [job EXCEPT ![f] = r] /\ indexed' = indexed /\ gens' = gens + 1
      BY <1>1 DEF Upload
    <2> HIDE DEF r
    <2>3. QED
      BY <2>1, <2>2, FileMoves DEF Moved, Placed
  <1>2. ASSUME NEW c \in Clis, NEW f \in Files, NEW d \in Docs,
               NEW force \in BOOLEAN, PrepareRead(c, f, d, force)
        PROVE  LibraryStep
    BY <1>2, NothingMoves DEF PrepareRead
  <1>3. ASSUME NEW c \in Clis, PrepareSkip(c) PROVE LibraryStep
    <2> DEFINE f == wk[c].file
    <2>1. f \in Files /\ indexed' = indexed /\ gens' = gens
      BY <1>3 DEF PrepareSkip, Workers, Typed, WorkerOK
    <2>2. CASE job' = job
      BY <2>1, <2>2, NothingMoves
    <2>3. CASE job' = [job EXCEPT ![f] = NoJob]
      BY <2>1, <2>3, FileMoves DEF Moved, Withdrawn
    <2> QED
      BY <1>3, <2>2, <2>3 DEF PrepareSkip
  <1>4. ASSUME NEW c \in Clis, PrepareResume(c) PROVE LibraryStep
    <2> DEFINE f == wk[c].file
    <2>1. f \in Files /\ indexed' = indexed /\ gens' = gens
      BY <1>4 DEF PrepareResume, Workers, Typed, WorkerOK
    <2>2. CASE job' = job
      BY <2>1, <2>2, NothingMoves
    <2>3. CASE job[f].state # "absent" /\ job' = [job EXCEPT ![f] = Resumed(job[f])]
      BY <1>t, <2>1, <2>3, ResumedRow, RowMoves
    <2> QED
      BY <1>4, <2>2, <2>3 DEF PrepareResume
  <1>5. ASSUME NEW c \in Clis, PrepareReset(c) PROVE LibraryStep
    <2> DEFINE f == wk[c].file
               r == ResetJob(job[f], wk[c].doc, job[f].service)
    <2>1. f \in Files /\ wk[c].doc \in Docs /\ indexed' = indexed
      BY <1>5 DEF PrepareReset, Workers, Typed, WorkerOK
    <2>2. CASE job' = job /\ gens' = gens
      BY <2>1, <2>2, NothingMoves
    <2>3. CASE job' = [job EXCEPT ![f] = r] /\ gens' = gens + 1
      <3>1. r.state = "pending" /\ r.doc = wk[c].doc /\ r.gen = gens + 1
        BY <1>t, <1>d, <2>1, ResetJobRow
      <3> HIDE DEF r
      <3>2. QED
        BY <2>1, <2>3, <3>1, FileMoves DEF Moved, Placed
    <2> QED
      BY <1>5, <2>2, <2>3 DEF PrepareReset
  <1>6. ASSUME NEW f \in Files, RequestPause(f) \/ RequestCancel(f) \/ ResumePaused(f)
        PROVE  LibraryStep
    <2>1. PICK c \in ControlStates : job' = [job EXCEPT ![f] = Controlled(job[f], c)]
      BY <1>6 DEF RequestPause, RequestCancel, ResumePaused, ControlStates
    <2>2. job[f].state # "absent" /\ UNCHANGED <<indexed, gens>>
      BY <1>6 DEF RequestPause, RequestCancel, ResumePaused, ControlOnly
    <2> DEFINE r == Controlled(job[f], c)
    <2>3. r.state = job[f].state /\ r.doc = job[f].doc /\ r.gen = job[f].gen
      BY <1>t, ControlledRow
    <2> HIDE DEF r
    <2>4. job' = [job EXCEPT ![f] = r]
      BY <2>1 DEF r
    <2>5. QED
      BY <2>2, <2>3, <2>4, RowMoves
  <1>7. ASSUME NEW f \in Files, RetryFailed(f) PROVE LibraryStep
    BY <1>7, <1>t, RetriedRow, RowMoves DEF RetryFailed, ControlOnly
  <1>8. ASSUME NEW f \in Files, DeleteDocument(f) PROVE LibraryStep
    <2>1. /\ job' = [job EXCEPT ![f] = NoJob] /\ gens' = gens
          /\ indexed' = [indexed EXCEPT ![f] = NotIndexed]
          /\ job[f].state \in {"absent", "failed"}
      BY <1>8 DEF DeleteDocument
    <2>2. indexed'[f] = NotIndexed
      BY <2>1 DEF Typed, TypeOK
    <2>3. QED
      BY <2>1, <2>2, FileMoves DEF Moved, Removed
  <1> QED
    BY <1>1, <1>2, <1>3, <1>4, <1>5, <1>6, <1>7, <1>8 DEF ClientStep

LEMMA WorkerMoves == Typed /\ RowsOK /\ WorkerStep => LibraryStep
  <1> SUFFICES ASSUME Typed, RowsOK, WorkerStep PROVE LibraryStep
    OBVIOUS
  <1>t. /\ \A f \in Files : job[f] \in Job
        /\ claims + 1 \in Nat
    BY DEF Typed, TypeOK
  <1>w. ASSUME NEW w \in Workers, wk[w].pc # "idle" PROVE wk[w].file \in Files
    BY <1>w DEF Typed, WorkerOK
  <1>1. ASSUME NEW w \in Workers, NEW f \in Files, Claim(w, f), job[f].state # "absent"
        PROVE  LibraryStep
    BY <1>1, <1>t, LeasedRow, RowMoves DEF Claim
  <1>2. ASSUME NEW w \in Daemons, NEW f \in Files, ClaimNext(w, f) PROVE LibraryStep
    BY <1>1, <1>2 DEF ClaimNext, Due, Workers
  <1>3. ASSUME NEW c \in Clis, ClaimSpecific(c) PROVE LibraryStep
    BY <1>1, <1>3, <1>w DEF ClaimSpecific, Workers
  <1>4. ASSUME NEW w \in Workers,
               \/ OpenTask(w) \/ RecordTask(w) \/ ResumeTask(w) \/ SubmitTask(w)
               \/ FetchResult(w) \/ TaskEnded(w) \/ TerminateTask(w) \/ ClearTask(w)
               \/ ReadAdvanced(w) \/ Fault(w) \/ Catch(w) \/ Heartbeat(w) \/ Crash(w)
        PROVE  LibraryStep
    BY <1>4, NothingMoves
       DEF OpenTask, RecordTask, ResumeTask, SubmitTask, FetchResult, TaskEnded,
           TerminateTask, ClearTask, ReadAdvanced, Fault, Catch, Heartbeat, Crash
  \* A row that its owner replaces by r keeps its order.
  <1>5. ASSUME NEW w \in Workers, wk[w].pc # "idle", Owned(w), NEW r,
               job' = [job EXCEPT ![wk[w].file] = r], UNCHANGED <<indexed, gens>>,
               r.state # "absent", r.doc = job[wk[w].file].doc, r.gen = job[wk[w].file].gen
        PROVE  LibraryStep
    BY <1>5, <1>w, RowMoves DEF Owned
  <1>6. ASSUME NEW w \in Workers, NEW s \in Services, EnsureAssignment(w, s)
        PROVE  LibraryStep
    <2>1. s \in AnyService /\ wk[w].file \in Files
      BY <1>6, <1>w DEF EnsureAssignment, AnyService
    <2>2. /\ Assigned(job[wk[w].file], s).state = "running"
          /\ Assigned(job[wk[w].file], s).doc = job[wk[w].file].doc
          /\ Assigned(job[wk[w].file], s).gen = job[wk[w].file].gen
      BY <1>6, <1>t, <2>1, AssignedRow DEF EnsureAssignment, Owned
    <2>3. QED
      BY <1>5, <1>6, <2>2 DEF EnsureAssignment
  <1>7. ASSUME NEW w \in Workers, CompleteNormalization(w) PROVE LibraryStep
    <2>1. wk[w].file \in Files /\ wk[w].elems \in AnyDoc
      BY <1>7, <1>w DEF CompleteNormalization, Typed, TypeOK, Worker
    <2> DEFINE r == Normalized(job[wk[w].file], wk[w].elems)
    <2>2. r.state = job[wk[w].file].state /\ r.doc = job[wk[w].file].doc
          /\ r.gen = job[wk[w].file].gen
      BY <1>t, <2>1, NormalizedRow
    <2> HIDE DEF r
    <2>3. \/ UNCHANGED <<job, indexed, gens>>
          \/ Owned(w) /\ job' = [job EXCEPT ![wk[w].file] = r] /\ UNCHANGED <<indexed, gens>>
      BY <1>7 DEF CompleteNormalization, r
    <2>4. QED
      BY <1>5, <1>7, <2>2, <2>3, NothingMoves DEF CompleteNormalization, Owned
  <1>8. ASSUME NEW w \in Workers, CompleteIndexing(w) PROVE LibraryStep
    <2>1. wk[w].file \in Files
      BY <1>8, <1>w DEF CompleteIndexing
    <2> DEFINE r == FullyIndexed(job[wk[w].file])
    <2>2. r.state = job[wk[w].file].state /\ r.doc = job[wk[w].file].doc
          /\ r.gen = job[wk[w].file].gen
      BY <1>t, <2>1, FullyIndexedRow
    <2> HIDE DEF r
    <2>3. \/ UNCHANGED <<job, indexed, gens>>
          \/ Owned(w) /\ job' = [job EXCEPT ![wk[w].file] = r] /\ UNCHANGED <<indexed, gens>>
      BY <1>8 DEF CompleteIndexing, r
    <2>4. QED
      BY <1>5, <1>8, <2>2, <2>3, NothingMoves DEF CompleteIndexing, Owned
  <1>9. ASSUME NEW w \in Workers, Promote(w) PROVE LibraryStep
    <2> DEFINE f == wk[w].file
               i == [version |-> indexed[f].version + 1, doc |-> job[f].doc,
                     elems |-> job[f].elems, gen |-> job[f].gen]
    <2>1. f \in Files /\ gens' = gens
      BY <1>9, <1>w DEF Promote
    <2>2. CASE UNCHANGED <<job, indexed>>
      BY <2>1, <2>2, NothingMoves
    <2>3. CASE /\ Owned(w) /\ job[f].control = "active"
               /\ job' = [job EXCEPT ![f] = NoJob] /\ indexed' = [indexed EXCEPT ![f] = i]
      <3>1. job[f].state # "absent" /\ indexed'[f] = i
        BY <2>1, <2>3 DEF Owned, Typed, TypeOK
      <3>2. QED
        BY <2>1, <2>3, <3>1, FileMoves DEF Moved, Filled
    <2> QED
      BY <1>9, <2>2, <2>3 DEF Promote
  <1>10. ASSUME NEW w \in Workers, NEW due \in BOOLEAN, NEW keep \in BOOLEAN,
                Release(w, due, keep)
         PROVE  LibraryStep
    <2> DEFINE f == wk[w].file
               r == Released(job[f], due, SettledControl(f), ReleasedService(f, keep))
    <2>1. f \in Files
      BY <1>10, <1>w DEF Release
    <2>2. r.state = "pending" /\ r.doc = job[f].doc /\ r.gen = job[f].gen
      BY <1>t, <2>1, ReleasedRow, ReleasedColumns
    <2>3. \/ UNCHANGED <<job, indexed, gens>>
          \/ Owned(w) /\ job' = [job EXCEPT ![f] = r] /\ UNCHANGED <<indexed, gens>>
      BY <1>10 DEF Release
    <2> HIDE DEF r
    <2>4. QED
      BY <1>5, <1>10, <2>2, <2>3, NothingMoves DEF Release
  <1>11. ASSUME NEW w \in Workers, NEW keep \in BOOLEAN, MarkFailed(w, keep)
         PROVE  LibraryStep
    <2> DEFINE f == wk[w].file
               r == Failed(job[f], SettledControl(f), ReleasedService(f, keep))
    <2>1. f \in Files
      BY <1>11, <1>w DEF MarkFailed
    <2>2. r.state # "absent" /\ r.doc = job[f].doc /\ r.gen = job[f].gen
      BY <1>t, <2>1, FailedRow, ReleasedColumns
    <2>3. \/ UNCHANGED <<job, indexed, gens>>
          \/ Owned(w) /\ job' = [job EXCEPT ![f] = r] /\ UNCHANGED <<indexed, gens>>
      BY <1>11 DEF MarkFailed
    <2> HIDE DEF r
    <2>4. QED
      BY <1>5, <1>11, <2>2, <2>3, NothingMoves DEF MarkFailed
  <1>12. ASSUME NEW w \in Workers, SettleOwned(w) PROVE LibraryStep
    <2> DEFINE f == wk[w].file
               r == ControlSettled(job[f])
    <2>1. f \in Files
      BY <1>12, <1>w DEF SettleOwned
    <2>2. r.state = "pending" /\ r.doc = job[f].doc /\ r.gen = job[f].gen
      BY <1>t, <2>1, ControlSettledRow
    <2>3. \/ UNCHANGED <<job, indexed, gens>>
          \/ Owned(w) /\ job' = [job EXCEPT ![f] = r] /\ UNCHANGED <<indexed, gens>>
      BY <1>12 DEF SettleOwned
    <2> HIDE DEF r
    <2>4. QED
      BY <1>5, <1>12, <2>2, <2>3, NothingMoves DEF SettleOwned
  <1> QED
    BY <1>2, <1>3, <1>4, <1>6, <1>7, <1>8, <1>9, <1>10, <1>11, <1>12
       DEF WorkerStep, WorkStep, SettleStep

\* An order is newer than what it will replace; no job, no order and no control.
DeskOK(j, i) ==
    /\ i.gen <= gens
    /\ IF j.state = "absent" THEN j.doc = NoDoc /\ j.gen = 0 /\ j.control = "active"
       ELSE i.gen < j.gen /\ j.gen <= gens
DesksOK == \A f \in Files : DeskOK(job[f], indexed[f])

LEMMA ReconcileMoves == Typed /\ RowsOK /\ DesksOK /\ ReconcileStep => LibraryStep
  <1> SUFFICES ASSUME Typed, RowsOK, DesksOK, ReconcileStep PROVE LibraryStep
    OBVIOUS
  <1>t. \A f \in Files : job[f] \in Job
    BY DEF Typed, TypeOK
  <1>s. ASSUME NEW f \in Files, job[f].state # "absent",
               job' = [job EXCEPT ![f] = ControlSettled(job[f])], UNCHANGED <<indexed, gens>>
        PROVE  LibraryStep
    BY <1>t, <1>s, ControlSettledRow, RowMoves
  <1>1. ASSUME NEW f \in Files, SettleExpired(f) PROVE LibraryStep
    BY <1>1, <1>s DEF SettleExpired, ControlOnly
  <1>2. ASSUME NEW f \in Files, ExecuteControl(f) PROVE LibraryStep
    BY <1>2, NothingMoves DEF ExecuteControl
  <1>3. ASSUME NEW f \in Files, FinalizeCancellation(f) PROVE LibraryStep
    <2>1. job' = [job EXCEPT ![f] = NoJob] /\ indexed' = indexed /\ gens' = gens
      BY <1>3 DEF FinalizeCancellation, ControlOnly
    <2>2. QED
      BY <2>1, FileMoves DEF Moved, Withdrawn
  <1>4. ASSUME NEW a \in acks, AckControl(a) PROVE LibraryStep
    <2> DEFINE f == a.file
    <2>1. f \in Files /\ indexed' = indexed /\ gens' = gens
      BY <1>4 DEF AckControl, Typed, TypeOK, Ack
    <2>2. CASE job' = job
      BY <2>1, <2>2, NothingMoves
    <2>3. CASE job[f].control \in Requested /\ job' = [job EXCEPT ![f] = ControlSettled(job[f])]
      <3>1. job[f].state # "absent"
        BY <2>1, <2>3 DEF DesksOK, DeskOK, Requested
      <3>2. QED
        BY <1>s, <2>1, <2>3, <3>1
    <2> QED
      BY <1>4, <2>2, <2>3 DEF AckControl
  <1>5. ASSUME NEW a \in acks, LoseAck(a) PROVE LibraryStep
    BY <1>5, NothingMoves DEF LoseAck
  <1> QED
    BY <1>1, <1>2, <1>3, <1>4, <1>5 DEF ReconcileStep

LEMMA EnvironmentMoves == Typed /\ EnvironmentStep => LibraryStep
  <1> SUFFICES ASSUME Typed, EnvironmentStep PROVE LibraryStep
    OBVIOUS
  <1>t. \A f \in Files : job[f] \in Job
    BY DEF Typed, TypeOK
  <1>1. ASSUME NEW f \in Files, ExpireLease(f) PROVE LibraryStep
    BY <1>1, <1>t, ExpiredRow, RowMoves DEF ExpireLease, ControlOnly
  <1>2. ASSUME NEW f \in Files, BecomeDue(f) PROVE LibraryStep
    <2> DEFINE r == DueNow(job[f])
    <2>1. r.state = job[f].state /\ r.doc = job[f].doc /\ r.gen = job[f].gen
      BY <1>t, DueNowRow
    <2>2. /\ job[f].state # "absent" /\ UNCHANGED <<indexed, gens>>
          /\ job' = [job EXCEPT ![f] = r]
      BY <1>2 DEF BecomeDue, ControlOnly
    <2> HIDE DEF r
    <2>3. QED
      BY <2>1, <2>2, RowMoves
  <1>3. ASSUME NEW t \in TaskIds, RemoteForgets(t)
                 \/ \E status \in {"done", "failed"} : RemoteEnds(t, status)
        PROVE  LibraryStep
    BY <1>3, NothingMoves DEF RemoteForgets, RemoteEnds
  <1> QED
    BY <1>1, <1>2, <1>3 DEF EnvironmentStep

LEMMA EveryStepMoves == Typed /\ RowsOK /\ DesksOK /\ [Next]_vars => LibraryStep
  BY ClientMoves, WorkerMoves, ReconcileMoves, EnvironmentMoves, NothingMoves
     DEF Next, vars

\* The numbers of orders and publications.
LEMMA Generations ==
  ASSUME Typed
  PROVE  /\ gens \in Nat
         /\ \A f \in Files : /\ job[f].gen \in Nat /\ indexed[f].gen \in Nat
                             /\ indexed[f].version \in Nat
  BY DEF Typed, TypeOK, Job, Published

LEMMA DesksKept == Typed /\ DesksOK /\ LibraryStep => DesksOK'
  <1> SUFFICES ASSUME Typed, DesksOK, LibraryStep PROVE DesksOK'
    OBVIOUS
  <1>g. /\ gens \in Nat
        /\ \A f \in Files : job[f].gen \in Nat /\ indexed[f].gen \in Nat
    BY Generations
  <1>1. gens' \in Nat /\ gens <= gens'
    BY <1>g DEF LibraryStep, Moved, Placed
  <1>2. ASSUME NEW f \in Files, Kept(f) PROVE DeskOK(job[f], indexed[f])'
    BY <1>1, <1>2, <1>g DEF DesksOK, DeskOK, Kept
  <1>3. ASSUME NEW f \in Files, Moved(f) PROVE DeskOK(job[f], indexed[f])'
    <2>1. CASE Placed(f)
      BY <1>g, <2>1 DEF Placed, DesksOK, DeskOK
    <2>2. NoJob.state = "absent" /\ NoJob.doc = NoDoc /\ NoJob.gen = 0
          /\ NoJob.control = "active"
      BY DEF NoJob
    <2>3. CASE gens' = gens /\ Filled(f)
      BY <1>g, <2>2, <2>3 DEF Filled, DesksOK, DeskOK
    <2>4. CASE gens' = gens /\ Withdrawn(f)
      BY <1>g, <2>2, <2>4 DEF Withdrawn, DesksOK, DeskOK
    <2>5. CASE gens' = gens /\ Removed(f)
      BY <1>g, <2>2, <2>5 DEF Removed, NotIndexed, DesksOK, DeskOK
    <2>6. QED
      BY <1>3, <2>1, <2>3, <2>4, <2>5 DEF Moved
  <1>4. QED
    BY <1>2, <1>3 DEF LibraryStep, DesksOK

LEMMA InitDesks == Init => DesksOK
  <1> SUFFICES ASSUME Init, NEW f \in Files PROVE DeskOK(job[f], indexed[f])
    BY DEF DesksOK
  <1>1. /\ NoJob.state = "absent" /\ NoJob.doc = NoDoc /\ NoJob.gen = 0
        /\ NoJob.control = "active" /\ NotIndexed.gen = 0
    BY DEF NoJob, NotIndexed
  <1>2. job[f] = NoJob /\ indexed[f] = NotIndexed /\ gens = 0
    BY DEF Init
  <1>3. QED
    BY <1>1, <1>2 DEF DeskOK

LEMMA AlwaysDesks == Spec => [](Typed /\ RowsOK /\ DesksOK)
  <1>1. Typed /\ RowsOK /\ DesksOK /\ [Next]_vars => DesksOK'
    BY EveryStepMoves, DesksKept
  <1> QED
    BY <1>1, InitDesks, AlwaysTyped, AlwaysRows, PTL DEF Spec

\* A searchable document is replaced only by a later generation as its next version,
\* from a job under no control, or deleted while no job is in progress.
THEOREM PublicationsMoveForward == Spec => PublicationMovesForward
  <1> DEFINE Forward ==
        \A f \in Files : indexed'[f] # indexed[f] =>
          \/ /\ indexed'[f] = NotIndexed
             /\ job[f].state \in {"absent", "failed"}
          \/ /\ indexed'[f].gen > indexed[f].gen
             /\ indexed'[f].version = indexed[f].version + 1
             /\ job[f].control = "active"
  <1>1. ASSUME Typed, RowsOK, DesksOK, [Next]_vars PROVE Forward
    <2>1. SUFFICES ASSUME NEW f \in Files, indexed'[f] # indexed[f]
                   PROVE  \/ /\ indexed'[f] = NotIndexed
                             /\ job[f].state \in {"absent", "failed"}
                          \/ /\ indexed'[f].gen > indexed[f].gen
                             /\ indexed'[f].version = indexed[f].version + 1
                             /\ job[f].control = "active"
      OBVIOUS
    <2>2. Filled(f) \/ Removed(f)
      BY <1>1, <2>1, EveryStepMoves DEF LibraryStep, Kept, Moved, Placed, Withdrawn
    <2>3. CASE Removed(f)
      BY <2>3 DEF Removed
    <2>4. CASE Filled(f)
      BY <1>1, <2>4, Generations DEF Filled, DesksOK, DeskOK
    <2>5. QED
      BY <2>2, <2>3, <2>4
  <1> HIDE DEF Forward
  <1>2. Typed /\ RowsOK /\ DesksOK /\ [Next]_vars => [Forward]_vars
    BY <1>1
  <1>3. Spec => [][Forward]_vars
    BY <1>2, AlwaysDesks, PTL DEF Spec
  <1>4. QED
    BY <1>3 DEF Forward, PublicationMovesForward

-----------------------------------------------------------------------------
(* The library: job rows and searchable documents as its orders and shelf.      *)

LEMMA Fields ==
  /\ NoJob.doc = NoDoc /\ NoJob.gen = 0
  /\ NotIndexed.doc = NoDoc /\ NotIndexed.gen = 0
  BY DEF NoJob, NotIndexed

LEMMA LibraryInit == Init => Library!Init
  <1> SUFFICES ASSUME Init PROVE Library!Init
    OBVIOUS
  <1>1. \A f \in Files : job[f] = NoJob /\ indexed[f] = NotIndexed
    BY DEF Init
  <1>2. \A f \in Files : Ordered[f] = Library!Nothing /\ Shelved[f] = Library!Nothing
    BY <1>1, Fields DEF Ordered, Shelved, Library!Nothing
  <1>3. gens = 0
    BY DEF Init
  <1>4. QED
    BY <1>2, <1>3 DEF Library!Init, Ordered, Shelved

\* What a reader of the library sees of one file.
LEMMA Seen ==
  ASSUME NEW f \in Files
  PROVE  /\ Ordered[f] = [doc |-> job[f].doc, gen |-> job[f].gen]
         /\ Shelved[f] = [doc |-> indexed[f].doc, gen |-> indexed[f].gen]
         /\ Ordered'[f] = [doc |-> job'[f].doc, gen |-> job'[f].gen]
         /\ Shelved'[f] = [doc |-> indexed'[f].doc, gen |-> indexed'[f].gen]
  BY DEF Ordered, Shelved

LEMMA SeenKept ==
  ASSUME NEW f \in Files, Kept(f)
  PROVE  Ordered'[f] = Ordered[f] /\ Shelved'[f] = Shelved[f]
  BY Seen DEF Kept

\* Two functions on Files that differ at most at f.
LEMMA ChangedAt ==
  ASSUME NEW f \in Files, \A g \in Files \ {f} : Kept(g)
  PROVE  /\ Ordered' = [Ordered EXCEPT ![f] = Ordered'[f]]
         /\ Shelved' = [Shelved EXCEPT ![f] = Shelved'[f]]
  <1>1. \A g \in Files \ {f} : Ordered'[g] = Ordered[g] /\ Shelved'[g] = Shelved[g]
    BY SeenKept
  <1>2. QED
    BY <1>1 DEF Ordered, Shelved

LEMMA LibraryNext ==
  ASSUME Typed, DesksOK, LibraryStep
  PROVE  [Library!Next]_<<Ordered, Shelved, gens>>
  <1>1. CASE gens' = gens /\ \A f \in Files : Kept(f)
    <2>1. \A f \in Files : Ordered'[f] = Ordered[f] /\ Shelved'[f] = Shelved[f]
      BY <1>1, SeenKept
    <2>2. Ordered' = Ordered /\ Shelved' = Shelved
      BY <2>1 DEF Ordered, Shelved
    <2>3. QED
      BY <1>1, <2>2
  <1>2. ASSUME NEW f \in Files, Moved(f), \A g \in Files \ {f} : Kept(g)
        PROVE  Library!Next
    <2>1. /\ Ordered' = [Ordered EXCEPT ![f] = Ordered'[f]]
          /\ Shelved' = [Shelved EXCEPT ![f] = Shelved'[f]]
      BY <1>2, ChangedAt
    <2>2. Shelved'[f] = Shelved[f] => Shelved' = Shelved
      BY <2>1 DEF Shelved
    <2>3. job'[f] = NoJob => Ordered'[f] = Library!Nothing
      BY Seen, Fields DEF Library!Nothing
    <2>4. CASE Placed(f)
      <3>1. job'[f].doc \in Docs /\ gens' = gens + 1 /\ Shelved'[f] = Shelved[f]
            /\ Ordered'[f] = [doc |-> job'[f].doc, gen |-> gens']
        BY <2>4, Seen DEF Placed
      <3>2. PICK d \in Docs : d = job'[f].doc
        BY <3>1
      <3>3. Library!Place(f, d)
        BY <2>1, <2>2, <3>1, <3>2 DEF Library!Place
      <3>4. QED
        BY <3>3 DEF Library!Next
    <2>5. CASE gens' = gens /\ Filled(f)
      <3>1. job[f].gen # 0
        BY <2>5, Generations DEF Filled, DesksOK, DeskOK
      <3>2. Ordered[f] # Library!Nothing
        <4>1. Ordered[f].gen = job[f].gen /\ Library!Nothing.gen = 0
          BY DEF Ordered, Library!Nothing
        <4>2. QED
          BY <3>1, <4>1
      <3>3. Shelved'[f] = Ordered[f]
        <4>1. indexed'[f].doc = job[f].doc /\ indexed'[f].gen = job[f].gen
          BY <2>5 DEF Filled
        <4>2. QED
          BY <4>1, Seen
      <3>4. Ordered'[f] = Library!Nothing
        BY <2>3, <2>5 DEF Filled
      <3>5. QED
        BY <2>1, <2>5, <3>2, <3>3, <3>4 DEF Library!Next, Library!Fill
    <2>6. CASE gens' = gens /\ Withdrawn(f)
      <3>1. Shelved'[f] = Shelved[f] /\ Ordered'[f] = Library!Nothing
        BY <2>3, <2>6, Seen DEF Withdrawn
      <3>2. QED
        BY <2>1, <2>2, <2>6, <3>1 DEF Library!Next, Library!Withdraw
    <2>7. CASE gens' = gens /\ Removed(f)
      <3>1. Shelved'[f] = Library!Nothing /\ Ordered'[f] = Library!Nothing
        BY <2>3, <2>7, Seen, Fields DEF Removed, Library!Nothing
      <3>2. QED
        BY <2>1, <2>7, <3>1 DEF Library!Next, Library!Remove
    <2>8. QED
      BY <1>2, <2>4, <2>5, <2>6, <2>7 DEF Moved
  <1>3. QED
    BY <1>1, <1>2 DEF LibraryStep

\* Whatever workers, reconcilers and users do, what readers of a file see is one
\* content that was ordered for it, published once, and only while the order stood.
THEOREM IngestionImplementsLibrary == Spec => ImplementsLibrary
  <1>1. Typed /\ RowsOK /\ DesksOK /\ [Next]_vars
          => [Library!Next]_<<Ordered, Shelved, gens>>
    BY EveryStepMoves, LibraryNext
  <1> QED
    BY <1>1, LibraryInit, AlwaysDesks, PTL DEF Spec, ImplementsLibrary, Library!Spec

-----------------------------------------------------------------------------
(* Pauses.  A CLI run claims the job of its file whatever its control, so the   *)
(* result is about workers that claim what is due.                              *)

IdleRow(j) == j.control = "paused" => j.state # "running"

LEMMA IdleKept ==
  ASSUME Typed, PausedIsIdle,
         job' = job \/ \E f \in Files : \E r : job' = [job EXCEPT ![f] = r] /\ IdleRow(r)
  PROVE  PausedIsIdle'
  BY DEF Typed, TypeOK, PausedIsIdle, IdleRow

LEMMA ClientIdle == Typed /\ PausedIsIdle /\ ClientStep => PausedIsIdle'
  <1> SUFFICES ASSUME Typed, PausedIsIdle, ClientStep PROVE PausedIsIdle'
    OBVIOUS
  <1>t. \A f \in Files : job[f] \in Job /\ job[f].service \in AnyService
    BY DEF Typed, TypeOK, Job
  <1>d. Docs \subseteq AnyDoc /\ NoService \in AnyService /\ gens \in Nat
    BY DEF AnyDoc, AnyService, Typed, TypeOK
  <1>n. IdleRow(NoJob)
    BY DEF IdleRow, NoJob
  <1>r. ASSUME NEW f \in Files, NEW d \in Docs, NEW s \in AnyService
        PROVE  IdleRow(ResetJob(job[f], d, s))
    BY <1>t, <1>d, ResetJobRow DEF IdleRow
  <1>1. ASSUME NEW f \in Files, NEW d \in Docs, Upload(f, d) PROVE PausedIsIdle'
    BY <1>1, <1>d, <1>r, IdleKept DEF Upload
  <1>2. ASSUME NEW c \in Clis, NEW f \in Files, NEW d \in Docs,
               NEW force \in BOOLEAN, PrepareRead(c, f, d, force)
        PROVE  PausedIsIdle'
    BY <1>2, IdleKept DEF PrepareRead
  <1>w. ASSUME NEW c \in Clis, wk[c].pc \in {"skip", "resume", "reset"}
        PROVE  wk[c].file \in Files /\ wk[c].doc \in Docs
    BY <1>w DEF Workers, Typed, WorkerOK
  <1>3. ASSUME NEW c \in Clis, PrepareSkip(c) PROVE PausedIsIdle'
    <2>1. job' = job \/ job' = [job EXCEPT ![wk[c].file] = NoJob]
      BY <1>3 DEF PrepareSkip
    <2>2. QED
      BY <1>3, <1>n, <1>w, <2>1, IdleKept DEF PrepareSkip
  <1>4. ASSUME NEW c \in Clis, PrepareResume(c) PROVE PausedIsIdle'
    <2>1. job' = job \/ job' = [job EXCEPT ![wk[c].file] = Resumed(job[wk[c].file])]
      BY <1>4 DEF PrepareResume
    <2>2. wk[c].file \in Files
      BY <1>4, <1>w DEF PrepareResume
    <2>3. IdleRow(Resumed(job[wk[c].file]))
      BY <1>t, <2>2, ResumedRow DEF IdleRow
    <2>4. QED
      BY <2>1, <2>2, <2>3, IdleKept
  <1>5. ASSUME NEW c \in Clis, PrepareReset(c) PROVE PausedIsIdle'
    <2> DEFINE f == wk[c].file
    <2>1. \/ job' = job
          \/ job' = [job EXCEPT ![f] = ResetJob(job[f], wk[c].doc, job[f].service)]
      BY <1>5 DEF PrepareReset
    <2>2. f \in Files /\ wk[c].doc \in Docs
      BY <1>5, <1>w DEF PrepareReset
    <2>3. QED
      BY <1>r, <1>t, <2>1, <2>2, IdleKept
  <1>6. ASSUME NEW f \in Files, RequestPause(f) \/ RequestCancel(f) \/ ResumePaused(f)
        PROVE  PausedIsIdle'
    <2>1. PICK c \in ControlStates : /\ job' = [job EXCEPT ![f] = Controlled(job[f], c)]
                                     /\ c = "paused" => job[f].state # "running"
      BY <1>6 DEF RequestPause, RequestCancel, ResumePaused, ControlStates
    <2>2. IdleRow(Controlled(job[f], c))
      BY <1>t, <2>1, ControlledRow DEF IdleRow
    <2>3. QED
      BY <2>1, <2>2, IdleKept
  <1>7. ASSUME NEW f \in Files, RetryFailed(f) PROVE PausedIsIdle'
    <2>1. IdleRow(Retried(job[f]))
      BY <1>t, RetriedRow DEF IdleRow
    <2>2. QED
      BY <1>7, <2>1, IdleKept DEF RetryFailed
  <1>8. ASSUME NEW f \in Files, DeleteDocument(f) PROVE PausedIsIdle'
    BY <1>8, <1>n, IdleKept DEF DeleteDocument
  <1> QED
    BY <1>1, <1>2, <1>3, <1>4, <1>5, <1>6, <1>7, <1>8 DEF ClientStep

LEMMA WorkerIdle == Clis = {} /\ Typed /\ PausedIsIdle /\ WorkerStep => PausedIsIdle'
  <1> SUFFICES ASSUME Clis = {}, Typed, PausedIsIdle, WorkerStep PROVE PausedIsIdle'
    OBVIOUS
  <1>t. /\ \A f \in Files : job[f] \in Job /\ IdleRow(job[f])
        /\ claims + 1 \in Nat
    BY DEF Typed, TypeOK, PausedIsIdle, IdleRow
  <1>w. ASSUME NEW w \in Workers, wk[w].pc # "idle" PROVE wk[w].file \in Files
    BY <1>w DEF Typed, WorkerOK
  \* A step that replaces the row of a worker's own job, if it owns it, by r.
  <1>o. ASSUME NEW w \in Workers, wk[w].pc # "idle", NEW r, IdleRow(r),
               job' = job \/ job' = [job EXCEPT ![wk[w].file] = r]
        PROVE  PausedIsIdle'
    BY <1>o, <1>w, IdleKept
  <1>1. ASSUME NEW w \in Daemons, NEW f \in Files, ClaimNext(w, f) PROVE PausedIsIdle'
    <2>1. IdleRow(Leased(job[f], claims + 1))
      BY <1>1, <1>t, LeasedRow DEF ClaimNext, IdleRow
    <2>2. QED
      BY <1>1, <2>1, IdleKept DEF ClaimNext, Claim
  <1>2. ASSUME NEW w \in Workers,
               \/ OpenTask(w) \/ RecordTask(w) \/ ResumeTask(w) \/ SubmitTask(w)
               \/ FetchResult(w) \/ TaskEnded(w) \/ TerminateTask(w) \/ ClearTask(w)
               \/ ReadAdvanced(w) \/ Fault(w) \/ Catch(w) \/ Heartbeat(w) \/ Crash(w)
        PROVE  job' = job
    BY <1>2
       DEF OpenTask, RecordTask, ResumeTask, SubmitTask, FetchResult, TaskEnded,
           TerminateTask, ClearTask, ReadAdvanced, Fault, Catch, Heartbeat, Crash
  <1>3. ASSUME NEW w \in Workers, NEW s \in Services, EnsureAssignment(w, s)
        PROVE  PausedIsIdle'
    <2>1. s \in AnyService /\ wk[w].file \in Files
      BY <1>3, <1>w DEF EnsureAssignment, AnyService
    <2>2. IdleRow(Assigned(job[wk[w].file], s))
      BY <1>t, <2>1, AssignedRow DEF IdleRow
    <2>3. QED
      BY <1>3, <1>o, <2>2 DEF EnsureAssignment
  <1>4. ASSUME NEW w \in Workers, CompleteNormalization(w) PROVE PausedIsIdle'
    <2>1. wk[w].file \in Files /\ wk[w].elems \in AnyDoc
      BY <1>4, <1>w DEF CompleteNormalization, Typed, TypeOK, Worker
    <2>2. IdleRow(Normalized(job[wk[w].file], wk[w].elems))
      BY <1>t, <2>1, NormalizedRow DEF IdleRow
    <2>3. QED
      BY <1>4, <1>o, <2>2 DEF CompleteNormalization
  <1>5. ASSUME NEW w \in Workers, CompleteIndexing(w) PROVE PausedIsIdle'
    <2>1. wk[w].file \in Files
      BY <1>5, <1>w DEF CompleteIndexing
    <2>2. IdleRow(FullyIndexed(job[wk[w].file]))
      BY <1>t, <2>1, FullyIndexedRow DEF IdleRow
    <2>3. QED
      BY <1>5, <1>o, <2>2 DEF CompleteIndexing
  <1>6. ASSUME NEW w \in Workers, Promote(w) PROVE PausedIsIdle'
    <2>1. IdleRow(NoJob)
      BY DEF IdleRow, NoJob
    <2>2. QED
      BY <1>6, <1>o, <2>1 DEF Promote
  <1>7. ASSUME NEW w \in Workers, NEW due \in BOOLEAN, NEW keep \in BOOLEAN,
               Release(w, due, keep) \/ MarkFailed(w, keep) \/ SettleOwned(w)
        PROVE  PausedIsIdle'
    <2> DEFINE f == wk[w].file
               c == SettledControl(f)
               s == ReleasedService(f, keep)
    <2>1. f \in Files /\ wk[w].pc # "idle"
      BY <1>7, <1>w DEF Release, MarkFailed, SettleOwned
    <2>2. c \in ControlStates /\ s \in AnyService
      BY <2>1, ReleasedColumns
    <2>3. /\ IdleRow(Released(job[f], due, c, s)) /\ IdleRow(Failed(job[f], c, s))
          /\ IdleRow(ControlSettled(job[f]))
      BY <1>t, <2>1, <2>2, ReleasedRow, FailedRow, ControlSettledRow DEF IdleRow
    <2>4. \/ job' = job
          \/ job' = [job EXCEPT ![f] = Released(job[f], due, c, s)]
          \/ job' = [job EXCEPT ![f] = Failed(job[f], c, s)]
          \/ job' = [job EXCEPT ![f] = ControlSettled(job[f])]
      BY <1>7 DEF Release, MarkFailed, SettleOwned
    <2> HIDE DEF c, s
    <2>5. QED
      BY <1>o, <2>1, <2>3, <2>4
  <1> QED
    BY <1>1, <1>2, <1>3, <1>4, <1>5, <1>6, <1>7, IdleKept
       DEF WorkerStep, WorkStep, SettleStep

LEMMA ReconcileIdle ==
  Typed /\ PausedIsIdle /\ (ReconcileStep \/ EnvironmentStep) => PausedIsIdle'
  <1> SUFFICES ASSUME Typed, PausedIsIdle, ReconcileStep \/ EnvironmentStep
               PROVE  PausedIsIdle'
    OBVIOUS
  <1>t. \A f \in Files : job[f] \in Job /\ IdleRow(job[f])
    BY DEF Typed, TypeOK, PausedIsIdle, IdleRow
  <1>1. \A f \in Files : /\ IdleRow(ControlSettled(job[f])) /\ IdleRow(Expired(job[f]))
                         /\ IdleRow(DueNow(job[f])) /\ IdleRow(NoJob)
    <2>1. IdleRow(NoJob)
      BY DEF IdleRow, NoJob
    <2> TAKE f \in Files
    <2>2. IdleRow(ControlSettled(job[f]))
      BY <1>t, ControlSettledRow DEF IdleRow
    <2>3. IdleRow(Expired(job[f]))
      BY <1>t, ExpiredRow DEF IdleRow
    <2>4. IdleRow(DueNow(job[f]))
      BY <1>t, DueNowRow DEF IdleRow
    <2>5. QED
      BY <2>1, <2>2, <2>3, <2>4
  <1>2. ASSUME NEW f \in Files, \/ SettleExpired(f) \/ FinalizeCancellation(f)
                                \/ ExpireLease(f) \/ BecomeDue(f)
        PROVE  PausedIsIdle'
    BY <1>1, <1>2, IdleKept
       DEF SettleExpired, FinalizeCancellation, ExpireLease, BecomeDue
  <1>3. ASSUME NEW a \in acks, AckControl(a) PROVE PausedIsIdle'
    <2>1. a.file \in Files
      BY <1>3 DEF AckControl, Typed, TypeOK, Ack
    <2>2. job' = job \/ job' = [job EXCEPT ![a.file] = ControlSettled(job[a.file])]
      BY <1>3 DEF AckControl
    <2>3. QED
      BY <1>1, <2>1, <2>2, IdleKept
  <1>4. ASSUME \/ \E f \in Files : ExecuteControl(f)
               \/ \E a \in acks : LoseAck(a)
               \/ \E t \in TaskIds : RemoteForgets(t)
               \/ \E t \in TaskIds, status \in {"done", "failed"} : RemoteEnds(t, status)
        PROVE  PausedIsIdle'
    BY <1>4, IdleKept DEF ExecuteControl, LoseAck, RemoteForgets, RemoteEnds
  <1> QED
    BY <1>2, <1>3, <1>4 DEF ReconcileStep, EnvironmentStep

\* Without a CLI run nobody works on a job whose pause was settled.
THEOREM PausedJobsAreIdle ==
  ASSUME Clis = {}
  PROVE  Spec => []PausedIsIdle
  <1>1. Init => PausedIsIdle
    <2> SUFFICES ASSUME Init, NEW f \in Files PROVE job[f].control # "paused"
      BY DEF PausedIsIdle
    <2>1. job[f] = NoJob
      BY DEF Init
    <2> QED
      BY <2>1 DEF NoJob
  <1>2. Typed /\ PausedIsIdle /\ [Next]_vars => PausedIsIdle'
    BY ClientIdle, WorkerIdle, ReconcileIdle, IdleKept DEF Next, vars
  <1> QED
    BY <1>1, <1>2, AlwaysTyped, PTL DEF Spec

-----------------------------------------------------------------------------
(* Contents.  Whoever speaks of a Docling task -- the worker that uses it, the  *)
(* checkpoint that names it and the service that runs it -- means one content.  *)

\* The steps at which a worker remembers the content of the job it claimed.
DocSteps == {"assign", "open"} \cup TaskSteps
\* A worker that holds job j works on the content of j.
Sourced(r, j) ==
    j.state = "running" /\ j.owner = r.owner =>
       /\ r.pc \in DocSteps => r.doc = j.doc
       /\ r.pc = "store" => r.elems = j.doc
LeasesOK ==
    /\ \A f \in Files : job[f].owner <= claims
    /\ \A w \in Workers : /\ wk[w].owner <= claims
                          /\ wk[w].pc \in DocSteps => wk[w].doc \in Docs
                          /\ wk[w].pc # "idle" => Sourced(wk[w], job[wk[w].file])
ContentOK(j, i) ==
    /\ j.state # "absent" => j.doc \in Docs
    /\ j.elems \in {NoDoc, j.doc}
    /\ j.phase # "discovered" => j.elems = j.doc
    /\ i.elems = i.doc
ContentsOK == \A f \in Files : ContentOK(job[f], indexed[f])
Says(t, d) ==
    \/ remote[t].doc = d
    \/ \E w \in Workers : wk[w].task = t /\ wk[w].doc = d
    \/ \E f \in Files : ckpt[f].task = t /\ job[f].doc = d
TaskAgreed(t) ==
    /\ \A d, e \in Docs : Says(t, d) /\ Says(t, e) => d = e
    /\ \A d \in Docs : Says(t, d) => t <= tasks
    /\ remote[t].status # "unknown" => remote[t].doc \in Docs
TasksAgree == \A t \in TaskIds : TaskAgreed(t)
Sources == LeasesOK /\ ContentsOK /\ TasksAgree

\* What a step may do to the rows of a file ...
RowUpdated(f) ==
    /\ job'[f].doc = job[f].doc /\ job'[f].elems = job[f].elems
    /\ job[f].state = "absent" => job'[f].state = "absent"
    /\ job'[f].phase # "discovered" => job[f].phase # "discovered"
    /\ job'[f].owner \in {0, job[f].owner}
    /\ job'[f].state = "running" =>
          job[f].state = "running" /\ job'[f].owner = job[f].owner
    /\ ckpt'[f].task \in {0, ckpt[f].task} /\ indexed'[f] = indexed[f]
RowClaimed(f) ==
    /\ job'[f].doc = job[f].doc /\ job'[f].elems = job[f].elems
    /\ job'[f].phase = job[f].phase /\ job[f].state # "absent"
    /\ job'[f].owner = claims + 1 /\ claims' = claims + 1
    /\ ckpt'[f] = ckpt[f] /\ indexed'[f] = indexed[f]
RowRenewed(f) ==
    /\ job'[f].elems = NoDoc /\ job'[f].phase = "discovered"
    /\ job'[f].state # "running" /\ job'[f].owner = 0 /\ ckpt'[f].task = 0
    /\ job'[f].state # "absent" => job'[f].doc \in Docs
    /\ \/ indexed'[f].elems = indexed[f].elems /\ indexed'[f].doc = indexed[f].doc
       \/ indexed'[f].elems = NoDoc /\ indexed'[f].doc = NoDoc
       \/ /\ indexed'[f].elems = job[f].elems /\ indexed'[f].doc = job[f].doc
          /\ job[f].phase # "discovered"
RowConverted(f) ==
    /\ job'[f].doc = job[f].doc /\ job'[f].owner = job[f].owner
    /\ job'[f].state = job[f].state /\ job[f].state = "running"
    /\ ckpt'[f].task = 0 /\ indexed'[f] = indexed[f]
    /\ \E w \in Workers : /\ wk[w].pc = "store" /\ wk[w].file = f
                          /\ job[f].owner = wk[w].owner
                          /\ job'[f].elems = wk[w].elems
RowRecorded(f) ==
    /\ job'[f] = job[f] /\ indexed'[f] = indexed[f]
    /\ \E w \in Workers : /\ wk[w].pc = "record" /\ wk[w].file = f
                          /\ job[f].state = "running" /\ job[f].owner = wk[w].owner
                          /\ ckpt'[f].task = wk[w].task
RowStep(f) == RowUpdated(f) \/ RowClaimed(f) \/ RowRenewed(f) \/ RowConverted(f)
              \/ RowRecorded(f)

\* ... to the record of a worker ...
Continues(w) ==
    /\ wk'[w].doc = wk[w].doc /\ wk'[w].elems = wk[w].elems
    /\ wk'[w].owner = wk[w].owner /\ wk'[w].file = wk[w].file
    /\ wk'[w].task \in {0, wk[w].task}
    /\ wk'[w].pc \in DocSteps => wk[w].pc \in DocSteps
    /\ wk'[w].pc = "store" => wk[w].pc = "store"
    /\ wk'[w].pc # "idle" => wk[w].pc # "idle"
Leaves(w) ==
    /\ wk'[w].pc \notin DocSteps \cup {"store"}
    /\ wk'[w].task = 0 /\ wk'[w].owner \in {0, wk[w].owner}
Claims(w) ==
    /\ wk'[w].owner = claims + 1 /\ claims' = claims + 1 /\ wk'[w].task = 0
    /\ LET f == wk'[w].file IN
          /\ f \in Files /\ job[f].state # "absent" /\ job'[f].doc = job[f].doc
          /\ wk'[w].pc \in DocSteps => wk'[w].doc = job[f].doc
          /\ wk'[w].pc = "store" => wk'[w].elems = job[f].doc
Opens(w) ==
    /\ wk[w].pc = "open" /\ wk'[w].pc \in TaskSteps /\ wk'[w].doc = wk[w].doc
    /\ wk'[w].owner = wk[w].owner /\ wk'[w].file = wk[w].file
    /\ \/ wk'[w].task = tasks + 1 /\ tasks' = tasks + 1
       \/ /\ Holds(w) /\ wk'[w].task = ckpt[wk[w].file].task
          /\ wk'[w].task \in TaskIds
Fetches(w) ==
    /\ wk[w].pc = "watch" /\ wk'[w].pc = "store" /\ wk'[w].task = 0
    /\ wk'[w].owner = wk[w].owner /\ wk'[w].file = wk[w].file
    /\ wk'[w].elems = remote[wk[w].task].doc /\ remote[wk[w].task].status # "unknown"
WorkerMove(w) == Continues(w) \/ Leaves(w) \/ Claims(w) \/ Opens(w) \/ Fetches(w)

\* ... and to a task of a Docling service.
TaskMove(t) ==
    \/ /\ remote'[t].doc = remote[t].doc
       /\ remote'[t].status # "unknown" => remote[t].status # "unknown"
    \/ remote'[t].doc = NoDoc /\ remote'[t].status = "unknown"
    \/ \E w \in Workers : /\ wk[w].pc = "submit" /\ wk[w].task = t
                          /\ remote'[t].doc = wk[w].doc

SourceStep ==
    /\ claims' \in {claims, claims + 1} /\ tasks' \in {tasks, tasks + 1}
    /\ \A f \in Files : RowStep(f)
    /\ \A w \in Workers : WorkerMove(w)
    /\ \A v, w \in Workers : v = w \/ wk'[v] = wk[v] \/ wk'[w] = wk[w]
    /\ \A t \in TaskIds : TaskMove(t)

LEMMA Numbers ==
  ASSUME Typed
  PROVE  /\ claims \in Nat /\ tasks \in Nat /\ NoDoc \notin Docs
         /\ \A f \in Files : job[f].owner \in Nat
         /\ \A w \in Workers : wk[w].owner \in Nat
         /\ \A t \in TaskIds : t \in Nat \ {0}
         /\ \A t \in TaskIds : remote[t].doc \in Docs \cup {NoDoc}
  BY ConstantsAssumption DEF Typed, TypeOK, Job, Worker, TaskIds, RemoteTask, AnyDoc

LEMMA ContentsKept == Typed /\ Sources /\ SourceStep => ContentsOK'
  <1> SUFFICES ASSUME Typed, Sources, SourceStep, NEW f \in Files
               PROVE  ContentOK(job'[f], indexed'[f])
    BY DEF ContentsOK
  <1>1. ContentOK(job[f], indexed[f])
    BY DEF Sources, ContentsOK
  <1>2. CASE RowUpdated(f)
    BY <1>1, <1>2 DEF RowUpdated, ContentOK
  <1>3. CASE RowClaimed(f)
    BY <1>1, <1>3 DEF RowClaimed, ContentOK
  <1>4. CASE RowRenewed(f)
    BY <1>1, <1>4 DEF RowRenewed, ContentOK
  <1>5. CASE RowConverted(f)
    <2>1. PICK w \in Workers : /\ wk[w].pc = "store" /\ wk[w].file = f
                               /\ job[f].owner = wk[w].owner
                               /\ job'[f].elems = wk[w].elems
      BY <1>5 DEF RowConverted
    <2>2. job'[f].elems = job[f].doc
      BY <1>5, <2>1 DEF RowConverted, Sources, LeasesOK, Sourced
    <2>3. QED
      BY <1>1, <1>5, <2>2 DEF RowConverted, ContentOK
  <1>6. CASE RowRecorded(f)
    BY <1>1, <1>6 DEF RowRecorded, ContentOK
  <1> QED
    BY <1>2, <1>3, <1>4, <1>5, <1>6 DEF SourceStep, RowStep

\* Only a task id that nobody has used yet is spoken of anew.
LEMMA NothingNewIsSaid ==
  ASSUME Typed, Sources, SourceStep, NEW t \in TaskIds, NEW d \in Docs, Says(t, d)'
  PROVE  \/ Says(t, d)
         \/ /\ t = tasks + 1 /\ tasks' = tasks + 1
            /\ \E w \in Workers : wk'[w].task = t /\ wk'[w].doc = d /\ wk'[w] # wk[w]
  <1>n. t # 0 /\ d # NoDoc
    BY Numbers
  <1>1. CASE remote'[t].doc = d
    <2>1. TaskMove(t)
      BY DEF SourceStep
    <2>2. QED
      BY <1>1, <1>n, <2>1 DEF TaskMove, Says
  <1>2. ASSUME NEW w \in Workers, wk'[w].task = t, wk'[w].doc = d
        PROVE  \/ Says(t, d)
               \/ t = tasks + 1 /\ tasks' = tasks + 1 /\ wk'[w] # wk[w]
    <2>1. WorkerMove(w)
      BY DEF SourceStep
    <2>2. CASE Continues(w)
      BY <1>2, <1>n, <2>2 DEF Continues, Says
    <2>3. CASE Leaves(w) \/ Claims(w) \/ Fetches(w)
      BY <1>2, <1>n, <2>3 DEF Leaves, Claims, Fetches
    <2>4. CASE Opens(w)
      <3>1. CASE Holds(w) /\ wk'[w].task = ckpt[wk[w].file].task
        <4>1. wk[w].file \in Files
          BY <2>4 DEF Opens, Typed, WorkerOK
        <4>2. Sourced(wk[w], job[wk[w].file]) /\ wk[w].pc \in DocSteps
          BY <2>4 DEF Opens, Sources, LeasesOK, DocSteps
        <4>3. wk[w].doc = job[wk[w].file].doc
          BY <3>1, <4>2 DEF Holds, Sourced
        <4>4. QED
          BY <1>2, <2>4, <3>1, <4>1, <4>3 DEF Opens, Says
      <3>2. QED
        BY <1>2, <2>4, <3>1 DEF Opens, TaskSteps
    <2>5. QED
      BY <2>1, <2>2, <2>3, <2>4 DEF WorkerMove
  <1>3. ASSUME NEW f \in Files, ckpt'[f].task = t, job'[f].doc = d
        PROVE  Says(t, d)
    <2>1. RowStep(f)
      BY DEF SourceStep
    <2>2. CASE RowUpdated(f) \/ RowClaimed(f)
      BY <1>3, <1>n, <2>2 DEF RowUpdated, RowClaimed, Says
    <2>3. CASE RowRenewed(f) \/ RowConverted(f)
      BY <1>3, <1>n, <2>3 DEF RowRenewed, RowConverted
    <2>4. CASE RowRecorded(f)
      <3>1. PICK w \in Workers :
               /\ wk[w].pc = "record" /\ wk[w].file = f /\ ckpt'[f].task = wk[w].task
               /\ job[f].state = "running" /\ job[f].owner = wk[w].owner
        BY <2>4 DEF RowRecorded
      <3>2. Sourced(wk[w], job[f]) /\ wk[w].pc \in DocSteps
        BY <3>1 DEF Sources, LeasesOK, DocSteps, TaskSteps
      <3>3. wk[w].doc = job[f].doc
        BY <3>1, <3>2 DEF Sourced
      <3>4. QED
        BY <1>3, <2>4, <3>1, <3>3 DEF RowRecorded, Says
    <2>5. QED
      BY <2>1, <2>2, <2>3, <2>4 DEF RowStep
  <1>4. QED
    BY <1>1, <1>2, <1>3 DEF Says

LEMMA TasksStayAgreed == Typed /\ Sources /\ SourceStep => TasksAgree'
  <1> SUFFICES ASSUME Typed, Sources, SourceStep, NEW t \in TaskIds
               PROVE  TaskAgreed(t)'
    BY DEF TasksAgree
  <1>n. t \in Nat /\ tasks \in Nat
    BY Numbers
  <1>a. TaskAgreed(t)
    BY DEF Sources, TasksAgree
  <1>1. ASSUME NEW d \in Docs, Says(t, d)' PROVE t <= tasks'
    BY <1>1, <1>a, <1>n, NothingNewIsSaid DEF TaskAgreed, SourceStep
  <1>2. ASSUME NEW d \in Docs, NEW e \in Docs, Says(t, d)', Says(t, e)'
        PROVE  d = e
    <2>1. CASE t <= tasks
      BY <1>2, <1>a, <1>n, <2>1, NothingNewIsSaid DEF TaskAgreed
    <2>2. CASE ~(t <= tasks)
      <3>1. PICK v \in Workers : wk'[v].task = t /\ wk'[v].doc = d /\ wk'[v] # wk[v]
        BY <1>2, <1>a, <2>2, NothingNewIsSaid DEF TaskAgreed
      <3>2. PICK w \in Workers : wk'[w].task = t /\ wk'[w].doc = e /\ wk'[w] # wk[w]
        BY <1>2, <1>a, <2>2, NothingNewIsSaid DEF TaskAgreed
      <3>3. QED
        BY <3>1, <3>2 DEF SourceStep
    <2>3. QED
      BY <2>1, <2>2
  <1>3. ASSUME remote'[t].status # "unknown" PROVE remote'[t].doc \in Docs
    <2>1. TaskMove(t)
      BY DEF SourceStep
    <2>2. CASE remote'[t].doc = remote[t].doc /\ remote[t].status # "unknown"
      BY <1>a, <2>2 DEF TaskAgreed
    <2>3. ASSUME NEW w \in Workers, wk[w].pc = "submit", remote'[t].doc = wk[w].doc
          PROVE  remote'[t].doc \in Docs
      BY <2>3 DEF Sources, LeasesOK, DocSteps, TaskSteps
    <2>4. QED
      BY <1>3, <2>1, <2>2, <2>3 DEF TaskMove
  <1>4. QED
    BY <1>1, <1>2, <1>3 DEF TaskAgreed

\* Whoever holds a job after a step held it before, or has just claimed it.
LEMMA HoldersLast ==
  ASSUME Typed, RowsOK, Sources, SourceStep, NEW f \in Files, NEW w \in Workers,
         wk'[w].owner = wk[w].owner, job'[f].state = "running",
         job'[f].owner = wk[w].owner
  PROVE  /\ job[f].state = "running" /\ job[f].owner = wk[w].owner
         /\ job'[f].doc = job[f].doc
  <1>1. RowStep(f) /\ wk[w].owner <= claims /\ claims \in Nat /\ wk[w].owner \in Nat
    BY Numbers DEF SourceStep, Sources, LeasesOK
  <1>2. ~RowClaimed(f) /\ ~RowRenewed(f)
    BY <1>1 DEF RowClaimed, RowRenewed
  <1>3. QED
    BY <1>1, <1>2 DEF RowStep, RowUpdated, RowConverted, RowRecorded

LEMMA LeasesKept ==
  Typed /\ Typed' /\ RowsOK /\ Sources /\ SourceStep => LeasesOK'
  <1> SUFFICES ASSUME Typed, Typed', RowsOK, Sources, SourceStep PROVE LeasesOK'
    OBVIOUS
  <1>n. claims \in Nat /\ claims' \in Nat /\ claims <= claims'
    BY Numbers DEF SourceStep
  <1>1. ASSUME NEW f \in Files PROVE job'[f].owner <= claims'
    <2>1. RowStep(f) /\ job[f].owner <= claims /\ job[f].owner \in Nat
      BY Numbers DEF SourceStep, Sources, LeasesOK
    <2>2. job'[f].owner \in {0, job[f].owner} \/ job'[f].owner = claims'
      BY <2>1 DEF RowStep, RowUpdated, RowClaimed, RowRenewed, RowConverted, RowRecorded
    <2>3. QED
      BY <1>n, <2>1, <2>2
  <1>2. ASSUME NEW w \in Workers
        PROVE  /\ wk'[w].owner <= claims'
               /\ wk'[w].pc \in DocSteps => wk'[w].doc \in Docs
               /\ wk'[w].pc # "idle" => Sourced(wk'[w], job'[wk'[w].file])
    <2>t. /\ WorkerMove(w) /\ wk[w].owner \in Nat /\ wk[w].owner <= claims
          /\ wk[w].pc \in DocSteps => wk[w].doc \in Docs
          /\ wk[w].pc # "idle" => /\ wk[w].file \in Files
                                  /\ Sourced(wk[w], job[wk[w].file])
      BY Numbers DEF SourceStep, Sources, LeasesOK, Typed, WorkerOK
    <2>h. ASSUME wk'[w].owner = wk[w].owner, wk'[w].file = wk[w].file, wk[w].pc # "idle",
                 job'[wk[w].file].state = "running", job'[wk[w].file].owner = wk'[w].owner
          PROVE  /\ job[wk[w].file].state = "running"
                 /\ job[wk[w].file].owner = wk[w].owner
                 /\ job'[wk[w].file].doc = job[wk[w].file].doc
      BY <2>h, <2>t, HoldersLast
    <2>1. CASE Continues(w)
      <3>1. wk'[w].owner <= claims'
        BY <1>n, <2>1, <2>t DEF Continues
      <3>2. wk'[w].pc \in DocSteps => wk'[w].doc \in Docs
        BY <2>1, <2>t DEF Continues
      <3>3. ASSUME wk'[w].pc # "idle" PROVE Sourced(wk'[w], job'[wk'[w].file])
        BY <2>1, <2>h, <2>t, <3>3 DEF Continues, Sourced
      <3>4. QED
        BY <3>1, <3>2, <3>3
    <2>2. CASE Leaves(w)
      BY <1>n, <2>2, <2>t DEF Leaves, Sourced
    <2>3. CASE Claims(w)
      <3>1. job[wk'[w].file].doc \in Docs
        BY <2>3 DEF Claims, Sources, ContentsOK, ContentOK
      <3>2. QED
        BY <1>n, <2>3, <3>1 DEF Claims, Sourced
    <2>4. CASE Opens(w)
      <3>1. wk[w].pc \in DocSteps /\ wk[w].pc # "idle" /\ wk'[w].pc # "store"
        BY <2>4 DEF Opens, DocSteps, TaskSteps
      <3>2. wk'[w].owner <= claims' /\ wk'[w].doc \in Docs
        BY <1>n, <2>4, <2>t, <3>1 DEF Opens
      <3>3. Sourced(wk'[w], job'[wk'[w].file])
        BY <2>4, <2>h, <2>t, <3>1 DEF Opens, Sourced
      <3>4. QED
        BY <3>2, <3>3
    <2>5. CASE Fetches(w)
      <3> DEFINE t == wk[w].task
      <3>1. /\ wk[w].pc \in DocSteps /\ wk[w].pc # "idle" /\ t \in TaskIds
            /\ wk'[w].pc \notin DocSteps
        BY <2>5 DEF Fetches, DocSteps, TaskSteps, Typed, WorkerOK
      <3>2. TaskAgreed(t) /\ wk[w].doc \in Docs
        BY <2>t, <3>1 DEF Sources, TasksAgree
      <3>3. remote[t].doc \in Docs /\ Says(t, remote[t].doc) /\ Says(t, wk[w].doc)
        BY <2>5, <3>2 DEF Fetches, TaskAgreed, Says
      <3>4. wk'[w].elems = wk[w].doc
        BY <2>5, <3>2, <3>3 DEF Fetches, TaskAgreed
      <3>5. Sourced(wk'[w], job'[wk'[w].file])
        BY <2>5, <2>h, <2>t, <3>1, <3>4 DEF Fetches, Sourced
      <3>6. QED
        BY <1>n, <2>5, <2>t, <3>1, <3>5 DEF Fetches
    <2>6. QED
      BY <2>1, <2>2, <2>3, <2>4, <2>5, <2>t DEF WorkerMove
  <1>3. QED
    BY <1>1, <1>2 DEF LeasesOK

LEMMA InitSources == Init => Sources
  <1> SUFFICES ASSUME Init PROVE Sources
    OBVIOUS
  <1>1. /\ NoJob.state = "absent" /\ NoJob.phase = "discovered" /\ NoJob.owner = 0
        /\ NoJob.elems = NoDoc /\ NoJob.doc = NoDoc
        /\ NotIndexed.elems = NoDoc /\ NotIndexed.doc = NoDoc /\ NoCkpt.task = 0
    BY DEF NoJob, NotIndexed, NoCkpt
  <1>2. IdleWorker.pc = "idle" /\ IdleWorker.owner = 0 /\ IdleWorker.task = 0
    BY DEF IdleWorker
  <1>3. /\ \A f \in Files : job[f] = NoJob /\ indexed[f] = NotIndexed /\ ckpt[f] = NoCkpt
        /\ \A w \in Workers : wk[w] = IdleWorker
        /\ \A t \in TaskIds : remote[t].status = "unknown" /\ remote[t].doc = NoDoc
        /\ claims = 0
    BY DEF Init
  <1>4. LeasesOK
    BY <1>1, <1>2, <1>3 DEF LeasesOK, DocSteps, TaskSteps
  <1>5. ContentsOK
    BY <1>1, <1>3 DEF ContentsOK, ContentOK
  <1>6. \A t \in TaskIds, d \in Docs : ~Says(t, d)
    BY <1>1, <1>2, <1>3, ConstantsAssumption DEF Says, TaskIds
  <1>7. TasksAgree
    BY <1>3, <1>6 DEF TasksAgree, TaskAgreed
  <1> QED
    BY <1>4, <1>5, <1>7 DEF Sources

\* The parts of a step that touch nothing, one file, one worker or one task.
LEMMA NoRowMoves ==
  ASSUME UNCHANGED <<job, ckpt, indexed>>
  PROVE  \A f \in Files : RowStep(f)
  BY DEF RowStep, RowUpdated

LEMMA OneRowMoves ==
  ASSUME Typed, NEW f \in Files, RowStep(f),
         job' = job \/ \E r : job' = [job EXCEPT ![f] = r],
         ckpt' = ckpt \/ \E k : ckpt' = [ckpt EXCEPT ![f] = k],
         indexed' = indexed \/ \E i : indexed' = [indexed EXCEPT ![f] = i]
  PROVE  \A g \in Files : RowStep(g)
  <1>1. ASSUME NEW g \in Files \ {f} PROVE RowUpdated(g)
    <2>1. job'[g] = job[g] /\ ckpt'[g] = ckpt[g] /\ indexed'[g] = indexed[g]
      BY DEF Typed, TypeOK
    <2>2. QED
      BY <2>1 DEF RowUpdated
  <1>2. QED
    BY <1>1 DEF RowStep

\* A job that is replaced by r and keeps its content.
LEMMA RowUpdates ==
  ASSUME Typed, NEW f \in Files, NEW r, job' = [job EXCEPT ![f] = r],
         job[f].state # "absent", r.doc = job[f].doc, r.elems = job[f].elems,
         r.phase # "discovered" => job[f].phase # "discovered",
         r.owner \in {0, job[f].owner},
         r.state = "running" => job[f].state = "running" /\ r.owner = job[f].owner,
         ckpt' = ckpt \/ ckpt' = [ckpt EXCEPT ![f] = NoCkpt], indexed' = indexed
  PROVE  \A g \in Files : RowStep(g)
  <1>1. job'[f] = r /\ ckpt'[f].task \in {0, ckpt[f].task} /\ indexed'[f] = indexed[f]
    BY DEF Typed, TypeOK, NoCkpt
  <1>2. RowUpdated(f)
    BY <1>1 DEF RowUpdated
  <1>3. QED
    BY <1>2, OneRowMoves DEF RowStep

WorkersMove ==
    /\ \A w \in Workers : WorkerMove(w)
    /\ \A v, w \in Workers : v = w \/ wk'[v] = wk[v] \/ wk'[w] = wk[w]

LEMMA NoWorkerMoves ==
  ASSUME wk' = wk
  PROVE  WorkersMove
  BY DEF WorkersMove, WorkerMove, Continues

LEMMA OneWorkerMoves ==
  ASSUME Typed, NEW w \in Workers, NEW q, wk' = [wk EXCEPT ![w] = q],
         wk'[w] = q => WorkerMove(w)
  PROVE  WorkersMove
  <1>1. wk'[w] = q /\ \A v \in Workers \ {w} : wk'[v] = wk[v]
    BY DEF Typed, TypeOK
  <1>2. \A v \in Workers \ {w} : Continues(v)
    BY <1>1 DEF Continues
  <1>3. QED
    BY <1>1, <1>2 DEF WorkersMove, WorkerMove

LEMMA GoToMoves ==
  ASSUME Typed, NEW w \in Workers, NEW p \in Positions, wk' = GoTo(w, p),
         wk[w].pc # "idle", p \in DocSteps => wk[w].pc \in DocSteps,
         p # "store"
  PROVE  WorkersMove
  <1> DEFINE q == At(wk[w], p)
  <1>1. wk[w] \in Worker
    BY DEF Typed, TypeOK
  <1>2. /\ q.pc = p /\ q.file = wk[w].file /\ q.owner = wk[w].owner
        /\ q.task = wk[w].task /\ q.doc = wk[w].doc /\ q.elems = wk[w].elems
    BY <1>1, AtRow
  <1>3. wk' = [wk EXCEPT ![w] = q]
    BY DEF GoTo
  <1> HIDE DEF q
  <1>4. wk'[w] = q => Continues(w)
    BY <1>2 DEF Continues
  <1>5. QED
    BY <1>3, <1>4, OneWorkerMoves DEF WorkerMove

LEMMA LeftMoves ==
  ASSUME Typed, NEW w \in Workers, NEW p \in Positions, NEW e \in AnyDoc,
         NEW sig \in Signals, wk' = [wk EXCEPT ![w] = Left(wk[w], p, e, sig)],
         p \notin DocSteps \cup {"store"}
  PROVE  WorkersMove
  <1> DEFINE q == Left(wk[w], p, e, sig)
  <1>1. wk[w] \in Worker
    BY DEF Typed, TypeOK
  <1>2. q.pc = p /\ q.task = 0 /\ q.owner = wk[w].owner
    BY <1>1, LeftRow
  <1> HIDE DEF q
  <1>3. wk'[w] = q => Leaves(w)
    BY <1>2 DEF Leaves
  <1>4. QED
    BY <1>3, OneWorkerMoves DEF WorkerMove, q

LEMMA LeaveMoves ==
  ASSUME Typed, NEW w \in Workers, NEW p \in Positions \ (DocSteps \cup {"store"}),
         wk' = Leave(w, p) \/ wk' = HandTo(w, p)
  PROVE  WorkersMove
  <1>1. wk[w].signal \in Signals /\ "none" \in Signals /\ NoDoc \in AnyDoc
    BY DEF Typed, TypeOK, Worker, AnyDoc, Signals
  <1>2. QED
    BY <1>1, LeftMoves DEF Leave, HandTo

LEMMA IdleMoves ==
  ASSUME Typed, NEW w \in Workers, wk' = GoIdle(w)
  PROVE  WorkersMove
  <1>1. IdleWorker.pc = "idle" /\ IdleWorker.owner = 0 /\ IdleWorker.task = 0
    BY DEF IdleWorker
  <1>2. wk'[w] = IdleWorker => Leaves(w)
    BY <1>1 DEF Leaves, DocSteps, TaskSteps
  <1>3. QED
    BY <1>2, OneWorkerMoves DEF WorkerMove, GoIdle

LEMMA NoTaskMoves ==
  ASSUME remote' = remote
  PROVE  \A t \in TaskIds : TaskMove(t)
  BY DEF TaskMove

LEMMA OneTaskMoves ==
  ASSUME Typed, NEW t \in TaskIds, NEW status, NEW d,
         remote' = [remote EXCEPT ![t] = [status |-> status, doc |-> d]],
         \/ d = remote[t].doc /\ (status # "unknown" => remote[t].status # "unknown")
         \/ d = NoDoc /\ status = "unknown"
         \/ \E w \in Workers : wk[w].pc = "submit" /\ wk[w].task = t /\ d = wk[w].doc
  PROVE  \A u \in TaskIds : TaskMove(u)
  <1>1. \A u \in TaskIds \ {t} : remote'[u] = remote[u]
    BY DEF Typed, TypeOK
  <1>2. remote'[t].status = status /\ remote'[t].doc = d
    BY DEF Typed, TypeOK
  <1>3. QED
    BY <1>1, <1>2 DEF TaskMove

LEMMA Sourcing ==
  ASSUME claims' \in {claims, claims + 1}, tasks' \in {tasks, tasks + 1}, WorkersMove,
         \A f \in Files : RowStep(f), \A t \in TaskIds : TaskMove(t)
  PROVE  SourceStep
  BY DEF SourceStep, WorkersMove

LEMMA ClientSources == Clis = {} /\ Typed /\ RowsOK /\ ClientStep => SourceStep
  <1> SUFFICES ASSUME Clis = {}, Typed, RowsOK, ClientStep PROVE SourceStep
    OBVIOUS
  <1>t. \A f \in Files : job[f] \in Job /\ job[f].service \in AnyService
    BY DEF Typed, TypeOK, Job
  <1>d. Docs \subseteq AnyDoc /\ NoService \in AnyService /\ gens \in Nat
    BY DEF AnyDoc, AnyService, Typed, TypeOK
  <1>s. ASSUME UNCHANGED <<remote, wk, claims, tasks>>, \A f \in Files : RowStep(f)
        PROVE  SourceStep
    BY <1>s, NoWorkerMoves, NoTaskMoves, Sourcing
  <1>1. ASSUME NEW f \in Files, NEW d \in Docs, Upload(f, d) PROVE SourceStep
    <2> DEFINE r == ResetJob(job[f], d, NoService)
    <2>1. /\ r.state = "pending" /\ r.doc = d /\ r.phase = "discovered"
          /\ r.elems = NoDoc /\ r.owner = 0
      BY <1>t, <1>d, ResetJobRow
    <2>2. /\ job' = [job EXCEPT ![f] = r] /\ ckpt' = [ckpt EXCEPT ![f] = NoCkpt]
          /\ UNCHANGED <<indexed, remote, wk, claims, tasks>>
      BY <1>1 DEF Upload
    <2> HIDE DEF r
    <2>3. job'[f] = r /\ ckpt'[f] = NoCkpt /\ NoCkpt.task = 0
      BY <2>2 DEF Typed, TypeOK, NoCkpt
    <2>4. RowRenewed(f)
      BY <2>1, <2>2, <2>3 DEF RowRenewed
    <2>5. QED
      BY <1>s, <2>2, <2>4, OneRowMoves DEF RowStep
  <1>2. ASSUME NEW f \in Files, RequestPause(f) \/ RequestCancel(f) \/ ResumePaused(f)
        PROVE  SourceStep
    <2>1. PICK c \in ControlStates : job' = [job EXCEPT ![f] = Controlled(job[f], c)]
      BY <1>2 DEF RequestPause, RequestCancel, ResumePaused, ControlStates
    <2>2. /\ job[f].state # "absent"
          /\ UNCHANGED <<ckpt, indexed, remote, wk, claims, tasks>>
      BY <1>2 DEF RequestPause, RequestCancel, ResumePaused, ControlOnly
    <2> DEFINE r == Controlled(job[f], c)
    <2>3. /\ r.state = job[f].state /\ r.doc = job[f].doc /\ r.elems = job[f].elems
          /\ r.phase = job[f].phase /\ r.owner = job[f].owner
      BY <1>t, ControlledRow
    <2>4. job' = [job EXCEPT ![f] = r]
      BY <2>1
    <2> HIDE DEF r
    <2>5. \A g \in Files : RowStep(g)
      BY <2>2, <2>3, <2>4, RowUpdates
    <2>6. QED
      BY <1>s, <2>2, <2>5
  <1>3. ASSUME NEW f \in Files, RetryFailed(f) PROVE SourceStep
    <2> DEFINE r == Retried(job[f])
    <2>1. /\ r.state = "pending" /\ r.doc = job[f].doc /\ r.elems = job[f].elems
          /\ r.phase = job[f].phase /\ r.owner = job[f].owner
      BY <1>t, RetriedRow
    <2>2. /\ job[f].state # "absent" /\ job' = [job EXCEPT ![f] = r]
          /\ UNCHANGED <<ckpt, indexed, remote, wk, claims, tasks>>
      BY <1>3 DEF RetryFailed, ControlOnly
    <2> HIDE DEF r
    <2>3. QED
      BY <1>s, <2>1, <2>2, RowUpdates
  <1>4. ASSUME NEW f \in Files, DeleteDocument(f) PROVE SourceStep
    <2>1. /\ job' = [job EXCEPT ![f] = NoJob] /\ ckpt' = [ckpt EXCEPT ![f] = NoCkpt]
          /\ indexed' = [indexed EXCEPT ![f] = NotIndexed]
          /\ UNCHANGED <<remote, wk, claims, tasks>>
      BY <1>4 DEF DeleteDocument
    <2>2. job'[f] = NoJob /\ ckpt'[f] = NoCkpt /\ indexed'[f] = NotIndexed
      BY <2>1 DEF Typed, TypeOK
    <2>3. RowRenewed(f)
      BY <2>2 DEF RowRenewed, NoJob, NoCkpt, NotIndexed
    <2>4. QED
      BY <1>s, <2>1, <2>3, OneRowMoves DEF RowStep
  <1> QED
    BY <1>1, <1>2, <1>3, <1>4 DEF ClientStep

LEMMA ClaimSources ==
  ASSUME Typed, NEW w \in Workers, NEW f \in Files, Claim(w, f), job[f].state # "absent"
  PROVE  SourceStep
  <1>t. job[f] \in Job /\ claims + 1 \in Nat
    BY DEF Typed, TypeOK
  <1>c. /\ claims' = claims + 1
        /\ UNCHANGED <<ckpt, indexed, remote, tasks>>
    BY DEF Claim
  <1> DEFINE r == Leased(job[f], claims + 1)
             q == Claimant(job[f], f, claims + 1)
  <1>1. /\ r.owner = claims + 1 /\ r.doc = job[f].doc /\ r.elems = job[f].elems
        /\ r.phase = job[f].phase
    BY <1>t, LeasedRow
  <1>2. /\ q.pc \in {"index", "promote", "store", "assign"} /\ q.task = 0
        /\ q.file = f /\ q.owner = claims + 1
        /\ q.pc = "assign" => q.doc = job[f].doc
        /\ q.pc = "store" => q.elems = job[f].doc
    BY <1>t, ClaimantRow
  <1>3. job' = [job EXCEPT ![f] = r] /\ wk' = [wk EXCEPT ![w] = q]
    BY DEF Claim
  <1> HIDE DEF r, q
  <1>4. job'[f] = r /\ wk'[w] = q
    BY <1>3 DEF Typed, TypeOK
  <1>5. RowClaimed(f)
    BY <1>1, <1>4, <1>c DEF RowClaimed
  <1>6. Claims(w)
    BY <1>1, <1>2, <1>4, <1>c DEF Claims, DocSteps, TaskSteps
  <1>7. \A g \in Files : RowStep(g)
    BY <1>3, <1>5, <1>c, OneRowMoves DEF RowStep
  <1>8. WorkersMove
    BY <1>3, <1>6, OneWorkerMoves DEF WorkerMove
  <1>9. QED
    BY <1>7, <1>8, <1>c, NoTaskMoves, Sourcing

LEMMA DoclingSources ==
  ASSUME Typed, RowsOK, NEW w \in Workers,
         \/ \E s \in Services : EnsureAssignment(w, s)
         \/ OpenTask(w) \/ RecordTask(w) \/ ResumeTask(w) \/ SubmitTask(w)
         \/ FetchResult(w) \/ TaskEnded(w) \/ TerminateTask(w) \/ ClearTask(w)
  PROVE  SourceStep
  <1> DEFINE f == wk[w].file
  <1>p. /\ {"catch"} \subseteq Positions \ (DocSteps \cup {"store"})
        /\ {"submit", "watch", "clear"} \subseteq Positions \ {"store"}
        /\ {"open", "record", "resume_task", "submit", "watch", "clear"} \subseteq DocSteps
    BY PositionNames DEF DocSteps, TaskSteps
  <1>t. /\ wk[w] \in Worker /\ wk[w].service \in AnyService /\ wk[w].signal \in Signals
        /\ wk[w].pc # "idle" => f \in Files /\ job[f] \in Job /\ ckpt[f] \in Checkpoint
        /\ wk[w].pc \in TaskSteps => wk[w].task \in TaskIds
    BY DEF Typed, TypeOK, WorkerOK, Worker
  <1>1. ASSUME NEW s \in Services, EnsureAssignment(w, s) PROVE SourceStep
    <2> DEFINE r == Assigned(job[f], s)
               q == With(wk[w], "open", s, 0)
    <2>1. s \in AnyService /\ 0 \in AnyTask /\ "open" \in Positions /\ wk[w].pc = "assign"
      BY <1>1, PositionNames DEF AnyService, AnyTask, EnsureAssignment
    <2>2. /\ r.state = job[f].state /\ r.doc = job[f].doc /\ r.elems = job[f].elems
          /\ r.phase = job[f].phase /\ r.owner = job[f].owner
      BY <1>t, <2>1, AssignedRow
    <2>3. /\ q.pc = "open" /\ q.file = f /\ q.owner = wk[w].owner /\ q.task = 0
          /\ q.doc = wk[w].doc /\ q.elems = wk[w].elems
      BY <1>t, <2>1, WithRow
    <2>4. /\ job' = [job EXCEPT ![f] = r] /\ wk' = [wk EXCEPT ![w] = q]
          /\ job[f].state # "absent" /\ UNCHANGED <<ckpt, indexed, remote, claims, tasks>>
      BY <1>1 DEF EnsureAssignment, Owned
    <2> HIDE DEF r, q
    <2>5. \A g \in Files : RowStep(g)
      BY <1>t, <2>1, <2>2, <2>4, RowUpdates
    <2>6. wk'[w] = q => Continues(w)
      BY <2>1, <2>3 DEF Continues, DocSteps
    <2>7. WorkersMove
      BY <2>4, <2>6, OneWorkerMoves DEF WorkerMove
    <2>8. QED
      BY <2>4, <2>5, <2>7, NoTaskMoves, Sourcing
  <1>2. ASSUME OpenTask(w) PROVE SourceStep
    <2>1. /\ wk[w].pc = "open" /\ UNCHANGED <<job, ckpt, indexed, remote, claims>>
          /\ tasks' \in {tasks, tasks + 1}
      BY <1>2 DEF OpenTask
    <2>s. WorkersMove => SourceStep
      BY <2>1, NoRowMoves, NoTaskMoves, Sourcing
    <2>2. ASSUME NEW p \in {"resume_task", "record"}, NEW t \in TaskIds,
                 wk' = [wk EXCEPT ![w] = With(wk[w], p, wk[w].service, t)],
                 \/ t = tasks + 1 /\ tasks' = tasks + 1
                 \/ Holds(w) /\ t = ckpt[f].task
          PROVE  WorkersMove
      <3> DEFINE q == With(wk[w], p, wk[w].service, t)
      <3>1. p \in Positions /\ t \in AnyTask
        BY PositionNames DEF AnyTask
      <3>2. /\ q.pc = p /\ q.file = f /\ q.owner = wk[w].owner /\ q.task = t
            /\ q.doc = wk[w].doc
        BY <1>t, <3>1, WithRow
      <3> HIDE DEF q
      <3>3. wk'[w] = q => Opens(w)
        BY <2>1, <2>2, <3>2 DEF Opens, TaskSteps
      <3>4. QED
        BY <2>2, <3>3, OneWorkerMoves DEF WorkerMove, q
    <2>3. CASE Owned(w) /\ HasCkpt(f)
      <3>1. ckpt[f].task \in TaskIds
        BY <1>t, <2>1, <2>3 DEF HasCkpt, Checkpoint, AnyTask
      <3>2. \/ wk' = Leave(w, "catch")
            \/ wk' = [wk EXCEPT ![w] = With(wk[w], "resume_task", wk[w].service,
                                            ckpt[f].task)]
        BY <1>2, <2>3 DEF OpenTask
      <3>3. Holds(w)
        BY <2>3 DEF Owned, Holds
      <3>4. QED
        BY <1>p, <2>2, <2>s, <3>1, <3>2, <3>3, LeaveMoves
    <2>4. CASE ~(Owned(w) /\ HasCkpt(f))
      <3>1. tasks + 1 \in TaskIds
        BY <1>2, <2>4, ConstantsAssumption DEF OpenTask, TaskIds, Typed, TypeOK
      <3>2. /\ wk' = [wk EXCEPT ![w] = With(wk[w], "record", wk[w].service, tasks + 1)]
            /\ tasks' = tasks + 1
        BY <1>2, <2>4 DEF OpenTask
      <3>3. QED
        BY <2>2, <2>s, <3>1, <3>2
    <2>5. QED
      BY <2>3, <2>4
  <1>3. ASSUME RecordTask(w) PROVE SourceStep
    <2> DEFINE k == [task |-> wk[w].task, service |-> wk[w].service]
    <2>1. wk[w].pc = "record" /\ f \in Files /\ UNCHANGED <<job, indexed, remote, claims, tasks>>
      BY <1>3, <1>t DEF RecordTask
    <2>2. WorkersMove
      BY <1>3, <1>p, <2>1, GoToMoves, LeaveMoves DEF RecordTask
    <2>3. CASE ckpt' = ckpt
      BY <2>1, <2>2, <2>3, NoRowMoves, NoTaskMoves, Sourcing
    <2>4. CASE Owned(w) /\ ckpt' = [ckpt EXCEPT ![f] = k]
      <3>1. ckpt'[f].task = wk[w].task
        BY <2>1, <2>4 DEF Typed, TypeOK
      <3>2. RowRecorded(f)
        BY <2>1, <2>4, <3>1 DEF RowRecorded, Owned
      <3>3. \A g \in Files : RowStep(g)
        BY <2>1, <2>4, <3>2, OneRowMoves DEF RowStep
      <3>4. QED
        BY <2>1, <2>2, <3>3, NoTaskMoves, Sourcing
    <2>5. QED
      BY <1>3, <2>3, <2>4 DEF RecordTask
  <1>4. ASSUME ResumeTask(w) \/ TaskEnded(w) PROVE SourceStep
    <2>1. /\ wk[w].pc \in {"resume_task", "watch"}
          /\ UNCHANGED <<job, ckpt, indexed, remote, claims, tasks>>
          /\ \/ wk' = GoTo(w, "submit") \/ wk' = GoTo(w, "watch") \/ wk' = GoTo(w, "clear")
             \/ wk' = Leave(w, "catch")
      BY <1>4 DEF ResumeTask, TaskEnded
    <2>2. WorkersMove
      BY <1>p, <2>1, GoToMoves, LeaveMoves
    <2>3. QED
      BY <2>1, <2>2, NoRowMoves, NoTaskMoves, Sourcing
  <1>5. ASSUME SubmitTask(w) PROVE SourceStep
    <2>1. /\ wk[w].pc = "submit" /\ UNCHANGED <<job, ckpt, indexed, claims, tasks>>
          /\ wk' = GoTo(w, "watch") \/ wk' = Leave(w, "catch")
          /\ \/ remote' = remote
             \/ remote' = [remote EXCEPT ![wk[w].task] = [status |-> "active",
                                                         doc |-> wk[w].doc]]
      BY <1>5 DEF SubmitTask
    <2>2. WorkersMove
      BY <1>p, <2>1, GoToMoves, LeaveMoves
    <2>3. \A t \in TaskIds : TaskMove(t)
      BY <1>t, <2>1, NoTaskMoves, OneTaskMoves DEF TaskSteps
    <2>4. QED
      BY <2>1, <2>2, <2>3, NoRowMoves, Sourcing
  <1>6. ASSUME FetchResult(w) PROVE SourceStep
    <2> DEFINE q == Left(wk[w], "store", remote[wk[w].task].doc, wk[w].signal)
    <2>1. /\ wk[w].pc = "watch" /\ UNCHANGED <<job, ckpt, indexed, remote, claims, tasks>>
          /\ wk' = [wk EXCEPT ![w] = q] /\ remote[wk[w].task].status = "done"
      BY <1>6 DEF FetchResult
    <2>2. remote[wk[w].task].doc \in AnyDoc /\ "store" \in Positions
      BY <1>t, <2>1, PositionNames DEF TaskSteps, Typed, TypeOK, RemoteTask
    <2>3. /\ q.pc = "store" /\ q.task = 0 /\ q.elems = remote[wk[w].task].doc
          /\ q.owner = wk[w].owner /\ q.file = wk[w].file
      BY <1>t, <2>2, LeftRow
    <2> HIDE DEF q
    <2>4. wk'[w] = q => Fetches(w)
      BY <2>1, <2>3 DEF Fetches
    <2>5. WorkersMove
      BY <2>1, <2>4, OneWorkerMoves DEF WorkerMove
    <2>6. QED
      BY <2>1, <2>5, NoRowMoves, NoTaskMoves, Sourcing
  <1>7. ASSUME TerminateTask(w) PROVE SourceStep
    <2>1. /\ wk[w].pc = "watch" /\ UNCHANGED <<job, ckpt, indexed, claims, tasks>>
          /\ wk' = GoTo(w, "clear") /\ remote[wk[w].task].status # "unknown"
          /\ remote' = [remote EXCEPT ![wk[w].task] =
                          [status |-> "terminated", doc |-> remote[wk[w].task].doc]]
      BY <1>7 DEF TerminateTask
    <2>2. WorkersMove
      BY <1>p, <2>1, GoToMoves
    <2>3. \A t \in TaskIds : TaskMove(t)
      BY <1>t, <2>1, OneTaskMoves DEF TaskSteps
    <2>4. QED
      BY <2>1, <2>2, <2>3, NoRowMoves, Sourcing
  <1>8. ASSUME ClearTask(w) PROVE SourceStep
    <2>1. /\ wk[w].pc = "clear" /\ UNCHANGED <<job, indexed, remote, claims, tasks>>
          /\ wk' = Leave(w, "catch")
          /\ ckpt' = ckpt \/ ckpt' = [ckpt EXCEPT ![f] = NoCkpt]
      BY <1>8 DEF ClearTask
    <2>2. f \in Files /\ ckpt'[f].task \in {0, ckpt[f].task}
      BY <1>t, <2>1 DEF Typed, TypeOK, NoCkpt
    <2>3. RowUpdated(f)
      BY <2>1, <2>2 DEF RowUpdated
    <2>4. \A g \in Files : RowStep(g)
      BY <2>1, <2>2, <2>3, OneRowMoves DEF RowStep
    <2>5. WorkersMove
      BY <1>p, <2>1, LeaveMoves
    <2>6. QED
      BY <2>1, <2>4, <2>5, NoTaskMoves, Sourcing
  <1> QED
    BY <1>1, <1>2, <1>3, <1>4, <1>5, <1>6, <1>7, <1>8

LEMMA PhaseSources ==
  ASSUME Typed, RowsOK, NEW w \in Workers,
         \/ CompleteNormalization(w) \/ ReadAdvanced(w) \/ CompleteIndexing(w)
         \/ Promote(w)
  PROVE  SourceStep
  <1> DEFINE f == wk[w].file
  <1>p. {"catch", "advance", "index", "promote"}
           \subseteq Positions \ (DocSteps \cup {"store"})
    BY PositionNames DEF DocSteps, TaskSteps
  <1>t. wk[w].pc # "idle" => f \in Files /\ job[f] \in Job
    BY DEF Typed, TypeOK, WorkerOK
  <1>s. ASSUME UNCHANGED <<remote, claims, tasks>>, WorkersMove,
               \A g \in Files : RowStep(g)
        PROVE  SourceStep
    BY <1>s, NoTaskMoves, Sourcing
  <1>1. ASSUME CompleteNormalization(w) PROVE SourceStep
    <2>1. /\ wk[w].pc = "store" /\ UNCHANGED <<indexed, remote, claims, tasks>>
          /\ wk' = Leave(w, "advance") \/ wk' = Leave(w, "catch")
      BY <1>1 DEF CompleteNormalization
    <2>2. f \in Files /\ job[f] \in Job /\ wk[w].elems \in AnyDoc
      BY <1>t, <2>1 DEF Typed, TypeOK, Worker
    <2>3. WorkersMove
      BY <1>p, <2>1, LeaveMoves
    <2> DEFINE r == Normalized(job[f], wk[w].elems)
    <2>4. /\ r.state = job[f].state /\ r.owner = job[f].owner /\ r.doc = job[f].doc
          /\ r.elems = wk[w].elems
      BY <2>2, NormalizedRow
    <2>5. CASE UNCHANGED <<job, ckpt>>
      BY <1>s, <2>1, <2>3, <2>5, NoRowMoves
    <2>6. CASE Owned(w) /\ job' = [job EXCEPT ![f] = r] /\ ckpt' = [ckpt EXCEPT ![f] = NoCkpt]
      <3> HIDE DEF r
      <3>1. job'[f] = r /\ ckpt'[f] = NoCkpt /\ NoCkpt.task = 0
        BY <2>2, <2>6 DEF Typed, TypeOK, NoCkpt
      <3>2. RowConverted(f)
        BY <2>1, <2>4, <2>6, <3>1 DEF RowConverted, Owned
      <3>3. \A g \in Files : RowStep(g)
        BY <2>1, <2>2, <2>6, <3>2, OneRowMoves DEF RowStep
      <3>4. QED
        BY <1>s, <2>1, <2>3, <3>3
    <2>7. QED
      BY <1>1, <2>5, <2>6 DEF CompleteNormalization
  <1>2. ASSUME ReadAdvanced(w) PROVE SourceStep
    <2>1. /\ wk[w].pc = "advance" /\ UNCHANGED <<job, ckpt, indexed, remote, claims, tasks>>
          /\ \/ wk' = Leave(w, "catch")
             \/ job[f].phase # "discovered" /\ wk' = GoTo(w, FirstStep(job[f]))
      BY <1>2 DEF ReadAdvanced
    <2>2. job[f].phase \in {"discovered", "normalized", "indexed"}
      BY <1>t, <2>1 DEF Job, Phases
    <2>3. job[f].phase # "discovered" => FirstStep(job[f]) \in {"index", "promote"}
      BY <2>2 DEF FirstStep
    <2>4. WorkersMove
      BY <1>p, <2>1, <2>3, GoToMoves, LeaveMoves
    <2>5. QED
      BY <1>s, <2>1, <2>4, NoRowMoves
  <1>3. ASSUME CompleteIndexing(w) PROVE SourceStep
    <2>1. /\ wk[w].pc = "index" /\ UNCHANGED <<ckpt, indexed, remote, claims, tasks>>
          /\ wk' = Leave(w, "advance") \/ wk' = Leave(w, "catch")
      BY <1>3 DEF CompleteIndexing
    <2>2. f \in Files /\ job[f] \in Job
      BY <1>t, <2>1
    <2>3. WorkersMove
      BY <1>p, <2>1, LeaveMoves
    <2> DEFINE r == FullyIndexed(job[f])
    <2>4. /\ r.state = job[f].state /\ r.owner = job[f].owner /\ r.doc = job[f].doc
          /\ r.elems = job[f].elems
      BY <2>2, FullyIndexedRow
    <2>5. CASE job' = job
      BY <1>s, <2>1, <2>3, <2>5, NoRowMoves
    <2>6. CASE Owned(w) /\ job[f].phase = "normalized" /\ job' = [job EXCEPT ![f] = r]
      <3> HIDE DEF r
      <3>1. job[f].state # "absent" /\ job[f].phase # "discovered"
        BY <2>6 DEF Owned
      <3>2. \A g \in Files : RowStep(g)
        BY <2>1, <2>2, <2>4, <2>6, <3>1, RowUpdates
      <3>3. QED
        BY <1>s, <2>1, <2>3, <3>2
    <2>7. QED
      BY <1>3, <2>5, <2>6 DEF CompleteIndexing
  <1>4. ASSUME Promote(w) PROVE SourceStep
    <2> DEFINE i == [version |-> indexed[f].version + 1, doc |-> job[f].doc,
                     elems |-> job[f].elems, gen |-> job[f].gen]
    <2>1. /\ wk[w].pc = "promote" /\ UNCHANGED <<remote, claims, tasks>>
          /\ wk' = GoIdle(w) \/ wk' = Leave(w, "catch")
      BY <1>4 DEF Promote
    <2>2. f \in Files
      BY <1>t, <2>1
    <2>3. WorkersMove
      BY <1>p, <2>1, LeaveMoves, IdleMoves
    <2>4. CASE UNCHANGED <<job, ckpt, indexed>>
      BY <1>s, <2>1, <2>3, <2>4, NoRowMoves
    <2>5. CASE /\ job[f].phase = "indexed" /\ job' = [job EXCEPT ![f] = NoJob]
               /\ ckpt' = [ckpt EXCEPT ![f] = NoCkpt] /\ indexed' = [indexed EXCEPT ![f] = i]
      <3>1. job'[f] = NoJob /\ ckpt'[f] = NoCkpt /\ indexed'[f] = i
        BY <2>2, <2>5 DEF Typed, TypeOK
      <3>2. RowRenewed(f)
        BY <2>5, <3>1 DEF RowRenewed, NoJob, NoCkpt
      <3>3. \A g \in Files : RowStep(g)
        BY <2>2, <2>5, <3>2, OneRowMoves DEF RowStep
      <3>4. QED
        BY <1>s, <2>1, <2>3, <3>3
    <2>6. QED
      BY <1>4, <2>4, <2>5 DEF Promote
  <1> QED
    BY <1>1, <1>2, <1>3, <1>4

LEMMA SettleSources ==
  ASSUME Typed, RowsOK, NEW w \in Workers, SettleStep(w) \/ Heartbeat(w) \/ Crash(w)
  PROVE  SourceStep
  <1> DEFINE f == wk[w].file
  <1>p. {"catch", "settle", "release", "fail"}
           \subseteq Positions \ (DocSteps \cup {"store"})
    BY PositionNames DEF DocSteps, TaskSteps
  <1>t. wk[w].pc # "idle" => f \in Files /\ job[f] \in Job
    BY DEF Typed, TypeOK, WorkerOK
  <1>s. ASSUME UNCHANGED <<remote, claims, tasks>>, WorkersMove,
               \A g \in Files : RowStep(g)
        PROVE  SourceStep
    BY <1>s, NoTaskMoves, Sourcing
  <1>1. ASSUME Fault(w) \/ Catch(w) \/ Crash(w) PROVE SourceStep
    <2>1. /\ UNCHANGED <<job, ckpt, indexed, remote, claims, tasks>>
          /\ \/ wk' = GoIdle(w) \/ wk' = Leave(w, "catch") \/ wk' = HandTo(w, "settle")
             \/ wk' = HandTo(w, "release") \/ wk' = HandTo(w, "fail")
      BY <1>1 DEF Fault, Catch, Crash
    <2>2. WorkersMove
      BY <1>p, <2>1, IdleMoves, LeaveMoves
    <2>3. QED
      BY <1>s, <2>1, <2>2, NoRowMoves
  <1>2. ASSUME Heartbeat(w) PROVE SourceStep
    <2>1. /\ UNCHANGED <<job, ckpt, indexed, remote, claims, tasks>>
          /\ \E sig \in Signals : wk' = [wk EXCEPT ![w] = Signalled(wk[w], sig)]
      BY <1>2 DEF Heartbeat, Signals
    <2>2. PICK sig \in Signals : wk' = [wk EXCEPT ![w] = Signalled(wk[w], sig)]
      BY <2>1
    <2> DEFINE q == Signalled(wk[w], sig)
    <2>3. wk[w] \in Worker
      BY DEF Typed, TypeOK
    <2>4. /\ q.pc = wk[w].pc /\ q.file = wk[w].file /\ q.owner = wk[w].owner
          /\ q.task = wk[w].task /\ q.doc = wk[w].doc /\ q.elems = wk[w].elems
      BY <2>3, SignalledRow
    <2> HIDE DEF q
    <2>5. wk'[w] = q => Continues(w)
      BY <2>4 DEF Continues
    <2>6. WorkersMove
      BY <2>2, <2>5, OneWorkerMoves DEF WorkerMove, q
    <2>7. QED
      BY <1>s, <2>1, <2>6, NoRowMoves
  <1>3. ASSUME NEW due \in BOOLEAN, NEW keep \in BOOLEAN,
               Release(w, due, keep) \/ MarkFailed(w, keep) \/ SettleOwned(w)
        PROVE  SourceStep
    <2> DEFINE c == SettledControl(f)
               s == ReleasedService(f, keep)
    <2>1. /\ wk[w].pc # "idle" /\ wk' = GoIdle(w)
          /\ UNCHANGED <<ckpt, indexed, remote, claims, tasks>>
      BY <1>3 DEF Release, MarkFailed, SettleOwned
    <2>2. f \in Files /\ job[f] \in Job /\ c \in ControlStates /\ s \in AnyService
      BY <1>t, <2>1, ReleasedColumns
    <2>3. \/ job' = job
          \/ /\ Owned(w)
             /\ \/ job' = [job EXCEPT ![f] = Released(job[f], due, c, s)]
                \/ job' = [job EXCEPT ![f] = Failed(job[f], c, s)]
                \/ job' = [job EXCEPT ![f] = ControlSettled(job[f])]
      BY <1>3 DEF Release, MarkFailed, SettleOwned
    <2> HIDE DEF c, s
    <2>4. WorkersMove
      BY <2>1, IdleMoves
    <2>5. ASSUME NEW r, job' = [job EXCEPT ![f] = r], Owned(w), r.doc = job[f].doc,
                 r.elems = job[f].elems, r.phase = job[f].phase, r.owner = 0,
                 r.state \in {"pending", "failed"}
          PROVE  SourceStep
      <3>1. job[f].state # "absent" /\ r.state # "running"
        BY <2>5 DEF Owned
      <3>2. QED
        BY <1>s, <2>1, <2>2, <2>4, <2>5, <3>1, RowUpdates
    <2>6. CASE job' = job
      BY <1>s, <2>1, <2>4, <2>6, NoRowMoves
    <2>7. CASE Owned(w) /\ job' = [job EXCEPT ![f] = Released(job[f], due, c, s)]
      <3> DEFINE r == Released(job[f], due, c, s)
      <3>1. /\ r.doc = job[f].doc /\ r.elems = job[f].elems /\ r.phase = job[f].phase
            /\ r.owner = 0 /\ r.state = "pending"
        BY <2>2, ReleasedRow
      <3>2. job' = [job EXCEPT ![f] = r]
        BY <2>7
      <3> HIDE DEF r
      <3>3. QED
        BY <2>5, <2>7, <3>1, <3>2
    <2>8. CASE Owned(w) /\ job' = [job EXCEPT ![f] = Failed(job[f], c, s)]
      <3> DEFINE r == Failed(job[f], c, s)
      <3>1. /\ r.doc = job[f].doc /\ r.elems = job[f].elems /\ r.phase = job[f].phase
            /\ r.owner = 0 /\ r.state \in {"pending", "failed"}
        BY <2>2, FailedRow
      <3>2. job' = [job EXCEPT ![f] = r]
        BY <2>8
      <3> HIDE DEF r
      <3>3. QED
        BY <2>5, <2>8, <3>1, <3>2
    <2>9. CASE Owned(w) /\ job' = [job EXCEPT ![f] = ControlSettled(job[f])]
      BY <2>2, <2>5, <2>9, ControlSettledRow
    <2>10. QED
      BY <2>3, <2>6, <2>7, <2>8, <2>9
  <1> QED
    BY <1>1, <1>2, <1>3 DEF SettleStep

LEMMA WorkerSources == Clis = {} /\ Typed /\ RowsOK /\ WorkerStep => SourceStep
  <1> SUFFICES ASSUME Clis = {}, Typed, RowsOK, WorkerStep PROVE SourceStep
    OBVIOUS
  <1>1. ASSUME NEW w \in Daemons, NEW f \in Files, ClaimNext(w, f) PROVE SourceStep
    BY <1>1, ClaimSources DEF ClaimNext, Due, Workers
  <1> QED
    BY <1>1, DoclingSources, PhaseSources, SettleSources DEF WorkerStep, WorkStep

LEMMA OtherSources ==
  ASSUME Typed, RowsOK, DesksOK, ReconcileStep \/ EnvironmentStep
  PROVE  SourceStep
  <1>t. \A f \in Files : job[f] \in Job
    BY DEF Typed, TypeOK
  <1>s. ASSUME UNCHANGED <<remote, wk, claims, tasks>>, \A f \in Files : RowStep(f)
        PROVE  SourceStep
    BY <1>s, NoWorkerMoves, NoTaskMoves, Sourcing
  \* A job that is replaced by r and keeps what it works on.
  <1>r. ASSUME NEW f \in Files, NEW r, job' = [job EXCEPT ![f] = r],
               job[f].state # "absent", r.doc = job[f].doc, r.elems = job[f].elems,
               r.phase = job[f].phase, r.owner \in {0, job[f].owner},
               r.state = "running" => job[f].state = "running" /\ r.owner = job[f].owner,
               ckpt' = ckpt \/ ckpt' = [ckpt EXCEPT ![f] = NoCkpt],
               UNCHANGED <<indexed, remote, wk, claims, tasks>>
        PROVE  SourceStep
    BY <1>r, <1>s, RowUpdates
  <1>c. ASSUME NEW f \in Files, job' = [job EXCEPT ![f] = ControlSettled(job[f])],
               job[f].state # "absent",
               ckpt' = ckpt \/ ckpt' = [ckpt EXCEPT ![f] = NoCkpt],
               UNCHANGED <<indexed, remote, wk, claims, tasks>>
        PROVE  SourceStep
    BY <1>c, <1>r, <1>t, ControlSettledRow
  <1>1. ASSUME NEW f \in Files, SettleExpired(f) PROVE SourceStep
    BY <1>1, <1>c DEF SettleExpired, ControlOnly
  <1>2. ASSUME NEW f \in Files, ExecuteControl(f) PROVE SourceStep
    <2> DEFINE t == ckpt[f].task
    <2>1. UNCHANGED <<job, ckpt, indexed, wk, claims, tasks>> /\ t \in TaskIds
      BY <1>2 DEF ExecuteControl, HasCkpt, Typed, TypeOK, Checkpoint, AnyTask
    <2>2. \/ remote' = remote
          \/ /\ remote[t].status # "unknown"
             /\ \E status \in {"paused", "terminated"} :
                   remote' = [remote EXCEPT ![t] = [status |-> status,
                                                    doc |-> remote[t].doc]]
      <3>1. ASSUME NEW s, remote' = [remote EXCEPT ![t] = [doc |-> remote[t].doc,
                                                           status |-> s]]
            PROVE  remote' = [remote EXCEPT ![t] = [status |-> s, doc |-> remote[t].doc]]
        BY <3>1
      <3>2. QED
        BY <1>2, <3>1 DEF ExecuteControl
    <2>3. \A u \in TaskIds : TaskMove(u)
      BY <2>1, <2>2, NoTaskMoves, OneTaskMoves
    <2>4. QED
      BY <2>1, <2>3, NoRowMoves, NoWorkerMoves, Sourcing
  <1>3. ASSUME NEW f \in Files, FinalizeCancellation(f) PROVE SourceStep
    <2>1. /\ job' = [job EXCEPT ![f] = NoJob] /\ ckpt[f].task = 0
          /\ UNCHANGED <<ckpt, indexed, remote, wk, claims, tasks>>
      BY <1>3 DEF FinalizeCancellation, HasCkpt, ControlOnly
    <2>2. job'[f] = NoJob
      BY <2>1 DEF Typed, TypeOK
    <2>3. RowRenewed(f)
      BY <2>1, <2>2 DEF RowRenewed, NoJob
    <2>4. QED
      BY <1>s, <2>1, <2>3, OneRowMoves DEF RowStep
  <1>4. ASSUME NEW a \in acks, AckControl(a) PROVE SourceStep
    <2> DEFINE f == a.file
    <2>1. /\ f \in Files /\ UNCHANGED <<indexed, remote, wk, claims, tasks>>
          /\ ckpt' = ckpt \/ ckpt' = [ckpt EXCEPT ![f] = NoCkpt]
      BY <1>4 DEF AckControl, Typed, TypeOK, Ack
    <2>2. CASE job' = job
      <3>1. ckpt'[f].task \in {0, ckpt[f].task}
        BY <2>1 DEF Typed, TypeOK, NoCkpt
      <3>2. RowUpdated(f)
        BY <2>1, <2>2, <3>1 DEF RowUpdated
      <3>3. QED
        BY <1>s, <2>1, <2>2, <3>2, OneRowMoves DEF RowStep
    <2>3. CASE job[f].control \in Requested /\ job' = [job EXCEPT ![f] = ControlSettled(job[f])]
      <3>1. job[f].state # "absent"
        BY <2>1, <2>3 DEF DesksOK, DeskOK, Requested
      <3>2. QED
        BY <1>c, <2>1, <2>3, <3>1
    <2>4. QED
      BY <1>4, <2>2, <2>3 DEF AckControl
  <1>5. ASSUME NEW a \in acks, LoseAck(a) PROVE SourceStep
    BY <1>5, <1>s, NoRowMoves DEF LoseAck
  <1>6. ASSUME NEW f \in Files, ExpireLease(f) PROVE SourceStep
    BY <1>6, <1>r, <1>t, ExpiredRow DEF ExpireLease, ControlOnly
  <1>7. ASSUME NEW f \in Files, BecomeDue(f) PROVE SourceStep
    BY <1>7, <1>r, <1>t, DueNowRow DEF BecomeDue, ControlOnly
  <1>8. ASSUME NEW t \in TaskIds, NEW status \in {"done", "failed"}, RemoteEnds(t, status)
        PROVE  SourceStep
    <2>1. /\ UNCHANGED <<job, ckpt, indexed, wk, claims, tasks>>
          /\ remote[t].status # "unknown"
          /\ remote' = [remote EXCEPT ![t] = [status |-> status, doc |-> remote[t].doc]]
      BY <1>8 DEF RemoteEnds
    <2>2. \A u \in TaskIds : TaskMove(u)
      BY <2>1, OneTaskMoves
    <2>3. QED
      BY <2>1, <2>2, NoRowMoves, NoWorkerMoves, Sourcing
  <1>9. ASSUME NEW t \in TaskIds, RemoteForgets(t) PROVE SourceStep
    <2>1. /\ UNCHANGED <<job, ckpt, indexed, wk, claims, tasks>>
          /\ \E d \in {NoDoc, remote[t].doc} :
                remote' = [remote EXCEPT ![t] = [status |-> "unknown", doc |-> d]]
      BY <1>9 DEF RemoteForgets
    <2>2. \A u \in TaskIds : TaskMove(u)
      BY <2>1, OneTaskMoves
    <2>3. QED
      BY <2>1, <2>2, NoRowMoves, NoWorkerMoves, Sourcing
  <1> QED
    BY <1>1, <1>2, <1>3, <1>4, <1>5, <1>6, <1>7, <1>8, <1>9
       DEF ReconcileStep, EnvironmentStep

\* Without a CLI run, which prepares another content under a worker, the elements of
\* a job and those published from it were converted from the content they are about.
THEOREM ElementsComeFromContent ==
  ASSUME Clis = {}
  PROVE  Spec => []ElementsMatchContent
  <1>1. Typed /\ RowsOK /\ DesksOK /\ [Next]_vars => SourceStep
    <2>1. Typed /\ UNCHANGED vars => SourceStep
      BY NoRowMoves, NoWorkerMoves, NoTaskMoves, Sourcing DEF vars
    <2>2. QED
      BY <2>1, ClientSources, WorkerSources, OtherSources DEF Next
  <1>2. /\ Typed /\ Typed' /\ RowsOK /\ DesksOK /\ Sources /\ [Next]_vars
        => Sources'
    BY <1>1, ContentsKept, TasksStayAgreed, LeasesKept DEF Sources
  <1>3. Sources => ElementsMatchContent
    BY DEF Sources, ContentsOK, ContentOK, ElementsMatchContent
  <1> QED
    BY <1>2, <1>3, InitSources, AlwaysDesks, PTL DEF Spec

\* Daemons, uploads and users run no paused job, and store and publish nothing that
\* was converted from other content.
THEOREM DaemonsAreOrderly == Spec => []DaemonsKeepOrder
  <1>1. CASE Clis = {}
    <2>1. PausedIsIdle /\ ElementsMatchContent => DaemonsKeepOrder
      BY DEF DaemonsKeepOrder
    <2>2. QED
      BY <1>1, <2>1, PausedJobsAreIdle, ElementsComeFromContent, PTL
  <1>2. CASE Clis # {}
    <2>1. DaemonsKeepOrder
      BY <1>2 DEF DaemonsKeepOrder
    <2>2. QED
      BY <2>1, PTL
  <1>3. QED
    BY <1>1, <1>2
============================================================================
