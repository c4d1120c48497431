# CiteLoom in TLA+

CiteLoom ingests documents, indexes them for retrieval and answers questions with
citations. Everything durable lives in PostgreSQL (and, for source bytes, on disk or
in S3). Web servers, worker daemons, CLI commands, Docling services and browser pages
work on it concurrently, may crash at any point, and coordinate only through
transactions, leases, notifications and a few remote calls. This project models the
parts in which that coordination, or an algorithm with a delicate contract, is the hard
part; it model-checks them on small instances and proves the central invariants for
every instance.

Paths below are relative to the repository root.

## Inventory

| part | state | operations | hard because | module |
|---|---|---|---|---|
| Ingestion queue (`src/documents/catalog/job-store.ts`, `ingestion-lifecycle.ts`, `src/ingestion/*`) | `ingestion_jobs`, `docling_task_checkpoints`, `indexed_documents` | prepare, claim, heartbeat, record / clear task, complete phases, promote, release, fail, pause, cancel, resume, retry, delete | workers, CLI, web server and reconcilers interleave; leases expire under running workers; a conversion outlives its process | `IngestionJobs` |
| Docling client (`src/docling/client/*`) | one task reference per attempt | submit, watch, pause, terminate, fetch | the remote task ends, vanishes, is resumed or cleared between two calls | `IngestionJobs` |
| Docling service (`infra/docling/citeloom_docling/*.py`) | task table, queue, range manifests, pause and termination requests | enqueue, resume, pause, terminate, worker loop | asyncio interleavings between control calls and workers; restarts | `DoclingOrchestrator` |
| Docling registry (`src/docling/service-store.ts`) | service rows, slots, fingerprints | topology reconciliation, verification, slot assignment | overlapping topologies, checkpoints that pin removed services | `DoclingServices` |
| Evidence (`src/documents/evidence/*`, `src/ingestion/deletion.ts`) | source elements, element sets, their members | write, complete, read, delete by reference count | batches outside transactions; content shared by files | `DocumentEvidence` |
| Source content (`src/documents/storage/*`) | rows, objects, pending deletions, migration | publish, clean, migrate, cut over | rows and objects cannot change atomically | `SourceContent` |
| Index generations (`src/retrieval/indexing/*`, `src/embedding/space/*`) | manifests, staged rows, projections, spaces | begin, stage, promote, retire, collect | retirement races readers, reindexing and pins | `IndexGenerations` |
| Source libraries (`src/workspaces/source-library-*.ts`) | libraries, grants, deletion sources | create, archive, grant, delete in the background | a call is authorised first and acts later | `SourceLibraries` |
| Worker process (`src/app/ingestion-worker.ts`, `ingestion-worker-dispatch.ts`, `src/ingestion/*-processor.ts`) | dispatcher, claim under way, tasks, registry, migration and retention loops | reload settings, claim with probes, start and finish tasks, wait for revisions, close | wake-ups come during a claim; any of its loops may fail while the others work | `WorkerDispatch` |
| Lease heartbeat, limiter (`src/shared/*`) | timers and an abort signal; places and waiters | renew, expire, stop; run, hand over | late answers, aborts between hand-over and start | `LeaseHeartbeat`, `TaskLimiter` |
| Inference coordinator (`src/inference/coordinator.ts`) | limits, slots, a leased queue | configure, enqueue, admit by priority, release, abort | leases expire under running requests; settings change while requests wait | `InferenceCoordinator` |
| Chat runs (`src/chat/store.ts`) | runs with attempts, messages | accept, retry, transition, renew, publish, fail, cancel | repeated requests and late writers | `ChatRuns` |
| Verification (`src/answers/verification-*.ts`, `src/verification/*`, `services/hhem`) | jobs, verdicts; items, batches, scores | claim, verify, settle; pack, score, combine | a slow verification finishes after its successor; scores come back by position | `VerificationJobs`, `ClaimVerification` |
| Answers (`src/answers/*`) | retrieved windows, response, document | plan, stream, correct, compile, publish | two contracts judge one response; the preview guesses what will be published | `AnswerGeneration` |
| Research (`src/research/store.ts`) | threads, turns, rows of six tables, feedback | save, verify, vote, delete, read | six queries without a common snapshot; deletions race with saves | `Research` |
| MCP tasks (`src/mcp/tasks/*`) | task rows, runs of each process | create, claim, renew, finish, cancel, reconcile | two processes reconcile; a cancellation is two statements | `McpTasks` |
| Accounts (`src/auth/*`, `src/oauth/*`) | users, memberships, sessions, links, modes | sign in, set up, archive, demote, link | principals are read first and used later | `Accounts` |
| Settings (`src/app/application-settings-repository.ts`, `src/workspaces/settings-store.ts`) | versions, references | save, override, disconnect, assign | references cross rows that are not locked together | `OrganizationSettings` |
| Codex sign-in (`src/providers/openai-codex-*.ts`) | one credential row, device flows | refresh, sign in, cancel, disconnect | refresh tokens are good for one use | `CodexCredentials` |
| Runtime (`src/app/runtime.ts`) | slots, leases, reloads | lease, save, reload, shut down | runtimes retire under leases and are built out of order | `RuntimeManager` |
| Revision streams (`src/app/*revision*`, `src/api/observability-routes.ts`, `web/.../shell.js`) | listener, stream, dashboard | notify, reconnect, refresh | wake-ups come while a refresh is under way | `StateRevisions` |
| Pages (`web/assets/scripts/*.js`) | what is shown, requests under way, timers | ask, chat, dictate, watch, edit settings | responses arrive in any order | `AskPage`, `ChatPage`, `Dictation`, `DocumentNotifications`, `SettingsPage` |

`PROJECT.json` lists every component with what is left out of it.

What makes each correct: no queue has two writers for one item, strands a requested
pause or cancellation, or lets a late attempt change what is settled; nothing that is
referred to is removed; what is published is whole and was asked for; a page shows what
belongs to its selection; and an installation never locks out its administrators.

## How the models are built

One action is one database transaction, one remote call, or everything a process does
between two points where it really waits (two `await`s in the scripts and in asyncio),
because that is the granularity at which actors interleave. There is no clock except in
`LeaseHeartbeat`: a lease is live until an `Expire...` action says otherwise, at any
time, and a timer may fire whenever it is set. Crashes, lost answers and failed calls
are actions of their own, bounded by constants (`MaxFaults`, `MaxFailures`, ...).
Strings, texts, vectors and bytes are model values or the numbers that the properties
tell apart. Operators that are used by no action (`PublishUnchecked`-like variants of a
guard or an update, always defined before the operator they vary) are plausible bugs of that
operator; they serve to show that a property notices them.

Each component is a module with its own constants, specification and properties. The
components are checked together in *suites*: an `MC` module declares the variables of
several components once, instantiates each component (`INSTANCE ... WITH`) and adds a variable
`part` that selects, in the initial state, the component this behaviour explores; the
others stay as they begin. So a run is a union of the components' state graphs and no
component is abstracted for it. Properties of a suite are conjunctions
`part = "x" => X!P` of named properties of the components, grouped by the question
they answer. A conjunct beside a
component's `Init` or `Next` in a suite only chooses a smaller scenario. Where a scenario has two interchangeable actors they
come from the symmetric sets `Pair` and `Others`; liveness is checked without symmetry.

A liveness suite states the fairness of every component as the antecedent of that
component's properties, `part = "x" => (X!Fairness => X!P)`, with each `Fairness`
defined beside the actions it is about.

## The runs

Twelve runs. The properties of a run are named in its `MC` module; the names in brackets are
those of the component modules they consist of. `PROJECT.json` has mutants for every one.

| run | suite and its parts | properties |
|---|---|---|
| `ingestion` | `MCIngestionJobs`: `daemons`, `uploads`, `cli` | `PauseHasExecutor`, `CheckpointPinsService`, `DaemonsKeepOrder` (`PausedIsIdle`, `ElementsMatchContent`), `StaleWorkersWriteNothing`, `PublicationMovesForward`, `ImplementsLibrary`, `CliKeepsRecords` (`PauseHasExecutor` and `CheckpointPinsService` with a CLI ingestion) |
| `docling` | `MCDocling`: `orchestrator` with one worker, `twoWorkers`, `registry`, `evidence` | `OneWorkerKeepsTasks` (`NoTaskIsLost`, `PausedIsQuiet`), `SuccessHasResult`, `RangesAdvance`, `RecordsAgree` (`SuccessHasResult` with two workers; slots, verification, pinned tasks; whole element sets) |
| `queues` | `MCQueues`: `heartbeat`, `limiter`, `chat`, `verification`, `dispatch`, `failing`, `mcp`, `claims`, `budget` | `HoldersAreBounded` (`AlwaysWatched`, `OverrunIsBounded`, `NothingLeftBehind`; `CountsHolders`, `QueueIsExact`, `NoIdlePlace`; `NoWakeUpIsLost`, `ClaimedIsHeld`, `CountsItsTasks`, `EndIsQuiet`), `ResultsAreCurrent` (`OneRunInProgress`, `AnswersAreCurrent`; `VerdictsAreCurrent`, `FailsAfterTheLastTry`; `AnsweredOnce`, `ClosedIsQuiet`, `CancellationIsNoticed`), `VerdictsMatchScores` (with `OnlyFaultsFail`, `ModelIsSpared`, `RequestsFit`, `FitsContext`), `FinishedIsFinal` (`LostForGood`, `CompletedIsFinal`, `StaleCallsAreFenced`, `SettledIsFinal`, `TerminalIsFinal`), `RunsImplementFencedWork`, `JobsImplementFencedWork` |
| `answers` | `MCAnswers`: `rows`, `saves`, `reads`, `votes`, `ask`, `chat`, `inference` | `SavedAnswersAreWhole` (`NothingIsRefused`, `ReadsAreWhole`, `NothingDangles`, `VerdictsAreOfOneAttempt`), `AcceptedCompiles` (with `EvidenceKept`, `NumbersFollowRank`, `PreviewIsPublished`, `PreviewKnowsItsSources`, `MetricFinished`), `AdmittedOnce`, `SlotsAreFenced` |
| `documents` | `MCDocuments`: `publishing`, `migrating`, `index`, `collection`, `libraries` | `ContentIsReadable`, `ReferredToIsKept` (`PublishedIsComplete`, `BuiltIsKept`, `OneVersionPerSource`; `ClosedIsQuiet`, `NothingIsForgotten`), `UploadsCanBeEnqueued`, `CancellationIsHonoured` |
| `administration` | `MCAdministration`: `accounts`, `passwords`, `oauth`, `settings`, `credentials`, `signin`, `runtime` | `AccountsStayUsable` (`AdministratorRemains`, `DefaultIsReachable`, `PasswordIsStored`, `LinksAreUsedOnce`, `OAuthCanBeLeft`), `SettingsHoldTogether` (`ReferencesExist`, `RouteHasCredentials`, `NoTokenIsReplayed`, `CancelledStoredNothing`, `ShutdownLeavesNothing`), `LeasedIsOpen`, `NoStaleStep` (`SavesWhatWasShown`, `RefreshedOnce`, `SignInIsKept`, `DisconnectEndsSignIns`, `NeverGoesBack`) |
| `pages` | `MCPages`: `answers`, `discovery`, `chat`, `dictation`, `notifications`, `settings`, `revisions` | `ShownIsCurrent`, `StreamsLetGo`, `NothingComesBack`, each a conjunction over the pages |
| `work_liveness` | `MCWorkLiveness`: `limiter`, `ingestion`, `orchestrator`, `registry`, `content`, `libraries`, `mcp`, `chat`, `dispatch`, `verification` | `WorkIsSettled` |
| `server_liveness` | `MCServerLiveness`: `ask`, `chat`, `notifications`, `settings`, `revisions`, `inference`, `credentials`, `runtime`, `generation` | `ServerKeepsUp` |
| `orchestrator_success_reopened` | `DoclingOrchestrator` | a violation of `SuccessIsFinal` |
| `ingestion_stale_checkpoint` | `IngestionJobs` | a violation of `ElementsMatchContent` |
| `accounts_workspace` | `MCAdministration` | a violation of `WorkspaceRemains` |

Every passing run also checks the type invariants of its components (`TypeOK`, or `TypesOK`
where a suite joins many).

Deadlock is not checked: the bounds on ids, attempts and faults end every execution,
and limiters, pages and servers may come to rest. That nothing waits for ever is what
the liveness properties say.

## The ingestion queue: `IngestionJobs`

`job`, `ckpt` and `indexed` are the three tables by source file; `remote` is the set of
tasks the Docling services know of (external: modelled from what the client asks of it,
with `enqueue_with_task_id` deciding what a repeated submission does); `acks` are remote
control outcomes that a reconciler has obtained and not yet stored; `wk` holds what each
process remembers between two transactions.

| action | code |
|---|---|
| `Upload` | `prepareUploadedIngestion` with its checks for a busy, duplicate or already processing document |
| `PrepareRead`, `PrepareSkip`, `PrepareResume`, `PrepareReset` | `prepareSourceIngestion`: the decision is taken on reads made before the transaction that carries it out |
| `ClaimNext`, `ClaimSpecific` | `claimNextJob` of the daemon, `claimJob` / `claimDoclingJob` of the CLI |
| `EnsureAssignment` ... `ClearTask` | `runAssignedDoclingPartition` and the Docling client |
| `CompleteNormalization`, `ReadAdvanced`, `CompleteIndexing`, `Promote` | the phases of `processClaimedJob` |
| `Heartbeat`, `Fault`, `Catch`, `Release`, `MarkFailed`, `SettleOwned`, `Crash` | lease heartbeat and control poll, and the catch block in its order of precedence |
| `RequestPause`, `RequestCancel`, `ResumePaused`, `RetryFailed`, `DeleteDocument` | the users' calls |
| `SettleExpired`, `ExecuteControl`, `AckControl`, `LoseAck`, `FinalizeCancellation` | the reconcilers of worker and web server |
| `ExpireLease`, `BecomeDue`, `RemoteEnds`, `RemoteForgets` | time, and the Docling services |

Abstracted: element batches, embeddings and table-of-contents staging inside the
indexing phase (one `CompleteIndexing`; `IndexGenerations` and `DocumentEvidence` have
them), tags, metrics (only the choice whether an incomplete metrics run keeps the
assignment), ownership checks of the users' calls, slots of a service
(`DoclingServices`), the reconciliation of duplicate uploads across files, and the
control state `cleanup_failed`, which readers accept and nothing writes.

Instances: `daemons` has one file, one content and two daemons with two services, two claims and
one task; `uploads` two contents, one daemon, two claims, two tasks, two generations, every
failure final; `cli` a daemon and a CLI ingestion, a Docling and a plain text
content, two claims and one task, on a queue of its own. One file suffices because no action
reads the rows of two files. Two claims are the least in which a stale worker meets its successor; one task id
suffices for every property of checkpoints except reuse after a clear, which `uploads`
covers with two. The claim of the CLI skips the control state and its preparation
replaces content under a worker, so `DaemonsKeepOrder` speaks of instances without one (`Clis =
{}`, as `daemons` and `uploads` are) and `cli` has its own variables.

The abstract specification `DocumentLibrary` is what ingestion promises to whoever asked
for it: a file has at most one order for one content, each order is a new generation,
and filling it puts exactly the ordered content on the shelf. `ImplementsLibrary` maps
`order` to the job's document and generation while it is not settled, `shelf` to the
published document. Every lease, attempt, control and Docling step is a stutter.

Fairness: a live process keeps its heartbeat, obeys its abort signal and finishes its
catch block (timers and `await`s of one process); a lease that no process renews
expires; the reconcilers poll for ever, and do not die between the remote call and the
acknowledgement every single time (strong fairness of `AckControl`). Nothing is assumed
about conversions or claims.

## Docling: `DoclingOrchestrator`, `DoclingServices`, `DocumentEvidence`

`CiteLoomProcessOrchestrator` keeps a task table, a queue (twice: `queue_list`, which clients
are told their position from, and `task_queue`, which workers take entries from), pause
and termination requests and the running executions in memory, and a range manifest per
PDF on disk. All of it is one event loop, and `_execution_lock` is never held across a
suspension. `Take` ends at the notifier call after a PDF was marked started, `StartPdf`
at the wait for its first process, `FinishRange` at the wait for the next one; `Pause`
and `Terminate` end where they wait for an execution to finish, and `FinishPause` and
`FinishTerminate` continue from there.

| state | code |
|---|---|
| `status`, `request`, `released` | `self.tasks`: a Task's status, its request and whether its sources were emptied |
| `content` | staged source content of `app.py` |
| `results`, `pausing`, `terminating`, `active` | `_task_results`, `_pause_requests`, `_termination_requests`, `_active_executions` |
| `queueList`, `taskQueue` | `queue_list`, `task_queue` |
| `manifest` | `PageRangeCheckpointStore`: the only state that survives `Restart` |
| `wk` | a worker coroutine with its process; `orphan` says that the Task object it holds was deleted from the table |
| `ctl` | control calls that wait for an execution, and for whose |
| `wanted` | auxiliary: tasks submitted and not paused, terminated or deleted since |

`Woken` in the guard of `ProcessEnds` is asyncio's order: a coroutine whose event was set
is already in the ready list and runs before a process end the loop has not yet noticed.
Abstracted: the artifacts and picture data of a range, option validation, authentication,
the notifier, and how a process is supervised (it ends well, badly, or at its deadline).
`DeleteTask` is Docling Serve's removal of a fetched task (external). Three pages in
ranges of two give a full range, a short last range and an assembly; two queue entries
are the least at which a task is queued twice. `OneWorkerKeepsTasks` (`NoTaskIsLost` and
`PausedIsQuiet`) is a property of a service with one worker, `docling` checks it with two
callers and two PDF requests of one id: a doubled queue entry (see the findings) lets a
second worker hold a task of which the pause and the resume know nothing. The part `twoWorkers`
(one caller) checks what two workers keep; `CheckpointsAdvance` proves the order of the ranges for
any number of them.

`DoclingServices` is the registry: `settings` are the topologies of all versions, since
processes of an older version may still reconcile; `VerifyTarget` reads the target of a
probe, `RecordVerification` stores its result later, under whatever the row is by then
(`StillCurrent`); `Orders` lets the database update rows in any order, which decides
whether two services that exchange their addresses violate the unique key.
`EnsureAssignment` gives the least occupied eligible service and its lowest free slot.
`SlotsAreExclusive`: no slot is held twice; `VerifiedAsConfigured`: an active row was
verified with the configuration it has; `TaskIsReachable`: a job with a remote task
comes back to the service that has it; `RowsDecode`: no state combination that the
readers reject. Two versions, two jobs, two processes, capacities one and two.

`DocumentEvidence` is the element set of one content in two batches, shared by two files,
with the foreign keys of the schema (a restricted delete rolls the deletion back).
`DeleteRows` and `CommitDelete` are two steps because the references are counted by
statements that precede the commit. `PublishedIsWhole` and `NormalizedKeepsItsSet` say
that neither a deletion nor an abandoned upload takes evidence from a file that has it.

## Shared work: `InferenceCoordinator`, `LeaseHeartbeat`, `TaskLimiter`

`InferenceCoordinator` is one provider: `capacity` is its row in `inference_limits`, `slots`
and `queue` are the leased tables. The order of the queue is its `created_at`, of which only
comparisons matter: a queued row carries the set of requests that were there before it
(`ahead`), so rows form a set and `queueRows` needs no sequence. `Configure` writes the limit of
the settings version a process knows; `Admit` is the transaction that takes the first request by
priority (a background request is preferred once per progress interval) and a free slot up to the
capacity, with the branches for removed providers and outdated versions (`Refused`);
`KeepRow` chooses whether the answer of the commit is lost. `AdmittedOnce`: a request runs on
exactly the slot it owns; `SlotsAreFenced`: a slot changes hands only when it was released
or its lease ran out. Capacity two with one interactive and one background request, two
settings versions, two processes. Fairness: pollers poll, tasks end, abandoned leases expire.

`LeaseHeartbeat` is the only module with a clock: `Lease` units of validity, renewals that
take up to `MaxDelay`, answers that may be lost, a deadline timer that must beat the
database. `OverrunIsBounded`: work continues past the lease only as long as a message may
take; `LostForGood`: after the abort, no late answer revives the lease;
`NothingLeftBehind`: after `stop` no timer or renewal remains.

`TaskLimiter` is `TaskLimiter.run` with `startManagedTask`: a released place is handed to the
first waiter, whose signal may abort before its continuation runs. `CountsHolders`,
`QueueIsExact` and `NoIdlePlace` relate the counter, the queue and the callers.

## The worker process: `WorkerDispatch`

| state | code |
|---|---|
| `dispatcher`, `pending` | `runWorkerDispatcher`: where it is, the settings version it read, and `pendingRevisionChannels` |
| `claim` | `IngestionProcessor.claimNextJob` under way: services that wait, services that answered their probe |
| `processor`, `settings` | the installed processor of `ReloadingIngestionProcessor`, and the stored version |
| `task`, `ending`, `registry` | `active` by job, tasks whose end is being reported, and `WorkerRegistry`'s `activeJobs` |
| `delayed` | the Docling backoff |
| `migration`, `retention`, `worker`, `aborted` | the loops beside the dispatcher and the end of `runIngestionWorker` |
| `unseen`, `missed` | ghosts: jobs that came since the queue was last read, revisions no listener heard |

A revision that arrives during a claim is remembered and read before the next wait
(`NoWakeUpIsLost`); what was claimed has a task, also when the process is told to stop during
the claim (`ClaimedIsHeld`); the heartbeat counts exactly the tasks (`CountsItsTasks`); and a
process that closes its database leaves no task, migration or retention on it (`EndIsQuiet`).
`dispatch` has a Docling job and one of plain text, `failing` one Docling job and failing
database calls. What the model shows besides: every update of `ingestion_jobs` by the worker
itself publishes a revision of the channel it waits on, so that the Docling backoff is
interrupted by its own jobs; a `jobStarted` that fails leaves `activeJobs` raised for ever
(hence the condition on faults in `CountsItsTasks`); one failing read of the settings or claim
ends the dispatcher while tasks run. A job may be due again and be claimed again while its
previous task still reports its end, hence `ending` is a counter. The rows of the worker
registry are not modelled. Fairness: awaits are answered and timers fire, and a closed database
refuses.

## Attempts: `ChatRuns`, `VerificationJobs`, `McpTasks`, and the abstract `FencedWork`

Three queues with leases over an attempt number. `ChatRuns` is a conversation: `Accept` is the
transaction that fails an expired competitor, starts or restarts the run and gives the
handler its attempt; `Transition`, `Renew`, `Publish` and `FailRun` are fenced by that number.
`VerificationJobs` is used by chat messages and research turns; its lease is never
renewed. `McpTasks` is the task store and the dispatcher of two processes: a reconciliation
reads ids (`ListUnclaimed`) and enqueues them later, a cancellation is two statements
(`CancelUnclaimed`, `CancelClaimed`), calls of the store fail before or after they took effect.

`FencedWork` is the promise of a lease over an attempt number: each attempt has a new
number, only the latest delivers, and what was delivered stands until the work is erased.
`RunsImplementFencedWork` maps a run with its assistant message to it, `JobsImplementFencedWork` a
job with its verdicts. `AnswersAreCurrent`, `VerdictsAreCurrent`, `AnsweredOnce`,
`SettledIsFinal`, `CompletedIsFinal` and `TerminalIsFinal` are the same promise on the concrete state.

Fairness: handlers and dispatch loops go on, a lease nobody renews expires, a user keeps
sending (`NeverBlocked`), processes are started again and reconcile on their timer
(`TasksEnd`; strong, because a process may be restarted in between).

## Answers: `AnswerGeneration`, `ClaimVerification`, `Research`

`AnswerGeneration` follows one generation: `PlanAnswerRequest` fits the retrieved windows
into the context (`Fitting`, `Widening`), the response is streamed finding by finding
(`StreamPartial` shows the reader a preview), judged (`Accepts`: the ask or chat contract),
corrected once, compiled (`CompileAnswerDraft`) and published, or ends in the fallback. The
model is external: `Init` and each request choose any bounded response. `AcceptedCompiles`: what the
contract accepts satisfies the stricter schema of published documents; `EvidenceKept` and
`NumbersFollowRank`: compaction loses no evidence and citations are numbered in retrieval
order; `PreviewIsPublished`: a finding keeps what the preview showed of it;
`PreviewKnowsItsSources`; `MetricFinished`: one answer metric per generation. Two elements and
three windows (two of one element), two findings of up to two references.

`ClaimVerification` follows a claim from the verifier (`Items`, `Unique`, `Requests`) through the
batches of the HHEM service (`Batches`, sorted by length, padded to a token limit) back by
position (`InRequestOrder`, `Expand`, `Combine`). Every list of two claims over two sources
with every score is an initial state. `VerdictsMatchScores` compares with the direct definition
`ScoredAs`; `OnlyFaultsFail`, `ModelIsSpared`, `RequestsFit` are about limits.

`Research` saves an answer as rows of six tables (`RowsOf`), reads them by six queries that
share no snapshot (`Query`, `Rebuilt`), verifies, votes and deletes. The database's checks are
part of `Publishable`. `NothingIsRefused`: what the validation accepts the database
accepts; `ReadsAreWhole`: a reader gets the turn, or nothing, but never rejects a thread
because two queries saw different moments; `VerdictsAreOfOneAttempt`; `NothingDangles`. What the
model shows besides, and no document denies: a thread that a deletion judged empty is deleted
with a turn saved while the `DELETE` waited for its lock; a reader whose queries all
run after a deletion returns the bare text as an uncited answer; and a job can be read as
completed with checks that are not verified yet.

## Stored documents: `SourceContent`, `IndexGenerations`, `SourceLibraries`

`SourceContent`: publishers put the object first and the row second, cleaners take the row first
and the object second, a migration copies every object to another backend, visits what was
published since, and cuts over by changing the settings. Transactions serialise on the
advisory lock of the document; `conf` is the configuration a process was started with.
`ContentIsReadable`: every row that is referred to has its object where the active settings look
for it; `UploadsCanBeEnqueued`: a young row is not collected; `CancellationIsHonoured`. One document
for two publishers, two documents for two migration workers (a batch is one document).
Liveness: abandoned rows are removed and migrations settle, given that cleaners come back.

`IndexGenerations`: `Stage` writes one pair of rows, `Promote` publishes the generation in its space and
retires what it replaces, a garbage collection plans (`PlanCollection`) and deletes later
(`Collect`). `PublishedIsComplete`: a search never reads a generation with a row missing;
`BuiltIsKept`: rows a live job will publish are not collected; `OneVersionPerSource`. Two sources of
one content in one space, and one source with two contents in two spaces.

`SourceLibraries`: `Authorize` and the act (`Prepare`, `Retry`, `DeleteDocument`) are two steps; the
reconcilers delete a library one source at a time and postpone it when a step fails
(`Postpone`, one broken file). `ClosedIsQuiet`: nothing is added to an archived or deleted library;
`NothingIsForgotten`: a library in deletion lists every source it still has.

## Administration: `Accounts`, `OrganizationSettings`, `CodexCredentials`, `RuntimeManager`

`Accounts`: `request` holds the principal a request read; the operation follows later with
whatever locks it takes. `AdministratorRemains`, `DefaultIsReachable`, `LinksAreUsedOnce`,
`OAuthCanBeLeft` hold; `PasswordIsStored` is checked for the local mode and would fail after an
identity link made a user active (see the findings). `OrganizationSettings`: `Begin...` takes
the locks and checks, `Commit...` writes; a page remembers the version it shows
(`SavesWhatWasShown`). `CodexCredentials`: `lock` is the advisory lock that a refresh holds
across its call to the provider; refresh tokens are good for one use (`live`, `refused`), and
`NoTokenIsReplayed`, `RefreshedOnce`, `SignInIsKept`, `CancelledStoredNothing`,
`DisconnectEndsSignIns` say that neither requests among themselves nor sign-ins and refreshes
waste or overwrite one. `RuntimeManager`: `Reload` and `Install` frame the build of a runtime;
`LeasedIsOpen`, `NeverGoesBack`, `ShutdownLeavesNothing`. A lease is what `LeasedIsOpen` speaks of, not
work: requests and managed tasks hold theirs to the end, but `CancelStream` gives it back while what
works behind the stream goes on, and nothing then keeps the pool open. Fairness: requests end and pools
close; a build or a reading of the settings that is tried again and again succeeds.

## Pages: `AskPage`, `ChatPage`, `Dictation`, `DocumentNotifications`, `SettingsPage`, `StateRevisions`

One action is what a script does between two awaits; the server is reduced to what it stores,
and a response is whatever was stored when it was read. `AskPage`: `ShownThreadIsSelected`,
`LatestSearchIsShown`, `VerifiedIsChecked`, `StoppedIsSilent`. `ChatPage`:
`RunsStayInTheirChat`, `StreamingIsOpen`, `RefreshMovesOnlyVerdicts`: a refresh is fenced by the chat
alone, so a slow one may take a verdict back, and then the page polls again (`VerdictIsShown`). `Dictation`: a start stands
for its `recordingGeneration`; `MicrophoneIsOff`, `RecordingIsLimited`, `TranscriptIsWanted`.
`DocumentNotifications`: a refresh asks for the watched documents one after the other and
announces the finished ones together at its end (`ToldWhatWasAsked`); with two documents,
`OnlyAbortsDrop` says that nothing is dropped but by a refresh aborted between them.
`SettingsPage`: drafts belong to the settings they were made on, a save is based on what was
stored (`DraftsMatch`, `SavedOnWhatWasStored`, `NoLostReload`). `StateRevisions` is the path of
a change from the database's notification over listener and event stream to the dashboard
(`NoLostWakeUp`, `NeverShowsOlder`, `ClosedLetsGo`, `ListenerComesBack`). Liveness: pages become
idle, catch up and show verdicts, if requests are answered and timers fire; where only a bound
on responses can hold up a timer, fairness is strong.


## Findings

Three disagreements between the code and what the repository says of it have a run that shows
one, and are quoted in full in `PROJECT.json`:

- `orchestrator_success_reopened`: a PDF that was paused while queued and resumed is in
  `task_queue` twice; the second entry reopens it after it succeeded
  (`infra/docling/citeloom_docling/process_orchestrator.py:258`; the client rejects a changed
  terminal state).
- `ingestion_stale_checkpoint`: `resetIngestion` (`src/documents/catalog/ingestion-lifecycle.ts:397`)
  keeps the Docling checkpoint of the content it replaces, so that the elements of the old
  content are published for the new one.
- `accounts_workspace`: two archive requests, each authenticated in the workspace that the other one
  archives, leave no active workspace (`src/auth/store.ts:548`).

More that the models showed in the course of the work, at smaller instances than the present runs have:

| where | what |
|---|---|
| `src/auth/store.ts:250` | the password set by a user whom an identity link made active is not stored: there is no credential row to update, and the link is used up |
| `web/assets/scripts/chat.js:1194` | the deletion dialog names one chat; a chat whose selection loads while it is open is deleted instead |
| `src/embedding/space/retention.ts:507` | a space that is made active while a collection runs is collected: the active space is the one read at its start |
| `src/inference/coordinator.ts:483` | more requests run than the capacity after it was lowered, or when a slot expired under a holder that still runs |
| `src/documents/catalog/job-store.ts:156` | the claim of the CLI ignores the control state; a paused job runs, and cannot be resumed while it does |
| `process_orchestrator.py:774` | pause and resume around a task that a worker has just taken leave two holders; both convert one range, the second fails the task on its assertion |
| `process_orchestrator.py:191` | after a restart, a task that is paused and then submitted is dropped as paused and not queued again |
| `src/providers/openai-codex-credentials.ts:111` | Codex can be disconnected while a workspace override routes to it |
| `src/app/application-settings-repository.ts:416` | the Docling URL changes under a job that is assigned between the check and the commit |
| `web/assets/scripts/settings-resets.js:22` | the reset applies to the target that is shown after the dialog, not to the one it asked about |
| `web/assets/scripts/chat.js:257` | a verification refresh that was read before the page learned a verdict, and arrives after, takes the verdict back until the next refresh |
| `src/app/runtime.ts:387` | a stream that is cancelled while it is being prepared has no reader yet: its lease is given back, and its operation works on with a runtime that may be closed (`test/application-runtime.test.ts:368` keeps the lease for a stream that is not cancelled) |
| `web/assets/scripts/app.js:726` | a refresh of document notifications that is aborted between two documents never announces the ones it had taken off its list |

## What is proved

Every theorem holds for all values of the constants, under the named assumption of its
module (`ConstantsAssumption`, `OrchestratorAssumption`, `ChatAssumption`, ...: positive bounds, model
values that are not members of the sets they mark the absence from, finite `Users` and `Jobs` for the
counts of `RuntimeManager` and `WorkerDispatch`, a lease of at least six time units for the divisions of the heartbeat). None
bounds the number of actors, so that the theorems cover what the runs, with one to three of
everything, cannot. Every proof has the same shape: an inductive invariant, checked by TLC
beforehand, one lemma for each action, and a last step in temporal logic.

**`IngestionJobsProofs`** is the longest. `Typed` is `TypeOK` with what a worker's record must
look like at each of its points (`WorkerOK`). On it stands `RowsOK`, the shape of each row: an owner
exactly while it runs, a live lease only then, a requested pause only on a job that runs or has a
saved task, and a saved task only in the first phase of a job whose service is the one that knows
it. It implies `LeasesMatch`, `PausesHaveExecutors` and `CheckpointsPinServices`, and needs
the types of the workers because a reset writes a row that a CLI process prepared earlier.
`WritesAreFenced` goes through every action: it either moves no worker's record, or that of a
worker that has claimed nothing or owns its row (`Fenced`), or it leaves the three tables alone.
`PublicationsMoveForward` and `IngestionImplementsLibrary` share `DesksOK` (an order is newer than
what it will replace; without a job there is no order and no control) and the step relation
`LibraryStep`: an action keeps what every file has ordered and published, or it places, fills,
withdraws or removes the order of one file, each of which is a step or a stutter of `DocumentLibrary`.

`DaemonsAreOrderly` is `DaemonsKeepOrder` for every instance, from two theorems that assume
`Clis = {}`. `PausedJobsAreIdle` and `ElementsComeFromContent` fail with a CLI ingestion, by the
two findings above (a claim that skips the control state, a reset that keeps the checkpoint),
and hold for any number of daemons, services, files and contents, uploads included. The second
rests on `Sources`: whoever speaks of a task - a worker's record, a checkpoint, a Docling
service - means the same content (`TasksAgree`), and what a worker or a row holds was converted
from the content its job has (`ContentsOK`). It is kept by a relation between two states
(`SourceStep`) that says which row, worker or task moves and keeps the other ones, so that each
action needs only a few lines.

**`DoclingOrchestratorProofs`**: `OrchestratorTypeCorrect` by `Tables`, which adds that a
worker's record fits where it is; `CheckpointsAdvance`: no interleaving of two workers and
control requests records a range twice or out of order, although both may convert it (the
findings); `SuccessesHaveResults`: a task that reports success has a result until both are
removed. `OneWorkerLosesNothing` is `OneWorkerKeepsTasks`, for any number of tasks, callers and
pages. `OneWorkerInv` accounts for where a task can be: an execution of the table belongs to the
worker that has it (`Places`), what the worker holds is known, and completed when it is reaped
(`HeldOK`), an id that was submitted again while the worker still holds the deleted Task object
has a queue entry of its own (`OrphanOK`, without which the end of that execution would lose the
new task), and an execution of a paused task has a caller that waits for it (`WatchedOK`). What
submissions and control calls do to it is one relation (`ControlMoves`); the worker either rests
(`WorkerRests`), goes on with its task (`WorkerGoes`) or takes the next one.

**`ChatRunsProofs`** and **`VerificationJobsProofs`** have one invariant each (`Inv`: rows with what
was delivered for them, callers and loops with the attempt they remember; for a chat also that one
run is in progress) and a relation `Follows` of what a step may do to one row. Single runs, current
answers and verdicts, final states, the number of tries, and `ImplementsFencedWork` follow from the two:
what a step may do to a row is a step of `FencedWork` or none.

**`RuntimeManagerProofs`** has four components of the administration. The runtime: leases are
counted (`Counted`: a sum over the requests, by the cardinality theorems), only the current
version is open (`OnlyCurrent`), a shutdown lets no build begin (`Settled`); so `LeasedStaysOpen`
and `ShutdownIsComplete`. With `Unbuilt` (no runtime exists for a version newer than the current
one) every step moves the life of a runtime forward: `VersionsOnlyRise` states `NeverGoesBack`,
and that a runtime which was replaced or shut down is never in use again.

The Codex credentials (`CodexInv`): the stored row is backed by a token the provider still takes,
or by one whose answer was lost or refused (`RowIsLive`); who holds the lock has read the row as it
is (`HolderIsCurrent`), and of the device sign-ins all but the last have ended (`FlowIsInTurn`).
`RequestIsAbreast` orders what a request remembers by sign-in and version, without which a late
answer could not be told from a present one. The settings (`SettingsInv`): a save excludes every
other one of the same row (`SavesAlone`), what a transaction has checked still holds when it commits
(`ChoiceExists`) and a page shows the present or a past version (`PageIsPast`). The accounts
(`AccountsInv`): the global administrator is active and
administers every workspace there is (`AdminIsIn`), a link that can be used is the last one of its user (`LinksAreFresh`), and
an active user has a password (`PasswordsAreSet`). The last part is the one that OAuth
breaks: an identity link makes a user active who has none. `ToldPasswordsAreStored` therefore
assumes `Configurations = {}`, the installation without OAuth; with it the statement is false (see
the findings), and all other account theorems hold with any configurations.

**`LeaseHeartbeatProofs`**: `Watched` relates the deadline timer to the last confirmed lease,
from which the bound on overrun follows for every lease and every delay (`OverrunStaysBounded`),
with `HolderIsWatched`, `StopIsComplete` and `LostStaysLost`. The module also has the lemmas on
queues without repetition (what `RemoveFirst`, appending and taking the head leave of the
set of members and of the length), proved by well-founded induction on the length, and two
components that stand on them. `LimiterInv`: the counter is the number of holders and the waiters are
those who wait, once each, hence `LimiterLeavesNoPlaceIdle`. `SharedInv`: the deletion queue of
the source libraries lists each library in deletion once (`QueueIsExact`; the equality
of lengths in `DeletionQueueIsExact` needs finitely many libraries), a server works only on one that
is in deletion (`TickIsInDeletion`).

**`SourceContentProofs`**: the invariant says that every row has its object in the active backend
(`ContentIsReadable`, the theorem `RowsAreReadable`), which way an active migration goes
(`Directed`), and what each migration worker has behind it (`CopyOK`): of the documents that had their
row before the migration was queued, those it has passed are in the target, those it will revisit are in
its list, and at the cut-over all of them are there, also for workers that lost their lease to another
one. Without that a cut-over could not be shown to keep anything readable. `YoungUploadsStay` and
`CancelledMovesNothing` are action properties from the same invariant.

The same module proves what is kept of a document. Evidence (`EvidenceInv`): while a
worker owns its job, that job is normalised and what the worker has read of the set is there
(`Reading`), and a deletion holds the rows of a file whose job nobody owns (`Locking`). Index generations (`IndexInv`): a
manifest belongs to one job and says how far its rows have come (`ManifestIsExact`), each
row is placed by it (`RowIsPlaced`), a publication has a row per element and no other
(`PublicationIsWhole`), and a worker, with or without its lease, is never ahead of the
manifest it writes to (`WorkerIsAbreast`). The last one is what makes it inductive: a stale worker that
could be ahead would complete a generation with a row missing.

**`DoclingOrchestratorProofs`**, second part: the registry. A row's fingerprint is that of its own
configuration, verified or not (`Decodes`), and a probe remembers the fingerprint of what it read
(`Processing`); the verification that comes late can then only confirm the row it was about.
Slots and pinned tasks (`SlotsAreExclusive`, `TaskIsReachable`) are inductive beside these.

**`VerificationJobsProofs`**, second part: MCP tasks. A task that can be claimed was never claimed
(`TaskIsFresh`), the owner of a working task executes it on the way to the statement that ends it,
unless a call or a lease was lost (`HolderWorks`), and a process that is down runs nothing and has
nothing left to enqueue (`DownIsIdle`).

**`InferenceCoordinatorProofs`**: `Owned` says that an owner of a slot has left the queue for good,
is no new call, and owns one slot. `RequestsAreAdmittedOnce` and `LiveSlotsAreFenced` follow, whatever
commits lose their answer. Its second part is the dispatcher of a worker. `ReadsFirst` says what was read
before the dispatcher goes on, point by point of its two loops, provided that no revision is pending or missed;
`NoWakeUpIsLost` is its last line. The tasks are counted (`Tasked`, `Worked`: a change of one task changes
each by at most one), and since a task holds the claim of its job (`TasksHoldClaims`), a new claim never
replaces a task that works; so the counter of the registry is exact as long as no database call fails. The end
of the worker follows from the order in which its loops end (`RestsAlone`, `EndsInOrder`).

A suite property that joins components is stated part by part, because each part is proved for
all constants and the suite fixes them:

| property of a run | theorems that state its parts |
|---|---|
| `CliKeepsRecords` | `PausesHaveExecutors`, `CheckpointsPinServices` (any `Daemons` and `Clis`) |
| `RecordsAgree` | `SuccessesHaveResults`, the three `Registry...` theorems, `EvidenceOfVersionsIsWhole`, `EvidenceOfJobsIsKept`: all of it |
| `HoldersAreBounded` | `HolderIsWatched`, `OverrunStaysBounded`, `StopIsComplete`, the three `Limiter...` theorems, `NoRevisionIsSleptOver`, `DispatcherHoldsItsJobs`, `WorkersEndQuietly`: all of it |
| `ResultsAreCurrent` | `OneRunAtATime`, `AnswersStayCurrent`, `VerdictsStayCurrent`, `FailsOnTheLastTry`, `McpTasksAreAnsweredOnce`, `ClosedMcpProcessesAreQuiet`: all of it |
| `FinishedIsFinal` | `LostStaysLost`, `CompletedStays`, `StaleCallsChangeNothing`, `SettledStays`, `TerminalMcpTasksStay`: all of it |
| `ReferredToIsKept` | `PublicationsAreComplete`, `BuiltGenerationsAreKept`, `ClosedLibrariesAreQuiet`, `DeletionsForgetNothing`: all of it |
| `AccountsStayUsable` | `WorkspacesStayAdministered`, `PasswordLinksAreUsedOnce`, `OAuthIsNoTrap`, `ToldPasswordsAreStored`: all of it |
| `SettingsHoldTogether` | `SettingsReferToWhatExists`, `NoCodexTokenIsReplayed`, `CancelledCodexSignInsStoreNothing`, `ShutdownIsComplete`: all of it |
| `NoStaleStep` | `SettingsAreSavedAsShown`, `CodexRefreshesOnce`, `CodexSignInsAreKept`, `DisconnectEndsCodexSignIns`, `VersionsOnlyRise`: all of it |

The type invariants of all these components are theorems too (`TypeCorrect` of a
module, or a conjunct of the first theorem of a component).

## What is only model-checked

- Liveness (`work_liveness`, `server_liveness`): the fairness conditions rest on `ENABLED`,
  which the provers cannot reason about.
- What recursive definitions and folds compute on every input: the packing of
  `ClaimVerification`, the compilation and numbering of `AnswerGeneration`, the rows of
  `Research`. There TLC goes through every input within the bounds.
- The pages' properties. The pages are reduced to one user and one
  script, with few requests, so that the bounds of the runs leave little out.

## What is merged or left out of single actions

None of the properties depends on these; each is named with the code it simplifies:

- Two reads, or a read and a write, that the code takes apart are one step where nothing in between
  can change what the second one relies on, or where it is fenced: `IngestionJobs.Upload` (candidates are
  read at `ingestion-lifecycle.ts:155` and locked at 669), `IngestionJobs.ExecuteControl` (`control.ts:44`
  lists the jobs once and then calls the services one by one; the answer is stored by `AckControl`, fenced,
  at any later time), `SourceContent.PrepareDeletion` (works through an earlier list, and looks at the row again
  under its lock), `SourceLibraries.PickSource` and `RemoveLibrary` (a library in deletion gets no new
  sources), `WorkerDispatch.JobStarted` (counts before it writes the heartbeat), and
  `DoclingOrchestrator.Remove` and `Terminate` (a notifier is awaited between the parts).
- `McpTasks`: a reconciliation that began before `close` still fails leases and deletes rows; it lists
  nothing in the model, because what it lists is enqueued by nobody.
- `InferenceCoordinator`: the five workload priorities are two classes, the two that the background turn
  tells apart; settings version 0, which skips the comparison of versions, occurs only in tests.
- `SourceContent.CompleteCutover`: copies that a failed cut-over leaves in the new store are not followed;
  no row refers to them.
- `ClaimVerification.Plan`: of the limits of the scorer, the one on attention cells and the one on the bytes of a
  request are left out.
- `SettingsPage`: `resetField` (`settings-resets.js:25`) stages a value in the drafts; no fragment calls it.

## Not modelled

Whole components: the PDF and VLM pipelines and the element conversion of the Docling service
(data inside a disposable process), observability (records that are only appended), the
command line (its ingestion is an actor of `IngestionJobs`). Of the modelled ones, `PROJECT.json` notes
what is left out; where it may be missed: ranking and retrieval windows are inputs of
`AnswerGeneration`; conflict groups of drafts, chat topics whose titles are decoration only
(not in the preview, but published), one-title threads, stale flags, reproducibility,
exports and version differences of `Research` are left out, and so is a deletion whose choice of
turns misses an uncited turn that is being saved with the file in its context; migrations of the
database schema; rate limits and the cryptography of tokens.

## What would come next

1. The pages with a queue of their own (`DocumentNotifications`, `StateRevisions`).
2. The folds of `AnswerGeneration` and `ClaimVerification`, once lemmas on `FoldSeq` can be proved.
