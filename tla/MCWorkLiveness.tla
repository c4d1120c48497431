--------------------------- MODULE MCWorkLiveness ----------------------------
(* Liveness of the queues: every behaviour is one component, the others stay as they begin. *)
EXTENDS Naturals, FiniteSets, TLC

CONSTANTS Nil

VARIABLE part   \* the component this behaviour explores
\* TaskLimiter
VARIABLES active, waiters, pc, aborted, started
\* IngestionJobs
VARIABLES job, ckpt, indexed, remote, acks, wk, claims, tasks, gens
\* DoclingOrchestrator
VARIABLES status, request, released, content, results, manifest, pausing,
          terminating, queueList, taskQueue, orchestratorActive,
          orchestratorWk, ctl, wanted
\* DoclingServices
VARIABLES settings, latest, row, registryJob, process, starts
\* SourceContent
VARIABLES objects, rows, young, since, referenced, deletions, contentActive,
          migration, conf, publisher, cleaner, worker, budget
\* SourceLibraries
VARIABLES library, queue, grant, file, listed, libraryContent, call, server
\* McpTasks
VARIABLES task, run, mcpProcess, mcpListed, cancelling, mcpClaims, faults,
          closes
\* ChatRuns
VARIABLES open, chatRun, answer, handler
\* WorkerDispatch
VARIABLES dispatchJob, service, dispatchSettings, processor, pending,
          dispatcher, claim, delayed, dispatchTask, ending, registry,
          dispatchMigration, retention, dispatchWorker, dispatchAborted,
          unseen, missed, dispatchFaults, outages
\* VerificationJobs
VARIABLES verificationJob, verdicts, verificationServer

limiterVars == <<active, waiters, pc, aborted, started>>
ingestionVars == <<job, ckpt, indexed, remote, acks, wk, claims, tasks, gens>>
orchestratorVars == <<status, request, released, content, results, manifest,
                      pausing, terminating, queueList, taskQueue,
                      orchestratorActive, orchestratorWk, ctl, wanted>>
registryVars == <<settings, latest, row, registryJob, process, starts>>
contentVars == <<objects, rows, young, since, referenced, deletions,
                 contentActive, migration, conf, publisher, cleaner, worker,
                 budget>>
libraryVars == <<library, queue, grant, file, listed, libraryContent, call,
                 server>>
mcpVars == <<task, run, mcpProcess, mcpListed, cancelling, mcpClaims, faults,
             closes>>
chatVars == <<open, chatRun, answer, handler>>
dispatchVars == <<dispatchJob, service, dispatchSettings, processor, pending,
                  dispatcher, claim, delayed, dispatchTask, ending, registry,
                  dispatchMigration, retention, dispatchWorker,
                  dispatchAborted, unseen, missed, dispatchFaults, outages>>
verificationVars == <<verificationJob, verdicts, verificationServer>>
vars == <<part, limiterVars, ingestionVars, orchestratorVars, registryVars,
          contentVars, libraryVars, mcpVars, chatVars, dispatchVars,
          verificationVars>>

Limiter == INSTANCE TaskLimiter WITH
    Tasks <- {"t1", "t2", "t3"}, Capacity <- 1
Ingestion == INSTANCE IngestionJobs WITH
    Files <- {"f1"}, Docs <- {"d1"}, PlainText <- {}, RestartTask <- {},
    Services <- {"s1"}, Daemons <- {"w1"}, Clis <- {}, MaxAttempts <- 1,
    MaxClaims <- 2, MaxTasks <- 1, MaxGens <- 1, NoFile <- Nil, NoDoc <- Nil,
    NoService <- Nil
Orchestrator == INSTANCE DoclingOrchestrator WITH
    Tasks <- {"t1"}, Requests <- {"pdf"}, PdfRequests <- {"pdf"},
    Workers <- {"w1"}, Callers <- {"c1"}, PageCount <- 2, RangeSize <- 2,
    MaxQueue <- 2, NoTask <- Nil, NoRequest <- Nil, NoWorker <- Nil,
    active <- orchestratorActive, wk <- orchestratorWk
Registry == INSTANCE DoclingServices WITH
    Services <- {"s1", "s2"}, Urls <- {"u1", "u2"}, Jobs <- {"j1", "j2"},
    Processes <- {"p1"}, Capacities <- {1}, MaxVersion <- 1, MaxStarts <- 1,
    None <- Nil, job <- registryJob
Content == INSTANCE SourceContent WITH
    DocCount <- 1, Backends <- {"disk", "bucket"}, FirstBackend <- "disk",
    Publishers <- {"p1"}, Cleaners <- {"c1"}, Workers <- {"w1"},
    BatchSize <- 1, MaxPublishes <- 2, MaxMigrations <- 1, MaxFaults <- 1,
    None <- Nil, active <- contentActive
Library == INSTANCE SourceLibraries WITH
    Libraries <- {"l1", "l2"}, Workspaces <- {"w1"}, Calls <- {"c1"},
    Files <- {1, 2}, Broken <- {2}, Servers <- {"s1"}, NoLibrary <- Nil,
    content <- libraryContent
Mcp == INSTANCE McpTasks WITH
    Tasks <- {"t1"}, Processes <- {"p1", "p2"}, MaxFaults <- 2,
    MaxCloses <- 0, None <- Nil, process <- mcpProcess, listed <- mcpListed,
    claims <- mcpClaims
Chat == INSTANCE ChatRuns WITH
    Runs <- {"r1", "r2"}, Handlers <- {"h1", "h2"}, MaxAttempts <- 1,
    NoRun <- Nil, run <- chatRun
Dispatch == INSTANCE WorkerDispatch WITH
    Jobs <- {"d1"}, Assigned <- [j \in {"d1"} |-> "s1"], Services <- {"s1"},
    NoService <- Nil, Concurrency <- [v \in {0} |-> 1], MaxFaults <- 1,
    MaxOutages <- 1, job <- dispatchJob, settings <- dispatchSettings,
    task <- dispatchTask, migration <- dispatchMigration,
    worker <- dispatchWorker, aborted <- dispatchAborted,
    faults <- dispatchFaults
Verification == INSTANCE VerificationJobs WITH
    Jobs <- {"j1"}, Servers <- {"s1", "s2"}, MaxFailures <- 2,
    MaxAttempts <- 4, NoJob <- Nil, job <- verificationJob,
    server <- verificationServer

ASSUME InstancesAssumption ==
    /\ Limiter!LimiterAssumption
    /\ Registry!ServicesAssumption
    /\ Content!SourceContentAssumption
    /\ Library!LibraryAssumption
    /\ Mcp!McpAssumption
    /\ Chat!ChatAssumption
    /\ Dispatch!DispatchAssumption
    /\ Verification!VerificationAssumption

\* The components that are not explored stay as they begin.
Init ==
    /\ part \in {"limiter", "ingestion", "orchestrator", "registry",
                 "content", "libraries", "mcp", "chat", "dispatch",
                 "verification"}
    /\ Limiter!Init
    /\ Ingestion!Init
    /\ Orchestrator!Init
    /\ Registry!Init
    /\ part # "registry" => settings[1]["s2"] = Nil /\ settings[1]["s1"].url = "u1"
    /\ Content!Init
    /\ Library!Init
    /\ Mcp!Init
    /\ Chat!Init
    /\ Dispatch!Init
    /\ part # "dispatch" => unseen = {} /\ ~dispatcher.once /\ service.failed = {}
    /\ Verification!Init

Next ==
    /\ UNCHANGED part
    /\ \/ /\ part = "limiter" /\ Limiter!Next
          /\ UNCHANGED <<ingestionVars, orchestratorVars, registryVars,
                         contentVars, libraryVars, mcpVars, chatVars,
                         dispatchVars, verificationVars>>
       \/ /\ part = "ingestion" /\ Ingestion!Next
          /\ UNCHANGED <<limiterVars, orchestratorVars, registryVars,
                         contentVars, libraryVars, mcpVars, chatVars,
                         dispatchVars, verificationVars>>
       \/ /\ part = "orchestrator" /\ Orchestrator!Next
          /\ UNCHANGED <<limiterVars, ingestionVars, registryVars,
                         contentVars, libraryVars, mcpVars, chatVars,
                         dispatchVars, verificationVars>>
       \/ /\ part = "registry" /\ Registry!Next
          /\ UNCHANGED <<limiterVars, ingestionVars, orchestratorVars,
                         contentVars, libraryVars, mcpVars, chatVars,
                         dispatchVars, verificationVars>>
       \/ /\ part = "content" /\ Content!Next
          /\ UNCHANGED <<limiterVars, ingestionVars, orchestratorVars,
                         registryVars, libraryVars, mcpVars, chatVars,
                         dispatchVars, verificationVars>>
       \/ /\ part = "libraries" /\ Library!Next
          /\ "archived" \notin {library'[l] : l \in {"l1", "l2"}}
          /\ call'["c1"].op \in {"none", "upload"}
          /\ "use" \notin {grant'[l]["w1"] : l \in {"l1", "l2"}}
          /\ UNCHANGED <<limiterVars, ingestionVars, orchestratorVars,
                         registryVars, contentVars, mcpVars, chatVars,
                         dispatchVars, verificationVars>>
       \/ /\ part = "mcp" /\ Mcp!Next
          /\ UNCHANGED <<limiterVars, ingestionVars, orchestratorVars,
                         registryVars, contentVars, libraryVars, chatVars,
                         dispatchVars, verificationVars>>
       \/ /\ part = "chat" /\ Chat!Next
          /\ UNCHANGED <<limiterVars, ingestionVars, orchestratorVars,
                         registryVars, contentVars, libraryVars, mcpVars,
                         dispatchVars, verificationVars>>
       \/ /\ part = "dispatch" /\ Dispatch!Next
          /\ UNCHANGED <<limiterVars, ingestionVars, orchestratorVars,
                         registryVars, contentVars, libraryVars, mcpVars,
                         chatVars, verificationVars>>
       \/ /\ part = "verification" /\ Verification!Next
          /\ UNCHANGED <<limiterVars, ingestionVars, orchestratorVars,
                         registryVars, contentVars, libraryVars, mcpVars,
                         chatVars, dispatchVars>>

\* Fairness that every property may assume; what else it assumes is its antecedent.
FairSpec ==
    /\ Init /\ [][Next]_vars
    /\ WF_limiterVars(part = "limiter" /\
           \E t \in {"t1", "t2", "t3"} : Limiter!Continue(t) \/ Limiter!Complete(t))
-----------------------------------------------------------------------------
\* Under the fairness of each component: callers of the limiter are answered;
\* pauses and cancellations settle; Docling controls return and pending tasks
\* are served; jobs are converted, verified and answered; a dead worker
\* blocks no conversation; due jobs are claimed and a worker that is told to
\* stop ends; abandoned content is removed, migrations settle, and a deleted
\* library goes away.
WorkIsSettled ==
    /\ part = "limiter" /\ Limiter!Fairness => Limiter!CallersAreAnswered
    /\ part = "ingestion" /\ Ingestion!Fairness => Ingestion!PauseSettles
    /\ part = "ingestion" /\ Ingestion!Fairness => Ingestion!CancelSettles
    /\ part = "orchestrator" /\ Orchestrator!Fairness => Orchestrator!ControlReturns
    /\ part = "orchestrator" /\ Orchestrator!Fairness => Orchestrator!PendingIsServed
    /\ part = "registry" /\ Registry!Fairness => Registry!JobsAreConverted
    /\ part = "content" /\ Content!Fairness => Content!AbandonedIsRemoved
    /\ part = "content" /\ Content!Fairness => Content!MigrationsSettle
    /\ part = "libraries" /\ Library!Fairness => Library!DeletionFinishes
    /\ part = "mcp" /\ Mcp!Fairness => Mcp!TasksEnd
    /\ part = "chat" /\ Chat!Fairness => Chat!NeverBlocked
    /\ part = "dispatch" /\ Dispatch!Fairness => Dispatch!DueIsClaimed
    /\ part = "dispatch" /\ Dispatch!Fairness => Dispatch!WorkerEnds
    /\ part = "verification" /\ Verification!Fairness => Verification!JobsAreSettled
=============================================================================
