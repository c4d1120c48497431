--------------------------- MODULE WorkerDispatch ---------------------------
(***************************************************************************)
(* One worker process: the dispatcher that claims jobs and waits for       *)
(* revisions (runWorkerDispatcher), the settings it adopts on the way      *)
(* (ReloadingIngestionProcessor), the claim with its probes of the Docling *)
(* services (IngestionProcessor.claimNextJob), the tasks it starts, the    *)
(* migration loop and the error retention beside it, and the end of all    *)
(* of them (runIngestionWorker).                                           *)
(***************************************************************************)
EXTENDS Integers, FiniteSets, FiniteSetsExt

CONSTANTS
    Jobs,           \* jobs of the queue
    Assigned,       \* for the jobs that need Docling: their service, or NoService
    Services,       \* Docling services of the settings
    NoService,
    Concurrency,    \* for each version of the settings: worker.concurrency
    MaxFaults,      \* database calls that fail
    MaxOutages      \* services that fail or come back

DispatchAssumption ==
    /\ DOMAIN Assigned \subseteq Jobs /\ NoService \notin Services
    /\ \A j \in DOMAIN Assigned : Assigned[j] \in Services \cup {NoService}
    /\ 0 \in DOMAIN Concurrency
    /\ \A v \in DOMAIN Concurrency : v \in Nat /\ Concurrency[v] \in Nat \ {0}
    /\ {MaxFaults, MaxOutages} \subseteq Nat

VARIABLES
    job,        \* ingestion_jobs: absent, due, claimed (by this worker), over
    service,    \* which services answer, and which rows carry an error category
    settings,   \* the stored version of the settings
    processor,  \* version of the installed processor
    pending,    \* pendingRevisionChannels
    dispatcher, \* where runWorkerDispatcher is, and its local variables
    claim,      \* claimNextJob under way
    delayed,    \* backoff: retryAtMs is in the future
    task,       \* active: for each job the task that starts or works on it
    ending,     \* active: how many tasks report that they have finished (jobFinished)
    registry,   \* WorkerRegistry: activeJobs
    migration,  \* the migration loop
    retention,  \* the error retention controller
    worker,     \* runIngestionWorker: up, closing, stopping, closed
    aborted,    \* options.signal
    unseen,     \* ghost: jobs that came since the queue was last read for their kind
    missed,     \* ghost: a revision came while the listener was not connected
    faults, outages

vars == <<job, service, settings, processor, pending, dispatcher, claim, delayed, task, ending,
          registry, migration, retention, worker, aborted, unseen, missed, faults, outages>>
bounds == <<faults, outages>>
database == <<job, service, settings, unseen, missed>>
others == <<ending, registry, migration, retention, worker, aborted>>

DoclingJobs == DOMAIN Assigned
Versions == DOMAIN Concurrency
NoClaim == [at |-> "none", verify |-> FALSE, wanted |-> {}, available |-> {}, probeFailed |-> FALSE]
Active == Cardinality({j \in Jobs : task[j] # "none"}) + ending
Full == Active >= Concurrency[processor]

Init ==
    /\ job \in [Jobs -> {"absent", "due"}]
    /\ service \in [up : {Services}, failed : SUBSET Services]
    /\ settings = 0 /\ processor = 0 /\ pending = {}
    /\ dispatcher \in [at : {"refresh"}, once : BOOLEAN, read : {0}, wake : {{}}]
    /\ claim = NoClaim /\ delayed = FALSE /\ task = [j \in Jobs |-> "none"] /\ ending = 0
    /\ registry = 0 /\ migration = "polling" /\ retention = [closed |-> FALSE, running |-> TRUE, timer |-> FALSE]
    /\ worker = "up" /\ aborted = FALSE
    /\ unseen = {j \in Jobs : job[j] = "due"} /\ missed = FALSE /\ faults = 0 /\ outages = 0

At(p) == dispatcher.at = p
Goes(p) == dispatcher' = [dispatcher EXCEPT !.at = p]
Open == worker # "closed"
Fault == faults < MaxFaults /\ faults' = faults + 1 /\ UNCHANGED outages

-----------------------------------------------------------------------------
(* The database, the services and the listener. *)

\* Every change of a job's row publishes a revision, the changes of this worker too.
\* The subscriber of ReloadingIngestionProcessor collects the channels.
Told(channel) == pending' = pending \cup {channel} /\ UNCHANGED missed
\* The listener is not connected.
Announce(channel) == Told(channel) \/ (missed' = TRUE /\ UNCHANGED pending)

Enqueue(j) ==
    /\ job[j] = "absent" /\ job' = [job EXCEPT ![j] = "due"]
    /\ unseen' = unseen \cup {j} /\ Announce("jobs")
    /\ UNCHANGED <<service, settings, processor, dispatcher, claim, delayed, task, others, bounds>>

\* The lease of a claim nobody works on expires: no revision tells of that.
LeaseExpires(j) ==
    /\ job[j] = "claimed" /\ task[j] = "none" /\ job' = [job EXCEPT ![j] = "due"]
    /\ UNCHANGED <<service, settings, processor, pending, dispatcher, claim, delayed, task, others,
                   unseen, missed, bounds>>

\* Another worker takes the job and finishes it.
TakenElsewhere(j) ==
    /\ job[j] = "due" /\ job' = [job EXCEPT ![j] = "over"] /\ unseen' = unseen \ {j} /\ Told("jobs")
    /\ UNCHANGED <<service, settings, processor, dispatcher, claim, delayed, task, others, bounds>>

SaveSettings ==
    /\ settings + 1 \in Versions /\ settings' = settings + 1 /\ Announce("settings")
    /\ UNCHANGED <<job, service, processor, dispatcher, claim, delayed, task, others, unseen, bounds>>

\* A service stops to answer, or answers again.
Outage(s) ==
    /\ outages < MaxOutages /\ outages' = outages + 1
    /\ service' = [service EXCEPT !.up = SymDiff(@, {s})]
    /\ UNCHANGED <<job, settings, processor, pending, dispatcher, claim, delayed, task, others,
                   unseen, missed, faults>>

\* retryAtMs is reached.
DelayEnds ==
    /\ delayed /\ delayed' = FALSE
    /\ UNCHANGED <<database, processor, pending, dispatcher, claim, task, others, bounds>>

-----------------------------------------------------------------------------
(* runWorkerDispatcher: its loops. *)

\* refreshIfChanged reads the settings; a processor for new ones is built first.
Refresh ==
    /\ Open /\ dispatcher.at \in {"refresh", "again"}
    /\ dispatcher' = [dispatcher EXCEPT
          !.read = settings,
          !.at = IF At("refresh") /\ aborted THEN "drain"
                 ELSE IF settings # processor THEN (IF At("refresh") THEN "install" ELSE "installAgain")
                 ELSE IF At("refresh") THEN "claims"
                 ELSE IF dispatcher.once THEN "returned" ELSE "wait"]
    /\ UNCHANGED <<database, processor, pending, claim, delayed, task, others, bounds>>

\* install, and the reset of the backoff.  Whatever is new is tried again.
Install ==
    /\ Open /\ dispatcher.at \in {"install", "installAgain"}
    /\ processor' = dispatcher.read /\ delayed' = FALSE
    /\ dispatcher' = [dispatcher EXCEPT !.at = IF At("install") THEN "claims" ELSE "refresh"]
    /\ UNCHANGED <<database, pending, claim, task, others, bounds>>

\* The inner loop: another claim, or the waits that follow it.
ClaimNext ==
    /\ At("claims")
    /\ IF Full \/ aborted
       THEN /\ Goes(IF aborted THEN "drain" ELSE IF Active > 0 THEN "wait" ELSE "again")
            /\ UNCHANGED claim
       ELSE /\ Goes("claiming")
            /\ claim' = [NoClaim EXCEPT !.at = "plain", !.verify = ~delayed]
    /\ UNCHANGED <<database, processor, pending, delayed, task, others, bounds>>

\* waitForWakeup hands over what is pending, now or when a revision ends its wait.
DropRevisions ==
    /\ At("wait") /\ dispatcher.wake = {} /\ pending # {} /\ pending' = {}
    /\ UNCHANGED <<database, processor, dispatcher, claim, delayed, task, others, bounds>>
TakeRevisions ==
    /\ At("wait") /\ dispatcher.wake = {} /\ pending # {}
    /\ dispatcher' = [dispatcher EXCEPT !.wake = pending] /\ pending' = {}
    /\ UNCHANGED <<database, processor, claim, delayed, task, others, bounds>>

\* interruptBackoffForRevision, unless a task that ended was faster (TaskEnds).
Awake(p) == [p EXCEPT !.at = "refresh", !.wake = {}]
Wakeup ==
    /\ At("wait") /\ dispatcher.wake # {} /\ dispatcher' = Awake(dispatcher)
    /\ delayed' = (delayed /\ dispatcher.wake \cap {"jobs", "settings"} = {})
    /\ UNCHANGED <<database, processor, pending, claim, task, others, bounds>>

\* The fallback interval is over, or what is left of the backoff when that is shorter
\* and a service was missing (doclingWaiting).  What nobody was told of is read again.
Timeout ==
    /\ At("wait") /\ dispatcher.wake = {} /\ pending = {} /\ dispatcher' = Awake(dispatcher)
    /\ missed' = FALSE
    /\ UNCHANGED <<job, service, settings, unseen, processor, pending, claim, delayed, task, others, bounds>>

\* The abort signal ends the wait.
Interrupted ==
    /\ At("wait") /\ aborted /\ dispatcher' = [dispatcher EXCEPT !.at = "drain", !.wake = {}]
    /\ UNCHANGED <<database, processor, pending, claim, delayed, task, others, bounds>>

ReturnedAtOnce ==
    /\ At("drain") /\ Goes("returned")
    /\ UNCHANGED <<database, processor, pending, claim, delayed, task, others, bounds>>
Returned ==
    /\ At("drain") /\ Active = 0 /\ Goes("returned")
    /\ UNCHANGED <<database, processor, pending, claim, delayed, task, others, bounds>>

\* A read of the settings, a call of install or of a claim fails, for good once the
\* database is closed; the answer of a claim that was committed may be lost.
DispatcherFails ==
    /\ dispatcher.at \in {"refresh", "again", "install", "installAgain", "claiming"}
    /\ IF Open THEN Fault ELSE UNCHANGED bounds
    /\ Goes("failed") /\ claim' = NoClaim
    /\ \/ UNCHANGED job
       \/ /\ Open /\ claim.at \in {"plain", "docling"}
          /\ \E j \in Jobs : job[j] = "due" /\ job' = [job EXCEPT ![j] = "claimed"]
    /\ UNCHANGED <<service, settings, unseen, missed, processor, pending, delayed, task, others>>

-----------------------------------------------------------------------------
(* claimNextJob. *)

Due(set) == {j \in set : job[j] = "due"}
ClaimAt(p) == At("claiming") /\ claim.at = p /\ Open
Unclaimed == UNCHANGED <<job, task>>

\* What the dispatcher makes of each answer.
Idle ==
    /\ claim' = NoClaim /\ delayed' = FALSE
    /\ Goes(IF aborted THEN "drain" ELSE IF Active > 0 THEN "wait" ELSE "again")

Unavailable(probeFailed) ==
    /\ claim' = NoClaim /\ delayed' = (delayed \/ probeFailed)
    /\ Goes(IF aborted THEN "drain" ELSE IF Active > 0 THEN "wait" ELSE "again")

\* The task of a claimed job is started even if the worker was told to stop meanwhile.
ClaimedUnlessAborted(j, probeFailed) ==
    /\ job' = [job EXCEPT ![j] = "claimed"] /\ task' = IF aborted THEN task ELSE [task EXCEPT ![j] = "starting"]
    /\ claim' = NoClaim /\ delayed' = (delayed \/ probeFailed)
    /\ Goes("claims")
Claimed(j, probeFailed) ==
    /\ job' = [job EXCEPT ![j] = "claimed"] /\ task' = [task EXCEPT ![j] = "starting"]
    /\ claim' = NoClaim /\ delayed' = (delayed \/ probeFailed)
    /\ Goes("claims")

\* claimNextNonDoclingJob.
ClaimPlain ==
    /\ ClaimAt("plain")
    /\ IF Due(Jobs \ DoclingJobs) # {}
       THEN /\ \E j \in Due(Jobs \ DoclingJobs) : Claimed(j, FALSE) /\ unseen' = unseen \ {j}
            /\ Told("jobs")
       ELSE /\ claim' = [claim EXCEPT !.at = "demand"] /\ unseen' = unseen \cap DoclingJobs
            /\ Unclaimed /\ UNCHANGED <<dispatcher, delayed, pending, missed>>
    /\ UNCHANGED <<service, settings, processor, others, bounds>>

\* readDueDoclingDemand.
ReadDemand ==
    /\ ClaimAt("demand") /\ Unclaimed /\ unseen' = unseen \ DoclingJobs
    /\ IF Due(DoclingJobs) = {} THEN Idle
       ELSE /\ claim' = [claim EXCEPT !.at = "probe", !.wanted = {Assigned[j] : j \in Due(DoclingJobs)}]
            /\ UNCHANGED <<dispatcher, delayed>>
    /\ UNCHANGED <<service, settings, missed, processor, pending, others, bounds>>

\* verifyDemand: services with an error are spared during the backoff, all others
\* are probed and their rows written.
Required == IF NoService \in claim.wanted THEN Services ELSE claim.wanted
ProbedUnlessFailed == Required \ service.failed
Probed == IF claim.verify THEN Required ELSE Required \ service.failed
Probe ==
    /\ ClaimAt("probe") /\ Unclaimed
    /\ service' = [service EXCEPT !.failed = (@ \ Probed) \cup (Probed \ service.up)]
    /\ LET available == Probed \cap service.up
           probeFailed == Probed # available
       IN IF available = {} THEN Unavailable(probeFailed)
          ELSE /\ claim' = [claim EXCEPT !.at = "docling", !.available = available, !.probeFailed = probeFailed]
               /\ UNCHANGED <<dispatcher, delayed>>
    /\ UNCHANGED <<settings, unseen, missed, processor, pending, others, bounds>>

\* StaleDoclingServiceVerificationError: the registry has newer settings already.
ProbeIsStale ==
    /\ ClaimAt("probe") /\ settings # processor /\ Unclaimed /\ Unavailable(TRUE)
    /\ UNCHANGED <<database, processor, pending, others, bounds>>

\* hasDoclingServicesWaiting, and claimNextDoclingJob.
ServicesWaiting == (claim.wanted \cap Services) \ claim.available # {}
Eligible == claim.available \cup (claim.wanted \cap {NoService})
ClaimDocling ==
    /\ ClaimAt("docling")
    /\ LET found == {j \in Due(DoclingJobs) : Assigned[j] \in Eligible}
       IN IF found # {}
          THEN /\ \E j \in found : Claimed(j, claim.probeFailed) /\ unseen' = unseen \ {j}
               /\ Told("jobs")
          ELSE /\ IF ServicesWaiting THEN Unavailable(claim.probeFailed) ELSE Idle
               /\ Unclaimed /\ UNCHANGED <<unseen, pending, missed>>
    /\ UNCHANGED <<service, settings, processor, others, bounds>>

-----------------------------------------------------------------------------
(* processClaimedWork. *)

\* A task that ends leaves the set; the dispatcher that waits for it goes on, and
\* channels a wake-up has handed over meanwhile are dropped with it.
TaskEnds == dispatcher' = IF At("wait") THEN Awake(dispatcher) ELSE dispatcher
TasksOnly == UNCHANGED <<service, settings, processor, claim, delayed, migration, retention, worker, aborted>>

JobStarted(j) ==
    /\ task[j] = "starting" /\ Open /\ registry' = registry + 1 /\ task' = [task EXCEPT ![j] = "working"]
    /\ TasksOnly /\ UNCHANGED <<ending, job, pending, unseen, missed, dispatcher, bounds>>

\* Each step of the processing writes the row of the job.
Progress(j) ==
    /\ task[j] = "working" /\ Open /\ Told("jobs") /\ TasksOnly
    /\ UNCHANGED <<task, ending, registry, dispatcher, job, unseen, bounds>>

\* The heartbeat is not written: the job is not processed, and was counted.
JobStartFails(j) ==
    /\ task[j] = "starting" /\ (IF Open THEN Fault ELSE UNCHANGED bounds)
    /\ registry' = registry + 1 /\ task' = [task EXCEPT ![j] = "none"] /\ TaskEnds /\ TasksOnly
    /\ UNCHANGED <<ending, job, pending, unseen, missed>>

\* processClaimedJob: the job is over, or due again after a failure or the stop of the
\* worker, or keeps its lease when that cannot be written.
Processed(j, state) ==
    /\ job' = [job EXCEPT ![j] = state] /\ task' = [task EXCEPT ![j] = "none"] /\ ending' = ending + 1
    /\ IF state = "claimed" THEN UNCHANGED <<pending, missed>> ELSE Told("jobs")
    /\ unseen' = IF state = "due" THEN unseen \cup {j} ELSE unseen
Process(j) ==
    /\ task[j] = "working"
    /\ \/ Open /\ Processed(j, "over") /\ UNCHANGED bounds
       \/ Open /\ Processed(j, "due") /\ (IF aborted THEN UNCHANGED bounds ELSE Fault)
       \/ Processed(j, "claimed") /\ (IF Open THEN Fault ELSE UNCHANGED bounds)
    /\ TasksOnly /\ UNCHANGED <<registry, dispatcher>>

\* jobFinished counts first: it makes no difference whether the heartbeat is written.
Finished(change) ==
    /\ ending > 0 /\ ending' = ending - 1 /\ registry' = Max({0, registry + change}) /\ TaskEnds /\ TasksOnly
    /\ UNCHANGED <<task, job, pending, unseen, missed, bounds>>
JobNotCounted == Finished(0)
JobFinished == Finished(-1)

-----------------------------------------------------------------------------
(* runSourceContentMigrationWorker and the error retention. *)

Beside == UNCHANGED <<database, processor, pending, dispatcher, claim, delayed, task, ending>>

MigrationStarts ==
    /\ migration = "polling" /\ ~aborted /\ Open /\ migration' = "working" /\ registry' = registry + 1
    /\ Beside /\ UNCHANGED <<retention, worker, aborted, bounds>>

MigrationFinishes ==
    /\ migration = "working" /\ Open /\ registry' = Max({0, registry - 1})
    /\ migration' = IF dispatcher.once THEN "ended" ELSE "polling"
    /\ Beside /\ UNCHANGED <<retention, worker, aborted, bounds>>

MigrationEnds ==
    /\ migration = "polling" /\ (aborted \/ dispatcher.once)
    /\ migration' = "ended"
    /\ Beside /\ UNCHANGED <<registry, retention, worker, aborted, bounds>>

\* A claim or a heartbeat fails: the loop throws, having counted its work or not.
MigrationFails ==
    /\ migration \in {"polling", "working"} /\ migration' = "failed"
    /\ IF Open THEN Fault ELSE UNCHANGED bounds
    /\ registry' \in IF migration = "polling" THEN {registry, registry + 1} ELSE {Max({0, registry - 1})}
    /\ Beside /\ UNCHANGED <<retention, worker, aborted>>

\* execute, and schedule in its finally.
RetentionEndsWhileOpen ==
    /\ retention.running /\ ~retention.closed /\ retention' = [retention EXCEPT !.running = FALSE, !.timer = TRUE]
    /\ Beside /\ UNCHANGED <<registry, migration, worker, aborted, bounds>>
RetentionEnds ==
    /\ retention.running /\ retention' = [retention EXCEPT !.running = FALSE, !.timer = ~retention.closed]
    /\ Beside /\ UNCHANGED <<registry, migration, worker, aborted, bounds>>


\* requestRun.
RetentionTimer ==
    /\ retention.timer
    /\ retention' = [retention EXCEPT !.timer = FALSE, !.running = @ \/ ~retention.closed]
    /\ Beside /\ UNCHANGED <<registry, migration, worker, aborted, bounds>>

-----------------------------------------------------------------------------
(* runIngestionWorker. *)

Abort ==
    /\ ~aborted /\ aborted' = TRUE
    /\ Beside /\ UNCHANGED <<registry, migration, retention, worker, bounds>>

\* Promise.all: both loops have returned, or one of them has thrown.
LoopsOver == At("returned") /\ migration = "ended"
LoopFailed == At("failed") \/ migration = "failed"

\* errorRetention.close.
CloseRetention ==
    /\ worker = "up" /\ (LoopsOver \/ LoopFailed) /\ worker' = "closing"
    /\ retention' = [retention EXCEPT !.closed = TRUE, !.timer = FALSE]
    /\ Beside /\ UNCHANGED <<registry, migration, aborted, bounds>>

\* registry.stop, and the database is closed.
Close ==
    /\ worker = "closing" /\ ~retention.running /\ worker' = "closed"
    /\ Beside /\ UNCHANGED <<registry, migration, retention, aborted, bounds>>

Environment == \E j \in Jobs : Enqueue(j) \/ LeaseExpires(j) \/ TakenElsewhere(j)
Dispatch ==
    \/ Refresh \/ Install \/ ClaimNext \/ TakeRevisions \/ Wakeup \/ Timeout \/ Interrupted \/ Returned
    \/ ClaimPlain \/ ReadDemand \/ Probe \/ ProbeIsStale \/ ClaimDocling
Work(j) == JobStarted(j) \/ Process(j)
Migrate == MigrationStarts \/ MigrationFinishes \/ MigrationEnds
Retain == RetentionEnds \/ RetentionTimer
Next ==
    \/ Environment \/ SaveSettings \/ (\E s \in Services : Outage(s)) \/ DelayEnds \/ Abort
    \/ Dispatch \/ DispatcherFails \/ (\E j \in Jobs : Work(j) \/ Progress(j) \/ JobStartFails(j)) \/ JobFinished
    \/ Migrate \/ MigrationFails \/ Retain \/ CloseRetention \/ Close

Spec == Init /\ [][Next]_vars

\* Every await is answered, timers fire, and a closed database refuses.
Refused == ~Open /\ (DispatcherFails \/ MigrationFails \/ \E j \in Jobs : JobStartFails(j))
Fairness ==
    /\ WF_vars(Dispatch) /\ WF_vars(JobFinished) /\ WF_vars(DelayEnds) /\ WF_vars(Refused)
    /\ \A j \in Jobs : WF_vars(Work(j)) /\ WF_vars(LeaseExpires(j))
    /\ WF_vars(MigrationFinishes) /\ WF_vars(MigrationEnds)
    /\ WF_vars(Retain) /\ WF_vars(CloseRetention) /\ WF_vars(Close)
FairSpec == Spec /\ Fairness

-----------------------------------------------------------------------------
(* Properties. *)

Points == {"refresh", "install", "again", "installAgain", "claims", "claiming", "wait", "drain",
           "returned", "failed"}
\* Types of the variables.
TypeOK ==
    /\ job \in [Jobs -> {"absent", "due", "claimed", "over"}]
    /\ service.up \subseteq Services /\ service.failed \subseteq Services
    /\ settings \in Versions /\ processor \in Versions /\ pending \subseteq {"jobs", "settings"}
    /\ dispatcher \in [at : Points, once : BOOLEAN, read : Versions, wake : SUBSET {"jobs", "settings"}]
    /\ (claim.at # "none") = At("claiming") /\ delayed \in BOOLEAN
    /\ task \in [Jobs -> {"none", "starting", "working"}] /\ ending \in Nat /\ registry \in Nat
    /\ migration \in {"polling", "working", "ended", "failed"}
    /\ retention \in [{"closed", "running", "timer"} -> BOOLEAN]
    /\ worker \in {"up", "closing", "closed"} /\ aborted \in BOOLEAN /\ missed \in BOOLEAN
    /\ unseen \subseteq Jobs

\* A dispatcher that waits, and was told of everything, has read the settings as they are
\* and has read the queue after every job that came, unless it has as many tasks as it
\* may: a revision that arrives while it claims is not slept over.
NoWakeUpIsLost ==
    At("wait") /\ dispatcher.wake = {} /\ pending = {} /\ ~missed
        => processor = settings /\ (Full \/ unseen = {})

\* A job that was claimed has a task that works on it, also when the worker is told to
\* stop during the claim, as long as no database call fails.
ClaimedIsHeld == \A j \in Jobs : job[j] = "claimed" /\ faults = 0 => task[j] # "none"

\* The heartbeat says "working" while anything works, and "idle" again once nothing does:
\* activeJobs counts every task, and exactly those while no heartbeat fails.
CountsItsTasks ==
    LET working == Cardinality({j \in Jobs : task[j] = "working"}) + ending
                   + (IF migration = "working" THEN 1 ELSE 0)
    IN registry >= working /\ (faults = 0 => registry = working)

\* The worker that closes its database without a failure has no task left, no migration
\* and no retention that would still use it; the retention is quiet even after a failure.
EndIsQuiet ==
    /\ worker = "closed" => ~retention.running /\ ~retention.timer
    /\ worker # "up" /\ faults = 0 => Active = 0 /\ claim = NoClaim /\ migration = "ended"

\* A due job is claimed in the end, by whoever, or the worker ends: a job whose service
\* is down waits for the backoff and no longer.
Serves(j) == j \notin DoclingJobs \/ (IF Assigned[j] = NoService THEN service.up # {} ELSE Assigned[j] \in service.up)
DueIsClaimed == \A j \in Jobs : job[j] = "due" /\ Serves(j) ~>
          job[j] # "due" \/ ~Serves(j) \/ dispatcher.at \in {"drain", "returned", "failed"}

\* A worker that is told to stop finishes its tasks and closes; one that lost a loop closes.
WorkerEnds == (aborted \/ LoopFailed) ~> worker = "closed"
=============================================================================
