------------------------------ MODULE MCQueues -------------------------------
(* Shared work: every behaviour is one queue, verifies the claims of one job, or fits the evidence of one answer into a context; the others stay as they begin. *)
EXTENDS ChatRuns, Naturals, FiniteSets, TLC

CONSTANTS Nil, Pair

VARIABLE part   \* the component this behaviour explores
\* LeaseHeartbeat
VARIABLES now, expiry, taken, phase, aborted, renewal, renewAt, deadlineAt,
          confirmed
\* TaskLimiter
VARIABLES active, waiters, pc, limiterAborted, started
\* VerificationJobs
VARIABLES job, verdicts, server
\* WorkerDispatch
VARIABLES dispatchJob, service, settings, processor, pending, dispatcher,
          claim, delayed, task, ending, registry, migration, retention,
          worker, dispatchAborted, unseen, missed, faults, outages
\* McpTasks
VARIABLES mcpTask, mcpRun, process, listed, cancelling, claims, mcpFaults,
          closes
\* ClaimVerification
VARIABLES claimsClaims, kind, Score, claimsPhase, sent, received, faulty,
          predicted
\* AnswerGeneration
VARIABLES contract, retrieved, capacity, expanded, budgetPhase, response,
          arrived, preview, published, metric, reason

ClaimTokens == [i \in {"t1", "t2"} \X {1, 2} |-> IF i[2] = 1 THEN 3 ELSE IF i[1] = "t1" THEN 1 ELSE 2]
ManySizes == {<<1, 0>>, <<1, 3>>, <<2, 0>>, <<2, 3>>}

heartbeatVars == <<now, expiry, taken, phase, aborted, renewal, renewAt,
                   deadlineAt, confirmed>>
limiterVars == <<active, waiters, pc, limiterAborted, started>>
verificationVars == <<job, verdicts, server>>
dispatchVars == <<dispatchJob, service, settings, processor, pending,
                  dispatcher, claim, delayed, task, ending, registry,
                  migration, retention, worker, dispatchAborted, unseen,
                  missed, faults, outages>>
mcpVars == <<mcpTask, mcpRun, process, listed, cancelling, claims, mcpFaults,
             closes>>
claimsVars == <<claimsClaims, kind, Score, claimsPhase, sent, received,
                faulty, predicted>>
budgetVars == <<contract, retrieved, capacity, expanded, budgetPhase,
                response, arrived, preview, published, metric, reason>>
suiteVars == <<part, heartbeatVars, limiterVars, vars, verificationVars,
               dispatchVars, mcpVars, claimsVars, budgetVars>>

Heartbeat == INSTANCE LeaseHeartbeat WITH
    Lease <- 6, MaxDelay <- 2, MaxTime <- 30
Limiter == INSTANCE TaskLimiter WITH
    Tasks <- {"t1", "t2", "t3", "t4"}, Capacity <- 2,
    aborted <- limiterAborted
Verification == INSTANCE VerificationJobs WITH
    Jobs <- Pair, Servers <- {"s1", "s2"}, MaxFailures <- 2, MaxAttempts <- 4,
    NoJob <- Nil
Dispatch == INSTANCE WorkerDispatch WITH
    Jobs <- {"p1", "d1"}, Assigned <- [j \in {"d1"} |-> "s1"],
    Services <- {"s1"}, NoService <- Nil, Concurrency <- [v \in {0, 1} |-> 1],
    MaxFaults <- 0, MaxOutages <- 1, job <- dispatchJob,
    aborted <- dispatchAborted
Failing == INSTANCE WorkerDispatch WITH
    Jobs <- {"d1"}, Assigned <- [j \in {"d1"} |-> "s1"], Services <- {"s1"},
    NoService <- Nil, Concurrency <- [v \in {0, 1} |-> 1], MaxFaults <- 1,
    MaxOutages <- 1, job <- dispatchJob, aborted <- dispatchAborted
Mcp == INSTANCE McpTasks WITH
    Tasks <- {"t1"}, Processes <- Pair, MaxFaults <- 3, MaxCloses <- 2,
    None <- Nil, task <- mcpTask, run <- mcpRun, faults <- mcpFaults
Claims == INSTANCE ClaimVerification WITH
    Texts <- {"t1", "t2"}, Citations <- {1, 2}, Tokens <- ClaimTokens,
    MaxItems <- 3, MaxText <- 7, BatchSize <- 2, PaddedTokens <- 5,
    MaxClaims <- 2, claims <- claimsClaims, phase <- claimsPhase
Budget == INSTANCE AnswerGeneration WITH
    Elements <- {"e1", "e2"}, Contracts <- {"ask"}, Sizes <- ManySizes,
    MaxRetrieved <- 3, MaxFindings <- 0, MaxRefs <- 2, MaxAtoms <- 1,
    Capacities <- {2, 3, 5, 8}, FixedTokens <- 1, SafetyMargin <- 1,
    MinimumOutput <- 1, phase <- budgetPhase

ASSUME InstancesAssumption ==
    /\ Heartbeat!HeartbeatAssumption
    /\ Limiter!LimiterAssumption
    /\ ChatAssumption
    /\ Verification!VerificationAssumption
    /\ Dispatch!DispatchAssumption
    /\ Failing!DispatchAssumption
    /\ Mcp!McpAssumption
    /\ Claims!ClaimAssumption
    /\ Budget!GenerationAssumption

\* The components that are not explored stay as they begin.
SuiteInit ==
    /\ part \in {"heartbeat", "limiter", "chat", "verification", "dispatch",
                 "failing", "mcp", "claims", "budget"}
    /\ Heartbeat!Init
    /\ Limiter!Init
    /\ Init
    /\ Verification!Init
    /\ IF part = "failing" THEN Failing!Init ELSE
       Dispatch!Init
    /\ part \notin {"dispatch", "failing"} => unseen = {} /\ ~dispatcher.once /\ service.failed = {}
    /\ Mcp!Init
    /\ IF part = "claims" THEN TRUE
       ELSE claimsClaims = (CHOOSE l \in Claims!ClaimLists : TRUE) /\ kind = [c \in {1, 2} |-> "text"]
            /\ Score = [i \in {"t1", "t2"} \X {1, 2} |-> CHOOSE x \in Claims!Scores : TRUE]
    /\ Claims!Init
    /\ IF part = "budget" THEN TRUE
       ELSE contract = "ask" /\ capacity = 2 /\ retrieved = <<>>
    /\ Budget!Init

SuiteNext ==
    /\ UNCHANGED part
    /\ \/ /\ part = "heartbeat" /\ Heartbeat!Next
          /\ UNCHANGED <<limiterVars, vars, verificationVars, dispatchVars,
                         mcpVars, claimsVars, budgetVars>>
       \/ /\ part = "limiter" /\ Limiter!Next
          /\ UNCHANGED <<heartbeatVars, vars, verificationVars, dispatchVars,
                         mcpVars, claimsVars, budgetVars>>
       \/ /\ part = "chat" /\ Next
          /\ UNCHANGED <<heartbeatVars, limiterVars, verificationVars,
                         dispatchVars, mcpVars, claimsVars, budgetVars>>
       \/ /\ part = "verification" /\ Verification!Next
          /\ UNCHANGED <<heartbeatVars, limiterVars, vars, dispatchVars,
                         mcpVars, claimsVars, budgetVars>>
       \/ /\ part = "dispatch" /\ Dispatch!Next
          /\ UNCHANGED <<heartbeatVars, limiterVars, vars, verificationVars,
                         mcpVars, claimsVars, budgetVars>>
       \/ /\ part = "failing" /\ Failing!Next
          /\ UNCHANGED <<heartbeatVars, limiterVars, vars, verificationVars,
                         mcpVars, claimsVars, budgetVars>>
       \/ /\ part = "mcp" /\ Mcp!Next
          /\ UNCHANGED <<heartbeatVars, limiterVars, vars, verificationVars,
                         dispatchVars, claimsVars, budgetVars>>
       \/ /\ part = "claims" /\ Claims!Next
          /\ UNCHANGED <<heartbeatVars, limiterVars, vars, verificationVars,
                         dispatchVars, mcpVars, budgetVars>>
       \/ /\ part = "budget" /\ Budget!Next
          /\ UNCHANGED <<heartbeatVars, limiterVars, vars, verificationVars,
                         dispatchVars, mcpVars, claimsVars>>

SuiteSpec == SuiteInit /\ [][SuiteNext]_suiteVars
Symmetry == Permutations(Pair)
-----------------------------------------------------------------------------
\* Type correctness: each component that is explored keeps its type invariant.
TypesOK ==
    /\ part = "heartbeat" => Heartbeat!TypeOK
    /\ part = "limiter" => Limiter!TypeOK
    /\ part = "chat" => TypeOK
    /\ part = "verification" => Verification!TypeOK
    /\ part = "dispatch" => Dispatch!TypeOK
    /\ part = "mcp" => Mcp!TypeOK

\* Whoever holds a lease or a place gives it back: a heartbeat is watched,
\* stops within its bound and leaves nothing behind; the limiter counts
\* exactly its holders, queues exactly who waits, and has no idle place while
\* somebody does; a worker sleeps over no revision, holds what it claimed,
\* counts its tasks, and is quiet when it ends.
HoldersAreBounded ==
    /\ part = "heartbeat" =>
          /\ Heartbeat!AlwaysWatched
          /\ Heartbeat!OverrunIsBounded
          /\ Heartbeat!NothingLeftBehind
    /\ part = "limiter" =>
          /\ Limiter!CountsHolders
          /\ Limiter!QueueIsExact
          /\ Limiter!NoIdlePlace
    /\ part = "dispatch" =>
          /\ Dispatch!NoWakeUpIsLost
          /\ Dispatch!ClaimedIsHeld
          /\ Dispatch!CountsItsTasks
          /\ Dispatch!EndIsQuiet
    /\ part = "failing" =>
          /\ Failing!NoWakeUpIsLost
          /\ Failing!CountsItsTasks
          /\ Failing!EndIsQuiet

\* No late call changes what is settled: a lost lease stays lost, and
\* completed runs, settled jobs and ended tasks stay as they are.
FinishedIsFinal == [][
    /\ part = "heartbeat" => Heartbeat!LostForGood
    /\ part = "chat" =>
          /\ CompletedIsFinal
          /\ StaleCallsAreFenced
    /\ part = "verification" => Verification!SettledIsFinal
    /\ part = "mcp" => Mcp!TerminalIsFinal]_suiteVars

\* Results belong to the attempt that produced them: a conversation has one
\* run in progress and its answers, the verdicts of a job and the results of
\* a task come from the current attempt, once each.
ResultsAreCurrent ==
    /\ part = "chat" =>
          /\ OneRunInProgress
          /\ AnswersAreCurrent
    /\ part = "verification" =>
          /\ Verification!VerdictsAreCurrent
          /\ Verification!FailsAfterTheLastTry
    /\ part = "mcp" =>
          /\ Mcp!AnsweredOnce
          /\ Mcp!ClosedIsQuiet
          /\ Mcp!CancellationIsNoticed

\* Whatever leases expire and servers die, only the latest claim of a job stores
\* verdicts, and stored verdicts stand until their message or turn is deleted.
JobsImplementFencedWork == Verification!JobsImplementFencedWork

\* Claims are judged as their evidence scored, however they are split into
\* batches; only faults of the service fail, and requests stay within its
\* limits; what an answer is generated from fits the context of the model.
VerdictsMatchScores ==
    /\ part = "claims" =>
          /\ Claims!VerdictsMatchScores
          /\ Claims!OnlyFaultsFail
          /\ Claims!ModelIsSpared
          /\ Claims!RequestsFit
    /\ part = "budget" => Budget!FitsContext
=============================================================================
