------------------------------ MODULE MCDocling ------------------------------
(* Docling: the process orchestrator with its one worker and two callers, an         *)
(* orchestrator with two workers, the service registry, and the evidence that a      *)
(* conversion leaves.  Every behaviour is one of them; the others stay as they begin. *)
EXTENDS DoclingOrchestrator, FiniteSets, TLC

CONSTANTS Parts, pdf, other, None, Pair, Others, Urls

VARIABLE part   \* the component this behaviour explores
\* DoclingOrchestrator with two workers
VARIABLES status2, request2, released2, content2, results2, manifest2, pausing2, terminating2,
          queueList2, taskQueue2, active2, wk2, ctl2, wanted2
\* DoclingServices
VARIABLES settings, latest, row, job, process, starts
\* DocumentEvidence
VARIABLES elements, set, members, evidenceJob, indexed, versions, worker, deleter

orchestratorVars == vars
twoWorkersVars == <<status2, request2, released2, content2, results2, manifest2, pausing2,
                    terminating2, queueList2, taskQueue2, active2, wk2, ctl2, wanted2>>
registryVars == <<settings, latest, row, job, process, starts>>
evidenceVars == <<elements, set, members, evidenceJob, indexed, versions, worker, deleter>>

TwoWorkers == INSTANCE DoclingOrchestrator WITH
    Requests <- {pdf, other}, PdfRequests <- {pdf}, Workers <- Others,
    Callers <- {"c1"},
    status <- status2, request <- request2, released <- released2, content <- content2,
    results <- results2, manifest <- manifest2, pausing <- pausing2,
    terminating <- terminating2, queueList <- queueList2, taskQueue <- taskQueue2,
    active <- active2, wk <- wk2, ctl <- ctl2, wanted <- wanted2
Registry == INSTANCE DoclingServices WITH
    Services <- {"s1", "s2"}, Jobs <- Pair, Processes <- Others, Capacities <- {1, 2},
    MaxVersion <- 2, MaxStarts <- 2
Evidence == INSTANCE DocumentEvidence WITH
    Files <- Pair, Workers <- Others, Deleters <- {"d1"}, Size <- 2, NoFile <- None,
    NoWorker <- None, job <- evidenceJob

ASSUME InstancesAssumption ==
    /\ Registry!ServicesAssumption
    /\ Evidence!EvidenceAssumption

\* Only the first service is ever configured with the capacity 2.
SmallSecond ==
    \A v \in DOMAIN settings : settings[v]["s2"] = None \/ settings[v]["s2"].capacity = 1

SuiteInit ==
    /\ part \in Parts
    /\ Init /\ TwoWorkers!Init /\ Registry!Init /\ Evidence!Init
    /\ SmallSecond
    /\ part # "registry" => settings[1]["s2"] = None /\ settings[1]["s1"].capacity = 1
SuiteNext ==
    /\ UNCHANGED part
    /\ \/ /\ part = "orchestrator" /\ Next
          /\ UNCHANGED <<twoWorkersVars, registryVars, evidenceVars>>
       \/ /\ part = "twoWorkers" /\ TwoWorkers!Next
          /\ UNCHANGED <<orchestratorVars, registryVars, evidenceVars>>
       \/ /\ part = "registry" /\ Registry!Next /\ SmallSecond'
          /\ UNCHANGED <<orchestratorVars, twoWorkersVars, evidenceVars>>
       \/ /\ part = "evidence" /\ Evidence!Next
          /\ UNCHANGED <<orchestratorVars, twoWorkersVars, registryVars>>
suiteVars == <<part, orchestratorVars, twoWorkersVars, registryVars, evidenceVars>>
SuiteSpec == SuiteInit /\ [][SuiteNext]_suiteVars

Symmetry == Permutations(Others) \cup Permutations(Pair) \cup Permutations(Urls)
-----------------------------------------------------------------------------
\* An orchestrator with two workers, which may hold one task twice, still reports
\* success with a result only.  The registry: every row can be decoded, an active
\* service was verified as it is configured, no slot is held twice, and a job whose
\* remote task is known comes back to the service that has it.  The evidence: whoever
\* writes, shares, deletes or marks a set, a published version is complete and a
\* normalised job keeps it.
RecordsAgree ==
    /\ part = "orchestrator" => TypeOK
    /\ part = "twoWorkers" => TwoWorkers!TypeOK /\ TwoWorkers!SuccessHasResult
    /\ part = "registry" =>
          /\ Registry!TypeOK
          /\ Registry!RowsDecode
          /\ Registry!VerifiedAsConfigured
          /\ Registry!SlotsAreExclusive
          /\ Registry!TaskIsReachable
    /\ part = "evidence" =>
          /\ Evidence!TypeOK
          /\ Evidence!PublishedIsWhole
          /\ Evidence!NormalizedKeepsItsSet
=============================================================================
