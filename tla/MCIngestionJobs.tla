--------------------------- MODULE MCIngestionJobs ---------------------------
(* Three scenarios of the ingestion queue.  "daemons": two worker daemons and two   *)
(* Docling services compete for one content that is tried twice.  "uploads": one    *)
(* daemon, and uploads that replace one content by another.  "cli": a daemon and a  *)
(* CLI ingestion, a Docling and a plain text content; its queue is one of its own,  *)
(* which the other two leave as it begins.                                          *)
EXTENDS IngestionJobs, TLC

CONSTANTS d1, d2, s1, w, c

VARIABLES
    part,   \* the scenario this behaviour explores
    cliJob, cliCkpt, cliIndexed, cliRemote, cliAcks, cliWk, cliClaims, cliTasks, cliGens

cliVars == <<cliJob, cliCkpt, cliIndexed, cliRemote, cliAcks, cliWk, cliClaims, cliTasks, cliGens>>

AllDaemons == INSTANCE IngestionJobs WITH
    Docs <- {d1}, RestartTask <- {}, MaxGens <- 1, MaxClaims <- 2
Uploads == INSTANCE IngestionJobs WITH
    RestartTask <- {d1, d2}, Services <- {s1}, MaxAttempts <- 1, MaxClaims <- 2
Cli == INSTANCE IngestionJobs WITH
    PlainText <- {d2}, Services <- {s1}, Daemons <- {w}, Clis <- {c}, MaxClaims <- 2, MaxTasks <- 1,
    job <- cliJob, ckpt <- cliCkpt, indexed <- cliIndexed, remote <- cliRemote, acks <- cliAcks,
    wk <- cliWk, claims <- cliClaims, tasks <- cliTasks, gens <- cliGens

OneTask == tasks' <= 1
OneDaemon == \E d \in Daemons : wk'[d] = IdleWorker

SuiteInit == part \in {"daemons", "uploads", "cli"} /\ Init /\ Cli!Init
SuiteNext ==
    /\ UNCHANGED part
    /\ \/ part = "daemons" /\ AllDaemons!Next /\ OneTask /\ UNCHANGED cliVars
       \/ part = "uploads" /\ Uploads!Next /\ OneDaemon /\ UNCHANGED cliVars
       \/ part = "cli" /\ Cli!Next /\ UNCHANGED vars
SuiteSpec == SuiteInit /\ [][SuiteNext]_<<part, vars, cliVars>>
-----------------------------------------------------------------------------
\* What the rows keep when nothing orders a CLI ingestion and a daemon: a pause that
\* is asked for has a worker to carry it out, and a checkpoint pins its service.
CliKeepsRecords ==
    part = "cli" => Cli!TypeOK /\ Cli!PauseHasExecutor /\ Cli!CheckpointPinsService

DaemonSymmetry == Permutations(Daemons)
=============================================================================
