----------------------------- MODULE MCDocuments -----------------------------
(* Stored documents: every behaviour is one component, the others stay as they begin. *)
EXTENDS SourceContent, Naturals, FiniteSets, TLC

CONSTANTS Nil, Sole, Pair, Others

VARIABLE part   \* the component this behaviour explores
\* IndexGenerations
VARIABLES spaces, recent, pins, setting, job, manifest, indexRows, published,
          indexed, indexWorker, used, gc
\* SourceLibraries
VARIABLES library, queue, grant, file, listed, content, call, server

indexVars == <<spaces, recent, pins, setting, job, manifest, indexRows,
               published, indexed, indexWorker, used, gc>>
libraryVars == <<library, queue, grant, file, listed, content, call, server>>
suiteVars == <<part, vars, indexVars, libraryVars>>

Migrate == INSTANCE SourceContent WITH
    DocCount <- 2, Backends <- {"disk", "bucket"}, FirstBackend <- "disk",
    Publishers <- {"p1"}, Cleaners <- {"c1"}, Workers <- Pair, BatchSize <- 1,
    MaxPublishes <- 2, MaxMigrations <- 1, MaxFaults <- 1, None <- Nil
Index == INSTANCE IndexGenerations WITH
    Sources <- Pair, Docs <- Sole, Spaces <- Sole, Workers <- Others,
    MaxGenerations <- 2, Elements <- 2, MaxChanges <- 0, rows <- indexRows,
    worker <- indexWorker
Collect == INSTANCE IndexGenerations WITH
    Sources <- Sole, Docs <- Pair, Spaces <- Others, Workers <- Sole,
    MaxGenerations <- 3, Elements <- 1, MaxChanges <- 1, rows <- indexRows,
    worker <- indexWorker
Library == INSTANCE SourceLibraries WITH
    Libraries <- {"l1"}, Workspaces <- {"w1"}, Calls <- Pair, Files <- {1, 2},
    Broken <- {2}, Servers <- Others, NoLibrary <- Nil

ASSUME InstancesAssumption ==
    /\ SourceContentAssumption
    /\ Migrate!SourceContentAssumption
    /\ Index!IndexAssumption
    /\ Collect!IndexAssumption
    /\ Library!LibraryAssumption

\* The components that are not explored stay as they begin.
SuiteInit ==
    /\ part \in {"publishing", "migrating", "index", "collection", "libraries"}
    /\ IF part = "migrating" THEN Migrate!Init ELSE
       Init
    /\ IF part = "collection" THEN Collect!Init ELSE
       Index!Init
    /\ Library!Init

SuiteNext ==
    /\ UNCHANGED part
    /\ \/ /\ part = "publishing" /\ Next
          /\ UNCHANGED <<indexVars, libraryVars>>
       \/ /\ part = "migrating" /\ Migrate!Next
          /\ UNCHANGED <<indexVars, libraryVars>>
       \/ /\ part = "index" /\ Index!Next
          /\ UNCHANGED <<vars, libraryVars>>
       \/ /\ part = "collection" /\ Collect!Next
          /\ UNCHANGED <<vars, libraryVars>>
       \/ /\ part = "libraries" /\ Library!Next
          /\ UNCHANGED <<vars, indexVars>>

SuiteSpec == SuiteInit /\ [][SuiteNext]_suiteVars
Symmetry == Permutations(Pair) \cup Permutations(Others)
-----------------------------------------------------------------------------
\* Type correctness: each component that is explored keeps its type invariant.
TypesOK ==
    /\ part = "publishing" => TypeOK
    /\ part = "index" => Index!TypeOK
    /\ part = "libraries" => Library!TypeOK

\* What is referred to stays: a published generation is complete and not
\* collected, a source has one version in a space; and a library that is
\* archived or deleted is quiet while its deletion forgets none of its files.
ReferredToIsKept ==
    /\ part = "index" =>
          /\ Index!PublishedIsComplete
          /\ Index!BuiltIsKept
    /\ part = "collection" =>
          /\ Collect!PublishedIsComplete
          /\ Collect!BuiltIsKept
          /\ Collect!OneVersionPerSource
    /\ part = "libraries" =>
          /\ Library!ClosedIsQuiet
          /\ Library!NothingIsForgotten
=============================================================================
