------------------------------ MODULE MCAnswers ------------------------------
(* Answers: every behaviour admits inference requests, generates one answer, or keeps research turns. *)
EXTENDS InferenceCoordinator, Naturals, FiniteSets, TLC

CONSTANTS Nil, Pair

VARIABLE part   \* the component this behaviour explores
\* Research
VARIABLES answer, thread, versions, turn, rows, feedback, saver, worker,
          reader, deleter, user
\* AnswerGeneration
VARIABLES contract, retrieved, askCapacity, expanded, phase, response,
          arrived, preview, published, metric, reason

SameFile == [c \in {"c1", "c2"} |-> "f1"]
OneCitation == [c \in {"c1"} |-> "f1"]
OneSize == {<<1, 0>>}

rowsVars == <<answer, thread, versions, turn, rows, feedback, saver, worker,
              reader, deleter, user>>
askVars == <<contract, retrieved, askCapacity, expanded, phase, response,
             arrived, preview, published, metric, reason>>
suiteVars == <<part, rowsVars, askVars, vars>>

Rows == INSTANCE Research WITH
    Threads <- {"h1"}, Turns <- {"t1"}, Files <- {"f1"},
    Citations <- {"c1", "c2"}, CitedFile <- SameFile, MaxStatements <- 2,
    Savers <- {"s1"}, Workers <- {"w1"}, Readers <- {"r1"}, Deleters <- {},
    Users <- {}, MaxAttempts <- 1, None <- Nil
Saves == INSTANCE Research WITH
    Threads <- {"h1"}, Turns <- {"t1", "t2"}, Files <- {"f1", "f2"},
    Citations <- {"c1"}, CitedFile <- OneCitation, MaxStatements <- 1,
    Savers <- {"s1", "s2"}, Workers <- {}, Readers <- {}, Deleters <- {"d1"},
    Users <- {}, MaxAttempts <- 1, None <- Nil
Reads == INSTANCE Research WITH
    Threads <- {"h1"}, Turns <- {"t1", "t2"}, Files <- {"f1"},
    Citations <- {"c1"}, CitedFile <- OneCitation, MaxStatements <- 1,
    Savers <- {"s1"}, Workers <- {}, Readers <- {"r1"}, Deleters <- {"d1"},
    Users <- {}, MaxAttempts <- 1, None <- Nil
Votes == INSTANCE Research WITH
    Threads <- {"h1"}, Turns <- {"t1"}, Files <- {"f1"},
    Citations <- {"c1", "c2"}, CitedFile <- SameFile, MaxStatements <- 1,
    Savers <- {"s1"}, Workers <- {"w1", "w2"}, Readers <- {},
    Deleters <- {"d1"}, Users <- {"u1"}, MaxAttempts <- 2, None <- Nil
Ask == INSTANCE AnswerGeneration WITH
    Elements <- {"e1", "e2"}, Contracts <- {"ask"}, Sizes <- OneSize,
    MaxRetrieved <- 3, MaxFindings <- 2, MaxRefs <- 2, MaxAtoms <- 2,
    Capacities <- {9}, FixedTokens <- 1, SafetyMargin <- 1,
    MinimumOutput <- 1, capacity <- askCapacity
Chat == INSTANCE AnswerGeneration WITH
    Elements <- {"e1", "e2"}, Contracts <- {"chat"}, Sizes <- OneSize,
    MaxRetrieved <- 2, MaxFindings <- 2, MaxRefs <- 2, MaxAtoms <- 1,
    Capacities <- {2, 9}, FixedTokens <- 1, SafetyMargin <- 1,
    MinimumOutput <- 1, capacity <- askCapacity

ASSUME InstancesAssumption ==
    /\ Rows!ResearchAssumption
    /\ Saves!ResearchAssumption
    /\ Reads!ResearchAssumption
    /\ Votes!ResearchAssumption
    /\ Ask!GenerationAssumption
    /\ Chat!GenerationAssumption
    /\ CoordinatorAssumption

\* The components that are not explored stay as they begin.
SuiteInit ==
    /\ part \in {"rows", "saves", "reads", "votes", "ask", "chat",
                 "inference"}
    /\ IF part \in {"rows", "saves", "reads", "votes"} THEN TRUE
       ELSE answer = [s \in {"s1"} |-> [cites |-> <<>>, statements |-> <<>>]]
    /\ IF part = "saves" THEN Saves!Init ELSE
       IF part = "reads" THEN Reads!Init ELSE
       IF part = "votes" THEN Votes!Init ELSE
       Rows!Init
    /\ IF part \in {"ask", "chat"} THEN TRUE
       ELSE contract = "ask" /\ askCapacity = 9 /\ retrieved = <<>>
    /\ IF part = "chat" THEN Chat!Init ELSE
       Ask!Init
    /\ Init

SuiteNext ==
    /\ UNCHANGED part
    /\ \/ /\ part = "rows" /\ Rows!Next
          /\ UNCHANGED <<askVars, vars>>
       \/ /\ part = "saves" /\ Saves!Next
          /\ UNCHANGED <<askVars, vars>>
       \/ /\ part = "reads" /\ Reads!Next
          /\ UNCHANGED <<askVars, vars>>
       \/ /\ part = "votes" /\ Votes!Next
          /\ UNCHANGED <<askVars, vars>>
       \/ /\ part = "ask" /\ Ask!Next
          /\ UNCHANGED <<rowsVars, vars>>
       \/ /\ part = "chat" /\ Chat!Next
          /\ UNCHANGED <<rowsVars, vars>>
       \/ /\ part = "inference" /\ Next
          /\ UNCHANGED <<rowsVars, askVars>>

SuiteSpec == SuiteInit /\ [][SuiteNext]_suiteVars
Symmetry == Permutations(Pair)
-----------------------------------------------------------------------------
\* Type correctness: each component that is explored keeps its type invariant.
TypesOK ==
    /\ part = "rows" => Rows!TypeOK
    /\ part = "chat" => Chat!TypeOK
    /\ part = "inference" => TypeOK

\* What saveTurn accepts the database accepts, and every reader returns it
\* whole, although its queries share no snapshot with verifications and
\* deletions; while these race, what is cited exists, votes, jobs and rows
\* belong to turns that exist, and the verdicts of a turn come from one
\* verification.
SavedAnswersAreWhole ==
    /\ part = "rows" =>
          /\ Rows!NothingIsRefused
          /\ Rows!ReadsAreWhole
    /\ part = "saves" =>
          /\ Saves!NothingIsRefused
          /\ Saves!NothingDangles
    /\ part = "reads" =>
          /\ Reads!ReadsAreWhole
          /\ Reads!NothingDangles
    /\ part = "votes" =>
          /\ Votes!NothingDangles
          /\ Votes!VerdictsAreOfOneAttempt

\* Whatever response is accepted compiles to a document that keeps its
\* evidence, and numbers its citations by rank; what the preview showed is
\* what is published, and every generation has one finished metric.
AcceptedCompiles ==
    /\ part = "ask" =>
          /\ Ask!AcceptedCompiles
          /\ Ask!EvidenceKept
          /\ Ask!NumbersFollowRank
          /\ Ask!PreviewIsPublished
          /\ Ask!PreviewKnowsItsSources
    /\ part = "chat" =>
          /\ Chat!PreviewIsPublished
          /\ Chat!MetricFinished
=============================================================================
