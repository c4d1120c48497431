-------------------------- MODULE MCServerLiveness ---------------------------
(* Liveness of the server and of its pages: every behaviour is one component, the others stay as they begin. *)
EXTENDS Naturals, FiniteSets, TLC

CONSTANTS Nil

VARIABLE part   \* the component this behaviour explores
\* AskPage
VARIABLES mode, threadId, thread, turnId, answer, stream, operation,
          controller, request, loads, discovery, page, pageController, turns,
          checked, checking, issued
\* ChatPage
VARIABLES chats, runs, shown, view, listed, flow, load, timer, sent,
          selections, failures, confirmed, deleted
\* DocumentNotifications
VARIABLES status, subs, stored, session, granted, notifyTimer, refresh, asked,
          told, changes, processing
\* SettingsPage
VARIABLES version, revision, settings, drafts, settingsLoad, save, format,
          dialog, reload, seen, shell, dashboard, missed, acts
\* StateRevisions
VARIABLES revisionsRevision, source, sockets, notified, revisionsStream, wire,
          revisionsPage, revisionsShown, revisionsMissed, drops, cuts,
          revisionsFailures
\* InferenceCoordinator
VARIABLES inferenceVersion, wanted, capacity, due, slots, queue, ahead,
          expired, configured, req
\* CodexCredentials
VARIABLES row, lock, codexReq, codexIssued, live, refused, unsaved, codexFlow,
          current, admin, turn, ended
\* RuntimeManager
VARIABLES runtimeStored, runtimeCurrent, slot, active, lease, latest,
          runtimeReload, requested, stop
\* AnswerGeneration
VARIABLES contract, retrieved, generateCapacity, expanded, phase, response,
          arrived, preview, published, metric, reason

askVars == <<mode, threadId, thread, turnId, answer, stream, operation,
             controller, request, loads, discovery, page, pageController,
             turns, checked, checking, issued>>
chatVars == <<chats, runs, shown, view, listed, flow, load, timer, sent,
              selections, failures, confirmed, deleted>>
notifyVars == <<status, subs, stored, session, granted, notifyTimer, refresh,
                asked, told, changes, processing>>
settingsVars == <<version, revision, settings, drafts, settingsLoad, save,
                  format, dialog, reload, seen, shell, dashboard, missed,
                  acts>>
revisionsVars == <<revisionsRevision, source, sockets, notified,
                   revisionsStream, wire, revisionsPage, revisionsShown,
                   revisionsMissed, drops, cuts, revisionsFailures>>
inferenceVars == <<inferenceVersion, wanted, capacity, due, slots, queue,
                   ahead, expired, configured, req>>
codexVars == <<row, lock, codexReq, codexIssued, live, refused, unsaved,
               codexFlow, current, admin, turn, ended>>
runtimeVars == <<runtimeStored, runtimeCurrent, slot, active, lease, latest,
                 runtimeReload, requested, stop>>
generateVars == <<contract, retrieved, generateCapacity, expanded, phase,
                  response, arrived, preview, published, metric, reason>>
vars == <<part, askVars, chatVars, notifyVars, settingsVars, revisionsVars,
          inferenceVars, codexVars, runtimeVars, generateVars>>

Ask == INSTANCE AskPage WITH
    Threads <- {"t1"}, MaxRequests <- 2, MaxPages <- 0, MaxLoads <- 1,
    None <- Nil
Chat == INSTANCE ChatPage WITH
    Chats <- {"a", "b"}, MaxRequests <- 1, MaxLoads <- 2, MaxSelections <- 1,
    MaxFailures <- 0, None <- Nil
Notify == INSTANCE DocumentNotifications WITH
    Documents <- {1}, MaxChanges <- 4, MaxProcessing <- 4,
    timer <- notifyTimer
Settings == INSTANCE SettingsPage WITH
    Targets <- {"organization", "workspace"}, MaxVersion <- 2, MaxActs <- 2,
    load <- settingsLoad
Revisions == INSTANCE StateRevisions WITH
    MaxRevision <- 2, MaxDrops <- 0, MaxCuts <- 1, MaxFailures <- 1,
    revision <- revisionsRevision, stream <- revisionsStream,
    page <- revisionsPage, shown <- revisionsShown, missed <- revisionsMissed,
    failures <- revisionsFailures
Inference == INSTANCE InferenceCoordinator WITH
    Requests <- {"r1", "b1"}, Background <- {"b1"}, Processes <- {"p1"},
    MaxCapacity <- 1, MaxVersion <- 2, NoRequest <- Nil,
    version <- inferenceVersion
Codex == INSTANCE CodexCredentials WITH
    Requests <- {"r1", "r2"}, Admins <- {"a1"}, MaxFlows <- 1, Nobody <- Nil,
    req <- codexReq, issued <- codexIssued, flow <- codexFlow
Runtime == INSTANCE RuntimeManager WITH
    Users <- {"u1"}, Savers <- {"s1"}, Controller <- "controller",
    MaxVersion <- 3, stored <- runtimeStored, current <- runtimeCurrent,
    reload <- runtimeReload
Generate == INSTANCE AnswerGeneration WITH
    Elements <- {"e1"}, Contracts <- {"ask", "chat"}, Sizes <- {<<1, 0>>},
    MaxRetrieved <- 1, MaxFindings <- 1, MaxRefs <- 2, MaxAtoms <- 1,
    Capacities <- {2, 9}, FixedTokens <- 1, SafetyMargin <- 1,
    MinimumOutput <- 1, capacity <- generateCapacity

ASSUME InstancesAssumption ==
    /\ Ask!AskAssumption
    /\ Chat!ChatPageAssumption
    /\ Notify!NotificationAssumption
    /\ Settings!SettingsAssumption
    /\ Revisions!RevisionAssumption
    /\ Inference!CoordinatorAssumption
    /\ Codex!CodexAssumption
    /\ Runtime!RuntimeAssumption
    /\ Generate!GenerationAssumption

\* The components that are not explored stay as they begin.
Init ==
    /\ part \in {"ask", "chat", "notifications", "settings", "revisions",
                 "inference", "credentials", "runtime", "generation"}
    /\ Ask!Init
    /\ Chat!Init
    /\ part # "chat" => chats = {}
    /\ Notify!Init
    /\ part # "notifications" => granted = FALSE
    /\ Settings!Init
    /\ Revisions!Init
    /\ Inference!Init
    /\ Codex!Init
    /\ Runtime!Init
    /\ Generate!Init
    /\ part # "generation" => contract = "ask" /\ generateCapacity = 9 /\ retrieved = <<>>

Next ==
    /\ UNCHANGED part
    /\ \/ /\ part = "ask" /\ Ask!Next
          /\ UNCHANGED <<chatVars, notifyVars, settingsVars, revisionsVars,
                         inferenceVars, codexVars, runtimeVars, generateVars>>
       \/ /\ part = "chat" /\ Chat!Next
          /\ UNCHANGED <<askVars, notifyVars, settingsVars, revisionsVars,
                         inferenceVars, codexVars, runtimeVars, generateVars>>
       \/ /\ part = "notifications" /\ Notify!Next
          /\ UNCHANGED <<askVars, chatVars, settingsVars, revisionsVars,
                         inferenceVars, codexVars, runtimeVars, generateVars>>
       \/ /\ part = "settings" /\ Settings!Next
          /\ UNCHANGED <<askVars, chatVars, notifyVars, revisionsVars,
                         inferenceVars, codexVars, runtimeVars, generateVars>>
       \/ /\ part = "revisions" /\ Revisions!Next
          /\ UNCHANGED <<askVars, chatVars, notifyVars, settingsVars,
                         inferenceVars, codexVars, runtimeVars, generateVars>>
       \/ /\ part = "inference" /\ Inference!Next
          /\ UNCHANGED <<askVars, chatVars, notifyVars, settingsVars,
                         revisionsVars, codexVars, runtimeVars, generateVars>>
       \/ /\ part = "credentials" /\ Codex!Next
          /\ codexReq'["r2"].pc = "new" \/ admin'["a1"].op = "start"
          /\ UNCHANGED <<askVars, chatVars, notifyVars, settingsVars,
                         revisionsVars, inferenceVars, runtimeVars,
                         generateVars>>
       \/ /\ part = "runtime" /\ Runtime!Next
          /\ UNCHANGED <<askVars, chatVars, notifyVars, settingsVars,
                         revisionsVars, inferenceVars, codexVars,
                         generateVars>>
       \/ /\ part = "generation" /\ Generate!Next
          /\ UNCHANGED <<askVars, chatVars, notifyVars, settingsVars,
                         revisionsVars, inferenceVars, codexVars,
                         runtimeVars>>

\* Fairness that every property may assume; what else it assumes is its antecedent.
FairSpec ==
    /\ Init /\ [][Next]_vars
    /\ WF_askVars(part = "ask" /\ \E r \in 1 .. 2 : Ask!Respond(r))
-----------------------------------------------------------------------------
\* Under the fairness of each component: pages become idle, show the verdict
\* and are released; outcomes are noticed, settings and dashboards catch up;
\* background requests and everyone else are served; saves take effect, and
\* shutdowns and generations end.
ServerKeepsUp ==
    /\ part = "ask" /\ Ask!Fairness => Ask!PageBecomesIdle
    /\ part = "chat" /\ Chat!Fairness => Chat!VerdictIsShown
    /\ part = "chat" /\ Chat!Fairness => Chat!PageIsReleased
    /\ part = "notifications" /\ Notify!Fairness => Notify!OutcomeIsNoticed
    /\ part = "settings" /\ Settings!Fairness => Settings!SettingsCatchUp
    /\ part = "revisions" /\ Revisions!Fairness => Revisions!CatchesUp
    /\ part = "inference" /\ Inference!Fairness => Inference!BackgroundIsServed
    /\ part = "inference" /\ Inference!Fairness => Inference!NobodyWaitsInVain
    /\ part = "credentials" /\ Codex!Fairness => Codex!EveryoneReturns
    /\ part = "runtime" /\ Runtime!Fairness => Runtime!SavedTakesEffect
    /\ part = "runtime" /\ Runtime!Fairness => Runtime!ShutdownFinishes
    /\ part = "generation" /\ Generate!Fairness => Generate!GenerationEnds
=============================================================================
