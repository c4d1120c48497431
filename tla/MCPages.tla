------------------------------- MODULE MCPages -------------------------------
(* The pages of the browser: every behaviour is one page, the others stay as they begin. *)
EXTENDS Naturals, FiniteSets, TLC

CONSTANTS Nil, Pair

VARIABLE part   \* the component this behaviour explores
\* AskPage
VARIABLES mode, threadId, thread, turnId, answer, stream, operation,
          controller, request, loads, discovery, page, pageController, turns,
          checked, checking, issued
\* ChatPage
VARIABLES chats, runs, shown, view, listed, flow, load, timer, sent,
          selections, failures, confirmed, deleted
\* Dictation
VARIABLES started, generation, state, asking, live, dictateStream, recorder,
          option, recording, stopping, chunks, clock, sending,
          dictateController, draft
\* DocumentNotifications
VARIABLES status, subs, stored, session, granted, notifyTimer, refresh, asked,
          told, changes, processing
\* SettingsPage
VARIABLES version, revision, settings, drafts, settingsLoad, save, format,
          dialog, reload, seen, shell, dashboard, missed, acts
\* StateRevisions
VARIABLES revisionsRevision, source, sockets, notified, revisionsStream, wire,
          revisionsPage, revisionsShown, revisionsMissed, drops, cuts,
          revisionsFailures

askVars == <<mode, threadId, thread, turnId, answer, stream, operation,
             controller, request, loads, discovery, page, pageController,
             turns, checked, checking, issued>>
chatVars == <<chats, runs, shown, view, listed, flow, load, timer, sent,
              selections, failures, confirmed, deleted>>
dictateVars == <<started, generation, state, asking, live, dictateStream,
                 recorder, option, recording, stopping, chunks, clock,
                 sending, dictateController, draft>>
notifyVars == <<status, subs, stored, session, granted, notifyTimer, refresh,
                asked, told, changes, processing>>
settingsVars == <<version, revision, settings, drafts, settingsLoad, save,
                  format, dialog, reload, seen, shell, dashboard, missed,
                  acts>>
revisionsVars == <<revisionsRevision, source, sockets, notified,
                   revisionsStream, wire, revisionsPage, revisionsShown,
                   revisionsMissed, drops, cuts, revisionsFailures>>
vars == <<part, askVars, chatVars, dictateVars, notifyVars, settingsVars,
          revisionsVars>>

Ask == INSTANCE AskPage WITH
    Threads <- Pair, MaxRequests <- 2, MaxPages <- 0, MaxLoads <- 2,
    None <- Nil
Discover == INSTANCE AskPage WITH
    Threads <- {"t1"}, MaxRequests <- 3, MaxPages <- 2, MaxLoads <- 0,
    None <- Nil
Chat == INSTANCE ChatPage WITH
    Chats <- Pair, MaxRequests <- 2, MaxLoads <- 2, MaxSelections <- 1,
    MaxFailures <- 1, None <- Nil
Dictate == INSTANCE Dictation WITH
    MaxStarts <- 3, stream <- dictateStream, controller <- dictateController
Notify == INSTANCE DocumentNotifications WITH
    Documents <- {1, 2}, MaxChanges <- 4, MaxProcessing <- 4,
    timer <- notifyTimer
Settings == INSTANCE SettingsPage WITH
    Targets <- {"organization", "workspace"}, MaxVersion <- 3, MaxActs <- 4,
    load <- settingsLoad
Revisions == INSTANCE StateRevisions WITH
    MaxRevision <- 3, MaxDrops <- 2, MaxCuts <- 2, MaxFailures <- 2,
    revision <- revisionsRevision, stream <- revisionsStream,
    page <- revisionsPage, shown <- revisionsShown, missed <- revisionsMissed,
    failures <- revisionsFailures

ASSUME InstancesAssumption ==
    /\ Ask!AskAssumption
    /\ Discover!AskAssumption
    /\ Chat!ChatPageAssumption
    /\ Dictate!StartsAssumption
    /\ Notify!NotificationAssumption
    /\ Settings!SettingsAssumption
    /\ Revisions!RevisionAssumption

\* The components that are not explored stay as they begin.
Init ==
    /\ part \in {"answers", "discovery", "chat", "dictation", "notifications",
                 "settings", "revisions"}
    /\ IF part = "discovery" THEN Discover!Init ELSE
       Ask!Init
    /\ Chat!Init
    /\ part # "chat" => chats = {}
    /\ Dictate!Init
    /\ Notify!Init
    /\ part # "notifications" => granted = FALSE
    /\ Settings!Init
    /\ Revisions!Init

Next ==
    /\ UNCHANGED part
    /\ \/ /\ part = "answers" /\ Ask!Next
          /\ UNCHANGED <<chatVars, dictateVars, notifyVars, settingsVars,
                         revisionsVars>>
       \/ /\ part = "discovery" /\ Discover!Next
          /\ UNCHANGED <<chatVars, dictateVars, notifyVars, settingsVars,
                         revisionsVars>>
       \/ /\ part = "chat" /\ Chat!Next
          /\ UNCHANGED <<askVars, dictateVars, notifyVars, settingsVars,
                         revisionsVars>>
       \/ /\ part = "dictation" /\ Dictate!Next
          /\ UNCHANGED <<askVars, chatVars, notifyVars, settingsVars,
                         revisionsVars>>
       \/ /\ part = "notifications" /\ Notify!Next
          /\ UNCHANGED <<askVars, chatVars, dictateVars, settingsVars,
                         revisionsVars>>
       \/ /\ part = "settings" /\ Settings!Next
          /\ UNCHANGED <<askVars, chatVars, dictateVars, notifyVars,
                         revisionsVars>>
       \/ /\ part = "revisions" /\ Revisions!Next
          /\ UNCHANGED <<askVars, chatVars, dictateVars, notifyVars,
                         settingsVars>>

Spec == Init /\ [][Next]_vars
Symmetry == Permutations(Pair)
-----------------------------------------------------------------------------
\* Type correctness: each component that is explored keeps its type invariant.
TypeOK ==
    /\ part = "answers" => Ask!TypeOK
    /\ part = "chat" => Chat!TypeOK
    /\ part = "dictation" => Dictate!TypeOK
    /\ part = "notifications" => Notify!TypeOK
    /\ part = "settings" => Settings!TypeOK
    /\ part = "revisions" => Revisions!TypeOK

\* What a page shows belongs to what is selected and is as new as it says:
\* answers, searches, runs of chats, drafts of settings and dashboards,
\* although responses arrive late and in any order.
ShownIsCurrent ==
    /\ part = "answers" =>
          /\ Ask!ShownThreadIsSelected
          /\ Ask!VerifiedIsChecked
    /\ part = "discovery" => Discover!LatestSearchIsShown
    /\ part = "chat" => Chat!RunsStayInTheirChat
    /\ part = "settings" => Settings!DraftsMatch
    /\ part = "revisions" => Revisions!NoLostWakeUp

\* No late answer does what nobody waits for: a stopped request is silent, a
\* verification refresh moves nothing but verdicts, a transcript or a
\* notification comes only when it is wanted, a document that is waited for
\* is dropped by aborted refreshes alone, a save is based on what was stored,
\* and no revision is followed by an older one.
NothingComesBack == [][
    /\ part = "answers" => Ask!StoppedIsSilent
    /\ part = "chat" => Chat!RefreshMovesOnlyVerdicts
    /\ part = "dictation" => Dictate!TranscriptIsWanted
    /\ part = "notifications" =>
          /\ Notify!ToldWhatWasAsked
          /\ Notify!OnlyAbortsDrop
    /\ part = "settings" => Settings!SavedOnWhatWasStored
    /\ part = "revisions" => Revisions!NeverShowsOlder]_vars

\* What was started is watched or let go: a message is only being written
\* while its request is open, a microphone is on only while it records, and a
\* stream, a listener or a reload that was put off is not lost.
StreamsLetGo ==
    /\ part = "chat" => Chat!StreamingIsOpen
    /\ part = "dictation" =>
          /\ Dictate!MicrophoneIsOff
          /\ Dictate!RecordingIsLimited
    /\ part = "settings" => Settings!NoLostReload
    /\ part = "revisions" =>
          /\ Revisions!ClosedLetsGo
          /\ Revisions!ListenerComesBack
=============================================================================
