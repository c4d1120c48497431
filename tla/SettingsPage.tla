---------------------------- MODULE SettingsPage ----------------------------
(***************************************************************************)
(* The settings page of one administrator: it shows the settings of a      *)
(* target, edits and saves or resets them, switches to another target and  *)
(* loads again when the shell tells of a new revision.  Requests are       *)
(* answered in any order; a load that is replaced is aborted.              *)
(***************************************************************************)
EXTENDS Naturals

CONSTANTS
    Targets,        \* the organisation and the workspaces of the selector
    MaxVersion,     \* saves by anybody
    MaxActs         \* actions of the administrator

SettingsAssumption == Targets # {} /\ MaxVersion \in Nat /\ MaxActs \in Nat

VARIABLES
    version,    \* the stored version of each target
    revision,   \* the settings channel of application_revisions
    settings,   \* settings: target and version on the screen
    drafts,     \* the settings the unsaved changes were made on, or None
    load,       \* the request of the current abortController
    save,       \* the request of submitSettingsUpdate
    format,     \* submitEmbeddingInputFormat: idle, posting, created, loading
    dialog,     \* the confirmation dialog and the target it speaks of
    reload,     \* reloadAfterSave
    seen,       \* settingsRevision of the page
    shell,      \* settingsRevision of the shell
    dashboard,  \* the revision a dashboard answer under way holds
    missed,     \* ghost: a revision was noted and no load begun for it, or one
                \* whose settings the answer of an older save may replace
    acts

vars == <<version, revision, settings, drafts, load, save, format, dialog, reload, seen, shell, dashboard, missed, acts>>

None == [target |-> "none", version |-> 0]
NoLoad == [on |-> FALSE, target |-> "none", read |-> 0]
NoSave == [on |-> FALSE, target |-> "none", version |-> 0, base |-> None, keep |-> FALSE, answer |-> "none"]
Shown == [target : Targets, version : 1..MaxVersion + 1]
Preferred == CHOOSE t \in Targets : TRUE

\* loadSettings, up to its request: the load before it is aborted.
Loading(t) == [on |-> TRUE, target |-> t, read |-> 0]

Init ==
    /\ version = [t \in Targets |-> 1] /\ revision = 1
    /\ settings = None /\ drafts = None /\ save = NoSave /\ format = "idle"
    /\ load = Loading(Preferred)
    /\ dialog = [kind |-> "none", about |-> "none"] /\ reload = FALSE
    /\ seen = 0 /\ shell = 0 /\ dashboard = 0 /\ missed = FALSE /\ acts = 0

Busy == save.on \/ format # "idle"
NoDialog == [kind |-> "none", about |-> "none"]
Act == acts < MaxActs /\ acts' = acts + 1
\* Room for one more revision, beside those of the requests under way.
Room ==
    revision + (IF save.on /\ save.answer = "none" THEN 1 ELSE 0) + (IF format = "posting" THEN 1 ELSE 0) <= MaxVersion

-----------------------------------------------------------------------------
(* Loads. *)

ServerReads ==
    /\ load.on /\ load.read = 0 /\ load' = [load EXCEPT !.read = version[load.target]]
    /\ UNCHANGED <<version, revision, settings, drafts, save, format, dialog, reload, seen, shell, dashboard, missed, acts>>

\* applySettings: what is shown is replaced, and unsaved changes with it.
KeepDrafts(s) == settings' = s /\ UNCHANGED drafts
Apply(s) == settings' = s /\ drafts' = None

\* The answer to loadSettings.  A load of submitEmbeddingInputFormat ends it, and
\* with it a reload that was asked for meanwhile.
Dropped == format = "loading" /\ reload
LoadArrivesUnread ==
    /\ load.on /\ load' = NoLoad /\ Apply([target |-> load.target, version |-> load.read])
    /\ UNCHANGED <<version, revision, save, format, dialog, reload, seen, shell, dashboard, missed, acts>>
LoadArrives ==
    /\ load.on /\ load.read # 0 /\ load' = NoLoad
    /\ Apply([target |-> load.target, version |-> load.read])
    /\ format' = (IF format = "loading" THEN "idle" ELSE format)
    /\ reload' = (reload /\ format # "loading") /\ missed' = (missed \/ Dropped)
    /\ UNCHANGED <<version, revision, save, dialog, seen, shell, dashboard, acts>>

\* The request fails: the page keeps what it shows.
LoadFails ==
    /\ load.on /\ Act /\ load' = NoLoad /\ missed' = TRUE
    /\ format' = (IF format = "loading" THEN "idle" ELSE format) /\ reload' = (reload /\ format # "loading")
    /\ UNCHANGED <<version, revision, settings, drafts, save, dialog, seen, shell, dashboard>>

\* Retry, shown when nothing could be loaded.
Retry ==
    /\ settings = None /\ ~load.on /\ load' = Loading(Preferred) /\ missed' = FALSE
    /\ UNCHANGED <<version, revision, settings, drafts, save, format, dialog, reload, seen, shell, dashboard, acts>>

-----------------------------------------------------------------------------
(* Edits, saves and resets. *)

Edit ==
    /\ settings # None /\ dialog.kind = "none" /\ Act /\ drafts' = settings
    /\ UNCHANGED <<version, revision, settings, load, save, format, dialog, reload, seen, shell, dashboard, missed>>

\* submitSettingsUpdate: the target and the version are those on the screen.
Submit(base, keep) ==
    save' = [on |-> TRUE, target |-> settings.target, version |-> settings.version,
             base |-> base, keep |-> keep, answer |-> "none"]

Save ==
    /\ drafts # None /\ ~save.on /\ Room /\ dialog.kind = "none" /\ Act /\ Submit(drafts, FALSE)
    /\ UNCHANGED <<version, revision, settings, drafts, load, format, dialog, reload, seen, shell, dashboard, missed>>

\* resetAll and the scoped resets: a dialog names what will be reset.
OpenReset ==
    /\ settings # None /\ ~save.on /\ dialog.kind = "none" /\ Act
    /\ \E k \in {"all", "scoped"} : dialog' = [kind |-> k, about |-> settings.target]
    /\ UNCHANGED <<version, revision, settings, drafts, load, save, format, reload, seen, shell, dashboard, missed>>

ConfirmReset ==
    /\ dialog.kind \in {"all", "scoped"} /\ Room /\ dialog' = NoDialog
    /\ Submit(settings, dialog.kind = "scoped")
    /\ UNCHANGED <<version, revision, settings, drafts, load, format, reload, seen, shell, dashboard, missed, acts>>

Cancel ==
    /\ dialog.kind # "none" /\ dialog' = NoDialog
    /\ UNCHANGED <<version, revision, settings, drafts, load, save, format, reload, seen, shell, dashboard, missed, acts>>

\* The server: a version that is not the stored one is a conflict.
Stored(t) ==
    /\ version' = [version EXCEPT ![t] = @ + 1] /\ revision' = revision + 1
AnyVersion == TRUE
Expected == save.version = version[save.target]
ServerSaves ==
    /\ save.on /\ save.answer = "none"
    /\ IF Expected
       THEN Stored(save.target) /\ save' = [save EXCEPT !.answer = "saved", !.version = @ + 1]
       ELSE UNCHANGED <<version, revision>> /\ save' = [save EXCEPT !.answer = "refused"]
    /\ UNCHANGED <<settings, drafts, load, format, dialog, reload, seen, shell, dashboard, missed, acts>>

\* The finally of submitSettingsUpdate: a reload that was put off is begun.
\* It aborts the load of a format, which ends with it.
Forgets(t) == UNCHANGED <<load, missed, format>>
Reloads(t) ==
    IF reload
    THEN load' = Loading(t) /\ missed' = FALSE /\ format' = (IF format = "loading" THEN "idle" ELSE format)
    ELSE UNCHANGED <<load, missed, format>>

\* The answer: a scoped reset puts the other drafts back.
SaveArrives ==
    /\ save.on /\ save.answer # "none" /\ save' = NoSave
    /\ IF save.answer = "saved"
       THEN LET s == [target |-> save.target, version |-> save.version] IN
            settings' = s /\ drafts' = IF save.keep /\ drafts # None /\ drafts.target = s.target THEN s ELSE None
       ELSE UNCHANGED <<settings, drafts>>
    /\ Reloads(settings'.target) /\ reload' = FALSE
    /\ UNCHANGED <<version, revision, dialog, seen, shell, dashboard, acts>>

\* Its connection fails, whether the server saved or not.
SaveLost ==
    /\ save.on /\ Act /\ save' = NoSave
    /\ Reloads(settings.target) /\ reload' = FALSE
    /\ UNCHANGED <<version, revision, settings, drafts, dialog, seen, shell, dashboard>>

-----------------------------------------------------------------------------
(* The target, and the search text formats. *)

\* changeSettingsTarget: asks before unsaved changes are discarded.
SwitchTo(t) == load' = Loading(t) /\ missed' = FALSE
Switch(t) ==
    /\ settings # None /\ t # settings.target /\ ~load.on /\ ~save.on /\ dialog.kind = "none" /\ Act
    /\ IF drafts = None THEN SwitchTo(t) /\ UNCHANGED dialog
       ELSE dialog' = [kind |-> "switch", about |-> t] /\ UNCHANGED <<load, missed>>
    /\ UNCHANGED <<version, revision, settings, drafts, save, format, reload, seen, shell, dashboard>>

\* It aborts the load of a format as well, which ends with it.
ConfirmSwitch ==
    /\ dialog.kind = "switch" /\ dialog' = NoDialog /\ SwitchTo(dialog.about)
    /\ format' = (IF format = "loading" THEN "idle" ELSE format) /\ reload' = (reload /\ format # "loading")
    /\ UNCHANGED <<version, revision, settings, drafts, save, seen, shell, dashboard, acts>>

SubmitFormat ==
    /\ settings # None /\ format = "idle" /\ Room /\ dialog.kind = "none" /\ Act /\ format' = "posting"
    /\ UNCHANGED <<version, revision, settings, drafts, load, save, dialog, reload, seen, shell, dashboard, missed>>

\* The format is created, which counts as a revision of the settings.
CreateFormat ==
    /\ format = "posting" /\ revision' = revision + 1 /\ format' = "created"
    /\ UNCHANGED <<version, settings, drafts, load, save, dialog, reload, seen, shell, dashboard, missed, acts>>

FormatCreated ==
    /\ format = "created" /\ format' = "loading" /\ load' = Loading(settings.target) /\ reload' = FALSE /\ missed' = save.on
    /\ UNCHANGED <<version, revision, settings, drafts, save, dialog, seen, shell, dashboard, acts>>

FormatRefused ==
    /\ format = "posting" /\ format' = "idle"
    /\ IF reload THEN load' = Loading(settings.target) /\ missed' = save.on ELSE UNCHANGED <<load, missed>>
    /\ reload' = FALSE
    /\ UNCHANGED <<version, revision, settings, drafts, save, dialog, seen, shell, dashboard, acts>>

-----------------------------------------------------------------------------
(* Others, and the shell. *)

SavedElsewhere(t) ==
    /\ Room /\ Stored(t)
    /\ UNCHANGED <<settings, drafts, load, save, format, dialog, reload, seen, shell, dashboard, missed, acts>>

\* refreshDashboard, asked for at an interval and on every event (module StateRevisions).
DashboardReads ==
    /\ dashboard = 0 /\ dashboard' = revision
    /\ UNCHANGED <<version, revision, settings, drafts, load, save, format, dialog, reload, seen, shell, missed, acts>>

\* The settingsRevisionListener: while a save or a format is under way the load
\* is put off.  Without settings the first revision is only noted, and any
\* later one loads again.
Noticed ==
    IF settings = None /\ seen = 0 THEN missed' = TRUE /\ UNCHANGED <<load, reload>>
    ELSE IF settings = None THEN load' = Loading(Preferred) /\ missed' = FALSE /\ UNCHANGED reload
    ELSE IF Busy THEN reload' = TRUE /\ UNCHANGED <<load, missed>>
    ELSE load' = Loading(settings.target) /\ missed' = FALSE /\ UNCHANGED reload

DashboardArrives ==
    /\ dashboard # 0 /\ dashboard' = 0 /\ shell' = dashboard
    /\ IF dashboard # shell /\ dashboard # seen
       THEN seen' = dashboard /\ Noticed
       ELSE UNCHANGED <<seen, load, reload, missed>>
    /\ UNCHANGED <<version, revision, settings, drafts, save, format, dialog, acts>>

Next ==
    \/ ServerReads \/ LoadArrives \/ LoadFails \/ Retry
    \/ Edit \/ Save \/ OpenReset \/ ConfirmReset \/ Cancel \/ ServerSaves \/ SaveArrives \/ SaveLost
    \/ \E t \in Targets : Switch(t) \/ SavedElsewhere(t)
    \/ ConfirmSwitch \/ SubmitFormat \/ CreateFormat \/ FormatCreated \/ FormatRefused
    \/ DashboardReads \/ DashboardArrives

Spec == Init /\ [][Next]_vars

\* Requests are answered, and the shell refreshes its dashboard at an interval.
Fairness ==
    /\ WF_vars(ServerReads) /\ WF_vars(LoadArrives) /\ WF_vars(Retry)
    /\ WF_vars(ServerSaves \/ SaveArrives) /\ WF_vars(CreateFormat \/ FormatCreated)
    /\ WF_vars(FormatRefused) /\ WF_vars(DashboardReads) /\ WF_vars(DashboardArrives)

FairSpec == Spec /\ Fairness


-----------------------------------------------------------------------------
(* Properties. *)

TypeOK ==
    /\ version \in [Targets -> 1..MaxVersion + 1] /\ {revision, seen, shell, dashboard} \subseteq 0..MaxVersion + 1
    /\ {settings, drafts} \subseteq Shown \cup {None}
    /\ load.on \in BOOLEAN /\ load.target \in Targets \cup {"none"} /\ load.read \in 0..MaxVersion + 1
    /\ save.on => save.target \in Targets /\ save.version \in 1..MaxVersion + 1
    /\ format \in {"idle", "posting", "created", "loading"} /\ {reload, missed} \subseteq BOOLEAN
    /\ dialog.kind \in {"none", "all", "scoped", "switch"}

\* Unsaved changes are changes of what is on the screen: no load, save or switch
\* leaves the drafts of one target or version under the settings of another.
DraftsMatch == drafts # None => drafts = settings

\* Nobody's save is overwritten: a save that is stored was made on the version it
\* replaces.
SavedOnWhatWasStored ==
    \A t \in Targets :
       (save.answer = "none" /\ save'.answer = "saved" /\ save.target = t)
          => save.base = [target |-> t, version |-> version[t]]

\* What a reset dialog says is what is reset.
ResetsWhatWasConfirmed ==
    [][(dialog.kind \in {"all", "scoped"} /\ save'.on /\ ~save.on) => save'.target = dialog.about]_vars

\* A page that shows an old version has something under way that brings the new
\* one, except after a revision it noted without a load: before its first answer
\* (seen without settings), at the end of a new format (line 1372), or when a
\* format and a save are under way together.
NoLostReload ==
    (settings # None /\ settings.version # version[settings.target] /\ ~missed) =>
        \/ load.on /\ (load.read \in {0, version[load.target]} \/ load.target # settings.target)
        \/ save.on \/ reload \/ format # "idle" \/ shell # revision

\* The page shows the stored settings in the end.
SettingsCatchUp ==
    \A t \in Targets, v \in 1..MaxVersion + 1 :
        <>[](settings # None /\ settings.target = t /\ version[t] = v /\ ~missed) => <>[](settings.version = v)
=============================================================================
