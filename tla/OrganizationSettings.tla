------------------------ MODULE OrganizationSettings ------------------------
(***************************************************************************)
(* The settings of the organisation and of its workspaces.  A save is one  *)
(* transaction: it locks the row of the organisation, compares the version *)
(* its page was built from, checks what the new settings refer to (the     *)
(* provider connections, the Codex sign-in, the workspaces, the jobs of    *)
(* the default Docling service) and writes.                                *)
(***************************************************************************)
EXTENDS Naturals, FiniteSets

CONSTANTS
    Admins, Workspaces,
    Jobs,           \* ingestion jobs that may be assigned to the default Docling service
    Custom,         \* providers that can be added and removed
    Codex, NoProvider,
    MaxVersion      \* saves of the organisation and of a workspace

SettingsAssumption ==
    MaxVersion \in Nat \ {0} /\ Codex \notin Custom /\ NoProvider \notin Custom \cup {Codex}

VARIABLES
    org,        \* application_settings
    ws,         \* workspace_settings: version and provider of the overridden feature
    credential, \* the status of the Codex credentials
    assigned,   \* jobs with a slot of the default Docling service
    page,       \* the settings each administrator's page shows
    tx          \* the transaction each administrator has open

vars == <<org, ws, credential, assigned, page, tx>>

Providers == Custom \cup {Codex}
NoTx == [kind |-> "none", next |-> NoProvider, workspace |-> NoProvider]
NoWorkspace == NoProvider

\* The feature may be routed to nobody.
Init ==
    /\ org = [version |-> 1, connections |-> {Codex}, route |-> NoProvider, url |-> 0]
    /\ ws = [w \in Workspaces |-> [version |-> 1, feature |-> NoProvider]]
    /\ credential = "none" /\ assigned = {}
    /\ page = [a \in Admins |-> [org |-> org, ws |-> ws]] /\ tx = [a \in Admins |-> NoTx]

Holds(a, kinds) == tx[a].kind \in kinds
NotLocked == TRUE
\* SELECT ... FOR UPDATE and FOR SHARE on the row of the organisation
MayUpdate == \A a \in Admins : ~Holds(a, {"organization", "workspace"})
MayShare == \A a \in Admins : ~Holds(a, {"organization"})
-----------------------------------------------------------------------------
ReadPage(a) ==
    /\ tx[a] = NoTx /\ page' = [page EXCEPT ![a] = [org |-> org, ws |-> ws]]
    /\ UNCHANGED <<org, ws, credential, assigned, tx>>

AnyVersion(a) == TRUE
ExpectedVersion(a) == page[a].org.version = org.version

\* parseProviderSettings and validateWorkspaceProviderReferences
ReferencesHold(s) ==
    /\ s.route \in s.connections \cup {NoProvider}
    /\ \A w \in Workspaces : ws[w].feature \in s.connections \cup {NoProvider}

\* validateOpenAICodexRouteChange
RouteAllowed(p) == p = Codex => credential = "connected"

\* ApplicationSettingsRepository.update up to its UPDATE statement
BeginOrganization(a, s) ==
    /\ tx[a] = NoTx /\ MayUpdate /\ ExpectedVersion(a) /\ org.version < MaxVersion
    /\ s.version = org.version + 1 /\ ReferencesHold(s)
    /\ s.route # org.route => RouteAllowed(s.route)
    /\ s.url # org.url => assigned = {}          \* validateDefaultDoclingUrlChange
    /\ tx' = [tx EXCEPT ![a] = [kind |-> "organization", next |-> s, workspace |-> NoWorkspace]]
    /\ UNCHANGED <<org, ws, credential, assigned, page>>

\* The changes the settings page sends, applied to the stored settings.
Changes ==
    LET next == [org EXCEPT !.version = @ + 1] IN
    {[next EXCEPT !.connections = @ \cup {p}] : p \in Custom \ org.connections}
        \cup {[next EXCEPT !.connections = @ \ {p}] : p \in Custom \cap org.connections}
        \cup {[next EXCEPT !.route = p] : p \in (org.connections \cup {NoProvider}) \ {org.route}}
        \cup {[next EXCEPT !.url = 1 - @]}

CommitOrganization(a) ==
    /\ tx[a].kind = "organization" /\ org' = tx[a].next
    /\ tx' = [tx EXCEPT ![a] = NoTx] /\ page' = [page EXCEPT ![a].org = org']
    /\ UNCHANGED <<ws, credential, assigned>>

ShareIgnored(a, w, p) ==
    /\ tx[a] = NoTx /\ p \in (org.connections \cup {NoProvider}) \ {ws[w].feature}
    /\ \A b \in Admins : tx[b].workspace # w
    /\ page[a].ws[w].version = ws[w].version /\ ws[w].version < MaxVersion /\ RouteAllowed(p)
    /\ tx' = [tx EXCEPT ![a] = [kind |-> "reading", next |-> p, workspace |-> w]]
    /\ UNCHANGED <<org, ws, credential, assigned, page>>
\* WorkspaceSettingsRepository.update: its row is locked as well.
BeginWorkspace(a, w, p) ==
    /\ tx[a] = NoTx /\ MayShare /\ p \in (org.connections \cup {NoProvider}) \ {ws[w].feature}
    /\ \A b \in Admins : tx[b].workspace # w
    /\ page[a].ws[w].version = ws[w].version /\ ws[w].version < MaxVersion /\ RouteAllowed(p)
    /\ tx' = [tx EXCEPT ![a] = [kind |-> "workspace", next |-> p, workspace |-> w]]
    /\ UNCHANGED <<org, ws, credential, assigned, page>>

CommitWorkspace(a) ==
    /\ tx[a].kind \in {"workspace", "reading"}
    /\ ws' = [ws EXCEPT ![tx[a].workspace] = [version |-> @.version + 1, feature |-> tx[a].next]]
    /\ tx' = [tx EXCEPT ![a] = NoTx]
    /\ page' = [page EXCEPT ![a].ws[tx[a].workspace] = ws'[tx[a].workspace]]
    /\ UNCHANGED <<org, credential, assigned>>

\* The connection breaks, or a later statement of the transaction fails.
Rollback(a) ==
    /\ tx[a] # NoTx /\ tx' = [tx EXCEPT ![a] = NoTx]
    /\ UNCHANGED <<org, ws, credential, assigned, page>>
-----------------------------------------------------------------------------
(* What else changes while a save is checked.                               *)

\* A device sign-in is stored, a refresh is refused.
SignIn ==
    /\ credential # "connected" /\ credential' = "connected"
    /\ UNCHANGED <<org, ws, assigned, page, tx>>
RefreshRefused ==
    /\ credential = "connected" /\ credential' = "reauth-required"
    /\ UNCHANGED <<org, ws, assigned, page, tx>>

DisconnectUnlocked ==
    /\ credential # "none" /\ org.route # Codex /\ credential' = "none"
    /\ UNCHANGED <<org, ws, assigned, page, tx>>
\* disconnect looks at the routing of the organisation.
Disconnect ==
    /\ credential # "none" /\ MayUpdate /\ org.route # Codex /\ credential' = "none"
    /\ UNCHANGED <<org, ws, assigned, page, tx>>

\* ensureAssignment and the end of a Docling task
Assign(j) ==
    /\ j \notin assigned /\ assigned' = assigned \cup {j}
    /\ UNCHANGED <<org, ws, credential, page, tx>>
Unassign(j) ==
    /\ j \in assigned /\ assigned' = assigned \ {j}
    /\ UNCHANGED <<org, ws, credential, page, tx>>

AdminStep(a) ==
    \/ ReadPage(a) \/ CommitOrganization(a) \/ CommitWorkspace(a) \/ Rollback(a)
    \/ \E s \in Changes : BeginOrganization(a, s)
    \/ \E w \in Workspaces, p \in Providers \cup {NoProvider} : BeginWorkspace(a, w, p)

Next ==
    \/ \E a \in Admins : AdminStep(a)
    \/ \E j \in Jobs : Assign(j) \/ Unassign(j)
    \/ SignIn \/ RefreshRefused \/ Disconnect

Spec == Init /\ [][Next]_vars
-----------------------------------------------------------------------------
\* Type invariant; the organisation row has one writer, or readers, at a time.
TypeOK ==
    /\ org.version \in 1 .. MaxVersion /\ org.connections \subseteq Providers
    /\ \A w \in Workspaces : ws[w].feature \in Providers \cup {NoProvider}
    /\ credential \in {"none", "connected", "reauth-required"} /\ assigned \subseteq Jobs
    /\ \A a \in Admins : Holds(a, {"organization"}) =>
          \A b \in Admins \ {a} : ~Holds(b, {"organization", "workspace"})

\* Every provider that the organisation or a workspace uses has a connection:
\* removing it cannot slip past a workspace that chooses it at the same moment.
ReferencesExist == ReferencesHold(org)

\* Nobody saves over settings that its page does not show.
SavesWhatWasShown ==
    \A a \in Admins : (tx[a].kind = "organization" /\ org' # org /\ org' = tx[a].next) => page[a].org = org

\* The organisation does not route a feature to Codex without its credentials.
RouteHasCredentials == org.route = Codex => credential # "none"

\* The message of a refused disconnect, for every route there is: Codex is not
\* disconnected while a feature is routed to it.
NotDisconnectedWhileRouted ==
    credential = "none" => org.route # Codex /\ \A w \in Workspaces : ws[w].feature # Codex

\* The message of a refused save: the default Docling URL does not change while
\* jobs are assigned to that service.
UrlKeptWhileAssigned == [][org'.url # org.url => assigned = {}]_vars
=============================================================================
