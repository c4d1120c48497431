------------------------------ MODULE Accounts ------------------------------
(***************************************************************************)
(* Accounts: workspaces, memberships, default workspaces, sessions,        *)
(* password links and credentials, and the authentication mode with its    *)
(* OAuth identity links.  A transaction that locks the rows it decides on  *)
(* is one step; a request reads its principal first, so every operation    *)
(* may run with a principal that is out of date.                           *)
(***************************************************************************)
EXTENDS Naturals, FiniteSets

CONSTANTS
    Users, Admin,       \* Admin is the global administrator of the bootstrap
    Workspaces, First,  \* First is DefaultSpace
    Sessions, Links,    \* session and password-link tokens
    Requests,
    Configurations,     \* OAuth configurations, told apart by their issuer; {} without OAuth
    MaxVersion,         \* bound: versions of the authentication settings
    MaxPasswords,       \* bound: passwords that are ever chosen
    None

AccountsAssumption ==
    /\ Admin \in Users /\ First \in Workspaces
    /\ MaxVersion \in Nat \ {0} /\ MaxPasswords \in Nat \ {0}
    /\ None \notin Users \cup Workspaces \cup Sessions \cup Links \cup Configurations

VARIABLES
    workspace,  \* "none", "active" or "archived"
    member,     \* workspace_memberships: role and access per user and workspace
    user,       \* users: state and default workspace
    credential, \* user_password_credentials: the password whose hash is stored
    chosen,     \* history: the password the user was last told is set
    passwords,  \* passwords chosen so far
    session,    \* user_sessions: user and active workspace
    link,       \* user_setup_tokens: user and workspace
    used,       \* history: how often a link was used
    settings,   \* authentication_settings
    identity,   \* oauth_user_identity_links: users linked per configuration's issuer
    request     \* requests in flight and what they read

vars == <<workspace, member, user, credential, chosen, passwords, session, link, used, settings, identity, request>>

NoMember == [role |-> "none", access |-> "none"]
AdminMember == [role |-> "admin", access |-> "enabled"]
NoSession == [user |-> None, workspace |-> None]
NoLink == [user |-> None, workspace |-> None]
NoRequest == [op |-> "none"]
Principal(s, u, w) == [op |-> "principal", session |-> s, user |-> u, workspace |-> w,
                       role |-> member[u][w].role, version |-> settings.version]

\* bootstrap.sql on an empty database
Init ==
    /\ workspace = [w \in Workspaces |-> IF w = First THEN "active" ELSE "none"]
    /\ member = [u \in Users |-> [w \in Workspaces |-> IF u = Admin /\ w = First THEN AdminMember ELSE NoMember]]
    /\ user = [u \in Users |-> [state |-> IF u = Admin THEN "active" ELSE "none", default |-> None]]
    /\ credential = [u \in Users |-> IF u = Admin THEN 1 ELSE 0]
    /\ chosen = credential /\ passwords = 1
    /\ session = [s \in Sessions |-> NoSession]
    /\ link = [k \in Links |-> NoLink] /\ used = [k \in Links |-> 0]
    /\ settings = [mode |-> "local", active |-> None, staged |-> None, recovery |-> FALSE, version |-> 1]
    /\ identity = [c \in Configurations |-> {}]
    /\ request = [r \in Requests |-> NoRequest]

Enabled(u, w) == member[u][w].access = "enabled" /\ workspace[w] = "active"
\* readPreferredWorkspace: the default workspace if it can be entered, else any.
Preferred(u, w) == Enabled(u, w) /\ (user[u].default # None /\ Enabled(u, user[u].default) => w = user[u].default)
Done(r) == request' = [request EXCEPT ![r] = NoRequest]
Idle(r) == request[r].op = "none"
WithPrincipal(r) == request[r].op = "principal"
catalog == <<workspace, member>>
secrets == <<credential, chosen, passwords>>
oauth == <<settings, identity>>
links == <<link, used>>
-----------------------------------------------------------------------------
\* authenticate: the row is read, the password is verified, and the session
\* is inserted by a later statement.
LoginReads(r, u) ==
    /\ Idle(r) /\ user[u].state = "active" /\ credential[u] # 0
    /\ \E w \in Workspaces :
          /\ Preferred(u, w)
          /\ request' = [request EXCEPT ![r] = [op |-> "login", user |-> u, workspace |-> w]]
    /\ UNCHANGED <<catalog, user, secrets, session, links, oauth>>
LoginInserts(r, s) ==
    /\ request[r].op = "login" /\ session[s] = NoSession
    /\ session' = [session EXCEPT ![s] = [user |-> request[r].user, workspace |-> request[r].workspace]]
    /\ Done(r) /\ UNCHANGED <<catalog, user, secrets, links, oauth>>

\* readSession, with the rows it joins; an expired session is deleted.
ReadSession(r, s) ==
    LET u == session[s].user w == session[s].workspace IN
    /\ Idle(r) /\ settings.mode = "local" /\ session[s] # NoSession
    /\ Enabled(u, w) /\ user[u].state = "active"
    /\ request' = [request EXCEPT ![r] = Principal(s, u, w)]
    /\ UNCHANGED <<catalog, user, secrets, session, links, oauth>>
SessionExpires(s) ==
    /\ session[s] # NoSession /\ session' = [session EXCEPT ![s] = NoSession]
    /\ UNCHANGED <<catalog, user, secrets, links, oauth, request>>
\* resolvePrincipal for a bearer token of the active issuer
ReadToken(r, u, w) ==
    /\ Idle(r) /\ settings.mode = "oauth" /\ u \in identity[settings.active]
    /\ user[u].state = "active" /\ Enabled(u, w)
    /\ request' = [request EXCEPT ![r] = Principal(None, u, w)]
    /\ UNCHANGED <<catalog, user, secrets, session, links, oauth>>
\* A validation, a policy or a missing right ends the request without effect.
Rejected(r) ==
    /\ ~Idle(r) /\ Done(r)
    /\ UNCHANGED <<catalog, user, secrets, session, links, oauth>>
-----------------------------------------------------------------------------
Global(r) == WithPrincipal(r) /\ request[r].user = Admin
Administers(r, w) == WithPrincipal(r) /\ (request[r].user = Admin \/ (request[r].workspace = w /\ request[r].role = "admin"))

FoundedEmpty(w) == member
Founded(w) == [member EXCEPT ![Admin][w] = AdminMember]
CreateWorkspace(r, w) ==
    /\ Global(r) /\ workspace[w] = "none" /\ user[Admin].state = "active"
    /\ workspace' = [workspace EXCEPT ![w] = "active"] /\ member' = Founded(w)
    /\ Done(r) /\ UNCHANGED <<user, secrets, session, links, oauth>>
KeepsDefault(us, w) == user
ForgetsDefault(us, w) == [u \in Users |-> [state |-> user[u].state, default |-> IF u \in us THEN "" ELSE user[u].default]]
Undefaulted(us, w) == [u \in Users |-> IF u \in us /\ user[u].default = w THEN [user[u] EXCEPT !.default = None] ELSE user[u]]
Revoked(us, w) == [s \in Sessions |-> IF session[s].user \in us /\ session[s].workspace = w THEN NoSession ELSE session[s]]
Archivable(r, w) == workspace[w] = "active" /\ w # request[r].workspace
ArchiveWorkspace(r, w) ==
    /\ Global(r) /\ Archivable(r, w)
    /\ workspace' = [workspace EXCEPT ![w] = "archived"]
    /\ session' = Revoked(Users, w) /\ user' = Undefaulted(Users, w)
    /\ Done(r) /\ UNCHANGED <<member, secrets, links, oauth>>

\* setDefaultWorkspace locks user, membership and workspace; without the
\* session of its principal it rolls back.
SetDefault(r, w) ==
    LET u == request[r].user s == request[r].session IN
    /\ WithPrincipal(r) /\ user[u].state = "active" /\ Enabled(u, w)
    /\ s # None => session[s].user = u
    /\ user' = [user EXCEPT ![u].default = w]
    /\ session' = IF s = None THEN session ELSE [session EXCEPT ![s].workspace = w]
    /\ Done(r) /\ UNCHANGED <<catalog, secrets, links, oauth>>
\* switchWorkspace checks and updates in two statements without a lock.
SwitchChecks(r, w) ==
    /\ WithPrincipal(r) /\ request[r].session # None
    /\ user[request[r].user].state = "active" /\ Enabled(request[r].user, w)
    /\ request' = [request EXCEPT ![r] = [op |-> "switch", session |-> @.session, user |-> @.user, workspace |-> w]]
    /\ UNCHANGED <<catalog, user, secrets, session, links, oauth>>
SwitchUpdates(r) ==
    LET s == request[r].session IN
    /\ request[r].op = "switch" /\ session[s].user = request[r].user
    /\ session' = [session EXCEPT ![s].workspace = request[r].workspace]
    /\ Done(r) /\ UNCHANGED <<catalog, user, secrets, links, oauth>>
RevokeSession(r) ==
    /\ WithPrincipal(r) /\ request[r].session # None
    /\ session' = [session EXCEPT ![request[r].session] = NoSession]
    /\ Done(r) /\ UNCHANGED <<catalog, user, secrets, links, oauth>>

\* requireAnotherAdministrator
AnotherAdministrator(w, u) == \E v \in Users \ {u} : member[v][w] = AdminMember /\ user[v].state = "active"
AddMember(r, w, u, role) ==
    /\ Administers(r, w) /\ workspace[w] = "active" /\ user[u].state # "none" /\ member[u][w] = NoMember
    /\ member' = [member EXCEPT ![u][w] = [role |-> IF u = Admin THEN "admin" ELSE role, access |-> "enabled"]]
    /\ Done(r) /\ UNCHANGED <<workspace, user, secrets, session, links, oauth>>
RemoveMember(r, w, u) ==
    /\ Administers(r, w) /\ workspace[w] = "active" /\ member[u][w] # NoMember /\ u # Admin
    /\ member[u][w] = AdminMember => AnotherAdministrator(w, u)
    /\ session' = Revoked({u}, w) /\ user' = Undefaulted({u}, w)
    /\ link' = [k \in Links |-> IF link[k] = [user |-> u, workspace |-> w] THEN NoLink ELSE link[k]]
    /\ member' = [member EXCEPT ![u][w] = NoMember]
    /\ Done(r) /\ UNCHANGED <<workspace, secrets, used, oauth>>
ChangeRole(r, w, u, role) ==
    /\ Administers(r, w) /\ workspace[w] = "active" /\ member[u][w] # NoMember
    /\ u = Admin => role = "admin"
    /\ member[u][w] = AdminMember /\ role = "member" => AnotherAdministrator(w, u)
    /\ member' = [member EXCEPT ![u][w].role = role]
    /\ Done(r) /\ UNCHANGED <<workspace, user, secrets, session, links, oauth>>
ChangeAccess(r, w, u, access) ==
    /\ Administers(r, w) /\ workspace[w] = "active" /\ member[u][w] # NoMember
    /\ ~(u = request[r].user /\ access = "disabled") /\ member[u][w].access # access
    /\ access = "disabled" => u # Admin
    /\ access = "disabled" /\ member[u][w].role = "admin" /\ user[u].state = "active" => AnotherAdministrator(w, u)
    /\ member' = [member EXCEPT ![u][w].access = access]
    /\ session' = IF access = "disabled" THEN Revoked({u}, w) ELSE session
    /\ user' = IF access = "disabled" THEN Undefaulted({u}, w) ELSE user
    /\ Done(r) /\ UNCHANGED <<workspace, secrets, links, oauth>>
-----------------------------------------------------------------------------
CreateUser(r, u) ==
    /\ Global(r) /\ user[u].state = "none"
    /\ user' = [user EXCEPT ![u].state = "pending"]
    /\ Done(r) /\ UNCHANGED <<catalog, secrets, session, links, oauth>>

KeepsLinks(u) == link
Unlinked(u) == [k \in Links |-> IF link[k].user = u THEN NoLink ELSE link[k]]
CreatePasswordLink(r, u, k) ==
    /\ Global(r) /\ user[u].state # "none" /\ link[k] = NoLink /\ used[k] = 0
    /\ \E w \in Workspaces :
          Enabled(u, w) /\ link' = [Unlinked(u) EXCEPT ![k] = [user |-> u, workspace |-> w]]
    /\ Done(r) /\ UNCHANGED <<catalog, user, secrets, session, used, oauth>>
LinkExpires(k) ==
    /\ link[k] # NoLink /\ link' = [link EXCEPT ![k] = NoLink]
    /\ UNCHANGED <<catalog, user, secrets, session, used, oauth, request>>

\* completePasswordSetup looks the link up, hashes the password, and decides
\* again inside the transaction.
SetupReads(r, k) ==
    /\ Idle(r) /\ link[k] # NoLink
    /\ request' = [request EXCEPT ![r] = [op |-> "setup", link |-> k]]
    /\ UNCHANGED <<catalog, user, secrets, session, links, oauth>>
\* A pending user gets a credential row; an active user's row is updated.
StoredOnlyFirst(u, p) == IF user[u].state = "active" THEN credential ELSE [credential EXCEPT ![u] = p]
Stored(u, p) == IF user[u].state = "active" /\ credential[u] = 0 THEN credential ELSE [credential EXCEPT ![u] = p]
SetupCompletes(r, s) ==
    LET k == request[r].link u == link[k].user p == passwords + 1 IN
    /\ request[r].op = "setup" /\ link[k] # NoLink /\ Enabled(u, link[k].workspace)
    /\ passwords < MaxPasswords /\ passwords' = p
    /\ credential' = Stored(u, p) /\ chosen' = [chosen EXCEPT ![u] = p]
    /\ user' = [user EXCEPT ![u].state = "active"]
    /\ link' = Unlinked(u) /\ used' = [used EXCEPT ![k] = @ + 1]
    /\ LET kept == [t \in Sessions |-> IF user[u].state = "active" /\ session[t].user = u THEN NoSession ELSE session[t]] IN
       /\ kept[s] = NoSession
       /\ \E w \in Workspaces :
             /\ Preferred(u, w)
             /\ session' = [kept EXCEPT ![s] = [user |-> u, workspace |-> w]]
    /\ Done(r) /\ UNCHANGED <<catalog, oauth>>

\* changePassword verifies the hash it read, and updates that hash only.
ChangeReads(r) ==
    LET u == request[r].user IN
    /\ WithPrincipal(r) /\ request[r].session # None /\ credential[u] # 0
    /\ request' = [request EXCEPT ![r] = [op |-> "change", session |-> @.session, user |-> u, read |-> credential[u]]]
    /\ UNCHANGED <<catalog, user, secrets, session, links, oauth>>
ChangeUpdates(r) ==
    LET u == request[r].user IN
    /\ request[r].op = "change" /\ credential[u] = request[r].read
    /\ passwords < MaxPasswords /\ passwords' = passwords + 1
    /\ credential' = [credential EXCEPT ![u] = passwords'] /\ chosen' = [chosen EXCEPT ![u] = passwords']
    /\ session' = [s \in Sessions |-> IF session[s].user = u /\ s # request[r].session THEN NoSession ELSE session[s]]
    /\ Done(r) /\ UNCHANGED <<catalog, user, links, oauth>>
-----------------------------------------------------------------------------
\* The settings are changed under a lock, for the version the client has seen.
Current(r) == Global(r) /\ request[r].version = settings.version /\ settings.version < MaxVersion
Bumped == [settings EXCEPT !.version = @ + 1]
RecoveryAllowed(enabled) == settings.mode = "oauth" => enabled
ConfigureHostRecovery(r, enabled) ==
    /\ Current(r) /\ RecoveryAllowed(enabled) /\ settings.recovery # enabled
    /\ settings' = [Bumped EXCEPT !.recovery = enabled]
    /\ Done(r) /\ UNCHANGED <<catalog, user, secrets, session, links, identity>>
Stage(r, c) ==
    /\ Current(r) /\ settings.staged # c
    /\ settings' = [Bumped EXCEPT !.staged = c]
    /\ Done(r) /\ UNCHANGED <<catalog, user, secrets, session, links, identity>>
\* requireActivatingAdministrator
LinkedAdministrator(c) == Admin \in identity[c] /\ user[Admin].state = "active" /\ \E w \in Workspaces : Enabled(Admin, w)
Activate(r) ==
    /\ Current(r) /\ settings.recovery /\ settings.staged # None /\ LinkedAdministrator(settings.staged)
    /\ settings' = [Bumped EXCEPT !.mode = "oauth", !.active = settings.staged, !.staged = None]
    /\ session' = [s \in Sessions |-> NoSession]
    /\ Done(r) /\ UNCHANGED <<catalog, user, secrets, links, identity>>
StaysActive == [Bumped EXCEPT !.mode = "local", !.staged = settings.active]
ToLocal == [Bumped EXCEPT !.mode = "local", !.active = None, !.staged = settings.active]
Disable(r) ==
    /\ Current(r) /\ settings.mode = "oauth" /\ settings' = ToLocal
    /\ session' = [s \in Sessions |-> NoSession]
    /\ Done(r) /\ UNCHANGED <<catalog, user, secrets, links, identity>>
\* The host operator's command needs no principal.
RecoverLocalAuthentication ==
    /\ settings.recovery /\ settings.mode = "oauth" /\ settings.version < MaxVersion /\ settings' = ToLocal
    /\ session' = [s \in Sessions |-> NoSession]
    /\ UNCHANGED <<catalog, user, secrets, links, identity, request>>
\* A pending user who is linked becomes active.
LinkIdentity(r, c, u) ==
    /\ Global(r) /\ user[u].state # "none"
    /\ identity' = [identity EXCEPT ![c] = @ \cup {u}]
    /\ user' = [user EXCEPT ![u].state = "active"]
    /\ Done(r) /\ UNCHANGED <<catalog, secrets, session, links, settings>>
AnyRemoval(r, c, u) == u # request[r].user \/ settings.mode = "oauth"
SafeRemoval(r, c, u) ==
    settings.mode = "oauth" /\ settings.active = c =>
        u # request[r].user /\ u # Admin /\ LinkedAdministrator(c)
UnlinkIdentity(r, c, u) ==
    /\ Global(r) /\ SafeRemoval(r, c, u)
    /\ identity' = [identity EXCEPT ![c] = @ \ {u}]
    /\ Done(r) /\ UNCHANGED <<catalog, user, secrets, session, links, settings>>
-----------------------------------------------------------------------------
Next ==
    \/ \E r \in Requests :
          \/ Rejected(r) \/ SwitchUpdates(r) \/ RevokeSession(r) \/ ChangeReads(r) \/ ChangeUpdates(r)
          \/ Activate(r) \/ Disable(r)
          \/ \E s \in Sessions : LoginInserts(r, s) \/ ReadSession(r, s) \/ SetupCompletes(r, s)
          \/ \E u \in Users : LoginReads(r, u) \/ CreateUser(r, u)
          \/ \E w \in Workspaces :
                \/ CreateWorkspace(r, w) \/ ArchiveWorkspace(r, w) \/ SetDefault(r, w) \/ SwitchChecks(r, w)
                \/ \E u \in Users :
                      \/ ReadToken(r, u, w) \/ RemoveMember(r, w, u)
                      \/ \E role \in {"admin", "member"} : AddMember(r, w, u, role) \/ ChangeRole(r, w, u, role)
                      \/ \E access \in {"enabled", "disabled"} : ChangeAccess(r, w, u, access)
          \/ \E k \in Links : SetupReads(r, k) \/ \E u \in Users : CreatePasswordLink(r, u, k)
          \/ \E enabled \in BOOLEAN : ConfigureHostRecovery(r, enabled)
          \/ \E c \in Configurations : Stage(r, c) \/ \E u \in Users : LinkIdentity(r, c, u) \/ UnlinkIdentity(r, c, u)
    \/ \E s \in Sessions : SessionExpires(s)
    \/ \E k \in Links : LinkExpires(k)
    \/ RecoverLocalAuthentication

Spec == Init /\ [][Next]_vars
-----------------------------------------------------------------------------
\* The variables hold values of the expected sets.
TypeOK ==
    /\ \A w \in Workspaces : workspace[w] \in {"none", "active", "archived"}
    /\ \A u \in Users :
          /\ user[u].state \in {"none", "pending", "active"} /\ user[u].default \in Workspaces \cup {None}
          /\ \A w \in Workspaces : member[u][w] = NoMember \/ member[u][w] \in [role : {"admin", "member"}, access : {"enabled", "disabled"}]
          /\ credential[u] \in 0..passwords
    /\ \A s \in Sessions : session[s] = NoSession \/ session[s] \in [user : Users, workspace : Workspaces]
    /\ \A k \in Links : link[k] = NoLink \/ link[k] \in [user : Users, workspace : Workspaces]
    /\ settings.mode = "oauth" <=> settings.active # None
    /\ settings.version \in 1..MaxVersion /\ passwords <= MaxPasswords

\* "The workspace always keeps at least one active administrator": whatever two
\* administrators do to each other and to themselves at the same time.
AdministratorRemains ==
    \A w \in Workspaces : workspace[w] = "active" => \E u \in Users : member[u][w] = AdminMember /\ user[u].state = "active"

\* A default workspace is one its user can enter: archiving, removal and
\* disabled access clear it, and none of them slips in between the check and
\* the assignment of setDefaultWorkspace.
DefaultIsReachable == \A u \in Users : user[u].default # None => Enabled(u, user[u].default)

\* A password link is used once, and a new link replaces the older ones.
LinksAreUsedOnce ==
    /\ \A k \in Links : used[k] <= 1
    /\ \A k, l \in Links : link[k] # NoLink /\ link[l] # NoLink /\ link[k].user = link[l].user => k = l

\* The password a user was told is set is the one that is stored.
PasswordIsStored == \A u \in Users : credential[u] = chosen[u]

\* While OAuth is active a linked global administrator can sign in, and the
\* host operator can return to local mode.
OAuthCanBeLeft == settings.mode = "oauth" => settings.recovery /\ Admin \in identity[settings.active]

\* There is a workspace to sign in to: archiveWorkspace refuses the workspace
\* its caller is in.
WorkspaceRemains == \E w \in Workspaces : workspace[w] = "active"
=============================================================================
