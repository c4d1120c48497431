-------------------------- MODULE MCAdministration ---------------------------
(* Accounts and settings: every behaviour is one component, the others stay as they begin. *)
EXTENDS RuntimeManager, Naturals, FiniteSets, TLC

CONSTANTS Parts, Nil, Pair, Others

VARIABLE part   \* the component this behaviour explores
\* Accounts
VARIABLES workspace, member, user, credential, chosen, passwords, session,
          link, used, settings, identity, request
\* OrganizationSettings
VARIABLES org, ws, settingsCredential, assigned, page, tx
\* CodexCredentials
VARIABLES row, lock, req, issued, live, refused, unsaved, flow, tokensCurrent,
          admin, turn, ended

localVars == <<workspace, member, user, credential, chosen, passwords,
               session, link, used, settings, identity, request>>
settingsVars == <<org, ws, settingsCredential, assigned, page, tx>>
tokensVars == <<row, lock, req, issued, live, refused, unsaved, flow,
                tokensCurrent, admin, turn, ended>>
suiteVars == <<part, localVars, settingsVars, tokensVars, vars>>

Local == INSTANCE Accounts WITH
    Users <- {"admin", "u"}, Admin <- "admin", Workspaces <- {"w1", "w2"},
    First <- "w1", Sessions <- {"s1"}, Links <- {"k1"}, Requests <- Pair,
    Configurations <- {}, MaxVersion <- 1, MaxPasswords <- 2, None <- Nil
Passwords == INSTANCE Accounts WITH
    Users <- {"admin", "u"}, Admin <- "admin", Workspaces <- {"w1"},
    First <- "w1", Sessions <- {"s1"}, Links <- {"k1", "k2"},
    Requests <- Pair, Configurations <- {}, MaxVersion <- 1,
    MaxPasswords <- 3, None <- Nil
OAuth == INSTANCE Accounts WITH
    Users <- {"admin", "u"}, Admin <- "admin", Workspaces <- {"w1"},
    First <- "w1", Sessions <- {"s1"}, Links <- {}, Requests <- Pair,
    Configurations <- {"c1"}, MaxVersion <- 5, MaxPasswords <- 1, None <- Nil
Settings == INSTANCE OrganizationSettings WITH
    Admins <- Pair, Workspaces <- {"w1"}, Jobs <- {"j1"}, Custom <- Others,
    Codex <- "codex", NoProvider <- Nil, MaxVersion <- 3,
    credential <- settingsCredential
Tokens == INSTANCE CodexCredentials WITH
    Requests <- Pair, Admins <- {"a1"}, MaxFlows <- 2, Nobody <- Nil,
    current <- tokensCurrent
SignIn == INSTANCE CodexCredentials WITH
    Requests <- Pair, Admins <- Others, MaxFlows <- 2, Nobody <- Nil,
    current <- tokensCurrent

ASSUME InstancesAssumption ==
    /\ Local!AccountsAssumption
    /\ Passwords!AccountsAssumption
    /\ OAuth!AccountsAssumption
    /\ Settings!SettingsAssumption
    /\ Tokens!CodexAssumption
    /\ SignIn!CodexAssumption
    /\ RuntimeAssumption

\* The components that are not explored stay as they begin.
SuiteInit ==
    /\ part \in Parts
    /\ IF part = "passwords" THEN Passwords!Init ELSE
       IF part = "oauth" THEN OAuth!Init ELSE
       Local!Init
    /\ Settings!Init
    /\ IF part = "signin" THEN SignIn!Init ELSE
       Tokens!Init
    /\ Init

SuiteNext ==
    /\ UNCHANGED part
    /\ \/ /\ part = "accounts" /\ Local!Next
          /\ UNCHANGED <<settingsVars, tokensVars, vars>>
       \/ /\ part = "passwords" /\ Passwords!Next
          /\ UNCHANGED <<settingsVars, tokensVars, vars>>
       \/ /\ part = "oauth" /\ OAuth!Next
          /\ UNCHANGED <<settingsVars, tokensVars, vars>>
       \/ /\ part = "settings" /\ Settings!Next
          /\ UNCHANGED <<localVars, tokensVars, vars>>
       \/ /\ part = "credentials" /\ Tokens!Next
          /\ admin'["a1"].op \in {"none", "start"}
          /\ UNCHANGED <<localVars, settingsVars, vars>>
       \/ /\ part = "signin" /\ SignIn!Next
          /\ \E r \in Pair : req'[r].pc = "new"
          /\ UNCHANGED <<localVars, settingsVars, vars>>
       \/ /\ part = "runtime" /\ Next
          /\ UNCHANGED <<localVars, settingsVars, tokensVars>>

SuiteSpec == SuiteInit /\ [][SuiteNext]_suiteVars
Symmetry == Permutations(Pair) \cup Permutations(Others)
-----------------------------------------------------------------------------
\* Type correctness: each component that is explored keeps its type invariant.
TypesOK ==
    /\ part = "accounts" => Local!TypeOK
    /\ part = "settings" => Settings!TypeOK
    /\ part = "credentials" => Tokens!TypeOK
    /\ part = "runtime" => TypeOK

\* Whatever requests race, an administrator remains, defaults are reachable,
\* the password that was set last is stored, a link is used once, and OAuth
\* can be left.
AccountsStayUsable ==
    /\ part = "accounts" =>
          /\ Local!AdministratorRemains
          /\ Local!DefaultIsReachable
          /\ Local!PasswordIsStored
    /\ part = "passwords" =>
          /\ Passwords!PasswordIsStored
          /\ Passwords!LinksAreUsedOnce
    /\ part = "oauth" => OAuth!OAuthCanBeLeft

\* Settings refer to providers that exist with credentials they need, no
\* rejected token is used again, a cancelled sign-in stored nothing, and a
\* shutdown leaves no runtime behind.
SettingsHoldTogether ==
    /\ part = "settings" =>
          /\ Settings!ReferencesExist
          /\ Settings!RouteHasCredentials
    /\ part = "credentials" => Tokens!NoTokenIsReplayed
    /\ part = "signin" => SignIn!CancelledStoredNothing
    /\ part = "runtime" => ShutdownLeavesNothing

\* No step follows from what is out of date: settings are saved on what was
\* shown, a token is refreshed once, sign-ins survive their refreshes and end
\* with a disconnect, and no older runtime comes back.
NoStaleStep == [][
    /\ part = "settings" => Settings!SavesWhatWasShown
    /\ part = "credentials" =>
          /\ Tokens!RefreshedOnce
          /\ Tokens!SignInIsKept
    /\ part = "signin" => SignIn!DisconnectEndsSignIns
    /\ part = "runtime" => NeverGoesBack]_suiteVars

\* There is a workspace to sign in to: archiveWorkspace refuses the workspace
\* its caller is in.
WorkspaceRemains == part = "accounts" => Local!WorkspaceRemains
=============================================================================
