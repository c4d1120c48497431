-------------------------- MODULE CodexCredentials --------------------------
(***************************************************************************)
(* The stored sign-in of the OpenAI Codex provider.  Model requests read   *)
(* it and refresh it under one advisory lock; an administrator replaces it *)
(* by a device sign-in, which polls in the background of a web server and  *)
(* can be cancelled, and removes it by disconnecting.                      *)
(***************************************************************************)
EXTENDS Naturals, FiniteSets

CONSTANTS
    Requests,       \* model requests, each made once
    Admins,         \* administrators' calls
    MaxFlows,       \* device sign-ins that are started
    Nobody

CodexAssumption == MaxFlows \in Nat /\ Nobody \notin Requests \cup Admins

VARIABLES
    row,        \* provider_oauth_credentials
    lock,       \* the transaction that holds the refresh lock across its call
    req,        \* model requests
    issued,     \* refresh tokens the provider has issued so far
    live,       \* the ones it still accepts
    refused,    \* the ones it refused to refresh
    unsaved,    \* tokens spent by a refresh whose answer was not stored
    flow,       \* device sign-ins of the controller, by number
    current,    \* the controller's current one
    admin,      \* the administrators' calls
    turn,       \* the call that runs in the controller's queue
    ended       \* sign-ins up to this one were over before the last disconnect

provider == <<issued, live, refused, unsaved>>
device == <<flow, current, admin, turn, ended>>
vars == <<row, lock, req, provider, device>>

Flows == 1 .. MaxFlows
NoRow == [status |-> "none", version |-> 0, login |-> 0, token |-> 0, fresh |-> FALSE]
NewRequest == [pc |-> "new", forced |-> FALSE, seen |-> NoRow, token |-> 0]
Answered == [NewRequest EXCEPT !.pc = "done"]
NoFlow == [pc |-> "none", state |-> "none", aborted |-> FALSE]

Init ==
    /\ row = NoRow /\ lock = Nobody /\ req = [r \in Requests |-> NewRequest]
    /\ issued = 0 /\ live = {} /\ refused = {} /\ unsaved = {}
    /\ flow = [i \in Flows |-> NoFlow] /\ current = 0 /\ ended = 0
    /\ admin = [a \in Admins |-> [op |-> "none", pc |-> "idle"]] /\ turn = Nobody
-----------------------------------------------------------------------------
(* A model request: createOpenAICodexFetch and readForRequest.              *)

Ask(r) ==
    /\ req[r].pc = "new" /\ req' = [req EXCEPT ![r].pc = "wait"]
    /\ UNCHANGED <<row, lock, provider, device>>

RefreshesAnyway(r) == req[r].forced \/ ~row.fresh
\* After a refusal another request may have refreshed it already.
ShouldRefresh(r) == IF req[r].forced THEN row.version <= req[r].seen.version ELSE ~row.fresh

NeverLocked == TRUE
\* acquireRefreshLock
LockFree == lock = Nobody

ReadForRequest(r) ==
    /\ req[r].pc = "wait" /\ LockFree
    /\ IF row.status # "connected"
       THEN req' = [req EXCEPT ![r] = Answered] /\ lock' = lock
       ELSE IF ShouldRefresh(r)
       THEN req' = [req EXCEPT ![r].pc = "refresh", ![r].seen = row] /\ lock' = r
       ELSE req' = [req EXCEPT ![r].pc = "call", ![r].seen = row] /\ lock' = lock
    /\ UNCHANGED <<row, provider, device>>

RefreshedWithoutFallback(r, rotates) ==
    /\ req[r].pc = "refresh" /\ req[r].seen.token \in live
    /\ issued' = IF rotates THEN issued + 1 ELSE issued
    /\ live' = IF rotates THEN (live \ {req[r].seen.token}) \cup {issued + 1} ELSE live
    /\ req' = [req EXCEPT ![r].pc = "store", ![r].token = issued + 1]
    /\ UNCHANGED <<row, lock, refused, unsaved, device>>
\* The provider rotates the token, or leaves it and renews the access alone.
Refreshed(r, rotates) ==
    /\ req[r].pc = "refresh" /\ req[r].seen.token \in live
    /\ IF rotates
       THEN /\ issued' = issued + 1 /\ live' = (live \ {req[r].seen.token}) \cup {issued + 1}
            /\ req' = [req EXCEPT ![r].pc = "store", ![r].token = issued + 1]
       ELSE /\ req' = [req EXCEPT ![r].pc = "store", ![r].token = req[r].seen.token]
            /\ UNCHANGED <<issued, live>>
    /\ UNCHANGED <<row, lock, refused, unsaved, device>>

\* A spent token, or one that answers for another account.
RefreshRefused(r) ==
    /\ req[r].pc = "refresh" /\ refused' = refused \cup {req[r].seen.token}
    /\ req' = [req EXCEPT ![r].pc = "reject"]
    /\ UNCHANGED <<row, lock, issued, live, unsaved, device>>

RefreshFailsLocked(r) ==
    /\ req[r].pc = "refresh" /\ req' = [req EXCEPT ![r] = Answered]
    /\ UNCHANGED <<row, lock, provider, device>>
\* The service cannot be reached, or its answer is lost after the rotation: the
\* transaction rolls back and the request fails.
RefreshFails(r) ==
    /\ req[r].pc = "refresh" /\ lock' = Nobody /\ req' = [req EXCEPT ![r] = Answered]
    /\ \/ UNCHANGED provider
       \/ /\ req[r].seen.token \in live
          /\ live' = live \ {req[r].seen.token} /\ unsaved' = unsaved \cup {req[r].seen.token}
          /\ UNCHANGED <<issued, refused>>
    /\ UNCHANGED <<row, device>>

\* replaceCredential inserts the row again if it was removed meanwhile.
StoreRefreshed(r) ==
    /\ req[r].pc = "store" /\ lock' = Nobody
    /\ row' = [status |-> "connected", version |-> req[r].seen.version + 1,
               login |-> req[r].seen.login, token |-> req[r].token, fresh |-> TRUE]
    /\ req' = [req EXCEPT ![r] = [@ EXCEPT !.pc = "call", !.seen = row', !.token = 0]]
    /\ UNCHANGED <<provider, device>>

\* The commit fails after the provider answered.
StoreFails(r) ==
    /\ req[r].pc = "store" /\ lock' = Nobody /\ req' = [req EXCEPT ![r] = Answered]
    /\ unsaved' = unsaved \cup {req[r].seen.token}
    /\ UNCHANGED <<row, issued, live, refused, device>>

\* markCredentialReauthenticationRequired updates whatever row there is.
MarkReauthenticationRequired(r) ==
    /\ req[r].pc = "reject" /\ lock' = Nobody /\ req' = [req EXCEPT ![r] = Answered]
    /\ row' = IF row.status = "none" THEN row
              ELSE [row EXCEPT !.status = "reauth-required", !.version = req[r].seen.version + 1]
    /\ UNCHANGED <<provider, device>>

\* The provider refuses the access token: one more try with a forced refresh.
Respond(r, accepted) ==
    /\ req[r].pc = "call"
    /\ req' = IF accepted \/ req[r].forced THEN [req EXCEPT ![r] = Answered]
              ELSE [req EXCEPT ![r].pc = "wait", ![r].forced = TRUE]
    /\ UNCHANGED <<row, lock, provider, device>>

AccessExpires ==
    /\ row.fresh /\ row' = [row EXCEPT !.fresh = FALSE]
    /\ UNCHANGED <<lock, req, provider, device>>
-----------------------------------------------------------------------------
(* The device sign-in: OpenAICodexDeviceAuthController.run                  *)

Terminal(i) == flow[i].state \in {"cancelled", "connected", "expired", "failed"}
Ends(i, state) == flow' = [flow EXCEPT ![i].pc = "ended", ![i].state = state]
sign_in_leaves == <<row, lock, req, provider, current, admin, turn, ended>>

\* The answer of a poll may already be there when the sign-in is cancelled.
PollAuthorized(i) ==
    /\ flow[i].pc = "poll"
    /\ flow' = [flow EXCEPT ![i].pc = "exchange", ![i].state = "exchanging"]
    /\ UNCHANGED sign_in_leaves

Exchanged(i) ==
    /\ flow[i].pc = "exchange" /\ ~flow[i].aborted
    /\ flow' = [flow EXCEPT ![i].pc = "persist"] /\ UNCHANGED sign_in_leaves

ReplaceUnlocked(i) ==
    /\ flow[i].pc = "persist"
    /\ flow' = [flow EXCEPT ![i].pc = "persisted"]
    /\ issued' = issued + 1 /\ live' = live \cup {issued + 1}
    /\ row' = [status |-> "connected", version |-> row.version + 1, login |-> i,
               token |-> issued + 1, fresh |-> TRUE]
    /\ UNCHANGED <<lock, req, refused, unsaved, current, admin, turn, ended>>
\* persistCredentials: the transaction of replace waits for the refresh lock.
Replace(i) ==
    /\ flow[i].pc = "persist" /\ LockFree
    /\ flow' = [flow EXCEPT ![i].pc = "persisted"]
    /\ issued' = issued + 1 /\ live' = live \cup {issued + 1}
    /\ row' = [status |-> "connected", version |-> row.version + 1, login |-> i,
               token |-> issued + 1, fresh |-> TRUE]
    /\ UNCHANGED <<lock, req, refused, unsaved, current, admin, turn, ended>>

ConnectedUnlessAborted(i) ==
    /\ flow[i].pc = "persisted" /\ UNCHANGED sign_in_leaves
    /\ Ends(i, IF flow[i].aborted THEN "cancelled" ELSE "connected")
\* The credentials are stored: a cancellation since then is overruled.
Connected(i) == flow[i].pc = "persisted" /\ Ends(i, "connected") /\ UNCHANGED sign_in_leaves

Expired(i) == flow[i].pc = "poll" /\ Ends(i, "expired") /\ UNCHANGED sign_in_leaves

\* The catch block: an aborted wait or request, or a failure.
FlowFails(i) ==
    /\ flow[i].pc \in {"poll", "exchange", "persist"}
    /\ Ends(i, IF flow[i].aborted THEN "cancelled" ELSE "failed") /\ UNCHANGED sign_in_leaves
-----------------------------------------------------------------------------
(* The calls of administrators; start and cancel run one at a time.         *)

Call(a, op) ==
    /\ admin[a].pc = "idle" /\ admin' = [admin EXCEPT ![a] = [op |-> op, pc |-> "queued"]]
    /\ UNCHANGED <<row, lock, req, provider, flow, current, turn, ended>>

\* cancelCurrent aborts the sign-in ...
CancelCurrent(a) ==
    /\ admin[a].pc = "queued" /\ turn = Nobody /\ turn' = a
    /\ admin' = [admin EXCEPT ![a].pc = "await"]
    /\ flow' = IF current = 0 \/ (current # 0 /\ Terminal(current)) THEN flow
               ELSE [flow EXCEPT ![current].state = "cancelled", ![current].aborted = TRUE]
    /\ UNCHANGED <<row, lock, req, provider, current, ended>>

WithoutWaiting == TRUE
\* ... and waits for the end of its run.
RunEnded == current = 0 \/ (current # 0 /\ flow[current].pc = "ended")

Cancelled(a) ==
    /\ admin[a].pc = "await" /\ RunEnded /\ admin[a].op \in {"cancel", "disconnect"}
    /\ turn' = Nobody
    /\ admin' = [admin EXCEPT ![a].pc = IF admin[a].op = "cancel" THEN "idle" ELSE "delete"]
    /\ ended' = IF admin[a].op = "disconnect" THEN current ELSE ended
    /\ UNCHANGED <<row, lock, req, provider, flow, current>>

StartCurrent(a) ==
    /\ admin[a].pc = "await" /\ RunEnded /\ admin[a].op = "start"
    /\ turn' = Nobody /\ admin' = [admin EXCEPT ![a].pc = "idle"]
    /\ \/ /\ current < MaxFlows /\ current' = current + 1
          /\ flow' = [flow EXCEPT ![current'] = [pc |-> "poll", state |-> "pending", aborted |-> FALSE]]
       \/ UNCHANGED <<current, flow>>              \* the service refuses
    /\ UNCHANGED <<row, lock, req, provider, ended>>

\* Refused while a capability is routed to the provider; takes no refresh lock.
Disconnect(a) ==
    /\ admin[a].pc = "delete" /\ admin' = [admin EXCEPT ![a].pc = "idle"]
    /\ row' \in {row, NoRow}
    /\ UNCHANGED <<lock, req, provider, flow, current, turn, ended>>
-----------------------------------------------------------------------------
RequestStep(r) ==
    \/ Ask(r) \/ ReadForRequest(r) \/ RefreshRefused(r) \/ RefreshFails(r)
    \/ StoreRefreshed(r) \/ StoreFails(r) \/ MarkReauthenticationRequired(r)
    \/ \E b \in BOOLEAN : Refreshed(r, b) \/ Respond(r, b)
FlowStep(i) ==
    PollAuthorized(i) \/ Exchanged(i) \/ Replace(i) \/ Connected(i) \/ Expired(i) \/ FlowFails(i)
ControllerStep(a) == CancelCurrent(a) \/ Cancelled(a) \/ StartCurrent(a) \/ Disconnect(a)

Next ==
    \/ \E r \in Requests : RequestStep(r)
    \/ \E i \in Flows : FlowStep(i)
    \/ \E a \in Admins : ControllerStep(a) \/ \E op \in {"start", "cancel", "disconnect"} : Call(a, op)
    \/ AccessExpires

Spec == Init /\ [][Next]_vars

\* Calls to the provider end and promises are carried on; the lock and the queue
\* of the controller serve whoever waits.
Fairness ==
    /\ \A r \in Requests : WF_vars(RequestStep(r) /\ req[r].pc # "new") /\ SF_vars(ReadForRequest(r))
    /\ \A i \in Flows : WF_vars(FlowStep(i))
    /\ \A a \in Admins : WF_vars(ControllerStep(a)) /\ SF_vars(CancelCurrent(a))

FairSpec == Spec /\ Fairness
-----------------------------------------------------------------------------
\* Type invariant.
TypeOK ==
    /\ row.status \in {"none", "connected", "reauth-required"} /\ row.login \in 0 .. MaxFlows
    /\ row.token \in 0 .. issued /\ row.version \in Nat /\ row.fresh \in BOOLEAN
    /\ lock \in Requests \cup {Nobody} /\ live \cup refused \cup unsaved \subseteq 1 .. issued
    /\ \A r \in Requests :
          req[r].pc \in {"new", "wait", "refresh", "store", "reject", "call", "done"}
    /\ \A i \in Flows : flow[i].pc \in {"none", "poll", "exchange", "persist", "persisted", "ended"}
    /\ current \in 0 .. MaxFlows /\ ended \in 0 .. current /\ turn \in Admins \cup {Nobody}

\* A token the provider has taken back is never sent to it again, by requests that
\* refresh at the same moment or in turn, unless the answer to it was not stored.
NoTokenIsReplayed ==
    \A r \in Requests : req[r].pc = "refresh" => req[r].seen.token \in live \cup unsaved \cup refused

\* Requests that were refused the same access token refresh it once: whoever comes
\* later takes what the first one stored.
RefreshedOnce ==
    \A r \in Requests :
       (req[r].pc = "wait" /\ req'[r].pc = "refresh" /\ req[r].forced)
           => row.login # req[r].seen.login \/ row.version = req[r].seen.version

\* What an earlier sign-in still has under way, a refresh or its refusal, never
\* overwrites the credentials of a later sign-in.
SignInIsKept ==
    (row.status # "none" /\ row'.status # "none" /\ row' # row)
         => /\ row'.login >= row.login
            /\ (row'.status = "reauth-required" /\ row.status = "connected") => row.token \in refused

\* A sign-in that is reported as cancelled has not stored its credentials.
CancelledStoredNothing ==
    \A i \in Flows : (flow[i].pc = "ended" /\ flow[i].state = "cancelled") => row.login # i

\* A sign-in that was under way when an administrator disconnected does not bring
\* the connection back.
DisconnectEndsSignIns == \A i \in Flows : flow'[i].pc = "persisted" => flow[i].pc = "persisted" \/ i > ended

\* Every request gets an answer or an error, and every call of an administrator
\* returns, although a cancelled sign-in may be waiting for the lock of a refresh.
EveryoneReturns ==
    /\ \A r \in Requests : req[r].pc = "wait" ~> req[r].pc = "done"
    /\ \A a \in Admins : admin[a].pc # "idle" ~> admin[a].pc = "idle"
=============================================================================
