--------------------------- MODULE RuntimeManager ---------------------------
(***************************************************************************)
(* The runtime of a web server (database pool, models, schedulers) for one *)
(* version of the organisation settings.  Saving settings, and a           *)
(* controller that watches for versions saved elsewhere, build the runtime *)
(* of a newer version and install it; requests hold leases on the runtime  *)
(* they started with, which is closed when the last lease is released.  A  *)
(* stream that is cancelled gives its lease back before its work is over.  *)
(***************************************************************************)
EXTENDS Naturals, FiniteSets

CONSTANTS
    Users,          \* requests, jobs and streams that lease a runtime
    Savers,         \* updateSettings calls of this server
    Controller,     \* the settings reload controller
    MaxVersion      \* settings versions that are saved

RuntimeAssumption ==
    IsFiniteSet(Users) /\ MaxVersion \in Nat \ {0} /\ Controller \notin Savers

VARIABLES
    stored,     \* application_settings: version
    current,    \* the version of the current slot
    slot,       \* RuntimeSlot by version: its life
    active,     \* activeLeases by version
    lease,      \* the users' leases
    latest,     \* latestRequestedSettingsVersion
    reload,     \* savers and the controller: what they build
    requested,  \* refreshRequested
    stop        \* how far the server is shut down

vars == <<stored, current, slot, active, lease, latest, reload, requested, stop>>

Versions == 1 .. MaxVersion
Loaders == Savers \cup {Controller}
NoLease == [version |-> 0, pc |-> "free"]
NoReload == [pc |-> "idle", version |-> 0]

Init ==
    /\ stored = 1 /\ current = 1 /\ latest = 1 /\ requested = FALSE /\ stop = "up"
    /\ slot = [v \in Versions |-> IF v = 1 THEN "open" ELSE "none"]
    /\ active = [v \in Versions |-> 0]
    /\ lease = [u \in Users |-> NoLease] /\ reload = [l \in Loaders |-> NoReload]

\* performShutdown has begun and no lease is given out any more.
Closing == stop \in {"reloads", "slots", "down"}
-----------------------------------------------------------------------------
(* Leases.                                                                  *)

\* closeIfDrained, after a retirement or a release
AfterDrain(s, n) == [v \in Versions |-> IF s[v] = "retired" /\ n[v] = 0 THEN "closing" ELSE s[v]]

\* withRuntime, withManagedRuntime and the streams
Acquire(u) ==
    /\ lease[u].pc = "free" /\ ~Closing
    /\ active' = [active EXCEPT ![current] = @ + 1]
    /\ lease' = [lease EXCEPT ![u] = [version |-> current, pc |-> "leased"]]
    /\ UNCHANGED <<stored, current, slot, latest, reload, requested, stop>>

\* The lease is given back at one of two points of the work.
LetsGoUnnoticed(u, pc) ==
    /\ lease[u].pc = "leased" /\ lease' = [lease EXCEPT ![u].pc = pc]
    /\ active' = [active EXCEPT ![lease[u].version] = @ - 1]
    /\ UNCHANGED <<stored, current, slot, latest, reload, requested, stop>>
LetsGo(u, pc) ==
    /\ lease[u].pc = "leased" /\ lease' = [lease EXCEPT ![u].pc = pc]
    /\ active' = [active EXCEPT ![lease[u].version] = @ - 1]
    /\ slot' = AfterDrain(slot, active')
    /\ UNCHANGED <<stored, current, latest, reload, requested, stop>>

\* A request, a managed task or a stream is over, or its operation throws.
Release(u) == LetsGo(u, "ended")

\* RuntimeStreamBridge.cancel: the reader is cancelled, if start has one by now,
\* and the lease is given back.  Nothing waits for the operation start awaits, nor
\* for what works behind the stream: they go on with the runtime.
CancelStream(u) == LetsGo(u, "cancelled")

ReleaseTwice(u) ==
    /\ lease[u].pc \in {"ended", "cancelled"} /\ lease' = [lease EXCEPT ![u] = NoLease]
    /\ active' = [active EXCEPT ![lease[u].version] = IF @ = 0 THEN 0 ELSE @ - 1]
    /\ slot' = AfterDrain(slot, active')
    /\ UNCHANGED <<stored, current, latest, reload, requested, stop>>
\* A stream that ended is cancelled, or the work of a cancelled one ends: it
\* releases once more, without effect.
ReleaseAgain(u) ==
    /\ lease[u].pc \in {"ended", "cancelled"} /\ lease' = [lease EXCEPT ![u] = NoLease]
    /\ UNCHANGED <<stored, current, slot, active, latest, reload, requested, stop>>

\* The pool of a drained runtime is closed, with or without an error.
FinishClose(v) ==
    /\ slot[v] = "closing" /\ slot' = [slot EXCEPT ![v] = "closed"]
    /\ UNCHANGED <<stored, current, active, lease, latest, reload, requested, stop>>
-----------------------------------------------------------------------------
(* Saving and reloading.                                                    *)

\* ApplicationSettingsRepository.update on this server, under a lease.
Save(s) ==
    /\ reload[s].pc = "idle" /\ ~Closing /\ stored < MaxVersion /\ stored' = stored + 1
    /\ reload' = [reload EXCEPT ![s] = [pc |-> "saved", version |-> stored + 1]]
    /\ UNCHANGED <<current, slot, active, lease, latest, requested, stop>>

\* Another server or the source content migration saves settings.
SavedElsewhere ==
    /\ stored < MaxVersion /\ stored' = stored + 1
    /\ UNCHANGED <<current, slot, active, lease, latest, reload, requested, stop>>

\* A saver returns; the controller goes on with its loop.
Returns(l) == [reload EXCEPT ![l] = IF l = Controller THEN [pc |-> "loop", version |-> 0] ELSE NoReload]

\* The version is compared first; reload refuses once the server is closing.
Reload(l) ==
    /\ reload[l].pc = "saved"
    /\ IF reload[l].version > current /\ ~Closing
       THEN /\ latest' = IF latest > reload[l].version THEN latest ELSE reload[l].version
            /\ reload' = [reload EXCEPT ![l].pc = "build"]
       ELSE reload' = Returns(l) /\ latest' = latest
    /\ UNCHANGED <<stored, current, slot, active, lease, requested, stop>>

NewerThanRequested(v) == v > latest /\ v > current
AnyBuilt(v) == slot[v] = "none"
Installable(v) == v >= latest /\ v > current

InstallWithoutRetiring(l) ==
    /\ reload[l].pc = "build" /\ Installable(reload[l].version) /\ ~Closing
    /\ slot' = [slot EXCEPT ![reload[l].version] = "open"]
    /\ current' = reload[l].version /\ reload' = Returns(l)
    /\ UNCHANGED <<stored, active, lease, latest, requested, stop>>
\* buildAndInstall, when the candidate is built
Install(l) ==
    LET v == reload[l].version IN
    /\ reload[l].pc = "build"
    /\ IF Installable(v) /\ ~Closing
       THEN /\ slot' = AfterDrain([slot EXCEPT ![current] = "retired", ![v] = "open"], active)
            /\ current' = v /\ reload' = Returns(l)
       ELSE reload' = [reload EXCEPT ![l].pc = "discard"] /\ UNCHANGED <<current, slot>>
    /\ UNCHANGED <<stored, active, lease, latest, requested, stop>>

\* A candidate that came too late is closed before reload returns.
CloseCandidate(l) ==
    /\ reload[l].pc = "discard" /\ reload' = Returns(l)
    /\ UNCHANGED <<stored, current, slot, active, lease, latest, requested, stop>>

\* buildApplicationRuntime throws and closes what it opened.
BuildFails(l) ==
    /\ reload[l].pc = "build" /\ reload' = Returns(l)
    /\ UNCHANGED <<stored, current, slot, active, lease, latest, requested, stop>>
-----------------------------------------------------------------------------
(* createSettingsReloadController                                           *)

\* A notification of the settings channel (which may be lost), or the timer.
RequestRefresh ==
    /\ stop = "up" /\ requested' = TRUE
    /\ reload' = IF reload[Controller].pc = "idle"
                 THEN [reload EXCEPT ![Controller].pc = "loop"] ELSE reload
    /\ UNCHANGED <<stored, current, slot, active, lease, latest, stop>>
Fallback == ~requested /\ RequestRefresh

Refresh ==
    /\ reload[Controller].pc = "loop" /\ requested /\ stop = "up" /\ requested' = FALSE
    /\ reload' = [reload EXCEPT ![Controller] = [pc |-> "saved", version |-> stored]]
    /\ UNCHANGED <<stored, current, slot, active, lease, latest, stop>>

\* The settings cannot be read: the error is reported.
ReadFails ==
    /\ reload[Controller].pc = "loop" /\ requested /\ stop = "up" /\ requested' = FALSE
    /\ UNCHANGED <<stored, current, slot, active, lease, latest, reload, stop>>

RefreshEnds ==
    /\ reload[Controller].pc = "loop" /\ (~requested \/ stop # "up")
    /\ reload' = [reload EXCEPT ![Controller] = NoReload]
    /\ UNCHANGED <<stored, current, slot, active, lease, latest, requested, stop>>
-----------------------------------------------------------------------------
(* Shutting down: the controller first, then the manager.                   *)

Close ==
    /\ stop = "up" /\ stop' = "controller"
    /\ UNCHANGED <<stored, current, slot, active, lease, latest, reload, requested>>

ShutdownStarts ==
    /\ stop = "controller" /\ reload[Controller].pc = "idle" /\ stop' = "reloads"
    /\ UNCHANGED <<stored, current, slot, active, lease, latest, reload, requested>>

NoneAwaited == TRUE
ReloadsSettled == \A l \in Loaders : reload[l].pc \notin {"build", "discard"}

RetireCurrent ==
    /\ stop = "reloads" /\ ReloadsSettled /\ stop' = "slots"
    /\ slot' = AfterDrain([slot EXCEPT ![current] = "retired"], active)
    /\ UNCHANGED <<stored, current, active, lease, latest, reload, requested>>

ShutdownEnds ==
    /\ stop = "slots" /\ stop' = "down"
    /\ \A v \in Versions : slot[v] \in {"none", "closed"}
    /\ UNCHANGED <<stored, current, slot, active, lease, latest, reload, requested>>
-----------------------------------------------------------------------------
Stopping == ShutdownStarts \/ RetireCurrent \/ ShutdownEnds
Looping == Refresh \/ ReadFails \/ RefreshEnds

Next ==
    \/ \E u \in Users : Acquire(u) \/ Release(u) \/ CancelStream(u) \/ ReleaseAgain(u)
    \/ \E v \in Versions : FinishClose(v)
    \/ \E s \in Savers : Save(s)
    \/ \E l \in Loaders : Reload(l) \/ Install(l) \/ BuildFails(l) \/ CloseCandidate(l)
    \/ SavedElsewhere \/ RequestRefresh \/ Looping \/ Close \/ Stopping

Spec == Init /\ [][Next]_vars

\* Requests end, pools close, the timer fires, and a build or a reading of the
\* settings that is tried again and again succeeds in the end.
Fairness ==
    /\ \A u \in Users : WF_vars(Release(u))
    /\ \A v \in Versions : WF_vars(FinishClose(v))
    /\ \A l \in Loaders : WF_vars(Reload(l)) /\ SF_vars(Install(l)) /\ WF_vars(CloseCandidate(l))
    /\ WF_vars(Fallback) /\ SF_vars(Refresh) /\ WF_vars(RefreshEnds) /\ WF_vars(Stopping)

FairSpec == Spec /\ Fairness
-----------------------------------------------------------------------------
\* Type invariant; only the current runtime is not retired.
TypeOK ==
    /\ stored \in Versions /\ latest \in Versions /\ requested \in BOOLEAN
    /\ slot \in [Versions -> {"none", "open", "retired", "closing", "closed"}]
    /\ active \in [Versions -> 0 .. Cardinality(Users)]
    /\ lease \in [Users -> [version : 0 .. MaxVersion, pc : {"free", "leased", "cancelled", "ended"}]]
    /\ reload \in [Loaders -> [pc : {"idle", "loop", "saved", "build", "discard"}, version : 0 .. MaxVersion]]
    /\ stop \in {"up", "controller", "reloads", "slots", "down"}
    /\ {v \in Versions : slot[v] = "open"} = IF stop \in {"slots", "down"} THEN {} ELSE {current}

\* Whoever holds a lease works with a runtime whose database pool is not being
\* closed, however its lease, the leases of others, a reload and the shutdown
\* interleave.  That is all the work of requests and managed tasks, which hold their
\* lease to the end, and that of a stream until it is cancelled: one that was
\* cancelled may still be working when the pool closes (runtime.ts:387).
LeasedIsOpen == \A u \in Users : lease[u].pc = "leased" => slot[lease[u].version] \in {"open", "retired"}

\* The installed settings are never replaced by older ones: runtimes may be built
\* out of order, by savers and the controller at once.
NeverGoesBack == current' >= current

\* A runtime is either current, about to be closed or closed; the shutdown returns
\* when none is open, neither one that was replaced nor one that was just built.
ShutdownLeavesNothing ==
    stop = "down" => /\ \A v \in Versions : slot[v] \in {"none", "closed"}
                     /\ \A l \in Loaders : reload[l].pc \notin {"build", "discard"}

\* What is saved takes effect on this server, wherever it was saved, although
\* notifications are lost and builds fail.
SavedTakesEffect ==
    \A v \in Versions :
        stored = v ~> (stop # "up" \/ current >= v)

\* A shutdown that is asked for ends, after the requests that hold a lease.
ShutdownFinishes == stop # "up" ~> stop = "down"
=============================================================================
