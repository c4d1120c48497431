----------------------------- MODULE TaskLimiter -----------------------------
(***************************************************************************)
(* TaskLimiter.run and startManagedTask: callers of one event loop share   *)
(* Capacity places.  A released place is handed to the first waiter, whose *)
(* continuation runs later: in between its signal may abort.               *)
(***************************************************************************)
EXTENDS Naturals, Sequences, FiniteSets, SequencesExt

CONSTANTS Tasks, Capacity

LimiterAssumption == Capacity \in Nat \ {0} /\ IsFiniteSet(Tasks)

VARIABLES
    active,     \* activeTasks
    waiters,    \* tasks waiting for a place
    pc,         \* where each run() is
    aborted,    \* tasks whose signal is aborted
    started     \* what startManagedTask told its caller: "pending", "value", "error"

vars == <<active, waiters, pc, aborted, started>>

Init ==
    /\ active = 0 /\ waiters = <<>> /\ aborted = {}
    /\ pc = [t \in Tasks |-> "idle"] /\ started = [t \in Tasks |-> "none"]

Goes(t, s) == pc' = [pc EXCEPT ![t] = s]
Rejected(t) == [started EXCEPT ![t] = "error"]
StillWaiting(t) == waiters
\* waiters.indexOf and splice.
Removed(t) == RemoveFirst(waiters, t)

\* acquire: an aborted caller fails at once, others take a place or wait.
Run(t) ==
    /\ pc[t] = "idle"
    /\ IF t \in aborted
       THEN Goes(t, "ended") /\ started' = Rejected(t) /\ UNCHANGED <<active, waiters>>
       ELSE /\ started' = [started EXCEPT ![t] = "pending"]
            /\ IF active < Capacity
               THEN active' = active + 1 /\ Goes(t, "granted") /\ UNCHANGED waiters
               ELSE waiters' = Append(waiters, t) /\ Goes(t, "waiting") /\ UNCHANGED active
    /\ UNCHANGED aborted

\* The caller's signal: a waiter leaves the queue.  A place that was handed to
\* the task before is kept until its continuation runs.
Abort(t) ==
    /\ t \notin aborted /\ aborted' = aborted \cup {t}
    /\ IF pc[t] = "waiting"
       THEN waiters' = Removed(t) /\ Goes(t, "ended") /\ started' = Rejected(t)
       ELSE UNCHANGED <<waiters, pc, started>>
    /\ UNCHANGED active

GivenBack(t, s) ==
    /\ active' = active - 1
    /\ IF waiters = <<>> THEN Goes(t, s) /\ UNCHANGED waiters
       ELSE waiters' = Tail(waiters) /\ pc' = [pc EXCEPT ![t] = s, ![Head(waiters)] = "granted"]
Dropped(t, s) == active' = active - 1 /\ Goes(t, s) /\ UNCHANGED waiters
\* release: the place goes to the first waiter, or back.
Handed(t, s) ==
    IF waiters = <<>>
    THEN active' = active - 1 /\ Goes(t, s) /\ UNCHANGED waiters
    ELSE /\ waiters' = Tail(waiters) /\ UNCHANGED active
         /\ pc' = [pc EXCEPT ![t] = s, ![Head(waiters)] = "granted"]

\* The continuation of a granted run: its signal is looked at once more.
Continue(t) ==
    /\ pc[t] = "granted"
    /\ IF t \in aborted
       THEN Handed(t, "ended") /\ started' = Rejected(t)
       ELSE Goes(t, "starting") /\ UNCHANGED <<active, waiters, started>>
    /\ UNCHANGED aborted

\* start() answers: its value goes to the caller while the task goes on.
Started(t) ==
    /\ pc[t] = "starting" /\ Goes(t, "running")
    /\ started' = [started EXCEPT ![t] = "value"]
    /\ UNCHANGED <<active, waiters, aborted>>
StartFails(t) ==
    /\ pc[t] = "starting" /\ Handed(t, "ended") /\ started' = Rejected(t)
    /\ UNCHANGED aborted

\* The completion settles, well or not; a rejection no longer changes what the
\* caller of startManagedTask got.
Complete(t) ==
    /\ pc[t] = "running" /\ Handed(t, "ended")
    /\ UNCHANGED <<aborted, started>>

Again(t) ==
    /\ pc[t] = "ended" /\ Goes(t, "idle") /\ aborted' = aborted \ {t}
    /\ started' = [started EXCEPT ![t] = "none"]
    /\ UNCHANGED <<active, waiters>>

Next == \E t \in Tasks :
    Run(t) \/ Abort(t) \/ Continue(t) \/ Started(t) \/ StartFails(t) \/ Complete(t) \/ Again(t)

Spec == Init /\ [][Next]_vars
\* The event loop runs what is ready, and tasks end.
Fairness == \A t \in Tasks :
    WF_vars(Continue(t)) /\ WF_vars(Started(t) \/ StartFails(t)) /\ WF_vars(Complete(t))

FairSpec == Spec /\ Fairness
-----------------------------------------------------------------------------
Holders == {t \in Tasks : pc[t] \in {"granted", "starting", "running"}}

\* Type invariant.
TypeOK ==
    /\ active \in 0 .. Capacity /\ waiters \in Seq(Tasks) /\ aborted \subseteq Tasks
    /\ pc \in [Tasks -> {"idle", "waiting", "granted", "starting", "running", "ended"}]
    /\ started \in [Tasks -> {"none", "pending", "value", "error"}]

\* activeTasks counts exactly the runs that own a place, through every handover
\* and every abort between a handover and its continuation.
CountsHolders == active = Cardinality(Holders)

\* The queue holds exactly the waiting runs, once each: no place is ever handed
\* to a run that has gone.
QueueIsExact ==
    /\ ToSet(waiters) = {t \in Tasks : pc[t] = "waiting"}
    /\ Len(waiters) = Cardinality(ToSet(waiters))

\* Nobody waits while a place is free.
NoIdlePlace == waiters # <<>> => active = Capacity

\* Every caller of startManagedTask gets a value or an error.
CallersAreAnswered == \A t \in Tasks : started[t] = "pending" ~> started[t] # "pending"
=============================================================================
