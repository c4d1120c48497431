-------------------------- MODULE DoclingServices --------------------------
(***************************************************************************)
(* The registry of Docling service instances: application processes bring  *)
(* the configured topology into the database, probe the services and       *)
(* record what they found, and conversion jobs are assigned to slots.      *)
(* Every store operation is one transaction under the registry lock;       *)
(* probes run outside it, and processes of different settings versions     *)
(* overlap.                                                                *)
(***************************************************************************)
EXTENDS Naturals, FiniteSets

CONSTANTS
    Services, Urls, Jobs, Processes,
    Capacities,     \* the capacities services are configured with
    MaxVersion,     \* bound: settings versions saved
    MaxStarts,      \* bound: process starts
    None

Versions == 1 .. MaxVersion
Configs == [url : Urls, capacity : Capacities]
Fingerprints == [version : Versions, config : Configs, role : {"configured", "draining"}]

ServicesAssumption ==
    /\ Capacities \subseteq Nat \ {0} /\ MaxVersion \in Nat \ {0} /\ MaxStarts \in Nat
    /\ None \notin Services \cup Urls \cup Configs \cup Fingerprints

Slots == UNION {1 .. c : c \in Capacities}

VARIABLES
    settings,   \* the topology of every settings version saved so far
    latest,     \* the number of settings versions
    row,        \* docling_service_instances
    job,        \* the assignment and the checkpoint of every job
    process,    \* version, and the probe under way with the target it read
    starts

vars == <<settings, latest, row, job, process, starts>>

\* A topology configures some services, at different addresses.
Topologies ==
    {t \in [Services -> Configs \cup {None}] :
        /\ \E s \in Services : t[s] # None
        /\ \A s, u \in Services : s # u /\ t[s] # None /\ t[u] # None => t[s].url # t[u].url}

\* The verification fingerprint: settings version, configuration and topology state.
Fingerprint(v, c, topologyState) == [version |-> v, config |-> c, role |-> topologyState]

NoRow == [state |-> "absent", config |-> None, verified |-> None, error |-> FALSE, fingerprint |-> None]
NoJob == [service |-> None, slot |-> 0, checkpoint |-> None, done |-> FALSE]
NoProbe == [service |-> None, config |-> None, fingerprint |-> None]
Stopped == [version |-> 0, ready |-> FALSE, probe |-> NoProbe]

Init ==
    /\ \E t \in Topologies : settings = [v \in Versions |-> t]
    /\ latest = 1 /\ row = [s \in Services |-> NoRow] /\ job = [j \in Jobs |-> NoJob]
    /\ process = [p \in Processes |-> Stopped] /\ starts = 0
-----------------------------------------------------------------------------
AssignedSlots(s) == {job[j].slot : j \in {k \in Jobs : job[k].service = s}}
CheckpointServices == {job[j].checkpoint : j \in Jobs} \ {None}

SaveSettings(t) ==
    /\ latest < MaxVersion /\ latest' = latest + 1
    /\ settings' = [v \in Versions |-> IF v > latest THEN t ELSE settings[v]]
    /\ UNCHANGED <<row, job, process, starts>>

\* A process starts, or starts over, with the settings of that moment.
StartProcess(p) ==
    /\ starts < MaxStarts /\ starts' = starts + 1
    /\ process' = [process EXCEPT ![p] = [Stopped EXCEPT !.version = latest]]
    /\ UNCHANGED <<settings, latest, row, job>>

\* validateServiceMutation: what jobs are assigned to may not change under them.
AnyMutation(s, c) == TRUE
MutationAllowed(s, c) ==
    AssignedSlots(s) = {} \/ row[s].state = "absent"
        \/ (row[s].config.url = c.url /\ \A n \in AssignedSlots(s) : n <= c.capacity)

UnknownState(state, c, f) == [state |-> "unverified", config |-> c, verified |-> None, error |-> TRUE, fingerprint |-> f]
Unverified(state, c, f) == [state |-> state, config |-> c, verified |-> None, error |-> TRUE, fingerprint |-> f]

\* reconcileUnconfiguredTopologyServices: a service in use drains.
DrainsWhenAssigned(s) == AssignedSlots(s) # {}
DrainsWhenReferenced(s) == AssignedSlots(s) # {} \/ s \in CheckpointServices
Removed(s, v) ==
    LET f == Fingerprint(v, row[s].config, "draining") IN
    IF ~DrainsWhenReferenced(s) THEN NoRow
    ELSE IF row[s].state = "draining" /\ row[s].fingerprint = f THEN row[s]
    ELSE Unverified("draining", row[s].config, f)

\* persistConfiguredService: a row with another fingerprint is unverified.
KeepsVerification(s, c, f) ==
    IF row[s].state = "absent" THEN Unverified("unavailable", c, f)
    ELSE [row[s] EXCEPT !.config = c, !.fingerprint = f]
Configured(s, c, f) ==
    IF row[s].state = "absent" \/ row[s].fingerprint # f THEN Unverified("unavailable", c, f)
    ELSE [row[s] EXCEPT !.config = c,
                        !.state = IF @ = "draining" THEN IF row[s].error THEN "unavailable" ELSE "active" ELSE @]

\* Services are written one after the other, in the order o of the settings,
\* under the unique index on the address: the address may not be that of a
\* service that drains or of one whose turn comes later.
Orders == {o \in [Services -> 1 .. Cardinality(Services)] : \A s, u \in Services : s # u => o[s] # o[u]}
AddressFree(s, t, o) ==
    \A u \in Services \ {s} :
        (row[u].state # "absent" /\ row[u].config.url = t[s].url)
            => \/ t[u] = None /\ ~DrainsWhenReferenced(u)
               \/ t[u] # None /\ o[u] < o[s]

\* reconcileTopology; a mutation that is not allowed or an address that is
\* taken undoes all of it, and the process does not come up.
ReconcileTopology(p) ==
    LET v == process[p].version
        t == settings[v]
    IN
    /\ v # 0 /\ ~process[p].ready
    /\ \E o \in Orders :
         IF \A s \in Services : t[s] # None => MutationAllowed(s, t[s]) /\ AddressFree(s, t, o)
         THEN /\ row' = [s \in Services |->
                           IF t[s] # None THEN Configured(s, t[s], Fingerprint(v, t[s], "configured"))
                           ELSE IF row[s].state = "absent" THEN NoRow
                           ELSE Removed(s, v)]
              /\ process' = [process EXCEPT ![p].ready = TRUE]
         ELSE process' = [process EXCEPT ![p] = Stopped] /\ UNCHANGED row
    /\ UNCHANGED <<settings, latest, job, starts>>
-----------------------------------------------------------------------------
\* verifyDemand and verifyTarget up to the answers of the service: the services
\* jobs are assigned to and, for unassigned jobs, the configured ones.
Demanded(p, s) ==
    \/ \E j \in Jobs : ~job[j].done /\ s \in {job[j].service, job[j].checkpoint}
    \/ settings[process[p].version][s] # None /\ \E j \in Jobs : ~job[j].done /\ job[j].service = None

VerifyTarget(p, s) ==
    /\ process[p].ready /\ process[p].probe = NoProbe /\ Demanded(p, s) /\ row[s].state # "absent"
    /\ process' = [process EXCEPT ![p].probe =
          [service |-> s, config |-> row[s].config,
           fingerprint |-> Fingerprint(process[p].version, row[s].config,
                                       IF row[s].state = "draining" THEN "draining" ELSE "configured")]]
    /\ UNCHANGED <<settings, latest, row, job, starts>>

\* recordVerification refuses what was found for another configuration.
StaleAccepted(q) == row[q.service].config = q.config
StillCurrent(q) ==
    /\ row[q.service].state # "absent"
    /\ row[q.service].config = q.config /\ row[q.service].fingerprint = q.fingerprint

LeavesError(q) ==
    [row[q.service] EXCEPT !.state = IF @ = "draining" THEN @ ELSE "active",
                           !.verified = q.fingerprint, !.fingerprint = q.fingerprint]
Verified(q) ==
    [row[q.service] EXCEPT !.state = IF @ = "draining" THEN @ ELSE "active",
                           !.verified = q.fingerprint, !.error = FALSE, !.fingerprint = q.fingerprint]
\* A failed probe keeps the identity and the fingerprint of the last good one.
Unreachable(q) ==
    [row[q.service] EXCEPT !.state = IF @ = "draining" THEN @ ELSE "unavailable", !.error = TRUE]

DropsVerdict(p, found) ==
    /\ process[p].probe # NoProbe /\ row' = row
    /\ process' = [process EXCEPT ![p].probe = NoProbe]
    /\ UNCHANGED <<settings, latest, job, starts>>
RecordVerification(p, found) ==
    LET q == process[p].probe IN
    /\ q # NoProbe
    /\ row' = IF ~StillCurrent(q) THEN row
              ELSE [row EXCEPT ![q.service] = IF found THEN Verified(q) ELSE Unreachable(q)]
    /\ process' = [process EXCEPT ![p].probe = NoProbe]
    /\ UNCHANGED <<settings, latest, job, starts>>
-----------------------------------------------------------------------------
\* createAssignment: the assignment may be used.
Usable(s) == row[s].state # "unavailable" /\ ~row[s].error /\ row[s].verified # None

\* readAssignableServices and the checkpoint affinity of ensureAssignment.
Eligible(j) ==
    IF job[j].checkpoint = None THEN {s \in Services : row[s].state = "active"}
    ELSE {s \in {job[j].checkpoint} : row[s].state \in {"active", "draining"}}

\* selectAvailableService: the least occupied service, then its lowest free slot.
WithRoom(S) == {s \in S : Cardinality(AssignedSlots(s)) < row[s].config.capacity}
LeastOccupied(S) ==
    {s \in WithRoom(S) : \A u \in WithRoom(S) :
        Cardinality(AssignedSlots(s)) * row[u].config.capacity <= Cardinality(AssignedSlots(u)) * row[s].config.capacity}
NextSlot(s) == Cardinality(AssignedSlots(s)) + 1
FreeSlot(s) == CHOOSE n \in 1 .. row[s].config.capacity :
                  n \notin AssignedSlots(s) /\ \A k \in 1 .. n - 1 : k \in AssignedSlots(s)

\* The transaction writes the assignment and is undone when it is not usable.
EnsureAssignment(j) ==
    /\ ~job[j].done /\ job[j].service = None
    /\ \E s \in LeastOccupied(Eligible(j)) :
          /\ Usable(s)
          /\ job' = [job EXCEPT ![j].service = s, ![j].slot = FreeSlot(s)]
    /\ UNCHANGED <<settings, latest, row, process, starts>>

\* The job store's side: a submitted task, one the service does not know any
\* more, a pause that keeps the task, and the end of the conversion.
RecordTask(j) ==
    /\ job[j].service # None /\ job[j].checkpoint = None /\ Usable(job[j].service)
    /\ job' = [job EXCEPT ![j].checkpoint = job[j].service]
    /\ UNCHANGED <<settings, latest, row, process, starts>>
ClearTask(j) ==
    /\ job[j].service # None /\ job[j].checkpoint # None /\ Usable(job[j].service)
    /\ job' = [job EXCEPT ![j].checkpoint = None]
    /\ UNCHANGED <<settings, latest, row, process, starts>>
Pause(j) ==
    /\ job[j].service # None
    /\ job' = [job EXCEPT ![j].service = None, ![j].slot = 0]
    /\ UNCHANGED <<settings, latest, row, process, starts>>
Converted(j) ==
    /\ job[j].checkpoint # None /\ job[j].service # None /\ Usable(job[j].service)
    /\ job' = [job EXCEPT ![j] = [NoJob EXCEPT !.done = TRUE]]
    /\ UNCHANGED <<settings, latest, row, process, starts>>
-----------------------------------------------------------------------------
Next ==
    \/ \E t \in Topologies : SaveSettings(t)
    \/ \E p \in Processes :
          \/ StartProcess(p) \/ ReconcileTopology(p)
          \/ \E s \in Services : VerifyTarget(p, s)
          \/ \E found \in BOOLEAN : RecordVerification(p, found)
    \/ \E j \in Jobs : EnsureAssignment(j) \/ RecordTask(j) \/ ClearTask(j) \/ Pause(j) \/ Converted(j)

Spec == Init /\ [][Next]_vars

\* Processes go on probing what jobs need, a service that is probed again and
\* again answers, and jobs that can be assigned are.
Fairness ==
    /\ \A p \in Processes :
          /\ WF_vars(StartProcess(p)) /\ WF_vars(ReconcileTopology(p))
          /\ \A s \in Services : SF_vars(VerifyTarget(p, s)) /\ SF_vars(process[p].probe.service = s /\ RecordVerification(p, TRUE))
          /\ WF_vars(RecordVerification(p, TRUE) \/ RecordVerification(p, FALSE))
    /\ \A j \in Jobs : SF_vars(EnsureAssignment(j)) /\ SF_vars(RecordTask(j)) /\ SF_vars(Converted(j))

FairSpec == Spec /\ Fairness
-----------------------------------------------------------------------------
\* The variables hold values of the expected sets.
TypeOK ==
    /\ \A s \in Services :
          /\ row[s].state \in {"absent", "active", "unavailable", "draining"}
          /\ row[s].config \in Configs \cup {None} /\ row[s].error \in BOOLEAN
          /\ row[s].state # "absent" => row[s].config # None
    /\ \A j \in Jobs : job[j].service \in Services \cup {None} /\ job[j].slot \in Slots \cup {0}
    /\ \A p \in Processes : process[p].version \in 0 .. latest /\ process[p].probe.service \in Services \cup {None}

\* Every row can be decoded: an active service is verified and has no error, an
\* unavailable one says why.  decodeServiceRow throws otherwise, for every
\* registry operation of every process.
RowsDecode ==
    \A s \in Services :
        /\ row[s].state = "active" => row[s].verified # None /\ ~row[s].error
        /\ row[s].state = "unavailable" => row[s].error

\* An active service was probed at the address and with the settings version
\* that its row has now: no answer a slow probe brings after a reconfiguration
\* makes a service available that nobody has verified.
VerifiedAsConfigured ==
    \A s \in Services : row[s].state = "active" =>
        /\ row[s].verified = row[s].fingerprint
        /\ row[s].verified.config = row[s].config

\* No slot is held by two jobs, and every held slot exists, whatever is
\* reconfigured in the meantime.
SlotsAreExclusive ==
    \A j \in Jobs : job[j].service # None =>
        /\ row[job[j].service].state # "absent"
        /\ job[j].slot \in 1 .. row[job[j].service].config.capacity
        /\ \A k \in Jobs \ {j} : job[k].service = job[j].service => job[k].slot # job[j].slot

\* A job whose remote task is known comes back to the service that has it, and
\* that service stays registered although it is no longer configured.
TaskIsReachable ==
    \A j \in Jobs : job[j].checkpoint # None =>
        /\ row[job[j].checkpoint].state # "absent"
        /\ job[j].service \in {None, job[j].checkpoint}

\* With one settings version and services that answer now and then, every job
\* is converted.
JobsAreConverted == \A j \in Jobs : <>job[j].done
=============================================================================
